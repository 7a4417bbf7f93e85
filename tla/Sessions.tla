------------------------------ MODULE Sessions ------------------------------
(***************************************************************************)
(* Sign-in, refresh sessions and what ends them, for one account, on the   *)
(* production database (PostgreSQL, READ COMMITTED).                       *)
(*                                                                         *)
(* A sign-in is two transactions: the credential check, and the creation   *)
(* of the session.  A transaction that locks the user row first (sign-in,  *)
(* password change, reset) is one action.  The administrator's status      *)
(* change and the create-admin command read the user without a lock, and   *)
(* because the factory sets autoflush=False they send the session          *)
(* revocation before the user update: they are three actions.              *)
(*                                                                         *)
(* The refresh tokens of a session form a chain: token n is consumed by    *)
(* the rotation that makes token n + 1 current.  A token is its number.    *)
(***************************************************************************)
EXTENDS Integers, FiniteSets

CONSTANTS
    Logins,       \* sign-in requests in flight
    SessionIds,   \* refresh_sessions rows, each with the browser that holds it
    Requests,     \* authenticated requests in flight
    ResetIds,     \* password_resets rows
    Ops,          \* what a request asks for
    AdminOps,     \* subset of {"toggle", "rebind"}
    TrustedHeader,\* authentication_mode = "trusted_header"
    Limit,        \* _LOGIN_LOCKOUT_ATTEMPTS
    Legacy,       \* the row reached Limit before locked_until was kept
    Prompt,       \* answers arrive, and within the five-second grace
    MaxVersion,   \* bound on security_version
    MaxGen,       \* bound on the rotations of one session
    MaxWrong      \* bound on wrong passwords presented

VARIABLES user, login, admin, sess, jar, req, reset, epoch, wrong, tries

vars == <<user, login, admin, sess, jar, req, reset, epoch, wrong, tries>>

Account == [status : {"active", "disabled"}, version : 1..MaxVersion,
            hash : Nat, attempts : 0..Limit, lock : {"none", "running", "over"}]
NoJar == [gen |-> -1, access |-> 0, csrf |-> FALSE]
NoSession == [state |-> "absent", gen |-> 0, grace |-> FALSE, basis |-> 0, why |-> "none"]
NoLogin == [pc |-> "idle", version |-> 0, basis |-> 0]
NoRequest == [pc |-> "idle"]
NoAdmin == [pc |-> "idle"]

TypeOK ==
    /\ user \in Account
    /\ login \in [Logins -> [pc : {"idle", "verified", "done", "rejected"},
                             version : 0..MaxVersion, basis : Nat]]
    /\ admin = NoAdmin \/ admin \in [pc : {"read", "revoked"}, op : AdminOps, seen : Account]
    /\ sess \in [SessionIds -> [state : {"absent", "live", "revoked", "expired"},
                                gen : 0..MaxGen, grace : BOOLEAN, basis : Nat,
                                why : {"none", "reuse", "asked", "security"}]]
    /\ jar \in [SessionIds -> [gen : -1..MaxGen, access : 0..MaxVersion, csrf : BOOLEAN]]
    /\ reset \in [ResetIds -> {"none", "open", "used", "expired"}]
    /\ epoch \in Nat /\ wrong \in 0..MaxWrong /\ tries \in Nat

Init ==
    /\ user = [status |-> "active", version |-> 1, hash |-> 1,
               attempts |-> IF Legacy THEN Limit ELSE 0, lock |-> "none"]
    /\ login = [l \in Logins |-> NoLogin]
    /\ admin = NoAdmin
    /\ sess = [s \in SessionIds |-> NoSession]
    /\ jar = [s \in SessionIds |-> NoJar]
    /\ req = [r \in Requests |-> NoRequest]
    /\ reset = [t \in ResetIds |-> "none"]
    /\ epoch = 0 /\ wrong = 0 /\ tries = 0

Live(s) == sess[s].state = "live"
InFlight(s) == \E r \in Requests : req[r].pc # "idle" /\ req[r].s = s

revoke_all_sessions(S) ==
    [s \in SessionIds |-> IF S[s].state = "live"
                          THEN [S[s] EXCEPT !.state = "revoked", !.why = "security"] ELSE S[s]]

-----------------------------------------------------------------------------
(* services/sessions.py: the credential check                              *)

(***************************************************************************)
(* The row is locked for the whole transaction.  An elapsed lock is        *)
(* cleared on the loaded object only; the conditional updates still see    *)
(* the stored counter at the limit and match nothing; the commit then      *)
(* writes the cleared counter.                                             *)
(***************************************************************************)
Counted(u) == IF u.attempts >= Limit THEN u
              ELSE [u EXCEPT !.attempts = @ + 1,
                             !.lock = IF u.attempts + 1 >= Limit THEN "running" ELSE "none"]
wrong_Unlocked(u) == [u EXCEPT !.lock = "none"]
Unlocked(u) == [u EXCEPT !.attempts = 0, !.lock = "none"]
counts_failure(u) == u.status = "active"
clears_failures(u) == u.attempts < Limit

Reject(l, u) == /\ user' = u /\ login' = [login EXCEPT ![l] = [NoLogin EXCEPT !.pc = "rejected"]]

authenticate_user(l, valid) ==
    /\ ~TrustedHeader
    /\ login[l].pc # "verified"
    /\ \E s \in SessionIds : sess[s].state = "absent"
    /\ valid \/ wrong < MaxWrong
    /\ wrong' = IF valid THEN wrong ELSE wrong + 1
    /\ \/ /\ user.lock = "running"                                  \* AccountLockedError
          /\ Reject(l, user) /\ UNCHANGED tries
       \/ /\ user.lock = "none" /\ user.attempts >= Limit           \* older row
          /\ Reject(l, [user EXCEPT !.lock = "running"]) /\ UNCHANGED tries
       \/ /\ user.lock = "over" /\ ~clears_failures(user)           \* counter not yet written
          /\ Reject(l, Unlocked(user))
          /\ tries' = IF valid THEN 0 ELSE 1
       \/ /\ user.lock = "none" /\ user.attempts < Limit
          /\ ~valid \/ user.status # "active"
          /\ Reject(l, IF counts_failure(user) THEN Counted(user) ELSE user)
          /\ tries' = IF counts_failure(user) THEN tries + 1 ELSE tries
       \/ /\ user.lock # "running" /\ valid /\ user.status = "active" /\ clears_failures(user)
          /\ user' = Unlocked(user)
          /\ login' = [login EXCEPT ![l] = [pc |-> "verified", version |-> user.version,
                                            basis |-> epoch]]
          /\ tries' = 0
    /\ UNCHANGED <<admin, sess, jar, req, reset, epoch>>

authenticate_trusted_identity(l) ==
    /\ TrustedHeader
    /\ login[l].pc # "verified"
    /\ \E s \in SessionIds : sess[s].state = "absent"
    /\ IF user.status = "active"
       THEN login' = [login EXCEPT ![l] = [pc |-> "verified", version |-> user.version,
                                           basis |-> epoch]]
       ELSE login' = [login EXCEPT ![l] = [NoLogin EXCEPT !.pc = "rejected"]]
    /\ UNCHANGED <<user, admin, sess, jar, req, reset, epoch, wrong, tries>>

wrong_expected(l) == user.status = "active"
expected(l) == user.status = "active" /\ user.version = login[l].version

create_session(l, s) ==
    /\ login[l].pc = "verified"
    /\ sess[s].state = "absent"
    /\ IF expected(l)
       THEN /\ sess' = [sess EXCEPT ![s] = [NoSession EXCEPT !.state = "live",
                                                             !.basis = login[l].basis]]
            /\ jar' = [jar EXCEPT ![s] = [gen |-> 0, access |-> user.version, csrf |-> TRUE]]
            /\ login' = [login EXCEPT ![l] = [NoLogin EXCEPT !.pc = "done"]]
       ELSE /\ login' = [login EXCEPT ![l] = [NoLogin EXCEPT !.pc = "rejected"]]
            /\ UNCHANGED <<sess, jar>>
    /\ UNCHANGED <<user, admin, req, reset, epoch, wrong, tries>>

-----------------------------------------------------------------------------
(* dependencies.py and rotate_session: authenticating a request            *)

Send(r, s, op) ==
    /\ req[r].pc = "idle" /\ jar[s].gen >= 0
    /\ req' = [req EXCEPT ![r] = [pc |-> "sent", s |-> s, op |-> op, jar |-> jar[s],
                                  set |-> NoJar, act |-> "keep"]]
    /\ UNCHANGED <<user, login, admin, sess, jar, reset, epoch, wrong, tries>>

access_accepted(q) ==
    /\ q.jar.access # 0 /\ q.jar.access = user.version
    /\ user.status = "active" /\ Live(q.s)

rotates(q) == Live(q.s) /\ sess[q.s].gen = q.jar.gen
replayed(q) == q.jar.gen < sess[q.s].gen
duplicate_is_current(q) ==
    /\ replayed(q) /\ q.jar.gen + 1 = sess[q.s].gen
    /\ sess[q.s].grace /\ Live(q.s) /\ user.status = "active"

Authed(r, act, g) ==
    req' = [req EXCEPT ![r].pc = "authed", ![r].act = act,
                       ![r].set = [gen |-> g, access |-> user.version, csrf |-> TRUE]]
Answered(r, act) == req' = [req EXCEPT ![r].pc = "answered", ![r].act = act]

get_optional_auth(r) ==
    LET q == req[r] IN
    /\ q.pc = "sent"
    /\ \/ /\ access_accepted(q)
          /\ Authed(r, "keep", q.jar.gen) /\ UNCHANGED sess
       \/ /\ ~access_accepted(q) /\ rotates(q) /\ user.status = "active" /\ q.jar.gen < MaxGen
          /\ sess' = [sess EXCEPT ![q.s].gen = @ + 1, ![q.s].grace = TRUE]
          /\ Authed(r, "set", q.jar.gen + 1)
       \/ /\ ~access_accepted(q) /\ duplicate_is_current(q)
          /\ IF q.jar.csrf THEN Authed(r, "set", q.jar.gen + 1)
                           ELSE Answered(r, "none")                 \* RefreshOverlapRetry: 409
          /\ UNCHANGED sess
       \/ /\ ~access_accepted(q) /\ replayed(q) /\ ~duplicate_is_current(q)
          /\ sess' = [sess EXCEPT ![q.s].state = IF Live(q.s) THEN "revoked" ELSE @,
                                  ![q.s].why = IF Live(q.s) THEN "reuse" ELSE @]
          /\ Answered(r, "clear")
       \/ /\ ~access_accepted(q) /\ ~replayed(q)
          /\ ~(rotates(q) /\ user.status = "active")
          /\ Answered(r, "clear") /\ UNCHANGED sess
    /\ UNCHANGED <<user, login, admin, jar, reset, epoch, wrong, tries>>

revoke_session(s) ==
    sess' = [sess EXCEPT ![s].state = IF Live(s) THEN "revoked" ELSE @,
                         ![s].why = IF Live(s) THEN "asked" ELSE @]

consume_resets(R) == [t \in ResetIds |-> IF R[t] = "open" THEN "used" ELSE R[t]]

NewPassword(u) == [Unlocked(u) EXCEPT !.hash = @ + 1, !.version = @ + 1]

change_password ==
    /\ user.version < MaxVersion
    /\ user' = NewPassword(user)
    /\ sess' = revoke_all_sessions(sess)
    /\ reset' = consume_resets(reset)
    /\ epoch' = epoch + 1 /\ tries' = 0

page(r) == Answered(r, req[r].act) /\ UNCHANGED <<user, sess, reset, epoch, tries>>

logout_submit(r) ==
    /\ revoke_session(req[r].s)
    /\ Answered(r, "clear") /\ UNCHANGED <<user, reset, epoch, tries>>

revoke_session_submit(r) ==
    /\ \E s \in SessionIds : revoke_session(s)
    /\ Answered(r, req[r].act) /\ UNCHANGED <<user, reset, epoch, tries>>

password_change_submit(r) ==
    \/ change_password /\ Answered(r, "clear")
    \/ page(r)                      \* mode, mismatch, current password or policy

Perform(r) ==
    /\ req[r].pc = "authed"
    /\ \/ req[r].op = "view" /\ page(r)
       \/ req[r].op = "logout" /\ logout_submit(r)
       \/ req[r].op = "revoke" /\ revoke_session_submit(r)
       \/ req[r].op = "change" /\ ~TrustedHeader /\ password_change_submit(r)
    /\ UNCHANGED <<login, admin, jar, wrong>>

(* The middleware adds the cookies of a rotation to the answer unless the  *)
(* handler cleared them; a session proof alone restores the CSRF cookie.   *)
set_auth_cookies(q) ==
    CASE q.act = "set" -> q.set
      [] q.act = "clear" -> NoJar
      [] q.act = "none" -> jar[q.s]
      [] OTHER -> [jar[q.s] EXCEPT !.csrf = TRUE]

Deliver(r) ==
    /\ req[r].pc = "answered"
    /\ jar' = [jar EXCEPT ![req[r].s] = set_auth_cookies(req[r])]
    /\ req' = [req EXCEPT ![r] = NoRequest]
    /\ UNCHANGED <<user, login, admin, sess, reset, epoch, wrong, tries>>

Lose(r) ==
    /\ ~Prompt /\ req[r].pc = "answered"
    /\ req' = [req EXCEPT ![r] = NoRequest]
    /\ UNCHANGED <<user, login, admin, sess, jar, reset, epoch, wrong, tries>>

DropCsrfCookie(s) ==
    /\ jar[s].csrf
    /\ jar' = [jar EXCEPT ![s].csrf = FALSE]
    /\ UNCHANGED <<user, login, admin, sess, req, reset, epoch, wrong, tries>>

-----------------------------------------------------------------------------
(* Password reset links                                                    *)

request_password_reset(t) ==
    /\ ~TrustedHeader /\ reset[t] = "none" /\ user.status = "active"
    /\ reset' = [consume_resets(reset) EXCEPT ![t] = "open"]
    /\ UNCHANGED <<user, login, admin, sess, jar, req, epoch, wrong, tries>>

complete_password_reset(t) ==
    /\ ~TrustedHeader /\ reset[t] = "open" /\ user.status = "active"
    /\ user.version < MaxVersion
    /\ user' = NewPassword(user)
    /\ reset' = [consume_resets(reset) EXCEPT ![t] = "used"]
    /\ sess' = revoke_all_sessions(sess)
    /\ epoch' = epoch + 1 /\ tries' = 0
    /\ UNCHANGED <<login, admin, jar, req, wrong>>

-----------------------------------------------------------------------------
(* The administrator's status change, and create-admin on an existing user *)

AdminRead(op) ==
    /\ admin = NoAdmin /\ user.version < MaxVersion
    /\ admin' = [pc |-> "read", op |-> op, seen |-> user]
    /\ UNCHANGED <<user, login, sess, jar, req, reset, epoch, wrong, tries>>

ends_sessions(a) == a.op = "rebind" \/ a.seen.status = "active"

AdminRevoke ==
    /\ admin.pc = "read"
    /\ sess' = IF ends_sessions(admin) THEN revoke_all_sessions(sess) ELSE sess
    /\ admin' = [admin EXCEPT !.pc = "revoked"]
    /\ UNCHANGED <<user, login, jar, req, reset, epoch, wrong, tries>>

toggled(u, seen) ==
    IF seen.status = "active" THEN [u EXCEPT !.status = "disabled", !.version = seen.version + 1]
    ELSE [Unlocked(u) EXCEPT !.status = "active", !.version = seen.version + 1]
rebound(u, seen) ==
    [Unlocked(u) EXCEPT !.status = "active", !.hash = @ + 1, !.version = seen.version + 1]

AdminCommit ==
    /\ admin.pc = "revoked"
    /\ user' = IF admin.op = "toggle" THEN toggled(user, admin.seen) ELSE rebound(user, admin.seen)
    /\ epoch' = IF ends_sessions(admin) THEN epoch + 1 ELSE epoch
    /\ tries' = IF user'.attempts = 0 THEN 0 ELSE tries
    /\ admin' = NoAdmin
    /\ UNCHANGED <<login, sess, jar, req, reset, wrong>>

-----------------------------------------------------------------------------
(* Time                                                                    *)

LockElapses ==
    /\ user.lock = "running"
    /\ user' = [user EXCEPT !.lock = "over"]
    /\ UNCHANGED <<login, admin, sess, jar, req, reset, epoch, wrong, tries>>

GraceElapses(s) ==
    /\ sess[s].grace /\ (Prompt => ~InFlight(s))
    /\ sess' = [sess EXCEPT ![s].grace = FALSE]
    /\ UNCHANGED <<user, login, admin, jar, req, reset, epoch, wrong, tries>>

(* Access tokens live for minutes: the five-second grace has passed.       *)
AccessExpires(s) ==
    /\ ~sess[s].grace
    /\ jar[s].access # 0 \/ \E r \in Requests : req[r].pc = "sent" /\ req[r].s = s
                                                 /\ req[r].jar.access # 0
    /\ jar' = [jar EXCEPT ![s].access = 0]
    /\ req' = [r \in Requests |-> IF req[r].pc = "sent" /\ req[r].s = s
                                  THEN [req[r] EXCEPT !.jar.access = 0] ELSE req[r]]
    /\ UNCHANGED <<user, login, admin, sess, reset, epoch, wrong, tries>>

SessionExpires(s) ==
    /\ Live(s)
    /\ sess' = [sess EXCEPT ![s].state = "expired"]
    /\ UNCHANGED <<user, login, admin, jar, req, reset, epoch, wrong, tries>>

ResetExpires(t) ==
    /\ reset[t] = "open"
    /\ reset' = [reset EXCEPT ![t] = "expired"]
    /\ UNCHANGED <<user, login, admin, sess, jar, req, epoch, wrong, tries>>

-----------------------------------------------------------------------------

login_submit(l) ==
    \/ \E valid \in BOOLEAN : authenticate_user(l, valid)
    \/ ~TrustedHeader /\ \E s \in SessionIds : create_session(l, s)

federated_login_submit(l) ==
    \/ authenticate_trusted_identity(l)
    \/ TrustedHeader /\ \E s \in SessionIds : create_session(l, s)

Next ==
    \/ \E l \in Logins : login_submit(l) \/ federated_login_submit(l)
    \/ \E r \in Requests : \/ \E s \in SessionIds, op \in Ops : Send(r, s, op)
                           \/ get_optional_auth(r)
                           \/ Perform(r)
                           \/ Deliver(r)
                           \/ Lose(r)
    \/ \E t \in ResetIds : request_password_reset(t) \/ complete_password_reset(t)
                           \/ ResetExpires(t)
    \/ \E op \in AdminOps : AdminRead(op)
    \/ AdminRevoke
    \/ AdminCommit
    \/ LockElapses
    \/ \E s \in SessionIds : DropCsrfCookie(s) \/ GraceElapses(s) \/ AccessExpires(s)
                             \/ SessionExpires(s)

Spec == Init /\ [][Next]_vars

-----------------------------------------------------------------------------
(* Properties                                                              *)

(* NoSurvivor: once a password change, a reset, a disabling or a           *)
(* create-admin rebinding has committed, no session that rests on a        *)
(* sign-in checked before it is live, however the two transactions of that *)
(* sign-in interleave with it (create_session's version check).            *)
NoSurvivor == \A s \in SessionIds : Live(s) => sess[s].basis = epoch

(* NoSelfSignOut: when answers arrive within the grace, overlapping        *)
(* requests of one browser, answered in any order, never make it present a *)
(* token that reuse detection takes for a stolen one (rotate_session).     *)
NoSelfSignOut == Prompt => \A s \in SessionIds : sess[s].why # "reuse"

(* GuessesBounded: between two lock periods at most Limit + 1 wrong        *)
(* passwords are weighed: Limit that count, and the one that meets an      *)
(* elapsed lock, which authenticate_user does not count.                   *)
GuessesBounded == tries <= Limit + 1

(* The status change and create-admin revoke sessions before they lock the *)
(* account, so what is said of live sessions holds without them.           *)
Safety == TypeOK /\ GuessesBounded /\ (AdminOps = {} => NoSurvivor /\ NoSelfSignOut)
=============================================================================
