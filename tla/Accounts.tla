------------------------------ MODULE Accounts ------------------------------
(***************************************************************************)
(* How an account comes to exist and to be active: self-registration with  *)
(* a verification link and an administrator's decision, or an invitation.  *)
(*                                                                         *)
(* A request is a database transaction in two steps (PostgreSQL, READ      *)
(* COMMITTED): Start takes the role-row lock the code asks for and reads;  *)
(* the second step repeats the conditions the statements carry, writes and *)
(* commits.  What was read may be stale by then.                           *)
(***************************************************************************)
EXTENDS Integers, Sequences, FiniteSets

CONSTANTS
    Requests,      \* requests in flight
    Admins,        \* addresses of the administrators at the start
    Newcomers,     \* addresses without an account at the start
    Listed,        \* newcomers the government directory knows
    Directory,     \* "off", "open" (fail-open) or "required" (fail-closed)
    InviteRoles,   \* roles that administrators invite with
    MaxInvitations, MaxVerifications

Emails == Admins \cup Newcomers
Roles == {"user", "administrator"}

\* The administrators have accounts, so none of them is a newcomer; there is one.
ASSUME AddressAssumption == Admins # {} /\ Admins \cap Newcomers = {}
ASSUME RoleAssumption == InviteRoles \subseteq Roles

VARIABLES
    user,      \* users: address -> status, role, verified and password set
    inv,       \* invitations in the order of their commits
    ver,       \* registration_verifications in the order of their commits
    req,       \* the transaction of each request
    decided,   \* decision messages sent to each address
    completed  \* verification links that completed a registration

vars == <<user, inv, ver, req, decided, completed>>

Idle == [op |-> "none"]
NoUser == [status |-> "none", role |-> "user", verified |-> FALSE, password |-> FALSE]

\* open(i): the invitation is neither accepted nor revoked (it may have expired).
open(i) == ~inv[i].accepted /\ ~inv[i].revoked

(* What the directory may answer for an address, and what the check makes  *)
(* of it.  Without a URL no request is sent.                               *)
Answers(e) == (IF e \in Listed THEN {"match"} ELSE {"other", "missing"}) \cup {"down", "invalid"}

validate_directory_email(a) == Directory = "required" => a = "match"

(* The role row a transaction has locked. *)
lock_administrator_action(t) == t.op \in {"toggle", "approve", "deny"}

_lock_role(t) ==
    {role \in Roles :
        \/ t.op = "register" /\ role = "user"
        \/ t.op = "invite" /\ role = t.role
        \/ lock_administrator_action(t) /\ role = "administrator"}

locks_free(t) == \A r \in Requests : _lock_role(req[r]) \cap _lock_role(t) = {}

Begin(r, t) ==
    /\ req[r] = Idle /\ locks_free(t)
    /\ req' = [req EXCEPT ![r] = t]
    /\ UNCHANGED <<user, inv, ver, decided, completed>>

Finish(r) == req' = [req EXCEPT ![r] = Idle]

Init ==
    /\ user = [e \in Emails |->
                 IF e \in Admins
                 THEN [status |-> "active", role |-> "administrator", verified |-> TRUE, password |-> TRUE]
                 ELSE NoUser]
    /\ inv = << >> /\ ver = << >>
    /\ req = [r \in Requests |-> Idle]
    /\ decided = [e \in Emails |-> {}]
    /\ completed = [e \in Emails |-> {}]

-----------------------------------------------------------------------------
\* registration_submit: only a new address, or one that is pending and unverified, goes on.
registration_submit(r) ==
    \E e \in Newcomers : \E a \in Answers(e) :
        /\ validate_directory_email(a) /\ Len(ver) < MaxVerifications
        /\ user[e].status = "none" \/ (user[e].status = "pending" /\ ~user[e].verified)
        /\ Begin(r, [op |-> "register", email |-> e, known |-> user[e].status = "pending"])

revoke_open(e) ==
    [i \in DOMAIN inv |-> [inv[i] EXCEPT !.revoked = @ \/ (inv[i].email = e /\ open(i))]]

use_all(e) == [v \in DOMAIN ver |-> [ver[v] EXCEPT !.used = @ \/ ver[v].email = e]]

recent(e) ==
    \E v \in DOMAIN ver : ver[v].email = e /\ ~ver[v].used /\ ~ver[v].expired /\ ver[v].recent

(* Losing the race for the address rolls the revocations back too.         *)
request_self_registration(r) ==
    LET t == req[r] IN
    /\ t.op = "register"
    /\ Finish(r)
    /\ IF ~t.known /\ user[t.email].status # "none"
       THEN UNCHANGED <<user, inv, ver>>
       ELSE /\ inv' = revoke_open(t.email)
            /\ IF t.known /\ recent(t.email)
               THEN UNCHANGED <<user, ver>>
               ELSE /\ user' = IF t.known THEN user
                               ELSE [user EXCEPT ![t.email] = [NoUser EXCEPT !.status = "pending"]]
                    /\ ver' = Append(use_all(t.email),
                          [email |-> t.email, used |-> FALSE, expired |-> FALSE, recent |-> TRUE])
    /\ UNCHANGED <<decided, completed>>

get_valid_registration_verification(v) ==
    /\ ~ver[v].used /\ ~ver[v].expired
    /\ user[ver[v].email].status = "pending" /\ ~user[ver[v].email].verified

registration_verification_submit(r) ==
    \E v \in DOMAIN ver :
        /\ get_valid_registration_verification(v)
        /\ Begin(r, [op |-> "complete", id |-> v])

verification_consumed(v) == ~ver[v].used /\ ~ver[v].expired

complete_self_registration(r) ==
    LET v == req[r].id
        e == ver[v].email IN
    /\ req[r].op = "complete"
    /\ Finish(r)
    /\ IF verification_consumed(v)
       THEN /\ user' = [user EXCEPT ![e].verified = TRUE, ![e].password = TRUE]
            /\ ver' = use_all(e)
            /\ completed' = [completed EXCEPT ![e] = @ \cup {<<v, r>>}]
       ELSE UNCHANGED <<user, ver, completed>>
    /\ UNCHANGED <<inv, decided>>

-----------------------------------------------------------------------------
(* Invitations.  invite_submit does not revalidate the administrator; the  *)
(* open invitations it read are marked by id when it commits.              *)
invite_submit(r) ==
    \E e \in Newcomers, role \in InviteRoles : \E a \in Answers(e) :
        /\ validate_directory_email(a) /\ Len(inv) < MaxInvitations
        /\ user[e].status = "none"
        /\ Begin(r, [op |-> "invite", email |-> e, role |-> role,
                     prior |-> {i \in DOMAIN inv : inv[i].email = e /\ open(i)}])

revoke_prior(P) == [i \in DOMAIN inv |-> [inv[i] EXCEPT !.revoked = @ \/ i \in P]]

create_invitation(r) ==
    LET t == req[r] IN
    /\ t.op = "invite"
    /\ inv' = Append(revoke_prior(t.prior), [email |-> t.email, role |-> t.role,
                     accepted |-> FALSE, revoked |-> FALSE, expired |-> FALSE])
    /\ Finish(r)
    /\ UNCHANGED <<user, ver, decided, completed>>

revoke_invitation(r) ==
    \E i \in DOMAIN inv :
        /\ req[r] = Idle /\ open(i)
        /\ inv' = [inv EXCEPT ![i].revoked = TRUE]
        /\ UNCHANGED <<user, ver, req, decided, completed>>

get_valid_invitation(i) == open(i) /\ ~inv[i].expired

invitation_submit(r) ==
    \E i \in DOMAIN inv :
        /\ get_valid_invitation(i)
        /\ user[inv[i].email].status = "none"
        /\ Begin(r, [op |-> "accept", id |-> i])

(* The account and the consumption of the link commit together; a unique   *)
(* address refused by the database undoes both.                            *)
invitation_consumed(i) == open(i) /\ ~inv[i].expired /\ user[inv[i].email].status = "none"

accept_invitation(r) ==
    LET i == req[r].id IN
    /\ req[r].op = "accept"
    /\ Finish(r)
    /\ IF invitation_consumed(i)
       THEN /\ inv' = [inv EXCEPT ![i].accepted = TRUE]
            /\ user' = [user EXCEPT ![inv[i].email] =
                  [status |-> "active", role |-> inv[i].role, verified |-> TRUE, password |-> TRUE]]
       ELSE UNCHANGED <<inv, user>>
    /\ UNCHANGED <<ver, decided, completed>>

-----------------------------------------------------------------------------
(* _admin_user_mutation: under the lock the acting administrator is read   *)
(* again and must be active.                                               *)
active_admin(a) == user[a].status = "active" /\ user[a].role = "administrator"

_admin_user_mutation(r) ==
    \E a, e \in Emails, op \in {"toggle", "approve", "deny"} :
        /\ active_admin(a) /\ user[e].status # "none"
        /\ Begin(r, [op |-> op, actor |-> a, email |-> e, status |-> user[e].status,
                     ready |-> user[e].verified /\ user[e].password])

wrong_toggle_refused(t) == t.status = "pending"
toggle_refused(t) ==
    \/ t.actor = t.email
    \/ t.status = "pending"
    \/ t.status = "disabled" /\ ~t.ready

toggle_user(r) ==
    LET t == req[r] IN
    /\ t.op = "toggle"
    /\ Finish(r)
    /\ user' = IF toggle_refused(t) THEN user
               ELSE [user EXCEPT ![t.email].status = IF t.status = "active" THEN "disabled" ELSE "active"]
    /\ UNCHANGED <<inv, ver, decided, completed>>

pending(t) == t.status = "pending" /\ user[t.email].status = "pending"

approvable(t) == pending(t) /\ t.ready /\ user[t.email].verified

approve_self_registration(r) ==
    LET t == req[r] IN
    /\ t.op = "approve"
    /\ Finish(r)
    /\ IF approvable(t)
       THEN /\ user' = [user EXCEPT ![t.email].status = "active"]
            /\ decided' = [decided EXCEPT ![t.email] = @ \cup {"approved"}]
       ELSE UNCHANGED <<user, decided>>
    /\ UNCHANGED <<inv, ver, completed>>

deny_self_registration(r) ==
    LET t == req[r] IN
    /\ t.op = "deny"
    /\ Finish(r)
    /\ IF pending(t)
       THEN /\ user' = [user EXCEPT ![t.email].status = "disabled"]
            /\ decided' = [decided EXCEPT ![t.email] = @ \cup {"denied"}]
       ELSE UNCHANGED <<user, decided>>
    /\ UNCHANGED <<inv, ver, completed>>

-----------------------------------------------------------------------------
\* Links age: a verification stops being recent, then expires; an invitation expires.
Age ==
    \/ \E v \in DOMAIN ver :
          /\ ~ver[v].used /\ ~ver[v].expired
          /\ ver' = [ver EXCEPT ![v].expired = ~ver[v].recent, ![v].recent = FALSE]
          /\ UNCHANGED inv
    \/ \E i \in DOMAIN inv :
          /\ open(i) /\ ~inv[i].expired
          /\ inv' = [inv EXCEPT ![i].expired = TRUE]
          /\ UNCHANGED ver

Next ==
    \/ \E r \in Requests :
          \/ registration_submit(r) \/ request_self_registration(r)
          \/ registration_verification_submit(r) \/ complete_self_registration(r)
          \/ invite_submit(r) \/ create_invitation(r) \/ revoke_invitation(r)
          \/ invitation_submit(r) \/ accept_invitation(r)
          \/ _admin_user_mutation(r) \/ toggle_user(r)
          \/ approve_self_registration(r) \/ deny_self_registration(r)
    \/ Age /\ UNCHANGED <<user, req, decided, completed>>

Spec == Init /\ [][Next]_vars

-----------------------------------------------------------------------------
TypeOK ==
    /\ user \in [Emails -> [status : {"none", "pending", "active", "disabled"}, role : Roles,
                            verified : BOOLEAN, password : BOOLEAN]]
    /\ \A i \in DOMAIN inv : inv[i].email \in Newcomers /\ inv[i].role \in InviteRoles
    /\ \A v \in DOMAIN ver : ver[v].email \in Newcomers
    /\ \A r, s \in Requests : r # s => _lock_role(req[r]) \cap _lock_role(req[s]) = {}

(* AdministratorRemains: two administrators who disable each other at the  *)
(* same time never leave the application without an active one.            *)
AdministratorRemains == \E a \in Emails : active_admin(a)

(* ActiveIsProven: an account that may sign in has a verified address and  *)
(* a password, whatever the order of verification, denial and enabling.    *)
ActiveIsProven == \A e \in Emails : user[e].status = "active" => user[e].verified /\ user[e].password

(* DecidedOnce: a registration is either approved or denied, and the       *)
(* applicant hears one answer, although two administrators may decide.     *)
DecidedOnce == \A e \in Emails : Cardinality(decided[e]) <= 1

(* CompletedOnce: only one submission of one link ever sets the password   *)
(* of a registration, although links are replaced and submitted twice.     *)
CompletedOnce == \A e \in Emails : Cardinality(completed[e]) <= 1

(* RoleWasOffered: an account made by an invitation keeps the one role     *)
(* that its accepted invitation offered; no second link of the address is  *)
(* accepted.                                                               *)
RoleWasOffered ==
    \A i, j \in DOMAIN inv :
        /\ inv[i].accepted => user[inv[i].email].role = inv[i].role
        /\ i # j /\ inv[i].email = inv[j].email => ~(inv[i].accepted /\ inv[j].accepted)

(* Confirmed: with the fail-closed directory check nobody the directory    *)
(* does not know gets an account or an invitation.                         *)
Confirmed ==
    Directory = "required" =>
        /\ \A e \in Newcomers \ Listed : user[e].status = "none"
        /\ \A i \in DOMAIN inv : inv[i].email \in Listed

(* OneOpenInvitation: a newer invitation for a role revokes the older      *)
(* outstanding ones of the same address for that role, although two        *)
(* administrators may invite together (create_invitation's role lock).     *)
OneOpenInvitation ==
    \A i, j \in DOMAIN inv :
        i # j /\ open(i) /\ open(j) /\ inv[i].role = inv[j].role => inv[i].email # inv[j].email

(* Administrators who disable each other leave one; an account that may    *)
(* sign in was verified, decided once and completed once, with the role it *)
(* was offered; a newer invitation replaces the older one (registration,   *)
(* invitations, administration).                                           *)
AccountsSafe ==
    TypeOK /\ AdministratorRemains /\ ActiveIsProven /\ DecidedOnce /\ CompletedOnce
    /\ RoleWasOffered /\ Confirmed /\ OneOpenInvitation
=============================================================================
