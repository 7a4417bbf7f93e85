------------------------------ MODULE MCAccess ------------------------------
(***************************************************************************)
(* Small instances of what lets people in: enrolment and invitations, the  *)
(* sessions of one account and the email outbox, as Access has them; three *)
(* more instances of the sessions, of a second account; and the rate       *)
(* limiter. A behaviour is one part, chosen by Init; the components of     *)
(* Access stay in their initial state while another part is at work.       *)
(***************************************************************************)
EXTENDS Access, TLC

CONSTANTS a1, a2, b1, b2, l1, s1, q1, t1, e1, e2

VARIABLES
    part,  \* the part at work
    account2, login2, admin2, sess2, jar2, visit2, reset2, epoch2, wrong2, tries2,
    now, behind, bucket, granted

signVars == <<account, login, admin, sess, jar, visit, reset, epoch, wrong, tries>>
mailVars == <<box, proc, accepted, excuse, crashes, timeouts, retries>>
secondVars == <<account2, login2, admin2, sess2, jar2, visit2, reset2, epoch2, wrong2, tries2>>
limiterVars == <<now, behind, bucket, granted>>
MCVars == <<part, vars, signVars, mailVars, secondVars, limiterVars>>

Revocation == INSTANCE Sessions
    WITH user <- account2, login <- login2, admin <- admin2, sess <- sess2, jar <- jar2,
         req <- visit2, reset <- reset2, epoch <- epoch2, wrong <- wrong2, tries <- tries2,
         Logins <- {l1}, SessionIds <- {a1, a2}, Requests <- {q1}, ResetIds <- {t1},
         Ops <- {"logout", "revoke", "change"}, AdminOps <- {}, TrustedHeader <- FALSE,
         Limit <- 2, Legacy <- FALSE, Prompt <- FALSE, MaxVersion <- 2, MaxGen <- 1,
         MaxWrong <- 0

Overlap == INSTANCE Sessions
    WITH user <- account2, login <- login2, admin <- admin2, sess <- sess2, jar <- jar2,
         req <- visit2, reset <- reset2, epoch <- epoch2, wrong <- wrong2, tries <- tries2,
         Logins <- {l1}, SessionIds <- {s1}, Requests <- {b1, b2, q1}, ResetIds <- {},
         Ops <- {"view", "logout"}, AdminOps <- {}, TrustedHeader <- TRUE, Limit <- 2,
         Legacy <- FALSE, Prompt <- TRUE, MaxVersion <- 3, MaxGen <- 2, MaxWrong <- 0

Lockout == INSTANCE Sessions
    WITH user <- account2, login <- login2, admin <- admin2, sess <- sess2, jar <- jar2,
         req <- visit2, reset <- reset2, epoch <- epoch2, wrong <- wrong2, tries <- tries2,
         Logins <- {a1, a2}, SessionIds <- {s1}, Requests <- {}, ResetIds <- {t1}, Ops <- {},
         AdminOps <- {"toggle", "rebind"}, TrustedHeader <- FALSE, Limit <- 2, Legacy <- TRUE,
         Prompt <- FALSE, MaxVersion <- 3, MaxGen <- 1, MaxWrong <- 6

Limiter == INSTANCE RateLimit
    WITH Processes <- {b1, b2}, Keys <- {"source", "account"},
         LimitOf <- ("source" :> 2) @@ ("account" :> 1), Window <- 2, Skew <- 1, MaxTime <- 5

\* No second account, no limiter: their variables are off.
Off(v) == v = "off"
NoSecond ==
    /\ Off(account2) /\ Off(login2) /\ Off(admin2) /\ Off(sess2) /\ Off(jar2) /\ Off(visit2)
    /\ Off(reset2) /\ Off(epoch2) /\ Off(wrong2) /\ Off(tries2)
NoLimiter == Off(now) /\ Off(behind) /\ Off(bucket) /\ Off(granted)

MCInit ==
    /\ Init /\ Sign!Init /\ Mail!Init
    /\ \/ part \in {"enrolment", "sessions", "outbox"} /\ NoSecond /\ NoLimiter
       \/ part = "revocation" /\ Revocation!Init /\ NoLimiter
       \/ part = "overlap" /\ Overlap!Init /\ NoLimiter
       \/ part = "lockout" /\ Lockout!Init /\ NoLimiter
       \/ part = "limiter" /\ Limiter!Init /\ NoSecond

MCNext ==
    \/ /\ part = "enrolment" /\ Next
       /\ UNCHANGED <<part, signVars, mailVars, secondVars, limiterVars>>
    \/ /\ part = "sessions" /\ Sign!Next
       /\ UNCHANGED <<part, vars, mailVars, secondVars, limiterVars>>
    \/ /\ part = "outbox" /\ Mail!Next
       /\ UNCHANGED <<part, vars, signVars, secondVars, limiterVars>>
    \/ /\ \/ part = "revocation" /\ Revocation!Next
          \/ part = "overlap" /\ Overlap!Next
          \/ part = "lockout" /\ Lockout!Next
       /\ UNCHANGED <<part, vars, signVars, mailVars, limiterVars>>
    \/ /\ part = "limiter" /\ Limiter!Next
       /\ UNCHANGED <<part, vars, signVars, mailVars, secondVars>>

MCSpec == MCInit /\ [][MCNext]_MCVars

\* Each part has at most two pairs of things that are alike: a1 and a2 are its
\* sessions, sign-ins, administrators or messages, b1 and b2 its requests,
\* deliverers or processes.
Symmetry == Permutations({a1, a2}) \cup Permutations({b1, b2})

-----------------------------------------------------------------------------
\* What bounds a visitor who tries again: all processes together grant a key at most
\* its limit in a window, although their clocks differ and purges touch the same rows
\* (check_rate_limit); wrong passwords are bounded although administrators and an older
\* row interfere; and the account's sessions stay safe with two browsers, lost answers
\* and three overlapping requests (authenticate_user, rotate_session).
LimitsHold ==
    /\ part = "limiter" => Limiter!Safety
    /\ part = "revocation" => Revocation!Safety
    /\ part = "overlap" => Overlap!Safety
    /\ part = "lockout" => Lockout!Safety
=============================================================================
