------------------------------- MODULE Access -------------------------------
(***************************************************************************)
(* What lets people in, side by side: how accounts come to be (Accounts),  *)
(* the sign-in and the refresh sessions of one account (Sessions) and the  *)
(* email outbox that carries their links (MailOutbox).  They share no row  *)
(* that both write: each has variables of its own.                         *)
(***************************************************************************)
EXTENDS Accounts

CONSTANTS
    \* Sessions; its requests are called visits here
    Logins, SessionIds, Visits, ResetIds, Ops, AdminOps, TrustedHeader, Limit, Legacy, Prompt,
    MaxVersion, MaxGen, MaxWrong,
    \* MailOutbox
    Messages, Deliverers, Batch, MaxAttempts, MaxSends, MaxCrashes, MaxTimeouts, MaxRetries

ASSUME SessionAssumption ==
    /\ Limit \in Nat /\ MaxVersion \in Nat \ {0} /\ MaxGen \in Nat /\ MaxWrong \in Nat
    /\ Legacy \in BOOLEAN

ASSUME OutboxAssumption == MaxSends \in Nat /\ Batch \in Nat

VARIABLES
    account, login, admin, sess, jar, visit, reset, epoch, wrong, tries,   \* Sessions
    box, proc, accepted, excuse, crashes, timeouts, retries                \* MailOutbox

Sign == INSTANCE Sessions WITH user <- account, req <- visit, Requests <- Visits
Mail == INSTANCE MailOutbox

(* Once a password change, a reset or a revocation has committed, no       *)
(* session that rests on an earlier sign-in is live; overlapping requests  *)
(* of one browser never sign it out; and between two locks at most         *)
(* Limit + 1 wrong passwords are weighed (create_session, rotate_session,  *)
(* authenticate_user).                                                     *)
SessionsSafe == Sign!Safety

(* A message marked sent was accepted by the relay, and twice only after a *)
(* timeout, a crash, a lost answer or an operator's retry                  *)
(* (deliver_pending).                                                      *)
MailSafe == Mail!Safety
=============================================================================
