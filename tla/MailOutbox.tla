----------------------------- MODULE MailOutbox -----------------------------
(***************************************************************************)
(* The email outbox: messages queued in the transaction that causes them,  *)
(* batches claimed and delivered by background tasks and the send-email    *)
(* command, claims that time out, retries, dead letters and retry-email.   *)
(* The background tasks of one process take turns under a process-local    *)
(* lock, so a deliverer is a process.                                      *)
(***************************************************************************)
EXTENDS Naturals, Sequences

CONSTANTS
    Messages, Deliverers,
    Batch,         \* limit of one claim
    MaxAttempts,   \* email_max_attempts
    MaxSends,      \* bound on the sends of one message
    MaxCrashes,    \* bound on process deaths
    MaxTimeouts,   \* bound on claims that go stale while their holder lives
    MaxRetries     \* bound on operators' requeues

(* An empty claim_token.                                                  *)
None == << >>

VARIABLES
    box,       \* the email_outbox and email_delivery_states rows
    proc,      \* what each deliverer does
    accepted,  \* how often the relay accepted a message
    excuse,    \* messages that may have been sent twice, and why
    crashes, timeouts, retries

vars == <<box, proc, accepted, excuse, crashes, timeouts, retries>>

NoMessage == [state |-> "absent", attempts |-> 0, claim |-> None, stale |-> FALSE, due |-> TRUE]
Idle == [pc |-> "idle", claims |-> <<>>, attempt |-> 0, outcome |-> "none"]

(* A claim token is the deliverer and a serial number of its claim.        *)
Token(d, n) == <<d, n>>

TypeOK ==
    /\ box \in [Messages -> [state : {"absent", "pending", "sent", "failed"},
                             attempts : 0..MaxSends, claim : {None} \cup (Deliverers \X Nat),
                             stale : BOOLEAN, due : BOOLEAN]]
    /\ proc \in [Deliverers -> [pc : {"idle", "next", "sending", "answered"},
                                claims : Seq(Messages \X (Deliverers \X Nat)),
                                attempt : 0..MaxSends, outcome : {"none", "ok", "error"}]]
    /\ accepted \in [Messages -> 0..MaxSends]

Init ==
    /\ box = [m \in Messages |-> NoMessage]
    /\ proc = [d \in Deliverers |-> Idle]
    /\ accepted = [m \in Messages |-> 0]
    /\ excuse = {} /\ crashes = 0 /\ timeouts = 0 /\ retries = 0

queue_email(m) ==
    /\ box[m].state = "absent"
    /\ box' = [box EXCEPT ![m] = [NoMessage EXCEPT !.state = "pending"]]
    /\ UNCHANGED <<proc, accepted, excuse, crashes, timeouts, retries>>

wrong_claimable(m) == box[m].state = "pending" /\ box[m].due /\ box[m].claim = None
wrong_claimable_held(m) == box[m].state = "pending" /\ box[m].due
claimable(m) == /\ box[m].state = "pending" /\ box[m].due
                /\ box[m].claim = None \/ box[m].stale

(* Rows are taken in order of next_attempt_at; which of the due rows come  *)
(* first is left open.                                                     *)
_claim_pending(d) ==
    /\ proc[d].pc = "idle"
    /\ \E n \in 1..Batch : \E order \in [1..n -> {m \in Messages : claimable(m)}] :
        LET S == {order[i] : i \in 1..n}
            token(m) == Token(d, box[m].attempts + 1)
        IN /\ \A i, j \in 1..n : order[i] = order[j] => i = j
           /\ n < Batch => S = {m \in Messages : claimable(m)}
           /\ box' = [m \in Messages |-> IF m \in S
                         THEN [box[m] EXCEPT !.claim = token(m), !.stale = FALSE] ELSE box[m]]
           /\ proc' = [proc EXCEPT ![d] = [Idle EXCEPT !.pc = "next",
                         !.claims = [i \in 1..n |-> <<order[i], token(order[i])>>]]]
    /\ UNCHANGED <<accepted, excuse, crashes, timeouts, retries>>

Current(d) == Head(proc[d].claims)[1]
holds(d) == box[Current(d)].state = "pending" /\ box[Current(d)].claim = Head(proc[d].claims)[2]

(* The next claim of the batch; after the last one the batch ends.         *)
Rest(d) == IF Len(proc[d].claims) = 1 THEN Idle
           ELSE [Idle EXCEPT !.pc = "next", !.claims = Tail(proc[d].claims)]

BeginAttempt(d) ==
    /\ proc[d].pc = "next"
    /\ IF holds(d)
       THEN /\ box[Current(d)].attempts < MaxSends
            /\ box' = [box EXCEPT ![Current(d)].attempts = @ + 1]
            /\ proc' = [proc EXCEPT ![d].pc = "sending",
                                    ![d].attempt = box[Current(d)].attempts + 1]
       ELSE /\ proc' = [proc EXCEPT ![d] = Rest(d)]
            /\ UNCHANGED box
    /\ UNCHANGED <<accepted, excuse, crashes, timeouts, retries>>

(* The relay: it accepts, refuses, or accepts and the answer is lost.      *)
send(d, taken, outcome) ==
    LET m == Current(d) IN
    /\ proc[d].pc = "sending"
    /\ accepted[m] < MaxSends
    /\ outcome = "ok" => taken
    /\ accepted' = IF taken THEN [accepted EXCEPT ![m] = @ + 1] ELSE accepted
    /\ excuse' = IF taken /\ outcome = "error" THEN excuse \cup {m} ELSE excuse
    /\ proc' = [proc EXCEPT ![d].pc = "answered", ![d].outcome = outcome]
    /\ UNCHANGED <<box, crashes, timeouts, retries>>

exhausted(attempt) == attempt >= MaxAttempts

RecordFailure(d) ==
    /\ proc[d].pc = "answered" /\ proc[d].outcome = "error"
    /\ box' = IF ~holds(d) THEN box
              ELSE [box EXCEPT ![Current(d)] =
                    IF exhausted(proc[d].attempt)
                    THEN [@ EXCEPT !.state = "failed", !.claim = None, !.stale = FALSE]
                    ELSE [@ EXCEPT !.due = FALSE, !.claim = None, !.stale = FALSE]]
    /\ proc' = [proc EXCEPT ![d] = Rest(d)]
    /\ UNCHANGED <<accepted, excuse, crashes, timeouts, retries>>

RecordSent(d) ==
    /\ proc[d].pc = "answered" /\ proc[d].outcome = "ok"
    /\ box' = IF ~holds(d) THEN box
              ELSE [box EXCEPT ![Current(d)] =
                    [@ EXCEPT !.state = "sent", !.claim = None, !.stale = FALSE]]
    /\ proc' = [proc EXCEPT ![d] = Rest(d)]
    /\ UNCHANGED <<accepted, excuse, crashes, timeouts, retries>>

retry_failed(m) ==
    /\ box[m].state = "failed" /\ retries < MaxRetries
    /\ retries' = retries + 1
    /\ box' = [box EXCEPT ![m] = [NoMessage EXCEPT !.state = "pending"]]
    /\ excuse' = excuse \cup {m}
    /\ UNCHANGED <<proc, accepted, crashes, timeouts>>

BecomesDue(m) ==
    /\ box[m].state = "pending" /\ ~box[m].due
    /\ box' = [box EXCEPT ![m].due = TRUE]
    /\ UNCHANGED <<proc, accepted, excuse, crashes, timeouts, retries>>

Abandoned(m) == \A d \in Deliverers : \A i \in 1..Len(proc[d].claims) :
                    proc[d].claims[i] # <<m, box[m].claim>>

(* email_claim_timeout_seconds after the claim: its holder died, or is     *)
(* still on an earlier message of its batch, or is still sending.          *)
ClaimTimesOut(m) ==
    /\ box[m].claim # None /\ ~box[m].stale
    /\ box' = [box EXCEPT ![m].stale = TRUE]
    /\ IF Abandoned(m) THEN UNCHANGED <<timeouts, excuse>>
       ELSE /\ timeouts < MaxTimeouts /\ timeouts' = timeouts + 1
            /\ excuse' = excuse \cup {m}
    /\ UNCHANGED <<proc, accepted, crashes, retries>>

Crash(d) ==
    /\ proc[d].pc # "idle" /\ crashes < MaxCrashes
    /\ crashes' = crashes + 1
    /\ excuse' = excuse \cup {m \in Messages : accepted[m] > 0}
    /\ proc' = [proc EXCEPT ![d] = Idle]
    /\ UNCHANGED <<box, accepted, timeouts, retries>>

deliver_pending_with_metrics(d) ==
    \/ _claim_pending(d) \/ BeginAttempt(d)
    \/ \E taken \in BOOLEAN, outcome \in {"ok", "error"} : send(d, taken, outcome)
    \/ RecordFailure(d) \/ RecordSent(d)

Next ==
    \/ \E m \in Messages : queue_email(m) \/ retry_failed(m) \/ BecomesDue(m) \/ ClaimTimesOut(m)
    \/ \E d \in Deliverers : deliver_pending_with_metrics(d) \/ Crash(d)

Spec == Init /\ [][Next]_vars

-----------------------------------------------------------------------------
(* SentWasAccepted: a message is marked sent only when the relay took it,  *)
(* although another process may have claimed it while it was being sent.   *)
SentWasAccepted == \A m \in Messages : box[m].state = "sent" => accepted[m] > 0

(* SentOnce: the relay takes a message twice only after a claim timed out, *)
(* a process died, an answer was lost or an operator asked for a retry:    *)
(* never because two deliverers drained the outbox together.               *)
SentOnce == \A m \in Messages : accepted[m] > 1 => m \in excuse

Safety == TypeOK /\ SentWasAccepted /\ SentOnce
=============================================================================
