-------------------------- MODULE AuthoringProofs ---------------------------
(***************************************************************************)
(* Proofs about the runtime, the start of runs and the credential vault of *)
(* Authoring, for every set of applications, every finite set of           *)
(* operations and any number of generations, pipelines, requests, tokens,  *)
(* saves, checks and creations, and every provider.                        *)
(***************************************************************************)
EXTENDS Authoring, SequenceTheorems, FiniteSetTheorems, TLAPS

------------------------------------------------------------------------------
(* Starting runs.                                                           *)

Saved == [at : {"saved"}, pipe : Pipelines]
Query == [at : {"preflight", "enqueue", "parent", "insert"}, pipe : Pipelines,
          token : Tokens \cup {NoToken}, snap : Start!Definitions,
          window : SUBSET Start!Definitions, passed : BOOLEAN, candidates : SUBSET Nat,
          parent : Nat]

Kinds == {Start!Idle} \cup Saved \cup Query

StartTypes ==
    /\ definition \in [Pipelines -> Start!Definitions]
    /\ world \in [cols : SUBSET Columns, accepts : SUBSET Columns]
    /\ edits \in 0..MaxEdits
    /\ runs \in Seq(Start!Run) /\ Len(runs) <= MaxRuns
    /\ req \in [Requests -> Kinds]
    /\ lock \in [Pipelines -> Requests \cup {"free"}]

Locking == {"parent", "insert"}

\* A request between its first look at the runs and its insert is the one that
\* holds the lock of its pipeline.
LocksHeld ==
    /\ \A q \in Requests : req[q].at \in Locking => lock[req[q].pipe] = q
    /\ \A p \in Pipelines : lock[p] # "free" => /\ req[lock[p]].at \in Locking
                                                /\ req[lock[p]].pipe = p

\* Run i may be retried: nothing that happens to it later takes that back.
Retryable(i, p) ==
    /\ i \in DOMAIN runs /\ runs[i].pipe = p
    /\ runs[i].status = "uncertain" /\ runs[i].reviewed

\* What a request knows: its snapshot was saved during the request and, past the
\* preflight, has passed it; the parent it has chosen is the latest kept run.
AskedBy(r) ==
    /\ r.snap \in r.window
    /\ r.at # "preflight" => r.passed
    /\ r.at = "parent" => \A i \in r.candidates : Retryable(i, r.pipe)
    /\ r.at = "insert" /\ r.parent # 0 => /\ Retryable(r.parent, r.pipe)
                                         /\ \A j \in Start!Of(r.pipe) : j <= r.parent

Asked == \A q \in Requests : req[q] \in Query => AskedBy(req[q])

\* A parent is an earlier run of the same pipeline.
Lineage ==
    \A i \in DOMAIN runs : runs[i].parent # 0 =>
        /\ Retryable(runs[i].parent, runs[i].pipe)
        /\ runs[i].parent < i
        /\ runs[i].attempt = runs[runs[i].parent].attempt + 1

StartInv ==
    /\ StartTypes /\ LocksHeld /\ Asked /\ Lineage
    /\ Start!OneRunPerToken /\ Start!RetryLineage /\ Start!RunsWhatWasChecked

LEMMA RunRows ==
  ASSUME StartTypes
  PROVE  /\ DOMAIN runs = 1..Len(runs) /\ Len(runs) \in Nat
         /\ \A i \in DOMAIN runs : i \in Nat \ {0} /\ runs[i] \in Start!Run
  BY LenProperties DEF StartTypes

\* The kind of a request shows in where it is.
LEMMA KindsOfRequest ==
  ASSUME StartTypes, NEW q \in Requests
  PROVE  /\ req[q] \in Kinds
         /\ req[q].at \in {"preflight", "enqueue", "parent", "insert"} <=> req[q] \in Query
         /\ req[q].at = "saved" <=> req[q] \in Saved
         /\ req[q].at = "idle" <=> req[q] = Start!Idle
  BY DEF StartTypes, Kinds, Query, Saved, Start!Idle

\* While the runs stay as they are, what is known of them does.
LEMMA SameRuns ==
  ASSUME UNCHANGED runs
  PROVE  /\ Lineage => Lineage'
         /\ Start!OneRunPerToken => Start!OneRunPerToken'
         /\ Start!RetryLineage => Start!RetryLineage'
         /\ Start!RunsWhatWasChecked => Start!RunsWhatWasChecked'
  BY DEF Lineage, Retryable, Start!Kept, Start!OneRunPerToken, Start!RetryLineage,
         Start!RunsWhatWasChecked

\* A step of one request that leaves the tables alone.
LEMMA OneRequest ==
  ASSUME StartInv, NEW q \in Requests, NEW r \in Kinds,
         req' = [req EXCEPT ![q] = r], UNCHANGED <<definition, world, edits, runs>>,
         lock' \in [Pipelines -> Requests \cup {"free"}], LocksHeld',
         r \in Query => AskedBy(r)
  PROVE  StartInv'
  <1>1. StartTypes'
    BY DEF StartInv, StartTypes
  <1>2. Asked'
    <2> SUFFICES ASSUME NEW s \in Requests, req'[s] \in Query
                 PROVE  AskedBy(req[s])'
      BY DEF Asked
    <2>1. req'[s] = IF s = q THEN r ELSE req[s]
      BY DEF StartInv, StartTypes
    <2>2. AskedBy(req'[s])
      BY <2>1 DEF StartInv, Asked
    <2> QED
      BY <2>2 DEF AskedBy, Retryable, Start!Of, Start!Kept
  <1> QED
    BY <1>1, <1>2, SameRuns DEF StartInv

\* The locks stay as they are when a request that holds none goes on without one.
LEMMA LocksStay ==
  ASSUME StartInv, NEW q \in Requests, NEW r \in Kinds,
         req' = [req EXCEPT ![q] = r], UNCHANGED lock,
         req[q].at \notin Locking, r.at \notin Locking
  PROVE  lock' \in [Pipelines -> Requests \cup {"free"}] /\ LocksHeld'
  <1>1. \A s \in Requests : req'[s] = IF s = q THEN r ELSE req[s]
    BY DEF StartInv, StartTypes
  <1>2. \A p \in Pipelines : lock[p] # "free" => lock[p] \in Requests /\ lock[p] # q
    BY DEF StartInv, StartTypes, LocksHeld
  <1> QED
    BY <1>1, <1>2 DEF StartInv, StartTypes, LocksHeld

\* Reading the saved definition: pipeline_run_start, and after a save.
LEMMA StartKeeps ==
  ASSUME StartInv, NEW q \in Requests, NEW p \in Pipelines, NEW t \in Tokens \cup {NoToken},
         req[q].at \in {"idle", "saved"}, req' = [req EXCEPT ![q] = Start!Preflighting(p, t)],
         UNCHANGED <<definition, world, edits, runs, lock>>
  PROVE  StartInv'
  <1> DEFINE r == Start!Preflighting(p, t)
  <1>1. definition[p] \in Start!Definitions
    BY DEF StartInv, StartTypes
  <1>2. r \in Query /\ r.at = "preflight" /\ r.snap \in r.window
    BY <1>1 DEF Start!Preflighting, Start!snapshot, Query
  <1>3. AskedBy(r)
    BY <1>2 DEF AskedBy
  <1>4. r \in Kinds /\ req[q].at \notin Locking /\ r.at \notin Locking
    BY <1>2 DEF Kinds, Locking
  <1>5. lock' \in [Pipelines -> Requests \cup {"free"}] /\ LocksHeld'
    BY <1>4, LocksStay
  <1> QED
    BY <1>3, <1>4, <1>5, OneRequest

\* A request that ends without a lock.
LEMMA RefusalKeeps ==
  ASSUME StartInv, NEW q \in Requests, req[q].at \notin Locking,
         req' = [req EXCEPT ![q] = Start!Idle],
         UNCHANGED <<definition, world, edits, runs, lock>>
  PROVE  StartInv'
  <1>1. Start!Idle \in Kinds /\ Start!Idle.at \notin Locking /\ Start!Idle \notin Query
    BY DEF Kinds, Locking, Start!Idle, Query
  <1> QED
    BY <1>1, LocksStay, OneRequest

LEMMA PassKeeps ==
  ASSUME StartInv, NEW q \in Requests, Start!PreflightPasses(q)
  PROVE  StartInv'
  <1> DEFINE r == [req[q] EXCEPT !.at = "enqueue", !.passed = TRUE]
  <1>1. req[q] \in Query /\ AskedBy(req[q]) /\ req[q].at = "preflight"
    BY KindsOfRequest DEF StartInv, Asked, Start!PreflightPasses
  <1>2. /\ r \in Query /\ r.at = "enqueue" /\ r.passed
        /\ r.snap = req[q].snap /\ r.window = req[q].window
    BY <1>1 DEF Query
  <1>3. AskedBy(r)
    BY <1>1, <1>2 DEF AskedBy
  <1>4. req' = [req EXCEPT ![q] = r]
    BY DEF Start!PreflightPasses
  <1>5. r \in Kinds /\ req[q].at \notin Locking /\ r.at \notin Locking
    BY <1>1, <1>2 DEF Kinds, Locking
  <1> QED
    BY <1>3, <1>4, <1>5, LocksStay, OneRequest DEF Start!PreflightPasses

\* enqueue_run locks the pipeline row and reads the candidates.
LEMMA CheckKeeps ==
  ASSUME StartInv, NEW q \in Requests, Start!EnqueueCheck(q)
  PROVE  StartInv'
  <1> DEFINE p == req[q].pipe
             r == [req[q] EXCEPT !.at = "parent", !.candidates = Start!reviewed(p)]
  <1>1. req[q] \in Query /\ AskedBy(req[q]) /\ req[q].at = "enqueue" /\ p \in Pipelines
    BY KindsOfRequest DEF StartInv, Asked, Start!EnqueueCheck, Query
  <1>2. Start!reviewed(p) \subseteq Nat /\ \A i \in Start!reviewed(p) : Retryable(i, p)
    BY RunRows DEF StartInv, Start!reviewed, Start!requires_review, Start!Of, Start!Kept, Retryable
  <1>3. /\ r \in Query /\ r.at = "parent" /\ r.passed = req[q].passed /\ r.pipe = p
        /\ r.snap = req[q].snap /\ r.window = req[q].window
        /\ r.candidates = Start!reviewed(p)
    BY <1>1, <1>2 DEF Query
  <1>4. AskedBy(r)
    BY <1>1, <1>2, <1>3 DEF AskedBy
  <1>5. /\ req' = [req EXCEPT ![q] = r] /\ lock[p] = "free" /\ lock' = [lock EXCEPT ![p] = q]
        /\ UNCHANGED <<definition, world, edits, runs>>
    BY DEF Start!EnqueueCheck, Start!Free
  <1>6. LocksHeld' /\ lock' \in [Pipelines -> Requests \cup {"free"}]
    <2>1. \A s \in Requests : req'[s] = IF s = q THEN r ELSE req[s]
      BY <1>5 DEF StartInv, StartTypes
    <2>2. \A x \in Pipelines : lock'[x] = IF x = p THEN q ELSE lock[x]
      BY <1>5 DEF StartInv, StartTypes
    <2>3. \A x \in Pipelines : lock[x] # "free" => lock[x] \in Requests /\ lock[x] # q
      BY <1>1 DEF StartInv, StartTypes, LocksHeld, Locking
    <2>4. \A s \in Requests : req[s].at \in Locking => req[s].pipe # p
      BY <1>5, StartAssumption DEF StartInv, LocksHeld
    <2>5. \A s \in Requests : req[s].at \in Locking => req[s].pipe \in Pipelines
      BY KindsOfRequest DEF StartInv, Locking, Query
    <2>6. r.at \in Locking
      BY <1>3 DEF Locking
    <2> QED
      BY <1>1, <1>3, <1>5, <2>1, <2>2, <2>3, <2>4, <2>5, <2>6
         DEF StartInv, StartTypes, LocksHeld
  <1> QED
    BY <1>3, <1>4, <1>5, <1>6, OneRequest DEF Kinds

\* enqueue_run chooses the parent: the latest run, if it is a candidate.
LEMMA ParentKeeps ==
  ASSUME StartInv, NEW q \in Requests, Start!EnqueueParent(q)
  PROVE  StartInv'
  <1> DEFINE p == req[q].pipe  retried == Start!latest(p) \cap req[q].candidates
  <1>1. PICK i \in IF retried = {} THEN {0} ELSE retried :
               req' = [req EXCEPT ![q].at = "insert", ![q].parent = i]
    BY DEF Start!EnqueueParent
  <1> DEFINE r == [req[q] EXCEPT !.at = "insert", !.parent = i]
  <1>2. req[q] \in Query /\ AskedBy(req[q]) /\ req[q].at = "parent"
    BY KindsOfRequest DEF StartInv, Asked, Start!EnqueueParent
  <1>3. i \in Nat /\ (i # 0 => Retryable(i, p) /\ \A j \in Start!Of(p) : j <= i)
    <2>1. CASE i = 0
      BY <2>1
    <2>2. CASE i # 0
      <3>1. i \in Start!latest(p) /\ i \in req[q].candidates
        BY <1>1, <2>2
      <3>2. Retryable(i, p)
        BY <1>2, <3>1 DEF AskedBy
      <3> QED
        BY <3>1, <3>2, RunRows DEF StartInv, Start!latest, Retryable
    <2> QED
      BY <2>1, <2>2
  <1>4. /\ r \in Query /\ r.at = "insert" /\ r.passed = req[q].passed /\ r.pipe = p
        /\ r.snap = req[q].snap /\ r.window = req[q].window /\ r.parent = i
    BY <1>2, <1>3 DEF Query
  <1>5. AskedBy(r)
    BY <1>2, <1>3, <1>4 DEF AskedBy
  <1>6. req' = [req EXCEPT ![q] = r]
    BY <1>1
  <1>7. LocksHeld' /\ lock' \in [Pipelines -> Requests \cup {"free"}]
    <2>1. \A s \in Requests : req'[s] = IF s = q THEN r ELSE req[s]
      BY <1>6 DEF StartInv, StartTypes
    <2>2. \A s \in Requests : req'[s].pipe = req[s].pipe
      BY <1>4, <2>1
    <2>3. \A s \in Requests : req'[s].at \in Locking <=> req[s].at \in Locking
      BY <1>2, <1>4, <2>1 DEF Locking
    <2>4. lock' = lock
      BY DEF Start!EnqueueParent
    <2> QED
      BY <2>2, <2>3, <2>4 DEF StartInv, StartTypes, LocksHeld
  <1> QED
    BY <1>4, <1>5, <1>6, <1>7, OneRequest DEF Kinds, Start!EnqueueParent

\* The end of the transaction releases the lock.
LEMMA ReleaseFrees ==
  ASSUME StartInv, NEW q \in Requests, req[q].at \in Locking,
         req' = [req EXCEPT ![q] = Start!Idle], lock' = Start!release(q)
  PROVE  /\ req' \in [Requests -> Kinds] /\ req'[q] = Start!Idle
         /\ \A s \in Requests : s # q => req'[s] = req[s]
         /\ lock' \in [Pipelines -> Requests \cup {"free"}] /\ LocksHeld'
  <1>1. \A s \in Requests : req'[s] = IF s = q THEN Start!Idle ELSE req[s]
    BY DEF StartInv, StartTypes
  <1>2. req' \in [Requests -> Kinds]
    BY DEF StartInv, StartTypes, Kinds
  <1>3. /\ lock' \in [Pipelines -> Requests \cup {"free"}]
        /\ \A p \in Pipelines : lock'[p] = IF lock[p] = q THEN "free" ELSE lock[p]
    BY DEF Start!release, Start!Free, StartInv, StartTypes
  <1>4. Start!Idle.at \notin Locking
    BY DEF Start!Idle, Locking
  <1>5. \A s \in Requests : req[s].at \in Locking => req[s].pipe \in Pipelines
    BY KindsOfRequest DEF StartInv, Locking, Query
  <1>6. LocksHeld'
    BY <1>1, <1>3, <1>4, <1>5 DEF StartInv, StartTypes, LocksHeld
  <1> QED
    BY <1>1, <1>2, <1>3, <1>6

LEMMA ExistingKeeps ==
  ASSUME StartInv, NEW q \in Requests, Start!EnqueueExisting(q)
  PROVE  StartInv'
  <1>1. req[q].at \in Locking
    BY DEF Start!EnqueueExisting, Locking
  <1>2. lock' \in [Pipelines -> Requests \cup {"free"}] /\ LocksHeld'
    BY <1>1, ReleaseFrees DEF Start!EnqueueExisting
  <1>3. Start!Idle \in Kinds /\ Start!Idle \notin Query
    BY DEF Kinds, Start!Idle, Query
  <1> QED
    BY <1>2, <1>3, OneRequest DEF Start!EnqueueExisting

\* A save: every request in progress lives through one more definition.
LEMMA WitnessKeeps ==
  ASSUME StartInv, NEW p \in Pipelines, NEW d \in Start!Definitions
  PROVE  /\ Start!Witness(req, p, d) \in [Requests -> Kinds]
         /\ \A s \in Requests : LET w == Start!Witness(req, p, d)[s] IN
              /\ w.at = req[s].at
              /\ w \in Query => /\ req[s] \in Query /\ AskedBy(w)
                                /\ w.pipe = req[s].pipe
              /\ w \notin Query => w = req[s]
  <1> DEFINE W == Start!Witness(req, p, d)
  <1>1. \A s \in Requests :
          \/ W[s] = req[s]
          \/ req[s].at \notin {"idle", "saved"} /\ W[s] = [req[s] EXCEPT !.window = @ \cup {d}]
    BY DEF Start!Witness
  <1>2. ASSUME NEW s \in Requests
        PROVE  /\ W[s] \in Kinds /\ W[s].at = req[s].at
               /\ W[s] \in Query => /\ req[s] \in Query /\ AskedBy(W[s])
                                    /\ W[s].pipe = req[s].pipe
               /\ W[s] \notin Query => W[s] = req[s]
    <2>1. CASE W[s] = req[s]
      BY <2>1 DEF StartInv, StartTypes, Asked
    <2>2. CASE req[s].at \notin {"idle", "saved"} /\ W[s] = [req[s] EXCEPT !.window = @ \cup {d}]
      <3>1. req[s] \in Query /\ AskedBy(req[s])
        BY <2>2, KindsOfRequest DEF StartInv, Asked, Kinds, Saved, Start!Idle
      <3>2. /\ W[s] \in Query /\ W[s].at = req[s].at /\ W[s].pipe = req[s].pipe
            /\ W[s].snap = req[s].snap /\ W[s].window = req[s].window \cup {d}
            /\ W[s].passed = req[s].passed /\ W[s].candidates = req[s].candidates
            /\ W[s].parent = req[s].parent
        BY <2>2, <3>1 DEF Query
      <3>3. AskedBy(W[s])
        BY <3>1, <3>2 DEF AskedBy
      <3> QED
        BY <3>1, <3>2, <3>3 DEF Kinds
    <2> QED
      BY <1>1, <2>1, <2>2
  <1> QED
    BY <1>2 DEF Start!Witness

\* pipeline_save, alone or with save_and_run.
LEMMA SaveKeeps ==
  ASSUME StartInv, NEW p \in Pipelines, NEW d \in Start!Definitions,
         edits < MaxEdits, edits' = edits + 1, definition' = [definition EXCEPT ![p] = d],
         UNCHANGED <<world, runs, lock>>,
         \/ req' = Start!Witness(req, p, d)
         \/ \E q \in Requests :
              /\ req[q].at = "idle"
              /\ req' = [Start!Witness(req, p, d) EXCEPT ![q] = [at |-> "saved", pipe |-> p]]
  PROVE  StartInv'
  <1> DEFINE W == Start!Witness(req, p, d)  n == [at |-> "saved", pipe |-> p]
  <1>1. n \in Saved /\ n \notin Query /\ n.at \notin Locking
    BY DEF Saved, Query, Locking
  <1>2. /\ req' \in [Requests -> Kinds]
        /\ \A s \in Requests : \/ req'[s] = W[s]
                               \/ req[s].at = "idle" /\ req'[s] = n
    <2>1. CASE req' = W
      BY <2>1, WitnessKeeps
    <2>2. CASE \E q \in Requests : req[q].at = "idle" /\ req' = [W EXCEPT ![q] = n]
      BY <1>1, <2>2, WitnessKeeps DEF Kinds
    <2> QED
      BY <2>1, <2>2
  <1>3. StartTypes'
    <2>1. edits' \in 0..MaxEdits /\ definition' \in [Pipelines -> Start!Definitions]
      BY StartAssumption DEF StartInv, StartTypes
    <2> QED
      BY <1>2, <2>1 DEF StartInv, StartTypes
  <1>4. \A s \in Requests : /\ req'[s].at \in Locking <=> req[s].at \in Locking
                            /\ req'[s].at \in Locking => req'[s].pipe = req[s].pipe
    <2>1. \A s \in Requests : W[s].at = req[s].at
      BY WitnessKeeps
    <2>2. \A s \in Requests : req[s].at \in Locking => W[s].pipe = req[s].pipe
      BY WitnessKeeps
    <2> QED
      BY <1>1, <1>2, <2>1, <2>2 DEF Locking
  <1>5. LocksHeld'
    <2>1. \A s \in Requests : req'[s].at \in Locking => lock'[req'[s].pipe] = s
      BY <1>4 DEF StartInv, LocksHeld
    <2>2. \A x \in Pipelines : lock'[x] # "free" => lock[x] \in Requests
      BY DEF StartInv, StartTypes
    <2>3. \A x \in Pipelines : lock'[x] # "free" => /\ req'[lock'[x]].at \in Locking
                                                    /\ req'[lock'[x]].pipe = x
      BY <1>4, <2>2 DEF StartInv, LocksHeld
    <2> QED
      BY <2>1, <2>3 DEF LocksHeld
  <1>6. Asked'
    <2> SUFFICES ASSUME NEW s \in Requests, req'[s] \in Query
                 PROVE  AskedBy(req[s])'
      BY DEF Asked
    <2>1. AskedBy(req'[s])
      BY <1>1, <1>2, WitnessKeeps
    <2> QED
      BY <2>1 DEF AskedBy, Retryable, Start!Of, Start!Kept
  <1> QED
    BY <1>3, <1>5, <1>6, SameRuns DEF StartInv

\* INSERT ... ON CONFLICT DO NOTHING.
LEMMA InsertKeeps ==
  ASSUME StartInv, NEW q \in Requests, Start!EnqueueInsert(q)
  PROVE  StartInv'
  <1> DEFINE p == req[q].pipe  k == req[q].parent  n == Len(runs) + 1
             new == Start!new_run(req[q])
  <1>1. /\ req[q] \in Query /\ AskedBy(req[q]) /\ req[q].at = "insert"
        /\ p \in Pipelines /\ k \in Nat
    BY KindsOfRequest DEF StartInv, Asked, Start!EnqueueInsert, Query
  <1>2. req[q].at \in Locking
    BY <1>1 DEF Locking
  <1>3. k # 0 => /\ Retryable(k, p) /\ k \in Start!Kept /\ k \in 1..Len(runs)
                 /\ \A j \in Start!Of(p) : j <= k
    BY <1>1, RunRows DEF Start!EnqueueInsert, AskedBy, Start!Kept, StartInv
  <1>4. /\ new \in Start!Run /\ new.pipe = p /\ new.snap = req[q].snap
        /\ new.status = "queued" /\ new.parent = k /\ new.token = req[q].token
        /\ new.window = req[q].window /\ new.passed = req[q].passed /\ ~new.gone
        /\ k # 0 => new.attempt = runs[k].attempt + 1
    <2>1. Len(runs) < MaxRuns /\ Len(runs) \in Nat
      BY RunRows DEF StartInv, Start!EnqueueInsert
    <2>2. k \in 0..MaxRuns
      BY <1>1, <1>3, <2>1, StartAssumption
    <2>3. k # 0 => runs[k] \in Start!Run /\ runs[k].attempt \in Nat
      BY <1>3, RunRows DEF StartInv, Start!Run
    <2> QED
      BY <1>1, <2>2, <2>3 DEF Start!new_run, Start!Run, Query, Start!Terminal
  <1>5. /\ runs' \in Seq(Start!Run) /\ Len(runs') = n /\ Len(runs') <= MaxRuns
        /\ DOMAIN runs' = 1..n /\ DOMAIN runs = 1..Len(runs) /\ Len(runs) \in Nat
        /\ n \notin DOMAIN runs
        /\ runs'[n] = new /\ \A i \in DOMAIN runs : runs'[i] = runs[i]
    <2>1. runs \in Seq(Start!Run) /\ runs' = Append(runs, new) /\ Len(runs) < MaxRuns
      BY DEF StartInv, StartTypes, Start!EnqueueInsert
    <2>2. DOMAIN runs = 1..Len(runs) /\ Len(runs) \in Nat
      BY RunRows DEF StartInv
    <2>3. runs' \in Seq(Start!Run) /\ Len(runs') = n /\ runs'[n] = new
          /\ \A i \in 1..Len(runs) : runs'[i] = runs[i]
      BY <1>4, <2>1, AppendProperties
    <2>4. DOMAIN runs' = 1..n
      BY <2>3, LenProperties
    <2> QED
      BY <2>1, <2>2, <2>3, <2>4, StartAssumption
  <1>6. /\ req' \in [Requests -> Kinds] /\ req'[q] = Start!Idle
        /\ \A s \in Requests : s # q => req'[s] = req[s]
        /\ lock' \in [Pipelines -> Requests \cup {"free"}] /\ LocksHeld'
    BY <1>2, ReleaseFrees DEF Start!EnqueueInsert
  <1>7. StartTypes'
    BY <1>5, <1>6 DEF StartInv, StartTypes, Start!EnqueueInsert
  <1>8. /\ Start!Kept' = Start!Kept \cup {n}
        /\ Start!Kept \subseteq DOMAIN runs
    BY <1>4, <1>5 DEF Start!Kept
  <1>9. Asked'
    <2> SUFFICES ASSUME NEW s \in Requests, req'[s] \in Query
                 PROVE  AskedBy(req[s])'
      BY DEF Asked
    <2>1. s # q /\ req'[s] = req[s] /\ AskedBy(req[s])
      BY <1>6 DEF Query, Start!Idle, StartInv, Asked
    <2>2. req[s].at = "insert" => req[s].pipe # p
      BY <1>2, <2>1 DEF StartInv, LocksHeld, Locking
    <2>3. req[s].at = "insert" => Start!Of(req[s].pipe)' = Start!Of(req[s].pipe)
      BY <1>4, <1>5, <1>8, <2>1, <2>2 DEF Start!Of
    <2>4. \A i : Retryable(i, req[s].pipe) => Retryable(i, req[s].pipe)'
      BY <1>5, <2>1 DEF Retryable
    <2> QED
      BY <2>1, <2>3, <2>4 DEF AskedBy
  <1>10. Lineage'
    <2> SUFFICES ASSUME NEW i \in DOMAIN runs', runs'[i].parent # 0
                 PROVE  /\ Retryable(runs[i].parent, runs[i].pipe)'
                        /\ runs'[i].parent < i
                        /\ runs'[i].attempt = runs'[runs'[i].parent].attempt + 1
      BY DEF Lineage
    <2>1. CASE i \in DOMAIN runs
      BY <1>5, <2>1 DEF StartInv, Lineage, Retryable
    <2>2. CASE i = n
      BY <1>3, <1>4, <1>5, <2>2 DEF Retryable
    <2> QED
      BY <1>5, <2>1, <2>2
  <1>11. Start!OneRunPerToken'
    BY <1>4, <1>5, <1>8 DEF StartInv, Start!OneRunPerToken, Start!EnqueueInsert, Start!taken
  <1>12. Start!RetryLineage'
    <2>1. \A j \in Start!Kept : k # 0 => runs[j].parent # k
      <3> SUFFICES ASSUME NEW j \in Start!Kept, k # 0, runs[j].parent = k
                   PROVE  FALSE
        OBVIOUS
      <3>1. j \in DOMAIN runs /\ k < j /\ runs[j].pipe = p
        BY <1>3, <1>8 DEF StartInv, Lineage, Retryable
      <3>2. j \in Start!Of(p)
        BY <3>1 DEF Start!Of
      <3> QED
        BY <1>1, <1>3, <1>5, <3>1, <3>2
    <2>2. \A j \in Start!Kept : runs'[j] = runs[j]
      BY <1>5, <1>8
    <2>3. \A j \in Start!Kept : runs[j].parent # 0 =>
            runs[j].parent \in DOMAIN runs /\ runs'[runs[j].parent] = runs[runs[j].parent]
      BY <1>5, <1>8 DEF StartInv, Lineage, Retryable
    <2>4. k # 0 => runs'[k] = runs[k]
      BY <1>3, <1>5 DEF Retryable
    <2> QED
      BY <1>3, <1>4, <1>5, <1>8, <2>1, <2>2, <2>3, <2>4 DEF StartInv, Start!RetryLineage, Retryable
  <1>13. Start!RunsWhatWasChecked'
    BY <1>1, <1>4, <1>5 DEF StartInv, Start!RunsWhatWasChecked, AskedBy
  <1> QED
    BY <1>6, <1>7, <1>9, <1>10, <1>11, <1>12, <1>13 DEF StartInv

\* What the life of a run may change in its row: it ends once, a review is not
\* taken back, a purged run stays purged, and a purge only unlinks children.
RunMoves(i) ==
    /\ runs'[i].pipe = runs[i].pipe /\ runs'[i].snap = runs[i].snap
    /\ runs'[i].attempt = runs[i].attempt /\ runs'[i].token = runs[i].token
    /\ runs'[i].window = runs[i].window /\ runs'[i].passed = runs[i].passed
    /\ runs'[i].parent \in {runs[i].parent, 0}
    /\ runs[i].status = "uncertain" => runs'[i].status = "uncertain"
    /\ runs[i].reviewed => runs'[i].reviewed
    /\ runs[i].gone => runs'[i].gone

LEMMA MovesKeep ==
  ASSUME StartInv, UNCHANGED <<definition, world, edits, req, lock>>,
         runs' \in Seq(Start!Run), Len(runs') = Len(runs),
         \A i \in DOMAIN runs : RunMoves(i)
  PROVE  StartInv'
  <1>1. DOMAIN runs' = DOMAIN runs
    BY LenProperties DEF StartInv, StartTypes
  <1>2. StartTypes' /\ LocksHeld'
    BY DEF StartInv, StartTypes, LocksHeld
  <1>3. Start!Kept' \subseteq Start!Kept /\ Start!Kept \subseteq DOMAIN runs
    BY <1>1 DEF Start!Kept, RunMoves
  <1>4. Asked'
    <2> SUFFICES ASSUME NEW s \in Requests, req'[s] \in Query
                 PROVE  AskedBy(req[s])'
      BY DEF Asked
    <2>1. AskedBy(req[s]) /\ req'[s] = req[s]
      BY DEF StartInv, Asked
    <2>2. \A i : Retryable(i, req[s].pipe) => Retryable(i, req[s].pipe)'
      BY <1>1, <2>1 DEF Retryable, RunMoves
    <2>3. Start!Of(req[s].pipe)' \subseteq Start!Of(req[s].pipe)
      BY <1>1, <1>3, <2>1 DEF Start!Of, RunMoves
    <2> QED
      BY <2>1, <2>2, <2>3 DEF AskedBy
  <1>5. Lineage'
    <2> SUFFICES ASSUME NEW i \in DOMAIN runs, runs'[i].parent # 0
                 PROVE  /\ Retryable(runs[i].parent, runs[i].pipe)'
                        /\ runs'[i].parent < i
                        /\ runs'[i].attempt = runs'[runs'[i].parent].attempt + 1
      BY <1>1 DEF Lineage
    <2>1. runs'[i].parent = runs[i].parent /\ runs[i].parent # 0
      BY DEF RunMoves
    <2>2. /\ Retryable(runs[i].parent, runs[i].pipe) /\ runs[i].parent < i
          /\ runs[i].attempt = runs[runs[i].parent].attempt + 1
      BY <2>1 DEF StartInv, Lineage
    <2> QED
      BY <1>1, <2>1, <2>2 DEF Retryable, RunMoves
  <1>6. Start!OneRunPerToken'
    BY <1>1, <1>3 DEF StartInv, Start!OneRunPerToken, RunMoves
  <1>7. Start!RetryLineage'
    <2> SUFFICES ASSUME NEW i \in Start!Kept', runs'[i].parent # 0
                 PROVE  LET parent == runs'[runs'[i].parent] IN
                        /\ parent.pipe = runs'[i].pipe /\ parent.status = "uncertain"
                        /\ parent.reviewed /\ runs'[i].attempt = parent.attempt + 1
                        /\ \A j \in Start!Kept' \ {i} : runs'[j].parent # runs'[i].parent
      BY DEF Start!RetryLineage
    <2>1. /\ i \in Start!Kept /\ i \in DOMAIN runs'
          /\ runs'[i].parent = runs[i].parent /\ runs[i].parent # 0
      BY <1>1, <1>3 DEF RunMoves
    <2>2. \A j \in Start!Kept' \ {i} : runs'[j].parent # runs'[i].parent
      <3> SUFFICES ASSUME NEW j \in Start!Kept', j # i, runs'[j].parent = runs'[i].parent
                   PROVE  FALSE
        OBVIOUS
      <3>1. j \in Start!Kept /\ runs[j].parent = runs[i].parent
        BY <1>3, <2>1 DEF RunMoves
      <3> QED
        BY <2>1, <3>1 DEF StartInv, Start!RetryLineage
    <2> QED
      BY <1>1, <1>5, <2>1, <2>2 DEF Lineage, Retryable
  <1>8. Start!RunsWhatWasChecked'
    BY <1>1 DEF StartInv, Start!RunsWhatWasChecked, RunMoves
  <1> QED
    BY <1>2, <1>4, <1>5, <1>6, <1>7, <1>8 DEF StartInv

\* Claim, end, cancel and review of one run.
LEMMA RowKeeps ==
  ASSUME StartInv, NEW i \in Start!Kept, NEW r \in Start!Run, Start!SetRun(i, r),
         r.pipe = runs[i].pipe, r.snap = runs[i].snap, r.attempt = runs[i].attempt,
         r.token = runs[i].token, r.window = runs[i].window, r.passed = runs[i].passed,
         r.parent = runs[i].parent, r.gone = runs[i].gone,
         runs[i].status = "uncertain" => r.status = "uncertain",
         runs[i].reviewed => r.reviewed
  PROVE  StartInv'
  <1>1. runs \in Seq(Start!Run) /\ DOMAIN runs = 1..Len(runs) /\ i \in 1..Len(runs)
    BY RunRows DEF StartInv, StartTypes, Start!Kept
  <1>2. runs' = [runs EXCEPT ![i] = r] /\ UNCHANGED <<definition, world, edits, req, lock>>
    BY DEF Start!SetRun
  <1>3. /\ runs' \in Seq(Start!Run) /\ Len(runs') = Len(runs)
        /\ \A j \in DOMAIN runs : runs'[j] = IF j = i THEN r ELSE runs[j]
    BY <1>1, <1>2, ExceptSeq
  <1>4. \A j \in DOMAIN runs : RunMoves(j)
    BY <1>3 DEF RunMoves
  <1> QED
    BY <1>2, <1>3, <1>4, MovesKeep

LEMMA LifeKeeps ==
  ASSUME StartInv, NEW i \in 1..MaxRuns,
         \/ Start!Claim(i) \/ Start!Cancel(i) \/ Start!Reconcile(i)
         \/ \E s \in {"succeeded", "failed", "uncertain"} : Start!End(i, s)
  PROVE  StartInv'
  <1>1. i \in Start!Kept /\ runs[i] \in Start!Run
    BY RunRows DEF StartInv, Start!Kept, Start!Claim, Start!Cancel, Start!Reconcile, Start!End
  <1>2. ASSUME NEW s \in Start!Terminal \cup {"active"}, runs[i].status # "uncertain",
               Start!SetRun(i, [runs[i] EXCEPT !.status = s])
        PROVE  StartInv'
    <2> DEFINE r == [runs[i] EXCEPT !.status = s]
    <2>1. /\ r \in Start!Run
          /\ r.pipe = runs[i].pipe /\ r.snap = runs[i].snap /\ r.attempt = runs[i].attempt
          /\ r.token = runs[i].token /\ r.window = runs[i].window /\ r.passed = runs[i].passed
          /\ r.parent = runs[i].parent /\ r.gone = runs[i].gone /\ r.reviewed = runs[i].reviewed
      BY <1>1 DEF Start!Run
    <2> QED
      BY <1>1, <1>2, <2>1, RowKeeps
  <1>3. ASSUME Start!SetRun(i, [runs[i] EXCEPT !.reviewed = TRUE])
        PROVE  StartInv'
    <2> DEFINE r == [runs[i] EXCEPT !.reviewed = TRUE]
    <2>1. /\ r \in Start!Run
          /\ r.pipe = runs[i].pipe /\ r.snap = runs[i].snap /\ r.attempt = runs[i].attempt
          /\ r.token = runs[i].token /\ r.window = runs[i].window /\ r.passed = runs[i].passed
          /\ r.parent = runs[i].parent /\ r.gone = runs[i].gone /\ r.status = runs[i].status
          /\ r.reviewed
      BY <1>1 DEF Start!Run
    <2> QED
      BY <1>1, <1>3, <2>1, RowKeeps
  <1> QED
    BY <1>2, <1>3 DEF Start!Claim, Start!Cancel, Start!Reconcile, Start!End, Start!Terminal

\* The janitor.
LEMMA PurgeKeeps ==
  ASSUME StartInv, NEW i \in 1..MaxRuns, Start!Purge(i)
  PROVE  StartInv'
  <1> DEFINE Row(j) == IF j = i THEN [runs[j] EXCEPT !.gone = TRUE]
                       ELSE IF runs[j].parent = i THEN [runs[j] EXCEPT !.parent = 0] ELSE runs[j]
  <1>1. DOMAIN runs = 1..Len(runs) /\ Len(runs) \in Nat /\ \A j \in DOMAIN runs : runs[j] \in Start!Run
    BY RunRows DEF StartInv
  <1>2. runs' = [j \in 1..Len(runs) |-> Row(j)]
    <2>1. runs' = [j \in DOMAIN runs |-> Row(j)]
      BY DEF Start!Purge
    <2> QED
      BY <1>1, <2>1
  <1>3. \A j \in 1..Len(runs) : Row(j) \in Start!Run
    <2> SUFFICES ASSUME NEW j \in 1..Len(runs)
                 PROVE  Row(j) \in Start!Run
      OBVIOUS
    <2>1. [runs[j] EXCEPT !.gone = TRUE] \in Start!Run
      BY <1>1 DEF Start!Run
    <2>2. [runs[j] EXCEPT !.parent = 0] \in Start!Run
      BY <1>1, StartAssumption DEF Start!Run
    <2> QED
      BY <1>1, <2>1, <2>2
  <1>4. runs' \in Seq(Start!Run) /\ DOMAIN runs' = 1..Len(runs)
    <2>1. runs' \in [1..Len(runs) -> Start!Run]
      BY <1>2, <1>3
    <2> QED
      BY <1>1, <2>1
  <1>5. Len(runs') = Len(runs)
    BY <1>1, <1>4, LenProperties
  <1>6. \A j \in DOMAIN runs : RunMoves(j)
    <2> SUFFICES ASSUME NEW j \in DOMAIN runs
                 PROVE  RunMoves(j)
      OBVIOUS
    <2>1. runs'[j] = Row(j) /\ runs[j] \in Start!Run
      BY <1>1, <1>2
    <2> QED
      BY <2>1 DEF RunMoves, Start!Run
  <1> QED
    BY <1>4, <1>5, <1>6, MovesKeep DEF Start!Purge

\* The start of runs is safe for every number of requests, pipelines, tokens and
\* runs: at most one kept run per idempotency token, at most one retry of a run
\* and only of a reviewed uncertain one, and each run executes a definition that
\* was saved during its request and passed its preflight (_start_pipeline_run,
\* enqueue_run).
THEOREM StartsAreSafe == Start!Spec => []StartsSafe
  <1>1. Start!Init => StartInv
    <2> SUFFICES ASSUME Start!Init
                 PROVE  StartInv
      OBVIOUS
    <2> USE DEF Start!Init
    <2>1. runs = <<>> /\ DOMAIN runs = {} /\ Len(runs) = 0 /\ runs \in Seq(Start!Run)
      OBVIOUS
    <2>2. \A q \in Requests : req[q] = Start!Idle /\ req[q].at = "idle" /\ req[q] \notin Query
      BY DEF Start!Idle, Query
    <2>3. StartTypes
      <3>1. [source |-> "table", remove |-> {}] \in Start!Definitions
        BY DEF Start!Definitions
      <3>2. definition \in [Pipelines -> Start!Definitions]
        BY <3>1
      <3>3. req \in [Requests -> Kinds] /\ lock \in [Pipelines -> Requests \cup {"free"}]
        BY DEF Kinds, Start!Free
      <3> QED
        BY <2>1, <3>2, <3>3, StartAssumption DEF StartTypes
    <2>4. LocksHeld /\ Asked
      BY <2>2 DEF LocksHeld, Asked, Locking, Start!Free
    <2>5. /\ Lineage /\ Start!OneRunPerToken /\ Start!RetryLineage
          /\ Start!RunsWhatWasChecked
      BY <2>1 DEF Lineage, Start!OneRunPerToken, Start!RetryLineage,
                  Start!RunsWhatWasChecked, Start!Kept
    <2> QED
      BY <2>3, <2>4, <2>5 DEF StartInv
  <1>2. StartInv /\ [Start!Next]_(Start!vars) => StartInv'
    <2> SUFFICES ASSUME StartInv, [Start!Next]_(Start!vars)
                 PROVE  StartInv'
      OBVIOUS
    <2>1. CASE UNCHANGED Start!vars
      <3>1. StartTypes' /\ LocksHeld'
        BY <2>1 DEF Start!vars, StartInv, StartTypes, LocksHeld
      <3>2. Asked'
        BY <2>1 DEF Start!vars, StartInv, Asked, AskedBy, Retryable, Start!Of, Start!Kept
      <3> QED
        BY <2>1, <3>1, <3>2, SameRuns DEF Start!vars, StartInv
    <2>2. ASSUME NEW p \in Pipelines, NEW d \in Start!Definitions, Start!Save(p, d)
          PROVE  StartInv'
      BY <2>2, SaveKeeps DEF Start!Save
    <2>3. CASE Start!WorldChanges
      <3>1. StartTypes' /\ LocksHeld'
        BY <2>3, StartAssumption DEF Start!WorldChanges, StartInv, StartTypes, LocksHeld
      <3>2. Asked'
        BY <2>3 DEF Start!WorldChanges, StartInv, Asked, AskedBy, Retryable, Start!Of, Start!Kept
      <3> QED
        BY <2>3, <3>1, <3>2, SameRuns DEF Start!WorldChanges, StartInv
    <2>4. ASSUME NEW q \in Requests, NEW p \in Pipelines, NEW t \in Tokens \cup {NoToken},
                 Start!Start(q, p, t)
          PROVE  StartInv'
      BY <2>4, StartKeeps DEF Start!Start
    <2>5. ASSUME NEW q \in Requests, NEW p \in Pipelines, NEW d \in Start!Definitions,
                 Start!SaveAndRun(q, p, d)
          PROVE  StartInv'
      BY <2>5, SaveKeeps DEF Start!SaveAndRun
    <2>6. ASSUME NEW q \in Requests, Start!StartSaved(q)
          PROVE  StartInv'
      <3>1. req[q].pipe \in Pipelines
        BY <2>6, KindsOfRequest DEF Start!StartSaved, StartInv, Saved
      <3> QED
        BY <2>6, <3>1, StartKeeps DEF Start!StartSaved
    <2>7. ASSUME NEW q \in Requests, Start!PreflightRefuses(q) \/ Start!EnqueueRefused(q)
          PROVE  StartInv'
      BY <2>7, RefusalKeeps DEF Start!PreflightRefuses, Start!EnqueueRefused, Locking
    <2>8. ASSUME NEW q \in Requests,
                 \/ Start!PreflightPasses(q) \/ Start!EnqueueCheck(q) \/ Start!EnqueueParent(q)
                 \/ Start!EnqueueInsert(q) \/ Start!EnqueueExisting(q)
          PROVE  StartInv'
      BY <2>8, PassKeeps, CheckKeeps, ParentKeeps, InsertKeeps, ExistingKeeps
    <2>9. ASSUME NEW i \in 1..MaxRuns,
                 \/ Start!Claim(i) \/ Start!Cancel(i) \/ Start!Reconcile(i) \/ Start!Purge(i)
                 \/ \E s \in {"succeeded", "failed", "uncertain"} : Start!End(i, s)
          PROVE  StartInv'
      BY <2>9, LifeKeeps, PurgeKeeps
    <2> QED
      BY <2>1, <2>2, <2>3, <2>4, <2>5, <2>6, <2>7, <2>8, <2>9 DEF Start!Next
  <1>3. StartInv => StartsSafe
    <2> SUFFICES ASSUME StartInv
                 PROVE  StartsSafe
      OBVIOUS
    <2>1. \A q \in Requests :
            req[q].at \in {"idle", "saved", "preflight", "enqueue", "parent", "insert"}
      BY KindsOfRequest DEF StartInv, Kinds, Query, Saved, Start!Idle
    <2>2. \A p \in Pipelines : lock[p] # "free" => lock[p] \in Requests
      BY DEF StartInv, StartTypes
    <2>3. Start!TypeOK
      BY <2>1, <2>2 DEF Start!TypeOK, Start!Free, StartInv, StartTypes, LocksHeld, Locking
    <2> QED
      BY <2>3 DEF StartInv, StartsSafe, Start!Safety
  <1> QED
    BY <1>1, <1>2, <1>3, PTL DEF Start!Spec

------------------------------------------------------------------------------
(* The credential vault.                                                    *)

VaultRow == [id : Nat, value : Vault!Bundles, rev : Nat \ {0}, key : Nat,
             status : {"untested", "connected", "failed"}, measured : Nat,
             check : Tests \cup {"none"}]

SaveTx == [at : {"waiting", "locked"}, value : Vault!Bundles,
           stored : {Vault!NoRow, Vault!Unloaded} \cup VaultRow]
TestTx == [at : {"read", "claimed"}, id : Nat, rev : Nat]
CreateTx == [at : {"remote"}, id : Nat, rev : Nat]
            \cup [at : {"registered"}, used : Nat, current : Nat]

VaultTypes ==
    /\ rev \in Nat /\ active \in 1..Keys
    /\ wraps \in [1..Keys -> 0..MaxWraps] /\ wrapped = wraps
    /\ row \in {Vault!NoRow} \cup VaultRow
    /\ row # Vault!NoRow => row.rev <= rev /\ row.measured <= rev /\ row.key \in 1..active
    /\ save \in [Saves -> {Vault!Idle} \cup SaveTx]
    /\ test \in [Tests -> {Vault!Idle} \cup TestTx]
    /\ create \in [Creates -> {Vault!Idle} \cup CreateTx]

OneLocked == \A s, t \in Saves : save[s].at = "locked" /\ save[t].at = "locked" => s = t

\* The save that holds the lock has loaded the row that is stored, or found none;
\* only the databricks form has read it before.
LoadedRow ==
    \A s \in Saves :
        /\ save[s].at = "locked" =>
              /\ save[s].stored # Vault!Unloaded
              /\ save[s].stored = Vault!NoRow <=> row = Vault!NoRow
              /\ row # Vault!NoRow => save[s].stored.id = row.id
        /\ save[s].at = "waiting" /\ Provider # "databricks" => save[s].stored = Vault!Unloaded

Careful == Provider = "databricks" => Vault!OneSaver

\* Without another databricks save, what a save has read of the bundle is still so,
\* and its answer on the consent was given for the identity that is stored.
ReadStillTrue ==
    Careful => \A s \in Saves : save[s].at # "idle" /\ row # Vault!NoRow =>
        /\ save[s].stored \in VaultRow /\ save[s].stored.id = row.id =>
              save[s].stored.value = row.value
        /\ row.value.ident # save[s].value.ident => save[s].value.policy = "manual"

VaultInv ==
    /\ VaultTypes /\ OneLocked /\ LoadedRow /\ ReadStillTrue /\ Vault!DatasetOfCurrent

LEMMA StoredRow ==
  ASSUME VaultTypes
  PROVE  /\ row # Vault!NoRow <=> row \in VaultRow
         /\ Vault!NoRow \notin VaultRow /\ Vault!Unloaded \notin VaultRow
         /\ Vault!NoRow # Vault!Unloaded
         /\ Vault!NoRow.rev = 0 /\ Vault!Unloaded.rev = -1
         /\ \A x \in VaultRow : x.rev > 0
  BY DEF VaultTypes, VaultRow, Vault!NoRow, Vault!Unloaded

LEMMA SaveKinds ==
  ASSUME VaultTypes, NEW s \in Saves
  PROVE  /\ save[s].at # "idle" <=> save[s] \in SaveTx
         /\ save[s].at = "idle" <=> save[s] = Vault!Idle
         /\ save[s].at \in {"idle", "waiting", "locked"}
         /\ save[s] \in SaveTx => /\ save[s].value \in Vault!Bundles
                                  /\ save[s].stored \in {Vault!NoRow, Vault!Unloaded} \cup VaultRow
  BY DEF VaultTypes, SaveTx, Vault!Idle

\* A step that saves nothing: the row stays, or a result is noted on it that was
\* measured with the bundle it has.
LEMMA NotedKeeps ==
  ASSUME VaultInv, UNCHANGED <<rev, wraps, wrapped, save>>,
         active' \in 1..Keys, active' >= active,
         test' \in [Tests -> {Vault!Idle} \cup TestTx],
         create' \in [Creates -> {Vault!Idle} \cup CreateTx], Vault!DatasetOfCurrent',
         \/ row' = row
         \/ /\ row \in VaultRow /\ row' \in VaultRow
            /\ row'.id = row.id /\ row'.value = row.value /\ row'.rev = row.rev
            /\ row'.key = row.key /\ row'.measured \in {row.measured, row.rev}
  PROVE  VaultInv' /\ Vault!StepsSafe
  <1>1. /\ row' # Vault!NoRow <=> row # Vault!NoRow
        /\ row # Vault!NoRow => /\ row \in VaultRow /\ row' \in VaultRow
                                /\ row'.id = row.id /\ row'.value = row.value
                                /\ row'.rev = row.rev /\ row'.key = row.key
                                /\ row'.measured \in {row.measured, row.rev}
    BY StoredRow DEF VaultInv
  <1>2. VaultTypes'
    <2>1. row' \in {Vault!NoRow} \cup VaultRow
      BY <1>1
    <2>2. row' # Vault!NoRow => /\ row'.rev <= rev /\ row'.measured <= rev
                                /\ row'.key \in 1..active'
      BY <1>1 DEF VaultInv, VaultTypes, VaultRow
    <2> QED
      BY <2>1, <2>2 DEF VaultInv, VaultTypes
  <1>3. OneLocked' /\ LoadedRow' /\ ReadStillTrue'
    BY <1>1 DEF VaultInv, OneLocked, LoadedRow, ReadStillTrue, Careful, Vault!OneSaver
  <1>4. Vault!StepsSafe
    BY <1>1 DEF Vault!StepsSafe, Vault!ResultOfStoredRevision, Vault!NoLostSave,
                Vault!ConsentReset, Vault!Exists
  <1> QED
    BY <1>2, <1>3, <1>4 DEF VaultInv

\* A save that ends, or goes on, without writing.
LEMMA SaveMoves ==
  ASSUME VaultInv, NEW s \in Saves, NEW x \in {Vault!Idle} \cup SaveTx,
         save' = [save EXCEPT ![s] = x],
         UNCHANGED <<row, rev, active, wraps, wrapped, test, create>>,
         x.at = "locked" => \A t \in Saves : t # s => save[t].at # "locked",
         x.at = "locked" => /\ x.stored # Vault!Unloaded
                            /\ x.stored = Vault!NoRow <=> row = Vault!NoRow
                            /\ row # Vault!NoRow => x.stored.id = row.id,
         x.at = "waiting" /\ Provider # "databricks" => x.stored = Vault!Unloaded,
         Careful /\ x.at # "idle" /\ row # Vault!NoRow =>
            /\ x.stored \in VaultRow /\ x.stored.id = row.id => x.stored.value = row.value
            /\ row.value.ident # x.value.ident => x.value.policy = "manual"
  PROVE  VaultInv'
  <1>1. \A t \in Saves : save'[t] = IF t = s THEN x ELSE save[t]
    BY DEF VaultInv, VaultTypes
  <1>2. VaultTypes'
    BY DEF VaultInv, VaultTypes
  <1>3. OneLocked'
    BY <1>1 DEF VaultInv, OneLocked
  <1>4. LoadedRow'
    BY <1>1 DEF VaultInv, LoadedRow
  <1>5. ReadStillTrue'
    BY <1>1 DEF VaultInv, ReadStillTrue, Careful, Vault!OneSaver
  <1> QED
    BY <1>2, <1>3, <1>4, <1>5 DEF VaultInv, Vault!DatasetOfCurrent

\* A step that writes no row is safe if a save that ends by it finds its bundle
\* stored or the master key used up.
LEMMA NothingWritten ==
  ASSUME UNCHANGED row,
         Careful => \A s \in Saves : save[s].at = "locked" /\ save'[s].at = "idle" =>
            (row # Vault!NoRow /\ row.value = save[s].value) \/ wraps[active] >= MaxWraps
  PROVE  Vault!StepsSafe
  BY DEF Vault!StepsSafe, Vault!ResultOfStoredRevision, Vault!NoLostSave, Vault!ConsentReset,
         Careful

LEMMA SubmitKeeps ==
  ASSUME VaultInv, NEW s \in Saves, Vault!secret_submit(s)
  PROVE  VaultInv' /\ Vault!StepsSafe
  <1>1. PICK v \in Vault!Bundles : Vault!store_user_credentials_if_changed(s, v)
    BY DEF Vault!secret_submit
  <1> DEFINE seen == IF Provider = "databricks" THEN row ELSE Vault!Unloaded
             w == Vault!resets_consent(v, seen)
             x == [at |-> "waiting", value |-> w, stored |-> seen]
  <1>2. /\ save[s].at = "idle" /\ save' = [save EXCEPT ![s] = x]
        /\ UNCHANGED <<row, rev, active, wraps, wrapped, cache, test, browse, create>>
    BY <1>1 DEF Vault!store_user_credentials_if_changed
  <1>3. /\ w \in Vault!Bundles
        /\ Provider = "databricks" /\ row # Vault!NoRow /\ row.value.ident # w.ident =>
              w.policy = "manual"
    <2>1. v.ident = w.ident
      BY DEF Vault!resets_consent, Vault!Bundles
    <2>2. w \in Vault!Bundles
      BY DEF Vault!resets_consent, Vault!Bundles, Vault!Policies
    <2>3. row # Vault!NoRow => row.rev > 0
      BY StoredRow DEF VaultInv
    <2>4. [v EXCEPT !.policy = "manual"].policy = "manual"
      BY DEF Vault!Bundles
    <2> QED
      BY <2>1, <2>2, <2>3, <2>4 DEF Vault!resets_consent
  <1>4. Provider # "databricks" => w.policy = "manual"
    BY <1>3 DEF Vault!Bundles, Vault!Policies
  <1>5. x \in SaveTx /\ x.at = "waiting" /\ x.stored = seen /\ x.value = w
    BY <1>3 DEF SaveTx, VaultInv, VaultTypes
  <1>6. Careful /\ row # Vault!NoRow =>
          /\ x.stored \in VaultRow /\ x.stored.id = row.id => x.stored.value = row.value
          /\ row.value.ident # x.value.ident => x.value.policy = "manual"
    BY <1>3, <1>4, <1>5, StoredRow DEF VaultInv
  <1>7. VaultInv'
    BY <1>2, <1>5, <1>6, SaveMoves
  <1>8. \A t \in Saves : ~(save[t].at = "locked" /\ save'[t].at = "idle")
    BY <1>2, <1>5 DEF VaultInv, VaultTypes
  <1> QED
    BY <1>2, <1>7, <1>8, NothingWritten

LEMMA LockKeeps ==
  ASSUME VaultInv, NEW s \in Saves, Vault!LockUser(s)
  PROVE  VaultInv' /\ Vault!StepsSafe
  <1> DEFINE old == save[s].stored  l == Vault!loaded(s)
             x == [save[s] EXCEPT !.at = "locked", !.stored = l]
  <1>1. /\ save[s].at = "waiting" /\ save[s] \in SaveTx
        /\ save' = [save EXCEPT ![s] = x] /\ \A t \in Saves : save[t].at # "locked"
        /\ UNCHANGED <<row, rev, active, wraps, wrapped, cache, test, browse, create>>
    BY SaveKinds DEF VaultInv, Vault!LockUser, Vault!user_locked
  <1>2. /\ l \in {Vault!NoRow} \cup VaultRow
        /\ l = Vault!NoRow <=> row = Vault!NoRow
        /\ row # Vault!NoRow => l.id = row.id
        /\ l = row \/ (l = old /\ old \in VaultRow)
    BY <1>1, StoredRow, SaveKinds DEF VaultInv, VaultTypes, Vault!loaded, Vault!Exists
  <1>3. x \in SaveTx /\ x.at = "locked" /\ x.stored = l /\ x.value = save[s].value
    BY <1>1, <1>2 DEF SaveTx
  <1>4. Careful /\ row # Vault!NoRow =>
          /\ x.stored \in VaultRow /\ x.stored.id = row.id => x.stored.value = row.value
          /\ row.value.ident # x.value.ident => x.value.policy = "manual"
    BY <1>1, <1>2, <1>3 DEF VaultInv, ReadStillTrue
  <1>5. x.stored # Vault!Unloaded
    BY <1>2, <1>3, StoredRow DEF VaultInv
  <1>6. VaultInv'
    BY <1>1, <1>2, <1>3, <1>4, <1>5, SaveMoves
  <1>7. \A t \in Saves : ~(save[t].at = "locked" /\ save'[t].at = "idle")
    BY <1>1, <1>3 DEF VaultInv, VaultTypes
  <1> QED
    BY <1>1, <1>6, <1>7, NothingWritten

\* The bundle is stored already, or the master key is used up.
LEMMA ReturnKeeps ==
  ASSUME VaultInv, NEW s \in Saves, Vault!ReturnUnchanged(s) \/ Vault!KeyExhausted(s)
  PROVE  VaultInv' /\ Vault!StepsSafe
  <1>1. /\ save[s].at = "locked" /\ save' = [save EXCEPT ![s] = Vault!Idle]
        /\ UNCHANGED <<row, rev, active, wraps, wrapped, cache, test, browse, create>>
        /\ Vault!unchanged(s) \/ ~Vault!_reserve_master_key_use(active)
    BY DEF Vault!ReturnUnchanged, Vault!KeyExhausted
  <1>2. Vault!Idle.at = "idle"
    BY DEF Vault!Idle
  <1>3. VaultInv'
    BY <1>1, <1>2, SaveMoves
  <1>4. ~Vault!_reserve_master_key_use(active) => wraps[active] >= MaxWraps
    BY VaultAssumption DEF Vault!_reserve_master_key_use, VaultInv, VaultTypes
  <1>5. Careful /\ Vault!unchanged(s) => row # Vault!NoRow /\ row.value = save[s].value
    <2> SUFFICES ASSUME Careful, Vault!unchanged(s)
                 PROVE  row # Vault!NoRow /\ row.value = save[s].value
      OBVIOUS
    <2>1. /\ save[s].stored # Vault!NoRow /\ save[s].stored.value = save[s].value
          /\ save[s].stored # Vault!Unloaded /\ row # Vault!NoRow /\ save[s].stored.id = row.id
      BY <1>1 DEF Vault!unchanged, VaultInv, LoadedRow
    <2>2. save[s].stored \in VaultRow
      BY <1>1, <2>1, SaveKinds DEF VaultInv
    <2> QED
      BY <1>1, <2>1, <2>2 DEF VaultInv, ReadStillTrue
  <1>6. \A t \in Saves : save[t].at = "locked" /\ save'[t].at = "idle" => t = s
    BY <1>1 DEF VaultInv, OneLocked
  <1> QED
    BY <1>1, <1>3, <1>4, <1>5, <1>6, NothingWritten

\* What the flush writes: a new row, or the stored one with the new envelope.
LEMMA FlushedRow ==
  ASSUME VaultInv, NEW s \in Saves, save[s].at = "locked"
  PROVE  LET f == Vault!Flushed(save[s].stored, save[s].value) IN
         /\ f \in VaultRow /\ f.value = save[s].value /\ f.rev = rev + 1
         /\ f.measured <= rev /\ f.key = active
         /\ row # Vault!NoRow => f.id = row.id
  <1> DEFINE old == save[s].stored  v == save[s].value  f == Vault!Flushed(old, v)
  <1>1. /\ v \in Vault!Bundles /\ rev \in Nat /\ active \in Nat
        /\ old = Vault!NoRow <=> row = Vault!NoRow
    BY SaveKinds, VaultAssumption DEF VaultInv, VaultTypes, LoadedRow
  <1>2. CASE old = Vault!NoRow
    <2>1. f = [id |-> rev + 1, value |-> v, rev |-> rev + 1, key |-> active,
               status |-> "untested", measured |-> 0, check |-> "none"]
      BY <1>2 DEF Vault!Flushed
    <2> QED
      BY <1>1, <1>2, <2>1 DEF VaultRow
  <1>3. CASE old # Vault!NoRow
    <2>1. row \in VaultRow /\ row.measured <= rev
      BY <1>1, <1>3, StoredRow DEF VaultInv, VaultTypes
    <2> DEFINE st == IF old.status = "untested" THEN row.status ELSE "untested"
               m == IF old.status = "untested" THEN row.measured ELSE 0
               c == IF old.check = "none" THEN row.check ELSE "none"
    <2>2. f = [row EXCEPT !.value = v, !.rev = rev + 1, !.key = active,
                          !.status = st, !.measured = m, !.check = c]
      BY <1>3 DEF Vault!Flushed
    <2>3. /\ st \in {"untested", "connected", "failed"} /\ m \in Nat /\ m <= rev
          /\ c \in Tests \cup {"none"}
      BY <1>1, <2>1 DEF VaultRow
    <2> HIDE DEF st, m, c, f, v
    <2>4. f = [id |-> row.id, value |-> v, rev |-> rev + 1, key |-> active,
               status |-> st, measured |-> m, check |-> c]
      BY <2>1, <2>2 DEF VaultRow
    <2>5. /\ f \in VaultRow /\ f.value = v /\ f.rev = rev + 1
          /\ f.measured <= rev /\ f.key = active /\ f.id = row.id
      BY <1>1, <2>1, <2>3, <2>4 DEF VaultRow
    <2> QED
      BY <2>5 DEF f, v
  <1> QED
    BY <1>2, <1>3

LEMMA StoreKeeps ==
  ASSUME VaultInv, NEW s \in Saves, Vault!_store_encrypted_value(s)
  PROVE  VaultInv' /\ Vault!StepsSafe
  <1> DEFINE v == save[s].value
  <1>1. /\ save[s].at = "locked" /\ row' = Vault!Flushed(save[s].stored, v)
        /\ rev' = rev + 1 /\ wraps[active] < MaxWraps
        /\ wraps' = [wraps EXCEPT ![active] = @ + 1]
        /\ wrapped' = [wrapped EXCEPT ![active] = @ + 1]
        /\ save' = [save EXCEPT ![s] = Vault!Idle]
        /\ UNCHANGED <<active, test, browse, create>>
    BY DEF Vault!_store_encrypted_value, Vault!_reserve_master_key_use
  <1>2. /\ row' \in VaultRow /\ row'.value = v /\ row'.rev = rev + 1
        /\ row'.measured <= rev /\ row'.key = active
        /\ row # Vault!NoRow => row'.id = row.id
    BY <1>1, FlushedRow
  <1>3. row' # Vault!NoRow
    BY <1>2, StoredRow DEF VaultInv
  <1>4. \A t \in Saves : save'[t] = IF t = s THEN Vault!Idle ELSE save[t]
    BY <1>1 DEF VaultInv, VaultTypes
  <1>5. Vault!Idle.at = "idle"
    BY DEF Vault!Idle
  <1>6. \A t \in Saves : save'[t].at # "locked"
    BY <1>1, <1>4, <1>5 DEF VaultInv, OneLocked
  <1>7. VaultTypes'
    <2>1. wraps' \in [1..Keys -> 0..MaxWraps] /\ wrapped' = wraps'
      BY <1>1, VaultAssumption DEF VaultInv, VaultTypes
    <2>2. /\ rev' \in Nat /\ row'.rev <= rev' /\ row'.measured <= rev' /\ row'.key \in 1..active'
      BY <1>1, <1>2, VaultAssumption DEF VaultInv, VaultTypes, VaultRow
    <2> QED
      BY <1>1, <1>2, <2>1, <2>2 DEF VaultInv, VaultTypes
  <1>8. OneLocked' /\ LoadedRow'
    BY <1>4, <1>5, <1>6 DEF VaultInv, OneLocked, LoadedRow
  <1>9. ReadStillTrue'
    <2> SUFFICES ASSUME Careful, NEW t \in Saves, save'[t].at # "idle"
                 PROVE  /\ save'[t].stored \notin VaultRow
                        /\ save'[t].value.policy = "manual"
      BY DEF ReadStillTrue, Careful, Vault!OneSaver
    <2>1. t # s /\ save'[t] = save[t] /\ save[t].at = "waiting"
      BY <1>4, <1>5, <1>6, SaveKinds DEF VaultInv
    <2>2. Provider # "databricks"
      BY <2>1 DEF Careful, Vault!OneSaver
    <2>3. save[t].stored = Vault!Unloaded
      BY <2>1, <2>2 DEF VaultInv, LoadedRow
    <2>4. save[t].value.policy = "manual"
      BY <2>1, <2>2, SaveKinds DEF VaultInv, Vault!Bundles, Vault!Policies
    <2> QED
      BY <2>1, <2>3, <2>4, StoredRow DEF VaultInv
  <1>10. Vault!StepsSafe
    <2>1. Vault!ResultOfStoredRevision
      BY <1>2, StoredRow DEF VaultInv, VaultTypes, Vault!ResultOfStoredRevision, Vault!Exists
    <2>2. Vault!NoLostSave
      BY <1>1, <1>2, <1>3 DEF VaultInv, OneLocked, Vault!NoLostSave
    <2>3. Careful => Vault!ConsentReset
      BY <1>1, <1>2 DEF VaultInv, ReadStillTrue, Vault!ConsentReset, Vault!Exists
    <2> QED
      BY <2>1, <2>2, <2>3 DEF Vault!StepsSafe, Careful
  <1> QED
    BY <1>1, <1>7, <1>8, <1>9, <1>10 DEF VaultInv, Vault!DatasetOfCurrent

LEMMA DeleteKeeps ==
  ASSUME VaultInv, Vault!secret_delete_submit
  PROVE  VaultInv' /\ Vault!StepsSafe
  <1>1. /\ row' = Vault!NoRow /\ UNCHANGED <<rev, active, wraps, wrapped, save, test, create>>
        /\ \A s \in Saves : save[s].at # "locked"
    BY DEF Vault!secret_delete_submit, Vault!delete_user_secret, Vault!user_locked, Vault!actors
  <1>2. VaultTypes'
    BY <1>1 DEF VaultInv, VaultTypes
  <1>3. OneLocked' /\ LoadedRow' /\ ReadStillTrue' /\ Vault!DatasetOfCurrent'
    BY <1>1 DEF VaultInv, OneLocked, LoadedRow, ReadStillTrue, Vault!DatasetOfCurrent
  <1>4. Vault!StepsSafe
    BY <1>1 DEF Vault!StepsSafe, Vault!ResultOfStoredRevision, Vault!NoLostSave,
                Vault!ConsentReset
  <1> QED
    BY <1>2, <1>3, <1>4 DEF VaultInv

\* A connection check: only the check that read the stored revision and still
\* holds the claim notes a result.
LEMMA CheckingKeeps ==
  ASSUME VaultInv, NEW t \in Tests,
         Vault!connection_test_submit(t) \/ Vault!ClaimCheck(t) \/ Vault!RecordHealth(t)
  PROVE  VaultInv' /\ Vault!StepsSafe
  <1>1. /\ UNCHANGED <<rev, active, wraps, wrapped, save, create>>
        /\ active \in 1..Keys /\ active' >= active
    BY VaultAssumption
       DEF VaultInv, VaultTypes, Vault!connection_test_submit, Vault!test_user_connection,
           Vault!ClaimCheck, Vault!RecordHealth
  <1>2. create' \in [Creates -> {Vault!Idle} \cup CreateTx] /\ Vault!DatasetOfCurrent'
    BY <1>1 DEF VaultInv, VaultTypes, Vault!DatasetOfCurrent
  <1>3. CASE Vault!connection_test_submit(t)
    <2> DEFINE x == [at |-> "read", id |-> row.id, rev |-> row.rev]
    <2>1. row' = row /\ row # Vault!NoRow /\ test' = [test EXCEPT ![t] = x]
      BY <1>3 DEF Vault!connection_test_submit, Vault!test_user_connection, Vault!Exists,
                  Vault!decrypted
    <2>2. x \in TestTx
      BY <2>1, StoredRow DEF VaultInv, VaultRow, TestTx
    <2>3. test' \in [Tests -> {Vault!Idle} \cup TestTx]
      BY <2>1, <2>2 DEF VaultInv, VaultTypes
    <2> QED
      BY <1>1, <1>2, <2>1, <2>3, NotedKeeps
  <1>4. CASE Vault!ClaimCheck(t)
    <2>1. test[t] \in TestTx
      BY <1>4 DEF Vault!ClaimCheck, VaultInv, VaultTypes, Vault!Idle
    <2>2. [test[t] EXCEPT !.at = "claimed"] \in TestTx
      BY <2>1 DEF TestTx
    <2>3. test' \in [Tests -> {Vault!Idle} \cup TestTx]
      BY <1>4, <2>2 DEF Vault!ClaimCheck, VaultInv, VaultTypes
    <2>4. \/ row' = row
          \/ row # Vault!NoRow /\ row' = [row EXCEPT !.check = t]
      BY <1>4 DEF Vault!ClaimCheck, Vault!same_revision, Vault!Exists
    <2>5. CASE row # Vault!NoRow /\ row' = [row EXCEPT !.check = t]
      <3>1. /\ row \in VaultRow /\ row' \in VaultRow /\ row'.id = row.id
            /\ row'.value = row.value /\ row'.rev = row.rev /\ row'.key = row.key
            /\ row'.measured = row.measured
        BY <2>5, StoredRow DEF VaultInv, VaultRow
      <3> QED
        BY <1>1, <1>2, <2>3, <3>1, NotedKeeps
    <2> QED
      BY <1>1, <1>2, <2>3, <2>4, <2>5, NotedKeeps
  <1>5. CASE Vault!RecordHealth(t)
    <2>1. test' \in [Tests -> {Vault!Idle} \cup TestTx]
      BY <1>5 DEF Vault!RecordHealth, VaultInv, VaultTypes
    <2>2. PICK h \in {"connected", "failed", "untested"} :
             \/ row' = row
             \/ /\ row # Vault!NoRow /\ row.rev = test[t].rev
                /\ row' = [row EXCEPT !.status = h, !.measured = test[t].rev, !.check = "none"]
      BY <1>5 DEF Vault!RecordHealth, Vault!holds_check, Vault!same_revision, Vault!Exists
    <2>3. CASE /\ row # Vault!NoRow /\ row.rev = test[t].rev
               /\ row' = [row EXCEPT !.status = h, !.measured = test[t].rev, !.check = "none"]
      <3>1. /\ row \in VaultRow /\ row' \in VaultRow /\ row'.id = row.id
            /\ row'.value = row.value /\ row'.rev = row.rev /\ row'.key = row.key
            /\ row'.measured = row.rev
        BY <2>3, StoredRow DEF VaultInv, VaultRow
      <3> QED
        BY <1>1, <1>2, <2>1, <3>1, NotedKeeps
    <2> QED
      BY <1>1, <1>2, <2>1, <2>2, <2>3, NotedKeeps
  <1> QED
    BY <1>3, <1>4, <1>5

\* Creating a dataset: it is registered for the revision that is stored.
LEMMA CreatingKeeps ==
  ASSUME VaultInv, NEW c \in Creates,
         Vault!create_foundry_dataset(c) \/ Vault!RegisterDataset(c)
  PROVE  VaultInv' /\ Vault!StepsSafe
  <1>1. /\ UNCHANGED <<rev, active, wraps, wrapped, save, test>>
        /\ active \in 1..Keys /\ active' >= active
    BY VaultAssumption
       DEF VaultInv, VaultTypes, Vault!create_foundry_dataset, Vault!RegisterDataset
  <1>2. test' \in [Tests -> {Vault!Idle} \cup TestTx]
    BY <1>1 DEF VaultInv, VaultTypes
  <1>3. ASSUME NEW x \in {Vault!Idle} \cup CreateTx, create' = [create EXCEPT ![c] = x],
               x.at = "registered" => x.used = x.current
        PROVE  create' \in [Creates -> {Vault!Idle} \cup CreateTx] /\ Vault!DatasetOfCurrent'
    BY <1>3 DEF VaultInv, VaultTypes, Vault!DatasetOfCurrent
  <1>4. CASE Vault!create_foundry_dataset(c)
    <2> DEFINE x == [at |-> "remote", id |-> row.id, rev |-> row.rev]
    <2>1. row' = row /\ row # Vault!NoRow /\ create' = [create EXCEPT ![c] = x]
      BY <1>4 DEF Vault!create_foundry_dataset, Vault!Exists, Vault!decrypted
    <2>2. x \in CreateTx /\ x.at # "registered"
      BY <2>1, StoredRow DEF VaultInv, VaultRow, CreateTx
    <2> QED
      BY <1>1, <1>2, <1>3, <2>1, <2>2, NotedKeeps
  <1>5. CASE Vault!RegisterDataset(c) /\ Vault!registers(c)
    <2> DEFINE x == [at |-> "registered", used |-> create[c].rev, current |-> row.rev]
    <2>1. /\ row # Vault!NoRow /\ row.rev = create[c].rev /\ create' = [create EXCEPT ![c] = x]
          /\ row' = [row EXCEPT !.status = "connected", !.measured = create[c].rev]
      BY <1>5 DEF Vault!RegisterDataset, Vault!registers, Vault!same_revision, Vault!Exists
    <2>2. /\ row \in VaultRow /\ row' \in VaultRow /\ row'.id = row.id
          /\ row'.value = row.value /\ row'.rev = row.rev /\ row'.key = row.key
          /\ row'.measured = row.rev
      BY <2>1, StoredRow DEF VaultInv, VaultRow
    <2>3. x \in CreateTx /\ x.used = x.current
      BY <2>1, <2>2 DEF VaultRow, CreateTx
    <2> QED
      BY <1>1, <1>2, <1>3, <2>1, <2>2, <2>3, NotedKeeps
  <1>6. CASE Vault!RegisterDataset(c) /\ ~Vault!registers(c)
    <2>1. Vault!Idle.at # "registered"
      BY DEF Vault!Idle
    <2> QED
      BY <1>1, <1>2, <1>3, <1>6, <2>1, NotedKeeps DEF Vault!RegisterDataset
  <1> QED
    BY <1>4, <1>5, <1>6

\* Browsing, a new master key and an expired answer do not touch the row.
LEMMA ElsewhereKeeps ==
  ASSUME VaultInv,
         \/ \E b \in Browses : \/ Vault!BrowseDecrypt(b) \/ Vault!_credentials_for(b)
                               \/ Vault!list_objects(b) \/ Vault!_write_cache(b)
         \/ Vault!RotateKey \/ Vault!CacheDropped \/ UNCHANGED vaultVars
  PROVE  VaultInv' /\ Vault!StepsSafe
  <1>1. /\ UNCHANGED <<row, rev, wraps, wrapped, save, test, create>>
        /\ active' \in 1..Keys /\ active' >= active
    <2>1. active \in 1..Keys
      BY DEF VaultInv, VaultTypes
    <2>2. UNCHANGED active \/ (active < Keys /\ active' = active + 1)
      BY DEF Vault!BrowseDecrypt, Vault!_credentials_for, Vault!list_objects,
             Vault!_write_cache, Vault!RotateKey, Vault!CacheDropped, vaultVars
    <2>3. UNCHANGED <<row, rev, wraps, wrapped, save, test, create>>
      BY DEF Vault!BrowseDecrypt, Vault!_credentials_for, Vault!list_objects,
             Vault!_write_cache, Vault!RotateKey, Vault!CacheDropped, Vault!actors, vaultVars
    <2> QED
      BY <2>1, <2>2, <2>3, VaultAssumption
  <1>2. /\ test' \in [Tests -> {Vault!Idle} \cup TestTx]
        /\ create' \in [Creates -> {Vault!Idle} \cup CreateTx] /\ Vault!DatasetOfCurrent'
    BY <1>1 DEF VaultInv, VaultTypes, Vault!DatasetOfCurrent
  <1> QED
    BY <1>1, <1>2, NotedKeeps

LEMMA VaultStep ==
  ASSUME VaultInv, [Vault!Next]_vaultVars
  PROVE  VaultInv' /\ Vault!StepsSafe
  BY SubmitKeeps, LockKeeps, ReturnKeeps, StoreKeeps, CheckingKeeps, CreatingKeeps,
     DeleteKeeps, ElsewhereKeeps DEF Vault!Next

LEMMA VaultInvariant == Vault!Spec => []VaultInv
  <1>1. Vault!Init => VaultInv
    <2> SUFFICES ASSUME Vault!Init
                 PROVE  VaultInv
      OBVIOUS
    <2> USE DEF Vault!Init
    <2>1. \A s \in Saves : save[s].at = "idle"
      BY DEF Vault!Idle
    <2>2. \A c \in Creates : create[c].at = "idle"
      BY DEF Vault!Idle
    <2>3. VaultTypes
      BY VaultAssumption DEF VaultTypes
    <2> QED
      BY <2>1, <2>2, <2>3
         DEF VaultInv, OneLocked, LoadedRow, ReadStillTrue, Vault!DatasetOfCurrent
  <1>2. VaultInv /\ [Vault!Next]_(Vault!vars) => VaultInv'
    BY VaultStep DEF Vault!vars, vaultVars
  <1> QED
    BY <1>1, <1>2, PTL DEF Vault!Spec

\* The vault is safe for every provider and every number of saves, checks and
\* creations: no master key protects more bundles than configured, at most one
\* save holds the user's lock, and a dataset is registered for the revision of the
\* credentials that created it (_reserve_master_key_use, create_dataset).
THEOREM VaultIsSafe == Vault!Spec => []VaultSafe
  <1>1. VaultInv => VaultSafe
    <2> SUFFICES ASSUME VaultInv
                 PROVE  VaultSafe
      OBVIOUS
    <2>1. Vault!WrapLimit
      BY DEF Vault!WrapLimit, VaultInv, VaultTypes
    <2>2. Vault!TypeOK
      <3>1. row # Vault!NoRow => /\ row \in VaultRow /\ row.rev <= rev /\ row.measured <= rev
                                 /\ row.key \in 1..active /\ rev \in Nat
        BY StoredRow DEF VaultInv, VaultTypes
      <3> QED
        BY <3>1 DEF Vault!TypeOK, Vault!Exists, VaultRow, VaultInv, OneLocked
    <2> QED
      BY <2>1, <2>2 DEF VaultInv, VaultSafe, Vault!Safety
  <1> QED
    BY <1>1, VaultInvariant, PTL

\* What no step of the vault may do, for every provider and every number of saves,
\* checks and creations: a result that is noted was measured with the bundle that
\* is stored; and, unless two databricks saves overlap, a save that returns has
\* stored what was submitted and another identity ends the consent to start
\* compute (store_provider_credentials, record_check).
THEOREM VaultStepsAreSafe == Vault!Spec => VaultStepsSafe
  <1>1. VaultInv /\ [Vault!Next]_(Vault!vars) => [Vault!StepsSafe]_vaultVars
    BY VaultStep DEF Vault!vars, vaultVars
  <1> QED
    BY <1>1, VaultInvariant, PTL DEF Vault!Spec, VaultStepsSafe

------------------------------------------------------------------------------
(* The runtime of the process.                                             *)

\* A generation as it is typed before its leases are counted.
Typed == [made : BOOLEAN, accepting : BOOLEAN, active : Nat, disposed : BOOLEAN,
          sup : {"none", "running", "stopping", "done"}]

\* The operations that hold a lease of g themselves, and those whose thread does.
Own(g)  == {o \in Ops : op[o].gen = g /\ op[o].own}
Kept(g) == {o \in Ops : op[o].gen = g /\ op[o].kept}

Counted == \A g \in Gens : rt[g].active = Cardinality(Own(g)) + Cardinality(Kept(g))

\* What an operation holds at each point of its call; a thread runs only while its
\* lease is kept.
OpTrue(o) ==
    /\ op[o].pc # "idle" => op[o].gen \in Gens /\ rt[op[o].gen].made
    /\ op[o].own <=> op[o].pc \in {"working", "delegating"}
    /\ op[o].kept <=> op[o].pc = "delegating"
    /\ op[o].thread => op[o].kept

Handing == {"retiring", "reserved", "built"}
Leaving == {"retiring", "draining", "waiting", "idle"}

\* The generation of a lifespan: built by it or taken over from the slot, closed to
\* admission once it is leaving, without a lease once it was found idle.
AppTrue(a) ==
    /\ IF app[a].pc \in {"down", "reserved", "failed"} THEN app[a].gen = 0
       ELSE app[a].gen \in Gens /\ rt[app[a].gen].made
    /\ app[a].pc \in Leaving => ~ rt[app[a].gen].accepting
    /\ app[a].pc = "idle" => rt[app[a].gen].active = 0
    /\ app[a].pc \in Handing <=> slot.token = a

\* A generation that accepts is the one in the slot or the one being started.
GenTrue(g) ==
    /\ rt[g].accepting => rt[g].made
    /\ rt[g].accepting => slot.gen = g \/ \E a \in Apps : app[a].pc = "built" /\ app[a].gen = g
    /\ rt[g].sup # "none" => rt[g].made
    /\ rt[g].sup = "stopping" => ~ rt[g].accepting
    /\ rt[g].disposed => rt[g].made /\ ~ rt[g].accepting /\ rt[g].active = 0

Slot == [gen : 0 .. MaxGen, token : Apps \cup {NoApp},
         kind : {"none", "temporary", "standalone", "lifespan", "closed"}]

Lifespan == [pc : {"down", "retiring", "reserved", "built", "up", "draining", "waiting",
                   "idle", "failed"}, gen : 0 .. MaxGen]

Operation == [pc : {"idle", "captured", "working", "delegating"}, gen : 0 .. MaxGen,
              own : BOOLEAN, kept : BOOLEAN, thread : BOOLEAN]

Types ==
    /\ rt \in [Gens -> Typed]
    /\ slot \in Slot
    /\ app \in [Apps -> Lifespan]
    /\ op \in [Ops -> Operation]

\* The inductive invariant.
IInv ==
    /\ Types
    /\ Counted
    /\ slot.gen # 0 => rt[slot.gen].made
    /\ \A o \in Ops : OpTrue(o)
    /\ \A a \in Apps : AppTrue(a)
    /\ \A g \in Gens : GenTrue(g)

------------------------------------------------------------------------------
(* What the writes of PipelineOperationLifetime do to the generations.      *)

\* new differs from rt in generation g at most, whose columns are the given ones.
Turns(new, g, made_, accepting, leases, disposed, sup) ==
    /\ new \in [Gens -> Typed]
    /\ \A h \in Gens : h # g => new[h] = rt[h]
    /\ new[g].made = made_ /\ new[g].accepting = accepting /\ new[g].active = leases
    /\ new[g].disposed = disposed /\ new[g].sup = sup

\* Admission adds a lease, release takes one off.
LEMMA LeaseWrites ==
  ASSUME rt \in [Gens -> Typed], NEW g \in Gens
  PROVE  /\ Turns(admitted(g), g, rt[g].made, rt[g].accepting, rt[g].active + 1,
                  rt[g].disposed, rt[g].sup)
         /\ rt[g].active # 0 =>
              Turns(released(g), g, rt[g].made, rt[g].accepting, rt[g].active - 1,
                    rt[g].disposed, rt[g].sup)
  BY DEF Turns, Typed, admitted, released

\* Making a generation opens it, begin_shutdown closes it.
LEMMA DoorWrites ==
  ASSUME rt \in [Gens -> Typed], NEW g \in Gens
  PROVE  /\ Turns(made(g), g, TRUE, TRUE, rt[g].active, rt[g].disposed, rt[g].sup)
         /\ Turns(shut(g), g, rt[g].made, FALSE, rt[g].active, rt[g].disposed, rt[g].sup)
  BY DEF Turns, Typed, made, shut

\* The supervisor's column, alone or with the door closed, and the disposal.
LEMMA OtherWrites ==
  ASSUME rt \in [Gens -> Typed], NEW g \in Gens,
         NEW s \in {"none", "running", "stopping", "done"}
  PROVE  /\ Turns([rt EXCEPT ![g].sup = s], g, rt[g].made, rt[g].accepting, rt[g].active,
                  rt[g].disposed, s)
         /\ Turns([shut(g) EXCEPT ![g].sup = s], g, rt[g].made, FALSE, rt[g].active,
                  rt[g].disposed, s)
         /\ Turns([rt EXCEPT ![g].disposed = TRUE], g, rt[g].made, rt[g].accepting,
                  rt[g].active, TRUE, rt[g].sup)
  BY DEF Turns, Typed, shut

------------------------------------------------------------------------------
(* Counting leases.                                                         *)

\* The counter is a number of leases: at most two of each operation, and 0 only
\* when no operation holds one.
LEMMA Counts ==
  ASSUME IsFiniteSet(Ops), NEW g
  PROVE  /\ IsFiniteSet(Own(g)) /\ IsFiniteSet(Kept(g))
         /\ Cardinality(Own(g)) \in 0 .. Cardinality(Ops)
         /\ Cardinality(Kept(g)) \in 0 .. Cardinality(Ops)
         /\ Cardinality(Own(g)) = 0 => Own(g) = {}
         /\ Cardinality(Kept(g)) = 0 => Kept(g) = {}
  <1>1. Own(g) \in SUBSET Ops /\ Kept(g) \in SUBSET Ops
    BY DEF Own, Kept
  <1>2. /\ IsFiniteSet(Own(g)) /\ Cardinality(Own(g)) <= Cardinality(Ops)
        /\ IsFiniteSet(Kept(g)) /\ Cardinality(Kept(g)) <= Cardinality(Ops)
    BY <1>1, FS_Subset
  <1>3. /\ Cardinality(Own(g)) \in Nat /\ Cardinality(Kept(g)) \in Nat
        /\ Cardinality(Ops) \in Nat
    BY <1>2, FS_CardinalityType
  <1> QED
    BY <1>2, <1>3, FS_EmptySet

\* A held lease is counted.
LEMMA HeldIsCounted ==
  ASSUME IsFiniteSet(Ops), Counted, NEW o \in Ops, op[o].gen \in Gens,
         op[o].own \/ op[o].kept
  PROVE  rt[op[o].gen].active # 0
  <1> DEFINE g == op[o].gen
  <1>1. o \in Own(g) \/ o \in Kept(g)
    BY DEF Own, Kept
  <1>2. rt[g].active = Cardinality(Own(g)) + Cardinality(Kept(g))
    BY DEF Counted
  <1> HIDE DEF g
  <1>3. rt[g].active # 0
    BY <1>1, <1>2, Counts
  <1> QED
    BY <1>3 DEF g

\* The operations that hold leases of g after a step in which o alone moved.
LEMMA Holders ==
  ASSUME NEW o \in Ops, \A p \in Ops \ {o} : op'[p] = op[p], NEW g
  PROVE  /\ Own(g)' = IF op'[o].gen = g /\ op'[o].own THEN Own(g) \cup {o} ELSE Own(g) \ {o}
         /\ Kept(g)' = IF op'[o].gen = g /\ op'[o].kept THEN Kept(g) \cup {o}
                       ELSE Kept(g) \ {o}
  BY DEF Own, Kept

\* The leases of an operation, as numbers.
OwnOf(o, g)  == IF op[o].gen = g /\ op[o].own THEN 1 ELSE 0
KeptOf(o, g) == IF op[o].gen = g /\ op[o].kept THEN 1 ELSE 0

\* The counters stay right when each moves by what the one operation that moved
\* took or gave back.
LEMMA CountMoves ==
  ASSUME IsFiniteSet(Ops), Counted, NEW o \in Ops, \A p \in Ops \ {o} : op'[p] = op[p],
         \A g \in Gens : rt'[g].active = rt[g].active + (OwnOf(o, g)' - OwnOf(o, g))
                                                      + (KeptOf(o, g)' - KeptOf(o, g))
  PROVE  Counted'
  <1> SUFFICES ASSUME NEW g \in Gens
               PROVE  rt'[g].active = Cardinality(Own(g)') + Cardinality(Kept(g)')
    BY DEF Counted
  <1>1. Cardinality(Own(g)') = Cardinality(Own(g)) + (OwnOf(o, g)' - OwnOf(o, g))
    <2>1. Own(g)' = IF op'[o].gen = g /\ op'[o].own THEN Own(g) \cup {o} ELSE Own(g) \ {o}
      BY Holders
    <2>2. o \in Own(g) <=> op[o].gen = g /\ op[o].own
      BY DEF Own
    <2>3. IsFiniteSet(Own(g)) /\ Cardinality(Own(g)) \in Nat
      BY Counts
    <2>4. Cardinality(Own(g) \cup {o})
            = IF o \in Own(g) THEN Cardinality(Own(g)) ELSE Cardinality(Own(g)) + 1
      BY <2>3, FS_AddElement
    <2>5. Cardinality(Own(g) \ {o})
            = IF o \in Own(g) THEN Cardinality(Own(g)) - 1 ELSE Cardinality(Own(g))
      BY <2>3, FS_RemoveElement
    <2> QED
      BY <2>1, <2>2, <2>3, <2>4, <2>5 DEF OwnOf
  <1>2. Cardinality(Kept(g)') = Cardinality(Kept(g)) + (KeptOf(o, g)' - KeptOf(o, g))
    <2>1. Kept(g)' = IF op'[o].gen = g /\ op'[o].kept THEN Kept(g) \cup {o}
                     ELSE Kept(g) \ {o}
      BY Holders
    <2>2. o \in Kept(g) <=> op[o].gen = g /\ op[o].kept
      BY DEF Kept
    <2>3. IsFiniteSet(Kept(g)) /\ Cardinality(Kept(g)) \in Nat
      BY Counts
    <2>4. Cardinality(Kept(g) \cup {o})
            = IF o \in Kept(g) THEN Cardinality(Kept(g)) ELSE Cardinality(Kept(g)) + 1
      BY <2>3, FS_AddElement
    <2>5. Cardinality(Kept(g) \ {o})
            = IF o \in Kept(g) THEN Cardinality(Kept(g)) - 1 ELSE Cardinality(Kept(g))
      BY <2>3, FS_RemoveElement
    <2> QED
      BY <2>1, <2>2, <2>3, <2>4, <2>5 DEF KeptOf
  <1>3. rt[g].active = Cardinality(Own(g)) + Cardinality(Kept(g))
    BY DEF Counted
  <1>4. Cardinality(Own(g)) \in Nat /\ Cardinality(Kept(g)) \in Nat
    BY Counts
  <1> QED
    BY <1>1, <1>2, <1>3, <1>4 DEF OwnOf, KeptOf

------------------------------------------------------------------------------
(* Frames: who did not move keeps what is true of it.                       *)

\* No generation is unmade.
MadeStays == \A g \in Gens : rt[g].made => rt'[g].made

\* An operation that did not move stays true; so does a lifespan, when its hold on
\* the transition token did not change: its generation stays closed, and idle.
LEMMA Unmoved ==
  ASSUME IInv, MadeStays, DrainIsFinal
  PROVE  /\ \A o \in Ops : op'[o] = op[o] => OpTrue(o)'
         /\ \A a \in Apps : /\ app'[a] = app[a]
                            /\ slot'.token = a <=> slot.token = a
                            => AppTrue(a)'
  <1>1. ASSUME NEW o \in Ops, op'[o] = op[o] PROVE OpTrue(o)'
    BY <1>1 DEF IInv, OpTrue, MadeStays
  <1>2. ASSUME NEW a \in Apps, app'[a] = app[a], slot'.token = a <=> slot.token = a
        PROVE  AppTrue(a)'
    <2>1. AppTrue(a) /\ app[a].gen = app'[a].gen /\ app[a].pc = app'[a].pc
      BY <1>2 DEF IInv
    <2>2. app[a].pc \in Leaving => app[a].gen \in Gens /\ rt[app[a].gen].made
                                   /\ ~ rt[app[a].gen].accepting
      BY <2>1 DEF AppTrue, Leaving
    <2>3. app[a].pc \in Leaving => ~ rt'[app[a].gen].accepting
      BY <2>2 DEF DrainIsFinal
    <2>4. app[a].pc = "idle" => rt'[app[a].gen].active = 0
      BY <2>1, <2>2 DEF DrainIsFinal, AppTrue, idle, Leaving
    <2>5. app[a].gen \in Gens /\ rt[app[a].gen].made => rt'[app[a].gen].made
      BY DEF MadeStays
    <2> QED
      BY <1>2, <2>1, <2>3, <2>4, <2>5 DEF AppTrue
  <1> QED
    BY <1>1, <1>2

\* A step of one operation that changes leases and nothing else of a generation.
LEMMA OperationMoves ==
  ASSUME IsFiniteSet(Ops), IInv, NEW o \in Ops, UNCHANGED <<slot, app>>,
         rt' \in [Gens -> Typed],
         \A g \in Gens : /\ rt'[g].made = rt[g].made /\ rt'[g].accepting = rt[g].accepting
                         /\ rt'[g].disposed = rt[g].disposed /\ rt'[g].sup = rt[g].sup
                         /\ rt'[g].active = rt[g].active + (OwnOf(o, g)' - OwnOf(o, g))
                                                         + (KeptOf(o, g)' - KeptOf(o, g))
                         /\ ~ rt[g].accepting /\ rt[g].active = 0 => rt'[g].active = 0,
         op' = [op EXCEPT ![o] = op'[o]],
         op'[o] \in Operation,
         OpTrue(o)'
  PROVE  IInv' /\ DrainIsFinal
  <1>1. Types /\ Counted
    BY DEF IInv
  <1>2. Types'
    BY <1>1 DEF Types
  <1>3. \A p \in Ops \ {o} : op'[p] = op[p]
    BY <1>1 DEF Types
  <1>4. Counted'
    BY <1>1, <1>3, CountMoves
  <1>5. DrainIsFinal
    BY DEF DrainIsFinal, idle
  <1>6. MadeStays
    BY DEF MadeStays
  <1>7. (\A p \in Ops : OpTrue(p)') /\ (\A a \in Apps : AppTrue(a)')
    BY <1>3, <1>5, <1>6, Unmoved
  <1>8. ASSUME NEW g \in Gens PROVE GenTrue(g)'
    BY DEF IInv, GenTrue
  <1>9. slot'.gen # 0 => rt'[slot'.gen].made
    <2>1. slot.gen # 0 => slot.gen \in Gens
      BY <1>1 DEF Types, Gens, Slot
    <2> QED
      BY <2>1 DEF IInv
  <1> QED
    BY <1>2, <1>4, <1>5, <1>7, <1>8, <1>9 DEF IInv

\* The record of an operation that has captured a generation.
LEMMA CapturedType ==
  ASSUME MaxGen \in Nat, NEW g \in Gens
  PROVE  [pc |-> "captured", gen |-> g, own |-> FALSE, kept |-> FALSE, thread |-> FALSE]
            \in Operation
  BY DEF Operation, Gens

\* Capturing a generation takes no lease.
LEMMA CaptureStep ==
  ASSUME MaxGen \in Nat, IsFiniteSet(Ops), IInv, NEW o \in Ops, NEW g \in Gens,
         rt[g].made, op[o].pc = "idle",
         op' = [op EXCEPT ![o] = [Rest EXCEPT !.pc = "captured", !.gen = g]],
         UNCHANGED <<rt, slot, app>>
  PROVE  IInv' /\ DrainIsFinal
  <1>1. Types /\ OpTrue(o)
    BY DEF IInv
  <1>2. /\ op'[o] = [pc |-> "captured", gen |-> g, own |-> FALSE, kept |-> FALSE,
                     thread |-> FALSE]
        /\ op'[o].pc = "captured" /\ op'[o].gen = g
        /\ ~ op'[o].own /\ ~ op'[o].kept /\ ~ op'[o].thread
        /\ op' = [op EXCEPT ![o] = op'[o]] /\ rt' = rt
        /\ ~ op[o].own /\ ~ op[o].kept
    BY <1>1 DEF Types, Rest, OpTrue
  <1>3. OpTrue(o)'
    BY <1>2 DEF OpTrue
  <1>4. \A h : OwnOf(o, h) = 0 /\ KeptOf(o, h) = 0 /\ OwnOf(o, h)' = 0 /\ KeptOf(o, h)' = 0
    BY <1>2 DEF OwnOf, KeptOf
  <1>5. \A h \in Gens : rt[h].active \in Nat
    BY <1>1 DEF Types, Typed
  <1>6. rt' \in [Gens -> Typed]
    BY <1>1 DEF Types
  <1>7. op'[o] \in Operation
    BY <1>2, CapturedType
  <1>8. \A h \in Gens : rt'[h].active = rt[h].active + (OwnOf(o, h)' - OwnOf(o, h))
                                                     + (KeptOf(o, h)' - KeptOf(o, h))
    BY <1>4, <1>5
  <1> QED
    BY <1>2, <1>3, <1>6, <1>7, <1>8, OperationMoves

\* Operation o alone may have moved; and its record after that.
Stepped(o) == op' = [op EXCEPT ![o] = op'[o]] /\ op'[o] \in Operation

Becomes(o, pc, gen, own, kept, thread) ==
    /\ Stepped(o)
    /\ op'[o].pc = pc /\ op'[o].gen = gen /\ op'[o].own = own /\ op'[o].kept = kept
    /\ op'[o].thread = thread

\* The step of an operation that takes or gives back leases of its generation, where a
\* closed generation without a lease gives none out.
LEMMA LeasesMove ==
  ASSUME IsFiniteSet(Ops), IInv, NEW o \in Ops, UNCHANGED <<slot, app>>,
         NEW g \in Gens, op[o].gen = g,
         Turns(rt', g, rt[g].made, rt[g].accepting, rt'[g].active, rt[g].disposed, rt[g].sup),
         rt[g].accepting \/ rt[g].active # 0 \/ rt'[g].active = rt[g].active,
         Stepped(o), OpTrue(o)',
         op'[o].gen = g \/ (~ op'[o].own /\ ~ op'[o].kept),
         rt'[g].active = rt[g].active + (OwnOf(o, g)' - OwnOf(o, g))
                                      + (KeptOf(o, g)' - KeptOf(o, g))
  PROVE  IInv' /\ DrainIsFinal
  <1>1. \A h \in Gens : rt[h].active \in Nat
    BY DEF IInv, Types, Typed
  <1>2. \A h \in Gens : h # g => OwnOf(o, h) = 0 /\ KeptOf(o, h) = 0
                                 /\ OwnOf(o, h)' = 0 /\ KeptOf(o, h)' = 0
    BY DEF OwnOf, KeptOf
  <1>3. \A h \in Gens : rt'[h].active = rt[h].active + (OwnOf(o, h)' - OwnOf(o, h))
                                                     + (KeptOf(o, h)' - KeptOf(o, h))
    BY <1>1, <1>2 DEF Turns
  <1>4. \A h \in Gens : /\ rt'[h].made = rt[h].made /\ rt'[h].accepting = rt[h].accepting
                        /\ rt'[h].disposed = rt[h].disposed /\ rt'[h].sup = rt[h].sup
                        /\ ~ rt[h].accepting /\ rt[h].active = 0 => rt'[h].active = 0
    BY <1>1 DEF Turns
  <1>5. rt' \in [Gens -> Typed]
    BY DEF Turns
  <1> QED
    BY <1>3, <1>4, <1>5, OperationMoves DEF Stepped

\* The record at rest.
LEMMA RestType ==
  ASSUME MaxGen \in Nat
  PROVE  /\ Rest \in Operation /\ Rest.pc = "idle" /\ Rest.gen = 0
         /\ ~ Rest.own /\ ~ Rest.kept /\ ~ Rest.thread
  BY DEF Rest, Operation

\* The record of an operation that has given its lease back.
LEMMA ReleasedType ==
  ASSUME MaxGen \in Nat, NEW x \in Operation
  PROVE  [x EXCEPT !.pc = "idle", !.own = FALSE, !.gen = 0] \in Operation
  <1>1. 0 \in 0 .. MaxGen
    OBVIOUS
  <1> QED
    BY <1>1 DEF Operation

\* The steps of an operation that was admitted or tries to be.
LEMMA OperateStep ==
  ASSUME MaxGen \in Nat, IsFiniteSet(Ops), IInv, NEW o \in Ops, Operate(o)
  PROVE  IInv' /\ DrainIsFinal
  <1>1. Types /\ OpTrue(o) /\ UNCHANGED <<slot, app>>
    BY DEF IInv, Operate, Admit, Delegate, ThreadEnds, CloseScope, Release
  <1>2. op \in [Ops -> Operation] /\ rt \in [Gens -> Typed]
    BY <1>1 DEF Types
  <1>3. op[o].pc # "idle"
    BY DEF Operate, Admit, Delegate, ThreadEnds, CloseScope, Release, may_close
  <1> PICK g \in Gens : g = op[o].gen /\ rt[g].made
    BY <1>1, <1>3 DEF OpTrue
  <1>4. op[o].own \/ op[o].kept => rt[g].active # 0
    BY HeldIsCounted DEF IInv
  <1>5. op[o].own \in BOOLEAN /\ op[o].kept \in BOOLEAN /\ op[o].thread \in BOOLEAN
        /\ op[o].pc \in {"captured", "working", "delegating"} /\ rt[g].active \in Nat
    BY <1>2, <1>3 DEF Operation, Typed
  <1> DEFINE Written == Turns(rt', g, rt[g].made, rt[g].accepting, rt'[g].active,
                              rt[g].disposed, rt[g].sup)
             Balanced == rt'[g].active = rt[g].active + (OwnOf(o, g)' - OwnOf(o, g))
                                                      + (KeptOf(o, g)' - KeptOf(o, g))
             Allowed == rt[g].accepting \/ rt[g].active # 0 \/ rt'[g].active = rt[g].active
             Local == op'[o].gen = g \/ (~ op'[o].own /\ ~ op'[o].kept)
  <1>6. ASSUME Written, Allowed, Stepped(o), OpTrue(o)', Local, Balanced
        PROVE  IInv' /\ DrainIsFinal
    BY <1>1, <1>6, LeasesMove
  <1>7. CASE Admit(o) /\ ~ rt[g].accepting
    <2>1. op' = [op EXCEPT ![o] = Rest] /\ rt' = rt /\ op[o].pc = "captured"
      BY <1>7 DEF Admit, may_admit
    <2>2. Becomes(o, "idle", 0, FALSE, FALSE, FALSE)
      BY <1>2, <2>1, RestType DEF Becomes, Stepped
    <2>3. ~ op[o].own /\ ~ op[o].kept
      BY <1>1, <2>1 DEF OpTrue
    <2>4. rt'[g].active = rt[g].active /\ Written
      BY <1>2, <2>1 DEF Turns
    <2>5. OpTrue(o)'
      BY <2>2 DEF OpTrue, Becomes
    <2>6. Balanced /\ Local
      BY <1>5, <2>2, <2>3, <2>4 DEF OwnOf, KeptOf, Becomes
    <2> HIDE DEF Written, Balanced, Local
    <2> QED
      BY <1>6, <2>2, <2>4, <2>5, <2>6 DEF Becomes
  <1>8. CASE Admit(o) /\ rt[g].accepting
    <2>1. /\ op' = [op EXCEPT ![o].pc = "working", ![o].own = TRUE] /\ rt' = admitted(g)
          /\ op[o].pc = "captured"
      BY <1>8 DEF Admit, may_admit
    <2>2. Becomes(o, "working", g, TRUE, op[o].kept, op[o].thread)
      BY <1>2, <2>1 DEF Becomes, Stepped, Operation
    <2>3. ~ op[o].own /\ ~ op[o].kept /\ ~ op[o].thread
      BY <1>1, <2>1 DEF OpTrue
    <2>4. rt'[g].active = rt[g].active + 1 /\ Written
      BY <1>2, <2>1, LeaseWrites DEF Turns
    <2>5. OpTrue(o)'
      BY <2>2, <2>3, <2>4 DEF OpTrue, Becomes, Turns
    <2>6. Balanced /\ Local
      BY <1>5, <2>2, <2>3, <2>4 DEF OwnOf, KeptOf, Becomes
    <2> HIDE DEF Written, Balanced, Local
    <2> QED
      BY <1>6, <1>8, <2>2, <2>4, <2>5, <2>6 DEF Becomes
  <1>9. CASE Delegate(o)
    <2>1. /\ op' = [op EXCEPT ![o].pc = "delegating", ![o].kept = TRUE, ![o].thread = TRUE]
          /\ rt' = admitted(g) /\ op[o].pc = "working" /\ op[o].own
      BY <1>9 DEF Delegate
    <2>2. Becomes(o, "delegating", g, op[o].own, TRUE, TRUE)
      BY <1>2, <2>1 DEF Becomes, Stepped, Operation
    <2>3. op[o].own /\ ~ op[o].kept
      BY <1>1, <2>1 DEF OpTrue
    <2>4. rt'[g].active = rt[g].active + 1 /\ Written
      BY <1>2, <2>1, LeaseWrites DEF Turns
    <2>5. OpTrue(o)'
      BY <2>2, <2>3, <2>4 DEF OpTrue, Becomes, Turns
    <2>6. Balanced /\ Local
      BY <1>5, <2>2, <2>3, <2>4 DEF OwnOf, KeptOf, Becomes
    <2> HIDE DEF Written, Balanced, Local
    <2> QED
      BY <1>4, <1>6, <2>2, <2>3, <2>4, <2>5, <2>6 DEF Becomes
  <1>10. CASE ThreadEnds(o)
    <2>1. op' = [op EXCEPT ![o].thread = FALSE] /\ rt' = rt /\ op[o].pc = "delegating"
      BY <1>10 DEF ThreadEnds
    <2>2. Becomes(o, "delegating", g, op[o].own, op[o].kept, FALSE)
      BY <1>2, <2>1 DEF Becomes, Stepped, Operation
    <2>3. op[o].own /\ op[o].kept
      BY <1>1, <2>1 DEF OpTrue
    <2>4. rt'[g].active = rt[g].active /\ Written
      BY <1>2, <2>1 DEF Turns
    <2>5. OpTrue(o)'
      BY <2>2, <2>3, <2>4 DEF OpTrue, Becomes, Turns
    <2>6. Balanced /\ Local
      BY <1>5, <2>2, <2>3, <2>4 DEF OwnOf, KeptOf, Becomes
    <2> HIDE DEF Written, Balanced, Local
    <2> QED
      BY <1>6, <2>2, <2>4, <2>5, <2>6 DEF Becomes
  <1>11. CASE CloseScope(o)
    <2>1. /\ op' = [op EXCEPT ![o].pc = "working", ![o].kept = FALSE] /\ rt' = released(g)
          /\ op[o].pc = "delegating" /\ ~ op[o].thread /\ op[o].kept
      BY <1>11 DEF CloseScope, may_close
    <2>2. Becomes(o, "working", g, op[o].own, FALSE, op[o].thread)
      BY <1>2, <2>1 DEF Becomes, Stepped, Operation
    <2>3. op[o].own /\ op[o].kept /\ ~ op[o].thread
      BY <1>1, <2>1 DEF OpTrue
    <2>4. rt'[g].active = rt[g].active - 1 /\ Written
      BY <1>2, <1>4, <2>1, LeaseWrites DEF Turns
    <2>5. OpTrue(o)'
      BY <2>2, <2>3, <2>4 DEF OpTrue, Becomes, Turns
    <2>6. Balanced /\ Local
      BY <1>5, <2>2, <2>3, <2>4 DEF OwnOf, KeptOf, Becomes
    <2> HIDE DEF Written, Balanced, Local
    <2> QED
      BY <1>4, <1>6, <2>2, <2>3, <2>4, <2>5, <2>6 DEF Becomes
  <1>12. CASE Release(o)
    <2>1. /\ op' = [op EXCEPT ![o] = [@ EXCEPT !.pc = "idle", !.own = FALSE,
                                               !.gen = IF op[o].thread THEN @ ELSE 0]]
          /\ rt' = released(g) /\ op[o].pc = "working" /\ op[o].own
      BY <1>12 DEF Release
    <2>2. op[o].own /\ ~ op[o].kept /\ ~ op[o].thread
      BY <1>1, <2>1 DEF OpTrue
    <2>3. Becomes(o, "idle", 0, FALSE, FALSE, FALSE)
      <3>1. PICK x \in Operation : x = op[o]
        BY <1>2
      <3>2. op' = [op EXCEPT ![o] = [x EXCEPT !.pc = "idle", !.own = FALSE, !.gen = 0]]
        BY <2>1, <2>2, <3>1
      <3>3. op'[o] = [x EXCEPT !.pc = "idle", !.own = FALSE, !.gen = 0] /\ Stepped(o)
        <4>1. [x EXCEPT !.pc = "idle", !.own = FALSE, !.gen = 0] \in Operation
          BY ReleasedType
        <4> QED
          BY <1>2, <3>2, <4>1 DEF Stepped
      <3>4. ~ x.kept /\ ~ x.thread
        BY <2>2, <3>1
      <3> QED
        BY <3>1, <3>3, <3>4 DEF Becomes, Operation
    <2>4. rt'[g].active = rt[g].active - 1 /\ Written
      BY <1>2, <1>4, <2>1, LeaseWrites DEF Turns
    <2>5. OpTrue(o)'
      BY <2>3 DEF OpTrue, Becomes
    <2>6. Balanced /\ Local
      BY <1>5, <2>2, <2>3, <2>4 DEF OwnOf, KeptOf, Becomes
    <2> HIDE DEF Written, Balanced, Local
    <2> QED
      BY <1>4, <1>6, <2>2, <2>3, <2>4, <2>5, <2>6 DEF Becomes
  <1> QED
    BY <1>7, <1>8, <1>9, <1>10, <1>11, <1>12 DEF Operate

------------------------------------------------------------------------------
(* Supervisors, startup and shutdown.                                       *)

\* The slot and the record of lifespan a after a step.
SlotIs(gen, token) == slot' \in Slot /\ slot'.gen = gen /\ slot'.token = token

AppIs(a, pc, gen) ==
    /\ \A b \in Apps \ {a} : app'[b] = app[b]
    /\ app' \in [Apps -> Lifespan]
    /\ app'[a].pc = pc /\ app'[a].gen = gen

\* What a step that takes no lease must leave: the moved lifespans stay true, every
\* generation that accepts is owned, no door is opened twice.
LEMMA ProcessMoves ==
  ASSUME IInv, op' = op, rt' \in [Gens -> Typed], slot' \in Slot, app' \in [Apps -> Lifespan],
         \A g \in Gens : /\ rt'[g].active = rt[g].active
                         /\ rt[g].made => rt'[g].made
                         /\ rt[g].made /\ ~ rt[g].accepting => ~ rt'[g].accepting,
         NEW S \in SUBSET Apps,
         \A a \in Apps \ S : /\ app'[a] = app[a]
                             /\ slot'.token = a <=> slot.token = a,
         \A a \in S : AppTrue(a)',
         \A g \in Gens : GenTrue(g)',
         slot'.gen # 0 => rt'[slot'.gen].made
  PROVE  IInv' /\ DrainIsFinal
  <1>1. Types'
    BY DEF IInv, Types
  <1>2. Counted'
    BY DEF IInv, Counted, Own, Kept
  <1>3. DrainIsFinal /\ MadeStays
    BY DEF DrainIsFinal, MadeStays, idle
  <1>4. \A o \in Ops : OpTrue(o)'
    BY <1>3, Unmoved
  <1>5. \A a \in Apps : AppTrue(a)'
    BY <1>3, Unmoved
  <1> QED
    BY <1>1, <1>2, <1>3, <1>4, <1>5 DEF IInv

\* A generation whose columns did not change stays true while somebody owns it.
LEMMA GenStays ==
  ASSUME IInv, NEW g \in Gens, rt'[g] = rt[g],
         rt[g].accepting => \/ slot'.gen = g
                            \/ \E a \in Apps : app'[a].pc = "built" /\ app'[a].gen = g
  PROVE  GenTrue(g)'
  BY DEF IInv, GenTrue

OwnerKinds == {"none", "temporary", "standalone", "lifespan", "closed"}
Stations == {"down", "retiring", "reserved", "built", "up", "draining", "waiting", "idle",
             "failed"}

\* The names of the stations and of the kinds of owner, and the numbers.
LEMMA Places ==
  ASSUME MaxGen \in Nat
  PROVE  /\ "down" \in Stations /\ "retiring" \in Stations /\ "reserved" \in Stations
         /\ "built" \in Stations /\ "up" \in Stations /\ "draining" \in Stations
         /\ "waiting" \in Stations /\ "idle" \in Stations /\ "failed" \in Stations
         /\ "closed" \in OwnerKinds /\ "temporary" \in OwnerKinds /\ "standalone" \in OwnerKinds
         /\ "lifespan" \in OwnerKinds /\ "none" \in OwnerKinds
         /\ 0 \in 0 .. MaxGen /\ \A g \in Gens : g \in 0 .. MaxGen /\ g # 0
  BY DEF Stations, OwnerKinds, Gens

\* Writes of the slot that the operations below share.
LEMMA SlotWrites ==
  ASSUME MaxGen \in Nat, slot \in Slot, NEW kind \in OwnerKinds, NEW a \in Apps \cup {NoApp}
  PROVE  /\ slot' = slot => SlotIs(slot.gen, slot.token)
         /\ slot' = [slot EXCEPT !.kind = kind] => SlotIs(slot.gen, slot.token)
         /\ slot' = [slot EXCEPT !.token = a] => SlotIs(slot.gen, a)
         /\ slot' = [slot EXCEPT !.kind = kind, !.token = a] => SlotIs(slot.gen, a)
         /\ slot' = [slot EXCEPT !.gen = 0, !.kind = "none"] => SlotIs(0, slot.token)
  <1> USE DEF SlotIs, Slot, OwnerKinds
  <1>1. slot' = slot => SlotIs(slot.gen, slot.token)
    OBVIOUS
  <1>2. slot' = [slot EXCEPT !.kind = kind] => SlotIs(slot.gen, slot.token)
    OBVIOUS
  <1>3. slot' = [slot EXCEPT !.token = a] => SlotIs(slot.gen, a)
    OBVIOUS
  <1>4. slot' = [slot EXCEPT !.kind = kind, !.token = a] => SlotIs(slot.gen, a)
    OBVIOUS
  <1>5. slot' = [slot EXCEPT !.gen = 0, !.kind = "none"] => SlotIs(0, slot.token)
    <2>1. 0 \in 0 .. MaxGen
      OBVIOUS
    <2> QED
      BY <2>1
  <1> QED
    BY <1>1, <1>2, <1>3, <1>4, <1>5 DEF OwnerKinds

\* Writes of the record of a lifespan.
LEMMA AppWrites ==
  ASSUME MaxGen \in Nat, app \in [Apps -> Lifespan], NEW a \in Apps, NEW pc \in Stations,
         NEW g \in 0 .. MaxGen
  PROVE  /\ app' = [app EXCEPT ![a].pc = pc] => AppIs(a, pc, app[a].gen)
         /\ app' = [app EXCEPT ![a].pc = pc, ![a].gen = g] => AppIs(a, pc, g)
         /\ app' = [app EXCEPT ![a] = [pc |-> pc, gen |-> g]] => AppIs(a, pc, g)
  <1> USE DEF AppIs, Lifespan, Stations
  <1>1. app' = [app EXCEPT ![a].pc = pc] => AppIs(a, pc, app[a].gen)
    OBVIOUS
  <1>2. ASSUME app' = [app EXCEPT ![a].pc = pc, ![a].gen = g] PROVE AppIs(a, pc, g)
    <2> PICK mid : mid = [app EXCEPT ![a].pc = pc]
      OBVIOUS
    <2>1. mid \in [Apps -> Lifespan] /\ mid[a].pc = pc /\ \A b \in Apps \ {a} : mid[b] = app[b]
      OBVIOUS
    <2>2. app' = [mid EXCEPT ![a].gen = g]
      BY <1>2
    <2> QED
      BY <2>1, <2>2
  <1>3. app' = [app EXCEPT ![a] = [pc |-> pc, gen |-> g]] => AppIs(a, pc, g)
    OBVIOUS
  <1> QED
    BY <1>1, <1>2, <1>3

\* No step of a lifespan takes a lease, unmakes a generation or opens one again.
Calm == \A h \in Gens : /\ rt'[h].active = rt[h].active
                        /\ rt[h].made => rt'[h].made
                        /\ rt[h].made /\ ~ rt[h].accepting => ~ rt'[h].accepting

\* The generations outside G did not change and those that accept keep an owner, when
\* lifespan a goes to pc with generation gen and the slot names n.
KeepOwners(a, pc, gen, n, G) ==
    \A h \in Gens \ G :
        /\ rt'[h] = rt[h]
        /\ rt[h].accepting => slot.gen # h \/ n = h
        /\ rt[h].accepting /\ app[a].pc = "built" /\ app[a].gen = h
             => n = h \/ (pc = "built" /\ gen = h)

\* A step of one lifespan.  The generations outside G did not change and keep their
\* owner, the token passes between the lifespan and nobody.
LEMMA LifespanMoves ==
  ASSUME MaxGen \in Nat, NoApp \notin Apps, IInv, NEW a \in Apps, op' = op,
         NEW pc, NEW gen, AppIs(a, pc, gen), NEW n, NEW token, SlotIs(n, token),
         token = slot.token \/ (token \in {a, NoApp} /\ slot.token \in {a, NoApp}),
         rt' \in [Gens -> Typed],
         Calm,
         NEW G \in SUBSET Gens,
         \A h \in G : GenTrue(h)',
         KeepOwners(a, pc, gen, n, G),
         AppTrue(a)',
         n # 0 => rt'[n].made
  PROVE  IInv' /\ DrainIsFinal
  <1>1. slot' \in Slot /\ slot'.gen = n /\ slot'.token = token
    BY DEF SlotIs
  <1>2. /\ app' \in [Apps -> Lifespan] /\ \A b \in Apps \ {a} : app'[b] = app[b]
        /\ app'[a].pc = pc /\ app'[a].gen = gen
    BY DEF AppIs
  <1>3. \A b \in Apps \ {a} : app'[b] = app[b] /\ (slot'.token = b <=> slot.token = b)
    BY <1>1, <1>2
  <1>4. ASSUME NEW h \in Gens \ G PROVE GenTrue(h)'
    <2>1. rt[h].accepting => \/ slot.gen = h
                             \/ \E b \in Apps : app[b].pc = "built" /\ app[b].gen = h
      BY DEF IInv, GenTrue
    <2>2. rt[h].accepting => \/ slot'.gen = h
                             \/ \E b \in Apps : app'[b].pc = "built" /\ app'[b].gen = h
      BY <1>1, <1>2, <1>4, <2>1 DEF KeepOwners
    <2> QED
      BY <1>4, <2>2, GenStays DEF KeepOwners
  <1>5. \A h \in Gens : GenTrue(h)'
    BY <1>4
  <1>6. {a} \in SUBSET Apps /\ \A b \in {a} : AppTrue(b)'
    OBVIOUS
  <1>7. slot'.gen # 0 => rt'[slot'.gen].made
    BY <1>1
  <1> QED
    BY <1>1, <1>2, <1>3, <1>5, <1>6, <1>7, ProcessMoves DEF Calm

\* A step of one lifespan that writes no generation.
LEMMA LifespanQuiet ==
  ASSUME MaxGen \in Nat, NoApp \notin Apps, IInv, NEW a \in Apps, op' = op, rt' = rt,
         NEW pc, NEW gen, AppIs(a, pc, gen), NEW n, NEW token, SlotIs(n, token),
         token = slot.token \/ (token \in {a, NoApp} /\ slot.token \in {a, NoApp}),
         n = slot.gen \/ (n = 0 /\ slot.gen \in Gens /\ ~ rt[slot.gen].accepting),
         app[a].pc # "built", AppTrue(a)'
  PROVE  IInv' /\ DrainIsFinal
  <1>1. rt \in [Gens -> Typed] /\ (n # 0 => rt'[n].made)
    BY DEF IInv, Types
  <1>2. {} \in SUBSET Gens /\ \A h \in {} : GenTrue(h)'
    OBVIOUS
  <1>3. KeepOwners(a, pc, gen, n, {})
    BY DEF KeepOwners
  <1>4. Calm
    BY DEF Calm
  <1> QED
    BY <1>1, <1>2, <1>3, <1>4, LifespanMoves

\* A step of one lifespan that writes the one generation g.
LEMMA LifespanTurns ==
  ASSUME MaxGen \in Nat, NoApp \notin Apps, IInv, NEW a \in Apps, op' = op,
         NEW pc, NEW gen, AppIs(a, pc, gen), NEW n, NEW token, SlotIs(n, token),
         token = slot.token \/ (token \in {a, NoApp} /\ slot.token \in {a, NoApp}),
         NEW g \in Gens, NEW accepting, NEW disposed, NEW sup,
         Turns(rt', g, TRUE, accepting, rt[g].active, disposed, sup),
         rt[g].made /\ ~ rt[g].accepting => ~ accepting,
         n = slot.gen \/ (slot.gen \in {0, g} /\ n \in {0, g}),
         app[a].pc = "built" => app[a].gen = g, AppTrue(a)', GenTrue(g)'
  PROVE  IInv' /\ DrainIsFinal
  <1>1. rt' \in [Gens -> Typed] /\ rt'[g].made /\ \A h \in Gens : h # g => rt'[h] = rt[h]
    BY DEF Turns
  <1>2. n # 0 => rt'[n].made
    <2>1. slot.gen # 0 => slot.gen \in Gens /\ rt[slot.gen].made
      BY DEF IInv, Types, Slot, Gens
    <2> QED
      BY <1>1, <2>1
  <1>3. {g} \in SUBSET Gens /\ \A h \in {g} : GenTrue(h)'
    OBVIOUS
  <1>4. KeepOwners(a, pc, gen, n, {g})
    BY <1>1 DEF KeepOwners, Gens
  <1>5. Calm
    BY DEF Turns, Calm
  <1> QED
    BY <1>1, <1>2, <1>3, <1>4, <1>5, LifespanMoves

\* A supervisor starts in the slot's generation, ends, or gives the slot up.
LEMMA SupervisorStep ==
  ASSUME MaxGen \in Nat, IInv, NEW g \in Gens,
         StartStandalone(g) \/ SupervisorEnds(g) \/ StandaloneReleased(g)
  PROVE  IInv' /\ DrainIsFinal
  <1>1. /\ rt \in [Gens -> Typed] /\ slot \in Slot /\ app \in [Apps -> Lifespan]
        /\ op' = op /\ app' = app /\ GenTrue(g)
        /\ slot.gen # 0 => rt[slot.gen].made /\ slot.gen \in Gens
    BY DEF IInv, Types, StartStandalone, SupervisorEnds, StandaloneReleased, Slot, Gens
  <1>2. g # 0
    BY DEF Gens
  <1> DEFINE Frame(acc, s) == Turns(rt', g, rt[g].made, acc, rt[g].active, rt[g].disposed, s)
  <1>3. ASSUME NEW acc \in BOOLEAN, NEW s, Frame(acc, s), acc => rt[g].accepting,
               s # "none" => rt[g].made, s = "stopping" => ~ acc,
               NEW n, SlotIs(n, slot.token), n = slot.gen \/ (n = 0 /\ slot.gen = g /\ ~ acc)
        PROVE  IInv' /\ DrainIsFinal
    <2>1. \A h \in Gens : /\ rt'[h].active = rt[h].active
                          /\ rt[h].made => rt'[h].made
                          /\ rt[h].made /\ ~ rt[h].accepting => ~ rt'[h].accepting
      BY <1>3 DEF Turns
    <2>2. slot'.gen # 0 => rt'[slot'.gen].made
      BY <1>1, <1>3, <2>1 DEF SlotIs
    <2>3. ASSUME NEW h \in Gens, h # g PROVE GenTrue(h)'
      <3>1. rt'[h] = rt[h]
        BY <1>3, <2>3 DEF Turns
      <3>2. rt[h].accepting => \/ slot.gen = h
                               \/ \E a \in Apps : app[a].pc = "built" /\ app[a].gen = h
        BY DEF IInv, GenTrue
      <3>3. rt[h].accepting => \/ slot'.gen = h
                               \/ \E a \in Apps : app'[a].pc = "built" /\ app'[a].gen = h
        BY <1>1, <1>3, <2>3, <3>2 DEF SlotIs
      <3> QED
        BY <3>1, <3>3, GenStays
    <2>4. GenTrue(g)'
      BY <1>1, <1>3 DEF GenTrue, Turns, SlotIs
    <2>5. rt' \in [Gens -> Typed] /\ slot' \in Slot /\ slot'.token = slot.token
      BY <1>3 DEF Turns, SlotIs
    <2>6. {} \in SUBSET Apps /\ \A a \in {} : AppTrue(a)'
      OBVIOUS
    <2>7. \A a \in Apps \ {} : app'[a] = app[a] /\ (slot'.token = a <=> slot.token = a)
      BY <1>1, <2>5
    <2>8. \A h \in Gens : GenTrue(h)'
      BY <2>3, <2>4
    <2> QED
      BY <1>1, <2>1, <2>2, <2>5, <2>6, <2>7, <2>8, ProcessMoves
  <1>4. rt[g].accepting \in BOOLEAN /\ g \in Gens
    BY <1>1 DEF Typed
  <1> HIDE DEF Frame
  <1>5. CASE StartStandalone(g)
    <2>1. /\ rt' = [rt EXCEPT ![g].sup = "running"] /\ slot.gen = g
          /\ slot' = [slot EXCEPT !.kind = "standalone"]
      BY <1>5 DEF StartStandalone
    <2>2. SlotIs(slot.gen, slot.token)
      BY <1>1, <2>1, SlotWrites, Places
    <2>3. Frame(rt[g].accepting, "running")
      BY <1>1, <2>1, OtherWrites DEF Frame
    <2> QED
      BY <1>1, <1>2, <1>3, <1>4, <2>1, <2>2, <2>3
  <1>6. CASE SupervisorEnds(g)
    <2>1. PICK s \in {"stopping", "done"} : /\ rt' = [shut(g) EXCEPT ![g].sup = s]
                                            /\ rt[g].sup = "running" /\ slot' = slot
      BY <1>6 DEF SupervisorEnds
    <2>2. SlotIs(slot.gen, slot.token)
      BY <1>1, <2>1, SlotWrites, Places
    <2>3. Frame(FALSE, s)
      BY <1>1, <2>1, OtherWrites DEF Frame
    <2>4. rt[g].made
      BY <1>1, <2>1 DEF GenTrue
    <2> QED
      BY <1>3, <2>2, <2>3, <2>4
  <1>7. CASE StandaloneReleased(g)
    <2>1. /\ rt' = [rt EXCEPT ![g].sup = "done"] /\ rt[g].sup = "stopping"
          /\ \/ slot' = slot \/ slot' = [slot EXCEPT !.kind = "closed"]
             \/ slot.gen = g /\ slot' = [slot EXCEPT !.gen = 0, !.kind = "none"]
      BY <1>7 DEF StandaloneReleased
    <2>2. SlotIs(slot.gen, slot.token) \/ (slot.gen = g /\ SlotIs(0, slot.token))
      BY <1>1, <2>1, SlotWrites, Places
    <2>3. rt[g].made /\ ~ rt[g].accepting
      BY <1>1, <2>1 DEF GenTrue
    <2>4. Frame(rt[g].accepting, "done")
      BY <1>1, <2>1, OtherWrites DEF Frame
    <2> QED
      BY <1>3, <1>4, <2>2, <2>3, <2>4
  <1> QED
    BY <1>5, <1>6, <1>7

\* begin_legacy_startup: the old owner is shut down under the transition token.
LEMMA BeginStartupStep ==
  ASSUME MaxGen \in Nat, NoApp \notin Apps, IInv, NEW a \in Apps, BeginStartup(a)
  PROVE  IInv' /\ DrainIsFinal
  <1>1. /\ rt \in [Gens -> Typed] /\ slot \in Slot /\ app \in [Apps -> Lifespan]
        /\ op' = op /\ AppTrue(a)
        /\ slot.gen # 0 => rt[slot.gen].made /\ slot.gen \in Gens
    BY DEF IInv, Types, BeginStartup, Slot, Gens
  <1>2. /\ app[a].pc \in {"down", "failed"} /\ slot.token = NoApp /\ app[a].gen = 0
        /\ slot' = [slot EXCEPT !.token = a]
    BY <1>1 DEF BeginStartup, may_begin, AppTrue
  <1>3. SlotIs(slot.gen, a)
    BY <1>1, <1>2, SlotWrites, Places
  <1>4. CASE slot.gen = 0
    <2>1. app' = [app EXCEPT ![a].pc = "reserved"] /\ rt' = rt
      BY <1>4 DEF BeginStartup
    <2>2. AppIs(a, "reserved", 0)
      BY <1>1, <1>2, <2>1, AppWrites, Places
    <2>3. AppTrue(a)'
      BY <1>3, <2>2 DEF AppTrue, AppIs, SlotIs, Handing, Leaving
    <2> QED
      BY <1>1, <1>2, <1>3, <2>1, <2>2, <2>3, LifespanQuiet
  <1>5. CASE slot.gen # 0
    <2> PICK g \in Gens : g = slot.gen /\ rt[g].made
      BY <1>1, <1>5
    <2>1. app' = [app EXCEPT ![a].pc = "retiring", ![a].gen = g] /\ rt' = shut(g)
      BY <1>5 DEF BeginStartup
    <2>2. AppIs(a, "retiring", g)
      BY <1>1, <2>1, AppWrites, Places
    <2>3. Turns(rt', g, TRUE, FALSE, rt[g].active, rt[g].disposed, rt[g].sup)
      BY <1>1, <2>1, DoorWrites DEF Typed
    <2>4. AppTrue(a)'
      BY <1>3, <2>2, <2>3 DEF AppTrue, AppIs, SlotIs, Handing, Leaving, Turns
    <2>5. GenTrue(g)'
      BY <1>3, <2>3 DEF IInv, GenTrue, SlotIs, Turns
    <2> QED
      BY <1>1, <1>2, <1>3, <2>2, <2>3, <2>4, <2>5, LifespanTurns
  <1> QED
    BY <1>4, <1>5

\* What the steps of a lifespan start from.
LEMMA Standing ==
  ASSUME MaxGen \in Nat, IInv, NEW a \in Apps
  PROVE  /\ rt \in [Gens -> Typed] /\ slot \in Slot /\ app \in [Apps -> Lifespan]
         /\ AppTrue(a)
         /\ app[a].pc \in Handing <=> slot.token = a
         /\ slot.gen # 0 => rt[slot.gen].made /\ slot.gen \in Gens
         /\ app[a].pc \notin {"down", "reserved", "failed"} =>
              app[a].gen \in Gens /\ rt[app[a].gen].made
         /\ app[a].pc \in Leaving => ~ rt[app[a].gen].accepting
  BY DEF IInv, Types, Slot, Gens, AppTrue

\* The owner is retired: drained and taken out of the slot, or left there, closed.
LEMMA RetireStep ==
  ASSUME MaxGen \in Nat, NoApp \notin Apps, IInv, NEW a \in Apps, Retire(a) \/ RetireFails(a)
  PROVE  IInv' /\ DrainIsFinal
  <1>1. /\ app[a].pc = "retiring" /\ op' = op /\ rt' = rt /\ slot.token = a
        /\ app[a].gen \in Gens /\ ~ rt[app[a].gen].accepting
    BY Standing DEF Retire, RetireFails, Handing, Leaving
  <1>2. CASE Retire(a)
    <2>1. /\ app' = [app EXCEPT ![a].pc = "reserved", ![a].gen = 0]
          /\ slot' = IF slot.gen = app[a].gen THEN [slot EXCEPT !.gen = 0, !.kind = "none"]
                     ELSE slot
      BY <1>2 DEF Retire
    <2>2. AppIs(a, "reserved", 0)
      BY <2>1, Standing, AppWrites, Places
    <2>3. PICK n : SlotIs(n, a) /\ (n = slot.gen \/ (n = 0 /\ slot.gen = app[a].gen))
      BY <1>1, <2>1, Standing, SlotWrites, Places
    <2>4. AppTrue(a)'
      BY <2>2, <2>3 DEF AppTrue, AppIs, SlotIs, Handing, Leaving
    <2> QED
      BY <1>1, <2>2, <2>3, <2>4, LifespanQuiet
  <1>3. CASE RetireFails(a)
    <2>1. PICK kind : slot' = [slot EXCEPT !.kind = kind, !.token = NoApp] /\ kind \in OwnerKinds
      <3>1. slot.kind \in OwnerKinds
        BY Standing DEF Slot, OwnerKinds
      <3> QED
        BY <1>3, <3>1, Places DEF RetireFails
    <2>2. app' = [app EXCEPT ![a] = [pc |-> "failed", gen |-> 0]]
      BY <1>3 DEF RetireFails
    <2>3. AppIs(a, "failed", 0)
      BY <2>2, Standing, AppWrites, Places
    <2>4. SlotIs(slot.gen, NoApp)
      BY <2>1, Standing, SlotWrites
    <2>5. AppTrue(a)'
      BY <2>3, <2>4 DEF AppTrue, AppIs, SlotIs, Handing, Leaving
    <2> QED
      BY <1>1, <2>3, <2>4, <2>5, LifespanQuiet
  <1> QED
    BY <1>2, <1>3

\* A generation that nobody has made.
LEMMA FreshOnes ==
  ASSUME IInv, NEW g \in Fresh
  PROVE  g \in Gens /\ ~ rt[g].made /\ ~ rt[g].disposed /\ rt[g].sup = "none"
         /\ Turns(made(g), g, TRUE, TRUE, rt[g].active, FALSE, "none")
  <1>1. g \in Gens /\ ~ rt[g].made /\ rt \in [Gens -> Typed]
    BY DEF Fresh, IInv, Types
  <1>2. ~ rt[g].disposed /\ rt[g].sup = "none" /\ rt[g].disposed \in BOOLEAN
    BY <1>1 DEF IInv, GenTrue, Typed
  <1>3. Turns(made(g), g, TRUE, TRUE, rt[g].active, rt[g].disposed, rt[g].sup)
    BY <1>1, DoorWrites
  <1>4. rt[g].disposed = FALSE
    BY <1>2
  <1> QED
    BY <1>1, <1>2, <1>3, <1>4

\* The lifespan builds its generation, gives up, or installs it in the empty slot.
LEMMA BuildStep ==
  ASSUME MaxGen \in Nat, NoApp \notin Apps, IInv, NEW a \in Apps,
         Build(a) \/ StartupFails(a) \/ Install(a)
  PROVE  IInv' /\ DrainIsFinal
  <1>1. /\ app[a].pc \in {"reserved", "built"} /\ op' = op /\ slot.token = a
        /\ rt \in [Gens -> Typed]
    BY Standing DEF Build, StartupFails, Install, Handing
  <1>2. CASE Build(a)
    <2>1. /\ app[a].pc = "reserved" /\ slot' = slot
          /\ \E g \in Fresh : rt' = made(g)
                              /\ app' = [app EXCEPT ![a] = [pc |-> "built", gen |-> g]]
      BY <1>2 DEF Build
    <2>2. PICK g \in Fresh : rt' = made(g)
                             /\ app' = [app EXCEPT ![a] = [pc |-> "built", gen |-> g]]
      BY <2>1
    <2>3. g \in Gens /\ ~ rt[g].made
      BY FreshOnes
    <2>4. Turns(rt', g, TRUE, TRUE, rt[g].active, FALSE, "none")
      BY <2>2, FreshOnes
    <2>5. AppIs(a, "built", g)
      BY <2>2, <2>3, Standing, AppWrites, Places
    <2>6. SlotIs(slot.gen, slot.token)
      BY <2>1, Standing, SlotWrites, Places
    <2>7. AppTrue(a)'
      BY <1>1, <2>3, <2>4, <2>5, <2>6 DEF AppTrue, AppIs, SlotIs, Handing, Leaving, Turns
    <2>8. GenTrue(g)'
      BY <2>4, <2>5 DEF GenTrue, AppIs, Turns
    <2> QED
      BY <1>1, <2>1, <2>3, <2>4, <2>5, <2>6, <2>7, <2>8, LifespanTurns
  <1>3. CASE StartupFails(a)
    <2>1. /\ rt' = IF app[a].gen = 0 THEN rt ELSE shut(app[a].gen)
          /\ slot' = [slot EXCEPT !.token = NoApp]
          /\ app' = [app EXCEPT ![a] = [pc |-> "failed", gen |-> 0]]
      BY <1>3 DEF StartupFails
    <2>2. AppIs(a, "failed", 0)
      BY <2>1, Standing, AppWrites, Places
    <2>3. SlotIs(slot.gen, NoApp)
      BY <2>1, Standing, SlotWrites, Places
    <2>4. AppTrue(a)'
      BY <2>2, <2>3 DEF AppTrue, AppIs, SlotIs, Handing, Leaving
    <2>5. CASE app[a].pc = "reserved"
      <3>1. app[a].gen = 0
        BY <2>5, Standing DEF AppTrue
      <3> QED
        BY <1>1, <2>1, <2>2, <2>3, <2>4, <2>5, <3>1, LifespanQuiet
    <2>6. CASE app[a].pc = "built"
      <3>1. PICK g \in Gens : g = app[a].gen /\ rt[g].made /\ g # 0
        BY <2>6, Standing, Places
      <3>2. Turns(rt', g, rt[g].made, FALSE, rt[g].active, rt[g].disposed, rt[g].sup)
        BY <1>1, <2>1, <3>1, DoorWrites
      <3>3. rt[g].made = TRUE
        BY <1>1, <3>1 DEF Typed
      <3>4. Turns(rt', g, TRUE, FALSE, rt[g].active, rt[g].disposed, rt[g].sup)
        BY <3>2, <3>3
      <3>5. GenTrue(g)'
        BY <3>1, <3>4 DEF IInv, GenTrue, Turns
      <3> QED
        BY <1>1, <2>2, <2>3, <2>4, <3>1, <3>4, <3>5, LifespanTurns
    <2> QED
      BY <1>1, <2>5, <2>6
  <1>4. CASE Install(a)
    <2>1. /\ app[a].pc = "built" /\ slot.gen = 0
          /\ slot' = [gen |-> app[a].gen, token |-> NoApp, kind |-> "lifespan"]
          /\ rt' = [rt EXCEPT ![app[a].gen].sup = "running"]
          /\ app' = [app EXCEPT ![a].pc = "up"]
      BY <1>4 DEF Install
    <2>2. PICK g \in Gens : g = app[a].gen /\ rt[g].made
      BY <2>1, Standing
    <2>3. AppIs(a, "up", g)
      BY <2>1, <2>2, Standing, AppWrites, Places
    <2>4. SlotIs(g, NoApp)
      BY <2>1, <2>2, Places DEF SlotIs, Slot
    <2>5. Turns(rt', g, rt[g].made, rt[g].accepting, rt[g].active, rt[g].disposed, "running")
      BY <1>1, <2>1, <2>2, OtherWrites
    <2>6. rt[g].made = TRUE
      BY <1>1, <2>2 DEF Typed
    <2>7. Turns(rt', g, TRUE, rt[g].accepting, rt[g].active, rt[g].disposed, "running")
      BY <2>5, <2>6
    <2>8. AppTrue(a)'
      BY <2>3, <2>4, <2>7 DEF AppTrue, AppIs, SlotIs, Handing, Leaving, Turns
    <2>9. GenTrue(g)'
      BY <2>2, <2>4, <2>7 DEF IInv, GenTrue, SlotIs, Turns
    <2> QED
      BY <1>1, <2>1, <2>2, <2>3, <2>4, <2>7, <2>8, <2>9, LifespanTurns
  <1> QED
    BY <1>2, <1>3, <1>4

\* The lifespan shuts down: closes the door, waits for the supervisor and for the
\* leases, and disposes the resources or gives up.
LEMMA DrainStep ==
  ASSUME MaxGen \in Nat, NoApp \notin Apps, IInv, NEW a \in Apps,
         BeginDrain(a) \/ Drain(a) \/ DrainFails(a)
  PROVE  IInv' /\ DrainIsFinal
  <1>1. /\ app[a].pc \in {"up", "draining", "waiting", "idle"} /\ op' = op
        /\ rt \in [Gens -> Typed]
    BY Standing DEF BeginDrain, Drain, DrainFails, SupervisorAwaited, IdleAwaited, Dispose
  <1>2. slot.token # a
    BY <1>1, Standing DEF Handing
  <1>3. PICK g \in Gens : g = app[a].gen /\ rt[g].made /\ g # 0
    BY <1>1, Standing, Places
  <1>4. rt[g].made = TRUE
    BY <1>1, <1>3 DEF Typed
  <1>5. CASE BeginDrain(a)
    <2>1. app' = [app EXCEPT ![a].pc = "draining"] /\ rt' = shut(g) /\ slot' = slot
      BY <1>3, <1>5 DEF BeginDrain
    <2>2. AppIs(a, "draining", g)
      BY <1>3, <2>1, Standing, AppWrites, Places
    <2>3. SlotIs(slot.gen, slot.token)
      BY <2>1, Standing, SlotWrites, Places
    <2>4. Turns(rt', g, TRUE, FALSE, rt[g].active, rt[g].disposed, rt[g].sup)
      BY <1>1, <1>4, <2>1, DoorWrites
    <2>5. AppTrue(a)'
      BY <1>2, <2>2, <2>3, <2>4 DEF AppTrue, AppIs, SlotIs, Handing, Leaving, Turns
    <2>6. GenTrue(g)'
      BY <1>3, <2>4 DEF IInv, GenTrue, Turns
    <2>7. app[a].pc # "built"
      BY <1>1
    <2> QED
      BY <1>1, <1>3, <2>2, <2>3, <2>4, <2>5, <2>6, <2>7, LifespanTurns
  <1>6. CASE SupervisorAwaited(a) \/ IdleAwaited(a)
    <2>1. PICK pc \in {"waiting", "idle"} : /\ app' = [app EXCEPT ![a].pc = pc]
                                            /\ pc = "idle" => rt[g].active = 0
                                            /\ app[a].pc \in Leaving
                                            /\ rt' = rt /\ slot' = slot
      BY <1>3, <1>6 DEF SupervisorAwaited, IdleAwaited, idle, Leaving
    <2>2. AppIs(a, pc, g)
      <3>1. pc \in Stations
        BY Places
      <3> QED
        BY <1>3, <2>1, <3>1, Standing, AppWrites, Places
    <2>3. SlotIs(slot.gen, slot.token)
      BY <2>1, Standing, SlotWrites, Places
    <2>4. ~ rt[g].accepting
      BY <1>3, <2>1, Standing
    <2>5. AppTrue(a)'
      BY <1>2, <1>3, <2>1, <2>2, <2>3, <2>4 DEF AppTrue, AppIs, SlotIs, Handing, Leaving
    <2>6. app[a].pc # "built"
      BY <1>1
    <2> QED
      BY <1>1, <2>1, <2>2, <2>3, <2>5, <2>6, LifespanQuiet
  <1>7. CASE Dispose(a)
    <2>1. /\ rt' = [rt EXCEPT ![g].disposed = TRUE] /\ app[a].pc = "idle"
          /\ app' = [app EXCEPT ![a] = [pc |-> "down", gen |-> 0]]
          /\ slot' = IF slot.gen = g THEN [slot EXCEPT !.gen = 0, !.kind = "none"] ELSE slot
      BY <1>3, <1>7 DEF Dispose
    <2>2. AppIs(a, "down", 0)
      BY <2>1, Standing, AppWrites, Places
    <2>3. PICK n : SlotIs(n, slot.token) /\ (n = slot.gen \/ (n = 0 /\ slot.gen = g))
      BY <2>1, Standing, SlotWrites, Places
    <2>4. ~ rt[g].accepting /\ rt[g].active = 0
      BY <1>3, <2>1, Standing DEF Leaving, AppTrue
    <2>5. Turns(rt', g, TRUE, FALSE, rt[g].active, TRUE, rt[g].sup)
      <3>1. rt[g].sup \in {"none", "running", "stopping", "done"} /\ rt[g].accepting = FALSE
        BY <1>1, <2>4 DEF Typed
      <3> QED
        BY <1>1, <1>4, <2>1, <3>1, OtherWrites
    <2>6. AppTrue(a)'
      BY <1>2, <2>2, <2>3 DEF AppTrue, AppIs, SlotIs, Handing, Leaving
    <2>7. GenTrue(g)'
      BY <1>3, <2>4, <2>5 DEF IInv, GenTrue, Turns
    <2>8. app[a].pc # "built"
      BY <1>1
    <2>9. n = slot.gen \/ (slot.gen \in {0, g} /\ n \in {0, g})
      BY <2>3
    <2> QED
      BY <1>1, <1>3, <2>2, <2>3, <2>5, <2>6, <2>7, <2>8, <2>9, LifespanTurns
  <1>8. CASE DrainFails(a)
    <2>1. /\ rt' = rt /\ app' = [app EXCEPT ![a] = [pc |-> "failed", gen |-> 0]]
          /\ slot' = [slot EXCEPT !.kind = "closed"] \/ slot' = slot
      BY <1>8 DEF DrainFails
    <2>2. AppIs(a, "failed", 0)
      BY <2>1, Standing, AppWrites, Places
    <2>3. SlotIs(slot.gen, slot.token)
      BY <2>1, Standing, SlotWrites, Places
    <2>4. AppTrue(a)'
      BY <1>2, <2>2, <2>3 DEF AppTrue, AppIs, SlotIs, Handing, Leaving
    <2>5. app[a].pc # "built"
      BY <1>1
    <2> QED
      BY <1>1, <2>1, <2>2, <2>3, <2>4, <2>5, LifespanQuiet
  <1> QED
    BY <1>5, <1>6, <1>7, <1>8 DEF Drain

------------------------------------------------------------------------------
(* Captures.                                                                *)

\* An operation captures the generation of an application, of a supervisor or of the
\* slot.
LEMMA CaptureKnown ==
  ASSUME MaxGen \in Nat, IsFiniteSet(Ops), IInv, NEW o \in Ops,
         \/ \E a \in Apps : CaptureRequest(o, a)
         \/ \E g \in Gens : CaptureSupervised(o, g)
         \/ CaptureLegacy(o) /\ slot.gen # 0
  PROVE  IInv' /\ DrainIsFinal
  <1>1. ASSUME NEW a \in Apps, CaptureRequest(o, a) PROVE IInv' /\ DrainIsFinal
    <2>1. PICK g \in Gens : g = app[a].gen /\ rt[g].made
      BY <1>1, Standing DEF CaptureRequest
    <2>2. /\ op[o].pc = "idle" /\ UNCHANGED <<rt, slot, app>>
          /\ op' = [op EXCEPT ![o] = [Rest EXCEPT !.pc = "captured", !.gen = g]]
      BY <1>1, <2>1 DEF CaptureRequest
    <2> QED
      BY <2>1, <2>2, CaptureStep
  <1>2. ASSUME NEW g \in Gens, CaptureSupervised(o, g) PROVE IInv' /\ DrainIsFinal
    <2>1. rt[g].made
      BY <1>2 DEF CaptureSupervised, IInv, GenTrue
    <2> QED
      BY <1>2, <2>1, CaptureStep DEF CaptureSupervised
  <1>3. ASSUME CaptureLegacy(o), slot.gen # 0 PROVE IInv' /\ DrainIsFinal
    <2>1. PICK g \in Gens : g = slot.gen /\ rt[g].made
      BY <1>3 DEF IInv, Types, Slot, Gens
    <2>2. /\ op[o].pc = "idle" /\ UNCHANGED <<rt, slot, app>>
          /\ op' = [op EXCEPT ![o] = [Rest EXCEPT !.pc = "captured", !.gen = g]]
      BY <1>3, <2>1 DEF CaptureLegacy
    <2> QED
      BY <2>1, <2>2, CaptureStep
  <1> QED
    BY <1>1, <1>2, <1>3

\* A settings-only call finds the slot empty and makes a temporary generation.
LEMMA CaptureFresh ==
  ASSUME MaxGen \in Nat, IsFiniteSet(Ops), IInv, NEW o \in Ops, CaptureLegacy(o),
         slot.gen = 0
  PROVE  IInv' /\ DrainIsFinal
  <1>1. /\ op[o].pc = "idle" /\ app' = app /\ slot.token = NoApp
        /\ rt \in [Gens -> Typed] /\ slot \in Slot /\ app \in [Apps -> Lifespan]
        /\ op \in [Ops -> Operation] /\ OpTrue(o) /\ Counted
    BY DEF IInv, Types, CaptureLegacy
  <1>2. PICK g \in Fresh :
            /\ rt' = made(g)
            /\ slot' = [slot EXCEPT !.gen = g, !.kind = "temporary"]
            /\ op' = [op EXCEPT ![o] = [Rest EXCEPT !.pc = "captured", !.gen = g]]
    BY DEF CaptureLegacy
  <1>3. g \in Gens /\ ~ rt[g].made /\ Turns(rt', g, TRUE, TRUE, rt[g].active, FALSE, "none")
    BY <1>2, FreshOnes
  <1>4. SlotIs(g, slot.token)
    <2>1. g \in 0 .. MaxGen
      BY <1>3, Places
    <2> QED
      BY <1>1, <1>2, <2>1 DEF SlotIs, Slot
  <1>5. Becomes(o, "captured", g, FALSE, FALSE, FALSE)
    <2>1. op'[o] = [pc |-> "captured", gen |-> g, own |-> FALSE, kept |-> FALSE,
                    thread |-> FALSE]
      BY <1>1, <1>2 DEF Rest
    <2>2. op'[o] \in Operation
      BY <1>3, <2>1, CapturedType
    <2> QED
      BY <1>1, <1>2, <2>1, <2>2 DEF Becomes, Stepped
  <1>6. Types'
    <2>1. op' \in [Ops -> Operation]
      BY <1>1, <1>5 DEF Becomes, Stepped
    <2> QED
      BY <1>1, <1>3, <1>4, <2>1 DEF Types, Turns, SlotIs
  <1>7. \A p \in Ops \ {o} : op'[p] = op[p]
    BY <1>1, <1>2
  <1>8. Counted'
    <2>1. ~ op[o].own /\ ~ op[o].kept
      BY <1>1 DEF OpTrue
    <2>2. \A h : OwnOf(o, h) = 0 /\ KeptOf(o, h) = 0 /\ OwnOf(o, h)' = 0 /\ KeptOf(o, h)' = 0
      BY <1>5, <2>1 DEF OwnOf, KeptOf, Becomes
    <2>3. \A h \in Gens : rt[h].active \in Nat /\ rt'[h].active = rt[h].active
      BY <1>1, <1>3 DEF Turns, Typed
    <2>4. \A h \in Gens : rt'[h].active = rt[h].active + (OwnOf(o, h)' - OwnOf(o, h))
                                                       + (KeptOf(o, h)' - KeptOf(o, h))
      BY <2>2, <2>3
    <2> QED
      BY <1>1, <1>7, <2>4, CountMoves
  <1>9. DrainIsFinal /\ MadeStays
    BY <1>3 DEF DrainIsFinal, MadeStays, Turns, idle
  <1>10. \A a \in Apps : AppTrue(a)'
    BY <1>1, <1>4, <1>9, Unmoved DEF SlotIs
  <1>11. \A p \in Ops : OpTrue(p)'
    <2>1. OpTrue(o)'
      BY <1>3, <1>5 DEF OpTrue, Becomes, Turns
    <2> QED
      BY <1>7, <1>9, <2>1, Unmoved
  <1>12. ASSUME NEW h \in Gens PROVE GenTrue(h)'
    <2>1. CASE h = g
      BY <1>3, <1>4, <2>1 DEF GenTrue, Turns, SlotIs
    <2>2. CASE h # g
      <3>1. rt'[h] = rt[h]
        BY <1>3, <2>2 DEF Turns
      <3>2. rt[h].accepting => \E a \in Apps : app[a].pc = "built" /\ app[a].gen = h
        BY Places DEF IInv, GenTrue
      <3> QED
        BY <1>1, <3>1, <3>2, GenStays
    <2> QED
      BY <2>1, <2>2
  <1>13. slot'.gen # 0 => rt'[slot'.gen].made
    BY <1>3, <1>4 DEF Turns, SlotIs
  <1> QED
    BY <1>6, <1>8, <1>9, <1>10, <1>11, <1>12, <1>13 DEF IInv

------------------------------------------------------------------------------
(* The invariant and what it says.                                          *)

\* No generation, no lease, no lifespan.
LEMMA InitInv ==
  ASSUME MaxGen \in Nat, NoApp \notin Apps, Init
  PROVE  IInv
  <1>1. 0 \in 0 .. MaxGen
    OBVIOUS
  <1>2. Types
    BY <1>1 DEF Init, Types, Typed, Slot, Lifespan, Operation, Rest
  <1>3. ASSUME NEW g \in Gens
        PROVE  rt[g].active = Cardinality(Own(g)) + Cardinality(Kept(g))
    <2>1. Own(g) = {} /\ Kept(g) = {}
      BY DEF Init, Own, Kept, Rest
    <2>2. Cardinality(Own(g)) = 0 /\ Cardinality(Kept(g)) = 0
      BY <2>1, FS_EmptySet
    <2> QED
      BY <2>2 DEF Init
  <1>4. \A o \in Ops : OpTrue(o)
    BY DEF Init, OpTrue, Rest
  <1>5. \A a \in Apps : AppTrue(a)
    BY DEF Init, AppTrue, Handing, Leaving
  <1>6. \A g \in Gens : GenTrue(g)
    BY DEF Init, GenTrue
  <1> QED
    BY <1>2, <1>3, <1>4, <1>5, <1>6 DEF IInv, Counted, Init

\* Every step keeps the invariant and no drained generation is used again.
LEMMA NextInv ==
  ASSUME MaxGen \in Nat, NoApp \notin Apps, IsFiniteSet(Ops), IInv, [Next]_vars
  PROVE  IInv' /\ (DrainIsFinal \/ UNCHANGED vars)
  <1>1. CASE UNCHANGED vars
    BY <1>1 DEF vars, IInv, Types, Counted, Own, Kept, OpTrue, AppTrue, GenTrue
  <1>2. ASSUME NEW o \in Ops, Operate(o) PROVE IInv' /\ DrainIsFinal
    BY <1>2, OperateStep
  <1>3. ASSUME NEW o \in Ops, CaptureLegacy(o) PROVE IInv' /\ DrainIsFinal
    BY <1>3, CaptureKnown, CaptureFresh
  <1>4. ASSUME NEW o \in Ops, \/ \E a \in Apps : CaptureRequest(o, a)
                              \/ \E g \in Gens : CaptureSupervised(o, g)
        PROVE  IInv' /\ DrainIsFinal
    BY <1>4, CaptureKnown
  <1>5. ASSUME NEW g \in Gens, StartStandalone(g) \/ SupervisorEnds(g) \/ StandaloneReleased(g)
        PROVE  IInv' /\ DrainIsFinal
    BY <1>5, SupervisorStep
  <1>6. ASSUME NEW a \in Apps, Startup(a) PROVE IInv' /\ DrainIsFinal
    BY <1>6, BeginStartupStep, RetireStep, BuildStep DEF Startup
  <1>7. ASSUME NEW a \in Apps, BeginDrain(a) \/ Drain(a) \/ DrainFails(a)
        PROVE  IInv' /\ DrainIsFinal
    BY <1>7, DrainStep
  <1> QED
    BY <1>1, <1>2, <1>3, <1>4, <1>5, <1>6, <1>7 DEF Next

\* The invariant implies the type, the count of the leases, that nothing uses what
\* was disposed, and that the slot has one owner.
LEMMA InvIsSafe ==
  ASSUME IsFiniteSet(Ops), NoApp \notin Apps, IInv
  PROVE  RuntimeSafe
  <1>1. Types /\ Counted
    BY DEF IInv
  <1>2. \A g \in Gens : rt[g].active \in 0 .. 2 * Cardinality(Ops)
    <2>1. SUFFICES ASSUME NEW g \in Gens PROVE rt[g].active \in 0 .. 2 * Cardinality(Ops)
      OBVIOUS
    <2>2. /\ Cardinality(Own(g)) \in 0 .. Cardinality(Ops)
          /\ Cardinality(Kept(g)) \in 0 .. Cardinality(Ops) /\ Cardinality(Ops) \in Nat
      BY Counts, FS_CardinalityType
    <2>3. rt[g].active = Cardinality(Own(g)) + Cardinality(Kept(g))
      BY <1>1 DEF Counted
    <2> QED
      BY <2>2, <2>3
  <1>3. rt \in [Gens -> Generation]
    <2>1. ASSUME NEW g \in Gens PROVE rt[g] \in Generation
      BY <1>1, <1>2 DEF Types, Typed, Generation
    <2> QED
      BY <1>1, <2>1 DEF Types
  <1>4. TypeOK
    BY <1>1, <1>3 DEF TypeOK, Types, Slot, Lifespan, Operation
  <1>5. LeasesCounted
    BY <1>1 DEF Counted, LeasesCounted, Own, Kept
  <1>6. NothingUsesDisposed
    <2>1. SUFFICES ASSUME NEW g \in Gens, rt[g].disposed, NEW o \in Ops, Holds(o, g)
                   PROVE  FALSE
      BY DEF NothingUsesDisposed
    <2>2. op[o].gen = g /\ (op[o].own \/ op[o].kept)
      BY <2>1 DEF Holds, IInv, OpTrue
    <2>3. rt[g].active # 0
      BY <1>1, <2>2, HeldIsCounted
    <2> QED
      BY <2>1, <2>3 DEF IInv, GenTrue
  <1>7. OneOwner
    <2>1. \A a \in Apps : app[a].pc \in Handing => slot.token = a
      BY DEF IInv, AppTrue
    <2>2. \A g \in Gens : rt[g].accepting =>
            slot.gen = g \/ \E a \in Apps : app[a].pc = "built" /\ app[a].gen = g
      BY DEF IInv, GenTrue
    <2> QED
      BY <2>1, <2>2 DEF OneOwner, Handing
  <1> QED
    BY <1>4, <1>5, <1>6, <1>7 DEF RuntimeSafe

\* The inductive invariant holds in every reachable state.
THEOREM RuntimeInvariant ==
  ASSUME MaxGen \in Nat, NoApp \notin Apps, IsFiniteSet(Ops)
  PROVE  Spec => []IInv
  <1>1. Init => IInv
    BY InitInv
  <1>2. IInv /\ [Next]_vars => IInv'
    BY NextInv
  <1> QED
    BY <1>1, <1>2, PTL DEF Spec

\* RuntimeSafe for every set of applications, every finite set of operations and any
\* number of generations: main.py disposes the engine of a generation only when no
\* operation and no delegated thread holds it, the counter wait_until_idle waits for
\* is the number of leases, and the process-global slot has one owner.
THEOREM RuntimeIsSafe ==
  ASSUME MaxGen \in Nat, NoApp \notin Apps, IsFiniteSet(Ops)
  PROVE  Spec => []RuntimeSafe
  <1>1. IInv => RuntimeSafe
    BY InvIsSafe
  <1> QED
    BY <1>1, RuntimeInvariant, PTL

\* A generation that stopped admission never admits again, and one that was then found
\* idle never gets another lease, whatever captured it before begin_shutdown.
THEOREM DrainsAreFinal ==
  ASSUME MaxGen \in Nat, NoApp \notin Apps, IsFiniteSet(Ops)
  PROVE  Spec => DrainedForGood
  <1>1. IInv /\ [Next]_vars => [DrainIsFinal]_vars
    BY NextInv
  <1> QED
    BY <1>1, RuntimeInvariant, PTL DEF Spec, DrainedForGood
=============================================================================
