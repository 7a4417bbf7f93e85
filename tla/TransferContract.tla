-------------------------- MODULE TransferContract --------------------------
(***************************************************************************)
(* What the pipeline promises about one run, whoever executes it: its      *)
(* destination is published to at most once, only while the run is open,   *)
(* and the outcome it closes with never claims more than is known about    *)
(* the destination (docs/data-pipelines.md, "Execution stages";            *)
(* docs/user-guide.md, "Transfer lifecycle").                              *)
(***************************************************************************)
CONSTANT Runs

VARIABLES outcome,  \* "none", "open", or how the run closed
          effect    \* what the run did to its destination

Closed == {"safe", "done", "uncertain"}

Init == /\ outcome = [r \in Runs |-> "none"]
        /\ effect = [r \in Runs |-> "none"]

Accept(r) == /\ outcome[r] = "none"
             /\ outcome' = [outcome EXCEPT ![r] = "open"]
             /\ UNCHANGED effect

\* One publication per run, and none once the run is closed.
Publish(r) == /\ outcome[r] = "open" /\ effect[r] = "none"
              /\ effect' = [effect EXCEPT ![r] = "pending"]
              /\ UNCHANGED outcome

\* A pending publication may take effect late, even after the run is closed.
Apply(r) == /\ effect[r] = "pending"
            /\ effect' = [effect EXCEPT ![r] = "applied"]
            /\ UNCHANGED outcome

\* blocked, failed and cancelled are "safe": nothing was published, nothing is
\* pending.  succeeded is "done": the publication took effect.
Close(r, how) == /\ outcome[r] = "open"
                 /\ how = "safe" => effect[r] = "none"
                 /\ how = "done" => effect[r] = "applied"
                 /\ outcome' = [outcome EXCEPT ![r] = how]
                 /\ UNCHANGED effect

Next == \E r \in Runs : \/ Accept(r) \/ Publish(r) \/ Apply(r)
                        \/ \E how \in Closed : Close(r, how)

Spec == Init /\ [][Next]_<<outcome, effect>>
==============================================================================
