------------------------------ MODULE MCCompute -----------------------------
(***************************************************************************)
(* Small instances of DatabricksCompute: a run and two pollers meet two    *)
(* generations of a connection and a crash, or the Start control and a run *)
(* ask for the same compute. A behaviour is one part, chosen by Init; the  *)
(* component stays in its initial state while the part of the Start        *)
(* control is at work.                                                     *)
(***************************************************************************)
EXTENDS DatabricksCompute, TLC

CONSTANTS
    Threads,  \* threads of the Start control in the second part
    owner     \* the owner of every run and thread

VARIABLES
    part,  \* the part at work
    \* the variables of the Start control's part
    m_conn, m_attempts, m_compute, m_start, m_run, m_poll, m_crashes

MCVars == <<part, vars, m_conn, m_attempts, m_compute, m_start, m_run, m_poll, m_crashes>>

\* Every run belongs to the owner of the connection.
RunOwner == [r \in Runs |-> owner]

Fence == INSTANCE DatabricksCompute
    WITH Manual <- Threads, OwnerOf <- [s \in Threads \cup Runs |-> owner], Pollers <- {},
         MaxCrashes <- 0, conn <- m_conn, attempts <- m_attempts, compute <- m_compute,
         start <- m_start, run <- m_run, poll <- m_poll, crashes <- m_crashes

\* The Start control's part is not at work.
Off(v) == v = "off"

MCInit ==
    /\ Init
    /\ \/ /\ part = "rotation"
          /\ Off(m_conn) /\ Off(m_attempts) /\ Off(m_compute) /\ Off(m_start) /\ Off(m_run)
          /\ Off(m_poll) /\ Off(m_crashes)
       \/ part = "fence" /\ Fence!Init

MCNext ==
    \/ /\ part = "rotation" /\ Next
       /\ UNCHANGED <<part, m_conn, m_attempts, m_compute, m_start, m_run, m_poll, m_crashes>>
    \/ part = "fence" /\ Fence!Next /\ UNCHANGED <<part, vars>>

MCSpec == MCInit /\ [][MCNext]_MCVars

\* The pollers are alike.
Symmetry == Permutations(Pollers)

-----------------------------------------------------------------------------
\* At most one start of the compute is unresolved although the Start control and a
\* run reserve, submit and mark in their own sessions (create_compute_attempt).
StartFenced == part = "fence" => Fence!ComputeFenced
=============================================================================
