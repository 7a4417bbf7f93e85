-------------------------- MODULE RuntimeLifetime --------------------------
(***************************************************************************)
(* Who may use the resources of a process and until when                   *)
(* (app/infrastructure/runtime.py, the lifespan and the ownership          *)
(* middleware of app/main.py, the compatibility slot and the supervisor of *)
(* app/services/pipeline_tasks.py).  A generation is one ExecutionRuntime. *)
(* Operations hold leases of a generation; shutting it down stops          *)
(* admission, waits until no lease is left and disposes the resources.     *)
(* One process-global slot names the generation that settings-only calls   *)
(* use, and startups of application instances hand it over.                *)
(***************************************************************************)
EXTENDS Naturals, FiniteSets

CONSTANTS
    Apps,     \* lifespans of module-level application instances
    Ops,      \* requests, background calls and threads
    MaxGen    \* bound on the generations of one process

Gens == 1 .. MaxGen
NoApp == "no app"

VARIABLES
    rt,    \* the generations
    slot,  \* _LEGACY_RUNTIME, _LEGACY_OWNER_KIND, _LEGACY_TRANSITION_TOKEN
    app,   \* the lifespans
    op     \* the operations

vars == <<rt, slot, app, op>>

\* sup: the supervisor task of the generation.
Generation == [made : BOOLEAN, accepting : BOOLEAN, active : 0 .. 2 * Cardinality(Ops),
               disposed : BOOLEAN, sup : {"none", "running", "stopping", "done"}]

TypeOK ==
    /\ rt \in [Gens -> Generation]
    /\ slot \in [gen : 0 .. MaxGen, token : Apps \cup {NoApp},
                 kind : {"none", "temporary", "standalone", "lifespan", "closed"}]
    /\ app \in [Apps -> [pc : {"down", "retiring", "reserved", "built", "up", "draining",
                               "waiting", "idle", "failed"}, gen : 0 .. MaxGen]]
    \* own and kept: the leases of the caller and of the thread it delegated to.
    /\ op \in [Ops -> [pc : {"idle", "captured", "working", "delegating"}, gen : 0 .. MaxGen,
                       own : BOOLEAN, kept : BOOLEAN, thread : BOOLEAN]]

Rest == [pc |-> "idle", gen |-> 0, own |-> FALSE, kept |-> FALSE, thread |-> FALSE]

Init ==
    /\ rt = [g \in Gens |-> [made |-> FALSE, accepting |-> FALSE, active |-> 0,
                             disposed |-> FALSE, sup |-> "none"]]
    /\ slot = [gen |-> 0, token |-> NoApp, kind |-> "none"]
    /\ app = [a \in Apps |-> [pc |-> "down", gen |-> 0]]
    /\ op = [o \in Ops |-> Rest]

-----------------------------------------------------------------------------
(* PipelineOperationLifetime *)

wrong_may_admit(g) == ~ rt[g].disposed
\* try_admit: under the condition, not accepting means no lease.
may_admit(g) == rt[g].accepting

wrong_admitted(g) == rt
admitted(g) == [rt EXCEPT ![g].active = @ + 1]
released(g) == [rt EXCEPT ![g].active = @ - 1]

\* begin_shutdown may be called any number of times.
shut(g) == [rt EXCEPT ![g].accepting = FALSE]

idle(g) == rt[g].active = 0

Fresh == {g \in Gens : ~ rt[g].made /\ \A h \in Gens : h < g => rt[h].made}

made(g) == [rt EXCEPT ![g].made = TRUE, ![g].accepting = TRUE]

-----------------------------------------------------------------------------
(* Operations *)

\* RuntimeOwnershipMiddleware reads the runtime of the application, while it
\* accepts and while it drains; admission comes later.
CaptureRequest(o, a) ==
    /\ op[o].pc = "idle" /\ app[a].pc \in {"up", "draining", "waiting", "idle"}
    /\ op' = [op EXCEPT ![o] = [Rest EXCEPT !.pc = "captured", !.gen = app[a].gen]]
    /\ UNCHANGED <<rt, slot, app>>

\* The supervisor hands one background function to a thread.
CaptureSupervised(o, g) ==
    /\ op[o].pc = "idle" /\ rt[g].sup = "running"
    /\ op' = [op EXCEPT ![o] = [Rest EXCEPT !.pc = "captured", !.gen = g]]
    /\ UNCHANGED <<rt, slot, app>>

\* _legacy_runtime: the owner of the slot, or a temporary generation.
CaptureLegacy(o) ==
    /\ op[o].pc = "idle" /\ slot.token = NoApp
    /\ \/ /\ slot.gen # 0
          /\ op' = [op EXCEPT ![o] = [Rest EXCEPT !.pc = "captured", !.gen = slot.gen]]
          /\ UNCHANGED <<rt, slot>>
       \/ /\ slot.gen = 0
          /\ \E g \in Fresh :
              /\ rt' = made(g)
              /\ slot' = [slot EXCEPT !.gen = g, !.kind = "temporary"]
              /\ op' = [op EXCEPT ![o] = [Rest EXCEPT !.pc = "captured", !.gen = g]]
    /\ UNCHANGED app

\* operation_scope or try_admit_pipeline_operation, after the capture.
Admit(o) ==
    LET g == op[o].gen IN
    /\ op[o].pc = "captured"
    /\ IF may_admit(g)
       THEN /\ rt' = admitted(g)
            /\ op' = [op EXCEPT ![o].pc = "working", ![o].own = TRUE]
       ELSE /\ op' = [op EXCEPT ![o] = Rest]
            /\ UNCHANGED rt
    /\ UNCHANGED <<slot, app>>

\* run_owned_sync borrows the live admission and submits to the executor.
Delegate(o) ==
    /\ op[o].pc = "working" /\ op[o].own
    /\ rt' = admitted(op[o].gen)
    /\ op' = [op EXCEPT ![o].pc = "delegating", ![o].kept = TRUE, ![o].thread = TRUE]
    /\ UNCHANGED <<slot, app>>

ThreadEnds(o) ==
    /\ op[o].pc = "delegating" /\ op[o].thread
    /\ op' = [op EXCEPT ![o].thread = FALSE]
    /\ UNCHANGED <<rt, slot, app>>

\* The caller closes its scope when the thread has ended; a cancelled caller
\* keeps waiting behind a shield.
may_close(o) == op[o].pc = "delegating" /\ ~ op[o].thread

CloseScope(o) ==
    /\ may_close(o) /\ op[o].kept
    /\ rt' = released(op[o].gen)
    /\ op' = [op EXCEPT ![o].pc = "working", ![o].kept = FALSE]
    /\ UNCHANGED <<slot, app>>

Release(o) ==
    /\ op[o].pc = "working" /\ op[o].own
    /\ rt' = released(op[o].gen)
    /\ op' = [op EXCEPT ![o] = [@ EXCEPT !.pc = "idle", !.own = FALSE,
                                         !.gen = IF op[o].thread THEN @ ELSE 0]]
    /\ UNCHANGED <<slot, app>>

-----------------------------------------------------------------------------
(* Supervisors *)

\* run_background_runtime with settings only: registers itself in the slot.
StartStandalone(g) ==
    /\ slot.token = NoApp /\ slot.gen = g /\ slot.kind \in {"temporary", "standalone", "closed"}
    /\ rt[g].sup \in {"none", "done"}
    /\ rt' = [rt EXCEPT ![g].sup = "running"]
    /\ slot' = [slot EXCEPT !.kind = "standalone"]
    /\ UNCHANGED <<app, op>>

\* The loop ends: it was told to stop, was cancelled or failed.
SupervisorEnds(g) ==
    /\ rt[g].sup = "running"
    /\ rt' = [shut(g) EXCEPT ![g].sup = IF slot.gen = g /\ slot.kind = "standalone"
                                       THEN "stopping" ELSE "done"]
    /\ UNCHANGED <<slot, app, op>>

\* A standalone supervisor waits until its generation is idle and gives up the
\* slot; if the wait cannot be submitted the slot stays, marked closed.
StandaloneReleased(g) ==
    /\ rt[g].sup = "stopping"
    /\ \/ /\ idle(g)
          /\ slot' = IF slot.gen = g THEN [slot EXCEPT !.gen = 0, !.kind = "none"] ELSE slot
       \/ slot' = IF slot.gen = g THEN [slot EXCEPT !.kind = "closed"] ELSE slot
    /\ rt' = [rt EXCEPT ![g].sup = "done"]
    /\ UNCHANGED <<app, op>>

-----------------------------------------------------------------------------
(* Startup *)

may_begin(a) == slot.token = NoApp /\ slot.kind # "lifespan"

\* begin_legacy_startup reserves the slot and shuts the old owner down.
BeginStartup(a) ==
    /\ app[a].pc \in {"down", "failed"} /\ may_begin(a)
    /\ slot' = [slot EXCEPT !.token = a]
    /\ IF slot.gen = 0
       THEN /\ app' = [app EXCEPT ![a].pc = "reserved"]
            /\ UNCHANGED rt
       ELSE /\ rt' = shut(slot.gen)
            /\ app' = [app EXCEPT ![a].pc = "retiring", ![a].gen = slot.gen]
    /\ UNCHANGED op

\* drain_background_runtime: the supervisor task, then the idle wait.
drained(g) == rt[g].sup \in {"none", "done"} /\ idle(g)

Retire(a) ==
    /\ app[a].pc = "retiring" /\ drained(app[a].gen)
    /\ slot' = IF slot.gen = app[a].gen THEN [slot EXCEPT !.gen = 0, !.kind = "none"] ELSE slot
    /\ app' = [app EXCEPT ![a].pc = "reserved", ![a].gen = 0]
    /\ UNCHANGED <<rt, op>>

RetireFails(a) ==
    /\ app[a].pc = "retiring"
    /\ slot' = [slot EXCEPT !.kind = IF slot.gen = app[a].gen THEN "closed" ELSE @,
                            !.token = NoApp]
    /\ app' = [app EXCEPT ![a] = [pc |-> "failed", gen |-> 0]]
    /\ UNCHANGED <<rt, op>>

\* The lifespan builds its own generation.
Build(a) ==
    /\ app[a].pc = "reserved"
    /\ \E g \in Fresh :
        /\ rt' = made(g)
        /\ app' = [app EXCEPT ![a] = [pc |-> "built", gen |-> g]]
    /\ UNCHANGED <<slot, op>>

StartupFails(a) ==
    /\ app[a].pc \in {"reserved", "built"}
    /\ rt' = IF app[a].gen = 0 THEN rt ELSE shut(app[a].gen)
    /\ slot' = [slot EXCEPT !.token = NoApp]
    /\ app' = [app EXCEPT ![a] = [pc |-> "failed", gen |-> 0]]
    /\ UNCHANGED op

\* install_legacy_runtime with the token, then start_background_runtime.
Install(a) ==
    /\ app[a].pc = "built" /\ slot.token = a /\ slot.gen = 0
    /\ slot' = [gen |-> app[a].gen, token |-> NoApp, kind |-> "lifespan"]
    /\ rt' = [rt EXCEPT ![app[a].gen].sup = "running"]
    /\ app' = [app EXCEPT ![a].pc = "up"]
    /\ UNCHANGED op

-----------------------------------------------------------------------------
(* Shutdown of a lifespan *)

BeginDrain(a) ==
    /\ app[a].pc = "up"
    /\ rt' = shut(app[a].gen)
    /\ app' = [app EXCEPT ![a].pc = "draining"]
    /\ UNCHANGED <<slot, op>>

SupervisorAwaited(a) ==
    /\ app[a].pc = "draining" /\ rt[app[a].gen].sup \in {"none", "done"}
    /\ app' = [app EXCEPT ![a].pc = "waiting"]
    /\ UNCHANGED <<rt, slot, op>>

IdleAwaited(a) ==
    /\ app[a].pc = "waiting" /\ idle(app[a].gen)
    /\ app' = [app EXCEPT ![a].pc = "idle"]
    /\ UNCHANGED <<rt, slot, op>>

\* engine.dispose and release_legacy_runtime.
Dispose(a) ==
    /\ app[a].pc = "idle"
    /\ rt' = [rt EXCEPT ![app[a].gen].disposed = TRUE]
    /\ slot' = IF slot.gen = app[a].gen THEN [slot EXCEPT !.gen = 0, !.kind = "none"] ELSE slot
    /\ app' = [app EXCEPT ![a] = [pc |-> "down", gen |-> 0]]
    /\ UNCHANGED op

\* The idle wait or the disposal failed: nothing is disposed, the slot stays.
DrainFails(a) ==
    /\ app[a].pc \in {"waiting", "idle"}
    /\ slot' = IF slot.gen = app[a].gen THEN [slot EXCEPT !.kind = "closed"] ELSE slot
    /\ app' = [app EXCEPT ![a] = [pc |-> "failed", gen |-> 0]]
    /\ UNCHANGED <<rt, op>>

-----------------------------------------------------------------------------
Operate(o) == Admit(o) \/ Delegate(o) \/ ThreadEnds(o) \/ CloseScope(o) \/ Release(o)

Startup(a) == BeginStartup(a) \/ Retire(a) \/ RetireFails(a) \/ Build(a) \/ StartupFails(a)
              \/ Install(a)

Drain(a) == SupervisorAwaited(a) \/ IdleAwaited(a) \/ Dispose(a)

Next ==
    \/ \E o \in Ops : Operate(o) \/ CaptureLegacy(o)
    \/ \E o \in Ops, a \in Apps : CaptureRequest(o, a)
    \/ \E o \in Ops, g \in Gens : CaptureSupervised(o, g)
    \/ \E g \in Gens : StartStandalone(g) \/ SupervisorEnds(g) \/ StandaloneReleased(g)
    \/ \E a \in Apps : Startup(a) \/ BeginDrain(a) \/ Drain(a) \/ DrainFails(a)

Spec == Init /\ [][Next]_vars

-----------------------------------------------------------------------------
(* Properties *)

\* What an operation of generation g holds.
Holds(o, g) == op[o].gen = g /\ (op[o].own \/ op[o].kept \/ op[o].thread)

\* The resources of a generation are disposed only when no operation and no
\* delegated thread can touch them any more (main.py: engine.dispose after the
\* drain), also when the caller of the thread was cancelled.
NothingUsesDisposed ==
    \A g \in Gens : rt[g].disposed => \A o \in Ops : ~ Holds(o, g)

\* The counter wait_until_idle waits for is the number of leases held.
LeasesCounted ==
    \A g \in Gens :
        rt[g].active = Cardinality({o \in Ops : op[o].gen = g /\ op[o].own})
                     + Cardinality({o \in Ops : op[o].gen = g /\ op[o].kept})

\* At most one generation is the process-global owner: a generation that was
\* published in the slot and still accepts work is the one in the slot, and while
\* an application hands the slot over nobody else starts up.
OneOwner ==
    /\ \A a, b \in Apps :
        a # b => ~ (app[a].pc \in {"retiring", "reserved", "built"}
                    /\ app[b].pc \in {"retiring", "reserved", "built"})
    /\ \A g \in Gens : rt[g].accepting =>
        slot.gen = g \/ \E a \in Apps : app[a].pc = "built" /\ app[a].gen = g

\* A generation that stopped admission stays so, and gets no lease once it is idle.
DrainIsFinal ==
    \A g \in Gens :
        rt[g].made /\ ~ rt[g].accepting =>
            /\ ~ rt'[g].accepting
            /\ idle(g) => rt'[g].active = 0

\* Draining is final: a generation that was found idle after admission stopped
\* never gets a lease again, whatever was captured before (drain, admit).
DrainedForGood == [][DrainIsFinal]_vars

\* Resources are disposed only when no operation and no delegated thread can touch
\* them, and one application owns the process-wide runtime (PipelineOperationLifetime,
\* the lifespans of main.py).
RuntimeSafe == TypeOK /\ NothingUsesDisposed /\ LeasesCounted /\ OneOwner
=============================================================================
