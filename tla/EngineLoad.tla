---------------------------- MODULE EngineLoad ----------------------------
(***************************************************************************)
(* Loading and unloading models in the inference engine, engine/src/lib.rs.*)
(* A model is served when its pool and its executor are registered.        *)
(* load_model() first loads the dependencies, then instantiates the model  *)
(* natively, and publishes path, pool and executor while it holds the      *)
(* commit gate.  unload_model() is synchronous and runs at any time, and a *)
(* caller may drop the future of its load at any await.                    *)
(*                                                                         *)
(* A load is a stack of frames, one per model whose load is in progress:   *)
(* the last frame is running, the others wait for their dependency.        *)
(***************************************************************************)
EXTENDS Naturals, Sequences, SequencesExt

CONSTANTS
    Model,          \* the models on disk
    Deps,           \* the dependencies in each descriptor
    Enabled,        \* the models whose descriptor is enabled
    Caller,         \* the tasks that call load_model()
    Requested,      \* the models they call it for
    Serialized,     \* HostPolicy::serialized_model_loads
    Scan            \* the engine starts with a scan of the model root

ASSUME ConstantsAssumption ==
    /\ Deps \in [Model -> Seq(Model)]
    /\ Enabled \subseteq Model
    /\ Requested \subseteq Model
    /\ Serialized \in BOOLEAN
    /\ Scan \in BOOLEAN

Main == "main"          \* the task that starts the engine
Free == "free"
Detached == "detached"  \* a native load whose caller is gone
Task == Caller \union {Main}

VARIABLES
    phase,      \* scan, executors, build, started, serving
    tobuild,    \* the executors that the startup has yet to build
    orphaned,   \* the models it had built when it dropped a dependency of theirs
    models,     \* the models with a pool
    executors,  \* the models with an executor
    paths,      \* the models with a directory
    indexed,    \* the models the resolver knows
    gate,       \* model_load_commit: the task that holds it
    left,       \* a native load runs on that nobody waits for
    stack,      \* the frames of each task's load
    succeeded,  \* the tasks whose last load returned Ok
    unloaded    \* the tasks whose model was unloaded since they called

vars == <<phase, tobuild, orphaned, models, executors, paths, indexed, gate, left, stack,
          succeeded, unloaded>>

starting == <<phase, tobuild, orphaned>>
locks == <<gate, left>>
tables == <<models, executors, paths, indexed>>

Frame(m, at, todo) == [model |-> m, at |-> at, todo |-> todo]
Top(t) == Last(stack[t])
At(t, at) == stack[t] # << >> /\ Top(t).at = at

is_model_loaded(m) == m \in models
is_model_ready(m) == m \in models /\ m \in executors

---------------------------------------------------------------------------
(* Frames.                                                                 *)
GoTo(t, at) == stack' = [stack EXCEPT ![t][Len(stack[t])].at = at]

(* A finished load resumes the frame that waits for it; a failed one fails *)
(* every waiting frame with it, down to the executor build of the startup. *)
Succeed(t) ==
    LET below == Front(stack[t])
    IN  IF below = << >>
        THEN /\ stack' = [stack EXCEPT ![t] = << >>]
             /\ succeeded' = succeeded \union {t}
        ELSE /\ stack' = [stack EXCEPT ![t] = [below EXCEPT ![Len(below)].todo = Tail(@)]]
             /\ UNCHANGED succeeded

Fail(t) ==
    LET first == Head(stack[t])
    IN  /\ stack' = [stack EXCEPT ![t] =
                        IF first.at = "building"
                        THEN <<[first EXCEPT !.at = "build failed"]>> ELSE << >>]
        /\ UNCHANGED succeeded

Release(t) == gate' = IF gate = t THEN Free ELSE gate

---------------------------------------------------------------------------
(* The load.                                                               *)

Call(t, m) ==
    /\ phase = "serving"
    /\ stack[t] = << >>
    /\ stack' = [stack EXCEPT ![t] = <<Frame(m, "start", << >>)>>]
    /\ succeeded' = succeeded \ {t}
    /\ unloaded' = unloaded \ {t}
    /\ UNCHANGED <<starting, tables, locks>>

(* Faulty: a model whose publication is under way counts.                  *)
AlreadyLoaded(m) == is_model_loaded(m)
AlreadyReady(m) == is_model_ready(m)

Start(t) ==
    /\ At(t, "start")
    /\ IF AlreadyReady(Top(t).model)
       THEN Succeed(t)
       ELSE GoTo(t, "config") /\ UNCHANGED succeeded
    /\ UNCHANGED <<starting, tables, locks, unloaded>>

(* The descriptor is read on a blocking thread; a disabled one is refused. *)
ReadConfig(t) ==
    /\ At(t, "config")
    /\ \/ /\ Top(t).model \in Enabled
          /\ stack' = [stack EXCEPT ![t][Len(stack[t])] =
                           Frame(Top(t).model, "deps", Deps[Top(t).model])]
          /\ UNCHANGED succeeded
       \/ Fail(t)
    /\ UNCHANGED <<starting, tables, locks, unloaded>>

LoadDependency(t) ==
    /\ At(t, "deps")
    /\ Top(t).todo # << >>
    /\ stack' = [stack EXCEPT ![t] = Append(@, Frame(Head(Top(t).todo), "start", << >>))]
    /\ UNCHANGED <<starting, tables, locks, succeeded, unloaded>>

Resolved(t) ==
    /\ At(t, "deps")
    /\ Top(t).todo = << >>
    /\ GoTo(t, IF Serialized THEN "gate" ELSE "native")
    /\ UNCHANGED <<starting, tables, locks, succeeded, unloaded>>

(* Under the gate another load may have finished first.                    *)
TakeGate(t) ==
    /\ At(t, "gate")
    /\ gate = Free
    /\ IF is_model_ready(Top(t).model)
       THEN Succeed(t) /\ UNCHANGED gate
       ELSE /\ gate' = t
            /\ GoTo(t, IF Serialized THEN "native" ELSE "publish")
            /\ UNCHANGED succeeded
    /\ UNCHANGED <<starting, tables, left, unloaded>>

(* The native instantiation on a blocking thread, with the permit of the   *)
(* gate when loads are serialized.                                         *)
Instantiate(t) ==
    /\ At(t, "native")
    /\ \/ /\ GoTo(t, IF Serialized THEN "publish" ELSE "gate")
          /\ UNCHANGED <<gate, succeeded>>
       \/ Fail(t) /\ Release(t)
    /\ UNCHANGED <<starting, tables, left, unloaded>>

(* The instance is not valid, or no pool can be made for it.               *)
Refuse(t) ==
    /\ At(t, "publish")
    /\ Fail(t)
    /\ Release(t)
    /\ UNCHANGED <<starting, tables, left, unloaded>>

PublishPath(t) ==
    /\ At(t, "publish")
    /\ paths' = paths \union {Top(t).model}
    /\ GoTo(t, "path")
    /\ UNCHANGED <<starting, models, executors, indexed, locks, succeeded, unloaded>>

PublishPool(t) ==
    /\ At(t, "path")
    /\ models' = models \union {Top(t).model}
    /\ GoTo(t, "new executor")
    /\ UNCHANGED <<starting, executors, paths, indexed, locks, succeeded, unloaded>>

NewExecutor(t) ==
    /\ At(t, "new executor")
    /\ \E at \in {"dependencies", "undo pool"} : GoTo(t, at)
    /\ UNCHANGED <<starting, tables, locks, succeeded, unloaded>>

(* build_dependencies() under the gate refuses a dependency that went away.*)
Build(t) ==
    /\ At(t, "dependencies")
    /\ GoTo(t, IF \A d \in Range(Deps[Top(t).model]) : is_model_ready(d)
               THEN "insert" ELSE "undo pool")
    /\ UNCHANGED <<starting, tables, locks, succeeded, unloaded>>

InsertExecutor(t) ==
    /\ At(t, "insert")
    /\ executors' = executors \union {Top(t).model}
    /\ GoTo(t, "confirm")
    /\ UNCHANGED <<starting, models, paths, indexed, locks, succeeded, unloaded>>

(* An unload that ran during the build has removed the pool.               *)
Confirm(t) ==
    /\ At(t, "confirm")
    /\ GoTo(t, IF is_model_ready(Top(t).model) THEN "rebuild" ELSE "undo pool")
    /\ UNCHANGED <<starting, tables, locks, succeeded, unloaded>>

(* Faulty: the resolver is not rebuilt.                                    *)
FinishUnindexed(t) ==
    /\ At(t, "rebuild")
    /\ Succeed(t)
    /\ Release(t)
    /\ UNCHANGED <<starting, tables, left, unloaded>>

Finish(t) ==
    /\ At(t, "rebuild")
    /\ indexed' = models
    /\ Succeed(t)
    /\ Release(t)
    /\ UNCHANGED <<starting, models, executors, paths, left, unloaded>>

---------------------------------------------------------------------------
(* ModelLoadRollback::drop(), before the gate is released.                 *)
UndoPool(t) ==
    /\ At(t, "undo pool")
    /\ models' = models \ {Top(t).model}
    /\ GoTo(t, "undo executor")
    /\ UNCHANGED <<starting, executors, paths, indexed, locks, succeeded, unloaded>>

UndoExecutor(t) ==
    /\ At(t, "undo executor")
    /\ executors' = executors \ {Top(t).model}
    /\ GoTo(t, "undo path")
    /\ UNCHANGED <<starting, models, paths, indexed, locks, succeeded, unloaded>>

UndoPath(t) ==
    /\ At(t, "undo path")
    /\ paths' = paths \ {Top(t).model}
    /\ GoTo(t, "undo index")
    /\ UNCHANGED <<starting, models, executors, indexed, locks, succeeded, unloaded>>

UndoIndex(t) ==
    /\ At(t, "undo index")
    /\ indexed' = models
    /\ Fail(t)
    /\ Release(t)
    /\ UNCHANGED <<starting, models, executors, paths, left, unloaded>>

(* Faulty: a dropped future gives up the gate of its native load.          *)
DropGate(t) == gate' = IF gate = t THEN Free ELSE gate

(* The caller drops the future.  A native load goes on; the gate stays     *)
(* with it when loads are serialized.                                      *)
DropKeepsGate(t) ==
    gate' = CASE gate = t /\ At(t, "native") -> Detached
              [] gate = t -> Free
              [] OTHER -> gate

Cancel(t) ==
    /\ t # Main
    /\ \E at \in {"config", "gate", "native"} : At(t, at)
    /\ DropKeepsGate(t)
    /\ left' = (left \/ At(t, "native"))
    /\ stack' = [stack EXCEPT ![t] = << >>]
    /\ UNCHANGED <<starting, tables, succeeded, unloaded>>

(* Faulty: a dropped future leaves its publication as it is.               *)
CancelBuildBare(t) ==
    /\ t # Main
    /\ At(t, "dependencies")
    /\ Fail(t)
    /\ Release(t)
    /\ UNCHANGED <<starting, tables, left, unloaded>>

CancelBuild(t) ==
    /\ t # Main
    /\ At(t, "dependencies")
    /\ GoTo(t, "undo pool")
    /\ UNCHANGED <<starting, tables, locks, succeeded, unloaded>>

(* Faulty: a native load left behind keeps the gate.                       *)
DetachedEndsHolding ==
    /\ left
    /\ left' = FALSE
    /\ UNCHANGED <<starting, tables, gate, stack, succeeded, unloaded>>

DetachedEnds ==
    /\ left
    /\ left' = FALSE
    /\ gate' = IF gate = Detached THEN Free ELSE gate
    /\ UNCHANGED <<starting, tables, stack, succeeded, unloaded>>

unload_model(m) ==
    /\ phase = "serving"
    /\ m \in models
    /\ models' = models \ {m}
    /\ executors' = executors \ {m}
    /\ paths' = paths \ {m}
    /\ indexed' = models'
    /\ unloaded' = unloaded \union
                       {t \in Caller : stack[t] # << >> /\ Head(stack[t]).model = m}
    /\ UNCHANGED <<starting, locks, stack, succeeded>>

---------------------------------------------------------------------------
(* The startup scan, before anything else runs: pools, then executors,     *)
(* then the dependencies of each executor, in no particular order.  Each   *)
(* model that fails on the way is dropped.                                 *)
ScanModels ==
    /\ phase = "scan"
    /\ models' \in SUBSET Enabled
    /\ paths' = models'
    /\ indexed' = models'
    /\ phase' = "executors"
    /\ UNCHANGED <<tobuild, orphaned, executors, locks, stack, succeeded, unloaded>>

CreateExecutors ==
    /\ phase = "executors"
    /\ executors' \in SUBSET models
    /\ models' = executors'
    /\ paths' = executors'
    /\ tobuild' = executors'
    /\ phase' = "build"
    /\ UNCHANGED <<orphaned, indexed, locks, stack, succeeded, unloaded>>

BuildExecutor(m) ==
    /\ phase = "build"
    /\ stack[Main] = << >>
    /\ m \in tobuild
    /\ stack' = [stack EXCEPT ![Main] = <<Frame(m, "building", Deps[m])>>]
    /\ UNCHANGED <<starting, tables, locks, succeeded, unloaded>>

(* A dependency that is not ready is loaded; the startup holds no gate.    *)
BuildDependency ==
    /\ At(Main, "building")
    /\ Top(Main).todo # << >>
    /\ LET d == Head(Top(Main).todo)
       IN  stack' = [stack EXCEPT ![Main] =
                         IF is_model_ready(d)
                         THEN <<[Head(@) EXCEPT !.todo = Tail(@)]>>
                         ELSE Append(@, Frame(d, "start", << >>))]
    /\ UNCHANGED <<starting, tables, locks, succeeded, unloaded>>

ExecutorBuilt ==
    /\ At(Main, "building")
    /\ Top(Main).todo = << >>
    /\ tobuild' = tobuild \ {Top(Main).model}
    /\ stack' = [stack EXCEPT ![Main] = << >>]
    /\ UNCHANGED <<phase, orphaned, tables, locks, succeeded, unloaded>>

(* Faulty: a model that fails to build at startup stays.                   *)
BuildFailedKept ==
    /\ At(Main, "build failed")
    /\ tobuild' = tobuild \ {Top(Main).model}
    /\ stack' = [stack EXCEPT ![Main] = << >>]
    /\ UNCHANGED <<phase, orphaned, tables, locks, succeeded, unloaded>>

BuildFailed ==
    /\ At(Main, "build failed")
    /\ LET m == Top(Main).model
       IN  /\ models' = models \ {m}
           /\ executors' = executors \ {m}
           /\ paths' = paths \ {m}
           /\ tobuild' = tobuild \ {m}
           /\ orphaned' = orphaned \union
                  {p \in models \ tobuild : m \in Range(Deps[p])}
    /\ stack' = [stack EXCEPT ![Main] = << >>]
    /\ UNCHANGED <<phase, indexed, locks, succeeded, unloaded>>

Started ==
    /\ \/ phase = "build" /\ tobuild = {} /\ phase' = "started" /\ UNCHANGED orphaned
       \/ phase = "started" /\ phase' = "serving" /\ orphaned' = {}
    /\ UNCHANGED <<tobuild, tables, locks, stack, succeeded, unloaded>>

---------------------------------------------------------------------------
Init ==
    /\ phase = IF Scan THEN "scan" ELSE "serving"
    /\ tobuild = {} /\ orphaned = {}
    /\ models = {} /\ executors = {} /\ paths = {} /\ indexed = {}
    /\ gate = Free
    /\ left = FALSE
    /\ stack = [t \in Task |-> << >>]
    /\ succeeded = {} /\ unloaded = {}

Step(t) ==
    \/ Start(t) \/ ReadConfig(t) \/ LoadDependency(t) \/ Resolved(t)
    \/ TakeGate(t) \/ Instantiate(t)
    \/ Refuse(t) \/ PublishPath(t) \/ PublishPool(t) \/ NewExecutor(t)
    \/ Build(t) \/ InsertExecutor(t) \/ Confirm(t) \/ Finish(t)
    \/ UndoPool(t) \/ UndoExecutor(t) \/ UndoPath(t) \/ UndoIndex(t)

Startup ==
    \/ ScanModels \/ CreateExecutors
    \/ \E m \in Model : BuildExecutor(m)
    \/ BuildDependency \/ ExecutorBuilt \/ BuildFailed
    \/ Started

Next ==
    \/ Startup
    \/ \E t \in Task : Step(t)
    \/ \E t \in Caller : Cancel(t) \/ CancelBuild(t)
    \/ \E t \in Caller, m \in Requested : Call(t, m)
    \/ DetachedEnds
    \/ \E m \in Model : unload_model(m)

Spec == Init /\ [][Next]_vars

(* The runtime polls every task, a native load ends, and the mutex of the  *)
(* gate is fair: it serves its waiters in order.                           *)
Fairness ==
    /\ WF_vars(Startup)
    /\ \A t \in Task : WF_vars(Step(t)) /\ SF_vars(TakeGate(t))
    /\ WF_vars(DetachedEnds)

FairSpec == Spec /\ Fairness

---------------------------------------------------------------------------
(* The tables name models, and the gate is held by the one task that is    *)
(* between taking and releasing it, or by a native load left behind.       *)
Gated == {"publish", "path", "new executor", "dependencies", "insert", "confirm",
          "rebuild", "undo pool", "undo executor", "undo path", "undo index"}
            \union (IF Serialized THEN {"native"} ELSE {})

TypeOK ==
    /\ models \subseteq Model /\ executors \subseteq Model
    /\ paths \subseteq Model /\ indexed \subseteq Model
    /\ gate \in Task \union {Free, Detached}
    /\ left \in BOOLEAN
    /\ \A t \in Task : gate = t <=> stack[t] # << >> /\ Top(t).at \in Gated

(* A finished, failed or cancelled load leaves nothing half registered:    *)
(* while no load holds the gate, a model has a pool, an executor and a     *)
(* directory, or none of them, whatever unloads ran in between.            *)
SettledWhole ==
    phase = "serving" /\ gate = Free => models = executors /\ models = paths

(* Whenever no load holds the gate, every loaded model has its public name *)
(* in the resolver: loads, their rollbacks and unloads rebuild it in step. *)
(* It may name more: the startup does not rebuild it for the models whose  *)
(* executors it drops.                                                     *)
ResolverCovers ==
    phase = "serving" /\ gate = Free => models \subseteq indexed

(* With serialized loads at most one native instantiation runs, also after *)
(* the caller of one gave up.                                              *)
OneNativeLoad ==
    Serialized =>
        \A t, u \in Task :
            At(t, "native") => ~left /\ (At(u, "native") => t = u)

(* A load that reports success left the model able to serve, unless it was *)
(* unloaded since.                                                         *)
OkMeansReady ==
    [][\A t \in succeeded' \ succeeded :
          is_model_ready(Head(stack[t]).model) \/ t \in unloaded]_vars

(* No model that the startup leaves resident lacks a dependency, but one   *)
(* that was built before its dependency lost one of its own: the startup   *)
(* drops the dependency and does not look again at the models above it.    *)
StartedWhole ==
    phase = "started" =>
        \A m \in models \ orphaned : \A d \in Range(Deps[m]) : is_model_ready(d)

(* Every load returns: neither the gate nor a dependency that disappears   *)
(* under it blocks a load forever.                                         *)
LoadReturns == \A t \in Task : stack[t] # << >> ~> stack[t] = << >>
=============================================================================
