-------------------------- MODULE EngineAdmission --------------------------
(* The prediction path of the inference engine: predict_raw_at() admits a  *)
(* root request through a semaphore, predict_raw_inner() leases a pooled   *)
(* model instance and runs the executor on a blocking thread, and a bridge *)
(* executor makes nested predictions from that thread.  A deadline or a    *)
(* cancelled caller ends the waiting, never the native work: the lease and *)
(* the permit belong to the closure on the blocking thread.                *)
(*                                                                         *)
(* Plan[r] is the root model of request r followed by the models that its  *)
(* executor calls in turn; call <<r, 1>> is the root prediction.           *)
EXTENDS Naturals, Sequences, FiniteSets

CONSTANTS
    Request,
    Model,
    Plan,       \* [Request -> Seq(Model)], not empty
    PoolSize,   \* [Model -> Nat]: executor.params.pool_size
    Limit,      \* HostPolicy.admission_limit
    Threads,    \* max_blocking_threads of the runtime
    MaxLoads    \* [Model -> Nat]: bounds how often a model is loaded again

ASSUME AdmissionAssumption ==
    /\ Limit \in Nat /\ Threads \in Nat
    /\ Limit < Threads
    /\ PoolSize \in [Model -> Nat] /\ MaxLoads \in [Model -> Nat]
    /\ Plan \in [Request -> Seq(Model)]
    /\ \A r \in Request : Plan[r] # << >>

Calls == UNION {{<<r, k>> : k \in 1..Len(Plan[r])} : r \in Request}

VARIABLES
    call,       \* the future of each call
    task,       \* its closure on the blocking pool
    permit,     \* the requests that hold an admission permit
    leased,     \* the calls that hold an instance of their model
    expired,    \* the requests whose deadline has passed
    loaded,     \* the models in the engine's tables
    gen,        \* how often each model was loaded again: its current pool
    pool        \* the pool of its model that each call has looked up

vars == <<call, task, permit, leased, expired, loaded, gen, pool>>

Waiting == {"admission", "pool", "running"}
Final   == {"ok", "error", "timeout", "cancelled"}
Live    == {"queued", "native"}

Root(r) == <<r, 1>>
ModelOf(c) == Plan[c[1]][c[2]]
Legs(r) == {<<r, k>> : k \in 2..Len(Plan[r])}
Started == {c \in Calls : task[c] = "native"}

---------------------------------------------------------------------------
(* What a future holds is dropped when it returns.                         *)
Release(c) == permit' = IF c[2] = 1 THEN permit \ {c[1]} ELSE permit

(* The lookup clones the Arc of the pool that the table holds.             *)
TakesPool(c) == pool' = [pool EXCEPT ![c] = gen[ModelOf(c)]]

(* predict_raw_at(): an elapsed deadline is refused up front.              *)
Submit(r) ==
    /\ call[Root(r)] = "idle"
    /\ call' = [call EXCEPT ![Root(r)] = IF r \in expired THEN "timeout" ELSE "admission"]
    /\ UNCHANGED <<task, permit, leased, expired, loaded, gen, pool>>

Admit(r) ==
    /\ call[Root(r)] = "admission"
    /\ Cardinality(permit) < Limit
    /\ IF ModelOf(Root(r)) \in loaded
       THEN /\ permit' = permit \union {r}
            /\ call' = [call EXCEPT ![Root(r)] = "pool"]
       ELSE /\ call' = [call EXCEPT ![Root(r)] = "error"]
            /\ UNCHANGED permit
    /\ TakesPool(Root(r))
    /\ UNCHANGED <<task, leased, expired, loaded, gen>>

AdmissionTimeout(r) ==
    /\ call[Root(r)] = "admission"
    /\ r \in expired
    /\ call' = [call EXCEPT ![Root(r)] = "timeout"]
    /\ UNCHANGED <<task, permit, leased, expired, loaded, gen, pool>>

---------------------------------------------------------------------------
(* predict_raw_inner().                                                    *)
Lease(c) ==
    /\ call[c] = "pool"
    /\ Cardinality({d \in leased : ModelOf(d) = ModelOf(c) /\ pool[d] = pool[c]})
          < PoolSize[ModelOf(c)]
    /\ leased' = leased \union {c}
    /\ task' = [task EXCEPT ![c] = "queued"]
    /\ call' = [call EXCEPT ![c] = "running"]
    /\ UNCHANGED <<permit, expired, loaded, gen, pool>>

(* The pool cannot make an instance.                                       *)
LeaseFails(c) ==
    /\ call[c] = "pool"
    /\ call' = [call EXCEPT ![c] = "error"]
    /\ Release(c)
    /\ UNCHANGED <<task, leased, expired, loaded, gen, pool>>

(* Faulty: a request that times out keeps its permit.                      *)
PoolTimeoutKeeps(c) ==
    /\ call[c] = "pool"
    /\ c[1] \in expired
    /\ call' = [call EXCEPT ![c] = "timeout"]
    /\ UNCHANGED <<task, permit, leased, expired, loaded, gen, pool>>

PoolTimeout(c) ==
    /\ call[c] = "pool"
    /\ c[1] \in expired
    /\ call' = [call EXCEPT ![c] = "timeout"]
    /\ Release(c)
    /\ UNCHANGED <<task, leased, expired, loaded, gen, pool>>

StartTask(c) ==
    /\ task[c] = "queued"
    /\ Cardinality(Started) < Threads
    /\ task' = [task EXCEPT ![c] = "native"]
    /\ UNCHANGED <<call, permit, leased, expired, loaded, gen, pool>>

(* The closure ends: the context drops the lease, a root the permit.       *)
EndTask(c, how) ==
    /\ task' = [task EXCEPT ![c] = how]
    /\ leased' = leased \ {c}
    /\ Release(c)
    /\ UNCHANGED <<call, expired, loaded, gen, pool>>

(* The executor of a model that calls no other: the native run.            *)
Execute(c) ==
    /\ task[c] = "native"
    /\ c \in Legs(c[1]) \/ Legs(c[1]) = {}
    /\ \E how \in {"ok", "failed"} : EndTask(c, how)

Return(c) ==
    /\ call[c] = "running"
    /\ task[c] \in {"ok", "failed"}
    /\ call' = [call EXCEPT ![c] = IF task[c] = "ok" THEN "ok" ELSE "error"]
    /\ UNCHANGED <<task, permit, leased, expired, loaded, gen, pool>>

(* Faulty: the permit goes while native work runs on.                      *)
RunTimeoutFreesPermit(c) ==
    /\ call[c] = "running"
    /\ task[c] \in Live
    /\ c[1] \in expired
    /\ call' = [call EXCEPT ![c] = "timeout"]
    /\ Release(c)
    /\ UNCHANGED <<task, leased, expired, loaded, gen, pool>>

(* Faulty: the instance goes while native work runs on.                    *)
RunTimeoutFreesLease(c) ==
    /\ call[c] = "running"
    /\ task[c] \in Live
    /\ c[1] \in expired
    /\ call' = [call EXCEPT ![c] = "timeout"]
    /\ leased' = leased \ {c}
    /\ UNCHANGED <<task, permit, expired, loaded, gen, pool>>

RunTimeout(c) ==
    /\ call[c] = "running"
    /\ task[c] \in Live
    /\ c[1] \in expired
    /\ call' = [call EXCEPT ![c] = "timeout"]
    /\ UNCHANGED <<task, permit, leased, expired, loaded, gen, pool>>

---------------------------------------------------------------------------
(* EmbedBridgeExecutor and ConvertBridgeExecutor: one leg after the other, *)
(* through predict_raw_nested(), which takes no permit.                    *)
Previous(c) == <<c[1], c[2] - 1>>

Ready(c) ==
    /\ task[Root(c[1])] = "native"
    /\ call[c] = "idle"
    /\ c[2] > 2 => call[Previous(c)] = "ok"

(* Faulty: a nested prediction needs a permit of its own.                  *)
CallLegAdmitted(c) ==
    /\ Ready(c)
    /\ Cardinality(permit) < Limit
    /\ call' = [call EXCEPT ![c] = IF ModelOf(c) \in loaded THEN "pool" ELSE "error"]
    /\ TakesPool(c)
    /\ UNCHANGED <<task, permit, leased, expired, loaded, gen>>

CallLeg(c) ==
    /\ Ready(c)
    /\ call' = [call EXCEPT ![c] = IF ModelOf(c) \in loaded THEN "pool" ELSE "error"]
    /\ TakesPool(c)
    /\ UNCHANGED <<task, permit, leased, expired, loaded, gen>>

BridgeEnds(r) ==
    /\ task[Root(r)] = "native"
    /\ Legs(r) # {}
    /\ \/ /\ \A c \in Legs(r) : call[c] = "ok"
          /\ EndTask(Root(r), "ok")
       \/ /\ \E c \in Legs(r) : call[c] \in {"error", "timeout"}
          /\ EndTask(Root(r), "failed")

(* What the bridge refuses itself before, between and after its legs: an   *)
(* unresolved or restricted model, an output without the embeddings.       *)
BridgeFails(r) ==
    /\ task[Root(r)] = "native"
    /\ Legs(r) # {}
    /\ \A c \in Legs(r) : call[c] \notin Waiting
    /\ EndTask(Root(r), "failed")

---------------------------------------------------------------------------
Expire(r) ==
    /\ r \notin expired
    /\ expired' = expired \union {r}
    /\ UNCHANGED <<call, task, permit, leased, loaded, gen, pool>>

(* The caller drops the future of its root prediction.                     *)
Cancel(r) ==
    /\ call[Root(r)] \in Waiting
    /\ call' = [call EXCEPT ![Root(r)] = "cancelled"]
    /\ permit' = IF call[Root(r)] = "pool" THEN permit \ {r} ELSE permit
    /\ UNCHANGED <<task, leased, expired, loaded, gen, pool>>

Unload(m) ==
    /\ m \in loaded
    /\ loaded' = loaded \ {m}
    /\ UNCHANGED <<call, task, permit, leased, expired, gen, pool>>

(* load_model() publishes the model with a new pool; the calls that have   *)
(* looked the old one up keep it alive and go on leasing from it.          *)
Load(m) ==
    /\ m \notin loaded
    /\ gen[m] < MaxLoads[m]
    /\ gen' = [gen EXCEPT ![m] = @ + 1]
    /\ loaded' = loaded \union {m}
    /\ UNCHANGED <<call, task, permit, leased, expired, pool>>

Init ==
    /\ call = [c \in Calls |-> "idle"]
    /\ task = [c \in Calls |-> "none"]
    /\ permit = {} /\ leased = {} /\ expired = {}
    /\ loaded = Model
    /\ gen = [m \in Model |-> 0]
    /\ pool = [c \in Calls |-> 0]

Work ==
    \/ \E r \in Request : Admit(r) \/ BridgeEnds(r)
    \/ \E c \in Calls : Lease(c) \/ StartTask(c) \/ Return(c)
    \/ \E r \in Request : \E c \in Legs(r) : CallLeg(c)

TimesOut(c) ==
    \/ c[2] = 1 /\ AdmissionTimeout(c[1])
    \/ PoolTimeout(c)
    \/ RunTimeout(c)

Next ==
    \/ Work
    \/ \E c \in Calls : TimesOut(c)
    \/ \E r \in Request : Submit(r) \/ Expire(r) \/ Cancel(r) \/ BridgeFails(r)
    \/ \E c \in Calls : LeaseFails(c) \/ Execute(c)
    \/ \E m \in Model : Unload(m) \/ Load(m)

Spec == Init /\ [][Next]_vars

(* The runtime polls its tasks and native work ends; nothing needs a       *)
(* deadline to pass.                                                       *)
ProgressSpec == Spec /\ WF_vars(Work) /\ \A c \in Calls : WF_vars(Execute(c))

---------------------------------------------------------------------------
(* The state has its type, and the semaphore never hands out more permits  *)
(* than it has.                                                            *)
TypeOK ==
    /\ call \in [Calls -> {"idle"} \union Waiting \union Final]
    /\ task \in [Calls -> {"none", "ok", "failed"} \union Live]
    /\ permit \subseteq Request /\ Cardinality(permit) <= Limit
    /\ leased \subseteq Calls
    /\ expired \subseteq Request /\ loaded \subseteq Model
    /\ gen \in [Model -> Nat] /\ pool \in [Calls -> Nat]

(* At most Limit root requests have a closure, whoever still waits.        *)
RootsWithinLimit == Cardinality({r \in Request : task[Root(r)] \in Live}) <= Limit

(* No instance serves two closures: those that lease from one pool of a    *)
(* model, finished callers included, never outnumber it.  The pool of an   *)
(* unloaded model goes on for the calls that hold it, beside the new one.  *)
InstancesWithinPool ==
    \A m \in Model : \A g \in 0..gen[m] :
        Cardinality({c \in Calls : task[c] \in Live /\ ModelOf(c) = m /\ pool[c] = g})
          <= PoolSize[m]

(* No path leaks capacity: a permit is held only for a root that waits for *)
(* its instance or has a closure, an instance only by a closure.           *)
NothingLeaks ==
    /\ \A r \in permit : call[Root(r)] = "pool" \/ task[Root(r)] \in Live
    /\ \A c \in leased : task[c] \in Live

(* A submitted prediction comes to an end without the help of a deadline,  *)
(* nested calls of a bridge at Limit = 1 included.                         *)
Completes == \A r \in Request : call[Root(r)] = "admission" ~> call[Root(r)] \in Final

=============================================================================
