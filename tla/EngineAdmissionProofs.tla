----------------------- MODULE EngineAdmissionProofs -----------------------
(* Proofs for EngineAdmission, for every set of requests, plan, pool size  *)
(* and admission limit.                                                    *)
EXTENDS EngineAdmission, FiniteSetTheorems, TLAPS

\* The provers that a leaf tries in turn when it names none.
USE SMTT(20), Z3T(20), SMTT(40), Z3T(40), ZenonT(20)

LeasedOf(m, g) == {c \in leased : ModelOf(c) = m /\ pool[c] = g}

CallType == [Calls -> {"idle"} \union Waiting \union Final]
TaskType == [Calls -> {"none", "ok", "failed"} \union Live]

(* The inductive invariant: who holds a permit and an instance is known    *)
(* exactly from the futures and the closures.                              *)
IInv ==
    /\ call \in CallType
    /\ task \in TaskType
    /\ permit \subseteq Request /\ IsFiniteSet(permit) /\ Cardinality(permit) <= Limit
    /\ leased \subseteq Calls /\ IsFiniteSet(leased)
    /\ gen \in [Model -> Nat] /\ pool \in [Calls -> Nat]
    /\ \A m \in Model, g \in Nat : Cardinality(LeasedOf(m, g)) <= PoolSize[m]
    /\ \A c \in Calls : c \in leased <=> task[c] \in Live
    /\ \A c \in Calls : call[c] \in {"idle", "admission", "pool"} => task[c] = "none"
    /\ \A r \in Request :
          r \in permit <=> call[Root(r)] = "pool" \/ task[Root(r)] \in Live

(* A call is the request and the index of one of its models.               *)
LEMMA CallsAre ==
    /\ \A c \in Calls : /\ c[1] \in Request
                        /\ c[2] \in Nat
                        /\ ModelOf(c) \in Model
                        /\ c[2] = 1 => c = Root(c[1])
    /\ \A r \in Request : Root(r) \in Calls /\ Root(r)[1] = r /\ Root(r)[2] = 1
    /\ \A r \in Request : Legs(r) \subseteq Calls
<1>1. ASSUME NEW c \in Calls
      PROVE  c[1] \in Request /\ c[2] \in Nat /\ ModelOf(c) \in Model /\ (c[2] = 1 => c = Root(c[1]))
  <2>1. PICK r \in Request : c \in {<<r, k>> : k \in 1..Len(Plan[r])}
    BY DEF Calls
  <2>2. PICK k \in 1..Len(Plan[r]) : c = <<r, k>>
    BY <2>1
  <2>3. Plan[r] \in Seq(Model)
    BY AdmissionAssumption
  <2>4. c[1] = r /\ c[2] = k
    BY <2>2
  <2> QED
    BY <2>2, <2>3, <2>4 DEF ModelOf, Root
<1>2. ASSUME NEW r \in Request
      PROVE  Root(r) \in Calls /\ Root(r)[1] = r /\ Root(r)[2] = 1
  <2>1. Plan[r] \in Seq(Model) /\ Plan[r] # << >>
    BY AdmissionAssumption
  <2>2. 1 \in 1..Len(Plan[r])
    BY <2>1
  <2> QED
    BY <2>2 DEF Calls, Root
<1>3. ASSUME NEW r \in Request
      PROVE  Legs(r) \subseteq Calls
  <2>1. Plan[r] \in Seq(Model)
    BY AdmissionAssumption
  <2>2. \A k \in 2..Len(Plan[r]) : k \in 1..Len(Plan[r])
    BY <2>1
  <2> QED
    BY <2>2 DEF Legs, Calls
<1> QED
  BY <1>1, <1>2, <1>3

(* A semaphore or a pool with room takes one more, and a release makes     *)
(* nothing larger.                                                         *)
LEMMA OneMore ==
    ASSUME NEW S, IsFiniteSet(S), NEW e, NEW n \in Nat, Cardinality(S) < n
    PROVE  IsFiniteSet(S \union {e}) /\ Cardinality(S \union {e}) <= n
<1>1. Cardinality(S) \in Nat
  BY FS_CardinalityType
<1>2. IsFiniteSet(S \union {e})
  BY FS_AddElement
<1>3. Cardinality(S \union {e}) = IF e \in S THEN Cardinality(S) ELSE Cardinality(S) + 1
  BY FS_AddElement
<1> QED
  BY <1>1, <1>2, <1>3

LEMMA OneLess ==
    ASSUME NEW S, IsFiniteSet(S), NEW T, T \subseteq S, NEW n \in Nat, Cardinality(S) <= n
    PROVE  IsFiniteSet(T) /\ Cardinality(T) <= n
<1>1. T \in SUBSET S
  OBVIOUS
<1>2. IsFiniteSet(T) /\ Cardinality(T) <= Cardinality(S)
  BY <1>1, FS_Subset
<1>3. Cardinality(S) \in Nat /\ Cardinality(T) \in Nat
  BY <1>2, FS_CardinalityType
<1> QED
  BY <1>2, <1>3

(* A step that leaves the capacities alone or gives some back, and keeps   *)
(* the account of who holds them, keeps the invariant.                     *)
LEMMA GivesBack ==
    ASSUME IInv,
           call' \in CallType, task' \in TaskType,
           permit' \subseteq permit, leased' \subseteq leased,
           gen' = gen, pool' \in [Calls -> Nat],
           \A c \in leased : pool'[c] = pool[c],
           \A c \in Calls : c \in leased' <=> task'[c] \in Live,
           \A c \in Calls : call'[c] \in {"idle", "admission", "pool"} => task'[c] = "none",
           \A r \in Request :
              r \in permit' <=> call'[Root(r)] = "pool" \/ task'[Root(r)] \in Live
    PROVE  IInv'
<1>1. permit' \subseteq Request /\ IsFiniteSet(permit') /\ Cardinality(permit') <= Limit
  BY OneLess, AdmissionAssumption, ZenonT(60), SMTT(20) DEF IInv
<1>2. leased' \subseteq Calls /\ IsFiniteSet(leased')
  BY FS_Subset DEF IInv
<1>3. ASSUME NEW m \in Model, NEW g \in Nat
      PROVE  Cardinality(LeasedOf(m, g)') <= PoolSize[m]
  <2>1. LeasedOf(m, g)' \subseteq LeasedOf(m, g) /\ LeasedOf(m, g) \in SUBSET leased
    BY DEF LeasedOf, ModelOf
  <2>2. IsFiniteSet(LeasedOf(m, g))
    BY <2>1, FS_Subset DEF IInv
  <2>3. PoolSize[m] \in Nat /\ Cardinality(LeasedOf(m, g)) <= PoolSize[m]
    BY AdmissionAssumption DEF IInv
  <2> QED
    BY <2>1, <2>2, <2>3, OneLess
<1> QED
  BY <1>1, <1>2, <1>3 DEF IInv

(* One lemma per action that takes no capacity.                            *)
LEMMA KeepsSubmit ==
    ASSUME IInv, NEW r \in Request, Submit(r)
    PROVE  IInv'
<1> USE DEF Submit
<1>1. call' \in CallType /\ task' \in TaskType
  BY CallsAre DEF IInv, CallType, TaskType, Waiting, Final, Live
<1>2. /\ permit' \subseteq permit /\ leased' \subseteq leased
      /\ gen' = gen /\ pool' \in [Calls -> Nat]
      /\ \A d \in leased : pool'[d] = pool[d]
  BY DEF IInv
<1>3. \A d \in Calls : d \in leased' <=> task'[d] \in Live
  BY CallsAre DEF IInv, CallType, TaskType, Live
<1>4. \A d \in Calls : call'[d] \in {"idle", "admission", "pool"} => task'[d] = "none"
  BY CallsAre DEF IInv, CallType, TaskType, Live
<1>5. \A q \in Request : q \in permit' <=> call'[Root(q)] = "pool" \/ task'[Root(q)] \in Live
  BY CallsAre DEF IInv, CallType, TaskType, Live
<1> QED
  BY <1>1, <1>2, <1>3, <1>4, <1>5, GivesBack

LEMMA KeepsAdmissionTimeout ==
    ASSUME IInv, NEW r \in Request, AdmissionTimeout(r)
    PROVE  IInv'
<1> USE DEF AdmissionTimeout
<1>1. call' \in CallType /\ task' \in TaskType
  BY CallsAre DEF IInv, CallType, TaskType, Waiting, Final, Live
<1>2. /\ permit' \subseteq permit /\ leased' \subseteq leased
      /\ gen' = gen /\ pool' \in [Calls -> Nat]
      /\ \A d \in leased : pool'[d] = pool[d]
  BY DEF IInv
<1>3. \A d \in Calls : d \in leased' <=> task'[d] \in Live
  BY CallsAre DEF IInv, CallType, TaskType, Live
<1>4. \A d \in Calls : call'[d] \in {"idle", "admission", "pool"} => task'[d] = "none"
  BY CallsAre DEF IInv, CallType, TaskType, Live
<1>5. \A q \in Request : q \in permit' <=> call'[Root(q)] = "pool" \/ task'[Root(q)] \in Live
  BY CallsAre DEF IInv, CallType, TaskType, Live
<1> QED
  BY <1>1, <1>2, <1>3, <1>4, <1>5, GivesBack

LEMMA KeepsLeaseFails ==
    ASSUME IInv, NEW c \in Calls, LeaseFails(c)
    PROVE  IInv'
<1> USE DEF LeaseFails, Release
<1>1. call' \in CallType /\ task' \in TaskType
  BY CallsAre DEF IInv, CallType, TaskType, Waiting, Final, Live
<1>2. /\ permit' \subseteq permit /\ leased' \subseteq leased
      /\ gen' = gen /\ pool' \in [Calls -> Nat]
      /\ \A d \in leased : pool'[d] = pool[d]
  BY DEF IInv
<1>3. \A d \in Calls : d \in leased' <=> task'[d] \in Live
  BY CallsAre DEF IInv, CallType, TaskType, Live
<1>4. \A d \in Calls : call'[d] \in {"idle", "admission", "pool"} => task'[d] = "none"
  BY CallsAre DEF IInv, CallType, TaskType, Live
<1>5. \A q \in Request : q \in permit' <=> call'[Root(q)] = "pool" \/ task'[Root(q)] \in Live
  BY CallsAre DEF IInv, CallType, TaskType, Live
<1> QED
  BY <1>1, <1>2, <1>3, <1>4, <1>5, GivesBack

LEMMA KeepsPoolTimeout ==
    ASSUME IInv, NEW c \in Calls, PoolTimeout(c)
    PROVE  IInv'
<1> USE DEF PoolTimeout, Release
<1>1. call' \in CallType /\ task' \in TaskType
  BY CallsAre DEF IInv, CallType, TaskType, Waiting, Final, Live
<1>2. /\ permit' \subseteq permit /\ leased' \subseteq leased
      /\ gen' = gen /\ pool' \in [Calls -> Nat]
      /\ \A d \in leased : pool'[d] = pool[d]
  BY DEF IInv
<1>3. \A d \in Calls : d \in leased' <=> task'[d] \in Live
  BY CallsAre DEF IInv, CallType, TaskType, Live
<1>4. \A d \in Calls : call'[d] \in {"idle", "admission", "pool"} => task'[d] = "none"
  BY CallsAre DEF IInv, CallType, TaskType, Live
<1>5. \A q \in Request : q \in permit' <=> call'[Root(q)] = "pool" \/ task'[Root(q)] \in Live
  BY CallsAre DEF IInv, CallType, TaskType, Live
<1> QED
  BY <1>1, <1>2, <1>3, <1>4, <1>5, GivesBack

LEMMA KeepsStartTask ==
    ASSUME IInv, NEW c \in Calls, StartTask(c)
    PROVE  IInv'
<1> USE DEF StartTask
<1>1. call' \in CallType /\ task' \in TaskType
  BY CallsAre DEF IInv, CallType, TaskType, Waiting, Final, Live
<1>2. /\ permit' \subseteq permit /\ leased' \subseteq leased
      /\ gen' = gen /\ pool' \in [Calls -> Nat]
      /\ \A d \in leased : pool'[d] = pool[d]
  BY DEF IInv
<1>3. \A d \in Calls : d \in leased' <=> task'[d] \in Live
  BY CallsAre DEF IInv, CallType, TaskType, Live
<1>4. \A d \in Calls : call'[d] \in {"idle", "admission", "pool"} => task'[d] = "none"
  BY CallsAre DEF IInv, CallType, TaskType, Live
<1>5. \A q \in Request : q \in permit' <=> call'[Root(q)] = "pool" \/ task'[Root(q)] \in Live
  BY CallsAre DEF IInv, CallType, TaskType, Live
<1> QED
  BY <1>1, <1>2, <1>3, <1>4, <1>5, GivesBack

LEMMA KeepsEndTask ==
    ASSUME IInv, NEW c \in Calls, task[c] \in Live, NEW how \in {"ok", "failed"}, EndTask(c, how)
    PROVE  IInv'
<1> USE DEF EndTask, Release
<1>1. call' \in CallType /\ task' \in TaskType
  BY CallsAre DEF IInv, CallType, TaskType, Waiting, Final, Live
<1>2. /\ permit' \subseteq permit /\ leased' \subseteq leased
      /\ gen' = gen /\ pool' \in [Calls -> Nat]
      /\ \A d \in leased : pool'[d] = pool[d]
  BY DEF IInv
<1>3. \A d \in Calls : d \in leased' <=> task'[d] \in Live
  BY CallsAre DEF IInv, CallType, TaskType, Live
<1>4. \A d \in Calls : call'[d] \in {"idle", "admission", "pool"} => task'[d] = "none"
  BY CallsAre DEF IInv, CallType, TaskType, Live
<1>5. \A q \in Request : q \in permit' <=> call'[Root(q)] = "pool" \/ task'[Root(q)] \in Live
  BY CallsAre DEF IInv, CallType, TaskType, Live
<1> QED
  BY <1>1, <1>2, <1>3, <1>4, <1>5, GivesBack

LEMMA KeepsReturn ==
    ASSUME IInv, NEW c \in Calls, Return(c)
    PROVE  IInv'
<1> USE DEF Return
<1>1. call' \in CallType /\ task' \in TaskType
  BY CallsAre DEF IInv, CallType, TaskType, Waiting, Final, Live
<1>2. /\ permit' \subseteq permit /\ leased' \subseteq leased
      /\ gen' = gen /\ pool' \in [Calls -> Nat]
      /\ \A d \in leased : pool'[d] = pool[d]
  BY DEF IInv
<1>3. \A d \in Calls : d \in leased' <=> task'[d] \in Live
  BY CallsAre DEF IInv, CallType, TaskType, Live
<1>4. \A d \in Calls : call'[d] \in {"idle", "admission", "pool"} => task'[d] = "none"
  BY CallsAre DEF IInv, CallType, TaskType, Live
<1>5. \A q \in Request : q \in permit' <=> call'[Root(q)] = "pool" \/ task'[Root(q)] \in Live
  BY CallsAre DEF IInv, CallType, TaskType, Live
<1> QED
  BY <1>1, <1>2, <1>3, <1>4, <1>5, GivesBack

LEMMA KeepsRunTimeout ==
    ASSUME IInv, NEW c \in Calls, RunTimeout(c)
    PROVE  IInv'
<1> USE DEF RunTimeout
<1>1. call' \in CallType /\ task' \in TaskType
  BY CallsAre DEF IInv, CallType, TaskType, Waiting, Final, Live
<1>2. /\ permit' \subseteq permit /\ leased' \subseteq leased
      /\ gen' = gen /\ pool' \in [Calls -> Nat]
      /\ \A d \in leased : pool'[d] = pool[d]
  BY DEF IInv
<1>3. \A d \in Calls : d \in leased' <=> task'[d] \in Live
  BY CallsAre DEF IInv, CallType, TaskType, Live
<1>4. \A d \in Calls : call'[d] \in {"idle", "admission", "pool"} => task'[d] = "none"
  BY CallsAre DEF IInv, CallType, TaskType, Live
<1>5. \A q \in Request : q \in permit' <=> call'[Root(q)] = "pool" \/ task'[Root(q)] \in Live
  BY CallsAre DEF IInv, CallType, TaskType, Live
<1> QED
  BY <1>1, <1>2, <1>3, <1>4, <1>5, GivesBack

LEMMA KeepsCallLeg ==
    ASSUME IInv, NEW c \in Calls, c[2] > 1, CallLeg(c)
    PROVE  IInv'
<1> USE DEF CallLeg, Ready, TakesPool
<1>1. call' \in CallType /\ task' \in TaskType
  BY CallsAre DEF IInv, CallType, TaskType, Waiting, Final, Live
<1>2. /\ permit' \subseteq permit /\ leased' \subseteq leased
      /\ gen' = gen /\ pool' \in [Calls -> Nat]
      /\ \A d \in leased : pool'[d] = pool[d]
  <2>1. gen[ModelOf(c)] \in Nat /\ c \notin leased
    BY CallsAre DEF IInv, Live
  <2> QED
    BY <2>1 DEF IInv
<1>3. \A d \in Calls : d \in leased' <=> task'[d] \in Live
  BY CallsAre DEF IInv, CallType, TaskType, Live
<1>4. \A d \in Calls : call'[d] \in {"idle", "admission", "pool"} => task'[d] = "none"
  BY CallsAre DEF IInv, CallType, TaskType, Live
<1>5. \A q \in Request : q \in permit' <=> call'[Root(q)] = "pool" \/ task'[Root(q)] \in Live
  BY CallsAre DEF IInv, CallType, TaskType, Live
<1> QED
  BY <1>1, <1>2, <1>3, <1>4, <1>5, GivesBack

LEMMA KeepsCancel ==
    ASSUME IInv, NEW r \in Request, Cancel(r)
    PROVE  IInv'
<1> USE DEF Cancel
<1>1. call' \in CallType /\ task' \in TaskType
  BY CallsAre DEF IInv, CallType, TaskType, Waiting, Final, Live
<1>2. /\ permit' \subseteq permit /\ leased' \subseteq leased
      /\ gen' = gen /\ pool' \in [Calls -> Nat]
      /\ \A d \in leased : pool'[d] = pool[d]
  BY DEF IInv
<1>3. \A d \in Calls : d \in leased' <=> task'[d] \in Live
  BY CallsAre DEF IInv, CallType, TaskType, Live
<1>4. \A d \in Calls : call'[d] \in {"idle", "admission", "pool"} => task'[d] = "none"
  BY CallsAre DEF IInv, CallType, TaskType, Live, Waiting
<1>5. \A q \in Request : q \in permit' <=> call'[Root(q)] = "pool" \/ task'[Root(q)] \in Live
  BY CallsAre DEF IInv, CallType, TaskType, Live, Waiting
<1> QED
  BY <1>1, <1>2, <1>3, <1>4, <1>5, GivesBack

(* The two actions that take capacity: the semaphore and the pool have     *)
(* room when they do.                                                      *)
LEMMA KeepsAdmit ==
    ASSUME IInv, NEW r \in Request, Admit(r)
    PROVE  IInv'
<1> USE DEF Admit
<1>1. permit' \subseteq Request /\ IsFiniteSet(permit') /\ Cardinality(permit') <= Limit
  <2>1. IsFiniteSet(permit \union {r}) /\ Cardinality(permit \union {r}) <= Limit
    <3>1. IsFiniteSet(permit) /\ Cardinality(permit) < Limit /\ Limit \in Nat
      BY AdmissionAssumption DEF IInv
    <3> QED
      BY <3>1, OneMore, ZenonT(60), SMTT(20)
  <2> QED
    BY <2>1 DEF IInv
<1>2. call' \in CallType /\ task' = task /\ leased' = leased
  BY CallsAre DEF IInv, CallType, Waiting, Final
<1>3. \A d \in Calls : call'[d] \in {"idle", "admission", "pool"} => task'[d] = "none"
  BY CallsAre DEF IInv, CallType
<1>4. \A q \in Request : q \in permit' <=> call'[Root(q)] = "pool" \/ task'[Root(q)] \in Live
  BY CallsAre DEF IInv, CallType, Live
<1>5. /\ gen' = gen /\ gen \in [Model -> Nat] /\ pool' \in [Calls -> Nat]
      /\ \A d \in leased : pool'[d] = pool[d]
  <2>1. gen[ModelOf(Root(r))] \in Nat /\ Root(r) \notin leased
    BY CallsAre DEF IInv, Live
  <2> QED
    BY <2>1, CallsAre DEF IInv, TakesPool
<1>6. ASSUME NEW m \in Model, NEW g \in Nat
      PROVE  Cardinality(LeasedOf(m, g)') <= PoolSize[m]
  <2>1. LeasedOf(m, g)' = LeasedOf(m, g)
    BY <1>2, <1>5 DEF LeasedOf, ModelOf
  <2> QED
    BY <2>1 DEF IInv
<1>7. /\ task' \in TaskType
      /\ leased' \subseteq Calls /\ IsFiniteSet(leased')
      /\ \A d \in Calls : d \in leased' <=> task'[d] \in Live
  BY <1>2 DEF IInv
<1> HIDE DEF Admit
<1> QED
  BY <1>1, <1>2, <1>3, <1>4, <1>5, <1>6, <1>7 DEF IInv

LEMMA KeepsLease ==
    ASSUME IInv, NEW c \in Calls, Lease(c)
    PROVE  IInv'
<1> USE DEF Lease
<1>1. call' \in CallType /\ task' \in TaskType /\ permit' = permit
  BY CallsAre DEF IInv, CallType, TaskType, Waiting, Final, Live
<1>2. leased' \subseteq Calls /\ IsFiniteSet(leased')
  BY FS_AddElement DEF IInv
<1>3. ASSUME NEW m \in Model, NEW g \in Nat
      PROVE  Cardinality(LeasedOf(m, g)') <= PoolSize[m]
  <2>1. IsFiniteSet(LeasedOf(m, g))
    <3>1. LeasedOf(m, g) \in SUBSET leased
      BY DEF LeasedOf
    <3> QED
      BY <3>1, FS_Subset DEF IInv
  <2>2. PoolSize[m] \in Nat /\ Cardinality(LeasedOf(m, g)) <= PoolSize[m]
    BY AdmissionAssumption DEF IInv
  <2>3. CASE ModelOf(c) = m /\ pool[c] = g
    <3>1. LeasedOf(m, g)' = LeasedOf(m, g) \union {c}
      BY <2>3 DEF LeasedOf, ModelOf
    <3>2. Cardinality(LeasedOf(m, g)) < PoolSize[m]
      BY <2>3 DEF LeasedOf
    <3> QED
      BY <2>1, <2>2, <3>1, <3>2, OneMore, ZenonT(60), SMTT(20)
  <2>4. CASE ~(ModelOf(c) = m /\ pool[c] = g)
    <3>1. LeasedOf(m, g)' = LeasedOf(m, g)
      BY <2>4 DEF LeasedOf, ModelOf
    <3> QED
      BY <2>2, <3>1
  <2> QED
    BY <2>3, <2>4
<1>4. \A d \in Calls : d \in leased' <=> task'[d] \in Live
  BY DEF IInv, TaskType, Live
<1>5. \A d \in Calls : call'[d] \in {"idle", "admission", "pool"} => task'[d] = "none"
  BY DEF IInv, CallType, TaskType
<1>6. \A q \in Request : q \in permit' <=> call'[Root(q)] = "pool" \/ task'[Root(q)] \in Live
  BY CallsAre DEF IInv, CallType, TaskType, Live
<1> QED
  BY <1>1, <1>2, <1>3, <1>4, <1>5, <1>6 DEF IInv

LEMMA KeepsRest ==
    ASSUME IInv, UNCHANGED <<call, task, permit, leased, pool>>, gen' \in [Model -> Nat]
    PROVE  IInv'
<1>1. \A m \in Model, g \in Nat : LeasedOf(m, g)' = LeasedOf(m, g)
  BY DEF LeasedOf, ModelOf
<1> QED
  BY <1>1 DEF IInv

LEMMA StepKeeps == IInv /\ [Next]_vars => IInv'
<1> SUFFICES ASSUME IInv, [Next]_vars
             PROVE  IInv'
  OBVIOUS
<1>1. CASE \E r \in Request : Submit(r) \/ Expire(r) \/ Cancel(r) \/ BridgeFails(r)
  <2>1. ASSUME NEW r \in Request, BridgeFails(r)
        PROVE  IInv'
    BY <2>1, CallsAre, KeepsEndTask DEF BridgeFails, Live
  <2>2. ASSUME NEW r \in Request, Expire(r)
        PROVE  IInv'
    <3>1. UNCHANGED <<call, task, permit, leased, pool>> /\ gen' \in [Model -> Nat]
      BY <2>2 DEF Expire, IInv
    <3> QED
      BY <3>1, KeepsRest
  <2> QED
    BY <1>1, <2>1, <2>2, KeepsSubmit, KeepsCancel
<1>2. CASE \E c \in Calls : LeaseFails(c) \/ Execute(c)
  <2>1. ASSUME NEW c \in Calls, Execute(c)
        PROVE  IInv'
    BY <2>1, KeepsEndTask DEF Execute, Live
  <2> QED
    BY <1>2, <2>1, KeepsLeaseFails
<1>3. CASE \E m \in Model : Unload(m) \/ Load(m)
  <2>1. UNCHANGED <<call, task, permit, leased, pool>> /\ gen' \in [Model -> Nat]
    BY <1>3 DEF Unload, Load, IInv
  <2> QED
    BY <2>1, KeepsRest
<1>4. CASE \E c \in Calls : TimesOut(c)
  BY <1>4, CallsAre, KeepsAdmissionTimeout, KeepsPoolTimeout, KeepsRunTimeout DEF TimesOut
<1>5. CASE Work
  <2>1. ASSUME NEW r \in Request, BridgeEnds(r)
        PROVE  IInv'
    BY <2>1, CallsAre, KeepsEndTask DEF BridgeEnds, Live
  <2>2. ASSUME NEW r \in Request, NEW c \in Legs(r), CallLeg(c)
        PROVE  IInv'
    <3>1. c \in Calls
      BY CallsAre
    <3>2. c[2] > 1
      BY DEF Legs
    <3> QED
      BY <2>2, <3>1, <3>2, KeepsCallLeg
  <2> QED
    BY <1>5, <2>1, <2>2, KeepsAdmit, KeepsLease, KeepsStartTask, KeepsReturn DEF Work
<1>6. CASE UNCHANGED vars
  <2>1. UNCHANGED <<call, task, permit, leased, pool>> /\ gen' \in [Model -> Nat]
    BY <1>6 DEF vars, IInv
  <2> QED
    BY <2>1, KeepsRest
<1> QED
  BY <1>1, <1>2, <1>3, <1>4, <1>5, <1>6 DEF Next

LEMMA InitKeeps == Init => IInv
<1> SUFFICES ASSUME Init
             PROVE  IInv
  OBVIOUS
<1> USE DEF Init
<1>1. IsFiniteSet({}) /\ Cardinality({}) = 0
  BY FS_EmptySet
<1>2. \A m \in Model, g \in Nat : LeasedOf(m, g) = {}
  BY DEF LeasedOf
<1>3. call \in CallType /\ task \in TaskType
  BY DEF CallType, TaskType
<1>4. permit \subseteq Request /\ IsFiniteSet(permit) /\ Cardinality(permit) <= Limit
  BY <1>1, AdmissionAssumption
<1>5. \A m \in Model, g \in Nat : Cardinality(LeasedOf(m, g)) <= PoolSize[m]
  <2>1. \A m \in Model : PoolSize[m] \in Nat
    BY AdmissionAssumption
  <2> HIDE DEF Init
  <2> QED
    BY <1>1, <1>2, <2>1
<1>6. leased \subseteq Calls /\ IsFiniteSet(leased)
  BY <1>1
<1>7. \A c \in Calls : (c \in leased <=> task[c] \in Live) /\ task[c] = "none"
  BY DEF Live
<1>8. \A r \in Request : r \in permit <=> call[Root(r)] = "pool" \/ task[Root(r)] \in Live
  BY CallsAre DEF Live
<1>9. gen \in [Model -> Nat] /\ pool \in [Calls -> Nat]
  OBVIOUS
<1> HIDE DEF Init
<1> QED
  BY <1>9, <1>3, <1>4, <1>5, <1>6, <1>7, <1>8 DEF IInv

LEMMA Invariance == Spec => []IInv
<1> QED
  BY InitKeeps, StepKeeps, PTL DEF Spec

(* At every admission limit, no more root requests have a closure on the   *)
(* blocking pool than the limit, whatever callers time out or cancel.      *)
THEOREM AdmissionHolds == Spec => []RootsWithinLimit
<1>1. IInv => RootsWithinLimit
  <2> SUFFICES ASSUME IInv
               PROVE  RootsWithinLimit
    OBVIOUS
  <2>1. {r \in Request : task[Root(r)] \in Live} \subseteq permit
    BY DEF IInv
  <2> QED
    BY <2>1, OneLess, AdmissionAssumption DEF IInv, RootsWithinLimit
<1> QED
  BY <1>1, Invariance, PTL

(* At every pool size, no instance of a model serves two closures, however *)
(* often the model is unloaded and loaded again with a new pool.           *)
THEOREM PoolHolds == Spec => []InstancesWithinPool
<1>1. IInv => InstancesWithinPool
  <2> SUFFICES ASSUME IInv, NEW m \in Model, NEW g \in 0..gen[m]
               PROVE  Cardinality({c \in Calls : task[c] \in Live /\ ModelOf(c) = m /\ pool[c] = g})
                        <= PoolSize[m]
    BY DEF InstancesWithinPool
  <2>1. {c \in Calls : task[c] \in Live /\ ModelOf(c) = m /\ pool[c] = g} = LeasedOf(m, g)
    BY DEF IInv, LeasedOf
  <2>2. g \in Nat
    BY DEF IInv
  <2> QED
    BY <2>1, <2>2 DEF IInv
<1> QED
  BY <1>1, Invariance, PTL

(* No path of a prediction leaks a permit or an instance.                  *)
THEOREM CapacityReturns == Spec => []NothingLeaks
<1>1. IInv => NothingLeaks
  BY DEF IInv, NothingLeaks
<1> QED
  BY <1>1, Invariance, PTL
=============================================================================
