-------------------------- MODULE EmbedQueueProofs --------------------------
(***************************************************************************)
(* Inv is an inductive invariant of EmbedQueue, for any number of keys,    *)
(* sessions and jobs: a lemma per action, then the theorems that follow.   *)
(***************************************************************************)
EXTENDS EmbedQueue, TLAPS

\* The provers that a leaf tries in turn when it names none.
USE SMTT(20), Z3T(20), SMTT(40), Z3T(40), ZenonT(20)

-----------------------------------------------------------------------------
(***************************************************************************)
(* What the statements on postvec.jobs preserve, for every queue.          *)
(***************************************************************************)

\* The keys no unclaimed job has.
Quiet(q, R) == \A j \in Unclaimed(q) : q[j].row \notin R

USE DEF JobState, InState, Pending, Stale, Unclaimed, InFlight

-----------------------------------------------------------------------------
\* Each statement, job by job.

\* An INSERT makes exactly one job for each key.
LEMMA NewJobsAt ==
    ASSUME NEW R, NEW Ids, NEW g \in NewJobs(R, Ids)
    PROVE  /\ DOMAIN g \subseteq Ids
           /\ \A i \in DOMAIN g : g[i] \in R
           /\ \A i, k \in DOMAIN g : g[i] = g[k] => i = k
           /\ \A r \in R : \E i \in DOMAIN g : g[i] = r
           /\ R = {} => DOMAIN g = {}
BY DEF NewJobs

\* An INSERT changes the new identities only.
LEMMA InsertedAt ==
    ASSUME NEW q, NEW g, NEW s, NEW j \in JobId
    PROVE  /\ j \in DOMAIN g => /\ Inserted(q, g, s)[j].st = s
                                /\ Inserted(q, g, s)[j].row = g[j]
                                /\ Inserted(q, g, s)[j].att = 0
           /\ j \notin DOMAIN g => Inserted(q, g, s)[j] = q[j]
BY DEF Inserted

\* A DELETE frees the identities of J only.
LEMMA DeletedAt ==
    ASSUME NEW q, NEW J, NEW j \in JobId
    PROVE  /\ j \in J => Deleted(q, J)[j] = NoJob
           /\ j \notin J => Deleted(q, J)[j] = q[j]
BY DEF Deleted

\* A claim keeps the key and counts the attempt.
LEMMA ClaimedAt ==
    ASSUME NEW q, NEW C, NEW j \in JobId
    PROVE  /\ j \in C => /\ Claimed(q, C)[j].st = "claimed"
                         /\ Claimed(q, C)[j].row = q[j].row
                         /\ Claimed(q, C)[j].att = q[j].att + 1
           /\ j \notin C => Claimed(q, C)[j] = q[j]
BY DEF Claimed

\* A release makes the survivors pending again and deletes the rest of U.
LEMMA UnclaimAt ==
    ASSUME NEW q \in [JobId -> Job], NEW U, NEW K \in SUBSET U, NEW j \in JobId
    PROVE  /\ j \in K => /\ Unclaim(q, U, K)[j].st = "pending"
                         /\ Unclaim(q, U, K)[j].row = q[j].row
                         /\ Unclaim(q, U, K)[j].att = q[j].att
           /\ j \in U \ K => Unclaim(q, U, K)[j] = NoJob
           /\ j \notin U => Unclaim(q, U, K)[j] = q[j]
BY DEF Unclaim, Job

\* A deferral makes the jobs of D pending again.
LEMMA DeferAt ==
    ASSUME NEW q, NEW D, NEW j \in JobId
    PROVE  /\ j \in D => /\ Defer(q, D, D)[j].st = "pending"
                         /\ Defer(q, D, D)[j].row = q[j].row
           /\ j \notin D => Defer(q, D, D)[j] = q[j]
BY DEF Defer

-----------------------------------------------------------------------------

\* Inserting jobs for keys without an unclaimed one keeps the queue well
\* formed: the trigger functions, backfills, set_format and retry_dead.
LEMMA InsertedInv ==
    ASSUME NEW q, QueueInv(q), NEW R \in SUBSET Row, Quiet(q, R),
           NEW Ids \in SUBSET JobId, NEW g \in NewJobs(R, Ids),
           NEW s \in {"open", "pending"}
    PROVE  QueueInv(Inserted(q, g, s))
<1> DEFINE p == Inserted(q, g, s)
<1>1. DOMAIN g \subseteq JobId /\ \A i \in DOMAIN g : g[i] \in R
  BY DEF NewJobs
<1>2. \A i, k \in DOMAIN g : g[i] = g[k] => i = k
  BY DEF NewJobs
<1>3. \A j \in JobId :
         /\ j \in DOMAIN g => p[j].st = s /\ p[j].row = g[j] /\ p[j].att = 0
         /\ j \notin DOMAIN g => p[j] = q[j]
  BY DEF Inserted
<1>4. p \in [JobId -> Job]
  BY <1>1 DEF Inserted, QueueInv, Job
<1> HIDE DEF p
<1>5. \A j \in JobId : p[j].st # "free" => p[j].row \in Row
  BY <1>1, <1>3 DEF QueueInv
<1>6. OneUnclaimed(p)
  BY <1>1, <1>2, <1>3 DEF QueueInv, OneUnclaimed, Quiet
<1>7. Bounded(p)
  BY <1>3, MaxRetriesAssumption DEF QueueInv, Bounded
<1> QED BY <1>4, <1>5, <1>6, <1>7 DEF QueueInv, p

\* DELETE keeps the queue well formed.
LEMMA DeletedInv ==
    ASSUME NEW q, QueueInv(q), NEW J
    PROVE  QueueInv(Deleted(q, J))
<1> DEFINE p == Deleted(q, J)
<1>1. \A j \in JobId : p[j] = IF j \in J THEN NoJob ELSE q[j]
  BY DEF Deleted
<1>2. p \in [JobId -> Job]
  BY DEF Deleted, QueueInv, Job, NoJob
<1>3. \A j \in JobId : p[j].st # "free" => p[j] = q[j]
  BY <1>1 DEF NoJob
<1> QED BY <1>2, <1>3 DEF QueueInv, OneUnclaimed, Bounded

\* Claiming pending jobs keeps the queue well formed.
LEMMA ClaimedInv ==
    ASSUME NEW q, QueueInv(q), NEW C \in SUBSET Pending(q)
    PROVE  QueueInv(Claimed(q, C))
<1> DEFINE p == Claimed(q, C)
<1>1. \A j \in JobId :
         /\ j \in C => p[j].st = "claimed" /\ p[j].row = q[j].row /\ p[j].att = q[j].att + 1
         /\ j \notin C => p[j] = q[j]
  BY DEF Claimed
<1>2. p \in [JobId -> Job]
  BY DEF Claimed, QueueInv, Job
<1>3. OneUnclaimed(p)
  BY <1>1 DEF QueueInv, OneUnclaimed
<1>4. Bounded(p)
  BY <1>1, MaxRetriesAssumption DEF QueueInv, Bounded, Job
<1> QED BY <1>1, <1>2, <1>3, <1>4 DEF QueueInv

\* Releasing claims that have attempts left keeps the queue well formed, as
\* no writer has an uncommitted job of their keys.
LEMMA UnclaimInv ==
    ASSUME NEW q, QueueInv(q), NEW U \in SUBSET InFlight(q), Exhausted(q, U) = {},
           ~WaitsForWriter(q, RowsOf(q, U)), NEW K \in Survivors(q, U)
    PROVE  QueueInv(Unclaim(q, U, K))
<1> DEFINE p == Unclaim(q, U, K)
<1>1. \A j \in JobId :
         /\ j \in K => p[j].st = "pending" /\ p[j].row = q[j].row /\ p[j].att = q[j].att
         /\ j \notin K => p[j] = q[j] \/ p[j] = NoJob
  BY DEF Unclaim, QueueInv, Job
<1>2. p \in [JobId -> Job]
  BY DEF Unclaim, QueueInv, Job, NoJob
<1>3. K \subseteq U
  BY DEF Survivors
<1>4. \A k \in K : q[k].row \notin PendingRows(q) /\ q[k].row \notin OpenRows(q)
  BY DEF Survivors, NotPending, WaitsForWriter, RowsOf
<1>5. \A k \in K, j \in Unclaimed(q) : q[k].row # q[j].row
  BY <1>4 DEF PendingRows, OpenRows, RowsOf
<1>6. \A i, k \in K : q[i].row = q[k].row => i = k
  BY DEF Survivors
<1>7. OneUnclaimed(p)
  BY <1>1, <1>5, <1>6 DEF QueueInv, OneUnclaimed, NoJob
<1>8. \A k \in K : q[k].att <= MaxRetries
  BY <1>3, MaxRetriesAssumption DEF Exhausted, QueueInv, Job
<1>9. Bounded(p)
  BY <1>1, <1>8 DEF QueueInv, Bounded, NoJob
<1> QED BY <1>1, <1>2, <1>3, <1>7, <1>9 DEF QueueInv, NoJob

\* Deferring claims keeps the queue well formed.
LEMMA DeferInv ==
    ASSUME NEW q, QueueInv(q), NEW D \in SUBSET InFlight(q),
           Quiet(q, RowsOf(q, D)),
           \A i, k \in D : q[i].row = q[k].row => i = k
    PROVE  QueueInv(Defer(q, D, D))
<1> DEFINE p == Defer(q, D, D)
<1>1. \A j \in JobId :
         /\ j \in D => /\ p[j].st = "pending" /\ p[j].row = q[j].row
                       /\ p[j].att = IF q[j].att > 0 THEN q[j].att - 1 ELSE 0
         /\ j \notin D => p[j] = q[j]
  BY DEF Defer, QueueInv, Job
<1>2. p \in [JobId -> Job]
  BY DEF Defer, QueueInv, Job
<1>3. \A k \in D, j \in Unclaimed(q) : q[k].row # q[j].row
  BY DEF Quiet, RowsOf
<1>4. OneUnclaimed(p)
  BY <1>1, <1>3 DEF QueueInv, OneUnclaimed
<1>5. Bounded(p)
  BY <1>1, MaxRetriesAssumption DEF QueueInv, Bounded, Job
<1> QED BY <1>1, <1>2, <1>4, <1>5 DEF QueueInv

(***************************************************************************)
(* Deleting claimed jobs X and releasing claims U, of which K survive, in  *)
(* one transaction: when it may be done, and the queue z it leaves.        *)
(***************************************************************************)
Releasable(q, X, U, K) ==
    /\ QueueInv(q) /\ X \intersect Unclaimed(q) = {}
    /\ U \subseteq InFlight(q) /\ X \intersect U = {} /\ Exhausted(q, U) = {}
    /\ ~WaitsForWriter(q, RowsOf(q, U)) /\ K \in Survivors(q, U)

Released(q, X, U, K, z) ==
    /\ QueueInv(z)
    /\ K \subseteq U
    /\ \A j \in JobId :
          /\ j \in K => z[j].st = "pending" /\ z[j].row = q[j].row
          /\ j \in (X \union U) \ K => z[j] = NoJob
          /\ j \notin X \union U => z[j] = q[j]

\* What such a transaction leaves.
LEMMA ReleasedInv ==
    ASSUME NEW q, NEW X, NEW U, NEW K, Releasable(q, X, U, K)
    PROVE  Released(q, X, U, K, Unclaim(Deleted(q, X), U, K))
<1>0. /\ QueueInv(q) /\ X \intersect Unclaimed(q) = {}
      /\ U \subseteq InFlight(q) /\ X \intersect U = {} /\ Exhausted(q, U) = {}
      /\ ~WaitsForWriter(q, RowsOf(q, U)) /\ K \in Survivors(q, U)
  BY DEF Releasable
<1> DEFINE p == Deleted(q, X)
<1>1. QueueInv(p)
  BY <1>0, DeletedInv
<1>2. \A j \in JobId : /\ j \in X => p[j] = NoJob
                       /\ j \notin X => p[j] = q[j]
  BY DeletedAt
<1> HIDE DEF p
<1>3. Unclaimed(p) = Unclaimed(q)
  BY <1>0, <1>2 DEF NoJob
<1>4. U \subseteq InFlight(p) /\ \A j \in U : p[j] = q[j]
  BY <1>0, <1>2
<1>5. Pending(p) = Pending(q) /\ \A j \in Pending(q) : p[j] = q[j]
  BY <1>0, <1>2 DEF NoJob
<1>6. InState(p, {"open"}) = InState(q, {"open"}) /\ \A j \in InState(q, {"open"}) : p[j] = q[j]
  BY <1>0, <1>2 DEF NoJob
<1>7. PendingRows(p) = PendingRows(q) /\ OpenRows(p) = OpenRows(q) /\ RowsOf(p, U) = RowsOf(q, U)
  BY <1>4, <1>5, <1>6 DEF PendingRows, OpenRows, RowsOf
<1>8. K \subseteq U
  BY <1>0 DEF Survivors
<1>9. RowsOf(p, K) = RowsOf(q, K)
  BY <1>4, <1>8 DEF RowsOf
<1>10. K \in Survivors(p, U)
  BY <1>0, <1>4, <1>7, <1>8, <1>9 DEF Survivors, NotPending
<1>11. Exhausted(p, U) = {} /\ ~WaitsForWriter(p, RowsOf(p, U))
  BY <1>0, <1>4, <1>7 DEF Exhausted, WaitsForWriter
<1>12. QueueInv(Unclaim(p, U, K))
  BY <1>1, <1>4, <1>10, <1>11, UnclaimInv
<1>13. p \in [JobId -> Job]
  BY <1>1 DEF QueueInv
<1>14. \A j \in JobId :
         /\ j \in K => Unclaim(p, U, K)[j].st = "pending" /\ Unclaim(p, U, K)[j].row = p[j].row
         /\ j \in U \ K => Unclaim(p, U, K)[j] = NoJob
         /\ j \notin U => Unclaim(p, U, K)[j] = p[j]
  BY <1>8, <1>13, UnclaimAt
<1>15. \A j \in JobId :
         /\ j \in K => Unclaim(p, U, K)[j].st = "pending" /\ Unclaim(p, U, K)[j].row = q[j].row
         /\ j \in (X \union U) \ K => Unclaim(p, U, K)[j] = NoJob
         /\ j \notin X \union U => Unclaim(p, U, K)[j] = q[j]
  BY <1>2, <1>4, <1>8, <1>14
<1> QED BY <1>8, <1>12, <1>15 DEF p, Released

HIDE DEF JobState, InState, Pending, Stale, Unclaimed, InFlight

-----------------------------------------------------------------------------
(***************************************************************************)
(* Facts about states.                                                     *)
(***************************************************************************)

\* A key that no open transaction touches has no uncommitted job.
LEMMA OpenTouched ==
    ASSUME Inv, NEW r \in Row, Unlocked(r), NEW j \in JobId, job[j].st = "open"
    PROVE  job[j].row # r
<1>1. PICK s \in Session : tx[s].op # "none" /\ Target(s) = job[j].row
  BY DEF Inv, OpenInv
<1>2. Target(s) \in Touched(s)
  BY <1>1, NoRowAssumption DEF Inv, TxInv, Target, Touched
<1> QED BY <1>1, <1>2 DEF Unlocked

\* Without open transactions there is no uncommitted job.
LEMMA NoOpenJobs ==
    ASSUME Inv, NoOpenTx, NEW j \in JobId
    PROVE  job[j].st # "open"
BY DEF Inv, OpenInv, NoOpenTx

\* The parts of Inv that do not mention the queue hold as long as the worker
\* and the registry do not change.
LEMMA WorkerFrame ==
    ASSUME Inv, UNCHANGED <<reg, wk, item>>
    PROVE  WorkerInv'
BY DEF Inv, WorkerInv, Items, EntryLive

\* The worker becomes idle.
LEMMA IdleFrame ==
    ASSUME Inv, wk' = Idle, Items' = {}, reg'.id = reg.id
    PROVE  WorkerInv'
<1>1. wk'.phase = "idle" /\ wk'.txn = {} /\ wk'.seen = FALSE /\ wk'.reg = 0
  BY DEF Idle
<1>2. 0 <= reg.id
  BY DEF Inv, TypeOK, Registry
<1> QED BY <1>1, <1>2 DEF WorkerInv

\* The transactions do not change.
LEMMA TxFrame ==
    ASSUME Inv, UNCHANGED tx
    PROVE  TxInv'
BY DEF Inv, TxInv, Touched

-----------------------------------------------------------------------------
(***************************************************************************)
(* User transactions.                                                      *)
(***************************************************************************)

\* A statement that locks its keys and enqueues its target keeps Inv.
LEMMA StatementInv ==
    ASSUME Inv, NEW s \in Session, NEW rec \in Tx,
           rec.op # "none", rec.row \in Row, Unlocked(rec.row),
           rec.op = "rekey" => rec.dst \in Row /\ rec.dst # rec.row /\ Unlocked(rec.dst),
           rec.op # "rekey" => rec.dst = NoRow,
           NEW R \in SUBSET {IF rec.op = "rekey" THEN rec.dst ELSE rec.row},
           Statement(s, rec, R)
    PROVE  Inv'
<1> DEFINE N == IF reg.state = "disabled" THEN {} ELSE NotPending(job, R)
<1>1. PICK g \in NewJobs(N, FreeIds) : job' = Inserted(job, g, "open")
  BY DEF Statement, Enqueue
<1>2. /\ DOMAIN g \subseteq FreeIds
      /\ \A i \in DOMAIN g : g[i] \in N
      /\ N = {} => DOMAIN g = {}
  BY NewJobsAt
<1>3. N \subseteq R /\ N \subseteq Row
  BY DEF NotPending
<1>4. FreeIds \subseteq JobId
  BY DEF FreeIds
<1>5. \A j \in JobId :
         /\ j \in DOMAIN g => job'[j].st = "open" /\ job'[j].row = g[j]
         /\ j \notin DOMAIN g => job'[j] = job[j]
  BY <1>1, InsertedAt
<1>6. Quiet(job, N)
  <2> SUFFICES ASSUME NEW j \in Unclaimed(job), job[j].row \in N PROVE FALSE
    BY DEF Quiet
  <2>1. job[j].row \in Row /\ Unlocked(job[j].row)
    BY <1>3
  <2>2. job[j].st # "open"
    BY <2>1, OpenTouched DEF Unclaimed, InState
  <2>3. job[j].row \in PendingRows(job)
    BY <2>2 DEF Unclaimed, Pending, InState, PendingRows, RowsOf
  <2> QED BY <2>3 DEF NotPending
<1>7. QueueInv(job')
  BY <1>1, <1>3, <1>4, <1>6, InsertedInv DEF Inv
<1>8. tx' = [tx EXCEPT ![s] = rec] /\ tx[s].op = "none"
  BY DEF Statement
<1>9. tx \in [Session -> Tx] /\ tx' \in [Session -> Tx]
  BY <1>8 DEF Inv, TypeOK
<1>10. TypeOK'
  BY <1>7, <1>9, BoundsAssumption DEF Inv, TypeOK, QueueInv, Statement, Version
<1>11. TxInv'
  BY <1>8, <1>9 DEF Inv, TxInv, Touched, Unlocked
<1>12. OpenInv'
  <2> SUFFICES ASSUME NEW j \in JobId, job'[j].st = "open"
               PROVE  \E u \in Session : tx'[u].op # "none" /\ Target(u)' = job'[j].row
    BY DEF OpenInv
  <2>1. CASE j \in DOMAIN g
    BY <2>1, <1>2, <1>3, <1>5, <1>8, <1>9 DEF Target
  <2>2. CASE j \notin DOMAIN g
    <3>1. PICK u \in Session : tx[u].op # "none" /\ Target(u) = job[j].row
      BY <2>2, <1>5 DEF Inv, OpenInv
    <3> QED BY <3>1, <2>2, <1>5, <1>8, <1>9 DEF Target
  <2> QED BY <2>1, <2>2
<1>13. WorkerInv'
  BY WorkerFrame DEF Statement
<1>14. BatchInv'
  BY <1>2, <1>5 DEF Inv, BatchInv, Items, EntryLive, InFlight, InState, FreeIds, Statement
<1>15. DisabledInv'
  BY <1>2, <1>5 DEF Inv, DisabledInv, Statement
<1> QED BY <1>7, <1>10, <1>11, <1>12, <1>13, <1>14, <1>15 DEF Inv

\* The four statements keep Inv.
LEMMA DmlInv ==
    ASSUME Inv, NEW s \in Session, NEW r \in Row, NEW d \in Row, NEW k \in Kind,
           Insert(s, r, k) \/ Update(s, r, k) \/ Delete(s, r) \/ Rekey(s, r, d)
    PROVE  Inv'
<1>1. clock \in Version /\ kind[r] \in Kind /\ 0 \in Version
  BY BoundsAssumption DEF Inv, TypeOK, Version
<1>2. CASE Insert(s, r, k)
  <2> DEFINE rec == [op |-> "insert", row |-> r, dst |-> NoRow, kind |-> k, ver |-> clock + 1]
  <2>1. clock + 1 \in Version
    BY <1>1, <1>2, BoundsAssumption DEF Insert, Statement, Version
  <2>2. rec \in Tx
    BY <2>1 DEF Tx, TxOp
  <2> QED BY <1>2, <2>2, StatementInv DEF Insert
<1>3. CASE Update(s, r, k)
  <2> DEFINE rec == [op |-> "update", row |-> r, dst |-> NoRow, kind |-> k, ver |-> clock + 1]
  <2>1. clock + 1 \in Version
    BY <1>1, <1>3, BoundsAssumption DEF Update, Statement, Version
  <2>2. rec \in Tx
    BY <2>1 DEF Tx, TxOp
  <2> QED BY <1>3, <2>2, StatementInv DEF Update
<1>4. CASE Delete(s, r)
  <2> DEFINE rec == [op |-> "delete", row |-> r, dst |-> NoRow, kind |-> "absent", ver |-> 0]
  <2>1. rec \in Tx
    BY <1>1 DEF Tx, TxOp, Kind
  <2> QED BY <1>4, <2>1, StatementInv DEF Delete
<1>5. CASE Rekey(s, r, d)
  <2> DEFINE rec == [op |-> "rekey", row |-> r, dst |-> d, kind |-> kind[r], ver |-> clock + 1]
  <2>1. clock + 1 \in Version
    BY <1>1, <1>5, BoundsAssumption DEF Rekey, Statement, Version
  <2>2. rec \in Tx
    BY <1>1, <2>1 DEF Tx, TxOp
  <2>3. d # r
    BY <1>5 DEF Rekey
  <2> QED BY <1>5, <2>2, <2>3, StatementInv DEF Rekey
<1> QED BY <1>2, <1>3, <1>4, <1>5

\* The transaction of s is over and its uncommitted jobs have become pending
\* or are gone: no other transaction had a job of its target.
LEMMA EndTxInv ==
    ASSUME Inv, NEW s \in Session, tx[s].op # "none",
           tx' = [tx EXCEPT ![s] = NoTx],
           \A j \in JobId : job'[j].st = "open" => j \notin OwnJobs(s) /\ job'[j] = job[j]
    PROVE  TxInv' /\ OpenInv'
<1>1. tx \in [Session -> Tx] /\ NoTx \in Tx
  BY BoundsAssumption DEF Inv, TypeOK, NoTx, Tx, TxOp, Kind, Version
<1>2. \A u \in Session : IF u = s THEN tx'[u] = NoTx ELSE tx'[u] = tx[u]
  BY <1>1
<1>3. TxInv'
  BY <1>1, <1>2 DEF Inv, TxInv, Touched, NoTx
<1>4. OpenInv'
  <2> SUFFICES ASSUME NEW j \in JobId, job'[j].st = "open"
               PROVE  \E u \in Session : tx'[u].op # "none" /\ Target(u)' = job'[j].row
    BY DEF OpenInv
  <2>1. PICK u \in Session : tx[u].op # "none" /\ Target(u) = job[j].row
    BY DEF Inv, OpenInv
  <2>2. u # s
    BY <2>1 DEF OwnJobs, InState
  <2> QED BY <1>2, <2>1, <2>2 DEF Target
<1> QED BY <1>3, <1>4

\* COMMIT keeps Inv.
LEMMA CommitInv ==
    ASSUME Inv, NEW s \in Session, Commit(s)
    PROVE  Inv'
<1>1. job \in [JobId -> Job]
  BY DEF Inv, TypeOK
<1>2. \A j \in JobId :
         /\ j \in OwnJobs(s) => /\ job[j].st = "open" /\ job'[j].st = "pending"
                                /\ job'[j].row = job[j].row /\ job'[j].att = job[j].att
         /\ j \notin OwnJobs(s) => job'[j] = job[j]
  BY <1>1 DEF Commit, OwnJobs, InState, Job
<1>3. job' \in [JobId -> Job]
  BY <1>1 DEF Commit, Job, JobState
<1>4. QueueInv(job')
  BY <1>2, <1>3 DEF Inv, QueueInv, OneUnclaimed, Bounded, Unclaimed, InFlight, InState
<1>5. TypeOK'
  <2>1. tx[s] \in Tx /\ tx[s].op # "none"
    BY DEF Inv, TypeOK, Commit
  <2>2. tx[s].kind \in Kind /\ tx[s].ver \in Version /\ tx[s].row \in Row
    BY <2>1 DEF Tx, Inv, TxInv
  <2>3. NoVec \in Version /\ NoTx \in Tx /\ "absent" \in Kind
    BY BoundsAssumption DEF NoVec, Version, NoTx, Tx, TxOp, Kind
  <2>4. kind' \in [Row -> Kind]
    BY <2>2, <2>3 DEF Inv, TypeOK, Commit, CommitRows
  <2>5. ver' \in [Row -> Version]
    BY <2>2, <2>3 DEF Inv, TypeOK, Commit, CommitRows, NoVec
  <2>6. vec' \in [Row -> Version]
    BY <2>2, <2>3 DEF Inv, TypeOK, Commit, CommitRows
  <2>7. tx' \in [Session -> Tx]
    BY <2>3 DEF Inv, TypeOK, Commit
  <2> QED BY <1>3, <2>4, <2>5, <2>6, <2>7 DEF Inv, TypeOK, Commit
<1>6. TxInv' /\ OpenInv'
  BY <1>2, EndTxInv, ZenonT(60), SMTT(20) DEF Commit
<1>7. WorkerInv'
  BY WorkerFrame DEF Commit
<1>8. BatchInv'
  BY <1>2 DEF Inv, BatchInv, Items, EntryLive, InFlight, InState, Commit
<1>9. DisabledInv'
  BY <1>2 DEF Inv, DisabledInv, Commit
<1> QED BY <1>4, <1>5, <1>6, <1>7, <1>8, <1>9 DEF Inv

\* ROLLBACK keeps Inv.
LEMMA RollbackInv ==
    ASSUME Inv, NEW s \in Session, Rollback(s)
    PROVE  Inv'
<1>1. \A j \in JobId :
         /\ j \in OwnJobs(s) => job[j].st = "open" /\ job'[j] = NoJob
         /\ j \notin OwnJobs(s) => job'[j] = job[j]
  BY DeletedAt DEF Rollback, OwnJobs, InState
<1>2. QueueInv(job')
  BY DeletedInv DEF Inv, Rollback
<1>3. NoTx \in Tx
  BY BoundsAssumption DEF NoTx, Tx, TxOp, Kind, Version
<1>4. TypeOK'
  BY <1>2, <1>3 DEF Inv, TypeOK, QueueInv, Rollback
<1>5. TxInv' /\ OpenInv'
  <2>1. \A j \in JobId : job'[j].st = "open" => j \notin OwnJobs(s) /\ job'[j] = job[j]
    BY <1>1 DEF NoJob
  <2> QED BY <2>1, EndTxInv, ZenonT(60), SMTT(20) DEF Rollback
<1>6. WorkerInv'
  BY WorkerFrame DEF Rollback
<1>7. BatchInv'
  BY <1>1 DEF Inv, BatchInv, Items, EntryLive, InFlight, InState, Rollback
<1>8. DisabledInv'
  BY <1>1 DEF Inv, DisabledInv, Rollback
<1> QED BY <1>2, <1>4, <1>5, <1>6, <1>7, <1>8 DEF Inv

-----------------------------------------------------------------------------
(***************************************************************************)
(* Management calls.                                                       *)
(***************************************************************************)

\* TRUNCATE keeps Inv.
LEMMA TruncateInv ==
    ASSUME Inv, Truncate
    PROVE  Inv'
<1>1. job' = job \/ job' = Deleted(job, Pending(job))
  BY DEF Truncate
<1>2. \A j \in JobId :
         \/ job'[j] = job[j]
         \/ job[j].st = "pending" /\ job'[j].st = "free"
  BY <1>1, DeletedAt DEF Pending, InState, NoJob
<1>3. QueueInv(job')
  BY <1>1, DeletedInv DEF Inv
<1>4. TypeOK'
  BY <1>3, BoundsAssumption DEF Inv, TypeOK, QueueInv, Truncate, Version, NoVec, Kind
<1>5. TxInv' /\ WorkerInv'
  BY TxFrame, WorkerFrame DEF Truncate
<1>6. OpenInv'
  BY <1>2, NoOpenJobs DEF OpenInv, Truncate
<1>7. BatchInv'
  BY <1>2 DEF Inv, BatchInv, Items, EntryLive, InFlight, InState, Truncate
<1>8. DisabledInv'
  BY <1>2 DEF Inv, DisabledInv, Truncate
<1> QED BY <1>3, <1>4, <1>5, <1>6, <1>7, <1>8 DEF Inv

\* A queue without jobs is well formed.
LEMMA EmptyQueue == QueueInv([j \in JobId |-> NoJob])
BY MaxRetriesAssumption
   DEF QueueInv, OneUnclaimed, Bounded, Unclaimed, InFlight, InState, Job, JobState, NoJob

\* disable() keeps Inv.
LEMMA DisableInv ==
    ASSUME Inv, Disable
    PROVE  Inv'
<1>1. \A j \in JobId : job'[j].st = "free"
  BY DEF Disable, NoJob
<1>2. QueueInv(job')
  BY EmptyQueue DEF Disable
<1>3. reg \in Registry /\ reg' = [reg EXCEPT !.state = "disabled"]
  BY DEF Inv, TypeOK, Disable
<1>4. reg' \in Registry /\ reg'.id = reg.id /\ reg'.state = "disabled"
  BY <1>3 DEF Registry
<1>5. TypeOK'
  BY <1>2, <1>4 DEF Inv, TypeOK, QueueInv, Disable
<1>6. TxInv'
  BY TxFrame DEF Disable
<1>7. OpenInv' /\ BatchInv' /\ DisabledInv'
  BY <1>1, <1>4 DEF OpenInv, BatchInv, DisabledInv, Items, EntryLive
<1>8. WorkerInv'
  BY <1>4 DEF Inv, WorkerInv, Items, EntryLive, Disable
<1> QED BY <1>2, <1>5, <1>6, <1>7, <1>8 DEF Inv

\* DROP COLUMN keeps Inv.
LEMMA DropColumnInv ==
    ASSUME Inv, DropColumn
    PROVE  Inv'
<1>1. reg \in Registry /\ reg' = [reg EXCEPT !.col = FALSE]
  BY DEF Inv, TypeOK, DropColumn
<1>2. reg' \in Registry /\ reg'.id = reg.id /\ reg'.state = reg.state
  BY <1>1, ZenonT(60), SMTT(20) DEF Registry
<1>3. TypeOK'
  BY <1>2, BoundsAssumption DEF Inv, TypeOK, DropColumn, NoVec, Version
<1>4. WorkerInv'
  BY <1>2 DEF Inv, WorkerInv, Items, EntryLive, DropColumn
<1>5. TxInv' /\ OpenInv'
  BY TxFrame DEF Inv, OpenInv, Target, DropColumn
<1>6. BatchInv' /\ DisabledInv'
  BY <1>2 DEF Inv, BatchInv, DisabledInv, Items, EntryLive, InFlight, InState, DropColumn
<1>7. QueueInv(job')
  BY DEF Inv, DropColumn
<1> QED BY <1>3, <1>4, <1>5, <1>6, <1>7 DEF Inv

\* enable() keeps Inv.
LEMMA EnableInv ==
    ASSUME Inv, Enable
    PROVE  Inv'
<1> DEFINE R == {r \in Row : kind[r] \in {"text", "large"}}
           q == [j \in JobId |-> NoJob]
<1>1. PICK g \in NewJobs(R, JobId \ Items) : job' = Inserted(q, g, "pending")
  BY ZenonT(60), SMTT(20) DEF Enable
<1>2. DOMAIN g \subseteq JobId \ Items
  BY NewJobsAt
<1>3. Quiet(q, R)
  BY DEF Quiet, Unclaimed, InState, NoJob
<1>4. QueueInv(job')
  BY <1>1, <1>3, EmptyQueue, InsertedInv
<1>5. \A j \in JobId :
         /\ job'[j].st \in {"pending", "free"}
         /\ j \in Items => job'[j].st = "free"
  BY <1>1, <1>2, InsertedAt DEF NoJob
<1>6. reg' \in Registry /\ reg'.id > reg.id /\ reg'.state = "active"
  BY BoundsAssumption DEF Inv, TypeOK, Enable, Registry
<1>7. TypeOK'
  BY <1>4, <1>6 DEF Inv, TypeOK, QueueInv, Enable
<1>8. ~EntryLive'
  BY <1>6 DEF Inv, TypeOK, Registry, WorkerInv, EntryLive, Enable
<1>9. WorkerInv'
  BY <1>6, <1>8 DEF Inv, TypeOK, Registry, WorkerInv, Items, Enable
<1>10. TxInv'
  BY TxFrame DEF Enable
<1>11. OpenInv' /\ DisabledInv'
  BY <1>5, <1>6 DEF OpenInv, DisabledInv
<1>12. BatchInv'
  BY <1>5, <1>8 DEF BatchInv, Items, Enable
<1> QED BY <1>4, <1>7, <1>9, <1>10, <1>11, <1>12 DEF Inv

\* set_format() and retry_dead() insert pending jobs for keys that have no
\* unclaimed one.
LEMMA PendingInsertInv ==
    ASSUME Inv, NEW R \in SUBSET Row, NEW g \in NewJobs(NotPending(job, R), FreeIds),
           job' = Inserted(job, g, "pending"), reg.state = "active",
           \A j \in JobId : job[j].st = "open" => job[j].row \notin R,
           UNCHANGED <<tx, reg, wk, item>>
    PROVE  /\ QueueInv(job') /\ TxInv' /\ OpenInv' /\ WorkerInv' /\ BatchInv' /\ DisabledInv'
<1> DEFINE N == NotPending(job, R)
<1>1. DOMAIN g \subseteq FreeIds
  BY NewJobsAt
<1>2. Quiet(job, N)
  BY DEF Quiet, Unclaimed, Pending, InState, NotPending, PendingRows, RowsOf
<1>3. N \in SUBSET Row /\ FreeIds \in SUBSET JobId
  BY DEF NotPending, FreeIds
<1>4. QueueInv(job')
  BY <1>2, <1>3, InsertedInv DEF Inv
<1>5. \A j \in JobId :
         /\ j \in DOMAIN g => job'[j].st = "pending"
         /\ j \notin DOMAIN g => job'[j] = job[j]
  BY InsertedAt
<1>6. TxInv' /\ WorkerInv'
  BY TxFrame, WorkerFrame
<1>7. OpenInv'
  BY <1>5 DEF Inv, OpenInv, Target
<1>8. BatchInv'
  BY <1>1, <1>5 DEF Inv, BatchInv, Items, EntryLive, InFlight, InState, FreeIds
<1>9. DisabledInv'
  BY DEF DisabledInv
<1> QED BY <1>4, <1>6, <1>7, <1>8, <1>9

\* set_format() keeps Inv.
LEMMA SetFormatInv ==
    ASSUME Inv, SetFormat
    PROVE  Inv'
<1> DEFINE R == {r \in Row : kind[r] # "absent"}
<1>1. PICK g \in NewJobs(NotPending(job, R), FreeIds) : job' = Inserted(job, g, "pending")
  BY DEF SetFormat
<1>2. QueueInv(job') /\ TxInv' /\ OpenInv' /\ WorkerInv' /\ BatchInv' /\ DisabledInv'
  BY <1>1, NoOpenJobs, PendingInsertInv DEF SetFormat, Healthy
<1>3. TypeOK'
  BY <1>2, BoundsAssumption DEF Inv, TypeOK, QueueInv, SetFormat, Version
<1> QED BY <1>2, <1>3 DEF Inv

\* retry_dead() keeps Inv.
LEMMA RetryDeadInv ==
    ASSUME Inv, NEW R \in SUBSET Row, RetryDead(R)
    PROVE  Inv'
<1>1. PICK g \in NewJobs(NotPending(job, R), FreeIds) : job' = Inserted(job, g, "pending")
  BY DEF RetryDead
<1>2. \A j \in JobId : job[j].st = "open" => job[j].row \notin R
  BY DEF RetryDead, WaitsForWriter, OpenRows, RowsOf, InState
<1>3. QueueInv(job') /\ TxInv' /\ OpenInv' /\ WorkerInv' /\ BatchInv' /\ DisabledInv'
  BY <1>1, <1>2, PendingInsertInv DEF RetryDead, Healthy
<1>4. TypeOK'
  BY <1>3 DEF Inv, TypeOK, QueueInv, RetryDead
<1> QED BY <1>3, <1>4 DEF Inv

-----------------------------------------------------------------------------
(***************************************************************************)
(* The worker.                                                             *)
(***************************************************************************)

\* The visibility timeout keeps Inv.
LEMMA ExpireInv ==
    ASSUME Inv, NEW i \in JobId, Expire(i)
    PROVE  Inv'
<1>1. job \in [JobId -> Job] /\ job' = [job EXCEPT ![i].st = "stale"] /\ job[i].st = "claimed"
  BY DEF Inv, TypeOK, Expire
<1>2. job' \in [JobId -> Job]
  BY <1>1 DEF Job, JobState
<1>3. \A j \in JobId :
         /\ j = i => job'[j].st = "stale" /\ job'[j].row = job[j].row /\ job'[j].att = job[j].att
         /\ j # i => job'[j] = job[j]
  BY <1>1 DEF Job
<1>4. QueueInv(job')
  BY <1>1, <1>2, <1>3 DEF Inv, QueueInv, OneUnclaimed, Bounded, Unclaimed, InFlight, InState
<1>5. TypeOK'
  BY <1>2 DEF Inv, TypeOK, Expire
<1>6. TxInv' /\ WorkerInv'
  BY TxFrame, WorkerFrame DEF Expire
<1>7. OpenInv'
  BY <1>3 DEF Inv, OpenInv, Target, Expire
<1>8. BatchInv' /\ DisabledInv'
  BY <1>1, <1>3 DEF Inv, BatchInv, DisabledInv, Items, EntryLive, InFlight, InState, Expire
<1> QED BY <1>4, <1>5, <1>6, <1>7, <1>8 DEF Inv


\* reclaim_stale leaves a well-formed queue, and a stale job is pending in it
\* or gone.
LEMMA ReclaimedFacts ==
    ASSUME Inv, NEW K \in SUBSET JobId, NEW C \in SUBSET JobId, NEW D \in SUBSET JobId,
           Claim(K, C, D)
    PROVE  /\ QueueInv(Reclaimed(K))
           /\ K \subseteq Stale(job) \ Exhausted(job, Stale(job))
           /\ \A j \in JobId :
                 /\ j \in K => Reclaimed(K)[j].st = "pending" /\ Reclaimed(K)[j].row = job[j].row
                 /\ j \in Stale(job) \ K => Reclaimed(K)[j] = NoJob
                 /\ j \notin Stale(job) => Reclaimed(K)[j] = job[j]
<1> DEFINE spent == Exhausted(job, Stale(job))
           back == Stale(job) \ spent
<1>1. QueueInv(job)
  BY DEF Inv
<1>2. ~WaitsForWriter(job, RowsOf(job, back)) /\ K \in Survivors(job, back)
  BY DEF Claim
<1>3. spent \intersect Unclaimed(job) = {} /\ back \subseteq InFlight(job)
  BY DEF Exhausted, Stale, Unclaimed, InFlight, InState
<1>4. Exhausted(job, back) = {} /\ spent \intersect back = {}
  BY DEF Exhausted
<1>5. spent \union back = Stale(job)
  BY DEF Exhausted
<1>6. Reclaimed(K) = Unclaim(Deleted(job, spent), back, K)
  BY DEF Reclaimed
<1> HIDE DEF spent, back
<1>7. /\ QueueInv(Reclaimed(K))
      /\ K \subseteq back
      /\ \A j \in JobId :
            /\ j \in K => Reclaimed(K)[j].st = "pending" /\ Reclaimed(K)[j].row = job[j].row
            /\ j \in (spent \union back) \ K => Reclaimed(K)[j] = NoJob
            /\ j \notin spent \union back => Reclaimed(K)[j] = job[j]
  <2>1. Releasable(job, spent, back, K)
    BY <1>1, <1>2, <1>3, <1>4 DEF Releasable
  <2>2. Released(job, spent, back, K, Reclaimed(K))
    BY <1>6, <2>1, ReleasedInv
  <2> QED BY <2>2, ZenonT(60), SMTT(20) DEF Released
<1> QED BY <1>5, <1>7 DEF spent, back

\* What a claim does to the queue and the batch, job by job.
LEMMA ClaimFacts ==
    ASSUME Inv, NEW K \in SUBSET JobId, NEW C \in SUBSET JobId, NEW D \in SUBSET JobId,
           Claim(K, C, D)
    PROVE  LET q == Reclaimed(K)
               large == {j \in C : kind[q[j].row] = "large"}
               batch == C \ (large \union D)
           IN  /\ QueueInv(job')
               /\ C \subseteq Pending(q)
               /\ D \subseteq C \ large
               /\ \A j \in D : kind[q[j].row] = "text"
               /\ \A j \in JobId :
                     /\ j \in large => job'[j] = NoJob
                     /\ j \in D => job'[j].st = "pending" /\ job'[j].row = q[j].row
                     /\ j \in batch => job'[j].st = "claimed" /\ job'[j].row = q[j].row
                     /\ j \notin C => job'[j] = q[j]
                     /\ j \in batch => /\ item'[j].row = q[j].row
                                       /\ item'[j].ver = ver[q[j].row]
                                       /\ item'[j].out = IF kind[q[j].row] = "text"
                                                         THEN "read" ELSE "null"
                     /\ j \notin batch => item'[j] = NoItem
<1> DEFINE q == Reclaimed(K)
           large == {j \in C : kind[q[j].row] = "large"}
           batch == C \ (large \union D)
           q1 == Claimed(q, C)
           q2 == Deleted(q1, large)
<1>1. QueueInv(q)
  BY ReclaimedFacts
<1>2. C \subseteq Pending(q) /\ D \subseteq {j \in C : kind[q[j].row] = "text"}
  BY DEF Claim
<1>3. D \subseteq C \ large
  BY <1>2
<1>4. QueueInv(q1)
  BY <1>1, <1>2, ClaimedInv
<1>5. QueueInv(q2)
  BY <1>4, DeletedInv
<1>6. \A j \in JobId :
         /\ j \in C => q1[j].st = "claimed" /\ q1[j].row = q[j].row
         /\ j \notin C => q1[j] = q[j]
  BY ClaimedAt
<1>7. \A j \in JobId :
         /\ j \in large => q2[j] = NoJob
         /\ j \notin large => q2[j] = q1[j]
  BY DeletedAt, ZenonT(60), SMTT(20)
<1>8. /\ job' = Defer(q2, D, D)
      /\ item' = [j \in JobId |->
                   IF j \in batch
                   THEN [row |-> q[j].row, ver |-> ver[q[j].row],
                         out |-> IF kind[q[j].row] = "text" THEN "read" ELSE "null"]
                   ELSE NoItem]
  BY ZenonT(60), SMTT(20) DEF Claim, ReadBatch
<1> HIDE DEF q, q1, q2
<1>9. D \subseteq InFlight(q2) /\ \A j \in D : q2[j].row = q[j].row
  BY <1>3, <1>6, <1>7 DEF InFlight, InState
<1>10. \A i, k \in C : q[i].row = q[k].row => i = k
  BY <1>1, <1>2 DEF QueueInv, OneUnclaimed, Unclaimed, Pending, InState
<1>11. Quiet(q2, RowsOf(q2, D))
  <2> SUFFICES ASSUME NEW j \in Unclaimed(q2), NEW k \in D PROVE q2[j].row # q2[k].row
    BY DEF Quiet, RowsOf
  <2>1. j \in JobId /\ j \notin C /\ q2[j] = q[j]
    BY <1>6, <1>7 DEF Unclaimed, InState, NoJob
  <2>2. j \in Unclaimed(q) /\ k \in Unclaimed(q) /\ j # k
    BY <2>1, <1>2 DEF Unclaimed, Pending, InState
  <2>3. q[j].row # q[k].row
    BY <2>2, <1>1 DEF QueueInv, OneUnclaimed
  <2> QED BY <2>1, <2>3, <1>9
<1>12. QueueInv(job')
  BY <1>5, <1>8, <1>9, <1>10, <1>11, <1>3, DeferInv
<1>13. \A j \in JobId :
         /\ j \in D => job'[j].st = "pending" /\ job'[j].row = q2[j].row
         /\ j \notin D => job'[j] = q2[j]
  BY <1>8, DeferAt
<1>14. \A j \in JobId :
         /\ j \in large => job'[j] = NoJob
         /\ j \in D => job'[j].st = "pending" /\ job'[j].row = q[j].row
         /\ j \in batch => job'[j].st = "claimed" /\ job'[j].row = q[j].row
         /\ j \notin C => job'[j] = q[j]
  BY <1>3, <1>6, <1>7, <1>9, <1>13
<1>15. \A j \in JobId :
         /\ j \in batch => /\ item'[j].row = q[j].row
                           /\ item'[j].ver = ver[q[j].row]
                           /\ item'[j].out = IF kind[q[j].row] = "text" THEN "read" ELSE "null"
         /\ j \notin batch => item'[j] = NoItem
  BY <1>8
<1> QED BY <1>2, <1>3, <1>12, <1>14, <1>15 DEF q

\* Claiming and reading a batch keeps Inv.
LEMMA ClaimInv ==
    ASSUME Inv, NEW K \in SUBSET JobId, NEW C \in SUBSET JobId, NEW D \in SUBSET JobId,
           Claim(K, C, D)
    PROVE  Inv'
<1> DEFINE q == Reclaimed(K)
           large == {j \in C : kind[q[j].row] = "large"}
           batch == C \ (large \union D)
<1>1. /\ QueueInv(job')
      /\ C \subseteq Pending(q)
      /\ \A j \in JobId :
            /\ j \in large => job'[j] = NoJob
            /\ j \in D => job'[j].st = "pending" /\ job'[j].row = q[j].row
            /\ j \in batch => job'[j].st = "claimed" /\ job'[j].row = q[j].row
            /\ j \notin C => job'[j] = q[j]
            /\ j \in batch => /\ item'[j].row = q[j].row
                              /\ item'[j].ver = ver[q[j].row]
                              /\ item'[j].out = IF kind[q[j].row] = "text"
                                                THEN "read" ELSE "null"
            /\ j \notin batch => item'[j] = NoItem
  BY ClaimFacts
<1>2. \A j \in JobId :
         /\ j \in batch => /\ item'[j].row = q[j].row
                           /\ item'[j].ver = ver[q[j].row]
                           /\ item'[j].out = IF kind[q[j].row] = "text" THEN "read" ELSE "null"
         /\ j \notin batch => item'[j] = NoItem
  BY <1>1
<1>3. QueueInv(q)
  BY ReclaimedFacts
<1>4. \A j \in JobId : q[j].st = "open" => q[j] = job[j]
  <2>1. \A j \in JobId : /\ j \in K => q[j].st = "pending"
                         /\ j \in Stale(job) \ K => q[j] = NoJob
                         /\ j \notin Stale(job) => q[j] = job[j]
    BY ReclaimedFacts, ZenonT(60), SMTT(20)
  <2> HIDE DEF q
  <2> QED BY <2>1 DEF NoJob
<1>5. dead' = dead \union RowsOf(job, Exhausted(job, Stale(job))) \union RowsOf(q, large)
  BY ZenonT(60), SMTT(20) DEF Claim, ReadBatch
<1>6. wk' = IF batch = {} THEN Idle
            ELSE [phase |-> "embed", reg |-> reg.id, txn |-> {}, seen |-> FALSE]
  BY ZenonT(60), SMTT(20) DEF Claim, ReadBatch
<1>7. item' \in [JobId -> Item]
  <2>1. item' = [j \in JobId |->
                   IF j \in batch
                   THEN [row |-> q[j].row, ver |-> ver[q[j].row],
                         out |-> IF kind[q[j].row] = "text" THEN "read" ELSE "null"]
                   ELSE NoItem]
    BY ZenonT(60), SMTT(20) DEF Claim, ReadBatch
  <2>2. \A j \in batch : q[j].row \in Row /\ ver[q[j].row] \in Version
    BY <1>1, <1>3, ZenonT(60), SMTT(20) DEF QueueInv, Pending, InState, Inv, TypeOK
  <2>3. NoItem \in Item
    BY BoundsAssumption DEF NoItem, Item, Version, Outcome
  <2> QED BY <2>1, <2>2, <2>3, ZenonT(60), SMTT(20) DEF Item, Outcome
<1>8. UNCHANGED <<kind, ver, vec, clock, tx, reg>> /\ reg.state = "active" /\ reg \in Registry
  BY ZenonT(60), SMTT(20) DEF Claim, Healthy, Inv, TypeOK
<1> HIDE DEF q
<1>9. \A j \in batch : q[j].row \in Row /\ j \in JobId
  BY <1>1, <1>3, ZenonT(60), SMTT(20) DEF QueueInv, Pending, InState
<1>10. Items' = batch
  <2> HIDE DEF batch, large
  <2>1. \A j \in batch : item'[j].out # "none"
    BY <1>2, <1>9
  <2>2. \A j \in JobId \ batch : item'[j].out = "none"
    BY <1>2 DEF NoItem
  <2> QED BY <1>9, <2>1, <2>2 DEF Items
<1>11. TypeOK'
  <2>1. RowsOf(job, Exhausted(job, Stale(job))) \subseteq Row
    BY DEF RowsOf, Exhausted, Stale, InState, Inv, QueueInv
  <2>2. RowsOf(q, large) \subseteq Row
    BY <1>1, <1>3 DEF RowsOf, Pending, InState, QueueInv
  <2>3. dead' \in SUBSET Row
    BY <1>5, <2>1, <2>2 DEF Inv, TypeOK
  <2>4. wk' \in [phase: Phase, reg: 0 .. MaxReg, txn: SUBSET JobId, seen: BOOLEAN]
    BY <1>6, <1>8, BoundsAssumption DEF Idle, Phase, Registry
  <2>5. job' \in [JobId -> Job]
    BY <1>1 DEF QueueInv
  <2> QED BY <1>7, <1>8, <2>3, <2>4, <2>5 DEF Inv, TypeOK
<1>12. TxInv'
  BY <1>8, TxFrame
<1>13. OpenInv'
  <2>1. \A j \in JobId : job'[j].st = "open" => job'[j] = job[j]
    BY <1>1, <1>4 DEF NoJob
  <2> QED BY <2>1, <1>8 DEF Inv, OpenInv, Target
<1>14. WorkerInv'
  <2>1. wk'.txn = {} /\ wk'.seen = FALSE /\ wk'.reg <= reg'.id
    BY <1>6, <1>8 DEF Idle, Registry
  <2>2. /\ wk'.phase \in {"idle", "embed"}
        /\ wk'.phase = "idle" => batch = {}
        /\ batch # {} => wk'.phase = "embed"
    BY <1>6 DEF Idle
  <2>3. \A j \in batch : item'[j].row \in Row /\ item'[j].out \in {"read", "null"}
    BY <1>2, <1>9, ZenonT(60), SMTT(20)
  <2>4. \A i, j \in batch : item'[i].row = item'[j].row => i = j
    <3>1. batch \subseteq Unclaimed(q)
      BY <1>1, ZenonT(60), SMTT(20) DEF Unclaimed, Pending, InState
    <3>2. OneUnclaimed(q)
      BY <1>3 DEF QueueInv
    <3>3. \A i \in batch : item'[i].row = q[i].row
      BY <1>2, <1>9, ZenonT(60), SMTT(20)
    <3> HIDE DEF batch, large
    <3> QED BY <3>1, <3>2, <3>3, ZenonT(60), SMTT(20) DEF OneUnclaimed
  <2> QED BY <1>10, <2>1, <2>2, <2>3, <2>4 DEF WorkerInv
<1>15. BatchInv'
  <2> SUFFICES ASSUME NEW j \in batch
               PROVE  EntryLive' /\ j \in InFlight(job') /\ job'[j].row = item'[j].row
    BY <1>10, ZenonT(60), SMTT(20) DEF BatchInv
  <2>1. EntryLive'
    BY <1>6, <1>8 DEF EntryLive
  <2> QED BY <2>1, <1>1, <1>2, <1>9 DEF InFlight, InState
<1>16. DisabledInv'
  BY <1>8 DEF DisabledInv
<1> QED BY <1>1, <1>11, <1>12, <1>13, <1>14, <1>15, <1>16 DEF Inv

\* Quarantine leaves all jobs free or the registry and the queue untouched.
LEMMA QuarantineFacts ==
    ASSUME Inv, NEW id, Quarantine(id)
    PROVE  /\ QueueInv(job') /\ reg' \in Registry /\ reg'.id = reg.id
           /\ \/ reg' = reg /\ job' = job /\ reg.id # id
              \/ /\ reg.id = id /\ reg'.state = "disabled"
                 /\ \A j \in JobId : job'[j].st = "free"
<1>1. CASE reg.id = id
  <2>1. job' = [j \in JobId |-> NoJob] /\ reg' = [reg EXCEPT !.state = "disabled"]
    BY <1>1 DEF Quarantine
  <2>2. reg' \in Registry /\ reg'.id = reg.id /\ reg'.state = "disabled"
    BY <2>1 DEF Inv, TypeOK, Registry
  <2> QED BY <1>1, <2>1, <2>2, EmptyQueue DEF NoJob
<1>2. CASE reg.id # id
  BY <1>2 DEF Quarantine, Inv, TypeOK
<1> QED BY <1>1, <1>2

\* A quarantine by the claim keeps Inv.
LEMMA ClaimQuarantinesInv ==
    ASSUME Inv, ClaimQuarantines
    PROVE  Inv'
<1>1. /\ QueueInv(job') /\ reg' \in Registry /\ reg'.id = reg.id
      /\ reg'.state = "disabled"
      /\ \A j \in JobId : job'[j].st = "free"
  BY QuarantineFacts DEF ClaimQuarantines
<1>2. UNCHANGED <<kind, ver, vec, clock, tx, dead, wk, item>>
  BY DEF ClaimQuarantines, Quarantine
<1>3. TypeOK'
  BY <1>1, <1>2 DEF Inv, TypeOK, QueueInv
<1>4. TxInv'
  BY <1>2, TxFrame
<1>5. OpenInv' /\ BatchInv' /\ DisabledInv'
  BY <1>1 DEF OpenInv, BatchInv, DisabledInv, Items, EntryLive
<1>6. WorkerInv'
  BY <1>1, <1>2 DEF Inv, WorkerInv, Items, EntryLive
<1> QED BY <1>1, <1>3, <1>4, <1>5, <1>6 DEF Inv

\* The network phase keeps Inv.
LEMMA EmbedInv ==
    ASSUME Inv, Embed
    PROVE  Inv'
<1> DEFINE S == {j \in Items : item[j].out = "read"}
<1>1. PICK f \in [S -> {"ok", "dead", "retry"}] :
         item' = [j \in JobId |->
                    IF j \in DOMAIN f THEN [item[j] EXCEPT !.out = f[j]] ELSE item[j]]
  BY ZenonT(60), SMTT(20) DEF Embed
<1>2. item \in [JobId -> Item] /\ S \subseteq JobId
  BY DEF Inv, TypeOK, Items
<1>3. item' \in [JobId -> Item]
  BY <1>1, <1>2 DEF Item, Outcome
<1>4. \A j \in JobId :
         /\ item'[j].row = item[j].row /\ item'[j].ver = item[j].ver
         /\ j \in S => item'[j].out \in {"ok", "dead", "retry"}
         /\ j \notin S => item'[j].out = item[j].out
  BY <1>1, <1>2 DEF Item
<1>5. Items' = Items
  BY <1>4 DEF Items
<1>6. wk \in [phase: Phase, reg: 0 .. MaxReg, txn: SUBSET JobId, seen: BOOLEAN]
  BY DEF Inv, TypeOK
<1>7. /\ wk'.phase = "apply" /\ wk'.reg = wk.reg /\ wk'.txn = wk.txn /\ wk'.seen = wk.seen
      /\ wk' \in [phase: Phase, reg: 0 .. MaxReg, txn: SUBSET JobId, seen: BOOLEAN]
  BY <1>6 DEF Embed, Phase
<1>8. UNCHANGED <<kind, ver, vec, clock, tx, job, dead, reg>> /\ wk.phase = "embed"
  BY DEF Embed
<1>9. TypeOK'
  BY <1>3, <1>7, <1>8 DEF Inv, TypeOK
<1>10. WorkerInv'
  <2>1. WorkerInv /\ reg' = reg
    BY <1>8 DEF Inv
  <2>2. wk.txn = {} /\ ~wk.seen /\ wk.reg <= reg.id
    BY <1>8, <2>1 DEF WorkerInv
  <2>3. wk'.txn = {} /\ ~wk'.seen /\ wk'.reg <= reg'.id
    BY <1>7, <2>1, <2>2
  <2>4. \A j \in Items : item'[j].row \in Row /\ item'[j].out # "read"
    BY <1>4, <2>1 DEF WorkerInv, Items
  <2>5. \A i, j \in Items : item'[i].row = item'[j].row => i = j
    BY <1>2, <1>4, <2>1 DEF WorkerInv, Items
  <2> QED BY <1>5, <1>7, <2>3, <2>4, <2>5 DEF WorkerInv
<1>11. TxInv' /\ OpenInv' /\ DisabledInv' /\ QueueInv(job')
  BY <1>8, TxFrame DEF Inv, OpenInv, DisabledInv, Target
<1>12. BatchInv'
  BY <1>4, <1>5, <1>7, <1>8 DEF Inv, BatchInv, EntryLive, Items
<1> QED BY <1>9, <1>10, <1>11, <1>12 DEF Inv

\* Steps that change the control state of the worker only.
LEMMA ControlInv ==
    ASSUME Inv, UNCHANGED <<kind, ver, vec, clock, tx, job, dead, reg, item>>,
           wk' \in [phase: Phase, reg: 0 .. MaxReg, txn: SUBSET JobId, seen: BOOLEAN],
           wk'.reg = wk.reg, WorkerInv'
    PROVE  Inv'
<1>1. TypeOK'
  BY ZenonT(60), SMTT(20) DEF Inv, TypeOK
<1>2. TxInv' /\ OpenInv' /\ DisabledInv' /\ QueueInv(job')
  BY TxFrame, ZenonT(60), SMTT(20) DEF Inv, OpenInv, DisabledInv, Target
<1>3. BatchInv'
  BY DEF Inv, BatchInv, EntryLive, Items
<1> QED BY <1>1, <1>2, <1>3 DEF Inv

\* Loading the entry keeps Inv.
LEMMA LoadInv ==
    ASSUME Inv, NEW j, ApplyLoad \/ RowLoad(j)
    PROVE  Inv'
<1>1. wk \in [phase: Phase, reg: 0 .. MaxReg, txn: SUBSET JobId, seen: BOOLEAN]
  BY DEF Inv, TypeOK
<1>2. Items \subseteq JobId
  BY ZenonT(60), SMTT(20) DEF Items
<1>3. PICK to \in {"write", "row"}, J \in SUBSET Items :
         /\ wk.phase \in {"apply", "rows"}
         /\ wk' = [wk EXCEPT !.phase = to, !.txn = J, !.seen = EntryLive]
         /\ UNCHANGED <<kind, ver, vec, clock, tx, job, dead, reg, item>>
  <2>1. CASE ApplyLoad
    <3>1. "write" \in {"write", "row"} /\ Items \in SUBSET Items
      OBVIOUS
    <3> QED BY <2>1, <3>1, ZenonT(60), SMTT(20) DEF ApplyLoad, LoadEntry
  <2>2. CASE RowLoad(j)
    <3>1. j \in Items /\ LoadEntry("rows", "row", {j})
      BY <2>2 DEF RowLoad
    <3>2. "row" \in {"write", "row"} /\ {j} \in SUBSET Items
      BY <3>1
    <3> QED BY <3>1, <3>2, ZenonT(60), SMTT(20) DEF LoadEntry
  <2> QED BY <2>1, <2>2, ZenonT(60), SMTT(20)
<1>4. EntryLive \in BOOLEAN
  BY DEF EntryLive
<1>5. /\ wk'.phase = to /\ wk'.txn = J /\ wk'.reg = wk.reg /\ wk'.seen = EntryLive
      /\ wk' \in [phase: Phase, reg: 0 .. MaxReg, txn: SUBSET JobId, seen: BOOLEAN]
  BY <1>1, <1>2, <1>3, <1>4, ZenonT(60), SMTT(20) DEF Phase
<1>6. EntryLive' = EntryLive /\ Items' = Items
  BY <1>3, <1>5 DEF EntryLive, Items
<1>7. WorkerInv'
  BY <1>3, <1>5, <1>6 DEF Inv, WorkerInv
<1> QED BY <1>3, <1>5, <1>7, ControlInv

\* A crash keeps Inv: the jobs of the batch stay claimed.
LEMMA CrashInv ==
    ASSUME Inv, Crash
    PROVE  Inv'
<1>1. Items' = {}
  BY DEF Crash, Items, NoItem
<1>2. TypeOK'
  <2>1. NoItem \in Item
    BY BoundsAssumption DEF NoItem, Item, Version, Outcome
  <2>2. Idle \in [phase: Phase, reg: 0 .. MaxReg, txn: SUBSET JobId, seen: BOOLEAN]
    BY BoundsAssumption DEF Idle, Phase
  <2>3. item' \in [JobId -> Item]
    BY <2>1 DEF Crash
  <2> QED BY <2>2, <2>3 DEF Inv, TypeOK, Crash
<1>3. WorkerInv'
  BY <1>1, IdleFrame DEF Crash
<1>4. TxInv' /\ OpenInv' /\ DisabledInv' /\ QueueInv(job')
  BY TxFrame, ZenonT(60), SMTT(20) DEF Inv, OpenInv, DisabledInv, Target, Crash
<1>5. BatchInv'
  BY <1>1 DEF BatchInv
<1> QED BY <1>2, <1>3, <1>4, <1>5 DEF Inv


-----------------------------------------------------------------------------
(***************************************************************************)
(* The write-back.                                                         *)
(***************************************************************************)

\* The items of J leave the batch.
LEMMA DoneFacts ==
    ASSUME Inv, Done(wk.txn), wk.phase \in {"write", "row", "release"},
           reg'.id = reg.id
    PROVE  /\ Items' = Items \ wk.txn
           /\ \A j \in Items' : item'[j] = item[j]
           /\ Items' # {} => wk'.reg = wk.reg
           /\ item' \in [JobId -> Item]
           /\ wk' \in [phase: Phase, reg: 0 .. MaxReg, txn: SUBSET JobId, seen: BOOLEAN]
           /\ WorkerInv'
<1>1. item' = [j \in JobId |-> IF j \in wk.txn THEN NoItem ELSE item[j]]
  BY DEF Done
<1>2. NoItem \in Item
  BY BoundsAssumption DEF NoItem, Item, Version, Outcome
<1>3. item' \in [JobId -> Item]
  BY <1>1, <1>2 DEF Inv, TypeOK
<1>4. Items' = Items \ wk.txn /\ \A j \in Items' : item'[j] = item[j]
  BY <1>1 DEF Items, NoItem
<1>5. CASE Items \subseteq wk.txn
  <2>1. wk' = Idle /\ Items' = {}
    BY <1>4, <1>5 DEF Done
  <2>2. wk' \in [phase: Phase, reg: 0 .. MaxReg, txn: SUBSET JobId, seen: BOOLEAN]
    BY <2>1, BoundsAssumption DEF Idle, Phase
  <2>3. WorkerInv'
    BY <2>1, IdleFrame
  <2> QED BY <1>3, <1>4, <2>1, <2>2, <2>3
<1>6. CASE ~(Items \subseteq wk.txn)
  <2>1. wk' = [wk EXCEPT !.phase = "rows", !.txn = {}, !.seen = FALSE]
    BY <1>6 DEF Done
  <2>2. wk \in [phase: Phase, reg: 0 .. MaxReg, txn: SUBSET JobId, seen: BOOLEAN]
    BY DEF Inv, TypeOK
  <2>3. /\ wk'.phase = "rows" /\ wk'.txn = {} /\ wk'.seen = FALSE /\ wk'.reg = wk.reg
        /\ wk' \in [phase: Phase, reg: 0 .. MaxReg, txn: SUBSET JobId, seen: BOOLEAN]
    BY <2>1, <2>2, ZenonT(60), SMTT(20) DEF Phase
  <2>4. WorkerInv'
    BY <2>3, <1>4 DEF Inv, WorkerInv
  <2> QED BY <1>3, <1>4, <2>3, <2>4
<1> QED BY <1>5, <1>6

\* A step that ends with Done and touches only jobs of the finished items.
LEMMA FinishInv ==
    ASSUME Inv, Done(wk.txn), wk.phase \in {"write", "row", "release"},
           QueueInv(job'),
           \A j \in JobId : j \notin wk.txn => job'[j] = job[j],
           \A j \in JobId : job'[j].st = "open" => job'[j] = job[j],
           reg.state = "disabled" => \A j \in JobId : job'[j].st = "free",
           vec' \in [Row -> Version], dead' \in SUBSET Row,
           UNCHANGED <<kind, ver, clock, tx, reg>>
    PROVE  Inv'
<1>1. /\ Items' = Items \ wk.txn
      /\ \A j \in Items' : item'[j] = item[j]
      /\ Items' # {} => wk'.reg = wk.reg
      /\ item' \in [JobId -> Item]
      /\ wk' \in [phase: Phase, reg: 0 .. MaxReg, txn: SUBSET JobId, seen: BOOLEAN]
      /\ WorkerInv'
  BY DoneFacts
<1>2. TypeOK'
  BY <1>1 DEF Inv, TypeOK, QueueInv
<1>3. TxInv' /\ OpenInv'
  BY TxFrame DEF Inv, OpenInv, Target
<1>4. BatchInv'
  BY <1>1 DEF Inv, BatchInv, EntryLive, InFlight, InState, Items
<1>5. DisabledInv'
  BY DEF DisabledInv
<1> QED BY <1>1, <1>2, <1>3, <1>4, <1>5 DEF Inv

\* The write-back keeps Inv.
LEMMA WriteBackInv ==
    ASSUME Inv, WriteBack
    PROVE  Inv'
<1> DEFINE have == wk.txn \intersect InFlight(job)
           spent == Exhausted(job, WithOut("retry") \intersect have)
           gone == (WithOut("dead") \intersect have) \union spent
           back == (WithOut("retry") \intersect have) \ spent
           done == WithOut("null") \union WithOut("ok")
           X == done \union gone
<1>1. PICK K \in Survivors(job, back) : job' = Unclaim(Deleted(job, X), back, K)
  BY ZenonT(60), SMTT(20) DEF WriteBack, Write
<1>2. ~WaitsForWriter(job, RowsOf(job, back))
  BY ZenonT(60), SMTT(20) DEF WriteBack, Write
<1>3. dead' = dead \union RowsOf(job, gone)
  BY ZenonT(60), SMTT(20) DEF WriteBack, Write
<1>4. wk.txn \subseteq Items /\ Items \subseteq JobId
  BY ZenonT(60), SMTT(20) DEF Inv, WorkerInv, Items
<1>5. X \subseteq wk.txn /\ back \subseteq wk.txn /\ gone \subseteq InFlight(job)
  BY ZenonT(60), SMTT(20) DEF WithOut, Exhausted
<1>6. \A j \in wk.txn : job[j].st \in {"claimed", "stale", "free"}
  BY <1>4, ZenonT(60), SMTT(20) DEF Inv, BatchInv, InFlight, InState
<1>7. X \intersect Unclaimed(job) = {}
  BY <1>5, <1>6, ZenonT(60), SMTT(20) DEF Unclaimed, InState
<1>8. back \subseteq InFlight(job) /\ X \intersect back = {} /\ Exhausted(job, back) = {}
  BY DEF WithOut, Exhausted
<1>9. QueueInv(job)
  BY DEF Inv
<1>10. gone \subseteq JobId /\ \A j \in gone : job[j].row \in Row
  BY <1>5, <1>9, ZenonT(60), SMTT(20) DEF InFlight, InState, QueueInv
<1> HIDE DEF X, back, gone
<1>11. /\ QueueInv(job') /\ K \subseteq back
       /\ \A j \in JobId :
             /\ j \in K => job'[j].st = "pending" /\ job'[j].row = job[j].row
             /\ j \in (X \union back) \ K => job'[j] = NoJob
             /\ j \notin X \union back => job'[j] = job[j]
  <2>1. Releasable(job, X, back, K)
    BY <1>1, <1>2, <1>7, <1>8, <1>9 DEF Releasable
  <2>2. Released(job, X, back, K, job')
    BY <1>1, <2>1, ReleasedInv
  <2> QED BY <2>2 DEF Released
<1>12. vec' \in [Row -> Version]
  <2> DEFINE f == Found(done)
             val(j) == IF item[j].out = "ok" THEN item[j].ver ELSE NoVec
  <2>1. vec' = [r \in Row |-> IF \E j \in f : item[j].row = r
                              THEN val(CHOOSE j \in f : item[j].row = r) ELSE vec[r]]
    BY ZenonT(60), SMTT(20) DEF WriteBack, Write
  <2>2. f \subseteq JobId
    BY <1>4 DEF Found, WithOut
  <2>3. \A j \in JobId : val(j) \in Version
    BY BoundsAssumption DEF Inv, TypeOK, Item, NoVec, Version
  <2> HIDE DEF f, val
  <2>4. ASSUME NEW r \in Row, \E j \in f : item[j].row = r
        PROVE  val(CHOOSE j \in f : item[j].row = r) \in Version
    BY <2>2, <2>3, <2>4
  <2> QED BY <2>1, <2>4 DEF Inv, TypeOK
<1>13. dead' \in SUBSET Row
  BY <1>3, <1>10 DEF RowsOf, Inv, TypeOK
<1>14. \A j \in JobId : j \notin wk.txn => job'[j] = job[j]
  BY <1>5, <1>11
<1>15. \A j \in JobId : job'[j].st = "open" => job'[j] = job[j]
  BY <1>11 DEF NoJob
<1>16. reg.state = "disabled" => \A j \in JobId : job'[j].st = "free"
  BY <1>8, <1>11 DEF Inv, DisabledInv, InFlight, InState, NoJob
<1> QED BY <1>11, <1>12, <1>13, <1>14, <1>15, <1>16, FinishInv, ZenonT(60), SMTT(20) DEF WriteBack

\* Dropping the jobs of a batch whose entry is gone keeps Inv.
LEMMA WriteNothingInv ==
    ASSUME Inv, WriteNothing
    PROVE  Inv'
<1>1. QueueInv(job')
  BY DeletedInv DEF Inv, WriteNothing
<1>2. \A j \in JobId : /\ j \notin wk.txn => job'[j] = job[j]
                       /\ j \in wk.txn => job'[j] = NoJob
  BY DeletedAt DEF WriteNothing
<1>3. \A j \in JobId : job'[j].st = "open" => job'[j] = job[j]
  BY <1>2 DEF NoJob
<1>4. reg.state = "disabled" => \A j \in JobId : job'[j].st = "free"
  BY <1>2 DEF Inv, DisabledInv, NoJob
<1>5. vec' \in [Row -> Version] /\ dead' \in SUBSET Row
  BY DEF Inv, TypeOK, WriteNothing
<1>6. wk.phase \in {"write", "row", "release"}
  BY ZenonT(60), SMTT(20) DEF WriteNothing
<1> QED BY <1>1, <1>2, <1>3, <1>4, <1>5, <1>6, FinishInv DEF WriteNothing

\* Releasing a job whose write failed keeps Inv.
LEMMA ReleaseInv ==
    ASSUME Inv, Release
    PROVE  Inv'
<1> DEFINE have == wk.txn \intersect InFlight(job)
           gone == Exhausted(job, have)
           back == have \ gone
<1>1. PICK K \in Survivors(job, back) : job' = Unclaim(Deleted(job, gone), back, K)
  BY ZenonT(60), SMTT(20) DEF Release
<1>2. ~WaitsForWriter(job, RowsOf(job, back)) /\ dead' = dead \union RowsOf(job, gone)
  BY ZenonT(60), SMTT(20) DEF Release
<1>3. gone \subseteq InFlight(job) /\ back \subseteq InFlight(job) /\ gone \intersect back = {}
  BY DEF Exhausted
<1>4. gone \subseteq wk.txn /\ back \subseteq wk.txn /\ Exhausted(job, back) = {}
  BY DEF Exhausted
<1>5. QueueInv(job) /\ gone \intersect Unclaimed(job) = {}
  BY <1>3, ZenonT(60), SMTT(20) DEF Inv, InFlight, Unclaimed, InState
<1>6. \A j \in gone : job[j].row \in Row
  BY <1>3, <1>5, ZenonT(60), SMTT(20) DEF InFlight, InState, QueueInv
<1> HIDE DEF gone, back
<1>7. /\ QueueInv(job') /\ K \subseteq back
      /\ \A j \in JobId :
            /\ j \in K => job'[j].st = "pending" /\ job'[j].row = job[j].row
            /\ j \in (gone \union back) \ K => job'[j] = NoJob
            /\ j \notin gone \union back => job'[j] = job[j]
  <2>1. Releasable(job, gone, back, K)
    BY <1>1, <1>2, <1>3, <1>4, <1>5 DEF Releasable
  <2>2. Released(job, gone, back, K, job')
    BY <1>1, <2>1, ReleasedInv
  <2> QED BY <2>2 DEF Released
<1>8. dead' \in SUBSET Row
  <2>1. RowsOf(job, gone) \subseteq Row
    BY <1>6 DEF RowsOf
  <2>2. dead \in SUBSET Row
    BY DEF Inv, TypeOK
  <2> QED BY <1>2, <2>1, <2>2
<1>9. \A j \in JobId : j \notin wk.txn => job'[j] = job[j]
  BY <1>4, <1>7, ZenonT(60), SMTT(20)
<1>10. \A j \in JobId : job'[j].st = "open" => job'[j] = job[j]
  BY <1>7 DEF NoJob
<1>11. reg.state = "disabled" => \A j \in JobId : job'[j].st = "free"
  BY <1>3, <1>7 DEF Inv, DisabledInv, InFlight, InState, NoJob
<1>12. vec' \in [Row -> Version]
  BY DEF Inv, TypeOK, Release
<1> QED BY <1>7, <1>8, <1>9, <1>10, <1>11, <1>12, FinishInv, ZenonT(60), SMTT(20) DEF Release

\* Leaving a claim to the visibility timeout keeps Inv.
LEMMA ReleaseAbortsInv ==
    ASSUME Inv, ReleaseAborts
    PROVE  Inv'
<1>1. QueueInv(job')
  BY DEF Inv, ReleaseAborts
<1>2. vec' \in [Row -> Version] /\ dead' \in SUBSET Row
  BY DEF Inv, TypeOK, ReleaseAborts
<1>3. reg.state = "disabled" => \A j \in JobId : job'[j].st = "free"
  BY DEF Inv, DisabledInv, ReleaseAborts
<1> QED BY <1>1, <1>2, <1>3, FinishInv, ZenonT(60), SMTT(20) DEF ReleaseAborts

\* A quarantine by the write-back keeps Inv.
LEMMA WriteQuarantinesInv ==
    ASSUME Inv, WriteQuarantines
    PROVE  Inv'
<1>1. /\ QueueInv(job') /\ reg' \in Registry /\ reg'.id = reg.id
      /\ \/ reg' = reg /\ job' = job /\ reg.id # wk.reg
         \/ /\ reg.id = wk.reg /\ reg'.state = "disabled"
            /\ \A j \in JobId : job'[j].st = "free"
  BY QuarantineFacts DEF WriteQuarantines
<1>2. UNCHANGED <<kind, ver, vec, clock, tx, dead>>
  BY DEF WriteQuarantines, Quarantine
<1>3. /\ Items' = Items \ wk.txn
      /\ \A j \in Items' : item'[j] = item[j]
      /\ Items' # {} => wk'.reg = wk.reg
      /\ item' \in [JobId -> Item]
      /\ wk' \in [phase: Phase, reg: 0 .. MaxReg, txn: SUBSET JobId, seen: BOOLEAN]
      /\ WorkerInv'
  BY <1>1, DoneFacts DEF WriteQuarantines
<1>4. TypeOK'
  BY <1>1, <1>2, <1>3 DEF Inv, TypeOK, QueueInv
<1>5. TxInv'
  BY <1>2, TxFrame
<1>6. OpenInv' /\ DisabledInv'
  BY <1>1, <1>2 DEF Inv, OpenInv, DisabledInv, Target
<1>7. BatchInv'
  BY <1>1, <1>3, ZenonT(60), SMTT(20) DEF Inv, BatchInv, EntryLive, Items
<1> QED BY <1>1, <1>3, <1>4, <1>5, <1>6, <1>7 DEF Inv

\* An aborted write-back keeps Inv.
LEMMA WriteAbortsInv ==
    ASSUME Inv, WriteAborts
    PROVE  Inv'
<1>1. wk \in [phase: Phase, reg: 0 .. MaxReg, txn: SUBSET JobId, seen: BOOLEAN]
  BY DEF Inv, TypeOK
<1>2. /\ wk'.phase = IF wk.phase = "write" THEN "rows" ELSE "release"
      /\ wk'.txn = IF wk.phase = "write" THEN {} ELSE wk.txn
      /\ wk'.seen = FALSE /\ wk'.reg = wk.reg
      /\ wk' \in [phase: Phase, reg: 0 .. MaxReg, txn: SUBSET JobId, seen: BOOLEAN]
  BY <1>1, ZenonT(60), SMTT(20) DEF WriteAborts, Phase
<1>3. Items' = Items
  BY DEF WriteAborts, Items
<1>4. WorkerInv'
  BY <1>2, <1>3 DEF Inv, WorkerInv, WriteAborts
<1> QED BY <1>2, <1>4, ControlInv DEF WriteAborts

-----------------------------------------------------------------------------

\* The values enable() starts the tables and the worker with are typed.
LEMMA InitialTyped ==
    /\ NoTx \in Tx /\ NoItem \in Item
    /\ [id |-> 0, state |-> "active", col |-> TRUE] \in Registry
    /\ Idle \in [phase: Phase, reg: 0 .. MaxReg, txn: SUBSET JobId, seen: BOOLEAN]
<1>1. 0 \in 0 .. MaxReg /\ 0 \in 0 .. MaxClock
  BY BoundsAssumption
<1>2. NoTx \in Tx /\ NoItem \in Item
  BY BoundsAssumption DEF NoTx, Tx, TxOp, Kind, Version, NoItem, Item, Outcome
<1>3. [id |-> 0, state |-> "active", col |-> TRUE] \in Registry
  BY <1>1, ZenonT(60), SMTT(20) DEF Registry
<1>4. Idle \in [phase: Phase, reg: 0 .. MaxReg, txn: SUBSET JobId, seen: BOOLEAN]
  BY <1>1, ZenonT(60), SMTT(20) DEF Idle, Phase
<1> QED BY <1>2, <1>3, <1>4

\* The state after enable() satisfies Inv.
LEMMA InitInv == Init => Inv
<1> SUFFICES ASSUME Init PROVE Inv
  OBVIOUS
<1> DEFINE R == {r \in Row : kind[r] = "text"}
           q == [j \in JobId |-> NoJob]
<1>1. PICK g \in NewJobs(R, JobId) : job = Inserted(q, g, "pending")
  BY ZenonT(60), SMTT(20) DEF Init
<1>2. Quiet(q, R)
  BY DEF Quiet, Unclaimed, InState, NoJob
<1>3. QueueInv(job)
  BY <1>1, <1>2, EmptyQueue, InsertedInv
<1>4. ASSUME NEW j \in JobId PROVE job[j].st # "open"
  <2>1. q[j].st = "free"
    BY DEF NoJob
  <2> HIDE DEF q, R
  <2>2. j \in DOMAIN g => job[j].st = "pending"
    BY <1>1, InsertedAt
  <2>3. j \notin DOMAIN g => job[j] = q[j]
    BY <1>1, InsertedAt
  <2> QED BY <2>1, <2>2, <2>3
<1>5. Items = {}
  BY DEF Init, Items, NoItem
<1>6. NoTx \in Tx /\ NoItem \in Item
  BY InitialTyped
<1>7. kind \in [Row -> Kind] /\ reg \in Registry
  <2>1. kind \in [Row -> {"absent", "text"}] /\ reg = [id |-> 0, state |-> "active", col |-> TRUE]
    BY ZenonT(60), SMTT(20) DEF Init
  <2> QED BY <2>1, InitialTyped DEF Kind
<1>8. wk \in [phase: Phase, reg: 0 .. MaxReg, txn: SUBSET JobId, seen: BOOLEAN]
  <2>1. wk = Idle
    BY ZenonT(60), SMTT(20) DEF Init
  <2> QED BY <2>1, InitialTyped, ZenonT(60), SMTT(20)
<1>9. TypeOK
  BY <1>3, <1>6, <1>7, <1>8, BoundsAssumption DEF Init, TypeOK, QueueInv, Version, NoVec
<1>10. TxInv
  BY ZenonT(60), SMTT(20) DEF Init, TxInv, NoTx, Touched
<1>11. OpenInv /\ BatchInv /\ DisabledInv
  BY <1>4, <1>5, ZenonT(60), SMTT(20) DEF OpenInv, BatchInv, DisabledInv, Init
<1>12. WorkerInv
  BY <1>5 DEF Init, WorkerInv, Idle
<1> QED BY <1>3, <1>9, <1>10, <1>11, <1>12 DEF Inv

\* Inv is inductive.
LEMMA NextInv == Inv /\ [Next]_vars => Inv'
<1> SUFFICES ASSUME Inv, [Next]_vars PROVE Inv'
  OBVIOUS
<1>1. ASSUME NEW s \in Session, UserStep(s) PROVE Inv'
  <2>1. ASSUME NEW r \in Row, NEW k \in Kind, Insert(s, r, k) \/ Update(s, r, k) PROVE Inv'
    BY <2>1, DmlInv
  <2>2. ASSUME NEW r \in Row, Delete(s, r) PROVE Inv'
    <3>1. "text" \in Kind
      BY DEF Kind
    <3> QED BY <2>2, <3>1, DmlInv
  <2>3. ASSUME NEW r \in Row, NEW d \in Row, Rekey(s, r, d) PROVE Inv'
    <3>1. "text" \in Kind
      BY DEF Kind
    <3> QED BY <2>3, <3>1, DmlInv
  <2>4. CASE Commit(s)
    BY <2>4, CommitInv
  <2>5. CASE Rollback(s)
    BY <2>5, RollbackInv
  <2> QED BY <1>1, <2>1, <2>2, <2>3, <2>4, <2>5 DEF UserStep
<1>2. CASE Manage
  BY <1>2, TruncateInv, DisableInv, DropColumnInv, EnableInv, SetFormatInv, RetryDeadInv
     DEF Manage
<1>3. CASE WorkerStep
  <2>1. CASE ClaimStep
    BY <2>1, ClaimInv DEF ClaimStep
  <2>2. ASSUME NEW j \in JobId, RowLoad(j) PROVE Inv'
    BY <2>2, LoadInv
  <2>3. CASE ApplyLoad
    BY <2>3, LoadInv
  <2>4. CASE ClaimQuarantines \/ WriteQuarantines
    BY <2>4, ClaimQuarantinesInv, WriteQuarantinesInv
  <2>5. CASE Embed \/ Crash
    BY <2>5, EmbedInv, CrashInv
  <2>6. CASE WriteBack \/ WriteNothing \/ WriteAborts
    BY <2>6, WriteBackInv, WriteNothingInv, WriteAbortsInv, ZenonT(60), SMTT(20)
  <2>7. CASE Release \/ ReleaseAborts
    BY <2>7, ReleaseInv, ReleaseAbortsInv
  <2> QED BY <1>3, <2>1, <2>2, <2>3, <2>4, <2>5, <2>6, <2>7 DEF WorkerStep
<1>4. ASSUME NEW j \in JobId, Expire(j) PROVE Inv'
  BY <1>4, ExpireInv
<1>5. CASE UNCHANGED vars
  BY <1>5, ZenonT(60), SMTT(20)
     DEF vars, Inv, TypeOK, TxInv, Touched, OpenInv, Target, WorkerInv, Items,
     EntryLive, BatchInv, DisabledInv, InFlight, InState
<1> QED BY <1>1, <1>2, <1>3, <1>4, <1>5 DEF Next

\* Every reachable state of the queue, the transactions and the worker
\* satisfies the inductive invariant.
THEOREM Invariance == Spec => []Inv
BY InitInv, NextInv, PTL DEF Spec

\* Type correctness of the state of postvec.jobs, the registry and the worker.
THEOREM TypeCorrect == Spec => []TypeOK
<1>1. Inv => TypeOK
  BY DEF Inv
<1> QED BY <1>1, Invariance, PTL

\* The index jobs_pending_dedup is never violated, whatever the number of
\* sessions, crashes and releases.
THEOREM PendingUnique == Spec => []OneUnclaimedPerRow
<1>1. Inv => OneUnclaimedPerRow
  BY DEF Inv, QueueInv, OneUnclaimedPerRow
<1> QED BY <1>1, Invariance, PTL

\* No job is claimed more than max_retries + 1 times.
THEOREM RetriesBounded == Spec => []AttemptsBounded
<1>1. Inv => AttemptsBounded
  BY DEF Inv, QueueInv, AttemptsBounded
<1> QED BY <1>1, Invariance, PTL

\* The worker's batch owns its claims while the entry is in service.
THEOREM BatchOwnership == Spec => []BatchOwned
<1>1. Inv => BatchOwned
  BY DEF Inv, BatchInv, WorkerInv, BatchOwned
<1> QED BY <1>1, Invariance, PTL

\* What retry_dead() takes out of jobs_dead is pending afterwards.
LEMMA RetryDeadPending ==
    ASSUME Inv, NEW R \in SUBSET Row, RetryDead(R), NEW r \in dead \ dead'
    PROVE  r \in PendingRows(job)'
<1>1. PICK g \in NewJobs(NotPending(job, R), FreeIds) : job' = Inserted(job, g, "pending")
  BY DEF RetryDead
<1>2. r \in R
  BY DEF RetryDead
<1>3. FreeIds \subseteq JobId /\ \A j \in FreeIds : job[j].st = "free"
  BY DEF FreeIds
<1>4. DOMAIN g \subseteq FreeIds /\ \A k \in NotPending(job, R) : \E i \in DOMAIN g : g[i] = k
  BY <1>1 DEF NewJobs
<1>5. CASE r \in PendingRows(job)
  <2>1. PICK j \in JobId : job[j].st = "pending" /\ job[j].row = r
    BY <1>5 DEF PendingRows, RowsOf, Pending, InState
  <2>2. j \notin DOMAIN g
    BY <1>3, <1>4, <2>1
  <2>3. job'[j] = job[j]
    BY <1>1, <2>2 DEF Inserted
  <2> QED BY <2>1, <2>3 DEF PendingRows, RowsOf, Pending, InState
<1>6. CASE r \in NotPending(job, R)
  <2>1. PICK i \in DOMAIN g : g[i] = r
    BY <1>4, <1>6
  <2>2. i \in JobId /\ job'[i] = [st |-> "pending", row |-> r, att |-> 0]
    BY <1>1, <1>3, <1>4, <2>1 DEF Inserted
  <2> QED BY <2>2 DEF PendingRows, RowsOf, Pending, InState
<1> QED BY <1>2, <1>5, <1>6 DEF NotPending

\* A dead letter survives everything but retry_dead() and a new enable().
THEOREM DeadLettersStay == Spec => DeadLettersKept
<1>1. ASSUME Inv, [Next]_vars
      PROVE  [\A r \in dead \ dead' : r \in PendingRows(job)' \/ reg'.id # reg.id]_vars
  <2>1. ASSUME NEW s \in Session, UserStep(s) PROVE dead' = dead
    BY <2>1, ZenonT(60), SMTT(20)
       DEF UserStep, Insert, Update, Delete, Rekey, Statement, Commit, Rollback
  <2>2. CASE Manage
    <3>1. CASE Enable
      <4>1. reg'.id # reg.id
        <5>1. reg.id \in Nat
          BY <1>1, BoundsAssumption DEF Inv, TypeOK, Registry
        <5>2. reg'.id = reg.id + 1
          BY <3>1 DEF Enable
        <5> QED BY <5>1, <5>2
      <4> QED BY <4>1
    <3>2. ASSUME NEW R \in SUBSET Row, RetryDead(R)
          PROVE  \A r \in dead \ dead' : r \in PendingRows(job)'
      BY <1>1, <3>2, RetryDeadPending
    <3>3. CASE Truncate \/ Disable \/ DropColumn \/ SetFormat
      BY <3>3 DEF Truncate, Disable, DropColumn, SetFormat
    <3> QED BY <2>2, <3>1, <3>2, <3>3 DEF Manage
  <2>3. CASE WorkerStep
    <3>1. ASSUME NEW K, NEW C, NEW D, Claim(K, C, D) PROVE dead \subseteq dead'
      BY <3>1, ZenonT(60), SMTT(20) DEF Claim, ReadBatch
    <3>2. ASSUME WriteBack \/ Release
          PROVE  dead \subseteq dead'
      BY <3>2, ZenonT(60), SMTT(20) DEF WriteBack, Write, Release
    <3>3. ASSUME ClaimQuarantines \/ WriteQuarantines
          PROVE  dead \subseteq dead'
      BY <3>3, ZenonT(60), SMTT(20) DEF ClaimQuarantines, WriteQuarantines, Quarantine
    <3>4. ASSUME Embed \/ WriteNothing \/ WriteAborts \/ ReleaseAborts \/ Crash
          PROVE  dead \subseteq dead'
      BY <3>4, ZenonT(60), SMTT(20) DEF Embed, WriteNothing, WriteAborts, ReleaseAborts, Crash
    <3>5. ASSUME ApplyLoad \/ \E j \in JobId : RowLoad(j)
          PROVE  dead \subseteq dead'
      BY <3>5, ZenonT(60), SMTT(20) DEF ApplyLoad, RowLoad, LoadEntry
    <3>6. dead \subseteq dead'
      BY <2>3, <3>1, <3>2, <3>3, <3>4, <3>5 DEF WorkerStep, ClaimStep
    <3> QED BY <3>6, ZenonT(60), SMTT(20)
  <2>4. ASSUME NEW j \in JobId, Expire(j) PROVE dead' = dead
    BY <2>4 DEF Expire
  <2> QED BY <1>1, <2>1, <2>2, <2>3, <2>4 DEF Next
<1> QED BY <1>1, Invariance, PTL DEF Spec, DeadLettersKept


=============================================================================
