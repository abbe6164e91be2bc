----------------------------- MODULE EmbedQueue -----------------------------
(***************************************************************************)
(* Synchronisation of one column-mode entry of the extension: user         *)
(* transactions change the source table and their triggers enqueue; one    *)
(* background worker claims jobs, reads the text, embeds it outside any    *)
(* transaction and writes the vectors back.                                *)
(*                                                                         *)
(* The text at a key is abstracted to a version: every statement of a user *)
(* makes a new one, and an absent row has version 0.  vec[r] is the        *)
(* version of the text the vector stored at key r was computed from.       *)
(* Transactions are READ COMMITTED: what an open one wrote is invisible,   *)
(* and it holds the locks of its rows.                                     *)
(* A transaction of the worker is one step where nothing can come between  *)
(* its statements, and two where something can (the write-back).           *)
(***************************************************************************)
EXTENDS JobTable

CONSTANTS
    Session,    \* client sessions, one open transaction each
    BatchSize,  \* postvec.batch_size
    MaxClock,   \* bound: statements of users
    MaxReg      \* bound: registry ids, one per enable()

ASSUME BatchSizeAssumption == BatchSize \in Nat \ {0}
ASSUME BoundsAssumption == MaxClock \in Nat \ {0} /\ MaxReg \in Nat

VARIABLES
    kind,   \* what the rendered source of a row is
    ver,    \* version of that text
    vec,    \* version the stored vector was computed from
    clock,  \* statements of users so far
    tx,     \* the open transaction of each session
    job,    \* postvec.jobs
    dead,   \* keys with a row in postvec.jobs_dead
    reg,    \* the registry row
    wk,     \* control state of the worker
    item    \* the batch in the worker's memory

source == <<kind, ver, vec>>
vars == <<kind, ver, vec, clock, tx, job, dead, reg, wk, item>>

Kind == {"absent", "null", "text", "large"}

Version == 0 .. MaxClock

\* The vector is NULL: no text has version 0.
NoVec == 0

TxOp == {"none", "insert", "update", "delete", "rekey"}

Tx == [op: TxOp, row: Row \union {NoRow}, dst: Row \union {NoRow},
       kind: Kind, ver: Version]

NoTx == [op |-> "none", row |-> NoRow, dst |-> NoRow, kind |-> "absent", ver |-> 0]

Outcome == {"none", "read", "null", "ok", "dead", "retry"}

Item == [row: Row \union {NoRow}, ver: Version, out: Outcome]

NoItem == [row |-> NoRow, ver |-> 0, out |-> "none"]

\* col: a column of the entry's vector_column name exists.
Registry == [id: 0 .. MaxReg, state: {"active", "disabled"}, col: BOOLEAN]

Phase == {"idle", "embed", "apply", "write", "rows", "row", "release"}

Idle == [phase |-> "idle", reg |-> 0, txn |-> {}, seen |-> FALSE]

TypeOK ==
    /\ kind \in [Row -> Kind]
    /\ ver \in [Row -> Version]
    /\ vec \in [Row -> Version]
    /\ clock \in Version
    /\ tx \in [Session -> Tx]
    /\ job \in [JobId -> Job]
    /\ dead \in SUBSET Row
    /\ reg \in Registry
    /\ wk \in [phase: Phase, reg: 0 .. MaxReg, txn: SUBSET JobId, seen: BOOLEAN]
    /\ item \in [JobId -> Item]

-----------------------------------------------------------------------------

Items == {j \in JobId : item[j].out # "none"}

FreeIds == {j \in JobId : job[j].st = "free"} \ Items

\* The keys an open transaction of s has written: their row or index locks.
Touched(s) == {tx[s].row, tx[s].dst} \ {NoRow}

\* No other transaction has an uncommitted version of key r.
Unlocked(r) == \A s \in Session : r \notin Touched(s)

NoOpenTx == \A s \in Session : tx[s].op = "none"

\* The committed row at key r is being changed: an UPDATE of it waits.
RowLocked(r) ==
    \E s \in Session : tx[s].row = r /\ tx[s].op \in {"update", "delete", "rekey"}

\* The entry is active and none of its dependencies is missing.
Healthy == reg.state = "active" /\ reg.col

\* Init of a table that enable(backfill_mode => 'queue') has just registered.
Init ==
    /\ kind \in [Row -> {"absent", "text"}]
    /\ ver = [r \in Row |-> IF kind[r] = "text" THEN 1 ELSE 0]
    /\ vec = [r \in Row |-> NoVec]
    /\ clock = 1
    /\ tx = [s \in Session |-> NoTx]
    /\ \E g \in NewJobs({r \in Row : kind[r] = "text"}, JobId) :
          job = Inserted([j \in JobId |-> NoJob], g, "pending")
    /\ dead = {}
    /\ reg = [id |-> 0, state |-> "active", col |-> TRUE]
    /\ wk = Idle
    /\ item = [j \in JobId |-> NoItem]

-----------------------------------------------------------------------------
(***************************************************************************)
(* User transactions.  A statement runs its AFTER trigger, which inserts   *)
(* the job of each changed key unless a pending one exists; both become    *)
(* visible, or vanish, together at the end of the transaction.             *)
(***************************************************************************)

\* The generated trigger functions trg_ins, trg_upd and trg_pk.
Enqueue(R) ==
    \E g \in NewJobs(IF reg.state = "disabled" THEN {} ELSE NotPending(job, R), FreeIds) :
        job' = Inserted(job, g, "open")

Statement(s, rec, R) ==
    /\ tx[s].op = "none"
    /\ clock < MaxClock
    /\ clock' = clock + 1
    /\ tx' = [tx EXCEPT ![s] = rec]
    /\ Enqueue(R)
    /\ UNCHANGED <<kind, ver, vec, dead, reg, wk, item>>

\* INSERT: the trigger skips a row whose source is NULL.
Insert(s, r, k) ==
    /\ kind[r] = "absent" /\ Unlocked(r) /\ k # "absent"
    /\ Statement(s, [op |-> "insert", row |-> r, dst |-> NoRow, kind |-> k, ver |-> clock + 1],
                 IF k = "null" THEN {} ELSE {r})

\* UPDATE of a referenced column, to NULL included.
Update(s, r, k) ==
    /\ kind[r] # "absent" /\ Unlocked(r) /\ k # "absent"
    /\ Statement(s, [op |-> "update", row |-> r, dst |-> NoRow, kind |-> k, ver |-> clock + 1],
                 {r})

\* DELETE: column mode has no trigger for it.
Delete(s, r) ==
    /\ kind[r] # "absent" /\ Unlocked(r)
    /\ Statement(s, [op |-> "delete", row |-> r, dst |-> NoRow, kind |-> "absent", ver |-> 0], {})

\* UPDATE of the primary key, from r to d.
Rekey(s, r, d) ==
    /\ kind[r] # "absent" /\ Unlocked(r)
    /\ kind[d] = "absent" /\ Unlocked(d)
    /\ Statement(s, [op |-> "rekey", row |-> r, dst |-> d, kind |-> kind[r], ver |-> clock + 1],
                 {d})

\* The key whose committed content the transaction of s sets.
Target(s) == IF tx[s].op = "rekey" THEN tx[s].dst ELSE tx[s].row

\* Rows of the table after the transaction of s: a new row has no vector, an
\* updated one keeps it, a re-keyed one takes it along with its text, whose
\* version at the new key is that of the transaction.
CommitRows(s) ==
    LET t == tx[s]
        n == Target(s)
        carried == IF vec[t.row] = ver[t.row] THEN t.ver ELSE vec[t.row]
    IN  /\ kind' = [r \in Row |-> IF r = n THEN t.kind
                                  ELSE IF r = t.row THEN "absent" ELSE kind[r]]
        /\ ver' = [r \in Row |-> IF r = n THEN t.ver
                                 ELSE IF r = t.row THEN 0 ELSE ver[r]]
        /\ vec' = [r \in Row |->
                     IF r = n THEN CASE t.op = "update" -> vec[r]
                                     [] t.op = "rekey" -> carried
                                     [] OTHER -> NoVec
                     ELSE IF r = t.row THEN NoVec ELSE vec[r]]

\* Jobs inserted by the transaction of s.
OwnJobs(s) == {j \in InState(job, {"open"}) : job[j].row = Target(s)}

Commit(s) ==
    /\ tx[s].op # "none"
    /\ CommitRows(s)
    /\ tx' = [tx EXCEPT ![s] = NoTx]
    /\ job' = [j \in JobId |->
                 IF j \in OwnJobs(s) THEN [job[j] EXCEPT !.st = "pending"] ELSE job[j]]
    /\ UNCHANGED <<clock, dead, reg, wk, item>>

Rollback(s) ==
    /\ tx[s].op # "none"
    /\ tx' = [tx EXCEPT ![s] = NoTx]
    /\ job' = Deleted(job, OwnJobs(s))
    /\ UNCHANGED <<kind, ver, vec, clock, dead, reg, wk, item>>

\* Faulty: the claimed jobs go too.
TruncateClaimed ==
    /\ NoOpenTx
    /\ clock < MaxClock
    /\ clock' = clock + 1
    /\ kind' = [r \in Row |-> "absent"]
    /\ ver' = [r \in Row |-> 0]
    /\ vec' = [r \in Row |-> NoVec]
    /\ job' = [j \in JobId |-> NoJob]
    /\ UNCHANGED <<tx, dead, reg, wk, item>>

\* Faulty: disable() purges jobs_dead.
DisablePurgesDead ==
    /\ NoOpenTx
    /\ reg.state = "active"
    /\ reg' = [reg EXCEPT !.state = "disabled"]
    /\ job' = [j \in JobId |-> NoJob]
    /\ dead' = {}
    /\ UNCHANGED <<kind, ver, vec, clock, tx, wk, item>>

\* Faulty: disable() leaves the claimed jobs to the worker.
DisableKeepsClaimed ==
    /\ NoOpenTx
    /\ reg.state = "active"
    /\ reg' = [reg EXCEPT !.state = "disabled"]
    /\ job' = Deleted(job, Pending(job))
    /\ UNCHANGED <<kind, ver, vec, clock, tx, dead, wk, item>>

\* TRUNCATE holds ACCESS EXCLUSIVE; trg_truncate deletes the pending jobs of
\* an entry that still has its triggers.
Truncate ==
    /\ NoOpenTx
    /\ clock < MaxClock
    /\ clock' = clock + 1
    /\ kind' = [r \in Row |-> "absent"]
    /\ ver' = [r \in Row |-> 0]
    /\ vec' = [r \in Row |-> NoVec]
    /\ job' = IF reg.state = "disabled" THEN job ELSE Deleted(job, Pending(job))
    /\ UNCHANGED <<tx, dead, reg, wk, item>>

-----------------------------------------------------------------------------
(***************************************************************************)
(* Management calls.  Each holds ACCESS EXCLUSIVE on the table while it    *)
(* changes triggers or columns, so that no user transaction is open.       *)
(***************************************************************************)

\* disable(), the vector column kept.
Disable ==
    /\ NoOpenTx
    /\ reg.state = "active"
    /\ reg' = [reg EXCEPT !.state = "disabled"]
    /\ job' = [j \in JobId |-> NoJob]
    /\ UNCHANGED <<kind, ver, vec, clock, tx, dead, wk, item>>

\* The owner of the table drops the vector column, or disable() of a disabled
\* entry does (drop_column => true).
DropColumn ==
    /\ NoOpenTx
    /\ reg.col
    /\ reg' = [reg EXCEPT !.col = FALSE]
    /\ vec' = [r \in Row |-> NoVec]
    /\ UNCHANGED <<kind, ver, clock, tx, job, dead, wk, item>>

\* enable(backfill_mode => 'queue'), which refuses an existing vector column.
\* A registry row without its column is quarantined first; the new row
\* replaces the disabled one, and its jobs and dead letters go with it.
Enable ==
    /\ NoOpenTx
    /\ ~reg.col
    /\ reg.id < MaxReg
    /\ reg' = [id |-> reg.id + 1, state |-> "active", col |-> TRUE]
    /\ dead' = {}
    /\ \E g \in NewJobs({r \in Row : kind[r] \in {"text", "large"}}, JobId \ Items) :
          job' = Inserted([j \in JobId |-> NoJob], g, "pending")
    /\ UNCHANGED <<kind, ver, vec, clock, tx, wk, item>>

\* set_format() of an entry with triggers: every row renders a new text and
\* is enqueued, NULL sources included.
SetFormat ==
    /\ NoOpenTx
    /\ Healthy
    /\ clock < MaxClock
    /\ clock' = clock + 1
    /\ LET present == {r \in Row : kind[r] # "absent"}
       IN  /\ ver' = [r \in Row |-> IF r \in present THEN clock + 1 ELSE ver[r]]
           /\ \E g \in NewJobs(NotPending(job, present), FreeIds) :
                 job' = Inserted(job, g, "pending")
    /\ UNCHANGED <<kind, vec, tx, dead, reg, wk, item>>

\* retry_dead() of the dead letters of the keys in R.
RetryDead(R) ==
    /\ Healthy
    /\ R # {} /\ R \subseteq dead
    /\ ~WaitsForWriter(job, R)
    /\ \E g \in NewJobs(NotPending(job, R), FreeIds) :
          job' = Inserted(job, g, "pending")
    /\ dead' = dead \ R
    /\ UNCHANGED <<kind, ver, vec, clock, tx, reg, wk, item>>

-----------------------------------------------------------------------------
(***************************************************************************)
(* The worker, run_one_cycle: claim and read, embed, write back.           *)
(***************************************************************************)

\* A claim is older than postvec.job_visibility_timeout.
Expire(j) ==
    /\ job[j].st = "claimed"
    /\ job' = [job EXCEPT ![j].st = "stale"]
    /\ UNCHANGED <<kind, ver, vec, clock, tx, dead, reg, wk, item>>

\* claim_and_read after C was claimed in q: over-cap rows are dead letters,
\* D is deferred, the rest is the batch.  No other job of a key of D is
\* unclaimed, so all of D goes back.
ReadBatch(q, C, D) ==
    LET large == {j \in C : kind[q[j].row] = "large"}
        batch == C \ (large \union D)
    IN  /\ job' = Defer(Deleted(Claimed(q, C), large), D, D)
        /\ dead' = dead \union RowsOf(job, Exhausted(job, Stale(job))) \union RowsOf(q, large)
        /\ item' = [j \in JobId |->
                      IF j \in batch
                      THEN [row |-> q[j].row, ver |-> ver[q[j].row],
                            out |-> IF kind[q[j].row] = "text" THEN "read" ELSE "null"]
                      ELSE NoItem]
        /\ wk' = IF batch = {} THEN Idle
                 ELSE [phase |-> "embed", reg |-> reg.id, txn |-> {}, seen |-> FALSE]

\* reclaim_stale: exhausted claims become dead letters, the others pending.
Reclaimed(K) ==
    LET spent == Exhausted(job, Stale(job))
    IN  Unclaim(Deleted(job, spent), Stale(job) \ spent, K)

Claim(K, C, D) ==
    /\ wk.phase = "idle"
    /\ Healthy
    /\ LET back == Stale(job) \ Exhausted(job, Stale(job))
           q    == Reclaimed(K)
       IN  /\ ~WaitsForWriter(job, RowsOf(job, back))
           /\ K \in Survivors(job, back)
           /\ C \subseteq Pending(q) /\ Cardinality(C) <= BatchSize
           /\ C # {} \/ Stale(job) # {}
           /\ D \subseteq {j \in C : kind[q[j].row] = "text"}
           /\ ReadBatch(q, C, D)
    /\ UNCHANGED <<kind, ver, vec, clock, tx, reg>>

\* quarantine_entry: the worker takes entry id out of service.  It drops the
\* triggers, so it too needs ACCESS EXCLUSIVE.
Quarantine(id) ==
    /\ NoOpenTx
    /\ ~reg.col
    /\ reg' = IF reg.id = id THEN [reg EXCEPT !.state = "disabled"] ELSE reg
    /\ job' = IF reg.id = id THEN [j \in JobId |-> NoJob] ELSE job
    /\ UNCHANGED <<kind, ver, vec, clock, tx, dead>>

ClaimQuarantines ==
    /\ wk.phase = "idle"
    /\ Pending(job) # {} \/ Stale(job) # {}
    /\ Quarantine(reg.id)
    /\ UNCHANGED <<wk, item>>

\* The network phase, embed_with_bisection: an outcome for every text.
Embed ==
    /\ wk.phase = "embed"
    /\ \E f \in [{j \in Items : item[j].out = "read"} -> {"ok", "dead", "retry"}] :
          item' = [j \in JobId |->
                     IF j \in DOMAIN f THEN [item[j] EXCEPT !.out = f[j]] ELSE item[j]]
    /\ wk' = [wk EXCEPT !.phase = "apply"]
    /\ UNCHANGED <<kind, ver, vec, clock, tx, job, dead, reg>>

\* The registry row of the batch exists and is not disabled.
EntryLive == reg.id = wk.reg /\ reg.state # "disabled"

\* apply_group, up to the lock on the relation: the entry is loaded, and its
\* state is not read again.
LoadEntry(from, to, J) ==
    /\ wk.phase = from
    /\ wk' = [wk EXCEPT !.phase = to, !.txn = J, !.seen = EntryLive]
    /\ UNCHANGED <<kind, ver, vec, clock, tx, job, dead, reg, item>>

ApplyLoad == LoadEntry("apply", "write", Items)

RowLoad(j) == j \in Items /\ LoadEntry("rows", "row", {j})

\* The batch is left with the items outside J.
Done(J) ==
    /\ item' = [j \in JobId |-> IF j \in J THEN NoItem ELSE item[j]]
    /\ wk' = IF Items \subseteq J THEN Idle
             ELSE [wk EXCEPT !.phase = "rows", !.txn = {}, !.seen = FALSE]

WithOut(o) == {j \in wk.txn : item[j].out = o}

\* The items of J whose row the UPDATE of the write-back finds.  It names the
\* table, the column and the key, not the entry.
Found(J) == {j \in J : kind[item[j].row] # "absent"}

\* apply_group, writing: NULL rows are nulled, embedded ones get their
\* vector, failed ones are released or become dead letters; one transaction.
Write ==
    LET have  == wk.txn \intersect InFlight(job)
        spent == Exhausted(job, WithOut("retry") \intersect have)
        gone  == (WithOut("dead") \intersect have) \union spent
        back  == (WithOut("retry") \intersect have) \ spent
        done  == WithOut("null") \union WithOut("ok")
        found == Found(done)
    IN  /\ \A j \in found : ~RowLocked(item[j].row)
        /\ ~WaitsForWriter(job, RowsOf(job, back))
        /\ vec' = [r \in Row |->
                     IF \E j \in found : item[j].row = r
                     THEN LET j == CHOOSE j \in found : item[j].row = r
                          IN  IF item[j].out = "ok" THEN item[j].ver ELSE NoVec
                     ELSE vec[r]]
        /\ dead' = dead \union RowsOf(job, gone)
        /\ \E K \in Survivors(job, back) :
              job' = Unclaim(Deleted(job, done \union gone), back, K)

WriteBack ==
    /\ wk.phase \in {"write", "row"}
    /\ wk.seen
    /\ reg.col
    /\ Write
    /\ Done(wk.txn)
    /\ UNCHANGED <<kind, ver, clock, tx, reg>>

\* The entry was gone or disabled: its jobs are dropped, nothing is written.
WriteNothing ==
    /\ wk.phase \in {"write", "row"}
    /\ ~wk.seen
    /\ job' = Deleted(job, wk.txn)
    /\ Done(wk.txn)
    /\ UNCHANGED <<kind, ver, vec, clock, tx, dead, reg>>

\* The column is missing under the lock.
WriteQuarantines ==
    /\ wk.phase \in {"write", "row"}
    /\ wk.seen
    /\ Quarantine(wk.reg)
    /\ Done(wk.txn)

\* The transaction aborts (lock_timeout, a constraint, a raising trigger):
\* the batch is applied row by row, and a single row is released.
WriteAborts ==
    /\ wk.phase \in {"write", "row"}
    /\ wk' = [wk EXCEPT !.phase = IF wk.phase = "write" THEN "rows" ELSE "release",
                        !.txn = IF wk.phase = "write" THEN {} ELSE wk.txn,
                        !.seen = FALSE]
    /\ UNCHANGED <<kind, ver, vec, clock, tx, job, dead, reg, item>>

\* release_failed_group of the one job whose write failed.
Release ==
    /\ wk.phase = "release"
    /\ LET have == wk.txn \intersect InFlight(job)
           gone == Exhausted(job, have)
           back == have \ gone
       IN  /\ ~WaitsForWriter(job, RowsOf(job, back))
           /\ dead' = dead \union RowsOf(job, gone)
           /\ \E K \in Survivors(job, back) :
                 job' = Unclaim(Deleted(job, gone), back, K)
    /\ Done(wk.txn)
    /\ UNCHANGED <<kind, ver, vec, clock, tx, reg>>

\* The release fails too: the claim is left to the visibility timeout.
ReleaseAborts ==
    /\ wk.phase = "release"
    /\ Done(wk.txn)
    /\ UNCHANGED <<kind, ver, vec, clock, tx, job, dead, reg>>

\* The process ends with the batch in memory: crash, restart or SIGTERM.
Crash ==
    /\ wk.phase # "idle"
    /\ wk' = Idle
    /\ item' = [j \in JobId |-> NoItem]
    /\ UNCHANGED <<kind, ver, vec, clock, tx, job, dead, reg>>

-----------------------------------------------------------------------------

UserStep(s) ==
    \/ \E r \in Row, k \in Kind : Insert(s, r, k) \/ Update(s, r, k)
    \/ \E r \in Row : Delete(s, r)
    \/ \E r, d \in Row : Rekey(s, r, d)
    \/ Commit(s)
    \/ Rollback(s)

Manage ==
    \/ Truncate
    \/ Disable
    \/ DropColumn
    \/ Enable
    \/ SetFormat
    \/ \E R \in SUBSET Row : RetryDead(R)

ClaimStep == \E K, C, D \in SUBSET JobId : Claim(K, C, D)

WorkerStep ==
    \/ ClaimStep
    \/ ClaimQuarantines
    \/ Embed
    \/ ApplyLoad
    \/ \E j \in JobId : RowLoad(j)
    \/ WriteBack
    \/ WriteNothing
    \/ WriteQuarantines
    \/ WriteAborts
    \/ Release
    \/ ReleaseAborts
    \/ Crash

Next ==
    \/ \E s \in Session : UserStep(s)
    \/ Manage
    \/ WorkerStep
    \/ \E j \in JobId : Expire(j)

Spec == Init /\ [][Next]_vars

-----------------------------------------------------------------------------
(***************************************************************************)
(* Properties.                                                             *)
(***************************************************************************)

\* The index jobs_pending_dedup holds through every claim, release, reclaim,
\* deferral and trigger: a key has one unclaimed job, uncommitted ones
\* included.
OneUnclaimedPerRow == OneUnclaimed(job)

\* Whatever fails and however often the worker dies, a job is claimed at
\* most max_retries + 1 times before it is a dead letter.
AttemptsBounded == Bounded(job)

\* While the entry of the batch is in service, every item of the worker still
\* owns its claimed job, and no two items are of the same key: nobody deletes,
\* releases or re-claims a job behind the worker's back.
BatchOwned ==
    /\ EntryLive => \A j \in Items : j \in InFlight(job) /\ job[j].row = item[j].row
    /\ \A i, j \in Items : item[i].row = item[j].row => i = j

\* Items whose write-back can still reach key r.
Writers(r) ==
    {j \in Items : item[j].row = r /\ (wk.reg = reg.id \/ (wk.seen /\ j \in wk.txn))}

\* The stored vector is the one of the committed text.
Current(r) ==
    \/ kind[r] = "null" /\ vec[r] = NoVec
    \/ kind[r] = "text" /\ vec[r] = ver[r]

\* Something will still bring key r up to date, or shows that it is not: a
\* pending job, a claim the visibility timeout returns, a dead letter, an
\* item of the batch read from the committed text; or r is up to date and
\* no item can overwrite it.
Tracked(r) ==
    \/ ~Healthy \/ kind[r] = "absent"
    \/ r \in PendingRows(job)
    \/ r \in dead
    \/ r \in RowsOf(job, InFlight(job) \ Items)
    \/ \E j \in Writers(r) : wk.reg = reg.id /\ item[j].ver = ver[r]
    \/ Current(r) /\ \A j \in Writers(r) : kind[r] = "null" /\ item[j].out = "null"

\* A commit whose trigger relied on a job that was pending when the statement
\* ran, or enqueued nothing for a NULL source while the batch holds a text
\* that was read at the same key.
Overtaken(s, r) ==
    /\ tx[s].op # "none" /\ tx'[s].op = "none" /\ r = Target(s)
    /\ OwnJobs(s) = {}
    /\ tx[s].op = "insert" /\ tx[s].kind = "null" =>
          \E j \in Writers(r) : item[j].out # "null"

\* A re-enable while a write-back of the disabled entry waits for the lock.
Resurrected(r) ==
    reg'.id # reg.id /\ kind[r] = "null" /\ wk.seen /\ Writers(r) # {}

\* No step loses track of a key, except the two above: claims, deferrals,
\* retries, aborts, crashes, reclaims, truncates, set_format() and
\* retry_dead() never leave a key with a vector that is not of its text and
\* nothing queued to repair it.
StaysTracked ==
    [][\A r \in Row : Tracked(r) =>
          Tracked(r)' \/ Resurrected(r) \/ \E s \in Session : Overtaken(s, r)]_vars

\* A dead letter leaves jobs_dead only for a pending job of the same key
\* (retry_dead) or with its registry row: TRUNCATE, disable() and later
\* successes keep it.
DeadLettersKept ==
    [][\A r \in dead \ dead' : r \in PendingRows(job)' \/ reg'.id # reg.id]_vars

\* docs/concepts/consistency.md: an entry with no job, no dead letter and
\* every row filled is ready, so its vectors are those of the texts.
ReadyIsCurrent ==
    /\ Healthy /\ NoOpenTx /\ dead = {}
    /\ \A j \in JobId : job[j].st = "free"
    /\ \A r \in Row : kind[r] = "text" => vec[r] # NoVec
    => \A r \in Row : kind[r] = "text" => vec[r] = ver[r]

-----------------------------------------------------------------------------
(***************************************************************************)
(* The inductive invariant behind the safety properties.                   *)
(***************************************************************************)

\* Open transactions exclude each other on the keys they touch.
TxInv ==
    /\ \A s \in Session :
          /\ tx[s].op = "none" => tx[s] = NoTx
          /\ tx[s].op # "none" => tx[s].row \in Row
          /\ tx[s].op = "rekey" => tx[s].dst \in Row /\ tx[s].dst # tx[s].row
          /\ tx[s].op # "rekey" => tx[s].dst = NoRow
    /\ \A s, u \in Session : s # u => Touched(s) \intersect Touched(u) = {}

\* An uncommitted job belongs to an open transaction on its key.
OpenInv ==
    \A j \in JobId : job[j].st = "open" =>
        \E s \in Session : tx[s].op # "none" /\ Target(s) = job[j].row

\* The batch, the phase and the write-back transaction fit together.
WorkerInv ==
    /\ wk.phase = "idle" => Items = {}
    /\ wk.txn \subseteq Items
    /\ wk.txn # {} => wk.phase \in {"write", "row", "release"}
    /\ wk.seen => wk.phase \in {"write", "row"}
    /\ wk.phase \in {"write", "row"} /\ ~wk.seen => ~EntryLive
    /\ wk.reg <= reg.id
    /\ \A j \in Items :
          /\ item[j].row \in Row
          /\ IF wk.phase = "embed" THEN item[j].out \in {"read", "null"}
                                   ELSE item[j].out # "read"
    /\ \A i, j \in Items : item[i].row = item[j].row => i = j

\* An item owns its job until the entry goes, and the identity of the job is
\* not used again.
BatchInv ==
    \A j \in Items :
        IF EntryLive THEN j \in InFlight(job) /\ job[j].row = item[j].row
                     ELSE job[j].st = "free"

DisabledInv == reg.state = "disabled" => \A j \in JobId : job[j].st = "free"

Inv == TypeOK /\ QueueInv(job) /\ TxInv /\ OpenInv /\ WorkerInv /\ BatchInv /\ DisabledInv

\* What a transaction is about to do to its rows.
IntentInv ==
    \A s \in Session :
        /\ tx[s].op = "insert" => kind[tx[s].row] = "absent"
        /\ tx[s].op \in {"update", "delete", "rekey"} => kind[tx[s].row] # "absent"
        /\ tx[s].op = "rekey" => kind[tx[s].dst] = "absent"
        /\ tx[s].op = "delete" => tx[s].kind = "absent" /\ tx[s].ver = 0
        /\ tx[s].op \in {"insert", "update", "rekey"} =>
              tx[s].kind # "absent" /\ tx[s].ver # 0 /\ tx[s].ver <= clock

\* A version names one text of a key: an item with the version of its row was
\* read from the row's text, and an open transaction brings a version that no
\* item has read.
VersionInv ==
    /\ \A r \in Row : ver[r] <= clock /\ (kind[r] = "absent" <=> ver[r] = 0)
    /\ \A j \in Items : item[j].ver <= clock
    /\ \A s \in Session : tx[s].op \in {"insert", "update", "rekey"} =>
          /\ tx[s].ver # ver[Target(s)]
          /\ \A j \in Items : item[j].row = Target(s) => item[j].ver # tx[s].ver
    /\ \A j \in Items :
          item[j].ver = ver[item[j].row] /\ kind[item[j].row] # "absent" =>
              kind[item[j].row] = IF item[j].out = "null" THEN "null" ELSE "text"

\* A column that is gone has no vectors, and a new one starts empty.
ColumnInv == ~reg.col => \A r \in Row : vec[r] = NoVec

\* All of it: the shape of the queue, of open transactions and of the batch,
\* and what their versions say of the texts.
FullInv == Inv /\ IntentInv /\ VersionInv /\ ColumnInv

=============================================================================
