---------------------------- MODULE ManagedQueue ----------------------------
(***************************************************************************)
(* Managed mode: the queue of one column-mode entry of a database without  *)
(* the extension, drained by postvec-server over SQL.                      *)
(*                                                                         *)
(* Several servers serve the database.  The one whose session holds the    *)
(* leader lock claims jobs, reads the sources with their row versions      *)
(* (xmin), commits, calls the model and writes back in a second            *)
(* transaction, where the row version has to be the one it read.  Every    *)
(* transaction of a server is one action; statements and commits of users  *)
(* fall between them.                                                      *)
(*                                                                         *)
(* Job ids of the database are never used twice, those of the model are:   *)
(* an item whose job was deleted or re-inserted by someone else is no      *)
(* longer "held", which is what the id in the server's memory would find.  *)
(***************************************************************************)
EXTENDS JobTable, Integers

CONSTANTS
    Server, NoServer,  \* postvec-server processes of the fleet
    Session,           \* user sessions
    BatchSize,         \* batch_size of the managed database
    MaxStatements,     \* bound on the statements of users
    MaxFaults,         \* bound on crashes, lost locks and rejected batches
    ReuseKeys          \* whether a deleted key is ever inserted again

ASSUME NoServerAssumption == NoServer \notin Server

VARIABLES
    kind,    \* row |-> what its source column holds
    ver,     \* row |-> the transaction that wrote the text
    vec,     \* row |-> the text version of the stored vector
    xmin,    \* row |-> the last transaction that wrote the row
    xid,     \* last transaction id
    stmts,   \* statements of users so far
    tx,      \* session |-> its open transaction
    job,     \* postvec.jobs
    dead,    \* row |-> number of its rows in postvec.jobs_dead
    reg,     \* the registry entry
    lock,    \* server whose backend holds the leader lock
    srv,     \* server |-> phase of its session
    item,    \* server |-> job |-> what it keeps in memory about a claimed job
    faults

rowVars == <<kind, ver, vec, xmin, xid>>
vars == <<kind, ver, vec, xmin, xid, stmts, tx, job, dead, reg, lock, srv, item, faults>>

NoVec == 0

\* "absent" was never inserted, "deleted" was.
Missing == {"absent", "deleted"}
Present == {"text", "null", "large"}

Op == {"none", "insert", "update", "touch", "delete", "rekey"}

Tx == [op: Op, row: Row \union {NoRow}, dst: Row \union {NoRow},
       kind: Missing \union Present, xid: Nat, drop: SUBSET JobId, clear: [Row -> Nat]]

NoTx == [op |-> "none", row |-> NoRow, dst |-> NoRow, kind |-> "absent", xid |-> 0,
         drop |-> {}, clear |-> [r \in Row |-> 0]]

Phase == {"standby", "lead", "infer", "write", "rows", "release", "quarantine"}

\* out: "large" is oversized, "none" a NULL text or no row, "read" not embedded yet.
Item == [row: Row \union {NoRow}, ver: Nat, seen: Nat, held: BOOLEAN,
         out: {"none", "large", "read", "ok", "dead", "retry"}]

NoItem == [row |-> NoRow, ver |-> 0, seen |-> 0, held |-> FALSE, out |-> "none"]

Items(s) == {j \in JobId : item[s][j].row # NoRow}
Held(s)  == {j \in Items(s) : item[s][j].held}

FreeIds == InState(job, {"free"}) \ UNION {Items(s) : s \in Server}

NoOpenTx == \A s \in Session : tx[s].op = "none"

Touches(s, r) == tx[s].op # "none" /\ r \in {tx[s].row, tx[s].dst}
RowLocked(r)  == \E s \in Session : Touches(s, r)

\* Jobs deleted by a transaction that has not committed.
Dropped == UNION {tx[s].drop : s \in Session}

\* INSERT ... ON CONFLICT for the keys R waits for the transaction that
\* inserted or deleted an unclaimed job of one of them.
Waits(R) == WaitsForWriter(job, R) \/ R \intersect RowsOf(job, Dropped) # {}

\* The entry is in the registry and not disabled.
Registered == reg \in {"active", "broken"}

-----------------------------------------------------------------------------
(***************************************************************************)
(* Users.  The trigger _enqueue runs with the statement.                   *)
(***************************************************************************)

\* A table that enable(backfill_mode => 'queue') has just registered.
Init ==
    /\ kind \in [Row -> {"absent", "text"}]
    /\ ver = [r \in Row |-> IF kind[r] = "text" THEN 1 ELSE 0]
    /\ vec = [r \in Row |-> NoVec]
    /\ xmin = ver
    /\ xid = 1
    /\ stmts = 0
    /\ tx = [s \in Session |-> NoTx]
    /\ \E g \in NewJobs({r \in Row : kind[r] = "text"}, JobId) :
          job = Inserted([j \in JobId |-> NoJob], g, "pending")
    /\ dead = [r \in Row |-> 0]
    /\ reg = "active"
    /\ lock = NoServer
    /\ srv = [s \in Server |-> "standby"]
    /\ item = [s \in Server |-> [j \in JobId |-> NoItem]]
    /\ faults = 0

\* A statement of session s: t its transaction, Q the keys it enqueues.
Statement(s, t, Q) ==
    /\ tx[s].op = "none"
    /\ stmts < MaxStatements
    /\ stmts' = stmts + 1
    /\ xid' = xid + 1
    /\ tx' = [tx EXCEPT ![s] = t]
    /\ LET enqueued == IF Registered THEN Q ELSE {}
       IN  /\ ~Waits(enqueued)
           /\ \E g \in NewJobs(NotPending(job, enqueued), FreeIds) :
                 job' = Inserted(job, g, "open")
    /\ UNCHANGED <<kind, ver, vec, xmin, dead, reg, lock, srv, item, faults>>

Free(r) ==
    /\ kind[r] \in IF ReuseKeys THEN Missing ELSE {"absent"}
    /\ ~RowLocked(r)

Change(op, r, d, k) ==
    [op |-> op, row |-> r, dst |-> d, kind |-> k, xid |-> xid + 1,
     drop |-> IF op \in {"delete", "rekey"} /\ Registered
              THEN {j \in Pending(job) : job[j].row = r} ELSE {},
     clear |-> [x \in Row |-> IF /\ Registered
                                 /\ op \in {"update", "delete", "rekey"}
                                 /\ x \in {r, d}
                              THEN dead[x] ELSE 0]]

\* INSERT: rows with a NULL source are not enqueued.
Insert(s, r, k) ==
    /\ Free(r)
    /\ Statement(s, Change("insert", r, NoRow, k), IF k = "null" THEN {} ELSE {r})

\* UPDATE of a referenced column.
Update(s, r, k) ==
    /\ kind[r] \in Present /\ ~RowLocked(r)
    /\ Statement(s, Change("update", r, NoRow, k), {r})

\* UPDATE of another column: the row has a new version and no job.
Touch(s, r) ==
    /\ kind[r] \in Present /\ ~RowLocked(r)
    /\ Statement(s, Change("touch", r, NoRow, kind[r]), {})

\* DELETE takes the unclaimed job and the dead letters of the row with it.
Delete(s, r) ==
    /\ kind[r] \in Present /\ ~RowLocked(r)
    /\ Statement(s, Change("delete", r, NoRow, "deleted"), {})

\* Faulty: only the statement trigger, which joins old and new rows by key.
RekeyByStatement(s, r, d) ==
    /\ kind[r] \in Present /\ ~RowLocked(r)
    /\ Free(d)
    /\ Statement(s, Change("rekey", r, d, kind[r]), {})

\* UPDATE of the primary key: DELETE for the old key, a job for the new one.
Rekey(s, r, d) ==
    /\ kind[r] \in Present /\ ~RowLocked(r)
    /\ Free(d)
    /\ Statement(s, Change("rekey", r, d, kind[r]), {d})

Target(s) == IF tx[s].op = "rekey" THEN tx[s].dst ELSE tx[s].row

CommitRows(s) ==
    LET t == tx[s]
        n == Target(s)
        text == IF t.op \in {"touch", "rekey"} THEN ver[t.row]
                ELSE IF t.kind = "deleted" THEN 0 ELSE t.xid
        old == IF t.op \in {"update", "touch", "rekey"} THEN vec[t.row] ELSE NoVec
        Set(f, new, none) == [r \in Row |-> IF r = n THEN new
                                            ELSE IF r = t.row THEN none ELSE f[r]]
    IN  /\ kind' = Set(kind, t.kind, "deleted")
        /\ ver' = Set(ver, text, 0)
        /\ vec' = Set(vec, old, NoVec)
        /\ xmin' = Set(xmin, IF t.kind = "deleted" THEN 0 ELSE t.xid, 0)

OwnJobs(s) == {j \in InState(job, {"open"}) : job[j].row = Target(s)}

Commit(s) ==
    /\ tx[s].op # "none"
    /\ CommitRows(s)
    /\ tx' = [tx EXCEPT ![s] = NoTx]
    /\ job' = [j \in JobId |->
                 IF j \in OwnJobs(s) THEN [job[j] EXCEPT !.st = "pending"]
                 ELSE IF j \in tx[s].drop THEN NoJob ELSE job[j]]
    /\ dead' = [r \in Row |-> dead[r] - tx[s].clear[r]]
    /\ UNCHANGED <<xid, stmts, reg, lock, srv, item, faults>>

Rollback(s) ==
    /\ tx[s].op # "none"
    /\ tx' = [tx EXCEPT ![s] = NoTx]
    /\ job' = Deleted(job, OwnJobs(s))
    /\ UNCHANGED <<rowVars, stmts, dead, reg, lock, srv, item, faults>>

\* TRUNCATE and its trigger trg_truncate: the unclaimed jobs go.
Truncate ==
    /\ NoOpenTx
    /\ stmts < MaxStatements
    /\ stmts' = stmts + 1
    /\ kind' = [r \in Row |-> IF kind[r] = "absent" THEN "absent" ELSE "deleted"]
    /\ ver' = [r \in Row |-> 0]
    /\ vec' = [r \in Row |-> NoVec]
    /\ xmin' = [r \in Row |-> 0]
    /\ job' = IF reg = "gone" THEN job ELSE Deleted(job, Pending(job))
    /\ UNCHANGED <<xid, tx, dead, reg, lock, srv, item, faults>>

\* retry_dead() of every dead letter of the keys in R.
RetryDead(R) ==
    /\ reg = "active"
    /\ stmts < MaxStatements
    /\ stmts' = stmts + 1
    /\ R # {} /\ \A r \in R : dead[r] > 0
    /\ \A s \in Session, r \in R : tx[s].clear[r] = 0
    /\ ~Waits(R)
    /\ \E g \in NewJobs(NotPending(job, R), FreeIds) : job' = Inserted(job, g, "pending")
    /\ dead' = [r \in Row |-> IF r \in R THEN 0 ELSE dead[r]]
    /\ UNCHANGED <<rowVars, tx, reg, lock, srv, item, faults>>

\* Items of the jobs J are no longer held, except by server s.
LoseItems(s, J) ==
    [t \in Server |-> [j \in JobId |->
        IF t # s /\ j \in J THEN [item[t][j] EXCEPT !.held = FALSE] ELSE item[t][j]]]

\* disable() deletes the registry row, its jobs and its dead letters.
Disable ==
    /\ NoOpenTx
    /\ reg # "gone"
    /\ reg' = "gone"
    /\ job' = [j \in JobId |-> NoJob]
    /\ dead' = [r \in Row |-> 0]
    /\ item' = LoseItems(NoServer, JobId)
    /\ UNCHANGED <<rowVars, stmts, tx, lock, srv, faults>>

\* The owner drops the vector column.
DropColumn ==
    /\ NoOpenTx
    /\ reg = "active"
    /\ reg' = "broken"
    /\ vec' = [r \in Row |-> NoVec]
    /\ UNCHANGED <<kind, ver, xmin, xid, stmts, tx, job, dead, lock, srv, item, faults>>

-----------------------------------------------------------------------------
(***************************************************************************)
(* The session of a server.                                                *)
(***************************************************************************)

\* The session ends; its connection, and the lock with it, are gone.
EndSession(s) ==
    /\ srv' = [srv EXCEPT ![s] = "standby"]
    /\ item' = [item EXCEPT ![s] = [j \in JobId |-> NoItem]]

\* session: a standby takes the free leader lock and ages every claim of its
\* predecessor past the visibility timeout.
Elect(s) ==
    /\ srv[s] = "standby"
    /\ lock = NoServer
    /\ lock' = s
    /\ srv' = [srv EXCEPT ![s] = "lead"]
    /\ job' = [j \in JobId |->
                 IF job[j].st = "claimed" THEN [job[j] EXCEPT !.st = "stale"] ELSE job[j]]
    /\ UNCHANGED <<rowVars, stmts, tx, dead, reg, item, faults>>

\* The backend that holds the lock goes away under the session, behind a
\* transaction pooler.
LoseLock(s) ==
    /\ lock = s
    /\ faults < MaxFaults
    /\ faults' = faults + 1
    /\ lock' = NoServer
    /\ UNCHANGED <<rowVars, stmts, tx, job, dead, reg, srv, item>>

\* The next guard() refuses, or heartbeat sees the lock gone and notifies.
LockLost(s) ==
    /\ srv[s] # "standby"
    /\ lock # s
    /\ EndSession(s)
    /\ UNCHANGED <<rowVars, stmts, tx, job, dead, reg, lock, faults>>

\* The server stops, or its connection breaks.
Crash(s) ==
    /\ srv[s] # "standby"
    /\ faults < MaxFaults
    /\ faults' = faults + 1
    /\ lock' = IF lock = s THEN NoServer ELSE lock
    /\ EndSession(s)
    /\ UNCHANGED <<rowVars, stmts, tx, job, dead, reg>>

\* A claim older than the visibility timeout.
Expire(j) ==
    /\ job[j].st = "claimed"
    /\ job' = [job EXCEPT ![j].st = "stale"]
    /\ UNCHANGED <<rowVars, stmts, tx, dead, reg, lock, srv, item, faults>>

-----------------------------------------------------------------------------
(***************************************************************************)
(* step: claim and read, infer, write back.                                *)
(***************************************************************************)

Spent == Exhausted(job, Stale(job))
Back  == Stale(job) \ Spent

\* Faulty: stale claims that can be retried stay claimed.
ReclaimedSpent(K) == Deleted(job, Spent)

\* Stale claims become dead letters or, re-inserted, pending.
Reclaimed(K) == Unclaim(Deleted(job, Spent), Back, K)

AddDead(R) == [r \in Row |-> dead[r] + IF r \in R THEN 1 ELSE 0]

Read(r) ==
    [row  |-> r,
     ver  |-> ver[r],
     seen |-> IF kind[r] \in Present THEN xmin[r] ELSE 0,
     held |-> TRUE,
     out  |-> CASE kind[r] = "text" -> "read" [] kind[r] = "large" -> "large" [] OTHER -> "none"]

\* Transaction A: C is claimed, and D of it is over the byte budget of the
\* batch and goes back at once.
Claim(s, K, C, D) ==
    /\ srv[s] = "lead" /\ lock = s
    /\ ~Waits(RowsOf(job, Back))
    /\ K \in Survivors(job, Back)
    /\ LET q == Reclaimed(K)
       IN  /\ C \subseteq Pending(q) \ Dropped
           /\ Cardinality(C) <= BatchSize
           /\ C # {} => reg = "active"
           /\ C # {} \/ Stale(job) # {}
           /\ D \subseteq C /\ (C # {} => D # C)
           /\ job' = Defer(Claimed(q, C), D, D)
           /\ item' = [LoseItems(s, Stale(job)) EXCEPT ![s] =
                         [j \in JobId |-> IF j \in C \ D THEN Read(q[j].row) ELSE NoItem]]
    /\ dead' = [r \in Row |-> dead[r] + Cardinality({j \in Spent : job[j].row = r})]
    /\ srv' = [srv EXCEPT ![s] = IF C = {} THEN "lead" ELSE "infer"]
    /\ UNCHANGED <<rowVars, stmts, tx, reg, lock, faults>>

\* entry() finds the vector column gone.
FoundBroken(s) ==
    /\ \/ srv[s] = "lead" /\ (Pending(job) # {} \/ Back # {})
       \/ srv[s] \in {"write", "rows"}
    /\ lock = s
    /\ reg = "broken"
    /\ srv' = [srv EXCEPT ![s] = "quarantine"]
    /\ UNCHANGED <<rowVars, stmts, tx, job, dead, reg, lock, item, faults>>

\* quarantine_or_error: the entry is disabled and its committed jobs deleted.
Quarantine(s) ==
    /\ srv[s] = "quarantine" /\ lock = s
    /\ Dropped = {}
    /\ reg' = IF reg = "gone" THEN "gone" ELSE "disabled"
    /\ LET gone == Pending(job) \union InFlight(job)
       IN  /\ job' = Deleted(job, gone)
           /\ item' = [LoseItems(s, gone) EXCEPT ![s] = [j \in JobId |-> NoItem]]
    /\ srv' = [srv EXCEPT ![s] = "lead"]
    /\ UNCHANGED <<rowVars, stmts, tx, dead, lock, faults>>

\* infer: an outcome for every text; wrong dimensions and poison rows are dead.
Infer(s) ==
    /\ srv[s] = "infer"
    /\ \E f \in [{j \in Items(s) : item[s][j].out = "read"} -> {"ok", "dead", "retry"}] :
          item' = [item EXCEPT ![s] = [j \in JobId |->
                     IF j \in DOMAIN f THEN [item[s][j] EXCEPT !.out = f[j]] ELSE item[s][j]]]
    /\ srv' = [srv EXCEPT ![s] = "write"]
    /\ UNCHANGED <<rowVars, stmts, tx, job, dead, reg, lock, faults>>

\* Items of s in J whose job still exists and is claimed, with an outcome in O.
Ready(s, O) == {j \in Held(s) \intersect InFlight(job) : item[s][j].out \in O}

\* Faulty: UPDATE ... WHERE key, without the row version.
SameKey(s, j) == kind[item[s][j].row] \in Present

\* The row still is what the server read.
SameVersion(s, j) ==
    /\ kind[item[s][j].row] \in Present
    /\ xmin[item[s][j].row] = item[s][j].seen

\* The vectors of the rows that the items J find.
Written(s, J) ==
    [r \in Row |-> IF \E j \in J : item[s][j].row = r
                   THEN LET i == item[s][CHOOSE j \in J : item[s][j].row = r]
                        IN  IF i.out = "ok" THEN i.ver ELSE NoVec
                   ELSE vec[r]]

\* release of J with backoff and of M, whose attempt is refunded, after the
\* jobs F are finished; G of J have used up their attempts.
Released(F, J, M) ==
    LET G == Exhausted(job, J)
        U == (J \ G) \union M
    IN  /\ ~Waits(RowsOf(job, U))
        /\ \E K \in Survivors(job, U) :
              job' = Defer(Unclaim(Deleted(job, F \union G), U \ M, K \ M), M, K \intersect M)

\* Faulty: the row version is compared after the UPDATE.
WriteThenCheck(s, X) ==
    LET update == {j \in Ready(s, {"ok", "none"}) : item[s][j].seen # 0} \ X
        hit    == {j \in update : SameVersion(s, j)}
        nobody == {j \in Ready(s, {"none"}) : item[s][j].seen = 0}
        failed == Ready(s, {"dead", "large"})
        again  == Ready(s, {"retry"}) \union X
    IN  /\ \A j \in update : ~RowLocked(item[s][j].row)
        /\ vec' = Written(s, {j \in update : SameKey(s, j)})
        /\ UNCHANGED <<xmin, xid>>
        /\ Released(hit \union nobody \union failed, again, update \ hit)
        /\ dead' = AddDead(RowsOf(job, failed \union Exhausted(job, again)))

\* write_back: X are the rows whose UPDATE the table rejects, or that stay
\* locked for longer than lock_timeout.
Write(s, X) ==
    LET update == {j \in Ready(s, {"ok", "none"}) : item[s][j].seen # 0} \ X
        hit    == {j \in update : SameVersion(s, j)}
        nobody == {j \in Ready(s, {"none"}) : item[s][j].seen = 0}
        failed == Ready(s, {"dead", "large"})
        again  == Ready(s, {"retry"}) \union X
    IN  /\ \A j \in hit : ~RowLocked(item[s][j].row)
        /\ vec' = Written(s, hit)
        /\ xmin' = [r \in Row |-> IF \E j \in hit : item[s][j].row = r THEN xid + 1 ELSE xmin[r]]
        /\ xid' = IF hit = {} THEN xid ELSE xid + 1
        /\ Released(hit \union nobody \union failed, again, update \ hit)
        /\ dead' = AddDead(RowsOf(job, failed \union Exhausted(job, again)))

WriteBack(s, X) ==
    /\ lock = s
    /\ \/ srv[s] = "write" /\ X = {}
       \/ srv[s] = "rows" /\ X \subseteq {j \in Ready(s, {"ok", "none"}) : item[s][j].seen # 0}
    /\ reg = "active"
    /\ Write(s, X)
    /\ item' = [item EXCEPT ![s] = [j \in JobId |-> NoItem]]
    /\ srv' = [srv EXCEPT ![s] = "lead"]
    /\ UNCHANGED <<kind, ver, stmts, tx, reg, lock, faults>>

\* The entry was disabled meanwhile: nothing is written.
WriteNothing(s) ==
    /\ srv[s] \in {"write", "rows"} /\ lock = s
    /\ ~Registered
    /\ item' = [item EXCEPT ![s] = [j \in JobId |-> NoItem]]
    /\ srv' = [srv EXCEPT ![s] = "lead"]
    /\ UNCHANGED <<rowVars, stmts, tx, job, dead, reg, lock, faults>>

\* The database rejects the whole transaction: again row by row, and then
\* the batch is given up.  The bound counts the first of the two.
Rejected(s) ==
    /\ srv[s] \in {"write", "rows"} /\ lock = s
    /\ srv[s] = "write" => faults < MaxFaults
    /\ faults' = IF srv[s] = "write" THEN faults + 1 ELSE faults
    /\ srv' = [srv EXCEPT ![s] = IF srv[s] = "write" THEN "rows" ELSE "release"]
    /\ UNCHANGED <<rowVars, stmts, tx, job, dead, reg, lock, item>>

\* step, giving up: one transaction per job, without guard().
Release(s, j) ==
    /\ srv[s] = "release" /\ j \in Items(s)
    /\ LET J == {j} \intersect Held(s)
       IN  /\ Released({}, J, {})
           /\ dead' = AddDead(RowsOf(job, Exhausted(job, J)))
    /\ item' = [LoseItems(s, {j}) EXCEPT ![s][j] = NoItem]
    /\ srv' = IF Items(s) = {j} THEN [srv EXCEPT ![s] = "lead"] ELSE srv
    /\ UNCHANGED <<rowVars, stmts, tx, reg, lock, faults>>

\* The transaction after a rejected batch fails too: its claims are left
\* behind, and the session goes on.
StepFails(s) ==
    /\ srv[s] \in {"release", "quarantine"} /\ lock = s
    /\ srv[s] = "quarantine" => faults < MaxFaults
    /\ faults' = IF srv[s] = "quarantine" THEN faults + 1 ELSE faults
    /\ item' = [item EXCEPT ![s] = [j \in JobId |-> NoItem]]
    /\ srv' = [srv EXCEPT ![s] = "lead"]
    /\ UNCHANGED <<rowVars, stmts, tx, job, dead, reg, lock>>

-----------------------------------------------------------------------------
UserStep ==
    \/ \E s \in Session, r \in Row :
          \/ \E k \in Present : Insert(s, r, k) \/ Update(s, r, k)
          \/ Touch(s, r)
          \/ Delete(s, r)
          \/ \E d \in Row \ {r} : Rekey(s, r, d)
    \/ Truncate
    \/ \E R \in SUBSET Row : RetryDead(R)

Ends == \E s \in Session : Commit(s) \/ Rollback(s)

ClaimStep(s) ==
    \E K \in SUBSET Stale(job) :
        \E C \in SUBSET (Pending(job) \union K) : \E D \in SUBSET C : Claim(s, K, C, D)

WriteStep(s) == \E X \in SUBSET Items(s) : WriteBack(s, X)

ServerStep(s) ==
    \/ Elect(s)
    \/ LockLost(s)
    \/ ClaimStep(s)
    \/ FoundBroken(s)
    \/ Quarantine(s)
    \/ Infer(s)
    \/ WriteStep(s)
    \/ WriteNothing(s)
    \/ \E j \in JobId : Release(s, j)

Fault(s) == LoseLock(s) \/ Crash(s) \/ Rejected(s) \/ StepFails(s)

Next ==
    \/ UserStep
    \/ Ends
    \/ Disable
    \/ DropColumn
    \/ \E j \in JobId : Expire(j)
    \/ \E s \in Server : ServerStep(s) \/ Fault(s)

Spec == Init /\ [][Next]_vars

\* Transactions end, time passes, and the loop of a server takes its next step.
Fairness ==
    /\ WF_vars(Ends)
    /\ \A j \in JobId : WF_vars(Expire(j))
    /\ \A s \in Server : WF_vars(ServerStep(s))

FairSpec == Spec /\ Fairness

-----------------------------------------------------------------------------
(***************************************************************************)
(* Properties.                                                             *)
(***************************************************************************)

\* Types of the variables, and the well-formed queue of JobTable.
TypeOK ==
    /\ kind \in [Row -> Missing \union Present]
    /\ ver \in [Row -> 0 .. xid] /\ vec \in [Row -> 0 .. xid] /\ xmin \in [Row -> 0 .. xid]
    /\ xid \in Nat
    /\ stmts \in 0 .. MaxStatements
    /\ tx \in [Session -> Tx]
    /\ QueueInv(job)
    /\ dead \in [Row -> Nat]
    /\ reg \in {"active", "broken", "disabled", "gone"}
    /\ lock \in Server \union {NoServer}
    /\ srv \in [Server -> Phase]
    /\ item \in [Server -> [JobId -> Item]]
    /\ faults \in 0 .. MaxFaults

Current(r) == CASE kind[r] = "text" -> vec[r] = ver[r]
                [] kind[r] = "large" -> FALSE
                [] OTHER -> vec[r] = NoVec

\* A committed row whose vector is not that of its text has a committed job
\* or a dead letter, whatever the servers do: a job that another server's
\* reclaim re-inserted, one a writer relied on while it was being claimed, and
\* one whose row changed during the inference are all still there.
RowTracked ==
    reg = "active" =>
        \A r \in Row :
            \/ Current(r)
            \/ dead[r] > 0
            \/ \E j \in Pending(job) \union InFlight(job) : job[j].row = r

\* The vector a server stores is that of the text the row has at that moment,
\* also when the row was changed or deleted during the inference, or another
\* server took over.
WritesCurrent ==
    [][ \A s \in Server : srv'[s] # srv[s] =>
          \A r \in Row : vec'[r] # vec[r] =>
              vec'[r] = IF kind[r] = "text" THEN ver[r] ELSE NoVec ]_vars

\* Once writers and faults stop, every row of an active entry gets the vector
\* of its text or a dead letter, and no job is left.
Settles ==
    <>[](reg = "active" =>
            /\ Pending(job) \union InFlight(job) = {}
            /\ \A r \in Row : Current(r) \/ dead[r] > 0)

=============================================================================
