----------------------------- MODULE WorkerWake -----------------------------
(***************************************************************************)
(* One database's worker process between its latch and its transactions:   *)
(* worker_kick and the latch, the version gate, the drain loop, and the    *)
(* schema guard inside every transaction, against clients that enqueue,    *)
(* extension upgrades, package upgrades and restarts.                      *)
(*                                                                         *)
(* What a transaction does to the rows is EmbedQueue's subject; here it    *)
(* only moves jobs.  A guarded transaction is two steps: guard() takes the *)
(* shared schema lock and compares the versions, then the work runs and    *)
(* commits. wk.in is TRUE in a transaction past its guard.                    *)
(***************************************************************************)
EXTENDS JobTable

CONSTANTS
    Session,     \* client sessions
    MaxEnqueues, \* bound on the enqueueing statements
    MaxVersion,  \* last release of the package
    MaxCrashes,  \* bound on crashes and restarts
    BatchSize,   \* postvec.batch_size
    Unfit,       \* rows whose text is over the byte ceiling
    Calls,       \* "prepare", "pause", "timeout": what else may happen
    Outcomes     \* of inference: "ok", "retry", "dead", or "raise": the target
                 \* table refuses the vector

VARIABLES
    job,      \* postvec.jobs
    dead,     \* jobs that became dead letters
    cooling,  \* jobs whose not_before lies ahead
    sent,     \* enqueueing statements so far
    tx,       \* session |-> [job, kick, prepared]: its open transaction
    ext,      \* installed extension version, 0 when there is none
    disk,     \* version of the package's files
    wk,       \* the worker process
    owed,     \* committed jobs whose kick was for the running process
    beat,     \* pid in postvec.worker_heartbeat, 0 when there is no row
    enabled,  \* postvec.worker_enabled, and an inference path
    crashes

vars == <<job, dead, cooling, sent, tx, ext, disk, wk, owed, beat, enabled, crashes>>

NoTx == [job |-> NoRow, kick |-> 0, prepared |-> FALSE]

\* The transactions of a wake, and where each goes on.
Txn == {"summary", "claim", "write", "row", "release", "beat"}

Pc == {"down", "wait", "gate", "loop", "net"} \union Txn

\* pid counts the processes; lib is the version of the mapped library; batch
\* holds the claimed jobs in memory, out their outcomes; cur is
\* the job apply_rows is at; in is TRUE in a transaction that has passed its
\* guard; again asks for another iteration.
Worker == [pc: Pc, in: BOOLEAN, pid: Nat, lib: 1 .. MaxVersion, latch: BOOLEAN,
           batch: SUBSET JobId, out: [JobId -> Outcomes \union {"none"}],
           cur: SUBSET JobId, again: BOOLEAN]

NoOut == [j \in JobId |-> "none"]

Started(pid, lib) ==
    [pc |-> "wait", in |-> FALSE, pid |-> pid, lib |-> lib, latch |-> FALSE,
     batch |-> {}, out |-> NoOut, cur |-> {}, again |-> FALSE]

Init ==
    /\ job = [j \in JobId |-> NoJob]
    /\ dead = {}
    /\ cooling = {}
    /\ sent = 0
    /\ tx = [s \in Session |-> NoTx]
    /\ ext \in {0, 1}
    /\ disk = 1
    /\ wk = Started(1, 1)
    /\ owed = {}
    /\ beat = 0
    /\ enabled = TRUE
    /\ crashes = 0

-----------------------------------------------------------------------------
(***************************************************************************)
(* Clients: a statement with its trigger, then the end of the transaction. *)
(***************************************************************************)

\* The trigger inserts a job and calls worker_kick, which arms the pid of the
\* heartbeat row.  The worker is woken when the transaction commits.
Enqueue(s, r) ==
    /\ tx[s] = NoTx
    /\ ext # 0
    /\ sent < MaxEnqueues
    /\ sent' = sent + 1
    /\ ~WaitsForWriter(job, {r})
    /\ \E g \in NewJobs(NotPending(job, {r}), InState(job, {"free"}) \ (wk.batch \union dead)) :
          job' = Inserted(job, g, "open")
    /\ tx' = [tx EXCEPT ![s] = [job |-> r, kick |-> beat, prepared |-> FALSE]]
    /\ UNCHANGED <<dead, cooling, ext, disk, wk, owed, beat, enabled, crashes>>

Opened(r) == {j \in InState(job, {"open"}) : job[j].row = r}

Commits(s) ==
    /\ job' = [j \in JobId |->
                 IF j \in Opened(tx[s].job) THEN [job[j] EXCEPT !.st = "pending"] ELSE job[j]]
    /\ tx' = [tx EXCEPT ![s] = NoTx]
    /\ UNCHANGED <<dead, cooling, sent, ext, disk, beat, enabled, crashes>>

\* Faulty: a worker that is busy is not woken.
KickedIdle(pid) == [wk EXCEPT !.latch = @ \/ (wk.pc = "wait" /\ wk.pid = pid)]

\* kick_xact_callback: the latch of the armed pid, if that process is there.
Kicked(pid) == [wk EXCEPT !.latch = @ \/ (wk.pc # "down" /\ wk.pid = pid)]

Commit(s) ==
    /\ tx[s].job # NoRow /\ ~tx[s].prepared
    /\ Commits(s)
    /\ wk' = Kicked(tx[s].kick)
    /\ owed' = IF wk.pc # "down" /\ wk.pid = tx[s].kick
               THEN owed \union Opened(tx[s].job) ELSE owed

Rollback(s) ==
    /\ tx[s].job # NoRow
    /\ job' = Deleted(job, Opened(tx[s].job))
    /\ tx' = [tx EXCEPT ![s] = NoTx]
    /\ UNCHANGED <<dead, cooling, sent, ext, disk, wk, owed, beat, enabled, crashes>>

\* PREPARE TRANSACTION disarms; COMMIT PREPARED runs in any backend.
Prepare(s) ==
    /\ "prepare" \in Calls
    /\ tx[s].job # NoRow /\ ~tx[s].prepared
    /\ tx' = [tx EXCEPT ![s].prepared = TRUE, ![s].kick = 0]
    /\ UNCHANGED <<job, dead, cooling, sent, ext, disk, wk, owed, beat, enabled, crashes>>

CommitPrepared(s) ==
    /\ tx[s].prepared
    /\ Commits(s)
    /\ UNCHANGED <<wk, owed>>

-----------------------------------------------------------------------------
(***************************************************************************)
(* Operators.                                                              *)
(***************************************************************************)

\* A new package: the running processes keep the library they have mapped.
PackageUpgrade ==
    /\ disk < MaxVersion
    /\ disk' = disk + 1
    /\ UNCHANGED <<job, dead, cooling, sent, tx, ext, wk, owed, beat, enabled, crashes>>

CreateExtension ==
    /\ ext = 0
    /\ ext' = disk
    /\ UNCHANGED <<job, dead, cooling, sent, tx, disk, wk, owed, beat, enabled, crashes>>

\* Faulty: the version is read without the lock.
NotLocked == FALSE

\* The worker's transaction holds the schema lock in shared mode.
SchemaLocked == wk.in

\* ALTER EXTENSION postvec UPDATE: every upgrade script starts with the
\* schema lock in exclusive mode.
AlterExtension ==
    /\ ext # 0 /\ ext # disk
    /\ ~SchemaLocked
    /\ ext' = disk
    /\ UNCHANGED <<job, dead, cooling, sent, tx, disk, wk, owed, beat, enabled, crashes>>

\* postvec.worker_enabled or the inference path goes or comes back.
Pause ==
    /\ "pause" \in Calls
    /\ enabled' = ~enabled
    /\ UNCHANGED <<job, dead, cooling, sent, tx, ext, disk, wk, owed, beat, crashes>>

-----------------------------------------------------------------------------
(***************************************************************************)
(* The worker process.  It is woken by its latch or by the poll interval.  *)
(***************************************************************************)

Goes(pc) == [wk EXCEPT !.pc = pc]

\* wait_latch returns and resets the latch.
Wake ==
    /\ wk.pc = "wait" /\ wk.latch
    /\ wk' = [wk EXCEPT !.pc = "gate", !.latch = FALSE]
    /\ UNCHANGED <<job, dead, cooling, sent, tx, ext, disk, owed, beat, enabled, crashes>>

Poll ==
    /\ wk.pc = "wait" /\ ~wk.latch
    /\ wk' = Goes("gate")
    /\ UNCHANGED <<job, dead, cooling, sent, tx, ext, disk, owed, beat, enabled, crashes>>

\* The rest of the wake is a heartbeat: no job is looked at, so nobody who
\* kicked this worker is served before the next wake.
OnlyBeat ==
    /\ wk' = [wk EXCEPT !.pc = "beat", !.in = FALSE, !.again = FALSE]
    /\ owed' = {}

\* catalog_version(): absent or mismatched parks the wake.
VersionGate ==
    /\ wk.pc = "gate"
    /\ \/ ext = wk.lib /\ wk' = Goes("loop") /\ UNCHANGED owed
       \/ ext # wk.lib /\ wk' = Goes("wait") /\ owed' = {}
    /\ UNCHANGED <<job, dead, cooling, sent, tx, ext, disk, beat, enabled, crashes>>

\* CatalogVersion::Unreadable: the catalog transaction failed.
VersionUnreadable ==
    /\ "timeout" \in Calls
    /\ wk.pc = "gate"
    /\ wk' = Goes("wait")
    /\ owed' = {}
    /\ UNCHANGED <<job, dead, cooling, sent, tx, ext, disk, beat, enabled, crashes>>

\* The head of the drain loop.
Iterate ==
    /\ wk.pc = "loop"
    /\ \/ enabled /\ wk' = Goes("summary") /\ UNCHANGED owed
       \/ ~enabled /\ OnlyBeat
    /\ UNCHANGED <<job, dead, cooling, sent, tx, ext, disk, beat, enabled, crashes>>

\* guard_schema_version: the shared lock, then the comparison.
Guard ==
    /\ wk.pc \in Txn /\ ~wk.in
    /\ ext = wk.lib
    /\ wk' = [wk EXCEPT !.in = TRUE]
    /\ UNCHANGED <<job, dead, cooling, sent, tx, ext, disk, owed, beat, enabled, crashes>>

\* What follows a transaction on the claimed jobs J, and the last heartbeat.
After(J, c) ==
    LET rest == wk.batch \ J IN
    [wk EXCEPT !.in = FALSE, !.batch = rest, !.again = TRUE, !.cur = c,
               !.out = [j \in JobId |-> IF j \in rest THEN wk.out[j] ELSE "none"],
               !.pc = IF rest = {} THEN "beat" ELSE "row"]

\* The jobs apply_rows may be at next when those of J are left.
NextCur(J) == IF J = {} THEN {{}} ELSE {{j} : j \in J}

RowByRow(c) == [wk EXCEPT !.in = FALSE, !.pc = "row", !.cur = c]

Released == [wk EXCEPT !.in = FALSE, !.pc = "release"]

Beaten == [wk EXCEPT !.in = FALSE, !.pc = IF wk.again THEN "loop" ELSE "wait"]

\* The transaction returns an error: its caller's error path.
Errs ==
    /\ wk.pc \in Txn
    /\ \/ wk.pc \in {"summary", "claim"} /\ OnlyBeat
       \/ wk.pc = "write" /\ (\E c \in NextCur(wk.batch) : wk' = RowByRow(c)) /\ UNCHANGED owed
       \/ wk.pc = "row" /\ wk' = Released /\ UNCHANGED owed
       \/ wk.pc = "release" /\ (\E c \in NextCur(wk.batch \ wk.cur) : wk' = After(wk.cur, c)) /\ UNCHANGED owed
       \/ wk.pc = "beat" /\ wk' = Beaten /\ UNCHANGED owed
    /\ UNCHANGED <<job, dead, cooling, sent, tx, ext, disk, beat, enabled, crashes>>

\* A version skew.
GuardFails == ~wk.in /\ ext # wk.lib /\ Errs

WithOutcome(J, o) == {j \in J : wk.out[j] = o}

\* The jobs that the transaction un-claims.
Unclaims ==
    LET J == IF wk.pc = "write" THEN wk.batch ELSE wk.cur
        F == CASE wk.pc = "claim" -> Stale(job)
               [] wk.pc \in {"write", "row"} /\ WithOutcome(J, "raise") = {} -> WithOutcome(J, "retry")
               [] wk.pc = "release" -> J
               [] OTHER -> {}
    IN  F \ Exhausted(job, F)

\* Their INSERT ... ON CONFLICT waits for a writer's open job of the same row.
Blocked == wk.in /\ WaitsForWriter(job, RowsOf(job, Unclaims))

\* A lock timeout, behind an upgrade, a lock on a table or an open job.
TimesOut == "timeout" \in Calls /\ (~wk.in \/ Blocked) /\ Errs

Due(q) == Pending(q) \ cooling

\* Faulty: without claimed_any.
SummaryDueOnly ==
    /\ wk.pc = "summary" /\ wk.in
    /\ wk' = IF Due(job) # {}
             THEN [wk EXCEPT !.pc = "claim", !.in = FALSE]
             ELSE [wk EXCEPT !.pc = "beat", !.in = FALSE, !.again = FALSE]
    /\ UNCHANGED <<job, dead, cooling, sent, tx, ext, disk, owed, beat, enabled, crashes>>

\* work_summary().
Summary ==
    /\ wk.pc = "summary" /\ wk.in
    /\ wk' = IF Due(job) \union InFlight(job) # {}
             THEN [wk EXCEPT !.pc = "claim", !.in = FALSE]
             ELSE [wk EXCEPT !.pc = "beat", !.in = FALSE, !.again = FALSE]
    /\ UNCHANGED <<job, dead, cooling, sent, tx, ext, disk, owed, beat, enabled, crashes>>

\* claim_and_read: reclaim_stale, then one batch of the due jobs.  Those whose
\* text is over the ceiling are dead letters at once; a batch with no others
\* ends the drain like an empty one.
Claim ==
    /\ wk.pc = "claim" /\ wk.in
    /\ LET gone == Exhausted(job, Stale(job))
           back == Stale(job) \ gone
           q == Deleted(job, gone) IN
       /\ ~Blocked
       /\ \E K \in Survivors(q, back) :
           LET q2 == Unclaim(q, back, K) IN
           \E C \in SUBSET Due(q2) :
              LET unfit == {j \in C : q2[j].row \in Unfit}
                  items == C \ unfit IN
              /\ Cardinality(C) <= BatchSize
              /\ C = {} => Due(q2) = {}
              /\ job' = Claimed(Deleted(q2, unfit), items)
              /\ dead' = dead \union gone \union unfit
              /\ owed' = owed \ C
              /\ wk' = IF items = {} THEN [wk EXCEPT !.pc = "beat", !.in = FALSE, !.again = FALSE]
                       ELSE [wk EXCEPT !.pc = "net", !.in = FALSE, !.batch = items]
    /\ UNCHANGED <<cooling, sent, tx, ext, disk, beat, enabled, crashes>>

\* The network phase, outside any transaction.
Infer ==
    /\ wk.pc = "net"
    /\ \E o \in [wk.batch -> Outcomes] :
          wk' = [wk EXCEPT !.pc = "write", !.out = [j \in JobId |->
                   IF j \in wk.batch THEN o[j] ELSE "none"]]
    /\ UNCHANGED <<job, dead, cooling, sent, tx, ext, disk, owed, beat, enabled, crashes>>

\* The jobs of F failed: a dead letter when the attempts are used up.  Those
\* of D are dead letters at once, those of J are done.
Settled(J, F, D) ==
    LET gone == Exhausted(job, F) \union D
        q == Deleted(job, J \union gone) IN
    /\ ~Blocked
    /\ \E K \in Survivors(q, F \ gone) :
       /\ job' = Unclaim(q, F \ gone, K)
       /\ dead' = dead \union gone
       /\ cooling' = cooling \union K

\* apply_group on the jobs J: it aborts when the target table raises.
Apply(J) ==
    \/ /\ WithOutcome(J, "raise") = {}
       /\ Settled(WithOutcome(J, "ok"), WithOutcome(J, "retry"), WithOutcome(J, "dead"))
       /\ \E c \in NextCur(wk.batch \ J) : wk' = After(J, c)
    \/ /\ WithOutcome(J, "raise") # {}
       /\ \/ wk.pc = "write" /\ \E c \in NextCur(J) : wk' = RowByRow(c)
          \/ wk.pc = "row" /\ wk' = Released
       /\ UNCHANGED <<job, dead, cooling>>

WriteBack ==
    /\ wk.pc = "write" /\ wk.in
    /\ Apply(wk.batch)
    /\ UNCHANGED <<sent, tx, ext, disk, owed, beat, enabled, crashes>>

ApplyRow ==
    /\ wk.pc = "row" /\ wk.in
    /\ Apply(wk.cur)
    /\ UNCHANGED <<sent, tx, ext, disk, owed, beat, enabled, crashes>>

\* release_failed_group.
Release ==
    /\ wk.pc = "release" /\ wk.in
    /\ Settled({}, wk.cur, {})
    /\ \E c \in NextCur(wk.batch \ wk.cur) : wk' = After(wk.cur, c)
    /\ UNCHANGED <<sent, tx, ext, disk, owed, beat, enabled, crashes>>

\* write_heartbeat publishes the pid that clients arm.
Heartbeat ==
    /\ wk.pc = "beat" /\ wk.in
    /\ beat' = wk.pid
    /\ wk' = Beaten
    /\ UNCHANGED <<job, dead, cooling, sent, tx, ext, disk, owed, enabled, crashes>>

-----------------------------------------------------------------------------
(***************************************************************************)
(* Crashes and restarts.  A claim in memory is lost with the process.      *)
(***************************************************************************)

\* The process dies, or stops on SIGTERM.
Die ==
    /\ wk.pc # "down"
    /\ crashes < MaxCrashes
    /\ crashes' = crashes + 1
    /\ owed' = {}
    /\ wk' = [Started(wk.pid, wk.lib) EXCEPT !.pc = "down"]
    /\ UNCHANGED <<job, dead, cooling, sent, tx, ext, disk, beat, enabled>>

\* The launcher spawns the next process: the library it inherits from the
\* postmaster, or, under start_worker(), the one on disk.
Respawn ==
    /\ wk.pc = "down"
    /\ \E lib \in {wk.lib, disk} : wk' = Started(wk.pid + 1, lib)
    /\ UNCHANGED <<job, dead, cooling, sent, tx, ext, disk, owed, beat, enabled, crashes>>

\* A restart of PostgreSQL: only prepared transactions survive it.
Restart ==
    /\ crashes < MaxCrashes
    /\ crashes' = crashes + 1
    /\ owed' = {}
    /\ LET cut == {s \in Session : ~tx[s].prepared} IN
       /\ job' = Deleted(job, UNION {Opened(tx[s].job) : s \in cut})
       /\ tx' = [s \in Session |-> IF s \in cut THEN NoTx ELSE tx[s]]
    /\ wk' = Started(wk.pid + 1, disk)
    /\ UNCHANGED <<dead, cooling, sent, ext, disk, beat, enabled>>

\* The visibility timeout of a claim passes.
Expire(j) ==
    /\ job[j].st = "claimed"
    /\ job' = [job EXCEPT ![j].st = "stale"]
    /\ UNCHANGED <<dead, cooling, sent, tx, ext, disk, wk, owed, beat, enabled, crashes>>

\* The backoff of a retried job passes.
Cool(j) ==
    /\ j \in cooling
    /\ cooling' = cooling \ {j}
    /\ UNCHANGED <<job, dead, sent, tx, ext, disk, wk, owed, beat, enabled, crashes>>

-----------------------------------------------------------------------------
Clients ==
    \E s \in Session :
        \/ \E r \in Row : Enqueue(s, r)
        \/ Commit(s)
        \/ Rollback(s)
        \/ Prepare(s)
        \/ CommitPrepared(s)

Operators == PackageUpgrade \/ CreateExtension \/ AlterExtension \/ Pause

Work == Summary \/ Claim \/ WriteBack \/ ApplyRow \/ Release \/ Heartbeat

Process == VersionGate \/ Iterate \/ Guard \/ GuardFails \/ Infer \/ Work

Next ==
    \/ Clients
    \/ Operators
    \/ Wake
    \/ Poll
    \/ Process
    \/ TimesOut
    \/ VersionUnreadable
    \/ Die
    \/ Respawn
    \/ Restart
    \/ \E j \in JobId : Expire(j) \/ Cool(j)

Spec == Init /\ [][Next]_vars

(***************************************************************************)
(* The process runs while it is scheduled, the poll interval, the backoff  *)
(* and the visibility timeout pass, and the launcher respawns a dead       *)
(* worker.  Clients and operators owe nothing.                             *)
(***************************************************************************)
FairSpec ==
    /\ Spec
    /\ WF_vars(Wake)
    /\ WF_vars(Poll)
    /\ WF_vars(Process)
    /\ WF_vars(Respawn)
    /\ \A j \in JobId : WF_vars(Expire(j)) /\ WF_vars(Cool(j))

-----------------------------------------------------------------------------
TypeOK ==
    /\ job \in [JobId -> Job]
    /\ dead \subseteq JobId
    /\ cooling \subseteq JobId
    /\ sent \in 0 .. MaxEnqueues
    /\ tx \in [Session -> [job: Row \union {NoRow}, kick: Nat, prepared: BOOLEAN]]
    /\ ext \in 0 .. MaxVersion
    /\ disk \in 1 .. MaxVersion
    /\ wk \in Worker
    /\ wk.batch # {} <=> wk.pc \in {"net", "write", "row", "release"}
    /\ owed \subseteq JobId
    /\ beat \in 0 .. wk.pid
    /\ enabled \in BOOLEAN
    /\ crashes \in 0 .. MaxCrashes

\* Refuse to touch postvec's tables unless the installed SQL is this
\* library's: between the guard and the commit of a worker transaction the
\* installed version stays that of the mapped library.
VersionHeld == wk.in => ext = wk.lib

\* A worker does not sleep on a kick: when it waits with its latch clear,
\* every job whose commit was to wake this very process has been claimed,
\* wherever in the drain the commit fell (worker_kick, kick_xact_callback).
NoLostKick ==
    wk.pc = "wait" /\ ~wk.latch => owed \intersect Pending(job) = {}

\* As long as the versions agree from some time on, clients end their
\* transactions, no lock wait times out any more, and the worker is neither
\* paused nor without an inference path, every committed job is finished or
\* becomes a dead letter, also when its kick went to a dead process or was
\* dropped by PREPARE TRANSACTION: the poll interval is the backstop.
Committed(j) == job[j].st \in {"pending", "claimed", "stale"}
JobsServed ==
    (/\ <>[](ext = wk.lib /\ enabled)
     /\ <>[][~TimesOut /\ ~VersionUnreadable]_vars
     /\ \A s \in Session : []<>(tx[s] = NoTx))
    => \A j \in JobId : []<>~Committed(j)

=============================================================================
