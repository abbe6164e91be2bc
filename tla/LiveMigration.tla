--------------------------- MODULE LiveMigration ---------------------------
(***************************************************************************)
(* The migration of one column-mode entry to another model while its table *)
(* is in use: migrate() adds a scratch column, the worker fills it row by  *)
(* row behind a watermark and routes fresh writes to it, finalize swaps    *)
(* the columns, abort drops the scratch column.                            *)
(*                                                                         *)
(* Statements of users commit at once here: open transactions are the      *)
(* subject of EmbedQueue.  A text is a version, as there.  Of the queue    *)
(* only the keys that have a pending or a claimed job are kept: attempts   *)
(* are left out, so that a retry may or may not be the last one.           *)
(* A call or transaction that reads the registry and then waits for a      *)
(* relation lock is two steps.                                             *)
(***************************************************************************)
EXTENDS Integers, FiniteSets, FiniteSetsExt

CONSTANTS
    NKeys,      \* bound: keys of the table, in the order of the primary key
    Admin,      \* sessions that run management calls
    Model, InitModel, NoModel,
    BatchSize,  \* postvec.batch_size and postvec.migrate_batch_size
    MaxClock,   \* bound: statements of users
    MaxMig,     \* bound: rows of postvec.migrations
    Strategy,   \* the routes migrate() may resolve to
    Hand,       \* what the owner of the table does by hand
    Faulty      \* the inference host may fail and the worker may die

ASSUME MigrationAssumption ==
    /\ NKeys \in Nat \ {0} /\ BatchSize \in Nat \ {0}
    /\ MaxClock \in Nat \ {0} /\ MaxMig \in Nat
    /\ InitModel \in Model /\ NoModel \notin Model
    /\ Strategy \subseteq {"convert", "reembed"} /\ Hand \subseteq {"scratch", "base"}
    /\ Faulty \in BOOLEAN

VARIABLES
    kind,   \* what the source of a row is
    ver,    \* version of its text
    clock,  \* statements of users so far
    vec,    \* the stored vectors, by column and key
    col,    \* "base": the entry's own columns are in order; "new": the
            \* scratch column exists
    q,      \* postvec.jobs, as keys
    dead,   \* keys with a row in postvec.jobs_dead
    reg,    \* the registry row
    mig,    \* postvec.migrations
    call,   \* the management call each session is in
    wk      \* the worker

table == <<kind, ver, clock>>
vars == <<kind, ver, clock, vec, col, q, dead, reg, mig, call, wk>>

Key == 1 .. NKeys
MigId == 1 .. MaxMig
Version == 0 .. MaxClock
Column == {"old", "new"}
Base == {"base", "new"}
Kind == {"absent", "null", "text"}

Vector == [ver: Version, model: Model \union {NoModel}]
NoVec == [ver |-> 0, model |-> NoModel]

\* pend: claimed_at IS NULL; held: claimed for the batch in memory; lost:
\* claimed by a worker that died.
Queue == [pend: SUBSET Key, held: SUBSET Key, lost: SUBSET Key]

EmptyQueue == [pend |-> {}, held |-> {}, lost |-> {}]

\* trig: the triggers exist.
Registry == [state: {"active", "migrating", "disabled"}, model: Model, trig: BOOLEAN]

MigState == {"none", "running", "awaiting_finalize", "awaiting_index", "done",
             "aborted", "failed"}

\* wm: last_pk; skip: the rows, with their text, counted in rows_skipped.
Migration == [state: MigState, to: Model \union {NoModel},
              via: {"none", "convert", "reembed"}, wm: 0 .. NKeys, skip: SUBSET (Key \X Version)]

NoMig == [state |-> "none", to |-> NoModel, via |-> "none", wm |-> 0, skip |-> {}]

Route == [mid: 0 .. MaxMig, model: Model \union {NoModel}, col: Column]

NoRoute == [mid |-> 0, model |-> NoModel, col |-> "old"]

NoCall == [op |-> "none", to |-> NoModel, via |-> "none"]

Call == [op: {"none", "migrate", "disable"}, to: Model \union {NoModel},
         via: {"none", "convert", "reembed"}]

Out == {"none", "text", "null", "ok", "dead", "retry", "skip"}

Item == [ver: Version, out: Out]
NoItem == [ver |-> 0, out |-> "none"]

\* exp: the routing captured by the claim; fresh: the one the write-back
\* loaded; live: the entry, or the migration, was in service at that load.
Worker == [phase: {"idle", "embed", "write", "convert", "store"}, mid: 0 .. MaxMig,
           exp: Route, fresh: Route, live: BOOLEAN, item: [Key -> Item]]

Idle == [phase |-> "idle", mid |-> 0, exp |-> NoRoute, fresh |-> NoRoute,
         live |-> FALSE, item |-> [r \in Key |-> NoItem]]

TypeOK ==
    /\ kind \in [Key -> Kind] /\ ver \in [Key -> Version] /\ clock \in Version
    /\ vec \in [Column -> [Key -> Vector]] /\ col \in SUBSET Base
    /\ q \in Queue /\ dead \in SUBSET Key
    /\ reg \in Registry /\ mig \in [MigId -> Migration]
    /\ call \in [Admin -> Call] /\ wk \in Worker

\* An active entry: a text has its vector or a pending job.
Init ==
    /\ kind \in [Key -> {"absent", "text"}]
    /\ ver = [r \in Key |-> IF kind[r] = "text" THEN 1 ELSE 0]
    /\ clock = 1
    /\ \E P \in SUBSET {r \in Key : kind[r] = "text"} :
          /\ q = [EmptyQueue EXCEPT !.pend = P]
          /\ vec = [c \in Column |-> [r \in Key |->
                       IF c = "old" /\ kind[r] = "text" /\ r \notin P
                       THEN [ver |-> 1, model |-> InitModel] ELSE NoVec]]
    /\ col = {"base"}
    /\ dead = {}
    /\ reg = [state |-> "active", model |-> InitModel, trig |-> TRUE]
    /\ mig = [m \in MigId |-> NoMig]
    /\ call = [a \in Admin |-> NoCall]
    /\ wk = Idle

-----------------------------------------------------------------------------

Live == {m \in MigId : mig[m].state \in {"running", "awaiting_finalize"}}

Abortable == {m \in MigId : mig[m].state \in {"running", "awaiting_finalize", "failed"}}

\* embed_routing.
Routing ==
    IF reg.state = "migrating" /\ Live # {}
    THEN LET m == Max(Live) IN [mid |-> m, model |-> mig[m].to, col |-> "new"]
    ELSE [mid |-> 0, model |-> reg.model, col |-> "old"]

-----------------------------------------------------------------------------
(***************************************************************************)
(* Users.                                                                  *)
(***************************************************************************)

\* A statement that changes the text at key r; the trigger enqueues R.
Statement(k, r, R) ==
    /\ clock < MaxClock
    /\ clock' = clock + 1
    /\ kind' = [kind EXCEPT ![r] = k]
    /\ ver' = [ver EXCEPT ![r] = IF k = "absent" THEN 0 ELSE clock + 1]
    /\ q' = IF reg.trig THEN [q EXCEPT !.pend = @ \union R] ELSE q
    /\ UNCHANGED <<col, dead, reg, mig, call, wk>>

Insert(r, k) ==
    /\ kind[r] = "absent" /\ k # "absent"
    /\ Statement(k, r, IF k = "null" THEN {} ELSE {r})
    /\ UNCHANGED vec

Update(r, k) ==
    /\ kind[r] # "absent" /\ k # "absent"
    /\ Statement(k, r, {r})
    /\ UNCHANGED vec

Delete(r) ==
    /\ kind[r] # "absent"
    /\ Statement("absent", r, {})
    /\ vec' = [c \in Column |-> [vec[c] EXCEPT ![r] = NoVec]]

\* UPDATE of the primary key: both vectors go along.
Rekey(r, d) ==
    /\ kind[r] # "absent" /\ kind[d] = "absent"
    /\ clock < MaxClock
    /\ clock' = clock + 1
    /\ kind' = [kind EXCEPT ![r] = "absent", ![d] = kind[r]]
    /\ ver' = [ver EXCEPT ![r] = 0, ![d] = clock + 1]
    /\ vec' = [c \in Column |-> [vec[c] EXCEPT ![r] = NoVec,
                 ![d] = IF vec[c][r].ver = ver[r] THEN [vec[c][r] EXCEPT !.ver = clock + 1]
                        ELSE vec[c][r]]]
    /\ q' = IF reg.trig THEN [q EXCEPT !.pend = @ \union {d}] ELSE q
    /\ UNCHANGED <<col, dead, reg, mig, call, wk>>

\* The owner of the table drops the scratch column by hand.
DropScratch ==
    /\ "scratch" \in Hand
    /\ "new" \in col
    /\ col' = col \ {"new"}
    /\ vec' = [vec EXCEPT !["new"] = [r \in Key |-> NoVec]]
    /\ UNCHANGED <<table, q, dead, reg, mig, call, wk>>

\* The owner alters a column the entry depends on (ALTER COLUMN TYPE to one
\* that cannot be rendered), or sets it right again.
AlterBase ==
    /\ "base" \in Hand
    /\ col' = IF "base" \in col THEN col \ {"base"} ELSE col \union {"base"}
    /\ UNCHANGED <<table, vec, q, dead, reg, mig, call, wk>>

-----------------------------------------------------------------------------
(***************************************************************************)
(* Management calls.                                                       *)
(***************************************************************************)

\* migrate() and disable() load the entry and check its state, then wait for
\* ACCESS EXCLUSIVE; the state is not read again.
MigrateLoad(a, m, via) ==
    /\ call[a] = NoCall
    /\ reg.state = "active" /\ m # reg.model /\ "new" \notin col
    /\ call' = [call EXCEPT ![a] = [op |-> "migrate", to |-> m, via |-> via]]
    /\ UNCHANGED <<table, vec, col, q, dead, reg, mig, wk>>

MigrateCommit(a) ==
    /\ call[a].op = "migrate"
    /\ "new" \notin col
    /\ \E m \in MigId :
          /\ mig[m].state = "none" /\ \A n \in 1 .. m - 1 : mig[n].state # "none"
          /\ mig' = [mig EXCEPT ![m] = [NoMig EXCEPT !.state = "running",
                                           !.to = call[a].to, !.via = call[a].via]]
    /\ col' = col \union {"new"}
    /\ reg' = [reg EXCEPT !.state = "migrating"]
    /\ call' = [call EXCEPT ![a] = NoCall]
    /\ UNCHANGED <<table, vec, q, dead, wk>>

DisableLoad(a) ==
    /\ call[a] = NoCall
    /\ reg.state # "migrating"
    /\ call' = [call EXCEPT ![a] = [NoCall EXCEPT !.op = "disable"]]
    /\ UNCHANGED <<table, vec, col, q, dead, reg, mig, wk>>

DisableCommit(a) ==
    /\ call[a].op = "disable"
    /\ reg' = [reg EXCEPT !.state = "disabled", !.trig = FALSE]
    /\ q' = EmptyQueue
    /\ call' = [call EXCEPT ![a] = NoCall]
    /\ UNCHANGED <<table, vec, col, dead, mig, wk>>

\* lock_timeout, or the column exists by now.
CallFails(a) ==
    /\ call[a] # NoCall
    /\ call' = [call EXCEPT ![a] = NoCall]
    /\ UNCHANGED <<table, vec, col, q, dead, reg, mig, wk>>

\* migration_finalize, its state checked again under the locks.
Finalize(m) ==
    /\ mig[m].state = "awaiting_finalize"
    /\ "new" \in col
    /\ col' = col \ {"new"}
    /\ vec' = [old |-> vec["new"], new |-> [r \in Key |-> NoVec]]
    /\ reg' = [reg EXCEPT !.state = "active", !.model = mig[m].to]
    /\ \E s \in {"done", "awaiting_index"} : mig' = [mig EXCEPT ![m].state = s]
    /\ UNCHANGED <<table, q, dead, call, wk>>

\* The second call, once the index is ready.
FinishIndex(m) ==
    /\ mig[m].state = "awaiting_index"
    /\ mig' = [mig EXCEPT ![m].state = "done"]
    /\ UNCHANGED <<table, vec, col, q, dead, reg, call, wk>>

\* What migration_abort enqueues: the rows the scratch column holds a vector
\* for, and every row when the column is gone.
AbortQueues ==
    {r \in Key : kind[r] = "text" /\ ("new" \in col => vec["new"][r] # NoVec)}

\* Faulty: the registry row is left as it is.
AbortKeepsState(m) ==
    /\ m \in Abortable
    /\ q' = [q EXCEPT !.pend = @ \union AbortQueues]
    /\ col' = col \ {"new"}
    /\ vec' = [vec EXCEPT !["new"] = [r \in Key |-> NoVec]]
    /\ mig' = [mig EXCEPT ![m].state = "aborted"]
    /\ UNCHANGED <<table, dead, reg, call, wk>>

\* migration_abort.
Abort(m) ==
    /\ m \in Abortable
    /\ q' = [q EXCEPT !.pend = @ \union AbortQueues]
    /\ col' = col \ {"new"}
    /\ vec' = [vec EXCEPT !["new"] = [r \in Key |-> NoVec]]
    /\ reg' = [reg EXCEPT !.state = "active"]
    /\ mig' = [mig EXCEPT ![m].state = "aborted"]
    /\ UNCHANGED <<table, dead, call, wk>>

-----------------------------------------------------------------------------
(***************************************************************************)
(* The worker: one thread, which alternates batches of jobs and batches of *)
(* the migration.                                                          *)
(***************************************************************************)

Items == {r \in Key : wk.item[r].out # "none"}

WithOut(f, o) == {r \in Items : f[r] = o}

\* quarantine_entry.
Quarantine ==
    /\ "base" \notin col
    /\ reg' = [reg EXCEPT !.state = "disabled", !.trig = FALSE]
    /\ q' = EmptyQueue
    /\ mig' = [m \in MigId |->
                 IF m \in Live THEN [mig[m] EXCEPT !.state = "failed"] ELSE mig[m]]
    /\ wk' = Idle
    /\ UNCHANGED <<table, vec, col, dead, call>>

\* fail_migration: only a running one.
FailMigration(m) ==
    IF m \in MigId /\ mig[m].state = "running"
    THEN [mig EXCEPT ![m].state = "failed"] ELSE mig

\* claim_batch: the expired claims S return, X of them spent; C is claimed,
\* its texts and the routing are read.
Claim(S, X, C) ==
    /\ wk.phase = "idle"
    /\ reg.state # "disabled" /\ "base" \in col
    /\ S \subseteq q.lost /\ X \subseteq S
    /\ C \subseteq q.pend \union (S \ X) /\ Cardinality(C) <= BatchSize
    /\ S \union C # {}
    /\ q' = [pend |-> (q.pend \union (S \ X)) \ C, held |-> C, lost |-> q.lost \ S]
    /\ dead' = dead \union X
    /\ wk' = IF C = {} THEN Idle
             ELSE [Idle EXCEPT !.phase = "embed", !.exp = Routing,
                     !.item = [r \in Key |->
                        IF r \in C THEN [ver |-> ver[r],
                                         out |-> IF kind[r] = "text" THEN "text" ELSE "null"]
                        ELSE NoItem]]
    /\ UNCHANGED <<table, vec, col, reg, mig, call>>

ClaimQuarantines ==
    /\ wk.phase = "idle"
    /\ reg.state # "disabled" /\ q # EmptyQueue
    /\ Quarantine

\* The network phase, then apply_group up to the relation lock: the entry
\* and its routing are loaded.
ApplyLoad ==
    /\ wk.phase = "embed"
    /\ \E f \in [WithOut([r \in Key |-> wk.item[r].out], "text") ->
                    {"ok", "dead"} \union (IF Faulty THEN {"retry"} ELSE {})] :
          wk' = [wk EXCEPT !.phase = "write", !.fresh = Routing,
                   !.live = reg.state # "disabled",
                   !.item = [r \in Key |->
                      IF r \in DOMAIN f THEN [wk.item[r] EXCEPT !.out = f[r]]
                      ELSE wk.item[r]]]
    /\ UNCHANGED <<table, vec, col, q, dead, reg, mig, call>>

\* The claimed keys of R that still have their job become pending.
Released(R) == [q EXCEPT !.pend = @ \union (R \intersect q.held), !.held = {}]

ApplyDrops ==
    /\ wk.phase = "write" /\ ~wk.live
    /\ q' = [q EXCEPT !.held = {}]
    /\ wk' = Idle
    /\ UNCHANGED <<table, vec, col, dead, reg, mig, call>>

ApplyQuarantines == wk.phase = "write" /\ wk.live /\ Quarantine

\* The scratch column is gone: the migration fails, the jobs return.
ApplyNoScratch ==
    /\ wk.phase = "write" /\ wk.live /\ "base" \in col
    /\ wk.fresh.col = "new" /\ "new" \notin col
    /\ mig' = FailMigration(wk.fresh.mid)
    /\ q' = Released(Items)
    /\ wk' = Idle
    /\ UNCHANGED <<table, vec, col, dead, reg, call>>

\* Faulty: the vectors are written whatever became of the routing.
SameRouteAlways == TRUE

\* The routing loaded by the write-back is the one the claim captured.
SameRoute == wk.fresh = wk.exp

\* The columns in which rows without text are nulled.
Nulled == {"old", wk.fresh.col}

\* apply_group under the lock; Y are the retries whose attempts are spent.
ApplyWrite(Y) ==
    LET out   == [r \in Key |-> wk.item[r].out]
        ok    == IF SameRoute THEN WithOut(out, "ok") ELSE {}
        gone  == IF SameRoute THEN WithOut(out, "dead") \union Y ELSE {}
        nulls == WithOut(out, "null")
    IN  /\ wk.phase = "write" /\ wk.live
        /\ "base" \in col /\ (wk.fresh.col = "new" => "new" \in col)
        /\ Y \subseteq WithOut(out, "retry")
        /\ vec' = [c \in Column |-> [r \in Key |->
                     IF kind[r] = "absent" THEN vec[c][r]
                     ELSE IF r \in nulls /\ c \in Nulled THEN NoVec
                     ELSE IF r \in ok /\ c = wk.fresh.col
                          THEN [ver |-> wk.item[r].ver, model |-> wk.exp.model]
                     ELSE vec[c][r]]]
        /\ dead' = dead \union (gone \intersect q.held)
        /\ q' = Released(Items \ (ok \union gone \union nulls))
        /\ wk' = Idle
        /\ UNCHANGED <<table, col, reg, mig, call>>

-----------------------------------------------------------------------------

\* The rows the batch query of the migration returns, before its LIMIT.
Eligible(m) ==
    {r \in Key : /\ r > mig[m].wm /\ kind[r] # "absent" /\ vec["new"][r] = NoVec
                 /\ IF mig[m].via = "convert" THEN vec["old"][r] # NoVec
                                              ELSE kind[r] = "text"}

\* read_migration_batch: the first rows of them in key order, as many as
\* batch size and byte budget admit.
MigRead(m, B) ==
    /\ wk.phase = "idle"
    /\ mig[m].state = "running" /\ col = Base
    /\ B # {} /\ B \subseteq Eligible(m) /\ Cardinality(B) <= BatchSize
    /\ \A r \in B, s \in Eligible(m) : s < r => s \in B
    /\ wk' = [Idle EXCEPT !.phase = "convert", !.mid = m,
                !.item = [r \in Key |->
                   IF r \notin B THEN NoItem
                   ELSE [ver |-> IF mig[m].via = "convert" THEN vec["old"][r].ver ELSE ver[r],
                         out |-> "text"]]]
    /\ UNCHANGED <<table, vec, col, q, dead, reg, mig, call>>

MigFinished(m) ==
    /\ wk.phase = "idle"
    /\ mig[m].state = "running" /\ col = Base
    /\ Eligible(m) = {}
    /\ mig' = [mig EXCEPT ![m].state = "awaiting_finalize"]
    /\ UNCHANGED <<table, vec, col, q, dead, reg, call, wk>>

MigQuarantines(m) == wk.phase = "idle" /\ mig[m].state = "running" /\ Quarantine

MigNoScratch(m) ==
    /\ wk.phase = "idle"
    /\ mig[m].state = "running" /\ col = {"base"}
    /\ mig' = FailMigration(m)
    /\ UNCHANGED <<table, vec, col, q, dead, reg, call, wk>>

\* run_inference fails as a whole: for good, or to be tried again.
InferFails ==
    /\ Faulty
    /\ wk.phase = "convert"
    /\ mig' \in {mig, FailMigration(wk.mid)}
    /\ wk' = Idle
    /\ UNCHANGED <<table, vec, col, q, dead, reg, call>>

\* It returns a vector or a skip for each row; apply_migration_batch loads
\* the migration.
StoreLoad ==
    /\ wk.phase = "convert"
    /\ \E f \in [Items -> {"ok", "skip"}] :
          wk' = [wk EXCEPT !.phase = "store", !.live = mig[wk.mid].state = "running",
                   !.item = [r \in Key |->
                      IF r \in Items THEN [wk.item[r] EXCEPT !.out = f[r]] ELSE NoItem]]
    /\ UNCHANGED <<table, vec, col, q, dead, reg, mig, call>>

StoreNothing ==
    /\ wk.phase = "store"
    /\ \/ ~wk.live /\ mig' = mig
       \/ wk.live /\ col = {"base"} /\ mig' = FailMigration(wk.mid)
    /\ wk' = Idle
    /\ UNCHANGED <<table, vec, col, q, dead, reg, call>>

StoreQuarantines == wk.phase = "store" /\ wk.live /\ Quarantine

\* Faulty: the batch moves the watermark past the whole table.
WatermarkEnd(old) == NKeys

\* last_pk is the last key of the batch, skipped rows included.
Watermark(old) == Max(Items)

Store ==
    /\ wk.phase = "store" /\ wk.live /\ col = Base
    /\ vec' = [vec EXCEPT !["new"] = [r \in Key |->
                 IF wk.item[r].out = "ok" /\ kind[r] # "absent" /\ vec["new"][r] = NoVec
                 THEN [ver |-> wk.item[r].ver, model |-> mig[wk.mid].to]
                 ELSE vec["new"][r]]]
    /\ mig' = [mig EXCEPT ![wk.mid].wm = Watermark(mig[wk.mid].wm),
                 ![wk.mid].skip = @ \union
                    {<<r, wk.item[r].ver>> : r \in {s \in Items : wk.item[s].out = "skip"}}]
    /\ wk' = Idle
    /\ UNCHANGED <<table, col, q, dead, reg, call>>

\* The process ends with a batch in memory, or its last transaction aborts.
Crash ==
    /\ Faulty
    /\ wk.phase # "idle"
    /\ q' = [q EXCEPT !.lost = @ \union q.held, !.held = {}]
    /\ wk' = Idle
    /\ UNCHANGED <<table, vec, col, dead, reg, mig, call>>

-----------------------------------------------------------------------------

UserStep ==
    \/ \E r \in Key, k \in Kind : Insert(r, k) \/ Update(r, k)
    \/ \E r \in Key : Delete(r)
    \/ \E r, d \in Key : Rekey(r, d)
    \/ DropScratch
    \/ AlterBase

AdminStep ==
    \/ \E a \in Admin, m \in Model, via \in Strategy : MigrateLoad(a, m, via)
    \/ \E a \in Admin : MigrateCommit(a) \/ DisableLoad(a) \/ DisableCommit(a) \/ CallFails(a)
    \/ \E m \in MigId : Finalize(m) \/ FinishIndex(m) \/ Abort(m)

ClaimStep == \E S, X, C \in SUBSET Key : Claim(S, X, C)

ApplyStep ==
    \/ ApplyDrops \/ ApplyQuarantines \/ ApplyNoScratch
    \/ \E Y \in SUBSET Key : ApplyWrite(Y)

MigStep(m) ==
    \/ \E B \in SUBSET Key : MigRead(m, B)
    \/ MigFinished(m) \/ MigQuarantines(m) \/ MigNoScratch(m)

StoreStep == StoreNothing \/ StoreQuarantines \/ Store

Next ==
    \/ UserStep
    \/ AdminStep
    \/ ClaimStep
    \/ ClaimQuarantines
    \/ ApplyLoad
    \/ ApplyStep
    \/ \E m \in MigId : MigStep(m)
    \/ InferFails
    \/ StoreLoad
    \/ StoreStep
    \/ Crash

Spec == Init /\ [][Next]_vars

-----------------------------------------------------------------------------
(***************************************************************************)
(* Properties.                                                             *)
(***************************************************************************)

\* The scratch column belongs to the newest migration that can be aborted.
Owner == IF Abortable = {} THEN NoModel ELSE mig[Max(Abortable)].to

\* Every vector of a column is of the model the column stands for.
ModelsMatch ==
    \A r \in Key : /\ vec["old"][r] # NoVec => vec["old"][r].model = reg.model
                   /\ vec["new"][r] # NoVec => vec["new"][r].model = Owner

\* The migration the batch was made for was replaced between the load of the
\* write-back and its lock.
Replaced ==
    \/ wk.phase = "write" /\ wk.fresh # Routing
    \/ wk.phase = "store" /\ mig[wk.mid].state # "running"

\* Two migrations of the entry at once: the scratch column of the first was
\* dropped by hand while a second migrate() waited for its lock.
Doubled == Cardinality(Abortable) > 1

\* Vectors of two models never meet in a column, whatever migrate(), finalize
\* and abort do while batches of either kind are in flight; outside the
\* two cases above.
ModelsKept ==
    [][ModelsMatch => ModelsMatch' \/ Replaced \/ Doubled']_vars

InService == reg.state # "disabled" /\ reg.trig

\* A text whose write reached only the scratch column of a migration that can
\* no longer finish: abort queues it.
LeftToAbort(r) ==
    Abortable # {} /\ ("new" \notin col \/ (Live = {} /\ vec["new"][r] # NoVec))

\* The migration that is live accounts for r: its fresh vector, the batch
\* that will still read it, or the count of skipped rows.
Migrated(m, r) ==
    \/ vec["new"][r].ver = ver[r]
    \/ /\ vec["new"][r] = NoVec
       /\ \/ <<r, ver[r]>> \in mig[m].skip
          \/ /\ mig[m].state = "running" /\ r > mig[m].wm
             /\ mig[m].via = "convert" => vec["old"][r].ver = ver[r]

\* A finalized migration left the row without a vector and counted it.
Skipped(r) ==
    \E m \in MigId : mig[m].state \in {"awaiting_index", "done"} /\ <<r, ver[r]>> \in mig[m].skip

\* No job is needed for r.
Settled(r) ==
    CASE kind[r] = "null" ->
            /\ vec["old"][r] = NoVec
            /\ Live # {} => vec["new"][r] = NoVec
            /\ wk.item[r].out \in {"none", "null"}
      [] kind[r] = "text" ->
            \/ LeftToAbort(r) \/ Skipped(r)
            \/ IF Routing.col = "new" THEN Migrated(Routing.mid, r)
               ELSE vec["old"][r].ver = ver[r]
      [] OTHER -> TRUE

Tracked(r) ==
    \/ ~InService
    \/ r \in q.pend \union q.lost \union dead
    \/ r \in q.held /\ wk.item[r].ver = ver[r]
    \/ Settled(r)

\* A row inserted with a NULL source while a batch holds the text or vector
\* of the row that was deleted at its key: nothing is queued for it.
Overtaken(r) ==
    kind[r] = "absent" /\ kind'[r] = "null" /\ wk.item[r].out \notin {"none", "null"}

\* A migration never loses a row: through routing changes, failed batches,
\* crashes, finalize and abort, in whatever state the row's text and two
\* vectors are, the row is up to date in the column that is searched, queued,
\* or counted as dead or skipped.
RowsKept ==
    [][\A r \in Key : Tracked(r) =>
          Tracked(r)' \/ Overtaken(r) \/ Replaced \/ Doubled']_vars

\* A registry row and its migrations tell the same story: while the entry is
\* migrating there is one migration that finalize or abort can end.
OneMigration ==
    /\ reg.state = "migrating" => Abortable # {}
    /\ "new" \in col => Abortable # {}

=============================================================================
