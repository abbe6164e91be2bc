---------------------------- MODULE ChunkRefresh ----------------------------
(***************************************************************************)
(* One chunked entry: a document's changes remove its chunks and queue a   *)
(* refresh, the worker's refresh splits the document into new chunks with  *)
(* one embed job each, and the embed batches fill their vectors.           *)
(*                                                                         *)
(* The version of a document stands for its text, the columns its template *)
(* refers to, and the template.  A writer takes the lock on its row, then  *)
(* its trigger's statement runs: the parts of that statement share one     *)
(* snapshot, run in an order PostgreSQL leaves open, and wait for rows the *)
(* worker has changed and not committed.  Attempts are left out, so that a *)
(* retry may or may not be the last one.                                   *)
(***************************************************************************)
EXTENDS Integers, FiniteSets

CONSTANTS
    Key, NoKey, Client,
    MaxClock,   \* bound: changes of documents
    MaxChunk,   \* bound: chunk identities
    MaxSplit,   \* the splitter's limit of chunks per document
    Bound,      \* chunk_inflight_max
    BatchSize,  \* postvec.batch_size
    Ops,        \* statements of users
    Calls,      \* management calls
    Faulty      \* inference may fail, transactions may abort, the worker may die

ASSUME ChunkAssumption ==
    /\ NoKey \notin Key
    /\ MaxClock \in Nat \ {0} /\ MaxChunk \in Nat /\ MaxSplit \in Nat \ {0}
    /\ Bound \in Nat \ {0} /\ BatchSize \in Nat \ {0}
    /\ Ops \subseteq {"ins", "upd", "del", "key"}
    /\ Calls \subseteq {"truncate", "set_format", "retry_dead"}
    /\ Faulty \in BOOLEAN

VARIABLES
    doc,      \* the committed source rows
    clock,    \* changes so far
    chunk,    \* the destination table, by chunk identity
    used,     \* chunk identities given out
    refresh,  \* keys with a pending refresh job
    job,      \* the embed job of each chunk
    dead,     \* postvec.jobs_dead
    tx,       \* the open transaction of each client
    wk        \* the worker

vars == <<doc, clock, chunk, used, refresh, job, dead, tx, wk>>

ChunkId == 1 .. MaxChunk
Version == 0 .. MaxClock

\* A blank text is one the splitter returns no chunks for.
Kind == {"absent", "null", "blank", "text"}
NotNull == {"blank", "text"}

Doc == [kind: Kind, ver: Version]
NoDoc == [kind |-> "absent", ver |-> 0]

\* vec: the version the vector was made of, 0 for NULL.
Chunk == [live: BOOLEAN, key: Key \union {NoKey}, ver: Version, vec: Version]
NoChunk == [live |-> FALSE, key |-> NoKey, ver |-> 0, vec |-> 0]

\* held: claimed for the batch in memory; lost: claimed by a worker that died.
JobState == {"none", "pend", "held", "lost"}

Part == {"refresh", "jobs", "chunks", "dead"}

\* todo: the parts of the trigger's statement still to run; seen, dseen and
\* rseen: what its snapshot shows of the document's embed jobs, dead letters
\* and refresh job; jobs, chunks: rows it has deleted; add, drop: it has
\* inserted, or deleted, the refresh job.
Tx == [op: {"none", "ins", "upd", "del", "key"}, key: Key \union {NoKey},
       to: Key \union {NoKey}, new: Doc, todo: SUBSET Part,
       seen: SUBSET ChunkId, dseen: SUBSET ChunkId, rseen: BOOLEAN,
       jobs: SUBSET ChunkId, chunks: SUBSET ChunkId, add: BOOLEAN, drop: BOOLEAN]

NoTx == [op |-> "none", key |-> NoKey, to |-> NoKey, new |-> NoDoc, todo |-> {},
         seen |-> {}, dseen |-> {}, rseen |-> FALSE,
         jobs |-> {}, chunks |-> {}, add |-> FALSE, drop |-> FALSE]

Out == {"none", "text", "ok", "dead", "retry"}

\* key: the document whose refresh is claimed; ver: the versions the texts
\* were rendered from; rows: each item is written alone; w: the items of the open
\* write-back; gone: the dead letters it has inserted.
Worker == [phase: {"idle", "row", "embed", "apply", "write"}, key: Key \union {NoKey},
           out: [ChunkId -> Out], ver: [ChunkId -> Version], rows: BOOLEAN, w: SUBSET ChunkId, gone: SUBSET ChunkId]

Idle == [phase |-> "idle", key |-> NoKey, out |-> [c \in ChunkId |-> "none"],
         ver |-> [c \in ChunkId |-> 0], rows |-> FALSE, w |-> {}, gone |-> {}]

TypeOK ==
    /\ doc \in [Key -> Doc] /\ clock \in Version
    /\ chunk \in [ChunkId -> Chunk] /\ used \in 0 .. MaxChunk
    /\ refresh \in SUBSET Key /\ job \in [ChunkId -> JobState]
    /\ dead \in [key: SUBSET Key, chunk: SUBSET ChunkId]
    /\ tx \in [Client -> Tx] /\ wk \in Worker
    /\ \A c \in ChunkId : job[c] = "held" => wk.out[c] # "none"

\* enable() of a chunked entry: a refresh for every text.
Init ==
    /\ doc \in [Key -> {NoDoc, [kind |-> "text", ver |-> 1]}]
    /\ clock = 1
    /\ chunk = [c \in ChunkId |-> NoChunk] /\ used = 0
    /\ refresh = {r \in Key : doc[r].kind = "text"}
    /\ job = [c \in ChunkId |-> "none"]
    /\ dead = [key |-> {}, chunk |-> {}]
    /\ tx = [t \in Client |-> NoTx]
    /\ wk = Idle

ChunksOf(r) == {c \in ChunkId : chunk[c].live /\ chunk[c].key = r}

\* The embed jobs whose pk_value is r.
JobsOf(r) == {c \in ChunkId : job[c] # "none" /\ chunk[c].key = r}

\* t holds the lock on the committed row r.
Holds(t, r) == tx[t].op \in {"upd", "del", "key"} /\ tx[t].key = r

\* t has the key r to itself.
Owns(t, r) == tx[t].op # "none" /\ r \in {tx[t].key, tx[t].to}

-----------------------------------------------------------------------------
(***************************************************************************)
(* Writers and their triggers.                                             *)
(***************************************************************************)

\* A statement takes its row; the trigger's statement takes its snapshot.
\* The worker's FOR SHARE is held only within RefreshDo.
Statement(t, op, r, d, k) ==
    /\ op \in Ops
    /\ tx[t] = NoTx /\ clock < MaxClock
    /\ \A s \in Client : ~Owns(s, r) /\ ~Owns(s, d)
    /\ clock' = clock + 1
    /\ tx' = [tx EXCEPT ![t] =
                [op |-> op, key |-> r, to |-> d,
                 new |-> IF k = "absent" THEN NoDoc ELSE [kind |-> k, ver |-> clock + 1],
                 todo |-> (IF k \in NotNull THEN {"refresh"} ELSE {})
                          \union (IF op = "ins" THEN {} ELSE {"jobs", "chunks", "dead"}),
                 seen |-> JobsOf(r), dseen |-> {c \in dead.chunk : chunk[c].key = r},
                 rseen |-> r \in refresh,
                 jobs |-> {}, chunks |-> {}, add |-> FALSE, drop |-> FALSE]]
    /\ UNCHANGED <<doc, chunk, used, refresh, job, dead, wk>>

Insert(t, r, k) == doc[r].kind = "absent" /\ Statement(t, "ins", r, r, k)

Update(t, r, k) == doc[r].kind # "absent" /\ Statement(t, "upd", r, r, k)

Delete(t, r) == doc[r].kind # "absent" /\ Statement(t, "del", r, r, "absent")

\* UPDATE of the primary key.
Rekey(t, r, d) ==
    /\ doc[r].kind # "absent" /\ doc[d].kind = "absent"
    /\ Statement(t, "key", r, d, doc[r].kind)

\* The worker has claimed the refresh of r and not committed.
Claiming(r) == wk.phase = "row" /\ wk.key = r

\* The worker's open write-back has changed the job row of c.
JobHeld(c) == wk.phase = "write" /\ c \in wk.w /\ wk.out[c] \in {"dead", "retry"}

\* Part p of t's trigger waits for the worker.
Waits(t, p) ==
    CASE p = "refresh" -> Claiming(tx[t].to)
      [] p = "jobs" ->
            \/ \E c \in tx[t].seen : JobHeld(c)
            \/ tx[t].op \in {"del", "key"} /\ tx[t].rseen /\ Claiming(tx[t].key)
      [] p = "chunks" -> wk.phase = "write" /\ wk.w \intersect ChunksOf(tx[t].key) # {}
      [] OTHER -> FALSE

\* Faulty: the insert relies on any refresh job of the document.
AddsIfNone(t) == tx[t].to \notin refresh \union dead.key

\* ON CONFLICT DO NOTHING against the pending refresh jobs.
Adds(t) == tx[t].to \notin refresh

TriggerPart(t, p) ==
    /\ p \in tx[t].todo /\ ~Waits(t, p)
    /\ LET b == [tx[t] EXCEPT !.todo = @ \ {p}]
       IN  tx' = [tx EXCEPT ![t] =
             CASE p = "refresh" -> [b EXCEPT !.add = Adds(t)]
               [] p = "jobs" ->
                     [b EXCEPT !.jobs = {c \in b.seen : job[c] # "none"},
                               !.drop = b.op \in {"del", "key"} /\ b.rseen /\ b.key \in refresh]
               [] p = "chunks" -> [b EXCEPT !.chunks = ChunksOf(b.key)]
               [] OTHER -> b]
    /\ UNCHANGED <<doc, clock, chunk, used, refresh, job, dead, wk>>

Commit(t) ==
    LET b == tx[t]
    IN  /\ b.op # "none" /\ b.todo = {}
        /\ doc' = [r \in Key |-> IF r = b.to THEN b.new ELSE IF r = b.key THEN NoDoc ELSE doc[r]]
        /\ chunk' = [c \in ChunkId |->
                       IF c \in b.chunks THEN [chunk[c] EXCEPT !.live = FALSE] ELSE chunk[c]]
        /\ job' = [c \in ChunkId |-> IF c \in b.jobs THEN "none" ELSE job[c]]
        /\ refresh' = (refresh \ (IF b.drop THEN {b.key} ELSE {}))
                      \union (IF b.add THEN {b.to} ELSE {})
        /\ dead' = IF b.op = "ins" THEN dead
                   ELSE [key |-> dead.key \ {b.key}, chunk |-> dead.chunk \ b.dseen]
        /\ tx' = [tx EXCEPT ![t] = NoTx]
        /\ UNCHANGED <<clock, used, wk>>

\* ROLLBACK, by the client or as the victim of a deadlock.
Rollback(t) ==
    /\ tx[t] # NoTx
    /\ tx' = [tx EXCEPT ![t] = NoTx]
    /\ UNCHANGED <<doc, clock, chunk, used, refresh, job, dead, wk>>

-----------------------------------------------------------------------------
(***************************************************************************)
(* Management calls, each a transaction that does not share the table with *)
(* writers.                                                                *)
(***************************************************************************)

NoOpenTx == \A t \in Client : tx[t] = NoTx

\* The worker's transactions on the table have ended.
TableFree == NoOpenTx /\ wk.phase \notin {"row", "write"}

EmptyDead == [key |-> {}, chunk |-> {}]

AllChunksGone == [c \in ChunkId |-> [chunk[c] EXCEPT !.live = FALSE]]

Truncate ==
    /\ "truncate" \in Calls /\ TableFree /\ clock < MaxClock
    /\ clock' = clock + 1
    /\ doc' = [r \in Key |-> NoDoc]
    /\ chunk' = AllChunksGone
    /\ job' = [c \in ChunkId |-> "none"]
    /\ refresh' = {} /\ dead' = EmptyDead
    /\ UNCHANGED <<used, tx, wk>>

\* A new template is a new version of every document.
SetFormat ==
    /\ "set_format" \in Calls /\ TableFree /\ clock < MaxClock
    /\ clock' = clock + 1
    /\ doc' = [r \in Key |-> IF doc[r].kind \in NotNull THEN [doc[r] EXCEPT !.ver = clock + 1]
                             ELSE doc[r]]
    /\ chunk' = AllChunksGone
    /\ job' = [c \in ChunkId |-> "none"]
    /\ refresh' = {r \in Key : doc[r].kind \in NotNull} /\ dead' = EmptyDead
    /\ UNCHANGED <<used, tx, wk>>

\* retry_dead() of the documents R and chunks C: it waits for open inserts
\* and deletes of the same job and dead rows.  Obsolete chunks are consumed.
RetryDead(R, C) ==
    /\ "retry_dead" \in Calls
    /\ R \subseteq dead.key /\ C \subseteq dead.chunk /\ R \union C # {}
    /\ \A r \in R : ~Claiming(r)
    /\ \A t \in Client :
          /\ tx[t].add => tx[t].to \notin R
          /\ tx[t].drop => tx[t].key \notin R
          /\ tx[t].op \in {"upd", "del", "key"} /\ "dead" \notin tx[t].todo =>
                tx[t].key \notin R /\ tx[t].dseen \intersect C = {}
    /\ dead' = [key |-> dead.key \ R, chunk |-> dead.chunk \ C]
    /\ refresh' = refresh \union R
    /\ job' = [c \in ChunkId |->
                 IF c \in C /\ chunk[c].live /\ job[c] = "none" THEN "pend" ELSE job[c]]
    /\ UNCHANGED <<doc, clock, chunk, used, tx, wk>>

-----------------------------------------------------------------------------
(***************************************************************************)
(* The worker: the refresh phase.                                          *)
(***************************************************************************)

\* The embed jobs the backpressure probe counts.
LiveJobs == {c \in ChunkId : job[c] # "none"}

\* prepare_refresh_entry and claim_refresh, SKIP LOCKED.
RefreshClaim(r) ==
    /\ wk.phase = "idle"
    /\ r \in refresh /\ \A t \in Client : ~(tx[t].drop /\ tx[t].key = r)
    /\ Cardinality(LiveJobs) < Bound
    /\ wk' = [Idle EXCEPT !.phase = "row", !.key = r]
    /\ UNCHANGED <<doc, clock, chunk, used, refresh, job, dead, tx>>

\* Faulty: the source row is read without a lock.
RowFreeAlways(r) == TRUE

\* FOR SHARE on the source row.
RowFree(r) == \A t \in Client : ~Holds(t, r)

\* The rest of process_one_refresh, committed: purge_document, and the n
\* chunks the splitter returns with their jobs.
RefreshDo(n) ==
    LET r   == wk.key
        new == IF doc[r].kind = "text" THEN used + 1 .. used + n ELSE {}
    IN  /\ wk.phase = "row" /\ RowFree(r)
        /\ used + n <= MaxChunk
        /\ used' = IF doc[r].kind = "text" THEN used + n ELSE used
        /\ chunk' = [c \in ChunkId |->
                       IF c \in new THEN [live |-> TRUE, key |-> r, ver |-> doc[r].ver, vec |-> 0]
                       ELSE IF c \in ChunksOf(r) THEN [chunk[c] EXCEPT !.live = FALSE]
                       ELSE chunk[c]]
        /\ job' = [c \in ChunkId |->
                     IF c \in new THEN "pend" ELSE IF c \in JobsOf(r) THEN "none" ELSE job[c]]
        /\ dead' = [key |-> dead.key \ {r},
                    chunk |-> {c \in dead.chunk : chunk[c].key # r}]
        /\ refresh' = refresh \ {r}
        /\ wk' = Idle
        /\ UNCHANGED <<doc, clock, tx>>

\* A document over the splitter's limits.
RefreshDead ==
    /\ wk.phase = "row" /\ RowFree(wk.key)
    /\ doc[wk.key].kind = "text"
    /\ dead' = [dead EXCEPT !.key = @ \union {wk.key}]
    /\ refresh' = refresh \ {wk.key}
    /\ wk' = Idle
    /\ UNCHANGED <<doc, clock, chunk, used, job, tx>>

\* The victim of a deadlock, or lock_timeout: the claim rolls back.
RefreshAborts ==
    /\ Faulty
    /\ wk.phase = "row"
    /\ wk' = Idle
    /\ UNCHANGED <<doc, clock, chunk, used, refresh, job, dead, tx>>

-----------------------------------------------------------------------------
(***************************************************************************)
(* The worker: embed batches.                                              *)
(***************************************************************************)

Items == {c \in ChunkId : wk.out[c] # "none"}

\* Job rows that some open transaction has deleted.
JobsLocked == UNION {tx[t].jobs : t \in Client}

\* Releasing a job replaces its row: a snapshot taken before does not show
\* the new one.
Unseen(R) == [t \in Client |-> [tx[t] EXCEPT !.seen = @ \ (R \ tx[t].jobs)]]

Pending == {c \in ChunkId : job[c] = "pend"}
Lost == {c \in ChunkId : job[c] = "lost"}

\* What read_chunk_items may do with a claimed job: render it, find it over
\* the byte cap of an item, or defer it past the byte budget of the batch.
Reads == {"text", "dead", "defer"}

\* claim_and_read: the expired claims S return, X of them spent; the jobs in
\* the domain of g are claimed, those of chunks that are gone are finished.
Claim(S, X, g) ==
    /\ wk.phase = "idle"
    /\ LET C    == DOMAIN g
           On(y) == {c \in C : chunk[c].live /\ g[c] = y}
       IN  /\ S \union C # {} /\ Cardinality(C) <= BatchSize
           /\ (S \union C) \intersect JobsLocked = {}
           /\ job' = [c \in ChunkId |->
                        IF c \in On("text") THEN "held"
                        ELSE IF c \in On("defer") THEN "pend"
                        ELSE IF c \in C \union X THEN "none"
                        ELSE IF c \in S THEN "pend" ELSE job[c]]
           /\ wk' = IF On("text") = {} THEN Idle
                    ELSE [Idle EXCEPT !.phase = "embed",
                            !.out = [c \in ChunkId |-> IF c \in On("text") THEN "text" ELSE "none"],
                            !.ver = [c \in ChunkId |->
                                       IF c \in On("text") THEN doc[chunk[c].key].ver ELSE 0]]
           /\ dead' = [dead EXCEPT !.chunk = @ \union X \union On("dead")]
           /\ tx' = Unseen(S \union On("defer"))
    /\ UNCHANGED <<doc, clock, chunk, used, refresh>>

Embed ==
    /\ wk.phase = "embed"
    /\ \E f \in [Items -> {"ok", "dead"} \union (IF Faulty THEN {"retry"} ELSE {})] :
          wk' = [wk EXCEPT !.phase = "apply",
                   !.out = [c \in ChunkId |-> IF c \in Items THEN f[c] ELSE "none"]]
    /\ UNCHANGED <<doc, clock, chunk, used, refresh, job, dead, tx>>

\* apply_group, for the batch or for one item of it: the dead letters of
\* dead items and of the spent retries Y are inserted, the vectors written.
WriteStart(W, Y) ==
    /\ wk.phase = "apply"
    /\ IF wk.rows THEN \E c \in Items : W = {c} ELSE W = Items
    /\ Y \subseteq {c \in W : wk.out[c] = "retry"}
    /\ \A t \in Client : tx[t].chunks \intersect {c \in W : wk.out[c] = "ok"} = {}
    /\ wk' = [wk EXCEPT !.phase = "write", !.w = W,
                !.gone = {c \in W : job[c] = "held" /\ (wk.out[c] = "dead" \/ c \in Y)}]
    /\ UNCHANGED <<doc, clock, chunk, used, refresh, job, dead, tx>>

\* The worker with the items of R off its hands.
Without(R) ==
    IF Items \subseteq R THEN Idle
    ELSE [wk EXCEPT !.phase = "apply", !.w = {}, !.gone = {}, !.out = [c \in ChunkId |->
            IF c \in R THEN "none" ELSE wk.out[c]]]

\* write_chunk_vectors, by chunk identity and source key.  The jobs are
\* deleted or released, once no trigger has them locked.
WriteCommit ==
    LET back == {c \in wk.w : wk.out[c] = "retry" /\ c \notin wk.gone /\ job[c] = "held"}
        ok   == {c \in wk.w : wk.out[c] = "ok"}
    IN  /\ wk.phase = "write"
        /\ wk.w \intersect JobsLocked = {}
        /\ chunk' = [c \in ChunkId |->
                       IF c \in ok /\ chunk[c].live THEN [chunk[c] EXCEPT !.vec = wk.ver[c]]
                       ELSE chunk[c]]
        /\ job' = [c \in ChunkId |->
                     IF c \in back THEN "pend"
                     ELSE IF c \in wk.w /\ job[c] = "held" THEN "none" ELSE job[c]]
        /\ dead' = [dead EXCEPT !.chunk = @ \union wk.gone]
        /\ tx' = Unseen(back)
        /\ wk' = Without(wk.w)
        /\ UNCHANGED <<doc, clock, used, refresh>>

\* The write-back aborts: item by item from then on; an item that fails
\* alone is released, dead when its attempts are spent.
WriteAborts ==
    /\ Faulty
    /\ wk.phase = "write"
    /\ IF ~wk.rows
       THEN /\ wk' = [wk EXCEPT !.phase = "apply", !.rows = TRUE, !.w = {}, !.gone = {}]
            /\ UNCHANGED <<job, dead, tx>>
       ELSE LET back == {c \in wk.w : job[c] = "held"}
            IN  /\ back \intersect JobsLocked = {}
                /\ \/ /\ job' = [c \in ChunkId |-> IF c \in back THEN "pend" ELSE job[c]]
                      /\ tx' = Unseen(back)
                      /\ UNCHANGED dead
                   \/ /\ job' = [c \in ChunkId |-> IF c \in back THEN "none" ELSE job[c]]
                      /\ dead' = [dead EXCEPT !.chunk = @ \union back]
                      /\ UNCHANGED tx
                /\ wk' = Without(wk.w)
    /\ UNCHANGED <<doc, clock, chunk, used, refresh>>

Crash ==
    /\ Faulty
    /\ wk.phase \notin {"idle", "row"}
    /\ job' = [c \in ChunkId |-> IF job[c] = "held" THEN "lost" ELSE job[c]]
    /\ wk' = Idle
    /\ UNCHANGED <<doc, clock, chunk, used, refresh, dead, tx>>

-----------------------------------------------------------------------------

UserStep ==
    \/ \E t \in Client, r \in Key :
          \/ \E k \in {"null", "blank", "text"} : Insert(t, r, k) \/ Update(t, r, k)
          \/ Delete(t, r)
          \/ \E d \in Key \ {r} : Rekey(t, r, d)
    \/ \E t \in Client : Commit(t) \/ Rollback(t) \/ \E p \in Part : TriggerPart(t, p)

CallStep ==
    \/ Truncate
    \/ SetFormat
    \/ \E R \in SUBSET Key, C \in SUBSET ChunkId : RetryDead(R, C)

RefreshStep == RefreshDead \/ \E n \in 1 .. MaxSplit : RefreshDo(n)

\* A claim that takes the jobs of K, and maybe more.
ClaimOf(K) ==
    \E S \in SUBSET Lost : \E X \in SUBSET S :
    \E C \in SUBSET (Pending \union (S \ X)) : \E g \in [C -> Reads] : K \subseteq C /\ Claim(S, X, g)

ClaimStep == ClaimOf({})

WriteStep == WriteCommit \/ \E W \in SUBSET Items : \E Y \in SUBSET W : WriteStart(W, Y)

Next ==
    \/ UserStep
    \/ CallStep
    \/ \E r \in Key : RefreshClaim(r)
    \/ RefreshStep
    \/ RefreshAborts
    \/ ClaimStep
    \/ Embed
    \/ WriteStep
    \/ WriteAborts
    \/ Crash

Spec == Init /\ [][Next]_vars

-----------------------------------------------------------------------------
(***************************************************************************)
(* Properties.                                                             *)
(***************************************************************************)

\* process_one_refresh: there is no window to commit chunks of an older row
\* version after the invalidation by a newer one.  Every committed chunk is
\* of the committed version of its document, and so is its vector.
ChunksCurrent ==
    \A c \in ChunkId : chunk[c].live =>
        LET d == doc[chunk[c].key]
        IN  d.kind = "text" /\ chunk[c].ver = d.ver /\ chunk[c].vec \in {0, d.ver}

Embedded(c) == chunk[c].vec # 0 \/ job[c] # "none" \/ c \in dead.chunk

\* A text has its refresh queued or dead, or it has chunks, each with its
\* vector, a job or a dead letter.
Covered(r) ==
    doc[r].kind = "text" =>
        \/ r \in refresh \union dead.key
        \/ ChunksOf(r) # {} /\ \A c \in ChunksOf(r) : Embedded(c)

\* An insert found the refresh job of a document that is gone, and the
\* worker finished that job before the insert committed.
Orphaned(r) ==
    \E t \in Client : tx[t].op \in {"ins", "key"} /\ tx[t].to = r /\ tx'[t] = NoTx /\ ~tx[t].add

\* No document is lost, whatever order triggers, refreshes, releases and
\* re-drives come in; outside the case above.
DocsStayCovered ==
    [][\A r \in Key : Covered(r) => Covered(r)' \/ Orphaned(r)]_vars

=============================================================================
