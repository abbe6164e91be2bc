---------------------------- MODULE AdoptedEntry ----------------------------
(***************************************************************************)
(* An adopted column: rows that come with vectors of their own, an entry   *)
(* that is synchronised by triggers or only observed, its promotion, its   *)
(* template, and the finite backfill, one-shot or by cursor.               *)
(*                                                                         *)
(* Statements of the application are atomic here; their races with claims  *)
(* are EmbedQueue's.  A transaction of the worker or of adopt() that reads *)
(* the registry and later writes it is two steps.                          *)
(***************************************************************************)
EXTENDS Integers, FiniteSets, FiniteSetsExt

CONSTANTS
    N,          \* the keys are 1 .. N, in primary-key order
    FeedSize,   \* rows per pass of the cursor
    BatchSize,  \* postvec.batch_size
    MaxOps,     \* bound: statements and changes of template
    Modes,      \* backfill modes of the first adopt()
    Calls,      \* management calls
    Overlap,    \* a promotion may overlap set_format() and the worker
    Faulty      \* jobs may fail, the cursor's pass may abort

ASSUME AdoptedAssumption ==
    /\ N \in Nat /\ FeedSize \in Nat \ {0} /\ BatchSize \in Nat \ {0} /\ MaxOps \in Nat
    /\ Modes \subseteq {"none", "queue", "cursor"}
    /\ Calls \subseteq {"set_format", "promote", "reset"}
    /\ Overlap \in BOOLEAN /\ Faulty \in BOOLEAN

VARIABLES
    row,      \* the table
    entry,    \* the registry row
    pending,  \* keys with a pending job
    dead,     \* keys with a dead letter
    ops,      \* statements so far
    call,     \* a promotion in progress
    wk,       \* the worker
    owed      \* keys whose vector postvec has undertaken to write, and has neither
              \* written nor given up

vars == <<row, entry, pending, dead, ops, call, wk, owed>>

Key == 1 .. N

\* own: the application's vector; made: the worker's.
Row == [kind: {"absent", "null", "text"}, vec: {"null", "own", "made"}]
NoRow == [kind |-> "absent", vec |-> "null"]

\* The template refers to the source column alone, or to a second one too.
Format == {"body", "both"}

\* trig: the columns the UPDATE trigger compares.
Entry == [sync: BOOLEAN, trig: Format \union {"none"}, format: Format,
          mode: {"none", "queue", "cursor", "done"}, wm: 0 .. N]

Call == [open: BOOLEAN, format: Format]
NoCall == [open |-> FALSE, format |-> "body"]

\* fresh: items whose text is still what the row renders to; nil: items read
\* as NULL; wm: the watermark the cursor's pass has read.
Worker == [phase: {"idle", "batch", "feed"}, items: SUBSET Key, fresh: SUBSET Key,
           nil: SUBSET Key, wm: 0 .. N]
Idle == [phase |-> "idle", items |-> {}, fresh |-> {}, nil |-> {}, wm |-> 0]

TypeOK ==
    /\ row \in [Key -> Row] /\ entry \in Entry
    /\ pending \subseteq Key /\ dead \subseteq Key /\ owed \subseteq Key
    /\ ops \in 0 .. MaxOps /\ call \in Call /\ wk \in Worker
    /\ wk.fresh \subseteq wk.items /\ wk.nil \subseteq wk.items

Present == {k \in Key : row[k].kind # "absent"}
Texts == {k \in Key : row[k].kind = "text"}

\* The rows a backfill is about.
Gaps(backfill) ==
    CASE backfill = "missing" -> {k \in Texts : row[k].vec = "null"}
      [] backfill = "all" -> Texts
      [] OTHER -> {}

\* adopt() of a table, under its lock.
Init ==
    /\ row \in [Key -> {r \in Row : r.vec # "made" /\ (r.kind = "absent" => r = NoRow)}]
    /\ \E sync \in BOOLEAN, mode \in Modes, backfill \in {"missing", "all"} :
          /\ mode = "cursor" => backfill = "missing"
          /\ entry = [sync |-> sync, trig |-> IF sync THEN "body" ELSE "none",
                      format |-> "body", mode |-> mode, wm |-> 0]
          /\ owed = IF mode = "none" THEN {} ELSE Gaps(backfill)
          /\ pending = IF mode = "queue" THEN Gaps(backfill) ELSE {}
    /\ dead = {} /\ ops = 0 /\ call = NoCall /\ wk = Idle

-----------------------------------------------------------------------------
(***************************************************************************)
(* The application.                                                        *)
(***************************************************************************)

\* A statement makes row k into r.  Q: the jobs its triggers queue.
\* must: a synchronised entry owes the row its vector now.
Statement(k, r, Q, must) ==
    /\ ops < MaxOps /\ ops' = ops + 1
    /\ row' = [row EXCEPT ![k] = r]
    /\ pending' = pending \union Q
    /\ wk' = [wk EXCEPT !.fresh = @ \ {k}]
    /\ owed' = IF entry.sync /\ must THEN owed \union {k} ELSE owed \ {k}
    /\ UNCHANGED <<entry, dead, call>>

Insert(k, kind, vec) ==
    /\ row[k] = NoRow /\ (kind = "null" => vec = "null")
    /\ Statement(k, [kind |-> kind, vec |-> vec],
                 IF entry.sync /\ kind = "text" THEN {k} ELSE {}, kind = "text")

\* UPDATE of the source column.
UpdateBody(k, kind) ==
    /\ k \in Present /\ (kind = "null" => row[k].kind = "text")
    /\ Statement(k, [row[k] EXCEPT !.kind = kind], IF entry.sync THEN {k} ELSE {}, TRUE)

\* The trigger compares the second column.
Watches == entry.trig = "both"

\* UPDATE of the column that only the longer template refers to.  A NULL
\* source renders to NULL whatever it is.
UpdateContext(k) ==
    /\ k \in Present
    /\ IF entry.format = "both" /\ k \in Texts
       THEN Statement(k, row[k], IF Watches THEN {k} ELSE {}, TRUE)
       ELSE /\ ops < MaxOps /\ ops' = ops + 1
            /\ pending' = pending \union (IF Watches THEN {k} ELSE {})
            /\ UNCHANGED <<row, entry, dead, call, wk, owed>>

\* UPDATE of the vector column by the application.
WriteVector(k) == k \in Texts /\ Statement(k, [row[k] EXCEPT !.vec = "own"], {}, FALSE)

Delete(k) == k \in Present /\ Statement(k, NoRow, {}, FALSE)

\* UPDATE of the primary key: the row moves with its vector.
Rekey(k, d) ==
    /\ k \in Present /\ row[d] = NoRow
    /\ ops < MaxOps /\ ops' = ops + 1
    /\ row' = [row EXCEPT ![k] = NoRow, ![d] = row[k]]
    /\ pending' = pending \union (IF entry.sync THEN {d} ELSE {})
    /\ wk' = [wk EXCEPT !.fresh = @ \ {k, d}]
    /\ owed' = (owed \ {k, d}) \union (IF entry.sync /\ (k \in Texts \/ k \in owed) THEN {d} ELSE {})
    /\ UNCHANGED <<entry, dead, call>>

\* trg_truncate: the entry's unclaimed jobs go with the rows, its dead letters
\* stay.  TRUNCATE waits for the table locks of adopt() and of the cursor's
\* pass.
Truncate ==
    /\ ~call.open /\ wk.phase # "feed"
    /\ ops < MaxOps /\ ops' = ops + 1
    /\ row' = [k \in Key |-> NoRow]
    /\ pending' = {} /\ owed' = {}
    /\ wk' = [wk EXCEPT !.fresh = {}]
    /\ UNCHANGED <<entry, dead, call>>

-----------------------------------------------------------------------------
(***************************************************************************)
(* Management calls.                                                       *)
(***************************************************************************)

\* Faulty: the refresh leaves out rows without a text.
RefreshedTexts == Texts

\* enqueue_full_refresh: every row, NULL sources included.
Refreshed == Present

\* set_format(), under SHARE ROW EXCLUSIVE.  Every text in flight is of the
\* old template.
SetFormat(f) ==
    /\ "set_format" \in Calls /\ (~Overlap => ~call.open)
    /\ f # entry.format /\ ops < MaxOps /\ ops' = ops + 1
    /\ entry' = [entry EXCEPT !.format = f, !.trig = IF entry.sync THEN f ELSE @]
    /\ pending' = pending \union Refreshed
    /\ owed' = owed \union Present
    /\ wk' = [wk EXCEPT !.fresh = {}]
    /\ UNCHANGED <<row, dead, call>>

\* adopt() loads the entry under ACCESS SHARE, which does not hold off
\* set_format() or the worker.
PromoteLoad ==
    /\ Calls \intersect {"promote", "reset"} # {}
    /\ ~call.open /\ ~entry.sync
    /\ call' = [open |-> TRUE, format |-> entry.format]
    /\ UNCHANGED <<row, entry, pending, dead, ops, wk, owed>>

\* promote_observed_entry: triggers of the template as loaded, then the
\* backfill; a cursor starts from the first key.
PromoteCommit(backfill, mode) ==
    /\ call.open
    /\ IF mode = "cursor"
       THEN "reset" \in Calls /\ backfill = "missing" /\ (~Overlap => wk.phase = "idle")
       ELSE "promote" \in Calls
    /\ entry' = [entry EXCEPT !.sync = TRUE, !.trig = call.format,
                   !.mode = IF mode = "cursor" THEN "cursor" ELSE @,
                   !.wm = IF mode = "cursor" THEN 0 ELSE @]
    /\ pending' = pending \union (IF mode = "queue" THEN Gaps(backfill) ELSE {})
    /\ owed' = owed \union Gaps(backfill)
    /\ call' = NoCall
    /\ UNCHANGED <<row, dead, ops, wk>>

\* The call is refused, or its lock times out.
PromoteFails ==
    /\ call.open
    /\ call' = NoCall
    /\ UNCHANGED <<row, entry, pending, dead, ops, wk, owed>>

-----------------------------------------------------------------------------
(***************************************************************************)
(* The worker.                                                             *)
(***************************************************************************)

\* claim_and_read of the jobs C; those of absent rows are finished.
Claim(C) ==
    /\ wk.phase = "idle"
    /\ C # {} /\ C \subseteq pending /\ Cardinality(C) <= BatchSize
    /\ pending' = pending \ C
    /\ wk' = IF C \intersect Present = {} THEN Idle
             ELSE [Idle EXCEPT !.phase = "batch", !.items = C \intersect Present,
                     !.fresh = C \intersect Present, !.nil = (C \intersect Present) \ Texts]
    /\ owed' = owed \ (C \ Present)
    /\ UNCHANGED <<row, entry, dead, ops, call>>

Outcome == {"ok", "dead"} \union (IF Faulty THEN {"retry"} ELSE {})

\* Embedding and write-back; a worker that died, or a claim that expired,
\* returns its items like a retry.
WriteBack(out) ==
    LET On(o) == {k \in wk.items : out[k] = o}
    IN  /\ wk.phase = "batch"
        /\ row' = [k \in Key |->
                     IF k \in On("ok") /\ k \in Present
                     THEN [row[k] EXCEPT !.vec = IF k \in wk.nil THEN "null" ELSE "made"]
                     ELSE row[k]]
        /\ pending' = pending \union On("retry")
        /\ dead' = dead \union On("dead")
        /\ owed' = owed \ ((On("ok") \union On("dead")) \intersect wk.fresh)
        /\ wk' = Idle
        /\ UNCHANGED <<entry, ops, call>>

\* enqueue_chunks: the registry row is read, and the relation locked.
FeedLoad ==
    /\ wk.phase = "idle" /\ entry.mode = "cursor"
    /\ wk' = [Idle EXCEPT !.phase = "feed", !.wm = entry.wm]
    /\ UNCHANGED <<row, entry, pending, dead, ops, call, owed>>

\* Faulty: the watermark itself is read again.
AheadInclusive == {k \in Gaps("missing") : k >= wk.wm}

\* The rows past the watermark that have no vector.
Ahead == {k \in Gaps("missing") : k > wk.wm}

\* The first rows past the watermark, a pass at most.
NextRows == {k \in Ahead : Cardinality({j \in Ahead : j < k}) < FeedSize}

LastRow == Max(NextRows)

\* Faulty: dead letters count as jobs of the entry.
FeedFullDead == Cardinality(pending) + Cardinality(dead) >= FeedSize

\* Enough jobs of the entry wait already.
FeedFull == Cardinality(pending) >= FeedSize

FeedCommit ==
    /\ wk.phase = "feed"
    /\ wk' = Idle
    /\ IF FeedFull THEN UNCHANGED <<entry, pending>>
       ELSE IF Ahead = {}
       THEN entry' = [entry EXCEPT !.mode = "done", !.wm = 0] /\ UNCHANGED pending
       ELSE /\ entry' = [entry EXCEPT !.wm = LastRow]
            /\ pending' = pending \union NextRows
    /\ UNCHANGED <<row, dead, ops, call, owed>>

\* step_inner: a failed pass is rolled back.
FeedAborts ==
    /\ Faulty /\ wk.phase = "feed"
    /\ wk' = Idle
    /\ UNCHANGED <<row, entry, pending, dead, ops, call, owed>>

-----------------------------------------------------------------------------

UserStep ==
    \/ \E k \in Key, kind \in {"null", "text"} :
          \/ \E vec \in {"null", "own"} : Insert(k, kind, vec)
          \/ UpdateBody(k, kind)
    \/ \E k \in Key : UpdateContext(k) \/ WriteVector(k) \/ Delete(k)
    \/ \E k, d \in Key : Rekey(k, d)
    \/ Truncate

CallStep ==
    \/ \E f \in Format : SetFormat(f)
    \/ PromoteLoad
    \/ \E backfill \in {"missing", "all", "none"}, mode \in {"queue", "cursor"} :
          PromoteCommit(backfill, mode)
    \/ PromoteFails

WriteStep == \E out \in [wk.items -> Outcome] : WriteBack(out)

Next ==
    \/ UserStep
    \/ CallStep
    \/ \E C \in SUBSET pending : Claim(C)
    \/ WriteStep
    \/ FeedLoad
    \/ FeedCommit
    \/ FeedAborts

Spec == Init /\ [][Next]_vars

(***************************************************************************)
(* Fairness.  Every turn of the worker's loop runs a batch, oldest job     *)
(* first, and a pass of the cursor; a call ends.                           *)
(***************************************************************************)
Fairness ==
    /\ \A k \in Key : SF_vars(\E C \in SUBSET pending : k \in C /\ Claim(C))
    /\ WF_vars(WriteStep)
    /\ SF_vars(FeedLoad) /\ WF_vars(FeedCommit)

FairSpec == Spec /\ Fairness

-----------------------------------------------------------------------------
(***************************************************************************)
(* Properties.                                                             *)
(***************************************************************************)

\* The cursor still comes to k.
Awaits(k) == entry.mode = "cursor" /\ k > entry.wm /\ row[k].kind = "text" /\ row[k].vec = "null"

\* A vector postvec has undertaken to write -- by a backfill, by a change of
\* template, by a change of a synchronised row -- has a job, a text in flight
\* that is still right, or the cursor ahead of it, until it is written or that
\* text ends as a dead letter.  The dead letter of an earlier text does not
\* count: TRUNCATE and later statements leave it behind.
OwedTracked == \A k \in owed : k \in pending \union wk.fresh \/ Awaits(k)

\* A pass of the cursor that had rows to queue, or the embedding of a batch,
\* fails.
Failure ==
    \/ FeedAborts /\ ~FeedFull
    \/ \E out \in [wk.items -> Outcome] : (\E k \in wk.items : out[k] = "retry") /\ WriteBack(out)

FailuresEnd == <>[][~Failure]_vars

\* Once failures end, such a vector is written, or ends as a dead letter of the
\* text it is owed for.
OwedSettles == FailuresEnd => \A k \in Key : k \in owed ~> k \notin owed

\* Once failures end, the cursor reaches the end of the table, whatever jobs
\* the triggers queue.
CursorEnds == FailuresEnd => (entry.mode = "cursor" ~> entry.mode # "cursor")

=============================================================================
