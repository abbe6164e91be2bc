------------------------- MODULE ChunkRefreshProofs -------------------------
(***************************************************************************)
(* Every chunk is of the committed version of its document, and no step    *)
(* loses a document, for any keys, clients, chunk identities and bounds.   *)
(***************************************************************************)
EXTENDS ChunkRefresh, TLAPS

\* The provers that a leaf tries in turn when it names none.
USE SMTT(20), Z3T(20), SMTT(40), Z3T(40), ZenonT(20)

-----------------------------------------------------------------------------
(***************************************************************************)
(* The inductive invariant.                                                *)
(***************************************************************************)

\* The batch and the phase fit together.  The text of an item was rendered
\* from the version its chunk is of, as long as the chunk lives.
WorkInv ==
    /\ wk.phase \in {"idle", "row"} => Items = {}
    /\ wk.phase = "row" => wk.key \in Key
    /\ \A c \in Items : c <= used /\ (chunk[c].live => wk.ver[c] = chunk[c].ver)
    /\ wk.phase \in {"apply", "write"} => \A c \in Items : wk.out[c] # "text"
    /\ wk.w \subseteq Items /\ wk.gone \subseteq Items
    /\ wk.phase = "write" =>
          \A c \in wk.w : wk.out[c] = "dead" /\ job[c] = "held" => c \in wk.gone

\* Chunk identities are given out once.
UsedInv ==
    /\ \A c \in ChunkId : chunk[c].live \/ job[c] # "none" \/ c \in dead.chunk => c <= used
    /\ \A c \in ChunkId : chunk[c].live => chunk[c].key \in Key
    /\ \A r \in Key : doc[r].kind = "text" => doc[r].ver # 0

\* What an open transaction has seen and deleted is of its document; once the
\* chunks are deleted none comes back, and a refresh job it relies on stays.
TxOK(t) ==
    tx[t].op # "none" =>
        /\ tx[t].key \in Key /\ tx[t].to \in Key
        /\ tx[t].op # "key" => tx[t].to = tx[t].key
        /\ tx[t].op = "ins" => doc[tx[t].key].kind = "absent"
        /\ tx[t].op = "key" => doc[tx[t].to].kind = "absent"
        /\ tx[t].new.kind = "text" => tx[t].new.ver # 0
        /\ tx[t].op = "del" => tx[t].new.kind = "absent"
        /\ tx[t].op = "upd" => ~tx[t].drop
        /\ \A c \in tx[t].seen \union tx[t].dseen \union tx[t].jobs \union tx[t].chunks :
              c <= used /\ chunk[c].key = tx[t].key
        /\ tx[t].op # "ins" /\ "chunks" \notin tx[t].todo =>
              ChunksOf(tx[t].key) \subseteq tx[t].chunks
        /\ tx[t].op = "upd" /\ "refresh" \notin tx[t].todo /\ tx[t].new.kind = "text" /\ ~tx[t].add
              => tx[t].key \in refresh

\* No two transactions have a key in common.
Apart(s, t) ==
    tx[s].op # "none" /\ tx[t].op # "none" =>
        {tx[s].key, tx[s].to} \intersect {tx[t].key, tx[t].to} = {}

TxInv ==
    /\ \A t \in Client : TxOK(t)
    /\ \A s, t \in Client : s # t => Apart(s, t)

IInv == TypeOK /\ WorkInv /\ UsedInv /\ TxInv /\ ChunksCurrent

\* A step leaves a transaction as it is, or takes jobs out of what it has seen.
SameTx(t) ==
    /\ tx'[t].op = tx[t].op /\ tx'[t].key = tx[t].key /\ tx'[t].to = tx[t].to
    /\ tx'[t].new = tx[t].new /\ tx'[t].todo = tx[t].todo
    /\ tx'[t].seen \subseteq tx[t].seen /\ tx'[t].dseen = tx[t].dseen
    /\ tx'[t].jobs = tx[t].jobs /\ tx'[t].chunks = tx[t].chunks
    /\ tx'[t].add = tx[t].add /\ tx'[t].drop = tx[t].drop

-----------------------------------------------------------------------------
(***************************************************************************)
(* Lemmas.                                                                 *)
(***************************************************************************)

\* The initial states satisfy the invariant.
LEMMA InitInv == Init => IInv
<1> SUFFICES ASSUME Init PROVE IInv
  OBVIOUS
<1> USE DEF Init
<1>0. MaxClock \in Nat /\ MaxClock >= 1 /\ MaxChunk \in Nat
  BY ChunkAssumption
<1>1. NoDoc \in Doc /\ [kind |-> "text", ver |-> 1] \in Doc /\ clock \in Version
  BY <1>0 DEF NoDoc, Doc, Kind, Version
<1>2. doc \in [Key -> Doc]
  BY <1>1
<1>3. NoChunk \in Chunk /\ NoTx \in Tx /\ Idle \in Worker
  BY <1>0, <1>1 DEF NoChunk, Chunk, NoTx, Tx, Idle, Worker, Out, Version, Part
<1>4. TypeOK
  BY <1>0, <1>1, <1>2, <1>3 DEF TypeOK, JobState
<1>5. WorkInv
  BY DEF WorkInv, Items, Idle
<1>6. UsedInv
  BY DEF UsedInv, NoChunk, NoDoc
<1>7. TxInv
  BY DEF TxInv, TxOK, Apart, NoTx
<1>8. ChunksCurrent
  BY DEF ChunksCurrent, NoChunk
<1> QED
  BY <1>4, <1>5, <1>6, <1>7, <1>8 DEF IInv

\* What the type invariant says of the parts.
LEMMA Types ==
    ASSUME TypeOK
    PROVE  /\ ChunkId \subseteq Nat /\ used \in Nat /\ used <= MaxChunk
           /\ MaxChunk \in Nat /\ MaxClock \in Nat /\ clock \in Nat /\ clock <= MaxClock
           /\ dead.key \subseteq Key /\ dead.chunk \subseteq ChunkId
           /\ \A u \in Client : tx[u].seen \union tx[u].dseen \union tx[u].jobs \union tx[u].chunks
                                   \subseteq ChunkId
<1>1. MaxChunk \in Nat /\ MaxClock \in Nat
  BY ChunkAssumption
<1>2. dead.key \subseteq Key /\ dead.chunk \subseteq ChunkId
  BY DEF TypeOK
<1>3. \A u \in Client : tx[u] \in Tx
  BY DEF TypeOK
<1>4. \A u \in Client : tx[u].seen \union tx[u].dseen \union tx[u].jobs \union tx[u].chunks
                            \subseteq ChunkId
  BY <1>3 DEF Tx
<1> QED
  BY <1>1, <1>2, <1>4 DEF TypeOK, ChunkId, Version

\* What transactions rely on survives a step that changes no document, gives
\* a locked document no chunk, and takes no refresh job one relies on.
LEMMA TxKept ==
    ASSUME TypeOK, TxInv, doc' = doc, used' \in Nat, used <= used',
           \A u \in Client : SameTx(u),
           \A c \in ChunkId : c <= used => chunk'[c].key = chunk[c].key,
           \A u \in Client : tx[u].op \notin {"none", "ins"} =>
               ChunksOf(tx[u].key)' \subseteq ChunksOf(tx[u].key),
           \A u \in Client : tx[u].op = "upd" /\ tx[u].key \in refresh => tx[u].key \in refresh'
    PROVE  TxInv'
<1>0. used \in Nat /\ ChunkId \subseteq Nat
  BY Types
<1>1. ASSUME NEW u \in Client PROVE TxOK(u)'
  <2>1. SameTx(u) /\ TxOK(u) /\ tx[u] \in Tx
    BY DEF TxInv, TypeOK
  <2>2. \A c \in tx'[u].seen \union tx'[u].dseen \union tx'[u].jobs \union tx'[u].chunks :
             c \in tx[u].seen \union tx[u].dseen \union tx[u].jobs \union tx[u].chunks
    BY <2>1 DEF SameTx
  <2>3. \A c \in tx[u].seen \union tx[u].dseen \union tx[u].jobs \union tx[u].chunks :
             c \in ChunkId /\ c \in Nat
    BY <1>0, Types, ZenonT(60), SMTT(20)
  <2>4. tx'[u].op # "none" =>
          \A c \in tx'[u].seen \union tx'[u].dseen \union tx'[u].jobs \union tx'[u].chunks :
              c <= used' /\ chunk'[c].key = tx'[u].key
    BY <1>0, <2>1, <2>2, <2>3 DEF SameTx, TxOK
  <2>5. tx'[u].op # "none" => ~(tx'[u].op # "ins" /\ "chunks" \notin tx'[u].todo) \/
              ChunksOf(tx[u].key)' \subseteq tx'[u].chunks
    BY <2>1 DEF SameTx, TxOK
  <2>6. tx'[u].op # "none" =>
          /\ tx'[u].key \in Key /\ tx'[u].to \in Key
          /\ tx'[u].op # "key" => tx'[u].to = tx'[u].key
          /\ tx'[u].op = "ins" => doc'[tx'[u].key].kind = "absent"
          /\ tx'[u].op = "key" => doc'[tx'[u].to].kind = "absent"
          /\ tx'[u].new.kind = "text" => tx'[u].new.ver # 0
          /\ tx'[u].op = "del" => tx'[u].new.kind = "absent"
          /\ tx'[u].op = "upd" => ~tx'[u].drop
    BY <2>1 DEF SameTx, TxOK
  <2>7. tx'[u].op = "upd" /\ "refresh" \notin tx'[u].todo /\ tx'[u].new.kind = "text" /\ ~tx'[u].add
           => tx'[u].key \in refresh'
    BY <2>1 DEF SameTx, TxOK
  <2> QED
    BY <2>4, <2>5, <2>6, <2>7 DEF TxOK
<1>2. ASSUME NEW s \in Client, NEW u \in Client, s # u PROVE Apart(s, u)'
  BY <1>2 DEF TxInv, Apart, SameTx
<1> QED
  BY <1>1, <1>2 DEF TxInv

\* A transaction that a step does not touch, where the rest is the same.
LEMMA TxFrame ==
    ASSUME NEW u \in Client, TxOK(u), tx'[u] = tx[u], UNCHANGED <<doc, chunk, used, refresh>>
    PROVE  TxOK(u)'
<1>1. CASE tx[u].op = "none"
  BY <1>1 DEF TxOK
<1>2. CASE tx[u].op # "none"
  <2>1. ChunksOf(tx[u].key)' = ChunksOf(tx[u].key)
    BY DEF ChunksOf
  <2>2. \A c \in tx'[u].seen \union tx'[u].dseen \union tx'[u].jobs \union tx'[u].chunks :
            c <= used' /\ chunk'[c].key = tx'[u].key
    BY <1>2 DEF TxOK
  <2>3. ~(tx'[u].op # "ins" /\ "chunks" \notin tx'[u].todo) \/ ChunksOf(tx[u].key)' \subseteq tx'[u].chunks
    BY <1>2, <2>1 DEF TxOK
  <2>4. /\ tx'[u].key \in Key /\ tx'[u].to \in Key
        /\ tx'[u].op # "key" => tx'[u].to = tx'[u].key
        /\ tx'[u].op = "ins" => doc'[tx'[u].key].kind = "absent"
        /\ tx'[u].op = "key" => doc'[tx'[u].to].kind = "absent"
        /\ tx'[u].new.kind = "text" => tx'[u].new.ver # 0
        /\ tx'[u].op = "del" => tx'[u].new.kind = "absent"
        /\ tx'[u].op = "upd" => ~tx'[u].drop
    BY <1>2 DEF TxOK
  <2>5. tx'[u].op = "upd" /\ "refresh" \notin tx'[u].todo /\ tx'[u].new.kind = "text" /\ ~tx'[u].add
           => tx'[u].key \in refresh'
    BY <1>2 DEF TxOK
  <2> QED
    BY <2>2, <2>3, <2>4, <2>5 DEF TxOK
<1> QED
  BY <1>1, <1>2

LEMMA TxSame ==
    ASSUME TxInv, UNCHANGED <<doc, chunk, used, refresh, tx>>
    PROVE  TxInv'
<1>1. \A u \in Client : TxOK(u)'
  BY TxFrame DEF TxInv
<1>2. \A s, u \in Client : s # u => Apart(s, u)'
  BY DEF TxInv, Apart
<1> QED
  BY <1>1, <1>2 DEF TxInv

\* A released job is taken out of what transactions have seen, nothing else.
LEMMA UnseenSame ==
    ASSUME TypeOK, NEW R, tx' = Unseen(R)
    PROVE  tx' \in [Client -> Tx] /\ \A u \in Client : SameTx(u)
<1>1. ASSUME NEW u \in Client PROVE tx'[u] \in Tx /\ SameTx(u)
  <2>1. tx[u] \in Tx /\ tx'[u] = [tx[u] EXCEPT !.seen = tx[u].seen \ (R \ tx[u].jobs)]
    BY DEF TypeOK, Unseen
  <2> QED
    BY <2>1 DEF Tx, SameTx
<1> QED
  BY <1>1, ZenonT(60), SMTT(20) DEF Unseen

-----------------------------------------------------------------------------
(***************************************************************************)
(* Writers.                                                                *)
(***************************************************************************)

\* A statement takes keys no other transaction has.
LEMMA StatementInv ==
    ASSUME IInv, NEW t \in Client, NEW op \in {"ins", "upd", "del", "key"},
           NEW r \in Key, NEW d \in Key, NEW k \in Kind, Statement(t, op, r, d, k),
           op # "key" => d = r, op = "ins" => doc[r].kind = "absent",
           op = "key" => doc[d].kind = "absent", op = "del" => k = "absent"
    PROVE  IInv'
<1> DEFINE new  == IF k = "absent" THEN NoDoc ELSE [kind |-> k, ver |-> clock + 1]
           todo == (IF k \in NotNull THEN {"refresh"} ELSE {})
                   \union (IF op = "ins" THEN {} ELSE {"jobs", "chunks", "dead"})
           dsn  == {c \in dead.chunk : chunk[c].key = r}
           x    == [op |-> op, key |-> r, to |-> d, new |-> new, todo |-> todo,
                    seen |-> JobsOf(r), dseen |-> dsn, rseen |-> r \in refresh,
                    jobs |-> {}, chunks |-> {}, add |-> FALSE, drop |-> FALSE]
<1>0. TypeOK /\ WorkInv /\ UsedInv /\ TxInv /\ ChunksCurrent
  BY DEF IInv
<1>1. /\ tx' = [tx EXCEPT ![t] = x] /\ clock' = clock + 1 /\ clock < MaxClock
      /\ \A s \in Client : ~Owns(s, r) /\ ~Owns(s, d)
      /\ UNCHANGED <<doc, chunk, used, refresh, job, dead, wk>>
  BY DEF Statement
<1>2. clock \in Nat /\ clock + 1 \in Version /\ ChunkId \subseteq Nat /\ used \in Nat
      /\ dead.chunk \subseteq ChunkId
  BY <1>0, <1>1, Types DEF Version
<1>3. new \in Doc /\ (new.kind = "text" => new.ver # 0) /\ (op = "del" => new.kind = "absent")
  BY <1>2, ChunkAssumption DEF Doc, NoDoc, Kind, Version
<1>4. dsn \in SUBSET ChunkId /\ JobsOf(r) \in SUBSET ChunkId /\ todo \in SUBSET Part
  BY <1>2 DEF JobsOf, Part
<1>5. x \in Tx
  BY <1>3, <1>4 DEF Tx
<1>6. tx' \in [Client -> Tx] /\ tx'[t] = x /\ \A u \in Client \ {t} : tx'[u] = tx[u]
  BY <1>0, <1>1, <1>5 DEF TypeOK
<1>7. TypeOK'
  BY <1>0, <1>1, <1>2, <1>6 DEF TypeOK
<1>8. WorkInv' /\ UsedInv' /\ ChunksCurrent'
  BY <1>0, <1>1 DEF WorkInv, UsedInv, ChunksCurrent, Items
<1>9. \A c \in JobsOf(r) \union dsn : c <= used /\ chunk[c].key = r
  BY <1>0, <1>2 DEF UsedInv, JobsOf
<1>10. ASSUME NEW u \in Client PROVE TxOK(u)'
  <2>1. CASE u = t
    <3>1. op # "ins" => "chunks" \in todo
      OBVIOUS
    <3>2. new.kind = "text" => "refresh" \in todo
      BY DEF NotNull, NoDoc
    <3>3. tx'[u] = x
      BY <1>6, <2>1
    <3>4. \A c \in x.seen \union x.dseen \union x.jobs \union x.chunks :
             c <= used' /\ chunk'[c].key = x.key
      BY <1>1, <1>9
    <3>5. /\ tx'[u].op = op /\ tx'[u].key = r /\ tx'[u].to = d /\ tx'[u].new = new
          /\ tx'[u].todo = todo /\ ~tx'[u].drop
      BY <3>3
    <3>6. \A c \in tx'[u].seen \union tx'[u].dseen \union tx'[u].jobs \union tx'[u].chunks :
             c <= used' /\ chunk'[c].key = tx'[u].key
      BY <3>3, <3>4, ZenonT(60), SMTT(20)
    <3>7. doc' = doc /\ (op # "key" => d = r) /\ (op = "ins" => doc[r].kind = "absent")
          /\ (op = "key" => doc[d].kind = "absent")
      BY <1>1
    <3> HIDE DEF new, todo, dsn, x
    <3> QED
      BY <1>3, <3>1, <3>2, <3>5, <3>6, <3>7 DEF TxOK
  <2>2. CASE u # t
    <3>1. tx'[u] = tx[u] /\ TxOK(u)
      BY <1>0, <1>6, <2>2 DEF TxInv
    <3> QED
      BY <1>1, <3>1, TxFrame
  <2> QED
    BY <2>1, <2>2, ZenonT(60), SMTT(20)
<1>11. ASSUME NEW s \in Client, NEW u \in Client, s # u PROVE Apart(s, u)'
  <2>1. Apart(s, u) /\ ~Owns(s, r) /\ ~Owns(s, d) /\ ~Owns(u, r) /\ ~Owns(u, d)
    BY <1>0, <1>1, <1>11 DEF TxInv
  <2> QED
    BY <1>6, <1>11, <2>1 DEF Apart, Owns
<1> QED
  BY <1>7, <1>8, <1>10, <1>11 DEF IInv, TxInv

\* A part of a trigger's statement records what it deletes or relies on.
LEMMA TriggerInv ==
    ASSUME IInv, NEW t \in Client, NEW p \in Part, TriggerPart(t, p)
    PROVE  IInv'
<1> DEFINE b == tx[t]
<1>0. TypeOK /\ WorkInv /\ UsedInv /\ TxInv /\ ChunksCurrent
  BY DEF IInv
<1>1. UNCHANGED <<doc, clock, chunk, used, refresh, job, dead, wk>>
  BY DEF TriggerPart
<1>2. b \in Tx /\ TxOK(t) /\ p \in b.todo
  BY <1>0 DEF TypeOK, TxInv, TriggerPart
<1>3. /\ tx'[t] \in Tx
      /\ tx'[t].op = b.op /\ tx'[t].key = b.key /\ tx'[t].to = b.to /\ tx'[t].new = b.new
      /\ tx'[t].todo = b.todo \ {p} /\ tx'[t].seen = b.seen /\ tx'[t].dseen = b.dseen
      /\ tx'[t].jobs = IF p = "jobs" THEN {c \in b.seen : job[c] # "none"} ELSE b.jobs
      /\ tx'[t].chunks = IF p = "chunks" THEN ChunksOf(b.key) ELSE b.chunks
      /\ tx'[t].add = IF p = "refresh" THEN Adds(t) ELSE b.add
      /\ b.op = "upd" => tx'[t].drop = b.drop \/ ~tx'[t].drop
  <2> DEFINE c0 == [b EXCEPT !.todo = @ \ {p}]
  <2>0. c0 \in Tx /\ c0.op = b.op /\ c0.key = b.key /\ c0.to = b.to /\ c0.new = b.new
        /\ c0.todo = b.todo \ {p} /\ c0.seen = b.seen /\ c0.dseen = b.dseen /\ c0.jobs = b.jobs
        /\ c0.chunks = b.chunks /\ c0.add = b.add /\ c0.drop = b.drop
    BY <1>2 DEF Tx
  <2>1. CASE p = "refresh"
    <3>1. tx'[t] = [c0 EXCEPT !.add = Adds(t)]
      BY <1>0, <2>1 DEF TriggerPart, TypeOK
    <3>2. Adds(t) \in BOOLEAN
      BY ZenonT(60), SMTT(20) DEF Adds
    <3> HIDE DEF c0
    <3> QED
      BY <2>0, <2>1, <3>1, <3>2 DEF Tx
  <2>2. CASE p = "jobs"
    <3> DEFINE dr == c0.op \in {"del", "key"} /\ c0.rseen /\ c0.key \in refresh
               jb == {c \in c0.seen : job[c] # "none"}
    <3>1. tx'[t] = [c0 EXCEPT !.jobs = jb, !.drop = dr]
      BY <1>0, <2>2 DEF TriggerPart, TypeOK
    <3>2. jb \in SUBSET ChunkId /\ dr \in BOOLEAN /\ (b.op = "upd" => ~dr) /\ jb = {c \in b.seen : job[c] # "none"}
      BY <2>0 DEF Tx
    <3> HIDE DEF c0, dr, jb
    <3> QED
      BY <2>0, <2>2, <3>1, <3>2, ZenonT(60), SMTT(20) DEF Tx
  <2>3. CASE p = "chunks"
    <3>1. tx'[t] = [c0 EXCEPT !.chunks = ChunksOf(c0.key)]
      BY <1>0, <2>3 DEF TriggerPart, TypeOK
    <3>2. ChunksOf(c0.key) \in SUBSET ChunkId
      BY DEF ChunksOf
    <3> HIDE DEF c0
    <3> QED
      BY <2>0, <2>3, <3>1, <3>2 DEF Tx
  <2>4. CASE p = "dead"
    <3>1. tx'[t] = c0
      BY <1>0, <2>4 DEF TriggerPart, TypeOK
    <3> HIDE DEF c0
    <3> QED
      BY <2>0, <2>4, <3>1
  <2> QED
    BY <2>1, <2>2, <2>3, <2>4 DEF Part
<1>4. tx' \in [Client -> Tx] /\ \A u \in Client \ {t} : tx'[u] = tx[u]
  BY <1>0, <1>3 DEF TriggerPart, TypeOK
<1>5. TypeOK'
  BY <1>0, <1>1, <1>4 DEF TypeOK
<1>6. WorkInv' /\ UsedInv' /\ ChunksCurrent'
  BY <1>0, <1>1 DEF WorkInv, UsedInv, ChunksCurrent, Items
<1>7. \A q : ChunksOf(q)' = ChunksOf(q)
  BY <1>1 DEF ChunksOf
<1>8. TxOK(t)'
  <2>1. \A c \in ChunksOf(b.key) : c <= used /\ chunk[c].key = b.key
    BY <1>0 DEF ChunksOf, UsedInv
  <2>2. b.op # "none" =>
          \A c \in tx'[t].seen \union tx'[t].dseen \union tx'[t].jobs \union tx'[t].chunks :
              c <= used /\ chunk[c].key = b.key
    BY <1>2, <1>3, <2>1 DEF TxOK
  <2>3. b.op # "none" /\ b.op # "ins" /\ "chunks" \notin tx'[t].todo =>
            ChunksOf(b.key) \subseteq tx'[t].chunks
    BY <1>2, <1>3 DEF TxOK
  <2>4. b.op = "upd" /\ "refresh" \notin tx'[t].todo /\ b.new.kind = "text" /\ ~tx'[t].add
           => b.key \in refresh
    BY <1>2, <1>3, ZenonT(60), SMTT(20) DEF TxOK, Adds
  <2> QED
    BY <1>1, <1>2, <1>3, <1>7, <2>2, <2>3, <2>4 DEF TxOK
<1>9. ASSUME NEW u \in Client, u # t PROVE TxOK(u)'
  BY <1>0, <1>1, <1>4, <1>9, TxFrame DEF TxInv
<1>10. ASSUME NEW s \in Client, NEW u \in Client, s # u PROVE Apart(s, u)'
  BY <1>0, <1>3, <1>4, <1>10 DEF Apart, TxInv
<1> QED
  BY <1>5, <1>6, <1>8, <1>9, <1>10 DEF IInv, TxInv

\* The batch is as sound as before when no chunk and no claim is new.
LEMMA WorkKept ==
    ASSUME WorkInv, wk' = wk, used' = used,
           \A c \in ChunkId : chunk'[c].live => chunk[c].live /\ chunk'[c].ver = chunk[c].ver,
           \A c \in ChunkId : job'[c] = "held" => job[c] = "held"
    PROVE  WorkInv'
<1>1. Items' = Items /\ Items \subseteq ChunkId
  BY DEF Items
<1> QED
  BY <1>1 DEF WorkInv

\* A transaction that ends without an effect leaves the others as they are.
LEMMA RollbackInv ==
    ASSUME IInv, NEW t \in Client, Rollback(t)
    PROVE  IInv'
<1>0. TypeOK /\ WorkInv /\ UsedInv /\ TxInv /\ ChunksCurrent
  BY DEF IInv
<1>1. UNCHANGED <<doc, clock, chunk, used, refresh, job, dead, wk>> /\ tx' = [tx EXCEPT ![t] = NoTx]
  BY DEF Rollback
<1>2. NoTx \in Tx
  BY ChunkAssumption DEF NoTx, Tx, NoDoc, Doc, Kind, Version
<1>3. tx' \in [Client -> Tx] /\ tx'[t].op = "none" /\ \A u \in Client \ {t} : tx'[u] = tx[u]
  BY <1>0, <1>1, <1>2 DEF TypeOK, NoTx
<1>4. TypeOK'
  BY <1>0, <1>1, <1>3 DEF TypeOK
<1>5. WorkInv' /\ UsedInv' /\ ChunksCurrent'
  BY <1>0, <1>1 DEF WorkInv, UsedInv, ChunksCurrent, Items
<1>6. \A q : ChunksOf(q)' = ChunksOf(q)
  BY <1>1 DEF ChunksOf
<1>7. ASSUME NEW u \in Client PROVE TxOK(u)'
  BY <1>0, <1>1, <1>3, <1>6 DEF TxOK, TxInv
<1>8. ASSUME NEW s \in Client, NEW u \in Client, s # u PROVE Apart(s, u)'
  BY <1>0, <1>3, <1>8 DEF Apart, TxInv
<1> QED
  BY <1>4, <1>5, <1>7, <1>8 DEF IInv, TxInv

\* The commit of a new version finds every chunk of the old one deleted.
LEMMA CommitInv ==
    ASSUME IInv, NEW t \in Client, Commit(t)
    PROVE  IInv'
<1> DEFINE b == tx[t]
<1>0. TypeOK /\ WorkInv /\ UsedInv /\ TxInv /\ ChunksCurrent
  BY DEF IInv
<1>1. /\ b.op # "none" /\ b.todo = {}
      /\ doc' = [r \in Key |-> IF r = b.to THEN b.new ELSE IF r = b.key THEN NoDoc ELSE doc[r]]
      /\ chunk' = [c \in ChunkId |->
                     IF c \in b.chunks THEN [chunk[c] EXCEPT !.live = FALSE] ELSE chunk[c]]
      /\ job' = [c \in ChunkId |-> IF c \in b.jobs THEN "none" ELSE job[c]]
      /\ refresh' = (refresh \ (IF b.drop THEN {b.key} ELSE {}))
                    \union (IF b.add THEN {b.to} ELSE {})
      /\ dead' = IF b.op = "ins" THEN dead
                 ELSE [key |-> dead.key \ {b.key}, chunk |-> dead.chunk \ b.dseen]
      /\ tx' = [tx EXCEPT ![t] = NoTx]
      /\ UNCHANGED <<clock, used, wk>>
  BY DEF Commit
<1>2. b \in Tx /\ TxOK(t) /\ b.key \in Key /\ b.to \in Key
  BY <1>0, <1>1 DEF TypeOK, TxInv, TxOK
<1>3. NoTx \in Tx /\ NoDoc \in Doc /\ b.new \in Doc
  BY <1>2, ChunkAssumption DEF NoTx, Tx, NoDoc, Doc, Kind, Version
<1>4. tx' \in [Client -> Tx] /\ tx'[t].op = "none" /\ \A u \in Client \ {t} : tx'[u] = tx[u]
  BY <1>0, <1>1, <1>3 DEF TypeOK, NoTx
<1>5. \A c \in ChunkId :
        /\ chunk[c] \in Chunk /\ chunk'[c] \in Chunk
        /\ chunk'[c].key = chunk[c].key /\ chunk'[c].ver = chunk[c].ver /\ chunk'[c].vec = chunk[c].vec
        /\ chunk'[c].live => chunk[c].live /\ c \notin b.chunks
  <2>1. ASSUME NEW c \in ChunkId
        PROVE  chunk[c] \in Chunk /\ chunk'[c] = IF c \in b.chunks THEN [chunk[c] EXCEPT !.live = FALSE] ELSE chunk[c]
    BY <1>0, <1>1 DEF TypeOK
  <2> HIDE DEF b
  <2> QED
    BY <2>1, ZenonT(60), SMTT(20) DEF Chunk
<1>6. dead' \in [key: SUBSET Key, chunk: SUBSET ChunkId] /\ dead'.chunk \subseteq dead.chunk
  BY <1>0, <1>1 DEF TypeOK
<1>7. TypeOK'
  <2>1. doc' \in [Key -> Doc]
    BY <1>0, <1>1, <1>3 DEF TypeOK
  <2>2. chunk' \in [ChunkId -> Chunk]
    BY <1>1, <1>5
  <2>3. job' \in [ChunkId -> JobState] /\ refresh' \in SUBSET Key
    BY <1>0, <1>1, <1>2 DEF TypeOK, JobState
  <2>4. \A c \in ChunkId : job'[c] = "held" => wk'.out[c] # "none"
    BY <1>0, <1>1 DEF TypeOK
  <2> QED
    BY <1>0, <1>1, <1>4, <1>6, <2>1, <2>2, <2>3, <2>4 DEF TypeOK
<1>8. WorkInv'
  <2>1. \A c \in ChunkId : job'[c] = "held" => job[c] = "held"
    BY <1>1
  <2> QED
    BY <1>0, <1>1, <1>5, <2>1, WorkKept
<1>9. UsedInv'
  <2>1. \A c \in ChunkId : job'[c] # "none" => job[c] # "none"
    BY <1>1
  <2>2. \A r \in Key : doc'[r].kind = "text" => doc'[r].ver # 0
    BY <1>0, <1>1, <1>2 DEF UsedInv, NoDoc, TxOK
  <2> QED
    BY <1>0, <1>1, <1>5, <1>6, <2>1, <2>2 DEF UsedInv
<1>10. ChunksCurrent'
  <2> SUFFICES ASSUME NEW c \in ChunkId, chunk'[c].live
               PROVE  /\ doc'[chunk'[c].key].kind = "text" /\ chunk'[c].ver = doc'[chunk'[c].key].ver
                      /\ chunk'[c].vec \in {0, doc'[chunk'[c].key].ver}
    BY DEF ChunksCurrent
  <2>1. chunk[c].live /\ c \notin b.chunks /\ chunk[c].key \in Key
    BY <1>0, <1>5 DEF UsedInv
  <2>2. doc[chunk[c].key].kind = "text" /\ chunk[c].ver = doc[chunk[c].key].ver
        /\ chunk[c].vec \in {0, doc[chunk[c].key].ver}
    BY <1>0, <2>1 DEF ChunksCurrent
  <2>3. chunk[c].key # b.key
    BY <1>1, <1>2, <2>1, <2>2 DEF TxOK, ChunksOf
  <2>4. chunk[c].key # b.to
    BY <1>1, <1>2, <2>2, <2>3 DEF TxOK
  <2> QED
    BY <1>1, <1>5, <2>1, <2>2, <2>3, <2>4
<1>11. \A q : ChunksOf(q)' \subseteq ChunksOf(q)
  BY <1>5 DEF ChunksOf
<1>12. ASSUME NEW u \in Client PROVE TxOK(u)'
  <2>1. CASE u = t
    BY <1>4, <2>1 DEF TxOK
  <2>2. CASE u # t /\ tx[u].op # "none"
    <3>1. tx'[u] = tx[u] /\ TxOK(u) /\ Apart(t, u)
      BY <1>0, <1>4, <2>2 DEF TxInv
    <3>2. tx[u].key \in Key /\ tx[u].to \in Key /\ tx[u].key \notin {b.key, b.to}
          /\ tx[u].to \notin {b.key, b.to}
      BY <1>1, <2>2, <3>1, ZenonT(60), SMTT(20) DEF TxOK, Apart
    <3>3. doc'[tx[u].key] = doc[tx[u].key] /\ doc'[tx[u].to] = doc[tx[u].to]
      BY <1>1, <3>2
    <3>4. tx[u].key \in refresh => tx[u].key \in refresh'
      BY <1>1, <3>2
    <3>5. \A c \in tx[u].seen \union tx[u].dseen \union tx[u].jobs \union tx[u].chunks :
             c <= used' /\ chunk'[c].key = tx[u].key
      <4>1. \A c \in tx[u].seen \union tx[u].dseen \union tx[u].jobs \union tx[u].chunks : c \in ChunkId
        BY <1>0, Types
      <4> QED
        BY <1>1, <1>5, <2>2, <3>1, <4>1 DEF TxOK
    <3>6. ~(tx[u].op # "ins" /\ "chunks" \notin tx[u].todo) \/ ChunksOf(tx[u].key)' \subseteq tx[u].chunks
      BY <1>11, <2>2, <3>1 DEF TxOK
    <3> QED
      BY <2>2, <3>1, <3>2, <3>3, <3>4, <3>5, <3>6 DEF TxOK
  <2>3. CASE u # t /\ tx[u].op = "none"
    BY <1>4, <2>3 DEF TxOK
  <2> QED
    BY <2>1, <2>2, <2>3
<1>13. ASSUME NEW s \in Client, NEW u \in Client, s # u PROVE Apart(s, u)'
  BY <1>0, <1>4, <1>13 DEF Apart, TxInv
<1> QED
  BY <1>7, <1>8, <1>9, <1>10, <1>12, <1>13 DEF IInv, TxInv

-----------------------------------------------------------------------------
(***************************************************************************)
(* Management calls.                                                       *)
(***************************************************************************)

\* A call that removes every chunk and job, with no transaction open.
LEMMA ClearedInv ==
    ASSUME IInv, NoOpenTx, clock' \in Version, doc' \in [Key -> Doc],
           \A r \in Key : doc'[r].kind = "text" => doc'[r].ver # 0,
           chunk' = AllChunksGone, job' = [c \in ChunkId |-> "none"],
           refresh' \in SUBSET Key, dead' = EmptyDead, UNCHANGED <<used, tx, wk>>
    PROVE  IInv'
<1>0. TypeOK /\ WorkInv /\ UsedInv /\ TxInv /\ ChunksCurrent
  BY DEF IInv
<1>1. \A c \in ChunkId : chunk'[c] \in Chunk /\ ~chunk'[c].live /\ job'[c] = "none"
  BY <1>0, ZenonT(60), SMTT(20) DEF TypeOK, AllChunksGone, Chunk
<1>2. chunk' \in [ChunkId -> Chunk]
  BY <1>1 DEF AllChunksGone
<1>3. dead' \in [key: SUBSET Key, chunk: SUBSET ChunkId] /\ dead'.chunk = {}
  BY DEF EmptyDead
<1>4. TypeOK'
  BY <1>0, <1>1, <1>2, <1>3 DEF TypeOK, JobState
<1>5. WorkInv'
  BY <1>0, <1>1, WorkKept
<1>6. UsedInv' /\ ChunksCurrent'
  BY <1>1, <1>3 DEF UsedInv, ChunksCurrent
<1>7. TxInv'
  <2>1. \A u \in Client : tx'[u].op = "none"
    BY DEF NoOpenTx, NoTx
  <2> QED
    BY <2>1 DEF TxInv, TxOK, Apart
<1> QED
  BY <1>4, <1>5, <1>6, <1>7 DEF IInv

LEMMA TruncateInv == IInv /\ Truncate => IInv'
<1> SUFFICES ASSUME IInv, Truncate PROVE IInv'
  OBVIOUS
<1>1. TypeOK /\ NoDoc \in Doc
  BY ChunkAssumption DEF IInv, NoDoc, Doc, Kind, Version
<1>2. clock' \in Version
  BY <1>1, Types DEF Truncate, Version
<1>3. doc' \in [Key -> Doc] /\ \A r \in Key : doc'[r].kind = "text" => doc'[r].ver # 0
  BY <1>1 DEF Truncate, NoDoc
<1> QED
  BY <1>2, <1>3, ClearedInv DEF Truncate, TableFree

LEMMA SetFormatInv == IInv /\ SetFormat => IInv'
<1> SUFFICES ASSUME IInv, SetFormat PROVE IInv'
  OBVIOUS
<1>1. TypeOK /\ UsedInv
  BY DEF IInv
<1>2. clock' \in Version /\ clock + 1 \in Version /\ clock + 1 # 0
  BY <1>1, Types DEF SetFormat, Version
<1>3. ASSUME NEW r \in Key
      PROVE  doc'[r] \in Doc /\ (doc'[r].kind = "text" => doc'[r].ver # 0)
  <2>1. doc[r] \in Doc
    BY <1>1 DEF TypeOK
  <2>2. doc'[r] = IF doc[r].kind \in NotNull THEN [doc[r] EXCEPT !.ver = clock + 1] ELSE doc[r]
    BY DEF SetFormat
  <2> QED
    BY <1>1, <1>2, <2>1, <2>2 DEF Doc, UsedInv
<1>4. doc' \in [Key -> Doc] /\ refresh' \in SUBSET Key
  BY <1>3 DEF SetFormat
<1> QED
  BY <1>2, <1>3, <1>4, ClearedInv, ZenonT(60), SMTT(20) DEF SetFormat, TableFree

LEMMA RetryDeadInv ==
    ASSUME IInv, NEW R \in SUBSET Key, NEW C \in SUBSET ChunkId, RetryDead(R, C)
    PROVE  IInv'
<1>0. TypeOK /\ WorkInv /\ UsedInv /\ TxInv /\ ChunksCurrent
  BY DEF IInv
<1>1. /\ C \subseteq dead.chunk
      /\ dead' = [key |-> dead.key \ R, chunk |-> dead.chunk \ C] /\ refresh' = refresh \union R
      /\ job' = [c \in ChunkId |->
                   IF c \in C /\ chunk[c].live /\ job[c] = "none" THEN "pend" ELSE job[c]]
      /\ UNCHANGED <<doc, clock, chunk, used, tx, wk>>
  BY DEF RetryDead
<1>2. dead' \in [key: SUBSET Key, chunk: SUBSET ChunkId] /\ dead'.chunk \subseteq dead.chunk
  BY <1>0, <1>1 DEF TypeOK
<1>3. job' \in [ChunkId -> JobState]
  BY <1>0, <1>1 DEF TypeOK, JobState
<1>4. \A c \in ChunkId : (job'[c] = "held" => job[c] = "held")
                         /\ (job'[c] # "none" => job[c] # "none" \/ c \in dead.chunk)
  BY <1>1
<1>5. TypeOK'
  BY <1>0, <1>1, <1>2, <1>3, <1>4, ZenonT(60), SMTT(20) DEF TypeOK
<1>6. WorkInv'
  BY <1>0, <1>1, <1>4, WorkKept
<1>7. UsedInv' /\ ChunksCurrent'
  BY <1>0, <1>1, <1>2, <1>4 DEF UsedInv, ChunksCurrent
<1>8. TxInv'
  <2>1. used' \in Nat /\ used <= used'
    BY <1>0, <1>1, Types
  <2>2. \A u \in Client : SameTx(u)
    BY <1>1 DEF SameTx
  <2>3. \A q : ChunksOf(q)' = ChunksOf(q)
    BY <1>1 DEF ChunksOf
  <2> QED
    BY <1>0, <1>1, <2>1, <2>2, <2>3, TxKept
<1> QED
  BY <1>5, <1>6, <1>7, <1>8 DEF IInv

-----------------------------------------------------------------------------
(***************************************************************************)
(* The refresh phase.                                                      *)
(***************************************************************************)

\* Nothing is in hand when the worker is idle.
LEMMA IdleWork ==
    ASSUME wk' = Idle
    PROVE  WorkInv' /\ wk' \in Worker
<1>1. Items' = {}
  BY DEF Items, Idle
<1>2. Idle \in Worker
  BY ChunkAssumption DEF Idle, Worker, Out, Version
<1>3. WorkInv'
  BY <1>1 DEF WorkInv, Idle
<1> QED
  BY <1>2, <1>3

LEMMA RefreshClaimInv ==
    ASSUME IInv, NEW r \in Key, RefreshClaim(r)
    PROVE  IInv'
<1>0. TypeOK /\ WorkInv /\ UsedInv /\ TxInv /\ ChunksCurrent
  BY DEF IInv
<1>1. /\ wk' = [Idle EXCEPT !.phase = "row", !.key = r] /\ wk.phase = "idle"
      /\ UNCHANGED <<doc, clock, chunk, used, refresh, job, dead, tx>>
  BY DEF RefreshClaim
<1>2. Idle \in Worker
  BY ChunkAssumption DEF Idle, Worker, Out, Version
<1>3. wk' \in Worker /\ wk'.phase = "row" /\ wk'.key = r /\ wk'.out = [c \in ChunkId |-> "none"]
      /\ wk'.w = {} /\ wk'.gone = {}
  BY <1>1, <1>2, ZenonT(60), SMTT(20) DEF Worker, Idle
<1>4. Items' = {}
  BY <1>3 DEF Items
<1>5. WorkInv'
  BY <1>3, <1>4 DEF WorkInv
<1>6. \A c \in ChunkId : job[c] # "held"
  BY <1>0, <1>1 DEF TypeOK, WorkInv, Items
<1>7. TypeOK'
  BY <1>0, <1>1, <1>3, <1>6 DEF TypeOK
<1>8. UsedInv' /\ ChunksCurrent' /\ TxInv'
  <2>1. UsedInv' /\ ChunksCurrent'
    BY <1>0, <1>1 DEF UsedInv, ChunksCurrent
  <2>2. TxInv'
    BY <1>0, <1>1, TxSame
  <2> QED
    BY <2>1, <2>2
<1> QED
  BY <1>5, <1>7, <1>8 DEF IInv

\* A worker that goes idle, its claims gone or lost, leaves the rest alone.
LEMMA QuietInv ==
    ASSUME IInv, wk' = Idle, job' \in [ChunkId -> JobState],
           \A c \in ChunkId : job'[c] # "held" /\ (job'[c] # "none" => job[c] # "none"),
           dead' \in [key: SUBSET Key, chunk: SUBSET ChunkId], dead'.chunk = dead.chunk,
           refresh' \in SUBSET Key, UNCHANGED <<doc, clock, chunk, used, tx>>,
           \A u \in Client : tx[u].op = "upd" /\ tx[u].key \in refresh => tx[u].key \in refresh'
    PROVE  IInv'
<1>0. TypeOK /\ WorkInv /\ UsedInv /\ TxInv /\ ChunksCurrent
  BY DEF IInv
<1>1. WorkInv' /\ wk' \in Worker
  BY IdleWork
<1>2. TypeOK'
  BY <1>0, <1>1 DEF TypeOK
<1>3. UsedInv' /\ ChunksCurrent'
  BY <1>0 DEF UsedInv, ChunksCurrent
<1>4. TxInv'
  <2>1. used' \in Nat /\ used <= used'
    BY <1>0, Types
  <2>2. \A u \in Client : SameTx(u)
    BY DEF SameTx
  <2>3. \A q : ChunksOf(q)' = ChunksOf(q)
    BY DEF ChunksOf
  <2> QED
    BY <1>0, <2>1, <2>2, <2>3, TxKept
<1> QED
  BY <1>1, <1>2, <1>3, <1>4 DEF IInv

\* No claim is in hand while a refresh is.
LEMMA NothingHeld ==
    ASSUME IInv, wk.phase \in {"idle", "row"}
    PROVE  \A c \in ChunkId : job[c] # "held"
BY DEF IInv, TypeOK, WorkInv, Items

LEMMA RefreshDeadInv == IInv /\ RefreshDead => IInv'
<1> SUFFICES ASSUME IInv, RefreshDead PROVE IInv'
  OBVIOUS
<1>1. TypeOK /\ wk.key \in Key /\ wk.phase = "row"
  BY DEF IInv, WorkInv, RefreshDead
<1>2. \A c \in ChunkId : job'[c] # "held" /\ (job'[c] # "none" => job[c] # "none")
  BY <1>1, NothingHeld DEF RefreshDead
<1>3. dead' \in [key: SUBSET Key, chunk: SUBSET ChunkId] /\ dead'.chunk = dead.chunk
  BY <1>1 DEF TypeOK, RefreshDead
<1>4. \A u \in Client : tx[u].op = "upd" /\ tx[u].key \in refresh => tx[u].key \in refresh'
  BY DEF RefreshDead, RowFree, Holds
<1> QED
  BY <1>1, <1>2, <1>3, <1>4, QuietInv DEF RefreshDead, TypeOK

LEMMA RefreshAbortsInv == IInv /\ RefreshAborts => IInv'
<1> SUFFICES ASSUME IInv, RefreshAborts PROVE IInv'
  OBVIOUS
<1>1. TypeOK /\ \A c \in ChunkId : job'[c] # "held" /\ (job'[c] # "none" => job[c] # "none")
  BY NothingHeld DEF IInv, RefreshAborts
<1> QED
  BY <1>1, QuietInv DEF RefreshAborts, TypeOK

LEMMA CrashInv == IInv /\ Crash => IInv'
<1> SUFFICES ASSUME IInv, Crash PROVE IInv'
  OBVIOUS
<1>1. TypeOK /\ job' = [c \in ChunkId |-> IF job[c] = "held" THEN "lost" ELSE job[c]]
  BY DEF IInv, Crash
<1>2. job' \in [ChunkId -> JobState]
  BY <1>1 DEF TypeOK, JobState
<1>3. \A c \in ChunkId : job'[c] # "held" /\ (job'[c] # "none" => job[c] # "none")
  BY <1>1
<1> QED
  BY <1>1, <1>2, <1>3, QuietInv DEF Crash, TypeOK

\* The identities a refresh gives out.
NewIds(n) == IF doc[wk.key].kind = "text" THEN used + 1 .. used + n ELSE {}

\* They are new.
LEMMA RefreshIds ==
    ASSUME TypeOK, NEW n \in 1 .. MaxSplit, RefreshDo(n)
    PROVE  /\ used' \in Nat /\ used <= used' /\ used' <= MaxChunk
           /\ NewIds(n) \subseteq ChunkId
           /\ \A c \in NewIds(n) : used < c /\ c <= used'
           /\ doc[wk.key].kind = "text" => used + 1 \in NewIds(n)
<1>1. n \in Nat /\ n >= 1 /\ used \in Nat /\ MaxChunk \in Nat /\ used <= MaxChunk
  BY Types, ChunkAssumption
<1>2. used + n <= MaxChunk /\ used' = IF doc[wk.key].kind = "text" THEN used + n ELSE used
  BY DEF RefreshDo
<1>3. CASE doc[wk.key].kind = "text"
  BY <1>1, <1>2, <1>3 DEF NewIds, ChunkId
<1>4. CASE doc[wk.key].kind # "text"
  BY <1>1, <1>2, <1>4 DEF NewIds
<1> QED
  BY <1>3, <1>4

\* What a refresh does to each chunk.
LEMMA RefreshChunks ==
    ASSUME IInv, NEW n \in 1 .. MaxSplit, RefreshDo(n), NEW c \in ChunkId
    PROVE  /\ c \in NewIds(n) =>
                chunk'[c] = [live |-> TRUE, key |-> wk.key, ver |-> doc[wk.key].ver, vec |-> 0]
                /\ job'[c] = "pend"
           /\ c \notin NewIds(n) =>
                /\ chunk'[c] \in Chunk
                /\ chunk'[c].key = chunk[c].key /\ chunk'[c].ver = chunk[c].ver
                /\ chunk'[c].vec = chunk[c].vec
                /\ chunk'[c].live => chunk[c].live /\ chunk[c].key # wk.key
                /\ chunk[c].live /\ chunk[c].key # wk.key => chunk'[c].live
                /\ job'[c] # "none" => job'[c] = job[c] /\ chunk[c].key # wk.key
                /\ chunk[c].key # wk.key => job'[c] = job[c]
<1>1. chunk[c] \in Chunk
  BY DEF IInv, TypeOK
<1>2. chunk'[c] = IF c \in NewIds(n)
                  THEN [live |-> TRUE, key |-> wk.key, ver |-> doc[wk.key].ver, vec |-> 0]
                  ELSE IF c \in ChunksOf(wk.key) THEN [chunk[c] EXCEPT !.live = FALSE] ELSE chunk[c]
  BY DEF RefreshDo, NewIds
<1>3. job'[c] = IF c \in NewIds(n) THEN "pend" ELSE IF c \in JobsOf(wk.key) THEN "none" ELSE job[c]
  BY DEF RefreshDo, NewIds
<1>4. c \in ChunksOf(wk.key) <=> chunk[c].live /\ chunk[c].key = wk.key
  BY DEF ChunksOf
<1>5. c \in JobsOf(wk.key) <=> job[c] # "none" /\ chunk[c].key = wk.key
  BY DEF JobsOf
<1>6. c \in NewIds(n) => chunk'[c] = [live |-> TRUE, key |-> wk.key, ver |-> doc[wk.key].ver, vec |-> 0]
  BY <1>2
<1>7. c \notin NewIds(n) /\ c \in ChunksOf(wk.key) =>
        /\ chunk'[c] \in Chunk /\ ~chunk'[c].live /\ chunk'[c].key = chunk[c].key
        /\ chunk'[c].ver = chunk[c].ver /\ chunk'[c].vec = chunk[c].vec
  BY <1>1, <1>2, ZenonT(60), SMTT(20) DEF Chunk
<1>8. c \notin NewIds(n) /\ c \notin ChunksOf(wk.key) => chunk'[c] = chunk[c]
  BY <1>2
<1> QED
  BY <1>1, <1>3, <1>4, <1>5, <1>6, <1>7, <1>8

\* The new chunks are of the version the row lock holds still.
LEMMA RefreshDoInv ==
    ASSUME IInv, NEW n \in 1 .. MaxSplit, RefreshDo(n)
    PROVE  IInv'
<1>0. TypeOK /\ WorkInv /\ UsedInv /\ TxInv /\ ChunksCurrent
  BY DEF IInv
<1>1. /\ wk.phase = "row" /\ RowFree(wk.key) /\ wk' = Idle
      /\ dead' = [key |-> dead.key \ {wk.key}, chunk |-> {c \in dead.chunk : chunk[c].key # wk.key}]
      /\ refresh' = refresh \ {wk.key} /\ UNCHANGED <<doc, clock, tx>>
      /\ chunk' = [c \in ChunkId |-> chunk'[c]] /\ job' = [c \in ChunkId |-> job'[c]]
  BY DEF RefreshDo
<1>2. wk.key \in Key /\ doc[wk.key] \in Doc
  BY <1>0, <1>1 DEF WorkInv, TypeOK
<1>3. /\ used' \in Nat /\ used <= used' /\ used' <= MaxChunk /\ used \in Nat /\ MaxChunk \in Nat
      /\ NewIds(n) \subseteq ChunkId /\ ChunkId \subseteq Nat
      /\ \A c \in NewIds(n) : used < c /\ c <= used'
  BY <1>0, RefreshIds, Types, ZenonT(60), SMTT(20)
<1>4. \A c \in NewIds(n) :
        /\ chunk'[c] = [live |-> TRUE, key |-> wk.key, ver |-> doc[wk.key].ver, vec |-> 0]
        /\ job'[c] = "pend" /\ doc[wk.key].kind = "text"
  <2>1. ASSUME NEW c \in NewIds(n)
        PROVE  /\ chunk'[c] = [live |-> TRUE, key |-> wk.key, ver |-> doc[wk.key].ver, vec |-> 0]
               /\ job'[c] = "pend"
    BY <1>3, RefreshChunks, ZenonT(60), SMTT(20)
  <2>2. ASSUME NEW c \in NewIds(n) PROVE doc[wk.key].kind = "text"
    BY DEF NewIds
  <2> QED
    BY <2>1, <2>2, ZenonT(60), SMTT(20)
<1>5. \A c \in ChunkId \ NewIds(n) :
        /\ chunk'[c] \in Chunk
        /\ chunk'[c].key = chunk[c].key /\ chunk'[c].ver = chunk[c].ver /\ chunk'[c].vec = chunk[c].vec
        /\ chunk'[c].live => chunk[c].live /\ chunk[c].key # wk.key
        /\ job'[c] # "none" => job'[c] = job[c]
  BY RefreshChunks
<1>6. WorkInv' /\ wk' \in Worker
  BY <1>1, IdleWork
<1>7. \A c \in ChunkId : job[c] # "held"
  BY <1>1, NothingHeld
<1>8. \A c \in ChunkId : chunk'[c] \in Chunk /\ job'[c] \in JobState /\ job'[c] # "held"
  <2>1. ASSUME NEW c \in NewIds(n) PROVE chunk'[c] \in Chunk /\ job'[c] = "pend"
    <3>1. doc[wk.key].ver \in Version /\ 0 \in Version
      BY <1>2, ChunkAssumption DEF Doc, Version
    <3>2. chunk'[c] = [live |-> TRUE, key |-> wk.key, ver |-> doc[wk.key].ver, vec |-> 0]
          /\ job'[c] = "pend"
      BY <1>4, ZenonT(60), SMTT(20)
    <3>3. [live |-> TRUE, key |-> wk.key, ver |-> doc[wk.key].ver, vec |-> 0] \in Chunk
      BY <1>2, <3>1 DEF Chunk
    <3> QED
      BY <3>2, <3>3, ZenonT(60), SMTT(20)
  <2>2. \A c \in ChunkId : job[c] \in JobState
    BY <1>0 DEF TypeOK
  <2> QED
    BY <1>5, <1>7, <2>1, <2>2 DEF JobState
<1>9. dead' \in [key: SUBSET Key, chunk: SUBSET ChunkId] /\ dead'.chunk \subseteq dead.chunk
  BY <1>0, <1>1 DEF TypeOK
<1>10. TypeOK'
  <2>1. chunk' \in [ChunkId -> Chunk] /\ job' \in [ChunkId -> JobState]
    BY <1>1, <1>8
  <2>2. used' \in 0 .. MaxChunk
    BY <1>3
  <2> QED
    BY <1>0, <1>1, <1>6, <1>8, <1>9, <2>1, <2>2, ZenonT(60), SMTT(20) DEF TypeOK
<1>11. UsedInv'
  <2>1. ASSUME NEW c \in ChunkId PROVE chunk'[c].live \/ job'[c] # "none" \/ c \in dead'.chunk => c <= used'
    <3>1. CASE c \in NewIds(n)
      BY <1>3, <3>1
    <3>2. CASE c \notin NewIds(n)
      BY <1>0, <1>3, <1>5, <1>9, <3>2 DEF UsedInv
    <3> QED
      BY <3>1, <3>2
  <2>2. \A c \in ChunkId : chunk'[c].live => chunk'[c].key \in Key
    BY <1>0, <1>2, <1>4, <1>5 DEF UsedInv
  <2> QED
    BY <1>0, <1>1, <2>1, <2>2 DEF UsedInv
<1>12. ChunksCurrent'
  <2> SUFFICES ASSUME NEW c \in ChunkId, chunk'[c].live
               PROVE  /\ doc'[chunk'[c].key].kind = "text" /\ chunk'[c].ver = doc'[chunk'[c].key].ver
                      /\ chunk'[c].vec \in {0, doc'[chunk'[c].key].ver}
    BY DEF ChunksCurrent
  <2>1. CASE c \in NewIds(n)
    BY <1>1, <1>4, <2>1
  <2>2. CASE c \notin NewIds(n)
    BY <1>0, <1>1, <1>5, <2>2 DEF ChunksCurrent
  <2> QED
    BY <2>1, <2>2
<1>13. TxInv'
  <2>1. \A u \in Client : SameTx(u)
    BY <1>1 DEF SameTx
  <2>2. \A c \in ChunkId : c <= used => chunk'[c].key = chunk[c].key
    <3>1. ASSUME NEW c \in ChunkId, c <= used PROVE c \notin NewIds(n)
      BY <1>3, <3>1
    <3> QED
      BY <1>5, <3>1
  <2>3. \A u \in Client : tx[u].op \notin {"none", "ins"} => tx[u].key # wk.key
    <3>1. \A u \in Client : tx[u].op \in {"none", "ins", "upd", "del", "key"}
      BY <1>0 DEF TypeOK, Tx
    <3> QED
      BY <1>1, <3>1 DEF RowFree, Holds
  <2>4. \A u \in Client : tx[u].op \notin {"none", "ins"} =>
            ChunksOf(tx[u].key)' \subseteq ChunksOf(tx[u].key)
    <3>1. ASSUME NEW q, q # wk.key PROVE ChunksOf(q)' \subseteq ChunksOf(q)
      BY <1>4, <1>5, <3>1 DEF ChunksOf
    <3> QED
      BY <1>1, <2>3, <3>1
  <2>5. \A u \in Client : tx[u].op = "upd" /\ tx[u].key \in refresh => tx[u].key \in refresh'
    BY <1>1, <2>3
  <2> QED
    BY <1>0, <1>1, <1>3, <2>1, <2>2, <2>4, <2>5, TxKept
<1> QED
  BY <1>6, <1>10, <1>11, <1>12, <1>13 DEF IInv

-----------------------------------------------------------------------------
(***************************************************************************)
(* Embed batches.                                                          *)
(***************************************************************************)

\* A claim renders each text from the version its chunk is of.
LEMMA ClaimInv ==
    ASSUME IInv, NEW S \in SUBSET Lost, NEW X \in SUBSET S,
           NEW C \in SUBSET (Pending \union (S \ X)), NEW g \in [C -> Reads], Claim(S, X, g)
    PROVE  IInv'
<1> DEFINE On(y) == {c \in C : chunk[c].live /\ g[c] = y}
<1>0. TypeOK /\ WorkInv /\ UsedInv /\ TxInv /\ ChunksCurrent
  BY DEF IInv
<1>1. /\ wk.phase = "idle"
      /\ job' = [c \in ChunkId |->
                   IF c \in On("text") THEN "held"
                   ELSE IF c \in On("defer") THEN "pend"
                   ELSE IF c \in C \union X THEN "none"
                   ELSE IF c \in S THEN "pend" ELSE job[c]]
      /\ wk' = IF On("text") = {} THEN Idle
               ELSE [Idle EXCEPT !.phase = "embed",
                       !.out = [c \in ChunkId |-> IF c \in On("text") THEN "text" ELSE "none"],
                       !.ver = [c \in ChunkId |->
                                  IF c \in On("text") THEN doc[chunk[c].key].ver ELSE 0]]
      /\ dead' = [dead EXCEPT !.chunk = @ \union X \union On("dead")]
      /\ tx' = Unseen(S \union On("defer"))
      /\ UNCHANGED <<doc, clock, chunk, used, refresh>>
  BY DEF Claim
<1>2. /\ C \subseteq ChunkId /\ S \subseteq ChunkId /\ \A y : On(y) \subseteq C
      /\ \A c \in C \union S : job[c] # "none" /\ c <= used
  BY <1>0 DEF Lost, Pending, UsedInv
<1> HIDE DEF On
<1>3. tx' \in [Client -> Tx] /\ \A u \in Client : SameTx(u)
  BY <1>0, <1>1, UnseenSame, ZenonT(60), SMTT(20)
<1>4. dead' \in [key: SUBSET Key, chunk: SUBSET ChunkId]
      /\ dead'.chunk = dead.chunk \union X \union On("dead")
  BY <1>0, <1>1, <1>2 DEF TypeOK
<1>5. \A c \in ChunkId : job[c] # "held"
  BY <1>1, NothingHeld
<1>6. job' \in [ChunkId -> JobState]
  BY <1>0, <1>1 DEF TypeOK, JobState
<1>7. \A c \in ChunkId : (job'[c] # "none" => job[c] # "none")
                         /\ (job'[c] = "held" => c \in On("text"))
  BY <1>1, <1>2, <1>5
<1>8. WorkInv' /\ wk' \in Worker /\ \A c \in ChunkId : job'[c] = "held" => wk'.out[c] # "none"
  <2>1. CASE On("text") = {}
    <3>1. wk' = Idle /\ \A c \in ChunkId : job'[c] # "held"
      BY <1>1, <1>7, <2>1
    <3> QED
      BY <3>1, IdleWork, ZenonT(60), SMTT(20)
  <2>2. CASE On("text") # {}
    <3> DEFINE o == [c \in ChunkId |-> IF c \in On("text") THEN "text" ELSE "none"]
               v == [c \in ChunkId |-> IF c \in On("text") THEN doc[chunk[c].key].ver ELSE 0]
    <3>1. wk' = [Idle EXCEPT !.phase = "embed", !.out = o, !.ver = v]
      BY <1>1, <2>2
    <3>2. \A c \in On("text") : c \in ChunkId /\ chunk[c].live /\ chunk[c].key \in Key
      BY <1>0, <1>2 DEF On, UsedInv
    <3>3. o \in [ChunkId -> Out] /\ v \in [ChunkId -> Version]
      BY <1>0, <3>2, ChunkAssumption DEF Out, TypeOK, Doc, Version
    <3> HIDE DEF o, v
    <3>4. Idle \in Worker
      BY ChunkAssumption DEF Idle, Worker, Out, Version
    <3>5. wk' \in Worker /\ wk'.phase = "embed" /\ wk'.out = o /\ wk'.ver = v /\ wk'.w = {} /\ wk'.gone = {}
      BY <3>1, <3>3, <3>4, ZenonT(60), SMTT(20) DEF Worker, Idle
    <3>6. Items' = On("text") /\ \A c \in ChunkId : c \in On("text") => wk'.out[c] # "none"
      BY <1>2, <3>5 DEF Items, o
    <3>7. \A c \in On("text") : c <= used' /\ wk'.ver[c] = chunk'[c].ver
      BY <1>0, <1>1, <1>2, <3>2, <3>5 DEF v, ChunksCurrent
    <3> QED
      BY <1>7, <3>5, <3>6, <3>7 DEF WorkInv
  <2> QED
    BY <2>1, <2>2
<1>9. TypeOK'
  BY <1>0, <1>1, <1>3, <1>4, <1>6, <1>8, ZenonT(60), SMTT(20) DEF TypeOK
<1>10. UsedInv' /\ ChunksCurrent'
  BY <1>0, <1>1, <1>2, <1>4, <1>7 DEF UsedInv, ChunksCurrent
<1>11. TxInv'
  <2>1. used' \in Nat /\ used <= used'
    BY <1>0, <1>1, Types
  <2>2. \A u \in Client : ChunksOf(tx[u].key)' \subseteq ChunksOf(tx[u].key)
    BY <1>1, <1>3, ZenonT(60), SMTT(20) DEF ChunksOf, SameTx
  <2> QED
    BY <1>0, <1>1, <1>3, <2>1, <2>2, TxKept, ZenonT(60), SMTT(20)
<1> QED
  BY <1>8, <1>9, <1>10, <1>11 DEF IInv

LEMMA EmbedInv == IInv /\ Embed => IInv'
<1> SUFFICES ASSUME IInv, Embed PROVE IInv'
  OBVIOUS
<1>0. TypeOK /\ WorkInv /\ UsedInv /\ TxInv /\ ChunksCurrent
  BY DEF IInv
<1>1. UNCHANGED <<doc, clock, chunk, used, refresh, job, dead, tx>> /\ wk.phase = "embed"
  BY DEF Embed
<1>2. PICK f \in [Items -> {"ok", "dead"} \union (IF Faulty THEN {"retry"} ELSE {})] :
         wk' = [wk EXCEPT !.phase = "apply",
                  !.out = [c \in ChunkId |-> IF c \in Items THEN f[c] ELSE "none"]]
  BY ZenonT(60), SMTT(20) DEF Embed
<1> DEFINE o == [c \in ChunkId |-> IF c \in Items THEN f[c] ELSE "none"]
<1>3. \A c \in Items : f[c] \in {"ok", "dead", "retry"} /\ c \in ChunkId
  BY DEF Items
<1>4. o \in [ChunkId -> Out]
  BY <1>3 DEF Out
<1>5. wk \in Worker
  BY <1>0 DEF TypeOK
<1> HIDE DEF o
<1>6. wk' = [wk EXCEPT !.phase = "apply", !.out = o]
  BY <1>2 DEF o
<1>7. wk' \in Worker /\ wk'.phase = "apply" /\ wk'.out = o /\ wk'.ver = wk.ver
      /\ wk'.w = wk.w /\ wk'.gone = wk.gone
  BY <1>4, <1>5, <1>6, ZenonT(60), SMTT(20) DEF Worker
<1>8. Items' = Items /\ \A c \in Items : wk'.out[c] \notin {"none", "text"}
  BY <1>3, <1>7 DEF Items, o
<1>9. WorkInv'
  BY <1>0, <1>1, <1>7, <1>8 DEF WorkInv
<1>10. \A c \in ChunkId : job'[c] = "held" => wk'.out[c] # "none"
  BY <1>0, <1>1, <1>8 DEF TypeOK, Items
<1>11. TypeOK'
  BY <1>0, <1>1, <1>7, <1>10, ZenonT(60), SMTT(20) DEF TypeOK
<1>12. UsedInv' /\ ChunksCurrent' /\ TxInv'
  <2>1. UsedInv' /\ ChunksCurrent'
    BY <1>0, <1>1 DEF UsedInv, ChunksCurrent
  <2>2. TxInv'
    BY <1>0, <1>1, TxSame
  <2> QED
    BY <2>1, <2>2
<1> QED
  BY <1>9, <1>11, <1>12 DEF IInv

LEMMA WriteStartInv ==
    ASSUME IInv, NEW W \in SUBSET Items, NEW Y \in SUBSET W, WriteStart(W, Y)
    PROVE  IInv'
<1> DEFINE gn == {c \in W : job[c] = "held" /\ (wk.out[c] = "dead" \/ c \in Y)}
<1>0. TypeOK /\ WorkInv /\ UsedInv /\ TxInv /\ ChunksCurrent
  BY DEF IInv
<1>1. /\ UNCHANGED <<doc, clock, chunk, used, refresh, job, dead, tx>> /\ wk.phase = "apply"
      /\ wk' = [wk EXCEPT !.phase = "write", !.w = W, !.gone = gn]
  BY DEF WriteStart
<1>2. gn \subseteq Items /\ Items \subseteq ChunkId /\ wk \in Worker
  BY <1>0, ZenonT(60), SMTT(20) DEF Items, TypeOK
<1>3. \A c \in W : wk.out[c] = "dead" /\ job[c] = "held" => c \in gn
  BY ZenonT(60), SMTT(20)
<1> HIDE DEF gn
<1>4. wk' \in Worker /\ wk'.phase = "write" /\ wk'.out = wk.out /\ wk'.ver = wk.ver
      /\ wk'.w = W /\ wk'.gone = gn
  BY <1>1, <1>2, ZenonT(60), SMTT(20) DEF Worker
<1>5. Items' = Items
  BY <1>4 DEF Items
<1>6. WorkInv'
  BY <1>0, <1>1, <1>2, <1>3, <1>4, <1>5 DEF WorkInv
<1>7. TypeOK'
  BY <1>0, <1>1, <1>4 DEF TypeOK
<1>8. UsedInv' /\ ChunksCurrent' /\ TxInv'
  <2>1. UsedInv' /\ ChunksCurrent'
    BY <1>0, <1>1 DEF UsedInv, ChunksCurrent
  <2>2. TxInv'
    BY <1>0, <1>1, TxSame
  <2> QED
    BY <2>1, <2>2
<1> QED
  BY <1>6, <1>7, <1>8 DEF IInv

\* The batch without the items whose jobs are settled.
LEMMA WithoutWork ==
    ASSUME TypeOK, WorkInv, wk.phase = "write", wk' = Without(wk.w), used' = used,
           \A c \in ChunkId : chunk'[c].live => chunk[c].live /\ chunk'[c].ver = chunk[c].ver,
           \A c \in ChunkId : job'[c] = "held" => job[c] = "held" /\ c \notin wk.w
    PROVE  WorkInv' /\ wk' \in Worker /\ \A c \in ChunkId : job'[c] = "held" => wk'.out[c] # "none"
<1>0. wk \in Worker /\ Items \subseteq ChunkId /\ \A c \in ChunkId : job'[c] = "held" => c \in Items
  BY DEF TypeOK, Items
<1>1. CASE Items \subseteq wk.w
  BY <1>0, <1>1, IdleWork DEF Without
<1>2. CASE ~(Items \subseteq wk.w)
  <2> DEFINE o == [c \in ChunkId |-> IF c \in wk.w THEN "none" ELSE wk.out[c]]
  <2>1. wk' = [wk EXCEPT !.phase = "apply", !.w = {}, !.gone = {}, !.out = o]
    BY <1>2 DEF Without
  <2>2. o \in [ChunkId -> Out]
    BY <1>0 DEF Worker, Out
  <2> HIDE DEF o
  <2>3. wk' \in Worker /\ wk'.phase = "apply" /\ wk'.out = o /\ wk'.ver = wk.ver
        /\ wk'.w = {} /\ wk'.gone = {}
    BY <1>0, <2>1, <2>2, ZenonT(60), SMTT(20) DEF Worker
  <2>4. Items' = Items \ wk.w /\ \A c \in Items' : wk'.out[c] = wk.out[c]
    BY <2>3 DEF Items, o
  <2>5. WorkInv'
    BY <1>0, <2>3, <2>4 DEF WorkInv
  <2>6. \A c \in ChunkId : job'[c] = "held" => c \in Items'
    BY <1>0, <2>4
  <2> QED
    BY <2>3, <2>5, <2>6 DEF Items
<1> QED
  BY <1>1, <1>2

\* A vector is written only over the version it was made of.
LEMMA WriteCommitInv == IInv /\ WriteCommit => IInv'
<1> SUFFICES ASSUME IInv, WriteCommit PROVE IInv'
  OBVIOUS
<1> DEFINE back == {c \in wk.w : wk.out[c] = "retry" /\ c \notin wk.gone /\ job[c] = "held"}
           ok   == {c \in wk.w : wk.out[c] = "ok"}
<1>0. TypeOK /\ WorkInv /\ UsedInv /\ TxInv /\ ChunksCurrent
  BY DEF IInv
<1>1. /\ wk.phase = "write"
      /\ chunk' = [c \in ChunkId |->
                     IF c \in ok /\ chunk[c].live THEN [chunk[c] EXCEPT !.vec = wk.ver[c]]
                     ELSE chunk[c]]
      /\ job' = [c \in ChunkId |->
                   IF c \in back THEN "pend"
                   ELSE IF c \in wk.w /\ job[c] = "held" THEN "none" ELSE job[c]]
      /\ dead' = [dead EXCEPT !.chunk = @ \union wk.gone]
      /\ tx' = Unseen(back)
      /\ wk' = Without(wk.w)
      /\ UNCHANGED <<doc, clock, used, refresh>>
  BY DEF WriteCommit
<1>2. /\ Items \subseteq ChunkId /\ wk.w \subseteq Items /\ wk.gone \subseteq Items
      /\ \A c \in Items : c <= used /\ (chunk[c].live => wk.ver[c] = chunk[c].ver)
      /\ ok \subseteq wk.w /\ \A c \in back : c \in wk.w /\ job[c] = "held"
      /\ \A c \in ChunkId : wk.ver[c] \in Version
  BY <1>0 DEF WorkInv, Items, TypeOK, Worker
<1> HIDE DEF back, ok
<1>3. tx' \in [Client -> Tx] /\ \A u \in Client : SameTx(u)
  BY <1>0, <1>1, UnseenSame
<1>4. dead' \in [key: SUBSET Key, chunk: SUBSET ChunkId] /\ dead'.chunk = dead.chunk \union wk.gone
  BY <1>0, <1>1, <1>2 DEF TypeOK
<1>5. job' \in [ChunkId -> JobState]
  BY <1>0, <1>1 DEF TypeOK, JobState
<1>6. \A c \in ChunkId : (job'[c] # "none" => job[c] # "none")
                         /\ (job'[c] = "held" => job[c] = "held" /\ c \notin wk.w)
  BY <1>1, <1>2
<1>7. ASSUME NEW c \in ChunkId
      PROVE  /\ chunk'[c] \in Chunk /\ chunk'[c].live = chunk[c].live /\ chunk'[c].key = chunk[c].key
             /\ chunk'[c].ver = chunk[c].ver
             /\ chunk'[c].live => chunk'[c].vec \in {chunk[c].vec, chunk[c].ver}
  <2>1. chunk[c] \in Chunk
    BY <1>0 DEF TypeOK
  <2>2. chunk'[c] = IF c \in ok /\ chunk[c].live THEN [chunk[c] EXCEPT !.vec = wk.ver[c]] ELSE chunk[c]
    BY <1>1
  <2>3. CASE c \in ok /\ chunk[c].live
    <3>1. wk.ver[c] = chunk[c].ver /\ wk.ver[c] \in Version
      BY <1>2, <2>3
    <3>2. chunk'[c] = [chunk[c] EXCEPT !.vec = wk.ver[c]]
      BY <2>2, <2>3
    <3> QED
      BY <2>1, <3>1, <3>2 DEF Chunk
  <2>4. CASE ~(c \in ok /\ chunk[c].live)
    BY <2>1, <2>2, <2>4
  <2> QED
    BY <2>3, <2>4
<1>8. WorkInv' /\ wk' \in Worker /\ \A c \in ChunkId : job'[c] = "held" => wk'.out[c] # "none"
  BY <1>0, <1>1, <1>6, <1>7, WithoutWork
<1>9. TypeOK'
  <2>1. chunk' \in [ChunkId -> Chunk]
    BY <1>1, <1>7
  <2> QED
    BY <1>0, <1>1, <1>3, <1>4, <1>5, <1>8, <2>1 DEF TypeOK
<1>10. UsedInv'
  BY <1>0, <1>1, <1>2, <1>4, <1>6, <1>7 DEF UsedInv
<1>11. ChunksCurrent'
  BY <1>0, <1>1, <1>7 DEF ChunksCurrent
<1>12. TxInv'
  <2>1. used' \in Nat /\ used <= used'
    BY <1>0, <1>1, Types
  <2>2. \A u \in Client : ChunksOf(tx[u].key)' \subseteq ChunksOf(tx[u].key)
    BY <1>3, <1>7 DEF ChunksOf, SameTx
  <2> QED
    BY <1>0, <1>1, <1>3, <1>7, <2>1, <2>2, TxKept, ZenonT(60), SMTT(20)
<1> QED
  BY <1>8, <1>9, <1>10, <1>11, <1>12 DEF IInv

LEMMA WriteAbortsInv == IInv /\ WriteAborts => IInv'
<1> SUFFICES ASSUME IInv, WriteAborts PROVE IInv'
  OBVIOUS
<1> DEFINE back == {c \in wk.w : job[c] = "held"}
<1>0. TypeOK /\ WorkInv /\ UsedInv /\ TxInv /\ ChunksCurrent
  BY DEF IInv
<1>1. wk.phase = "write" /\ UNCHANGED <<doc, clock, chunk, used, refresh>>
  BY DEF WriteAborts
<1>2. /\ Items \subseteq ChunkId /\ wk.w \subseteq Items /\ wk \in Worker
      /\ \A c \in Items : c <= used
      /\ back \subseteq ChunkId /\ \A c \in ChunkId : c \in back <=> c \in wk.w /\ job[c] = "held"
  BY <1>0 DEF WorkInv, Items, TypeOK
<1>3. /\ tx' \in [Client -> Tx] /\ \A u \in Client : SameTx(u)
      /\ job' \in [ChunkId -> JobState] /\ \A c \in ChunkId : job'[c] # "none" => job[c] # "none"
      /\ dead' \in [key: SUBSET Key, chunk: SUBSET ChunkId] /\ dead'.chunk \subseteq dead.chunk \union wk.w
      /\ WorkInv' /\ wk' \in Worker /\ \A c \in ChunkId : job'[c] = "held" => wk'.out[c] # "none"
  <2>1. CASE ~wk.rows
    <3>1. wk' = [wk EXCEPT !.phase = "apply", !.rows = TRUE, !.w = {}, !.gone = {}]
          /\ UNCHANGED <<job, dead, tx>>
      BY <2>1 DEF WriteAborts
    <3>2. wk' \in Worker /\ wk'.phase = "apply" /\ wk'.out = wk.out /\ wk'.ver = wk.ver
          /\ wk'.w = {} /\ wk'.gone = {}
      BY <1>2, <3>1, ZenonT(60), SMTT(20) DEF Worker
    <3>3. Items' = Items
      BY <3>2 DEF Items
    <3>4. WorkInv'
      BY <1>0, <1>1, <3>2, <3>3 DEF WorkInv
    <3>5. \A u \in Client : SameTx(u)
      BY <3>1 DEF SameTx
    <3> QED
      BY <1>0, <3>1, <3>2, <3>4, <3>5 DEF TypeOK
  <2>2. CASE wk.rows
    <3>1. wk' = Without(wk.w)
      BY <2>2 DEF WriteAborts
    <3>2. \/ /\ job' = [c \in ChunkId |-> IF c \in back THEN "pend" ELSE job[c]]
             /\ tx' = Unseen(back) /\ UNCHANGED dead
          \/ /\ job' = [c \in ChunkId |-> IF c \in back THEN "none" ELSE job[c]]
             /\ dead' = [dead EXCEPT !.chunk = @ \union back] /\ UNCHANGED tx
      BY <2>2 DEF WriteAborts
    <3> HIDE DEF back
    <3>3. job' \in [ChunkId -> JobState]
      BY <1>0, <3>2 DEF TypeOK, JobState
    <3>4. \A c \in ChunkId : /\ job'[c] # "none" => job[c] # "none"
                             /\ job'[c] = "held" => job[c] = "held" /\ c \notin wk.w
      BY <1>2, <3>2
    <3>5. WorkInv' /\ wk' \in Worker /\ \A c \in ChunkId : job'[c] = "held" => wk'.out[c] # "none"
      BY <1>0, <1>1, <3>1, <3>4, WithoutWork
    <3>6. tx' \in [Client -> Tx] /\ \A u \in Client : SameTx(u)
      <4>1. CASE tx' = Unseen(back)
        BY <1>0, <4>1, UnseenSame, ZenonT(60), SMTT(20)
      <4>2. CASE tx' = tx
        BY <1>0, <4>2 DEF SameTx, TypeOK
      <4> QED
        BY <3>2, <4>1, <4>2
    <3>7. dead' \in [key: SUBSET Key, chunk: SUBSET ChunkId] /\ dead'.chunk \subseteq dead.chunk \union wk.w
      <4>1. CASE dead' = dead
        BY <1>0, <4>1 DEF TypeOK
      <4>2. CASE dead' = [dead EXCEPT !.chunk = @ \union back]
        <5>1. back \subseteq wk.w
          BY <1>2
        <5>2. dead \in [key: SUBSET Key, chunk: SUBSET ChunkId]
          BY <1>0 DEF TypeOK
        <5> QED
          BY <1>2, <4>2, <5>1, <5>2
      <4> QED
        BY <3>2, <4>1, <4>2
    <3> QED
      BY <3>3, <3>4, <3>5, <3>6, <3>7
  <2> QED
    BY <2>1, <2>2
<1>4. TypeOK'
  BY <1>0, <1>1, <1>3, ZenonT(60), SMTT(20) DEF TypeOK
<1>5. UsedInv' /\ ChunksCurrent'
  BY <1>0, <1>1, <1>2, <1>3, ZenonT(60), SMTT(20) DEF UsedInv, ChunksCurrent
<1>6. TxInv'
  <2>1. used' \in Nat /\ used <= used'
    BY <1>0, <1>1, Types
  <2>2. \A u \in Client : ChunksOf(tx[u].key)' \subseteq ChunksOf(tx[u].key)
    BY <1>1, <1>3 DEF ChunksOf, SameTx
  <2> QED
    BY <1>0, <1>1, <1>3, <2>1, <2>2, TxKept, ZenonT(60), SMTT(20)
<1> QED
  BY <1>3, <1>4, <1>5, <1>6 DEF IInv

-----------------------------------------------------------------------------
(***************************************************************************)
(* Theorems.                                                               *)
(***************************************************************************)

LEMMA UserInv == IInv /\ UserStep => IInv'
<1> SUFFICES ASSUME IInv, UserStep PROVE IInv'
  OBVIOUS
<1>1. ASSUME NEW t \in Client, NEW r \in Key, NEW k \in {"null", "blank", "text"}, Insert(t, r, k)
      PROVE  IInv'
  BY <1>1, StatementInv DEF Insert, Kind
<1>2. ASSUME NEW t \in Client, NEW r \in Key, NEW k \in {"null", "blank", "text"}, Update(t, r, k)
      PROVE  IInv'
  BY <1>2, StatementInv DEF Update, Kind
<1>3. ASSUME NEW t \in Client, NEW r \in Key, Delete(t, r) PROVE IInv'
  BY <1>3, StatementInv DEF Delete, Kind
<1>4. ASSUME NEW t \in Client, NEW r \in Key, NEW d \in Key, Rekey(t, r, d) PROVE IInv'
  <2>1. doc[r].kind \in Kind
    BY DEF IInv, TypeOK, Doc
  <2> QED
    BY <1>4, <2>1, StatementInv DEF Rekey
<1>5. ASSUME NEW t \in Client, Commit(t) \/ Rollback(t) PROVE IInv'
  BY <1>5, CommitInv, RollbackInv
<1>6. ASSUME NEW t \in Client, NEW p \in Part, TriggerPart(t, p) PROVE IInv'
  BY <1>6, TriggerInv
<1> QED
  BY <1>1, <1>2, <1>3, <1>4, <1>5, <1>6, ZenonT(60), SMTT(20) DEF UserStep

\* Every step keeps the invariant.
LEMMA NextInv == IInv /\ [Next]_vars => IInv'
<1> SUFFICES ASSUME IInv, [Next]_vars PROVE IInv'
  OBVIOUS
<1>1. CASE CallStep
  <2>1. ASSUME NEW R \in SUBSET Key, NEW C \in SUBSET ChunkId, RetryDead(R, C) PROVE IInv'
    BY <2>1, RetryDeadInv
  <2> QED
    BY <1>1, <2>1, TruncateInv, SetFormatInv DEF CallStep
<1>2. CASE \E r \in Key : RefreshClaim(r)
  BY <1>2, RefreshClaimInv
<1>3. CASE RefreshStep
  BY <1>3, RefreshDeadInv, RefreshDoInv DEF RefreshStep
<1>4. CASE ClaimStep
  <2>1. PICK S \in SUBSET Lost : \E X \in SUBSET S :
          \E C \in SUBSET (Pending \union (S \ X)) : \E g \in [C -> Reads] : Claim(S, X, g)
    BY <1>4, ZenonT(60), SMTT(20) DEF ClaimStep, ClaimOf
  <2>2. PICK X \in SUBSET S :
          \E C \in SUBSET (Pending \union (S \ X)) : \E g \in [C -> Reads] : Claim(S, X, g)
    BY <2>1
  <2>3. PICK C \in SUBSET (Pending \union (S \ X)) : \E g \in [C -> Reads] : Claim(S, X, g)
    BY <2>2
  <2> QED
    BY <2>3, ClaimInv
<1>5. CASE WriteStep
  <2>1. ASSUME NEW W \in SUBSET Items, NEW Y \in SUBSET W, WriteStart(W, Y) PROVE IInv'
    BY <2>1, WriteStartInv
  <2> QED
    BY <1>5, <2>1, WriteCommitInv DEF WriteStep
<1>6. CASE UNCHANGED vars
  <2>1. TypeOK /\ WorkInv /\ UsedInv /\ TxInv /\ ChunksCurrent
    BY ZenonT(60), SMTT(20) DEF IInv
  <2>2. TypeOK'
    BY <1>6, <2>1 DEF vars, TypeOK
  <2>3. UsedInv' /\ ChunksCurrent'
    BY <1>6, <2>1 DEF vars, UsedInv, ChunksCurrent
  <2>4. WorkInv'
    BY <1>6, <2>1, WorkKept DEF vars
  <2>5. TxInv'
    BY <1>6, <2>1, TxSame DEF vars
  <2> QED
    BY <2>2, <2>3, <2>4, <2>5 DEF IInv
<1> QED
  BY <1>1, <1>2, <1>3, <1>4, <1>5, <1>6, UserInv, RefreshAbortsInv, EmbedInv, WriteAbortsInv,
     CrashInv DEF Next

\* The state stays well-formed: chunk identities are given out once, no two
\* transactions share a key, and the texts in hand are of the versions their
\* chunks are of.
THEOREM Invariance == Spec => []IInv
<1>1. Init => IInv
  BY InitInv
<1>2. IInv /\ [Next]_vars => IInv'
  BY NextInv
<1> QED
  BY <1>1, <1>2, PTL DEF Spec

\* process_one_refresh: no chunk and no vector of an older version of a
\* document is ever committed, for any number of writers, documents and chunks.
THEOREM NeverStale == Spec => []ChunksCurrent
<1>1. IInv => ChunksCurrent
  BY DEF IInv
<1> QED
  BY <1>1, Invariance, PTL

-----------------------------------------------------------------------------
(***************************************************************************)
(* No step loses a document.                                               *)
(***************************************************************************)

\* A document whose chunks a step keeps, with what embeds them.
LEMMA CoverKept ==
    ASSUME NEW r \in Key, Covered(r),
           doc'[r].kind = "text" => doc[r].kind = "text",
           r \in refresh \union dead.key => r \in refresh' \union dead'.key,
           ChunksOf(r)' = ChunksOf(r),
           \A c \in ChunksOf(r) : Embedded(c) => Embedded(c)'
    PROVE  Covered(r)'
BY DEF Covered

\* The document of a committed transaction is queued again, or was all the
\* time; the others keep their chunks.
LEMMA CommitCovers ==
    ASSUME IInv, NEW t \in Client, Commit(t), NEW r \in Key, Covered(r)
    PROVE  Covered(r)' \/ Orphaned(r)
<1> DEFINE b == tx[t]
<1>1. /\ b.op # "none" /\ b.todo = {}
      /\ doc' = [q \in Key |-> IF q = b.to THEN b.new ELSE IF q = b.key THEN NoDoc ELSE doc[q]]
      /\ chunk' = [c \in ChunkId |->
                     IF c \in b.chunks THEN [chunk[c] EXCEPT !.live = FALSE] ELSE chunk[c]]
      /\ job' = [c \in ChunkId |-> IF c \in b.jobs THEN "none" ELSE job[c]]
      /\ refresh' = (refresh \ (IF b.drop THEN {b.key} ELSE {}))
                    \union (IF b.add THEN {b.to} ELSE {})
      /\ dead' = IF b.op = "ins" THEN dead
                 ELSE [key |-> dead.key \ {b.key}, chunk |-> dead.chunk \ b.dseen]
      /\ tx' = [tx EXCEPT ![t] = NoTx]
  BY DEF Commit
<1>2. TypeOK /\ TxOK(t) /\ b.op \in {"ins", "upd", "del", "key"}
  BY <1>1 DEF IInv, TxInv, TypeOK, Tx
<1>3. CASE r = b.to /\ b.op \in {"ins", "key"}
  <2>1. CASE b.add
    BY <1>1, <1>3, <2>1 DEF Covered
  <2>2. CASE ~b.add
    <3>1. tx'[t] = NoTx
      BY <1>1, <1>2 DEF TypeOK
    <3> QED
      BY <1>3, <2>2, <3>1 DEF Orphaned
  <2> QED
    BY <2>1, <2>2
<1>4. CASE r = b.to /\ b.op \in {"upd", "del"}
  <2>1. doc'[r] = b.new /\ b.key = r
    BY <1>1, <1>2, <1>4, ZenonT(60), SMTT(20) DEF TxOK
  <2>2. CASE b.new.kind # "text"
    BY <2>1, <2>2 DEF Covered
  <2>3. CASE b.new.kind = "text" /\ b.op = "upd"
    <3>1. ~b.drop /\ (b.add \/ r \in refresh)
      BY <1>1, <1>2, <2>1, <2>3, ZenonT(60), SMTT(20) DEF TxOK
    <3> QED
      BY <1>1, <1>4, <3>1 DEF Covered
  <2>4. CASE b.new.kind = "text" /\ b.op = "del"
    BY <1>2, <2>4, ZenonT(60), SMTT(20) DEF TxOK
  <2> QED
    BY <1>4, <2>2, <2>3, <2>4
<1>5. CASE r # b.to /\ r = b.key
  BY <1>1, <1>5, ZenonT(60), SMTT(20) DEF Covered, NoDoc
<1>6. CASE r # b.to /\ r # b.key
  <2>1. \A c \in b.seen \union b.dseen \union b.jobs \union b.chunks : chunk[c].key # r
    BY <1>1, <1>2, <1>6 DEF TxOK
  <2>2. \A c \in ChunkId : chunk[c] \in Chunk
    BY <1>2 DEF TypeOK
  <2>3. \A c \in ChunkId : chunk'[c].key = chunk[c].key /\ (c \notin b.chunks => chunk'[c] = chunk[c])
    <3>1. ASSUME NEW c \in ChunkId
          PROVE  chunk'[c] = IF c \in b.chunks THEN [chunk[c] EXCEPT !.live = FALSE] ELSE chunk[c]
      BY <1>1
    <3> HIDE DEF b
    <3> QED
      BY <2>2, <3>1, ZenonT(60), SMTT(20) DEF Chunk
  <2>4. ChunksOf(r)' = ChunksOf(r)
    BY <2>1, <2>3 DEF ChunksOf
  <2>5. \A c \in ChunksOf(r) : /\ c \notin b.chunks /\ c \notin b.jobs /\ c \notin b.dseen /\ c \in ChunkId
    BY <2>1 DEF ChunksOf
  <2>6. \A c \in ChunksOf(r) : chunk'[c] = chunk[c] /\ job'[c] = job[c] /\ (c \in dead.chunk => c \in dead'.chunk)
    BY <1>1, <2>3, <2>5
  <2>7. doc'[r] = doc[r] /\ (r \in refresh \union dead.key => r \in refresh' \union dead'.key)
    BY <1>1, <1>6
  <2> QED
    BY <2>4, <2>6, <2>7, CoverKept, ZenonT(60), SMTT(20) DEF Embedded
<1> QED
  BY <1>2, <1>3, <1>4, <1>5, <1>6

\* A refresh replaces the chunks of its document by queued ones.
LEMMA RefreshCovers ==
    ASSUME IInv, NEW n \in 1 .. MaxSplit, RefreshDo(n), NEW r \in Key, Covered(r)
    PROVE  Covered(r)'
<1>1. TypeOK /\ UsedInv /\ used \in Nat /\ ChunkId \subseteq Nat
  BY Types DEF IInv
<1>2. /\ dead' = [key |-> dead.key \ {wk.key}, chunk |-> {c \in dead.chunk : chunk[c].key # wk.key}]
      /\ refresh' = refresh \ {wk.key} /\ doc' = doc
  BY DEF RefreshDo
<1>3. CASE r = wk.key
  <2>1. SUFFICES ASSUME doc[r].kind = "text" PROVE Covered(r)'
    BY <1>2, ZenonT(60), SMTT(20) DEF Covered
  <2>2. used + 1 \in NewIds(n) /\ NewIds(n) \subseteq ChunkId
    BY <1>1, <1>3, <2>1, RefreshIds
  <2>3. used + 1 \in ChunksOf(r)'
    <3>1. chunk'[used + 1] = [live |-> TRUE, key |-> wk.key, ver |-> doc[wk.key].ver, vec |-> 0]
      BY <2>2, RefreshChunks, ZenonT(60), SMTT(20)
    <3> QED
      BY <1>3, <2>2, <3>1 DEF ChunksOf
  <2>4. \A c \in ChunksOf(r)' : job'[c] = "pend"
    <3>1. ASSUME NEW c \in ChunkId, chunk'[c].live, chunk'[c].key = r PROVE job'[c] = "pend"
      BY <1>3, <3>1, RefreshChunks, ZenonT(60), SMTT(20)
    <3> QED
      BY <3>1 DEF ChunksOf
  <2> QED
    BY <2>3, <2>4, ZenonT(60), SMTT(20) DEF Covered, Embedded
<1>4. CASE r # wk.key
  <2>1. ASSUME NEW c \in ChunksOf(r) PROVE c \in ChunkId \ NewIds(n) /\ chunk[c].live /\ chunk[c].key = r
    <3>1. c \in ChunkId /\ chunk[c].live /\ chunk[c].key = r /\ c <= used
      BY <1>1 DEF ChunksOf, UsedInv
    <3>2. c \notin NewIds(n)
      BY <1>1, <3>1, RefreshIds
    <3> QED
      BY <3>1, <3>2
  <2>2. ChunksOf(r) \subseteq ChunksOf(r)'
    <3>1. ASSUME NEW c \in ChunksOf(r) PROVE chunk'[c].live /\ chunk'[c].key = r
      BY <1>4, <2>1, RefreshChunks, ZenonT(60), SMTT(20)
    <3> QED
      BY <2>1, <3>1, ZenonT(60), SMTT(20) DEF ChunksOf
  <2>3. ChunksOf(r)' \subseteq ChunksOf(r)
    <3>1. ASSUME NEW c \in ChunkId, chunk'[c].live, chunk'[c].key = r PROVE chunk[c].live /\ chunk[c].key = r
      BY <1>4, <3>1, RefreshChunks
    <3> QED
      BY <3>1 DEF ChunksOf
  <2>4. ASSUME NEW c \in ChunksOf(r), Embedded(c) PROVE Embedded(c)'
    <3>1. c \in ChunkId /\ c \notin NewIds(n) /\ chunk[c].key # wk.key
      BY <1>4, <2>1, ZenonT(60), SMTT(20)
    <3>2. chunk'[c].vec = chunk[c].vec /\ job'[c] = job[c]
      BY <3>1, RefreshChunks, ZenonT(60), SMTT(20)
    <3> QED
      BY <1>2, <2>4, <3>1, <3>2 DEF Embedded
  <2>5. ChunksOf(r)' = ChunksOf(r)
    BY <2>2, <2>3
  <2>6. r \in refresh \union dead.key => r \in refresh' \union dead'.key
    BY <1>2, <1>4
  <2>7. doc'[r].kind = "text" => doc[r].kind = "text"
    BY <1>2, ZenonT(60), SMTT(20)
  <2> QED
    BY <2>4, <2>5, <2>6, <2>7, CoverKept, ZenonT(60), SMTT(20)
<1> QED
  BY <1>3, <1>4

\* A claimed job is held, deferred or dead.
LEMMA ClaimCovers ==
    ASSUME IInv, NEW S \in SUBSET Lost, NEW X \in SUBSET S,
           NEW C \in SUBSET (Pending \union (S \ X)), NEW g \in [C -> Reads], Claim(S, X, g),
           NEW r \in Key, Covered(r)
    PROVE  Covered(r)'
<1> DEFINE On(y) == {c \in C : chunk[c].live /\ g[c] = y}
<1>1. /\ job' = [c \in ChunkId |->
                   IF c \in On("text") THEN "held"
                   ELSE IF c \in On("defer") THEN "pend"
                   ELSE IF c \in C \union X THEN "none"
                   ELSE IF c \in S THEN "pend" ELSE job[c]]
      /\ dead' = [dead EXCEPT !.chunk = @ \union X \union On("dead")]
      /\ UNCHANGED <<doc, clock, chunk, used, refresh>>
  BY DEF Claim
<1>2. dead'.key = dead.key /\ dead'.chunk = dead.chunk \union X \union On("dead")
  BY <1>1 DEF IInv, TypeOK
<1>3. ChunksOf(r)' = ChunksOf(r)
  BY <1>1 DEF ChunksOf
<1>4. ASSUME NEW c \in ChunksOf(r), Embedded(c) PROVE Embedded(c)'
  <2>1. c \in ChunkId /\ chunk[c].live
    BY DEF ChunksOf
  <2>2. c \in C => c \in On("text") \/ c \in On("defer") \/ c \in On("dead")
    <3>1. c \in C => g[c] \in Reads
      OBVIOUS
    <3> QED
      BY <2>1, <3>1 DEF Reads
  <2> HIDE DEF On
  <2>3. job'[c] = IF c \in On("text") THEN "held"
                  ELSE IF c \in On("defer") THEN "pend"
                  ELSE IF c \in C \union X THEN "none"
                  ELSE IF c \in S THEN "pend" ELSE job[c]
    BY <1>1, <2>1
  <2> QED
    BY <1>1, <1>2, <1>4, <2>2, <2>3 DEF Embedded
<1> QED
  BY <1>1, <1>2, <1>3, <1>4, CoverKept

\* An item's job ends with its vector written or its dead letter inserted.
LEMMA WriteCovers ==
    ASSUME IInv, WriteCommit, NEW r \in Key, Covered(r)
    PROVE  Covered(r)'
<1> DEFINE back == {c \in wk.w : wk.out[c] = "retry" /\ c \notin wk.gone /\ job[c] = "held"}
           ok   == {c \in wk.w : wk.out[c] = "ok"}
<1>0. TypeOK /\ WorkInv /\ UsedInv /\ ChunksCurrent
  BY DEF IInv
<1>1. /\ wk.phase = "write"
      /\ chunk' = [c \in ChunkId |->
                     IF c \in ok /\ chunk[c].live THEN [chunk[c] EXCEPT !.vec = wk.ver[c]]
                     ELSE chunk[c]]
      /\ job' = [c \in ChunkId |->
                   IF c \in back THEN "pend"
                   ELSE IF c \in wk.w /\ job[c] = "held" THEN "none" ELSE job[c]]
      /\ dead' = [dead EXCEPT !.chunk = @ \union wk.gone]
      /\ UNCHANGED <<doc, clock, used, refresh>>
  BY DEF WriteCommit
<1>2. dead'.key = dead.key /\ dead'.chunk = dead.chunk \union wk.gone
  BY <1>0, <1>1 DEF TypeOK
<1>3. ASSUME NEW c \in ChunkId
      PROVE  /\ chunk'[c].live = chunk[c].live /\ chunk'[c].key = chunk[c].key
             /\ c \in ok /\ chunk[c].live => chunk'[c].vec = wk.ver[c]
             /\ c \notin ok => chunk'[c].vec = chunk[c].vec
  <2>1. chunk[c] \in Chunk
    BY <1>0 DEF TypeOK
  <2>2. chunk'[c] = IF c \in ok /\ chunk[c].live THEN [chunk[c] EXCEPT !.vec = wk.ver[c]] ELSE chunk[c]
    BY <1>1
  <2> HIDE DEF ok
  <2> QED
    BY <2>1, <2>2 DEF Chunk
<1>4. ChunksOf(r)' = ChunksOf(r)
  BY <1>3 DEF ChunksOf
<1>5. ASSUME NEW c \in ChunksOf(r), Embedded(c) PROVE Embedded(c)'
  <2>1. c \in ChunkId /\ chunk[c].live /\ chunk[c].key = r
    BY DEF ChunksOf
  <2>2. job'[c] = IF c \in back THEN "pend"
                  ELSE IF c \in wk.w /\ job[c] = "held" THEN "none" ELSE job[c]
    BY <1>1, <2>1
  <2>3. CASE c \in ok
    <3>1. c \in Items /\ wk.ver[c] = chunk[c].ver
      BY <1>0, <2>1, <2>3 DEF WorkInv
    <3>2. chunk[c].ver = doc[r].ver /\ doc[r].kind = "text" /\ doc[r].ver # 0
      BY <1>0, <2>1 DEF ChunksCurrent, UsedInv
    <3> QED
      BY <1>3, <2>1, <2>3, <3>1, <3>2, ZenonT(60), SMTT(20) DEF Embedded
  <2>4. CASE c \notin ok
    <3>1. c \in wk.w /\ job[c] = "held" => c \in back \/ c \in wk.gone
      <4>1. c \in wk.w => wk.out[c] \in Out \ {"none", "text", "ok"}
        <5>1. c \in wk.w => c \in Items /\ wk.out[c] # "text" /\ wk.out[c] # "ok"
          BY <1>0, <1>1, <2>4 DEF WorkInv
        <5>2. wk.out[c] \in Out
          BY <1>0, <2>1 DEF TypeOK, Worker
        <5> QED
          BY <5>1, <5>2 DEF Items
      <4> QED
        BY <1>0, <1>1, <4>1 DEF WorkInv, Out
    <3>2. chunk'[c].vec = chunk[c].vec
      BY <1>3, <2>1, <2>4, ZenonT(60), SMTT(20)
    <3> HIDE DEF back, ok
    <3> QED
      BY <1>2, <1>5, <2>2, <3>1, <3>2 DEF Embedded
  <2> QED
    BY <2>3, <2>4
<1> QED
  BY <1>1, <1>2, <1>4, <1>5, CoverKept

LEMMA AbortCovers ==
    ASSUME IInv, WriteAborts, NEW r \in Key, Covered(r)
    PROVE  Covered(r)'
<1> DEFINE back == {c \in wk.w : job[c] = "held"}
<1>1. UNCHANGED <<doc, clock, chunk, used, refresh>>
  BY DEF WriteAborts
<1>2. \/ UNCHANGED <<job, dead>>
      \/ job' = [c \in ChunkId |-> IF c \in back THEN "pend" ELSE job[c]] /\ UNCHANGED dead
      \/ /\ job' = [c \in ChunkId |-> IF c \in back THEN "none" ELSE job[c]]
         /\ dead' = [dead EXCEPT !.chunk = @ \union back]
  BY DEF WriteAborts
<1> HIDE DEF back
<1>3. dead'.key = dead.key /\ \A c \in ChunkId :
        (job[c] # "none" \/ c \in dead.chunk) => (job'[c] # "none" \/ c \in dead'.chunk)
  <2>1. dead \in [key: SUBSET Key, chunk: SUBSET ChunkId]
    BY DEF IInv, TypeOK
  <2> QED
    BY <1>2, <2>1
<1>4. ChunksOf(r)' = ChunksOf(r) /\ ChunksOf(r) \subseteq ChunkId
  BY <1>1, ZenonT(60), SMTT(20) DEF ChunksOf
<1>5. \A c \in ChunksOf(r) : Embedded(c) => Embedded(c)'
  BY <1>1, <1>3, <1>4, ZenonT(60), SMTT(20) DEF Embedded
<1> QED
  BY <1>1, <1>3, <1>4, <1>5, CoverKept, ZenonT(60), SMTT(20)

LEMMA RetryCovers ==
    ASSUME IInv, NEW R \in SUBSET Key, NEW C \in SUBSET ChunkId, RetryDead(R, C),
           NEW r \in Key, Covered(r)
    PROVE  Covered(r)'
<1>1. /\ dead' = [key |-> dead.key \ R, chunk |-> dead.chunk \ C] /\ refresh' = refresh \union R
      /\ job' = [c \in ChunkId |->
                   IF c \in C /\ chunk[c].live /\ job[c] = "none" THEN "pend" ELSE job[c]]
      /\ UNCHANGED <<doc, chunk>>
  BY DEF RetryDead
<1>2. ChunksOf(r)' = ChunksOf(r)
  BY <1>1, ZenonT(60), SMTT(20) DEF ChunksOf
<1>3. ASSUME NEW c \in ChunksOf(r), Embedded(c) PROVE Embedded(c)'
  <2>1. c \in ChunkId /\ chunk[c].live
    BY DEF ChunksOf
  <2>2. job'[c] = IF c \in C /\ job[c] = "none" THEN "pend" ELSE job[c]
    BY <1>1, <2>1, ZenonT(60), SMTT(20)
  <2> QED
    BY <1>1, <1>3, <2>2, ZenonT(60), SMTT(20) DEF Embedded
<1>4. r \in refresh \union dead.key => r \in refresh' \union dead'.key
  BY <1>1
<1> QED
  BY <1>1, <1>2, <1>3, <1>4, CoverKept, ZenonT(60), SMTT(20)

\* A step that changes no document, chunk, job and dead letter.
LEMMA SameCovers ==
    ASSUME NEW r \in Key, Covered(r), UNCHANGED <<doc, chunk, refresh, job, dead>>
    PROVE  Covered(r)'
BY DEF Covered, ChunksOf, Embedded

\* Every step but the commit of an orphaned insert keeps a document covered.
LEMMA NextCovers ==
    ASSUME IInv, [Next]_vars, NEW r \in Key, Covered(r)
    PROVE  Covered(r)' \/ Orphaned(r)
<1>1. CASE UserStep
  <2>1. ASSUME NEW t \in Client, Commit(t) PROVE Covered(r)' \/ Orphaned(r)
    BY <2>1, CommitCovers, ZenonT(60), SMTT(20)
  <2>2. ASSUME NEW t, NEW op, NEW q, NEW d, NEW k, Statement(t, op, q, d, k) PROVE Covered(r)'
    BY <2>2, SameCovers, ZenonT(60), SMTT(20) DEF Statement
  <2>3. ASSUME NEW t, NEW p, TriggerPart(t, p) PROVE Covered(r)'
    BY <2>3, SameCovers DEF TriggerPart
  <2>4. ASSUME NEW t, Rollback(t) PROVE Covered(r)'
    BY <2>4, SameCovers DEF Rollback
  <2> QED
    BY <1>1, <2>1, <2>2, <2>3, <2>4, ZenonT(60), SMTT(20)
       DEF UserStep, Insert, Update, Delete, Rekey
<1>2. CASE CallStep
  <2>1. CASE Truncate
    BY <2>1, ZenonT(60), SMTT(20) DEF Truncate, Covered, NoDoc
  <2>2. CASE SetFormat
    <3>1. doc[r] \in Doc
      BY DEF IInv, TypeOK
    <3>2. doc'[r] = IF doc[r].kind \in NotNull THEN [doc[r] EXCEPT !.ver = clock + 1] ELSE doc[r]
      BY <2>2 DEF SetFormat
    <3>3. doc'[r].kind = doc[r].kind
      BY <3>1, <3>2 DEF Doc
    <3> QED
      BY <2>2, <3>3 DEF SetFormat, Covered, NotNull
  <2>3. ASSUME NEW R \in SUBSET Key, NEW C \in SUBSET ChunkId, RetryDead(R, C) PROVE Covered(r)'
    BY <2>3, RetryCovers
  <2> QED
    BY <1>2, <2>1, <2>2, <2>3, ZenonT(60), SMTT(20) DEF CallStep
<1>3. CASE RefreshStep
  <2>1. CASE RefreshDead
    <3>1. dead'.key = dead.key \union {wk.key} /\ dead'.chunk = dead.chunk
          /\ refresh' = refresh \ {wk.key} /\ UNCHANGED <<doc, chunk, job>>
      BY <2>1, ZenonT(60), SMTT(20) DEF RefreshDead, IInv, TypeOK
    <3>2. ChunksOf(r)' = ChunksOf(r)
      BY <3>1, ZenonT(60), SMTT(20) DEF ChunksOf
    <3> QED
      BY <3>1, <3>2, CoverKept, ZenonT(60), SMTT(20) DEF Embedded
  <2> QED
    BY <1>3, <2>1, RefreshCovers, ZenonT(60), SMTT(20) DEF RefreshStep
<1>4. CASE ClaimStep
  <2>1. PICK S \in SUBSET Lost : \E X \in SUBSET S :
          \E C \in SUBSET (Pending \union (S \ X)) : \E g \in [C -> Reads] : Claim(S, X, g)
    BY <1>4 DEF ClaimStep, ClaimOf
  <2>2. PICK X \in SUBSET S :
          \E C \in SUBSET (Pending \union (S \ X)) : \E g \in [C -> Reads] : Claim(S, X, g)
    BY <2>1
  <2>3. PICK C \in SUBSET (Pending \union (S \ X)) : \E g \in [C -> Reads] : Claim(S, X, g)
    BY <2>2
  <2> QED
    BY <2>3, ClaimCovers
<1>5. CASE WriteStep
  <2>1. ASSUME NEW W, NEW Y, WriteStart(W, Y) PROVE Covered(r)'
    BY <2>1, SameCovers DEF WriteStart
  <2> QED
    BY <1>5, <2>1, WriteCovers DEF WriteStep
<1>6. CASE Crash
  <2>1. job' = [c \in ChunkId |-> IF job[c] = "held" THEN "lost" ELSE job[c]]
        /\ UNCHANGED <<doc, chunk, refresh, dead>>
    BY <1>6 DEF Crash
  <2>2. ChunksOf(r)' = ChunksOf(r) /\ ChunksOf(r) \subseteq ChunkId
    BY <2>1, ZenonT(60), SMTT(20) DEF ChunksOf
  <2>3. \A c \in ChunksOf(r) : Embedded(c) => Embedded(c)'
    BY <2>1, <2>2, ZenonT(60), SMTT(20) DEF Embedded
  <2> QED
    BY <2>1, <2>2, <2>3, CoverKept
<1>7. CASE (\E q \in Key : RefreshClaim(q)) \/ RefreshAborts \/ Embed \/ UNCHANGED vars
  BY <1>7, SameCovers, ZenonT(60), SMTT(20) DEF RefreshClaim, RefreshAborts, Embed, vars
<1> QED
  BY <1>1, <1>2, <1>3, <1>4, <1>5, <1>6, <1>7, AbortCovers DEF Next

\* Triggers, refreshes, claims, write-backs, crashes, retry_dead, truncation
\* and set_format never lose a document: it has a refresh job or a dead letter,
\* or chunks that each have a vector, a job or a dead letter.
THEOREM NothingLosesDocs == Spec => DocsStayCovered
<1>1. IInv /\ [Next]_vars => [\A r \in Key : Covered(r) => Covered(r)' \/ Orphaned(r)]_vars
  BY NextCovers
<1> QED
  BY <1>1, Invariance, PTL DEF Spec, DocsStayCovered

=============================================================================
