------------------------- MODULE EmbedQueueTracking -------------------------
(***************************************************************************)
(* No step of EmbedQueue loses track of a key: FullInv is inductive, and   *)
(* from it every action keeps Tracked, for any number of keys, sessions    *)
(* and jobs.                                                               *)
(***************************************************************************)
EXTENDS EmbedQueueProofs

\* The provers that a leaf tries in turn when it names none.
USE SMTT(20), Z3T(20), SMTT(40), Z3T(40), ZenonT(20)

\* The part of FullInv that speaks of texts.
TextInv == IntentInv /\ VersionInv /\ ColumnInv

-----------------------------------------------------------------------------
(***************************************************************************)
(* FullInv is inductive.                                                   *)
(***************************************************************************)

\* A statement announces a text with a version nobody has seen.
LEMMA StatementText ==
    ASSUME FullInv, NEW s \in Session, NEW rec \in Tx, NEW R, Statement(s, rec, R),
           rec.row \in Row, rec.op = "rekey" => rec.dst \in Row,
           rec.op = "insert" => kind[rec.row] = "absent",
           rec.op \in {"update", "delete", "rekey"} => kind[rec.row] # "absent",
           rec.op = "rekey" => kind[rec.dst] = "absent",
           rec.op = "delete" => rec.kind = "absent" /\ rec.ver = 0,
           rec.op \in {"insert", "update", "rekey"} => rec.kind # "absent" /\ rec.ver = clock + 1
    PROVE  TextInv'
<1>1. /\ tx' = [tx EXCEPT ![s] = rec] /\ tx \in [Session -> Tx]
      /\ clock' = clock + 1 /\ clock \in Nat
      /\ UNCHANGED <<kind, ver, vec, reg, item>>
  BY BoundsAssumption DEF Statement, FullInv, Inv, TypeOK, Version
<1>2. tx'[s] = rec /\ \A u \in Session \ {s} : tx'[u] = tx[u]
  BY <1>1
<1>3. /\ \A u \in Session : tx[u].ver \in Nat
      /\ \A r \in Row : ver[r] \in Nat
      /\ \A j \in JobId : item[j].ver \in Nat
  BY BoundsAssumption DEF FullInv, Inv, TypeOK, Tx, Item, Version
<1>4. IntentInv'
  BY <1>1, <1>2, <1>3 DEF FullInv, IntentInv
<1>5. Items' = Items /\ Items \subseteq JobId /\ \A j \in Items : item[j].row \in Row
  BY <1>1 DEF Items, FullInv, Inv, WorkerInv
<1>6. VersionInv'
  <2>1. \A r \in Row : ver'[r] <= clock' /\ (kind'[r] = "absent" <=> ver'[r] = 0)
    BY <1>1, <1>3 DEF FullInv, VersionInv
  <2>2. \A j \in Items' : item'[j].ver <= clock'
    BY <1>1, <1>3, <1>5 DEF FullInv, VersionInv
  <2>3. ASSUME NEW u \in Session, tx'[u].op \in {"insert", "update", "rekey"}
        PROVE  /\ tx'[u].ver # ver'[Target(u)']
               /\ \A j \in Items' : item'[j].row = Target(u)' => item'[j].ver # tx'[u].ver
    <3>1. CASE u = s
      <4>1. rec.ver = clock + 1 /\ Target(u)' \in Row
        BY <2>3, <3>1, <1>2 DEF Target
      <4>2. ver[Target(u)'] <= clock /\ \A j \in Items : item[j].ver <= clock
        BY <4>1 DEF FullInv, VersionInv
      <4> QED BY <3>1, <4>1, <4>2, <1>1, <1>2, <1>3, <1>5
    <3>2. CASE u # s
      <4>1. tx'[u] = tx[u] /\ Target(u)' = Target(u)
        BY <3>2, <1>2 DEF Target
      <4> QED BY <2>3, <4>1, <1>1, <1>5 DEF FullInv, VersionInv
    <3> QED BY <3>1, <3>2
  <2>4. \A j \in Items' :
           item'[j].ver = ver'[item'[j].row] /\ kind'[item'[j].row] # "absent" =>
               kind'[item'[j].row] = IF item'[j].out = "null" THEN "null" ELSE "text"
    BY <1>1, <1>5 DEF FullInv, VersionInv
  <2> QED BY <2>1, <2>2, <2>3, <2>4 DEF VersionInv
<1>7. ColumnInv'
  BY <1>1 DEF FullInv, ColumnInv
<1> QED BY <1>4, <1>6, <1>7 DEF TextInv

\* INSERT, UPDATE and DELETE, of the key too.
LEMMA DmlText ==
    ASSUME FullInv, NEW s \in Session, NEW r \in Row, NEW d \in Row, NEW k \in Kind,
           Insert(s, r, k) \/ Update(s, r, k) \/ Delete(s, r) \/ Rekey(s, r, d)
    PROVE  TextInv'
<1>1. clock \in Version /\ kind[r] \in Kind /\ 0 \in Version
  BY BoundsAssumption DEF FullInv, Inv, TypeOK, Version
<1>2. CASE Insert(s, r, k)
  <2> DEFINE rec == [op |-> "insert", row |-> r, dst |-> NoRow, kind |-> k, ver |-> clock + 1]
  <2>1. clock + 1 \in Version
    BY <1>1, <1>2, BoundsAssumption DEF Insert, Statement, Version
  <2>2. rec \in Tx
    BY <2>1 DEF Tx, TxOp
  <2> QED BY <1>2, <2>2, StatementText DEF Insert
<1>3. CASE Update(s, r, k)
  <2> DEFINE rec == [op |-> "update", row |-> r, dst |-> NoRow, kind |-> k, ver |-> clock + 1]
  <2>1. clock + 1 \in Version
    BY <1>1, <1>3, BoundsAssumption DEF Update, Statement, Version
  <2>2. rec \in Tx
    BY <2>1 DEF Tx, TxOp
  <2> QED BY <1>3, <2>2, StatementText DEF Update
<1>4. CASE Delete(s, r)
  <2> DEFINE rec == [op |-> "delete", row |-> r, dst |-> NoRow, kind |-> "absent", ver |-> 0]
  <2>1. rec \in Tx
    BY <1>1 DEF Tx, TxOp, Kind
  <2> QED BY <1>4, <2>1, StatementText DEF Delete
<1>5. CASE Rekey(s, r, d)
  <2> DEFINE rec == [op |-> "rekey", row |-> r, dst |-> d, kind |-> kind[r], ver |-> clock + 1]
  <2>1. clock + 1 \in Version
    BY <1>1, <1>5, BoundsAssumption DEF Rekey, Statement, Version
  <2>2. rec \in Tx
    BY <1>1, <2>1 DEF Tx, TxOp
  <2> QED BY <1>5, <2>2, StatementText DEF Rekey
<1> QED BY <1>2, <1>3, <1>4, <1>5

\* A commit changes only keys its transaction holds the locks of.
LEMMA CommitRowsAt ==
    ASSUME FullInv, NEW s \in Session, Commit(s)
    PROVE  /\ Target(s) \in Row /\ tx[s].row \in Row
           /\ kind'[Target(s)] = tx[s].kind /\ ver'[Target(s)] = tx[s].ver
           /\ vec'[Target(s)] = CASE tx[s].op = "update" -> vec[Target(s)]
                                  [] tx[s].op = "rekey" ->
                                       IF vec[tx[s].row] = ver[tx[s].row]
                                       THEN tx[s].ver ELSE vec[tx[s].row]
                                  [] OTHER -> NoVec
           /\ tx[s].row # Target(s) => /\ kind'[tx[s].row] = "absent"
                                       /\ ver'[tx[s].row] = 0 /\ vec'[tx[s].row] = NoVec
           /\ \A r \in Row \ {Target(s), tx[s].row} :
                 kind'[r] = kind[r] /\ ver'[r] = ver[r] /\ vec'[r] = vec[r]
<1>1. tx[s].row \in Row /\ Target(s) \in Row
  BY DEF Commit, FullInv, Inv, TxInv, Target
<1> QED BY <1>1 DEF Commit, CommitRows

\* COMMIT.
LEMMA CommitText ==
    ASSUME FullInv, NEW s \in Session, Commit(s)
    PROVE  TextInv'
<1> DEFINE n == Target(s)
           o == tx[s].row
<1>1. /\ n \in Row /\ o \in Row
      /\ kind'[n] = tx[s].kind /\ ver'[n] = tx[s].ver
      /\ o # n => kind'[o] = "absent" /\ ver'[o] = 0 /\ vec'[o] = NoVec
      /\ \A r \in Row \ {n, o} : kind'[r] = kind[r] /\ ver'[r] = ver[r] /\ vec'[r] = vec[r]
  BY CommitRowsAt
<1>2. tx' = [tx EXCEPT ![s] = NoTx] /\ UNCHANGED <<clock, reg, item>> /\ tx[s].op # "none"
  BY DEF Commit
<1>3. tx \in [Session -> Tx] /\ tx[s].op \in {"insert", "update", "delete", "rekey"}
  BY <1>2 DEF FullInv, Inv, TypeOK, Tx, TxOp
<1>4. tx'[s] = NoTx /\ \A u \in Session \ {s} : tx'[u] = tx[u] /\ Target(u)' = Target(u)
  BY <1>2, <1>3 DEF Target
<1>5. ASSUME NEW u \in Session \ {s}, tx[u].op # "none"
      PROVE  /\ tx[u].row \in Row \ {n, o} /\ Target(u) \in Row \ {n, o}
             /\ tx[u].op = "rekey" => tx[u].dst \in Row \ {n, o}
  <2>1. {n, o} \subseteq Touched(s)
    BY <1>1, NoRowAssumption DEF Touched, Target
  <2>2. Touched(u) \intersect Touched(s) = {}
    BY DEF FullInv, Inv, TxInv
  <2>3. tx[u].row \in Row /\ (tx[u].op = "rekey" => tx[u].dst \in Row)
    BY <1>5 DEF FullInv, Inv, TxInv
  <2>4. tx[u].row \in Touched(u) /\ (tx[u].op = "rekey" => tx[u].dst \in Touched(u))
    BY <2>3, NoRowAssumption DEF Touched
  <2> QED BY <2>1, <2>2, <2>3, <2>4 DEF Target
<1>6. /\ tx[s].op = "delete" => tx[s].kind = "absent" /\ tx[s].ver = 0
      /\ tx[s].op # "delete" => tx[s].kind # "absent" /\ tx[s].ver # 0 /\ tx[s].ver <= clock
      /\ tx[s].op \in {"update", "rekey"} => kind[o] # "absent"
  BY <1>3 DEF FullInv, IntentInv
<1>7. clock \in Nat /\ Items' = Items /\ \A j \in Items : item[j].row \in Row
  BY <1>2, BoundsAssumption DEF FullInv, Inv, TypeOK, Version, Items, WorkerInv
<1>8. \A r \in Row : ver[r] <= clock /\ (kind[r] = "absent" <=> ver[r] = 0)
  BY DEF FullInv, VersionInv
<1>9. IntentInv'
  BY <1>1, <1>2, <1>4, <1>5 DEF FullInv, IntentInv, NoTx
<1>10. VersionInv'
  <2>1. ASSUME NEW r \in Row
        PROVE  ver'[r] <= clock' /\ (kind'[r] = "absent" <=> ver'[r] = 0)
    <3>1. CASE r = n
      BY <3>1, <1>1, <1>2, <1>3, <1>6, <1>7
    <3>2. CASE r = o /\ o # n
      BY <3>2, <1>1, <1>2, <1>7
    <3>3. CASE r \notin {n, o}
      BY <3>3, <1>1, <1>2, <1>8
    <3> QED BY <3>1, <3>2, <3>3
  <2>2. \A j \in Items' : item'[j].ver <= clock'
    BY <1>2, <1>7 DEF FullInv, VersionInv
  <2>3. ASSUME NEW u \in Session, tx'[u].op \in {"insert", "update", "rekey"}
        PROVE  /\ tx'[u].ver # ver'[Target(u)']
               /\ \A j \in Items' : item'[j].row = Target(u)' => item'[j].ver # tx'[u].ver
    <3>1. u # s /\ tx[u].op \in {"insert", "update", "rekey"}
      BY <2>3, <1>4 DEF NoTx
    <3>2. Target(u) \in Row \ {n, o} /\ tx'[u] = tx[u] /\ Target(u)' = Target(u)
      BY <3>1, <1>4, <1>5
    <3>3. ver'[Target(u)'] = ver[Target(u)]
      BY <3>2, <1>1
    <3> QED BY <3>1, <3>2, <3>3, <1>2, <1>7 DEF FullInv, VersionInv
  <2>4. ASSUME NEW j \in Items,
               item[j].ver = ver'[item[j].row], kind'[item[j].row] # "absent"
        PROVE  kind'[item[j].row] = IF item[j].out = "null" THEN "null" ELSE "text"
    <3>1. item[j].row # o \/ o = n
      BY <2>4, <1>1
    <3>2. CASE item[j].row = n
      <4>1. tx[s].op \in {"insert", "update", "rekey"}
        BY <3>2, <2>4, <1>1, <1>3, <1>6
      <4>2. item[j].ver # tx[s].ver
        BY <3>2, <4>1 DEF FullInv, VersionInv
      <4> QED BY <3>2, <4>2, <2>4, <1>1
    <3>3. CASE item[j].row \notin {n, o}
      BY <3>3, <2>4, <1>1, <1>7 DEF FullInv, VersionInv
    <3> QED BY <3>1, <3>2, <3>3
  <2> QED BY <2>1, <2>2, <2>3, <2>4, <1>2, <1>7 DEF VersionInv
<1>11. ColumnInv'
  <2> SUFFICES ASSUME ~reg.col, NEW r \in Row PROVE vec'[r] = NoVec
    BY <1>2 DEF ColumnInv
  <2>1. \A x \in Row : vec[x] = NoVec
    BY DEF FullInv, ColumnInv
  <2>2. tx[s].op = "rekey" => vec[o] # ver[o]
    BY <2>1, <1>1, <1>6, <1>8 DEF NoVec
  <2>3. vec'[n] = NoVec
    BY <2>1, <2>2, <1>1, <1>3, CommitRowsAt
  <2> QED BY <2>1, <2>3, <1>1
<1> QED BY <1>9, <1>10, <1>11 DEF TextInv

\* ROLLBACK.
LEMMA RollbackText ==
    ASSUME FullInv, NEW s \in Session, Rollback(s)
    PROVE  TextInv'
<1>1. tx' = [tx EXCEPT ![s] = NoTx] /\ UNCHANGED <<kind, ver, vec, clock, reg, item>>
  BY DEF Rollback
<1>2. tx \in [Session -> Tx]
  BY DEF FullInv, Inv, TypeOK
<1>3. tx'[s] = NoTx /\ \A u \in Session \ {s} : tx'[u] = tx[u] /\ Target(u)' = Target(u)
  BY <1>1, <1>2 DEF Target
<1>4. IntentInv'
  BY <1>1, <1>3 DEF FullInv, IntentInv, NoTx
<1>5. VersionInv'
  BY <1>1, <1>3 DEF FullInv, VersionInv, NoTx, Items
<1>6. ColumnInv'
  BY <1>1 DEF FullInv, ColumnInv
<1> QED BY <1>4, <1>5, <1>6 DEF TextInv

\* TRUNCATE and set_format(), with no open transaction.
LEMMA TableText ==
    ASSUME FullInv, Truncate \/ SetFormat
    PROVE  TextInv'
<1>1. /\ clock' = clock + 1 /\ clock \in Nat /\ tx' = tx /\ UNCHANGED <<reg, item>>
      /\ \A u \in Session : tx[u].op = "none"
  BY BoundsAssumption DEF FullInv, Inv, TypeOK, Version, Truncate, SetFormat, NoOpenTx
<1>2. ASSUME NEW r \in Row
      PROVE  /\ ver'[r] <= clock' /\ (kind'[r] = "absent" <=> ver'[r] = 0)
             /\ kind'[r] # "absent" => ver'[r] = clock + 1
             /\ vec'[r] = NoVec \/ vec'[r] = vec[r]
  <2>1. CASE Truncate
    BY <2>1, <1>1 DEF Truncate
  <2>2. CASE SetFormat
    <3>1. ver[r] <= clock /\ (kind[r] = "absent" <=> ver[r] = 0) /\ ver[r] \in Nat
      BY BoundsAssumption DEF FullInv, VersionInv, Inv, TypeOK, Version
    <3>2. /\ kind' = kind /\ vec' = vec
          /\ ver'[r] = IF kind[r] # "absent" THEN clock + 1 ELSE ver[r]
      BY <2>2 DEF SetFormat
    <3> QED BY <3>1, <3>2, <1>1
  <2> QED BY <2>1, <2>2
<1>3. \A j \in Items : item[j].ver <= clock /\ item[j].ver \in Nat /\ item[j].row \in Row
  BY BoundsAssumption DEF FullInv, VersionInv, Inv, TypeOK, Item, Version, WorkerInv, Items
<1>4. Items' = Items
  BY <1>1 DEF Items
<1>5. IntentInv'
  BY <1>1 DEF IntentInv
<1>6. VersionInv'
  <2>1. \A j \in Items : item[j].ver <= clock' /\ item[j].ver # clock + 1
    BY <1>1, <1>3
  <2> QED BY <2>1, <1>1, <1>2, <1>3, <1>4 DEF VersionInv
<1>7. ColumnInv'
  BY <1>1, <1>2 DEF FullInv, ColumnInv
<1> QED BY <1>5, <1>6, <1>7 DEF TextInv

\* The worker's steps: an item stays what it was, or was read just now.
LEMMA BatchText ==
    ASSUME FullInv, UNCHANGED <<kind, ver, clock, tx>>, ColumnInv',
           \A j \in Items' :
              \/ /\ j \in Items
                 /\ item'[j].row = item[j].row /\ item'[j].ver = item[j].ver
                 /\ item'[j].out = "null" <=> item[j].out = "null"
              \/ /\ item'[j].row \in Row /\ item'[j].ver = ver[item'[j].row]
                 /\ kind[item'[j].row] # "large"
                 /\ item'[j].out = "null" <=> kind[item'[j].row] # "text"
    PROVE  TextInv'
<1>1. IntentInv'
  BY DEF FullInv, IntentInv
<1>2. \A u \in Session : Target(u)' = Target(u)
  BY DEF Target
<1>3. \A r \in Row : ver'[r] <= clock' /\ (kind'[r] = "absent" <=> ver'[r] = 0)
  BY DEF FullInv, VersionInv
<1>4. \A j \in Items' : item'[j].ver <= clock'
  BY <1>3 DEF FullInv, VersionInv
<1>5. ASSUME NEW u \in Session, tx[u].op \in {"insert", "update", "rekey"}
      PROVE  /\ tx[u].ver # ver[Target(u)]
             /\ \A j \in Items' : item'[j].row = Target(u) => item'[j].ver # tx[u].ver
  BY <1>5 DEF FullInv, VersionInv
<1>6. ASSUME NEW j \in Items', item'[j].ver = ver[item'[j].row], kind[item'[j].row] # "absent"
      PROVE  kind[item'[j].row] = IF item'[j].out = "null" THEN "null" ELSE "text"
  <2>1. CASE /\ j \in Items
             /\ item'[j].row = item[j].row /\ item'[j].ver = item[j].ver
             /\ item'[j].out = "null" <=> item[j].out = "null"
    BY <2>1, <1>6, ZenonT(60), SMTT(20) DEF FullInv, VersionInv
  <2>2. CASE /\ item'[j].row \in Row /\ item'[j].ver = ver[item'[j].row]
             /\ kind[item'[j].row] # "large"
             /\ item'[j].out = "null" <=> kind[item'[j].row] # "text"
    <3>1. kind[item'[j].row] \in Kind
      BY <2>2 DEF FullInv, Inv, TypeOK
    <3> QED BY <2>2, <3>1, <1>6 DEF Kind
  <2> QED BY <2>1, <2>2
<1>7. VersionInv'
  BY <1>2, <1>3, <1>4, <1>5, <1>6 DEF VersionInv
<1> QED BY <1>1, <1>7 DEF TextInv

\* Finishing items keeps what the others say.
LEMMA DoneText ==
    ASSUME FullInv, Done(wk.txn), UNCHANGED <<kind, ver, clock, tx>>, ColumnInv'
    PROVE  TextInv'
<1>1. \A j \in Items' : j \in Items /\ item'[j] = item[j]
  BY DEF Done, Items, NoItem
<1> QED BY <1>1, BatchText

\* Every step of the worker.
LEMMA WorkerText ==
    ASSUME FullInv, WorkerStep
    PROVE  TextInv'
<1>1. ASSUME NEW K \in SUBSET JobId, NEW C \in SUBSET JobId, NEW D \in SUBSET JobId,
             Claim(K, C, D)
      PROVE  TextInv'
  <2> DEFINE q == Reclaimed(K)
             large == {j \in C : kind[q[j].row] = "large"}
             batch == C \ (large \union D)
  <2>1. /\ C \subseteq Pending(q)
        /\ \A j \in JobId :
              /\ j \in batch => /\ item'[j].row = q[j].row
                                /\ item'[j].ver = ver[q[j].row]
                                /\ item'[j].out = IF kind[q[j].row] = "text"
                                                  THEN "read" ELSE "null"
              /\ j \notin batch => item'[j] = NoItem
    BY <1>1, ClaimFacts DEF FullInv
  <2>2. QueueInv(q)
    BY <1>1, ReclaimedFacts DEF FullInv
  <2>3. UNCHANGED <<kind, ver, vec, clock, tx, reg>>
    BY <1>1 DEF Claim
  <2> HIDE DEF q
  <2>4. \A j \in batch : q[j].row \in Row /\ j \in JobId
    BY <2>1, <2>2 DEF QueueInv, Pending, InState
  <2>5. Items' \subseteq batch
    BY <2>1 DEF Items, NoItem
  <2>6. ASSUME NEW j \in Items'
        PROVE  /\ item'[j].row \in Row /\ item'[j].ver = ver[item'[j].row]
               /\ kind[item'[j].row] # "large"
               /\ item'[j].out = "null" <=> kind[item'[j].row] # "text"
    BY <2>1, <2>4, <2>5
  <2>7. ColumnInv'
    BY <2>3 DEF FullInv, ColumnInv
  <2> QED BY <2>3, <2>6, <2>7, BatchText
<1>2. CASE Embed
  <2> DEFINE S == {j \in Items : item[j].out = "read"}
  <2>1. PICK f \in [S -> {"ok", "dead", "retry"}] :
           item' = [j \in JobId |->
                      IF j \in DOMAIN f THEN [item[j] EXCEPT !.out = f[j]] ELSE item[j]]
    BY <1>2, ZenonT(60), SMTT(20) DEF Embed
  <2>2. item \in [JobId -> Item] /\ S \subseteq JobId
    BY DEF FullInv, Inv, TypeOK, Items
  <2>3. \A j \in JobId :
           /\ item'[j].row = item[j].row /\ item'[j].ver = item[j].ver
           /\ j \in S => item'[j].out \in {"ok", "dead", "retry"}
           /\ j \notin S => item'[j].out = item[j].out
    BY <2>1, <2>2 DEF Item
  <2>4. \A j \in Items' : /\ j \in Items
                          /\ item'[j].row = item[j].row /\ item'[j].ver = item[j].ver
                          /\ item'[j].out = "null" <=> item[j].out = "null"
    BY <2>3 DEF Items
  <2>5. UNCHANGED <<kind, ver, clock, tx>> /\ ColumnInv'
    BY <1>2 DEF Embed, FullInv, ColumnInv
  <2> QED BY <2>4, <2>5, BatchText
<1>3. CASE WriteBack
  <2>1. Done(wk.txn) /\ UNCHANGED <<kind, ver, clock, tx>> /\ reg.col /\ reg' = reg
    BY <1>3 DEF WriteBack
  <2> QED BY <2>1, DoneText DEF ColumnInv
<1>4. CASE WriteNothing \/ Release \/ ReleaseAborts
  <2>1. Done(wk.txn) /\ UNCHANGED <<kind, ver, vec, clock, tx, reg>>
    BY <1>4 DEF WriteNothing, Release, ReleaseAborts
  <2>2. ColumnInv'
    BY <2>1 DEF FullInv, ColumnInv
  <2> QED BY <2>1, <2>2, DoneText
<1>5. ASSUME NEW id, Quarantine(id)
      PROVE  UNCHANGED <<kind, ver, clock, tx>> /\ ColumnInv'
  <2>1. UNCHANGED <<kind, ver, vec, clock, tx>> /\ ~reg.col
    BY <1>5 DEF Quarantine
  <2> QED BY <2>1 DEF FullInv, ColumnInv
<1>6. CASE WriteQuarantines
  BY <1>5, <1>6, DoneText DEF WriteQuarantines
<1>7. CASE ClaimQuarantines
  <2>1. UNCHANGED <<kind, ver, clock, tx>> /\ ColumnInv' /\ item' = item
    BY <1>5, <1>7 DEF ClaimQuarantines
  <2>2. Items' = Items
    BY <2>1 DEF Items
  <2> QED BY <2>1, <2>2, BatchText
<1>8. CASE WriteAborts \/ ApplyLoad \/ \E j \in JobId : RowLoad(j)
  <2>1. UNCHANGED <<kind, ver, vec, clock, tx, reg, item>>
    BY <1>8, ZenonT(60), SMTT(20) DEF WriteAborts, ApplyLoad, RowLoad, LoadEntry
  <2>2. Items' = Items /\ ColumnInv'
    BY <2>1 DEF Items, FullInv, ColumnInv
  <2> QED BY <2>1, <2>2, BatchText, ZenonT(60), SMTT(20)
<1>9. CASE Crash
  <2>1. UNCHANGED <<kind, ver, vec, clock, tx, reg>> /\ Items' = {}
    BY <1>9 DEF Crash, Items, NoItem
  <2>2. ColumnInv'
    BY <2>1 DEF FullInv, ColumnInv
  <2> QED BY <2>1, <2>2, BatchText
<1> QED BY <1>1, <1>2, <1>3, <1>4, <1>6, <1>7, <1>8, <1>9 DEF WorkerStep, ClaimStep

\* FullInv is inductive.
LEMMA FullStep == FullInv /\ [Next]_vars => FullInv'
<1> SUFFICES ASSUME FullInv, [Next]_vars PROVE TextInv'
  BY NextInv DEF FullInv, TextInv
<1>1. ASSUME NEW s \in Session, UserStep(s) PROVE TextInv'
  <2>1. ASSUME NEW r \in Row, NEW k \in Kind, Insert(s, r, k) \/ Update(s, r, k) PROVE TextInv'
    BY <2>1, DmlText
  <2>2. "text" \in Kind
    BY DEF Kind
  <2>3. ASSUME NEW r \in Row, Delete(s, r) PROVE TextInv'
    BY <2>2, <2>3, DmlText
  <2>4. ASSUME NEW r \in Row, NEW d \in Row, Rekey(s, r, d) PROVE TextInv'
    BY <2>2, <2>4, DmlText
  <2> QED BY <1>1, <2>1, <2>3, <2>4, CommitText, RollbackText DEF UserStep
<1>2. ASSUME UNCHANGED <<kind, ver, clock, tx, item>>, ColumnInv' PROVE TextInv'
  <2>1. Items' = Items
    BY <1>2 DEF Items
  <2> QED BY <1>2, <2>1, BatchText
<1>3. CASE Manage
  <2>1. ASSUME NEW R \in SUBSET Row, RetryDead(R) PROVE TextInv'
    <3>1. UNCHANGED <<kind, ver, vec, clock, tx, item, reg>>
      BY <2>1 DEF RetryDead
    <3> QED BY <3>1, <1>2 DEF FullInv, ColumnInv
  <2>2. CASE Disable
    <3>1. UNCHANGED <<kind, ver, vec, clock, tx, item>> /\ reg'.col = reg.col
      BY <2>2 DEF Disable, FullInv, Inv, TypeOK, Registry
    <3> QED BY <3>1, <1>2 DEF FullInv, ColumnInv
  <2>3. CASE DropColumn
    <3>1. UNCHANGED <<kind, ver, clock, tx, item>> /\ \A r \in Row : vec'[r] = NoVec
      BY <2>3 DEF DropColumn
    <3> QED BY <3>1, <1>2 DEF ColumnInv
  <2>4. CASE Enable
    <3>1. UNCHANGED <<kind, ver, clock, tx, item>> /\ reg'.col
      BY <2>4 DEF Enable
    <3> QED BY <3>1, <1>2 DEF ColumnInv
  <2> QED BY <1>3, <2>1, <2>2, <2>3, <2>4, TableText DEF Manage
<1>4. ASSUME NEW j \in JobId, Expire(j) PROVE TextInv'
  <2>1. UNCHANGED <<kind, ver, vec, clock, tx, item, reg>>
    BY <1>4 DEF Expire
  <2> QED BY <2>1, <1>2 DEF FullInv, ColumnInv
<1>5. CASE UNCHANGED vars
  <2>1. UNCHANGED <<kind, ver, vec, clock, tx, item, reg>>
    BY <1>5 DEF vars
  <2> QED BY <2>1, <1>2 DEF FullInv, ColumnInv
<1> QED BY <1>1, <1>3, <1>4, <1>5, WorkerText DEF Next

\* The state after enable() satisfies FullInv.
LEMMA InitFull == Init => FullInv
<1> SUFFICES ASSUME Init PROVE TextInv
  BY InitInv DEF FullInv, TextInv
<1>1. Items = {} /\ \A s \in Session : tx[s].op = "none"
  BY DEF Init, Items, NoItem, NoTx
<1>2. \A r \in Row : ver[r] <= clock /\ (kind[r] = "absent" <=> ver[r] = 0)
  BY DEF Init
<1>3. ColumnInv
  BY DEF Init, ColumnInv
<1> QED BY <1>1, <1>2, <1>3 DEF TextInv, IntentInv, VersionInv

\* In every reachable state of the queue, versions name texts: an item with
\* the version of its row was read from the row's text, and no open
\* transaction brings a version that an item has.
THEOREM FullInvariance == Spec => []FullInv
BY InitFull, FullStep, PTL DEF Spec

-----------------------------------------------------------------------------
(***************************************************************************)
(* What tracks a key.                                                      *)
(***************************************************************************)

\* The ways in which a present key of a healthy entry is tracked.
Accounted(r) ==
    \/ \E j \in JobId : job[j].st = "pending" /\ job[j].row = r
    \/ r \in dead
    \/ \E j \in JobId : job[j].st \in {"claimed", "stale"} /\ job[j].row = r /\ j \notin Items
    \/ wk.reg = reg.id /\ \E j \in Items : item[j].row = r /\ item[j].ver = ver[r]
    \/ Current(r) /\ \A j \in Writers(r) : kind[r] = "null" /\ item[j].out = "null"

LEMMA TrackedCases ==
    ASSUME NEW r \in Row, Tracked(r), Healthy, kind[r] # "absent"
    PROVE  Accounted(r)
<1>1. r \in PendingRows(job) => \E j \in JobId : job[j].st = "pending" /\ job[j].row = r
  BY ZenonT(60), SMTT(20) DEF PendingRows, RowsOf, Pending, InState
<1>2. r \in RowsOf(job, InFlight(job) \ Items) =>
         \E j \in JobId : job[j].st \in {"claimed", "stale"} /\ job[j].row = r /\ j \notin Items
  BY ZenonT(60), SMTT(20) DEF RowsOf, InFlight, InState
<1>3. (\E j \in Writers(r) : wk.reg = reg.id /\ item[j].ver = ver[r]) =>
         wk.reg = reg.id /\ \E j \in Items : item[j].row = r /\ item[j].ver = ver[r]
  BY ZenonT(60), SMTT(20) DEF Writers
<1> QED BY <1>1, <1>2, <1>3, ZenonT(60), SMTT(20) DEF Tracked, Accounted

\* A step after which a key is tracked: one lemma for each way.
LEMMA TrackedOut ==
    ASSUME NEW r \in Row, ~Healthy' \/ kind'[r] = "absent"
    PROVE  Tracked(r)'
BY ZenonT(60), SMTT(20) DEF Tracked

LEMMA TrackedByJob ==
    ASSUME NEW r \in Row, NEW j \in JobId, job'[j].st = "pending", job'[j].row = r
    PROVE  Tracked(r)'
<1>1. r \in PendingRows(job)'
  BY DEF PendingRows, RowsOf, Pending, InState
<1> QED BY <1>1, ZenonT(60), SMTT(20) DEF Tracked

LEMMA TrackedByDead ==
    ASSUME NEW r \in Row, r \in dead'
    PROVE  Tracked(r)'
BY ZenonT(60), SMTT(20) DEF Tracked

LEMMA TrackedByClaim ==
    ASSUME NEW r \in Row, NEW j \in JobId, job'[j].st \in {"claimed", "stale"},
           job'[j].row = r, j \notin Items'
    PROVE  Tracked(r)'
<1>1. r \in RowsOf(job, InFlight(job) \ Items)'
  BY DEF RowsOf, InFlight, InState
<1> QED BY <1>1, ZenonT(60), SMTT(20) DEF Tracked

LEMMA TrackedByItem ==
    ASSUME NEW r \in Row, NEW j \in Items', wk'.reg = reg'.id,
           item'[j].row = r, item'[j].ver = ver'[r]
    PROVE  Tracked(r)'
<1>1. j \in Writers(r)'
  BY DEF Writers
<1> QED BY <1>1, ZenonT(60), SMTT(20) DEF Tracked

LEMMA TrackedByVector ==
    ASSUME NEW r \in Row, Current(r)',
           \A j \in Writers(r)' : kind'[r] = "null" /\ item'[j].out = "null"
    PROVE  Tracked(r)'
BY ZenonT(60), SMTT(20) DEF Tracked

LEMMA TrackedNext ==
    ASSUME NEW r \in Row, Accounted(r)'
    PROVE  Tracked(r)'
BY TrackedByJob, TrackedByDead, TrackedByClaim, TrackedByItem, TrackedByVector, ZenonT(60), SMTT(20)
   DEF Accounted

\* A step that changes neither the row nor the batch, and keeps pending jobs
\* pending and claims claimed.
LEMMA KeyFrame ==
    ASSUME NEW r \in Row, Tracked(r), UNCHANGED <<reg, wk, item>>,
           kind'[r] = kind[r], ver'[r] = ver[r], vec'[r] = vec[r],
           r \in dead => \/ r \in dead'
                         \/ \E j \in JobId : job'[j].st = "pending" /\ job'[j].row = r,
           \A j \in JobId :
              /\ job[j].st = "pending" => job'[j].st = "pending" /\ job'[j].row = job[j].row
              /\ job[j].st \in {"claimed", "stale"} =>
                    job'[j].st \in {"claimed", "stale"} /\ job'[j].row = job[j].row
    PROVE  Tracked(r)'
<1>1. Items' = Items /\ Writers(r)' = Writers(r) /\ (Healthy' <=> Healthy)
      /\ (Current(r)' <=> Current(r))
  BY DEF Items, Writers, Healthy, Current
<1>2. CASE ~Healthy \/ kind[r] = "absent"
  <2>1. ~Healthy' \/ kind'[r] = "absent"
    BY <1>1, <1>2, ZenonT(60), SMTT(20)
  <2> QED BY <2>1, TrackedOut, ZenonT(60), SMTT(20)
<1>3. CASE Healthy /\ kind[r] # "absent"
  <2>1. Accounted(r)
    BY <1>3, TrackedCases, ZenonT(60), SMTT(20)
  <2>2. Accounted(r)'
    BY <2>1, <1>1, ZenonT(60), SMTT(20) DEF Accounted
  <2> QED BY <2>2, TrackedNext, ZenonT(60), SMTT(20)
<1> QED BY <1>2, <1>3

-----------------------------------------------------------------------------
(***************************************************************************)
(* Users and management calls.                                             *)
(***************************************************************************)

\* INSERT, UPDATE, DELETE and ROLLBACK add or remove uncommitted jobs only.
LEMMA OpenTracked ==
    ASSUME FullInv, NEW s \in Session, NEW r \in Row, Tracked(r),
           \/ \E rec, R : Statement(s, rec, R)
           \/ Rollback(s)
    PROVE  Tracked(r)'
<1>1. UNCHANGED <<kind, ver, vec, dead, reg, wk, item>>
  BY DEF Statement, Rollback
<1>2. \A j \in JobId : job[j].st \in {"pending", "claimed", "stale"} => job'[j] = job[j]
  <2>1. ASSUME NEW rec, NEW R, Statement(s, rec, R)
        PROVE  \A j \in JobId : job[j].st # "free" => job'[j] = job[j]
    <3> DEFINE N == IF reg.state = "disabled" THEN {} ELSE NotPending(job, R)
    <3>1. PICK g \in NewJobs(N, FreeIds) : job' = Inserted(job, g, "open")
      BY <2>1 DEF Statement, Enqueue
    <3>2. DOMAIN g \subseteq FreeIds
      BY NewJobsAt
    <3>3. \A j \in JobId : j \notin DOMAIN g => job'[j] = job[j]
      BY <3>1, InsertedAt
    <3> QED BY <3>2, <3>3, ZenonT(60), SMTT(20) DEF FreeIds
  <2>2. CASE Rollback(s)
    BY <2>2, DeletedAt DEF Rollback, OwnJobs, InState
  <2> QED BY <2>1, <2>2, ZenonT(60), SMTT(20)
<1> QED BY <1>1, <1>2, KeyFrame

\* COMMIT: the target has its own job, unless the commit is overtaken.
LEMMA CommitTracked ==
    ASSUME FullInv, NEW s \in Session, Commit(s), NEW r \in Row, Tracked(r)
    PROVE  Tracked(r)' \/ Overtaken(s, r)
<1> DEFINE n == Target(s)
           o == tx[s].row
<1>1. job \in [JobId -> Job] /\ tx \in [Session -> Tx]
  BY DEF FullInv, Inv, TypeOK
<1>2. \A j \in JobId :
         /\ j \in OwnJobs(s) => /\ job[j].st = "open" /\ job'[j].st = "pending"
                                /\ job'[j].row = job[j].row /\ job[j].row = n
         /\ j \notin OwnJobs(s) => job'[j] = job[j]
  BY <1>1 DEF Commit, OwnJobs, InState, Job
<1>3. UNCHANGED <<dead, reg, wk, item>> /\ tx'[s] = NoTx /\ tx[s].op # "none"
  BY <1>1 DEF Commit
<1>4. /\ kind'[n] = tx[s].kind
      /\ tx[s].op = "insert" => vec'[n] = NoVec
      /\ o # n => kind'[o] = "absent"
      /\ \A x \in Row \ {n, o} : kind'[x] = kind[x] /\ ver'[x] = ver[x] /\ vec'[x] = vec[x]
  BY CommitRowsAt
<1>5. CASE r = n
  <2>1. ASSUME NEW j \in OwnJobs(s) PROVE Tracked(r)'
    <3>1. j \in JobId
      BY DEF OwnJobs, InState
    <3>2. job'[j].st = "pending" /\ job'[j].row = r
      BY <3>1, <1>2, <1>5
    <3> QED BY <3>1, <3>2, TrackedByJob, ZenonT(60), SMTT(20)
  <2>0. tx[s].op # "none" /\ tx'[s].op = "none" /\ r = Target(s)
    BY <1>3, <1>5 DEF NoTx
  <2>2. CASE OwnJobs(s) = {} /\ ~(tx[s].op = "insert" /\ tx[s].kind = "null")
    BY <2>0, <2>2 DEF Overtaken
  <2>3. CASE /\ OwnJobs(s) = {} /\ tx[s].op = "insert" /\ tx[s].kind = "null"
             /\ \E j \in Writers(r) : item[j].out # "null"
    BY <2>0, <2>3 DEF Overtaken
  <2>4. CASE /\ tx[s].op = "insert" /\ tx[s].kind = "null"
             /\ \A j \in Writers(r) : item[j].out = "null"
    <3>1. Writers(r)' = Writers(r) /\ kind'[r] = "null" /\ Current(r)'
      BY <2>4, <1>3, <1>4, <1>5, ZenonT(60), SMTT(20) DEF Writers, Items, Current
    <3> QED BY <3>1, <2>4, <1>3, TrackedByVector, ZenonT(60), SMTT(20)
  <2> QED BY <2>1, <2>2, <2>3, <2>4
<1>6. CASE r = o /\ o # n
  BY <1>4, <1>6, TrackedOut, ZenonT(60), SMTT(20)
<1>7. CASE r \notin {n, o}
  <2>1. kind'[r] = kind[r] /\ ver'[r] = ver[r] /\ vec'[r] = vec[r]
    BY <1>4, <1>7
  <2>2. \A j \in JobId :
           /\ job[j].st = "pending" => job'[j].st = "pending" /\ job'[j].row = job[j].row
           /\ job[j].st \in {"claimed", "stale"} =>
                 job'[j].st \in {"claimed", "stale"} /\ job'[j].row = job[j].row
    BY <1>2
  <2> QED BY <2>1, <2>2, <1>3, KeyFrame, ZenonT(60), SMTT(20)
<1> QED BY <1>5, <1>6, <1>7

\* INSERT ... ON CONFLICT DO NOTHING leaves every key of R with a pending job.
LEMMA InsertCovers ==
    ASSUME NEW R, NEW g \in NewJobs(NotPending(job, R), FreeIds),
           job' = Inserted(job, g, "pending"), NEW r \in R
    PROVE  \E j \in JobId : job'[j].st = "pending" /\ job'[j].row = r
<1>1. /\ DOMAIN g \subseteq FreeIds
      /\ \A k \in NotPending(job, R) : \E i \in DOMAIN g : g[i] = k
  BY NewJobsAt
<1>2. FreeIds \subseteq JobId /\ \A j \in FreeIds : job[j].st = "free"
  BY DEF FreeIds
<1>3. CASE r \in PendingRows(job)
  <2>1. PICK j \in JobId : job[j].st = "pending" /\ job[j].row = r
    BY <1>3 DEF PendingRows, RowsOf, Pending, InState
  <2>2. j \notin DOMAIN g
    BY <1>1, <1>2, <2>1
  <2> QED BY <2>1, <2>2, InsertedAt
<1>4. CASE r \in NotPending(job, R)
  <2>1. PICK k \in DOMAIN g : g[k] = r
    BY <1>1, <1>4
  <2>2. k \in JobId
    BY <1>1, <1>2
  <2> QED BY <2>1, <2>2, InsertedAt
<1> QED BY <1>3, <1>4 DEF NotPending

\* Such an INSERT leaves the other jobs alone.
LEMMA InsertKeeps ==
    ASSUME NEW R, NEW g \in NewJobs(NotPending(job, R), FreeIds),
           job' = Inserted(job, g, "pending"), NEW j \in JobId, job[j].st # "free"
    PROVE  job'[j] = job[j]
<1>1. DOMAIN g \subseteq FreeIds
  BY NewJobsAt
<1> QED BY <1>1, InsertedAt DEF FreeIds

\* Management calls: enable() and set_format() queue what they leave stale, and
\* the others take the entry out of service or the rows away.
LEMMA ManageTracked ==
    ASSUME FullInv, Manage, NEW r \in Row, Tracked(r)
    PROVE  Tracked(r)' \/ Resurrected(r)
<1>1. CASE Truncate
  <2>1. kind'[r] = "absent"
    BY <1>1 DEF Truncate
  <2> QED BY <2>1, TrackedOut, ZenonT(60), SMTT(20)
<1>2. CASE Disable \/ DropColumn
  <2>1. ~Healthy'
    BY <1>2 DEF Disable, DropColumn, Healthy, FullInv, Inv, TypeOK, Registry
  <2> QED BY <2>1, TrackedOut, ZenonT(60), SMTT(20)
<1>3. CASE Enable
  <2> DEFINE R == {x \in Row : kind[x] \in {"text", "large"}}
             q == [j \in JobId |-> NoJob]
  <2>1. PICK g \in NewJobs(R, JobId \ Items) : job' = Inserted(q, g, "pending")
    BY <1>3, ZenonT(60), SMTT(20) DEF Enable
  <2>2. UNCHANGED <<kind, ver, vec, wk, item>> /\ ~reg.col /\ reg'.id = reg.id + 1
    BY <1>3 DEF Enable
  <2>3. CASE r \in R
    <3>1. DOMAIN g \subseteq JobId \ Items /\ \A x \in R : \E k \in DOMAIN g : g[k] = x
      BY NewJobsAt
    <3>2. PICK k \in DOMAIN g : g[k] = r
      BY <2>3, <3>1
    <3>3. k \in JobId /\ job'[k].st = "pending" /\ job'[k].row = r
      BY <2>1, <3>1, <3>2, InsertedAt
    <3> QED BY <3>3, TrackedByJob, ZenonT(60), SMTT(20)
  <2>4. CASE kind[r] = "absent"
    BY <2>2, <2>4, TrackedOut, ZenonT(60), SMTT(20)
  <2>5. CASE kind[r] = "null"
    <3>1. vec'[r] = NoVec /\ Current(r)'
      BY <2>2, <2>5 DEF FullInv, ColumnInv, Current
    <3>2. wk.reg \in Nat /\ reg.id \in Nat /\ wk.reg <= reg.id
      BY BoundsAssumption DEF FullInv, Inv, TypeOK, Registry, WorkerInv
    <3>3. wk.reg # reg'.id /\ reg'.id # reg.id
      BY <3>2, <2>2
    <3>4. Writers(r)' \subseteq {j \in Writers(r) : wk.seen}
      BY <3>3, <2>2 DEF Writers, Items
    <3>5. CASE Writers(r)' = {}
      BY <3>1, <3>5, TrackedByVector, ZenonT(60), SMTT(20)
    <3>6. CASE Writers(r)' # {}
      BY <3>3, <3>4, <3>6, <2>5 DEF Resurrected
    <3> QED BY <3>5, <3>6
  <2>6. kind[r] \in Kind
    BY DEF FullInv, Inv, TypeOK
  <2> QED BY <2>3, <2>4, <2>5, <2>6 DEF Kind
<1>4. CASE SetFormat
  <2> DEFINE R == {x \in Row : kind[x] # "absent"}
  <2>1. PICK g \in NewJobs(NotPending(job, R), FreeIds) : job' = Inserted(job, g, "pending")
    BY <1>4 DEF SetFormat
  <2>2. CASE r \in R
    <3>1. \E j \in JobId : job'[j].st = "pending" /\ job'[j].row = r
      BY <2>1, <2>2, InsertCovers
    <3> QED BY <3>1, TrackedByJob, ZenonT(60), SMTT(20)
  <2>3. CASE r \notin R
    <3>1. kind'[r] = "absent"
      BY <1>4, <2>3 DEF SetFormat
    <3> QED BY <3>1, TrackedOut, ZenonT(60), SMTT(20)
  <2> QED BY <2>2, <2>3
<1>5. ASSUME NEW R \in SUBSET Row, RetryDead(R) PROVE Tracked(r)'
  <2>1. PICK g \in NewJobs(NotPending(job, R), FreeIds) : job' = Inserted(job, g, "pending")
    BY <1>5 DEF RetryDead
  <2>2. CASE r \in R
    <3>1. \E j \in JobId : job'[j].st = "pending" /\ job'[j].row = r
      BY <2>1, <2>2, InsertCovers
    <3> QED BY <3>1, TrackedByJob, ZenonT(60), SMTT(20)
  <2>3. CASE r \notin R
    <3>1. UNCHANGED <<kind, ver, vec, reg, wk, item>> /\ (r \in dead => r \in dead')
      BY <1>5, <2>3 DEF RetryDead
    <3>2. \A j \in JobId : job[j].st \in {"pending", "claimed", "stale"} => job'[j] = job[j]
      BY <2>1, InsertKeeps
    <3> QED BY <3>1, <3>2, KeyFrame
  <2> QED BY <2>2, <2>3
<1> QED BY <1>1, <1>2, <1>3, <1>4, <1>5 DEF Manage

-----------------------------------------------------------------------------
(***************************************************************************)
(* The worker.                                                             *)
(***************************************************************************)

\* claim_and_read: a job pending after reclaim_stale is deferred, read into the
\* batch, or over the cap and dead.
LEMMA ClaimTracked ==
    ASSUME FullInv, NEW K \in SUBSET JobId, NEW C \in SUBSET JobId, NEW D \in SUBSET JobId,
           Claim(K, C, D), NEW r \in Row, Tracked(r)
    PROVE  Tracked(r)'
<1> DEFINE q == Reclaimed(K)
           large == {j \in C : kind[q[j].row] = "large"}
           batch == C \ (large \union D)
           spent == Exhausted(job, Stale(job))
           back == Stale(job) \ spent
<1>1. /\ C \subseteq Pending(q) /\ D \subseteq C \ large
      /\ \A j \in JobId :
            /\ j \in large => job'[j] = NoJob
            /\ j \in D => job'[j].st = "pending" /\ job'[j].row = q[j].row
            /\ j \in batch => job'[j].st = "claimed" /\ job'[j].row = q[j].row
            /\ j \notin C => job'[j] = q[j]
            /\ j \in batch => /\ item'[j].row = q[j].row
                              /\ item'[j].ver = ver[q[j].row]
                              /\ item'[j].out = IF kind[q[j].row] = "text"
                                                THEN "read" ELSE "null"
            /\ j \notin batch => item'[j] = NoItem
  BY ClaimFacts, ZenonT(60), SMTT(20) DEF FullInv
<1>2. /\ K \subseteq back
      /\ \A j \in JobId :
            /\ j \in K => q[j].st = "pending" /\ q[j].row = job[j].row
            /\ j \notin Stale(job) => q[j] = job[j]
  BY ReclaimedFacts DEF FullInv
<1>3. /\ UNCHANGED <<kind, ver, vec, reg>> /\ Healthy /\ wk.phase = "idle"
      /\ K \in Survivors(job, back)
      /\ dead' = dead \union RowsOf(job, spent) \union RowsOf(q, large)
      /\ wk' = IF batch = {} THEN Idle
               ELSE [phase |-> "embed", reg |-> reg.id, txn |-> {}, seen |-> FALSE]
  BY ZenonT(60), SMTT(20) DEF Claim, ReadBatch
<1>4. Items' = batch
  <2>1. batch \subseteq JobId
    BY DEF batch
  <2>2. \A j \in JobId : /\ j \in batch => item'[j].out \in {"read", "null"}
                         /\ j \notin batch => item'[j] = NoItem
    BY <1>1
  <2> HIDE DEF batch, large
  <2> QED BY <2>1, <2>2 DEF Items, NoItem
<1>5. wk.txn = {} /\ Items = {} /\ Healthy'
  BY <1>3, ZenonT(60), SMTT(20) DEF FullInv, Inv, WorkerInv, Healthy
<1>6. RowsOf(job, K) = NotPending(job, RowsOf(job, back))
  BY <1>3, ZenonT(60), SMTT(20) DEF Survivors
<1> HIDE DEF q, spent, back
<1>7. ASSUME NEW j \in JobId, q[j].st = "pending", q[j].row = r
      PROVE  Tracked(r)'
  <2>1. CASE j \notin C
    <3>1. job'[j] = q[j]
      BY <2>1, <1>1, ZenonT(60), SMTT(20)
    <3> QED BY <3>1, <1>7, TrackedByJob, ZenonT(60), SMTT(20)
  <2>2. CASE j \in large
    <3>1. r \in dead'
      BY <2>2, <1>3, <1>7, ZenonT(60), SMTT(20) DEF RowsOf
    <3> QED BY <3>1, TrackedByDead, ZenonT(60), SMTT(20)
  <2>3. CASE j \in D
    <3>1. job'[j].st = "pending" /\ job'[j].row = q[j].row
      BY <2>3, <1>1, ZenonT(60), SMTT(20)
    <3> QED BY <3>1, <1>7, TrackedByJob, ZenonT(60), SMTT(20)
  <2>4. CASE j \in batch
    <3>1. wk'.reg = reg'.id /\ j \in Items' /\ item'[j].row = r /\ item'[j].ver = ver'[r]
      BY <2>4, <1>1, <1>3, <1>4, <1>7, ZenonT(60), SMTT(20)
    <3> QED BY <3>1, TrackedByItem, ZenonT(60), SMTT(20)
  <2> QED BY <2>1, <2>2, <2>3, <2>4, ZenonT(60), SMTT(20)
<1>8. ASSUME NEW j \in JobId, job[j].st = "pending", job[j].row = r
      PROVE  Tracked(r)'
  <2>1. q[j] = job[j]
    BY <1>2, <1>8, ZenonT(60), SMTT(20) DEF Stale, InState
  <2> QED BY <2>1, <1>7, <1>8
<1>9. ASSUME NEW j \in JobId, job[j].st = "claimed", job[j].row = r
      PROVE  Tracked(r)'
  <2>1. q[j] = job[j] /\ j \notin C
    BY <1>1, <1>2, <1>9, ZenonT(60), SMTT(20) DEF Stale, Pending, InState
  <2>2. job'[j] = job[j] /\ j \notin Items'
    BY <2>1, <1>1, <1>4, ZenonT(60), SMTT(20)
  <2> QED BY <2>2, <1>9, TrackedByClaim, ZenonT(60), SMTT(20)
<1>10. ASSUME NEW j \in Stale(job), job[j].row = r
       PROVE  Tracked(r)'
  <2>1. CASE j \in spent
    <3>1. r \in dead'
      BY <2>1, <1>3, <1>10, ZenonT(60), SMTT(20) DEF RowsOf
    <3> QED BY <3>1, TrackedByDead, ZenonT(60), SMTT(20)
  <2>2. CASE j \in back
    <3>1. r \in RowsOf(job, back)
      BY <2>2, <1>10 DEF RowsOf
    <3>2. CASE r \in PendingRows(job)
      <4>1. PICK i \in JobId : job[i].st = "pending" /\ job[i].row = r
        BY <3>2 DEF PendingRows, RowsOf, Pending, InState
      <4> QED BY <4>1, <1>8
    <3>3. CASE r \notin PendingRows(job)
      <4>1. r \in RowsOf(job, K)
        BY <3>1, <3>3, <1>6 DEF NotPending
      <4>2. PICK k \in K : job[k].row = r
        BY <4>1 DEF RowsOf
      <4> QED BY <4>2, <1>2, <1>7
    <3> QED BY <3>2, <3>3
  <2> QED BY <2>1, <2>2, ZenonT(60), SMTT(20) DEF back
<1>11. ASSUME Current(r), kind[r] # "absent"
       PROVE  Tracked(r)'
  <2>1. Current(r)'
    BY <1>3, <1>11, ZenonT(60), SMTT(20) DEF Current
  <2>2. CASE \E j \in batch : item'[j].row = r
    <3>1. PICK j \in batch : item'[j].row = r
      BY <2>2, ZenonT(60), SMTT(20)
    <3>2. j \in JobId /\ item'[j].ver = ver'[r] /\ wk'.reg = reg'.id
      BY <3>1, <1>1, <1>3, ZenonT(60), SMTT(20)
    <3> QED BY <3>1, <3>2, <1>4, TrackedByItem, ZenonT(60), SMTT(20)
  <2>3. CASE ~\E j \in batch : item'[j].row = r
    <3>1. Writers(r)' = {}
      BY <2>3, <1>4 DEF Writers
    <3> QED BY <2>1, <3>1, TrackedByVector, ZenonT(60), SMTT(20)
  <2> QED BY <2>2, <2>3
<1>12. CASE kind[r] = "absent" \/ r \in dead
  <2>1. kind'[r] = "absent" \/ r \in dead'
    BY <1>3, <1>12
  <2> QED BY <2>1, TrackedOut, TrackedByDead, ZenonT(60), SMTT(20)
<1>13. CASE kind[r] # "absent" /\ r \notin dead
  <2>1. \/ \E j \in JobId : job[j].st = "pending" /\ job[j].row = r
        \/ \E j \in JobId : job[j].st \in {"claimed", "stale"} /\ job[j].row = r
        \/ Current(r)
    <3>1. Accounted(r)
      BY <1>3, <1>13, TrackedCases, ZenonT(60), SMTT(20)
    <3>2. \A j \in Items : FALSE
      BY <1>5
    <3> QED BY <3>1, <3>2, <1>13, ZenonT(60), SMTT(20) DEF Accounted
  <2>2. \A j \in JobId : job[j].st = "stale" => j \in Stale(job)
    BY ZenonT(60), SMTT(20) DEF Stale, InState
  <2> QED BY <2>1, <2>2, <1>8, <1>9, <1>10, <1>11, <1>13, ZenonT(60), SMTT(20)
<1> QED BY <1>12, <1>13, ZenonT(60), SMTT(20)

\* A quarantine takes the entry out of service, or it has no column.
LEMMA QuarantineTracked ==
    ASSUME FullInv, NEW id, Quarantine(id), NEW r \in Row
    PROVE  Tracked(r)'
<1>1. ~Healthy'
  BY DEF Quarantine, Healthy, FullInv, Inv, TypeOK, Registry
<1> QED BY <1>1, TrackedOut, ZenonT(60), SMTT(20)

\* Steps of the worker's own control: the batch reaches no key it did not
\* reach before.
LEMMA ControlTracked ==
    ASSUME FullInv, Embed \/ WriteAborts \/ ApplyLoad \/ \E j \in JobId : RowLoad(j),
           NEW r \in Row, Tracked(r)
    PROVE  Tracked(r)'
<1>1. UNCHANGED <<kind, ver, vec, job, dead, reg>>
  BY ZenonT(60), SMTT(20) DEF Embed, WriteAborts, ApplyLoad, RowLoad, LoadEntry
<1>2. wk \in [phase: Phase, reg: 0 .. MaxReg, txn: SUBSET JobId, seen: BOOLEAN]
      /\ item \in [JobId -> Item]
  BY DEF FullInv, Inv, TypeOK
<1>3. /\ Items' = Items
      /\ \A j \in Items : /\ item'[j].row = item[j].row /\ item'[j].ver = item[j].ver
                          /\ item[j].out = "null" => item'[j].out = "null"
  <2>1. CASE Embed
    <3> DEFINE S == {j \in Items : item[j].out = "read"}
    <3>1. PICK f \in [S -> {"ok", "dead", "retry"}] :
             item' = [j \in JobId |->
                        IF j \in DOMAIN f THEN [item[j] EXCEPT !.out = f[j]] ELSE item[j]]
      BY <2>1, ZenonT(60), SMTT(20) DEF Embed
    <3>2. S \subseteq JobId /\ Items \subseteq JobId
      BY DEF Items
    <3>3. \A j \in JobId :
             /\ item'[j].row = item[j].row /\ item'[j].ver = item[j].ver
             /\ j \in S => item'[j].out \in {"ok", "dead", "retry"}
             /\ j \notin S => item'[j].out = item[j].out
      BY <3>1, <3>2, <1>2 DEF Item
    <3> QED BY <3>2, <3>3 DEF Items
  <2>2. CASE ~Embed
    <3>1. item' = item
      BY <2>2, ZenonT(60), SMTT(20) DEF WriteAborts, ApplyLoad, RowLoad, LoadEntry
    <3> QED BY <3>1 DEF Items
  <2> QED BY <2>1, <2>2
<1>4. /\ wk'.reg = wk.reg
      /\ \/ wk'.seen = wk.seen /\ wk'.txn = wk.txn
         \/ wk'.seen => wk.reg = reg.id
  <2>1. CASE Embed
    BY <2>1, <1>2 DEF Embed
  <2>2. CASE WriteAborts
    BY <2>2, <1>2 DEF WriteAborts
  <2>3. CASE ApplyLoad \/ \E j \in JobId : RowLoad(j)
    <3>1. PICK to, J : wk' = [wk EXCEPT !.phase = to, !.txn = J, !.seen = EntryLive]
      BY <2>3, ZenonT(60), SMTT(20) DEF ApplyLoad, RowLoad, LoadEntry
    <3>2. wk'.reg = wk.reg /\ wk'.seen = EntryLive
      BY <3>1, <1>2
    <3> QED BY <3>2, ZenonT(60), SMTT(20) DEF EntryLive
  <2> QED BY <2>1, <2>2, <2>3
<1>5. Writers(r)' \subseteq Writers(r)
  BY <1>1, <1>3, <1>4 DEF Writers
<1>6. (Healthy' <=> Healthy) /\ (Current(r)' <=> Current(r)) /\ Writers(r) \subseteq Items
  BY <1>1 DEF Healthy, Current, Writers
<1>7. CASE ~Healthy \/ kind[r] = "absent"
  <2>1. ~Healthy' \/ kind'[r] = "absent"
    BY <1>1, <1>6, <1>7, ZenonT(60), SMTT(20)
  <2> QED BY <2>1, TrackedOut, ZenonT(60), SMTT(20)
<1>8. CASE Healthy /\ kind[r] # "absent"
  <2>1. Accounted(r)
    BY <1>8, TrackedCases, ZenonT(60), SMTT(20)
  <2>2. Accounted(r)'
    BY <2>1, <1>1, <1>3, <1>4, <1>5, <1>6, ZenonT(60), SMTT(20) DEF Accounted
  <2> QED BY <2>2, TrackedNext, ZenonT(60), SMTT(20)
<1> QED BY <1>7, <1>8, ZenonT(60), SMTT(20)

\* The items of J leave the batch: the item that was right for a key leaves
\* something behind, and a right vector is not overwritten.
Leaves(J, r) ==
    /\ kind' = kind /\ ver' = ver /\ reg' = reg /\ dead \subseteq dead'
    /\ Items' = Items \ J
    /\ \A j \in Items' : item'[j] = item[j] /\ wk'.reg = wk.reg /\ ~(wk'.seen /\ j \in wk'.txn)
    /\ \A j \in JobId : j \notin J \intersect Items => job'[j] = job[j]
    /\ \A j \in J \intersect Items :
          EntryLive /\ item[j].row = r /\ item[j].ver = ver[r] =>
             \/ \E i \in JobId : job'[i].st = "pending" /\ job'[i].row = r
             \/ r \in dead'
             \/ job'[j].st \in {"claimed", "stale"} /\ job'[j].row = r
             \/ Current(r)'
    /\ Current(r) /\ (\A j \in Writers(r) : kind[r] = "null" /\ item[j].out = "null")
          => Current(r)'

LEMMA LeaveTracked ==
    ASSUME FullInv, NEW J, NEW r \in Row, Tracked(r), Healthy, kind[r] # "absent", Leaves(J, r)
    PROVE  Tracked(r)'
<1>1. Items \subseteq JobId /\ \A i, j \in Items : item[i].row = item[j].row => i = j
  BY ZenonT(60), SMTT(20) DEF Items, FullInv, Inv, WorkerInv
<1>2. \A j \in Items : job[j].st \in {"claimed", "stale", "free"}
  BY DEF FullInv, Inv, BatchInv, InFlight, InState
<1>3. /\ Items' = Items \ J /\ dead \subseteq dead'
      /\ \A j \in JobId : j \notin J \intersect Items => job'[j] = job[j]
  BY ZenonT(60), SMTT(20) DEF Leaves
<1>4. /\ kind' = kind /\ ver' = ver /\ reg' = reg
      /\ \A j \in Items' : item'[j] = item[j] /\ wk'.reg = wk.reg
  BY ZenonT(60), SMTT(20) DEF Leaves
<1>5. \A j \in Writers(r)' : j \in Items /\ j \notin J /\ item[j].row = r /\ j \in Writers(r)
  <2>1. ASSUME NEW j \in Writers(r)'
        PROVE  j \in Items' /\ item'[j].row = r /\ (wk'.reg = reg'.id \/ (wk'.seen /\ j \in wk'.txn))
    BY <2>1, ZenonT(60), SMTT(20) DEF Writers
  <2>2. \A j \in Items' : ~(wk'.seen /\ j \in wk'.txn)
    BY ZenonT(60), SMTT(20) DEF Leaves
  <2> QED BY <2>1, <2>2, <1>3, <1>4, ZenonT(60), SMTT(20) DEF Writers
<1>6. Accounted(r)
  BY TrackedCases, ZenonT(60), SMTT(20)
<1>7. ASSUME NEW j \in JobId, job[j].st = "pending", job[j].row = r
      PROVE  Tracked(r)'
  <2>1. j \notin Items
    BY <1>2, <1>7
  <2>2. job'[j] = job[j]
    BY <2>1, <1>3, ZenonT(60), SMTT(20)
  <2> QED BY <2>2, <1>7, TrackedByJob, ZenonT(60), SMTT(20)
<1>8. CASE r \in dead
  BY <1>3, <1>8, TrackedByDead, ZenonT(60), SMTT(20)
<1>9. ASSUME NEW j \in JobId, job[j].st \in {"claimed", "stale"}, job[j].row = r, j \notin Items
      PROVE  Tracked(r)'
  <2>1. job'[j] = job[j] /\ j \notin Items'
    BY <1>3, <1>9, ZenonT(60), SMTT(20)
  <2> QED BY <2>1, <1>9, TrackedByClaim, ZenonT(60), SMTT(20)
<1>10. ASSUME wk.reg = reg.id, NEW j \in Items, item[j].row = r, item[j].ver = ver[r]
       PROVE  Tracked(r)'
  <2>1. CASE j \notin J
    <3>1. j \in Items' /\ item'[j] = item[j] /\ wk'.reg = reg'.id /\ ver' = ver
      BY <2>1, <1>3, <1>4, <1>10, ZenonT(60), SMTT(20)
    <3> QED BY <3>1, <1>10, TrackedByItem, ZenonT(60), SMTT(20)
  <2>2. CASE j \in J
    <3>1. EntryLive
      BY <1>10, ZenonT(60), SMTT(20) DEF EntryLive, Healthy
    <3>2. \A i \in Writers(r)' : FALSE
      BY <2>2, <1>1, <1>5, <1>10, ZenonT(60), SMTT(20)
    <3>3. \/ \E i \in JobId : job'[i].st = "pending" /\ job'[i].row = r
          \/ r \in dead'
          \/ job'[j].st \in {"claimed", "stale"} /\ job'[j].row = r
          \/ Current(r)'
      <4>1. j \in J \intersect Items
        BY <2>2, ZenonT(60), SMTT(20)
      <4> QED BY <4>1, <3>1, <1>10, ZenonT(60), SMTT(20) DEF Leaves
    <3>4. j \notin Items' /\ j \in JobId
      BY <2>2, <1>1, <1>3, ZenonT(60), SMTT(20)
    <3> QED BY <3>2, <3>3, <3>4, TrackedByJob, TrackedByDead, TrackedByClaim, TrackedByVector, ZenonT(60), SMTT(20)
  <2> QED BY <2>1, <2>2, ZenonT(60), SMTT(20)
<1>11. CASE Current(r) /\ \A j \in Writers(r) : kind[r] = "null" /\ item[j].out = "null"
  <2>1. Current(r)'
    BY <1>11, ZenonT(60), SMTT(20) DEF Leaves
  <2>2. ASSUME NEW j \in Writers(r)' PROVE kind'[r] = "null" /\ item'[j].out = "null"
    <3>1. j \in Writers(r) /\ j \in Items'
      BY <2>2, <1>3, <1>5, ZenonT(60), SMTT(20)
    <3> QED BY <3>1, <1>4, <1>11, ZenonT(60), SMTT(20)
  <2> QED BY <2>1, <2>2, TrackedByVector, ZenonT(60), SMTT(20)
<1> QED BY <1>6, <1>7, <1>8, <1>9, <1>10, <1>11, ZenonT(60), SMTT(20) DEF Accounted

\* What Done does to the batch.
LEMMA DoneLeaves ==
    ASSUME FullInv, Done(wk.txn), wk.phase \in {"write", "row", "release"}, reg' = reg
    PROVE  /\ Items' = Items \ wk.txn
           /\ \A j \in Items' : item'[j] = item[j] /\ wk'.reg = wk.reg
           /\ \A j \in Items' : ~(wk'.seen /\ j \in wk'.txn)
<1>1. /\ Items' = Items \ wk.txn /\ \A j \in Items' : item'[j] = item[j]
      /\ Items' # {} => wk'.reg = wk.reg
  BY DoneFacts DEF FullInv
<1>2. ~wk'.seen
  <2>1. wk \in [phase: Phase, reg: 0 .. MaxReg, txn: SUBSET JobId, seen: BOOLEAN]
    BY ZenonT(60), SMTT(20) DEF FullInv, Inv, TypeOK
  <2> QED BY <2>1 DEF Done, Idle
<1> QED BY <1>1, <1>2

\* Deleting claimed jobs X and releasing the claims U leaves every key of U
\* with a pending job.
LEMMA ReleaseCovers ==
    ASSUME QueueInv(job), NEW X, X \intersect Unclaimed(job) = {},
           NEW U \in SUBSET InFlight(job), X \intersect U = {}, Exhausted(job, U) = {},
           ~WaitsForWriter(job, RowsOf(job, U)), NEW K \in Survivors(job, U),
           job' = Unclaim(Deleted(job, X), U, K), NEW j \in U
    PROVE  \E i \in JobId : job'[i].st = "pending" /\ job'[i].row = job[j].row
<1>1. /\ QueueInv(job') /\ K \subseteq U
      /\ \A i \in JobId :
            /\ i \in K => job'[i].st = "pending" /\ job'[i].row = job[i].row
            /\ i \in (X \union U) \ K => job'[i] = NoJob
            /\ i \notin X \union U => job'[i] = job[i]
  <2>1. Releasable(job, X, U, K)
    BY DEF Releasable
  <2>2. Released(job, X, U, K, job')
    BY <2>1, ReleasedInv
  <2> QED BY <2>2 DEF Released
<1>2. RowsOf(job, K) = NotPending(job, RowsOf(job, U)) /\ U \subseteq JobId
  BY DEF Survivors, InFlight, InState
<1>3. CASE job[j].row \in PendingRows(job)
  <2>1. PICK i \in JobId : job[i].st = "pending" /\ job[i].row = job[j].row
    BY <1>3 DEF PendingRows, RowsOf, Pending, InState
  <2>2. i \notin X /\ i \notin U
    BY <2>1 DEF Unclaimed, InFlight, InState
  <2> QED BY <2>1, <2>2, <1>1
<1>4. CASE job[j].row \notin PendingRows(job)
  <2>1. job[j].row \in RowsOf(job, K)
    BY <1>2, <1>4 DEF NotPending, RowsOf
  <2>2. PICK k \in K : job[k].row = job[j].row
    BY <2>1 DEF RowsOf
  <2> QED BY <2>2, <1>1, <1>2
<1> QED BY <1>3, <1>4, ZenonT(60), SMTT(20)

\* The write-back: the item of a key is the only one that writes it.
LEMMA WrittenAt ==
    ASSUME FullInv, WriteBack, NEW r \in Row
    PROVE  /\ \A j \in wk.txn : item[j].row = r /\ item[j].out \in {"null", "ok"}
                                /\ kind[r] # "absent" =>
                 vec'[r] = IF item[j].out = "ok" THEN item[j].ver ELSE NoVec
           /\ \/ vec'[r] = vec[r]
              \/ \E j \in wk.txn : /\ item[j].row = r /\ item[j].out \in {"null", "ok"}
                                   /\ kind[r] # "absent"
<1> DEFINE f == Found(WithOut("null") \union WithOut("ok"))
           val(j) == IF item[j].out = "ok" THEN item[j].ver ELSE NoVec
<1>1. vec'[r] = IF \E j \in f : item[j].row = r
                THEN val(CHOOSE j \in f : item[j].row = r) ELSE vec[r]
  BY ZenonT(60), SMTT(20) DEF WriteBack, Write
<1>2. \A i, j \in wk.txn : item[i].row = item[j].row => i = j
  BY DEF FullInv, Inv, WorkerInv
<1>3. \A j \in wk.txn :
         j \in f <=> item[j].out \in {"null", "ok"} /\ kind[item[j].row] # "absent"
  BY DEF Found, WithOut
<1>4. f \subseteq wk.txn
  BY DEF Found, WithOut
<1> HIDE DEF f
<1>5. ASSUME NEW j \in f, item[j].row = r
      PROVE  vec'[r] = val(j)
  <2>1. (CHOOSE i \in f : item[i].row = r) = j
    BY <1>2, <1>4, <1>5
  <2> QED BY <2>1, <1>1, <1>5, ZenonT(60), SMTT(20)
<1> QED BY <1>1, <1>3, <1>4, <1>5, ZenonT(60), SMTT(20)

LEMMA WriteBackTracked ==
    ASSUME FullInv, WriteBack, NEW r \in Row, Tracked(r), Healthy, kind[r] # "absent"
    PROVE  Tracked(r)'
<1> DEFINE have == wk.txn \intersect InFlight(job)
           spent == Exhausted(job, WithOut("retry") \intersect have)
           gone == (WithOut("dead") \intersect have) \union spent
           back == (WithOut("retry") \intersect have) \ spent
           done == WithOut("null") \union WithOut("ok")
           X == done \union gone
<1>1. PICK K \in Survivors(job, back) : job' = Unclaim(Deleted(job, X), back, K)
  BY ZenonT(60), SMTT(20) DEF WriteBack, Write
<1>2. ~WaitsForWriter(job, RowsOf(job, back)) /\ dead' = dead \union RowsOf(job, gone)
  BY ZenonT(60), SMTT(20) DEF WriteBack, Write
<1>3. /\ wk.txn \subseteq Items /\ Items \subseteq JobId
      /\ wk.phase \in {"write", "row"} /\ wk.seen
      /\ UNCHANGED <<kind, ver, reg>> /\ Done(wk.txn)
  BY ZenonT(60), SMTT(20) DEF FullInv, Inv, WorkerInv, Items, WriteBack
<1>4. /\ X \subseteq wk.txn /\ back \subseteq InFlight(job) /\ back \subseteq wk.txn
      /\ X \intersect back = {} /\ Exhausted(job, back) = {}
  BY ZenonT(60), SMTT(20) DEF WithOut, Exhausted
<1>5. X \intersect Unclaimed(job) = {}
  <2>1. \A j \in wk.txn : job[j].st \in {"claimed", "stale", "free"}
    BY <1>3, ZenonT(60), SMTT(20) DEF FullInv, Inv, BatchInv, InFlight, InState
  <2> QED BY <2>1, <1>4, ZenonT(60), SMTT(20) DEF Unclaimed, InState
<1>6. QueueInv(job)
  BY ZenonT(60), SMTT(20) DEF FullInv, Inv
<1>7. ASSUME NEW j \in wk.txn, EntryLive, item[j].row = r
      PROVE  /\ j \in have /\ job[j].row = r
             /\ item[j].out \in {"null", "ok", "dead", "retry"}
  <2>1. j \in Items /\ j \in InFlight(job) /\ job[j].row = r
    BY <1>3, <1>7, ZenonT(60), SMTT(20) DEF FullInv, Inv, BatchInv
  <2>2. item[j].out \in Outcome /\ item[j].out \notin {"none", "read"}
    BY <2>1, <1>3, ZenonT(60), SMTT(20) DEF FullInv, Inv, TypeOK, WorkerInv, Item, Items
  <2> QED BY <2>1, <2>2 DEF Outcome
<1>8. \A j \in wk.txn : /\ item[j].out = "dead" /\ j \in have => j \in gone
                        /\ item[j].out = "retry" /\ j \in have => j \in gone \/ j \in back
  BY ZenonT(60), SMTT(20) DEF WithOut
<1> HIDE DEF X, back, gone, have
<1>9. \A j \in JobId : j \notin wk.txn => job'[j] = job[j]
  <2>1. /\ QueueInv(job') /\ K \subseteq back
        /\ \A j \in JobId :
              /\ j \in K => job'[j].st = "pending" /\ job'[j].row = job[j].row
              /\ j \in (X \union back) \ K => job'[j] = NoJob
              /\ j \notin X \union back => job'[j] = job[j]
    <3>1. Releasable(job, X, back, K)
      BY <1>1, <1>2, <1>4, <1>5, <1>6 DEF Releasable
    <3>2. Released(job, X, back, K, job')
      BY <1>1, <3>1, ReleasedInv
    <3> QED BY <3>2 DEF Released
  <2> QED BY <2>1, <1>4, ZenonT(60), SMTT(20)
<1>10. ASSUME NEW j \in wk.txn, EntryLive, item[j].row = r, item[j].ver = ver[r]
       PROVE  \/ \E i \in JobId : job'[i].st = "pending" /\ job'[i].row = r
              \/ r \in dead'
              \/ Current(r)'
  <2>1. /\ j \in have /\ job[j].row = r
        /\ item[j].out \in {"null", "ok", "dead", "retry"}
    BY <1>7, <1>10
  <2>2. CASE j \in gone
    BY <2>1, <2>2, <1>2 DEF RowsOf
  <2>3. CASE j \in back
    <3>1. \E i \in JobId : job'[i].st = "pending" /\ job'[i].row = job[j].row
      BY <2>3, <1>1, <1>2, <1>4, <1>5, <1>6, ReleaseCovers, ZenonT(60), SMTT(20)
    <3> QED BY <3>1, <2>1, ZenonT(60), SMTT(20)
  <2>4. CASE item[j].out \in {"null", "ok"}
    <3>1. vec'[r] = IF item[j].out = "ok" THEN item[j].ver ELSE NoVec
      BY <2>4, <1>10, WrittenAt, ZenonT(60), SMTT(20)
    <3>2. kind[r] = IF item[j].out = "null" THEN "null" ELSE "text"
      BY <1>3, <1>10 DEF FullInv, VersionInv
    <3> QED BY <2>4, <3>1, <3>2, <1>3, <1>10, ZenonT(60), SMTT(20) DEF Current
  <2> QED BY <2>1, <2>2, <2>3, <2>4, <1>8
<1>11. ASSUME Current(r), \A j \in Writers(r) : kind[r] = "null" /\ item[j].out = "null"
       PROVE  Current(r)'
  <2>1. CASE vec'[r] = vec[r]
    BY <2>1, <1>3, <1>11, ZenonT(60), SMTT(20) DEF Current
  <2>2. ASSUME NEW j \in wk.txn, item[j].row = r, item[j].out \in {"null", "ok"}
        PROVE  Current(r)'
    <3>1. j \in Writers(r)
      BY <2>2, <1>3 DEF Writers
    <3>2. kind[r] = "null" /\ item[j].out = "null"
      BY <3>1, <1>11
    <3>3. vec'[r] = NoVec
      BY <2>2, <3>2, WrittenAt
    <3> QED BY <3>2, <3>3, <1>3 DEF Current
  <2> QED BY <2>1, <2>2, WrittenAt, ZenonT(60), SMTT(20)
<1>12. /\ Items' = Items \ wk.txn
       /\ \A j \in Items' : item'[j] = item[j] /\ wk'.reg = wk.reg
       /\ \A j \in Items' : ~(wk'.seen /\ j \in wk'.txn)
  BY <1>3, DoneLeaves
<1>13. dead \subseteq dead' /\ wk.txn \intersect Items = wk.txn
  BY <1>2, <1>3, ZenonT(60), SMTT(20)
<1>14. Leaves(wk.txn, r)
  BY <1>3, <1>9, <1>10, <1>11, <1>12, <1>13, ZenonT(60), SMTT(20) DEF Leaves
<1> QED BY <1>14, LeaveTracked, ZenonT(60), SMTT(20)

\* Dropping the jobs of an entry that is gone loses no key of a healthy one.
LEMMA WriteNothingTracked ==
    ASSUME FullInv, WriteNothing, NEW r \in Row, Tracked(r), Healthy, kind[r] # "absent"
    PROVE  Tracked(r)'
<1>1. /\ wk.phase \in {"write", "row"} /\ ~EntryLive /\ Done(wk.txn)
      /\ UNCHANGED <<kind, ver, vec, dead, reg>> /\ wk.txn \subseteq Items
      /\ job' = Deleted(job, wk.txn)
  BY ZenonT(60), SMTT(20) DEF WriteNothing, FullInv, Inv, WorkerInv
<1>2. \A j \in JobId : j \notin wk.txn \intersect Items => job'[j] = job[j]
  BY <1>1, DeletedAt, ZenonT(60), SMTT(20)
<1>3. Current(r) => Current(r)'
  BY <1>1 DEF Current
<1>4. /\ Items' = Items \ wk.txn
      /\ \A j \in Items' : item'[j] = item[j] /\ wk'.reg = wk.reg
      /\ \A j \in Items' : ~(wk'.seen /\ j \in wk'.txn)
  BY <1>1, DoneLeaves, ZenonT(60), SMTT(20)
<1>5. Leaves(wk.txn, r)
  BY <1>1, <1>2, <1>3, <1>4, ZenonT(60), SMTT(20) DEF Leaves
<1> QED BY <1>5, LeaveTracked, ZenonT(60), SMTT(20)

\* A released job is pending again or a dead letter.
LEMMA ReleaseTracked ==
    ASSUME FullInv, Release, NEW r \in Row, Tracked(r), Healthy, kind[r] # "absent"
    PROVE  Tracked(r)'
<1> DEFINE have == wk.txn \intersect InFlight(job)
           gone == Exhausted(job, have)
           back == have \ gone
<1>1. PICK K \in Survivors(job, back) : job' = Unclaim(Deleted(job, gone), back, K)
  BY ZenonT(60), SMTT(20) DEF Release
<1>2. ~WaitsForWriter(job, RowsOf(job, back)) /\ dead' = dead \union RowsOf(job, gone)
  BY ZenonT(60), SMTT(20) DEF Release
<1>3. gone \subseteq InFlight(job) /\ back \subseteq InFlight(job) /\ gone \intersect back = {}
  BY ZenonT(60), SMTT(20) DEF Exhausted
<1>4. gone \subseteq wk.txn /\ back \subseteq wk.txn /\ Exhausted(job, back) = {}
  BY ZenonT(60), SMTT(20) DEF Exhausted
<1>5. QueueInv(job) /\ gone \intersect Unclaimed(job) = {}
  BY <1>3, ZenonT(60), SMTT(20) DEF FullInv, Inv, InFlight, Unclaimed, InState
<1>6. /\ wk.phase = "release" /\ Done(wk.txn) /\ UNCHANGED <<kind, ver, vec, reg>>
      /\ wk.txn \subseteq Items
  BY ZenonT(60), SMTT(20) DEF Release, FullInv, Inv, WorkerInv
<1>7. ASSUME NEW j \in wk.txn, EntryLive, item[j].row = r
      PROVE  (j \in gone \/ j \in back) /\ job[j].row = r
  BY <1>6, <1>7, ZenonT(60), SMTT(20) DEF FullInv, Inv, BatchInv
<1> HIDE DEF gone, back
<1>8. \A j \in JobId : j \notin wk.txn => job'[j] = job[j]
  <2>1. /\ QueueInv(job') /\ K \subseteq back
        /\ \A j \in JobId :
              /\ j \in K => job'[j].st = "pending" /\ job'[j].row = job[j].row
              /\ j \in (gone \union back) \ K => job'[j] = NoJob
              /\ j \notin gone \union back => job'[j] = job[j]
    <3>1. Releasable(job, gone, back, K)
      BY <1>1, <1>2, <1>3, <1>4, <1>5 DEF Releasable
    <3>2. Released(job, gone, back, K, job')
      BY <1>1, <3>1, ReleasedInv
    <3> QED BY <3>2 DEF Released
  <2> QED BY <2>1, <1>4, ZenonT(60), SMTT(20)
<1>9. ASSUME NEW j \in wk.txn, EntryLive, item[j].row = r
      PROVE  \/ \E i \in JobId : job'[i].st = "pending" /\ job'[i].row = r
             \/ r \in dead'
  <2>1. CASE j \in gone
    BY <2>1, <1>2, <1>7, <1>9 DEF RowsOf
  <2>2. CASE j \in back
    <3>1. \E i \in JobId : job'[i].st = "pending" /\ job'[i].row = job[j].row
      BY <2>2, <1>1, <1>2, <1>3, <1>4, <1>5, ReleaseCovers, ZenonT(60), SMTT(20)
    <3> QED BY <3>1, <1>7, <1>9, ZenonT(60), SMTT(20)
  <2> QED BY <2>1, <2>2, <1>7, <1>9, ZenonT(60), SMTT(20)
<1>10. Current(r) => Current(r)'
  BY <1>6, ZenonT(60), SMTT(20) DEF Current
<1>11. /\ Items' = Items \ wk.txn
       /\ \A j \in Items' : item'[j] = item[j] /\ wk'.reg = wk.reg
       /\ \A j \in Items' : ~(wk'.seen /\ j \in wk'.txn)
  BY <1>6, DoneLeaves
<1>12. dead \subseteq dead' /\ wk.txn \intersect Items = wk.txn
  BY <1>2, <1>6, ZenonT(60), SMTT(20)
<1>13. Leaves(wk.txn, r)
  BY <1>6, <1>8, <1>9, <1>10, <1>11, <1>12, ZenonT(60), SMTT(20) DEF Leaves
<1> QED BY <1>13, LeaveTracked, Zenon

\* A claim left behind by a failed release or a crash waits for the visibility
\* timeout.
LEMMA AbandonTracked ==
    ASSUME FullInv, ReleaseAborts \/ Crash,
           NEW r \in Row, Tracked(r), Healthy, kind[r] # "absent"
    PROVE  Tracked(r)'
<1>1. UNCHANGED <<kind, ver, vec, job, dead, reg>>
  BY DEF ReleaseAborts, Crash
<1>2. PICK J \in SUBSET JobId :
         /\ Items' = Items \ J
         /\ \A j \in Items' : item'[j] = item[j] /\ wk'.reg = wk.reg
         /\ \A j \in Items' : ~(wk'.seen /\ j \in wk'.txn)
  <2>1. CASE ReleaseAborts
    <3>1. /\ Items' = Items \ wk.txn
          /\ \A j \in Items' : item'[j] = item[j] /\ wk'.reg = wk.reg
          /\ \A j \in Items' : ~(wk'.seen /\ j \in wk'.txn)
      BY <2>1, <1>1, DoneLeaves DEF ReleaseAborts
    <3> QED BY <3>1 DEF FullInv, Inv, TypeOK
  <2>2. CASE Crash
    <3>1. Items' = {} /\ Items' = Items \ JobId
      BY <2>2 DEF Crash, Items, NoItem
    <3> QED BY <3>1
  <2> QED BY <2>1, <2>2
<1>3. ASSUME NEW j \in J \intersect Items, EntryLive, item[j].row = r
      PROVE  job'[j].st \in {"claimed", "stale"} /\ job'[j].row = r
  BY <1>1, <1>3 DEF FullInv, Inv, BatchInv, InFlight, InState
<1>4. Current(r) => Current(r)'
  BY <1>1 DEF Current
<1>5. Leaves(J, r)
  BY <1>1, <1>2, <1>3, <1>4, ZenonT(60), SMTT(20) DEF Leaves
<1> QED BY <1>5, LeaveTracked, ZenonT(60), SMTT(20)

\* Every step of the worker.
LEMMA WorkerTracked ==
    ASSUME FullInv, WorkerStep, NEW r \in Row, Tracked(r)
    PROVE  Tracked(r)'
<1>1. CASE ClaimStep
  BY <1>1, ClaimTracked DEF ClaimStep
<1>2. CASE ClaimQuarantines \/ WriteQuarantines
  BY <1>2, QuarantineTracked DEF ClaimQuarantines, WriteQuarantines
<1>3. CASE Embed \/ WriteAborts \/ ApplyLoad \/ \E j \in JobId : RowLoad(j)
  BY <1>3, ControlTracked
<1>4. CASE WriteBack \/ WriteNothing \/ Release \/ ReleaseAborts \/ Crash
  <2>1. UNCHANGED <<kind, reg>>
    BY <1>4, ZenonT(60), SMTT(20) DEF WriteBack, WriteNothing, Release, ReleaseAborts, Crash
  <2>2. CASE ~Healthy \/ kind[r] = "absent"
    <3>1. ~Healthy' \/ kind'[r] = "absent"
      BY <2>1, <2>2 DEF Healthy
    <3> QED BY <3>1, TrackedOut, ZenonT(60), SMTT(20)
  <2>3. CASE Healthy /\ kind[r] # "absent"
    BY <1>4, <2>3, WriteBackTracked, WriteNothingTracked, ReleaseTracked, AbandonTracked
  <2> QED BY <2>2, <2>3, ZenonT(60), SMTT(20)
<1> QED BY <1>1, <1>2, <1>3, <1>4 DEF WorkerStep

-----------------------------------------------------------------------------

\* One step of the system.
LEMMA StepTracked ==
    ASSUME FullInv, [Next]_vars, NEW r \in Row, Tracked(r)
    PROVE  Tracked(r)' \/ Resurrected(r) \/ \E s \in Session : Overtaken(s, r)
<1>1. ASSUME NEW s \in Session, UserStep(s)
      PROVE  Tracked(r)' \/ Overtaken(s, r)
  <2>1. CASE Commit(s)
    BY <2>1, CommitTracked
  <2>2. CASE ~Commit(s)
    <3>1. (\E rec, R : Statement(s, rec, R)) \/ Rollback(s)
      BY <1>1, <2>2, ZenonT(60), SMTT(20) DEF UserStep, Insert, Update, Delete, Rekey
    <3> QED BY <3>1, OpenTracked
  <2> QED BY <2>1, <2>2
<1>2. ASSUME NEW j \in JobId, Expire(j)
      PROVE  Tracked(r)'
  <2>1. UNCHANGED <<kind, ver, vec, dead, reg, wk, item>> /\ job[j].st = "claimed"
    BY <1>2 DEF Expire
  <2>2. job \in [JobId -> Job] /\ job' = [job EXCEPT ![j].st = "stale"]
    BY <1>2 DEF Expire, FullInv, Inv, TypeOK
  <2>3. /\ job'[j].st = "stale" /\ job'[j].row = job[j].row
        /\ \A i \in JobId \ {j} : job'[i] = job[i]
    BY <2>2 DEF Job
  <2> QED BY <2>1, <2>3, KeyFrame
<1>3. CASE UNCHANGED vars
  <2>1. UNCHANGED <<kind, ver, vec, job, dead, reg, wk, item>>
    BY <1>3 DEF vars
  <2> QED BY <2>1, KeyFrame
<1> QED BY <1>1, <1>2, <1>3, ManageTracked, WorkerTracked DEF Next

\* No step loses track of a key, but a commit whose trigger relied on a job
\* claimed since, and a re-enable under a waiting write-back.
THEOREM NothingLosesTrack == Spec => StaysTracked
<1>1. FullInv /\ [Next]_vars =>
         [\A r \in Row : Tracked(r) =>
            Tracked(r)' \/ Resurrected(r) \/ \E s \in Session : Overtaken(s, r)]_vars
  BY StepTracked
<1> QED BY <1>1, FullInvariance, PTL DEF Spec, StaysTracked

=============================================================================
