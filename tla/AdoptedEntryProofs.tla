------------------------- MODULE AdoptedEntryProofs -------------------------
(***************************************************************************)
(* AdoptedEntry: no vector that is owed is lost, for every number of rows, *)
(* batch and pass size, and for every backfill and call, as long as a      *)
(* promotion overlaps neither set_format() nor, when it restarts the       *)
(* cursor, a batch or a pass of the worker.                                *)
(***************************************************************************)
EXTENDS AdoptedEntry, FiniteSetTheorems, WellFoundedInduction, TLAPS

\* The provers that a leaf tries in turn when it names none.
USE SMTT(20), Z3T(20), SMTT(40), Z3T(40), ZenonT(20)

\* A job, the right text in flight, or the cursor ahead and no text in flight
\* at all.
Kept(k) == k \in pending \union wk.fresh \/ (Awaits(k) /\ k \notin wk.items)

Inv ==
    /\ TypeOK
    /\ owed \subseteq Present
    /\ \A k \in owed : Kept(k)
    /\ entry.sync => entry.trig = entry.format
    /\ wk.phase # "batch" => wk.items = {}
    /\ wk.phase = "feed" => entry.mode = "cursor" /\ wk.wm = entry.wm
    /\ call.open => call.format = entry.format

-----------------------------------------------------------------------------

\* A set of naturals has a least element.
LEMMA LeastExists ==
    ASSUME NEW S \in SUBSET Nat, S # {}
    PROVE  \E x \in S : \A y \in S : x <= y
PROOF
<1>1. PICK x \in S : \A y \in S : ~ (<<y, x>> \in OpToRel(<, Nat))
  BY NatLessThanWellFounded, WFMin, ZenonT(60), SMTT(20)
<1>2. \A y \in Nat : y < x => <<y, x>> \in OpToRel(<, Nat)
  BY DEF OpToRel
<1>3. x \in Nat /\ \A y \in S : y \in Nat
  OBVIOUS
<1>4. ASSUME NEW y \in S
      PROVE  x <= y
  <2>1. ~(y < x) /\ y \in Nat
    BY <1>1, <1>2, <1>3, ZenonT(60), SMTT(20)
  <2>2. QED BY <2>1, <1>3
<1>5. QED BY <1>4

\* A set of keys has a greatest element, and Max is one.
LEMMA GreatestKey ==
    ASSUME NEW S \in SUBSET Key, S # {}
    PROVE  Max(S) \in S /\ \A y \in S : y <= Max(S)
PROOF
<1> USE AdoptedAssumption
<1> DEFINE D == {N - k : k \in S}
<1>1. D \in SUBSET Nat /\ D # {}
  <2>1. ASSUME NEW e \in D
        PROVE  e \in Nat
    <3>1. PICK k \in S : e = N - k
      OBVIOUS
    <3>2. k \in Int /\ k <= N
      BY DEF Key
    <3>3. QED BY <3>1, <3>2
  <2>2. QED BY <2>1
<1> HIDE DEF D
<1>2. PICK d \in D : \A e \in D : d <= e
  BY <1>1, LeastExists
<1>3. PICK x \in S : d = N - x
  BY <1>2 DEF D
<1>4. \A y \in S : N - y \in D /\ y \in Int /\ N - y \in Int
  BY DEF D, Key
<1>5. \A y \in S : x >= y
  BY <1>2, <1>3, <1>4
<1>6. \A y \in S : Max(S) \in S /\ Max(S) >= y
  BY <1>3, <1>5 DEF Max
<1>7. \A y \in S : y \in Int
  BY <1>4
<1>8. QED BY <1>6, <1>7

\* A pass of the cursor takes the first rows past the watermark: what it
\* leaves out is past the new watermark.
LEMMA PassLeavesLater ==
    ASSUME TypeOK, NEW k \in Ahead
    PROVE  LastRow \in Key /\ NextRows \subseteq Key /\ (k \in NextRows \/ k > LastRow)
PROOF
<1> USE AdoptedAssumption
<1>1. Ahead \in SUBSET Key /\ Key \in SUBSET Nat /\ NextRows \subseteq Ahead
  BY DEF Ahead, Gaps, Texts, Key, NextRows
<1> DEFINE Before(j) == {i \in Ahead : i < j}
<1>2. \A j \in Ahead : IsFiniteSet(Before(j)) /\ Cardinality(Before(j)) \in Nat
  <2>1. IsFiniteSet(Key)
    BY FS_Interval DEF Key
  <2>2. \A j \in Ahead : Before(j) \in SUBSET Key
    BY <1>1, ZenonT(60), SMTT(20)
  <2>3. QED BY <2>1, <2>2, FS_Subset, FS_CardinalityType
<1>3. NextRows # {}
  <2>1. PICK m \in Ahead : \A y \in Ahead : m <= y
    BY <1>1, LeastExists
  <2>2. Before(m) = {}
    <3>1. \A y \in Ahead : m \in Nat /\ y \in Nat
      BY <1>1
    <3>2. \A y \in Ahead : ~(y < m)
      BY <2>1, <3>1
    <3>3. QED BY <3>2
  <2>3. Cardinality(Before(m)) = 0
    BY <2>2, FS_EmptySet
  <2>4. QED BY <2>1, <2>3 DEF NextRows
<1>4. LastRow \in NextRows
  BY <1>1, <1>3, GreatestKey DEF LastRow
<1>5. ASSUME k \notin NextRows, k <= LastRow
      PROVE  FALSE
  <2>1. Before(k) \in SUBSET Before(LastRow)
    <3>1. k \in Nat /\ LastRow \in Nat /\ \A i \in Ahead : i \in Nat
      BY <1>1, <1>4
    <3>2. \A i \in Ahead : i < k => i < LastRow
      BY <3>1, <1>5
    <3>3. QED BY <3>2
  <2>2. Cardinality(Before(k)) <= Cardinality(Before(LastRow))
    BY <2>1, <1>1, <1>2, <1>4, FS_Subset
  <2>3. Cardinality(Before(LastRow)) < FeedSize
    BY <1>4 DEF NextRows
  <2>4. ~(Cardinality(Before(k)) < FeedSize)
    BY <1>5 DEF NextRows
  <2>5. Cardinality(Before(k)) \in Nat /\ Cardinality(Before(LastRow)) \in Nat
    BY <1>1, <1>2, <1>4
  <2>6. QED BY <2>2, <2>3, <2>4, <2>5
<1>6. k \in Nat /\ LastRow \in Nat /\ LastRow \in Key
  BY <1>1, <1>4
<1>7. QED BY <1>1, <1>5, <1>6

-----------------------------------------------------------------------------
(***************************************************************************)
(* The application's statements.                                           *)
(***************************************************************************)

\* A statement that queues the row it changes whenever its vector is owed.
LEMMA StatementInv ==
    ASSUME Inv, NEW k \in Key, NEW r \in Row, NEW Q \in SUBSET Key, NEW must \in BOOLEAN,
           entry.sync /\ must => k \in Q /\ r.kind # "absent",
           Statement(k, r, Q, must)
    PROVE  Inv'
PROOF
<1>1. /\ row' \in [Key -> Row] /\ row'[k] = r
      /\ \A j \in Key \ {k} : row'[j] = row[j]
  BY DEF Inv, TypeOK, Statement
<1>2. /\ wk' \in Worker /\ wk'.fresh = wk.fresh \ {k} /\ wk'.items = wk.items
      /\ wk'.nil = wk.nil /\ wk'.phase = wk.phase /\ wk'.wm = wk.wm
  BY DEF Inv, TypeOK, Statement, Worker
<1>3. TypeOK'
  <2>1. ops' \in 0 .. MaxOps
    BY AdoptedAssumption DEF Inv, TypeOK, Statement
  <2>2. QED BY <2>1, <1>1, <1>2 DEF Inv, TypeOK, Statement
<1>4. owed' \subseteq Present'
  BY <1>1 DEF Inv, TypeOK, Statement, Present
<1>5. ASSUME NEW j \in owed' PROVE Kept(j)'
  <2>1. CASE j = k
    BY <2>1, <1>1 DEF Statement, Kept
  <2>2. CASE j # k
    <3>1. j \in owed /\ Kept(j) /\ j \in Key
      BY <2>2 DEF Inv, TypeOK, Statement
    <3>2. Awaits(j) => Awaits(j)'
      BY <3>1, <2>2, <1>1 DEF Awaits, Statement
    <3>3. QED BY <3>1, <3>2, <2>2, <1>2 DEF Statement, Kept
  <2>3. QED BY <2>1, <2>2
<1>6. QED BY <1>2, <1>3, <1>4, <1>5 DEF Inv, Statement

LEMMA RekeyInv ==
    ASSUME Inv, NEW k \in Key, NEW d \in Key, Rekey(k, d)
    PROVE  Inv'
PROOF
<1>0. k # d
  BY DEF Rekey, Present, NoRow
<1>1. /\ row' \in [Key -> Row] /\ row'[d] = row[k] /\ row'[k] = NoRow
      /\ \A j \in Key \ {k, d} : row'[j] = row[j]
  BY <1>0 DEF Inv, TypeOK, Rekey, NoRow, Row
<1>2. /\ wk' \in Worker /\ wk'.fresh = wk.fresh \ {k, d} /\ wk'.items = wk.items
      /\ wk'.nil = wk.nil /\ wk'.phase = wk.phase /\ wk'.wm = wk.wm
  BY DEF Inv, TypeOK, Rekey, Worker
<1>3. TypeOK'
  <2>1. ops' \in 0 .. MaxOps
    BY AdoptedAssumption DEF Inv, TypeOK, Rekey
  <2>2. pending' \subseteq Key /\ owed' \subseteq Key
    BY DEF Inv, TypeOK, Rekey
  <2>3. QED BY <2>1, <2>2, <1>1, <1>2 DEF Inv, TypeOK, Rekey
<1>4. owed' \subseteq Present'
  <2>1. row[k].kind # "absent"
    BY DEF Rekey, Present
  <2>2. ASSUME NEW j \in owed' PROVE j \in Key /\ row'[j].kind # "absent"
    BY <2>1, <1>1 DEF Inv, TypeOK, Rekey, Present
  <2>3. QED BY <2>2 DEF Present
<1>5. ASSUME NEW j \in owed' PROVE Kept(j)'
  <2>1. CASE j \in {k, d}
    BY <2>1, <1>0 DEF Rekey, Kept
  <2>2. CASE j \notin {k, d}
    <3>1. j \in owed /\ Kept(j) /\ j \in Key
      BY <2>2 DEF Inv, TypeOK, Rekey
    <3>2. Awaits(j) => Awaits(j)'
      BY <3>1, <2>2, <1>1 DEF Awaits, Rekey
    <3>3. QED BY <3>1, <3>2, <2>2, <1>2 DEF Rekey, Kept
  <2>3. QED BY <2>1, <2>2
<1>6. QED BY <1>2, <1>3, <1>4, <1>5 DEF Inv, Rekey

LEMMA UserStepInv ==
    ASSUME Inv, UserStep
    PROVE  Inv'
PROOF
<1>1. ASSUME NEW k \in Key, NEW kind \in {"null", "text"}, NEW vec \in {"null", "own"},
             Insert(k, kind, vec)
      PROVE  Inv'
  <2>1. [kind |-> kind, vec |-> vec] \in Row
    BY DEF Row
  <2>2. QED BY <1>1, <2>1, StatementInv, ZenonT(60), SMTT(20) DEF Insert
<1>2. ASSUME NEW k \in Key, NEW kind \in {"null", "text"}, UpdateBody(k, kind)
      PROVE  Inv'
  <2>1. [row[k] EXCEPT !.kind = kind] \in Row /\ [row[k] EXCEPT !.kind = kind].kind = kind
    BY DEF Inv, TypeOK, Row
  <2>2. QED BY <1>2, <2>1, StatementInv, ZenonT(60), SMTT(20) DEF UpdateBody
<1>3. ASSUME NEW k \in Key, UpdateContext(k)
      PROVE  Inv'
  <2>1. CASE entry.format = "both" /\ k \in Texts
    <3>1. row[k] \in Row /\ row[k].kind # "absent"
      BY <2>1 DEF Inv, TypeOK, Texts
    <3>2. entry.sync => Watches
      BY <2>1 DEF Inv, Watches
    <3>3. QED BY <1>3, <2>1, <3>1, <3>2, StatementInv, ZenonT(60), SMTT(20) DEF UpdateContext
  <2>2. CASE ~(entry.format = "both" /\ k \in Texts)
    <3>0. /\ ops < MaxOps /\ ops' = ops + 1
          /\ pending' = pending \union (IF Watches THEN {k} ELSE {})
          /\ UNCHANGED <<row, entry, dead, call, wk, owed>>
      BY <1>3, <2>2, ZenonT(60), SMTT(20) DEF UpdateContext
    <3>1. /\ ops' \in 0 .. MaxOps
          /\ UNCHANGED <<row, entry, dead, call, wk, owed>>
          /\ pending \subseteq pending' /\ pending' \subseteq Key
      BY <3>0, AdoptedAssumption DEF Inv, TypeOK
    <3>2. TypeOK'
      BY <3>1 DEF Inv, TypeOK
    <3>3. \A j \in owed' : Kept(j)'
      BY <3>1 DEF Inv, Kept, Awaits
    <3>4. QED BY <3>1, <3>2, <3>3 DEF Inv, Present
  <2>3. QED BY <2>1, <2>2
<1>4. ASSUME NEW k \in Key, WriteVector(k)
      PROVE  Inv'
  <2>1. [row[k] EXCEPT !.vec = "own"] \in Row
    BY DEF Inv, TypeOK, Row
  <2>2. QED BY <1>4, <2>1, StatementInv, ZenonT(60), SMTT(20) DEF WriteVector
<1>5. ASSUME NEW k \in Key, Delete(k)
      PROVE  Inv'
  <2>1. NoRow \in Row
    BY DEF NoRow, Row
  <2>2. QED BY <1>5, <2>1, StatementInv, ZenonT(60), SMTT(20) DEF Delete
<1>6. ASSUME Truncate
      PROVE  Inv'
  <2>1. /\ wk' \in Worker /\ wk'.fresh = {} /\ wk'.items = wk.items
        /\ wk'.nil = wk.nil /\ wk'.phase = wk.phase /\ wk'.wm = wk.wm
    BY <1>6 DEF Inv, TypeOK, Truncate, Worker
  <2>2. ops' \in 0 .. MaxOps /\ row' \in [Key -> Row]
    BY <1>6, AdoptedAssumption DEF Inv, TypeOK, Truncate, NoRow, Row
  <2>3. TypeOK'
    BY <1>6, <2>1, <2>2 DEF Inv, TypeOK, Truncate
  <2>4. QED BY <1>6, <2>1, <2>3 DEF Inv, Truncate
<1>7. QED BY <1>1, <1>2, <1>3, <1>4, <1>5, <1>6, RekeyInv DEF UserStep

-----------------------------------------------------------------------------
(***************************************************************************)
(* Management calls.                                                       *)
(***************************************************************************)

LEMMA SetFormatInv ==
    ASSUME ~Overlap, Inv, NEW f \in Format, SetFormat(f)
    PROVE  Inv'
PROOF
<1>1. /\ entry' \in Entry /\ entry'.format = f /\ entry'.sync = entry.sync
      /\ entry'.trig = (IF entry.sync THEN f ELSE entry.trig)
      /\ entry'.mode = entry.mode /\ entry'.wm = entry.wm
  BY ZenonT(60), SMTT(20) DEF Inv, TypeOK, SetFormat, Entry, Format
<1>2. /\ wk' \in Worker /\ wk'.fresh = {} /\ wk'.items = wk.items
      /\ wk'.nil = wk.nil /\ wk'.phase = wk.phase /\ wk'.wm = wk.wm
  BY DEF Inv, TypeOK, SetFormat, Worker
<1>3. ~call.open
  BY DEF SetFormat
<1>4. TypeOK'
  <2>1. ops' \in 0 .. MaxOps
    BY AdoptedAssumption DEF Inv, TypeOK, SetFormat
  <2>2. pending' \subseteq Key /\ owed' \subseteq Key
    BY DEF Inv, TypeOK, SetFormat, Refreshed, Present
  <2>3. QED BY <2>1, <2>2, <1>1, <1>2 DEF Inv, TypeOK, SetFormat
<1>5. owed' \subseteq Present' /\ \A j \in owed' : Kept(j)'
  BY DEF Inv, SetFormat, Present, Refreshed, Kept
<1>6. QED BY <1>1, <1>2, <1>3, <1>4, <1>5 DEF Inv, SetFormat

LEMMA PromoteInv ==
    ASSUME ~Overlap, Inv, NEW backfill, NEW mode \in {"queue", "cursor"},
           PromoteCommit(backfill, mode)
    PROVE  Inv'
PROOF
<1>1. /\ entry' \in Entry /\ entry'.sync = TRUE /\ entry'.trig = call.format
      /\ entry'.format = entry.format
      /\ mode = "cursor" => entry'.mode = "cursor" /\ entry'.wm = 0
      /\ mode # "cursor" => entry'.mode = entry.mode /\ entry'.wm = entry.wm
  <2>1. 0 \in 0 .. N
    BY AdoptedAssumption
  <2>2. entry' = [sync |-> TRUE, trig |-> call.format, format |-> entry.format,
                  mode |-> IF mode = "cursor" THEN "cursor" ELSE entry.mode,
                  wm |-> IF mode = "cursor" THEN 0 ELSE entry.wm]
    BY ZenonT(60), SMTT(20) DEF Inv, TypeOK, PromoteCommit, Entry
  <2>3. QED BY <2>1, <2>2 DEF Inv, TypeOK, Entry, Call
<1>2. mode = "cursor" => backfill = "missing" /\ wk.phase = "idle" /\ wk.items = {}
  BY DEF Inv, PromoteCommit
<1>3. Gaps(backfill) \subseteq Present /\ Gaps(backfill) \subseteq Key
  <2>1. Gaps(backfill) \in {{k \in Texts : row[k].vec = "null"}, Texts, {}}
    BY DEF Gaps
  <2>2. QED BY <2>1 DEF Texts, Present
<1>4. /\ pending' = pending \union (IF mode = "queue" THEN Gaps(backfill) ELSE {})
      /\ owed' = owed \union Gaps(backfill)
      /\ UNCHANGED <<row, dead, ops, wk>> /\ call' = NoCall
  BY DEF PromoteCommit
<1>5. TypeOK'
  BY <1>1, <1>3, <1>4 DEF Inv, TypeOK, Call, NoCall, Format
<1>6. owed' \subseteq Present'
  BY <1>3, <1>4 DEF Inv, Present
<1>7. ASSUME NEW j \in owed' PROVE Kept(j)'
  <2>1. CASE mode = "queue"
    BY <2>1, <1>1, <1>4 DEF Inv, Kept, Awaits
  <2>2. CASE mode = "cursor"
    <3>1. j \in Key /\ j > 0
      BY <1>5 DEF TypeOK, Key
    <3>2. CASE j \in Gaps("missing")
      <4>1. Awaits(j)'
        BY <2>2, <3>1, <3>2, <1>1, <1>4 DEF Awaits, Gaps, Texts
      <4>2. QED BY <4>1, <2>2, <1>2, <1>4 DEF Kept
    <3>3. CASE j \in owed
      <4>1. Kept(j)
        BY <3>3 DEF Inv
      <4>2. Awaits(j) => Awaits(j)'
        BY <2>2, <3>1, <1>1, <1>4 DEF Awaits
      <4>3. QED BY <4>1, <4>2, <2>2, <1>4 DEF Kept
    <3>4. QED BY <3>2, <3>3, <2>2, <1>2, <1>4
  <2>3. QED BY <2>1, <2>2
<1>8. entry'.sync => entry'.trig = entry'.format
  BY <1>1 DEF Inv, PromoteCommit
<1>9. wk'.phase = "feed" => entry'.mode = "cursor" /\ wk'.wm = entry'.wm
  BY <1>1, <1>2, <1>4 DEF Inv
<1>10. QED BY <1>4, <1>5, <1>6, <1>7, <1>8, <1>9 DEF Inv, NoCall

LEMMA CallStepInv ==
    ASSUME ~Overlap, Inv, CallStep
    PROVE  Inv'
PROOF
<1>1. ASSUME PromoteLoad PROVE Inv'
  <2>1. /\ UNCHANGED <<row, entry, pending, dead, ops, wk, owed>>
        /\ call' = [open |-> TRUE, format |-> entry.format]
    BY <1>1 DEF PromoteLoad
  <2>2. TypeOK'
    BY <2>1 DEF Inv, TypeOK, Call, Entry
  <2>3. QED BY <2>1, <2>2 DEF Inv, Kept, Awaits, Present
<1>2. ASSUME PromoteFails PROVE Inv'
  <2>1. TypeOK'
    BY <1>2 DEF PromoteFails, Inv, TypeOK, Call, NoCall, Format
  <2>2. QED BY <1>2, <2>1 DEF PromoteFails, Inv, Kept, Awaits, Present, NoCall
<1>3. QED BY <1>1, <1>2, SetFormatInv, PromoteInv DEF CallStep

-----------------------------------------------------------------------------
(***************************************************************************)
(* The worker.                                                             *)
(***************************************************************************)

LEMMA IdleType == Idle \in Worker
PROOF BY AdoptedAssumption DEF Idle, Worker

LEMMA ClaimInv ==
    ASSUME Inv, NEW C \in SUBSET pending, Claim(C)
    PROVE  Inv'
PROOF
<1>1. wk.items = {} /\ wk.fresh = {}
  BY DEF Inv, TypeOK, Claim
<1>2. C \in SUBSET Key
  BY DEF Inv, TypeOK
<1>3. /\ wk' \in Worker /\ wk'.fresh = C \intersect Present
      /\ wk'.items = C \intersect Present /\ wk'.nil \subseteq wk'.items
      /\ wk'.phase # "feed" /\ (wk'.phase # "batch" => wk'.items = {})
  <2>1. CASE C \intersect Present = {}
    BY <2>1, IdleType DEF Claim, Idle
  <2>2. CASE C \intersect Present # {}
    BY <2>2, <1>2, IdleType, ZenonT(60), SMTT(20) DEF Claim, Idle, Worker
  <2>3. QED BY <2>1, <2>2
<1>4. TypeOK'
  BY <1>3 DEF Inv, TypeOK, Claim
<1>5. owed' \subseteq Present'
  BY DEF Inv, Claim, Present
<1>6. ASSUME NEW j \in owed' PROVE Kept(j)'
  <2>1. j \in owed /\ (j \in C => j \in Present) /\ Kept(j)
    BY DEF Inv, Claim
  <2>2. Awaits(j) => Awaits(j)'
    BY DEF Claim, Awaits
  <2>3. QED BY <2>1, <2>2, <1>1, <1>3 DEF Claim, Kept
<1>7. QED BY <1>3, <1>4, <1>5, <1>6 DEF Inv, Claim

LEMMA WriteBackInv ==
    ASSUME Inv, NEW out \in [wk.items -> Outcome], WriteBack(out)
    PROVE  Inv'
PROOF
<1> DEFINE On(o) == {k \in wk.items : out[k] = o}
<1>1. /\ row' = [k \in Key |-> IF k \in On("ok") /\ k \in Present
                   THEN [row[k] EXCEPT !.vec = IF k \in wk.nil THEN "null" ELSE "made"]
                   ELSE row[k]]
      /\ pending' = pending \union On("retry") /\ dead' = dead \union On("dead")
      /\ owed' = owed \ ((On("ok") \union On("dead")) \intersect wk.fresh)
      /\ wk' = Idle /\ UNCHANGED <<entry, ops, call>>
  BY DEF WriteBack
<1>2. wk.items \subseteq Key /\ wk.fresh \subseteq wk.items
  BY DEF Inv, TypeOK, Worker
<1>3. \A o : On(o) \subseteq wk.items
  OBVIOUS
<1>4. \A j \in wk.items : j \in On("ok") \/ j \in On("retry") \/ j \in On("dead")
  BY DEF Outcome
<1>5. ASSUME NEW j \in Key
      PROVE  row'[j] \in Row /\ row'[j].kind = row[j].kind /\ (j \notin wk.items => row'[j] = row[j])
  BY <1>1, <1>3 DEF Inv, TypeOK, Row
<1> HIDE DEF On
<1>6. row' \in [Key -> Row]
  BY <1>1, <1>5
<1>7. TypeOK'
  BY <1>1, <1>2, <1>3, <1>6, IdleType DEF Inv, TypeOK, Idle
<1>8. owed' \subseteq Present'
  BY <1>1, <1>5 DEF Inv, Present
<1>9. ASSUME NEW j \in owed' PROVE Kept(j)'
  <2>1. j \in owed /\ Kept(j) /\ j \in Key /\ ~(j \in On("ok") \union On("dead") /\ j \in wk.fresh)
    BY <1>1 DEF Inv, TypeOK
  <2>2. CASE j \in pending
    BY <2>2, <1>1 DEF Kept
  <2>3. CASE j \in wk.fresh
    BY <2>3, <2>1, <1>1, <1>2, <1>4 DEF Kept
  <2>4. CASE Awaits(j) /\ j \notin wk.items
    BY <2>4, <2>1, <1>1, <1>5, ZenonT(60), SMTT(20) DEF Kept, Awaits, Idle
  <2>5. QED BY <2>1, <2>2, <2>3, <2>4 DEF Kept
<1>10. QED BY <1>1, <1>7, <1>8, <1>9 DEF Inv, Idle

LEMMA FeedCommitInv ==
    ASSUME Inv, FeedCommit
    PROVE  Inv'
PROOF
<1>1. /\ wk.phase = "feed" /\ wk' = Idle /\ UNCHANGED <<row, dead, ops, call, owed>>
      /\ entry.mode = "cursor" /\ wk.wm = entry.wm /\ wk.items = {} /\ wk.fresh = {}
  BY DEF Inv, TypeOK, FeedCommit
<1>2. TypeOK /\ owed \subseteq Present /\ \A j \in owed : Kept(j)
  BY DEF Inv
<1>3. ASSUME NEW j \in owed, Awaits(j)
      PROVE  j \in Ahead
  BY <1>1, <1>2, <1>3 DEF Awaits, Ahead, Gaps, Texts, TypeOK
<1>4. CASE FeedFull
  <2>1. UNCHANGED <<entry, pending>>
    BY <1>4 DEF FeedCommit
  <2>2. TypeOK'
    BY <2>1, <1>1, <1>2, IdleType DEF TypeOK, Idle
  <2>3. QED BY <2>1, <2>2, <1>1, <1>2 DEF Inv, Kept, Awaits, Present, Idle
<1>5. CASE ~FeedFull /\ Ahead = {}
  <2>1. entry' = [entry EXCEPT !.mode = "done", !.wm = 0] /\ UNCHANGED pending
    BY <1>5 DEF FeedCommit
  <2>2. entry' \in Entry /\ entry'.sync = entry.sync /\ entry'.trig = entry.trig
          /\ entry'.format = entry.format
    <3>1. 0 \in 0 .. N
      BY AdoptedAssumption
    <3>2. entry' = [sync |-> entry.sync, trig |-> entry.trig, format |-> entry.format,
                    mode |-> "done", wm |-> 0]
      BY <2>1, <1>2, ZenonT(60), SMTT(20) DEF TypeOK, Entry
    <3>3. QED BY <3>1, <3>2, <1>2 DEF TypeOK, Entry
  <2>3. TypeOK'
    BY <2>1, <2>2, <1>1, <1>2, IdleType DEF TypeOK, Idle
  <2>4. \A j \in owed' : Kept(j)'
    BY <2>1, <1>1, <1>2, <1>3, <1>5 DEF Kept
  <2>5. QED BY <2>2, <2>3, <2>4, <1>1, <1>2 DEF Inv, Present, Idle
<1>6. CASE ~FeedFull /\ Ahead # {}
  <2>1. entry' = [entry EXCEPT !.wm = LastRow] /\ pending' = pending \union NextRows
    BY <1>6 DEF FeedCommit
  <2>2. LastRow \in Key /\ NextRows \subseteq Key
    BY <1>2, <1>6, PassLeavesLater
  <2>3. entry' \in Entry /\ entry'.sync = entry.sync /\ entry'.trig = entry.trig
          /\ entry'.format = entry.format /\ entry'.mode = entry.mode /\ entry'.wm = LastRow
    BY <2>1, <2>2, <1>2, AdoptedAssumption DEF TypeOK, Entry, Key
  <2>4. TypeOK'
    BY <2>1, <2>2, <2>3, <1>1, <1>2, IdleType DEF TypeOK, Idle
  <2>5. ASSUME NEW j \in owed' PROVE Kept(j)'
    <3>1. j \in owed /\ Kept(j)
      BY <1>1, <1>2
    <3>2. CASE j \in pending
      BY <3>2, <2>1, <1>1 DEF Kept
    <3>3. CASE Awaits(j)
      <4>1. j \in NextRows \/ j > LastRow
        BY <3>1, <3>3, <1>2, <1>3, PassLeavesLater
      <4>2. j > LastRow => Awaits(j)'
        BY <3>3, <2>3, <1>1 DEF Awaits
      <4>3. QED BY <4>1, <4>2, <2>1, <1>1 DEF Kept, Idle
    <3>4. QED BY <3>1, <3>2, <3>3, <1>1 DEF Kept
  <2>6. QED BY <2>3, <2>4, <2>5, <1>1, <1>2 DEF Inv, Present, Idle
<1>7. QED BY <1>4, <1>5, <1>6

LEMMA FeedInv ==
    ASSUME Inv, FeedLoad \/ FeedAborts
    PROVE  Inv'
PROOF
<1>1. UNCHANGED <<row, entry, pending, dead, ops, call, owed>>
  BY DEF FeedLoad, FeedAborts
<1>2. wk.fresh = {} /\ wk.items = {} /\ entry.wm \in 0 .. N
  BY DEF Inv, TypeOK, Entry, FeedLoad, FeedAborts
<1>3. /\ wk' \in Worker /\ wk'.fresh = {} /\ wk'.items = {} /\ wk'.nil = {}
      /\ wk'.phase = "feed" => entry.mode = "cursor" /\ wk'.wm = entry.wm
  <2>1. CASE FeedLoad
    BY <2>1, <1>2, IdleType, ZenonT(60), SMTT(20) DEF FeedLoad, Idle, Worker
  <2>2. CASE FeedAborts
    BY <2>2, IdleType DEF FeedAborts, Idle
  <2>3. QED BY <2>1, <2>2
<1>4. TypeOK'
  BY <1>1, <1>3 DEF Inv, TypeOK
<1>5. \A j \in owed' : Kept(j)'
  BY <1>1, <1>2, <1>3 DEF Inv, Kept, Awaits
<1>6. QED BY <1>1, <1>3, <1>4, <1>5 DEF Inv, Present

-----------------------------------------------------------------------------

LEMMA InitInv == Init => Inv
PROOF
<1> SUFFICES ASSUME Init PROVE Inv
  OBVIOUS
<1>1. PICK sync \in BOOLEAN, mode \in Modes, backfill \in {"missing", "all"} :
          /\ mode = "cursor" => backfill = "missing"
          /\ entry = [sync |-> sync, trig |-> IF sync THEN "body" ELSE "none",
                      format |-> "body", mode |-> mode, wm |-> 0]
          /\ owed = IF mode = "none" THEN {} ELSE Gaps(backfill)
          /\ pending = IF mode = "queue" THEN Gaps(backfill) ELSE {}
  BY DEF Init
<1>2. entry \in Entry /\ row \in [Key -> Row]
  BY <1>1, AdoptedAssumption DEF Init, Entry, Format
<1>3. Gaps(backfill) \subseteq Texts /\ Texts \subseteq Key /\ Texts \subseteq Present
  BY DEF Gaps, Texts, Present
<1>4. dead = {} /\ ops \in 0 .. MaxOps /\ call \in Call /\ ~call.open
  BY AdoptedAssumption DEF Init, NoCall, Call, Format
<1>5. wk = Idle /\ wk \in Worker
  BY IdleType DEF Init
<1>6. TypeOK
  BY <1>1, <1>2, <1>3, <1>4, <1>5 DEF TypeOK, Idle
<1>7. ASSUME NEW j \in owed PROVE Kept(j)
  <2>1. CASE mode = "queue"
    BY <2>1, <1>1 DEF Kept
  <2>2. CASE mode = "cursor"
    <3>1. j \in Gaps("missing") /\ j \in Key
      BY <2>2, <1>1, <1>3
    <3>2. row[j].kind = "text" /\ row[j].vec = "null"
      BY <3>1 DEF Gaps, Texts
    <3>3. j > entry.wm /\ entry.mode = "cursor"
      BY <2>2, <3>1, <1>1 DEF Key
    <3>4. QED BY <3>2, <3>3, <1>5 DEF Kept, Awaits, Idle
  <2>3. QED BY <2>1, <2>2, <1>1, AdoptedAssumption
<1>8. QED BY <1>1, <1>3, <1>4, <1>5, <1>6, <1>7 DEF Inv, Idle

LEMMA NextInv ==
    ASSUME ~Overlap, Inv, [Next]_vars
    PROVE  Inv'
PROOF
<1>1. CASE UNCHANGED vars
  <2>1. TypeOK'
    BY <1>1 DEF vars, Inv, TypeOK
  <2>2. QED BY <1>1, <2>1 DEF vars, Inv, Kept, Awaits, Present
<1>2. CASE Next
  BY <1>2, UserStepInv, CallStepInv, ClaimInv, WriteBackInv, FeedCommitInv, FeedInv
    DEF Next, WriteStep
<1>3. QED BY <1>1, <1>2

\* Every vector postvec has undertaken to write keeps a job, a right text in
\* flight or the cursor ahead until it is written or dead-lettered: adopt() with any backfill, the
\* triggers, set_format() and the cursor's passes, for every table, pass and
\* batch size.  Overlap stands for two races of promote_observed_entry that do
\* lose vectors: with set_format(), and of a restarted cursor with the worker.
THEOREM OwedStaysTracked ==
    ASSUME ~Overlap
    PROVE  Spec => []OwedTracked
PROOF
<1>1. Inv => OwedTracked
  BY DEF Inv, Kept, OwedTracked
<1>2. Inv /\ [Next]_vars => Inv'
  BY NextInv
<1>3. QED BY InitInv, <1>1, <1>2, PTL DEF Spec

=============================================================================
