----------------------- MODULE InferenceServerProofs -----------------------
(***************************************************************************)
(* The permits of the inference server and the provider gateway, for any   *)
(* requests, providers, reloads and bounds.                                *)
(***************************************************************************)
EXTENDS InferenceServer, FiniteSetTheorems, TLAPS

\* The provers that a leaf tries in turn when it names none.
USE SMTT(20), Z3T(20), SMTT(40), Z3T(40), ZenonT(20)

-----------------------------------------------------------------------------
(***************************************************************************)
(* The inductive invariant.                                                *)
(***************************************************************************)

Req == [at: Places, model: Providers \cup {Local}, snap: Nat, sized: Nat, chunks: Nat,
        tries: Nat, late: BOOLEAN]

Rec == [at: {"idle", "built", "swapped", "counted", "raised"}, inner: Directories \cup {<<>>},
        old: Nat]

\* A reload has the directory it read, and raises what it exceeds.
RecOK(x) ==
    /\ x.at \in {"built", "counted", "raised"} => x.inner \in Directories
    /\ x.at = "raised" => InflightBudget(x.inner) > x.old

Types ==
    /\ snaps \in Seq(Directories) /\ Len(snaps) >= 1
    /\ granted \in Nat /\ ingress \in Nat
    /\ reload \in [Reloaders -> Rec]
    /\ \A w \in Reloaders : RecOK(reload[w])
    /\ req \in [Requests -> Req]
    /\ slots \subseteq Requests
    /\ permits \in [Requests -> Nat \X (Providers \cup {Local})]

\* The permits a reload has yet to add, numbered in the order that fetch_max
\* gave them out.
Owes(x) == IF x.at = "raised" THEN (x.old + 1) .. InflightBudget(x.inner) ELSE {}
Owed == {n \in 1 .. granted : \E w \in Reloaders : n \in Owes(reload[w])}

\* No permit is owed twice, and the permits added and owed are those granted.
LedgerInv ==
    /\ \A w \in Reloaders : Owes(reload[w]) \subseteq 1 .. granted
    /\ \A v, w \in Reloaders : v # w => Owes(reload[v]) \cap Owes(reload[w]) = {}
    /\ ingress + Cardinality(Owed) = MaxInflight + granted

\* The budget of the current snapshot is granted, or some reload is on its
\* way to grant it: one that has not counted yet, or one that counted it.
CoverInv ==
    \/ \E w \in Reloaders : reload[w].at = "swapped"
    \/ \E w \in Reloaders : reload[w].at = "counted" /\ reload[w].inner = Current
    \/ granted >= InflightBudget(Current)

ReloadInv == LedgerInv /\ CoverInv

\* What a request holds at each place of its handler.
ReqOK(r) ==
    /\ req[r].snap <= Len(snaps) /\ permits[r][1] <= Len(snaps)
    /\ req[r].at = "predict" => r \in slots
    /\ req[r].at = "body" /\ req[r].model = Local => r \in slots
    /\ req[r].at \in {"owned", "sized", "weighed", "chunk", "paid", "backoff"} => req[r].model # Local
    /\ req[r].at \in {"paid", "backoff"} => permits[r] = <<req[r].snap, req[r].model>>

SlotInv == IsFiniteSet(slots) /\ Cardinality(slots) <= MaxInflight

CapInv ==
    \A s \in DOMAIN snaps : \A p \in DOMAIN snaps[s] :
        IsFiniteSet(Holding(s, p)) /\ Cardinality(Holding(s, p)) <= snaps[s][p].cap

IInv == Types /\ ReloadInv /\ (\A r \in Requests : ReqOK(r)) /\ SlotInv /\ CapInv

-----------------------------------------------------------------------------
(***************************************************************************)
(* Lemmas.                                                                 *)
(***************************************************************************)

\* The current snapshot is one of the directory's contents.
LEMMA CurrentIs ==
    ASSUME Types
    PROVE  /\ Len(snaps) \in Nat /\ DOMAIN snaps = 1 .. Len(snaps)
           /\ \A s \in DOMAIN snaps : snaps[s] \in Directories
           /\ Current \in Directories
BY DEF Types, Current

\* The initial states satisfy the invariant.
LEMMA InitInv == Init => IInv
<1> SUFFICES ASSUME Init PROVE IInv
  OBVIOUS
<1>1. PICK d \in Boot :
        snaps = <<d>> /\ granted = InflightBudget(d) /\ ingress = MaxInflight + InflightBudget(d)
  BY DEF Init
<1>2. /\ reload = [w \in Reloaders |-> ReloadIdle]
      /\ req = [r \in Requests |-> Fresh] /\ slots = {} /\ permits = [r \in Requests |-> NoPermit]
  BY DEF Init
<1>3. Fresh \in Req /\ NoPermit \in Nat \X (Providers \cup {Local})
  BY DEF Fresh, Req, Places, NoPermit
<1>0. d \in Directories
  BY ServerAssumption
<1>4. snaps \in Seq(Directories) /\ Len(snaps) = 1 /\ Current = d
  BY <1>0, <1>1 DEF Current
<1>5. granted \in Nat /\ ingress \in Nat
  BY <1>0, <1>1, BudgetAssumption, ServerAssumption
<1>11. ReloadIdle \in Rec /\ RecOK(ReloadIdle) /\ Owes(ReloadIdle) = {}
  BY DEF ReloadIdle, Rec, RecOK, Owes
<1>6. Types
  BY <1>2, <1>3, <1>4, <1>5, <1>11 DEF Types
<1>7. ReloadInv
  <2>1. \A w \in Reloaders : Owes(reload[w]) = {}
    BY <1>2, <1>11
  <2>2. Owed = {} /\ Cardinality(Owed) = 0
    BY <2>1, FS_EmptySet DEF Owed
  <2>3. LedgerInv
    BY <1>1, <1>5, <2>1, <2>2, ServerAssumption DEF LedgerInv
  <2> QED
    BY <1>1, <1>4, <1>5, <2>3 DEF ReloadInv, CoverInv
<1>8. ASSUME NEW r \in Requests PROVE ReqOK(r)
  BY <1>2, <1>4 DEF ReqOK, Fresh, NoPermit
<1>9. SlotInv
  BY <1>2, FS_EmptySet, ServerAssumption DEF SlotInv
<1>10. CapInv
  <2> SUFFICES ASSUME NEW s \in DOMAIN snaps, NEW p \in DOMAIN snaps[s]
               PROVE  IsFiniteSet(Holding(s, p)) /\ Cardinality(Holding(s, p)) <= snaps[s][p].cap
    BY DEF CapInv
  <2>1. s = 1 /\ snaps[s] = d
    BY <1>1
  <2>2. Holding(s, p) = {}
    BY <1>2, <2>1 DEF Holding, NoPermit
  <2>3. snaps[s][p].cap \in Nat
    BY <2>1, ServerAssumption
  <2> QED
    BY <2>2, <2>3, FS_EmptySet
<1> QED
  BY <1>6, <1>7, <1>8, <1>9, <1>10 DEF IInv

\* The ledger depends on the reloads and the two counters only.
LEMMA LedgerKept ==
    ASSUME LedgerInv, UNCHANGED <<granted, ingress, reload>>
    PROVE  LedgerInv'
<1>1. granted' = granted /\ ingress' = ingress /\ reload' = reload
  OBVIOUS
<1>2. Owed' = Owed
  BY <1>1, ZenonT(60), SMTT(20) DEF Owed, Owes
<1> QED
  BY <1>1, <1>2, ZenonT(60), SMTT(20) DEF LedgerInv, Owes

\* A step of a request that takes no permit, and the state of all others.
LEMMA ReqKept ==
    ASSUME IInv, NEW r \in Requests, UNCHANGED reloading,
           req' \in [Requests -> Req], \A q \in Requests \ {r} : req'[q] = req[q],
           slots' \subseteq slots, slots \ {r} \subseteq slots',
           permits' \in [Requests -> Nat \X (Providers \cup {Local})],
           \A q \in Requests \ {r} : permits'[q] = permits[q],
           permits'[r] \in {permits[r], NoPermit}, ReqOK(r)'
    PROVE  IInv'
<1>0. Types /\ ReloadInv /\ SlotInv /\ CapInv
  BY DEF IInv
<1>1. UNCHANGED <<snaps, granted, ingress, reload>>
  BY DEF reloading
<1>2. Types'
  BY <1>0, <1>1 DEF Types
<1>3. ReloadInv'
  BY <1>0, <1>1, LedgerKept DEF ReloadInv, CoverInv, Current
<1>4. ASSUME NEW q \in Requests PROVE ReqOK(q)'
  <2>1. CASE q # r
    <3>1. ReqOK(q) /\ req'[q] = req[q] /\ permits'[q] = permits[q] /\ (q \in slots => q \in slots')
      BY <2>1 DEF IInv
    <3> QED
      BY <1>1, <3>1 DEF ReqOK
  <2> QED
    BY <2>1
<1>5. SlotInv'
  <2>1. IsFiniteSet(slots') /\ Cardinality(slots') <= Cardinality(slots) /\ Cardinality(slots) \in Nat
        /\ Cardinality(slots') \in Nat
    BY <1>0, FS_Subset, FS_CardinalityType DEF SlotInv
  <2> QED
    BY <1>0, <2>1, ServerAssumption DEF SlotInv
<1>6. CapInv'
  <2> SUFFICES ASSUME NEW s \in DOMAIN snaps, NEW p \in DOMAIN snaps[s]
               PROVE  IsFiniteSet(Holding(s, p)') /\ Cardinality(Holding(s, p)') <= snaps[s][p].cap
    BY <1>1 DEF CapInv
  <2>1. s # 0
    BY <1>0, CurrentIs
  <2>2. Holding(s, p)' \subseteq Holding(s, p)
    BY <2>1 DEF Holding, NoPermit
  <2>3. IsFiniteSet(Holding(s, p)) /\ Cardinality(Holding(s, p)) <= snaps[s][p].cap
    BY <1>0 DEF CapInv
  <2>4. IsFiniteSet(Holding(s, p)') /\ Cardinality(Holding(s, p)') <= Cardinality(Holding(s, p))
    BY <2>2, <2>3, FS_Subset
  <2>5. Cardinality(Holding(s, p)) \in Nat /\ Cardinality(Holding(s, p)') \in Nat
    BY <2>3, <2>4, FS_CardinalityType
  <2>6. snaps[s][p].cap \in Nat
    BY <1>0, CurrentIs, ServerAssumption
  <2> QED
    BY <2>3, <2>4, <2>5, <2>6
<1> QED
  BY <1>2, <1>3, <1>4, <1>5, <1>6 DEF IInv

\* Every way out of the handler.
LEMMA RefuseInv ==
    ASSUME IInv, NEW r \in Requests, Refuse(r)
    PROVE  IInv'
<1>1. Types
  BY DEF IInv
<1>2. Fresh \in Req
  BY DEF Fresh, Req, Places
<1>3. Done \in Req /\ Done.at = "done" /\ Done.snap = 0
  BY <1>2, ZenonT(60), SMTT(20) DEF Done, Req, Places, Answered, Fresh
<1>4. /\ req' \in [Requests -> Req] /\ req'[r] = Done /\ \A q \in Requests \ {r} : req'[q] = req[q]
  BY <1>1, <1>3 DEF Refuse, Types
<1>5. NoPermit \in Nat \X (Providers \cup {Local}) /\ NoPermit[1] = 0
  BY DEF NoPermit
<1>6. /\ permits' \in [Requests -> Nat \X (Providers \cup {Local})] /\ permits'[r] = NoPermit
      /\ \A q \in Requests \ {r} : permits'[q] = permits[q]
      /\ slots' = slots \ {r} /\ UNCHANGED reloading
  BY <1>1, <1>5 DEF Refuse, Release, Types
<1>7. ReqOK(r)'
  <2>1. Len(snaps') \in Nat
    BY <1>1, <1>6 DEF Types, reloading
  <2> QED
    BY <1>3, <1>4, <1>5, <1>6, <2>1 DEF ReqOK
<1> QED
  BY <1>4, <1>6, <1>7, ReqKept

\* A step that moves a request and changes no permit.
LEMMA MoveInv ==
    ASSUME IInv, NEW r \in Requests, UNCHANGED <<reloading, holds>>,
           req' = [req EXCEPT ![r] = req'[r]], req'[r] \in Req, ReqOK(r)'
    PROVE  IInv'
<1>1. Types /\ UNCHANGED <<slots, permits>> /\ UNCHANGED reloading
  BY DEF IInv, holds
<1>2. req' \in [Requests -> Req] /\ \A q \in Requests \ {r} : req'[q] = req[q]
  BY <1>1, ZenonT(60), SMTT(20) DEF Types
<1> QED
  BY <1>1, <1>2, ReqKept DEF Types

-----------------------------------------------------------------------------
(***************************************************************************)
(* The request path.                                                       *)
(***************************************************************************)

\* What Goto leaves of a request.
LEMMA GotoFields ==
    ASSUME Types, NEW r \in Requests, NEW place \in Places, Goto(r, place)
    PROVE  /\ req' = [req EXCEPT ![r] = req'[r]] /\ req'[r] \in Req
           /\ req'[r].at = place /\ req'[r].model = req[r].model /\ req'[r].snap = req[r].snap
<1>1. req[r] \in Req
  BY DEF Types
<1>2. req' = [req EXCEPT ![r] = [req[r] EXCEPT !.at = place]]
  BY DEF Goto
<1>3. req'[r] = [req[r] EXCEPT !.at = place]
  BY <1>2 DEF Types
<1>4. req' = [req EXCEPT ![r] = req'[r]]
  BY <1>2, <1>3, ZenonT(60), SMTT(20)
<1>5. req'[r] \in Req
  BY <1>1, <1>3 DEF Req
<1>6. req'[r].at = place /\ req'[r].model = req[r].model /\ req'[r].snap = req[r].snap
  BY <1>1, <1>3 DEF Req
<1> QED
  BY <1>4, <1>5, <1>6

\* A call is sent, admitted, or its deadline passes.
LEMMA ArriveInv ==
    ASSUME IInv, NEW r \in Requests,
           \/ Send(r, Local, 1)
           \/ \E p \in Providers : \E c \in 1 .. MaxChunks[p] : Send(r, p, c)
           \/ Admit(r)
           \/ DeadlinePasses(r)
    PROVE  IInv'
<1>0. Types /\ ReqOK(r) /\ req[r] \in Req
  BY DEF IInv, Types
<1>1. ASSUME NEW m \in Providers \cup {Local}, NEW c \in Nat, Send(r, m, c) PROVE IInv'
  <2>1. req' = [req EXCEPT ![r] = [req[r] EXCEPT !.at = "queued", !.model = m, !.chunks = c]]
        /\ UNCHANGED <<reloading, holds>>
    BY <1>1, ZenonT(60), SMTT(20) DEF Send
  <2>2. req'[r] = [req[r] EXCEPT !.at = "queued", !.model = m, !.chunks = c]
    BY <1>0, <2>1 DEF Types
  <2>3. req'[r] \in Req /\ req'[r].at = "queued" /\ req'[r].snap = req[r].snap
    BY <1>0, <2>2, ZenonT(60), SMTT(20) DEF Req, Places
  <2>4. ReqOK(r)'
    BY <1>0, <2>1, <2>3 DEF ReqOK, reloading, holds
  <2> QED
    BY <2>1, <2>2, <2>3, <2>4, MoveInv, ZenonT(60), SMTT(20)
<1>2. ASSUME NEW p \in Providers, NEW c \in 1 .. MaxChunks[p], Send(r, p, c) PROVE IInv'
  <2>1. c \in Nat
    BY ServerAssumption
  <2> QED
    BY <1>1, <1>2, <2>1
<1>3. CASE Admit(r)
  <2>1. req' = [req EXCEPT ![r] = [req[r] EXCEPT !.at = "entered", !.late = FALSE]]
        /\ UNCHANGED <<reloading, holds>>
    BY <1>3, ZenonT(60), SMTT(20) DEF Admit
  <2>2. req'[r] = [req[r] EXCEPT !.at = "entered", !.late = FALSE]
    BY <1>0, <2>1 DEF Types
  <2>3. req'[r] \in Req /\ req'[r].at = "entered" /\ req'[r].snap = req[r].snap
    BY <1>0, <2>2, ZenonT(60), SMTT(20) DEF Req, Places, InHandler
  <2>4. ReqOK(r)'
    BY <1>0, <2>1, <2>3 DEF ReqOK, reloading, holds
  <2> QED
    BY <2>1, <2>2, <2>3, <2>4, MoveInv, ZenonT(60), SMTT(20)
<1>4. CASE DeadlinePasses(r)
  <2>1. req' = [req EXCEPT ![r] = [req[r] EXCEPT !.late = TRUE]] /\ UNCHANGED <<reloading, holds>>
    BY <1>4 DEF DeadlinePasses
  <2>2. req'[r] = [req[r] EXCEPT !.late = TRUE]
    BY <1>0, <2>1 DEF Types
  <2>3. req'[r] \in Req /\ req'[r].at = req[r].at /\ req'[r].model = req[r].model
        /\ req'[r].snap = req[r].snap
    BY <1>0, <2>2, ZenonT(60), SMTT(20) DEF Req
  <2>4. ReqOK(r)'
    BY <1>0, <2>1, <2>3 DEF ReqOK, reloading, holds
  <2> QED
    BY <2>1, <2>2, <2>3, <2>4, MoveInv, ZenonT(60), SMTT(20)
<1>5. 1 \in Nat
  OBVIOUS
<1> QED
  BY <1>1, <1>2, <1>3, <1>4, <1>5

\* The dispatch, the prediction and the end of a back-off.
LEMMA MovesInv ==
    ASSUME IInv, NEW r \in Requests,
           DispatchEngine(r) \/ DispatchGateway(r) \/ Predicted(r) \/ Again(r)
    PROVE  IInv'
<1>0. Types /\ ReqOK(r) /\ UNCHANGED <<reloading, holds>>
  BY DEF IInv, DispatchEngine, DispatchGateway, Predicted, Again
<1>1. UNCHANGED <<snaps, slots, permits>>
  BY <1>0 DEF reloading, holds
<1>2. PICK place \in {"slot", "owned", "body", "paid"} :
        /\ Goto(r, place)
        /\ place = "owned" => req[r].model \in DOMAIN Current
        /\ place = "body" => req[r].at = "predict"
        /\ place = "paid" => req[r].at = "backoff"
  BY DEF DispatchEngine, DispatchGateway, Predicted, Again
<1>3. place \in Places
  BY DEF Places, InHandler, Answered
<1>4. /\ req' = [req EXCEPT ![r] = req'[r]] /\ req'[r] \in Req
      /\ req'[r].at = place /\ req'[r].model = req[r].model /\ req'[r].snap = req[r].snap
  BY <1>0, <1>2, <1>3, GotoFields
<1>5. place = "owned" => req[r].model # Local
  BY <1>0, <1>2, CurrentIs, ServerAssumption
<1>6. ReqOK(r)'
  BY <1>0, <1>1, <1>2, <1>4, <1>5 DEF ReqOK
<1> QED
  BY <1>0, <1>4, <1>6, MoveInv

\* The gateway path up to the first sub-batch, and a retry.
LEMMA GatewayInv ==
    ASSUME IInv, NEW r \in Requests,
           SizeResponse(r) \/ TakeSnapshot(r) \/ Retry(r)
    PROVE  IInv'
<1>0. Types /\ ReqOK(r) /\ req[r] \in Req /\ UNCHANGED <<reloading, holds>>
  BY DEF IInv, Types, SizeResponse, TakeSnapshot, Retry
<1>1. UNCHANGED <<snaps, slots, permits>> /\ Len(snaps) \in Nat
  BY <1>0 DEF reloading, holds, Types
<1>2. CASE SizeResponse(r)
  <2>1. req' = [req EXCEPT ![r] = [req[r] EXCEPT !.at = "sized", !.sized = Len(snaps)]]
        /\ req[r].at = "owned"
    BY <1>2, ZenonT(60), SMTT(20) DEF SizeResponse
  <2>3. req'[r] = [req[r] EXCEPT !.at = "sized", !.sized = Len(snaps)]
    BY <1>0, <2>1 DEF Types
  <2>4. req'[r] \in Req /\ req'[r].at = "sized" /\ req'[r].model = req[r].model
        /\ req'[r].snap = req[r].snap
    BY <1>0, <1>1, <2>3, ZenonT(60), SMTT(20) DEF Req, Places, InHandler
  <2>5. ReqOK(r)'
    BY <1>0, <1>1, <2>1, <2>4 DEF ReqOK
  <2> QED
    BY <1>0, <2>1, <2>3, <2>4, <2>5, MoveInv, ZenonT(60), SMTT(20)
<1>3. CASE TakeSnapshot(r)
  <2>1. req' = [req EXCEPT ![r] = [req[r] EXCEPT !.at = "chunk", !.snap = Len(snaps)]]
        /\ req[r].at = "weighed"
    BY <1>3, ZenonT(60), SMTT(20) DEF TakeSnapshot
  <2>2. req'[r] = [req[r] EXCEPT !.at = "chunk", !.snap = Len(snaps)]
    BY <1>0, <2>1 DEF Types
  <2>3. req'[r] \in Req /\ req'[r].at = "chunk" /\ req'[r].model = req[r].model
        /\ req'[r].snap = Len(snaps)
    BY <1>0, <1>1, <2>2, ZenonT(60), SMTT(20) DEF Req, Places, InHandler
  <2>4. ReqOK(r)'
    BY <1>0, <1>1, <2>1, <2>3 DEF ReqOK
  <2> QED
    BY <1>0, <2>1, <2>2, <2>3, <2>4, MoveInv, ZenonT(60), SMTT(20)
<1>4. CASE Retry(r)
  <2>1. req' = [req EXCEPT ![r] = [req[r] EXCEPT !.at = "backoff", !.tries = @ + 1]]
        /\ req[r].at = "paid"
    BY <1>4, ZenonT(60), SMTT(20) DEF Retry
  <2>2. req'[r] = [req[r] EXCEPT !.at = "backoff", !.tries = @ + 1]
    BY <1>0, <2>1 DEF Types
  <2>3. req'[r].at = "backoff" /\ req'[r].model = req[r].model /\ req'[r].snap = req[r].snap
    BY <1>0, <2>2 DEF Req
  <2>5. req'[r] \in Req
    <3>1. req[r].tries + 1 \in Nat /\ "backoff" \in Places
      BY <1>0 DEF Req, Places, InHandler
    <3> QED
      BY <1>0, <2>2, <3>1, ZenonT(60), SMTT(20) DEF Req
  <2>4. ReqOK(r)'
    BY <1>0, <1>1, <2>1, <2>3 DEF ReqOK
  <2> QED
    BY <1>0, <2>1, <2>2, <2>4, <2>5, MoveInv, ZenonT(60), SMTT(20)
<1> QED
  BY <1>2, <1>3, <1>4

\* The weight of a response is taken before the paid call.
LEMMA TakeBytesInv ==
    ASSUME IInv, NEW r \in Requests, TakeBytes(r)
    PROVE  IInv'
<1>0. Types /\ ReqOK(r) /\ req[r] \in Req /\ UNCHANGED <<reloading, slots, permits>>
  BY DEF IInv, Types, TakeBytes
<1>1. Goto(r, "weighed") /\ req[r].at = "sized" /\ "weighed" \in Places
  BY DEF TakeBytes, Places, InHandler
<1>2. /\ req' = [req EXCEPT ![r] = req'[r]] /\ req'[r] \in Req
      /\ req'[r].at = "weighed" /\ req'[r].model = req[r].model /\ req'[r].snap = req[r].snap
  BY <1>0, <1>1, GotoFields
<1>5. req' \in [Requests -> Req] /\ \A q \in Requests \ {r} : req'[q] = req[q]
  BY <1>0, <1>2 DEF Types
<1>6. ReqOK(r)'
  <2>1. UNCHANGED <<snaps, slots, permits>>
    BY <1>0 DEF reloading
  <2> QED
    BY <1>0, <1>1, <1>2, <2>1 DEF ReqOK
<1>7. /\ permits' \in [Requests -> Nat \X (Providers \cup {Local})]
      /\ \A q \in Requests : permits'[q] = permits[q]
  BY <1>0 DEF Types
<1>8. slots' \subseteq slots /\ slots \ {r} \subseteq slots' /\ UNCHANGED reloading
  BY <1>0
<1> QED
  BY <1>5, <1>6, <1>7, <1>8, ReqKept

\* The provider answers: the permit is given back.
LEMMA AnswersInv ==
    ASSUME IInv, NEW r \in Requests, ChunkDone(r) \/ Responded(r)
    PROVE  IInv'
<1>0. Types /\ ReqOK(r) /\ req[r] \in Req /\ UNCHANGED <<reloading, slots>> /\ req[r].at = "paid"
      /\ permits' = [permits EXCEPT ![r] = NoPermit]
  BY DEF IInv, Types, ChunkDone, Responded
<1>1. Len(snaps) \in Nat /\ req[r].model # Local /\ UNCHANGED snaps
  BY <1>0, CurrentIs DEF ReqOK, reloading
<1>2. NoPermit \in Nat \X (Providers \cup {Local}) /\ NoPermit[1] = 0
  BY DEF NoPermit
<1>3. /\ permits' \in [Requests -> Nat \X (Providers \cup {Local})] /\ permits'[r] = NoPermit
      /\ \A q \in Requests \ {r} : permits'[q] = permits[q]
  BY <1>0, <1>2 DEF Types
<1>4. ASSUME NEW x \in Req, req' = [req EXCEPT ![r] = x], x.at \in {"chunk", "body"},
             x.model = req[r].model, x.snap = req[r].snap
      PROVE  IInv'
  <2>1. req' \in [Requests -> Req] /\ req'[r] = x /\ \A q \in Requests \ {r} : req'[q] = req[q]
    BY <1>0, <1>4 DEF Types
  <2>2. ReqOK(r)'
    BY <1>0, <1>1, <1>2, <1>3, <1>4, <2>1 DEF ReqOK
  <2> QED
    BY <1>0, <1>3, <2>1, <2>2, ReqKept
<1>5. CASE ChunkDone(r)
  <2> DEFINE x == [req[r] EXCEPT !.at = "chunk", !.chunks = @ - 1, !.tries = 0]
  <2>1. req' = [req EXCEPT ![r] = x] /\ req[r].chunks > 1
    BY <1>5, ZenonT(60), SMTT(20) DEF ChunkDone
  <2>2. req[r].chunks - 1 \in Nat /\ "chunk" \in Places
    BY <1>0, <2>1 DEF Req, Places, InHandler
  <2>3. x \in Req
    BY <1>0, <2>2, ZenonT(60), SMTT(20) DEF Req
  <2>4. x.at = "chunk" /\ x.model = req[r].model /\ x.snap = req[r].snap
    BY <1>0 DEF Req
  <2> HIDE DEF x
  <2> QED
    BY <1>4, <2>1, <2>3, <2>4, ZenonT(60), SMTT(20)
<1>6. CASE Responded(r)
  <2> DEFINE x == [req[r] EXCEPT !.at = "body", !.tries = 0]
  <2>1. req' = [req EXCEPT ![r] = x]
    BY <1>6, ZenonT(60), SMTT(20) DEF Responded
  <2>2. "body" \in Places
    BY DEF Places, Answered
  <2>3. x \in Req
    BY <1>0, <2>2, ZenonT(60), SMTT(20) DEF Req
  <2>4. x.at = "body" /\ x.model = req[r].model /\ x.snap = req[r].snap
    BY <1>0 DEF Req
  <2> HIDE DEF x
  <2> QED
    BY <1>4, <2>1, <2>3, <2>4, ZenonT(60), SMTT(20)
<1> QED
  BY <1>5, <1>6

\* A response slot is taken below the limit.
LEMMA TakeSlotInv ==
    ASSUME IInv, NEW r \in Requests, TakeSlot(r)
    PROVE  IInv'
<1>0. Types /\ ReloadInv /\ SlotInv /\ CapInv /\ ReqOK(r) /\ Goto(r, "predict")
      /\ UNCHANGED <<reloading, permits>> /\ slots' = slots \cup {r} /\ Cardinality(slots) < MaxInflight
  BY DEF IInv, TakeSlot
<1>1. UNCHANGED <<snaps, granted, ingress, reload, permits>>
  BY <1>0 DEF reloading
<1>2. "predict" \in Places
  BY DEF Places, InHandler
<1>3. /\ req' = [req EXCEPT ![r] = req'[r]] /\ req'[r] \in Req
      /\ req'[r].at = "predict" /\ req'[r].model = req[r].model /\ req'[r].snap = req[r].snap
  BY <1>0, <1>2, GotoFields
<1>4. req' \in [Requests -> Req] /\ \A q \in Requests \ {r} : req'[q] = req[q]
  BY <1>0, <1>3 DEF Types
<1>5. Types'
  BY <1>0, <1>1, <1>4 DEF Types
<1>6. ReloadInv'
  BY <1>0, <1>1, LedgerKept DEF ReloadInv, CoverInv, Current
<1>7. ASSUME NEW q \in Requests PROVE ReqOK(q)'
  <2>1. CASE q = r
    BY <1>0, <1>1, <1>3, <2>1 DEF ReqOK
  <2>2. CASE q # r
    <3>1. ReqOK(q) /\ req'[q] = req[q] /\ (q \in slots => q \in slots')
      BY <1>0, <1>4, <2>2 DEF IInv
    <3> QED
      BY <1>1, <3>1 DEF ReqOK
  <2> QED
    BY <2>1, <2>2
<1>8. SlotInv'
  <2>1. Cardinality(slots) \in Nat /\ IsFiniteSet(slots)
    BY <1>0, FS_CardinalityType DEF SlotInv
  <2>2. IsFiniteSet(slots')
        /\ Cardinality(slots') = IF r \in slots THEN Cardinality(slots) ELSE Cardinality(slots) + 1
    BY <1>0, <2>1, FS_AddElement
  <2> QED
    BY <1>0, <2>1, <2>2, ServerAssumption DEF SlotInv
<1>9. CapInv'
  BY <1>0, <1>1 DEF CapInv, Holding
<1> QED
  BY <1>5, <1>6, <1>7, <1>8, <1>9 DEF IInv

\* A permit of the provider's semaphore is taken below its cap.
LEMMA TakePermitInv ==
    ASSUME IInv, NEW r \in Requests, TakePermit(r)
    PROVE  IInv'
<1> DEFINE t == req[r].snap
           m == req[r].model
<1>0. Types /\ ReloadInv /\ SlotInv /\ CapInv /\ ReqOK(r) /\ Goto(r, "paid") /\ req[r].at = "chunk"
      /\ UNCHANGED <<reloading, slots>> /\ permits' = [permits EXCEPT ![r] = <<t, m>>]
      /\ Cardinality(Holding(t, m)) < snaps[t][m].cap
  BY DEF IInv, TakePermit, Goto
<1>1. UNCHANGED <<snaps, granted, ingress, reload, slots>>
  BY <1>0 DEF reloading
<1>2. "paid" \in Places
  BY DEF Places, InHandler
<1>3. /\ req' = [req EXCEPT ![r] = req'[r]] /\ req'[r] \in Req
      /\ req'[r].at = "paid" /\ req'[r].model = m /\ req'[r].snap = t
  BY <1>0, <1>2, GotoFields
<1>4. req' \in [Requests -> Req] /\ \A q \in Requests \ {r} : req'[q] = req[q]
  BY <1>0, <1>3, ZenonT(60), SMTT(20) DEF Types
<1>5. t \in Nat /\ m \in Providers \cup {Local}
  BY <1>0 DEF Types, Req
<1> HIDE DEF t, m
<1>6. /\ permits' \in [Requests -> Nat \X (Providers \cup {Local})] /\ permits'[r] = <<t, m>>
      /\ \A q \in Requests \ {r} : permits'[q] = permits[q]
  BY <1>0, <1>5 DEF Types
<1>7. Types'
  BY <1>0, <1>1, <1>4, <1>6 DEF Types
<1>8. ReloadInv'
  BY <1>0, <1>1, LedgerKept DEF ReloadInv, CoverInv, Current
<1>9. ASSUME NEW q \in Requests PROVE ReqOK(q)'
  <2>1. CASE q = r
    <3>1. t <= Len(snaps) /\ m # Local
      BY <1>0 DEF ReqOK, t, m
    <3> QED
      BY <1>1, <1>3, <1>6, <2>1, <3>1 DEF ReqOK
  <2>2. CASE q # r
    <3>1. ReqOK(q) /\ req'[q] = req[q] /\ permits'[q] = permits[q]
      BY <1>4, <1>6, <2>2 DEF IInv
    <3> QED
      BY <1>1, <3>1 DEF ReqOK
  <2> QED
    BY <2>1, <2>2
<1>10. SlotInv'
  BY <1>0, <1>1 DEF SlotInv
<1>11. CapInv'
  <2> SUFFICES ASSUME NEW s \in DOMAIN snaps, NEW p \in DOMAIN snaps[s]
               PROVE  IsFiniteSet(Holding(s, p)') /\ Cardinality(Holding(s, p)') <= snaps[s][p].cap
    BY <1>1 DEF CapInv
  <2>1. IsFiniteSet(Holding(s, p)) /\ Cardinality(Holding(s, p)) <= snaps[s][p].cap
    BY <1>0 DEF CapInv
  <2>2. snaps[s][p].cap \in Nat
    BY <1>0, CurrentIs, ServerAssumption
  <2>3. Cardinality(Holding(s, p)) \in Nat
    BY <2>1, FS_CardinalityType
  <2>4. CASE s = t /\ p = m
    <3>1. Holding(s, p)' = Holding(s, p) \cup {r}
      BY <1>6, <2>4 DEF Holding
    <3>2. IsFiniteSet(Holding(s, p)')
          /\ Cardinality(Holding(s, p)') = IF r \in Holding(s, p) THEN Cardinality(Holding(s, p))
                                           ELSE Cardinality(Holding(s, p)) + 1
      BY <2>1, <3>1, FS_AddElement
    <3> QED
      BY <1>0, <2>2, <2>3, <2>4, <3>2
  <2>5. CASE ~(s = t /\ p = m)
    <3>1. Holding(s, p)' \subseteq Holding(s, p)
      BY <1>6, <2>5 DEF Holding
    <3>2. IsFiniteSet(Holding(s, p)') /\ Cardinality(Holding(s, p)') <= Cardinality(Holding(s, p))
      BY <2>1, <3>1, FS_Subset
    <3>3. Cardinality(Holding(s, p)') \in Nat
      BY <3>2, FS_CardinalityType
    <3> QED
      BY <2>1, <2>2, <2>3, <3>2, <3>3
  <2> QED
    BY <2>4, <2>5
<1> QED
  BY <1>7, <1>8, <1>9, <1>10, <1>11 DEF IInv

-----------------------------------------------------------------------------
(***************************************************************************)
(* The reloads.                                                            *)
(***************************************************************************)

\* A reload step that installs no snapshot.
LEMMA ReloadKept ==
    ASSUME IInv, UNCHANGED <<snaps, req, holds>>, ReloadInv', granted' \in Nat, ingress' \in Nat,
           NEW w \in Reloaders, NEW x \in Rec, RecOK(x), reload' = [reload EXCEPT ![w] = x]
    PROVE  IInv'
<1>0. Types /\ SlotInv /\ CapInv /\ UNCHANGED <<slots, permits>>
  BY DEF IInv, holds
<1>1. Types'
  <2>1. reload' \in [Reloaders -> Rec]
    BY <1>0 DEF Types
  <2>2. ASSUME NEW v \in Reloaders PROVE RecOK(reload'[v])
    BY <1>0 DEF Types
  <2> QED
    BY <1>0, <2>1, <2>2 DEF Types
<1>2. ASSUME NEW q \in Requests PROVE ReqOK(q)'
  BY <1>0 DEF IInv, ReqOK
<1>3. SlotInv' /\ CapInv'
  BY <1>0, ZenonT(60), SMTT(20) DEF SlotInv, CapInv, Holding
<1> QED
  BY <1>1, <1>2, <1>3 DEF IInv

\* A reload step that neither grants nor adds permits.
LEMMA LedgerMoves ==
    ASSUME Types, LedgerInv, UNCHANGED <<granted, ingress>>,
           NEW w \in Reloaders, NEW x \in Rec, reload' = [reload EXCEPT ![w] = x],
           reload[w].at # "raised", x.at # "raised"
    PROVE  LedgerInv'
<1>1. Owes(reload[w]) = {} /\ Owes(x) = {}
  BY DEF Owes
<1>2. \A v \in Reloaders : reload'[v] = IF v = w THEN x ELSE reload[v]
  BY DEF Types
<1>3. \A v \in Reloaders : Owes(reload'[v]) = Owes(reload[v])
  BY <1>1, <1>2
<1>4. Owed' = Owed
  BY <1>3 DEF Owed
<1> QED
  BY <1>3, <1>4 DEF LedgerInv

\* A reload builds its snapshot.
LEMMA BuildInv ==
    ASSUME IInv, NEW w \in Reloaders, NEW d \in Directories, BuildSnapshot(w, d)
    PROVE  IInv'
<1> DEFINE x == [at |-> "built", inner |-> d, old |-> 0]
<1>0. Types /\ ReloadInv /\ reload[w].at = "idle" /\ reload' = [reload EXCEPT ![w] = x]
      /\ UNCHANGED <<snaps, granted, ingress, req, holds>>
  BY DEF IInv, BuildSnapshot
<1>1. x \in Rec /\ RecOK(x) /\ x.at = "built"
  BY DEF Rec, RecOK
<1> HIDE DEF x
<1>2. \A v \in Reloaders : reload[v].at # "idle" => reload'[v] = reload[v]
  BY <1>0 DEF Types
<1>3. LedgerInv'
  BY <1>0, <1>1, LedgerMoves, ZenonT(60), SMTT(20) DEF ReloadInv
<1>4. ReloadInv'
  BY <1>0, <1>2, <1>3 DEF ReloadInv, CoverInv, Current
<1>5. granted' \in Nat /\ ingress' \in Nat
  BY <1>0 DEF Types
<1> QED
  BY <1>0, <1>1, <1>4, <1>5, ReloadKept, ZenonT(60), SMTT(20)

\* A reload reads the snapshot that is current.
LEMMA CountInv ==
    ASSUME IInv, NEW w \in Reloaders, CountBudget(w)
    PROVE  IInv'
<1> DEFINE x == [at |-> "counted", inner |-> Current, old |-> 0]
<1>0. Types /\ ReloadInv /\ reload[w].at = "swapped" /\ reload' = [reload EXCEPT ![w] = x]
      /\ UNCHANGED <<snaps, granted, ingress, req, holds>>
  BY DEF IInv, CountBudget
<1>1. x \in Rec /\ RecOK(x) /\ x.at = "counted" /\ x.inner = Current
  BY <1>0, CurrentIs DEF Rec, RecOK
<1> HIDE DEF x
<1>2. reload'[w] = x /\ Current' = Current
  BY <1>0 DEF Types, Current
<1>3. LedgerInv'
  BY <1>0, <1>1, LedgerMoves, ZenonT(60), SMTT(20) DEF ReloadInv
<1>4. ReloadInv'
  BY <1>0, <1>1, <1>2, <1>3 DEF ReloadInv, CoverInv
<1>5. granted' \in Nat /\ ingress' \in Nat
  BY <1>0 DEF Types
<1> QED
  BY <1>0, <1>1, <1>4, <1>5, ReloadKept, ZenonT(60), SMTT(20)

\* A reload that has compared its budget leaves the current one covered.
LEMMA RaiseCovers ==
    ASSUME Types, CoverInv, NEW w \in Reloaders, NEW x, reload' = [reload EXCEPT ![w] = x],
           reload[w].at = "counted", UNCHANGED snaps, granted' \in Nat, granted' >= granted,
           granted' >= InflightBudget(reload[w].inner)
    PROVE  CoverInv'
<1>1. Current' = Current /\ \A v \in Reloaders \ {w} : reload'[v] = reload[v]
  BY DEF Types, Current
<1>2. InflightBudget(Current) \in Nat /\ granted \in Nat
  BY CurrentIs, BudgetAssumption DEF Types
<1>3. CASE \E v \in Reloaders : reload[v].at = "swapped"
  BY <1>1, <1>3 DEF CoverInv
<1>4. CASE \E v \in Reloaders \ {w} : reload[v].at = "counted" /\ reload[v].inner = Current
  BY <1>1, <1>4 DEF CoverInv
<1>5. CASE reload[w].inner = Current
  BY <1>1, <1>5 DEF CoverInv
<1>6. CASE granted >= InflightBudget(Current)
  BY <1>1, <1>2, <1>6 DEF CoverInv
<1> QED
  BY <1>3, <1>4, <1>5, <1>6 DEF CoverInv

\* A reload raises the largest budget granted, and owes the difference.
LEMMA RaiseInv ==
    ASSUME IInv, NEW w \in Reloaders, RaiseGranted(w)
    PROVE  IInv'
<1> DEFINE budget == InflightBudget(reload[w].inner)
<1>0. /\ Types /\ LedgerInv /\ CoverInv /\ reload[w].at = "counted"
      /\ granted' = IF budget > granted THEN budget ELSE granted
      /\ UNCHANGED <<snaps, ingress, req, holds>>
  BY DEF IInv, ReloadInv, RaiseGranted
<1>1. reload[w] \in Rec /\ reload[w].inner \in Directories /\ granted \in Nat /\ ingress \in Nat
      /\ MaxInflight \in Nat
  BY <1>0, ServerAssumption DEF Types, RecOK
<1>2. budget \in Nat
  BY <1>1, BudgetAssumption
<1>3. granted' \in Nat /\ granted' >= granted /\ granted' >= budget /\ ingress' \in Nat
  BY <1>0, <1>1, <1>2
<1>4. CASE budget > granted
  <2> DEFINE x == [at |-> "raised", inner |-> reload[w].inner, old |-> granted]
  <2>1. reload' = [reload EXCEPT ![w] = x] /\ granted' = budget
    BY <1>0, <1>4 DEF RaiseGranted
  <2>2. x \in Rec /\ RecOK(x) /\ Owes(x) = (granted + 1) .. budget
    BY <1>1, <1>4 DEF Rec, RecOK, Owes
  <2> HIDE DEF x
  <2>3. CoverInv'
    BY <1>0, <1>3, <2>1, RaiseCovers, ZenonT(60), SMTT(20)
  <2> HIDE DEF budget
  <2>4. \A v \in Reloaders : reload'[v] = IF v = w THEN x ELSE reload[v]
    BY <1>0, <2>1 DEF Types
  <2>5. \A v \in Reloaders : Owes(reload[v]) \subseteq 1 .. granted
    BY <1>0 DEF LedgerInv
  <2>6. Owes(reload[w]) = {}
    BY <1>0 DEF Owes
  <2>7. Owed' = Owed \cup ((granted + 1) .. budget)
    <3>1. Owed' = {n \in 1 .. budget : \E v \in Reloaders : n \in Owes(reload'[v])}
      BY <2>1 DEF Owed
    <3>2. ASSUME NEW n \in Owed' PROVE n \in Owed \cup ((granted + 1) .. budget)
      <4>1. PICK v \in Reloaders : n \in Owes(reload'[v])
        BY <3>1, <3>2
      <4> QED
        BY <2>2, <2>4, <2>5, <4>1, ZenonT(60), SMTT(20) DEF Owed
    <3>3. ASSUME NEW n \in Owed PROVE n \in Owed'
      <4>1. PICK v \in Reloaders : n \in Owes(reload[v]) /\ n \in 1 .. granted
        BY <3>3 DEF Owed
      <4>2. v # w /\ n \in 1 .. budget
        BY <1>1, <1>2, <1>4, <2>6, <4>1
      <4> QED
        BY <2>4, <3>1, <4>1, <4>2
    <3>4. ASSUME NEW n \in (granted + 1) .. budget PROVE n \in Owed'
      <4>1. n \in 1 .. budget /\ n \in Owes(reload'[w])
        BY <1>1, <1>2, <2>2, <2>4, <3>4
      <4> QED
        BY <3>1, <4>1
    <3> QED
      BY <3>2, <3>3, <3>4
  <2>8. Cardinality(Owed') = Cardinality(Owed) + (budget - granted) /\ Cardinality(Owed) \in Nat
    <3>1. IsFiniteSet(1 .. granted) /\ Owed \subseteq 1 .. granted
      BY <1>1, FS_Interval DEF Owed
    <3>2. IsFiniteSet(Owed) /\ Cardinality(Owed) \in Nat
      BY <3>1, FS_Subset, FS_CardinalityType, ZenonT(60), SMTT(20)
    <3>3. IsFiniteSet((granted + 1) .. budget)
          /\ Cardinality((granted + 1) .. budget) = budget - granted
      BY <1>1, <1>2, <1>4, FS_Interval
    <3>4. Owed \cap ((granted + 1) .. budget) = {}
      BY <1>1, <1>2, <3>1
    <3>5. Cardinality(Owed \cap ((granted + 1) .. budget)) = 0
      BY <3>4, FS_EmptySet
    <3>6. Cardinality(Owed \cup ((granted + 1) .. budget))
            = Cardinality(Owed) + Cardinality((granted + 1) .. budget)
                - Cardinality(Owed \cap ((granted + 1) .. budget))
      BY <3>2, <3>3, FS_Union, ZenonT(60), SMTT(20)
    <3> QED
      BY <1>1, <1>2, <2>7, <3>2, <3>3, <3>5, <3>6
  <2>9. LedgerInv'
    <3>1. ASSUME NEW v \in Reloaders PROVE Owes(reload'[v]) \subseteq 1 .. budget
      BY <1>1, <1>2, <1>4, <2>2, <2>4, <2>5
    <3>2. ASSUME NEW u \in Reloaders, NEW v \in Reloaders, u # v
          PROVE  Owes(reload'[u]) \cap Owes(reload'[v]) = {}
      <4>1. Owes(reload[u]) \cap Owes(reload[v]) = {}
        BY <1>0, <3>2 DEF LedgerInv
      <4>2. (1 .. granted) \cap ((granted + 1) .. budget) = {}
        BY <1>1, <1>2
      <4>3. CASE u = w
        BY <2>2, <2>4, <2>5, <3>2, <4>2, <4>3, ZenonT(60), SMTT(20)
      <4>4. CASE v = w
        BY <2>2, <2>4, <2>5, <3>2, <4>2, <4>4, ZenonT(60), SMTT(20)
      <4>5. CASE u # w /\ v # w
        BY <2>4, <4>1, <4>5
      <4> QED
        BY <4>3, <4>4, <4>5
    <3>3. ingress' + Cardinality(Owed') = MaxInflight + granted'
      BY <1>0, <1>1, <1>2, <2>1, <2>8 DEF LedgerInv
    <3> QED
      BY <2>1, <3>1, <3>2, <3>3, ZenonT(60), SMTT(20) DEF LedgerInv
  <2> QED
    BY <1>0, <1>3, <2>1, <2>2, <2>3, <2>9, ReloadKept, ZenonT(60), SMTT(20) DEF ReloadInv
<1>5. CASE ~(budget > granted)
  <2>1. reload' = [reload EXCEPT ![w] = ReloadIdle] /\ granted' = granted
    BY <1>0, <1>5 DEF RaiseGranted
  <2>2. ReloadIdle \in Rec /\ RecOK(ReloadIdle) /\ ReloadIdle.at = "idle"
    BY DEF ReloadIdle, Rec, RecOK
  <2>3. CoverInv'
    BY <1>0, <1>3, <2>1, RaiseCovers, ZenonT(60), SMTT(20)
  <2>4. LedgerInv'
    BY <1>0, <2>1, <2>2, LedgerMoves, ZenonT(60), SMTT(20)
  <2> QED
    BY <1>0, <1>3, <2>1, <2>2, <2>3, <2>4, ReloadKept, ZenonT(60), SMTT(20) DEF ReloadInv
<1> QED
  BY <1>4, <1>5

\* A reload adds the permits that it owes.
LEMMA AddInv ==
    ASSUME IInv, NEW w \in Reloaders, AddPermits(w)
    PROVE  IInv'
<1> DEFINE budget == InflightBudget(reload[w].inner)
           old == reload[w].old
<1>0. /\ Types /\ LedgerInv /\ CoverInv /\ reload[w].at = "raised"
      /\ reload' = [reload EXCEPT ![w] = ReloadIdle] /\ ingress' = ingress + (budget - old)
      /\ UNCHANGED <<snaps, granted, req, holds>>
  BY DEF IInv, ReloadInv, AddPermits
<1>1. /\ reload[w].inner \in Directories /\ granted \in Nat /\ ingress \in Nat /\ MaxInflight \in Nat
      /\ old \in Nat
  BY <1>0, ServerAssumption DEF Types, RecOK, Rec
<1>2. budget \in Nat /\ Owes(reload[w]) = (old + 1) .. budget
  BY <1>0, <1>1, BudgetAssumption DEF Owes
<1>3. ReloadIdle \in Rec /\ RecOK(ReloadIdle) /\ ReloadIdle.at = "idle" /\ Owes(ReloadIdle) = {}
  BY DEF ReloadIdle, Rec, RecOK, Owes
<1>4. \A v \in Reloaders : reload'[v] = IF v = w THEN ReloadIdle ELSE reload[v]
  BY <1>0 DEF Types
<1> HIDE DEF budget, old
<1>5. CoverInv'
  BY <1>0, <1>4 DEF CoverInv, Current
<1>6. Owed' = Owed \ ((old + 1) .. budget) /\ ((old + 1) .. budget) \subseteq Owed
  <2>1. \A v \in Reloaders \ {w} : Owes(reload[v]) \cap ((old + 1) .. budget) = {}
    BY <1>0, <1>2, ZenonT(60), SMTT(20) DEF LedgerInv
  <2>2. ((old + 1) .. budget) \subseteq 1 .. granted
    BY <1>0, <1>2, ZenonT(60), SMTT(20) DEF LedgerInv
  <2>3. Owed' = {n \in 1 .. granted : \E v \in Reloaders : n \in Owes(reload'[v])}
    BY <1>0 DEF Owed
  <2> QED
    BY <1>2, <1>3, <1>4, <2>1, <2>2, <2>3, ZenonT(60), SMTT(20) DEF Owed
<1>7. /\ Cardinality(Owed') = Cardinality(Owed) - Cardinality((old + 1) .. budget)
      /\ Cardinality(Owed) \in Nat /\ Cardinality(Owed') \in Nat
  <2>1. IsFiniteSet(1 .. granted) /\ Owed \subseteq 1 .. granted
    BY <1>1, FS_Interval DEF Owed
  <2>2. IsFiniteSet(Owed) /\ Cardinality(Owed) \in Nat
    BY <2>1, FS_Subset, FS_CardinalityType, ZenonT(60), SMTT(20)
  <2>3. Owed \cap ((old + 1) .. budget) = (old + 1) .. budget
    BY <1>6
  <2>4. /\ IsFiniteSet(Owed \ ((old + 1) .. budget))
        /\ Cardinality(Owed \ ((old + 1) .. budget))
             = Cardinality(Owed) - Cardinality(Owed \cap ((old + 1) .. budget))
    BY <2>2, FS_Difference, ZenonT(60), SMTT(20)
  <2>5. Cardinality(Owed \ ((old + 1) .. budget)) \in Nat
    BY <2>4, FS_CardinalityType
  <2> QED
    BY <1>6, <2>2, <2>3, <2>4, <2>5, ZenonT(60), SMTT(20)
<1>8. budget >= old /\ Cardinality((old + 1) .. budget) = budget - old
  <2>1. budget >= old
    BY <1>0, <1>1, <1>2 DEF Types, RecOK, budget, old
  <2>2. Cardinality((old + 1) .. budget) = IF old + 1 > budget THEN 0 ELSE budget - (old + 1) + 1
    BY <1>1, <1>2, FS_Interval
  <2> QED
    BY <1>1, <1>2, <2>1, <2>2
<1>9. LedgerInv'
  <2>1. ingress' + Cardinality(Owed') = MaxInflight + granted'
    BY <1>0, <1>1, <1>2, <1>7, <1>8 DEF LedgerInv
  <2> QED
    BY <1>0, <1>3, <1>4, <2>1 DEF LedgerInv
<1>10. granted' \in Nat /\ ingress' \in Nat
  BY <1>0, <1>1, <1>2, <1>8
<1> QED
  BY <1>0, <1>3, <1>5, <1>9, <1>10, ReloadKept, ZenonT(60), SMTT(20) DEF ReloadInv

\* A snapshot is installed with semaphores of its own, which nobody holds.
LEMMA SwapInv ==
    ASSUME IInv, NEW w \in Reloaders, SwapSnapshot(w)
    PROVE  IInv'
<1> DEFINE x == [at |-> "swapped", inner |-> <<>>, old |-> 0]
           d == reload[w].inner
           n == Len(snaps)
<1>0. /\ Types /\ ReloadInv /\ SlotInv /\ CapInv /\ reload[w].at = "built"
      /\ snaps' = Append(snaps, d) /\ reload' = [reload EXCEPT ![w] = x]
      /\ UNCHANGED <<granted, ingress, req, slots, permits>>
  BY DEF IInv, SwapSnapshot, holds
<1>1. d \in Directories /\ n \in Nat /\ n >= 1 /\ DOMAIN snaps = 1 .. n
  BY <1>0, CurrentIs DEF Types, RecOK
<1>2. /\ snaps' \in Seq(Directories) /\ Len(snaps') = n + 1 /\ DOMAIN snaps' = 1 .. (n + 1)
      /\ snaps'[n + 1] = d /\ \A s \in 1 .. n : snaps'[s] = snaps[s]
  BY <1>0, <1>1 DEF Types
<1>3. x \in Rec /\ RecOK(x) /\ x.at = "swapped"
  BY DEF Rec, RecOK
<1> HIDE DEF x, d, n
<1>4. Types'
  <2>1. reload' \in [Reloaders -> Rec]
    BY <1>0, <1>3 DEF Types
  <2>2. ASSUME NEW v \in Reloaders PROVE RecOK(reload'[v])
    BY <1>0, <1>3 DEF Types
  <2> QED
    BY <1>0, <1>1, <1>2, <2>1, <2>2 DEF Types
<1>5. ReloadInv'
  <2>1. reload'[w].at = "swapped"
    BY <1>0, <1>3 DEF Types
  <2>2. LedgerInv'
    BY <1>0, <1>3, LedgerMoves, ZenonT(60), SMTT(20) DEF ReloadInv
  <2> QED
    BY <2>1, <2>2 DEF ReloadInv, CoverInv
<1>6. ASSUME NEW q \in Requests PROVE ReqOK(q)'
  <2>1. ReqOK(q) /\ req[q].snap \in Nat /\ permits[q][1] \in Nat
    BY <1>0 DEF IInv, Types, Req
  <2> QED
    BY <1>0, <1>1, <1>2, <2>1 DEF ReqOK, n
<1>7. SlotInv'
  BY <1>0 DEF SlotInv
<1>8. CapInv'
  <2> SUFFICES ASSUME NEW s \in DOMAIN snaps', NEW p \in DOMAIN snaps'[s]
               PROVE  IsFiniteSet(Holding(s, p)) /\ Cardinality(Holding(s, p)) <= snaps'[s][p].cap
    BY <1>0, ZenonT(60), SMTT(20) DEF CapInv, Holding
  <2>1. CASE s \in 1 .. n
    BY <1>0, <1>1, <1>2, <2>1 DEF CapInv
  <2>2. CASE s = n + 1
    <3>1. \A q \in Requests : permits[q][1] \in Nat /\ permits[q][1] <= n
      BY <1>0 DEF IInv, ReqOK, Types, n
    <3>2. Holding(s, p) = {}
      BY <1>1, <2>2, <3>1 DEF Holding
    <3>3. snaps'[s][p].cap \in Nat
      BY <1>1, <1>2, <2>2, ServerAssumption
    <3> QED
      BY <3>2, <3>3, FS_EmptySet
  <2> QED
    BY <1>1, <1>2, <2>1, <2>2
<1> QED
  BY <1>4, <1>5, <1>6, <1>7, <1>8 DEF IInv

-----------------------------------------------------------------------------
(***************************************************************************)
(* The theorems.                                                           *)
(***************************************************************************)

\* Every step preserves the invariant.
LEMMA NextInv == IInv /\ [Next]_vars => IInv'
<1> SUFFICES ASSUME IInv, [Next]_vars PROVE IInv'
  OBVIOUS
<1>1. CASE UNCHANGED vars
  <2>1. UNCHANGED <<snaps, granted, ingress, reload, req, slots, permits>>
    BY <1>1 DEF vars
  <2> QED
    BY <2>1, ZenonT(60), SMTT(20)
       DEF IInv, Types, ReloadInv, LedgerInv, Owed, CoverInv, Current, ReqOK, SlotInv, CapInv, Holding
<1>2. ASSUME NEW r \in Requests, Handler(r) PROVE IInv'
  <2>1. CASE Refuse(r)
    BY <2>1, RefuseInv
  <2>2. CASE DispatchEngine(r) \/ DispatchGateway(r) \/ Predicted(r) \/ Again(r)
    BY <2>2, MovesInv
  <2>3. CASE SizeResponse(r) \/ TakeSnapshot(r) \/ Retry(r)
    BY <2>3, GatewayInv
  <2>4. CASE TakeBytes(r)
    BY <2>4, TakeBytesInv
  <2>5. CASE ChunkDone(r) \/ Responded(r)
    BY <2>5, AnswersInv
  <2>6. CASE TakeSlot(r)
    BY <2>6, TakeSlotInv
  <2>7. CASE TakePermit(r)
    BY <2>7, TakePermitInv
  <2>8. DispatchRefuses(r) \/ PredictFails(r) \/ ResponseTooLarge(r) \/ GatewayRefuses(r)
        \/ ProviderFails(r) => Refuse(r)
    BY DEF DispatchRefuses, PredictFails, ResponseTooLarge, GatewayRefuses, ProviderFails
  <2> QED
    BY <1>2, <2>1, <2>2, <2>3, <2>4, <2>5, <2>6, <2>7, <2>8 DEF Handler
<1>3. ASSUME NEW r \in Requests, TimesOut(r) \/ Drain(r) \/ Reset(r) PROVE IInv'
  <2>1. Refuse(r)
    BY <1>3 DEF TimesOut, Drain, Reset
  <2> QED
    BY <2>1, RefuseInv
<1>4. ASSUME NEW r \in Requests,
             \/ Send(r, Local, 1)
             \/ \E p \in Providers : \E c \in 1 .. MaxChunks[p] : Send(r, p, c)
             \/ Admit(r)
             \/ DeadlinePasses(r)
      PROVE  IInv'
  BY <1>4, ArriveInv
<1>5. ASSUME NEW w \in Reloaders, Reload(w) PROVE IInv'
  <2>1. CASE \E d \in Directories : BuildSnapshot(w, d)
    BY <2>1, BuildInv
  <2> QED
    BY <1>5, <2>1, SwapInv, CountInv, RaiseInv, AddInv DEF Reload
<1> QED
  BY <1>1, <1>2, <1>3, <1>4, <1>5 DEF Next

(***************************************************************************)
(* Every reachable state of the server satisfies the invariant: what each  *)
(* place of a handler holds, and what each semaphore has given out         *)
(* (server.rs, run_embed; gateway.rs, call_with_retry and reload).         *)
(***************************************************************************)
THEOREM Invariance == Spec => []IInv
<1>1. Init => IInv
  BY InitInv
<1>2. IInv /\ [Next]_vars => IInv'
  BY NextInv
<1> QED
  BY <1>1, <1>2, PTL DEF Spec

(***************************************************************************)
(* However many reloads race, whenever none is between its swap and the    *)
(* last permit it adds, the ingress has exactly the host's own permits and *)
(* the largest budget granted, and covers the budget of the snapshot being *)
(* served (gateway.rs, reload).                                            *)
(***************************************************************************)
THEOREM IngressKeepsUp == Spec => []IngressInStep
<1>1. IInv => IngressInStep
  <2> SUFFICES ASSUME IInv, \A w \in Reloaders : reload[w].at \notin Settling
               PROVE  ingress = MaxInflight + granted /\ granted >= InflightBudget(Current)
    BY DEF IngressInStep
  <2>1. Owed = {}
    BY DEF Owed, Owes, Settling
  <2>2. Cardinality(Owed) = 0
    BY <2>1, FS_EmptySet
  <2>3. ingress + Cardinality(Owed) = MaxInflight + granted /\ ingress \in Nat
    BY DEF IInv, ReloadInv, LedgerInv, Types
  <2>4. granted >= InflightBudget(Current)
    BY DEF IInv, ReloadInv, CoverInv, Settling
  <2> QED
    BY <2>2, <2>3, <2>4
<1> QED
  BY <1>1, Invariance, PTL

(***************************************************************************)
(* The engine's responses being computed or still unread are never more    *)
(* than MaxInflight: each holds a response slot (server.rs, PermitBody).   *)
(***************************************************************************)
THEOREM EngineResponsesFit == Spec => []EngineResponsesBounded
<1>1. IInv => EngineResponsesBounded
  <2> SUFFICES ASSUME IInv PROVE EngineResponsesBounded
    OBVIOUS
  <2>1. EngineResponses \subseteq slots
    BY DEF IInv, ReqOK, EngineResponses
  <2>2. IsFiniteSet(slots) /\ Cardinality(slots) <= MaxInflight /\ MaxInflight \in Nat
    BY ServerAssumption DEF IInv, SlotInv
  <2>3. IsFiniteSet(EngineResponses) /\ Cardinality(EngineResponses) <= Cardinality(slots)
    BY <2>1, <2>2, FS_Subset
  <2>4. Cardinality(EngineResponses) \in Nat /\ Cardinality(slots) \in Nat
    BY <2>2, <2>3, FS_CardinalityType
  <2> QED
    BY <2>2, <2>3, <2>4 DEF EngineResponsesBounded
<1> QED
  BY <1>1, Invariance, PTL

(***************************************************************************)
(* The calls in flight to a provider through one snapshot, their back-offs *)
(* included, stay within the cap that snapshot gives it, whatever reloads  *)
(* install meanwhile (gateway.rs, call_with_retry).                        *)
(***************************************************************************)
THEOREM CapsHold == Spec => []ProviderCap
<1>1. IInv => ProviderCap
  <2> SUFFICES ASSUME IInv, NEW s \in DOMAIN snaps, NEW p \in DOMAIN snaps[s]
               PROVE  Cardinality(InFlight(s, p)) <= snaps[s][p].cap
    BY DEF ProviderCap
  <2>1. InFlight(s, p) \subseteq Holding(s, p)
    BY DEF IInv, ReqOK, InFlight, Holding
  <2>2. IsFiniteSet(Holding(s, p)) /\ Cardinality(Holding(s, p)) <= snaps[s][p].cap
    BY DEF IInv, CapInv
  <2>3. snaps[s][p].cap \in Nat
    BY CurrentIs, ServerAssumption DEF IInv
  <2>4. IsFiniteSet(InFlight(s, p)) /\ Cardinality(InFlight(s, p)) <= Cardinality(Holding(s, p))
    BY <2>1, <2>2, FS_Subset
  <2>5. Cardinality(InFlight(s, p)) \in Nat /\ Cardinality(Holding(s, p)) \in Nat
    BY <2>2, <2>4, FS_CardinalityType
  <2> QED
    BY <2>2, <2>3, <2>4, <2>5
<1> QED
  BY <1>1, Invariance, PTL

=============================================================================
