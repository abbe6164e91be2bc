--------------------------- MODULE InferenceServer ---------------------------
(***************************************************************************)
(* The gRPC inference server and the provider gateway behind it            *)
(* (client/embedded/server.rs, providers/src/gateway.rs and retry.rs).     *)
(* One EmbedTexts or ConvertEmbeddings call is a request that waits for    *)
(* an ingress permit, is stamped with an absolute deadline, and is         *)
(* dispatched either to the local engine, under the response slots, or to  *)
(* a hosted provider, under the response bytes and the provider's own      *)
(* semaphore, with retries.  `providers reload' swaps in a new snapshot of *)
(* providers.d and widens the ingress while requests are in flight.        *)
(*                                                                         *)
(* Time is a flag of a request: `late', the deadline has passed that the   *)
(* server stamped on it at admission.                                      *)
(* A request carries one row, so its response weighs its dimension, and a  *)
(* provider file serves one model, which has the provider's name.          *)
(***************************************************************************)
EXTENDS Integers, Sequences, FiniteSets, FiniteSetsExt

CONSTANTS
    Requests,        \* the calls of the run
    Providers,       \* the provider files providers.d may hold
    Local,           \* the name of the model the engine serves
    Directories,     \* the contents providers.d can have: [provider -> [cap, dim]]
    Boot,            \* what it can hold when the host boots
    MaxInflight,     \* postvec.embedded_max_inflight
    ResponseBudget,  \* PROVIDER_RESPONSE_BUDGET_MIB
    Envelope,        \* the largest response the envelope check lets through
    Reloaders,       \* concurrent `providers reload' calls
    MaxReloads,      \* bound: reloads of a run
    MaxBusy,         \* bound: requests and reloads in progress at a time
    MaxChunks,       \* bound: sub-batches of a request, for each provider
    MaxRetries,      \* MAX_RETRIES
    Unknown          \* the dimension assumed when the name is not served

ASSUME ServerAssumption ==
    /\ Local \notin Providers
    /\ MaxInflight \in Nat \ {0}
    /\ Envelope \in 1 .. ResponseBudget
    /\ MaxRetries \in Nat /\ Unknown \in Nat
    /\ MaxChunks \in [Providers -> Nat \ {0}]
    /\ Boot \subseteq Directories
    /\ \A d \in Directories :
          /\ DOMAIN d \subseteq Providers
          /\ \A p \in DOMAIN d : d[p].cap \in Nat \ {0} /\ d[p].dim \in Nat \ {0}

VARIABLES
    snaps,     \* the snapshots installed so far; the last one is current
    granted,   \* Gateway::granted
    ingress,   \* permits ever added to Gateway::ingress
    reload,    \* each reload: [at, inner, old], inner the snapshot it built or
               \* counted, old what fetch_max returned
    req,       \* each request
    slots,     \* the requests that hold a response slot
    bytes,     \* each request's weight of the provider response bytes
    permits    \* the requests that hold a permit of <<snapshot, provider>>

reloading == <<snaps, granted, ingress, reload>>
holds == <<slots, bytes, permits>>
vars == <<snaps, granted, ingress, reload, req, slots, bytes, permits>>

(***************************************************************************)
(* Where a request is.  The handler runs between admission and the         *)
(* response; tower gives the ingress permit back when the handler's future *)
(* resolves, the body is written after that.                               *)
(***************************************************************************)
InHandler == {"entered", "slot", "predict", "owned", "sized", "weighed", "chunk", "paid", "backoff"}
Answered == {"body", "done"}
Places == {"idle", "queued"} \cup InHandler \cup Answered

Fresh == [at |-> "idle", model |-> Local, snap |-> 0, sized |-> 0, chunks |-> 0,
          tries |-> 0, late |-> FALSE]

Current == snaps[Len(snaps)]

ReloadIdle == [at |-> "idle", inner |-> <<>>, old |-> 0]

\* Gateway::dim in snapshot s; a name that it does not serve is sized by the
\* conservative guess.
Dim(s, m) == IF m \in DOMAIN snaps[s] THEN snaps[s][m].dim ELSE Unknown

\* Gateway::inflight_budget over a snapshot: the sum of the configured caps.
InflightBudget(inner) == MapThenSumSet(LAMBDA p : inner[p].cap, DOMAIN inner)

\* The sum is an unsigned integer.
ASSUME BudgetAssumption == \A d \in Directories : InflightBudget(d) \in Nat

\* The weight charged for a response of one row, clamped to the budget.
ResponseWeight(dim) == IF dim > ResponseBudget THEN ResponseBudget ELSE dim

Inside == {r \in Requests : req[r].at \in InHandler}
BytesHeld == MapThenSumSet(LAMBDA r : bytes[r], Requests)
Holding(s, p) == {r \in Requests : permits[r] = <<s, p>>}
NoPermit == <<0, Local>>

Busy == Cardinality({r \in Requests : req[r].at \notin {"idle", "done"}})
          + Cardinality({w \in Reloaders : reload[w].at # "idle"})

(***************************************************************************)
(* The host boots with the directory loaded: Gateway::load runs one reload *)
(* on an empty gateway, and the server then adds its own permits.          *)
(***************************************************************************)
Init ==
    /\ \E d \in Boot :
          /\ snaps = <<d>>
          /\ granted = InflightBudget(d)
          /\ ingress = MaxInflight + InflightBudget(d)
    /\ reload = [w \in Reloaders |-> ReloadIdle]
    /\ req = [r \in Requests |-> Fresh]
    /\ slots = {}
    /\ bytes = [r \in Requests |-> 0]
    /\ permits = [r \in Requests |-> NoPermit]

-----------------------------------------------------------------------------
(* providers.d, which the operator edits at any time, and its reload. *)

\* A reload scans the directory, which now holds d, and builds a snapshot; one
\* that cannot scan it returns an error and keeps the previous snapshot, which
\* changes nothing.
BuildSnapshot(w, d) ==
    /\ reload[w].at = "idle"
    /\ Busy < MaxBusy
    /\ Len(snaps) + Cardinality({v \in Reloaders : reload[v].at = "built"}) <= MaxReloads
    /\ reload' = [reload EXCEPT ![w] = [at |-> "built", inner |-> d, old |-> 0]]
    /\ UNCHANGED <<snaps, granted, ingress, req, holds>>

\* The snapshot is swapped in; its semaphores are new.
SwapSnapshot(w) ==
    /\ reload[w].at = "built"
    /\ snaps' = Append(snaps, reload[w].inner)
    /\ reload' = [reload EXCEPT ![w] = [at |-> "swapped", inner |-> <<>>, old |-> 0]]
    /\ UNCHANGED <<granted, ingress, req, holds>>

\* The budget is that of the snapshot that is current by now.
CountBudget(w) ==
    /\ reload[w].at = "swapped"
    /\ reload' = [reload EXCEPT ![w] = [at |-> "counted", inner |-> Current, old |-> 0]]
    /\ UNCHANGED <<snaps, granted, ingress, req, holds>>

\* Faulty: the largest budget granted is overwritten, not raised.
RaiseGrantedStore(w) ==
    LET budget == InflightBudget(reload[w].inner) IN
    /\ reload[w].at = "counted"
    /\ granted' = budget
    /\ reload' = [reload EXCEPT ![w] =
                     IF budget > granted
                     THEN [at |-> "raised", inner |-> reload[w].inner, old |-> granted]
                     ELSE ReloadIdle]
    /\ UNCHANGED <<snaps, ingress, req, holds>>

\* fetch_max raises the largest budget granted and returns its previous value.
RaiseGranted(w) ==
    LET budget == InflightBudget(reload[w].inner) IN
    /\ reload[w].at = "counted"
    /\ granted' = IF budget > granted THEN budget ELSE granted
    /\ reload' = [reload EXCEPT ![w] =
                     IF budget > granted
                     THEN [at |-> "raised", inner |-> reload[w].inner, old |-> granted]
                     ELSE ReloadIdle]
    /\ UNCHANGED <<snaps, ingress, req, holds>>

\* The ingress is widened by what the budget exceeds that value.
AddPermits(w) ==
    /\ reload[w].at = "raised"
    /\ ingress' = ingress + (InflightBudget(reload[w].inner) - reload[w].old)
    /\ reload' = [reload EXCEPT ![w] = ReloadIdle]
    /\ UNCHANGED <<snaps, granted, req, holds>>

-----------------------------------------------------------------------------
(* The request path. *)

Goto(r, place) == req' = [req EXCEPT ![r].at = place]

Release(r) ==
    /\ slots' = slots \ {r}
    /\ bytes' = [bytes EXCEPT ![r] = 0]
    /\ permits' = [permits EXCEPT ![r] = NoPermit]

Done == [Fresh EXCEPT !.at = "done"]

\* Every early return of the handler: its permits drop with its future.
Refuse(r) ==
    /\ req' = [req EXCEPT ![r] = Done]
    /\ Release(r)
    /\ UNCHANGED reloading

\* A backend calls; the connection task starts polling the service.
Send(r, model, chunks) ==
    /\ req[r].at = "idle"
    /\ Busy < MaxBusy
    /\ req' = [req EXCEPT ![r].at = "queued", ![r].model = model, ![r].chunks = chunks]
    /\ UNCHANGED <<reloading, holds>>

\* poll_ready of the concurrency limit takes the permit, and only then is the
\* service called: `call' of the deadline layer stamps now + budget.  The wait
\* is not charged to the deadline, although a comment above the layers says so.
Admit(r) ==
    /\ req[r].at = "queued"
    /\ Cardinality(Inside) < ingress
    /\ req' = [req EXCEPT ![r].at = "entered", ![r].late = FALSE]
    /\ UNCHANGED <<reloading, holds>>

\* Faulty: an attempt waits for the provider as long as that takes.
TimedUnlessPaid == {"entered", "slot", "predict", "sized", "chunk"}

\* The waits of a handler that the deadline bounds, and the checks against it.
Timed == {"entered", "slot", "predict", "sized", "chunk", "paid"}

TimesOut(r) ==
    /\ req[r].at \in Timed
    /\ req[r].late
    /\ Refuse(r)

\* The dispatch: a ready local name goes to the engine, a name of the current
\* snapshot to the gateway, any other, and a local one that is not ready or whose
\* request is above the ceilings, is refused.
DispatchEngine(r) ==
    /\ req[r].at = "entered" /\ ~req[r].late
    /\ req[r].model = Local
    /\ Goto(r, "slot")
    /\ UNCHANGED <<reloading, holds>>

DispatchGateway(r) ==
    /\ req[r].at = "entered" /\ ~req[r].late
    /\ req[r].model \in DOMAIN Current
    /\ Goto(r, "owned")
    /\ UNCHANGED <<reloading, holds>>

DispatchRefuses(r) ==
    /\ req[r].at = "entered" /\ ~req[r].late
    /\ req[r].model \notin DOMAIN Current
    /\ Refuse(r)

\* The engine path: a response slot, the prediction, the response.
TakeSlot(r) ==
    /\ req[r].at = "slot"
    /\ Cardinality(slots) < MaxInflight
    /\ slots' = slots \cup {r}
    /\ Goto(r, "predict")
    /\ UNCHANGED <<reloading, bytes, permits>>

\* Faulty: the slot is given back with the handler's result.
PredictedFrees(r) ==
    /\ req[r].at = "predict"
    /\ slots' = slots \ {r}
    /\ Goto(r, "body")
    /\ UNCHANGED <<reloading, bytes, permits>>

\* The response permit moves into the body.
Predicted(r) ==
    /\ req[r].at = "predict"
    /\ Goto(r, "body")
    /\ UNCHANGED <<reloading, holds>>

PredictFails(r) == req[r].at = "predict" /\ Refuse(r)

\* The gateway path: the dimension is read from the snapshot current now.
SizeResponse(r) ==
    /\ req[r].at = "owned"
    /\ Dim(Len(snaps), req[r].model) <= Envelope
    /\ req' = [req EXCEPT ![r].at = "sized", ![r].sized = Len(snaps)]
    /\ UNCHANGED <<reloading, holds>>

ResponseTooLarge(r) ==
    /\ req[r].at = "owned"
    /\ Dim(Len(snaps), req[r].model) > Envelope
    /\ Refuse(r)

\* The weighted response permit is taken before the paid call.
TakeBytes(r) ==
    LET weight == ResponseWeight(Dim(req[r].sized, req[r].model)) IN
    /\ req[r].at = "sized"
    /\ BytesHeld + weight <= ResponseBudget
    /\ bytes' = [bytes EXCEPT ![r] = weight]
    /\ Goto(r, "weighed")
    /\ UNCHANGED <<reloading, slots, permits>>

\* Gateway::embed and convert: one snapshot for the whole call, which may be
\* newer than the one the response was sized by and give the model another
\* dimension.
TakeSnapshot(r) ==
    /\ req[r].at = "weighed"
    /\ req[r].model \in DOMAIN Current
    /\ req' = [req EXCEPT ![r].at = "chunk", ![r].snap = Len(snaps)]
    /\ UNCHANGED <<reloading, holds>>

\* A name a reload dropped, a model of the other kind, an empty text, a vector of
\* the wrong width: no call is made.
GatewayRefuses(r) == req[r].at = "weighed" /\ Refuse(r)

\* Each sub-batch checks the deadline, then takes a permit of the provider's
\* semaphore in the snapshot it holds.
TakePermit(r) ==
    LET s == req[r].snap
        p == req[r].model IN
    /\ req[r].at = "chunk" /\ ~req[r].late
    /\ Cardinality(Holding(s, p)) < snaps[s][p].cap
    /\ permits' = [permits EXCEPT ![r] = <<s, p>>]
    /\ req' = [req EXCEPT ![r].at = "paid"]
    /\ UNCHANGED <<reloading, slots, bytes>>

\* The provider answers with vectors of the declared width: the permit drops at
\* the end of the sub-batch, and the next one begins.
ChunkDone(r) ==
    /\ req[r].at = "paid"
    /\ req[r].chunks > 1
    /\ permits' = [permits EXCEPT ![r] = NoPermit]
    /\ req' = [req EXCEPT ![r].at = "chunk", ![r].chunks = @ - 1, ![r].tries = 0]
    /\ UNCHANGED <<reloading, slots, bytes>>

\* Faulty: the bytes are given back with the handler's result.
RespondedFrees(r) ==
    /\ req[r].at = "paid"
    /\ req[r].chunks = 1
    /\ Release(r)
    /\ req' = [req EXCEPT ![r].at = "body", ![r].tries = 0]
    /\ UNCHANGED reloading

\* After the last sub-batch the tree is built, within the envelope; the byte
\* permit moves into the body.
Responded(r) ==
    LET width == snaps[req[r].snap][req[r].model].dim IN
    /\ req[r].at = "paid"
    /\ req[r].chunks = 1
    /\ width <= Envelope
    /\ permits' = [permits EXCEPT ![r] = NoPermit]
    /\ req' = [req EXCEPT ![r].at = "body", ![r].tries = 0]
    /\ UNCHANGED <<reloading, slots, bytes>>

\* A permanent error, a wrong count, width or row order, a tree above the
\* envelope, a transient error after the last retry, or a back-off that would
\* end after the deadline.
ProviderFails(r) == req[r].at = "paid" /\ Refuse(r)

\* Faulty: the permit is given back for the back-off.
RetryFrees(r) ==
    /\ req[r].at = "paid"
    /\ req[r].tries < MaxRetries
    /\ permits' = [permits EXCEPT ![r] = NoPermit]
    /\ req' = [req EXCEPT ![r].at = "backoff", ![r].tries = @ + 1]
    /\ UNCHANGED <<reloading, slots, bytes>>

\* A transient error is retried after a back-off, the permit still held.
Retry(r) ==
    /\ req[r].at = "paid"
    /\ req[r].tries < MaxRetries
    /\ req' = [req EXCEPT ![r].at = "backoff", ![r].tries = @ + 1]
    /\ UNCHANGED <<reloading, holds>>

Again(r) ==
    /\ req[r].at = "backoff"
    /\ Goto(r, "paid")
    /\ UNCHANGED <<reloading, holds>>

\* The client reads the body to its end, or drops it.
Drain(r) ==
    /\ req[r].at = "body"
    /\ Refuse(r)

DeadlinePasses(r) ==
    /\ req[r].at \in InHandler
    /\ ~req[r].late
    /\ req' = [req EXCEPT ![r].late = TRUE]
    /\ UNCHANGED <<reloading, holds>>

\* The stream is reset: the connection drops the request's future.
Reset(r) ==
    /\ req[r].at \in {"queued", "body"} \cup InHandler
    /\ Refuse(r)

-----------------------------------------------------------------------------

Handler(r) ==
    \/ DispatchEngine(r) \/ DispatchGateway(r) \/ DispatchRefuses(r)
    \/ TakeSlot(r) \/ Predicted(r) \/ PredictFails(r)
    \/ SizeResponse(r) \/ ResponseTooLarge(r) \/ TakeBytes(r)
    \/ TakeSnapshot(r) \/ GatewayRefuses(r) \/ TakePermit(r)
    \/ ChunkDone(r) \/ Responded(r) \/ ProviderFails(r) \/ Retry(r) \/ Again(r)

Reload(w) ==
    \/ \E d \in Directories : BuildSnapshot(w, d)
    \/ SwapSnapshot(w) \/ CountBudget(w) \/ RaiseGranted(w) \/ AddPermits(w)

Next ==
    \/ \E r \in Requests :
          \/ Send(r, Local, 1)
          \/ \E p \in Providers : \E c \in 1 .. MaxChunks[p] : Send(r, p, c)
          \/ Admit(r) \/ Handler(r) \/ TimesOut(r) \/ Drain(r)
          \/ DeadlinePasses(r) \/ Reset(r)
    \/ \E w \in Reloaders : Reload(w)

Spec == Init /\ [][Next]_vars

(***************************************************************************)
(* Fairness.  Tokio's semaphores are first come, first served, so a        *)
(* request that can be admitted again and again is; the steps a handler    *)
(* takes by itself, without the engine, a provider or a permit, are run by *)
(* the runtime; time passes.  Nothing is assumed of the engine's or the    *)
(* provider's answer, of a client reading its response, or of a reset.     *)
(***************************************************************************)
OwnStep(r) ==
    \/ DispatchEngine(r) \/ DispatchGateway(r) \/ DispatchRefuses(r)
    \/ SizeResponse(r) \/ ResponseTooLarge(r) \/ TakeSnapshot(r) \/ GatewayRefuses(r)
    \/ Again(r)

FairSpec ==
    /\ Spec
    /\ \A r \in Requests :
          /\ SF_vars(Admit(r))
          /\ WF_vars(OwnStep(r))
          /\ WF_vars(TimesOut(r))
          /\ WF_vars(DeadlinePasses(r))

-----------------------------------------------------------------------------

TypeOK ==
    /\ \A i \in DOMAIN snaps : snaps[i] \in Directories
    /\ Len(snaps) \in 1 .. MaxReloads + 1
    /\ granted \in Nat /\ ingress \in Nat
    /\ \A w \in Reloaders :
          /\ \/ reload[w].at \in {"idle", "swapped"} /\ reload[w].inner = <<>>
             \/ reload[w].at \in {"built", "counted", "raised"} /\ reload[w].inner \in Directories
          /\ reload[w].old \in Nat
    /\ \A r \in Requests :
          /\ req[r].at \in Places
          /\ req[r].model \in Providers \cup {Local}
          /\ req[r].snap \in 0 .. Len(snaps) /\ req[r].sized \in 0 .. Len(snaps)
          /\ req[r].tries \in 0 .. MaxRetries
          /\ req[r].late \in BOOLEAN
    /\ slots \subseteq Requests
    /\ bytes \in [Requests -> 0 .. ResponseBudget]
    /\ Cardinality(Inside) <= ingress

(***************************************************************************)
(* Reloads race, and the ingress is never narrowed.  Whenever no reload is *)
(* between its swap and the last permit it adds, the ingress has exactly   *)
(* the host's own permits and the largest budget granted, and that covers  *)
(* the snapshot being served: Gateway::ingress is "kept in step with       *)
(* reloads" (gateway.rs, reload and ingress).                              *)
(***************************************************************************)
Settling == {"swapped", "counted", "raised"}
IngressInStep ==
    (\A w \in Reloaders : reload[w].at \notin Settling) =>
        /\ ingress = MaxInflight + granted
        /\ granted >= InflightBudget(Current)

(***************************************************************************)
(* A response is memory until its body is written: the engine's responses  *)
(* being computed or still unread are never more than MaxInflight          *)
(* (server.rs, response_slots and PermitBody).                             *)
(***************************************************************************)
EngineResponses == {r \in Requests : req[r].at \in {"predict", "body"} /\ req[r].model = Local}
EngineResponsesBounded == Cardinality(EngineResponses) <= MaxInflight

(***************************************************************************)
(* The provider responses built and not yet written fit the aggregate      *)
(* budget: the permit taken before the paid call covers what the provider  *)
(* returned (server.rs, PROVIDER_RESPONSE_BUDGET_MIB).  Not counted are    *)
(* the responses of a model that a reload made wider between the sizing of *)
(* the response and the call, which takes a newer snapshot.                *)
(***************************************************************************)
Unwritten == {r \in Requests : req[r].at = "body" /\ req[r].model # Local}
Built(r) == Dim(req[r].snap, req[r].model)
Widened(r) == Built(r) > Dim(req[r].sized, req[r].model)
ProviderResponsesBounded ==
    MapThenSumSet(Built, {r \in Unwritten : ~Widened(r)}) <= ResponseBudget

(***************************************************************************)
(* The calls in flight to a provider through one snapshot, their back-offs *)
(* included, never exceed the max_concurrent that snapshot gives it, also  *)
(* after a reload has replaced the snapshot (gateway.rs, call_with_retry). *)
(***************************************************************************)
InFlight(s, p) ==
    {r \in Requests : req[r].at \in {"paid", "backoff"} /\ req[r].snap = s /\ req[r].model = p}
ProviderCap ==
    \A s \in DOMAIN snaps : \A p \in DOMAIN snaps[s] :
        Cardinality(InFlight(s, p)) <= snaps[s][p].cap

(***************************************************************************)
(* Every call is answered, whatever the engine and the providers do and    *)
(* even if no client ever reads a response: every wait inside a handler    *)
(* ends at the deadline, and a response nobody reads holds no ingress      *)
(* permit.                                                                 *)
(***************************************************************************)
EveryCallAnswered == \A r \in Requests : (req[r].at = "queued") ~> (req[r].at \in Answered)
=============================================================================
