--------------------------- MODULE ModelSwapProofs ---------------------------
(***************************************************************************)
(* An interrupted batch can always be put back, for any models, revisions, *)
(* roots and faults.                                                       *)
(***************************************************************************)
EXTENDS ModelSwap, Integers, TLAPS

\* The provers that a leaf tries in turn when it names none.
USE SMTT(20), Z3T(20), SMTT(40), Z3T(40), ZenonT(20)

Batch == record.replace \union record.install

\* What a rollback leaves of a model that the batch replaces.
Fallback(m) == IF stray[m] # 0 THEN stray[m] ELSE before[m]

\* An unconfirmed batch: its record tells what was there before.
ModelInv(m) ==
    /\ m \notin Batch => disk[m] = before[m] /\ offer[m] = 0
    /\ m \in Batch => offer[m] > before[m]
    /\ m \in record.install => before[m] = 0
    /\ m \notin record.replace => parked[m] \in {0, stray[m]}
    /\ m \in record.replace =>
          /\ before[m] # 0
          /\ IF parked[m] = 0 THEN disk[m] = Fallback(m) ELSE parked[m] = Fallback(m)

BatchInv ==
    Pending =>
        /\ Batch # {} /\ record.replace \intersect record.install = {}
        /\ \A m \in Model : ModelInv(m)

\* While the batch moves in, what was left parked stays where it is, and the
\* models it was left of are not replaced.
StrayInv ==
    \A m \in Model :
        /\ m \notin record.replace => parked[m] = stray[m]
        /\ m \in record.replace /\ stray[m] # 0 =>
              m \in cli.todo /\ disk[m] = before[m] /\ parked[m] = stray[m]

NoneToRestore == \A m \in record.replace : parked[m] = 0

\* What holds at each step of the command.
StepInv(pc) ==
    /\ pc \in {"move", "half", "confirm", "undo", "restore", "uninstall"} => Pending
    /\ pc \in {"move", "half", "confirm"} =>
          StrayInv /\ cli.new = offer /\ \A m \in Batch \ cli.todo : disk[m] = offer[m]
    /\ pc = "confirm" => cli.todo = {}
    /\ pc = "uninstall" => NoneToRestore
    /\ pc = "clear" => NoneToRestore /\ \A m \in record.install : disk[m] = 0
    /\ pc \in {"discard", "plan", "rm", "off", "on"} => ~Pending
    /\ pc = "rm" => \A m \in Model : disk[m] \in {0, cli.new[m]}

\* A command waits for its own request, the last one, with its reply decided.
WaitInv ==
    /\ \A i \in 1 .. Len(reqs) : reqs[i].live => cli.pc = "wait" /\ i = Len(reqs)
    /\ cli.pc = "wait" =>
          /\ StepInv(cli.ok) /\ StepInv(cli.bad)
          /\ cli.bad \in {"idle", "undo"}
          /\ cli.ok \in {"move", "confirm", "restore", "clear", "rm", "off", "idle"}
          /\ cli.ok = "rm" => cli.new = disk

Inv == TypeOK /\ BatchInv /\ StepInv(cli.pc) /\ WaitInv

-----------------------------------------------------------------------------

LEMMA IdleFacts == Idle \in Cli /\ Idle.pc = "idle"
  BY SwapAssumption DEF Idle, Cli, Step, Rev

\* A command that goes on keeps its data; one that ends is Idle.
LEMMA AtFacts ==
    ASSUME NEW c \in Cli, NEW pc \in Step
    PROVE  /\ At(c, pc) \in Cli /\ At(c, pc).pc = pc
           /\ pc # "idle" => At(c, pc).new = c.new /\ At(c, pc).todo = c.todo
<1>2. CASE pc = "idle"
  BY <1>2, IdleFacts DEF At
<1>3. CASE pc # "idle"
  <2>1. At(c, pc) = [pc |-> pc, ok |-> "idle", bad |-> "idle", after |-> c.after,
                     new |-> c.new, todo |-> c.todo, load |-> c.load]
    BY <1>3, ZenonT(60), SMTT(20) DEF At, Cli
  <2> QED BY <1>3, <2>1 DEF Cli, Step
<1> QED BY <1>2, <1>3

\* No request has a command waiting for it.
NoneLive == \A i \in 1 .. Len(reqs) : ~reqs[i].live

\* A request is appended for a set that is not empty, and awaited.
LEMMA AskFacts ==
    ASSUME TypeOK, NoneLive, NEW c \in Cli, NEW op \in {"load", "unload"}, NEW names \in SUBSET Model,
           NEW ok \in Step, NEW bad \in Step, ok # "wait", Ask(c, op, names, ok, bad)
    PROVE  /\ cli' \in Cli /\ reqs' \in Seq(Request)
           /\ cli'.pc \in {ok, "wait"}
           /\ cli'.pc = "wait" => cli'.ok = ok /\ cli'.bad = bad
           /\ cli'.pc # "idle" => cli'.new = c.new /\ cli'.todo = c.todo
           /\ \A i \in 1 .. Len(reqs') : reqs'[i].live => cli'.pc = "wait" /\ i = Len(reqs')
           /\ names # {} => cli'.pc = "wait"
<1>1. CASE names = {}
  BY <1>1, AtFacts DEF Ask, TypeOK, NoneLive
<1>2. CASE names # {}
  <2> DEFINE r == [op |-> op, names |-> names, live |-> TRUE]
  <2>1. r \in Request
    BY DEF Request
  <2>2. reqs \in Seq(Request) /\ reqs' = Append(reqs, r)
    BY <1>2 DEF Ask, TypeOK
  <2>3. cli' = [pc |-> "wait", ok |-> ok, bad |-> bad, after |-> c.after,
                new |-> c.new, todo |-> c.todo, load |-> c.load]
    BY <1>2, ZenonT(60), SMTT(20) DEF Ask, Cli
  <2>4. cli' \in Cli
    BY <2>3 DEF Cli, Step
  <2>5. /\ reqs' \in Seq(Request) /\ Len(reqs') = Len(reqs) + 1
        /\ \A i \in 1 .. Len(reqs) : reqs'[i] = reqs[i]
    BY <2>1, <2>2
  <2>6. \A i \in 1 .. Len(reqs') : reqs'[i].live => i = Len(reqs')
    BY <2>2, <2>5 DEF NoneLive
  <2> QED BY <2>3, <2>4, <2>5, <2>6, <1>2
<1> QED BY <1>1, <1>2

-----------------------------------------------------------------------------
(***************************************************************************)
(* The engine, and commands that die.                                      *)
(***************************************************************************)

\* Nobody waits for an abandoned request.
LEMMA AbandonFacts ==
    ASSUME TypeOK
    PROVE  Abandoned \in Seq(Request) /\ \A i \in 1 .. Len(Abandoned) : ~Abandoned[i].live
<1>1. reqs \in Seq(Request) /\ Len(reqs) \in Nat /\ DOMAIN reqs = 1 .. Len(reqs)
  BY DEF TypeOK
<1>2. ASSUME NEW i \in 1 .. Len(reqs)
      PROVE  [reqs[i] EXCEPT !.live = FALSE] \in Request /\ ~[reqs[i] EXCEPT !.live = FALSE].live
  <2>1. reqs[i] \in Request
    BY <1>1, <1>2
  <2> QED BY <2>1, ZenonT(60), SMTT(20) DEF Request
<1>3. Abandoned \in [1 .. Len(reqs) -> Request] /\ \A i \in 1 .. Len(reqs) : ~Abandoned[i].live
  BY <1>1, <1>2, ZenonT(60), SMTT(20) DEF Abandoned
<1>4. Abandoned \in Seq(Request)
  BY <1>1, <1>3
<1>5. Len(Abandoned) = Len(reqs)
  BY <1>1, <1>3, <1>4
<1> QED BY <1>3, <1>4, <1>5

\* The awaited request is the last one.
LEMMA DropFacts ==
    ASSUME TypeOK, \A i \in 1 .. Len(reqs) : reqs[i].live => i = Len(reqs)
    PROVE  LET q == SubSeq(reqs, 1, Len(reqs) - 1)
           IN  q \in Seq(Request) /\ \A i \in 1 .. Len(q) : ~q[i].live
<1> DEFINE n == Len(reqs) - 1
           q == SubSeq(reqs, 1, n)
<1>1. reqs \in Seq(Request) /\ Len(reqs) \in Nat /\ n \in Int
  BY DEF TypeOK
<1>2. \A i \in 1 .. n : i \in 1 .. Len(reqs) /\ i # Len(reqs) /\ reqs[i] \in Request
  BY <1>1
<1>3. 1 \in Int
  OBVIOUS
<1> HIDE DEF n
<1>4. /\ q \in Seq(Request)
      /\ Len(q) = IF 1 <= n THEN n - 1 + 1 ELSE 0
      /\ \A i \in 1 .. n - 1 + 1 : q[i] = reqs[1 + i - 1]
  BY <1>1, <1>2, <1>3
<1>5. \A i \in 1 .. Len(q) : i \in 1 .. n /\ q[i] = reqs[i]
  BY <1>1, <1>4
<1>6. \A i \in 1 .. Len(q) : ~q[i].live
  BY <1>2, <1>5, ZenonT(60), SMTT(20)
<1> QED BY <1>4, <1>6 DEF n

LEMMA TimeoutInv == ASSUME Inv, Timeout PROVE Inv'
<1>1. cli \in Cli /\ cli.bad \in Step /\ reqs \in Seq(Request) /\ cli.pc = "wait"
  BY DEF Inv, TypeOK, Cli, Timeout
<1>2. cli' \in Cli /\ cli'.pc = cli.bad /\ (cli.bad # "idle" => cli'.new = cli.new /\ cli'.todo = cli.todo)
  BY <1>1, AtFacts DEF Timeout, Goto
<1>3. reqs' \in Seq(Request) /\ \A i \in 1 .. Len(reqs') : ~reqs'[i].live
  <2>1. CASE reqs' = Abandoned
    BY <2>1, AbandonFacts DEF Inv
  <2>2. CASE reqs' = SubSeq(reqs, 1, Len(reqs) - 1)
    BY <2>2, DropFacts DEF Inv, WaitInv
  <2> QED BY <2>1, <2>2 DEF Timeout
<1>4. TypeOK'
  BY <1>2, <1>3, SwapAssumption DEF Inv, TypeOK, Timeout, Fault
<1>5. BatchInv'
  BY DEF Inv, BatchInv, Timeout, Pending, Batch, ModelInv, Fallback
<1>6. StepInv(cli.pc)'
  BY <1>1, <1>2 DEF Inv, WaitInv, StepInv, Timeout, Pending, Batch, StrayInv, NoneToRestore
<1>7. WaitInv'
  BY <1>1, <1>2, <1>3 DEF Inv, WaitInv
<1> QED BY <1>4, <1>5, <1>6, <1>7 DEF Inv

LEMMA CrashInv == ASSUME Inv, Crash PROVE Inv'
<1>1. cli' \in Cli /\ cli'.pc = "idle" /\ cli' = Idle
  BY SwapAssumption DEF Crash, Idle, Cli, Step, Rev
<1>2. reqs' \in Seq(Request) /\ \A i \in 1 .. Len(reqs') : ~reqs'[i].live
  BY AbandonFacts DEF Inv, Crash
<1>3. TypeOK'
  BY <1>1, <1>2, SwapAssumption DEF Inv, TypeOK, Crash, Fault
<1>4. BatchInv'
  BY DEF Inv, BatchInv, Crash, Pending, Batch, ModelInv, Fallback
<1> QED BY <1>1, <1>2, <1>3, <1>4 DEF Inv, StepInv, WaitInv, StrayInv, NoneToRestore

LEMMA RestartInv == ASSUME Inv, Restart PROVE Inv'
<1>1. cli \in Cli /\ cli.bad \in Step
  BY DEF Inv, TypeOK, Cli
<1>4. cli' \in Cli /\ StepInv(cli.pc)' /\ cli'.pc # "wait"
  <2>1. cli' \in Cli /\ cli'.pc # "wait"
    <3>1. CASE cli.pc = "wait"
      BY <1>1, <3>1, AtFacts DEF Restart, Goto, Inv, WaitInv
    <3>2. CASE cli.pc # "wait"
      BY <1>1, <3>2 DEF Restart
    <3> QED BY <3>1, <3>2
  <2>2. StepInv(cli.pc)'
    <3>1. CASE cli.pc = "wait"
      <4>1. cli'.pc = cli.bad /\ (cli.bad # "idle" => cli'.new = cli.new /\ cli'.todo = cli.todo)
        BY <1>1, <3>1, AtFacts DEF Restart, Goto
      <4> QED BY <3>1, <4>1 DEF Inv, WaitInv, StepInv, Restart, Pending, Batch, StrayInv, NoneToRestore
    <3>2. CASE cli.pc # "wait"
      BY <1>1, <3>2 DEF Inv, StepInv, Restart, Pending, Batch, StrayInv, NoneToRestore
    <3> QED BY <3>1, <3>2
  <2> QED BY <2>1, <2>2
<1>5. TypeOK'
  BY <1>4, SwapAssumption DEF Inv, TypeOK, Restart, Fault, Rev
<1>6. BatchInv'
  BY DEF Inv, BatchInv, Restart, Pending, Batch, ModelInv, Fallback
<1>7. WaitInv'
  BY <1>4 DEF Restart, WaitInv
<1> QED BY <1>4, <1>5, <1>6, <1>7 DEF Inv

LEMMA ServeInv == ASSUME Inv, NEW loaded \in SUBSET Model, Serve(loaded) PROVE Inv'
<1> DEFINE r == Head(reqs)
<1>1. reqs \in Seq(Request) /\ reqs # <<>> /\ Len(reqs) \in Nat /\ Len(reqs) # 0 /\ r = reqs[1]
  BY DEF Inv, TypeOK, Serve
<1>2. r \in Request /\ Tail(reqs) \in Seq(Request) /\ Len(Tail(reqs)) = Len(reqs) - 1
      /\ \A i \in 1 .. Len(Tail(reqs)) : Tail(reqs)[i] = reqs[i + 1]
  BY <1>1
<1>3. cli \in Cli /\ cli.ok \in Step /\ cli.bad \in Step
  BY DEF Inv, TypeOK, Cli
<1>4. /\ reqs' = Tail(reqs) /\ disk' = disk /\ parked' = parked /\ record' = record
      /\ enabled' = enabled /\ before' = before /\ stray' = stray /\ offer' = offer /\ runs' = runs
  BY DEF Serve
<1>5. ASSUME r.live PROVE cli' \in Cli /\ StepInv(cli.pc)' /\ WaitInv'
  <2>1. cli.pc = "wait" /\ Len(reqs) = 1
    BY <1>1, <1>5 DEF Inv, WaitInv
  <2>2. \E pc \in {cli.ok, cli.bad} : cli' = At(cli, pc)
    BY <1>5 DEF Serve, Goto
  <2>3. PICK pc \in {cli.ok, cli.bad} : cli' = At(cli, pc)
    BY <2>2
  <2>4. pc \in Step /\ pc # "wait" /\ StepInv(pc) /\ (pc = "rm" => cli.new = disk)
    BY <1>3, <2>1 DEF Inv, WaitInv
  <2>5. cli' \in Cli /\ cli'.pc = pc /\ (pc # "idle" => cli'.new = cli.new /\ cli'.todo = cli.todo)
    BY <1>3, <2>3, <2>4, AtFacts
  <2>6. StepInv(cli.pc)'
    BY <1>4, <2>4, <2>5 DEF StepInv, Pending, Batch, StrayInv, NoneToRestore
  <2>7. WaitInv'
    BY <1>1, <1>2, <1>4, <2>1, <2>4, <2>5 DEF WaitInv
  <2> QED BY <2>5, <2>6, <2>7
<1>6. ASSUME ~r.live PROVE cli' \in Cli /\ StepInv(cli.pc)' /\ WaitInv'
  <2>1. cli' = cli
    BY <1>6 DEF Serve
  <2>2. StepInv(cli.pc)'
    BY <1>4, <2>1 DEF Inv, StepInv, Pending, Batch, StrayInv, NoneToRestore
  <2>3. \A i \in 1 .. Len(reqs') : reqs'[i].live => cli.pc = "wait" /\ i = Len(reqs')
    <3>1. \A i \in 1 .. Len(reqs') : i + 1 \in 1 .. Len(reqs) /\ reqs'[i] = reqs[i + 1]
      BY <1>1, <1>2, <1>4
    <3>2. \A i \in 1 .. Len(reqs) : reqs[i].live => cli.pc = "wait" /\ i = Len(reqs)
      BY DEF Inv, WaitInv
    <3>3. Len(reqs') = Len(reqs) - 1
      BY <1>2, <1>4
    <3>4. ASSUME NEW i \in 1 .. Len(reqs'), reqs'[i].live
          PROVE  cli.pc = "wait" /\ i = Len(reqs')
      <4>1. i + 1 \in 1 .. Len(reqs) /\ reqs[i + 1].live /\ i \in Int
        BY <3>1, <3>4
      <4>2. cli.pc = "wait" /\ i + 1 = Len(reqs)
        BY <3>2, <4>1
      <4> QED BY <1>1, <3>3, <4>1, <4>2
    <3> QED BY <3>4
  <2>4. ASSUME cli.pc = "wait" PROVE (StepInv(cli.ok) /\ StepInv(cli.bad))'
    <3>1. StepInv(cli.ok) /\ StepInv(cli.bad)
      BY <2>4 DEF Inv, WaitInv
    <3>2. StepInv(cli.ok)'
      BY <1>4, <2>1, <3>1 DEF StepInv, Pending, Batch, StrayInv, NoneToRestore
    <3>3. StepInv(cli.bad)'
      BY <1>4, <2>1, <3>1 DEF StepInv, Pending, Batch, StrayInv, NoneToRestore
    <3> QED BY <3>2, <3>3
  <2>5. WaitInv'
    BY <1>4, <2>1, <2>3, <2>4 DEF Inv, WaitInv
  <2> QED BY <1>3, <2>1, <2>2, <2>5
<1>7. engine' \in [Model -> Rev]
  BY <1>4, SwapAssumption DEF Serve, Inv, TypeOK, Rev
<1>8. faults' \in 0 .. MaxFaults
  BY SwapAssumption DEF Serve, Inv, TypeOK, Fault, NoFault
<1>9. BatchInv'
  BY <1>4 DEF Inv, BatchInv, Pending, Batch, ModelInv, Fallback
<1> QED BY <1>2, <1>3, <1>4, <1>5, <1>6, <1>7, <1>8, <1>9 DEF Inv, TypeOK

-----------------------------------------------------------------------------
(***************************************************************************)
(* Steps of the command.                                                   *)
(***************************************************************************)

LEMMA Unawaited == ASSUME Inv, cli.pc # "wait" PROVE NoneLive
  BY DEF Inv, WaitInv, NoneLive

\* A step that asks the engine nothing.
LEMMA Local ==
    ASSUME Inv, cli.pc # "wait", reqs' = reqs, cli'.pc # "wait",
           TypeOK', BatchInv', StepInv(cli.pc)'
    PROVE  Inv'
<1>1. NoneLive
  BY Unawaited
<1>2. WaitInv'
  BY <1>1 DEF NoneLive, WaitInv
<1> QED BY <1>2 DEF Inv

\* Faults stay within their bound.
LEMMA FaultType == ASSUME TypeOK, NEW f, Fault(f) PROVE faults' \in 0 .. MaxFaults
  BY SwapAssumption DEF TypeOK, Fault

\* The frame of a request that leaves the files alone.
LEMMA Kept ==
    ASSUME Inv, UNCHANGED <<files, engine, before, stray, offer>>
    PROVE  /\ disk' \in [Model -> Rev] /\ parked' \in [Model -> Rev] /\ engine' \in [Model -> Rev]
           /\ record' \in Record /\ enabled' \subseteq Model
           /\ before' \in [Model -> Rev] /\ stray' \in [Model -> Rev] /\ offer' \in [Model -> Rev]
           /\ BatchInv' /\ (Pending <=> Pending') /\ Batch' = Batch
           /\ (NoneToRestore <=> NoneToRestore')
  BY ZenonT(60), SMTT(20) DEF Inv, TypeOK, files, BatchInv, Pending, Batch, NoneToRestore, ModelInv, Fallback

LEMMA LockInv == ASSUME Inv, Lock PROVE Inv'
<1>1. cli \in Cli
  BY DEF Inv, TypeOK
<1>2. cli' \in Cli /\ cli'.pc = "recover"
  BY <1>1, AtFacts DEF Lock, Goto, Step
<1>3. TypeOK'
  BY <1>2 DEF Inv, TypeOK, Lock, files, NoFault
<1>4. BatchInv'
  BY DEF Inv, BatchInv, Pending, Batch, Lock, files, ModelInv, Fallback
<1> QED BY <1>2, <1>3, <1>4, Local DEF Lock, StepInv, StrayInv, NoneToRestore

LEMMA RecoverInv == ASSUME Inv, Recover PROVE Inv'
<1>1. cli \in Cli
  BY DEF Inv, TypeOK
<1>2. cli' \in Cli /\ cli'.pc = IF Pending THEN "undo" ELSE "discard"
  BY <1>1, ZenonT(60), SMTT(20) DEF Recover, Cli, Step, Pending
<1>3. TypeOK'
  BY <1>2 DEF Inv, TypeOK, Recover, files, NoFault
<1>4. BatchInv'
  BY DEF Inv, BatchInv, Pending, Batch, Recover, files, ModelInv, Fallback
<1>5. StepInv(cli.pc)'
  BY <1>2 DEF StepInv, Recover, files, Pending, StrayInv, NoneToRestore
<1> QED BY <1>2, <1>3, <1>4, <1>5, Local DEF Recover

LEMMA RemoveParkedInv == ASSUME Inv, NEW m \in Model, RemoveParked(m) PROVE Inv'
<1>1. /\ cli' = cli /\ cli.pc \in {"discard", "clear"} /\ parked' = [parked EXCEPT ![m] = 0]
      /\ parked[m] # 0 /\ parked \in [Model -> Rev]
      /\ disk' = disk /\ record' = record /\ before' = before /\ stray' = stray /\ offer' = offer
      /\ record \in Record
  BY DEF RemoveParked, Parked, Inv, TypeOK
<1>2. /\ cli.pc = "discard" => ~Pending
      /\ cli.pc = "clear" => NoneToRestore /\ \A x \in record.install : disk[x] = 0
  BY DEF Inv, StepInv
<1>3. TypeOK'
  BY <1>1, SwapAssumption DEF Inv, TypeOK, RemoveParked, NoFault, Rev
<1>4. BatchInv'
  <2>1. CASE ~Pending
    BY <1>1, <2>1 DEF BatchInv, Pending
  <2>2. CASE Pending
    <3>1. m \notin record.replace /\ Batch' = Batch /\ BatchInv
      BY <1>1, <1>2, <2>2 DEF NoneToRestore, Batch, Inv
    <3>2. parked'[m] = 0 /\ \A x \in Model : x # m => parked'[x] = parked[x]
      BY <1>1
    <3>3. ASSUME NEW x \in Model PROVE ModelInv(x)'
      <4>1. ModelInv(x)
        BY <2>2, <3>1 DEF BatchInv
      <4> QED BY <1>1, <3>1, <3>2, <4>1 DEF ModelInv, Fallback
    <3> QED BY <1>1, <2>2, <3>1, <3>3 DEF BatchInv
  <2> QED BY <2>1, <2>2
<1>5. StepInv(cli.pc)'
  <2>1. cli.pc = "clear" => NoneToRestore'
    BY <1>1, <1>2 DEF NoneToRestore, Record
  <2> QED BY <1>1, <1>2, <2>1 DEF StepInv, Pending
<1> QED BY <1>1, <1>3, <1>4, <1>5, Local DEF RemoveParked

LEMMA RemoveRecordInv == ASSUME Inv, RemoveRecord PROVE Inv'
<1>1. cli' = cli /\ cli.pc \in {"discard", "clear"} /\ record' = NoRecord
  BY DEF RemoveRecord
<1>2. /\ NoRecord \in Record /\ NoRecord.phase = "none" /\ NoRecord.install = {}
      /\ NoRecord.replace = {}
  BY DEF Record, NoRecord
<1>3. TypeOK'
  BY <1>1, <1>2 DEF Inv, TypeOK, RemoveRecord, NoFault
<1>4. BatchInv'
  BY <1>1, <1>2 DEF BatchInv, Pending
<1>5. StepInv(cli.pc)'
  BY <1>1, <1>2 DEF StepInv, Pending, NoneToRestore
<1> QED BY <1>1, <1>3, <1>4, <1>5, Local DEF RemoveRecord

\* What cannot be removed stays: before it was discarded no batch was pending.
LEMMA RemoveFailsInv == ASSUME Inv, RemoveFails PROVE Inv'
<1>1. /\ cli \in Cli /\ cli.after \in {"plan", "idle"} /\ cli.pc \in {"discard", "clear"}
      /\ UNCHANGED <<files, engine, before, stray, offer>> /\ reqs' = reqs /\ runs' = runs
  BY DEF Inv, TypeOK, Cli, RemoveFails
<1>2. cli' \in Cli /\ cli'.pc \in {"plan", "idle"} /\ (cli'.pc = "plan" => cli.pc = "discard")
  <2>1. {"plan", "idle"} \subseteq Step
    BY DEF Step
  <2>2. CASE cli.pc = "discard"
    BY <1>1, <2>1, <2>2, AtFacts DEF RemoveFails, Goto
  <2>3. CASE cli.pc = "clear"
    BY <1>1, <2>1, <2>3, AtFacts DEF RemoveFails, Goto
  <2> QED BY <1>1, <2>2, <2>3
<1>3. faults' \in 0 .. MaxFaults
  BY FaultType DEF Inv, RemoveFails
<1>4. TypeOK'
  BY <1>1, <1>2, <1>3 DEF Inv, TypeOK, files
<1>5. BatchInv' /\ (Pending <=> Pending')
  BY <1>1, Kept
<1>6. cli.pc = "discard" => ~Pending
  BY DEF Inv, StepInv
<1>7. StepInv(cli.pc)'
  BY <1>2, <1>5, <1>6 DEF StepInv
<1> QED BY <1>1, <1>2, <1>4, <1>5, <1>7, Local

LEMMA RemovedInv == ASSUME Inv, Removed PROVE Inv'
<1>1. cli \in Cli /\ cli.after \in {"plan", "idle"}
  BY DEF Inv, TypeOK, Cli
<1>2. cli' \in Cli /\ cli'.pc \in {"plan", "idle"} /\ cli.pc # "wait"
  BY <1>1, AtFacts DEF Removed, Goto, Step
<1>3. TypeOK'
  BY <1>2 DEF Inv, TypeOK, Removed, files, NoFault
<1>4. BatchInv'
  BY DEF Inv, BatchInv, Pending, Batch, Removed, files, ModelInv, Fallback
<1>5. StepInv(cli.pc)'
  BY <1>2 DEF StepInv, Removed, files, Pending, NoRecord
<1> QED BY <1>2, <1>3, <1>4, <1>5, Local DEF Removed

LEMMA QuitInv == ASSUME Inv, Quit PROVE Inv'
<1>1. cli' \in Cli /\ cli'.pc = "idle"
  BY SwapAssumption DEF Quit, Idle, Cli, Step, Rev
<1>2. TypeOK'
  BY <1>1 DEF Inv, TypeOK, Quit, files, NoFault
<1>3. BatchInv'
  BY DEF Inv, BatchInv, Pending, Batch, Quit, files, ModelInv, Fallback
<1> QED BY <1>1, <1>2, <1>3, Local DEF Quit, StepInv, StrayInv, NoneToRestore

\* A step that asks the engine, and goes on at ok or bad.
LEMMA Asked ==
    ASSUME Inv, cli.pc # "wait", NEW c \in Cli, NEW op \in {"load", "unload"},
           NEW names \in SUBSET Model, NEW ok \in Step, NEW bad \in Step,
           ok \in {"move", "confirm", "restore", "clear", "rm", "off", "idle"},
           bad \in {"idle", "undo"},
           Ask(c, op, names, ok, bad),
           disk' \in [Model -> Rev], parked' \in [Model -> Rev], engine' \in [Model -> Rev],
           record' \in Record, enabled' \subseteq Model,
           before' \in [Model -> Rev], stray' \in [Model -> Rev], offer' \in [Model -> Rev],
           runs' \in 0 .. MaxRuns, faults' \in 0 .. MaxFaults,
           BatchInv',
           cli'.pc # "idle" => (StepInv(ok) /\ StepInv(bad))',
           ok = "rm" => c.new = disk' /\ names # {}
    PROVE  Inv'
<1>1. NoneLive /\ TypeOK /\ ok # "wait"
  BY Unawaited DEF Inv
<1>2. /\ cli' \in Cli /\ reqs' \in Seq(Request)
      /\ cli'.pc \in {ok, "wait"}
      /\ cli'.pc = "wait" => cli'.ok = ok /\ cli'.bad = bad
      /\ cli'.pc # "idle" => cli'.new = c.new /\ cli'.todo = c.todo
      /\ \A i \in 1 .. Len(reqs') : reqs'[i].live => cli'.pc = "wait" /\ i = Len(reqs')
      /\ names # {} => cli'.pc = "wait"
  BY <1>1, AskFacts, ZenonT(60), SMTT(20)
<1>3. TypeOK'
  BY <1>2 DEF TypeOK
<1>4. StepInv(cli.pc)'
  <2>1. CASE cli'.pc = ok /\ ok # "idle"
    BY <2>1
  <2>2. CASE cli'.pc \in {"wait", "idle"}
    BY <2>2 DEF StepInv, StrayInv, NoneToRestore
  <2> QED BY <1>2, <2>1, <2>2
<1>5. WaitInv'
  <2>1. ASSUME cli'.pc = "wait" PROVE (StepInv(cli.ok) /\ StepInv(cli.bad))'
    BY <1>2, <2>1
  <2>2. cli'.pc = "wait" => (cli'.ok = "rm" => cli'.new = disk')
    BY <1>2
  <2> QED BY <1>2, <2>1, <2>2 DEF WaitInv
<1> QED BY <1>3, <1>4, <1>5 DEF Inv

LEMMA LoadEnabledInv == ASSUME Inv, LoadEnabled PROVE Inv'
<1>1. cli \in Cli /\ cli.load \in SUBSET Model /\ cli.pc = "on"
  BY DEF Inv, TypeOK, Cli, LoadEnabled
<1>2. Ask(cli, "load", cli.load, "idle", "idle")
  BY DEF LoadEnabled
<1>3. BatchInv'
  BY DEF Inv, BatchInv, Pending, Batch, LoadEnabled, files, ModelInv, Fallback
<1>4. (StepInv("idle"))'
  BY DEF StepInv, StrayInv, NoneToRestore
<1>5. /\ disk' \in [Model -> Rev] /\ parked' \in [Model -> Rev] /\ engine' \in [Model -> Rev]
      /\ record' \in Record /\ enabled' \subseteq Model
      /\ before' \in [Model -> Rev] /\ stray' \in [Model -> Rev] /\ offer' \in [Model -> Rev]
      /\ runs' \in 0 .. MaxRuns /\ faults' \in 0 .. MaxFaults
  BY DEF Inv, TypeOK, LoadEnabled, files, NoFault
<1>6. {"idle"} \subseteq Step
  BY DEF Step
<1> QED BY <1>1, <1>2, <1>3, <1>4, <1>5, <1>6, Asked

LEMMA Planned ==
    ASSUME NEW c \in Cli, NEW new, NEW B
    PROVE  [c EXCEPT !.new = new, !.todo = B, !.after = "idle"] =
               [pc |-> c.pc, ok |-> c.ok, bad |-> c.bad, after |-> "idle",
                new |-> new, todo |-> B, load |-> c.load]
<1> DEFINE d == [pc |-> c.pc, ok |-> c.ok, bad |-> c.bad, after |-> c.after,
                 new |-> new, todo |-> c.todo, load |-> c.load]
           e == [pc |-> c.pc, ok |-> c.ok, bad |-> c.bad, after |-> c.after,
                 new |-> new, todo |-> B, load |-> c.load]
<1>1. [c EXCEPT !.new = new] = d
  BY DEF Cli
<1>2. [d EXCEPT !.todo = B] = e
  OBVIOUS
<1>3. [e EXCEPT !.after = "idle"] =
          [pc |-> c.pc, ok |-> c.ok, bad |-> c.bad, after |-> "idle",
           new |-> new, todo |-> B, load |-> c.load]
  OBVIOUS
<1> HIDE DEF d, e
<1> QED BY <1>1, <1>2, <1>3, ZenonT(60), SMTT(20)

LEMMA BeginSwapInv ==
    ASSUME Inv, NEW B \in SUBSET Model, NEW new \in [Model -> Rev], BeginSwap(B, new) PROVE Inv'
<1> DEFINE c == [cli EXCEPT !.new = new, !.todo = B, !.after = "idle"]
           names == B \intersect Installed
<1>1. cli \in Cli /\ cli.pc = "plan" /\ runs < MaxRuns
  BY DEF Inv, TypeOK, BeginSwap, StepInv, StrayInv, NoneToRestore
<1>2. c \in Cli /\ c.new = new /\ c.todo = B
  <2>1. cli \in Cli
    BY <1>1, ZenonT(60), SMTT(20)
  <2>2. c = [pc |-> cli.pc, ok |-> cli.ok, bad |-> cli.bad, after |-> "idle",
             new |-> new, todo |-> B, load |-> cli.load]
    BY <2>1, Planned, ZenonT(60), SMTT(20)
  <2> QED BY <2>1, <2>2 DEF Cli
<1> HIDE DEF c
<1>3. Ask(c, "unload", names, "move", "idle") /\ names \in SUBSET Model
  BY DEF BeginSwap, c
<1>4. /\ record' = [phase |-> "swapping", replace |-> names,
                    install |-> B \ Installed, reload |-> B \intersect Installed \intersect enabled]
      /\ before' = disk /\ stray' = parked /\ offer' = new /\ runs' = runs + 1
      /\ disk' = disk /\ parked' = parked /\ enabled' = enabled /\ engine' = engine /\ faults' = faults
  BY DEF BeginSwap, NoFault
<1>5. B # {} /\ \A m \in Model : IF m \in B THEN new[m] > disk[m] ELSE new[m] = 0
  BY DEF BeginSwap
<1>6. record' \in Record /\ Pending' /\ Batch' = B
  BY <1>4 DEF Record, Pending, Batch
<1>7. \A m \in Model : disk[m] \in Nat /\ new[m] \in Nat
  BY <1>1, SwapAssumption DEF Inv, TypeOK, Rev
<1>8. BatchInv'
  BY <1>4, <1>5, <1>6, <1>7 DEF BatchInv, Installed, ModelInv, Fallback
<1>9. cli'.pc # "idle" => (StepInv("move") /\ StepInv("idle"))'
  <2>1. /\ NoneLive /\ TypeOK /\ "move" # "wait" /\ {"move", "idle"} \subseteq Step
    BY <1>1, Unawaited DEF Inv, Step
  <2>2. cli'.pc # "idle" => cli'.new = c.new /\ cli'.todo = c.todo
    BY <1>2, <1>3, <2>1, AskFacts
  <2>3. cli'.pc # "idle" => StrayInv'
    BY <1>2, <1>4, <2>2 DEF StrayInv
  <2> QED BY <1>2, <1>4, <1>6, <2>2, <2>3 DEF StepInv
<1>10. /\ disk' \in [Model -> Rev] /\ parked' \in [Model -> Rev] /\ engine' \in [Model -> Rev]
       /\ enabled' \subseteq Model
       /\ before' \in [Model -> Rev] /\ stray' \in [Model -> Rev] /\ offer' \in [Model -> Rev]
       /\ runs' \in 0 .. MaxRuns /\ faults' \in 0 .. MaxFaults
  BY <1>1, <1>4, SwapAssumption DEF Inv, TypeOK
<1>11. {"move", "idle"} \subseteq Step /\ cli.pc # "wait"
  BY <1>1 DEF Step
<1> QED BY <1>2, <1>3, <1>6, <1>8, <1>9, <1>10, <1>11, Asked

LEMMA TodoFacts ==
    ASSUME NEW c \in Cli, NEW X \in SUBSET Model
    PROVE  LET d == [c EXCEPT !.todo = X] IN d \in Cli /\ d.pc = c.pc /\ d.new = c.new /\ d.todo = X
<1>1. [c EXCEPT !.todo = X] = [pc |-> c.pc, ok |-> c.ok, bad |-> c.bad, after |-> c.after,
                               new |-> c.new, todo |-> X, load |-> c.load]
  BY DEF Cli
<1> QED BY <1>1 DEF Cli

\* A model that a step leaves alone.
LEMMA ModelKept ==
    ASSUME NEW x, ModelInv(x), disk'[x] = disk[x], parked'[x] = parked[x], record' = record,
           before' = before, stray' = stray, offer' = offer
    PROVE  ModelInv(x)'
  BY DEF ModelInv, Fallback, Batch

LEMMA MoveInstallInv ==
    ASSUME Inv, NEW m \in cli.todo, NEW landed \in BOOLEAN, NEW failed \in BOOLEAN,
           MoveInstall(m, landed, failed)
    PROVE  Inv'
<1>1. /\ cli \in Cli /\ cli.pc = "move" /\ m \in record.install /\ m \in Model
      /\ cli.new \in [Model -> Rev] /\ cli.todo \in SUBSET Model
  BY DEF Inv, TypeOK, Cli, MoveInstall
<1>2. /\ parked' = parked /\ record' = record /\ before' = before /\ stray' = stray /\ offer' = offer
      /\ engine' = engine /\ reqs' = reqs /\ runs' = runs
  BY DEF MoveInstall
<1>3. IF landed THEN disk' = [disk EXCEPT ![m] = cli.new[m]] ELSE disk' = disk
  BY DEF MoveInstall
<1>4. /\ cli' \in Cli /\ faults' \in 0 .. MaxFaults
      /\ IF failed THEN cli'.pc = "undo"
         ELSE landed /\ cli'.pc = "move" /\ cli'.new = cli.new /\ cli'.todo = cli.todo \ {m}
  <2>1. CASE failed
    BY <1>1, <2>1, AtFacts, FaultType DEF MoveInstall, Goto, Step, Inv
  <2>2. CASE ~failed
    <3>1. cli' = [cli EXCEPT !.todo = cli.todo \ {m}] /\ faults' = faults /\ landed
      BY <2>2 DEF MoveInstall, NoFault
    <3>2. cli' \in Cli /\ cli'.pc = "move" /\ cli'.new = cli.new /\ cli'.todo = cli.todo \ {m}
      BY <1>1, <3>1, TodoFacts
    <3> QED BY <2>2, <3>1, <3>2 DEF Inv, TypeOK
  <2> QED BY <2>1, <2>2
<1>5. disk' \in [Model -> Rev] /\ \A x \in Model : x # m => disk'[x] = disk[x]
  BY <1>1, <1>3 DEF Inv, TypeOK
<1>6. enabled' \subseteq Model
  BY DEF MoveInstall, Inv, TypeOK
<1>7. TypeOK'
  BY <1>2, <1>4, <1>5, <1>6 DEF Inv, TypeOK
<1>8. Pending /\ record.replace \intersect record.install = {}
  BY <1>1 DEF Inv, StepInv, BatchInv, ModelInv, Fallback, StrayInv, NoneToRestore
<1>9. BatchInv'
  BY <1>1, <1>2, <1>5, <1>8 DEF Inv, BatchInv, Pending, Batch, ModelInv, Fallback
<1>10. StepInv(cli.pc)'
  <2>1. CASE failed
    BY <1>2, <1>4, <1>8, <2>1 DEF StepInv, Pending, StrayInv, NoneToRestore
  <2>2. CASE ~failed
    <3>1. cli.new = offer /\ \A x \in Batch \ cli.todo : disk[x] = offer[x]
      BY <1>1 DEF Inv, StepInv, StrayInv, NoneToRestore
    <3>2. disk'[m] = offer[m]
      BY <1>1, <1>3, <1>4, <2>2, <3>1 DEF Inv, TypeOK
    <3>3. Batch \subseteq Model
      BY DEF Inv, TypeOK, Record, Batch
    <3>4. \A x \in Batch \ (cli.todo \ {m}) : disk'[x] = offer[x]
      BY <1>5, <3>1, <3>2, <3>3
    <3>5. StrayInv'
      <4>1. StrayInv /\ m \notin record.replace
        BY <1>1, <1>8 DEF Inv, StepInv
      <4> QED BY <1>1, <1>2, <1>4, <1>5, <2>2, <4>1 DEF StrayInv
    <3> QED BY <1>2, <1>4, <1>8, <2>2, <3>1, <3>4, <3>5 DEF StepInv, Pending, Batch
  <2> QED BY <2>1, <2>2
<1> QED BY <1>1, <1>2, <1>4, <1>7, <1>9, <1>10, Local

LEMMA MoveParkInv ==
    ASSUME Inv, NEW m \in cli.todo, NEW failed \in BOOLEAN, MovePark(m, failed) PROVE Inv'
<1>1. /\ cli \in Cli /\ cli.pc = "move" /\ m \in record.replace /\ m \in Model
  BY DEF Inv, TypeOK, Cli, MovePark
<1>2. /\ record' = record /\ before' = before /\ stray' = stray /\ offer' = offer /\ enabled' = enabled
      /\ engine' = engine /\ reqs' = reqs /\ runs' = runs
  BY DEF MovePark
<1>3. /\ cli' \in Cli /\ faults' \in 0 .. MaxFaults
      /\ \/ cli'.pc = "undo" /\ disk' = disk /\ parked' = parked
         \/ /\ cli'.pc = "half" /\ cli'.new = cli.new /\ cli'.todo = cli.todo /\ parked[m] = 0
            /\ parked' = [parked EXCEPT ![m] = disk[m]] /\ disk' = [disk EXCEPT ![m] = 0]
  <2>1. CASE parked[m] # 0 \/ failed
    BY <1>1, <2>1, AtFacts, FaultType DEF MovePark, Goto, NoFault, Step, Inv, TypeOK
  <2>2. CASE parked[m] = 0 /\ ~failed
    BY <1>1, <2>2, AtFacts DEF MovePark, Goto, NoFault, Step, Inv, TypeOK
  <2> QED BY <2>1, <2>2
<1>4. disk \in [Model -> Rev] /\ parked \in [Model -> Rev] /\ 0 \in Rev
  BY SwapAssumption DEF Inv, TypeOK, Rev
<1>5. TypeOK'
  BY <1>1, <1>2, <1>3, <1>4 DEF Inv, TypeOK
<1>6. Pending /\ record.replace \intersect record.install = {} /\ before[m] # 0
  BY <1>1 DEF Inv, StepInv, BatchInv, ModelInv, Fallback, StrayInv, NoneToRestore
<1>7. BatchInv'
  BY <1>1, <1>2, <1>3, <1>4, <1>6 DEF Inv, BatchInv, Pending, Batch, ModelInv, Fallback
<1>8. StepInv(cli.pc)'
  <2>1. CASE cli'.pc = "undo"
    BY <1>2, <1>6, <2>1 DEF StepInv, Pending, StrayInv, NoneToRestore
  <2>2. CASE cli'.pc = "half"
    <3>1. cli.new = offer /\ \A x \in Batch \ cli.todo : disk[x] = offer[x]
      BY <1>1 DEF Inv, StepInv, StrayInv, NoneToRestore
    <3>2. \A x \in Batch \ cli.todo : disk'[x] = offer[x]
      <4>1. Batch \subseteq Model
        BY DEF Inv, TypeOK, Record, Batch
      <4> QED BY <1>3, <1>4, <2>2, <3>1, <4>1
    <3>3. StrayInv'
      <4>1. StrayInv /\ stray[m] = 0
        BY <1>1, <1>3, <2>2 DEF Inv, StepInv, StrayInv
      <4>2. \A x \in Model : x # m => disk'[x] = disk[x] /\ parked'[x] = parked[x]
        BY <1>1, <1>3, <1>4, <2>2
      <4> QED BY <1>1, <1>2, <1>3, <2>2, <4>1, <4>2 DEF StrayInv
    <3> QED BY <1>2, <1>3, <1>6, <2>2, <3>1, <3>2, <3>3 DEF StepInv, Pending, Batch
  <2> QED BY <1>3, <2>1, <2>2
<1> QED BY <1>1, <1>2, <1>3, <1>5, <1>7, <1>8, Local

LEMMA MoveLandInv ==
    ASSUME Inv, NEW m \in cli.todo, NEW outcome \in {"landed", "back", "lost"}, NEW failed \in BOOLEAN,
           MoveLand(m, outcome, failed)
    PROVE  Inv'
<1>1. /\ cli \in Cli /\ cli.pc = "half" /\ m \in record.replace /\ m \in Model /\ disk[m] = 0
      /\ cli.new \in [Model -> Rev] /\ cli.todo \in SUBSET Model
  BY DEF Inv, TypeOK, Cli, MoveLand
<1>2. /\ record' = record /\ before' = before /\ stray' = stray /\ offer' = offer /\ enabled' = enabled
      /\ engine' = engine /\ reqs' = reqs /\ runs' = runs
  BY DEF MoveLand
<1>3. /\ Pending /\ record.replace \intersect record.install = {} /\ before[m] # 0
      /\ parked[m] = Fallback(m) /\ parked[m] # 0
  BY <1>1 DEF Inv, StepInv, BatchInv, ModelInv, Fallback
<1>4. /\ disk \in [Model -> Rev] /\ parked \in [Model -> Rev] /\ 0 \in Rev
      /\ disk' = [disk EXCEPT ![m] = CASE outcome = "landed" -> cli.new[m]
                                       [] outcome = "back" -> parked[m]
                                       [] outcome = "lost" -> 0]
      /\ parked' = IF outcome = "back" THEN [parked EXCEPT ![m] = 0] ELSE parked
  BY SwapAssumption DEF Inv, TypeOK, Rev, MoveLand
<1>5. /\ outcome = "landed" => disk'[m] = cli.new[m]
      /\ outcome = "back" => disk'[m] = parked[m]
      /\ outcome = "lost" => disk'[m] = 0
      /\ disk' \in [Model -> Rev] /\ \A x \in Model : x # m => disk'[x] = disk[x]
  BY <1>1, <1>4
<1>6. /\ parked' \in [Model -> Rev] /\ \A x \in Model : x # m => parked'[x] = parked[x]
      /\ parked'[m] = IF outcome = "back" THEN 0 ELSE parked[m]
  BY <1>1, <1>4
<1>7. /\ cli' \in Cli /\ faults' \in 0 .. MaxFaults
      /\ IF failed THEN cli'.pc = "undo"
         ELSE outcome = "landed" /\ cli'.pc = "move" /\ cli'.new = cli.new /\ cli'.todo = cli.todo \ {m}
  <2>1. CASE failed
    BY <1>1, <2>1, AtFacts, FaultType DEF MoveLand, Goto, Step, Inv
  <2>2. CASE ~failed
    <3>1. /\ cli' = [cli EXCEPT !.pc = "move", !.todo = cli.todo \ {m}]
          /\ faults' = faults /\ outcome = "landed"
      BY <2>2 DEF MoveLand, NoFault
    <3>2. cli' = [pc |-> "move", ok |-> cli.ok, bad |-> cli.bad, after |-> cli.after,
                  new |-> cli.new, todo |-> cli.todo \ {m}, load |-> cli.load]
      BY <1>1, <3>1, ZenonT(60), SMTT(20) DEF Cli
    <3>3. cli' \in Cli
      BY <1>1, <3>2 DEF Cli, Step
    <3> QED BY <2>2, <3>1, <3>2, <3>3 DEF Inv, TypeOK
  <2> QED BY <2>1, <2>2
<1>8. TypeOK'
  BY <1>2, <1>5, <1>6, <1>7, ZenonT(60), SMTT(20) DEF Inv, TypeOK
<1>9. BatchInv'
  <2>1. /\ Batch # {} /\ Batch' = Batch /\ m \in Batch /\ m \notin record.install /\ offer[m] > before[m]
    <3>1. m \in Batch /\ m \notin record.install
      BY <1>1, <1>3, ZenonT(60), SMTT(20) DEF Batch
    <3>2. Batch' = Batch
      BY <1>2 DEF Batch
    <3>3. Batch # {} /\ offer[m] > before[m]
      BY <1>1, <1>3, <3>1, ZenonT(60), SMTT(20) DEF Inv, BatchInv, ModelInv, Fallback
    <3> QED BY <3>1, <3>2, <3>3
  <2>2. ASSUME NEW x \in Model, x # m PROVE ModelInv(x)'
    <3>1. disk'[x] = disk[x] /\ parked'[x] = parked[x] /\ ModelInv(x)
      BY <1>3, <1>5, <1>6, <2>2 DEF Inv, BatchInv
    <3> QED BY <1>2, <3>1, ModelKept
  <2>3. IF parked'[m] = 0 THEN disk'[m] = Fallback(m) ELSE parked'[m] = Fallback(m)
    BY <1>3, <1>5, <1>6
  <2>4. ModelInv(m)'
    BY <1>1, <1>2, <1>3, <2>1, <2>3 DEF ModelInv, Fallback
  <2> QED BY <1>2, <1>3, <2>1, <2>2, <2>4 DEF BatchInv
<1>10. StepInv(cli.pc)'
  <2>1. CASE failed
    BY <1>2, <1>3, <1>7, <2>1 DEF StepInv, Pending, StrayInv, NoneToRestore
  <2>2. CASE ~failed
    <3>1. cli.new = offer /\ \A x \in Batch \ cli.todo : disk[x] = offer[x]
      BY <1>1 DEF Inv, StepInv, StrayInv, NoneToRestore
    <3>2. Batch \subseteq Model
      BY DEF Inv, TypeOK, Record, Batch
    <3>3. \A x \in Batch \ (cli.todo \ {m}) : disk'[x] = offer[x]
      BY <1>5, <1>7, <2>2, <3>1, <3>2, ZenonT(60), SMTT(20)
    <3>4. StrayInv'
      <4>1. StrayInv /\ stray[m] = 0 /\ outcome = "landed"
        BY <1>1, <1>3, <1>7, <2>2 DEF Inv, StepInv, StrayInv
      <4> QED BY <1>1, <1>2, <1>5, <1>6, <1>7, <2>2, <4>1 DEF StrayInv
    <3> QED BY <1>2, <1>3, <1>7, <2>2, <3>1, <3>3, <3>4 DEF StepInv, Pending, Batch
  <2> QED BY <2>1, <2>2
<1> QED BY <1>1, <1>2, <1>7, <1>8, <1>9, <1>10, Local

LEMMA LoadBatchInv == ASSUME Inv, LoadBatch PROVE Inv'
<1>1. /\ cli \in Cli /\ cli.pc = "move" /\ cli.todo = {} /\ record.reload \in SUBSET Model
      /\ UNCHANGED <<files, engine, before, stray, offer>> /\ runs' = runs /\ faults' = faults
  BY DEF Inv, TypeOK, LoadBatch, NoFault, Record
<1>2. Ask(cli, "load", record.reload, "confirm", "undo")
  BY DEF LoadBatch
<1>3. {"confirm", "undo"} \subseteq Step /\ NoneLive /\ TypeOK
  BY <1>1, Unawaited DEF Step, Inv
<1>4. cli'.pc # "idle" => cli'.new = cli.new /\ cli'.todo = cli.todo
  BY <1>1, <1>2, <1>3, AskFacts, ZenonT(60), SMTT(20)
<1>5. Pending /\ cli.new = offer /\ \A m \in Batch : disk[m] = offer[m]
  BY <1>1 DEF Inv, StepInv, StrayInv, NoneToRestore
<1>6. cli'.pc # "idle" => (StepInv("confirm") /\ StepInv("undo"))'
  <2>1. StrayInv
    BY <1>1 DEF Inv, StepInv
  <2>2. cli'.pc # "idle" => StrayInv'
    BY <1>1, <1>4, <2>1 DEF StrayInv, files
  <2>3. Pending' /\ Batch' = Batch
    BY <1>1, <1>5, Kept
  <2> QED BY <1>1, <1>4, <1>5, <2>2, <2>3 DEF StepInv, files
<1>7. runs' \in 0 .. MaxRuns /\ faults' \in 0 .. MaxFaults /\ cli.pc # "wait"
  BY <1>1, ZenonT(60), SMTT(20) DEF Inv, TypeOK
<1>8. /\ disk' \in [Model -> Rev] /\ parked' \in [Model -> Rev] /\ engine' \in [Model -> Rev]
      /\ record' \in Record /\ enabled' \subseteq Model
      /\ before' \in [Model -> Rev] /\ stray' \in [Model -> Rev] /\ offer' \in [Model -> Rev] /\ BatchInv'
  BY <1>1, Kept, ZenonT(60), SMTT(20)
<1> QED BY <1>1, <1>2, <1>3, <1>6, <1>7, <1>8, Asked

LEMMA UndoInv == ASSUME Inv, Undo PROVE Inv'
<1> DEFINE c == [cli EXCEPT !.todo = {}]
<1>1. /\ cli \in Cli /\ cli.pc = "undo" /\ Batch \in SUBSET Model
      /\ UNCHANGED <<files, engine, before, stray, offer>> /\ runs' = runs /\ faults' = faults
  BY DEF Inv, TypeOK, Undo, NoFault, Record, Batch
<1>2. c \in Cli
  BY <1>1, TodoFacts
<1>3. Ask(c, "unload", Batch, "restore", "idle")
  BY DEF Undo, Batch
<1> HIDE DEF c
<1>4. {"restore", "idle"} \subseteq Step /\ cli.pc # "wait"
  BY <1>1 DEF Step
<1>5. (StepInv("restore") /\ StepInv("idle"))'
  <2>1. Pending
    BY <1>1 DEF Inv, StepInv, StrayInv, NoneToRestore
  <2>2. Pending'
    BY <1>1, <2>1, Kept
  <2> QED BY <2>2 DEF StepInv, StrayInv, NoneToRestore
<1>6. runs' \in 0 .. MaxRuns /\ faults' \in 0 .. MaxFaults
  BY <1>1 DEF Inv, TypeOK
<1> QED BY <1>1, <1>2, <1>3, <1>4, <1>5, <1>6, Kept, Asked, ZenonT(60), SMTT(20)

LEMMA ConfirmInv ==
    ASSUME Inv, NEW written \in BOOLEAN, NEW failed \in BOOLEAN, Confirm(written, failed) PROVE Inv'
<1>1. /\ cli \in Cli /\ cli.pc = "confirm" /\ record \in Record
      /\ disk' = disk /\ parked' = parked /\ enabled' = enabled /\ engine' = engine
      /\ reqs' = reqs /\ before' = before /\ stray' = stray /\ offer' = offer /\ runs' = runs
      /\ record' = [record EXCEPT !.phase = IF written THEN "confirmed" ELSE record.phase]
  BY DEF Inv, TypeOK, Confirm
<1>2. /\ cli' \in Cli /\ faults' \in 0 .. MaxFaults
      /\ IF failed THEN cli'.pc = "idle" ELSE written /\ cli'.pc = "discard"
  <2>1. CASE failed
    <3>1. cli' = Idle /\ faults' \in 0 .. MaxFaults
      BY <2>1, FaultType DEF Confirm, Inv
    <3>2. Idle \in Cli /\ Idle.pc = "idle"
      BY SwapAssumption DEF Idle, Cli, Step, Rev
    <3> QED BY <2>1, <3>1, <3>2
  <2>2. CASE ~failed
    <3>1. cli' = [cli EXCEPT !.pc = "discard", !.after = "idle"] /\ faults' = faults /\ written
      BY <2>2 DEF Confirm, NoFault
    <3>2. cli' = [pc |-> "discard", ok |-> cli.ok, bad |-> cli.bad, after |-> "idle",
                  new |-> cli.new, todo |-> cli.todo, load |-> cli.load]
      BY <1>1, <3>1, ZenonT(60), SMTT(20) DEF Cli
    <3> QED BY <1>1, <2>2, <3>1, <3>2 DEF Cli, Step, Inv, TypeOK
  <2> QED BY <2>1, <2>2
<1>3. /\ record' \in Record /\ (written => ~Pending')
      /\ (~written => record' = record)
  <2>1. CASE written
    <3>1. record' = [phase |-> "confirmed", replace |-> record.replace, install |-> record.install,
                     reload |-> record.reload]
      BY <1>1, <2>1 DEF Record
    <3> QED BY <1>1, <2>1, <3>1 DEF Record, Pending
  <2>2. CASE ~written
    <3>1. record' = [record EXCEPT !.phase = record.phase]
      BY <1>1, <2>2
    <3>2. record' = record
      BY <1>1, <3>1 DEF Record
    <3> QED BY <1>1, <2>2, <3>2
  <2> QED BY <2>1, <2>2
<1>4. TypeOK'
  BY <1>1, <1>2, <1>3 DEF Inv, TypeOK
<1>5. BatchInv'
  BY <1>1, <1>3 DEF Inv, BatchInv, Pending, Batch, ModelInv, Fallback
<1>6. StepInv(cli.pc)'
  BY <1>2, <1>3 DEF StepInv, StrayInv, NoneToRestore
<1> QED BY <1>1, <1>2, <1>4, <1>5, <1>6, Local

LEMMA ProblemFacts ==
    ASSUME TypeOK, NEW m \in Model, NEW failed \in BOOLEAN, Problem(m, failed)
    PROVE  cli' \in Cli /\ cli'.pc = cli.pc /\ faults' \in 0 .. MaxFaults
<1>1. cli \in Cli /\ cli.todo \union {m} \in SUBSET Model
  BY DEF TypeOK, Cli
<1>2. CASE failed
  <2>1. cli' = [cli EXCEPT !.todo = cli.todo \union {m}] /\ Fault("move")
    BY <1>2 DEF Problem
  <2>2. faults' \in 0 .. MaxFaults
    BY <2>1, FaultType
  <2> QED BY <1>1, <2>1, <2>2, TodoFacts
<1>3. CASE ~failed
  BY <1>1, <1>3 DEF Problem, NoFault, TypeOK
<1> QED BY <1>2, <1>3

LEMMA RestoreRetireInv == ASSUME Inv, NEW m \in ToRestore, RestoreRetire(m) PROVE Inv'
<1>1. /\ cli' = cli /\ cli.pc = "restore" /\ reqs' = reqs /\ m \in record.replace /\ parked[m] # 0
      /\ m \in Model /\ disk' = [disk EXCEPT ![m] = 0] /\ disk \in [Model -> Rev]
      /\ parked' = parked /\ record' = record /\ before' = before /\ stray' = stray /\ offer' = offer
  BY DEF Inv, TypeOK, Record, RestoreRetire, ToRestore
<1>2. TypeOK'
  <2>1. disk' \in [Model -> Rev]
    BY <1>1, SwapAssumption DEF Rev
  <2> QED BY <1>1, <2>1 DEF Inv, TypeOK, RestoreRetire, NoFault
<1>3. BatchInv'
  BY <1>1, ZenonT(60), SMTT(20) DEF Inv, BatchInv, Pending, Batch, ModelInv, Fallback
<1>4. StepInv(cli.pc)'
  BY <1>1 DEF Inv, StepInv, Pending, StrayInv, NoneToRestore
<1> QED BY <1>1, <1>2, <1>3, <1>4, Local

LEMMA RestorePutInv ==
    ASSUME Inv, NEW m \in ToRestore, NEW failed \in BOOLEAN, RestorePut(m, failed) PROVE Inv'
<1>1. /\ cli.pc = "restore" /\ reqs' = reqs /\ m \in record.replace /\ parked[m] # 0
      /\ m \in Model /\ disk \in [Model -> Rev] /\ parked \in [Model -> Rev]
      /\ disk' = [disk EXCEPT ![m] = parked[m]] /\ parked' = [parked EXCEPT ![m] = 0]
      /\ record' = record /\ before' = before /\ stray' = stray /\ offer' = offer
  BY DEF Inv, TypeOK, Record, RestorePut, ToRestore
<1>2. cli' \in Cli /\ cli'.pc = "restore" /\ faults' \in 0 .. MaxFaults
  BY <1>1, ProblemFacts DEF Inv, RestorePut
<1>3. TypeOK'
  BY <1>1, <1>2, SwapAssumption DEF Inv, TypeOK, RestorePut, Rev
<1>4. BatchInv'
  BY <1>1 DEF Inv, BatchInv, Pending, Batch, ModelInv, Fallback
<1>5. StepInv(cli.pc)'
  BY <1>1, <1>2 DEF Inv, StepInv, Pending, StrayInv, NoneToRestore
<1> QED BY <1>1, <1>2, <1>3, <1>4, <1>5, Local

LEMMA RestoreFailsInv == ASSUME Inv, NEW m \in ToRestore, RestoreFails(m) PROVE Inv'
<1>1. /\ cli.pc = "restore" /\ reqs' = reqs /\ m \in Model
      /\ UNCHANGED <<files, engine, before, stray, offer>> /\ runs' = runs
  BY DEF Inv, TypeOK, Record, RestoreFails, ToRestore
<1>2. cli' \in Cli /\ cli'.pc = "restore" /\ faults' \in 0 .. MaxFaults
  BY <1>1, ProblemFacts, ZenonT(60), SMTT(20) DEF Inv, RestoreFails
<1>3. TypeOK'
  BY <1>1, <1>2 DEF Inv, TypeOK, files
<1>4. Pending
  BY <1>1 DEF Inv, StepInv, StrayInv, NoneToRestore
<1>5. BatchInv' /\ Pending'
  BY <1>1, <1>4, Kept
<1>6. StepInv(cli.pc)'
  BY <1>2, <1>5 DEF StepInv, StrayInv, NoneToRestore
<1> QED BY <1>1, <1>2, <1>3, <1>5, <1>6, Local

LEMMA RestoredInv == ASSUME Inv, Restored PROVE Inv'
<1>1. /\ cli.pc = "restore" /\ reqs' = reqs /\ ToRestore = {} /\ cli \in Cli
      /\ UNCHANGED <<files, engine, before, stray, offer>> /\ runs' = runs /\ faults' = faults
  BY DEF Inv, TypeOK, Restored, NoFault
<1>2. cli' \in Cli /\ cli'.pc = IF cli.todo = {} THEN "uninstall" ELSE "idle"
  BY <1>1, AtFacts DEF Restored, Goto, Step
<1>3. TypeOK'
  BY <1>1, <1>2 DEF Inv, TypeOK, files
<1>4. Pending
  BY <1>1 DEF Inv, StepInv, StrayInv, NoneToRestore
<1>5. cli.todo = {} => NoneToRestore
  BY <1>1 DEF ToRestore, NoneToRestore
<1>6. BatchInv' /\ Pending' /\ (NoneToRestore <=> NoneToRestore')
  BY <1>1, <1>4, Kept
<1>7. StepInv(cli.pc)'
  BY <1>2, <1>5, <1>6 DEF StepInv, StrayInv, NoneToRestore
<1> QED BY <1>1, <1>2, <1>3, <1>6, <1>7, Local

LEMMA UninstallInv ==
    ASSUME Inv, NEW m \in ToUninstall, NEW failed \in BOOLEAN, Uninstall(m, failed) PROVE Inv'
<1>1. /\ cli.pc = "uninstall" /\ reqs' = reqs /\ m \in record.install
      /\ m \in Model /\ disk \in [Model -> Rev] /\ disk' = [disk EXCEPT ![m] = 0]
      /\ parked' = parked /\ record' = record /\ before' = before /\ stray' = stray /\ offer' = offer
  BY DEF Inv, TypeOK, Record, Uninstall, ToUninstall
<1>2. cli' \in Cli /\ cli'.pc = "uninstall" /\ faults' \in 0 .. MaxFaults
  BY <1>1, ProblemFacts DEF Inv, Uninstall
<1>3. TypeOK'
  <2>1. disk' \in [Model -> Rev]
    BY <1>1, SwapAssumption DEF Rev
  <2> QED BY <1>1, <1>2, <2>1 DEF Inv, TypeOK, Uninstall
<1>4. Pending /\ record.replace \intersect record.install = {} /\ NoneToRestore
  BY <1>1, ZenonT(60), SMTT(20) DEF Inv, StepInv, BatchInv, ModelInv, Fallback, StrayInv, NoneToRestore
<1>5. BatchInv'
  <2>1. BatchInv /\ m \in Batch /\ m \notin record.replace
    BY <1>1, <1>4, ZenonT(60), SMTT(20) DEF Inv, Batch
  <2>2. Batch' = Batch /\ \A x \in Model : x # m => disk'[x] = disk[x]
    BY <1>1 DEF Batch
  <2>3. ASSUME NEW x \in Model, x # m PROVE ModelInv(x)'
    <3>1. disk'[x] = disk[x] /\ parked'[x] = parked[x] /\ ModelInv(x)
      BY <1>1, <1>4, <2>1, <2>2, <2>3 DEF BatchInv
    <3> QED BY <1>1, <3>1, ModelKept
  <2>4. ModelInv(m)'
    <3>1. ModelInv(m)
      BY <1>1, <1>4, <2>1 DEF BatchInv
    <3> QED BY <1>1, <2>1, <2>2, <3>1 DEF ModelInv
  <2>5. Batch # {}
    BY <1>4, <2>1 DEF BatchInv
  <2> QED BY <1>1, <1>4, <2>2, <2>3, <2>4, <2>5 DEF BatchInv
<1>6. StepInv(cli.pc)'
  BY <1>1, <1>2, <1>4, ZenonT(60), SMTT(20) DEF StepInv, Pending, StrayInv, NoneToRestore
<1> QED BY <1>1, <1>2, <1>3, <1>5, <1>6, Local

LEMMA UninstallFailsInv == ASSUME Inv, NEW m \in ToUninstall, UninstallFails(m) PROVE Inv'
<1>1. /\ cli.pc = "uninstall" /\ reqs' = reqs /\ m \in Model
      /\ UNCHANGED <<files, engine, before, stray, offer>> /\ runs' = runs
  BY DEF Inv, TypeOK, Record, UninstallFails, ToUninstall
<1>2. cli' \in Cli /\ cli'.pc = "uninstall" /\ faults' \in 0 .. MaxFaults
  BY <1>1, ProblemFacts, ZenonT(60), SMTT(20) DEF Inv, UninstallFails
<1>3. TypeOK'
  BY <1>1, <1>2 DEF Inv, TypeOK, files
<1>4. Pending /\ NoneToRestore
  BY <1>1 DEF Inv, StepInv, StrayInv, NoneToRestore
<1>5. BatchInv' /\ Pending' /\ (NoneToRestore <=> NoneToRestore')
  BY <1>1, <1>4, Kept
<1>6. StepInv(cli.pc)'
  BY <1>2, <1>4, <1>5 DEF StepInv, StrayInv, NoneToRestore
<1> QED BY <1>1, <1>2, <1>3, <1>5, <1>6, Local

LEMMA UninstalledInv == ASSUME Inv, Uninstalled PROVE Inv'
<1>1. /\ cli.pc = "uninstall" /\ cli \in Cli /\ ToUninstall = {} /\ record.reload \in SUBSET Model
      /\ UNCHANGED <<files, engine, before, stray, offer>> /\ runs' = runs /\ faults' = faults
      /\ record.install \subseteq Model
  BY DEF Inv, TypeOK, Uninstalled, NoFault, Record
<1>2. Pending /\ NoneToRestore
  BY <1>1 DEF Inv, StepInv, StrayInv, NoneToRestore
<1>3. BatchInv' /\ Pending' /\ NoneToRestore' /\ record' = record /\ disk' = disk
  BY <1>1, <1>2, Kept DEF files
<1>4. CASE cli.todo = {}
  <2>1. Ask(cli, "load", record.reload, "clear", "idle")
    BY <1>4 DEF Uninstalled
  <2>2. \A m \in record.install : disk[m] = 0
    BY <1>1, <1>4 DEF ToUninstall, Installed
  <2>3. (StepInv("clear") /\ StepInv("idle"))'
    BY <1>3, <2>2 DEF StepInv, StrayInv, NoneToRestore
  <2>4. {"clear", "idle"} \subseteq Step /\ cli.pc # "wait"
    BY <1>1 DEF Step
  <2>5. runs' \in 0 .. MaxRuns /\ faults' \in 0 .. MaxFaults
    BY <1>1 DEF Inv, TypeOK
  <2> QED BY <1>1, <2>1, <2>3, <2>4, <2>5, Kept, Asked
<1>5. CASE cli.todo # {}
  <2>1. reqs' = reqs /\ cli' \in Cli /\ cli'.pc = "idle"
    BY <1>1, <1>5, AtFacts DEF Uninstalled, Goto, Step
  <2>2. TypeOK'
    BY <1>1, <2>1 DEF Inv, TypeOK, files
  <2>3. StepInv(cli.pc)'
    BY <2>1 DEF StepInv, StrayInv, NoneToRestore
  <2> QED BY <1>1, <1>3, <2>1, <2>2, <2>3, Local
<1> QED BY <1>4, <1>5

LEMMA RmPlanned ==
    ASSUME NEW c \in Cli, NEW new, NEW S
    PROVE  [c EXCEPT !.todo = S, !.new = new] =
               [pc |-> c.pc, ok |-> c.ok, bad |-> c.bad, after |-> c.after,
                new |-> new, todo |-> S, load |-> c.load]
<1> DEFINE d == [pc |-> c.pc, ok |-> c.ok, bad |-> c.bad, after |-> c.after,
                 new |-> c.new, todo |-> S, load |-> c.load]
<1>1. [c EXCEPT !.todo = S] = d
  BY DEF Cli
<1>2. [d EXCEPT !.new = new] = [pc |-> c.pc, ok |-> c.ok, bad |-> c.bad, after |-> c.after,
                                new |-> new, todo |-> S, load |-> c.load]
  OBVIOUS
<1> HIDE DEF d
<1> QED BY <1>1, <1>2, ZenonT(60), SMTT(20)

LEMMA RmInv == ASSUME Inv, NEW S \in SUBSET Installed, Rm(S) PROVE Inv'
<1> DEFINE c == [cli EXCEPT !.todo = S, !.new = disk]
<1>1. /\ cli \in Cli /\ cli.pc = "plan" /\ S \in SUBSET Model /\ S # {} /\ disk \in [Model -> Rev]
      /\ UNCHANGED <<files, engine, before, stray, offer>> /\ runs < MaxRuns /\ runs' = runs + 1 /\ faults' = faults
  BY DEF Inv, TypeOK, Rm, Begin, NoFault, Installed
<1>2. c \in Cli /\ c.new = disk
  <2>1. c = [pc |-> cli.pc, ok |-> cli.ok, bad |-> cli.bad, after |-> cli.after,
             new |-> disk, todo |-> S, load |-> cli.load]
    BY <1>1, RmPlanned, ZenonT(60), SMTT(20)
  <2> QED BY <1>1, <2>1, ZenonT(60), SMTT(20) DEF Cli
<1> HIDE DEF c
<1>3. Ask(c, "unload", S, "rm", "idle")
  BY DEF Rm, c
<1>4. {"rm", "idle"} \subseteq Step /\ cli.pc # "wait" /\ NoneLive /\ TypeOK
  BY <1>1, Unawaited DEF Step, Inv
<1>5. cli'.pc # "idle" => cli'.new = c.new
  BY <1>1, <1>2, <1>3, <1>4, AskFacts
<1>6. ~Pending
  BY <1>1 DEF Inv, StepInv, StrayInv, NoneToRestore
<1>7. cli'.pc # "idle" => (StepInv("rm") /\ StepInv("idle"))'
  BY <1>1, <1>2, <1>5, <1>6, Kept, ZenonT(60), SMTT(20) DEF StepInv, files, StrayInv, NoneToRestore
<1>8. runs' \in 0 .. MaxRuns /\ faults' \in 0 .. MaxFaults /\ c.new = disk'
  <2>1. runs \in 0 .. MaxRuns /\ faults \in 0 .. MaxFaults
    BY DEF Inv, TypeOK
  <2>2. disk' = disk
    BY <1>1 DEF files
  <2> QED BY <1>1, <1>2, <2>1, <2>2, SwapAssumption
<1> QED BY <1>1, <1>2, <1>3, <1>4, <1>7, <1>8, Kept, Asked

LEMMA RmRetireInv == ASSUME Inv, NEW m \in cli.todo, RmRetire(m) PROVE Inv'
<1>1. /\ cli \in Cli /\ cli.pc = "rm" /\ m \in Model /\ reqs' = reqs /\ cli.todo \in SUBSET Model
      /\ disk \in [Model -> Rev] /\ disk' = [disk EXCEPT ![m] = 0]
      /\ parked' = parked /\ record' = record /\ before' = before /\ stray' = stray /\ offer' = offer
  BY DEF Inv, TypeOK, Cli, RmRetire
<1>2. cli' \in Cli /\ (cli'.pc = "idle" \/ (cli'.pc = "rm" /\ cli'.new = cli.new))
  <2>1. CASE cli.todo = {m}
    BY <2>1, IdleFacts DEF RmRetire
  <2>2. CASE cli.todo # {m}
    <3>1. cli' = [cli EXCEPT !.todo = cli.todo \ {m}]
      BY <2>2 DEF RmRetire
    <3> QED BY <1>1, <3>1, TodoFacts
  <2> QED BY <2>1, <2>2
<1>3. TypeOK'
  <2>1. disk' \in [Model -> Rev]
    BY <1>1, SwapAssumption DEF Rev
  <2>2. /\ enabled' = enabled /\ engine' = engine /\ reqs' = reqs /\ runs' = runs /\ faults' = faults
    BY DEF RmRetire, NoFault
  <2> QED BY <1>1, <1>2, <2>1, <2>2 DEF Inv, TypeOK
<1>4. ~Pending /\ \A x \in Model : disk[x] \in {0, cli.new[x]}
  <2>1. StepInv(cli.pc)
    BY DEF Inv
  <2> QED BY <1>1, <2>1 DEF StepInv, StrayInv, NoneToRestore
<1>5. ~Pending
  BY <1>4
<1>6. BatchInv'
  BY <1>1, <1>5 DEF BatchInv, Pending, ModelInv, Fallback
<1>7. StepInv(cli.pc)'
  BY <1>1, <1>2, <1>4 DEF StepInv, Pending
<1> QED BY <1>1, <1>2, <1>3, <1>6, <1>7, Local, ZenonT(60), SMTT(20)

LEMMA RmFailsInv == ASSUME Inv, NEW back \in SUBSET Model, RmFails(back) PROVE Inv'
<1>1. /\ cli \in Cli /\ cli.pc = "rm" /\ reqs' = reqs /\ cli.new \in [Model -> Rev]
      /\ disk \in [Model -> Rev]
      /\ disk' = [m \in Model |-> IF m \in back THEN cli.new[m] ELSE disk[m]]
      /\ parked' = parked /\ record' = record /\ before' = before /\ stray' = stray /\ offer' = offer
  BY DEF Inv, TypeOK, Cli, RmFails
<1>2. cli' \in Cli /\ cli'.pc = "idle" /\ faults' \in 0 .. MaxFaults
  BY <1>1, AtFacts, FaultType DEF RmFails, Goto, Step, Inv
<1>3. TypeOK'
  BY <1>1, <1>2, ZenonT(60), SMTT(20) DEF Inv, TypeOK, RmFails
<1>4. ~Pending
  BY <1>1, ZenonT(60), SMTT(20) DEF Inv, StepInv, StrayInv, NoneToRestore
<1>5. BatchInv'
  BY <1>1, <1>4 DEF BatchInv, Pending, NoRecord, ModelInv, Fallback
<1>6. StepInv(cli.pc)'
  BY <1>2, ZenonT(60), SMTT(20) DEF StepInv, StrayInv, NoneToRestore
<1> QED BY <1>1, <1>2, <1>3, <1>5, <1>6, Local

LEMMA DeactivateInv == ASSUME Inv, NEW S \in SUBSET Installed, Deactivate(S) PROVE Inv'
<1> DEFINE c == [cli EXCEPT !.todo = S]
<1>1. /\ cli \in Cli /\ cli.pc = "plan" /\ S \in SUBSET Model
      /\ UNCHANGED <<files, engine, before, stray, offer>> /\ runs < MaxRuns /\ runs' = runs + 1 /\ faults' = faults
  BY DEF Inv, TypeOK, Deactivate, Begin, NoFault, Installed
<1>2. c \in Cli
  BY <1>1, TodoFacts
<1>3. Ask(c, "unload", S, "off", "idle")
  BY DEF Deactivate
<1> HIDE DEF c
<1>4. {"off", "idle"} \subseteq Step /\ cli.pc # "wait"
  BY <1>1, ZenonT(60), SMTT(20) DEF Step
<1>5. ~Pending
  BY <1>1, ZenonT(60), SMTT(20) DEF Inv, StepInv, StrayInv, NoneToRestore
<1>6. (StepInv("off") /\ StepInv("idle"))'
  BY <1>1, <1>5, Kept DEF StepInv, files, StrayInv, NoneToRestore
<1>7. runs' \in 0 .. MaxRuns /\ faults' \in 0 .. MaxFaults
  BY <1>1, SwapAssumption DEF Inv, TypeOK
<1> QED BY <1>1, <1>2, <1>3, <1>4, <1>6, <1>7, Kept, Asked, ZenonT(60), SMTT(20)

LEMMA DisableInv ==
    ASSUME Inv, NEW m \in cli.todo, NEW failed \in BOOLEAN, Disable(m, failed) PROVE Inv'
<1>1. /\ cli \in Cli /\ cli.pc = "off" /\ m \in Model /\ reqs' = reqs /\ cli.todo \in SUBSET Model
      /\ disk' = disk /\ parked' = parked /\ record' = record /\ before' = before /\ stray' = stray /\ offer' = offer
  BY DEF Inv, TypeOK, Cli, Disable
<1>2. cli' \in Cli /\ (cli'.pc = "idle" \/ cli'.pc = "off")
  <2>1. CASE cli.todo = {m}
    BY <2>1, IdleFacts DEF Disable
  <2>2. CASE cli.todo # {m}
    <3>1. cli' = [cli EXCEPT !.todo = cli.todo \ {m}]
      BY <2>2 DEF Disable
    <3> QED BY <1>1, <3>1, TodoFacts
  <2> QED BY <2>1, <2>2
<1>3. faults' \in 0 .. MaxFaults /\ enabled' \subseteq Model
  BY FaultType DEF Inv, TypeOK, Disable, NoFault
<1>4. TypeOK'
  BY <1>1, <1>2, <1>3, ZenonT(60), SMTT(20) DEF Inv, TypeOK, Disable
<1>5. ~Pending
  BY <1>1, ZenonT(60), SMTT(20) DEF Inv, StepInv, StrayInv, NoneToRestore
<1>6. BatchInv'
  BY <1>1, <1>5 DEF BatchInv, Pending, NoRecord, ModelInv, Fallback
<1>7. StepInv(cli.pc)'
  BY <1>1, <1>2, <1>5 DEF StepInv, Pending
<1> QED BY <1>1, <1>2, <1>4, <1>6, <1>7, Local

\* What activate loads was not resident.
LEMMA ActivateTyped ==
    ASSUME cli \in Cli, NEW S \in SUBSET Model, Activate(S) PROVE cli' \in Cli /\ cli'.pc = "on"
<1> DEFINE L == {m \in S : engine[m] = 0}
           d == [pc |-> "on", ok |-> cli.ok, bad |-> cli.bad, after |-> cli.after,
                 new |-> cli.new, todo |-> cli.todo, load |-> cli.load]
           e == [pc |-> "on", ok |-> cli.ok, bad |-> cli.bad, after |-> cli.after,
                 new |-> cli.new, todo |-> S, load |-> cli.load]
<1>1. cli' = [cli EXCEPT !.pc = "on", !.todo = S, !.load = L] /\ L \in SUBSET Model
  BY DEF Activate
<1> HIDE DEF L
<1>2. [cli EXCEPT !.pc = "on"] = d
  BY DEF Cli
<1>3. [d EXCEPT !.todo = S] = e
  OBVIOUS
<1>4. [e EXCEPT !.load = L] = [pc |-> "on", ok |-> cli.ok, bad |-> cli.bad, after |-> cli.after,
                               new |-> cli.new, todo |-> S, load |-> L]
  OBVIOUS
<1> HIDE DEF d, e
<1>5. cli' = [pc |-> "on", ok |-> cli.ok, bad |-> cli.bad, after |-> cli.after,
              new |-> cli.new, todo |-> S, load |-> L]
  BY <1>1, <1>2, <1>3, <1>4, ZenonT(60), SMTT(20)
<1> QED BY <1>1, <1>5 DEF Cli, Step

LEMMA ActivateInv == ASSUME Inv, NEW S \in SUBSET Installed, Activate(S) PROVE Inv'
<1>1. /\ cli \in Cli /\ cli.pc = "plan" /\ S \in SUBSET Model /\ reqs' = reqs
      /\ UNCHANGED <<files, engine, before, stray, offer>> /\ runs < MaxRuns /\ runs' = runs + 1 /\ faults' = faults
  BY DEF Inv, TypeOK, Activate, Begin, NoFault, Installed
<1>2. cli' \in Cli /\ cli'.pc = "on"
  BY <1>1, ActivateTyped, ZenonT(60), SMTT(20)
<1>3. TypeOK'
  BY <1>1, <1>2, SwapAssumption DEF Inv, TypeOK, files
<1>4. ~Pending
  BY <1>1 DEF Inv, StepInv, StrayInv, NoneToRestore
<1>5. BatchInv' /\ (Pending <=> Pending') /\ record' = record
  BY <1>1, Kept DEF files
<1>6. StepInv(cli.pc)'
  BY <1>2, <1>4, <1>5 DEF StepInv, StrayInv, NoneToRestore
<1> QED BY <1>1, <1>2, <1>3, <1>5, <1>6, Local

LEMMA EnableInv ==
    ASSUME Inv, NEW m \in cli.todo, NEW failed \in BOOLEAN, Enable(m, failed) PROVE Inv'
<1>1. /\ cli \in Cli /\ cli.pc = "on" /\ m \in Model /\ reqs' = reqs /\ cli.todo \in SUBSET Model
      /\ disk' = disk /\ parked' = parked /\ record' = record /\ before' = before /\ stray' = stray /\ offer' = offer
  BY DEF Inv, TypeOK, Cli, Enable
<1>2. cli' \in Cli /\ cli'.pc \in {"idle", "on"}
  <2>1. CASE failed
    BY <1>1, <2>1, AtFacts DEF Enable, Goto, Step
  <2>2. CASE ~failed
    <3>1. cli' = [cli EXCEPT !.todo = cli.todo \ {m}]
      BY <2>2 DEF Enable
    <3> QED BY <1>1, <3>1, TodoFacts
  <2> QED BY <2>1, <2>2
<1>3. faults' \in 0 .. MaxFaults /\ enabled' \subseteq Model
  BY <1>1, FaultType DEF Inv, TypeOK, Enable, NoFault
<1>4. TypeOK'
  BY <1>1, <1>2, <1>3 DEF Inv, TypeOK, Enable
<1>5. ~Pending
  BY <1>1 DEF Inv, StepInv, StrayInv, NoneToRestore
<1>6. BatchInv'
  BY <1>1, <1>5 DEF BatchInv, Pending, NoRecord, ModelInv, Fallback
<1>7. StepInv(cli.pc)'
  BY <1>1, <1>2, <1>5 DEF StepInv, Pending
<1> QED BY <1>1, <1>2, <1>4, <1>6, <1>7, Local

-----------------------------------------------------------------------------
(***************************************************************************)
(* The theorems.                                                           *)
(***************************************************************************)

LEMMA InitInv == ASSUME Init PROVE Inv
<1>1. TypeOK
  <2>1. cli \in Cli /\ reqs \in Seq(Request) /\ NoRecord \in Record
    BY IdleFacts DEF Init, Record, NoRecord
  <2>2. engine \in [Model -> Rev] /\ parked \in [Model -> Rev] /\ offer \in [Model -> Rev]
    BY SwapAssumption DEF Init, Rev
  <2> QED BY <2>1, <2>2, SwapAssumption DEF Init, TypeOK, Installed
<1>2. BatchInv
  BY DEF Init, BatchInv, Pending, NoRecord, ModelInv, Fallback
<1>3. StepInv(cli.pc) /\ cli.pc = "idle"
  BY IdleFacts DEF Init, StepInv, StrayInv, NoneToRestore
<1>4. WaitInv
  BY <1>3 DEF Init, WaitInv
<1> QED BY <1>1, <1>2, <1>3, <1>4 DEF Inv

LEMMA NextInv == ASSUME Inv, Next PROVE Inv'
<1>1. CASE Pull
  BY <1>1, BeginSwapInv, LoadBatchInv, MoveInstallInv, MoveParkInv, MoveLandInv, ConfirmInv, ZenonT(60), SMTT(20)
     DEF Pull
<1>2. CASE Rollback
  BY <1>2, UndoInv, RestoredInv, UninstalledInv, RestoreRetireInv, RestoreFailsInv, RestorePutInv, UninstallFailsInv, UninstallInv, ZenonT(60), SMTT(20)
     DEF Rollback
<1>3. CASE Settle
  <2>2. \A m \in Parked : m \in Model
    BY DEF Parked
  <2> QED BY <1>3, <2>2, LockInv, RecoverInv, RemoveRecordInv, RemovedInv, RemoveFailsInv, RemoveParkedInv, ZenonT(60), SMTT(20)
          DEF Settle
<1>4. CASE Other
  BY <1>4, QuitInv, LoadEnabledInv, RmInv, DeactivateInv, ActivateInv, RmFailsInv, RmRetireInv, DisableInv, EnableInv, ZenonT(60), SMTT(20)
     DEF Other
<1>5. CASE Engine
  BY <1>5, ServeInv, ZenonT(60), SMTT(20) DEF Engine
<1> QED BY <1>1, <1>2, <1>3, <1>4, <1>5, TimeoutInv, RestartInv, CrashInv, ZenonT(60), SMTT(20)
    DEF Next, Command

LEMMA StutterInv == ASSUME Inv, UNCHANGED vars PROVE Inv'
<1>1. TypeOK' /\ BatchInv'
  BY ZenonT(60), SMTT(20) DEF Inv, vars, TypeOK, BatchInv, Pending, Batch, ModelInv, Fallback
<1>2. StepInv(cli.pc)' /\ WaitInv'
  BY ZenonT(60), SMTT(20) DEF Inv, vars, StepInv, WaitInv, Pending, Batch, StrayInv, NoneToRestore
<1> QED BY <1>1, <1>2 DEF Inv

\* Every reachable state satisfies the inductive invariant: what is parked,
\* recorded and installed determines the state before the batch at every step
\* of swap_in, of the rollback and of recovery.
THEOREM Invariance == Spec => []Inv
<1>1. Init => Inv
  BY InitInv
<1>2. Inv /\ [Next]_vars => Inv'
  BY NextInv, StutterInv
<1> QED BY <1>1, <1>2, PTL DEF Spec

\* While a batch is pending no removal runs, and the recovered directory of
\* each model is the one from before, or the one left parked.
LEMMA AuthoritativeBefore == ASSUME Inv PROVE Recoverable
<1>1. Pending => cli.pc # "rm"
  BY DEF Inv, StepInv
<1>2. ASSUME Pending, NEW m \in Model
      PROVE  Authoritative[m] = IF m \in record.replace /\ stray[m] # 0 THEN stray[m] ELSE before[m]
  <2>1. ModelInv(m) /\ record.replace \intersect record.install = {}
    BY <1>2 DEF Inv, BatchInv
  <2> QED BY <1>1, <1>2, <2>1 DEF ModelInv, Fallback, Authoritative, Batch
<1> QED BY <1>2 DEF Recoverable

\* However a batch is interrupted, what was installed before it can be put
\* back: in every reachable state with an unconfirmed record, the directories
\* a recovery (restore_swapped, remove_recorded_installs) ends up with are
\* those from before the batch, or what an earlier command left parked of a
\* model that the batch replaces.
THEOREM AlwaysRecoverable == Spec => []Recoverable
<1>1. Inv => Recoverable
  BY AuthoritativeBefore
<1> QED BY <1>1, Invariance, PTL

=============================================================================
