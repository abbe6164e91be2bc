-------------------------- MODULE ModelStoreProofs --------------------------
(***************************************************************************)
(* The model commands implement the atomic store of ModelStore, and leave  *)
(* the engine serving what is installed, for any models and revisions.     *)
(***************************************************************************)
EXTENDS ModelSwapProofs

\* The provers that a leaf tries in turn when it names none.
USE SMTT(20), Z3T(20), SMTT(40), Z3T(40), ZenonT(20)

-----------------------------------------------------------------------------
(***************************************************************************)
(* The refinement of ModelStore: whatever fails on the way, every step of  *)
(* ModelSwap is a step of the store, or leaves it alone.                   *)
(***************************************************************************)

\* The store's variables: a removal maps to what the command set out with,
\* until it is over.
Stored == IF Pending THEN before ELSE IF cli.pc = "rm" THEN cli.new ELSE disk
Copies == IF Pending THEN stray ELSE parked
Undecided == IF Pending THEN offer ELSE [m \in Model |-> 0]

Same == Stored' = Stored /\ Copies' = Copies /\ Undecided' = Undecided

Simulates == Store!Next \/ Same

LEMMA SamePending ==
    ASSUME Pending, Pending', before' = before, stray' = stray, offer' = offer
    PROVE  Same
  BY DEF Same, Stored, Copies, Undecided

LEMMA SameSettled ==
    ASSUME ~Pending, ~Pending', disk' = disk, parked' = parked, cli.pc # "rm", cli'.pc = "rm" => cli'.new = disk
    PROVE  Same
  BY DEF Same, Stored, Copies, Undecided

\* What a pending batch's models are to the store.
LEMMA BatchModels ==
    ASSUME Inv, Pending
    PROVE  /\ offer # Store!NoBatch
           /\ Store!Replaced = record.replace
           /\ Store!Blocked = {m \in record.replace : stray[m] # 0}
<1>1. /\ Batch \subseteq Model /\ Batch # {} /\ record.replace \subseteq Model
      /\ \A m \in Model : before[m] \in Nat /\ offer[m] \in Nat
  BY SwapAssumption DEF Inv, TypeOK, Rev, Record, Batch, BatchInv
<1>2. \A m \in Model : ModelInv(m)
  BY DEF Inv, BatchInv
<1>3. \A m \in Model : (offer[m] # 0 <=> m \in Batch) /\ (m \in record.replace <=> m \in Batch /\ before[m] # 0)
  <2>1. ASSUME NEW m \in Model
        PROVE  (offer[m] # 0 <=> m \in Batch) /\ (m \in record.replace <=> m \in Batch /\ before[m] # 0)
    <3>1. ModelInv(m) /\ before[m] \in Nat /\ offer[m] \in Nat
      BY <1>1, <1>2
    <3>2. (m \in Batch => offer[m] # 0) /\ (m \notin Batch => offer[m] = 0)
      BY <3>1 DEF ModelInv
    <3>3. /\ m \in Batch <=> m \in record.replace \/ m \in record.install
          /\ (m \in record.replace => before[m] # 0) /\ (m \in record.install => before[m] = 0)
      BY <3>1 DEF ModelInv, Batch
    <3> QED BY <3>2, <3>3
  <2> QED BY <2>1
<1>4. offer # Store!NoBatch
  BY <1>1, <1>3 DEF Store!NoBatch
<1>5. Store!Replaced = {m \in Model : offer[m] # 0 /\ before[m] # 0}
  BY DEF Store!Replaced
<1>6. Store!Replaced = record.replace
  BY <1>1, <1>3, <1>5
<1>7. Store!Blocked = {m \in Store!Replaced : stray[m] # 0}
  BY DEF Store!Blocked
<1> QED BY <1>4, <1>6, <1>7

\* pull and upgrade begin a batch, and confirm it.
LEMMA BeginSwapSim ==
    ASSUME Inv, NEW B \in SUBSET Model, NEW new \in [Model -> Rev], BeginSwap(B, new)
    PROVE  Simulates
<1>1. /\ cli.pc = "plan" /\ record = NoRecord /\ before' = disk /\ stray' = parked /\ offer' = new
      /\ record'.phase = "swapping" /\ B # {}
      /\ \A m \in Model : IF m \in B THEN new[m] > disk[m] ELSE new[m] = 0
  BY DEF BeginSwap
<1>2. ~Pending /\ Pending'
  BY <1>1 DEF Pending, NoRecord
<1>3. \A m \in Model : disk[m] \in Nat /\ new[m] \in Nat
  BY SwapAssumption DEF Inv, TypeOK, Rev
<1>4. new # Store!NoBatch
  BY <1>1, <1>3 DEF Store!NoBatch
<1>5. Store!Begin(new)
  BY <1>1, <1>2, <1>4 DEF Store!Begin, Store!NoBatch
<1>6. new \in [Model -> Store!Rev]
  BY DEF Rev, Store!Rev
<1> QED BY <1>5, <1>6 DEF Simulates, Store!Next

LEMMA ConfirmSim ==
    ASSUME Inv, NEW written \in BOOLEAN, NEW failed \in BOOLEAN, Confirm(written, failed)
    PROVE  Simulates
<1>1. /\ cli.pc = "confirm" /\ record \in Record /\ disk' = disk /\ parked' = parked
      /\ before' = before /\ stray' = stray /\ offer' = offer
      /\ record' = [record EXCEPT !.phase = IF written THEN "confirmed" ELSE record.phase]
  BY DEF Inv, TypeOK, Confirm
<1>2. Pending /\ StrayInv /\ cli.todo = {} /\ \A m \in Batch : disk[m] = offer[m]
  BY <1>1 DEF Inv, StepInv
<1>3. CASE ~written
  <2>1. Pending'
    BY <1>1, <1>2, <1>3 DEF Pending, Record
  <2> QED BY <1>1, <1>2, <2>1, SamePending DEF Simulates
<1>4. CASE written
  <2>1. record'.phase = "confirmed"
    BY <1>1, <1>4 DEF Record
  <2>2. ~Pending'
    BY <2>1 DEF Pending
  <2>3. cli'.pc # "rm"
    BY <1>1, IdleFacts, ZenonT(60), SMTT(20) DEF Inv, TypeOK, Cli, Confirm
  <2>4. /\ disk \in [Model -> Rev] /\ parked \in [Model -> Rev] /\ Batch \subseteq Model
        /\ record.replace \subseteq Batch
        /\ \A m \in Model : before[m] \in Nat /\ offer[m] \in Nat /\ ModelInv(m)
    BY <1>2, SwapAssumption DEF Inv, TypeOK, Rev, Record, Batch, BatchInv
  <2>5. disk = [m \in Model |-> IF offer[m] # 0 THEN offer[m] ELSE before[m]]
    <3>1. ASSUME NEW m \in Model PROVE disk[m] = IF offer[m] # 0 THEN offer[m] ELSE before[m]
      <4>1. ModelInv(m) /\ before[m] \in Nat /\ offer[m] \in Nat
        BY <2>4
      <4> QED BY <1>2, <4>1 DEF ModelInv
    <3> QED BY <2>4, <3>1
  <2>6. parked = [m \in Model |-> IF m \in record.replace THEN before[m] ELSE stray[m]]
    <3>1. ASSUME NEW m \in record.replace PROVE parked[m] = before[m]
      <4>1. m \in Model /\ m \in Batch /\ ModelInv(m) /\ before[m] \in Nat /\ offer[m] \in Nat
        BY <2>4, <3>1
      <4>2. stray[m] = 0
        BY <1>2, <4>1 DEF StrayInv
      <4>3. disk[m] = offer[m] /\ offer[m] > before[m]
        BY <1>2, <4>1 DEF ModelInv
      <4> QED BY <4>1, <4>2, <4>3 DEF ModelInv, Fallback
    <3>2. \A m \in Model \ record.replace : parked[m] = stray[m]
      BY <1>2 DEF StrayInv
    <3> QED BY <2>4, <3>1, <3>2
  <2>7. offer # Store!NoBatch /\ Store!Replaced = record.replace /\ Store!Blocked = {}
    BY <1>2, BatchModels DEF StrayInv, Inv, TypeOK, Record
  <2>8. Store!Commit
    BY <1>1, <1>2, <2>2, <2>3, <2>5, <2>6, <2>7 DEF Store!Commit, Store!NoBatch
  <2> QED BY <2>8 DEF Simulates, Store!Next
<1> QED BY <1>3, <1>4

\* The record goes: of a settled rollback, or of a confirmed batch.
LEMMA RemoveRecordSim == ASSUME Inv, RemoveRecord PROVE Simulates
<1>1. /\ cli' = cli /\ cli.pc \in {"discard", "clear"} /\ record' = NoRecord /\ disk' = disk /\ parked' = parked
  BY DEF RemoveRecord
<1>2. ~Pending' /\ cli.pc # "rm"
  BY <1>1 DEF Pending, NoRecord
<1>3. CASE ~Pending
  BY <1>1, <1>2, <1>3, SameSettled DEF Simulates
<1>4. CASE Pending
  <2>1. NoneToRestore /\ \A m \in record.install : disk[m] = 0
    BY <1>1, <1>4 DEF Inv, StepInv
  <2>2. /\ disk \in [Model -> Rev] /\ parked \in [Model -> Rev]
        /\ \A m \in Model : ModelInv(m)
    BY <1>4 DEF Inv, TypeOK, BatchInv
  <2> DEFINE Blocked == {m \in record.replace : stray[m] # 0}
  <2>3. offer # Store!NoBatch /\ Store!Blocked = Blocked
    BY <1>4, BatchModels
  <2>4. disk = [m \in Model |-> IF m \in Blocked THEN stray[m] ELSE before[m]]
    <3>1. ASSUME NEW m \in Model PROVE disk[m] = IF m \in Blocked THEN stray[m] ELSE before[m]
      BY <2>1, <2>2 DEF ModelInv, Fallback, NoneToRestore, Batch
    <3> QED BY <2>2, <3>1
  <2>5. \A m \in Model : parked[m] = 0 \/ (m \notin Blocked /\ parked[m] = stray[m])
    BY <2>1, <2>2 DEF ModelInv, NoneToRestore
  <2>6. parked \in Store!Without(stray, Blocked)
    BY <2>2, <2>5 DEF Store!Without, Rev, Store!Rev
  <2> HIDE DEF Blocked
  <2>7. Store!Abort
    BY <1>1, <1>2, <1>4, <2>3, <2>4, <2>6 DEF Store!Abort, Store!NoBatch
  <2> QED BY <2>7 DEF Simulates, Store!Next
<1> QED BY <1>3, <1>4

\* A copy that was left goes: of a batch that is no longer pending, or of a
\* rollback, whose record is still there.
LEMMA RemoveParkedSim == ASSUME Inv, NEW m \in Parked, RemoveParked(m) PROVE Simulates
<1>1. /\ cli' = cli /\ cli.pc \in {"discard", "clear"} /\ record' = record /\ disk' = disk
      /\ before' = before /\ stray' = stray /\ offer' = offer /\ parked' = [parked EXCEPT ![m] = 0]
  BY DEF RemoveParked
<1>2. Pending' = Pending /\ cli.pc # "rm"
  BY <1>1 DEF Pending
<1>3. CASE Pending
  BY <1>1, <1>2, <1>3, SamePending DEF Simulates
<1>4. CASE ~Pending
  <2>1. parked \in [Model -> Rev] /\ 0 \in Rev /\ Rev = Store!Rev
    BY SwapAssumption DEF Inv, TypeOK, Rev, Store!Rev
  <2>2. parked' \in Store!Without(parked, {})
    BY <1>1, <2>1, ZenonT(60), SMTT(20) DEF Store!Without
  <2>3. Store!Discard
    BY <1>1, <1>2, <1>4, <2>2 DEF Store!Discard, Store!NoBatch
  <2> QED BY <2>3 DEF Simulates, Store!Next
<1> QED BY <1>3, <1>4

\* Steps that leave the record alone, and a settled root.
LEMMA Quiet ==
    ASSUME record' = record, before' = before, stray' = stray, offer' = offer,
           ~Pending => disk' = disk /\ parked' = parked /\ cli.pc # "rm" /\ cli'.pc # "rm"
    PROVE  Simulates
<1>1. Pending' = Pending
  BY DEF Pending
<1>2. CASE Pending
  BY <1>1, <1>2, SamePending DEF Simulates
<1>3. CASE ~Pending
  BY <1>1, <1>3, SameSettled DEF Simulates
<1> QED BY <1>2, <1>3

\* Steps of a batch or of its rollback.
LEMMA QuietBatch ==
    ASSUME Inv, record' = record, before' = before, stray' = stray, offer' = offer,
           cli.pc \in {"move", "half", "confirm", "undo", "restore", "uninstall"}
    PROVE  Simulates
<1>1. Pending
  BY DEF Inv, StepInv
<1> QED BY <1>1, Quiet

LEMMA PullSim == ASSUME Inv, Pull PROVE Simulates
<1>1. CASE \E B \in SUBSET Model, new \in [Model -> Rev] : BeginSwap(B, new)
  BY <1>1, BeginSwapSim
<1>2. CASE LoadBatch
  BY <1>2, QuietBatch DEF LoadBatch, files
<1>3. ASSUME NEW m \in cli.todo, NEW failed \in BOOLEAN, NEW landed \in BOOLEAN, MoveInstall(m, landed, failed)
      PROVE  Simulates
  BY <1>3, QuietBatch DEF MoveInstall
<1>4. ASSUME NEW m \in cli.todo, NEW failed \in BOOLEAN, MovePark(m, failed) PROVE Simulates
  BY <1>4, QuietBatch DEF MovePark
<1>5. ASSUME NEW m \in cli.todo, NEW failed \in BOOLEAN, NEW outcome \in {"landed", "back", "lost"},
             MoveLand(m, outcome, failed)
      PROVE  Simulates
  BY <1>5, QuietBatch DEF MoveLand
<1>6. CASE \E written, failed \in BOOLEAN : Confirm(written, failed)
  BY <1>6, ConfirmSim
<1> QED BY <1>1, <1>2, <1>3, <1>4, <1>5, <1>6, ZenonT(60), SMTT(20) DEF Pull

LEMMA RollbackSim == ASSUME Inv, Rollback PROVE Simulates
<1>1. CASE Undo \/ Restored \/ Uninstalled
  BY <1>1, QuietBatch DEF Undo, Restored, Uninstalled, files
<1>2. ASSUME NEW m \in ToRestore, RestoreRetire(m) \/ RestoreFails(m) PROVE Simulates
  BY <1>2, QuietBatch, ZenonT(60), SMTT(20) DEF RestoreRetire, RestoreFails, files
<1>3. ASSUME NEW m \in ToRestore, NEW failed \in BOOLEAN, RestorePut(m, failed) PROVE Simulates
  BY <1>3, QuietBatch DEF RestorePut
<1>4. ASSUME NEW m \in ToUninstall, UninstallFails(m) PROVE Simulates
  BY <1>4, QuietBatch DEF UninstallFails, files
<1>5. ASSUME NEW m \in ToUninstall, NEW failed \in BOOLEAN, Uninstall(m, failed) PROVE Simulates
  BY <1>5, QuietBatch DEF Uninstall
<1> QED BY <1>1, <1>2, <1>3, <1>4, <1>5, ZenonT(60), SMTT(20) DEF Rollback

LEMMA SettleSim == ASSUME Inv, Settle PROVE Simulates
<1>1. cli \in Cli
  BY DEF Inv, TypeOK
<1>2. CASE RemoveFails
  <2>1. cli.after \in Step /\ "idle" \in Step /\ cli.after # "rm"
    BY <1>1 DEF Cli, Step
  <2>2. cli'.pc \in {cli.after, "idle"} /\ cli.pc # "rm"
    BY <1>1, <1>2, <2>1, AtFacts DEF RemoveFails, Goto
  <2> QED BY <1>2, <2>1, <2>2, Quiet DEF RemoveFails, files
<1>3. CASE Lock
  <2>1. cli'.pc = "recover"
    BY <1>1, <1>3, AtFacts DEF Lock, Goto, Step
  <2> QED BY <1>3, <2>1, Quiet DEF Lock, files
<1>4. CASE Recover
  <2>1. cli'.pc \in {"undo", "discard"}
    BY <1>1, <1>4 DEF Recover, Cli
  <2> QED BY <1>4, <2>1, Quiet DEF Recover, files
<1>5. CASE Removed
  <2>1. cli.after \in Step /\ cli.after # "rm"
    BY <1>1 DEF Cli, Step
  <2>2. cli'.pc = cli.after
    BY <1>1, <1>5, <2>1, AtFacts DEF Removed, Goto
  <2> QED BY <1>5, <2>1, <2>2, Quiet DEF Removed, files
<1> QED BY <1>2, <1>3, <1>4, <1>5, RemoveParkedSim, RemoveRecordSim, ZenonT(60), SMTT(20) DEF Settle

\* A removal ends: what it moved away is gone.
LEMMA RemovalEnds ==
    ASSUME Inv, cli.pc = "rm", cli'.pc = "idle", record' = record, parked' = parked, disk' \in [Model -> Rev],
           \A m \in Model : disk'[m] \in {0, cli.new[m]}
    PROVE  Simulates
<1> DEFINE S == {m \in Model : disk'[m] = 0}
<1>1. ~Pending /\ ~Pending'
  BY DEF Inv, StepInv, Pending
<1>2. disk' = [m \in Model |-> IF m \in S THEN 0 ELSE cli.new[m]]
  OBVIOUS
<1>3. S \in SUBSET Model
  OBVIOUS
<1> HIDE DEF S
<1>4. Store!Remove(S)
  BY <1>1, <1>2 DEF Store!Remove, Store!NoBatch
<1> QED BY <1>3, <1>4 DEF Simulates, Store!Next

\* A removal goes on: it still counts as undecided.
LEMMA RemovalGoesOn ==
    ASSUME Inv, cli.pc = "rm", cli'.pc = "rm", cli'.new = cli.new, record' = record, parked' = parked
    PROVE  Simulates
<1>1. ~Pending /\ ~Pending'
  BY DEF Inv, StepInv, Pending
<1> QED BY <1>1 DEF Simulates, Same, Stored, Copies, Undecided

LEMMA RmRetireSim == ASSUME Inv, NEW m \in cli.todo, RmRetire(m) PROVE Simulates
<1>1. /\ cli.pc = "rm" /\ record' = record /\ parked' = parked /\ disk' = [disk EXCEPT ![m] = 0]
      /\ cli' = IF cli.todo = {m} THEN Idle ELSE [cli EXCEPT !.todo = @ \ {m}]
  BY DEF RmRetire
<1>2. cli \in Cli /\ disk \in [Model -> Rev] /\ \A n \in Model : disk[n] \in {0, cli.new[n]}
  BY <1>1 DEF Inv, TypeOK, StepInv
<1>3. disk' \in [Model -> Rev] /\ \A n \in Model : disk'[n] \in {0, cli.new[n]}
  <2>1. 0 \in Rev
    BY SwapAssumption DEF Rev
  <2> QED BY <1>1, <1>2, <2>1, ZenonT(60), SMTT(20)
<1>4. CASE cli.todo = {m}
  BY <1>1, <1>3, <1>4, RemovalEnds, IdleFacts
<1>5. CASE cli.todo # {m}
  <2>1. cli'.pc = "rm" /\ cli'.new = cli.new
    BY <1>1, <1>2, <1>5 DEF Cli
  <2> QED BY <1>1, <2>1, RemovalGoesOn
<1> QED BY <1>4, <1>5

LEMMA RmFailsSim == ASSUME Inv, NEW back \in SUBSET Model, RmFails(back) PROVE Simulates
<1>1. /\ cli.pc = "rm" /\ record' = record /\ parked' = parked /\ cli' = At(cli, "idle")
      /\ disk' = [m \in Model |-> IF m \in back THEN cli.new[m] ELSE disk[m]]
  BY DEF RmFails, Goto
<1>2. cli'.pc = "idle"
  BY <1>1, IdleFacts DEF At
<1>3. /\ \A m \in Model : disk[m] \in {0, cli.new[m]}
      /\ disk \in [Model -> Rev] /\ cli.new \in [Model -> Rev]
  BY <1>1 DEF Inv, StepInv, TypeOK, Cli
<1>4. disk' \in [Model -> Rev] /\ \A m \in Model : disk'[m] \in {0, cli.new[m]}
  BY <1>1, <1>3
<1> QED BY <1>1, <1>2, <1>4, RemovalEnds

LEMMA CrashSim == ASSUME Inv, Crash PROVE Simulates
<1>1. /\ cli' = Idle /\ record' = record /\ disk' = disk /\ parked' = parked
      /\ before' = before /\ stray' = stray /\ offer' = offer
  BY DEF Crash
<1>2. CASE cli.pc = "rm"
  <2>1. disk' \in [Model -> Rev] /\ \A m \in Model : disk'[m] \in {0, cli.new[m]}
    BY <1>1, <1>2 DEF Inv, StepInv, TypeOK
  <2> QED BY <1>1, <1>2, <2>1, RemovalEnds, IdleFacts
<1>3. CASE cli.pc # "rm"
  BY <1>1, <1>3, Quiet, IdleFacts
<1> QED BY <1>2, <1>3

\* The reply to an unload may let a removal begin; nothing else starts one.
LEMMA EngineSim ==
    ASSUME Inv, record' = record, before' = before, stray' = stray, offer' = offer,
           disk' = disk, parked' = parked,
           \/ cli' = cli
           \/ cli.pc = "wait" /\ cli' \in {At(cli, cli.ok), At(cli, cli.bad)}
    PROVE  Simulates
<1>1. CASE cli' = cli
  BY <1>1, RemovalGoesOn, Quiet
<1>2. CASE cli.pc = "wait" /\ cli' \in {At(cli, cli.ok), At(cli, cli.bad)}
  <2>1. cli \in Cli /\ cli.ok \in Step /\ cli.bad \in Step
    BY DEF Inv, TypeOK, Cli
  <2>2. cli'.pc \in {cli.ok, cli.bad} /\ (cli'.pc = "rm" => cli'.new = cli.new /\ cli.ok = "rm")
    BY <1>2, <2>1, AtFacts DEF Inv, WaitInv
  <2>3. cli'.pc = "rm" => cli'.new = disk
    BY <1>2, <2>2 DEF Inv, WaitInv
  <2>4. Pending' = Pending
    BY DEF Pending
  <2>5. CASE Pending
    BY <2>4, <2>5, SamePending DEF Simulates
  <2>6. CASE ~Pending
    BY <1>2, <2>3, <2>4, <2>6, SameSettled DEF Simulates
  <2> QED BY <2>5, <2>6
<1> QED BY <1>1, <1>2, ZenonT(60), SMTT(20)

\* A command asks the engine for names other than none, or to load.
LEMMA AskSim ==
    ASSUME Inv, record' = record, before' = before, stray' = stray, offer' = offer,
           disk' = disk, parked' = parked, cli.pc # "rm",
           NEW c \in Cli, NEW op \in {"load", "unload"}, NEW names \in SUBSET Model,
           NEW ok \in Step, NEW bad \in Step, ok # "wait", cli.pc # "wait",
           Ask(c, op, names, ok, bad), names # {} \/ ok # "rm"
    PROVE  Simulates
<1>1. NoneLive /\ TypeOK
  BY Unawaited DEF Inv
<1>2. cli'.pc \in {ok, "wait"} /\ (names # {} => cli'.pc = "wait")
  BY <1>1, AskFacts
<1> QED BY <1>2, Quiet

LEMMA OtherSim == ASSUME Inv, Other PROVE Simulates
<1>1. cli \in Cli /\ {"rm", "idle", "off"} \subseteq Step /\ disk \in [Model -> Rev] /\ Installed \subseteq Model
  BY DEF Inv, TypeOK, Step, Installed
<1>2. CASE Quit
  BY <1>2, Quiet, IdleFacts DEF Quit, files
<1>3. CASE LoadEnabled
  <2>1. cli.load \in SUBSET Model
    BY <1>1 DEF Cli
  <2> QED BY <1>1, <1>3, <2>1, AskSim DEF LoadEnabled, files
<1>4. ASSUME NEW S \in SUBSET Installed, Rm(S) PROVE Simulates
  <2> DEFINE c == [cli EXCEPT !.todo = S, !.new = disk]
  <2>1. c \in Cli
    <3>1. c = [pc |-> cli.pc, ok |-> cli.ok, bad |-> cli.bad, after |-> cli.after,
               new |-> disk, todo |-> S, load |-> cli.load]
      BY <1>1, RmPlanned, ZenonT(60), SMTT(20)
    <3> QED BY <1>1, <3>1 DEF Cli
  <2> HIDE DEF c
  <2>2. Ask(c, "unload", S, "rm", "idle")
    BY <1>4 DEF Rm, c
  <2>3. /\ S # {} /\ S \in SUBSET Model /\ cli.pc = "plan" /\ disk' = disk
        /\ parked' = parked /\ record' = record
        /\ before' = before /\ stray' = stray /\ offer' = offer
    BY <1>1, <1>4 DEF Rm, Begin, files
  <2> QED BY <1>1, <2>1, <2>2, <2>3, AskSim
<1>5. ASSUME NEW S \in SUBSET Installed, Deactivate(S) PROVE Simulates
  <2> DEFINE c == [cli EXCEPT !.todo = S]
  <2>1. c \in Cli
    BY <1>1 DEF Cli
  <2> HIDE DEF c
  <2>2. Ask(c, "unload", S, "off", "idle")
    BY <1>5 DEF Deactivate, c
  <2>3. /\ S # {} /\ S \in SUBSET Model /\ cli.pc = "plan" /\ disk' = disk
        /\ parked' = parked /\ record' = record
        /\ before' = before /\ stray' = stray /\ offer' = offer
    BY <1>1, <1>5 DEF Deactivate, Begin, files
  <2> QED BY <1>1, <2>1, <2>2, <2>3, AskSim
<1>6. ASSUME NEW S \in SUBSET Installed, Activate(S) PROVE Simulates
  <2>1. cli'.pc = "on"
    BY <1>1, <1>6 DEF Activate, Cli
  <2> QED BY <1>6, <2>1, Quiet DEF Activate, Begin, files
<1>7. ASSUME NEW m \in cli.todo, NEW failed \in BOOLEAN, Disable(m, failed) PROVE Simulates
  <2>1. cli'.pc \in {"off", "idle"}
    BY <1>1, <1>7, IdleFacts DEF Disable, Cli
  <2> QED BY <1>7, <2>1, Quiet DEF Disable
<1>8. ASSUME NEW m \in cli.todo, NEW failed \in BOOLEAN, Enable(m, failed) PROVE Simulates
  <2>1. cli'.pc \in {"on", "idle"}
    BY <1>1, <1>8, AtFacts DEF Enable, Goto, Cli
  <2> QED BY <1>8, <2>1, Quiet DEF Enable
<1> QED BY <1>2, <1>3, <1>4, <1>5, <1>6, <1>7, <1>8, RmFailsSim, RmRetireSim, ZenonT(60), SMTT(20)
    DEF Other

LEMMA NextSim == ASSUME Inv, Next PROVE Simulates
<1>1. CASE Pull \/ Rollback \/ Settle \/ Other
  BY <1>1, PullSim, RollbackSim, SettleSim, OtherSim
<1>2. ASSUME NEW loaded \in SUBSET Model, Serve(loaded) PROVE Simulates
  <2>0. reqs \in Seq(Request) /\ reqs # <<>>
    BY <1>2, ZenonT(60), SMTT(20) DEF Inv, TypeOK, Serve
  <2>1. Len(reqs) \in Nat /\ Len(reqs) # 0 /\ Head(reqs) = reqs[1]
    BY <2>0
  <2>2. Head(reqs).live => cli.pc = "wait"
    BY <2>1 DEF Inv, WaitInv
  <2>3. cli' = cli \/ (Head(reqs).live /\ cli' \in {At(cli, cli.ok), At(cli, cli.bad)})
    BY <1>2, ZenonT(60), SMTT(20) DEF Serve, Goto
  <2> QED BY <1>2, <2>2, <2>3, EngineSim DEF Serve
<1>3. CASE Timeout
  BY <1>3, EngineSim DEF Timeout, Goto
<1>4. CASE Restart
  BY <1>4, EngineSim DEF Restart, Goto
<1> QED BY <1>1, <1>2, <1>3, <1>4, CrashSim, ZenonT(60), SMTT(20) DEF Next, Command, Engine

LEMMA StutterSame == ASSUME UNCHANGED vars PROVE Same
  BY DEF vars, Same, Stored, Copies, Undecided, Pending

LEMMA InitSim == Init => Store!Init
<1> SUFFICES ASSUME Init PROVE Store!Init
  OBVIOUS
<1>1. Inv /\ ~Pending /\ cli.pc # "rm"
  BY InitInv, IdleFacts DEF Init, Pending, NoRecord
<1>2. disk \in [Model -> Store!Rev] /\ parked \in [Model -> Store!Rev]
  BY <1>1 DEF Inv, TypeOK, Rev, Store!Rev
<1> QED BY <1>1, <1>2 DEF Store!Init, Store!NoBatch

\* Whatever fails on the way, the model commands change an engine root only as
\* ModelStore allows: pull and upgrade bring in the whole batch when
\* confirm_swap records it, and only when no model it replaces had a copy left
\* under .swap, or a rollback drops the whole of it and puts the copies that
\* were left in place; rm takes models away, never while a batch is undecided.
THEOREM Implements == Spec => StoreSpec
<1>1. Inv /\ [Next]_vars => [Store!Next]_<<Stored, Copies, Undecided>>
  BY NextSim, StutterSame DEF Simulates, Same
<1>2. Inv /\ [Next]_vars =>
        [Store!Next]_<<IF Pending THEN before ELSE IF cli.pc = "rm" THEN cli.new ELSE disk,
                       IF Pending THEN stray ELSE parked,
                       IF Pending THEN offer ELSE [m \in Model |-> 0]>>
  BY <1>1 DEF Stored, Copies, Undecided
<1> QED BY <1>2, InitSim, Invariance, PTL DEF Spec, StoreSpec, Store!Spec

-----------------------------------------------------------------------------
(***************************************************************************)
(* The engine serves what is installed.  Nothing is assumed of .swap: a    *)
(* removal that fails leaves a record behind, never a wrong model.         *)
(***************************************************************************)

Fresh(m) == engine[m] \in {0, disk[m]}

\* Replacements that were deactivated are not resident: nothing loads them.
Silent == \A m \in record.replace \ enabled : engine[m] = 0

\* During a batch only what it replaces, and reloads, may be stale.
ServedInv ==
    IF Pending
    THEN /\ record.replace \intersect record.install = {}
         /\ record.reload = record.replace \intersect enabled
         /\ \A m \in record.install : engine[m] = 0 /\ (disk[m] # 0 => m \notin enabled)
         /\ \A m \in Model \ Batch : Fresh(m)
    ELSE \A m \in Model : Fresh(m)

EngineStep(pc) ==
    /\ pc \in {"move", "half", "confirm", "undo", "restore", "uninstall"} => Pending
    /\ pc \in {"plan", "discard", "rm", "off", "on"} => ~Pending
    /\ pc \in {"confirm", "clear"} => \A m \in Model : Fresh(m)
    /\ pc \in {"move", "half", "restore", "uninstall"} => Silent

\* Where a reply may lead a command that waits.
Expects(ok, bad) ==
    /\ bad \in {"idle", "undo"} /\ ok \in {"move", "confirm", "restore", "clear", "rm", "off", "idle"}
    /\ bad = "undo" \/ ok \in {"move", "confirm", "restore", "clear"} => Pending
    /\ ok \in {"rm", "off"} => ~Pending
    /\ ok \in {"confirm", "clear"} => Silent

\* The request r makes that so: directories move once their models are
\* unloaded, and a batch is decided once its models were freshly loaded.
Answers(r, ok) ==
    /\ ok \in {"move", "restore"} => r.op = "unload" /\ record.replace \subseteq r.names
    /\ ok \in {"confirm", "clear"} => r.op = "load" /\ r.names = record.reload

AwaitInv ==
    /\ \A i \in 1 .. Len(reqs) : reqs[i].live =>
          cli.pc = "wait" /\ i = Len(reqs) /\ Answers(reqs[i], cli.ok)
    /\ cli.pc = "wait" => Expects(cli.ok, cli.bad)

\* What rm is about to move away was unloaded, and no request is left that
\* could load it again.
RmUnloaded ==
    /\ cli.pc = "rm" => reqs = <<>> /\ \A m \in cli.todo : engine[m] = 0
    /\ cli.pc = "wait" /\ cli.ok = "rm" =>
          \A i \in 1 .. Len(reqs) : reqs[i].live => reqs[i].op = "unload" /\ cli.todo \subseteq reqs[i].names

EngineInv == TypeOK /\ ServedInv /\ EngineStep(cli.pc) /\ AwaitInv /\ RmUnloaded

\* Nothing the engine serves from, and nothing it serves, changes.
SameServed == UNCHANGED <<disk, record, enabled, engine>>

LEMMA SameFacts ==
    ASSUME SameServed
    PROVE  /\ ServedInv => ServedInv'
           /\ \A pc : EngineStep(pc) => EngineStep(pc)'
           /\ \A ok, bad : Expects(ok, bad) => Expects(ok, bad)'
           /\ \A r, ok : Answers(r, ok) => Answers(r, ok)'
<1>1. (Pending <=> Pending') /\ Batch' = Batch /\ (Silent => Silent')
  BY DEF SameServed, Pending, Batch, Silent
<1>2. \A m : Fresh(m) => Fresh(m)'
  BY DEF SameServed, Fresh
<1>3. ServedInv => ServedInv'
  BY <1>1, <1>2, ZenonT(60), SMTT(20) DEF SameServed, ServedInv
<1>4. \A pc : EngineStep(pc) => EngineStep(pc)'
  BY <1>1, <1>2, ZenonT(60), SMTT(20) DEF EngineStep
<1>5. \A ok, bad : Expects(ok, bad) => Expects(ok, bad)'
  BY <1>1, ZenonT(60), SMTT(20) DEF Expects
<1>6. \A r, ok : Answers(r, ok) => Answers(r, ok)'
  BY ZenonT(60), SMTT(20) DEF SameServed, Answers
<1> QED BY <1>3, <1>4, <1>5, <1>6, ZenonT(60), SMTT(20)

LEMMA NoneAwaits == ASSUME EngineInv, cli.pc # "wait" PROVE NoneLive
  BY ZenonT(60), SMTT(20) DEF EngineInv, AwaitInv, NoneLive

\* A step of a command that asks the engine nothing.
LEMMA OwnStep ==
    ASSUME EngineInv, cli.pc # "wait", reqs' = reqs, cli'.pc \notin {"wait", "rm"},
           TypeOK', ServedInv', EngineStep(cli.pc)'
    PROVE  EngineInv'
<1>1. \A i \in 1 .. Len(reqs') : ~reqs'[i].live
  BY NoneAwaits, ZenonT(60), SMTT(20) DEF NoneLive
<1>2. AwaitInv'
  BY <1>1, ZenonT(60), SMTT(20) DEF AwaitInv
<1>3. RmUnloaded'
  BY DEF RmUnloaded
<1> QED BY <1>2, <1>3, ZenonT(60), SMTT(20) DEF EngineInv

\* One that leaves files and engine alone as well.
LEMMA QuietStep ==
    ASSUME EngineInv, cli.pc # "wait", reqs' = reqs, SameServed, UNCHANGED <<parked, before, stray, offer>>,
           cli' \in Cli, cli'.pc \notin {"wait", "rm"}, runs' \in 0 .. MaxRuns, faults' \in 0 .. MaxFaults,
           EngineStep(cli'.pc)
    PROVE  EngineInv'
<1>1. TypeOK'
  BY ZenonT(60), SMTT(20) DEF EngineInv, TypeOK, SameServed
<1>2. ServedInv' /\ EngineStep(cli.pc)'
  BY SameFacts, ZenonT(60), SMTT(20) DEF EngineInv
<1> QED BY <1>1, <1>2, OwnStep, ZenonT(60), SMTT(20)

\* What a request does not change the type of.
FilesTyped ==
    /\ disk \in [Model -> Rev] /\ parked \in [Model -> Rev] /\ engine \in [Model -> Rev]
    /\ record \in Record /\ enabled \subseteq Model
    /\ before \in [Model -> Rev] /\ stray \in [Model -> Rev] /\ offer \in [Model -> Rev]
    /\ runs \in 0 .. MaxRuns /\ faults \in 0 .. MaxFaults

LEMMA FilesKept ==
    ASSUME EngineInv, SameServed, UNCHANGED <<parked, before, stray, offer>>,
           runs' \in 0 .. MaxRuns, faults' \in 0 .. MaxFaults
    PROVE  FilesTyped'
  BY ZenonT(60), SMTT(20) DEF EngineInv, TypeOK, FilesTyped, SameServed

\* A step that asks the engine: what it expects of the reply holds already.
LEMMA AskStep ==
    ASSUME EngineInv, cli.pc # "wait", NEW c \in Cli, NEW op \in {"load", "unload"},
           NEW names \in SUBSET Model, NEW ok \in Step, NEW bad \in Step, Ask(c, op, names, ok, bad),
           FilesTyped', ServedInv', Expects(ok, bad)',
           Answers([op |-> op, names |-> names, live |-> TRUE], ok)',
           names = {} => EngineStep(ok)',
           ok = "rm" => op = "unload" /\ names # {} /\ c.todo \subseteq names
    PROVE  EngineInv'
<1>1. NoneLive /\ reqs \in Seq(Request)
  BY NoneAwaits, ZenonT(60), SMTT(20) DEF EngineInv, TypeOK
<1>2. ok # "wait"
  BY DEF Expects
<1>3. CASE names = {}
  <2>1. reqs' = reqs /\ cli' = At(c, ok)
    BY <1>3, ZenonT(60), SMTT(20) DEF Ask
  <2>2. cli' \in Cli /\ cli'.pc = ok
    BY <2>1, AtFacts, ZenonT(60), SMTT(20)
  <2>3. TypeOK'
    BY <1>1, <2>1, <2>2, ZenonT(60), SMTT(20) DEF FilesTyped, TypeOK
  <2>4. EngineStep(cli.pc)'
    BY <1>3, <2>2, ZenonT(60), SMTT(20)
  <2>5. cli'.pc \notin {"wait", "rm"}
    BY <1>2, <1>3, <2>2
  <2> QED BY <2>1, <2>2, <2>3, <2>4, <2>5, OwnStep, ZenonT(60), SMTT(20)
<1>4. CASE names # {}
  <2> DEFINE r == [op |-> op, names |-> names, live |-> TRUE]
  <2>1. reqs' = Append(reqs, r) /\ cli' = [c EXCEPT !.pc = "wait", !.ok = ok, !.bad = bad]
    BY <1>4 DEF Ask
  <2>2. cli' = [pc |-> "wait", ok |-> ok, bad |-> bad, after |-> c.after,
                new |-> c.new, todo |-> c.todo, load |-> c.load]
    BY <2>1, ZenonT(60), SMTT(20) DEF Cli
  <2>3. cli' \in Cli /\ cli'.pc = "wait" /\ cli'.ok = ok /\ cli'.bad = bad /\ cli'.todo = c.todo
    BY <2>2 DEF Cli, Step
  <2>4. r \in Request
    BY DEF Request
  <2>5. Answers(r, ok)' /\ r.op = op /\ r.names = names
    OBVIOUS
  <2> HIDE DEF r
  <2>6. /\ reqs' \in Seq(Request) /\ Len(reqs') = Len(reqs) + 1 /\ Len(reqs) \in Nat
        /\ \A i \in 1 .. Len(reqs) : reqs'[i] = reqs[i]
        /\ reqs'[Len(reqs')] = r
    BY <1>1, <2>1, <2>4
  <2>7. \A i \in 1 .. Len(reqs') : reqs'[i].live => i = Len(reqs')
    BY <1>1, <2>6 DEF NoneLive
  <2>8. ASSUME NEW i \in 1 .. Len(reqs'), reqs'[i].live
        PROVE  cli'.pc = "wait" /\ i = Len(reqs') /\ Answers(reqs[i], cli.ok)'
    <3>1. i = Len(reqs') /\ reqs'[i] = r
      BY <2>6, <2>7, <2>8, ZenonT(60), SMTT(20)
    <3> QED BY <2>3, <2>5, <3>1, ZenonT(60), SMTT(20) DEF Answers
  <2>9. Expects(cli.ok, cli.bad)'
    BY <2>3, ZenonT(60), SMTT(20) DEF Expects
  <2>10. AwaitInv'
    BY <2>8, <2>9, ZenonT(60), SMTT(20) DEF AwaitInv
  <2>11. EngineStep(cli.pc)'
    BY <2>3 DEF EngineStep
  <2>12. TypeOK'
    BY <2>3, <2>6, ZenonT(60), SMTT(20) DEF FilesTyped, TypeOK
  <2>13. RmUnloaded'
    <3>1. \A i \in 1 .. Len(reqs') : reqs'[i].live => reqs'[i] = r
      BY <2>6, <2>7, ZenonT(60), SMTT(20)
    <3>2. cli'.pc # "rm"
      BY <2>3
    <3>3. cli'.ok = "rm" => r.op = "unload" /\ cli'.todo \subseteq r.names
      BY <2>3, <2>5
    <3> QED BY <3>1, <3>2, <3>3, ZenonT(60), SMTT(20) DEF RmUnloaded
  <2> QED BY <2>10, <2>11, <2>12, <2>13, ZenonT(60), SMTT(20) DEF EngineInv
<1> QED BY <1>3, <1>4

-----------------------------------------------------------------------------

\* No command waits after the step.
LEMMA Unawaiting ==
    ASSUME \A i \in 1 .. Len(reqs') : ~reqs'[i].live, cli'.pc # "wait",
           cli'.pc = "rm" => reqs' = <<>> /\ \A m \in cli'.todo : engine'[m] = 0,
           TypeOK', ServedInv', EngineStep(cli.pc)'
    PROVE  EngineInv'
<1>1. AwaitInv'
  BY ZenonT(60), SMTT(20) DEF AwaitInv
<1>2. RmUnloaded'
  BY DEF RmUnloaded
<1> QED BY <1>1, <1>2, ZenonT(60), SMTT(20) DEF EngineInv

\* A command that gives up, or gets no good answer, rolls back or ends.
LEMMA BadStep ==
    ASSUME EngineInv, cli.pc = "wait"
    PROVE  cli.bad \in {"idle", "undo"} /\ EngineStep(cli.bad)
  BY DEF EngineInv, AwaitInv, Expects, EngineStep

LEMMA TimeoutServes == ASSUME EngineInv, Timeout PROVE EngineInv'
<1>1. /\ cli.pc = "wait" /\ cli \in Cli /\ TypeOK /\ SameServed /\ UNCHANGED <<parked, before, stray, offer, runs>>
      /\ cli' = At(cli, cli.bad) /\ Fault("lost")
      /\ reqs' \in {Abandoned, SubSeq(reqs, 1, Len(reqs) - 1)}
  BY ZenonT(60), SMTT(20) DEF EngineInv, TypeOK, Timeout, SameServed, Goto
<1>2. cli.bad \in {"idle", "undo"} /\ EngineStep(cli.bad)
  BY <1>1, BadStep, ZenonT(60), SMTT(20)
<1>3. cli.bad \in Step
  BY <1>2 DEF Step
<1>4. cli' \in Cli /\ cli'.pc = cli.bad
  BY <1>1, <1>3, AtFacts, ZenonT(60), SMTT(20)
<1>5. reqs' \in Seq(Request) /\ \A i \in 1 .. Len(reqs') : ~reqs'[i].live
  <2>1. \A i \in 1 .. Len(reqs) : reqs[i].live => i = Len(reqs)
    BY ZenonT(60), SMTT(20) DEF EngineInv, AwaitInv
  <2>2. CASE reqs' = Abandoned
    BY <1>1, <2>2, AbandonFacts, ZenonT(60), SMTT(20)
  <2>3. CASE reqs' = SubSeq(reqs, 1, Len(reqs) - 1)
    BY <1>1, <2>1, <2>3, DropFacts, ZenonT(60), SMTT(20)
  <2> QED BY <1>1, <2>2, <2>3, ZenonT(60), SMTT(20)
<1>6. faults' \in 0 .. MaxFaults
  BY <1>1, FaultType, ZenonT(60), SMTT(20)
<1>7. TypeOK'
  BY <1>1, <1>4, <1>5, <1>6, ZenonT(60), SMTT(20) DEF TypeOK, SameServed
<1>8. ServedInv' /\ EngineStep(cli.pc)'
  BY <1>1, <1>2, <1>4, SameFacts, ZenonT(60), SMTT(20) DEF EngineInv
<1>9. cli'.pc \notin {"wait", "rm"}
  BY <1>2, <1>4
<1> QED BY <1>5, <1>7, <1>8, <1>9, Unawaiting, ZenonT(60), SMTT(20)

LEMMA CrashServes == ASSUME EngineInv, Crash PROVE EngineInv'
<1>1. /\ TypeOK /\ SameServed /\ UNCHANGED <<parked, before, stray, offer, runs>>
      /\ cli' = Idle /\ Fault("crash") /\ reqs' = Abandoned
  BY ZenonT(60), SMTT(20) DEF EngineInv, Crash, SameServed
<1>2. cli' \in Cli /\ cli'.pc = "idle"
  BY <1>1, IdleFacts, ZenonT(60), SMTT(20)
<1>3. reqs' \in Seq(Request) /\ \A i \in 1 .. Len(reqs') : ~reqs'[i].live
  BY <1>1, AbandonFacts, ZenonT(60), SMTT(20)
<1>4. faults' \in 0 .. MaxFaults
  BY <1>1, FaultType, ZenonT(60), SMTT(20)
<1>5. TypeOK'
  BY <1>1, <1>2, <1>3, <1>4, ZenonT(60), SMTT(20) DEF TypeOK, SameServed
<1>6. ServedInv'
  BY <1>1, SameFacts, ZenonT(60), SMTT(20) DEF EngineInv
<1>7. EngineStep(cli.pc)' /\ cli'.pc \notin {"wait", "rm"}
  BY <1>2 DEF EngineStep
<1> QED BY <1>3, <1>5, <1>6, <1>7, Unawaiting, ZenonT(60), SMTT(20)

\* The engine is not started anew between rm's unload and its last rename.
NoRestartInRm == "restart_rm" \notin Faults

\* A started engine has loaded what is enabled, from where it is.
LEMMA RestartServes == ASSUME NoRestartInRm, EngineInv, Restart PROVE EngineInv'
<1>1. /\ cli \in Cli /\ TypeOK /\ UNCHANGED <<disk, parked, record, enabled, before, stray, offer, runs>>
      /\ engine' = [m \in Model |-> IF m \in enabled THEN disk[m] ELSE 0]
      /\ reqs' = <<>> /\ Fault("restart") /\ cli.pc # "rm"
      /\ IF cli.pc = "wait" THEN cli' = At(cli, cli.bad) ELSE cli' = cli
  BY ZenonT(60), SMTT(20) DEF EngineInv, TypeOK, Restart, Goto, Fault, NoRestartInRm
<1>2. cli' \in Cli /\ cli'.pc \notin {"wait", "rm"} /\ EngineStep(cli'.pc)
  <2>1. CASE cli.pc = "wait"
    <3>1. cli.bad \in {"idle", "undo"} /\ EngineStep(cli.bad)
      BY <2>1, BadStep, ZenonT(60), SMTT(20)
    <3>2. cli.bad \in Step
      BY <3>1 DEF Step
    <3>3. cli' = At(cli, cli.bad) /\ cli \in Cli
      BY <1>1, <2>1
    <3>4. At(cli, cli.bad) \in Cli /\ At(cli, cli.bad).pc = cli.bad
      BY <3>2, <3>3, AtFacts
    <3>5. cli' \in Cli /\ cli'.pc = cli.bad
      BY <3>3, <3>4
    <3> QED BY <3>1, <3>5
  <2>2. CASE cli.pc # "wait"
    <3>1. cli' = cli /\ EngineStep(cli.pc)
      BY <1>1, <2>2, ZenonT(60), SMTT(20) DEF EngineInv
    <3> QED BY <1>1, <2>2, <3>1
  <2> QED BY <2>1, <2>2, ZenonT(60), SMTT(20)
<1>3. disk \in [Model -> Rev] /\ 0 \in Rev /\ record.replace \subseteq Model /\ record.install \subseteq Model
  BY <1>1, SwapAssumption DEF TypeOK, Rev, Record
<1>4. engine' \in [Model -> Rev] /\ \A m \in Model : engine'[m] = IF m \in enabled THEN disk[m] ELSE 0
  BY <1>1, <1>3
<1>5. \A m \in Model : Fresh(m)'
  BY <1>1, <1>4 DEF Fresh
<1>6. Silent' /\ (Pending <=> Pending') /\ Batch' = Batch
  BY <1>1, <1>3, <1>4 DEF Silent, Pending, Batch
<1>7. ServedInv'
  <2>1. CASE Pending
    <3>1. \A m \in record.install : engine'[m] = 0
      BY <1>3, <1>4, <2>1 DEF EngineInv, ServedInv
    <3> QED BY <1>1, <1>5, <1>6, <2>1, <3>1, ZenonT(60), SMTT(20) DEF EngineInv, ServedInv
  <2>2. CASE ~Pending
    BY <1>5, <1>6, <2>2, ZenonT(60), SMTT(20) DEF ServedInv
  <2> QED BY <2>1, <2>2, ZenonT(60), SMTT(20)
<1>8. EngineStep(cli.pc)'
  BY <1>2, <1>5, <1>6, ZenonT(60), SMTT(20) DEF EngineStep
<1>9. reqs' \in Seq(Request) /\ \A i \in 1 .. Len(reqs') : ~reqs'[i].live
  BY <1>1
<1>10. faults' \in 0 .. MaxFaults
  BY <1>1, FaultType, ZenonT(60), SMTT(20)
<1>11. TypeOK'
  BY <1>1, <1>2, <1>4, <1>9, <1>10, ZenonT(60), SMTT(20) DEF TypeOK
<1> QED BY <1>2, <1>7, <1>8, <1>9, <1>11, Unawaiting, ZenonT(60), SMTT(20)

\* What a request makes resident is what is on disk, and nothing fresh goes
\* stale.
LEMMA ServeFacts ==
    ASSUME EngineInv, NEW loaded \in SUBSET Model, Serve(loaded)
    PROVE  /\ UNCHANGED <<disk, parked, record, enabled, before, stray, offer, runs>>
           /\ engine' \in [Model -> Rev] /\ faults' \in 0 .. MaxFaults
           /\ \A m \in Model :
                 engine'[m] = IF m \in loaded THEN disk[m]
                              ELSE IF Head(reqs).op = "unload" /\ m \in Head(reqs).names THEN 0
                              ELSE engine[m]
           /\ \A m \in loaded : m \in enabled /\ disk[m] # 0
           /\ \A m \in Model : Fresh(m) => Fresh(m)'
           /\ ServedInv' /\ (Silent => Silent') /\ (Pending <=> Pending')
<1>1. /\ UNCHANGED <<disk, parked, record, enabled, before, stray, offer, runs>>
      /\ engine' = [m \in Model |-> IF m \in loaded THEN disk[m]
                                    ELSE IF Head(reqs).op = "unload" /\ m \in Head(reqs).names THEN 0
                                    ELSE engine[m]]
      /\ TypeOK /\ disk \in [Model -> Rev] /\ engine \in [Model -> Rev]
  BY ZenonT(60), SMTT(20) DEF Serve, EngineInv, TypeOK
<1>2. 0 \in Rev /\ record.replace \subseteq Model /\ record.install \subseteq Model
  BY <1>1, SwapAssumption DEF TypeOK, Rev, Record
<1>3. engine' \in [Model -> Rev]
      /\ \A m \in Model :
            engine'[m] = IF m \in loaded THEN disk[m]
                         ELSE IF Head(reqs).op = "unload" /\ m \in Head(reqs).names THEN 0
                         ELSE engine[m]
  BY <1>1, <1>2
<1>4. faults' \in 0 .. MaxFaults
  <2>1. NoFault \/ Fault("load")
    BY ZenonT(60), SMTT(20) DEF Serve
  <2> QED BY <1>1, <2>1, FaultType DEF NoFault, TypeOK
<1>5. \A m \in loaded : m \in enabled /\ disk[m] # 0
  BY DEF Serve, Loadable, Installed
<1>6. \A m \in Model : Fresh(m) => Fresh(m)'
  BY <1>1, <1>3 DEF Fresh
<1>7. (Silent => Silent') /\ (Pending <=> Pending') /\ Batch' = Batch
  BY <1>1, <1>2, <1>3, <1>5 DEF Silent, Pending, Batch
<1>8. ServedInv'
  <2>1. CASE Pending
    <3>1. /\ record.replace \intersect record.install = {}
          /\ record.reload = record.replace \intersect enabled
          /\ \A m \in record.install : engine[m] = 0 /\ (disk[m] # 0 => m \notin enabled)
          /\ \A m \in Model \ Batch : Fresh(m)
      BY <2>1, ZenonT(60), SMTT(20) DEF EngineInv, ServedInv
    <3>2. \A m \in record.install : engine'[m] = 0
      BY <1>2, <1>3, <1>5, <3>1
    <3> QED BY <1>1, <1>6, <1>7, <2>1, <3>1, <3>2, ZenonT(60), SMTT(20) DEF ServedInv
  <2>2. CASE ~Pending
    BY <1>6, <1>7, <2>2, ZenonT(60), SMTT(20) DEF EngineInv, ServedInv
  <2> QED BY <2>1, <2>2, ZenonT(60), SMTT(20)
<1> QED BY <1>1, <1>3, <1>4, <1>5, <1>6, <1>7, <1>8, ZenonT(60), SMTT(20)

\* A verified reply: directories may move, or the batch may be decided.
LEMMA GoodReply ==
    ASSUME EngineInv, NEW loaded \in SUBSET Model, Serve(loaded), cli.pc = "wait", NEW ok, ok = cli.ok,
           Answers(Head(reqs), ok), Verified(Head(reqs).op, Head(reqs).names, loaded)
    PROVE  ok \in Step /\ ok # "wait" /\ EngineStep(ok)'
<1> DEFINE r == Head(reqs)
<1>1. /\ ok \in {"move", "confirm", "restore", "clear", "rm", "off", "idle"}
      /\ ok \in {"move", "confirm", "restore", "clear"} => Pending
      /\ ok \in {"rm", "off"} => ~Pending
      /\ ok \in {"confirm", "clear"} => Silent
  BY ZenonT(60), SMTT(20) DEF EngineInv, AwaitInv, Expects
<1>2. /\ \A m \in Model : engine'[m] = IF m \in loaded THEN disk[m]
                                       ELSE IF r.op = "unload" /\ m \in r.names THEN 0
                                       ELSE engine[m]
      /\ \A m \in loaded : m \in enabled /\ disk[m] # 0
      /\ \A m \in Model : Fresh(m) => Fresh(m)'
      /\ disk' = disk /\ record' = record /\ enabled' = enabled
      /\ ServedInv' /\ (Silent => Silent') /\ (Pending <=> Pending')
  BY ServeFacts, ZenonT(60), SMTT(20)
<1>3. record.replace \subseteq Model
  BY DEF EngineInv, TypeOK, Record
<1>4. ok \in {"move", "restore"} => Silent'
  <2>1. ASSUME ok \in {"move", "restore"}, NEW m \in record.replace \ enabled PROVE engine'[m] = 0
    <3>1. r.op = "unload" /\ m \in r.names /\ m \in Model /\ m \notin loaded
      BY <1>2, <1>3, <2>1, ZenonT(60), SMTT(20) DEF Answers
    <3> QED BY <1>2, <3>1, ZenonT(60), SMTT(20)
  <2> QED BY <1>2, <2>1, ZenonT(60), SMTT(20) DEF Silent
<1>5. ok \in {"confirm", "clear"} => \A m \in Model : Fresh(m)'
  <2>1. ASSUME ok \in {"confirm", "clear"}, NEW m \in Model PROVE Fresh(m)'
    <3>1. Pending' /\ Silent' /\ ServedInv'
      BY <1>1, <1>2, <2>1, ZenonT(60), SMTT(20)
    <3>2. r.op = "load" /\ loaded = record.reload
      BY <2>1 DEF Answers, Verified
    <3>3. CASE m \in loaded
      BY <1>2, <3>3 DEF Fresh
    <3>4. CASE m \in record.replace \ loaded
      <4>1. m \in record'.replace \ enabled'
        BY <1>2, <3>1, <3>2, <3>4, ZenonT(60), SMTT(20) DEF ServedInv
      <4>2. engine'[m] = 0
        BY <3>1, <4>1, ZenonT(60), SMTT(20) DEF Silent
      <4> QED BY <4>2 DEF Fresh
    <3>5. CASE m \in record.install
      <4>1. engine'[m] = 0
        BY <1>2, <3>1, <3>5, ZenonT(60), SMTT(20) DEF ServedInv
      <4> QED BY <4>1 DEF Fresh
    <3>6. CASE m \notin record.replace \union record.install
      BY <1>2, <3>1, <3>6, ZenonT(60), SMTT(20) DEF ServedInv, Batch
    <3> QED BY <3>3, <3>4, <3>5, <3>6, ZenonT(60), SMTT(20)
  <2> QED BY <2>1, ZenonT(60), SMTT(20)
<1>6. ok \in Step /\ ok # "wait"
  BY <1>1 DEF Step
<1>7. EngineStep(ok)'
  BY <1>1, <1>2, <1>4, <1>5 DEF EngineStep
<1> QED BY <1>6, <1>7

\* The requests that are left: one of them may still be awaited.
LEMMA ServeAwaits ==
    ASSUME EngineInv, NEW loaded \in SUBSET Model, Serve(loaded), ~Head(reqs).live
    PROVE  AwaitInv'
<1>1. reqs \in Seq(Request) /\ reqs # <<>> /\ Len(reqs) \in Nat /\ reqs' = Tail(reqs) /\ cli' = cli
  BY DEF EngineInv, TypeOK, Serve
<1>2. \A i \in 1 .. Len(reqs') : i + 1 \in 1 .. Len(reqs) /\ reqs'[i] = reqs[i + 1] /\ i \in Int
  BY <1>1
<1>3. Len(reqs) \in Nat /\ Len(reqs') = Len(reqs) - 1
  BY <1>1
<1>4. \A i \in 1 .. Len(reqs) : reqs[i].live =>
         cli.pc = "wait" /\ i = Len(reqs) /\ Answers(reqs[i], cli.ok)
  BY ZenonT(60), SMTT(20) DEF EngineInv, AwaitInv
<1>5. /\ disk' = disk /\ record' = record /\ enabled' = enabled
      /\ (Silent => Silent') /\ (Pending <=> Pending')
  BY ServeFacts, ZenonT(60), SMTT(20)
<1>6. ASSUME NEW i \in 1 .. Len(reqs'), reqs'[i].live
      PROVE  cli'.pc = "wait" /\ i = Len(reqs') /\ Answers(reqs[i], cli.ok)'
  <2>1. i + 1 \in 1 .. Len(reqs) /\ reqs[i + 1].live /\ i \in Int /\ reqs'[i] = reqs[i + 1]
    BY <1>2, <1>6, ZenonT(60), SMTT(20)
  <2>2. cli.pc = "wait" /\ i + 1 = Len(reqs) /\ Answers(reqs[i + 1], cli.ok)
    BY <1>4, <2>1, ZenonT(60), SMTT(20)
  <2>3. i = Len(reqs')
    <3>1. i + 1 = Len(reqs) /\ i \in Int
      BY <2>1, <2>2, ZenonT(60), SMTT(20)
    <3> QED BY <1>3, <3>1
  <2>4. Answers(reqs[i], cli.ok)'
    BY <1>1, <1>5, <2>1, <2>2, ZenonT(60), SMTT(20) DEF Answers
  <2> QED BY <1>1, <2>2, <2>3, <2>4, ZenonT(60), SMTT(20)
<1>7. cli'.pc = "wait" => Expects(cli.ok, cli.bad)'
  <2>1. cli.pc = "wait" => Expects(cli.ok, cli.bad)
    BY ZenonT(60), SMTT(20) DEF EngineInv, AwaitInv
  <2> QED BY <1>1, <1>5, <2>1, ZenonT(60), SMTT(20) DEF Expects
<1> QED BY <1>6, <1>7, ZenonT(60), SMTT(20) DEF AwaitInv

LEMMA ServeKeepsRm ==
    ASSUME EngineInv, NEW loaded \in SUBSET Model, Serve(loaded), ~Head(reqs).live
    PROVE  RmUnloaded'
<1>1. reqs \in Seq(Request) /\ reqs # <<>> /\ reqs' = Tail(reqs) /\ cli' = cli
  BY DEF EngineInv, TypeOK, Serve
<1>2. \A i \in 1 .. Len(reqs') : i + 1 \in 1 .. Len(reqs) /\ reqs'[i] = reqs[i + 1]
  BY <1>1
<1>3. cli'.pc # "rm"
  BY <1>1 DEF EngineInv, RmUnloaded
<1>4. ASSUME cli'.pc = "wait", cli'.ok = "rm", NEW i \in 1 .. Len(reqs'), reqs'[i].live
      PROVE  reqs'[i].op = "unload" /\ cli'.todo \subseteq reqs'[i].names
  BY <1>1, <1>2, <1>4, ZenonT(60), SMTT(20) DEF EngineInv, RmUnloaded
<1> QED BY <1>3, <1>4, ZenonT(60), SMTT(20) DEF RmUnloaded

LEMMA ServeServes == ASSUME EngineInv, NEW loaded \in SUBSET Model, Serve(loaded) PROVE EngineInv'
<1> DEFINE r == Head(reqs)
<1>1. /\ UNCHANGED <<disk, parked, record, enabled, before, stray, offer, runs>>
      /\ engine' \in [Model -> Rev] /\ faults' \in 0 .. MaxFaults
      /\ \A m \in Model : Fresh(m) => Fresh(m)'
      /\ ServedInv' /\ (Silent => Silent') /\ (Pending <=> Pending')
  BY ServeFacts, ZenonT(60), SMTT(20)
<1>2. reqs \in Seq(Request) /\ reqs # <<>> /\ reqs' = Tail(reqs) /\ cli \in Cli /\ TypeOK
  BY ZenonT(60), SMTT(20) DEF EngineInv, TypeOK, Serve
<1>3. r = reqs[1] /\ Len(reqs) \in Nat /\ 1 \in 1 .. Len(reqs) /\ reqs' \in Seq(Request)
  BY <1>2
<1>4. CASE r.live
  <2>1. cli.pc = "wait" /\ 1 = Len(reqs) /\ Answers(r, cli.ok)
    BY <1>3, <1>4, ZenonT(60), SMTT(20) DEF EngineInv, AwaitInv
  <2>2. \A i \in 1 .. Len(reqs') : ~reqs'[i].live
    BY <1>2, <1>3, <2>1
  <2>3. \E pc \in Step : cli' = At(cli, pc) /\ pc # "wait" /\ EngineStep(pc)'
    <3>1. CASE Verified(r.op, r.names, loaded)
      <4>1. cli' = At(cli, cli.ok)
        BY <1>4, <3>1, ZenonT(60), SMTT(20) DEF Serve, Goto
      <4>2. \A ok : ok = cli.ok => ok \in Step /\ ok # "wait" /\ EngineStep(ok)'
        BY <2>1, <3>1, GoodReply, ZenonT(60), SMTT(20)
      <4> QED BY <4>1, <4>2, ZenonT(60), SMTT(20)
    <3>2. CASE ~Verified(r.op, r.names, loaded)
      <4>1. cli' = At(cli, cli.bad)
        BY <1>4, <3>2, ZenonT(60), SMTT(20) DEF Serve, Goto
      <4>2. cli.bad \in {"idle", "undo"} /\ EngineStep(cli.bad)
        BY <2>1, BadStep, ZenonT(60), SMTT(20)
      <4>3. \A bad : bad = cli.bad => bad \in Step /\ bad # "wait" /\ EngineStep(bad)'
        <5>1. ASSUME NEW bad, bad = cli.bad PROVE bad \in Step /\ bad # "wait" /\ EngineStep(bad)'
          <6>1. bad = "idle" \/ (bad = "undo" /\ Pending)
            BY <4>2, <5>1, ZenonT(60), SMTT(20) DEF EngineStep
          <6> QED BY <1>1, <6>1 DEF EngineStep, Step
        <5> QED BY <5>1
      <4> QED BY <4>1, <4>3, ZenonT(60), SMTT(20)
    <3> QED BY <3>1, <3>2, ZenonT(60), SMTT(20)
  <2>4. PICK pc \in Step : cli' = At(cli, pc) /\ pc # "wait" /\ EngineStep(pc)'
    BY <2>3, ZenonT(60), SMTT(20)
  <2>5. cli' \in Cli /\ cli'.pc = pc
    BY <1>2, <2>4, AtFacts, ZenonT(60), SMTT(20)
  <2>6. TypeOK'
    BY <1>1, <1>2, <1>3, <2>5, ZenonT(60), SMTT(20) DEF TypeOK
  <2>7. EngineStep(cli.pc)' /\ cli'.pc # "wait"
    BY <2>4, <2>5, ZenonT(60), SMTT(20)
  <2>8. cli'.pc = "rm" => reqs' = <<>> /\ \A m \in cli'.todo : engine'[m] = 0
    <3>1. SUFFICES ASSUME cli'.pc = "rm" PROVE reqs' = <<>> /\ \A m \in cli'.todo : engine'[m] = 0
      OBVIOUS
    <3>2. reqs' = <<>>
      BY <1>2, <2>1
    <3>3. cli.ok = "rm" /\ cli'.todo = cli.todo /\ cli.todo \subseteq Model
      <4>1. cli' = At(cli, cli.ok) \/ cli' = At(cli, cli.bad)
        BY <1>4, ZenonT(60), SMTT(20) DEF Serve, Goto
      <4>2. cli.ok \in Step /\ cli.bad \in {"idle", "undo"} /\ {"idle", "undo"} \subseteq Step
            /\ cli.todo \subseteq Model
        BY <1>2, <2>1, BadStep DEF Cli, Step
      <4> QED BY <1>2, <3>1, <4>1, <4>2, AtFacts
    <3>4. r.op = "unload" /\ cli.todo \subseteq r.names
      BY <1>3, <1>4, <2>1, <3>3, ZenonT(60), SMTT(20) DEF EngineInv, RmUnloaded
    <3>5. loaded = {}
      BY <3>4 DEF Serve
    <3>6. \A m \in Model : engine'[m] = IF m \in loaded THEN disk[m]
                                        ELSE IF r.op = "unload" /\ m \in r.names THEN 0 ELSE engine[m]
      BY ServeFacts, ZenonT(60), SMTT(20)
    <3> HIDE DEF r
    <3> QED BY <3>2, <3>3, <3>4, <3>5, <3>6
  <2> QED BY <1>1, <2>2, <2>6, <2>7, <2>8, Unawaiting, ZenonT(60), SMTT(20)
<1>5. CASE ~r.live
  <2>1. cli' = cli
    BY <1>5, ZenonT(60), SMTT(20) DEF Serve
  <2>2. TypeOK'
    BY <1>1, <1>2, <1>3, <2>1, ZenonT(60), SMTT(20) DEF TypeOK
  <2>3. AwaitInv'
    BY <1>5, ServeAwaits, ZenonT(60), SMTT(20)
  <2>4. EngineStep(cli.pc)'
    <3>1. EngineStep(cli.pc)
      BY ZenonT(60), SMTT(20) DEF EngineInv
    <3> QED BY <1>1, <2>1, <3>1, ZenonT(60), SMTT(20) DEF EngineStep
  <2>5. RmUnloaded'
    BY <1>5, ServeKeepsRm, ZenonT(60), SMTT(20)
  <2> QED BY <1>1, <2>2, <2>3, <2>4, <2>5, ZenonT(60), SMTT(20) DEF EngineInv
<1> QED BY <1>4, <1>5, ZenonT(60), SMTT(20)

-----------------------------------------------------------------------------

\* A step of the command alone.
LEMMA AloneStep ==
    ASSUME EngineInv, UNCHANGED <<files, engine, reqs, before, stray, offer, runs>>, cli.pc # "wait",
           cli' \in Cli, cli'.pc \notin {"wait", "rm"}, faults' \in 0 .. MaxFaults, EngineStep(cli'.pc)
    PROVE  EngineInv'
<1>1. SameServed /\ UNCHANGED <<parked, before, stray, offer>> /\ reqs' = reqs
  BY ZenonT(60), SMTT(20) DEF files, SameServed
<1>2. runs' \in 0 .. MaxRuns
  BY ZenonT(60), SMTT(20) DEF EngineInv, TypeOK
<1> QED BY <1>1, <1>2, QuietStep, ZenonT(60), SMTT(20)

LEMMA LockServes == ASSUME EngineInv, Lock PROVE EngineInv'
<1>1. /\ UNCHANGED <<files, engine, reqs, before, stray, offer, runs>> /\ cli.pc = "idle"
      /\ cli' = At(cli, "recover") /\ cli \in Cli /\ faults' \in 0 .. MaxFaults
  BY ZenonT(60), SMTT(20) DEF EngineInv, TypeOK, Lock, Goto, NoFault
<1>2. "recover" \in Step
  BY DEF Step
<1>3. cli' \in Cli /\ cli'.pc = "recover"
  BY <1>1, <1>2, AtFacts, ZenonT(60), SMTT(20)
<1>4. EngineStep(cli'.pc) /\ cli'.pc \notin {"wait", "rm"} /\ cli.pc # "wait"
  BY <1>1, <1>3 DEF EngineStep
<1> QED BY <1>1, <1>3, <1>4, AloneStep, ZenonT(60), SMTT(20)

LEMMA RecoverServes == ASSUME EngineInv, Recover PROVE EngineInv'
<1>1. /\ UNCHANGED <<files, engine, reqs, before, stray, offer, runs>> /\ cli.pc = "recover"
      /\ cli \in Cli /\ faults' \in 0 .. MaxFaults
  BY ZenonT(60), SMTT(20) DEF EngineInv, TypeOK, Recover, NoFault
<1>2. cli' \in Cli /\ cli'.pc = IF Pending THEN "undo" ELSE "discard"
  BY <1>1, ZenonT(60), SMTT(20) DEF Recover, Cli, Step, Pending
<1>3. EngineStep(cli'.pc) /\ cli'.pc \notin {"wait", "rm"} /\ cli.pc # "wait"
  BY <1>1, <1>2 DEF EngineStep
<1> QED BY <1>1, <1>2, <1>3, AloneStep, ZenonT(60), SMTT(20)

LEMMA QuitServes == ASSUME EngineInv, Quit PROVE EngineInv'
<1>1. /\ UNCHANGED <<files, engine, reqs, before, stray, offer, runs>> /\ cli.pc = "plan"
      /\ cli' = Idle /\ faults' \in 0 .. MaxFaults
  BY ZenonT(60), SMTT(20) DEF EngineInv, TypeOK, Quit, NoFault
<1>2. EngineStep(cli'.pc) /\ cli'.pc \notin {"wait", "rm"} /\ cli.pc # "wait"
  BY <1>1, IdleFacts DEF EngineStep
<1> QED BY <1>1, <1>2, IdleFacts, AloneStep, ZenonT(60), SMTT(20)

\* Whatever becomes of .swap, a command goes on when no batch is pending.
LEMMA AfterServes ==
    ASSUME EngineInv, UNCHANGED <<files, engine, reqs, before, stray, offer, runs>>, faults' \in 0 .. MaxFaults,
           cli.pc \in {"discard", "clear"}, NEW pc \in {"plan", "idle"}, cli' = At(cli, pc),
           pc = "plan" => ~Pending
    PROVE  EngineInv'
<1>1. cli \in Cli /\ pc \in Step
  BY DEF EngineInv, TypeOK, Step
<1>2. cli' \in Cli /\ cli'.pc = pc
  BY <1>1, AtFacts, ZenonT(60), SMTT(20)
<1>3. EngineStep(cli'.pc) /\ cli'.pc \notin {"wait", "rm"} /\ cli.pc # "wait"
  BY <1>2 DEF EngineStep
<1> QED BY <1>2, <1>3, AloneStep, ZenonT(60), SMTT(20)

LEMMA RemovedServes == ASSUME EngineInv, Removed PROVE EngineInv'
<1>1. /\ UNCHANGED <<files, engine, reqs, before, stray, offer, runs>> /\ cli.pc \in {"discard", "clear"}
      /\ cli' = At(cli, cli.after) /\ faults' \in 0 .. MaxFaults /\ record = NoRecord /\ cli \in Cli
  BY ZenonT(60), SMTT(20) DEF EngineInv, TypeOK, Removed, Goto, NoFault
<1>2. ~Pending
  BY <1>1 DEF Pending, NoRecord
<1>3. cli.after \in {"plan", "idle"}
  BY <1>1 DEF Cli
<1> QED BY <1>1, <1>2, <1>3, AfterServes, ZenonT(60), SMTT(20)

LEMMA RemoveFailsServes == ASSUME EngineInv, RemoveFails PROVE EngineInv'
<1>1. /\ UNCHANGED <<files, engine, reqs, before, stray, offer, runs>> /\ cli.pc \in {"discard", "clear"}
      /\ cli' = At(cli, IF cli.pc = "discard" THEN cli.after ELSE "idle")
      /\ Fault("remove") /\ TypeOK /\ cli \in Cli /\ EngineStep(cli.pc)
  BY ZenonT(60), SMTT(20) DEF EngineInv, TypeOK, RemoveFails, Goto
<1>2. faults' \in 0 .. MaxFaults
  BY <1>1, FaultType, ZenonT(60), SMTT(20)
<1>3. cli.pc = "discard" => ~Pending
  BY <1>1, ZenonT(60), SMTT(20) DEF EngineStep
<1>4. cli.after \in {"plan", "idle"}
  BY <1>1 DEF Cli
<1>5. CASE cli.pc = "discard"
  BY <1>1, <1>2, <1>3, <1>4, <1>5, AfterServes, ZenonT(60), SMTT(20)
<1>6. CASE cli.pc # "discard"
  BY <1>1, <1>2, <1>6, AfterServes, ZenonT(60), SMTT(20)
<1> QED BY <1>5, <1>6, ZenonT(60), SMTT(20)

\* Giving up a model does not move it.
LEMMA ProblemServes ==
    ASSUME EngineInv, UNCHANGED <<files, engine, reqs, before, stray, offer, runs>>,
           cli.pc \notin {"wait", "rm"}, NEW m \in Model, Problem(m, TRUE)
    PROVE  EngineInv'
<1>1. cli' \in Cli /\ cli'.pc = cli.pc /\ faults' \in 0 .. MaxFaults
  BY ProblemFacts, ZenonT(60), SMTT(20) DEF EngineInv
<1>2. EngineStep(cli'.pc) /\ cli.pc # "wait" /\ cli'.pc \notin {"wait", "rm"}
  BY <1>1, ZenonT(60), SMTT(20) DEF EngineInv
<1> QED BY <1>1, <1>2, AloneStep, ZenonT(60), SMTT(20)

LEMMA GiveUpServes ==
    ASSUME EngineInv, NEW m, (m \in ToRestore /\ RestoreFails(m)) \/ (m \in ToUninstall /\ UninstallFails(m))
    PROVE  EngineInv'
<1>1. /\ UNCHANGED <<files, engine, reqs, before, stray, offer, runs>> /\ Problem(m, TRUE)
      /\ cli.pc = "restore" \/ cli.pc = "uninstall"
  BY ZenonT(60), SMTT(20) DEF RestoreFails, UninstallFails
<1>2. m \in Model
  BY DEF EngineInv, TypeOK, Record, ToRestore, ToUninstall
<1>3. cli.pc \notin {"wait", "rm"}
  BY <1>1
<1> QED BY <1>1, <1>2, <1>3, ProblemServes, ZenonT(60), SMTT(20)

LEMMA RestoredServes == ASSUME EngineInv, Restored PROVE EngineInv'
<1>1. /\ UNCHANGED <<files, engine, reqs, before, stray, offer, runs>> /\ cli.pc = "restore" /\ cli \in Cli
      /\ cli' = At(cli, IF cli.todo = {} THEN "uninstall" ELSE "idle") /\ faults' \in 0 .. MaxFaults
      /\ EngineStep(cli.pc)
  BY ZenonT(60), SMTT(20) DEF EngineInv, TypeOK, Restored, Goto, NoFault
<1>2. cli' \in Cli /\ cli'.pc \in {"uninstall", "idle"}
  BY <1>1, AtFacts DEF Step
<1>3. Pending /\ Silent
  BY <1>1, ZenonT(60), SMTT(20) DEF EngineStep
<1>4. EngineStep(cli'.pc) /\ cli'.pc \notin {"wait", "rm"} /\ cli.pc # "wait"
  BY <1>1, <1>2, <1>3 DEF EngineStep
<1> QED BY <1>1, <1>2, <1>4, AloneStep, ZenonT(60), SMTT(20)

-----------------------------------------------------------------------------

\* Directories of a batch move while none of its models is resident, but for
\* what is reloaded once they stay; a fresh install lands deactivated.
LEMMA MoveStep ==
    ASSUME EngineInv, cli.pc \in {"move", "half", "restore", "uninstall"}, NEW m \in Model,
           \/ m \in record.replace /\ enabled' = enabled
           \/ /\ m \in record.install /\ enabled' \in {enabled, enabled \ {m}}
              /\ disk'[m] # 0 => m \notin enabled',
           disk' \in [Model -> Rev], \A x \in Model : x # m => disk'[x] = disk[x],
           parked' \in [Model -> Rev], UNCHANGED <<record, engine, reqs, before, stray, offer, runs>>,
           cli' \in Cli, cli'.pc \in {"move", "half", "undo", "restore", "uninstall"},
           faults' \in 0 .. MaxFaults
    PROVE  EngineInv'
<1>1. TypeOK /\ ServedInv /\ EngineStep(cli.pc)
  BY ZenonT(60), SMTT(20) DEF EngineInv
<1>2. Pending /\ Silent
  BY <1>1 DEF EngineStep
<1>3. /\ record.replace \intersect record.install = {}
      /\ record.reload = record.replace \intersect enabled
      /\ \A x \in record.install : engine[x] = 0 /\ (disk[x] # 0 => x \notin enabled)
      /\ \A x \in Model \ Batch : Fresh(x)
  BY <1>1, <1>2, ZenonT(60), SMTT(20) DEF ServedInv
<1>4. record.replace \subseteq Model /\ record.install \subseteq Model /\ enabled \subseteq Model
  BY <1>1 DEF TypeOK, Record
<1>5. Pending' /\ Batch' = Batch /\ m \in Batch
  BY <1>2 DEF Pending, Batch
<1>6. record.replace \ enabled' = record.replace \ enabled
      /\ record.replace \intersect enabled' = record.replace \intersect enabled /\ enabled' \subseteq Model
  BY <1>3, <1>4
<1>7. Silent'
  BY <1>2, <1>6 DEF Silent
<1>8. \A x \in record.install : engine'[x] = 0 /\ (disk'[x] # 0 => x \notin enabled')
  <2>1. ASSUME NEW x \in record.install PROVE engine'[x] = 0 /\ (disk'[x] # 0 => x \notin enabled')
    <3>1. engine'[x] = 0
      BY <1>3, ZenonT(60), SMTT(20)
    <3>2. CASE x = m
      BY <1>3, <3>1, <3>2
    <3>3. CASE x # m
      BY <1>3, <1>4, <3>1, <3>3
    <3> QED BY <3>2, <3>3, ZenonT(60), SMTT(20)
  <2> QED BY <2>1, ZenonT(60), SMTT(20)
<1>9. \A x \in Model \ Batch : Fresh(x)'
  BY <1>3, <1>5 DEF Fresh
<1>10. ServedInv'
  BY <1>3, <1>5, <1>6, <1>8, <1>9, ZenonT(60), SMTT(20) DEF ServedInv
<1>11. EngineStep(cli.pc)' /\ cli.pc # "wait" /\ cli'.pc \notin {"wait", "rm"}
  BY <1>5, <1>7 DEF EngineStep
<1>12. TypeOK'
  BY <1>1, <1>6, ZenonT(60), SMTT(20) DEF TypeOK
<1> QED BY <1>10, <1>11, <1>12, OwnStep, ZenonT(60), SMTT(20)

LEMMA MoveInstallServes ==
    ASSUME EngineInv, NEW m \in cli.todo, NEW landed \in BOOLEAN, NEW failed \in BOOLEAN,
           MoveInstall(m, landed, failed)
    PROVE  EngineInv'
<1>1. /\ cli \in Cli /\ cli.pc = "move" /\ m \in record.install /\ m \in Model /\ cli.todo \in SUBSET Model
      /\ cli.new \in [Model -> Rev] /\ disk \in [Model -> Rev] /\ TypeOK /\ ServedInv /\ EngineStep(cli.pc)
  BY DEF EngineInv, TypeOK, Cli, MoveInstall
<1>2. /\ UNCHANGED <<parked, record, engine, reqs, before, stray, offer, runs>>
      /\ IF landed THEN disk' = [disk EXCEPT ![m] = cli.new[m]] /\ enabled' = enabled \ {m}
         ELSE UNCHANGED <<disk, enabled>>
  BY ZenonT(60), SMTT(20) DEF MoveInstall
<1>3. cli' \in Cli /\ cli'.pc \in {"move", "undo"} /\ faults' \in 0 .. MaxFaults
  <2>1. CASE failed
    BY <1>1, <2>1, AtFacts, FaultType DEF MoveInstall, Goto, Step
  <2>2. CASE ~failed
    <3>1. cli' = [cli EXCEPT !.todo = cli.todo \ {m}] /\ faults' = faults
      BY <2>2 DEF MoveInstall, NoFault
    <3>2. cli' \in Cli /\ cli'.pc = "move"
      BY <1>1, <3>1, TodoFacts
    <3> QED BY <1>1, <3>1, <3>2 DEF TypeOK
  <2> QED BY <2>1, <2>2
<1>4. Pending
  BY <1>1 DEF EngineStep
<1>5. disk[m] # 0 => m \notin enabled
  BY <1>1, <1>4, ZenonT(60), SMTT(20) DEF ServedInv
<1>6. /\ disk' \in [Model -> Rev] /\ \A x \in Model : x # m => disk'[x] = disk[x]
      /\ enabled' \in {enabled, enabled \ {m}} /\ (disk'[m] # 0 => m \notin enabled')
  BY <1>1, <1>2, <1>5
<1>7. /\ parked' \in [Model -> Rev] /\ cli'.pc \in {"move", "half", "undo", "restore", "uninstall"}
      /\ cli.pc \in {"move", "half", "restore", "uninstall"}
  BY <1>1, <1>2, <1>3 DEF TypeOK
<1> QED BY <1>1, <1>2, <1>3, <1>6, <1>7, MoveStep, ZenonT(60), SMTT(20)

LEMMA MoveParkServes ==
    ASSUME EngineInv, NEW m \in cli.todo, NEW failed \in BOOLEAN, MovePark(m, failed) PROVE EngineInv'
<1>1. /\ cli \in Cli /\ cli.pc = "move" /\ m \in record.replace /\ m \in Model
      /\ disk \in [Model -> Rev] /\ parked \in [Model -> Rev] /\ 0 \in Rev /\ TypeOK
  BY SwapAssumption DEF EngineInv, TypeOK, Cli, MovePark, Rev
<1>2. UNCHANGED <<record, enabled, engine, reqs, before, stray, offer, runs>>
  BY ZenonT(60), SMTT(20) DEF MovePark
<1>3. /\ cli' \in Cli /\ faults' \in 0 .. MaxFaults /\ cli'.pc \in {"half", "undo"}
      /\ \/ disk' = disk /\ parked' = parked
         \/ parked' = [parked EXCEPT ![m] = disk[m]] /\ disk' = [disk EXCEPT ![m] = 0]
  <2>1. CASE parked[m] # 0 \/ failed
    BY <1>1, <2>1, AtFacts, FaultType DEF MovePark, Goto, NoFault, Step, TypeOK
  <2>2. CASE parked[m] = 0 /\ ~failed
    BY <1>1, <2>2, AtFacts DEF MovePark, Goto, NoFault, Step, TypeOK
  <2> QED BY <2>1, <2>2
<1>4. /\ disk' \in [Model -> Rev] /\ parked' \in [Model -> Rev]
      /\ \A x \in Model : x # m => disk'[x] = disk[x]
  BY <1>1, <1>3
<1>5. /\ cli'.pc \in {"move", "half", "undo", "restore", "uninstall"}
      /\ cli.pc \in {"move", "half", "restore", "uninstall"}
  BY <1>1, <1>3
<1> QED BY <1>1, <1>2, <1>3, <1>4, <1>5, MoveStep, ZenonT(60), SMTT(20)

LEMMA MoveLandServes ==
    ASSUME EngineInv, NEW m \in cli.todo, NEW outcome \in {"landed", "back", "lost"}, NEW failed \in BOOLEAN,
           MoveLand(m, outcome, failed)
    PROVE  EngineInv'
<1>1. /\ cli \in Cli /\ cli.pc = "half" /\ m \in record.replace /\ m \in Model
      /\ cli.new \in [Model -> Rev] /\ cli.todo \in SUBSET Model
      /\ disk \in [Model -> Rev] /\ parked \in [Model -> Rev] /\ 0 \in Rev /\ TypeOK
  <2>1. /\ cli \in Cli /\ disk \in [Model -> Rev] /\ parked \in [Model -> Rev] /\ TypeOK
        /\ cli.pc = "half" /\ m \in record.replace
    BY ZenonT(60), SMTT(20) DEF EngineInv, TypeOK, MoveLand
  <2>2. cli.new \in [Model -> Rev] /\ cli.todo \in SUBSET Model
    BY <2>1 DEF Cli
  <2>3. 0 \in Rev
    BY SwapAssumption DEF Rev
  <2> QED BY <2>1, <2>2, <2>3, ZenonT(60), SMTT(20)
<1>2. /\ UNCHANGED <<record, enabled, engine, reqs, before, stray, offer, runs>>
      /\ disk' = [disk EXCEPT ![m] = CASE outcome = "landed" -> cli.new[m]
                                       [] outcome = "back" -> parked[m]
                                       [] outcome = "lost" -> 0]
      /\ parked' = IF outcome = "back" THEN [parked EXCEPT ![m] = 0] ELSE parked
  BY ZenonT(60), SMTT(20) DEF MoveLand
<1>3. cli' \in Cli /\ cli'.pc \in {"move", "undo"} /\ faults' \in 0 .. MaxFaults
  <2>1. CASE failed
    BY <1>1, <2>1, AtFacts, FaultType DEF MoveLand, Goto, Step
  <2>2. CASE ~failed
    <3>1. cli' = [cli EXCEPT !.pc = "move", !.todo = cli.todo \ {m}] /\ faults' = faults
      BY <2>2 DEF MoveLand, NoFault
    <3>2. cli' = [pc |-> "move", ok |-> cli.ok, bad |-> cli.bad, after |-> cli.after,
                  new |-> cli.new, todo |-> cli.todo \ {m}, load |-> cli.load]
      BY <1>1, <3>1, ZenonT(60), SMTT(20) DEF Cli
    <3>3. cli' \in Cli /\ cli'.pc = "move"
      BY <1>1, <3>2 DEF Cli, Step
    <3> QED BY <1>1, <3>1, <3>3 DEF TypeOK
  <2> QED BY <2>1, <2>2
<1>4. disk' \in [Model -> Rev] /\ \A x \in Model : x # m => disk'[x] = disk[x]
  BY <1>1, <1>2
<1>5. parked' \in [Model -> Rev]
  BY <1>1, <1>2
<1>6. /\ cli'.pc \in {"move", "half", "undo", "restore", "uninstall"}
      /\ cli.pc \in {"move", "half", "restore", "uninstall"}
  BY <1>1, <1>3
<1> QED BY <1>1, <1>2, <1>3, <1>4, <1>5, <1>6, MoveStep, ZenonT(60), SMTT(20)

LEMMA RestoreServes ==
    ASSUME EngineInv, NEW m \in ToRestore,
           RestoreRetire(m) \/ \E failed \in BOOLEAN : RestorePut(m, failed)
    PROVE  EngineInv'
<1>1. /\ UNCHANGED <<record, enabled, engine, reqs, before, stray, offer, runs>> /\ cli.pc = "restore"
      /\ disk' \in {[disk EXCEPT ![m] = 0], [disk EXCEPT ![m] = parked[m]]}
      /\ parked' \in {parked, [parked EXCEPT ![m] = 0]}
      /\ (cli' = cli /\ faults' = faults) \/ \E failed \in BOOLEAN : Problem(m, failed)
  BY ZenonT(60), SMTT(20) DEF RestoreRetire, RestorePut, NoFault
<1>2. disk \in [Model -> Rev] /\ parked \in [Model -> Rev] /\ TypeOK /\ cli \in Cli
  BY ZenonT(60), SMTT(20) DEF EngineInv, TypeOK
<1>3. m \in record.replace /\ m \in Model /\ 0 \in Rev
  BY <1>2, SwapAssumption DEF TypeOK, Record, ToRestore, Rev
<1>4. cli' \in Cli /\ cli'.pc = "restore" /\ faults' \in 0 .. MaxFaults
  <2>1. CASE cli' = cli /\ faults' = faults
    BY <1>1, <1>2, <2>1, ZenonT(60), SMTT(20) DEF TypeOK
  <2>2. CASE \E failed \in BOOLEAN : Problem(m, failed)
    <3>1. PICK failed \in BOOLEAN : Problem(m, failed)
      BY <2>2, ZenonT(60), SMTT(20)
    <3> QED BY <1>1, <1>2, <1>3, <3>1, ProblemFacts, ZenonT(60), SMTT(20)
  <2> QED BY <1>1, <2>1, <2>2, ZenonT(60), SMTT(20)
<1>5. /\ disk' \in [Model -> Rev] /\ parked' \in [Model -> Rev]
      /\ \A x \in Model : x # m => disk'[x] = disk[x]
  BY <1>1, <1>2, <1>3
<1>6. /\ cli'.pc \in {"move", "half", "undo", "restore", "uninstall"}
      /\ cli.pc \in {"move", "half", "restore", "uninstall"}
  BY <1>1, <1>4
<1> QED BY <1>1, <1>3, <1>4, <1>5, <1>6, MoveStep, ZenonT(60), SMTT(20)

LEMMA UninstallServes ==
    ASSUME EngineInv, NEW m \in ToUninstall, NEW failed \in BOOLEAN, Uninstall(m, failed) PROVE EngineInv'
<1>1. /\ UNCHANGED <<parked, record, enabled, engine, reqs, before, stray, offer, runs>> /\ cli.pc = "uninstall"
      /\ disk' = [disk EXCEPT ![m] = 0] /\ Problem(m, failed)
  BY ZenonT(60), SMTT(20) DEF Uninstall
<1>2. disk \in [Model -> Rev] /\ parked' \in [Model -> Rev] /\ TypeOK
  BY <1>1, ZenonT(60), SMTT(20) DEF EngineInv, TypeOK
<1>3. m \in record.install /\ m \in Model /\ 0 \in Rev
  BY <1>2, SwapAssumption DEF TypeOK, Record, ToUninstall, Rev
<1>4. cli' \in Cli /\ cli'.pc = "uninstall" /\ faults' \in 0 .. MaxFaults
  BY <1>1, <1>2, <1>3, ProblemFacts, ZenonT(60), SMTT(20)
<1>5. disk' \in [Model -> Rev] /\ disk'[m] = 0 /\ \A x \in Model : x # m => disk'[x] = disk[x]
  BY <1>1, <1>2, <1>3
<1>6. /\ cli'.pc \in {"move", "half", "undo", "restore", "uninstall"}
      /\ cli.pc \in {"move", "half", "restore", "uninstall"}
  BY <1>1, <1>4
<1> QED BY <1>1, <1>2, <1>3, <1>4, <1>5, <1>6, MoveStep, ZenonT(60), SMTT(20)

LEMMA RemoveParkedServes == ASSUME EngineInv, NEW m \in Parked, RemoveParked(m) PROVE EngineInv'
<1>1. /\ SameServed /\ UNCHANGED <<reqs, cli, before, stray, offer, runs, faults>> /\ cli.pc \in {"discard", "clear"}
      /\ parked' = [parked EXCEPT ![m] = 0] /\ TypeOK /\ ServedInv /\ EngineStep(cli.pc)
  BY ZenonT(60), SMTT(20) DEF EngineInv, RemoveParked, NoFault, SameServed
<1>2. parked' \in [Model -> Rev]
  BY <1>1, SwapAssumption DEF TypeOK, Parked, Rev
<1>3. TypeOK'
  BY <1>1, <1>2, ZenonT(60), SMTT(20) DEF TypeOK, SameServed
<1>4. ServedInv' /\ EngineStep(cli.pc)'
  BY <1>1, SameFacts, ZenonT(60), SMTT(20)
<1>5. cli.pc # "wait" /\ cli'.pc \notin {"wait", "rm"}
  BY <1>1
<1> QED BY <1>1, <1>3, <1>4, <1>5, OwnStep, ZenonT(60), SMTT(20)

\* The record goes, and what is left of the batch serves its models.
LEMMA RemoveRecordServes == ASSUME EngineInv, RemoveRecord PROVE EngineInv'
<1>1. /\ UNCHANGED <<disk, parked, enabled, engine, reqs, cli, before, stray, offer, runs, faults>>
      /\ record' = NoRecord /\ cli.pc \in {"discard", "clear"} /\ TypeOK /\ ServedInv /\ EngineStep(cli.pc)
  BY ZenonT(60), SMTT(20) DEF EngineInv, RemoveRecord, NoFault
<1>2. NoRecord \in Record /\ NoRecord.phase = "none"
  BY DEF Record, NoRecord
<1>3. ~Pending'
  BY <1>1, <1>2 DEF Pending
<1>4. \A m \in Model : Fresh(m)
  <2>1. CASE cli.pc = "clear"
    BY <1>1, <2>1, ZenonT(60), SMTT(20) DEF EngineStep
  <2>2. CASE cli.pc = "discard"
    BY <1>1, <2>2, ZenonT(60), SMTT(20) DEF EngineStep, ServedInv
  <2> QED BY <1>1, <2>1, <2>2
<1>5. \A m \in Model : Fresh(m)'
  BY <1>1, <1>4 DEF Fresh
<1>6. ServedInv'
  BY <1>3, <1>5, ZenonT(60), SMTT(20) DEF ServedInv
<1>7. EngineStep(cli.pc)' /\ cli.pc # "wait" /\ cli'.pc \notin {"wait", "rm"}
  BY <1>1, <1>3, <1>5 DEF EngineStep
<1>8. TypeOK'
  BY <1>1, <1>2, ZenonT(60), SMTT(20) DEF TypeOK
<1> QED BY <1>1, <1>6, <1>7, <1>8, OwnStep, ZenonT(60), SMTT(20)

LEMMA ConfirmServes ==
    ASSUME EngineInv, NEW written \in BOOLEAN, NEW failed \in BOOLEAN, Confirm(written, failed)
    PROVE  EngineInv'
<1>1. /\ UNCHANGED <<disk, parked, enabled, engine, reqs, before, stray, offer, runs>> /\ cli.pc = "confirm"
      /\ record' = [record EXCEPT !.phase = IF written THEN "confirmed" ELSE record.phase]
      /\ cli \in Cli /\ record \in Record /\ TypeOK /\ ServedInv /\ EngineStep(cli.pc)
  BY ZenonT(60), SMTT(20) DEF EngineInv, TypeOK, Confirm
<1>2. /\ cli' \in Cli /\ faults' \in 0 .. MaxFaults
      /\ IF failed THEN cli'.pc = "idle" ELSE written /\ cli'.pc = "discard"
  <2>1. CASE failed
    <3>1. cli' = Idle /\ Fault("move")
      BY <2>1, ZenonT(60), SMTT(20) DEF Confirm
    <3> QED BY <1>1, <2>1, <3>1, IdleFacts, FaultType, ZenonT(60), SMTT(20)
  <2>2. CASE ~failed
    <3>1. cli' = [cli EXCEPT !.pc = "discard", !.after = "idle"] /\ faults' = faults /\ written
      BY <2>2 DEF Confirm, NoFault
    <3>2. cli' = [pc |-> "discard", ok |-> cli.ok, bad |-> cli.bad, after |-> "idle",
                  new |-> cli.new, todo |-> cli.todo, load |-> cli.load]
      BY <1>1, <3>1, ZenonT(60), SMTT(20) DEF Cli
    <3>3. cli' \in Cli /\ cli'.pc = "discard"
      BY <1>1, <3>2 DEF Cli, Step
    <3> QED BY <1>1, <2>2, <3>1, <3>3 DEF TypeOK
  <2> QED BY <2>1, <2>2, ZenonT(60), SMTT(20)
<1>3. record' \in Record /\ IF written THEN ~Pending' ELSE record' = record
  <2>1. CASE written
    <3>1. record' = [phase |-> "confirmed", replace |-> record.replace, install |-> record.install,
                     reload |-> record.reload]
      BY <1>1, <2>1 DEF Record
    <3> QED BY <1>1, <2>1, <3>1 DEF Record, Pending
  <2>2. CASE ~written
    <3>1. record' = [record EXCEPT !.phase = record.phase]
      BY <1>1, <2>2
    <3>2. record' = record
      BY <1>1, <3>1 DEF Record
    <3> QED BY <1>1, <2>2, <3>2, ZenonT(60), SMTT(20)
  <2> QED BY <2>1, <2>2, ZenonT(60), SMTT(20)
<1>4. TypeOK'
  BY <1>1, <1>2, <1>3, ZenonT(60), SMTT(20) DEF TypeOK
<1>5. \A m \in Model : Fresh(m)'
  <2>1. \A m \in Model : Fresh(m)
    BY <1>1, ZenonT(60), SMTT(20) DEF EngineStep
  <2> QED BY <1>1, <2>1 DEF Fresh
<1>6. ServedInv'
  <2>1. CASE written
    BY <1>3, <1>5, <2>1, ZenonT(60), SMTT(20) DEF ServedInv
  <2>2. CASE ~written
    <3>1. SameServed
      BY <1>1, <1>3, <2>2, ZenonT(60), SMTT(20) DEF SameServed
    <3> QED BY <1>1, <3>1, SameFacts, ZenonT(60), SMTT(20)
  <2> QED BY <2>1, <2>2, ZenonT(60), SMTT(20)
<1>7. EngineStep(cli.pc)' /\ cli.pc # "wait" /\ cli'.pc \notin {"wait", "rm"}
  BY <1>1, <1>2, <1>3 DEF EngineStep
<1> QED BY <1>1, <1>4, <1>6, <1>7, OwnStep, ZenonT(60), SMTT(20)

\* Without a batch, switches change nothing that is served.
LEMMA SwitchStep ==
    ASSUME EngineInv, cli.pc \in {"plan", "off", "on"},
           UNCHANGED <<disk, parked, record, engine, reqs, before, stray, offer>>, enabled' \subseteq Model,
           cli' \in Cli, cli'.pc \in {"idle", "off", "on"},
           runs' \in 0 .. MaxRuns, faults' \in 0 .. MaxFaults
    PROVE  EngineInv'
<1>1. TypeOK /\ ServedInv /\ EngineStep(cli.pc)
  BY ZenonT(60), SMTT(20) DEF EngineInv
<1>2. ~Pending /\ ~Pending'
  BY <1>1 DEF EngineStep, Pending
<1>3. \A m \in Model : Fresh(m)
  BY <1>1, <1>2, ZenonT(60), SMTT(20) DEF ServedInv
<1>4. \A m \in Model : Fresh(m)'
  BY <1>3 DEF Fresh
<1>5. ServedInv'
  BY <1>2, <1>4, ZenonT(60), SMTT(20) DEF ServedInv
<1>6. EngineStep(cli.pc)' /\ cli.pc # "wait" /\ cli'.pc \notin {"wait", "rm"}
  BY <1>2 DEF EngineStep
<1>7. TypeOK'
  BY <1>1, ZenonT(60), SMTT(20) DEF TypeOK
<1> QED BY <1>5, <1>6, <1>7, OwnStep, ZenonT(60), SMTT(20)

LEMMA DisableServes ==
    ASSUME EngineInv, NEW m \in cli.todo, NEW failed \in BOOLEAN, Disable(m, failed) PROVE EngineInv'
<1>1. /\ UNCHANGED <<disk, parked, record, engine, reqs, before, stray, offer, runs>> /\ cli.pc = "off"
      /\ cli \in Cli /\ TypeOK /\ cli.todo \in SUBSET Model
  BY DEF EngineInv, TypeOK, Cli, Disable
<1>2. cli' \in Cli /\ cli'.pc \in {"idle", "off"}
  <2>1. CASE cli.todo = {m}
    BY <2>1, IdleFacts DEF Disable
  <2>2. CASE cli.todo # {m}
    <3>1. cli' = [cli EXCEPT !.todo = cli.todo \ {m}]
      BY <2>2 DEF Disable
    <3> QED BY <1>1, <3>1, TodoFacts
  <2> QED BY <2>1, <2>2
<1>3. faults' \in 0 .. MaxFaults /\ enabled' \subseteq Model /\ runs' \in 0 .. MaxRuns
  BY <1>1, FaultType DEF TypeOK, Disable, NoFault
<1>4. cli.pc \in {"plan", "off", "on"} /\ cli'.pc \in {"idle", "off", "on"}
  BY <1>1, <1>2
<1> QED BY <1>1, <1>2, <1>3, <1>4, SwitchStep, ZenonT(60), SMTT(20)

LEMMA EnableServes ==
    ASSUME EngineInv, NEW m \in cli.todo, NEW failed \in BOOLEAN, Enable(m, failed) PROVE EngineInv'
<1>1. /\ UNCHANGED <<disk, parked, record, engine, reqs, before, stray, offer, runs>> /\ cli.pc = "on"
      /\ cli \in Cli /\ TypeOK /\ cli.todo \in SUBSET Model /\ m \in Model
  BY DEF EngineInv, TypeOK, Cli, Enable
<1>2. cli' \in Cli /\ cli'.pc \in {"idle", "on"}
  <2>1. CASE failed
    BY <1>1, <2>1, AtFacts DEF Enable, Goto, Step
  <2>2. CASE ~failed
    <3>1. cli' = [cli EXCEPT !.todo = cli.todo \ {m}]
      BY <2>2 DEF Enable
    <3> QED BY <1>1, <3>1, TodoFacts
  <2> QED BY <2>1, <2>2
<1>3. faults' \in 0 .. MaxFaults /\ enabled' \subseteq Model /\ runs' \in 0 .. MaxRuns
  BY <1>1, FaultType DEF TypeOK, Enable, NoFault
<1>4. cli.pc \in {"plan", "off", "on"} /\ cli'.pc \in {"idle", "off", "on"}
  BY <1>1, <1>2
<1> QED BY <1>1, <1>2, <1>3, <1>4, SwitchStep, ZenonT(60), SMTT(20)

LEMMA ActivateServes == ASSUME EngineInv, NEW S \in SUBSET Installed, Activate(S) PROVE EngineInv'
<1>1. /\ UNCHANGED <<files, engine, reqs, before, stray, offer>> /\ cli.pc = "plan" /\ cli \in Cli /\ TypeOK
      /\ runs < MaxRuns /\ runs' = runs + 1 /\ faults' = faults
  BY ZenonT(60), SMTT(20) DEF EngineInv, TypeOK, Activate, Begin, NoFault
<1>2. S \in SUBSET Model
  BY DEF Installed
<1>3. cli' \in Cli /\ cli'.pc = "on"
  BY <1>1, <1>2, ActivateTyped, ZenonT(60), SMTT(20)
<1>4. runs' \in 0 .. MaxRuns /\ faults' \in 0 .. MaxFaults /\ enabled' \subseteq Model
  BY <1>1, SwapAssumption DEF TypeOK, files
<1>5. UNCHANGED <<disk, parked, record, engine, reqs, before, stray, offer>>
  BY <1>1, ZenonT(60), SMTT(20) DEF files
<1>6. cli.pc \in {"plan", "off", "on"} /\ cli'.pc \in {"idle", "off", "on"}
  BY <1>1, <1>3
<1> QED BY <1>3, <1>4, <1>5, <1>6, SwitchStep, ZenonT(60), SMTT(20)

-----------------------------------------------------------------------------

\* A request that leaves the files alone.
LEMMA AskAlone ==
    ASSUME EngineInv, cli.pc # "wait", NEW c \in Cli, NEW op \in {"load", "unload"},
           NEW names \in SUBSET Model, NEW ok \in Step, NEW bad \in Step, Ask(c, op, names, ok, bad),
           UNCHANGED <<files, engine, before, stray, offer>>, runs' \in 0 .. MaxRuns, faults' \in 0 .. MaxFaults,
           Expects(ok, bad), Answers([op |-> op, names |-> names, live |-> TRUE], ok),
           names = {} => EngineStep(ok),
           ok = "rm" => op = "unload" /\ names # {} /\ c.todo \subseteq names
    PROVE  EngineInv'
<1>1. SameServed /\ UNCHANGED <<parked, before, stray, offer>>
  BY ZenonT(60), SMTT(20) DEF files, SameServed
<1>2. FilesTyped'
  BY <1>1, FilesKept, ZenonT(60), SMTT(20)
<1>3. ServedInv'
  BY <1>1, SameFacts, ZenonT(60), SMTT(20) DEF EngineInv
<1>4. Expects(ok, bad)' /\ Answers([op |-> op, names |-> names, live |-> TRUE], ok)'
      /\ (names = {} => EngineStep(ok)')
  BY <1>1, SameFacts, ZenonT(60), SMTT(20)
<1> QED BY <1>2, <1>3, <1>4, AskStep, ZenonT(60), SMTT(20)

\* With nothing to reload, everything is as on disk.
LEMMA NothingToReload ==
    ASSUME EngineInv, Pending, Silent, record.reload = {} PROVE \A m \in Model : Fresh(m)
<1>1. /\ record.reload = record.replace \intersect enabled
      /\ \A m \in record.install : engine[m] = 0
      /\ \A m \in Model \ Batch : Fresh(m)
  BY ZenonT(60), SMTT(20) DEF EngineInv, ServedInv
<1>2. \A m \in record.replace : engine[m] = 0
  BY <1>1, ZenonT(60), SMTT(20) DEF Silent
<1>3. \A m \in Batch : engine[m] = 0
  BY <1>1, <1>2, ZenonT(60), SMTT(20) DEF Batch
<1> QED BY <1>1, <1>3, ZenonT(60), SMTT(20) DEF Fresh

LEMMA UndoServes == ASSUME EngineInv, Undo PROVE EngineInv'
<1> DEFINE c == [cli EXCEPT !.todo = {}]
<1>1. /\ cli \in Cli /\ cli.pc = "undo" /\ TypeOK /\ EngineStep(cli.pc)
      /\ UNCHANGED <<files, engine, before, stray, offer>> /\ runs' = runs /\ faults' = faults
      /\ Ask(c, "unload", Batch, "restore", "idle")
  BY ZenonT(60), SMTT(20) DEF EngineInv, TypeOK, Undo, NoFault, Batch
<1>2. c \in Cli
  BY <1>1, TodoFacts
<1> HIDE DEF c
<1>3. Batch \in SUBSET Model /\ record.replace \subseteq Batch /\ {"restore", "idle"} \subseteq Step
  BY <1>1 DEF TypeOK, Record, Batch, Step
<1>4. Pending /\ cli.pc # "wait"
  BY <1>1 DEF EngineStep
<1>5. Expects("restore", "idle")
  BY <1>4 DEF Expects
<1>6. Answers([op |-> "unload", names |-> Batch, live |-> TRUE], "restore")
  BY <1>3 DEF Answers
<1>7. Batch = {} => EngineStep("restore")
  BY <1>3, <1>4 DEF EngineStep, Silent
<1>8. runs' \in 0 .. MaxRuns /\ faults' \in 0 .. MaxFaults
  BY <1>1, ZenonT(60), SMTT(20) DEF TypeOK
<1>9. "restore" \in Step /\ "idle" \in Step
  BY DEF Step
<1> QED BY <1>1, <1>2, <1>3, <1>4, <1>5, <1>6, <1>7, <1>8, <1>9, AskAlone, ZenonT(60), SMTT(20)

\* A batch is decided by the reload of what it replaced.
LEMMA ReloadServes ==
    ASSUME EngineInv, NEW ok \in {"confirm", "clear"}, NEW bad \in {"undo", "idle"},
           cli.pc \in {"move", "uninstall"}, Ask(cli, "load", record.reload, ok, bad),
           UNCHANGED <<files, engine, before, stray, offer, runs, faults>>
    PROVE  EngineInv'
<1>1. cli \in Cli /\ TypeOK /\ EngineStep(cli.pc)
  BY ZenonT(60), SMTT(20) DEF EngineInv, TypeOK
<1>2. Pending /\ Silent /\ cli.pc # "wait"
  BY <1>1 DEF EngineStep
<1>3. record.reload \in SUBSET Model /\ ok \in Step /\ bad \in Step
  BY <1>1 DEF TypeOK, Record, Step
<1>4. Expects(ok, bad)
  BY <1>2 DEF Expects
<1>5. Answers([op |-> "load", names |-> record.reload, live |-> TRUE], ok)
  BY DEF Answers
<1>6. record.reload = {} => EngineStep(ok)
  <2>1. record.reload = {} => \A m \in Model : Fresh(m)
    BY <1>2, NothingToReload, ZenonT(60), SMTT(20)
  <2> QED BY <1>2, <2>1 DEF EngineStep
<1>7. runs' \in 0 .. MaxRuns /\ faults' \in 0 .. MaxFaults
  BY <1>1, ZenonT(60), SMTT(20) DEF TypeOK
<1> QED BY <1>1, <1>2, <1>3, <1>4, <1>5, <1>6, <1>7, AskAlone, ZenonT(60), SMTT(20)

LEMMA LoadBatchServes == ASSUME EngineInv, LoadBatch PROVE EngineInv'
<1>1. /\ cli.pc \in {"move", "uninstall"} /\ Ask(cli, "load", record.reload, "confirm", "undo")
      /\ UNCHANGED <<files, engine, before, stray, offer, runs, faults>>
  BY ZenonT(60), SMTT(20) DEF LoadBatch, NoFault
<1> QED BY <1>1, ReloadServes, ZenonT(60), SMTT(20)

LEMMA UninstalledServes == ASSUME EngineInv, Uninstalled PROVE EngineInv'
<1>1. cli.pc = "uninstall" /\ UNCHANGED <<files, engine, before, stray, offer, runs, faults>> /\ cli \in Cli
  BY ZenonT(60), SMTT(20) DEF EngineInv, TypeOK, Uninstalled, NoFault
<1>2. CASE cli.todo = {}
  <2>1. Ask(cli, "load", record.reload, "clear", "idle") /\ cli.pc \in {"move", "uninstall"}
    BY <1>1, <1>2, ZenonT(60), SMTT(20) DEF Uninstalled
  <2> QED BY <1>1, <2>1, ReloadServes, ZenonT(60), SMTT(20)
<1>3. CASE cli.todo # {}
  <2>1. cli' = At(cli, "idle") /\ reqs' = reqs /\ "idle" \in Step
    BY <1>3 DEF Uninstalled, Goto, Step
  <2>2. cli' \in Cli /\ cli'.pc = "idle"
    BY <1>1, <2>1, AtFacts, ZenonT(60), SMTT(20)
  <2>3. EngineStep(cli'.pc) /\ cli'.pc \notin {"wait", "rm"} /\ cli.pc # "wait"
    BY <1>1, <2>2 DEF EngineStep
  <2>4. faults' \in 0 .. MaxFaults
    BY <1>1, ZenonT(60), SMTT(20) DEF EngineInv, TypeOK
  <2>5. UNCHANGED <<files, engine, reqs, before, stray, offer, runs>>
    BY <1>1, <2>1, ZenonT(60), SMTT(20)
  <2> QED BY <2>2, <2>3, <2>4, <2>5, AloneStep, ZenonT(60), SMTT(20)
<1> QED BY <1>2, <1>3, ZenonT(60), SMTT(20)

LEMMA DeactivateServes == ASSUME EngineInv, NEW S \in SUBSET Installed, Deactivate(S) PROVE EngineInv'
<1> DEFINE c == [cli EXCEPT !.todo = S]
<1>1. /\ cli \in Cli /\ cli.pc = "plan" /\ S # {} /\ TypeOK /\ EngineStep(cli.pc)
      /\ UNCHANGED <<files, engine, before, stray, offer>> /\ runs < MaxRuns /\ runs' = runs + 1 /\ faults' = faults
      /\ Ask(c, "unload", S, "off", "idle")
  BY ZenonT(60), SMTT(20) DEF EngineInv, TypeOK, Deactivate, Begin, NoFault
<1>2. S \in SUBSET Model /\ "off" \in Step /\ "idle" \in Step
  BY DEF Installed, Step
<1>3. c \in Cli
  BY <1>1, <1>2, TodoFacts
<1> HIDE DEF c
<1>4. Expects("off", "idle") /\ cli.pc # "wait"
  BY <1>1 DEF EngineStep, Expects
<1>5. Answers([op |-> "unload", names |-> S, live |-> TRUE], "off")
  BY DEF Answers
<1>6. runs' \in 0 .. MaxRuns /\ faults' \in 0 .. MaxFaults
  BY <1>1, SwapAssumption DEF TypeOK
<1> QED BY <1>1, <1>2, <1>3, <1>4, <1>5, <1>6, AskAlone, ZenonT(60), SMTT(20)

LEMMA RmServes == ASSUME EngineInv, NEW S \in SUBSET Installed, Rm(S) PROVE EngineInv'
<1> DEFINE c == [cli EXCEPT !.todo = S, !.new = disk]
<1>1. /\ cli \in Cli /\ cli.pc = "plan" /\ S # {} /\ TypeOK /\ EngineStep(cli.pc)
      /\ UNCHANGED <<files, engine, before, stray, offer>> /\ runs < MaxRuns /\ runs' = runs + 1
      /\ faults' = faults /\ Ask(c, "unload", S, "rm", "idle")
  BY ZenonT(60), SMTT(20) DEF EngineInv, TypeOK, Rm, Begin, NoFault
<1>2. S \in SUBSET Model /\ "rm" \in Step /\ "idle" \in Step /\ disk \in [Model -> Rev]
  BY <1>1 DEF Installed, Step, TypeOK
<1>3. c \in Cli /\ c.todo = S
  <2>1. c = [pc |-> cli.pc, ok |-> cli.ok, bad |-> cli.bad, after |-> cli.after,
             new |-> disk, todo |-> S, load |-> cli.load]
    BY <1>1, RmPlanned, ZenonT(60), SMTT(20)
  <2> QED BY <1>1, <1>2, <2>1 DEF Cli
<1> HIDE DEF c
<1>4. Expects("rm", "idle") /\ cli.pc # "wait"
  BY <1>1 DEF EngineStep, Expects
<1>5. Answers([op |-> "unload", names |-> S, live |-> TRUE], "rm")
  BY DEF Answers
<1>6. runs' \in 0 .. MaxRuns /\ faults' \in 0 .. MaxFaults
  BY <1>1, SwapAssumption DEF TypeOK
<1>7. c.todo \subseteq S
  BY <1>3
<1> QED BY <1>1, <1>2, <1>3, <1>4, <1>5, <1>6, <1>7, AskAlone, ZenonT(60), SMTT(20)

\* rm moves what is not resident.
LEMMA RmStep ==
    ASSUME EngineInv, cli.pc = "rm", disk' \in [Model -> Rev], \A m \in Model : engine[m] \in {0, disk'[m]},
           UNCHANGED <<parked, record, enabled, engine, reqs, before, stray, offer, runs>>,
           cli' \in Cli, faults' \in 0 .. MaxFaults,
           cli'.pc = "idle" \/ (cli'.pc = "rm" /\ cli'.todo \subseteq cli.todo)
    PROVE  EngineInv'
<1>1. TypeOK /\ reqs = <<>> /\ (\A m \in cli.todo : engine[m] = 0) /\ ~Pending
  BY DEF EngineInv, RmUnloaded, EngineStep
<1>2. ~Pending' /\ \A m \in Model : Fresh(m)'
  BY <1>1 DEF Pending, Fresh
<1>3. ServedInv'
  BY <1>2, ZenonT(60), SMTT(20) DEF ServedInv
<1>4. EngineStep(cli.pc)' /\ cli'.pc # "wait"
  BY <1>2 DEF EngineStep
<1>5. TypeOK'
  BY <1>1, ZenonT(60), SMTT(20) DEF TypeOK
<1>6. \A i \in 1 .. Len(reqs') : ~reqs'[i].live
  BY <1>1
<1>7. cli'.pc = "rm" => reqs' = <<>> /\ \A m \in cli'.todo : engine'[m] = 0
  BY <1>1
<1> QED BY <1>3, <1>4, <1>5, <1>6, <1>7, Unawaiting, ZenonT(60), SMTT(20)

\* During rm, what is resident is what is installed.
LEMMA RmResident ==
    ASSUME EngineInv, cli.pc = "rm"
    PROVE  (\A m \in Model : engine[m] \in {0, disk[m]}) /\ \A m \in cli.todo : engine[m] = 0
<1>1. ~Pending
  BY DEF EngineInv, EngineStep
<1> QED BY <1>1 DEF EngineInv, ServedInv, RmUnloaded, Fresh

LEMMA RmRetireServes == ASSUME EngineInv, NEW m \in cli.todo, RmRetire(m) PROVE EngineInv'
<1>1. /\ cli.pc = "rm" /\ disk' = [disk EXCEPT ![m] = 0] /\ TypeOK /\ cli \in Cli
      /\ cli' = IF cli.todo = {m} THEN Idle ELSE [cli EXCEPT !.todo = cli.todo \ {m}]
      /\ faults' = faults /\ UNCHANGED <<parked, record, enabled, engine, reqs, before, stray, offer, runs>>
  BY DEF EngineInv, TypeOK, RmRetire, NoFault
<1>2. disk \in [Model -> Rev] /\ 0 \in Rev /\ m \in Model /\ cli.todo \ {m} \in SUBSET Model
      /\ faults' \in 0 .. MaxFaults
  BY <1>1, SwapAssumption DEF TypeOK, Rev, Cli
<1>3. disk' \in [Model -> Rev] /\ \A x \in Model : engine[x] \in {0, disk'[x]}
  BY <1>1, <1>2, RmResident
<1>4. cli' \in Cli /\ (cli'.pc = "idle" \/ (cli'.pc = "rm" /\ cli'.todo \subseteq cli.todo))
  <2>1. CASE cli.todo = {m}
    BY <1>1, <2>1, IdleFacts
  <2>2. CASE cli.todo # {m}
    BY <1>1, <1>2, <2>2, TodoFacts DEF Cli
  <2> QED BY <2>1, <2>2
<1> QED BY <1>1, <1>2, <1>3, <1>4, RmStep, ZenonT(60), SMTT(20)

LEMMA RmFailsServes == ASSUME EngineInv, NEW back \in SUBSET Model, RmFails(back) PROVE EngineInv'
<1>1. /\ cli.pc = "rm" /\ Fault("move") /\ cli' = At(cli, "idle") /\ TypeOK /\ cli \in Cli
      /\ disk' = [m \in Model |-> IF m \in back THEN cli.new[m] ELSE disk[m]]
      /\ \A m \in back : disk[m] = 0
      /\ UNCHANGED <<parked, record, enabled, engine, reqs, before, stray, offer, runs>>
  BY DEF EngineInv, TypeOK, RmFails, Goto, Installed
<1>2. cli' \in Cli /\ cli'.pc = "idle" /\ faults' \in 0 .. MaxFaults
  BY <1>1, IdleFacts, FaultType DEF At
<1>3. disk \in [Model -> Rev] /\ cli.new \in [Model -> Rev]
  BY <1>1 DEF TypeOK, Cli
<1>4. disk' \in [Model -> Rev] /\ \A x \in Model : engine[x] \in {0, disk'[x]}
  BY <1>1, <1>3, RmResident
<1> QED BY <1>1, <1>2, <1>4, RmStep, ZenonT(60), SMTT(20)

LEMMA LoadEnabledServes == ASSUME EngineInv, LoadEnabled PROVE EngineInv'
<1>1. /\ cli \in Cli /\ cli.pc = "on" /\ Ask(cli, "load", cli.load, "idle", "idle") /\ TypeOK
      /\ UNCHANGED <<files, engine, before, stray, offer>> /\ runs' = runs /\ faults' = faults
  BY ZenonT(60), SMTT(20) DEF EngineInv, TypeOK, LoadEnabled, NoFault
<1>2. cli.load \in SUBSET Model /\ "idle" \in Step /\ cli.pc # "wait"
  BY <1>1 DEF Cli, Step
<1>3. Expects("idle", "idle") /\ Answers([op |-> "load", names |-> cli.load, live |-> TRUE], "idle")
      /\ EngineStep("idle")
  BY DEF Expects, Answers, EngineStep
<1>4. runs' \in 0 .. MaxRuns /\ faults' \in 0 .. MaxFaults
  BY <1>1, ZenonT(60), SMTT(20) DEF TypeOK
<1> QED BY <1>1, <1>2, <1>3, <1>4, AskAlone, ZenonT(60), SMTT(20)

LEMMA BeginSwapServes ==
    ASSUME EngineInv, NEW B \in SUBSET Model, NEW new \in [Model -> Rev], BeginSwap(B, new)
    PROVE  EngineInv'
<1> DEFINE c == [cli EXCEPT !.new = new, !.todo = B, !.after = "idle"]
<1>1. PICK names : names = B \intersect Installed
  BY ZenonT(60), SMTT(20)
<1>2. cli \in Cli /\ cli.pc = "plan" /\ runs < MaxRuns /\ record = NoRecord /\ TypeOK /\ ServedInv
  BY ZenonT(60), SMTT(20) DEF EngineInv, TypeOK, BeginSwap
<1>3. c \in Cli
  <2>1. c = [pc |-> cli.pc, ok |-> cli.ok, bad |-> cli.bad, after |-> "idle",
             new |-> new, todo |-> B, load |-> cli.load]
    BY <1>2, Planned, ZenonT(60), SMTT(20)
  <2> QED BY <1>2, <2>1 DEF Cli
<1>4. Ask(c, "unload", names, "move", "idle")
  BY <1>1, ZenonT(60), SMTT(20) DEF BeginSwap
<1> HIDE DEF c
<1>5. /\ record' = [phase |-> "swapping", replace |-> names, install |-> B \ Installed,
                    reload |-> names \intersect enabled]
      /\ before' = disk /\ stray' = parked /\ offer' = new /\ runs' = runs + 1
      /\ disk' = disk /\ parked' = parked /\ enabled' = enabled /\ engine' = engine /\ faults' = faults
  BY <1>1, ZenonT(60), SMTT(20) DEF BeginSwap, NoFault
<1>6. names \in SUBSET Model /\ \A m \in B \ Installed : m \in Model /\ disk[m] = 0 /\ m \notin names
  BY <1>1 DEF Installed
<1>7. /\ record' \in Record /\ Pending' /\ record'.replace = names /\ record'.install = B \ Installed
      /\ record'.reload = names \intersect enabled
  BY <1>5, <1>6 DEF Record, Pending
<1>8. runs' \in 0 .. MaxRuns
  BY <1>2, <1>5, SwapAssumption DEF TypeOK
<1>9. FilesTyped'
  BY <1>2, <1>5, <1>7, <1>8, ZenonT(60), SMTT(20) DEF TypeOK, FilesTyped
<1>10. \A m \in Model : Fresh(m)
  <2>1. ~Pending
    BY <1>2 DEF Pending, NoRecord
  <2> QED BY <1>2, <2>1, ZenonT(60), SMTT(20) DEF ServedInv
<1>11. \A m \in Model : Fresh(m)'
  BY <1>5, <1>10 DEF Fresh
<1>12. \A m \in B \ Installed : engine'[m] = 0 /\ disk'[m] = 0
  BY <1>5, <1>6, <1>10 DEF Fresh
<1>13. record'.replace \intersect record'.install = {}
  BY <1>6, <1>7
<1>14. ServedInv'
  BY <1>5, <1>7, <1>11, <1>12, <1>13, ZenonT(60), SMTT(20) DEF ServedInv
<1>15. Expects("move", "idle")'
  BY <1>7 DEF Expects
<1>16. Answers([op |-> "unload", names |-> names, live |-> TRUE], "move")'
  BY <1>7 DEF Answers
<1>17. names = {} => EngineStep("move")'
  BY <1>7 DEF EngineStep, Silent
<1>18. "move" \in Step /\ "idle" \in Step /\ cli.pc # "wait"
  BY <1>2 DEF Step
<1> QED BY <1>3, <1>4, <1>6, <1>9, <1>14, <1>15, <1>16, <1>17, <1>18, AskStep, ZenonT(60), SMTT(20)

-----------------------------------------------------------------------------

LEMMA InitServes == ASSUME Init PROVE EngineInv
<1>1. TypeOK
  BY InitInv, ZenonT(60), SMTT(20) DEF Inv
<1>2. cli.pc = "idle" /\ reqs = <<>> /\ ~Pending
  BY IdleFacts DEF Init, Pending, NoRecord
<1>3. \A m \in Model : Fresh(m)
  BY ZenonT(60), SMTT(20) DEF Init, Fresh
<1>4. ServedInv
  BY <1>2, <1>3, ZenonT(60), SMTT(20) DEF ServedInv
<1>5. EngineStep(cli.pc)
  BY <1>2 DEF EngineStep
<1>6. AwaitInv /\ RmUnloaded
  BY <1>2 DEF AwaitInv, RmUnloaded
<1> QED BY <1>1, <1>4, <1>5, <1>6, ZenonT(60), SMTT(20) DEF EngineInv

LEMMA NextServes == ASSUME NoRestartInRm, EngineInv, Next PROVE EngineInv'
<1>1. CASE Pull
  BY <1>1, BeginSwapServes, LoadBatchServes, MoveInstallServes, MoveParkServes, MoveLandServes, ConfirmServes, ZenonT(60), SMTT(20)
     DEF Pull
<1>2. CASE Rollback
  BY <1>2, UndoServes, RestoredServes, UninstalledServes, RestoreServes, GiveUpServes, UninstallServes, ZenonT(60), SMTT(20)
     DEF Rollback
<1>3. CASE Settle
  BY <1>3, LockServes, RecoverServes, RemoveRecordServes, RemovedServes, RemoveFailsServes, RemoveParkedServes, ZenonT(60), SMTT(20)
     DEF Settle
<1>4. CASE Other
  BY <1>4, QuitServes, LoadEnabledServes, RmServes, RmRetireServes, RmFailsServes, DeactivateServes,
     ActivateServes, DisableServes, EnableServes, ZenonT(60), SMTT(20) DEF Other
<1>5. CASE Engine
  BY <1>5, ServeServes, ZenonT(60), SMTT(20) DEF Engine
<1> QED BY <1>1, <1>2, <1>3, <1>4, <1>5, TimeoutServes, RestartServes, CrashServes, ZenonT(60), SMTT(20)
    DEF Next, Command

LEMMA StutterServes == ASSUME EngineInv, UNCHANGED vars PROVE EngineInv'
<1>1. SameServed /\ UNCHANGED <<parked, before, stray, offer, runs, faults, cli, reqs>>
  BY ZenonT(60), SMTT(20) DEF vars, SameServed
<1>2. TypeOK' /\ ServedInv' /\ EngineStep(cli.pc)'
  BY <1>1, SameFacts, ZenonT(60), SMTT(20) DEF EngineInv, TypeOK, SameServed
<1>3. AwaitInv'
  BY <1>1, SameFacts, ZenonT(60), SMTT(20) DEF EngineInv, AwaitInv
<1>4. RmUnloaded'
  BY <1>1 DEF EngineInv, RmUnloaded, SameServed
<1> QED BY <1>2, <1>3, <1>4, ZenonT(60), SMTT(20) DEF EngineInv

\* What the engine serves when no command runs and no batch is pending is
\* what is installed, whatever the model commands met: engine restarts,
\* requests served after their client had gone, failed loads, moves and
\* removals (quiesce, restore_and_prove, verify_outcomes).  Only an engine that
\* starts between rm's unload and its last rename may load what rm then moves.
THEOREM AlwaysServesDisk == ASSUME NoRestartInRm PROVE Spec => []EngineServesDisk
<1>1. Init => EngineInv
  BY InitServes
<1>2. EngineInv /\ [Next]_vars => EngineInv'
  BY NextServes, StutterServes
<1>3. EngineInv => EngineServesDisk
  BY ZenonT(60), SMTT(20) DEF EngineInv, ServedInv, Fresh, EngineServesDisk
<1> QED BY <1>1, <1>2, <1>3, PTL DEF Spec

=============================================================================
