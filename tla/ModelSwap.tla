------------------------------ MODULE ModelSwap ------------------------------
(***************************************************************************)
(* postvec model pull / upgrade / rm / activate / deactivate on an engine  *)
(* root: the recorded swap transaction, its rollback and its recovery by   *)
(* the next command, against an embedded engine that loads and unloads     *)
(* models on request.                                                      *)
(*                                                                         *)
(* One command at a time holds the root's exclusive lock; a command that   *)
(* dies releases it.  The engine serves requests in the order they reach   *)
(* its lifecycle mutex, and finishes a request whose client has gone.      *)
(***************************************************************************)
EXTENDS Naturals, Sequences

CONSTANTS
    Model,      \* model names
    MaxRev,     \* bound: published revisions
    Roots,      \* roots to begin with: what is installed, what is left parked
    Commands,   \* commands in use
    MaxRuns,    \* bound: commands that get past recovery
    Faults,     \* kinds of faults
    MaxFaults   \* bound: faults

Rev == 0 .. MaxRev

ASSUME SwapAssumption ==
    /\ MaxRev \in Nat /\ MaxRuns \in Nat /\ MaxFaults \in Nat
    /\ \A root \in Roots : root.disk \in [Model -> Rev] /\ root.parked \in [Model -> Rev]
    /\ Commands \subseteq {"pull", "rm", "activate", "deactivate"}
    /\ Faults \subseteq {"crash", "lost", "load", "move", "remove", "restart", "restart_rm"}

VARIABLES
    disk,     \* models/<backend>/<model>: the revision there; 0: none
    parked,   \* .swap/<backend>/<model>
    record,   \* .swap/txn.json
    enabled,  \* models whose descriptor, where they have one, says enabled
    engine,   \* revisions resident in the engine
    reqs,     \* requests the engine has not served
    cli,      \* the command that holds the lock
    before,   \* history: what was installed when the batch began
    stray,    \* history: what was left under .swap then
    offer,    \* history: the revisions it brings
    runs,     \* commands so far
    faults    \* faults so far

files == <<disk, parked, record, enabled>>
vars == <<disk, parked, record, enabled, engine, reqs, cli, before, stray, offer, runs, faults>>

Record == [phase: {"none", "swapping", "confirmed"},
           replace: SUBSET Model, install: SUBSET Model, reload: SUBSET Model]
NoRecord == [phase |-> "none", replace |-> {}, install |-> {}, reload |-> {}]

Request == [op: {"load", "unload"}, names: SUBSET Model, live: BOOLEAN]

\* ok, bad: where a reply leads; new: the staged revisions; todo: models left
\* in a loop, or given up in a rollback; load: what activate loads; after: what
\* follows a recovery.
Step == {"idle", "recover", "plan", "wait", "move", "half", "confirm", "discard",
         "undo", "restore", "uninstall", "clear", "rm", "off", "on"}
Cli == [pc: Step, ok: Step, bad: Step, after: {"plan", "idle"},
        new: [Model -> Rev], todo: SUBSET Model, load: SUBSET Model]

Idle == [pc |-> "idle", ok |-> "idle", bad |-> "idle", after |-> "idle",
         new |-> [m \in Model |-> 0], todo |-> {}, load |-> {}]

TypeOK ==
    /\ disk \in [Model -> Rev] /\ parked \in [Model -> Rev] /\ engine \in [Model -> Rev]
    /\ record \in Record /\ enabled \subseteq Model
    /\ reqs \in Seq(Request) /\ cli \in Cli
    /\ before \in [Model -> Rev] /\ stray \in [Model -> Rev] /\ offer \in [Model -> Rev]
    /\ runs \in 0 .. MaxRuns /\ faults \in 0 .. MaxFaults

Installed == {m \in Model : disk[m] # 0}

\* A started engine has loaded what is enabled.
Init ==
    /\ \E root \in Roots : disk = root.disk /\ parked = root.parked
    /\ enabled \in SUBSET Installed
    /\ record = NoRecord
    /\ engine = [m \in Model |-> IF m \in enabled THEN disk[m] ELSE 0]
    /\ reqs = <<>> /\ cli = Idle
    /\ before = disk /\ stray = parked /\ offer = [m \in Model |-> 0]
    /\ runs = 0 /\ faults = 0

-----------------------------------------------------------------------------

Fault(f) == f \in Faults /\ faults < MaxFaults /\ faults' = faults + 1

NoFault == UNCHANGED faults

\* The command c goes on at pc; at "idle" it is over and the lock released.
At(c, pc) == IF pc = "idle" THEN Idle ELSE [c EXCEPT !.pc = pc, !.ok = "idle", !.bad = "idle"]

Goto(pc) == cli' = At(cli, pc)

\* admin::load, admin::unload: the command c waits for the reply.  There is no
\* request for an empty set.
Ask(c, op, names, ok, bad) ==
    IF names = {} THEN cli' = At(c, ok) /\ UNCHANGED reqs
    ELSE /\ reqs' = Append(reqs, [op |-> op, names |-> names, live |-> TRUE])
         /\ cli' = [c EXCEPT !.pc = "wait", !.ok = ok, !.bad = bad]

Abandoned == [i \in DOMAIN reqs |-> [reqs[i] EXCEPT !.live = FALSE]]

\* The command's client gives up; the engine may still serve the request, if
\* it got there.
Timeout ==
    /\ cli.pc = "wait" /\ Fault("lost")
    /\ reqs' \in {Abandoned, SubSeq(reqs, 1, Len(reqs) - 1)}
    /\ Goto(cli.bad)
    /\ UNCHANGED <<disk, parked, record, enabled, engine, before, stray, offer, runs>>

\* The names a load makes resident: those that are enabled, on disk and not
\* resident yet, unless they fail to load.
Loadable(names) == {m \in names \intersect enabled \intersect Installed : engine[m] = 0}

\* Faulty: a name the engine already held counts as loaded.
VerifiedAny(op, names, loaded) ==
    op = "unload" \/ \A m \in names : m \in loaded \/ engine[m] # 0

\* verify_outcomes: every name unloaded, or every name freshly loaded.
Verified(op, names, loaded) == op = "unload" \/ loaded = names

\* admin_load, admin_unload under the lifecycle mutex.
Serve(loaded) ==
    /\ reqs # <<>>
    /\ LET r == Head(reqs)
       IN  /\ IF r.op = "load"
              THEN /\ loaded \subseteq Loadable(r.names)
                   /\ IF loaded = Loadable(r.names) THEN NoFault ELSE Fault("load")
              ELSE loaded = {} /\ NoFault
           /\ engine' = [m \in Model |-> IF m \in loaded THEN disk[m]
                                         ELSE IF r.op = "unload" /\ m \in r.names THEN 0
                                         ELSE engine[m]]
           /\ IF r.live
              THEN Goto(IF Verified(r.op, r.names, loaded) THEN cli.ok ELSE cli.bad)
              ELSE UNCHANGED cli
    /\ reqs' = Tail(reqs)
    /\ UNCHANGED <<disk, parked, record, enabled, before, stray, offer, runs>>

\* The engine is started anew: it scans the root, and its requests are gone.
\* Between rm's unload and its last rename this is a fault of its own kind.
Restart ==
    /\ Fault(IF cli.pc = "rm" THEN "restart_rm" ELSE "restart")
    /\ engine' = [m \in Model |-> IF m \in enabled THEN disk[m] ELSE 0]
    /\ reqs' = <<>>
    /\ IF cli.pc = "wait" THEN Goto(cli.bad) ELSE UNCHANGED cli
    /\ UNCHANGED <<disk, parked, record, enabled, before, stray, offer, runs>>

\* The command dies anywhere.
Crash ==
    /\ cli.pc # "idle" /\ Fault("crash")
    /\ cli' = Idle
    /\ reqs' = Abandoned
    /\ UNCHANGED <<disk, parked, record, enabled, engine, before, stray, offer, runs>>

-----------------------------------------------------------------------------
(***************************************************************************)
(* The lock, and recovery before anything else.                            *)
(***************************************************************************)

Lock ==
    /\ cli.pc = "idle"
    /\ Goto("recover")
    /\ NoFault /\ UNCHANGED <<files, engine, reqs, before, stray, offer, runs>>

\* recover_pending_swap: an unconfirmed batch is rolled back; whatever else is
\* under .swap goes.
Recover ==
    /\ cli.pc = "recover"
    /\ cli' = [cli EXCEPT !.pc = IF record.phase = "swapping" THEN "undo" ELSE "discard",
                          !.after = "plan"]
    /\ NoFault /\ UNCHANGED <<files, engine, reqs, before, stray, offer, runs>>

Parked == {m \in Model : parked[m] # 0}

\* remove_dir_all of .swap, an entry at a time, in any order.
RemoveParked(m) ==
    /\ cli.pc \in {"discard", "clear"} /\ m \in Parked
    /\ parked' = [parked EXCEPT ![m] = 0]
    /\ NoFault /\ UNCHANGED <<disk, record, enabled, engine, reqs, cli, before, stray, offer, runs>>

RemoveRecord ==
    /\ cli.pc \in {"discard", "clear"} /\ record # NoRecord
    /\ record' = NoRecord
    /\ NoFault /\ UNCHANGED <<disk, parked, enabled, engine, reqs, cli, before, stray, offer, runs>>

Removed ==
    /\ cli.pc \in {"discard", "clear"} /\ Parked = {} /\ record = NoRecord
    /\ Goto(cli.after)
    /\ NoFault /\ UNCHANGED <<files, engine, reqs, before, stray, offer, runs>>

\* An entry cannot be removed: discard_swap ignores it, clear_swap fails.
RemoveFails ==
    /\ cli.pc \in {"discard", "clear"} /\ (Parked # {} \/ record # NoRecord) /\ Fault("remove")
    /\ Goto(IF cli.pc = "discard" THEN cli.after ELSE "idle")
    /\ UNCHANGED <<files, engine, reqs, before, stray, offer, runs>>

-----------------------------------------------------------------------------
(***************************************************************************)
(* pull and upgrade: one batch.                                            *)
(***************************************************************************)

\* Faulty: a rollback reloads deactivated models too.
BeginSwapReloadsAll(B, new) ==
    /\ cli.pc = "plan" /\ "pull" \in Commands /\ runs < MaxRuns
    /\ B # {} /\ \A m \in Model : IF m \in B THEN new[m] > disk[m] ELSE new[m] = 0
    /\ record = NoRecord
    /\ record' = [phase |-> "swapping", replace |-> B \intersect Installed,
                  install |-> B \ Installed, reload |-> B \intersect Installed]
    /\ before' = disk /\ stray' = parked /\ offer' = new /\ runs' = runs + 1
    /\ Ask([cli EXCEPT !.new = new, !.todo = B, !.after = "idle"], "unload", B \intersect Installed, "move", "idle")
    /\ NoFault /\ UNCHANGED <<disk, parked, enabled, engine>>

\* begin_swap, which refuses while a record is there.  Fresh installs land
\* deactivated, replacements keep their switch.
BeginSwap(B, new) ==
    /\ cli.pc = "plan" /\ "pull" \in Commands /\ runs < MaxRuns
    /\ B # {} /\ \A m \in Model : IF m \in B THEN new[m] > disk[m] ELSE new[m] = 0
    /\ record = NoRecord
    /\ record' = [phase |-> "swapping", replace |-> B \intersect Installed,
                  install |-> B \ Installed, reload |-> B \intersect Installed \intersect enabled]
    /\ before' = disk /\ stray' = parked /\ offer' = new /\ runs' = runs + 1
    /\ Ask([cli EXCEPT !.new = new, !.todo = B, !.after = "idle"], "unload", B \intersect Installed, "move", "idle")
    /\ NoFault /\ UNCHANGED <<disk, parked, enabled, engine>>

\* install_staged.  A failed fsync reports an error for a model that landed.
MoveInstall(m, landed, failed) ==
    /\ cli.pc = "move" /\ m \in cli.todo \intersect record.install
    /\ IF failed THEN Fault("move") /\ Goto("undo")
       ELSE landed /\ NoFault /\ cli' = [cli EXCEPT !.todo = @ \ {m}]
    /\ IF landed THEN disk' = [disk EXCEPT ![m] = cli.new[m]] /\ enabled' = enabled \ {m}
       ELSE UNCHANGED <<disk, enabled>>
    /\ UNCHANGED <<parked, record, engine, reqs, before, stray, offer, runs>>

\* Faulty: the old directory is removed, not parked.
MoveParkRemoves(m, failed) ==
    /\ cli.pc = "move" /\ m \in cli.todo \intersect record.replace
    /\ IF failed THEN Fault("move") /\ Goto("undo") /\ UNCHANGED disk
       ELSE NoFault /\ Goto("half") /\ disk' = [disk EXCEPT ![m] = 0]
    /\ UNCHANGED <<parked, record, enabled, engine, reqs, before, stray, offer, runs>>

\* The first rename of swap_in.  It cannot replace a directory that is there.
MovePark(m, failed) ==
    /\ cli.pc = "move" /\ m \in cli.todo \intersect record.replace
    /\ IF parked[m] # 0 THEN ~failed /\ NoFault /\ Goto("undo") /\ UNCHANGED <<disk, parked>>
       ELSE IF failed THEN Fault("move") /\ Goto("undo") /\ UNCHANGED <<disk, parked>>
       ELSE /\ NoFault /\ Goto("half")
            /\ parked' = [parked EXCEPT ![m] = disk[m]]
            /\ disk' = [disk EXCEPT ![m] = 0]
    /\ UNCHANGED <<record, enabled, engine, reqs, before, stray, offer, runs>>

\* The second one.  If it fails the old copy is put back, which may fail too;
\* a failed fsync reports an error for a replacement that landed.
MoveLand(m, outcome, failed) ==
    /\ cli.pc = "half" /\ m \in cli.todo \intersect record.replace /\ disk[m] = 0
    /\ IF failed THEN Fault("move") /\ Goto("undo")
       ELSE outcome = "landed" /\ NoFault /\ cli' = [cli EXCEPT !.pc = "move", !.todo = @ \ {m}]
    /\ disk' = [disk EXCEPT ![m] = CASE outcome = "landed" -> cli.new[m]
                                      [] outcome = "back" -> parked[m]
                                      [] outcome = "lost" -> 0]
    /\ parked' = IF outcome = "back" THEN [parked EXCEPT ![m] = 0] ELSE parked
    /\ UNCHANGED <<record, enabled, engine, reqs, before, stray, offer, runs>>

\* The replacements that were enabled are loaded, and must be seen to load.
LoadBatch ==
    /\ cli.pc = "move" /\ cli.todo = {}
    /\ Ask(cli, "load", record.reload, "confirm", "undo")
    /\ NoFault /\ UNCHANGED <<files, engine, before, stray, offer, runs>>

\* confirm_swap.  The record may fail to be written, or be written and fail to
\* be synced.
Confirm(written, failed) ==
    /\ cli.pc = "confirm"
    /\ IF failed THEN Fault("move") /\ cli' = Idle
       ELSE written /\ NoFault /\ cli' = [cli EXCEPT !.pc = "discard", !.after = "idle"]
    /\ record' = [record EXCEPT !.phase = IF written THEN "confirmed" ELSE @]
    /\ UNCHANGED <<disk, parked, enabled, engine, reqs, before, stray, offer, runs>>

-----------------------------------------------------------------------------
(***************************************************************************)
(* Rollback: of this command's batch, or of one found on disk.             *)
(***************************************************************************)

\* quiesce: everything that may hold new bytes.  Without an answer the batch
\* stays recorded for the next command.
Undo ==
    /\ cli.pc = "undo"
    /\ Ask([cli EXCEPT !.todo = {}], "unload", record.replace \union record.install, "restore", "idle")
    /\ NoFault /\ UNCHANGED <<files, engine, before, stray, offer, runs>>

\* restore_swapped: models still parked, other than those given up.
ToRestore == {m \in record.replace : parked[m] # 0} \ cli.todo

\* Whatever is at the destination goes first.
RestoreRetire(m) ==
    /\ cli.pc = "restore" /\ m \in ToRestore /\ disk[m] # 0
    /\ disk' = [disk EXCEPT ![m] = 0]
    /\ NoFault /\ UNCHANGED <<parked, record, enabled, engine, reqs, cli, before, stray, offer, runs>>

\* A failure, before or after the rename, is a problem to report at the end.
Problem(m, failed) ==
    IF failed THEN Fault("move") /\ cli' = [cli EXCEPT !.todo = @ \union {m}]
    ELSE NoFault /\ UNCHANGED cli

RestorePut(m, failed) ==
    /\ cli.pc = "restore" /\ m \in ToRestore /\ disk[m] = 0
    /\ disk' = [disk EXCEPT ![m] = parked[m]]
    /\ parked' = [parked EXCEPT ![m] = 0]
    /\ Problem(m, failed)
    /\ UNCHANGED <<record, enabled, engine, reqs, before, stray, offer, runs>>

RestoreFails(m) ==
    /\ cli.pc = "restore" /\ m \in ToRestore
    /\ Problem(m, TRUE)
    /\ UNCHANGED <<files, engine, reqs, before, stray, offer, runs>>

\* Faulty: fresh installs stay.
RestoredOnly ==
    /\ cli.pc = "restore" /\ ToRestore = {}
    /\ IF cli.todo = {} THEN Ask(cli, "load", record.reload, "clear", "idle")
       ELSE Goto("idle") /\ UNCHANGED reqs
    /\ NoFault /\ UNCHANGED <<files, engine, before, stray, offer, runs>>

Restored ==
    /\ cli.pc = "restore" /\ ToRestore = {}
    /\ Goto(IF cli.todo = {} THEN "uninstall" ELSE "idle")
    /\ NoFault /\ UNCHANGED <<files, engine, reqs, before, stray, offer, runs>>

\* remove_recorded_installs.
ToUninstall == (record.install \intersect Installed) \ cli.todo

Uninstall(m, failed) ==
    /\ cli.pc = "uninstall" /\ m \in ToUninstall
    /\ disk' = [disk EXCEPT ![m] = 0]
    /\ Problem(m, failed)
    /\ UNCHANGED <<parked, record, enabled, engine, reqs, before, stray, offer, runs>>

UninstallFails(m) ==
    /\ cli.pc = "uninstall" /\ m \in ToUninstall
    /\ Problem(m, TRUE)
    /\ UNCHANGED <<files, engine, reqs, before, stray, offer, runs>>

\* The predecessors must be seen to load before the record goes.
Uninstalled ==
    /\ cli.pc = "uninstall" /\ ToUninstall = {}
    /\ IF cli.todo = {} THEN Ask(cli, "load", record.reload, "clear", "idle")
       ELSE Goto("idle") /\ UNCHANGED reqs
    /\ NoFault /\ UNCHANGED <<files, engine, before, stray, offer, runs>>

-----------------------------------------------------------------------------
(***************************************************************************)
(* The other commands.                                                     *)
(***************************************************************************)

\* A command of kind c begins.
Begin(c) == cli.pc = "plan" /\ c \in Commands /\ runs < MaxRuns /\ runs' = runs + 1

\* Nothing to do, or a refusal.
Quit ==
    /\ cli.pc = "plan"
    /\ cli' = Idle
    /\ NoFault /\ UNCHANGED <<files, engine, reqs, before, stray, offer, runs>>

\* rm: unload, then every directory into the trash.
Rm(S) ==
    /\ Begin("rm") /\ S # {} /\ S \subseteq Installed
    /\ Ask([cli EXCEPT !.todo = S, !.new = disk], "unload", S, "rm", "idle")
    /\ NoFault /\ UNCHANGED <<files, engine, before, stray, offer>>

RmRetire(m) ==
    /\ cli.pc = "rm" /\ m \in cli.todo
    /\ disk' = [disk EXCEPT ![m] = 0]
    /\ cli' = IF cli.todo = {m} THEN Idle ELSE [cli EXCEPT !.todo = @ \ {m}]
    /\ NoFault /\ UNCHANGED <<parked, record, enabled, engine, reqs, before, stray, offer, runs>>

\* One directory cannot be moved: those that were are put back, as far as that
\* works.
RmFails(back) ==
    /\ cli.pc = "rm" /\ Fault("move")
    /\ back \subseteq {m \in Model \ Installed : cli.new[m] # 0}
    /\ disk' = [m \in Model |-> IF m \in back THEN cli.new[m] ELSE disk[m]]
    /\ Goto("idle")
    /\ UNCHANGED <<parked, record, enabled, engine, reqs, before, stray, offer, runs>>

\* deactivate: unload, then the descriptors.
Deactivate(S) ==
    /\ Begin("deactivate") /\ S # {} /\ S \subseteq enabled \intersect Installed
    /\ Ask([cli EXCEPT !.todo = S], "unload", S, "off", "idle")
    /\ NoFault /\ UNCHANGED <<files, engine, before, stray, offer>>

\* A descriptor that cannot be written stays enabled.
Disable(m, failed) ==
    /\ cli.pc = "off" /\ m \in cli.todo
    /\ IF failed THEN Fault("move") /\ UNCHANGED enabled ELSE NoFault /\ enabled' = enabled \ {m}
    /\ cli' = IF cli.todo = {m} THEN Idle ELSE [cli EXCEPT !.todo = @ \ {m}]
    /\ UNCHANGED <<disk, parked, record, engine, reqs, before, stray, offer, runs>>

\* activate: the descriptors, then a load of what the engine did not hold.
Activate(S) ==
    /\ Begin("activate") /\ S # {} /\ S \subseteq Installed
    /\ cli' = [cli EXCEPT !.pc = "on", !.todo = S, !.load = {m \in S : engine[m] = 0}]
    /\ NoFault /\ UNCHANGED <<files, engine, reqs, before, stray, offer>>

\* The first descriptor that cannot be written ends the command.
Enable(m, failed) ==
    /\ cli.pc = "on" /\ m \in cli.todo
    /\ IF failed THEN Fault("move") /\ Goto("idle") /\ UNCHANGED enabled
       ELSE /\ NoFault /\ enabled' = enabled \union {m}
            /\ cli' = [cli EXCEPT !.todo = @ \ {m}]
    /\ UNCHANGED <<disk, parked, record, engine, reqs, before, stray, offer, runs>>

LoadEnabled ==
    /\ cli.pc = "on" /\ cli.todo = {}
    /\ Ask(cli, "load", cli.load, "idle", "idle")
    /\ NoFault /\ UNCHANGED <<files, engine, before, stray, offer, runs>>

-----------------------------------------------------------------------------

Pull ==
    \/ cli.pc = "plan" /\ \E B \in SUBSET Model, new \in [Model -> Rev] : BeginSwap(B, new)
    \/ LoadBatch
    \/ \E m \in cli.todo, failed \in BOOLEAN :
          \/ \E landed \in BOOLEAN : MoveInstall(m, landed, failed)
          \/ MovePark(m, failed)
          \/ \E outcome \in {"landed", "back", "lost"} : MoveLand(m, outcome, failed)
    \/ \E written, failed \in BOOLEAN : Confirm(written, failed)

Rollback ==
    \/ Undo \/ Restored \/ Uninstalled
    \/ \E m \in ToRestore :
          \/ RestoreRetire(m) \/ RestoreFails(m)
          \/ \E failed \in BOOLEAN : RestorePut(m, failed)
    \/ \E m \in ToUninstall :
          UninstallFails(m) \/ \E failed \in BOOLEAN : Uninstall(m, failed)

Settle ==
    \/ Lock \/ Recover \/ RemoveRecord \/ Removed \/ RemoveFails
    \/ \E m \in Parked : RemoveParked(m)

Other ==
    \/ Quit \/ LoadEnabled
    \/ cli.pc = "plan" /\ \E S \in SUBSET Installed : Rm(S) \/ Deactivate(S) \/ Activate(S)
    \/ \E back \in SUBSET Model : RmFails(back)
    \/ \E m \in cli.todo :
          \/ RmRetire(m)
          \/ \E failed \in BOOLEAN : Disable(m, failed) \/ Enable(m, failed)

Command == Pull \/ Rollback \/ Settle \/ Other

Engine == \E loaded \in SUBSET Model : Serve(loaded)

Next == Command \/ Engine \/ Timeout \/ Restart \/ Crash

Spec == Init /\ [][Next]_vars

\* Commands run to their end and operators run more of them; the engine's
\* lifecycle mutex is fair.
FairSpec == Spec /\ WF_vars(Command) /\ WF_vars(Engine)

-----------------------------------------------------------------------------
(***************************************************************************)
(* Properties.                                                             *)
(***************************************************************************)

Pending == record.phase = "swapping"

\* What a settled root will hold if the batch, or the removal, goes no further.
Authoritative ==
    [m \in Model |-> IF cli.pc = "rm" THEN cli.new[m]
                     ELSE IF Pending /\ m \in record.replace /\ parked[m] # 0 THEN parked[m]
                     ELSE IF Pending /\ m \in record.install THEN 0
                     ELSE disk[m]]

\* However a batch is interrupted, what was installed before it can be put
\* back (swap_in, restore_swapped, pending_swap): until it is confirmed, the
\* directory a recovery would end up with is the one from before the batch,
\* for each model but those it replaces over a copy that an earlier command
\* left parked, which end up with that copy.
Recoverable ==
    Pending => \A m \in Model :
        Authoritative[m] = IF m \in record.replace /\ stray[m] # 0 THEN stray[m] ELSE before[m]

\* A leftover directory under .swap is disk usage, never a correctness question
\* (discard_swap): a batch that is rolled back leaves what was installed.
LeftoverHarmless == [][Pending /\ record' = NoRecord => disk' = before]_vars

\* The engine is quiesced before directories move and reloaded after: when no
\* command runs and no batch is pending, no model is served from bytes that
\* are not the installed ones (quiesce, restore_and_prove, LOADED_FRESH).
EngineServesDisk ==
    cli.pc = "idle" /\ ~Pending => \A m \in Model : engine[m] \in {0, disk[m]}

\* A batch appears all at once, when its record is confirmed, or not at all:
\* recorded renames, rollback and recovery implement the atomic store, the
\* superseded copies it keeps included.
Store == INSTANCE ModelStore
             WITH store <- IF Pending THEN before ELSE IF cli.pc = "rm" THEN cli.new ELSE disk,
                  kept <- IF Pending THEN stray ELSE parked,
                  batch <- IF Pending THEN offer ELSE [m \in Model |-> 0]

StoreSpec == Store!Spec

\* An interrupted batch does not stay pending: rerun commands settle it.
RecoverySettles == Pending ~> ~Pending

=============================================================================
