----------------------------- MODULE ModelStore -----------------------------
(***************************************************************************)
(* What the model commands do to an engine root: a batch of models is      *)
(* installed or upgraded to newer revisions as a whole or not at all, and  *)
(* models are removed, never while a batch is undecided.                   *)
(*                                                                         *)
(* A superseded revision is kept until it is discarded, which may not      *)
(* happen.  A batch does not land over a kept copy: it is given up, and    *)
(* the copy takes the model's place.                                       *)
(***************************************************************************)
EXTENDS Naturals

CONSTANTS
    Model,   \* model names
    MaxRev   \* bound: published revisions

VARIABLES
    store,  \* the installed revision of each model; 0: none
    kept,   \* the superseded copy of each model; 0: none
    batch   \* the revisions an undecided batch brings; 0: not in it

Rev == 0 .. MaxRev

NoBatch == [m \in Model |-> 0]

Init == store \in [Model -> Rev] /\ kept \in [Model -> Rev] /\ batch = NoBatch

\* The models that the batch replaces, and those of them with a kept copy.
Replaced == {m \in Model : batch[m] # 0 /\ store[m] # 0}
Blocked == {m \in Replaced : kept[m] # 0}

\* Copies of S are gone, and maybe more of them.
Without(k, S) == {l \in [Model -> Rev] : \A m \in Model : l[m] = 0 \/ (m \notin S /\ l[m] = k[m])}

Begin(f) ==
    /\ batch = NoBatch /\ f # NoBatch
    /\ \A m \in Model : f[m] = 0 \/ f[m] > store[m]
    /\ batch' = f /\ UNCHANGED <<store, kept>>

Commit ==
    /\ batch # NoBatch /\ Blocked = {}
    /\ store' = [m \in Model |-> IF batch[m] # 0 THEN batch[m] ELSE store[m]]
    /\ kept' = [m \in Model |-> IF m \in Replaced THEN store[m] ELSE kept[m]]
    /\ batch' = NoBatch

Abort ==
    /\ batch # NoBatch
    /\ store' = [m \in Model |-> IF m \in Blocked THEN kept[m] ELSE store[m]]
    /\ kept' \in Without(kept, Blocked)
    /\ batch' = NoBatch

Remove(S) ==
    /\ batch = NoBatch
    /\ store' = [m \in Model |-> IF m \in S THEN 0 ELSE store[m]] /\ UNCHANGED <<kept, batch>>

Discard ==
    /\ batch = NoBatch
    /\ kept' \in Without(kept, {}) /\ UNCHANGED <<store, batch>>

Next ==
    \/ \E f \in [Model -> Rev] : Begin(f)
    \/ Commit \/ Abort \/ Discard
    \/ \E S \in SUBSET Model : Remove(S)

Spec == Init /\ [][Next]_<<store, kept, batch>>

=============================================================================
