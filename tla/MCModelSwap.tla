----------------------------- MODULE MCModelSwap -----------------------------
(***************************************************************************)
(* An empty root, one with one or both models, and one where an upgrade of *)
(* a left its predecessor parked.                                          *)
(***************************************************************************)
EXTENDS ModelSwap

CONSTANTS a, b

Two(x, y) == [m \in Model |-> IF m = a THEN x ELSE y]

MCRoots ==
    {[disk |-> Two(0, 0), parked |-> Two(0, 0)],
     [disk |-> Two(1, 0), parked |-> Two(0, 0)],
     [disk |-> Two(1, 1), parked |-> Two(0, 0)],
     [disk |-> Two(2, 1), parked |-> Two(1, 0)]}

\* The same after upgrades whose predecessors were removed.
MCCleanRoots == {root \in MCRoots : \A m \in Model : root.parked[m] = 0}

=============================================================================
