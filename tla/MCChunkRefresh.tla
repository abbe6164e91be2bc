--------------------------- MODULE MCChunkRefresh ---------------------------
(***************************************************************************)
(* ChunkRefresh for TLC.                                                   *)
(***************************************************************************)
EXTENDS ChunkRefresh, TLC

\* Clients and keys are interchangeable where no liveness is checked.
Symmetry == Permutations(Client) \union Permutations(Key)

=============================================================================
