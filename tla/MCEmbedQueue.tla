---------------------------- MODULE MCEmbedQueue ----------------------------
EXTENDS EmbedQueue, TLC

Symmetry == Permutations(Row) \union Permutations(Session) \union Permutations(JobId)

=============================================================================
