------------------------- MODULE MCInferenceServer -------------------------
(* Model-checking instances of InferenceServer. *)
EXTENDS InferenceServer, TLC

CONSTANTS openai

\* providers.d without a file, with a provider, and with that provider's model
\* made wider and its cap raised: one wide response fills the budget.
None   == << >>
Narrow == openai :> [cap |-> 1, dim |-> 1]
Wide   == openai :> [cap |-> 2, dim |-> 2]
Edits  == {None, Narrow, Wide}
Unconfigured == {None}

Chunks == openai :> 2
=============================================================================
