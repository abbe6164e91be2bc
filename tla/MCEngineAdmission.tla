------------------------- MODULE MCEngineAdmission -------------------------
(* A prediction of a bridge over an embedding and a converting model, and  *)
(* one of the embedding model itself: every pool has one instance, so they *)
(* meet at the embedding model's, which can be unloaded and loaded again.  *)
EXTENDS EngineAdmission, TLC

CONSTANTS embed, convert, bridge, r1, r2

Plans == (r1 :> <<bridge, embed, convert>>) @@ (r2 :> <<embed>>)
Pools == [m \in Model |-> 1]
Loads == [m \in Model |-> IF m = embed THEN 1 ELSE 0]
=============================================================================
