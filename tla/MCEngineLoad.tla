--------------------------- MODULE MCEngineLoad ---------------------------
(* The instance of EngineLoad that TLC checks: a bridge over a converter   *)
(* over an embedding model.                                                *)
EXTENDS EngineLoad

CONSTANTS bridge, convert, embed

Chain ==
    [m \in {bridge, convert, embed} |->
        CASE m = bridge -> <<convert>> [] m = convert -> <<embed>> [] OTHER -> << >>]
=============================================================================
