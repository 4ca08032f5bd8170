-------------------------- MODULE MCModuleManager --------------------------
(* Instances of ModuleManager with one call and modules whose filters       *)
(* accept the request or the response, not both.                            *)
EXTENDS ModuleManager

CONSTANT c1

MCFilterConfigs == {[request |-> {c1}, response |-> {}],
                    [request |-> {}, response |-> {c1}]}
============================================================================
