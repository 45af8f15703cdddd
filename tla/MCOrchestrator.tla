--------------------------- MODULE MCOrchestrator ---------------------------
(***************************************************************************)
(* Instances of Orchestrator for TLC.                                      *)
(***************************************************************************)
EXTENDS Orchestrator, TLC

TwoOutcomes == {-1, 1}
Gains == {1}

TokenSymmetry == Permutations(Tokens)
ClientAndTokenSymmetry == TokenSymmetry \union Permutations(Clients)
=============================================================================
