--------------------------- MODULE MCControlPlane ---------------------------
(***************************************************************************)
(* Instances of the control plane for TLC.                                 *)
(***************************************************************************)
EXTENDS ControlPlane, TLC

\* Clients and session tokens are interchangeable.
Interchangeable == Permutations(LoginClients) \cup Permutations(SessionTokens)
=============================================================================
