------------------------------ MODULE MCFastIpc ------------------------------
(***************************************************************************)
(* FastIpc on small instances.                                             *)
(***************************************************************************)
EXTENDS FastIpc, TLC

\* Clients are told apart by nothing but their process IDs.
ClientsSymmetry == Permutations(Clients)
=============================================================================
