------------------------------ MODULE MCPlayer ------------------------------
(***************************************************************************)
(* Two banks with one instance each, so that one bank can load while the   *)
(* other one plays.  Offered cuts the commands the clients submit.         *)
(***************************************************************************)
EXTENDS Player, TLC

CONSTANTS i0, i1, Offered

MCInstances == {i0, i1}
MCBanks == {0, 1}
MCBankOf == i0 :> 0 @@ i1 :> 1

MCNext == Next /\ (submits' # submits => pending'[Len(pending')].op \in Offered)

MCSpec == Init /\ [][MCNext]_vars

MCFairSpec == MCSpec /\ Fairness
=============================================================================
