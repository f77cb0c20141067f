----------------------------- MODULE MC_RegAlloc -----------------------------
(***************************************************************************)
(* Every liveness map of up to four virtual registers over four positions, *)
(* and fewer physical registers than virtual ones.                         *)
(***************************************************************************)
EXTENDS RegAlloc

MCPool == <<27, 28>>

MCPosition == 0 .. 3
=============================================================================
