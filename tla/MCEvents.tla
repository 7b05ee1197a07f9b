------------------------------ MODULE MCEvents ------------------------------
(***************************************************************************)
(* Events with two hooks that nothing tells apart.                         *)
(***************************************************************************)
EXTENDS Events, TLC

Swaps == Permutations(Hooks)
=============================================================================
