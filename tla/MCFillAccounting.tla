-------------------------- MODULE MCFillAccounting --------------------------
(***************************************************************************)
(* Values for the constants of FillAccounting.                             *)
(***************************************************************************)
EXTENDS FillAccounting, TLC

CONSTANTS w1, w2, sbin, infy

Symmetry == Permutations(Workers) \cup Permutations(Symbols)
=============================================================================
