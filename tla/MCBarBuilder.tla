---------------------------- MODULE MCBarBuilder ----------------------------
(***************************************************************************)
(* Values for the constants of BarBuilder.                                 *)
(***************************************************************************)
EXTENDS BarBuilder, TLC

CONSTANTS b1, b2, g1, g2, sbin, reliance

Symmetry == Permutations(Builders)

\* Two feeds that disagree about the price.
Apart == [g \in Feeds |-> IF g = g1 THEN {1} ELSE {2}]

OneSymbol == <<sbin>>
TwoSymbols == <<sbin, reliance>>
=============================================================================
