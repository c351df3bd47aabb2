-------------------------- MODULE MCSignalPipeline --------------------------
(***************************************************************************)
(* Values for the constants of SignalPipeline.                             *)
(***************************************************************************)
EXTENDS SignalPipeline, TLC

CONSTANTS sbin, reliance, e1, e2, p1, p2

Symmetry == Permutations(Symbols) \cup Permutations(Engines) \cup Permutations(Placers)

\* A close below, at and above the longer average.
Leaning == [c \in Closes |-> <<c, 2>>]
=============================================================================
