------------------------- MODULE MCExecutionService -------------------------
(***************************************************************************)
(* Values for the constants of ExecutionService.                           *)
(***************************************************************************)
EXTENDS ExecutionService, TLC

CONSTANTS w1, w2, sbin, infy, k1, k2

Symmetry == Permutations(Workers)

Buy(s, q, k) == [symbol |-> s, side |-> "BUY", quantity |-> q, key |-> k]

OneRequest == {Buy(sbin, 1, k1)}
\* The same side of one symbol, twice.
TwoBuys == {Buy(sbin, 1, k1), Buy(sbin, 1, k2)}

Routed == {"submit", "update"}
AllOperations == {"submit", "update", "cancel", "modify"}

\* One word for each way an update may end an order, and for a fill.
FillWords == {"OPEN", "FILLED"}
EndWords == {"OPEN", "FILLED", "CANCELLED"}
LifeWords == {"OPEN", "PARTIALLY_FILLED", "FILLED", "CANCELLED"}
=============================================================================
