--------------------------- MODULE ExecutionRisk ---------------------------
(***************************************************************************)
(* The guard a submission passes before it reaches the broker              *)
(* (services/execution_service/app/execution_risk.py).  net maps every     *)
(* symbol to the net quantity of its position, 0 where there is none.      *)
(***************************************************************************)
EXTENDS Integers, FiniteSets

CONSTANTS MaxOrderQuantity, MaxSymbolPositionQuantity, MaxOpenPositions

ASSUME LimitsAssumption ==
  {MaxOrderQuantity, MaxSymbolPositionQuantity, MaxOpenPositions} \subseteq Nat

Absolute(n) == IF n < 0 THEN -n ELSE n

Projected(net, symbol, signedQuantity) == net[symbol] + signedQuantity

OpenPositions(net) == {s \in DOMAIN net : net[s] # 0}

OpensNewPosition(net, symbol, signedQuantity) ==
  net[symbol] = 0 /\ Projected(net, symbol, signedQuantity) # 0

\* evaluate_order: whether an order for quantity (signedQuantity with the sign
\* of its side) is allowed.
RiskAllows(net, symbol, quantity, signedQuantity) ==
  /\ quantity > 0
  /\ quantity <= MaxOrderQuantity
  /\ Absolute(Projected(net, symbol, signedQuantity))
       <= MaxSymbolPositionQuantity
  /\ OpensNewPosition(net, symbol, signedQuantity) =>
       Cardinality(OpenPositions(net)) < MaxOpenPositions
=============================================================================
