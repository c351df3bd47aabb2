-------------------------- MODULE MCPersistedOrders --------------------------
(***************************************************************************)
(* Values for the constants of PersistedOrders.                            *)
(***************************************************************************)
EXTENDS PersistedOrders, TLC

CONSTANTS w1, w2, sbin, k1, k2

Symmetry == Permutations(Workers)

Order(s, side, q, k) == [symbol |-> s, side |-> side, quantity |-> q, key |-> k]

\* A buy, and a sell that closes what the buy has opened.
RoundTrip == {Order(sbin, "BUY", 1, k1), Order(sbin, "SELL", 1, k2)}
=============================================================================
