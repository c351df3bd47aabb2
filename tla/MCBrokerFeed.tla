---------------------------- MODULE MCBrokerFeed ----------------------------
(***************************************************************************)
(* Values for the constants of BrokerFeed.                                 *)
(***************************************************************************)
EXTENDS BrokerFeed, TLC

CONSTANTS w1, w2, sbin, k1

Symmetry == Permutations(Workers)

\* One order of two, which may be filled in parts.
TwoShares == {[symbol |-> sbin, side |-> "BUY", quantity |-> 2, key |-> k1]}
=============================================================================
