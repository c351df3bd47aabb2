----------------------------- MODULE TradeLots -----------------------------
(***************************************************************************)
(* The trade ledger of one symbol (InMemoryTradeLedger in                  *)
(* services/execution_service/app/trades.py): open lots matched first in,  *)
(* first out against the fills of the other side, and a closed trade for   *)
(* every match.  The rank of a fill in the order of the calls stands for   *)
(* its time and for the order it belongs to.                               *)
(***************************************************************************)
EXTENDS PositionLots

EmptyLedger == [lots |-> <<>>, trades |-> <<>>]

\* Mutant: the lot opened has the whole quantity of the fill.
MutantOpenLot(fill, quantity) ==
  [side |-> fill.side, quantity |-> fill.quantity, price |-> fill.price,
   rank |-> fill.rank]

OpenLot(fill, quantity) ==
  [side |-> fill.side, quantity |-> quantity, price |-> fill.price,
   rank |-> fill.rank]

\* _compute_pnl and the construction of a Trade.
Trade(lot, fill, matched) ==
  [entry_side |-> lot.side, quantity |-> matched,
   entry_price |-> lot.price, exit_price |-> fill.price,
   entry |-> lot.rank, exit |-> fill.rank,
   realized_pnl |-> matched * Gain(lot.side, lot.price, fill.price)]

\* One turn of the loop over the symbol's lots.
Match(acc, lot, fill) ==
  LET matched == Lesser(acc.remaining, lot.quantity)
      left    == lot.quantity - matched
  IN  IF acc.remaining = 0 \/ lot.side # Opposite(fill.side)
        THEN [acc EXCEPT !.lots = Append(@, lot)]
        ELSE [remaining |-> acc.remaining - matched,
              lots |-> IF left > 0
                         THEN Append(acc.lots, [lot EXCEPT !.quantity = left])
                         ELSE acc.lots,
              trades |-> Append(acc.trades, Trade(lot, fill, matched))]

\* The loop over the first n lots, all of them in the end.
MatchedLots(ledger, fill) ==
  LET upTo[n \in 0..Len(ledger.lots)] ==
        IF n = 0 THEN [remaining |-> fill.quantity, lots |-> <<>>, trades |-> ledger.trades]
        ELSE Match(upTo[n - 1], ledger.lots[n], fill)
  IN  upTo[Len(ledger.lots)]

\* Mutant: a new lot comes before the older ones.
MutantApplyToLedger(ledger, fill) ==
  LET done == MatchedLots(ledger, fill)
  IN  [lots |-> IF done.remaining > 0
                  THEN <<OpenLot(fill, done.remaining)>> \o done.lots
                  ELSE done.lots,
       trades |-> done.trades]

\* InMemoryTradeLedger.apply_fill.
ApplyToLedger(ledger, fill) ==
  LET done == MatchedLots(ledger, fill)
  IN  [lots |-> IF done.remaining > 0
                  THEN Append(done.lots, OpenLot(fill, done.remaining))
                  ELSE done.lots,
       trades |-> done.trades]
=============================================================================
