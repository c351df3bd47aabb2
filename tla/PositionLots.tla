---------------------------- MODULE PositionLots ----------------------------
(***************************************************************************)
(* The position of one symbol, as PositionService keeps it                 *)
(* (services/execution_service/app/positions.py): a list of open lots, and *)
(* the profit realised so far.  A fill closes lots of the opposite side,   *)
(* oldest first; what is left of it becomes a new lot.                     *)
(*                                                                         *)
(* Prices are whole numbers here: the code's floats enter only sums and    *)
(* products, and no property is about their rounding.                      *)
(***************************************************************************)
EXTENDS Loops

Sides == {"BUY", "SELL"}
Opposite(side) == IF side = "BUY" THEN "SELL" ELSE "BUY"
Signed(side, quantity) == IF side = "BUY" THEN quantity ELSE -quantity
Lesser(a, b) == IF a < b THEN a ELSE b

\* Mutant: a short lot gains as a long one does.
MutantGain(entrySide, entryPrice, exitPrice) == exitPrice - entryPrice

\* What one unit gains between the entry and the exit of a lot.
Gain(entrySide, entryPrice, exitPrice) ==
  IF entrySide = "BUY" THEN exitPrice - entryPrice ELSE entryPrice - exitPrice

PositionLot(side, quantity, price) ==
  [side |-> side, quantity |-> quantity, price |-> price]

FlatPosition == [open_lots |-> <<>>, realized_pnl |-> 0]

\* Mutant: every lot is taken for one of the side.
MutantOfSide(lots, side) == lots

OfSide(lots, side) == Chosen(lots, {n \in DOMAIN lots : lots[n].side = side})

\* _normalize_lots.
NonEmpty(lots) == Chosen(lots, {n \in DOMAIN lots : lots[n].quantity > 0})

(***************************************************************************)
(* One turn of the first loop of _close_short_lots and _close_long_lots:   *)
(* acc is what the loop has so far, closing the side whose lots are        *)
(* matched.  A lot of the other side is kept.                              *)
(***************************************************************************)
MatchLot(acc, lot, closing, price) ==
  LET matched == Lesser(acc.remaining, lot.quantity)
      left    == lot.quantity - matched
  IN  IF acc.remaining = 0 \/ lot.side # closing
        THEN [acc EXCEPT !.lots = Append(@, lot)]
        ELSE [remaining |-> acc.remaining - matched,
              lots |-> IF left > 0
                         THEN Append(acc.lots, [lot EXCEPT !.quantity = left])
                         ELSE acc.lots,
              pnl |-> acc.pnl + matched * Gain(lot.side, lot.price, price)]

\* The first loop over the first n lots, all of them in the end.
MatchLots(position, side, quantity, price) ==
  LET upTo[n \in 0..Len(position.open_lots)] ==
        IF n = 0 THEN [remaining |-> quantity, lots |-> <<>>, pnl |-> position.realized_pnl]
        ELSE MatchLot(upTo[n - 1], position.open_lots[n], Opposite(side), price)
  IN  upTo[Len(position.open_lots)]

(***************************************************************************)
(* The whole of _close_*_lots.  The second loop of the code appends the    *)
(* lots of the fill's own side once more, although the first loop has kept *)
(* them already; _normalize_lots drops empty lots.                         *)
(***************************************************************************)
CloseLots(position, side, quantity, price) ==
  [MatchLots(position, side, quantity, price) EXCEPT
     !.lots = NonEmpty(@ \o OfSide(position.open_lots, side))]

\* Mutant: a fill that is used up still leaves a lot, of nothing.
MutantLeft(side, remaining, price) == <<PositionLot(side, remaining, price)>>

\* The lot a fill leaves.
Left(side, remaining, price) ==
  IF remaining > 0 THEN <<PositionLot(side, remaining, price)>> ELSE <<>>

\* PositionService.apply_fill.
ApplyFill(position, side, quantity, price) ==
  LET closed == CloseLots(position, side, quantity, price)
  IN  [open_lots |-> closed.lots \o Left(side, closed.remaining, price),
       realized_pnl |-> closed.pnl]

\* InMemoryPosition.net_quantity.
NetQuantity(lots) == Total([n \in DOMAIN lots |-> Signed(lots[n].side, lots[n].quantity)])
=============================================================================
