--------------------------- MODULE FillAccounting ---------------------------
(***************************************************************************)
(* What fills do to the two books the execution service keeps of them, the *)
(* positions (PositionLots) and the trade ledger (TradeLots), and what the *)
(* portfolio and profit snapshots make of the positions (portfolio.py,     *)
(* pnl.py).  apply_broker_update books a fill to the positions and then to *)
(* the ledger, on the thread of its request.  apply_fill reads the open    *)
(* lots of the symbol, goes through them, assigns the list it has built    *)
(* and appends to it; the books of all symbols, and the list of trades,    *)
(* are shared by the threads.                                              *)
(***************************************************************************)
EXTENDS TradeLots, FiniteSets, Functions

CONSTANTS
  Workers,     \* the threads that book fills
  Symbols,     \* the instruments
  Quantities,  \* the quantities of fills
  Prices,      \* their prices, and those of marks
  MaxFills     \* bound on the number of fills

ASSUME FillAssumption ==
  /\ Quantities \subseteq Nat \ {0} /\ Prices \subseteq Nat \ {0}
  /\ MaxFills \in Nat
ASSUME SymbolsAssumption == IsFiniteSet(Symbols)

VARIABLES
  fills,     \* the fills so far (kept for the properties only)
  position,  \* InMemoryPosition of every symbol: open_lots and realized_pnl
  lots,      \* InMemoryTradeLedger: the open lots of every symbol
  trades,    \* and the closed trades, with their ids
  pc,        \* where each thread is
  fill,      \* the fill it books, in a sequence
  result,    \* what apply_fill has built and not yet assigned
  overlapped \* symbols of which two threads booked fills together
             \* (kept for the properties only)

books == <<position, lots, trades>>
vars == <<fills, books, pc, fill, result, overlapped>>

Init ==
  /\ fills = <<>>
  /\ position = [s \in Symbols |-> FlatPosition]
  /\ lots = [s \in Symbols |-> <<>>] /\ trades = <<>>
  /\ pc = [w \in Workers |-> "idle"] /\ fill = [w \in Workers |-> <<>>]
  /\ result = [w \in Workers |-> <<>>]
  /\ overlapped = {}

symbol(w) == fill[w][1].symbol
Busy(s) == \E w \in Workers : pc[w] # "idle" /\ symbol(w) = s
Goto(w, step) == pc' = [pc EXCEPT ![w] = step]

\* _close_short_lots and _close_long_lots up to the assignment: the lots that
\* stay, what remains of the fill, and the profit to add.
MatchPosition(w) ==
  /\ pc[w] = "idle" /\ Len(fills) < MaxFills
  /\ \E s \in Symbols, side \in Sides, q \in Quantities, p \in Prices :
       LET new  == [symbol |-> s, side |-> side, quantity |-> q, price |-> p,
                    rank |-> Len(fills) + 1]
           done == CloseLots([position[s] EXCEPT !.realized_pnl = 0], side, q, p)
       IN /\ fills' = Append(fills, new)
          /\ fill' = [fill EXCEPT ![w] = <<new>>]
          /\ result' = [result EXCEPT ![w] = <<done>>]
          /\ overlapped' = overlapped \cup (IF Busy(s) THEN {s} ELSE {})
  /\ Goto(w, "assign")
  /\ UNCHANGED books

AssignPosition(w) ==
  /\ pc[w] = "assign"
  /\ position' = [position EXCEPT ![symbol(w)] =
                    [open_lots |-> result[w][1].lots,
                     realized_pnl |-> @.realized_pnl + result[w][1].pnl]]
  /\ Goto(w, "append")
  /\ UNCHANGED <<fills, lots, trades, fill, result, overlapped>>

\* The append goes to the list that is there by now.
AppendLot(w) ==
  /\ pc[w] = "append"
  /\ position' = [position EXCEPT ![symbol(w)].open_lots =
                    @ \o Left(fill[w][1].side, result[w][1].remaining, fill[w][1].price)]
  /\ Goto(w, "match")
  /\ UNCHANGED <<fills, lots, trades, fill, result, overlapped>>

\* Mutant: the trades of one fill all get the same id.
MutantNumber(new, known) ==
  [i \in 1..Len(new) |-> [trade |-> new[i], id |-> Len(known) + 1]]

\* The id of a trade is its place in the list as the thread sees it (and the
\* symbol).
Number(new, known) ==
  [i \in 1..Len(new) |-> [trade |-> new[i], id |-> Len(known) + i]]

\* InMemoryTradeLedger.apply_fill up to the assignment.
MatchTrades(w) ==
  /\ pc[w] = "match"
  /\ LET done == ApplyToLedger([lots |-> lots[symbol(w)], trades |-> <<>>], fill[w][1])
     IN result' = [result EXCEPT ![w] =
                     <<[lots |-> done.lots, trades |-> Number(done.trades, trades)]>>]
  /\ Goto(w, "ledger")
  /\ UNCHANGED <<fills, books, fill, overlapped>>

Symbolic(s, new) == [i \in 1..Len(new) |-> [symbol |-> s, id |-> new[i].id, trade |-> new[i].trade]]

AssignLots(w) ==
  /\ pc[w] = "ledger"
  /\ lots' = [lots EXCEPT ![symbol(w)] = result[w][1].lots]
  /\ Goto(w, "extend")
  /\ UNCHANGED <<fills, position, trades, fill, result, overlapped>>

ExtendTrades(w) ==
  /\ pc[w] = "extend"
  /\ trades' = trades \o Symbolic(symbol(w), result[w][1].trades)
  /\ Goto(w, "idle")
  /\ fill' = [fill EXCEPT ![w] = <<>>]
  /\ result' = [result EXCEPT ![w] = <<>>]
  /\ UNCHANGED <<fills, position, lots, overlapped>>

Next == \E w \in Workers :
  \/ MatchPosition(w) \/ AssignPosition(w) \/ AppendLot(w)
  \/ MatchTrades(w) \/ AssignLots(w) \/ ExtendTrades(w)

Spec == Init /\ [][Next]_vars

-----------------------------------------------------------------------------
(* Snapshots *)

SumOf(value(_), seq) == Total([n \in DOMAIN seq |-> value(seq[n])])
\* A sum over some of the symbols, which come in the order of some list.
InTurn == CHOOSE f \in Bijection(1..Cardinality(Symbols), Symbols) : TRUE
SumOver(value(_), set) ==
  Total([n \in 1..Cardinality(Symbols) |-> IF InTurn[n] \in set THEN value(InTurn[n]) ELSE 0])
Magnitude(n) == IF n < 0 THEN -n ELSE n

net(s) == NetQuantity(position[s].open_lots)

\* PortfolioService.build_snapshot.
MutantPortfolio ==
  LET open == {s \in Symbols : net(s) # 0} IN
    [open_position_count |-> Cardinality(open),
     gross_quantity |-> SumOver(LAMBDA s : Magnitude(net(s)), open),
     net_quantity |-> SumOver(net, open),
     realized_pnl |-> SumOver(LAMBDA s : position[s].realized_pnl, open)]
Portfolio ==
  LET open == {s \in Symbols : net(s) # 0} IN
    [open_position_count |-> Cardinality(open),
     gross_quantity |-> SumOver(LAMBDA s : Magnitude(net(s)), open),
     net_quantity |-> SumOver(net, open),
     realized_pnl |-> SumOver(LAMBDA s : position[s].realized_pnl, Symbols)]

\* avg_price is LotValue divided by LotQuantity.
LotQuantity(s) == SumOf(LAMBDA lot : lot.quantity, position[s].open_lots)
LotValue(s) == SumOf(LAMBDA lot : lot.quantity * lot.price, position[s].open_lots)

\* Mutant: a short position gains as a long one does.
MutantUnrealized(s, mark) ==
  IF net(s) = 0 THEN 0 ELSE (mark * LotQuantity(s) - LotValue(s)) * Magnitude(net(s))

\* _compute_unrealized at a mark, times LotQuantity.
Unrealized(s, mark) ==
  CASE net(s) > 0 -> (mark * LotQuantity(s) - LotValue(s)) * net(s)
    [] net(s) < 0 -> (LotValue(s) - mark * LotQuantity(s)) * Magnitude(net(s))
    [] OTHER -> 0

\* build_position_snapshot: the total at a mark, times LotQuantity.
TotalPnl(s, mark) == LotQuantity(s) * position[s].realized_pnl + Unrealized(s, mark)

-----------------------------------------------------------------------------
(* Properties.  They are about symbols of which nobody is booking a fill and  *)
(* nobody booked two together; other symbols may be booked at any time.       *)

Quiet(s) == s \notin overlapped /\ ~Busy(s)

FillsOf(s) == Chosen(fills, {n \in DOMAIN fills : fills[n].symbol = s})
TradesOf(s) ==
  Chosen([n \in DOMAIN trades |-> trades[n].trade],
         {n \in DOMAIN trades : trades[n].symbol = s})

SignedQuantity(x) == Signed(x.side, x.quantity)
SignedValue(x) == x.price * Signed(x.side, x.quantity)

FilledNet(s) == SumOf(SignedQuantity, FillsOf(s))
RealizedByTrades(s) == SumOf(LAMBDA t : t.realized_pnl, TradesOf(s))

\* The books consist of lots and trades with positive quantities, and a thread
\* between reading and assigning holds what it will assign.
TypeOK ==
  /\ \A s \in Symbols :
       /\ \A n \in DOMAIN position[s].open_lots :
            /\ position[s].open_lots[n].side \in Sides
            /\ position[s].open_lots[n].quantity > 0
       /\ \A n \in DOMAIN lots[s] : lots[s][n].side \in Sides /\ lots[s][n].quantity > 0
  /\ \A n \in DOMAIN trades : trades[n].trade.quantity > 0 /\ trades[n].symbol \in Symbols
  /\ pc \in [Workers -> {"idle", "assign", "append", "match", "ledger", "extend"}]
  /\ \A w \in Workers : (pc[w] = "idle") <=> (fill[w] = <<>>)
  /\ overlapped \subseteq Symbols

\* The open lots of the ledger are what was bought less what was sold, and
\* they are all of one side.
LedgerConserves ==
  \A s \in Symbols : Quiet(s) =>
    /\ SumOf(SignedQuantity, lots[s]) = FilledNet(s)
    /\ \A m, n \in DOMAIN lots[s] : lots[s][m].side = lots[s][n].side

\* The profit of the closed trades is the cash the fills brought in, plus what
\* was paid for the lots that are still open: no match is counted twice, at a
\* wrong price or for the wrong side.
ProfitIsCashFlow ==
  \A s \in Symbols : Quiet(s) =>
    RealizedByTrades(s) = SumOf(SignedValue, lots[s]) - SumOf(SignedValue, FillsOf(s))

\* First in, first out: trades close lots in the order they were opened, and a
\* lot stays open only when everything opened before it has been closed.
FirstInFirstOut ==
  \A s \in Symbols : Quiet(s) =>
    LET own == TradesOf(s) IN
      /\ \A m, n \in DOMAIN own : m < n => own[m].entry <= own[n].entry
      /\ \A m \in DOMAIN own, n \in DOMAIN lots[s] : own[m].entry <= lots[s][n].rank
      /\ \A m \in DOMAIN own : own[m].entry < own[m].exit

\* A fill has come on top of lots of its own side.
Pyramided(s) ==
  LET own == FillsOf(s) IN
    \E n \in DOMAIN own :
      SumOf(SignedQuantity, SubSeq(own, 1, n - 1)) * SignedQuantity(own[n]) > 0

WithoutRank(lot) == PositionLot(lot.side, lot.quantity, lot.price)

\* The position and the ledger agree, lot by lot and in the profit they report,
\* as long as no fill has come on top of lots of its own side.
BooksAgreeUnlessPyramided ==
  \A s \in Symbols : Quiet(s) /\ ~Pyramided(s) =>
    /\ position[s].open_lots = [n \in DOMAIN lots[s] |-> WithoutRank(lots[s][n])]
    /\ position[s].realized_pnl = RealizedByTrades(s)

\* trades.py numbers a trade by the length of the one list all symbols share:
\* no two trades have one id, however the bookings of several symbols
\* interleave, unless two fills of one symbol were booked together.
TradeIdsUnique ==
  \A m, n \in DOMAIN trades :
    m # n /\ trades[m].symbol = trades[n].symbol /\ trades[m].symbol \notin overlapped
      => trades[m].id # trades[n].id

Sound == \A s \in Symbols : Quiet(s) /\ ~Pyramided(s)

\* The portfolio, which sees positions only, shows what the fills left: their net
\* quantity, and the profit of all trades, those of closed positions included.
PortfolioIsOfFills ==
  Sound =>
    /\ Portfolio.open_position_count = Cardinality({s \in Symbols : FilledNet(s) # 0})
    /\ Portfolio.net_quantity = SumOver(FilledNet, Symbols)
    /\ Portfolio.gross_quantity = SumOver(LAMBDA s : Magnitude(FilledNet(s)), Symbols)
    /\ Portfolio.realized_pnl = SumOver(RealizedByTrades, Symbols)

\* Whatever the marks are, realized and unrealized profit add up to the worth of
\* the holdings less the cash that went into them.
EquityIsCashFlow ==
  \A s \in Symbols, mark \in Prices : Quiet(s) /\ ~Pyramided(s) =>
    TotalPnl(s, mark) = LotQuantity(s) * (mark * FilledNet(s) - SumOf(SignedValue, FillsOf(s)))

\* The net quantity of a position is what was bought less what was sold.
PositionConserves ==
  \A s \in Symbols : Quiet(s) => NetQuantity(position[s].open_lots) = FilledNet(s)
=============================================================================
