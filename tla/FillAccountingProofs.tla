------------------------ MODULE FillAccountingProofs ------------------------
(***************************************************************************)
(* The books of the execution service balance for every number of threads, *)
(* symbols and fills, whatever the interleaving, for each symbol no two    *)
(* fills of which were booked together.  What the loops over the lots      *)
(* compute is in LotProofs.                                                *)
(***************************************************************************)
EXTENDS FillAccounting, LotProofs, FiniteSetTheorems

----------------------------------------------------------------------------
(***************************************************************************)
(* Types.                                                                  *)
(***************************************************************************)
FillRecords ==
  [symbol : Symbols, side : Sides, quantity : Quantities, price : Prices, rank : Nat]
NumberedTrades == [trade : ClosedTrades, id : Nat]
SymbolTrades == [symbol : Symbols, id : Nat, trade : ClosedTrades]

TypesInv ==
  /\ fills \in Seq(FillRecords)
  /\ position \in [Symbols -> Positions]
  /\ lots \in [Symbols -> Seq(OpenLots)]
  /\ trades \in Seq(SymbolTrades)
  /\ pc \in [Workers -> {"idle", "assign", "append", "match", "ledger", "extend"}]
  /\ fill \in [Workers -> Seq(FillRecords)]
  /\ DOMAIN result = Workers
  /\ overlapped \subseteq Symbols

\* What a thread holds, at each of its steps.
HoldsFill(w) ==
  /\ pc[w] = "idle" => fill[w] = <<>>
  /\ pc[w] # "idle" =>
       fill[w] # <<>> /\ fill[w][1] \in FillRecords /\ fill[w][1].rank <= Len(fills)
HoldsClosing(w) == pc[w] \in {"assign", "append"} => result[w][1] \in Closings
HoldsLots(w) ==
  pc[w] \in {"ledger", "extend"} =>
    result[w][1].lots \in Seq(OpenLots) /\ result[w][1].trades \in Seq(NumberedTrades)
Holdings == \A w \in Workers : HoldsFill(w) /\ HoldsClosing(w) /\ HoldsLots(w)

IInv == TypesInv /\ Holdings

----------------------------------------------------------------------------
(***************************************************************************)
(* The ledger.                                                             *)
(***************************************************************************)
Plain(numbered) == [i \in 1..Len(numbered) |-> numbered[i].trade]

Booking(w, s) == pc[w] # "idle" /\ symbol(w) = s

NetOf(s) == NetQuantity(FillsOf(s))
CashOf(s) == Worth(FillsOf(s))

\* One thread books a fill of the symbol, or none; the ledger is the one before
\* the fill until its lots are assigned, and its trades those from before until
\* they are added.
Alone(s) == \A v, w \in Workers : Booking(v, s) /\ Booking(w, s) => v = w
Settled(s) ==
  ~Busy(s) => Reconciled(lots[s], TradesOf(s), NetOf(s), CashOf(s), Len(fills) + 1)
Before(s, w) ==
  Booking(w, s) /\ pc[w] \in {"assign", "append", "match"} =>
    LET x == fill[w][1] IN
      Reconciled(lots[s], TradesOf(s), NetOf(s) - Signed(x.side, x.quantity),
                 CashOf(s) - Value(x), x.rank)
Matched(s, w) ==
  Booking(w, s) /\ pc[w] = "ledger" =>
    Reconciled(result[w][1].lots, TradesOf(s) \o Plain(result[w][1].trades),
               NetOf(s), CashOf(s), fill[w][1].rank + 1)
Assigned(s, w) ==
  Booking(w, s) /\ pc[w] = "extend" =>
    Reconciled(lots[s], TradesOf(s) \o Plain(result[w][1].trades),
               NetOf(s), CashOf(s), fill[w][1].rank + 1)

LedgerOf(s) ==
  Alone(s) /\ Settled(s) /\ \A w \in Workers : Before(s, w) /\ Matched(s, w) /\ Assigned(s, w)
LedgerInv == \A s \in Symbols \ overlapped : LedgerOf(s)

----------------------------------------------------------------------------
(***************************************************************************)
(* The ids of trades.                                                      *)
(***************************************************************************)
IdsOf(s) ==
  \A m, n \in DOMAIN trades :
    m # n /\ trades[m].symbol = s /\ trades[n].symbol = s => trades[m].id # trades[n].id
\* Ids are at most the places of their trades, in the list and before.
LowIds(w) ==
  pc[w] \in {"ledger", "extend"} =>
    LET new == result[w][1].trades IN \A i \in DOMAIN new : new[i].id <= Len(trades) + i
NewIds(s, w) ==
  Booking(w, s) /\ pc[w] \in {"ledger", "extend"} =>
    LET new == result[w][1].trades IN
      /\ \A i, j \in DOMAIN new : i # j => new[i].id # new[j].id
      /\ \A i \in DOMAIN new, n \in DOMAIN trades :
           trades[n].symbol = s => trades[n].id # new[i].id
IdsInv ==
  /\ \A n \in DOMAIN trades : trades[n].id <= n
  /\ \A w \in Workers : LowIds(w)
  /\ \A s \in Symbols \ overlapped : IdsOf(s) /\ \A w \in Workers : NewIds(s, w)

----------------------------------------------------------------------------
(***************************************************************************)
(* The position, as long as no fill has come on top of lots of its side.   *)
(***************************************************************************)
Books(s, L, T) ==
  position[s].open_lots = Stripped(L) /\ position[s].realized_pnl = Profit(T)

After(s, w) == ApplyToLedger([lots |-> lots[s], trades |-> <<>>], fill[w][1])

HeldSettled(s) == ~Busy(s) => Books(s, lots[s], TradesOf(s))
HeldClosed(s, w) ==
  Booking(w, s) /\ pc[w] = "assign" =>
    /\ position[s].realized_pnl = Profit(TradesOf(s))
    /\ Alike(result[w][1], After(s, w), fill[w][1], 0)
HeldAssigned(s, w) ==
  Booking(w, s) /\ pc[w] = "append" =>
    /\ position[s].open_lots \o Left(fill[w][1].side, result[w][1].remaining, fill[w][1].price)
         = Stripped(After(s, w).lots)
    /\ position[s].realized_pnl = Profit(TradesOf(s)) + Profit(After(s, w).trades)
HeldAppended(s, w) ==
  Booking(w, s) /\ pc[w] = "match" =>
    Books(s, After(s, w).lots, TradesOf(s) \o After(s, w).trades)
HeldMatched(s, w) ==
  Booking(w, s) /\ pc[w] = "ledger" =>
    Books(s, result[w][1].lots, TradesOf(s) \o Plain(result[w][1].trades))
HeldExtended(s, w) ==
  Booking(w, s) /\ pc[w] = "extend" =>
    Books(s, lots[s], TradesOf(s) \o Plain(result[w][1].trades))
HeldOf(s) ==
  /\ HeldSettled(s)
  /\ \A w \in Workers : /\ HeldClosed(s, w) /\ HeldAssigned(s, w) /\ HeldAppended(s, w)
                        /\ HeldMatched(s, w) /\ HeldExtended(s, w)
HeldInv == \A s \in Symbols \ overlapped : Pyramided(s) \/ HeldOf(s)

----------------------------------------------------------------------------
LEMMA FillsAreFills ==
  ASSUME NEW x \in FillRecords
  PROVE  IsFill(x) /\ x.symbol \in Symbols
<1>1. /\ x.symbol \in Symbols /\ x.side \in Sides /\ x.quantity \in Quantities
      /\ x.price \in Prices /\ x.rank \in Nat
  BY DEF FillRecords
<1>2. x.quantity \in Nat \ {0} /\ x.price \in Int
  <2>1. \A q \in Quantities, p \in Prices : q \in Nat \ {0} /\ p \in Int
    BY FillAssumption
  <2> QED
    BY <1>1, <2>1
<1> QED
  BY <1>1, <1>2 DEF IsFill

LEMMA FillsPriced == Priced(FillRecords)
<1>1. \A x \in FillRecords : x.side \in Sides /\ x.quantity \in Nat /\ x.price \in Int
  BY FillsAreFills DEF IsFill
<1> QED
  BY <1>1 DEF Priced

\* A thread that books a fill works on one of the symbols.
LEMMA HeldFill ==
  ASSUME TypesInv, NEW w \in Workers, HoldsFill(w), pc[w] # "idle"
  PROVE  /\ fill[w][1] \in FillRecords /\ IsFill(fill[w][1]) /\ symbol(w) \in Symbols
         /\ fill[w][1].rank \in Nat /\ fill[w][1].rank <= Len(fills)
<1>1. PICK x \in FillRecords : x = fill[w][1] /\ x.rank <= Len(fills)
  BY DEF HoldsFill
<1>2. x.rank \in Nat
  BY DEF FillRecords
<1> QED
  BY <1>1, <1>2, FillsAreFills DEF symbol

\* What MatchPosition reads and makes of it.
Incoming(w, s, x, done) ==
  /\ s \in Symbols /\ x \in FillRecords /\ x.symbol = s /\ x.rank = Len(fills) + 1
  /\ done = CloseLots([position[s] EXCEPT !.realized_pnl = 0], x.side, x.quantity, x.price)
  /\ done \in Closings
  /\ fills' = Append(fills, x)
  /\ fill' = [fill EXCEPT ![w] = <<x>>] /\ result' = [result EXCEPT ![w] = <<done>>]
  /\ overlapped' = overlapped \cup (IF Busy(s) THEN {s} ELSE {})

LEMMA MatchingPosition ==
  ASSUME TypesInv, NEW w \in Workers, MatchPosition(w)
  PROVE  \E s, x, done : Incoming(w, s, x, done)
<1>1. PICK s \in Symbols, side \in Sides, q \in Quantities, p \in Prices :
        LET new  == [symbol |-> s, side |-> side, quantity |-> q, price |-> p,
                     rank |-> Len(fills) + 1]
            done == CloseLots([position[s] EXCEPT !.realized_pnl = 0], side, q, p)
        IN /\ fills' = Append(fills, new)
           /\ fill' = [fill EXCEPT ![w] = <<new>>]
           /\ result' = [result EXCEPT ![w] = <<done>>]
           /\ overlapped' = overlapped \cup (IF Busy(s) THEN {s} ELSE {})
  BY DEF MatchPosition
<1> DEFINE x == [symbol |-> s, side |-> side, quantity |-> q, price |-> p,
                 rank |-> Len(fills) + 1]
           P == [position[s] EXCEPT !.realized_pnl = 0]
           done == CloseLots(P, x.side, x.quantity, x.price)
<1>2. Len(fills) \in Nat
  BY DEF TypesInv
<1>3. x \in FillRecords
  BY <1>2 DEF FillRecords
<1>4. P \in Positions
  <2>1. position[s] \in Positions
    BY DEF TypesInv
  <2> QED
    BY <2>1 DEF Positions
<1>5. side \in Sides /\ q \in Nat /\ p \in Int
  BY FillAssumption
<1> HIDE DEF P
<1>6. CloseLots(P, side, q, p) \in Closings
  BY <1>4, <1>5, CloseType
<1>7. Incoming(w, s, x, done)
  BY <1>1, <1>3, <1>6 DEF Incoming, P
<1> HIDE DEF x, done
<1> QED
  BY <1>7

LEMMA InitTypes == Init => IInv
<1> SUFFICES ASSUME Init
             PROVE  IInv
  OBVIOUS
<1>1. /\ <<>> \in Seq(FillRecords) /\ <<>> \in Seq(SymbolTrades) /\ <<>> \in Seq(OpenLots)
      /\ <<>> \in Seq(HeldLots)
  OBVIOUS
<1>2. FlatPosition \in Positions
  BY <1>1 DEF FlatPosition, Positions
<1>3. TypesInv
  BY <1>1, <1>2 DEF Init, TypesInv
<1>4. Holdings
  BY DEF Init, Holdings, HoldsFill, HoldsClosing, HoldsLots
<1> QED
  BY <1>3, <1>4 DEF IInv

\* A step of one thread leaves what the others hold.
OthersStay(w) ==
  /\ \A v \in Workers : v # w => pc'[v] = pc[v] /\ fill'[v] = fill[v] /\ result'[v] = result[v]
  /\ Len(fills) <= Len(fills')

LEMMA OthersHold ==
  ASSUME IInv, TypesInv', NEW w \in Workers, OthersStay(w), HoldsFill(w)', HoldsClosing(w)', HoldsLots(w)'
  PROVE  IInv'
<1>1. Len(fills) \in Nat /\ Len(fills') \in Nat
  BY DEF IInv, TypesInv
<1>2. ASSUME NEW v \in Workers, v # w
      PROVE  HoldsFill(v)' /\ HoldsClosing(v)' /\ HoldsLots(v)'
  <2>1. pc'[v] = pc[v] /\ fill'[v] = fill[v] /\ result'[v] = result[v] /\ Len(fills) <= Len(fills')
    BY <1>2 DEF OthersStay
  <2>2. HoldsFill(v) /\ HoldsClosing(v) /\ HoldsLots(v)
    BY DEF IInv, Holdings
  <2>3. HoldsFill(v)'
    <3>1. fill[v][1] \in FillRecords => fill[v][1].rank \in Nat
      BY DEF FillRecords
    <3> QED
      BY <1>1, <2>1, <2>2, <3>1 DEF HoldsFill
  <2> QED
    BY <2>1, <2>2, <2>3 DEF HoldsClosing, HoldsLots
<1> QED
  BY <1>2 DEF IInv, Holdings

LEMMA TypesMatchPosition ==
  ASSUME IInv, NEW w \in Workers, MatchPosition(w)
  PROVE  IInv' /\ OthersStay(w)
<1>1. PICK s, x, done : Incoming(w, s, x, done)
  BY MatchingPosition DEF IInv
<1>2. pc[w] = "idle" /\ pc' = [pc EXCEPT ![w] = "assign"] /\ UNCHANGED <<position, lots, trades>>
  BY DEF MatchPosition, Goto, books
<1>3. /\ x \in FillRecords /\ done \in Closings /\ s \in Symbols /\ x.rank = Len(fills) + 1
      /\ fills' = Append(fills, x)
      /\ fill' = [fill EXCEPT ![w] = <<x>>] /\ result' = [result EXCEPT ![w] = <<done>>]
      /\ overlapped' = overlapped \cup (IF Busy(s) THEN {s} ELSE {})
  BY <1>1 DEF Incoming
<1>4. fills \in Seq(FillRecords) /\ fill \in [Workers -> Seq(FillRecords)] /\ DOMAIN result = Workers
      /\ overlapped \subseteq Symbols
      /\ pc \in [Workers -> {"idle", "assign", "append", "match", "ledger", "extend"}]
  BY DEF IInv, TypesInv
<1>5. fills' \in Seq(FillRecords) /\ Len(fills') = Len(fills) + 1 /\ Len(fills) \in Nat
  BY <1>3, <1>4
<1>6. <<x>> \in Seq(FillRecords)
  BY <1>3
<1>7. TypesInv'
  <2>1. fill' \in [Workers -> Seq(FillRecords)] /\ DOMAIN result' = Workers
        /\ overlapped' \subseteq Symbols
        /\ pc' \in [Workers -> {"idle", "assign", "append", "match", "ledger", "extend"}]
    BY <1>2, <1>3, <1>4, <1>6
  <2> QED
    BY <1>2, <1>5, <2>1 DEF IInv, TypesInv
<1>8. fill'[w] = <<x>> /\ result'[w] = <<done>> /\ pc'[w] = "assign"
  BY <1>2, <1>3, <1>4
<1>9. HoldsFill(w)' /\ HoldsClosing(w)' /\ HoldsLots(w)'
  <2>1. fill'[w] # <<>> /\ fill'[w][1] = x /\ result'[w][1] = done
    BY <1>8
  <2> QED
    BY <1>3, <1>5, <1>8, <2>1 DEF HoldsFill, HoldsClosing, HoldsLots
<1>10. OthersStay(w)
  BY <1>2, <1>3, <1>4, <1>5 DEF OthersStay
<1> QED
  BY <1>7, <1>9, <1>10, OthersHold

LEMMA TypesAssignPosition ==
  ASSUME IInv, NEW w \in Workers, AssignPosition(w)
  PROVE  IInv' /\ OthersStay(w)
<1>1. /\ pc[w] = "assign" /\ pc' = [pc EXCEPT ![w] = "append"]
      /\ position' = [position EXCEPT ![symbol(w)] =
                        [open_lots |-> result[w][1].lots,
                         realized_pnl |-> @.realized_pnl + result[w][1].pnl]]
      /\ UNCHANGED <<fills, lots, trades, fill, result, overlapped>>
  BY DEF AssignPosition, Goto
<1>2. TypesInv /\ HoldsFill(w) /\ HoldsClosing(w)
  BY DEF IInv, Holdings
<1>3. symbol(w) \in Symbols
  BY <1>1, <1>2, HeldFill
<1>4. position' \in [Symbols -> Positions]
  <2>1. result[w][1] \in Closings
    BY <1>1, <1>2 DEF HoldsClosing
  <2>2. position \in [Symbols -> Positions] /\ position[symbol(w)] \in Positions
    BY <1>2, <1>3 DEF TypesInv
  <2> DEFINE new == [open_lots |-> result[w][1].lots,
                     realized_pnl |-> position[symbol(w)].realized_pnl + result[w][1].pnl]
  <2>3. new \in Positions
    BY <2>1, <2>2 DEF Positions, Closings
  <2>4. position' = [position EXCEPT ![symbol(w)] = new]
    BY <1>1
  <2> HIDE DEF new
  <2> QED
    BY <2>2, <2>3, <2>4
<1>5. TypesInv'
  BY <1>1, <1>2, <1>4 DEF TypesInv
<1>6. OthersStay(w)
  BY <1>1, <1>2 DEF OthersStay, TypesInv
<1>7. HoldsFill(w)' /\ HoldsClosing(w)' /\ HoldsLots(w)'
  BY <1>1, <1>2 DEF HoldsFill, HoldsClosing, HoldsLots, TypesInv
<1> QED
  BY <1>5, <1>6, <1>7, OthersHold

LEMMA TypesAppendLot ==
  ASSUME IInv, NEW w \in Workers, AppendLot(w)
  PROVE  IInv' /\ OthersStay(w)
<1>1. /\ pc[w] = "append" /\ pc' = [pc EXCEPT ![w] = "match"]
      /\ position' = [position EXCEPT ![symbol(w)].open_lots =
                        @ \o Left(fill[w][1].side, result[w][1].remaining, fill[w][1].price)]
      /\ UNCHANGED <<fills, lots, trades, fill, result, overlapped>>
  BY DEF AppendLot, Goto
<1>2. TypesInv /\ HoldsFill(w) /\ HoldsClosing(w)
  BY DEF IInv, Holdings
<1>3. symbol(w) \in Symbols /\ IsFill(fill[w][1])
  BY <1>1, <1>2, HeldFill
<1>4. position' \in [Symbols -> Positions]
  <2>1. result[w][1] \in Closings
    BY <1>1, <1>2 DEF HoldsClosing
  <2>2. position \in [Symbols -> Positions] /\ position[symbol(w)] \in Positions
    BY <1>2, <1>3 DEF TypesInv
  <2> DEFINE left == Left(fill[w][1].side, result[w][1].remaining, fill[w][1].price)
  <2>3. left \in Seq(HeldLots)
    <3>1. CASE result[w][1].remaining > 0
      <4>1. PositionLot(fill[w][1].side, result[w][1].remaining, fill[w][1].price) \in HeldLots
        BY <1>3, <2>1, <3>1 DEF PositionLot, HeldLots, Closings, IsFill
      <4> QED
        BY <3>1, <4>1 DEF Left
    <3>2. CASE ~(result[w][1].remaining > 0)
      BY <3>2 DEF Left
    <3> QED
      BY <3>1, <3>2
  <2> HIDE DEF left
  <2>4. position[symbol(w)].open_lots \o left \in Seq(HeldLots)
    BY <2>2, <2>3 DEF Positions
  <2> DEFINE new == [position[symbol(w)] EXCEPT !.open_lots = @ \o left]
  <2>5. new \in Positions
    BY <2>2, <2>4 DEF Positions
  <2>6. position' = [position EXCEPT ![symbol(w)] = new]
    BY <1>1 DEF left
  <2> HIDE DEF new
  <2> QED
    BY <2>2, <2>5, <2>6
<1>5. TypesInv'
  BY <1>1, <1>2, <1>4 DEF TypesInv
<1>6. OthersStay(w)
  BY <1>1, <1>2 DEF OthersStay, TypesInv
<1>7. HoldsFill(w)' /\ HoldsClosing(w)' /\ HoldsLots(w)'
  BY <1>1, <1>2 DEF HoldsFill, HoldsClosing, HoldsLots, TypesInv
<1> QED
  BY <1>5, <1>6, <1>7, OthersHold

\* What MatchTrades makes of the ledger.
Outgoing(w, x, done) ==
  /\ x = fill[w][1] /\ done = After(symbol(w), w)
  /\ done.lots \in Seq(OpenLots) /\ done.trades \in Seq(ClosedTrades)
  /\ Number(done.trades, trades) \in Seq(NumberedTrades)
  /\ Len(Number(done.trades, trades)) = Len(done.trades)
  /\ Plain(Number(done.trades, trades)) = done.trades
  /\ \A i \in 1..Len(done.trades) : Number(done.trades, trades)[i].id = Len(trades) + i
  /\ result' = [result EXCEPT
       ![w] = <<[lots |-> done.lots, trades |-> Number(done.trades, trades)]>>]

LEMMA MatchingTrades ==
  ASSUME IInv, NEW w \in Workers, MatchTrades(w)
  PROVE  \E x, done : Outgoing(w, x, done)
<1>1. TypesInv /\ HoldsFill(w) /\ pc[w] = "match"
  BY DEF IInv, Holdings, MatchTrades
<1>2. IsFill(fill[w][1]) /\ symbol(w) \in Symbols
  BY <1>1, HeldFill
<1>3. PICK x : x = fill[w][1]
  OBVIOUS
<1>4. PICK L \in Seq(OpenLots) : L = lots[symbol(w)]
  BY <1>1, <1>2 DEF TypesInv
<1>5. PICK none \in Seq(ClosedTrades) : none = <<>>
  <2>1. <<>> \in Seq(ClosedTrades)
    OBVIOUS
  <2> QED
    BY <2>1
<1>6. PICK done : done = ApplyToLedger([lots |-> L, trades |-> none], x)
  OBVIOUS
<1>7. Accounted(L, none, x, done)
  BY <1>2, <1>3, <1>6, ApplyBooks
<1>8. done.lots \in Seq(OpenLots) /\ done.trades \in Seq(ClosedTrades)
  BY <1>7 DEF Accounted
<1>9. PICK T \in Seq(ClosedTrades) : T = done.trades
  BY <1>8
<1>10. PICK k \in Nat : k = Len(trades)
  BY <1>1 DEF TypesInv
<1>11. /\ Number(T, trades) \in Seq(NumberedTrades) /\ Len(Number(T, trades)) = Len(T)
       /\ \A i \in 1..Len(T) : Number(T, trades)[i].trade = T[i] /\ Number(T, trades)[i].id = k + i
  <2> DEFINE new == [i \in 1..Len(T) |-> [trade |-> T[i], id |-> k + i]]
  <2>1. Len(T) \in Nat /\ \A i \in 1..Len(T) : T[i] \in ClosedTrades
    OBVIOUS
  <2>2. new \in [1..Len(T) -> NumberedTrades]
    BY <2>1 DEF NumberedTrades
  <2>3. new \in Seq(NumberedTrades) /\ Len(new) = Len(T)
    BY <2>1, <2>2
  <2>4. Number(T, trades) = new
    BY <1>10 DEF Number
  <2> QED
    BY <2>3, <2>4
<1>12. Plain(Number(T, trades)) = T
  <2>1. Plain(Number(T, trades)) = [i \in 1..Len(T) |-> T[i]]
    BY <1>11 DEF Plain
  <2> QED
    BY <2>1
<1>13. result' = [result EXCEPT ![w] = <<[lots |-> done.lots, trades |-> Number(done.trades, trades)]>>]
  BY <1>3, <1>4, <1>5, <1>6 DEF MatchTrades
<1>14. done = After(symbol(w), w)
  BY <1>3, <1>4, <1>5, <1>6 DEF After
<1>15. Outgoing(w, x, done)
  BY <1>3, <1>8, <1>9, <1>10, <1>11, <1>12, <1>13, <1>14 DEF Outgoing
<1> QED
  BY <1>15

LEMMA TypesMatchTrades ==
  ASSUME IInv, NEW w \in Workers, MatchTrades(w)
  PROVE  IInv' /\ OthersStay(w)
<1>1. /\ pc[w] = "match" /\ pc' = [pc EXCEPT ![w] = "ledger"]
      /\ UNCHANGED <<fills, position, lots, trades, fill, overlapped>>
  BY DEF MatchTrades, Goto, books
<1>2. TypesInv /\ HoldsFill(w)
  BY DEF IInv, Holdings
<1>3. PICK x, done : Outgoing(w, x, done)
  BY MatchingTrades
<1>4. PICK r : r = [lots |-> done.lots, trades |-> Number(done.trades, trades)]
  OBVIOUS
<1>5. /\ r.lots \in Seq(OpenLots) /\ r.trades \in Seq(NumberedTrades)
      /\ result' = [result EXCEPT ![w] = <<r>>]
  BY <1>3, <1>4 DEF Outgoing
<1>6. DOMAIN result' = Workers /\ result'[w] = <<r>>
  BY <1>2, <1>5 DEF TypesInv
<1>7. TypesInv'
  BY <1>1, <1>2, <1>6 DEF TypesInv
<1>8. OthersStay(w)
  BY <1>1, <1>2, <1>5 DEF OthersStay, TypesInv
<1>9. HoldsFill(w)' /\ HoldsClosing(w)' /\ HoldsLots(w)'
  BY <1>1, <1>2, <1>5, <1>6 DEF HoldsFill, HoldsClosing, HoldsLots, TypesInv
<1> QED
  BY <1>7, <1>8, <1>9, OthersHold

LEMMA TypesAssignLots ==
  ASSUME IInv, NEW w \in Workers, AssignLots(w)
  PROVE  IInv' /\ OthersStay(w)
<1>1. /\ pc[w] = "ledger" /\ pc' = [pc EXCEPT ![w] = "extend"]
      /\ lots' = [lots EXCEPT ![symbol(w)] = result[w][1].lots]
      /\ UNCHANGED <<fills, position, trades, fill, result, overlapped>>
  BY DEF AssignLots, Goto
<1>2. TypesInv /\ HoldsFill(w) /\ HoldsLots(w)
  BY DEF IInv, Holdings
<1>3. result[w][1].lots \in Seq(OpenLots)
  BY <1>1, <1>2 DEF HoldsLots
<1>4. TypesInv'
  BY <1>1, <1>2, <1>3 DEF TypesInv
<1>5. OthersStay(w)
  BY <1>1, <1>2 DEF OthersStay, TypesInv
<1>6. HoldsFill(w)' /\ HoldsClosing(w)' /\ HoldsLots(w)'
  BY <1>1, <1>2 DEF HoldsFill, HoldsClosing, HoldsLots, TypesInv
<1> QED
  BY <1>4, <1>5, <1>6, OthersHold

\* What ExtendTrades adds to the trades.
Extending(w, s, new, more) ==
  /\ s = symbol(w) /\ s \in Symbols /\ new = result[w][1].trades /\ new \in Seq(NumberedTrades)
  /\ more = Symbolic(s, new) /\ more \in Seq(SymbolTrades) /\ Len(more) = Len(new)
  /\ \A i \in 1..Len(new) :
       more[i].symbol = s /\ more[i].id = new[i].id /\ more[i].trade = new[i].trade
  /\ trades' = trades \o more

LEMMA ExtendingTrades ==
  ASSUME IInv, NEW w \in Workers, ExtendTrades(w)
  PROVE  \E s, new, more : Extending(w, s, new, more)
<1>1. TypesInv /\ HoldsFill(w) /\ HoldsLots(w) /\ pc[w] = "extend"
  BY DEF IInv, Holdings, ExtendTrades
<1>2. PICK s \in Symbols : s = symbol(w)
  BY <1>1, HeldFill
<1>3. PICK new \in Seq(NumberedTrades) : new = result[w][1].trades
  BY <1>1 DEF HoldsLots
<1>4. \A i \in 1..Len(new) : new[i].id \in Nat /\ new[i].trade \in ClosedTrades
  <2>1. \A i \in 1..Len(new) : new[i] \in NumberedTrades
    OBVIOUS
  <2> QED
    BY <2>1 DEF NumberedTrades
<1> DEFINE more == [i \in 1..Len(new) |-> [symbol |-> s, id |-> new[i].id, trade |-> new[i].trade]]
<1>5. more \in [1..Len(new) -> SymbolTrades] /\ Len(new) \in Nat
  BY <1>4 DEF SymbolTrades
<1>6. more \in Seq(SymbolTrades) /\ Len(more) = Len(new)
  <2>1. PICK m \in [1..Len(new) -> SymbolTrades] : m = more
    BY <1>5
  <2>2. m \in Seq(SymbolTrades) /\ Len(m) = Len(new)
    BY <1>5
  <2> QED
    BY <2>1, <2>2
<1>7. \A i \in 1..Len(new) :
        more[i].symbol = s /\ more[i].id = new[i].id /\ more[i].trade = new[i].trade
  OBVIOUS
<1>8. more = Symbolic(s, new) /\ trades' = trades \o Symbolic(s, new)
  BY <1>2, <1>3 DEF Symbolic, ExtendTrades
<1> HIDE DEF more
<1>9. Extending(w, s, new, more)
  BY <1>2, <1>3, <1>6, <1>7, <1>8 DEF Extending
<1> QED
  BY <1>9

LEMMA TypesExtendTrades ==
  ASSUME IInv, NEW w \in Workers, ExtendTrades(w)
  PROVE  IInv' /\ OthersStay(w)
<1>1. /\ pc[w] = "extend" /\ pc' = [pc EXCEPT ![w] = "idle"]
      /\ fill' = [fill EXCEPT ![w] = <<>>] /\ result' = [result EXCEPT ![w] = <<>>]
      /\ UNCHANGED <<fills, position, lots, overlapped>>
  BY DEF ExtendTrades, Goto
<1>2. TypesInv /\ HoldsFill(w)
  BY DEF IInv, Holdings
<1>3. PICK s, new, more : Extending(w, s, new, more)
  BY ExtendingTrades
<1>4. trades' \in Seq(SymbolTrades)
  BY <1>2, <1>3 DEF Extending, TypesInv
<1>5. <<>> \in Seq(FillRecords)
  OBVIOUS
<1>6. TypesInv'
  BY <1>1, <1>2, <1>4, <1>5 DEF TypesInv
<1>7. OthersStay(w)
  BY <1>1, <1>2 DEF OthersStay, TypesInv
<1>8. HoldsFill(w)' /\ HoldsClosing(w)' /\ HoldsLots(w)'
  BY <1>1, <1>2 DEF HoldsFill, HoldsClosing, HoldsLots, TypesInv
<1> QED
  BY <1>6, <1>7, <1>8, OthersHold

LEMMA TypesStep ==
  ASSUME IInv, NEW w \in Workers,
         \/ MatchPosition(w) \/ AssignPosition(w) \/ AppendLot(w)
         \/ MatchTrades(w) \/ AssignLots(w) \/ ExtendTrades(w)
  PROVE  IInv' /\ OthersStay(w)
BY TypesMatchPosition, TypesAssignPosition, TypesAppendLot, TypesMatchTrades, TypesAssignLots,
   TypesExtendTrades

LEMMA TypesStutter ==
  ASSUME IInv, UNCHANGED vars
  PROVE  IInv'
BY DEF IInv, TypesInv, Holdings, HoldsFill, HoldsClosing, HoldsLots, vars, books

LEMMA TypesInvariant == Spec => []IInv
<1>1. IInv /\ [Next]_vars => IInv'
  BY TypesStep, TypesStutter DEF Next
<1> QED
  BY <1>1, InitTypes, PTL DEF Spec

\* What TypeOK says follows from the types.
THEOREM TypeCorrect == Spec => []TypeOK
<1>1. IInv => TypeOK
  <2> SUFFICES ASSUME IInv
               PROVE  TypeOK
    OBVIOUS
  <2>1. \A s \in Symbols :
          /\ \A n \in DOMAIN position[s].open_lots :
               /\ position[s].open_lots[n].side \in Sides
               /\ position[s].open_lots[n].quantity > 0
          /\ \A n \in DOMAIN lots[s] : lots[s][n].side \in Sides /\ lots[s][n].quantity > 0
    <3> TAKE s \in Symbols
    <3>1. PICK P \in Seq(HeldLots), L \in Seq(OpenLots) : P = position[s].open_lots /\ L = lots[s]
      BY DEF IInv, TypesInv, Positions
    <3>2. (\A n \in DOMAIN P : P[n] \in HeldLots) /\ (\A n \in DOMAIN L : L[n] \in OpenLots)
      OBVIOUS
    <3>3. \A n \in DOMAIN P : P[n].side \in Sides /\ P[n].quantity > 0
      BY <3>2 DEF HeldLots
    <3>4. \A n \in DOMAIN L : L[n].side \in Sides /\ L[n].quantity > 0
      BY <3>2 DEF OpenLots
    <3> QED
      BY <3>1, <3>3, <3>4
  <2>2. \A n \in DOMAIN trades : trades[n].trade.quantity > 0 /\ trades[n].symbol \in Symbols
    <3>1. \A n \in DOMAIN trades : trades[n] \in SymbolTrades
      BY DEF IInv, TypesInv
    <3>2. \A n \in DOMAIN trades : trades[n].trade \in ClosedTrades /\ trades[n].symbol \in Symbols
      BY <3>1 DEF SymbolTrades
    <3> QED
      BY <3>2 DEF ClosedTrades
  <2>3. \A w \in Workers : (pc[w] = "idle") <=> (fill[w] = <<>>)
    BY DEF IInv, Holdings, HoldsFill
  <2> QED
    BY <2>1, <2>2, <2>3 DEF IInv, TypesInv, TypeOK
<1> QED
  BY <1>1, TypesInvariant, PTL

----------------------------------------------------------------------------
(***************************************************************************)
(* The fills and the trades of a symbol.                                   *)
(***************************************************************************)
LEMMA FillsOfType ==
  ASSUME TypesInv, NEW s
  PROVE  FillsOf(s) \in Seq(FillRecords) /\ NetOf(s) \in Int /\ CashOf(s) \in Int
<1>1. PICK F \in Seq(FillRecords) : F = fills
  BY DEF TypesInv
<1>2. FillsOf(s) \in Seq(FillRecords)
  BY <1>1, ChosenType DEF FillsOf
<1>3. PICK S \in Seq(FillRecords) : S = FillsOf(s)
  BY <1>2
<1>4. NetQuantity(S) \in Int /\ Worth(S) \in Int
  <2>1. CASE Len(S) = 0
    <3>1. S = <<>>
      BY <2>1
    <3> QED
      BY <3>1, SumsEmpty
  <2>2. CASE Len(S) # 0
    <3>1. PICK x \in FillRecords : x = S[1]
      BY <2>2
    <3>2. Sums(S, x)
      BY FillsPriced, SumsAppend
    <3> QED
      BY <3>2 DEF Sums
  <2> QED
    BY <2>1, <2>2
<1> QED
  BY <1>2, <1>3, <1>4 DEF NetOf, CashOf

LEMMA FillsOfGrow ==
  ASSUME TypesInv, NEW s, NEW x \in FillRecords, fills' = Append(fills, x)
  PROVE  /\ x.symbol = s =>
              /\ FillsOf(s)' = Append(FillsOf(s), x)
              /\ NetOf(s)' = NetOf(s) + Signed(x.side, x.quantity)
              /\ CashOf(s)' = CashOf(s) + Value(x)
         /\ x.symbol # s => FillsOf(s)' = FillsOf(s) /\ NetOf(s)' = NetOf(s) /\ CashOf(s)' = CashOf(s)
<1>1. PICK F \in Seq(FillRecords) : F = fills
  BY DEF TypesInv
<1>2. PICK G \in Seq(FillRecords) : G = fills' /\ G = Append(F, x)
  BY <1>1, AppendProperties
<1> DEFINE P == {n \in DOMAIN F : F[n].symbol = s}
           Q == {n \in DOMAIN G : G[n].symbol = s}
<1>3. Len(G) = Len(F) + 1 /\ G[Len(F) + 1] = x /\ (\A n \in 1..Len(F) : G[n] = F[n])
      /\ DOMAIN G = 1..Len(G) /\ DOMAIN F = 1..Len(F) /\ Len(F) \in Nat
  BY <1>2
<1>4. \A n \in 1..Len(F) : n \in P <=> n \in Q
  BY <1>3
<1>5. Len(F) + 1 \in Q <=> x.symbol = s
  BY <1>3
<1> HIDE DEF P, Q
<1>6. Chosen(Append(F, x), Q) = IF Len(F) + 1 \in Q THEN Append(Chosen(F, P), x) ELSE Chosen(F, P)
  BY <1>4, ChosenAppend
<1>7. FillsOf(s) = Chosen(F, P) /\ FillsOf(s)' = Chosen(G, Q)
  BY <1>1, <1>2 DEF FillsOf, P, Q
<1>8. PICK S \in Seq(FillRecords) : S = FillsOf(s)
  BY FillsOfType
<1>9. Sums(S, x)
  BY FillsPriced, SumsAppend
<1>10. CASE x.symbol = s
  <2>1. FillsOf(s)' = Append(S, x)
    BY <1>2, <1>5, <1>6, <1>7, <1>8, <1>10
  <2> QED
    BY <1>8, <1>9, <1>10, <2>1 DEF Sums, NetOf, CashOf
<1>11. CASE x.symbol # s
  <2>1. FillsOf(s)' = FillsOf(s)
    BY <1>2, <1>5, <1>6, <1>7, <1>11
  <2> QED
    BY <1>11, <2>1 DEF NetOf, CashOf
<1> QED
  BY <1>10, <1>11

\* The trades, without their symbols and ids.
AllTrades == [n \in DOMAIN trades |-> trades[n].trade]

LEMMA TradesOfType ==
  ASSUME TypesInv, NEW s
  PROVE  /\ AllTrades \in Seq(ClosedTrades) /\ Len(AllTrades) = Len(trades)
         /\ TradesOf(s) \in Seq(ClosedTrades)
<1>1. PICK T \in Seq(SymbolTrades) : T = trades
  BY DEF TypesInv
<1>2. \A n \in 1..Len(T) : T[n].trade \in ClosedTrades
  <2>1. \A n \in 1..Len(T) : T[n] \in SymbolTrades
    OBVIOUS
  <2> QED
    BY <2>1 DEF SymbolTrades
<1>3. AllTrades \in [1..Len(T) -> ClosedTrades] /\ Len(T) \in Nat
  BY <1>1, <1>2 DEF AllTrades
<1>4. PICK A \in [1..Len(T) -> ClosedTrades] : A = AllTrades
  BY <1>3
<1>5. A \in Seq(ClosedTrades) /\ Len(A) = Len(T)
  BY <1>3
<1>6. Chosen(A, {n \in DOMAIN trades : trades[n].symbol = s}) \in Seq(ClosedTrades)
  BY <1>5, ChosenType
<1>7. TradesOf(s) = Chosen(A, {n \in DOMAIN trades : trades[n].symbol = s})
  BY <1>4 DEF TradesOf, AllTrades
<1> QED
  BY <1>1, <1>4, <1>5, <1>6, <1>7

LEMMA TradesOfGrow ==
  ASSUME TypesInv, NEW w \in Workers, NEW s1, NEW new, NEW more, Extending(w, s1, new, more),
         NEW s
  PROVE  /\ Plain(new) \in Seq(ClosedTrades)
         /\ s1 = s => TradesOf(s)' = TradesOf(s) \o Plain(new)
         /\ s1 # s => TradesOf(s)' = TradesOf(s)
<1>1. PICK T \in Seq(SymbolTrades) : T = trades
  BY DEF TypesInv
<1>2. PICK M \in Seq(SymbolTrades) : M = more /\ Len(M) = Len(new)
  BY DEF Extending
<1>3. PICK W \in Seq(SymbolTrades) : W = trades' /\ W = T \o M
  <2>1. T \o M \in Seq(SymbolTrades)
    OBVIOUS
  <2> QED
    BY <1>1, <1>2, <2>1 DEF Extending
<1>4. /\ Len(W) = Len(T) + Len(M) /\ Len(T) \in Nat /\ Len(M) \in Nat
      /\ DOMAIN W = 1..Len(W) /\ DOMAIN T = 1..Len(T)
      /\ \A n \in 1..Len(T) : W[n] = T[n]
      /\ \A n \in 1..Len(M) : W[Len(T) + n] = M[n]
  BY <1>3
<1>5. PICK A \in Seq(ClosedTrades) : A = AllTrades /\ Len(A) = Len(T)
  BY <1>1, TradesOfType
<1>6. /\ Plain(new) \in Seq(ClosedTrades) /\ Len(Plain(new)) = Len(M)
      /\ \A i \in 1..Len(M) : Plain(new)[i] = M[i].trade
  <2>1. PICK N \in Seq(NumberedTrades) : N = new
    BY DEF Extending
  <2>2. \A i \in 1..Len(N) : N[i].trade \in ClosedTrades
    <3>1. \A i \in 1..Len(N) : N[i] \in NumberedTrades
      OBVIOUS
    <3> QED
      BY <3>1 DEF NumberedTrades
  <2>3. Plain(N) \in [1..Len(N) -> ClosedTrades] /\ Len(N) \in Nat
    BY <2>2 DEF Plain
  <2>4. PICK B \in [1..Len(N) -> ClosedTrades] : B = Plain(N)
    BY <2>3
  <2>5. B \in Seq(ClosedTrades) /\ Len(B) = Len(N)
    BY <2>3, IsSequence
  <2>6. \A i \in 1..Len(M) : Plain(new)[i] = M[i].trade
    BY <1>2 DEF Plain, Extending
  <2> QED
    BY <1>2, <2>1, <2>4, <2>5, <2>6
<1>7. PICK B \in Seq(ClosedTrades) : B = Plain(new) /\ Len(B) = Len(M)
                                     /\ \A i \in 1..Len(M) : B[i] = M[i].trade
  BY <1>6
<1>8. AllTrades' = A \o B
  <2>1. PICK C \in Seq(ClosedTrades) : C = A \o B
    <3>1. A \o B \in Seq(ClosedTrades)
      OBVIOUS
    <3> QED
      BY <3>1
  <2>2. Len(C) = Len(W) /\ (\A n \in 1..Len(A) : C[n] = A[n])
        /\ \A n \in 1..Len(B) : C[Len(A) + n] = B[n]
    <3>1. /\ Len(A \o B) = Len(A) + Len(B)
          /\ \A i \in 1..Len(A) + Len(B) :
               (A \o B)[i] = IF i <= Len(A) THEN A[i] ELSE B[i - Len(A)]
      BY ConcatProperties
    <3>2. \A n \in 1..Len(B) : Len(A) + n \in 1..Len(A) + Len(B) /\ ~(Len(A) + n <= Len(A))
                               /\ Len(A) + n - Len(A) = n
      OBVIOUS
    <3>3. \A n \in 1..Len(A) : n \in 1..Len(A) + Len(B) /\ n <= Len(A)
      OBVIOUS
    <3> QED
      BY <1>4, <1>5, <1>7, <2>1, <3>1, <3>2, <3>3, SMTT(20)
  <2>3. \A n \in 1..Len(T) : A[n] = T[n].trade
    BY <1>1, <1>5 DEF AllTrades
  <2>4. ASSUME NEW n \in 1..Len(W)
        PROVE  C[n] = W[n].trade
    <3>1. CASE n \in 1..Len(T)
      BY <1>4, <1>5, <2>2, <2>3, <3>1
    <3>2. CASE n \notin 1..Len(T)
      <4>1. PICK m \in 1..Len(M) : n = Len(T) + m
        <5>1. n - Len(T) \in 1..Len(M) /\ n = Len(T) + (n - Len(T))
          BY <1>4, <3>2
        <5> QED
          BY <5>1
      <4> QED
        BY <1>4, <1>5, <1>7, <2>2, <4>1
    <3> QED
      BY <3>1, <3>2
  <2>5. AllTrades' = [n \in 1..Len(W) |-> W[n].trade]
    BY <1>3, <1>4 DEF AllTrades
  <2>6. C = [n \in 1..Len(W) |-> C[n]]
    BY <2>2
  <2> QED
    BY <2>1, <2>4, <2>5, <2>6
<1> DEFINE P == {n \in DOMAIN T : T[n].symbol = s}
           Q == {n \in DOMAIN W : W[n].symbol = s}
<1>9. \A n \in 1..Len(A) : n \in P <=> n \in Q
  BY <1>4, <1>5
<1>10. \A i \in 1..Len(B) : Len(A) + i \in Q <=> s1 = s
  <2> TAKE i \in 1..Len(B)
  <2>1. W[Len(A) + i].symbol = s1 /\ Len(A) + i \in 1..Len(W)
    <3>1. i \in 1..Len(M) /\ i \in 1..Len(new) /\ Len(T) + i \in 1..Len(W)
      BY <1>2, <1>4, <1>7
    <3>2. M[i].symbol = s1
      BY <1>2, <3>1 DEF Extending
    <3> QED
      BY <1>4, <1>5, <3>1, <3>2
  <2> QED
    BY <1>4, <2>1
<1> HIDE DEF P, Q
<1>11. AllOrNothing(A, B, P, Q)
  BY <1>9, ChosenConcat
<1>12. TradesOf(s) = Chosen(A, P)
  BY <1>1, <1>5 DEF TradesOf, AllTrades, P
<1>13. TradesOf(s)' = Chosen(A \o B, Q)
  BY <1>3, <1>8 DEF TradesOf, AllTrades, Q
<1>14. CASE s1 = s
  BY <1>6, <1>7, <1>10, <1>11, <1>12, <1>13, <1>14 DEF AllOrNothing
<1>15. CASE s1 # s
  BY <1>6, <1>7, <1>10, <1>11, <1>12, <1>13, <1>15 DEF AllOrNothing
<1> QED
  BY <1>6, <1>14, <1>15

----------------------------------------------------------------------------
(***************************************************************************)
(* The ledger.                                                             *)
(***************************************************************************)
LEMMA ReconciledLater ==
  ASSUME NEW L \in Seq(OpenLots), NEW T \in Seq(ClosedTrades), NEW held, NEW cash,
         NEW r \in Nat, NEW later \in Nat, r <= later, Reconciled(L, T, held, cash, r)
  PROVE  Reconciled(L, T, held, cash, later)
<1>1. \A n \in 1..Len(L) : L[n].rank \in Nat
  <2>1. \A n \in 1..Len(L) : L[n] \in OpenLots
    OBVIOUS
  <2> QED
    BY <2>1 DEF OpenLots
<1>2. \A m \in 1..Len(T) : T[m].entry \in Nat
  <2>1. \A m \in 1..Len(T) : T[m] \in ClosedTrades
    OBVIOUS
  <2> QED
    BY <2>1 DEF ClosedTrades
<1>3. /\ \A n \in 1..Len(L) : L[n].rank < later
      /\ \A m \in 1..Len(T) : T[m].entry < later
  BY <1>1, <1>2 DEF Reconciled
<1> QED
  BY <1>3 DEF Reconciled

LEMMA BusyIsBooking ==
  ASSUME NEW s
  PROVE  Busy(s) <=> \E w \in Workers : Booking(w, s)
BY DEF Busy, Booking

\* A step of a thread that neither books a fill of the symbol nor begins to.
LEMMA Elsewhere ==
  ASSUME IInv, IInv', NEW s \in Symbols, NEW w \in Workers, OthersStay(w), LedgerOf(s),
         ~Booking(w, s), ~Booking(w, s)', lots'[s] = lots[s],
         TradesOf(s)' = TradesOf(s), FillsOf(s)' = FillsOf(s)
  PROVE  LedgerOf(s)'
<1>1. /\ NetOf(s)' = NetOf(s) /\ CashOf(s)' = CashOf(s)
      /\ Len(fills) \in Nat /\ Len(fills') \in Nat /\ Len(fills) + 1 <= Len(fills') + 1
  BY DEF NetOf, CashOf, IInv, TypesInv, OthersStay
<1>2. \A v \in Workers :
        /\ Booking(v, s)' <=> Booking(v, s)
        /\ Booking(v, s) => pc'[v] = pc[v] /\ fill'[v] = fill[v] /\ result'[v] = result[v]
  BY DEF OthersStay, Booking, symbol
<1>3. Alone(s)'
  BY <1>2 DEF LedgerOf, Alone
<1>4. Settled(s)'
  <2> SUFFICES ASSUME ~Busy(s)'
               PROVE  Reconciled(lots[s], TradesOf(s), NetOf(s), CashOf(s), Len(fills) + 1)'
    BY DEF Settled
  <2>1. ~Busy(s)
    BY <1>2, BusyIsBooking DEF Busy, Booking
  <2>2. Reconciled(lots[s], TradesOf(s), NetOf(s), CashOf(s), Len(fills) + 1)
    BY <2>1 DEF LedgerOf, Settled
  <2>3. lots[s] \in Seq(OpenLots) /\ TradesOf(s) \in Seq(ClosedTrades)
    BY TradesOfType DEF IInv, TypesInv
  <2>4. Reconciled(lots[s], TradesOf(s), NetOf(s), CashOf(s), Len(fills') + 1)
    BY <1>1, <2>2, <2>3, ReconciledLater
  <2> QED
    BY <1>1, <2>4
<1>5. ASSUME NEW v \in Workers
      PROVE  Before(s, v)' /\ Matched(s, v)' /\ Assigned(s, v)'
  <2>1. Before(s, v) /\ Matched(s, v) /\ Assigned(s, v)
    BY DEF LedgerOf
  <2>2. CASE ~Booking(v, s)
    BY <1>2, <2>2 DEF Before, Matched, Assigned
  <2>3. CASE Booking(v, s)
    <3>1. pc'[v] = pc[v] /\ fill'[v] = fill[v] /\ result'[v] = result[v] /\ Booking(v, s)'
      BY <1>2, <2>3
    <3>2. Before(s, v)'
      BY <1>1, <2>1, <2>3, <3>1 DEF Before
    <3>3. Matched(s, v)'
      BY <1>1, <2>1, <2>3, <3>1 DEF Matched
    <3>4. Assigned(s, v)'
      BY <1>1, <2>1, <2>3, <3>1 DEF Assigned
    <3> QED
      BY <3>2, <3>3, <3>4
  <2> QED
    BY <2>2, <2>3
<1> QED
  BY <1>3, <1>4, <1>5 DEF LedgerOf

\* A step of the one thread that books, or begins to book, a fill of the symbol.
LEMMA OwnStep ==
  ASSUME NEW s, NEW w \in Workers, OthersStay(w), \A v \in Workers : v # w => ~Booking(v, s),
         Settled(s)', Before(s, w)', Matched(s, w)', Assigned(s, w)'
  PROVE  LedgerOf(s)'
<1>1. \A v \in Workers : v # w => ~Booking(v, s)'
  BY DEF OthersStay, Booking, symbol
<1>2. Alone(s)'
  BY <1>1 DEF Alone
<1>3. \A v \in Workers : Before(s, v)' /\ Matched(s, v)' /\ Assigned(s, v)'
  BY <1>1 DEF Before, Matched, Assigned
<1> QED
  BY <1>2, <1>3 DEF LedgerOf

\* A step within the booking of a fill leaves the symbol booked.
LEMMA StillBusy ==
  ASSUME NEW s, NEW w \in Workers, Booking(w, s)'
  PROVE  Settled(s)'
BY DEF Booking, Busy, Settled

LEMMA LedgerMatchPosition ==
  ASSUME IInv, IInv', LedgerInv, NEW w \in Workers, MatchPosition(w), OthersStay(w),
         NEW s \in Symbols \ overlapped'
  PROVE  LedgerOf(s)'
<1>1. PICK s1, x, done : Incoming(w, s1, x, done)
  BY MatchingPosition DEF IInv
<1>2. TypesInv /\ TypesInv'
  BY DEF IInv
<1>3. pc[w] = "idle" /\ pc'[w] = "assign" /\ UNCHANGED <<position, lots, trades>>
  BY <1>2 DEF MatchPosition, Goto, books, TypesInv
<1>4. /\ x \in FillRecords /\ s1 \in Symbols /\ x.symbol = s1 /\ x.rank = Len(fills) + 1
      /\ fills' = Append(fills, x) /\ fill'[w] = <<x>>
      /\ overlapped' = overlapped \cup (IF Busy(s1) THEN {s1} ELSE {})
  BY <1>1, <1>2 DEF Incoming, TypesInv
<1>5. LedgerOf(s)
  BY <1>4 DEF LedgerInv
<1>6. TradesOf(s)' = TradesOf(s) /\ lots'[s] = lots[s]
  BY <1>3 DEF TradesOf
<1>7. fill'[w][1] = x /\ symbol(w)' = s1
  BY <1>4 DEF symbol
<1>8. CASE s1 # s
  <2>1. FillsOf(s)' = FillsOf(s)
    BY <1>2, <1>4, <1>8, FillsOfGrow
  <2>2. ~Booking(w, s) /\ ~Booking(w, s)'
    BY <1>3, <1>7, <1>8 DEF Booking
  <2> QED
    BY <1>5, <1>6, <2>1, <2>2, Elsewhere
<1>9. CASE s1 = s
  <2>1. ~Busy(s)
    BY <1>4, <1>9
  <2>2. \A v \in Workers : ~Booking(v, s)
    BY <2>1, BusyIsBooking
  <2>3. Reconciled(lots[s], TradesOf(s), NetOf(s), CashOf(s), Len(fills) + 1)
    BY <1>5, <2>1 DEF LedgerOf, Settled
  <2>4. NetOf(s)' = NetOf(s) + Signed(x.side, x.quantity) /\ CashOf(s)' = CashOf(s) + Value(x)
    BY <1>2, <1>4, <1>9, FillsOfGrow
  <2>5. NetOf(s)' - Signed(x.side, x.quantity) = NetOf(s) /\ CashOf(s)' - Value(x) = CashOf(s)
    <3>1. PICK n \in Int, c \in Int : n = NetOf(s) /\ c = CashOf(s)
      BY <1>2, FillsOfType
    <3>2. IsFill(x)
      BY <1>4, FillsAreFills
    <3>3. PICK q \in Int, v \in Int : q = Signed(x.side, x.quantity) /\ v = Value(x)
      BY <3>2, ValueType DEF IsFill
    <3> QED
      BY <2>4, <3>1, <3>3
  <2>6. Before(s, w)'
    BY <1>4, <1>6, <1>7, <2>3, <2>5 DEF Before
  <2>7. Matched(s, w)' /\ Assigned(s, w)'
    BY <1>3 DEF Matched, Assigned
  <2>8. Settled(s)'
    BY <1>3, <1>7, <1>9, StillBusy DEF Booking
  <2> QED
    BY <2>2, <2>6, <2>7, <2>8, OwnStep
<1> QED
  BY <1>8, <1>9

\* The two steps that write the position leave the ledger.
LEMMA LedgerPosition ==
  ASSUME IInv, IInv', LedgerInv, NEW w \in Workers, AssignPosition(w) \/ AppendLot(w),
         OthersStay(w), NEW s \in Symbols \ overlapped'
  PROVE  LedgerOf(s)'
<1>1. /\ pc[w] \in {"assign", "append"} /\ pc'[w] \in {"append", "match"}
      /\ UNCHANGED <<fills, lots, trades, fill, result, overlapped>>
  BY DEF AssignPosition, AppendLot, Goto, IInv, TypesInv
<1>2. LedgerOf(s)
  BY <1>1 DEF LedgerInv
<1>3. /\ TradesOf(s)' = TradesOf(s) /\ FillsOf(s)' = FillsOf(s) /\ lots'[s] = lots[s]
      /\ symbol(w)' = symbol(w)
  BY <1>1 DEF TradesOf, FillsOf, symbol
<1>4. CASE symbol(w) # s
  <2>1. ~Booking(w, s) /\ ~Booking(w, s)'
    BY <1>3, <1>4 DEF Booking
  <2> QED
    BY <1>2, <1>3, <2>1, Elsewhere
<1>5. CASE symbol(w) = s
  <2>1. Booking(w, s) /\ Booking(w, s)'
    BY <1>1, <1>3, <1>5 DEF Booking
  <2>2. \A v \in Workers : v # w => ~Booking(v, s)
    BY <1>2, <2>1 DEF LedgerOf, Alone
  <2>3. NetOf(s)' = NetOf(s) /\ CashOf(s)' = CashOf(s)
    BY <1>3 DEF NetOf, CashOf
  <2>4. Before(s, w)
    BY <1>2 DEF LedgerOf
  <2>5. Before(s, w)'
    BY <1>1, <1>3, <2>1, <2>3, <2>4 DEF Before
  <2>6. Matched(s, w)' /\ Assigned(s, w)'
    BY <1>1 DEF Matched, Assigned
  <2>7. Settled(s)'
    BY <2>1, StillBusy
  <2> QED
    BY <2>2, <2>5, <2>6, <2>7, OwnStep
<1> QED
  BY <1>4, <1>5

LEMMA LedgerMatchTrades ==
  ASSUME IInv, IInv', LedgerInv, NEW w \in Workers, MatchTrades(w), OthersStay(w),
         NEW s \in Symbols \ overlapped'
  PROVE  LedgerOf(s)'
<1>1. /\ pc[w] = "match" /\ pc'[w] = "ledger"
      /\ UNCHANGED <<fills, position, lots, trades, fill, overlapped>>
  BY DEF MatchTrades, Goto, books, IInv, TypesInv
<1>2. LedgerOf(s)
  BY <1>1 DEF LedgerInv
<1>3. /\ TradesOf(s)' = TradesOf(s) /\ FillsOf(s)' = FillsOf(s) /\ lots'[s] = lots[s]
      /\ symbol(w)' = symbol(w)
  BY <1>1 DEF TradesOf, FillsOf, symbol
<1>4. CASE symbol(w) # s
  <2>1. ~Booking(w, s) /\ ~Booking(w, s)'
    BY <1>3, <1>4 DEF Booking
  <2> QED
    BY <1>2, <1>3, <2>1, Elsewhere
<1>5. CASE symbol(w) = s
  <2>1. Booking(w, s) /\ Booking(w, s)'
    BY <1>1, <1>3, <1>5 DEF Booking
  <2>2. \A v \in Workers : v # w => ~Booking(v, s)
    BY <1>2, <2>1 DEF LedgerOf, Alone
  <2>3. NetOf(s)' = NetOf(s) /\ CashOf(s)' = CashOf(s)
    BY <1>3 DEF NetOf, CashOf
  <2>4. PICK x, done : Outgoing(w, x, done)
    BY MatchingTrades
  <2>5. TypesInv /\ HoldsFill(w)
    BY DEF IInv, Holdings
  <2>6. IsFill(x) /\ x = fill[w][1]
    BY <1>1, <2>4, <2>5, HeldFill DEF Outgoing
  <2>7. PICK n \in Int, c \in Int : n = NetOf(s) /\ c = CashOf(s)
    BY <2>5, FillsOfType
  <2>8. PICK q \in Int, v \in Int : q = Signed(x.side, x.quantity) /\ v = Value(x)
    BY <2>6, ValueType DEF IsFill
  <2>9. Reconciled(lots[s], TradesOf(s), n - q, c - v, x.rank)
    BY <1>1, <1>2, <2>1, <2>6, <2>7, <2>8 DEF LedgerOf, Before
  <2>10. PICK L \in Seq(OpenLots), T \in Seq(ClosedTrades) : L = lots[s] /\ T = TradesOf(s)
    BY <2>5, TradesOfType DEF TypesInv
  <2>11. PICK held \in Int, cash \in Int : held = n - q /\ cash = c - v
    OBVIOUS
  <2>12. Reconciled(L, T, held, cash, x.rank)
    BY <2>9, <2>10, <2>11
  <2>13. Rebooked(ApplyToLedger([lots |-> L, trades |-> <<>>], x), T,
                  held + Signed(x.side, x.quantity), cash + Value(x), x.rank + 1)
    BY <2>6, <2>12, ReconciledTurn
  <2>14. held + Signed(x.side, x.quantity) = n /\ cash + Value(x) = c
    BY <2>8, <2>11
  <2>15. done = ApplyToLedger([lots |-> L, trades |-> <<>>], x)
    BY <1>5, <2>4, <2>6, <2>10 DEF Outgoing, After
  <2>16. Reconciled(done.lots, T \o done.trades, n, c, x.rank + 1)
    BY <2>13, <2>14, <2>15 DEF Rebooked
  <2>17. /\ result'[w][1].lots = done.lots
         /\ Plain(result'[w][1].trades) = done.trades
    <3>1. result'[w] = <<[lots |-> done.lots, trades |-> Number(done.trades, trades)]>>
      BY <2>4, <2>5 DEF Outgoing, TypesInv
    <3> QED
      BY <2>4, <3>1 DEF Outgoing
  <2>18. Matched(s, w)'
    BY <1>1, <1>3, <2>3, <2>6, <2>7, <2>10, <2>16, <2>17 DEF Matched
  <2>19. Before(s, w)' /\ Assigned(s, w)'
    BY <1>1 DEF Before, Assigned
  <2>20. Settled(s)'
    BY <2>1, StillBusy
  <2> QED
    BY <2>2, <2>18, <2>19, <2>20, OwnStep
<1> QED
  BY <1>4, <1>5

LEMMA LedgerAssignLots ==
  ASSUME IInv, IInv', LedgerInv, NEW w \in Workers, AssignLots(w), OthersStay(w),
         NEW s \in Symbols \ overlapped'
  PROVE  LedgerOf(s)'
<1>1. /\ pc[w] = "ledger" /\ pc'[w] = "extend"
      /\ lots' = [lots EXCEPT ![symbol(w)] = result[w][1].lots]
      /\ UNCHANGED <<fills, position, trades, fill, result, overlapped>>
  BY DEF AssignLots, Goto, IInv, TypesInv
<1>2. LedgerOf(s)
  BY <1>1 DEF LedgerInv
<1>3. TradesOf(s)' = TradesOf(s) /\ FillsOf(s)' = FillsOf(s) /\ symbol(w)' = symbol(w)
  BY <1>1 DEF TradesOf, FillsOf, symbol
<1>4. CASE symbol(w) # s
  <2>1. ~Booking(w, s) /\ ~Booking(w, s)' /\ lots'[s] = lots[s]
    BY <1>1, <1>3, <1>4 DEF Booking, IInv, TypesInv
  <2> QED
    BY <1>2, <1>3, <2>1, Elsewhere
<1>5. CASE symbol(w) = s
  <2>1. Booking(w, s) /\ Booking(w, s)'
    BY <1>1, <1>3, <1>5 DEF Booking
  <2>2. \A v \in Workers : v # w => ~Booking(v, s)
    BY <1>2, <2>1 DEF LedgerOf, Alone
  <2>3. NetOf(s)' = NetOf(s) /\ CashOf(s)' = CashOf(s) /\ lots'[s] = result[w][1].lots
    BY <1>1, <1>3, <1>5 DEF NetOf, CashOf, IInv, TypesInv
  <2>4. Matched(s, w)
    BY <1>2 DEF LedgerOf
  <2>5. Assigned(s, w)'
    BY <1>1, <1>3, <2>1, <2>3, <2>4 DEF Matched, Assigned
  <2>6. Before(s, w)' /\ Matched(s, w)'
    BY <1>1 DEF Before, Matched
  <2>7. Settled(s)'
    BY <2>1, StillBusy
  <2> QED
    BY <2>2, <2>5, <2>6, <2>7, OwnStep
<1> QED
  BY <1>4, <1>5

LEMMA LedgerExtendTrades ==
  ASSUME IInv, IInv', LedgerInv, NEW w \in Workers, ExtendTrades(w), OthersStay(w),
         NEW s \in Symbols \ overlapped'
  PROVE  LedgerOf(s)'
<1>1. /\ pc[w] = "extend" /\ pc'[w] = "idle" /\ UNCHANGED <<fills, position, lots, overlapped>>
  BY DEF ExtendTrades, Goto, IInv, TypesInv
<1>2. LedgerOf(s) /\ TypesInv /\ TypesInv' /\ HoldsFill(w)
  BY <1>1 DEF LedgerInv, IInv, Holdings
<1>3. PICK s1, new, more : Extending(w, s1, new, more)
  BY ExtendingTrades
<1>4. s1 = symbol(w) /\ new = result[w][1].trades
  BY <1>3 DEF Extending
<1>5. /\ Plain(new) \in Seq(ClosedTrades)
      /\ s1 = s => TradesOf(s)' = TradesOf(s) \o Plain(new)
      /\ s1 # s => TradesOf(s)' = TradesOf(s)
  BY <1>2, <1>3, TradesOfGrow
<1>6. FillsOf(s)' = FillsOf(s) /\ lots'[s] = lots[s] /\ ~Booking(w, s)'
  BY <1>1 DEF FillsOf, Booking
<1>7. CASE symbol(w) # s
  <2>1. ~Booking(w, s) /\ TradesOf(s)' = TradesOf(s)
    BY <1>4, <1>5, <1>7 DEF Booking
  <2> QED
    BY <1>2, <1>6, <2>1, Elsewhere
<1>8. CASE symbol(w) = s
  <2>1. Booking(w, s)
    BY <1>1, <1>8 DEF Booking
  <2>2. \A v \in Workers : v # w => ~Booking(v, s)
    BY <1>2, <2>1 DEF LedgerOf, Alone
  <2>3. NetOf(s)' = NetOf(s) /\ CashOf(s)' = CashOf(s)
    BY <1>6 DEF NetOf, CashOf
  <2>4. Reconciled(lots[s], TradesOf(s) \o Plain(new), NetOf(s), CashOf(s), fill[w][1].rank + 1)
    BY <1>1, <1>2, <1>4, <2>1 DEF LedgerOf, Assigned
  <2>5. PICK r \in Nat : r = fill[w][1].rank /\ r <= Len(fills)
    BY <1>1, <1>2, HeldFill
  <2>6. PICK L \in Seq(OpenLots), T \in Seq(ClosedTrades) : L = lots'[s] /\ T = TradesOf(s)'
    <3>1. PICK old \in Seq(ClosedTrades), own \in Seq(ClosedTrades) :
            old = TradesOf(s) /\ own = Plain(new)
      BY <1>2, <1>5, TradesOfType
    <3>2. old \o own \in Seq(ClosedTrades)
      OBVIOUS
    <3>3. lots'[s] \in Seq(OpenLots)
      BY <1>2 DEF TypesInv
    <3> QED
      BY <1>4, <1>5, <1>8, <3>1, <3>2, <3>3
  <2>7. Reconciled(L, T, NetOf(s), CashOf(s), r + 1)
    BY <1>4, <1>5, <1>6, <1>8, <2>4, <2>5, <2>6
  <2>8. Len(fills') \in Nat /\ fills' = fills
    BY <1>1, <1>2 DEF TypesInv
  <2>9. r + 1 \in Nat /\ Len(fills') + 1 \in Nat /\ r + 1 <= Len(fills') + 1
    BY <2>5, <2>8
  <2>10. Reconciled(L, T, NetOf(s), CashOf(s), Len(fills') + 1)
    BY <2>7, <2>9, ReconciledLater
  <2>11. Settled(s)'
    BY <2>3, <2>6, <2>10 DEF Settled
  <2>12. Before(s, w)' /\ Matched(s, w)' /\ Assigned(s, w)'
    BY <1>6 DEF Before, Matched, Assigned
  <2> QED
    BY <2>2, <2>11, <2>12, OwnStep
<1> QED
  BY <1>7, <1>8

LEMMA LedgerInit == Init => LedgerInv
<1> SUFFICES ASSUME Init, NEW s \in Symbols
             PROVE  LedgerOf(s)
  BY DEF LedgerInv
<1>1. /\ lots[s] = <<>> /\ fills = <<>> /\ trades = <<>> /\ \A w \in Workers : pc[w] = "idle"
  BY DEF Init
<1>2. \A E, P : Chosen(<<>>, P) = <<>>
  <2> TAKE E, P
  <2>1. <<>> \in Seq(E) /\ Len(<<>>) = 0
    OBVIOUS
  <2>2. \A i \in 1..Len(<<>>) : i \notin P
    OBVIOUS
  <2> QED
    BY <2>1, <2>2, ChosenNone
<1>3. TradesOf(s) = <<>> /\ FillsOf(s) = <<>>
  <2>1. [n \in DOMAIN trades |-> trades[n].trade] = <<>>
    BY <1>1
  <2> QED
    BY <1>1, <1>2, <2>1 DEF TradesOf, FillsOf
<1>4. Reconciled(<<>>, <<>>, 0, 0, 1)
  BY SumsEmpty DEF Reconciled, OneSided, Ordered
<1>5. NetOf(s) = 0 /\ CashOf(s) = 0 /\ Len(fills) + 1 = 1
  BY <1>1, <1>3, SumsEmpty DEF NetOf, CashOf
<1>6. Settled(s)
  BY <1>1, <1>3, <1>4, <1>5 DEF Settled
<1>7. \A w \in Workers : ~Booking(w, s)
  BY <1>1 DEF Booking
<1> QED
  BY <1>6, <1>7 DEF LedgerOf, Alone, Before, Matched, Assigned

LEMMA LedgerStutter ==
  ASSUME LedgerInv, UNCHANGED vars
  PROVE  LedgerInv'
<1>1. overlapped' = overlapped
  BY DEF vars
<1>2. ASSUME NEW s \in Symbols \ overlapped
      PROVE  LedgerOf(s)'
  <2>1. LedgerOf(s)
    BY DEF LedgerInv
  <2>2. TradesOf(s)' = TradesOf(s) /\ NetOf(s)' = NetOf(s) /\ CashOf(s)' = CashOf(s)
        /\ (Busy(s)' <=> Busy(s)) /\ \A w \in Workers : Booking(w, s)' <=> Booking(w, s)
    BY DEF TradesOf, FillsOf, NetOf, CashOf, Busy, Booking, symbol, vars, books
  <2>3. Alone(s)' /\ Settled(s)'
    BY <2>1, <2>2 DEF LedgerOf, Alone, Settled, vars, books
  <2>4. ASSUME NEW w \in Workers
        PROVE  Before(s, w)' /\ Matched(s, w)' /\ Assigned(s, w)'
    BY <2>1, <2>2 DEF LedgerOf, Before, Matched, Assigned, vars, books
  <2> QED
    BY <2>3, <2>4 DEF LedgerOf
<1> QED
  BY <1>1, <1>2 DEF LedgerInv

\* Through matching, assigning and extending, the ledger of a symbol whose fills
\* were booked one at a time is reconciled with them (Reconciled).
THEOREM LedgerInvariant == Spec => [](IInv /\ LedgerInv)
<1>1. Init => IInv /\ LedgerInv
  BY InitTypes, LedgerInit
<1>2. IInv /\ LedgerInv /\ [Next]_vars => (IInv /\ LedgerInv)'
  <2> SUFFICES ASSUME IInv, LedgerInv, [Next]_vars
               PROVE  (IInv /\ LedgerInv)'
    OBVIOUS
  <2>1. CASE UNCHANGED vars
    BY <2>1, TypesStutter, LedgerStutter
  <2>2. ASSUME NEW w \in Workers,
               \/ MatchPosition(w) \/ AssignPosition(w) \/ AppendLot(w)
               \/ MatchTrades(w) \/ AssignLots(w) \/ ExtendTrades(w)
        PROVE  (IInv /\ LedgerInv)'
    <3>1. IInv' /\ OthersStay(w)
      BY <2>2, TypesStep
    <3>2. ASSUME NEW s \in Symbols \ overlapped'
          PROVE  LedgerOf(s)'
      BY <2>2, <3>1, LedgerMatchPosition, LedgerPosition, LedgerMatchTrades, LedgerAssignLots,
         LedgerExtendTrades
    <3> QED
      BY <3>1, <3>2 DEF LedgerInv
  <2> QED
    BY <2>1, <2>2 DEF Next
<1> QED
  BY <1>1, <1>2, PTL DEF Spec

\* The sums of the properties.
LEMMA SumsOf ==
  ASSUME NEW s
  PROVE  /\ SumOf(SignedQuantity, lots[s]) = NetQuantity(lots[s])
         /\ SumOf(SignedValue, lots[s]) = Worth(lots[s])
         /\ FilledNet(s) = NetOf(s)
         /\ SumOf(SignedValue, FillsOf(s)) = CashOf(s)
         /\ RealizedByTrades(s) = Profit(TradesOf(s))
BY DEF SumOf, SignedQuantity, SignedValue, NetQuantity, Worth, Value, FilledNet, NetOf, CashOf,
       RealizedByTrades, Profit

LEMMA QuietLedger ==
  ASSUME IInv, LedgerInv, NEW s \in Symbols, Quiet(s)
  PROVE  Reconciled(lots[s], TradesOf(s), NetOf(s), CashOf(s), Len(fills) + 1)
BY DEF LedgerInv, LedgerOf, Settled, Quiet

\* The open lots apply_fill of the ledger leaves are what was bought less what
\* was sold, and of one side, for any threads, symbols and fills.
THEOREM LedgerConserved == Spec => []LedgerConserves
<1>1. IInv /\ LedgerInv => LedgerConserves
  <2> SUFFICES ASSUME IInv, LedgerInv, NEW s \in Symbols, Quiet(s)
               PROVE  /\ SumOf(SignedQuantity, lots[s]) = FilledNet(s)
                      /\ \A m, n \in DOMAIN lots[s] : lots[s][m].side = lots[s][n].side
    BY DEF LedgerConserves
  <2>1. Reconciled(lots[s], TradesOf(s), NetOf(s), CashOf(s), Len(fills) + 1)
    BY QuietLedger
  <2>2. DOMAIN lots[s] = 1..Len(lots[s])
    <3>1. lots[s] \in Seq(OpenLots)
      BY DEF IInv, TypesInv
    <3> QED
      BY <3>1
  <2>3. \A m, n \in DOMAIN lots[s] : lots[s][m].side = lots[s][n].side
    BY <2>1, <2>2 DEF Reconciled, OneSided
  <2> QED
    BY <2>1, <2>3, SumsOf DEF Reconciled
<1> QED
  BY <1>1, LedgerInvariant, PTL

\* The profits _compute_pnl gives the trades are the cash of the fills and the
\* cost of the open lots, for any threads, symbols and fills.
THEOREM ProfitBalances == Spec => []ProfitIsCashFlow
<1>1. IInv /\ LedgerInv => ProfitIsCashFlow
  <2> SUFFICES ASSUME IInv, LedgerInv, NEW s \in Symbols, Quiet(s)
               PROVE  RealizedByTrades(s) =
                        SumOf(SignedValue, lots[s]) - SumOf(SignedValue, FillsOf(s))
    BY DEF ProfitIsCashFlow
  <2>1. Reconciled(lots[s], TradesOf(s), NetOf(s), CashOf(s), Len(fills) + 1)
    BY QuietLedger
  <2> QED
    BY <2>1, SumsOf DEF Reconciled
<1> QED
  BY <1>1, LedgerInvariant, PTL

\* The loop over the lots closes them in the order they were opened, for any
\* threads, symbols and fills.
THEOREM OldestClosedFirst == Spec => []FirstInFirstOut
<1>1. IInv /\ LedgerInv => FirstInFirstOut
  <2> SUFFICES ASSUME IInv, LedgerInv, NEW s \in Symbols, Quiet(s)
               PROVE  LET own == TradesOf(s) IN
                        /\ \A m, n \in DOMAIN own : m < n => own[m].entry <= own[n].entry
                        /\ \A m \in DOMAIN own, n \in DOMAIN lots[s] :
                             own[m].entry <= lots[s][n].rank
                        /\ \A m \in DOMAIN own : own[m].entry < own[m].exit
    BY DEF FirstInFirstOut
  <2>1. Reconciled(lots[s], TradesOf(s), NetOf(s), CashOf(s), Len(fills) + 1)
    BY QuietLedger
  <2>2. DOMAIN lots[s] = 1..Len(lots[s]) /\ DOMAIN TradesOf(s) = 1..Len(TradesOf(s))
    <3>1. lots[s] \in Seq(OpenLots) /\ TradesOf(s) \in Seq(ClosedTrades)
      BY TradesOfType DEF IInv, TypesInv
    <3> QED
      BY <3>1
  <2> QED
    BY <2>1, <2>2 DEF Reconciled
<1> QED
  BY <1>1, LedgerInvariant, PTL

----------------------------------------------------------------------------
(***************************************************************************)
(* The ids of trades.                                                      *)
(***************************************************************************)
\* A step that adds no trade, and is not the thread's that has numbered some.
LEMMA IdsStay ==
  ASSUME IdsInv, NEW w \in Workers, OthersStay(w), trades' = trades, overlapped \subseteq overlapped',
         LowIds(w)', \A s \in Symbols \ overlapped' : NewIds(s, w)'
  PROVE  IdsInv'
<1>1. ASSUME NEW s \in Symbols \ overlapped', NEW v \in Workers, v # w
      PROVE  NewIds(s, v)'
  <2>1. NewIds(s, v) /\ pc'[v] = pc[v] /\ fill'[v] = fill[v] /\ result'[v] = result[v]
    BY <1>1 DEF IdsInv, OthersStay
  <2> QED
    BY <2>1 DEF NewIds, Booking, symbol
<1>2. \A s \in Symbols \ overlapped' : IdsOf(s)'
  BY DEF IdsInv, IdsOf
<1>3. \A v \in Workers : LowIds(v)'
  BY DEF IdsInv, OthersStay, LowIds
<1> QED
  BY <1>1, <1>2, <1>3 DEF IdsInv

LEMMA IdsQuietStep ==
  ASSUME IInv, IdsInv, NEW w \in Workers, OthersStay(w),
         MatchPosition(w) \/ AssignPosition(w) \/ AppendLot(w) \/ AssignLots(w)
  PROVE  IdsInv'
<1>1. /\ trades' = trades /\ overlapped \subseteq overlapped'
      /\ \/ pc'[w] \in {"assign", "append", "match"}
         \/ pc[w] = "ledger" /\ fill' = fill /\ result' = result
  BY DEF MatchPosition, AssignPosition, AppendLot, AssignLots, Goto, books, IInv, TypesInv
<1>2. \A s \in Symbols \ overlapped' : NewIds(s, w)'
  BY <1>1 DEF IdsInv, NewIds, Booking, symbol
<1>3. LowIds(w)'
  BY <1>1 DEF IdsInv, LowIds
<1> QED
  BY <1>1, <1>2, <1>3, IdsStay

LEMMA IdsMatchTrades ==
  ASSUME IInv, IdsInv, NEW w \in Workers, OthersStay(w), MatchTrades(w)
  PROVE  IdsInv'
<1>1. trades' = trades /\ overlapped' = overlapped /\ TypesInv
  BY DEF MatchTrades, books, IInv
<1>2. PICK x, done : Outgoing(w, x, done)
  BY MatchingTrades
<1>3. PICK new \in Seq(NumberedTrades) :
        /\ new = Number(done.trades, trades) /\ result'[w][1].trades = new
        /\ \A i \in 1..Len(new) : new[i].id = Len(trades) + i
  BY <1>1, <1>2 DEF Outgoing, TypesInv
<1>4. PICK k \in Nat : k = Len(trades)
  BY <1>1 DEF TypesInv
<1>5. /\ DOMAIN new = 1..Len(new) /\ DOMAIN trades = 1..k
      /\ \A n \in 1..k : trades[n].id \in Nat /\ trades[n].id <= n
  <2>1. \A n \in 1..k : trades[n] \in SymbolTrades
    BY <1>1, <1>4 DEF TypesInv
  <2>2. \A n \in 1..k : trades[n].id \in Nat
    BY <2>1 DEF SymbolTrades
  <2>3. DOMAIN trades = 1..k
    BY <1>1, <1>4 DEF TypesInv
  <2> QED
    BY <2>2, <2>3 DEF IdsInv
<1>6. /\ \A i \in DOMAIN new : new[i].id <= k + i
      /\ \A i, j \in DOMAIN new : i # j => new[i].id # new[j].id
      /\ \A i \in DOMAIN new, n \in DOMAIN trades : trades[n].id # new[i].id
  BY <1>3, <1>4, <1>5
<1>7. \A s \in Symbols \ overlapped' : NewIds(s, w)'
  BY <1>1, <1>3, <1>4, <1>6 DEF NewIds
<1>8. LowIds(w)'
  BY <1>1, <1>3, <1>4, <1>6 DEF LowIds
<1> QED
  BY <1>1, <1>7, <1>8, IdsStay

LEMMA IdsExtendTrades ==
  ASSUME IInv, LedgerInv, IdsInv, NEW w \in Workers, OthersStay(w), ExtendTrades(w)
  PROVE  IdsInv'
<1>1. pc[w] = "extend" /\ pc'[w] = "idle" /\ overlapped' = overlapped /\ TypesInv
  BY DEF ExtendTrades, Goto, IInv, TypesInv
<1>2. PICK s1, new, more : Extending(w, s1, new, more)
  BY ExtendingTrades
<1>3. PICK N \in Seq(NumberedTrades) : N = new /\ N = result[w][1].trades /\ s1 = symbol(w)
  BY <1>2 DEF Extending
<1>4. PICK M \in Seq(SymbolTrades) : M = more /\ Len(M) = Len(N)
                                     /\ \A i \in 1..Len(N) : M[i].symbol = s1 /\ M[i].id = N[i].id
  BY <1>2, <1>3 DEF Extending
<1>5. PICK T \in Seq(SymbolTrades) : T = trades
  BY <1>1 DEF TypesInv
<1>6. PICK W \in Seq(SymbolTrades) : W = trades' /\ W = T \o M
  <2>1. T \o M \in Seq(SymbolTrades)
    OBVIOUS
  <2> QED
    BY <1>2, <1>4, <1>5, <2>1 DEF Extending
<1>7. /\ Len(T) \in Nat /\ Len(N) \in Nat /\ Len(W) = Len(T) + Len(N)
      /\ DOMAIN N = 1..Len(N) /\ DOMAIN T = 1..Len(T) /\ DOMAIN W = 1..Len(W)
      /\ \A n \in 1..Len(W) :
           \/ n \in 1..Len(T) /\ W[n] = T[n]
           \/ n - Len(T) \in 1..Len(N) /\ n = Len(T) + (n - Len(T)) /\ W[n] = M[n - Len(T)]
  BY <1>4, <1>6
<1>8. ASSUME NEW n \in 1..Len(W)
      PROVE  W[n].id <= n
  <2>1. CASE n \in 1..Len(T) /\ W[n] = T[n]
    BY <1>5, <1>7, <2>1 DEF IdsInv
  <2>2. CASE n - Len(T) \in 1..Len(N) /\ n = Len(T) + (n - Len(T)) /\ W[n] = M[n - Len(T)]
    <3>1. PICK i \in 1..Len(N) : n = Len(T) + i /\ W[n] = M[i]
      BY <2>2
    <3>2. N[i].id <= Len(T) + i
      BY <1>1, <1>3, <1>5, <1>7 DEF IdsInv, LowIds
    <3> QED
      BY <1>4, <3>1, <3>2
  <2> QED
    BY <1>7, <2>1, <2>2
<1>9. ASSUME NEW s \in Symbols \ overlapped'
      PROVE  IdsOf(s)'
  <2>1. IdsOf(s) /\ NewIds(s, w)
    BY <1>1 DEF IdsInv
  <2>2. s1 = s =>
          /\ \A i, j \in 1..Len(N) : i # j => N[i].id # N[j].id
          /\ \A i \in 1..Len(N), n \in 1..Len(T) : T[n].symbol = s => T[n].id # N[i].id
    <3> SUFFICES ASSUME s1 = s
                 PROVE  /\ \A i, j \in 1..Len(N) : i # j => N[i].id # N[j].id
                        /\ \A i \in 1..Len(N), n \in 1..Len(T) : T[n].symbol = s => T[n].id # N[i].id
      OBVIOUS
    <3>1. Booking(w, s) /\ pc[w] \in {"ledger", "extend"}
      BY <1>1, <1>3 DEF Booking
    <3>2. /\ \A i, j \in DOMAIN N : i # j => N[i].id # N[j].id
          /\ \A i \in DOMAIN N, n \in DOMAIN T : T[n].symbol = s => T[n].id # N[i].id
      BY <1>3, <1>5, <2>1, <3>1 DEF NewIds
    <3> QED
      BY <1>7, <3>2
  <2>3. \A m, n \in 1..Len(T) :
          m # n /\ T[m].symbol = s /\ T[n].symbol = s => T[m].id # T[n].id
    BY <1>5, <1>7, <2>1 DEF IdsOf
  <2> SUFFICES ASSUME NEW m \in 1..Len(W), NEW n \in 1..Len(W), m # n,
                      W[m].symbol = s, W[n].symbol = s
               PROVE  W[m].id # W[n].id
    BY <1>6, <1>7 DEF IdsOf
  <2>4. CASE m \in 1..Len(T) /\ W[m] = T[m] /\ n \in 1..Len(T) /\ W[n] = T[n]
    BY <2>3, <2>4
  <2>5. ASSUME NEW i \in 1..Len(N), W[n] = M[i], m \in 1..Len(T), W[m] = T[m]
        PROVE  W[m].id # W[n].id
    BY <1>4, <2>2, <2>5
  <2>6. ASSUME NEW i \in 1..Len(N), W[m] = M[i], n \in 1..Len(T), W[n] = T[n]
        PROVE  W[m].id # W[n].id
    BY <1>4, <2>2, <2>6
  <2>7. ASSUME NEW i \in 1..Len(N), NEW j \in 1..Len(N), W[m] = M[i], W[n] = M[j],
               m = Len(T) + i, n = Len(T) + j
        PROVE  W[m].id # W[n].id
    BY <1>4, <2>2, <2>7
  <2> QED
    BY <1>7, <2>4, <2>5, <2>6, <2>7
<1>10. ASSUME NEW v \in Workers
       PROVE  LowIds(v)'
  <2>1. CASE v = w
    BY <1>1, <2>1 DEF LowIds
  <2>2. CASE v # w
    <3>1. pc'[v] = pc[v] /\ result'[v] = result[v] /\ LowIds(v)
      BY <2>2 DEF OthersStay, IdsInv
    <3> SUFFICES ASSUME pc[v] \in {"ledger", "extend"}, NEW i \in DOMAIN result[v][1].trades
                 PROVE  result[v][1].trades[i].id <= Len(W) + i
      BY <1>6, <3>1 DEF LowIds
    <3>2. PICK R \in Seq(NumberedTrades) : R = result[v][1].trades
      BY DEF IInv, Holdings, HoldsLots
    <3>3. R[i] \in NumberedTrades /\ i \in Nat
      BY <3>2
    <3>4. R[i].id \in Nat
      BY <3>3 DEF NumberedTrades
    <3>5. R[i].id <= Len(T) + i
      BY <1>5, <3>1, <3>2 DEF LowIds
    <3> QED
      BY <1>7, <3>2, <3>3, <3>4, <3>5, SMTT(20)
  <2> QED
    BY <2>1, <2>2
<1>11. ASSUME NEW s \in Symbols \ overlapped', NEW v \in Workers
       PROVE  NewIds(s, v)'
  <2>1. CASE v = w
    BY <1>1, <2>1 DEF NewIds, Booking
  <2>2. CASE v # w
    <3>1. pc'[v] = pc[v] /\ fill'[v] = fill[v] /\ result'[v] = result[v] /\ NewIds(s, v)
      BY <1>1, <2>2 DEF OthersStay, IdsInv
    <3>2. Booking(v, s)' <=> Booking(v, s)
      BY <3>1 DEF Booking, symbol
    <3> SUFFICES ASSUME Booking(v, s), pc[v] \in {"ledger", "extend"}
                 PROVE  LET own == result[v][1].trades IN
                          \A i \in DOMAIN own, n \in DOMAIN W :
                            W[n].symbol = s => W[n].id # own[i].id
      BY <1>6, <3>1, <3>2 DEF NewIds
    <3>3. s1 # s
      <4>1. s1 = s => Booking(w, s)
        BY <1>1, <1>3 DEF Booking
      <4>2. Alone(s)
        BY <1>1 DEF LedgerInv, LedgerOf
      <4> QED
        BY <2>2, <4>1, <4>2 DEF Alone
    <3>4. \A n \in DOMAIN W : W[n].symbol = s => n \in DOMAIN T /\ W[n] = T[n]
      BY <1>4, <1>7, <3>3
    <3> QED
      BY <1>5, <3>1, <3>4 DEF NewIds
  <2> QED
    BY <2>1, <2>2
<1> QED
  BY <1>6, <1>7, <1>8, <1>9, <1>10, <1>11 DEF IdsInv

\* No two trades get one id from the length of the shared list, unless two fills
\* of one symbol were booked together, for any threads, symbols and fills.
THEOREM IdsUnique == Spec => []TradeIdsUnique
<1>1. Init => IdsInv
  BY DEF Init, IdsInv, IdsOf, NewIds, LowIds
<1>2. IInv /\ LedgerInv /\ IdsInv /\ [Next]_vars => IdsInv'
  <2> SUFFICES ASSUME IInv, LedgerInv, IdsInv, [Next]_vars
               PROVE  IdsInv'
    OBVIOUS
  <2>1. CASE UNCHANGED vars
    BY <2>1 DEF IdsInv, IdsOf, NewIds, LowIds, Booking, symbol, vars, books
  <2>2. ASSUME NEW w \in Workers,
               \/ MatchPosition(w) \/ AssignPosition(w) \/ AppendLot(w)
               \/ MatchTrades(w) \/ AssignLots(w) \/ ExtendTrades(w)
        PROVE  IdsInv'
    BY <2>2, TypesStep, IdsQuietStep, IdsMatchTrades, IdsExtendTrades
  <2> QED
    BY <2>1, <2>2 DEF Next
<1>3. IInv /\ IdsInv => TradeIdsUnique
  <2> SUFFICES ASSUME IInv, IdsInv, NEW m \in DOMAIN trades, NEW n \in DOMAIN trades, m # n,
                      trades[m].symbol = trades[n].symbol, trades[m].symbol \notin overlapped
               PROVE  trades[m].id # trades[n].id
    BY DEF TradeIdsUnique
  <2>1. trades[m] \in SymbolTrades
    BY DEF IInv, TypesInv
  <2>2. trades[m].symbol \in Symbols \ overlapped
    BY <2>1 DEF SymbolTrades
  <2> QED
    BY <2>2 DEF IdsInv, IdsOf
<1> QED
  BY <1>1, <1>2, <1>3, LedgerInvariant, PTL DEF Spec

----------------------------------------------------------------------------
(***************************************************************************)
(* The position.                                                           *)
(***************************************************************************)
\* Once a fill has come on top of lots of its side, it has for good; until then,
\* a fill comes on lots of the other side only.
LEMMA PyramidedStays ==
  ASSUME NEW s, FillsOf(s)' = FillsOf(s)
  PROVE  Pyramided(s)' <=> Pyramided(s)
BY DEF Pyramided

LEMMA NotOnTop ==
  ASSUME TypesInv, NEW s, NEW x \in FillRecords, x.symbol = s, fills' = Append(fills, x)
  PROVE  /\ Pyramided(s) => Pyramided(s)'
         /\ ~Pyramided(s)' => ~(NetOf(s) * Signed(x.side, x.quantity) > 0)
<1>1. PICK F \in Seq(FillRecords) : F = FillsOf(s)
  BY FillsOfType
<1>2. PICK G \in Seq(FillRecords) : G = Append(F, x)
  BY AppendProperties
<1>3. FillsOf(s)' = G
  BY <1>1, <1>2, FillsOfGrow
<1>4. /\ Len(G) = Len(F) + 1 /\ G[Len(F) + 1] = x /\ (\A n \in 1..Len(F) : G[n] = F[n])
      /\ Len(F) \in Nat /\ DOMAIN G = 1..Len(G) /\ DOMAIN F = 1..Len(F)
  BY <1>2
<1>5. \A n \in 1..Len(G) : SubSeq(G, 1, n - 1) = SubSeq(F, 1, n - 1)
  BY <1>2, <1>4
<1>6. SubSeq(F, 1, Len(F)) = F /\ Len(F) + 1 \in 1..Len(G) /\ (Len(F) + 1) - 1 = Len(F)
  BY <1>4
<1> DEFINE Top(H, n) == SumOf(SignedQuantity, SubSeq(H, 1, n - 1)) * SignedQuantity(H[n]) > 0
<1>7. /\ Pyramided(s) <=> \E n \in 1..Len(F) : Top(F, n)
      /\ Pyramided(s)' <=> \E n \in 1..Len(G) : Top(G, n)
  BY <1>1, <1>3, <1>4 DEF Pyramided
<1>8. \A n \in 1..Len(F) : n \in 1..Len(G) /\ (Top(F, n) <=> Top(G, n))
  <2> TAKE n \in 1..Len(F)
  <2>1. n \in 1..Len(G) /\ G[n] = F[n] /\ SubSeq(G, 1, n - 1) = SubSeq(F, 1, n - 1)
    BY <1>4, <1>5
  <2> QED
    BY <2>1
<1>9. Top(G, Len(F) + 1) <=> SumOf(SignedQuantity, F) * SignedQuantity(x) > 0
  BY <1>4, <1>5, <1>6
<1>10. SumOf(SignedQuantity, F) = NetOf(s) /\ SignedQuantity(x) = Signed(x.side, x.quantity)
  BY <1>1, SumsOf DEF FilledNet, SignedQuantity
<1> HIDE DEF Top
<1> QED
  BY <1>6, <1>7, <1>8, <1>9, <1>10

\* The lots it comes on are of the other side.
LEMMA OnOtherSide ==
  ASSUME NEW L \in Seq(OpenLots), OneSided(L), NEW x, IsFill(x),
         ~(NetQuantity(L) * Signed(x.side, x.quantity) > 0)
  PROVE  \A n \in 1..Len(L) : L[n].side = Opposite(x.side)
<1> SUFFICES ASSUME NEW n \in 1..Len(L)
             PROVE  L[n].side = Opposite(x.side)
  OBVIOUS
<1>1. PICK lot \in OpenLots : lot = L[n]
  OBVIOUS
<1>2. PICK side \in Sides : side = lot.side
  BY DEF OpenLots
<1>3. \A m \in 1..Len(L) : L[m].side = side
  BY <1>1, <1>2 DEF OneSided
<1>4. OfOneSide(L, side)
  BY <1>3, OneSidedSums
<1>5. Len(L) > 0
  OBVIOUS
<1>6. PICK a \in Nat : a = Amount(L) /\ a > 0 /\ NetQuantity(L) = Signed(side, a)
  BY <1>4, <1>5 DEF OfOneSide
<1>7. PICK q \in Nat : q = x.quantity /\ q > 0
  BY DEF IsFill
<1>8. x.side \in Sides
  BY DEF IsFill
<1>9. CASE side = x.side
  <2>1. a * q > 0 /\ (-a) * (-q) > 0
    <3>1. a * q > 0
      BY <1>6, <1>7
    <3>2. (-a) * (-q) = a * q
      OBVIOUS
    <3> QED
      BY <3>1, <3>2
  <2>2. Signed(side, a) * Signed(side, q) > 0
    BY <2>1 DEF Signed
  <2> QED
    BY <1>6, <1>7, <1>9, <2>2
<1>10. CASE side # x.side
  BY <1>1, <1>2, <1>8, <1>10 DEF Opposite, Sides
<1> QED
  BY <1>9, <1>10

LEMMA AfterType ==
  ASSUME IInv, NEW s \in Symbols, NEW w \in Workers, pc[w] # "idle"
  PROVE  After(s, w).lots \in Seq(OpenLots) /\ After(s, w).trades \in Seq(ClosedTrades)
<1>1. TypesInv /\ HoldsFill(w)
  BY DEF IInv, Holdings
<1>2. PICK L \in Seq(OpenLots) : L = lots[s]
  BY <1>1 DEF TypesInv
<1>3. PICK x : x = fill[w][1] /\ IsFill(x)
  BY <1>1, HeldFill
<1>4. PICK none \in Seq(ClosedTrades) : none = <<>>
  <2>1. <<>> \in Seq(ClosedTrades)
    OBVIOUS
  <2> QED
    BY <2>1
<1>5. Accounted(L, none, x, ApplyToLedger([lots |-> L, trades |-> none], x))
  BY <1>3, ApplyBooks
<1> QED
  BY <1>2, <1>3, <1>4, <1>5 DEF After, Accounted

LEMMA HeldElsewhere ==
  ASSUME NEW s \in Symbols, NEW w \in Workers, OthersStay(w), HeldOf(s),
         ~Booking(w, s), ~Booking(w, s)', lots'[s] = lots[s], position'[s] = position[s],
         TradesOf(s)' = TradesOf(s)
  PROVE  HeldOf(s)'
<1>1. \A v \in Workers :
        /\ Booking(v, s)' <=> Booking(v, s)
        /\ Booking(v, s) => pc'[v] = pc[v] /\ fill'[v] = fill[v] /\ result'[v] = result[v]
  BY DEF OthersStay, Booking, symbol
<1>2. HeldSettled(s)'
  <2>1. Busy(s)' <=> Busy(s)
    BY <1>1 DEF Busy, Booking
  <2> QED
    BY <2>1 DEF HeldOf, HeldSettled, Books
<1>3. ASSUME NEW v \in Workers
      PROVE  /\ HeldClosed(s, v)' /\ HeldAssigned(s, v)' /\ HeldAppended(s, v)'
             /\ HeldMatched(s, v)' /\ HeldExtended(s, v)'
  <2>1. CASE ~Booking(v, s)
    BY <1>1, <2>1 DEF HeldClosed, HeldAssigned, HeldAppended, HeldMatched, HeldExtended
  <2>2. CASE Booking(v, s)
    <3>1. /\ pc'[v] = pc[v] /\ fill'[v] = fill[v] /\ result'[v] = result[v]
          /\ Booking(v, s)' /\ After(s, v)' = After(s, v)
      BY <1>1, <2>2 DEF After
    <3>2. /\ HeldClosed(s, v) /\ HeldAssigned(s, v) /\ HeldAppended(s, v)
          /\ HeldMatched(s, v) /\ HeldExtended(s, v)
      BY DEF HeldOf
    <3>3. HeldClosed(s, v)' /\ HeldAssigned(s, v)'
      BY <2>2, <3>1, <3>2 DEF HeldClosed, HeldAssigned
    <3>4. HeldAppended(s, v)' /\ HeldMatched(s, v)' /\ HeldExtended(s, v)'
      BY <2>2, <3>1, <3>2 DEF HeldAppended, HeldMatched, HeldExtended, Books
    <3> QED
      BY <3>3, <3>4
  <2> QED
    BY <2>1, <2>2
<1> QED
  BY <1>2, <1>3 DEF HeldOf

LEMMA HeldOwn ==
  ASSUME NEW s, NEW w \in Workers, OthersStay(w), \A v \in Workers : v # w => ~Booking(v, s),
         HeldSettled(s)', HeldClosed(s, w)', HeldAssigned(s, w)', HeldAppended(s, w)',
         HeldMatched(s, w)', HeldExtended(s, w)'
  PROVE  HeldOf(s)'
<1>1. \A v \in Workers : v # w => ~Booking(v, s)'
  BY DEF OthersStay, Booking, symbol
<1>2. ASSUME NEW v \in Workers
      PROVE  /\ HeldClosed(s, v)' /\ HeldAssigned(s, v)' /\ HeldAppended(s, v)'
             /\ HeldMatched(s, v)' /\ HeldExtended(s, v)'
  <2>1. CASE v = w
    BY <2>1
  <2>2. CASE v # w
    BY <1>1, <2>2 DEF HeldClosed, HeldAssigned, HeldAppended, HeldMatched, HeldExtended
  <2> QED
    BY <2>1, <2>2
<1> QED
  BY <1>2 DEF HeldOf

\* The steps of a fill that is not on top of lots of its side.
LEMMA HeldMatchPosition ==
  ASSUME IInv, IInv', LedgerInv, HeldInv, NEW w \in Workers, MatchPosition(w), OthersStay(w),
         NEW s \in Symbols \ overlapped', ~Pyramided(s)'
  PROVE  HeldOf(s)'
<1>1. PICK s1, x, done : Incoming(w, s1, x, done)
  BY MatchingPosition DEF IInv
<1>2. TypesInv /\ TypesInv'
  BY DEF IInv
<1>3. pc[w] = "idle" /\ pc'[w] = "assign" /\ UNCHANGED <<position, lots, trades>>
  BY <1>2 DEF MatchPosition, Goto, books, TypesInv
<1>4. /\ x \in FillRecords /\ s1 \in Symbols /\ x.symbol = s1 /\ x.rank = Len(fills) + 1
      /\ done = CloseLots([position[s1] EXCEPT !.realized_pnl = 0], x.side, x.quantity, x.price)
      /\ fills' = Append(fills, x) /\ fill'[w] = <<x>> /\ result'[w] = <<done>>
      /\ overlapped' = overlapped \cup (IF Busy(s1) THEN {s1} ELSE {})
  BY <1>1, <1>2 DEF Incoming, TypesInv
<1>5. LedgerOf(s) /\ s \in Symbols \ overlapped
  BY <1>4 DEF LedgerInv
<1>6. TradesOf(s)' = TradesOf(s) /\ lots'[s] = lots[s] /\ position'[s] = position[s]
  BY <1>3 DEF TradesOf
<1>7. fill'[w][1] = x /\ symbol(w)' = s1 /\ result'[w][1] = done
  BY <1>4 DEF symbol
<1>8. CASE s1 # s
  <2>1. FillsOf(s)' = FillsOf(s)
    BY <1>2, <1>4, <1>8, FillsOfGrow
  <2>2. ~Booking(w, s) /\ ~Booking(w, s)'
    BY <1>3, <1>7, <1>8 DEF Booking
  <2>3. HeldOf(s)
    BY <1>5, <2>1, PyramidedStays DEF HeldInv
  <2> QED
    BY <1>6, <2>2, <2>3, HeldElsewhere
<1>9. CASE s1 = s
  <2>1. ~Busy(s)
    BY <1>4, <1>9
  <2>2. \A v \in Workers : ~Booking(v, s)
    BY <2>1, BusyIsBooking
  <2>3. ~Pyramided(s) /\ ~(NetOf(s) * Signed(x.side, x.quantity) > 0)
    BY <1>2, <1>4, <1>9, NotOnTop
  <2>4. HeldOf(s)
    BY <1>5, <2>3 DEF HeldInv
  <2>5. position[s].open_lots = Stripped(lots[s]) /\ position[s].realized_pnl = Profit(TradesOf(s))
    BY <2>1, <2>4 DEF HeldOf, HeldSettled, Books
  <2>6. Reconciled(lots[s], TradesOf(s), NetOf(s), CashOf(s), Len(fills) + 1)
    BY <1>5, <2>1 DEF LedgerOf, Settled
  <2>7. PICK L \in Seq(OpenLots) : L = lots[s]
    BY <1>2 DEF TypesInv
  <2>8. OneSided(L) /\ NetQuantity(L) = NetOf(s) /\ IsFill(x)
    BY <1>4, <2>6, <2>7, FillsAreFills DEF Reconciled
  <2>9. \A n \in 1..Len(L) : L[n].side = Opposite(x.side)
    BY <2>3, <2>8, OnOtherSide
  <2>10. PICK P \in Positions : P = [position[s] EXCEPT !.realized_pnl = 0]
    <3>1. position[s] \in Positions
      BY <1>2 DEF TypesInv
    <3>2. [position[s] EXCEPT !.realized_pnl = 0] \in Positions
      BY <3>1, SMTT(20) DEF Positions
    <3> QED
      BY <3>2
  <2>11. P.open_lots = Stripped(L) /\ P.realized_pnl = 0
    <3>1. position[s] \in Positions
      BY <1>2 DEF TypesInv
    <3> QED
      BY <2>5, <2>7, <2>10, <3>1 DEF Positions
  <2>12. Alike(CloseLots(P, x.side, x.quantity, x.price),
               ApplyToLedger([lots |-> L, trades |-> <<>>], x), x, P.realized_pnl)
    BY <2>8, <2>9, <2>11, ClosedAlike
  <2>13. Alike(done, After(s, w)', x, 0)
    BY <1>4, <1>6, <1>7, <1>9, <2>7, <2>10, <2>11, <2>12 DEF After
  <2>14. HeldClosed(s, w)'
    BY <1>6, <1>7, <2>5, <2>13 DEF HeldClosed
  <2>15. /\ HeldAssigned(s, w)' /\ HeldAppended(s, w)' /\ HeldMatched(s, w)' /\ HeldExtended(s, w)'
    BY <1>3 DEF HeldAssigned, HeldAppended, HeldMatched, HeldExtended
  <2>16. HeldSettled(s)'
    BY <1>3, <1>7, <1>9 DEF HeldSettled, Busy
  <2> QED
    BY <2>2, <2>14, <2>15, <2>16, HeldOwn
<1> QED
  BY <1>8, <1>9

\* The other steps leave the fills: what the thread of the symbol knows, and what
\* it has to reach.
LEMMA HeldStep ==
  ASSUME IInv, LedgerInv, HeldInv, NEW w \in Workers, OthersStay(w), fills' = fills,
         overlapped' = overlapped, fill'[w] = fill[w] \/ pc'[w] = "idle", pc[w] # "idle",
         \A s \in Symbols : s # symbol(w) =>
           lots'[s] = lots[s] /\ position'[s] = position[s] /\ TradesOf(s)' = TradesOf(s),
         NEW s \in Symbols \ overlapped', ~Pyramided(s)',
         s = symbol(w) /\ HeldOf(s) =>
           /\ HeldSettled(s)' /\ HeldClosed(s, w)' /\ HeldAssigned(s, w)'
           /\ HeldAppended(s, w)' /\ HeldMatched(s, w)' /\ HeldExtended(s, w)'
  PROVE  HeldOf(s)'
<1>1. ~Pyramided(s)
  BY PyramidedStays DEF FillsOf
<1>2. LedgerOf(s) /\ HeldOf(s)
  BY <1>1 DEF LedgerInv, HeldInv
<1>3. CASE symbol(w) # s
  <2>1. ~Booking(w, s) /\ ~Booking(w, s)'
    BY <1>3 DEF Booking, symbol
  <2> QED
    BY <1>2, <1>3, <2>1, HeldElsewhere
<1>4. CASE symbol(w) = s
  <2>1. \A v \in Workers : v # w => ~Booking(v, s)
    BY <1>2, <1>4 DEF LedgerOf, Alone, Booking
  <2> QED
    BY <1>2, <1>4, <2>1, HeldOwn
<1> QED
  BY <1>3, <1>4

LEMMA HeldAssignPosition ==
  ASSUME IInv, IInv', LedgerInv, HeldInv, NEW w \in Workers, AssignPosition(w), OthersStay(w),
         NEW s \in Symbols \ overlapped', ~Pyramided(s)'
  PROVE  HeldOf(s)'
<1>1. /\ pc[w] = "assign" /\ pc'[w] = "append"
      /\ position' = [position EXCEPT ![symbol(w)] =
                        [open_lots |-> result[w][1].lots,
                         realized_pnl |-> @.realized_pnl + result[w][1].pnl]]
      /\ UNCHANGED <<fills, lots, trades, fill, result, overlapped>>
  BY DEF AssignPosition, Goto, IInv, TypesInv
<1>2. TypesInv /\ HoldsClosing(w)
  BY DEF IInv, Holdings
<1>3. \A t : TradesOf(t)' = TradesOf(t)
  BY <1>1 DEF TradesOf
<1>4. ASSUME s = symbol(w), HeldOf(s)
      PROVE  /\ HeldSettled(s)' /\ HeldClosed(s, w)' /\ HeldAssigned(s, w)'
             /\ HeldAppended(s, w)' /\ HeldMatched(s, w)' /\ HeldExtended(s, w)'
  <2>1. Booking(w, s) /\ Booking(w, s)'
    BY <1>1, <1>4 DEF Booking, symbol
  <2>2. /\ position[s].realized_pnl = Profit(TradesOf(s))
        /\ Alike(result[w][1], After(s, w), fill[w][1], 0)
    BY <1>1, <1>4, <2>1 DEF HeldOf, HeldClosed
  <2>3. position'[s].open_lots = result[w][1].lots
        /\ position'[s].realized_pnl = position[s].realized_pnl + result[w][1].pnl
    BY <1>1, <1>2, <1>4 DEF TypesInv
  <2>4. After(s, w)' = After(s, w)
    BY <1>1 DEF After
  <2>5. PICK p \in Int, q \in Int : p = Profit(TradesOf(s)) /\ q = Profit(After(s, w).trades)
    BY <1>1, <1>2, TradesOfType, AfterType, ProfitType
  <2>6. position'[s].realized_pnl = p + q
    BY <2>2, <2>3, <2>5 DEF Alike
  <2>7. HeldAssigned(s, w)'
    BY <1>1, <1>3, <2>2, <2>3, <2>4, <2>5, <2>6 DEF HeldAssigned, Alike
  <2> QED
    BY <1>1, <2>1, <2>7 DEF HeldSettled, Busy, Booking, HeldClosed, HeldAppended, HeldMatched,
       HeldExtended
<1>5. \A t \in Symbols : t # symbol(w) => position'[t] = position[t]
  BY <1>1, <1>2 DEF TypesInv
<1> QED
  BY <1>1, <1>3, <1>4, <1>5, HeldStep

LEMMA HeldAppendLot ==
  ASSUME IInv, IInv', LedgerInv, HeldInv, NEW w \in Workers, AppendLot(w), OthersStay(w),
         NEW s \in Symbols \ overlapped', ~Pyramided(s)'
  PROVE  HeldOf(s)'
<1>1. /\ pc[w] = "append" /\ pc'[w] = "match"
      /\ position' = [position EXCEPT ![symbol(w)].open_lots =
                        @ \o Left(fill[w][1].side, result[w][1].remaining, fill[w][1].price)]
      /\ UNCHANGED <<fills, lots, trades, fill, result, overlapped>>
  BY DEF AppendLot, Goto, IInv, TypesInv
<1>2. TypesInv
  BY DEF IInv
<1>3. \A t : TradesOf(t)' = TradesOf(t)
  BY <1>1 DEF TradesOf
<1>4. ASSUME s = symbol(w), HeldOf(s)
      PROVE  /\ HeldSettled(s)' /\ HeldClosed(s, w)' /\ HeldAssigned(s, w)'
             /\ HeldAppended(s, w)' /\ HeldMatched(s, w)' /\ HeldExtended(s, w)'
  <2>1. Booking(w, s) /\ Booking(w, s)'
    BY <1>1, <1>4 DEF Booking, symbol
  <2>2. /\ position[s].open_lots \o Left(fill[w][1].side, result[w][1].remaining, fill[w][1].price)
             = Stripped(After(s, w).lots)
        /\ position[s].realized_pnl = Profit(TradesOf(s)) + Profit(After(s, w).trades)
    BY <1>1, <1>4, <2>1 DEF HeldOf, HeldAssigned
  <2>3. /\ position'[s].open_lots =
             position[s].open_lots \o Left(fill[w][1].side, result[w][1].remaining, fill[w][1].price)
        /\ position'[s].realized_pnl = position[s].realized_pnl
    <3>1. position[s] \in Positions
      BY <1>2 DEF TypesInv
    <3> QED
      BY <1>1, <1>2, <1>4, <3>1 DEF TypesInv, Positions
  <2>4. After(s, w)' = After(s, w)
    BY <1>1 DEF After
  <2>5. PICK T \in Seq(ClosedTrades), U \in Seq(ClosedTrades) :
          T = TradesOf(s) /\ U = After(s, w).trades
    BY <1>1, <1>2, TradesOfType, AfterType
  <2>6. Profit(T \o U) = Profit(T) + Profit(U)
    BY ProfitConcat
  <2>7. HeldAppended(s, w)'
    BY <1>3, <2>2, <2>3, <2>4, <2>5, <2>6 DEF HeldAppended, Books
  <2> QED
    BY <1>1, <2>1, <2>7 DEF HeldSettled, Busy, Booking, HeldClosed, HeldAssigned, HeldMatched,
       HeldExtended
<1>5. \A t \in Symbols : t # symbol(w) => position'[t] = position[t]
  BY <1>1, <1>2 DEF TypesInv
<1> QED
  BY <1>1, <1>3, <1>4, <1>5, HeldStep

LEMMA HeldMatchTrades ==
  ASSUME IInv, IInv', LedgerInv, HeldInv, NEW w \in Workers, MatchTrades(w), OthersStay(w),
         NEW s \in Symbols \ overlapped', ~Pyramided(s)'
  PROVE  HeldOf(s)'
<1>1. /\ pc[w] = "match" /\ pc'[w] = "ledger"
      /\ UNCHANGED <<fills, position, lots, trades, fill, overlapped>>
  BY DEF MatchTrades, Goto, books, IInv, TypesInv
<1>2. TypesInv
  BY DEF IInv
<1>3. \A t : TradesOf(t)' = TradesOf(t)
  BY <1>1 DEF TradesOf
<1>4. ASSUME s = symbol(w), HeldOf(s)
      PROVE  /\ HeldSettled(s)' /\ HeldClosed(s, w)' /\ HeldAssigned(s, w)'
             /\ HeldAppended(s, w)' /\ HeldMatched(s, w)' /\ HeldExtended(s, w)'
  <2>1. Booking(w, s) /\ Booking(w, s)'
    BY <1>1, <1>4 DEF Booking, symbol
  <2>2. Books(s, After(s, w).lots, TradesOf(s) \o After(s, w).trades)
    BY <1>1, <1>4, <2>1 DEF HeldOf, HeldAppended
  <2>3. PICK x, done : Outgoing(w, x, done)
    BY MatchingTrades
  <2>4. /\ result'[w][1].lots = done.lots
        /\ Plain(result'[w][1].trades) = done.trades
    <3>1. result'[w] = <<[lots |-> done.lots, trades |-> Number(done.trades, trades)]>>
      BY <1>2, <2>3 DEF Outgoing, TypesInv
    <3> QED
      BY <2>3, <3>1 DEF Outgoing
  <2>5. done = After(s, w)
    BY <1>4, <2>3 DEF Outgoing
  <2>6. HeldMatched(s, w)'
    BY <1>1, <1>3, <2>2, <2>4, <2>5 DEF HeldMatched, Books
  <2> QED
    BY <1>1, <2>1, <2>6 DEF HeldSettled, Busy, Booking, HeldClosed, HeldAssigned, HeldAppended,
       HeldExtended
<1> QED
  BY <1>1, <1>3, <1>4, HeldStep

LEMMA HeldAssignLots ==
  ASSUME IInv, IInv', LedgerInv, HeldInv, NEW w \in Workers, AssignLots(w), OthersStay(w),
         NEW s \in Symbols \ overlapped', ~Pyramided(s)'
  PROVE  HeldOf(s)'
<1>1. /\ pc[w] = "ledger" /\ pc'[w] = "extend"
      /\ lots' = [lots EXCEPT ![symbol(w)] = result[w][1].lots]
      /\ UNCHANGED <<fills, position, trades, fill, result, overlapped>>
  BY DEF AssignLots, Goto, IInv, TypesInv
<1>2. TypesInv
  BY DEF IInv
<1>3. \A t : TradesOf(t)' = TradesOf(t)
  BY <1>1 DEF TradesOf
<1>4. ASSUME s = symbol(w), HeldOf(s)
      PROVE  /\ HeldSettled(s)' /\ HeldClosed(s, w)' /\ HeldAssigned(s, w)'
             /\ HeldAppended(s, w)' /\ HeldMatched(s, w)' /\ HeldExtended(s, w)'
  <2>1. Booking(w, s) /\ Booking(w, s)'
    BY <1>1, <1>4 DEF Booking, symbol
  <2>2. Books(s, result[w][1].lots, TradesOf(s) \o Plain(result[w][1].trades))
    BY <1>1, <1>4, <2>1 DEF HeldOf, HeldMatched
  <2>3. lots'[s] = result[w][1].lots
    BY <1>1, <1>2, <1>4 DEF TypesInv
  <2>4. HeldExtended(s, w)'
    BY <1>1, <1>3, <2>2, <2>3 DEF HeldExtended, Books
  <2> QED
    BY <1>1, <2>1, <2>4 DEF HeldSettled, Busy, Booking, HeldClosed, HeldAssigned, HeldAppended,
       HeldMatched
<1>5. \A t \in Symbols : t # symbol(w) => lots'[t] = lots[t]
  BY <1>1, <1>2 DEF TypesInv
<1> QED
  BY <1>1, <1>3, <1>4, <1>5, HeldStep

LEMMA HeldExtendTrades ==
  ASSUME IInv, IInv', LedgerInv, HeldInv, NEW w \in Workers, ExtendTrades(w), OthersStay(w),
         NEW s \in Symbols \ overlapped', ~Pyramided(s)'
  PROVE  HeldOf(s)'
<1>1. /\ pc[w] = "extend" /\ pc'[w] = "idle" /\ UNCHANGED <<fills, position, lots, overlapped>>
  BY DEF ExtendTrades, Goto, IInv, TypesInv
<1>2. TypesInv
  BY DEF IInv
<1>3. PICK s1, new, more : Extending(w, s1, new, more)
  BY ExtendingTrades
<1>4. s1 = symbol(w) /\ new = result[w][1].trades
  BY <1>3 DEF Extending
<1>5. \A t : /\ s1 = t => TradesOf(t)' = TradesOf(t) \o Plain(new)
             /\ s1 # t => TradesOf(t)' = TradesOf(t)
  BY <1>2, <1>3, TradesOfGrow
<1>6. ASSUME s = symbol(w), HeldOf(s)
      PROVE  /\ HeldSettled(s)' /\ HeldClosed(s, w)' /\ HeldAssigned(s, w)'
             /\ HeldAppended(s, w)' /\ HeldMatched(s, w)' /\ HeldExtended(s, w)'
  <2>1. Booking(w, s)
    BY <1>1, <1>6 DEF Booking
  <2>2. Books(s, lots[s], TradesOf(s) \o Plain(new))
    BY <1>1, <1>4, <1>6, <2>1 DEF HeldOf, HeldExtended
  <2>3. HeldSettled(s)'
    BY <1>1, <1>4, <1>5, <1>6, <2>2 DEF HeldSettled, Books
  <2> QED
    BY <1>1, <2>3 DEF Booking, HeldClosed, HeldAssigned, HeldAppended, HeldMatched, HeldExtended
<1> QED
  BY <1>1, <1>4, <1>5, <1>6, HeldStep

LEMMA HeldInit == Init => HeldInv
<1> SUFFICES ASSUME Init, NEW s \in Symbols
             PROVE  HeldOf(s)
  BY DEF HeldInv
<1>1. /\ lots[s] = <<>> /\ fills = <<>> /\ trades = <<>> /\ \A w \in Workers : pc[w] = "idle"
      /\ position[s].open_lots = <<>> /\ position[s].realized_pnl = 0
  BY DEF Init, FlatPosition
<1>2. TradesOf(s) = <<>>
  <2>1. [n \in DOMAIN trades |-> trades[n].trade] = <<>>
    BY <1>1
  <2>2. <<>> \in Seq(ClosedTrades) /\ Len(<<>>) = 0
    OBVIOUS
  <2>3. \A P : Chosen(<<>>, P) = <<>>
    <3> TAKE P
    <3>1. \A i \in 1..Len(<<>>) : i \notin P
      OBVIOUS
    <3> QED
      BY <2>2, <3>1, ChosenNone
  <2> QED
    BY <2>1, <2>3 DEF TradesOf
<1>3. Stripped(<<>>) = <<>>
  BY DEF Stripped
<1>4. HeldSettled(s)
  BY <1>1, <1>2, <1>3, SumsEmpty DEF HeldSettled, Books
<1>5. \A w \in Workers : ~Booking(w, s)
  BY <1>1 DEF Booking
<1> QED
  BY <1>4, <1>5 DEF HeldOf, HeldClosed, HeldAssigned, HeldAppended, HeldMatched, HeldExtended

LEMMA HeldStutter ==
  ASSUME HeldInv, UNCHANGED vars
  PROVE  HeldInv'
<1>1. UNCHANGED <<fills, position, lots, trades, pc, fill, result, overlapped>>
  BY DEF vars, books
<1>2. ASSUME NEW s \in Symbols \ overlapped, ~Pyramided(s)'
      PROVE  HeldOf(s)'
  <2>1. ~Pyramided(s)
    BY <1>1, <1>2, PyramidedStays DEF FillsOf
  <2>2. HeldOf(s)
    BY <2>1 DEF HeldInv
  <2>3. /\ TradesOf(s)' = TradesOf(s) /\ (Busy(s)' <=> Busy(s))
        /\ \A w \in Workers : (Booking(w, s)' <=> Booking(w, s)) /\ After(s, w)' = After(s, w)
    BY <1>1 DEF TradesOf, Busy, Booking, symbol, After
  <2>4. HeldSettled(s)'
    BY <1>1, <2>2, <2>3 DEF HeldOf, HeldSettled, Books
  <2>5. ASSUME NEW w \in Workers
        PROVE  /\ HeldClosed(s, w)' /\ HeldAssigned(s, w)' /\ HeldAppended(s, w)'
               /\ HeldMatched(s, w)' /\ HeldExtended(s, w)'
    <3>1. HeldClosed(s, w)' /\ HeldAssigned(s, w)'
      BY <1>1, <2>2, <2>3 DEF HeldOf, HeldClosed, HeldAssigned
    <3>2. HeldAppended(s, w)' /\ HeldMatched(s, w)' /\ HeldExtended(s, w)'
      BY <1>1, <2>2, <2>3 DEF HeldOf, HeldAppended, HeldMatched, HeldExtended, Books
    <3> QED
      BY <3>1, <3>2
  <2> QED
    BY <2>4, <2>5 DEF HeldOf
<1> QED
  BY <1>1, <1>2 DEF HeldInv

\* The two books go together through every step of a fill.
THEOREM HeldInvariant == Spec => [](IInv /\ LedgerInv /\ HeldInv)
<1>1. Init => HeldInv
  BY HeldInit
<1>2. IInv /\ LedgerInv /\ IInv' /\ HeldInv /\ [Next]_vars => HeldInv'
  <2> SUFFICES ASSUME IInv, LedgerInv, IInv', HeldInv, [Next]_vars
               PROVE  HeldInv'
    OBVIOUS
  <2>1. CASE UNCHANGED vars
    BY <2>1, HeldStutter
  <2>2. ASSUME NEW w \in Workers,
               \/ MatchPosition(w) \/ AssignPosition(w) \/ AppendLot(w)
               \/ MatchTrades(w) \/ AssignLots(w) \/ ExtendTrades(w)
        PROVE  HeldInv'
    <3>1. OthersStay(w)
      BY <2>2, TypesStep
    <3>2. ASSUME NEW s \in Symbols \ overlapped', ~Pyramided(s)'
          PROVE  HeldOf(s)'
      BY <2>2, <3>1, <3>2, HeldMatchPosition, HeldAssignPosition, HeldAppendLot, HeldMatchTrades,
         HeldAssignLots, HeldExtendTrades
    <3> QED
      BY <3>2 DEF HeldInv
  <2> QED
    BY <2>1, <2>2 DEF Next
<1> QED
  BY <1>1, <1>2, LedgerInvariant, PTL DEF Spec

LEMMA QuietPosition ==
  ASSUME HeldInv, NEW s \in Symbols, Quiet(s), ~Pyramided(s)
  PROVE  Books(s, lots[s], TradesOf(s))
BY DEF HeldInv, HeldOf, HeldSettled, Quiet

\* The positions and the ledger, written by two different loops, hold the same
\* lots and report the same profit as long as no fill came on top of lots of its
\* side, for any threads, symbols and fills.
THEOREM BooksAgree == Spec => []BooksAgreeUnlessPyramided
<1>1. IInv /\ LedgerInv /\ HeldInv => BooksAgreeUnlessPyramided
  <2> SUFFICES ASSUME HeldInv, NEW s \in Symbols, Quiet(s), ~Pyramided(s)
               PROVE  /\ position[s].open_lots = [n \in DOMAIN lots[s] |-> WithoutRank(lots[s][n])]
                      /\ position[s].realized_pnl = RealizedByTrades(s)
    BY DEF BooksAgreeUnlessPyramided
  <2>1. Books(s, lots[s], TradesOf(s))
    BY QuietPosition
  <2>2. Stripped(lots[s]) = [n \in DOMAIN lots[s] |-> WithoutRank(lots[s][n])]
    BY DEF Stripped, WithoutRank
  <2> QED
    BY <2>1, <2>2, SumsOf DEF Books
<1> QED
  BY <1>1, HeldInvariant, PTL

\* The sums of a snapshot of lots of one side, bought or sold: v is what they
\* cost, c the cash that went into the fills.
LEMMA LongEquity ==
  ASSUME NEW q \in Int, NEW v \in Int, NEW c \in Int, NEW m \in Int
  PROVE  q * (v - c) + (m * q - v) * q = q * (m * q - c)
<1>1. PICK a \in Int : a = m * q
  OBVIOUS
<1>2. q * (v - c) = q * v - q * c /\ (a - v) * q = a * q - v * q /\ q * (a - c) = q * a - q * c
  OBVIOUS
<1>3. PICK qv \in Int, qc \in Int, qa \in Int : qv = q * v /\ qc = q * c /\ qa = q * a
  OBVIOUS
<1>4. v * q = qv /\ a * q = qa
  BY <1>3
<1> QED
  BY <1>1, <1>2, <1>3, <1>4

LEMMA ShortEquity ==
  ASSUME NEW q \in Int, NEW v \in Int, NEW c \in Int, NEW m \in Int
  PROVE  q * ((-v) - c) + (v - m * q) * q = q * (m * (-q) - c)
<1>1. PICK a \in Int : a = m * q
  OBVIOUS
<1>2. m * (-q) = -a
  BY <1>1
<1>3. q * ((-v) - c) = -(q * v) - q * c /\ (v - a) * q = v * q - a * q
      /\ q * ((-a) - c) = -(q * a) - q * c
  OBVIOUS
<1>4. PICK qv \in Int, qc \in Int, qa \in Int : qv = q * v /\ qc = q * c /\ qa = q * a
  OBVIOUS
<1>5. v * q = qv /\ a * q = qa
  BY <1>4
<1> QED
  BY <1>1, <1>2, <1>3, <1>4, <1>5

\* What pnl.py reports of a position at any mark is the worth of what was filled
\* less the cash that went into it, for any threads, symbols and fills.
THEOREM EquityBalances == Spec => []EquityIsCashFlow
<1>1. IInv /\ LedgerInv /\ HeldInv => EquityIsCashFlow
  <2> SUFFICES ASSUME IInv, LedgerInv, HeldInv, NEW s \in Symbols, NEW mark \in Prices,
                      Quiet(s), ~Pyramided(s)
               PROVE  TotalPnl(s, mark) =
                        LotQuantity(s) * (mark * FilledNet(s) - SumOf(SignedValue, FillsOf(s)))
    BY DEF EquityIsCashFlow
  <2>1. position[s].open_lots = Stripped(lots[s]) /\ position[s].realized_pnl = Profit(TradesOf(s))
    BY QuietPosition DEF Books
  <2>2. Reconciled(lots[s], TradesOf(s), NetOf(s), CashOf(s), Len(fills) + 1)
    BY QuietLedger
  <2>3. PICK L \in Seq(OpenLots) : L = lots[s]
    BY DEF IInv, TypesInv
  <2>4. PICK side \in Sides : \A n \in 1..Len(L) : L[n].side = side
    <3>1. CASE L = <<>>
      BY <3>1 DEF Sides
    <3>2. CASE L # <<>>
      <4>1. 1 \in 1..Len(L) /\ L[1] \in OpenLots
        BY <3>2
      <4>2. L[1].side \in Sides
        BY <4>1 DEF OpenLots
      <4> QED
        BY <2>2, <2>3, <4>1, <4>2 DEF Reconciled, OneSided
    <3> QED
      BY <3>1, <3>2
  <2>5. OfOneSide(L, side)
    BY <2>4, OneSidedSums
  <2>6. PICK q \in Nat, v \in Int : q = Amount(L) /\ v = Cost(L)
    BY <2>5 DEF OfOneSide
  <2>7. PICK c \in Int, m \in Int : c = CashOf(s) /\ m = mark
    <3>1. \A p \in Prices : p \in Int
      BY FillAssumption
    <3> QED
      BY <3>1, FillsOfType DEF IInv
  <2>8. LotQuantity(s) = q /\ LotValue(s) = v /\ net(s) = Signed(side, q)
    <3>1. LotQuantity(s) = Amount(Stripped(L)) /\ LotValue(s) = Cost(Stripped(L))
          /\ net(s) = NetQuantity(Stripped(L))
      BY <2>1, <2>3 DEF LotQuantity, LotValue, net, SumOf, Amount, Cost
    <3> QED
      BY <2>5, <2>6, <3>1, StrippedSums DEF OfOneSide
  <2>9. position[s].realized_pnl = Signed(side, v) - c /\ FilledNet(s) = Signed(side, q)
        /\ SumOf(SignedValue, FillsOf(s)) = c
    BY <2>1, <2>2, <2>3, <2>5, <2>6, <2>7, SumsOf DEF Reconciled, OfOneSide
  <2>10. CASE side = "BUY"
    <3>1. Signed(side, q) = q /\ Signed(side, v) = v
      BY <2>10 DEF Signed
    <3>2. Unrealized(s, mark) = (m * q - v) * q
      <4>1. CASE q = 0
        BY <2>7, <2>8, <3>1, <4>1 DEF Unrealized
      <4>2. CASE q > 0
        BY <2>7, <2>8, <3>1, <4>2 DEF Unrealized
      <4> QED
        BY <4>1, <4>2
    <3> QED
      BY <2>7, <2>8, <2>9, <3>1, <3>2, LongEquity DEF TotalPnl
  <2>11. CASE side = "SELL"
    <3>1. Signed(side, q) = -q /\ Signed(side, v) = -v
      BY <2>11 DEF Signed
    <3>2. Unrealized(s, mark) = (v - m * q) * q
      <4>1. CASE q = 0
        BY <2>7, <2>8, <3>1, <4>1 DEF Unrealized
      <4>2. CASE q > 0
        <5>1. Magnitude(-q) = q /\ -q < 0 /\ ~(-q > 0)
          BY <4>2 DEF Magnitude
        <5> QED
          BY <2>7, <2>8, <3>1, <5>1 DEF Unrealized
      <4> QED
        BY <4>1, <4>2
    <3> QED
      BY <2>7, <2>8, <2>9, <3>1, <3>2, ShortEquity DEF TotalPnl
  <2> QED
    BY <2>10, <2>11 DEF Sides
<1> QED
  BY <1>1, HeldInvariant, PTL

----------------------------------------------------------------------------
(***************************************************************************)
(* The portfolio.  Its sums leave out flat positions, which add nothing.   *)
(***************************************************************************)
LEMMA InTurnSymbols == \A n \in 1..Cardinality(Symbols) : InTurn[n] \in Symbols
<1>1. PICK f \in Bijection(1..Cardinality(Symbols), Symbols) : TRUE
  BY SymbolsAssumption, FS_CardinalityType DEF ExistsBijection
<1>2. InTurn \in Bijection(1..Cardinality(Symbols), Symbols)
  BY <1>1 DEF InTurn
<1> QED
  BY <1>2 DEF Bijection, Injection

\* What build_snapshot adds up is what the fills left, for any threads, finite set of
\* symbols and fills: net and gross quantities and the profit of all trades.
THEOREM PortfolioMatchesFills == Spec => []PortfolioIsOfFills
<1>1. IInv /\ LedgerInv /\ HeldInv => PortfolioIsOfFills
  <2> SUFFICES ASSUME IInv, LedgerInv, HeldInv, Sound
               PROVE  PortfolioIsOfFills
    BY DEF PortfolioIsOfFills
  <2>1. ASSUME NEW s \in Symbols
        PROVE  net(s) = FilledNet(s) /\ position[s].realized_pnl = RealizedByTrades(s)
    <3>1. Quiet(s) /\ ~Pyramided(s)
      BY DEF Sound
    <3>2. position[s].open_lots = Stripped(lots[s]) /\ position[s].realized_pnl = Profit(TradesOf(s))
      BY <3>1, QuietPosition DEF Books
    <3>3. Reconciled(lots[s], TradesOf(s), NetOf(s), CashOf(s), Len(fills) + 1)
      BY <3>1, QuietLedger
    <3>4. lots[s] \in Seq(OpenLots)
      BY DEF IInv, TypesInv
    <3> QED
      BY <3>2, <3>3, <3>4, StrippedSums, SumsOf DEF net, Reconciled
  <2> DEFINE open == {s \in Symbols : net(s) # 0}
  <2>2. open = {s \in Symbols : FilledNet(s) # 0}
    BY <2>1
  <2> DEFINE N == Cardinality(Symbols)
  <2>3. ASSUME NEW n \in 1..N
        PROVE  LET s == InTurn[n] IN
                 /\ s \in Symbols
                 /\ s \in open => net(s) = FilledNet(s)
                 /\ s \notin open => FilledNet(s) = 0
                 /\ position[s].realized_pnl = RealizedByTrades(s)
    BY <2>1, InTurnSymbols
  <2>4. [n \in 1..N |-> IF InTurn[n] \in open THEN net(InTurn[n]) ELSE 0]
          = [n \in 1..N |-> IF InTurn[n] \in Symbols THEN FilledNet(InTurn[n]) ELSE 0]
    BY <2>3
  <2>5. [n \in 1..N |-> IF InTurn[n] \in open THEN Magnitude(net(InTurn[n])) ELSE 0]
          = [n \in 1..N |-> IF InTurn[n] \in Symbols THEN Magnitude(FilledNet(InTurn[n])) ELSE 0]
    BY <2>3 DEF Magnitude
  <2>6. [n \in 1..N |-> IF InTurn[n] \in Symbols THEN position[InTurn[n]].realized_pnl ELSE 0]
          = [n \in 1..N |-> IF InTurn[n] \in Symbols THEN RealizedByTrades(InTurn[n]) ELSE 0]
    BY <2>3
  <2> HIDE DEF open, N
  <2>7. SumOver(net, open) = SumOver(FilledNet, Symbols)
    BY <2>4 DEF SumOver, N
  <2>8. SumOver(LAMBDA s : Magnitude(net(s)), open)
          = SumOver(LAMBDA s : Magnitude(FilledNet(s)), Symbols)
    BY <2>5 DEF SumOver, N
  <2>9. SumOver(LAMBDA s : position[s].realized_pnl, Symbols) = SumOver(RealizedByTrades, Symbols)
    BY <2>6 DEF SumOver, N
  <2>10. /\ Portfolio.open_position_count = Cardinality(open)
         /\ Portfolio.net_quantity = SumOver(net, open)
         /\ Portfolio.gross_quantity = SumOver(LAMBDA s : Magnitude(net(s)), open)
         /\ Portfolio.realized_pnl = SumOver(LAMBDA s : position[s].realized_pnl, Symbols)
    BY DEF Portfolio, open
  <2> QED
    BY <2>2, <2>7, <2>8, <2>9, <2>10 DEF PortfolioIsOfFills
<1> QED
  BY <1>1, HeldInvariant, PTL
=============================================================================
