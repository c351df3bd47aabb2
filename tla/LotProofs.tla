----------------------------- MODULE LotProofs -----------------------------
(***************************************************************************)
(* What the loops of PositionLots and TradeLots compute, for all lots and  *)
(* fills.                                                                  *)
(***************************************************************************)
EXTENDS TradeLots, LoopProofs

----------------------------------------------------------------------------
(***************************************************************************)
(* The loop of the trade ledger.                                           *)
(***************************************************************************)
OpenLots == [side : Sides, quantity : Nat \ {0}, price : Int, rank : Nat]
ClosedTrades ==
  [entry_side : Sides, quantity : Nat \ {0}, entry_price : Int, exit_price : Int,
   entry : Nat, exit : Nat, realized_pnl : Int]
IsFill(x) ==
  x.side \in Sides /\ x.quantity \in Nat \ {0} /\ x.price \in Int /\ x.rank \in Nat

\* What the loop has between two turns.
LedgerTurns == [remaining : Nat, lots : Seq(OpenLots), trades : Seq(ClosedTrades)]

LEMMA GainType ==
  ASSUME NEW side, NEW entry \in Int, NEW exit \in Int
  PROVE  Gain(side, entry, exit) \in Int
BY DEF Gain

\* A lot of the other side is closed as far as the fill goes.
Closes(acc, lot, x) == acc.remaining # 0 /\ lot.side = Opposite(x.side)

Turned(acc, lot, x) ==
  LET matched == Lesser(acc.remaining, lot.quantity)
      left    == lot.quantity - matched
      rest    == [lot EXCEPT !.quantity = left]
      after   == Match(acc, lot, x)
  IN  /\ after \in LedgerTurns
      /\ ~Closes(acc, lot, x) =>
           /\ after.remaining = acc.remaining /\ after.trades = acc.trades
           /\ after.lots = Append(acc.lots, lot)
      /\ Closes(acc, lot, x) =>
           /\ matched \in Nat \ {0} /\ after.remaining = acc.remaining - matched
           /\ Trade(lot, x, matched) \in ClosedTrades
           /\ after.trades = Append(acc.trades, Trade(lot, x, matched))
           /\ \/ left = 0 /\ after.lots = acc.lots
              \/ /\ left \in Nat \ {0} /\ rest \in OpenLots /\ after.remaining = 0
                 /\ after.lots = Append(acc.lots, rest)

LEMMA MatchTurn ==
  ASSUME NEW acc \in LedgerTurns, NEW lot \in OpenLots, NEW x, IsFill(x)
  PROVE  Turned(acc, lot, x)
<1> DEFINE matched == Lesser(acc.remaining, lot.quantity)
           left    == lot.quantity - matched
           rest    == [lot EXCEPT !.quantity = left]
           after   == Match(acc, lot, x)
<1>1. /\ acc.remaining \in Nat /\ acc.lots \in Seq(OpenLots) /\ acc.trades \in Seq(ClosedTrades)
      /\ lot.side \in Sides /\ lot.quantity \in Nat \ {0} /\ lot.price \in Int /\ lot.rank \in Nat
  BY DEF LedgerTurns, OpenLots
<1>2. /\ x.side \in Sides /\ x.quantity \in Nat \ {0} /\ x.price \in Int /\ x.rank \in Nat
  BY DEF IsFill
<1>3. CASE ~Closes(acc, lot, x)
  <2>1. after = [acc EXCEPT !.lots = Append(@, lot)]
    BY <1>3 DEF Closes, Match
  <2>2. Append(acc.lots, lot) \in Seq(OpenLots)
    BY <1>1
  <2> QED
    BY <1>1, <1>3, <2>1, <2>2 DEF LedgerTurns, Turned
<1>4. CASE Closes(acc, lot, x)
  <2>1. after = [remaining |-> acc.remaining - matched,
                 lots |-> IF left > 0 THEN Append(acc.lots, rest) ELSE acc.lots,
                 trades |-> Append(acc.trades, Trade(lot, x, matched))]
    BY <1>4 DEF Closes, Match
  <2>2. /\ matched \in Nat \ {0} /\ matched <= acc.remaining /\ matched <= lot.quantity
        /\ matched = acc.remaining \/ matched = lot.quantity
    BY <1>1, <1>4 DEF Closes, Lesser
  <2> HIDE DEF matched
  <2>3. Gain(lot.side, lot.price, x.price) \in Int
    BY <1>1, <1>2, GainType
  <2>4. matched * Gain(lot.side, lot.price, x.price) \in Int
    BY <2>2, <2>3
  <2>5. Trade(lot, x, matched) \in ClosedTrades
    BY <1>1, <1>2, <2>2, <2>4 DEF Trade, ClosedTrades
  <2>6. left \in Nat /\ (left # 0 => left > 0 /\ acc.remaining - matched = 0)
    BY <1>1, <2>2
  <2>7. left # 0 => rest \in OpenLots
    BY <1>1, <2>6 DEF OpenLots
  <2> HIDE DEF left, rest, after
  <2>8. Append(acc.trades, Trade(lot, x, matched)) \in Seq(ClosedTrades)
    BY <1>1, <2>5
  <2>9. CASE left = 0
    <3>1. after = [remaining |-> acc.remaining - matched, lots |-> acc.lots,
                   trades |-> Append(acc.trades, Trade(lot, x, matched))]
      BY <2>1, <2>9
    <3>2. acc.remaining - matched \in Nat
      BY <1>1, <2>2
    <3>3. after \in LedgerTurns
      BY <1>1, <2>8, <3>1, <3>2 DEF LedgerTurns
    <3> QED
      BY <1>4, <2>2, <2>5, <2>9, <3>1, <3>3 DEF matched, left, rest, after, Turned
  <2>10. CASE left # 0
    <3>1. after = [remaining |-> acc.remaining - matched, lots |-> Append(acc.lots, rest),
                   trades |-> Append(acc.trades, Trade(lot, x, matched))]
      BY <2>1, <2>6, <2>10
    <3>2. acc.remaining - matched \in Nat /\ Append(acc.lots, rest) \in Seq(OpenLots)
      BY <1>1, <2>2, <2>7, <2>10
    <3>3. after \in LedgerTurns
      BY <2>8, <3>1, <3>2 DEF LedgerTurns
    <3> QED
      BY <1>4, <2>2, <2>5, <2>6, <2>7, <2>10, <3>1, <3>3 DEF matched, left, rest, after, Turned
  <2> QED
    BY <2>9, <2>10
<1> QED
  BY <1>3, <1>4

Matching(upTo, L, T, x) ==
  /\ upTo \in [0..Len(L) -> LedgerTurns]
  /\ upTo[0] = [remaining |-> x.quantity, lots |-> <<>>, trades |-> T]
  /\ \A i \in 1..Len(L) :
       upTo[i] = Match(upTo[i - 1], L[i], x) /\ Turned(upTo[i - 1], L[i], x)
  /\ MatchedLots([lots |-> L, trades |-> T], x) = upTo[Len(L)]

LEMMA MatchedLoop ==
  ASSUME NEW L \in Seq(OpenLots), NEW T \in Seq(ClosedTrades), NEW x, IsFill(x)
  PROVE  \E upTo : Matching(upTo, L, T, x)
<1> DEFINE n == Len(L)
           b == [remaining |-> x.quantity, lots |-> <<>>, trades |-> T]
           next(a, i) == Match(a, L[i], x)
           step == [i \in 1..n |-> [a \in LedgerTurns |-> next(a, i)]]
           loop == CHOOSE f : f = [i \in 0..n |-> IF i = 0 THEN b ELSE next(f[i - 1], i)]
<1>1. n \in Nat
  OBVIOUS
<1>2. \A i \in 1..n, a \in LedgerTurns : next(a, i) \in LedgerTurns /\ Turned(a, L[i], x)
  <2> TAKE i \in 1..n, a \in LedgerTurns
  <2>1. PICK lot \in OpenLots : lot = L[i]
    OBVIOUS
  <2>2. Turned(a, lot, x)
    BY MatchTurn
  <2> QED
    BY <2>1, <2>2 DEF Turned
<1>3. MatchedLots([lots |-> L, trades |-> T], x) = loop[n]
  BY DEF MatchedLots
<1>0. b \in LedgerTurns
  BY DEF LedgerTurns, IsFill
<1> HIDE DEF n, next, b
<1>4. Stepping(LedgerTurns, b, n, step)
  BY <1>1, <1>2, <1>0 DEF Stepping
<1>5. PICK f : Looping(f, LedgerTurns, b, n, step)
  BY <1>4, Recursion
<1>6. f = [i \in 0..n |-> IF i = 0 THEN b ELSE next(f[i - 1], i)]
  <2>1. f \in [0..n -> LedgerTurns] /\ f[0] = b /\ \A i \in 1..n : f[i] = step[i][f[i - 1]]
    BY <1>5 DEF Looping
  <2>2. ASSUME NEW i \in 1..n
        PROVE  f[i] = next(f[i - 1], i)
    <3>1. f[i - 1] \in LedgerTurns /\ step[i] = [a \in LedgerTurns |-> next(a, i)]
      BY <1>1, <2>1
    <3> QED
      BY <2>1, <3>1
  <2> HIDE DEF loop, step
  <2> QED
    BY <1>1, <2>1, <2>2
<1>7. loop = [i \in 0..n |-> IF i = 0 THEN b ELSE next(loop[i - 1], i)]
  BY <1>6
<1> HIDE DEF loop, step
<1>8. 0 \in 0..n /\ \A i \in 1..n : i \in 0..n /\ i # 0 /\ i - 1 \in 0..n
  BY <1>1
<1>9. loop[0] = b /\ \A i \in 1..n : loop[i] = next(loop[i - 1], i)
  BY <1>7, <1>8
<1>10. \A i \in 0..n : loop[i] \in LedgerTurns
  <2> DEFINE U == {i \in 0..n : loop[i] \in LedgerTurns}
  <2>1. 0 \in U
    BY <1>8, <1>9, <1>0
  <2>2. ASSUME NEW i \in 1..n, i - 1 \in U
        PROVE  i \in U
    BY <1>2, <1>8, <1>9, <2>2
  <2> HIDE DEF U
  <2>3. 0..n \subseteq U
    BY <1>1, <2>1, <2>2, IntervalInSet
  <2> QED
    BY <2>3 DEF U
<1>11. loop \in [0..n -> LedgerTurns]
  BY <1>7, <1>10
<1>12. \A i \in 1..n : Turned(loop[i - 1], L[i], x)
  BY <1>2, <1>8, <1>10
<1>13. Matching(loop, L, T, x)
  BY <1>3, <1>9, <1>11, <1>12 DEF n, next, b, Matching
<1> QED
  BY <1>13

----------------------------------------------------------------------------
(***************************************************************************)
(* What lots and fills come to: their signed quantity and value, and the   *)
(* profit of trades.                                                       *)
(***************************************************************************)
Value(x) == x.price * Signed(x.side, x.quantity)
Worth(seq) == Total([n \in DOMAIN seq |-> Value(seq[n])])
Profit(seq) == Total([n \in DOMAIN seq |-> seq[n].realized_pnl])

Priced(E) == \A e \in E : e.side \in Sides /\ e.quantity \in Nat /\ e.price \in Int

LEMMA SignedType ==
  ASSUME NEW side \in Sides, NEW q \in Int
  PROVE  Signed(side, q) \in Int
BY DEF Signed

LEMMA ValueType ==
  ASSUME NEW x, x.side \in Sides, x.quantity \in Nat, x.price \in Int
  PROVE  Signed(x.side, x.quantity) \in Int /\ Value(x) \in Int
<1>1. PICK q \in Int : q = Signed(x.side, x.quantity)
  BY SignedType
<1>2. x.price * q \in Int
  BY <1>1
<1> QED
  BY <1>1, <1>2 DEF Value

\* The sum of what v makes of the elements.
SumBy(v, seq) == Total([n \in DOMAIN seq |-> v[seq[n]]])
Adds(v, seq, e) ==
  SumBy(v, seq) \in Int /\ SumBy(v, Append(seq, e)) = SumBy(v, seq) + v[e]

Mapped(numbers, v, seq) ==
  /\ numbers \in Seq(Int) /\ numbers = [n \in DOMAIN seq |-> v[seq[n]]]
  /\ Len(numbers) = Len(seq) /\ \A n \in 1..Len(seq) : numbers[n] = v[seq[n]]

LEMMA MapType ==
  ASSUME NEW E, NEW v \in [E -> Int], NEW seq \in Seq(E)
  PROVE  \E numbers : Mapped(numbers, v, seq)
<1> DEFINE map == [n \in DOMAIN seq |-> v[seq[n]]]
<1>1. map \in Seq(Int)
  OBVIOUS
<1>2. Len(map) = Len(seq) /\ \A n \in 1..Len(seq) : map[n] = v[seq[n]]
  OBVIOUS
<1>3. Mapped(map, v, seq)
  BY <1>1, <1>2 DEF Mapped
<1> HIDE DEF map
<1> QED
  BY <1>3

LEMMA SumByAppend ==
  ASSUME NEW E, NEW v \in [E -> Int], NEW seq \in Seq(E), NEW e \in E
  PROVE  Adds(v, seq, e)
<1>1. Append(seq, e) \in Seq(E)
  OBVIOUS
<1>2. PICK more \in Seq(E) : more = Append(seq, e)
  BY <1>1
<1>3. PICK numbers : Mapped(numbers, v, seq)
  BY MapType
<1>4. PICK longer : Mapped(longer, v, more)
  BY MapType
<1>5. PICK x \in Int : x = v[e]
  OBVIOUS
<1>6. numbers \in Seq(Int) /\ longer \in Seq(Int)
  BY <1>3, <1>4 DEF Mapped
<1>7. longer = Append(numbers, x)
  <2>1. Len(more) = Len(seq) + 1 /\ more[Len(seq) + 1] = e
        /\ \A n \in 1..Len(seq) : more[n] = seq[n]
    BY <1>2
  <2>2. Len(numbers) = Len(seq) /\ \A n \in 1..Len(seq) : numbers[n] = v[seq[n]]
    BY <1>3 DEF Mapped
  <2>3. Len(longer) = Len(more) /\ \A n \in 1..Len(more) : longer[n] = v[more[n]]
    BY <1>4 DEF Mapped
  <2>4. \A n \in 1..Len(longer) : longer[n] = Append(numbers, x)[n]
    BY <1>5, <1>6, <2>1, <2>2, <2>3, SMTT(20)
  <2>5. Len(longer) = Len(Append(numbers, x)) /\ Append(numbers, x) \in Seq(Int)
    BY <1>6, <2>1, <2>2, <2>3
  <2>6. Extensional(Int)
    BY SameElements
  <2> QED
    BY <1>6, <2>4, <2>5, <2>6 DEF Extensional
<1>8. Total(Append(numbers, x)) = Total(numbers) + x /\ Total(numbers) \in Int
  BY <1>6, TotalAppend, TotalType
<1>9. SumBy(v, seq) = Total(numbers) /\ SumBy(v, more) = Total(longer)
  BY <1>3, <1>4 DEF Mapped, SumBy
<1> QED
  BY <1>2, <1>5, <1>7, <1>8, <1>9 DEF Adds

\* One element more adds what it comes to.
Sums(seq, e) ==
  /\ NetQuantity(seq) \in Int /\ Worth(seq) \in Int
  /\ NetQuantity(Append(seq, e)) = NetQuantity(seq) + Signed(e.side, e.quantity)
  /\ Worth(Append(seq, e)) = Worth(seq) + Value(e)

LEMMA SumsAppend ==
  ASSUME NEW E, Priced(E), NEW seq \in Seq(E), NEW e \in E
  PROVE  Sums(seq, e)
<1> DEFINE quantity == [x \in E |-> Signed(x.side, x.quantity)]
           value == [x \in E |-> Value(x)]
<1>1. quantity \in [E -> Int] /\ value \in [E -> Int]
  BY ValueType DEF Priced
<1>2. \A s \in Seq(E) : NetQuantity(s) = SumBy(quantity, s) /\ Worth(s) = SumBy(value, s)
  <2> TAKE s \in Seq(E)
  <2>1. \A n \in DOMAIN s : s[n] \in E
    OBVIOUS
  <2>2. [n \in DOMAIN s |-> Signed(s[n].side, s[n].quantity)] = [n \in DOMAIN s |-> quantity[s[n]]]
    BY <2>1
  <2>3. [n \in DOMAIN s |-> Value(s[n])] = [n \in DOMAIN s |-> value[s[n]]]
    BY <2>1
  <2> HIDE DEF quantity, value
  <2> QED
    BY <2>2, <2>3 DEF NetQuantity, Worth, SumBy
<1>3. quantity[e] = Signed(e.side, e.quantity) /\ value[e] = Value(e)
      /\ Append(seq, e) \in Seq(E)
  OBVIOUS
<1> HIDE DEF quantity, value
<1>4. Adds(quantity, seq, e) /\ Adds(value, seq, e)
  BY <1>1, SumByAppend
<1> QED
  BY <1>2, <1>3, <1>4 DEF Adds, Sums

LEMMA SumsEmpty == NetQuantity(<<>>) = 0 /\ Worth(<<>>) = 0 /\ Profit(<<>>) = 0
<1>1. \A f : DOMAIN f = {} /\ f = [n \in {} |-> f[n]] => f = <<>>
  OBVIOUS
<1>2. /\ [n \in DOMAIN <<>> |-> Signed(<<>>[n].side, <<>>[n].quantity)] = <<>>
      /\ [n \in DOMAIN <<>> |-> Value(<<>>[n])] = <<>>
      /\ [n \in DOMAIN <<>> |-> <<>>[n].realized_pnl] = <<>>
  OBVIOUS
<1> QED
  BY <1>2, TotalEmpty DEF NetQuantity, Worth, Profit

SumsProfit(seq, t) ==
  Profit(seq) \in Int /\ Profit(Append(seq, t)) = Profit(seq) + t.realized_pnl

LEMMA ProfitAppend ==
  ASSUME NEW seq \in Seq(ClosedTrades), NEW t \in ClosedTrades
  PROVE  SumsProfit(seq, t)
<1> DEFINE profit == [x \in ClosedTrades |-> x.realized_pnl]
<1>1. profit \in [ClosedTrades -> Int]
  BY DEF ClosedTrades
<1>2. \A s \in Seq(ClosedTrades) : Profit(s) = SumBy(profit, s)
  <2> TAKE s \in Seq(ClosedTrades)
  <2>1. \A n \in DOMAIN s : s[n] \in ClosedTrades
    OBVIOUS
  <2>2. [n \in DOMAIN s |-> s[n].realized_pnl] = [n \in DOMAIN s |-> profit[s[n]]]
    BY <2>1
  <2> HIDE DEF profit
  <2> QED
    BY <2>2 DEF Profit, SumBy
<1>3. profit[t] = t.realized_pnl /\ Append(seq, t) \in Seq(ClosedTrades)
  OBVIOUS
<1> HIDE DEF profit
<1>4. Adds(profit, seq, t)
  BY <1>1, SumByAppend
<1> QED
  BY <1>2, <1>3, <1>4 DEF Adds, SumsProfit

LEMMA ProfitType ==
  ASSUME NEW seq \in Seq(ClosedTrades)
  PROVE  Profit(seq) \in Int
<1> DEFINE profit == [x \in ClosedTrades |-> x.realized_pnl]
<1>1. profit \in [ClosedTrades -> Int]
  BY DEF ClosedTrades
<1>2. [n \in DOMAIN seq |-> seq[n].realized_pnl] = [n \in DOMAIN seq |-> profit[seq[n]]]
  <2>1. \A n \in DOMAIN seq : seq[n] \in ClosedTrades
    OBVIOUS
  <2> QED
    BY <2>1
<1> HIDE DEF profit
<1>3. PICK numbers : Mapped(numbers, profit, seq)
  BY <1>1, MapType
<1> QED
  BY <1>2, <1>3, TotalType DEF Mapped, Profit

----------------------------------------------------------------------------
(***************************************************************************)
(* Every turn of the ledger's loop keeps the accounts: of the lots it has  *)
(* gone through, it has what they came to and what it took of the fill,    *)
(* and the profit of the trades it made is the value it gave up.           *)
(***************************************************************************)
Conserved(acc, part, T, x) ==
  /\ NetQuantity(acc.lots) = NetQuantity(part) + Signed(x.side, x.quantity - acc.remaining)
  /\ Profit(acc.trades) =
       Profit(T) + Worth(acc.lots) - Worth(part)
         - x.price * Signed(x.side, x.quantity - acc.remaining)

LEMMA LotsArePriced == Priced(OpenLots)
BY DEF Priced, OpenLots

\* m units of a lot of q, opened at p, are closed at y: by a purchase, or by a sale.
Bought(m, p, q, y, taken) ==
  m * (p - y) = p * (-(q - m)) - p * (-q) - y * (taken + m) + y * taken
Sold(m, p, q, y, taken) ==
  m * (y - p) = p * (q - m) - p * q - y * (-(taken + m)) + y * (-taken)

LEMMA Arithmetic ==
  ASSUME NEW m \in Int, NEW p \in Int, NEW q \in Int, NEW y \in Int, NEW taken \in Int
  PROVE  Bought(m, p, q, y, taken) /\ Sold(m, p, q, y, taken)
<1>1. Bought(m, p, q, y, taken)
  BY DEF Bought
<1>2. Sold(m, p, q, y, taken)
  BY DEF Sold
<1> QED
  BY <1>1, <1>2

\* What a match moves from the lot to the fill.
Moves(x, lot, m, taken) ==
  LET left == lot.quantity - m
  IN  /\ Signed(lot.side, lot.quantity) + Signed(x.side, taken + m)
           = Signed(lot.side, left) + Signed(x.side, taken)
      /\ m * Gain(lot.side, lot.price, x.price)
           = lot.price * Signed(lot.side, left) - Value(lot)
             - x.price * Signed(x.side, taken + m) + x.price * Signed(x.side, taken)

LEMMA MatchMoves ==
  ASSUME NEW x, IsFill(x), NEW lot \in OpenLots, lot.side = Opposite(x.side),
         NEW m \in Nat, NEW taken \in Int
  PROVE  Moves(x, lot, m, taken)
<1>1. /\ lot.quantity \in Nat /\ lot.price \in Int /\ x.price \in Int
      /\ x.side \in Sides
  BY DEF OpenLots, IsFill
<1>2. PICK q \in Int, p \in Int, y \in Int : q = lot.quantity /\ p = lot.price /\ y = x.price
  BY <1>1
<1>a. Bought(m, p, q, y, taken) /\ Sold(m, p, q, y, taken)
  BY Arithmetic
<1>3. CASE x.side = "BUY"
  <2>1. lot.side = "SELL"
    BY <1>3 DEF Opposite
  <2>2. m * (p - y) = p * (-(q - m)) - p * (-q) - y * (taken + m) + y * taken
    BY <1>a DEF Bought
  <2> QED
    BY <1>2, <1>3, <2>1, <2>2 DEF Signed, Gain, Value, Moves
<1>4. CASE x.side = "SELL"
  <2>1. lot.side = "BUY"
    BY <1>4 DEF Opposite
  <2>2. m * (y - p) = p * (q - m) - p * q - y * (-(taken + m)) + y * (-taken)
    BY <1>a DEF Sold
  <2> QED
    BY <1>2, <1>4, <2>1, <2>2 DEF Signed, Gain, Value, Moves
<1> QED
  BY <1>1, <1>3, <1>4 DEF Sides

\* The sums in integers: n for net quantities, w for worths, p for profits, s and
\* v for what is signed and its value.
Carry(na, np, nl, sl, st, sm) ==
  na = np + st /\ nl + sm = sl + st => na + sl = (np + nl) + sm
Settle(pa, pT, g, wa, wp, vl, v, vt, vm) ==
  pa = pT + wa - wp - vt /\ g = vl - v - vm + vt
    => pa + g = pT + (wa + vl) - (wp + v) - vm

LEMMA Carries ==
  ASSUME NEW na \in Int, NEW np \in Int, NEW nl \in Int, NEW sl \in Int, NEW st \in Int,
         NEW sm \in Int
  PROVE  Carry(na, np, nl, sl, st, sm)
BY DEF Carry

LEMMA Settles ==
  ASSUME NEW pa \in Int, NEW pT \in Int, NEW g \in Int, NEW wa \in Int, NEW wp \in Int,
         NEW vl \in Int, NEW v \in Int, NEW vt \in Int, NEW vm \in Int
  PROVE  Settle(pa, pT, g, wa, wp, vl, v, vt, vm)
BY DEF Settle

LEMMA ConservedTurn ==
  ASSUME NEW acc \in LedgerTurns, NEW lot \in OpenLots, NEW x, IsFill(x),
         NEW part \in Seq(OpenLots), NEW T \in Seq(ClosedTrades),
         Conserved(acc, part, T, x), Turned(acc, lot, x)
  PROVE  Conserved(Match(acc, lot, x), Append(part, lot), T, x)
<1> DEFINE after == Match(acc, lot, x)
           taken == x.quantity - acc.remaining
           net == Signed(lot.side, lot.quantity)
           value == Value(lot)
           m == Lesser(acc.remaining, lot.quantity)
           left == lot.quantity - m
           rest == [lot EXCEPT !.quantity = left]
<1>1. /\ acc.lots \in Seq(OpenLots) /\ acc.trades \in Seq(ClosedTrades) /\ acc.remaining \in Nat
      /\ x.quantity \in Nat /\ x.side \in Sides /\ x.price \in Int
      /\ lot.quantity \in Nat /\ lot.side \in Sides /\ lot.price \in Int
  BY DEF LedgerTurns, IsFill, OpenLots
<1>2. Sums(part, lot) /\ Sums(acc.lots, lot)
  BY <1>1, SumsAppend, LotsArePriced
<1>3. net \in Int /\ value \in Int /\ taken \in Int
  BY <1>1, ValueType, SMTT(20)
<1>4. Signed(x.side, taken) \in Int /\ x.price * Signed(x.side, taken) \in Int
  <2>1. PICK g \in Int : g = Signed(x.side, taken)
    BY <1>1, <1>3, SignedType
  <2>2. x.price * g \in Int
    BY <1>1
  <2> QED
    BY <2>1, <2>2
<1>5. CASE ~Closes(acc, lot, x)
  <2>1. /\ after.remaining = acc.remaining /\ after.trades = acc.trades
        /\ after.lots = Append(acc.lots, lot)
    BY <1>5 DEF Turned
  <2>2. NetQuantity(after.lots) = NetQuantity(acc.lots) + net
        /\ Worth(after.lots) = Worth(acc.lots) + value
    BY <1>2, <2>1 DEF Sums
  <2>3. NetQuantity(Append(part, lot)) = NetQuantity(part) + net
        /\ Worth(Append(part, lot)) = Worth(part) + value
    BY <1>2 DEF Sums
  <2>4. Profit(T) \in Int /\ Profit(acc.trades) \in Int
    BY <1>1, ProfitType
  <2> HIDE DEF after, net, value
  <2> QED
    <3>1. /\ NetQuantity(acc.lots) = NetQuantity(part) + Signed(x.side, taken)
          /\ Profit(acc.trades) =
               Profit(T) + Worth(acc.lots) - Worth(part) - x.price * Signed(x.side, taken)
          /\ NetQuantity(acc.lots) \in Int /\ NetQuantity(part) \in Int
          /\ Worth(acc.lots) \in Int /\ Worth(part) \in Int
      BY <1>2 DEF Conserved, Sums
    <3> HIDE DEF taken
    <3>2. Carry(NetQuantity(acc.lots), NetQuantity(part), net, net,
                Signed(x.side, taken), Signed(x.side, taken))
      BY <1>3, <1>4, <3>1, Carries
    <3>4. PICK none \in Int : none = 0
      OBVIOUS
    <3>3. Settle(Profit(acc.trades), Profit(T), none, Worth(acc.lots), Worth(part), value, value,
                 x.price * Signed(x.side, taken), x.price * Signed(x.side, taken))
      BY <1>3, <1>4, <2>4, <3>1, Settles
    <3> QED
      BY <1>3, <1>4, <2>1, <2>2, <2>3, <2>4, <3>1, <3>2, <3>3, <3>4
      DEF Conserved, Carry, Settle, taken, after
<1>6. CASE Closes(acc, lot, x)
  <2>1. /\ m \in Nat \ {0} /\ after.remaining = acc.remaining - m
        /\ Trade(lot, x, m) \in ClosedTrades
        /\ after.trades = Append(acc.trades, Trade(lot, x, m))
        /\ \/ left = 0 /\ after.lots = acc.lots
           \/ /\ left \in Nat \ {0} /\ rest \in OpenLots /\ after.remaining = 0
              /\ after.lots = Append(acc.lots, rest)
    BY <1>6 DEF Turned
  <2>2. Moves(x, lot, m, taken)
    BY <1>3, <1>6, <2>1, MatchMoves DEF Closes
  <2>3. /\ Profit(after.trades) = Profit(acc.trades) + m * Gain(lot.side, lot.price, x.price)
        /\ Profit(acc.trades) \in Int /\ Profit(T) \in Int
    <3>1. SumsProfit(acc.trades, Trade(lot, x, m))
      BY <1>1, <2>1, ProfitAppend
    <3>2. Trade(lot, x, m).realized_pnl = m * Gain(lot.side, lot.price, x.price)
      BY DEF Trade
    <3> QED
      BY <2>1, <3>1, <3>2, ProfitType DEF SumsProfit
  <2>4. /\ NetQuantity(after.lots) = NetQuantity(acc.lots) + Signed(lot.side, left)
        /\ Worth(after.lots) = Worth(acc.lots) + lot.price * Signed(lot.side, left)
        /\ Signed(lot.side, left) \in Int /\ lot.price * Signed(lot.side, left) \in Int
    <3>1. CASE left = 0 /\ after.lots = acc.lots
      <4>1. Signed(lot.side, left) = 0
        BY <3>1 DEF Signed
      <4>2. lot.price * 0 = 0
        BY <1>1
      <4> QED
        BY <1>2, <3>1, <4>1, <4>2 DEF Sums
    <3>2. CASE rest \in OpenLots /\ after.lots = Append(acc.lots, rest)
      <4>1. Sums(acc.lots, rest)
        BY <1>1, <3>2, SumsAppend, LotsArePriced
      <4>2. rest.side = lot.side /\ rest.quantity = left /\ rest.price = lot.price
        BY DEF OpenLots
      <4>3. Signed(rest.side, rest.quantity) \in Int /\ Value(rest) \in Int
        BY <3>2, LotsArePriced, ValueType DEF Priced
      <4> HIDE DEF rest, left, after
      <4> QED
        BY <3>2, <4>1, <4>2, <4>3 DEF Sums, Value
    <3> QED
      BY <2>1, <3>1, <3>2
  <2>5. NetQuantity(Append(part, lot)) = NetQuantity(part) + net
        /\ Worth(Append(part, lot)) = Worth(part) + value
    BY <1>2 DEF Sums
  <2>6. x.quantity - after.remaining = taken + m
    BY <1>1, <2>1
  <2>7. Signed(x.side, taken + m) \in Int /\ x.price * Signed(x.side, taken + m) \in Int
    <3>1. PICK g \in Int : g = Signed(x.side, taken + m)
      BY <1>1, <1>3, <2>1, SignedType, SMTT(20)
    <3>2. x.price * g \in Int
      BY <1>1
    <3> QED
      BY <3>1, <3>2
  <2>8. /\ net + Signed(x.side, taken + m) = Signed(lot.side, left) + Signed(x.side, taken)
        /\ m * Gain(lot.side, lot.price, x.price)
             = lot.price * Signed(lot.side, left) - value
               - x.price * Signed(x.side, taken + m) + x.price * Signed(x.side, taken)
    BY <2>2 DEF Moves
  <2>9. /\ NetQuantity(acc.lots) = NetQuantity(part) + Signed(x.side, taken)
        /\ Profit(acc.trades) =
             Profit(T) + Worth(acc.lots) - Worth(part) - x.price * Signed(x.side, taken)
        /\ NetQuantity(acc.lots) \in Int /\ NetQuantity(part) \in Int
        /\ Worth(acc.lots) \in Int /\ Worth(part) \in Int
    BY <1>2 DEF Conserved, Sums
  <2>12. m * Gain(lot.side, lot.price, x.price) \in Int
    <3>1. PICK g \in Int : g = Gain(lot.side, lot.price, x.price)
      BY <1>1, GainType
    <3>2. m * g \in Int
      BY <2>1
    <3> QED
      BY <3>1, <3>2
  <2> HIDE DEF after, net, value, left, taken, m
  <2>10. NetQuantity(after.lots) = NetQuantity(Append(part, lot)) + Signed(x.side, taken + m)
    <3>1. Carry(NetQuantity(acc.lots), NetQuantity(part), net, Signed(lot.side, left),
                Signed(x.side, taken), Signed(x.side, taken + m))
      BY <1>3, <1>4, <2>4, <2>7, <2>9, Carries
    <3> QED
      BY <2>4, <2>5, <2>8, <2>9, <3>1 DEF Carry
  <2>11. Profit(after.trades) =
           Profit(T) + Worth(after.lots) - Worth(Append(part, lot))
             - x.price * Signed(x.side, taken + m)
    <3>1. Settle(Profit(acc.trades), Profit(T), m * Gain(lot.side, lot.price, x.price),
                 Worth(acc.lots), Worth(part), lot.price * Signed(lot.side, left), value,
                 x.price * Signed(x.side, taken), x.price * Signed(x.side, taken + m))
      BY <1>3, <1>4, <2>3, <2>4, <2>7, <2>9, <2>12, Settles
    <3> QED
      BY <2>3, <2>4, <2>5, <2>8, <2>9, <3>1 DEF Settle
  <2> QED
    BY <2>6, <2>10, <2>11 DEF Conserved, after
<1> QED
  BY <1>5, <1>6

----------------------------------------------------------------------------
(***************************************************************************)
(* The order of the lots.  What the loop keeps comes from the lots it has  *)
(* gone through, and so do the entries of the trades it has made; the      *)
(* trades that were there stay in front.                                   *)
(***************************************************************************)
OneSided(L) == \A m, n \in 1..Len(L) : L[m].side = L[n].side
Ordered(L) == \A m, n \in 1..Len(L) : m < n => L[m].rank <= L[n].rank

From(acc, part, T, x) ==
  /\ \A n \in 1..Len(acc.lots) : \E k \in 1..Len(part) :
       acc.lots[n].side = part[k].side /\ acc.lots[n].rank = part[k].rank
  /\ Len(T) <= Len(acc.trades) /\ \A j \in 1..Len(T) : acc.trades[j] = T[j]
  /\ \A j \in Len(T) + 1..Len(acc.trades) :
       /\ acc.trades[j].exit = x.rank
       /\ \E k \in 1..Len(part) : acc.trades[j].entry = part[k].rank

LEMMA FromTurn ==
  ASSUME NEW acc \in LedgerTurns, NEW lot \in OpenLots, NEW x, IsFill(x),
         NEW part \in Seq(OpenLots), NEW T \in Seq(ClosedTrades),
         From(acc, part, T, x), Turned(acc, lot, x)
  PROVE  From(Match(acc, lot, x), Append(part, lot), T, x)
<1> DEFINE after == Match(acc, lot, x)
           more == Append(part, lot)
           m == Lesser(acc.remaining, lot.quantity)
           left == lot.quantity - m
           rest == [lot EXCEPT !.quantity = left]
<1>1. /\ acc.lots \in Seq(OpenLots) /\ acc.trades \in Seq(ClosedTrades)
      /\ Len(acc.lots) \in Nat /\ Len(acc.trades) \in Nat /\ Len(part) \in Nat /\ Len(T) \in Nat
  BY DEF LedgerTurns
<1>2. Len(more) = Len(part) + 1 /\ more[Len(part) + 1] = lot
      /\ \A k \in 1..Len(part) : k \in 1..Len(more) /\ more[k] = part[k]
  OBVIOUS
<1>3. /\ \A n \in 1..Len(acc.lots) : \E k \in 1..Len(more) :
           acc.lots[n].side = more[k].side /\ acc.lots[n].rank = more[k].rank
      /\ Len(T) <= Len(acc.trades) /\ \A j \in 1..Len(T) : acc.trades[j] = T[j]
      /\ \A j \in Len(T) + 1..Len(acc.trades) :
           /\ acc.trades[j].exit = x.rank
           /\ \E k \in 1..Len(more) : acc.trades[j].entry = more[k].rank
  BY <1>2 DEF From
<1>4. Len(more) \in 1..Len(more)
  BY <1>1, <1>2
<1>5. rest.side = lot.side /\ rest.rank = lot.rank
  BY DEF OpenLots
<1>6. Trade(lot, x, m).exit = x.rank /\ Trade(lot, x, m).entry = lot.rank
  BY DEF Trade
<1>7. /\ \/ after.lots = acc.lots
         \/ \E new : /\ after.lots = Append(acc.lots, new)
                     /\ new.side = lot.side /\ new.rank = lot.rank
      /\ \/ after.trades = acc.trades
         \/ \E new : /\ after.trades = Append(acc.trades, new)
                     /\ new.exit = x.rank /\ new.entry = lot.rank
  <2> HIDE DEF after, rest
  <2>1. CASE Closes(acc, lot, x)
    <3>1. /\ after.trades = Append(acc.trades, Trade(lot, x, m))
          /\ after.lots = acc.lots \/ after.lots = Append(acc.lots, rest)
      BY <2>1 DEF Turned, after, rest
    <3> QED
      BY <1>5, <1>6, <3>1
  <2>2. CASE ~Closes(acc, lot, x)
    <3>1. after.trades = acc.trades /\ after.lots = Append(acc.lots, lot)
      BY <2>2 DEF Turned, after
    <3> QED
      BY <3>1
  <2> QED
    BY <2>1, <2>2
<1> HIDE DEF more, after, m, left, rest
<1>8. \A n \in 1..Len(after.lots) : \E k \in 1..Len(more) :
        after.lots[n].side = more[k].side /\ after.lots[n].rank = more[k].rank
  <2>1. CASE after.lots = acc.lots
    BY <1>3, <2>1, SMTT(20)
  <2>2. ASSUME NEW new, after.lots = Append(acc.lots, new), new.side = lot.side, new.rank = lot.rank
        PROVE  \A n \in 1..Len(after.lots) : \E k \in 1..Len(more) :
                 after.lots[n].side = more[k].side /\ after.lots[n].rank = more[k].rank
    <3>1. /\ Len(after.lots) = Len(acc.lots) + 1 /\ after.lots[Len(acc.lots) + 1] = new
          /\ \A n \in 1..Len(acc.lots) : after.lots[n] = acc.lots[n]
      BY <1>1, <2>2
    <3>2. \A n \in 1..Len(after.lots) : n = Len(acc.lots) + 1 \/ n \in 1..Len(acc.lots)
      BY <1>1, <3>1
    <3>3. new.side = more[Len(more)].side /\ new.rank = more[Len(more)].rank
      BY <1>2, <2>2
    <3>4. ASSUME NEW n \in 1..Len(after.lots)
          PROVE  \E k \in 1..Len(more) :
                   after.lots[n].side = more[k].side /\ after.lots[n].rank = more[k].rank
      <4>1. CASE n \in 1..Len(acc.lots)
        <5>1. after.lots[n] = acc.lots[n]
          BY <3>1, <4>1
        <5>2. \E k \in 1..Len(more) :
                acc.lots[n].side = more[k].side /\ acc.lots[n].rank = more[k].rank
          BY <1>3, <4>1
        <5> QED
          BY ONLY <5>1, <5>2
      <4>2. CASE n = Len(acc.lots) + 1
        BY <1>4, <3>1, <3>3, <4>2
      <4> QED
        BY <3>2, <4>1, <4>2
    <3> QED
      BY <3>4
  <2> QED
    BY <1>7, <2>1, <2>2
<1>9. /\ Len(T) <= Len(after.trades) /\ \A j \in 1..Len(T) : after.trades[j] = T[j]
      /\ \A j \in Len(T) + 1..Len(after.trades) :
           /\ after.trades[j].exit = x.rank
           /\ \E k \in 1..Len(more) : after.trades[j].entry = more[k].rank
  <2>1. CASE after.trades = acc.trades
    BY <1>3, <2>1
  <2>2. ASSUME NEW new, after.trades = Append(acc.trades, new), new.exit = x.rank, new.entry = lot.rank
        PROVE  /\ Len(T) <= Len(after.trades) /\ \A j \in 1..Len(T) : after.trades[j] = T[j]
               /\ \A j \in Len(T) + 1..Len(after.trades) :
                    /\ after.trades[j].exit = x.rank
                    /\ \E k \in 1..Len(more) : after.trades[j].entry = more[k].rank
    <3>1. /\ Len(after.trades) = Len(acc.trades) + 1 /\ after.trades[Len(acc.trades) + 1] = new
          /\ \A j \in 1..Len(acc.trades) : after.trades[j] = acc.trades[j]
      BY <1>1, <2>2
    <3>2. \A j \in Len(T) + 1..Len(after.trades) :
            j = Len(acc.trades) + 1
            \/ (j \in Len(T) + 1..Len(acc.trades) /\ j \in 1..Len(acc.trades))
      BY <1>1, <3>1
    <3>3. new.entry = more[Len(more)].rank
      BY <1>2, <2>2
    <3>4. Len(T) <= Len(after.trades) /\ \A j \in 1..Len(T) : after.trades[j] = T[j]
      BY <1>1, <1>3, <3>1
    <3>5. ASSUME NEW j \in Len(T) + 1..Len(after.trades)
          PROVE  /\ after.trades[j].exit = x.rank
                 /\ \E k \in 1..Len(more) : after.trades[j].entry = more[k].rank
      BY <1>3, <1>4, <2>2, <3>1, <3>2, <3>3
    <3> QED
      BY <3>4, <3>5
  <2> QED
    BY <1>7, <2>1, <2>2
<1> QED
  BY <1>8, <1>9 DEF From, after, more

\* With lots of one side, oldest first, the loop closes the oldest, and keeps
\* none that is younger than one it has left open.
InOrder(acc, T, x) ==
  /\ acc.remaining # 0 => \A n \in 1..Len(acc.lots) : acc.lots[n].side = x.side
  /\ Ordered(acc.lots)
  /\ \A j \in Len(T) + 1..Len(acc.trades), n \in 1..Len(acc.lots) :
       acc.trades[j].entry <= acc.lots[n].rank
  /\ \A i, j \in Len(T) + 1..Len(acc.trades) :
       i < j => acc.trades[i].entry <= acc.trades[j].entry

LEMMA InOrderTurn ==
  ASSUME NEW acc \in LedgerTurns, NEW lot \in OpenLots, NEW x, IsFill(x),
         NEW part \in Seq(OpenLots), NEW T \in Seq(ClosedTrades),
         OneSided(Append(part, lot)), Ordered(Append(part, lot)),
         From(acc, part, T, x), InOrder(acc, T, x), Turned(acc, lot, x)
  PROVE  InOrder(Match(acc, lot, x), T, x)
<1> DEFINE after == Match(acc, lot, x)
           more == Append(part, lot)
           m == Lesser(acc.remaining, lot.quantity)
           left == lot.quantity - m
           rest == [lot EXCEPT !.quantity = left]
<1>1. /\ acc.lots \in Seq(OpenLots) /\ acc.trades \in Seq(ClosedTrades)
      /\ Len(acc.lots) \in Nat /\ Len(acc.trades) \in Nat /\ Len(part) \in Nat /\ Len(T) \in Nat
  BY DEF LedgerTurns
<1>2. \A k \in 1..Len(part) : part[k].side = lot.side /\ part[k].rank <= lot.rank
  <2>1. Len(more) = Len(part) + 1 /\ more[Len(part) + 1] = lot
        /\ \A k \in 1..Len(part) : more[k] = part[k]
    OBVIOUS
  <2>2. OneSided(more) /\ Ordered(more)
    OBVIOUS
  <2> HIDE DEF more
  <2> QED
    BY <1>1, <2>1, <2>2 DEF OneSided, Ordered
<1>3. \A n \in 1..Len(acc.lots) : acc.lots[n].side = lot.side /\ acc.lots[n].rank <= lot.rank
  BY <1>2 DEF From
<1>4. \A j \in Len(T) + 1..Len(acc.trades) : acc.trades[j].entry <= lot.rank
  BY <1>2 DEF From
<1>5. lot.side \in Sides /\ lot.rank \in Nat /\ x.side \in Sides
  BY DEF OpenLots, IsFill
<1>6. CASE ~Closes(acc, lot, x)
  <2>1. /\ after.trades = acc.trades /\ after.lots = Append(acc.lots, lot)
        /\ after.remaining = acc.remaining
    BY <1>6 DEF Turned
  <2>2. /\ Len(after.lots) = Len(acc.lots) + 1 /\ after.lots[Len(acc.lots) + 1] = lot
        /\ \A n \in 1..Len(acc.lots) : after.lots[n] = acc.lots[n]
    BY <1>1, <2>1
  <2>3. acc.remaining # 0 => lot.side = x.side
    BY <1>5, <1>6 DEF Closes, Opposite, Sides
  <2> HIDE DEF after
  <2>4. \A n \in 1..Len(after.lots) : n = Len(acc.lots) + 1 \/ n \in 1..Len(acc.lots)
    BY <1>1, <2>2
  <2>5. after.remaining # 0 => \A n \in 1..Len(after.lots) : after.lots[n].side = x.side
    BY <1>1, <2>1, <2>2, <2>3, <2>4 DEF InOrder
  <2>6. Ordered(after.lots)
    <3> SUFFICES ASSUME NEW i \in 1..Len(after.lots), NEW j \in 1..Len(after.lots), i < j
                 PROVE  after.lots[i].rank <= after.lots[j].rank
      BY DEF Ordered
    <3>1. i \in 1..Len(acc.lots)
      BY <1>1, <2>2
    <3>2. CASE j = Len(acc.lots) + 1
      BY <1>3, <2>2, <3>1, <3>2
    <3>3. CASE j \in 1..Len(acc.lots)
      BY <2>2, <3>1, <3>3 DEF InOrder, Ordered
    <3> QED
      BY <2>4, <3>2, <3>3
  <2>7. \A j \in Len(T) + 1..Len(after.trades), n \in 1..Len(after.lots) :
          after.trades[j].entry <= after.lots[n].rank
    BY <1>4, <2>1, <2>2, <2>4 DEF InOrder
  <2>8. \A i, j \in Len(T) + 1..Len(after.trades) :
          i < j => after.trades[i].entry <= after.trades[j].entry
    BY <2>1 DEF InOrder
  <2> QED
    BY <2>5, <2>6, <2>7, <2>8 DEF InOrder, after
<1>7. CASE Closes(acc, lot, x)
  <2>1. acc.remaining # 0 /\ lot.side # x.side
    BY <1>5, <1>7 DEF Closes, Opposite, Sides
  <2>2. Len(acc.lots) = 0
    <3>1. \A n \in 1..Len(acc.lots) : FALSE
      BY <1>3, <2>1 DEF InOrder
    <3>2. CASE Len(acc.lots) # 0
      <4>1. 1 \in 1..Len(acc.lots)
        BY <1>1, <3>2
      <4> QED
        BY <3>1, <4>1
    <3> QED
      BY <3>2
  <2>3. rest.rank = lot.rank /\ Trade(lot, x, m).entry = lot.rank
    BY DEF OpenLots, Trade
  <2> HIDE DEF rest, after
  <2>4. /\ after.trades = Append(acc.trades, Trade(lot, x, m))
        /\ after.lots = acc.lots \/ (after.lots = Append(acc.lots, rest) /\ after.remaining = 0)
    BY <1>7 DEF Turned, after, rest
  <2>5. /\ Len(after.trades) = Len(acc.trades) + 1
        /\ after.trades[Len(acc.trades) + 1].entry = lot.rank
        /\ \A j \in 1..Len(acc.trades) : after.trades[j] = acc.trades[j]
    BY <1>1, <2>3, <2>4
  <2>6. \/ Len(after.lots) = 0
        \/ (Len(after.lots) = 1 /\ after.lots[1].rank = lot.rank /\ after.remaining = 0)
    <3>1. CASE after.lots = acc.lots
      BY <2>2, <3>1
    <3>2. CASE after.lots = Append(acc.lots, rest) /\ after.remaining = 0
      <4>1. Len(after.lots) = Len(acc.lots) + 1 /\ after.lots[Len(acc.lots) + 1] = rest
        BY <1>1, <3>2
      <4> QED
        BY <2>2, <2>3, <3>2, <4>1
    <3> QED
      BY <2>4, <3>1, <3>2
  <2>7. Ordered(after.lots)
    BY <2>6 DEF Ordered
  <2>8. after.remaining # 0 => \A n \in 1..Len(after.lots) : after.lots[n].side = x.side
    BY <2>6
  <2>9. \A j \in Len(T) + 1..Len(after.trades) :
          /\ j = Len(acc.trades) + 1
             \/ (j \in Len(T) + 1..Len(acc.trades) /\ j \in 1..Len(acc.trades))
          /\ after.trades[j].entry <= lot.rank
    <3> TAKE j \in Len(T) + 1..Len(after.trades)
    <3>1. j = Len(acc.trades) + 1
          \/ (j \in Len(T) + 1..Len(acc.trades) /\ j \in 1..Len(acc.trades))
      BY <1>1, <2>5
    <3> QED
      BY <1>4, <1>5, <2>5, <3>1, SMTT(20)
  <2>10. \A j \in Len(T) + 1..Len(after.trades), n \in 1..Len(after.lots) :
           after.trades[j].entry <= after.lots[n].rank
    BY <2>6, <2>9
  <2>11. \A i, j \in Len(T) + 1..Len(after.trades) :
           i < j => after.trades[i].entry <= after.trades[j].entry
    <3> SUFFICES ASSUME NEW i \in Len(T) + 1..Len(after.trades),
                        NEW j \in Len(T) + 1..Len(after.trades), i < j
                 PROVE  after.trades[i].entry <= after.trades[j].entry
      OBVIOUS
    <3>1. i \in Len(T) + 1..Len(acc.trades) /\ i \in 1..Len(acc.trades)
      BY <1>1, <2>5, <2>9
    <3>2. CASE j = Len(acc.trades) + 1
      BY <2>5, <2>9, <3>2
    <3>3. CASE j \in Len(T) + 1..Len(acc.trades) /\ j \in 1..Len(acc.trades)
      BY <2>5, <3>1, <3>3 DEF InOrder
    <3> QED
      BY <2>9, <3>2, <3>3
  <2> QED
    BY <2>7, <2>8, <2>10, <2>11 DEF InOrder, after
<1> QED
  BY <1>6, <1>7

\* The beginnings of a sequence.
Prefixes(part, E, L) ==
  /\ part \in [0..Len(L) -> Seq(E)] /\ part[0] = <<>> /\ part[Len(L)] = L
  /\ \A i \in 1..Len(L) : part[i] = Append(part[i - 1], L[i]) /\ part[i - 1] \in Seq(E)
  /\ \A i \in 0..Len(L) : Len(part[i]) = i /\ \A j \in 1..i : part[i][j] = L[j]

LEMMA SequencePrefixes ==
  ASSUME NEW E, NEW L \in Seq(E)
  PROVE  \E part : Prefixes(part, E, L)
<1> DEFINE part == [i \in 0..Len(L) |-> SubSeq(L, 1, i)]
<1>1. \A i \in 0..Len(L) :
        /\ SubSeq(L, 1, i) \in Seq(E) /\ Len(SubSeq(L, 1, i)) = i
        /\ \A j \in 1..i : SubSeq(L, 1, i)[j] = L[j]
  OBVIOUS
<1>2. part \in [0..Len(L) -> Seq(E)]
      /\ \A i \in 0..Len(L) : Len(part[i]) = i /\ \A j \in 1..i : part[i][j] = L[j]
  BY <1>1
<1>3. part[0] = <<>> /\ part[Len(L)] = L
  <2>1. 0 \in 0..Len(L) /\ Len(L) \in 0..Len(L) /\ SubSeq(L, 1, 0) = <<>> /\ SubSeq(L, 1, Len(L)) = L
    OBVIOUS
  <2> QED
    BY <2>1
<1>4. ASSUME NEW i \in 1..Len(L)
      PROVE  part[i] = Append(part[i - 1], L[i]) /\ part[i - 1] \in Seq(E)
  <2>1. i - 1 \in 0..Len(L) /\ i \in 0..Len(L)
    OBVIOUS
  <2>2. SubSeq(L, 1, i) = Append(SubSeq(L, 1, i - 1), L[i]) /\ SubSeq(L, 1, i - 1) \in Seq(E)
    BY ConcatAppend
  <2> QED
    BY <2>1, <2>2
<1>5. Prefixes(part, E, L)
  BY <1>2, <1>3, <1>4 DEF Prefixes
<1> HIDE DEF part
<1> QED
  BY <1>5

\* What a fill makes of the lots L and the trades T, whatever they are.
Accounted(L, T, x, after) ==
  /\ after.lots \in Seq(OpenLots) /\ after.trades \in Seq(ClosedTrades)
  /\ NetQuantity(after.lots) = NetQuantity(L) + Signed(x.side, x.quantity)
  /\ Profit(after.trades) = Profit(T) + Worth(after.lots) - Worth(L) - Value(x)
  /\ Len(T) <= Len(after.trades) /\ \A j \in 1..Len(T) : after.trades[j] = T[j]

\* What it makes of lots of one side, oldest first, all older than the fill.
FirstIn(L, T, x, after) ==
  /\ OneSided(after.lots) /\ Ordered(after.lots)
  /\ \A n \in 1..Len(after.lots) :
       after.lots[n].rank = x.rank \/ \E k \in 1..Len(L) : after.lots[n].rank = L[k].rank
  /\ \A j \in Len(T) + 1..Len(after.trades) :
       /\ after.trades[j].exit = x.rank
       /\ \E k \in 1..Len(L) : after.trades[j].entry = L[k].rank
  /\ \A j \in Len(T) + 1..Len(after.trades), n \in 1..Len(after.lots) :
       after.trades[j].entry <= after.lots[n].rank
  /\ \A i, j \in Len(T) + 1..Len(after.trades) :
       i < j => after.trades[i].entry <= after.trades[j].entry

LEMMA PrefixOrdered ==
  ASSUME NEW L \in Seq(OpenLots), NEW P \in Seq(OpenLots), Len(P) <= Len(L),
         \A j \in 1..Len(P) : P[j] = L[j], OneSided(L), Ordered(L)
  PROVE  OneSided(P) /\ Ordered(P)
<1>1. \A j \in 1..Len(P) : j \in 1..Len(L) /\ P[j] = L[j]
  OBVIOUS
<1>2. OneSided(P)
  BY <1>1 DEF OneSided
<1>3. Ordered(P)
  BY <1>1 DEF Ordered
<1> QED
  BY <1>2, <1>3

LEMMA LoopInvariant ==
  ASSUME NEW L \in Seq(OpenLots), NEW T \in Seq(ClosedTrades), NEW x, IsFill(x),
         NEW upTo, Matching(upTo, L, T, x)
  PROVE  /\ upTo[Len(L)] \in LedgerTurns
         /\ Conserved(upTo[Len(L)], L, T, x) /\ From(upTo[Len(L)], L, T, x)
         /\ OneSided(L) /\ Ordered(L) => InOrder(upTo[Len(L)], T, x)
<1>1. PICK part : Prefixes(part, OpenLots, L)
  BY SequencePrefixes
<1>2. Len(L) \in Nat
  OBVIOUS
<1> DEFINE Inv(i) ==
             /\ Conserved(upTo[i], part[i], T, x) /\ From(upTo[i], part[i], T, x)
             /\ OneSided(L) /\ Ordered(L) => InOrder(upTo[i], T, x)
           U == {i \in 0..Len(L) : Inv(i)}
<1>3. 0 \in U
  <2>1. upTo[0] = [remaining |-> x.quantity, lots |-> <<>>, trades |-> T] /\ part[0] = <<>>
    BY <1>1 DEF Matching, Prefixes
  <2>2. x.quantity \in Nat /\ x.price \in Int
    BY DEF IsFill
  <2>3. Signed(x.side, x.quantity - x.quantity) = 0 /\ x.price * 0 = 0
    BY <2>2 DEF Signed
  <2>4. Profit(T) \in Int
    BY ProfitType
  <2>5. Conserved(upTo[0], part[0], T, x)
    BY <2>1, <2>3, <2>4, SumsEmpty DEF Conserved
  <2>6. From(upTo[0], part[0], T, x)
    BY <2>1 DEF From
  <2>7. InOrder(upTo[0], T, x)
    BY <2>1 DEF InOrder, Ordered
  <2> QED
    BY <1>2, <2>5, <2>6, <2>7
<1>4. ASSUME NEW i \in 1..Len(L), i - 1 \in U
      PROVE  i \in U
  <2>1. i - 1 \in 0..Len(L) /\ i \in 0..Len(L) /\ Inv(i - 1)
    BY <1>4
  <2>2. PICK acc \in LedgerTurns : acc = upTo[i - 1]
    BY <2>1 DEF Matching
  <2>3. PICK lot \in OpenLots : lot = L[i]
    OBVIOUS
  <2>4. PICK begin \in Seq(OpenLots) : begin = part[i - 1]
    BY <1>1 DEF Prefixes
  <2>5. /\ upTo[i] = Match(acc, lot, x) /\ Turned(acc, lot, x)
        /\ part[i] = Append(begin, lot)
    BY <1>1, <2>2, <2>3, <2>4 DEF Matching, Prefixes
  <2>6. Conserved(acc, begin, T, x) /\ From(acc, begin, T, x)
        /\ (OneSided(L) /\ Ordered(L) => InOrder(acc, T, x))
    BY <2>1, <2>2, <2>4
  <2> HIDE DEF Inv
  <2>7. Conserved(Match(acc, lot, x), Append(begin, lot), T, x)
    BY <2>5, <2>6, ConservedTurn
  <2>8. From(Match(acc, lot, x), Append(begin, lot), T, x)
    BY <2>5, <2>6, FromTurn
  <2>9. ASSUME OneSided(L), Ordered(L)
        PROVE  InOrder(Match(acc, lot, x), T, x)
    <3>1. part[i] \in Seq(OpenLots)
      BY <1>1, <2>1 DEF Prefixes
    <3>2. PICK P \in Seq(OpenLots) : P = part[i]
      BY <3>1
    <3>3. Len(P) <= Len(L) /\ \A j \in 1..Len(P) : P[j] = L[j]
      BY <1>1, <2>1, <3>2 DEF Prefixes
    <3>4. OneSided(P) /\ Ordered(P)
      BY <2>9, <3>3, PrefixOrdered
    <3>5. OneSided(Append(begin, lot)) /\ Ordered(Append(begin, lot))
      BY <2>5, <3>2, <3>4
    <3> QED
      BY <2>5, <2>6, <2>9, <3>5, InOrderTurn
  <2> QED
    BY <2>1, <2>5, <2>7, <2>8, <2>9 DEF Inv
<1> HIDE DEF U
<1>5. 0..Len(L) \subseteq U
  BY <1>2, <1>3, <1>4, IntervalInSet
<1> HIDE DEF Inv
<1>6. Len(L) \in U
  BY <1>2, <1>5
<1>7. Inv(Len(L))
  BY <1>6 DEF U
<1>8. part[Len(L)] = L
  BY <1>1 DEF Prefixes
<1>9. upTo[Len(L)] \in LedgerTurns
  BY <1>2 DEF Matching
<1> QED
  BY <1>7, <1>8, <1>9 DEF Inv

OlderThan(L, x) == \A n \in 1..Len(L) : L[n].rank <= x.rank

\* ApplyToLedger, the whole of it.
LEMMA ApplyBooks ==
  ASSUME NEW L \in Seq(OpenLots), NEW T \in Seq(ClosedTrades), NEW x, IsFill(x)
  PROVE  LET after == ApplyToLedger([lots |-> L, trades |-> T], x)
         IN  /\ Accounted(L, T, x, after)
             /\ OneSided(L) /\ Ordered(L) /\ OlderThan(L, x) => FirstIn(L, T, x, after)
<1> DEFINE after == ApplyToLedger([lots |-> L, trades |-> T], x)
<1>1. PICK upTo : Matching(upTo, L, T, x)
  BY MatchedLoop
<1>2. /\ upTo[Len(L)] \in LedgerTurns
      /\ Conserved(upTo[Len(L)], L, T, x) /\ From(upTo[Len(L)], L, T, x)
      /\ OneSided(L) /\ Ordered(L) => InOrder(upTo[Len(L)], T, x)
  BY <1>1, LoopInvariant
<1>3. PICK acc \in LedgerTurns : acc = upTo[Len(L)]
  BY <1>2
<1>4. /\ Conserved(acc, L, T, x) /\ From(acc, L, T, x)
      /\ OneSided(L) /\ Ordered(L) => InOrder(acc, T, x)
  BY <1>2, <1>3
<1>5. MatchedLots([lots |-> L, trades |-> T], x) = acc
  BY <1>1, <1>3 DEF Matching
<1> DEFINE new == OpenLot(x, acc.remaining)
<1>6. after = [lots |-> IF acc.remaining > 0 THEN Append(acc.lots, new) ELSE acc.lots,
               trades |-> acc.trades]
  BY <1>5 DEF ApplyToLedger
<1>7. /\ acc.remaining \in Nat /\ acc.lots \in Seq(OpenLots) /\ acc.trades \in Seq(ClosedTrades)
      /\ Len(acc.lots) \in Nat /\ Len(acc.trades) \in Nat /\ Len(T) \in Nat
  BY DEF LedgerTurns
<1>8. x.side \in Sides /\ x.quantity \in Nat \ {0} /\ x.price \in Int /\ x.rank \in Nat
  BY DEF IsFill
<1>9. /\ new.side = x.side /\ new.quantity = acc.remaining /\ new.price = x.price
      /\ new.rank = x.rank
  BY DEF OpenLot
<1>10. acc.remaining > 0 => new \in OpenLots
  BY <1>7, <1>8 DEF OpenLot, OpenLots
<1> HIDE DEF after, new
<1>11. /\ after.trades = acc.trades /\ after.lots \in Seq(OpenLots)
       /\ \/ acc.remaining = 0 /\ after.lots = acc.lots
          \/ acc.remaining > 0 /\ new \in OpenLots /\ after.lots = Append(acc.lots, new)
  <2>1. CASE acc.remaining > 0
    <3>1. Append(acc.lots, new) \in Seq(OpenLots)
      BY <1>7, <1>10, <2>1
    <3> QED
      BY <1>6, <1>10, <2>1, <3>1
  <2>2. CASE acc.remaining = 0
    BY <1>6, <1>7, <2>2
  <2> QED
    BY <1>7, <2>1, <2>2
<1>12. Accounted(L, T, x, after)
  <2>1. /\ NetQuantity(after.lots) = NetQuantity(L) + Signed(x.side, x.quantity)
        /\ Profit(after.trades) = Profit(T) + Worth(after.lots) - Worth(L) - Value(x)
    <3>1. CASE acc.remaining = 0
      BY <1>4, <1>8, <1>11, <3>1 DEF Conserved, Value
    <3>2. CASE acc.remaining > 0
      <4>1. PICK l \in OpenLots : l = new
        BY <1>11, <3>2
      <4>2. PICK kept \in Seq(OpenLots) : kept = acc.lots
        BY <1>7
      <4>3. Sums(kept, l) /\ after.lots = Append(kept, l)
        <5>1. Sums(kept, l)
          BY LotsArePriced, SumsAppend
        <5> QED
          BY <1>11, <3>2, <4>1, <4>2, <5>1
      <4>4. /\ NetQuantity(kept) \in Int /\ Worth(kept) \in Int
            /\ NetQuantity(after.lots) = NetQuantity(kept) + Signed(x.side, acc.remaining)
            /\ Worth(after.lots) = Worth(kept) + x.price * Signed(x.side, acc.remaining)
        BY <1>9, <4>1, <4>3 DEF Sums, Value
      <4>5. /\ NetQuantity(kept) = NetQuantity(L) + Signed(x.side, x.quantity - acc.remaining)
            /\ Profit(acc.trades) = Profit(T) + Worth(kept) - Worth(L)
                 - x.price * Signed(x.side, x.quantity - acc.remaining)
        BY <1>4, <4>2 DEF Conserved
      <4>6. PICK q \in Int : q = x.quantity
        BY <1>8
      <4>7. PICK r \in Int : r = acc.remaining
        BY <1>7
      <4>8. PICK p \in Int : p = x.price
        BY <1>8
      <4>9. /\ Signed(x.side, q - r) + Signed(x.side, r) = Signed(x.side, q)
            /\ p * Signed(x.side, q - r) + p * Signed(x.side, r) = p * Signed(x.side, q)
            /\ Signed(x.side, q - r) \in Int /\ Signed(x.side, r) \in Int /\ Signed(x.side, q) \in Int
        BY DEF Signed
      <4>10. NetQuantity(L) \in Int /\ Worth(L) \in Int /\ Profit(T) \in Int
        BY LotsArePriced, SumsAppend, <4>1, ProfitType DEF Sums
      <4>11. NetQuantity(after.lots) = NetQuantity(L) + Signed(x.side, x.quantity)
        BY <4>4, <4>5, <4>6, <4>7, <4>9, <4>10
      <4>12. PICK a \in Int, b \in Int, c \in Int :
               a = p * Signed(x.side, q - r) /\ b = p * Signed(x.side, r) /\ c = p * Signed(x.side, q)
        BY <4>9
      <4>13. Profit(after.trades) = Profit(T) + Worth(after.lots) - Worth(L) - Value(x)
        <5>1. /\ Value(x) = c /\ x.price * Signed(x.side, x.quantity - acc.remaining) = a
              /\ x.price * Signed(x.side, acc.remaining) = b
          BY <4>6, <4>7, <4>8, <4>12 DEF Value
        <5>2. a + b = c
          BY <4>9, <4>12
        <5>3. PICK w \in Int, v \in Int, t \in Int :
                w = Worth(kept) /\ v = Worth(L) /\ t = Profit(T)
          BY <4>4, <4>10
        <5>4. Profit(after.trades) = t + w - v - a /\ Worth(after.lots) = w + b
          BY <1>11, <4>4, <4>5, <5>1, <5>3
        <5> QED
          <6>1. t + w - v - a = t + (w + b) - v - c
            BY <5>2
          <6> QED
            BY <5>1, <5>3, <5>4, <6>1
      <4> QED
        BY <4>11, <4>13
    <3> QED
      BY <1>11, <3>1, <3>2
  <2>2. Len(T) <= Len(after.trades) /\ \A j \in 1..Len(T) : after.trades[j] = T[j]
    BY <1>4, <1>11 DEF From
  <2> QED
    BY <1>7, <1>11, <2>1, <2>2 DEF Accounted
<1>13. ASSUME OneSided(L), Ordered(L), OlderThan(L, x)
       PROVE  FirstIn(L, T, x, after)
  <2>1. InOrder(acc, T, x)
    BY <1>4, <1>13
  <2>2. \A n \in 1..Len(acc.lots) :
          /\ acc.lots[n].rank <= x.rank
          /\ \E k \in 1..Len(L) : acc.lots[n].rank = L[k].rank
    BY <1>4, <1>13 DEF From, OlderThan
  <2>3. \A j \in Len(T) + 1..Len(acc.trades) :
          /\ acc.trades[j].exit = x.rank
          /\ \E k \in 1..Len(L) : acc.trades[j].entry = L[k].rank
    BY <1>4 DEF From
  <2>4. \A j \in Len(T) + 1..Len(acc.trades) : acc.trades[j].entry <= x.rank
    BY <1>13, <2>3 DEF OlderThan
  <2>5. CASE after.lots = acc.lots
    <3>1. OneSided(acc.lots)
      <4> SUFFICES ASSUME NEW m \in 1..Len(acc.lots), NEW n \in 1..Len(acc.lots)
                   PROVE  acc.lots[m].side = acc.lots[n].side
        BY DEF OneSided
      <4>1. PICK k \in 1..Len(L) : acc.lots[m].side = L[k].side
        BY <1>4 DEF From
      <4>2. PICK j \in 1..Len(L) : acc.lots[n].side = L[j].side
        BY <1>4 DEF From
      <4> QED
        BY <1>13, <4>1, <4>2 DEF OneSided
    <3> QED
      BY <1>11, <2>1, <2>2, <2>3, <2>5, <3>1 DEF InOrder, FirstIn
  <2>6. CASE acc.remaining > 0 /\ after.lots = Append(acc.lots, new)
    <3>1. /\ Len(after.lots) = Len(acc.lots) + 1 /\ after.lots[Len(acc.lots) + 1] = new
          /\ \A n \in 1..Len(acc.lots) : after.lots[n] = acc.lots[n]
      BY <1>7, <2>6
    <3>2. \A n \in 1..Len(after.lots) : n = Len(acc.lots) + 1 \/ n \in 1..Len(acc.lots)
      BY <1>7, <3>1
    <3>3. \A n \in 1..Len(after.lots) : after.lots[n].side = x.side
      BY <1>7, <1>9, <2>1, <2>6, <3>1, <3>2 DEF InOrder
    <3>4. \A n \in 1..Len(after.lots) :
            after.lots[n].rank = x.rank \/ \E k \in 1..Len(L) : after.lots[n].rank = L[k].rank
      BY <1>9, <2>2, <3>1, <3>2
    <3>5. Ordered(after.lots)
      <4> SUFFICES ASSUME NEW i \in 1..Len(after.lots), NEW j \in 1..Len(after.lots), i < j
                   PROVE  after.lots[i].rank <= after.lots[j].rank
        BY DEF Ordered
      <4>1. i \in 1..Len(acc.lots)
        BY <1>7, <3>1
      <4>2. CASE j = Len(acc.lots) + 1
        BY <1>9, <2>2, <3>1, <4>1, <4>2
      <4>3. CASE j \in 1..Len(acc.lots)
        BY <2>1, <3>1, <4>1, <4>3 DEF InOrder, Ordered
      <4> QED
        BY <3>2, <4>2, <4>3
    <3>6. \A j \in Len(T) + 1..Len(acc.trades), n \in 1..Len(after.lots) :
            acc.trades[j].entry <= after.lots[n].rank
      BY <1>9, <2>1, <2>4, <3>1, <3>2 DEF InOrder
    <3>7. OneSided(after.lots)
      BY <3>3 DEF OneSided
    <3> QED
      BY <1>11, <2>1, <2>3, <3>4, <3>5, <3>6, <3>7 DEF InOrder, FirstIn
  <2> QED
    BY <1>11, <2>5, <2>6
<1> QED
  BY <1>12, <1>13 DEF after

LEMMA SumsType ==
  ASSUME NEW L \in Seq(OpenLots)
  PROVE  NetQuantity(L) \in Int /\ Worth(L) \in Int
<1> DEFINE l == [side |-> "BUY", quantity |-> 1, price |-> 1, rank |-> 1]
<1>1. l \in OpenLots
  BY DEF OpenLots, Sides
<1> HIDE DEF l
<1> QED
  BY <1>1, LotsArePriced, SumsAppend DEF Sums

LEMMA ProfitConcat ==
  ASSUME NEW S \in Seq(ClosedTrades), NEW T \in Seq(ClosedTrades)
  PROVE  Profit(S \o T) = Profit(S) + Profit(T)
<1> DEFINE gain(t) == [n \in DOMAIN t |-> t[n].realized_pnl]
<1>1. \A t \in ClosedTrades : t.realized_pnl \in Int
  BY DEF ClosedTrades
<1>2. gain(S) \in Seq(Int) /\ gain(T) \in Seq(Int)
  <2>1. Len(S) \in Nat /\ DOMAIN S = 1..Len(S) /\ Len(T) \in Nat /\ DOMAIN T = 1..Len(T)
        /\ (\A n \in 1..Len(S) : S[n] \in ClosedTrades)
        /\ (\A n \in 1..Len(T) : T[n] \in ClosedTrades)
    OBVIOUS
  <2>2. gain(S) \in [1..Len(S) -> Int] /\ gain(T) \in [1..Len(T) -> Int]
    BY <1>1, <2>1
  <2> QED
    BY <2>1, <2>2
<1>3. gain(S \o T) = gain(S) \o gain(T)
  <2>1. /\ S \o T \in Seq(ClosedTrades) /\ Len(S \o T) = Len(S) + Len(T)
        /\ \A n \in 1..Len(S) + Len(T) :
             (S \o T)[n] = IF n <= Len(S) THEN S[n] ELSE T[n - Len(S)]
    OBVIOUS
  <2>2. PICK U \in Seq(ClosedTrades) : U = S \o T
    BY <2>1
  <2>3. /\ DOMAIN U = 1..Len(S) + Len(T) /\ DOMAIN S = 1..Len(S) /\ DOMAIN T = 1..Len(T)
        /\ Len(S) \in Nat /\ Len(T) \in Nat /\ Len(gain(S)) = Len(S) /\ Len(gain(T)) = Len(T)
    BY <2>1, <2>2
  <2>4. /\ DOMAIN (gain(S) \o gain(T)) = 1..Len(S) + Len(T)
        /\ \A n \in 1..Len(S) + Len(T) :
             (gain(S) \o gain(T))[n] = IF n <= Len(S) THEN gain(S)[n] ELSE gain(T)[n - Len(S)]
    <3>1. PICK a \in Seq(Int), b \in Seq(Int) : a = gain(S) /\ b = gain(T)
      BY <1>2
    <3> QED
      BY <2>3, <3>1
  <2>5. \A n \in 1..Len(S) + Len(T) : gain(U)[n] = (gain(S) \o gain(T))[n]
    <3> TAKE n \in 1..Len(S) + Len(T)
    <3>1. gain(U)[n] = U[n].realized_pnl
      BY <2>3
    <3>2. CASE n <= Len(S)
      <4>1. n \in 1..Len(S)
        BY <2>3, <3>2
      <4> QED
        BY <2>1, <2>2, <2>3, <2>4, <3>1, <3>2, <4>1
    <3>3. CASE ~(n <= Len(S))
      <4>1. n - Len(S) \in 1..Len(T)
        BY <2>3, <3>3
      <4> QED
        BY <2>1, <2>2, <2>3, <2>4, <3>1, <3>3, <4>1
    <3> QED
      BY <3>2, <3>3
  <2>6. PICK c \in Seq(Int) : c = gain(S) \o gain(T) /\ Len(c) = Len(S) + Len(T)
    <3>1. PICK a \in Seq(Int), b \in Seq(Int) : a = gain(S) /\ b = gain(T)
      BY <1>2
    <3>2. a \o b \in Seq(Int) /\ Len(a \o b) = Len(a) + Len(b)
      OBVIOUS
    <3> QED
      BY <2>3, <3>1, <3>2
  <2>7. PICK d \in Seq(Int) : d = gain(U) /\ Len(d) = Len(S) + Len(T)
    <3>1. \A n \in 1..Len(U) : U[n] \in ClosedTrades
      OBVIOUS
    <3>2. gain(U) \in [1..Len(S) + Len(T) -> Int]
      BY <1>1, <2>1, <2>2, <2>3, <3>1
    <3>3. gain(U) \in Seq(Int) /\ Len(gain(U)) = Len(S) + Len(T)
      BY <2>3, <3>2
    <3> QED
      BY <3>3
  <2> HIDE DEF gain
  <2>8. Len(d) = Len(c) /\ \A n \in 1..Len(d) : d[n] = c[n]
    BY <2>2, <2>5, <2>6, <2>7
  <2>9. d = c
    BY <2>8, SameElements DEF Extensional
  <2> QED
    BY <2>2, <2>6, <2>7, <2>9
<1>4. Total(gain(S) \o gain(T)) = Total(gain(S)) + Total(gain(T))
  BY <1>2, TotalConcat
<1> QED
  BY <1>3, <1>4 DEF Profit

(***************************************************************************)
(* What lots and trades are like after fills of net quantity net and value *)
(* cash, all of a rank below r: the books balance, and lots are closed     *)
(* first in, first out.                                                    *)
(***************************************************************************)
Reconciled(L, T, net, cash, r) ==
  /\ NetQuantity(L) = net /\ Profit(T) = Worth(L) - cash
  /\ OneSided(L) /\ Ordered(L)
  /\ \A n \in 1..Len(L) : L[n].rank < r
  /\ \A m \in 1..Len(T) : T[m].entry < T[m].exit /\ T[m].entry < r
  /\ \A m, n \in 1..Len(T) : m < n => T[m].entry <= T[n].entry
  /\ \A m \in 1..Len(T), n \in 1..Len(L) : T[m].entry <= L[n].rank

Rebooked(after, T, net, cash, r) ==
  /\ after.lots \in Seq(OpenLots) /\ after.trades \in Seq(ClosedTrades)
  /\ Reconciled(after.lots, T \o after.trades, net, cash, r)

\* One more fill leaves them so.
LEMMA ReconciledTurn ==
  ASSUME NEW L \in Seq(OpenLots), NEW T \in Seq(ClosedTrades), NEW x, IsFill(x),
         NEW net \in Int, NEW cash \in Int, Reconciled(L, T, net, cash, x.rank)
  PROVE  Rebooked(ApplyToLedger([lots |-> L, trades |-> <<>>], x), T,
                  net + Signed(x.side, x.quantity), cash + Value(x), x.rank + 1)
<1> DEFINE after == ApplyToLedger([lots |-> L, trades |-> <<>>], x)
           more == T \o after.trades
<1>1. \A n \in 1..Len(L) : L[n].rank \in Nat
  <2>1. \A n \in 1..Len(L) : L[n] \in OpenLots
    OBVIOUS
  <2> QED
    BY <2>1 DEF OpenLots
<1>2. x.side \in Sides /\ x.quantity \in Nat /\ x.price \in Int /\ x.rank \in Nat
  BY DEF IsFill
<1>3. OneSided(L) /\ Ordered(L) /\ OlderThan(L, x)
  BY <1>1, <1>2 DEF Reconciled, OlderThan
<1>4. PICK none \in Seq(ClosedTrades) : none = <<>>
  <2>1. <<>> \in Seq(ClosedTrades)
    OBVIOUS
  <2> QED
    BY <2>1
<1>5. Accounted(L, none, x, after) /\ FirstIn(L, none, x, after)
  BY <1>3, <1>4, ApplyBooks
<1> HIDE DEF after
<1>6. after.lots \in Seq(OpenLots) /\ after.trades \in Seq(ClosedTrades)
  BY <1>5 DEF Accounted
<1>7. PICK K \in Seq(OpenLots), N \in Seq(ClosedTrades) : K = after.lots /\ N = after.trades
  BY <1>6
<1>8. /\ NetQuantity(K) = NetQuantity(L) + Signed(x.side, x.quantity)
      /\ Profit(N) = Worth(K) - Worth(L) - Value(x)
  <2>1. Profit(none) = 0
    BY <1>4, SumsEmpty
  <2>2. NetQuantity(K) = NetQuantity(L) + Signed(x.side, x.quantity)
        /\ Profit(N) = 0 + Worth(K) - Worth(L) - Value(x)
    BY <1>5, <1>7, <2>1 DEF Accounted
  <2>3. PICK k \in Int, l \in Int, v \in Int : k = Worth(K) /\ l = Worth(L) /\ v = Value(x)
    BY <1>2, SumsType, ValueType
  <2> QED
    BY <2>2, <2>3
<1>9. NetQuantity(K) = net + Signed(x.side, x.quantity)
      /\ Profit(T \o N) = Worth(K) - (cash + Value(x))
  <2>1. Profit(T \o N) = Profit(T) + Profit(N)
    BY ProfitConcat
  <2>2. PICK k \in Int, l \in Int, v \in Int : k = Worth(K) /\ l = Worth(L) /\ v = Value(x)
    BY <1>2, SumsType, ValueType
  <2>3. Profit(T) = l - cash /\ NetQuantity(L) = net /\ Profit(N) = k - l - v
    BY <1>8, <2>2 DEF Reconciled
  <2>4. (l - cash) + (k - l - v) = k - (cash + v)
    OBVIOUS
  <2> QED
    BY <1>8, <2>1, <2>2, <2>3, <2>4
<1>10. \A m \in 1..Len(N) :
         /\ N[m].exit = x.rank
         /\ \E k \in 1..Len(L) : N[m].entry = L[k].rank
  BY <1>4, <1>5, <1>7 DEF FirstIn
<1>11. \A n \in 1..Len(K) :
         K[n].rank = x.rank \/ \E k \in 1..Len(L) : K[n].rank = L[k].rank
  BY <1>5, <1>7 DEF FirstIn
<1>12. OneSided(K) /\ Ordered(K)
  BY <1>5, <1>7 DEF FirstIn
<1>13. /\ \A n \in 1..Len(L) : L[n].rank \in Nat /\ L[n].rank < x.rank
       /\ \A m \in 1..Len(T) : T[m].entry < T[m].exit /\ T[m].entry < x.rank
       /\ \A m, n \in 1..Len(T) : m < n => T[m].entry <= T[n].entry
       /\ \A m \in 1..Len(T), n \in 1..Len(L) : T[m].entry <= L[n].rank
  BY <1>1 DEF Reconciled
<1>14. \A m \in 1..Len(T) : T[m].entry \in Nat
  <2>1. \A m \in 1..Len(T) : T[m] \in ClosedTrades
    OBVIOUS
  <2> QED
    BY <2>1 DEF ClosedTrades
<1>15. /\ \A m, n \in 1..Len(N) : m < n => N[m].entry <= N[n].entry
       /\ \A m \in 1..Len(N), n \in 1..Len(K) : N[m].entry <= K[n].rank
  <2>1. Len(none) = 0
    BY <1>4
  <2> QED
    BY <1>5, <1>7, <2>1 DEF FirstIn
<1>16. PICK M \in Seq(ClosedTrades) : M = T \o N
  <2>1. T \o N \in Seq(ClosedTrades)
    OBVIOUS
  <2> QED
    BY <2>1
<1>17. /\ Len(T) \in Nat /\ Len(N) \in Nat /\ Len(M) = Len(T) + Len(N)
       /\ \A m \in 1..Len(M) :
            \/ m \in 1..Len(T) /\ M[m] = T[m]
            \/ m > Len(T) /\ m - Len(T) \in 1..Len(N) /\ M[m] = N[m - Len(T)]
  BY <1>16
<1>a. PICK r \in Nat : r = x.rank
  BY <1>2
<1>18. \A n \in 1..Len(K) : K[n].rank < r + 1
  <2> TAKE n \in 1..Len(K)
  <2>1. CASE K[n].rank = r
    BY <2>1
  <2>2. ASSUME NEW k \in 1..Len(L), K[n].rank = L[k].rank
        PROVE  K[n].rank < r + 1
    BY <1>a, <1>13, <2>2, SMTT(20)
  <2> QED
    BY <1>a, <1>11, <2>1, <2>2
<1>b. \A m \in 1..Len(N) : N[m].entry < r /\ N[m].exit = r /\ N[m].entry \in Nat
  BY <1>a, <1>10, <1>13
<1>19. \A m \in 1..Len(M) : M[m].entry < M[m].exit /\ M[m].entry < r + 1
  <2> TAKE m \in 1..Len(M)
  <2>1. CASE m \in 1..Len(T) /\ M[m] = T[m]
    BY <1>a, <1>13, <1>14, <2>1
  <2>2. CASE m - Len(T) \in 1..Len(N) /\ M[m] = N[m - Len(T)]
    <3>1. PICK k \in 1..Len(N) : M[m] = N[k]
      BY <2>2
    <3>2. M[m].entry < r /\ M[m].exit = r /\ M[m].entry \in Nat
      BY <1>b, <3>1
    <3> QED
      BY <3>2
  <2> QED
    BY <1>17, <2>1, <2>2
<1>20. \A m \in 1..Len(M), n \in 1..Len(K) : M[m].entry <= K[n].rank
  <2> TAKE m \in 1..Len(M), n \in 1..Len(K)
  <2>1. CASE m \in 1..Len(T) /\ M[m] = T[m]
    <3>1. CASE K[n].rank = r
      BY <1>a, <1>13, <1>14, <2>1, <3>1
    <3>2. ASSUME NEW k \in 1..Len(L), K[n].rank = L[k].rank
          PROVE  M[m].entry <= K[n].rank
      BY <1>13, <2>1, <3>2
    <3> QED
      BY <1>a, <1>11, <3>1, <3>2
  <2> QED
    BY <1>15, <1>17, <2>1
<1>21. \A m, n \in 1..Len(M) : m < n => M[m].entry <= M[n].entry
  <2> SUFFICES ASSUME NEW m \in 1..Len(M), NEW n \in 1..Len(M), m < n
               PROVE  M[m].entry <= M[n].entry
    OBVIOUS
  <2>1. CASE n \in 1..Len(T) /\ M[n] = T[n]
    <3>1. m \in 1..Len(T) /\ M[m] = T[m]
      BY <1>17, <2>1
    <3> QED
      BY <1>13, <2>1, <3>1
  <2>2. CASE n > Len(T) /\ n - Len(T) \in 1..Len(N) /\ M[n] = N[n - Len(T)]
    <3>1. CASE m \in 1..Len(T) /\ M[m] = T[m]
      BY <1>10, <1>13, <2>2, <3>1
    <3>2. CASE m > Len(T) /\ m - Len(T) \in 1..Len(N) /\ M[m] = N[m - Len(T)]
      <4>1. m - Len(T) < n - Len(T)
        BY <1>17
      <4> QED
        BY <1>15, <2>2, <3>2, <4>1
    <3> QED
      BY <1>17, <3>1, <3>2
  <2> QED
    BY <1>17, <2>1, <2>2
<1>22. Reconciled(K, M, net + Signed(x.side, x.quantity), cash + Value(x), x.rank + 1)
  BY <1>9, <1>a, <1>12, <1>16, <1>18, <1>19, <1>20, <1>21 DEF Reconciled
<1> QED
  BY <1>6, <1>7, <1>16, <1>22 DEF Rebooked, after

----------------------------------------------------------------------------
(***************************************************************************)
(* The loop of a position, and how it goes along with the ledger's.        *)
(***************************************************************************)
HeldLots == [side : Sides, quantity : Nat \ {0}, price : Int]
Positions == [open_lots : Seq(HeldLots), realized_pnl : Int]
Closings == [remaining : Nat, lots : Seq(HeldLots), pnl : Int]

HeldTurned(acc, lot, side, price) ==
  LET matched == Lesser(acc.remaining, lot.quantity)
      left    == lot.quantity - matched
      rest    == [lot EXCEPT !.quantity = left]
      after   == MatchLot(acc, lot, Opposite(side), price)
  IN  /\ after \in Closings
      /\ acc.remaining = 0 \/ lot.side # Opposite(side) =>
           after = [remaining |-> acc.remaining, lots |-> Append(acc.lots, lot), pnl |-> acc.pnl]
      /\ acc.remaining # 0 /\ lot.side = Opposite(side) =>
           /\ after.remaining = acc.remaining - matched
           /\ after.pnl = acc.pnl + matched * Gain(lot.side, lot.price, price)
           /\ \/ left = 0 /\ after.lots = acc.lots
              \/ left > 0 /\ rest \in HeldLots /\ after.lots = Append(acc.lots, rest)

LEMMA HeldTurn ==
  ASSUME NEW acc \in Closings, NEW lot \in HeldLots, NEW side \in Sides, NEW price \in Int
  PROVE  HeldTurned(acc, lot, side, price)
<1> DEFINE matched == Lesser(acc.remaining, lot.quantity)
           left    == lot.quantity - matched
           rest    == [lot EXCEPT !.quantity = left]
           after   == MatchLot(acc, lot, Opposite(side), price)
<1>1. /\ acc.remaining \in Nat /\ acc.lots \in Seq(HeldLots) /\ acc.pnl \in Int
      /\ lot.side \in Sides /\ lot.quantity \in Nat \ {0} /\ lot.price \in Int
      /\ acc = [remaining |-> acc.remaining, lots |-> acc.lots, pnl |-> acc.pnl]
  BY DEF Closings, HeldLots
<1>2. CASE acc.remaining = 0 \/ lot.side # Opposite(side)
  <2>1. after = [acc EXCEPT !.lots = Append(@, lot)]
    BY <1>2 DEF MatchLot
  <2>2. Append(acc.lots, lot) \in Seq(HeldLots)
    BY <1>1
  <2>3. after = [remaining |-> acc.remaining, lots |-> Append(acc.lots, lot), pnl |-> acc.pnl]
    BY <1>1, <2>1
  <2> HIDE DEF after
  <2>4. after \in Closings
    BY <1>1, <2>2, <2>3 DEF Closings
  <2> QED
    BY <1>2, <2>3, <2>4 DEF HeldTurned, after
<1>3. CASE acc.remaining # 0 /\ lot.side = Opposite(side)
  <2>1. after = [remaining |-> acc.remaining - matched,
                 lots |-> IF left > 0 THEN Append(acc.lots, rest) ELSE acc.lots,
                 pnl |-> acc.pnl + matched * Gain(lot.side, lot.price, price)]
    BY <1>3 DEF MatchLot
  <2>2. matched \in Nat \ {0} /\ matched <= acc.remaining /\ matched <= lot.quantity
    BY <1>1, <1>3 DEF Lesser
  <2> HIDE DEF matched
  <2>3. Gain(lot.side, lot.price, price) \in Int
    BY <1>1, GainType
  <2>4. acc.pnl + matched * Gain(lot.side, lot.price, price) \in Int
    BY <1>1, <2>2, <2>3
  <2>5. left \in Nat /\ acc.remaining - matched \in Nat
    BY <1>1, <2>2
  <2>6. left > 0 => rest \in HeldLots
    BY <1>1, <2>5 DEF HeldLots
  <2> HIDE DEF left, rest, after
  <2>7. CASE left > 0
    <3>1. Append(acc.lots, rest) \in Seq(HeldLots)
      BY <1>1, <2>6, <2>7
    <3>2. after = [remaining |-> acc.remaining - matched, lots |-> Append(acc.lots, rest),
                   pnl |-> acc.pnl + matched * Gain(lot.side, lot.price, price)]
      BY <2>1, <2>7
    <3>3. after \in Closings
      BY <2>4, <2>5, <3>1, <3>2 DEF Closings
    <3> QED
      BY <1>3, <2>6, <2>7, <3>2, <3>3 DEF HeldTurned, after, left, rest, matched
  <2>8. CASE left = 0
    <3>1. after = [remaining |-> acc.remaining - matched, lots |-> acc.lots,
                   pnl |-> acc.pnl + matched * Gain(lot.side, lot.price, price)]
      BY <2>1, <2>8
    <3>2. after \in Closings
      BY <1>1, <2>4, <2>5, <3>1 DEF Closings
    <3> QED
      BY <1>3, <2>8, <3>1, <3>2 DEF HeldTurned, after, left, rest, matched
  <2> QED
    BY <2>5, <2>7, <2>8
<1> QED
  BY <1>2, <1>3

HeldMatching(upTo, P, side, q, price) ==
  /\ upTo \in [0..Len(P.open_lots) -> Closings]
  /\ upTo[0] = [remaining |-> q, lots |-> <<>>, pnl |-> P.realized_pnl]
  /\ \A i \in 1..Len(P.open_lots) :
       upTo[i] = MatchLot(upTo[i - 1], P.open_lots[i], Opposite(side), price)
  /\ MatchLots(P, side, q, price) = upTo[Len(P.open_lots)]

LEMMA HeldLoop ==
  ASSUME NEW P \in Positions, NEW side \in Sides, NEW q \in Nat, NEW price \in Int
  PROVE  \E upTo : HeldMatching(upTo, P, side, q, price)
<1>1. P.open_lots \in Seq(HeldLots) /\ P.realized_pnl \in Int
  BY DEF Positions
<1>2. PICK L \in Seq(HeldLots) : L = P.open_lots
  BY <1>1
<1> DEFINE n == Len(L)
           b == [remaining |-> q, lots |-> <<>>, pnl |-> P.realized_pnl]
           next(a, i) == MatchLot(a, L[i], Opposite(side), price)
           step == [i \in 1..n |-> [a \in Closings |-> next(a, i)]]
           loop == CHOOSE f : f = [i \in 0..n |-> IF i = 0 THEN b ELSE next(f[i - 1], i)]
<1>3. n \in Nat
  OBVIOUS
<1>4. \A i \in 1..n, a \in Closings : next(a, i) \in Closings
  <2> TAKE i \in 1..n, a \in Closings
  <2>1. PICK lot \in HeldLots : lot = L[i]
    OBVIOUS
  <2>2. HeldTurned(a, lot, side, price)
    BY HeldTurn
  <2> QED
    BY <2>1, <2>2 DEF HeldTurned
<1>5. MatchLots(P, side, q, price) = loop[n]
  BY <1>2 DEF MatchLots
<1>6. b \in Closings
  <2>1. <<>> \in Seq(HeldLots)
    OBVIOUS
  <2> QED
    BY <1>1, <2>1 DEF Closings
<1> HIDE DEF n, next, b
<1>7. Stepping(Closings, b, n, step)
  BY <1>3, <1>4, <1>6 DEF Stepping
<1>8. PICK f : Looping(f, Closings, b, n, step)
  BY <1>7, Recursion
<1>9. f = [i \in 0..n |-> IF i = 0 THEN b ELSE next(f[i - 1], i)]
  <2>1. f \in [0..n -> Closings] /\ f[0] = b /\ \A i \in 1..n : f[i] = step[i][f[i - 1]]
    BY <1>8 DEF Looping
  <2>2. ASSUME NEW i \in 1..n
        PROVE  f[i] = next(f[i - 1], i)
    <3>1. f[i - 1] \in Closings /\ step[i] = [a \in Closings |-> next(a, i)]
      BY <1>3, <2>1
    <3> QED
      BY <2>1, <3>1
  <2> HIDE DEF loop, step
  <2> QED
    BY <1>3, <2>1, <2>2
<1>10. loop = [i \in 0..n |-> IF i = 0 THEN b ELSE next(loop[i - 1], i)]
  BY <1>9
<1> HIDE DEF loop, step
<1>11. 0 \in 0..n /\ \A i \in 1..n : i \in 0..n /\ i # 0 /\ i - 1 \in 0..n
  BY <1>3
<1>12. loop[0] = b /\ \A i \in 1..n : loop[i] = next(loop[i - 1], i)
  BY <1>10, <1>11
<1>13. \A i \in 0..n : loop[i] \in Closings
  <2> DEFINE U == {i \in 0..n : loop[i] \in Closings}
  <2>1. 0 \in U
    BY <1>6, <1>11, <1>12
  <2>2. ASSUME NEW i \in 1..n, i - 1 \in U
        PROVE  i \in U
    BY <1>4, <1>11, <1>12, <2>2
  <2> HIDE DEF U
  <2>3. 0..n \subseteq U
    BY <1>3, <2>1, <2>2, IntervalInSet
  <2> QED
    BY <2>3 DEF U
<1>14. loop \in [0..n -> Closings]
  BY <1>10, <1>13
<1>15. HeldMatching(loop, P, side, q, price)
  BY <1>2, <1>5, <1>12, <1>14 DEF n, next, b, HeldMatching
<1> QED
  BY <1>15

LEMMA CloseType ==
  ASSUME NEW P \in Positions, NEW side \in Sides, NEW q \in Nat, NEW price \in Int
  PROVE  CloseLots(P, side, q, price) \in Closings
<1>1. PICK upTo : HeldMatching(upTo, P, side, q, price)
  BY HeldLoop
<1>2. PICK L \in Seq(HeldLots) : L = P.open_lots
  BY DEF Positions
<1>3. Len(L) \in 0..Len(L)
  OBVIOUS
<1>4. PICK done \in Closings : done = MatchLots(P, side, q, price)
  BY <1>1, <1>2, <1>3 DEF HeldMatching
<1>5. OfSide(L, side) \in Seq(HeldLots)
  BY ChosenType DEF OfSide
<1>6. PICK own \in Seq(HeldLots) : own = OfSide(L, side)
  BY <1>5
<1>7. done.lots \o own \in Seq(HeldLots)
  BY DEF Closings
<1>8. PICK all \in Seq(HeldLots) : all = done.lots \o own
  BY <1>7
<1>9. NonEmpty(all) \in Seq(HeldLots)
  BY ChosenType DEF NonEmpty
<1>10. CloseLots(P, side, q, price) = [done EXCEPT !.lots = NonEmpty(all)]
  BY <1>2, <1>4, <1>6, <1>8 DEF CloseLots
<1> QED
  BY <1>9, <1>10 DEF Closings

\* The lots of the ledger, without what the position does not keep of them.
Stripped(L) == [n \in DOMAIN L |-> PositionLot(L[n].side, L[n].quantity, L[n].price)]

Bare(lot) == PositionLot(lot.side, lot.quantity, lot.price)
Strips(L, lot) ==
  /\ Stripped(L) \in Seq(HeldLots) /\ Len(Stripped(L)) = Len(L)
  /\ \A n \in 1..Len(L) : Stripped(L)[n] = Bare(L[n])
  /\ Stripped(Append(L, lot)) = Append(Stripped(L), Bare(lot))

LEMMA StrippedAppend ==
  ASSUME NEW L \in Seq(OpenLots), NEW lot \in OpenLots
  PROVE  Strips(L, lot) /\ Bare(lot) \in HeldLots
<1>1. \A l \in OpenLots : Bare(l) \in HeldLots
  BY DEF OpenLots, HeldLots, Bare, PositionLot
<1>2. \A M \in Seq(OpenLots) :
        /\ Stripped(M) \in Seq(HeldLots) /\ Len(Stripped(M)) = Len(M)
        /\ \A n \in 1..Len(M) : Stripped(M)[n] = Bare(M[n])
  <2> TAKE M \in Seq(OpenLots)
  <2>1. Stripped(M) = [n \in 1..Len(M) |-> Bare(M[n])] /\ Len(M) \in Nat
        /\ \A n \in 1..Len(M) : M[n] \in OpenLots
    BY DEF Stripped, Bare
  <2>2. [n \in 1..Len(M) |-> Bare(M[n])] \in [1..Len(M) -> HeldLots]
    BY <1>1, <2>1
  <2>3. PICK s \in [1..Len(M) -> HeldLots] : s = [n \in 1..Len(M) |-> Bare(M[n])]
    BY <2>2
  <2>4. s \in Seq(HeldLots) /\ Len(s) = Len(M)
    BY <2>1
  <2> QED
    BY <2>1, <2>3, <2>4
<1>3. PICK M \in Seq(OpenLots) : M = Append(L, lot)
  BY AppendProperties
<1>4. PICK a \in Seq(HeldLots) : a = Stripped(L)
  BY <1>2
<1>5. PICK b \in HeldLots : b = Bare(lot)
  BY <1>1
<1>6. PICK c \in Seq(HeldLots) : c = Stripped(M)
  BY <1>2
<1>7. PICK d \in Seq(HeldLots) : d = Append(a, b)
  BY AppendProperties
<1>8. Len(c) = Len(d) /\ \A n \in 1..Len(c) : c[n] = d[n]
  <2>1. Len(M) = Len(L) + 1 /\ M[Len(L) + 1] = lot /\ (\A n \in 1..Len(L) : M[n] = L[n])
        /\ Len(L) \in Nat
    BY <1>3
  <2>2. Len(d) = Len(a) + 1 /\ d[Len(a) + 1] = b /\ \A n \in 1..Len(a) : d[n] = a[n]
    BY <1>7
  <2>3. Len(a) = Len(L) /\ (\A n \in 1..Len(L) : a[n] = Bare(L[n]))
        /\ Len(c) = Len(M) /\ \A n \in 1..Len(M) : c[n] = Bare(M[n])
    BY <1>2, <1>4, <1>6
  <2>4. \A n \in 1..Len(c) : n = Len(L) + 1 \/ n \in 1..Len(L)
    BY <2>1, <2>3
  <2> QED
    BY <1>5, <2>1, <2>2, <2>3, <2>4
<1>9. c = d
  BY <1>8, SameElements DEF Extensional
<1> QED
  BY <1>2, <1>3, <1>4, <1>5, <1>6, <1>7, <1>9 DEF Strips

\* As long as the fill finds lots of the other side only, both loops do the same.
Along(held, acc, pnl) ==
  /\ held.remaining = acc.remaining /\ held.lots = Stripped(acc.lots)
  /\ held.pnl = pnl + Profit(acc.trades)

LEMMA AlongTurn ==
  ASSUME NEW held \in Closings, NEW acc \in LedgerTurns, NEW pnl \in Int, NEW lot \in OpenLots,
         NEW x, IsFill(x), lot.side = Opposite(x.side), Along(held, acc, pnl)
  PROVE  Along(MatchLot(held, Bare(lot), Opposite(x.side), x.price), Match(acc, lot, x), pnl)
<1> DEFINE m == Lesser(acc.remaining, lot.quantity)
           left == lot.quantity - m
           rest == [lot EXCEPT !.quantity = left]
           bare == Bare(lot)
           after == Match(acc, lot, x)
           held2 == MatchLot(held, bare, Opposite(x.side), x.price)
<1>1. /\ acc.remaining \in Nat /\ acc.lots \in Seq(OpenLots) /\ acc.trades \in Seq(ClosedTrades)
      /\ lot.side \in Sides /\ lot.quantity \in Nat \ {0} /\ lot.price \in Int /\ lot.rank \in Nat
      /\ x.side \in Sides /\ x.price \in Int
  BY DEF LedgerTurns, OpenLots, IsFill
<1>2. /\ bare \in HeldLots /\ bare.side = lot.side /\ bare.quantity = lot.quantity
      /\ bare.price = lot.price
  <2>1. bare \in HeldLots
    BY StrippedAppend, <1>1
  <2> QED
    BY <2>1 DEF Bare, PositionLot
<1>3. [bare EXCEPT !.quantity = left] = Bare(rest)
  BY DEF Bare, PositionLot, OpenLots
<1> HIDE DEF bare
<1>4. HeldTurned(held, bare, x.side, x.price)
  BY <1>1, <1>2, HeldTurn
<1>5. Turned(acc, lot, x)
  BY MatchTurn
<1>6. held.remaining = acc.remaining /\ held.lots = Stripped(acc.lots)
      /\ held.pnl = pnl + Profit(acc.trades)
  BY DEF Along
<1> HIDE DEF rest, after, held2
<1>7. CASE acc.remaining = 0
  <2>1. after.remaining = acc.remaining /\ after.trades = acc.trades
        /\ after.lots = Append(acc.lots, lot)
    BY <1>5, <1>7 DEF Turned, Closes, after
  <2>2. held2 = [remaining |-> held.remaining, lots |-> Append(held.lots, bare), pnl |-> held.pnl]
    BY <1>4, <1>6, <1>7 DEF HeldTurned, held2
  <2>3. Strips(acc.lots, lot)
    BY <1>1, StrippedAppend
  <2>4. held2.lots = Stripped(after.lots)
    BY <1>6, <2>1, <2>2, <2>3 DEF Strips, bare
  <2> QED
    BY <1>6, <2>1, <2>2, <2>4 DEF Along, after, held2, bare
<1>8. CASE acc.remaining # 0
  <2>1. /\ m \in Nat \ {0} /\ after.remaining = acc.remaining - m
        /\ Trade(lot, x, m) \in ClosedTrades
        /\ after.trades = Append(acc.trades, Trade(lot, x, m))
        /\ \/ left = 0 /\ after.lots = acc.lots
           \/ left \in Nat \ {0} /\ rest \in OpenLots /\ after.lots = Append(acc.lots, rest)
    BY <1>5, <1>8 DEF Turned, Closes, after, rest
  <2>2. /\ held2.remaining = acc.remaining - m
        /\ held2.pnl = held.pnl + m * Gain(lot.side, lot.price, x.price)
        /\ \/ left = 0 /\ held2.lots = held.lots
           \/ left > 0 /\ held2.lots = Append(held.lots, Bare(rest))
    BY <1>2, <1>3, <1>4, <1>6, <1>8 DEF HeldTurned, held2
  <2> HIDE DEF m, left
  <2>3. held2.pnl = pnl + Profit(after.trades)
    <3>1. PICK T \in Seq(ClosedTrades) : T = acc.trades
      BY <1>1
    <3>2. PICK t \in ClosedTrades : t = Trade(lot, x, m)
      BY <2>1
    <3>3. SumsProfit(T, t)
      BY ProfitAppend
    <3>4. t.realized_pnl = m * Gain(lot.side, lot.price, x.price) /\ t.realized_pnl \in Int
      BY <3>2 DEF Trade, ClosedTrades
    <3>5. Profit(after.trades) = Profit(T) + t.realized_pnl /\ Profit(T) \in Int
      BY <2>1, <3>1, <3>2, <3>3 DEF SumsProfit
    <3> QED
      BY <1>6, <2>2, <3>1, <3>4, <3>5
  <2>4. held2.lots = Stripped(after.lots)
    <3>1. CASE left = 0
      BY <1>6, <2>1, <2>2, <3>1
    <3>2. CASE left # 0
      <4>1. rest \in OpenLots /\ after.lots = Append(acc.lots, rest)
            /\ held2.lots = Append(held.lots, Bare(rest))
        BY <2>1, <2>2, <3>2
      <4>2. Strips(acc.lots, rest)
        BY <1>1, <4>1, StrippedAppend
      <4> QED
        BY <1>6, <4>1, <4>2 DEF Strips
    <3> QED
      BY <3>1, <3>2
  <2> QED
    BY <2>1, <2>2, <2>3, <2>4 DEF Along, after, held2, bare
<1> QED
  BY <1>7, <1>8

Alike(c, after, x, pnl) ==
  /\ c.lots \o Left(x.side, c.remaining, x.price) = Stripped(after.lots)
  /\ c.pnl = pnl + Profit(after.trades)

\* What CloseLots leaves and the lot appended to it are the lots of the ledger.
LEMMA ClosedAlike ==
  ASSUME NEW L \in Seq(OpenLots), NEW x, IsFill(x), NEW P \in Positions,
         P.open_lots = Stripped(L), \A n \in 1..Len(L) : L[n].side = Opposite(x.side)
  PROVE  Alike(CloseLots(P, x.side, x.quantity, x.price),
               ApplyToLedger([lots |-> L, trades |-> <<>>], x), x, P.realized_pnl)
<1>1. PICK none \in Seq(ClosedTrades) : none = <<>>
  <2>1. <<>> \in Seq(ClosedTrades)
    OBVIOUS
  <2> QED
    BY <2>1
<1>2. PICK led : Matching(led, L, none, x)
  BY MatchedLoop
<1>3. x.side \in Sides /\ x.quantity \in Nat /\ x.price \in Int
  BY DEF IsFill
<1>4. PICK held : HeldMatching(held, P, x.side, x.quantity, x.price)
  BY <1>3, HeldLoop
<1>5. PICK pnl \in Int : pnl = P.realized_pnl
  BY DEF Positions
<1>6. PICK S \in Seq(HeldLots) : S = P.open_lots
  BY DEF Positions
<1>7. /\ Len(S) = Len(L) /\ Len(L) \in Nat
      /\ \A n \in 1..Len(L) : S[n] = Bare(L[n]) /\ S[n] \in HeldLots
  <2>1. CASE Len(L) = 0
    <3>1. Len(Stripped(L)) = 0
      BY <2>1 DEF Stripped
    <3> QED
      BY <1>6, <2>1, <3>1
  <2>2. CASE Len(L) # 0
    <3>1. PICK l \in OpenLots : l = L[1]
      BY <2>2
    <3>2. Strips(L, l)
      BY StrippedAppend
    <3> QED
      BY <1>6, <3>2 DEF Strips
  <2> QED
    BY <2>1, <2>2
<1> DEFINE U == {i \in 0..Len(L) : Along(held[i], led[i], pnl)}
<1>8. 0 \in U
  <2>1. led[0] = [remaining |-> x.quantity, lots |-> <<>>, trades |-> none]
    BY <1>2 DEF Matching
  <2>2. held[0] = [remaining |-> x.quantity, lots |-> <<>>, pnl |-> pnl]
    BY <1>4, <1>5 DEF HeldMatching
  <2>3. Stripped(<<>>) = <<>>
    BY DEF Stripped
  <2>4. Profit(none) = 0
    BY <1>1, SumsEmpty
  <2> QED
    BY <1>7, <2>1, <2>2, <2>3, <2>4 DEF Along
<1>9. ASSUME NEW i \in 1..Len(L), i - 1 \in U
      PROVE  i \in U
  <2>1. i - 1 \in 0..Len(L) /\ i \in 0..Len(L) /\ Along(held[i - 1], led[i - 1], pnl)
    BY <1>9
  <2>2. PICK a \in LedgerTurns : a = led[i - 1]
    BY <1>2, <2>1 DEF Matching
  <2>3. PICK h \in Closings : h = held[i - 1]
    BY <1>4, <1>6, <1>7, <2>1 DEF HeldMatching
  <2>4. PICK lot \in OpenLots : lot = L[i]
    OBVIOUS
  <2>5. Along(h, a, pnl) /\ lot.side = Opposite(x.side)
    BY <2>1, <2>2, <2>3, <2>4
  <2>6. led[i] = Match(a, lot, x)
    BY <1>2, <2>2, <2>4 DEF Matching
  <2>7. held[i] = MatchLot(h, Bare(lot), Opposite(x.side), x.price)
    BY <1>4, <1>6, <1>7, <2>3, <2>4 DEF HeldMatching
  <2>8. Along(held[i], led[i], pnl)
    BY <2>5, <2>6, <2>7, AlongTurn
  <2> QED
    BY <2>1, <2>8
<1> HIDE DEF U
<1>10. 0..Len(L) \subseteq U
  BY <1>7, <1>8, <1>9, IntervalInSet
<1>11. Along(held[Len(L)], led[Len(L)], pnl)
  BY <1>7, <1>10 DEF U
<1>12. PICK acc \in LedgerTurns : acc = led[Len(L)] /\ acc = MatchedLots([lots |-> L, trades |-> none], x)
  BY <1>2, <1>7 DEF Matching
<1>13. PICK done \in Closings : done = held[Len(L)] /\ done = MatchLots(P, x.side, x.quantity, x.price)
  BY <1>4, <1>6, <1>7 DEF HeldMatching
<1>14. done.remaining = acc.remaining /\ done.lots = Stripped(acc.lots)
       /\ done.pnl = pnl + Profit(acc.trades)
  BY <1>11, <1>12, <1>13 DEF Along
<1>15. PICK kept \in Seq(HeldLots) : kept = done.lots
  BY DEF Closings
<1>16. OfSide(S, x.side) = <<>>
  <2>1. \A n \in 1..Len(S) : S[n].side # x.side
    <3> TAKE n \in 1..Len(S)
    <3>1. n \in 1..Len(L) /\ S[n] = Bare(L[n]) /\ L[n].side = Opposite(x.side)
      BY <1>7
    <3>2. S[n].side = Opposite(x.side)
      BY <3>1 DEF Bare, PositionLot
    <3> QED
      BY <1>3, <3>2 DEF Opposite, Sides
  <2> DEFINE places == {n \in DOMAIN S : S[n].side = x.side}
  <2>2. \A n \in 1..Len(S) : n \notin places
    BY <2>1
  <2>3. Chosen(S, places) = <<>>
    BY <2>2, ChosenNone
  <2> QED
    BY <2>3 DEF OfSide
<1>17. NonEmpty(kept) = kept
  <2> DEFINE places == {n \in DOMAIN kept : kept[n].quantity > 0}
  <2>1. \A n \in 1..Len(kept) : kept[n] \in HeldLots
    OBVIOUS
  <2>2. \A n \in 1..Len(kept) : n \in places
    BY <2>1 DEF HeldLots
  <2>3. Chosen(kept, places) = kept
    BY <2>2, ChosenAll
  <2> QED
    BY <2>3 DEF NonEmpty
<1>18. kept \o <<>> = kept
  OBVIOUS
<1> DEFINE c == CloseLots(P, x.side, x.quantity, x.price)
           after == ApplyToLedger([lots |-> L, trades |-> <<>>], x)
<1>19. c = [done EXCEPT !.lots = kept]
  BY <1>6, <1>13, <1>15, <1>16, <1>17, <1>18 DEF CloseLots
<1>20. c.lots = kept /\ c.remaining = acc.remaining /\ c.pnl = pnl + Profit(acc.trades)
  BY <1>14, <1>19 DEF Closings
<1>21. after = [lots |-> IF acc.remaining > 0 THEN Append(acc.lots, OpenLot(x, acc.remaining))
                         ELSE acc.lots,
                trades |-> acc.trades]
  BY <1>1, <1>12 DEF ApplyToLedger
<1> HIDE DEF c, after
<1>22. c.lots \o Left(x.side, c.remaining, x.price) = Stripped(after.lots)
  <2>1. CASE acc.remaining > 0
    <3>1. PICK l \in OpenLots : l = OpenLot(x, acc.remaining)
      <4>1. OpenLot(x, acc.remaining) \in OpenLots
        BY <2>1 DEF OpenLot, OpenLots, LedgerTurns, IsFill
      <4> QED
        BY <4>1
    <3>2. PICK K \in Seq(OpenLots) : K = acc.lots
      BY DEF LedgerTurns
    <3>3. Strips(K, l) /\ Bare(l) \in HeldLots
      BY StrippedAppend
    <3>4. PICK b \in HeldLots : b = Bare(l)
      BY <3>3
    <3>5. after.lots = Append(K, l)
      BY <1>21, <2>1, <3>1, <3>2
    <3>6. Stripped(after.lots) = Append(kept, b)
      BY <1>14, <1>15, <3>2, <3>3, <3>4, <3>5 DEF Strips
    <3>7. Left(x.side, c.remaining, x.price) = <<b>>
      BY <1>20, <2>1, <3>1, <3>4 DEF Left, Bare, OpenLot
    <3>8. kept \o <<b>> = Append(kept, b)
      OBVIOUS
    <3> QED
      BY <1>20, <3>6, <3>7, <3>8
  <2>2. CASE acc.remaining = 0
    <3>1. Left(x.side, c.remaining, x.price) = <<>>
      BY <1>20, <2>2 DEF Left
    <3>2. after.lots = acc.lots
      BY <1>21, <2>2
    <3> QED
      BY <1>14, <1>15, <1>18, <1>20, <3>1, <3>2
  <2> QED
    <3>1. acc.remaining \in Nat
      BY DEF LedgerTurns
    <3>2. acc.remaining > 0 \/ acc.remaining = 0
      BY <3>1
    <3> QED
      BY <2>1, <2>2, <3>2
<1> QED
  BY <1>5, <1>20, <1>21, <1>22 DEF Alike, c, after

----------------------------------------------------------------------------
(***************************************************************************)
(* Lots of one side.                                                       *)
(***************************************************************************)
Amount(seq) == Total([n \in DOMAIN seq |-> seq[n].quantity])
Cost(seq) == Total([n \in DOMAIN seq |-> seq[n].quantity * seq[n].price])

Counts(seq, e) ==
  /\ Amount(seq) \in Int /\ Cost(seq) \in Int
  /\ Amount(Append(seq, e)) = Amount(seq) + e.quantity
  /\ Cost(Append(seq, e)) = Cost(seq) + e.quantity * e.price

LEMMA CountsAppend ==
  ASSUME NEW seq \in Seq(OpenLots), NEW e \in OpenLots
  PROVE  Counts(seq, e)
<1> DEFINE quantity == [x \in OpenLots |-> x.quantity]
           value == [x \in OpenLots |-> x.quantity * x.price]
<1>1. quantity \in [OpenLots -> Int] /\ value \in [OpenLots -> Int]
  <2>1. \A x \in OpenLots : x.quantity \in Int /\ x.price \in Int
    BY DEF OpenLots
  <2>2. \A a, b \in Int : a * b \in Int
    OBVIOUS
  <2>3. \A x \in OpenLots : x.quantity * x.price \in Int
    BY <2>1, <2>2
  <2> QED
    BY <2>1, <2>3
<1>2. \A s \in Seq(OpenLots) : Amount(s) = SumBy(quantity, s) /\ Cost(s) = SumBy(value, s)
  <2> TAKE s \in Seq(OpenLots)
  <2>1. \A n \in DOMAIN s : s[n] \in OpenLots
    OBVIOUS
  <2>2. [n \in DOMAIN s |-> s[n].quantity] = [n \in DOMAIN s |-> quantity[s[n]]]
    BY <2>1
  <2>3. [n \in DOMAIN s |-> s[n].quantity * s[n].price] = [n \in DOMAIN s |-> value[s[n]]]
    BY <2>1
  <2> HIDE DEF quantity, value
  <2> QED
    BY <2>2, <2>3 DEF Amount, Cost, SumBy
<1>3. quantity[e] = e.quantity /\ value[e] = e.quantity * e.price
      /\ Append(seq, e) \in Seq(OpenLots)
  OBVIOUS
<1> HIDE DEF quantity, value
<1>4. Adds(quantity, seq, e) /\ Adds(value, seq, e)
  BY <1>1, SumByAppend
<1> QED
  BY <1>2, <1>3, <1>4 DEF Adds, Counts

\* What lots of one side come to.
OfOneSide(L, side) ==
  /\ Amount(L) \in Nat /\ Cost(L) \in Int /\ (Len(L) > 0 => Amount(L) > 0)
  /\ NetQuantity(L) = Signed(side, Amount(L)) /\ Worth(L) = Signed(side, Cost(L))

LEMMA OneSidedSums ==
  ASSUME NEW L \in Seq(OpenLots), NEW side \in Sides, \A n \in 1..Len(L) : L[n].side = side
  PROVE  OfOneSide(L, side)
<1>1. PICK part : Prefixes(part, OpenLots, L)
  BY SequencePrefixes
<1>2. Len(L) \in Nat
  OBVIOUS
<1> DEFINE U == {i \in 0..Len(L) : OfOneSide(part[i], side)}
<1>3. 0 \in U
  <2>1. Amount(<<>>) = 0 /\ Cost(<<>>) = 0
    <3>1. /\ [n \in DOMAIN <<>> |-> <<>>[n].quantity] = <<>>
          /\ [n \in DOMAIN <<>> |-> <<>>[n].quantity * <<>>[n].price] = <<>>
      OBVIOUS
    <3> QED
      BY <3>1, TotalEmpty DEF Amount, Cost
  <2>2. part[0] = <<>> /\ Len(<<>>) = 0
    BY <1>1 DEF Prefixes
  <2> QED
    BY <1>2, <2>1, <2>2, SumsEmpty DEF OfOneSide, Signed
<1>4. ASSUME NEW i \in 1..Len(L), i - 1 \in U
      PROVE  i \in U
  <2>1. i \in 0..Len(L) /\ i - 1 \in 0..Len(L)
    OBVIOUS
  <2>2. PICK P \in Seq(OpenLots) : P = part[i - 1]
    BY <1>1 DEF Prefixes
  <2>3. PICK lot \in OpenLots : lot = L[i]
    OBVIOUS
  <2>4. part[i] = Append(P, lot) /\ OfOneSide(P, side) /\ lot.side = side
    BY <1>1, <1>4, <2>2, <2>3 DEF Prefixes
  <2>5. Sums(P, lot) /\ Counts(P, lot)
    BY LotsArePriced, SumsAppend, CountsAppend
  <2>6. lot.quantity \in Nat \ {0} /\ lot.price \in Int
    BY DEF OpenLots
  <2>7. PICK q \in Nat \ {0}, p \in Int, v \in Int :
          q = lot.quantity /\ p = lot.price /\ v = lot.quantity * lot.price
    <3>1. lot.quantity * lot.price \in Int
      BY <2>6
    <3> QED
      BY <2>6, <3>1
  <2>8. Value(lot) = Signed(side, v)
    <3>1. p * q = v /\ p * (-q) = -v
      BY <2>7
    <3> QED
      BY <2>4, <2>7, <3>1 DEF Value, Signed
  <2>9. PICK a \in Nat, c \in Int : a = Amount(P) /\ c = Cost(P)
    BY <2>4 DEF OfOneSide
  <2>10. PICK M \in Seq(OpenLots) : M = Append(P, lot)
    BY AppendProperties
  <2>11. /\ Amount(M) = a + q /\ Cost(M) = c + v
         /\ NetQuantity(M) = Signed(side, a) + Signed(side, q)
         /\ Worth(M) = Signed(side, c) + Signed(side, v)
    BY <2>4, <2>5, <2>7, <2>8, <2>9, <2>10 DEF OfOneSide, Counts, Sums
  <2>12. Signed(side, a) + Signed(side, q) = Signed(side, a + q)
         /\ Signed(side, c) + Signed(side, v) = Signed(side, c + v)
    BY DEF Signed
  <2>13. OfOneSide(M, side)
    BY <2>11, <2>12 DEF OfOneSide
  <2> QED
    BY <2>1, <2>4, <2>10, <2>13
<1> HIDE DEF U
<1>5. 0..Len(L) \subseteq U
  BY <1>2, <1>3, <1>4, IntervalInSet
<1>6. OfOneSide(part[Len(L)], side)
  BY <1>2, <1>5 DEF U
<1> QED
  BY <1>1, <1>6 DEF Prefixes

\* Stripping changes no sum.
LEMMA StrippedSums ==
  ASSUME NEW L \in Seq(OpenLots)
  PROVE  /\ NetQuantity(Stripped(L)) = NetQuantity(L)
         /\ Amount(Stripped(L)) = Amount(L) /\ Cost(Stripped(L)) = Cost(L)
<1>1. /\ DOMAIN Stripped(L) = DOMAIN L
      /\ \A n \in DOMAIN L :
           /\ Stripped(L)[n].side = L[n].side /\ Stripped(L)[n].quantity = L[n].quantity
           /\ Stripped(L)[n].price = L[n].price
  BY DEF Stripped, PositionLot
<1>2. PICK S : S = Stripped(L)
  OBVIOUS
<1>3. [n \in DOMAIN S |-> Signed(S[n].side, S[n].quantity)]
        = [n \in DOMAIN L |-> Signed(L[n].side, L[n].quantity)]
  BY <1>1, <1>2
<1>4. /\ [n \in DOMAIN S |-> S[n].quantity] = [n \in DOMAIN L |-> L[n].quantity]
      /\ [n \in DOMAIN S |-> S[n].quantity * S[n].price]
           = [n \in DOMAIN L |-> L[n].quantity * L[n].price]
  BY <1>1, <1>2
<1> QED
  BY <1>2, <1>3, <1>4 DEF NetQuantity, Amount, Cost
=============================================================================
