-------------------------- MODULE SignalPipelineProofs --------------------------
(***************************************************************************)
(* Theorems about SignalPipeline, for any symbols, closes, averages,       *)
(* requests, sizes of a batch and caps on positions: whatever is delivered *)
(* again, fails or overlaps.                                               *)
(***************************************************************************)
EXTENDS SignalPipeline, LoopProofs, FiniteSetTheorems

-----------------------------------------------------------------------------
(***************************************************************************)
(* Types, and what the records of a batch are.                             *)
(***************************************************************************)
Rows == Symbols \X (0..MaxMinute)
Keys == Symbols \X (0..MaxMinute) \X Sides
Submissions == [key : Keys, accepted : BOOLEAN]
Values == {Averages[c] : c \in Closes}
Records == [offset : Nat, value : Bars]
Signals == [symbol : Symbols, minute : 0..MaxMinute, signal : Sides \cup {"HOLD"}]

IsTable(t) ==
  /\ IsFiniteSet(DOMAIN t) /\ t = [k \in DOMAIN t |-> t[k]]
  /\ DOMAIN t \subseteq Rows /\ \A k \in DOMAIN t : t[k] \in Values

\* The records of a batch are those of the topic, one offset after the other.
Genuine(b, topic) ==
  \A n \in 1..Len(b) :
    /\ b[n].offset \in 1..Len(topic) /\ b[n].value = topic[b[n].offset]
    /\ b[n].offset = b[1].offset + (n - 1)

EngineTypes ==
  /\ bars \in Seq(Bars) /\ committed \in Nat /\ position \in Nat
  /\ committed <= position /\ position <= Len(bars)
  /\ batch \in [Engines -> Seq(Records)] /\ \A e \in Engines : Genuine(batch[e], bars)
  /\ IsTable(indicators) /\ polls \in 0..MaxPolls
PlacerTypes ==
  /\ prepared \in [Placers -> Seq(Keys)]
  /\ passed \subseteq Placers /\ \A p \in passed : prepared[p] # <<>>
  /\ orders \in Seq(Submissions)
  /\ placings \in 0..MaxPlacings
Types ==
  EngineTypes /\ PlacerTypes /\ mishaps \subseteq {"overlapped", "failed", "raced"}

\* The table after a bar: one more row, or another value in one.
LEMMA PutTable ==
  ASSUME NEW t, IsTable(t), NEW bar \in Bars
  PROVE  IsTable(put(t, keyOf(bar), indicatorOf(bar)))
<1>1. keyOf(bar) \in Rows /\ indicatorOf(bar) \in Values
  BY DEF Bars, keyOf, indicatorOf, Rows, Values
<1> DEFINE u == put(t, keyOf(bar), indicatorOf(bar))
<1>2. DOMAIN u = DOMAIN t \cup {keyOf(bar)} /\ u = [k \in DOMAIN u |-> u[k]]
      /\ \A k \in DOMAIN u : u[k] = IF k = keyOf(bar) THEN indicatorOf(bar) ELSE t[k]
  BY DEF put
<1> HIDE DEF u
<1>3. IsFiniteSet(DOMAIN t \cup {keyOf(bar)})
  BY FS_AddElement DEF IsTable
<1>4. \A k \in DOMAIN u : u[k] \in Values /\ k \in Rows
  BY <1>1, <1>2 DEF IsTable
<1> QED
  BY <1>2, <1>3, <1>4 DEF IsTable, u

LEMMA Polled ==
  ASSUME bars \in Seq(Bars), NEW from \in Nat, NEW n \in Nat, from + n <= Len(bars)
  PROVE  /\ poll(bars, from, n) \in Seq(Records) /\ Len(poll(bars, from, n)) = n
         /\ \A i \in 1..n : poll(bars, from, n)[i].offset = from + i
                            /\ poll(bars, from, n)[i].value = bars[from + i]
<1>1. \A i \in 1..n : from + i \in 1..Len(bars) /\ from + i \in Nat
  OBVIOUS
<1>2. \A i \in 1..n : [offset |-> from + i, value |-> bars[from + i]] \in Records
  BY <1>1 DEF Records
<1>3. PICK p : p = [i \in 1..n |-> [offset |-> from + i, value |-> bars[from + i]]]
  OBVIOUS
<1>4. p \in Seq(Records) /\ Len(p) = n
  BY <1>2, <1>3, IsSequence
<1> QED
  BY <1>3, <1>4 DEF poll

\* A batch stays what it is when the topic grows, and when its head is taken.
LEMMA GenuineGrows ==
  ASSUME NEW t \in Seq(Bars), NEW bar \in Bars, NEW b \in Seq(Records), Genuine(b, t)
  PROVE  Genuine(b, Append(t, bar))
<1>1. \A i \in 1..Len(t) : i \in 1..Len(Append(t, bar)) /\ Append(t, bar)[i] = t[i]
  OBVIOUS
<1> QED
  BY <1>1 DEF Genuine

LEMMA GenuineTail ==
  ASSUME NEW t \in Seq(Bars), NEW b \in Seq(Records), Genuine(b, t), b # <<>>
  PROVE  /\ Genuine(Tail(b), t) /\ Tail(b) \in Seq(Records)
         /\ Len(Tail(b)) = Len(b) - 1 /\ \A n \in 1..Len(Tail(b)) : Tail(b)[n] = b[n + 1]
         /\ Head(b) = b[1] /\ 1 \in 1..Len(b) /\ b[1] \in Records
         /\ b[1].offset \in 1..Len(t) /\ b[1].value = t[b[1].offset] /\ b[1].value \in Bars
<1>1. PICK k \in Nat : k = Len(b) /\ k >= 1
  <2>1. PICK k \in Nat : k = Len(b)
    OBVIOUS
  <2>2. k # 0
    BY <2>1
  <2> QED
    BY <2>1, <2>2
<1>2. PICK c \in Seq(Records) : c = Tail(b)
  <2>1. Tail(b) \in Seq(Records)
    OBVIOUS
  <2> QED
    BY <2>1
<1>3. Len(c) = k - 1 /\ \A n \in 1..k - 1 : c[n] = b[n + 1]
  BY <1>1, <1>2
<1>4. \A n \in 1..k : b[n] \in Records /\ b[n].offset \in Nat /\ b[n].value \in Bars
  <2>1. \A n \in 1..k : b[n] \in Records
    BY <1>1
  <2> QED
    BY <2>1 DEF Records
<1>5. 1 \in 1..k /\ Head(b) = b[1]
  BY <1>1
<1>6. ASSUME NEW n \in 1..k - 1
      PROVE  /\ c[n].offset \in 1..Len(t) /\ c[n].value = t[c[n].offset]
             /\ c[n].offset = c[1].offset + (n - 1)
  <2>1. n + 1 \in 1..k /\ 1 \in 1..k - 1 /\ 1 + 1 \in 1..k
    BY <1>1
  <2>2. /\ b[n + 1].offset \in 1..Len(t) /\ b[n + 1].value = t[b[n + 1].offset]
        /\ b[n + 1].offset = b[1].offset + n /\ b[1 + 1].offset = b[1].offset + 1
    BY <1>1, <2>1 DEF Genuine
  <2>3. b[1].offset \in Nat
    BY <1>4, <1>5
  <2>4. c[n] = b[n + 1] /\ c[1] = b[1 + 1]
    BY <1>3, <2>1
  <2>5. PICK o \in Nat : o = b[1].offset
    BY <2>3
  <2>6. c[n].offset = o + n /\ c[1].offset = o + 1
    BY <2>2, <2>4, <2>5
  <2>7. o + n = (o + 1) + (n - 1)
    BY <1>1, <2>5
  <2> QED
    BY <2>2, <2>4, <2>6, <2>7
<1>7. Genuine(c, t)
  BY <1>3, <1>6 DEF Genuine
<1>8. b[1].offset \in 1..Len(t) /\ b[1].value = t[b[1].offset]
  BY <1>1, <1>5 DEF Genuine
<1> QED
  BY <1>1, <1>2, <1>3, <1>4, <1>5, <1>7, <1>8

-----------------------------------------------------------------------------
(***************************************************************************)
(* What a request prepares from the rows it read: each order comes of a    *)
(* row that leans its way, and the first of the first row that leans.      *)
(***************************************************************************)
orderOf(t, row) == <<row[1], row[2], lean(t[row])>>

Listed(rows, t) ==
  /\ rows \in Seq(DOMAIN t)
  /\ \A k \in DOMAIN t : \E n \in 1..Len(rows) : rows[n] = k
  /\ \A i, j \in 1..Len(rows) : i < j => rows[i][2] <= rows[j][2]

Prepares(t, rows, out) ==
  /\ out \in Seq(Keys)
  /\ \A i \in 1..Len(out) : \E n \in 1..Len(rows) :
       out[i] = orderOf(t, rows[n]) /\ lean(t[rows[n]]) # "HOLD"
  /\ out # <<>> => \E n \in 1..Len(rows) :
       /\ out[1] = orderOf(t, rows[n]) /\ lean(t[rows[n]]) # "HOLD"
       /\ \A m \in 1..n - 1 : lean(t[rows[m]]) = "HOLD"

LEMMA LeanType ==
  ASSUME NEW v \in Values
  PROVE  lean(v) \in {"BUY", "SELL", "HOLD"}
<1>1. v \in Int \X Int
  BY PipelineAssumption DEF Values
<1>2. PICK a \in Int, b \in Int : v[1] = a /\ v[2] = b
  BY <1>1
<1>3. CASE a > b
  BY <1>2, <1>3 DEF lean
<1>4. CASE a < b
  BY <1>2, <1>4 DEF lean
<1>5. CASE a = b
  BY <1>2, <1>5 DEF lean
<1> QED
  BY <1>2, <1>3, <1>4, <1>5

LEMMA FetchedRows ==
  ASSUME NEW t, IsTable(t), NEW rows \in fetches(t)
  PROVE  Listed(rows, t)
<1>1. PICK n \in Nat : n = Cardinality(DOMAIN t)
  BY FS_CardinalityType DEF IsTable
<1>2. rows \in [1..n -> DOMAIN t] /\ \A k \in DOMAIN t : \E i \in 1..n : rows[i] = k
  BY <1>1 DEF fetches, Bijection, Injection, Surjection
<1>3. rows \in Seq(DOMAIN t) /\ Len(rows) = n
  BY <1>1, <1>2, IsSequence
<1>4. \A i, j \in 1..Len(rows) : i < j => rows[i][2] <= rows[j][2]
  BY DEF fetches
<1> QED
  BY <1>2, <1>3, <1>4 DEF Listed

LEMMA SignalOfRow ==
  ASSUME NEW t, IsTable(t), NEW row \in DOMAIN t
  PROVE  /\ row = <<row[1], row[2]>> /\ row[1] \in Symbols /\ row[2] \in 0..MaxMinute
         /\ [symbol |-> row[1], minute |-> row[2], signal |-> lean(t[row])] \in Signals
<1>1. row \in Symbols \X (0..MaxMinute) /\ t[row] \in Values
  BY DEF IsTable, Rows
<1>2. lean(t[row]) \in Sides \cup {"HOLD"}
  BY <1>1, LeanType DEF Sides
<1> QED
  BY <1>1, <1>2 DEF Signals

LEMMA SignalsOfRows ==
  ASSUME NEW t, IsTable(t), NEW rows, Listed(rows, t)
  PROVE  /\ signals(t, rows) \in Seq(Signals) /\ Len(signals(t, rows)) = Len(rows)
         /\ \A n \in 1..Len(rows) : signals(t, rows)[n] =
              [symbol |-> rows[n][1], minute |-> rows[n][2], signal |-> lean(t[rows[n]])]
<1>1. rows \in Seq(DOMAIN t)
  BY DEF Listed
<1>2. PICK k \in Nat : k = Len(rows)
  BY <1>1
<1>3. \A n \in 1..k : [symbol |-> rows[n][1], minute |-> rows[n][2], signal |-> lean(t[rows[n]])]
                      \in Signals
  <2> TAKE n \in 1..k
  <2>1. rows[n] \in DOMAIN t
    BY <1>1, <1>2
  <2> QED
    BY <2>1, SignalOfRow
<1>4. PICK s : s = [n \in 1..k |->
                      [symbol |-> rows[n][1], minute |-> rows[n][2], signal |-> lean(t[rows[n]])]]
  OBVIOUS
<1>5. s \in Seq(Signals) /\ Len(s) = k
  BY <1>3, <1>4, IsSequence
<1>6. signals(t, rows) = s
  BY <1>2, <1>4 DEF signals
<1> QED
  BY <1>2, <1>4, <1>5, <1>6

\* The approved signals: the first of those that do not hold.
Approves(f, s, out) ==
  /\ out \in Seq(Signals) /\ f \in [1..Len(out) -> 1..Len(s)]
  /\ \A i \in 1..Len(out) : out[i] = s[f[i]] /\ s[f[i]].signal # "HOLD"
  /\ out # <<>> => \A m \in 1..f[1] - 1 : s[m].signal = "HOLD"

LEMMA ApprovedSignals ==
  ASSUME NEW s \in Seq(Signals)
  PROVE  \E f : Approves(f, s, approved(s))
<1> DEFINE P == {i \in 1..Len(s) : s[i].signal # "HOLD"}
<1>1. PICK a \in Seq(Signals) : a = Chosen(s, P)
  BY ChosenType
<1>2. PICK f : Picks(f, a, s, P, Len(s))
  BY <1>1, ChosenPlaces
<1>3. PICK k \in Nat : k = Len(a)
  OBVIOUS
<1>4. PICK m \in Nat : m = (IF Len(a) < MaxOpenPositions THEN Len(a) ELSE MaxOpenPositions)
                       /\ m <= k /\ (k # 0 => m # 0)
  BY <1>3, PipelineAssumption
<1>5. PICK b \in Seq(Signals) : b = SubSeq(a, 1, m)
  <2>1. SubSeq(a, 1, m) \in Seq(Signals)
    BY <1>3, <1>4
  <2> QED
    BY <2>1
<1>6. Len(b) = m /\ \A i \in 1..m : b[i] = a[i] /\ i \in 1..k
  BY <1>3, <1>4, <1>5
<1>7. approved(s) = b
  BY <1>1, <1>4, <1>5 DEF approved
<1>8. /\ f \in [1..k -> 1..Len(s)]
      /\ \A i \in 1..k : f[i] \in P /\ a[i] = s[f[i]]
      /\ \A i, j \in 1..k : i < j => f[i] < f[j]
      /\ \A n \in 1..Len(s) : n \in P => \E i \in 1..k : f[i] = n
  BY <1>2, <1>3 DEF Picks
<1> DEFINE g == [i \in 1..m |-> f[i]]
<1>9. g \in [1..Len(b) -> 1..Len(s)] /\ \A i \in 1..m : g[i] = f[i]
  BY <1>6, <1>8
<1>10. \A i \in 1..Len(b) : b[i] = s[g[i]] /\ s[g[i]].signal # "HOLD"
  BY <1>6, <1>8, <1>9
<1>11. ASSUME b # <<>>, NEW n \in 1..g[1] - 1
       PROVE  s[n].signal = "HOLD"
  <2>1. m # 0
    BY <1>6, <1>11
  <2>2. 1 \in 1..m /\ 1 \in 1..k /\ g[1] = f[1] /\ f[1] \in 1..Len(s)
    BY <1>3, <1>4, <1>8, <1>9, <2>1
  <2>3. n \in 1..Len(s) /\ n < f[1]
    BY <1>11, <2>2
  <2>4. ASSUME n \in P PROVE FALSE
    <3>1. PICK i \in 1..k : f[i] = n
      BY <1>8, <2>3, <2>4
    <3>2. i = 1 \/ 1 < i
      BY <1>3, <3>1
    <3>3. 1 < i => f[1] < f[i]
      BY <1>8, <2>2
    <3>4. f[i] < f[1] /\ f[1] \in Int
      BY <2>2, <2>3, <3>1
    <3> QED
      BY <3>1, <3>2, <3>3, <3>4
  <2> QED
    BY <2>3, <2>4
<1> HIDE DEF g
<1>12. Approves(g, s, b)
  BY <1>9, <1>10, <1>11 DEF Approves
<1> QED
  BY <1>7, <1>12

LEMMA PreparedOrders ==
  ASSUME NEW t, IsTable(t), NEW rows \in fetches(t)
  PROVE  Prepares(t, rows, ordersOf(approved(signals(t, rows))))
<1>1. Listed(rows, t) /\ rows \in Seq(DOMAIN t)
  BY FetchedRows DEF Listed
<1>2. PICK s \in Seq(Signals) :
        /\ s = signals(t, rows) /\ Len(s) = Len(rows)
        /\ \A n \in 1..Len(rows) : s[n] =
             [symbol |-> rows[n][1], minute |-> rows[n][2], signal |-> lean(t[rows[n]])]
  BY <1>1, SignalsOfRows
<1>3. PICK b, f : b = approved(s) /\ Approves(f, s, b)
  BY ApprovedSignals
<1>4. /\ b \in Seq(Signals) /\ f \in [1..Len(b) -> 1..Len(s)]
      /\ \A i \in 1..Len(b) : b[i] = s[f[i]] /\ s[f[i]].signal # "HOLD"
      /\ b # <<>> => \A m \in 1..f[1] - 1 : s[m].signal = "HOLD"
  BY <1>3 DEF Approves
<1>5. \A n \in 1..Len(rows) : s[n].symbol = rows[n][1] /\ s[n].minute = rows[n][2]
                              /\ s[n].signal = lean(t[rows[n]])
  <2> TAKE n \in 1..Len(rows)
  <2>1. s[n] = [symbol |-> rows[n][1], minute |-> rows[n][2], signal |-> lean(t[rows[n]])]
    BY <1>2
  <2> QED
    BY <2>1
<1>6. ASSUME NEW i \in 1..Len(b)
      PROVE  /\ f[i] \in 1..Len(rows) /\ lean(t[rows[f[i]]]) \in Sides
             /\ <<b[i].symbol, b[i].minute, IF b[i].signal = "BUY" THEN "BUY" ELSE "SELL">>
                  = orderOf(t, rows[f[i]])
             /\ orderOf(t, rows[f[i]]) \in Keys
  <2>1. f[i] \in 1..Len(rows) /\ b[i] = s[f[i]] /\ b[i].signal # "HOLD"
    BY <1>2, <1>4
  <2>2. rows[f[i]] \in DOMAIN t
    BY <1>1, <2>1
  <2>3. lean(t[rows[f[i]]]) \in Sides
    BY <1>5, <2>1, <2>2, LeanType DEF IsTable, Sides
  <2>4. rows[f[i]][1] \in Symbols /\ rows[f[i]][2] \in 0..MaxMinute
    BY <2>2, SignalOfRow
  <2>5. b[i].symbol = rows[f[i]][1] /\ b[i].minute = rows[f[i]][2] /\ b[i].signal = lean(t[rows[f[i]]])
    BY <1>5, <2>1
  <2> QED
    BY <2>1, <2>3, <2>4, <2>5 DEF orderOf, Keys, Sides
<1>7. PICK o : o = ordersOf(b)
  OBVIOUS
<1>8. PICK k \in Nat : k = Len(b)
  BY <1>4
<1>9. o = [i \in 1..k |-> <<b[i].symbol, b[i].minute,
                            IF b[i].signal = "BUY" THEN "BUY" ELSE "SELL">>]
  BY <1>7, <1>8 DEF ordersOf
<1>10. \A i \in 1..k : o[i] = orderOf(t, rows[f[i]]) /\ o[i] \in Keys
  BY <1>6, <1>8, <1>9
<1>11. o \in Seq(Keys) /\ Len(o) = k
  <2>1. o \in [1..k -> Keys]
    BY <1>9, <1>10
  <2> QED
    BY <1>8, <2>1, IsSequence
<1>12. \A i \in 1..Len(o) : \E n \in 1..Len(rows) :
         o[i] = orderOf(t, rows[n]) /\ lean(t[rows[n]]) # "HOLD"
  BY <1>6, <1>8, <1>10, <1>11 DEF Sides
<1>13. ASSUME o # <<>>
       PROVE  \E n \in 1..Len(rows) :
                /\ o[1] = orderOf(t, rows[n]) /\ lean(t[rows[n]]) # "HOLD"
                /\ \A m \in 1..n - 1 : lean(t[rows[m]]) = "HOLD"
  <2>1. k # 0
    BY <1>11, <1>13
  <2>2. 1 \in 1..k /\ b # <<>>
    BY <1>8, <2>1
  <2>3. f[1] \in 1..Len(rows) /\ o[1] = orderOf(t, rows[f[1]]) /\ lean(t[rows[f[1]]]) # "HOLD"
    BY <1>6, <1>8, <1>10, <2>2 DEF Sides
  <2>4. \A m \in 1..f[1] - 1 : lean(t[rows[m]]) = "HOLD"
    <3> TAKE m \in 1..f[1] - 1
    <3>1. m \in 1..Len(rows) /\ s[m].signal = "HOLD"
      BY <1>4, <2>2, <2>3
    <3> QED
      BY <1>5, <3>1
  <2> QED
    BY <2>3, <2>4
<1>14. Prepares(t, rows, o)
  BY <1>11, <1>12, <1>13 DEF Prepares
<1> QED
  BY <1>2, <1>3, <1>7, <1>14

-----------------------------------------------------------------------------
(***************************************************************************)
(* Every step keeps the types.                                             *)
(***************************************************************************)
LEMMA BarClosesStep ==
  ASSUME BarCloses
  PROVE  /\ \E bar \in Bars : bars' = Append(bars, bar)
         /\ UNCHANGED <<engineVars, placerVars, mishaps>>
BY DEF BarCloses, Closed!PublishBar, Closed!publish

LEMMA PollStep ==
  ASSUME EngineTypes, NEW e \in Engines, Poll(e)
  PROVE  \E n \in Nat, b \in Seq(Records) :
           /\ n >= 1 /\ committed + n <= Len(bars) /\ Len(b) = n /\ Genuine(b, bars)
           /\ b[1].offset = committed + 1 /\ b[n].offset = committed + n
           /\ batch' = [batch EXCEPT ![e] = b] /\ position' = committed + n
           /\ batch[e] = <<>>
<1>1. PICK n \in 1..MaxBatch :
        /\ committed + n <= Len(bars)
        /\ batch' = [batch EXCEPT ![e] = poll(bars, committed, n)]
        /\ position' = committed + n
  BY DEF Poll
<1>2. n \in Nat /\ n >= 1 /\ bars \in Seq(Bars) /\ committed \in Nat /\ Len(bars) \in Nat
  BY <1>1, PipelineAssumption DEF EngineTypes
<1>3. PICK b \in Seq(Records) :
        /\ b = poll(bars, committed, n) /\ Len(b) = n
        /\ \A i \in 1..n : b[i].offset = committed + i /\ b[i].value = bars[committed + i]
  BY <1>1, <1>2, Polled
<1>4. 1 \in 1..n /\ n \in 1..n
  BY <1>2
<1>5. b[1].offset = committed + 1 /\ b[n].offset = committed + n
  BY <1>3, <1>4
<1>6. ASSUME NEW i \in 1..n
      PROVE  /\ b[i].offset \in 1..Len(bars) /\ b[i].value = bars[b[i].offset]
             /\ b[i].offset = b[1].offset + (i - 1)
  <2>1. b[i].offset = committed + i /\ b[i].value = bars[committed + i]
    BY <1>3
  <2>2. committed + i \in 1..Len(bars) /\ committed + i = (committed + 1) + (i - 1)
    BY <1>1, <1>2
  <2> QED
    BY <1>5, <2>1, <2>2
<1>7. Genuine(b, bars)
  BY <1>3, <1>6 DEF Genuine
<1>8. batch' = [batch EXCEPT ![e] = b] /\ position' = committed + n /\ batch[e] = <<>>
  BY <1>1, <1>3 DEF Poll
<1> QED
  BY <1>1, <1>2, <1>3, <1>5, <1>7, <1>8

\* The engine's record in hand is a bar of the topic.
LEMMA CalculateStep ==
  ASSUME EngineTypes, NEW e \in Engines, Calculate(e)
  PROVE  \E i \in 1..Len(bars), b \in Seq(Records) :
           /\ i = batch[e][1].offset /\ bars[i] \in Bars /\ Genuine(b, bars)
           /\ Len(b) = Len(batch[e]) - 1 /\ Len(batch[e]) >= 1
           /\ \A n \in 1..Len(b) : b[n] = batch[e][n + 1]
           /\ batch' = [batch EXCEPT ![e] = b] /\ batch[e] # <<>>
           /\ indicators' = put(indicators, keyOf(bars[i]), indicatorOf(bars[i]))
<1>1. PICK b \in Seq(Records) : b = batch[e] /\ b # <<>> /\ Genuine(b, bars)
  BY DEF Calculate, EngineTypes
<1>2. bars \in Seq(Bars)
  BY DEF EngineTypes
<1>3. PICK c \in Seq(Records) : c = Tail(b)
  BY <1>1, <1>2, GenuineTail
<1>4. /\ Genuine(c, bars) /\ Len(c) = Len(b) - 1 /\ \A n \in 1..Len(c) : c[n] = b[n + 1]
      /\ Head(b) = b[1] /\ 1 \in 1..Len(b) /\ b[1].offset \in 1..Len(bars)
      /\ b[1].value = bars[b[1].offset] /\ b[1].value \in Bars
  BY <1>1, <1>2, <1>3, GenuineTail
<1>5. PICK i \in 1..Len(bars) : i = b[1].offset /\ bars[i] = Head(b).value /\ bars[i] \in Bars
  BY <1>4
<1>6. indicators' = put(indicators, keyOf(bars[i]), indicatorOf(bars[i]))
      /\ batch' = [batch EXCEPT ![e] = c]
  BY <1>1, <1>3, <1>5 DEF Calculate
<1>7. Len(b) >= 1 /\ i = batch[e][1].offset
  BY <1>1, <1>4, <1>5
<1> QED
  BY <1>1, <1>4, <1>5, <1>6, <1>7

LEMMA PrepareStep ==
  ASSUME EngineTypes, NEW p \in Placers, Prepare(p)
  PROVE  \E rows, out :
           /\ Listed(rows, indicators) /\ Prepares(indicators, rows, out)
           /\ prepared' = [prepared EXCEPT ![p] = out] /\ prepared[p] = <<>>
<1>1. PICK rows \in fetches(indicators) :
        prepared' = [prepared EXCEPT ![p] = ordersOf(approved(signals(indicators, rows)))]
  BY DEF Prepare
<1>2. IsTable(indicators) /\ prepared[p] = <<>>
  BY DEF EngineTypes, Prepare
<1>3. Listed(rows, indicators)
  BY <1>2, FetchedRows
<1>4. PICK out : out = ordersOf(approved(signals(indicators, rows)))
  OBVIOUS
<1>5. Prepares(indicators, rows, out)
  BY <1>2, <1>4, PreparedOrders
<1> QED
  BY <1>1, <1>2, <1>3, <1>4, <1>5

LEMMA FirstType ==
  ASSUME PlacerTypes, NEW p \in Placers, prepared[p] # <<>>
  PROVE  first(p) = prepared[p][1] /\ first(p) \in Keys /\ 1 \in 1..Len(prepared[p])
<1>1. PICK s \in Seq(Keys) : s = prepared[p]
  BY DEF PlacerTypes
<1> QED
  BY <1>1 DEF first

LEMMA TypesInit == Init => Types
<1> SUFFICES ASSUME Init PROVE Types
  OBVIOUS
<1>1. IsTable(empty)
  <2>1. DOMAIN empty = {} /\ empty = [k \in DOMAIN empty |-> empty[k]]
    BY DEF empty
  <2> QED
    BY <2>1, FS_EmptySet DEF IsTable
<1>2. EngineTypes
  BY <1>1, PipelineAssumption DEF Init, EngineTypes, Genuine
<1>3. PlacerTypes
  BY PipelineAssumption DEF Init, PlacerTypes
<1> QED
  BY <1>2, <1>3 DEF Init, Types

LEMMA EngineTypesKept ==
  ASSUME Types, \/ BarCloses \/ Commit
                \/ \E e \in Engines : Poll(e) \/ Calculate(e) \/ Fail(e)
  PROVE  Types'
<1>0. /\ bars \in Seq(Bars) /\ committed \in Nat /\ position \in Nat /\ Len(bars) \in Nat
      /\ batch \in [Engines -> Seq(Records)] /\ committed <= position /\ position <= Len(bars)
      /\ EngineTypes /\ PlacerTypes
  BY DEF Types, EngineTypes
<1>1. CASE BarCloses
  <2>1. PICK bar \in Bars : bars' = Append(bars, bar)
    BY <1>1, BarClosesStep
  <2>2. bars' \in Seq(Bars) /\ Len(bars') = Len(bars) + 1
    BY <1>0, <2>1
  <2>3. UNCHANGED <<engineVars, placerVars, mishaps>>
    BY <1>1, BarClosesStep
  <2>4. \A e \in Engines : Genuine(batch[e], bars')
    BY <1>0, <2>1, GenuineGrows DEF EngineTypes
  <2> QED
    BY <1>0, <2>2, <2>3, <2>4 DEF Types, EngineTypes, PlacerTypes, engineVars, placerVars
<1>2. CASE Commit
  BY <1>0, <1>2 DEF Commit, Types, EngineTypes, PlacerTypes, placerVars
<1>3. ASSUME NEW e \in Engines, Poll(e)
      PROVE  Types'
  <2>1. PICK n \in Nat, b \in Seq(Records) :
          /\ committed + n <= Len(bars) /\ Genuine(b, bars)
          /\ batch' = [batch EXCEPT ![e] = b] /\ position' = committed + n
    BY <1>0, <1>3, PollStep
  <2>2. batch' \in [Engines -> Seq(Records)] /\ \A f \in Engines : Genuine(batch'[f], bars)
    BY <1>0, <2>1 DEF EngineTypes
  <2>3. polls' \in 0..MaxPolls
    BY <1>0, <1>3, PipelineAssumption DEF Poll, EngineTypes
  <2>4. mishaps' \subseteq {"overlapped", "failed", "raced"}
    BY <1>3 DEF Poll, Types
  <2>5. UNCHANGED <<bars, committed, indicators, placerVars>>
    BY <1>3 DEF Poll
  <2> QED
    BY <1>0, <2>1, <2>2, <2>3, <2>4, <2>5 DEF Types, EngineTypes, PlacerTypes, placerVars
<1>4. ASSUME NEW e \in Engines, Calculate(e)
      PROVE  Types'
  <2>1. PICK i \in 1..Len(bars), b \in Seq(Records) :
          /\ bars[i] \in Bars /\ Genuine(b, bars) /\ batch' = [batch EXCEPT ![e] = b]
          /\ indicators' = put(indicators, keyOf(bars[i]), indicatorOf(bars[i]))
    BY <1>0, <1>4, CalculateStep
  <2>2. batch' \in [Engines -> Seq(Records)] /\ \A f \in Engines : Genuine(batch'[f], bars)
    BY <1>0, <2>1 DEF EngineTypes
  <2>3. IsTable(indicators')
    BY <1>0, <2>1, PutTable DEF EngineTypes
  <2>4. UNCHANGED <<bars, committed, position, polls, placerVars, mishaps>>
    BY <1>4 DEF Calculate
  <2> QED
    BY <1>0, <2>2, <2>3, <2>4 DEF Types, EngineTypes, PlacerTypes, placerVars
<1>5. ASSUME NEW e \in Engines, Fail(e)
      PROVE  Types'
  <2>1. batch' \in [Engines -> Seq(Records)] /\ \A f \in Engines : Genuine(batch'[f], bars)
    BY <1>0, <1>5 DEF EngineTypes, Fail, Genuine
  <2>2. mishaps' \subseteq {"overlapped", "failed", "raced"}
        /\ UNCHANGED <<bars, committed, position, indicators, polls, placerVars>>
    BY <1>5 DEF Fail, Types
  <2> QED
    BY <1>0, <2>1, <2>2 DEF Types, EngineTypes, PlacerTypes, placerVars
<1> QED
  BY <1>1, <1>2, <1>3, <1>4, <1>5

LEMMA PlacerTypesKept ==
  ASSUME Types, NEW p \in Placers, Prepare(p) \/ CheckDuplicate(p) \/ Submit(p)
  PROVE  Types'
<1>0. EngineTypes /\ PlacerTypes /\ prepared \in [Placers -> Seq(Keys)] /\ placings \in 0..MaxPlacings
  BY DEF Types, PlacerTypes
<1>1. CASE Prepare(p)
  <2>1. PICK rows, out :
          /\ Prepares(indicators, rows, out)
          /\ prepared' = [prepared EXCEPT ![p] = out] /\ prepared[p] = <<>>
    BY <1>0, <1>1, PrepareStep
  <2>2. prepared' \in [Placers -> Seq(Keys)]
    BY <1>0, <2>1 DEF Prepares
  <2>3. \A q \in passed : prepared'[q] # <<>>
    BY <1>0, <2>1 DEF PlacerTypes
  <2>4. placings' \in 0..MaxPlacings
    BY <1>0, <1>1, PipelineAssumption DEF Prepare
  <2>5. UNCHANGED <<bars, engineVars, passed, orders, mishaps>>
    BY <1>1 DEF Prepare
  <2> QED
    BY <1>0, <2>2, <2>3, <2>4, <2>5 DEF Types, EngineTypes, PlacerTypes, engineVars
<1>2. CASE CheckDuplicate(p)
  <2>1. prepared' \in [Placers -> Seq(Keys)]
    <3>1. prepared' = prepared \/ prepared' = [prepared EXCEPT ![p] = <<>>]
      BY <1>2 DEF CheckDuplicate
    <3>2. <<>> \in Seq(Keys)
      OBVIOUS
    <3> QED
      BY <1>0, <3>1, <3>2
  <2>2. passed' \subseteq Placers /\ \A q \in passed' : prepared'[q] # <<>>
    BY <1>0, <1>2 DEF CheckDuplicate, PlacerTypes
  <2>3. mishaps' \subseteq {"overlapped", "failed", "raced"}
        /\ UNCHANGED <<bars, engineVars, orders, placings>>
    BY <1>2 DEF CheckDuplicate, Types
  <2> QED
    BY <1>0, <2>1, <2>2, <2>3 DEF Types, EngineTypes, PlacerTypes, engineVars
<1>3. CASE Submit(p)
  <2>1. prepared' \in [Placers -> Seq(Keys)] /\ passed' = passed \ {p}
        /\ \A q \in Placers : q # p => prepared'[q] = prepared[q]
    BY <1>0, <1>3 DEF Submit
  <2>2. orders' \in Seq(Submissions)
    <3>1. first(p) \in Keys
      BY <1>0, <1>3, FirstType DEF Submit, PlacerTypes
    <3>2. \A yes \in BOOLEAN : [key |-> first(p), accepted |-> yes] \in Submissions
      BY <3>1 DEF Submissions
    <3>3. PICK s \in Seq(Submissions) : s = orders
      BY <1>0 DEF PlacerTypes
    <3>4. orders' = s \/ \E yes \in BOOLEAN : orders' = Append(s, [key |-> first(p), accepted |-> yes])
      BY <1>3, <3>3 DEF Submit
    <3>5. ASSUME NEW yes \in BOOLEAN, orders' = Append(s, [key |-> first(p), accepted |-> yes])
          PROVE  orders' \in Seq(Submissions)
      BY <3>2, <3>3, <3>5, AppendProperties
    <3> QED
      BY <3>3, <3>4, <3>5
  <2>3. UNCHANGED <<bars, engineVars, placings, mishaps>>
    BY <1>3 DEF Submit
  <2> QED
    BY <1>0, <2>1, <2>2, <2>3 DEF Types, EngineTypes, PlacerTypes, engineVars
<1> QED
  BY <1>1, <1>2, <1>3

LEMMA TypesKept == Types /\ [Next]_vars => Types'
<1> SUFFICES ASSUME Types, [Next]_vars PROVE Types'
  OBVIOUS
<1>1. CASE UNCHANGED vars
  BY <1>1 DEF vars, engineVars, placerVars, Types, EngineTypes, PlacerTypes
<1>2. CASE \/ BarCloses \/ Commit
           \/ \E e \in Engines : Poll(e) \/ Calculate(e) \/ Fail(e)
  BY <1>2, EngineTypesKept
<1>3. CASE \E p \in Placers : Prepare(p) \/ CheckDuplicate(p) \/ Submit(p)
  BY <1>3, PlacerTypesKept
<1> QED
  BY <1>1, <1>2, <1>3 DEF Next

\* Every variable of the pipeline has its type.
THEOREM TypeCorrect == Spec => []TypeOK
<1>1. Types => TypeOK
  <2> SUFFICES ASSUME Types PROVE TypeOK
    OBVIOUS
  <2>1. /\ bars \in Seq(Bars) /\ committed \in Nat /\ position \in Nat /\ Len(bars) \in Nat
        /\ committed <= position /\ position <= Len(bars) /\ polls \in 0..MaxPolls
        /\ batch \in [Engines -> Seq(Records)] /\ \A e \in Engines : Genuine(batch[e], bars)
    BY DEF Types, EngineTypes
  <2>2. (\A i \in 1..Len(bars) : bars[i] \in Bars)
        /\ committed \in 0..Len(bars) /\ position \in committed..Len(bars)
    BY <2>1
  <2>3. ASSUME NEW e \in Engines, NEW i \in 1..Len(batch[e])
        PROVE  batch[e][i] \in [offset : 1..Len(bars), value : Bars]
    <3>1. batch[e][i] \in Records /\ batch[e][i].offset \in 1..Len(bars)
      BY <2>1 DEF Genuine
    <3> QED
      BY <3>1 DEF Records
  <2>4. DOMAIN indicators \subseteq Symbols \X (0..MaxMinute)
        /\ \A k \in DOMAIN indicators : indicators[k] \in {Averages[c] : c \in Closes}
    BY DEF Types, EngineTypes, IsTable, Rows, Values
  <2>5. \A p \in Placers : \A i \in 1..Len(prepared[p]) :
          prepared[p][i] \in Symbols \X (0..MaxMinute) \X Sides
    BY DEF Types, PlacerTypes, Keys
  <2>6. \A i \in 1..Len(orders) :
          orders[i] \in [key : Symbols \X (0..MaxMinute) \X Sides, accepted : BOOLEAN]
    <3>1. PICK s \in Seq(Submissions) : s = orders
      BY DEF Types, PlacerTypes
    <3>2. \A i \in 1..Len(s) : s[i] \in Submissions
      OBVIOUS
    <3> QED
      BY <3>1, <3>2 DEF Submissions, Keys
  <2>7. /\ placings \in 0..MaxPlacings /\ mishaps \subseteq {"overlapped", "failed", "raced"}
        /\ \A p \in passed : p \in Placers /\ prepared[p] # <<>>
    BY DEF Types, PlacerTypes
  <2> QED
    BY <2>1, <2>2, <2>3, <2>4, <2>5, <2>6, <2>7 DEF TypeOK
<1> QED
  BY <1>1, TypesInit, TypesKept, PTL DEF Spec

-----------------------------------------------------------------------------
(***************************************************************************)
(* Rows are of bars of the topic, and orders of bars that lean their way.  *)
(***************************************************************************)
Versioned(t, topic) ==
  \A k \in DOMAIN t : \E i \in 1..Len(topic) :
    keyOf(topic[i]) = k /\ t[k] = indicatorOf(topic[i])
LeanedTo(key, topic) ==
  \E i \in 1..Len(topic) :
    keyOf(topic[i]) = <<key[1], key[2]>> /\ lean(indicatorOf(topic[i])) = key[3]
AllLeaned(out, topic) == \A i \in 1..Len(out) : LeanedTo(out[i], topic)
FromBars ==
  /\ Versioned(indicators, bars)
  /\ \A p \in Placers : AllLeaned(prepared[p], bars)
  /\ \A i \in 1..Len(orders) : LeanedTo(orders[i].key, bars)

LEMMA VersionedGrows ==
  ASSUME NEW t \in Seq(Bars), NEW bar \in Bars
  PROVE  /\ \A u : Versioned(u, t) => Versioned(u, Append(t, bar))
         /\ \A key : LeanedTo(key, t) => LeanedTo(key, Append(t, bar))
<1>1. \A i \in 1..Len(t) : i \in 1..Len(Append(t, bar)) /\ Append(t, bar)[i] = t[i]
  OBVIOUS
<1> QED
  BY <1>1 DEF Versioned, LeanedTo

LEMMA VersionedPut ==
  ASSUME NEW u, NEW t \in Seq(Bars), NEW i \in 1..Len(t), Versioned(u, t)
  PROVE  Versioned(put(u, keyOf(t[i]), indicatorOf(t[i])), t)
<1> DEFINE v == put(u, keyOf(t[i]), indicatorOf(t[i]))
<1>1. DOMAIN v = DOMAIN u \cup {keyOf(t[i])}
      /\ \A k \in DOMAIN v : v[k] = IF k = keyOf(t[i]) THEN indicatorOf(t[i]) ELSE u[k]
  BY DEF put
<1> HIDE DEF v
<1>2. Versioned(v, t)
  BY <1>1 DEF Versioned
<1> QED
  BY <1>2 DEF v

LEMMA PreparedLean ==
  ASSUME NEW u, IsTable(u), NEW t \in Seq(Bars), Versioned(u, t),
         NEW rows, Listed(rows, u), NEW out, Prepares(u, rows, out)
  PROVE  AllLeaned(out, t)
<1> SUFFICES ASSUME NEW i \in 1..Len(out) PROVE LeanedTo(out[i], t)
  BY DEF AllLeaned
<1>1. PICK n \in 1..Len(rows) : out[i] = orderOf(u, rows[n])
  BY DEF Prepares
<1>2. PICK row \in DOMAIN u : row = rows[n]
  BY DEF Listed
<1>3. row = <<row[1], row[2]>>
  BY SignalOfRow
<1>4. PICK j \in 1..Len(t) : keyOf(t[j]) = row /\ u[row] = indicatorOf(t[j])
  BY DEF Versioned
<1>5. out[i] = <<row[1], row[2], lean(u[row])>>
  BY <1>1, <1>2 DEF orderOf
<1>6. out[i][1] = row[1] /\ out[i][2] = row[2] /\ out[i][3] = lean(u[row])
  BY <1>5
<1> QED
  BY <1>3, <1>4, <1>6 DEF LeanedTo

\* An order recorded is the first prepared.
LEMMA SubmitStep ==
  ASSUME PlacerTypes, NEW p \in Placers, Submit(p)
  PROVE  /\ p \in passed /\ prepared[p] # <<>> /\ passed' = passed \ {p}
         /\ prepared' = [prepared EXCEPT ![p] = <<>>]
         /\ UNCHANGED <<bars, engineVars, placings, mishaps>>
         /\ \/ orders' = orders
            \/ /\ Len(orders') = Len(orders) + 1 /\ orders'[Len(orders) + 1].key = first(p)
               /\ \A i \in 1..Len(orders) : orders'[i] = orders[i]
<1>1. PICK s \in Seq(Submissions) : s = orders
  BY DEF PlacerTypes
<1>2. first(p) \in Keys
  BY FirstType DEF Submit, PlacerTypes
<1>3. ASSUME NEW yes \in BOOLEAN, NEW o, o = [key |-> first(p), accepted |-> yes], orders' = Append(s, o)
      PROVE  /\ Len(orders') = Len(s) + 1 /\ orders'[Len(s) + 1].key = first(p)
             /\ \A i \in 1..Len(s) : orders'[i] = s[i]
  <2>1. o \in Submissions /\ o.key = first(p)
    BY <1>2, <1>3 DEF Submissions
  <2>2. orders'[Len(s) + 1] = o
    BY <1>1, <1>3, <2>1, AppendProperties
  <2> QED
    BY <1>1, <1>3, <2>1, <2>2, AppendProperties
<1>4. orders' = s \/ \E yes \in BOOLEAN : orders' = Append(s, [key |-> first(p), accepted |-> yes])
  BY <1>1 DEF Submit
<1>5. orders' = s \/ (/\ Len(orders') = Len(s) + 1 /\ orders'[Len(s) + 1].key = first(p)
                      /\ \A i \in 1..Len(s) : orders'[i] = s[i])
  BY <1>3, <1>4
<1> QED
  BY <1>1, <1>5 DEF Submit, PlacerTypes

LEMMA FromBarsKept == Types /\ FromBars /\ [Next]_vars => FromBars'
<1> SUFFICES ASSUME Types, FromBars, [Next]_vars PROVE FromBars'
  OBVIOUS
<1>0. /\ EngineTypes /\ PlacerTypes /\ bars \in Seq(Bars) /\ IsTable(indicators)
      /\ prepared \in [Placers -> Seq(Keys)]
  BY DEF Types, EngineTypes, PlacerTypes
<1>1. CASE BarCloses
  <2>1. PICK bar \in Bars : bars' = Append(bars, bar)
    BY <1>1, BarClosesStep
  <2>2. UNCHANGED <<indicators, prepared, orders>>
    BY <1>1, BarClosesStep DEF engineVars, placerVars
  <2> QED
    BY <1>0, <2>1, <2>2, VersionedGrows DEF FromBars, AllLeaned
<1>2. ASSUME NEW e \in Engines, Calculate(e)
      PROVE  FromBars'
  <2>1. PICK i \in 1..Len(bars) :
          indicators' = put(indicators, keyOf(bars[i]), indicatorOf(bars[i]))
    BY <1>0, <1>2, CalculateStep
  <2>2. UNCHANGED <<bars, prepared, orders>>
    BY <1>2 DEF Calculate, placerVars
  <2>3. Versioned(indicators', bars)
    BY <1>0, <2>1, VersionedPut DEF FromBars
  <2> QED
    BY <2>2, <2>3 DEF FromBars
<1>3. ASSUME NEW p \in Placers, Prepare(p)
      PROVE  FromBars'
  <2>1. PICK rows, out :
          /\ Listed(rows, indicators) /\ Prepares(indicators, rows, out)
          /\ prepared' = [prepared EXCEPT ![p] = out]
    BY <1>0, <1>3, PrepareStep
  <2>2. AllLeaned(out, bars)
    BY <1>0, <2>1, PreparedLean DEF FromBars
  <2>3. UNCHANGED <<bars, indicators, orders>>
    BY <1>3 DEF Prepare, engineVars
  <2>4. \A q \in Placers : AllLeaned(prepared'[q], bars)
    BY <1>0, <2>1, <2>2 DEF FromBars
  <2> QED
    BY <2>3, <2>4 DEF FromBars
<1>4. ASSUME NEW p \in Placers, CheckDuplicate(p)
      PROVE  FromBars'
  <2>1. \A q \in Placers : prepared'[q] = prepared[q] \/ prepared'[q] = <<>>
    BY <1>0, <1>4 DEF CheckDuplicate
  <2>2. \A q \in Placers : AllLeaned(prepared'[q], bars)
    BY <2>1 DEF FromBars, AllLeaned
  <2>3. UNCHANGED <<bars, indicators, orders>>
    BY <1>4 DEF CheckDuplicate, engineVars
  <2> QED
    BY <2>2, <2>3 DEF FromBars
<1>5. ASSUME NEW p \in Placers, Submit(p)
      PROVE  FromBars'
  <2>1. UNCHANGED <<bars, indicators>> /\ prepared[p] # <<>>
        /\ \A q \in Placers : prepared'[q] = prepared[q] \/ prepared'[q] = <<>>
    BY <1>0, <1>5, SubmitStep DEF engineVars
  <2>2. \A q \in Placers : AllLeaned(prepared'[q], bars)
    BY <2>1 DEF FromBars, AllLeaned
  <2>3. LeanedTo(first(p), bars)
    BY <1>0, <2>1, FirstType DEF FromBars, AllLeaned
  <2>4. \A i \in 1..Len(orders') : LeanedTo(orders'[i].key, bars)
    <3>1. PICK k \in Nat : k = Len(orders)
      BY <1>0 DEF PlacerTypes
    <3>2. \/ orders' = orders
          \/ /\ Len(orders') = k + 1 /\ orders'[k + 1].key = first(p)
             /\ \A i \in 1..k : orders'[i] = orders[i]
      BY <1>0, <1>5, <3>1, SubmitStep
    <3>3. \A i \in 1..k : LeanedTo(orders[i].key, bars)
      BY <3>1 DEF FromBars
    <3>4. \A i \in 1..k + 1 : i \in 1..k \/ i = k + 1
      BY <3>1
    <3> QED
      BY <2>3, <3>1, <3>2, <3>3, <3>4
  <2> QED
    BY <2>1, <2>2, <2>4 DEF FromBars
<1>6. CASE \/ Commit \/ UNCHANGED vars
           \/ \E e \in Engines : Poll(e) \/ Fail(e)
  BY <1>6 DEF Commit, Poll, Fail, vars, engineVars, placerVars, FromBars
<1> QED
  BY <1>1, <1>2, <1>3, <1>4, <1>5, <1>6 DEF Next

LEMMA FromBarsInit == Init => FromBars
BY DEF Init, FromBars, Versioned, AllLeaned, empty

\* Through engine, strategy and risk service, and whatever happens between the
\* reading of the table and the submission: an order is of a bar that closed,
\* on the side to which a version of it leaned.
THEOREM OrdersAreFromBars == Spec => []OrdersFromBars
<1>1. Types /\ FromBars => OrdersFromBars
  <2> SUFFICES ASSUME FromBars, NEW i \in 1..Len(orders), NEW k, k = orders[i].key
               PROVE  \E bar \in versions(<<k[1], k[2]>>) : lean(indicatorOf(bar)) = k[3]
    BY DEF OrdersFromBars
  <2>1. PICK j \in 1..Len(bars) :
          keyOf(bars[j]) = <<k[1], k[2]>> /\ lean(indicatorOf(bars[j])) = k[3]
    BY DEF FromBars, LeanedTo
  <2>2. bars[j] \in versions(<<k[1], k[2]>>)
    BY <2>1 DEF versions
  <2> QED
    BY <2>1, <2>2
<1>2. Init => Types /\ FromBars
  BY TypesInit, FromBarsInit
<1>3. Types /\ FromBars /\ [Next]_vars => (Types /\ FromBars)'
  BY TypesKept, FromBarsKept
<1> QED
  BY <1>1, <1>2, <1>3, PTL DEF Spec

-----------------------------------------------------------------------------
(***************************************************************************)
(* One order of a key, as long as no two requests were between the lookup  *)
(* of their key and the record of their order together.                    *)
(***************************************************************************)
KeysApart == \A i, j \in 1..Len(orders) : i # j => orders[i].key # orders[j].key
Fresh(p) == \A i \in 1..Len(orders) : orders[i].key # first(p)
KeysOnce ==
  "raced" \notin mishaps =>
    /\ KeysApart
    /\ \A p, q \in passed : p = q
    /\ \A p \in passed : Fresh(p)

LEMMA MishapsGrow == [Next]_vars => mishaps \subseteq mishaps'
BY DEF Next, BarCloses, Commit, Poll, Calculate, Fail, Prepare, CheckDuplicate, Submit, vars

LEMMA KeysOnceKept == Types /\ KeysOnce /\ [Next]_vars => KeysOnce'
<1> SUFFICES ASSUME Types, KeysOnce, [Next]_vars, "raced" \notin mishaps'
             PROVE  /\ KeysApart' /\ \A p, q \in passed' : p = q
                    /\ \A p \in passed' : Fresh(p)'
  BY DEF KeysOnce
<1>0. /\ PlacerTypes /\ prepared \in [Placers -> Seq(Keys)] /\ passed \subseteq Placers
      /\ \A p \in passed : prepared[p] # <<>>
  BY DEF Types, PlacerTypes
<1>1. KeysApart /\ (\A p, q \in passed : p = q) /\ \A p \in passed : Fresh(p)
  BY MishapsGrow DEF KeysOnce
<1>2. CASE UNCHANGED <<prepared, passed, orders>>
  BY <1>1, <1>2 DEF KeysApart, Fresh, first
<1>3. ASSUME NEW p \in Placers, Prepare(p)
      PROVE  /\ KeysApart' /\ \A v, w \in passed' : v = w
             /\ \A q \in passed' : Fresh(q)'
  <2>1. passed' = passed /\ orders' = orders /\ \A q \in passed : prepared'[q] = prepared[q]
    BY <1>0, <1>3 DEF Prepare
  <2> QED
    BY <1>1, <2>1 DEF KeysApart, Fresh, first
<1>4. ASSUME NEW p \in Placers, CheckDuplicate(p)
      PROVE  /\ KeysApart' /\ \A v, w \in passed' : v = w
             /\ \A q \in passed' : Fresh(q)'
  <2>1. orders' = orders /\ p \notin passed
    BY <1>4 DEF CheckDuplicate
  <2>2. CASE known(first(p))
    <3>1. passed' = passed /\ \A q \in passed : prepared'[q] = prepared[q]
      BY <1>0, <1>4, <2>1, <2>2 DEF CheckDuplicate
    <3> QED
      BY <1>1, <2>1, <3>1 DEF KeysApart, Fresh, first
  <2>3. CASE ~known(first(p))
    <3>1. passed' = passed \cup {p} /\ prepared' = prepared
          /\ mishaps' = mishaps \cup (IF passed # {} THEN {"raced"} ELSE {})
      BY <1>4, <2>3 DEF CheckDuplicate
    <3>2. passed = {}
      BY <3>1
    <3>3. Fresh(p)
      BY <2>3 DEF known, Fresh
    <3> QED
      BY <1>1, <2>1, <3>1, <3>2, <3>3 DEF KeysApart, Fresh, first
  <2> QED
    BY <2>2, <2>3
<1>5. ASSUME NEW p \in Placers, Submit(p)
      PROVE  /\ KeysApart' /\ \A v, w \in passed' : v = w
             /\ \A q \in passed' : Fresh(q)'
  <2>1. p \in passed /\ passed' = passed \ {p}
    BY <1>0, <1>5, SubmitStep
  <2>2. passed' = {}
    BY <1>1, <2>1
  <2>3. PICK k \in Nat : k = Len(orders)
    BY <1>0 DEF PlacerTypes
  <2>4. \/ orders' = orders
        \/ /\ Len(orders') = k + 1 /\ orders'[k + 1].key = first(p)
           /\ \A i \in 1..k : orders'[i] = orders[i]
    BY <1>0, <1>5, <2>3, SubmitStep
  <2>5. \A i \in 1..k : orders[i].key # first(p)
    BY <1>1, <2>1, <2>3 DEF Fresh
  <2>6. \A i \in 1..k + 1 : i \in 1..k \/ i = k + 1
    BY <2>3
  <2>7. \A i, j \in 1..k : i # j => orders[i].key # orders[j].key
    BY <1>1, <2>3 DEF KeysApart
  <2>8. KeysApart'
    BY <2>3, <2>4, <2>5, <2>6, <2>7 DEF KeysApart
  <2> QED
    BY <2>2, <2>8
<1>6. CASE BarCloses \/ Commit \/ UNCHANGED vars \/ \E e \in Engines : Poll(e) \/ Calculate(e) \/ Fail(e)
  <2>1. UNCHANGED <<prepared, passed, orders>>
    BY <1>6 DEF BarCloses, Commit, Poll, Calculate, Fail, vars, placerVars
  <2> QED
    BY <1>2, <2>1
<1> QED
  BY <1>3, <1>4, <1>5, <1>6 DEF Next

LEMMA TwoElements ==
  ASSUME NEW S, NEW a \in S, NEW b \in S, a # b, IsFiniteSet(S)
  PROVE  Cardinality(S) > 1
<1>1. IsFiniteSet({a}) /\ Cardinality({a}) = 1
  BY FS_Singleton
<1>2. IsFiniteSet({a} \cup {b}) /\ Cardinality({a} \cup {b}) = 1 + 1
  BY <1>1, FS_AddElement
<1>3. {a} \cup {b} \in SUBSET S
  OBVIOUS
<1>4. Cardinality({a} \cup {b}) <= Cardinality(S) /\ Cardinality(S) \in Nat
  BY <1>3, FS_Subset, FS_CardinalityType
<1> QED
  BY <1>2, <1>4

LEMMA LeansFinite ==
  ASSUME NEW S, S \subseteq {"BUY", "SELL", "HOLD"}
  PROVE  IsFiniteSet(S)
<1>1. IsFiniteSet(({"BUY"} \cup {"SELL"}) \cup {"HOLD"})
  <2>1. IsFiniteSet({"BUY"})
    BY FS_Singleton
  <2>2. IsFiniteSet({"BUY"} \cup {"SELL"})
    BY <2>1, FS_AddElement
  <2> QED
    BY <2>2, FS_AddElement
<1>2. S \in SUBSET (({"BUY"} \cup {"SELL"}) \cup {"HOLD"})
  OBVIOUS
<1> QED
  BY <1>1, <1>2, FS_Subset

\* Placing again and again, also after a refusal: a bar gets a second order
\* only of a version that leans the other way, unless requests raced.
THEOREM OneOrderOfABar == Spec => []OneOrderPerBar
<1>1. Types /\ FromBars /\ KeysOnce => OneOrderPerBar
  <2> SUFFICES ASSUME Types, FromBars, KeysOnce, "raced" \notin mishaps,
                      NEW i \in 1..Len(orders), NEW j \in 1..Len(orders), i # j,
                      NEW k, NEW l, k = orders[i].key, l = orders[j].key,
                      k[1] = l[1], k[2] = l[2]
               PROVE  Cardinality({lean(indicatorOf(bar)) : bar \in versions(<<k[1], k[2]>>)}) > 1
    BY DEF OneOrderPerBar
  <2>1. k # l
    BY DEF KeysOnce, KeysApart
  <2>2. k \in Keys /\ l \in Keys
    <3>1. PICK s \in Seq(Submissions) : s = orders
      BY DEF Types, PlacerTypes
    <3>2. s[i] \in Submissions /\ s[j] \in Submissions
      BY <3>1
    <3> QED
      BY <3>1, <3>2 DEF Submissions
  <2>3. k[3] # l[3]
    BY <2>1, <2>2 DEF Keys
  <2>4. PICK m \in 1..Len(bars) :
          keyOf(bars[m]) = <<k[1], k[2]>> /\ lean(indicatorOf(bars[m])) = k[3]
    BY DEF FromBars, LeanedTo
  <2>5. PICK n \in 1..Len(bars) :
          keyOf(bars[n]) = <<l[1], l[2]>> /\ lean(indicatorOf(bars[n])) = l[3]
    BY DEF FromBars, LeanedTo
  <2>6. bars[m] \in versions(<<k[1], k[2]>>) /\ bars[n] \in versions(<<k[1], k[2]>>)
    BY <2>4, <2>5 DEF versions
  <2> DEFINE leans == {lean(indicatorOf(bar)) : bar \in versions(<<k[1], k[2]>>)}
  <2>7. k[3] \in leans /\ l[3] \in leans
    BY <2>4, <2>5, <2>6
  <2>8. leans \subseteq {"BUY", "SELL", "HOLD"}
    <3> SUFFICES ASSUME NEW bar \in versions(<<k[1], k[2]>>)
                 PROVE  lean(indicatorOf(bar)) \in {"BUY", "SELL", "HOLD"}
      OBVIOUS
    <3>1. bar \in Bars
      BY DEF versions, Types, EngineTypes
    <3>2. indicatorOf(bar) \in Values
      BY <3>1 DEF Bars, indicatorOf, Values
    <3> QED
      BY <3>2, LeanType
  <2> HIDE DEF leans
  <2>9. Cardinality(leans) > 1
    BY <2>3, <2>7, <2>8, LeansFinite, TwoElements
  <2> QED
    BY <2>9 DEF leans
<1>2. Init => Types /\ FromBars /\ KeysOnce
  <2>1. Init => KeysOnce
    BY DEF Init, KeysOnce, KeysApart
  <2> QED
    BY <2>1, TypesInit, FromBarsInit
<1>3. Types /\ FromBars /\ KeysOnce /\ [Next]_vars => (Types /\ FromBars /\ KeysOnce)'
  BY TypesKept, FromBarsKept, KeysOnceKept
<1> QED
  BY <1>1, <1>2, <1>3, PTL DEF Spec

-----------------------------------------------------------------------------
(***************************************************************************)
(* The engine, while one request at a time goes through the topic and none *)
(* fails.  A bar is taken when it lies before what is in hand or, between  *)
(* requests, before the end of the latest poll.  A poll goes back to the   *)
(* committed offset, so a row may for a while be the one of a later        *)
(* version than those taken: only the latest version of a bar is promised  *)
(* its row.                                                                *)
(***************************************************************************)
Latest(i) == \A j \in i + 1..Len(bars) : keyOf(bars[j]) # keyOf(bars[i])
Taken(i) ==
  /\ i <= position
  /\ \A e \in Engines : batch[e] # <<>> => i < batch[e][1].offset
HasRow(i) ==
  keyOf(bars[i]) \in DOMAIN indicators /\ indicators[keyOf(bars[i])] = indicatorOf(bars[i])

InTurn ==
  "overlapped" \notin mishaps =>
    /\ \A e, f \in Engines : batch[e] # <<>> /\ batch[f] # <<>> => e = f
    /\ \A e \in Engines : batch[e] # <<>> => batch[e][Len(batch[e])].offset = position
Converging ==
  mishaps \subseteq {"raced"} =>
    \A i \in 1..Len(bars) : Taken(i) /\ Latest(i) => HasRow(i)

LEMMA InTurnKept == Types /\ InTurn /\ [Next]_vars => InTurn'
<1> SUFFICES ASSUME Types, InTurn, [Next]_vars, "overlapped" \notin mishaps'
             PROVE  /\ \A e, f \in Engines : batch'[e] # <<>> /\ batch'[f] # <<>> => e = f
                    /\ \A e \in Engines :
                         batch'[e] # <<>> => batch'[e][Len(batch'[e])].offset = position'
  BY DEF InTurn
<1>0. EngineTypes /\ batch \in [Engines -> Seq(Records)]
  BY DEF Types, EngineTypes
<1>1. /\ \A e, f \in Engines : batch[e] # <<>> /\ batch[f] # <<>> => e = f
      /\ \A e \in Engines : batch[e] # <<>> => batch[e][Len(batch[e])].offset = position
  BY MishapsGrow DEF InTurn
<1>2. CASE UNCHANGED <<batch, position>>
  BY <1>1, <1>2
<1>3. ASSUME NEW e \in Engines, Poll(e)
      PROVE  /\ \A f, g \in Engines : batch'[f] # <<>> /\ batch'[g] # <<>> => f = g
             /\ \A f \in Engines :
                  batch'[f] # <<>> => batch'[f][Len(batch'[f])].offset = position'
  <2>1. PICK n \in Nat, b \in Seq(Records) :
          /\ Len(b) = n /\ b[n].offset = committed + n
          /\ batch' = [batch EXCEPT ![e] = b] /\ position' = committed + n
    BY <1>0, <1>3, PollStep
  <2>2. \A f \in Engines \ {e} : batch[f] = <<>>
    BY <1>3 DEF Poll
  <2>3. batch'[e] = b /\ \A f \in Engines \ {e} : batch'[f] = <<>>
    BY <1>0, <2>1, <2>2
  <2> QED
    BY <2>1, <2>3
<1>4. ASSUME NEW e \in Engines, Calculate(e)
      PROVE  /\ \A f, g \in Engines : batch'[f] # <<>> /\ batch'[g] # <<>> => f = g
             /\ \A f \in Engines :
                  batch'[f] # <<>> => batch'[f][Len(batch'[f])].offset = position'
  <2>1. PICK b \in Seq(Records) :
          /\ Len(b) = Len(batch[e]) - 1 /\ Len(batch[e]) >= 1 /\ batch[e] # <<>>
          /\ \A n \in 1..Len(b) : b[n] = batch[e][n + 1]
          /\ batch' = [batch EXCEPT ![e] = b]
    BY <1>0, <1>4, CalculateStep
  <2>2. batch'[e] = b /\ (\A f \in Engines \ {e} : batch'[f] = batch[f]) /\ position' = position
    BY <1>0, <1>4, <2>1 DEF Calculate
  <2>3. PICK c \in Seq(Records) : c = batch[e]
    BY <1>0
  <2>4. b # <<>> => b[Len(b)] = c[Len(c)]
    <3> SUFFICES ASSUME b # <<>> PROVE b[Len(b)] = c[Len(c)]
      OBVIOUS
    <3>1. PICK k \in Nat : k = Len(b) /\ k # 0 /\ Len(c) = k + 1
      BY <2>1, <2>3
    <3>2. k \in 1..Len(b)
      BY <3>1
    <3> QED
      BY <2>1, <2>3, <3>1, <3>2
  <2>5. b # <<>> => b[Len(b)].offset = position
    BY <1>1, <2>1, <2>3, <2>4
  <2>6. \A f \in Engines \ {e} : batch'[f] = <<>>
    BY <1>1, <2>1, <2>2
  <2> QED
    BY <2>2, <2>5, <2>6
<1>5. ASSUME NEW e \in Engines, Fail(e)
      PROVE  /\ \A f, g \in Engines : batch'[f] # <<>> /\ batch'[g] # <<>> => f = g
             /\ \A f \in Engines :
                  batch'[f] # <<>> => batch'[f][Len(batch'[f])].offset = position'
  <2>1. batch'[e] = <<>> /\ (\A f \in Engines \ {e} : batch'[f] = batch[f]) /\ position' = position
    BY <1>0, <1>5 DEF Fail
  <2> QED
    BY <1>1, <2>1
<1>6. CASE \/ BarCloses \/ Commit \/ UNCHANGED vars
           \/ \E p \in Placers : Prepare(p) \/ CheckDuplicate(p) \/ Submit(p)
  <2>1. UNCHANGED <<batch, position>>
    BY <1>6 DEF BarCloses, Commit, Prepare, CheckDuplicate, Submit, vars, engineVars
  <2> QED
    BY <1>2, <2>1
<1> QED
  BY <1>3, <1>4, <1>5, <1>6 DEF Next

\* What is taken after a bar is calculated: the bar, and what was taken before.
LEMMA CalculateTakes ==
  ASSUME Types, InTurn, "overlapped" \notin mishaps, NEW e \in Engines, Calculate(e)
  PROVE  \E h \in 1..Len(bars) :
           /\ indicators' = put(indicators, keyOf(bars[h]), indicatorOf(bars[h]))
           /\ UNCHANGED <<bars, mishaps>> /\ bars[h] \in Bars
           /\ \A i \in 1..h - 1 : Taken(i)
           /\ \A i \in 1..Len(bars) : Taken(i)' /\ i # h => i < h
<1>0. EngineTypes /\ batch \in [Engines -> Seq(Records)] /\ position \in Nat /\ bars \in Seq(Bars)
      /\ \A f \in Engines : Genuine(batch[f], bars)
  BY DEF Types, EngineTypes
<1>1. PICK h \in 1..Len(bars), b \in Seq(Records) :
        /\ h = batch[e][1].offset /\ bars[h] \in Bars
        /\ Len(b) = Len(batch[e]) - 1 /\ Len(batch[e]) >= 1
        /\ \A n \in 1..Len(b) : b[n] = batch[e][n + 1]
        /\ batch' = [batch EXCEPT ![e] = b] /\ batch[e] # <<>>
        /\ indicators' = put(indicators, keyOf(bars[h]), indicatorOf(bars[h]))
  BY <1>0, CalculateStep
<1>2. UNCHANGED <<bars, mishaps, position>> /\ batch'[e] = b
  BY <1>0, <1>1 DEF Calculate
<1>3. (\A f \in Engines \ {e} : batch[f] = <<>>) /\ batch[e][Len(batch[e])].offset = position
  BY <1>1 DEF InTurn
<1>4. PICK c \in Seq(Records) : c = batch[e]
  BY <1>0
<1>5. PICK k \in Nat : k = Len(c) /\ k >= 1
  BY <1>1, <1>4
<1>6. \A n \in 1..k : c[n].offset = h + (n - 1)
  BY <1>0, <1>1, <1>4, <1>5 DEF Genuine
<1>7. position = h + (k - 1) /\ h \in Nat
  <2>1. k \in 1..k
    BY <1>5
  <2> QED
    BY <1>3, <1>4, <1>5, <1>6, <2>1
<1>8. \A i \in 1..h - 1 : Taken(i)
  <2> SUFFICES ASSUME NEW i \in 1..h - 1 PROVE Taken(i)
    OBVIOUS
  <2>1. i < h /\ i <= position
    BY <1>5, <1>7
  <2> QED
    BY <1>1, <1>3, <2>1 DEF Taken
<1>9. ASSUME NEW i \in 1..Len(bars), Taken(i)', i # h
      PROVE  i < h
  <2>1. i <= position /\ (b # <<>> => i < b[1].offset)
    BY <1>2, <1>9 DEF Taken
  <2>2. CASE b = <<>>
    <3>1. k = 1
      BY <1>1, <1>4, <1>5, <2>2
    <3> QED
      BY <1>7, <1>9, <2>1, <3>1
  <2>3. CASE b # <<>>
    <3>1. Len(b) = k - 1 /\ k - 1 # 0
      BY <1>1, <1>4, <1>5, <2>3
    <3>2. 1 \in 1..Len(b) /\ 1 + 1 \in 1..k
      BY <1>5, <3>1
    <3>3. b[1] = c[1 + 1] /\ c[1 + 1].offset = h + ((1 + 1) - 1)
      BY <1>1, <1>4, <1>6, <3>2
    <3>4. i < h + 1
      BY <2>1, <2>3, <3>3
    <3> QED
      BY <1>7, <1>9, <3>4
  <2> QED
    BY <2>2, <2>3
<1> QED
  BY <1>1, <1>2, <1>8, <1>9

LEMMA ConvergingKept == Types /\ InTurn /\ Converging /\ [Next]_vars => Converging'
<1> SUFFICES ASSUME Types, InTurn, Converging, [Next]_vars, mishaps' \subseteq {"raced"},
                    NEW i \in 1..Len(bars'), Taken(i)', Latest(i)'
             PROVE  HasRow(i)'
  BY DEF Converging
<1>0. /\ EngineTypes /\ batch \in [Engines -> Seq(Records)] /\ bars \in Seq(Bars)
      /\ committed \in Nat /\ position \in Nat /\ committed <= position
      /\ position <= Len(bars) /\ Len(bars) \in Nat
  BY DEF Types, EngineTypes
<1>1. mishaps \subseteq {"raced"} /\ \A n \in 1..Len(bars) : Taken(n) /\ Latest(n) => HasRow(n)
  BY MishapsGrow DEF Converging
<1>2. CASE BarCloses
  <2>1. PICK bar \in Bars : bars' = Append(bars, bar)
    BY <1>2, BarClosesStep
  <2>2. UNCHANGED <<batch, position, indicators>>
    BY <1>2, BarClosesStep DEF engineVars
  <2>3. Taken(i) /\ i <= position
    BY <2>2 DEF Taken
  <2>4. i \in 1..Len(bars) /\ Len(bars') = Len(bars) + 1
        /\ \A n \in 1..Len(bars) : bars'[n] = bars[n]
    BY <1>0, <2>1, <2>3
  <2>5. \A j \in i + 1..Len(bars) : j \in i + 1..Len(bars') /\ j \in 1..Len(bars)
    BY <1>0, <2>4
  <2>6. Latest(i)
    BY <2>4, <2>5 DEF Latest
  <2> QED
    BY <1>1, <2>2, <2>3, <2>4, <2>6 DEF HasRow
<1>3. ASSUME NEW e \in Engines, Poll(e)
      PROVE  HasRow(i)'
  <2>1. PICK n \in Nat, b \in Seq(Records) :
          /\ n >= 1 /\ Len(b) = n /\ b[1].offset = committed + 1
          /\ batch' = [batch EXCEPT ![e] = b] /\ batch[e] = <<>>
    BY <1>0, <1>3, PollStep
  <2>2. \A f \in Engines : batch[f] = <<>>
    BY <1>3, <2>1 DEF Poll
  <2>3. batch'[e] = b /\ b # <<>>
    BY <1>0, <2>1
  <2>4. i < committed + 1
    BY <2>1, <2>3 DEF Taken
  <2>5. UNCHANGED <<bars, indicators>>
    BY <1>3 DEF Poll
  <2>6. Taken(i) /\ i \in 1..Len(bars)
    BY <1>0, <2>2, <2>4, <2>5 DEF Taken
  <2> QED
    BY <1>1, <2>5, <2>6 DEF Latest, HasRow
<1>4. ASSUME NEW e \in Engines, Calculate(e)
      PROVE  HasRow(i)'
  <2>1. PICK h \in 1..Len(bars) :
          /\ indicators' = put(indicators, keyOf(bars[h]), indicatorOf(bars[h]))
          /\ UNCHANGED <<bars, mishaps>>
          /\ \A n \in 1..h - 1 : Taken(n)
          /\ \A n \in 1..Len(bars) : Taken(n)' /\ n # h => n < h
    BY <1>1, <1>4, CalculateTakes
  <2>2. CASE i = h
    BY <2>1, <2>2 DEF HasRow, put
  <2>3. CASE i # h
    <3>1. i \in 1..h - 1 /\ h \in i + 1..Len(bars) /\ i \in 1..Len(bars)
      BY <1>0, <2>1, <2>3
    <3>2. HasRow(i) /\ keyOf(bars[h]) # keyOf(bars[i])
      BY <1>1, <2>1, <3>1 DEF Latest
    <3> QED
      BY <2>1, <3>2 DEF HasRow, put
  <2> QED
    BY <2>2, <2>3
<1>5. CASE \E e \in Engines : Fail(e)
  BY <1>5 DEF Fail
<1>6. CASE \/ Commit \/ UNCHANGED vars
           \/ \E p \in Placers : Prepare(p) \/ CheckDuplicate(p) \/ Submit(p)
  <2>1. UNCHANGED <<bars, batch, position, indicators>>
    BY <1>6 DEF Commit, Prepare, CheckDuplicate, Submit, vars, engineVars
  <2>2. Taken(i) /\ Latest(i) /\ i \in 1..Len(bars)
    BY <2>1 DEF Taken, Latest
  <2> QED
    BY <1>1, <2>1, <2>2 DEF HasRow
<1> QED
  BY <1>2, <1>3, <1>4, <1>5, <1>6 DEF Next

LEMMA EngineInit == Init => InTurn /\ Converging
<1> SUFFICES ASSUME Init PROVE InTurn /\ Converging
  OBVIOUS
<1>1. bars = <<>> /\ \A e \in Engines : batch[e] = <<>>
  BY DEF Init
<1> QED
  BY <1>1 DEF InTurn, Converging

\* Bars are delivered again and again and in versions: when one request at a
\* time has gone to the end of the topic and none failed, every bar has the row
\* of its latest version.
THEOREM RowsConverge == Spec => []IndicatorsConverge
<1>1. Types /\ Converging => IndicatorsConverge
  <2> SUFFICES ASSUME Types, Converging, mishaps \subseteq {"raced"}, position = Len(bars),
                      \A e \in Engines : batch[e] = <<>>, NEW i \in 1..Len(bars),
                      \A j \in i + 1..Len(bars) : keyOf(bars[j]) # keyOf(bars[i])
               PROVE  HasRow(i)
    BY DEF IndicatorsConverge, HasRow
  <2>1. Len(bars) \in Nat
    BY DEF Types, EngineTypes
  <2>2. Taken(i) /\ Latest(i)
    BY <2>1 DEF Taken, Latest
  <2> QED
    BY <2>2 DEF Converging
<1>2. Init => Types /\ InTurn /\ Converging
  BY TypesInit, EngineInit
<1>3. Types /\ InTurn /\ Converging /\ [Next]_vars => (Types /\ InTurn /\ Converging)'
  BY TypesKept, InTurnKept, ConvergingKept
<1> QED
  BY <1>1, <1>2, <1>3, PTL DEF Spec

-----------------------------------------------------------------------------
(***************************************************************************)
(* Bars that come one a minute, taken in order: the rows are those of the  *)
(* first so many bars of the topic, and the first order of every request   *)
(* is that of the first bar that leans.                                    *)
(***************************************************************************)
Rising(topic) == \A i, j \in 1..Len(topic) : i < j => topic[i].minute < topic[j].minute
FromStart(t, topic) ==
  \A i, j \in 1..Len(topic) :
    i < j /\ keyOf(topic[j]) \in DOMAIN t => keyOf(topic[i]) \in DOMAIN t
IsFirst(key, topic) ==
  \E i \in 1..Len(topic) :
    /\ key = <<topic[i].symbol, topic[i].minute, lean(indicatorOf(topic[i]))>>
    /\ key[3] # "HOLD" /\ \A j \in 1..i - 1 : lean(indicatorOf(topic[j])) = "HOLD"

FirstOnly ==
  Rising(bars) /\ mishaps \subseteq {"raced"} =>
    /\ FromStart(indicators, bars)
    /\ \A p \in Placers : prepared[p] # <<>> => IsFirst(prepared[p][1], bars)
    /\ \A i \in 1..Len(orders) : IsFirst(orders[i].key, bars)

LEMMA FirstGrows ==
  ASSUME NEW t \in Seq(Bars), NEW bar \in Bars
  PROVE  /\ Rising(Append(t, bar)) => Rising(t)
         /\ \A key : IsFirst(key, t) => IsFirst(key, Append(t, bar))
<1>1. \A i \in 1..Len(t) : i \in 1..Len(Append(t, bar)) /\ Append(t, bar)[i] = t[i]
  OBVIOUS
<1>2. \A i \in 1..Len(t) : \A j \in 1..i - 1 : j \in 1..Len(t)
  OBVIOUS
<1>3. Rising(Append(t, bar)) => Rising(t)
  BY <1>1 DEF Rising
<1>4. ASSUME NEW key, IsFirst(key, t)
      PROVE  IsFirst(key, Append(t, bar))
  <2>1. PICK i \in 1..Len(t) :
          /\ key = <<t[i].symbol, t[i].minute, lean(indicatorOf(t[i]))>>
          /\ key[3] # "HOLD" /\ \A j \in 1..i - 1 : lean(indicatorOf(t[j])) = "HOLD"
    BY <1>4 DEF IsFirst
  <2>2. \A j \in 1..i - 1 : lean(indicatorOf(Append(t, bar)[j])) = "HOLD"
    BY <1>1, <1>2, <2>1
  <2> QED
    BY <1>1, <2>1, <2>2 DEF IsFirst
<1> QED
  BY <1>3, <1>4

LEMMA FirstUnique ==
  ASSUME NEW t \in Seq(Bars), NEW k, NEW l, IsFirst(k, t), IsFirst(l, t)
  PROVE  k = l
<1>1. PICK i \in 1..Len(t) :
        /\ k = <<t[i].symbol, t[i].minute, lean(indicatorOf(t[i]))>>
        /\ k[3] # "HOLD" /\ \A n \in 1..i - 1 : lean(indicatorOf(t[n])) = "HOLD"
  BY DEF IsFirst
<1>2. PICK j \in 1..Len(t) :
        /\ l = <<t[j].symbol, t[j].minute, lean(indicatorOf(t[j]))>>
        /\ l[3] # "HOLD" /\ \A n \in 1..j - 1 : lean(indicatorOf(t[n])) = "HOLD"
  BY DEF IsFirst
<1>3. lean(indicatorOf(t[i])) # "HOLD" /\ lean(indicatorOf(t[j])) # "HOLD"
  BY <1>1, <1>2
<1>4. i \notin 1..j - 1 /\ j \notin 1..i - 1
  BY <1>1, <1>2, <1>3
<1>5. i = j
  BY <1>4
<1> QED
  BY <1>1, <1>2, <1>5

\* Minutes rise, so a key is that of one bar.
LEMMA RisingKeys ==
  ASSUME NEW t \in Seq(Bars), Rising(t), NEW i \in 1..Len(t), NEW j \in 1..Len(t),
         keyOf(t[i]) = keyOf(t[j])
  PROVE  i = j
<1>1. t[i].minute = t[j].minute
  BY DEF keyOf
<1>2. t[i].minute \in 0..MaxMinute
  <2>1. t[i] \in Bars
    OBVIOUS
  <2> QED
    BY <2>1 DEF Bars
<1>3. ~(i < j) /\ ~(j < i)
  BY <1>1, <1>2 DEF Rising
<1> QED
  BY <1>3

LEMMA PreparedFirst ==
  ASSUME NEW u, IsTable(u), NEW t \in Seq(Bars), Versioned(u, t), Rising(t), FromStart(u, t),
         NEW rows, Listed(rows, u), NEW out, Prepares(u, rows, out), out # <<>>
  PROVE  IsFirst(out[1], t)
<1>1. PICK n \in 1..Len(rows) :
        /\ out[1] = orderOf(u, rows[n]) /\ lean(u[rows[n]]) # "HOLD"
        /\ \A m \in 1..n - 1 : lean(u[rows[m]]) = "HOLD"
  BY DEF Prepares
<1>2. PICK row \in DOMAIN u : row = rows[n]
  BY DEF Listed
<1>3. PICK i \in 1..Len(t) : keyOf(t[i]) = row /\ u[row] = indicatorOf(t[i])
  BY DEF Versioned
<1>4. row[1] = t[i].symbol /\ row[2] = t[i].minute
  BY <1>3 DEF keyOf
<1>5. out[1] = <<t[i].symbol, t[i].minute, lean(indicatorOf(t[i]))>> /\ out[1][3] # "HOLD"
  BY <1>1, <1>2, <1>3, <1>4 DEF orderOf
<1>6. ASSUME NEW j \in 1..i - 1
      PROVE  lean(indicatorOf(t[j])) = "HOLD"
  <2>1. j \in 1..Len(t) /\ j < i
    BY <1>3
  <2>2. keyOf(t[j]) \in DOMAIN u
    BY <1>3, <2>1 DEF FromStart
  <2>3. PICK m \in 1..Len(rows) : rows[m] = keyOf(t[j])
    BY <2>2 DEF Listed
  <2>4. rows[m][2] = t[j].minute /\ rows[n][2] = t[i].minute
    BY <1>2, <1>4, <2>3 DEF keyOf
  <2>5. t[j].minute < t[i].minute
    BY <1>3, <2>1 DEF Rising
  <2>6. t[j].minute \in Int /\ t[i].minute \in Int
    <3>1. t[j] \in Bars /\ t[i] \in Bars
      BY <2>1
    <3> QED
      BY <3>1 DEF Bars
  <2>7. ~(n < m)
    <3>1. n < m => rows[n][2] <= rows[m][2]
      BY DEF Listed
    <3> QED
      BY <2>4, <2>5, <2>6, <3>1
  <2>8. n # m
    BY <2>4, <2>5, <2>6
  <2>9. m \in 1..n - 1
    <3>1. rows \in Seq(DOMAIN u)
      BY DEF Listed
    <3>2. Len(rows) \in Nat
      BY <3>1
    <3> QED
      BY <2>7, <2>8, <3>2
  <2>10. lean(u[keyOf(t[j])]) = "HOLD"
    BY <1>1, <2>3, <2>9
  <2>11. PICK k \in 1..Len(t) : keyOf(t[k]) = keyOf(t[j]) /\ u[keyOf(t[j])] = indicatorOf(t[k])
    BY <2>2 DEF Versioned
  <2>12. k = j
    BY <2>1, <2>11, RisingKeys
  <2> QED
    BY <2>10, <2>11, <2>12
<1> QED
  BY <1>5, <1>6 DEF IsFirst

LEMMA FirstOnlyKept ==
  ASSUME Types, FromBars, InTurn, Converging, FirstOnly, [Next]_vars
  PROVE  FirstOnly'
<1> SUFFICES ASSUME Rising(bars'), mishaps' \subseteq {"raced"}
             PROVE  /\ FromStart(indicators', bars')
                    /\ \A p \in Placers : prepared'[p] # <<>> => IsFirst(prepared'[p][1], bars')
                    /\ \A i \in 1..Len(orders') : IsFirst(orders'[i].key, bars')
  BY DEF FirstOnly
<1>0. /\ EngineTypes /\ PlacerTypes /\ bars \in Seq(Bars) /\ IsTable(indicators)
      /\ prepared \in [Placers -> Seq(Keys)] /\ Len(bars) \in Nat
  BY DEF Types, EngineTypes, PlacerTypes
<1>1. mishaps \subseteq {"raced"} /\ Versioned(indicators, bars)
  BY MishapsGrow DEF FromBars
<1>2. Rising(bars)
  <2>1. CASE BarCloses
    <3>1. PICK bar \in Bars : bars' = Append(bars, bar)
      BY <2>1, BarClosesStep
    <3> QED
      BY <1>0, <3>1, FirstGrows
  <2>2. CASE bars' = bars
    BY <2>2
  <2> QED
    BY <2>1, <2>2 DEF Next, Commit, Poll, Calculate, Fail, Prepare, CheckDuplicate, Submit, vars
<1>3. /\ FromStart(indicators, bars)
      /\ \A p \in Placers : prepared[p] # <<>> => IsFirst(prepared[p][1], bars)
      /\ \A i \in 1..Len(orders) : IsFirst(orders[i].key, bars)
  BY <1>1, <1>2 DEF FirstOnly
<1>4. CASE BarCloses
  <2>1. PICK bar \in Bars : bars' = Append(bars, bar)
    BY <1>4, BarClosesStep
  <2>2. UNCHANGED <<indicators, prepared, orders>>
    BY <1>4, BarClosesStep DEF engineVars, placerVars
  <2>3. PICK z \in Nat : z = Len(bars)
    BY <1>0
  <2>4. Len(bars') = z + 1 /\ \A n \in 1..z : bars'[n] = bars[n] /\ n \in 1..z + 1
    BY <1>0, <2>1, <2>3
  <2>5. ASSUME keyOf(bars'[z + 1]) \in DOMAIN indicators PROVE FALSE
    <3>1. PICK m \in 1..z : keyOf(bars[m]) = keyOf(bars'[z + 1])
      BY <1>1, <2>3, <2>5 DEF Versioned
    <3>2. bars' \in Seq(Bars) /\ keyOf(bars'[m]) = keyOf(bars'[z + 1]) /\ m \in 1..Len(bars')
          /\ z + 1 \in 1..Len(bars')
      BY <1>0, <2>1, <2>3, <2>4, <3>1
    <3>3. m = z + 1
      BY <3>2, RisingKeys
    <3> QED
      BY <2>3, <3>1, <3>3
  <2>6. FromStart(indicators, bars')
    <3> SUFFICES ASSUME NEW i \in 1..z + 1, NEW j \in 1..z + 1, i < j,
                        keyOf(bars'[j]) \in DOMAIN indicators
                 PROVE  keyOf(bars'[i]) \in DOMAIN indicators
      BY <2>4 DEF FromStart
    <3>1. j # z + 1
      BY <2>5
    <3>2. i \in 1..z /\ j \in 1..z
      BY <2>3, <3>1
    <3> QED
      BY <1>3, <2>3, <2>4, <3>2 DEF FromStart
  <2>7. \A key : IsFirst(key, bars) => IsFirst(key, bars')
    BY <1>0, <2>1, FirstGrows
  <2> QED
    BY <1>3, <2>2, <2>6, <2>7
<1>5. ASSUME NEW e \in Engines, Calculate(e)
      PROVE  /\ FromStart(indicators', bars')
             /\ \A p \in Placers : prepared'[p] # <<>> => IsFirst(prepared'[p][1], bars')
             /\ \A i \in 1..Len(orders') : IsFirst(orders'[i].key, bars')
  <2>1. PICK h \in 1..Len(bars) :
          /\ indicators' = put(indicators, keyOf(bars[h]), indicatorOf(bars[h]))
          /\ UNCHANGED <<bars, mishaps>> /\ \A i \in 1..h - 1 : Taken(i)
    BY <1>1, <1>5, CalculateTakes
  <2>2. UNCHANGED <<prepared, orders>>
    BY <1>5 DEF Calculate, placerVars
  <2>3. DOMAIN indicators' = DOMAIN indicators \cup {keyOf(bars[h])}
    BY <2>1 DEF put
  <2>4. \A i \in 1..h - 1 : keyOf(bars[i]) \in DOMAIN indicators
    <3> SUFFICES ASSUME NEW i \in 1..h - 1 PROVE keyOf(bars[i]) \in DOMAIN indicators
      OBVIOUS
    <3>1. i \in 1..Len(bars) /\ Taken(i)
      BY <1>0, <2>1
    <3>2. ASSUME NEW j \in i + 1..Len(bars), keyOf(bars[j]) = keyOf(bars[i]) PROVE FALSE
      <4>1. j \in 1..Len(bars) /\ i # j
        BY <1>0, <3>1
      <4> QED
        BY <1>0, <1>2, <3>1, <3>2, <4>1, RisingKeys
    <3>3. HasRow(i)
      BY <1>1, <3>1, <3>2 DEF Converging, Latest
    <3> QED
      BY <3>3 DEF HasRow
  <2>5. FromStart(indicators', bars)
    <3> SUFFICES ASSUME NEW i \in 1..Len(bars), NEW j \in 1..Len(bars), i < j,
                        keyOf(bars[j]) \in DOMAIN indicators'
                 PROVE  keyOf(bars[i]) \in DOMAIN indicators'
      BY DEF FromStart
    <3>1. CASE keyOf(bars[j]) \in DOMAIN indicators
      BY <1>3, <2>3, <3>1 DEF FromStart
    <3>2. CASE keyOf(bars[j]) = keyOf(bars[h])
      <4>1. j = h
        BY <1>0, <1>2, <3>2, RisingKeys
      <4>2. i \in 1..h - 1
        BY <4>1
      <4> QED
        BY <2>3, <2>4, <4>2
    <3> QED
      BY <2>3, <3>1, <3>2
  <2> QED
    BY <1>3, <2>1, <2>2, <2>5
<1>6. ASSUME NEW p \in Placers, Prepare(p)
      PROVE  /\ FromStart(indicators', bars')
             /\ \A q \in Placers : prepared'[q] # <<>> => IsFirst(prepared'[q][1], bars')
             /\ \A i \in 1..Len(orders') : IsFirst(orders'[i].key, bars')
  <2>1. PICK rows, out :
          /\ Listed(rows, indicators) /\ Prepares(indicators, rows, out)
          /\ prepared' = [prepared EXCEPT ![p] = out]
    BY <1>0, <1>6, PrepareStep
  <2>2. out # <<>> => IsFirst(out[1], bars)
    BY <1>0, <1>1, <1>2, <1>3, <2>1, PreparedFirst
  <2>3. UNCHANGED <<bars, indicators, orders>>
    BY <1>6 DEF Prepare, engineVars
  <2>4. prepared'[p] = out /\ \A q \in Placers \ {p} : prepared'[q] = prepared[q]
    BY <1>0, <2>1
  <2> QED
    BY <1>3, <2>2, <2>3, <2>4
<1>7. ASSUME NEW p \in Placers, CheckDuplicate(p)
      PROVE  /\ FromStart(indicators', bars')
             /\ \A q \in Placers : prepared'[q] # <<>> => IsFirst(prepared'[q][1], bars')
             /\ \A i \in 1..Len(orders') : IsFirst(orders'[i].key, bars')
  <2>1. \A q \in Placers : prepared'[q] = prepared[q] \/ prepared'[q] = <<>>
    BY <1>0, <1>7 DEF CheckDuplicate
  <2>2. UNCHANGED <<bars, indicators, orders>>
    BY <1>7 DEF CheckDuplicate, engineVars
  <2> QED
    BY <1>3, <2>1, <2>2
<1>8. ASSUME NEW p \in Placers, Submit(p)
      PROVE  /\ FromStart(indicators', bars')
             /\ \A q \in Placers : prepared'[q] # <<>> => IsFirst(prepared'[q][1], bars')
             /\ \A i \in 1..Len(orders') : IsFirst(orders'[i].key, bars')
  <2>1. UNCHANGED <<bars, indicators>> /\ prepared[p] # <<>>
        /\ \A q \in Placers : prepared'[q] = prepared[q] \/ prepared'[q] = <<>>
    BY <1>0, <1>8, SubmitStep DEF engineVars
  <2>2. IsFirst(first(p), bars)
    BY <1>0, <1>3, <2>1, FirstType
  <2>3. PICK k \in Nat : k = Len(orders)
    BY <1>0 DEF PlacerTypes
  <2>4. \/ orders' = orders
        \/ /\ Len(orders') = k + 1 /\ orders'[k + 1].key = first(p)
           /\ \A i \in 1..k : orders'[i] = orders[i]
    BY <1>0, <1>8, <2>3, SubmitStep
  <2>5. \A i \in 1..k : IsFirst(orders[i].key, bars)
    BY <1>3, <2>3
  <2>6. \A i \in 1..k + 1 : i \in 1..k \/ i = k + 1
    BY <2>3
  <2>7. \A i \in 1..Len(orders') : IsFirst(orders'[i].key, bars)
    BY <2>2, <2>3, <2>4, <2>5, <2>6
  <2> QED
    BY <1>3, <2>1, <2>7
<1>9. CASE Commit \/ UNCHANGED vars \/ \E e \in Engines : Poll(e) \/ Fail(e)
  <2>1. UNCHANGED <<bars, indicators, prepared, orders>>
    BY <1>9 DEF Commit, Poll, Fail, vars, engineVars, placerVars
  <2> QED
    BY <1>3, <2>1
<1> QED
  BY <1>4, <1>5, <1>6, <1>7, <1>8, <1>9 DEF Next

\* Every request goes through the whole table and submits what comes first:
\* while bars come one a minute and are taken in order, there is one order ever.
THEOREM FirstSignalOnly == Spec => []OnlyFirstSignalPlaced
<1> DEFINE Inv == Types /\ FromBars /\ KeysOnce /\ InTurn /\ Converging /\ FirstOnly
<1>1. Inv => OnlyFirstSignalPlaced
  <2> SUFFICES ASSUME Types, KeysOnce, FirstOnly, mishaps = {}, Rising(bars)
               PROVE  Len(orders) <= 1
    BY DEF OnlyFirstSignalPlaced, Rising
  <2>1. PICK k \in Nat : k = Len(orders)
    BY DEF Types, PlacerTypes
  <2>2. \A i, j \in 1..k : i # j => orders[i].key # orders[j].key
    BY <2>1 DEF KeysOnce, KeysApart
  <2>3. \A i \in 1..k : IsFirst(orders[i].key, bars)
    BY <2>1 DEF FirstOnly
  <2>4. ASSUME k > 1 PROVE FALSE
    <3>1. 1 \in 1..k /\ 2 \in 1..k
      BY <2>4
    <3>2. IsFirst(orders[1].key, bars) /\ IsFirst(orders[2].key, bars)
      BY <2>3, <3>1
    <3>3. orders[1].key = orders[2].key
      BY <3>2, FirstUnique DEF Types, EngineTypes
    <3> QED
      BY <2>2, <3>1, <3>3
  <2> QED
    BY <2>1, <2>4
<1>2. Init => Inv
  <2>1. Init => KeysOnce
    BY DEF Init, KeysOnce, KeysApart
  <2>2. Init => FirstOnly
    BY DEF Init, FirstOnly, FromStart
  <2> QED
    BY <2>1, <2>2, TypesInit, FromBarsInit, EngineInit
<1>3. Inv /\ [Next]_vars => Inv'
  <2> SUFFICES ASSUME Inv, [Next]_vars PROVE Inv'
    OBVIOUS
  <2> QED
    BY TypesKept, FromBarsKept, KeysOnceKept, InTurnKept, ConvergingKept, FirstOnlyKept
<1> QED
  BY <1>1, <1>2, <1>3, PTL DEF Spec
=============================================================================
