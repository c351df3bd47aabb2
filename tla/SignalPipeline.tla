--------------------------- MODULE SignalPipeline ---------------------------
(***************************************************************************)
(* From closed bars to a broker order: the indicator engine turns the      *)
(* topic of closed bars into the table of indicators (indicator_engine),   *)
(* the strategy turns its rows into signals (strategy_runtime), the risk   *)
(* service approves some of them (risk_service), and the execution service *)
(* submits the first order prepared from those (execution_service).        *)
(*                                                                         *)
(* The strategy and the risk service keep nothing between requests: they   *)
(* are functions of the table, evaluated within the request that places.   *)
(* The engine's consumer is the one of the bar builder, committed offsets  *)
(* included; each request has a new one.  Its topic of indicators and its  *)
(* cache have no reader and are left out, as are the fields ema_9 and      *)
(* sma_3, which the strategy does not look at.  Bars come from ClosedBars, *)
(* which the bar builder implements: in any order, and any number of times.*)
(***************************************************************************)
EXTENDS SharedClients, Loops, FiniteSets, Functions

CONSTANTS
  Symbols, Closes, \* the instruments, and the closes of their bars
  Averages,        \* what is computed from a close: <<ema_7, sma_5>>
  Engines,         \* the requests to the indicator engine under way together
  Placers,         \* the requests to place the first order
  MaxBatch,        \* max_records of a poll
  MaxOpenPositions,\* risk_max_open_positions
  MaxMinute, MaxBars, MaxPolls, MaxPlacings  \* bounds

ASSUME PipelineAssumption ==
  /\ Averages \in [Closes -> Int \X Int]
  /\ MaxBatch \in Nat \ {0} /\ MaxOpenPositions \in Nat \ {0}
  /\ {MaxMinute, MaxBars, MaxPolls, MaxPlacings} \subseteq Nat

VARIABLES
  bars,       \* the topic of closed bars
  committed,  \* the offset Kafka keeps for the engine's group
  position,   \* the end of the latest poll
  batch,      \* the records each request to the engine has still to process
  indicators, \* table indicators_1m: symbol and minute -> averages
  prepared,   \* the orders a request to place has prepared
  passed,     \* the requests whose order was found to be no duplicate
  orders,     \* the submissions the execution service recorded
  polls, placings,
  mishaps     \* what went wrong so far (kept for the properties only)

engineVars == <<committed, position, batch, indicators, polls>>
placerVars == <<prepared, passed, orders, placings>>
vars == <<bars, engineVars, placerVars, mishaps>>

Closed == INSTANCE ClosedBars WITH topic <- bars, table <- empty

Bars == [symbol : Symbols, minute : 0..MaxMinute, close : Closes]
keyOf(bar) == <<bar.symbol, bar.minute>>
Sides == {"BUY", "SELL"}

-----------------------------------------------------------------------------
(* The functions of the pipeline *)

\* build_indicator_from_bar.  The code gives every average the close itself,
\* for which the strategy always holds; the strategy is written, and tested,
\* for averages that differ, and Averages may have both.
indicatorOf(bar) == Averages[bar.close]

\* fetch_indicators: every row, ordered by its minute and by nothing else, so
\* that rows of one minute come in any order.
MutantFetches(table) == Bijection(1..Cardinality(DOMAIN table), DOMAIN table)
fetches(table) ==
  {s \in Bijection(1..Cardinality(DOMAIN table), DOMAIN table) :
     \A i, j \in 1..Len(s) : i < j => s[i][2] <= s[j][2]}

lean(averages) == CASE averages[1] > averages[2] -> "BUY"
                    [] averages[1] < averages[2] -> "SELL"
                    [] OTHER -> "HOLD"

\* evaluate: one signal for every row.
signals(table, rows) ==
  [i \in 1..Len(rows) |->
     [symbol |-> rows[i][1], minute |-> rows[i][2], signal |-> lean(table[rows[i]])]]

\* apply_risk: the signals that are approved, the first so many that do not hold.
MutantApproved(all) ==
  SubSeq(all, 1, IF Len(all) < MaxOpenPositions THEN Len(all) ELSE MaxOpenPositions)
approved(all) ==
  LET active == Chosen(all, {i \in 1..Len(all) : all[i].signal # "HOLD"})
  IN SubSeq(active, 1, IF Len(active) < MaxOpenPositions THEN Len(active)
                       ELSE MaxOpenPositions)

\* prepare_orders and build_idempotency_key: size, timeframe and broker are
\* those of every order; a signal that is not BUY is sold.
ordersOf(all) ==
  [i \in 1..Len(all) |-> <<all[i].symbol, all[i].minute,
                           IF all[i].signal = "BUY" THEN "BUY" ELSE "SELL">>]

-----------------------------------------------------------------------------
(* The services *)

Init ==
  /\ bars = <<>> /\ committed = 0 /\ position = 0 /\ indicators = empty
  /\ batch = [e \in Engines |-> <<>>] /\ prepared = [p \in Placers |-> <<>>]
  /\ passed = {} /\ orders = <<>> /\ polls = 0 /\ placings = 0 /\ mishaps = {}

BarCloses ==
  /\ Len(bars) < MaxBars
  /\ \E bar \in Bars : Closed!PublishBar(bar)
  /\ UNCHANGED <<engineVars, placerVars, mishaps>>

\* consume_and_calculate_once polls from the committed offset.
Poll(e) ==
  /\ batch[e] = <<>> /\ polls < MaxPolls
  /\ \E n \in 1..MaxBatch :
       /\ committed + n <= Len(bars)
       /\ batch' = [batch EXCEPT ![e] = poll(bars, committed, n)]
       /\ position' = committed + n
  /\ mishaps' = mishaps \cup (IF \E f \in Engines \ {e} : batch[f] # <<>>
                              THEN {"overlapped"} ELSE {})
  /\ polls' = polls + 1
  /\ UNCHANGED <<bars, committed, indicators, placerVars>>

MutantCommit ==
  /\ committed < position
  /\ committed' = position + 1
  /\ UNCHANGED <<bars, position, batch, indicators, polls, placerVars, mishaps>>
Commit ==
  /\ committed < position
  /\ committed' = position
  /\ UNCHANGED <<bars, position, batch, indicators, polls, placerVars, mishaps>>

\* Publish, cache and upsert the indicator of one record.
MutantCalculate(e) ==
  /\ batch[e] # <<>>
  /\ LET bar == Head(batch[e]).value IN
       indicators' = IF keyOf(bar) \in DOMAIN indicators THEN indicators
                     ELSE put(indicators, keyOf(bar), indicatorOf(bar))
  /\ batch' = [batch EXCEPT ![e] = Tail(@)]
  /\ UNCHANGED <<bars, committed, position, polls, placerVars, mishaps>>
Calculate(e) ==
  /\ batch[e] # <<>>
  /\ LET bar == Head(batch[e]).value IN
       indicators' = put(indicators, keyOf(bar), indicatorOf(bar))
  /\ batch' = [batch EXCEPT ![e] = Tail(@)]
  /\ UNCHANGED <<bars, committed, position, polls, placerVars, mishaps>>

\* Publishing, caching or storing raises, or the process ends: the rest of the
\* batch is dropped.
Fail(e) ==
  /\ batch[e] # <<>>
  /\ batch' = [batch EXCEPT ![e] = <<>>]
  /\ mishaps' = mishaps \cup {"failed"}
  /\ UNCHANGED <<bars, committed, position, indicators, polls, placerVars>>

\* place_first_prepared_order_once: prepare_once reads the table and goes
\* through strategy and risk.  Without an order the response is "empty".
Prepare(p) ==
  /\ prepared[p] = <<>> /\ placings < MaxPlacings
  /\ \E rows \in fetches(indicators) :
       prepared' = [prepared EXCEPT ![p] = ordersOf(approved(signals(indicators, rows)))]
  /\ prepared'[p] # <<>>
  /\ placings' = placings + 1
  /\ UNCHANGED <<bars, engineVars, passed, orders, mishaps>>

\* _find_duplicate_order_id, among the orders of the execution service.
first(p) == Head(prepared[p])
known(key) == \E i \in 1..Len(orders) : orders[i].key = key

MutantCheckDuplicate(p) ==
  /\ prepared[p] # <<>> /\ p \notin passed
  /\ IF \E i \in 1..Len(orders) : orders[i].key = first(p) /\ orders[i].accepted
     THEN prepared' = [prepared EXCEPT ![p] = <<>>] /\ UNCHANGED <<passed, mishaps>>
     ELSE /\ passed' = passed \cup {p}
          /\ mishaps' = mishaps \cup (IF passed # {} THEN {"raced"} ELSE {})
          /\ UNCHANGED prepared
  /\ UNCHANGED <<bars, engineVars, orders, placings>>
\* submit_order_request of the first of them.  An order of its key answers it.
CheckDuplicate(p) ==
  /\ prepared[p] # <<>> /\ p \notin passed
  /\ IF known(first(p))
     THEN prepared' = [prepared EXCEPT ![p] = <<>>] /\ UNCHANGED <<passed, mishaps>>
     ELSE /\ passed' = passed \cup {p}
          /\ mishaps' = mishaps \cup (IF passed # {} THEN {"raced"} ELSE {})
          /\ UNCHANGED prepared
  /\ UNCHANGED <<bars, engineVars, orders, placings>>

\* The execution risk guard refuses it, or it is recorded, and accepted by the
\* broker or not.
Submit(p) ==
  /\ p \in passed
  /\ \/ UNCHANGED orders
     \/ \E yes \in BOOLEAN : orders' = Append(orders, [key |-> first(p), accepted |-> yes])
  /\ prepared' = [prepared EXCEPT ![p] = <<>>]
  /\ passed' = passed \ {p}
  /\ UNCHANGED <<bars, engineVars, placings, mishaps>>

Next ==
  \/ BarCloses \/ Commit
  \/ \E e \in Engines : Poll(e) \/ Calculate(e) \/ Fail(e)
  \/ \E p \in Placers : Prepare(p) \/ CheckDuplicate(p) \/ Submit(p)

Spec == Init /\ [][Next]_vars

-----------------------------------------------------------------------------
(* Properties *)

\* Every variable has its type.
TypeOK ==
  /\ \A i \in 1..Len(bars) : bars[i] \in Bars
  /\ committed \in 0..Len(bars) /\ position \in committed..Len(bars)
  /\ \A e \in Engines : \A i \in 1..Len(batch[e]) :
       batch[e][i] \in [offset : 1..Len(bars), value : Bars]
  /\ DOMAIN indicators \subseteq Symbols \X (0..MaxMinute)
  /\ \A k \in DOMAIN indicators : indicators[k] \in {Averages[c] : c \in Closes}
  /\ \A p \in Placers : \A i \in 1..Len(prepared[p]) :
       prepared[p][i] \in Symbols \X (0..MaxMinute) \X Sides
  /\ \A i \in 1..Len(orders) :
       orders[i] \in [key : Symbols \X (0..MaxMinute) \X Sides, accepted : BOOLEAN]
  /\ polls \in 0..MaxPolls /\ placings \in 0..MaxPlacings
  /\ \A p \in passed : p \in Placers /\ prepared[p] # <<>>
  /\ mishaps \subseteq {"overlapped", "failed", "raced"}

versions(key) == {bars[i] : i \in {j \in 1..Len(bars) : keyOf(bars[j]) = key}}

\* However often bars are delivered again, and in whatever versions: when one
\* request at a time has gone to the end of the topic and none failed, the row
\* of a bar is the one of its latest version.
IndicatorsConverge ==
  mishaps \subseteq {"raced"} /\ position = Len(bars) /\ (\A e \in Engines : batch[e] = <<>>) =>
    \A i \in 1..Len(bars) :
      (\A j \in i + 1..Len(bars) : keyOf(bars[j]) # keyOf(bars[i])) =>
        /\ keyOf(bars[i]) \in DOMAIN indicators
        /\ indicators[keyOf(bars[i])] = indicatorOf(bars[i])

\* Through engine, strategy and risk, and the time between reading the table
\* and submitting: an order is for a bar that was closed, on the side to which
\* a version of that bar leaned.
OrdersFromBars ==
  \A i \in 1..Len(orders) : LET k == orders[i].key IN
    \E bar \in versions(<<k[1], k[2]>>) : lean(indicatorOf(bar)) = k[3]

\* An order that was refused still has its key: a bar gets two orders only when
\* it was published in versions that lean to both sides, or when two requests
\* were between the lookup of their key and the record of their order together.
OneOrderPerBar ==
  "raced" \notin mishaps =>
  \A i, j \in 1..Len(orders) :
    LET k == orders[i].key
        l == orders[j].key
    IN i # j /\ k[1] = l[1] /\ k[2] = l[2] =>
         Cardinality({lean(indicatorOf(bar)) : bar \in versions(<<k[1], k[2]>>)}) > 1

\* Every request to place reads the whole table and submits the oldest signal
\* only: while the bars come one a minute and the engine takes them in order,
\* the pipeline places one order, ever, and answers "duplicate" after it.
OnlyFirstSignalPlaced ==
  /\ mishaps = {}
  /\ \A i, j \in 1..Len(bars) : i < j => bars[i].minute < bars[j].minute
  => Len(orders) <= 1
=============================================================================
