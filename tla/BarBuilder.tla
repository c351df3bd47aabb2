----------------------------- MODULE BarBuilder -----------------------------
(***************************************************************************)
(* The bar builder (services/bar_builder/app) behind the gateway: every    *)
(* request to consume polls some ticks and, for each of them, closes the   *)
(* open bars of earlier minutes, which publishes, caches and stores them,  *)
(* and then adds the tick to the open bar of its own minute.  The open     *)
(* bars are in memory, shared by the requests of the process; the rest is  *)
(* in Kafka, Redis and Postgres.                                           *)
(*                                                                         *)
(* Kafka commits the offsets of a group when it chooses, up to what was    *)
(* polled (enable_auto_commit), and every request has a consumer of its    *)
(* own, which starts from the committed offset.  Any call may raise, and   *)
(* the process may end.  A bar keeps the offsets of the ticks it was built *)
(* from: no field of the code, it is what the properties compare it with.  *)
(* The topic bars_1m has no reader and is left out, as is the exchange,    *)
(* which every tick has in common, and the revision, which is always 1.    *)
(***************************************************************************)
EXTENDS MarketDataGateway, Loops

CONSTANTS
  Builders,    \* the requests to consume that may be under way together
  MaxBatch,    \* max_records of a poll
  MaxRestarts, \* bound on the restarts of the bar builder
  MaxPolls,    \* bound on the requests to consume that find ticks
  Disturbances \* what may go wrong: see Mishaps

Mishaps == {"redelivered", "failed", "restarted", "overlapped"}

ASSUME BuilderAssumption ==
  /\ MaxBatch \in Nat \ {0} /\ MaxRestarts \in Nat /\ MaxPolls \in Nat
  /\ Disturbances \subseteq Mishaps

VARIABLES
  committed, \* the offset Kafka keeps for the group
  delivered, \* the highest offset polled so far
  open,      \* the open bars, a dictionary in the order of insertion
  closed,    \* the topic of closed bars
  rows,      \* table closed_bars_1m: symbol and minute -> bar
  cache,     \* Redis: open or closed, and symbol -> bar
  pc,        \* where each request is
  batch,     \* the records it has still to build from
  closing,   \* the keys of the bars it has still to close
  bar,       \* the bar in its hands, in a sequence
  polls, restarts,
  mishaps    \* what went wrong so far (kept for the properties only)

builderVars == <<committed, delivered, open, closed, rows, cache, pc, batch,
                 closing, bar, polls, restarts, mishaps>>
vars == <<gatewayVars, builderVars>>

tick(b) == Head(batch[b]).value

-----------------------------------------------------------------------------
(* Bars *)

keyOf(event) == <<event.symbol, event.minute>>

createBar(record) ==
  LET p == record.value.price IN
    [symbol |-> record.value.symbol, minute |-> record.value.minute,
     open |-> p, high |-> p, low |-> p, close |-> p, volume |-> 1,
     ticks |-> <<record.offset>>]

larger(x, y) == IF x > y THEN x ELSE y
smaller(x, y) == IF x < y THEN x ELSE y

MutantUpdateBar(old, record) ==
  [old EXCEPT !.high = record.value.price, !.low = smaller(@, record.value.price),
              !.close = record.value.price, !.volume = @ + 1,
              !.ticks = Append(@, record.offset)]
updateBar(old, record) ==
  [old EXCEPT !.high = larger(@, record.value.price),
              !.low = smaller(@, record.value.price),
              !.close = record.value.price, !.volume = @ + 1,
              !.ticks = Append(@, record.offset)]

\* The dictionary of open bars: get, pop and set.
get(key) == Chosen(open, {n \in DOMAIN open : keyOf(open[n]) = key})
without(key) == Chosen(open, {n \in DOMAIN open : keyOf(open[n]) # key})
with(new) ==
  IF get(keyOf(new)) = <<>> THEN Append(open, new)
  ELSE [i \in 1..Len(open) |-> IF keyOf(open[i]) = keyOf(new) THEN new ELSE open[i]]

-----------------------------------------------------------------------------
(* Requests to consume *)

Goto(b, step) == pc' = [pc EXCEPT ![b] = step]

Init ==
  /\ GatewayInit
  /\ committed = 0 /\ delivered = 0 /\ open = <<>> /\ closed = <<>>
  /\ rows = empty /\ cache = empty
  /\ pc = [b \in Builders |-> "idle"] /\ batch = [b \in Builders |-> <<>>]
  /\ closing = [b \in Builders |-> <<>>] /\ bar = [b \in Builders |-> <<>>]
  /\ polls = 0 /\ restarts = 0 /\ mishaps = {}

\* What is wrong with a poll now: it delivers ticks again, or it is made while
\* another request is building.
wrongWithPoll(b) ==
  {m \in Mishaps : \/ m = "redelivered" /\ committed < delivered
                   \/ m = "overlapped" /\ \E c \in Builders \ {b} : pc[c] # "idle"}

\* consume_and_build_once polls through a new consumer of the group.
Poll(b) ==
  /\ pc[b] = "idle" /\ polls < MaxPolls
  /\ wrongWithPoll(b) \subseteq Disturbances
  /\ \E n \in 1..smaller(MaxBatch, Len(ticks) - committed) :
       /\ batch' = [batch EXCEPT ![b] = poll(ticks, committed, n)]
       /\ delivered' = larger(delivered, committed + n)
  /\ mishaps' = mishaps \cup wrongWithPoll(b)
  /\ polls' = polls + 1
  /\ Goto(b, "scan")
  /\ UNCHANGED <<gatewayVars, committed, open, closed, rows, cache, closing,
                 bar, restarts>>

\* Kafka commits the position of the last consumer, which is the end of what it
\* polled, at a time of its own, before or after the ticks are built from.
Commit ==
  /\ committed < delivered
  /\ committed' = delivered
  /\ UNCHANGED <<gatewayVars, delivered, open, closed, rows, cache, pc, batch,
                 closing, bar, polls, restarts, mishaps>>

\* _close_completed_bars: the keys of the bars of earlier minutes, of every
\* symbol.
MutantScan(b) ==
  /\ pc[b] = "scan"
  /\ closing' = [closing EXCEPT ![b] =
                   LET old == Chosen(open, {n \in DOMAIN open : open[n].minute <= tick(b).minute})
                   IN [i \in 1..Len(old) |-> keyOf(old[i])]]
  /\ Goto(b, "pop")
  /\ UNCHANGED <<gatewayVars, committed, delivered, open, closed, rows, cache,
                 batch, bar, polls, restarts, mishaps>>
Scan(b) ==
  /\ pc[b] = "scan"
  /\ closing' = [closing EXCEPT ![b] =
                   LET old == Chosen(open, {n \in DOMAIN open : open[n].minute < tick(b).minute})
                   IN [i \in 1..Len(old) |-> keyOf(old[i])]]
  /\ Goto(b, "pop")
  /\ UNCHANGED <<gatewayVars, committed, delivered, open, closed, rows, cache,
                 batch, bar, polls, restarts, mishaps>>

MutantPop(b) ==
  /\ pc[b] = "pop" /\ closing[b] # <<>>
  /\ bar' = [bar EXCEPT ![b] = get(Head(closing[b]))]
  /\ open' = without(Head(closing[b]))
  /\ closing' = [closing EXCEPT ![b] = Tail(@)]
  /\ Goto(b, "publish")
  /\ UNCHANGED <<gatewayVars, committed, delivered, closed, rows, cache, batch,
                 polls, restarts, mishaps>>
\* Pop the next of them; one that another request has popped is passed over.
Pop(b) ==
  /\ pc[b] = "pop" /\ closing[b] # <<>>
  /\ bar' = [bar EXCEPT ![b] = get(Head(closing[b]))]
  /\ open' = without(Head(closing[b]))
  /\ closing' = [closing EXCEPT ![b] = Tail(@)]
  /\ Goto(b, IF bar'[b] = <<>> THEN "pop" ELSE "publish")
  /\ UNCHANGED <<gatewayVars, committed, delivered, closed, rows, cache, batch,
                 polls, restarts, mishaps>>

MutantPublishClosed(b) ==
  /\ pc[b] = "publish"
  /\ closed' = closed
  /\ Goto(b, "cache_closed")
  /\ UNCHANGED <<gatewayVars, committed, delivered, open, rows, cache, batch,
                 closing, bar, polls, restarts, mishaps>>
PublishClosed(b) ==
  /\ pc[b] = "publish"
  /\ closed' = publish(closed, bar[b][1])
  /\ Goto(b, "cache_closed")
  /\ UNCHANGED <<gatewayVars, committed, delivered, open, rows, cache, batch,
                 closing, bar, polls, restarts, mishaps>>

CacheClosed(b) ==
  /\ pc[b] = "cache_closed"
  /\ cache' = put(cache, <<"closed", bar[b][1].symbol>>, bar[b][1])
  /\ Goto(b, "upsert")
  /\ UNCHANGED <<gatewayVars, committed, delivered, open, closed, rows, batch,
                 closing, bar, polls, restarts, mishaps>>

MutantUpsertClosed(b) ==
  /\ pc[b] = "upsert"
  /\ rows' = put(rows, <<bar[b][1].symbol, tick(b).minute>>, bar[b][1])
  /\ bar' = [bar EXCEPT ![b] = <<>>]
  /\ Goto(b, "pop")
  /\ UNCHANGED <<gatewayVars, committed, delivered, open, closed, cache, batch,
                 closing, polls, restarts, mishaps>>
UpsertClosed(b) ==
  /\ pc[b] = "upsert"
  /\ rows' = put(rows, keyOf(bar[b][1]), bar[b][1])
  /\ bar' = [bar EXCEPT ![b] = <<>>]
  /\ Goto(b, "pop")
  /\ UNCHANGED <<gatewayVars, committed, delivered, open, closed, cache, batch,
                 closing, polls, restarts, mishaps>>

\* After the last of them, the bar of the tick: a new one, or the open one with
\* the tick added.
Build(b) ==
  /\ pc[b] = "pop" /\ closing[b] = <<>>
  /\ LET old == get(keyOf(tick(b))) IN
       bar' = [bar EXCEPT ![b] =
                 <<IF old = <<>> THEN createBar(Head(batch[b]))
                   ELSE updateBar(old[1], Head(batch[b]))>>]
  /\ Goto(b, "write")
  /\ UNCHANGED <<gatewayVars, committed, delivered, open, closed, rows, cache,
                 batch, closing, polls, restarts, mishaps>>

MutantStoreOpen(b) ==
  /\ pc[b] = "write"
  /\ open' = with(bar[b][1])
  /\ rows' = put(rows, keyOf(bar[b][1]), bar[b][1])
  /\ Goto(b, "cache_open")
  /\ UNCHANGED <<gatewayVars, committed, delivered, closed, cache, batch,
                 closing, bar, polls, restarts, mishaps>>
MutantSetOpen(b) ==
  /\ pc[b] = "write"
  /\ open' = Append(open, bar[b][1])
  /\ Goto(b, "cache_open")
  /\ UNCHANGED <<gatewayVars, committed, delivered, closed, rows, cache, batch,
                 closing, bar, polls, restarts, mishaps>>
SetOpen(b) ==
  /\ pc[b] = "write"
  /\ open' = with(bar[b][1])
  /\ Goto(b, "cache_open")
  /\ UNCHANGED <<gatewayVars, committed, delivered, closed, rows, cache, batch,
                 closing, bar, polls, restarts, mishaps>>

\* publish_bar and cache_open_bar; then the next record, or the end.
CacheOpen(b) ==
  /\ pc[b] = "cache_open"
  /\ cache' = put(cache, <<"open", bar[b][1].symbol>>, bar[b][1])
  /\ bar' = [bar EXCEPT ![b] = <<>>]
  /\ batch' = [batch EXCEPT ![b] = Tail(@)]
  /\ Goto(b, IF batch'[b] = <<>> THEN "idle" ELSE "scan")
  /\ UNCHANGED <<gatewayVars, committed, delivered, open, closed, rows,
                 closing, polls, restarts, mishaps>>

Fresh(bs) ==
  /\ pc' = [b \in Builders |-> IF b \in bs THEN "idle" ELSE pc[b]]
  /\ batch' = [b \in Builders |-> IF b \in bs THEN <<>> ELSE batch[b]]
  /\ closing' = [b \in Builders |-> IF b \in bs THEN <<>> ELSE closing[b]]
  /\ bar' = [b \in Builders |-> IF b \in bs THEN <<>> ELSE bar[b]]

\* A call of the request raises: it ends with its work as it is.
Fail(b) ==
  /\ "failed" \in Disturbances /\ pc[b] # "idle"
  /\ Fresh({b})
  /\ mishaps' = mishaps \cup {"failed"}
  /\ UNCHANGED <<gatewayVars, committed, delivered, open, closed, rows, cache,
                 polls, restarts>>

\* The process ends, as the one-shot of stub mode always does, and its open
\* bars with it.
Restart ==
  /\ "restarted" \in Disturbances /\ restarts < MaxRestarts
  /\ Fresh(Builders)
  /\ open' = <<>>
  /\ restarts' = restarts + 1
  /\ mishaps' = mishaps \cup {"restarted"}
  /\ UNCHANGED <<gatewayVars, committed, delivered, closed, rows, cache, polls>>

Step(b) == \/ Scan(b) \/ Pop(b) \/ PublishClosed(b) \/ CacheClosed(b)
           \/ UpsertClosed(b) \/ Build(b) \/ SetOpen(b) \/ CacheOpen(b)

Next ==
  \/ GatewayNext /\ UNCHANGED builderVars
  \/ \E b \in Builders : Poll(b) \/ Step(b) \/ Fail(b)
  \/ Commit \/ Restart

Spec == Init /\ [][Next]_vars
-----------------------------------------------------------------------------
(* Properties *)

Bar == [symbol : Symbols, minute : 0..MaxMinute, open : Prices, high : Prices,
        low : Prices, close : Prices, volume : Nat \ {0},
        ticks : Seq(1..MaxTicks) \ {<<>>}]
keys == Symbols \X (0..MaxMinute)
Records == [offset : 1..MaxTicks, value : Ticks]
bars(s) == {s[i] : i \in 1..Len(s)}

\* Every variable has its type; a request that is not closing or building holds
\* no bar.
TypeOK ==
  /\ bars(ticks) \subseteq Ticks /\ minute \in 0..MaxMinute
  /\ \A g \in Feeds : bars(left[g]) \subseteq Symbols /\ bars(sending[g]) \subseteq Ticks
  /\ committed \in 0..delivered /\ delivered \in 0..Len(ticks)
  /\ bars(open) \cup bars(closed) \subseteq Bar
  /\ DOMAIN rows \subseteq keys /\ \A k \in DOMAIN rows : rows[k] \in Bar /\ keyOf(rows[k]) = k
  /\ DOMAIN cache \subseteq {"open", "closed"} \X Symbols
  /\ \A k \in DOMAIN cache : cache[k] \in Bar /\ cache[k].symbol = k[2]
  /\ pc \in [Builders -> {"idle", "scan", "pop", "publish", "cache_closed",
                           "upsert", "write", "cache_open"}]
  /\ \A b \in Builders :
       /\ bars(batch[b]) \subseteq Records /\ bars(closing[b]) \subseteq keys
       /\ bars(bar[b]) \subseteq Bar
       /\ (batch[b] = <<>>) <=> (pc[b] = "idle")
       /\ (bar[b] # <<>>) <=>
            (pc[b] \in {"publish", "cache_closed", "upsert", "write", "cache_open"})
  /\ mishaps \subseteq Disturbances

\* The bars taken off the open ones and not yet published.
inHand == {bar[b][1] : b \in {c \in Builders : pc[c] = "publish"}}

\* What create_bar_from_tick and update_existing_bar make of a minute's ticks,
\* one at a time and with the bar passed through memory, topic, cache and
\* table, is their aggregate: of its own symbol and minute, opened by the first
\* and closed by the last, between their extremes, with a share of each.
BarsAreAggregates ==
  \A x \in bars(open) \cup bars(closed) \cup inHand
           \cup {rows[k] : k \in DOMAIN rows} \cup {cache[k] : k \in DOMAIN cache} :
    LET used == bars(x.ticks)
        prices == {ticks[i].price : i \in used}
    IN /\ \A i \in used : keyOf(ticks[i]) = keyOf(x)
       /\ x.open = ticks[x.ticks[1]].price
       /\ x.close = ticks[x.ticks[Len(x.ticks)]].price
       /\ {x.high, x.low} \subseteq prices
       /\ \A p \in prices : x.low <= p /\ p <= x.high
       /\ x.volume = Len(x.ticks)

\* Nothing failed, restarted or overlapped: every tick that was polled is in an
\* open or a published bar, or still with the request that polled it.  Closing
\* pops the bar before it publishes it, and the batch is lost with its request.
NoTickLost ==
  mishaps \subseteq {"redelivered"} =>
    \A i \in 1..delivered :
      \/ \E b \in Builders : \E r \in bars(batch[b]) : r.offset = i
      \/ \E x \in bars(open) \cup bars(closed) \cup inHand : i \in bars(x.ticks)

\* Nothing was delivered again and no requests overlapped: no tick is counted
\* twice, in one bar or in two, through failures and restarts.
NoTickTwice ==
  mishaps \subseteq {"failed", "restarted"} =>
    LET all == closed \o open IN
      \A i, j \in 1..Len(all) :
        \A m \in 1..Len(all[i].ticks), n \in 1..Len(all[j].ticks) :
          all[i].ticks[m] = all[j].ticks[n] => i = j /\ m = n

\* With ticks in the order of time and nothing wrong, the closed bar of a minute
\* has all of its ticks, those a request still holds and those yet to be polled
\* included: nobody closes a minute too early.
ClosedBarIsComplete ==
  InOrder /\ mishaps = {} =>
    \A k \in DOMAIN rows :
      bars(rows[k].ticks) = {i \in 1..Len(ticks) : keyOf(ticks[i]) = k}

\* The topic, the table and the cache of closed bars are written one after the
\* other: when no call has failed they agree whenever no request is between
\* them, whatever was delivered twice or late.
SinksAgree ==
  /\ mishaps \subseteq {"redelivered"}
  /\ \A b \in Builders : pc[b] \notin {"cache_closed", "upsert"}
  => \A n \in 1..Len(closed) :
       /\ (\A m \in n + 1..Len(closed) : keyOf(closed[m]) # keyOf(closed[n])) =>
            /\ keyOf(closed[n]) \in DOMAIN rows
            /\ rows[keyOf(closed[n])] = closed[n]
       /\ (\A m \in n + 1..Len(closed) : closed[m].symbol # closed[n].symbol) =>
            /\ <<"closed", closed[n].symbol>> \in DOMAIN cache
            /\ cache[<<"closed", closed[n].symbol>>] = closed[n]

\* What the repository writes about a minute it has written before is the same
\* bar, as long as ticks come in the order of time and once, whatever fails.
ClosedBarStays ==
  [][InOrder' /\ mishaps' \subseteq {"failed", "restarted"} =>
       \A k \in DOMAIN rows : rows'[k] = rows[k]]_vars

\* Downstream sees no more of all this than ClosedBars says.
Published == INSTANCE ClosedBars WITH topic <- closed, table <- rows
ImplementsClosedBars == Published!Spec
=============================================================================
