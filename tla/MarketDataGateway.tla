-------------------------- MODULE MarketDataGateway --------------------------
(***************************************************************************)
(* The market data gateway (services/market_data_gateway/app): a request   *)
(* to emit goes through the subscribed symbols, stamps a tick for each     *)
(* with the clock and publishes it.  Requests overlap, so a tick may be    *)
(* stamped before another and published after it.  The price is whatever   *)
(* the feed says: the stub feed stands for a real one.  Caching the tick   *)
(* in Redis, which nothing reads, is only one more place to fail.          *)
(***************************************************************************)
EXTENDS SharedClients

CONSTANTS
  Feeds,       \* the requests to emit that may be under way together
  SymbolList,  \* mdg_symbol_list, in order
  Quotes,      \* the prices a request may get from its feed
  MaxMinute,   \* bound on the clock
  MaxTicks     \* bound on the ticks published

VARIABLES
  ticks,   \* the topic of ticks
  minute,  \* the clock
  left,    \* the symbols a request still has to emit
  sending  \* the stamped tick a request is publishing, in a sequence

gatewayVars == <<ticks, minute, left, sending>>

Prices == UNION {Quotes[g] : g \in Feeds}
Symbols == {SymbolList[i] : i \in 1..Len(SymbolList)}
Ticks == [symbol : Symbols, minute : 0..MaxMinute, price : Prices]

ASSUME GatewayAssumption ==
  /\ SymbolList \in Seq(Symbols) \ {<<>>} /\ Quotes \in [Feeds -> (SUBSET Int) \ {{}}]
  /\ MaxMinute \in Nat /\ MaxTicks \in Nat

GatewayInit ==
  /\ ticks = <<>> /\ minute = 0
  /\ left = [g \in Feeds |-> <<>>] /\ sending = [g \in Feeds |-> <<>>]

\* A request builds a gateway of its own and goes through the symbols:
\* next_price, next_trade_time and normalize_tick give the tick the minute in
\* which it is stamped.
toEmit(g) == IF left[g] = <<>> THEN SymbolList ELSE left[g]

Stamp(g) ==
  /\ sending[g] = <<>> /\ Len(ticks) < MaxTicks
  /\ \E price \in Quotes[g] :
       sending' = [sending EXCEPT ![g] =
                     <<[symbol |-> Head(toEmit(g)), minute |-> minute, price |-> price]>>]
  /\ left' = [left EXCEPT ![g] = toEmit(g)]
  /\ UNCHANGED <<ticks, minute>>

PublishTick(g) ==
  /\ sending[g] # <<>> /\ Len(ticks) < MaxTicks
  /\ ticks' = publish(ticks, Head(sending[g]))
  /\ sending' = [sending EXCEPT ![g] = <<>>]
  /\ left' = [left EXCEPT ![g] = Tail(@)]
  /\ UNCHANGED minute

\* Publishing or caching raises and ends the request, whose remaining symbols
\* get no tick.
EmitFails(g) ==
  /\ left[g] # <<>>
  /\ left' = [left EXCEPT ![g] = <<>>]
  /\ sending' = [sending EXCEPT ![g] = <<>>]
  /\ UNCHANGED <<ticks, minute>>

MinutePasses ==
  /\ minute < MaxMinute
  /\ minute' = minute + 1
  /\ UNCHANGED <<ticks, left, sending>>

GatewayNext ==
  \/ \E g \in Feeds : Stamp(g) \/ PublishTick(g) \/ EmitFails(g)
  \/ MinutePasses

\* The topic of ticks is in the order of time, as one feed makes it.
InOrder == \A i, j \in 1..Len(ticks) : i < j => ticks[i].minute <= ticks[j].minute
=============================================================================
