-------------------------- MODULE BarBuilderProofs --------------------------
(***************************************************************************)
(* The bar builder for every number of gateways and requests, symbol list, *)
(* batch size and disturbance: its types, what becomes of each tick, the   *)
(* sinks of closed bars, and that it implements ClosedBars.                *)
(***************************************************************************)
(* Ticks are followed through the places a bar may be in (Placed): among   *)
(* the open ones, in the hands of the request that has popped it, in the   *)
(* topic.  A step moves bars between places, drops them, or adds one tick  *)
(* to one of them; the counting properties are kept by each of the three.  *)
(***************************************************************************)
EXTENDS BarBuilder, LoopProofs

\* The topic is a sequence (of its own elements), and a request that has
\* published a bar and not yet stored it holds a bar of the topic.
PublishedInHand ==
  /\ DOMAIN pc = Builders /\ DOMAIN bar = Builders
  /\ closed \in Seq(bars(closed))
  /\ \A b \in Builders :
       pc[b] \in {"cache_closed", "upsert"} =>
         \E n \in 1..Len(closed) : closed[n] = bar[b][1]

\* Publishing keeps a topic a sequence, and keeps what was in it.
LEMMA PublishGrows ==
  ASSUME NEW topic, NEW x, topic \in Seq(bars(topic))
  PROVE  /\ publish(topic, x) \in Seq(bars(publish(topic, x)))
         /\ Len(publish(topic, x)) = Len(topic) + 1
         /\ publish(topic, x)[Len(topic) + 1] = x
         /\ \A n \in 1..Len(topic) : publish(topic, x)[n] = topic[n]
<1> DEFINE All == bars(topic) \cup {x}
<1>1. topic \in Seq(All)
  OBVIOUS
<1>2. /\ Append(topic, x) \in Seq(All)
      /\ Len(Append(topic, x)) = Len(topic) + 1
      /\ Append(topic, x)[Len(topic) + 1] = x
      /\ \A n \in 1..Len(topic) : Append(topic, x)[n] = topic[n]
  BY <1>1
<1>3. All \subseteq bars(Append(topic, x))
  BY <1>2 DEF bars
<1>4. Append(topic, x) \in Seq(bars(Append(topic, x)))
  BY <1>2, <1>3
<1> QED
  BY <1>2, <1>4 DEF publish

\* Every step leaves in the hands of every request a bar of the topic.
LEMMA PublishedInHandKept ==
  ASSUME PublishedInHand, [Next]_vars
  PROVE  PublishedInHand'
<1> USE DEF PublishedInHand
<1>1. CASE UNCHANGED vars
  BY <1>1 DEF vars, gatewayVars, builderVars, bars
<1>2. CASE GatewayNext /\ UNCHANGED builderVars
  BY <1>2 DEF builderVars, bars
<1>3. ASSUME NEW b \in Builders, Poll(b)
      PROVE  PublishedInHand'
  BY <1>3 DEF Poll, Goto, bars
<1>4. ASSUME NEW b \in Builders, Scan(b)
      PROVE  PublishedInHand'
  BY <1>4 DEF Scan, Goto, bars
<1>5. ASSUME NEW b \in Builders, Pop(b)
      PROVE  PublishedInHand'
  <2>1. pc'[b] \in {"pop", "publish"}
    BY <1>5 DEF Pop, Goto
  <2>2. QED
    BY <1>5, <2>1 DEF Pop, Goto, bars
<1>6. ASSUME NEW b \in Builders, PublishClosed(b)
      PROVE  PublishedInHand'
  <2>1. closed' = publish(closed, bar[b][1]) /\ bar' = bar
        /\ pc' = [pc EXCEPT ![b] = "cache_closed"]
    BY <1>6 DEF PublishClosed, Goto
  <2>2. /\ closed' \in Seq(bars(closed'))
        /\ Len(closed') = Len(closed) + 1
        /\ closed'[Len(closed) + 1] = bar[b][1]
        /\ \A n \in 1..Len(closed) : closed'[n] = closed[n]
    BY <2>1, PublishGrows
  <2>3. Len(closed) \in Nat
    OBVIOUS
  <2>4. ASSUME NEW c \in Builders, pc'[c] \in {"cache_closed", "upsert"}
        PROVE  \E n \in 1..Len(closed') : closed'[n] = bar'[c][1]
    <3>1. CASE c = b
      BY <3>1, <2>1, <2>2, <2>3
    <3>2. CASE c # b
      <4>1. PICK n \in 1..Len(closed) : closed[n] = bar[c][1]
        BY <3>2, <2>1, <2>4
      <4>2. n \in 1..Len(closed') /\ closed'[n] = bar'[c][1]
        BY <4>1, <2>1, <2>2, <2>3
      <4>3. QED
        BY <4>2
    <3>3. QED
      BY <3>1, <3>2
  <2>5. QED
    BY <2>1, <2>2, <2>4 DEF bars
<1>7. ASSUME NEW b \in Builders, CacheClosed(b)
      PROVE  PublishedInHand'
  BY <1>7 DEF CacheClosed, Goto, bars
<1>8. ASSUME NEW b \in Builders, UpsertClosed(b)
      PROVE  PublishedInHand'
  BY <1>8 DEF UpsertClosed, Goto, bars
<1>9. ASSUME NEW b \in Builders, Build(b)
      PROVE  PublishedInHand'
  <2>1. /\ pc' = [pc EXCEPT ![b] = "write"] /\ closed' = closed
        /\ DOMAIN bar' = Builders /\ \A c \in Builders \ {b} : bar'[c] = bar[c]
    BY <1>9 DEF Build, Goto
  <2>2. QED
    BY <2>1 DEF bars
<1>10. ASSUME NEW b \in Builders, SetOpen(b)
      PROVE  PublishedInHand'
  BY <1>10 DEF SetOpen, Goto, bars
<1>11. ASSUME NEW b \in Builders, CacheOpen(b)
      PROVE  PublishedInHand'
  <2>1. /\ pc'[b] \in {"idle", "scan"} /\ closed' = closed
        /\ DOMAIN pc' = Builders /\ DOMAIN bar' = Builders
        /\ \A c \in Builders \ {b} : bar'[c] = bar[c] /\ pc'[c] = pc[c]
    BY <1>11 DEF CacheOpen, Goto
  <2>2. QED
    BY <2>1 DEF bars
<1>12. ASSUME NEW b \in Builders, Fail(b)
      PROVE  PublishedInHand'
  BY <1>12 DEF Fail, Fresh, bars
<1>13. CASE Commit
  BY <1>13 DEF Commit, bars
<1>14. CASE Restart
  BY <1>14 DEF Restart, Fresh, bars
<1>15. QED
  BY <1>1, <1>2, <1>3, <1>4, <1>5, <1>6, <1>7, <1>8, <1>9, <1>10, <1>11, <1>12,
     <1>13, <1>14 DEF Next, Step

LEMMA PublishedInHandAtFirst == Init => PublishedInHand
BY DEF Init, PublishedInHand, bars

\* A step of the bar builder is, for those who read its closed bars, a bar
\* published, a row stored, or nothing.
LEMMA StepsImplement ==
  ASSUME PublishedInHand, [Next]_vars
  PROVE  [Published!Next]_Published!vars
<1> USE DEF Published!vars
<1>1. ASSUME NEW b \in Builders, PublishClosed(b)
      PROVE  Published!Next
  <2>1. closed' = publish(closed, bar[b][1]) /\ rows' = rows
    BY <1>1 DEF PublishClosed
  <2>2. Len(closed') = Len(closed) + 1 /\ closed'[Len(closed) + 1] = bar[b][1]
    BY <2>1, PublishGrows DEF PublishedInHand
  <2>3. QED
    BY <2>1, <2>2 DEF Published!Next, Published!Publish, Published!PublishBar,
                      Published!publish, publish
<1>2. ASSUME NEW b \in Builders, UpsertClosed(b)
      PROVE  Published!Next
  <2>1. PICK n \in 1..Len(closed) : closed[n] = bar[b][1]
    BY <1>2 DEF UpsertClosed, PublishedInHand
  <2>2. rows' = put(rows, <<closed[n].symbol, closed[n].minute>>, closed[n])
        /\ closed' = closed
    BY <1>2, <2>1 DEF UpsertClosed, keyOf
  <2>3. Published!StoreBar(closed[n])
    BY <2>2 DEF Published!StoreBar, Published!put, put
  <2>4. QED
    BY <2>3 DEF Published!Next, Published!Store
<1>3. ASSUME ~(\E b \in Builders : PublishClosed(b) \/ UpsertClosed(b))
      PROVE  UNCHANGED <<closed, rows>>
  BY <1>3 DEF Next, vars, gatewayVars, builderVars, Poll, Step, Scan, Pop,
     CacheClosed, Build, SetOpen, CacheOpen, Fail, Commit, Restart
<1>4. QED
  BY <1>1, <1>2, <1>3

\* The bar builder implements the specification of closed bars.
THEOREM BarsImplementClosedBars == Spec => ImplementsClosedBars
<1>1. Init => Published!Init
  BY DEF Init, Published!Init, Published!empty, empty
<1>2. PublishedInHand /\ [Next]_vars => PublishedInHand'
  BY PublishedInHandKept
<1>3. PublishedInHand /\ [Next]_vars => [Published!Next]_Published!vars
  BY StepsImplement
<1>4. QED
  BY <1>1, <1>2, <1>3, PublishedInHandAtFirst, PTL
     DEF Spec, ImplementsClosedBars, Published!Spec

-----------------------------------------------------------------------------
(***************************************************************************)
(* Types.                                                                  *)
(***************************************************************************)
Steps == {"idle", "scan", "pop", "publish", "cache_closed", "upsert", "write", "cache_open"}
Holding == {"publish", "cache_closed", "upsert", "write", "cache_open"}

GatewayTypes ==
  /\ ticks \in Seq(Ticks) /\ Len(ticks) <= MaxTicks /\ minute \in 0..MaxMinute
  /\ left \in [Feeds -> Seq(Symbols)] /\ sending \in [Feeds -> Seq(Ticks)]
  /\ \A g \in Feeds : sending[g] # <<>> => left[g] # <<>>
OffsetTypes ==
  /\ committed \in Nat /\ delivered \in Nat
  /\ committed <= delivered /\ delivered <= Len(ticks)
Table(t) == DOMAIN t \subseteq keys /\ \A k \in DOMAIN t : t[k] \in Bar /\ keyOf(t[k]) = k
Cache(c) == /\ DOMAIN c \subseteq {"open", "closed"} \X Symbols
            /\ \A k \in DOMAIN c : c[k] \in Bar /\ c[k].symbol = k[2]
SinkTypes == open \in Seq(Bar) /\ closed \in Seq(Bar) /\ Table(rows) /\ Cache(cache)
RequestTypes ==
  /\ pc \in [Builders -> Steps] /\ batch \in [Builders -> Seq(Records)]
  /\ closing \in [Builders -> Seq(keys)] /\ bar \in [Builders -> Seq(Bar)]
  /\ \A b \in Builders : /\ (batch[b] = <<>>) <=> (pc[b] = "idle")
                         /\ (bar[b] # <<>>) <=> (pc[b] \in Holding)
  /\ mishaps \subseteq Disturbances
Types == GatewayTypes /\ OffsetTypes /\ SinkTypes /\ RequestTypes

LEMMA TypesInit == Init => Types
<1>1. ASSUME Init
      PROVE  Types
  <2> USE <1>1 DEF Init, GatewayInit
  <2>1. GatewayTypes
    BY GatewayAssumption DEF GatewayTypes
  <2>2. OffsetTypes
    BY DEF OffsetTypes
  <2>3. SinkTypes
    BY DEF SinkTypes, Table, Cache, empty
  <2>4. RequestTypes
    BY DEF RequestTypes, Steps, Holding
  <2> QED
    BY <2>1, <2>2, <2>3, <2>4 DEF Types
<1> QED
  BY <1>1

\* The topic of ticks only grows.
Grown(t, u) == /\ Len(t) \in Nat /\ Len(u) \in Nat /\ Len(t) <= Len(u)
               /\ \A i \in 1..Len(t) : u[i] = t[i]

LEMMA GatewayStep ==
  ASSUME GatewayTypes, GatewayNext
  PROVE  GatewayTypes' /\ Grown(ticks, ticks')
<1> USE DEF GatewayTypes
<1>0. ticks \in Seq(Ticks) /\ Len(ticks) \in Nat /\ MaxTicks \in Nat
  BY GatewayAssumption
<1>1. ASSUME NEW g \in Feeds, Stamp(g)
      PROVE  GatewayTypes' /\ Grown(ticks, ticks')
  <2>1. toEmit(g) \in Seq(Symbols) /\ toEmit(g) # <<>>
    BY GatewayAssumption DEF toEmit
  <2>2. PICK price \in Quotes[g] :
          sending' = [sending EXCEPT ![g] =
                        <<[symbol |-> Head(toEmit(g)), minute |-> minute, price |-> price]>>]
    BY <1>1 DEF Stamp
  <2>3. Head(toEmit(g)) \in Symbols /\ price \in Prices
    BY <2>1 DEF Prices
  <2>4. PICK x : x = [symbol |-> Head(toEmit(g)), minute |-> minute, price |-> price]
    OBVIOUS
  <2>5. x \in Ticks
    BY <2>3, <2>4 DEF Ticks
  <2>6. <<x>> \in Seq(Ticks) /\ sending' = [sending EXCEPT ![g] = <<x>>]
    BY <2>2, <2>4, <2>5
  <2>7. left' = [left EXCEPT ![g] = toEmit(g)] /\ UNCHANGED <<ticks, minute>>
    BY <1>1 DEF Stamp
  <2>8. left' \in [Feeds -> Seq(Symbols)] /\ sending' \in [Feeds -> Seq(Ticks)]
    BY <2>1, <2>6, <2>7
  <2>9. \A f \in Feeds : sending'[f] # <<>> => left'[f] # <<>>
    BY <2>1, <2>6, <2>7
  <2> QED
    BY <2>7, <2>8, <2>9, <1>0 DEF Grown
<1>2. ASSUME NEW g \in Feeds, PublishTick(g)
      PROVE  GatewayTypes' /\ Grown(ticks, ticks')
  <2>1. sending[g] # <<>> /\ left[g] # <<>> /\ Len(ticks) < MaxTicks
        /\ ticks' = Append(ticks, Head(sending[g])) /\ sending' = [sending EXCEPT ![g] = <<>>]
        /\ left' = [left EXCEPT ![g] = Tail(@)] /\ minute' = minute
    BY <1>2 DEF PublishTick, publish
  <2>2. PICK x \in Ticks : x = Head(sending[g])
    BY <2>1
  <2>3. ticks' \in Seq(Ticks) /\ Len(ticks') = Len(ticks) + 1
        /\ \A i \in 1..Len(ticks) : ticks'[i] = ticks[i]
    BY <2>1, <2>2, <1>0
  <2>4. Tail(left[g]) \in Seq(Symbols) /\ <<>> \in Seq(Ticks)
    BY <2>1
  <2>5. left' \in [Feeds -> Seq(Symbols)] /\ sending' \in [Feeds -> Seq(Ticks)]
    BY <2>1, <2>4
  <2>6. \A f \in Feeds : sending'[f] # <<>> => left'[f] # <<>>
    BY <2>1
  <2> QED
    BY <2>1, <2>3, <2>5, <2>6, <1>0 DEF Grown
<1>3. ASSUME NEW g \in Feeds, EmitFails(g)
      PROVE  GatewayTypes' /\ Grown(ticks, ticks')
  BY <1>3, <1>0 DEF EmitFails, Grown
<1>4. ASSUME MinutePasses
      PROVE  GatewayTypes' /\ Grown(ticks, ticks')
  BY <1>4, <1>0, GatewayAssumption DEF MinutePasses, Grown
<1> QED
  BY <1>1, <1>2, <1>3, <1>4 DEF GatewayNext

LEMMA PriceNumbers == Prices \subseteq Int
BY GatewayAssumption DEF Prices

\* What is made of ticks is a bar.
LEMMA CreatedBar ==
  ASSUME NEW r \in Records
  PROVE  createBar(r) \in Bar /\ keyOf(createBar(r)) = keyOf(r.value)
<1>1. r.offset \in 1..MaxTicks /\ r.value \in Ticks
  BY DEF Records
<1>2. PICK v \in Ticks : v = r.value
  BY <1>1
<1>3. v.symbol \in Symbols /\ v.minute \in 0..MaxMinute /\ v.price \in Prices
  BY DEF Ticks
<1>4. <<r.offset>> \in Seq(1..MaxTicks) \ {<<>>}
  BY <1>1
<1> QED
  BY <1>2, <1>3, <1>4 DEF createBar, Bar, keyOf

LEMMA UpdatedBar ==
  ASSUME NEW old \in Bar, NEW r \in Records
  PROVE  updateBar(old, r) \in Bar /\ keyOf(updateBar(old, r)) = keyOf(old)
<1>1. r.offset \in 1..MaxTicks /\ r.value \in Ticks
  BY DEF Records
<1>2. PICK v \in Ticks : v = r.value
  BY <1>1
<1>3. PICK p \in Prices : p = v.price
  BY DEF Ticks
<1>4. old.high \in Prices /\ old.low \in Prices /\ old.volume \in Nat \ {0}
      /\ old.ticks \in Seq(1..MaxTicks) \ {<<>>}
  BY DEF Bar
<1>5. PICK o \in 1..MaxTicks : o = r.offset
  BY <1>1
<1>6. Append(old.ticks, o) \in Seq(1..MaxTicks) \ {<<>>}
  BY <1>4
<1>7. larger(old.high, p) \in Prices /\ smaller(old.low, p) \in Prices /\ old.volume + 1 \in Nat \ {0}
  BY <1>4 DEF larger, smaller
<1>8. updateBar(old, r) =
        [old EXCEPT !.high = larger(@, p), !.low = smaller(@, p), !.close = p,
                    !.volume = @ + 1, !.ticks = Append(@, o)]
  BY <1>2, <1>3, <1>5 DEF updateBar
<1> QED
  BY <1>3, <1>6, <1>7, <1>8 DEF Bar, keyOf

\* The dictionary of open bars.
LEMMA GetOpen ==
  ASSUME open \in Seq(Bar), NEW key
  PROVE  /\ get(key) \in Seq(Bar)
         /\ \A i \in 1..Len(get(key)) :
              \E n \in 1..Len(open) : keyOf(open[n]) = key /\ get(key)[i] = open[n]
         /\ get(key) = <<>> => \A n \in 1..Len(open) : keyOf(open[n]) # key
<1> DEFINE P == {n \in DOMAIN open : keyOf(open[n]) = key}
<1>1. PICK c \in Seq(Bar) : c = Chosen(open, P)
  BY ChosenType
<1>2. PICK f : Picks(f, c, open, P, Len(open))
  BY <1>1, ChosenPlaces
<1>3. c = get(key)
  BY <1>1 DEF get
<1>4. \A i \in 1..Len(c) : f[i] \in 1..Len(open) /\ f[i] \in P /\ c[i] = open[f[i]]
  BY <1>2 DEF Picks
<1>5. c = <<>> => \A n \in 1..Len(open) : n \notin P
  <2> SUFFICES ASSUME c = <<>>, NEW n \in 1..Len(open), n \in P
               PROVE  FALSE
    OBVIOUS
  <2>1. \E i \in 1..Len(c) : f[i] = n
    BY <1>2 DEF Picks
  <2> QED
    BY <2>1
<1>6. DOMAIN open = 1..Len(open)
  OBVIOUS
<1> QED
  BY <1>3, <1>4, <1>5, <1>6

KeptPlaces(key) == {n \in DOMAIN open : keyOf(open[n]) # key}
Kept(f, key) == Picks(f, without(key), open, KeptPlaces(key), Len(open))

LEMMA WithoutOpen ==
  ASSUME open \in Seq(Bar), NEW key
  PROVE  /\ without(key) \in Seq(Bar)
         /\ \E f : Kept(f, key)
BY ChosenType, ChosenPlaces DEF without, Kept, KeptPlaces

LEMMA WithOpen ==
  ASSUME open \in Seq(Bar), NEW x \in Bar
  PROVE  with(x) \in Seq(Bar)
BY DEF with

OldBars(b) == Chosen(open, {n \in DOMAIN open : open[n].minute < tick(b).minute})

LEMMA OldOpen ==
  ASSUME open \in Seq(Bar), NEW b
  PROVE  /\ OldBars(b) \in Seq(Bar)
         /\ \A i \in 1..Len(OldBars(b)) :
              \E n \in 1..Len(open) : OldBars(b)[i] = open[n] /\ open[n].minute < tick(b).minute
         /\ [i \in 1..Len(OldBars(b)) |-> keyOf(OldBars(b)[i])] \in Seq(keys)
<1> DEFINE P == {n \in DOMAIN open : open[n].minute < tick(b).minute}
<1>1. PICK c \in Seq(Bar) : c = Chosen(open, P)
  BY ChosenType
<1>2. PICK f : Picks(f, c, open, P, Len(open))
  BY <1>1, ChosenPlaces
<1>3. c = OldBars(b)
  BY <1>1 DEF OldBars
<1>4. \A i \in 1..Len(c) : f[i] \in 1..Len(open) /\ f[i] \in P /\ c[i] = open[f[i]]
  BY <1>2 DEF Picks
<1>5. \A x \in Bar : keyOf(x) \in keys
  BY DEF Bar, keyOf, keys
<1>6. Len(c) \in Nat /\ \A i \in 1..Len(c) : keyOf(c[i]) \in keys
  BY <1>5
<1>7. [i \in 1..Len(c) |-> keyOf(c[i])] \in Seq(keys)
  BY <1>6, IsSequence
<1> QED
  BY <1>3, <1>4, <1>7

\* What is polled are records of the topic.
LEMMA Polled ==
  ASSUME GatewayTypes, NEW from \in Nat, NEW n \in Nat, from + n <= Len(ticks)
  PROVE  /\ poll(ticks, from, n) \in Seq(Records) /\ Len(poll(ticks, from, n)) = n
         /\ \A i \in 1..n : poll(ticks, from, n)[i].offset = from + i
                            /\ poll(ticks, from, n)[i].value = ticks[from + i]
<1>1. ticks \in Seq(Ticks) /\ Len(ticks) <= MaxTicks /\ Len(ticks) \in Nat /\ MaxTicks \in Nat
  BY GatewayAssumption DEF GatewayTypes
<1>2. \A i \in 1..n : from + i \in 1..Len(ticks) /\ from + i \in 1..MaxTicks
  BY <1>1
<1>3. \A i \in 1..n : [offset |-> from + i, value |-> ticks[from + i]] \in Records
  BY <1>1, <1>2 DEF Records
<1>4. PICK p : p = [i \in 1..n |-> [offset |-> from + i, value |-> ticks[from + i]]]
  OBVIOUS
<1>5. p \in Seq(Records) /\ Len(p) = n
  BY <1>3, <1>4, IsSequence
<1> QED
  BY <1>4, <1>5 DEF poll

\* The tick in the hands of a request that is building.
LEMMA TickType ==
  ASSUME RequestTypes, NEW b \in Builders, pc[b] # "idle"
  PROVE  /\ batch[b] \in Seq(Records) /\ batch[b] # <<>>
         /\ Head(batch[b]) \in Records /\ tick(b) \in Ticks /\ keyOf(tick(b)) \in keys
         /\ Tail(batch[b]) \in Seq(Records)
<1>1. batch[b] \in Seq(Records) /\ batch[b] # <<>>
  BY DEF RequestTypes
<1>2. PICK r \in Records : r = Head(batch[b])
  BY <1>1
<1>3. r.value \in Ticks
  BY DEF Records
<1>4. PICK v \in Ticks : v = r.value
  BY <1>3
<1>5. v.symbol \in Symbols /\ v.minute \in 0..MaxMinute
  BY DEF Ticks
<1> QED
  BY <1>1, <1>2, <1>4, <1>5 DEF tick, keyOf, keys

\* The bar in the hands of a request.
LEMMA BarType ==
  ASSUME RequestTypes, NEW b \in Builders, pc[b] \in Holding
  PROVE  /\ bar[b] \in Seq(Bar) /\ bar[b] # <<>> /\ bar[b][1] \in Bar /\ keyOf(bar[b][1]) \in keys
         /\ bar[b][1].symbol \in Symbols
<1>1. bar[b] \in Seq(Bar) /\ bar[b] # <<>>
  BY DEF RequestTypes
<1>2. PICK x \in Bar : x = bar[b][1]
  BY <1>1
<1>3. x.symbol \in Symbols /\ x.minute \in 0..MaxMinute
  BY DEF Bar
<1> QED
  BY <1>1, <1>2, <1>3 DEF keyOf, keys

LEMMA PollTypes ==
  ASSUME Types, NEW b \in Builders, Poll(b)
  PROVE  OffsetTypes' /\ SinkTypes' /\ RequestTypes'
<1> USE DEF Types
<1>1. PICK n \in 1..smaller(MaxBatch, Len(ticks) - committed) :
        /\ batch' = [batch EXCEPT ![b] = poll(ticks, committed, n)]
        /\ delivered' = larger(delivered, committed + n)
  BY DEF Poll
<1>2. n \in Nat /\ n >= 1 /\ committed + n <= Len(ticks) /\ committed \in Nat /\ Len(ticks) \in Nat
  BY BuilderAssumption DEF OffsetTypes, GatewayTypes, smaller
<1>3. PICK p \in Seq(Records) : p = poll(ticks, committed, n) /\ Len(p) = n
  BY <1>2, Polled
<1>4. p # <<>>
  BY <1>2, <1>3
<1>5. UNCHANGED <<ticks, committed, open, closed, rows, cache, closing, bar>>
  BY DEF Poll, gatewayVars
<1>6. delivered' \in Nat /\ committed <= delivered' /\ delivered' <= Len(ticks)
  BY <1>1, <1>2 DEF OffsetTypes, larger
<1>7. OffsetTypes' /\ SinkTypes'
  BY <1>5, <1>6 DEF OffsetTypes, SinkTypes
<1>8. pc' = [pc EXCEPT ![b] = "scan"] /\ pc[b] = "idle" /\ mishaps' = mishaps \cup wrongWithPoll(b)
      /\ wrongWithPoll(b) \subseteq Disturbances
  BY DEF Poll, Goto
<1>9. batch' \in [Builders -> Seq(Records)] /\ batch'[b] # <<>>
      /\ \A c \in Builders : c # b => batch'[c] = batch[c]
  BY <1>1, <1>3, <1>4 DEF RequestTypes
<1> QED
  BY <1>5, <1>7, <1>8, <1>9 DEF RequestTypes, Steps, Holding

LEMMA ScanTypes ==
  ASSUME Types, NEW b \in Builders, Scan(b)
  PROVE  OffsetTypes' /\ SinkTypes' /\ RequestTypes'
<1> USE DEF Types
<1>1. [i \in 1..Len(OldBars(b)) |-> keyOf(OldBars(b)[i])] \in Seq(keys)
  BY OldOpen DEF SinkTypes
<1>2. closing' \in [Builders -> Seq(keys)]
  BY <1>1 DEF Scan, OldBars, RequestTypes
<1>3. OffsetTypes' /\ SinkTypes'
  BY DEF Scan, OffsetTypes, SinkTypes, gatewayVars
<1> QED
  BY <1>2, <1>3 DEF Scan, Goto, RequestTypes, Steps, Holding

LEMMA PopTypes ==
  ASSUME Types, NEW b \in Builders, Pop(b)
  PROVE  OffsetTypes' /\ SinkTypes' /\ RequestTypes'
<1> USE DEF Types
<1>1. closing[b] \in Seq(keys) /\ closing[b] # <<>>
  BY DEF Pop, RequestTypes
<1>2. PICK key \in keys : key = Head(closing[b])
  BY <1>1
<1>3. Tail(closing[b]) \in Seq(keys)
  BY <1>1
<1>4. get(key) \in Seq(Bar) /\ without(key) \in Seq(Bar)
  BY GetOpen, WithoutOpen DEF SinkTypes
<1>5. closing' \in [Builders -> Seq(keys)] /\ bar' \in [Builders -> Seq(Bar)]
  BY <1>2, <1>3, <1>4 DEF Pop, RequestTypes
<1>6. OffsetTypes' /\ SinkTypes'
  BY <1>2, <1>4 DEF Pop, OffsetTypes, SinkTypes, gatewayVars
<1>7. pc' = [pc EXCEPT ![b] = IF bar'[b] = <<>> THEN "pop" ELSE "publish"] /\ pc[b] = "pop"
      /\ (\A c \in Builders : c # b => bar'[c] = bar[c])
      /\ UNCHANGED <<batch, mishaps>>
  BY DEF Pop, Goto, RequestTypes
<1> QED
  BY <1>5, <1>6, <1>7 DEF RequestTypes, Steps, Holding

LEMMA PutTable ==
  ASSUME NEW t, Table(t), NEW x \in Bar
  PROVE  Table(put(t, keyOf(x), x))
<1>1. keyOf(x) \in keys
  BY DEF Bar, keyOf, keys
<1> QED
  BY <1>1 DEF Table, put

LEMMA PutCache ==
  ASSUME NEW c, Cache(c), NEW x \in Bar, NEW kind \in {"open", "closed"}
  PROVE  Cache(put(c, <<kind, x.symbol>>, x))
<1>1. x.symbol \in Symbols
  BY DEF Bar
<1> QED
  BY <1>1 DEF Cache, put

LEMMA SinkStepTypes ==
  ASSUME Types, NEW b \in Builders,
         PublishClosed(b) \/ CacheClosed(b) \/ UpsertClosed(b) \/ SetOpen(b) \/ CacheOpen(b)
  PROVE  OffsetTypes' /\ SinkTypes' /\ RequestTypes'
<1> USE DEF Types
<1>1. pc[b] \in Holding
  BY DEF PublishClosed, CacheClosed, UpsertClosed, SetOpen, CacheOpen, Holding
<1>2. PICK x \in Bar : x = bar[b][1]
  BY <1>1, BarType
<1>3. OffsetTypes'
  BY DEF PublishClosed, CacheClosed, UpsertClosed, SetOpen, CacheOpen, OffsetTypes, gatewayVars
<1>4. <<>> \in Seq(Bar) /\ <<>> \in Seq(Records)
  OBVIOUS
<1>5. CASE PublishClosed(b)
  <2>1. closed' \in Seq(Bar)
    BY <1>2, <1>5 DEF PublishClosed, publish, SinkTypes
  <2> QED
    BY <1>3, <1>5, <2>1 DEF PublishClosed, SinkTypes, Goto, RequestTypes, Steps, Holding
<1>6. CASE CacheClosed(b)
  <2>1. Cache(cache')
    BY <1>2, <1>6, PutCache DEF CacheClosed, SinkTypes
  <2> QED
    BY <1>3, <1>6, <2>1 DEF CacheClosed, SinkTypes, Goto, RequestTypes, Steps, Holding
<1>7. CASE UpsertClosed(b)
  <2>1. Table(rows')
    BY <1>2, <1>7, PutTable DEF UpsertClosed, SinkTypes
  <2> QED
    BY <1>3, <1>4, <1>7, <2>1 DEF UpsertClosed, SinkTypes, Goto, RequestTypes, Steps, Holding
<1>8. CASE SetOpen(b)
  <2>1. open' \in Seq(Bar)
    BY <1>2, <1>8, WithOpen DEF SetOpen, SinkTypes
  <2> QED
    BY <1>3, <1>8, <2>1 DEF SetOpen, SinkTypes, Goto, RequestTypes, Steps, Holding
<1>9. CASE CacheOpen(b)
  <2>1. Cache(cache')
    BY <1>2, <1>9, PutCache DEF CacheOpen, SinkTypes
  <2>2. Tail(batch[b]) \in Seq(Records)
    BY <1>9, TickType DEF CacheOpen
  <2>3. batch' \in [Builders -> Seq(Records)] /\ bar' \in [Builders -> Seq(Bar)]
    BY <1>4, <1>9, <2>2 DEF CacheOpen, RequestTypes
  <2>4. pc' = [pc EXCEPT ![b] = IF batch'[b] = <<>> THEN "idle" ELSE "scan"] /\ pc[b] = "cache_open"
        /\ (\A c \in Builders : c # b => bar'[c] = bar[c] /\ batch'[c] = batch[c])
        /\ bar'[b] = <<>> /\ UNCHANGED <<closing, mishaps, open, closed, rows>>
    BY <1>9 DEF CacheOpen, Goto, RequestTypes
  <2> QED
    BY <1>3, <2>1, <2>3, <2>4 DEF SinkTypes, RequestTypes, Steps, Holding
<1> QED
  BY <1>5, <1>6, <1>7, <1>8, <1>9

\* The bar a request builds.
Built(b, x) ==
  LET old == get(keyOf(tick(b))) IN
    x = IF old = <<>> THEN createBar(Head(batch[b])) ELSE updateBar(old[1], Head(batch[b]))

LEMMA BuiltBar ==
  ASSUME Types, NEW b \in Builders, pc[b] # "idle", NEW x, Built(b, x)
  PROVE  x \in Bar /\ keyOf(x) = keyOf(tick(b))
<1>1. PICK r \in Records : r = Head(batch[b]) /\ keyOf(r.value) = keyOf(tick(b))
  BY TickType DEF Types, tick
<1>2. PICK key : key = keyOf(tick(b))
  OBVIOUS
<1>3. PICK old \in Seq(Bar) : old = get(key)
  BY GetOpen DEF Types, SinkTypes
<1>4. CASE old = <<>>
  <2>1. x = createBar(r)
    BY <1>1, <1>2, <1>3, <1>4 DEF Built
  <2> QED
    BY <1>1, <2>1, CreatedBar
<1>5. CASE old # <<>>
  <2>1. 1 \in 1..Len(old)
    BY <1>5
  <2>2. PICK y \in Bar : y = old[1]
    BY <2>1
  <2>3. keyOf(y) = key
    BY <1>3, <2>1, <2>2, GetOpen DEF Types, SinkTypes
  <2>4. x = updateBar(y, r)
    BY <1>1, <1>2, <1>3, <1>5, <2>2 DEF Built
  <2> QED
    BY <1>2, <2>3, <2>4, UpdatedBar
<1> QED
  BY <1>4, <1>5

LEMMA BuildTypes ==
  ASSUME Types, NEW b \in Builders, Build(b)
  PROVE  OffsetTypes' /\ SinkTypes' /\ RequestTypes'
<1>1. pc[b] = "pop" /\ UNCHANGED <<ticks, committed, delivered, open, closed, rows, cache, batch,
                                   closing, mishaps>>
      /\ pc' = [pc EXCEPT ![b] = "write"]
  BY DEF Build, Goto, gatewayVars
<1>2. PICK x : Built(b, x)
  BY DEF Built
<1>3. x \in Bar
  BY <1>1, <1>2, BuiltBar
<1>4. bar' = [bar EXCEPT ![b] = <<x>>]
  BY <1>2 DEF Build, Built
<1>5. <<x>> \in Seq(Bar) /\ <<x>> # <<>>
  BY <1>3
<1>6. OffsetTypes' /\ SinkTypes'
  BY <1>1 DEF Types, OffsetTypes, SinkTypes
<1>7. bar' \in [Builders -> Seq(Bar)] /\ bar'[b] # <<>> /\ \A c \in Builders : c # b => bar'[c] = bar[c]
  BY <1>4, <1>5 DEF Types, RequestTypes
<1> QED
  BY <1>1, <1>6, <1>7 DEF Types, RequestTypes, Steps, Holding

\* Every step keeps the types, and the topic of ticks only grows.
LEMMA TypesKept ==
  ASSUME Types, [Next]_vars
  PROVE  Types' /\ Grown(ticks, ticks')
<1>1. ticks \in Seq(Ticks) /\ Len(ticks) \in Nat
  BY DEF Types, GatewayTypes
<1>2. CASE UNCHANGED vars
  <2>1. Grown(ticks, ticks')
    BY <1>1, <1>2 DEF vars, gatewayVars, Grown
  <2> QED
    BY <1>2, <2>1 DEF vars, gatewayVars, builderVars, Types, GatewayTypes, OffsetTypes,
       SinkTypes, RequestTypes
<1>3. CASE GatewayNext /\ UNCHANGED builderVars
  <2>1. GatewayTypes' /\ Grown(ticks, ticks')
    BY <1>3, GatewayStep DEF Types
  <2>2. Len(ticks) <= Len(ticks') /\ Len(ticks') \in Nat
    BY <2>1 DEF Grown
  <2>3. OffsetTypes'
    BY <1>1, <1>3, <2>2 DEF builderVars, OffsetTypes, Types
  <2>4. SinkTypes' /\ RequestTypes'
    BY <1>3 DEF builderVars, SinkTypes, RequestTypes, Types
  <2> QED
    BY <2>1, <2>3, <2>4 DEF Types
<1>4. ASSUME UNCHANGED gatewayVars, OffsetTypes', SinkTypes', RequestTypes'
      PROVE  Types' /\ Grown(ticks, ticks')
  <2>1. Grown(ticks, ticks')
    BY <1>1, <1>4 DEF gatewayVars, Grown
  <2> QED
    BY <1>4, <2>1 DEF gatewayVars, Types, GatewayTypes
<1>5. ASSUME NEW b \in Builders, Poll(b) \/ Step(b) \/ Fail(b)
      PROVE  Types' /\ Grown(ticks, ticks')
  <2>1. UNCHANGED gatewayVars
    BY <1>5 DEF Poll, Step, Fail, Scan, Pop, PublishClosed, CacheClosed, UpsertClosed, Build,
       SetOpen, CacheOpen
  <2>2. CASE Fail(b)
    <3>1. RequestTypes'
      BY <2>2 DEF Fail, Fresh, Types, RequestTypes, Steps, Holding
    <3>2. OffsetTypes' /\ SinkTypes'
      BY <2>2 DEF Fail, Types, OffsetTypes, SinkTypes, gatewayVars
    <3> QED
      BY <1>4, <2>1, <3>1, <3>2
  <2> QED
    BY <1>4, <1>5, <2>1, <2>2, PollTypes, ScanTypes, PopTypes, SinkStepTypes, BuildTypes DEF Step
<1>6. CASE Commit
  <2>1. OffsetTypes' /\ SinkTypes' /\ RequestTypes'
    BY <1>6 DEF Commit, Types, OffsetTypes, SinkTypes, RequestTypes, gatewayVars
  <2> QED
    BY <1>4, <1>6, <2>1 DEF Commit
<1>7. CASE Restart
  <2>1. OffsetTypes' /\ SinkTypes' /\ RequestTypes'
    BY <1>7 DEF Restart, Fresh, Types, OffsetTypes, SinkTypes, RequestTypes, gatewayVars, Steps, Holding
  <2> QED
    BY <1>4, <1>7, <2>1 DEF Restart
<1> QED
  BY <1>2, <1>3, <1>5, <1>6, <1>7 DEF Next

\* Memory, topics, tables and requests have their types, for any gateways,
\* requests, batches and disturbances.
THEOREM TypeCorrect == Spec => []TypeOK
<1>1. Types => TypeOK
  <2> SUFFICES ASSUME Types
               PROVE  TypeOK
    OBVIOUS
  <2> USE DEF Types
  <2>1. /\ bars(ticks) \subseteq Ticks /\ minute \in 0..MaxMinute
        /\ \A g \in Feeds : bars(left[g]) \subseteq Symbols /\ bars(sending[g]) \subseteq Ticks
    BY DEF GatewayTypes, bars
  <2>2. committed \in 0..delivered /\ delivered \in 0..Len(ticks)
    BY DEF OffsetTypes, GatewayTypes
  <2>3. bars(open) \cup bars(closed) \subseteq Bar
    BY DEF SinkTypes, bars
  <2>4. \A b \in Builders : /\ bars(batch[b]) \subseteq Records /\ bars(closing[b]) \subseteq keys
                            /\ bars(bar[b]) \subseteq Bar
    BY DEF RequestTypes, bars
  <2> QED
    BY <2>1, <2>2, <2>3, <2>4 DEF TypeOK, SinkTypes, Table, Cache, RequestTypes, Steps, Holding
<1>2. Types /\ [Next]_vars => Types'
  BY TypesKept
<1> QED
  BY <1>1, <1>2, TypesInit, PTL DEF Spec

-----------------------------------------------------------------------------
(***************************************************************************)
(* The sinks of closed bars.  Unless requests overlap, one request at a    *)
(* time is between taking ticks and the end of its batch; only the bar it  *)
(* has just published is not yet in the other sinks.                       *)
(***************************************************************************)
OneRequest ==
  "overlapped" \notin mishaps =>
    \A b, c \in Builders : pc[b] # "idle" /\ pc[c] # "idle" => b = c

AtSinks(b) == pc[b] \in {"cache_closed", "upsert"}
LatestOfKey(n) == \A m \in n + 1..Len(closed) : keyOf(closed[m]) # keyOf(closed[n])
LatestOfSymbol(n) == \A m \in n + 1..Len(closed) : closed[m].symbol # closed[n].symbol
Stored(n) == keyOf(closed[n]) \in DOMAIN rows /\ rows[keyOf(closed[n])] = closed[n]
Cached(n) == /\ <<"closed", closed[n].symbol>> \in DOMAIN cache
             /\ cache[<<"closed", closed[n].symbol>>] = closed[n]

BeingWritten == \A b \in Builders : AtSinks(b) => Len(closed) >= 1 /\ closed[Len(closed)] = bar[b][1]
StoredInv ==
  \A n \in 1..Len(closed) :
    LatestOfKey(n) => Stored(n) \/ (n = Len(closed) /\ \E b \in Builders : AtSinks(b))
CachedInv ==
  \A n \in 1..Len(closed) :
    LatestOfSymbol(n) =>
      Cached(n) \/ (n = Len(closed) /\ \E b \in Builders : pc[b] = "cache_closed")

SinkInv == mishaps \subseteq {"redelivered"} => BeingWritten /\ StoredInv /\ CachedInv

LEMMA MishapsGrow ==
  ASSUME [Next]_vars
  PROVE  mishaps \subseteq mishaps'
BY DEF Next, vars, builderVars, Poll, Step, Scan, Pop, PublishClosed, CacheClosed, UpsertClosed,
   Build, SetOpen, CacheOpen, Fail, Commit, Restart

LEMMA OneRequestKept ==
  ASSUME Types, OneRequest, [Next]_vars
  PROVE  OneRequest'
<1> SUFFICES ASSUME "overlapped" \notin mishaps'
             PROVE  \A b, c \in Builders : pc'[b] # "idle" /\ pc'[c] # "idle" => b = c
  BY DEF OneRequest
<1>1. \A b, c \in Builders : pc[b] # "idle" /\ pc[c] # "idle" => b = c
  BY MishapsGrow DEF OneRequest
<1>2. ASSUME \A b \in Builders : pc'[b] # "idle" => pc[b] # "idle"
      PROVE  \A b, c \in Builders : pc'[b] # "idle" /\ pc'[c] # "idle" => b = c
  BY <1>1, <1>2
<1>3. pc \in [Builders -> Steps]
  BY DEF Types, RequestTypes
<1>4. ASSUME NEW b \in Builders, Poll(b)
      PROVE  \A c, d \in Builders : pc'[c] # "idle" /\ pc'[d] # "idle" => c = d
  <2>1. wrongWithPoll(b) \subseteq mishaps' /\ pc' = [pc EXCEPT ![b] = "scan"]
    BY <1>4 DEF Poll, Goto
  <2>2. \A c \in Builders \ {b} : pc[c] = "idle"
    BY <2>1 DEF wrongWithPoll, Mishaps
  <2> QED
    BY <2>1, <2>2, <1>3
<1>5. ASSUME NEW b \in Builders, Step(b)
      PROVE  \A c \in Builders : pc'[c] # "idle" => pc[c] # "idle"
  <2>1. pc[b] # "idle" /\ \A c \in Builders \ {b} : pc'[c] = pc[c]
    BY <1>3, <1>5 DEF Step, Scan, Pop, PublishClosed, CacheClosed, UpsertClosed, Build, SetOpen,
       CacheOpen, Goto
  <2> QED
    BY <2>1
<1>6. ASSUME NEW b \in Builders, Fail(b)
      PROVE  \A c \in Builders : pc'[c] # "idle" => pc[c] # "idle"
  BY <1>6 DEF Fail, Fresh
<1>7. CASE Restart
  BY <1>2, <1>7 DEF Restart, Fresh
<1>8. CASE Commit \/ (GatewayNext /\ UNCHANGED builderVars) \/ UNCHANGED vars
  BY <1>2, <1>8 DEF Commit, builderVars, vars
<1> QED
  BY <1>2, <1>4, <1>5, <1>6, <1>7, <1>8 DEF Next

\* A step that has nothing to do with the sinks of closed bars.
Elsewhere ==
  /\ UNCHANGED <<closed, rows>>
  /\ \A s \in Symbols : <<"closed", s>> \in DOMAIN cache =>
       /\ <<"closed", s>> \in DOMAIN cache'
       /\ cache'[<<"closed", s>>] = cache[<<"closed", s>>]
  /\ \A b \in Builders : /\ AtSinks(b) <=> AtSinks(b)'
                         /\ (pc[b] = "cache_closed") <=> (pc'[b] = "cache_closed")
                         /\ AtSinks(b) => bar'[b] = bar[b]

LEMMA ElsewhereKeeps ==
  ASSUME Types, SinkInv, Elsewhere, mishaps \subseteq mishaps'
  PROVE  SinkInv'
<1> SUFFICES ASSUME BeingWritten, StoredInv, CachedInv
             PROVE  BeingWritten' /\ StoredInv' /\ CachedInv'
  BY DEF SinkInv
<1>1. closed' = closed /\ rows' = rows
  BY DEF Elsewhere
<1>2. BeingWritten'
  BY <1>1 DEF Elsewhere, BeingWritten
<1>3. StoredInv'
  BY <1>1 DEF Elsewhere, StoredInv, Stored, LatestOfKey
<1>4. \A n \in 1..Len(closed) : closed[n].symbol \in Symbols
  <2>1. \A n \in 1..Len(closed) : closed[n] \in Bar
    BY DEF Types, SinkTypes
  <2> QED
    BY <2>1 DEF Bar
<1>5. \A n \in 1..Len(closed) : Cached(n) => Cached(n)'
  BY <1>1, <1>4 DEF Elsewhere, Cached
<1>6. CachedInv'
  BY <1>1, <1>5 DEF Elsewhere, CachedInv, LatestOfSymbol
<1> QED
  BY <1>2, <1>3, <1>6

LEMMA PublishSinks ==
  ASSUME Types, OneRequest, SinkInv, NEW b \in Builders, PublishClosed(b)
  PROVE  SinkInv'
<1>1. /\ pc[b] = "publish" /\ pc' = [pc EXCEPT ![b] = "cache_closed"]
      /\ UNCHANGED <<rows, cache, bar, mishaps>>
  BY DEF PublishClosed, Goto
<1> SUFFICES ASSUME mishaps \subseteq {"redelivered"}
             PROVE  BeingWritten' /\ StoredInv' /\ CachedInv'
  BY <1>1 DEF SinkInv
<1>2. BeingWritten /\ StoredInv /\ CachedInv
  BY DEF SinkInv
<1>3. \A c \in Builders : c # b => pc[c] = "idle"
  BY <1>1 DEF OneRequest
<1>4. pc \in [Builders -> Steps]
  BY DEF Types, RequestTypes
<1>5. \A c \in Builders : ~AtSinks(c)
  BY <1>1, <1>3 DEF AtSinks
<1>6. PICK x \in Bar : x = bar[b][1]
  BY <1>1, BarType DEF Types, Holding
<1>7. PICK k \in Nat : k = Len(closed)
  BY DEF Types, SinkTypes
<1>8. /\ closed' = Append(closed, x) /\ Len(closed') = k + 1 /\ closed'[k + 1] = x
      /\ \A n \in 1..k : closed'[n] = closed[n]
  BY <1>6, <1>7 DEF PublishClosed, publish, Types, SinkTypes
<1>9. AtSinks(b)' /\ pc'[b] = "cache_closed" /\ \A c \in Builders : c # b => pc'[c] = "idle"
  BY <1>1, <1>3, <1>4 DEF AtSinks
<1>10. BeingWritten'
  BY <1>1, <1>6, <1>7, <1>8, <1>9 DEF BeingWritten, AtSinks
<1>11. ASSUME NEW n \in 1..k
       PROVE  /\ LatestOfKey(n)' => LatestOfKey(n)
              /\ LatestOfSymbol(n)' => LatestOfSymbol(n)
  BY <1>7, <1>8 DEF LatestOfKey, LatestOfSymbol
<1>12. \A n \in 1..k + 1 : n = k + 1 \/ n \in 1..k
  OBVIOUS
<1>13. StoredInv'
  <2> SUFFICES ASSUME NEW n \in 1..k, LatestOfKey(n)'
               PROVE  Stored(n)'
    BY <1>7, <1>8, <1>9, <1>12 DEF StoredInv
  <2>1. \A m \in 1..k : LatestOfKey(m) => Stored(m)
    BY <1>2, <1>5, <1>7 DEF StoredInv
  <2>2. Stored(n)
    BY <2>1, <1>11
  <2> QED
    BY <1>1, <1>8, <2>2 DEF Stored
<1>14. CachedInv'
  <2> SUFFICES ASSUME NEW n \in 1..k, LatestOfSymbol(n)'
               PROVE  Cached(n)'
    BY <1>7, <1>8, <1>9, <1>12 DEF CachedInv
  <2>1. \A m \in 1..k : LatestOfSymbol(m) => Cached(m)
    <3>1. ~\E c \in Builders : pc[c] = "cache_closed"
      BY <1>5 DEF AtSinks
    <3> QED
      BY <3>1, <1>2, <1>7 DEF CachedInv
  <2>2. Cached(n)
    BY <2>1, <1>11
  <2> QED
    BY <1>1, <1>8, <2>2 DEF Cached
<1> QED
  BY <1>10, <1>13, <1>14

LEMMA CacheSinks ==
  ASSUME Types, OneRequest, SinkInv, NEW b \in Builders, CacheClosed(b)
  PROVE  SinkInv'
<1>1. /\ pc[b] = "cache_closed" /\ pc' = [pc EXCEPT ![b] = "upsert"]
      /\ UNCHANGED <<closed, rows, bar, mishaps>>
  BY DEF CacheClosed, Goto
<1> SUFFICES ASSUME mishaps \subseteq {"redelivered"}
             PROVE  BeingWritten' /\ StoredInv' /\ CachedInv'
  BY <1>1 DEF SinkInv
<1>2. BeingWritten /\ StoredInv /\ CachedInv
  BY DEF SinkInv
<1>4. pc \in [Builders -> Steps]
  BY DEF Types, RequestTypes
<1>5. \A c \in Builders : AtSinks(c) <=> AtSinks(c)'
  BY <1>1, <1>4 DEF AtSinks
<1>6. PICK x \in Bar : x = bar[b][1]
  BY <1>1, BarType DEF Types, Holding
<1>7. PICK k \in Nat : k = Len(closed)
  BY DEF Types, SinkTypes
<1>8. k >= 1 /\ closed[k] = x
  BY <1>1, <1>2, <1>6, <1>7 DEF BeingWritten, AtSinks
<1>9. BeingWritten' /\ StoredInv'
  BY <1>1, <1>2, <1>5 DEF BeingWritten, StoredInv, Stored, LatestOfKey
<1>10. cache' = put(cache, <<"closed", x.symbol>>, x)
  BY <1>6 DEF CacheClosed
<1>11. ASSUME NEW n \in 1..k, LatestOfSymbol(n)'
       PROVE  Cached(n)'
  <2>1. CASE closed[n].symbol = x.symbol
    <3>1. n = k
      <4>1. ASSUME n # k
            PROVE  FALSE
        <5>1. k \in n + 1..k
          BY <4>1
        <5>2. closed'[k].symbol # closed'[n].symbol
          BY <1>1, <1>7, <1>11, <5>1 DEF LatestOfSymbol
        <5> QED
          BY <5>2, <2>1, <1>1, <1>8
      <4> QED
        BY <4>1
    <3> QED
      BY <3>1, <1>1, <1>8, <1>10 DEF Cached, put
  <2>2. CASE closed[n].symbol # x.symbol
    <3>1. n # k
      BY <2>2, <1>8
    <3>2. Cached(n)
      BY <1>1, <1>2, <1>7, <1>11, <3>1 DEF CachedInv, LatestOfSymbol
    <3> QED
      BY <3>2, <2>2, <1>1, <1>10 DEF Cached, put
  <2> QED
    BY <2>1, <2>2
<1>12. CachedInv'
  BY <1>1, <1>7, <1>11 DEF CachedInv
<1> QED
  BY <1>9, <1>12

LEMMA UpsertSinks ==
  ASSUME Types, OneRequest, SinkInv, NEW b \in Builders, UpsertClosed(b)
  PROVE  SinkInv'
<1>1. /\ pc[b] = "upsert" /\ pc' = [pc EXCEPT ![b] = "pop"]
      /\ bar' = [bar EXCEPT ![b] = <<>>] /\ UNCHANGED <<closed, cache, mishaps>>
  BY DEF UpsertClosed, Goto
<1> SUFFICES ASSUME mishaps \subseteq {"redelivered"}
             PROVE  BeingWritten' /\ StoredInv' /\ CachedInv'
  BY <1>1 DEF SinkInv
<1>2. BeingWritten /\ StoredInv /\ CachedInv
  BY DEF SinkInv
<1>3. \A c \in Builders : c # b => pc[c] = "idle"
  BY <1>1 DEF OneRequest
<1>4. pc \in [Builders -> Steps]
  BY DEF Types, RequestTypes
<1>5. \A c \in Builders : ~AtSinks(c)'
  BY <1>1, <1>3, <1>4 DEF AtSinks
<1>6. PICK x \in Bar : x = bar[b][1]
  BY <1>1, BarType DEF Types, Holding
<1>7. PICK k \in Nat : k = Len(closed)
  BY DEF Types, SinkTypes
<1>8. k >= 1 /\ closed[k] = x
  BY <1>1, <1>2, <1>6, <1>7 DEF BeingWritten, AtSinks
<1>9. BeingWritten'
  BY <1>5 DEF BeingWritten
<1>a. \A n \in 1..k : LatestOfSymbol(n) => Cached(n)
  <2>1. ~\E c \in Builders : pc[c] = "cache_closed"
    BY <1>1, <1>3
  <2> QED
    BY <2>1, <1>2, <1>7 DEF CachedInv
<1>b. CachedInv'
  BY <1>a, <1>1, <1>7 DEF CachedInv, Cached, LatestOfSymbol
<1>10. rows' = put(rows, keyOf(x), x)
  BY <1>6 DEF UpsertClosed
<1>11. ASSUME NEW n \in 1..k, LatestOfKey(n)'
       PROVE  Stored(n)'
  <2>1. CASE keyOf(closed[n]) = keyOf(x)
    <3>1. n = k
      <4>1. ASSUME n # k
            PROVE  FALSE
        <5>1. k \in n + 1..k
          BY <4>1
        <5>2. keyOf(closed'[k]) # keyOf(closed'[n])
          BY <1>1, <1>7, <1>11, <5>1 DEF LatestOfKey
        <5> QED
          BY <5>2, <2>1, <1>1, <1>8
      <4> QED
        BY <4>1
    <3> QED
      BY <3>1, <1>1, <1>8, <1>10 DEF Stored, put
  <2>2. CASE keyOf(closed[n]) # keyOf(x)
    <3>1. n # k
      BY <2>2, <1>8
    <3>2. Stored(n)
      BY <1>1, <1>2, <1>7, <1>11, <3>1 DEF StoredInv, LatestOfKey
    <3> QED
      BY <3>2, <2>2, <1>1, <1>10 DEF Stored, put
  <2> QED
    BY <2>1, <2>2
<1>12. StoredInv'
  BY <1>1, <1>7, <1>11 DEF StoredInv
<1> QED
  BY <1>9, <1>12, <1>b

LEMMA SinkInvKept ==
  ASSUME Types, OneRequest, SinkInv, [Next]_vars
  PROVE  SinkInv'
<1>0. mishaps \subseteq mishaps'
  BY MishapsGrow
<1>1. pc \in [Builders -> Steps] /\ bar \in [Builders -> Seq(Bar)]
  BY DEF Types, RequestTypes
<1>2. ASSUME NEW b \in Builders, Poll(b) \/ Scan(b) \/ Pop(b) \/ Build(b) \/ SetOpen(b)
      PROVE  Elsewhere
  <2>1. ~AtSinks(b) /\ ~AtSinks(b)' /\ UNCHANGED <<closed, rows, cache>>
        /\ \A c \in Builders : c # b => pc'[c] = pc[c] /\ bar'[c] = bar[c]
    BY <1>1, <1>2 DEF Poll, Scan, Pop, Build, SetOpen, Goto, AtSinks
  <2> QED
    BY <2>1 DEF Elsewhere, AtSinks
<1>3. ASSUME NEW b \in Builders, CacheOpen(b)
      PROVE  Elsewhere
  <2>1. ~AtSinks(b) /\ ~AtSinks(b)' /\ UNCHANGED <<closed, rows>>
        /\ \A c \in Builders : c # b => pc'[c] = pc[c] /\ bar'[c] = bar[c]
    BY <1>1, <1>3 DEF CacheOpen, Goto, AtSinks
  <2>2. PICK x : x = bar[b][1]
    OBVIOUS
  <2>3. cache' = put(cache, <<"open", x.symbol>>, x)
    BY <1>3, <2>2 DEF CacheOpen
  <2>4. \A s : <<"closed", s>> # <<"open", x.symbol>>
    OBVIOUS
  <2> QED
    BY <2>1, <2>3, <2>4 DEF Elsewhere, AtSinks, put
<1>4. ASSUME (GatewayNext /\ UNCHANGED builderVars) \/ Commit \/ UNCHANGED vars
      PROVE  Elsewhere
  BY <1>4 DEF builderVars, Commit, vars, Elsewhere, AtSinks
<1>5. ASSUME (\E b \in Builders : Fail(b)) \/ Restart
      PROVE  SinkInv'
  <2>1. "failed" \in mishaps' \/ "restarted" \in mishaps'
    BY <1>5 DEF Fail, Restart
  <2>2. ~(mishaps' \subseteq {"redelivered"})
    BY <2>1
  <2> QED
    BY <2>2 DEF SinkInv
<1> QED
  BY <1>0, <1>2, <1>3, <1>4, <1>5, ElsewhereKeeps, PublishSinks, CacheSinks, UpsertSinks
     DEF Next, Step

\* When no call has failed and no requests overlapped, topic, table and cache of
\* closed bars agree whenever no request is between publish_closed_bar and
\* upsert, for any ticks, delivered twice or late.
THEOREM SinksInStep == Spec => []SinksAgree
<1>1. Init => Types /\ OneRequest /\ SinkInv
  <2>1. Init => OneRequest /\ SinkInv
    BY DEF Init, OneRequest, SinkInv, BeingWritten, StoredInv, CachedInv, AtSinks
  <2> QED
    BY <2>1, TypesInit
<1>2. Types /\ OneRequest /\ SinkInv /\ [Next]_vars => (Types /\ OneRequest /\ SinkInv)'
  BY TypesKept, OneRequestKept, SinkInvKept
<1>3. SinkInv => SinksAgree
  BY DEF SinkInv, SinksAgree, StoredInv, CachedInv, Stored, Cached, LatestOfKey, LatestOfSymbol,
     AtSinks
<1> QED
  BY <1>1, <1>2, <1>3, PTL DEF Spec

-----------------------------------------------------------------------------
(***************************************************************************)
(* Bars are the aggregates of their ticks, wherever they are: x of the     *)
(* ticks of the topic t that it was built from.                            *)
(***************************************************************************)
Within(x, t, m) ==
  /\ keyOf(t[x.ticks[m]]) = keyOf(x)
  /\ x.low <= t[x.ticks[m]].price /\ t[x.ticks[m]].price <= x.high
Aggregate(x, t) ==
  /\ x.ticks \in Seq(1..Len(t)) /\ x.ticks # <<>>
  /\ \A m \in 1..Len(x.ticks) : Within(x, t, m)
  /\ \E m \in 1..Len(x.ticks) : t[x.ticks[m]].price = x.high
  /\ \E m \in 1..Len(x.ticks) : t[x.ticks[m]].price = x.low
  /\ x.open = t[x.ticks[1]].price /\ x.close = t[x.ticks[Len(x.ticks)]].price
  /\ x.volume = Len(x.ticks)

\* What a request holds of the topic of ticks is what is there, in its order.
Genuine(r, t) == r.offset \in 1..Len(t) /\ r.value = t[r.offset]
Faithful(b) ==
  \A n \in 1..Len(batch[b]) :
    /\ Genuine(batch[b][n], ticks) /\ batch[b][n].offset <= delivered
    /\ batch[b][n].offset = batch[b][1].offset + (n - 1)
Batches == \A b \in Builders : Faithful(b)

LEMMA PlacesGrow ==
  ASSUME NEW m \in Nat, NEW n \in Nat, m <= n, NEW s \in Seq(1..m)
  PROVE  s \in Seq(1..n)
<1>1. \A i \in 1..Len(s) : s[i] \in 1..m
  OBVIOUS
<1>2. \A i \in 1..Len(s) : s[i] \in 1..n
  BY <1>1
<1>3. s = [i \in 1..Len(s) |-> s[i]] /\ Len(s) \in Nat
  OBVIOUS
<1> QED
  BY <1>2, <1>3, IsSequence

LEMMA AggregateGrows ==
  ASSUME NEW x, NEW t, NEW u, Aggregate(x, t), Grown(t, u)
  PROVE  Aggregate(x, u)
<1>1. x.ticks \in Seq(1..Len(t)) /\ x.ticks # <<>> /\ 1..Len(t) \subseteq 1..Len(u)
  BY DEF Aggregate, Grown
<1>2. x.ticks \in Seq(1..Len(u))
  BY <1>1, PlacesGrow DEF Grown
<1>3. \A m \in 1..Len(x.ticks) : x.ticks[m] \in 1..Len(t)
  BY <1>1
<1>4. \A m \in 1..Len(x.ticks) : u[x.ticks[m]] = t[x.ticks[m]]
  BY <1>3 DEF Grown
<1>5. 1 \in 1..Len(x.ticks) /\ Len(x.ticks) \in 1..Len(x.ticks)
  BY <1>1
<1>6. \A m \in 1..Len(x.ticks) : Within(x, u, m)
  BY <1>4, SMTT(20) DEF Aggregate, Within
<1> QED
  BY <1>1, <1>2, <1>4, <1>5, <1>6 DEF Aggregate

LEMMA CreatedAggregate ==
  ASSUME NEW t \in Seq(Ticks), NEW r, Genuine(r, t)
  PROVE  Aggregate(createBar(r), t)
<1>1. PICK o \in 1..Len(t) : o = r.offset
  BY DEF Genuine
<1>2. PICK v \in Ticks : v = t[o]
  OBVIOUS
<1>3. PICK p \in Int : p = v.price
  BY PriceNumbers DEF Ticks
<1>4. PICK s \in Seq(1..Len(t)) : s = <<o>>
  <2>1. <<o>> \in Seq(1..Len(t))
    OBVIOUS
  <2> QED
    BY <2>1
<1>5. Len(s) = 1 /\ s[1] = o /\ s # <<>>
  BY <1>4
<1>6. createBar(r) = [symbol |-> v.symbol, minute |-> v.minute, open |-> p, high |-> p, low |-> p,
                      close |-> p, volume |-> 1, ticks |-> s]
  BY <1>1, <1>2, <1>3, <1>4 DEF createBar, Genuine
<1>7. PICK x : x = createBar(r)
  OBVIOUS
<1>8. x.symbol = v.symbol /\ x.minute = v.minute /\ x.open = p /\ x.high = p /\ x.low = p
      /\ x.close = p /\ x.volume = 1 /\ x.ticks = s
  BY <1>6, <1>7
<1>9. \A m \in 1..1 : m = 1
  OBVIOUS
<1>10. Within(x, t, 1)
  BY <1>2, <1>3, <1>5, <1>8 DEF Within, keyOf
<1>11. t[x.ticks[1]].price = p /\ Len(x.ticks) = 1 /\ 1 \in 1..1
  BY <1>2, <1>3, <1>5, <1>8
<1>12. /\ \A m \in 1..Len(x.ticks) : Within(x, t, m)
       /\ \E m \in 1..Len(x.ticks) : t[x.ticks[m]].price = x.high
       /\ \E m \in 1..Len(x.ticks) : t[x.ticks[m]].price = x.low
  BY <1>8, <1>9, <1>10, <1>11
<1>13. Aggregate(x, t)
  BY <1>5, <1>8, <1>11, <1>12 DEF Aggregate
<1> QED
  BY <1>7, <1>13

LEMMA UpdatedAggregate ==
  ASSUME NEW t \in Seq(Ticks), NEW r, Genuine(r, t), NEW y \in Bar, Aggregate(y, t),
         keyOf(y) = keyOf(r.value)
  PROVE  Aggregate(updateBar(y, r), t)
<1>1. PICK o \in 1..Len(t) : o = r.offset
  BY DEF Genuine
<1>2. PICK v \in Ticks : v = t[o]
  OBVIOUS
<1>3. PICK p \in Int : p = v.price
  BY PriceNumbers DEF Ticks
<1>4. PICK h \in Int, l \in Int, q \in Int : h = y.high /\ l = y.low /\ q = y.open
  BY PriceNumbers DEF Bar
<1>5. PICK s \in Seq(1..Len(t)) : s = y.ticks /\ s # <<>>
  BY DEF Aggregate
<1>6. PICK k \in Nat \ {0} : k = Len(s)
  BY <1>5
<1>7. PICK w \in Seq(1..Len(t)) : w = Append(s, o)
  <2>1. Append(s, o) \in Seq(1..Len(t))
    OBVIOUS
  <2> QED
    BY <2>1
<1>8. Len(w) = k + 1 /\ w[k + 1] = o /\ w # <<>> /\ \A m \in 1..k : w[m] = s[m]
  BY <1>6, <1>7
<1>9. r.value = v /\ r.offset = o
  BY <1>1, <1>2 DEF Genuine
<1>10. PICK x : x = updateBar(y, r)
  OBVIOUS
<1>11. x.symbol = y.symbol /\ x.minute = y.minute /\ x.open = y.open /\ x.high = larger(h, p)
       /\ x.low = smaller(l, p) /\ x.close = p /\ x.volume = y.volume + 1 /\ x.ticks = w
  BY <1>3, <1>4, <1>5, <1>7, <1>9, <1>10 DEF updateBar, Bar
<1>12. PICK a \in Int, c \in Int :
         a = larger(h, p) /\ c = smaller(l, p) /\ c <= l /\ h <= a /\ c <= p /\ p <= a
  BY DEF larger, smaller
<1>13. \A m \in 1..k : s[m] \in 1..Len(t)
  BY <1>6
<1>14. \A m \in 1..k : t[s[m]] \in Ticks
  BY <1>13
<1>15. \A m \in 1..k : t[s[m]].price \in Int
  BY <1>14, PriceNumbers DEF Ticks
<1>16. \A m \in 1..k : Within(y, t, m)
  BY <1>5, <1>6 DEF Aggregate
<1>17. \A m \in 1..k + 1 : m = k + 1 \/ m \in 1..k
  OBVIOUS
<1>18. ASSUME NEW m \in 1..k
       PROVE  Within(x, t, m)
  <2>1. PICK z \in Int : z = t[s[m]].price
    BY <1>15
  <2>2. l <= z /\ z <= h /\ keyOf(t[s[m]]) = keyOf(y)
    BY <1>4, <1>5, <1>16, <2>1 DEF Within
  <2>3. c <= z /\ z <= a
    BY <1>12, <2>2
  <2>4. x.ticks[m] = s[m]
    BY <1>8, <1>11
  <2> QED
    BY <1>11, <1>12, <2>1, <2>2, <2>3, <2>4 DEF Within, keyOf
<1>19. Within(x, t, k + 1)
  BY <1>2, <1>3, <1>8, <1>9, <1>11, <1>12 DEF Within, keyOf
<1>20. \A m \in 1..Len(x.ticks) : Within(x, t, m)
  BY <1>8, <1>11, <1>17, <1>18, <1>19
<1>21. k + 1 \in 1..k + 1 /\ t[x.ticks[k + 1]].price = p
  BY <1>2, <1>3, <1>8, <1>11
<1>22. \E m \in 1..k + 1 : t[x.ticks[m]].price = x.high
  <2>1. CASE x.high = p
    BY <1>21, <2>1
  <2>2. CASE x.high = h
    <3>1. PICK m \in 1..k : t[s[m]].price = h
      BY <1>4, <1>5, <1>6 DEF Aggregate
    <3>2. m \in 1..k + 1 /\ x.ticks[m] = s[m]
      BY <1>8, <1>11
    <3> QED
      BY <2>2, <3>1, <3>2
  <2> QED
    BY <1>11, <2>1, <2>2 DEF larger
<1>23. \E m \in 1..k + 1 : t[x.ticks[m]].price = x.low
  <2>1. CASE x.low = p
    BY <1>21, <2>1
  <2>2. CASE x.low = l
    <3>1. PICK m \in 1..k : t[s[m]].price = l
      BY <1>4, <1>5, <1>6 DEF Aggregate
    <3>2. m \in 1..k + 1 /\ x.ticks[m] = s[m]
      BY <1>8, <1>11
    <3> QED
      BY <2>2, <3>1, <3>2
  <2> QED
    BY <1>11, <2>1, <2>2 DEF smaller
<1>24. x.open = t[x.ticks[1]].price
  <2>1. 1 \in 1..k
    OBVIOUS
  <2>2. x.ticks[1] = s[1] /\ y.open = t[s[1]].price
    BY <1>5, <1>8, <1>11, <2>1 DEF Aggregate
  <2> QED
    BY <1>11, <2>2
<1>25. x.volume = k + 1
  BY <1>5, <1>6, <1>11 DEF Aggregate
<1>26. Aggregate(x, t)
  BY <1>8, <1>11, <1>20, <1>21, <1>22, <1>23, <1>24, <1>25 DEF Aggregate
<1> QED
  BY <1>10, <1>26

Values(f) == {f[k] : k \in DOMAIN f}
Everywhere ==
  bars(open) \cup bars(closed) \cup Values(rows) \cup Values(cache)
    \cup {bar[b][1] : b \in {c \in Builders : pc[c] \in Holding}}
Sound(x) == Aggregate(x, ticks)
SoundBars == \A x \in Everywhere : Sound(x)

LEMMA PutValues ==
  ASSUME NEW f, NEW key, NEW value
  PROVE  Values(put(f, key, value)) \subseteq Values(f) \cup {value}
BY DEF put, Values

LEMMA BarsOfAppend ==
  ASSUME NEW E, NEW s \in Seq(E), NEW x \in E
  PROVE  bars(Append(s, x)) \subseteq bars(s) \cup {x}
<1>1. ASSUME NEW i \in 1..Len(Append(s, x))
      PROVE  Append(s, x)[i] = x \/ (i \in 1..Len(s) /\ Append(s, x)[i] = s[i])
  <2>1. i = Len(s) + 1 \/ i \in 1..Len(s)
    OBVIOUS
  <2> QED
    BY <2>1
<1> QED
  BY <1>1 DEF bars

LEMMA BarsOfWith ==
  ASSUME open \in Seq(Bar), NEW x \in Bar
  PROVE  bars(with(x)) \subseteq bars(open) \cup {x}
<1>1. CASE get(keyOf(x)) = <<>>
  BY <1>1, BarsOfAppend DEF with
<1>2. CASE get(keyOf(x)) # <<>>
  <2>1. PICK q : q = [i \in 1..Len(open) |-> IF keyOf(open[i]) = keyOf(x) THEN x ELSE open[i]]
    OBVIOUS
  <2>2. \A i \in 1..Len(open) : q[i] \in Bar /\ (q[i] = x \/ q[i] = open[i])
    BY <2>1
  <2>3. q \in Seq(Bar) /\ Len(q) = Len(open)
    BY <2>1, <2>2, IsSequence
  <2>4. with(x) = q
    BY <1>2, <2>1 DEF with
  <2> QED
    BY <2>2, <2>3, <2>4 DEF bars
<1> QED
  BY <1>1, <1>2

LEMMA BarsOfWithout ==
  ASSUME open \in Seq(Bar), NEW key
  PROVE  bars(without(key)) \subseteq bars(open)
<1>1. PICK f : Kept(f, key)
  BY WithoutOpen
<1>2. PICK c : c = without(key) /\ Picks(f, c, open, KeptPlaces(key), Len(open))
  BY <1>1 DEF Kept
<1>3. \A i \in 1..Len(c) : f[i] \in 1..Len(open) /\ c[i] = open[f[i]]
  BY <1>2 DEF Picks
<1> QED
  BY <1>2, <1>3 DEF bars

\* The steps that build no bar move bars about.
LEMMA BarsMove ==
  ASSUME Types, NEW b \in Builders,
         \/ Poll(b) \/ Scan(b) \/ Pop(b) \/ PublishClosed(b) \/ CacheClosed(b)
         \/ UpsertClosed(b) \/ SetOpen(b) \/ CacheOpen(b) \/ Fail(b)
  PROVE  Everywhere' \subseteq Everywhere
<1>0. pc \in [Builders -> Steps] /\ bar \in [Builders -> Seq(Bar)] /\ open \in Seq(Bar)
      /\ closed \in Seq(Bar)
  BY DEF Types, RequestTypes, SinkTypes
<1> DEFINE Held == {bar[c][1] : c \in {d \in Builders : pc[d] \in Holding}}
<1>1. pc[b] \in Holding => bar[b][1] \in Held /\ bar[b][1] \in Bar
  BY BarType DEF Types
<1>2. ASSUME \A c \in Builders : pc'[c] \in Holding => pc[c] \in Holding /\ bar'[c] = bar[c]
      PROVE  Held' \subseteq Held
  BY <1>2
<1>3. CASE Poll(b) \/ Scan(b) \/ Fail(b)
  <2>1. UNCHANGED <<open, closed, rows, cache>>
    BY <1>3 DEF Poll, Scan, Fail
  <2>2. \A c \in Builders : pc'[c] \in Holding => pc[c] \in Holding /\ bar'[c] = bar[c]
    BY <1>0, <1>3 DEF Poll, Scan, Fail, Fresh, Goto, Holding
  <2>3. Held' \subseteq Held
    BY <1>2, <2>2
  <2> HIDE DEF Held
  <2> QED
    BY <2>1, <2>3 DEF Everywhere, bars, Values, Held
<1>4. CASE Pop(b)
  <2>0. PICK key : key = Head(closing[b])
    OBVIOUS
  <2>1. UNCHANGED <<closed, rows, cache>> /\ open' = without(key)
        /\ bar' = [bar EXCEPT ![b] = get(key)]
        /\ pc' = [pc EXCEPT ![b] = IF get(key) = <<>> THEN "pop" ELSE "publish"]
    BY <1>0, <1>4, <2>0 DEF Pop, Goto
  <2>2. bars(open') \subseteq bars(open)
    BY <1>0, <2>1, BarsOfWithout
  <2>3. get(key) # <<>> => get(key)[1] \in bars(open)
    <3>1. PICK c \in Seq(Bar) : c = get(key)
      BY <1>0, GetOpen
    <3>2. c # <<>> => 1 \in 1..Len(c)
      OBVIOUS
    <3>3. c # <<>> => \E n \in 1..Len(open) : c[1] = open[n]
      BY <1>0, <3>1, <3>2, GetOpen
    <3> QED
      BY <3>1, <3>3 DEF bars
  <2>4. Held' \subseteq Held \cup bars(open)
    BY <1>0, <2>1, <2>3 DEF Holding
  <2> HIDE DEF Held
  <2> QED
    BY <2>1, <2>2, <2>4 DEF Everywhere, bars, Values, Held
<1>5. CASE PublishClosed(b) \/ CacheClosed(b) \/ UpsertClosed(b) \/ SetOpen(b) \/ CacheOpen(b)
  <2>1. pc[b] \in Holding
    BY <1>5 DEF PublishClosed, CacheClosed, UpsertClosed, SetOpen, CacheOpen, Holding
  <2>2. PICK x \in Bar : x = bar[b][1] /\ x \in Held
    BY <1>1, <2>1
  <2>3. \A c \in Builders : pc'[c] \in Holding => pc[c] \in Holding /\ bar'[c] = bar[c]
    BY <1>0, <1>5, <2>1 DEF PublishClosed, CacheClosed, UpsertClosed, SetOpen, CacheOpen, Goto, Holding
  <2>4. Held' \subseteq Held
    BY <1>2, <2>3
  <2>5. bars(open') \subseteq bars(open) \cup {x}
    BY <1>0, <1>5, <2>2, BarsOfWith DEF PublishClosed, CacheClosed, UpsertClosed, SetOpen, CacheOpen
  <2>6. bars(closed') \subseteq bars(closed) \cup {x}
    <3>1. closed' = closed \/ closed' = Append(closed, x)
      BY <1>5, <2>2 DEF PublishClosed, CacheClosed, UpsertClosed, SetOpen, CacheOpen, publish
    <3> QED
      BY <1>0, <3>1, BarsOfAppend
  <2>7. Values(rows') \subseteq Values(rows) \cup {x}
    <3>1. rows' = rows \/ rows' = put(rows, keyOf(x), x)
      BY <1>5, <2>2 DEF PublishClosed, CacheClosed, UpsertClosed, SetOpen, CacheOpen
    <3> QED
      BY <3>1, PutValues
  <2>8. Values(cache') \subseteq Values(cache) \cup {x}
    <3>1. cache' = cache \/ \E key : cache' = put(cache, key, x)
      BY <1>5, <2>2 DEF PublishClosed, CacheClosed, UpsertClosed, SetOpen, CacheOpen
    <3> QED
      BY <3>1, PutValues
  <2> HIDE DEF Held
  <2> QED
    BY <2>2, <2>4, <2>5, <2>6, <2>7, <2>8 DEF Everywhere, bars, Values, Held
<1> QED
  BY <1>3, <1>4, <1>5

LEMMA BarsBuilt ==
  ASSUME Types, NEW b \in Builders, Build(b)
  PROVE  \E x : Built(b, x) /\ Everywhere' \subseteq Everywhere \cup {x} /\ bar' = [bar EXCEPT ![b] = <<x>>]
<1>0. pc \in [Builders -> Steps] /\ bar \in [Builders -> Seq(Bar)]
  BY DEF Types, RequestTypes
<1>1. UNCHANGED <<open, closed, rows, cache>> /\ pc' = [pc EXCEPT ![b] = "write"]
  BY DEF Build, Goto
<1>2. PICK x : Built(b, x)
  BY DEF Built
<1>3. bar' = [bar EXCEPT ![b] = <<x>>]
  BY <1>2 DEF Build, Built
<1> DEFINE Held == {bar[c][1] : c \in {d \in Builders : pc[d] \in Holding}}
<1>4. bar'[b] = <<x>> /\ <<x>>[1] = x /\ \A c \in Builders : c # b => pc'[c] = pc[c] /\ bar'[c] = bar[c]
  BY <1>0, <1>1, <1>3
<1>5. Held' \subseteq Held \cup {x}
  BY <1>4
<1> HIDE DEF Held
<1>6. Everywhere' \subseteq Everywhere \cup {x}
  BY <1>1, <1>5 DEF Everywhere, bars, Values, Held
<1> QED
  BY <1>2, <1>3, <1>6

\* A request keeps the records of its poll in their order.
LEMMA BatchesKept ==
  ASSUME Types, Batches, [Next]_vars
  PROVE  Batches'
<1>0. /\ batch \in [Builders -> Seq(Records)] /\ Grown(ticks, ticks')
      /\ ticks \in Seq(Ticks) /\ Len(ticks) \in Nat /\ delivered \in Nat
  BY TypesKept DEF Types, RequestTypes, GatewayTypes, OffsetTypes
<1>1. ASSUME NEW b \in Builders, batch'[b] = batch[b], delivered <= delivered', delivered' \in Nat
      PROVE  Faithful(b)'
  <2>1. Faithful(b)
    BY DEF Batches
  <2>2. \A n \in 1..Len(batch[b]) : batch[b][n].offset \in 1..Len(ticks)
    BY <2>1 DEF Faithful, Genuine
  <2>3. \A n \in 1..Len(batch[b]) : ticks'[batch[b][n].offset] = ticks[batch[b][n].offset]
          /\ batch[b][n].offset \in 1..Len(ticks')
    BY <1>0, <2>2 DEF Grown
  <2>4. \A n \in 1..Len(batch[b]) : batch[b][n].offset <= delivered'
    BY <1>0, <1>1, <2>1, <2>2 DEF Faithful
  <2> QED
    BY <1>1, <2>1, <2>3, <2>4 DEF Faithful, Genuine
<1>2. ASSUME NEW b \in Builders, batch'[b] = <<>>
      PROVE  Faithful(b)'
  BY <1>2 DEF Faithful
<1>3. ASSUME NEW b \in Builders, Poll(b)
      PROVE  Batches'
  <2>1. PICK n \in 1..smaller(MaxBatch, Len(ticks) - committed) :
          /\ batch' = [batch EXCEPT ![b] = poll(ticks, committed, n)]
          /\ delivered' = larger(delivered, committed + n)
    BY <1>3 DEF Poll
  <2>2. n \in Nat /\ n >= 1 /\ committed + n <= Len(ticks) /\ committed \in Nat
    BY BuilderAssumption DEF OffsetTypes, GatewayTypes, smaller, Types
  <2>3. PICK p \in Seq(Records) :
          /\ p = poll(ticks, committed, n) /\ Len(p) = n
          /\ \A i \in 1..n : p[i].offset = committed + i /\ p[i].value = ticks[committed + i]
    BY <2>2, Polled DEF Types
  <2>4. batch'[b] = p /\ delivered <= delivered' /\ committed + n <= delivered' /\ delivered' \in Nat
    BY <1>0, <2>1, <2>2, <2>3 DEF larger
  <2>5. ticks' = ticks /\ 1 \in 1..n
    BY <1>3, <2>2 DEF Poll, gatewayVars
  <2>6. Faithful(b)'
    <3>1. p[1].offset = committed + 1
      BY <2>3, <2>5
    <3>2. ASSUME NEW i \in 1..n
          PROVE  /\ p[i].offset \in 1..Len(ticks) /\ p[i].value = ticks[p[i].offset]
                 /\ p[i].offset <= delivered' /\ p[i].offset = p[1].offset + (i - 1)
      <4>1. p[i].offset = committed + i /\ p[i].value = ticks[committed + i]
        BY <2>3
      <4>2. PICK at \in Int : at = committed + i
        BY <2>2
      <4>3. at \in 1..Len(ticks) /\ at <= delivered'
        BY ONLY <1>0, <2>2, <2>4, <4>2
      <4>4. at = (committed + 1) + (i - 1)
        BY ONLY <2>2, <4>2
      <4> QED
        BY ONLY <3>1, <4>1, <4>2, <4>3, <4>4
    <3> QED
      BY <2>3, <2>4, <2>5, <3>2 DEF Faithful, Genuine
  <2>7. \A c \in Builders : c # b => batch'[c] = batch[c]
    BY <1>0, <2>1
  <2> QED
    BY <1>1, <2>4, <2>6, <2>7 DEF Batches
<1>4. ASSUME NEW b \in Builders, CacheOpen(b)
      PROVE  Batches'
  <2>1. pc[b] # "idle" /\ batch' = [batch EXCEPT ![b] = Tail(@)]
        /\ UNCHANGED <<ticks, delivered>>
    BY <1>4 DEF CacheOpen, gatewayVars
  <2>2. PICK p \in Seq(Records) : p = batch[b] /\ p # <<>>
    BY <2>1, TickType DEF Types
  <2>3. PICK k \in Nat : k + 1 = Len(p)
    <3>1. Len(p) - 1 \in Nat
      BY <2>2
    <3> QED
      BY <3>1
  <2>4. Len(Tail(p)) = k /\ \A n \in 1..k : Tail(p)[n] = p[n + 1]
    BY <2>2, <2>3
  <2>5. \A n \in 1..k + 1 : /\ Genuine(p[n], ticks) /\ p[n].offset <= delivered
                            /\ p[n].offset = p[1].offset + (n - 1)
    BY <2>2, <2>3 DEF Batches, Faithful
  <2>6. PICK q : q = Tail(p)
    OBVIOUS
  <2>7. p[1].offset \in Nat
    <3>1. 1 \in 1..k + 1
      OBVIOUS
    <3> QED
      BY <2>5, <3>1 DEF Genuine
  <2>8. \A n \in 1..k : /\ Genuine(q[n], ticks) /\ q[n].offset <= delivered
                        /\ q[n].offset = q[1].offset + (n - 1)
    <3> SUFFICES ASSUME NEW n \in 1..k
                 PROVE  /\ Genuine(q[n], ticks) /\ q[n].offset <= delivered
                        /\ q[n].offset = q[1].offset + (n - 1)
      OBVIOUS
    <3>1. q[n] = p[n + 1] /\ q[1] = p[2] /\ n + 1 \in 1..k + 1 /\ 2 \in 1..k + 1
      BY <2>4, <2>6
    <3>2. p[n + 1].offset = p[1].offset + ((n + 1) - 1) /\ p[2].offset = p[1].offset + (2 - 1)
      BY <2>5, <3>1
    <3>3. q[n].offset = q[1].offset + (n - 1)
      BY <2>7, <3>1, <3>2
    <3> QED
      BY <2>5, <3>1, <3>3
  <2>9. batch'[b] = q /\ Len(q) = k /\ \A c \in Builders : c # b => batch'[c] = batch[c]
    BY <1>0, <2>1, <2>2, <2>4, <2>6
  <2>10. Faithful(b)'
    BY <2>1, <2>8, <2>9 DEF Faithful
  <2> QED
    BY <1>0, <1>1, <2>1, <2>9, <2>10 DEF Batches
<1>5. ASSUME (\E b \in Builders : Fail(b)) \/ Restart
      PROVE  Batches'
  <2>1. delivered' = delivered /\ \A b \in Builders : batch'[b] \in {<<>>, batch[b]}
    BY <1>5 DEF Fail, Restart, Fresh
  <2> QED
    BY <1>0, <1>1, <1>2, <2>1 DEF Batches
<1>6. ASSUME batch' = batch, delivered' = delivered
      PROVE  Batches'
  BY <1>0, <1>1, <1>6 DEF Batches
<1>7. ASSUME NEW b \in Builders, Scan(b) \/ Pop(b) \/ PublishClosed(b) \/ CacheClosed(b)
             \/ UpsertClosed(b) \/ Build(b) \/ SetOpen(b)
      PROVE  Batches'
  BY <1>6, <1>7 DEF Scan, Pop, PublishClosed, CacheClosed, UpsertClosed, Build, SetOpen
<1>8. CASE Commit \/ (GatewayNext /\ UNCHANGED builderVars) \/ UNCHANGED vars
  BY <1>6, <1>8 DEF Commit, builderVars, vars
<1> QED
  BY <1>3, <1>4, <1>5, <1>7, <1>8 DEF Next, Step

LEMMA BuiltSound ==
  ASSUME Types, Batches, SoundBars, NEW b \in Builders, pc[b] # "idle", NEW x, Built(b, x)
  PROVE  Sound(x)
<1>1. PICK r \in Records : r = Head(batch[b]) /\ keyOf(r.value) = keyOf(tick(b))
  BY TickType DEF Types, tick
<1>2. Genuine(r, ticks)
  <2>1. batch[b] \in Seq(Records) /\ batch[b] # <<>>
    BY TickType DEF Types
  <2>2. 1 \in 1..Len(batch[b]) /\ r = batch[b][1]
    BY <1>1, <2>1
  <2> QED
    BY <2>2 DEF Batches, Faithful
<1>3. PICK t \in Seq(Ticks) : t = ticks
  BY DEF Types, GatewayTypes
<1>4. PICK key : key = keyOf(tick(b))
  OBVIOUS
<1>5. PICK old \in Seq(Bar) : old = get(key)
  BY GetOpen DEF Types, SinkTypes
<1>6. CASE old = <<>>
  <2>1. x = createBar(r)
    BY <1>1, <1>4, <1>5, <1>6 DEF Built
  <2> QED
    BY <1>2, <1>3, <2>1, CreatedAggregate DEF Sound
<1>7. CASE old # <<>>
  <2>1. 1 \in 1..Len(old)
    BY <1>7
  <2>2. PICK y \in Bar : y = old[1]
    BY <2>1
  <2>3. PICK n \in 1..Len(open) : keyOf(open[n]) = key /\ y = open[n]
    BY <1>5, <2>1, <2>2, GetOpen DEF Types, SinkTypes
  <2>4. Sound(y)
    BY <2>3 DEF SoundBars, Everywhere, bars
  <2>5. x = updateBar(y, r)
    BY <1>1, <1>4, <1>5, <1>7, <2>2 DEF Built
  <2>6. Aggregate(updateBar(y, r), t)
    BY <1>1, <1>2, <1>3, <1>4, <2>3, <2>4, UpdatedAggregate DEF Sound
  <2> QED
    BY <1>3, <2>5, <2>6 DEF Sound
<1> QED
  BY <1>6, <1>7

LEMMA SoundBarsKept ==
  ASSUME Types, Batches, SoundBars, [Next]_vars
  PROVE  SoundBars'
<1>1. Grown(ticks, ticks')
  BY TypesKept
<1>2. ASSUME Everywhere' \subseteq Everywhere
      PROVE  SoundBars'
  <2>1. \A x : Sound(x) => Sound(x)'
    BY <1>1, AggregateGrows DEF Sound
  <2> QED
    BY <1>2, <2>1 DEF SoundBars
<1>3. CASE (GatewayNext /\ UNCHANGED builderVars) \/ Commit \/ UNCHANGED vars
  <2>1. Everywhere' = Everywhere
    BY <1>3 DEF builderVars, vars, Commit, Everywhere, bars, Values
  <2> QED
    BY <1>2, <2>1
<1>4. CASE Restart
  <2>1. Everywhere' \subseteq Everywhere
    BY <1>4 DEF Restart, Fresh, Everywhere, bars, Values, Holding
  <2> QED
    BY <1>2, <2>1
<1>5. ASSUME NEW b \in Builders, Build(b)
      PROVE  SoundBars'
  <2>1. PICK x : Built(b, x) /\ Everywhere' \subseteq Everywhere \cup {x}
    BY <1>5, BarsBuilt
  <2>2. Sound(x)
    BY <1>5, <2>1, BuiltSound DEF Build
  <2>3. ticks' = ticks
    BY <1>5 DEF Build, gatewayVars
  <2> QED
    BY <2>1, <2>2, <2>3 DEF SoundBars, Sound
<1>6. ASSUME NEW b \in Builders, Poll(b) \/ Step(b) \/ Fail(b), ~Build(b)
      PROVE  SoundBars'
  BY <1>2, <1>6, BarsMove DEF Step
<1> QED
  BY <1>3, <1>4, <1>5, <1>6 DEF Next, Step

\* What create_bar_from_tick and update_existing_bar make of a minute's ticks is
\* their aggregate, in memory and in every sink, whatever is delivered twice,
\* fails or overlaps.
THEOREM BarsAggregate == Spec => []BarsAreAggregates
<1>1. Init => Types /\ Batches /\ SoundBars
  <2>1. Init => Batches /\ SoundBars
    BY DEF Init, Batches, Faithful, SoundBars, Everywhere, bars, Values, Holding, empty
  <2> QED
    BY <2>1, TypesInit
<1>2. Types /\ Batches /\ SoundBars /\ [Next]_vars => (Types /\ Batches /\ SoundBars)'
  BY TypesKept, BatchesKept, SoundBarsKept
<1>3. SoundBars => BarsAreAggregates
  <2> SUFFICES ASSUME SoundBars,
                      NEW x \in bars(open) \cup bars(closed) \cup inHand
                        \cup {rows[k] : k \in DOMAIN rows} \cup {cache[k] : k \in DOMAIN cache}
               PROVE  LET used == bars(x.ticks)
                          prices == {ticks[i].price : i \in used}
                      IN /\ \A i \in used : keyOf(ticks[i]) = keyOf(x)
                         /\ x.open = ticks[x.ticks[1]].price
                         /\ x.close = ticks[x.ticks[Len(x.ticks)]].price
                         /\ {x.high, x.low} \subseteq prices
                         /\ \A p \in prices : x.low <= p /\ p <= x.high
                         /\ x.volume = Len(x.ticks)
    BY DEF BarsAreAggregates
  <2>1. Aggregate(x, ticks)
    BY DEF SoundBars, Sound, Everywhere, Values, inHand, Holding
  <2> DEFINE used == bars(x.ticks)
             prices == {ticks[i].price : i \in used}
  <2>2. \A i \in used : \E m \in 1..Len(x.ticks) : i = x.ticks[m]
    BY DEF bars
  <2>3. \A m \in 1..Len(x.ticks) : x.ticks[m] \in used
    BY DEF bars
  <2>4. \A i \in used :
          keyOf(ticks[i]) = keyOf(x) /\ x.low <= ticks[i].price /\ ticks[i].price <= x.high
    BY <2>1, <2>2 DEF Aggregate, Within
  <2>5. \A p \in prices : x.low <= p /\ p <= x.high
    BY <2>4
  <2>6. x.high \in prices /\ x.low \in prices
    BY <2>1, <2>3 DEF Aggregate
  <2> HIDE DEF used
  <2> QED
    BY <2>1, <2>4, <2>5, <2>6 DEF Aggregate, used
<1> QED
  BY <1>1, <1>2, <1>3, PTL DEF Spec

-----------------------------------------------------------------------------
(***************************************************************************)
(* The bars in which ticks are counted, each at its place: in the topic of *)
(* closed bars, among the open ones, or in the hands of a request that has *)
(* taken it off the open ones and has not yet published it.  P and Q are   *)
(* the bars of all places, before and after a step.                        *)
(***************************************************************************)
Spots(c, o, H) == ({"closed"} \X (1..Len(c))) \cup ({"open"} \X (1..Len(o))) \cup ({"hand"} \X H)
Board(c, o, H, h) ==
  [p \in Spots(c, o, H) |-> CASE p[1] = "closed" -> c[p[2]]
                              [] p[1] = "open" -> o[p[2]]
                              [] p[1] = "hand" -> h[p[2]][1]]
Hands == {b \in Builders : pc[b] = "publish"}
Placed == Board(closed, open, Hands, bar)

Counts(x, i) == \E m \in 1..Len(x.ticks) : x.ticks[m] = i
Counted(P, i) == \E p \in DOMAIN P : Counts(P[p], i)
CountedOnce(P) ==
  \A p, q \in DOMAIN P : \A m \in 1..Len(P[p].ticks), n \in 1..Len(P[q].ticks) :
    P[p].ticks[m] = P[q].ticks[n] => p = q /\ m = n
IsTick(P, p, m, i) == p \in DOMAIN P /\ m \in 1..Len(P[p].ticks) /\ P[p].ticks[m] = i
SamePlace(p, q, m, n) == p = q /\ m = n

LEMMA OnceAt ==
  ASSUME NEW P, CountedOnce(P), NEW p, NEW q, NEW m, NEW n, NEW i, NEW j, i = j,
         IsTick(P, p, m, i), IsTick(P, q, n, j)
  PROVE  SamePlace(p, q, m, n)
BY DEF CountedOnce, IsTick, SamePlace

KeysApart(P) == \A p, q \in DOMAIN P : keyOf(P[p]) = keyOf(P[q]) => p = q

\* Every bar of Q was in P, at another place perhaps; and all of P are in Q.
From(g, Q, P) ==
  /\ g \in [DOMAIN Q -> DOMAIN P] /\ \A p \in DOMAIN Q : Q[p] = P[g[p]]
  /\ \A p, q \in DOMAIN Q : g[p] = g[q] => p = q
Onto(g, Q, P) == \A p \in DOMAIN P : \E q \in DOMAIN Q : g[q] = p
Moved(P, Q) == \E g : From(g, Q, P) /\ Onto(g, Q, P)
Dropped(P, Q) == \E g : From(g, Q, P)
\* The tick o has been added to the bar at z, or to a new bar there.
Added(P, Q, z, o, key) ==
  /\ DOMAIN Q = DOMAIN P \cup {z} /\ \A p \in DOMAIN P \ {z} : Q[p] = P[p]
  /\ keyOf(Q[z]) = key
  /\ IF z \in DOMAIN P
     THEN Q[z].ticks = Append(P[z].ticks, o) /\ keyOf(P[z]) = key
     ELSE Q[z].ticks = <<o>>

LEMMA MovedCounts ==
  ASSUME NEW P, NEW Q, Moved(P, Q), NEW i, Counted(P, i)
  PROVE  Counted(Q, i)
<1>1. PICK g : From(g, Q, P) /\ Onto(g, Q, P)
  BY DEF Moved
<1>2. PICK p \in DOMAIN P : Counts(P[p], i)
  BY DEF Counted
<1>3. PICK q \in DOMAIN Q : g[q] = p
  BY <1>1 DEF Onto
<1>4. Q[q] = P[p]
  BY <1>1, <1>3 DEF From
<1> QED
  BY <1>2, <1>4 DEF Counted

LEMMA DroppedOnce ==
  ASSUME NEW P, NEW Q, Dropped(P, Q), CountedOnce(P)
  PROVE  CountedOnce(Q)
<1>1. PICK g : From(g, Q, P)
  BY DEF Dropped
<1>2. \A p \in DOMAIN Q : g[p] \in DOMAIN P /\ Q[p] = P[g[p]]
  BY <1>1 DEF From
<1>3. \A p, q \in DOMAIN Q : g[p] = g[q] => p = q
  BY <1>1 DEF From
<1> SUFFICES ASSUME NEW p \in DOMAIN Q, NEW q \in DOMAIN Q, NEW m \in 1..Len(Q[p].ticks),
                    NEW n \in 1..Len(Q[q].ticks), Q[p].ticks[m] = Q[q].ticks[n]
             PROVE  p = q /\ m = n
  BY DEF CountedOnce
<1>4. g[p] = g[q] /\ m = n
  BY <1>2 DEF CountedOnce
<1> QED
  BY <1>3, <1>4

LEMMA DroppedKeys ==
  ASSUME NEW P, NEW Q, Dropped(P, Q), KeysApart(P)
  PROVE  KeysApart(Q)
BY DEF Dropped, From, KeysApart

LEMMA DroppedCounts ==
  ASSUME NEW P, NEW Q, Dropped(P, Q), NEW i, Counted(Q, i)
  PROVE  Counted(P, i)
BY DEF Dropped, From, Counted

TickLists(P) == \A p \in DOMAIN P : P[p].ticks \in Seq(Nat)

LEMMA AddedCounts ==
  ASSUME NEW P, NEW Q, NEW z, NEW o \in Nat, NEW key, Added(P, Q, z, o, key),
         TickLists(P)
  PROVE  /\ Counted(Q, o)
         /\ \A i : Counted(P, i) => Counted(Q, i)
         /\ \A i : Counted(Q, i) => Counted(P, i) \/ i = o
<1>1. z \in DOMAIN Q /\ DOMAIN P \subseteq DOMAIN Q
  BY DEF Added
<1>2. \A p \in DOMAIN P : p # z => Q[p] = P[p]
  BY DEF Added
<1>3. CASE z \in DOMAIN P
  <2>1. PICK s \in Seq(Nat) : s = P[z].ticks
    BY <1>3 DEF TickLists
  <2>2. PICK k \in Nat : k = Len(s)
    OBVIOUS
  <2>3. Q[z].ticks = Append(s, o)
    BY <1>3, <2>1 DEF Added
  <2>4. Len(Append(s, o)) = k + 1 /\ Append(s, o)[k + 1] = o /\ \A m \in 1..k : Append(s, o)[m] = s[m]
    BY <2>2
  <2>5. \A m \in 1..k + 1 : m = k + 1 \/ m \in 1..k
    OBVIOUS
  <2>6. k + 1 \in 1..k + 1 /\ \A m \in 1..k : m \in 1..k + 1
    OBVIOUS
  <2>7. Counts(Q[z], o)
    BY <2>3, <2>4, <2>6 DEF Counts
  <2>8. ASSUME NEW i
        PROVE  /\ Counts(P[z], i) => Counts(Q[z], i)
               /\ Counts(Q[z], i) => Counts(P[z], i) \/ i = o
    BY <2>1, <2>2, <2>3, <2>4, <2>5, <2>6 DEF Counts
  <2> QED
    BY <1>1, <1>2, <1>3, <2>7, <2>8 DEF Counted, Added
<1>4. CASE z \notin DOMAIN P
  <2>1. Q[z].ticks = <<o>>
    BY <1>4 DEF Added
  <2>2. \A i : Counts(Q[z], i) <=> i = o
    BY <2>1 DEF Counts
  <2> QED
    BY <1>1, <1>2, <1>4, <2>2 DEF Counted, Added
<1> QED
  BY <1>3, <1>4

OldTick(P, Q, p, m) ==
  p \in DOMAIN P /\ m \in 1..Len(P[p].ticks) /\ Q[p].ticks[m] = P[p].ticks[m]
NewTick(Q, z, o, p, m) == p = z /\ Q[p].ticks[m] = o /\ m = Len(Q[z].ticks)

LEMMA AddedTick ==
  ASSUME NEW P, NEW Q, NEW z, NEW o \in Nat, NEW key, Added(P, Q, z, o, key),
         TickLists(P), NEW p \in DOMAIN Q, NEW m \in 1..Len(Q[p].ticks)
  PROVE  OldTick(P, Q, p, m) \/ NewTick(Q, z, o, p, m)
<1> SUFFICES ASSUME ~OldTick(P, Q, p, m)
             PROVE  p = z /\ Q[p].ticks[m] = o /\ m = Len(Q[z].ticks)
  BY DEF NewTick
<1>1. p = z
  BY DEF Added, OldTick
<1>2. CASE z \in DOMAIN P
  <2>1. PICK s \in Seq(Nat) : s = P[z].ticks
    BY <1>2 DEF TickLists
  <2>2. PICK k \in Nat : k = Len(s)
    OBVIOUS
  <2>3. Q[z].ticks = Append(s, o)
    BY <1>2, <2>1 DEF Added
  <2>4. Len(Append(s, o)) = k + 1 /\ Append(s, o)[k + 1] = o /\ \A j \in 1..k : Append(s, o)[j] = s[j]
    BY <2>2
  <2>5. m = k + 1 \/ m \in 1..k
    BY <1>1, <2>3, <2>4
  <2>6. m \notin 1..k
    BY <1>1, <1>2, <2>1, <2>2, <2>3, <2>4 DEF OldTick
  <2> QED
    BY <1>1, <2>3, <2>4, <2>5, <2>6
<1>3. CASE z \notin DOMAIN P
  <2>1. Q[z].ticks = <<o>>
    BY <1>3 DEF Added
  <2>2. Len(<<o>>) = 1 /\ <<o>>[1] = o
    OBVIOUS
  <2>3. m = 1
    BY <1>1, <2>1, <2>2
  <2> QED
    BY <1>1, <2>1, <2>2, <2>3
<1> QED
  BY <1>2, <1>3

LEMMA AddedOnce ==
  ASSUME NEW P, NEW Q, NEW z, NEW o \in Nat, NEW key, Added(P, Q, z, o, key),
         TickLists(P), CountedOnce(P), ~Counted(P, o)
  PROVE  CountedOnce(Q)
<1>1. \A p \in DOMAIN P : \A m \in 1..Len(P[p].ticks) : P[p].ticks[m] # o
  BY DEF Counted, Counts
<1> SUFFICES ASSUME NEW p \in DOMAIN Q, NEW q \in DOMAIN Q, NEW m \in 1..Len(Q[p].ticks),
                    NEW n \in 1..Len(Q[q].ticks), Q[p].ticks[m] = Q[q].ticks[n]
             PROVE  p = q /\ m = n
  BY DEF CountedOnce
<1>2. OldTick(P, Q, p, m) \/ NewTick(Q, z, o, p, m)
  BY AddedTick
<1>3. OldTick(P, Q, q, n) \/ NewTick(Q, z, o, q, n)
  BY AddedTick
<1>4. CASE Q[p].ticks[m] = o
  BY <1>1, <1>2, <1>3, <1>4 DEF OldTick, NewTick
<1>5. CASE Q[p].ticks[m] # o
  <2>1. OldTick(P, Q, p, m) /\ OldTick(P, Q, q, n)
    BY <1>2, <1>3, <1>5 DEF NewTick
  <2>2. p \in DOMAIN P /\ m \in 1..Len(P[p].ticks) /\ Q[p].ticks[m] = P[p].ticks[m]
    BY <2>1 DEF OldTick
  <2>3. q \in DOMAIN P /\ n \in 1..Len(P[q].ticks) /\ Q[q].ticks[n] = P[q].ticks[n]
    BY <2>1 DEF OldTick
  <2>4. P[p].ticks[m] = P[q].ticks[n]
    BY <2>2, <2>3
  <2> QED
    BY ONLY <2>2, <2>3, <2>4, CountedOnce(P) DEF CountedOnce
<1> QED
  BY <1>4, <1>5

LEMMA AddedKeys ==
  ASSUME NEW P, NEW Q, NEW z, NEW o, NEW key, Added(P, Q, z, o, key), KeysApart(P),
         z \notin DOMAIN P => \A p \in DOMAIN P : keyOf(P[p]) # key
  PROVE  KeysApart(Q)
<1>1. \A p \in DOMAIN Q : p # z => p \in DOMAIN P /\ Q[p] = P[p]
  BY DEF Added
<1>2. \A p \in DOMAIN P : p # z => keyOf(P[p]) # key
  BY DEF Added, KeysApart
<1>3. keyOf(Q[z]) = key
  BY DEF Added
<1> SUFFICES ASSUME NEW p \in DOMAIN Q, NEW q \in DOMAIN Q, keyOf(Q[p]) = keyOf(Q[q])
             PROVE  p = q
  BY DEF KeysApart
<1>4. CASE p = z \/ q = z
  BY <1>1, <1>2, <1>3, <1>4
<1>5. CASE p # z /\ q # z
  BY <1>1, <1>5 DEF KeysApart
<1> QED
  BY <1>4, <1>5

\* What a board has, place by place.
IsBoard(P, c, o, H, h) ==
  /\ \A n \in 1..Len(c) : <<"closed", n>> \in DOMAIN P /\ P[<<"closed", n>>] = c[n]
  /\ \A n \in 1..Len(o) : <<"open", n>> \in DOMAIN P /\ P[<<"open", n>>] = o[n]
  /\ \A b \in H : <<"hand", b>> \in DOMAIN P /\ P[<<"hand", b>>] = h[b][1]
  /\ \A p \in DOMAIN P : \/ \E n \in 1..Len(c) : p = <<"closed", n>>
                         \/ \E n \in 1..Len(o) : p = <<"open", n>>
                         \/ \E b \in H : p = <<"hand", b>>

LEMMA BoardPlaces ==
  ASSUME NEW c, NEW o, NEW H, NEW h
  PROVE  IsBoard(Board(c, o, H, h), c, o, H, h)
<1> DEFINE P == Board(c, o, H, h)
<1>1. DOMAIN P = Spots(c, o, H)
  BY DEF Board
<1>2. \A p \in Spots(c, o, H) : P[p] = CASE p[1] = "closed" -> c[p[2]]
                                         [] p[1] = "open" -> o[p[2]]
                                         [] p[1] = "hand" -> h[p[2]][1]
  BY DEF Board
<1> HIDE DEF P
<1>3. ASSUME NEW n \in 1..Len(c)
      PROVE  <<"closed", n>> \in DOMAIN P /\ P[<<"closed", n>>] = c[n]
  BY <1>1, <1>2 DEF Spots
<1>4. ASSUME NEW n \in 1..Len(o)
      PROVE  <<"open", n>> \in DOMAIN P /\ P[<<"open", n>>] = o[n]
  BY <1>1, <1>2 DEF Spots
<1>5. ASSUME NEW b \in H
      PROVE  <<"hand", b>> \in DOMAIN P /\ P[<<"hand", b>>] = h[b][1]
  BY <1>1, <1>2 DEF Spots
<1>6. ASSUME NEW p \in DOMAIN P
      PROVE  \/ \E n \in 1..Len(c) : p = <<"closed", n>>
             \/ \E n \in 1..Len(o) : p = <<"open", n>>
             \/ \E b \in H : p = <<"hand", b>>
  BY <1>1 DEF Spots
<1> QED
  BY <1>3, <1>4, <1>5, <1>6 DEF IsBoard, P

LEMMA BoardSame ==
  ASSUME NEW c, NEW o, NEW H, NEW h, NEW k, \A b \in H : h[b] = k[b]
  PROVE  Board(c, o, H, k) = Board(c, o, H, h)
<1>1. ASSUME NEW p \in Spots(c, o, H)
      PROVE  p[1] = "hand" => h[p[2]][1] = k[p[2]][1]
  BY DEF Spots
<1> QED
  BY <1>1 DEF Board

\* A request that ends drops what it holds, and a restart the open bars.
LEMMA BoardDrop ==
  ASSUME NEW c, NEW o, NEW H, NEW h, NEW q, NEW I, NEW k, q = o \/ q = <<>>, I \subseteq H,
         \A b \in I : h[b] = k[b]
  PROVE  Dropped(Board(c, o, H, h), Board(c, q, I, k))
<1>1. PICK P, Q : P = Board(c, o, H, h) /\ Q = Board(c, q, I, k)
  OBVIOUS
<1>2. IsBoard(P, c, o, H, h) /\ IsBoard(Q, c, q, I, k)
  BY <1>1, BoardPlaces
<1>3. PICK g : g = [p \in DOMAIN Q |-> p]
  OBVIOUS
<1>4. ASSUME NEW p \in DOMAIN Q
      PROVE  p \in DOMAIN P /\ Q[p] = P[p]
  <2>1. CASE \E n \in 1..Len(c) : p = <<"closed", n>>
    BY <1>2, <2>1 DEF IsBoard
  <2>2. CASE \E n \in 1..Len(q) : p = <<"open", n>>
    <3>1. q = o
      BY <2>2
    <3> QED
      BY <1>2, <2>2, <3>1 DEF IsBoard
  <2>3. CASE \E b \in I : p = <<"hand", b>>
    BY <1>2, <2>3 DEF IsBoard
  <2> QED
    BY <1>2, <2>1, <2>2, <2>3 DEF IsBoard
<1>5. From(g, Q, P)
  BY <1>3, <1>4 DEF From
<1> QED
  BY <1>1, <1>5 DEF Dropped

\* Publishing a bar moves it from the request's hands to the topic.
LEMMA BoardPublish ==
  ASSUME NEW E, NEW c \in Seq(E), NEW o, NEW H, NEW h, NEW b \in H, h[b][1] \in E
  PROVE  Moved(Board(c, o, H, h), Board(Append(c, h[b][1]), o, H \ {b}, h))
<1>1. PICK n \in Nat : n = Len(c)
  OBVIOUS
<1>2. PICK d : d = Append(c, h[b][1])
  OBVIOUS
<1>3. Len(d) = n + 1 /\ d[n + 1] = h[b][1] /\ \A i \in 1..n : d[i] = c[i]
  BY <1>1, <1>2, AppendProperties
<1>4. PICK P, Q : P = Board(c, o, H, h) /\ Q = Board(d, o, H \ {b}, h)
  OBVIOUS
<1>5. IsBoard(P, c, o, H, h) /\ IsBoard(Q, d, o, H \ {b}, h)
  BY <1>4, BoardPlaces
<1>6. PICK g : g = [p \in DOMAIN Q |-> IF p = <<"closed", n + 1>> THEN <<"hand", b>> ELSE p]
  OBVIOUS
<1>7. <<"closed", n + 1>> \in DOMAIN Q /\ Q[<<"closed", n + 1>>] = h[b][1]
      /\ <<"hand", b>> \in DOMAIN P /\ P[<<"hand", b>>] = h[b][1]
      /\ <<"hand", b>> \notin DOMAIN Q
  <2>1. n + 1 \in 1..n + 1
    OBVIOUS
  <2> QED
    BY <1>3, <1>5, <2>1 DEF IsBoard
<1>8. ASSUME NEW p \in DOMAIN Q, p # <<"closed", n + 1>>
      PROVE  p \in DOMAIN P /\ Q[p] = P[p] /\ p # <<"hand", b>>
  <2>1. CASE \E i \in 1..n + 1 : p = <<"closed", i>>
    <3>1. PICK i \in 1..n + 1 : p = <<"closed", i>>
      BY <2>1
    <3>2. i \in 1..n
      BY <1>8, <3>1
    <3> QED
      BY <1>1, <1>3, <1>5, <3>1, <3>2 DEF IsBoard
  <2>2. CASE \E i \in 1..Len(o) : p = <<"open", i>>
    BY <1>5, <2>2 DEF IsBoard
  <2>3. CASE \E a \in H \ {b} : p = <<"hand", a>>
    BY <1>5, <2>3 DEF IsBoard
  <2> QED
    BY <1>3, <1>5, <2>1, <2>2, <2>3 DEF IsBoard
<1>9. ASSUME NEW p \in DOMAIN P, p # <<"hand", b>>
      PROVE  p \in DOMAIN Q /\ p # <<"closed", n + 1>>
  <2>1. CASE \E i \in 1..n : p = <<"closed", i>>
    BY <1>3, <1>5, <2>1 DEF IsBoard
  <2>2. CASE \E i \in 1..Len(o) : p = <<"open", i>>
    BY <1>5, <2>2 DEF IsBoard
  <2>3. CASE \E a \in H : p = <<"hand", a>>
    BY <1>5, <1>9, <2>3 DEF IsBoard
  <2> QED
    BY <1>1, <1>5, <2>1, <2>2, <2>3 DEF IsBoard
<1>10. From(g, Q, P)
  BY <1>6, <1>7, <1>8 DEF From
<1>11. Onto(g, Q, P)
  BY <1>6, <1>7, <1>9 DEF Onto
<1> QED
  BY <1>2, <1>4, <1>10, <1>11 DEF Moved

LEMMA PicksApart ==
  ASSUME NEW f, NEW q, NEW o, NEW S, NEW n \in Nat, Picks(f, q, o, S, n),
         NEW i \in 1..Len(q), NEW j \in 1..Len(q), f[i] = f[j]
  PROVE  i = j
<1>1. \A a, b \in 1..Len(q) : a < b => f[a] < f[b]
  BY DEF Picks
<1>2. f[i] \in 1..n /\ f[j] \in 1..n
  BY DEF Picks
<1>3. i < j \/ j < i \/ i = j
  OBVIOUS
<1> QED
  BY <1>1, <1>2, <1>3

\* A pop takes the bar of a place off the open ones, or finds none there.
Popped(o, S, b, k, I) ==
  IF b \in I THEN \E n \in 1..Len(o) : k[b][1] = o[n] /\ \A m \in 1..Len(o) : m \in S <=> m # n
  ELSE \A m \in 1..Len(o) : m \in S

LEMMA BoardPop ==
  ASSUME NEW E, NEW c, NEW o \in Seq(E), NEW q, NEW S, NEW f, Picks(f, q, o, S, Len(o)),
         NEW H, NEW h, NEW k, NEW I, NEW b, b \notin H, I = H \/ I = H \cup {b},
         \A a \in H : h[a] = k[a], Popped(o, S, b, k, I)
  PROVE  Moved(Board(c, o, H, h), Board(c, q, I, k))
<1>1. PICK z \in Nat : z = Len(o)
  OBVIOUS
<1>2. PICK n : b \in I => n \in 1..z /\ k[b][1] = o[n] /\ \A m \in 1..z : m \in S <=> m # n
  BY <1>1 DEF Popped
<1>3. b \notin I => \A m \in 1..z : m \in S
  BY <1>1 DEF Popped
<1>4. PICK P, Q : P = Board(c, o, H, h) /\ Q = Board(c, q, I, k)
  OBVIOUS
<1>5. IsBoard(P, c, o, H, h) /\ IsBoard(Q, c, q, I, k)
  BY <1>4, BoardPlaces
<1>6. PICK g : g = [p \in DOMAIN Q |-> IF p[1] = "open" THEN <<"open", f[p[2]]>>
                                       ELSE IF p = <<"hand", b>> THEN <<"open", n>> ELSE p]
  OBVIOUS
<1>7. \A i \in 1..Len(q) : f[i] \in 1..z /\ f[i] \in S /\ q[i] = o[f[i]]
  BY <1>1 DEF Picks
<1>8. \A i, j \in 1..Len(q) : f[i] = f[j] => i = j
  BY <1>1, PicksApart
<1>9. \A m \in 1..z : m \in S => \E i \in 1..Len(q) : f[i] = m
  BY <1>1 DEF Picks
<1>10. ASSUME NEW i \in 1..Len(c)
       PROVE  /\ <<"closed", i>> \in DOMAIN P /\ <<"closed", i>> \in DOMAIN Q
              /\ g[<<"closed", i>>] = <<"closed", i>> /\ P[<<"closed", i>>] = Q[<<"closed", i>>]
  BY <1>5, <1>6 DEF IsBoard
<1>11. ASSUME NEW i \in 1..Len(q)
       PROVE  /\ <<"open", i>> \in DOMAIN Q /\ <<"open", f[i]>> \in DOMAIN P
              /\ g[<<"open", i>>] = <<"open", f[i]>> /\ P[<<"open", f[i]>>] = Q[<<"open", i>>]
  BY <1>1, <1>5, <1>6, <1>7 DEF IsBoard
<1>12. ASSUME NEW a \in H
       PROVE  /\ <<"hand", a>> \in DOMAIN P /\ <<"hand", a>> \in DOMAIN Q
              /\ g[<<"hand", a>>] = <<"hand", a>> /\ P[<<"hand", a>>] = Q[<<"hand", a>>]
  <2>1. a \in I /\ a # b /\ k[a] = h[a]
    OBVIOUS
  <2>2. <<"hand", a>> \in DOMAIN P /\ P[<<"hand", a>>] = h[a][1]
    BY <1>5 DEF IsBoard
  <2>3. <<"hand", a>> \in DOMAIN Q /\ Q[<<"hand", a>>] = k[a][1]
    BY <1>5, <2>1 DEF IsBoard
  <2>4. <<"hand", a>>[1] # "open" /\ <<"hand", a>> # <<"hand", b>>
    BY <2>1
  <2>5. g[<<"hand", a>>] = <<"hand", a>>
    BY <1>6, <2>3, <2>4
  <2> QED
    BY <2>1, <2>2, <2>3, <2>5
<1>13. ASSUME b \in I
       PROVE  /\ <<"hand", b>> \in DOMAIN Q /\ <<"open", n>> \in DOMAIN P
              /\ g[<<"hand", b>>] = <<"open", n>> /\ P[<<"open", n>>] = Q[<<"hand", b>>]
  BY <1>1, <1>2, <1>5, <1>6, <1>13 DEF IsBoard
<1>14. \A p \in DOMAIN Q : \/ \E i \in 1..Len(c) : p = <<"closed", i>>
                           \/ \E i \in 1..Len(q) : p = <<"open", i>>
                           \/ \E a \in H : p = <<"hand", a>>
                           \/ b \in I /\ p = <<"hand", b>>
  BY <1>5 DEF IsBoard
<1>15. \A p \in DOMAIN P : \/ \E i \in 1..Len(c) : p = <<"closed", i>>
                           \/ \E i \in 1..z : p = <<"open", i>>
                           \/ \E a \in H : p = <<"hand", a>>
  BY <1>1, <1>5 DEF IsBoard
<1>16. \A p \in DOMAIN Q : g[p] \in DOMAIN P /\ Q[p] = P[g[p]]
  <2> SUFFICES ASSUME NEW p \in DOMAIN Q
               PROVE  g[p] \in DOMAIN P /\ Q[p] = P[g[p]]
    OBVIOUS
  <2>1. CASE \E i \in 1..Len(c) : p = <<"closed", i>>
    BY <1>10, <2>1
  <2>2. CASE \E i \in 1..Len(q) : p = <<"open", i>>
    <3>1. PICK i \in 1..Len(q) : p = <<"open", i>>
      BY <2>2
    <3>2. g[p] = <<"open", f[i]>> /\ <<"open", f[i]>> \in DOMAIN P /\ P[<<"open", f[i]>>] = Q[p]
      BY ONLY <1>11, <3>1
    <3> QED
      BY ONLY <3>2
  <2>3. CASE \E a \in H : p = <<"hand", a>>
    BY <1>12, <2>3
  <2>4. CASE b \in I /\ p = <<"hand", b>>
    BY <1>13, <2>4
  <2> QED
    BY <1>14, <2>1, <2>2, <2>3, <2>4
<1>17. ASSUME NEW p \in DOMAIN Q, NEW r \in DOMAIN Q, g[p] = g[r]
       PROVE  p = r
  <2> DEFINE opened(a) == \E i \in 1..Len(q) : a = <<"open", i>> /\ g[a] = <<"open", f[i]>>
             still(a) == g[a] = a /\ a[1] # "open"
             taken(a) == b \in I /\ a = <<"hand", b>> /\ g[a] = <<"open", n>>
  <2>1. \A a \in DOMAIN Q : opened(a) \/ still(a) \/ taken(a)
    <3> SUFFICES ASSUME NEW a \in DOMAIN Q
                 PROVE  opened(a) \/ still(a) \/ taken(a)
      OBVIOUS
    <3>1. CASE \E i \in 1..Len(c) : a = <<"closed", i>>
      <4>1. PICK i \in 1..Len(c) : a = <<"closed", i>>
        BY <3>1
      <4>2. g[<<"closed", i>>] = <<"closed", i>> /\ <<"closed", i>>[1] # "open"
        BY <1>10
      <4> QED
        BY <4>1, <4>2
    <3>2. CASE \E d \in H : a = <<"hand", d>>
      <4>1. PICK d \in H : a = <<"hand", d>>
        BY <3>2
      <4>2. g[<<"hand", d>>] = <<"hand", d>> /\ <<"hand", d>>[1] # "open"
        BY <1>12
      <4> QED
        BY <4>1, <4>2
    <3>3. CASE \E i \in 1..Len(q) : a = <<"open", i>>
      <4>1. PICK i \in 1..Len(q) : a = <<"open", i>>
        BY <3>3
      <4>2. g[<<"open", i>>] = <<"open", f[i]>>
        BY <1>11
      <4> QED
        BY <4>1, <4>2
    <3>4. CASE b \in I /\ a = <<"hand", b>>
      BY <1>13, <3>4
    <3> QED
      BY <1>14, <3>1, <3>2, <3>3, <3>4
  <2>2. opened(p) /\ opened(r) => p = r
    <3> SUFFICES ASSUME opened(p), opened(r)
                 PROVE  p = r
      OBVIOUS
    <3>1. PICK i \in 1..Len(q) : p = <<"open", i>> /\ g[p] = <<"open", f[i]>>
      OBVIOUS
    <3>2. PICK j \in 1..Len(q) : r = <<"open", j>> /\ g[r] = <<"open", f[j]>>
      OBVIOUS
    <3>3. f[i] = f[j]
      BY <1>17, <3>1, <3>2
    <3> QED
      BY <1>8, <3>1, <3>2, <3>3
  <2>3. \A a : opened(a) => g[a][1] = "open" /\ (b \in I => g[a] # <<"open", n>>)
    <3> SUFFICES ASSUME NEW a, NEW i \in 1..Len(q), g[a] = <<"open", f[i]>>
                 PROVE  g[a][1] = "open" /\ (b \in I => g[a] # <<"open", n>>)
      OBVIOUS
    <3>1. b \in I => f[i] # n
      BY <1>2, <1>7
    <3> QED
      BY <3>1
  <2>4. \A a : taken(a) => g[a][1] = "open"
    OBVIOUS
  <2>5. \A a : still(a) => g[a][1] # "open"
    OBVIOUS
  <2> HIDE DEF opened
  <2> QED
    BY <1>17, <2>1, <2>2, <2>3, <2>4, <2>5
<1>18. From(g, Q, P)
  BY <1>6, <1>16, <1>17 DEF From
<1>19. ASSUME NEW p \in DOMAIN P
       PROVE  \E r \in DOMAIN Q : g[r] = p
  <2>1. CASE \E i \in 1..Len(c) : p = <<"closed", i>>
    BY <1>10, <2>1
  <2>2. CASE \E i \in 1..z : p = <<"open", i>>
    <3>1. PICK i \in 1..z : p = <<"open", i>>
      BY <2>2
    <3>2. CASE i \in S
      <4>1. PICK j \in 1..Len(q) : f[j] = i
        BY <1>9, <3>2
      <4>2. <<"open", j>> \in DOMAIN Q /\ g[<<"open", j>>] = <<"open", i>>
        BY <1>11, <4>1
      <4> QED
        BY <3>1, <4>2
    <3>3. CASE i \notin S
      BY <1>2, <1>3, <1>13, <3>1, <3>3
    <3> QED
      BY <3>2, <3>3
  <2>3. CASE \E a \in H : p = <<"hand", a>>
    BY <1>12, <2>3
  <2> QED
    BY <1>15, <2>1, <2>2, <2>3
<1>20. Onto(g, Q, P)
  BY <1>19 DEF Onto
<1> QED
  BY <1>4, <1>18, <1>20 DEF Moved

\* Setting an open bar puts it at n, the place of the bar of its key or a new one.
Puts(q, o, n, x) ==
  /\ n \in Nat /\ Len(o) \in Nat /\ 1..Len(q) = 1..Len(o) \cup {n} /\ q[n] = x
  /\ \A i \in 1..Len(o) : i # n => q[i] = o[i] /\ keyOf(o[i]) # keyOf(x)
Grows(x, o, n, t) ==
  IF n \in 1..Len(o) THEN x.ticks = Append(o[n].ticks, t) /\ keyOf(o[n]) = keyOf(x)
  ELSE x.ticks = <<t>>

LEMMA BoardSet ==
  ASSUME NEW c, NEW o, NEW q, NEW H, NEW h, NEW n, NEW x, NEW t, Puts(q, o, n, x), Grows(x, o, n, t)
  PROVE  /\ Added(Board(c, o, H, h), Board(c, q, H, h), <<"open", n>>, t, keyOf(x))
         /\ \A i \in 1..Len(o) : i # n => keyOf(o[i]) # keyOf(x)
<1>1. PICK P, Q : P = Board(c, o, H, h) /\ Q = Board(c, q, H, h)
  OBVIOUS
<1>2. IsBoard(P, c, o, H, h) /\ IsBoard(Q, c, q, H, h)
  BY <1>1, BoardPlaces
<1>3. n \in 1..Len(q) /\ \A i \in 1..Len(q) : i = n \/ (i \in 1..Len(o) /\ q[i] = o[i])
  BY DEF Puts
<1>4. \A i \in 1..Len(o) : i \in 1..Len(q)
  BY DEF Puts
<1>5. <<"open", n>> \in DOMAIN Q /\ Q[<<"open", n>>] = x
  BY <1>2, <1>3 DEF IsBoard, Puts
<1>6. ASSUME NEW p \in DOMAIN P
      PROVE  p \in DOMAIN Q
  BY <1>2, <1>4 DEF IsBoard
<1>7. ASSUME NEW p \in DOMAIN Q, p # <<"open", n>>
      PROVE  p \in DOMAIN P /\ Q[p] = P[p]
  <2>1. CASE \E i \in 1..Len(c) : p = <<"closed", i>>
    BY <1>2, <2>1 DEF IsBoard
  <2>2. CASE \E i \in 1..Len(q) : p = <<"open", i>>
    <3>1. PICK i \in 1..Len(q) : p = <<"open", i>>
      BY <2>2
    <3>2. i \in 1..Len(o) /\ q[i] = o[i]
      BY <1>3, <1>7, <3>1
    <3> QED
      BY <1>2, <3>1, <3>2 DEF IsBoard
  <2>3. CASE \E a \in H : p = <<"hand", a>>
    BY <1>2, <2>3 DEF IsBoard
  <2> QED
    BY <1>2, <2>1, <2>2, <2>3 DEF IsBoard
<1>8. \A p \in DOMAIN P \ {<<"open", n>>} : Q[p] = P[p]
  BY <1>6, <1>7
<1>9. CASE n \in 1..Len(o)
  <2>1. <<"open", n>> \in DOMAIN P /\ P[<<"open", n>>] = o[n]
    BY <1>2, <1>9 DEF IsBoard
  <2>2. DOMAIN Q = DOMAIN P \cup {<<"open", n>>}
    BY <1>5, <1>6, <1>7
  <2> QED
    BY <1>1, <1>5, <1>8, <1>9, <2>1, <2>2 DEF Added, Grows, Puts
<1>10. CASE n \notin 1..Len(o)
  <2>1. <<"open", n>> \notin DOMAIN P
    BY <1>2, <1>10 DEF IsBoard
  <2>2. DOMAIN Q = DOMAIN P \cup {<<"open", n>>}
    BY <1>5, <1>6, <1>7
  <2> QED
    BY <1>1, <1>5, <1>8, <1>10, <2>1, <2>2 DEF Added, Grows, Puts
<1> QED
  BY <1>9, <1>10

-----------------------------------------------------------------------------
(***************************************************************************)
(* The dictionary of open bars has one bar of a key, and a request that    *)
(* closes bars closes those of minutes before its tick's.                  *)
(***************************************************************************)
Once(o) == \A m, n \in 1..Len(o) : keyOf(o[m]) = keyOf(o[n]) => m = n
OpenOnce == Once(open)

LEMMA WithOnce ==
  ASSUME open \in Seq(Bar), OpenOnce, NEW x \in Bar
  PROVE  \E n : /\ Puts(with(x), open, n, x)
                /\ n \notin 1..Len(open) => get(keyOf(x)) = <<>>
                /\ n \in 1..Len(open) =>
                     get(keyOf(x)) # <<>> /\ get(keyOf(x))[1] = open[n] /\ keyOf(open[n]) = keyOf(x)
<1>1. PICK k \in Nat : k = Len(open)
  OBVIOUS
<1>2. PICK c \in Seq(Bar) : c = get(keyOf(x))
  BY GetOpen
<1>3. CASE c = <<>>
  <2>1. PICK q : q = Append(open, x)
    OBVIOUS
  <2>2. Len(q) = k + 1 /\ q[k + 1] = x /\ \A i \in 1..k : q[i] = open[i]
    BY <1>1, <2>1, AppendProperties
  <2>3. 1..k + 1 = 1..k \cup {k + 1} /\ k + 1 \notin 1..k
    OBVIOUS
  <2>4. \A i \in 1..k : keyOf(open[i]) # keyOf(x)
    BY <1>1, <1>2, <1>3, GetOpen
  <2>5. with(x) = q
    BY <1>2, <1>3, <2>1 DEF with
  <2>6. Puts(with(x), open, k + 1, x)
    BY <1>1, <2>2, <2>3, <2>4, <2>5 DEF Puts
  <2> QED
    BY <1>1, <1>2, <1>3, <2>3, <2>6
<1>4. CASE c # <<>>
  <2>1. 1 \in 1..Len(c)
    BY <1>4
  <2>2. PICK n \in 1..k : keyOf(open[n]) = keyOf(x) /\ c[1] = open[n]
    BY <1>1, <1>2, <2>1, GetOpen
  <2>3. PICK q : q = [i \in 1..Len(open) |-> IF keyOf(open[i]) = keyOf(x) THEN x ELSE open[i]]
    OBVIOUS
  <2>4. \A i \in 1..k : i # n => keyOf(open[i]) # keyOf(x)
    BY <1>1, <2>2 DEF OpenOnce, Once
  <2>5. q[n] = x /\ \A i \in 1..k : (i # n => q[i] = open[i]) /\ q[i] \in Bar
    BY <1>1, <2>2, <2>3, <2>4
  <2>6. Len(q) = k
    BY <1>1, <2>3, <2>5, IsSequence
  <2>7. with(x) = q
    BY <1>2, <1>4, <2>3 DEF with
  <2>8. 1..k = 1..k \cup {n}
    BY <2>2
  <2>9. Puts(with(x), open, n, x)
    BY <1>1, <2>2, <2>4, <2>5, <2>6, <2>7, <2>8 DEF Puts
  <2> QED
    BY <1>1, <1>2, <1>4, <2>2, <2>9
<1> QED
  BY <1>3, <1>4

LEMMA PutsOnce ==
  ASSUME NEW q, NEW o, NEW n, NEW x, Once(o), Puts(q, o, n, x)
  PROVE  Once(q)
<1>1. \A i \in 1..Len(q) : i = n \/ (i \in 1..Len(o) /\ i # n /\ q[i] = o[i] /\ keyOf(q[i]) # keyOf(x))
  BY DEF Puts
<1>2. q[n] = x
  BY DEF Puts
<1> QED
  BY <1>1, <1>2 DEF Once

LEMMA PicksOnce ==
  ASSUME NEW q, NEW o, NEW f, NEW S, Len(o) \in Nat, Once(o), Picks(f, q, o, S, Len(o))
  PROVE  Once(q)
<1>1. \A i \in 1..Len(q) : f[i] \in 1..Len(o) /\ q[i] = o[f[i]]
  BY DEF Picks
<1>2. \A i, j \in 1..Len(q) : f[i] = f[j] => i = j
  BY PicksApart
<1> QED
  BY <1>1, <1>2 DEF Once

LEMMA OpenOnceKept ==
  ASSUME Types, OpenOnce, [Next]_vars
  PROVE  OpenOnce'
<1>0. open \in Seq(Bar) /\ Len(open) \in Nat
  BY DEF Types, SinkTypes
<1>1. CASE open' = open
  BY <1>1 DEF OpenOnce
<1>2. CASE open' = <<>>
  BY <1>2 DEF OpenOnce, Once
<1>3. ASSUME NEW b \in Builders, Pop(b)
      PROVE  OpenOnce'
  <2>1. PICK key : open' = without(key)
    BY <1>3 DEF Pop
  <2>2. PICK f : Kept(f, key)
    BY <1>0, WithoutOpen
  <2>3. PICK q : q = without(key) /\ Picks(f, q, open, KeptPlaces(key), Len(open))
    BY <2>2 DEF Kept
  <2>4. Once(q)
    BY <1>0, <2>3, PicksOnce DEF OpenOnce
  <2> QED
    BY <2>1, <2>3, <2>4 DEF OpenOnce
<1>4. ASSUME NEW b \in Builders, SetOpen(b)
      PROVE  OpenOnce'
  <2>1. pc[b] \in Holding /\ open' = with(bar[b][1])
    BY <1>4 DEF SetOpen, Holding
  <2>2. PICK x \in Bar : x = bar[b][1]
    BY <2>1, BarType DEF Types
  <2>3. PICK n : Puts(with(x), open, n, x)
    BY <1>0, WithOnce
  <2>4. Once(with(x))
    BY <2>3, PutsOnce DEF OpenOnce
  <2> QED
    BY <2>1, <2>2, <2>4 DEF OpenOnce
<1> QED
  BY <1>1, <1>2, <1>3, <1>4 DEF Next, vars, builderVars, Poll, Step, Scan, PublishClosed,
     CacheClosed, UpsertClosed, Build, CacheOpen, Fail, Commit, Restart

Closes == {"pop", "publish", "cache_closed", "upsert"}
Older(b) ==
  /\ \A i \in 1..Len(closing[b]) : pc[b] \in Closes /\ closing[b][i][2] < tick(b).minute
  /\ pc[b] = "publish" => bar[b][1].minute < tick(b).minute
ClosingOld == \A b \in Builders : Older(b)

LEMMA ScanOlder ==
  ASSUME Types, NEW b \in Builders, Scan(b)
  PROVE  Older(b)'
<1>1. pc' = [pc EXCEPT ![b] = "pop"] /\ batch' = batch
      /\ closing' = [closing EXCEPT ![b] = [i \in 1..Len(OldBars(b)) |-> keyOf(OldBars(b)[i])]]
  BY DEF Scan, Goto, OldBars
<1>2. PICK c \in Seq(Bar) : c = OldBars(b)
  BY OldOpen DEF Types, SinkTypes
<1>3. PICK s : s = [i \in 1..Len(c) |-> keyOf(c[i])]
  OBVIOUS
<1>4. s \in Seq(keys) /\ Len(s) = Len(c)
  BY <1>2, <1>3, OldOpen DEF Types, SinkTypes
<1>5. closing'[b] = s /\ pc'[b] = "pop"
  BY <1>1, <1>2, <1>3 DEF Types, RequestTypes
<1>6. \A i \in 1..Len(c) : c[i].minute < tick(b).minute
  BY <1>2, OldOpen DEF Types, SinkTypes
<1>7. \A i \in 1..Len(s) : s[i][2] < tick(b).minute
  BY <1>3, <1>4, <1>6 DEF keyOf
<1>8. tick(b)' = tick(b)
  BY <1>1 DEF tick
<1> QED
  BY <1>5, <1>7, <1>8 DEF Older, Closes

LEMMA PopOlder ==
  ASSUME Types, NEW b \in Builders, Older(b), Pop(b)
  PROVE  Older(b)'
<1>1. PICK s \in Seq(keys) : s = closing[b] /\ s # <<>>
  BY DEF Pop, Types, RequestTypes
<1>2. PICK key : key = Head(s)
  OBVIOUS
<1>3. pc' = [pc EXCEPT ![b] = IF get(key) = <<>> THEN "pop" ELSE "publish"] /\ batch' = batch
      /\ closing' = [closing EXCEPT ![b] = Tail(s)] /\ bar' = [bar EXCEPT ![b] = get(key)]
  BY <1>1, <1>2 DEF Pop, Goto, Types, RequestTypes
<1>4. \A i \in 1..Len(s) : s[i][2] < tick(b).minute
  BY <1>1 DEF Older
<1>5. 1 \in 1..Len(s) /\ key = s[1]
  BY <1>1, <1>2
<1>6. key[2] < tick(b).minute
  BY <1>4, <1>5
<1>7. PICK r : r = Tail(s)
  OBVIOUS
<1>8. \A i \in 1..Len(r) : i + 1 \in 1..Len(s) /\ r[i] = s[i + 1]
  BY <1>1, <1>7
<1>9. \A i \in 1..Len(r) : r[i][2] < tick(b).minute
  BY <1>4, <1>8
<1>10. PICK c \in Seq(Bar) : c = get(key)
  BY GetOpen DEF Types, SinkTypes
<1>11. c # <<>> => c[1].minute < tick(b).minute
  <2> SUFFICES ASSUME c # <<>>
               PROVE  c[1].minute < tick(b).minute
    OBVIOUS
  <2>1. 1 \in 1..Len(c)
    OBVIOUS
  <2>2. keyOf(c[1]) = key
    BY <1>10, <2>1, GetOpen DEF Types, SinkTypes
  <2> QED
    BY <1>6, <2>2 DEF keyOf
<1>12. closing'[b] = r /\ bar'[b] = c /\ pc'[b] = (IF c = <<>> THEN "pop" ELSE "publish")
  BY <1>3, <1>7, <1>10 DEF Types, RequestTypes
<1>13. tick(b)' = tick(b)
  BY <1>3 DEF tick
<1> QED
  BY <1>9, <1>11, <1>12, <1>13 DEF Older, Closes

LEMMA ClosingOldKept ==
  ASSUME Types, ClosingOld, [Next]_vars
  PROVE  ClosingOld'
<1>0. pc \in [Builders -> Steps] /\ batch \in [Builders -> Seq(Records)]
      /\ closing \in [Builders -> Seq(keys)] /\ bar \in [Builders -> Seq(Bar)]
  BY DEF Types, RequestTypes
<1>1. ASSUME NEW c \in Builders,
             pc'[c] = pc[c] /\ batch'[c] = batch[c] /\ closing'[c] = closing[c] /\ bar'[c] = bar[c]
      PROVE  Older(c)'
  BY <1>1 DEF ClosingOld, Older, tick
<1>2. ASSUME NEW b \in Builders, Poll(b) \/ Step(b) \/ Fail(b),
             NEW c \in Builders, c # b
      PROVE  Older(c)'
  <2>1. pc'[c] = pc[c] /\ batch'[c] = batch[c] /\ closing'[c] = closing[c] /\ bar'[c] = bar[c]
    BY <1>0, <1>2 DEF Poll, Step, Scan, Pop, PublishClosed, CacheClosed, UpsertClosed, Build,
       SetOpen, CacheOpen, Fail, Fresh, Goto
  <2> QED
    BY <1>1, <2>1
<1>3. ASSUME NEW c \in Builders, closing'[c] = <<>>, pc'[c] # "publish"
      PROVE  Older(c)'
  BY <1>3 DEF Older
<1>4. ASSUME NEW b \in Builders, PublishClosed(b) \/ CacheClosed(b) \/ UpsertClosed(b)
      PROVE  Older(b)'
  <2>1. pc[b] \in Closes /\ pc'[b] \in Closes \ {"publish"} /\ batch' = batch /\ closing' = closing
    BY <1>0, <1>4 DEF PublishClosed, CacheClosed, UpsertClosed, Goto, Closes
  <2> QED
    BY <2>1 DEF ClosingOld, Older, tick
<1>5. ASSUME NEW b \in Builders, Poll(b) \/ Build(b) \/ SetOpen(b) \/ CacheOpen(b)
      PROVE  Older(b)'
  <2>1. closing[b] = <<>>
    <3>1. CASE Build(b)
      BY <3>1 DEF Build
    <3>2. CASE Poll(b) \/ SetOpen(b) \/ CacheOpen(b)
      <4>1. pc[b] \notin Closes
        BY <3>2 DEF Poll, SetOpen, CacheOpen, Closes
      <4>2. \A i \in 1..Len(closing[b]) : FALSE
        BY <4>1 DEF ClosingOld, Older
      <4>3. closing[b] \in Seq(keys)
        BY <1>0
      <4> QED
        BY <4>2, <4>3
    <3> QED
      BY <1>5, <3>1, <3>2
  <2>2. closing' = closing /\ pc'[b] # "publish"
    BY <1>0, <1>5 DEF Poll, Build, SetOpen, CacheOpen, Goto
  <2> QED
    BY <1>3, <2>1, <2>2
<1>6. ASSUME NEW b \in Builders, Fail(b)
      PROVE  Older(b)'
  BY <1>3, <1>6 DEF Fail, Fresh
<1>7. CASE Restart
  BY <1>3, <1>7 DEF Restart, Fresh, ClosingOld
<1>8. CASE Commit \/ (GatewayNext /\ UNCHANGED builderVars) \/ UNCHANGED vars
  <2>1. UNCHANGED <<pc, batch, closing, bar>>
    BY <1>8 DEF Commit, builderVars, vars
  <2> QED
    BY <1>1, <2>1 DEF ClosingOld
<1>9. ASSUME NEW b \in Builders, Poll(b) \/ Step(b) \/ Fail(b)
      PROVE  ClosingOld'
  <2>1. Older(b)'
    BY <1>4, <1>5, <1>6, <1>9, ScanOlder, PopOlder DEF Step, ClosingOld
  <2> QED
    BY <1>2, <1>9, <2>1 DEF ClosingOld
<1> QED
  BY <1>7, <1>8, <1>9 DEF Next

\* Unless requests overlap, the bar a request is about to write is still that of
\* the open bar and its tick.
BuiltHeld ==
  "overlapped" \notin mishaps => \A b \in Builders : pc[b] = "write" => Built(b, bar[b][1])

LEMMA BuiltHeldKept ==
  ASSUME Types, OneRequest, BuiltHeld, [Next]_vars
  PROVE  BuiltHeld'
<1>0. pc \in [Builders -> Steps] /\ batch \in [Builders -> Seq(Records)]
      /\ bar \in [Builders -> Seq(Bar)]
  BY DEF Types, RequestTypes
<1> SUFFICES ASSUME "overlapped" \notin mishaps', NEW b \in Builders, pc'[b] = "write"
             PROVE  Built(b, bar[b][1])'
  BY DEF BuiltHeld
<1>1. "overlapped" \notin mishaps
  BY MishapsGrow
<1>2. ASSUME pc[b] = "write", open' = open, batch'[b] = batch[b], bar'[b] = bar[b]
      PROVE  Built(b, bar[b][1])'
  BY <1>1, <1>2 DEF BuiltHeld, Built, tick, get
<1>3. ASSUME NEW c \in Builders, Step(c)
      PROVE  Built(b, bar[b][1])'
  <2>1. pc[c] # "idle" /\ \A d \in Builders : d # c => pc'[d] = pc[d]
    BY <1>0, <1>3 DEF Step, Scan, Pop, PublishClosed, CacheClosed, UpsertClosed, Build, SetOpen,
       CacheOpen, Goto
  <2>2. c = b
    BY <1>1, <2>1 DEF OneRequest
  <2>3. Build(b)
    BY <1>0, <1>3, <2>2 DEF Step, Scan, Pop, PublishClosed, CacheClosed, UpsertClosed, SetOpen,
       CacheOpen, Goto
  <2>4. open' = open /\ batch' = batch
    BY <2>3 DEF Build
  <2>5. PICK x : Built(b, x) /\ bar' = [bar EXCEPT ![b] = <<x>>]
    BY <2>3, BarsBuilt
  <2>6. bar'[b][1] = x
    BY <1>0, <2>5
  <2> QED
    BY <2>4, <2>5, <2>6 DEF Built, tick, get
<1>4. ASSUME NEW c \in Builders, Poll(c) \/ Fail(c)
      PROVE  Built(b, bar[b][1])'
  BY <1>0, <1>2, <1>4 DEF Poll, Fail, Fresh, Goto
<1>5. CASE Restart
  BY <1>5 DEF Restart, Fresh
<1>6. CASE Commit \/ (GatewayNext /\ UNCHANGED builderVars) \/ UNCHANGED vars
  BY <1>2, <1>6 DEF Commit, builderVars, vars
<1> QED
  BY <1>3, <1>4, <1>5, <1>6 DEF Next

-----------------------------------------------------------------------------
(***************************************************************************)
(* What each step does to the bars in their places.                        *)
(***************************************************************************)
LEMMA PlacedBars ==
  ASSUME Types
  PROVE  /\ IsBoard(Placed, closed, open, Hands, bar)
         /\ \A p \in DOMAIN Placed : Placed[p] \in Bar
         /\ TickLists(Placed)
<1>1. IsBoard(Placed, closed, open, Hands, bar)
  BY BoardPlaces DEF Placed
<1>2. /\ \A n \in 1..Len(closed) : closed[n] \in Bar
      /\ \A n \in 1..Len(open) : open[n] \in Bar
      /\ \A b \in Hands : bar[b][1] \in Bar
  BY BarType DEF Types, SinkTypes, Hands, Holding
<1>3. \A p \in DOMAIN Placed : Placed[p] \in Bar
  BY <1>1, <1>2 DEF IsBoard
<1>4. ASSUME NEW x \in Bar
      PROVE  x.ticks \in Seq(Nat)
  <2>0. PICK n \in Nat : n = MaxTicks
    BY GatewayAssumption
  <2>1. PICK s \in Seq(1..n) : s = x.ticks
    BY <2>0 DEF Bar
  <2>2. \A i \in 1..Len(s) : s[i] \in Nat
    <3>1. \A i \in 1..Len(s) : s[i] \in 1..n
      OBVIOUS
    <3> QED
      BY <3>1
  <2>3. s = [i \in 1..Len(s) |-> s[i]] /\ Len(s) \in Nat
    OBVIOUS
  <2> QED
    BY <2>1, <2>2, <2>3, IsSequence
<1> QED
  BY <1>1, <1>3, <1>4 DEF TickLists

LEMMA PlacedSame ==
  ASSUME Types,
         \/ \E b \in Builders : Poll(b) \/ Scan(b) \/ CacheClosed(b) \/ UpsertClosed(b) \/ Build(b)
                                \/ CacheOpen(b)
         \/ Commit \/ (GatewayNext /\ UNCHANGED builderVars) \/ UNCHANGED vars
  PROVE  Placed' = Placed
<1>0. pc \in [Builders -> Steps] /\ bar \in [Builders -> Seq(Bar)]
  BY DEF Types, RequestTypes
<1>1. closed' = closed /\ open' = open
  BY DEF Poll, Scan, CacheClosed, UpsertClosed, Build, CacheOpen, Commit, builderVars, vars
<1>2. Hands' = Hands /\ \A b \in Hands : bar[b] = bar'[b]
  <2>1. CASE \E b \in Builders : Poll(b) \/ Scan(b) \/ CacheClosed(b) \/ UpsertClosed(b) \/ Build(b)
                                 \/ CacheOpen(b)
    <3>1. PICK b \in Builders : Poll(b) \/ Scan(b) \/ CacheClosed(b) \/ UpsertClosed(b) \/ Build(b)
                                \/ CacheOpen(b)
      BY <2>1
    <3>2. pc[b] # "publish" /\ pc'[b] # "publish"
          /\ \A c \in Builders : c # b => pc'[c] = pc[c] /\ bar'[c] = bar[c]
      BY <1>0, <3>1 DEF Poll, Scan, CacheClosed, UpsertClosed, Build, CacheOpen, Goto
    <3> QED
      BY <3>2 DEF Hands
  <2>2. CASE Commit \/ (GatewayNext /\ UNCHANGED builderVars) \/ UNCHANGED vars
    BY <2>2 DEF Commit, builderVars, vars, Hands
  <2> QED
    BY <2>1, <2>2
<1>3. PICK k : k = bar'
  OBVIOUS
<1>4. Placed' = Board(closed, open, Hands, k)
  BY <1>1, <1>2, <1>3 DEF Placed
<1> QED
  BY <1>2, <1>3, <1>4, BoardSame DEF Placed

LEMMA PopMoves ==
  ASSUME Types, OpenOnce, NEW b \in Builders, Pop(b)
  PROVE  Moved(Placed, Placed')
<1>0. pc \in [Builders -> Steps] /\ bar \in [Builders -> Seq(Bar)] /\ open \in Seq(Bar)
  BY DEF Types, RequestTypes, SinkTypes
<1>1. PICK key : key = Head(closing[b])
  OBVIOUS
<1>2. PICK c \in Seq(Bar) : c = get(key)
  BY <1>0, GetOpen
<1>3. pc[b] = "pop" /\ closed' = closed /\ open' = without(key) /\ bar' = [bar EXCEPT ![b] = c]
      /\ pc' = [pc EXCEPT ![b] = IF c = <<>> THEN "pop" ELSE "publish"]
  BY <1>0, <1>1, <1>2 DEF Pop, Goto
<1>4. PICK f : Kept(f, key)
  BY <1>0, WithoutOpen
<1>5. PICK q : q = without(key) /\ Picks(f, q, open, KeptPlaces(key), Len(open))
  BY <1>4 DEF Kept
<1>6. b \notin Hands /\ \A a \in Hands : bar'[a] = bar[a]
  BY <1>0, <1>3 DEF Hands
<1>7. PICK k : k = bar'
  OBVIOUS
<1>8. PICK I : I = Hands'
  OBVIOUS
<1>9. Placed' = Board(closed, q, I, k)
  BY <1>3, <1>5, <1>7, <1>8 DEF Placed
<1>10. \A m \in 1..Len(open) : m \in KeptPlaces(key) <=> keyOf(open[m]) # key
  BY <1>0 DEF KeptPlaces
<1>11. CASE c = <<>>
  <2>1. I = Hands
    BY <1>0, <1>3, <1>8, <1>11 DEF Hands
  <2>2. \A m \in 1..Len(open) : m \in KeptPlaces(key)
    BY <1>0, <1>2, <1>10, <1>11, GetOpen
  <2>3. Popped(open, KeptPlaces(key), b, k, I)
    BY <1>6, <2>1, <2>2 DEF Popped
  <2> QED
    BY <1>0, <1>5, <1>6, <1>7, <1>9, <2>1, <2>3, BoardPop DEF Placed
<1>12. CASE c # <<>>
  <2>1. I = Hands \cup {b} /\ k[b][1] = c[1]
    BY <1>0, <1>3, <1>7, <1>8, <1>12 DEF Hands
  <2>2. 1 \in 1..Len(c)
    BY <1>12
  <2>3. PICK n \in 1..Len(open) : keyOf(open[n]) = key /\ c[1] = open[n]
    BY <1>0, <1>2, <2>2, GetOpen
  <2>4. \A m \in 1..Len(open) : m \in KeptPlaces(key) <=> m # n
    BY <1>10, <2>3 DEF OpenOnce, Once
  <2>5. Popped(open, KeptPlaces(key), b, k, I)
    BY <2>1, <2>3, <2>4 DEF Popped
  <2> QED
    BY <1>0, <1>5, <1>6, <1>7, <1>9, <2>1, <2>5, BoardPop DEF Placed
<1> QED
  BY <1>11, <1>12

LEMMA PublishMoves ==
  ASSUME Types, NEW b \in Builders, PublishClosed(b)
  PROVE  Moved(Placed, Placed')
<1>1. pc[b] = "publish" /\ pc' = [pc EXCEPT ![b] = "cache_closed"]
      /\ closed' = Append(closed, bar[b][1]) /\ UNCHANGED <<open, bar>>
  BY DEF PublishClosed, Goto, publish
<1>2. b \in Hands /\ Hands' = Hands \ {b}
  BY <1>1 DEF Hands, Types, RequestTypes
<1>3. bar[b][1] \in Bar /\ closed \in Seq(Bar)
  BY <1>1, BarType DEF Types, SinkTypes, Holding
<1>4. Placed' = Board(Append(closed, bar[b][1]), open, Hands \ {b}, bar)
  BY <1>1, <1>2 DEF Placed
<1> QED
  BY <1>2, <1>3, <1>4, BoardPublish DEF Placed

LEMMA EndDrops ==
  ASSUME Types, (\E b \in Builders : Fail(b)) \/ Restart
  PROVE  Dropped(Placed, Placed')
<1>1. closed' = closed /\ (open' = open \/ open' = <<>>)
  BY DEF Fail, Restart
<1>2. Hands' \subseteq Hands /\ \A b \in Hands' : bar[b] = bar'[b]
  BY DEF Fail, Restart, Fresh, Hands
<1>3. PICK q, I, k : q = open' /\ I = Hands' /\ k = bar'
  OBVIOUS
<1>4. Placed' = Board(closed, q, I, k)
  BY <1>1, <1>3 DEF Placed
<1> QED
  BY <1>1, <1>2, <1>3, <1>4, BoardDrop DEF Placed

\* Setting the open bar adds the tick to it.
Absorbed(b, z) ==
  /\ Added(Placed, Placed', z, Head(batch[b]).offset, keyOf(tick(b)))
  /\ z \notin DOMAIN Placed => \A i \in 1..Len(open) : keyOf(open[i]) # keyOf(tick(b))

LEMMA SetOpenAdds ==
  ASSUME Types, OpenOnce, BuiltHeld, "overlapped" \notin mishaps, NEW b \in Builders, SetOpen(b)
  PROVE  \E z : Absorbed(b, z)
<1>1. pc[b] = "write" /\ pc' = [pc EXCEPT ![b] = "cache_open"] /\ open' = with(bar[b][1])
      /\ UNCHANGED <<closed, bar, batch>>
  BY DEF SetOpen, Goto
<1>2. Hands' = Hands
  BY <1>1 DEF Hands, Types, RequestTypes
<1>3. PICK x \in Bar : x = bar[b][1]
  BY <1>1, BarType DEF Types, Holding
<1>4. Built(b, x) /\ keyOf(x) = keyOf(tick(b))
  BY <1>1, <1>3, BuiltBar DEF BuiltHeld
<1>5. PICK n : /\ Puts(with(x), open, n, x)
               /\ n \notin 1..Len(open) => get(keyOf(x)) = <<>>
               /\ n \in 1..Len(open) =>
                    get(keyOf(x)) # <<>> /\ get(keyOf(x))[1] = open[n] /\ keyOf(open[n]) = keyOf(x)
  BY <1>3, WithOnce DEF Types, SinkTypes
<1>6. PICK r : r = Head(batch[b])
  OBVIOUS
<1>7. PICK q : q = with(x)
  OBVIOUS
<1>8. Grows(x, open, n, r.offset)
  <2>1. CASE n \in 1..Len(open)
    <3>1. x = updateBar(open[n], r)
      BY <1>4, <1>5, <1>6, <2>1 DEF Built
    <3>2. open[n] \in Bar
      BY <2>1 DEF Types, SinkTypes
    <3>3. x.ticks = Append(open[n].ticks, r.offset)
      BY <3>1, <3>2 DEF updateBar, Bar
    <3> QED
      BY <1>5, <2>1, <3>3 DEF Grows
  <2>2. CASE n \notin 1..Len(open)
    <3>1. x = createBar(r)
      BY <1>4, <1>5, <1>6, <2>2 DEF Built
    <3>2. x.ticks = <<r.offset>>
      BY <3>1 DEF createBar
    <3> QED
      BY <2>2, <3>2 DEF Grows
  <2> QED
    BY <2>1, <2>2
<1>9. Placed' = Board(closed, q, Hands, bar)
  BY <1>1, <1>2, <1>3, <1>7 DEF Placed
<1>10. /\ Added(Placed, Board(closed, q, Hands, bar), <<"open", n>>, r.offset, keyOf(x))
       /\ \A i \in 1..Len(open) : i # n => keyOf(open[i]) # keyOf(x)
  BY <1>5, <1>7, <1>8, BoardSet DEF Placed
<1>11. <<"open", n>> \notin DOMAIN Placed => n \notin 1..Len(open)
  BY PlacedBars DEF IsBoard
<1>12. Absorbed(b, <<"open", n>>)
  BY <1>4, <1>6, <1>9, <1>10, <1>11 DEF Absorbed
<1> QED
  BY <1>12

LEMMA SameMoves ==
  ASSUME NEW P
  PROVE  Moved(P, P)
<1>1. PICK g : g = [p \in DOMAIN P |-> p]
  OBVIOUS
<1>2. From(g, P, P) /\ Onto(g, P, P)
  BY <1>1 DEF From, Onto
<1> QED
  BY <1>2 DEF Moved

LEMMA Moves ==
  ASSUME Types, OpenOnce, [Next]_vars, \A b \in Builders : ~SetOpen(b) /\ ~Fail(b), ~Restart
  PROVE  Moved(Placed, Placed')
<1>1. CASE Placed' = Placed
  BY <1>1, SameMoves
<1>2. ASSUME NEW b \in Builders, Pop(b) \/ PublishClosed(b)
      PROVE  Moved(Placed, Placed')
  BY <1>2, PopMoves, PublishMoves
<1> QED
  BY <1>1, <1>2, PlacedSame DEF Next, Step

LEMMA Drops ==
  ASSUME Types, OpenOnce, [Next]_vars, \A b \in Builders : ~SetOpen(b)
  PROVE  Dropped(Placed, Placed')
<1>1. CASE (\E b \in Builders : Fail(b)) \/ Restart
  BY <1>1, EndDrops
<1>2. CASE ~(\E b \in Builders : Fail(b)) /\ ~Restart
  <2>1. Moved(Placed, Placed')
    BY <1>2, Moves
  <2> QED
    BY <2>1 DEF Moved, Dropped
<1> QED
  BY <1>1, <1>2

\* How far a request has come: the tick in its hands is in a bar from the moment
\* it has set the open bar.
head(b) == batch[b][1].offset
Passed(b, i) == IF pc[b] = "cache_open" THEN i <= head(b) ELSE i < head(b)
Stays(b) == pc'[b] # "idle" =>
  pc[b] # "idle" /\ batch'[b] = batch[b] /\ (pc'[b] = "cache_open" <=> pc[b] = "cache_open")

LEMMA HeadType ==
  ASSUME Types, Batches, NEW b \in Builders, pc[b] # "idle"
  PROVE  /\ head(b) \in 1..delivered /\ ticks[head(b)] = tick(b) /\ head(b) = Head(batch[b]).offset
         /\ head(b) \in 1..Len(ticks)
<1>1. PICK s \in Seq(Records) : s = batch[b] /\ s # <<>>
  BY TickType DEF Types
<1>2. 1 \in 1..Len(s) /\ Head(s) = s[1]
  BY <1>1
<1>3. Genuine(s[1], ticks) /\ s[1].offset <= delivered
  BY <1>1, <1>2 DEF Batches, Faithful
<1> QED
  BY <1>1, <1>2, <1>3 DEF Genuine, head, tick, Types, OffsetTypes

LEMMA OthersStay ==
  ASSUME Types, [Next]_vars, \A c \in Builders : ~Poll(c) /\ ~SetOpen(c) /\ ~CacheOpen(c)
  PROVE  delivered' = delivered /\ \A b \in Builders : Stays(b)
<1>0. pc \in [Builders -> Steps] /\ batch \in [Builders -> Seq(Records)]
  BY DEF Types, RequestTypes
<1>1. ASSUME NEW c \in Builders, Scan(c) \/ Pop(c) \/ PublishClosed(c) \/ CacheClosed(c)
             \/ UpsertClosed(c) \/ Build(c)
      PROVE  delivered' = delivered /\ \A b \in Builders : Stays(b)
  <2>1. batch' = batch /\ delivered' = delivered /\ pc[c] \notin {"idle", "cache_open"}
        /\ pc'[c] # "cache_open" /\ \A d \in Builders : d # c => pc'[d] = pc[d]
    BY <1>0, <1>1 DEF Scan, Pop, PublishClosed, CacheClosed, UpsertClosed, Build, Goto
  <2> QED
    BY <2>1 DEF Stays
<1>2. ASSUME NEW c \in Builders, Fail(c)
      PROVE  delivered' = delivered /\ \A b \in Builders : Stays(b)
  BY <1>2 DEF Fail, Fresh, Stays
<1>3. CASE Restart
  BY <1>3 DEF Restart, Fresh, Stays
<1>4. CASE Commit \/ (GatewayNext /\ UNCHANGED builderVars) \/ UNCHANGED vars
  BY <1>4 DEF Commit, builderVars, vars, Stays
<1> QED
  BY <1>1, <1>2, <1>3, <1>4 DEF Next, Step

LEMMA CacheOpenStep ==
  ASSUME Types, Batches, NEW b \in Builders, CacheOpen(b)
  PROVE  /\ pc'[b] \in {"idle", "scan"} /\ delivered' = delivered
         /\ pc'[b] # "idle" => head(b)' = head(b) + 1
         /\ \A c \in Builders : c # b => Stays(c) /\ batch'[c] = batch[c]
         /\ \A n \in 2..Len(batch[b]) :
              n - 1 \in 1..Len(batch'[b]) /\ batch'[b][n - 1] = batch[b][n]
<1>0. pc \in [Builders -> Steps] /\ batch \in [Builders -> Seq(Records)]
  BY DEF Types, RequestTypes
<1>1. pc[b] = "cache_open" /\ delivered' = delivered /\ batch' = [batch EXCEPT ![b] = Tail(@)]
      /\ pc' = [pc EXCEPT ![b] = IF batch'[b] = <<>> THEN "idle" ELSE "scan"]
  BY DEF CacheOpen, Goto
<1>2. PICK s \in Seq(Records) : s = batch[b] /\ s # <<>>
  BY <1>1, TickType DEF Types
<1>3. PICK r \in Seq(Records) : r = Tail(s)
  BY <1>1, <1>2, TickType DEF Types
<1>4. PICK k \in Nat : k = Len(s)
  OBVIOUS
<1>5. Len(r) = k - 1 /\ \A n \in 2..k : n - 1 \in 1..Len(r) /\ r[n - 1] = s[n]
  BY <1>2, <1>3, <1>4
<1>6. batch'[b] = r
  BY <1>0, <1>1, <1>2, <1>3
<1>7. pc'[b] = IF r = <<>> THEN "idle" ELSE "scan"
  BY <1>0, <1>1, <1>6
<1>8. r # <<>> => 2 \in 2..k /\ r[1] = s[2] /\ 2 \in 1..k /\ 1 \in 1..k
  BY <1>2, <1>3, <1>4
<1>9. r # <<>> => s[2].offset = s[1].offset + (2 - 1) /\ s[1].offset \in Nat
  BY <1>2, <1>4, <1>8 DEF Batches, Faithful, Genuine
<1>10. pc'[b] # "idle" => head(b)' = head(b) + 1
  BY <1>2, <1>6, <1>7, <1>8, <1>9 DEF head
<1>11. \A c \in Builders : c # b => Stays(c) /\ batch'[c] = batch[c]
  BY <1>0, <1>1 DEF Stays
<1> QED
  BY <1>1, <1>2, <1>4, <1>5, <1>6, <1>7, <1>10, <1>11

LEMMA PollStep ==
  ASSUME Types, NEW b \in Builders, Poll(b)
  PROVE  /\ pc[b] = "idle" /\ pc'[b] = "scan" /\ delivered <= delivered' /\ ticks' = ticks
         /\ \A c \in Builders : c # b => Stays(c) /\ batch'[c] = batch[c]
         /\ \E n \in Nat : /\ delivered' = larger(delivered, committed + n) /\ Len(batch'[b]) = n
                           /\ \A i \in 1..n : batch'[b][i].offset = committed + i
                           /\ n >= 1
<1>0. pc \in [Builders -> Steps] /\ batch \in [Builders -> Seq(Records)]
      /\ committed \in Nat /\ delivered \in Nat
  BY DEF Types, RequestTypes, OffsetTypes
<1>1. pc[b] = "idle" /\ pc' = [pc EXCEPT ![b] = "scan"] /\ ticks' = ticks
  BY DEF Poll, Goto, gatewayVars
<1>2. PICK n \in 1..smaller(MaxBatch, Len(ticks) - committed) :
        /\ batch' = [batch EXCEPT ![b] = poll(ticks, committed, n)]
        /\ delivered' = larger(delivered, committed + n)
  BY DEF Poll
<1>3. PICK s : s = poll(ticks, committed, n)
  OBVIOUS
<1>4. n \in Nat /\ n >= 1
  BY <1>2
<1>5. s \in Seq(Records) /\ Len(s) = n
  <2>1. committed + n <= Len(ticks)
    <3>0. ticks \in Seq(Ticks)
      BY DEF Types, GatewayTypes
    <3>1. PICK z \in Nat : z = Len(ticks)
      BY <3>0
    <3>2. n <= z - committed
      BY <1>0, <1>2, <3>1, BuilderAssumption DEF smaller
    <3> QED
      BY <1>0, <1>4, <3>1, <3>2
  <2> QED
    BY <1>0, <1>3, <1>4, <2>1, Polled DEF Types
<1>6. \A i \in 1..n : s[i].offset = committed + i
  BY <1>3 DEF poll
<1>7. batch'[b] = s
  BY <1>0, <1>2, <1>3
<1>8. \A c \in Builders : c # b => Stays(c) /\ batch'[c] = batch[c]
  BY <1>0, <1>1, <1>2 DEF Stays
<1>9. delivered <= delivered'
  BY <1>0, <1>2, <1>4 DEF larger
<1> QED
  BY <1>0, <1>1, <1>2, <1>4, <1>5, <1>6, <1>7, <1>8, <1>9

-----------------------------------------------------------------------------
(***************************************************************************)
(* Without redelivery or overlap, ticks are counted in order: those that   *)
(* are in a bar were polled, and come before those a request holds.        *)
(***************************************************************************)
CountedPassed ==
  \A i : Counted(Placed, i) =>
    i \in Nat /\ i <= delivered /\ \A b \in Builders : pc[b] # "idle" => Passed(b, i)
TwiceInv ==
  mishaps \subseteq {"failed", "restarted"} => CountedOnce(Placed) /\ CountedPassed

LEMMA SetOpenStep ==
  ASSUME Types, Batches, OneRequest, NEW b \in Builders, SetOpen(b)
  PROVE  /\ pc[b] = "write" /\ pc'[b] = "cache_open" /\ UNCHANGED <<batch, delivered, mishaps, ticks>>
         /\ "overlapped" \notin mishaps => \A c \in Builders : pc'[c] # "idle" => c = b
<1>1. pc[b] = "write" /\ pc' = [pc EXCEPT ![b] = "cache_open"]
      /\ UNCHANGED <<batch, delivered, mishaps, ticks>>
  BY DEF SetOpen, Goto, gatewayVars
<1> QED
  BY <1>1 DEF OneRequest, Types, RequestTypes

LEMMA TwiceKept ==
  ASSUME Types, Batches, OneRequest, OpenOnce, BuiltHeld, TwiceInv, [Next]_vars
  PROVE  TwiceInv'
<1> SUFFICES ASSUME mishaps' \subseteq {"failed", "restarted"}
             PROVE  CountedOnce(Placed') /\ CountedPassed'
  BY DEF TwiceInv
<1>1. CountedOnce(Placed) /\ CountedPassed /\ "overlapped" \notin mishaps
  BY MishapsGrow DEF TwiceInv
<1>2. PICK P, Q : P = Placed /\ Q = Placed'
  OBVIOUS
<1>3. \A i : Counted(P, i) => i \in Nat /\ i <= delivered
                              /\ \A b \in Builders : pc[b] # "idle" => Passed(b, i)
  BY <1>1, <1>2 DEF CountedPassed
<1>4. ASSUME \A b \in Builders : ~SetOpen(b)
      PROVE  CountedOnce(Q) /\ \A i : Counted(Q, i) => Counted(P, i)
  <2>1. Dropped(P, Q)
    BY <1>2, <1>4, Drops
  <2> QED
    BY <1>1, <1>2, <2>1, DroppedOnce, DroppedCounts
<1>5. CASE \A b \in Builders : ~Poll(b) /\ ~SetOpen(b) /\ ~CacheOpen(b)
  <2>1. delivered' = delivered /\ \A b \in Builders : Stays(b)
    BY <1>5, OthersStay
  <2>2. \A i : \A b \in Builders : pc'[b] # "idle" /\ Passed(b, i) => Passed(b, i)'
    BY <2>1 DEF Stays, Passed, head
  <2>3. \A b \in Builders : pc'[b] # "idle" => pc[b] # "idle"
    BY <2>1 DEF Stays
  <2> QED
    BY <1>2, <1>3, <1>4, <1>5, <2>1, <2>2, <2>3 DEF CountedPassed
<1>6. ASSUME NEW b \in Builders, Poll(b)
      PROVE  CountedOnce(Placed') /\ CountedPassed'
  <2>1. Q = P
    BY <1>2, <1>6, PlacedSame
  <2>2. committed \in Nat /\ delivered \in Nat /\ committed = delivered
    <3>1. wrongWithPoll(b) \subseteq mishaps'
      BY <1>6 DEF Poll
    <3>2. ~(committed < delivered)
      BY <3>1 DEF wrongWithPoll, Mishaps
    <3> QED
      BY <3>2 DEF Types, OffsetTypes
  <2>3. PICK n \in Nat : /\ delivered' = larger(delivered, committed + n) /\ Len(batch'[b]) = n
                         /\ \A i \in 1..n : batch'[b][i].offset = committed + i
                         /\ n >= 1
    BY <1>6, PollStep
  <2>4. pc'[b] = "scan" /\ delivered' \in Nat /\ delivered <= delivered'
        /\ \A c \in Builders : c # b => Stays(c)
    BY <1>6, <2>2, <2>3, PollStep DEF larger
  <2>5. head(b)' = delivered + 1
    BY <2>2, <2>3 DEF head
  <2>6. ASSUME NEW i, Counted(P, i), NEW c \in Builders, pc'[c] # "idle"
        PROVE  Passed(c, i)'
    <3>1. CASE c = b
      BY <1>3, <2>2, <2>4, <2>5, <2>6, <3>1 DEF Passed
    <3>2. CASE c # b
      BY <1>3, <2>4, <2>6, <3>2 DEF Stays, Passed, head
    <3> QED
      BY <3>1, <3>2
  <2>7. \A i : Counted(P, i) => i \in Nat /\ i <= delivered'
    BY <1>3, <2>2, <2>4
  <2> QED
    BY <1>1, <1>2, <2>1, <2>6, <2>7 DEF CountedPassed
<1>7. ASSUME NEW b \in Builders, CacheOpen(b)
      PROVE  CountedOnce(Placed') /\ CountedPassed'
  <2>1. Q = P
    BY <1>2, <1>7, PlacedSame
  <2>2. /\ pc'[b] \in {"idle", "scan"} /\ delivered' = delivered
        /\ pc'[b] # "idle" => head(b)' = head(b) + 1
        /\ \A c \in Builders : c # b => Stays(c)
    BY <1>7, CacheOpenStep
  <2>3. pc[b] = "cache_open"
    BY <1>7 DEF CacheOpen
  <2>4. head(b) \in Nat
    BY <2>3, HeadType DEF Types, OffsetTypes
  <2>5. ASSUME NEW i, Counted(P, i), NEW c \in Builders, pc'[c] # "idle"
        PROVE  Passed(c, i)'
    <3>1. CASE c = b
      BY <1>3, <2>2, <2>3, <2>4, <2>5, <3>1 DEF Passed
    <3>2. CASE c # b
      BY <1>3, <2>2, <2>5, <3>2 DEF Stays, Passed, head
    <3> QED
      BY <3>1, <3>2
  <2> QED
    BY <1>1, <1>2, <1>3, <2>1, <2>2, <2>5 DEF CountedPassed
<1>8. ASSUME NEW b \in Builders, SetOpen(b)
      PROVE  CountedOnce(Placed') /\ CountedPassed'
  <2>1. /\ pc[b] = "write" /\ pc'[b] = "cache_open" /\ UNCHANGED <<batch, delivered, mishaps, ticks>>
        /\ \A c \in Builders : pc'[c] # "idle" => c = b
    BY <1>1, <1>8, SetOpenStep
  <2>2. PICK o \in Nat : o = head(b) /\ o <= delivered /\ o = Head(batch[b]).offset
    BY <2>1, HeadType DEF Types, OffsetTypes
  <2>3. PICK z : Absorbed(b, z)
    BY <1>1, <1>8, SetOpenAdds
  <2>4. Added(P, Q, z, o, keyOf(tick(b)))
    BY <1>2, <2>2, <2>3 DEF Absorbed
  <2>5. ~Counted(P, o)
    <3>1. Counted(P, o) => Passed(b, o)
      BY <1>3, <2>1
    <3>2. Passed(b, o) => o < o
      BY <2>1, <2>2 DEF Passed
    <3> QED
      BY <2>2, <3>1, <3>2
  <2>6. TickLists(P)
    BY <1>2, PlacedBars
  <2>7. CountedOnce(Q)
    BY <1>1, <1>2, <2>2, <2>4, <2>5, <2>6, AddedOnce
  <2>8. \A i : Counted(Q, i) => Counted(P, i) \/ i = o
    BY <2>2, <2>4, <2>6, AddedCounts
  <2>9. head(b)' = o
    BY <2>1, <2>2 DEF head
  <2>10. \A i : Counted(Q, i) => i \in Nat /\ i <= delivered' /\ Passed(b, i)'
    <3>1. \A i : Counted(P, i) => i < o
      BY <1>3, <2>1, <2>2 DEF Passed
    <3>2. \A i : Counted(Q, i) => i \in Nat /\ i <= o
      BY <1>3, <2>2, <2>8, <3>1
    <3> QED
      BY <1>3, <2>1, <2>2, <2>8, <2>9, <3>2 DEF Passed
  <2> QED
    BY <1>2, <2>1, <2>7, <2>10 DEF CountedPassed
<1> QED
  BY <1>5, <1>6, <1>7, <1>8

\* The invariant of the open bars and of the requests, which holds whatever goes
\* wrong.
Running == Types /\ Batches /\ SoundBars /\ OneRequest /\ OpenOnce /\ ClosingOld /\ BuiltHeld

LEMMA RunningInit == Init => Running
<1> SUFFICES ASSUME Init
             PROVE  Running
  OBVIOUS
<1>1. Types
  BY TypesInit
<1>2. Batches /\ SoundBars
  BY DEF Init, Batches, Faithful, SoundBars, Everywhere, bars, Values, Holding, empty
<1>3. OneRequest /\ OpenOnce /\ BuiltHeld
  BY DEF Init, OneRequest, OpenOnce, Once, BuiltHeld
<1>4. ClosingOld
  BY DEF Init, ClosingOld, Older
<1> QED
  BY <1>1, <1>2, <1>3, <1>4 DEF Running

LEMMA RunningKept ==
  ASSUME Running, [Next]_vars
  PROVE  Running'
BY TypesKept, BatchesKept, SoundBarsKept, OneRequestKept, OpenOnceKept, ClosingOldKept,
   BuiltHeldKept DEF Running

LEMMA NothingPlaced ==
  ASSUME Init
  PROVE  Placed = [p \in {} |-> p] /\ DOMAIN Placed = {}
<1>1. closed = <<>> /\ open = <<>> /\ Hands = {}
  BY DEF Init, Hands
<1>2. Spots(<<>>, <<>>, {}) = {}
  BY DEF Spots
<1> QED
  BY <1>1, <1>2 DEF Placed, Board

\* Nothing was delivered again and no requests overlapped: no tick is counted
\* twice, in one bar or in two, whatever fails and however often the process
\* ends between taking a tick and closing its bar.
THEOREM TicksCountOnce == Spec => []NoTickTwice
<1>1. Init => Running /\ TwiceInv
  <2>1. Init => CountedOnce(Placed) /\ CountedPassed
    BY NothingPlaced DEF CountedOnce, CountedPassed, Counted
  <2> QED
    BY <2>1, RunningInit DEF TwiceInv
<1>2. Running /\ TwiceInv /\ [Next]_vars => (Running /\ TwiceInv)'
  BY RunningKept, TwiceKept DEF Running
<1>3. Running /\ TwiceInv => NoTickTwice
  <2> SUFFICES ASSUME Running, TwiceInv, mishaps \subseteq {"failed", "restarted"},
                      NEW i \in 1..Len(closed \o open), NEW j \in 1..Len(closed \o open),
                      NEW m \in 1..Len((closed \o open)[i].ticks),
                      NEW n \in 1..Len((closed \o open)[j].ticks),
                      (closed \o open)[i].ticks[m] = (closed \o open)[j].ticks[n]
               PROVE  i = j /\ m = n
    BY DEF NoTickTwice
  <2>1. PICK c \in Seq(Bar) : c = closed
    BY DEF Running, Types, SinkTypes
  <2>2. PICK o \in Seq(Bar) : o = open
    BY DEF Running, Types, SinkTypes
  <2>3. PICK all : all = c \o o
    OBVIOUS
  <2>4. PICK k \in Nat : k = Len(c)
    OBVIOUS
  <2> DEFINE spot(a) == IF a <= k THEN <<"closed", a>> ELSE <<"open", a - k>>
  <2>5. ASSUME NEW a \in 1..Len(all)
        PROVE  spot(a) \in DOMAIN Placed /\ Placed[spot(a)] = all[a]
    <3>1. a \in Int /\ (a <= k => a \in 1..Len(c) /\ all[a] = c[a])
          /\ (~(a <= k) => a - k \in 1..Len(o) /\ all[a] = o[a - k])
      <4>1. Len(c) \in Nat /\ Len(o) \in Nat /\ Len(all) = Len(c) + Len(o)
        BY <2>3
      <4>2. a \in Int /\ 1 <= a /\ a <= Len(c) + Len(o)
        BY ONLY <2>5, <4>1
      <4>3. (a <= k => a \in 1..Len(c)) /\ (~(a <= k) => a - k \in 1..Len(o) /\ a = Len(c) + (a - k))
        BY ONLY <2>4, <4>1, <4>2
      <4>4. a <= k => all[a] = c[a]
        BY <2>3, <4>3
      <4>5. ~(a <= k) => all[a] = o[a - k]
        BY <2>3, <4>1, <4>2, <4>3, SMTT(20)
      <4> QED
        BY <4>2, <4>3, <4>4, <4>5
    <3>2. IsBoard(Placed, c, o, Hands, bar)
      BY <2>1, <2>2, PlacedBars DEF Running
    <3> QED
      BY <3>1, <3>2 DEF IsBoard
  <2>6. \A a, d \in 1..Len(all) : spot(a) = spot(d) => a = d
    BY <2>4
  <2>7. CountedOnce(Placed)
    BY DEF TwiceInv
  <2>8. all = closed \o open
    BY <2>1, <2>2, <2>3
  <2> HIDE DEF spot
  <2>9. PICK p, q : p = spot(i) /\ q = spot(j)
    OBVIOUS
  <2>10. PICK P : P = Placed
    OBVIOUS
  <2>11. p \in DOMAIN P /\ q \in DOMAIN P /\ P[p] = all[i] /\ P[q] = all[j]
    BY <2>5, <2>8, <2>9, <2>10
  <2>12. IsTick(P, p, m, all[i].ticks[m]) /\ IsTick(P, q, n, all[j].ticks[n])
    BY <2>8, <2>11 DEF IsTick
  <2>13. all[i].ticks[m] = all[j].ticks[n]
    BY <2>8
  <2>14. CountedOnce(P)
    BY <2>7, <2>10
  <2>15. SamePlace(p, q, m, n)
    BY ONLY <2>12, <2>13, <2>14, OnceAt
  <2> QED
    BY <2>6, <2>8, <2>9, <2>15 DEF SamePlace
<1> QED
  BY <1>1, <1>2, <1>3, PTL DEF Spec

-----------------------------------------------------------------------------
(***************************************************************************)
(* Without failures, restarts or overlap, no tick is lost: it is with the  *)
(* request that polled it until its bar has been set.                      *)
(***************************************************************************)
Carries(b, i) == \E n \in 1..Len(batch[b]) : batch[b][n].offset = i
NoneLost ==
  /\ \A i \in 1..delivered : Counted(Placed, i) \/ \E b \in Builders : Carries(b, i)
  /\ \A b \in Builders : pc[b] = "cache_open" => Counted(Placed, head(b))
LostInv == mishaps \subseteq {"redelivered"} => NoneLost

LEMMA LostKept ==
  ASSUME Types, Batches, OneRequest, OpenOnce, BuiltHeld, LostInv, [Next]_vars
  PROVE  LostInv'
<1> SUFFICES ASSUME mishaps' \subseteq {"redelivered"}
             PROVE  NoneLost'
  BY DEF LostInv
<1>0. pc \in [Builders -> Steps] /\ batch \in [Builders -> Seq(Records)]
  BY DEF Types, RequestTypes
<1>1. NoneLost /\ "overlapped" \notin mishaps
  BY MishapsGrow DEF LostInv
<1>2. PICK P, Q : P = Placed /\ Q = Placed'
  OBVIOUS
<1>3. \A i \in 1..delivered : Counted(P, i) \/ \E b \in Builders : Carries(b, i)
  BY <1>1, <1>2 DEF NoneLost
<1>4. \A b \in Builders : pc[b] = "cache_open" => Counted(P, head(b))
  BY <1>1, <1>2 DEF NoneLost
<1>5. (\A b \in Builders : ~Fail(b)) /\ ~Restart
  BY DEF Fail, Restart
<1>6. CASE \A b \in Builders : ~Poll(b) /\ ~SetOpen(b) /\ ~CacheOpen(b)
  <2>1. Moved(P, Q)
    BY <1>2, <1>5, <1>6, Moves
  <2>2. \A i : Counted(P, i) => Counted(Q, i)
    BY <2>1, MovedCounts
  <2>3. delivered' = delivered /\ \A b \in Builders : Stays(b)
    BY <1>6, OthersStay
  <2>4. batch' = batch
    BY <1>5, <1>6 DEF Next, Step, Scan, Pop, PublishClosed, CacheClosed, UpsertClosed, Build,
       Commit, builderVars, vars
  <2> QED
    BY <1>2, <1>3, <1>4, <2>2, <2>3, <2>4 DEF NoneLost, Carries, Stays, head
<1>7. ASSUME NEW b \in Builders, Poll(b)
      PROVE  NoneLost'
  <2>1. Q = P
    BY <1>2, <1>7, PlacedSame
  <2>2. committed \in Nat /\ delivered \in Nat /\ committed <= delivered
    BY DEF Types, OffsetTypes
  <2>3. /\ pc[b] = "idle" /\ pc'[b] = "scan"
        /\ \A c \in Builders : c # b => Stays(c) /\ batch'[c] = batch[c]
    BY <1>7, PollStep
  <2>4. PICK n \in Nat : /\ delivered' = larger(delivered, committed + n) /\ Len(batch'[b]) = n
                         /\ \A i \in 1..n : batch'[b][i].offset = committed + i
    BY <1>7, PollStep
  <2>5. ASSUME NEW i \in 1..delivered'
        PROVE  Counted(Q, i) \/ \E c \in Builders : Carries(c, i)'
    <3>1. CASE i <= delivered
      <4>1. i \in 1..delivered
        BY <3>1, <2>2
      <4>2. CASE Counted(P, i)
        BY <2>1, <4>2
      <4>3. CASE \E c \in Builders : Carries(c, i)
        <5>1. PICK c \in Builders : Carries(c, i)
          BY <4>3
        <5>2. batch[b] = <<>>
          BY <2>3 DEF Types, RequestTypes
        <5>3. c # b
          BY <5>1, <5>2 DEF Carries
        <5>4. Carries(c, i)'
          BY <2>3, <5>1, <5>3 DEF Carries
        <5> QED
          BY <5>4
      <4> QED
        BY <1>3, <4>1, <4>2, <4>3
    <3>2. CASE ~(i <= delivered)
      <4>1. i \in Int /\ i <= committed + n /\ i - committed \in 1..n
        BY <2>2, <2>4, <3>2 DEF larger
      <4>2. batch'[b][i - committed].offset = committed + (i - committed)
        BY <2>4, <4>1
      <4>3. committed + (i - committed) = i
        BY <2>2, <4>1
      <4>4. Carries(b, i)'
        BY <2>4, <4>1, <4>2, <4>3 DEF Carries
      <4> QED
        BY <4>4
    <3> QED
      BY <3>1, <3>2
  <2>6. \A c \in Builders : pc'[c] = "cache_open" => Counted(Q, head(c)')
    BY <1>4, <2>1, <2>3 DEF Stays, head
  <2> QED
    BY <1>2, <2>5, <2>6 DEF NoneLost
<1>8. ASSUME NEW b \in Builders, CacheOpen(b)
      PROVE  NoneLost'
  <2>1. Q = P
    BY <1>2, <1>8, PlacedSame
  <2>2. /\ pc'[b] \in {"idle", "scan"} /\ delivered' = delivered
        /\ \A c \in Builders : c # b => Stays(c) /\ batch'[c] = batch[c]
        /\ \A n \in 2..Len(batch[b]) :
             n - 1 \in 1..Len(batch'[b]) /\ batch'[b][n - 1] = batch[b][n]
    BY <1>8, CacheOpenStep
  <2>3. Counted(P, head(b))
    BY <1>4, <1>8 DEF CacheOpen
  <2>4. ASSUME NEW i \in 1..delivered, NEW c \in Builders, Carries(c, i)
        PROVE  Counted(Q, i) \/ Carries(c, i)'
    <3>1. PICK n \in 1..Len(batch[c]) : batch[c][n].offset = i
      BY <2>4 DEF Carries
    <3>2. CASE c # b
      BY <2>2, <2>4, <3>2 DEF Carries
    <3>3. CASE c = b /\ n = 1
      BY <2>1, <2>3, <3>1, <3>3 DEF head
    <3>4. CASE c = b /\ n # 1
      <4>1. n \in 2..Len(batch[b])
        BY <3>1, <3>4
      <4>2. n - 1 \in 1..Len(batch'[b]) /\ batch'[b][n - 1].offset = i
        BY <2>2, <3>1, <3>4, <4>1
      <4> QED
        BY <3>4, <4>2 DEF Carries
    <3> QED
      BY <3>2, <3>3, <3>4
  <2>5. \A c \in Builders : pc'[c] = "cache_open" => Counted(Q, head(c)')
    BY <1>4, <2>1, <2>2 DEF Stays, head
  <2>6. \A i \in 1..delivered' : Counted(Q, i) \/ \E c \in Builders : Carries(c, i)'
    BY <1>3, <2>1, <2>2, <2>4
  <2> QED
    BY <1>2, <2>5, <2>6 DEF NoneLost
<1>9. ASSUME NEW b \in Builders, SetOpen(b)
      PROVE  NoneLost'
  <2>1. /\ pc[b] = "write" /\ UNCHANGED <<batch, delivered>>
        /\ \A c \in Builders : pc'[c] # "idle" => c = b
    BY <1>1, <1>9, SetOpenStep
  <2>2. PICK o \in Nat : o = head(b) /\ o = Head(batch[b]).offset
    BY <2>1, HeadType DEF Types, OffsetTypes
  <2>3. PICK z : Absorbed(b, z)
    BY <1>1, <1>9, SetOpenAdds
  <2>4. Added(P, Q, z, o, keyOf(tick(b)))
    BY <1>2, <2>2, <2>3 DEF Absorbed
  <2>5. TickLists(P)
    BY <1>2, PlacedBars
  <2>6. Counted(Q, o) /\ \A i : Counted(P, i) => Counted(Q, i)
    BY <2>2, <2>4, <2>5, AddedCounts
  <2>7. \A c \in Builders : pc'[c] = "cache_open" => Counted(Q, head(c)')
    BY <2>1, <2>2, <2>6 DEF head
  <2>8. \A i \in 1..delivered' : Counted(Q, i) \/ \E c \in Builders : Carries(c, i)'
    BY <1>3, <2>1, <2>6 DEF Carries
  <2> QED
    BY <1>2, <2>7, <2>8 DEF NoneLost
<1> QED
  BY <1>6, <1>7, <1>8, <1>9

\* Nothing failed, restarted or overlapped: every tick that was polled is in an
\* open or a published bar, or still with the request that polled it.
THEOREM TicksAreKept == Spec => []NoTickLost
<1>1. Init => Running /\ LostInv
  <2>1. Init => NoneLost
    BY DEF Init, NoneLost
  <2> QED
    BY <2>1, RunningInit DEF LostInv
<1>2. Running /\ LostInv /\ [Next]_vars => (Running /\ LostInv)'
  BY RunningKept, LostKept DEF Running
<1>3. Running /\ LostInv => NoTickLost
  <2> SUFFICES ASSUME Running, LostInv, mishaps \subseteq {"redelivered"}, NEW i \in 1..delivered
               PROVE  \/ \E b \in Builders : \E r \in bars(batch[b]) : r.offset = i
                      \/ \E x \in bars(open) \cup bars(closed) \cup inHand : i \in bars(x.ticks)
    BY DEF NoTickLost
  <2>1. Counted(Placed, i) \/ \E b \in Builders : Carries(b, i)
    BY DEF LostInv, NoneLost
  <2>2. CASE \E b \in Builders : Carries(b, i)
    BY <2>2 DEF Carries, bars
  <2>3. CASE Counted(Placed, i)
    <3>1. PICK p \in DOMAIN Placed : Counts(Placed[p], i)
      BY <2>3 DEF Counted
    <3>2. i \in bars(Placed[p].ticks)
      BY <3>1 DEF Counts, bars
    <3>3. Placed[p] \in bars(open) \cup bars(closed) \cup inHand
      BY PlacedBars DEF Running, IsBoard, bars, inHand, Hands
    <3> QED
      BY <3>2, <3>3
  <2> QED
    BY <2>1, <2>2, <2>3
<1> QED
  BY <1>1, <1>2, <1>3, PTL DEF Spec

-----------------------------------------------------------------------------
(***************************************************************************)
(* Ticks in the order of time, each counted once: a bar is only taken off  *)
(* the open ones when a tick of a later minute has come, so that no bar of *)
(* its minute is ever opened again.                                        *)
(***************************************************************************)
Over(x) == \E o \in 1..delivered :
  x.minute < ticks[o].minute /\ \A b \in Builders : pc[b] # "idle" => o <= head(b)
ClosedOver ==
  (\A n \in 1..Len(closed) : Over(closed[n])) /\ (\A b \in Hands : Over(bar[b][1]))
OrderInv ==
  InOrder /\ mishaps \subseteq {"failed", "restarted"} => KeysApart(Placed) /\ ClosedOver

LEMMA OrderGrows ==
  ASSUME Types, Grown(ticks, ticks'), InOrder'
  PROVE  InOrder
BY DEF InOrder, Grown

LEMMA OverKept ==
  ASSUME Types, Batches, OneRequest, [Next]_vars, mishaps' \subseteq {"failed", "restarted"},
         NEW x, Over(x)
  PROVE  Over(x)'
<1>1. Grown(ticks, ticks')
  BY TypesKept
<1>2. PICK o \in 1..delivered :
        x.minute < ticks[o].minute /\ \A b \in Builders : pc[b] # "idle" => o <= head(b)
  BY DEF Over
<1>3. ticks'[o] = ticks[o] /\ o \in Nat
  BY <1>1 DEF Grown, Types, OffsetTypes
<1>4. ASSUME o \in 1..delivered', \A b \in Builders : pc'[b] # "idle" => o <= head(b)'
      PROVE  Over(x)'
  BY <1>2, <1>3, <1>4 DEF Over
<1>5. CASE \A b \in Builders : ~Poll(b) /\ ~SetOpen(b) /\ ~CacheOpen(b)
  <2>1. delivered' = delivered /\ \A b \in Builders : Stays(b)
    BY <1>5, OthersStay
  <2>2. \A b \in Builders : pc'[b] # "idle" => o <= head(b)'
    BY <1>2, <2>1 DEF Stays, head
  <2> QED
    BY <1>4, <2>1, <2>2
<1>6. ASSUME NEW b \in Builders, Poll(b)
      PROVE  Over(x)'
  <2>1. committed = delivered /\ delivered \in Nat
    <3>1. wrongWithPoll(b) \subseteq mishaps'
      BY <1>6 DEF Poll
    <3>2. ~(committed < delivered)
      BY <3>1 DEF wrongWithPoll, Mishaps
    <3> QED
      BY <3>2 DEF Types, OffsetTypes
  <2>2. /\ \A c \in Builders : c # b => Stays(c)
        /\ \E n \in Nat : /\ delivered' = larger(delivered, committed + n) /\ Len(batch'[b]) = n
                          /\ \A i \in 1..n : batch'[b][i].offset = committed + i
                          /\ n >= 1
    BY <1>6, PollStep
  <2>3. PICK n \in Nat : /\ delivered' = larger(delivered, committed + n)
                         /\ \A i \in 1..n : batch'[b][i].offset = committed + i
                         /\ n >= 1
    BY <2>2
  <2>4. head(b)' = delivered + 1
    BY <2>1, <2>3 DEF head
  <2>5. o \in 1..delivered'
    BY <2>1, <2>3 DEF larger
  <2>6. \A c \in Builders : pc'[c] # "idle" => o <= head(c)'
    <3> SUFFICES ASSUME NEW c \in Builders, pc'[c] # "idle"
                 PROVE  o <= head(c)'
      OBVIOUS
    <3>1. CASE c = b
      BY <2>1, <2>4, <3>1
    <3>2. CASE c # b
      BY <1>2, <2>2, <3>2 DEF Stays, head
    <3> QED
      BY <3>1, <3>2
  <2> QED
    BY <1>4, <2>5, <2>6
<1>7. ASSUME NEW b \in Builders, CacheOpen(b)
      PROVE  Over(x)'
  <2>1. /\ delivered' = delivered
        /\ pc'[b] # "idle" => head(b)' = head(b) + 1
        /\ \A c \in Builders : c # b => Stays(c)
    BY <1>7, CacheOpenStep
  <2>2. pc[b] # "idle" /\ head(b) \in Nat
    BY <1>7, HeadType DEF CacheOpen, Types, OffsetTypes
  <2>3. \A c \in Builders : pc'[c] # "idle" => o <= head(c)'
    <3> SUFFICES ASSUME NEW c \in Builders, pc'[c] # "idle"
                 PROVE  o <= head(c)'
      OBVIOUS
    <3>1. CASE c = b
      BY <1>2, <1>3, <2>1, <2>2, <3>1
    <3>2. CASE c # b
      BY <1>2, <2>1, <3>2 DEF Stays, head
    <3> QED
      BY <3>1, <3>2
  <2> QED
    BY <1>4, <2>1, <2>3
<1>8. ASSUME NEW b \in Builders, SetOpen(b)
      PROVE  Over(x)'
  <2>1. pc[b] = "write" /\ pc' = [pc EXCEPT ![b] = "cache_open"] /\ UNCHANGED <<batch, delivered>>
    BY <1>8 DEF SetOpen, Goto
  <2>2. \A c \in Builders : pc'[c] # "idle" => pc[c] # "idle"
    BY <2>1 DEF Types, RequestTypes
  <2>3. \A c \in Builders : head(c)' = head(c)
    BY <2>1 DEF head
  <2> QED
    BY <1>2, <1>4, <2>1, <2>2, <2>3
<1> QED
  BY <1>5, <1>6, <1>7, <1>8

\* No bar of the minute of the tick in a request's hands has left the open ones.
LEMMA MinuteStillOpen ==
  ASSUME Types, Batches, InOrder, NEW b \in Builders, pc[b] # "idle", NEW x, x.minute \in Int, Over(x)
  PROVE  keyOf(x) # keyOf(tick(b))
<1>1. PICK o \in 1..delivered : x.minute < ticks[o].minute /\ o <= head(b)
  BY DEF Over
<1>2. head(b) \in 1..Len(ticks) /\ ticks[head(b)] = tick(b) /\ head(b) \in 1..delivered
  BY HeadType
<1>3. PICK h \in 1..Len(ticks) : h = head(b)
  BY <1>2
<1>4. PICK t \in Seq(Ticks) : t = ticks
  BY DEF Types, GatewayTypes
<1>5. PICK z \in Nat : z = Len(t)
  OBVIOUS
<1>6. o \in 1..z /\ h \in 1..z
  BY <1>1, <1>3, <1>4, <1>5
<1>7. t[o] \in Ticks /\ t[h] \in Ticks
  BY <1>5, <1>6
<1>8. t[o].minute \in Int /\ t[h].minute \in Int
  BY <1>7, GatewayAssumption DEF Ticks
<1>9. t[o].minute <= t[h].minute
  <2>1. CASE o = h
    BY <1>8, <2>1
  <2>2. CASE o # h
    <3>1. o < h
      BY <1>1, <1>3, <1>6, <2>2
    <3> QED
      BY <1>4, <1>5, <1>6, <3>1 DEF InOrder
  <2> QED
    BY <2>1, <2>2
<1>10. x.minute # tick(b).minute
  BY <1>1, <1>2, <1>3, <1>4, <1>8, <1>9
<1> QED
  BY <1>10 DEF keyOf

LEMMA OrderKept ==
  ASSUME Running, Running', OrderInv, [Next]_vars
  PROVE  OrderInv'
<1> SUFFICES ASSUME InOrder', mishaps' \subseteq {"failed", "restarted"}
             PROVE  KeysApart(Placed') /\ ClosedOver'
  BY DEF OrderInv
<1>0. Types /\ Batches /\ OneRequest /\ OpenOnce /\ BuiltHeld /\ pc \in [Builders -> Steps]
      /\ bar \in [Builders -> Seq(Bar)] /\ closed \in Seq(Bar)
  BY DEF Running, Types, RequestTypes, SinkTypes
<1>1. InOrder /\ "overlapped" \notin mishaps' /\ mishaps \subseteq {"failed", "restarted"}
  BY <1>0, TypesKept, OrderGrows, MishapsGrow
<1>2. KeysApart(Placed) /\ ClosedOver
  BY <1>1 DEF OrderInv
<1>3. PICK P, Q : P = Placed /\ Q = Placed'
  OBVIOUS
<1>4. \A x : Over(x) => Over(x)'
  BY <1>0, OverKept
<1>5. KeysApart(Q)
  <2>1. CASE \A b \in Builders : ~SetOpen(b)
    <3>1. Dropped(P, Q)
      BY <1>0, <1>3, <2>1, Drops
    <3> QED
      BY <1>2, <1>3, <3>1, DroppedKeys
  <2>2. ASSUME NEW b \in Builders, SetOpen(b)
        PROVE  KeysApart(Q)
    <3>1. pc[b] = "write" /\ "overlapped" \notin mishaps
      BY <1>1, <2>2 DEF SetOpen
    <3>2. PICK z : Absorbed(b, z)
      BY <1>0, <2>2, <3>1, SetOpenAdds
    <3>3. PICK o, key : o = Head(batch[b]).offset /\ key = keyOf(tick(b))
      OBVIOUS
    <3>4. Added(P, Q, z, o, key)
      BY <1>3, <3>2, <3>3 DEF Absorbed
    <3>5. \A x \in Bar : Over(x) => keyOf(x) # key
      <4> SUFFICES ASSUME NEW x \in Bar, Over(x)
                   PROVE  keyOf(x) # key
        OBVIOUS
      <4>1. x.minute \in Int
        BY GatewayAssumption DEF Bar
      <4> QED
        BY <1>0, <1>1, <3>1, <3>3, <4>1, MinuteStillOpen
    <3>6. ASSUME z \notin DOMAIN P, NEW p \in DOMAIN P
          PROVE  keyOf(P[p]) # key
      <4>1. IsBoard(P, closed, open, Hands, bar) /\ P[p] \in Bar
        BY <1>0, <1>3, PlacedBars
      <4>2. CASE \E n \in 1..Len(closed) : p = <<"closed", n>>
        BY <1>2, <3>5, <4>1, <4>2 DEF IsBoard, ClosedOver
      <4>3. CASE \E n \in 1..Len(open) : p = <<"open", n>>
        BY <1>3, <3>2, <3>3, <3>6, <4>1, <4>3 DEF IsBoard, Absorbed
      <4>4. CASE \E a \in Hands : p = <<"hand", a>>
        BY <1>2, <3>5, <4>1, <4>4 DEF IsBoard, ClosedOver
      <4> QED
        BY <4>1, <4>2, <4>3, <4>4 DEF IsBoard
    <3> QED
      BY <1>2, <1>3, <3>4, <3>6, AddedKeys
  <2> QED
    BY <2>1, <2>2
<1>6. \A b \in Hands' : Over(bar[b][1])'
  <2> SUFFICES ASSUME NEW b \in Builders, pc'[b] = "publish"
               PROVE  Over(bar[b][1])'
    BY DEF Hands
  <2>1. CASE pc[b] = "publish" /\ bar'[b] = bar[b]
    BY <1>2, <1>4, <2>1 DEF ClosedOver, Hands
  <2>2. CASE Pop(b)
    <3>1. OneRequest' /\ Older(b)' /\ Types' /\ Batches'
      BY DEF Running, ClosingOld
    <3>2. \A c \in Builders : pc'[c] # "idle" => c = b
      BY <1>1, <3>1 DEF OneRequest
    <3>3. bar'[b][1].minute < tick(b)'.minute
      BY <3>1 DEF Older
    <3>4. pc[b] = "pop" /\ batch' = batch /\ ticks' = ticks /\ delivered' = delivered
      BY <2>2 DEF Pop, gatewayVars
    <3>5. head(b) \in 1..delivered /\ ticks[head(b)] = tick(b)
      BY <1>0, <3>4, HeadType
    <3>6. head(b)' = head(b) /\ tick(b)' = tick(b)
      BY <3>4 DEF head, tick
    <3>7. PICK o \in 1..delivered : o = head(b) /\ ticks[o] = tick(b) /\ o = head(b)'
      BY <3>5, <3>6
    <3>8. delivered \in Nat
      BY <1>0 DEF Types, OffsetTypes
    <3> QED
      BY <3>2, <3>3, <3>4, <3>6, <3>7, <3>8 DEF Over
  <2>3. ASSUME NEW c \in Builders, Poll(c) \/ Step(c) \/ Fail(c), ~(c = b /\ Pop(b))
        PROVE  pc[b] = "publish" /\ bar'[b] = bar[b]
    BY <1>0, <2>3 DEF Poll, Step, Scan, Pop, PublishClosed, CacheClosed, UpsertClosed, Build,
       SetOpen, CacheOpen, Fail, Fresh, Goto
  <2>4. CASE Restart
    BY <2>4 DEF Restart, Fresh
  <2>5. CASE Commit \/ (GatewayNext /\ UNCHANGED builderVars) \/ UNCHANGED vars
    BY <2>1, <2>5 DEF Commit, builderVars, vars
  <2> QED
    BY <2>1, <2>2, <2>3, <2>4, <2>5 DEF Next
<1>7. \A n \in 1..Len(closed') : Over(closed[n])'
  <2>1. CASE closed' = closed
    BY <1>2, <1>4, <2>1 DEF ClosedOver
  <2>2. ASSUME NEW b \in Builders, PublishClosed(b)
        PROVE  \A n \in 1..Len(closed') : Over(closed[n])'
    <3>1. pc[b] = "publish" /\ closed' = Append(closed, bar[b][1])
      BY <2>2 DEF PublishClosed, publish
    <3>2. PICK x \in Bar : x = bar[b][1]
      BY <1>0, <3>1, BarType DEF Types, Holding
    <3>3. Over(x)'
      BY <1>2, <1>4, <3>1, <3>2 DEF ClosedOver, Hands
    <3>4. \A n \in 1..Len(closed') : closed'[n] = x \/ (n \in 1..Len(closed) /\ closed'[n] = closed[n])
      BY <1>0, <3>1, <3>2, AppendProperties
    <3>5. \A n \in 1..Len(closed) : Over(closed[n])
      BY <1>2 DEF ClosedOver
    <3> QED
      BY <1>4, <3>3, <3>4, <3>5
  <2> QED
    BY <2>1, <2>2 DEF Next, vars, builderVars, Poll, Step, Scan, Pop, CacheClosed, UpsertClosed,
       Build, SetOpen, CacheOpen, Fail, Commit, Restart
<1> QED
  BY <1>3, <1>5, <1>6, <1>7 DEF ClosedOver

-----------------------------------------------------------------------------
(***************************************************************************)
(* The table of closed bars follows the topic: its bars are there, and but *)
(* for the last one while that is being written.                           *)
(***************************************************************************)
FromTopic ==
  \A k \in DOMAIN rows : \E n \in 1..Len(closed) :
    rows[k] = closed[n] /\ \A b \in Builders : AtSinks(b) => n # Len(closed)
RowsBehind == "overlapped" \notin mishaps => BeingWritten /\ FromTopic

LEMMA RowsBehindKept ==
  ASSUME Running, Running', RowsBehind, [Next]_vars
  PROVE  RowsBehind'
<1> SUFFICES ASSUME "overlapped" \notin mishaps'
             PROVE  BeingWritten' /\ FromTopic'
  BY DEF RowsBehind
<1>0. Types /\ pc \in [Builders -> Steps] /\ bar \in [Builders -> Seq(Bar)] /\ closed \in Seq(Bar)
  BY DEF Running, Types, RequestTypes, SinkTypes
<1>1. BeingWritten /\ FromTopic /\ "overlapped" \notin mishaps
  BY MishapsGrow DEF RowsBehind
<1>2. \A b, c \in Builders : pc'[b] # "idle" /\ pc'[c] # "idle" => b = c
  BY DEF Running, OneRequest
<1>3. ASSUME closed' = closed, rows' = rows,
             \A b \in Builders : AtSinks(b)' => AtSinks(b) /\ bar'[b] = bar[b]
      PROVE  BeingWritten' /\ FromTopic'
  BY <1>1, <1>3 DEF BeingWritten, FromTopic
<1>4. ASSUME NEW b \in Builders, PublishClosed(b)
      PROVE  BeingWritten' /\ FromTopic'
  <2>1. pc[b] = "publish" /\ pc' = [pc EXCEPT ![b] = "cache_closed"]
        /\ closed' = Append(closed, bar[b][1]) /\ UNCHANGED <<rows, bar>>
    BY <1>4 DEF PublishClosed, Goto, publish
  <2>2. PICK x \in Bar : x = bar[b][1]
    BY <1>0, <2>1, BarType DEF Types, Holding
  <2>3. PICK z \in Nat : z = Len(closed)
    BY <1>0
  <2>4. Len(closed') = z + 1 /\ closed'[z + 1] = x /\ \A n \in 1..z : closed'[n] = closed[n]
    BY <1>0, <2>1, <2>2, <2>3, AppendProperties
  <2>5. \A c \in Builders : AtSinks(c)' => c = b
    BY <1>0, <1>2, <2>1 DEF AtSinks
  <2>6. BeingWritten'
    BY <2>1, <2>2, <2>3, <2>4, <2>5 DEF BeingWritten
  <2>7. \A n \in 1..z : n \in 1..Len(closed') /\ n # Len(closed')
    BY <2>3, <2>4
  <2>8. \A k \in DOMAIN rows : \E n \in 1..z : rows[k] = closed[n]
    BY <1>1, <2>3 DEF FromTopic
  <2>9. FromTopic'
    BY <2>1, <2>4, <2>7, <2>8 DEF FromTopic
  <2> QED
    BY <2>6, <2>9
<1>5. ASSUME NEW b \in Builders, UpsertClosed(b)
      PROVE  BeingWritten' /\ FromTopic'
  <2>1. pc[b] = "upsert" /\ pc' = [pc EXCEPT ![b] = "pop"] /\ closed' = closed
        /\ rows' = put(rows, keyOf(bar[b][1]), bar[b][1])
    BY <1>5 DEF UpsertClosed, Goto
  <2>2. PICK x, key : x = bar[b][1] /\ key = keyOf(x)
    OBVIOUS
  <2>3. \A c \in Builders : ~AtSinks(c)'
    BY <1>0, <1>2, <2>1 DEF AtSinks
  <2>4. Len(closed) >= 1 /\ closed[Len(closed)] = x
    BY <1>1, <2>1, <2>2 DEF BeingWritten, AtSinks
  <2>5. Len(closed) \in 1..Len(closed)
    BY <1>0, <2>4
  <2>6. DOMAIN rows' = DOMAIN rows \cup {key} /\ rows'[key] = x
        /\ \A k \in DOMAIN rows : k # key => rows'[k] = rows[k]
    BY <2>1, <2>2 DEF put
  <2>7. FromTopic'
    BY <1>1, <2>1, <2>3, <2>4, <2>5, <2>6 DEF FromTopic
  <2> QED
    BY <2>3, <2>7 DEF BeingWritten
<1>6. ASSUME NEW b \in Builders, Poll(b) \/ Scan(b) \/ Pop(b) \/ CacheClosed(b) \/ Build(b)
             \/ SetOpen(b) \/ CacheOpen(b) \/ Fail(b)
      PROVE  BeingWritten' /\ FromTopic'
  <2>1. closed' = closed /\ rows' = rows
    BY <1>6 DEF Poll, Scan, Pop, CacheClosed, Build, SetOpen, CacheOpen, Fail
  <2>2. \A c \in Builders : AtSinks(c)' => AtSinks(c) /\ bar'[c] = bar[c]
    BY <1>0, <1>6 DEF Poll, Scan, Pop, CacheClosed, Build, SetOpen, CacheOpen, Fail, Fresh, Goto,
       AtSinks
  <2> QED
    BY <1>3, <2>1, <2>2
<1>7. CASE Restart
  BY <1>3, <1>7 DEF Restart, Fresh, AtSinks
<1>8. CASE Commit \/ (GatewayNext /\ UNCHANGED builderVars) \/ UNCHANGED vars
  BY <1>3, <1>8 DEF Commit, builderVars, vars, AtSinks
<1> QED
  BY <1>4, <1>5, <1>6, <1>7, <1>8 DEF Next, Step

Following == Running /\ OrderInv /\ RowsBehind

LEMMA FollowingInit == Init => Following
<1>1. Init => KeysApart(Placed)
  BY NothingPlaced DEF KeysApart
<1>2. Init => ClosedOver
  BY DEF Init, ClosedOver, Hands
<1>3. Init => RowsBehind
  BY DEF Init, RowsBehind, BeingWritten, FromTopic, AtSinks, empty
<1> QED
  BY <1>1, <1>2, <1>3, RunningInit DEF Following, OrderInv

LEMMA FollowingKept ==
  ASSUME Following, [Next]_vars
  PROVE  Following'
<1>1. Running'
  BY RunningKept DEF Following
<1> QED
  BY <1>1, OrderKept, RowsBehindKept DEF Following

LEMMA RowsStay ==
  ASSUME Following, [Next]_vars, InOrder', mishaps' \subseteq {"failed", "restarted"},
         NEW k \in DOMAIN rows
  PROVE  rows'[k] = rows[k]
<1>1. CASE rows' = rows
  BY <1>1
<1>2. ASSUME NEW b \in Builders, UpsertClosed(b)
      PROVE  rows'[k] = rows[k]
  <2>1. Types /\ closed \in Seq(Bar) /\ keyOf(rows[k]) = k
    BY DEF Following, Running, Types, SinkTypes, Table
  <2>2. KeysApart(Placed) /\ BeingWritten /\ FromTopic
    <3>1. mishaps \subseteq {"failed", "restarted"}
      BY MishapsGrow
    <3>2. InOrder
      BY <2>1, TypesKept, OrderGrows
    <3> QED
      BY <3>1, <3>2 DEF Following, OrderInv, RowsBehind
  <2>3. pc[b] = "upsert" /\ rows' = put(rows, keyOf(bar[b][1]), bar[b][1])
    BY <1>2 DEF UpsertClosed
  <2>4. PICK n \in 1..Len(closed) : rows[k] = closed[n] /\ n # Len(closed)
    BY <2>2, <2>3 DEF FromTopic, AtSinks
  <2>5. PICK z \in 1..Len(closed) : z = Len(closed)
    BY <2>1, <2>4
  <2>6. closed[z] = bar[b][1]
    BY <2>2, <2>3, <2>5 DEF BeingWritten, AtSinks
  <2>7. PICK P : P = Placed
    OBVIOUS
  <2>8. /\ <<"closed", n>> \in DOMAIN P /\ P[<<"closed", n>>] = closed[n]
        /\ <<"closed", z>> \in DOMAIN P /\ P[<<"closed", z>>] = closed[z]
    BY <2>1, <2>7, PlacedBars DEF IsBoard
  <2>9. <<"closed", n>> # <<"closed", z>>
    BY <2>4, <2>5
  <2>10. keyOf(closed[n]) # keyOf(closed[z])
    BY <2>2, <2>7, <2>8, <2>9 DEF KeysApart
  <2> QED
    BY <2>1, <2>3, <2>4, <2>6, <2>10 DEF put
<1> QED
  BY <1>1, <1>2 DEF Next, Step, vars, builderVars, Poll, Scan, Pop, PublishClosed, CacheClosed,
     Build, SetOpen, CacheOpen, Fail, Commit, Restart

\* What the repository writes about a minute it has written before is the same
\* bar, as long as ticks come in the order of time and once, whatever fails.
THEOREM ClosedBarsStay == Spec => ClosedBarStays
<1>1. Following /\ [Next]_vars =>
        [InOrder' /\ mishaps' \subseteq {"failed", "restarted"} =>
           \A k \in DOMAIN rows : rows'[k] = rows[k]]_vars
  BY RowsStay
<1> QED
  BY <1>1, FollowingInit, FollowingKept, PTL DEF Spec, ClosedBarStays

LEMMA CompleteRow ==
  ASSUME Following, LostInv, InOrder, mishaps = {}, NEW k \in DOMAIN rows, NEW i \in 1..Len(ticks)
  PROVE  keyOf(ticks[i]) = k <=> i \in bars(rows[k].ticks)
<1>1. Types /\ Batches /\ closed \in Seq(Bar) /\ keyOf(rows[k]) = k /\ SoundBars
  BY DEF Following, Running, Types, SinkTypes, Table
<1>2. KeysApart(Placed) /\ ClosedOver /\ FromTopic /\ NoneLost
  BY DEF Following, OrderInv, RowsBehind, LostInv
<1>3. ASSUME NEW x \in Everywhere, i \in bars(x.ticks)
      PROVE  keyOf(ticks[i]) = keyOf(x)
  <2>1. Aggregate(x, ticks)
    BY <1>1 DEF SoundBars, Sound
  <2>2. PICK m \in 1..Len(x.ticks) : i = x.ticks[m]
    BY <1>3 DEF bars
  <2> QED
    BY <2>1, <2>2 DEF Aggregate, Within
<1>4. rows[k] \in Everywhere
  BY DEF Everywhere, Values
<1>5. ASSUME keyOf(ticks[i]) = k
      PROVE  i \in bars(rows[k].ticks)
  <2>1. PICK n \in 1..Len(closed) : rows[k] = closed[n]
    BY <1>2 DEF FromTopic
  <2>2. PICK o \in 1..delivered :
          closed[n].minute < ticks[o].minute /\ \A b \in Builders : pc[b] # "idle" => o <= head(b)
    BY <1>2 DEF ClosedOver, Over
  <2>3. PICK t \in Seq(Ticks) : t = ticks
    BY <1>1 DEF Types, GatewayTypes
  <2>4. PICK z \in Nat : z = Len(t)
    OBVIOUS
  <2>5. o \in 1..z /\ i \in 1..z /\ delivered \in Nat
    BY <1>1, <2>3, <2>4 DEF Types, OffsetTypes
  <2>6. t[o].minute \in Int /\ t[i].minute \in Int
    <3>1. t[o] \in Ticks /\ t[i] \in Ticks
      BY <2>4, <2>5
    <3> QED
      BY <3>1, GatewayAssumption DEF Ticks
  <2>7. t[i].minute < t[o].minute
    BY <1>1, <1>5, <2>1, <2>2, <2>3 DEF keyOf
  <2>8. i < o
    <3>1. CASE o < i
      <4>1. t[o].minute <= t[i].minute
        BY <2>3, <2>4, <2>5, <3>1 DEF InOrder
      <4> QED
        BY <2>6, <2>7, <4>1
    <3>2. CASE o = i
      BY <2>6, <2>7, <3>2
    <3> QED
      BY <2>5, <3>1, <3>2
  <2>9. i \in 1..delivered
    BY <2>5, <2>8
  <2>10. ~\E b \in Builders : Carries(b, i)
    <3> SUFFICES ASSUME NEW b \in Builders, NEW j \in 1..Len(batch[b]), batch[b][j].offset = i
                 PROVE  FALSE
      BY DEF Carries
    <3>1. pc[b] # "idle"
      BY <1>1 DEF Types, RequestTypes
    <3>2. head(b) \in 1..delivered /\ o <= head(b)
      BY <1>1, <2>2, <3>1, HeadType
    <3>3. batch[b][j].offset = head(b) + (j - 1)
      BY <1>1 DEF Batches, Faithful, head
    <3>4. j \in Int /\ j >= 1
      OBVIOUS
    <3> QED
      BY <2>5, <2>8, <3>2, <3>3, <3>4
  <2>11. PICK P : P = Placed
    OBVIOUS
  <2>12. PICK p \in DOMAIN P : Counts(P[p], i)
    BY <1>2, <2>9, <2>10, <2>11 DEF NoneLost, Counted
  <2>13. IsBoard(P, closed, open, Hands, bar)
    BY <1>1, <2>11, PlacedBars
  <2>14. P[p] \in Everywhere
    BY <2>13 DEF IsBoard, Everywhere, bars, Hands, Holding
  <2>15. i \in bars(P[p].ticks)
    BY <2>12 DEF Counts, bars
  <2>16. keyOf(P[p]) = k
    BY <1>3, <1>5, <2>14, <2>15
  <2>17. <<"closed", n>> \in DOMAIN P /\ P[<<"closed", n>>] = rows[k]
    BY <2>1, <2>13 DEF IsBoard
  <2>18. p = <<"closed", n>>
    BY <1>1, <1>2, <2>11, <2>16, <2>17 DEF KeysApart
  <2> QED
    BY <2>15, <2>17, <2>18
<1> QED
  BY <1>1, <1>3, <1>4, <1>5

\* With ticks in the order of time and nothing wrong, the closed bar of a minute
\* has all of its ticks, those a request still holds and those yet to be polled
\* included: nobody closes a minute too early.
THEOREM ClosedBarsComplete == Spec => []ClosedBarIsComplete
<1>1. Init => Following /\ LostInv
  <2>1. Init => NoneLost
    BY DEF Init, NoneLost
  <2> QED
    BY <2>1, FollowingInit DEF LostInv
<1>2. Following /\ LostInv /\ [Next]_vars => (Following /\ LostInv)'
  BY FollowingKept, LostKept DEF Following, Running
<1>3. Following /\ LostInv => ClosedBarIsComplete
  <2> SUFFICES ASSUME Following, LostInv, InOrder, mishaps = {}, NEW k \in DOMAIN rows
               PROVE  bars(rows[k].ticks) = {i \in 1..Len(ticks) : keyOf(ticks[i]) = k}
    BY DEF ClosedBarIsComplete
  <2>1. \A i \in 1..Len(ticks) : keyOf(ticks[i]) = k <=> i \in bars(rows[k].ticks)
    BY CompleteRow
  <2>2. bars(rows[k].ticks) \subseteq 1..Len(ticks)
    <3>1. Aggregate(rows[k], ticks)
      BY DEF Following, Running, SoundBars, Sound, Everywhere, Values
    <3>2. PICK s \in Seq(1..Len(ticks)) : s = rows[k].ticks
      BY <3>1 DEF Aggregate
    <3>3. \A m \in 1..Len(s) : s[m] \in 1..Len(ticks)
      OBVIOUS
    <3> QED
      BY <3>2, <3>3 DEF bars
  <2> QED
    BY <2>1, <2>2
<1> QED
  BY <1>1, <1>2, <1>3, PTL DEF Spec
=============================================================================
