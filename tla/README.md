# A verification project for Base_Trading

TLA+ models of the trading system in this repository, the configurations that
model-check them with TLC, and theorems about them that the TLA+ proof system
checks. Source paths are relative to the repository; `E/` stands for
`services/execution_service/app/`.

## 1. The system

Ticks become bars, bars become indicators, indicators become signals, signals
become orders, and orders become positions and trades.

    market_data_gateway -> [Kafka ticks] -> bar_builder -> [Kafka closed bars]
      -> indicator_engine -> [Postgres indicators] -> strategy_runtime
      -> risk_service -> execution_service -> broker (FYERS, live or stub)
                                ^--------- broker updates (POST) -----'

Every service is a FastAPI application whose handlers are plain functions. The
server runs those on a pool of threads, so two requests interleave wherever
they touch module-level objects, and nothing in the repository takes a lock.

| component | state | operations | what makes it correct |
|---|---|---|---|
| execution service (`E/service.py`, `E/lifecycle_store.py`) | order store, module level | submit, cancel, modify, broker update | one broker order per key; lifecycle follows the state machine; every fill booked once |
| order state machine (`E/order_state_machine.py`) | none | transition, map broker words | the table of transitions |
| risk guard (`E/execution_risk.py`) | none | evaluate an order against the positions | limits hold for what reaches the broker |
| positions (`E/positions.py`) | lots and realised profit per symbol | apply a fill | quantity is conserved |
| trade ledger (`E/trades.py`) | lots per symbol, closed trades | apply a fill | quantity and money conserved, first in first out |
| broker adapter (`E/brokers/`) | none (the broker's own is outside) | place, cancel, modify | an outcome for every call |
| update consumer (`E/update_consumer.py`) | none | normalise an update, find its order | an update reaches its own order |
| persistence (`E/persistence.py`, `E/position_persistence.py`, `E/trade_persistence.py`, `E/audit_persistence.py`) | tables | upsert, load | what the tables say is what happened; restarts forget nothing |
| portfolio, profit (`E/portfolio.py`, `E/pnl.py`) | marks | aggregate | sums agree with the fills |
| audit trail (`E/audit.py`) | an append-only list | append | - |
| signal intake (`E/signal_reader.py`, `E/processor.py`) | none | prepare orders, place the first | one order per signal |
| bar builder | open bars, consumer offset | consume ticks, close bars | a closed bar holds all its ticks, once, and stays |
| indicator engine | table of indicators, consumer offset | consume bars | the row of a bar is that of its latest version |
| strategy runtime, risk service | none | transform | an order is for a closed bar, on the side it leans to |
| market data gateway | none (a feed per request) | emit | one tick per symbol, in the order of time |
| auth service | session file | bootstrap, status, delete | readers see a whole session |
| Kafka, Redis, Postgres clients | connections | poll, publish, query | offsets and processing |
| chart_api, gap_reconciler | none | start | - |

Hard behaviours: interleaved requests over the order store and the two books of
fills; a status read before a broker call and used after it; broker calls that
fail with an unknown outcome; restarts that lose everything in memory; repeated
submissions; updates that are lost, early, late or repeated; long sequences of
fills; ticks that are late or delivered twice. `PROJECT.json` lists each hazard
at its line, with the properties that would see it go wrong, and a note on what these exclude
or why there is none.

## 2. The modules

| module | models | extends or composes |
|---|---|---|
| `OrderStateMachine` | statuses, `ALLOWED_TRANSITIONS`, `BROKER_STATUS_MAP`, events | |
| `ExecutionRisk` | the decision of `evaluate_order` | |
| `Loops` | the running sum and the filter, as recursive functions | |
| `PositionLots` | `PositionService.apply_fill` and its closing loop | `Loops` |
| `TradeLots` | `InMemoryTradeLedger.apply_fill` and its closing loop | `PositionLots` |
| `ExecutionService` | the request threads over the shared store, positions and ledger, as wired: nothing is persisted | the first three |
| `OrderBook` | abstract: an order as one status and at most one booking | `OrderStateMachine`; implemented by `ExecutionService` |
| `BrokerFeed` | a broker with books of its own, and its messages | `ExecutionService` |
| `PersistedOrders` | the service with repositories, tables and restarts | `OrderStateMachine`, `ExecutionRisk`, `TradeLots` |
| `FillAccounting` | threads booking fills to both books at the grain of one access; portfolio and profit | `TradeLots` |
| `SharedClients` | publish, poll, upsert | |
| `MarketDataGateway` | overlapping requests to emit ticks | `SharedClients` |
| `BarBuilder` | requests to consume ticks, the open bars, the sinks of closed bars | `MarketDataGateway`, `Loops` |
| `ClosedBars` | abstract: the topic and the table as readers see them | implemented by `BarBuilder`, used by `SignalPipeline` |
| `SignalPipeline` | indicator engine, strategy, risk, signal intake, submission | `ClosedBars`, `SharedClients`, `Loops` |
| `ExecutionServiceProofs`, `PersistedOrdersProofs`, `FillAccountingProofs`, `BarBuilderProofs`, `SignalPipelineProofs` | theorems | their module |
| `BrokerFeedProofs` | theorems | `BrokerFeed`, `ExecutionServiceProofs`, `LoopProofs` |
| `LoopProofs`, `LotProofs` | what the loops compute: lemmas for the theorems | `Loops`, `TradeLots` |
| `MCExecutionService`, `MCBrokerFeed`, `MCPersistedOrders`, `MCFillAccounting`, `MCBarBuilder`, `MCSignalPipeline` | constants for TLC | their module |

Definitions named `Mutant...` are deliberate slips next to the definition they
stand in for. No specification uses them: they are there to see that each
property fails when the code is wrong in a plausible way.

A step of every module is one access to state that several requests (or
processes) share, together with the private computation that follows it.

### ExecutionService

`orders` is `_LIFECYCLE_STORE`, from order ids to records with the fields of
`StoredOrder` a decision depends on. `positions` and `trades` are the fills the
two `apply_fill` methods were called with, in the order of the calls.
`pc`, `request`, `order`, `event`, `external` and `at` are the local variables
of the handler a thread runs. `placed` belongs to the broker: the orders it
took. An order id, a UUID in the code, is the rank of the order's creation,
which is also its place in the insertion order of the store.

| code | actions |
|---|---|
| `submit_order_request` 291-293, duplicate check | `BeginSubmit`, `RespondDuplicate` |
| 295-303, risk | `AcceptRisk`, `RejectRisk` |
| 305-330, create the order, build the SUBMITTED event | `CreateOrder` |
| `append_event` 69-73, status and external id | `SetStatus` |
| `append_event` 74, history | `PushEvent`, `PushLastEvent`, `PushFill` |
| 334-372, the broker's answer | `BrokerAccepts`, `BrokerRejects`, `BrokerFails` |
| `apply_broker_update` 493-499, validate | `BeginUpdate`, `RejectUpdate` |
| 510-553, book the fill | `BookPosition`, then `BookTrade` |
| `cancel_order` | `BeginCancel`, `SetStatus`, `PushEvent`, `CallCancel`, `SetStatus`, `PushLastEvent` |
| `modify_order` | `BeginModify`, `CallModify` or `ModifyRaises`, `SetStatus`, `PushLastEvent` |
| the process ends and starts again | `Restart` |

Points that are easy to miss. `append_event` is two steps, because the status
is assigned before the history grows. `modify_order` holds a reference to the
stored order, so it validates with the status before the broker call and builds
its event from the status after it. `cancel_order` reads the status in two
consecutive statements; as the first accepts exactly the statuses from which
the transition of the second is allowed, one read has the same outcomes.
`modify_order` names the status twice in one call (459-460); `CallModify` reads
it once, since the interpreter (Python 3.11 or later) hands over to another
thread between neither of the two attribute loads, and `CancelsConcluded` rests
on that: were a cancel announced between the two reads, `modify_order` would build a
legal event from OPEN to CANCEL_PENDING, and appended after the cancel was
concluded it would leave the order in CANCEL_PENDING for good. A call of `apply_fill` is one step; `FillAccounting` takes it apart.
Only updates that end in FILLED and name a price above 0 are booked; a quantity
of 0 means the order's own.

`Operations` says which requests clients make. Only submissions and updates
have routes in `E/api.py`; cancel and modify are public methods of the service
that the tests call and no route does (`Architecture.md:768-769` lists the
endpoints). `Discipline` says what clients keep to. With `"none"` any request
may come at any time. With `"answered"` nobody names an order while its
submission is under way, which is natural since the order id is in the
response; the audit route shows ids earlier, so `"none"` is possible too:
`ESRacingSubmits` and the theorems about types, legal events and fills have it. With `"serial"` there is moreover one request at a time about an
order and about an idempotency key. `BrokerMode` is `"stub"` or `"live"`. A
live broker may take an order and answer without an id for it. An adapter
without credentials refuses every call; these are answers of `"live"` too.

### OrderBook and the refinement

`OrderBook` knows no threads: `Create`, `Move` (one legal transition, in one
step), `Book` (once, and only of a FILLED order) and `Forget` (a restart).
`ExecutionService!ImplementsOrderBook` maps the status of every order and the
orders of the position log. Each step of the service is one of these or
changes neither. This is false for racing clients (`ESRacingUpdates`), which is
why the run has the serial discipline.

### BrokerFeed

The broker of this module (external, so modelled from what the service takes
of its updates) opens, fills in parts or wholly, or cancels the orders it holds
(`BrokerOpens`, `BrokerFills`, `BrokerCancels`) and puts a message on `wire`
for each. `TakeMessage` is `consume_broker_update` for some message of the
wire: any, at any time, so messages are late, reordered, repeated and lost. A
message whose external id no order has yet, or whose transition is not allowed,
is answered with an error and changes nothing. Everything else of the service
goes on as in `ExecutionService`, cancellations, failing calls and a restart
included.

### PersistedOrders

The five `t_` variables are tables. A change is made in memory, what memory has
by then is read, and that is written, each as a step of its own:

| code | actions |
|---|---|
| `submit_order_request` 291-303, duplicate check and risk | `BeginSubmit`, `RespondDuplicate`, `RejectRisk` |
| 305-315, create and write the order | `CreateOrder`, `ReadOrder`, `SaveNewOrder` |
| 331-375, SUBMITTED, the broker call, its answer | `Place` between two rounds of the next line |
| `append_event`, `_persist_event` 181-186, `_persist_current_order` 163-179 | `Record`; `ReadEvent`, `SaveEvent`; `ReadOrder`, `SaveOrder` |
| `apply_broker_update` 486-500 | `BeginUpdate`, `UpdateRaises`, then the line above |
| 510-524, `_persist_position_snapshot` 188-192 | `BookPosition`, `ReadPosition` |
| `upsert_position`, statement by statement | `SavePosition`, `ClearLots`, `SaveLot` for each lot |
| `apply_fill` of the ledger, `_persist_trade` | `MatchTrades`, `AssignLots`, `ExtendTrades`, `SaveTrade` for each trade |
| the process ends and starts again | `Restart` |

`shared/postgres/client.py:24` sets `autocommit`, so a `commit` at the end of a
method does nothing and each statement counts when it is executed. `WriteRaises`
ends the request at any write, before or after the statement was committed; a
write also raises when a unique index forbids its row (`Conflict`: the key of an
order, `E/persistence.py:70`, and the index of a lot,
`E/position_persistence.py:58`). `IsDuplicate`, `Net`, `HistoryShown`,
`OrdersShown`, `ActiveShown`, `PositionShown` and `TradesShown` are the reads,
with their fallbacks to memory. One step each are here `append_event`, the risk
check and the creation that follows it, the booking of a fill into a position,
and the ledger's loop over its lots; `ExecutionService` and `FillAccounting` take
these apart. Only the routed requests are there, and a fill has the quantity of
its order and the price 1. Two variables are kept for properties: `cut`, the
orders a write failed about, and `overlapped`, the symbols of which two fills
were booked together.

This is the service constructed with working repositories, which its constructor
accepts. Nothing in the repository does so: the unit tests inject none, and as
wired the builders in `E/api.py:57-106` return `None`, for they catch what the
constructor of the repository raises (`shared/postgres/client.py` has neither
`cursor` nor `commit`). The service without them is `ExecutionService`.

### FillAccounting

`apply_fill` of the positions is `MatchPosition` (read the lots, go through
them), `AssignPosition`, `AppendLot`; of the ledger `MatchTrades`,
`AssignLots`, `ExtendTrades`. `Portfolio` is `build_snapshot` of
`E/portfolio.py`, `Unrealized` and `TotalPnl` are those of `E/pnl.py`, multiplied
by the quantity of the lots so that an average price needs no fraction.

### MarketDataGateway, BarBuilder, ClosedBars

A request to emit stamps a tick with the clock and publishes it in two steps
(`Stamp`, `PublishTick`), symbol after symbol, and may fail in between. A
request to consume has a consumer of its own that starts from the offset Kafka
has for the group (`Poll`); `Commit` happens when Kafka's timer chooses, up to
what was polled (`enable_auto_commit`). Then for each tick: `Scan` the open bars
for earlier minutes, `Pop` each, `PublishClosed`, `CacheClosed`,
`UpsertClosed`; `Build` the bar of the tick, `SetOpen`, `CacheOpen`. `Fail`
ends a request at any call; `Restart` empties the memory.

A bar carries the offsets of its ticks, which no field of the code does: the
properties compare bars with the ticks they came from. `mishaps` notes what
went wrong so far (a tick polled again, a failed request, a restart, requests
that overlap), so that a property can say under which of these it holds.

The stub feed's price is a constant per symbol for the lifetime of a request
(each request builds its own gateway and counter); `Quotes` gives each request
prices of its own.

### SignalPipeline

`Closed!PublishBar` makes bars in any order and number, as `ClosedBars` allows.
`Poll`, `Commit`, `Calculate` and `Fail` are the indicator engine. `Prepare` is
`prepare_once`: fetch the rows (`fetches`: ordered by minute only, so any order
of the symbols of one minute), `signals`, `approved`, `ordersOf`.
`CheckDuplicate` and `Submit` are the lookup of the key and the record of the
order in `submit_order_request`; the risk guard, and the broker, may refuse.
Orders live as long as the process, whose restart is `PersistedOrders`' matter.

As written the engine gives every average of a bar the close itself, the
strategy then always holds, and the pipeline never places an order. `Averages`
is a constant so that the rest of the pipeline can be exercised with rows that
lean, such as `tests/unit/test_strategy_runtime.py` feeds to the strategy.

## 3. What the runs check

| run | bounds | properties |
|---|---|---|
| `ESSerialStub` | 2 threads, 2 orders with 2 keys, history 5, serial, stub | `HistoryIsChain`, `OneBrokerOrderPerKey`, `ExternalIdFindsOwnOrder`, `ImplementsOrderBook` |
| `ESCrash` | 2 threads, 3 orders, history 3, 1 restart, answered, live | `WorkingOrdersArePlaced` |
| `ESFair` | 2 threads, 1 order, history 5, all operations, answered, stub, fair | `TypeOK`, `HistoryLegal`, `FillsAccounted`, `SubmissionsAnswered`, `CancelsConcluded`, `LedgerCatchesUp` |
| `BrokerFeed` | 2 threads, 1 order of quantity 2, history 5, 1 restart, answered, live | `BookedWithinBroker`, `EndsAgree` |
| `Persisted` | 2 threads, a buy and a sell, history 4, serial, 1 restart, writes of new orders, events and trades fail | `TypeOK`, `OneBrokerOrderPerKey`, `BrokerOrdersInTable`, `EveryEventPersisted`, `TableLags`, `BooksPersisted` |
| `Fills` | 2 threads, 2 symbols, 3 fills, 2 quantities, 2 prices | `TypeOK`, `LedgerConserves`, `ProfitIsCashFlow`, `FirstInFirstOut`, `BooksAgreeUnlessPyramided`, `TradeIdsUnique`, `PortfolioIsOfFills`, `EquityIsCashFlow` |
| `Bars` | 2 feeds, 2 requests to consume, 1 symbol, 2 minutes, 3 ticks, batches of 2, 2 polls, 1 restart | `TypeOK`, `BarsAreAggregates`, `NoTickLost`, `NoTickTwice`, `ClosedBarIsComplete`, `SinksAgree`, `ClosedBarStays`, `ImplementsClosedBars` |
| `Pipeline` | 2 symbols, 2 minutes, 2 bars, 2 engine requests, 2 placing requests, cap 1 | `TypeOK`, `IndicatorsConverge`, `OrdersFromBars`, `OneOrderPerBar`, `OnlyFirstSignalPlaced` |

What they show.

- `ESFair`: an appended fill is booked once in each book, or is in the hands of
  the thread between two steps, whatever the interleaving of requests that race
  on an answered order; and these requests come to an end.
- `ESSerialStub`: what the state machine promises holds when clients are
  serial; the service then implements `OrderBook`.
- `ESCrash`: an order the books show as working, filled or cancelled is one
  the broker took, through failing calls, missing ids and restarts. The
  converse is false: a failed call leaves ERROR for an order the broker may hold.
- `BrokerFeed`: no message is booked twice and none before its fill, and where
  the service says how an order ended the broker agrees. A partial fill of an
  order that is then cancelled is booked nowhere; the property says so, and so
  does the code (510). Orders two requests worked on together are excluded:
  `ESRacingUpdates` shows what becomes of them.
- `Persisted`: idempotency and reconciliation hold through failures and
  restarts. For serial clients the event table never runs ahead of memory and
  lags by one event. The position, the lots and the trades are in the tables as
  they are in memory once the fills are booked, if these came one after the other
  and none failed, and in one process: after a restart positions and trade ids
  start from nothing and are written over. `PersistedRacingFills` shows what two
  fills of one symbol booked together do, and why the property leaves those out.
  The run has one symbol, as two exceed its time; that fills and failures of one
  do not disturb another is proved (`BooksArePersisted`).
- `Fills`: the books of one symbol are sound while other symbols are booked in
  between, trade ids included. Two fills of one symbol booked together lose
  lots; the properties exclude these.
- `Bars`: a closed bar is the aggregate of its ticks and has all of them when
  ticks come in order and nothing went wrong. Late ticks replace the row of a
  closed bar by a bar of their own, redelivered ticks are counted again, and
  failures lose the bar in hand; each property names which of these it excludes.
- `Pipeline`: an order comes of a bar that leans its way, one per bar unless
  the bar was published in versions that lean both ways or two requests passed
  the duplicate check together; every request submits the oldest signal only,
  so the pipeline places one order and answers "duplicate" ever after.

Deadlock. The `ES` runs check for it. `BrokerFeed`, `Fills`, `Bars`, `Persisted` and
`Pipeline` really stop: when
the bounds on orders, fills, ticks, bars, polls and restarts are used up and
the requests have ended, or when a new process knows no order to update.

Bounds. Two threads are enough for every race between one access and another,
and each of these handlers races with a single other one. Two orders have
different keys, or the same key where the duplicate check fails. `MaxHistory`
bounds the events after which an order takes no new requests (requests under
way go on): 5 is long enough for SUBMITTED, ACKNOWLEDGED, OPEN, a partial fill,
a fill, and a cancellation or update that races with it; the 3 of `ESCrash` and
the 4 of `Persisted` leave room for a fill before a restart or a failure. The
limits of the risk guard are such that both its answers occur. Three fills
of quantities 1 and 2 reach partial matches, matches over two lots, and a flip
from long to short. A quantity of 2 is the least that is filled in parts. Three
ticks and two minutes give a bar of two ticks that is closed by a third, and a
late tick after it; two polls give a redelivery and a poll after a failure. Two
bars are two of one minute, two minutes, or two versions of one.

Symmetry is used in the threads (and in symbols where all are treated alike)
and in no run with liveness properties.

Fairness. `FairSpec` assumes weak fairness of the steps of each thread that
serves a request (`Continue`), and nothing of clients (`Begin`). A thread of
the interpreter waits for nothing but the broker call, whose client returns or
raises; so it is scheduled until its handler ends. No fairness is given to
`Restart`, and the run has none. The bar builder and the pipeline have no
liveness property: they do something only when somebody calls them, and the
repository has no scheduler that does.

### Where code and documents part

Each of these runs is expected to find a violation. The documents are the
checklists in `Architecture.md` and `Next-step.md`.

| run | promise | what happens |
|---|---|---|
| `ESRacingUpdates` | "Verify invalid state transitions are rejected" (`Next-step.md:53`) | two updates validated against one status are both applied; FILLED becomes CANCELLED |
| `ESRacingSubmits` | "Prevent duplicate order creation for same idempotency key" (`Architecture.md:701`) | both pass the duplicate check, the broker gets two orders |
| `FillsPosition` | "Add net quantity calculation" (`Architecture.md:796`) | adding to a position doubles its open lots |
| `PersistedRacingFills` | "Persist position snapshot after fills" (`Architecture.md:861`) | two fills of one symbol: the older snapshot is written last, and stays (`E/service.py:191-192`) |

Four more are visible in the models without a run of their own. As wired,
nothing is persisted, so a submission repeated after a restart reaches the
broker again (`ExecutionService` with `MaxRestarts` 1 breaks
`OneBrokerOrderPerKey`; `Persisted` shows that working repositories prevent it).
Orders at the broker that are not filled yet do not count for the risk guard, so
two of them may fill past its limit. Stub orders without a key share an
external id, and updates by that id reach the older one. An update may overtake
a submission that has read its order to write it (`E/service.py:166-167`), or
append its event before the submission reads the last one (184): the older row
is then written last and stays, or one event is written twice and the other
never, without any failure (`PersistedOrders` with `Serial` FALSE breaks
`EveryEventPersisted`), though `Architecture.md:669-670` says "Persist order
snapshot on lifecycle changes" and "Persist every lifecycle event".

## 4. What is proved

`ExecutionServiceProofs` proves, for every number of threads, any requests,
operations, discipline and broker mode, any bounds, and with restarts:

- `TypeCorrect`: `Spec => []TypeOK`;
- `HistoryAlwaysLegal`: `Spec => []HistoryLegal`;
- `FillsAlwaysAccounted`: `Spec => []FillsAccounted`.

The assumptions are `ServiceAssumption` and `LimitsAssumption`: the constants
have the types of the request model, and there is at least one request.

None of the three is inductive alone. `TypeOK` needs to know that a thread that
books a fill still finds its event in the history, or what it appends to a log
is no fill. `HistoryLegal` needs to know that the event a thread is about to
append is legal, since it was validated steps before (`EventInHand`).
`FillsAccounted` needs, of every thread at `BookPosition` or `BookTrade`, that
its event is there and bookable (`FillInHand`), that no other thread holds the
same event (`InHandOnce`), and that the log it is about to append to does not
have it yet (`NotYetBooked`). It also needs that only events of broker updates
carry a price, so that appending any other event adds nothing to book. `IInv`
is the conjunction.

The argument goes by what a step does to the store. `StoreKept` says that
orders and events are kept and `NothingNewBookable` that nothing to be booked
was added; `SameStore`, `SetStatusKeeps`, `PushKeeps` and `CreateKeeps` show it
for each operation of the store, and `Frame` and `Quiet` conclude for all steps
that neither start nor end a booking. `PushFill` adds an event at a place of
the history that is new, so no log and no thread has it; `BookPosition` and
`BookTrade` move the event from the thread to a log (`LogGrows`).

It proves moreover, under the assumption `Discipline # "none"`:

- `WorkingOrdersBacked`: `Spec => []WorkingOrdersArePlaced`.

Its invariant is `Backed`. An order the broker does not hold has failed for
good, or is CREATED or SUBMITTED and with a thread that has not recorded the
broker's answer (`OrdersBacked`); the discipline keeps other requests away from
the second kind, and no transition leaves the failed statuses. A thread that
has an order the broker does not hold is its submission and is about to record
SUBMITTED or a failure (`ThreadsSubmit`). Failing calls need care: a call that
fails may have reached the broker, so only "not at the broker" can imply
something of the books.

and under the assumption `Discipline = "serial"`:

- `ServiceImplementsOrderBook`: `Spec => ImplementsOrderBook`;
- `StatusesMoveLegally`: `Spec => StatusMovesLegally`, which racing clients break
  (`ESRacingUpdates`);
- `HistoryAlwaysChain`: `Spec => []HistoryIsChain`.

The invariant is `OneAtATime`: no two threads have one order (`Exclusive`), so
a thread that built an event from a status still finds that status when it
records the event (`FreshHands`, which the races of `ESRacingUpdates` break);
and an order that is booked is FILLED, from where no request starts, so the
order in a thread's hands was not booked before (`HandsUnbooked`,
`BookedAreFilled`). Each step is then a step of `OrderBook` or a stutter
(`NextSerial`). For the histories, `Chained` says moreover that a thread inside
`append_event` holds an event that starts where the history ends. TLC checked
`Backed` and `OneAtATime` under the constants of `ESCrash` and `ESSerialStub`.

The last two are about what identifies an order:

- `OneOrderOfAKey`: `Spec => []OneBrokerOrderPerKey`, for serial clients and
  `MaxRestarts = 0`;
- `UpdatesFindTheirOrder`: `Spec => []ExternalIdFindsOwnOrder`, with a live
  broker, or for serial clients that give every submission a key.

Each hypothesis is needed. Clients that race get one key past the duplicate
check twice (`ESRacingSubmits`), and a restart forgets the keys. The stub makes
its id of the fields of the submission, so two orders without a key share it.
The invariant `KeysApart` says that orders and the submissions between the
duplicate check and the creation have different keys; `PlacedKnown` that what
the broker holds is an order of the store, with its key and quantity. `OwnIds`
says that an order has the id the broker gave it or none, and that of the threads
only those that record the broker's answer carry an id.

### What the broker filled

`BrokerFeedProofs` proves, under `FeedAssumption` (a live broker, none of whose
ids is the absent one) and for any discipline, any number of messages, however
often and in whatever order they are taken, and any number of restarts:

- `NeverOverbooked`: `FeedSpec => []BookedWithinBroker`;
- `EndsAlwaysAgree`: `FeedSpec => []EndsAgree`.

`BrokerInv` is the broker's side: an order is held once, with the quantity of
its submission, and after a message that says FILLED, which carries the whole
quantity, the broker fills no more of it (`WholeFills`). `ReportedInv` is the
way of a message into the store: an order that has ended, an event that says
FILLED, and an event in a thread's hands that says so come from a message about
that very order; this needs `OwnIds`, for `TakeMessage` finds the order by the
broker's id, and that a live adapter answers neither a cancel nor a
modification. `SoloInv` is about the orders no two threads had together: such an
order is FILLED only when its thread is past `SetStatus`, and its booked quantity
is the whole when that thread has booked or gone, and nothing before. A FILLED
message always has a price, so a thread that took one never ends without booking
(`EndSolo`). All are invariants together with `IInv`, which `TakeMessage`
preserves as any other update. TLC checked them, with clients of no discipline,
on more than eleven million states before they were proved.

`PersistedOrdersProofs` proves, for every number of threads, any requests,
serial clients or not, failing writes or not, and any number of restarts:

- `PersistedTypes`: `Spec => []TypeOK`;
- `OrdersReconcile`: `Spec => []BrokerOrdersInTable`;
- `OneOrderPerKey`: `Spec => []OneBrokerOrderPerKey`.

Its assumptions are `PersistedAssumption` and `LimitsAssumption`. The invariant
`Inv` is that of `PersistedInvariance`. An order is placed by a thread that has
written its row as SUBMITTED (`ThreadsPastCreated`); a row is only replaced by
what memory has of the order, whose key does not change and which never goes
back to CREATED (`RowsAgree`); no two rows have one key (`KeysUnique`), which
`KeyFree`, the unique index, maintains at each write. So two broker orders of
one key have rows of one key, which are one row. The lookup of duplicates plays
no part in it: with the index the guarantee does not depend on it.

It proves moreover, the first two under `serial` clients:

- `TablesLagBehind`: `Spec => []TableLags`;
- `EventsPersisted`: `Spec => []EveryEventPersisted`;
- `BooksArePersisted`: `Spec => []BooksPersisted`.

While clients are serial a thread is alone with its order. So what it has read
of it is what memory still has when it writes (`ReadsCurrent`, `Follows`), and
what is between memory and the tables is what that thread holds: at most one
event, and a status that memory has and the row has not.
The assumption is needed: see the end of section 3.

`BooksPersisted` needs no serial clients; it names the symbols it is about, in
one process: no two fills of the symbol were booked together and none was cut
short. Its invariant `BookInv` follows such a symbol through the statements of
its one writer. Before the snapshot is read the thread that books is the only one
(`Alone`); after it the snapshot is the position in memory, and the row, then the
first so many lots, are those of the snapshot (`PositionGood`, `Saved`); with no
thread between them they are all there. Of its trades (`TradesGood`) the table has
some that memory has, those missing are in the thread's hands, and their ids are
distinct, since an id of the symbol is at most the length of the list when it
joins it, and one given later is beyond that, though other symbols extend the
same list in between.

### The loops over lots

What a loop computes for every sequence needs induction over its length, and an
induction rule with a predicate for a parameter is out of the provers' reach.
`LoopProofs` gets around it without one: the places of a sequence where the
wanted fact fails are a set of natural numbers, the set has a least element, and
the turn of the loop that leads there is a contradiction. `IntervalInSet` is that
argument once; `TotalLoop` and `ChosenLoop` apply it to the running sum and the
filter, and `LotProofs` to the two closing loops: what a fill does to quantity,
money, sides and the order of lots, and that both loops leave the same lots.
The recursive functions of the models were written for that: a function over
`0..Len(s)` whose value at `n` is the loop after `n` turns.

### Fills

`FillAccountingProofs` proves, for any threads, symbols, quantities, prices and
number of fills:

- `TypeCorrect`, `LedgerConserved`, `ProfitBalances`, `OldestClosedFirst`,
  `IdsUnique`, `BooksAgree`, `EquityBalances`: `TypeOK`, `LedgerConserves`,
  `ProfitIsCashFlow`, `FirstInFirstOut`, `TradeIdsUnique`,
  `BooksAgreeUnlessPyramided` and `EquityIsCashFlow` always hold;
- `PortfolioMatchesFills`: `PortfolioIsOfFills` always holds. The portfolio sums
  over the symbols there are, which are finitely many (`SymbolsAssumption`); a
  position that is flat, or that nobody opened, adds nothing to a sum.

The properties speak of symbols that are at rest; the invariants say what holds
while a fill is booked. `LedgerInv`: one thread at most books fills of a symbol;
until it assigns the lots, lots and trades are those from before its fill, and
after that the trades in its hands are what is missing. So lots and trades are
`Reconciled` with the fills at each step, in quantity, money and order at once.
Threads with other symbols change none of it except the one list of trades,
which is why trades are looked at per symbol. `IdsInv`: an id is never above the
place of its trade in that list, so a booking that numbers its trades from the
present length goes beyond all ids there are, and until it adds them only trades
of other symbols are added. `HeldInv` follows a symbol that was never pyramided:
what the position is given, one access after the other, is what the loop of the
ledger will leave of the same lots (`After`). That needs both lemmas about the
loops, and that the lots are of one side, from `LedgerInv`.

### Bars

`BarBuilderProofs` proves, for any feeds, requests, symbols, batch sizes and
number of ticks, polls and restarts:

- `TypeCorrect`, `BarsAggregate`, `SinksInStep`, `TicksCountOnce`,
  `TicksAreKept`, `ClosedBarsComplete`, `ClosedBarsStay`: `TypeOK`,
  `BarsAreAggregates`, `SinksAgree`, `NoTickTwice`, `NoTickLost`,
  `ClosedBarIsComplete` and `ClosedBarStays` hold;
- `BarsImplementClosedBars`: `Spec => ImplementsClosedBars`.

For the refinement, `PublishedInHand` says that a request between publishing
and storing holds a bar of the topic; the topic only grows (`PublishGrows`), so
the row it writes is a published bar.

For the others a bar has a place: it is open, published, or in the hands of a
request. A step moves a bar from one place to another, drops one, or adds a
tick to one, which is what `Moved`, `Dropped` and `Added` say; that no tick is
counted twice then follows from these three alone (`CountedOnce`), once ticks
are known to be counted in the order of the topic (`CountedPassed`: what is
counted lies before the tick in hand). `Running` collects what every proof of
this kind needs: types, batches that are records of the topic, sound bars, one
request at a time unless requests overlapped, one open bar of a minute
(`OpenOnce`), and that a request closes only bars of minutes before its tick's
(`ClosingOld`). `NoneLost` is that a polled tick is counted or still in a batch.
`OrderInv` is for ticks in order: a bar that is published is `Over`, a tick of a
later minute has come, so no tick of its minute will come any more. `RowsBehind`
says that the row of a minute is one of the topic, and so, with one bar of a
minute in the topic, never another. `SinkInv` has the row and the cache of a bar equal the
latest bar published, except the one a request is writing.

### Signals and orders

`SignalPipelineProofs` proves, for any symbols, closes, averages, requests,
batch sizes and caps:

- `TypeCorrect`, `OrdersAreFromBars`, `OneOrderOfABar`, `RowsConverge`,
  `FirstSignalOnly`: `TypeOK`, `OrdersFromBars`, `OneOrderPerBar`,
  `IndicatorsConverge` and `OnlyFirstSignalPlaced` always hold.

`FromBars` follows a value from the bar to the row, through strategy and risk
into the hands of a request, and into the order: a row is that of some version
of its bar, and what was prepared leaned to its side then, though the row may
have changed since. `KeysOnce` is that, unless requests raced, at most one
request is past the duplicate check and its key is still free. `Converging` is
about bars delivered again: a poll goes back to the committed offset, so a row
may go back to the one of an earlier version and the obvious invariant, that
rows never get older, is false. What is true is that the latest version of a
bar, once taken, has its row, for whatever is taken again is that version or
comes before it and is followed by it. `FirstOnly` is that the rows are those
of a first part of the topic, so that every request, reading the table in the
order of time, comes upon the same bar first.

TLC checked these candidates with three bars, polls and minutes, on more than five
million states, before they were proved.

## 5. Only model-checked

- Liveness under fairness (`ESFair`) and `ENABLED`, which are out of the proof
  system's reach.

Every safety property that a passing run checks is a theorem.

## 6. Not modelled

- Formatting, logging, times, correlation ids, the audit trail and response
  views: no decision depends on them. Prices are whole numbers; the code's
  floats enter sums and products only, and rounding is left out.
- The order of two exceptions: a request that fails before it changes shared
  state is a step that changes nothing (`RejectUpdate`, `UpdateRaises`).
- The exception of a dictionary that changes while it is iterated
  (`list_orders`, the scan of the open bars): the request then fails as it may at
  any other call.
- Auth service: a session file its own requests read and rewrite. No other
  component reads it; the broker adapter takes its token from the environment.
- Bar and indicator replay: read-only queries over the tables of the models.
- Chart API and gap reconciler: entry points that log that they started.
- Settings, logging, models: values and data classes. Kafka, Redis and Postgres
  switched off, connecting and topic creation.
- Topics and caches no component reads: `bars_1m`, the indicators topic and
  cache, the last tick in Redis.
- The profit snapshot summed over positions, and the store of marks: the
  property quantifies over marks instead.

## 7. What could follow

1. `Persisted` with the trade and position tables loaded at start-up, once the
   code does so.
2. `AuthSession`, when a component reads the session.
