--------------------------- MODULE PersistedOrders ---------------------------
(***************************************************************************)
(* The execution service with its repositories injected: every change of   *)
(* an order, an event, a position or a trade is made in memory first and   *)
(* then written to a table (services/execution_service/app/service.py,     *)
(* persistence.py, position_persistence.py, trade_persistence.py).  The    *)
(* process may end between any two steps; the tables stay, and a new       *)
(* process reads them only where the code does.  A write may fail, and the *)
(* request ends there, with whatever was done before left in place.        *)
(*                                                                         *)
(* Reading memory and writing what was read to a table are steps of their  *)
(* own, and so is every statement of a write: the connections of           *)
(* shared/postgres/client.py commit each statement by itself.  A write may *)
(* raise before or after its statement has taken effect.                   *)
(*                                                                         *)
(* Abstractions, beyond those of ExecutionService.  append_event is one    *)
(* step, the risk check and the creation that follows it are one, and so   *)
(* is the booking of a fill into a position: ExecutionService and          *)
(* FillAccounting take them apart.  A read of an order or a position is    *)
(* one step, and so is the ledger's loop over its lots, with the reads of  *)
(* the length of the trade list in it.  The DELETE of the lots of one      *)
(* symbol is one step; avg_price and side are left out of a position's     *)
(* row, as they follow from the lots.  An update names an order by a       *)
(* key that finds it, by whichever of the two ids.  Only the routed        *)
(* requests are here, submissions and updates, and every fill has the      *)
(* quantity of its order and the price 1.  The audit trail is left out.    *)
(* The API of the service, as it is, gets no repository (ExecutionService  *)
(* is about that), and the unit tests inject none; this is the service     *)
(* constructed with working ones, which its constructor accepts.           *)
(***************************************************************************)
EXTENDS OrderStateMachine, ExecutionRisk, TradeLots

CONSTANTS
  Workers,      \* the threads that serve requests
  Symbols,      \* the instruments traded
  Requests,     \* the submissions clients may make
  NoKey,        \* an absent idempotency key
  UpdateWords,  \* the broker words updates may carry
  Serial,       \* whether requests about one order come one at a time
  Failing,      \* the writes that may raise whatever they write
  MaxOrders,    \* bound on the orders created
  MaxHistory,   \* bound on the history of an order that takes updates
  MaxRestarts   \* bound on the restarts of the service

\* Where a thread writes to a table.
Saves == {"save_new", "save_event", "save_order", "save_position",
          "clear_lots", "save_lot", "save_trade"}

ASSUME PersistedAssumption ==
  /\ MaxOrders \in Nat /\ MaxHistory \in Nat /\ MaxRestarts \in Nat
  /\ Serial \in BOOLEAN
  /\ Failing \subseteq Saves
  /\ UpdateWords \subseteq BrokerWords
  /\ Requests # {}
  /\ \A r \in Requests :
       /\ r = [symbol |-> r.symbol, side |-> r.side,
               quantity |-> r.quantity, key |-> r.key]
       /\ r.symbol \in Symbols /\ r.side \in Sides /\ r.quantity \in Nat \ {0}

VARIABLES
  orders,       \* memory: id -> request, status and history
  position,     \* memory: symbol -> lots and profit
  lots,         \* memory: symbol -> open lots of the trade ledger
  trades,       \* memory: the closed trades with their ids
  t_orders,     \* table execution_orders: id -> key and status
  t_events,     \* table execution_order_events: id -> events
  t_positions,  \* table execution_positions: symbol -> net quantity and profit
  t_lots,       \* table execution_position_lots: symbol -> index -> lot
  t_trades,     \* table execution_trades: trade id -> trade
  pc,           \* where each thread is
  request,      \* the submission a thread works on
  order,        \* the order a thread works on
  event,        \* the event it has built, then the one it has read back
  then,         \* what follows when the event is recorded and written
  row,          \* the row of the order it has read, to be written
  snapshot,     \* the position it has read, to be written
  survivors,    \* the lots the ledger keeps after the fill it matches
  unsaved,      \* the lots, and later the trades, it still has to write
  created,      \* how many orders were ever created
  placed,       \* the orders the broker holds
  restarts,     \* how many times the service was restarted
  cut,          \* orders a request was cut short about by a failing write,
  overlapped    \* and symbols of which two threads booked fills together
                \* (both kept for the properties only)

memory == <<orders, position, lots, trades>>
tables == <<t_orders, t_events, t_positions, t_lots, t_trades>>
taken  == <<row, snapshot, survivors, unsaved>>
locals == <<pc, request, order, event, then, taken>>
outer  == <<created, placed, restarts, cut, overlapped>>
vars   == <<memory, tables, locals, outer>>

\* Where a thread books a fill.
Books == {"read_position", "save_position", "clear_lots", "save_lot",
          "match", "assign", "extend", "save_trade"}

NoRequest == CHOOSE r \in Requests : TRUE
NoEvent == Transition("CREATED", "CREATED")
NoRow == [key |-> NoKey, status |-> "CREATED"]
NoSnapshot == [net_quantity |-> 0, realized_pnl |-> 0, open_lots |-> <<>>]
Put(f, x, v) == [y \in DOMAIN f \cup {x} |-> IF y = x THEN v ELSE f[y]]

Goto(w, step) == pc' = [pc EXCEPT ![w] = step]

Finish(w) ==
  /\ Goto(w, "idle")
  /\ request' = [request EXCEPT ![w] = NoRequest]
  /\ order' = [order EXCEPT ![w] = 0]
  /\ event' = [event EXCEPT ![w] = NoEvent]
  /\ then' = [then EXCEPT ![w] = "end"]
  /\ row' = [row EXCEPT ![w] = NoRow]
  /\ snapshot' = [snapshot EXCEPT ![w] = NoSnapshot]
  /\ survivors' = [survivors EXCEPT ![w] = <<>>]
  /\ unsaved' = [unsaved EXCEPT ![w] = <<>>]

\* A thread is about to record event e of order o, and to go on with step.
Turn(w, o, e, step) ==
  /\ Goto(w, "record")
  /\ order' = [order EXCEPT ![w] = o]
  /\ event' = [event EXCEPT ![w] = e]
  /\ then' = [then EXCEPT ![w] = step]
  /\ UNCHANGED <<request, taken>>

Nothing == [x \in {} |-> {}]
FlatPositions == [s \in Symbols |-> FlatPosition]
NoLots == [s \in Symbols |-> <<>>]
Each(value) == [w \in Workers |-> value]

Init ==
  /\ orders = Nothing /\ position = FlatPositions /\ lots = NoLots /\ trades = <<>>
  /\ t_orders = Nothing /\ t_events = Nothing
  /\ t_positions = Nothing /\ t_lots = NoLots /\ t_trades = Nothing
  /\ pc = Each("idle") /\ request = Each(NoRequest) /\ order = Each(0)
  /\ event = Each(NoEvent) /\ then = Each("end") /\ row = Each(NoRow)
  /\ snapshot = Each(NoSnapshot) /\ survivors = Each(<<>>) /\ unsaved = Each(<<>>)
  /\ created = 0 /\ placed = {} /\ restarts = 0 /\ cut = {} /\ overlapped = {}

----------------------------------------------------------------------------
(***************************************************************************)
(* Submission.                                                             *)
(***************************************************************************)
\* _find_duplicate_order_id: in memory, then in the table.
IsDuplicate(key) ==
  /\ key # NoKey
  /\ \/ \E o \in DOMAIN orders : orders[o].key = key
     \/ \E o \in DOMAIN t_orders : t_orders[o].key = key

BeginSubmit(w) ==
  /\ pc[w] = "idle"
  /\ created + Cardinality({v \in Workers : pc[v] = "create"}) < MaxOrders
  /\ \E r \in Requests :
       ~IsDuplicate(r.key) /\ request' = [request EXCEPT ![w] = r]
  /\ Goto(w, "create")
  /\ UNCHANGED <<memory, tables, order, event, then, taken, outer>>

RespondDuplicate(w) ==
  /\ pc[w] = "idle"
  /\ \E r \in Requests : IsDuplicate(r.key)
  /\ UNCHANGED vars

\* list_positions: the table's when it has any row, else those in memory.
Net ==
  [s \in Symbols |->
     IF DOMAIN t_positions = {} THEN NetQuantity(position[s].open_lots)
     ELSE IF s \in DOMAIN t_positions THEN t_positions[s].net_quantity
     ELSE 0]

RiskPasses(r) == RiskAllows(Net, r.symbol, r.quantity, Signed(r.side, r.quantity))

CreateOrder(w) ==
  /\ pc[w] = "create"
  /\ RiskPasses(request[w])
  /\ LET r == request[w]
     IN  orders' = Put(orders, created + 1,
                       [symbol |-> r.symbol, side |-> r.side,
                        quantity |-> r.quantity, key |-> r.key,
                        status |-> "CREATED", history |-> <<>>])
  /\ created' = created + 1
  /\ order' = [order EXCEPT ![w] = created + 1]
  /\ request' = [request EXCEPT ![w] = NoRequest]
  /\ Goto(w, "read_new")
  /\ UNCHANGED <<position, lots, trades, tables, event, then, taken,
                 placed, restarts, cut, overlapped>>

RejectRisk(w) ==
  /\ pc[w] = "create" /\ ~RiskPasses(request[w])
  /\ Finish(w)
  /\ UNCHANGED <<memory, tables, outer>>

(***************************************************************************)
(* The writes: what each does to the tables.                               *)
(***************************************************************************)
\* Mutant: the table has no unique index on the key.
MutantKeyFree(w) == TRUE

\* The unique index on idempotency_key, where it is not null.
KeyFree(w) ==
  row[w].key = NoKey \/
  \A p \in DOMAIN t_orders : t_orders[p].key = row[w].key => p = order[w]

\* Mutant: a row that is there already is left as it is.
MutantStoreOrder(w) ==
  /\ KeyFree(w)
  /\ t_orders' = IF order[w] \in DOMAIN t_orders THEN t_orders
                 ELSE Put(t_orders, order[w], row[w])
  /\ UNCHANGED <<t_events, t_positions, t_lots, t_trades>>

\* upsert_order, of the row read before.
StoreOrder(w) ==
  /\ KeyFree(w)
  /\ t_orders' = Put(t_orders, order[w], row[w])
  /\ UNCHANGED <<t_events, t_positions, t_lots, t_trades>>

\* Mutant: the order is written, its event is not.
MutantStoreEvent(w) == UNCHANGED tables

\* insert_event.
StoreEvent(w) ==
  /\ LET o == order[w]
         before == IF o \in DOMAIN t_events THEN t_events[o] ELSE <<>>
     IN  t_events' = Put(t_events, o, Append(before, event[w]))
  /\ UNCHANGED <<t_orders, t_positions, t_lots, t_trades>>

symbol(w) == orders[order[w]].symbol

\* Mutant: the net quantity is written without its sign, as side tells it.
MutantStorePosition(w) ==
  LET net == snapshot[w].net_quantity
  IN  /\ t_positions' = Put(t_positions, symbol(w),
                            [net_quantity |-> IF net < 0 THEN -net ELSE net,
                             realized_pnl |-> snapshot[w].realized_pnl])
      /\ UNCHANGED <<t_orders, t_events, t_lots, t_trades>>

\* upsert_position: first the row, then the lots of the symbol are deleted,
\* and those of the snapshot are inserted one by one.
StorePosition(w) ==
  /\ t_positions' = Put(t_positions, symbol(w),
                        [net_quantity |-> snapshot[w].net_quantity,
                         realized_pnl |-> snapshot[w].realized_pnl])
  /\ UNCHANGED <<t_orders, t_events, t_lots, t_trades>>

DeleteLots(w) ==
  /\ t_lots' = [t_lots EXCEPT ![symbol(w)] = <<>>]
  /\ UNCHANGED <<t_orders, t_events, t_positions, t_trades>>

lot_index(w) == Len(snapshot[w].open_lots) - Len(unsaved[w]) + 1

\* The unique index on the symbol and lot_index.
LotFree(w) == lot_index(w) \notin DOMAIN t_lots[symbol(w)]

InsertLot(w) ==
  /\ LotFree(w)
  /\ t_lots' = [t_lots EXCEPT ![symbol(w)] = Put(@, lot_index(w), Head(unsaved[w]))]
  /\ UNCHANGED <<t_orders, t_events, t_positions, t_trades>>

\* insert_trade: a trade whose id the table has already is not written.
InsertTrade(w) ==
  /\ LET id == Head(unsaved[w]).id
     IN  t_trades' = IF id \in DOMAIN t_trades THEN t_trades
                     ELSE Put(t_trades, id, Head(unsaved[w]).trade)
  /\ UNCHANGED <<t_orders, t_events, t_positions, t_lots>>

Write(w) ==
  \/ pc[w] \in {"save_new", "save_order"} /\ StoreOrder(w)
  \/ pc[w] = "save_event" /\ StoreEvent(w)
  \/ pc[w] = "save_position" /\ StorePosition(w)
  \/ pc[w] = "clear_lots" /\ DeleteLots(w)
  \/ pc[w] = "save_lot" /\ InsertLot(w)
  \/ pc[w] = "save_trade" /\ InsertTrade(w)

Conflict(w) ==
  \/ pc[w] \in {"save_new", "save_order"} /\ ~KeyFree(w)
  \/ pc[w] = "save_lot" /\ ~LotFree(w)

\* A write raises: for a row that is there already, or of any failure, before
\* or after its statement was committed.
WriteRaises(w) ==
  /\ pc[w] \in Saves
  /\ Conflict(w) \/ pc[w] \in Failing
  /\ Write(w) \/ UNCHANGED tables
  /\ cut' = cut \cup {order[w]}
  /\ Finish(w)
  /\ UNCHANGED <<memory, created, placed, restarts, overlapped>>

----------------------------------------------------------------------------
\* _persist_current_order, first half: the order as it is in memory now.
ReadOrder(w) ==
  /\ pc[w] \in {"read_new", "read_order"}
  /\ row' = [row EXCEPT ![w] = [key |-> orders[order[w]].key,
                                status |-> orders[order[w]].status]]
  /\ Goto(w, IF pc[w] = "read_new" THEN "save_new" ELSE "save_order")
  /\ UNCHANGED <<memory, tables, request, order, event, then, snapshot,
                 survivors, unsaved, outer>>

SaveNewOrder(w) ==
  /\ pc[w] = "save_new" /\ StoreOrder(w)
  /\ Turn(w, order[w], Transition("CREATED", "SUBMITTED"), "place")
  /\ UNCHANGED <<memory, outer>>

Hold(o) == placed' = placed \cup {[order |-> o, key |-> orders[o].key]}

\* The broker takes the order, refuses it, or the call fails and nobody knows.
Place(w) ==
  /\ pc[w] = "place"
  /\ \E target \in {"ACKNOWLEDGED", "REJECTED", "ERROR"} :
       /\ Turn(w, order[w], Transition("SUBMITTED", target), "end")
       /\ \/ target # "REJECTED" /\ Hold(order[w])
          \/ target # "ACKNOWLEDGED" /\ UNCHANGED placed
  /\ UNCHANGED <<memory, tables, created, restarts, cut, overlapped>>

----------------------------------------------------------------------------
(***************************************************************************)
(* append_event, then _persist_event: the last event of the history, read  *)
(* back, goes to the table, whoever appended it; then the order is read    *)
(* and written.                                                            *)
(***************************************************************************)
WithEvent(o, e) == [o EXCEPT !.status = e.to, !.history = Append(@, e)]

\* Mutant: the status is assigned, the event is not appended.
MutantRecord(w) ==
  /\ pc[w] = "record"
  /\ orders' = [orders EXCEPT ![order[w]].status = event[w].to]
  /\ Goto(w, "read_event")
  /\ UNCHANGED <<position, lots, trades, tables, request, order, event, then,
                 taken, outer>>

Record(w) ==
  /\ pc[w] = "record"
  /\ orders' = [orders EXCEPT ![order[w]] = WithEvent(@, event[w])]
  /\ Goto(w, "read_event")
  /\ UNCHANGED <<position, lots, trades, tables, request, order, event, then,
                 taken, outer>>

latest(o) == orders[o].history[Len(orders[o].history)]

ReadEvent(w) ==
  /\ pc[w] = "read_event"
  /\ event' = [event EXCEPT ![w] = latest(order[w])]
  /\ Goto(w, "save_event")
  /\ UNCHANGED <<memory, tables, request, order, then, taken, outer>>

SaveEvent(w) ==
  /\ pc[w] = "save_event" /\ StoreEvent(w)
  /\ Goto(w, "read_order")
  /\ UNCHANGED <<memory, request, order, event, then, taken, outer>>

SaveOrder(w) ==
  /\ pc[w] = "save_order" /\ StoreOrder(w)
  /\ IF then[w] = "end"
       THEN Finish(w)
       ELSE Goto(w, then[w]) /\ UNCHANGED <<request, order, event, then, taken>>
  /\ UNCHANGED <<memory, outer>>

----------------------------------------------------------------------------
(***************************************************************************)
(* Broker updates.  An order that only the table knows is resolved, and    *)
(* then apply_broker_update looks for it in memory and raises.             *)
(***************************************************************************)
Available(o) == Serial => \A v \in Workers : order[v] # o

BeginUpdate(w) ==
  /\ pc[w] = "idle"
  /\ \E o \in DOMAIN orders, b \in UpdateWords :
       LET target == BROKER_STATUS_MAP[b]
       IN  /\ Available(o) /\ Len(orders[o].history) < MaxHistory
           /\ CanTransition(orders[o].status, target)
           /\ Turn(w, o, BrokerTransition(orders[o].status, target, 0, 1),
                   IF target = "FILLED" THEN "position" ELSE "end")
  /\ UNCHANGED <<memory, tables, outer>>

UpdateRaises(w) ==
  /\ pc[w] = "idle"
  /\ \/ \E o \in DOMAIN t_orders : o \notin DOMAIN orders
     \/ \E o \in DOMAIN orders, b \in UpdateWords :
          ~CanTransition(orders[o].status, BROKER_STATUS_MAP[b])
  /\ UNCHANGED vars

Booking(w, s) == pc[w] \in Books /\ symbol(w) = s

BookPosition(w) ==
  /\ pc[w] = "position"
  /\ LET o == orders[order[w]]
     IN  /\ position' = [position EXCEPT ![o.symbol] =
                           ApplyFill(@, o.side, o.quantity, 1)]
         /\ overlapped' = overlapped \cup
              {s \in {o.symbol} : \E v \in Workers : Booking(v, s)}
  /\ Goto(w, "read_position")
  /\ UNCHANGED <<orders, lots, trades, tables, request, order, event, then,
                 taken, created, placed, restarts, cut>>

Snapshot(p) ==
  [net_quantity |-> NetQuantity(p.open_lots),
   realized_pnl |-> p.realized_pnl, open_lots |-> p.open_lots]

\* _persist_position_snapshot: the position as it is in memory by now.
ReadPosition(w) ==
  /\ pc[w] = "read_position"
  /\ snapshot' = [snapshot EXCEPT ![w] = Snapshot(position[symbol(w)])]
  /\ Goto(w, "save_position")
  /\ UNCHANGED <<memory, tables, request, order, event, then, row, survivors,
                 unsaved, outer>>

SavePosition(w) ==
  /\ pc[w] = "save_position" /\ StorePosition(w)
  /\ Goto(w, "clear_lots")
  /\ UNCHANGED <<memory, request, order, event, then, taken, outer>>

\* On to the next of the lots that are left to write, or to the ledger.
WithLots(w, left) ==
  /\ Goto(w, IF left = <<>> THEN "match" ELSE "save_lot")
  /\ unsaved' = [unsaved EXCEPT ![w] = left]
  /\ UNCHANGED <<memory, request, order, event, then, row, snapshot, survivors,
                 outer>>

ClearLots(w) ==
  pc[w] = "clear_lots" /\ DeleteLots(w) /\ WithLots(w, snapshot[w].open_lots)

SaveLot(w) ==
  pc[w] = "save_lot" /\ InsertLot(w) /\ WithLots(w, Tail(unsaved[w]))

\* The id of a trade has the symbol, and the number of trades of all symbols.
Number(s, new) ==
  [i \in 1..Len(new) |-> [id |-> <<s, Len(trades) + i>>, trade |-> new[i]]]

\* InMemoryTradeLedger.apply_fill: the loop over the lots it finds, then the
\* assignment of those that are left, then the trades join those of all symbols.
MatchTrades(w) ==
  /\ pc[w] = "match"
  /\ LET o == orders[order[w]]
         fill == [side |-> o.side, quantity |-> o.quantity, price |-> 1,
                  rank |-> order[w]]
         done == ApplyToLedger([lots |-> lots[o.symbol], trades |-> <<>>], fill)
     IN  /\ survivors' = [survivors EXCEPT ![w] = done.lots]
         /\ unsaved' = [unsaved EXCEPT ![w] = Number(o.symbol, done.trades)]
  /\ Goto(w, "assign")
  /\ UNCHANGED <<memory, tables, request, order, event, then, row, snapshot, outer>>

AssignLots(w) ==
  /\ pc[w] = "assign"
  /\ lots' = [lots EXCEPT ![symbol(w)] = survivors[w]]
  /\ Goto(w, "extend")
  /\ UNCHANGED <<orders, position, trades, tables, request, order, event, then,
                 taken, outer>>

ExtendTrades(w) ==
  /\ pc[w] = "extend"
  /\ trades' = trades \o unsaved[w]
  /\ IF unsaved[w] = <<>>
       THEN Finish(w)
       ELSE Goto(w, "save_trade") /\ UNCHANGED <<request, order, event, then, taken>>
  /\ UNCHANGED <<orders, position, lots, tables, outer>>

SaveTrade(w) ==
  /\ pc[w] = "save_trade" /\ InsertTrade(w)
  /\ IF Len(unsaved[w]) = 1
       THEN Finish(w)
       ELSE /\ unsaved' = [unsaved EXCEPT ![w] = Tail(@)]
            /\ UNCHANGED <<pc, request, order, event, then, row, snapshot, survivors>>
  /\ UNCHANGED <<memory, outer>>

----------------------------------------------------------------------------
Restart ==
  /\ restarts < MaxRestarts
  /\ restarts' = restarts + 1
  /\ orders' = Nothing /\ position' = FlatPositions /\ lots' = NoLots
  /\ trades' = <<>>
  /\ pc' = Each("idle") /\ request' = Each(NoRequest) /\ order' = Each(0)
  /\ event' = Each(NoEvent) /\ then' = Each("end") /\ row' = Each(NoRow)
  /\ snapshot' = Each(NoSnapshot) /\ survivors' = Each(<<>>) /\ unsaved' = Each(<<>>)
  /\ UNCHANGED <<tables, created, placed, cut, overlapped>>

Begin(w) == BeginSubmit(w) \/ RespondDuplicate(w) \/ BeginUpdate(w) \/ UpdateRaises(w)

Continue(w) == \/ CreateOrder(w) \/ RejectRisk(w) \/ SaveNewOrder(w) \/ Place(w)
               \/ Record(w) \/ ReadEvent(w) \/ SaveEvent(w)
               \/ ReadOrder(w) \/ SaveOrder(w) \/ WriteRaises(w)
               \/ BookPosition(w) \/ ReadPosition(w) \/ SavePosition(w)
               \/ ClearLots(w) \/ SaveLot(w)
               \/ MatchTrades(w) \/ AssignLots(w) \/ ExtendTrades(w) \/ SaveTrade(w)

Next == (\E w \in Workers : Begin(w) \/ Continue(w)) \/ Restart

Spec == Init /\ [][Next]_vars
----------------------------------------------------------------------------
(***************************************************************************)
(* What clients are shown: the tables, and memory where those have nothing.*)
(***************************************************************************)
\* get_order_history.
HistoryShown(o) == IF o \in DOMAIN t_events THEN t_events[o] ELSE <<>>

\* list_order_lifecycle: every row, with the number of its events.
OrdersShown ==
  [o \in DOMAIN t_orders |->
     [status |-> t_orders[o].status, history_count |-> Len(HistoryShown(o))]]

\* get_status: the orders that are in none of the terminal states.
ActiveShown == Cardinality({o \in DOMAIN t_orders : t_orders[o].status \notin TERMINAL_STATES})

\* get_position.
PositionShown(s) ==
  IF s \in DOMAIN t_positions
    THEN [net_quantity |-> t_positions[s].net_quantity,
          realized_pnl |-> t_positions[s].realized_pnl, open_lots |-> t_lots[s]]
    ELSE Snapshot(position[s])

\* list_trades, of one symbol.
TradesInMemory(s) == {trades[n] : n \in {m \in DOMAIN trades : trades[m].id[1] = s}}
RowsOfTrades(s) ==
  {[id |-> i, trade |-> t_trades[i]] : i \in {j \in DOMAIN t_trades : j[1] = s}}
TradesShown(s) == IF RowsOfTrades(s) # {} THEN RowsOfTrades(s) ELSE TradesInMemory(s)

----------------------------------------------------------------------------
StoredOrder ==
  [symbol: Symbols, side: Sides, quantity: Nat, key: {r.key : r \in Requests},
   status: OrderStatus, history: Seq(OrderEvent)]

\* The shape of memory and tables; a thread past the creation of its order
\* finds it in memory, with an event once it has recorded one.
TypeOK ==
  /\ created \in Nat
  /\ DOMAIN orders \cup DOMAIN t_orders \cup DOMAIN t_events \subseteq 1..created
  /\ orders \in [DOMAIN orders -> StoredOrder]
  /\ t_orders \in [DOMAIN t_orders ->
                     [key: {r.key : r \in Requests}, status: OrderStatus]]
  /\ t_events \in [DOMAIN t_events -> Seq(OrderEvent)]
  /\ event \in [Workers -> OrderEvent]
  /\ \A w \in Workers :
       /\ pc[w] \in {"idle", "create"} => order[w] = 0
       /\ pc[w] \notin {"idle", "create"} => order[w] \in DOMAIN orders
       /\ pc[w] \in {"read_event", "save_event", "read_order", "save_order", "position"} =>
            orders[order[w]].history # <<>>

\* Idempotency: at most one order of a key reaches the broker, however many
\* threads submit it at once, whatever fails, and across restarts.  The unique
\* index of the table is what stops the second of two racing submissions.
OneBrokerOrderPerKey ==
  \A p, q \in placed : p.key = q.key /\ p.key # NoKey => p = q

\* Reconciliation: an order the broker holds is in the table, with its key and
\* as submitted at least, also when the process ended before the answer.
BrokerOrdersInTable ==
  \A p \in placed :
    /\ p.order \in DOMAIN t_orders
    /\ t_orders[p.order].key = p.key
    /\ t_orders[p.order].status # "CREATED"

BusyWith(o) == \E w \in Workers : order[w] = o

\* Persist every lifecycle event: once the requests about an order have ended,
\* clients are shown its whole history and its status, unless one was cut short;
\* and when none was and none is under way, the right number of active orders.
EveryEventPersisted ==
  /\ \A o \in DOMAIN orders :
       ~BusyWith(o) /\ o \notin cut =>
         /\ HistoryShown(o) = orders[o].history
         /\ o \in DOMAIN OrdersShown
         /\ OrdersShown[o] = [status |-> orders[o].status,
                              history_count |-> Len(orders[o].history)]
  /\ restarts = 0 /\ cut = {} /\ (\A w \in Workers : pc[w] = "idle") =>
       ActiveShown = Cardinality({o \in DOMAIN orders : orders[o].status \notin TERMINAL_STATES})

\* What the table has of an order lags behind memory and never runs ahead: its
\* events are a beginning of the history, and its status is one it had.
TableLags ==
  \A o \in DOMAIN orders \ cut :
    LET history == orders[o].history
        saved == HistoryShown(o)
    IN  /\ Len(saved) \in {Len(history) - 1, Len(history)}
        /\ saved = SubSeq(history, 1, Len(saved))
        /\ o \in DOMAIN t_orders =>
             t_orders[o].status \in {"CREATED"} \cup {history[i].to : i \in DOMAIN history}

\* Of this symbol no fill was booked while another was, no request was cut
\* short, and none is booking a fill; that holds for one process only.
BooksSettled(s) ==
  /\ restarts = 0
  /\ s \notin overlapped
  /\ \A o \in cut : orders[o].symbol # s
  /\ \A w \in Workers : ~Booking(w, s)

\* Once the fills of a symbol are booked, one after the other, clients are shown
\* its position and its trades as they are in memory, and the risk check sees
\* that position, whatever threads do to other symbols and whatever write fails
\* for those.
BooksPersisted ==
  \A s \in Symbols : BooksSettled(s) =>
    /\ PositionShown(s) = Snapshot(position[s])
    /\ Net[s] = NetQuantity(position[s].open_lots)
    /\ TradesShown(s) = TradesInMemory(s)

\* The same of positions without the exception: when no write failed and no
\* fill is being booked, clients are shown the position that the fills made.
LatestPositionPersisted ==
  restarts = 0 /\ cut = {} /\ (\A w \in Workers : pc[w] \notin Books) =>
    \A s \in Symbols : PositionShown(s) = Snapshot(position[s])
=============================================================================
