------------------------ MODULE PersistedOrdersProofs ------------------------
(***************************************************************************)
(* Theorems about PersistedOrders, for any number of threads, orders and   *)
(* restarts, and for tables whose writes may fail or not; the clients are  *)
(* serial or not, except where a theorem assumes that they are.            *)
(***************************************************************************)
EXTENDS PersistedOrders, LotProofs, TLAPS

----------------------------------------------------------------------------
(***************************************************************************)
(* What the handlers build.                                                *)
(***************************************************************************)
Keys == {r.key : r \in Requests}
TableRow == [key: Keys, status: OrderStatus]
RowWrites == {"save_new", "save_order"}
Recorded == {"read_event", "save_event", "read_order", "save_order", "position"}
Steps == {"idle", "create", "read_new", "place", "record"} \cup Recorded \cup Saves \cup Books
Goings == Steps \ ({"idle", "create"} \cup RowWrites)

\* Put adds or replaces one entry.
LEMMA PutType ==
  ASSUME NEW S, NEW f, f \in [DOMAIN f -> S], NEW x, NEW v \in S
  PROVE  /\ Put(f, x, v) \in [DOMAIN Put(f, x, v) -> S]
         /\ DOMAIN Put(f, x, v) = DOMAIN f \cup {x}
         /\ Put(f, x, v)[x] = v
         /\ \A y \in DOMAIN f : y # x => Put(f, x, v)[y] = f[y]
BY DEF Put

\* There is a request to stand for none.
LEMMA NoRequestType == NoRequest \in Requests
BY PersistedAssumption DEF NoRequest

\* transition() and transition_from_broker_update build events.
LEMMA EventType ==
  ASSUME NEW s \in OrderStatus, NEW t \in OrderStatus
  PROVE  /\ Transition(s, t) \in OrderEvent /\ Transition(s, t).to = t
         /\ BrokerTransition(s, t, 0, 1) \in OrderEvent
         /\ BrokerTransition(s, t, 0, 1).to = t
BY DEF Transition, BrokerTransition, OrderEvent

\* A broker word maps to a status, and no word maps to CREATED.
LEMMA WordType ==
  ASSUME NEW b \in UpdateWords
  PROVE  BROKER_STATUS_MAP[b] \in OrderStatus \ {"CREATED"}
BY PersistedAssumption DEF BROKER_STATUS_MAP, BrokerWords, OrderStatus

\* The event that stands for none is an event.
LEMMA NoEventType == NoEvent \in OrderEvent
BY EventType DEF NoEvent, OrderStatus

\* lifecycle_store.create_order stores an order of the right shape.
LEMMA NewOrderType ==
  ASSUME NEW r \in Requests
  PROVE  [symbol |-> r.symbol, side |-> r.side, quantity |-> r.quantity,
          key |-> r.key, status |-> "CREATED", history |-> <<>>] \in StoredOrder
<1>1. r.symbol \in Symbols /\ r.side \in Sides /\ r.quantity \in Nat
  BY PersistedAssumption
<1>2. r.key \in {q.key : q \in Requests}
  OBVIOUS
<1>3. "CREATED" \in OrderStatus /\ <<>> \in Seq(OrderEvent)
  BY DEF OrderStatus
<1> QED
  BY <1>1, <1>2, <1>3 DEF StoredOrder

\* append_event moves an order to the status of the event, adds the event to
\* its history, and leaves the rest of it.
LEMMA RecordType ==
  ASSUME NEW s \in StoredOrder, NEW e \in OrderEvent
  PROVE  /\ WithEvent(s, e) \in StoredOrder
         /\ WithEvent(s, e).status = e.to /\ WithEvent(s, e).key = s.key
         /\ WithEvent(s, e).history # <<>>
<1>1. s.history \in Seq(OrderEvent) /\ e.to \in OrderStatus
  BY DEF StoredOrder, OrderEvent
<1>2. Append(s.history, e) \in Seq(OrderEvent) /\ Append(s.history, e) # <<>>
  BY <1>1
<1> QED
  BY <1>1, <1>2 DEF StoredOrder, WithEvent

----------------------------------------------------------------------------
(***************************************************************************)
(* The invariant.  Types is TypeOK with the types of the threads, and says *)
(* that a row read of an order has its key.  In the rest: a row has the    *)
(* key of its order and no other row has it; what was read of an order, or *)
(* written, has not left CREATED before the order has; one thread at most  *)
(* submits an order, and the broker holds it when no thread does; and a    *)
(* thread about to call the broker has an order whose row has left CREATED *)
(* and is not written as CREATED again, as the submitting thread is the    *)
(* only one that ever reads a new order.                                   *)
(***************************************************************************)
Types ==
  /\ TypeOK
  /\ pc \in [Workers -> Steps] /\ order \in [Workers -> Nat]
  /\ request \in [Workers -> Requests]
  /\ then \in [Workers -> {"place", "position", "end"}]
  /\ row \in [Workers -> [key: Keys \cup {NoKey}, status: OrderStatus]]
  /\ \A w \in Workers : pc[w] \in RowWrites => row[w].key = orders[order[w]].key

TablesTyped ==
  /\ DOMAIN t_orders \cup DOMAIN t_events \subseteq 1..created
  /\ t_orders \in [DOMAIN t_orders -> TableRow]
  /\ t_events \in [DOMAIN t_events -> Seq(OrderEvent)]

RowsAgree ==
  \A o \in DOMAIN t_orders : o \in DOMAIN orders =>
    /\ t_orders[o].key = orders[o].key
    /\ t_orders[o].status # "CREATED" => orders[o].status # "CREATED"

KeysUnique ==
  \A o, p \in DOMAIN t_orders :
    t_orders[o].key = t_orders[p].key /\ t_orders[o].key # NoKey => o = p

ThreadsPastCreated ==
  \A w \in Workers :
    /\ pc[w] = "record" => event[w].to # "CREATED"
    /\ pc[w] \in Recorded => orders[order[w]].status # "CREATED"
    /\ pc[w] \in RowWrites /\ row[w].status # "CREATED" => orders[order[w]].status # "CREATED"
    /\ pc[w] = "save_order" => row[w].status # "CREATED"
    /\ pc[w] = "place" =>
         order[w] \in DOMAIN t_orders /\ t_orders[order[w]].status # "CREATED"

Submits(w) == pc[w] \in {"read_new", "save_new"} \/ then[w] = "place"

Submitters ==
  /\ \A w \in Workers : pc[w] \in {"idle", "create"} => then[w] = "end"
  /\ \A w \in Workers : pc[w] = "place" => then[w] = "place"
  /\ \A v, w \in Workers : Submits(v) /\ Submits(w) /\ order[v] = order[w] => v = w
  /\ \A w \in Workers : Submits(w) => \A p \in placed : p.order # order[w]

PlacedAreRecords == \A p \in placed : p = [order |-> p.order, key |-> p.key]

Inv == /\ Types /\ RowsAgree /\ KeysUnique /\ ThreadsPastCreated /\ Submitters
       /\ PlacedAreRecords /\ BrokerOrdersInTable

LEMMA InvInit == Init => Inv
BY NoRequestType, NoEventType
DEF Init, Inv, Types, TypeOK, RowsAgree, KeysUnique, ThreadsPastCreated, Submitters,
    Submits, PlacedAreRecords, BrokerOrdersInTable, Nothing, Each, Steps, Recorded,
    RowWrites, NoRow, OrderStatus

----------------------------------------------------------------------------
(***************************************************************************)
(* Type correctness is preserved.                                          *)
(***************************************************************************)
\* A statement that writes to a table keeps the types of the tables.
LEMMA WriteTypes ==
  ASSUME Types, NEW w \in Workers, Write(w) \/ UNCHANGED tables, UNCHANGED created
  PROVE  TablesTyped'
<1>1. DOMAIN t_orders \cup DOMAIN t_events \subseteq 1..created
      /\ t_orders \in [DOMAIN t_orders -> TableRow]
      /\ t_events \in [DOMAIN t_events -> Seq(OrderEvent)]
  BY DEF Types, TypeOK, TableRow, Keys
<1>2. CASE pc[w] \in RowWrites /\ StoreOrder(w)
  <2>1. order[w] \in DOMAIN orders /\ orders[order[w]] \in StoredOrder /\ order[w] \in 1..created
    BY <1>2 DEF Types, TypeOK, RowWrites
  <2>2. row[w].key \in Keys /\ row[w] \in [key: Keys \cup {NoKey}, status: OrderStatus]
    BY <1>2, <2>1 DEF Types, StoredOrder, Keys
  <2>3. row[w] \in TableRow
    BY <2>2 DEF TableRow
  <2>4. t_orders' = Put(t_orders, order[w], row[w]) /\ UNCHANGED t_events
    BY <1>2 DEF StoreOrder
  <2>5. /\ DOMAIN t_orders' = DOMAIN t_orders \cup {order[w]}
        /\ t_orders' \in [DOMAIN t_orders' -> TableRow]
    BY <1>1, <2>3, <2>4 DEF Put
  <2> QED
    BY <1>1, <2>1, <2>4, <2>5 DEF TablesTyped
<1>3. CASE pc[w] = "save_event" /\ StoreEvent(w)
  <2> DEFINE o == order[w]
             before == IF o \in DOMAIN t_events THEN t_events[o] ELSE <<>>
             saved == Append(before, event[w])
  <2>1. o \in 1..created /\ event[w] \in OrderEvent
    BY <1>3 DEF Types, TypeOK
  <2>2. saved \in Seq(OrderEvent)
    BY <1>1, <2>1
  <2>3. t_events' = Put(t_events, o, saved) /\ UNCHANGED t_orders
    BY <1>3 DEF StoreEvent
  <2> HIDE DEF saved
  <2>4. /\ DOMAIN t_events' = DOMAIN t_events \cup {o}
        /\ t_events' \in [DOMAIN t_events' -> Seq(OrderEvent)]
    BY <1>1, <2>2, <2>3 DEF Put
  <2> QED
    BY <1>1, <2>1, <2>3, <2>4 DEF TablesTyped
<1>4. CASE UNCHANGED <<t_orders, t_events>>
  BY <1>1, <1>4 DEF TablesTyped
<1> QED
  BY <1>2, <1>3, <1>4 DEF Write, StorePosition, DeleteLots, InsertLot, InsertTrade, tables, RowWrites

\* A request that ends preserves the types, whatever it wrote to the tables.
LEMMA FinishTypes ==
  ASSUME Types, NEW w \in Workers, Finish(w), UNCHANGED <<orders, created>>, TablesTyped'
  PROVE  Types'
BY NoRequestType, NoEventType
DEF Types, TypeOK, TablesTyped, Finish, Goto, Steps, Recorded, RowWrites, TableRow, Keys,
    NoRow, OrderStatus

\* A thread that turns to an order of the memory, or goes on with its own.
LEMMA TurnTypes ==
  ASSUME Types, NEW w \in Workers, NEW o \in DOMAIN orders, NEW e \in OrderEvent,
         NEW step \in {"place", "position", "end"}, Turn(w, o, e, step),
         UNCHANGED <<orders, created>>, TablesTyped'
  PROVE  Types'
BY DEF Types, TypeOK, TablesTyped, Turn, taken, Goto, Steps, Recorded, RowWrites, TableRow, Keys

LEMMA GotoTypes ==
  ASSUME Types, NEW w \in Workers, pc[w] \notin {"idle", "create"},
         NEW step \in Goings, Goto(w, step),
         step \in Recorded => orders[order[w]].history # <<>>,
         UNCHANGED <<orders, created, request, order, then, row>>,
         event' \in [Workers -> OrderEvent], TablesTyped'
  PROVE  Types'
<1>1. /\ pc' = [pc EXCEPT ![w] = step] /\ step \in Steps /\ step \notin {"idle", "create"}
      /\ step \notin RowWrites
  BY DEF Goto, Goings
<1>2. pc' \in [Workers -> Steps]
  BY <1>1 DEF Types
<1>3. ASSUME NEW v \in Workers
      PROVE  /\ pc'[v] \in {"idle", "create"} => order[v] = 0
             /\ pc'[v] \notin {"idle", "create"} => order[v] \in DOMAIN orders
             /\ pc'[v] \in Recorded => orders[order[v]].history # <<>>
             /\ pc'[v] \in RowWrites => row[v].key = orders[order[v]].key
  <2>1. CASE v = w
    BY <1>1, <2>1 DEF Types, TypeOK
  <2>2. CASE v # w
    <3>1. pc'[v] = pc[v]
      BY <1>1, <2>2 DEF Types
    <3> QED
      BY <3>1 DEF Types, TypeOK, Recorded
  <2> QED
    BY <2>1, <2>2
<1> QED
  BY <1>2, <1>3 DEF Types, TypeOK, TablesTyped, TableRow, Keys, Recorded

LEMMA TypesKept ==
  ASSUME Types, [Next]_vars
  PROVE  Types'
<1> USE DEF memory, outer
<1>0. UNCHANGED <<tables, created>> => TablesTyped'
  BY DEF Types, TypeOK, TablesTyped, TableRow, Keys, tables
<1>1. CASE UNCHANGED vars
  BY <1>1 DEF vars, locals, taken, tables, Types, TypeOK
<1>2. ASSUME NEW w \in Workers, BeginSubmit(w)
      PROVE  Types'
  BY <1>2 DEF BeginSubmit, Types, TypeOK, Goto, Steps, Recorded, RowWrites, taken, tables
<1>3. ASSUME NEW w \in Workers, RespondDuplicate(w) \/ UpdateRaises(w)
      PROVE  Types'
  BY <1>1, <1>3 DEF RespondDuplicate, UpdateRaises
<1>4. ASSUME NEW w \in Workers, BeginUpdate(w)
      PROVE  Types'
  <2>1. PICK o \in DOMAIN orders, b \in UpdateWords :
          Turn(w, o, BrokerTransition(orders[o].status, BROKER_STATUS_MAP[b], 0, 1),
               IF BROKER_STATUS_MAP[b] = "FILLED" THEN "position" ELSE "end")
    BY <1>4 DEF BeginUpdate
  <2>2. orders[o].status \in OrderStatus
    BY DEF Types, TypeOK, StoredOrder
  <2>3. BrokerTransition(orders[o].status, BROKER_STATUS_MAP[b], 0, 1) \in OrderEvent
    BY <2>2, EventType, WordType
  <2>4. UNCHANGED <<memory, tables, outer>>
    BY <1>4 DEF BeginUpdate
  <2> QED
    BY <1>0, <2>1, <2>3, <2>4, TurnTypes
<1>5. ASSUME NEW w \in Workers, CreateOrder(w)
      PROVE  Types'
  <2> DEFINE new == [symbol |-> request[w].symbol, side |-> request[w].side,
                     quantity |-> request[w].quantity, key |-> request[w].key,
                     status |-> "CREATED", history |-> <<>>]
  <2>1. new \in StoredOrder
    BY NewOrderType DEF Types
  <2>2. orders' = Put(orders, created + 1, new)
    BY <1>5 DEF CreateOrder
  <2>3. /\ orders' \in [DOMAIN orders' -> StoredOrder]
        /\ DOMAIN orders' = DOMAIN orders \cup {created + 1}
        /\ \A o \in DOMAIN orders : orders'[o] = orders[o]
    BY <2>1, <2>2 DEF Types, TypeOK, Put
  <2>4. created \in Nat /\ created' = created + 1
    BY <1>5 DEF CreateOrder, Types, TypeOK
  <2>5. /\ order' = [order EXCEPT ![w] = created + 1]
        /\ request' = [request EXCEPT ![w] = NoRequest]
        /\ pc' = [pc EXCEPT ![w] = "read_new"]
        /\ UNCHANGED <<tables, event, then, row>>
    BY <1>5 DEF CreateOrder, Goto, taken
  <2>6. /\ pc' \in [Workers -> Steps] /\ order' \in [Workers -> Nat]
        /\ request' \in [Workers -> Requests]
    BY <2>4, <2>5, NoRequestType DEF Types, Steps
  <2>7. ASSUME NEW v \in Workers
        PROVE  /\ pc'[v] \in {"idle", "create"} => order'[v] = 0
               /\ pc'[v] \notin {"idle", "create"} => order'[v] \in DOMAIN orders'
               /\ pc'[v] \in Recorded => orders'[order'[v]].history # <<>>
               /\ pc'[v] \in RowWrites => row'[v].key = orders'[order'[v]].key
    <3>1. CASE v = w
      <4>1. pc'[v] = "read_new" /\ order'[v] = created + 1
        BY <2>5, <3>1 DEF Types
      <4> QED
        BY <2>3, <4>1 DEF Recorded, RowWrites
    <3>2. CASE v # w
      <4>1. pc'[v] = pc[v] /\ order'[v] = order[v] /\ row'[v] = row[v]
        BY <2>5, <3>2 DEF Types
      <4> QED
        BY <2>3, <4>1 DEF Types, TypeOK, Recorded, RowWrites
    <3> QED
      BY <3>1, <3>2
  <2>8. DOMAIN orders' \cup DOMAIN t_orders \cup DOMAIN t_events \subseteq 1..created'
    BY <2>3, <2>4 DEF Types, TypeOK
  <2> HIDE DEF new
  <2> QED
    BY <2>3, <2>4, <2>5, <2>6, <2>7, <2>8 DEF Types, TypeOK, Recorded, tables
<1>6. ASSUME NEW w \in Workers, RejectRisk(w)
      PROVE  Types'
  BY <1>0, <1>6, FinishTypes DEF RejectRisk
<1>7. ASSUME NEW w \in Workers, SaveNewOrder(w)
      PROVE  Types'
  <2>1. order[w] \in DOMAIN orders
    BY <1>7 DEF SaveNewOrder, Types, TypeOK
  <2>2. Transition("CREATED", "SUBMITTED") \in OrderEvent
    BY EventType DEF OrderStatus
  <2>3. UNCHANGED <<orders, created>> /\ Write(w)
        /\ Turn(w, order[w], Transition("CREATED", "SUBMITTED"), "place")
    BY <1>7 DEF SaveNewOrder, Write
  <2> QED
    BY <2>1, <2>2, <2>3, WriteTypes, TurnTypes
<1>8. ASSUME NEW w \in Workers, Place(w)
      PROVE  Types'
  <2>1. order[w] \in DOMAIN orders
    BY <1>8 DEF Place, Types, TypeOK
  <2>2. PICK t \in {"ACKNOWLEDGED", "REJECTED", "ERROR"} :
          Turn(w, order[w], Transition("SUBMITTED", t), "end")
    BY <1>8 DEF Place
  <2>3. Transition("SUBMITTED", t) \in OrderEvent
    BY EventType DEF OrderStatus
  <2>4. UNCHANGED <<memory, tables, created>>
    BY <1>8 DEF Place
  <2> QED
    BY <1>0, <2>1, <2>2, <2>3, <2>4, TurnTypes
<1>9. ASSUME NEW w \in Workers, Record(w)
      PROVE  Types'
  <2>1. order[w] \in DOMAIN orders /\ orders[order[w]] \in StoredOrder
        /\ event[w] \in OrderEvent
    BY <1>9 DEF Record, Types, TypeOK
  <2>2. orders' = [orders EXCEPT ![order[w]] = WithEvent(orders[order[w]], event[w])]
    BY <1>9 DEF Record
  <2>3. orders'[order[w]] \in StoredOrder /\ orders'[order[w]].history # <<>>
        /\ orders'[order[w]].key = orders[order[w]].key
    BY <2>1, <2>2, RecordType
  <2>4. /\ orders' \in [DOMAIN orders' -> StoredOrder] /\ DOMAIN orders' = DOMAIN orders
        /\ \A o \in DOMAIN orders \ {order[w]} : orders'[o] = orders[o]
    BY <2>2, <2>3 DEF Types, TypeOK
  <2>5. pc' = [pc EXCEPT ![w] = "read_event"]
        /\ UNCHANGED <<tables, request, order, event, then, row, created>>
    BY <1>9 DEF Record, Goto, taken
  <2>6. ASSUME NEW v \in Workers
        PROVE  /\ pc'[v] \in {"idle", "create"} => order'[v] = 0
               /\ pc'[v] \notin {"idle", "create"} => order'[v] \in DOMAIN orders'
               /\ pc'[v] \in Recorded => orders'[order'[v]].history # <<>>
               /\ pc'[v] \in RowWrites => row'[v].key = orders'[order'[v]].key
    <3>1. pc[w] = "record" /\ pc \in [Workers -> Steps]
      BY <1>9 DEF Record, Types
    <3>2. CASE v = w
      BY <2>1, <2>3, <2>4, <2>5, <3>1, <3>2 DEF RowWrites
    <3>3. CASE v # w
      <4>1. pc'[v] = pc[v]
        BY <2>5, <3>1, <3>3
      <4> QED
        BY <2>3, <2>4, <2>5, <4>1 DEF Types, TypeOK, Recorded, RowWrites
    <3> QED
      BY <3>2, <3>3
  <2> QED
    BY <2>4, <2>5, <2>6 DEF Types, TypeOK, Steps, Recorded, tables
<1>10. ASSUME NEW w \in Workers, ReadEvent(w) \/ SaveEvent(w)
       PROVE  Types'
  <2>1. order[w] \in DOMAIN orders /\ orders[order[w]].history \in Seq(OrderEvent)
        /\ orders[order[w]].history # <<>> /\ pc[w] \notin {"idle", "create"}
    BY <1>10 DEF ReadEvent, SaveEvent, Types, TypeOK, StoredOrder
  <2>2. latest(order[w]) \in OrderEvent
    BY <2>1 DEF latest
  <2>3. event' \in [Workers -> OrderEvent]
    BY <1>10, <2>2 DEF ReadEvent, SaveEvent, Types, TypeOK
  <2>4. TablesTyped'
    <3>1. (Write(w) \/ UNCHANGED tables) /\ UNCHANGED created
      BY <1>10 DEF ReadEvent, SaveEvent, Write
    <3> QED
      BY <3>1, WriteTypes
  <2>5. PICK step \in {"save_event", "read_order"} : Goto(w, step)
    BY <1>10 DEF ReadEvent, SaveEvent
  <2>6. step \in Goings
    BY DEF Goings, Steps, Recorded, RowWrites
  <2>7. UNCHANGED <<orders, created, request, order, then, row>>
    BY <1>10 DEF ReadEvent, SaveEvent, taken
  <2> QED
    BY <2>1, <2>3, <2>4, <2>5, <2>6, <2>7, GotoTypes
<1>11. ASSUME NEW w \in Workers, ReadOrder(w)
       PROVE  Types'
  <2> DEFINE read == [key |-> orders[order[w]].key, status |-> orders[order[w]].status]
  <2>1. order[w] \in DOMAIN orders /\ orders[order[w]] \in StoredOrder
    BY <1>11 DEF ReadOrder, Types, TypeOK
  <2>2. read \in [key: Keys \cup {NoKey}, status: OrderStatus] /\ read.key = orders[order[w]].key
    BY <2>1 DEF StoredOrder, Keys
  <2>3. PICK step \in RowWrites : Goto(w, step) /\ (step = "save_order" => pc[w] = "read_order")
        /\ pc[w] \in {"read_new", "read_order"}
    BY <1>11 DEF ReadOrder, RowWrites
  <2>4. /\ row' = [row EXCEPT ![w] = read] /\ pc' = [pc EXCEPT ![w] = step]
        /\ UNCHANGED <<orders, tables, created, request, order, event, then>>
    BY <1>11, <2>3 DEF ReadOrder, Goto
  <2>5. step \in Steps
    BY <2>3 DEF Steps, Recorded, RowWrites, Saves
  <2>6. row' \in [Workers -> [key: Keys \cup {NoKey}, status: OrderStatus]]
        /\ pc' \in [Workers -> Steps]
    BY <2>2, <2>4, <2>5 DEF Types
  <2>7. ASSUME NEW v \in Workers
        PROVE  /\ pc'[v] \in {"idle", "create"} => order[v] = 0
               /\ pc'[v] \notin {"idle", "create"} => order[v] \in DOMAIN orders
               /\ pc'[v] \in Recorded => orders[order[v]].history # <<>>
               /\ pc'[v] \in RowWrites => row'[v].key = orders[order[v]].key
    <3>1. CASE v = w
      <4>1. pc'[w] = step /\ row'[w] = read
        BY <2>4 DEF Types
      <4>2. step \in Recorded => orders[order[w]].history # <<>>
        BY <2>3 DEF Types, TypeOK, Recorded, RowWrites
      <4> QED
        BY <2>1, <2>2, <2>3, <3>1, <4>1, <4>2 DEF RowWrites
    <3>2. CASE v # w
      <4>1. pc'[v] = pc[v] /\ row'[v] = row[v]
        BY <2>4, <3>2 DEF Types
      <4> QED
        BY <4>1 DEF Types, TypeOK, Recorded
    <3> QED
      BY <3>1, <3>2
  <2> HIDE DEF read
  <2> QED
    BY <2>4, <2>6, <2>7 DEF Types, TypeOK, tables, Recorded
<1>12. ASSUME NEW w \in Workers, SaveOrder(w)
       PROVE  Types'
  <2>1. order[w] \in DOMAIN orders /\ orders[order[w]].history # <<>>
        /\ pc[w] \notin {"idle", "create"}
    BY <1>12 DEF SaveOrder, Types, TypeOK
  <2>2. UNCHANGED <<orders, created>> /\ TablesTyped'
    BY <1>12, WriteTypes DEF SaveOrder, Write
  <2>3. CASE then[w] = "end"
    BY <1>12, <2>2, <2>3, FinishTypes DEF SaveOrder
  <2>4. CASE then[w] # "end"
    <3>1. then[w] \in Goings
      BY <2>4 DEF Types, Goings, Steps, Recorded, RowWrites
    <3>2. Goto(w, then[w]) /\ UNCHANGED <<request, order, event, then, row>>
      BY <1>12, <2>4 DEF SaveOrder, taken
    <3>3. event' \in [Workers -> OrderEvent]
      BY <3>2 DEF Types, TypeOK
    <3> QED
      BY <2>1, <2>2, <3>1, <3>2, <3>3, GotoTypes
  <2> QED
    BY <2>3, <2>4
<1>13. ASSUME NEW w \in Workers, WriteRaises(w)
       PROVE  Types'
  <2>1. UNCHANGED <<orders, created>> /\ Finish(w) /\ (Write(w) \/ UNCHANGED tables)
    BY <1>13 DEF WriteRaises
  <2> QED
    BY <2>1, WriteTypes, FinishTypes
<1>14. ASSUME NEW w \in Workers,
              \/ BookPosition(w) \/ ReadPosition(w) \/ SavePosition(w) \/ ClearLots(w)
              \/ SaveLot(w) \/ MatchTrades(w) \/ AssignLots(w) \/ ExtendTrades(w) \/ SaveTrade(w)
       PROVE  Types'
  <2>1. UNCHANGED <<orders, created>> /\ TablesTyped'
    <3>1. (Write(w) \/ UNCHANGED tables) /\ UNCHANGED created
      BY <1>14 DEF BookPosition, ReadPosition, SavePosition, ClearLots, SaveLot, WithLots,
         MatchTrades, AssignLots, ExtendTrades, SaveTrade, Write
    <3>2. UNCHANGED orders
      BY <1>14 DEF BookPosition, ReadPosition, SavePosition, ClearLots, SaveLot, WithLots,
         MatchTrades, AssignLots, ExtendTrades, SaveTrade
    <3> QED
      BY <3>1, <3>2, WriteTypes
  <2>2. \/ Finish(w)
        \/ UNCHANGED <<pc, request, order, event, then, row>>
        \/ /\ UNCHANGED <<request, order, event, then, row>>
           /\ pc[w] \notin {"idle", "create"} /\ \E step \in Books : Goto(w, step)
    BY <1>14 DEF BookPosition, ReadPosition, SavePosition, ClearLots, SaveLot, WithLots,
       MatchTrades, AssignLots, ExtendTrades, SaveTrade, Books, taken
  <2>3. CASE UNCHANGED <<pc, request, order, event, then, row>>
    BY <2>1, <2>3 DEF Types, TypeOK, TablesTyped, TableRow, Keys
  <2>4. CASE UNCHANGED <<request, order, event, then, row>>
             /\ pc[w] \notin {"idle", "create"} /\ \E step \in Books : Goto(w, step)
    <3>1. PICK step \in Books : Goto(w, step)
      BY <2>4
    <3>2. step \in Goings /\ step \notin Recorded
      BY DEF Books, Goings, Steps, Recorded, RowWrites
    <3>3. event' \in [Workers -> OrderEvent]
      BY <2>4 DEF Types, TypeOK
    <3> QED
      BY <2>1, <2>4, <3>1, <3>2, <3>3, GotoTypes
  <2> QED
    BY <2>1, <2>2, <2>3, <2>4, FinishTypes
<1>15. CASE Restart
  BY <1>15, NoRequestType, NoEventType
  DEF Restart, Nothing, Each, Types, TypeOK, Steps, Recorded, RowWrites, NoRow, tables, OrderStatus
<1> QED
  BY <1>1, <1>2, <1>3, <1>4, <1>5, <1>6, <1>7, <1>8, <1>9, <1>10, <1>11, <1>12,
     <1>13, <1>14, <1>15 DEF Next, Begin, Continue

----------------------------------------------------------------------------
(***************************************************************************)
(* The rest of the invariant is preserved.                                 *)
(***************************************************************************)
StoresAgree == RowsAgree /\ KeysUnique /\ PlacedAreRecords /\ BrokerOrdersInTable
Rest == StoresAgree /\ ThreadsPastCreated /\ Submitters

\* ThreadsPastCreated, of one thread.
PastCreated(w) ==
  /\ pc[w] = "record" => event[w].to # "CREATED"
  /\ pc[w] \in Recorded => orders[order[w]].status # "CREATED"
  /\ pc[w] \in RowWrites /\ row[w].status # "CREATED" => orders[order[w]].status # "CREATED"
  /\ pc[w] = "save_order" => row[w].status # "CREATED"
  /\ pc[w] = "place" =>
       order[w] \in DOMAIN t_orders /\ t_orders[order[w]].status # "CREATED"

\* What a thread that places an order relies on.
Placeable(w) ==
  pc[w] = "place" => order[w] \in DOMAIN t_orders /\ t_orders[order[w]].status # "CREATED"

\* A step of one thread leaves where the others are, and what they hold.
OthersStay(w) ==
  \A v \in Workers \ {w} :
    /\ pc'[v] = pc[v] /\ order'[v] = order[v] /\ event'[v] = event[v]
    /\ then'[v] = then[v] /\ row'[v] = row[v]

\* The thread of a step does what it must, orders do not return to CREATED, and
\* nobody takes away the row of an order that is about to be placed.
LEMMA ThreadsKept ==
  ASSUME Inv, NEW w \in Workers, OthersStay(w), PastCreated(w)',
         \A o \in DOMAIN orders : orders[o].status # "CREATED" => orders'[o].status # "CREATED",
         \A v \in Workers \ {w} : Placeable(v)'
  PROVE  ThreadsPastCreated'
<1>1. ASSUME NEW v \in Workers \ {w}
      PROVE  PastCreated(v)'
  <2>1. /\ pc'[v] = pc[v] /\ order'[v] = order[v] /\ event'[v] = event[v] /\ row'[v] = row[v]
        /\ v \in Workers
    BY DEF OthersStay
  <2>2. pc[v] \notin {"idle", "create"} => order[v] \in DOMAIN orders
    BY <2>1 DEF Inv, Types, TypeOK
  <2>3. PastCreated(v)
    BY <2>1 DEF Inv, ThreadsPastCreated, PastCreated
  <2>4. Placeable(v)'
    OBVIOUS
  <2> QED
    BY <2>1, <2>2, <2>3, <2>4 DEF PastCreated, Placeable, Recorded, RowWrites
<1> QED
  BY <1>1 DEF ThreadsPastCreated, PastCreated

\* A thread keeps submitting the order it submits, or stops, and only an order
\* that it stops submitting is placed.
LEMMA SubmittersKept ==
  ASSUME Inv, NEW w \in Workers, OthersStay(w),
         Submits(w)' => Submits(w) /\ order'[w] = order[w],
         \A p \in placed' : p \in placed \/ (Submits(w) /\ p.order = order[w] /\ ~Submits(w)'),
         pc'[w] \in {"idle", "create"} => then'[w] = "end",
         pc'[w] = "place" => then'[w] = "place"
  PROVE  Submitters'
<1>1. \A v \in Workers : v # w => (Submits(v)' <=> Submits(v)) /\ order'[v] = order[v]
                                  /\ pc'[v] = pc[v] /\ then'[v] = then[v]
  BY DEF OthersStay, Submits
<1>2. /\ \A v, u \in Workers : Submits(v) /\ Submits(u) /\ order[v] = order[u] => v = u
      /\ \A v \in Workers : Submits(v) => \A p \in placed : p.order # order[v]
      /\ \A v \in Workers : pc[v] \in {"idle", "create"} => then[v] = "end"
      /\ \A v \in Workers : pc[v] = "place" => then[v] = "place"
  BY DEF Inv, Submitters
<1>3. \A v \in Workers : Submits(v)' => Submits(v) /\ order'[v] = order[v]
  BY <1>1
<1>4. ASSUME NEW v \in Workers, Submits(v)', NEW p \in placed'
      PROVE  p.order # order'[v]
  BY <1>2, <1>3, <1>4
<1>5. \A v, u \in Workers : Submits(v)' /\ Submits(u)' /\ order'[v] = order'[u] => v = u
  BY <1>2, <1>3
<1>6. \A v \in Workers : /\ pc'[v] \in {"idle", "create"} => then'[v] = "end"
                         /\ pc'[v] = "place" => then'[v] = "place"
  BY <1>1, <1>2
<1> QED
  BY <1>4, <1>5, <1>6 DEF Submitters

\* upsert_order keeps the keys of rows unique and gives the row the key of its
\* order; the row of an order that was placed, or is about to be, has left
\* CREATED and stays so.
LEMMA SavedRow ==
  ASSUME Inv, NEW w \in Workers, pc[w] \in RowWrites, StoreOrder(w), UNCHANGED <<orders, placed>>
  PROVE  /\ StoresAgree' /\ order[w] \in DOMAIN t_orders' /\ t_orders'[order[w]] = row[w]
         /\ \A v \in Workers \ {w} : pc[v] = "place" =>
              order[v] \in DOMAIN t_orders' /\ t_orders'[order[v]].status # "CREATED"
<1> DEFINE o == order[w]
<1>1. /\ DOMAIN t_orders' = DOMAIN t_orders \cup {o}
      /\ t_orders'[o] = row[w]
      /\ \A p \in DOMAIN t_orders : p # o => t_orders'[p] = t_orders[p]
  BY DEF Put, StoreOrder
<1>2. o \in DOMAIN orders /\ row[w].key = orders[o].key
      /\ (row[w].status # "CREATED" => orders[o].status # "CREATED")
      /\ (pc[w] = "save_order" => row[w].status # "CREATED")
  BY DEF Inv, Types, TypeOK, ThreadsPastCreated, RowWrites
<1>3. RowsAgree'
  BY <1>1, <1>2 DEF Inv, RowsAgree
<1>4. KeysUnique'
  BY <1>1 DEF Inv, KeysUnique, KeyFree, StoreOrder
<1>5. PlacedAreRecords'
  BY DEF Inv, PlacedAreRecords
<1>6. o \in DOMAIN t_orders => t_orders[o].key = row[w].key
  BY <1>2 DEF Inv, RowsAgree
<1>7. pc[w] = "save_new" => Submits(w)
  BY DEF Submits
<1>8. pc[w] = "save_new" \/ row[w].status # "CREATED"
  BY <1>2 DEF RowWrites
<1>9. BrokerOrdersInTable'
  <2> SUFFICES ASSUME NEW p \in placed
               PROVE  /\ p.order \in DOMAIN t_orders' /\ t_orders'[p.order].key = p.key
                      /\ t_orders'[p.order].status # "CREATED"
    BY DEF BrokerOrdersInTable
  <2>1. p.order \in DOMAIN t_orders /\ t_orders[p.order].key = p.key
        /\ t_orders[p.order].status # "CREATED"
    BY DEF Inv, BrokerOrdersInTable
  <2>2. p.order = o => row[w].status # "CREATED"
    BY <1>7, <1>8 DEF Inv, Submitters
  <2> QED
    BY <1>1, <1>6, <2>1, <2>2
<1>10. ASSUME NEW v \in Workers \ {w}, pc[v] = "place"
       PROVE  order[v] \in DOMAIN t_orders' /\ t_orders'[order[v]].status # "CREATED"
  <2>1. v \in Workers /\ v # w /\ then[v] = "place"
    BY <1>10 DEF Inv, Submitters
  <2>2. Submits(v)
    BY <2>1 DEF Submits
  <2>3. order[v] = o => row[w].status # "CREATED"
    BY <1>7, <1>8, <2>1, <2>2 DEF Inv, Submitters
  <2>4. order[v] \in DOMAIN t_orders /\ t_orders[order[v]].status # "CREATED"
    BY <1>10, <2>1 DEF Inv, ThreadsPastCreated
  <2> QED
    BY <1>1, <2>3, <2>4
<1> QED
  BY <1>1, <1>3, <1>4, <1>5, <1>9, <1>10 DEF StoresAgree

\* The same, whatever a thread writes; in the end it may be nothing.
LEMMA WriteAgrees ==
  ASSUME Inv, NEW w \in Workers, Write(w) \/ UNCHANGED tables, UNCHANGED <<orders, placed>>
  PROVE  /\ StoresAgree'
         /\ \A v \in Workers \ {w} : pc[v] = "place" =>
              order[v] \in DOMAIN t_orders' /\ t_orders'[order[v]].status # "CREATED"
<1>1. CASE UNCHANGED t_orders
  BY <1>1 DEF Inv, StoresAgree, RowsAgree, KeysUnique, PlacedAreRecords, BrokerOrdersInTable,
     ThreadsPastCreated
<1>2. CASE pc[w] \in RowWrites /\ StoreOrder(w)
  BY <1>2, SavedRow
<1> QED
  BY <1>1, <1>2 DEF Write, StoreEvent, StorePosition, DeleteLots, InsertLot, InsertTrade,
     tables, RowWrites

\* A thread whose request ends, or that only moves on, preserves the rest.
LEMMA MovesKeep ==
  ASSUME Inv, NEW w \in Workers, Write(w) \/ UNCHANGED tables, UNCHANGED <<orders, placed>>,
         OthersStay(w), PastCreated(w)',
         Submits(w)' => Submits(w) /\ order'[w] = order[w],
         pc'[w] \in {"idle", "create"} => then'[w] = "end",
         pc'[w] = "place" => then'[w] = "place"
  PROVE  Rest'
<1>1. StoresAgree'
  BY WriteAgrees
<1>2. \A v \in Workers \ {w} : Placeable(v)'
  BY WriteAgrees DEF Placeable, OthersStay
<1>3. ThreadsPastCreated'
  BY <1>2, ThreadsKept
<1>4. Submitters'
  BY SubmittersKept
<1> QED
  BY <1>1, <1>3, <1>4 DEF Rest

\* A request that ends preserves the rest, whatever it wrote.
LEMMA FinishKeeps ==
  ASSUME Inv, NEW w \in Workers, Finish(w), Write(w) \/ UNCHANGED tables,
         UNCHANGED <<orders, placed>>
  PROVE  Rest'
<1>1. /\ pc'[w] = "idle" /\ then'[w] = "end" /\ OthersStay(w)
  BY DEF Finish, Goto, OthersStay, Inv, Types, TypeOK
<1>2. PastCreated(w)'
  BY <1>1 DEF PastCreated, Recorded, RowWrites
<1>3. ~Submits(w)'
  BY <1>1 DEF Submits
<1> QED
  BY <1>1, <1>2, <1>3, MovesKeep

LEMMA RestKept ==
  ASSUME Inv, [Next]_vars
  PROVE  Rest'
<1> USE DEF memory, outer
<1>0. /\ pc \in [Workers -> Steps] /\ order \in [Workers -> Nat] /\ event \in [Workers -> OrderEvent]
      /\ then \in [Workers -> {"place", "position", "end"}] /\ DOMAIN row = Workers
  BY DEF Inv, Types, TypeOK
<1>1. CASE UNCHANGED vars
  BY <1>1 DEF vars, tables, locals, taken, Inv, Rest, StoresAgree, RowsAgree, KeysUnique,
     ThreadsPastCreated, Submitters, Submits, PlacedAreRecords, BrokerOrdersInTable
<1>2. ASSUME NEW w \in Workers, BeginSubmit(w)
      PROVE  Rest'
  <2>1. pc[w] = "idle" /\ pc'[w] = "create" /\ then'[w] = then[w] /\ OthersStay(w)
    BY <1>0, <1>2 DEF BeginSubmit, Goto, OthersStay, taken
  <2>2. then[w] = "end"
    BY <2>1 DEF Inv, Submitters
  <2>3. PastCreated(w)' /\ ~Submits(w)'
    BY <2>1, <2>2 DEF PastCreated, Recorded, RowWrites, Submits
  <2> QED
    BY <1>2, <2>1, <2>2, <2>3, MovesKeep DEF BeginSubmit
<1>3. ASSUME NEW w \in Workers, RespondDuplicate(w) \/ UpdateRaises(w)
      PROVE  Rest'
  BY <1>1, <1>3 DEF RespondDuplicate, UpdateRaises
<1>4. ASSUME NEW w \in Workers, BeginUpdate(w)
      PROVE  Rest'
  <2>1. PICK o \in DOMAIN orders, b \in UpdateWords :
          Turn(w, o, BrokerTransition(orders[o].status, BROKER_STATUS_MAP[b], 0, 1),
               IF BROKER_STATUS_MAP[b] = "FILLED" THEN "position" ELSE "end")
    BY <1>4 DEF BeginUpdate
  <2>2. BrokerTransition(orders[o].status, BROKER_STATUS_MAP[b], 0, 1).to # "CREATED"
    BY WordType DEF BrokerTransition
  <2>3. UNCHANGED <<memory, tables, outer>>
    BY <1>4 DEF BeginUpdate
  <2>4. /\ pc'[w] = "record" /\ then'[w] \in {"position", "end"} /\ OthersStay(w)
        /\ event'[w] = BrokerTransition(orders[o].status, BROKER_STATUS_MAP[b], 0, 1)
    BY <1>0, <2>1 DEF Turn, Goto, OthersStay, taken
  <2>5. PastCreated(w)' /\ ~Submits(w)'
    BY <2>2, <2>4 DEF PastCreated, Recorded, RowWrites, Submits
  <2> QED
    BY <2>3, <2>4, <2>5, MovesKeep
<1>5. ASSUME NEW w \in Workers, CreateOrder(w)
      PROVE  Rest'
  <2>1. /\ DOMAIN orders' = DOMAIN orders \cup {created + 1}
        /\ \A o \in DOMAIN orders : o # created + 1 => orders'[o] = orders[o]
    BY <1>5 DEF CreateOrder, Put
  <2>2. \A o \in DOMAIN orders \cup DOMAIN t_orders : o # created + 1
    BY DEF Inv, Types, TypeOK
  <2>3. /\ UNCHANGED <<t_orders, placed>> /\ OthersStay(w) /\ pc[w] = "create"
        /\ pc'[w] = "read_new" /\ order'[w] = created + 1 /\ then'[w] = then[w]
    BY <1>0, <1>5 DEF CreateOrder, Goto, OthersStay, tables, taken
  <2>4. StoresAgree'
    BY <2>1, <2>2, <2>3 DEF Inv, StoresAgree, RowsAgree, KeysUnique, PlacedAreRecords, BrokerOrdersInTable
  <2>5. ThreadsPastCreated'
    <3>1. PastCreated(w)'
      BY <2>3 DEF PastCreated, Recorded, RowWrites
    <3>2. \A o \in DOMAIN orders : orders[o].status # "CREATED" => orders'[o].status # "CREATED"
      BY <2>1, <2>2
    <3>3. \A v \in Workers \ {w} : Placeable(v)'
      BY <2>3 DEF Placeable, OthersStay, Inv, ThreadsPastCreated
    <3> QED
      BY <2>3, <3>1, <3>2, <3>3, ThreadsKept
  <2>6. \A v \in Workers \ {w} : Submits(v) => order[v] # created + 1
    <3> SUFFICES ASSUME NEW v \in Workers \ {w}, Submits(v)
                 PROVE  order[v] # created + 1
      OBVIOUS
    <3>1. v \in Workers /\ pc[v] \notin {"idle", "create"}
      BY DEF Submits, Inv, Submitters
    <3>2. order[v] \in DOMAIN orders
      BY <3>1 DEF Inv, Types, TypeOK
    <3> QED
      BY <2>2, <3>2
  <2>7. \A p \in placed : p.order # created + 1
    BY <2>2 DEF Inv, BrokerOrdersInTable
  <2>8. \A v \in Workers \ {w} : (Submits(v)' <=> Submits(v)) /\ order'[v] = order[v]
                                  /\ pc'[v] = pc[v] /\ then'[v] = then[v]
    BY <2>3 DEF OthersStay, Submits
  <2>9. /\ \A v, u \in Workers : Submits(v) /\ Submits(u) /\ order[v] = order[u] => v = u
        /\ \A v \in Workers : Submits(v) => \A p \in placed : p.order # order[v]
        /\ \A v \in Workers : pc[v] \in {"idle", "create"} => then[v] = "end"
        /\ \A v \in Workers : pc[v] = "place" => then[v] = "place"
    BY DEF Inv, Submitters
  <2>10. \A v, u \in Workers : Submits(v)' /\ Submits(u)' /\ order'[v] = order'[u] => v = u
    BY <2>3, <2>6, <2>8, <2>9
  <2>11. \A v \in Workers : Submits(v)' => \A p \in placed' : p.order # order'[v]
    BY <2>3, <2>7, <2>8, <2>9
  <2>12. \A v \in Workers : /\ pc'[v] \in {"idle", "create"} => then'[v] = "end"
                            /\ pc'[v] = "place" => then'[v] = "place"
    BY <2>3, <2>8, <2>9
  <2> QED
    BY <2>4, <2>5, <2>10, <2>11, <2>12 DEF Rest, Submitters
<1>6. ASSUME NEW w \in Workers, RejectRisk(w) \/ WriteRaises(w)
      PROVE  Rest'
  BY <1>6, FinishKeeps DEF RejectRisk, WriteRaises
<1>7. ASSUME NEW w \in Workers, SaveNewOrder(w)
      PROVE  Rest'
  <2>1. /\ pc[w] = "save_new" /\ pc'[w] = "record" /\ event'[w].to # "CREATED"
        /\ OthersStay(w) /\ order'[w] = order[w]
    BY <1>0, <1>7 DEF SaveNewOrder, Turn, Goto, Transition, OthersStay, taken
  <2>2. PastCreated(w)' /\ Submits(w)
    BY <2>1 DEF PastCreated, Recorded, RowWrites, Submits
  <2>3. Write(w) /\ UNCHANGED <<orders, placed>>
    BY <1>7 DEF SaveNewOrder, Write
  <2> QED
    BY <2>1, <2>2, <2>3, MovesKeep
<1>8. ASSUME NEW w \in Workers, Place(w)
      PROVE  Rest'
  <2>1. PICK t \in {"ACKNOWLEDGED", "REJECTED", "ERROR"} :
          Turn(w, order[w], Transition("SUBMITTED", t), "end")
    BY <1>8 DEF Place
  <2>2. UNCHANGED <<memory, tables>> /\ pc[w] = "place"
        /\ (Hold(order[w]) \/ UNCHANGED placed)
    BY <1>8 DEF Place
  <2>3. pc'[w] = "record" /\ then'[w] = "end" /\ event'[w].to # "CREATED" /\ OthersStay(w)
    BY <1>0, <2>1 DEF Turn, Goto, Transition, OthersStay, taken
  <2>4. Submits(w) /\ ~Submits(w)'
    BY <2>2, <2>3 DEF Submits, Inv, Submitters
  <2>5. order[w] \in DOMAIN orders /\ order[w] \in DOMAIN t_orders
        /\ t_orders[order[w]].status # "CREATED"
        /\ t_orders[order[w]].key = orders[order[w]].key
    BY <2>2 DEF Inv, Types, TypeOK, ThreadsPastCreated, RowsAgree
  <2>6. StoresAgree'
    <3>1. RowsAgree' /\ KeysUnique'
      BY <2>2 DEF Inv, RowsAgree, KeysUnique, tables
    <3>2. PlacedAreRecords' /\ BrokerOrdersInTable'
      BY <2>2, <2>5 DEF Hold, Inv, PlacedAreRecords, BrokerOrdersInTable, tables
    <3> QED
      BY <3>1, <3>2 DEF StoresAgree
  <2>7. ThreadsPastCreated'
    <3>1. PastCreated(w)'
      BY <2>3 DEF PastCreated, Recorded, RowWrites
    <3>2. \A v \in Workers \ {w} : Placeable(v)'
      BY <2>2, <2>3 DEF Placeable, OthersStay, Inv, ThreadsPastCreated, tables
    <3> QED
      BY <2>2, <2>3, <3>1, <3>2, ThreadsKept
  <2>8. \A p \in placed' : p \in placed \/ (Submits(w) /\ p.order = order[w] /\ ~Submits(w)')
    BY <2>2, <2>4 DEF Hold
  <2>9. Submitters'
    BY <2>3, <2>4, <2>8, SubmittersKept
  <2> QED
    BY <2>6, <2>7, <2>9 DEF Rest
<1>9. ASSUME NEW w \in Workers, Record(w)
      PROVE  Rest'
  <2> DEFINE o == order[w]
  <2>1. o \in DOMAIN orders /\ orders[o] \in StoredOrder /\ event[w] \in OrderEvent
        /\ event[w].to # "CREATED" /\ pc[w] = "record"
    BY <1>9 DEF Record, Inv, Types, TypeOK, ThreadsPastCreated
  <2>2. orders' = [orders EXCEPT ![o] = WithEvent(orders[o], event[w])]
        /\ pc'[w] = "read_event" /\ OthersStay(w)
        /\ UNCHANGED <<tables, placed, order, event, then>>
    BY <1>0, <1>9 DEF Record, Goto, OthersStay, taken
  <2>3. /\ DOMAIN orders' = DOMAIN orders
        /\ orders'[o].key = orders[o].key /\ orders'[o].status # "CREATED"
        /\ \A p \in DOMAIN orders \ {o} : orders'[p] = orders[p]
    BY <2>1, <2>2, RecordType DEF Inv, Types, TypeOK
  <2>4. StoresAgree'
    BY <2>2, <2>3 DEF Inv, StoresAgree, RowsAgree, KeysUnique, PlacedAreRecords,
       BrokerOrdersInTable, tables
  <2>5. ThreadsPastCreated'
    <3>1. PastCreated(w)'
      BY <2>2, <2>3 DEF PastCreated, Recorded, RowWrites
    <3>2. \A v \in Workers \ {w} : Placeable(v)'
      BY <2>2 DEF Placeable, OthersStay, Inv, ThreadsPastCreated, tables
    <3>3. \A p \in DOMAIN orders : orders[p].status # "CREATED" => orders'[p].status # "CREATED"
      BY <2>3
    <3> QED
      BY <2>2, <3>1, <3>2, <3>3, ThreadsKept
  <2>6. Submitters'
    <3>1. Submits(w)' => Submits(w) /\ order'[w] = order[w]
      BY <2>2 DEF Submits
    <3> QED
      BY <2>2, <3>1, SubmittersKept
  <2> QED
    BY <2>4, <2>5, <2>6 DEF Rest
<1>10. ASSUME NEW w \in Workers, ReadEvent(w) \/ SaveEvent(w)
       PROVE  Rest'
  <2>1. /\ pc[w] \in {"read_event", "save_event"} /\ pc'[w] \in {"save_event", "read_order"}
        /\ order'[w] = order[w] /\ then'[w] = then[w] /\ OthersStay(w)
        /\ UNCHANGED <<orders, placed>>
    BY <1>0, <1>10 DEF ReadEvent, SaveEvent, Goto, OthersStay, taken
  <2>2. PastCreated(w)'
    BY <2>1 DEF PastCreated, Recorded, RowWrites, Inv, ThreadsPastCreated
  <2>3. Submits(w)' => Submits(w)
    BY <2>1 DEF Submits
  <2>4. Write(w) \/ UNCHANGED tables
    BY <1>10 DEF ReadEvent, SaveEvent, Write
  <2> QED
    BY <2>1, <2>2, <2>3, <2>4, MovesKeep
<1>11. ASSUME NEW w \in Workers, ReadOrder(w)
       PROVE  Rest'
  <2>1. /\ \/ pc[w] = "read_new" /\ pc'[w] = "save_new"
           \/ pc[w] = "read_order" /\ pc'[w] = "save_order"
        /\ order'[w] = order[w] /\ then'[w] = then[w] /\ OthersStay(w)
        /\ row'[w].status = orders[order[w]].status
        /\ UNCHANGED <<orders, placed, tables>>
    BY <1>0, <1>11 DEF ReadOrder, Goto, OthersStay
  <2>2. PastCreated(w)'
    BY <2>1 DEF PastCreated, Recorded, RowWrites, Inv, ThreadsPastCreated
  <2>3. Submits(w)' => Submits(w)
    BY <2>1 DEF Submits
  <2> QED
    BY <2>1, <2>2, <2>3, MovesKeep
<1>12. ASSUME NEW w \in Workers, SaveOrder(w)
       PROVE  Rest'
  <2>1. pc[w] = "save_order" /\ StoreOrder(w) /\ Write(w) /\ UNCHANGED <<orders, placed>>
    BY <1>12 DEF SaveOrder, Write
  <2>2. CASE then[w] = "end"
    BY <1>12, <2>1, <2>2, FinishKeeps DEF SaveOrder
  <2>3. CASE then[w] # "end"
    <3>1. /\ pc'[w] = then[w] /\ then[w] \in {"place", "position"} /\ then'[w] = then[w]
          /\ order'[w] = order[w] /\ OthersStay(w)
      BY <1>0, <1>12, <2>3 DEF SaveOrder, Goto, OthersStay, taken
    <3>2. row[w].status # "CREATED" /\ orders[order[w]].status # "CREATED"
      BY <2>1 DEF Inv, ThreadsPastCreated, Recorded
    <3>3. order[w] \in DOMAIN t_orders' /\ t_orders'[order[w]].status # "CREATED"
      BY <2>1, <3>2, SavedRow DEF RowWrites
    <3>4. PastCreated(w)'
      BY <2>1, <3>1, <3>2, <3>3 DEF PastCreated, Recorded, RowWrites
    <3>5. Submits(w)' => Submits(w)
      BY <3>1 DEF Submits
    <3> QED
      BY <2>1, <3>1, <3>4, <3>5, MovesKeep
  <2> QED
    BY <2>2, <2>3
<1>13. ASSUME NEW w \in Workers,
              \/ BookPosition(w) \/ ReadPosition(w) \/ SavePosition(w) \/ ClearLots(w)
              \/ SaveLot(w) \/ MatchTrades(w) \/ AssignLots(w) \/ ExtendTrades(w) \/ SaveTrade(w)
       PROVE  Rest'
  <2>1. UNCHANGED <<orders, placed>> /\ (Write(w) \/ UNCHANGED tables)
    BY <1>13 DEF BookPosition, ReadPosition, SavePosition, ClearLots, SaveLot, WithLots,
       MatchTrades, AssignLots, ExtendTrades, SaveTrade, Write
  <2>2. \/ Finish(w)
        \/ /\ UNCHANGED <<order, event, then, row>>
           /\ \/ pc' = pc
              \/ \E step \in Books : Goto(w, step)
    BY <1>13 DEF BookPosition, ReadPosition, SavePosition, ClearLots, SaveLot, WithLots,
       MatchTrades, AssignLots, ExtendTrades, SaveTrade, Books, taken
  <2>3. ASSUME UNCHANGED <<order, event, then, row, pc>>
        PROVE  Rest'
    <3>1. OthersStay(w) /\ pc'[w] = pc[w] /\ then'[w] = then[w] /\ order'[w] = order[w]
      BY <2>3 DEF OthersStay
    <3>2. pc[w] \in Books
      BY <1>13, <2>3, <1>0 DEF BookPosition, ReadPosition, SavePosition, ClearLots, SaveLot, WithLots,
       MatchTrades, AssignLots, ExtendTrades, SaveTrade, Books, Goto
    <3>3. PastCreated(w)'
      BY <3>1, <3>2 DEF PastCreated, Recorded, RowWrites, Books
    <3>4. Submits(w)' => Submits(w)
      BY <3>1 DEF Submits
    <3> QED
      BY <2>1, <3>1, <3>2, <3>3, <3>4, MovesKeep DEF Books
  <2>4. ASSUME UNCHANGED <<order, event, then, row>>, NEW step \in Books, Goto(w, step)
        PROVE  Rest'
    <3>1. OthersStay(w) /\ pc'[w] = step /\ then'[w] = then[w] /\ order'[w] = order[w]
      BY <1>0, <2>4 DEF OthersStay, Goto
    <3>2. PastCreated(w)'
      BY <3>1 DEF PastCreated, Recorded, RowWrites, Books
    <3>3. Submits(w)' => Submits(w)
      BY <3>1 DEF Submits, Books
    <3> QED
      BY <2>1, <3>1, <3>2, <3>3, MovesKeep DEF Books
  <2> QED
    BY <2>1, <2>2, <2>3, <2>4, FinishKeeps
<1>14. CASE Restart
  <2>1. /\ DOMAIN orders' = {} /\ UNCHANGED <<t_orders, placed>>
        /\ \A w \in Workers : pc'[w] = "idle" /\ then'[w] = "end"
    BY <1>14 DEF Restart, Each, Nothing, tables
  <2>2. StoresAgree' /\ ThreadsPastCreated'
    BY <2>1 DEF Inv, StoresAgree, RowsAgree, KeysUnique, ThreadsPastCreated,
       PlacedAreRecords, BrokerOrdersInTable, Recorded, RowWrites
  <2>3. Submitters'
    BY <2>1 DEF Submitters, Submits
  <2> QED
    BY <2>2, <2>3 DEF Rest
<1> QED
  BY <1>1, <1>2, <1>3, <1>4, <1>5, <1>6, <1>7, <1>8, <1>9, <1>10, <1>11, <1>12,
     <1>13, <1>14 DEF Next, Begin, Continue

----------------------------------------------------------------------------
LEMMA InvKept == Inv /\ [Next]_vars => Inv'
BY TypesKept, RestKept DEF Inv, Rest, StoresAgree

\* The invariant holds in every reachable state.
THEOREM PersistedInvariance == Spec => []Inv
BY InvInit, InvKept, PTL DEF Spec
\* Memory, tables and threads have their types.
THEOREM PersistedTypes == Spec => []TypeOK
<1>1. Inv => TypeOK
  BY DEF Inv, Types
<1> QED
  BY <1>1, PersistedInvariance, PTL

\* An order the broker holds is in the table, with its key and past CREATED.
THEOREM OrdersReconcile == Spec => []BrokerOrdersInTable
<1>1. Inv => BrokerOrdersInTable
  BY DEF Inv
<1> QED
  BY <1>1, PersistedInvariance, PTL

\* At most one order of an idempotency key ever reaches the broker.
THEOREM OneOrderPerKey == Spec => []OneBrokerOrderPerKey
<1>1. Inv => OneBrokerOrderPerKey
  <2> SUFFICES ASSUME Inv, NEW p \in placed, NEW q \in placed,
                      p.key = q.key, p.key # NoKey
               PROVE  p = q
    BY DEF OneBrokerOrderPerKey
  <2>1. /\ p.order \in DOMAIN t_orders /\ t_orders[p.order].key = p.key
        /\ q.order \in DOMAIN t_orders /\ t_orders[q.order].key = q.key
    BY DEF Inv, BrokerOrdersInTable
  <2>2. p.order = q.order
    BY <2>1 DEF Inv, KeysUnique
  <2> QED
    BY <2>2 DEF Inv, PlacedAreRecords
<1> QED
  BY <1>1, PersistedInvariance, PTL
----------------------------------------------------------------------------
\* Two steps change the orders in memory.
LEMMA OrdersChange ==
  ASSUME NEW w \in Workers, Begin(w) \/ Continue(w)
  PROVE  UNCHANGED orders \/ CreateOrder(w) \/ Record(w)
<1> USE DEF memory
<1>1. CASE Begin(w) \/ RejectRisk(w) \/ SaveNewOrder(w) \/ Place(w)
  BY <1>1 DEF Begin, BeginSubmit, RespondDuplicate, BeginUpdate, UpdateRaises, RejectRisk,
     SaveNewOrder, Place, vars
<1>2. CASE \/ ReadEvent(w) \/ SaveEvent(w) \/ ReadOrder(w) \/ SaveOrder(w) \/ WriteRaises(w)
  BY <1>2 DEF ReadEvent, SaveEvent, ReadOrder, SaveOrder, WriteRaises
<1>3. CASE BookPosition(w) \/ ReadPosition(w) \/ SavePosition(w) \/ ClearLots(w) \/ SaveLot(w)
  BY <1>3 DEF BookPosition, ReadPosition, SavePosition, ClearLots, SaveLot, WithLots
<1>4. CASE MatchTrades(w) \/ AssignLots(w) \/ ExtendTrades(w) \/ SaveTrade(w)
  BY <1>4 DEF MatchTrades, AssignLots, ExtendTrades, SaveTrade
<1> QED
  BY <1>1, <1>2, <1>3, <1>4 DEF Continue

\* A step of a thread leaves the other threads, and other orders, alone.
LEMMA ThreadSteps ==
  ASSUME Inv, NEW w \in Workers, Begin(w) \/ Continue(w)
  PROVE  /\ OthersStay(w)
         /\ DOMAIN orders \subseteq DOMAIN orders'
         /\ \A o \in DOMAIN orders \ {order[w]} : orders'[o] = orders[o]
<1> USE DEF memory, outer
<1>0. /\ pc \in [Workers -> Steps] /\ order \in [Workers -> Nat] /\ event \in [Workers -> OrderEvent]
      /\ then \in [Workers -> {"place", "position", "end"}]
      /\ row \in [Workers -> [key: Keys \cup {NoKey}, status: OrderStatus]]
  BY DEF Inv, Types, TypeOK
<1>1. OthersStay(w)
  <2>1. CASE BeginSubmit(w) \/ RespondDuplicate(w) \/ BeginUpdate(w) \/ UpdateRaises(w)
    BY <1>0, <2>1 DEF BeginSubmit, RespondDuplicate, BeginUpdate, UpdateRaises, Turn, Goto, OthersStay,
       vars, locals, taken
  <2>2. CASE \/ CreateOrder(w) \/ RejectRisk(w) \/ SaveNewOrder(w) \/ Place(w)
             \/ Record(w) \/ ReadEvent(w) \/ SaveEvent(w) \/ ReadOrder(w)
    BY <1>0, <2>2 DEF CreateOrder, RejectRisk, SaveNewOrder, Place, Record, ReadEvent, SaveEvent,
       ReadOrder, Finish, Turn, Goto, OthersStay, taken
  <2>3. CASE SaveOrder(w) \/ WriteRaises(w) \/ ExtendTrades(w) \/ SaveTrade(w)
    BY <1>0, <2>3 DEF SaveOrder, WriteRaises, ExtendTrades, SaveTrade, Finish, Goto, OthersStay, taken
  <2>4. CASE \/ BookPosition(w) \/ ReadPosition(w) \/ SavePosition(w) \/ ClearLots(w)
             \/ SaveLot(w) \/ MatchTrades(w) \/ AssignLots(w)
    BY <1>0, <2>4 DEF BookPosition, ReadPosition, SavePosition, ClearLots, SaveLot, WithLots, MatchTrades,
       AssignLots, Goto, OthersStay, taken
  <2> QED
    BY <2>1, <2>2, <2>3, <2>4 DEF Begin, Continue
<1>2. CASE UNCHANGED orders
  BY <1>1, <1>2
<1>3. CASE CreateOrder(w)
  <2>1. PICK new : orders' = Put(orders, created + 1, new)
    BY <1>3 DEF CreateOrder
  <2>2. created + 1 \notin DOMAIN orders
    BY DEF Inv, Types, TypeOK
  <2> QED
    BY <1>1, <2>1, <2>2 DEF Put
<1>4. CASE Record(w)
  BY <1>1, <1>4 DEF Record
<1> QED
  BY <1>2, <1>3, <1>4, OrdersChange

(***************************************************************************)
(* The table of events, for clients whose requests about an order come one *)
(* at a time.  An order has one thread at most, so the table differs from  *)
(* memory only by what that thread has recorded and not yet written, and   *)
(* what it has read of memory is still so.                                 *)
(***************************************************************************)
NewSaves == {"read_new", "save_new"}
EventSaves == {"read_event", "save_event"}
RowSaves == NewSaves \cup EventSaves \cup {"read_order", "save_order"}

Exclusive == \A v, w \in Workers : order[v] = order[w] /\ order[v] # 0 => v = w

StatusIsLast ==
  \A o \in DOMAIN orders :
    LET h == orders[o].history
    IN  orders[o].status = IF h = <<>> THEN "CREATED" ELSE h[Len(h)].to

ReadsCurrent ==
  \A w \in Workers :
    /\ pc[w] = "save_event" => event[w] = latest(order[w])
    /\ pc[w] \in RowWrites => row[w].status = orders[order[w]].status

AtStep(o, steps) == \E w \in Workers : order[w] = o /\ pc[w] \in steps

Follows(o) ==
  LET h == orders[o].history IN
  /\ HistoryShown(o) = IF AtStep(o, EventSaves) THEN SubSeq(h, 1, Len(h) - 1) ELSE h
  /\ o \in DOMAIN t_orders =>
       t_orders[o].status \in {"CREATED"} \cup {h[i].to : i \in DOMAIN h}
  /\ ~AtStep(o, NewSaves) => o \in DOMAIN t_orders
  /\ ~AtStep(o, RowSaves) => t_orders[o].status = orders[o].status

RowIfAny(o) == {t_orders[p] : p \in DOMAIN t_orders \cap {o}}

TablesFollow == \A o \in DOMAIN orders \ cut : Follows(o)

RowsOfMemory ==
  restarts \in Nat /\ (restarts = 0 => DOMAIN t_orders \subseteq DOMAIN orders)

SerialInv ==
  Inv /\ Exclusive /\ StatusIsLast /\ ReadsCurrent /\ TablesFollow /\ RowsOfMemory

LEMMA SerialInit == Init => SerialInv
<1> SUFFICES ASSUME Init PROVE SerialInv
  OBVIOUS
<1>1. DOMAIN orders = {} /\ DOMAIN t_orders = {} /\ restarts = 0
      /\ \A w \in Workers : order[w] = 0 /\ pc[w] = "idle"
  BY DEF Init, Nothing, Each
<1> QED
  BY <1>1, InvInit DEF SerialInv, Exclusive, StatusIsLast, ReadsCurrent, TablesFollow,
     RowsOfMemory, RowWrites

\* What a step of one thread leaves of its stand at other orders.
LEMMA OtherOrderStays ==
  ASSUME NEW w \in Workers, order \in [Workers -> Nat], order' \in [Workers -> Nat],
         OthersStay(w),
         NEW o \in DOMAIN orders, o # order[w], o # order'[w], Follows(o),
         UNCHANGED <<orders[o], HistoryShown(o), RowIfAny(o)>>
  PROVE  Follows(o)'
<1>1. \A X : AtStep(o, X)' <=> AtStep(o, X)
  BY DEF AtStep, OthersStay
<1>2. o \in DOMAIN t_orders <=> o \in DOMAIN t_orders'
  BY DEF RowIfAny
<1>3. o \in DOMAIN t_orders => t_orders'[o] = t_orders[o]
  BY <1>2 DEF RowIfAny
<1>4. AtStep(o, NewSaves) => AtStep(o, RowSaves)
  BY DEF AtStep, RowSaves
<1> QED
  BY <1>1, <1>2, <1>3, <1>4 DEF Follows

\* A sequence is what comes before its last element, and that element.
LEMMA LastOfSeq ==
  ASSUME NEW S, NEW h \in Seq(S), h # <<>>
  PROVE  /\ Append(SubSeq(h, 1, Len(h) - 1), h[Len(h)]) = h
         /\ Len(h) \in Nat \ {0} /\ Len(h) \in DOMAIN h
         /\ SubSeq(h, 1, Len(h) - 1) \in Seq(S)
OBVIOUS

LEMMA BeforeAppend ==
  ASSUME NEW S, NEW h \in Seq(S), NEW e \in S
  PROVE  LET a == Append(h, e)
         IN  /\ a \in Seq(S) /\ a # <<>> /\ Len(a) = Len(h) + 1 /\ a[Len(a)] = e
             /\ SubSeq(a, 1, Len(a) - 1) = h
             /\ {h[i].to : i \in DOMAIN h} \subseteq {a[i].to : i \in DOMAIN a}
             /\ e.to \in {a[i].to : i \in DOMAIN a}
OBVIOUS

\* A step that writes none of an order, of a thread that has none of it to write
\* before and after, or the same.
LEMMA NoSaveStep ==
  ASSUME SerialInv, NEW w \in Workers, OthersStay(w),
         \/ pc[w] \notin RowSaves /\ pc'[w] \notin RowSaves
         \/ /\ order'[w] = order[w]
            /\ pc[w] \in NewSaves <=> pc'[w] \in NewSaves
            /\ pc[w] \in EventSaves <=> pc'[w] \in EventSaves
            /\ pc[w] \in RowSaves <=> pc'[w] \in RowSaves,
         UNCHANGED <<orders, t_orders, t_events>>, cut \subseteq cut'
  PROVE  TablesFollow'
<1>1. ASSUME NEW o, NEW X, X \subseteq RowSaves,
             pc[w] \in X <=> pc'[w] \in X, pc[w] \in X => order'[w] = order[w]
      PROVE  AtStep(o, X)' <=> AtStep(o, X)
  BY <1>1 DEF AtStep, OthersStay
<1>2. ASSUME NEW o
      PROVE  /\ AtStep(o, EventSaves)' <=> AtStep(o, EventSaves)
             /\ AtStep(o, NewSaves)' <=> AtStep(o, NewSaves)
             /\ AtStep(o, RowSaves)' <=> AtStep(o, RowSaves)
  <2>1. EventSaves \subseteq RowSaves /\ NewSaves \subseteq RowSaves
    BY DEF RowSaves
  <2> QED
    BY <1>1, <2>1
<1> QED
  BY <1>2 DEF SerialInv, TablesFollow, Follows, HistoryShown

\* A step of a thread with an order it keeps or lets go: the other orders stay.
LEMMA OtherOrders ==
  ASSUME SerialInv, Types', NEW w \in Workers, NEW own, own = order[w],
         OthersStay(w), order'[w] \in {0, own},
         \A o \in DOMAIN orders \ {own} :
           UNCHANGED <<orders[o], HistoryShown(o), RowIfAny(o)>>,
         DOMAIN orders' = DOMAIN orders, cut \subseteq cut',
         own \notin cut' => Follows(own)'
  PROVE  TablesFollow'
<1>1. order \in [Workers -> Nat] /\ order' \in [Workers -> Nat] /\ 0 \notin DOMAIN orders
  BY DEF SerialInv, Inv, Types, TypeOK
<1>2. ASSUME NEW o \in DOMAIN orders \ cut, o # own
      PROVE  Follows(o)'
  <2>1. Follows(o) /\ o # order'[w]
    BY <1>1, <1>2 DEF SerialInv, TablesFollow
  <2> QED
    BY <1>1, <1>2, <2>1, OtherOrderStays
<1> QED
  BY <1>2 DEF TablesFollow

\* What a thread writes concerns the rows and events of its own order only.
LEMMA WritesOwn ==
  ASSUME SerialInv, NEW w \in Workers, Write(w) \/ UNCHANGED tables,
         NEW o, o # order[w]
  PROVE  UNCHANGED <<HistoryShown(o), RowIfAny(o)>>
<1>1. CASE UNCHANGED <<t_orders, t_events>>
  BY <1>1 DEF HistoryShown, RowIfAny
<1>2. CASE StoreOrder(w)
  BY <1>2 DEF StoreOrder, Put, HistoryShown, RowIfAny
<1>3. CASE StoreEvent(w)
  BY <1>3 DEF StoreEvent, Put, HistoryShown, RowIfAny
<1> QED
  BY <1>1, <1>2, <1>3 DEF Write, StorePosition, DeleteLots, InsertLot, InsertTrade, tables

LEMMA ExclusiveKept ==
  ASSUME Serial, SerialInv, Types', [Next]_vars
  PROVE  Exclusive'
<1> USE DEF memory, outer
<1>1. CASE UNCHANGED vars
  BY <1>1 DEF vars, locals, SerialInv, Exclusive
<1>2. order \in [Workers -> Nat] /\ \A w \in Workers : order[w] # created + 1
  <2>1. order \in [Workers -> Nat] /\ created \in Nat /\ DOMAIN orders \subseteq 1..created
    BY DEF SerialInv, Inv, Types, TypeOK
  <2>2. \A w \in Workers : order[w] = 0 \/ order[w] \in DOMAIN orders
    BY DEF SerialInv, Inv, Types, TypeOK
  <2> QED
    BY <2>1, <2>2
<1>3. ASSUME NEW w \in Workers,
             \/ UNCHANGED order
             \/ order' = [order EXCEPT ![w] = 0]
             \/ order' = [order EXCEPT ![w] = created + 1]
             \/ \E o : (\A v \in Workers : order[v] # o) /\ order' = [order EXCEPT ![w] = o]
             \/ order' = [order EXCEPT ![w] = order[w]]
      PROVE  Exclusive'
  BY <1>2, <1>3 DEF SerialInv, Exclusive
<1>4. ASSUME NEW w \in Workers, BeginUpdate(w)
      PROVE  Exclusive'
  <2>1. PICK o \in DOMAIN orders : Available(o) /\ order' = [order EXCEPT ![w] = o]
    BY <1>4 DEF BeginUpdate, Turn
  <2> QED
    BY <1>3, <2>1 DEF Available
<1>5. ASSUME NEW w \in Workers, CreateOrder(w)
      PROVE  Exclusive'
  BY <1>3, <1>5 DEF CreateOrder
<1>6. ASSUME NEW w \in Workers,
             \/ BeginSubmit(w) \/ Record(w) \/ ReadEvent(w) \/ SaveEvent(w) \/ ReadOrder(w)
             \/ BookPosition(w) \/ ReadPosition(w) \/ SavePosition(w) \/ ClearLots(w)
             \/ SaveLot(w) \/ MatchTrades(w) \/ AssignLots(w)
             \/ RespondDuplicate(w) \/ UpdateRaises(w)
      PROVE  Exclusive'
  <2>1. UNCHANGED order
    BY <1>6 DEF BeginSubmit, Record, ReadEvent, SaveEvent, ReadOrder, BookPosition, ReadPosition,
       SavePosition, ClearLots, SaveLot, WithLots, MatchTrades, AssignLots,
       RespondDuplicate, UpdateRaises, vars, locals
  <2> QED
    BY <1>3, <2>1
<1>7. ASSUME NEW w \in Workers,
             \/ RejectRisk(w) \/ SaveNewOrder(w) \/ Place(w) \/ SaveOrder(w)
             \/ WriteRaises(w) \/ ExtendTrades(w) \/ SaveTrade(w)
      PROVE  Exclusive'
  <2>1. \/ UNCHANGED order
        \/ order' = [order EXCEPT ![w] = 0]
        \/ order' = [order EXCEPT ![w] = order[w]]
    BY <1>7 DEF RejectRisk, SaveNewOrder, Place, SaveOrder, WriteRaises, ExtendTrades,
       SaveTrade, Finish, Turn
  <2> QED
    BY <1>3, <2>1
<1>8. CASE Restart
  BY <1>8 DEF Restart, Each, Exclusive
<1> QED
  BY <1>1, <1>4, <1>5, <1>6, <1>7, <1>8 DEF Next, Begin, Continue

LEMMA StatusIsLastKept ==
  ASSUME SerialInv, [Next]_vars
  PROVE  StatusIsLast'
<1> USE DEF memory, outer
<1>1. CASE UNCHANGED orders
  BY <1>1 DEF SerialInv, StatusIsLast
<1>2. ASSUME NEW w \in Workers, CreateOrder(w)
      PROVE  StatusIsLast'
  <2>1. PICK r : orders' = Put(orders, created + 1,
                   [symbol |-> r.symbol, side |-> r.side, quantity |-> r.quantity,
                    key |-> r.key, status |-> "CREATED", history |-> <<>>])
    BY <1>2 DEF CreateOrder
  <2> QED
    BY <2>1 DEF Put, SerialInv, StatusIsLast
<1>3. ASSUME NEW w \in Workers, Record(w)
      PROVE  StatusIsLast'
  <2> DEFINE h == orders[order[w]].history
             a == Append(h, event[w])
  <2>1. orders' = [orders EXCEPT ![order[w]] = WithEvent(orders[order[w]], event[w])]
    BY <1>3 DEF Record
  <2>2. order[w] \in DOMAIN orders /\ h \in Seq(OrderEvent) /\ event[w] \in OrderEvent
        /\ orders[order[w]] \in StoredOrder
    BY <1>3 DEF Record, SerialInv, Inv, Types, TypeOK, StoredOrder
  <2>3. a # <<>> /\ a[Len(a)] = event[w]
    BY <2>2, BeforeAppend
  <2>4. orders'[order[w]].status = event[w].to /\ orders'[order[w]].history = a
    BY <2>1, <2>2 DEF WithEvent, StoredOrder
  <2> QED
    BY <2>1, <2>3, <2>4 DEF SerialInv, StatusIsLast
<1>4. CASE Restart
  BY <1>4 DEF Restart, Nothing, StatusIsLast
<1>5. ASSUME NEW w \in Workers, Begin(w) \/ Continue(w)
      PROVE  StatusIsLast'
  BY <1>1, <1>2, <1>3, <1>5, OrdersChange
<1> QED
  BY <1>1, <1>4, <1>5 DEF Next, vars

LEMMA ReadsCurrentKept ==
  ASSUME SerialInv, [Next]_vars
  PROVE  ReadsCurrent'
<1> USE DEF memory, outer
<1>0. /\ pc \in [Workers -> Steps] /\ order \in [Workers -> Nat] /\ event \in [Workers -> OrderEvent]
      /\ then \in [Workers -> {"place", "position", "end"}] /\ DOMAIN row = Workers
  BY DEF SerialInv, Inv, Types, TypeOK
<1>1. CASE UNCHANGED vars
  BY <1>1 DEF vars, locals, taken, SerialInv, ReadsCurrent, latest
<1>2. CASE Restart
  BY <1>2 DEF Restart, Each, ReadsCurrent, RowWrites
<1>3. ASSUME NEW w \in Workers, Begin(w) \/ Continue(w)
      PROVE  ReadsCurrent'
  <2>1. /\ OthersStay(w) /\ DOMAIN orders \subseteq DOMAIN orders'
        /\ \A o \in DOMAIN orders \ {order[w]} : orders'[o] = orders[o]
    BY <1>3, ThreadSteps DEF SerialInv
  <2>2. ASSUME NEW v \in Workers, v # w
        PROVE  /\ pc'[v] = "save_event" => event'[v] = latest(order[v])'
               /\ pc'[v] \in RowWrites => row'[v].status = orders'[order'[v]].status
    <3>1. pc'[v] = pc[v] /\ order'[v] = order[v] /\ event'[v] = event[v] /\ row'[v] = row[v]
      BY <2>1, <2>2 DEF OthersStay
    <3>2. pc[v] \in {"save_event"} \cup RowWrites => order[v] \in DOMAIN orders \ {order[w]}
      <4>1. pc[v] \in {"save_event"} \cup RowWrites => order[v] \in DOMAIN orders
        BY DEF SerialInv, Inv, Types, TypeOK, RowWrites
      <4>2. 0 \notin DOMAIN orders
        BY DEF SerialInv, Inv, Types, TypeOK
      <4> QED
        BY <2>2, <4>1, <4>2 DEF SerialInv, Exclusive
    <3> QED
      BY <2>1, <3>1, <3>2 DEF SerialInv, ReadsCurrent, latest
  <2>3. /\ pc'[w] = "save_event" => event'[w] = latest(order[w])'
        /\ pc'[w] \in RowWrites => row'[w].status = orders'[order'[w]].status
    <3>1. CASE ReadEvent(w)
      BY <1>0, <3>1 DEF ReadEvent, Goto, latest, RowWrites
    <3>2. CASE ReadOrder(w)
      BY <1>0, <3>2 DEF ReadOrder, Goto
    <3>3. ASSUME pc'[w] \notin {"save_event"} \cup RowWrites
          PROVE  /\ pc'[w] = "save_event" => event'[w] = latest(order[w])'
                 /\ pc'[w] \in RowWrites => row'[w].status = orders'[order'[w]].status
      BY <3>3
    <3>4. CASE UNCHANGED vars
      BY <3>4 DEF vars, locals, taken, SerialInv, ReadsCurrent, latest
    <3>5. CASE BeginSubmit(w) \/ BeginUpdate(w)
      BY <1>0, <3>3, <3>5 DEF BeginSubmit, BeginUpdate, Turn, Goto, RowWrites
    <3>6. CASE \/ CreateOrder(w) \/ RejectRisk(w) \/ SaveNewOrder(w) \/ Place(w)
               \/ Record(w) \/ SaveEvent(w) \/ SaveOrder(w) \/ WriteRaises(w)
      BY <1>0, <3>3, <3>6 DEF CreateOrder, RejectRisk, SaveNewOrder, Place, Record, SaveEvent,
         SaveOrder, WriteRaises, Finish, Turn, Goto, RowWrites
    <3>7. CASE \/ BookPosition(w) \/ ReadPosition(w) \/ SavePosition(w) \/ ClearLots(w)
               \/ SaveLot(w) \/ MatchTrades(w) \/ AssignLots(w) \/ ExtendTrades(w) \/ SaveTrade(w)
      BY <1>0, <3>3, <3>7 DEF BookPosition, ReadPosition, SavePosition, ClearLots, SaveLot,
         WithLots, MatchTrades, AssignLots, ExtendTrades, SaveTrade, Finish, Goto, RowWrites
    <3> QED
      BY <1>3, <3>1, <3>2, <3>4, <3>5, <3>6, <3>7 DEF Begin, Continue, RespondDuplicate, UpdateRaises
  <2> QED
    BY <2>2, <2>3 DEF ReadsCurrent
<1> QED
  BY <1>1, <1>2, <1>3 DEF Next

LEMMA TablesFollowKept ==
  ASSUME Serial, SerialInv, Types', Exclusive', StatusIsLast', [Next]_vars
  PROVE  TablesFollow'
<1> USE DEF memory, outer
<1>1. CASE UNCHANGED vars
  BY <1>1 DEF vars, tables, locals, SerialInv, TablesFollow, Follows, AtStep, HistoryShown
<1>2. /\ pc \in [Workers -> Steps] /\ order \in [Workers -> Nat]
      /\ then \in [Workers -> {"place", "position", "end"}]
  BY DEF SerialInv, Inv, Types
<1>3. ASSUME NEW w \in Workers, Begin(w) \/ Continue(w)
      PROVE  OthersStay(w)
  BY <1>3, ThreadSteps DEF SerialInv
<1>4. ASSUME NEW w \in Workers,
             \/ BeginSubmit(w) \/ RejectRisk(w) \/ BeginUpdate(w) \/ Place(w)
             \/ ReadEvent(w) \/ ReadOrder(w)
      PROVE  TablesFollow'
  <2>1. UNCHANGED <<orders, t_orders, t_events, cut>>
    BY <1>4 DEF BeginSubmit, RejectRisk, BeginUpdate, Place, ReadEvent, ReadOrder, tables
  <2>2. \/ /\ pc[w] \in {"idle", "create", "place"} /\ pc'[w] \in {"idle", "create", "record"}
        \/ /\ order'[w] = order[w] /\ pc[w] = "read_event" /\ pc'[w] = "save_event"
        \/ /\ order'[w] = order[w] /\ pc[w] = "read_new" /\ pc'[w] = "save_new"
        \/ /\ order'[w] = order[w] /\ pc[w] = "read_order" /\ pc'[w] = "save_order"
    BY <1>2, <1>4 DEF BeginSubmit, RejectRisk, BeginUpdate, Place, ReadEvent, ReadOrder,
       Goto, Finish, Turn
  <2>3. OthersStay(w)
    BY <1>3, <1>4 DEF Begin, Continue
  <2>4. \/ pc[w] \notin RowSaves /\ pc'[w] \notin RowSaves
        \/ /\ order'[w] = order[w]
           /\ pc[w] \in NewSaves <=> pc'[w] \in NewSaves
           /\ pc[w] \in EventSaves <=> pc'[w] \in EventSaves
           /\ pc[w] \in RowSaves <=> pc'[w] \in RowSaves
    BY <2>2 DEF RowSaves, NewSaves, EventSaves
  <2> QED
    BY <2>1, <2>3, <2>4, NoSaveStep
<1>5. ASSUME NEW w \in Workers,
             \/ BookPosition(w) \/ ReadPosition(w) \/ SavePosition(w) \/ ClearLots(w)
             \/ SaveLot(w) \/ MatchTrades(w) \/ AssignLots(w) \/ ExtendTrades(w) \/ SaveTrade(w)
      PROVE  TablesFollow'
  <2>1. UNCHANGED <<orders, t_orders, t_events, cut>>
    BY <1>5 DEF BookPosition, ReadPosition, SavePosition, ClearLots, SaveLot, WithLots,
       MatchTrades, AssignLots, ExtendTrades, SaveTrade, tables, StorePosition, DeleteLots,
       InsertLot, InsertTrade
  <2>2. pc[w] \in Books \cup {"position"} /\ pc'[w] \in Books \cup {"idle"}
    BY <1>2, <1>5 DEF BookPosition, ReadPosition, SavePosition, ClearLots, SaveLot, WithLots,
       MatchTrades, AssignLots, ExtendTrades, SaveTrade, Finish, Goto, Books
  <2>3. OthersStay(w)
    BY <1>3, <1>5 DEF Begin, Continue
  <2>4. pc[w] \notin RowSaves /\ pc'[w] \notin RowSaves
    BY <2>2 DEF RowSaves, NewSaves, EventSaves, Books
  <2> QED
    BY <2>1, <2>3, <2>4, NoSaveStep
<1>6. ASSUME NEW w \in Workers, RespondDuplicate(w) \/ UpdateRaises(w)
      PROVE  TablesFollow'
  BY <1>1, <1>6 DEF RespondDuplicate, UpdateRaises
<1>7. ASSUME NEW w \in Workers, CreateOrder(w)
      PROVE  TablesFollow'
  <2>0. PICK new : new = created + 1
    OBVIOUS
  <2>1. new \notin DOMAIN orders /\ new \notin DOMAIN t_events /\ new \notin DOMAIN t_orders
        /\ order[w] = 0 /\ 0 \notin DOMAIN orders /\ new # 0
    BY <1>7, <2>0 DEF CreateOrder, SerialInv, Inv, Types, TypeOK
  <2>2. /\ pc' = [pc EXCEPT ![w] = "read_new"] /\ order' = [order EXCEPT ![w] = new]
        /\ UNCHANGED <<t_orders, t_events, cut>>
    BY <1>7, <2>0 DEF CreateOrder, Goto, tables
  <2>3. /\ DOMAIN orders' = DOMAIN orders \cup {new} /\ orders'[new].history = <<>>
        /\ \A o \in DOMAIN orders : orders'[o] = orders[o]
    BY <1>7, <2>0, <2>1 DEF CreateOrder, Put
  <2>4. OthersStay(w)
    BY <1>3, <1>7 DEF Continue
  <2>5. ASSUME NEW o \in DOMAIN orders \ cut
        PROVE  Follows(o)'
    <3>1. order \in [Workers -> Nat] /\ order' \in [Workers -> Nat]
          /\ o # order[w] /\ o # order'[w] /\ Follows(o)
      BY <1>2, <2>1, <2>2 DEF SerialInv, Types, TablesFollow
    <3>2. UNCHANGED <<orders[o], HistoryShown(o), RowIfAny(o)>>
      BY <2>2, <2>3 DEF HistoryShown, RowIfAny
    <3> QED
      BY <2>4, <3>1, <3>2, OtherOrderStays
  <2>6. Follows(new)'
    <3>1. order'[w] = new /\ pc'[w] = "read_new"
      BY <1>2, <2>2
    <3>2. \A X : AtStep(new, X)' <=> "read_new" \in X
      BY <2>1, <3>1 DEF AtStep, Exclusive
    <3>3. AtStep(new, NewSaves)' /\ ~AtStep(new, EventSaves)' /\ AtStep(new, RowSaves)'
      BY <3>2 DEF NewSaves, EventSaves, RowSaves
    <3> QED
      BY <2>1, <2>2, <2>3, <3>3 DEF Follows, HistoryShown
  <2> QED
    BY <2>2, <2>3, <2>5, <2>6 DEF TablesFollow
<1>8. ASSUME NEW w \in Workers, SaveNewOrder(w) \/ Record(w) \/ SaveEvent(w) \/ SaveOrder(w)
                                \/ WriteRaises(w)
      PROVE  TablesFollow'
  <2>1. PICK o : o = order[w]
    OBVIOUS
  <2>2. o \in DOMAIN orders /\ orders[o].history \in Seq(OrderEvent) /\ o # 0
        /\ orders[o] \in StoredOrder /\ event[w] \in OrderEvent
    <3>1. pc[w] \notin {"idle", "create"}
      BY <1>8 DEF SaveNewOrder, Record, SaveEvent, SaveOrder, WriteRaises, Saves
    <3>2. o \in DOMAIN orders /\ o # 0 /\ orders[o] \in StoredOrder /\ event[w] \in OrderEvent
      BY <2>1, <3>1 DEF SerialInv, Inv, Types, TypeOK
    <3> QED
      BY <3>2 DEF StoredOrder
  <2>3. OthersStay(w) /\ order'[w] \in {0, o} /\ cut \subseteq cut'
    <3>1. OthersStay(w)
      BY <1>3, <1>8 DEF Continue
    <3>2. order'[w] \in {0, o} /\ cut \subseteq cut'
      BY <1>2, <1>8, <2>1 DEF SaveNewOrder, Record, SaveEvent, SaveOrder, WriteRaises, Finish, Turn
    <3> QED
      BY <3>1, <3>2
  <2>4. \A X : AtStep(o, X) <=> pc[w] \in X
    BY <2>1, <2>2 DEF AtStep, SerialInv, Exclusive
  <2>5. \A X : AtStep(o, X)' <=> order'[w] = o /\ pc'[w] \in X
    BY <2>1, <2>2, <2>3 DEF AtStep, SerialInv, Exclusive, OthersStay
  <2>6. (Write(w) \/ UNCHANGED tables) /\ DOMAIN orders' = DOMAIN orders
        /\ \A p \in DOMAIN orders \ {o} : orders'[p] = orders[p]
    <3>1. Write(w) \/ UNCHANGED tables
      BY <1>8 DEF SaveNewOrder, Record, SaveEvent, SaveOrder, WriteRaises, Write
    <3>2. DOMAIN orders' = DOMAIN orders /\ \A p \in DOMAIN orders \ {o} : orders'[p] = orders[p]
      BY <1>8, <2>1 DEF SaveNewOrder, Record, SaveEvent, SaveOrder, WriteRaises
    <3> QED
      BY <3>1, <3>2
  <2>7. \A p \in DOMAIN orders \ {o} : UNCHANGED <<orders[p], HistoryShown(p), RowIfAny(p)>>
    BY <2>1, <2>6, WritesOwn
  <2>8. ASSUME Follows(o)' \/ o \in cut'
        PROVE  TablesFollow'
    BY <2>1, <2>3, <2>6, <2>7, <2>8, OtherOrders
  <2>9. CASE o \in cut'
    BY <2>8, <2>9
  <2>10. ASSUME o \notin cut'
         PROVE  Follows(o) /\ ~WriteRaises(w)
    <3>1. o \notin cut
      BY <2>3, <2>10
    <3> QED
      BY <2>1, <2>2, <2>10, <3>1 DEF SerialInv, TablesFollow, WriteRaises
  <2>11. ASSUME NEW h, h = orders[o].history
         PROVE  StatusIsLast => orders[o].status \in {"CREATED"} \cup {h[i].to : i \in DOMAIN h}
    BY <2>2, <2>11, LastOfSeq DEF StatusIsLast
  <2>12. orders[o].status \in
           {"CREATED"} \cup {orders[o].history[i].to : i \in DOMAIN orders[o].history}
    BY <2>11 DEF SerialInv
  <2>13. CASE o \notin cut' /\ (SaveNewOrder(w) \/ SaveOrder(w))
    <3>1. /\ UNCHANGED <<orders, t_events>> /\ t_orders' = Put(t_orders, o, row[w])
          /\ pc[w] \in {"save_new", "save_order"} /\ row[w].status = orders[o].status
          /\ order'[w] = o => pc'[w] \in {"record", "place", "position"}
      BY <1>2, <2>1, <2>2, <2>13 DEF SaveNewOrder, SaveOrder, StoreOrder, Turn, Goto, Finish,
         SerialInv, ReadsCurrent, RowWrites
    <3>2. o \in DOMAIN t_orders' /\ t_orders'[o].status = orders[o].status
      BY <3>1 DEF Put
    <3>3. /\ ~AtStep(o, EventSaves) /\ ~AtStep(o, EventSaves)' /\ ~AtStep(o, NewSaves)'
          /\ ~AtStep(o, RowSaves)'
      BY <2>4, <2>5, <3>1 DEF EventSaves, NewSaves, RowSaves
    <3>4. Follows(o)'
      BY <2>10, <2>12, <2>13, <3>1, <3>2, <3>3 DEF Follows, HistoryShown
    <3> QED
      BY <2>8, <3>4
  <2>14. CASE o \notin cut' /\ Record(w)
    <3> DEFINE h == orders[o].history
               a == Append(h, event[w])
    <3>1. /\ orders' = [orders EXCEPT ![o] = WithEvent(orders[o], event[w])]
          /\ UNCHANGED <<t_orders, t_events>>
          /\ pc[w] = "record" /\ pc'[w] = "read_event" /\ order'[w] = o
      BY <1>2, <2>1, <2>14 DEF Record, Goto, tables
    <3>2. orders'[o].history = a
      BY <2>2, <3>1 DEF WithEvent, StoredOrder
    <3>3. SubSeq(a, 1, Len(a) - 1) = h
          /\ {h[i].to : i \in DOMAIN h} \subseteq {a[i].to : i \in DOMAIN a}
      BY <2>2, BeforeAppend
    <3>4. /\ ~AtStep(o, EventSaves) /\ ~AtStep(o, NewSaves)
          /\ AtStep(o, EventSaves)' /\ AtStep(o, RowSaves)'
      BY <2>4, <2>5, <3>1 DEF EventSaves, NewSaves, RowSaves
    <3>5. HistoryShown(o) = h /\ o \in DOMAIN t_orders
          /\ t_orders[o].status \in {"CREATED"} \cup {h[i].to : i \in DOMAIN h}
      BY <2>10, <2>14, <3>4 DEF Follows
    <3>6. HistoryShown(o)' = HistoryShown(o)
      BY <3>1 DEF HistoryShown
    <3>7. t_orders'[o].status \in {"CREATED"} \cup {a[i].to : i \in DOMAIN a}
      BY <3>1, <3>3, <3>5
    <3>8. HistoryShown(o)' = SubSeq(a, 1, Len(a) - 1) /\ o \in DOMAIN t_orders'
      BY <3>1, <3>3, <3>5, <3>6
    <3> HIDE DEF a, h
    <3>9. Follows(o)'
      BY <3>2, <3>4, <3>7, <3>8 DEF Follows
    <3> QED
      BY <2>8, <3>9
  <2>15. CASE o \notin cut' /\ SaveEvent(w)
    <3> DEFINE h == orders[o].history
    <3>1. /\ t_events' = Put(t_events, o, Append(HistoryShown(o), h[Len(h)]))
          /\ UNCHANGED <<orders, t_orders>>
          /\ pc[w] = "save_event" /\ pc'[w] = "read_order" /\ order'[w] = o
      BY <1>2, <2>1, <2>15 DEF SaveEvent, StoreEvent, Goto, HistoryShown, latest, SerialInv,
         ReadsCurrent
    <3>2. h # <<>>
      BY <2>1, <3>1 DEF SerialInv, Inv, Types, TypeOK
    <3>3. /\ AtStep(o, EventSaves) /\ AtStep(o, RowSaves) /\ ~AtStep(o, NewSaves)
          /\ ~AtStep(o, EventSaves)' /\ AtStep(o, RowSaves)' /\ ~AtStep(o, NewSaves)'
      BY <2>4, <2>5, <3>1 DEF EventSaves, NewSaves, RowSaves
    <3>4. HistoryShown(o) = SubSeq(h, 1, Len(h) - 1)
      BY <2>10, <2>15, <3>3 DEF Follows
    <3>5. HistoryShown(o)' = Append(HistoryShown(o), h[Len(h)])
      BY <3>1 DEF Put, HistoryShown
    <3>6. HistoryShown(o)' = h
      BY <2>2, <3>2, <3>4, <3>5, LastOfSeq
    <3>7. Follows(o)'
      BY <2>10, <2>15, <3>1, <3>3, <3>6 DEF Follows
    <3> QED
      BY <2>8, <3>7
  <2> QED
    BY <1>8, <2>9, <2>10, <2>13, <2>14, <2>15
<1>9. CASE Restart
  BY <1>9 DEF Restart, Nothing, TablesFollow
<1> QED
  BY <1>1, <1>4, <1>5, <1>6, <1>7, <1>8, <1>9 DEF Next, Begin, Continue

LEMMA RowsOfMemoryKept ==
  ASSUME SerialInv, [Next]_vars
  PROVE  RowsOfMemory'
<1> USE DEF memory, outer
<1>1. CASE DOMAIN orders \subseteq DOMAIN orders' /\ UNCHANGED <<t_orders, restarts>>
  BY <1>1 DEF SerialInv, RowsOfMemory
<1>2. ASSUME NEW w \in Workers, SaveNewOrder(w) \/ SaveOrder(w) \/ WriteRaises(w),
             ~UNCHANGED t_orders
      PROVE  RowsOfMemory'
  <2>1. order[w] \in DOMAIN orders
    BY <1>2 DEF SaveNewOrder, SaveOrder, WriteRaises, Saves, SerialInv, Inv, Types, TypeOK
  <2>2. UNCHANGED <<orders, restarts>> /\ t_orders' = Put(t_orders, order[w], row[w])
    BY <1>2 DEF SaveNewOrder, SaveOrder, WriteRaises, Write, StoreOrder, StoreEvent, StorePosition,
       DeleteLots, InsertLot, InsertTrade, tables
  <2> QED
    BY <2>1, <2>2 DEF Put, SerialInv, RowsOfMemory
<1>3. CASE Restart
  BY <1>3 DEF Restart, SerialInv, RowsOfMemory
<1>4. ASSUME NEW w \in Workers, CreateOrder(w) \/ Record(w)
      PROVE  RowsOfMemory'
  BY <1>1, <1>4 DEF CreateOrder, Record, Put, tables
<1>5. CASE UNCHANGED <<orders, t_orders, restarts>>
  BY <1>1, <1>5
<1>6. \A w \in Workers : SaveNewOrder(w) \/ SaveOrder(w) \/ WriteRaises(w) =>
        UNCHANGED <<orders, restarts>>
  BY DEF SaveNewOrder, SaveOrder, WriteRaises
<1>7. ASSUME NEW w \in Workers,
             \/ Begin(w) \/ RejectRisk(w) \/ Place(w) \/ ReadEvent(w) \/ SaveEvent(w) \/ ReadOrder(w)
      PROVE  RowsOfMemory'
  BY <1>5, <1>7 DEF Begin, BeginSubmit, RespondDuplicate, BeginUpdate, UpdateRaises, RejectRisk,
     Place, ReadEvent, SaveEvent, StoreEvent, ReadOrder, tables, vars
<1>8. ASSUME NEW w \in Workers,
             \/ BookPosition(w) \/ ReadPosition(w) \/ SavePosition(w) \/ ClearLots(w) \/ SaveLot(w)
      PROVE  RowsOfMemory'
  BY <1>5, <1>8 DEF BookPosition, ReadPosition, SavePosition, StorePosition, ClearLots, DeleteLots,
     SaveLot, InsertLot, WithLots, tables
<1>9. ASSUME NEW w \in Workers,
             MatchTrades(w) \/ AssignLots(w) \/ ExtendTrades(w) \/ SaveTrade(w)
      PROVE  RowsOfMemory'
  BY <1>5, <1>9 DEF MatchTrades, AssignLots, ExtendTrades, SaveTrade, InsertTrade, tables
<1>10. CASE UNCHANGED vars
  BY <1>5, <1>10 DEF vars, tables
<1> QED
  BY <1>2, <1>3, <1>4, <1>5, <1>6, <1>7, <1>8, <1>9, <1>10 DEF Next, Continue

\* With serial clients the table of an order lags behind memory by the event
\* being written at most, and is never ahead of it.
THEOREM TablesLagBehind ==
  ASSUME Serial
  PROVE  Spec => [](SerialInv /\ TableLags)
<1>1. SerialInv /\ [Next]_vars => SerialInv'
  <2> SUFFICES ASSUME SerialInv, [Next]_vars
               PROVE  SerialInv'
    OBVIOUS
  <2>1. Inv' /\ Types'
    BY InvKept DEF SerialInv, Inv
  <2>2. Exclusive' /\ StatusIsLast' /\ ReadsCurrent'
    BY <2>1, ExclusiveKept, StatusIsLastKept, ReadsCurrentKept
  <2>3. TablesFollow' /\ RowsOfMemory'
    BY <2>1, <2>2, TablesFollowKept, RowsOfMemoryKept
  <2> QED
    BY <2>1, <2>2, <2>3 DEF SerialInv
<1>2. SerialInv => TableLags
  <2> SUFFICES ASSUME SerialInv, NEW o \in DOMAIN orders \ cut, NEW h, h = orders[o].history
               PROVE  /\ Len(HistoryShown(o)) \in {Len(h) - 1, Len(h)}
                      /\ HistoryShown(o) = SubSeq(h, 1, Len(HistoryShown(o)))
                      /\ o \in DOMAIN t_orders =>
                           t_orders[o].status \in {"CREATED"} \cup {h[i].to : i \in DOMAIN h}
    BY DEF TableLags
  <2>1. h \in Seq(OrderEvent) /\ Follows(o)
    BY DEF SerialInv, TablesFollow, Inv, Types, TypeOK, StoredOrder
  <2>2. CASE ~AtStep(o, EventSaves)
    BY <2>1, <2>2 DEF Follows
  <2>3. CASE AtStep(o, EventSaves)
    <3>1. h # <<>>
      BY <2>3 DEF AtStep, EventSaves, SerialInv, Inv, Types, TypeOK
    <3>2. HistoryShown(o) = SubSeq(h, 1, Len(h) - 1)
      BY <2>1, <2>3 DEF Follows
    <3>3. Len(SubSeq(h, 1, Len(h) - 1)) = Len(h) - 1
      BY <2>1, <3>1
    <3>4. o \in DOMAIN t_orders =>
            t_orders[o].status \in {"CREATED"} \cup {h[i].to : i \in DOMAIN h}
      BY <2>1 DEF Follows
    <3> QED
      BY <3>2, <3>3, <3>4
  <2> QED
    BY <2>2, <2>3
<1> QED
  BY <1>1, <1>2, SerialInit, PTL DEF Spec

\* With serial clients, clients are shown the whole history and the status of
\* every order whose requests have ended, and the right number of active ones.
THEOREM EventsPersisted ==
  ASSUME Serial
  PROVE  Spec => []EveryEventPersisted
<1>1. SerialInv => EveryEventPersisted
  <2> SUFFICES ASSUME SerialInv
               PROVE  EveryEventPersisted
    OBVIOUS
  <2>1. ASSUME NEW o \in DOMAIN orders, ~BusyWith(o), o \notin cut
        PROVE  /\ HistoryShown(o) = orders[o].history
               /\ o \in DOMAIN t_orders /\ t_orders[o].status = orders[o].status
    <3>1. \A X : ~AtStep(o, X)
      BY <2>1 DEF BusyWith, AtStep
    <3> QED
      BY <2>1, <3>1 DEF SerialInv, TablesFollow, Follows
  <2>2. ASSUME restarts = 0, cut = {}, \A w \in Workers : pc[w] = "idle"
        PROVE  {o \in DOMAIN t_orders : t_orders[o].status \notin TERMINAL_STATES}
                 = {o \in DOMAIN orders : orders[o].status \notin TERMINAL_STATES}
    <3>1. \A o \in DOMAIN orders : ~BusyWith(o)
      BY <2>2 DEF SerialInv, Inv, Types, TypeOK, BusyWith
    <3>2. DOMAIN t_orders \subseteq DOMAIN orders
      BY <2>2 DEF SerialInv, RowsOfMemory
    <3> QED
      BY <2>1, <2>2, <3>1, <3>2
  <2> QED
    BY <2>1, <2>2 DEF EveryEventPersisted, OrdersShown, ActiveShown
<1> QED
  BY <1>1, TablesLagBehind, PTL

----------------------------------------------------------------------------
(***************************************************************************)
(* The tables of positions and trades, for clients that are serial or not. *)
(* The books of a symbol are clean while none of its fills overlapped and  *)
(* none of its requests was cut short.  One thread at most books a fill of *)
(* it then, and its tables differ from memory only by what that thread has *)
(* booked and not yet written.                                             *)
(***************************************************************************)
PositionSaves == {"read_position", "save_position", "clear_lots", "save_lot"}
LedgerSteps == {"assign", "extend", "save_trade"}
TradeRows == [id: Symbols \X Nat, trade: ClosedTrades]

\* New trades of the ledger that all have ids of their own, none of them above
\* the number of the trades when they have joined.
Numbered(new, n) ==
  /\ \A i \in 1..Len(new) : new[i].id[2] <= n + Len(new)
  /\ \A i, j \in 1..Len(new) : new[i].id = new[j].id => i = j

\* The trades a thread has made, to be added and written.
NewTrades(w) ==
  pc[w] \in LedgerSteps =>
    /\ unsaved[w] \in Seq(TradeRows)
    /\ \A i \in 1..Len(unsaved[w]) : unsaved[w][i].id[1] = symbol(w)
    /\ pc[w] = "save_trade" => unsaved[w] # <<>>
    /\ pc[w] # "save_trade" => Numbered(unsaved[w], Len(trades))

BookTypes ==
  /\ position \in [Symbols -> Positions] /\ lots \in [Symbols -> Seq(OpenLots)]
  /\ trades \in Seq(TradeRows) /\ \A m \in 1..Len(trades) : trades[m].id[2] <= Len(trades)
  /\ DOMAIN t_lots = Symbols /\ survivors \in [Workers -> Seq(OpenLots)]
  /\ DOMAIN snapshot = Workers /\ DOMAIN unsaved = Workers
  /\ restarts \in Nat /\ (restarts = 0 => cut \subseteq DOMAIN orders)
  /\ \A o \in DOMAIN orders : orders[o].quantity \in Nat \ {0}
  /\ \A w \in Workers : NewTrades(w)

Clean(s) == restarts = 0 /\ s \notin overlapped /\ \A o \in cut : orders[o].symbol # s

Alone(s) == \A v, w \in Workers : Booking(v, s) /\ Booking(w, s) => v = w

\* The row of a symbol is that of its position; so are its lots, up to number k.
RowMatches(s) ==
  /\ s \in DOMAIN t_positions
  /\ t_positions[s] = [net_quantity |-> NetQuantity(position[s].open_lots),
                       realized_pnl |-> position[s].realized_pnl]
Upto(L, k) == [n \in 1..k |-> L[n]]
Ending(U, L) ==
  /\ U \in Seq(HeldLots) /\ U # <<>> /\ Len(U) <= Len(L)
  /\ \A i \in 1..Len(U) : U[i] = L[Len(L) - Len(U) + i]

Settled(s) ==
  \/ RowMatches(s) /\ t_lots[s] = position[s].open_lots
  \/ s \notin DOMAIN t_positions /\ position[s] = FlatPosition

Saving(w, s) == pc[w] \in PositionSaves /\ symbol(w) = s
Saved(w, s) ==
  /\ pc[w] # "read_position" => snapshot[w] = Snapshot(position[s])
  /\ pc[w] \in {"clear_lots", "save_lot"} => RowMatches(s)
  /\ pc[w] = "save_lot" =>
       LET L == position[s].open_lots
       IN  Ending(unsaved[w], L) /\ t_lots[s] = Upto(L, Len(L) - Len(unsaved[w]))

PositionGood(s) ==
  /\ \A w \in Workers : Saving(w, s) => Saved(w, s)
  /\ (\A w \in Workers : ~Saving(w, s)) => Settled(s)

Joining(w, s) == pc[w] \in LedgerSteps /\ symbol(w) = s
Pending(w, t) == pc[w] = "save_trade" /\ \E i \in 1..Len(unsaved[w]) : unsaved[w][i] = t
TradesGood(s) ==
  /\ RowsOfTrades(s) \subseteq TradesInMemory(s)
  /\ \A t \in TradesInMemory(s) :
       t \in RowsOfTrades(s) \/ \E w \in Workers : symbol(w) = s /\ Pending(w, t)
  /\ \A t, u \in TradesInMemory(s) : t.id = u.id => t = u
  /\ \A w \in Workers : Joining(w, s) =>
       \A i \in 1..Len(unsaved[w]) :
         IF pc[w] = "save_trade" THEN unsaved[w][i] \in TradesInMemory(s)
         ELSE \A t \in TradesInMemory(s) : t.id # unsaved[w][i].id

Good(s) == Clean(s) => Alone(s) /\ PositionGood(s) /\ TradesGood(s)

BookInv == Inv /\ BookTypes /\ \A s \in Symbols : Good(s)

LEMMA BookInit == Init => BookInv
<1> SUFFICES ASSUME Init
             PROVE  BookInv
  OBVIOUS
<1>1. /\ <<>> \in Seq(OpenLots) /\ <<>> \in Seq(TradeRows) /\ <<>> \in Seq(HeldLots)
      /\ Len(<<>>) = 0
  OBVIOUS
<1>2. /\ DOMAIN orders = {} /\ DOMAIN t_positions = {} /\ DOMAIN t_trades = {} /\ trades = <<>>
      /\ restarts = 0 /\ cut = {}
      /\ position = [s \in Symbols |-> FlatPosition] /\ \A w \in Workers : pc[w] = "idle"
  BY DEF Init, Nothing, FlatPositions, Each
<1>3. FlatPosition \in Positions
  BY <1>1 DEF FlatPosition, Positions
<1>4. \A w \in Workers : NewTrades(w)
  BY <1>2 DEF NewTrades, LedgerSteps
<1>5. BookTypes
  BY <1>1, <1>2, <1>3, <1>4 DEF Init, BookTypes, NoLots, Each
<1>6. \A s : TradesInMemory(s) = {} /\ RowsOfTrades(s) = {}
  BY <1>1, <1>2 DEF TradesInMemory, RowsOfTrades
<1>7. ASSUME NEW s \in Symbols
      PROVE  Good(s)
  <2>1. Alone(s)
    BY <1>2 DEF Alone, Booking, Books
  <2>2. PositionGood(s)
    BY <1>2 DEF PositionGood, Settled, Saving, PositionSaves
  <2>3. TradesGood(s)
    BY <1>2, <1>6 DEF TradesGood, Joining, LedgerSteps
  <2> QED
    BY <2>1, <2>2, <2>3 DEF Good
<1> QED
  BY <1>5, <1>7, InvInit DEF BookInv

----------------------------------------------------------------------------
(***************************************************************************)
(* What a step of one thread leaves alone.                                 *)
(***************************************************************************)
\* What the other threads have read of the books, and have to write there.
TakenStays(w) ==
  \A v \in Workers \ {w} :
    snapshot'[v] = snapshot[v] /\ survivors'[v] = survivors[v] /\ unsaved'[v] = unsaved[v]

SymbolsStay ==
  \A o \in DOMAIN orders : o \in DOMAIN orders' /\ orders'[o].symbol = orders[o].symbol

LEMMA ThreadBooks ==
  ASSUME BookInv, NEW w \in Workers, Begin(w) \/ Continue(w)
  PROVE  /\ OthersStay(w) /\ TakenStays(w) /\ SymbolsStay
         /\ \A s : Clean(s)' => Clean(s)
<1> USE DEF memory, outer
<1>1. /\ OthersStay(w) /\ DOMAIN orders \subseteq DOMAIN orders'
      /\ \A o \in DOMAIN orders \ {order[w]} : orders'[o] = orders[o]
  BY ThreadSteps DEF BookInv
<1>2. TakenStays(w)
  <2> USE DEF BookInv, BookTypes
  <2>1. CASE UNCHANGED taken
    BY <2>1 DEF taken, TakenStays
  <2>2. CASE Finish(w)
    BY <2>2 DEF Finish, TakenStays
  <2>3. CASE ReadOrder(w) \/ ReadPosition(w) \/ ClearLots(w) \/ SaveLot(w) \/ MatchTrades(w)
    BY <2>3 DEF ReadOrder, ReadPosition, ClearLots, SaveLot, WithLots, MatchTrades, TakenStays
  <2>4. CASE SaveTrade(w) /\ ~Finish(w)
    BY <2>4 DEF SaveTrade, TakenStays
  <2> QED
    BY <2>1, <2>2, <2>3, <2>4 DEF Begin, Continue, BeginSubmit, RespondDuplicate, BeginUpdate,
       UpdateRaises, CreateOrder, RejectRisk, SaveNewOrder, Place, Record, ReadEvent, SaveEvent,
       SaveOrder, WriteRaises, BookPosition, SavePosition, AssignLots, ExtendTrades, Turn,
       vars, locals
<1>3. SymbolsStay
  <2>1. CASE UNCHANGED orders
    BY <2>1 DEF SymbolsStay
  <2>2. CASE Record(w)
    <3>1. order[w] \in DOMAIN orders /\ orders[order[w]] \in StoredOrder
      BY <2>2 DEF Record, BookInv, Inv, Types, TypeOK
    <3>2. orders'[order[w]].symbol = orders[order[w]].symbol
      BY <2>2, <3>1 DEF Record, WithEvent, StoredOrder
    <3> QED
      BY <1>1, <3>2 DEF SymbolsStay
  <2>3. CASE CreateOrder(w)
    <3>1. order[w] \notin DOMAIN orders
      BY <2>3 DEF CreateOrder, BookInv, Inv, Types, TypeOK
    <3> QED
      BY <1>1, <3>1 DEF SymbolsStay
  <2> QED
    BY <2>1, <2>2, <2>3, OrdersChange
<1>4. restarts' = restarts /\ cut \subseteq cut' /\ overlapped \subseteq overlapped'
  BY DEF Begin, Continue, BeginSubmit, RespondDuplicate, BeginUpdate, CreateOrder,
     UpdateRaises, RejectRisk, SaveNewOrder, Place, Record, ReadEvent, SaveEvent, ReadOrder, SaveOrder,
     WriteRaises, BookPosition, ReadPosition, SavePosition, ClearLots, SaveLot, WithLots,
     MatchTrades, AssignLots, ExtendTrades, SaveTrade, vars
<1>5. ASSUME NEW s, Clean(s)'
      PROVE  Clean(s)
  <2>1. restarts = 0 /\ s \notin overlapped
    BY <1>4, <1>5 DEF Clean
  <2>2. \A o \in cut : o \in cut' /\ o \in DOMAIN orders
    BY <1>4, <2>1 DEF BookInv, BookTypes
  <2>3. \A o \in cut : orders[o].symbol # s
    BY <1>3, <1>5, <2>2 DEF Clean, SymbolsStay
  <2> QED
    BY <2>1, <2>3 DEF Clean
<1> QED
  BY <1>1, <1>2, <1>3, <1>5

\* The other threads are where they were, about the same symbol.
LEMMA SameSymbols ==
  ASSUME Inv, NEW w \in Workers, OthersStay(w), SymbolsStay, NEW v \in Workers, v # w
  PROVE  /\ pc'[v] = pc[v]
         /\ pc[v] \in Books => symbol(v)' = symbol(v)
         /\ PositionSaves \subseteq Books /\ LedgerSteps \subseteq Books
<1>1. pc'[v] = pc[v] /\ order'[v] = order[v]
  BY DEF OthersStay
<1>2. pc[v] \in Books => order[v] \in DOMAIN orders
  BY DEF Inv, Types, TypeOK, Books
<1>3. PositionSaves \subseteq Books /\ LedgerSteps \subseteq Books
  BY DEF PositionSaves, LedgerSteps, Books
<1> QED
  BY <1>1, <1>2, <1>3 DEF SymbolsStay, symbol

\* Three parts of the invariant of a symbol, each preserved by a step that does
\* not enter it, and by a step of the one thread that books, if it does.
LEMMA AloneStays ==
  ASSUME Inv, NEW w \in Workers, OthersStay(w), SymbolsStay, NEW s,
         Booking(w, s)' => Booking(w, s), Alone(s)
  PROVE  Alone(s)'
<1>1. \A v \in Workers : v # w => (Booking(v, s)' <=> Booking(v, s))
  BY SameSymbols DEF Booking
<1>2. \A v \in Workers : Booking(v, s)' => Booking(v, s)
  BY <1>1
<1>3. \A u, v \in Workers : Booking(u, s)' /\ Booking(v, s)' => u = v
  BY <1>2 DEF Alone
<1> QED
  BY <1>3 DEF Alone

PositionRow(s) == {t_positions[x] : x \in DOMAIN t_positions \cap {s}}

LEMMA PositionStays ==
  ASSUME Inv, NEW w \in Workers, OthersStay(w), TakenStays(w), SymbolsStay, NEW s,
         ~Saving(w, s), ~Saving(w, s)', PositionGood(s),
         position'[s] = position[s], t_lots'[s] = t_lots[s], PositionRow(s)' = PositionRow(s)
  PROVE  PositionGood(s)'
<1>1. \A v \in Workers : v # w => (Saving(v, s)' <=> Saving(v, s))
  BY SameSymbols DEF Saving
<1>2. \A v \in Workers : Saving(v, s)' <=> Saving(v, s)
  BY <1>1
<1>3. RowMatches(s)' <=> RowMatches(s)
  BY DEF RowMatches, PositionRow
<1>4. s \in DOMAIN t_positions' <=> s \in DOMAIN t_positions
  BY DEF PositionRow
<1>5. Settled(s) => Settled(s)'
  BY <1>3, <1>4 DEF Settled
<1>6. ASSUME NEW v \in Workers, Saving(v, s)'
      PROVE  Saved(v, s)'
  <2>1. v # w /\ Saved(v, s)
    BY <1>2, <1>6 DEF PositionGood
  <2>2. pc'[v] = pc[v] /\ snapshot'[v] = snapshot[v] /\ unsaved'[v] = unsaved[v]
    BY <2>1 DEF OthersStay, TakenStays
  <2> QED
    BY <1>3, <2>1, <2>2 DEF Saved, Snapshot
<1>7. (\A v \in Workers : ~Saving(v, s)') => Settled(s)'
  BY <1>2, <1>5 DEF PositionGood
<1> QED
  BY <1>6, <1>7 DEF PositionGood

LEMMA PositionMoves ==
  ASSUME NEW w \in Workers, NEW s, Alone(s)', Booking(w, s)', Inv',
         Saving(w, s)' => Saved(w, s)', ~Saving(w, s)' => Settled(s)'
  PROVE  PositionGood(s)'
<1>1. \A v \in Workers : Saving(v, s)' => Booking(v, s)'
  BY DEF Saving, Booking, PositionSaves, Books
<1>2. \A v \in Workers : Saving(v, s)' => v = w
  BY <1>1 DEF Alone
<1> QED
  BY <1>2 DEF PositionGood

LEMMA TradesStay ==
  ASSUME Inv, NEW w \in Workers, OthersStay(w), TakenStays(w), SymbolsStay, NEW s,
         ~Joining(w, s), ~Joining(w, s)', TradesGood(s),
         TradesInMemory(s)' = TradesInMemory(s), RowsOfTrades(s)' = RowsOfTrades(s)
  PROVE  TradesGood(s)'
<1>1. ASSUME NEW v \in Workers, v # w
      PROVE  /\ Joining(v, s)' <=> Joining(v, s)
             /\ pc'[v] = pc[v] /\ unsaved'[v] = unsaved[v]
  BY <1>1, SameSymbols DEF Joining, TakenStays
<1>2. ASSUME NEW v \in Workers, NEW t, symbol(v) = s, Pending(v, t)
      PROVE  symbol(v)' = s /\ Pending(v, t)'
  <2>1. Joining(v, s) /\ v # w
    BY <1>2 DEF Pending, Joining, LedgerSteps
  <2> QED
    BY <1>1, <1>2, <2>1 DEF Pending, Joining
<1>3. \A t \in TradesInMemory(s) :
        t \in RowsOfTrades(s) \/ \E v \in Workers : symbol(v)' = s /\ Pending(v, t)'
  BY <1>2 DEF TradesGood
<1>4. ASSUME NEW v \in Workers, Joining(v, s)'
      PROVE  \A i \in 1..Len(unsaved'[v]) :
               IF pc'[v] = "save_trade" THEN unsaved'[v][i] \in TradesInMemory(s)
               ELSE \A t \in TradesInMemory(s) : t.id # unsaved'[v][i].id
  <2>1. v # w
    BY <1>4
  <2> QED
    BY <1>1, <1>4, <2>1 DEF TradesGood
<1>5. /\ RowsOfTrades(s) \subseteq TradesInMemory(s)
      /\ \A t, u \in TradesInMemory(s) : t.id = u.id => t = u
  BY DEF TradesGood
<1> QED
  BY <1>3, <1>4, <1>5 DEF TradesGood

\* The trades a thread has made stay numbered as the ledger grows.
LEMMA NewTradesStay ==
  ASSUME Inv, NEW w \in Workers, OthersStay(w), TakenStays(w), SymbolsStay, NEW v \in Workers, v # w,
         NewTrades(v), trades \in Seq(TradeRows), trades' \in Seq(TradeRows),
         Len(trades) <= Len(trades')
  PROVE  NewTrades(v)'
<1>1. pc'[v] = pc[v] /\ unsaved'[v] = unsaved[v]
      /\ (pc[v] \in LedgerSteps => symbol(v)' = symbol(v))
  BY SameSymbols DEF TakenStays
<1>2. ASSUME NEW U \in Seq(TradeRows), Numbered(U, Len(trades))
      PROVE  Numbered(U, Len(trades'))
  <2>1. PICK m \in Nat, n \in Nat : m = Len(trades) /\ n = Len(trades') /\ m <= n
    OBVIOUS
  <2>2. ASSUME NEW i \in 1..Len(U)
        PROVE  U[i].id[2] <= n + Len(U)
    <3>1. U[i] \in TradeRows
      OBVIOUS
    <3>2. PICK number \in Nat : number = U[i].id[2]
      BY <3>1 DEF TradeRows
    <3>3. number <= m + Len(U) /\ Len(U) \in Nat
      BY <1>2, <2>1, <3>2 DEF Numbered
    <3> QED
      BY <2>1, <3>2, <3>3
  <2> QED
    BY <1>2, <2>1, <2>2 DEF Numbered
<1> QED
  BY <1>1, <1>2 DEF NewTrades

----------------------------------------------------------------------------
(***************************************************************************)
(* What the handlers make of lots and trades.                              *)
(***************************************************************************)
\* PositionService.apply_fill makes a position.
LEMMA FillType ==
  ASSUME NEW P \in Positions, NEW side \in Sides, NEW q \in Nat \ {0}, NEW price \in Int
  PROVE  ApplyFill(P, side, q, price) \in Positions
<1>1. PICK closed \in Closings : closed = CloseLots(P, side, q, price)
  BY CloseType
<1>2. Left(side, closed.remaining, price) \in Seq(HeldLots)
  <2>1. closed.remaining \in Nat
    BY DEF Closings
  <2>2. closed.remaining > 0 => PositionLot(side, closed.remaining, price) \in HeldLots
    BY <2>1 DEF PositionLot, HeldLots
  <2>3. <<>> \in Seq(HeldLots)
    OBVIOUS
  <2> QED
    BY <2>2, <2>3 DEF Left
<1>3. PICK left \in Seq(HeldLots) : left = Left(side, closed.remaining, price)
  BY <1>2
<1>4. closed.lots \o left \in Seq(HeldLots)
  BY DEF Closings
<1>5. ApplyFill(P, side, q, price) = [open_lots |-> closed.lots \o left, realized_pnl |-> closed.pnl]
  BY <1>1, <1>3 DEF ApplyFill
<1> QED
  BY <1>4, <1>5 DEF Positions, Closings

\* The lots of a symbol have been deleted: all are still to be inserted.
LEMMA NoneInserted ==
  ASSUME NEW L \in Seq(HeldLots)
  PROVE  /\ Upto(L, Len(L) - Len(L)) = <<>>
         /\ L # <<>> => Ending(L, L)
<1>1. Len(L) - Len(L) = 0 /\ Len(L) \in Nat
  OBVIOUS
<1>2. Upto(L, 0) \in [1..0 -> HeldLots]
  BY DEF Upto
<1>3. Upto(L, 0) \in Seq(HeldLots) /\ Len(Upto(L, 0)) = 0
  BY <1>2, IsSequence
<1>4. Upto(L, 0) = <<>>
  BY <1>3, EmptySeq
<1>5. \A i \in 1..Len(L) : L[i] = L[Len(L) - Len(L) + i]
  BY <1>1
<1> QED
  BY <1>1, <1>4, <1>5 DEF Ending

\* One lot more is inserted, at the next index.
LEMMA OneInserted ==
  ASSUME NEW L \in Seq(HeldLots), NEW U, Ending(U, L)
  PROVE  LET k == Len(L) - Len(U)
         IN  /\ Put(Upto(L, k), k + 1, Head(U)) = Upto(L, k + 1)
             /\ Tail(U) # <<>> => Ending(Tail(U), L) /\ Len(L) - Len(Tail(U)) = k + 1
             /\ Tail(U) = <<>> => Upto(L, k + 1) = L
<1>1. PICK n \in Nat, m \in Nat \ {0} : n = Len(L) /\ m = Len(U) /\ m <= n
  <2>1. U \in Seq(HeldLots) /\ U # <<>>
    BY DEF Ending
  <2>2. Len(U) \in Nat /\ Len(U) # 0
    BY <2>1, EmptySeq
  <2> QED
    BY <2>2 DEF Ending
<1>2. PICK k \in Nat : k = n - m
  BY <1>1
<1>3. Head(U) = L[k + 1] /\ k + 1 \in 1..n
  <2>1. Head(U) = U[1]
    BY DEF Ending
  <2> QED
    BY <1>1, <1>2, <2>1 DEF Ending
<1>4. Put(Upto(L, k), k + 1, Head(U)) = Upto(L, k + 1)
  <2>1. 1..k \cup {k + 1} = 1..(k + 1)
    OBVIOUS
  <2> QED
    BY <1>3, <2>1 DEF Put, Upto
<1>5. PICK R \in Seq(HeldLots) : /\ R = Tail(U) /\ Len(R) = m - 1
                                 /\ \A i \in 1..(m - 1) : R[i] = U[i + 1]
  <2>1. U \in Seq(HeldLots) /\ U # <<>>
    BY DEF Ending
  <2>2. Tail(U) \in Seq(HeldLots) /\ Len(Tail(U)) = Len(U) - 1
        /\ \A i \in 1..(Len(U) - 1) : Tail(U)[i] = U[i + 1]
    BY <2>1
  <2> QED
    BY <1>1, <2>2
<1>6. n - Len(R) = k + 1
  BY <1>1, <1>2, <1>5
<1>7. ASSUME R # <<>>
      PROVE  Ending(R, L)
  <2>1. ASSUME NEW i \in 1..Len(R)
        PROVE  R[i] = L[n - Len(R) + i]
    <3>1. i + 1 \in 1..m /\ R[i] = U[i + 1]
      BY <1>1, <1>5
    <3>2. U[i + 1] = L[n - m + (i + 1)]
      BY <1>1, <3>1 DEF Ending
    <3>3. n - m + (i + 1) = n - Len(R) + i
      BY <1>1, <1>5
    <3> QED
      BY <3>1, <3>2, <3>3
  <2>2. Len(R) <= n
    BY <1>1, <1>5
  <2> QED
    BY <1>1, <1>7, <2>1, <2>2 DEF Ending
<1>8. ASSUME R = <<>>
      PROVE  Upto(L, k + 1) = L
  <2>1. Len(R) = 0
    BY ONLY <1>8
  <2>2. k + 1 = n
    BY <1>1, <1>6, <2>1
  <2>3. L = [i \in 1..Len(L) |-> L[i]]
    OBVIOUS
  <2> QED
    BY <1>1, <2>2, <2>3 DEF Upto
<1> QED
  BY <1>1, <1>2, <1>4, <1>5, <1>6, <1>7, <1>8

\* The trades of one symbol in a list of trades.
OfSymbol(T, s) == {T[n] : n \in {m \in DOMAIN T : T[m].id[1] = s}}

LEMMA TradesJoin ==
  ASSUME NEW T \in Seq(TradeRows), NEW U \in Seq(TradeRows), NEW s
  PROVE  /\ OfSymbol(T \o U, s) = OfSymbol(T, s) \cup OfSymbol(U, s)
         /\ Len(T \o U) = Len(T) + Len(U) /\ T \o U \in Seq(TradeRows)
<1>1. PICK m \in Nat, n \in Nat : m = Len(T) /\ n = Len(U)
  OBVIOUS
<1>2. PICK W \in Seq(TradeRows) :
        /\ W = T \o U /\ Len(W) = m + n
        /\ \A i \in 1..m : W[i] = T[i]
        /\ \A i \in 1..n : W[m + i] = U[i]
  <2>1. PICK W : W = T \o U
    OBVIOUS
  <2>2. /\ W \in Seq(TradeRows) /\ Len(W) = Len(T) + Len(U)
        /\ \A i \in 1..Len(T) + Len(U) : W[i] = IF i <= Len(T) THEN T[i] ELSE U[i - Len(T)]
    BY <2>1, ConcatProperties
  <2>3. \A i \in 1..(m + n) : W[i] = IF i <= m THEN T[i] ELSE U[i - m]
    BY <1>1, <2>2
  <2>4. \A i \in 1..m : i \in 1..(m + n) /\ i <= m
    OBVIOUS
  <2>5. \A i \in 1..n : m + i \in 1..(m + n) /\ ~(m + i <= m) /\ (m + i) - m = i
    OBVIOUS
  <2>6. \A i \in 1..m : W[i] = T[i]
    BY <2>3, <2>4
  <2>7. \A i \in 1..n : W[m + i] = U[i]
    BY <2>3, <2>5
  <2>8. Len(W) = m + n
    BY <1>1, <2>2
  <2> QED
    BY <2>1, <2>2, <2>6, <2>7, <2>8
<1>3. DOMAIN T = 1..m /\ DOMAIN U = 1..n /\ DOMAIN W = 1..(m + n)
  BY <1>1, <1>2
<1>4. ASSUME NEW t \in OfSymbol(W, s)
      PROVE  t \in OfSymbol(T, s) \cup OfSymbol(U, s)
  <2>1. PICK i \in 1..(m + n) : W[i] = t /\ t.id[1] = s
    BY <1>3 DEF OfSymbol
  <2>2. CASE i \in 1..m
    BY <1>2, <1>3, <2>1, <2>2 DEF OfSymbol
  <2>3. CASE i \notin 1..m
    <3>1. i - m \in 1..n /\ m + (i - m) = i
      BY <2>3
    <3>2. U[i - m] = t
      BY <1>2, <2>1, <3>1
    <3> QED
      BY <1>3, <2>1, <3>1, <3>2 DEF OfSymbol
  <2> QED
    BY <2>2, <2>3
<1>5. ASSUME NEW t \in OfSymbol(T, s)
      PROVE  t \in OfSymbol(W, s)
  <2>1. PICK i \in 1..m : T[i] = t /\ t.id[1] = s
    BY <1>3 DEF OfSymbol
  <2>2. i \in 1..(m + n) /\ W[i] = t
    BY <1>2, <2>1
  <2> QED
    BY <1>3, <2>1, <2>2 DEF OfSymbol
<1>6. ASSUME NEW t \in OfSymbol(U, s)
      PROVE  t \in OfSymbol(W, s)
  <2>1. PICK i \in 1..n : U[i] = t /\ t.id[1] = s
    BY <1>3 DEF OfSymbol
  <2>2. W[m + i] = t
    BY <1>2, <2>1
  <2>3. m + i \in 1..(m + n)
    OBVIOUS
  <2> QED
    BY <1>3, <2>1, <2>2, <2>3 DEF OfSymbol
<1> QED
  BY <1>1, <1>2, <1>4, <1>5, <1>6

----------------------------------------------------------------------------
(***************************************************************************)
(* Steps that book fills, and steps that do not.                           *)
(***************************************************************************)
BookStep(w) ==
  \/ BookPosition(w) \/ ReadPosition(w) \/ SavePosition(w) \/ ClearLots(w) \/ SaveLot(w)
  \/ MatchTrades(w) \/ AssignLots(w) \/ ExtendTrades(w) \/ SaveTrade(w)

PlainStep(w) ==
  \/ BeginSubmit(w) \/ BeginUpdate(w) \/ RespondDuplicate(w) \/ UpdateRaises(w)
  \/ CreateOrder(w) \/ RejectRisk(w) \/ SaveNewOrder(w) \/ Place(w) \/ Record(w)
  \/ ReadEvent(w) \/ SaveEvent(w) \/ ReadOrder(w) \/ SaveOrder(w)

LEMMA StepKinds ==
  ASSUME NEW w \in Workers
  PROVE  /\ (Begin(w) \/ Continue(w)) <=> (PlainStep(w) \/ BookStep(w) \/ WriteRaises(w))
         /\ Begin(w) \/ Continue(w) => Write(w) \/ UNCHANGED tables
<1>1. (Begin(w) \/ Continue(w)) <=> (PlainStep(w) \/ BookStep(w) \/ WriteRaises(w))
  BY DEF Begin, Continue, PlainStep, BookStep
<1>2. BookStep(w) => Write(w) \/ UNCHANGED tables
  BY DEF BookStep, BookPosition, ReadPosition, SavePosition, ClearLots, SaveLot, WithLots,
     MatchTrades, AssignLots, ExtendTrades, SaveTrade, Write
<1>3. PlainStep(w) => Write(w) \/ UNCHANGED tables
  BY DEF PlainStep, BeginSubmit, BeginUpdate, RespondDuplicate, UpdateRaises, CreateOrder,
     RejectRisk, SaveNewOrder, Place, Record, ReadEvent, SaveEvent, ReadOrder, SaveOrder,
     Write, vars
<1>4. WriteRaises(w) => Write(w) \/ UNCHANGED tables
  BY DEF WriteRaises
<1> QED
  BY <1>1, <1>2, <1>3, <1>4

\* What is left to say of the types after a step.
LEMMA BookTypesKept ==
  ASSUME BookInv, NEW w \in Workers, Begin(w) \/ Continue(w),
         position' \in [Symbols -> Positions], lots' \in [Symbols -> Seq(OpenLots)],
         trades' \in Seq(TradeRows), Len(trades) <= Len(trades'),
         \A m \in 1..Len(trades') : trades'[m].id[2] <= Len(trades'),
         survivors' \in [Workers -> Seq(OpenLots)], NewTrades(w)'
  PROVE  BookTypes'
<1> USE DEF memory, outer
<1>1. /\ OthersStay(w) /\ TakenStays(w) /\ SymbolsStay
  BY ThreadBooks
<1>2. \A v \in Workers : NewTrades(v)'
  <2>1. \A v \in Workers : v # w => NewTrades(v)'
    BY <1>1, NewTradesStay DEF BookInv, BookTypes
  <2> QED
    BY <2>1
<1>3. DOMAIN t_lots' = Symbols
  BY StepKinds DEF BookInv, BookTypes, Write, StoreOrder, StoreEvent, StorePosition, DeleteLots,
     InsertLot, InsertTrade, tables
<1>4. DOMAIN snapshot' = Workers /\ DOMAIN unsaved' = Workers
  <2>1. DOMAIN snapshot = Workers /\ DOMAIN unsaved = Workers
    BY DEF BookInv, BookTypes
  <2>2. CASE Finish(w)
    BY <2>1, <2>2 DEF Finish
  <2>3. CASE ~Finish(w)
    BY <2>1, <2>3 DEF Begin, Continue, BeginSubmit, BeginUpdate, RespondDuplicate, UpdateRaises,
       CreateOrder, RejectRisk, SaveNewOrder, Place, Record, ReadEvent, SaveEvent, ReadOrder,
       SaveOrder, WriteRaises, BookPosition, ReadPosition, SavePosition, ClearLots, SaveLot,
       WithLots, MatchTrades, AssignLots, ExtendTrades, SaveTrade, Turn, vars, locals, taken
  <2> QED
    BY <2>2, <2>3
<1>5. restarts' = restarts /\ cut' \subseteq cut \cup {order[w]}
      /\ (cut' # cut => pc[w] \in Saves)
  BY DEF Begin, Continue, BeginSubmit, BeginUpdate, RespondDuplicate, UpdateRaises,
     CreateOrder, RejectRisk, SaveNewOrder, Place, Record, ReadEvent, SaveEvent, ReadOrder,
     SaveOrder, WriteRaises, BookPosition, ReadPosition, SavePosition, ClearLots, SaveLot,
     WithLots, MatchTrades, AssignLots, ExtendTrades, SaveTrade, vars
<1>6. pc[w] \in Saves => order[w] \in DOMAIN orders
  BY DEF BookInv, Inv, Types, TypeOK, Saves
<1>7. restarts' \in Nat /\ (restarts' = 0 => cut' \subseteq DOMAIN orders')
  <2>1. restarts \in Nat /\ (restarts = 0 => cut \subseteq DOMAIN orders)
    BY DEF BookInv, BookTypes
  <2> QED
    BY <1>1, <1>5, <1>6, <2>1 DEF SymbolsStay
<1>8. \A o \in DOMAIN orders' : orders'[o].quantity \in Nat \ {0}
  <2>0. \A o \in DOMAIN orders : orders[o].quantity \in Nat \ {0}
    BY DEF BookInv, BookTypes
  <2>1. CASE UNCHANGED orders
    BY <2>0, <2>1
  <2>2. CASE Record(w)
    <3>1. order[w] \in DOMAIN orders /\ orders[order[w]] \in StoredOrder
      BY <2>2 DEF Record, BookInv, Inv, Types, TypeOK
    <3>2. orders' = [orders EXCEPT ![order[w]] = WithEvent(orders[order[w]], event[w])]
      BY <2>2 DEF Record
    <3> QED
      BY <2>0, <3>1, <3>2 DEF WithEvent, StoredOrder
  <2>3. CASE CreateOrder(w)
    <3>1. request[w] \in Requests /\ request[w].quantity \in Nat \ {0}
      BY PersistedAssumption DEF BookInv, Inv, Types
    <3>2. PICK new : new.quantity = request[w].quantity /\ orders' = Put(orders, created + 1, new)
      BY <2>3 DEF CreateOrder
    <3> QED
      BY <2>0, <3>1, <3>2 DEF Put
  <2> QED
    BY <2>1, <2>2, <2>3, OrdersChange
<1> QED
  BY <1>2, <1>3, <1>4, <1>7, <1>8 DEF BookTypes

\* What a thread writes of a symbol that is not its own.
LEMMA WritesElsewhere ==
  ASSUME BookInv, NEW w \in Workers, Write(w) \/ UNCHANGED tables, NEW s, s # symbol(w)
  PROVE  /\ PositionRow(s)' = PositionRow(s) /\ t_lots'[s] = t_lots[s]
         /\ RowsOfTrades(s)' = RowsOfTrades(s)
<1>1. CASE UNCHANGED <<t_positions, t_lots, t_trades>>
  BY <1>1 DEF PositionRow, RowsOfTrades
<1>2. CASE StorePosition(w)
  BY <1>2 DEF StorePosition, Put, PositionRow, RowsOfTrades
<1>3. CASE DeleteLots(w) \/ InsertLot(w)
  <2>1. PICK new : t_lots' = [t_lots EXCEPT ![symbol(w)] = new]
    <3>1. CASE DeleteLots(w)
      BY <3>1 DEF DeleteLots
    <3>2. CASE InsertLot(w)
      BY <3>2 DEF InsertLot
    <3> QED
      BY <1>3, <3>1, <3>2
  <2>2. UNCHANGED <<t_positions, t_trades>>
    BY <1>3 DEF DeleteLots, InsertLot
  <2> QED
    BY <2>1, <2>2 DEF PositionRow, RowsOfTrades
<1>4. CASE pc[w] = "save_trade" /\ InsertTrade(w)
  <2>1. unsaved[w] \in Seq(TradeRows) /\ unsaved[w] # <<>> /\ NewTrades(w)
    BY <1>4 DEF BookInv, BookTypes, NewTrades, LedgerSteps
  <2>2. PICK U \in Seq(TradeRows) : U = unsaved[w] /\ U # <<>> /\ Head(U) = U[1] /\ 1 \in 1..Len(U)
    BY <2>1
  <2>3. U[1].id[1] = symbol(w)
    BY <1>4, <2>1, <2>2 DEF NewTrades, LedgerSteps
  <2>4. UNCHANGED <<t_positions, t_lots>>
        /\ (t_trades' = t_trades \/ t_trades' = Put(t_trades, U[1].id, U[1].trade))
    BY <1>4, <2>2 DEF InsertTrade
  <2>5. RowsOfTrades(s)' = RowsOfTrades(s)
    BY <2>3, <2>4 DEF RowsOfTrades, Put
  <2> QED
    BY <2>4, <2>5 DEF PositionRow
<1> QED
  BY <1>1, <1>2, <1>3, <1>4 DEF Write, StoreOrder, StoreEvent, tables

\* The books of a symbol that a thread does not touch.
LEMMA ElsewhereGood ==
  ASSUME BookInv, NEW w \in Workers, Begin(w) \/ Continue(w), NEW s, Good(s),
         ~Booking(w, s), ~Booking(w, s)', position'[s] = position[s],
         TradesInMemory(s)' = TradesInMemory(s), RowsOfTrades(s)' = RowsOfTrades(s),
         PositionRow(s)' = PositionRow(s), t_lots'[s] = t_lots[s]
  PROVE  Good(s)'
<1> SUFFICES ASSUME Clean(s)'
             PROVE  Alone(s)' /\ PositionGood(s)' /\ TradesGood(s)'
  BY DEF Good
<1>1. /\ OthersStay(w) /\ TakenStays(w) /\ SymbolsStay /\ Inv
      /\ Alone(s) /\ PositionGood(s) /\ TradesGood(s)
  BY ThreadBooks DEF Good, BookInv
<1>2. /\ ~Saving(w, s) /\ ~Saving(w, s)' /\ ~Joining(w, s) /\ ~Joining(w, s)'
  BY DEF Saving, Joining, Booking, PositionSaves, LedgerSteps, Books
<1>3. Alone(s)'
  BY <1>1, AloneStays
<1>4. PositionGood(s)'
  BY <1>1, <1>2, PositionStays
<1>5. TradesGood(s)'
  BY <1>1, <1>2, TradesStay
<1> QED
  BY <1>3, <1>4, <1>5

LEMMA PlainStepKeeps ==
  ASSUME BookInv, NEW w \in Workers, PlainStep(w)
  PROVE  BookTypes' /\ \A s \in Symbols : Good(s)'
<1> USE DEF memory, outer
<1>1. /\ pc \in [Workers -> Steps] /\ then \in [Workers -> {"place", "position", "end"}]
      /\ survivors \in [Workers -> Seq(OpenLots)] /\ <<>> \in Seq(OpenLots)
  BY DEF BookInv, BookTypes, Inv, Types
<1>2. /\ pc[w] \notin Books /\ pc'[w] \notin Books
      /\ UNCHANGED <<position, lots, trades>>
  <2>1. CASE BeginSubmit(w) \/ Record(w) \/ SaveEvent(w) \/ CreateOrder(w) \/ ReadEvent(w) \/ ReadOrder(w)
    BY <1>1, <2>1 DEF BeginSubmit, Record, SaveEvent, CreateOrder, ReadEvent, ReadOrder, Goto, Books
  <2>2. CASE BeginUpdate(w) \/ SaveNewOrder(w) \/ Place(w)
    BY <1>1, <2>2 DEF BeginUpdate, SaveNewOrder, Place, Turn, Goto, Books
  <2>3. CASE RejectRisk(w) \/ SaveOrder(w)
    BY <1>1, <2>3 DEF RejectRisk, SaveOrder, Finish, Goto, Books
  <2>4. CASE RespondDuplicate(w) \/ UpdateRaises(w)
    BY <1>1, <2>4 DEF RespondDuplicate, UpdateRaises, vars, locals, Books
  <2> QED
    BY <2>1, <2>2, <2>3, <2>4 DEF PlainStep
<1>3. survivors' \in [Workers -> Seq(OpenLots)]
      /\ UNCHANGED <<t_positions, t_lots, t_trades>>
  <2>1. CASE BeginSubmit(w) \/ Record(w) \/ SaveEvent(w) \/ CreateOrder(w) \/ ReadEvent(w) \/ ReadOrder(w)
    BY <1>1, <2>1 DEF BeginSubmit, Record, SaveEvent, CreateOrder, ReadEvent, ReadOrder, StoreEvent,
       taken, tables
  <2>2. CASE BeginUpdate(w) \/ SaveNewOrder(w) \/ Place(w)
    BY <1>1, <2>2 DEF BeginUpdate, SaveNewOrder, Place, Turn, StoreOrder, taken, tables
  <2>3. CASE RejectRisk(w) \/ SaveOrder(w)
    BY <1>1, <2>3 DEF RejectRisk, SaveOrder, Finish, StoreOrder, taken, tables
  <2>4. CASE RespondDuplicate(w) \/ UpdateRaises(w)
    BY <1>1, <2>4 DEF RespondDuplicate, UpdateRaises, vars, locals, taken, tables
  <2> QED
    BY <2>1, <2>2, <2>3, <2>4 DEF PlainStep
<1>4. Begin(w) \/ Continue(w)
  BY StepKinds
<1>5. NewTrades(w)'
  BY <1>2 DEF NewTrades, LedgerSteps, Books
<1>6. BookTypes'
  <2>1. /\ position' \in [Symbols -> Positions] /\ lots' \in [Symbols -> Seq(OpenLots)]
        /\ trades' \in Seq(TradeRows) /\ Len(trades) <= Len(trades')
        /\ \A m \in 1..Len(trades') : trades'[m].id[2] <= Len(trades')
    BY <1>2 DEF BookInv, BookTypes
  <2> QED
    BY <1>3, <1>4, <1>5, <2>1, BookTypesKept
<1>7. ASSUME NEW s \in Symbols
      PROVE  Good(s)'
  <2>1. ~Booking(w, s) /\ ~Booking(w, s)' /\ Good(s)
    BY <1>2 DEF Booking, BookInv
  <2>2. /\ TradesInMemory(s)' = TradesInMemory(s) /\ RowsOfTrades(s)' = RowsOfTrades(s)
        /\ PositionRow(s)' = PositionRow(s)
    BY <1>2, <1>3 DEF TradesInMemory, RowsOfTrades, PositionRow
  <2> QED
    BY <1>2, <1>3, <1>4, <2>1, <2>2, ElsewhereGood
<1> QED
  BY <1>6, <1>7

\* A write that raises ends what the invariant says of its symbol.
LEMMA WriteRaisesKeeps ==
  ASSUME BookInv, NEW w \in Workers, WriteRaises(w)
  PROVE  BookTypes' /\ \A s \in Symbols : Good(s)'
<1> USE DEF memory, outer
<1>1. /\ Begin(w) \/ Continue(w)
      /\ Write(w) \/ UNCHANGED tables
  BY StepKinds
<1>2. /\ pc[w] \in Saves /\ Finish(w) /\ order[w] \in cut'
      /\ UNCHANGED <<orders, position, lots, trades>>
  BY DEF WriteRaises
<1>3. pc'[w] \notin Books
  BY <1>2 DEF Finish, Goto, Books, BookInv, Inv, Types
<1>4. BookTypes'
  <2>1. NewTrades(w)'
    BY <1>3 DEF NewTrades, LedgerSteps, Books
  <2>2. <<>> \in Seq(OpenLots)
    OBVIOUS
  <2>3. survivors' \in [Workers -> Seq(OpenLots)]
    BY <1>2, <2>2 DEF Finish, BookInv, BookTypes
  <2>4. /\ position' \in [Symbols -> Positions] /\ lots' \in [Symbols -> Seq(OpenLots)]
        /\ trades' \in Seq(TradeRows) /\ Len(trades) <= Len(trades')
        /\ \A m \in 1..Len(trades') : trades'[m].id[2] <= Len(trades')
    BY <1>2 DEF BookInv, BookTypes
  <2> QED
    BY <1>1, <2>1, <2>3, <2>4, BookTypesKept
<1>5. ASSUME NEW s \in Symbols, s # symbol(w)
      PROVE  Good(s)'
  <2>1. ~Booking(w, s) /\ ~Booking(w, s)' /\ Good(s)
    BY <1>3, <1>5 DEF Booking, BookInv
  <2>2. /\ RowsOfTrades(s)' = RowsOfTrades(s)
        /\ PositionRow(s)' = PositionRow(s) /\ t_lots'[s] = t_lots[s]
    BY <1>1, <1>5, WritesElsewhere
  <2>3. TradesInMemory(s)' = TradesInMemory(s)
    BY <1>2 DEF TradesInMemory
  <2> QED
    BY <1>1, <1>2, <2>1, <2>2, <2>3, ElsewhereGood
<1>6. ASSUME NEW s \in Symbols, s = symbol(w)
      PROVE  Good(s)'
  <2>1. orders'[order[w]].symbol = s
    BY <1>2, <1>6 DEF symbol
  <2>2. ~Clean(s)'
    BY <1>2, <2>1 DEF Clean
  <2> QED
    BY <2>2 DEF Good
<1> QED
  BY <1>4, <1>5, <1>6

LEMMA RestartKeeps ==
  ASSUME BookInv, Restart
  PROVE  BookTypes' /\ \A s \in Symbols : Good(s)'
<1>1. /\ <<>> \in Seq(OpenLots) /\ <<>> \in Seq(TradeRows) /\ <<>> \in Seq(HeldLots) /\ Len(<<>>) = 0
  OBVIOUS
<1>2. /\ DOMAIN orders' = {} /\ trades' = <<>> /\ position' = [s \in Symbols |-> FlatPosition]
      /\ lots' = [s \in Symbols |-> <<>>] /\ survivors' = [w \in Workers |-> <<>>]
      /\ DOMAIN snapshot' = Workers /\ DOMAIN unsaved' = Workers
      /\ DOMAIN t_lots' = Symbols /\ \A w \in Workers : pc'[w] = "idle"
  BY DEF Restart, Nothing, FlatPositions, NoLots, Each, tables, BookInv, BookTypes
<1>3. restarts' \in Nat /\ restarts' # 0
  <2>1. restarts \in Nat /\ restarts' = restarts + 1
    BY DEF Restart, BookInv, BookTypes
  <2> QED
    BY <2>1
<1>4. FlatPosition \in Positions
  BY <1>1 DEF FlatPosition, Positions
<1>5. \A w \in Workers : NewTrades(w)'
  BY <1>2 DEF NewTrades, LedgerSteps
<1>6. BookTypes'
  BY <1>1, <1>2, <1>3, <1>4, <1>5 DEF BookTypes
<1>7. \A s : ~Clean(s)'
  BY <1>3 DEF Clean
<1> QED
  BY <1>6, <1>7 DEF Good

----------------------------------------------------------------------------
(***************************************************************************)
(* The steps that book a fill: the position and its tables.                *)
(***************************************************************************)
LEMMA BookStepFacts ==
  ASSUME BookInv, NEW w \in Workers, BookStep(w)
  PROVE  /\ Begin(w) \/ Continue(w)
         /\ pc[w] \in Books \cup {"position"} /\ order[w] \in DOMAIN orders
         /\ symbol(w) \in Symbols
         /\ pc'[w] = "idle" \/ (pc'[w] \in Books /\ symbol(w)' = symbol(w))
         /\ OthersStay(w) /\ TakenStays(w) /\ SymbolsStay /\ Inv
<1> USE DEF memory, outer
<1>1. Begin(w) \/ Continue(w)
  BY StepKinds
<1>2. pc[w] \in Books \cup {"position"}
  BY DEF BookStep, BookPosition, ReadPosition, SavePosition, ClearLots, SaveLot,
     MatchTrades, AssignLots, ExtendTrades, SaveTrade, Books
<1>3. order[w] \in DOMAIN orders
  BY <1>2 DEF BookInv, Inv, Types, TypeOK, Books
<1>4. symbol(w) \in Symbols
  BY <1>3 DEF BookInv, Inv, Types, TypeOK, StoredOrder, symbol
<1>5. pc'[w] = "idle" \/ (pc'[w] \in Books /\ order' = order /\ orders' = orders)
  <2>1. pc \in [Workers -> Steps]
    BY DEF BookInv, Inv, Types
  <2>2. CASE BookPosition(w) \/ ReadPosition(w) \/ SavePosition(w) \/ MatchTrades(w) \/ AssignLots(w)
    BY <2>1, <2>2 DEF BookPosition, ReadPosition, SavePosition, MatchTrades, AssignLots, Goto, Books
  <2>3. CASE ClearLots(w) \/ SaveLot(w)
    BY <2>1, <2>3 DEF ClearLots, SaveLot, WithLots, Goto, Books
  <2>4. CASE ExtendTrades(w) \/ SaveTrade(w)
    BY <2>1, <2>4 DEF ExtendTrades, SaveTrade, Finish, Goto, Books
  <2> QED
    BY <2>2, <2>3, <2>4 DEF BookStep
<1> QED
  BY <1>1, <1>2, <1>3, <1>4, <1>5, ThreadBooks DEF BookInv, symbol

\* A thread that books a fill leaves the books of other symbols alone.
LEMMA OwnBooks ==
  ASSUME BookInv, NEW w \in Workers, BookStep(w), NEW own, own = symbol(w), Good(own)',
         \A s \in Symbols \ {own} :
           position'[s] = position[s] /\ TradesInMemory(s)' = TradesInMemory(s)
  PROVE  \A s \in Symbols : Good(s)'
<1>1. ASSUME NEW s \in Symbols, s # own
      PROVE  Good(s)'
  <2>1. ~Booking(w, s) /\ ~Booking(w, s)' /\ Good(s)
    <3>1. pc'[w] = "idle" \/ symbol(w)' = own
      BY BookStepFacts
    <3> QED
      BY <1>1, <3>1 DEF Booking, Books, BookInv
  <2>2. /\ RowsOfTrades(s)' = RowsOfTrades(s)
        /\ PositionRow(s)' = PositionRow(s) /\ t_lots'[s] = t_lots[s]
    BY <1>1, BookStepFacts, StepKinds, WritesElsewhere
  <2> QED
    BY <1>1, <2>1, <2>2, BookStepFacts, ElsewhereGood
<1> QED
  BY <1>1

\* Where one thread books a symbol alone, it does so after its step as well.
LEMMA OthersAbsent ==
  ASSUME Inv, NEW w \in Workers, OthersStay(w), SymbolsStay, NEW s, Booking(w, s), Alone(s)
  PROVE  \A v \in Workers : Booking(v, s)' => v = w
BY SameSymbols DEF Alone, Booking

\* A step of the thread that writes the position it has booked.
LEMMA PositionStep ==
  ASSUME BookInv, NEW w \in Workers, NEW own, own = symbol(w),
         BookPosition(w) \/ ReadPosition(w) \/ SavePosition(w) \/ ClearLots(w) \/ SaveLot(w),
         position' \in [Symbols -> Positions],
         \A s \in Symbols \ {own} : position'[s] = position[s],
         Clean(own)' => /\ Alone(own)'
                        /\ Saving(w, own)' => Saved(w, own)'
                        /\ ~Saving(w, own)' => Settled(own)'
  PROVE  BookTypes' /\ \A s \in Symbols : Good(s)'
<1> USE DEF memory, outer
<1>1. BookStep(w) /\ [Next]_vars
  BY StepKinds DEF BookStep, Next
<1>2. pc[w] \notin LedgerSteps /\ pc'[w] \in Books \ LedgerSteps
      /\ UNCHANGED <<lots, trades, survivors, t_trades>>
  <2>1. pc \in [Workers -> Steps]
    BY DEF BookInv, Inv, Types
  <2>2. CASE BookPosition(w)
    BY <2>1, <2>2 DEF BookPosition, Goto, Books, LedgerSteps, taken, tables
  <2>3. CASE ReadPosition(w) \/ SavePosition(w)
    BY <2>1, <2>3 DEF ReadPosition, SavePosition, StorePosition, Goto, Books, LedgerSteps,
       taken, tables
  <2>4. CASE ClearLots(w) \/ SaveLot(w)
    BY <2>1, <2>4 DEF ClearLots, SaveLot, DeleteLots, InsertLot, WithLots, Goto, Books, LedgerSteps
  <2> QED
    BY <2>2, <2>3, <2>4
<1>3. BookTypes'
  <2>1. NewTrades(w)'
    BY <1>2 DEF NewTrades
  <2>2. /\ lots' \in [Symbols -> Seq(OpenLots)] /\ survivors' \in [Workers -> Seq(OpenLots)]
        /\ trades' \in Seq(TradeRows) /\ Len(trades) <= Len(trades')
        /\ \A m \in 1..Len(trades') : trades'[m].id[2] <= Len(trades')
    BY <1>2 DEF BookInv, BookTypes
  <2> QED
    BY <1>1, <2>1, <2>2, BookStepFacts, BookTypesKept
<1>4. \A s : TradesInMemory(s)' = TradesInMemory(s) /\ RowsOfTrades(s)' = RowsOfTrades(s)
  BY <1>2 DEF TradesInMemory, RowsOfTrades
<1>5. Good(own)'
  <2> SUFFICES ASSUME Clean(own)'
               PROVE  Alone(own)' /\ PositionGood(own)' /\ TradesGood(own)'
    BY DEF Good
  <2>1. Clean(own) /\ own \in Symbols
    BY <1>1, BookStepFacts, ThreadBooks
  <2>2. Alone(own) /\ TradesGood(own)
    BY <2>1 DEF BookInv, Good
  <2>3. Booking(w, own)' /\ ~Joining(w, own) /\ ~Joining(w, own)'
    BY <1>1, <1>2, BookStepFacts DEF Booking, Joining, Books
  <2>4. PositionGood(own)'
    <3>1. Inv'
      BY <1>1, InvKept DEF BookInv
    <3> QED
      BY <2>3, <3>1, PositionMoves
  <2>5. TradesGood(own)'
    BY <1>1, <1>4, <2>2, <2>3, BookStepFacts, TradesStay
  <2> QED
    BY <2>4, <2>5
<1> QED
  BY <1>1, <1>3, <1>4, <1>5, OwnBooks

LEMMA BookPositionKeeps ==
  ASSUME BookInv, NEW w \in Workers, BookPosition(w)
  PROVE  BookTypes' /\ \A s \in Symbols : Good(s)'
<1>1. PICK o : o = orders[order[w]] /\ o.symbol = symbol(w)
  BY DEF symbol
<1>2. BookStep(w) /\ order[w] \in DOMAIN orders /\ symbol(w) \in Symbols
  BY BookStepFacts DEF BookStep
<1>3. o \in StoredOrder /\ o.quantity \in Nat \ {0} /\ position \in [Symbols -> Positions]
      /\ pc \in [Workers -> Steps]
  BY <1>1, <1>2 DEF BookInv, BookTypes, Inv, Types, TypeOK
<1>4. PICK s \in Symbols, P \in Positions : s = symbol(w) /\ P = position[s]
  BY <1>2, <1>3
<1>5. PICK Q \in Positions : Q = ApplyFill(P, o.side, o.quantity, 1)
  <2>1. o.side \in Sides /\ 1 \in Int
    BY <1>3 DEF StoredOrder
  <2> QED
    BY <1>3, <2>1, FillType
<1>6. /\ position' = [position EXCEPT ![s] = Q]
      /\ overlapped' = overlapped \cup {t \in {s} : \E v \in Workers : Booking(v, t)}
      /\ pc' = [pc EXCEPT ![w] = "read_position"]
  BY <1>1, <1>4, <1>5 DEF BookPosition, Goto
<1>7. position' \in [Symbols -> Positions] /\ \A t \in Symbols \ {s} : position'[t] = position[t]
  BY <1>3, <1>4, <1>6
<1>8. ASSUME Clean(s)'
      PROVE  Alone(s)' /\ (Saving(w, s)' => Saved(w, s)') /\ Saving(w, s)'
  <2>1. \A v \in Workers : ~Booking(v, s)
    BY <1>6, <1>8 DEF Clean
  <2>2. \A v \in Workers : Booking(v, s)' => v = w
    BY <1>2, <2>1, BookStepFacts, SameSymbols DEF Booking
  <2>3. pc'[w] = "read_position" /\ symbol(w)' = s
    BY <1>2, <1>3, <1>4, <1>6, BookStepFacts
  <2> QED
    BY <2>2, <2>3 DEF Alone, Saving, Saved, PositionSaves
<1> QED
  BY <1>4, <1>7, <1>8, PositionStep

LEMMA PositionSavesKeep ==
  ASSUME BookInv, NEW w \in Workers,
         ReadPosition(w) \/ SavePosition(w) \/ ClearLots(w) \/ SaveLot(w)
  PROVE  BookTypes' /\ \A s \in Symbols : Good(s)'
<1> USE DEF memory, outer
<1>1. BookStep(w) /\ symbol(w) \in Symbols /\ order[w] \in DOMAIN orders
  BY BookStepFacts DEF BookStep
<1>2. PICK s \in Symbols : s = symbol(w)
  BY <1>1
<1>3. /\ pc \in [Workers -> Steps] /\ DOMAIN snapshot = Workers /\ DOMAIN unsaved = Workers
      /\ DOMAIN t_lots = Symbols /\ position \in [Symbols -> Positions]
  BY DEF BookInv, BookTypes, Inv, Types
<1>4. position' = position
  BY DEF ReadPosition, SavePosition, ClearLots, SaveLot, WithLots
<1>5. PICK P \in Positions, L \in Seq(HeldLots) : P = position[s] /\ L = P.open_lots
  BY <1>2, <1>3 DEF Positions
<1>6. ASSUME Clean(s)'
      PROVE  /\ Alone(s)'
             /\ Saving(w, s)' => Saved(w, s)'
             /\ ~Saving(w, s)' => Settled(s)'
  <2>1. Clean(s)
    BY <1>1, <1>6, BookStepFacts, ThreadBooks
  <2>2. Alone(s) /\ PositionGood(s)
    BY <2>1 DEF BookInv, Good
  <2>3. Saving(w, s) /\ Booking(w, s) /\ Saved(w, s)
    <3>1. pc[w] \in PositionSaves
      BY DEF ReadPosition, SavePosition, ClearLots, SaveLot, PositionSaves
    <3> QED
      BY <1>2, <2>2, <3>1 DEF PositionGood, Saving, Booking, PositionSaves, Books
  <2>4. Alone(s)'
    BY <1>1, <2>2, <2>3, BookStepFacts, AloneStays
  <2>5. CASE ReadPosition(w)
    <3>1. pc'[w] = "save_position" /\ snapshot'[w] = Snapshot(position'[s])
      BY <1>2, <1>3, <1>4, <2>5 DEF ReadPosition, Goto
    <3>2. symbol(w)' = s
      BY <1>1, <1>2, <3>1, BookStepFacts
    <3> QED
      BY <2>4, <3>1, <3>2 DEF Saved, Saving, PositionSaves, Snapshot
  <2>6. CASE SavePosition(w)
    <3>1. pc'[w] = "clear_lots" /\ snapshot' = snapshot /\ pc[w] = "save_position"
      BY <1>3, <2>6 DEF SavePosition, Goto, taken
    <3>2. symbol(w)' = s
      BY <1>1, <1>2, <3>1, BookStepFacts
    <3>3. snapshot[w] = Snapshot(P)
      BY <1>5, <2>3, <3>1 DEF Saved
    <3>4. t_positions' = Put(t_positions, s, [net_quantity |-> NetQuantity(L),
                                              realized_pnl |-> P.realized_pnl])
      BY <1>2, <1>5, <2>6, <3>3 DEF SavePosition, StorePosition, Snapshot
    <3>5. RowMatches(s)'
      BY <1>4, <1>5, <3>4 DEF RowMatches, Put
    <3> QED
      BY <1>4, <1>5, <2>4, <3>1, <3>2, <3>3, <3>5 DEF Saved, Saving, PositionSaves
  <2>7. CASE ClearLots(w)
    <3>1. snapshot[w] = Snapshot(P) /\ RowMatches(s) /\ pc[w] = "clear_lots"
      BY <1>5, <2>3, <2>7 DEF Saved, ClearLots
    <3>2. /\ pc'[w] = IF L = <<>> THEN "match" ELSE "save_lot"
          /\ unsaved'[w] = L /\ snapshot' = snapshot /\ t_positions' = t_positions
          /\ t_lots'[s] = <<>>
      BY <1>2, <1>3, <1>5, <2>7, <3>1 DEF ClearLots, WithLots, DeleteLots, Goto, Snapshot
    <3>3. pc'[w] \in Books /\ symbol(w)' = s
      BY <1>1, <1>2, <3>2, BookStepFacts
    <3>4. RowMatches(s)'
      BY <1>4, <3>1, <3>2 DEF RowMatches
    <3>5. CASE L = <<>>
      BY <1>4, <1>5, <2>4, <3>2, <3>4, <3>5 DEF Saving, PositionSaves, Settled
    <3>6. CASE L # <<>>
      <4>1. Ending(L, L) /\ Upto(L, Len(L) - Len(L)) = <<>>
        BY <3>6, NoneInserted
      <4> QED
        BY <1>4, <1>5, <2>4, <3>1, <3>2, <3>3, <3>4, <3>6, <4>1 DEF Saved, Saving, PositionSaves
    <3> QED
      BY <3>5, <3>6
  <2>8. CASE SaveLot(w)
    <3>1. /\ snapshot[w] = Snapshot(P) /\ RowMatches(s) /\ pc[w] = "save_lot"
          /\ Ending(unsaved[w], L) /\ t_lots[s] = Upto(L, Len(L) - Len(unsaved[w]))
      BY <1>5, <2>3, <2>8 DEF Saved, SaveLot
    <3>2. PICK U, R, k : U = unsaved[w] /\ R = Tail(U) /\ k = Len(L) - Len(U)
      OBVIOUS
    <3>3. /\ Put(Upto(L, k), k + 1, Head(U)) = Upto(L, k + 1)
          /\ R # <<>> => Ending(R, L) /\ Len(L) - Len(R) = k + 1
          /\ R = <<>> => Upto(L, k + 1) = L
      BY <3>1, <3>2, OneInserted
    <3>4. lot_index(w) = k + 1
      BY <1>5, <3>1, <3>2 DEF lot_index, Snapshot
    <3>5. /\ pc'[w] = IF R = <<>> THEN "match" ELSE "save_lot"
          /\ unsaved'[w] = R /\ snapshot' = snapshot /\ t_positions' = t_positions
      BY <1>3, <2>8, <3>2 DEF SaveLot, WithLots, InsertLot, Goto
    <3>6. t_lots'[s] = Upto(L, k + 1)
      BY <1>2, <1>3, <2>8, <3>1, <3>2, <3>3, <3>4 DEF SaveLot, InsertLot
    <3>7. pc'[w] \in Books /\ symbol(w)' = s
      BY <1>1, <1>2, <3>5, BookStepFacts
    <3>8. RowMatches(s)'
      BY <1>4, <3>1, <3>5 DEF RowMatches
    <3>9. CASE R = <<>>
      BY <1>4, <1>5, <2>4, <3>3, <3>5, <3>6, <3>8, <3>9 DEF Saving, PositionSaves, Settled
    <3>10. CASE R # <<>>
      BY <1>4, <1>5, <2>4, <3>1, <3>3, <3>5, <3>6, <3>7, <3>8, <3>10 DEF Saved, Saving, PositionSaves
    <3> QED
      BY <3>9, <3>10
  <2> QED
    BY <2>5, <2>6, <2>7, <2>8
<1> QED
  BY <1>2, <1>3, <1>4, <1>6, PositionStep

----------------------------------------------------------------------------
(***************************************************************************)
(* The steps that book a fill: the ledger and its table.                   *)
(***************************************************************************)
\* The trades of a fill are numbered on from those there are.
LEMMA NumberNew ==
  ASSUME NEW s \in Symbols, NEW N \in Seq(ClosedTrades), trades \in Seq(TradeRows)
  PROVE  /\ Number(s, N) \in Seq(TradeRows)
         /\ \A i \in 1..Len(Number(s, N)) :
              Number(s, N)[i].id[1] = s /\ Number(s, N)[i].id[2] > Len(trades)
         /\ Numbered(Number(s, N), Len(trades))
<1>1. PICK m \in Nat, n \in Nat : m = Len(trades) /\ n = Len(N)
  OBVIOUS
<1>2. PICK U : U = [i \in 1..n |-> [id |-> <<s, m + i>>, trade |-> N[i]]]
  OBVIOUS
<1>3. \A i \in 1..n : N[i] \in ClosedTrades /\ m + i \in Nat
  BY <1>1
<1>4. U \in [1..n -> TradeRows]
  BY <1>2, <1>3 DEF TradeRows
<1>5. U \in Seq(TradeRows) /\ Len(U) = n
  BY <1>4, IsSequence
<1>6. \A i \in 1..n : U[i].id[1] = s /\ U[i].id[2] = m + i
  BY <1>2
<1>7. \A i, j \in 1..n : U[i].id = U[j].id => i = j
  BY <1>2, <1>6
<1>8. \A i \in 1..n : m + i > m /\ m + i <= m + n
  OBVIOUS
<1>9. Numbered(U, m)
  BY <1>5, <1>6, <1>7, <1>8 DEF Numbered
<1>10. Number(s, N) = U
  BY <1>1, <1>2 DEF Number
<1> QED
  BY <1>1, <1>5, <1>6, <1>8, <1>9, <1>10

\* What a fill makes of the lots of its symbol and of its trades.
LEMMA FillMatched ==
  ASSUME BookInv, NEW w \in Workers, MatchTrades(w)
  PROVE  \E L \in Seq(OpenLots), N \in Seq(ClosedTrades) :
           /\ survivors' = [survivors EXCEPT ![w] = L]
           /\ unsaved' = [unsaved EXCEPT ![w] = Number(symbol(w), N)]
<1>1. PICK o : o = orders[order[w]] /\ o.symbol = symbol(w)
  BY DEF symbol
<1>2. symbol(w) \in Symbols /\ order[w] \in DOMAIN orders
  BY BookStepFacts DEF BookStep
<1>3. o \in StoredOrder /\ o.quantity \in Nat \ {0} /\ order[w] \in Nat
      /\ lots \in [Symbols -> Seq(OpenLots)]
  BY <1>1, <1>2 DEF BookInv, BookTypes, Inv, Types, TypeOK
<1>4. PICK x : x = [side |-> o.side, quantity |-> o.quantity, price |-> 1, rank |-> order[w]]
  OBVIOUS
<1>5. IsFill(x)
  BY <1>3, <1>4 DEF IsFill, StoredOrder
<1>6. PICK L \in Seq(OpenLots), T \in Seq(ClosedTrades) : L = lots[o.symbol] /\ T = <<>>
  <2>1. <<>> \in Seq(ClosedTrades)
    OBVIOUS
  <2> QED
    BY <1>1, <1>2, <1>3, <2>1
<1>7. PICK done : done = ApplyToLedger([lots |-> L, trades |-> T], x)
  OBVIOUS
<1>8. Accounted(L, T, x, done)
  BY <1>5, <1>7, ApplyBooks
<1>9. done.lots \in Seq(OpenLots) /\ done.trades \in Seq(ClosedTrades)
  BY <1>8 DEF Accounted
<1>10. /\ survivors' = [survivors EXCEPT ![w] = done.lots]
       /\ unsaved' = [unsaved EXCEPT ![w] = Number(o.symbol, done.trades)]
  <2>1. x = [side |-> orders[order[w]].side, quantity |-> orders[order[w]].quantity,
             price |-> 1, rank |-> order[w]]
    BY <1>1, <1>4
  <2>2. done = ApplyToLedger([lots |-> lots[o.symbol], trades |-> <<>>], x)
    BY <1>6, <1>7
  <2> QED
    BY <1>1, <2>1, <2>2 DEF MatchTrades
<1> QED
  BY <1>1, <1>9, <1>10

\* The trades of a symbol after a step of the only thread that books it.
LEMMA TradesMove ==
  ASSUME NEW w \in Workers, NEW s, \A v \in Workers : Booking(v, s)' => v = w,
         RowsOfTrades(s)' \subseteq TradesInMemory(s)',
         \A t \in TradesInMemory(s)' :
           t \in RowsOfTrades(s)' \/ (symbol(w)' = s /\ Pending(w, t)'),
         \A t, u \in TradesInMemory(s)' : t.id = u.id => t = u,
         Joining(w, s)' =>
           \A i \in 1..Len(unsaved'[w]) :
             IF pc'[w] = "save_trade" THEN unsaved'[w][i] \in TradesInMemory(s)'
             ELSE \A t \in TradesInMemory(s)' : t.id # unsaved'[w][i].id
  PROVE  TradesGood(s)'
<1>1. \A v \in Workers : Joining(v, s)' => v = w
  BY DEF Joining, Booking, LedgerSteps, Books
<1> QED
  BY <1>1 DEF TradesGood

\* Before its trades join, all those of the symbol are in the table.
LEMMA NonePending ==
  ASSUME NEW w \in Workers, NEW s, Alone(s), Booking(w, s), pc[w] # "save_trade", TradesGood(s)
  PROVE  RowsOfTrades(s) = TradesInMemory(s)
<1>1. \A v \in Workers : symbol(v) = s => \A t : ~Pending(v, t)
  BY DEF Pending, Alone, Booking, Books
<1> QED
  BY <1>1 DEF TradesGood

\* A step of the thread that books the trades of a fill.
LEMMA LedgerStep ==
  ASSUME BookInv, NEW w \in Workers, NEW own, own = symbol(w),
         MatchTrades(w) \/ AssignLots(w) \/ ExtendTrades(w) \/ SaveTrade(w),
         \A s \in Symbols \ {own} : TradesInMemory(s)' = TradesInMemory(s),
         Clean(own)' /\ Clean(own) /\ Alone(own) /\ TradesGood(own) => TradesGood(own)'
  PROVE  \A s \in Symbols : Good(s)'
<1> USE DEF memory, outer
<1>1. BookStep(w)
  BY DEF BookStep
<1>2. UNCHANGED <<position, t_positions, t_lots>>
  BY DEF MatchTrades, AssignLots, ExtendTrades, SaveTrade, InsertTrade, tables
<1>3. pc[w] \in Books \ PositionSaves /\ pc'[w] \notin PositionSaves
  <2>1. pc \in [Workers -> Steps]
    BY DEF BookInv, Inv, Types
  <2>2. CASE MatchTrades(w) \/ AssignLots(w)
    BY <2>1, <2>2 DEF MatchTrades, AssignLots, Goto, Books, PositionSaves
  <2>3. CASE ExtendTrades(w) \/ SaveTrade(w)
    BY <2>1, <2>3 DEF ExtendTrades, SaveTrade, Finish, Goto, Books, PositionSaves
  <2> QED
    BY <2>2, <2>3
<1>4. Good(own)'
  <2> SUFFICES ASSUME Clean(own)'
               PROVE  Alone(own)' /\ PositionGood(own)' /\ TradesGood(own)'
    BY DEF Good
  <2>1. Clean(own) /\ own \in Symbols
    BY <1>1, BookStepFacts, ThreadBooks
  <2>2. Alone(own) /\ PositionGood(own) /\ TradesGood(own)
    BY <2>1 DEF BookInv, Good
  <2>3. Booking(w, own)
    BY <1>3 DEF Booking
  <2>4. Alone(own)'
    BY <1>1, <2>2, <2>3, BookStepFacts, AloneStays
  <2>5. PositionGood(own)'
    <3>1. PositionRow(own)' = PositionRow(own) /\ ~Saving(w, own) /\ ~Saving(w, own)'
      BY <1>2, <1>3 DEF PositionRow, Saving
    <3> QED
      BY <1>1, <1>2, <2>2, <3>1, BookStepFacts, PositionStays
  <2> QED
    BY <2>1, <2>2, <2>4, <2>5
<1> QED
  BY <1>1, <1>2, <1>4, OwnBooks

LEMMA MatchTradesKeeps ==
  ASSUME BookInv, NEW w \in Workers, MatchTrades(w)
  PROVE  BookTypes' /\ \A s \in Symbols : Good(s)'
<1> USE DEF memory, outer
<1>1. BookStep(w) /\ symbol(w) \in Symbols
  BY BookStepFacts DEF BookStep
<1>2. PICK s \in Symbols : s = symbol(w)
  BY <1>1
<1>3. /\ pc \in [Workers -> Steps] /\ DOMAIN unsaved = Workers /\ trades \in Seq(TradeRows)
      /\ survivors \in [Workers -> Seq(OpenLots)]
      /\ \A m \in 1..Len(trades) : trades[m].id[2] <= Len(trades)
  BY DEF BookInv, BookTypes, Inv, Types
<1>4. PICK L \in Seq(OpenLots), N \in Seq(ClosedTrades) :
        /\ survivors' = [survivors EXCEPT ![w] = L]
        /\ unsaved' = [unsaved EXCEPT ![w] = Number(s, N)]
  BY <1>2, FillMatched
<1>5. PICK U \in Seq(TradeRows) :
        /\ U = Number(s, N) /\ Numbered(U, Len(trades))
        /\ \A i \in 1..Len(U) : U[i].id[1] = s /\ U[i].id[2] > Len(trades)
  BY <1>3, NumberNew
<1>6. /\ pc[w] = "match" /\ pc'[w] = "assign" /\ unsaved'[w] = U
      /\ UNCHANGED <<position, lots, trades, t_trades>>
  BY <1>3, <1>4, <1>5 DEF MatchTrades, Goto, tables
<1>7. symbol(w)' = s
  BY <1>1, <1>2, <1>6, BookStepFacts
<1>8. BookTypes'
  <2>1. NewTrades(w)'
    BY <1>5, <1>6, <1>7 DEF NewTrades
  <2>2. /\ position' \in [Symbols -> Positions] /\ lots' \in [Symbols -> Seq(OpenLots)]
        /\ trades' \in Seq(TradeRows) /\ Len(trades) <= Len(trades')
        /\ \A m \in 1..Len(trades') : trades'[m].id[2] <= Len(trades')
    BY <1>6 DEF BookInv, BookTypes
  <2>3. survivors' \in [Workers -> Seq(OpenLots)]
    BY <1>3, <1>4
  <2> QED
    BY <1>1, <2>1, <2>2, <2>3, BookStepFacts, BookTypesKept
<1>9. \A x : TradesInMemory(x)' = TradesInMemory(x) /\ RowsOfTrades(x)' = RowsOfTrades(x)
  BY <1>6 DEF TradesInMemory, RowsOfTrades
<1>10. ASSUME Alone(s), TradesGood(s)
       PROVE  TradesGood(s)'
  <2>1. Booking(w, s) /\ RowsOfTrades(s) = TradesInMemory(s)
    <3>1. Booking(w, s)
      BY <1>2, <1>6 DEF Booking, Books
    <3> QED
      BY <1>6, <1>10, <3>1, NonePending
  <2>2. \A v \in Workers : Booking(v, s)' => v = w
    BY <1>1, <1>10, <2>1, BookStepFacts, OthersAbsent
  <2>3. ASSUME NEW i \in 1..Len(U), NEW t \in TradesInMemory(s)
        PROVE  t.id # U[i].id
    <3>0. DOMAIN trades = 1..Len(trades) /\ Len(trades) \in Nat
      BY <1>3
    <3>1. PICK m \in 1..Len(trades) : t = trades[m]
      BY <3>0 DEF TradesInMemory
    <3>2. trades[m] \in TradeRows /\ U[i] \in TradeRows
      BY <1>3
    <3>3. PICK a \in Nat, b \in Nat, k \in Nat : a = trades[m].id[2] /\ b = U[i].id[2] /\ k = Len(trades)
      <4>1. trades[m].id[2] \in Nat /\ U[i].id[2] \in Nat
        BY ONLY <3>2 DEF TradeRows
      <4> QED
        BY <3>0, <4>1
    <3>4. a <= k /\ b > k
      BY <1>3, <1>5, <3>3
    <3> QED
      BY <3>1, <3>3, <3>4
  <2>4. \A t, u \in TradesInMemory(s) : t.id = u.id => t = u
    BY <1>10 DEF TradesGood
  <2> QED
    BY <1>6, <1>9, <2>1, <2>2, <2>3, <2>4, TradesMove
<1>11. \A x \in Symbols : Good(x)'
  BY <1>2, <1>9, <1>10, LedgerStep
<1> QED
  BY <1>8, <1>11

LEMMA AssignLotsKeeps ==
  ASSUME BookInv, NEW w \in Workers, AssignLots(w)
  PROVE  BookTypes' /\ \A s \in Symbols : Good(s)'
<1> USE DEF memory, outer
<1>1. BookStep(w) /\ symbol(w) \in Symbols
  BY BookStepFacts DEF BookStep
<1>2. PICK s \in Symbols : s = symbol(w)
  BY <1>1
<1>3. /\ pc \in [Workers -> Steps] /\ lots \in [Symbols -> Seq(OpenLots)]
      /\ survivors \in [Workers -> Seq(OpenLots)] /\ NewTrades(w)
  BY DEF BookInv, BookTypes, Inv, Types
<1>4. /\ pc[w] = "assign" /\ pc'[w] = "extend"
      /\ lots' = [lots EXCEPT ![s] = survivors[w]]
      /\ UNCHANGED <<position, trades, t_trades, survivors, unsaved>>
  BY <1>2, <1>3 DEF AssignLots, Goto, tables, taken
<1>5. symbol(w)' = s
  BY <1>1, <1>2, <1>4, BookStepFacts
<1>6. BookTypes'
  <2>1. NewTrades(w)'
    BY <1>2, <1>3, <1>4, <1>5 DEF NewTrades, LedgerSteps
  <2>2. /\ position' \in [Symbols -> Positions]
        /\ trades' \in Seq(TradeRows) /\ Len(trades) <= Len(trades')
        /\ \A m \in 1..Len(trades') : trades'[m].id[2] <= Len(trades')
    BY <1>4 DEF BookInv, BookTypes
  <2>3. survivors' \in [Workers -> Seq(OpenLots)] /\ lots' \in [Symbols -> Seq(OpenLots)]
    BY <1>3, <1>4
  <2> QED
    BY <1>1, <2>1, <2>2, <2>3, BookStepFacts, BookTypesKept
<1>7. \A x : TradesInMemory(x)' = TradesInMemory(x) /\ RowsOfTrades(x)' = RowsOfTrades(x)
  BY <1>4 DEF TradesInMemory, RowsOfTrades
<1>8. ASSUME Alone(s), TradesGood(s)
      PROVE  TradesGood(s)'
  <2>1. Booking(w, s) /\ Joining(w, s)
    BY <1>2, <1>4 DEF Booking, Books, Joining, LedgerSteps
  <2>2. RowsOfTrades(s) = TradesInMemory(s)
    BY <1>4, <1>8, <2>1, NonePending
  <2>3. \A v \in Workers : Booking(v, s)' => v = w
    BY <1>1, <1>8, <2>1, BookStepFacts, OthersAbsent
  <2>4. /\ \A t, u \in TradesInMemory(s) : t.id = u.id => t = u
        /\ \A i \in 1..Len(unsaved[w]) : \A t \in TradesInMemory(s) : t.id # unsaved[w][i].id
    BY <1>4, <1>8, <2>1 DEF TradesGood
  <2> QED
    BY <1>4, <1>7, <2>2, <2>3, <2>4, TradesMove
<1>9. \A x \in Symbols : Good(x)'
  BY <1>2, <1>7, <1>8, LedgerStep
<1> QED
  BY <1>6, <1>9

LEMMA ExtendTradesKeeps ==
  ASSUME BookInv, NEW w \in Workers, ExtendTrades(w)
  PROVE  BookTypes' /\ \A s \in Symbols : Good(s)'
<1> USE DEF memory, outer
<1>1. BookStep(w) /\ symbol(w) \in Symbols
  BY BookStepFacts DEF BookStep
<1>2. PICK s \in Symbols : s = symbol(w)
  BY <1>1
<1>3. /\ pc \in [Workers -> Steps] /\ survivors \in [Workers -> Seq(OpenLots)] /\ NewTrades(w)
      /\ trades \in Seq(TradeRows) /\ \A m \in 1..Len(trades) : trades[m].id[2] <= Len(trades)
  BY DEF BookInv, BookTypes, Inv, Types
<1>4. pc[w] = "extend"
  BY DEF ExtendTrades
<1>5. PICK T \in Seq(TradeRows), U \in Seq(TradeRows) :
        /\ T = trades /\ U = unsaved[w] /\ Numbered(U, Len(T))
        /\ \A i \in 1..Len(U) : U[i].id[1] = s
  BY <1>2, <1>3, <1>4 DEF NewTrades, LedgerSteps
<1>6. PICK W \in Seq(TradeRows) : /\ W = T \o U /\ Len(W) = Len(T) + Len(U)
                                  /\ \A x : OfSymbol(W, x) = OfSymbol(T, x) \cup OfSymbol(U, x)
  <2>1. PICK W : W = T \o U
    OBVIOUS
  <2>2. W \in Seq(TradeRows) /\ Len(W) = Len(T) + Len(U)
    BY <2>1, TradesJoin
  <2>3. ASSUME NEW x
        PROVE  OfSymbol(W, x) = OfSymbol(T, x) \cup OfSymbol(U, x)
    BY <2>1, TradesJoin
  <2> QED
    BY <2>1, <2>2, <2>3
<1>7. /\ trades' = W /\ UNCHANGED <<position, lots, t_trades>>
      /\ survivors' \in [Workers -> Seq(OpenLots)]
      /\ \/ U = <<>> /\ pc'[w] = "idle"
         \/ U # <<>> /\ pc'[w] = "save_trade" /\ unsaved'[w] = U
  <2>1. trades' = W /\ UNCHANGED <<position, lots, t_trades>>
    BY <1>5, <1>6 DEF ExtendTrades, tables
  <2>2. CASE U = <<>>
    <3>1. <<>> \in Seq(OpenLots)
      OBVIOUS
    <3> QED
      BY <1>3, <1>5, <2>1, <2>2, <3>1 DEF ExtendTrades, Finish, Goto
  <2>3. CASE U # <<>>
    BY <1>3, <1>5, <2>1, <2>3 DEF ExtendTrades, Goto, taken
  <2> QED
    BY <2>2, <2>3
<1>8. pc'[w] = "save_trade" => symbol(w)' = s
  BY <1>1, <1>2, BookStepFacts
<1>9. BookTypes'
  <2>1. NewTrades(w)'
    BY <1>5, <1>7, <1>8 DEF NewTrades, LedgerSteps
  <2>2. /\ position' \in [Symbols -> Positions] /\ lots' \in [Symbols -> Seq(OpenLots)]
        /\ trades' \in Seq(TradeRows) /\ survivors' \in [Workers -> Seq(OpenLots)]
    BY <1>7 DEF BookInv, BookTypes
  <2>3. PICK m \in Nat, n \in Nat : m = Len(T) /\ n = Len(U) /\ Len(W) = m + n
    BY <1>6
  <2>4. Len(trades) <= Len(trades')
    BY <1>5, <1>7, <2>3
  <2>5. ASSUME NEW i \in 1..Len(W)
        PROVE  W[i].id[2] <= Len(W)
    <3>1. PICK number \in Nat : number = W[i].id[2]
      <4>1. W[i] \in TradeRows
        OBVIOUS
      <4> QED
        BY <4>1 DEF TradeRows
    <3>2. W[i] \in OfSymbol(W, W[i].id[1])
      BY DEF OfSymbol
    <3>3. W[i] \in OfSymbol(T, W[i].id[1]) \/ W[i] \in OfSymbol(U, W[i].id[1])
      BY <1>6, <3>2
    <3>4. CASE W[i] \in OfSymbol(T, W[i].id[1])
      <4>1. PICK j \in 1..Len(T) : W[i] = T[j]
        BY <3>4 DEF OfSymbol
      <4>2. number <= m
        BY <1>3, <1>5, <2>3, <3>1, <4>1
      <4> QED
        BY <2>3, <3>1, <4>2
    <3>5. CASE W[i] \in OfSymbol(U, W[i].id[1])
      <4>1. PICK j \in 1..Len(U) : W[i] = U[j]
        BY <3>5 DEF OfSymbol
      <4> QED
        BY <1>5, <2>3, <3>1, <4>1 DEF Numbered
    <3> QED
      BY <3>3, <3>4, <3>5
  <2> QED
    BY <1>1, <1>7, <2>1, <2>2, <2>4, <2>5, BookStepFacts, BookTypesKept
<1>10. \A x : /\ TradesInMemory(x) = OfSymbol(T, x)
              /\ TradesInMemory(x)' = OfSymbol(T, x) \cup OfSymbol(U, x)
              /\ RowsOfTrades(x)' = RowsOfTrades(x)
  <2>1. \A x : RowsOfTrades(x)' = RowsOfTrades(x)
    BY <1>7 DEF RowsOfTrades
  <2>2. \A x : TradesInMemory(x) = OfSymbol(T, x)
    BY <1>5 DEF TradesInMemory, OfSymbol
  <2>3. \A x : TradesInMemory(x)' = OfSymbol(W, x)
    BY <1>7 DEF TradesInMemory, OfSymbol
  <2> QED
    BY <1>6, <2>1, <2>2, <2>3
<1>11. OfSymbol(U, s) = {U[i] : i \in 1..Len(U)} /\ \A x : x # s => OfSymbol(U, x) = {}
  BY <1>5 DEF OfSymbol
<1>12. ASSUME Alone(s), TradesGood(s)
       PROVE  TradesGood(s)'
  <2>1. Booking(w, s) /\ Joining(w, s)
    BY <1>2, <1>4 DEF Booking, Books, Joining, LedgerSteps
  <2>2. RowsOfTrades(s) = OfSymbol(T, s)
    BY <1>4, <1>10, <1>12, <2>1, NonePending
  <2>3. \A v \in Workers : Booking(v, s)' => v = w
    BY <1>1, <1>12, <2>1, BookStepFacts, OthersAbsent
  <2>4. /\ \A t, u \in OfSymbol(T, s) : t.id = u.id => t = u
        /\ \A i \in 1..Len(U) : \A t \in OfSymbol(T, s) : t.id # U[i].id
    BY <1>4, <1>5, <1>10, <1>12, <2>1 DEF TradesGood
  <2>5. \A t, u \in OfSymbol(U, s) : t.id = u.id => t = u
    BY <1>5, <1>11 DEF Numbered
  <2>6. \A t, u \in TradesInMemory(s)' : t.id = u.id => t = u
    BY <1>10, <1>11, <2>4, <2>5
  <2>7. ASSUME NEW t \in OfSymbol(U, s)
        PROVE  symbol(w)' = s /\ Pending(w, t)'
    <3>1. PICK i \in 1..Len(U) : t = U[i]
      BY <1>11
    <3>2. U # <<>>
      BY <3>1
    <3> QED
      BY <1>7, <1>8, <3>1, <3>2 DEF Pending
  <2>8. Joining(w, s)' => pc'[w] = "save_trade" /\ unsaved'[w] = U
    BY <1>7 DEF Joining, LedgerSteps
  <2>9. \A i \in 1..Len(U) : U[i] \in TradesInMemory(s)'
    BY <1>10, <1>11
  <2> QED
    BY <1>10, <2>2, <2>3, <2>6, <2>7, <2>8, <2>9, TradesMove
<1>13. \A x \in Symbols : Good(x)'
  <2>1. \A x \in Symbols \ {s} : TradesInMemory(x)' = TradesInMemory(x)
    BY <1>10, <1>11
  <2> QED
    BY <1>2, <1>12, <2>1, LedgerStep
<1> QED
  BY <1>9, <1>13

LEMMA SaveTradeKeeps ==
  ASSUME BookInv, NEW w \in Workers, SaveTrade(w)
  PROVE  BookTypes' /\ \A s \in Symbols : Good(s)'
<1> USE DEF memory, outer
<1>1. BookStep(w) /\ symbol(w) \in Symbols
  BY BookStepFacts DEF BookStep
<1>2. PICK s \in Symbols : s = symbol(w)
  BY <1>1
<1>3. /\ pc \in [Workers -> Steps] /\ survivors \in [Workers -> Seq(OpenLots)] /\ NewTrades(w)
      /\ DOMAIN unsaved = Workers
  BY DEF BookInv, BookTypes, Inv, Types
<1>4. pc[w] = "save_trade"
  BY DEF SaveTrade
<1>5. PICK U \in Seq(TradeRows) : /\ U = unsaved[w] /\ U # <<>>
                                  /\ \A i \in 1..Len(U) : U[i].id[1] = s
  BY <1>2, <1>3, <1>4 DEF NewTrades, LedgerSteps
<1>6. PICK h \in TradeRows, R \in Seq(TradeRows), m \in Nat \ {0} :
        /\ h = U[1] /\ h = Head(U) /\ R = Tail(U) /\ Len(U) = m /\ Len(R) = m - 1
        /\ \A i \in 1..(m - 1) : R[i] = U[i + 1]
  <2>1. PICK m \in Nat : m = Len(U)
    OBVIOUS
  <2>2. m # 0
    BY <1>5, <2>1, EmptySeq
  <2>3. PICK h : h = U[1] /\ h = Head(U)
    OBVIOUS
  <2>4. 1 \in 1..Len(U)
    BY <2>1, <2>2
  <2>5. h \in TradeRows
    BY <2>3, <2>4
  <2>6. Tail(U) \in Seq(TradeRows) /\ Len(Tail(U)) = Len(U) - 1
        /\ \A i \in 1..(Len(U) - 1) : Tail(U)[i] = U[i + 1]
    BY <1>5
  <2> QED
    BY <2>1, <2>2, <2>3, <2>5, <2>6
<1>7. /\ UNCHANGED <<position, lots, trades>>
      /\ t_trades' = IF h.id \in DOMAIN t_trades THEN t_trades ELSE Put(t_trades, h.id, h.trade)
      /\ survivors' \in [Workers -> Seq(OpenLots)]
      /\ \/ m = 1 /\ pc'[w] = "idle"
         \/ m # 1 /\ pc'[w] = "save_trade" /\ unsaved'[w] = R
  <2>1. UNCHANGED <<position, lots, trades>>
        /\ t_trades' = IF h.id \in DOMAIN t_trades THEN t_trades ELSE Put(t_trades, h.id, h.trade)
    BY <1>5, <1>6 DEF SaveTrade, InsertTrade
  <2>2. CASE m = 1
    <3>1. <<>> \in Seq(OpenLots)
      OBVIOUS
    <3> QED
      BY <1>3, <1>5, <1>6, <2>1, <2>2, <3>1 DEF SaveTrade, Finish, Goto
  <2>3. CASE m # 1
    BY <1>3, <1>4, <1>5, <1>6, <2>1, <2>3 DEF SaveTrade
  <2> QED
    BY <2>2, <2>3
<1>8. pc'[w] = "save_trade" => symbol(w)' = s
  BY <1>1, <1>2, BookStepFacts
<1>9. ASSUME NEW i \in 1..Len(R)
      PROVE  i + 1 \in 1..Len(U) /\ R[i] = U[i + 1]
  BY <1>6
<1>10. BookTypes'
  <2>1. NewTrades(w)'
    <3>1. m # 1 => R # <<>>
      <4>1. R = <<>> => Len(R) = 0
        OBVIOUS
      <4> QED
        BY <1>6, <4>1
    <3>2. \A i \in 1..Len(R) : R[i].id[1] = s
      BY <1>5, <1>9
    <3> QED
      BY <1>6, <1>7, <1>8, <3>1, <3>2 DEF NewTrades, LedgerSteps
  <2>2. /\ position' \in [Symbols -> Positions] /\ lots' \in [Symbols -> Seq(OpenLots)]
        /\ trades' \in Seq(TradeRows) /\ Len(trades) <= Len(trades')
        /\ \A n \in 1..Len(trades') : trades'[n].id[2] <= Len(trades')
    BY <1>7 DEF BookInv, BookTypes
  <2> QED
    BY <1>1, <1>7, <2>1, <2>2, BookStepFacts, BookTypesKept
<1>11. \A x : TradesInMemory(x)' = TradesInMemory(x)
  BY <1>7 DEF TradesInMemory
<1>12. ASSUME Alone(s), TradesGood(s)
       PROVE  TradesGood(s)'
  <2>1. Booking(w, s) /\ Joining(w, s)
    BY <1>2, <1>4 DEF Booking, Books, Joining, LedgerSteps
  <2>2. \A v \in Workers : Booking(v, s)' => v = w
    BY <1>1, <1>12, <2>1, BookStepFacts, OthersAbsent
  <2>3. /\ RowsOfTrades(s) \subseteq TradesInMemory(s)
        /\ \A t, u \in TradesInMemory(s) : t.id = u.id => t = u
        /\ \A i \in 1..Len(U) : U[i] \in TradesInMemory(s)
    BY <1>4, <1>5, <1>12, <2>1 DEF TradesGood
  <2>4. ASSUME NEW t \in TradesInMemory(s), t \notin RowsOfTrades(s)
        PROVE  \E i \in 1..Len(U) : t = U[i]
    <3>1. PICK v \in Workers : symbol(v) = s /\ Pending(v, t)
      BY <1>12, <2>4 DEF TradesGood
    <3>2. v = w
      BY <1>12, <2>1, <3>1 DEF Pending, Alone, Booking, Books
    <3> QED
      BY <1>5, <3>1, <3>2 DEF Pending
  <2>5. h \in TradesInMemory(s) /\ h.id[1] = s /\ h = [id |-> h.id, trade |-> h.trade]
    <3>1. 1 \in 1..Len(U)
      BY <1>6
    <3> QED
      BY <1>5, <1>6, <2>3, <3>1 DEF TradeRows
  <2>6. RowsOfTrades(s)' = RowsOfTrades(s) \cup {h}
    <3>1. CASE h.id \notin DOMAIN t_trades
      <4>1. /\ DOMAIN t_trades' = DOMAIN t_trades \cup {h.id} /\ t_trades'[h.id] = h.trade
            /\ \A i \in DOMAIN t_trades : t_trades'[i] = t_trades[i]
        BY <1>7, <3>1 DEF Put
      <4> QED
        BY <2>5, <4>1 DEF RowsOfTrades
    <3>2. CASE h.id \in DOMAIN t_trades
      <4>1. PICK r : r = [id |-> h.id, trade |-> t_trades[h.id]]
        OBVIOUS
      <4>2. r \in RowsOfTrades(s)
        BY <2>5, <3>2, <4>1 DEF RowsOfTrades
      <4>3. r = h
        BY <2>3, <2>5, <4>1, <4>2
      <4>4. RowsOfTrades(s)' = RowsOfTrades(s)
        BY <1>7, <3>2 DEF RowsOfTrades
      <4> QED
        BY <4>2, <4>3, <4>4
    <3> QED
      BY <3>1, <3>2
  <2>7. ASSUME NEW t \in TradesInMemory(s), t \notin RowsOfTrades(s)'
        PROVE  symbol(w)' = s /\ Pending(w, t)'
    <3>1. t \notin RowsOfTrades(s) /\ t # h
      BY <2>6, <2>7
    <3>2. PICK i \in 1..m : t = U[i]
      BY <1>6, <2>4, <3>1
    <3>3. i # 1
      BY <1>6, <3>1, <3>2
    <3>4. i - 1 \in 1..(m - 1) /\ (i - 1) + 1 = i /\ m # 1
      BY <3>3
    <3>5. R[i - 1] = t
      BY <1>6, <3>2, <3>4
    <3> QED
      BY <1>6, <1>7, <1>8, <3>4, <3>5 DEF Pending
  <2>8. Joining(w, s)' => pc'[w] = "save_trade" /\ unsaved'[w] = R
    BY <1>7 DEF Joining, LedgerSteps
  <2>9. \A i \in 1..Len(R) : R[i] \in TradesInMemory(s)
    BY <1>9, <2>3
  <2> QED
    BY <1>11, <2>2, <2>3, <2>5, <2>6, <2>7, <2>8, <2>9, TradesMove
<1>13. \A x \in Symbols : Good(x)'
  BY <1>2, <1>11, <1>12, LedgerStep
<1> QED
  BY <1>10, <1>13

LEMMA BookInvKept == BookInv /\ [Next]_vars => BookInv'
<1> SUFFICES ASSUME BookInv, [Next]_vars
             PROVE  BookInv'
  OBVIOUS
<1>1. Inv'
  BY InvKept DEF BookInv
<1>2. BookTypes' /\ \A s \in Symbols : Good(s)'
  <2>1. CASE Restart
    BY <2>1, RestartKeeps
  <2>2. ASSUME NEW w \in Workers, Begin(w) \/ Continue(w)
        PROVE  BookTypes' /\ \A s \in Symbols : Good(s)'
    <3>1. CASE PlainStep(w)
      BY <3>1, PlainStepKeeps
    <3>2. CASE WriteRaises(w)
      BY <3>2, WriteRaisesKeeps
    <3>3. CASE BookPosition(w)
      BY <3>3, BookPositionKeeps
    <3>4. CASE ReadPosition(w) \/ SavePosition(w) \/ ClearLots(w) \/ SaveLot(w)
      BY <3>4, PositionSavesKeep
    <3>5. CASE MatchTrades(w) \/ AssignLots(w) \/ ExtendTrades(w) \/ SaveTrade(w)
      BY <3>5, MatchTradesKeeps, AssignLotsKeeps, ExtendTradesKeeps, SaveTradeKeeps
    <3> QED
      BY <2>2, <3>1, <3>2, <3>3, <3>4, <3>5, StepKinds DEF BookStep
  <2>3. CASE UNCHANGED vars
    <3>1. UNCHANGED <<orders, position, lots, trades, t_positions, t_lots, t_trades, pc, order,
                      snapshot, survivors, unsaved, restarts, cut, overlapped>>
      BY <2>3 DEF vars, memory, tables, locals, taken, outer
    <3>2. BookTypes'
      BY <3>1 DEF BookInv, BookTypes, NewTrades, symbol
    <3>3. ASSUME NEW s \in Symbols
          PROVE  Good(s)'
      <4>1. Clean(s)' = Clean(s) /\ Alone(s)' = Alone(s)
        BY <3>1 DEF Clean, Alone, Booking, symbol
      <4>2. PositionGood(s)' = PositionGood(s)
        BY <3>1 DEF PositionGood, Saving, Saved, Settled, RowMatches, symbol
      <4>3. TradesGood(s)' = TradesGood(s)
        BY <3>1 DEF TradesGood, RowsOfTrades, TradesInMemory, Joining, Pending, symbol
      <4> QED
        BY <4>1, <4>2, <4>3 DEF BookInv, Good
    <3> QED
      BY <3>2, <3>3
  <2> QED
    BY <2>1, <2>2, <2>3 DEF Next
<1> QED
  BY <1>1, <1>2 DEF BookInv

\* Whatever requests come and however threads interleave: when no fill of a
\* symbol is being booked, none overlapped another and none was cut short,
\* clients and the risk check see its position and trades as memory has them,
\* also when fills and failing writes of other symbols went on in between.
THEOREM BooksArePersisted == Spec => []BooksPersisted
<1>1. BookInv => BooksPersisted
  <2> SUFFICES ASSUME BookInv, NEW s \in Symbols, BooksSettled(s)
               PROVE  /\ PositionShown(s) = Snapshot(position[s])
                      /\ Net[s] = NetQuantity(position[s].open_lots)
                      /\ TradesShown(s) = TradesInMemory(s)
    BY DEF BooksPersisted
  <2>1. PositionGood(s) /\ TradesGood(s) /\ \A w \in Workers : ~Booking(w, s)
    BY DEF BooksSettled, Clean, BookInv, Good
  <2>2. Settled(s)
    BY <2>1 DEF PositionGood, Saving, Booking, PositionSaves, Books
  <2>3. RowsOfTrades(s) = TradesInMemory(s)
    BY <2>1 DEF TradesGood, Pending, Booking, Books
  <2>4. PositionShown(s) = Snapshot(position[s])
    BY <2>2 DEF Settled, RowMatches, PositionShown, Snapshot
  <2>5. Net[s] = NetQuantity(position[s].open_lots)
    <3>1. CASE RowMatches(s)
      BY <3>1 DEF RowMatches, Net
    <3>2. CASE s \notin DOMAIN t_positions /\ position[s] = FlatPosition
      <4>1. NetQuantity(position[s].open_lots) = 0
        BY <3>2, SumsEmpty DEF FlatPosition, NetQuantity
      <4> QED
        BY <3>2, <4>1 DEF Net
    <3> QED
      BY <2>2, <3>1, <3>2 DEF Settled
  <2> QED
    BY <2>3, <2>4, <2>5 DEF TradesShown
<1> QED
  BY <1>1, BookInit, BookInvKept, PTL DEF Spec
=============================================================================
