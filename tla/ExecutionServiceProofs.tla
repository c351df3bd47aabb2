----------------------- MODULE ExecutionServiceProofs -----------------------
(***************************************************************************)
(* Theorems about ExecutionService, for any number of threads, orders and  *)
(* requests: first what holds whatever the clients' discipline and the     *)
(* broker's mode, then what needs a discipline, which each theorem names.  *)
(***************************************************************************)
EXTENDS ExecutionService, TLAPS

----------------------------------------------------------------------------
(***************************************************************************)
(* The values the handlers build.                                          *)
(***************************************************************************)
\* There is a request to stand for none.
LEMMA NoRequestType == NoRequest \in Requests
BY ServiceAssumption DEF NoRequest

\* transition() builds an event, which carries no price.
LEMMA TransitionType ==
  ASSUME NEW s \in OrderStatus, NEW t \in OrderStatus
  PROVE  Transition(s, t) \in OrderEvent /\ Transition(s, t).price = 0
BY DEF Transition, OrderEvent

\* The event that stands for none is an event.
LEMMA NoEventType == NoEvent \in OrderEvent
BY TransitionType DEF NoEvent, OrderStatus

\* transition_from_broker_update builds an event from what an update carries.
LEMMA BrokerEventType ==
  ASSUME NEW s \in OrderStatus, NEW b \in UpdateWords,
         NEW q \in FillQuantities, NEW p \in FillPrices
  PROVE  BrokerTransition(s, BROKER_STATUS_MAP[b], q, p) \in OrderEvent
<1>1. BROKER_STATUS_MAP[b] \in OrderStatus
  BY ServiceAssumption DEF BROKER_STATUS_MAP, BrokerWords, OrderStatus
<1>2. q \in Int /\ p \in Int
  BY ServiceAssumption
<1> QED
  BY <1>1, <1>2 DEF BrokerTransition, OrderEvent

\* lifecycle_store.create_order stores an order of the right shape.
LEMMA NewOrderType ==
  ASSUME NEW r \in Requests
  PROVE  NewOrder(r) \in StoredOrder
<1>1. r.symbol \in Symbols /\ r.side \in Sides /\ r.quantity \in Nat /\ r.key \in Keys
  BY ServiceAssumption DEF Keys
<1>2. "CREATED" \in OrderStatus /\ NoExternal \in ExternalIds /\ <<>> \in Seq(OrderEvent)
  BY DEF OrderStatus, ExternalIds
<1> QED
  BY <1>1, <1>2 DEF NewOrder, StoredOrder

\* The first half of append_event changes the status and the external id only.
LEMMA WithStatusType ==
  ASSUME NEW s \in StoredOrder, NEW t \in OrderStatus, NEW x \in ExternalIds
  PROVE  /\ WithStatus(s, t, x) \in StoredOrder
         /\ WithStatus(s, t, x).history = s.history
         /\ WithStatus(s, t, x).symbol = s.symbol
         /\ WithStatus(s, t, x).side = s.side
         /\ WithStatus(s, t, x).quantity = s.quantity
BY DEF StoredOrder, WithStatus

\* The second half of append_event adds one event at the end of the history.
LEMMA WithEventType ==
  ASSUME NEW s \in StoredOrder, NEW e \in OrderEvent
  PROVE  /\ WithEvent(s, e) \in StoredOrder
         /\ WithEvent(s, e).symbol = s.symbol
         /\ WithEvent(s, e).side = s.side
         /\ WithEvent(s, e).quantity = s.quantity
         /\ Len(s.history) \in Nat
         /\ Len(WithEvent(s, e).history) = Len(s.history) + 1
         /\ WithEvent(s, e).history[Len(s.history) + 1] = e
         /\ \A i \in 1..Len(s.history) :
              WithEvent(s, e).history[i] = s.history[i]
<1>1. s.history \in Seq(OrderEvent)
  BY DEF StoredOrder
<1>2. Append(s.history, e) \in Seq(OrderEvent)
  BY <1>1
<1>3. WithEvent(s, e) \in StoredOrder
  BY <1>2 DEF StoredOrder, WithEvent
<1>4. /\ WithEvent(s, e).history = Append(s.history, e)
      /\ WithEvent(s, e).symbol = s.symbol
      /\ WithEvent(s, e).side = s.side
      /\ WithEvent(s, e).quantity = s.quantity
  BY DEF StoredOrder, WithEvent
<1> QED
  BY <1>1, <1>3, <1>4

----------------------------------------------------------------------------
(***************************************************************************)
(* Type correctness, one lemma for each way a step may change the state.   *)
(***************************************************************************)
\* The initial state has the right types.
LEMMA TypeInit == Init => TypeOK
BY NoRequestType, NoEventType
DEF Init, TypeOK, Steps, NoOrder, OrderIds, ExternalIds

\* A request that ends preserves the types, whatever it stored or booked.
LEMMA FinishType ==
  ASSUME TypeOK, NEW w \in Workers, Finish(w),
         UNCHANGED <<created, placed, restarts>>,
         orders' \in [DOMAIN orders -> StoredOrder],
         positions' \in Seq(FillRecord), trades' \in Seq(FillRecord)
  PROVE  TypeOK'
<1>1. DOMAIN orders' = DOMAIN orders
  OBVIOUS
<1> QED
  BY <1>1, NoRequestType, NoEventType
  DEF TypeOK, Finish, Goto, Steps, NoOrder, ExternalIds

\* A thread that turns to a stored order with an event preserves the types.
LEMMA TurnType ==
  ASSUME TypeOK, NEW w \in Workers, NEW o \in DOMAIN orders,
         NEW e \in OrderEvent, NEW step \in Steps \ {"idle", "risk", "create"},
         Turn(w, o, e, step),
         UNCHANGED <<service, created, request, external, at, placed, restarts>>
  PROVE  TypeOK'
BY DEF TypeOK, Turn, Goto, service, OrderIds

\* The broker's answer, as the thread records it, preserves the types.
LEMMA AnswerType ==
  ASSUME TypeOK, NEW w \in Workers, pc[w] = "place",
         NEW t \in OrderStatus, NEW x \in ExternalIds, Answer(w, t, x),
         Hold(order[w]) \/ UNCHANGED placed
  PROVE  TypeOK'
<1>1. order[w] \in DOMAIN orders /\ orders[order[w]] \in StoredOrder
  BY DEF TypeOK
<1>2. /\ order[w] \in OrderIds /\ orders[order[w]].key \in Keys
      /\ orders[order[w]].quantity \in Nat
  BY <1>1 DEF TypeOK, OrderIds, StoredOrder
<1>3. placed' \subseteq [order: OrderIds, key: Keys, quantity: Nat]
  BY <1>2 DEF Hold, TypeOK
<1>4. Transition("SUBMITTED", t) \in OrderEvent
  BY TransitionType DEF OrderStatus
<1>5. "place_set" \in Steps
  BY DEF Steps, SetSteps
<1> QED
  BY <1>3, <1>4, <1>5 DEF TypeOK, Answer, Goto, service

\* A thread that goes on with the same order preserves the types.
LEMMA StoreType ==
  ASSUME TypeOK, NEW w \in Workers,
         pc[w] \notin {"idle", "risk", "create"},
         NEW step \in Steps \ {"idle", "risk", "create"}, Goto(w, step),
         orders' \in [DOMAIN orders -> StoredOrder],
         positions' \in Seq(FillRecord), trades' \in Seq(FillRecord),
         at' \in [Workers -> Nat],
         UNCHANGED <<created, request, order, event, external, placed, restarts>>
  PROVE  TypeOK'
<1>1. DOMAIN orders' = DOMAIN orders
  OBVIOUS
<1> QED
  BY <1>1 DEF TypeOK, Goto

\* What a thread past the creation of its order, or at work on one, holds.
LEMMA OrderInHand ==
  ASSUME TypeOK, NEW w \in Workers, pc[w] \notin {"idle", "risk", "create"}
  PROVE  /\ order[w] \in DOMAIN orders
         /\ orders[order[w]] \in StoredOrder
         /\ order[w] \in OrderIds
         /\ event[w] \in OrderEvent
         /\ external[w] \in ExternalIds
BY DEF TypeOK, OrderIds

\* The first half of append_event preserves the types.
LEMMA SetStatusType ==
  ASSUME TypeOK, NEW w \in Workers, SetStatus(w)
  PROVE  TypeOK'
<1>1. pc[w] \notin {"idle", "risk", "create"}
  BY DEF SetStatus, SetSteps
<1>2. WithStatus(orders[order[w]], event[w].to, external[w]) \in StoredOrder
  BY <1>1, OrderInHand, WithStatusType DEF OrderEvent
<1>3. orders' \in [DOMAIN orders -> StoredOrder]
  BY <1>2 DEF TypeOK, SetStatus
<1>4. PushOf[pc[w]] \in Steps \ {"idle", "risk", "create"}
  BY DEF SetStatus, SetSteps, PushOf, PushSteps, Steps
<1> QED
  BY <1>1, <1>3, <1>4, StoreType DEF SetStatus, TypeOK

\* The second half of append_event leaves a store of the right shape.
LEMMA PushType ==
  ASSUME TypeOK, NEW w \in Workers, pc[w] \in PushSteps, Push(w)
  PROVE  orders' \in [DOMAIN orders -> StoredOrder]
<1>1. pc[w] \notin {"idle", "risk", "create"}
  BY DEF PushSteps
<1>2. WithEvent(orders[order[w]], event[w]) \in StoredOrder
  BY <1>1, OrderInHand, WithEventType
<1> QED
  BY <1>2 DEF TypeOK, Push

\* The creation of an order preserves the types.
LEMMA CreateOrderType ==
  ASSUME TypeOK, NEW w \in Workers, CreateOrder(w)
  PROVE  TypeOK'
<1> DEFINE o == created + 1
<1>1. NewOrder(request[w]) \in StoredOrder
  BY NewOrderType DEF TypeOK
<1>2. orders' = [p \in DOMAIN orders \cup {o} |->
                   IF p = o THEN NewOrder(request[w]) ELSE orders[p]]
  BY DEF CreateOrder
<1>3. DOMAIN orders' = DOMAIN orders \cup {o}
  BY <1>2
<1>4. orders' \in [DOMAIN orders' -> StoredOrder]
  BY <1>1, <1>2, <1>3 DEF TypeOK
<1>5. created' = o /\ created' \in Nat /\ o \in OrderIds /\ DOMAIN orders' \subseteq 1..created'
  BY <1>3 DEF CreateOrder, TypeOK, OrderIds
<1>6. Transition("CREATED", "SUBMITTED") \in OrderEvent
  BY TransitionType DEF OrderStatus
<1>7. /\ "submit_set" \in Steps
      /\ pc' = [pc EXCEPT ![w] = "submit_set"]
      /\ order' = [order EXCEPT ![w] = o]
      /\ event' = [event EXCEPT ![w] = Transition("CREATED", "SUBMITTED")]
  BY DEF CreateOrder, Turn, Goto, Steps, SetSteps
<1>8. \A v \in Workers : IF pc'[v] \in {"idle", "risk", "create"}
                           THEN order'[v] = NoOrder
                           ELSE order'[v] \in DOMAIN orders'
  BY <1>3, <1>7 DEF TypeOK
<1>9. UNCHANGED <<positions, trades, external, at, placed, restarts>>
      /\ request' = [request EXCEPT ![w] = NoRequest]
  BY DEF CreateOrder
<1> QED
  BY <1>4, <1>5, <1>6, <1>7, <1>8, <1>9, NoRequestType DEF TypeOK

\* Appending a fill preserves the types.
LEMMA PushFillType ==
  ASSUME TypeOK, NEW w \in Workers, PushFill(w)
  PROVE  TypeOK'
<1>1. pc[w] \notin {"idle", "risk", "create"}
  BY DEF PushFill
<1>2. orders' \in [DOMAIN orders -> StoredOrder]
  BY PushType DEF PushFill, PushSteps
<1>3. at' \in [Workers -> Nat]
  BY <1>1, OrderInHand, WithEventType DEF PushFill, TypeOK
<1>4. "position" \in Steps \ {"idle", "risk", "create"}
  BY DEF Steps
<1> QED
  BY <1>1, <1>2, <1>3, <1>4, StoreType DEF PushFill, TypeOK

\* All of the broker's answers preserve the types.
LEMMA BrokerAnswerType ==
  ASSUME TypeOK, NEW w \in Workers,
         BrokerAccepts(w) \/ BrokerRejects(w) \/ BrokerFails(w)
  PROVE  TypeOK'
<1>1. pc[w] = "place" /\ (Hold(order[w]) \/ UNCHANGED placed)
  BY DEF BrokerAccepts, BrokerRejects, BrokerFails
<1>2. {"ACKNOWLEDGED", "REJECTED", "ERROR"} \subseteq OrderStatus
  BY DEF OrderStatus
<1>3. LiveExternalId(order[w]) \in ExternalIds /\ NoExternal \in ExternalIds
  BY <1>1, OrderInHand DEF ExternalIds, LiveExternalId
<1>4. PICK t \in OrderStatus, x \in {StubExternalId(order[w]), LiveExternalId(order[w]), NoExternal} :
        Answer(w, t, x)
  BY <1>2 DEF BrokerAccepts, BrokerRejects, BrokerFails
<1>5. StubExternalId(order[w]) \in ExternalIds
  BY <1>1, OrderInHand DEF StubExternalId, ExternalIds, StoredOrder
<1> QED
  BY <1>1, <1>3, <1>4, <1>5, AnswerType

\* What clients begin preserves the types.
LEMMA BeginType ==
  ASSUME TypeOK, NEW w \in Workers, Begin(w)
  PROVE  TypeOK'
<1>1. CASE BeginSubmit(w)
  BY <1>1 DEF TypeOK, BeginSubmit, Idle, Goto, service, Steps
<1>2. CASE RespondDuplicate(w) \/ RejectUpdate(w)
  BY <1>2 DEF TypeOK, RespondDuplicate, RejectUpdate, vars, service, locals
<1>3. CASE BeginUpdate(w)
  <2>1. PICK o \in DOMAIN orders, b \in UpdateWords,
             q \in FillQuantities, p \in FillPrices :
          Turn(w, o, BrokerTransition(orders[o].status, BROKER_STATUS_MAP[b], q, p),
               "update_set")
    BY <1>3 DEF BeginUpdate
  <2>2. BrokerTransition(orders[o].status, BROKER_STATUS_MAP[b], q, p) \in OrderEvent
    BY BrokerEventType DEF TypeOK, StoredOrder
  <2>3. "update_set" \in Steps \ {"idle", "risk", "create"}
    BY DEF Steps, SetSteps
  <2> QED
    BY <1>3, <2>1, <2>2, <2>3, TurnType DEF BeginUpdate
<1>4. CASE BeginCancel(w)
  <2>1. PICK o \in DOMAIN orders :
          Turn(w, o, Transition(orders[o].status, "CANCEL_PENDING"), "cancel_set")
    BY <1>4 DEF BeginCancel
  <2>2. Transition(orders[o].status, "CANCEL_PENDING") \in OrderEvent
    BY TransitionType DEF TypeOK, StoredOrder, OrderStatus
  <2>3. "cancel_set" \in Steps \ {"idle", "risk", "create"}
    BY DEF Steps, SetSteps
  <2> QED
    BY <1>4, <2>1, <2>2, <2>3, TurnType DEF BeginCancel
<1>5. CASE BeginModify(w)
  <2>1. PICK o \in DOMAIN orders : Turn(w, o, NoEvent, "modify_call")
    BY <1>5 DEF BeginModify
  <2>2. "modify_call" \in Steps \ {"idle", "risk", "create"}
    BY DEF Steps
  <2> QED
    BY <1>5, <2>1, <2>2, NoEventType, TurnType DEF BeginModify
<1> QED
  BY <1>1, <1>2, <1>3, <1>4, <1>5 DEF Begin

\* A thread that books a fill finds its event where it put it.
FillInHand ==
  \A w \in Workers : pc[w] \in {"position", "ledger"} =>
    /\ at[w] \in 1..Len(orders[order[w]].history)
    /\ IsBookable(orders[order[w]], orders[order[w]].history[at[w]])

\* What a thread that books has in hand is a fill.
LEMMA FillType ==
  ASSUME TypeOK, FillInHand, NEW w \in Workers, pc[w] \in {"position", "ledger"}
  PROVE  Fill(order[w], orders[order[w]], at[w]) \in FillRecord
<1>1. order[w] \in DOMAIN orders /\ order[w] \in OrderIds
      /\ orders[order[w]] \in StoredOrder
  BY OrderInHand
<1>2. at[w] \in 1..Len(orders[order[w]].history)
  BY DEF FillInHand
<1>3. orders[order[w]].history \in Seq(OrderEvent)
  BY <1>1 DEF StoredOrder
<1>4. orders[order[w]].history[at[w]] \in OrderEvent /\ at[w] \in Nat \ {0}
  BY <1>2, <1>3
<1> QED
  BY <1>1, <1>4 DEF Fill, FillRecord, FilledQuantity, StoredOrder, OrderEvent

\* Whatever a thread does next preserves the types.
LEMMA ContinueType ==
  ASSUME TypeOK, FillInHand, NEW w \in Workers, Continue(w)
  PROVE  TypeOK'
<1> USE DEF service
<1>s. /\ orders \in [DOMAIN orders -> StoredOrder]
      /\ positions \in Seq(FillRecord) /\ trades \in Seq(FillRecord)
      /\ at \in [Workers -> Nat]
  BY DEF TypeOK
<1>1. CASE AcceptRisk(w)
  BY <1>1 DEF TypeOK, AcceptRisk, Goto, Steps
<1>2. CASE RejectRisk(w) \/ ModifyRaises(w)
  BY <1>2, <1>s, FinishType DEF RejectRisk, ModifyRaises
<1>3. CASE CreateOrder(w)
  BY <1>3, CreateOrderType
<1>4. CASE BrokerAccepts(w) \/ BrokerRejects(w) \/ BrokerFails(w)
  BY <1>4, BrokerAnswerType
<1>5. CASE SetStatus(w)
  BY <1>5, SetStatusType
<1>6. CASE PushEvent(w)
  <2>1. orders' \in [DOMAIN orders -> StoredOrder]
    BY <1>6, PushType DEF PushEvent, PushSteps
  <2>2. PICK step \in {"place", "cancel_call"} : Goto(w, step)
    BY <1>6 DEF PushEvent
  <2>3. step \in Steps \ {"idle", "risk", "create"}
    BY DEF Steps
  <2> QED
    BY <1>6, <1>s, <2>1, <2>2, <2>3, StoreType DEF PushEvent
<1>7. CASE PushLastEvent(w)
  <2>1. orders' \in [DOMAIN orders -> StoredOrder]
    BY <1>7, PushType DEF PushLastEvent, PushSteps
  <2> QED
    BY <1>7, <1>s, <2>1, FinishType DEF PushLastEvent
<1>8. CASE PushFill(w)
  BY <1>8, PushFillType
<1>9. CASE BookPosition(w)
  <2>1. positions' \in Seq(FillRecord)
    BY <1>9, <1>s, FillType DEF BookPosition
  <2>2. "ledger" \in Steps \ {"idle", "risk", "create"}
    BY DEF Steps
  <2> QED
    BY <1>9, <1>s, <2>1, <2>2, StoreType DEF BookPosition
<1>10. CASE BookTrade(w)
  <2>1. trades' \in Seq(FillRecord)
    BY <1>10, <1>s, FillType DEF BookTrade
  <2> QED
    BY <1>10, <1>s, <2>1, FinishType DEF BookTrade
<1>11. CASE CallCancel(w)
  <2>1. PICK t \in {"CANCELLED", "ERROR"} :
          Turn(w, order[w], Transition("CANCEL_PENDING", t), "cancel_ack_set")
    BY <1>11 DEF CallCancel
  <2>2. Transition("CANCEL_PENDING", t) \in OrderEvent
    BY TransitionType DEF OrderStatus
  <2>3. "cancel_ack_set" \in Steps \ {"idle", "risk", "create"}
    BY DEF Steps, SetSteps
  <2>4. order[w] \in DOMAIN orders
    BY <1>11, OrderInHand DEF CallCancel
  <2> QED
    BY <1>11, <2>1, <2>2, <2>3, <2>4, TurnType DEF CallCancel
<1>12. CASE CallModify(w)
  <2>1. order[w] \in DOMAIN orders /\ orders[order[w]] \in StoredOrder
    BY <1>12, OrderInHand DEF CallModify
  <2>2. PICK t \in {orders[order[w]].status, "ERROR"} :
          Turn(w, order[w], Transition(orders[order[w]].status, t), "modify_set")
    BY <1>12 DEF CallModify, ModifyTarget
  <2>3. Transition(orders[order[w]].status, t) \in OrderEvent
    BY <2>1, TransitionType DEF OrderStatus, StoredOrder
  <2>4. "modify_set" \in Steps \ {"idle", "risk", "create"}
    BY DEF Steps, SetSteps
  <2> QED
    BY <1>12, <2>1, <2>2, <2>3, <2>4, TurnType DEF CallModify
<1> QED
  BY <1>1, <1>2, <1>3, <1>4, <1>5, <1>6, <1>7, <1>8, <1>9, <1>10, <1>11, <1>12
  DEF Continue

\* A restart preserves the types.
LEMMA RestartType == ASSUME TypeOK, Restart PROVE TypeOK'
BY NoRequestType, NoEventType
DEF Restart, TypeOK, Steps, NoOrder, OrderIds, ExternalIds

----------------------------------------------------------------------------
(***************************************************************************)
(* The inductive invariant.  FillsAccounted speaks of fills a thread is    *)
(* about to book; to be preserved it needs to know that such a thread      *)
(* holds its event alone, that the event is bookable, and that it has not  *)
(* been booked yet.                                                        *)
(***************************************************************************)
Booking == {"position", "ledger"}

InHandOnce ==
  \A v, w \in Workers :
    pc[v] \in Booking /\ pc[w] \in Booking /\ order[v] = order[w] /\ at[v] = at[w]
      => v = w

NotYetBooked ==
  \A w \in Workers :
    /\ pc[w] = "position" => ~Booked(positions, order[w], at[w])
    /\ pc[w] \in Booking => ~Booked(trades, order[w], at[w])

\* Every event a thread is about to append is a transition the state machine
\* allows, and only the events of broker updates carry a price.
MayAppend(step, e) ==
  /\ step \in (SetSteps \cup PushSteps) => CanTransition(e.from, e.to)
  /\ step \in (SetSteps \cup PushSteps) \ {"update_set", "update_push"} =>
       e.price = 0

EventInHand == \A w \in Workers : MayAppend(pc[w], event[w])

Accounted == FillInHand /\ InHandOnce /\ NotYetBooked /\ FillsAccounted

IInv == TypeOK /\ EventInHand /\ HistoryLegal /\ Accounted

----------------------------------------------------------------------------
(***************************************************************************)
(* Most steps leave the fills alone: they keep every event of the store,   *)
(* add at most events that are not booked, touch neither log, and neither  *)
(* start nor end a booking.                                                *)
(***************************************************************************)
IsStore(store) == store \in [DOMAIN store -> StoredOrder]

\* The orders of a store are in another one, with all their events.
StoreKept(store, store2) ==
  /\ DOMAIN store \subseteq DOMAIN store2
  /\ \A o \in DOMAIN store :
       /\ store2[o].symbol = store[o].symbol
       /\ store2[o].side = store[o].side
       /\ store2[o].quantity = store[o].quantity
       /\ Len(store[o].history) <= Len(store2[o].history)
       /\ \A i \in 1..Len(store[o].history) :
            store2[o].history[i] = store[o].history[i]

\* The events of the second store that are not in the first are not booked.
NothingNewBookable(store, store2) ==
  \A o \in DOMAIN store2 : \A i \in 1..Len(store2[o].history) :
    \/ o \in DOMAIN store /\ i \in 1..Len(store[o].history)
    \/ ~IsBookable(store2[o], store2[o].history[i])

HandsKept ==
  \A v \in Workers :
    /\ pc'[v] \in Booking <=> pc[v] \in Booking
    /\ pc[v] \in Booking => pc'[v] = pc[v] /\ order'[v] = order[v] /\ at'[v] = at[v]

\* A history is a finite sequence of events, so its length is a number.
LEMMA HistoryLength ==
  ASSUME NEW store, IsStore(store), NEW o \in DOMAIN store
  PROVE  /\ store[o] \in StoredOrder
         /\ store[o].history \in Seq(OrderEvent)
         /\ Len(store[o].history) \in Nat
BY DEF IsStore, StoredOrder

\* An event that is kept is as bookable as it was, and its fill is the same.
LEMMA KeptFill ==
  ASSUME NEW store, NEW store2, IsStore(store), IsStore(store2),
         StoreKept(store, store2),
         NEW o \in DOMAIN store, NEW i \in 1..Len(store[o].history)
  PROVE  /\ o \in DOMAIN store2
         /\ i \in 1..Len(store2[o].history)
         /\ store2[o].history[i] = store[o].history[i]
         /\ IsBookable(store2[o], store2[o].history[i])
              <=> IsBookable(store[o], store[o].history[i])
         /\ Fill(o, store2[o], i) = Fill(o, store[o], i)
<1>1. o \in DOMAIN store2
  BY DEF StoreKept
<1>2. Len(store[o].history) \in Nat /\ Len(store2[o].history) \in Nat
  BY <1>1, HistoryLength
<1>3. /\ store2[o].symbol = store[o].symbol
      /\ store2[o].side = store[o].side
      /\ store2[o].quantity = store[o].quantity
      /\ Len(store[o].history) <= Len(store2[o].history)
      /\ store2[o].history[i] = store[o].history[i]
  BY DEF StoreKept
<1> QED
  BY <1>1, <1>2, <1>3 DEF IsBookable, Fill, FilledQuantity

\* A booked fill of an event that is kept stays the fill of that event.
LEMMA KeptRealFill ==
  ASSUME NEW store, NEW store2, IsStore(store), IsStore(store2),
         StoreKept(store, store2), NEW f, IsRealFill(store, f)
  PROVE  IsRealFill(store2, f)
<1>1. f.order \in DOMAIN store /\ f.index \in 1..Len(store[f.order].history)
  BY DEF IsRealFill
<1> QED
  BY <1>1, KeptFill DEF IsRealFill

\* Steps that keep the store, the logs and the bookings under way, and append
\* nothing that is to be booked, keep every fill accounted for.
LEMMA Frame ==
  ASSUME TypeOK, TypeOK', Accounted,
         StoreKept(orders, orders'), NothingNewBookable(orders, orders'),
         HandsKept, UNCHANGED <<positions, trades>>
  PROVE  Accounted'
<1> USE DEF Booking
<1>0. IsStore(orders) /\ IsStore(orders')
  BY DEF TypeOK, IsStore
<1>h. \A v \in Workers : pc[v] \in Booking => order[v] \in DOMAIN orders
  BY OrderInHand
<1>1. FillInHand'
  <2> SUFFICES ASSUME NEW w \in Workers, pc'[w] \in Booking
               PROVE  /\ at'[w] \in 1..Len(orders'[order'[w]].history)
                      /\ IsBookable(orders'[order'[w]],
                                    orders'[order'[w]].history[at'[w]])
    BY DEF FillInHand
  <2>1. pc[w] \in Booking /\ order'[w] = order[w] /\ at'[w] = at[w]
    BY DEF HandsKept
  <2>2. order[w] \in DOMAIN orders
    BY <2>1, <1>h
  <2>3. /\ at[w] \in 1..Len(orders[order[w]].history)
        /\ IsBookable(orders[order[w]], orders[order[w]].history[at[w]])
    BY <2>1 DEF Accounted, FillInHand
  <2> QED
    BY <1>0, <2>1, <2>2, <2>3, KeptFill
<1>2. InHandOnce'
  BY DEF Accounted, InHandOnce, HandsKept
<1>3. NotYetBooked'
  BY DEF Accounted, NotYetBooked, HandsKept, Booked
<1>4. BookedOnce(positions)' /\ BookedOnce(trades)'
  BY DEF Accounted, FillsAccounted, BookedOnce
<1>5. BookedFillsAreReal(positions)' /\ BookedFillsAreReal(trades)'
  BY <1>0, KeptRealFill DEF Accounted, FillsAccounted, BookedFillsAreReal
<1>6. NoFillForgotten'
  <2> SUFFICES ASSUME NEW o \in DOMAIN orders', NEW i \in 1..Len(orders'[o].history),
                      IsBookable(orders'[o], orders'[o].history[i])
               PROVE  /\ Booked(positions, o, i)' \/ AboutToBook("position", o, i)'
                      /\ \/ Booked(trades, o, i)'
                         \/ AboutToBook("position", o, i)'
                         \/ AboutToBook("ledger", o, i)'
    BY DEF NoFillForgotten
  <2>1. o \in DOMAIN orders /\ i \in 1..Len(orders[o].history)
    BY DEF NothingNewBookable
  <2>2. IsBookable(orders[o], orders[o].history[i])
    BY <1>0, <2>1, KeptFill
  <2>3. /\ Booked(positions, o, i) \/ AboutToBook("position", o, i)
        /\ \/ Booked(trades, o, i)
           \/ AboutToBook("position", o, i)
           \/ AboutToBook("ledger", o, i)
    BY <2>1, <2>2 DEF Accounted, FillsAccounted, NoFillForgotten
  <2>4. ASSUME NEW step \in Booking, AboutToBook(step, o, i)
        PROVE  AboutToBook(step, o, i)'
    BY <2>4 DEF AboutToBook, HandsKept
  <2> QED
    BY <2>3, <2>4 DEF Booked
<1> QED
  BY <1>1, <1>2, <1>3, <1>4, <1>5, <1>6 DEF Accounted, FillsAccounted

----------------------------------------------------------------------------
(***************************************************************************)
(* What the operations of the store keep.                                  *)
(***************************************************************************)
\* The second store has stored in the place of order o, and is else the first.
Replaced(store, o, stored, store2) ==
  /\ DOMAIN store2 = DOMAIN store
  /\ store2[o] = stored
  /\ \A p \in DOMAIN store \ {o} : store2[p] = store[p]

\* A store that is left alone is kept, and nothing in it is new.
LEMMA SameStore ==
  ASSUME NEW store, IsStore(store)
  PROVE  StoreKept(store, store) /\ NothingNewBookable(store, store)
BY HistoryLength DEF StoreKept, NothingNewBookable

\* The first half of append_event leaves every history as it is.
LEMMA SetStatusKeeps ==
  ASSUME NEW store, IsStore(store), NEW o \in DOMAIN store,
         NEW t \in OrderStatus, NEW x \in ExternalIds,
         NEW store2, Replaced(store, o, WithStatus(store[o], t, x), store2)
  PROVE  /\ StoreKept(store, store2)
         /\ NothingNewBookable(store, store2)
         /\ DOMAIN store2 = DOMAIN store
         /\ \A p \in DOMAIN store : store2[p].history = store[p].history
<1>1. /\ DOMAIN store2 = DOMAIN store
      /\ store2[o] = WithStatus(store[o], t, x)
      /\ \A p \in DOMAIN store \ {o} : store2[p] = store[p]
  BY DEF Replaced
<1>2. /\ store2[o].history = store[o].history
      /\ store2[o].symbol = store[o].symbol
      /\ store2[o].side = store[o].side
      /\ store2[o].quantity = store[o].quantity
  BY <1>1, HistoryLength, WithStatusType
<1>3. \A p \in DOMAIN store : Len(store[p].history) \in Nat
  BY HistoryLength
<1> QED
  BY <1>1, <1>2, <1>3 DEF StoreKept, NothingNewBookable

\* The second half of append_event puts the event at the end of the history of
\* its order and leaves all other events alone.
LEMMA PushKeeps ==
  ASSUME NEW store, IsStore(store), NEW o \in DOMAIN store, NEW e \in OrderEvent,
         NEW store2, Replaced(store, o, WithEvent(store[o], e), store2)
  PROVE  /\ StoreKept(store, store2)
         /\ DOMAIN store2 = DOMAIN store
         /\ Len(store[o].history) \in Nat
         /\ Len(store2[o].history) = Len(store[o].history) + 1
         /\ store2[o].history[Len(store[o].history) + 1] = e
         /\ store2[o].quantity = store[o].quantity
         /\ \A p \in DOMAIN store2 : \A i \in 1..Len(store2[p].history) :
              \/ i \in 1..Len(store[p].history)
              \/ p = o /\ i = Len(store[o].history) + 1
<1>1. /\ DOMAIN store2 = DOMAIN store
      /\ store2[o] = WithEvent(store[o], e)
      /\ \A p \in DOMAIN store \ {o} : store2[p] = store[p]
  BY DEF Replaced
<1>2. \A p \in DOMAIN store : Len(store[p].history) \in Nat
  BY HistoryLength
<1>3. /\ store2[o].symbol = store[o].symbol
      /\ store2[o].side = store[o].side
      /\ store2[o].quantity = store[o].quantity
      /\ Len(store2[o].history) = Len(store[o].history) + 1
      /\ store2[o].history[Len(store[o].history) + 1] = e
      /\ \A i \in 1..Len(store[o].history) :
           store2[o].history[i] = store[o].history[i]
  BY <1>1, HistoryLength, WithEventType
<1>4. StoreKept(store, store2)
  BY <1>1, <1>2, <1>3 DEF StoreKept
<1> QED
  BY <1>1, <1>2, <1>3, <1>4

\* A new order has no events.
LEMMA CreateKeeps ==
  ASSUME NEW store, IsStore(store), NEW o, o \notin DOMAIN store, NEW r,
         NEW store2, store2 = [p \in DOMAIN store \cup {o} |->
                                 IF p = o THEN NewOrder(r) ELSE store[p]]
  PROVE  /\ StoreKept(store, store2)
         /\ NothingNewBookable(store, store2)
         /\ DOMAIN store2 = DOMAIN store \cup {o}
         /\ store2[o].history = <<>>
         /\ \A p \in DOMAIN store : store2[p] = store[p]
<1>1. /\ DOMAIN store2 = DOMAIN store \cup {o}
      /\ store2[o].history = <<>>
      /\ \A p \in DOMAIN store : store2[p] = store[p]
  BY DEF NewOrder
<1>2. \A p \in DOMAIN store : Len(store[p].history) \in Nat
  BY HistoryLength
<1> QED
  BY <1>1, <1>2 DEF StoreKept, NothingNewBookable

----------------------------------------------------------------------------
(***************************************************************************)
(* The steps of a thread that is not booking a fill.                       *)
(***************************************************************************)
Others(w) ==
  \A v \in Workers \ {w} :
    pc'[v] = pc[v] /\ order'[v] = order[v] /\ event'[v] = event[v] /\ at'[v] = at[v]

\* A step of a thread that books nothing before or after it, and that appends
\* at most an event that is not to be booked, preserves the invariant.
LEMMA Quiet ==
  ASSUME IInv, TypeOK', NEW w \in Workers,
         pc[w] \notin Booking, pc'[w] \notin Booking, Others(w),
         UNCHANGED <<positions, trades>>,
         StoreKept(orders, orders'), NothingNewBookable(orders, orders'),
         MayAppend(pc'[w], event'[w]), HistoryLegal'
  PROVE  IInv'
<1>1. HandsKept
  BY DEF Others, HandsKept
<1>2. Accounted'
  BY <1>1, Frame DEF IInv
<1>3. EventInHand'
  BY DEF IInv, EventInHand, Others
<1> QED
  BY <1>2, <1>3 DEF IInv

\* The same for steps that leave the store alone.
LEMMA QuietStoreSame ==
  ASSUME IInv, TypeOK', NEW w \in Workers,
         pc[w] \notin Booking, pc'[w] \notin Booking, Others(w),
         UNCHANGED service, MayAppend(pc'[w], event'[w])
  PROVE  IInv'
<1>1. IsStore(orders)
  BY DEF IInv, TypeOK, IsStore
<1>2. orders' = orders /\ UNCHANGED <<positions, trades>>
  BY DEF service
<1>3. HistoryLegal'
  BY <1>2 DEF IInv, HistoryLegal
<1> QED
  BY <1>1, <1>2, <1>3, SameStore, Quiet

\* What clients begin preserves the invariant.
LEMMA BeginInv ==
  ASSUME IInv, NEW w \in Workers, Begin(w)
  PROVE  IInv'
<1> USE DEF service
<1>t. TypeOK /\ TypeOK'
  BY BeginType DEF IInv
<1>i. pc[w] = "idle" /\ UNCHANGED service
  BY DEF Begin, BeginSubmit, RespondDuplicate, BeginUpdate, RejectUpdate,
         BeginCancel, BeginModify, Idle, vars
<1>d. pc \in [Workers -> Steps] /\ order \in [Workers -> OrderIds \cup {NoOrder}]
      /\ event \in [Workers -> OrderEvent]
  BY <1>t DEF TypeOK
<1>1. CASE BeginSubmit(w)
  <2>1. pc'[w] = "risk" /\ Others(w)
    BY <1>1, <1>d DEF BeginSubmit, Goto, Others
  <2> QED
    BY <1>t, <1>i, <2>1, QuietStoreSame
    DEF Booking, MayAppend, SetSteps, PushSteps
<1>2. CASE RespondDuplicate(w) \/ RejectUpdate(w)
  <2>1. pc'[w] = "idle" /\ Others(w)
    BY <1>2, <1>i DEF RespondDuplicate, RejectUpdate, vars, locals, Others
  <2> QED
    BY <1>t, <1>i, <2>1, QuietStoreSame
    DEF Booking, MayAppend, SetSteps, PushSteps
<1>3. CASE BeginUpdate(w)
  <2>1. PICK o \in DOMAIN orders, b \in UpdateWords,
             q \in FillQuantities, p \in FillPrices :
          /\ CanTransition(orders[o].status, BROKER_STATUS_MAP[b])
          /\ Turn(w, o, BrokerTransition(orders[o].status, BROKER_STATUS_MAP[b], q, p),
                  "update_set")
    BY <1>3 DEF BeginUpdate
  <2>2. /\ pc'[w] = "update_set" /\ Others(w)
        /\ event'[w] = BrokerTransition(orders[o].status, BROKER_STATUS_MAP[b], q, p)
    BY <1>3, <1>d, <2>1 DEF BeginUpdate, Turn, Goto, Others
  <2>3. MayAppend(pc'[w], event'[w])
    BY <2>1, <2>2 DEF MayAppend, BrokerTransition
  <2> QED
    BY <1>t, <1>i, <2>2, <2>3, QuietStoreSame DEF Booking
<1>4. CASE BeginCancel(w)
  <2>1. PICK o \in DOMAIN orders :
          /\ orders[o].status \in Workable
          /\ Turn(w, o, Transition(orders[o].status, "CANCEL_PENDING"), "cancel_set")
    BY <1>4 DEF BeginCancel
  <2>2. /\ pc'[w] = "cancel_set" /\ Others(w)
        /\ event'[w] = Transition(orders[o].status, "CANCEL_PENDING")
    BY <1>4, <1>d, <2>1 DEF BeginCancel, Turn, Goto, Others
  <2>3. CanTransition(orders[o].status, "CANCEL_PENDING")
    BY <2>1 DEF Workable, CanTransition, ALLOWED_TRANSITIONS, OrderStatus
  <2>4. MayAppend(pc'[w], event'[w])
    BY <2>2, <2>3 DEF MayAppend, Transition
  <2> QED
    BY <1>t, <1>i, <2>2, <2>4, QuietStoreSame DEF Booking
<1>5. CASE BeginModify(w)
  <2>1. pc'[w] = "modify_call" /\ Others(w)
    BY <1>5, <1>d DEF BeginModify, Turn, Goto, Others
  <2> QED
    BY <1>t, <1>i, <2>1, QuietStoreSame
    DEF Booking, MayAppend, SetSteps, PushSteps
<1> QED
  BY <1>1, <1>2, <1>3, <1>4, <1>5 DEF Begin

\* A request that ends moves its own thread only, which then holds no event.
LEMMA FinishEffect ==
  ASSUME TypeOK, NEW w \in Workers, Finish(w)
  PROVE  pc'[w] = "idle" /\ Others(w) /\ MayAppend(pc'[w], event'[w])
<1>1. pc'[w] = "idle" /\ Others(w)
  BY DEF TypeOK, Finish, Goto, Others
<1> QED
  BY <1>1 DEF MayAppend, SetSteps, PushSteps

\* The broker's answer to a submission preserves the invariant.
LEMMA BrokerAnswerInv ==
  ASSUME IInv, NEW w \in Workers,
         BrokerAccepts(w) \/ BrokerRejects(w) \/ BrokerFails(w)
  PROVE  IInv'
<1>1. TypeOK /\ TypeOK'
  BY BrokerAnswerType DEF IInv
<1>2. PICK t \in {"ACKNOWLEDGED", "REJECTED", "ERROR"},
           x \in {StubExternalId(order[w]), LiveExternalId(order[w]), NoExternal} :
        Answer(w, t, x)
  BY DEF BrokerAccepts, BrokerRejects, BrokerFails
<1>3. pc[w] = "place"
  BY DEF BrokerAccepts, BrokerRejects, BrokerFails
<1>4. /\ pc'[w] = "place_set" /\ event'[w] = Transition("SUBMITTED", t)
      /\ Others(w) /\ UNCHANGED service
  BY <1>1, <1>2 DEF Answer, Goto, TypeOK, Others
<1>5. CanTransition("SUBMITTED", t)
  BY DEF CanTransition, ALLOWED_TRANSITIONS, OrderStatus
<1>6. MayAppend(pc'[w], event'[w])
  BY <1>4, <1>5 DEF MayAppend, Transition
<1> QED
  BY <1>1, <1>3, <1>4, <1>6, QuietStoreSame DEF Booking

\* The creation of an order preserves the invariant.
LEMMA CreateOrderInv ==
  ASSUME IInv, NEW w \in Workers, CreateOrder(w)
  PROVE  IInv'
<1> DEFINE o == created + 1
<1>1. TypeOK /\ TypeOK'
  BY CreateOrderType DEF IInv
<1>2. o \notin DOMAIN orders /\ IsStore(orders)
  BY <1>1 DEF TypeOK, IsStore
<1>3. orders' = [p \in DOMAIN orders \cup {o} |->
                   IF p = o THEN NewOrder(request[w]) ELSE orders[p]]
  BY DEF CreateOrder
<1>4. /\ StoreKept(orders, orders') /\ NothingNewBookable(orders, orders')
      /\ DOMAIN orders' = DOMAIN orders \cup {o}
      /\ orders'[o].history = <<>>
      /\ \A p \in DOMAIN orders : orders'[p] = orders[p]
  BY <1>2, <1>3, CreateKeeps
<1>5. HistoryLegal'
  BY <1>4 DEF IInv, HistoryLegal
<1>6. /\ pc[w] = "create" /\ pc'[w] = "submit_set" /\ Others(w)
      /\ event'[w] = Transition("CREATED", "SUBMITTED")
      /\ UNCHANGED <<positions, trades>>
  BY <1>1 DEF CreateOrder, Turn, Goto, TypeOK, Others
<1>7. CanTransition("CREATED", "SUBMITTED")
  BY DEF CanTransition, ALLOWED_TRANSITIONS, OrderStatus
<1>8. MayAppend(pc'[w], event'[w])
  BY <1>6, <1>7 DEF MayAppend, Transition
<1> QED
  BY <1>1, <1>4, <1>5, <1>6, <1>8, Quiet DEF Booking

\* The first half of append_event preserves the invariant.
LEMMA SetStatusInv ==
  ASSUME IInv, NEW w \in Workers, SetStatus(w)
  PROVE  IInv'
<1>1. TypeOK /\ TypeOK' /\ IsStore(orders)
  BY SetStatusType DEF IInv, TypeOK, IsStore
<1>2. pc[w] \notin {"idle", "risk", "create"}
  BY DEF SetStatus, SetSteps
<1>3. /\ order[w] \in DOMAIN orders /\ event[w].to \in OrderStatus
      /\ external[w] \in ExternalIds
  BY <1>1, <1>2, OrderInHand DEF OrderEvent
<1>4. Replaced(orders, order[w],
               WithStatus(orders[order[w]], event[w].to, external[w]), orders')
  BY <1>1, <1>3 DEF SetStatus, TypeOK, Replaced
<1>5. /\ StoreKept(orders, orders') /\ NothingNewBookable(orders, orders')
      /\ DOMAIN orders' = DOMAIN orders
      /\ \A p \in DOMAIN orders : orders'[p].history = orders[p].history
  BY <1>1, <1>3, <1>4, SetStatusKeeps
<1>6. HistoryLegal'
  BY <1>5 DEF IInv, HistoryLegal
<1>7. /\ pc[w] \in SetSteps /\ pc'[w] = PushOf[pc[w]] /\ Others(w)
      /\ event' = event /\ UNCHANGED <<positions, trades>>
  BY <1>1 DEF SetStatus, Goto, TypeOK, Others
<1>8. pc'[w] \in PushSteps /\ (pc'[w] = "update_push" <=> pc[w] = "update_set")
  BY <1>7 DEF PushOf, PushSteps, SetSteps
<1>9. pc[w] \notin Booking /\ pc'[w] \notin Booking
  BY <1>7, <1>8 DEF Booking, SetSteps, PushSteps
<1>10. MayAppend(pc[w], event[w])
  BY DEF IInv, EventInHand
<1>11. MayAppend(pc'[w], event'[w])
  BY <1>7, <1>8, <1>10 DEF MayAppend, SetSteps, PushSteps
<1> QED
  BY <1>1, <1>5, <1>6, <1>7, <1>9, <1>11, Quiet

\* The second half of append_event keeps histories legal.
LEMMA PushLegal ==
  ASSUME IInv, NEW w \in Workers, pc[w] \in PushSteps, Push(w)
  PROVE  /\ HistoryLegal'
         /\ order[w] \in DOMAIN orders /\ event[w] \in OrderEvent
         /\ Replaced(orders, order[w], WithEvent(orders[order[w]], event[w]), orders')
<1>1. order[w] \in DOMAIN orders /\ event[w] \in OrderEvent /\ IsStore(orders)
  BY OrderInHand DEF IInv, TypeOK, IsStore, PushSteps
<1>r. Replaced(orders, order[w], WithEvent(orders[order[w]], event[w]), orders')
  BY <1>1 DEF Push, IInv, TypeOK, Replaced
<1>2. /\ StoreKept(orders, orders')
      /\ DOMAIN orders' = DOMAIN orders
      /\ orders'[order[w]].history[Len(orders[order[w]].history) + 1] = event[w]
      /\ \A p \in DOMAIN orders' : \A i \in 1..Len(orders'[p].history) :
           \/ i \in 1..Len(orders[p].history)
           \/ p = order[w] /\ i = Len(orders[order[w]].history) + 1
  BY <1>1, <1>r, PushKeeps
<1>3. CanTransition(event[w].from, event[w].to)
  BY DEF IInv, EventInHand, MayAppend
<1>4. HistoryLegal'
  BY <1>2, <1>3 DEF IInv, HistoryLegal, StoreKept
<1> QED
  BY <1>1, <1>r, <1>4

\* Appending an event that is not to be booked preserves the invariant.
LEMMA PushInv ==
  ASSUME IInv, TypeOK', NEW w \in Workers, pc[w] \in PushSteps, Push(w),
         ~IsBookable(orders[order[w]], event[w]),
         pc'[w] \notin Booking, Others(w), UNCHANGED <<positions, trades>>,
         MayAppend(pc'[w], event'[w])
  PROVE  IInv'
<1>1. /\ HistoryLegal' /\ order[w] \in DOMAIN orders /\ event[w] \in OrderEvent
      /\ Replaced(orders, order[w], WithEvent(orders[order[w]], event[w]), orders')
  BY PushLegal
<1>2. IsStore(orders)
  BY DEF IInv, TypeOK, IsStore
<1>3. StoreKept(orders, orders') /\ NothingNewBookable(orders, orders')
  <2>1. /\ StoreKept(orders, orders')
        /\ DOMAIN orders' = DOMAIN orders
        /\ orders'[order[w]].history[Len(orders[order[w]].history) + 1] = event[w]
        /\ orders'[order[w]].quantity = orders[order[w]].quantity
        /\ \A p \in DOMAIN orders' : \A i \in 1..Len(orders'[p].history) :
             \/ i \in 1..Len(orders[p].history)
             \/ p = order[w] /\ i = Len(orders[order[w]].history) + 1
    BY <1>1, <1>2, PushKeeps
  <2>2. ~IsBookable(orders'[order[w]], event[w])
    BY <2>1 DEF IsBookable, FilledQuantity
  <2> QED
    BY <2>1, <2>2 DEF NothingNewBookable
<1>4. pc[w] \notin Booking
  BY DEF PushSteps, Booking
<1> QED
  BY <1>1, <1>3, <1>4, Quiet

\* The ends of append_event that book nothing preserve the invariant.
LEMMA PushEventInv ==
  ASSUME IInv, TypeOK', NEW w \in Workers, PushEvent(w) \/ PushLastEvent(w)
  PROVE  IInv'
<1>1. pc[w] \in PushSteps /\ Push(w) /\ UNCHANGED <<positions, trades>>
  BY DEF PushEvent, PushLastEvent, PushSteps
<1>2. ~IsBookable(orders[order[w]], event[w])
  <2>1. CASE pc[w] = "update_push"
    BY <2>1 DEF PushEvent, PushLastEvent
  <2>2. CASE pc[w] # "update_push"
    <3>1. event[w].price = 0
      BY <1>1, <2>2 DEF IInv, EventInHand, MayAppend, PushSteps, SetSteps
    <3> QED
      BY <3>1 DEF IsBookable
  <2> QED
    BY <2>1, <2>2
<1>3. CASE PushEvent(w)
  <2>1. pc'[w] \in {"place", "cancel_call"} /\ Others(w)
    BY <1>3 DEF PushEvent, Goto, IInv, TypeOK, Others
  <2>2. pc'[w] \notin Booking /\ MayAppend(pc'[w], event'[w])
    BY <2>1 DEF Booking, MayAppend, SetSteps, PushSteps
  <2> QED
    BY <1>1, <1>2, <2>1, <2>2, PushInv
<1>4. CASE PushLastEvent(w)
  <2>1. pc'[w] = "idle" /\ Others(w) /\ MayAppend(pc'[w], event'[w])
    BY <1>4, FinishEffect DEF PushLastEvent, IInv
  <2> QED
    BY <1>1, <1>2, <2>1, PushInv DEF Booking
<1> QED
  BY <1>3, <1>4

----------------------------------------------------------------------------
(***************************************************************************)
(* The steps that book a fill.                                             *)
(***************************************************************************)
\* A fill is appended to the history and the thread takes it in hand: nobody
\* else holds it and no log has it, as its place in the history is new.
LEMMA PushFillInv ==
  ASSUME IInv, NEW w \in Workers, PushFill(w)
  PROVE  IInv'
<1> DEFINE o == order[w]
           k == Len(orders[o].history) + 1
<1>t. TypeOK /\ TypeOK' /\ IsStore(orders) /\ IsStore(orders')
  BY PushFillType DEF IInv, TypeOK, IsStore
<1>1. /\ HistoryLegal' /\ o \in DOMAIN orders /\ event[w] \in OrderEvent
      /\ Replaced(orders, o, WithEvent(orders[o], event[w]), orders')
  BY PushLegal DEF PushFill, PushSteps
<1>2. /\ StoreKept(orders, orders')
      /\ DOMAIN orders' = DOMAIN orders
      /\ k - 1 \in Nat
      /\ Len(orders'[o].history) = k
      /\ orders'[o].history[k] = event[w]
      /\ orders'[o].quantity = orders[o].quantity
      /\ \A p \in DOMAIN orders' : \A i \in 1..Len(orders'[p].history) :
           i \in 1..Len(orders[p].history) \/ (p = o /\ i = k)
  BY <1>t, <1>1, PushKeeps
<1>3. /\ pc[w] = "update_push" /\ pc'[w] = "position" /\ at'[w] = k
      /\ order' = order /\ event' = event
      /\ Others(w) /\ UNCHANGED <<positions, trades>>
  BY <1>t DEF PushFill, Goto, TypeOK, Others
<1>4. IsBookable(orders'[o], orders'[o].history[k])
  BY <1>2 DEF PushFill, IsBookable, FilledQuantity
<1>5. \A v \in Workers \ {w} : pc[v] \in Booking =>
        /\ order[v] \in DOMAIN orders
        /\ at[v] \in 1..Len(orders[order[v]].history)
        /\ IsBookable(orders[order[v]], orders[order[v]].history[at[v]])
  BY <1>t, OrderInHand DEF IInv, Accounted, FillInHand, Booking
<1>6. FillInHand'
  <2> SUFFICES ASSUME NEW v \in Workers, pc'[v] \in Booking
               PROVE  /\ at'[v] \in 1..Len(orders'[order'[v]].history)
                      /\ IsBookable(orders'[order'[v]],
                                    orders'[order'[v]].history[at'[v]])
    BY DEF FillInHand, Booking
  <2>1. CASE v = w
    BY <1>2, <1>3, <1>4, <2>1
  <2>2. CASE v # w
    <3>1. pc[v] \in Booking /\ order'[v] = order[v] /\ at'[v] = at[v]
      BY <1>3, <2>2 DEF Others
    <3> QED
      BY <1>t, <1>2, <1>5, <2>2, <3>1, KeptFill
  <2> QED
    BY <2>1, <2>2
<1>7. \A v \in Workers \ {w} : pc[v] \in Booking => ~(order[v] = o /\ at[v] = k)
  BY <1>2, <1>5
<1>8. InHandOnce'
  BY <1>3, <1>7 DEF IInv, Accounted, InHandOnce, Others, Booking
<1>9. ~Booked(positions, o, k) /\ ~Booked(trades, o, k)
  BY <1>2 DEF IInv, Accounted, FillsAccounted, BookedFillsAreReal, IsRealFill, Booked
<1>10. NotYetBooked'
  BY <1>3, <1>9 DEF IInv, Accounted, NotYetBooked, Others, Booked, Booking
<1>11. BookedOnce(positions)' /\ BookedOnce(trades)'
  BY <1>3 DEF IInv, Accounted, FillsAccounted, BookedOnce
<1>12. BookedFillsAreReal(positions)' /\ BookedFillsAreReal(trades)'
  BY <1>t, <1>2, <1>3, KeptRealFill
  DEF IInv, Accounted, FillsAccounted, BookedFillsAreReal
<1>13. NoFillForgotten'
  <2> SUFFICES ASSUME NEW p \in DOMAIN orders', NEW i \in 1..Len(orders'[p].history),
                      IsBookable(orders'[p], orders'[p].history[i])
               PROVE  /\ Booked(positions, p, i)' \/ AboutToBook("position", p, i)'
                      /\ \/ Booked(trades, p, i)'
                         \/ AboutToBook("position", p, i)'
                         \/ AboutToBook("ledger", p, i)'
    BY DEF NoFillForgotten
  <2>1. CASE p = o /\ i = k
    BY <1>3, <2>1 DEF AboutToBook
  <2>2. CASE i \in 1..Len(orders[p].history)
    <3>1. IsBookable(orders[p], orders[p].history[i])
      BY <1>t, <1>2, <2>2, KeptFill
    <3>2. /\ Booked(positions, p, i) \/ AboutToBook("position", p, i)
          /\ \/ Booked(trades, p, i)
             \/ AboutToBook("position", p, i)
             \/ AboutToBook("ledger", p, i)
      BY <1>2, <2>2, <3>1 DEF IInv, Accounted, FillsAccounted, NoFillForgotten
    <3>3. ASSUME NEW step \in Booking, AboutToBook(step, p, i)
          PROVE  AboutToBook(step, p, i)'
      <4>1. PICK v \in Workers : pc[v] = step /\ order[v] = p /\ at[v] = i
        BY <3>3 DEF AboutToBook
      <4>2. v # w
        BY <1>3, <4>1 DEF Booking
      <4> QED
        BY <1>3, <4>1, <4>2 DEF AboutToBook, Others
    <3> QED
      BY <1>3, <3>2, <3>3 DEF Booked, Booking
  <2> QED
    BY <1>2, <2>1, <2>2
<1>14. EventInHand'
  BY <1>3 DEF IInv, EventInHand, MayAppend, SetSteps, PushSteps, Others
<1> QED
  BY <1>t, <1>1, <1>6, <1>8, <1>10, <1>11, <1>12, <1>13, <1>14
  DEF IInv, Accounted, FillsAccounted

\* The second log is the first with fill f at its end.
Grows(log, f, log2) ==
  /\ Len(log) \in Nat
  /\ Len(log2) = Len(log) + 1
  /\ log2[Len(log) + 1] = f
  /\ \A n \in 1..Len(log) : log2[n] = log[n]

AllReal(store, log) == \A n \in 1..Len(log) : IsRealFill(store, log[n])

\* One more fill at the end of a log: the log still books every fill once when
\* this one was not in it, and still books real fills only when this one is.
LEMMA LogGrows ==
  ASSUME NEW store, NEW log, NEW f, NEW log2, Grows(log, f, log2),
         IsRealFill(store, f), AllReal(store, log), BookedOnce(log),
         ~Booked(log, f.order, f.index)
  PROVE  AllReal(store, log2) /\ BookedOnce(log2)
<1>1. \A n \in 1..Len(log2) : n \in 1..Len(log) \/ n = Len(log) + 1
  BY DEF Grows
<1>2. AllReal(store, log2)
  BY <1>1 DEF Grows, AllReal
<1>3. BookedOnce(log2)
  BY <1>1 DEF Grows, BookedOnce, Booked
<1> QED
  BY <1>2, <1>3

\* A log that grows by a fill has booked that fill and what it had booked.
LEMMA GrownBooked ==
  ASSUME NEW log, NEW f, NEW log2, Grows(log, f, log2), NEW o, NEW i
  PROVE  Booked(log2, o, i) <=> Booked(log, o, i) \/ (o = f.order /\ i = f.index)
<1>1. \A n \in 1..Len(log2) : n \in 1..Len(log) \/ n = Len(log) + 1
  BY DEF Grows
<1>2. 1..Len(log) \subseteq 1..Len(log2) /\ Len(log) + 1 \in 1..Len(log2)
  BY DEF Grows
<1> QED
  BY <1>1, <1>2 DEF Grows, Booked

\* What a thread that books has in hand is the fill of its event.
LEMMA FillInHandIsReal ==
  ASSUME TypeOK, FillInHand, NEW w \in Workers, pc[w] \in Booking
  PROVE  /\ Fill(order[w], orders[order[w]], at[w]) \in FillRecord
         /\ Fill(order[w], orders[order[w]], at[w]).order = order[w]
         /\ Fill(order[w], orders[order[w]], at[w]).index = at[w]
         /\ IsRealFill(orders, Fill(order[w], orders[order[w]], at[w]))
<1>1. Fill(order[w], orders[order[w]], at[w]) \in FillRecord
  BY FillType DEF Booking
<1>2. /\ Fill(order[w], orders[order[w]], at[w]).order = order[w]
      /\ Fill(order[w], orders[order[w]], at[w]).index = at[w]
  BY DEF Fill
<1>3. order[w] \in DOMAIN orders
  BY OrderInHand DEF Booking
<1> QED
  BY <1>1, <1>2, <1>3 DEF IsRealFill, FillInHand, Booking

\* Booking the fill in hand to the positions preserves the invariant.
LEMMA BookPositionInv ==
  ASSUME IInv, NEW w \in Workers, BookPosition(w)
  PROVE  IInv'
<1> DEFINE f == Fill(order[w], orders[order[w]], at[w])
<1>a. Accounted /\ FillInHand /\ InHandOnce /\ NotYetBooked /\ FillsAccounted
  BY DEF IInv, Accounted
<1>t. TypeOK /\ TypeOK'
  BY <1>a, ContinueType DEF IInv, Continue
<1>1. /\ pc[w] = "position" /\ pc'[w] = "ledger" /\ Others(w)
      /\ positions' = Append(positions, f)
      /\ UNCHANGED <<orders, trades, order, event, at>>
  BY <1>t DEF BookPosition, Goto, TypeOK, Others
<1>2. /\ f \in FillRecord /\ IsRealFill(orders, f)
      /\ f.order = order[w] /\ f.index = at[w]
  BY <1>t, <1>a, <1>1, FillInHandIsReal DEF Booking
<1>3. ~Booked(positions, f.order, f.index)
  BY <1>a, <1>1, <1>2 DEF NotYetBooked
<1>g. Grows(positions, f, positions')
  BY <1>t, <1>1, <1>2 DEF TypeOK, Grows
<1>4. AllReal(orders, positions') /\ BookedOnce(positions')
  <2>1. AllReal(orders, positions) /\ BookedOnce(positions)
    BY <1>a DEF FillsAccounted, BookedFillsAreReal, AllReal
  <2> HIDE DEF f
  <2> QED
    BY <1>2, <1>3, <1>g, <2>1, LogGrows
<1> HIDE DEF f
<1>5. FillInHand'
  BY <1>a, <1>1 DEF FillInHand, Others
<1>6. InHandOnce'
  BY <1>a, <1>1 DEF InHandOnce, Others, Booking
<1>7. \A o, i : Booked(positions, o, i)'
                  <=> Booked(positions, o, i) \/ (o = order[w] /\ i = at[w])
  <2>1. \A o, i : Booked(positions', o, i)
                    <=> Booked(positions, o, i) \/ (o = order[w] /\ i = at[w])
    BY <1>2, <1>g, GrownBooked
  <2> QED
    BY <2>1 DEF Booked
<1>8. NotYetBooked'
  <2>1. \A v \in Workers \ {w} :
          pc[v] = "position" => ~(order[v] = order[w] /\ at[v] = at[w])
    BY <1>a, <1>1 DEF InHandOnce, Booking
  <2>2. ASSUME NEW v \in Workers, pc'[v] = "position"
        PROVE  ~Booked(positions, order[v], at[v])'
    <3>1. v # w /\ pc[v] = "position" /\ order'[v] = order[v] /\ at'[v] = at[v]
      BY <1>1, <2>2 DEF Others
    <3> QED
      BY <1>a, <1>7, <2>1, <3>1 DEF NotYetBooked
  <2>3. ASSUME NEW v \in Workers, pc'[v] \in Booking
        PROVE  ~Booked(trades, order[v], at[v])'
    <3>1. pc[v] \in Booking /\ order'[v] = order[v] /\ at'[v] = at[v]
      BY <1>1, <2>3 DEF Others, Booking
    <3> QED
      BY <1>1, <1>a, <3>1 DEF NotYetBooked, Booked
  <2> QED
    BY <2>2, <2>3 DEF NotYetBooked, Booking
<1>9. BookedOnce(positions)' /\ BookedOnce(trades)'
  BY <1>a, <1>1, <1>4 DEF FillsAccounted, BookedOnce
<1>10. BookedFillsAreReal(positions)' /\ BookedFillsAreReal(trades)'
  BY <1>a, <1>1, <1>4 DEF FillsAccounted, BookedFillsAreReal, AllReal
<1>11. NoFillForgotten'
  <2> SUFFICES ASSUME NEW o \in DOMAIN orders, NEW i \in 1..Len(orders[o].history),
                      IsBookable(orders[o], orders[o].history[i])
               PROVE  /\ Booked(positions, o, i)' \/ AboutToBook("position", o, i)'
                      /\ \/ Booked(trades, o, i)'
                         \/ AboutToBook("position", o, i)'
                         \/ AboutToBook("ledger", o, i)'
    BY <1>1 DEF NoFillForgotten
  <2>1. /\ Booked(positions, o, i) \/ AboutToBook("position", o, i)
        /\ \/ Booked(trades, o, i)
           \/ AboutToBook("position", o, i)
           \/ AboutToBook("ledger", o, i)
    BY <1>a DEF FillsAccounted, NoFillForgotten
  <2>2. AboutToBook("position", o, i) =>
          \/ AboutToBook("position", o, i)'
          \/ o = order[w] /\ i = at[w] /\ AboutToBook("ledger", o, i)'
    BY <1>1 DEF AboutToBook, Others
  <2>3. AboutToBook("ledger", o, i) => AboutToBook("ledger", o, i)'
    BY <1>1 DEF AboutToBook, Others
  <2>4. Booked(trades, o, i) => Booked(trades, o, i)'
    BY <1>1 DEF Booked
  <2> QED
    BY <1>7, <2>1, <2>2, <2>3, <2>4
<1>12. EventInHand'
  BY <1>1 DEF IInv, EventInHand, MayAppend, SetSteps, PushSteps, Others
<1>13. HistoryLegal'
  BY <1>1 DEF IInv, HistoryLegal
<1> QED
  BY <1>t, <1>5, <1>6, <1>8, <1>9, <1>10, <1>11, <1>12, <1>13
  DEF IInv, Accounted, FillsAccounted

\* Booking the fill in hand to the trade ledger preserves the invariant.
LEMMA BookTradeInv ==
  ASSUME IInv, NEW w \in Workers, BookTrade(w)
  PROVE  IInv'
<1> DEFINE f == Fill(order[w], orders[order[w]], at[w])
<1>a. Accounted /\ FillInHand /\ InHandOnce /\ NotYetBooked /\ FillsAccounted
  BY DEF IInv, Accounted
<1>t. TypeOK /\ TypeOK'
  BY <1>a, ContinueType DEF IInv, Continue
<1>1. /\ pc[w] = "ledger" /\ pc'[w] = "idle" /\ Others(w)
      /\ trades' = Append(trades, f)
      /\ UNCHANGED <<orders, positions>>
      /\ MayAppend(pc'[w], event'[w])
  BY <1>t, FinishEffect DEF BookTrade
<1>2. /\ f \in FillRecord /\ IsRealFill(orders, f)
      /\ f.order = order[w] /\ f.index = at[w]
  BY <1>t, <1>a, <1>1, FillInHandIsReal DEF Booking
<1>3. ~Booked(trades, f.order, f.index)
  BY <1>a, <1>1, <1>2 DEF NotYetBooked, Booking
<1>g. Grows(trades, f, trades')
  BY <1>t, <1>1, <1>2 DEF TypeOK, Grows
<1>4. AllReal(orders, trades') /\ BookedOnce(trades')
  <2>1. AllReal(orders, trades) /\ BookedOnce(trades)
    BY <1>a DEF FillsAccounted, BookedFillsAreReal, AllReal
  <2> HIDE DEF f
  <2> QED
    BY <1>2, <1>3, <1>g, <2>1, LogGrows
<1> HIDE DEF f
<1>5. \A v \in Workers : pc'[v] \in Booking =>
        v # w /\ pc[v] = pc'[v] /\ order'[v] = order[v] /\ at'[v] = at[v]
  BY <1>1 DEF Others, Booking
<1>6. FillInHand'
  BY <1>a, <1>1, <1>5 DEF FillInHand, Booking
<1>7. InHandOnce'
  BY <1>a, <1>5 DEF InHandOnce
<1>8. \A o, i : Booked(trades, o, i)'
                  <=> Booked(trades, o, i) \/ (o = order[w] /\ i = at[w])
  <2>1. \A o, i : Booked(trades', o, i)
                    <=> Booked(trades, o, i) \/ (o = order[w] /\ i = at[w])
    BY <1>2, <1>g, GrownBooked
  <2> QED
    BY <2>1 DEF Booked
<1>9. NotYetBooked'
  <2>1. \A v \in Workers \ {w} :
          pc[v] \in Booking => ~(order[v] = order[w] /\ at[v] = at[w])
    BY <1>a, <1>1 DEF InHandOnce, Booking
  <2>2. ASSUME NEW v \in Workers, pc'[v] \in Booking
        PROVE  /\ ~Booked(trades, order[v], at[v])'
               /\ pc'[v] = "position" => ~Booked(positions, order[v], at[v])'
    <3>1. v # w /\ pc[v] = pc'[v] /\ order'[v] = order[v] /\ at'[v] = at[v]
      BY <1>5, <2>2
    <3>2. ~Booked(trades, order[v], at[v])
          /\ (pc[v] = "position" => ~Booked(positions, order[v], at[v]))
      BY <1>a, <2>2, <3>1 DEF NotYetBooked
    <3>3. positions' = positions
      BY <1>1
    <3>4. ~(order[v] = order[w] /\ at[v] = at[w])
      BY <2>1, <2>2, <3>1
    <3>5. ~Booked(trades, order[v], at[v])'
      BY <1>8, <3>1, <3>2, <3>4
    <3>6. pc'[v] = "position" => ~Booked(positions, order[v], at[v])'
      BY <3>1, <3>2, <3>3 DEF Booked
    <3> QED
      BY <3>5, <3>6
  <2> QED
    BY <2>2 DEF NotYetBooked, Booking
<1>10. BookedOnce(positions)' /\ BookedOnce(trades)'
  BY <1>a, <1>1, <1>4 DEF FillsAccounted, BookedOnce
<1>11. BookedFillsAreReal(positions)' /\ BookedFillsAreReal(trades)'
  BY <1>a, <1>1, <1>4 DEF FillsAccounted, BookedFillsAreReal, AllReal
<1>12. NoFillForgotten'
  <2> SUFFICES ASSUME NEW o \in DOMAIN orders, NEW i \in 1..Len(orders[o].history),
                      IsBookable(orders[o], orders[o].history[i])
               PROVE  /\ Booked(positions, o, i)' \/ AboutToBook("position", o, i)'
                      /\ \/ Booked(trades, o, i)'
                         \/ AboutToBook("position", o, i)'
                         \/ AboutToBook("ledger", o, i)'
    BY <1>1 DEF NoFillForgotten
  <2>1. /\ Booked(positions, o, i) \/ AboutToBook("position", o, i)
        /\ \/ Booked(trades, o, i)
           \/ AboutToBook("position", o, i)
           \/ AboutToBook("ledger", o, i)
    BY <1>a DEF FillsAccounted, NoFillForgotten
  <2>2. AboutToBook("position", o, i) => AboutToBook("position", o, i)'
    BY <1>1 DEF AboutToBook, Others
  <2>3. AboutToBook("ledger", o, i) =>
          AboutToBook("ledger", o, i)' \/ (o = order[w] /\ i = at[w])
    BY <1>1 DEF AboutToBook, Others
  <2>4. Booked(positions, o, i) => Booked(positions, o, i)'
    BY <1>1 DEF Booked
  <2> QED
    BY <1>8, <2>1, <2>2, <2>3, <2>4
<1>13. EventInHand'
  BY <1>1 DEF IInv, EventInHand, Others
<1>14. HistoryLegal'
  BY <1>1 DEF IInv, HistoryLegal
<1> QED
  BY <1>t, <1>6, <1>7, <1>9, <1>10, <1>11, <1>12, <1>13, <1>14
  DEF IInv, Accounted, FillsAccounted

----------------------------------------------------------------------------
(***************************************************************************)
(* The theorems.                                                           *)
(***************************************************************************)
\* Whatever a thread does next preserves the invariant.
LEMMA ContinueInv ==
  ASSUME IInv, NEW w \in Workers, Continue(w)
  PROVE  IInv'
<1> USE DEF service
<1>t. TypeOK /\ TypeOK'
  BY ContinueType DEF IInv, Accounted
<1>1. CASE AcceptRisk(w)
  <2>1. /\ pc[w] = "risk" /\ pc'[w] = "create" /\ Others(w)
        /\ UNCHANGED service
    BY <1>1, <1>t DEF AcceptRisk, Goto, TypeOK, Others
  <2> QED
    BY <1>t, <2>1, QuietStoreSame DEF Booking, MayAppend, SetSteps, PushSteps
<1>2. CASE RejectRisk(w) \/ ModifyRaises(w)
  <2>1. /\ pc[w] \in {"risk", "modify_call"} /\ Finish(w)
        /\ UNCHANGED service
    BY <1>2 DEF RejectRisk, ModifyRaises
  <2>2. pc'[w] = "idle" /\ Others(w) /\ MayAppend(pc'[w], event'[w])
    BY <1>t, <2>1, FinishEffect
  <2> QED
    BY <1>t, <2>1, <2>2, QuietStoreSame DEF Booking
<1>3. CASE CreateOrder(w)
  BY <1>3, CreateOrderInv
<1>4. CASE BrokerAccepts(w) \/ BrokerRejects(w) \/ BrokerFails(w)
  BY <1>4, BrokerAnswerInv
<1>5. CASE SetStatus(w)
  BY <1>5, SetStatusInv
<1>6. CASE PushEvent(w) \/ PushLastEvent(w)
  BY <1>6, <1>t, PushEventInv
<1>7. CASE PushFill(w)
  BY <1>7, PushFillInv
<1>8. CASE BookPosition(w)
  BY <1>8, BookPositionInv
<1>9. CASE BookTrade(w)
  BY <1>9, BookTradeInv
<1>10. CASE CallCancel(w)
  <2>1. PICK t \in {"CANCELLED", "ERROR"} :
          Turn(w, order[w], Transition("CANCEL_PENDING", t), "cancel_ack_set")
    BY <1>10 DEF CallCancel
  <2>2. /\ pc[w] = "cancel_call" /\ pc'[w] = "cancel_ack_set" /\ Others(w)
        /\ event'[w] = Transition("CANCEL_PENDING", t) /\ UNCHANGED service
    BY <1>10, <1>t, <2>1 DEF CallCancel, Turn, Goto, TypeOK, Others
  <2>3. CanTransition("CANCEL_PENDING", t)
    BY DEF CanTransition, ALLOWED_TRANSITIONS, OrderStatus
  <2>4. MayAppend(pc'[w], event'[w])
    BY <2>2, <2>3 DEF MayAppend, Transition
  <2> QED
    BY <1>t, <2>2, <2>4, QuietStoreSame DEF Booking
<1>11. CASE CallModify(w)
  <2> DEFINE s == orders[order[w]].status
             t == ModifyTarget(order[w])
  <2>1. /\ CanTransition(s, t)
        /\ Turn(w, order[w], Transition(s, t), "modify_set")
    BY <1>11 DEF CallModify
  <2> HIDE DEF s, t
  <2>2. /\ pc[w] = "modify_call" /\ pc'[w] = "modify_set" /\ Others(w)
        /\ event'[w] = Transition(s, t) /\ UNCHANGED service
    BY <1>11, <1>t, <2>1 DEF CallModify, Turn, Goto, TypeOK, Others
  <2>3. MayAppend(pc'[w], event'[w])
    BY <2>1, <2>2 DEF MayAppend, Transition
  <2> QED
    BY <1>t, <2>2, <2>3, QuietStoreSame DEF Booking
<1> QED
  BY <1>1, <1>2, <1>3, <1>4, <1>5, <1>6, <1>7, <1>8, <1>9, <1>10, <1>11
  DEF Continue

\* In a process that has just started nothing is stored and nothing under way.
LEMMA FreshInv ==
  ASSUME TypeOK, orders = [o \in {} |-> {}], positions = <<>>, trades = <<>>,
         \A w \in Workers : pc[w] = "idle"
  PROVE  IInv
<1>1. DOMAIN orders = {} /\ Len(positions) = 0 /\ Len(trades) = 0
  OBVIOUS
<1>2. HistoryLegal /\ NoFillForgotten
  BY <1>1 DEF HistoryLegal, NoFillForgotten
<1>3. BookedOnce(positions) /\ BookedOnce(trades)
      /\ BookedFillsAreReal(positions) /\ BookedFillsAreReal(trades)
  BY <1>1 DEF BookedOnce, BookedFillsAreReal
<1>4. FillInHand /\ InHandOnce /\ NotYetBooked
  BY DEF FillInHand, InHandOnce, NotYetBooked, Booking
<1>5. EventInHand
  BY DEF EventInHand, MayAppend, SetSteps, PushSteps
<1> QED
  BY <1>2, <1>3, <1>4, <1>5 DEF IInv, Accounted, FillsAccounted

\* The initial state satisfies the invariant.
LEMMA InitInv == Init => IInv
<1> SUFFICES ASSUME Init PROVE IInv
  OBVIOUS
<1> QED
  BY TypeInit, FreshInv DEF Init

\* A restart preserves the invariant.
LEMMA RestartInv ==
  ASSUME IInv, Restart
  PROVE  IInv'
<1>1. TypeOK'
  BY RestartType DEF IInv
<1>2. /\ orders' = [o \in {} |-> {}] /\ positions' = <<>> /\ trades' = <<>>
      /\ \A w \in Workers : pc'[w] = "idle"
  BY DEF Restart
<1>3. DOMAIN orders' = {} /\ Len(positions') = 0 /\ Len(trades') = 0
  BY <1>2
<1>4. HistoryLegal' /\ NoFillForgotten'
  BY <1>3 DEF HistoryLegal, NoFillForgotten
<1>5. BookedOnce(positions)' /\ BookedOnce(trades)'
      /\ BookedFillsAreReal(positions)' /\ BookedFillsAreReal(trades)'
  BY <1>3 DEF BookedOnce, BookedFillsAreReal
<1>6. FillInHand' /\ InHandOnce' /\ NotYetBooked'
  BY <1>2 DEF FillInHand, InHandOnce, NotYetBooked, Booking
<1>7. EventInHand'
  BY <1>2 DEF EventInHand, MayAppend, SetSteps, PushSteps
<1> QED
  BY <1>1, <1>4, <1>5, <1>6, <1>7 DEF IInv, Accounted, FillsAccounted

\* Every step, and every stutter, preserves the invariant.
LEMMA NextInv == IInv /\ [Next]_vars => IInv'
<1> SUFFICES ASSUME IInv, [Next]_vars PROVE IInv'
  OBVIOUS
<1>1. CASE \E w \in Workers : Begin(w) \/ Continue(w)
  BY <1>1, BeginInv, ContinueInv
<1>2. CASE Restart
  BY <1>2, RestartInv
<1>3. CASE UNCHANGED vars
  BY <1>3
  DEF IInv, TypeOK, EventInHand, MayAppend, HistoryLegal, Accounted,
      FillInHand, InHandOnce, NotYetBooked, FillsAccounted, BookedOnce,
      BookedFillsAreReal, NoFillForgotten, Booked, AboutToBook, IsRealFill,
      vars, service, locals
<1> QED
  BY <1>1, <1>2, <1>3 DEF Next

\* The inductive invariant holds in every reachable state.
THEOREM Invariance == Spec => []IInv
BY InitInv, NextInv, PTL DEF Spec

\* Type correctness: the store, the logs and every thread's private state keep
\* the shape the handlers of service.py expect.
THEOREM TypeCorrect == Spec => []TypeOK
<1>1. IInv => TypeOK
  BY DEF IInv
<1> QED
  BY <1>1, Invariance, PTL

\* Fills: whatever the interleaving, each priced FILLED update that
\* apply_broker_update appended is booked exactly once to the positions and
\* once to the trade ledger, or is in the hands of the thread about to book it.
THEOREM FillsAlwaysAccounted == Spec => []FillsAccounted
<1>1. IInv => FillsAccounted
  BY DEF IInv, Accounted
<1> QED
  BY <1>1, Invariance, PTL

\* History: whatever the interleaving, every event lifecycle_store holds is a
\* transition order_state_machine.py allows.
THEOREM HistoryAlwaysLegal == Spec => []HistoryLegal
<1>1. IInv => HistoryLegal
  BY DEF IInv
<1> QED
  BY <1>1, Invariance, PTL

----------------------------------------------------------------------------
(***************************************************************************)
(* What the service guarantees to clients that keep to a discipline.  To   *)
(* clients that name an order only when its submission has been answered:  *)
(* what the books show as working or ended is at the broker.  To serial    *)
(* clients, who never have two requests under way about one order or key:  *)
(* the service implements OrderBook, the history of an order tells how it  *)
(* came to its status, and a key has one order.                            *)
(***************************************************************************)
IsPlaced(o) == \E p \in placed : p.order = o

----------------------------------------------------------------------------
(***************************************************************************)
(* The invariant.  An order the broker does not hold either has failed for *)
(* good, or is with a thread that has not recorded the broker's answer yet *)
(* (and so, by the discipline, no other request finds it available).  A    *)
(* thread that has such an order in its hands is its submission, and is    *)
(* about to record nothing but SUBMITTED or a failure.                     *)
(***************************************************************************)
Unanswered == {"submit_set", "submit_push", "place", "place_set"}

FailedOrUnanswered(o) ==
  \/ orders[o].status \in {"REJECTED", "ERROR"}
  \/ /\ orders[o].status \in {"CREATED", "SUBMITTED"}
     /\ \E w \in Workers : order[w] = o /\ pc[w] \in Unanswered

Submits(w) ==
  \/ pc[w] = "submit_set" /\ event[w].to = "SUBMITTED"
  \/ pc[w] \in {"submit_push", "place", "place_push"}
  \/ pc[w] = "place_set" /\ event[w].to \in {"REJECTED", "ERROR"}

OrdersBacked == \A o \in DOMAIN orders : ~IsPlaced(o) => FailedOrUnanswered(o)
ThreadsSubmit ==
  \A w \in Workers : order[w] # NoOrder /\ ~IsPlaced(order[w]) => Submits(w)

Backed == OrdersBacked /\ ThreadsSubmit

\* A thread beyond the steps of a submission has an order the broker holds.
LEMMA HandsPlaced ==
  ASSUME TypeOK, Backed, NEW w \in Workers,
         pc[w] \notin {"idle", "risk", "create"} \cup Unanswered \cup {"place_push"}
  PROVE  order[w] \in DOMAIN orders /\ IsPlaced(order[w])
<1>1. order[w] \in DOMAIN orders /\ order[w] # NoOrder
  BY DEF TypeOK, NoOrder
<1>2. ~Submits(w)
  BY DEF Submits, Unanswered
<1> QED
  BY <1>1, <1>2 DEF Backed, ThreadsSubmit

\* An order that is available to a request, and has not failed for good, is one
\* the broker holds.
LEMMA AvailablePlaced ==
  ASSUME Discipline # "none", Backed, NEW o \in DOMAIN orders, Available(o),
         orders[o].status \notin {"REJECTED", "ERROR"}
  PROVE  IsPlaced(o)
<1> SUFFICES ASSUME ~IsPlaced(o) PROVE FALSE
  OBVIOUS
<1>1. PICK v \in Workers : order[v] = o /\ pc[v] \in Unanswered
  BY DEF Backed, OrdersBacked, FailedOrUnanswered
<1>2. pc[v] \in SubmitSteps
  BY <1>1 DEF Unanswered, SubmitSteps
<1> QED
  BY <1>1, <1>2 DEF Available

\* No event is allowed from a failed order.
LEMMA FailedStays ==
  ASSUME NEW t PROVE ~CanTransition("REJECTED", t) /\ ~CanTransition("ERROR", t)
BY DEF CanTransition, ALLOWED_TRANSITIONS, OrderStatus

\* A step of one thread keeps the invariant when it keeps the status of every
\* order but its own, does not leave an order it has yet to answer for, and
\* has what the invariant asks of the order it works on next.
LEMMA PlacedKept ==
  ASSUME Backed, TypeOK', NEW w \in Workers, Others(w), placed \subseteq placed',
         order'[w] = order[w] \/ pc[w] \notin Unanswered,
         \A o \in DOMAIN orders' \ {order'[w]} :
           o \in DOMAIN orders /\ orders'[o].status = orders[o].status,
         order'[w] # NoOrder /\ ~IsPlaced(order[w])' =>
           /\ Submits(w)'
           /\ order'[w] \in DOMAIN orders' => FailedOrUnanswered(order[w])'
  PROVE  Backed'
<1>1. \A o : IsPlaced(o) => IsPlaced(o)'
  BY DEF IsPlaced
<1>2. ThreadsSubmit'
  <2> SUFFICES ASSUME NEW v \in Workers, order'[v] # NoOrder, ~IsPlaced(order[v])'
               PROVE  Submits(v)'
    BY DEF ThreadsSubmit
  <2>1. CASE v = w
    BY <2>1
  <2>2. CASE v # w
    <3>1. /\ pc'[v] = pc[v] /\ event'[v] = event[v] /\ order'[v] = order[v]
      BY <2>2 DEF Others
    <3>2. Submits(v)
      BY <1>1, <3>1 DEF Backed, ThreadsSubmit
    <3> QED
      BY <3>1, <3>2 DEF Submits
  <2> QED
    BY <2>1, <2>2
<1>3. OrdersBacked'
  <2> SUFFICES ASSUME NEW o \in DOMAIN orders', ~IsPlaced(o)'
               PROVE  FailedOrUnanswered(o)'
    BY DEF OrdersBacked
  <2>1. CASE o = order'[w]
    <3>1. o # NoOrder
      BY DEF TypeOK, NoOrder
    <3> QED
      BY <2>1, <3>1
  <2>2. CASE o # order'[w] 
    <3>1. /\ o \in DOMAIN orders /\ orders'[o].status = orders[o].status
          /\ FailedOrUnanswered(o)
      BY <1>1, <2>2 DEF Backed, OrdersBacked
    <3>2. ASSUME NEW v \in Workers, order[v] = o, pc[v] \in Unanswered
          PROVE  order'[v] = o /\ pc'[v] \in Unanswered
      BY <2>2, <3>2 DEF Others
    <3> QED
      BY <3>1, <3>2 DEF FailedOrUnanswered
  <2> QED
    BY <2>1, <2>2
<1> QED
  BY <1>2, <1>3 DEF Backed

----------------------------------------------------------------------------
(***************************************************************************)
(* The steps.                                                              *)
(***************************************************************************)
\* The start of a request keeps the invariant: it turns to an order the broker
\* holds, or to none.
LEMMA BeginBacked ==
  ASSUME Discipline # "none", TypeOK, TypeOK', Backed, NEW w \in Workers, Begin(w)
  PROVE  Backed'
<1>1. /\ pc[w] = "idle" /\ UNCHANGED <<orders, placed>>
      /\ order[w] = NoOrder
  BY DEF Begin, BeginSubmit, RespondDuplicate, BeginUpdate, RejectUpdate,
         BeginCancel, BeginModify, Idle, vars, service, TypeOK
<1>2. pc[w] \notin Unanswered
  BY <1>1 DEF Unanswered
<1>3. CASE BeginSubmit(w) \/ RespondDuplicate(w) \/ RejectUpdate(w)
  <2>1. order'[w] = NoOrder /\ Others(w)
    BY <1>1, <1>3 DEF BeginSubmit, RespondDuplicate, RejectUpdate, vars, locals,
                      Goto, TypeOK, Others
  <2> QED
    BY <1>1, <1>2, <2>1, PlacedKept
<1>4. CASE BeginUpdate(w) \/ BeginCancel(w) \/ BeginModify(w)
  <2>1. PICK o \in DOMAIN orders :
          /\ Available(o) /\ order' = [order EXCEPT ![w] = o]
          /\ \/ \E t : CanTransition(orders[o].status, t)
             \/ orders[o].status \in Workable
    BY <1>4 DEF BeginUpdate, BeginCancel, BeginModify, Turn
  <2>2. orders[o].status \notin {"REJECTED", "ERROR"}
    BY <2>1, FailedStays DEF Workable
  <2>3. IsPlaced(o)
    BY <2>1, <2>2, AvailablePlaced
  <2>4. order'[w] = o /\ Others(w)
    BY <1>4, <2>1 DEF BeginUpdate, BeginCancel, BeginModify, Turn, Goto, TypeOK, Others
  <2>5. IsPlaced(order[w])'
    BY <1>1, <2>3, <2>4 DEF IsPlaced
  <2> QED
    BY <1>1, <1>2, <2>5, <2>4, PlacedKept
<1> QED
  BY <1>3, <1>4 DEF Begin

\* The creation of an order keeps the invariant: the new one is with its thread.
LEMMA CreateBacked ==
  ASSUME TypeOK, TypeOK', Backed, NEW w \in Workers, CreateOrder(w)
  PROVE  Backed'
<1>1. /\ pc[w] = "create" /\ pc'[w] = "submit_set" /\ Others(w)
      /\ order'[w] = created + 1 /\ UNCHANGED placed
      /\ event'[w] = Transition("CREATED", "SUBMITTED")
  BY DEF CreateOrder, Turn, Goto, TypeOK, Others
<1>2. orders' = [p \in DOMAIN orders \cup {created + 1} |->
                   IF p = created + 1 THEN NewOrder(request[w]) ELSE orders[p]]
  BY DEF CreateOrder
<1>3. orders'[order'[w]].status = "CREATED"
  BY <1>1, <1>2 DEF NewOrder
<1>4. \A o \in DOMAIN orders' \ {order'[w]} :
        o \in DOMAIN orders /\ orders'[o].status = orders[o].status
  BY <1>1, <1>2
<1>5. Submits(w)' /\ pc[w] \notin Unanswered /\ pc'[w] \in Unanswered
  BY <1>1 DEF Submits, Transition, Unanswered
<1>6. FailedOrUnanswered(order[w])'
  BY <1>3, <1>5 DEF FailedOrUnanswered
<1> QED
  BY <1>1, <1>4, <1>5, <1>6, PlacedKept

\* The broker's answer keeps the invariant: it holds the order, or the thread
\* is about to record a failure.
LEMMA AnswerBacked ==
  ASSUME TypeOK, TypeOK', Backed, NEW w \in Workers,
         BrokerAccepts(w) \/ BrokerRejects(w) \/ BrokerFails(w)
  PROVE  Backed'
<1>1. PICK t \in {"ACKNOWLEDGED", "REJECTED", "ERROR"},
           x \in {StubExternalId(order[w]), LiveExternalId(order[w]), NoExternal} :
        /\ Answer(w, t, x) /\ pc[w] = "place"
        /\ Hold(order[w]) \/ (t # "ACKNOWLEDGED" /\ UNCHANGED placed)
  BY DEF BrokerAccepts, BrokerRejects, BrokerFails
<1>2. /\ pc'[w] = "place_set" /\ event'[w].to = t /\ Others(w)
      /\ order'[w] = order[w] /\ UNCHANGED orders /\ order[w] \in DOMAIN orders
  BY <1>1 DEF Answer, Goto, Transition, TypeOK, Others, service
<1>3. CASE Hold(order[w])
  <2>1. PICK p : p.order = order[w] /\ placed' = placed \cup {p}
    BY <1>3 DEF Hold
  <2>2. placed \subseteq placed' /\ IsPlaced(order[w])'
    BY <1>2, <2>1 DEF IsPlaced
  <2> QED
    BY <1>2, <2>2, PlacedKept
<1>4. CASE t # "ACKNOWLEDGED" /\ UNCHANGED placed
  <2>1. ~IsPlaced(order[w])' => FailedOrUnanswered(order[w])
    BY <1>2, <1>4 DEF IsPlaced, Backed, OrdersBacked
  <2>2. pc'[w] \in Unanswered
    BY <1>2 DEF Unanswered
  <2>3. ~IsPlaced(order[w])' => FailedOrUnanswered(order[w])'
    BY <1>2, <2>1, <2>2 DEF FailedOrUnanswered
  <2>4. Submits(w)'
    BY <1>2, <1>4 DEF Submits
  <2> QED
    BY <1>2, <1>4, <2>3, <2>4, PlacedKept
<1> QED
  BY <1>1, <1>3, <1>4

\* The first half of append_event keeps the invariant: of an order the broker
\* does not hold, a submission or a failure is recorded.
LEMMA SetStatusBacked ==
  ASSUME TypeOK, TypeOK', Backed, NEW w \in Workers, SetStatus(w)
  PROVE  Backed'
<1> DEFINE o == order[w]
<1>1. /\ pc[w] \in SetSteps /\ pc'[w] = PushOf[pc[w]] /\ Others(w)
      /\ order'[w] = o /\ event'[w] = event[w] /\ UNCHANGED placed
  BY DEF SetStatus, Goto, TypeOK, Others
<1>2. o \in DOMAIN orders /\ o # NoOrder
  <2>1. pc[w] \notin {"idle", "risk", "create"}
    BY <1>1 DEF SetSteps
  <2> QED
    BY <2>1 DEF TypeOK, NoOrder
<1>3. orders[o] \in StoredOrder
  BY <1>2 DEF TypeOK
<1>4. /\ DOMAIN orders' = DOMAIN orders /\ orders'[o].status = event[w].to
      /\ \A p \in DOMAIN orders \ {o} : orders'[p] = orders[p]
  <2>1. /\ orders' = [orders EXCEPT ![o] = WithStatus(orders[o], event[w].to, external[w])]
        /\ orders \in [DOMAIN orders -> StoredOrder]
    BY DEF SetStatus, TypeOK
  <2>2. WithStatus(orders[o], event[w].to, external[w]).status = event[w].to
    BY <1>3 DEF WithStatus, StoredOrder
  <2> QED
    BY <1>2, <2>1, <2>2
<1>5. CASE IsPlaced(o)
  <2>1. IsPlaced(order[w])'
    BY <1>1, <1>5 DEF IsPlaced
  <2> QED
    BY <1>1, <1>4, <2>1, PlacedKept
<1>6. CASE ~IsPlaced(o)
  <2>1. Submits(w)
    BY <1>2, <1>6 DEF Backed, ThreadsSubmit
  <2>2. \/ pc'[w] = "submit_push" /\ orders'[o].status = "SUBMITTED"
        \/ pc'[w] = "place_push" /\ orders'[o].status \in {"REJECTED", "ERROR"}
    BY <1>1, <1>4, <2>1 DEF Submits, SetSteps, PushOf
  <2>3. Submits(w)'
    BY <2>2 DEF Submits
  <2>4. FailedOrUnanswered(order[w])'
    BY <1>1, <2>2 DEF FailedOrUnanswered, Unanswered
  <2> QED
    BY <1>1, <1>4, <2>3, <2>4, PlacedKept
<1> QED
  BY <1>5, <1>6

\* The second half keeps the invariant: no status changes, and a submission
\* ends when its order is placed or has failed.
LEMMA PushBacked ==
  ASSUME TypeOK, TypeOK', Backed, NEW w \in Workers,
         PushEvent(w) \/ PushLastEvent(w) \/ PushFill(w)
  PROVE  Backed'
<1>1. /\ order[w] \in DOMAIN orders /\ UNCHANGED placed /\ Push(w)
      /\ pc[w] \notin {"submit_set", "place", "place_set"}
  BY DEF PushEvent, PushLastEvent, PushFill, TypeOK
<1>2. orders[order[w]] \in StoredOrder
  BY <1>1 DEF TypeOK
<1>3. /\ DOMAIN orders' = DOMAIN orders
      /\ \A o \in DOMAIN orders : orders'[o].status = orders[o].status
  BY <1>1, <1>2 DEF Push, WithEvent, StoredOrder
<1>4. CASE PushEvent(w)
  <2>1. /\ pc'[w] = IF pc[w] = "submit_push" THEN "place" ELSE "cancel_call"
        /\ pc[w] \in {"submit_push", "cancel_push"}
        /\ order'[w] = order[w] /\ Others(w)
    BY <1>4 DEF PushEvent, Goto, TypeOK, Others
  <2>2. CASE pc[w] = "submit_push"
    <3>1. Submits(w)' /\ pc'[w] \in Unanswered
      BY <2>1, <2>2 DEF Submits, Unanswered
    <3>2. ~IsPlaced(order[w])' => FailedOrUnanswered(order[w])
      BY <1>1, <2>1 DEF IsPlaced, Backed, OrdersBacked
    <3>3. ~IsPlaced(order[w])' => FailedOrUnanswered(order[w])'
      BY <1>1, <1>3, <2>1, <3>1, <3>2 DEF FailedOrUnanswered
    <3> QED
      BY <1>1, <1>3, <2>1, <3>1, <3>3, PlacedKept
  <2>3. CASE pc[w] = "cancel_push"
    <3>1. IsPlaced(order[w])
      BY <2>3, HandsPlaced DEF Unanswered
    <3>2. IsPlaced(order[w])'
      BY <1>1, <2>1, <3>1 DEF IsPlaced
    <3> QED
      BY <1>1, <1>3, <2>1, <3>2, PlacedKept
  <2> QED
    BY <2>1, <2>2, <2>3
<1>5. CASE PushLastEvent(w)
  <2>1. /\ pc[w] \notin Unanswered /\ order'[w] = NoOrder /\ Others(w)
    BY <1>5 DEF PushLastEvent, Finish, Goto, TypeOK, Others, Unanswered
  <2> QED
    BY <1>1, <1>3, <2>1, PlacedKept
<1>6. CASE PushFill(w)
  <2>1. pc[w] = "update_push" /\ order'[w] = order[w] /\ Others(w)
    BY <1>6 DEF PushFill, Goto, TypeOK, Others
  <2>2. IsPlaced(order[w])
    BY <2>1, HandsPlaced DEF Unanswered
  <2>3. IsPlaced(order[w])'
    BY <1>1, <2>1, <2>2 DEF IsPlaced
  <2> QED
    BY <1>1, <1>3, <2>1, <2>3, PlacedKept
<1> QED
  BY <1>4, <1>5, <1>6

\* The other steps of a request keep the invariant: they are those of a request
\* without an order, or with one the broker holds.
LEMMA OtherStepsBacked ==
  ASSUME TypeOK, TypeOK', Backed, NEW w \in Workers,
         \/ AcceptRisk(w) \/ RejectRisk(w)
         \/ BookPosition(w) \/ BookTrade(w)
         \/ CallCancel(w) \/ CallModify(w) \/ ModifyRaises(w)
  PROVE  Backed'
<1>1. /\ UNCHANGED <<orders, placed>> /\ Others(w)
      /\ order'[w] \in {order[w], NoOrder}
      /\ pc[w] \in {"risk", "position", "ledger", "cancel_call", "modify_call"}
  BY SMTT(20) DEF AcceptRisk, RejectRisk, BookPosition, BookTrade, CallCancel, CallModify,
         ModifyRaises, Turn, Finish, Goto, service, TypeOK, Others
<1>2. pc[w] \notin Unanswered
  BY <1>1 DEF Unanswered
<1>3. order'[w] # NoOrder => IsPlaced(order[w])
  BY <1>1, HandsPlaced DEF Unanswered, TypeOK
<1>4. order'[w] # NoOrder => IsPlaced(order[w])'
  BY <1>1, <1>3 DEF IsPlaced
<1> QED
  BY <1>1, <1>2, <1>4, PlacedKept

\* Every step, and every stutter, keeps the invariant.
LEMMA NextBacked ==
  ASSUME Discipline # "none"
  PROVE  TypeOK /\ TypeOK' /\ Backed /\ [Next]_vars => Backed'
<1> SUFFICES ASSUME TypeOK, TypeOK', Backed, [Next]_vars PROVE Backed'
  OBVIOUS
<1>1. ASSUME NEW w \in Workers, Begin(w)
      PROVE  Backed'
  BY <1>1, BeginBacked
<1>2. ASSUME NEW w \in Workers, Continue(w)
      PROVE  Backed'
  BY <1>2, CreateBacked, AnswerBacked, SetStatusBacked, PushBacked,
     OtherStepsBacked DEF Continue
<1>3. CASE Restart
  <2>1. DOMAIN orders' = {} /\ \A w \in Workers : order'[w] = NoOrder
    BY <1>3 DEF Restart
  <2> QED
    BY <2>1 DEF Backed, OrdersBacked, ThreadsSubmit
<1>4. CASE UNCHANGED vars
  BY <1>4 DEF vars, service, locals, Backed, OrdersBacked, ThreadsSubmit,
              IsPlaced, FailedOrUnanswered, Submits
<1> QED
  BY <1>1, <1>2, <1>3, <1>4 DEF Next

----------------------------------------------------------------------------
\* Reconciliation: when clients name an order only after its submission was
\* answered, an order that lifecycle_store shows as working, filled or
\* cancelled is one the broker took, whatever it answered, though calls fail,
\* answers lack an id, requests race and the process restarts.
THEOREM WorkingOrdersBacked ==
  ASSUME Discipline # "none"
  PROVE  Spec => []WorkingOrdersArePlaced
<1>1. Init => Backed
  BY DEF Init, Backed, OrdersBacked, ThreadsSubmit
<1>2. TypeOK /\ TypeOK' /\ Backed /\ [Next]_vars => Backed'
  BY NextBacked
<1>3. Backed => WorkingOrdersArePlaced
  BY DEF Backed, OrdersBacked, FailedOrUnanswered, IsPlaced, WorkingOrdersArePlaced
<1> QED
  BY <1>1, <1>2, <1>3, TypeCorrect, PTL DEF Spec

----------------------------------------------------------------------------
(***************************************************************************)
(* Serial clients.                                                         *)
(* The invariant.  No two threads have one order in their hands; a thread  *)
(* that has decided on an event finds the order in the status for which it *)
(* decided (FreshHands), also after its call of the broker; and it has an  *)
(* order to book that was not booked before.                               *)
(***************************************************************************)
Unbooked(o) == \A n \in 1..Len(positions) : positions[n].order # o

InStep(step, e, status) ==
  /\ step \in SetSteps => e.from = status
  /\ step \in PushSteps => e.to = status
  /\ step \in {"submit_set", "submit_push"} => e.to = "SUBMITTED"
  /\ step \in {"cancel_set", "cancel_push"} => e.to = "CANCEL_PENDING"
  /\ step = "place" => status = "SUBMITTED"
  /\ step = "cancel_call" => status = "CANCEL_PENDING"
  /\ step = "position" => status = "FILLED"

Exclusive ==
  \A v, w \in Workers : order[v] # NoOrder /\ order[v] = order[w] => v = w
FreshHands ==
  \A w \in Workers : order[w] # NoOrder =>
    InStep(pc[w], event[w], orders[order[w]].status)
HandsUnbooked ==
  \A w \in Workers : order[w] # NoOrder /\ pc[w] # "ledger" => Unbooked(order[w])
BookedAreFilled ==
  \A n \in 1..Len(positions) :
    /\ positions[n].order \in DOMAIN orders
    /\ orders[positions[n].order].status = "FILLED"

OneAtATime == Exclusive /\ FreshHands /\ HandsUnbooked /\ BookedAreFilled

\* A step of one thread keeps the invariant when it books nothing, changes the
\* status of no other order, and turns, if it does, to an order nobody has.
LEMMA StepKeeps ==
  ASSUME TypeOK, TypeOK', OneAtATime, NEW w \in Workers, Others(w),
         UNCHANGED positions, pc'[w] # "ledger",
         \/ order'[w] \in {order[w], NoOrder}
         \/ \A v \in Workers : order[v] # order'[w],
         DOMAIN orders \subseteq DOMAIN orders',
         \A o \in DOMAIN orders \ {order'[w]} : orders'[o].status = orders[o].status,
         order'[w] # NoOrder =>
           Unbooked(order[w])' /\ InStep(pc[w], event[w], orders[order[w]].status)'
  PROVE  OneAtATime'
<1> USE DEF OneAtATime
<1>1. Exclusive'
  BY DEF Exclusive, Others
<1>2. FreshHands'
  <2> SUFFICES ASSUME NEW v \in Workers, order'[v] # NoOrder
               PROVE  InStep(pc[v], event[v], orders[order[v]].status)'
    BY DEF FreshHands
  <2>1. CASE v # w
    <3>1. order'[v] = order[v] /\ pc'[v] = pc[v] /\ event'[v] = event[v]
      BY <2>1 DEF Others
    <3>2. order[v] # order'[w]
      BY <1>1, <2>1, <3>1 DEF Exclusive
    <3>3. order[v] \in DOMAIN orders
      BY <3>1 DEF TypeOK
    <3>4. orders'[order[v]].status = orders[order[v]].status
      BY <3>2, <3>3
    <3>5. InStep(pc[v], event[v], orders[order[v]].status)
      BY <3>1 DEF FreshHands
    <3> QED
      BY <3>1, <3>4, <3>5
  <2> QED
    BY <2>1
<1>3. HandsUnbooked'
  <2> SUFFICES ASSUME NEW v \in Workers, order'[v] # NoOrder, pc'[v] # "ledger"
               PROVE  Unbooked(order[v])'
    BY DEF HandsUnbooked
  <2>1. CASE v # w
    BY <2>1 DEF Others, HandsUnbooked, Unbooked
  <2> QED
    BY <2>1
<1>4. BookedAreFilled'
  <2> SUFFICES ASSUME NEW n \in 1..Len(positions)
               PROVE  /\ positions[n].order \in DOMAIN orders'
                      /\ orders'[positions[n].order].status = "FILLED"
    BY DEF BookedAreFilled
  <2>1. /\ positions[n].order \in DOMAIN orders
        /\ orders[positions[n].order].status = "FILLED"
    BY DEF BookedAreFilled
  <2>2. positions[n].order # order'[w]
    <3>1. CASE order'[w] = NoOrder
      BY <2>1, <3>1 DEF TypeOK, NoOrder
    <3>2. CASE order'[w] # NoOrder
      BY <3>2 DEF Unbooked
    <3> QED
      BY <3>1, <3>2
  <2> QED
    BY <2>1, <2>2
<1> QED
  BY <1>1, <1>2, <1>3, <1>4

\* An order that can move, or that may be cancelled or modified, is unbooked.
LEMMA MovableUnbooked ==
  ASSUME OneAtATime, NEW o \in DOMAIN orders,
         \/ \E t : CanTransition(orders[o].status, t)
         \/ orders[o].status \in Workable
  PROVE  Unbooked(o)
<1>1. \A t : ~CanTransition("FILLED", t)
  BY DEF CanTransition, ALLOWED_TRANSITIONS, OrderStatus
<1>2. orders[o].status # "FILLED"
  BY <1>1 DEF Workable
<1> QED
  BY <1>2 DEF OneAtATime, BookedAreFilled, Unbooked

----------------------------------------------------------------------------
(***************************************************************************)
(* The steps, and what they are in OrderBook.                              *)
(***************************************************************************)
BookStep == [Book!Next]_Book!vars

\* OrderBook's state machine is that of the orders.
LEMMA SameStateMachine ==
  /\ Book!OrderStatus = OrderStatus
  /\ \A s, t : Book!CanTransition(s, t) <=> CanTransition(s, t)
<1>1. Book!OrderStatus = OrderStatus
  BY DEF Book!OrderStatus, OrderStatus
<1>2. Book!ALLOWED_TRANSITIONS = ALLOWED_TRANSITIONS
  BY <1>1 DEF Book!ALLOWED_TRANSITIONS, ALLOWED_TRANSITIONS
<1> QED
  BY <1>1, <1>2 DEF Book!CanTransition, CanTransition

\* A step that creates no order, moves none and books none is none of OrderBook.
LEMMA Stutters ==
  ASSUME UNCHANGED <<created, positions>>, DOMAIN orders' = DOMAIN orders,
         \A o \in DOMAIN orders : orders'[o].status = orders[o].status
  PROVE  BookStep
BY DEF BookStep, Book!vars

\* The moves and the bookings of OrderBook are steps of it.
LEMMA MoveIsStep ==
  ASSUME \E o \in DOMAIN orders, t \in OrderStatus : Book!Move(o, t)
  PROVE  BookStep
<1> PICK o \in DOMAIN orders, t \in OrderStatus : Book!Move(o, t)
  OBVIOUS
<1>1. o \in DOMAIN [p \in DOMAIN orders |-> orders[p].status]
  OBVIOUS
<1>2. t \in Book!OrderStatus
  BY SameStateMachine
<1>3. Book!Next
  BY <1>1, <1>2, Zenon DEF Book!Next
<1> QED
  BY <1>3 DEF BookStep

LEMMA BookIsStep ==
  ASSUME \E o \in DOMAIN orders : Book!Book(o)
  PROVE  BookStep
<1> PICK o \in DOMAIN orders : Book!Book(o)
  OBVIOUS
<1>1. o \in DOMAIN [p \in DOMAIN orders |-> orders[p].status]
  OBVIOUS
<1>2. Book!Next
  BY <1>1, Zenon DEF Book!Next
<1> QED
  BY <1>2 DEF BookStep

\* The start of a request keeps the invariant, as no other is about its order.
LEMMA BeginSerial ==
  ASSUME Discipline = "serial", TypeOK, TypeOK', OneAtATime,
         NEW w \in Workers, Begin(w)
  PROVE  OneAtATime' /\ BookStep
<1>1. /\ pc[w] = "idle" /\ UNCHANGED <<orders, positions, created>>
      /\ order[w] = NoOrder
  BY DEF Begin, BeginSubmit, RespondDuplicate, BeginUpdate, RejectUpdate,
         BeginCancel, BeginModify, Idle, vars, service, TypeOK
<1>2. BookStep
  BY <1>1, Stutters
<1>3. CASE BeginSubmit(w) \/ RespondDuplicate(w) \/ RejectUpdate(w)
  <2>1. order'[w] = NoOrder /\ Others(w) /\ pc'[w] \in {"idle", "risk"}
    BY <1>1, <1>3 DEF BeginSubmit, RespondDuplicate, RejectUpdate, vars, locals,
                      Goto, TypeOK, Others
  <2> QED
    BY <1>1, <1>2, <2>1, StepKeeps
<1>4. CASE BeginUpdate(w) \/ BeginCancel(w) \/ BeginModify(w)
  <2>1. PICK o \in DOMAIN orders, e \in OrderEvent,
             step \in {"update_set", "cancel_set", "modify_call"} :
          /\ Available(o) /\ Turn(w, o, e, step)
          /\ InStep(step, e, orders[o].status)
          /\ \/ \E t : CanTransition(orders[o].status, t)
             \/ orders[o].status \in Workable
    <3>1. CASE BeginUpdate(w)
      <4>1. PICK o \in DOMAIN orders, b \in UpdateWords,
                 q \in FillQuantities, p \in FillPrices :
              /\ Available(o)
              /\ CanTransition(orders[o].status, BROKER_STATUS_MAP[b])
              /\ Turn(w, o, BrokerTransition(orders[o].status, BROKER_STATUS_MAP[b], q, p),
                      "update_set")
        BY <3>1 DEF BeginUpdate
      <4>2. orders[o].status \in OrderStatus
        BY DEF TypeOK, StoredOrder
      <4>3. BrokerTransition(orders[o].status, BROKER_STATUS_MAP[b], q, p) \in OrderEvent
        BY <4>2, BrokerEventType
      <4>4. InStep("update_set",
                   BrokerTransition(orders[o].status, BROKER_STATUS_MAP[b], q, p),
                   orders[o].status)
        BY DEF InStep, BrokerTransition, PushSteps
      <4> QED
        BY <4>1, <4>3, <4>4
    <3>2. CASE BeginCancel(w)
      <4>1. PICK o \in DOMAIN orders :
              /\ Available(o) /\ orders[o].status \in Workable
              /\ Turn(w, o, Transition(orders[o].status, "CANCEL_PENDING"), "cancel_set")
        BY <3>2 DEF BeginCancel
      <4>2. Transition(orders[o].status, "CANCEL_PENDING") \in OrderEvent
        BY <4>1, TransitionType DEF Workable, OrderStatus
      <4>3. InStep("cancel_set", Transition(orders[o].status, "CANCEL_PENDING"),
                   orders[o].status)
        BY DEF InStep, Transition, PushSteps
      <4> QED
        BY <4>1, <4>2, <4>3
    <3>3. CASE BeginModify(w)
      <4>1. PICK o \in DOMAIN orders :
              /\ Available(o) /\ orders[o].status \in Workable
              /\ Turn(w, o, NoEvent, "modify_call")
        BY <3>3 DEF BeginModify
      <4>2. InStep("modify_call", NoEvent, orders[o].status)
        BY DEF InStep, PushSteps, SetSteps
      <4> QED
        BY <4>1, <4>2, NoEventType
    <3> QED
      BY <1>4, <3>1, <3>2, <3>3
  <2>2. Unbooked(o) /\ \A v \in Workers : order[v] # o
    BY <2>1, MovableUnbooked DEF Available
  <2>3. order'[w] = o /\ pc'[w] = step /\ event'[w] = e /\ Others(w)
    BY <1>4, <2>1 DEF BeginUpdate, BeginCancel, BeginModify, Turn, Goto, TypeOK, Others
  <2>4. Unbooked(order[w])' /\ InStep(pc[w], event[w], orders[order[w]].status)'
    BY <1>1, <2>1, <2>2, <2>3 DEF Unbooked
  <2>5. pc'[w] # "ledger"
    BY <2>3
  <2> QED
    BY <1>1, <1>2, <2>2, <2>3, <2>4, <2>5, StepKeeps
<1> QED
  BY <1>3, <1>4 DEF Begin
\* The creation of an order keeps the invariant, and is OrderBook's.
LEMMA CreateSerial ==
  ASSUME TypeOK, TypeOK', OneAtATime, NEW w \in Workers, CreateOrder(w)
  PROVE  OneAtATime' /\ BookStep
<1> DEFINE o == created + 1
<1>1. /\ pc'[w] = "submit_set" /\ Others(w) /\ order'[w] = o
      /\ created' = o /\ UNCHANGED positions
      /\ event'[w] = Transition("CREATED", "SUBMITTED")
  BY DEF CreateOrder, Turn, Goto, TypeOK, Others
<1>2. orders' = [p \in DOMAIN orders \cup {o} |->
                   IF p = o THEN NewOrder(request[w]) ELSE orders[p]]
  BY DEF CreateOrder
<1>3. /\ DOMAIN orders' = DOMAIN orders \cup {o} /\ orders'[o].status = "CREATED"
      /\ \A p \in DOMAIN orders \ {o} : orders'[p].status = orders[p].status
  BY <1>2 DEF NewOrder
<1>4. o \notin DOMAIN orders /\ o # NoOrder
  BY DEF TypeOK, NoOrder
<1>5. \A v \in Workers : order[v] # o
  BY <1>4 DEF TypeOK, NoOrder
<1>6. Unbooked(order[w])'
  BY <1>1, <1>4 DEF OneAtATime, BookedAreFilled, Unbooked
<1>7. InStep(pc[w], event[w], orders[order[w]].status)'
  BY <1>1, <1>3 DEF InStep, Transition, PushSteps
<1>8. OneAtATime'
  BY <1>1, <1>3, <1>5, <1>6, <1>7, StepKeeps
<1>9. Book!Create
  BY <1>1, <1>3, <1>4 DEF Book!Create
<1> QED
  BY <1>8, <1>9 DEF BookStep, Book!Next

\* The broker's answer keeps the invariant: the order still is SUBMITTED.
LEMMA AnswerSerial ==
  ASSUME TypeOK, TypeOK', OneAtATime, NEW w \in Workers,
         BrokerAccepts(w) \/ BrokerRejects(w) \/ BrokerFails(w)
  PROVE  OneAtATime' /\ BookStep
<1>1. PICK t \in {"ACKNOWLEDGED", "REJECTED", "ERROR"},
           x \in {StubExternalId(order[w]), LiveExternalId(order[w]), NoExternal} :
        Answer(w, t, x) /\ pc[w] = "place"
  BY DEF BrokerAccepts, BrokerRejects, BrokerFails
<1>2. /\ pc'[w] = "place_set" /\ event'[w] = Transition("SUBMITTED", t) /\ Others(w)
      /\ order'[w] = order[w] /\ UNCHANGED <<orders, positions, created>>
  BY <1>1 DEF Answer, Goto, TypeOK, Others, service
<1>3. order[w] # NoOrder
  <2>1. pc[w] \notin {"idle", "risk", "create"}
    BY <1>1
  <2> QED
    BY <2>1, OrderInHand DEF OrderIds, NoOrder
<1>4. orders[order[w]].status = "SUBMITTED" /\ Unbooked(order[w])
  BY <1>1, <1>3 DEF OneAtATime, FreshHands, InStep, HandsUnbooked
<1>5. Unbooked(order[w])' /\ InStep(pc[w], event[w], orders[order[w]].status)'
  BY <1>2, <1>4 DEF Unbooked, InStep, Transition, PushSteps
<1> QED
  BY <1>2, <1>5, StepKeeps, Stutters

\* The first half of append_event keeps the invariant, and moves the order as
\* OrderBook does: the event starts from the status the order still has.
LEMMA SetStatusSerial ==
  ASSUME IInv, TypeOK', OneAtATime, NEW w \in Workers, SetStatus(w)
  PROVE  OneAtATime' /\ BookStep
<1> DEFINE o == order[w]
           t == event[w].to
<1>t. TypeOK
  BY DEF IInv
<1>1. /\ pc[w] \in SetSteps /\ pc'[w] = PushOf[pc[w]] /\ Others(w)
      /\ order'[w] = o /\ event'[w] = event[w] /\ UNCHANGED <<positions, created>>
  BY <1>t DEF SetStatus, Goto, TypeOK, Others
<1>2. pc[w] \notin {"idle", "risk", "create", "ledger"}
  BY <1>1 DEF SetSteps
<1>3. /\ o \in DOMAIN orders /\ o # NoOrder /\ orders[o] \in StoredOrder
      /\ event[w] \in OrderEvent
  BY <1>t, <1>2, OrderInHand DEF NoOrder, OrderIds
<1>4. /\ DOMAIN orders' = DOMAIN orders /\ orders'[o].status = t
      /\ \A p \in DOMAIN orders \ {o} : orders'[p].status = orders[p].status
  <2>1. /\ orders' = [orders EXCEPT ![o] = WithStatus(orders[o], t, external[w])]
        /\ orders \in [DOMAIN orders -> StoredOrder]
    BY <1>t DEF SetStatus, TypeOK
  <2>2. WithStatus(orders[o], t, external[w]).status = t
    BY <1>3 DEF WithStatus, StoredOrder
  <2> QED
    BY <1>3, <2>1, <2>2
<1>5. event[w].from = orders[o].status /\ Unbooked(o)
      /\ (pc[w] = "submit_set" => t = "SUBMITTED")
      /\ (pc[w] = "cancel_set" => t = "CANCEL_PENDING")
  BY <1>1, <1>2, <1>3 DEF OneAtATime, FreshHands, InStep, HandsUnbooked
<1>6. /\ pc'[w] \in PushSteps /\ pc'[w] \notin SetSteps
      /\ pc'[w] \notin {"place", "cancel_call", "position", "ledger"}
      /\ pc'[w] = "submit_push" => pc[w] = "submit_set"
      /\ pc'[w] = "cancel_push" => pc[w] = "cancel_set"
  BY <1>1 DEF PushOf, PushSteps, SetSteps
<1>7. Unbooked(order[w])' /\ InStep(pc[w], event[w], orders[order[w]].status)'
  BY <1>1, <1>4, <1>5, <1>6 DEF Unbooked, InStep, SetSteps
<1>8. OneAtATime'
  BY <1>t, <1>1, <1>4, <1>6, <1>7, StepKeeps
<1>9. CanTransition(orders[o].status, t) /\ t \in OrderStatus
  BY <1>1, <1>3, <1>5 DEF IInv, EventInHand, MayAppend, OrderEvent
<1>10. \E p \in DOMAIN orders, s \in OrderStatus : Book!Move(p, s)
  <2> PICK p \in DOMAIN orders, s \in OrderStatus : p = o /\ s = t
    BY <1>3, <1>9
  <2>1. Book!Move(p, s)
    BY <1>1, <1>3, <1>4, <1>9, SameStateMachine DEF Book!Move
  <2> QED
    BY <2>1
<1> QED
  BY <1>8, <1>10, MoveIsStep

\* The second half keeps the invariant, and changes nothing in OrderBook: an
\* order whose fill is about to be booked still is FILLED.
LEMMA PushSerial ==
  ASSUME TypeOK, TypeOK', OneAtATime, NEW w \in Workers,
         PushEvent(w) \/ PushLastEvent(w) \/ PushFill(w)
  PROVE  OneAtATime' /\ BookStep
<1>1. /\ pc[w] \in PushSteps /\ Push(w) /\ UNCHANGED <<positions, created>>
      /\ Others(w)
  BY DEF PushEvent, PushLastEvent, PushFill, PushSteps, Finish, Goto, TypeOK, Others
<1>2. pc[w] \notin {"idle", "risk", "create", "ledger"}
  BY <1>1 DEF PushSteps
<1>3. /\ order[w] \in DOMAIN orders /\ order[w] # NoOrder
      /\ orders[order[w]] \in StoredOrder
  BY <1>2, OrderInHand DEF OrderIds, NoOrder
<1>4. /\ DOMAIN orders' = DOMAIN orders
      /\ \A o \in DOMAIN orders : orders'[o].status = orders[o].status
  BY <1>1, <1>3 DEF Push, WithEvent, StoredOrder
<1>5. /\ Unbooked(order[w]) /\ event[w].to = orders[order[w]].status
      /\ pc[w] = "submit_push" => event[w].to = "SUBMITTED"
      /\ pc[w] = "cancel_push" => event[w].to = "CANCEL_PENDING"
  BY <1>1, <1>2, <1>3 DEF OneAtATime, FreshHands, InStep, HandsUnbooked
<1>6. BookStep
  BY <1>1, <1>4, Stutters
<1>7. CASE PushLastEvent(w)
  <2>1. order'[w] = NoOrder /\ pc'[w] = "idle"
    BY <1>7 DEF PushLastEvent, Finish, Goto, TypeOK
  <2> QED
    BY <1>1, <1>4, <1>6, <2>1, StepKeeps
<1>8. CASE PushEvent(w) \/ PushFill(w)
  <2>1. /\ order'[w] = order[w]
        /\ \/ pc[w] = "submit_push" /\ pc'[w] = "place"
           \/ pc[w] = "cancel_push" /\ pc'[w] = "cancel_call"
           \/ pc'[w] = "position" /\ event[w].to = "FILLED"
    BY <1>8 DEF PushEvent, PushFill, IsBookable, Goto, TypeOK
  <2>2. InStep(pc[w], event[w], orders[order[w]].status)'
    BY <1>3, <1>4, <1>5, <2>1 DEF InStep, PushSteps, SetSteps
  <2>3. Unbooked(order[w])' /\ pc'[w] # "ledger"
    BY <1>1, <1>5, <2>1 DEF Unbooked
  <2> QED
    BY <1>1, <1>4, <1>6, <2>1, <2>2, <2>3, StepKeeps
<1> QED
  BY <1>7, <1>8

\* The booking of a fill keeps the invariant, and is OrderBook's: the order is
\* FILLED, and was not booked before.
LEMMA BookSerial ==
  ASSUME TypeOK, TypeOK', OneAtATime, NEW w \in Workers, BookPosition(w)
  PROVE  OneAtATime' /\ BookStep
<1> DEFINE o == order[w]
           f == Fill(o, orders[o], at[w])
<1>1. /\ pc[w] = "position" /\ pc'[w] = "ledger" /\ Others(w)
      /\ UNCHANGED <<orders, created, order, event>>
      /\ positions' = Append(positions, f)
  BY DEF BookPosition, Goto, TypeOK, Others
<1>2. o \in DOMAIN orders /\ o # NoOrder
  <2>1. pc[w] \notin {"idle", "risk", "create"}
    BY <1>1
  <2> QED
    BY <2>1, OrderInHand DEF OrderIds, NoOrder
<1>3. orders[o].status = "FILLED" /\ Unbooked(o)
  BY <1>1, <1>2 DEF OneAtATime, FreshHands, InStep, HandsUnbooked
<1>4. f.order = o
  BY DEF Fill
<1>5. /\ Len(positions) \in Nat /\ Len(positions') = Len(positions) + 1
      /\ \A n \in 1..Len(positions) : positions'[n] = positions[n]
      /\ positions'[Len(positions) + 1] = f
  BY <1>1 DEF TypeOK
<1>6. OneAtATime'
  <2>1. Exclusive'
    BY <1>1 DEF OneAtATime, Exclusive
  <2>2. FreshHands'
    <3> SUFFICES ASSUME NEW v \in Workers, order[v] # NoOrder
                 PROVE  InStep(pc'[v], event[v], orders[order[v]].status)
      BY <1>1 DEF FreshHands
    <3>1. CASE v = w
      BY <1>1, <3>1 DEF InStep, SetSteps, PushSteps
    <3>2. CASE v # w
      BY <1>1, <3>2 DEF OneAtATime, FreshHands, Others
    <3> QED
      BY <3>1, <3>2
  <2>3. HandsUnbooked'
    <3> SUFFICES ASSUME NEW v \in Workers, order[v] # NoOrder, pc'[v] # "ledger",
                        NEW n \in 1..Len(positions')
                 PROVE  positions'[n].order # order[v]
      BY <1>1 DEF HandsUnbooked, Unbooked
    <3>1. v # w
      BY <1>1
    <3>2. pc[v] = pc'[v] /\ order[v] # o
      BY <1>1, <1>2, <3>1 DEF Others, OneAtATime, Exclusive
    <3>3. Unbooked(order[v])
      BY <3>2 DEF OneAtATime, HandsUnbooked
    <3> QED
      BY <1>4, <1>5, <3>2, <3>3 DEF Unbooked
  <2>4. BookedAreFilled'
    BY <1>1, <1>2, <1>3, <1>4, <1>5 DEF OneAtATime, BookedAreFilled
  <2> QED
    BY <2>1, <2>2, <2>3, <2>4 DEF OneAtATime
<1>7. \E p \in DOMAIN orders : Book!Book(p)
  <2> PICK p \in DOMAIN orders : p = o
    BY <1>2
  <2> DEFINE booked == [n \in 1..Len(positions) |-> positions[n].order]
  <2>1. booked \in Seq(OrderIds) /\ Len(booked) = Len(positions)
    <3>1. \A n \in 1..Len(positions) : positions[n].order \in OrderIds
      <4> SUFFICES ASSUME NEW n \in 1..Len(positions)
                   PROVE  positions[n].order \in OrderIds
        OBVIOUS
      <4>1. positions[n] \in FillRecord
        BY DEF TypeOK
      <4> QED
        BY <4>1 DEF FillRecord
    <3>2. booked \in [1..Len(positions) -> OrderIds]
      BY <3>1
    <3> QED
      BY <1>5, <3>2
  <2>2. [n \in 1..Len(positions') |-> positions'[n].order] = Append(booked, p)
    BY <1>4, <1>5, <2>1
  <2>3. Book!Book(p)
    BY <1>1, <1>3, <2>1, <2>2 DEF Book!Book, Unbooked
  <2> QED
    BY <2>3
<1> QED
  BY <1>6, <1>7, BookIsStep

\* The other steps of a request keep the invariant and change nothing in
\* OrderBook: a cancellation finds its order CANCEL_PENDING.
LEMMA OtherStepsSerial ==
  ASSUME TypeOK, TypeOK', OneAtATime, NEW w \in Workers,
         \/ AcceptRisk(w) \/ RejectRisk(w) \/ BookTrade(w)
         \/ CallCancel(w) \/ CallModify(w) \/ ModifyRaises(w)
  PROVE  OneAtATime' /\ BookStep
<1>1. UNCHANGED <<orders, positions, created>> /\ Others(w)
  BY DEF AcceptRisk, RejectRisk, BookTrade, CallCancel, CallModify,
         ModifyRaises, Turn, Finish, Goto, service, TypeOK, Others
<1>2. BookStep
  BY <1>1, Stutters
<1>3. CASE AcceptRisk(w) \/ RejectRisk(w) \/ BookTrade(w) \/ ModifyRaises(w)
  <2>1. order'[w] = NoOrder /\ pc'[w] # "ledger"
    BY <1>3 DEF AcceptRisk, RejectRisk, BookTrade, ModifyRaises, Finish, Goto, TypeOK
  <2> QED
    BY <1>1, <1>2, <2>1, StepKeeps
<1>4. CASE CallCancel(w) \/ CallModify(w)
  <2>1. /\ pc[w] \in {"cancel_call", "modify_call"} /\ order'[w] = order[w]
        /\ \/ /\ pc[w] = "cancel_call" /\ pc'[w] = "cancel_ack_set"
              /\ event'[w].from = "CANCEL_PENDING"
           \/ /\ pc'[w] = "modify_set"
              /\ event'[w].from = orders[order[w]].status
    BY <1>4 DEF CallCancel, CallModify, Turn, Goto, Transition, TypeOK
  <2>2. pc[w] \notin {"idle", "risk", "create", "ledger"}
    BY <2>1
  <2>3. order[w] # NoOrder
    BY <2>2, OrderInHand DEF OrderIds, NoOrder
  <2>4. /\ Unbooked(order[w])
        /\ pc[w] = "cancel_call" => orders[order[w]].status = "CANCEL_PENDING"
    BY <2>2, <2>3 DEF OneAtATime, FreshHands, InStep, HandsUnbooked
  <2>5. Unbooked(order[w])'
    BY <1>1, <2>1, <2>4 DEF Unbooked
  <2>6. InStep(pc[w], event[w], orders[order[w]].status)'
    <3>1. /\ pc'[w] \in {"cancel_ack_set", "modify_set"}
          /\ event'[w].from = orders'[order'[w]].status
      BY <1>1, <2>1, <2>4
    <3> QED
      BY <3>1 DEF InStep, PushSteps, SetSteps
  <2>7. pc'[w] # "ledger"
    BY <2>1
  <2> QED
    BY <1>1, <1>2, <2>1, <2>5, <2>6, <2>7, StepKeeps
<1> QED
  BY <1>3, <1>4

\* A restart forgets the orders and the bookings, as OrderBook does.
LEMMA RestartSerial ==
  ASSUME Restart
  PROVE  OneAtATime' /\ BookStep
<1>1. /\ orders' = [o \in {} |-> {}] /\ positions' = <<>> /\ UNCHANGED created
      /\ \A w \in Workers : order'[w] = NoOrder
  BY DEF Restart
<1>2. OneAtATime'
  BY <1>1 DEF OneAtATime, Exclusive, FreshHands, HandsUnbooked, BookedAreFilled
<1>3. /\ [o \in DOMAIN orders' |-> orders'[o].status] = [o \in {} |-> {}]
      /\ [n \in 1..Len(positions') |-> positions'[n].order] = <<>>
  BY <1>1
<1>4. Book!Forget
  BY <1>1, <1>3 DEF Book!Forget
<1> QED
  BY <1>2, <1>4 DEF BookStep, Book!Next

\* Every step, and every stutter.
LEMMA NextSerial ==
  ASSUME Discipline = "serial"
  PROVE  IInv /\ TypeOK' /\ OneAtATime /\ [Next]_vars => OneAtATime' /\ BookStep
<1> SUFFICES ASSUME IInv, TypeOK', OneAtATime, [Next]_vars
             PROVE  OneAtATime' /\ BookStep
  OBVIOUS
<1>t. TypeOK
  BY DEF IInv
<1>1. ASSUME NEW w \in Workers, Begin(w)
      PROVE  OneAtATime' /\ BookStep
  BY <1>t, <1>1, BeginSerial
<1>2. ASSUME NEW w \in Workers, Continue(w)
      PROVE  OneAtATime' /\ BookStep
  BY <1>t, <1>2, CreateSerial, AnswerSerial, SetStatusSerial, PushSerial,
     BookSerial, OtherStepsSerial DEF Continue
<1>3. CASE Restart
  BY <1>3, RestartSerial
<1>4. CASE UNCHANGED vars
  <2>1. OneAtATime'
    BY <1>4 DEF vars, service, locals, OneAtATime, Exclusive, FreshHands,
                HandsUnbooked, BookedAreFilled, Unbooked, InStep
  <2>2. BookStep
    BY <1>4, Stutters DEF vars, service, locals
  <2> QED
    BY <2>1, <2>2
<1> QED
  BY <1>1, <1>2, <1>3, <1>4 DEF Next

LEMMA InitSerial == Init => OneAtATime /\ Book!Init
<1> SUFFICES ASSUME Init PROVE OneAtATime /\ Book!Init
  OBVIOUS
<1>1. /\ orders = [o \in {} |-> {}] /\ positions = <<>> /\ created = 0
      /\ \A w \in Workers : order[w] = NoOrder
  BY DEF Init
<1>2. OneAtATime
  BY <1>1 DEF OneAtATime, Exclusive, FreshHands, HandsUnbooked, BookedAreFilled
<1>3. /\ [o \in DOMAIN orders |-> orders[o].status] = [o \in {} |-> {}]
      /\ [n \in 1..Len(positions) |-> positions[n].order] = <<>>
  BY <1>1
<1> QED
  BY <1>1, <1>2, <1>3 DEF Book!Init

----------------------------------------------------------------------------
\* Refinement: to clients that never have two requests under way about one
\* order, service.py and lifecycle_store.py behave as OrderBook says: an order
\* moves in single allowed steps, and its fill reaches the positions at most
\* once and only when the order has been filled.
THEOREM ServiceImplementsOrderBook ==
  ASSUME Discipline = "serial"
  PROVE  Spec => ImplementsOrderBook
<1>1. Init => OneAtATime /\ Book!Init
  BY InitSerial
<1>2. IInv /\ TypeOK' /\ OneAtATime /\ [Next]_vars
        => OneAtATime' /\ [Book!Next]_Book!vars
  BY NextSerial DEF BookStep
<1>3. IInv => TypeOK
  BY DEF IInv
<1> QED
  BY <1>1, <1>2, <1>3, Invariance, PTL
     DEF Spec, ImplementsOrderBook, Book!Spec

\* A step of OrderBook moves an order as the state machine allows.
LEMMA BookStepMoves ==
  ASSUME TypeOK, BookStep, NEW o \in DOMAIN orders, o \in DOMAIN orders',
         orders'[o].status # orders[o].status
  PROVE  CanTransition(orders[o].status, orders'[o].status)
<1> DEFINE before == [p \in DOMAIN orders |-> orders[p].status]
           after == [p \in DOMAIN orders' |-> orders'[p].status]
<1>1. /\ before[o] = orders[o].status /\ after[o] = orders'[o].status
      /\ DOMAIN before = DOMAIN orders /\ DOMAIN after = DOMAIN orders'
  OBVIOUS
<1>2. after # before
  BY <1>1
<1>3. created + 1 \notin DOMAIN orders
  BY DEF TypeOK
<1>4. CASE Book!Create
  <2>1. /\ created' = created + 1
        /\ after = [p \in DOMAIN before \cup {created'} |->
                      IF p = created' THEN "CREATED" ELSE before[p]]
    BY <1>4 DEF Book!Create
  <2> HIDE DEF before, after
  <2> QED
    BY <1>1, <1>3, <2>1
<1>5. ASSUME NEW p \in DOMAIN before, Book!Book(p)
      PROVE  FALSE
  BY <1>2, <1>5 DEF Book!Book
<1>6. ASSUME NEW p \in DOMAIN before, NEW t \in Book!OrderStatus, Book!Move(p, t)
      PROVE  CanTransition(orders[o].status, orders'[o].status)
  <2>1. Book!CanTransition(before[p], t) /\ after = [before EXCEPT ![p] = t]
    BY <1>6 DEF Book!Move
  <2>2. CanTransition(before[p], t)
    BY <2>1, SameStateMachine
  <2> HIDE DEF before, after
  <2>3. p = o /\ after[o] = t
    BY <1>1, <2>1
  <2> QED
    BY <1>1, <2>2, <2>3
<1>7. ~Book!Forget
  BY <1>1 DEF Book!Forget
<1>8. Book!Next
  BY <1>2 DEF BookStep, Book!vars
<1> QED
  BY <1>4, <1>5, <1>6, <1>7, <1>8, Zenon DEF Book!Next

\* Lifecycle: for serial clients every change of an order's status is one the
\* state machine allows; in particular nothing moves an order out of FILLED,
\* CANCELLED or REJECTED.
THEOREM StatusesMoveLegally ==
  ASSUME Discipline = "serial"
  PROVE  Spec => StatusMovesLegally
<1> DEFINE Legal == \A o \in DOMAIN orders \cap DOMAIN orders' :
                      orders'[o].status # orders[o].status =>
                        CanTransition(orders[o].status, orders'[o].status)
<1>1. Init => OneAtATime
  BY InitSerial
<1>2. IInv /\ TypeOK' /\ OneAtATime /\ [Next]_vars => OneAtATime' /\ BookStep
  BY NextSerial
<1>3. IInv /\ BookStep => Legal
  BY BookStepMoves DEF IInv
<1>4. IInv => TypeOK
  BY DEF IInv
<1>5. IInv /\ TypeOK' /\ OneAtATime /\ [Next]_vars => [Legal]_vars
  BY <1>2, <1>3
<1>6. StatusMovesLegally <=> [][Legal]_vars
  BY DEF StatusMovesLegally
<1> HIDE DEF Legal
<1> QED
  BY <1>1, <1>2, <1>4, <1>5, <1>6, Invariance, PTL DEF Spec

----------------------------------------------------------------------------
(***************************************************************************)
(* The histories.  HistoryIsChain needs that a thread inside append_event  *)
(* is about to append an event that starts where the history ends.         *)
(***************************************************************************)
AppendsNext ==
  \A w \in Workers : order[w] # NoOrder /\ pc[w] \in PushSteps =>
    event[w].from = StatusAfter(orders[order[w]].history)

Chained == HistoryIsChain /\ AppendsNext

\* Only its thread is inside append_event for an order.
LEMMA AppendedBy ==
  ASSUME TypeOK, OneAtATime, NEW w \in Workers, order[w] # NoOrder
  PROVE  BeingAppended(order[w]) <=> pc[w] \in PushSteps
BY DEF BeingAppended, OneAtATime, Exclusive

\* Steps outside append_event that leave the store alone keep the histories.
LEMMA ChainKept ==
  ASSUME Chained, NEW w \in Workers, Others(w), UNCHANGED orders,
         pc[w] \notin PushSteps, pc'[w] \notin PushSteps
  PROVE  Chained'
<1>1. AppendsNext'
  BY DEF Chained, AppendsNext, Others
<1>2. \A o : BeingAppended(o) => BeingAppended(o)'
  BY DEF BeingAppended, Others
<1>3. HistoryIsChain'
  BY <1>2 DEF Chained, HistoryIsChain
<1> QED
  BY <1>1, <1>3 DEF Chained

LEMMA CreateChained ==
  ASSUME TypeOK, TypeOK', Chained, NEW w \in Workers, CreateOrder(w)
  PROVE  Chained'
<1> DEFINE o == created + 1
<1>1. /\ pc[w] = "create" /\ pc'[w] = "submit_set" /\ Others(w) /\ order'[w] = o
  BY DEF CreateOrder, Turn, Goto, TypeOK, Others
<1>2. orders' = [p \in DOMAIN orders \cup {o} |->
                   IF p = o THEN NewOrder(request[w]) ELSE orders[p]]
  BY DEF CreateOrder
<1>3. o \notin DOMAIN orders
  BY DEF TypeOK
<1>4. /\ DOMAIN orders' = DOMAIN orders \cup {o}
      /\ orders'[o].status = "CREATED" /\ orders'[o].history = <<>>
      /\ \A p \in DOMAIN orders : orders'[p] = orders[p]
  BY <1>2, <1>3 DEF NewOrder
<1>5. AppendsNext'
  <2> SUFFICES ASSUME NEW v \in Workers, order'[v] # NoOrder, pc'[v] \in PushSteps
               PROVE  event'[v].from = StatusAfter(orders'[order'[v]].history)
    BY DEF AppendsNext, StatusAfter
  <2>1. v # w
    BY <1>1 DEF PushSteps
  <2>2. pc'[v] = pc[v] /\ order'[v] = order[v] /\ event'[v] = event[v]
    BY <1>1, <2>1 DEF Others
  <2>3. order[v] \in DOMAIN orders
    BY <2>2 DEF TypeOK
  <2> QED
    BY <1>4, <2>2, <2>3 DEF Chained, AppendsNext
<1>6. \A p \in DOMAIN orders : BeingAppended(p) => BeingAppended(p)'
  BY <1>1 DEF BeingAppended, Others, PushSteps
<1>7. HistoryIsChain'
  <2> SUFFICES ASSUME NEW p \in DOMAIN orders'
               PROVE  /\ \A i \in 1..Len(orders'[p].history) :
                           orders'[p].history[i].from
                             = StatusAfter(SubSeq(orders'[p].history, 1, i - 1))
                      /\ ~BeingAppended(p)' =>
                           orders'[p].status = StatusAfter(orders'[p].history)
    BY DEF HistoryIsChain, StatusAfter
  <2>1. CASE p = o
    BY <1>4, <2>1 DEF StatusAfter
  <2>2. CASE p # o
    BY <1>4, <1>6, <2>2 DEF Chained, HistoryIsChain
  <2> QED
    BY <2>1, <2>2
<1> QED
  BY <1>5, <1>7 DEF Chained

\* The first half of append_event: the event starts from the status the order
\* had, which is where its history ends.
LEMMA SetStatusChained ==
  ASSUME TypeOK, TypeOK', OneAtATime, Chained, NEW w \in Workers, SetStatus(w)
  PROVE  Chained'
<1> DEFINE o == order[w]
<1>1. /\ pc[w] \in SetSteps /\ pc'[w] = PushOf[pc[w]] /\ Others(w)
      /\ order'[w] = o /\ event'[w] = event[w]
  BY DEF SetStatus, Goto, TypeOK, Others
<1>2. pc[w] \notin {"idle", "risk", "create"} \cup PushSteps /\ pc'[w] \in PushSteps
  BY <1>1 DEF SetSteps, PushSteps, PushOf
<1>3. /\ o \in DOMAIN orders /\ o # NoOrder /\ orders[o] \in StoredOrder
  BY <1>2, OrderInHand DEF NoOrder, OrderIds
<1>4. /\ DOMAIN orders' = DOMAIN orders /\ orders'[o].history = orders[o].history
      /\ \A p \in DOMAIN orders \ {o} : orders'[p] = orders[p]
  <2>1. /\ orders' = [orders EXCEPT ![o] = WithStatus(orders[o], event[w].to, external[w])]
        /\ orders \in [DOMAIN orders -> StoredOrder]
    BY DEF SetStatus, TypeOK
  <2>2. WithStatus(orders[o], event[w].to, external[w]).history = orders[o].history
    BY <1>3 DEF WithStatus, StoredOrder
  <2> QED
    BY <1>3, <2>1, <2>2
<1>5. event[w].from = StatusAfter(orders[o].history)
  <2>1. ~BeingAppended(o)
    BY <1>2, <1>3, AppendedBy
  <2>2. event[w].from = orders[o].status
    BY <1>1, <1>3 DEF OneAtATime, FreshHands, InStep
  <2> QED
    BY <1>3, <2>1, <2>2 DEF Chained, HistoryIsChain
<1>6. AppendsNext'
  <2> SUFFICES ASSUME NEW v \in Workers, order'[v] # NoOrder, pc'[v] \in PushSteps
               PROVE  event'[v].from = StatusAfter(orders'[order'[v]].history)
    BY DEF AppendsNext, StatusAfter
  <2>1. CASE v = w
    BY <1>1, <1>4, <1>5, <2>1
  <2>2. CASE v # w
    <3>1. pc'[v] = pc[v] /\ order'[v] = order[v] /\ event'[v] = event[v]
      BY <1>1, <2>2 DEF Others
    <3>2. order[v] \in DOMAIN orders /\ order[v] # o
      BY <1>3, <2>2, <3>1 DEF TypeOK, OneAtATime, Exclusive
    <3> QED
      BY <1>4, <3>1, <3>2 DEF Chained, AppendsNext
  <2> QED
    BY <2>1, <2>2
<1>7. \A p : BeingAppended(p) => BeingAppended(p)'
  BY <1>1, <1>2 DEF BeingAppended, Others
<1>8. HistoryIsChain'
  <2> SUFFICES ASSUME NEW p \in DOMAIN orders'
               PROVE  /\ \A i \in 1..Len(orders'[p].history) :
                           orders'[p].history[i].from
                             = StatusAfter(SubSeq(orders'[p].history, 1, i - 1))
                      /\ ~BeingAppended(p)' =>
                           orders'[p].status = StatusAfter(orders'[p].history)
    BY DEF HistoryIsChain, StatusAfter
  <2>1. CASE p = o
    <3>1. BeingAppended(p)'
      BY <1>1, <1>2, <2>1 DEF BeingAppended
    <3>2. \A i \in 1..Len(orders[p].history) :
            orders[p].history[i].from = StatusAfter(SubSeq(orders[p].history, 1, i - 1))
      BY <1>4 DEF Chained, HistoryIsChain
    <3> QED
      BY <1>4, <2>1, <3>1, <3>2
  <2>2. CASE p # o
    BY <1>4, <1>7, <2>2 DEF Chained, HistoryIsChain
  <2> QED
    BY <2>1, <2>2
<1> QED
  BY <1>6, <1>8 DEF Chained

\* A history extended by an event that starts where it ends.
LEMMA ChainGrows ==
  ASSUME NEW h \in Seq(OrderEvent), NEW e \in OrderEvent, e.from = StatusAfter(h),
         \A i \in 1..Len(h) : h[i].from = StatusAfter(SubSeq(h, 1, i - 1))
  PROVE  /\ \A i \in 1..Len(Append(h, e)) :
              Append(h, e)[i].from = StatusAfter(SubSeq(Append(h, e), 1, i - 1))
         /\ StatusAfter(Append(h, e)) = e.to
<1> DEFINE g == Append(h, e)
<1>1. /\ g \in Seq(OrderEvent) /\ Len(g) = Len(h) + 1 /\ g[Len(h) + 1] = e
      /\ \A i \in 1..Len(h) : g[i] = h[i]
  OBVIOUS
<1>2. StatusAfter(g) = e.to
  BY <1>1, SMTT(20) DEF StatusAfter
<1>3. ASSUME NEW i \in 1..Len(g)
      PROVE  g[i].from = StatusAfter(SubSeq(g, 1, i - 1))
  <2>1. SubSeq(g, 1, i - 1) = SubSeq(h, 1, i - 1)
    BY <1>1
  <2>2. CASE i \in 1..Len(h)
    BY <1>1, <2>1, <2>2
  <2>3. CASE i = Len(h) + 1
    <3>1. SubSeq(h, 1, i - 1) = h
      BY <2>3
    <3> QED
      BY <1>1, <2>1, <2>3, <3>1
  <2> QED
    BY <1>1, <2>2, <2>3
<1> QED
  BY <1>2, <1>3

\* The second half of append_event: the history ends where the status is.
LEMMA PushChained ==
  ASSUME TypeOK, TypeOK', OneAtATime, Chained, NEW w \in Workers,
         PushEvent(w) \/ PushLastEvent(w) \/ PushFill(w)
  PROVE  Chained'
<1> DEFINE o == order[w]
<1>1. /\ pc[w] \in PushSteps /\ pc'[w] \notin PushSteps /\ Push(w) /\ Others(w)
  BY DEF PushEvent, PushLastEvent, PushFill, PushSteps, Finish, Goto, TypeOK, Others
<1>2. pc[w] \notin {"idle", "risk", "create"}
  BY <1>1 DEF PushSteps
<1>3. /\ o \in DOMAIN orders /\ o # NoOrder /\ orders[o] \in StoredOrder
      /\ event[w] \in OrderEvent /\ orders[o].history \in Seq(OrderEvent)
  BY <1>2, OrderInHand DEF NoOrder, OrderIds, StoredOrder
<1>4. /\ DOMAIN orders' = DOMAIN orders
      /\ orders'[o].history = Append(orders[o].history, event[w])
      /\ orders'[o].status = orders[o].status
      /\ \A p \in DOMAIN orders \ {o} : orders'[p] = orders[p]
  <2>1. /\ orders' = [orders EXCEPT ![o] = WithEvent(orders[o], event[w])]
        /\ orders \in [DOMAIN orders -> StoredOrder]
    BY <1>1 DEF Push, TypeOK
  <2>2. /\ WithEvent(orders[o], event[w]).history = Append(orders[o].history, event[w])
        /\ WithEvent(orders[o], event[w]).status = orders[o].status
    BY <1>3 DEF WithEvent, StoredOrder
  <2> QED
    BY <1>3, <2>1, <2>2
<1>5. /\ event[w].from = StatusAfter(orders[o].history)
      /\ event[w].to = orders[o].status
  BY <1>1, <1>3 DEF Chained, AppendsNext, OneAtATime, FreshHands, InStep
<1>6. AppendsNext'
  <2> SUFFICES ASSUME NEW v \in Workers, order'[v] # NoOrder, pc'[v] \in PushSteps
               PROVE  event'[v].from = StatusAfter(orders'[order'[v]].history)
    BY DEF AppendsNext, StatusAfter
  <2>1. v # w
    BY <1>1
  <2>2. pc'[v] = pc[v] /\ order'[v] = order[v] /\ event'[v] = event[v]
    BY <1>1, <2>1 DEF Others
  <2>3. order[v] \in DOMAIN orders /\ order[v] # o
    BY <1>3, <2>1, <2>2 DEF TypeOK, OneAtATime, Exclusive
  <2> QED
    BY <1>4, <2>2, <2>3 DEF Chained, AppendsNext
<1>7. \A p \in DOMAIN orders \ {o} : BeingAppended(p) => BeingAppended(p)'
  BY <1>1 DEF BeingAppended, Others
<1>8. HistoryIsChain'
  <2> SUFFICES ASSUME NEW p \in DOMAIN orders'
               PROVE  /\ \A i \in 1..Len(orders'[p].history) :
                           orders'[p].history[i].from
                             = StatusAfter(SubSeq(orders'[p].history, 1, i - 1))
                      /\ ~BeingAppended(p)' =>
                           orders'[p].status = StatusAfter(orders'[p].history)
    BY DEF HistoryIsChain, StatusAfter
  <2>1. CASE p = o
    <3>1. \A i \in 1..Len(orders[o].history) :
            orders[o].history[i].from = StatusAfter(SubSeq(orders[o].history, 1, i - 1))
      BY <1>3 DEF Chained, HistoryIsChain
    <3> QED
      BY <1>3, <1>4, <1>5, <2>1, <3>1, ChainGrows
  <2>2. CASE p # o
    BY <1>4, <1>7, <2>2 DEF Chained, HistoryIsChain
  <2> QED
    BY <2>1, <2>2
<1> QED
  BY <1>6, <1>8 DEF Chained

OtherSteps(w) == \/ AcceptRisk(w) \/ RejectRisk(w) \/ BookPosition(w) \/ BookTrade(w)
                 \/ CallCancel(w) \/ CallModify(w) \/ ModifyRaises(w)

\* Every step, and every stutter.
LEMMA NextChained ==
  TypeOK /\ TypeOK' /\ OneAtATime /\ Chained /\ [Next]_vars => Chained'
<1> SUFFICES ASSUME TypeOK, TypeOK', OneAtATime, Chained, [Next]_vars
             PROVE  Chained'
  OBVIOUS
<1>1. ASSUME NEW w \in Workers, Begin(w)
      PROVE  Chained'
  <2>1. CASE RespondDuplicate(w) \/ RejectUpdate(w) \/ BeginSubmit(w)
    <3>1. /\ UNCHANGED orders /\ Others(w)
          /\ pc[w] \notin PushSteps /\ pc'[w] \notin PushSteps
      BY <2>1 DEF BeginSubmit, RespondDuplicate, RejectUpdate, Idle, Goto, vars, service, locals,
                  TypeOK, Others, PushSteps
    <3> QED
      BY <3>1, ChainKept
  <2>2. CASE BeginUpdate(w) \/ BeginCancel(w) \/ BeginModify(w)
    <3>1. /\ UNCHANGED orders /\ Others(w)
          /\ pc[w] \notin PushSteps /\ pc'[w] \notin PushSteps
      BY <2>2 DEF BeginUpdate, BeginCancel, BeginModify, Idle, Turn, Goto, service,
                  TypeOK, Others, PushSteps
    <3> QED
      BY <3>1, ChainKept
  <2> QED
    BY <1>1, <2>1, <2>2 DEF Begin
<1>2. ASSUME NEW w \in Workers,
             \/ BrokerAccepts(w) \/ BrokerRejects(w) \/ BrokerFails(w)
             \/ OtherSteps(w)
      PROVE  Chained'
  <2>1. CASE BrokerAccepts(w) \/ BrokerRejects(w) \/ BrokerFails(w)
    <3>1. PICK t, x : Answer(w, t, x) /\ pc[w] = "place"
      BY <2>1 DEF BrokerAccepts, BrokerRejects, BrokerFails
    <3>2. /\ UNCHANGED orders /\ Others(w)
          /\ pc[w] \notin PushSteps /\ pc'[w] \notin PushSteps
      BY <3>1 DEF Answer, Goto, service, TypeOK, Others, PushSteps
    <3> QED
      BY <3>2, ChainKept
  <2>2. CASE AcceptRisk(w) \/ RejectRisk(w) \/ BookPosition(w) \/ BookTrade(w)
    <3>1. /\ UNCHANGED orders /\ Others(w)
          /\ pc[w] \notin PushSteps /\ pc'[w] \notin PushSteps
      BY <2>2 DEF AcceptRisk, RejectRisk, BookPosition, BookTrade, Finish, Goto,
                  service, TypeOK, Others, PushSteps
    <3> QED
      BY <3>1, ChainKept
  <2>3. CASE CallCancel(w) \/ CallModify(w) \/ ModifyRaises(w)
    <3>1. /\ UNCHANGED orders /\ Others(w)
          /\ pc[w] \notin PushSteps /\ pc'[w] \notin PushSteps
      BY <2>3 DEF CallCancel, CallModify, ModifyRaises, Turn, Finish, Goto,
                  service, TypeOK, Others, PushSteps
    <3> QED
      BY <3>1, ChainKept
  <2> QED
    BY <1>2, <2>1, <2>2, <2>3 DEF OtherSteps
<1>3. ASSUME NEW w \in Workers, Continue(w)
      PROVE  Chained'
  BY <1>2, <1>3, CreateChained, SetStatusChained, PushChained
     DEF Continue, OtherSteps
<1>4. CASE Restart
  BY <1>4 DEF Restart, Chained, HistoryIsChain, AppendsNext
<1>5. CASE UNCHANGED vars
  BY <1>5 DEF vars, service, locals, Chained, HistoryIsChain, AppendsNext,
              BeingAppended
<1> QED
  BY <1>1, <1>3, <1>4, <1>5 DEF Next

\* Lifecycle: to clients that never have two requests under way about one
\* order, the history lifecycle_store keeps of an order is a path of the state
\* machine from CREATED to the order's status, except inside append_event.
THEOREM HistoryAlwaysChain ==
  ASSUME Discipline = "serial"
  PROVE  Spec => []HistoryIsChain
<1>1. Init => OneAtATime
  BY InitSerial
<1>2. IInv /\ TypeOK' /\ OneAtATime /\ [Next]_vars => OneAtATime'
  BY NextSerial
<1>3. Init => Chained
  BY DEF Init, Chained, HistoryIsChain, AppendsNext
<1>4. TypeOK /\ TypeOK' /\ OneAtATime /\ Chained /\ [Next]_vars => Chained'
  BY NextChained
<1>5. (IInv => TypeOK) /\ (Chained => HistoryIsChain)
  BY DEF IInv, Chained
<1> QED
  BY <1>1, <1>2, <1>3, <1>4, <1>5, Invariance, PTL DEF Spec
----------------------------------------------------------------------------
(***************************************************************************)
(* Idempotency keys.  While clients are serial, an order and a submission  *)
(* between the duplicate check and the creation never share a key, nor do  *)
(* two of either.  An order keeps the fields of its submission.            *)
(***************************************************************************)
Submitting(w) == pc[w] \in {"risk", "create"}
Clash(k, l) == k = l /\ k # NoKey

OrderKeysApart == \A o, p \in DOMAIN orders : Clash(orders[o].key, orders[p].key) => o = p
SubmittedKeysNew ==
  \A w \in Workers : Submitting(w) =>
    \A o \in DOMAIN orders : ~Clash(orders[o].key, request[w].key)
SubmittedKeysApart ==
  \A v, w \in Workers :
    Submitting(v) /\ Submitting(w) /\ Clash(request[v].key, request[w].key) => v = w
KeysApart == OrderKeysApart /\ SubmittedKeysNew /\ SubmittedKeysApart

\* What an order has from its submission.
SameFields(stored, stored2) ==
  /\ stored2.symbol = stored.symbol /\ stored2.side = stored.side
  /\ stored2.quantity = stored.quantity /\ stored2.key = stored.key
FieldsKept ==
  DOMAIN orders' = DOMAIN orders /\ \A o \in DOMAIN orders : SameFields(orders[o], orders'[o])

\* A change of one order's status, external id or history keeps its fields.
LEMMA FieldsOfReplaced ==
  ASSUME TypeOK, NEW o \in DOMAIN orders, NEW stored, SameFields(orders[o], stored),
         orders' = [orders EXCEPT ![o] = stored]
  PROVE  FieldsKept
BY DEF TypeOK, FieldsKept, SameFields

LEMMA StoreFieldsKept ==
  ASSUME TypeOK, NEW w \in Workers,
         SetStatus(w) \/ PushEvent(w) \/ PushLastEvent(w) \/ PushFill(w)
  PROVE  FieldsKept
<1>1. pc[w] \notin {"idle", "risk", "create"}
  BY DEF SetStatus, PushEvent, PushLastEvent, PushFill, SetSteps
<1>2. order[w] \in DOMAIN orders /\ orders[order[w]] \in StoredOrder
  BY <1>1, OrderInHand
<1>3. CASE SetStatus(w)
  <2> DEFINE stored == WithStatus(orders[order[w]], event[w].to, external[w])
  <2>1. orders' = [orders EXCEPT ![order[w]] = stored]
    BY <1>3 DEF SetStatus
  <2>2. SameFields(orders[order[w]], stored)
    BY <1>2 DEF WithStatus, SameFields, StoredOrder
  <2> QED
    BY <1>2, <2>1, <2>2, FieldsOfReplaced
<1>4. CASE PushEvent(w) \/ PushLastEvent(w) \/ PushFill(w)
  <2> DEFINE stored == WithEvent(orders[order[w]], event[w])
  <2>1. orders' = [orders EXCEPT ![order[w]] = stored]
    BY <1>4 DEF PushEvent, PushLastEvent, PushFill, Push
  <2>2. SameFields(orders[order[w]], stored)
    BY <1>2 DEF WithEvent, SameFields, StoredOrder
  <2> QED
    BY <1>2, <2>1, <2>2, FieldsOfReplaced
<1> QED
  BY <1>3, <1>4

\* The steps that leave the store alone.
LEMMA StoreAlone ==
  ASSUME NEW w \in Workers,
         \/ Begin(w) \/ AcceptRisk(w) \/ RejectRisk(w)
         \/ BrokerAccepts(w) \/ BrokerRejects(w) \/ BrokerFails(w)
         \/ BookPosition(w) \/ BookTrade(w)
         \/ CallCancel(w) \/ CallModify(w) \/ ModifyRaises(w)
  PROVE  UNCHANGED orders
<1>1. CASE Begin(w)
  BY <1>1 DEF Begin, BeginSubmit, RespondDuplicate, BeginUpdate, RejectUpdate,
     BeginCancel, BeginModify, vars, service
<1>2. CASE BrokerAccepts(w) \/ BrokerRejects(w) \/ BrokerFails(w)
  BY <1>2 DEF BrokerAccepts, BrokerRejects, BrokerFails, Answer, service
<1> QED
  BY <1>1, <1>2 DEF AcceptRisk, RejectRisk, BookPosition, BookTrade, CallCancel, CallModify,
     ModifyRaises, service

\* Every step but a creation and a restart keeps the orders and their fields.
LEMMA StepFieldsKept ==
  ASSUME TypeOK, NEW w \in Workers, Begin(w) \/ Continue(w), ~CreateOrder(w)
  PROVE  FieldsKept
<1>1. CASE UNCHANGED orders
  BY <1>1 DEF FieldsKept, SameFields
<1> QED
  BY <1>1, StoreAlone, StoreFieldsKept DEF Continue

\* The threads of which no request is submitted by a step.
LEMMA SubmittingKept ==
  ASSUME TypeOK, NEW w \in Workers, Begin(w) \/ Continue(w), ~BeginSubmit(w),
         NEW v \in Workers, Submitting(v)'
  PROVE  Submitting(v) /\ request'[v] = request[v]
<1>1. CASE RespondDuplicate(w) \/ RejectUpdate(w)
  BY <1>1 DEF RespondDuplicate, RejectUpdate, vars, locals, Submitting
<1>2. CASE BeginUpdate(w) \/ BeginCancel(w) \/ BeginModify(w)
  BY <1>2 DEF BeginUpdate, BeginCancel, BeginModify, Turn, Goto, Submitting, TypeOK
<1>3. CASE AcceptRisk(w) \/ RejectRisk(w) \/ CreateOrder(w)
  BY <1>3 DEF AcceptRisk, RejectRisk, CreateOrder, Finish, Turn, Goto, Submitting, TypeOK
<1>4. CASE BrokerAccepts(w) \/ BrokerRejects(w) \/ BrokerFails(w)
  BY <1>4 DEF BrokerAccepts, BrokerRejects, BrokerFails, Answer, Goto, Submitting, TypeOK
<1>5. CASE SetStatus(w)
  <2>1. PushOf[pc[w]] \in PushSteps
    BY <1>5 DEF SetStatus, SetSteps, PushOf, PushSteps
  <2> QED
    BY <1>5, <2>1 DEF SetStatus, Goto, Submitting, TypeOK, PushSteps
<1>6. CASE PushEvent(w) \/ PushLastEvent(w) \/ PushFill(w)
  BY <1>6 DEF PushEvent, PushLastEvent, PushFill, Finish, Goto, Submitting, TypeOK
<1>7. CASE BookPosition(w) \/ BookTrade(w)
  BY <1>7 DEF BookPosition, BookTrade, Finish, Goto, Submitting, TypeOK
<1>8. CASE CallCancel(w) \/ CallModify(w) \/ ModifyRaises(w)
  BY <1>8 DEF CallCancel, CallModify, ModifyRaises, Finish, Turn, Goto, Submitting, TypeOK
<1> QED
  BY <1>1, <1>2, <1>3, <1>4, <1>5, <1>6, <1>7, <1>8 DEF Begin, Continue

LEMMA KeysApartKept ==
  ASSUME Discipline = "serial", TypeOK, TypeOK', KeysApart, [Next]_vars
  PROVE  KeysApart'
<1> USE DEF KeysApart
<1>1. ASSUME NEW w \in Workers, BeginSubmit(w)
      PROVE  KeysApart'
  <2>1. PICK r \in Requests : ~IsDuplicate(r) /\ KeyAvailable(r)
                              /\ request' = [request EXCEPT ![w] = r]
    BY <1>1 DEF BeginSubmit
  <2>2. UNCHANGED orders /\ request'[w] = r
        /\ \A v \in Workers \ {w} : request'[v] = request[v] /\ pc'[v] = pc[v]
    BY <1>1, <2>1 DEF BeginSubmit, Goto, service, TypeOK
  <2>3. \A o \in DOMAIN orders : ~Clash(orders[o].key, r.key)
    BY <2>1 DEF IsDuplicate, Clash
  <2>4. \A v \in Workers : Submitting(v) => ~Clash(request[v].key, r.key)
    BY <2>1 DEF KeyAvailable, Submitting, Clash
  <2>5. OrderKeysApart'
    BY <2>2 DEF OrderKeysApart, Clash
  <2>6. SubmittedKeysNew'
    BY <2>2, <2>3 DEF SubmittedKeysNew, Submitting, Clash
  <2>7. SubmittedKeysApart'
    BY <2>2, <2>4 DEF SubmittedKeysApart, Submitting, Clash
  <2> QED
    BY <2>5, <2>6, <2>7
<1>2. ASSUME NEW w \in Workers, CreateOrder(w)
      PROVE  KeysApart'
  <2> DEFINE o == created + 1
  <2>1. orders' = [p \in DOMAIN orders \cup {o} |->
                     IF p = o THEN NewOrder(request[w]) ELSE orders[p]]
    BY <1>2 DEF CreateOrder
  <2>2. o \notin DOMAIN orders
    BY DEF TypeOK
  <2>3. /\ DOMAIN orders' = DOMAIN orders \cup {o} /\ orders'[o].key = request[w].key
        /\ \A p \in DOMAIN orders : orders'[p] = orders[p]
    BY <2>1, <2>2 DEF NewOrder
  <2>4. Submitting(w) /\ ~Submitting(w)'
        /\ \A v \in Workers \ {w} : request'[v] = request[v] /\ pc'[v] = pc[v]
    BY <1>2 DEF CreateOrder, Turn, Goto, Submitting, TypeOK
  <2>5. \A p \in DOMAIN orders : ~Clash(orders[p].key, request[w].key)
    BY <2>4 DEF SubmittedKeysNew
  <2>6. \A v \in Workers \ {w} : Submitting(v) => ~Clash(request[w].key, request[v].key)
    BY <2>4 DEF SubmittedKeysApart
  <2>7. OrderKeysApart'
    BY <2>3, <2>5 DEF OrderKeysApart, Clash
  <2>8. SubmittedKeysNew'
    BY <2>3, <2>4, <2>6 DEF SubmittedKeysNew, Submitting
  <2>9. SubmittedKeysApart'
    BY <2>4 DEF SubmittedKeysApart, Submitting
  <2> QED
    BY <2>7, <2>8, <2>9
<1>3. ASSUME NEW w \in Workers, Begin(w) \/ Continue(w), ~BeginSubmit(w), ~CreateOrder(w)
      PROVE  KeysApart'
  <2>1. FieldsKept
    BY <1>3, StepFieldsKept
  <2>2. \A v \in Workers : Submitting(v)' => Submitting(v) /\ request'[v] = request[v]
    BY <1>3, SubmittingKept
  <2>3. OrderKeysApart'
    BY <2>1 DEF OrderKeysApart, FieldsKept, SameFields
  <2>4. SubmittedKeysNew'
    BY <2>1, <2>2 DEF SubmittedKeysNew, FieldsKept, SameFields
  <2>5. SubmittedKeysApart'
    BY <2>2 DEF SubmittedKeysApart
  <2> QED
    BY <2>3, <2>4, <2>5
<1>4. CASE Restart
  BY <1>4 DEF Restart, OrderKeysApart, SubmittedKeysNew, SubmittedKeysApart, Submitting
<1>5. CASE UNCHANGED vars
  BY <1>5 DEF vars, service, locals, OrderKeysApart, SubmittedKeysNew, SubmittedKeysApart, Submitting
<1> QED
  BY <1>1, <1>2, <1>3, <1>4, <1>5 DEF Next

LEMMA KeysApartInit == Init => KeysApart
BY DEF Init, KeysApart, OrderKeysApart, SubmittedKeysNew, SubmittedKeysApart, Submitting

\* What the broker holds is an order of this process, with its key.
PlacedKnown ==
  \A p \in placed :
    /\ p.order \in DOMAIN orders
    /\ p.key = orders[p.order].key /\ p.quantity = orders[p.order].quantity

LEMMA PlacedKnownKept ==
  ASSUME MaxRestarts = 0, TypeOK, PlacedKnown, [Next]_vars
  PROVE  PlacedKnown'
<1>1. ASSUME NEW w \in Workers, CreateOrder(w)
      PROVE  PlacedKnown'
  <2>1. UNCHANGED placed /\ DOMAIN orders \subseteq DOMAIN orders'
        /\ \A p \in DOMAIN orders : orders'[p] = orders[p]
    <3>1. created + 1 \notin DOMAIN orders
      BY DEF TypeOK
    <3> QED
      BY <1>1, <3>1 DEF CreateOrder
  <2> QED
    BY <2>1 DEF PlacedKnown
<1>2. ASSUME NEW w \in Workers, BrokerAccepts(w) \/ BrokerRejects(w) \/ BrokerFails(w)
      PROVE  PlacedKnown'
  <2>1. UNCHANGED orders /\ (Hold(order[w]) \/ UNCHANGED placed)
    BY <1>2, StoreAlone DEF BrokerAccepts, BrokerRejects, BrokerFails
  <2>2. order[w] \in DOMAIN orders
    BY <1>2, OrderInHand DEF BrokerAccepts, BrokerRejects, BrokerFails
  <2> QED
    BY <2>1, <2>2 DEF PlacedKnown, Hold
<1>3. ASSUME NEW w \in Workers, Begin(w) \/ Continue(w), ~CreateOrder(w), 
             ~(BrokerAccepts(w) \/ BrokerRejects(w) \/ BrokerFails(w))
      PROVE  PlacedKnown'
  <2>1. FieldsKept
    BY <1>3, StepFieldsKept
  <2>2. UNCHANGED placed
    <3>1. CASE Begin(w)
      BY <3>1 DEF Begin, BeginSubmit, RespondDuplicate, BeginUpdate, RejectUpdate,
         BeginCancel, BeginModify, vars
    <3> QED
      BY <1>3, <3>1 DEF Continue, AcceptRisk, RejectRisk, SetStatus, PushEvent, PushLastEvent,
         PushFill, BookPosition, BookTrade, CallCancel, CallModify, ModifyRaises
  <2> QED
    BY <2>1, <2>2 DEF PlacedKnown, FieldsKept, SameFields
<1>4. ~Restart
  BY DEF Restart, TypeOK
<1>5. CASE UNCHANGED vars
  BY <1>5 DEF vars, service, PlacedKnown
<1> QED
  BY <1>1, <1>2, <1>3, <1>4, <1>5 DEF Next

\* Idempotency: serial clients of one process never have two orders of a key at
\* the broker, however their requests about different keys interleave, and
\* however often a submission is repeated, answered or failed.
THEOREM OneOrderOfAKey ==
  ASSUME Discipline = "serial", MaxRestarts = 0
  PROVE  Spec => []OneBrokerOrderPerKey
<1>1. Init => PlacedKnown
  BY DEF Init, PlacedKnown
<1>2. TypeOK /\ TypeOK' /\ KeysApart /\ PlacedKnown /\ [Next]_vars => (KeysApart /\ PlacedKnown)'
  BY KeysApartKept, PlacedKnownKept
<1>3. TypeOK /\ KeysApart /\ PlacedKnown => OneBrokerOrderPerKey
  <2> SUFFICES ASSUME TypeOK, KeysApart, PlacedKnown, NEW p \in placed, NEW q \in placed,
                      p.key = q.key, p.key # NoKey
               PROVE  p = q
    BY DEF OneBrokerOrderPerKey
  <2>1. p.order = q.order /\ p.quantity = q.quantity
    BY DEF KeysApart, OrderKeysApart, Clash, PlacedKnown
  <2>2. /\ p \in [order : OrderIds, key : Keys, quantity : Nat]
        /\ q \in [order : OrderIds, key : Keys, quantity : Nat]
    BY DEF TypeOK
  <2> QED
    BY <2>1, <2>2
<1> QED
  BY <1>1, <1>2, <1>3, KeysApartInit, TypeCorrect, PTL DEF Spec

----------------------------------------------------------------------------
(***************************************************************************)
(* The broker's ids.  An order has the id the broker gave it or none, and  *)
(* so has a thread that is recording the broker's answer.                  *)
(***************************************************************************)
IdAtBroker(o) == IF BrokerMode = "live" THEN LiveExternalId(o) ELSE StubExternalId(o)
Recording(w) == pc[w] \in {"place_set", "place_push"}

OwnIds ==
  /\ \A o \in DOMAIN orders : orders[o].external \in {NoExternal, IdAtBroker(o)}
  /\ \A w \in Workers :
       IF Recording(w) THEN external[w] \in {NoExternal, IdAtBroker(order[w])}
                       ELSE external[w] = NoExternal

\* The id of an order at the broker is made of what never changes.
LEMMA SameIdAtBroker ==
  ASSUME NEW o, SameFields(orders[o], orders'[o])
  PROVE  IdAtBroker(o)' = IdAtBroker(o)
BY DEF IdAtBroker, LiveExternalId, StubExternalId, SameFields

\* A thread whose step does not record an id has none, or what it had.
LEMMA OwnIdsKept ==
  ASSUME TypeOK, OwnIds, NEW w \in Workers, FieldsKept,
         \A o \in DOMAIN orders : orders'[o].external \in {orders[o].external, external[w]},
         \A o \in DOMAIN orders : orders'[o].external # orders[o].external => o = order[w] /\ Recording(w),
         \A v \in Workers \ {w} :
           pc'[v] = pc[v] /\ order'[v] = order[v] /\ external'[v] = external[v],
         \/ ~Recording(w)' /\ external'[w] \in {NoExternal} \cup (IF Recording(w) THEN {} ELSE {external[w]})
         \/ Recording(w) /\ Recording(w)' /\ order'[w] = order[w] /\ external'[w] = external[w]
         \/ /\ Recording(w)' /\ order'[w] = order[w] /\ order[w] \in DOMAIN orders
            /\ external'[w] \in {NoExternal, IdAtBroker(order[w])}
  PROVE  OwnIds'
<1>1. \A o \in DOMAIN orders : IdAtBroker(o)' = IdAtBroker(o)
  BY SameIdAtBroker DEF FieldsKept
<1>2. \A v \in Workers : Recording(v) => order[v] \in DOMAIN orders
  BY DEF TypeOK, Recording
<1>3. ASSUME NEW o \in DOMAIN orders'
      PROVE  orders'[o].external \in {NoExternal, IdAtBroker(o)'}
  <2>1. o \in DOMAIN orders /\ orders[o].external \in {NoExternal, IdAtBroker(o)}
    BY DEF FieldsKept, OwnIds
  <2>2. CASE orders'[o].external = orders[o].external
    BY <1>1, <2>1, <2>2
  <2>3. CASE orders'[o].external # orders[o].external
    <3>1. o = order[w] /\ Recording(w) /\ orders'[o].external = external[w]
      BY <2>1, <2>3
    <3>2. external[w] \in {NoExternal, IdAtBroker(o)}
      BY <3>1 DEF OwnIds
    <3> QED
      BY <1>1, <2>1, <3>1, <3>2
  <2> QED
    BY <2>2, <2>3
<1>4. ASSUME NEW v \in Workers
      PROVE  IF Recording(v)' THEN external'[v] \in {NoExternal, (IdAtBroker(order[v]))'}
                              ELSE external'[v] = NoExternal
  <2>0. (IdAtBroker(order[v]))' = IF BrokerMode = "live" THEN LiveExternalId(order'[v])
             ELSE [symbol |-> orders'[order'[v]].symbol, side |-> orders'[order'[v]].side,
                   quantity |-> orders'[order'[v]].quantity, key |-> orders'[order'[v]].key]
    BY DEF IdAtBroker, LiveExternalId, StubExternalId
  <2>5. ASSUME order'[v] = order[v], order[v] \in DOMAIN orders
        PROVE  (IdAtBroker(order[v]))' = IdAtBroker(order[v])
    BY <2>0, <2>5 DEF FieldsKept, SameFields, IdAtBroker, LiveExternalId, StubExternalId
  <2>1. CASE v # w
    BY <1>2, <2>1, <2>5 DEF OwnIds, Recording
  <2>2. CASE v = w
    <3>1. CASE ~Recording(w)'
      BY <2>2, <3>1 DEF OwnIds
    <3>2. CASE Recording(w) /\ Recording(w)' /\ order'[w] = order[w] /\ external'[w] = external[w]
      BY <1>2, <2>2, <2>5, <3>2 DEF OwnIds
    <3>3. CASE /\ Recording(w)' /\ order'[w] = order[w] /\ order[w] \in DOMAIN orders
               /\ external'[w] \in {NoExternal, IdAtBroker(order[w])}
      BY <2>2, <2>5, <3>3
    <3> QED
      BY <3>1, <3>2, <3>3
  <2> QED
    BY <2>1, <2>2
<1> QED
  BY <1>3, <1>4 DEF OwnIds

LEMMA AnswerOwnIds ==
  ASSUME TypeOK, OwnIds, NEW w \in Workers,
         BrokerAccepts(w) \/ BrokerRejects(w) \/ BrokerFails(w)
  PROVE  OwnIds'
<1>1. pc[w] = "place" /\ order[w] \in DOMAIN orders
  BY OrderInHand DEF BrokerAccepts, BrokerRejects, BrokerFails
<1>2. PICK t, x : Answer(w, t, x) /\ x \in {NoExternal, IdAtBroker(order[w])}
  BY DEF BrokerAccepts, BrokerRejects, BrokerFails, IdAtBroker
<1>3. FieldsKept /\ UNCHANGED orders
  BY StoreAlone DEF FieldsKept, SameFields
<1>4. /\ \A v \in Workers \ {w} :
           pc'[v] = pc[v] /\ order'[v] = order[v] /\ external'[v] = external[v]
      /\ pc'[w] = "place_set" /\ order'[w] = order[w] /\ external'[w] = x
  BY <1>2 DEF Answer, Goto, TypeOK
<1>5. Recording(w)'
  BY <1>4 DEF Recording
<1> QED
  BY <1>1, <1>2, <1>3, <1>4, <1>5, OwnIdsKept

LEMMA SetStatusOwnIds ==
  ASSUME TypeOK, OwnIds, NEW w \in Workers, SetStatus(w)
  PROVE  OwnIds'
<1>1. pc[w] \in SetSteps /\ pc[w] \notin {"idle", "risk", "create"}
  BY DEF SetStatus, SetSteps
<1>2. order[w] \in DOMAIN orders /\ orders[order[w]] \in StoredOrder
  BY <1>1, OrderInHand
<1>3. FieldsKept
  BY StoreFieldsKept
<1>4. /\ orders' = [orders EXCEPT ![order[w]] = WithStatus(orders[order[w]], event[w].to, external[w])]
      /\ orders \in [DOMAIN orders -> StoredOrder]
  BY DEF SetStatus, TypeOK
<1>5. WithStatus(orders[order[w]], event[w].to, external[w]).external
        = IF external[w] # NoExternal THEN external[w] ELSE orders[order[w]].external
  BY <1>2 DEF WithStatus, StoredOrder
<1>6. \A o \in DOMAIN orders : orders'[o].external \in {orders[o].external, external[w]}
  BY <1>2, <1>4, <1>5
<1>7. \A o \in DOMAIN orders : orders'[o].external # orders[o].external => o = order[w] /\ Recording(w)
  BY <1>2, <1>4, <1>5 DEF OwnIds
<1>8. /\ \A v \in Workers \ {w} :
           pc'[v] = pc[v] /\ order'[v] = order[v] /\ external'[v] = external[v]
      /\ pc'[w] = PushOf[pc[w]] /\ order'[w] = order[w] /\ external'[w] = external[w]
  BY DEF SetStatus, Goto, TypeOK
<1>9. Recording(w)' <=> Recording(w)
  BY <1>1, <1>8 DEF Recording, PushOf, SetSteps
<1> QED
  BY <1>3, <1>6, <1>7, <1>8, <1>9, OwnIdsKept

LEMMA OtherOwnIds ==
  ASSUME TypeOK, OwnIds, NEW w \in Workers,
         \/ Begin(w) \/ AcceptRisk(w) \/ RejectRisk(w)
         \/ PushEvent(w) \/ PushLastEvent(w) \/ PushFill(w)
         \/ BookPosition(w) \/ BookTrade(w)
         \/ CallCancel(w) \/ CallModify(w) \/ ModifyRaises(w)
  PROVE  OwnIds'
<1>1. FieldsKept
  BY StoreAlone, StoreFieldsKept DEF FieldsKept, SameFields
<1>2. \A o \in DOMAIN orders : orders'[o].external = orders[o].external
  <2>1. CASE UNCHANGED orders
    BY <2>1
  <2>2. CASE PushEvent(w) \/ PushLastEvent(w) \/ PushFill(w)
    <3>1. order[w] \in DOMAIN orders /\ orders[order[w]] \in StoredOrder
      BY <2>2, OrderInHand DEF PushEvent, PushLastEvent, PushFill
    <3>2. /\ orders' = [orders EXCEPT ![order[w]] = WithEvent(orders[order[w]], event[w])]
          /\ orders \in [DOMAIN orders -> StoredOrder]
      BY <2>2 DEF PushEvent, PushLastEvent, PushFill, Push, TypeOK
    <3>3. WithEvent(orders[order[w]], event[w]).external = orders[order[w]].external
      BY <3>1 DEF WithEvent, StoredOrder
    <3> QED
      BY <3>1, <3>2, <3>3
  <2> QED
    BY <2>1, <2>2, StoreAlone
<1>3. \A v \in Workers \ {w} :
        pc'[v] = pc[v] /\ order'[v] = order[v] /\ external'[v] = external[v]
  <2>1. CASE Begin(w)
    BY <2>1 DEF Begin, BeginSubmit, RespondDuplicate, BeginUpdate, RejectUpdate,
       BeginCancel, BeginModify, Turn, Goto, vars, locals, TypeOK
  <2>2. CASE \/ AcceptRisk(w) \/ RejectRisk(w) \/ BookPosition(w) \/ BookTrade(w)
             \/ CallCancel(w) \/ CallModify(w) \/ ModifyRaises(w)
    BY <2>2 DEF AcceptRisk, RejectRisk, BookPosition, BookTrade, CallCancel, CallModify,
       ModifyRaises, Finish, Turn, Goto, TypeOK
  <2>3. CASE PushEvent(w) \/ PushLastEvent(w) \/ PushFill(w)
    BY <2>3 DEF PushEvent, PushLastEvent, PushFill, Finish, Goto, TypeOK
  <2> QED
    BY <2>1, <2>2, <2>3
<1>4. /\ ~Recording(w)'
      /\ external'[w] = NoExternal \/ (~Recording(w) /\ external'[w] = external[w])
  <2>1. CASE RespondDuplicate(w) \/ RejectUpdate(w)
    BY <2>1 DEF RespondDuplicate, RejectUpdate, Idle, vars, locals, Recording
  <2>2. CASE BeginSubmit(w) \/ BeginUpdate(w) \/ BeginCancel(w) \/ BeginModify(w)
    BY <2>2 DEF BeginSubmit, BeginUpdate, BeginCancel, BeginModify, Idle, Turn, Goto, TypeOK, Recording
  <2>3. CASE Finish(w)
    BY <2>3 DEF Finish, Goto, TypeOK, Recording
  <2>4. CASE AcceptRisk(w) \/ BookPosition(w)
    BY <2>4 DEF AcceptRisk, BookPosition, Goto, TypeOK, Recording
  <2>5. CASE CallCancel(w) \/ CallModify(w)
    BY <2>5 DEF CallCancel, CallModify, Turn, Goto, TypeOK, Recording
  <2>6. CASE PushEvent(w) \/ PushFill(w)
    BY <2>6 DEF PushEvent, PushFill, Goto, TypeOK, Recording
  <2>7. RejectRisk(w) \/ BookTrade(w) \/ ModifyRaises(w) \/ PushLastEvent(w) => Finish(w)
    BY DEF RejectRisk, BookTrade, ModifyRaises, PushLastEvent
  <2> QED
    BY <2>1, <2>2, <2>3, <2>4, <2>5, <2>6, <2>7 DEF Begin
<1> QED
  BY <1>1, <1>2, <1>3, <1>4, OwnIdsKept

LEMMA CreateOwnIds ==
  ASSUME TypeOK, OwnIds, NEW w \in Workers, CreateOrder(w)
  PROVE  OwnIds'
<1> DEFINE o == created + 1
<1>1. orders' = [p \in DOMAIN orders \cup {o} |->
                   IF p = o THEN NewOrder(request[w]) ELSE orders[p]]
  BY DEF CreateOrder
<1>2. o \notin DOMAIN orders
  BY DEF TypeOK
<1>3. /\ DOMAIN orders' = DOMAIN orders \cup {o} /\ orders'[o].external = NoExternal
      /\ \A p \in DOMAIN orders : orders'[p] = orders[p]
  BY <1>1, <1>2 DEF NewOrder
<1>4. \A p \in DOMAIN orders : IdAtBroker(p)' = IdAtBroker(p)
  BY <1>3, SameIdAtBroker DEF SameFields
<1>5. \A p \in DOMAIN orders' : orders'[p].external \in {NoExternal, IdAtBroker(p)'}
  BY <1>3, <1>4 DEF OwnIds
<1>6. /\ \A v \in Workers \ {w} :
           pc'[v] = pc[v] /\ order'[v] = order[v] /\ external'[v] = external[v]
      /\ pc[w] = "create" /\ pc'[w] = "submit_set" /\ external'[w] = external[w]
  BY DEF CreateOrder, Turn, Goto, TypeOK
<1>7. ASSUME NEW v \in Workers
      PROVE  IF Recording(v)' THEN external'[v] \in {NoExternal, (IdAtBroker(order[v]))'}
                              ELSE external'[v] = NoExternal
  <2>1. CASE v = w
    BY <1>6, <2>1 DEF OwnIds, Recording
  <2>2. CASE v # w /\ ~Recording(v)
    BY <1>6, <2>2 DEF OwnIds, Recording
  <2>3. CASE v # w /\ Recording(v)
    <3>1. order[v] \in DOMAIN orders
      BY <2>3 DEF TypeOK, Recording
    <3>2. (IdAtBroker(order[v]))' = IdAtBroker(order[v])
      BY <1>3, <1>6, <2>3, <3>1 DEF IdAtBroker, LiveExternalId, StubExternalId
    <3> QED
      BY <1>6, <2>3, <3>2 DEF OwnIds, Recording
  <2> QED
    BY <2>1, <2>2, <2>3
<1> QED
  BY <1>5, <1>7 DEF OwnIds

LEMMA OwnIdsNext == TypeOK /\ OwnIds /\ [Next]_vars => OwnIds'
<1> SUFFICES ASSUME TypeOK, OwnIds, [Next]_vars
             PROVE  OwnIds'
  OBVIOUS
<1>1. CASE Restart
  BY <1>1 DEF Restart, OwnIds, Recording
<1>2. CASE UNCHANGED vars
  BY <1>2 DEF vars, service, locals, OwnIds, Recording, IdAtBroker, StubExternalId
<1>3. ASSUME NEW w \in Workers, Begin(w) \/ Continue(w)
      PROVE  OwnIds'
  BY <1>3, AnswerOwnIds, SetStatusOwnIds, OtherOwnIds, CreateOwnIds DEF Continue
<1> QED
  BY <1>1, <1>2, <1>3 DEF Next

\* An update that names an order by the broker's id reaches that order: always
\* with a live broker, and with the stub, whose ids are made of the fields of
\* the submission, when serial clients give each submission a key.
THEOREM UpdatesFindTheirOrder ==
  ASSUME BrokerMode = "live" \/ (Discipline = "serial" /\ NoKey \notin Keys)
  PROVE  Spec => []ExternalIdFindsOwnOrder
<1>1. Init => OwnIds
  BY DEF Init, OwnIds, Recording
<1> DEFINE Apart == Discipline = "serial" => KeysApart
<1>2. TypeOK /\ TypeOK' /\ Apart /\ [Next]_vars => Apart'
  BY KeysApartKept
<1>3. TypeOK /\ OwnIds /\ Apart => ExternalIdFindsOwnOrder
  <2> SUFFICES ASSUME TypeOK, OwnIds, Discipline = "serial" => KeysApart,
                      NEW o \in DOMAIN orders, orders[o].external # NoExternal
               PROVE  FindByExternalOrderId(orders[o].external) = o
    BY DEF ExternalIdFindsOwnOrder
  <2>1. ASSUME NEW p \in DOMAIN orders, orders[p].external = orders[o].external
        PROVE  p = o
    <3>1. IdAtBroker(p) = IdAtBroker(o)
      BY <2>1 DEF OwnIds
    <3>2. CASE BrokerMode = "live"
      BY <3>1, <3>2 DEF IdAtBroker, LiveExternalId
    <3>3. CASE BrokerMode # "live"
      <4>1. StubExternalId(p).key = StubExternalId(o).key
        BY <3>1, <3>3 DEF IdAtBroker
      <4>2. orders[p].key = orders[o].key
        BY <4>1 DEF StubExternalId
      <4>3. orders[p].key # NoKey
        BY <3>3 DEF TypeOK, StoredOrder
      <4> QED
        BY <3>3, <4>2, <4>3 DEF KeysApart, OrderKeysApart, Clash
    <3> QED
      BY <3>2, <3>3
  <2>2. {p \in DOMAIN orders : orders[p].external = orders[o].external} = {o}
    BY <2>1
  <2>3. o <= o
    BY DEF TypeOK
  <2> QED
    BY <2>2, <2>3 DEF FindByExternalOrderId
<1>4. Init => Apart
  BY KeysApartInit
<1> HIDE DEF Apart
<1> QED
  BY <1>1, <1>2, <1>3, <1>4, OwnIdsNext, TypeCorrect, PTL DEF Spec
=============================================================================
