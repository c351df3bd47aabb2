-------------------------- MODULE BrokerFeedProofs --------------------------
(***************************************************************************)
(* Theorems about BrokerFeed: what is booked against what the broker says  *)
(* it filled, for any number of threads, orders and messages, and whatever *)
(* the wire does with the messages.                                        *)
(***************************************************************************)
EXTENDS BrokerFeed, ExecutionServiceProofs, LoopProofs

----------------------------------------------------------------------------
(***************************************************************************)
(* The broker: an order it holds is known to it by what was submitted, and *)
(* a message that says FILLED says the whole of it.                        *)
(***************************************************************************)
Words == {"OPEN", "PARTIALLY_FILLED", "FILLED", "CANCELLED"}
Messages == [external : [live : OrderIds], status : Words, quantity : Nat, price : {1}]

FeedTypes ==
  /\ wire \subseteq Messages
  /\ filled \in [DOMAIN filled -> Nat]
PlacedOnce ==
  /\ \A p, q \in placed : p.order = q.order => p = q
  /\ \A p \in placed : p.order \in 1..created
  /\ \A p \in placed : p.order \in DOMAIN orders =>
       p.key = orders[p.order].key /\ p.quantity = orders[p.order].quantity
WholeFills ==
  \A m \in wire : m.status = "FILLED" => \E p \in placed :
    /\ m.external = LiveExternalId(p.order) /\ m.quantity = p.quantity
    /\ p.quantity > 0 /\ FilledAtBroker(p.order) = p.quantity
BrokerInv == FeedTypes /\ PlacedOnce /\ WholeFills

----------------------------------------------------------------------------
(***************************************************************************)
(* An order that the service has as ended, or is about to, was reported so.*)
(***************************************************************************)
Ends == {"FILLED", "CANCELLED"}
UpdateSteps == {"update_set", "update_push", "position", "ledger"}
Reported(o, e) ==
  \E m \in wire : /\ m.external = LiveExternalId(o) /\ m.status = e.to
                  /\ e.quantity = m.quantity /\ e.price = m.price
HandsReported ==
  \A w \in Workers : event[w].to \in Ends => pc[w] \in UpdateSteps /\ Reported(order[w], event[w])
StatusReported ==
  \A o \in DOMAIN orders : orders[o].status \in Ends => Sent(o, orders[o].status)
HistoryReported ==
  \A o \in DOMAIN orders : \A i \in 1..Len(orders[o].history) :
    orders[o].history[i].to = "FILLED" => Reported(o, orders[o].history[i])
ReportedInv == HandsReported /\ StatusReported /\ HistoryReported

----------------------------------------------------------------------------
(***************************************************************************)
(* An order on which no two requests worked together is booked whole, when *)
(* it is FILLED and its thread is past the positions, and otherwise not.   *)
(***************************************************************************)
Solo(o) == \A v, w \in Workers : order[v] = o /\ order[w] = o => v = w
InHand(step, e, status) ==
  /\ step \in PushSteps => status = e.to
  /\ step \in {"position", "ledger"} => status = "FILLED"
  /\ status = "FILLED" => step \in {"update_push", "position", "ledger"}
WholeBooked(o) ==
  /\ o \in DOMAIN orders /\ orders[o].status = "FILLED"
  /\ \A w \in Workers : order[w] = o => pc[w] = "ledger"
BookedWhole(o) ==
  IF WholeBooked(o) THEN BookedQuantity(o) = orders[o].quantity ELSE BookedQuantity(o) = 0
SoloInv ==
  \A o \in OrderIds \ raced :
    /\ Solo(o) /\ BookedWhole(o)
    /\ \A w \in Workers : order[w] = o => InHand(pc[w], event[w], orders[o].status)

----------------------------------------------------------------------------
(***************************************************************************)
(* What the broker does.                                                   *)
(***************************************************************************)
\* What the broker has filled is a number.
LEMMA FilledType ==
  ASSUME FeedTypes, NEW o
  PROVE  FilledAtBroker(o) \in Nat
BY DEF FeedTypes, FilledAtBroker

\* The quantity of an order at the broker is that of its submission.
LEMMA OrderedIs ==
  ASSUME PlacedOnce, NEW p \in placed
  PROVE  Ordered(p.order) = p.quantity
<1>1. (CHOOSE q \in placed : q.order = p.order) = p
  BY DEF PlacedOnce
<1> QED
  BY <1>1 DEF Ordered

\* A report adds one message about its order.
LEMMA ReportEffect ==
  ASSUME NEW o \in OrderIds, NEW status \in Words, Report(o, status),
         FeedTypes, filled' \in [DOMAIN filled' -> Nat]
  PROVE  /\ FeedTypes'
         /\ wire \subseteq wire'
         /\ \A m \in wire' \ wire : /\ m.external = LiveExternalId(o) /\ m.status = status
                                    /\ m.quantity = FilledAtBroker(o)'
<1>1. FilledAtBroker(o)' \in Nat
  BY DEF FilledAtBroker
<1> DEFINE new == [external |-> LiveExternalId(o), status |-> status,
                   quantity |-> FilledAtBroker(o)', price |-> 1]
<1>2. wire' = wire \cup {new}
  BY DEF Report
<1>3. new \in Messages
  BY <1>1 DEF Messages, LiveExternalId
<1> QED
  BY <1>2, <1>3 DEF FeedTypes

\* A message about an order that is filled, when it says so, stands as long as
\* the broker fills no more of that order.
LEMMA WholeFillsGrow ==
  ASSUME TypeOK, FeedTypes, WholeFills, UNCHANGED placed,
         NEW p \in placed, ~Done(p.order),
         \A o \in OrderIds \ {p.order} : FilledAtBroker(o)' = FilledAtBroker(o),
         \A m \in wire' \ wire : m.status = "FILLED" =>
           /\ m.external = LiveExternalId(p.order) /\ m.quantity = p.quantity
           /\ p.quantity > 0 /\ FilledAtBroker(p.order)' = p.quantity
  PROVE  WholeFills'
<1> SUFFICES ASSUME NEW m \in wire', m.status = "FILLED"
             PROVE  \E q \in placed :
                      /\ m.external = LiveExternalId(q.order) /\ m.quantity = q.quantity
                      /\ q.quantity > 0 /\ FilledAtBroker(q.order)' = q.quantity
  BY DEF WholeFills
<1>1. CASE m \in wire
  <2>1. PICK q \in placed :
          /\ m.external = LiveExternalId(q.order) /\ m.quantity = q.quantity
          /\ q.quantity > 0 /\ FilledAtBroker(q.order) = q.quantity
    BY <1>1 DEF WholeFills
  <2>2. q.order # p.order
    BY <1>1, <2>1 DEF Done, Sent
  <2>3. q.order \in OrderIds
    BY DEF TypeOK
  <2> QED
    BY <2>1, <2>2, <2>3
<1>2. CASE m \notin wire
  BY <1>2
<1> QED
  BY <1>1, <1>2

\* Every step of the broker keeps its invariant, and no message is taken back.
LEMMA BrokerStepInv ==
  ASSUME TypeOK, BrokerInv, BrokerStep
  PROVE  BrokerInv' /\ wire \subseteq wire'
<1>1. PICK p \in placed : /\ ~Done(p.order)
                          /\ \/ BrokerOpens(p.order) \/ BrokerFills(p.order)
                             \/ BrokerCancels(p.order)
  BY DEF BrokerStep
<1>2. p.order \in OrderIds /\ p.quantity \in Nat
  BY DEF TypeOK
<1>3. UNCHANGED <<orders, created, placed>>
  BY DEF BrokerStep, vars, service
<1>4. PlacedOnce'
  BY <1>3 DEF BrokerInv, PlacedOnce
<1>5. FeedTypes /\ WholeFills /\ PlacedOnce
  BY DEF BrokerInv
<1>6. CASE BrokerOpens(p.order) \/ BrokerCancels(p.order)
  <2>1. PICK status \in {"OPEN", "CANCELLED"} : Report(p.order, status)
    BY <1>6 DEF BrokerOpens, BrokerCancels
  <2>2. filled' = filled /\ status \in Words
    BY <1>6 DEF BrokerOpens, BrokerCancels, Words
  <2>3. /\ FeedTypes' /\ wire \subseteq wire'
        /\ \A m \in wire' \ wire : m.status = status
    BY <1>2, <1>5, <2>1, <2>2, ReportEffect DEF FeedTypes
  <2>4. \A o \in OrderIds : FilledAtBroker(o)' = FilledAtBroker(o)
    BY <2>2 DEF FilledAtBroker
  <2>5. WholeFills'
    BY <1>1, <1>3, <1>5, <2>1, <2>3, <2>4, WholeFillsGrow
  <2> QED
    BY <1>4, <2>3, <2>5 DEF BrokerInv
<1>7. CASE BrokerFills(p.order)
  <2>1. PICK q \in FilledAtBroker(p.order) + 1 .. Ordered(p.order) :
          /\ filled' = [o \in DOMAIN filled \cup {p.order} |->
                          IF o = p.order THEN q ELSE filled[o]]
          /\ Report(p.order, IF q = Ordered(p.order) THEN "FILLED" ELSE "PARTIALLY_FILLED")
    BY <1>7 DEF BrokerFills
  <2>2. FilledAtBroker(p.order) \in Nat /\ Ordered(p.order) = p.quantity
    BY <1>5, FilledType, OrderedIs
  <2>3. q \in Nat /\ q > 0
    BY <1>2, <2>2
  <2>4. DOMAIN filled' = DOMAIN filled \cup {p.order} /\ filled' \in [DOMAIN filled' -> Nat]
    BY <1>5, <2>1, <2>3 DEF FeedTypes
  <2>5. FilledAtBroker(p.order)' = q
    BY <2>1, <2>4 DEF FilledAtBroker
  <2>6. \A o \in OrderIds \ {p.order} : FilledAtBroker(o)' = FilledAtBroker(o)
    BY <2>1, <2>4 DEF FilledAtBroker
  <2>7. PICK status \in Words : /\ Report(p.order, status)
                                /\ status = "FILLED" => q = Ordered(p.order)
    BY <2>1 DEF Words
  <2>8. /\ FeedTypes' /\ wire \subseteq wire'
        /\ \A m \in wire' \ wire : /\ m.external = LiveExternalId(p.order) /\ m.status = status
                                   /\ m.quantity = q
    BY <1>2, <1>5, <2>4, <2>5, <2>7, ReportEffect
  <2>9. WholeFills'
    BY <1>1, <1>3, <1>5, <2>2, <2>3, <2>5, <2>6, <2>7, <2>8, WholeFillsGrow
  <2> QED
    BY <1>4, <2>8, <2>9 DEF BrokerInv
<1> QED
  BY <1>1, <1>6, <1>7

----------------------------------------------------------------------------
(***************************************************************************)
(* What a thread does: it takes a message, or it takes a step that is one  *)
(* of ExecutionService.                                                    *)
(***************************************************************************)
Acts(w) == \/ BeginSubmit(w) \/ TakeMessage(w) \/ BeginCancel(w) \/ BeginModify(w)
           \/ Continue(w)

\* Thread w takes message m about order o.
Takes(w, m, o) ==
  /\ m.external = LiveExternalId(o)
  /\ CanTransition(orders[o].status, m.status)
  /\ pc[w] = "idle" /\ pc'[w] = "update_set" /\ order'[w] = o /\ Others(w)
  /\ event'[w] = BrokerTransition(orders[o].status, m.status, m.quantity, m.price)
  /\ Turn(w, o, event'[w], "update_set")

\* The message a thread takes is about the order whose id it names.
LEMMA Taken ==
  ASSUME TypeOK, OwnIds, FeedTypes, NEW w \in Workers, TakeMessage(w)
  PROVE  /\ \E m \in wire : \E o \in DOMAIN orders : Takes(w, m, o)
         /\ event'[w] \in OrderEvent
         /\ UNCHANGED <<service, created, request, external, at, placed, restarts>>
<1>1. PICK m \in wire, o \in DOMAIN orders :
        /\ Resolves(m, o)
        /\ CanTransition(orders[o].status, m.status)
        /\ Turn(w, o, BrokerTransition(orders[o].status, m.status, m.quantity, m.price),
                "update_set")
  BY DEF TakeMessage
<1>2. m \in Messages /\ orders[o] \in StoredOrder /\ o \in Nat
  BY DEF FeedTypes, TypeOK
<1>3. PICK k \in Nat : m.external = [live |-> k]
  BY <1>2 DEF Messages, OrderIds
<1>4. m.external = LiveExternalId(o)
  <2>1. orders[o].external \in {NoExternal, LiveExternalId(o)}
    BY FeedAssumption DEF OwnIds, IdAtBroker
  <2>2. orders[o].external = [live |-> k]
    BY <1>1, <1>3 DEF Resolves
  <2> QED
    BY <2>1, <2>2, <1>3, FeedAssumption
<1>5. /\ pc[w] = "idle" /\ pc'[w] = "update_set" /\ order'[w] = o /\ Others(w)
      /\ event'[w] = BrokerTransition(orders[o].status, m.status, m.quantity, m.price)
  BY <1>1 DEF TakeMessage, Idle, Turn, Goto, TypeOK, Others
<1>6. event'[w] \in OrderEvent
  BY <1>2, <1>5 DEF BrokerTransition, OrderEvent, StoredOrder, Messages, Words, OrderStatus
<1>7. Takes(w, m, o)
  BY <1>1, <1>4, <1>5 DEF Takes
<1>8. \E n \in wire : \E p \in DOMAIN orders : Takes(w, n, p)
  BY <1>7
<1> QED
  BY <1>6, <1>8 DEF TakeMessage

\* The thread that takes a message keeps the invariants of ExecutionService.
LEMMA TakeInv ==
  ASSUME IInv, OwnIds, FeedTypes, NEW w \in Workers, TakeMessage(w)
  PROVE  IInv' /\ OwnIds'
<1>t. TypeOK
  BY DEF IInv
<1>1. PICK m \in wire, o \in DOMAIN orders : Takes(w, m, o)
  BY <1>t, Taken
<1>2. /\ event'[w] \in OrderEvent
      /\ UNCHANGED <<service, created, request, external, at, placed, restarts>>
  BY <1>t, Taken
<1>3. /\ pc[w] = "idle" /\ pc'[w] = "update_set" /\ Others(w) /\ order'[w] = o
      /\ event'[w] = BrokerTransition(orders[o].status, m.status, m.quantity, m.price)
      /\ CanTransition(orders[o].status, m.status)
      /\ Turn(w, o, event'[w], "update_set")
  BY <1>1 DEF Takes
<1>4. "update_set" \in Steps \ {"idle", "risk", "create"}
  BY DEF Steps, SetSteps
<1>5. TypeOK'
  BY <1>t, <1>2, <1>3, <1>4, TurnType
<1>6. MayAppend(pc'[w], event'[w])
  BY <1>3 DEF MayAppend, BrokerTransition
<1>7. IInv'
  BY <1>2, <1>3, <1>5, <1>6, QuietStoreSame DEF Booking
<1>8. FieldsKept /\ UNCHANGED <<orders, external>>
  BY <1>2 DEF service, FieldsKept, SameFields
<1>9. ~Recording(w) /\ ~Recording(w)'
  BY <1>3 DEF Recording
<1>10. \A v \in Workers \ {w} :
         pc'[v] = pc[v] /\ order'[v] = order[v] /\ external'[v] = external[v]
  BY <1>3, <1>8 DEF Others
<1>11. OwnIds'
  BY <1>t, <1>8, <1>9, <1>10, OwnIdsKept
<1> QED
  BY <1>7, <1>11

\* The invariants of ExecutionService are invariants of this service too.
LEMMA ServiceKeeps ==
  ASSUME IInv, OwnIds, FeedTypes, ServiceStep
  PROVE  IInv' /\ OwnIds'
<1>1. CASE \E w \in Workers : TakeMessage(w)
  BY <1>1, TakeInv
<1>2. CASE ~\E w \in Workers : TakeMessage(w)
  <2>1. Next
    BY <1>2 DEF ServiceStep, Next, Begin
  <2> QED
    BY <2>1, NextInv, OwnIdsNext DEF IInv
<1> QED
  BY <1>1, <1>2

\* A request that ends leaves its thread with nothing in its hands.
LEMMA FinishHand ==
  ASSUME TypeOK, NEW w \in Workers, Finish(w)
  PROVE  pc'[w] = "idle" /\ order'[w] = NoOrder /\ event'[w] = NoEvent /\ Others(w)
BY DEF TypeOK, Finish, Goto, Others

\* A step of a thread is its own.
LEMMA ActsAlone ==
  ASSUME TypeOK, NEW w \in Workers, Acts(w)
  PROVE  Others(w)
<1>1. CASE BeginSubmit(w) \/ BeginCancel(w) \/ BeginModify(w)
  BY <1>1 DEF BeginSubmit, BeginCancel, BeginModify, Turn, Goto, TypeOK, Others
<1>2. CASE TakeMessage(w)
  BY <1>2 DEF TakeMessage, Turn, Goto, TypeOK, Others
<1>3. CASE AcceptRisk(w) \/ CreateOrder(w)
  BY <1>3 DEF AcceptRisk, CreateOrder, Turn, Goto, TypeOK, Others
<1>4. CASE BrokerAccepts(w) \/ BrokerRejects(w) \/ BrokerFails(w)
  BY <1>4 DEF BrokerAccepts, BrokerRejects, BrokerFails, Answer, Goto, TypeOK, Others
<1>5. CASE SetStatus(w) \/ PushEvent(w) \/ PushFill(w)
  BY <1>5 DEF SetStatus, PushEvent, PushFill, Goto, TypeOK, Others
<1>6. CASE BookPosition(w) \/ CallCancel(w) \/ CallModify(w)
  BY <1>6 DEF BookPosition, CallCancel, CallModify, Turn, Goto, TypeOK, Others
<1>7. CASE RejectRisk(w) \/ PushLastEvent(w) \/ BookTrade(w) \/ ModifyRaises(w)
  BY <1>7, FinishHand DEF RejectRisk, PushLastEvent, BookTrade, ModifyRaises
<1> QED
  BY <1>1, <1>2, <1>3, <1>4, <1>5, <1>6, <1>7 DEF Acts, Continue

\* What the broker holds, and knows, stands through the steps of the service.
LEMMA ServiceBrokerInv ==
  ASSUME TypeOK, BrokerInv, ServiceStep, UNCHANGED <<filled, wire>>
  PROVE  BrokerInv'
<1>1. FeedTypes'
  BY DEF BrokerInv, FeedTypes
<1>2. \A o : FilledAtBroker(o)' = FilledAtBroker(o)
  BY DEF FilledAtBroker
<1>3. placed \subseteq placed' => WholeFills'
  BY <1>2 DEF BrokerInv, WholeFills
<1>4. PlacedOnce
  BY DEF BrokerInv
<1>5. CASE Restart
  <2>1. DOMAIN orders' = {} /\ UNCHANGED <<created, placed>>
    BY <1>5 DEF Restart
  <2> QED
    BY <1>1, <1>3, <1>4, <2>1 DEF BrokerInv, PlacedOnce
<1>6. ASSUME NEW w \in Workers, CreateOrder(w)
      PROVE  BrokerInv'
  <2>1. /\ created \in Nat /\ created' = created + 1 /\ placed' = placed
        /\ DOMAIN orders' = DOMAIN orders \cup {created + 1}
        /\ \A p \in DOMAIN orders : p # created + 1 => orders'[p] = orders[p]
    BY <1>6 DEF CreateOrder, TypeOK
  <2>2. \A p \in placed : p.order \in 1..created /\ p.order # created + 1
    BY <1>4, <2>1 DEF PlacedOnce
  <2>3. PlacedOnce'
    BY <1>4, <2>1, <2>2 DEF PlacedOnce
  <2> QED
    BY <1>1, <1>3, <2>1, <2>3 DEF BrokerInv
<1>7. ASSUME NEW w \in Workers, Acts(w), ~CreateOrder(w)
      PROVE  BrokerInv'
  <2>1. FieldsKept
    <3>1. TakeMessage(w) => UNCHANGED orders
      BY DEF TakeMessage, service
    <3>2. TakeMessage(w) => FieldsKept
      BY <3>1 DEF FieldsKept, SameFields
    <3> QED
      BY <1>7, <3>2, StepFieldsKept DEF Acts, Begin
  <2>2. created' = created
    BY <1>7 DEF Acts, Continue, BeginSubmit, TakeMessage, BeginCancel, BeginModify, AcceptRisk,
       RejectRisk, BrokerAccepts, BrokerRejects, BrokerFails, Answer, SetStatus, PushEvent,
       PushLastEvent, PushFill, BookPosition, BookTrade, CallCancel, CallModify, ModifyRaises
  <2>3. \/ UNCHANGED placed
        \/ Hold(order[w]) /\ order[w] \in DOMAIN orders /\ orders[order[w]] \in StoredOrder
    <3>1. CASE BrokerAccepts(w) \/ BrokerRejects(w) \/ BrokerFails(w)
      BY <3>1, OrderInHand DEF BrokerAccepts, BrokerRejects, BrokerFails
    <3> QED
      BY <1>7, <3>1 DEF Acts, Continue, BeginSubmit, TakeMessage, BeginCancel, BeginModify,
         AcceptRisk, RejectRisk, SetStatus, PushEvent, PushLastEvent, PushFill, BookPosition,
         BookTrade, CallCancel, CallModify, ModifyRaises
  <2>4. \A p \in placed' : p.order \in DOMAIN orders =>
          p.key = orders[p.order].key /\ p.quantity = orders[p.order].quantity
    BY <1>4, <2>3 DEF PlacedOnce, Hold
  <2>5. \A p \in placed' : p.order \in 1..created
    BY <1>4, <2>3 DEF PlacedOnce, Hold, TypeOK
  <2>6. ASSUME NEW p \in placed', NEW q \in placed', p.order = q.order
        PROVE  p = q
    <3>1. CASE UNCHANGED placed
      BY <1>4, <2>6, <3>1 DEF PlacedOnce
    <3>2. CASE Hold(order[w]) /\ order[w] \in DOMAIN orders
      <4> DEFINE new == [order |-> order[w], key |-> orders[order[w]].key,
                         quantity |-> orders[order[w]].quantity]
      <4>1. p \in placed \cup {new} /\ q \in placed \cup {new}
        BY <3>2 DEF Hold
      <4>2. \A r \in placed : r = [order |-> r.order, key |-> r.key, quantity |-> r.quantity]
        BY DEF TypeOK
      <4>3. \A r \in placed : r.order = order[w] => r = new
        BY <3>2, <4>2, <1>4 DEF PlacedOnce
      <4> QED
        BY <1>4, <2>6, <4>1, <4>3 DEF PlacedOnce
    <3> QED
      BY <2>3, <3>1, <3>2
  <2>7. PlacedOnce'
    BY <2>1, <2>2, <2>4, <2>5, <2>6 DEF PlacedOnce, FieldsKept, SameFields
  <2>8. placed \subseteq placed'
    BY <2>3 DEF Hold
  <2> QED
    BY <1>1, <1>3, <2>7, <2>8 DEF BrokerInv
<1> QED
  BY <1>5, <1>6, <1>7 DEF ServiceStep, Acts

----------------------------------------------------------------------------
(***************************************************************************)
(* What the service knows of the end of an order it has from a message: a  *)
(* live broker's adapter answers no cancel and no modification.            *)
(***************************************************************************)
HandReported(w) ==
  event[w].to \in Ends => pc[w] \in UpdateSteps /\ Reported(order[w], event[w])

\* What was reported stays reported.
LEMMA ReportedStays ==
  ASSUME wire \subseteq wire', NEW o
  PROVE  /\ \A e : Reported(o, e) => Reported(o, e)'
         /\ \A status : Sent(o, status) => Sent(o, status)'
BY DEF Reported, Sent

\* An end that a thread was not told by a message it does not have in hand.
LEMMA HandAfter ==
  ASSUME TypeOK, OwnIds, FeedTypes, HandsReported, UNCHANGED wire,
         NEW w \in Workers, Acts(w)
  PROVE  HandReported(w)'
<1> USE DEF Ends
<1>1. CASE TakeMessage(w)
  <2>1. PICK m \in wire, o \in DOMAIN orders : Takes(w, m, o)
    BY <1>1, Taken
  <2>2. Reported(o, event'[w])
    BY <2>1 DEF Takes, Reported, BrokerTransition
  <2>3. pc'[w] \in UpdateSteps /\ order'[w] = o
    BY <2>1 DEF Takes, UpdateSteps
  <2> QED
    BY <2>2, <2>3 DEF HandReported, Reported
<1>2. CASE BeginCancel(w) \/ BeginModify(w) \/ CallCancel(w) \/ CallModify(w)
  <2>1. ~BrokerTakesAction
    BY FeedAssumption DEF BrokerTakesAction
  <2>2. event'[w].to \in {"CANCEL_PENDING", "CREATED", "ERROR"}
    BY <1>2, <2>1 DEF BeginCancel, BeginModify, CallCancel, CallModify, Turn, NoEvent, Transition,
       ModifyTarget, TypeOK
  <2> QED
    BY <2>2 DEF HandReported
<1>3. CASE CreateOrder(w)
  <2>1. event'[w].to = "SUBMITTED"
    BY <1>3 DEF CreateOrder, Turn, Transition, TypeOK
  <2> QED
    BY <2>1 DEF HandReported
<1>4. CASE BrokerAccepts(w) \/ BrokerRejects(w) \/ BrokerFails(w)
  <2>1. event'[w].to \in {"ACKNOWLEDGED", "REJECTED", "ERROR"}
    BY <1>4 DEF BrokerAccepts, BrokerRejects, BrokerFails, Answer, Transition, TypeOK
  <2> QED
    BY <2>1 DEF HandReported
<1>5. CASE RejectRisk(w) \/ PushLastEvent(w) \/ BookTrade(w) \/ ModifyRaises(w)
  <2>1. event'[w] = NoEvent
    BY <1>5, FinishHand DEF RejectRisk, PushLastEvent, BookTrade, ModifyRaises
  <2> QED
    BY <2>1 DEF HandReported, NoEvent, Transition
<1>6. CASE BeginSubmit(w) \/ AcceptRisk(w) \/ PushEvent(w)
  <2>1. event'[w] = event[w] /\ pc[w] \notin UpdateSteps
    BY <1>6 DEF BeginSubmit, AcceptRisk, PushEvent, Idle, UpdateSteps
  <2> QED
    BY <2>1 DEF HandReported, HandsReported
<1>7. CASE SetStatus(w) \/ PushFill(w) \/ BookPosition(w)
  <2>1. event'[w] = event[w] /\ order'[w] = order[w]
    BY <1>7 DEF SetStatus, PushFill, BookPosition
  <2>2. pc[w] \in UpdateSteps => pc'[w] \in UpdateSteps
    BY <1>7 DEF SetStatus, PushFill, BookPosition, Goto, TypeOK, UpdateSteps, PushOf, SetSteps
  <2> QED
    BY <2>1, <2>2 DEF HandReported, HandsReported, Reported
<1> QED
  BY <1>1, <1>2, <1>3, <1>4, <1>5, <1>6, <1>7 DEF Acts, Continue

\* The steps that leave the store alone, here.
LEMMA ActsStore ==
  ASSUME NEW w \in Workers, Acts(w)
  PROVE  \/ UNCHANGED orders \/ CreateOrder(w) \/ SetStatus(w)
         \/ PushEvent(w) \/ PushLastEvent(w) \/ PushFill(w)
<1>1. TakeMessage(w) => UNCHANGED orders
  BY DEF TakeMessage, service
<1> QED
  BY <1>1, StoreAlone DEF Acts, Begin, Continue

\* The store after the two halves of append_event and after create_order.
LEMMA StoreAfter ==
  ASSUME TypeOK, NEW w \in Workers, Acts(w)
  PROVE  /\ SetStatus(w) =>
              /\ order[w] \in DOMAIN orders /\ DOMAIN orders' = DOMAIN orders
              /\ orders'[order[w]].status = event[w].to
              /\ orders'[order[w]].history = orders[order[w]].history
              /\ \A o \in DOMAIN orders \ {order[w]} : orders'[o] = orders[o]
         /\ PushEvent(w) \/ PushLastEvent(w) \/ PushFill(w) =>
              /\ order[w] \in DOMAIN orders /\ DOMAIN orders' = DOMAIN orders
              /\ orders[order[w]].history \in Seq(OrderEvent)
              /\ orders'[order[w]].status = orders[order[w]].status
              /\ orders'[order[w]].history = Append(orders[order[w]].history, event[w])
              /\ \A o \in DOMAIN orders \ {order[w]} : orders'[o] = orders[o]
         /\ CreateOrder(w) =>
              /\ created + 1 \notin DOMAIN orders
              /\ DOMAIN orders' = DOMAIN orders \cup {created + 1}
              /\ orders'[created + 1] = NewOrder(request[w])
              /\ \A o \in DOMAIN orders : orders'[o] = orders[o]
<1>0. orders \in [DOMAIN orders -> StoredOrder]
  BY DEF TypeOK
<1>1. ASSUME SetStatus(w)
      PROVE  /\ order[w] \in DOMAIN orders /\ DOMAIN orders' = DOMAIN orders
             /\ orders'[order[w]].status = event[w].to
             /\ orders'[order[w]].history = orders[order[w]].history
             /\ \A o \in DOMAIN orders \ {order[w]} : orders'[o] = orders[o]
  <2>1. order[w] \in DOMAIN orders /\ orders[order[w]] \in StoredOrder
    BY <1>1, OrderInHand DEF SetStatus, SetSteps
  <2>2. orders' = [orders EXCEPT ![order[w]] =
                     WithStatus(orders[order[w]], event[w].to, external[w])]
    BY <1>1 DEF SetStatus
  <2>3. /\ WithStatus(orders[order[w]], event[w].to, external[w]).status = event[w].to
        /\ WithStatus(orders[order[w]], event[w].to, external[w]).history
             = orders[order[w]].history
    BY <2>1 DEF WithStatus, StoredOrder
  <2> QED
    BY <1>0, <2>1, <2>2, <2>3
<1>2. ASSUME PushEvent(w) \/ PushLastEvent(w) \/ PushFill(w)
      PROVE  /\ order[w] \in DOMAIN orders /\ DOMAIN orders' = DOMAIN orders
             /\ orders[order[w]].history \in Seq(OrderEvent)
             /\ orders'[order[w]].status = orders[order[w]].status
             /\ orders'[order[w]].history = Append(orders[order[w]].history, event[w])
             /\ \A o \in DOMAIN orders \ {order[w]} : orders'[o] = orders[o]
  <2>1. order[w] \in DOMAIN orders /\ orders[order[w]] \in StoredOrder
    BY <1>2, OrderInHand DEF PushEvent, PushLastEvent, PushFill
  <2>2. orders' = [orders EXCEPT ![order[w]] = WithEvent(orders[order[w]], event[w])]
    BY <1>2 DEF PushEvent, PushLastEvent, PushFill, Push
  <2>3. /\ WithEvent(orders[order[w]], event[w]).status = orders[order[w]].status
        /\ WithEvent(orders[order[w]], event[w]).history
             = Append(orders[order[w]].history, event[w])
        /\ orders[order[w]].history \in Seq(OrderEvent)
    BY <2>1 DEF WithEvent, StoredOrder
  <2> QED
    BY <1>0, <2>1, <2>2, <2>3
<1>3. ASSUME CreateOrder(w)
      PROVE  /\ created + 1 \notin DOMAIN orders
             /\ DOMAIN orders' = DOMAIN orders \cup {created + 1}
             /\ orders'[created + 1] = NewOrder(request[w])
             /\ \A o \in DOMAIN orders : orders'[o] = orders[o]
  <2>1. created + 1 \notin DOMAIN orders
    BY DEF TypeOK
  <2>2. orders' = [p \in DOMAIN orders \cup {created + 1} |->
                     IF p = created + 1 THEN NewOrder(request[w]) ELSE orders[p]]
    BY <1>3 DEF CreateOrder
  <2> QED
    BY <2>1, <2>2
<1> QED
  BY <1>1, <1>2, <1>3

\* A status that says an order ended was put there by a thread that was told.
LEMMA StatusReportedAfter ==
  ASSUME TypeOK, HandsReported, StatusReported, UNCHANGED wire, NEW w \in Workers, Acts(w)
  PROVE  StatusReported'
<1>1. \A o, status : Sent(o, status)' <=> Sent(o, status)
  BY DEF Sent
<1>2. SUFFICES ASSUME NEW o \in DOMAIN orders', orders'[o].status \in Ends
               PROVE  Sent(o, orders'[o].status)
  BY <1>1 DEF StatusReported
<1>3. CASE UNCHANGED orders
  BY <1>2, <1>3 DEF StatusReported
<1>4. CASE SetStatus(w)
  <2>1. CASE o = order[w]
    <3>1. event[w].to \in Ends /\ orders'[o].status = event[w].to
      BY <1>2, <1>4, <2>1, StoreAfter
    <3>2. Reported(order[w], event[w])
      BY <3>1 DEF HandsReported
    <3> QED
      BY <2>1, <3>1, <3>2 DEF Reported, Sent
  <2>2. CASE o # order[w]
    BY <1>2, <1>4, <2>2, StoreAfter DEF StatusReported
  <2> QED
    BY <2>1, <2>2
<1>5. CASE PushEvent(w) \/ PushLastEvent(w) \/ PushFill(w)
  <2>1. o \in DOMAIN orders /\ orders'[o].status = orders[o].status
    BY <1>5, StoreAfter
  <2> QED
    BY <1>2, <2>1 DEF StatusReported
<1>6. CASE CreateOrder(w)
  <2>1. NewOrder(request[w]).status \notin Ends
    BY DEF NewOrder, Ends
  <2>2. o \in DOMAIN orders /\ orders'[o] = orders[o]
    BY <1>2, <1>6, <2>1, StoreAfter
  <2> QED
    BY <1>2, <2>2 DEF StatusReported
<1> QED
  BY <1>3, <1>4, <1>5, <1>6, ActsStore

\* And so was an event in a history that says it is FILLED.
LEMMA HistoryReportedAfter ==
  ASSUME TypeOK, HandsReported, HistoryReported, UNCHANGED wire, NEW w \in Workers, Acts(w)
  PROVE  HistoryReported'
<1>1. \A o, e : Reported(o, e)' <=> Reported(o, e)
  BY DEF Reported
<1>2. SUFFICES ASSUME NEW o \in DOMAIN orders', NEW i \in 1..Len(orders'[o].history),
                      orders'[o].history[i].to = "FILLED"
               PROVE  Reported(o, orders'[o].history[i])
  BY <1>1 DEF HistoryReported
<1>3. CASE UNCHANGED orders
  BY <1>2, <1>3 DEF HistoryReported
<1>4. CASE SetStatus(w)
  <2>1. o \in DOMAIN orders /\ orders'[o].history = orders[o].history
    BY <1>4, StoreAfter
  <2> QED
    BY <1>2, <2>1 DEF HistoryReported
<1>5. CASE PushEvent(w) \/ PushLastEvent(w) \/ PushFill(w)
  <2>1. CASE o = order[w]
    <3>1. PICK h \in Seq(OrderEvent) : h = orders[o].history
      BY <1>5, <2>1, StoreAfter
    <3>2. orders'[o].history = Append(h, event[w]) /\ o \in DOMAIN orders
      BY <1>5, <2>1, <3>1, StoreAfter
    <3>3. CASE i \in 1..Len(h)
      <4>1. orders'[o].history[i] = h[i]
        BY <3>2, <3>3
      <4> QED
        BY <1>2, <3>1, <3>2, <3>3, <4>1 DEF HistoryReported
    <3>4. CASE i \notin 1..Len(h)
      <4>1. orders'[o].history[i] = event[w]
        BY <3>2, <3>4
      <4> QED
        BY <1>2, <2>1, <4>1 DEF HandsReported, Ends
    <3> QED
      BY <3>3, <3>4
  <2>2. CASE o # order[w]
    <3>1. o \in DOMAIN orders /\ orders'[o] = orders[o]
      BY <1>5, <2>2, StoreAfter
    <3> QED
      BY <1>2, <3>1 DEF HistoryReported
  <2> QED
    BY <2>1, <2>2
<1>6. CASE CreateOrder(w)
  <2>1. NewOrder(request[w]).history = <<>>
    BY DEF NewOrder
  <2>2. o \in DOMAIN orders /\ orders'[o] = orders[o]
    BY <1>2, <1>6, <2>1, StoreAfter
  <2> QED
    BY <1>2, <2>2 DEF HistoryReported
<1> QED
  BY <1>3, <1>4, <1>5, <1>6, ActsStore

\* A thread's step adds no end that the broker has not reported.
LEMMA ActsReported ==
  ASSUME TypeOK, OwnIds, FeedTypes, ReportedInv, UNCHANGED wire, NEW w \in Workers, Acts(w)
  PROVE  ReportedInv'
<1>0. HandsReported /\ StatusReported /\ HistoryReported
  BY DEF ReportedInv
<1>1. StatusReported' /\ HistoryReported'
  BY <1>0, StatusReportedAfter, HistoryReportedAfter
<1>2. ASSUME NEW v \in Workers
      PROVE  HandReported(v)'
  <2>1. CASE v = w
    BY <1>0, <2>1, HandAfter
  <2>2. CASE v # w
    <3>1. pc'[v] = pc[v] /\ order'[v] = order[v] /\ event'[v] = event[v]
      BY <2>2, ActsAlone DEF Others
    <3> QED
      BY <1>0, <3>1 DEF HandsReported, HandReported, Reported
  <2> QED
    BY <2>1, <2>2
<1>3. HandsReported'
  BY <1>2 DEF HandsReported, HandReported
<1> QED
  BY <1>1, <1>3 DEF ReportedInv

----------------------------------------------------------------------------
(***************************************************************************)
(* The quantity booked for an order.                                       *)
(***************************************************************************)
LEMMA BookedGrows ==
  ASSUME positions \in Seq(FillRecord), NEW f \in FillRecord,
         positions' = Append(positions, f), NEW o
  PROVE  BookedQuantity(o)' = BookedQuantity(o) + (IF f.order = o THEN f.quantity ELSE 0)
<1> DEFINE part(log) == [n \in DOMAIN log |-> IF log[n].order = o THEN log[n].quantity ELSE 0]
           x == IF f.order = o THEN f.quantity ELSE 0
<1>1. /\ Len(positions) \in Nat /\ DOMAIN positions = 1..Len(positions)
      /\ DOMAIN positions' = 1..Len(positions) + 1
      /\ positions'[Len(positions) + 1] = f
      /\ \A n \in 1..Len(positions) : positions'[n] = positions[n] /\ positions[n] \in FillRecord
  OBVIOUS
<1>2. x \in Int /\ \A n \in 1..Len(positions) : positions[n].quantity \in Int
  BY <1>1 DEF FillRecord
<1>3. part(positions) \in [1..Len(positions) -> Int]
  BY <1>1, <1>2
<1>4. part(positions) \in Seq(Int) /\ Len(part(positions)) = Len(positions)
  BY <1>1, <1>3, IsSequence
<1> DEFINE a == part(positions)
           b == part(positions')
<1>5. b = Append(a, x)
  <2>1. /\ b \in [1..Len(positions) + 1 -> Int]
        /\ b[Len(positions) + 1] = x
        /\ \A n \in 1..Len(positions) : b[n] = a[n]
    BY <1>1, <1>2
  <2>2. a \in Seq(Int) /\ Len(a) = Len(positions)
    BY <1>4
  <2> HIDE DEF a, b, x
  <2>3. PICK k \in Nat : k = Len(positions)
    BY <1>1
  <2>4. PICK l \in Nat : l = k + 1
    OBVIOUS
  <2>5. b \in [1..l -> Int] /\ b[l] = x /\ \A n \in 1..k : b[n] = a[n]
    BY <2>1, <2>3, <2>4
  <2>6. b \in Seq(Int) /\ Len(b) = l
    BY <2>5, IsSequence
  <2>7. PICK c \in Seq(Int) : c = Append(a, x)
    BY <1>2, <2>2, AppendProperties
  <2>8. Len(c) = l /\ c[l] = x /\ \A n \in 1..k : c[n] = a[n]
    BY <1>2, <2>2, <2>3, <2>4, <2>7, AppendProperties
  <2>9. \A n \in 1..l : n \in 1..k \/ n = l
    BY <2>4
  <2>10. \A n \in 1..Len(b) : b[n] = c[n]
    BY ONLY <2>5, <2>6, <2>8, <2>9
  <2> QED
    BY <2>6, <2>7, <2>8, <2>10, SameElements DEF Extensional
<1>6. Total(b) = Total(a) + x
  <2> HIDE DEF a, b, x
  <2> QED
    BY <1>2, <1>4, <1>5, TotalAppend DEF a
<1> QED
  BY <1>6 DEF BookedQuantity

\* With no booking the quantity booked is nothing, now
LEMMA NothingBooked ==
  ASSUME NEW o, positions = <<>>
  PROVE  BookedQuantity(o) = 0
<1>1. [n \in DOMAIN positions |-> IF positions[n].order = o THEN positions[n].quantity ELSE 0]
        = <<>>
  OBVIOUS
<1> QED
  BY <1>1, TotalEmpty DEF BookedQuantity

\* and after a step.
LEMMA NothingBookedThen ==
  ASSUME NEW o, positions' = <<>>
  PROVE  BookedQuantity(o)' = 0
<1>1. [n \in DOMAIN positions' |-> IF positions'[n].order = o THEN positions'[n].quantity ELSE 0]
        = <<>>
  OBVIOUS
<1> QED
  BY <1>1, TotalEmpty DEF BookedQuantity

\* An event by which an order was reported FILLED has its whole quantity, and a
\* price, so it is booked.
LEMMA WholeFill ==
  ASSUME TypeOK, BrokerInv, NEW o \in DOMAIN orders, NEW e, e.to = "FILLED", Reported(o, e)
  PROVE  /\ FilledQuantity(orders[o], e) = orders[o].quantity
         /\ IsBookable(orders[o], e)
<1>1. PICK m \in wire : /\ m.external = LiveExternalId(o) /\ m.status = "FILLED"
                        /\ e.quantity = m.quantity /\ e.price = m.price
  BY DEF Reported
<1>2. PICK p \in placed : /\ m.external = LiveExternalId(p.order) /\ m.quantity = p.quantity
                          /\ p.quantity > 0
  BY <1>1 DEF BrokerInv, WholeFills
<1>3. p.order = o
  BY <1>1, <1>2 DEF LiveExternalId
<1>4. p.quantity = orders[o].quantity /\ p.quantity \in Nat
  BY <1>3 DEF BrokerInv, PlacedOnce, TypeOK
<1>5. m.price = 1
  BY DEF BrokerInv, FeedTypes, Messages
<1> QED
  BY <1>1, <1>2, <1>4, <1>5 DEF FilledQuantity, IsBookable

\* And the broker has filled it.
LEMMA FilledWhole ==
  ASSUME TypeOK, BrokerInv, NEW o \in DOMAIN orders, Sent(o, "FILLED")
  PROVE  FilledAtBroker(o) = orders[o].quantity
<1>1. PICK m \in wire : m.external = LiveExternalId(o) /\ m.status = "FILLED"
  BY DEF Sent
<1>2. PICK p \in placed : /\ m.external = LiveExternalId(p.order)
                          /\ FilledAtBroker(p.order) = p.quantity
  BY <1>1 DEF BrokerInv, WholeFills
<1>3. p.order = o
  BY <1>1, <1>2 DEF LiveExternalId
<1> QED
  BY <1>2, <1>3 DEF BrokerInv, PlacedOnce

----------------------------------------------------------------------------
(***************************************************************************)
(* An order no two threads work on together is booked once and whole.      *)
(***************************************************************************)
HandsOf(o) == \A w \in Workers : order[w] = o => InHand(pc[w], event[w], orders[o].status)
SoloOrder(o) == Solo(o) /\ BookedWhole(o) /\ HandsOf(o)

\* The orders that two threads had together are set down as raced.
LEMMA SoloAfter ==
  ASSUME TypeOK', raced' = raced \cup Together, NEW o \in OrderIds \ raced'
  PROVE  o \notin raced /\ Solo(o)'
<1>1. o \notin raced /\ o \notin Together
  OBVIOUS
<1>2. SUFFICES ASSUME NEW v \in Workers, NEW w \in Workers, order'[v] = o, order'[w] = o
               PROVE  v = w
  BY <1>1 DEF Solo
<1>3. o \in DOMAIN orders'
  BY <1>2 DEF TypeOK, OrderIds, NoOrder
<1> QED
  BY <1>1, <1>2, <1>3 DEF Together

\* A thread that has an order alone, and is past its update_push, is one that
\* made it FILLED.
LEMMA FilledInHand ==
  ASSUME TypeOK, NEW w \in Workers, NEW o \in OrderIds, SoloOrder(o), order[w] = o
  PROVE  /\ o \in DOMAIN orders
         /\ \A v \in Workers : order[v] = o => v = w
         /\ InHand(pc[w], event[w], orders[o].status)
         /\ pc[w] = "ledger" => WholeBooked(o)
         /\ pc[w] # "ledger" => BookedQuantity(o) = 0
<1>1. o \in DOMAIN orders
  BY DEF TypeOK, OrderIds, NoOrder
<1>2. \A v \in Workers : order[v] = o => v = w
  BY DEF SoloOrder, Solo
<1>3. InHand(pc[w], event[w], orders[o].status)
  BY DEF SoloOrder, HandsOf
<1>4. pc[w] = "ledger" => WholeBooked(o)
  BY <1>1, <1>2, <1>3 DEF WholeBooked, InHand
<1>5. pc[w] # "ledger" => BookedQuantity(o) = 0
  BY DEF SoloOrder, BookedWhole, WholeBooked
<1> QED
  BY <1>1, <1>2, <1>3, <1>4, <1>5

\* A step that does not touch an order leaves it as it is: the thread has it
\* neither before nor after, the store has of it what it had, and nothing is
\* booked for it.
LEMMA UntouchedOrder ==
  ASSUME NEW w \in Workers, Others(w), NEW o \in OrderIds, SoloOrder(o), Solo(o)',
         order[w] # o, order'[w] # o,
         o \in DOMAIN orders' <=> o \in DOMAIN orders,
         o \in DOMAIN orders =>
           orders'[o].status = orders[o].status /\ orders'[o].quantity = orders[o].quantity,
         \A v \in Workers : order[v] = o => o \in DOMAIN orders,
         BookedQuantity(o)' = BookedQuantity(o)
  PROVE  SoloOrder(o)'
<1>1. \A v \in Workers : order'[v] = o <=> order[v] = o
  BY DEF Others
<1>2. \A v \in Workers : order[v] = o => pc'[v] = pc[v] /\ event'[v] = event[v]
  BY DEF Others
<1>3. HandsOf(o)'
  BY <1>1, <1>2 DEF SoloOrder, HandsOf
<1>4. WholeBooked(o)' <=> WholeBooked(o)
  BY <1>1, <1>2 DEF WholeBooked
<1>5. BookedWhole(o)'
  BY <1>4 DEF SoloOrder, BookedWhole, WholeBooked
<1> QED
  BY <1>3, <1>5 DEF SoloOrder

\* A step that goes on with an order, and books nothing, leaves it right when
\* the thread has right hands for the status.
LEMMA HeldOrder ==
  ASSUME NEW w \in Workers, Others(w), NEW o \in OrderIds, Solo(o)',
         order'[w] = o, pc'[w] # "ledger",
         InHand(pc'[w], event'[w], orders'[o].status),
         BookedQuantity(o) = 0, positions' = positions
  PROVE  SoloOrder(o)'
<1>1. \A v \in Workers : order'[v] = o => v = w
  BY DEF Solo
<1>2. HandsOf(o)'
  BY <1>1 DEF HandsOf
<1>3. ~WholeBooked(o)'
  BY DEF WholeBooked
<1>4. BookedQuantity(o)' = 0
  BY DEF BookedQuantity
<1> QED
  BY <1>2, <1>3, <1>4 DEF SoloOrder, BookedWhole

\* An order that a thread turns to has not ended.
LEMMA TurnedUnbooked ==
  ASSUME NEW o \in DOMAIN orders, SoloOrder(o), orders[o].status # "FILLED"
  PROVE  BookedQuantity(o) = 0
BY DEF SoloOrder, BookedWhole, WholeBooked

\* An order that is left alone, after a request about it, is booked if FILLED.
LEMMA LeftOrder ==
  ASSUME NEW w \in Workers, Others(w), NEW o \in OrderIds, Solo(o)', order[w] = o,
         \A v \in Workers : order[v] = o => v = w, order'[w] # o,
         o \in DOMAIN orders',
         IF orders'[o].status = "FILLED" THEN BookedQuantity(o) = orders'[o].quantity
                                         ELSE BookedQuantity(o) = 0,
         positions' = positions
  PROVE  SoloOrder(o)'
<1>1. \A v \in Workers : order'[v] # o
  BY DEF Others
<1>2. HandsOf(o)' /\ (WholeBooked(o)' <=> orders'[o].status = "FILLED")
  BY <1>1 DEF HandsOf, WholeBooked
<1>3. BookedQuantity(o)' = BookedQuantity(o)
  BY DEF BookedQuantity
<1> QED
  BY <1>2, <1>3 DEF SoloOrder, BookedWhole

\* The steps before a thread has an order, and those by which it turns to one.
LEMMA TurnSolo ==
  ASSUME TypeOK, OwnIds, FeedTypes, NEW w \in Workers,
         \/ BeginSubmit(w) \/ TakeMessage(w) \/ BeginCancel(w) \/ BeginModify(w)
         \/ AcceptRisk(w) \/ RejectRisk(w),
         Others(w), NEW o \in OrderIds, SoloOrder(o), Solo(o)'
  PROVE  SoloOrder(o)'
<1>1. UNCHANGED <<orders, positions>>
  BY DEF BeginSubmit, TakeMessage, BeginCancel, BeginModify, AcceptRisk, RejectRisk, service
<1>2. pc[w] \in {"idle", "risk"} /\ order[w] = NoOrder
  BY DEF BeginSubmit, TakeMessage, BeginCancel, BeginModify, AcceptRisk, RejectRisk, Idle, TypeOK
<1>3. \/ order'[w] = NoOrder
      \/ \E p \in DOMAIN orders :
           /\ order'[w] = p /\ orders[p].status # "FILLED"
           /\ pc'[w] \in {"update_set", "cancel_set", "modify_call"}
  <2>1. CASE BeginSubmit(w) \/ AcceptRisk(w)
    BY <1>2, <2>1 DEF BeginSubmit, AcceptRisk
  <2>2. CASE RejectRisk(w)
    BY <2>2, FinishHand DEF RejectRisk
  <2>3. CASE BeginCancel(w) \/ BeginModify(w)
    BY <2>3 DEF BeginCancel, BeginModify, Turn, Goto, TypeOK, Workable
  <2>4. CASE TakeMessage(w)
    <3>1. PICK m \in wire, p \in DOMAIN orders : Takes(w, m, p)
      BY <2>4, Taken
    <3>2. \A t : ~CanTransition("FILLED", t)
      BY DEF CanTransition, ALLOWED_TRANSITIONS, OrderStatus
    <3>3. orders[p].status # "FILLED" /\ order'[w] = p /\ pc'[w] = "update_set"
      BY <3>1, <3>2 DEF Takes
    <3> QED
      BY <3>3
  <2> QED
    BY <2>1, <2>2, <2>3, <2>4
<1>4. /\ BookedQuantity(o)' = BookedQuantity(o)
      /\ \A v \in Workers : order[v] = o => o \in DOMAIN orders
  BY <1>1 DEF BookedQuantity, TypeOK, OrderIds, NoOrder
<1>5. CASE order'[w] # o
  BY <1>1, <1>2, <1>4, <1>5, UntouchedOrder DEF OrderIds, NoOrder
<1>6. CASE order'[w] = o
  <2>1. /\ o \in DOMAIN orders /\ orders[o].status # "FILLED"
        /\ pc'[w] \in {"update_set", "cancel_set", "modify_call"}
    BY <1>3, <1>6 DEF OrderIds, NoOrder
  <2>2. BookedQuantity(o) = 0
    BY <2>1, TurnedUnbooked
  <2>3. InHand(pc'[w], event'[w], orders'[o].status)
    BY <1>1, <2>1 DEF InHand, PushSteps
  <2> QED
    BY <1>1, <1>6, <2>1, <2>2, <2>3, HeldOrder
<1> QED
  BY <1>5, <1>6

\* The creation of an order, which nobody knows yet.
LEMMA CreateSolo ==
  ASSUME TypeOK, NEW w \in Workers, CreateOrder(w), Acts(w), Others(w),
         NEW o \in OrderIds, SoloOrder(o), Solo(o)'
  PROVE  SoloOrder(o)'
<1>1. /\ created + 1 \notin DOMAIN orders
      /\ DOMAIN orders' = DOMAIN orders \cup {created + 1}
      /\ orders'[created + 1] = NewOrder(request[w])
      /\ \A p \in DOMAIN orders : orders'[p] = orders[p]
  BY StoreAfter
<1>2. /\ order'[w] = created + 1 /\ pc'[w] = "submit_set" /\ positions' = positions
      /\ order[w] = NoOrder
  BY DEF CreateOrder, Turn, Goto, TypeOK
<1>3. /\ BookedQuantity(o)' = BookedQuantity(o)
      /\ \A v \in Workers : order[v] = o => o \in DOMAIN orders
  BY <1>2 DEF BookedQuantity, TypeOK, OrderIds, NoOrder
<1>4. CASE o # created + 1
  BY <1>1, <1>2, <1>3, <1>4, UntouchedOrder DEF OrderIds, NoOrder
<1>5. CASE o = created + 1
  <2>1. BookedQuantity(o) = 0
    BY <1>1, <1>5 DEF SoloOrder, BookedWhole, WholeBooked
  <2>2. orders'[o].status = "CREATED"
    BY <1>1, <1>5 DEF NewOrder
  <2>3. InHand(pc'[w], event'[w], orders'[o].status)
    BY <1>2, <2>2 DEF InHand, PushSteps
  <2> QED
    BY <1>2, <1>5, <2>1, <2>3, HeldOrder
<1> QED
  BY <1>4, <1>5

\* The steps by which a thread goes on with its order, the store left alone.
LEMMA CallSolo ==
  ASSUME TypeOK, NEW w \in Workers,
         \/ BrokerAccepts(w) \/ BrokerRejects(w) \/ BrokerFails(w)
         \/ CallCancel(w) \/ CallModify(w),
         Others(w), NEW o \in OrderIds, SoloOrder(o), Solo(o)'
  PROVE  SoloOrder(o)'
<1>1. UNCHANGED <<orders, positions>>
  BY DEF BrokerAccepts, BrokerRejects, BrokerFails, Answer, CallCancel, CallModify, service
<1>2. /\ pc[w] \in {"place", "cancel_call", "modify_call"}
      /\ pc'[w] \in {"place_set", "cancel_ack_set", "modify_set"}
      /\ order'[w] = order[w]
  <2>1. CASE BrokerAccepts(w) \/ BrokerRejects(w) \/ BrokerFails(w)
    BY <2>1 DEF BrokerAccepts, BrokerRejects, BrokerFails, Answer, Goto, TypeOK
  <2>2. CASE CallCancel(w) \/ CallModify(w)
    BY <2>2 DEF CallCancel, CallModify, Turn, Goto, TypeOK
  <2> QED
    BY <2>1, <2>2
<1>3. /\ BookedQuantity(o)' = BookedQuantity(o)
      /\ \A v \in Workers : order[v] = o => o \in DOMAIN orders
  BY <1>1 DEF BookedQuantity, TypeOK, OrderIds, NoOrder
<1>4. CASE order[w] # o
  BY <1>1, <1>2, <1>3, <1>4, UntouchedOrder
<1>5. CASE order[w] = o
  <2>1. InHand(pc[w], event[w], orders[o].status) /\ BookedQuantity(o) = 0
    BY <1>2, <1>5, FilledInHand
  <2>2. InHand(pc'[w], event'[w], orders'[o].status)
    BY <1>1, <1>2, <2>1 DEF InHand, PushSteps
  <2> QED
    BY <1>1, <1>2, <1>5, <2>1, <2>2, HeldOrder
<1> QED
  BY <1>4, <1>5

\* The first half of append_event.
LEMMA SetStatusSolo ==
  ASSUME TypeOK, HandsReported, NEW w \in Workers, SetStatus(w), Acts(w), Others(w),
         NEW o \in OrderIds, SoloOrder(o), Solo(o)'
  PROVE  SoloOrder(o)'
<1>1. /\ order[w] \in DOMAIN orders /\ DOMAIN orders' = DOMAIN orders
      /\ orders'[order[w]].status = event[w].to
      /\ \A p \in DOMAIN orders \ {order[w]} : orders'[p] = orders[p]
  BY StoreAfter
<1>2. /\ order'[w] = order[w] /\ event'[w] = event[w] /\ positions' = positions
      /\ pc[w] \in SetSteps /\ pc'[w] = PushOf[pc[w]]
  BY DEF SetStatus, Goto, TypeOK
<1>3. pc'[w] \in PushSteps /\ pc'[w] \notin {"position", "ledger"}
  BY <1>2 DEF PushOf, SetSteps, PushSteps
<1>4. /\ BookedQuantity(o)' = BookedQuantity(o)
      /\ \A v \in Workers : order[v] = o => o \in DOMAIN orders
  BY <1>2 DEF BookedQuantity, TypeOK, OrderIds, NoOrder
<1>5. CASE order[w] # o
  BY <1>1, <1>2, <1>4, <1>5, UntouchedOrder
<1>6. CASE order[w] = o
  <2>1. pc[w] # "ledger"
    BY <1>2 DEF SetSteps
  <2>2. BookedQuantity(o) = 0
    BY <1>6, <2>1, FilledInHand
  <2>3. event[w].to = "FILLED" => pc'[w] = "update_push"
    BY <1>2 DEF HandsReported, Ends, UpdateSteps, SetSteps, PushOf
  <2>4. InHand(pc'[w], event'[w], orders'[o].status)
    BY <1>1, <1>2, <1>3, <1>6, <2>3 DEF InHand
  <2> QED
    BY <1>2, <1>3, <1>6, <2>2, <2>4, HeldOrder
<1> QED
  BY <1>5, <1>6

\* The second half of append_event, when the thread goes on.
LEMMA PushSolo ==
  ASSUME TypeOK, NEW w \in Workers, PushEvent(w) \/ PushFill(w), Acts(w), Others(w),
         FieldsKept, NEW o \in OrderIds, SoloOrder(o), Solo(o)'
  PROVE  SoloOrder(o)'
<1>1. /\ order[w] \in DOMAIN orders /\ DOMAIN orders' = DOMAIN orders
      /\ orders'[order[w]].status = orders[order[w]].status
      /\ \A p \in DOMAIN orders \ {order[w]} : orders'[p] = orders[p]
  BY StoreAfter
<1>2. order'[w] = order[w] /\ event'[w] = event[w] /\ positions' = positions
  BY DEF PushEvent, PushFill
<1>3. \/ pc[w] \in {"submit_push", "cancel_push"} /\ pc'[w] \in {"place", "cancel_call"}
      \/ pc[w] = "update_push" /\ pc'[w] = "position" /\ event[w].to = "FILLED"
  BY DEF PushEvent, PushFill, Goto, TypeOK, IsBookable
<1>4. /\ BookedQuantity(o)' = BookedQuantity(o)
      /\ \A v \in Workers : order[v] = o => o \in DOMAIN orders
  BY <1>2 DEF BookedQuantity, TypeOK, OrderIds, NoOrder
<1>5. CASE order[w] # o
  BY <1>1, <1>2, <1>4, <1>5, UntouchedOrder
<1>6. CASE order[w] = o
  <2>1. InHand(pc[w], event[w], orders[o].status) /\ BookedQuantity(o) = 0
    BY <1>3, <1>6, FilledInHand
  <2>2. InHand(pc'[w], event'[w], orders'[o].status)
    BY <1>1, <1>2, <1>3, <1>6, <2>1 DEF InHand, PushSteps
  <2> QED
    BY <1>2, <1>3, <1>6, <2>1, <2>2, HeldOrder
<1> QED
  BY <1>5, <1>6

\* The end of a request: an update that is FILLED does not end unbooked.
LEMMA EndSolo ==
  ASSUME TypeOK, BrokerInv, HandsReported, NEW w \in Workers,
         PushLastEvent(w) \/ ModifyRaises(w) \/ BookTrade(w), Acts(w), Others(w),
         FieldsKept, NEW o \in OrderIds, SoloOrder(o), Solo(o)'
  PROVE  SoloOrder(o)'
<1>1. /\ order'[w] = NoOrder /\ positions' = positions
      /\ pc[w] \notin {"idle", "risk", "create"}
  BY FinishHand DEF PushLastEvent, ModifyRaises, BookTrade, service
<1>2. order[w] \in DOMAIN orders
  BY <1>1, OrderInHand
<1>3. \A p \in DOMAIN orders : orders'[p].status = orders[p].status
  <2>1. CASE PushLastEvent(w)
    BY <2>1, StoreAfter
  <2>2. CASE ModifyRaises(w) \/ BookTrade(w)
    BY <2>2 DEF ModifyRaises, BookTrade, service
  <2> QED
    BY <2>1, <2>2
<1>4. /\ BookedQuantity(o)' = BookedQuantity(o)
      /\ \A v \in Workers : order[v] = o => o \in DOMAIN orders
  BY <1>1 DEF BookedQuantity, TypeOK, OrderIds, NoOrder
<1>5. CASE order[w] # o
  BY <1>1, <1>3, <1>4, <1>5, UntouchedOrder DEF FieldsKept, SameFields, OrderIds, NoOrder
<1>6. CASE order[w] = o
  <2>1. /\ InHand(pc[w], event[w], orders[o].status)
        /\ \A v \in Workers : order[v] = o => v = w
        /\ pc[w] = "ledger" => WholeBooked(o)
        /\ pc[w] # "ledger" => BookedQuantity(o) = 0
    BY <1>6, FilledInHand
  <2>2. CASE pc[w] = "ledger"
    <3>1. orders[o].status = "FILLED" /\ BookedQuantity(o) = orders[o].quantity
      BY <2>1, <2>2 DEF SoloOrder, BookedWhole, WholeBooked
    <3> QED
      BY <1>1, <1>2, <1>3, <1>6, <2>1, <3>1, LeftOrder DEF FieldsKept, SameFields, OrderIds, NoOrder
  <2>3. CASE pc[w] # "ledger"
    <3>1. orders[o].status # "FILLED"
      <4>1. CASE pc[w] # "update_push"
        <5>1. pc[w] \notin {"update_push", "position", "ledger"}
          BY <2>3, <4>1 DEF PushLastEvent, ModifyRaises, BookTrade
        <5> QED
          BY <2>1, <5>1 DEF InHand
      <4>2. CASE pc[w] = "update_push"
        <5>1. orders[o].status = event[w].to /\ ~IsBookable(orders[o], event[w])
          BY <1>6, <2>1, <4>2 DEF InHand, PushSteps, PushLastEvent, ModifyRaises, BookTrade
        <5>2. event[w].to = "FILLED" => Reported(o, event[w])
          BY <1>6 DEF HandsReported, Ends
        <5> QED
          BY <1>2, <1>6, <5>1, <5>2, WholeFill
      <4> QED
        BY <4>1, <4>2
    <3> QED
      BY <1>1, <1>2, <1>3, <1>6, <2>1, <2>3, <3>1, LeftOrder DEF FieldsKept, OrderIds, NoOrder
  <2> QED
    BY <2>2, <2>3
<1> QED
  BY <1>5, <1>6

\* The booking: of the whole quantity.
LEMMA BookSolo ==
  ASSUME TypeOK, FillInHand, BrokerInv, HistoryReported, NEW w \in Workers, BookPosition(w),
         Others(w), NEW o \in OrderIds, SoloOrder(o), Solo(o)'
  PROVE  SoloOrder(o)'
<1> DEFINE f == Fill(order[w], orders[order[w]], at[w])
<1>1. /\ pc[w] = "position" /\ pc'[w] = "ledger" /\ order'[w] = order[w]
      /\ event'[w] = event[w] /\ UNCHANGED orders /\ positions' = Append(positions, f)
  BY DEF BookPosition, Goto, TypeOK
<1>2. f \in FillRecord /\ f.order = order[w] /\ positions \in Seq(FillRecord)
  BY <1>1, FillType DEF Fill, TypeOK
<1>3. f.quantity = orders[order[w]].quantity /\ order[w] \in DOMAIN orders
  <2>1. order[w] \in DOMAIN orders
    BY <1>1, OrderInHand
  <2> DEFINE e == orders[order[w]].history[at[w]]
  <2>2. at[w] \in 1..Len(orders[order[w]].history) /\ e.to = "FILLED"
    BY <1>1 DEF FillInHand, IsBookable
  <2>3. Reported(order[w], e)
    BY <2>1, <2>2 DEF HistoryReported
  <2>4. FilledQuantity(orders[order[w]], e) = orders[order[w]].quantity
    BY <2>1, <2>2, <2>3, WholeFill
  <2> QED
    BY <2>1, <2>4 DEF Fill
<1> HIDE DEF f
<1>4. BookedQuantity(o)' = BookedQuantity(o) + (IF f.order = o THEN f.quantity ELSE 0)
  BY <1>1, <1>2, BookedGrows
<1>5. CASE order[w] # o
  <2>1. BookedQuantity(o) \in Int
    <3>1. CASE WholeBooked(o)
      BY <3>1 DEF SoloOrder, BookedWhole, WholeBooked, TypeOK, StoredOrder
    <3>2. CASE ~WholeBooked(o)
      BY <3>2 DEF SoloOrder, BookedWhole
    <3> QED
      BY <3>1, <3>2
  <2>2. BookedQuantity(o)' = BookedQuantity(o)
    BY <1>2, <1>4, <1>5, <2>1
  <2>3. \A v \in Workers : order[v] = o => o \in DOMAIN orders
    BY DEF TypeOK, OrderIds, NoOrder
  <2> QED
    BY <1>1, <1>5, <2>2, <2>3, UntouchedOrder
<1>6. CASE order[w] = o
  <2>1. /\ InHand(pc[w], event[w], orders[o].status) /\ BookedQuantity(o) = 0
        /\ \A v \in Workers : order[v] = o => v = w
    BY <1>1, <1>6, FilledInHand
  <2>2. orders[o].status = "FILLED"
    BY <1>1, <2>1 DEF InHand
  <2>3. \A v \in Workers : order'[v] = o => v = w
    BY <1>1, <1>6 DEF Solo
  <2>4. HandsOf(o)'
    BY <1>1, <1>6, <2>2, <2>3 DEF HandsOf, InHand, PushSteps
  <2>5. WholeBooked(o)'
    BY <1>1, <1>3, <1>6, <2>2, <2>3 DEF WholeBooked
  <2>6. BookedQuantity(o)' = orders'[o].quantity
    BY <1>1, <1>2, <1>3, <1>4, <1>6, <2>1 DEF TypeOK, StoredOrder
  <2> QED
    BY <2>4, <2>5, <2>6 DEF SoloOrder, BookedWhole
<1> QED
  BY <1>5, <1>6

\* Every step of a thread, and a restart, preserve the whole invariant.
LEMMA ActsSolo ==
  ASSUME IInv, TypeOK', OwnIds, BrokerInv, ReportedInv, NEW w \in Workers, Acts(w),
         NEW o \in OrderIds, SoloOrder(o), Solo(o)'
  PROVE  SoloOrder(o)'
<1>1. TypeOK /\ FillInHand /\ FeedTypes /\ HandsReported /\ HistoryReported
  BY DEF IInv, Accounted, BrokerInv, ReportedInv
<1>2. Others(w)
  BY <1>1, ActsAlone
<1>3. CASE \/ BeginSubmit(w) \/ TakeMessage(w) \/ BeginCancel(w) \/ BeginModify(w)
           \/ AcceptRisk(w) \/ RejectRisk(w)
  BY <1>1, <1>2, <1>3, TurnSolo
<1>4. CASE CreateOrder(w)
  BY <1>1, <1>2, <1>4, CreateSolo
<1>5. CASE \/ BrokerAccepts(w) \/ BrokerRejects(w) \/ BrokerFails(w)
           \/ CallCancel(w) \/ CallModify(w)
  BY <1>1, <1>2, <1>5, CallSolo
<1>6. CASE SetStatus(w)
  BY <1>1, <1>2, <1>6, SetStatusSolo
<1>7. CASE PushEvent(w) \/ PushFill(w)
  BY <1>1, <1>2, <1>7, PushSolo, StoreFieldsKept
<1>8. CASE PushLastEvent(w) \/ ModifyRaises(w) \/ BookTrade(w)
  <2>1. FieldsKept
    BY <1>1, <1>8, StoreAlone, StoreFieldsKept DEF FieldsKept, SameFields
  <2> QED
    BY <1>1, <1>2, <1>8, <2>1, EndSolo
<1>9. CASE BookPosition(w)
  BY <1>1, <1>2, <1>9, BookSolo
<1> QED
  BY <1>3, <1>4, <1>5, <1>6, <1>7, <1>8, <1>9 DEF Acts, Continue

FeedInv == IInv /\ OwnIds /\ BrokerInv /\ ReportedInv /\ SoloInv

\* SoloInv is about the orders one by one.
LEMMA SoloOrders == SoloInv <=> \A o \in OrderIds \ raced : SoloOrder(o)
BY DEF SoloInv, SoloOrder, HandsOf

\* The same after a step.
LEMMA SoloOrdersThen == SoloInv' <=> \A o \in OrderIds \ raced' : SoloOrder(o)'
BY DEF SoloInv, SoloOrder, HandsOf

\* At first nothing is stored, held, sent or under way.
LEMMA FeedInitInv == FeedInit => FeedInv
<1> SUFFICES ASSUME FeedInit PROVE FeedInv
  OBVIOUS
<1>1. Init /\ wire = {} /\ filled = [o \in {} |-> 0] /\ raced = {}
  BY DEF FeedInit
<1>2. IInv
  BY <1>1, InitInv
<1>3. /\ DOMAIN orders = {} /\ placed = {} /\ positions = <<>>
      /\ \A w \in Workers : /\ pc[w] = "idle" /\ order[w] = NoOrder
                            /\ event[w] = NoEvent /\ external[w] = NoExternal
  BY <1>1 DEF Init
<1>4. OwnIds
  BY <1>3 DEF OwnIds, Recording
<1>5. BrokerInv
  BY <1>1, <1>3 DEF BrokerInv, FeedTypes, PlacedOnce, WholeFills
<1>6. ReportedInv
  BY <1>3 DEF ReportedInv, HandsReported, StatusReported, HistoryReported, NoEvent, Transition, Ends
<1>7. SoloInv
  <2>1. \A o : BookedQuantity(o) = 0
    BY <1>3, NothingBooked
  <2> QED
    BY <1>3, <2>1 DEF SoloInv, Solo, BookedWhole, WholeBooked, OrderIds, NoOrder
<1> QED
  BY <1>2, <1>4, <1>5, <1>6, <1>7 DEF FeedInv

\* Every step of the service preserves the whole invariant.
LEMMA ServiceInv ==
  ASSUME FeedInv, ServiceStep, raced' = raced \cup Together, UNCHANGED <<filled, wire>>
  PROVE  FeedInv'
<1>1. /\ IInv /\ OwnIds /\ BrokerInv /\ ReportedInv /\ SoloInv
      /\ TypeOK /\ FeedTypes
  BY DEF FeedInv, IInv, BrokerInv
<1>2. IInv' /\ OwnIds' /\ TypeOK'
  BY <1>1, ServiceKeeps DEF IInv
<1>3. BrokerInv'
  BY <1>1, ServiceBrokerInv
<1>4. CASE Restart
  <2>1. /\ DOMAIN orders' = {} /\ positions' = <<>>
        /\ \A w \in Workers : order'[w] = NoOrder /\ event'[w] = NoEvent
    BY <1>4 DEF Restart
  <2>2. ReportedInv'
    BY <2>1 DEF ReportedInv, HandsReported, StatusReported, HistoryReported, NoEvent, Transition, Ends
  <2>3. \A o : BookedQuantity(o)' = 0
    BY <2>1, NothingBookedThen
  <2>4. SoloInv'
    BY <2>1, <2>3 DEF SoloInv, Solo, BookedWhole, WholeBooked, OrderIds, NoOrder
  <2> QED
    BY <1>2, <1>3, <2>2, <2>4 DEF FeedInv
<1>5. ASSUME NEW w \in Workers, Acts(w)
      PROVE  FeedInv'
  <2>1. ReportedInv'
    BY <1>1, <1>5, ActsReported
  <2>2. ASSUME NEW o \in OrderIds \ raced'
        PROVE  SoloOrder(o)'
    <3>1. o \notin raced /\ Solo(o)'
      BY <1>2, SoloAfter
    <3>2. SoloOrder(o)
      BY <1>1, <3>1, SoloOrders
    <3> QED
      BY <1>1, <1>2, <1>5, <3>1, <3>2, ActsSolo
  <2> QED
    BY <1>2, <1>3, <2>1, <2>2, SoloOrdersThen DEF FeedInv
<1> QED
  BY <1>4, <1>5 DEF ServiceStep, Acts

\* What the broker does, and says, takes nothing from what was reported.
LEMMA BrokerInvs ==
  ASSUME FeedInv, UNCHANGED <<vars, raced>>, BrokerInv', wire \subseteq wire'
  PROVE  FeedInv'
<1>1. IInv /\ OwnIds /\ ReportedInv /\ SoloInv /\ TypeOK
  BY DEF FeedInv, IInv
<1>2. IInv' /\ OwnIds'
  BY <1>1, NextInv, OwnIdsNext
<1>3. UNCHANGED <<orders, created, positions, pc, order, event, raced>>
  BY DEF vars, service, locals
<1>4. ReportedInv'
  BY <1>1, <1>3, ReportedStays DEF ReportedInv, HandsReported, StatusReported, HistoryReported
<1>5. \A o : BookedQuantity(o)' = BookedQuantity(o)
  BY <1>3 DEF BookedQuantity
<1>6. SoloInv'
  BY <1>1, <1>3, <1>5 DEF SoloInv, Solo, BookedWhole, WholeBooked
<1> QED
  BY <1>2, <1>4, <1>6 DEF FeedInv

\* Every step, and every stutter, preserves the whole invariant.
LEMMA FeedNextInv == FeedInv /\ [FeedNext]_<<vars, feedVars>> => FeedInv'
<1> SUFFICES ASSUME FeedInv, [FeedNext]_<<vars, feedVars>>
             PROVE  FeedInv'
  OBVIOUS
<1>0. TypeOK /\ BrokerInv
  BY DEF FeedInv, IInv
<1>1. CASE ServiceStep /\ raced' = raced \cup Together /\ UNCHANGED <<filled, wire>>
  BY <1>1, ServiceInv
<1>2. CASE BrokerStep
  <2>1. UNCHANGED <<vars, raced>>
    BY <1>2 DEF BrokerStep
  <2> QED
    BY <1>0, <1>2, <2>1, BrokerStepInv, BrokerInvs
<1>3. CASE UNCHANGED <<vars, feedVars>>
  <2>1. UNCHANGED <<vars, raced>> /\ UNCHANGED <<filled, wire, placed, orders, created>>
    BY <1>3 DEF feedVars, vars, service
  <2>2. BrokerInv' /\ wire \subseteq wire'
    BY <1>0, <2>1 DEF BrokerInv, FeedTypes, PlacedOnce, WholeFills, FilledAtBroker
  <2> QED
    BY <2>1, <2>2, BrokerInvs
<1> QED
  BY <1>1, <1>2, <1>3 DEF FeedNext

\* The whole invariant holds in every reachable state.
THEOREM FeedInvariance == FeedSpec => []FeedInv
BY FeedInitInv, FeedNextInv, PTL DEF FeedSpec

----------------------------------------------------------------------------
\* Messages may be late, out of order, repeated or lost, the process may restart:
\* what apply_broker_update booked for an order on which no two requests worked
\* together is never more than the broker filled.
THEOREM NeverOverbooked == FeedSpec => []BookedWithinBroker
<1>1. FeedInv => BookedWithinBroker
  <2> SUFFICES ASSUME FeedInv, NEW o \in 1..created \ raced
               PROVE  BookedQuantity(o) <= FilledAtBroker(o)
    BY DEF BookedWithinBroker
  <2>1. TypeOK /\ BrokerInv /\ ReportedInv /\ SoloInv
    BY DEF FeedInv, IInv
  <2>2. o \in OrderIds /\ FilledAtBroker(o) \in Nat
    BY <2>1, FilledType DEF BrokerInv, OrderIds, TypeOK
  <2>3. BookedWhole(o)
    BY <2>1, <2>2 DEF SoloInv
  <2>4. CASE WholeBooked(o)
    <3>1. o \in DOMAIN orders /\ Sent(o, "FILLED")
      BY <2>1, <2>4 DEF WholeBooked, ReportedInv, StatusReported, Ends
    <3>2. FilledAtBroker(o) = orders[o].quantity /\ BookedQuantity(o) = orders[o].quantity
      BY <2>1, <2>3, <2>4, <3>1, FilledWhole DEF BookedWhole
    <3> QED
      BY <2>2, <3>2
  <2>5. CASE ~WholeBooked(o)
    BY <2>2, <2>3, <2>5 DEF BookedWhole
  <2> QED
    BY <2>4, <2>5
<1> QED
  BY <1>1, FeedInvariance, PTL

\* An order that no request works on, and no two ever worked on together, is
\* FILLED in the store only if the broker filled all of it, and then all of it is
\* booked; it is CANCELLED only if the broker said so, and then nothing is.
THEOREM EndsAlwaysAgree == FeedSpec => []EndsAgree
<1>1. FeedInv => EndsAgree
  <2> SUFFICES ASSUME FeedInv, NEW o \in DOMAIN orders \ raced, \A w \in Workers : order[w] # o
               PROVE  /\ orders[o].status = "FILLED" =>
                           /\ FilledAtBroker(o) = orders[o].quantity
                           /\ BookedQuantity(o) = orders[o].quantity
                      /\ orders[o].status = "CANCELLED" =>
                           Sent(o, "CANCELLED") /\ BookedQuantity(o) = 0
    BY DEF EndsAgree
  <2>1. TypeOK /\ BrokerInv /\ ReportedInv /\ SoloInv
    BY DEF FeedInv, IInv
  <2>2. o \in OrderIds
    BY <2>1 DEF OrderIds, TypeOK
  <2>3. BookedWhole(o) /\ (WholeBooked(o) <=> orders[o].status = "FILLED")
    BY <2>1, <2>2 DEF SoloInv, WholeBooked
  <2>4. orders[o].status \in Ends => Sent(o, orders[o].status)
    BY <2>1 DEF ReportedInv, StatusReported
  <2>5. CASE orders[o].status = "FILLED"
    BY <2>1, <2>3, <2>4, <2>5, FilledWhole DEF BookedWhole, Ends
  <2>6. CASE orders[o].status # "FILLED"
    BY <2>3, <2>4, <2>6 DEF BookedWhole, Ends
  <2> QED
    BY <2>5, <2>6
<1> QED
  BY <1>1, FeedInvariance, PTL
=============================================================================
