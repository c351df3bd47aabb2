-------------------------- MODULE ExecutionService --------------------------
(***************************************************************************)
(* The execution service: the threads that serve its requests, and the     *)
(* in-memory state they share (services/execution_service/app/service.py,  *)
(* lifecycle_store.py, api.py).                                            *)
(*                                                                         *)
(* The API handlers are plain functions, which the web server runs on a    *)
(* pool of threads; the order store, the positions and the trade ledger    *)
(* are objects shared by all requests, and nothing locks them.  A step of  *)
(* this module is one access to shared state together with the private     *)
(* computation that follows it; between two steps of a request any other   *)
(* request may run.  In particular lifecycle_store.append_event takes two  *)
(* steps: it assigns the status of the order, then appends to its history. *)
(*                                                                         *)
(* Abstractions.  An order id (a UUID in the code) is the rank of the      *)
(* order's creation, so the first match in the insertion order of the      *)
(* store is the smallest id.  A call of apply_fill of the positions or of  *)
(* the trade ledger is one step, and the model keeps the calls in the      *)
(* order they were made.  Messages, times, correlation ids and the audit   *)
(* trail carry no decision and are left out.  The persistence repositories *)
(* are absent: the builders in api.py return None for each of them.        *)
(***************************************************************************)
EXTENDS OrderStateMachine, ExecutionRisk, PositionLots
LOCAL INSTANCE SequencesExt

CONSTANTS
  Workers,        \* the threads that serve requests
  Symbols,        \* the instruments traded
  Requests,       \* the submissions clients may make
  Operations,     \* the request kinds clients make: as routed by api.py,
                  \* {"submit", "update"}; cancel and modify are methods of
                  \* the service that no route calls
  UpdateWords,    \* the broker words updates may carry
  FillQuantities, \* the filled quantities updates may carry, 0 when absent
  FillPrices,     \* the average prices updates may carry, 0 when absent
  BrokerMode,     \* "stub", or "live", which stands for a broker without
                  \* credentials too: it gives some of the live answers
  Discipline,     \* what clients keep to: "none"; "answered": they name an
                  \* order only when its submission has ended; "serial":
                  \* moreover they never have two requests under way about
                  \* one order or one idempotency key
  NoKey,          \* an absent idempotency key
  NoExternal,     \* an absent external order id
  MaxOrders,      \* bound on the orders created
  MaxHistory,     \* bound on the history of an order that takes new requests
  MaxRestarts     \* bound on the restarts of the service

OrderIds == Nat \ {0}
NoOrder == 0

Keys == {r.key : r \in Requests}

ASSUME ServiceAssumption ==
  /\ MaxOrders \in Nat /\ MaxHistory \in Nat /\ MaxRestarts \in Nat
  /\ \A r \in Requests :
       /\ r = [symbol |-> r.symbol, side |-> r.side,
               quantity |-> r.quantity, key |-> r.key]
       /\ r.symbol \in Symbols /\ r.side \in Sides /\ r.quantity \in Nat \ {0}
  /\ Requests # {}
  /\ Operations \subseteq {"submit", "update", "cancel", "modify"}
  /\ UpdateWords \subseteq BrokerWords
  /\ FillQuantities \subseteq Int /\ FillPrices \subseteq Int
  /\ BrokerMode \in {"stub", "live"}
  /\ Discipline \in {"none", "answered", "serial"}

VARIABLES
  orders,     \* the order store: id -> StoredOrder
  created,    \* how many orders were ever created
  positions,  \* the fills PositionService.apply_fill was called with
  trades,     \* the fills InMemoryTradeLedger.apply_fill was called with
  pc,         \* where each thread is
  request,    \* the submission a thread works on, until it creates the order
  order,      \* the order a thread works on
  event,      \* the event a thread has built and is about to append
  external,   \* the external order id the broker answered to a submission
  at,         \* the place in its order's history of the event just appended
  placed,     \* the orders the broker holds (the broker's own state)
  restarts    \* how many times the service was restarted

service == <<orders, positions, trades>>
locals  == <<pc, request, order, event, external, at>>
vars    == <<service, created, locals, placed, restarts>>

----------------------------------------------------------------------------
\* The steps of a thread.  An event is appended in a "set" and a "push" step.
SetSteps == {"submit_set", "place_set", "update_set", "cancel_set",
             "cancel_ack_set", "modify_set"}
PushSteps == {"submit_push", "place_push", "update_push", "cancel_push",
              "cancel_ack_push", "modify_push"}
Steps == {"idle", "risk", "create", "place", "position", "ledger",
          "cancel_call", "modify_call"} \cup SetSteps \cup PushSteps

\* A submission, from the creation of its order on.
SubmitSteps == {"submit_set", "submit_push", "place", "place_set", "place_push"}

PushOf ==
  [p \in SetSteps |->
     CASE p = "submit_set" -> "submit_push"
       [] p = "place_set" -> "place_push"
       [] p = "update_set" -> "update_push"
       [] p = "cancel_set" -> "cancel_push"
       [] p = "cancel_ack_set" -> "cancel_ack_push"
       [] OTHER -> "modify_push"]

NoRequest == CHOOSE r \in Requests : TRUE
NoEvent == Transition("CREATED", "CREATED")

Goto(w, step) == pc' = [pc EXCEPT ![w] = step]

\* The request ends: with its response, or with an exception.
Finish(w) ==
  /\ Goto(w, "idle")
  /\ request' = [request EXCEPT ![w] = NoRequest]
  /\ order' = [order EXCEPT ![w] = NoOrder]
  /\ event' = [event EXCEPT ![w] = NoEvent]
  /\ external' = [external EXCEPT ![w] = NoExternal]
  /\ at' = [at EXCEPT ![w] = 0]

\* A thread turns to order o with event e in its hands.
Turn(w, o, e, step) ==
  /\ Goto(w, step)
  /\ order' = [order EXCEPT ![w] = o]
  /\ event' = [event EXCEPT ![w] = e]

Idle(w, operation) == pc[w] = "idle" /\ operation \in Operations

\* The clients' discipline, when they have one.
Available(o) ==
  CASE Discipline = "none" -> TRUE
    [] Discipline = "answered" ->
         \A v \in Workers : pc[v] \in SubmitSteps => order[v] # o
    [] OTHER -> \A v \in Workers : order[v] # o

KeyAvailable(r) ==
  Discipline = "serial" =>
    \A v \in Workers : pc[v] \in {"risk", "create"} =>
                         request[v].key # r.key \/ r.key = NoKey

HasRoom(o) == Len(orders[o].history) < MaxHistory

\* The id of an order at the broker, as BrokerMode makes it.
LiveExternalId(o) == [live |-> o]
ExternalIds ==
  [symbol: Symbols, side: Sides, quantity: Nat, key: Keys]
    \cup [live: OrderIds] \cup {NoExternal}

StoredOrder ==
  [symbol: Symbols, side: Sides, quantity: Nat, key: Keys,
   status: OrderStatus, external: ExternalIds,
   history: Seq(OrderEvent)]

----------------------------------------------------------------------------
(***************************************************************************)
(* Fills.  The fill of the i-th event of order o, stored, as               *)
(* apply_broker_update books it: the update's quantity, or the order's     *)
(* where the update names none.                                            *)
(***************************************************************************)
FilledQuantity(stored, e) == IF e.quantity # 0 THEN e.quantity ELSE stored.quantity

Fill(o, stored, i) ==
  [order |-> o, index |-> i, symbol |-> stored.symbol, side |-> stored.side,
   quantity |-> FilledQuantity(stored, stored.history[i]),
   price |-> stored.history[i].price]

\* Mutant: a partial fill is booked too.
MutantIsBookable(stored, e) ==
  e.to \in {"PARTIALLY_FILLED", "FILLED"} /\ e.price > 0 /\ FilledQuantity(stored, e) > 0

IsBookable(stored, e) ==
  e.to = "FILLED" /\ e.price > 0 /\ FilledQuantity(stored, e) > 0

\* Whether fill f is that of an event in the store, with its quantity.
IsRealFill(store, f) ==
  /\ f.order \in DOMAIN store
  /\ f.index \in 1..Len(store[f.order].history)
  /\ IsBookable(store[f.order], store[f.order].history[f.index])
  /\ f = Fill(f.order, store[f.order], f.index)

\* get_position: the lots the fills of a symbol have left.
PositionOf(s) ==
  FoldLeft(LAMBDA p, f : IF f.symbol = s
                           THEN ApplyFill(p, f.side, f.quantity, f.price)
                           ELSE p,
           FlatPosition, positions)

Net == [s \in Symbols |-> NetQuantity(PositionOf(s).open_lots)]

----------------------------------------------------------------------------
Init ==
  /\ orders = [o \in {} |-> {}]
  /\ created = 0
  /\ positions = <<>>
  /\ trades = <<>>
  /\ pc = [w \in Workers |-> "idle"]
  /\ request = [w \in Workers |-> NoRequest]
  /\ order = [w \in Workers |-> NoOrder]
  /\ event = [w \in Workers |-> NoEvent]
  /\ external = [w \in Workers |-> NoExternal]
  /\ at = [w \in Workers |-> 0]
  /\ placed = {}
  /\ restarts = 0

----------------------------------------------------------------------------
(***************************************************************************)
(* submit_order_request: look for a duplicate, evaluate the risk, create   *)
(* the order, record that it is submitted, call the broker, record what    *)
(* the broker answered.                                                    *)
(***************************************************************************)
\* Mutant: only orders that still are at work count.
MutantIsDuplicate(r) ==
  /\ r.key # NoKey
  /\ \E o \in DOMAIN orders :
       orders[o].key = r.key /\ orders[o].status \notin TERMINAL_STATES

IsDuplicate(r) ==
  r.key # NoKey /\ \E o \in DOMAIN orders : orders[o].key = r.key

UnderWay == {w \in Workers : pc[w] \in {"risk", "create"}}

\* No duplicate: the thread goes on to the risk check.  The bound leaves a
\* rank for each submission that is already past this point.
BeginSubmit(w) ==
  /\ Idle(w, "submit")
  /\ created + Cardinality(UnderWay) < MaxOrders
  /\ \E r \in Requests :
       /\ ~IsDuplicate(r)
       /\ KeyAvailable(r)
       /\ request' = [request EXCEPT ![w] = r]
  /\ Goto(w, "risk")
  /\ UNCHANGED <<service, created, order, event, external, at, placed, restarts>>

\* _build_duplicate_response: the key is known, nothing is submitted.
RespondDuplicate(w) ==
  /\ Idle(w, "submit")
  /\ \E r \in Requests : IsDuplicate(r)
  /\ UNCHANGED vars

RiskPasses(r) == RiskAllows(Net, r.symbol, r.quantity, Signed(r.side, r.quantity))

AcceptRisk(w) ==
  /\ pc[w] = "risk"
  /\ RiskPasses(request[w])
  /\ Goto(w, "create")
  /\ UNCHANGED <<service, created, request, order, event, external, at,
                 placed, restarts>>

RejectRisk(w) ==
  /\ pc[w] = "risk"
  /\ ~RiskPasses(request[w])
  /\ Finish(w)
  /\ UNCHANGED <<service, created, placed, restarts>>

NewOrder(r) ==
  [symbol |-> r.symbol, side |-> r.side, quantity |-> r.quantity,
   key |-> r.key, status |-> "CREATED", external |-> NoExternal,
   history |-> <<>>]

\* Mutant: the order is not put into the store.
MutantCreateOrder(w) ==
  /\ pc[w] = "create"
  /\ created' = created + 1
  /\ Turn(w, created + 1, Transition("CREATED", "SUBMITTED"), "submit_set")
  /\ request' = [request EXCEPT ![w] = NoRequest]
  /\ UNCHANGED <<service, external, at, placed, restarts>>

CreateOrder(w) ==
  /\ pc[w] = "create"
  /\ LET o == created + 1
     IN  /\ orders' = [p \in DOMAIN orders \cup {o} |->
                         IF p = o THEN NewOrder(request[w]) ELSE orders[p]]
         /\ created' = o
         /\ Turn(w, o, Transition("CREATED", "SUBMITTED"), "submit_set")
  /\ request' = [request EXCEPT ![w] = NoRequest]
  /\ UNCHANGED <<positions, trades, external, at, placed, restarts>>

(***************************************************************************)
(* The broker's answer decides the event that ends the submission; the     *)
(* code takes it for granted that the order still is SUBMITTED.            *)
(***************************************************************************)
\* Mutant: whatever the broker answers, the order is acknowledged.
MutantAnswer(w, target, ext) ==
  /\ Goto(w, "place_set")
  /\ event' = [event EXCEPT ![w] = Transition("SUBMITTED", "ACKNOWLEDGED")]
  /\ external' = [external EXCEPT ![w] = ext]
  /\ UNCHANGED <<service, created, request, order, at, restarts>>

Answer(w, target, ext) ==
  /\ Goto(w, "place_set")
  /\ event' = [event EXCEPT ![w] = Transition("SUBMITTED", target)]
  /\ external' = [external EXCEPT ![w] = ext]
  /\ UNCHANGED <<service, created, request, order, at, restarts>>

Hold(o) ==
  placed' = placed \cup
    {[order |-> o, key |-> orders[o].key, quantity |-> orders[o].quantity]}

\* Mutant: the stub's id leaves the idempotency key out.
MutantStubExternalId(o) ==
  [symbol |-> orders[o].symbol, side |-> orders[o].side,
   quantity |-> orders[o].quantity, key |-> NoKey]

\* The stub's id is made of the request's own fields, a live broker's is new.
StubExternalId(o) ==
  [symbol |-> orders[o].symbol, side |-> orders[o].side,
   quantity |-> orders[o].quantity, key |-> orders[o].key]

\* The broker takes the order; a live broker's answer may carry no id.
BrokerAccepts(w) ==
  /\ pc[w] = "place"
  /\ \/ BrokerMode = "stub" /\ Answer(w, "ACKNOWLEDGED", StubExternalId(order[w]))
     \/ BrokerMode = "live" /\ \E ext \in {LiveExternalId(order[w]), NoExternal} :
                                 Answer(w, "ACKNOWLEDGED", ext)
  /\ Hold(order[w])

\* Credentials are missing, or the live broker refuses the order.
BrokerRejects(w) ==
  /\ pc[w] = "place"
  /\ BrokerMode = "live"
  /\ \E ext \in {LiveExternalId(order[w]), NoExternal} : Answer(w, "REJECTED", ext)
  /\ UNCHANGED placed

\* The call of a live broker fails: the broker may hold the order or not.
BrokerFails(w) ==
  /\ pc[w] = "place"
  /\ BrokerMode = "live"
  /\ Answer(w, "ERROR", NoExternal)
  /\ Hold(order[w]) \/ UNCHANGED placed

----------------------------------------------------------------------------
(***************************************************************************)
(* lifecycle_store.append_event: the status (and a new external id) first, *)
(* the history after it.  The index of the event identifies it.            *)
(***************************************************************************)
\* Mutant: the status is left as it was.
MutantWithStatus(stored, status, ext) ==
  [stored EXCEPT !.external = IF ext # NoExternal THEN ext ELSE @]

WithStatus(stored, status, ext) ==
  [stored EXCEPT !.status = status,
                 !.external = IF ext # NoExternal THEN ext ELSE @]

WithEvent(stored, e) == [stored EXCEPT !.history = Append(@, e)]

SetStatus(w) ==
  /\ pc[w] \in SetSteps
  /\ orders' = [orders EXCEPT ![order[w]] =
                  WithStatus(@, event[w].to, external[w])]
  /\ Goto(w, PushOf[pc[w]])
  /\ UNCHANGED <<created, positions, trades, request, order, event, external,
                 at, placed, restarts>>

Push(w) == orders' = [orders EXCEPT ![order[w]] = WithEvent(@, event[w])]

\* Mutant: the request ends with its first event.
MutantPushEvent(w) ==
  /\ pc[w] \in {"submit_push", "cancel_push"}
  /\ Push(w)
  /\ Finish(w)
  /\ UNCHANGED <<positions, trades, created, placed, restarts>>

\* The event is in the history, and the request goes on or ends.
PushEvent(w) ==
  /\ pc[w] \in {"submit_push", "cancel_push"}
  /\ Push(w)
  /\ Goto(w, IF pc[w] = "submit_push" THEN "place" ELSE "cancel_call")
  /\ UNCHANGED <<positions, trades, created, request, order, event, external,
                 at, placed, restarts>>

\* Mutant: an update may end before its fill is booked.
MutantPushLastEvent(w) ==
  /\ pc[w] \in {"place_push", "cancel_ack_push", "modify_push", "update_push"}
  /\ Push(w)
  /\ Finish(w)
  /\ UNCHANGED <<positions, trades, created, placed, restarts>>

PushLastEvent(w) ==
  /\ \/ pc[w] \in {"place_push", "cancel_ack_push", "modify_push"}
     \/ pc[w] = "update_push" /\ ~IsBookable(orders[order[w]], event[w])
  /\ Push(w)
  /\ Finish(w)
  /\ UNCHANGED <<positions, trades, created, placed, restarts>>

\* Of all events only those of broker updates are booked.
PushFill(w) ==
  /\ pc[w] = "update_push"
  /\ IsBookable(orders[order[w]], event[w])
  /\ Push(w)
  /\ at' = [at EXCEPT ![w] = Len(orders[order[w]].history) + 1]
  /\ Goto(w, "position")
  /\ UNCHANGED <<positions, trades, created, request, order, event, external,
                 placed, restarts>>

----------------------------------------------------------------------------
(***************************************************************************)
(* apply_broker_update: validate the update against the status the order   *)
(* has now, append the event, and if it is a fill book it to the position  *)
(* and then to the trade ledger.                                           *)
(***************************************************************************)
\* Mutant: the transition is not validated.
MutantBeginUpdate(w) ==
  /\ Idle(w, "update")
  /\ \E o \in DOMAIN orders, b \in UpdateWords,
        q \in FillQuantities, p \in FillPrices :
       /\ Available(o) /\ HasRoom(o)
       /\ Turn(w, o,
               BrokerTransition(orders[o].status, BROKER_STATUS_MAP[b], q, p),
               "update_set")
  /\ UNCHANGED <<service, created, request, external, at, placed, restarts>>

BeginUpdate(w) ==
  /\ Idle(w, "update")
  /\ \E o \in DOMAIN orders, b \in UpdateWords,
        q \in FillQuantities, p \in FillPrices :
       /\ Available(o) /\ HasRoom(o)
       /\ CanTransition(orders[o].status, BROKER_STATUS_MAP[b])
       /\ Turn(w, o,
               BrokerTransition(orders[o].status, BROKER_STATUS_MAP[b], q, p),
               "update_set")
  /\ UNCHANGED <<service, created, request, external, at, placed, restarts>>

\* An update whose transition is not allowed (or whose order is unknown) is
\* answered with an error and changes nothing.
RejectUpdate(w) ==
  /\ Idle(w, "update")
  /\ \E o \in DOMAIN orders, b \in UpdateWords :
       ~CanTransition(orders[o].status, BROKER_STATUS_MAP[b])
  /\ UNCHANGED vars

\* Mutant: the fill is booked to the positions only.
MutantBookPosition(w) ==
  /\ pc[w] = "position"
  /\ positions' = Append(positions, Fill(order[w], orders[order[w]], at[w]))
  /\ Finish(w)
  /\ UNCHANGED <<orders, trades, created, placed, restarts>>

BookPosition(w) ==
  /\ pc[w] = "position"
  /\ positions' = Append(positions, Fill(order[w], orders[order[w]], at[w]))
  /\ Goto(w, "ledger")
  /\ UNCHANGED <<orders, trades, created, request, order, event, external, at,
                 placed, restarts>>

BookTrade(w) ==
  /\ pc[w] = "ledger"
  /\ trades' = Append(trades, Fill(order[w], orders[order[w]], at[w]))
  /\ Finish(w)
  /\ UNCHANGED <<orders, positions, created, placed, restarts>>

----------------------------------------------------------------------------
(***************************************************************************)
(* cancel_order and modify_order.  A cancel is announced before the broker *)
(* is called, and its outcome is recorded on the assumption that the order *)
(* still is CANCEL_PENDING.  A modification is recorded after the broker   *)
(* was called, from the status the order has by then.  The stub accepts    *)
(* both; a live broker's adapter implements neither.                       *)
(***************************************************************************)
Workable == {"ACKNOWLEDGED", "OPEN", "PARTIALLY_FILLED"}

BeginCancel(w) ==
  /\ Idle(w, "cancel")
  /\ \E o \in DOMAIN orders :
       /\ Available(o) /\ HasRoom(o)
       /\ orders[o].status \in Workable
       /\ Turn(w, o, Transition(orders[o].status, "CANCEL_PENDING"),
               "cancel_set")
  /\ UNCHANGED <<service, created, request, external, at, placed, restarts>>

BrokerTakesAction == BrokerMode = "stub"

CallCancel(w) ==
  /\ pc[w] = "cancel_call"
  /\ Turn(w, order[w],
          Transition("CANCEL_PENDING",
                     IF BrokerTakesAction THEN "CANCELLED" ELSE "ERROR"),
          "cancel_ack_set")
  /\ UNCHANGED <<service, created, request, external, at, placed, restarts>>

BeginModify(w) ==
  /\ Idle(w, "modify")
  /\ \E o \in DOMAIN orders :
       /\ Available(o) /\ HasRoom(o)
       /\ orders[o].status \in Workable
       /\ Turn(w, o, NoEvent, "modify_call")
  /\ UNCHANGED <<service, created, request, external, at, placed, restarts>>

ModifyTarget(o) == IF BrokerTakesAction THEN orders[o].status ELSE "ERROR"

CallModify(w) ==
  /\ pc[w] = "modify_call"
  /\ LET o == order[w]
     IN  /\ CanTransition(orders[o].status, ModifyTarget(o))
         /\ Turn(w, o, Transition(orders[o].status, ModifyTarget(o)),
                 "modify_set")
  /\ UNCHANGED <<service, created, request, external, at, placed, restarts>>

\* The order has reached, meanwhile, a status the event cannot start from:
\* the request ends with an exception, after the broker was called.
ModifyRaises(w) ==
  /\ pc[w] = "modify_call"
  /\ ~CanTransition(orders[order[w]].status, ModifyTarget(order[w]))
  /\ Finish(w)
  /\ UNCHANGED <<service, created, placed, restarts>>

----------------------------------------------------------------------------
(***************************************************************************)
(* The process ends, at any moment, and a new one starts: everything but   *)
(* the broker's own state is gone, as no repository is ever built.  Ids    *)
(* are UUIDs, so those of the new process differ from the old ones.        *)
(***************************************************************************)
Restart ==
  /\ restarts < MaxRestarts
  /\ restarts' = restarts + 1
  /\ orders' = [o \in {} |-> {}]
  /\ positions' = <<>>
  /\ trades' = <<>>
  /\ pc' = [w \in Workers |-> "idle"]
  /\ request' = [w \in Workers |-> NoRequest]
  /\ order' = [w \in Workers |-> NoOrder]
  /\ event' = [w \in Workers |-> NoEvent]
  /\ external' = [w \in Workers |-> NoExternal]
  /\ at' = [w \in Workers |-> 0]
  /\ UNCHANGED <<created, placed>>

\* What clients start, and what a thread does with it.
Begin(w) == \/ BeginSubmit(w) \/ RespondDuplicate(w)
            \/ BeginUpdate(w) \/ RejectUpdate(w)
            \/ BeginCancel(w) \/ BeginModify(w)

Continue(w) == \/ AcceptRisk(w) \/ RejectRisk(w) \/ CreateOrder(w)
               \/ BrokerAccepts(w) \/ BrokerRejects(w) \/ BrokerFails(w)
               \/ SetStatus(w)
               \/ PushEvent(w) \/ PushLastEvent(w) \/ PushFill(w)
               \/ BookPosition(w) \/ BookTrade(w)
               \/ CallCancel(w) \/ CallModify(w) \/ ModifyRaises(w)

Next == (\E w \in Workers : Begin(w) \/ Continue(w)) \/ Restart

Spec == Init /\ [][Next]_vars

\* A thread that serves a request is scheduled until the request ends, as the
\* interpreter's threads are; no client has to make a request.
Fairness == \A w \in Workers : WF_vars(Continue(w))

FairSpec == Spec /\ Fairness
----------------------------------------------------------------------------
FillRecord == [order: OrderIds, index: Nat \ {0}, symbol: Symbols, side: Sides,
               quantity: Int, price: Int]

\* The store, the logs of fills and the private state of every thread have the
\* shape the handlers expect: in particular a thread that is past the creation
\* of its order, or works on an existing one, finds it in the store.
TypeOK ==
  /\ created \in Nat
  /\ DOMAIN orders \subseteq 1..created
  /\ orders \in [DOMAIN orders -> StoredOrder]
  /\ positions \in Seq(FillRecord)
  /\ trades \in Seq(FillRecord)
  /\ pc \in [Workers -> Steps]
  /\ request \in [Workers -> Requests]
  /\ order \in [Workers -> OrderIds \cup {NoOrder}]
  /\ \A w \in Workers : IF pc[w] \in {"idle", "risk", "create"}
                          THEN order[w] = NoOrder
                          ELSE order[w] \in DOMAIN orders
  /\ event \in [Workers -> OrderEvent]
  /\ external \in [Workers -> ExternalIds]
  /\ at \in [Workers -> Nat]
  /\ placed \subseteq [order: OrderIds, key: Keys, quantity: Nat]
  /\ restarts \in Nat

(***************************************************************************)
(* What holds whatever the threads do.                                     *)
(***************************************************************************)

\* History: every event of every order is one the state machine allows, though
\* a thread may append an event it built from a status that is out of date.
HistoryLegal ==
  \A o \in DOMAIN orders : \A i \in 1..Len(orders[o].history) :
    CanTransition(orders[o].history[i].from, orders[o].history[i].to)

Booked(log, o, i) == \E n \in 1..Len(log) : log[n].order = o /\ log[n].index = i

\* A thread that has appended event i of order o and has not yet booked it.
AboutToBook(step, o, i) ==
  \E w \in Workers : pc[w] = step /\ order[w] = o /\ at[w] = i

BookedOnce(log) ==
  \A m, n \in 1..Len(log) :
    log[m].order = log[n].order /\ log[m].index = log[n].index => m = n

\* What is booked is the fill of an event in the store, with its quantity.
BookedFillsAreReal(log) == \A n \in 1..Len(log) : IsRealFill(orders, log[n])

NoFillForgotten ==
  \A o \in DOMAIN orders : \A i \in 1..Len(orders[o].history) :
    IsBookable(orders[o], orders[o].history[i]) =>
      /\ Booked(positions, o, i) \/ AboutToBook("position", o, i)
      /\ Booked(trades, o, i) \/ AboutToBook("position", o, i)
                              \/ AboutToBook("ledger", o, i)

\* Fills: however the requests interleave, each priced FILLED event reaches the
\* positions and the trade ledger exactly once, neither forgotten nor repeated
\* nor attributed to another order, unless the thread between two steps is
\* still to book it.
FillsAccounted ==
  /\ BookedOnce(positions) /\ BookedOnce(trades)
  /\ BookedFillsAreReal(positions) /\ BookedFillsAreReal(trades)
  /\ NoFillForgotten

(***************************************************************************)
(* What holds when clients are serial.  Requests about different orders    *)
(* still interleave.                                                       *)
(***************************************************************************)
StatusAfter(history) ==
  IF history = <<>> THEN "CREATED" ELSE history[Len(history)].to

BeingAppended(o) == \E w \in Workers : order[w] = o /\ pc[w] \in PushSteps

\* Lifecycle: each event starts from the status the one before it led to, and
\* the status of the order is where its history ends, except inside
\* append_event.
HistoryIsChain ==
  \A o \in DOMAIN orders :
    /\ \A i \in 1..Len(orders[o].history) :
         orders[o].history[i].from = StatusAfter(SubSeq(orders[o].history, 1, i - 1))
    /\ ~BeingAppended(o) => orders[o].status = StatusAfter(orders[o].history)

\* Idempotency: at most one order of each idempotency key reaches the broker.
OneBrokerOrderPerKey ==
  \A p, q \in placed : p.key = q.key /\ p.key # NoKey => p = q

\* lifecycle_store.find_by_external_order_id: the first match.
FindByExternalOrderId(ext) ==
  LET matches == {o \in DOMAIN orders : orders[o].external = ext}
  IN  CHOOSE o \in matches : \A p \in matches : o <= p

\* Broker updates that name an order by the broker's id reach that order.
ExternalIdFindsOwnOrder ==
  \A o \in DOMAIN orders :
    orders[o].external # NoExternal =>
      FindByExternalOrderId(orders[o].external) = o

\* Reconciliation: an order the books show as working, filled or cancelled is
\* one the broker holds (or held).
WorkingOrdersArePlaced ==
  \A o \in DOMAIN orders :
    orders[o].status \in {"ACKNOWLEDGED", "OPEN", "PARTIALLY_FILLED",
                          "CANCEL_PENDING", "FILLED", "CANCELLED"}
      => \E p \in placed : p.order = o

\* Lifecycle: every change of an order's status is an allowed transition; in
\* particular nothing moves an order out of FILLED, CANCELLED or REJECTED.
StatusMovesLegally ==
  [][\A o \in DOMAIN orders \cap DOMAIN orders' :
       orders'[o].status # orders[o].status =>
         CanTransition(orders[o].status, orders'[o].status)]_vars

\* Refinement: the statuses of the orders and the orders of the bookings of
\* the positions, whatever the threads do in between, behave as OrderBook says.
Book == INSTANCE OrderBook WITH
          status <- [o \in DOMAIN orders |-> orders[o].status],
          booked <- [n \in 1..Len(positions) |-> positions[n].order]

ImplementsOrderBook == Book!Spec

(***************************************************************************)
(* What eventually happens when the process does not end.                  *)
(***************************************************************************)
\* A submission is never left without the broker's answer in the books.
SubmissionsAnswered ==
  \A o \in 1..MaxOrders :
    (o \in DOMAIN orders /\ orders[o].status \in {"CREATED", "SUBMITTED"})
      ~> (o \in DOMAIN orders /\ orders[o].status \notin {"CREATED", "SUBMITTED"})

\* A cancellation that was announced is concluded.
CancelsConcluded ==
  \A o \in 1..MaxOrders :
    (o \in DOMAIN orders /\ orders[o].status = "CANCEL_PENDING")
      ~> (o \in DOMAIN orders /\ orders[o].status # "CANCEL_PENDING")

\* The trade ledger catches up with the positions.
LedgerCatchesUp == []<>(Len(trades) = Len(positions))
=============================================================================
