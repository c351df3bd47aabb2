----------------------------- MODULE BrokerFeed -----------------------------
(***************************************************************************)
(* The execution service in front of a live broker that fills and cancels  *)
(* the orders it holds and reports on them: ExecutionService, with updates *)
(* that are not made up by clients but are the broker's messages.  Every   *)
(* message names the order by the broker's own id and carries the quantity *)
(* filled so far.  Messages stay on the wire: they may be taken late, out  *)
(* of order, many times or never (apply_broker_update and update_consumer  *)
(* keep no record of the messages they have seen).                         *)
(*                                                                         *)
(* The broker is external; it is modelled from what the service takes from *)
(* its updates.                                                            *)
(***************************************************************************)
EXTENDS ExecutionService

\* No id of the broker's is taken for an absent one.
ASSUME FeedAssumption == BrokerMode = "live" /\ NoExternal \notin [live : Nat]

VARIABLES
  filled, \* the broker's books: order -> quantity filled, for those with fills
  wire,   \* the messages the broker has sent
  raced   \* orders two requests worked on together (for the properties only)

feedVars == <<filled, wire, raced>>

FilledAtBroker(o) == IF o \in DOMAIN filled THEN filled[o] ELSE 0
Ordered(o) == (CHOOSE p \in placed : p.order = o).quantity

Sent(o, status) ==
  \E m \in wire : m.external = LiveExternalId(o) /\ m.status = status
Done(o) == Sent(o, "FILLED") \/ Sent(o, "CANCELLED")

Report(o, status) ==
  wire' = wire \cup {[external |-> LiveExternalId(o), status |-> status,
                      quantity |-> FilledAtBroker(o)', price |-> 1]}

-----------------------------------------------------------------------------
FeedInit == Init /\ filled = [o \in {} |-> 0] /\ wire = {} /\ raced = {}

BrokerOpens(o) == ~Sent(o, "OPEN") /\ UNCHANGED filled /\ Report(o, "OPEN")

BrokerFills(o) ==
  \E q \in FilledAtBroker(o) + 1 .. Ordered(o) :
    /\ filled' = [p \in DOMAIN filled \cup {o} |-> IF p = o THEN q ELSE filled[p]]
    /\ Report(o, IF q = Ordered(o) THEN "FILLED" ELSE "PARTIALLY_FILLED")

BrokerCancels(o) == UNCHANGED filled /\ Report(o, "CANCELLED")

BrokerStep ==
  /\ \E p \in placed : /\ ~Done(p.order)
                       /\ \/ BrokerOpens(p.order) \/ BrokerFills(p.order)
                          \/ BrokerCancels(p.order)
  /\ UNCHANGED <<vars, raced>>

\* consume_broker_update, normalize and _resolve_order_id_for_update: a message
\* whose id the service does not know, or whose transition its order does not
\* allow, is answered with an error and changes nothing.
Resolves(m, o) == orders[o].external = m.external /\ FindByExternalOrderId(m.external) = o

MutantTakeMessage(w) ==
  /\ Idle(w, "update")
  /\ \E m \in wire : \E o \in DOMAIN orders :
       /\ Resolves(m, o) /\ Available(o) /\ HasRoom(o)
       /\ Turn(w, o, BrokerTransition(orders[o].status, m.status, m.quantity, m.price),
               "update_set")
  /\ UNCHANGED <<service, created, request, external, at, placed, restarts>>
TakeMessage(w) ==
  /\ Idle(w, "update")
  /\ \E m \in wire : \E o \in DOMAIN orders :
       /\ Resolves(m, o) /\ Available(o) /\ HasRoom(o)
       /\ CanTransition(orders[o].status, m.status)
       /\ Turn(w, o, BrokerTransition(orders[o].status, m.status, m.quantity, m.price),
               "update_set")
  /\ UNCHANGED <<service, created, request, external, at, placed, restarts>>

ServiceStep ==
  \/ \E w \in Workers : \/ BeginSubmit(w) \/ TakeMessage(w)
                        \/ BeginCancel(w) \/ BeginModify(w) \/ Continue(w)
  \/ Restart

Together ==
  {o \in DOMAIN orders' : \E v, w \in Workers : v # w /\ order'[v] = o /\ order'[w] = o}

FeedNext ==
  \/ ServiceStep /\ raced' = raced \cup Together /\ UNCHANGED <<filled, wire>>
  \/ BrokerStep

FeedSpec == FeedInit /\ [][FeedNext]_<<vars, feedVars>>

-----------------------------------------------------------------------------
\* The quantity booked to the positions for an order.
BookedQuantity(o) ==
  Total([n \in DOMAIN positions |-> IF positions[n].order = o THEN positions[n].quantity ELSE 0])

\* Whatever the wire does with messages, an order that no two requests worked on
\* together is never booked for more than the broker has filled of it: neither
\* a message taken twice nor a partial fill followed by the whole one counts
\* twice.
BookedWithinBroker ==
  \A o \in 1..created \ raced : BookedQuantity(o) <= FilledAtBroker(o)

\* And where the service says how such an order ended, the broker agrees: FILLED
\* is filled, and booked, to its whole quantity, CANCELLED is cancelled.  (A
\* partial fill of a cancelled order is booked nowhere.)
EndsAgree ==
  \A o \in DOMAIN orders \ raced :
    (\A w \in Workers : order[w] # o) =>
      /\ orders[o].status = "FILLED" =>
           FilledAtBroker(o) = orders[o].quantity /\ BookedQuantity(o) = orders[o].quantity
      /\ orders[o].status = "CANCELLED" => Sent(o, "CANCELLED") /\ BookedQuantity(o) = 0
=============================================================================
