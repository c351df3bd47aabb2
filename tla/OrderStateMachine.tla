------------------------- MODULE OrderStateMachine -------------------------
(***************************************************************************)
(* The order lifecycle of the execution service: the statuses an order can *)
(* be in, the transitions between them, and how the words a broker uses    *)
(* for the state of an order are mapped to statuses                        *)
(* (services/execution_service/app/order_state_machine.py).                *)
(*                                                                         *)
(* There is no state here.  The lifecycle of an order is a history of      *)
(* events; an event records the status the order was believed to have when *)
(* the event was built, and the status it moves to.                        *)
(***************************************************************************)
EXTENDS Integers

OrderStatus ==
  {"CREATED", "SUBMITTED", "ACKNOWLEDGED", "OPEN", "PARTIALLY_FILLED",
   "CANCEL_PENDING", "FILLED", "CANCELLED", "REJECTED", "ERROR"}

TERMINAL_STATES == {"FILLED", "CANCELLED", "REJECTED"}

ALLOWED_TRANSITIONS ==
  [s \in OrderStatus |->
     CASE s = "CREATED" -> {"SUBMITTED", "REJECTED", "ERROR"}
       [] s = "SUBMITTED" -> {"ACKNOWLEDGED", "OPEN", "REJECTED", "ERROR"}
       [] s = "ACKNOWLEDGED" ->
            {"ACKNOWLEDGED", "OPEN", "PARTIALLY_FILLED", "CANCEL_PENDING",
             "CANCELLED", "REJECTED", "ERROR"}
       [] s = "OPEN" ->
            {"OPEN", "PARTIALLY_FILLED", "FILLED", "CANCEL_PENDING",
             "CANCELLED", "REJECTED", "ERROR"}
       [] s = "PARTIALLY_FILLED" ->
            {"PARTIALLY_FILLED", "FILLED", "CANCEL_PENDING", "CANCELLED",
             "ERROR"}
       [] s = "CANCEL_PENDING" ->
            {"CANCELLED", "PARTIALLY_FILLED", "FILLED", "ERROR"}
       [] OTHER -> {}]

CanTransition(current, target) == target \in ALLOWED_TRANSITIONS[current]

----------------------------------------------------------------------------
\* The words of a broker, after normalize_broker_status has trimmed them, put
\* them in upper case and replaced "-" by "_".
BrokerWords ==
  {"TRANSIT", "PENDING", "TRIGGER PENDING", "PUT ORDER REQ RECEIVED",
   "VALIDATION PENDING", "NEW", "OPEN", "PARTIALLY_FILLED",
   "PARTIALLY FILLED", "FILLED", "COMPLETE", "CANCELLED", "CANCELED",
   "REJECTED", "FAILED", "ERROR"}

BROKER_STATUS_MAP ==
  [b \in BrokerWords |->
     CASE b = "NEW" -> "ACKNOWLEDGED"
       [] b = "OPEN" -> "OPEN"
       [] b \in {"PARTIALLY_FILLED", "PARTIALLY FILLED"} -> "PARTIALLY_FILLED"
       [] b \in {"FILLED", "COMPLETE"} -> "FILLED"
       [] b \in {"CANCELLED", "CANCELED"} -> "CANCELLED"
       [] b = "REJECTED" -> "REJECTED"
       [] b \in {"FAILED", "ERROR"} -> "ERROR"
       [] OTHER -> "SUBMITTED"]

----------------------------------------------------------------------------
\* OrderEvent: what transition() returns.  A price of 0 is an absent price.
OrderEvent == [from: OrderStatus, to: OrderStatus, quantity: Int, price: Int]

Transition(current, target) ==
  [from |-> current, to |-> target, quantity |-> 0, price |-> 0]

BrokerTransition(current, target, filledQty, avgPrice) ==
  [from |-> current, to |-> target, quantity |-> filledQty, price |-> avgPrice]
=============================================================================
