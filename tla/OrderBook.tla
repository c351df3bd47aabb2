------------------------------ MODULE OrderBook ------------------------------
(***************************************************************************)
(* What the execution service promises of its orders, without threads,     *)
(* messages or a broker: an order has one status, which moves as the state *)
(* machine allows and in one step, and the fill of an order is booked at   *)
(* most once, when the order has been filled.  ExecutionService implements *)
(* this specification when its clients are serial.                         *)
(***************************************************************************)
EXTENDS OrderStateMachine, Sequences

VARIABLES
  created, \* how many orders there ever were; an order's id is its rank
  status,  \* the status of every order there is
  booked   \* the orders whose fill was booked, in the order of the bookings

vars == <<created, status, booked>>

Init == created = 0 /\ status = [o \in {} |-> {}] /\ booked = <<>>

Create ==
  /\ created' = created + 1
  /\ status' = [o \in DOMAIN status \cup {created'} |->
                  IF o = created' THEN "CREATED" ELSE status[o]]
  /\ UNCHANGED booked

Move(o, target) ==
  /\ CanTransition(status[o], target)
  /\ status' = [status EXCEPT ![o] = target]
  /\ UNCHANGED <<created, booked>>

Book(o) ==
  /\ status[o] = "FILLED"
  /\ \A n \in 1..Len(booked) : booked[n] # o
  /\ booked' = Append(booked, o)
  /\ UNCHANGED <<created, status>>

\* A new process knows nothing of the orders of the old one.
Forget ==
  /\ status' = [o \in {} |-> {}]
  /\ booked' = <<>>
  /\ UNCHANGED created

Next == \/ Create
        \/ \E o \in DOMAIN status : Book(o) \/ \E s \in OrderStatus : Move(o, s)
        \/ Forget

Spec == Init /\ [][Next]_vars
=============================================================================
