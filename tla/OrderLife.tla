------------------------------ MODULE OrderLife ------------------------------
(***************************************************************************)
(* What the billing service promises of an order, without the statements,  *)
(* coupons, clocks and requests of Orders: an order is taken by handlers   *)
(* while it is pending, and only a handler that took it then may settle,   *)
(* deliver or cancel it, once.  Orders implements this.                    *)
(***************************************************************************)
EXTENDS Naturals

CONSTANTS
    Order,     \* order numbers
    Handler    \* requests the processes serve at one time

VARIABLES
    stage,     \* the status that the order shows
    delivered, \* how often the user got what the order is for
    holders    \* the handlers that found it pending and are not done with it

lifeVars == <<stage, delivered, holders>>

LifeInit ==
    /\ stage = [o \in Order |-> "absent"]
    /\ delivered = [o \in Order |-> 0]
    /\ holders = [o \in Order |-> {}]

Pending == {o \in Order : stage[o] = "pending"}

Open(o) ==
    /\ stage[o] = "absent"
    /\ stage' = [stage EXCEPT ![o] = "pending"]
    /\ UNCHANGED <<delivered, holders>>

\* A call finds the order pending; a handler has one order at a time.
Take(h, o) ==
    /\ o \in Pending
    /\ \A p \in Order : h \notin holders[p]
    /\ holders' = [holders EXCEPT ![o] = @ \cup {h}]
    /\ UNCHANGED <<stage, delivered>>

\* A handler that took the order says that it is paid.
Settle(h, o) ==
    /\ h \in holders[o]
    /\ stage' = [stage EXCEPT ![o] = "paid"]
    /\ UNCHANGED <<delivered, holders>>

GiveUp(h, o) == holders' = [holders EXCEPT ![o] = @ \ {h}]

\* What was paid for is delivered, also if another call cancelled meanwhile.
Hand(h, o) ==
    /\ h \in holders[o]
    /\ stage[o] \in {"paid", "cancelled"}
    /\ delivered' = [delivered EXCEPT ![o] = @ + 1]
    /\ GiveUp(h, o)
    /\ UNCHANGED stage

Cancel(h, o) ==
    /\ h \in holders[o]
    /\ stage' = [stage EXCEPT ![o] = "cancelled"]
    /\ GiveUp(h, o)
    /\ UNCHANGED delivered

\* The handler is lost, or its statement failed.
Drop(h, o) ==
    /\ h \in holders[o]
    /\ GiveUp(h, o)
    /\ UNCHANGED <<stage, delivered>>

\* The sweep ends pending orders only, held or not.
Expire(S) ==
    /\ stage' = [o \in Order |-> IF o \in S THEN "expired" ELSE stage[o]]
    /\ UNCHANGED <<delivered, holders>>

LifeNext ==
    \/ \E o \in Order : Open(o)
    \/ \E h \in Handler, o \in Order :
        Take(h, o) \/ Settle(h, o) \/ Hand(h, o) \/ Cancel(h, o) \/ Drop(h, o)
    \/ \E S \in SUBSET Pending : Expire(S)

LifeSpec == LifeInit /\ [][LifeNext]_lifeVars
=============================================================================
