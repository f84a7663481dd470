--------------------------- MODULE OrderDelivery ---------------------------
(***************************************************************************)
(* What the whole service promises about an order: once it is placed it is *)
(* notified, at most once, or it is parked where an operator finds it (a   *)
(* failed outbox row, the dead letter queue), and one of the two happens.  *)
(*                                                                         *)
(* OrderPipeline.tla models the programs that implement this.              *)
(***************************************************************************)
EXTENDS Naturals

CONSTANT Orders

VARIABLES
    placed,          \* the orders recorded
    notifications,   \* notifications[o]: how often o has been notified
    parked           \* the orders given up on, once at least

deliveryVars == <<placed, notifications, parked>>

DeliveryInit ==
    /\ placed = {}
    /\ notifications = [o \in Orders |-> 0]
    /\ parked = {}

PlaceOrder(o) ==
    /\ placed' = placed \union {o}
    /\ UNCHANGED <<notifications, parked>>

Notify(o) ==
    /\ o \in placed /\ notifications[o] = 0
    /\ notifications' = [notifications EXCEPT ![o] = 1]
    /\ UNCHANGED <<placed, parked>>

\* A parked order may have been notified, or be notified later: failing and
\* having failed are told apart by nobody.
Park(S) ==
    /\ S \subseteq placed
    /\ parked' = parked \union S
    /\ UNCHANGED <<placed, notifications>>

DeliveryNext ==
    \/ \E o \in Orders : PlaceOrder(o) \/ Notify(o)
    \/ \E S \in SUBSET Orders : Park(S)

Delivered(o) == notifications[o] > 0 \/ o \in parked

DeliverySafety == DeliveryInit /\ [][DeliveryNext]_deliveryVars

DeliverySpec ==
    /\ DeliverySafety
    /\ \A o \in Orders : o \in placed ~> Delivered(o)

=============================================================================
