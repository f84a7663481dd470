--------------------------- MODULE OrderPipeline ---------------------------
(***************************************************************************)
(* The service from POST /orders to the notification, composed of its      *)
(* parts: the transactions of the calls (OrderService), the outbox workers *)
(* (OutboxPublisher) and the consumer group (NotificationConsumer).  They  *)
(* meet in two places: the transaction that records an order inserts its   *)
(* outbox row, and a copy of the row that reaches the topic is a record    *)
(* the group will read.                                                    *)
(***************************************************************************)
EXTENDS Naturals, Sequences, FiniteSets

CONSTANTS
    Requests, IdemKeys, ProductIds, MaxId, Baskets, Supply, Price, MaxAmount, PoolSize,
    Workers, BatchSize, MaxAttempts, BackoffBase, BackoffCap, MaxLosses,
    Consumers, ConsumerMaxAttempts, MaxWaits, MaxFaults, LogSize, Nobody

\* What the parts suppose; an order's name is also that of its outbox row.
ASSUME PipelineAssumption ==
    /\ MaxId \in Nat /\ ProductIds \subseteq 0..MaxId
    /\ Supply \in [ProductIds -> Nat] /\ Price \in [ProductIds -> Nat]
    /\ \A items \in Baskets :
          /\ DOMAIN items \subseteq ProductIds
          /\ DOMAIN items # {} /\ IsFiniteSet(DOMAIN items)
          /\ items \in [DOMAIN items -> Nat \ {0}]
    /\ MaxAmount \in Nat /\ PoolSize \in Nat \ {0}
    /\ Requests \subseteq Nat /\ IsFiniteSet(Workers)
    /\ BatchSize \in Nat \ {0} /\ MaxAttempts \in Nat \ {0}
    /\ BackoffBase \in Nat \ {0} /\ BackoffCap \in Nat \ {0}
    /\ MaxLosses \in Nat
    /\ LogSize \in Nat /\ ConsumerMaxAttempts \in Nat \ {0} /\ MaxWaits \in Nat \ {0}
    /\ MaxFaults \in Nat /\ Nobody \notin Consumers

VARIABLES
    body, catalog, stock, orders, outbox, phase, locked, seen, returned,
    status, attempts, due, pc, batch, connected, elapsed, sent, copies, stray, losses,
    log, stored, dlq, committed, owner, doing, position, last, fetched, unexpected, waits, stop,
    faults

\* An order, its outbox row and its event have the name of the request that
\* created the order.
Service == INSTANCE OrderService
Publisher == INSTANCE OutboxPublisher WITH Rows <- Requests
Consumer == INSTANCE NotificationConsumer
    WITH Events <- Requests, MaxAttempts <- ConsumerMaxAttempts, pc <- doing

serviceVars == <<body, catalog, stock, orders, outbox, phase, locked, seen, returned>>
publisherVars == <<status, attempts, due, pc, batch, connected, elapsed, sent, copies, stray,
                   losses>>
consumerVars == <<log, stored, dlq, committed, owner, doing, position, last, fetched, unexpected,
                  waits, stop, faults>>
vars == <<serviceVars, publisherVars, consumerVars>>

-----------------------------------------------------------------------------

\* What the consumer makes of the envelope of row m.
OrderRecord(m) == [kind |-> "order", event |-> m]

Init ==
    /\ Service!Init
    /\ Publisher!Init
    /\ Consumer!Init

\* Mistake: the outbox row is written though the order was rolled back.
CommitEventOnly(r) ==
    /\ Publisher!Insert(r)
    /\ UNCHANGED <<serviceVars, consumerVars>>

\* The order and its outbox row commit together.
Commit(r) ==
    /\ Service!Commit(r) \/ Service!CommitUnacknowledged(r)
    /\ Publisher!Insert(r)
    /\ UNCHANGED consumerVars

\* A call takes any other step, or a product is created.
Serve ==
    /\ Service!Next /\ UNCHANGED outbox
    /\ UNCHANGED <<publisherVars, consumerVars>>

\* The broker appends a record of row m to the topic.
Arrive(m) ==
    /\ Publisher!StrayArrives(m) \/ \E w \in Workers : Publisher!Append(w, m)
    /\ copies' # copies
    /\ Consumer!Produce(OrderRecord(m))
    /\ UNCHANGED serviceVars

\* The workers, the clock and the broker do anything else.
Publish ==
    /\ Publisher!Publishing /\ UNCHANGED copies
    /\ UNCHANGED <<serviceVars, consumerVars>>

Consume(c) ==
    /\ Consumer!MemberNext(c)
    /\ UNCHANGED <<serviceVars, publisherVars>>

Next ==
    \/ \E r \in Requests : Commit(r) \/ Arrive(r)
    \/ Serve
    \/ Publish
    \/ \E c \in Consumers : Consume(c)

Spec == Init /\ [][Next]_vars

FairSpec == Spec /\ Publisher!Fairness /\ Consumer!Fairness

-----------------------------------------------------------------------------
(* Properties.                                                             *)

Notified(o) == stored[o] > 0

DeadLettered(o) == \E i \in dlq : log[i] = OrderRecord(o)

\* No event is lost between the parts: once a row is marked published, and
\* will never be sent again, its notification exists or its dead letter, or a
\* copy lies where the group has still to read.
PublishedIsNotLost ==
    \A o \in Requests : status[o] = "published" =>
        \/ Notified(o) \/ DeadLettered(o)
        \/ \E i \in committed..Len(log) : log[i] = OrderRecord(o)

\* However often a client repeats a call and whatever repeats its event, the
\* customer is notified once for the idempotency key, and of the order that
\* every answer to the calls with that key shows.
NotifiedOncePerKey ==
    \A o \in Requests : Notified(o) =>
        /\ stored[o] = 1
        /\ \A r \in Requests : body[o].key = body[r].key =>
              /\ r # o => ~ Notified(r)
              /\ returned[r] \subseteq {o}

-----------------------------------------------------------------------------
(* The inductive invariant behind the two.                                  *)

\* What the topic has received, the partition holds.
TopicInv ==
    \A m \in Requests : copies[m] > 0 => \E i \in 1..Len(log) : log[i] = OrderRecord(m)

\* An order has its row from the moment it is recorded, and rows, sends,
\* records and notifications are of recorded orders only.
EventInv ==
    /\ \A m \in orders : status[m] # "absent"
    /\ \A m \in Requests : m \notin orders =>
          /\ status[m] = "absent" /\ stray[m] = 0 /\ stored[m] = 0
          /\ \A w \in Workers : sent[w][m] = "none"
    /\ \A i \in 1..Len(log) : \E m \in orders : log[i] = OrderRecord(m)

\* What every reachable state satisfies; the proofs use this strengthening.
PipelineInv ==
    /\ Service!TransactionInv
    /\ Publisher!PublisherInv
    /\ Consumer!ConsumerInv /\ Consumer!NotifiedOnce
    /\ TopicInv /\ EventInv

-----------------------------------------------------------------------------

Parked == {o \in Requests : status[o] = "failed" \/ DeadLettered(o)}

\* The pipeline keeps the promise of OrderDelivery: an order is placed, then
\* notified at most once; it is given up visibly; and every order that is
\* placed ends in one of the two.
Delivery == INSTANCE OrderDelivery
    WITH Orders <- Requests, placed <- orders, notifications <- stored,
         parked <- Parked

ImplementsDelivery == Delivery!DeliverySpec

=============================================================================
