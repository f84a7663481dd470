---------------------------- MODULE OrderLedger ----------------------------
(***************************************************************************)
(* What POST /orders promises, with no transactions in sight: each request *)
(* is answered by ONE atomic step against the committed tables.  A step    *)
(* either takes the whole basket off the shelf and records the order with  *)
(* its outbox row, or answers with an order recorded earlier under the     *)
(* same (customer, idempotency key), or changes nothing but the answer.    *)
(*                                                                         *)
(* OrderService.tla models the transactions that implement this.           *)
(***************************************************************************)
EXTENDS Naturals, FiniteSets

CONSTANTS
    Requests,      \* the POST /orders calls; an order is named by the call that created it
    ProductIds,    \* product ids, ordered as Postgres orders uuids
    Supply         \* Supply[p] is the stock product p is created with

VARIABLES
    body,       \* body[r] = [key |-> (customer, idempotency key), items |-> product -> quantity]
    catalog,    \* the products created so far
    stock,      \* products.stock
    orders,     \* the committed orders, by the request that created each
    outbox,     \* the orders that have a row in outbox_messages
    answer,     \* answer[r]: "pending", or the answer sent to r
    returned    \* returned[r]: the order shown in the answer (at most one)

ledgerVars == <<body, catalog, stock, orders, outbox, answer, returned>>

-----------------------------------------------------------------------------

SameKey(o, r) == body[o].key = body[r].key

Ordered(r) == DOMAIN body[r].items

LedgerInit ==
    /\ catalog = {}
    /\ stock = [p \in ProductIds |-> 0]
    /\ orders = {} /\ outbox = {}
    /\ answer = [r \in Requests |-> "pending"]
    /\ returned = [r \in Requests |-> {}]

\* A product enters the catalog with its whole supply.
CreateProduct(p) ==
    /\ p \notin catalog
    /\ catalog' = catalog \union {p}
    /\ stock' = [stock EXCEPT ![p] = Supply[p]]
    /\ UNCHANGED <<body, orders, outbox, answer, returned>>

\* Nothing happens but the answer.
Answer(r, verdict, shown) ==
    /\ answer[r] = "pending"
    /\ answer' = [answer EXCEPT ![r] = verdict]
    /\ returned' = [returned EXCEPT ![r] = shown]
    /\ UNCHANGED <<body, catalog, stock, orders, outbox>>

\* The unique constraint on customer_id and idempotency_key.
KeyIsFree(r) == \A o \in orders : ~ SameKey(o, r)

\* The basket is taken, the order and its outbox row are recorded; the
\* answer says so, or is lost with the connection ("error").
Place(r, verdict, shown) ==
    /\ answer[r] = "pending"
    /\ KeyIsFree(r)
    /\ \A p \in Ordered(r) : p \in catalog /\ body[r].items[p] <= stock[p]
    /\ \/ verdict = "created" /\ shown = {r}
       \/ verdict = "error" /\ shown = {}
    /\ stock' = [p \in ProductIds |->
                    IF p \in Ordered(r) THEN stock[p] - body[r].items[p] ELSE stock[p]]
    /\ orders' = orders \union {r}
    /\ outbox' = outbox \union {r}
    /\ answer' = [answer EXCEPT ![r] = verdict]
    /\ returned' = [returned EXCEPT ![r] = shown]
    /\ UNCHANGED <<body, catalog>>

\* The same call again: the recorded order is shown.
Replay(r) ==
    \E o \in orders :
        /\ SameKey(o, r) /\ body[o].items = body[r].items
        /\ Answer(r, "replayed", {o})

\* The key was used for another basket.
RefuseKey(r) ==
    /\ \E o \in orders : SameKey(o, r) /\ body[o].items # body[r].items
    /\ Answer(r, "key_conflict", {})

RefuseUnknown(r) ==
    /\ \E p \in Ordered(r) : p \notin catalog
    /\ Answer(r, "products_not_found", {})

RefuseShortage(r) ==
    /\ \E p \in Ordered(r) : p \in catalog /\ stock[p] < body[r].items[p]
    /\ Answer(r, "insufficient_stock", {})

\* A 500: nothing was recorded.
GiveUp(r) == Answer(r, "error", {})

LedgerNext ==
    \/ \E p \in ProductIds : CreateProduct(p)
    \/ \E r \in Requests :
        \/ Place(r, "created", {r})
        \/ Place(r, "error", {})
        \/ Replay(r)
        \/ RefuseKey(r)
        \/ RefuseUnknown(r)
        \/ RefuseShortage(r)
        \/ GiveUp(r)

LedgerSpec == LedgerInit /\ [][LedgerNext]_ledgerVars

=============================================================================
