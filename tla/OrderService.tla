---------------------------- MODULE OrderService ----------------------------
(***************************************************************************)
(* POST /orders and POST /products (src/app/services/order_service.py and  *)
(* product_service.py over Postgres, READ COMMITTED).  Any number of       *)
(* requests run at once; each statement of a transaction is one step.      *)
(*                                                                         *)
(* The database is kept as its committed rows plus what Postgres holds for *)
(* each open transaction: the uncommitted orders row (which makes a second *)
(* insert of the same key wait) and the row locks of SELECT ... FOR UPDATE.*)
(* A request's uncommitted writes are applied by its commit.               *)
(***************************************************************************)
EXTENDS Naturals, FiniteSets, Functions

CONSTANTS
    Requests,      \* POST /orders calls; uuid4 ids are fresh, so a call names its order
    IdemKeys,      \* (customer_id, Idempotency-Key) pairs
    ProductIds,    \* product ids, as naturals: ORDER BY id needs an order on them
    MaxId,         \* the largest id (a uuid has 128 bits)
    Baskets,       \* item lists, as functions from products to quantities
    Supply,        \* Supply[p]: the stock p is created with
    Price,         \* Price[p]: the price p is created with, in cents
    MaxAmount,     \* the largest amount Numeric(12, 2) holds, in cents
    PoolSize       \* database connections: pool_size + max_overflow

ASSUME ProductAssumption ==
    /\ MaxId \in Nat
    /\ ProductIds \subseteq 0..MaxId
    /\ Supply \in [ProductIds -> Nat]
    /\ Price \in [ProductIds -> Nat]

\* OrderCreate: at least one item, positive quantities, no product twice.
ASSUME BasketAssumption ==
    \A items \in Baskets :
        /\ DOMAIN items \subseteq ProductIds
        /\ DOMAIN items # {} /\ IsFiniteSet(DOMAIN items)
        /\ items \in [DOMAIN items -> Nat \ {0}]

ASSUME LimitAssumption == MaxAmount \in Nat /\ PoolSize \in Nat \ {0}

VARIABLES
    body,       \* body[r]: the key and the basket of call r
    catalog,    \* committed rows of products
    stock,      \* products.stock, committed
    orders,     \* committed rows of orders, by the call that created each
    outbox,     \* committed rows of outbox_messages, by order
    phase,      \* phase[r]: the statement call r executes next, or its answer
    locked,     \* locked[r]: the products rows call r has locked
    seen,       \* seen[r][p]: the stock call r read when it locked p
    returned    \* returned[r]: the order shown in r's answer

vars == <<body, catalog, stock, orders, outbox, phase, locked, seen, returned>>
tables == <<catalog, stock, orders, outbox>>

InTransaction == {"insert", "lock", "commit"}
Active == {"begin", "recover"} \union InTransaction
Answers == {"created", "replayed", "products_not_found", "insufficient_stock",
            "key_conflict", "integrity_error", "error"}

Bodies == [key : IdemKeys, items : Baskets]

Nothing == [p \in ProductIds |-> 0]

-----------------------------------------------------------------------------
(* What a statement sees.                                                  *)

Ordered(r) == DOMAIN body[r].items

\* find_by_idempotency_key: the committed order with r's key.
Existing(r) == {o \in orders : body[o].key = body[r].key}

\* Mistake: the fingerprint is not compared.
AnyRequest(o, r) == TRUE

\* request_hash covers the customer and the sorted items; with equal keys
\* (the customer is part of the key) it says that the baskets are equal.
SameRequest(o, r) == body[o].items = body[r].items

\* Mistake: a key stays taken after its transaction has failed.
KeyHoldersForever(r) ==
    {q \in Requests \ {r} : phase[q] \in {"lock", "commit", "error"} /\ body[q].key = body[r].key}

\* Open transactions that have inserted an orders row with r's key.
KeyHolders(r) ==
    {q \in Requests \ {r} : phase[q] \in {"lock", "commit"} /\ body[q].key = body[r].key}

\* The rows lock_by_ids finds.
Wanted(r) == Ordered(r) \intersect catalog

LockedByOthers(r) == UNION {locked[q] : q \in Requests \ {r}}

\* An engine with every connection checked out makes the next request wait.
ConnectionFree == Cardinality({r \in Requests : phase[r] \in InTransaction}) < PoolSize

Amount(items) == SumFunction([p \in DOMAIN items |-> items[p] * Price[p]])

-----------------------------------------------------------------------------

Init ==
    /\ body \in [Requests -> Bodies]
    /\ catalog = {}
    /\ stock = Nothing
    /\ orders = {} /\ outbox = {}
    /\ phase = [r \in Requests |-> "begin"]
    /\ locked = [r \in Requests |-> {}]
    /\ seen = [r \in Requests |-> Nothing]
    /\ returned = [r \in Requests |-> {}]

\* POST /products.  The id is a fresh uuid4: no call that is already
\* running can name it.
CreateProduct(p) ==
    /\ ConnectionFree
    /\ p \notin catalog
    /\ \A r \in Requests : phase[r] # "begin" => p \notin Ordered(r)
    /\ catalog' = catalog \union {p}
    /\ stock' = [stock EXCEPT ![p] = Supply[p]]
    /\ UNCHANGED <<body, orders, outbox, phase, locked, seen, returned>>

\* Mistake: the row locks outlive the transaction.
EndKeepingLocks(r, next, shown) ==
    /\ phase' = [phase EXCEPT ![r] = next]
    /\ seen' = [seen EXCEPT ![r] = Nothing]
    /\ returned' = [returned EXCEPT ![r] = shown]
    /\ UNCHANGED <<body, locked>>

\* The transaction of r ends: its locks go, and its uncommitted row with them.
End(r, next, shown) ==
    /\ phase' = [phase EXCEPT ![r] = next]
    /\ locked' = [locked EXCEPT ![r] = {}]
    /\ seen' = [seen EXCEPT ![r] = Nothing]
    /\ returned' = [returned EXCEPT ![r] = shown]
    /\ UNCHANGED body

Goto(r, next) ==
    /\ phase' = [phase EXCEPT ![r] = next]
    /\ UNCHANGED <<body, locked, seen, returned>>

\* _find_replay on a committed order with the key: 200, or 409.
AnswerFromExisting(r) ==
    \E o \in Existing(r) :
        /\ IF SameRequest(o, r)
              THEN End(r, "replayed", {o})
              ELSE End(r, "key_conflict", {})
        /\ UNCHANGED tables

\* The fast path: the first _find_replay finds the order.
FindReplay(r) ==
    /\ phase[r] = "begin"
    /\ ConnectionFree
    /\ AnswerFromExisting(r)

\* The first _find_replay finds nothing; the transaction stays open.
FindNothing(r) ==
    /\ phase[r] = "begin"
    /\ ConnectionFree
    /\ Existing(r) = {}
    /\ Goto(r, "insert")
    /\ UNCHANGED tables

\* Mistake: a key held by an open transaction is reported as taken at once.
InsertOrderNoWait(r) ==
    /\ phase[r] = "insert"
    /\ IF Existing(r) \union KeyHolders(r) = {}
          THEN Goto(r, "lock")
          ELSE End(r, "recover", {})
    /\ UNCHANGED tables

\* Mistake: no unique constraint on the key.
InsertUnconstrained(r) ==
    /\ phase[r] = "insert"
    /\ Goto(r, "lock")
    /\ UNCHANGED tables

\* add(order); flush(): the insert waits for every open transaction holding
\* the key, then succeeds, or violates the unique constraint.
InsertOrder(r) ==
    /\ phase[r] = "insert"
    /\ KeyHolders(r) = {}
    /\ IF Existing(r) = {}
          THEN Goto(r, "lock")
          ELSE End(r, "recover", {})
    /\ UNCHANGED tables

LockRow(r, p) ==
    /\ locked' = [locked EXCEPT ![r] = @ \union {p}]
    /\ seen' = [seen EXCEPT ![r][p] = stock[p]]
    /\ UNCHANGED <<body, phase, returned>>
    /\ UNCHANGED tables

\* Mistake: a plain SELECT.
LockProductNoWait(r, p) ==
    /\ phase[r] = "lock"
    /\ p \in Wanted(r) \ locked[r]
    /\ LockRow(r, p)

\* Mistake: the rows are locked in the order the client lists them.
LockProductAsListed(r, p) ==
    /\ phase[r] = "lock"
    /\ p \in Wanted(r) \ locked[r]
    /\ p \notin LockedByOthers(r)
    /\ LockRow(r, p)

\* SELECT ... ORDER BY id FOR UPDATE takes the rows one by one in id order
\* and reads each as it is once the lock is granted.
LockProduct(r, p) ==
    /\ phase[r] = "lock"
    /\ p \in Wanted(r) \ locked[r]
    /\ \A q \in Wanted(r) \ locked[r] : p <= q
    /\ p \notin LockedByOthers(r)
    /\ LockRow(r, p)

AllLocked(r) == phase[r] = "lock" /\ Wanted(r) \subseteq locked[r]

Short(r) == {p \in Ordered(r) : seen[r][p] < body[r].items[p]}

RejectUnknown(r) ==
    /\ AllLocked(r)
    /\ ~ (Ordered(r) \subseteq catalog)
    /\ End(r, "products_not_found", {})
    /\ UNCHANGED tables

RejectShortage(r) ==
    /\ AllLocked(r)
    /\ Ordered(r) \subseteq catalog
    /\ Short(r) # {}
    /\ End(r, "insufficient_stock", {})
    /\ UNCHANGED tables

\* Mistake: the stock is not compared with the quantities.
FlushUnchecked(r) ==
    /\ AllLocked(r)
    /\ Ordered(r) \subseteq catalog
    /\ Goto(r, "commit")
    /\ UNCHANGED tables

\* Mistake: the row locks are given up between the read and the commit.
FlushAndUnlock(r) ==
    /\ AllLocked(r)
    /\ Ordered(r) \subseteq catalog
    /\ Short(r) = {}
    /\ phase' = [phase EXCEPT ![r] = "commit"]
    /\ locked' = [locked EXCEPT ![r] = {}]
    /\ UNCHANGED <<body, seen, returned>>
    /\ UNCHANGED tables

\* The second flush() writes the stock, the items and the total; a total
\* that Numeric(12, 2) cannot hold is a DataError, a 500.
FlushItems(r) ==
    /\ AllLocked(r)
    /\ Ordered(r) \subseteq catalog
    /\ Short(r) = {}
    /\ IF Amount(body[r].items) <= MaxAmount
          THEN Goto(r, "commit")
          ELSE End(r, "error", {})
    /\ UNCHANGED tables

\* Mistake: the event is left out of the order's transaction.
CommitWithoutEvent(r, verdict, shown) ==
    /\ phase[r] = "commit"
    /\ stock' = [p \in ProductIds |->
                    IF p \in Ordered(r) THEN seen[r][p] - body[r].items[p] ELSE stock[p]]
    /\ orders' = orders \union {r}
    /\ End(r, verdict, shown)
    /\ UNCHANGED <<catalog, outbox>>

\* COMMIT makes the order, the outbox row and the new stock visible.  The
\* stock written is the value read under the lock less the quantity.
CommitAs(r, verdict, shown) ==
    /\ phase[r] = "commit"
    /\ stock' = [p \in ProductIds |->
                    IF p \in Ordered(r) THEN seen[r][p] - body[r].items[p] ELSE stock[p]]
    /\ orders' = orders \union {r}
    /\ outbox' = outbox \union {r}
    /\ End(r, verdict, shown)
    /\ UNCHANGED catalog

Commit(r) == CommitAs(r, "created", {r})

\* The connection dies after Postgres has committed: the client gets a 500.
CommitUnacknowledged(r) == CommitAs(r, "error", {})

\* except IntegrityError: a new transaction looks for the order again.
Recover(r) ==
    /\ phase[r] = "recover"
    /\ ConnectionFree
    /\ IF Existing(r) = {}
          THEN End(r, "integrity_error", {}) /\ UNCHANGED tables
          ELSE AnswerFromExisting(r)

\* A lost connection, a pool timeout or a killed process, at any statement:
\* Postgres rolls back, the client gets a 500 or nothing.
Fail(r) ==
    /\ phase[r] \in Active
    /\ End(r, "error", {})
    /\ UNCHANGED tables

Proceed(r) ==
    \/ FindReplay(r)
    \/ FindNothing(r)
    \/ InsertOrder(r)
    \/ \E p \in ProductIds : LockProduct(r, p)
    \/ RejectUnknown(r)
    \/ RejectShortage(r)
    \/ FlushItems(r)
    \/ Commit(r)
    \/ Recover(r)

Next ==
    \/ \E p \in ProductIds : CreateProduct(p)
    \/ \E r \in Requests : Proceed(r) \/ CommitUnacknowledged(r) \/ Fail(r)

Spec == Init /\ [][Next]_vars

\* The event loop and Postgres keep every request going; nothing makes a
\* connection fail or a product appear.
FairSpec == Spec /\ \A r \in Requests : WF_vars(Proceed(r))

-----------------------------------------------------------------------------
(* Properties.                                                             *)

\* Every variable has its type.  Committed stock is never negative (the
\* CHECK constraint stock >= 0 of models/product.py is never what saves it).
TypeOK ==
    /\ body \in [Requests -> Bodies]
    /\ catalog \subseteq ProductIds
    /\ stock \in [ProductIds -> Nat]
    /\ orders \subseteq Requests
    /\ outbox \subseteq Requests
    /\ phase \in [Requests -> Active \union Answers]
    /\ locked \in [Requests -> SUBSET ProductIds]
    /\ seen \in [Requests -> [ProductIds -> Nat]]
    /\ returned \in [Requests -> SUBSET Requests]

\* How much of p the recorded orders took.
Takers(p) == {o \in orders : p \in Ordered(o)}
Taken(p) == SumFunction([o \in Takers(p) |-> body[o].items[p]])

\* No unit is sold twice and none is lost: what is left on the shelf and what
\* the recorded orders took add up to what was supplied, however the
\* transactions of create_order interleave, fail or lose their answers.
NoOversell == \A p \in catalog : stock[p] + Taken(p) = Supply[p]

\* The stock of a product that exists moves only when an order is recorded,
\* and then by exactly the quantity ordered: the absolute value that
\* `product.stock -= quantity` writes is never computed from a stale read.
StockFollowsOrders ==
    [][\A p \in catalog :
          \/ orders' = orders /\ stock'[p] = stock[p]
          \/ \E o \in Requests \ orders :
                /\ orders' = orders \union {o}
                /\ stock'[p] = IF p \in Ordered(o) THEN stock[p] - body[o].items[p]
                                                   ELSE stock[p]]_vars

\* One key, one order, one answer: two recorded orders never share a key; an
\* order shown to a call was recorded and is for the very basket of the call;
\* all the calls with a key that are shown an order are shown the same one.
IdempotentReplies ==
    \A q, r \in Requests : body[q].key = body[r].key =>
        /\ q \in orders /\ r \in orders => q = r
        /\ \A o \in returned[r] : o \in orders /\ body[o] = body[r]
        /\ returned[q] # {} /\ returned[r] # {} => returned[q] = returned[r]

\* The unique violation that sends create_order to its second look-up is
\* always that of an order the look-up finds: the re-raise after
\* `if replayed is None` is never reached.
RecoveryFindsOrder == \A r \in Requests : phase[r] # "integrity_error"

\* r waits, now or before it can finish, for something q holds.
NeedsFrom(r, q) ==
    \/ phase[r] = "insert" /\ q \in KeyHolders(r)
    \/ phase[r] = "lock" /\ q # r /\ (Wanted(r) \ locked[r]) \intersect locked[q] # {}

\* No set of open transactions is doomed to wait for each other, through row
\* locks, uncommitted keys, or both: locking in id order after the key is
\* inserted rules it out whatever order the client lists the items in.
NoDeadlock ==
    \A D \in (SUBSET {r \in Requests : phase[r] \in InTransaction}) \ {{}} :
        \E r \in D : \A q \in D : ~ NeedsFrom(r, q)

-----------------------------------------------------------------------------
(* The inductive invariant behind the safety properties.                   *)

Inserted == {r \in Requests : phase[r] \in {"lock", "commit"}}

\* An open transaction that has inserted its row owns its key.
KeyInv ==
    /\ \A r \in Inserted : Existing(r) = {}
    /\ \A q, r \in Inserted : body[q].key = body[r].key => q = r

\* A row lock has one holder, in phase to hold it, for whom the row stands still.
LockInv ==
    \A r \in Requests :
        /\ r \notin Inserted => locked[r] = {}
        /\ locked[r] \subseteq Wanted(r)
        /\ \A p \in locked[r] : seen[r][p] = stock[p]
        /\ \A p \in locked[r], q \in Wanted(r) \ locked[r] : p < q
        /\ \A q \in Requests \ {r} : locked[q] \intersect locked[r] = {}

\* A transaction about to commit holds and can serve its whole basket.
ReadyInv ==
    \A r \in Requests : phase[r] = "commit" =>
        locked[r] = Ordered(r) /\ \A p \in Ordered(r) : body[r].items[p] <= seen[r][p]

\* Orders and answers agree.
OrdersInv ==
    /\ outbox = orders
    /\ \A r \in orders : phase[r] \in {"created", "error"}
    /\ \A r \in orders : Ordered(r) \subseteq catalog
    /\ \A q, r \in orders : body[q].key = body[r].key => q = r
    /\ \A r \in Requests : \A o \in returned[r] : o \in orders /\ body[o] = body[r]
    /\ \A r \in Requests : phase[r] \in Active => returned[r] = {}

\* The order that made the insert fail stays.
RecoverInv ==
    /\ \A r \in Requests : phase[r] = "recover" => Existing(r) # {}
    /\ RecoveryFindsOrder

\* What every reachable state satisfies: owned keys, owned rows with the
\* stock read under the lock still current, baskets that can be served at
\* commit, one order per key.  It is the strengthening that the proofs use.
TransactionInv == TypeOK /\ KeyInv /\ LockInv /\ ReadyInv /\ OrdersInv /\ RecoverInv

-----------------------------------------------------------------------------

\* Every call is answered, however many calls wait for the same key, the
\* same rows or a connection.
EveryRequestAnswered == \A r \in Requests : <>(phase[r] \in Answers)

\* The transactions implement the atomic steps of OrderLedger: seen from
\* outside, each call took effect at one instant or not at all, and each
\* refusal was true of the committed tables at the instant it was decided.
Ledger == INSTANCE OrderLedger
            WITH answer <- [r \in Requests |->
                              IF phase[r] \in Answers THEN phase[r] ELSE "pending"]

ImplementsLedger == Ledger!LedgerSpec

=============================================================================
