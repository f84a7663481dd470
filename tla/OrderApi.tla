------------------------------ MODULE OrderApi ------------------------------
(***************************************************************************)
(* The HTTP side of POST /orders, POST /products and GET /orders: what     *)
(* pydantic admits, what becomes of the item LIST of a payload (its        *)
(* fingerprint, the loop over its items, the rows, the response), what the *)
(* table definitions refuse, and the status of each answer.  Amounts are   *)
(* in tenths of a cent, so that there are some that a column has to round. *)
(*                                                                         *)
(* Calls are handled one after the other: how they interleave is the       *)
(* subject of OrderService.  OrderLedger knows of baskets only; that the   *)
(* lists keep its promise is ImplementsLedger.                             *)
(***************************************************************************)
EXTENDS Integers, Sequences, FiniteSets, Functions

CONSTANTS
    Requests,
    Payloads,         \* [customer, key, items]: a key has a length, 0 if it is missing, and
                      \* items is a sequence of [product, quantity]
    ProductIds,       \* as naturals, in the order of their uuids
    Draft,            \* Draft[p]: the [name, price, stock] of the POST /products call for p
    MaxLength,        \* 255, of a name, of a key and of their columns
    MaxItemQuantity,  \* 1000000
    MaxAmount,        \* the largest amount of MoneyAmount and of Numeric(12, 2)
    MaxInteger        \* the largest value of an INTEGER column

\* A name is so many blanks around so many characters, NUL among them or not.
Names == [padding : Nat, length : Nat, nul : BOOLEAN]

\* Product ids are well ordered, numbers are numbers, and the largest
\* quantity fits its column.
ASSUME ApiAssumption ==
    /\ ProductIds \subseteq Nat
    /\ \A p \in Payloads : p.items \in Seq([product : ProductIds, quantity : Int])
    /\ Draft \in [ProductIds -> [name : Names, price : Int, stock : Int]]
    /\ MaxAmount \in Nat /\ MaxInteger \in Nat /\ MaxItemQuantity \in 0..MaxInteger
    /\ MaxLength \in Nat

VARIABLES
    payload,       \* payload[r]: what call r sends
    products,      \* the products table: product -> [name, price, stock]
    orders,        \* the orders table: call -> [customer, key, hash, total]
    orderItems,    \* the order_items table: a set of [order, product, quantity, unit_price]
    reply,         \* reply[r]: what became of call r
    productReply,  \* the same for the POST /products calls
    views          \* the OrderResponses that clients have seen, each with its order

vars == <<payload, products, orders, orderItems, reply, productReply, views>>

-----------------------------------------------------------------------------
(* Payloads.                                                               *)

ListedProducts(items) == {items[i].product : i \in DOMAIN items}

\* Mistake: a product may be listed twice.
AdmissibleWithRepeats(p) ==
    /\ p.key.length \in 1..MaxLength
    /\ p.items # <<>>
    /\ \A i \in DOMAIN p.items : p.items[i].quantity \in 1..MaxItemQuantity

Admissible(p) ==
    /\ p.key.length \in 1..MaxLength
    /\ p.items # <<>>
    /\ \A i \in DOMAIN p.items : p.items[i].quantity \in 1..MaxItemQuantity
    /\ Cardinality(ListedProducts(p.items)) = Len(p.items)

\* Mistake: the items are hashed as they are listed.
FingerprintAsListed(p) == [of |-> <<p.customer, p.items>>, length |-> 64]

\* Where sorted() by product puts the i-th item; among equals it is stable.
Position(items, i) ==
    Cardinality({j \in DOMAIN items :
                    \/ items[j].product < items[i].product
                    \/ items[j].product = items[i].product /\ j <= i})

Sorted(items) ==
    [n \in DOMAIN items |-> items[CHOOSE i \in DOMAIN items : Position(items, i) = n]]

\* SHA-256 of the canonical body, taken to be injective, in hexadecimal.
Fingerprint(p) == [of |-> <<p.customer, Sorted(p.items)>>, length |-> 64]

Strip(name) == [name EXCEPT !.padding = 0]

\* Mistake: an amount may have any number of decimal places.
AdmissibleProductUnrounded(d) ==
    /\ Strip(d.name).length \in 1..MaxLength
    /\ d.price \in 0..MaxAmount
    /\ d.stock >= 0

\* Neither a NUL in the name nor a stock too large for its column is refused.
AdmissibleProduct(d) ==
    /\ Strip(d.name).length \in 1..MaxLength
    /\ d.price \in 0..MaxAmount /\ d.price % 10 = 0
    /\ d.stock >= 0

-----------------------------------------------------------------------------
(* The rows that _place_order makes of a payload, and the tables.          *)

\* A table with one more row.
With(table, id, row) == [i \in DOMAIN table \union {id} |-> IF i = id THEN row ELSE table[i]]

\* Mistake: an order with another basket does not count.
ExistingSame(r) ==
    {o \in DOMAIN orders : orders[o].customer = payload[r].customer
                           /\ orders[o].key = payload[r].key
                           /\ orders[o].hash = Fingerprint(payload[r])}

Existing(r) ==
    {o \in DOMAIN orders : orders[o].customer = payload[r].customer
                           /\ orders[o].key = payload[r].key}

Line(item) == [product |-> item.product, quantity |-> item.quantity,
               unit_price |-> products[item.product].price]

LineTotal(line) == line.unit_price * line.quantity

Total(lines) == SumFunction([i \in DOMAIN lines |-> LineTotal(lines[i])])

Lines(r) == [i \in DOMAIN payload[r].items |-> Line(payload[r].items[i])]

\* The order as the session holds it when it is added, and when the loop is
\* done.
Added(r) ==
    [customer |-> payload[r].customer, key |-> payload[r].key,
     hash |-> Fingerprint(payload[r]), items |-> <<>>, total |-> 0]

Filled(r) == [Added(r) EXCEPT !.items = Lines(r), !.total = Total(Lines(r))]

\* Mistake: the total is set once the transaction is over.
FlushedBeforeTotal(r, n) == IF n = 1 THEN Added(r) ELSE [Filled(r) EXCEPT !.total = 0]

\* The order as the n-th flush of its transaction finds it; what the second
\* one has written is what commits.
Flushed(r, n) == IF n = 1 THEN Added(r) ELSE Filled(r)

\* What the loop over the items takes of p.
Listed(items, p) == {i \in DOMAIN items : items[i].product = p}
TakenOf(items, p) == SumFunction([i \in Listed(items, p) |-> items[i].quantity])

\* The products after the loop.
Decremented(items) ==
    [p \in DOMAIN products |-> [products[p] EXCEPT !.stock = @ - TakenOf(items, p)]]

\* An amount stored: Numeric(12, 2) rounds it to cents, a half upwards.
ToColumn(amount) == 10 * ((amount + 5) \div 10)

\* An amount shown: quantize() rounds it to cents, a half to the even one.
format_amount(amount) ==
    LET cents == amount \div 10
        rest  == amount % 10
        up    == rest > 5 \/ (rest = 5 /\ cents % 2 = 1)
    IN 10 * (IF up THEN cents + 1 ELSE cents)

\* The objects of the session and the rows that the columns make of them.
ProductObject(p) == [Draft[p] EXCEPT !.name = Strip(@)]

ProductRow(object) == [object EXCEPT !.price = ToColumn(@)]

OrderRow(object) ==
    [customer |-> object.customer, key |-> object.key, hash |-> object.hash,
     total |-> ToColumn(object.total)]

ItemRows(o, object) ==
    {[order |-> o, product |-> line.product, quantity |-> line.quantity,
      unit_price |-> ToColumn(line.unit_price)] : line \in Range(object.items)}

\* The types and checks of the tables, their unique and foreign keys.
ProductFits(row) ==
    /\ row.name.length > 0 /\ row.name.padding + row.name.length <= MaxLength /\ ~ row.name.nul
    /\ row.price \in 0..MaxAmount
    /\ row.stock \in 0..MaxInteger

OrderFits(row) ==
    /\ row.key.length \in 1..MaxLength
    /\ row.hash.length = 64
    /\ row.total \in 0..MaxAmount

ItemsFit(lines) ==
    /\ \A i \in DOMAIN lines :
          /\ lines[i].product \in DOMAIN products
          /\ lines[i].quantity \in 1..MaxInteger
          /\ ToColumn(lines[i].unit_price) \in 0..MaxAmount
    /\ \A i, j \in DOMAIN lines : lines[i].product = lines[j].product => i = j

\* What the second flush writes fits.
Fits(r) ==
    LET object == Flushed(r, 2)
        table  == Decremented(payload[r].items)
    IN /\ OrderFits(OrderRow(object)) /\ ItemsFit(object.items)
       /\ \A p \in DOMAIN table : ProductFits(table[p])

\* OrderResponse.from_model of an order and its lines, which are in no order.
Response(order, lines) ==
    [customer |-> order.customer, total |-> format_amount(order.total),
     items |-> {[product |-> line.product, quantity |-> line.quantity,
                 unit_price |-> format_amount(line.unit_price),
                 line_total |-> format_amount(LineTotal(line))] : line \in lines}]

\* The lines that a select finds for the order, and what is shown of it.
ItemsOf(o) == {row \in orderItems : row.order = o}
Stored(o) == Response(orders[o], ItemsOf(o))

\* The part of ProductResponse that no order changes.
ProductResponse(product) == [name |-> product.name, price |-> format_amount(product.price)]

-----------------------------------------------------------------------------
(* The handlers.                                                           *)

StatusOf ==
    [created |-> 201, replayed |-> 200, malformed |-> 422, products_not_found |-> 404,
     insufficient_stock |-> 409, key_conflict |-> 409, error |-> 500]

Init ==
    /\ payload \in [Requests -> Payloads]
    /\ products = <<>> /\ orders = <<>> /\ orderItems = {}
    /\ reply = [r \in Requests |-> "none"]
    /\ productReply = [p \in ProductIds |-> "none"]
    /\ views = {}

\* POST /products.
CreateProduct(p) ==
    LET row     == ProductRow(ProductObject(p))
        verdict == IF ~ AdmissibleProduct(Draft[p]) THEN "malformed"
                   ELSE IF ProductFits(row) THEN "created" ELSE "error"
    IN /\ productReply[p] = "none"
       /\ \A r \in Requests : reply[r] # "none" => p \notin ListedProducts(payload[r].items)
       /\ productReply' = [productReply EXCEPT ![p] = verdict]
       /\ products' = IF verdict = "created" THEN With(products, p, row) ELSE products
       /\ UNCHANGED <<payload, orders, orderItems, reply, views>>

\* The answer to r, which shows no order and stores nothing.
Refuse(r, verdict) ==
    /\ reply' = [reply EXCEPT ![r] = verdict]
    /\ UNCHANGED <<payload, products, orders, orderItems, productReply, views>>

Reject(r) ==
    /\ reply[r] = "none" /\ ~ Admissible(payload[r])
    /\ Refuse(r, "malformed")

Handling(r) == reply[r] = "none" /\ Admissible(payload[r])

Replay(r) ==
    /\ Handling(r)
    /\ \E o \in Existing(r) :
          /\ orders[o].hash = Fingerprint(payload[r])
          /\ views' = views \union {<<o, Stored(o)>>}
    /\ reply' = [reply EXCEPT ![r] = "replayed"]
    /\ UNCHANGED <<payload, products, orders, orderItems, productReply>>

RefuseKey(r) ==
    /\ Handling(r)
    /\ \E o \in Existing(r) : orders[o].hash # Fingerprint(payload[r])
    /\ Refuse(r, "key_conflict")

Unknown(r) == ListedProducts(payload[r].items) \ DOMAIN products

\* Mistake: the last piece is not for sale.
ShortagesButOne(r) ==
    {i \in DOMAIN payload[r].items :
        LET item == payload[r].items[i] IN products[item.product].stock <= item.quantity}

\* The items of which there is not enough.
Shortages(r) ==
    {i \in DOMAIN payload[r].items :
        LET item == payload[r].items[i] IN products[item.product].stock < item.quantity}

\* The first flush has inserted the order.
Inserted(r) == Handling(r) /\ Existing(r) = {} /\ OrderFits(OrderRow(Flushed(r, 1)))

RefuseUnknown(r) ==
    /\ Inserted(r) /\ Unknown(r) # {}
    /\ Refuse(r, "products_not_found")

RefuseShortage(r) ==
    /\ Inserted(r) /\ Unknown(r) = {} /\ Shortages(r) # {}
    /\ Refuse(r, "insufficient_stock")

Placeable(r) == Inserted(r) /\ Unknown(r) = {} /\ Shortages(r) = {}

\* One of the flushes fails, and the transaction with it.
FlushFails(r) ==
    /\ Handling(r) /\ Existing(r) = {}
    /\ Inserted(r) => Placeable(r) /\ ~ Fits(r)
    /\ Refuse(r, "error")

\* The tables get what the flushes wrote; the answer shows the objects of
\* the session as they are then (expire_on_commit is off).
Create(r) ==
    /\ Placeable(r) /\ Fits(r)
    /\ products' = Decremented(payload[r].items)
    /\ orders' = With(orders, r, OrderRow(Flushed(r, 2)))
    /\ orderItems' = orderItems \union ItemRows(r, Flushed(r, 2))
    /\ views' = views \union {<<r, Response(Filled(r), Range(Filled(r).items))>>}
    /\ reply' = [reply EXCEPT ![r] = "created"]
    /\ UNCHANGED <<payload, productReply>>

\* GET /orders and GET /orders/{id}.
GetOrder(o) ==
    /\ o \in DOMAIN orders
    /\ views' = views \union {<<o, Stored(o)>>}
    /\ UNCHANGED <<payload, products, orders, orderItems, reply, productReply>>

Next ==
    \/ \E p \in ProductIds : CreateProduct(p)
    \/ \E r \in Requests :
        \/ Reject(r)
        \/ Replay(r)
        \/ RefuseKey(r)
        \/ RefuseUnknown(r)
        \/ RefuseShortage(r)
        \/ FlushFails(r)
        \/ Create(r)
        \/ GetOrder(r)

Spec == Init /\ [][Next]_vars

-----------------------------------------------------------------------------
(* Properties.                                                             *)

\* What a list orders: how many pieces of which product.
Basket(items) ==
    [p \in ListedProducts(items) |-> items[CHOOSE i \in DOMAIN items : items[i].product = p].quantity]

\* A client that repeats a call that succeeded, with the items in any order
\* and whatever was sold since, is told 200; whoever uses the key for another
\* basket is told 409.
RepeatsAreReplays ==
    [][\A o, r \in Requests :
          /\ reply[o] = "created" /\ reply[r] = "none" /\ reply'[r] # "none"
          /\ payload[r].customer = payload[o].customer /\ payload[r].key = payload[o].key
          /\ Admissible(payload[r])
          => StatusOf[reply'[r]] =
                IF Basket(payload[r].items) = Basket(payload[o].items) THEN 200 ELSE 409]_vars

\* However an order is looked at, in the answer that created it (built from
\* the session's objects), in a replay or a listing (built from the rows),
\* the same is shown: a total that is the sum of its lines, each an amount
\* the response model accepts.
ViewsAgree ==
    \A v \in views :
        /\ \A w \in views : v[1] = w[1] => v = w
        /\ v[2].total = SumFunction([line \in v[2].items |-> line.line_total])
        /\ \A line \in v[2].items : line.line_total \in 0..MaxAmount

\* A product is listed (from its row) with the name and the price of the
\* answer that created it (from the session's object): what validation lets
\* through, the column and the response round to the same.
ListedAsAnswered ==
    \A p \in DOMAIN products : ProductResponse(products[p]) = ProductResponse(ProductObject(p))

\* No admitted call reaches a check, a unique key, a foreign key or the length
\* of a column: what a 500 can be blamed on is a value that no column of the
\* type can hold, a total or a stock too large or a NUL in a name.
OnlyUnstorableFails ==
    /\ \A r \in Requests : reply[r] = "error" => Total(Lines(r)) > MaxAmount
    /\ \A p \in ProductIds : productReply[p] = "error" =>
          Draft[p].stock > MaxInteger \/ Draft[p].name.nul

-----------------------------------------------------------------------------
(* The inductive invariant behind the properties.                          *)

TypeInv ==
    /\ payload \in [Requests -> Payloads]
    /\ products \in [DOMAIN products ->
                      [name : Names, price : 0..MaxAmount, stock : 0..MaxInteger]]
    /\ reply \in [Requests -> DOMAIN StatusOf \union {"none"}]
    /\ productReply \in [ProductIds -> {"none", "malformed", "created", "error"}]

\* Products are those created, and keep their names and prices.
CatalogInv ==
    /\ DOMAIN products = {p \in ProductIds : productReply[p] = "created"}
    /\ \A p \in DOMAIN products :
          /\ ProductFits(products[p]) /\ products[p].price % 10 = 0
          /\ products[p].name = Strip(Draft[p].name) /\ products[p].price = Draft[p].price
    /\ \A p \in ProductIds : productReply[p] = "error" =>
          Draft[p].stock > MaxInteger \/ Draft[p].name.nul

\* A call that came as far as its flush named products that exist.
Checked(r) == Admissible(payload[r]) /\ Unknown(r) = {}

\* An order is still what its payload makes of the products, and alone has
\* its key.
RowsInv ==
    /\ DOMAIN orders = {r \in Requests : reply[r] = "created"}
    /\ \A row \in orderItems : row.order \in DOMAIN orders
    /\ \A o \in DOMAIN orders :
          /\ Checked(o) /\ Total(Lines(o)) <= MaxAmount
          /\ orders[o] = OrderRow(Filled(o)) /\ ItemsOf(o) = ItemRows(o, Filled(o))
    /\ \A o, r \in DOMAIN orders :
          payload[o].customer = payload[r].customer /\ payload[o].key = payload[r].key => o = r

\* A failed call has a total that does not fit, a replay has its order, and
\* what was seen of an order is what it is.
AnswersInv ==
    /\ \A r \in Requests : reply[r] = "error" => Checked(r) /\ Total(Lines(r)) > MaxAmount
    /\ \A r \in Requests : reply[r] = "replayed" => Existing(r) # {}
    /\ \A v \in views : v[1] \in DOMAIN orders /\ v = <<v[1], Stored(v[1])>>

\* What every reachable state satisfies: prices stand still, so that a row, a
\* view and the reason of a failure can be computed again from the payload at
\* any later time.  It is the strengthening that the proofs use.
ApiInv == TypeInv /\ CatalogInv /\ RowsInv /\ AnswersInv

-----------------------------------------------------------------------------

(* What OrderLedger sees of this: baskets in place of lists, and no call    *)
(* that is not admitted.                                                   *)

LedgerBody ==
    [r \in Requests |-> [key |-> <<payload[r].customer, payload[r].key>>,
                         items |-> Basket(payload[r].items)]]

LedgerStock ==
    [p \in ProductIds |-> IF p \in DOMAIN products THEN products[p].stock ELSE 0]

LedgerAnswer ==
    [r \in Requests |-> IF reply[r] \in {"none", "malformed"} THEN "pending" ELSE reply[r]]

LedgerReturned ==
    [r \in Requests |-> IF reply[r] = "created" THEN {r}
                        ELSE IF reply[r] = "replayed" THEN Existing(r) ELSE {}]

Ledger == INSTANCE OrderLedger
    WITH Supply <- [p \in ProductIds |-> Draft[p].stock],
         body <- LedgerBody, catalog <- DOMAIN products, stock <- LedgerStock,
         orders <- DOMAIN orders, outbox <- DOMAIN orders,
         answer <- LedgerAnswer, returned <- LedgerReturned

\* Lists, fingerprints and rows keep the promise that the ledger makes about
\* baskets.
ImplementsLedger == Ledger!LedgerSpec

=============================================================================
