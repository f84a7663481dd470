--------------------------- MODULE OrderApiProofs ---------------------------
(* Theorems about OrderApi, for any calls, payloads and products.          *)
EXTENDS OrderApi, SumTheorems

-----------------------------------------------------------------------------
(* Item lists.                                                             *)

ItemLists == Seq([product : ProductIds, quantity : Int])

Distinct(items) ==
    \A i, j \in DOMAIN items : items[i].product = items[j].product => i = j

\* A list has finitely many items, each with a natural product id.
LEMMA ListType ==
    ASSUME NEW items \in ItemLists
    PROVE  /\ Len(items) \in Nat
           /\ DOMAIN items = 1..Len(items)
           /\ IsFiniteSet(DOMAIN items) /\ Cardinality(DOMAIN items) = Len(items)
           /\ \A i \in DOMAIN items : /\ items[i] \in [product : ProductIds, quantity : Int]
                                     /\ items[i].product \in Nat
<1>1. Len(items) \in Nat /\ DOMAIN items = 1..Len(items)
  BY DEF ItemLists
<1>2. IsFiniteSet(1..Len(items)) /\ Cardinality(1..Len(items)) = Len(items)
  <2>1. 1 \in Int /\ Len(items) \in Int
    BY <1>1
  <2>2. /\ IsFiniteSet(1..Len(items))
        /\ Cardinality(1..Len(items)) = IF 1 > Len(items) THEN 0 ELSE Len(items) - 1 + 1
    BY <2>1, FS_Interval
  <2> QED
    BY <1>1, <2>2
<1>3. \A i \in DOMAIN items : items[i] \in [product : ProductIds, quantity : Int]
  <2> DEFINE S == [product : ProductIds, quantity : Int]
  <2>1. items \in Seq(S)
    BY DEF ItemLists
  <2> HIDE DEF S
  <2>2. \A i \in DOMAIN items : items[i] \in S
    BY <2>1
  <2> QED
    BY <2>2 DEF S
<1> QED
  BY <1>1, <1>2, <1>3, ApiAssumption

\* The products of a list are listed once each exactly if there are as many
\* of them as items: the test of the validator.
LEMMA ListedOnce ==
    ASSUME NEW items \in ItemLists
    PROVE  /\ Cardinality(ListedProducts(items)) = Len(items) <=> Distinct(items)
           /\ IsFiniteSet(ListedProducts(items))
<1> DEFINE name == [i \in DOMAIN items |-> items[i].product]
<1>1. name \in Surjection(DOMAIN items, ListedProducts(items))
  BY DEF Surjection, ListedProducts
<1>2. IsFiniteSet(DOMAIN items) /\ Cardinality(DOMAIN items) = Len(items)
  BY ListType
<1>3. /\ IsFiniteSet(ListedProducts(items))
      /\ Cardinality(ListedProducts(items)) = Cardinality(DOMAIN items)
            <=> name \in Injection(DOMAIN items, ListedProducts(items))
  BY <1>1, <1>2, FS_Surjection
<1>4. name \in Injection(DOMAIN items, ListedProducts(items)) <=> Distinct(items)
  BY <1>1 DEF Injection, Surjection, IsInjective, Distinct
<1> QED
  BY <1>2, <1>3, <1>4

-----------------------------------------------------------------------------
(* Sorting.                                                                *)

\* The items up to the i-th in sorted order, itself included.
UpTo(items, i) ==
    {j \in DOMAIN items :
        \/ items[j].product < items[i].product
        \/ items[j].product = items[i].product /\ j <= i}

\* Sorting puts every item somewhere else.
LEMMA PositionsDiffer ==
    ASSUME NEW items \in ItemLists, NEW i \in DOMAIN items, NEW j \in DOMAIN items,
           Position(items, i) = Position(items, j)
    PROVE  i = j
<1>1. ASSUME NEW k \in DOMAIN items, NEW l \in DOMAIN items, k # l,
             \/ items[k].product < items[l].product
             \/ items[k].product = items[l].product /\ k < l
      PROVE  Position(items, k) # Position(items, l)
  <2>1. UpTo(items, k) \subseteq UpTo(items, l)
    BY <1>1, ListType DEF UpTo
  <2>2. l \in UpTo(items, l) /\ l \notin UpTo(items, k)
    BY <1>1, ListType DEF UpTo
  <2>3. IsFiniteSet(UpTo(items, l))
    BY ListType, FS_Subset DEF UpTo
  <2>4. Cardinality(UpTo(items, k)) # Cardinality(UpTo(items, l))
    BY <2>1, <2>2, <2>3, FS_Subset
  <2> QED
    BY <2>4 DEF Position, UpTo
<1>2. i \in Nat /\ j \in Nat /\ items[i].product \in Nat /\ items[j].product \in Nat
  BY ListType
<1> QED
  BY <1>1, <1>2

\* The positions of n items are 1 to n.
LEMMA PositionRange ==
    ASSUME NEW items \in ItemLists, NEW i \in DOMAIN items
    PROVE  Position(items, i) \in DOMAIN items
<1>1. IsFiniteSet(UpTo(items, i)) /\ Cardinality(UpTo(items, i)) <= Len(items)
  BY ListType, FS_Subset DEF UpTo
<1>2. i \in UpTo(items, i)
  BY ListType DEF UpTo
<1>3. Cardinality(UpTo(items, i)) \in Nat /\ Cardinality(UpTo(items, i)) # 0
  BY <1>1, <1>2, FS_CardinalityType, FS_EmptySet
<1>4. Cardinality(UpTo(items, i)) \in 1..Len(items)
  BY <1>1, <1>3, ListType
<1> QED
  BY <1>4, ListType DEF Position, UpTo

\* Every position is taken.
LEMMA PositionTaken ==
    ASSUME NEW items \in ItemLists, NEW n \in DOMAIN items
    PROVE  \E i \in DOMAIN items : Position(items, i) = n
<1> DEFINE position == [i \in DOMAIN items |-> Position(items, i)]
<1>1. position \in Injection(DOMAIN items, DOMAIN items)
  BY PositionRange, PositionsDiffer DEF Injection, IsInjective
<1>2. IsFiniteSet(DOMAIN items)
  BY ListType
<1>3. position \in Surjection(DOMAIN items, DOMAIN items)
  BY <1>1, <1>2, FS_Injection
<1> QED
  BY <1>3 DEF Surjection

\* The n-th item of the sorted list is the one whose position is n.
LEMMA SortedAt ==
    ASSUME NEW items \in ItemLists, NEW i \in DOMAIN items
    PROVE  Sorted(items)[Position(items, i)] = items[i]
<1> DEFINE n == Position(items, i)
           j == CHOOSE j \in DOMAIN items : Position(items, j) = n
<1>1. n \in DOMAIN items
  BY PositionRange
<1>2. j \in DOMAIN items /\ Position(items, j) = n
  OBVIOUS
<1>3. j = i
  BY <1>2, PositionsDiffer
<1> QED
  BY <1>1, <1>3 DEF Sorted

\* Sorting loses no item and adds none.
LEMMA SortedPermutes ==
    ASSUME NEW items \in ItemLists
    PROVE  /\ DOMAIN Sorted(items) = DOMAIN items
           /\ {Sorted(items)[n] : n \in DOMAIN items} = {items[i] : i \in DOMAIN items}
<1>1. DOMAIN Sorted(items) = DOMAIN items
  BY DEF Sorted
<1>2. ASSUME NEW n \in DOMAIN items PROVE \E i \in DOMAIN items : Sorted(items)[n] = items[i]
  <2>1. PICK i \in DOMAIN items : Position(items, i) = n
    BY PositionTaken
  <2> QED
    BY <2>1, SortedAt
<1>3. ASSUME NEW i \in DOMAIN items PROVE \E n \in DOMAIN items : items[i] = Sorted(items)[n]
  BY SortedAt, PositionRange
<1> QED
  BY <1>1, <1>2, <1>3

\* With no product listed twice the position of an item is the rank of its
\* product, which does not depend on where it is listed.
LEMMA PositionIsRank ==
    ASSUME NEW items \in ItemLists, Distinct(items), NEW i \in DOMAIN items
    PROVE  Position(items, i)
             = Cardinality({p \in ListedProducts(items) : p <= items[i].product})
<1> DEFINE below == {p \in ListedProducts(items) : p <= items[i].product}
           name == [j \in UpTo(items, i) |-> items[j].product]
<1>1. \A j \in DOMAIN items : j \in UpTo(items, i) <=> items[j].product <= items[i].product
  BY ListType DEF UpTo, Distinct
<1>2. name \in [UpTo(items, i) -> below]
  BY <1>1 DEF ListedProducts, UpTo
<1>3. \A p \in below : \E j \in UpTo(items, i) : name[j] = p
  BY <1>1 DEF ListedProducts
<1>4. \A j, k \in UpTo(items, i) : name[j] = name[k] => j = k
  BY DEF Distinct, UpTo
<1>5. name \in Bijection(UpTo(items, i), below)
  BY <1>2, <1>3, <1>4 DEF Bijection, Injection, Surjection, IsInjective
<1>6. IsFiniteSet(UpTo(items, i))
  BY ListType, FS_Subset DEF UpTo
<1>7. Cardinality(below) = Cardinality(UpTo(items, i))
  BY <1>5, <1>6, FS_Bijection DEF ExistsBijection
<1> QED
  BY <1>7 DEF Position, UpTo

\* Two lists of the same items are the same list once sorted.
LEMMA SortedDetermined ==
    ASSUME NEW a \in ItemLists, NEW b \in ItemLists, Distinct(a), Distinct(b),
           {a[i] : i \in DOMAIN a} = {b[i] : i \in DOMAIN b}
    PROVE  Sorted(a) = Sorted(b)
<1>1. ListedProducts(a) = ListedProducts(b)
  <2>1. ListedProducts(a) = {item.product : item \in {a[i] : i \in DOMAIN a}}
    BY DEF ListedProducts
  <2>2. ListedProducts(b) = {item.product : item \in {b[i] : i \in DOMAIN b}}
    BY DEF ListedProducts
  <2> QED
    BY <2>1, <2>2
<1>2. DOMAIN a = DOMAIN b
  <2>1. Len(a) = Len(b)
    BY <1>1, ListedOnce
  <2> QED
    BY <2>1, ListType
<1>3. ASSUME NEW n \in DOMAIN a PROVE Sorted(a)[n] = Sorted(b)[n]
  <2>1. PICK i \in DOMAIN a : Position(a, i) = n
    BY PositionTaken
  <2>2. PICK j \in DOMAIN b : b[j] = a[i]
    OBVIOUS
  <2>3. Position(b, j) = n
    BY <1>1, <2>1, <2>2, PositionIsRank
  <2>4. Sorted(a)[n] = a[i] /\ Sorted(b)[n] = b[j]
    BY <2>1, <2>3, SortedAt
  <2> QED
    BY <2>2, <2>4
<1>4. Sorted(a) = [n \in DOMAIN a |-> Sorted(a)[n]] /\ Sorted(b) = [n \in DOMAIN b |-> Sorted(b)[n]]
  BY DEF Sorted
<1> QED
  BY <1>2, <1>3, <1>4

\* A basket is the set of its items.
LEMMA BasketIsItems ==
    ASSUME NEW a \in ItemLists, NEW b \in ItemLists, Distinct(a), Distinct(b)
    PROVE  Basket(a) = Basket(b) <=> {a[i] : i \in DOMAIN a} = {b[i] : i \in DOMAIN b}
<1>1. ASSUME NEW items \in ItemLists, Distinct(items)
      PROVE  /\ DOMAIN Basket(items) = ListedProducts(items)
             /\ Basket(items) = [p \in DOMAIN Basket(items) |-> Basket(items)[p]]
             /\ \A i \in DOMAIN items : Basket(items)[items[i].product] = items[i].quantity
  <2>1. ASSUME NEW i \in DOMAIN items
        PROVE  (CHOOSE j \in DOMAIN items : items[j].product = items[i].product) = i
    BY <1>1 DEF Distinct
  <2>2. \A i \in DOMAIN items : items[i].product \in ListedProducts(items)
    BY DEF ListedProducts
  <2>3. ASSUME NEW i \in DOMAIN items PROVE Basket(items)[items[i].product] = items[i].quantity
    BY <2>1, <2>2 DEF Basket
  <2> QED
    BY <2>3 DEF Basket
<1>2. ASSUME NEW x \in ItemLists, NEW y \in ItemLists, Distinct(x), Distinct(y),
             Basket(x) = Basket(y), NEW i \in DOMAIN x
      PROVE  \E j \in DOMAIN y : y[j] = x[i]
  <2>1. x[i].product \in ListedProducts(y)
    BY <1>1, <1>2 DEF ListedProducts
  <2>2. PICK j \in DOMAIN y : y[j].product = x[i].product
    BY <2>1 DEF ListedProducts
  <2>3. y[j].quantity = x[i].quantity
    BY <1>1, <1>2, <2>2
  <2>4. /\ x[i] \in [product : ProductIds, quantity : Int]
        /\ y[j] \in [product : ProductIds, quantity : Int]
    BY ListType
  <2> QED
    BY <2>2, <2>3, <2>4
<1>3. ASSUME Basket(a) = Basket(b) PROVE {a[i] : i \in DOMAIN a} = {b[i] : i \in DOMAIN b}
  BY <1>2, <1>3
<1>4. ASSUME {a[i] : i \in DOMAIN a} = {b[i] : i \in DOMAIN b} PROVE Basket(a) = Basket(b)
  <2>1. \A i \in DOMAIN a : \E j \in DOMAIN b : b[j] = a[i]
    BY <1>4
  <2>2. \A j \in DOMAIN b : \E i \in DOMAIN a : b[j] = a[i]
    BY <1>4
  <2>3. ListedProducts(a) = ListedProducts(b)
    BY <2>1, <2>2 DEF ListedProducts
  <2>4. ASSUME NEW p \in ListedProducts(a) PROVE Basket(a)[p] = Basket(b)[p]
    <3>1. PICK i \in DOMAIN a : a[i].product = p
      BY DEF ListedProducts
    <3>2. PICK j \in DOMAIN b : b[j] = a[i]
      BY <2>1
    <3> QED
      BY <1>1, <3>1, <3>2
  <2> QED
    BY <1>1, <2>3, <2>4
<1> QED
  BY <1>3, <1>4

\* Whatever the order of the items: equal fingerprints, equal baskets, and
\* the other way round.
THEOREM FingerprintTellsBaskets ==
    ASSUME NEW p \in Payloads, NEW q \in Payloads, Admissible(p), Admissible(q),
           p.customer = q.customer
    PROVE  Fingerprint(p) = Fingerprint(q) <=> Basket(p.items) = Basket(q.items)
<1>1. p.items \in ItemLists /\ q.items \in ItemLists
  BY ApiAssumption DEF ItemLists
<1>2. Distinct(p.items) /\ Distinct(q.items)
  BY <1>1, ListedOnce DEF Admissible
<1>3. Fingerprint(p) = Fingerprint(q) <=> Sorted(p.items) = Sorted(q.items)
  <2>1. Fingerprint(p).of = <<p.customer, Sorted(p.items)>>
        /\ Fingerprint(q).of = <<q.customer, Sorted(q.items)>>
    BY DEF Fingerprint
  <2> QED
    BY <2>1 DEF Fingerprint
<1>4. Sorted(p.items) = Sorted(q.items)
        => {p.items[i] : i \in DOMAIN p.items} = {q.items[i] : i \in DOMAIN q.items}
  <2> SUFFICES ASSUME Sorted(p.items) = Sorted(q.items)
               PROVE  {p.items[i] : i \in DOMAIN p.items} = {q.items[i] : i \in DOMAIN q.items}
    OBVIOUS
  <2>1. DOMAIN p.items = DOMAIN q.items
    BY <1>1, SortedPermutes
  <2>2. {Sorted(p.items)[n] : n \in DOMAIN p.items} = {Sorted(q.items)[n] : n \in DOMAIN q.items}
    BY <2>1
  <2> QED
    BY <1>1, <2>2, SortedPermutes
<1> QED
  BY <1>1, <1>2, <1>3, <1>4, SortedDetermined, BasketIsItems

-----------------------------------------------------------------------------
(* What the handlers compute of a call.                                    *)

\* What every call sends.
LEMMA PayloadType ==
    ASSUME TypeInv, NEW r \in Requests
    PROVE  payload[r] \in Payloads /\ payload[r].items \in ItemLists
BY ApiAssumption DEF TypeInv, ItemLists

\* What the validator guarantees of an admitted call.
LEMMA AdmittedItems ==
    ASSUME TypeInv, NEW r \in Requests, Admissible(payload[r])
    PROVE  /\ Distinct(payload[r].items)
           /\ \A i \in DOMAIN payload[r].items :
                 /\ payload[r].items[i].quantity \in 1..MaxInteger
                 /\ payload[r].items[i].product \in ListedProducts(payload[r].items)
<1>1. Distinct(payload[r].items)
  BY PayloadType, ListedOnce DEF Admissible
<1>2. \A i \in DOMAIN payload[r].items : payload[r].items[i].quantity \in 1..MaxInteger
  BY ApiAssumption DEF Admissible
<1> QED
  BY <1>1, <1>2 DEF ListedProducts

\* A product of natural numbers.
LEMMA Product == \A a, b \in Nat : a * b \in Nat
  OBVIOUS

\* So many times whole cents are whole cents.
LEMMA TenTimes ==
    ASSUME NEW a \in Nat, NEW b \in Nat, a % 10 = 0
    PROVE  (a * b) % 10 = 0
<1> DEFINE k == a \div 10
<1>1. k \in Nat /\ a = 10 * k
  OBVIOUS
<1>2. k * b \in Nat
  BY <1>1, Product
<1>3. a * b = 10 * (k * b)
  BY <1>1
<1> HIDE DEF k
<1>4. (10 * (k * b)) % 10 = 0
  BY <1>2
<1> QED
  BY <1>3, <1>4

\* An amount of whole cents is stored and shown as it is.
LEMMA WholeCents ==
    ASSUME NEW amount \in Nat, amount % 10 = 0
    PROVE  ToColumn(amount) = amount /\ format_amount(amount) = amount
<1>1. 10 * ((amount + 5) \div 10) = amount
  OBVIOUS
<1>2. 10 * (amount \div 10) = amount
  OBVIOUS
<1> QED
  BY <1>1, <1>2 DEF ToColumn, format_amount

\* The columns of the two objects.
LEMMA ObjectFacts ==
    ASSUME NEW r
    PROVE  /\ Added(r).key = payload[r].key /\ Added(r).hash = Fingerprint(payload[r])
           /\ Added(r).total = 0
           /\ Filled(r).customer = payload[r].customer /\ Filled(r).key = payload[r].key
           /\ Filled(r).hash = Fingerprint(payload[r])
           /\ Filled(r).items = Lines(r) /\ Filled(r).total = Total(Lines(r))
BY DEF Added, Filled

\* The lines of a call that passed the checks are amounts of whole cents that
\* the total bounds.
LEMMA TotalType ==
    ASSUME TypeInv, CatalogInv, NEW r \in Requests, Checked(r)
    PROVE  /\ Total(Lines(r)) \in Nat /\ Total(Lines(r)) % 10 = 0
           /\ \A i \in DOMAIN Lines(r) :
                 /\ Lines(r)[i].unit_price \in 0..MaxAmount /\ Lines(r)[i].unit_price % 10 = 0
                 /\ LineTotal(Lines(r)[i]) \in Nat /\ LineTotal(Lines(r)[i]) % 10 = 0
                 /\ LineTotal(Lines(r)[i]) <= Total(Lines(r))
<1> DEFINE items == payload[r].items
           amounts == [i \in DOMAIN Lines(r) |-> LineTotal(Lines(r)[i])]
<1>1. DOMAIN Lines(r) = DOMAIN items /\ IsFiniteSet(DOMAIN items)
  BY PayloadType, ListType DEF Lines
<1>2. ASSUME NEW i \in DOMAIN items
      PROVE  /\ Lines(r)[i].unit_price \in 0..MaxAmount /\ Lines(r)[i].unit_price % 10 = 0
             /\ LineTotal(Lines(r)[i]) \in Nat /\ LineTotal(Lines(r)[i]) % 10 = 0
  <2>1. items[i].product \in DOMAIN products /\ items[i].quantity \in Nat
    BY AdmittedItems, ApiAssumption DEF Checked, Unknown
  <2>2. /\ products[items[i].product].price \in 0..MaxAmount
        /\ products[items[i].product].price % 10 = 0
    <3>1. products[items[i].product] \in [name : Names, price : 0..MaxAmount, stock : 0..MaxInteger]
      BY <2>1 DEF TypeInv
    <3> QED
      BY <2>1, <3>1 DEF CatalogInv
  <2>3. /\ Lines(r)[i].unit_price = products[items[i].product].price
        /\ Lines(r)[i].quantity = items[i].quantity
    BY DEF Lines, Line
  <2>4. Lines(r)[i].unit_price \in Nat /\ Lines(r)[i].unit_price % 10 = 0
    BY <2>2, <2>3, ApiAssumption
  <2> QED
    BY <2>1, <2>2, <2>3, <2>4, Product, TenTimes DEF LineTotal
<1>3. amounts \in [DOMAIN Lines(r) -> Nat] /\ \A i \in DOMAIN Lines(r) : amounts[i] % 10 = 0
  BY <1>1, <1>2
<1>4. \A i \in DOMAIN Lines(r) : amounts[i] = LineTotal(Lines(r)[i])
  OBVIOUS
<1>5. Total(Lines(r)) = SumFunction(amounts)
  BY DEF Total
<1> HIDE DEF amounts
<1>6. /\ SumFunction(amounts) \in Nat /\ SumFunction(amounts) % 10 = 0
      /\ \A i \in DOMAIN Lines(r) : amounts[i] <= SumFunction(amounts)
  BY <1>1, <1>3, SumType, SumOfTens, TermBelowSum
<1> QED
  BY <1>1, <1>2, <1>4, <1>5, <1>6

\* Prices stand still, so what was computed of a call can be computed again.
LEMMA ComputedAgain ==
    ASSUME TypeInv, NEW r \in Requests, Unknown(r) = {}, payload' = payload,
           \A p \in DOMAIN products :
               p \in DOMAIN products' /\ products'[p].price = products[p].price
    PROVE  /\ Unknown(r)' = {} /\ Lines(r)' = Lines(r)
           /\ Total(Lines(r))' = Total(Lines(r)) /\ Filled(r)' = Filled(r)
<1>1. Unknown(r)' = {}
  BY DEF Unknown, ListedProducts
<1>2. ASSUME NEW i \in DOMAIN payload[r].items
      PROVE  products'[payload[r].items[i].product].price = products[payload[r].items[i].product].price
  BY DEF Unknown, ListedProducts
<1>3. Lines(r)' = Lines(r)
  BY <1>2 DEF Lines, Line
<1>4. Total(Lines(r))' = Total(Lines(r))
  BY <1>3 DEF Total
<1> QED
  BY <1>1, <1>3, <1>4 DEF Filled, Added

\* And so can the rows that it made.
LEMMA RowsAgain ==
    ASSUME NEW r \in Requests, Filled(r)' = Filled(r)
    PROVE  /\ OrderRow(Filled(r))' = OrderRow(Filled(r))
           /\ ItemRows(r, Filled(r))' = ItemRows(r, Filled(r))
BY DEF OrderRow, ItemRows

\* The loop takes of each product what the basket says.
LEMMA LoopTakesBasket ==
    ASSUME NEW items \in ItemLists, Distinct(items),
           \A i \in DOMAIN items : items[i].quantity \in Nat, NEW p
    PROVE  TakenOf(items, p) = IF p \in ListedProducts(items) THEN Basket(items)[p] ELSE 0
<1> DEFINE f == [i \in Listed(items, p) |-> items[i].quantity]
<1>1. TakenOf(items, p) = SumFunction(f)
  BY DEF TakenOf
<1>2. CASE p \in ListedProducts(items)
  <2>1. PICK i \in DOMAIN items : items[i].product = p
    BY <1>2 DEF ListedProducts
  <2>2. Listed(items, p) = {i}
    BY <2>1 DEF Listed, Distinct
  <2>3. (CHOOSE j \in DOMAIN items : items[j].product = p) = i
    BY <2>1 DEF Distinct
  <2>4. Basket(items)[p] = items[i].quantity
    BY <1>2, <2>3 DEF Basket
  <2>5. f \in [{i} -> Nat] /\ f[i] = items[i].quantity
    BY <2>2
  <2> HIDE DEF f
  <2> QED
    BY <1>1, <1>2, <2>4, <2>5, SumSingleton
<1>3. CASE p \notin ListedProducts(items)
  <2>1. Listed(items, p) = {}
    BY <1>3 DEF ListedProducts, Listed
  <2>2. f \in [{} -> Nat]
    BY <2>1
  <2> HIDE DEF f
  <2> QED
    BY <1>1, <1>3, <2>2, SumEmpty
<1> QED
  BY <1>2, <1>3

\* What is left of each product when the loop is done: no stock is negative.
LEMMA LeftAfterLoop ==
    ASSUME TypeInv, NEW r \in Requests, Placeable(r), NEW p \in DOMAIN products
    PROVE  LET items == payload[r].items
               left  == Decremented(items)[p]
           IN  /\ left \in [name : Names, price : 0..MaxAmount, stock : 0..MaxInteger]
               /\ left.name = products[p].name /\ left.price = products[p].price
               /\ left.stock = IF p \in ListedProducts(items)
                                 THEN products[p].stock - Basket(items)[p] ELSE products[p].stock
               /\ p \in ListedProducts(items) => Basket(items)[p] <= products[p].stock
<1> DEFINE items == payload[r].items
           left == Decremented(items)[p]
<1>1. items \in ItemLists /\ Distinct(items)
  BY PayloadType, AdmittedItems DEF Placeable, Inserted, Handling
<1>2. \A i \in DOMAIN items : items[i].quantity \in Nat
  BY AdmittedItems, ApiAssumption DEF Placeable, Inserted, Handling
<1>3. TakenOf(items, p) = IF p \in ListedProducts(items) THEN Basket(items)[p] ELSE 0
  BY <1>1, <1>2, LoopTakesBasket
<1>4. left = [products[p] EXCEPT !.stock = products[p].stock - TakenOf(items, p)]
  BY DEF Decremented
<1>5. products[p] \in [name : Names, price : 0..MaxAmount, stock : 0..MaxInteger]
  BY DEF TypeInv
<1>6. ASSUME p \in ListedProducts(items)
      PROVE  Basket(items)[p] \in Nat /\ Basket(items)[p] <= products[p].stock
  <2>1. PICK i \in DOMAIN items : items[i].product = p
    BY <1>6 DEF ListedProducts
  <2>2. (CHOOSE j \in DOMAIN items : items[j].product = p) = i
    BY <1>1, <2>1 DEF Distinct
  <2>3. Basket(items)[p] = items[i].quantity
    BY <1>6, <2>2 DEF Basket
  <2>4. ~ (products[p].stock < items[i].quantity)
    BY <2>1 DEF Placeable, Shortages
  <2> QED
    BY <1>2, <1>5, <2>3, <2>4, ApiAssumption
<1>7. /\ TakenOf(items, p) \in Nat /\ TakenOf(items, p) <= products[p].stock
      /\ products[p].stock - TakenOf(items, p) =
            IF p \in ListedProducts(items)
              THEN products[p].stock - Basket(items)[p] ELSE products[p].stock
  BY <1>3, <1>5, <1>6, ApiAssumption
<1>8. products[p].stock - TakenOf(items, p) \in 0..MaxInteger
  BY <1>5, <1>7, ApiAssumption
<1>9. /\ left \in [name : Names, price : 0..MaxAmount, stock : 0..MaxInteger]
      /\ left.name = products[p].name /\ left.price = products[p].price
      /\ left.stock = products[p].stock - TakenOf(items, p)
  BY <1>4, <1>5, <1>8
<1> QED
  BY <1>6, <1>7, <1>9

\* No constraint is hit by the first flush.
LEMMA FirstFlushFits ==
    ASSUME NEW r \in Requests, Admissible(payload[r])
    PROVE  OrderFits(OrderRow(Flushed(r, 1)))
<1>1. Flushed(r, 1) = Added(r) /\ ToColumn(0) = 0
  BY WholeCents DEF Flushed
<1>2. /\ OrderRow(Added(r)).key = payload[r].key /\ OrderRow(Added(r)).total = 0
      /\ OrderRow(Added(r)).hash = Fingerprint(payload[r])
  BY <1>1, ObjectFacts DEF OrderRow
<1>3. Fingerprint(payload[r]).length = 64
  BY DEF Fingerprint
<1> QED
  BY <1>1, <1>2, <1>3, ApiAssumption DEF OrderFits, Admissible

\* Of all the constraints of the tables, only the size of the total can be
\* violated by a call that passed the checks.
LEMMA OnlyTheTotalFails ==
    ASSUME TypeInv, CatalogInv, NEW r \in Requests, Placeable(r)
    PROVE  Fits(r) <=> Total(Lines(r)) <= MaxAmount
<1> DEFINE items == payload[r].items
           table == Decremented(items)
<1>1. Checked(r)
  BY DEF Placeable, Inserted, Handling, Checked
<1>2. Total(Lines(r)) \in Nat /\ Total(Lines(r)) % 10 = 0
  BY <1>1, TotalType
<1>3. DOMAIN table = DOMAIN products
  BY DEF Decremented
<1>4. ASSUME NEW p \in DOMAIN table PROVE ProductFits(table[p])
  <2>1. /\ table[p] \in [name : Names, price : 0..MaxAmount, stock : 0..MaxInteger]
        /\ table[p].name = products[p].name
    BY <1>3, LeftAfterLoop
  <2>2. ProductFits(products[p])
    BY <1>3 DEF CatalogInv
  <2> HIDE DEF table
  <2> QED
    BY <2>1, <2>2 DEF ProductFits
<1>5. /\ DOMAIN Lines(r) = DOMAIN items
      /\ \A i \in DOMAIN items : /\ Lines(r)[i].product = items[i].product
                                 /\ Lines(r)[i].quantity = items[i].quantity
  BY DEF Lines, Line
<1>6. \A i \in DOMAIN items : items[i].product \in DOMAIN products
  BY <1>1, AdmittedItems DEF Checked, Unknown
<1>7. ASSUME NEW i \in DOMAIN items
      PROVE  /\ items[i].quantity \in 1..MaxInteger
             /\ ToColumn(Lines(r)[i].unit_price) \in 0..MaxAmount
  <2>1. Lines(r)[i].unit_price \in 0..MaxAmount /\ Lines(r)[i].unit_price % 10 = 0
    BY <1>1, <1>5, TotalType
  <2>2. ToColumn(Lines(r)[i].unit_price) = Lines(r)[i].unit_price
    BY <2>1, WholeCents, ApiAssumption
  <2> QED
    BY <1>1, <2>1, <2>2, AdmittedItems DEF Checked
<1>8. \A i, j \in DOMAIN items : items[i].product = items[j].product => i = j
  BY <1>1, AdmittedItems DEF Checked, Distinct
<1>9. ItemsFit(Lines(r))
  BY <1>5, <1>6, <1>7, <1>8 DEF ItemsFit
<1>10. OrderFits(OrderRow(Filled(r))) <=> Total(Lines(r)) \in 0..MaxAmount
  <2>1. OrderRow(Filled(r)).total = Total(Lines(r))
    BY <1>2, ObjectFacts, WholeCents DEF OrderRow
  <2>2. /\ OrderRow(Filled(r)).key = payload[r].key
        /\ OrderRow(Filled(r)).hash = Fingerprint(payload[r])
    BY ObjectFacts DEF OrderRow
  <2>3. Fingerprint(payload[r]).length = 64
    BY DEF Fingerprint
  <2> QED
    BY <1>1, <2>1, <2>2, <2>3 DEF OrderFits, Checked, Admissible
<1>11. Flushed(r, 2) = Filled(r) /\ Filled(r).items = Lines(r)
  BY ObjectFacts DEF Flushed
<1> HIDE DEF table
<1>12. Fits(r) <=> Total(Lines(r)) \in 0..MaxAmount
  BY <1>4, <1>9, <1>10, <1>11 DEF Fits, table
<1> QED
  BY <1>2, <1>12, ApiAssumption

\* What is to be seen of the order that a call makes.
Shown(r) ==
    [customer |-> payload[r].customer, total |-> Total(Lines(r)),
     items |-> {[product |-> Lines(r)[i].product, quantity |-> Lines(r)[i].quantity,
                 unit_price |-> Lines(r)[i].unit_price, line_total |-> LineTotal(Lines(r)[i])]
                   : i \in DOMAIN Lines(r)}]

\* The columns round nothing, so the session's objects and the rows show the
\* same.
LEMMA ObjectsAndRows ==
    ASSUME TypeInv, CatalogInv, NEW r \in Requests, Checked(r)
    PROVE  /\ Response(Filled(r), Range(Filled(r).items)) = Shown(r)
           /\ Response(OrderRow(Filled(r)), ItemRows(r, Filled(r))) = Shown(r)
<1> DEFINE lines == Lines(r)
           objects == Range(Filled(r).items)
           rows == ItemRows(r, Filled(r))
           row(i) == [order |-> r, product |-> lines[i].product, quantity |-> lines[i].quantity,
                      unit_price |-> ToColumn(lines[i].unit_price)]
           shown(line) == [product |-> line.product, quantity |-> line.quantity,
                           unit_price |-> format_amount(line.unit_price),
                           line_total |-> format_amount(LineTotal(line))]
           item(i) == [product |-> lines[i].product, quantity |-> lines[i].quantity,
                       unit_price |-> lines[i].unit_price, line_total |-> LineTotal(lines[i])]
<1>1. /\ Total(lines) \in Nat /\ Total(lines) % 10 = 0
      /\ \A i \in DOMAIN lines : /\ lines[i].unit_price \in Nat /\ lines[i].unit_price % 10 = 0
                                 /\ LineTotal(lines[i]) \in Nat /\ LineTotal(lines[i]) % 10 = 0
  BY TotalType, ApiAssumption
<1>2. ToColumn(Total(lines)) = Total(lines) /\ format_amount(Total(lines)) = Total(lines)
  BY <1>1, WholeCents
<1>3. ASSUME NEW i \in DOMAIN lines
      PROVE  shown(lines[i]) = item(i) /\ shown(row(i)) = item(i)
  <2>1. /\ ToColumn(lines[i].unit_price) = lines[i].unit_price
        /\ format_amount(lines[i].unit_price) = lines[i].unit_price
        /\ format_amount(LineTotal(lines[i])) = LineTotal(lines[i])
    BY <1>1, WholeCents
  <2>2. LineTotal(row(i)) = LineTotal(lines[i])
    BY <2>1 DEF LineTotal
  <2> QED
    BY <2>1, <2>2
<1>4. objects = {lines[i] : i \in DOMAIN lines}
  BY ObjectFacts DEF Range
<1>5. rows = {row(i) : i \in DOMAIN lines}
  BY <1>4 DEF ItemRows
<1>6. {shown(line) : line \in objects} = {item(i) : i \in DOMAIN lines}
  <2> HIDE DEF shown, item, lines, objects
  <2> QED
    BY <1>3, <1>4
<1>7. {shown(line) : line \in rows} = {item(i) : i \in DOMAIN lines}
  <2> HIDE DEF shown, item, lines, row, rows
  <2> QED
    BY <1>3, <1>5
<1>8. Response(Filled(r), objects) = Shown(r)
  BY <1>2, <1>6, ObjectFacts DEF Response, Shown
<1>9. /\ OrderRow(Filled(r)).customer = payload[r].customer
      /\ OrderRow(Filled(r)).total = Total(lines)
  BY <1>2, ObjectFacts DEF OrderRow
<1>10. Response(OrderRow(Filled(r)), rows) = Shown(r)
  BY <1>2, <1>7, <1>9 DEF Response, Shown
<1> QED
  BY <1>8, <1>10

-----------------------------------------------------------------------------
(* The invariant.                                                          *)

\* Nothing is stored, answered or shown at the start.
LEMMA InitInv == Init => ApiInv
<1> SUFFICES ASSUME Init PROVE ApiInv
  OBVIOUS
<1>1. DOMAIN products = {} /\ DOMAIN orders = {}
  BY DEF Init
<1>2. TypeInv
  BY <1>1 DEF Init, TypeInv
<1>3. CatalogInv /\ RowsInv /\ AnswersInv
  BY <1>1 DEF Init, CatalogInv, RowsInv, AnswersInv
<1> QED
  BY <1>2, <1>3 DEF ApiInv

\* Nothing that the tables hold, or that the handlers compute of them, changes.
TablesSame ==
    \A q \in Requests :
        /\ Lines(q)' = Lines(q) /\ Total(Lines(q))' = Total(Lines(q)) /\ Checked(q)' = Checked(q)
        /\ OrderRow(Filled(q))' = OrderRow(Filled(q))
        /\ ItemRows(q, Filled(q))' = ItemRows(q, Filled(q))
        /\ ItemsOf(q)' = ItemsOf(q) /\ Stored(q)' = Stored(q) /\ Existing(q)' = Existing(q)

LEMMA SameTables ==
    ASSUME UNCHANGED <<payload, products, orders, orderItems>>
    PROVE  TablesSame
<1>1. ASSUME NEW q \in Requests
      PROVE  Lines(q)' = Lines(q) /\ Filled(q)' = Filled(q)
  BY DEF Lines, Line, Filled, Added, Total
<1>2. ASSUME NEW q \in Requests PROVE Total(Lines(q))' = Total(Lines(q))
  BY <1>1 DEF Total
<1>3. ASSUME NEW q \in Requests
      PROVE  /\ Checked(q)' = Checked(q) /\ Existing(q)' = Existing(q)
             /\ ItemsOf(q)' = ItemsOf(q) /\ Stored(q)' = Stored(q)
  BY DEF Checked, Unknown, Existing, ItemsOf, Stored
<1> QED
  BY <1>1, <1>2, <1>3, RowsAgain DEF TablesSame

\* An answer that stores nothing and shows nothing, and blames a total that
\* does not fit if it is a failure.
LEMMA RefuseInv ==
    ASSUME ApiInv, NEW r \in Requests, reply[r] = "none",
           NEW verdict \in DOMAIN StatusOf \ {"created", "replayed"},
           verdict = "error" => Checked(r) /\ Total(Lines(r)) > MaxAmount,
           Refuse(r, verdict)
    PROVE  ApiInv'
<1> USE DEF ApiInv
<1>1. /\ UNCHANGED <<payload, products, orders, orderItems, productReply, views>>
      /\ reply' = [reply EXCEPT ![r] = verdict]
  BY DEF Refuse
<1>2. \A q \in Requests : reply'[q] = IF q = r THEN verdict ELSE reply[q]
  BY <1>1 DEF TypeInv
<1>3. TypeInv' /\ CatalogInv'
  BY <1>1 DEF TypeInv, CatalogInv, ProductFits
<1>4. TablesSame
  BY <1>1, SameTables
<1>5. RowsInv'
  <2>1. {q \in Requests : reply'[q] = "created"} = {q \in Requests : reply[q] = "created"}
    BY <1>2
  <2>2. DOMAIN orders' = DOMAIN orders /\ DOMAIN orders \subseteq Requests
    BY <1>1 DEF RowsInv
  <2> QED
    BY <1>1, <1>4, <2>1, <2>2 DEF RowsInv, TablesSame
<1>6. AnswersInv'
  BY <1>1, <1>2, <1>4 DEF AnswersInv, RowsInv, TablesSame
<1> QED
  BY <1>3, <1>5, <1>6

\* A look at an order shows it as it is.
LEMMA LookInv ==
    ASSUME ApiInv, NEW o \in DOMAIN orders,
           views' = views \union {<<o, Stored(o)>>},
           reply' = reply \/ \E r \in Requests : /\ reply[r] = "none" /\ o \in Existing(r)
                                                /\ reply' = [reply EXCEPT ![r] = "replayed"],
           UNCHANGED <<payload, products, orders, orderItems, productReply>>
    PROVE  ApiInv'
<1> USE DEF ApiInv
<1>1. TypeInv' /\ CatalogInv'
  BY DEF TypeInv, CatalogInv, StatusOf
<1>2. TablesSame
  BY SameTables
<1>3. \A q \in Requests :
        /\ reply'[q] = "created" <=> reply[q] = "created"
        /\ reply'[q] = "error" <=> reply[q] = "error"
        /\ reply'[q] = "replayed" => reply[q] = "replayed" \/ Existing(q) # {}
  BY DEF TypeInv
<1>4. RowsInv'
  <2>1. {q \in Requests : reply'[q] = "created"} = {q \in Requests : reply[q] = "created"}
    BY <1>3
  <2>2. DOMAIN orders' = DOMAIN orders /\ DOMAIN orders \subseteq Requests
    BY DEF RowsInv
  <2> QED
    BY <1>2, <2>1, <2>2 DEF RowsInv, TablesSame
<1>5. AnswersInv'
  <2>1. \A v \in views' : v[1] \in DOMAIN orders /\ v = <<v[1], Stored(v[1])>>
    BY DEF AnswersInv
  <2>2. \A v \in views' : v[1] \in DOMAIN orders' /\ v = <<v[1], Stored(v[1])'>>
    BY <1>2, <2>1 DEF RowsInv, TablesSame
  <2>3. \A q \in Requests : reply'[q] = "error" => Checked(q)' /\ Total(Lines(q))' > MaxAmount
    BY <1>2, <1>3 DEF AnswersInv, TablesSame
  <2>4. \A q \in Requests : reply'[q] = "replayed" => Existing(q)' # {}
    BY <1>2, <1>3 DEF AnswersInv, TablesSame
  <2> QED
    BY <2>2, <2>3, <2>4 DEF AnswersInv
<1> QED
  BY <1>1, <1>4, <1>5

\* What the tables hold of an order, and show.
LEMMA RowFacts ==
    ASSUME ApiInv, NEW o \in DOMAIN orders
    PROVE  /\ o \in Requests /\ Checked(o) /\ Total(Lines(o)) <= MaxAmount
           /\ orders[o].customer = payload[o].customer /\ orders[o].key = payload[o].key
           /\ orders[o].hash = Fingerprint(payload[o])
           /\ Stored(o) = Shown(o)
<1>1. /\ o \in Requests /\ Checked(o) /\ Total(Lines(o)) <= MaxAmount
      /\ orders[o] = OrderRow(Filled(o)) /\ ItemsOf(o) = ItemRows(o, Filled(o))
  BY DEF ApiInv, RowsInv
<1>2. /\ OrderRow(Filled(o)).customer = payload[o].customer
      /\ OrderRow(Filled(o)).key = payload[o].key
      /\ OrderRow(Filled(o)).hash = Fingerprint(payload[o])
  BY ObjectFacts DEF OrderRow
<1>3. Stored(o) = Shown(o)
  BY <1>1, ObjectsAndRows DEF Stored, ApiInv
<1> QED
  BY <1>1, <1>2, <1>3

\* The row of an admitted product, and what can be wrong with it.
LEMMA ProductRowFacts ==
    ASSUME NEW p \in ProductIds, AdmissibleProduct(Draft[p])
    PROVE  LET row == ProductRow(ProductObject(p))
           IN  /\ row \in [name : Names, price : 0..MaxAmount, stock : Nat]
               /\ row.name = Strip(Draft[p].name) /\ row.price = Draft[p].price
               /\ row.price % 10 = 0
               /\ ~ ProductFits(row) => Draft[p].stock > MaxInteger \/ Draft[p].name.nul
<1> DEFINE draft == Draft[p]
           row == ProductRow(ProductObject(p))
<1>1. /\ draft \in [name : Names, price : Int, stock : Int]
      /\ draft.name \in Names /\ draft.price \in 0..MaxAmount /\ draft.price % 10 = 0
      /\ draft.stock \in Nat /\ Strip(draft.name).length \in 1..MaxLength
  BY ApiAssumption DEF AdmissibleProduct
<1>2. ToColumn(draft.price) = draft.price
  BY <1>1, WholeCents, ApiAssumption
<1>3. /\ Strip(draft.name) \in Names /\ Strip(draft.name).padding = 0
      /\ Strip(draft.name).nul = draft.name.nul
  BY <1>1 DEF Strip, Names
<1>4. row = [name |-> Strip(draft.name), price |-> draft.price, stock |-> draft.stock]
  <2>1. ProductObject(p) = [name |-> Strip(draft.name), price |-> draft.price, stock |-> draft.stock]
    BY <1>1 DEF ProductObject
  <2>2. row = [ProductObject(p) EXCEPT !.price = ToColumn(ProductObject(p).price)]
    BY DEF ProductRow
  <2> HIDE DEF draft
  <2> QED
    BY <1>2, <2>1, <2>2
<1> HIDE DEF row, draft
<1>5. ~ ProductFits(row) => draft.stock > MaxInteger \/ draft.name.nul
  BY <1>1, <1>3, <1>4, ApiAssumption DEF ProductFits
<1> QED
  BY <1>1, <1>3, <1>4, <1>5 DEF row, draft

\* Orders do not notice that the catalogue grows.
LEMMA NewProductInv ==
    ASSUME ApiInv, TypeInv', CatalogInv',
           UNCHANGED <<payload, orders, orderItems, reply, views>>,
           \A q \in DOMAIN products : q \in DOMAIN products' /\ products'[q] = products[q]
    PROVE  ApiInv'
<1> USE DEF ApiInv
<1>1. ASSUME NEW q \in Requests, Checked(q)
      PROVE  /\ Checked(q)' /\ Total(Lines(q))' = Total(Lines(q))
             /\ OrderRow(Filled(q))' = OrderRow(Filled(q))
             /\ ItemRows(q, Filled(q))' = ItemRows(q, Filled(q))
  BY <1>1, ComputedAgain, RowsAgain DEF Checked
<1>2. \A q \in Requests : /\ ItemsOf(q)' = ItemsOf(q) /\ Stored(q)' = Stored(q)
                          /\ Existing(q)' = Existing(q)
  BY DEF ItemsOf, Stored, Existing
<1>3. RowsInv'
  BY <1>1, <1>2 DEF RowsInv
<1>4. AnswersInv'
  BY <1>1, <1>2 DEF AnswersInv, RowsInv
<1> QED
  BY <1>3, <1>4

\* A new product is one that no call has been judged by yet.
LEMMA CreateProductInv ==
    ASSUME ApiInv, NEW p \in ProductIds, CreateProduct(p)
    PROVE  ApiInv'
<1> USE DEF ApiInv
<1> DEFINE row == ProductRow(ProductObject(p))
           Types == [name : Names, price : 0..MaxAmount, stock : 0..MaxInteger]
<1>1. /\ UNCHANGED <<payload, orders, orderItems, reply, views>> /\ productReply[p] = "none"
      /\ p \notin DOMAIN products
  BY DEF CreateProduct, CatalogInv
<1>2. \/ /\ AdmissibleProduct(Draft[p]) /\ ProductFits(row) /\ products' = With(products, p, row)
         /\ productReply' = [productReply EXCEPT ![p] = "created"]
      \/ /\ products' = products
         /\ \/ productReply' = [productReply EXCEPT ![p] = "malformed"]
            \/ /\ productReply' = [productReply EXCEPT ![p] = "error"]
               /\ AdmissibleProduct(Draft[p]) /\ ~ ProductFits(row)
  BY DEF CreateProduct
<1>3. AdmissibleProduct(Draft[p]) =>
        /\ row \in [name : Names, price : 0..MaxAmount, stock : Nat]
        /\ row.name = Strip(Draft[p].name) /\ row.price = Draft[p].price /\ row.price % 10 = 0
        /\ ~ ProductFits(row) => Draft[p].stock > MaxInteger \/ Draft[p].name.nul
  BY ProductRowFacts
<1> HIDE DEF row
<1>4. CASE /\ AdmissibleProduct(Draft[p]) /\ ProductFits(row) /\ products' = With(products, p, row)
           /\ productReply' = [productReply EXCEPT ![p] = "created"]
  <2>1. /\ DOMAIN products' = DOMAIN products \union {p} /\ products'[p] = row
        /\ \A q \in DOMAIN products : products'[q] = products[q]
    BY <1>1, <1>4 DEF With
  <2>2. row \in Types
    BY <1>3, <1>4 DEF ProductFits
  <2>3. products' = [q \in DOMAIN products' |-> products'[q]]
    BY <1>4 DEF With
  <2>4. products' \in [DOMAIN products' -> Types]
    BY <2>1, <2>2, <2>3 DEF TypeInv
  <2>5. TypeInv'
    BY <1>1, <1>4, <2>4 DEF TypeInv
  <2>6. DOMAIN products' = {q \in ProductIds : productReply'[q] = "created"}
    BY <1>4, <2>1 DEF CatalogInv, TypeInv
  <2>7. \A q \in DOMAIN products' :
          /\ ProductFits(products'[q]) /\ products'[q].price % 10 = 0
          /\ products'[q].name = Strip(Draft[q].name) /\ products'[q].price = Draft[q].price
    BY <1>3, <1>4, <2>1 DEF CatalogInv
  <2>8. \A q \in ProductIds : productReply'[q] = "error" =>
          Draft[q].stock > MaxInteger \/ Draft[q].name.nul
    BY <1>4 DEF CatalogInv, TypeInv
  <2> QED
    BY <1>1, <2>1, <2>5, <2>6, <2>7, <2>8, NewProductInv DEF CatalogInv
<1>5. CASE /\ products' = products
           /\ \/ productReply' = [productReply EXCEPT ![p] = "malformed"]
              \/ /\ productReply' = [productReply EXCEPT ![p] = "error"]
                 /\ AdmissibleProduct(Draft[p]) /\ ~ ProductFits(row)
  <2>1. TypeInv'
    BY <1>1, <1>5 DEF TypeInv
  <2>2. CatalogInv'
    BY <1>1, <1>3, <1>5 DEF TypeInv, CatalogInv
  <2> QED
    BY <1>1, <1>5, <2>1, <2>2, NewProductInv
<1> QED
  BY <1>2, <1>4, <1>5

\* An order is created with the only use of its key.
LEMMA CreateInv ==
    ASSUME ApiInv, NEW r \in Requests, Create(r)
    PROVE  ApiInv'
<1> USE DEF ApiInv
<1> DEFINE row == OrderRow(Filled(r))
           rows == ItemRows(r, Filled(r))
           Types == [name : Names, price : 0..MaxAmount, stock : 0..MaxInteger]
<1>1. /\ Placeable(r) /\ Checked(r) /\ reply[r] = "none"
      /\ products' = Decremented(payload[r].items)
      /\ orders' = With(orders, r, row) /\ orderItems' = orderItems \union rows
      /\ views' = views \union {<<r, Response(Filled(r), Range(Filled(r).items))>>}
      /\ reply' = [reply EXCEPT ![r] = "created"]
      /\ UNCHANGED <<payload, productReply>>
  BY DEF Create, Flushed, Placeable, Inserted, Handling, Checked
<1>2. Total(Lines(r)) <= MaxAmount
  BY <1>1, OnlyTheTotalFails DEF Create
<1>3. r \notin DOMAIN orders
  BY <1>1 DEF RowsInv
<1>4. /\ DOMAIN orders' = DOMAIN orders \union {r} /\ orders'[r] = row
      /\ \A o \in DOMAIN orders : orders'[o] = orders[o]
  BY <1>1, <1>3 DEF With
<1>5. DOMAIN products' = DOMAIN products
  BY <1>1 DEF Decremented
<1>6. \A p \in DOMAIN products : /\ products'[p] \in Types
                                /\ products'[p].name = products[p].name
                                /\ products'[p].price = products[p].price
  BY <1>1, LeftAfterLoop
<1>7. TypeInv' /\ CatalogInv'
  <2>1. products' = [p \in DOMAIN products' |-> products'[p]]
    BY <1>1 DEF Decremented
  <2>2. products' \in [DOMAIN products' -> Types]
    BY <1>5, <1>6, <2>1
  <2>3. reply' \in [Requests -> DOMAIN StatusOf \union {"none"}]
    BY <1>1 DEF TypeInv, StatusOf
  <2>4. TypeInv'
    BY <1>1, <2>2, <2>3 DEF TypeInv
  <2>5. \A p \in DOMAIN products : ProductFits(products[p]) => ProductFits(products'[p])
    BY <1>6 DEF ProductFits
  <2>6. CatalogInv'
    BY <1>1, <1>5, <1>6, <2>5 DEF CatalogInv
  <2> QED
    BY <2>4, <2>6
<1>7A. /\ ItemsOf(r)' = rows
       /\ \A o \in DOMAIN orders : ItemsOf(o)' = ItemsOf(o)
  <2>1. \A line \in orderItems : line.order # r
    BY <1>3 DEF RowsInv
  <2>2. \A line \in rows : line.order = r
    BY DEF ItemRows
  <2> HIDE DEF rows
  <2> QED
    BY <1>1, <1>3, <2>1, <2>2 DEF ItemsOf
<1>8. ASSUME NEW q \in Requests, Checked(q)
      PROVE  /\ Checked(q)' /\ Total(Lines(q))' = Total(Lines(q))
             /\ OrderRow(Filled(q))' = OrderRow(Filled(q))
             /\ ItemRows(q, Filled(q))' = ItemRows(q, Filled(q))
  BY <1>1, <1>5, <1>6, <1>8, ComputedAgain, RowsAgain DEF Checked
<1>9. \A q \in Requests : reply'[q] = IF q = r THEN "created" ELSE reply[q]
  BY <1>1 DEF TypeInv
<1>10. RowsInv'
  <2>1. DOMAIN orders' = {q \in Requests : reply'[q] = "created"}
    BY <1>4, <1>9 DEF RowsInv
  <2>2. ASSUME NEW o \in DOMAIN orders'
        PROVE  /\ Checked(o)' /\ Total(Lines(o))' <= MaxAmount
               /\ orders'[o] = OrderRow(Filled(o))' /\ ItemsOf(o)' = ItemRows(o, Filled(o))'
    <3>1. CASE o = r
      BY <1>1, <1>2, <1>4, <1>7A, <1>8, <3>1
    <3>2. CASE o \in DOMAIN orders
      BY <1>4, <1>7A, <1>8, <3>2 DEF RowsInv
    <3> QED
      BY <1>4, <3>1, <3>2
  <2>2A. \A line \in orderItems' : line.order \in DOMAIN orders'
    BY <1>1, <1>4 DEF RowsInv, ItemRows
  <2>3. \A o \in DOMAIN orders : ~ (payload[o].customer = payload[r].customer
                                    /\ payload[o].key = payload[r].key)
    <3>1. \A o \in DOMAIN orders : orders[o].customer = payload[o].customer
                                   /\ orders[o].key = payload[o].key
      BY RowFacts
    <3> QED
      BY <1>1, <3>1 DEF Placeable, Inserted, Existing
  <2>4. \A o, q \in DOMAIN orders' : payload[o].customer = payload[q].customer
                                     /\ payload[o].key = payload[q].key => o = q
    BY <1>4, <2>3 DEF RowsInv
  <2> QED
    BY <1>1, <2>1, <2>2, <2>2A, <2>4 DEF RowsInv
<1>11. AnswersInv'
  <2>1. \A q \in Requests : reply'[q] = "error" => Checked(q)' /\ Total(Lines(q))' > MaxAmount
    BY <1>8, <1>9 DEF AnswersInv
  <2>2. \A q \in Requests : Existing(q) \subseteq Existing(q)'
    BY <1>1, <1>4 DEF Existing
  <2>3. \A q \in Requests : reply'[q] = "replayed" => Existing(q)' # {}
    BY <1>9, <2>2 DEF AnswersInv
  <2>4. /\ Stored(r)' = Response(Filled(r), Range(Filled(r).items))
        /\ \A o \in DOMAIN orders : Stored(o)' = Stored(o)
    <3>1. Stored(r)' = Response(row, rows)
      BY <1>4, <1>7A DEF Stored
    <3>2. Response(row, rows) = Response(Filled(r), Range(Filled(r).items))
      BY <1>1, ObjectsAndRows
    <3>3. \A o \in DOMAIN orders : Stored(o)' = Stored(o)
      BY <1>4, <1>7A DEF Stored
    <3> QED
      BY <3>1, <3>2, <3>3
  <2>5. \A v \in views' : v[1] \in DOMAIN orders' /\ v = <<v[1], Stored(v[1])'>>
    BY <1>1, <1>4, <2>4 DEF AnswersInv
  <2> QED
    BY <2>1, <2>3, <2>5 DEF AnswersInv
<1> QED
  BY <1>7, <1>10, <1>11

\* Every step keeps the invariant.
LEMMA StepInv == ApiInv /\ [Next]_vars => ApiInv'
<1> SUFFICES ASSUME ApiInv, [Next]_vars PROVE ApiInv'
  OBVIOUS
<1>1. ASSUME NEW p \in ProductIds, CreateProduct(p) PROVE ApiInv'
  BY <1>1, CreateProductInv
<1>2. ASSUME NEW r \in Requests,
             Reject(r) \/ RefuseKey(r) \/ RefuseUnknown(r) \/ RefuseShortage(r)
      PROVE  ApiInv'
  BY <1>2, RefuseInv DEF Reject, RefuseKey, RefuseUnknown, RefuseShortage, Inserted, Handling,
                         StatusOf
<1>3. ASSUME NEW r \in Requests, FlushFails(r) PROVE ApiInv'
  <2>1. Placeable(r) /\ ~ Fits(r) /\ Checked(r) /\ reply[r] = "none"
    BY <1>3, FirstFlushFits DEF FlushFails, Placeable, Inserted, Handling, Checked
  <2>2. Total(Lines(r)) > MaxAmount
    BY <2>1, OnlyTheTotalFails, TotalType, ApiAssumption DEF ApiInv
  <2> QED
    BY <1>3, <2>1, <2>2, RefuseInv DEF FlushFails, StatusOf
<1>4. ASSUME NEW r \in Requests, Create(r) PROVE ApiInv'
  BY <1>4, CreateInv
<1>5. ASSUME NEW r \in Requests, Replay(r) PROVE ApiInv'
  <2>1. PICK o \in Existing(r) : views' = views \union {<<o, Stored(o)>>}
    BY <1>5 DEF Replay
  <2> QED
    BY <1>5, <2>1, LookInv DEF Replay, Handling, Existing
<1>6. ASSUME NEW r \in Requests, GetOrder(r) PROVE ApiInv'
  BY <1>6, LookInv DEF GetOrder
<1>7. CASE UNCHANGED vars
  <2>1. TablesSame
    BY <1>7, SameTables DEF vars
  <2>2. TypeInv' /\ CatalogInv'
    BY <1>7 DEF vars, ApiInv, TypeInv, CatalogInv
  <2>3. RowsInv'
    BY <1>7, <2>1 DEF vars, ApiInv, RowsInv, TablesSame
  <2>4. AnswersInv'
    BY <1>7, <2>1 DEF vars, ApiInv, RowsInv, AnswersInv, TablesSame
  <2> QED
    BY <2>2, <2>3, <2>4 DEF ApiInv
<1> QED
  BY <1>1, <1>2, <1>3, <1>4, <1>5, <1>6, <1>7 DEF Next

-----------------------------------------------------------------------------
(* The theorems.                                                           *)

\* Every reachable state satisfies the inductive invariant: prices stand
\* still, and rows, views and failures are what the payloads make of them.
THEOREM ApiInvariant == Spec => []ApiInv
<1>1. ApiInv /\ [Next]_vars => ApiInv'
  BY StepInv
<1> QED
  BY InitInv, <1>1, PTL DEF Spec

\* The validation refuses all that the constraints of the tables would: only
\* a number too large for its column or a NUL can be blamed for a failure.
THEOREM FailuresAreUnstorable == Spec => []OnlyUnstorableFails
<1>1. ApiInv => OnlyUnstorableFails
  BY DEF ApiInv, CatalogInv, AnswersInv, OnlyUnstorableFails
<1> QED
  BY <1>1, ApiInvariant, PTL

\* What a product costs and what it is called does not depend on whether the
\* object of the session or the row is shown: validation lets no amount
\* through that the column has to round.
THEOREM ProductsAreListed == Spec => []ListedAsAnswered
<1>1. ApiInv => ListedAsAnswered
  <2> SUFFICES ASSUME ApiInv, NEW p \in DOMAIN products
               PROVE  ProductResponse(products[p]) = ProductResponse(ProductObject(p))
    BY DEF ListedAsAnswered
  <2>1. p \in ProductIds /\ products[p].name = Strip(Draft[p].name)
        /\ products[p].price = Draft[p].price
    BY DEF ApiInv, CatalogInv
  <2>2. ProductObject(p).name = Strip(Draft[p].name) /\ ProductObject(p).price = Draft[p].price
    BY <2>1, ApiAssumption DEF ProductObject
  <2> QED
    BY <2>1, <2>2 DEF ProductResponse
<1> QED
  BY <1>1, ApiInvariant, PTL

\* The items of a response, one for each line: no two lines of an order
\* are alike, so the set of them adds up to the total of the list.
LEMMA ResponseAddsUp ==
    ASSUME ApiInv, NEW o \in DOMAIN orders
    PROVE  LET shown == Shown(o)
           IN  /\ shown.total = SumFunction([line \in shown.items |-> line.line_total])
               /\ shown.total <= MaxAmount
               /\ \A line \in shown.items : line.line_total \in Nat /\ line.line_total <= shown.total
<1> DEFINE lines == Lines(o)
           item(i) == [product |-> lines[i].product, quantity |-> lines[i].quantity,
                       unit_price |-> lines[i].unit_price, line_total |-> LineTotal(lines[i])]
           shown == Shown(o)
           f == [i \in DOMAIN lines |-> LineTotal(lines[i])]
           g == [line \in shown.items |-> line.line_total]
           h == [i \in DOMAIN lines |-> item(i)]
<1>0. TypeInv /\ CatalogInv /\ o \in Requests /\ Checked(o) /\ Total(lines) <= MaxAmount
  BY RowFacts DEF ApiInv
<1>1. shown.items = {item(i) : i \in DOMAIN lines} /\ shown.total = Total(lines)
  BY DEF Shown
<1>2. /\ Total(lines) = SumFunction(f)
      /\ \A i \in DOMAIN lines : LineTotal(lines[i]) \in Nat /\ LineTotal(lines[i]) <= Total(lines)
  BY <1>0, TotalType DEF Total
<1>3. IsFiniteSet(DOMAIN lines)
  BY <1>0, PayloadType, ListType DEF Lines
<1>4. \A i, j \in DOMAIN lines : lines[i].product = lines[j].product => i = j
  <2>1. Distinct(payload[o].items)
    BY <1>0, AdmittedItems DEF Checked
  <2>2. DOMAIN lines = DOMAIN payload[o].items
        /\ \A i \in DOMAIN lines : lines[i].product = payload[o].items[i].product
    BY DEF Lines, Line
  <2> QED
    BY <2>1, <2>2 DEF Distinct
<1>5. \A i \in DOMAIN lines : /\ item(i).product = lines[i].product
                              /\ item(i).line_total = LineTotal(lines[i])
  OBVIOUS
<1> HIDE DEF item, shown, lines
<1>6. h \in Bijection(DOMAIN lines, shown.items)
  <2>1. h \in [DOMAIN lines -> shown.items] /\ \A t \in shown.items : \E i \in DOMAIN lines : h[i] = t
    BY <1>1
  <2>2. \A i, j \in DOMAIN lines : h[i] = h[j] => i = j
    BY <1>4, <1>5
  <2> QED
    BY <2>1, <2>2 DEF Bijection, Injection, Surjection, IsInjective
<1>7. f \in [DOMAIN lines -> Nat] /\ g \in [shown.items -> Nat]
  BY <1>1, <1>2, <1>5
<1>8. \A i \in DOMAIN lines : g[h[i]] = f[i]
  BY <1>1, <1>5
<1> HIDE DEF f, g, h
<1>9. SumFunction(g) = SumFunction(f)
  BY <1>3, <1>6, <1>7, <1>8, SumRenamed
<1>10. \A line \in shown.items : line.line_total \in Nat /\ line.line_total <= shown.total
  BY <1>1, <1>2, <1>5
<1> QED
  BY <1>0, <1>1, <1>2, <1>9, <1>10 DEF shown, g

\* An order looks the same whenever and however it is looked at, and its
\* total is the sum of the lines shown.
THEOREM ViewsAlwaysAgree == Spec => []ViewsAgree
<1>1. ApiInv => ViewsAgree
  <2> SUFFICES ASSUME ApiInv, NEW v \in views
               PROVE  /\ \A w \in views : v[1] = w[1] => v = w
                      /\ v[2].total = SumFunction([line \in v[2].items |-> line.line_total])
                      /\ \A line \in v[2].items : line.line_total \in 0..MaxAmount
    BY DEF ViewsAgree
  <2>1. \A w \in views : w[1] \in DOMAIN orders /\ w = <<w[1], Stored(w[1])>>
    BY DEF ApiInv, AnswersInv
  <2>2. v[1] \in DOMAIN orders /\ v[2] = Shown(v[1])
    BY <2>1, RowFacts
  <2>3. \A w \in views : v[1] = w[1] => v = w
    BY <2>1
  <2>4. /\ v[2].total = SumFunction([line \in v[2].items |-> line.line_total])
        /\ v[2].total <= MaxAmount
        /\ \A line \in v[2].items : line.line_total \in Nat /\ line.line_total <= v[2].total
    BY <2>2, ResponseAddsUp
  <2>5. v[2].total \in Nat
    BY <2>2, RowFacts, TotalType DEF ApiInv, Shown
  <2>6. \A line \in v[2].items : line.line_total \in 0..MaxAmount
    BY <2>4, <2>5, ApiAssumption
  <2> QED
    BY <2>3, <2>4, <2>6
<1> QED
  BY <1>1, ApiInvariant, PTL

\* The order with r's key, if there is one, is the only one.
LEMMA ExistingIs ==
    ASSUME ApiInv, NEW r \in Requests
    PROVE  /\ \A o \in DOMAIN orders : o \in Existing(r) <=>
                 payload[o].customer = payload[r].customer /\ payload[o].key = payload[r].key
           /\ \A o, q \in Existing(r) : o = q
<1>1. \A o \in DOMAIN orders : o \in Existing(r) <=>
          payload[o].customer = payload[r].customer /\ payload[o].key = payload[r].key
  BY RowFacts DEF Existing
<1>2. Existing(r) \subseteq DOMAIN orders
  BY DEF Existing
<1> QED
  BY <1>1, <1>2 DEF ApiInv, RowsInv

\* The hashes tell whether the call repeats the order.
LEMMA HashTellsBaskets ==
    ASSUME ApiInv, NEW r \in Requests, Admissible(payload[r]), NEW o \in Existing(r)
    PROVE  orders[o].hash = Fingerprint(payload[r])
             <=> Basket(payload[o].items) = Basket(payload[r].items)
<1>1. o \in DOMAIN orders /\ o \in Requests
  BY RowFacts DEF Existing
<1>2. orders[o].hash = Fingerprint(payload[o]) /\ Admissible(payload[o])
      /\ payload[o].customer = payload[r].customer
  BY <1>1, RowFacts, ExistingIs DEF Checked
<1>3. payload[o] \in Payloads /\ payload[r] \in Payloads
  BY <1>1, PayloadType DEF ApiInv
<1> QED
  BY <1>2, <1>3, FingerprintTellsBaskets

\* A repeated call is a replay and a reused key a conflict, in whatever order
\* the items are listed and whatever has been sold since.
THEOREM RepeatsAlwaysReplay == Spec => RepeatsAreReplays
<1> DEFINE Replays ==
      \A o, r \in Requests :
          /\ reply[o] = "created" /\ reply[r] = "none" /\ reply'[r] # "none"
          /\ payload[r].customer = payload[o].customer /\ payload[r].key = payload[o].key
          /\ Admissible(payload[r])
          => StatusOf[reply'[r]] =
                IF Basket(payload[r].items) = Basket(payload[o].items) THEN 200 ELSE 409
<1>1. ApiInv /\ [Next]_vars => Replays
  <2> SUFFICES ASSUME ApiInv, [Next]_vars, NEW o \in Requests, NEW r \in Requests,
                      reply[o] = "created", reply[r] = "none", reply'[r] # "none",
                      payload[r].customer = payload[o].customer, payload[r].key = payload[o].key,
                      Admissible(payload[r])
               PROVE  StatusOf[reply'[r]] =
                        IF Basket(payload[r].items) = Basket(payload[o].items) THEN 200 ELSE 409
    OBVIOUS
  <2>1. o \in Existing(r)
    BY ExistingIs DEF ApiInv, RowsInv
  <2>2. \A q \in Existing(r) : q = o
    BY <2>1, ExistingIs
  <2>3. ASSUME NEW q \in Requests, NEW verdict, reply' = [reply EXCEPT ![q] = verdict]
        PROVE  q = r /\ reply'[r] = verdict
    BY <2>3 DEF ApiInv, TypeInv
  <2>4. CASE Replay(r)
    <3>1. orders[o].hash = Fingerprint(payload[r]) /\ reply'[r] = "replayed"
      BY <2>2, <2>3, <2>4 DEF Replay
    <3> QED
      BY <2>1, <3>1, HashTellsBaskets DEF StatusOf
  <2>5. CASE RefuseKey(r)
    <3>1. orders[o].hash # Fingerprint(payload[r]) /\ reply'[r] = "key_conflict"
      BY <2>2, <2>3, <2>5 DEF RefuseKey, Refuse
    <3> QED
      BY <2>1, <3>1, HashTellsBaskets DEF StatusOf
  <2>6. ~ \E p \in ProductIds : CreateProduct(p)
    BY DEF CreateProduct
  <2>7. \A q \in Requests : ~ GetOrder(q)
    BY DEF GetOrder
  <2>8. ~ (Reject(r) \/ RefuseUnknown(r) \/ RefuseShortage(r) \/ FlushFails(r) \/ Create(r))
    BY <2>1 DEF Reject, RefuseUnknown, RefuseShortage, FlushFails, Create, Placeable, Inserted
  <2>9. ASSUME NEW q \in Requests,
               \/ Reject(q) \/ Replay(q) \/ RefuseKey(q) \/ RefuseUnknown(q)
               \/ RefuseShortage(q) \/ FlushFails(q) \/ Create(q)
        PROVE  q = r
    BY <2>3, <2>9 DEF Reject, Replay, RefuseKey, RefuseUnknown, RefuseShortage, FlushFails, Create,
                      Refuse
  <2> QED
    BY <2>4, <2>5, <2>6, <2>7, <2>8, <2>9 DEF Next, vars
<1>2. (ApiInv /\ [Next]_vars => Replays) => (ApiInv /\ [Next]_vars => [Replays]_vars)
  OBVIOUS
<1> QED
  BY <1>1, ApiInvariant, PTL DEF Spec, RepeatsAreReplays

-----------------------------------------------------------------------------
(* OrderApi implements OrderLedger.                                        *)

\* The calls, as the ledger sees them, never change.
LEMMA BodySame == payload' = payload => LedgerBody' = LedgerBody
BY DEF LedgerBody, Basket, ListedProducts

\* The basket of a call and its products.
LEMMA BodyOf ==
    ASSUME NEW r \in Requests
    PROVE  /\ LedgerBody[r].items = Basket(payload[r].items)
           /\ LedgerBody[r].key = <<payload[r].customer, payload[r].key>>
           /\ Ledger!Ordered(r) = ListedProducts(payload[r].items)
BY DEF LedgerBody, Ledger!Ordered, Basket

\* What is found for a call is one of the ledger's orders, its basket told by the hash.
LEMMA ExistingInLedger ==
    ASSUME ApiInv, NEW r \in Requests, Admissible(payload[r]), NEW o \in Existing(r)
    PROVE  /\ o \in DOMAIN orders /\ Ledger!SameKey(o, r)
           /\ orders[o].hash = Fingerprint(payload[r])
                <=> LedgerBody[o].items = LedgerBody[r].items
<1>1. o \in DOMAIN orders /\ o \in Requests
  BY RowFacts DEF Existing
<1>2. payload[o].customer = payload[r].customer /\ payload[o].key = payload[r].key
  BY <1>1, ExistingIs
<1> QED
  BY <1>1, <1>2, BodyOf, HashTellsBaskets DEF Ledger!SameKey

\* Nothing found: the key is free in the ledger.
LEMMA NothingExists ==
    ASSUME ApiInv, NEW r \in Requests, Existing(r) = {}
    PROVE  Ledger!KeyIsFree(r)
<1> SUFFICES ASSUME NEW o \in DOMAIN orders, Ledger!SameKey(o, r) PROVE FALSE
  BY DEF Ledger!KeyIsFree
<1>1. o \in Requests
  BY RowFacts
<1>2. payload[o].customer = payload[r].customer /\ payload[o].key = payload[r].key
  BY <1>1, BodyOf DEF Ledger!SameKey
<1> QED
  BY <1>2, ExistingIs

\* An answer to an admitted call is one in the ledger.
LEMMA AnswerStep ==
    ASSUME ApiInv, NEW r \in Requests, reply[r] = "none",
           NEW verdict \in DOMAIN StatusOf \ {"malformed"},
           reply' = [reply EXCEPT ![r] = verdict]
    PROVE  /\ LedgerAnswer[r] = "pending"
           /\ LedgerAnswer' = [LedgerAnswer EXCEPT ![r] = verdict]
<1>1. \A q \in Requests : reply'[q] = IF q = r THEN verdict ELSE reply[q]
  BY DEF ApiInv, TypeInv
<1>2. verdict \notin {"none", "malformed"}
  BY DEF StatusOf
<1>3. \A q \in Requests :
        (IF reply'[q] \in {"none", "malformed"} THEN "pending" ELSE reply'[q])
          = IF q = r THEN verdict ELSE LedgerAnswer[q]
  BY <1>1, <1>2 DEF LedgerAnswer
<1> QED
  BY <1>3 DEF LedgerAnswer

\* A refusal in the ledger.
LEMMA RefusalStep ==
    ASSUME ApiInv, NEW r \in Requests, reply[r] = "none",
           NEW verdict \in DOMAIN StatusOf \ {"malformed", "created", "replayed"},
           Refuse(r, verdict)
    PROVE  Ledger!Answer(r, verdict, {})
<1>1. /\ UNCHANGED <<payload, products, orders, productReply>>
      /\ reply' = [reply EXCEPT ![r] = verdict]
  BY DEF Refuse
<1>2. \A q \in Requests : Existing(q)' = Existing(q)
  BY <1>1 DEF Existing
<1>3. \A q \in Requests : reply'[q] = IF q = r THEN verdict ELSE reply[q]
  BY <1>1 DEF ApiInv, TypeInv
<1>4. LedgerReturned' = [LedgerReturned EXCEPT ![r] = {}]
  BY <1>2, <1>3 DEF LedgerReturned
<1>5. LedgerBody' = LedgerBody /\ LedgerStock' = LedgerStock
  BY <1>1, BodySame DEF LedgerStock
<1> QED
  BY <1>1, <1>4, <1>5, AnswerStep DEF Ledger!Answer

\* A product that is not stored is no step of the ledger, and one that is
\* comes with its supply.
LEMMA CreateProductStep ==
    ASSUME ApiInv, NEW p \in ProductIds, CreateProduct(p)
    PROVE  Ledger!LedgerNext \/ UNCHANGED Ledger!ledgerVars
<1>1. UNCHANGED <<payload, orders, reply>> /\ productReply[p] = "none"
  BY DEF CreateProduct
<1>2. p \notin DOMAIN products
  BY <1>1 DEF ApiInv, CatalogInv
<1>3. LedgerBody' = LedgerBody /\ LedgerAnswer' = LedgerAnswer /\ LedgerReturned' = LedgerReturned
  BY <1>1, BodySame DEF LedgerAnswer, LedgerReturned, Existing
<1>4. CASE products' = products
  BY <1>1, <1>3, <1>4 DEF Ledger!ledgerVars, LedgerStock
<1>5. CASE products' = With(products, p, ProductRow(ProductObject(p)))
  <2> DEFINE row == ProductRow(ProductObject(p))
  <2>0. row.stock = Draft[p].stock
    BY ApiAssumption DEF ProductRow, ProductObject
  <2> HIDE DEF row
  <2>1. /\ DOMAIN products' = DOMAIN products \union {p} /\ products'[p].stock = Draft[p].stock
        /\ \A q \in DOMAIN products : products'[q] = products[q]
    BY <1>2, <1>5, <2>0 DEF With, row
  <2>2. LedgerStock' = [LedgerStock EXCEPT ![p] = Draft[p].stock]
    BY <2>1 DEF LedgerStock
  <2>3. Ledger!CreateProduct(p)
    BY <1>1, <1>2, <1>3, <2>1, <2>2 DEF Ledger!CreateProduct
  <2> QED
    BY <2>3 DEF Ledger!LedgerNext
<1> QED
  BY <1>4, <1>5 DEF CreateProduct

\* A look shows the ledger nothing.
LEMMA GetOrderStep ==
    ASSUME NEW o \in Requests, GetOrder(o)
    PROVE  UNCHANGED Ledger!ledgerVars
<1>1. UNCHANGED <<payload, products, orders, reply>>
  BY DEF GetOrder
<1> QED
  BY <1>1, BodySame DEF Ledger!ledgerVars, LedgerStock, LedgerAnswer, LedgerReturned, Existing

\* Nor does a call that is not admitted.
LEMMA RejectStep ==
    ASSUME ApiInv, NEW r \in Requests, Reject(r)
    PROVE  UNCHANGED Ledger!ledgerVars
<1>1. /\ UNCHANGED <<payload, products, orders>> /\ reply[r] = "none"
      /\ reply' = [reply EXCEPT ![r] = "malformed"]
  BY DEF Reject, Refuse
<1>2. \A q \in Requests : reply'[q] = IF q = r THEN "malformed" ELSE reply[q]
  BY <1>1 DEF ApiInv, TypeInv
<1>3. LedgerAnswer' = LedgerAnswer /\ LedgerReturned' = LedgerReturned
  BY <1>1, <1>2 DEF LedgerAnswer, LedgerReturned, Existing
<1> QED
  BY <1>1, <1>3, BodySame DEF Ledger!ledgerVars, LedgerStock

\* A replay shows the order that the ledger shows.
LEMMA ReplayStep ==
    ASSUME ApiInv, NEW r \in Requests, Replay(r)
    PROVE  Ledger!Replay(r)
<1>1. PICK o \in Existing(r) : orders[o].hash = Fingerprint(payload[r])
  BY DEF Replay
<1>2. /\ UNCHANGED <<payload, products, orders>> /\ reply[r] = "none" /\ Admissible(payload[r])
      /\ reply' = [reply EXCEPT ![r] = "replayed"]
  BY DEF Replay, Handling
<1>3. Existing(r) = {o}
  BY <1>1, ExistingIs
<1>4. \A q \in Requests : reply'[q] = IF q = r THEN "replayed" ELSE reply[q]
  BY <1>2 DEF ApiInv, TypeInv
<1>5. \A q \in Requests : Existing(q)' = Existing(q)
  BY <1>2 DEF Existing
<1>6. LedgerReturned' = [LedgerReturned EXCEPT ![r] = {o}]
  BY <1>3, <1>4, <1>5 DEF LedgerReturned
<1>7. Ledger!Answer(r, "replayed", {o})
  BY <1>2, <1>6, AnswerStep, BodySame DEF Ledger!Answer, LedgerStock, StatusOf
<1> QED
  BY <1>1, <1>2, <1>7, ExistingInLedger DEF Ledger!Replay

\* The loop over the items is the ledger's taking of the basket.
LEMMA CreateStep ==
    ASSUME ApiInv, NEW r \in Requests, Create(r)
    PROVE  Ledger!Place(r, "created", {r})
<1> DEFINE items == payload[r].items
<1>1. /\ Placeable(r) /\ Checked(r) /\ reply[r] = "none" /\ Existing(r) = {} /\ TypeInv
      /\ products' = Decremented(items) /\ payload' = payload
      /\ orders' = With(orders, r, OrderRow(Filled(r)))
      /\ reply' = [reply EXCEPT ![r] = "created"]
  BY DEF Create, Flushed, Placeable, Inserted, Handling, Checked, ApiInv
<1>2. /\ DOMAIN orders' = DOMAIN orders \union {r} /\ r \notin DOMAIN orders
      /\ \A o \in DOMAIN orders : orders'[o] = orders[o]
  BY <1>1 DEF With, ApiInv, RowsInv
<1>3. DOMAIN products' = DOMAIN products /\ DOMAIN products \subseteq ProductIds
  BY <1>1 DEF Decremented, ApiInv, CatalogInv
<1>4. ListedProducts(items) \subseteq DOMAIN products
  BY <1>1 DEF Checked, Unknown
<1>5. \A p \in DOMAIN products :
        /\ products'[p].stock = IF p \in ListedProducts(items)
                                  THEN products[p].stock - Basket(items)[p] ELSE products[p].stock
        /\ p \in ListedProducts(items) => Basket(items)[p] <= products[p].stock
  BY <1>1, LeftAfterLoop
<1>6. /\ LedgerBody[r].items = Basket(items) /\ Ledger!Ordered(r) = ListedProducts(items)
      /\ LedgerBody' = LedgerBody
  BY <1>1, BodyOf, BodySame
<1>7. /\ \A p \in Ledger!Ordered(r) : p \in DOMAIN products /\ LedgerBody[r].items[p] <= LedgerStock[p]
      /\ LedgerStock' = [p \in ProductIds |->
                           IF p \in Ledger!Ordered(r)
                             THEN LedgerStock[p] - LedgerBody[r].items[p] ELSE LedgerStock[p]]
  <2>1. \A p \in Ledger!Ordered(r) : p \in DOMAIN products /\ LedgerBody[r].items[p] <= LedgerStock[p]
    BY <1>3, <1>4, <1>5, <1>6 DEF LedgerStock
  <2>2. ASSUME NEW p \in ProductIds
        PROVE  (IF p \in DOMAIN products' THEN products'[p].stock ELSE 0)
                 = IF p \in Ledger!Ordered(r)
                     THEN LedgerStock[p] - LedgerBody[r].items[p] ELSE LedgerStock[p]
    BY <1>3, <1>4, <1>5, <1>6 DEF LedgerStock
  <2> QED
    BY <2>1, <2>2 DEF LedgerStock
<1>8. \A q \in Requests : reply'[q] = IF q = r THEN "created" ELSE reply[q]
  BY <1>1 DEF ApiInv, TypeInv
<1>9. ASSUME NEW q \in Requests, reply[q] = "replayed" PROVE Existing(q)' = Existing(q)
  <2>1. PICK o \in Existing(q) : TRUE
    BY <1>9 DEF ApiInv, AnswersInv
  <2>2. payload[o].customer = payload[q].customer /\ payload[o].key = payload[q].key /\ o \in DOMAIN orders
    BY <2>1, ExistingIs DEF Existing
  <2>3. ~ (payload[r].customer = payload[q].customer /\ payload[r].key = payload[q].key)
    BY <1>1, <2>2, ExistingIs
  <2>4. orders'[r].customer = payload[r].customer /\ orders'[r].key = payload[r].key
    BY <1>1, ObjectFacts DEF With, OrderRow
  <2> QED
    BY <1>1, <1>2, <2>3, <2>4 DEF Existing
<1>10. LedgerReturned' = [LedgerReturned EXCEPT ![r] = {r}]
  BY <1>8, <1>9 DEF LedgerReturned
<1>11. LedgerAnswer[r] = "pending" /\ LedgerAnswer' = [LedgerAnswer EXCEPT ![r] = "created"]
  BY <1>1, AnswerStep DEF StatusOf
<1> QED
  BY <1>1, <1>2, <1>3, <1>6, <1>7, <1>10, <1>11, NothingExists DEF Ledger!Place

\* Each step is a step of the ledger or invisible to it.
LEMMA LedgerStep == ApiInv /\ [Next]_vars => [Ledger!LedgerNext]_(Ledger!ledgerVars)
<1> SUFFICES ASSUME ApiInv, [Next]_vars
             PROVE  Ledger!LedgerNext \/ UNCHANGED Ledger!ledgerVars
  OBVIOUS
<1>1. ASSUME NEW r \in Requests, RefuseKey(r) PROVE Ledger!RefuseKey(r)
  <2>1. PICK o \in Existing(r) : orders[o].hash # Fingerprint(payload[r])
    BY <1>1 DEF RefuseKey
  <2>2. Ledger!Answer(r, "key_conflict", {})
    BY <1>1, RefusalStep DEF RefuseKey, Handling, StatusOf
  <2> QED
    BY <1>1, <2>1, <2>2, ExistingInLedger DEF RefuseKey, Handling, Ledger!RefuseKey
<1>2. ASSUME NEW r \in Requests, RefuseUnknown(r) PROVE Ledger!RefuseUnknown(r)
  <2>1. Ledger!Answer(r, "products_not_found", {})
    BY <1>2, RefusalStep DEF RefuseUnknown, Inserted, Handling, StatusOf
  <2> QED
    BY <1>2, <2>1, BodyOf DEF RefuseUnknown, Unknown, Ledger!RefuseUnknown
<1>3. ASSUME NEW r \in Requests, RefuseShortage(r) PROVE Ledger!RefuseShortage(r)
  <2>1. Ledger!Answer(r, "insufficient_stock", {})
    BY <1>3, RefusalStep DEF RefuseShortage, Inserted, Handling, StatusOf
  <2>2. PICK i \in DOMAIN payload[r].items :
            products[payload[r].items[i].product].stock < payload[r].items[i].quantity
    BY <1>3 DEF RefuseShortage, Shortages
  <2> DEFINE items == payload[r].items
             p == items[i].product
  <2>3. TypeInv /\ Distinct(items) /\ p \in ListedProducts(items)
    BY <1>3, AdmittedItems DEF RefuseShortage, Inserted, Handling, ApiInv
  <2>4. p \in DOMAIN products /\ p \in ProductIds
    BY <1>3, <2>3 DEF RefuseShortage, Unknown, ApiInv, CatalogInv
  <2>5. (CHOOSE j \in DOMAIN items : items[j].product = p) = i
    BY <2>3 DEF Distinct
  <2>6. Basket(items)[p] = items[i].quantity
    BY <2>3, <2>5 DEF Basket
  <2>7. LedgerStock[p] = products[p].stock
    BY <2>4 DEF LedgerStock
  <2> QED
    BY <2>1, <2>2, <2>3, <2>4, <2>6, <2>7, BodyOf DEF Ledger!RefuseShortage
<1>4. ASSUME NEW r \in Requests, FlushFails(r) PROVE Ledger!GiveUp(r)
  BY <1>4, RefusalStep DEF FlushFails, Handling, StatusOf, Ledger!GiveUp
<1>5. CASE UNCHANGED vars
  BY <1>5, BodySame DEF vars, Ledger!ledgerVars, LedgerStock, LedgerAnswer, LedgerReturned, Existing
<1> QED
  BY <1>1, <1>2, <1>3, <1>4, <1>5, CreateProductStep, RejectStep, ReplayStep, CreateStep, GetOrderStep
     DEF Next, Ledger!LedgerNext

\* Item lists in any order, canonical fingerprints, rows and the constraints
\* of the tables: together they answer each call as the ledger answers for
\* its basket.
THEOREM Refinement == Spec => ImplementsLedger
<1>1. Init => Ledger!LedgerInit
  <2> SUFFICES ASSUME Init PROVE Ledger!LedgerInit
    OBVIOUS
  <2>1. DOMAIN products = {} /\ DOMAIN orders = {} /\ \A r \in Requests : reply[r] = "none"
    BY DEF Init
  <2>2. /\ LedgerStock = [p \in ProductIds |-> 0]
        /\ LedgerAnswer = [r \in Requests |-> "pending"]
        /\ LedgerReturned = [r \in Requests |-> {}]
    BY <2>1 DEF LedgerStock, LedgerAnswer, LedgerReturned
  <2> QED
    BY <2>1, <2>2 DEF Ledger!LedgerInit
<1> QED
  BY <1>1, LedgerStep, ApiInvariant, PTL
     DEF Spec, ImplementsLedger, Ledger!LedgerSpec

=============================================================================
