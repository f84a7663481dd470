------------------------- MODULE OrderServiceProofs -------------------------
(* Theorems about OrderService, for any calls, keys, products and baskets.  *)
EXTENDS OrderService, SumTheorems

-----------------------------------------------------------------------------
(* Type correctness of what the actions share.                              *)

\* The answers and the phases of an open request are different things.
LEMMA PhaseFacts ==
    /\ Active \intersect Answers = {}
    /\ InTransaction \subseteq Active
BY DEF Active, Answers, InTransaction

\* A basket gives each of its products, all of them known ids, a natural quantity.
LEMMA BasketType ==
    ASSUME TypeOK, NEW r \in Requests
    PROVE  /\ Ordered(r) \subseteq ProductIds
           /\ \A p \in Ordered(r) : body[r].items[p] \in Nat
<1>1. body[r] \in Bodies
  BY DEF TypeOK
<1>2. body[r].items \in Baskets
  BY <1>1 DEF Bodies
<1> QED
  BY <1>2, BasketAssumption DEF Ordered

\* Product ids are naturals, so that "in id order" means something.
LEMMA IdsAreNatural == ProductIds \subseteq Nat
BY ProductAssumption

\* The end of a transaction leaves every per-request variable well typed.
LEMMA EndType ==
    ASSUME TypeOK, NEW r \in Requests, NEW next \in Active \union Answers,
           NEW shown \in SUBSET Requests, End(r, next, shown)
    PROVE  /\ body' \in [Requests -> Bodies]
           /\ phase' \in [Requests -> Active \union Answers]
           /\ locked' \in [Requests -> SUBSET ProductIds]
           /\ seen' \in [Requests -> [ProductIds -> Nat]]
           /\ returned' \in [Requests -> SUBSET Requests]
<1>1. Nothing \in [ProductIds -> Nat]
  BY DEF Nothing
<1> QED
  BY <1>1 DEF TypeOK, End

-----------------------------------------------------------------------------
(* The initial states.                                                      *)

\* Nothing is open, locked or recorded at the start.
LEMMA InitInv == Init => TransactionInv
<1> SUFFICES ASSUME Init PROVE TransactionInv
  OBVIOUS
<1>1. TypeOK
  BY DEF Init, TypeOK, Nothing, Active
<1>2. KeyInv /\ LockInv /\ ReadyInv /\ OrdersInv /\ RecoverInv
  BY DEF Init, KeyInv, LockInv, ReadyInv, OrdersInv, RecoverInv, RecoveryFindsOrder,
         Inserted, Wanted, Active
<1> QED
  BY <1>1, <1>2 DEF TransactionInv

-----------------------------------------------------------------------------
(* The steps, one lemma for each.                                           *)

\* A new product is in nobody's basket that matters and under nobody's lock.
LEMMA CreateProductInv ==
    ASSUME TransactionInv, NEW p \in ProductIds, CreateProduct(p)
    PROVE  TransactionInv'
<1> USE DEF TransactionInv
<1>1. TypeOK'
  BY ProductAssumption DEF TypeOK, CreateProduct
<1>2. \A r \in Requests : p \notin locked[r]
  BY DEF LockInv, Wanted, CreateProduct
<1>3. \A r \in Requests : phase[r] # "begin" => Wanted(r)' = Wanted(r)
  BY DEF CreateProduct, Wanted, Ordered
<1>4. LockInv'
  <2> SUFFICES ASSUME NEW r \in Requests
               PROVE  /\ r \notin Inserted' => locked'[r] = {}
                      /\ locked'[r] \subseteq Wanted(r)'
                      /\ \A q \in locked'[r] : seen'[r][q] = stock'[q]
                      /\ \A s \in locked'[r], q \in Wanted(r)' \ locked'[r] : s < q
                      /\ \A q \in Requests \ {r} : locked'[q] \intersect locked'[r] = {}
    BY DEF LockInv
  <2>1. CASE r \in Inserted
    <3>1. Wanted(r)' = Wanted(r)
      BY <2>1, <1>3 DEF Inserted
    <3> QED
      BY <2>1, <3>1, <1>2 DEF CreateProduct, LockInv, TypeOK, Inserted
  <2>2. CASE r \notin Inserted
    BY <2>2 DEF CreateProduct, LockInv, Inserted
  <2> QED
    BY <2>1, <2>2
<1>5. KeyInv' /\ ReadyInv' /\ OrdersInv' /\ RecoverInv'
  BY DEF CreateProduct, KeyInv, ReadyInv, OrdersInv, RecoverInv, RecoveryFindsOrder,
         Inserted, Existing, Ordered
<1> QED
  BY <1>1, <1>4, <1>5

\* A transaction that ends without a trace, in the recovery or with an
\* answer that its order justifies.
LEMMA EndInv ==
    ASSUME TransactionInv, NEW r \in Requests, NEW next, NEW shown,
           next \in (Answers \ {"created", "integrity_error"}) \union {"recover"},
           phase[r] \in Active,
           next = "recover" => Existing(r) # {} /\ shown = {},
           shown \subseteq {o \in orders : body[o] = body[r]},
           End(r, next, shown), UNCHANGED tables
    PROVE  TransactionInv'
<1> USE DEF TransactionInv
<1>0. r \notin orders /\ shown \subseteq Requests /\ next \in Active \union Answers
  BY PhaseFacts DEF OrdersInv, TypeOK, Active, Answers, InTransaction
<1>1. TypeOK'
  BY <1>0, EndType DEF TypeOK, tables
<1>2. Inserted' = Inserted \ {r}
  BY DEF Inserted, End, TypeOK, Answers
<1>3. KeyInv'
  BY <1>2 DEF KeyInv, End, tables, Existing, Inserted
<1>4. LockInv'
  <2>1. \A q \in Requests : Wanted(q)' = Wanted(q)
    BY DEF Wanted, Ordered, End, tables
  <2>2. locked'[r] = {}
    BY DEF End, TypeOK
  <2>3. \A q \in Requests \ {r} : locked'[q] = locked[q] /\ seen'[q] = seen[q]
    BY DEF End, TypeOK
  <2> QED
    BY <1>2, <2>1, <2>2, <2>3 DEF LockInv, tables
<1>5. ReadyInv'
  BY DEF ReadyInv, End, TypeOK, Ordered, Answers
<1>6. OrdersInv'
  <2>1. \A o \in orders : phase'[o] = phase[o]
    BY <1>0 DEF End, TypeOK
  <2>2. \A q \in Requests : \A o \in returned'[q] : o \in orders /\ body[o] = body[q]
    BY DEF OrdersInv, End, TypeOK
  <2>3. \A q \in Requests : phase'[q] \in Active => returned'[q] = {}
    BY PhaseFacts DEF OrdersInv, End, TypeOK
  <2> QED
    BY <2>1, <2>2, <2>3 DEF OrdersInv, End, tables, Ordered
<1>7. RecoverInv'
  BY DEF RecoverInv, RecoveryFindsOrder, Existing, End, tables, TypeOK
<1> QED
  BY <1>1, <1>3, <1>4, <1>5, <1>6, <1>7

\* The verdict of _find_replay on a committed order is an ending of that kind.
LEMMA AnswerFromExistingInv ==
    ASSUME TransactionInv, NEW r \in Requests, phase[r] \in Active,
           AnswerFromExisting(r)
    PROVE  TransactionInv'
<1>1. PICK o \in Existing(r) :
        /\ IF SameRequest(o, r) THEN End(r, "replayed", {o}) ELSE End(r, "key_conflict", {})
        /\ UNCHANGED tables
  BY DEF AnswerFromExisting
<1>2. CASE SameRequest(o, r)
  <2>1. body[o] = body[r]
    BY <1>1, <1>2 DEF TransactionInv, TypeOK, Bodies, Existing, SameRequest
  <2> QED
    BY <1>1, <1>2, <2>1, EndInv DEF Existing, Answers
<1>3. CASE ~ SameRequest(o, r)
  BY <1>1, <1>3, EndInv DEF Answers
<1> QED
  BY <1>2, <1>3

\* An open transaction moves on and nothing else does.
LEMMA FindNothingInv ==
    ASSUME TransactionInv, NEW r \in Requests, FindNothing(r)
    PROVE  TransactionInv'
<1> USE DEF TransactionInv
<1>1. TypeOK'
  BY DEF TypeOK, FindNothing, Goto, tables, Active, InTransaction
<1>2. Inserted' = Inserted
  BY DEF Inserted, FindNothing, Goto, TypeOK
<1>3. KeyInv' /\ LockInv'
  BY <1>2 DEF KeyInv, LockInv, FindNothing, Goto, tables, Existing, Wanted, Ordered, Inserted
<1>4. ReadyInv' /\ RecoverInv'
  BY DEF ReadyInv, RecoverInv, RecoveryFindsOrder, FindNothing, Goto, tables, Existing,
         Ordered, TypeOK
<1>5. OrdersInv'
  BY DEF OrdersInv, FindNothing, Goto, tables, TypeOK, Active, InTransaction, Ordered
<1> QED
  BY <1>1, <1>3, <1>4, <1>5

\* The insert makes r the owner of its key: no order and no other open
\* transaction has it.
LEMMA InsertOrderInv ==
    ASSUME TransactionInv, NEW r \in Requests, InsertOrder(r)
    PROVE  TransactionInv'
<1> USE DEF TransactionInv
<1>1. CASE Existing(r) # {}
  BY <1>1, EndInv DEF InsertOrder, Active, InTransaction
<1>2. CASE Existing(r) = {}
  <2>1. phase[r] = "insert" /\ Goto(r, "lock") /\ UNCHANGED tables
    BY <1>2 DEF InsertOrder
  <2>2. TypeOK'
    BY <2>1 DEF TypeOK, Goto, tables, Active, InTransaction
  <2>3. Inserted' = Inserted \union {r}
    BY <2>1 DEF Inserted, Goto, TypeOK
  <2>4. \A q \in Inserted : body[q].key = body[r].key => q = r
    BY <2>1 DEF InsertOrder, KeyHolders, Inserted
  <2>5. KeyInv'
    BY <1>2, <2>1, <2>3, <2>4 DEF KeyInv, Goto, tables, Existing
  <2>6. LockInv'
    BY <2>1, <2>3 DEF LockInv, Goto, tables, Wanted, Ordered
  <2>7. ReadyInv' /\ RecoverInv'
    BY <2>1 DEF ReadyInv, RecoverInv, RecoveryFindsOrder, Goto, tables, Existing,
           Ordered, TypeOK
  <2>8. OrdersInv'
    BY <2>1 DEF OrdersInv, Goto, tables, TypeOK, Active, InTransaction, Ordered
  <2> QED
    BY <2>2, <2>5, <2>6, <2>7, <2>8
<1> QED
  BY <1>1, <1>2

\* A granted row lock is exclusive, next in id order, and fixes the stock.
LEMMA LockProductInv ==
    ASSUME TransactionInv, NEW r \in Requests, NEW p \in ProductIds, LockProduct(r, p)
    PROVE  TransactionInv'
<1> USE DEF TransactionInv
<1>1. TypeOK'
  BY DEF TypeOK, LockProduct, LockRow, tables
<1>2. Inserted' = Inserted /\ r \in Inserted
  BY DEF Inserted, LockProduct, LockRow
<1>3. \A q \in Requests : Wanted(q)' = Wanted(q)
  BY DEF Wanted, Ordered, LockProduct, LockRow, tables
<1>4. \A q \in Requests \ {r} : locked'[q] = locked[q] /\ seen'[q] = seen[q] /\ p \notin locked[q]
  BY DEF LockProduct, LockRow, TypeOK, LockedByOthers
<1>5. locked'[r] = locked[r] \union {p} /\ seen'[r] = [seen[r] EXCEPT ![p] = stock[p]]
  BY DEF LockProduct, LockRow, TypeOK
<1>6. LockInv'
  <2>1. \A q \in locked'[r] : seen'[r][q] = stock'[q]
    BY <1>5 DEF LockInv, LockProduct, LockRow, tables, TypeOK
  <2>2. \A s \in locked'[r], q \in Wanted(r) \ locked'[r] : s < q
    <3> SUFFICES ASSUME NEW s \in locked'[r], NEW q \in Wanted(r) \ locked'[r] PROVE s < q
      OBVIOUS
    <3>1. q \in Nat /\ p \in Nat
      BY IdsAreNatural DEF TypeOK, Wanted
    <3>2. p <= q /\ p # q
      BY <1>5 DEF LockProduct, LockRow
    <3> QED
      BY <1>5, <3>1, <3>2 DEF LockInv
  <2>3. \A q \in Requests \ {r} : locked'[q] \intersect locked'[r] = {}
    BY <1>4, <1>5 DEF LockInv
  <2>4. locked'[r] \subseteq Wanted(r)
    BY <1>5 DEF LockInv, LockProduct, LockRow
  <2>5. \A q \in Requests \ {r} : \A s \in locked'[q] : seen'[q][s] = stock'[s]
    BY <1>4 DEF LockInv, LockProduct, LockRow, tables
  <2> QED
    BY <1>2, <1>3, <1>4, <2>1, <2>2, <2>3, <2>4, <2>5 DEF LockInv
<1>7. KeyInv' /\ OrdersInv' /\ RecoverInv'
  BY <1>2 DEF KeyInv, OrdersInv, RecoverInv, RecoveryFindsOrder, LockProduct, LockRow, tables,
         Existing, Inserted, Ordered
<1>8. ReadyInv'
  BY <1>4 DEF ReadyInv, LockProduct, LockRow, TypeOK, Ordered
<1> QED
  BY <1>1, <1>6, <1>7, <1>8

\* Passing every check with every row locked makes a transaction ready.
LEMMA FlushItemsInv ==
    ASSUME TransactionInv, NEW r \in Requests, FlushItems(r)
    PROVE  TransactionInv'
<1> USE DEF TransactionInv
<1>1. CASE End(r, "error", {})
  BY <1>1, EndInv DEF FlushItems, AllLocked, Active, InTransaction, Answers
<1>2. CASE Goto(r, "commit")
  <2>1. phase[r] = "lock" /\ UNCHANGED tables
    BY DEF FlushItems, AllLocked
  <2>2. TypeOK'
    BY <1>2, <2>1 DEF TypeOK, Goto, tables, Active, InTransaction
  <2>3. Inserted' = Inserted
    BY <1>2, <2>1 DEF Inserted, Goto, TypeOK
  <2>4. KeyInv' /\ LockInv'
    BY <1>2, <2>1, <2>3 DEF KeyInv, LockInv, Goto, tables, Existing, Wanted, Ordered, Inserted
  <2>5. locked[r] = Ordered(r)
    BY DEF FlushItems, AllLocked, Wanted, LockInv
  <2>6. \A p \in Ordered(r) : body[r].items[p] <= seen[r][p]
    BY BasketType DEF FlushItems, Short, TypeOK
  <2>7. ReadyInv'
    BY <1>2, <2>5, <2>6 DEF ReadyInv, Goto, TypeOK, Ordered
  <2>8. OrdersInv' /\ RecoverInv'
    BY <1>2, <2>1 DEF OrdersInv, RecoverInv, RecoveryFindsOrder, Goto, tables, TypeOK,
           Active, InTransaction, Existing, Ordered
  <2> QED
    BY <2>2, <2>4, <2>7, <2>8
<1> QED
  BY <1>1, <1>2 DEF FlushItems

\* What the commit of a ready transaction writes: its own rows, each less
\* the quantity ordered, and nothing under another's lock.
LEMMA CommitEffect ==
    ASSUME TransactionInv, NEW r \in Requests, NEW verdict, NEW shown,
           CommitAs(r, verdict, shown)
    PROVE  /\ locked[r] = Ordered(r) /\ Ordered(r) \subseteq catalog
           /\ \A p \in Ordered(r) : /\ body[r].items[p] \in Nat
                                   /\ body[r].items[p] <= stock[p]
                                   /\ stock'[p] = stock[p] - body[r].items[p]
           /\ \A p \in ProductIds \ Ordered(r) : stock'[p] = stock[p]
           /\ stock' \in [ProductIds -> Nat]
           /\ r \notin orders /\ Existing(r) = {}
<1> USE DEF TransactionInv
<1>1. phase[r] = "commit"
  BY DEF CommitAs
<1>2. locked[r] = Ordered(r)
  BY <1>1 DEF ReadyInv
<1>3. Ordered(r) \subseteq catalog
  BY <1>2 DEF LockInv, Wanted
<1>4. Ordered(r) \subseteq ProductIds /\ \A p \in Ordered(r) : body[r].items[p] \in Nat
  BY BasketType
<1>5. \A p \in Ordered(r) : seen[r][p] = stock[p] /\ body[r].items[p] <= seen[r][p]
  BY <1>1, <1>2 DEF ReadyInv, LockInv
<1>6. stock' = [p \in ProductIds |->
                  IF p \in Ordered(r) THEN seen[r][p] - body[r].items[p] ELSE stock[p]]
  BY DEF CommitAs
<1>7. \A p \in ProductIds : stock[p] \in Nat
  BY DEF TypeOK
<1>8. \A p \in Ordered(r) : stock'[p] = stock[p] - body[r].items[p]
  BY <1>4, <1>5, <1>6
<1>9. \A p \in ProductIds \ Ordered(r) : stock'[p] = stock[p]
  BY <1>6
<1>10. stock' \in [ProductIds -> Nat]
  <2>1. \A p \in ProductIds : stock'[p] \in Nat
    BY <1>4, <1>5, <1>7, <1>8, <1>9
  <2> QED
    BY <1>6, <2>1
<1>11. r \notin orders /\ Existing(r) = {}
  BY <1>1 DEF OrdersInv, KeyInv, Inserted
<1> QED
  BY <1>2, <1>3, <1>4, <1>5, <1>8, <1>9, <1>10, <1>11

\* A commit records the one order its key will ever have.
LEMMA CommitInv ==
    ASSUME TransactionInv, NEW r \in Requests, NEW verdict, NEW shown,
           \/ verdict = "created" /\ shown = {r}
           \/ verdict = "error" /\ shown = {},
           CommitAs(r, verdict, shown)
    PROVE  TransactionInv'
<1> USE DEF TransactionInv
<1>0. /\ phase[r] = "commit" /\ End(r, verdict, shown) /\ catalog' = catalog
      /\ orders' = orders \union {r} /\ outbox' = outbox \union {r}
      /\ shown \subseteq Requests /\ verdict \in {"created", "error"}
  BY DEF CommitAs
<1>1. TypeOK'
  BY <1>0, CommitEffect, EndType DEF TypeOK, Answers
<1>2. Inserted' = Inserted \ {r}
  BY <1>0 DEF Inserted, End, TypeOK
<1>3. \A q \in Inserted : body[q].key = body[r].key => q = r
  BY <1>0 DEF KeyInv, Inserted
<1>4. KeyInv'
  BY <1>0, <1>2, <1>3 DEF KeyInv, End, Existing, Inserted
<1>5. \A q \in Requests \ {r} : locked'[q] = locked[q] /\ seen'[q] = seen[q]
  BY <1>0 DEF End, TypeOK
<1>6. LockInv'
  <2>1. \A q \in Requests : Wanted(q)' = Wanted(q)
    BY <1>0 DEF Wanted, Ordered, End
  <2>2. locked'[r] = {}
    BY <1>0 DEF End, TypeOK
  <2>3. \A q \in Requests \ {r} : \A p \in locked'[q] : seen'[q][p] = stock'[p]
    <3> SUFFICES ASSUME NEW q \in Requests \ {r}, NEW p \in locked[q]
                 PROVE  seen[q][p] = stock'[p]
      BY <1>5
    <3>1. p \in ProductIds /\ p \notin locked[r]
      BY DEF LockInv, TypeOK
    <3>2. stock'[p] = stock[p]
      BY <3>1, CommitEffect
    <3> QED
      BY <3>2 DEF LockInv
  <2> QED
    BY <1>2, <1>5, <2>1, <2>2, <2>3 DEF LockInv
<1>7. ReadyInv'
  BY <1>0 DEF ReadyInv, End, TypeOK, Ordered
<1>8. OrdersInv'
  <2>1. \A o \in orders' : phase'[o] \in {"created", "error"}
    BY <1>0 DEF OrdersInv, End, TypeOK
  <2>2. \A q, o \in orders' : body[q].key = body[o].key => q = o
    BY <1>0, CommitEffect DEF OrdersInv, Existing
  <2>3. \A q \in Requests : \A o \in returned'[q] : o \in orders' /\ body[o] = body[q]
    BY <1>0 DEF OrdersInv, End, TypeOK
  <2>4. \A q \in Requests : phase'[q] \in Active => returned'[q] = {}
    BY <1>0 DEF OrdersInv, End, TypeOK, Active, InTransaction
  <2>5. \A o \in orders' : Ordered(o)' \subseteq catalog'
    BY <1>0, CommitEffect DEF OrdersInv, Ordered, End
  <2> QED
    BY <1>0, <2>1, <2>2, <2>3, <2>4, <2>5 DEF OrdersInv, End
<1>9. RecoverInv'
  BY <1>0 DEF RecoverInv, RecoveryFindsOrder, Existing, End, TypeOK
<1> QED
  BY <1>1, <1>4, <1>6, <1>7, <1>8, <1>9

\* The second look-up always finds the order that made the insert fail.
LEMMA RecoverStepInv ==
    ASSUME TransactionInv, NEW r \in Requests, Recover(r)
    PROVE  TransactionInv'
<1>1. phase[r] \in Active /\ Existing(r) # {}
  BY DEF Recover, TransactionInv, RecoverInv, Active
<1> QED
  BY <1>1, AnswerFromExistingInv DEF Recover

\* Every step keeps the invariant.
LEMMA StepInv == TransactionInv /\ [Next]_vars => TransactionInv'
<1> SUFFICES ASSUME TransactionInv, [Next]_vars PROVE TransactionInv'
  OBVIOUS
<1>1. ASSUME NEW p \in ProductIds, CreateProduct(p) PROVE TransactionInv'
  BY <1>1, CreateProductInv
<1>2. ASSUME NEW r \in Requests, Proceed(r) PROVE TransactionInv'
  <2>1. CASE FindReplay(r)
    BY <2>1, AnswerFromExistingInv DEF FindReplay, Active
  <2>2. CASE FindNothing(r)
    BY <2>2, FindNothingInv
  <2>3. CASE InsertOrder(r)
    BY <2>3, InsertOrderInv
  <2>4. ASSUME NEW p \in ProductIds, LockProduct(r, p) PROVE TransactionInv'
    BY <2>4, LockProductInv
  <2>5. CASE RejectUnknown(r)
    BY <2>5, EndInv DEF RejectUnknown, AllLocked, Answers, Active, InTransaction
  <2>6. CASE RejectShortage(r)
    BY <2>6, EndInv DEF RejectShortage, AllLocked, Answers, Active, InTransaction
  <2>7. CASE FlushItems(r)
    BY <2>7, FlushItemsInv
  <2>8. CASE Commit(r)
    BY <2>8, CommitInv DEF Commit
  <2>9. CASE Recover(r)
    BY <2>9, RecoverStepInv
  <2> QED
    BY <1>2, <2>1, <2>2, <2>3, <2>4, <2>5, <2>6, <2>7, <2>8, <2>9 DEF Proceed
<1>3. ASSUME NEW r \in Requests, CommitUnacknowledged(r) PROVE TransactionInv'
  BY <1>3, CommitInv DEF CommitUnacknowledged
<1>4. ASSUME NEW r \in Requests, Fail(r) PROVE TransactionInv'
  BY <1>4, EndInv DEF Fail, Answers
<1>5. CASE UNCHANGED vars
  BY <1>5 DEF vars, TransactionInv, TypeOK, KeyInv, LockInv, ReadyInv, OrdersInv, RecoverInv,
              RecoveryFindsOrder, Inserted, Existing, Wanted, Ordered
<1> QED
  BY <1>1, <1>2, <1>3, <1>4, <1>5 DEF Next

-----------------------------------------------------------------------------
(* The theorems.                                                            *)

\* Every reachable state satisfies the inductive invariant: keys and row
\* locks have one owner, and what was read under a lock stays true.
THEOREM TransactionInvariant == Spec => []TransactionInv
<1>1. TransactionInv /\ [Next]_vars => TransactionInv'
  BY StepInv
<1> QED
  BY InitInv, <1>1, PTL DEF Spec

\* Every variable keeps its type; committed stock is never negative.
THEOREM TypeCorrect == Spec => []TypeOK
<1>1. TransactionInv => TypeOK
  BY DEF TransactionInv
<1> QED
  BY <1>1, TransactionInvariant, PTL

\* Duplicate calls: one order per key, shown only to calls for the same
\* basket, and the same order to all of them.
THEOREM Idempotency == Spec => []IdempotentReplies
<1>1. TransactionInv => IdempotentReplies
  <2> SUFFICES ASSUME TransactionInv, NEW q \in Requests, NEW r \in Requests,
                      body[q].key = body[r].key
               PROVE  /\ q \in orders /\ r \in orders => q = r
                      /\ \A o \in returned[r] : o \in orders /\ body[o] = body[r]
                      /\ returned[q] # {} /\ returned[r] # {} => returned[q] = returned[r]
    BY DEF IdempotentReplies
  <2> USE DEF TransactionInv
  <2>1. \A a \in returned[q], b \in returned[q] \union returned[r] : a = b
    BY DEF OrdersInv
  <2>2. \A a \in returned[r], b \in returned[q] \union returned[r] : a = b
    BY DEF OrdersInv
  <2>3. ASSUME returned[q] # {}, returned[r] # {} PROVE returned[q] = returned[r]
    <3>1. PICK a \in returned[q], b \in returned[r] : TRUE
      BY <2>3
    <3>2. returned[q] = {a} /\ returned[r] = {b} /\ a = b
      BY <2>1, <2>2, <3>1
    <3> QED
      BY <3>2
  <2> QED
    BY <2>3 DEF OrdersInv
<1> QED
  BY <1>1, TransactionInvariant, PTL

\* The re-raise after a failed recovery look-up is unreachable.
THEOREM RecoveryAlwaysFinds == Spec => []RecoveryFindsOrder
<1>1. TransactionInv => RecoveryFindsOrder
  BY DEF TransactionInv, RecoverInv
<1> QED
  BY <1>1, TransactionInvariant, PTL

\* Stock moves with orders only, and by what they ordered: no update is lost
\* and none is computed from a stale read.
THEOREM StockMovesWithOrders == Spec => StockFollowsOrders
<1> DEFINE Moves ==
      \A p \in catalog :
          \/ orders' = orders /\ stock'[p] = stock[p]
          \/ \E o \in Requests \ orders :
                /\ orders' = orders \union {o}
                /\ stock'[p] = IF p \in Ordered(o) THEN stock[p] - body[o].items[p]
                                                   ELSE stock[p]
<1>1. TransactionInv /\ [Next]_vars => Moves
  <2> SUFFICES ASSUME TransactionInv, [Next]_vars, NEW p \in catalog
               PROVE  \/ orders' = orders /\ stock'[p] = stock[p]
                      \/ \E o \in Requests \ orders :
                            /\ orders' = orders \union {o}
                            /\ stock'[p] = IF p \in Ordered(o)
                                             THEN stock[p] - body[o].items[p] ELSE stock[p]
    OBVIOUS
  <2>1. p \in ProductIds
    BY DEF TransactionInv, TypeOK
  <2>2. ASSUME NEW q \in ProductIds, CreateProduct(q) PROVE orders' = orders /\ stock'[p] = stock[p]
    BY <2>2, <2>1 DEF CreateProduct, TransactionInv, TypeOK
  <2>3. ASSUME NEW r \in Requests, NEW verdict, NEW shown, CommitAs(r, verdict, shown)
        PROVE  /\ r \in Requests \ orders /\ orders' = orders \union {r}
               /\ stock'[p] = IF p \in Ordered(r) THEN stock[p] - body[r].items[p] ELSE stock[p]
    <3>1. orders' = orders \union {r}
      BY <2>3 DEF CommitAs
    <3> QED
      BY <2>1, <2>3, <3>1, CommitEffect
  <2>4. ASSUME NEW r \in Requests, Proceed(r), ~ Commit(r) PROVE UNCHANGED tables
    BY <2>4 DEF Proceed, FindReplay, FindNothing, InsertOrder, LockProduct, LockRow, RejectUnknown,
                RejectShortage, FlushItems, Recover, AnswerFromExisting
  <2>5. ASSUME NEW r \in Requests, Fail(r) PROVE UNCHANGED tables
    BY <2>5 DEF Fail
  <2> QED
    BY <2>2, <2>3, <2>4, <2>5 DEF Next, Commit, CommitUnacknowledged, tables, vars
<1>2. (TransactionInv /\ [Next]_vars => Moves) => (TransactionInv /\ [Next]_vars => [Moves]_vars)
  OBVIOUS
<1> QED
  BY <1>1, TransactionInvariant, PTL DEF Spec, StockFollowsOrders

-----------------------------------------------------------------------------
(* Conservation of stock.                                                   *)

\* What an order takes of a product is a natural.
LEMMA TakenType ==
    ASSUME TypeOK, NEW p
    PROVE  [o \in Takers(p) |-> body[o].items[p]] \in [Takers(p) -> Nat]
BY BasketType DEF Takers, TypeOK

\* The inductive strengthening of NoOversell, under TransactionInv: a sum
\* over the orders needs them to be finitely many.
SalesInv == IsFiniteSet(orders) /\ NoOversell

\* A new product has its whole supply and no recorded order has taken any.
LEMMA CreateProductSales ==
    ASSUME TransactionInv, SalesInv, NEW q \in ProductIds, CreateProduct(q)
    PROVE  SalesInv'
<1> USE DEF TransactionInv
<1>1. orders' = orders /\ body' = body /\ catalog' = catalog \union {q} /\ q \notin catalog
  BY DEF CreateProduct
<1>2. ASSUME NEW p \in catalog' PROVE stock'[p] + Taken(p)' = Supply[p]
  <2>1. Taken(p)' = Taken(p)
    BY <1>1 DEF Taken, Takers, Ordered
  <2>2. CASE p = q
    <3>1. Takers(p) = {}
      BY <1>1, <2>2 DEF Takers, OrdersInv
    <3>2. Taken(p) = 0
      BY <3>1, TakenType, SumEmpty DEF Taken
    <3>3. stock'[p] = Supply[p] /\ Supply[p] \in Nat
      BY <2>2, ProductAssumption DEF CreateProduct, TypeOK
    <3> QED
      BY <2>1, <3>2, <3>3
  <2>3. CASE p # q
    <3>1. p \in catalog /\ stock'[p] = stock[p]
      BY <1>1, <2>3 DEF CreateProduct, TypeOK
    <3> QED
      BY <2>1, <3>1 DEF SalesInv, NoOversell
  <2> QED
    BY <2>2, <2>3
<1> QED
  BY <1>1, <1>2 DEF SalesInv, NoOversell

\* A commit adds one term to the sum of each product of its basket and
\* takes as much off the shelf.
LEMMA CommitSales ==
    ASSUME TransactionInv, SalesInv, NEW r \in Requests, NEW verdict, NEW shown,
           CommitAs(r, verdict, shown)
    PROVE  SalesInv'
<1> USE DEF TransactionInv
<1>1. orders' = orders \union {r} /\ body' = body /\ catalog' = catalog
  BY DEF CommitAs, End
<1>2. r \notin orders
  BY CommitEffect
<1>3. IsFiniteSet(orders')
  BY <1>1, FS_AddElement DEF SalesInv
<1>4. ASSUME NEW p \in catalog PROVE stock'[p] + Taken(p)' = Supply[p]
  <2> DEFINE before == [o \in Takers(p) |-> body[o].items[p]]
             after == [o \in Takers(p)' |-> body[o].items[p]]
  <2>1. Taken(p) = SumFunction(before) /\ Taken(p)' = SumFunction(after)
    BY <1>1 DEF Taken
  <2>2. p \in ProductIds /\ stock[p] \in Nat /\ stock[p] + Taken(p) = Supply[p]
    BY DEF TypeOK, SalesInv, NoOversell
  <2>3. IsFiniteSet(Takers(p)) /\ before \in [Takers(p) -> Nat]
    BY TakenType, FS_Subset DEF SalesInv, Takers
  <2>4. Taken(p) \in Nat
    BY <2>1, <2>3, SumType
  <2>5. CASE p \in Ordered(r)
    <3>1. Takers(p)' = Takers(p) \union {r} /\ r \notin Takers(p)
      BY <1>1, <1>2, <2>5 DEF Takers, Ordered
    <3>2. /\ body[r].items[p] \in Nat /\ body[r].items[p] <= stock[p]
          /\ stock'[p] = stock[p] - body[r].items[p]
      BY <2>5, CommitEffect
    <3>3. after \in [Takers(p) \union {r} -> Nat] /\ after[r] = body[r].items[p]
      BY <2>3, <3>1, <3>2
    <3>4. \A o \in Takers(p) : after[o] = before[o]
      BY <3>1
    <3> HIDE DEF before, after
    <3>5. SumFunction(after) = SumFunction(before) + after[r]
      BY <2>3, <3>1, <3>3, <3>4, SumAdd
    <3> QED
      BY <2>1, <2>2, <2>4, <3>2, <3>3, <3>5
  <2>6. CASE p \notin Ordered(r)
    <3>1. Takers(p)' = Takers(p)
      BY <1>1, <2>6 DEF Takers, Ordered
    <3>2. stock'[p] = stock[p]
      BY <2>2, <2>6, CommitEffect
    <3> QED
      BY <2>1, <2>2, <3>1, <3>2
  <2> QED
    BY <2>5, <2>6
<1> QED
  BY <1>1, <1>3, <1>4 DEF SalesInv, NoOversell

\* No unit is sold twice and none is lost, however many calls, failures and
\* lost answers there are.
THEOREM StockIsConserved == Spec => []NoOversell
<1>1. Init => SalesInv
  BY FS_EmptySet DEF Init, SalesInv, NoOversell
<1>2. TransactionInv /\ SalesInv /\ [Next]_vars => SalesInv'
  <2> SUFFICES ASSUME TransactionInv, SalesInv, [Next]_vars PROVE SalesInv'
    OBVIOUS
  <2>1. ASSUME UNCHANGED <<body, catalog, stock, orders>> PROVE SalesInv'
    BY <2>1 DEF SalesInv, NoOversell, Taken, Takers, Ordered
  <2>2. ASSUME NEW r \in Requests, Proceed(r), ~ Commit(r)
        PROVE  UNCHANGED <<body, catalog, stock, orders>>
    BY <2>2 DEF Proceed, FindReplay, FindNothing, InsertOrder, LockProduct, LockRow, RejectUnknown,
                RejectShortage, FlushItems, Recover, AnswerFromExisting, End, Goto, tables
  <2>3. ASSUME NEW r \in Requests, Fail(r) PROVE UNCHANGED <<body, catalog, stock, orders>>
    BY <2>3 DEF Fail, End, tables
  <2> QED
    BY <2>1, <2>2, <2>3, CreateProductSales, CommitSales
       DEF Next, Commit, CommitUnacknowledged, vars
<1>3. SalesInv => NoOversell
  BY DEF SalesInv
<1> QED
  BY <1>1, <1>2, <1>3, TransactionInvariant, PTL DEF Spec

-----------------------------------------------------------------------------
(* OrderService implements OrderLedger.                                     *)

Answered == [r \in Requests |-> IF phase[r] \in Answers THEN phase[r] ELSE "pending"]

\* Ending with an answer is the ledger's answering; ending in the recovery
\* is invisible.
LEMMA EndIsAnswer ==
    ASSUME TransactionInv, NEW r \in Requests, NEW verdict \in Answers, NEW shown,
           phase[r] \in Active, End(r, verdict, shown)
    PROVE  /\ Answered[r] = "pending"
           /\ Answered' = [Answered EXCEPT ![r] = verdict]
           /\ returned' = [returned EXCEPT ![r] = shown]
           /\ body' = body
<1>1. phase[r] \notin Answers
  BY PhaseFacts
<1>2. phase' = [phase EXCEPT ![r] = verdict] /\ phase \in [Requests -> Active \union Answers]
  BY DEF End, TransactionInv, TypeOK
<1> QED
  BY <1>1, <1>2 DEF Answered, End

\* A step within a transaction cannot be seen from outside.
LEMMA HiddenStep ==
    ASSUME TransactionInv, NEW r \in Requests, NEW next \in Active,
           phase[r] \in Active, phase' = [phase EXCEPT ![r] = next]
    PROVE  Answered' = Answered
BY PhaseFacts DEF Answered, TransactionInv, TypeOK

\* Each step of a transaction is a step of the ledger or invisible to it.
LEMMA LedgerStep ==
    TransactionInv /\ [Next]_vars => [Ledger!LedgerNext]_(Ledger!ledgerVars)
<1> SUFFICES ASSUME TransactionInv, [Next]_vars
             PROVE  Ledger!LedgerNext \/ UNCHANGED Ledger!ledgerVars
  OBVIOUS
<1> DEFINE Hidden == UNCHANGED Ledger!ledgerVars
<1>0. Hidden <=> UNCHANGED <<body, tables, Answered, returned>>
  BY DEF Ledger!ledgerVars, tables, Answered
<1>a. ASSUME NEW r \in Requests, phase[r] \in Active, AnswerFromExisting(r)
      PROVE  Ledger!LedgerNext
  <2>1. PICK o \in Existing(r) :
          /\ IF SameRequest(o, r) THEN End(r, "replayed", {o}) ELSE End(r, "key_conflict", {})
          /\ UNCHANGED tables
    BY <1>a DEF AnswerFromExisting
  <2>2. CASE SameRequest(o, r)
    <3>1. Ledger!Answer(r, "replayed", {o})
      BY <1>a, <2>1, <2>2, EndIsAnswer DEF Ledger!Answer, tables, Answers, Answered
    <3> QED
      BY <2>1, <2>2, <3>1 DEF Ledger!LedgerNext, Ledger!Replay, Ledger!SameKey, Existing, SameRequest
  <2>3. CASE ~ SameRequest(o, r)
    <3>1. Ledger!Answer(r, "key_conflict", {})
      BY <1>a, <2>1, <2>3, EndIsAnswer DEF Ledger!Answer, tables, Answers, Answered
    <3> QED
      BY <2>1, <2>3, <3>1 DEF Ledger!LedgerNext, Ledger!RefuseKey, Ledger!SameKey, Existing, SameRequest
  <2> QED
    BY <2>2, <2>3
<1>b. ASSUME NEW r \in Requests, phase[r] \in Active, End(r, "error", {}), UNCHANGED tables
      PROVE  Ledger!LedgerNext
  <2>1. Ledger!Answer(r, "error", {})
    BY <1>b, EndIsAnswer DEF Ledger!Answer, tables, Answers, Answered
  <2> QED
    BY <2>1 DEF Ledger!LedgerNext, Ledger!GiveUp
<1>c. ASSUME NEW r \in Requests, NEW next \in Active, phase[r] \in Active,
             phase' = [phase EXCEPT ![r] = next],
             UNCHANGED <<body, tables, returned>>
      PROVE  Hidden
  BY <1>0, <1>c, HiddenStep
<1>d. ASSUME NEW r \in Requests, NEW verdict, NEW shown,
             \/ verdict = "created" /\ shown = {r}
             \/ verdict = "error" /\ shown = {},
             CommitAs(r, verdict, shown)
      PROVE  Ledger!LedgerNext
  <2>1. phase[r] \in Active /\ End(r, verdict, shown) /\ verdict \in Answers
    BY <1>d DEF CommitAs, Active, InTransaction, Answers
  <2>2. /\ Answered[r] = "pending"
        /\ Answered' = [Answered EXCEPT ![r] = verdict]
        /\ returned' = [returned EXCEPT ![r] = shown]
        /\ body' = body
    BY <2>1, EndIsAnswer
  <2>3. \A p \in Ordered(r) : p \in catalog /\ body[r].items[p] <= stock[p]
    BY <1>d, CommitEffect
  <2>4. stock' = [p \in ProductIds |->
                    IF p \in Ordered(r) THEN stock[p] - body[r].items[p] ELSE stock[p]]
    BY <1>d, CommitEffect
  <2>5. \A o \in orders : body[o].key # body[r].key
    BY <1>d, CommitEffect DEF Existing
  <2>6. orders' = orders \union {r} /\ outbox' = outbox \union {r} /\ catalog' = catalog
    BY <1>d DEF CommitAs
  <2>7. Ledger!Place(r, verdict, shown)
    BY <1>d, <2>2, <2>3, <2>4, <2>5, <2>6
       DEF Ledger!Place, Ledger!KeyIsFree, Ledger!SameKey, Ledger!Ordered, Ordered, Answered
  <2> QED
    BY <1>d, <2>7 DEF Ledger!LedgerNext
<1>1. ASSUME NEW p \in ProductIds, CreateProduct(p) PROVE Ledger!LedgerNext
  <2>1. Ledger!CreateProduct(p)
    BY <1>1 DEF CreateProduct, Ledger!CreateProduct
  <2> QED
    BY <2>1 DEF Ledger!LedgerNext
<1>2. ASSUME NEW r \in Requests, Proceed(r) PROVE Ledger!LedgerNext \/ Hidden
  <2>1. CASE FindReplay(r)
    BY <2>1, <1>a DEF FindReplay, Active
  <2>2. CASE FindNothing(r)
    BY <2>2, <1>c DEF FindNothing, Goto, Active, InTransaction
  <2>3. CASE InsertOrder(r)
    <3>1. CASE Existing(r) = {}
      BY <2>3, <3>1, <1>c DEF InsertOrder, Goto, Active, InTransaction
    <3>2. CASE Existing(r) # {}
      <4>1. returned' = returned
        <5>1. returned[r] = {}
          BY <2>3 DEF InsertOrder, TransactionInv, OrdersInv, Active, InTransaction
        <5>2. returned' = [returned EXCEPT ![r] = {}]
          BY <2>3, <3>2 DEF InsertOrder, End
        <5>3. returned \in [Requests -> SUBSET Requests]
          BY DEF TransactionInv, TypeOK
        <5> QED
          BY <5>1, <5>2, <5>3
      <4> QED
        BY <2>3, <3>2, <4>1, <1>c DEF InsertOrder, End, Active, InTransaction
    <3> QED
      BY <3>1, <3>2
  <2>4. ASSUME NEW p \in ProductIds, LockProduct(r, p) PROVE Hidden
    BY <1>0, <2>4 DEF LockProduct, LockRow, Answered
  <2>5. CASE RejectUnknown(r)
    <3>1. Ledger!Answer(r, "products_not_found", {})
      BY <2>5, EndIsAnswer
         DEF RejectUnknown, AllLocked, Ledger!Answer, tables, Answers, Answered, Active, InTransaction
    <3>2. Ledger!RefuseUnknown(r)
      BY <2>5, <3>1 DEF RejectUnknown, Ledger!RefuseUnknown, Ledger!Ordered, Ordered
    <3> QED
      BY <3>2 DEF Ledger!LedgerNext
  <2>6. CASE RejectShortage(r)
    <3>1. Ledger!Answer(r, "insufficient_stock", {})
      BY <2>6, EndIsAnswer
         DEF RejectShortage, AllLocked, Ledger!Answer, tables, Answers, Answered, Active, InTransaction
    <3>2. PICK p \in Ordered(r) : p \in catalog /\ p \in locked[r] /\ seen[r][p] < body[r].items[p]
      BY <2>6 DEF RejectShortage, AllLocked, Wanted, Short
    <3>3. seen[r][p] = stock[p]
      BY <3>2 DEF TransactionInv, LockInv
    <3>4. Ledger!RefuseShortage(r)
      BY <3>1, <3>2, <3>3 DEF Ledger!RefuseShortage, Ledger!Ordered, Ordered
    <3> QED
      BY <3>4 DEF Ledger!LedgerNext
  <2>7. CASE FlushItems(r)
    <3>1. phase[r] \in Active /\ UNCHANGED tables
      BY <2>7 DEF FlushItems, AllLocked, Active, InTransaction
    <3>2. CASE Goto(r, "commit")
      BY <3>1, <3>2, <1>c DEF Goto, Active, InTransaction
    <3>3. CASE End(r, "error", {})
      BY <3>1, <3>3, <1>b
    <3> QED
      BY <2>7, <3>2, <3>3 DEF FlushItems
  <2>8. CASE Commit(r)
    BY <2>8, <1>d DEF Commit
  <2>9. CASE Recover(r)
    <3>1. phase[r] \in Active /\ Existing(r) # {}
      BY <2>9 DEF Recover, Active, TransactionInv, RecoverInv
    <3> QED
      BY <2>9, <3>1, <1>a DEF Recover
  <2> QED
    BY <1>2, <2>1, <2>2, <2>3, <2>4, <2>5, <2>6, <2>7, <2>8, <2>9 DEF Proceed
<1>3. ASSUME NEW r \in Requests, CommitUnacknowledged(r) PROVE Ledger!LedgerNext
  BY <1>3, <1>d DEF CommitUnacknowledged
<1>4. ASSUME NEW r \in Requests, Fail(r) PROVE Ledger!LedgerNext
  BY <1>4, <1>b DEF Fail
<1>5. CASE UNCHANGED vars
  BY <1>0, <1>5 DEF vars, tables, Answered
<1> QED
  BY <1>1, <1>2, <1>3, <1>4, <1>5 DEF Next

\* Each call takes effect at one instant or not at all, exactly as the
\* atomic ledger would answer it: orders, outbox rows and stock change
\* together, and every refusal is true of the tables when it is decided.
THEOREM Refinement == Spec => ImplementsLedger
<1>1. Init => Ledger!LedgerInit
  <2> SUFFICES ASSUME Init PROVE Ledger!LedgerInit
    OBVIOUS
  <2>1. [r \in Requests |-> IF phase[r] \in Answers THEN phase[r] ELSE "pending"]
           = [r \in Requests |-> "pending"]
    BY DEF Init, Answers
  <2> QED
    BY <2>1 DEF Init, Ledger!LedgerInit, Nothing
<1> QED
  BY <1>1, LedgerStep, TransactionInvariant, PTL
     DEF Spec, ImplementsLedger, Ledger!LedgerSpec

-----------------------------------------------------------------------------
(* No deadlock.                                                             *)

\* A product some member of D still has to lock and another member holds.
Contended(D) ==
    {p \in ProductIds : \E r, q \in D : /\ phase[r] = "lock" /\ q # r
                                       /\ p \in Wanted(r) \ locked[r]
                                       /\ p \in locked[q]}

\* A nonempty set of ids has a greatest one: ids are bounded.
LEMMA GreatestId ==
    ASSUME NEW S, S \subseteq ProductIds, S # {}
    PROVE  \E p \in S : \A q \in S : q <= p
<1>1. S \subseteq 0..MaxId /\ MaxId \in Nat
  BY ProductAssumption
<1> DEFINE Depths == {d \in Nat : MaxId - d \in S}
<1>2. PICK s \in S : TRUE
  OBVIOUS
<1>3. MaxId - s \in Depths
  BY <1>1, <1>2
<1>4. PICK d \in Depths : \A e \in Depths : d <= e
  <2>1. IsWellFoundedOn(OpToRel(<, Nat), Nat)
    BY NatLessThanWellFounded
  <2>2. \E d \in Depths : \A e \in Depths : ~ (<<e, d>> \in OpToRel(<, Nat))
    BY <1>3, <2>1, WFMin
  <2>3. OpToRel(<, Nat) = {ss \in Nat \X Nat : ss[1] < ss[2]}
    BY DEF OpToRel
  <2>4. PICK d \in Depths : \A e \in Depths : ~ (<<e, d>> \in {ss \in Nat \X Nat : ss[1] < ss[2]})
    BY <2>2, <2>3
  <2>5. \A e \in Depths : ~ (e < d)
    BY <2>4
  <2> QED
    BY <2>5
<1>5. \A q \in S : MaxId - q \in Depths
  BY <1>1
<1> QED
  BY <1>1, <1>4, <1>5

\* Row locks and uncommitted keys never close a circle of waiting
\* transactions, with any number of calls and products.
THEOREM DeadlockFree == Spec => []NoDeadlock
<1>1. TransactionInv => NoDeadlock
  <2> SUFFICES ASSUME TransactionInv,
                      NEW D \in SUBSET {r \in Requests : phase[r] \in InTransaction}, D # {},
                      \A r \in D : \E q \in D : NeedsFrom(r, q)
               PROVE  FALSE
    BY DEF NoDeadlock
  <2>1. \E r \in D : phase[r] = "lock"
    <3>1. PICK r \in D : TRUE
      OBVIOUS
    <3>2. PICK q \in D : NeedsFrom(r, q)
      BY <3>1
    <3>3. CASE phase[r] = "lock"
      BY <3>3
    <3>4. CASE phase[r] = "insert" /\ q \in KeyHolders(r)
      <4>1. phase[q] \in {"lock", "commit"}
        BY <3>4 DEF KeyHolders
      <4>2. phase[q] # "commit"
        BY <4>1 DEF NeedsFrom
      <4> QED
        BY <4>1, <4>2
    <3> QED
      BY <3>2, <3>3, <3>4 DEF NeedsFrom
  <2>2. \A r \in D : phase[r] = "lock" =>
            \E p \in Contended(D) : p \in Wanted(r) \ locked[r]
    BY DEF NeedsFrom, Contended, Wanted, TransactionInv, TypeOK
  <2>3. Contended(D) # {} /\ Contended(D) \subseteq ProductIds
    BY <2>1, <2>2 DEF Contended
  <2>4. PICK p \in Contended(D) : \A s \in Contended(D) : s <= p
    BY <2>3, GreatestId
  <2>5. PICK q \in D : p \in locked[q]
    BY <2>4 DEF Contended
  <2>6. phase[q] = "lock"
    <3>1. phase[q] \in {"lock", "commit"}
      BY <2>5 DEF TransactionInv, LockInv, Inserted
    <3>2. phase[q] # "commit"
      BY DEF NeedsFrom
    <3> QED
      BY <3>1, <3>2
  <2>7. PICK s \in Contended(D) : s \in Wanted(q) \ locked[q]
    BY <2>2, <2>6
  <2>8. p < s
    BY <2>5, <2>7 DEF TransactionInv, LockInv
  <2>9. p \in Nat /\ s \in Nat
    BY <2>3, IdsAreNatural
  <2> QED
    BY <2>4, <2>7, <2>8, <2>9
<1> QED
  BY <1>1, TransactionInvariant, PTL

=============================================================================
