----------------------------- MODULE MCOrderApi -----------------------------
(* Small instances of OrderApi: 2 stands for the greatest length, 10 cents   *)
(* for the largest amount, 3 for the largest quantity of an item and 5 for   *)
(* the largest integer.                                                      *)
EXTENDS OrderApi, TLC

Item(p, q) == [product |-> p, quantity |-> q]

Name(n) == [padding |-> 0, length |-> n, nul |-> FALSE]
Product(name, price, stock) == [name |-> name, price |-> price, stock |-> stock]

\* An affordable product, a dear one, one with too large a stock, one with a
\* NUL in its name, one that costs half a cent too much, one with too long a
\* name.
MCDraft == <<Product([Name(2) EXCEPT !.padding = 1], 20, 2), Product(Name(1), 60, 5),
             Product(Name(1), 10, 6), Product([Name(1) EXCEPT !.nul = TRUE], 10, 1),
             Product(Name(1), 25, 1), Product(Name(3), 10, 1)>>

MCItems == {<<>>, <<Item(1, 1)>>, <<Item(1, 2)>>, <<Item(1, 1), Item(2, 1)>>,
            <<Item(2, 1), Item(1, 1)>>, <<Item(1, 1), Item(1, 1)>>, <<Item(2, 2)>>,
            <<Item(3, 1)>>, <<Item(1, 4)>>}

Key(n) == [name |-> 1, length |-> n]

MCPayloads == [customer : {1}, key : {Key(1)}, items : MCItems]
              \union [customer : {2}, key : {Key(1)}, items : {<<Item(1, 1)>>, <<Item(2, 2)>>}]
              \union [customer : {1}, key : {Key(0), Key(3)}, items : {<<Item(1, 1)>>}]

Symmetry == Permutations(Requests)
=============================================================================
