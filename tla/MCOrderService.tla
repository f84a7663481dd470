--------------------------- MODULE MCOrderService ---------------------------
(* Small instances of OrderService.                                         *)
EXTENDS OrderService, TLC

\* Three products that three calls can want in a cycle, each of which sells
\* out within three calls.
MCProductIds == 1..3
MCSupply == 1 :> 2 @@ 2 :> 1 @@ 3 :> 1
MCPrice == 1 :> 3 @@ 2 :> 5 @@ 3 :> 1

\* Two of each pair; two units of one product; a basket too dear to record
\* (2 * 3 + 5 > 10).
MCBaskets == { 1 :> 1 @@ 2 :> 1, 2 :> 1 @@ 3 :> 1, 1 :> 1 @@ 3 :> 1,
               1 :> 2, 1 :> 2 @@ 2 :> 1 }

\* For the runs without symmetry: the same hazards on two products.
MCTwoProductIds == 1..2
MCTwoSupply == 1 :> 2 @@ 2 :> 1
MCTwoPrice == 1 :> 3 @@ 2 :> 5
MCTwoBaskets == { 1 :> 1 @@ 2 :> 1, 1 :> 2 }

CallSymmetry == Permutations(Requests) \union Permutations(IdemKeys)
=============================================================================
