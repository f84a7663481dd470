--------------------------- MODULE MCOrderPipeline ---------------------------
(* A small instance of OrderPipeline: every call asks for one piece of the   *)
(* same product under the same key.                                          *)
EXTENDS OrderPipeline, TLC

MCProductIds == {1}
MCSupply == 1 :> 2
MCBaskets == {1 :> 1}
MCPrice == 1 :> 1
=============================================================================
