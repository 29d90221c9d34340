--------------------------- MODULE MCStockLedger ---------------------------
(* Instances of StockLedger for TLC: a sale of products 1 and 2, two runs   *)
(* that consume product 2 in common and whose outputs cross, and a sorting  *)
(* event into products 2 and 3.                                             *)
EXTENDS StockLedger, TLC

CONSTANTS s1, a, b, e1

MCSold == s1 :> (1 :> 1 @@ 2 :> 1 @@ 3 :> 0)
MCConsumed == a :> (1 :> 0 @@ 2 :> 1 @@ 3 :> 1)
           @@ b :> (1 :> 1 @@ 2 :> 1 @@ 3 :> 0)
MCOutput == a :> 1 @@ b :> 3
MCMade == a :> 1 @@ b :> 1
MCSorted == e1 :> (1 :> 0 @@ 2 :> 1 @@ 3 :> 1)
MCDelta == {-1}
MCOpening == 1 :> 1 @@ 2 :> 1 @@ 3 :> 0

=============================================================================
