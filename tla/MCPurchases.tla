---------------------------- MODULE MCPurchases ----------------------------
(* Instances of Purchases for TLC: p1 has a classified line and an unsorted *)
(* one of two units, p2 a classified line of one.                            *)
EXTENDS PurchaseReports, TLC

CONSTANTS p1, p2, l1, l2, l3

MCPurchaseOf == l1 :> p1 @@ l2 :> p1 @@ l3 :> p2
MCQuantity == l1 :> 1 @@ l2 :> 2 @@ l3 :> 1
MCLineTotal == l1 :> 1 @@ l2 :> 3 @@ l3 :> 1
MCFreight == p1 :> 1 @@ p2 :> 0

MCOperatingCost == l1 :> 1 @@ l2 :> 2 @@ l3 :> 1
MCPurchaseDate == p1 :> 1 @@ p2 :> 2
MCPurchaseRank == p1 :> 1 @@ p2 :> 2
OneDay == [x \in Return |-> 2]

OwnLines == [p \in Purchase |-> LinesOf(p)]

Interchangeable == Permutations(Return) \cup Permutations(Request)

=============================================================================
