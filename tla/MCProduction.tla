---------------------------- MODULE MCProduction ----------------------------
(* An instance of Production for TLC: two raw products, the second also     *)
(* producible, and a finished one; unit costs that are free, half a cent    *)
(* and a cent and a half.                                                    *)
EXTENDS ProductionReports, TLC

CONSTANTS flour, dough, bread

MCRunDate == [r \in Run |-> 0]
MCProductRank == flour :> 1 @@ dough :> 2 @@ bread :> 3
MCThreshold == flour :> 1 @@ bread :> 0
MCOnHand == flour :> 3 @@ dough :> 2 @@ bread :> 0

=============================================================================
