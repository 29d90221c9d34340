--------------------------- MODULE MCPurchaseDraft ---------------------------
(* Two requests, and up to two lines worth 0 or 3 cents, with a freight and  *)
(* one further cost that do not divide evenly.                               *)
EXTENDS PurchaseDraft, TLC

MCSubtotal == {0, 3}
MCMass == {2}
MCFreight == {3}
MCAmount == {1}

Symmetry == Permutations(Request) \cup Permutations(Line)

=============================================================================
