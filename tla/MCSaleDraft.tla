---------------------------- MODULE MCSaleDraft ----------------------------
(* Instances of SaleDraft for TLC: a draft with two lines, l1 and l2. *)
EXTENDS SaleDraft, TLC

CONSTANTS l1, l2, l3

MCOpening == l1 :> 1 @@ l2 :> 2

=============================================================================
