---------------------------- MODULE MCCashJournal ----------------------------
(* Two requests meet on two entries, an income category and an expense one. *)
EXTENDS CashReports, TLC

OneDay == [e \in Entry |-> 0]

Interchangeable == Permutations(Request) \cup Permutations(Entry)

=============================================================================
