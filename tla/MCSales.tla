------------------------------ MODULE MCSales ------------------------------
(* Instances of Sales for TLC: two sales, s1 with two lines and s2 with one, *)
(* of one product; s1 is dated the last tick of a week, s2 the first tick of *)
(* the next week, month and year.                                            *)
EXTENDS SaleReports, TLC

CONSTANTS s1, s2, l1, l2, l3, p1

MCSaleOf == l1 :> s1 @@ l2 :> s1 @@ l3 :> s2
MCLineNumber == l1 :> 1 @@ l2 :> 2 @@ l3 :> 1
MCQuantity == l1 :> 2 @@ l2 :> 1 @@ l3 :> 1
MCUnitCost == l1 :> 1 @@ l2 :> 1 @@ l3 :> 1
MCTotal == s1 :> 2 @@ s2 :> 1
MCProductOf == l1 :> p1 @@ l2 :> p1 @@ l3 :> p1
MCUnitPrice == l1 :> 1 @@ l2 :> 0 @@ l3 :> 1
MCSaleDate == s1 :> 27 @@ s2 :> 28
MCHorizon == 24 .. 31
MCSaleRank == s1 :> 1 @@ s2 :> 2
MCReturnDate == [x \in Return |-> 29]
MCReturnRank == [x \in Return |-> 0]
MCForbidNegative == p1 :> FALSE
MCStock == p1 :> 4
MCShortStock == p1 :> 3

OwnLines == [s \in Sale |-> LinesOf(s)]
AnyLine == [s \in Sale |-> Line]

Interchangeable == Permutations(Return) \cup Permutations(Request)

=============================================================================
