------------------------------ MODULE MCCatalog ------------------------------
(* Two requests on a catalog with one row of each kind, and ids for one more. *)
EXTENDS Catalog, TLC

Symmetry == Permutations(Request)

CONSTANTS p1, p2, c1, c2, u1, u2, a1, k1, t1, x1, low, high

Plain == [code |-> x1, price |-> low, override |-> NoValue, category |-> c1, unit |-> u1,
          jenis |-> NoValue, size |-> NoValue, kualitas |-> NoValue, active |-> TRUE]

Coded == [Plain EXCEPT !.jenis = a1]
Uncoded == [Plain EXCEPT !.code = NoValue, !.category = NoValue, !.size = a1]

MCNewProduct == {Coded, Uncoded}

MCProductPatch == {[price |-> high], [price |-> low], [override |-> high], [jenis |-> a1], [active |-> TRUE]}

MCFile == {<<Plain>>}

MCSeed ==
    (p1 :> ([at |-> 0] @@ [Plain EXCEPT !.code = NoValue, !.category = NoValue])) @@ (p2 :> Unused)
    @@ (c1 :> [parent |-> NoValue, active |-> TRUE, at |-> 0]) @@ (c2 :> Unused)
    @@ (u1 :> [dimension |-> "mass", base |-> NoValue, active |-> TRUE]) @@ (u2 :> Unused)
    @@ (a1 :> [kind |-> "jenis", active |-> TRUE, at |-> 0])
    @@ (k1 :> [type |-> "supplier", active |-> TRUE, at |-> 0])
    @@ (t1 :> [active |-> TRUE])
=============================================================================
