--------------------------- MODULE MCIdempotency ---------------------------
(* Instances of Idempotency for TLC: the key of an endpoint that replays,   *)
(* sent twice with one body (a1, a2) and once with another (b1), and the    *)
(* key of one that only registers, sent likewise (c1, c2, d1).              *)
EXTENDS Idempotency, TLC

CONSTANTS a1, a2, b1, c1, c2, d1, k1, k2, h1, h2

MCSlotOf == a1 :> k1 @@ a2 :> k1 @@ b1 :> k1 @@ c1 :> k2 @@ c2 :> k2 @@ d1 :> k2
MCBodyOf == a1 :> h1 @@ a2 :> h1 @@ b1 :> h2 @@ c1 :> h1 @@ c2 :> h1 @@ d1 :> h2

=============================================================================
