--------------------------- MODULE MCServerProcess ---------------------------
(* Movements across the limits, a product with a threshold of its own or    *)
(* the one of the settings, two export requests, one restart.               *)
EXTENDS ServerProcess

MCQuantity == {-1, 2}
MCThreshold == {1, Nothing}
MCDefault == {0, 1}

=============================================================================
