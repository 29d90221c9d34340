------------------------------ MODULE MCAccounts ------------------------------
(* Two requests; an owner and a member of staff, a second role, two sessions. *)
EXTENDS Accounts, TLC

CONSTANTS olga, sam, una, staff, clerk, boss

MCSeeded == (olga :> Owner) @@ (sam :> staff)

Symmetry == Permutations(Request) \cup Permutations(Session)
=============================================================================
