------------------------------ MODULE Requests ------------------------------
(* What the modules of several components have in common: the requests the  *)
(* server may be working on at the same time.  Each module says what a      *)
(* request does there.                                                      *)
CONSTANT Request
=============================================================================
