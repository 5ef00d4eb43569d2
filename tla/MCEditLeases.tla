---------------------------- MODULE MCEditLeases ----------------------------
(* A small instance of EditLeases. *)
EXTENDS EditLeases
CONSTANTS t1, t2, j1
=============================================================================
