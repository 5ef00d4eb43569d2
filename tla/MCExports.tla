------------------------------ MODULE MCExports ------------------------------
(* A small instance of Exports: one administrator, three exports of which  *)
(* two fit into the quota.                                                 *)
EXTENDS Exports
MCBy   == [e \in Exports |-> "admin"]
MCSize == [e \in Exports |-> 2]
=============================================================================
