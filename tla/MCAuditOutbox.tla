---------------------------- MODULE MCAuditOutbox ----------------------------
(* A small instance of AuditOutbox. *)
EXTENDS AuditOutbox
CONSTANTS e1, e2, e3, p1, p2
=============================================================================
