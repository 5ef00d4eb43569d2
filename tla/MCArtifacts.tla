----------------------------- MODULE MCArtifacts -----------------------------
(* Small instances of Artifacts. *)
EXTENDS Artifacts
CONSTANTS o1, r1, c1, c2
=============================================================================
