-------------------------- MODULE MCWorkExecution --------------------------
(* Small instances of WorkExecution for TLC.                               *)
EXTENDS WorkExecution

CONSTANTS i1, i2, w1, w2

AllKinds == [p \in Procs |-> Items]
============================================================================
