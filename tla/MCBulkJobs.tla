----------------------------- MODULE MCBulkJobs -----------------------------
(* Small instances of BulkJobs: jobs that regenerate two documents, delete  *)
(* one of them, and resume the same one.                                   *)
EXTENDS BulkJobs
MCJobOf == [i \in Items |-> CASE i = "r1" -> "regen" [] i = "r2" -> "regen"
                              [] i = "x1" -> "wipe" [] i = "s1" -> "again"]
MCDocOf == [i \in Items |-> IF i = "r2" THEN "d2" ELSE "d1"]
MCKind  == [j \in Jobs |-> CASE j = "regen" -> "regenerate" [] j = "wipe" -> "delete" [] j = "again" -> "resume"]
============================================================================
