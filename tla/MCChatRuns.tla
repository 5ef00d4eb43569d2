----------------------------- MODULE MCChatRuns -----------------------------
(* Small instances of ChatRuns. *)
EXTENDS ChatRuns
CONSTANTS r1, r2, s1, s2, p1
============================================================================
