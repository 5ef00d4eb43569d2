---------------------------- MODULE WorkPromise ----------------------------
(***************************************************************************)
(* What the durable work ledger promises to the code that enqueues work,   *)
(* with no leases, fences, owners or clocks in sight: an accepted item is  *)
(* settled at most once, and a cancellation that was accepted while the    *)
(* item was open decides how it settles.                                   *)
(***************************************************************************)
CONSTANT Items

VARIABLES phase,      \* phase[i]: "absent", "open" or the outcome i settled with
          withdrawn   \* the items whose cancellation was accepted

Outcomes == {"succeeded", "failed", "cancelled"}

PromiseTypeOK == /\ phase \in [Items -> {"absent", "open"} \cup Outcomes]
                 /\ withdrawn \in SUBSET Items

PromiseInit == /\ phase = [i \in Items |-> "absent"]
               /\ withdrawn = {}

(* The item is accepted: from now on it exists until it is settled.        *)
Accept(i) == /\ phase[i] = "absent"
             /\ phase' = [phase EXCEPT ![i] = "open"]
             /\ UNCHANGED withdrawn

(* Cancellation of an open item is accepted, whether or not an attempt at  *)
(* the item is in progress.                                                *)
Withdraw(i) == /\ phase[i] = "open"
               /\ withdrawn' = withdrawn \cup {i}
               /\ phase' \in {phase, [phase EXCEPT ![i] = "cancelled"]}

(* Items settle; several withdrawn ones may be swept in one step.          *)
Settle(S, o) == /\ S # {}
                /\ \A i \in S : phase[i] = "open" /\ (i \in withdrawn => o = "cancelled")
                /\ phase' = [i \in Items |-> IF i \in S THEN o ELSE phase[i]]
                /\ UNCHANGED withdrawn

PromiseNext == \/ \E i \in Items : Accept(i) \/ Withdraw(i)
               \/ \E S \in SUBSET Items, o \in Outcomes : Settle(S, o)

PromiseSpec == PromiseInit /\ [][PromiseNext]_<<phase, withdrawn>>
============================================================================
