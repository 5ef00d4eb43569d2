----------------------------- MODULE LedgerRows -----------------------------
(***************************************************************************)
(* What the ledger is to a component that rides on its rows, with no       *)
(* owners, leases, back-off or maintenance in sight: an item is queued or  *)
(* in the hands of its latest attempt, which the row's fence numbers; an   *)
(* attempt can be replaced at any time, but not once the item is           *)
(* withdrawn.                                                              *)
(***************************************************************************)
EXTENDS Naturals

CONSTANT Items

VARIABLES status, fence, withdrawn

rows == <<status, fence, withdrawn>>

RowsInit == /\ status \in [Items -> {"absent", "queued"}]
            /\ fence = [i \in Items |-> 0]
            /\ withdrawn = [i \in Items |-> FALSE]

(* The latest attempt at the item may act for it.                          *)
Held(i) == status[i] = "running" /\ ~withdrawn[i]

Becomes(i, s, f, w) == status'[i] = s /\ fence'[i] = f /\ withdrawn'[i] = w

Stays(i) == Becomes(i, status[i], fence[i], withdrawn[i])

Enters(i) == status[i] = "absent" /\ Becomes(i, "queued", fence[i], withdrawn[i])

(* A new attempt, at a queued item or in place of the attempt before.      *)
Taken(i) == /\ status[i] \in {"queued", "running"} /\ ~withdrawn[i]
            /\ Becomes(i, "running", fence[i] + 1, FALSE)

(* The latest attempt gives the item back or settles it.                   *)
Given(i) == /\ Held(i)
            /\ \E s \in {"queued", "succeeded", "failed", "cancelled"} : Becomes(i, s, fence[i], FALSE)

(* An item that is running may be left to its attempt to acknowledge.      *)
Recalled(i) == \/ status[i] \in {"queued", "running"} /\ Becomes(i, "cancelled", fence[i], TRUE)
               \/ status[i] = "running" /\ Becomes(i, "running", fence[i], TRUE)

Cleared(i) == status[i] = "running" /\ withdrawn[i] /\ Becomes(i, "cancelled", fence[i], TRUE)

(* Rows move independently, but attempts begin one at a time.              *)
RowsNext ==
    /\ \A i \in Items : Stays(i) \/ Enters(i) \/ Taken(i) \/ Given(i) \/ Recalled(i) \/ Cleared(i)
    /\ \A i, j \in Items : fence'[i] # fence[i] /\ fence'[j] # fence[j] => i = j

RowsSpec == RowsInit /\ [][RowsNext]_rows
=============================================================================
