----------------------------- MODULE AtomicWork -----------------------------
(***************************************************************************)
(* What the ledger is to the handlers: each of their transactions is one   *)
(* step of the latest attempt at an item nobody withdrew, which may settle *)
(* the item in the same step.  No locks, leases, guards at entry and       *)
(* before COMMIT, or threads of lost attempts in sight.                    *)
(***************************************************************************)
EXTENDS LedgerRows, Sequences

VARIABLE effects   \* effects[i]: the attempts whose transactions committed

AtomicInit == RowsInit /\ effects = [i \in Items |-> << >>]

Transacts(i) == /\ Held(i)
                /\ effects' = [effects EXCEPT ![i] = Append(@, fence[i])]
                /\ status' \in {status} \cup {[status EXCEPT ![i] = s] : s \in {"succeeded", "failed"}}
                /\ UNCHANGED <<fence, withdrawn>>

AtomicNext == \/ RowsNext /\ UNCHANGED effects
              \/ \E i \in Items : Transacts(i)

AtomicSpec == AtomicInit /\ [][AtomicNext]_<<rows, effects>>
=============================================================================
