--------------------------- MODULE WorkExecution ---------------------------
(***************************************************************************)
(* Worker processes executing items of the ledger (work/worker.py), and    *)
(* the transaction guard that fences what their handlers write             *)
(* (work/context.py, db/session.py).                                       *)
(*                                                                         *)
(* A process runs one coordinator thread (claim, watch, acknowledge) and   *)
(* one handler thread.  The coordinator may give up an attempt while its   *)
(* handler runs on: the handler then still holds its claim, and may open   *)
(* transactions.  A handler transaction is opened up into its guard at     *)
(* session entry, an optional finish inside it, the guard before COMMIT    *)
(* and the COMMIT; from entry to end it holds the item's row lock and a    *)
(* shared lock on the maintenance row.                                     *)
(***************************************************************************)
EXTENDS WorkStore, Sequences

CONSTANTS MaxEffects,  \* bound: handler transactions committed for one item
          NoClaim

VARIABLES
    up,       \* up[p]: process p runs
    stop,     \* stop[p]: its stop event is set
    slot,     \* slot[p]: what its coordinator does with its claim
    token,    \* token[p]: the coordinator's WorkClaim
    future,   \* future[p]: its handler thread
    hclaim,   \* hclaim[p]: the claim the handler was started with
    txn,      \* txn[p]: the handler's open transaction
    effects   \* effects[i]: fences of the transactions committed for item i

local == <<up, stop, slot, token, future, hclaim>>
xvars == <<vars, local, txn, effects>>

Results == {"ok", "failed", "transient", "deferred"}

(* The outcomes handlers give their own item, and what an open transaction *)
(* that carries one becomes when the guard before COMMIT has let it pass.  *)
Sealed == [succeeded |-> "commit_succeeded", failed |-> "commit_failed"]

ExecInit == /\ Init
            /\ up = [p \in Procs |-> TRUE]
            /\ stop = [p \in Procs |-> FALSE]
            /\ slot = [p \in Procs |-> "idle"]
            /\ token = [p \in Procs |-> NoClaim]
            /\ future = [p \in Procs |-> "none"]
            /\ hclaim = [p \in Procs |-> NoClaim]
            /\ txn = [p \in Procs |-> "none"]
            /\ effects = [i \in Items |-> << >>]

(* Rows no handler transaction has locked.  A statement that needs another *)
(* row waits (it is not enabled); only a poll skips.                       *)
LocksIgnored == Items                                    \* mutant
Free == Items \ {hclaim[p].item : p \in {q \in Procs : txn[q] # "none"}}

----------------------------------------------------------------------------
(* The coordinator thread: Worker.run_once.                                *)

(* While the handler of a lost attempt runs on, the local slot is taken.   *)
SlotFree(p) == up[p] /\ ~stop[p] /\ slot[p] = "idle" /\ future[p] # "busy"

Claims(p) ==
    /\ SlotFree(p)
    /\ \E i \in Items :
          /\ PollClaim(p, i, Free)
          /\ token' = [token EXCEPT ![p] =
                [item |-> i, owner |-> p, fence |-> NextFence(i), epoch |-> bound[p]]]
    /\ slot' = [slot EXCEPT ![p] = "claimed"]
    /\ UNCHANGED <<up, stop, future, hclaim, txn, effects>>

FindsNothing(p) ==
    /\ SlotFree(p)
    /\ PollEmpty(p, Free)
    /\ UNCHANGED <<local, txn, effects>>

(* Nobody will look at the token or at the handler's result again.         *)
GivesUp(p) == /\ slot' = [slot EXCEPT ![p] = "idle"]
              /\ token' = [token EXCEPT ![p] = NoClaim]
              /\ future' = [future EXCEPT ![p] = IF @ = "busy" THEN @ ELSE "none"]

(* A claim committed before a stop is left to expire.                      *)
Submits(p) ==
    /\ up[p] /\ slot[p] = "claimed"
    /\ IF stop[p]
       THEN GivesUp(p) /\ UNCHANGED hclaim
       ELSE /\ slot' = [slot EXCEPT ![p] = "watching"]
            /\ future' = [future EXCEPT ![p] = "busy"]
            /\ hclaim' = [hclaim EXCEPT ![p] = token[p]]
            /\ UNCHANGED token
    /\ UNCHANGED <<vars, up, stop, txn, effects>>

(* The heartbeat waits for the row while the handler's own transaction has *)
(* it locked (55P03 and a fresh try); losing ownership ends the watch.     *)
HeartbeatsCancelledToo(p) ==                             \* mutant
    /\ up[p] /\ slot[p] = "watching" /\ future[p] = "busy"
    /\ token[p].item \in Free
    /\ IF Holds(token[p])
       THEN /\ lease' = [lease EXCEPT ![token[p].item] = LeaseTime]
            /\ UNCHANGED <<status, owner, counts, cancelled, delay, claims, fences, slot, token, future>>
       ELSE GivesUp(p) /\ UNCHANGED vars
    /\ UNCHANGED <<up, stop, hclaim, txn, effects>>

Heartbeats(p) ==
    /\ up[p] /\ slot[p] = "watching" /\ future[p] = "busy"
    /\ token[p].item \in Free
    /\ IF Owns(token[p])
       THEN Renew(token[p]) /\ UNCHANGED <<slot, token, future>>
       ELSE GivesUp(p) /\ UNCHANGED vars
    /\ UNCHANGED <<up, stop, hclaim, txn, effects>>

(* A stop, or a database error in a heartbeat or an acknowledgement.       *)
Abandons(p) ==
    /\ up[p] /\ slot[p] = "watching"
    /\ GivesUp(p)
    /\ UNCHANGED <<vars, up, stop, hclaim, txn, effects>>

Acknowledges(p) ==
    /\ up[p] /\ slot[p] = "watching" /\ future[p] \in Results
    /\ token[p].item \in Free
    /\ IF Owns(token[p])
       THEN \/ future[p] = "ok" /\ Finish(token[p], "succeeded")
            \/ future[p] = "failed" /\ Finish(token[p], "failed")
            \/ future[p] = "transient" /\ \E d \in 1..MaxDelay : Retry(token[p], d)
            \/ future[p] = "deferred" /\ \E d \in 1..MaxDelay : Defer(token[p], d)
       ELSE UNCHANGED vars
    /\ GivesUp(p)
    /\ UNCHANGED <<up, stop, hclaim, txn, effects>>

----------------------------------------------------------------------------
(* The handler thread.                                                     *)

Running(p) == up[p] /\ future[p] = "busy"

(* Entry of session_scope inside the execution context.                    *)
Begins(p) ==
    /\ Running(p) /\ txn[p] = "none"
    /\ hclaim[p].item \in Free
    /\ Owns(hclaim[p])
    /\ txn' = [txn EXCEPT ![p] = "open"]
    /\ UNCHANGED <<vars, local, effects>>

(* finish inside the handler's transaction, as a publication does, or a    *)
(* bulk item that succeeded or failed: the row is pending as settled, and  *)
(* the completion marker is left.                                          *)
Completes(p) ==
    /\ Running(p) /\ txn[p] = "open"
    /\ Owns(hclaim[p])
    /\ \E o \in DOMAIN Sealed : txn' = [txn EXCEPT ![p] = o]
    /\ UNCHANGED <<vars, local, effects>>

(* The guard before COMMIT: ownership once more, or the marker of this     *)
(* very transaction, which needs no live lease.                            *)
Checks(p) ==
    /\ Running(p)
    /\ \/ txn[p] = "open" /\ Owns(hclaim[p]) /\ txn' = [txn EXCEPT ![p] = "commit"]
       \/ txn[p] \in DOMAIN Sealed /\ txn' = [txn EXCEPT ![p] = Sealed[@]]
    /\ UNCHANGED <<vars, local, effects>>

Commits(p) ==
    LET i == hclaim[p].item
    IN /\ Running(p)
       /\ Len(effects[i]) < MaxEffects
       /\ effects' = [effects EXCEPT ![i] = Append(@, hclaim[p].fence)]
       /\ \/ txn[p] = "commit" /\ UNCHANGED vars
          \/ \E o \in DOMAIN Sealed : /\ txn[p] = Sealed[o]
                                       /\ Yield(i, o)
                                       /\ UNCHANGED <<attempts, delay>>
       /\ txn' = [txn EXCEPT ![p] = "none"]
       /\ UNCHANGED local

(* A lost guard, a failed statement or a lost connection.                  *)
RollsBack(p) ==
    /\ Running(p) /\ txn[p] # "none"
    /\ txn' = [txn EXCEPT ![p] = "none"]
    /\ UNCHANGED <<vars, local, effects>>

Returns(p) ==
    /\ Running(p) /\ txn[p] = "none"
    /\ \E r \in IF slot[p] = "watching" THEN Results ELSE {"none"} :
          future' = [future EXCEPT ![p] = r]
    /\ hclaim' = [hclaim EXCEPT ![p] = NoClaim]
    /\ UNCHANGED <<vars, up, stop, slot, token, txn, effects>>

----------------------------------------------------------------------------
(* Processes and the rest of the system.                                   *)

Stops(p) ==
    /\ up[p] /\ ~stop[p]
    /\ stop' = [stop EXCEPT ![p] = TRUE]
    /\ UNCHANGED <<vars, up, slot, token, future, hclaim, txn, effects>>

(* The process dies, or exits after a stop; the database rolls back.       *)
Dies(p) ==
    /\ up[p]
    /\ up' = [up EXCEPT ![p] = FALSE]
    /\ stop' = [stop EXCEPT ![p] = FALSE]
    /\ slot' = [slot EXCEPT ![p] = "idle"]
    /\ future' = [future EXCEPT ![p] = "none"]
    /\ token' = [token EXCEPT ![p] = NoClaim]
    /\ hclaim' = [hclaim EXCEPT ![p] = NoClaim]
    /\ txn' = [txn EXCEPT ![p] = "none"]
    /\ UNCHANGED <<vars, effects>>

Starts(p) ==
    /\ ~up[p]
    /\ BindEpoch(p)
    /\ up' = [up EXCEPT ![p] = TRUE]
    /\ UNCHANGED <<stop, slot, token, future, hclaim, txn, effects>>

(* Requests of any process; a cancellation waits for the row.              *)
Requests(p, i) ==
    /\ up[p]
    /\ \/ Enqueue(p, i)
       \/ i \in Free /\ Cancel(p, i)
    /\ UNCHANGED <<local, txn, effects>>

(* Entering maintenance takes the maintenance row exclusively: it waits    *)
(* for every transaction that read it.                                     *)
Operates ==
    /\ \/ EnterMaintenance /\ \A p \in Procs : txn[p] = "none"
       \/ LeaveMaintenance
    /\ UNCHANGED <<local, txn, effects>>

TimePasses == Tick /\ UNCHANGED <<local, txn, effects>>

Coordinator(p) == \/ Claims(p) \/ FindsNothing(p) \/ Submits(p) \/ Heartbeats(p)
                  \/ Abandons(p) \/ Acknowledges(p)
Handler(p) == Begins(p) \/ Completes(p) \/ Checks(p) \/ Commits(p) \/ RollsBack(p) \/ Returns(p)

ExecNext == \/ \E p \in Procs : \/ Coordinator(p) \/ Handler(p)
                                \/ Stops(p) \/ Dies(p) \/ Starts(p)
                                \/ \E i \in Items : Requests(p, i)
            \/ Operates \/ TimePasses

ExecSpec == ExecInit /\ [][ExecNext]_xvars

(* Transactions end; processes that are stopped, or whose epoch was        *)
(* retired, exit and are started again; time passes and maintenance ends;  *)
(* idle coordinators poll, and a process that crashes again and again      *)
(* polls now and then. A handler need not return and a heartbeat need not  *)
(* come: there must only be more processes than attempts that hang.        *)
FairExec ==
    /\ ExecSpec
    /\ WF_xvars(TimePasses)
    /\ WF_xvars(LeaveMaintenance /\ Operates)
    /\ \A p \in Procs :
          /\ SF_xvars(Claims(p) \/ FindsNothing(p))
          /\ WF_xvars(Commits(p) \/ RollsBack(p))
          /\ WF_xvars((stop[p] \/ bound[p] # epoch) /\ Dies(p))
          /\ WF_xvars(Starts(p))

----------------------------------------------------------------------------
(* Properties.                                                             *)

(* Between the guard at entry and the end of a transaction nothing can     *)
(* take the row, cancel it or retire its epoch, even after its lease ran   *)
(* out: pollers skip the row, cancellations and maintenance wait for it.   *)
OpenTransactionHoldsRow ==
    \A p \in Procs : txn[p] # "none" =>
        LET c == hclaim[p]
        IN /\ status[c.item] = "running" /\ owner[c.item] = p /\ fence[c.item] = c.fence
           /\ ~cancelled[c.item] /\ ~enabled /\ epoch = c.epoch

(* What handlers commit for an item is ordered by attempt: after an        *)
(* attempt has written, no transaction of an earlier one commits.          *)
EffectsInOrder == \A i \in Items : \A k \in 1..Len(effects[i]) - 1 :
                      effects[i][k] <= effects[i][k + 1]

(* Nothing is committed for an item that is settled, nor after its         *)
(* cancellation was accepted, by however late a handler.                   *)
SettledIsQuiet == [][\A i \in Items : status[i] \in Terminal \/ cancelled[i]
                        => effects'[i] = effects[i]]_xvars

(* The ledger's promise survives its transactions being opened up.         *)
KeepsPromiseOpen == Promise!PromiseSpec

(* Handler transactions are atomic steps of the latest attempt at an item  *)
(* nobody withdrew, although guard, statements and commit are apart, the   *)
(* lease may run out in between, and threads of lost attempts go on        *)
(* (enforce_session of work/context.py).                                   *)
Atomic == INSTANCE AtomicWork WITH withdrawn <- cancelled

TransactionsAtomic == Atomic!AtomicSpec

(* An accepted cancellation becomes final even if the handler never        *)
(* returns and its coordinator keeps the heartbeat going.                  *)
CancelSettlesOpen == \A i \in Items : cancelled[i] ~> status[i] = "cancelled"
============================================================================
