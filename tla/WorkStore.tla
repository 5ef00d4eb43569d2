----------------------------- MODULE WorkStore -----------------------------
(***************************************************************************)
(* The durable work ledger of app/services/work/store.py: one row per work *)
(* item, claimed by worker processes for a lease, renewed, acknowledged,   *)
(* re-queued or cancelled, under the maintenance epoch of                  *)
(* work/maintenance_control.py.                                            *)
(*                                                                         *)
(* Each action is one committed transaction: PostgreSQL locks the row      *)
(* before the code reads it (SKIP LOCKED in claim), so transactions on a   *)
(* row are serial.  WorkExecution.tla opens the transactions up.           *)
(*                                                                         *)
(* Time is the database clock, kept as remaining time: lease and delay     *)
(* count down to 0, so `lease_until <= now' reads lease = 0 and            *)
(* `available_at <= now' reads delay = 0.                                  *)
(*                                                                         *)
(* A claim token, once returned, may be presented at any later time and    *)
(* any number of times: the processes holding one may be slow, may have    *)
(* lost the row, or may answer after someone else did.                     *)
(***************************************************************************)
EXTENDS Integers

CONSTANTS
    Items,        \* work items, named by their dedupe key
    Procs,        \* processes (API and workers) by owner identity
    Compatible,   \* Compatible[p]: items whose kind/version p has a handler for
    LeaseTime,    \* work_lease_seconds, in ticks
    MaxDelay,     \* longest retry or defer delay, in ticks
    MaxAttempts,  \* work_max_attempts
    MaxFence,     \* bound: claims ever made on one item
    MaxEpoch,     \* bound: maintenance operations
    Nobody        \* owner_id IS NULL

ASSUME WorkStoreAssumption ==
    /\ Compatible \in [Procs -> SUBSET Items]
    /\ LeaseTime \in Nat \ {0}
    /\ MaxDelay \in Nat \ {0}
    /\ MaxAttempts \in Nat \ {0}
    /\ MaxFence \in Nat
    /\ MaxEpoch \in Nat
    /\ Nobody \notin Procs

VARIABLES
    \* the columns of the WorkItem table, by item
    status,       \* "absent" stands for: no row
    owner,        \* owner_id
    lease,        \* lease_until, remaining; 0 when expired or NULL
    fence,
    attempts,
    cancelled,    \* cancel_requested
    delay,        \* available_at, remaining
    rowEpoch,     \* maintenance_epoch
    \* outside the table
    claims,       \* every WorkClaim token ever returned by claim
    epoch,        \* MaintenanceState.epoch
    enabled,      \* MaintenanceState.enabled: a maintenance operation is active
    bound         \* bound[p]: settings._maintenance_epoch of process p

tenure == <<status, owner, lease>>
counts == <<fence, attempts, rowEpoch>>
fences == <<epoch, enabled, bound>>
vars   == <<tenure, counts, cancelled, delay, claims, fences>>

Terminal == {"succeeded", "failed", "cancelled"}
Status   == {"absent", "queued", "running"} \cup Terminal
Claim    == [item : Items, owner : Procs, fence : Nat, epoch : Nat]

Init == /\ status = [i \in Items |-> "absent"]
        /\ owner = [i \in Items |-> Nobody]
        /\ lease = [i \in Items |-> 0]
        /\ fence = [i \in Items |-> 0]
        /\ attempts = [i \in Items |-> 0]
        /\ cancelled = [i \in Items |-> FALSE]
        /\ delay = [i \in Items |-> 0]
        /\ rowEpoch = [i \in Items |-> 0]
        /\ claims = {}
        /\ epoch = 0
        /\ enabled = FALSE
        /\ bound = [p \in Procs |-> 0]

----------------------------------------------------------------------------
(* State formulae.                                                         *)

(* The maintenance fence a process' session passes on entry and on writes. *)
MayWrite(p) == ~enabled /\ bound[p] = epoch

(* What _locked demands of the row before an owner may touch it.           *)
Holds(c) == /\ ~enabled
            /\ epoch = c.epoch
            /\ status[c.item] = "running"
            /\ owner[c.item] = c.owner
            /\ fence[c.item] = c.fence
            /\ lease[c.item] > 0
            /\ rowEpoch[c.item] = c.epoch

(* ... and of every caller but an acknowledgement of the cancellation.     *)
OwnsCancelledToo(c) == Holds(c)                          \* mutant

Owns(c) == Holds(c) /\ ~cancelled[c.item]

Expired(i) == status[i] = "running" /\ lease[i] = 0

Eligible(i) == /\ ~cancelled[i]
               /\ delay[i] = 0
               /\ status[i] = "queued" \/ Expired(i)

(* A poll sees the rows no other transaction has locked (SKIP LOCKED).     *)
Claimable(p, free) == {i \in Compatible[p] \cap free : Eligible(i) /\ fence[i] < MaxFence}

(* Before it looks for work a poll retires the cancelled rows whose owner  *)
(* can no longer acknowledge.                                              *)
Retired(free) == {i \in free : Expired(i) /\ cancelled[i]}

(* A claim takes the next fence and spends an attempt.                     *)
SameFence(i) == fence[i]                                 \* mutant
NextFence(i) == fence[i] + 1

AttemptsUncounted(i) == attempts[i]                      \* mutant
NextAttempts(i) == attempts[i] + 1

(* Remaining time, one tick later.                                         *)
Minus(t) == IF t > 0 THEN t - 1 ELSE 0

----------------------------------------------------------------------------
(* Actions.                                                                *)

(* A second enqueue under the same dedupe key inserts nothing.             *)
Enqueue(p, i) ==
    /\ MayWrite(p)
    /\ status[i] = "absent"
    /\ status' = [status EXCEPT ![i] = "queued"]
    /\ UNCHANGED <<owner, lease, counts, cancelled, delay, claims, fences>>

(* One call of claim: retire, then take an eligible row it has a handler   *)
(* for.  (The code takes the one available longest; here any.)             *)
PollClaim(p, i, free) ==
    /\ MayWrite(p)
    /\ i \in Claimable(p, free)
    /\ status' = [j \in Items |-> CASE j = i -> "running"
                                   [] j \in Retired(free) -> "cancelled"
                                   [] OTHER -> status[j]]
    /\ owner' = [j \in Items |-> CASE j = i -> p
                                  [] j \in Retired(free) -> Nobody
                                  [] OTHER -> owner[j]]
    /\ lease' = [lease EXCEPT ![i] = LeaseTime]
    /\ fence' = [fence EXCEPT ![i] = NextFence(i)]
    /\ attempts' = [attempts EXCEPT ![i] = NextAttempts(i)]
    /\ rowEpoch' = [rowEpoch EXCEPT ![i] = bound[p]]
    /\ claims' = claims \cup
           {[item |-> i, owner |-> p, fence |-> NextFence(i), epoch |-> bound[p]]}
    /\ UNCHANGED <<cancelled, delay, fences>>

PollEmpty(p, free) ==
    /\ MayWrite(p)
    /\ Claimable(p, free) = {}
    /\ status' = [j \in Items |-> IF j \in Retired(free) THEN "cancelled" ELSE status[j]]
    /\ owner' = [j \in Items |-> IF j \in Retired(free) THEN Nobody ELSE owner[j]]
    /\ UNCHANGED <<lease, counts, cancelled, delay, claims, fences>>

Poll(p, free) == PollEmpty(p, free) \/ \E i \in Items : PollClaim(p, i, free)

Renew(c) ==
    /\ Owns(c)
    /\ lease' = [lease EXCEPT ![c.item] = LeaseTime]
    /\ UNCHANGED <<status, owner, counts, cancelled, delay, claims, fences>>

(* The owner gives the row up, in status s.                                *)
Yield(i, s) ==
    /\ status' = [status EXCEPT ![i] = s]
    /\ owner' = [owner EXCEPT ![i] = Nobody]
    /\ lease' = [lease EXCEPT ![i] = 0]
    /\ UNCHANGED <<fence, rowEpoch, cancelled, claims, fences>>

(* finish: only outcome "cancelled" passes a row that asks to be cancelled.*)
Finish(c, outcome) ==
    /\ IF outcome = "cancelled" THEN Holds(c) ELSE Owns(c)
    /\ Yield(c.item, outcome)
    /\ UNCHANGED <<attempts, delay>>

Retry(c, d) ==
    /\ Owns(c)
    /\ IF attempts[c.item] >= MaxAttempts
       THEN Yield(c.item, "failed") /\ UNCHANGED delay
       ELSE Yield(c.item, "queued") /\ delay' = [delay EXCEPT ![c.item] = d]
    /\ UNCHANGED attempts

(* A coordinator waits for its children without spending an attempt.       *)
Defer(c, d) ==
    /\ Owns(c)
    /\ Yield(c.item, "queued")
    /\ delay' = [delay EXCEPT ![c.item] = d]
    /\ attempts' = [attempts EXCEPT ![c.item] = @ - 1]

(* Cancelling a row nobody holds settles it; a live owner is only told.    *)
Cancel(p, i) ==
    /\ MayWrite(p)
    /\ status[i] \in {"queued", "running"}
    /\ cancelled' = [cancelled EXCEPT ![i] = TRUE]
    /\ IF status[i] = "queued" \/ lease[i] = 0
       THEN /\ status' = [status EXCEPT ![i] = "cancelled"]
            /\ owner' = [owner EXCEPT ![i] = Nobody]
       ELSE UNCHANGED <<status, owner>>
    /\ UNCHANGED <<lease, counts, delay, claims, fences>>

(* The database clock advances.                                            *)
Tick ==
    /\ lease' = [i \in Items |-> Minus(lease[i])]
    /\ delay' = [i \in Items |-> Minus(delay[i])]
    /\ UNCHANGED <<status, owner, counts, cancelled, claims, fences>>

(* The offline operator retires every running process' epoch.              *)
EnterMaintenance ==
    /\ ~enabled
    /\ epoch < MaxEpoch
    /\ epoch' = epoch + 1
    /\ enabled' = TRUE
    /\ UNCHANGED <<tenure, counts, cancelled, delay, claims, bound>>

LeaveMaintenance ==
    /\ enabled
    /\ enabled' = FALSE
    /\ UNCHANGED <<tenure, counts, cancelled, delay, claims, epoch, bound>>

(* A process restarts and binds the installed epoch; it may not while      *)
(* maintenance is active.                                                  *)
BindEpoch(p) ==
    /\ ~enabled
    /\ bound' = [bound EXCEPT ![p] = epoch]
    /\ UNCHANGED <<tenure, counts, cancelled, delay, claims, epoch, enabled>>

OwnerNext(c) ==
    \/ Renew(c)
    \/ \E o \in Terminal : Finish(c, o)
    \/ \E d \in 1..MaxDelay : Retry(c, d) \/ Defer(c, d)

Next ==
    \/ \E p \in Procs, i \in Items : Enqueue(p, i) \/ Cancel(p, i)
    \/ \E p \in Procs, free \in SUBSET Items : Poll(p, free)
    \/ \E p \in Procs : BindEpoch(p)
    \/ \E c \in claims : OwnerNext(c)
    \/ Tick \/ EnterMaintenance \/ LeaveMaintenance

Spec == Init /\ [][Next]_vars

----------------------------------------------------------------------------
(* Properties.                                                             *)

(* Every column, token and epoch has the shape its table gives it.         *)
TypeOK == /\ status \in [Items -> Status]
          /\ owner \in [Items -> Procs \cup {Nobody}]
          /\ lease \in [Items -> 0..LeaseTime]
          /\ fence \in [Items -> Nat]
          /\ attempts \in [Items -> Int]
          /\ cancelled \in [Items -> BOOLEAN]
          /\ delay \in [Items -> 0..MaxDelay]
          /\ rowEpoch \in [Items -> Nat]
          /\ claims \in SUBSET Claim
          /\ epoch \in Nat
          /\ enabled \in BOOLEAN
          /\ bound \in [Procs -> Nat]

(* Ownership, once lost (to expiry, a newer claim, an acknowledgement, a   *)
(* cancellation or a maintenance operation), never comes back to a token.  *)
LostForever == [][\A c \in claims : Owns(c)' => Owns(c)]_vars

(* A cancellation flag sits only on a row that can still be settled as     *)
(* cancelled: a queued row with the flag would be skipped by every poll    *)
(* and never settle, and a flagged row never ends in another outcome.      *)
CancelNotStranded == \A i \in Items : cancelled[i] => status[i] \in {"running", "cancelled"}

(* The attempt counter that indexes the worker's back-off table counts the *)
(* claims that were not deferred: never negative, at least one while an    *)
(* attempt runs, never more than the claims made.                          *)
AttemptsAccounted == \A i \in Items :
    /\ attempts[i] \in 0..fence[i]
    /\ status[i] = "running" => attempts[i] >= 1

(* The ledger keeps the promise of WorkPromise.                            *)
Phase == [i \in Items |-> IF status[i] \in {"queued", "running"} THEN "open" ELSE status[i]]

Withdrawn == {i \in Items : cancelled[i]}

Promise == INSTANCE WorkPromise WITH phase <- Phase, withdrawn <- Withdrawn

KeepsPromise == Promise!PromiseSpec
============================================================================
