------------------------------ MODULE Capacity ------------------------------
(***************************************************************************)
(* The shared concurrency limit of one resource ("llm", "chat"): the slot  *)
(* leases of work/coordination.py, and the model budget of                 *)
(* work/model_budget.py that brackets a provider call with one.            *)
(*                                                                         *)
(* Each action is one committed transaction; all of them lock the          *)
(* resource's policy row first.  A lease token may be presented at any     *)
(* later time.  A lease taken with release_required is not freed by        *)
(* expiry: the provider may still be executing the call it stands for,     *)
(* whatever became of the process that made the call.                      *)
(*                                                                         *)
(* Time is the database clock, kept as remaining time: expires and hold    *)
(* count down to 0.  The instant expires_at that a renewal must quote is   *)
(* told apart by the number of renewals that set it.                       *)
(***************************************************************************)
EXTENDS Integers, FiniteSets

CONSTANTS
    Owners,    \* owner identities
    MaxLimit,  \* largest limit a replica may be configured with (10000)
    Ttl,       \* ttl_seconds, in ticks
    MaxHold,   \* largest hold_seconds, in ticks
    MaxFence,  \* bound: leases ever made on one slot
    MaxRenew,  \* bound: renewals of one lease
    Nobody     \* owner_id IS NULL

ASSUME CapacityAssumption ==
    /\ MaxLimit \in Nat \ {0}
    /\ Ttl \in Nat \ {0}
    /\ MaxHold \in Nat /\ MaxHold >= Ttl
    /\ MaxFence \in Nat
    /\ MaxRenew \in Nat
    /\ Nobody \notin Owners

Limits == 1..MaxLimit
Slots  == 0..MaxLimit - 1

VARIABLES
    limit,      \* capacity_limit of the policy row; 0: no row yet
    \* the columns of the slot rows; fence 0: no row yet
    owner, fence, required,
    expires,    \* expires_at, remaining; 0 when expired or NULL
    renewals,   \* renewals that made expires_at what it is
    hold,       \* protected_until, remaining
    leases,     \* every CapacityLease returned
    \* model calls, by their lease
    budgets,    \* ModelBudgets not closed
    begun,      \* calls made, each at most once
    executing   \* calls whose latest request the provider has not finished

row  == <<owner, fence, required, expires, renewals, hold>>
call == <<budgets, begun, executing>>
vars == <<limit, row, leases, call>>

Lease == [slot : Slots, owner : Owners, fence : Nat, renewals : Nat]

Init == /\ limit = 0
        /\ owner = [s \in Slots |-> Nobody]
        /\ fence = [s \in Slots |-> 0]
        /\ required = [s \in Slots |-> FALSE]
        /\ expires = [s \in Slots |-> 0]
        /\ renewals = [s \in Slots |-> 0]
        /\ hold = [s \in Slots |-> 0]
        /\ leases = {} /\ budgets = {} /\ begun = {} /\ executing = {}

----------------------------------------------------------------------------
BusyByClock(s) == owner[s] # Nobody /\ (expires[s] > 0 \/ hold[s] > 0)  \* mutant

Busy(s) == owner[s] # Nobody /\ (required[s] \/ expires[s] > 0 \/ hold[s] > 0)

BusySlots == {s \in Slots : Busy(s)}

(* A replica with another limit is refused while any slot is busy.         *)
PolicyAdmits(n) == limit \in {0, n} \/ BusySlots = {}

(* The slot a reservation takes: the first free row within the limit,      *)
(* otherwise the first number no row has.                                  *)
Reusable(n) == {s \in Slots : fence[s] > 0 /\ ~Busy(s) /\ s < n}
Unused(n)   == {s \in Slots : fence[s] = 0 /\ s < n}

Choice(n) == LET S == IF Reusable(n) # {} THEN Reusable(n) ELSE Unused(n)
             IN  {s \in S : \A t \in S : s <= t}

(* Identity of a lease, which renewals keep, and what an exact, unexpired  *)
(* token proves.                                                           *)
OfAnyFence(l) == owner[l.slot] = l.owner                 \* mutant
Identified(l) == owner[l.slot] = l.owner /\ fence[l.slot] = l.fence

Live(l)  == Identified(l) /\ expires[l.slot] > 0
Exact(l) == Live(l) /\ renewals[l.slot] = l.renewals

Vacate(s) == /\ owner' = [owner EXCEPT ![s] = Nobody]
             /\ expires' = [expires EXCEPT ![s] = 0]
             /\ hold' = [hold EXCEPT ![s] = 0]

----------------------------------------------------------------------------
Reserve(o, n, h, provider) ==
    /\ PolicyAdmits(n)
    /\ Cardinality(BusySlots) < n
    /\ \E s \in Choice(n) :
          LET l == [slot |-> s, owner |-> o, fence |-> fence[s] + 1, renewals |-> 0]
          IN  /\ fence[s] < MaxFence
              /\ limit' = n
              /\ owner' = [owner EXCEPT ![s] = o]
              /\ fence' = [fence EXCEPT ![s] = @ + 1]
              /\ required' = [required EXCEPT ![s] = provider]
              /\ expires' = [expires EXCEPT ![s] = Ttl]
              /\ renewals' = [renewals EXCEPT ![s] = 0]
              /\ hold' = [hold EXCEPT ![s] = h]
              /\ leases' = leases \cup {l}
              /\ budgets' = IF provider THEN budgets \cup {l} ELSE budgets
    /\ UNCHANGED <<begun, executing>>

Renew(l) ==
    /\ Exact(l)
    /\ l.renewals < MaxRenew
    /\ expires' = [expires EXCEPT ![l.slot] = Ttl]
    /\ renewals' = [renewals EXCEPT ![l.slot] = @ + 1]
    /\ hold' = [hold EXCEPT ![l.slot] = IF @ > Ttl THEN @ ELSE Ttl]
    /\ leases' = leases \cup {[l EXCEPT !.renewals = @ + 1]}
    /\ UNCHANGED <<limit, owner, fence, required, call>>

Release(l) ==
    /\ Exact(l)
    /\ ~required[l.slot]
    /\ Vacate(l.slot)
    /\ UNCHANGED <<limit, fence, required, renewals, leases, call>>

(* complete_capacity: the identity must match, its expiry does not matter. *)
Complete(l) ==
    /\ Identified(l) /\ required[l.slot]
    /\ Vacate(l.slot)
    /\ required' = [required EXCEPT ![l.slot] = FALSE]
    /\ UNCHANGED <<limit, fence, renewals, leases>>

(* The request thread starts; the provider executes.                       *)
Calls(l) ==
    /\ l \in budgets \ begun
    /\ begun' = begun \cup {l}
    /\ executing' = executing \cup {l}
    /\ UNCHANGED <<limit, row, leases, budgets>>

Answers(l) ==
    /\ l \in executing
    /\ executing' = executing \ {l}
    /\ UNCHANGED <<limit, row, leases, budgets, begun>>

(* The budget is closed after the latest request of the call ended with a  *)
(* finish reason or a rejecting status (llm_client.py:514-521), or without *)
(* a call. A request that the client library sent again is counted once:   *)
(* what the provider still does for the earlier one nobody can know. Only  *)
(* the task source_assessment has such retries set to 0 (line 468).        *)
Confirms(l) ==
    /\ l \in budgets \ executing
    /\ Complete(l)
    /\ budgets' = budgets \ {l}
    /\ UNCHANGED <<begun, executing>>

(* ... or without that knowledge, or completing the slot fails, or the     *)
(* process dies: the slot stays taken.                                     *)
Closes(l) ==
    /\ l \in budgets
    /\ budgets' = budgets \ {l}
    /\ UNCHANGED <<limit, row, leases, begun, executing>>

(* The operator proves every writer and the provider stopped, and frees    *)
(* the complete set of retained slots.                                     *)
Reconcile ==
    /\ budgets = {} /\ executing = {}
    /\ \A s \in Slots : owner[s] # Nobody => required[s]
    /\ owner' = [s \in Slots |-> Nobody]
    /\ required' = [s \in Slots |-> FALSE]
    /\ expires' = [s \in Slots |-> 0]
    /\ hold' = [s \in Slots |-> 0]
    /\ UNCHANGED <<limit, fence, renewals, leases, call>>

Minus(t) == IF t > 0 THEN t - 1 ELSE 0

(* The database clock advances.                                            *)
Tick == /\ expires' = [s \in Slots |-> Minus(expires[s])]
        /\ hold' = [s \in Slots |-> Minus(hold[s])]
        /\ UNCHANGED <<limit, owner, fence, required, renewals, leases, call>>

Next == \/ \E o \in Owners, n \in Limits, h \in Ttl..MaxHold, b \in BOOLEAN : Reserve(o, n, h, b)
        \/ \E l \in leases : \/ Renew(l) \/ Release(l)
                             \/ Calls(l) \/ Answers(l) \/ Confirms(l) \/ Closes(l)
        \/ Reconcile \/ Tick

Spec == Init /\ [][Next]_vars

----------------------------------------------------------------------------
(* Properties.                                                             *)

(* Rows, clock and tokens have the shape of their columns.                 *)
TypeOK == /\ limit \in Limits \cup {0}
          /\ owner \in [Slots -> Owners \cup {Nobody}]
          /\ fence \in [Slots -> Nat]
          /\ required \in [Slots -> BOOLEAN]
          /\ expires \in [Slots -> 0..Ttl]
          /\ renewals \in [Slots -> Nat]
          /\ hold \in [Slots -> 0..MaxHold]
          /\ leases \in SUBSET Lease
          /\ budgets \subseteq leases /\ begun \subseteq leases /\ executing \subseteq begun

(* The resource is a Semaphore. A reservation is inside while its lease or *)
(* its hold runs, and for a call also while the call may still be made or  *)
(* the provider executes it, whoever has forgotten it meanwhile.           *)
Reservation == [slot : Slots, owner : Owners, fence : 1..MaxFence, renewals : {0}]

Reservations == {l \in leases : l.renewals = 0}

Running(l) == Identified(l) /\ (expires[l.slot] > 0 \/ hold[l.slot] > 0)

InUse == {l \in Reservations : l \in budgets \cup executing \/ Running(l)}

Shared == INSTANCE Semaphore WITH Users <- Reservation, inside <- InUse, seen <- Reservations

KeepsSemaphore == Shared!SemaphoreSpec

(* The policy in force bounds the busy slots, also after a smaller limit   *)
(* was rolled out: none of them lies above it.                             *)
BusyWithinLimit == \A s \in BusySlots : s < limit

(* However many processes die, leases expire and answers come late, the    *)
(* provider never executes more calls than the policy in force allows.     *)
ProviderWithinLimit == Cardinality(executing) <= limit

(* A call that may be executing, or may still be made, has its slot.       *)
CallsHoldSlots == \A l \in budgets \cup executing : Identified(l) /\ required[l.slot]

(* Below the limit there is always a slot to take: the code's search for   *)
(* one (`next(value for value in range(limit) ...)') cannot run out.       *)
AlwaysASlot == \A n \in Limits :
    Cardinality(BusySlots) < n => Reusable(n) \cup Unused(n) # {}

(* A lease that expired, was released or was taken over is never live      *)
(* again, and so cannot renew or release what others hold by then.         *)
LostForever == [][\A l \in leases : Live(l)' => Live(l)]_vars
============================================================================
