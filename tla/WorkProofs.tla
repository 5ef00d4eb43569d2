----------------------------- MODULE WorkProofs -----------------------------
(***************************************************************************)
(* Proofs about the ledger of work (WorkStore) and the executions of its   *)
(* items (WorkExecution), for every set of items and processes, every      *)
(* compatibility relation and every lease, delay and attempt limit.        *)
(***************************************************************************)
EXTENDS WorkExecution, TLAPS

(* The ledger.                                                             *)

LEMMA MinusBounds == ASSUME NEW n \in Nat, NEW t \in 0..n
                     PROVE  Minus(t) \in 0..n /\ (Minus(t) > 0 => t > 0)
BY DEF Minus

LEMMA TypeStep == ASSUME TypeOK, [Next]_vars PROVE TypeOK'
<1> USE DEF tenure, counts, fences
<1>1. ASSUME NEW p \in Procs, NEW i \in Items, Enqueue(p, i) PROVE TypeOK'
  BY <1>1 DEF Enqueue, TypeOK, Status
<1>2. ASSUME NEW p \in Procs, NEW i \in Items, Cancel(p, i) PROVE TypeOK'
  BY <1>2 DEF Cancel, TypeOK, Status, Terminal
<1>3. ASSUME NEW p \in Procs, NEW free \in SUBSET Items, PollEmpty(p, free) PROVE TypeOK'
  BY <1>3 DEF PollEmpty, TypeOK, Status, Terminal
<1>4. ASSUME NEW p \in Procs, NEW i \in Items, NEW free \in SUBSET Items,
           PollClaim(p, i, free)
    PROVE  TypeOK'
  <2>1. claims' \in SUBSET Claim
    BY <1>4 DEF PollClaim, TypeOK, Claim, NextFence
  <2> QED BY <1>4, <2>1, WorkStoreAssumption DEF PollClaim, TypeOK, Status, Terminal, NextFence, NextAttempts
<1>5. ASSUME NEW p \in Procs, BindEpoch(p) PROVE TypeOK'
  BY <1>5 DEF BindEpoch, TypeOK
<1>6. ASSUME NEW c \in claims, OwnerNext(c) PROVE TypeOK'
  <2> c.item \in Items
    BY DEF TypeOK, Claim
  <2> USE WorkStoreAssumption DEF TypeOK, Yield, Status, Terminal
  <2>1. CASE Renew(c)
    BY <2>1 DEF Renew
  <2>2. ASSUME NEW o \in Terminal, Finish(c, o) PROVE TypeOK'
    BY <2>2 DEF Finish
  <2>3. ASSUME NEW d \in 1..MaxDelay, Retry(c, d) PROVE TypeOK'
    BY <2>3 DEF Retry
  <2>4. ASSUME NEW d \in 1..MaxDelay, Defer(c, d) PROVE TypeOK'
    BY <2>4 DEF Defer
  <2> QED BY <1>6, <2>1, <2>2, <2>3, <2>4 DEF OwnerNext
<1>7. CASE Tick
  BY <1>7, MinusBounds, WorkStoreAssumption DEF Tick, TypeOK
<1>8. CASE EnterMaintenance \/ LeaveMaintenance
  <2>1. enabled' \in BOOLEAN
    BY <1>8, Zenon DEF EnterMaintenance, LeaveMaintenance
  <2> QED BY <1>8, <2>1 DEF EnterMaintenance, LeaveMaintenance, TypeOK
<1>9. CASE UNCHANGED vars
  BY <1>9 DEF vars, TypeOK
<1> QED BY <1>1, <1>2, <1>3, <1>4, <1>5, <1>6, <1>7, <1>8, <1>9 DEF Next, Poll

LEMMA TypeInit == ASSUME Init PROVE TypeOK
<1>1. cancelled \in [Items -> BOOLEAN] /\ enabled \in BOOLEAN
  BY Zenon DEF Init
<1>2. lease \in [Items -> 0..LeaseTime] /\ delay \in [Items -> 0..MaxDelay]
  BY WorkStoreAssumption DEF Init
<1> QED BY <1>1, <1>2 DEF Init, TypeOK, Status

(* Every column, token and epoch keeps its shape, whatever the stale       *)
(* tokens presented.                                                       *)
THEOREM TypeCorrect == Spec => []TypeOK
BY TypeInit, TypeStep, PTL DEF Spec

----------------------------------------------------------------------------
(* Tokens and epochs only fall behind the ledger.                          *)
TokenPast   == \A c \in claims : c.fence <= fence[c.item]
TokenUnique == \A c, d \in claims : c.item = d.item /\ c.fence = d.fence => c = d
EpochPast   == \A c \in claims : c.epoch <= epoch /\ (enabled => c.epoch < epoch)
BoundPast   == \A p \in Procs : bound[p] <= epoch

TokenInv == TypeOK /\ TokenPast /\ TokenUnique /\ EpochPast /\ BoundPast

(* What every step does to the part of the state the tokens are compared   *)
(* with: a claim adds one token carrying a fence never used before, no     *)
(* other step touches fences, and epochs never go back.                    *)
TokenStep ==
    \/ UNCHANGED <<fence, claims, fences>>
    \/ \E p \in Procs, i \in Items :
          /\ MayWrite(p)
          /\ fence' = [fence EXCEPT ![i] = @ + 1]
          /\ claims' = claims \cup
                {[item |-> i, owner |-> p, fence |-> fence[i] + 1, epoch |-> bound[p]]}
          /\ UNCHANGED fences
    \/ UNCHANGED <<fence, claims, bound>> /\ ~enabled /\ enabled' /\ epoch' = epoch + 1
    \/ UNCHANGED <<fence, claims, bound, epoch>> /\ enabled /\ ~enabled'
    \/ /\ UNCHANGED <<fence, claims, epoch, enabled>> /\ ~enabled
       /\ \E p \in Procs : bound' = [bound EXCEPT ![p] = epoch]

LEMMA StepsOnTokens == ASSUME [Next]_vars PROVE TokenStep
<1> USE DEF TokenStep, counts, fences
<1>1. ASSUME NEW p \in Procs, NEW i \in Items, Enqueue(p, i) \/ Cancel(p, i) PROVE TokenStep
  BY <1>1 DEF Enqueue, Cancel
<1>2. ASSUME NEW p \in Procs, NEW free \in SUBSET Items, PollEmpty(p, free) PROVE TokenStep
  BY <1>2 DEF PollEmpty
<1>3. ASSUME NEW p \in Procs, NEW i \in Items, NEW free \in SUBSET Items,
             PollClaim(p, i, free)
      PROVE  TokenStep
  BY <1>3 DEF PollClaim, NextFence
<1>4. ASSUME NEW p \in Procs, BindEpoch(p) PROVE TokenStep
  BY <1>4 DEF BindEpoch
<1>5. ASSUME NEW c \in claims, OwnerNext(c) PROVE TokenStep
  BY <1>5 DEF OwnerNext, Renew, Finish, Retry, Defer, Yield
<1>6. CASE Tick
  BY <1>6 DEF Tick
<1>7. CASE EnterMaintenance \/ LeaveMaintenance
  BY <1>7 DEF EnterMaintenance, LeaveMaintenance
<1>8. CASE UNCHANGED vars
  BY <1>8 DEF vars
<1> QED BY <1>1, <1>2, <1>3, <1>4, <1>5, <1>6, <1>7, <1>8 DEF Next, Poll

TokenFacts == TokenPast /\ TokenUnique /\ EpochPast /\ BoundPast

LEMMA TokensPreserved == ASSUME TokenInv, TypeOK', TokenStep PROVE TokenFacts'
<1> USE DEF TokenFacts, TokenInv, TypeOK, TokenPast, TokenUnique, EpochPast, BoundPast, fences, Claim
<1>1. CASE UNCHANGED <<fence, claims, fences>>
  BY <1>1
<1>2. ASSUME NEW p \in Procs, NEW i \in Items,
             MayWrite(p),
             fence' = [fence EXCEPT ![i] = @ + 1],
             claims' = claims \cup
                {[item |-> i, owner |-> p, fence |-> fence[i] + 1, epoch |-> bound[p]]},
             UNCHANGED fences
      PROVE  TokenFacts'
  <2> DEFINE new == [item |-> i, owner |-> p, fence |-> fence[i] + 1, epoch |-> bound[p]]
  <2>1. /\ new.item = i /\ new.fence = fence[i] + 1 /\ new.epoch = bound[p]
        /\ claims' = claims \cup {new}
    BY <1>2
  <2> HIDE DEF new
  <2>2. TokenPast'
    BY <1>2, <2>1
  <2>3. \A c \in claims : c.item = i => c.fence # new.fence
    BY <2>1
  <2>4. TokenUnique'
    BY <2>1, <2>3
  <2>5. EpochPast' /\ BoundPast'
    BY <1>2, <2>1 DEF MayWrite
  <2> QED BY <2>2, <2>4, <2>5
<1>3. CASE UNCHANGED <<fence, claims, bound>> /\ ~enabled /\ enabled' /\ epoch' = epoch + 1
  BY <1>3
<1>4. CASE UNCHANGED <<fence, claims, bound, epoch>> /\ enabled /\ ~enabled'
  BY <1>4
<1>5. ASSUME NEW p \in Procs, UNCHANGED <<fence, claims, epoch, enabled>>,
             bound' = [bound EXCEPT ![p] = epoch]
      PROVE  TokenFacts'
  BY <1>5
<1> QED BY <1>1, <1>2, <1>3, <1>4, <1>5 DEF TokenStep

LEMMA TokenInvariant == Spec => []TokenInv
<1>1. Init => TokenFacts
  BY DEF Init, TokenFacts, TokenPast, TokenUnique, EpochPast, BoundPast
<1>2. TokenInv /\ TypeOK' /\ [Next]_vars => TokenFacts'
  BY StepsOnTokens, TokensPreserved
<1> QED BY <1>1, <1>2, TypeCorrect, PTL DEF Spec, TokenInv, TokenFacts

----------------------------------------------------------------------------
(* A token that does not own its item will not own it after any step: the  *)
(* row must be re-claimed, which hands out a larger fence, or maintenance  *)
(* must end, which leaves every older token with a retired epoch.          *)
LEMMA LossIsFinal == ASSUME TokenInv, [Next]_vars, NEW c \in claims, Owns(c)'
                     PROVE  Owns(c)
<1> c \in Claim /\ c.item \in Items
  BY DEF TokenInv, TypeOK, Claim
<1> /\ ~enabled' /\ epoch' = c.epoch /\ status'[c.item] = "running"
    /\ owner'[c.item] = c.owner /\ fence'[c.item] = c.fence
    /\ lease'[c.item] > 0 /\ rowEpoch'[c.item] = c.epoch /\ ~cancelled'[c.item]
  BY DEF Owns, Holds
<1> USE DEF TokenInv, TypeOK, Owns, Holds, tenure, counts, fences
<1>1. ASSUME NEW p \in Procs, NEW i \in Items, Enqueue(p, i) \/ Cancel(p, i) PROVE Owns(c)
  BY <1>1 DEF Enqueue, Cancel
<1>2. ASSUME NEW p \in Procs, NEW free \in SUBSET Items, PollEmpty(p, free) PROVE Owns(c)
  BY <1>2 DEF PollEmpty
<1>3. ASSUME NEW p \in Procs, NEW i \in Items, NEW free \in SUBSET Items,
             PollClaim(p, i, free)
      PROVE  Owns(c)
  <2>1. c.item # i
    BY <1>3 DEF PollClaim, TokenPast, NextFence
  <2> QED BY <1>3, <2>1 DEF PollClaim
<1>4. ASSUME NEW p \in Procs, BindEpoch(p) PROVE Owns(c)
  BY <1>4 DEF BindEpoch
<1>5. ASSUME NEW d \in claims, OwnerNext(d) PROVE Owns(c)
  <2> d.item \in Items
    BY DEF Claim
  <2>1. CASE Renew(d)
    <3>1. d.item = c.item => d = c
      BY <2>1 DEF Renew, TokenUnique
    <3> QED BY <2>1, <3>1 DEF Renew
  <2>2. ASSUME NEW s, s \in Terminal \cup {"queued"}, Yield(d.item, s) PROVE Owns(c)
    BY <2>2 DEF Yield, Terminal
  <2> QED BY <1>5, <2>1, <2>2 DEF OwnerNext, Finish, Retry, Defer, Terminal
<1>6. CASE Tick
  BY <1>6, MinusBounds, WorkStoreAssumption DEF Tick
<1>7. CASE EnterMaintenance \/ LeaveMaintenance
  BY <1>7 DEF EnterMaintenance, LeaveMaintenance, EpochPast, Claim
<1>8. CASE UNCHANGED vars
  BY <1>8 DEF vars
<1> QED BY <1>1, <1>2, <1>3, <1>4, <1>5, <1>6, <1>7, <1>8 DEF Next, Poll

(* Ownership that a token lost never comes back to it.                     *)
THEOREM NoResurrection == Spec => LostForever
<1>1. TokenInv /\ [Next]_vars => [\A c \in claims : Owns(c)' => Owns(c)]_vars
  BY LossIsFinal
<1> QED BY <1>1, TokenInvariant, PTL DEF Spec, LostForever

----------------------------------------------------------------------------
(* The cancellation flag and the attempt counter.                          *)
RowInv == TypeOK /\ CancelNotStranded /\ AttemptsAccounted

LEMMA RowsPreserved ==
  ASSUME RowInv, TypeOK', [Next]_vars PROVE (CancelNotStranded /\ AttemptsAccounted)'
<1> SUFFICES ASSUME NEW k \in Items
             PROVE  /\ cancelled'[k] => status'[k] \in {"running", "cancelled"}
                    /\ attempts'[k] \in 0..fence'[k]
                    /\ status'[k] = "running" => attempts'[k] >= 1
  BY DEF CancelNotStranded, AttemptsAccounted
<1> DEFINE Goal == /\ cancelled'[k] => status'[k] \in {"running", "cancelled"}
                   /\ attempts'[k] \in 0..fence'[k]
                   /\ status'[k] = "running" => attempts'[k] >= 1
<1>0. /\ cancelled[k] => status[k] \in {"running", "cancelled"}
      /\ attempts[k] \in Int /\ fence[k] \in Nat
      /\ attempts[k] >= 0 /\ attempts[k] <= fence[k]
      /\ status[k] = "running" => attempts[k] >= 1
  BY DEF RowInv, TypeOK, CancelNotStranded, AttemptsAccounted
<1> USE <1>0 DEF RowInv, TypeOK, tenure, counts, fences
<1>1. ASSUME NEW p \in Procs, NEW i \in Items, Enqueue(p, i) \/ Cancel(p, i) PROVE Goal
  BY <1>1 DEF Enqueue, Cancel
<1>2. ASSUME NEW p \in Procs, NEW free \in SUBSET Items, PollEmpty(p, free) PROVE Goal
  BY <1>2 DEF PollEmpty, Retired
<1>3. ASSUME NEW p \in Procs, NEW i \in Items, NEW free \in SUBSET Items,
           PollClaim(p, i, free)
    PROVE  Goal
  <2>1. CASE k = i
    BY <1>3, <2>1 DEF PollClaim, Claimable, Eligible, NextFence, NextAttempts
  <2>2. CASE k # i
    BY <1>3, <2>2 DEF PollClaim, Retired, NextFence, NextAttempts
  <2> QED BY <2>1, <2>2
<1>4. ASSUME NEW p \in Procs, BindEpoch(p) PROVE Goal
  BY <1>4 DEF BindEpoch
<1>5. ASSUME NEW c \in claims, OwnerNext(c) PROVE Goal
  <2> c.item \in Items
    BY DEF Claim
  <2>1. CASE Renew(c)
    BY <2>1 DEF Renew
  <2>2. ASSUME NEW o \in Terminal, Finish(c, o) PROVE Goal
    BY <2>2 DEF Finish, Yield, Owns, Holds, Terminal
  <2>3. ASSUME NEW d \in 1..MaxDelay, Retry(c, d) PROVE Goal
    BY <2>3 DEF Retry, Yield, Owns, Holds
  <2>4. ASSUME NEW d \in 1..MaxDelay, Defer(c, d) PROVE Goal
    BY <2>4 DEF Defer, Yield, Owns, Holds
  <2> QED BY <1>5, <2>1, <2>2, <2>3, <2>4 DEF OwnerNext
<1>6. CASE Tick
  BY <1>6 DEF Tick
<1>7. CASE EnterMaintenance \/ LeaveMaintenance
  BY <1>7 DEF EnterMaintenance, LeaveMaintenance
<1>8. CASE UNCHANGED vars
  BY <1>8 DEF vars
<1> QED BY <1>1, <1>2, <1>3, <1>4, <1>5, <1>6, <1>7, <1>8 DEF Next, Poll

LEMMA RowInvariant == Spec => []RowInv
<1>1. Init => CancelNotStranded /\ AttemptsAccounted
  BY DEF Init, CancelNotStranded, AttemptsAccounted
<1> QED BY <1>1, RowsPreserved, TypeCorrect, PTL DEF Spec, RowInv

(* No row is left with a cancellation that can never take effect.          *)
THEOREM CancellationNotStranded == Spec => []CancelNotStranded
BY RowInvariant, PTL DEF RowInv

(* The attempt counter is usable as a back-off index while an attempt runs.*)
THEOREM AttemptAccounting == Spec => []AttemptsAccounted
BY RowInvariant, PTL DEF RowInv

----------------------------------------------------------------------------
(* WorkStore implements WorkPromise.                                       *)
Open(i) == status[i] \in {"queued", "running"}

(* How a step moves the public phase of items.                             *)
PhaseStep ==
    \/ UNCHANGED <<Phase, Withdrawn>>
    \/ \E i \in Items : Promise!Accept(i) \/ Promise!Withdraw(i)
    \/ \E S \in SUBSET Items, o \in Promise!Outcomes : Promise!Settle(S, o)

LEMMA PhaseKept ==
  ASSUME UNCHANGED cancelled, \A i \in Items : Phase'[i] = Phase[i]
  PROVE  UNCHANGED <<Phase, Withdrawn>>
BY DEF Phase, Withdrawn

LEMMA PhaseSettled ==
  ASSUME NEW S \in SUBSET Items, NEW o \in Terminal, UNCHANGED cancelled,
         \A i \in S : Open(i) /\ (cancelled[i] => o = "cancelled") /\ status'[i] = o,
         \A i \in Items \ S : Phase'[i] = Phase[i]
  PROVE  PhaseStep
<1>1. CASE S = {}
  BY <1>1, PhaseKept DEF PhaseStep
<1>2. CASE S # {}
  <2>1. \A i \in S : Phase[i] = "open" /\ (i \in Withdrawn => o = "cancelled")
    BY DEF Phase, Withdrawn, Open
  <2>2. Phase' = [i \in Items |-> IF i \in S THEN o ELSE Phase[i]]
    BY DEF Phase, Terminal
  <2>3. UNCHANGED Withdrawn
    BY DEF Withdrawn
  <2>4. Promise!Settle(S, o) /\ o \in Promise!Outcomes
    BY <1>2, <2>1, <2>2, <2>3 DEF Promise!Settle, Promise!Outcomes, Terminal
  <2> QED BY <2>4 DEF PhaseStep
<1> QED BY <1>1, <1>2

LEMMA StepsOnPhase == ASSUME RowInv, [Next]_vars PROVE PhaseStep
<1> USE DEF RowInv, TypeOK, tenure, counts, fences, PhaseStep
<1>1. ASSUME NEW p \in Procs, NEW i \in Items, Enqueue(p, i) PROVE PhaseStep
  <2>1. Phase' = [Phase EXCEPT ![i] = "open"] /\ Phase[i] = "absent" /\ UNCHANGED Withdrawn
    BY <1>1 DEF Enqueue, Phase, Withdrawn
  <2> QED BY <2>1 DEF Promise!Accept
<1>2. ASSUME NEW p \in Procs, NEW i \in Items, Cancel(p, i) PROVE PhaseStep
  <2>1. Phase[i] = "open"
    BY <1>2 DEF Cancel, Phase
  <2>2. Withdrawn' = Withdrawn \cup {i}
    BY <1>2 DEF Cancel, Withdrawn
  <2>3. Phase' \in {Phase, [Phase EXCEPT ![i] = "cancelled"]}
    <3>1. CASE status[i] = "queued" \/ lease[i] = 0
      BY <1>2, <3>1 DEF Cancel, Phase
    <3>2. CASE ~(status[i] = "queued" \/ lease[i] = 0)
      BY <1>2, <3>2 DEF Cancel, Phase
    <3> QED BY <3>1, <3>2
  <2> QED BY <2>1, <2>2, <2>3 DEF Promise!Withdraw
<1>3. ASSUME NEW p \in Procs, NEW free \in SUBSET Items, PollEmpty(p, free) PROVE PhaseStep
  <2>1. \A i \in Retired(free) : Open(i) /\ status'[i] = "cancelled"
    BY <1>3 DEF PollEmpty, Retired, Expired, Open
  <2>2. \A i \in Items \ Retired(free) : Phase'[i] = Phase[i]
    BY <1>3 DEF PollEmpty, Phase
  <2> QED BY <1>3, PhaseSettled, <2>1, <2>2 DEF PollEmpty, Retired, Terminal
<1>4. ASSUME NEW p \in Procs, NEW i \in Items, NEW free \in SUBSET Items,
             PollClaim(p, i, free)
      PROVE  PhaseStep
  <2>1. i \notin Retired(free) /\ Open(i)
    BY <1>4 DEF PollClaim, Claimable, Eligible, Retired, Expired, Open
  <2>2. \A j \in Retired(free) : Open(j) /\ status'[j] = "cancelled"
    BY <1>4, <2>1 DEF PollClaim, Retired, Expired, Open
  <2>3. \A j \in Items \ Retired(free) : Phase'[j] = Phase[j]
    BY <1>4, <2>1 DEF PollClaim, Phase, Open
  <2> QED BY <1>4, PhaseSettled, <2>2, <2>3 DEF PollClaim, Retired, Terminal
<1>5. ASSUME NEW c \in claims, OwnerNext(c) PROVE PhaseStep
  <2> c.item \in Items
    BY DEF Claim
  <2>1. ASSUME NEW o \in Terminal, Holds(c), cancelled[c.item] => o = "cancelled",
               Yield(c.item, o)
        PROVE  PhaseStep
    <3> DEFINE S == {c.item}
    <3>1. \A i \in S : Open(i) /\ (cancelled[i] => o = "cancelled") /\ status'[i] = o
      BY <2>1 DEF Yield, Holds, Open
    <3>2. \A i \in Items \ S : Phase'[i] = Phase[i]
      BY <2>1 DEF Yield, Phase
    <3>3. S \in SUBSET Items /\ UNCHANGED cancelled
      BY <2>1 DEF Yield
    <3> HIDE DEF S
    <3> QED BY <2>1, <3>1, <3>2, <3>3, PhaseSettled
  <2>2. ASSUME Holds(c), Yield(c.item, "queued") PROVE PhaseStep
    <3>1. \A i \in Items : Phase'[i] = Phase[i]
      BY <2>2 DEF Yield, Holds, Phase
    <3> QED BY <2>2, <3>1, PhaseKept DEF Yield
  <2>3. CASE Renew(c)
    <3>1. \A i \in Items : Phase'[i] = Phase[i]
      BY <2>3 DEF Renew, Phase
    <3> QED BY <2>3, <3>1, PhaseKept DEF Renew
  <2>4. CASE \E o \in Terminal : Finish(c, o)
    BY <2>4, <2>1 DEF Finish, Owns
  <2>5. CASE \E d \in 1..MaxDelay : Retry(c, d)
    BY <2>5, <2>1, <2>2 DEF Retry, Owns, Terminal
  <2>6. CASE \E d \in 1..MaxDelay : Defer(c, d)
    BY <2>6, <2>2 DEF Defer, Owns
  <2> QED BY <1>5, <2>3, <2>4, <2>5, <2>6 DEF OwnerNext
<1>6. CASE \/ Tick \/ EnterMaintenance \/ LeaveMaintenance \/ UNCHANGED vars
           \/ \E p \in Procs : BindEpoch(p)
  <2>1. UNCHANGED <<status, cancelled>>
    BY <1>6 DEF Tick, EnterMaintenance, LeaveMaintenance, BindEpoch, vars
  <2> QED BY <2>1 DEF Phase, Withdrawn
<1> QED BY <1>1, <1>2, <1>3, <1>4, <1>5, <1>6 DEF Next, Poll

(* Every behaviour of the ledger is one WorkPromise allows: an item is     *)
(* settled once, and an accepted cancellation decides the outcome.         *)
THEOREM ImplementsPromise == Spec => KeepsPromise
<1>1. Init => Promise!PromiseInit
  BY DEF Init, Promise!PromiseInit, Phase, Withdrawn
<1>2. RowInv /\ [Next]_vars => [Promise!PromiseNext]_<<Phase, Withdrawn>>
  BY StepsOnPhase DEF PhaseStep, Promise!PromiseNext
<1> QED BY <1>1, <1>2, RowInvariant, PTL DEF Spec, KeepsPromise, Promise!PromiseSpec

----------------------------------------------------------------------------
(* Executions: what the transaction guard of work/context.py achieves.     *)
(*                                                                         *)
(* A transaction that completed its own item commits without a live lease, *)
(* so an execution is not a behaviour of the ledger's Spec: its steps are  *)
(* those of the ledger and the late outcomes below.                        *)

(* The row is the one the claim was made of, and nobody withdrew it.       *)
Undisturbed(c) ==
    /\ status[c.item] = "running" /\ owner[c.item] = c.owner /\ fence[c.item] = c.fence
    /\ ~cancelled[c.item] /\ ~enabled /\ epoch = c.epoch

LateOutcome == \E c \in claims, o \in DOMAIN Sealed :
                   Undisturbed(c) /\ Yield(c.item, o) /\ UNCHANGED <<attempts, delay>>

LedgerInv == TokenInv /\ RowInv

LEMMA LedgerPreserved == ASSUME LedgerInv, [Next]_vars \/ LateOutcome PROVE LedgerInv'
<1> USE DEF LedgerInv
<1>1. CASE [Next]_vars
  <2>1. TypeOK'
    BY <1>1, TypeStep DEF RowInv
  <2>2. TokenFacts'
    BY <1>1, <2>1, StepsOnTokens, TokensPreserved
  <2>3. (CancelNotStranded /\ AttemptsAccounted)'
    BY <1>1, <2>1, RowsPreserved
  <2> QED BY <2>1, <2>2, <2>3 DEF TokenInv, TokenFacts, RowInv
<1>2. CASE LateOutcome
  <2>1. PICK c \in claims, o \in {"succeeded", "failed"} :
              Undisturbed(c) /\ Yield(c.item, o) /\ UNCHANGED <<attempts, delay>>
    BY <1>2 DEF LateOutcome, Sealed
  <2>2. c.item \in Items
    BY DEF RowInv, TypeOK, Claim
  <2>3. TypeOK'
    BY <2>1, <2>2, WorkStoreAssumption DEF Yield, RowInv, TypeOK, fences, Status, Terminal
  <2>4. TokenFacts'
    <3>1. TokenStep
      BY <2>1 DEF Yield, TokenStep, fences
    <3> QED BY <2>3, <3>1, TokensPreserved
  <2>5. (CancelNotStranded /\ AttemptsAccounted)'
    BY <2>1, <2>2 DEF Yield, Undisturbed, RowInv, TypeOK, CancelNotStranded, AttemptsAccounted
  <2> QED BY <2>3, <2>4, <2>5 DEF TokenInv, TokenFacts, RowInv
<1> QED BY <1>1, <1>2

----------------------------------------------------------------------------
LocalTypes ==
    /\ slot \in [Procs -> {"idle", "claimed", "watching"}]
    /\ token \in [Procs -> Claim \cup {NoClaim}]
    /\ future \in [Procs -> {"none", "busy"} \cup Results]
    /\ hclaim \in [Procs -> Claim \cup {NoClaim}]
    /\ txn \in [Procs -> {"none", "open", "succeeded", "failed",
                           "commit", "commit_succeeded", "commit_failed"}]

EffectsType == effects \in [Items -> Seq(Nat)]

Issued(tokens, p) == {c \in tokens : c.owner = p}

(* A coordinator that claimed or watches has its own token, a handler that *)
(* runs was given one, and only a running handler has a transaction.       *)
Threads == \A p \in Procs :
    /\ slot[p] # "idle" => token[p] \in Issued(claims, p)
    /\ slot[p] = "claimed" => future[p] # "busy"
    /\ future[p] = "busy" => hclaim[p] \in Issued(claims, p)
    /\ txn[p] # "none" => future[p] = "busy"

(* The guard holds for as long as the transaction is open.                 *)
Guarded == \A p \in Procs : txn[p] # "none" => Undisturbed(hclaim[p])

(* What an item's handlers have committed is ordered, and none of it comes *)
(* from a claim that is still to be made.                                  *)
EffectsPast == EffectsType /\ \A i \in Items : \A k \in 1..Len(effects[i]) : effects[i][k] <= fence[i]

ThreadInv == LocalTypes /\ Threads
ExecInv == LedgerInv /\ ThreadInv /\ Guarded /\ EffectsPast /\ EffectsInOrder

LEMMA ClaimFacts == ASSUME LedgerInv, NEW c \in claims
                    PROVE  c.item \in Items
BY DEF LedgerInv, RowInv, TypeOK, Claim

LEMMA ClaimsGrow == ASSUME LedgerInv, [Next]_vars \/ LateOutcome PROVE claims \subseteq claims'
<1>1. CASE [Next]_vars
  BY <1>1, StepsOnTokens DEF TokenStep
<1>2. CASE LateOutcome
  BY <1>2 DEF LateOutcome, Yield
<1> QED BY <1>1, <1>2

(* A commit leaves the ledger alone or settles the handler's own item.     *)
LEMMA CommitCases ==
  ASSUME NEW p \in Procs, Commits(p)
  PROVE  /\ txn[p] # "none"
         /\ \/ UNCHANGED vars
            \/ \E o \in {"succeeded", "failed"} :
                   Yield(hclaim[p].item, o) /\ UNCHANGED <<attempts, delay>>
<1>1. CASE txn[p] = "commit" /\ UNCHANGED vars
  BY <1>1
<1>2. ASSUME NEW o \in DOMAIN Sealed, txn[p] = Sealed[o],
             Yield(hclaim[p].item, o), UNCHANGED <<attempts, delay>>
      PROVE  txn[p] # "none" /\ o \in {"succeeded", "failed"}
  BY <1>2 DEF Sealed
<1> QED BY <1>1, <1>2 DEF Commits

----------------------------------------------------------------------------
(* Each step of an execution is one of the ledger, or a late outcome.      *)
LEMMA StepsOfLedger == ASSUME LedgerInv, ThreadInv, Guarded, [ExecNext]_xvars
                       PROVE  [Next]_vars \/ LateOutcome
<1> DEFINE Goal == [Next]_vars \/ LateOutcome
<1>0. Free \in SUBSET Items
  BY DEF Free
<1>1. ASSUME NEW p \in Procs, Claims(p) \/ FindsNothing(p) PROVE Goal
  BY <1>0, <1>1 DEF Claims, FindsNothing, Next, Poll
<1>2. ASSUME NEW p \in Procs, Heartbeats(p) PROVE Goal
  <2>1. token[p] \in claims
    BY <1>2 DEF Heartbeats, ThreadInv, Threads, Issued
  <2> QED BY <1>2, <2>1 DEF Heartbeats, Next, OwnerNext
<1>3. ASSUME NEW p \in Procs, Acknowledges(p) PROVE Goal
  <2>1. token[p] \in claims
    BY <1>3 DEF Acknowledges, ThreadInv, Threads, Issued
  <2> QED BY <1>3, <2>1 DEF Acknowledges, Next, OwnerNext, Terminal
<1>4. ASSUME NEW p \in Procs, Commits(p) PROVE Goal
  <2>1. hclaim[p] \in claims /\ Undisturbed(hclaim[p])
    BY <1>4, CommitCases DEF ThreadInv, Threads, Guarded, Issued, Commits, Running
  <2> QED BY <1>4, <2>1, CommitCases DEF LateOutcome, Sealed
<1>5. ASSUME NEW p \in Procs, Starts(p) PROVE Goal
  BY <1>5 DEF Starts, Next
<1>6. ASSUME NEW p \in Procs, NEW i \in Items, Requests(p, i) PROVE Goal
  BY <1>6 DEF Requests, Next
<1>7. CASE Operates \/ TimePasses
  BY <1>7 DEF Operates, TimePasses, Next
<1>8. ASSUME NEW p \in Procs, \/ Submits(p) \/ Abandons(p) \/ Begins(p) \/ Completes(p) \/ Checks(p)
                              \/ RollsBack(p) \/ Returns(p) \/ Stops(p) \/ Dies(p)
      PROVE  Goal
  BY <1>8 DEF Submits, Abandons, Begins, Completes, Checks, RollsBack, Returns, Stops, Dies
<1>9. CASE UNCHANGED xvars
  BY <1>9 DEF xvars
<1> QED BY <1>1, <1>2, <1>3, <1>4, <1>5, <1>6, <1>7, <1>8, <1>9 DEF ExecNext, Coordinator, Handler

----------------------------------------------------------------------------
(* A coordinator keeps its own token, a handler the claim it was given.    *)
LEMMA ThreadsPreserved == ASSUME LedgerInv, LedgerInv', ThreadInv, [ExecNext]_xvars,
                                 claims \subseteq claims'
                          PROVE  ThreadInv'
<1> USE DEF ThreadInv, LocalTypes, Threads, local
<1>0. \A p \in Procs : Issued(claims, p) \subseteq Issued(claims', p)
  BY DEF Issued
<1>1. ASSUME NEW p \in Procs, Claims(p) PROVE ThreadInv'
  <2>1. PICK i \in Items : PollClaim(p, i, Free) /\
              token' = [token EXCEPT ![p] =
                [item |-> i, owner |-> p, fence |-> NextFence(i), epoch |-> bound[p]]]
    BY <1>0, <1>1 DEF Claims
  <2>2. PICK c : c = [item |-> i, owner |-> p, fence |-> NextFence(i), epoch |-> bound[p]]
    OBVIOUS
  <2>3. c \in claims' /\ c \in Issued(claims', p) /\ token' = [token EXCEPT ![p] = c]
    BY <2>1, <2>2 DEF PollClaim, Issued
  <2>4. c \in Claim
    BY <2>3 DEF LedgerInv, RowInv, TypeOK
  <2> QED BY <1>0, <1>1, <2>3, <2>4 DEF Claims, SlotFree
<1>2. ASSUME NEW p \in Procs, FindsNothing(p) \/ Starts(p) PROVE ThreadInv'
  BY <1>0, <1>2 DEF FindsNothing, Starts
<1>3. ASSUME NEW p \in Procs, Submits(p) PROVE ThreadInv'
  BY <1>0, <1>3 DEF Submits, GivesUp
<1>4. ASSUME NEW p \in Procs, Heartbeats(p) \/ Abandons(p) PROVE ThreadInv'
  BY <1>0, <1>4 DEF Heartbeats, Abandons, GivesUp
<1>5. ASSUME NEW p \in Procs, Acknowledges(p) PROVE ThreadInv'
  BY <1>0, <1>5 DEF Acknowledges, GivesUp
<1>6. ASSUME NEW p \in Procs, Begins(p) \/ Completes(p) \/ Checks(p) \/ RollsBack(p) PROVE ThreadInv'
  BY <1>0, <1>6 DEF Begins, Completes, Checks, RollsBack, Running, Sealed
<1>7. ASSUME NEW p \in Procs, Commits(p) PROVE ThreadInv'
  BY <1>0, <1>7 DEF Commits
<1>8. ASSUME NEW p \in Procs, Returns(p) PROVE ThreadInv'
  BY <1>0, <1>8 DEF Returns, Running, Results
<1>9. ASSUME NEW p \in Procs, Stops(p) \/ Dies(p) PROVE ThreadInv'
  BY <1>0, <1>9 DEF Stops, Dies
<1>10. ASSUME NEW p \in Procs, NEW i \in Items, Requests(p, i) PROVE ThreadInv'
  BY <1>0, <1>10 DEF Requests
<1>11. CASE Operates \/ TimePasses \/ UNCHANGED xvars
  BY <1>0, <1>11 DEF Operates, TimePasses, xvars
<1> QED BY <1>1, <1>2, <1>3, <1>4, <1>5, <1>6, <1>7, <1>8, <1>9, <1>10, <1>11
        DEF ExecNext, Coordinator, Handler

----------------------------------------------------------------------------
(* While a transaction is open nobody else changes its row.                *)
RowKept(i) == /\ status'[i] = status[i] /\ owner'[i] = owner[i]
              /\ fence'[i] = fence[i] /\ cancelled'[i] = cancelled[i]

LEMMA GuardHolds == ASSUME LedgerInv, ThreadInv, Guarded, [ExecNext]_xvars PROVE Guarded'
<1> USE DEF ThreadInv, LocalTypes, Threads, local, tenure, counts, fences
<1>0. ASSUME NEW q \in Procs, txn[q] # "none"
      PROVE  /\ hclaim[q] \in claims /\ hclaim[q].item \in Items /\ hclaim[q].owner = q
             /\ Undisturbed(hclaim[q]) /\ hclaim[q].item \notin Free
  BY <1>0, ClaimFacts DEF Guarded, Free, Issued
<1>a. ASSUME \A q \in Procs : txn'[q] # "none" =>
                /\ txn[q] # "none" /\ hclaim'[q] = hclaim[q] /\ RowKept(hclaim[q].item)
                /\ UNCHANGED <<enabled, epoch>>
      PROVE  Guarded'
  BY <1>a, <1>0 DEF Guarded, Undisturbed, RowKept
<1>1. ASSUME NEW p \in Procs, NEW i \in Items, PollClaim(p, i, Free), UNCHANGED <<hclaim, txn>>
      PROVE  Guarded'
  <2>1. \A j \in Items \ Free : RowKept(j)
    BY <1>1 DEF PollClaim, Claimable, Retired, RowKept, LedgerInv, RowInv, TypeOK
  <2> QED BY <1>1, <2>1, <1>0, <1>a DEF PollClaim
<1>2. ASSUME NEW p \in Procs, PollEmpty(p, Free), UNCHANGED <<hclaim, txn>> PROVE Guarded'
  <2>1. \A j \in Items \ Free : RowKept(j)
    BY <1>2 DEF PollEmpty, Retired, RowKept
  <2> QED BY <1>2, <2>1, <1>0, <1>a DEF PollEmpty
<1>3. ASSUME NEW p \in Procs, Submits(p) PROVE Guarded'
  <2>1. txn[p] = "none" /\ UNCHANGED <<vars, txn>>
    BY <1>3 DEF Submits
  <2>2. \A q \in Procs \ {p} : hclaim'[q] = hclaim[q]
    BY <1>3 DEF Submits
  <2> QED BY <2>1, <2>2, <1>a DEF vars, RowKept
<1>4. ASSUME NEW p \in Procs, Heartbeats(p) PROVE Guarded'
  BY <1>4, <1>a DEF Heartbeats, Renew, vars, RowKept
<1>5. ASSUME NEW p \in Procs, Acknowledges(p) PROVE Guarded'
  <2>1. token[p].item \in Free /\ UNCHANGED <<hclaim, txn>>
    BY <1>5 DEF Acknowledges
  <2>2. \/ UNCHANGED vars
        \/ \E s : Yield(token[p].item, s)
    BY <1>5 DEF Acknowledges, Finish, Retry, Defer
  <2>3. CASE UNCHANGED vars
    BY <2>1, <2>3, <1>a DEF vars, RowKept
  <2>4. ASSUME NEW s, Yield(token[p].item, s) PROVE Guarded'
    <3>1. \A j \in Items \ Free : RowKept(j)
      BY <2>1, <2>4 DEF Yield, RowKept, LedgerInv, RowInv, TypeOK
    <3> QED BY <2>1, <2>4, <3>1, <1>0, <1>a DEF Yield
  <2> QED BY <2>2, <2>3, <2>4
<1>6. ASSUME NEW p \in Procs, Begins(p) PROVE Guarded'
  <2>1. Undisturbed(hclaim[p])
    <3>1. hclaim[p] \in claims /\ hclaim[p].owner = p
      BY <1>6 DEF Begins, Running, Issued
    <3> QED BY <1>6, <3>1 DEF Begins, Owns, Holds, Undisturbed
  <2>2. UNCHANGED <<vars, hclaim>> /\ \A q \in Procs \ {p} : txn'[q] = txn[q]
    BY <1>6 DEF Begins
  <2> QED BY <2>1, <2>2 DEF Guarded, Undisturbed, vars
<1>7. ASSUME NEW p \in Procs, Completes(p) \/ Checks(p) \/ RollsBack(p) PROVE Guarded'
  <2>1. UNCHANGED <<vars, hclaim>> /\ txn[p] # "none" /\ \A q \in Procs \ {p} : txn'[q] = txn[q]
    BY <1>7 DEF Completes, Checks, RollsBack, Sealed
  <2> QED BY <2>1, <1>a DEF vars, RowKept
<1>8. ASSUME NEW p \in Procs, Commits(p) PROVE Guarded'
  <2>1. /\ txn[p] # "none" /\ txn'[p] = "none" /\ UNCHANGED <<hclaim, enabled, epoch>>
        /\ \A q \in Procs \ {p} : txn'[q] = txn[q]
    BY <1>8, CommitCases DEF Commits, vars, Yield
  <2>2. \A j \in Items \ {hclaim[p].item} : RowKept(j)
    BY <1>8, CommitCases DEF vars, Yield, RowKept, LedgerInv, RowInv, TypeOK
  <2>3. \A q \in Procs \ {p} : txn[q] # "none" => hclaim[q].item # hclaim[p].item
    BY <2>1, <1>0 DEF Undisturbed
  <2> QED BY <2>1, <2>2, <2>3, <1>0, <1>a
<1>9. ASSUME NEW p \in Procs, Returns(p) \/ Dies(p) PROVE Guarded'
  <2>1. UNCHANGED vars /\ txn'[p] = "none"
    BY <1>9 DEF Returns, Dies
  <2>2. \A q \in Procs \ {p} : hclaim'[q] = hclaim[q] /\ txn'[q] = txn[q]
    BY <1>9 DEF Returns, Dies
  <2> QED BY <2>1, <2>2, <1>a DEF vars, RowKept
<1>10. ASSUME NEW p \in Procs, Stops(p) \/ Abandons(p) PROVE Guarded'
  BY <1>10, <1>a DEF Stops, Abandons, vars, RowKept
<1>11. ASSUME NEW p \in Procs, Starts(p) PROVE Guarded'
  BY <1>11, <1>a DEF Starts, BindEpoch, RowKept
<1>12. ASSUME NEW p \in Procs, NEW i \in Items, Requests(p, i) PROVE Guarded'
  <2>1. UNCHANGED <<hclaim, txn, enabled, epoch>>
    BY <1>12 DEF Requests, Enqueue, Cancel
  <2>2. CASE Enqueue(p, i)
    <3>1. \A j \in Items : status[j] = "running" => RowKept(j)
      BY <2>2 DEF Enqueue, RowKept, LedgerInv, RowInv, TypeOK
    <3> QED BY <2>1, <3>1, <1>0, <1>a DEF Undisturbed
  <2>3. CASE i \in Free /\ Cancel(p, i)
    <3>1. \A j \in Items \ Free : RowKept(j)
      BY <2>3 DEF Cancel, RowKept, LedgerInv, RowInv, TypeOK
    <3> QED BY <2>1, <3>1, <1>0, <1>a
  <2> QED BY <1>12, <2>2, <2>3 DEF Requests
<1>13. CASE Operates
  <2>1. \A q \in Procs : txn[q] = "none"
    BY <1>13, <1>0 DEF Operates, LeaveMaintenance, Undisturbed
  <2> QED BY <1>13, <2>1 DEF Operates, Guarded
<1>14. CASE TimePasses \/ UNCHANGED xvars
  BY <1>14, <1>a DEF TimePasses, Tick, xvars, vars, RowKept
<1> QED BY <1>1, <1>2, <1>3, <1>4, <1>5, <1>6, <1>7, <1>8, <1>9, <1>10, <1>11, <1>12, <1>13, <1>14
        DEF ExecNext, Coordinator, Handler, Claims, FindsNothing

----------------------------------------------------------------------------
(* Handlers commit in the order of their attempts.                         *)
LEMMA EffectsStep == ASSUME [ExecNext]_xvars PROVE UNCHANGED effects \/ \E p \in Procs : Commits(p)
BY DEF ExecNext, Coordinator, Handler, Claims, FindsNothing, Submits, Heartbeats, Abandons,
       Acknowledges, Begins, Completes, Checks, RollsBack, Returns, Stops, Dies, Starts,
       Requests, Operates, TimePasses, xvars

LEMMA FencesGrow == ASSUME LedgerInv, [Next]_vars \/ LateOutcome
                    PROVE  \A i \in Items : fence[i] \in Nat /\ fence'[i] \in Nat /\ fence[i] <= fence'[i]
<1>1. CASE [Next]_vars
  <2>1. TokenStep
    BY <1>1, StepsOnTokens
  <2> QED BY <2>1 DEF TokenStep, LedgerInv, RowInv, TypeOK
<1>2. CASE LateOutcome
  BY <1>2 DEF LateOutcome, Yield, LedgerInv, RowInv, TypeOK
<1> QED BY <1>1, <1>2

LEMMA EffectsPreserved ==
  ASSUME LedgerInv, ThreadInv, Guarded, EffectsPast, EffectsInOrder, [ExecNext]_xvars
  PROVE  EffectsPast' /\ EffectsInOrder'
<1>1. \A i \in Items : fence[i] \in Nat /\ fence'[i] \in Nat /\ fence[i] <= fence'[i]
  BY StepsOfLedger, FencesGrow
<1>2. CASE UNCHANGED effects
  <2>1. ASSUME NEW i \in Items, NEW k \in 1..Len(effects[i]) PROVE effects[i][k] <= fence'[i]
    <3>1. effects[i][k] \in Nat /\ effects[i][k] <= fence[i]
      BY <2>1 DEF EffectsPast, EffectsType
    <3> QED BY <3>1, <1>1
  <2> QED BY <1>2, <2>1 DEF EffectsPast, EffectsType, EffectsInOrder
<1>3. ASSUME NEW p \in Procs, Commits(p) PROVE EffectsPast' /\ EffectsInOrder'
  <2>1. PICK i \in Items : i = hclaim[p].item /\ hclaim[p].fence = fence[i]
    BY <1>3, ClaimFacts, CommitCases DEF Commits, Running, ThreadInv, Threads, Issued, Guarded, Undisturbed
  <2>2. effects' = [effects EXCEPT ![i] = Append(@, fence[i])]
    BY <1>3, <2>1 DEF Commits
  <2>3. UNCHANGED fence
    BY <1>3, CommitCases DEF Yield, vars, counts
  <2>4. ASSUME NEW j \in Items, j # i PROVE effects'[j] = effects[j]
    BY <2>2, <2>4 DEF EffectsPast, EffectsType
  <2>5. PICK old \in Seq(Nat) : old = effects[i]
    BY DEF EffectsPast, EffectsType
  <2>6. effects'[i] = Append(old, fence[i]) /\ fence[i] \in Nat
    BY <1>1, <2>2, <2>5 DEF EffectsPast, EffectsType
  <2>7. /\ Len(effects'[i]) = Len(old) + 1
        /\ \A k \in 1..Len(old) : effects'[i][k] = old[k]
        /\ effects'[i][Len(old) + 1] = fence[i]
    BY <2>5, <2>6
  <2>8. /\ \A k \in 1..Len(old) : old[k] \in Nat /\ old[k] <= fence[i]
        /\ \A k \in 1..Len(old) - 1 : old[k] <= old[k + 1]
    BY <2>5 DEF EffectsPast, EffectsInOrder
  <2>9. effects' \in [Items -> Seq(Nat)]
    BY <1>1, <2>2, <2>5 DEF EffectsPast, EffectsType
  <2>10. \A k \in 1..Len(effects'[i]) : effects'[i][k] <= fence[i]
    BY <2>5, <2>6, <2>7, <2>8
  <2>11. \A k \in 1..Len(effects'[i]) - 1 : effects'[i][k] <= effects'[i][k + 1]
    <3> TAKE k \in 1..Len(effects'[i]) - 1
    <3>1. k \in 1..Len(old) /\ Len(old) \in Nat
      BY <2>5, <2>7
    <3>2. CASE k = Len(old)
      BY <2>7, <2>8, <3>1, <3>2
    <3>3. CASE k # Len(old)
      <4>1. k \in 1..Len(old) - 1 /\ k + 1 \in 1..Len(old)
        BY <3>1, <3>3
      <4> QED BY <2>7, <2>8, <3>1, <4>1
    <3> QED BY <3>2, <3>3
  <2>12. EffectsPast'
    BY <2>3, <2>4, <2>9, <2>10 DEF EffectsPast, EffectsType
  <2>13. EffectsInOrder'
    BY <2>4, <2>11 DEF EffectsInOrder
  <2> QED BY <2>12, <2>13
<1> QED BY <1>2, <1>3, EffectsStep

----------------------------------------------------------------------------
LEMMA ExecInvariant == ExecSpec => []ExecInv
<1>1. ExecInit => ExecInv
  <2> SUFFICES ASSUME ExecInit PROVE ExecInv
    OBVIOUS
  <2>1. Init /\ LedgerInv
    <3>1. Init => TokenFacts
      BY DEF Init, TokenFacts, TokenPast, TokenUnique, EpochPast, BoundPast
    <3>2. Init => CancelNotStranded /\ AttemptsAccounted
      BY DEF Init, CancelNotStranded, AttemptsAccounted
    <3>3. Init
      BY DEF ExecInit
    <3> QED BY <3>1, <3>2, <3>3, TypeInit DEF LedgerInv, TokenInv, TokenFacts, RowInv
  <2>2. ThreadInv /\ Guarded
    BY DEF ExecInit, ThreadInv, LocalTypes, Threads, Guarded
  <2>3. \A i \in Items : effects[i] = << >>
    BY DEF ExecInit
  <2>4. EffectsPast /\ EffectsInOrder
    BY <2>3 DEF ExecInit, EffectsPast, EffectsType, EffectsInOrder
  <2> QED BY <2>1, <2>2, <2>4 DEF ExecInv
<1>2. ExecInv /\ [ExecNext]_xvars => ExecInv'
  <2> SUFFICES ASSUME ExecInv, [ExecNext]_xvars PROVE ExecInv'
    OBVIOUS
  <2> USE DEF ExecInv
  <2>1. [Next]_vars \/ LateOutcome
    BY StepsOfLedger
  <2>2. LedgerInv' /\ claims \subseteq claims'
    BY <2>1, LedgerPreserved, ClaimsGrow
  <2>3. ThreadInv'
    BY <2>2, ThreadsPreserved
  <2>4. Guarded' /\ EffectsPast' /\ EffectsInOrder'
    BY GuardHolds, EffectsPreserved
  <2> QED BY <2>2, <2>3, <2>4
<1> QED BY <1>1, <1>2, PTL DEF ExecSpec

(* From its guard at entry to its end, a handler's transaction has the row *)
(* to itself, whether or not the lease runs out meanwhile.                 *)
THEOREM TransactionsHoldRows == ExecSpec => []OpenTransactionHoldsRow
<1>1. ExecInv => OpenTransactionHoldsRow
  BY DEF ExecInv, ThreadInv, Threads, Issued, Guarded, Undisturbed, OpenTransactionHoldsRow
<1> QED BY <1>1, ExecInvariant, PTL

(* No transaction of an earlier attempt commits after one of a later.      *)
THEOREM AttemptsInOrder == ExecSpec => []EffectsInOrder
<1>1. ExecInv => EffectsInOrder
  BY DEF ExecInv
<1> QED BY <1>1, ExecInvariant, PTL

(* Settled and withdrawn items receive no further effects.                 *)
THEOREM QuietOnceSettled == ExecSpec => SettledIsQuiet
<1>1. ExecInv /\ [ExecNext]_xvars =>
        [\A i \in Items : status[i] \in Terminal \/ cancelled[i] => effects'[i] = effects[i]]_xvars
  <2> SUFFICES ASSUME ExecInv, [ExecNext]_xvars, NEW i \in Items, status[i] \in Terminal \/ cancelled[i]
               PROVE  effects'[i] = effects[i]
    OBVIOUS
  <2>1. ASSUME NEW p \in Procs, Commits(p) PROVE effects'[i] = effects[i]
    <3>1. hclaim[p].item # i
      BY <2>1, CommitCases DEF ExecInv, Guarded, Undisturbed, Terminal
    <3>2. \A n : effects' = [effects EXCEPT ![hclaim[p].item] = n] => effects'[i] = effects[i]
      BY <3>1 DEF ExecInv, EffectsPast, EffectsType
    <3> QED BY <2>1, <3>2 DEF Commits
  <2> QED BY <2>1, EffectsStep
<1> QED BY <1>1, ExecInvariant, PTL DEF ExecSpec, SettledIsQuiet

(* The ledger's promise survives its transactions being opened up, the     *)
(* late outcomes included.                                                 *)
THEOREM ExecutionKeepsPromise == ExecSpec => KeepsPromiseOpen
<1>1. ExecInit => Promise!PromiseInit
  BY DEF ExecInit, Init, Promise!PromiseInit, Phase, Withdrawn
<1>2. ExecInv /\ [ExecNext]_xvars => [Promise!PromiseNext]_<<Phase, Withdrawn>>
  <2> SUFFICES ASSUME ExecInv, [ExecNext]_xvars PROVE PhaseStep
    BY DEF PhaseStep, Promise!PromiseNext
  <2>1. CASE [Next]_vars
    BY <2>1, StepsOnPhase DEF ExecInv, LedgerInv
  <2>2. CASE LateOutcome
    <3>1. PICK c \in claims, o \in {"succeeded", "failed"} : Undisturbed(c) /\ Yield(c.item, o)
      BY <2>2 DEF LateOutcome, Sealed
    <3>2. c.item \in Items
      BY ClaimFacts DEF ExecInv
    <3>3. PICK S \in SUBSET Items : S = {c.item}
      BY <3>2
    <3>4. \A i \in S : Open(i) /\ (cancelled[i] => o = "cancelled") /\ status'[i] = o
      BY <3>1, <3>2, <3>3 DEF Yield, Undisturbed, Open, ExecInv, LedgerInv, RowInv, TypeOK
    <3>5. \A i \in Items \ S : Phase'[i] = Phase[i]
      BY <3>1, <3>2, <3>3 DEF Yield, Phase, ExecInv, LedgerInv, RowInv, TypeOK
    <3>6. UNCHANGED cancelled /\ o \in Terminal
      BY <3>1 DEF Yield, Terminal
    <3> QED BY <3>4, <3>5, <3>6, PhaseSettled
  <2> QED BY <2>1, <2>2, StepsOfLedger DEF ExecInv
<1> QED BY <1>1, <1>2, ExecInvariant, PTL DEF ExecSpec, KeepsPromiseOpen, Promise!PromiseSpec

----------------------------------------------------------------------------
(* Handler transactions are atomic steps of AtomicWork.                    *)

(* How a step moves one row.                                               *)
RowMove(k) == \/ Atomic!Stays(k) \/ Atomic!Enters(k) \/ Atomic!Taken(k) \/ Atomic!Given(k)
              \/ Atomic!Recalled(k) \/ Atomic!Cleared(k)

LEMMA RetiredCleared ==
  ASSUME RowInv, NEW free \in SUBSET Items, NEW k \in Retired(free),
         status'[k] = "cancelled", fence'[k] = fence[k], cancelled'[k] = cancelled[k]
  PROVE  RowMove(k)
BY DEF RowMove, Atomic!Cleared, Atomic!Becomes, Retired, Expired, RowInv, TypeOK

(* Giving up an item moves its row only, from the hands that had it.       *)
LEMMA YieldMoves ==
  ASSUME RowInv, NEW i \in Items, NEW s \in {"queued"} \cup Terminal, Yield(i, s),
         status[i] = "running", cancelled[i] => s = "cancelled", NEW k \in Items
  PROVE  RowMove(k)
<1> USE DEF Yield, RowInv, TypeOK, RowMove, Atomic!Becomes
<1>1. CASE k # i
  BY <1>1 DEF Atomic!Stays
<1>2. CASE k = i /\ cancelled[i]
  BY <1>2 DEF Atomic!Cleared
<1>3. CASE k = i /\ ~cancelled[i]
  BY <1>3 DEF Atomic!Given, Atomic!Held, Terminal
<1> QED BY <1>1, <1>2, <1>3

(* Steps of the ledger and late outcomes move every row as LedgerRows      *)
(* lets it.                                                                *)
LEMMA StepsOnRows == ASSUME LedgerInv, [Next]_vars \/ LateOutcome, NEW k \in Items PROVE RowMove(k)
<1> RowInv
  BY DEF LedgerInv
<1> USE DEF tenure, counts, fences, Atomic!Becomes
<1>1. ASSUME NEW p \in Procs, NEW i \in Items, Enqueue(p, i) PROVE RowMove(k)
  BY <1>1 DEF Enqueue, RowMove, Atomic!Enters, Atomic!Stays, RowInv, TypeOK
<1>2. ASSUME NEW p \in Procs, NEW i \in Items, Cancel(p, i) PROVE RowMove(k)
  BY <1>2 DEF Cancel, RowMove, Atomic!Recalled, Atomic!Stays, RowInv, TypeOK
<1>3. ASSUME NEW p \in Procs, NEW free \in SUBSET Items, PollEmpty(p, free) PROVE RowMove(k)
  <2>1. CASE k \in Retired(free)
    BY <1>3, <2>1, RetiredCleared DEF PollEmpty
  <2>2. CASE k \notin Retired(free)
    BY <1>3, <2>2 DEF PollEmpty, RowMove, Atomic!Stays, RowInv, TypeOK
  <2> QED BY <2>1, <2>2
<1>4. ASSUME NEW p \in Procs, NEW i \in Items, NEW free \in SUBSET Items, PollClaim(p, i, free)
      PROVE  RowMove(k)
  <2>1. i \notin Retired(free) /\ status[i] \in {"queued", "running"} /\ ~cancelled[i]
    BY <1>4 DEF PollClaim, Claimable, Eligible, Retired, Expired
  <2>2. CASE k = i
    BY <1>4, <2>1, <2>2 DEF PollClaim, NextFence, RowMove, Atomic!Taken, RowInv, TypeOK
  <2>3. CASE k # i /\ k \in Retired(free)
    BY <1>4, <2>3, RetiredCleared DEF PollClaim, RowInv, TypeOK
  <2>4. CASE k # i /\ k \notin Retired(free)
    BY <1>4, <2>4 DEF PollClaim, RowMove, Atomic!Stays, RowInv, TypeOK
  <2> QED BY <2>2, <2>3, <2>4
<1>5. ASSUME NEW c \in claims, OwnerNext(c) PROVE RowMove(k)
  <2> c.item \in Items
    BY ClaimFacts
  <2>1. CASE Renew(c)
    BY <2>1 DEF Renew, RowMove, Atomic!Stays
  <2>2. CASE \E o \in Terminal : Finish(c, o)
    BY <2>2, YieldMoves DEF Finish, Owns, Holds
  <2>3. CASE \E d \in 1..MaxDelay : Retry(c, d) \/ Defer(c, d)
    BY <2>3, YieldMoves DEF Retry, Defer, Owns, Holds, Terminal
  <2> QED BY <1>5, <2>1, <2>2, <2>3 DEF OwnerNext
<1>6. CASE \/ Tick \/ EnterMaintenance \/ LeaveMaintenance \/ UNCHANGED vars
           \/ \E p \in Procs : BindEpoch(p)
  BY <1>6 DEF Tick, EnterMaintenance, LeaveMaintenance, BindEpoch, vars, RowMove, Atomic!Stays
<1>7. CASE LateOutcome
  <2>1. PICK c \in claims, o \in {"succeeded", "failed"} : Undisturbed(c) /\ Yield(c.item, o)
    BY <1>7 DEF LateOutcome, Sealed
  <2> QED BY <2>1, ClaimFacts, YieldMoves DEF Undisturbed, Terminal
<1> QED BY <1>1, <1>2, <1>3, <1>4, <1>5, <1>6, <1>7 DEF Next, Poll

(* Only a claim takes a fence, for one item.                               *)
LEMMA OneFenceAtATime ==
  ASSUME LedgerInv, [Next]_vars \/ LateOutcome, NEW i \in Items, NEW j \in Items,
         fence'[i] # fence[i], fence'[j] # fence[j]
  PROVE  i = j
<1>1. CASE [Next]_vars
  BY <1>1, StepsOnTokens DEF TokenStep, LedgerInv, RowInv, TypeOK
<1>2. CASE LateOutcome
  BY <1>2 DEF LateOutcome, Yield
<1> QED BY <1>1, <1>2

(* What handlers commit, they commit as the latest attempt at an item      *)
(* nobody withdrew, in one step: enforce_session's guard and the row lock  *)
(* make it so although the lease may run out inside the transaction.       *)
THEOREM HandlersAreAtomic == ExecSpec => TransactionsAtomic
<1>1. ExecInit => Atomic!AtomicInit
  BY DEF ExecInit, Init, Atomic!AtomicInit, Atomic!RowsInit
<1>2. ExecInv /\ [ExecNext]_xvars => [Atomic!AtomicNext]_<<Atomic!rows, effects>>
  <2> SUFFICES ASSUME ExecInv, [ExecNext]_xvars PROVE Atomic!AtomicNext
    OBVIOUS
  <2>1. CASE UNCHANGED effects
    <3>1. \A k \in Items : RowMove(k)
      BY StepsOfLedger, StepsOnRows DEF ExecInv
    <3>2. \A i, j \in Items : fence'[i] # fence[i] /\ fence'[j] # fence[j] => i = j
      BY StepsOfLedger, OneFenceAtATime DEF ExecInv
    <3> QED BY <2>1, <3>1, <3>2 DEF RowMove, Atomic!AtomicNext, Atomic!RowsNext
  <2>2. ASSUME NEW p \in Procs, Commits(p) PROVE Atomic!AtomicNext
    <3>1. hclaim[p] \in claims /\ Undisturbed(hclaim[p])
      BY <2>2, CommitCases DEF Commits, Running, ExecInv, ThreadInv, Threads, Issued, Guarded
    <3> DEFINE i == hclaim[p].item
    <3>2. i \in Items
      BY <3>1, ClaimFacts DEF ExecInv
    <3>3. effects' = [effects EXCEPT ![i] = Append(@, fence[i])]
      BY <2>2, <3>1 DEF Commits, Undisturbed
    <3>4. /\ status' \in {status} \cup {[status EXCEPT ![i] = s] : s \in {"succeeded", "failed"}}
          /\ UNCHANGED <<fence, cancelled>>
      BY <2>2, CommitCases DEF Yield, vars, tenure, counts
    <3> QED BY <3>1, <3>2, <3>3, <3>4 DEF Undisturbed, Atomic!AtomicNext, Atomic!Transacts, Atomic!Held
  <2> QED BY <2>1, <2>2, EffectsStep
<1> QED BY <1>1, <1>2, ExecInvariant, PTL DEF ExecSpec, TransactionsAtomic, Atomic!AtomicSpec
=============================================================================
