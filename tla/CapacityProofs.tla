--------------------------- MODULE CapacityProofs ---------------------------
(***************************************************************************)
(* Proofs about Capacity, for every number of slots, every lease and hold  *)
(* time and every set of owners.                                           *)
(***************************************************************************)
EXTENDS Capacity, FiniteSetTheorems, FunctionTheorems, TLAPS

LEMMA SlotFacts == /\ Limits \subseteq Nat \ {0}
                   /\ Slots \subseteq Nat
                   /\ Nobody \notin Owners
                   /\ Ttl \in Nat /\ Ttl > 0 /\ MaxHold \in Nat /\ MaxHold >= Ttl
BY CapacityAssumption DEF Limits, Slots

LEMMA MinusBounds == ASSUME NEW n \in Nat, NEW t \in 0..n
                     PROVE  Minus(t) \in 0..n /\ (Minus(t) > 0 => t > 0)
BY DEF Minus

(* The slot a reservation takes is one nobody is using, within its limit.  *)
LEMMA ChoiceIsFree == ASSUME NEW n \in Limits, NEW s \in Choice(n)
                      PROVE  s \in Slots /\ s < n /\ (fence[s] = 0 \/ ~Busy(s))
BY DEF Choice, Reusable, Unused

(* Rows and tokens keep their shape.                                       *)
THEOREM TypeCorrect == Spec => []TypeOK
<1>1. Init => TypeOK
  <2> SUFFICES ASSUME Init PROVE TypeOK
    OBVIOUS
  <2>1. required \in [Slots -> BOOLEAN]
    BY Zenon DEF Init
  <2> QED BY <2>1, SlotFacts DEF Init, TypeOK
<1>2. TypeOK /\ [Next]_vars => TypeOK'
  <2> SUFFICES ASSUME TypeOK, [Next]_vars PROVE TypeOK'
    OBVIOUS
  <2> USE DEF row, call
  <2>1. ASSUME NEW o \in Owners, NEW n \in Limits, NEW h \in Ttl..MaxHold, NEW b \in BOOLEAN,
               Reserve(o, n, h, b)
        PROVE  TypeOK'
    <3>1. PICK s \in Choice(n) :
             LET l == [slot |-> s, owner |-> o, fence |-> fence[s] + 1, renewals |-> 0]
             IN  /\ limit' = n
                 /\ owner' = [owner EXCEPT ![s] = o]
                 /\ fence' = [fence EXCEPT ![s] = @ + 1]
                 /\ required' = [required EXCEPT ![s] = b]
                 /\ expires' = [expires EXCEPT ![s] = Ttl]
                 /\ renewals' = [renewals EXCEPT ![s] = 0]
                 /\ hold' = [hold EXCEPT ![s] = h]
                 /\ leases' = leases \cup {l}
                 /\ budgets' = IF b THEN budgets \cup {l} ELSE budgets
      BY <2>1 DEF Reserve
    <3>2. s \in Slots
      BY ChoiceIsFree
    <3>3. required' \in [Slots -> BOOLEAN]
      BY <3>1, Zenon DEF TypeOK
    <3>4. leases' \in SUBSET Lease
      BY <3>1, <3>2 DEF TypeOK, Lease
    <3>5. UNCHANGED <<begun, executing>>
      BY <2>1 DEF Reserve
    <3> QED BY <3>1, <3>2, <3>3, <3>4, <3>5, SlotFacts DEF TypeOK
  <2>2. ASSUME NEW l \in leases, Renew(l) PROVE TypeOK'
    <3>1. l \in Lease
      BY DEF TypeOK
    <3>2. [l EXCEPT !.renewals = @ + 1] \in Lease
      BY <3>1 DEF Lease
    <3> QED BY <2>2, <3>1, <3>2, SlotFacts DEF Renew, TypeOK, Lease
  <2>3. ASSUME NEW l \in leases, Release(l) PROVE TypeOK'
    <3>1. Vacate(l.slot) /\ UNCHANGED <<limit, fence, required, renewals, leases, call>>
      BY <2>3, Zenon DEF Release
    <3>2. /\ owner' \in [Slots -> Owners \cup {Nobody}]
          /\ expires' \in [Slots -> 0..Ttl]
          /\ hold' \in [Slots -> 0..MaxHold]
      <4>1. 0 \in 0..Ttl /\ 0 \in 0..MaxHold
        BY SlotFacts
      <4> QED BY <3>1, <4>1 DEF Vacate, TypeOK
    <3>3. required' \in [Slots -> BOOLEAN]
      BY <3>1, Zenon DEF TypeOK
    <3> QED BY <3>1, <3>2, <3>3 DEF TypeOK
  <2>4. ASSUME NEW l \in leases, Confirms(l) PROVE TypeOK'
    <3>1. required' \in [Slots -> BOOLEAN]
      BY <2>4, Zenon DEF Confirms, Complete, TypeOK
    <3> QED BY <2>4, <3>1, SlotFacts DEF Confirms, Complete, Vacate, TypeOK
  <2>5. ASSUME NEW l \in leases, Calls(l) \/ Answers(l) \/ Closes(l) PROVE TypeOK'
    BY <2>5 DEF Calls, Answers, Closes, TypeOK
  <2>6. CASE Reconcile
    <3>1. required' \in [Slots -> BOOLEAN]
      BY <2>6, Zenon DEF Reconcile
    <3> QED BY <2>6, <3>1, SlotFacts DEF Reconcile, TypeOK
  <2>7. CASE Tick
    BY <2>7, MinusBounds, SlotFacts DEF Tick, TypeOK
  <2>8. CASE UNCHANGED vars
    BY <2>8 DEF vars, TypeOK
  <2> QED BY <2>1, <2>2, <2>3, <2>4, <2>5, <2>6, <2>7, <2>8 DEF Next
<1> QED BY <1>1, <1>2, PTL DEF Spec

----------------------------------------------------------------------------
(* Fences of tokens never run ahead of their row, and the tokens model     *)
(* calls are made with were never renewed.                                 *)
Issued   == \A l \in leases : l.fence >= 1 /\ l.fence <= fence[l.slot]
Original == \A l \in budgets \cup begun : l.renewals = 0

SlotInv == TypeOK /\ Issued /\ Original /\ CallsHoldSlots /\ BusyWithinLimit

(* A call in progress keeps its slot busy, and two calls never share one.  *)
LEMMA CallsBusy == ASSUME SlotInv, NEW l \in budgets \cup executing
                   PROVE  /\ l \in Lease /\ l \in leases /\ l.slot \in Slots
                          /\ Busy(l.slot) /\ fence[l.slot] >= 1
<1>1. l \in Lease /\ l \in leases
  BY DEF SlotInv, TypeOK
<1>2. l.slot \in Slots /\ l.owner \in Owners
  BY <1>1 DEF Lease
<1>3. Identified(l) /\ required[l.slot]
  BY DEF SlotInv, CallsHoldSlots
<1>4. owner[l.slot] # Nobody /\ fence[l.slot] >= 1
  BY <1>1, <1>2, <1>3, SlotFacts DEF Identified, SlotInv, Issued
<1> QED BY <1>1, <1>2, <1>3, <1>4, Zenon DEF Busy

LEMMA CallsApart == ASSUME SlotInv, NEW l \in budgets \cup executing,
                           NEW m \in budgets \cup executing, l.slot = m.slot
                    PROVE  l = m
<1>1. l \in Lease /\ m \in Lease
  BY CallsBusy
<1>2. l.owner = m.owner /\ l.fence = m.fence
  BY DEF SlotInv, CallsHoldSlots, Identified
<1>3. l.renewals = m.renewals
  BY DEF SlotInv, Original, TypeOK
<1> QED BY <1>1, <1>2, <1>3 DEF Lease

(* What a step does to who holds which slot: a reservation gives a free    *)
(* slot a fence never used, and other steps only vacate.                   *)
Reserves(o, n, b, s) ==
    LET l == [slot |-> s, owner |-> o, fence |-> fence[s] + 1, renewals |-> 0]
    IN  /\ PolicyAdmits(n)
        /\ fence[s] < MaxFence
        /\ limit' = n
        /\ owner' = [owner EXCEPT ![s] = o]
        /\ fence' = [fence EXCEPT ![s] = @ + 1]
        /\ required' = [required EXCEPT ![s] = b]
        /\ leases' = leases \cup {l}
        /\ budgets' = IF b THEN budgets \cup {l} ELSE budgets
        /\ UNCHANGED <<begun, executing>>
        /\ \A t \in Slots \ {s} : expires'[t] = expires[t] /\ hold'[t] = hold[t]

LEMMA ReserveStep ==
    ASSUME TypeOK, NEW o \in Owners, NEW n \in Limits, NEW h \in Ttl..MaxHold, NEW b \in BOOLEAN,
           Reserve(o, n, h, b)
    PROVE  \E s \in Choice(n) : Reserves(o, n, b, s)
<1>1. PICK s \in Choice(n) :
         LET l == [slot |-> s, owner |-> o, fence |-> fence[s] + 1, renewals |-> 0]
         IN  /\ fence[s] < MaxFence
             /\ limit' = n
             /\ owner' = [owner EXCEPT ![s] = o]
             /\ fence' = [fence EXCEPT ![s] = @ + 1]
             /\ required' = [required EXCEPT ![s] = b]
             /\ expires' = [expires EXCEPT ![s] = Ttl]
             /\ hold' = [hold EXCEPT ![s] = h]
             /\ leases' = leases \cup {l}
             /\ budgets' = IF b THEN budgets \cup {l} ELSE budgets
  BY DEF Reserve
<1>2. \A t \in Slots \ {s} : expires'[t] = expires[t] /\ hold'[t] = hold[t]
  BY <1>1 DEF TypeOK
<1>3. PolicyAdmits(n) /\ UNCHANGED <<begun, executing>>
  BY DEF Reserve
<1> QED BY <1>1, <1>2, <1>3, Zenon DEF Reserves

LEMMA TokensInvariant == Spec => [](TypeOK /\ Issued /\ Original)
<1>1. Init => Issued /\ Original
  BY DEF Init, Issued, Original
<1>2. TypeOK /\ TypeOK' /\ Issued /\ Original /\ [Next]_vars => Issued' /\ Original'
  <2> SUFFICES ASSUME TypeOK, TypeOK', Issued, Original, [Next]_vars PROVE Issued' /\ Original'
    OBVIOUS
  <2> USE DEF Issued, Original
  <2>0. \A l \in leases : l.slot \in Slots /\ l.fence \in Nat /\ fence[l.slot] \in Nat
    BY DEF TypeOK, Lease
  <2>1. ASSUME NEW o \in Owners, NEW n \in Limits, NEW h \in Ttl..MaxHold, NEW b \in BOOLEAN,
               Reserve(o, n, h, b)
        PROVE  Issued' /\ Original'
    <3>1. PICK s \in Choice(n) : Reserves(o, n, b, s)
      BY <2>1, ReserveStep
    <3>2. s \in Slots /\ fence[s] \in Nat
      BY ChoiceIsFree DEF TypeOK
    <3> DEFINE new == [slot |-> s, owner |-> o, fence |-> fence[s] + 1, renewals |-> 0]
    <3>3. /\ fence' = [fence EXCEPT ![s] = @ + 1] /\ leases' = leases \cup {new}
          /\ budgets' \subseteq budgets \cup {new} /\ begun' = begun
      BY <3>1 DEF Reserves
    <3>4. new.slot = s /\ new.fence = fence[s] + 1 /\ new.renewals = 0
      OBVIOUS
    <3> HIDE DEF new
    <3>5. fence'[s] = fence[s] + 1 /\ \A t \in Slots \ {s} : fence'[t] = fence[t]
      BY <3>2, <3>3 DEF TypeOK
    <3>6. Issued'
      BY <2>0, <3>2, <3>3, <3>4, <3>5
    <3> QED BY <3>3, <3>4, <3>6
  <2>2. ASSUME NEW l \in leases, Renew(l) PROVE Issued' /\ Original'
    <3> DEFINE new == [l EXCEPT !.renewals = @ + 1]
    <3>1. leases' = leases \cup {new} /\ fence' = fence /\ budgets' = budgets /\ begun' = begun
      BY <2>2 DEF Renew, call
    <3>2. new.slot = l.slot /\ new.fence = l.fence
      BY DEF TypeOK, Lease
    <3> HIDE DEF new
    <3> QED BY <3>1, <3>2
  <2>3. ASSUME NEW l \in leases, Release(l) \/ Confirms(l) \/ Calls(l) \/ Answers(l) \/ Closes(l)
        PROVE  Issued' /\ Original'
    <3>1. /\ UNCHANGED <<fence, leases>> /\ budgets' \subseteq budgets
          /\ begun' \subseteq budgets \cup begun
      BY <2>3 DEF Release, Confirms, Complete, Calls, Answers, Closes, row, call
    <3> QED BY <3>1
  <2>4. CASE Reconcile \/ Tick \/ UNCHANGED vars
    BY <2>4 DEF Reconcile, Tick, vars, row, call
  <2> QED BY <2>1, <2>2, <2>3, <2>4 DEF Next
<1> QED BY <1>1, <1>2, TypeCorrect, PTL DEF Spec

----------------------------------------------------------------------------
LEMMA CallsStep ==
    ASSUME SlotInv, TypeOK', [Next]_vars PROVE CallsHoldSlots'
<1> USE DEF CallsHoldSlots
<1>0. \A l \in budgets \cup executing : l.slot \in Slots /\ Identified(l) /\ required[l.slot]
  BY CallsBusy DEF SlotInv
<1>1. ASSUME NEW o \in Owners, NEW n \in Limits, NEW h \in Ttl..MaxHold, NEW b \in BOOLEAN,
             Reserve(o, n, h, b)
      PROVE  CallsHoldSlots'
  <2>1. PICK s \in Choice(n) : Reserves(o, n, b, s)
    BY <1>1, ReserveStep DEF SlotInv
  <2>2. s \in Slots
    BY ChoiceIsFree
  <2>3. \A l \in budgets \cup executing : l.slot # s
    BY CallsBusy, ChoiceIsFree DEF SlotInv, TypeOK
  <2>5. PICK new : new = [slot |-> s, owner |-> o, fence |-> fence[s] + 1, renewals |-> 0]
    OBVIOUS
  <2>4. /\ fence' = [fence EXCEPT ![s] = @ + 1] /\ owner' = [owner EXCEPT ![s] = o]
        /\ required' = [required EXCEPT ![s] = b]
        /\ budgets' = (IF b THEN budgets \cup {new} ELSE budgets) /\ executing' = executing
    BY <2>1, <2>5 DEF Reserves
  <2>6. ASSUME NEW l \in budgets \cup executing PROVE Identified(l)' /\ required'[l.slot]
    <3>1. l.slot \in Slots /\ l.slot # s /\ Identified(l)
      BY <1>0, <2>3
    <3>2. required[l.slot] /\ required'[l.slot] = required[l.slot]
      BY <1>0, <2>4, <3>1, Zenon DEF SlotInv, TypeOK
    <3>3. fence'[l.slot] = fence[l.slot] /\ owner'[l.slot] = owner[l.slot]
      BY <2>4, <3>1 DEF SlotInv, TypeOK
    <3> QED BY <3>1, <3>2, <3>3 DEF Identified
  <2>7. CASE b
    <3>1. required'[new.slot]
      BY <2>2, <2>4, <2>5, <2>7, Zenon DEF SlotInv, TypeOK
    <3>2. fence'[s] = fence[s] + 1 /\ owner'[s] = o
      <4>1. fence' = [fence EXCEPT ![s] = @ + 1] /\ owner' = [owner EXCEPT ![s] = o]
        BY <2>4
      <4> QED BY <2>2, <4>1 DEF SlotInv, TypeOK
    <3>3. Identified(new)'
      BY <2>5, <3>2 DEF Identified
    <3>4. \A l \in budgets' \cup executing' : l \in budgets \cup executing \/ l = new
      BY <2>4, <2>7
    <3> QED BY <2>6, <3>1, <3>3, <3>4, Zenon
  <2>8. CASE ~b
    <3>1. budgets' \cup executing' = budgets \cup executing
      BY <2>4, <2>8
    <3> QED BY <2>6, <3>1
  <2> QED BY <2>7, <2>8
<1>2. ASSUME NEW l \in leases, Renew(l) PROVE CallsHoldSlots'
  <2>1. UNCHANGED <<owner, fence, required, budgets, executing>>
    BY <1>2 DEF Renew, call
  <2> QED BY <1>0, <2>1 DEF Identified
<1>3. ASSUME NEW m \in leases, Release(m) PROVE CallsHoldSlots'
  <2>1. /\ ~required[m.slot] /\ owner' = [owner EXCEPT ![m.slot] = Nobody]
        /\ UNCHANGED <<fence, required, budgets, executing>>
    BY <1>3, Zenon DEF Release, Vacate, call
  <2>2. \A l \in budgets \cup executing : l.slot # m.slot
    BY <1>0, <2>1, Zenon
  <2> QED BY <1>0, <2>1, <2>2 DEF Identified, SlotInv, TypeOK
<1>4. ASSUME NEW m \in leases, Confirms(m) PROVE CallsHoldSlots'
  <2>1. /\ m \in budgets \ executing
        /\ owner' = [owner EXCEPT ![m.slot] = Nobody]
        /\ required' = [required EXCEPT ![m.slot] = FALSE]
        /\ budgets' = budgets \ {m} /\ UNCHANGED <<fence, executing>>
    BY <1>4 DEF Confirms, Complete, Vacate
  <2>2. \A l \in budgets' \cup executing' : l \in budgets \cup executing /\ l # m
    BY <2>1
  <2>3. \A l \in budgets' \cup executing' : l.slot # m.slot
    BY <2>1, <2>2, CallsApart
  <2>4. ASSUME NEW l \in budgets' \cup executing' PROVE Identified(l)' /\ required'[l.slot]
    <3>1. l.slot \in Slots /\ l.slot # m.slot /\ Identified(l) /\ required[l.slot]
      BY <1>0, <2>2, <2>3
    <3>2. required'[l.slot]
      BY <2>1, <3>1, Zenon DEF SlotInv, TypeOK
    <3>3. fence'[l.slot] = fence[l.slot] /\ owner'[l.slot] = owner[l.slot]
      BY <2>1, <3>1 DEF SlotInv, TypeOK
    <3> QED BY <3>1, <3>2, <3>3 DEF Identified
  <2> QED BY <2>4
<1>5. ASSUME NEW m \in leases, Calls(m) \/ Answers(m) \/ Closes(m) PROVE CallsHoldSlots'
  <2>1. /\ UNCHANGED <<owner, fence, required>>
        /\ budgets' \cup executing' \subseteq budgets \cup executing
    BY <1>5 DEF Calls, Answers, Closes, row
  <2> QED BY <1>0, <2>1 DEF Identified
<1>6. CASE Reconcile
  BY <1>6 DEF Reconcile, call
<1>7. CASE Tick \/ UNCHANGED vars
  <2>1. UNCHANGED <<owner, fence, required, budgets, executing>>
    BY <1>7 DEF Tick, vars, row, call
  <2> QED BY <1>0, <2>1 DEF Identified
<1> QED BY <1>1, <1>2, <1>3, <1>4, <1>5, <1>6, <1>7 DEF Next

(* No step but a reservation makes a slot busy.                            *)
LEMMA LimitStep ==
    ASSUME SlotInv, TypeOK', [Next]_vars PROVE BusyWithinLimit'
<1> USE DEF BusyWithinLimit, BusySlots
<1>0. \A t \in Slots : Busy(t) => t < limit
  BY DEF SlotInv
<1>1. ASSUME NEW o \in Owners, NEW n \in Limits, NEW h \in Ttl..MaxHold, NEW b \in BOOLEAN,
             Reserve(o, n, h, b)
      PROVE  BusyWithinLimit'
  <2>1. PICK s \in Choice(n) : Reserves(o, n, b, s)
    BY <1>1, ReserveStep DEF SlotInv
  <2>2. s \in Slots /\ s < n
    BY ChoiceIsFree
  <2>3. limit' = n /\ (limit \in {0, n} \/ BusySlots = {})
    BY <2>1, Zenon DEF Reserves, PolicyAdmits
  <2>4. ASSUME NEW t \in Slots, Busy(t)', t # s PROVE Busy(t)
    <3>1. /\ owner'[t] = owner[t] /\ expires'[t] = expires[t] /\ hold'[t] = hold[t]
          /\ required'[t] = required[t]
      BY <2>1, <2>4, Zenon DEF Reserves, SlotInv, TypeOK
    <3> QED BY <2>4, <3>1, Zenon DEF Busy
  <2>5. ASSUME NEW t \in Slots, Busy(t)' PROVE t < n
    <3>1. CASE t = s
      BY <2>2, <3>1
    <3>2. CASE t # s
      <4>1. Busy(t) /\ t < limit
        BY <1>0, <2>4, <2>5, <3>2
      <4> QED BY <2>3, <4>1, SlotFacts
    <3> QED BY <3>1, <3>2
  <2> QED BY <2>3, <2>5
<1>2. ASSUME NEW l \in leases, Renew(l) PROVE BusyWithinLimit'
  <2>1. /\ UNCHANGED <<limit, owner, required>>
        /\ expires' = [expires EXCEPT ![l.slot] = Ttl]
        /\ hold' = [hold EXCEPT ![l.slot] = IF @ > Ttl THEN @ ELSE Ttl]
    BY <1>2 DEF Renew
  <2>2. l.slot \in Slots /\ l.owner \in Owners
    BY DEF SlotInv, TypeOK, Lease
  <2>3. Busy(l.slot)
    <3>1. owner[l.slot] # Nobody /\ expires[l.slot] > 0
      BY <1>2, <2>2, SlotFacts DEF Renew, Exact, Live, Identified
    <3> QED BY <3>1, Zenon DEF Busy
  <2>4. ASSUME NEW t \in Slots, Busy(t)' PROVE Busy(t)
    <3>1. CASE t = l.slot
      BY <2>3, <3>1
    <3>2. CASE t # l.slot
      <4>1. expires'[t] = expires[t] /\ hold'[t] = hold[t]
        BY <2>1, <3>2 DEF SlotInv, TypeOK
      <4> QED BY <2>1, <2>4, <4>1, Zenon DEF Busy
    <3> QED BY <3>1, <3>2
  <2> QED BY <1>0, <2>1, <2>4
<1>3. ASSUME NEW m \in leases, Release(m) \/ Confirms(m) PROVE BusyWithinLimit'
  <2>1. limit' = limit /\ Vacate(m.slot)
    BY <1>3, Zenon DEF Release, Confirms, Complete
  <2>2. m.slot \in Slots
    BY DEF SlotInv, TypeOK, Lease
  <2>3. \A t \in Slots : t # m.slot => required'[t] = required[t]
    BY <1>3, Zenon DEF Release, Confirms, Complete, SlotInv, TypeOK
  <2>4. ASSUME NEW t \in Slots, Busy(t)' PROVE Busy(t)
    <3>1. t # m.slot
      BY <2>1, <2>2, <2>4 DEF Vacate, Busy, SlotInv, TypeOK
    <3>2. owner'[t] = owner[t] /\ expires'[t] = expires[t] /\ hold'[t] = hold[t]
      BY <2>1, <3>1 DEF Vacate, SlotInv, TypeOK
    <3> QED BY <2>3, <2>4, <3>1, <3>2, Zenon DEF Busy
  <2> QED BY <1>0, <2>1, <2>4
<1>4. ASSUME NEW m \in leases, Calls(m) \/ Answers(m) \/ Closes(m) PROVE BusyWithinLimit'
  <2>1. UNCHANGED <<limit, row>>
    BY <1>4 DEF Calls, Answers, Closes
  <2> QED BY <1>0, <2>1, Zenon DEF Busy, row
<1>5. CASE Reconcile
  BY <1>5 DEF Reconcile, Busy
<1>6. CASE Tick
  <2>1. UNCHANGED <<limit, owner, required>>
    BY <1>6 DEF Tick
  <2>2. ASSUME NEW t \in Slots
        PROVE  (expires'[t] > 0 => expires[t] > 0) /\ (hold'[t] > 0 => hold[t] > 0)
    BY <1>6, MinusBounds, SlotFacts DEF Tick, SlotInv, TypeOK
  <2> QED BY <1>0, <2>1, <2>2, Zenon DEF Busy
<1>7. CASE UNCHANGED vars
  BY <1>0, <1>7, Zenon DEF vars, row, Busy
<1> QED BY <1>1, <1>2, <1>3, <1>4, <1>5, <1>6, <1>7 DEF Next

----------------------------------------------------------------------------
LEMMA SlotInvariant == Spec => []SlotInv
<1>1. Init => CallsHoldSlots /\ BusyWithinLimit
  BY DEF Init, CallsHoldSlots, BusyWithinLimit, BusySlots, Busy
<1>2. SlotInv /\ TypeOK' /\ Issued' /\ Original' /\ [Next]_vars
        => CallsHoldSlots' /\ BusyWithinLimit'
  BY CallsStep, LimitStep
<1> QED BY <1>1, <1>2, TokensInvariant, PTL DEF Spec, SlotInv

(* However limits are rolled out, no slot above the policy in force is     *)
(* busy.                                                                   *)
THEOREM PolicyBoundsSlots == Spec => []BusyWithinLimit
<1>1. SlotInv => BusyWithinLimit
  BY DEF SlotInv
<1> QED BY <1>1, SlotInvariant, PTL

(* A model call keeps its slot from before it is made until after it is    *)
(* known to have ended, whoever dies and whatever expires meanwhile.       *)
THEOREM CallsKeepSlots == Spec => []CallsHoldSlots
<1>1. SlotInv => CallsHoldSlots
  BY DEF SlotInv
<1> QED BY <1>1, SlotInvariant, PTL

(* A reservation in use is the one its busy slot belongs to, so that       *)
(* reservations in use map one-to-one to slots below the limit.            *)
LEMMA InUseBusy == ASSUME SlotInv, NEW l \in InUse
                   PROVE  /\ l \in Lease /\ l \in leases /\ l.renewals = 0 /\ l.slot \in Slots
                          /\ Identified(l) /\ Busy(l.slot)
<1>1. l \in Lease /\ l \in leases /\ l.renewals = 0
  BY DEF SlotInv, TypeOK, InUse, Reservations
<1>2. l.slot \in Slots /\ l.owner \in Owners
  BY <1>1 DEF Lease
<1>3. CASE l \in budgets \cup executing
  BY <1>1, <1>2, <1>3, CallsBusy DEF SlotInv, CallsHoldSlots
<1>4. CASE Running(l)
  <2>1. Identified(l) /\ owner[l.slot] # Nobody
    BY <1>2, <1>4, SlotFacts DEF Running, Identified
  <2> QED BY <1>1, <1>2, <1>4, <2>1, Zenon DEF Running, Busy
<1> QED BY <1>3, <1>4 DEF InUse

LEMMA InUseBounded == ASSUME SlotInv
                      PROVE  /\ limit \in Nat /\ Cardinality(InUse) <= limit
                             /\ IsFiniteSet(InUse) /\ Cardinality(InUse) \in Nat
<1>1. limit \in Nat
  BY SlotFacts DEF SlotInv, TypeOK
<1> DEFINE slotOf == [l \in InUse |-> l.slot]
<1>2. \A l \in InUse : l.slot \in 0..limit - 1
  <2> SUFFICES ASSUME NEW l \in InUse PROVE l.slot \in 0..limit - 1
    OBVIOUS
  <2>1. l.slot \in Slots /\ Busy(l.slot)
    BY InUseBusy
  <2>2. l.slot < limit
    BY <2>1 DEF SlotInv, BusyWithinLimit, BusySlots
  <2> QED BY <1>1, <2>1, <2>2 DEF Slots
<1>3. ASSUME NEW l \in InUse, NEW m \in InUse, l.slot = m.slot PROVE l = m
  <2>1. l \in Lease /\ m \in Lease /\ l.renewals = m.renewals /\ Identified(l) /\ Identified(m)
    BY InUseBusy
  <2> QED BY <1>3, <2>1 DEF Lease, Identified
<1>4. slotOf \in Injection(InUse, 0..limit - 1)
  BY <1>2, <1>3, Fun_IsInj
<1>5. IsFiniteSet(0..limit - 1) /\ Cardinality(0..limit - 1) = limit
  BY <1>1, FS_Interval
<1>6. IsFiniteSet(InUse) /\ Cardinality(InUse) <= Cardinality(0..limit - 1)
  BY <1>4, <1>5, FS_Injection
<1> QED BY <1>1, <1>5, <1>6, FS_CardinalityType

(* Hence the provider never executes more calls than the policy allows.    *)
THEOREM ProviderBounded == Spec => []ProviderWithinLimit
<1>1. SlotInv => ProviderWithinLimit
  <2> SUFFICES ASSUME SlotInv PROVE Cardinality(executing) <= limit
    BY DEF ProviderWithinLimit
  <2>1. executing \subseteq InUse
    BY DEF SlotInv, TypeOK, Original, InUse, Reservations
  <2>2. Cardinality(executing) <= Cardinality(InUse) /\ Cardinality(executing) \in Nat
    BY <2>1, InUseBounded, FS_Subset, FS_CardinalityType
  <2> QED BY <2>2, InUseBounded
<1> QED BY <1>1, SlotInvariant, PTL

----------------------------------------------------------------------------
(* The refinement of Semaphore: a reservation lets one user in, who has    *)
(* never been in; every other step lets users out or nothing happens.      *)
LEMMA EntryStep ==
    ASSUME SlotInv, SlotInv', NEW o \in Owners, NEW n \in Limits, NEW h \in Ttl..MaxHold,
           NEW b \in BOOLEAN, Reserve(o, n, h, b)
    PROVE  Shared!SemaphoreNext
<1>1. PICK s \in Choice(n) : Reserves(o, n, b, s)
  BY ReserveStep DEF SlotInv
<1>2. s \in Slots /\ fence[s] \in Nat
  BY ChoiceIsFree DEF SlotInv, TypeOK
<1>3. PICK new : new = [slot |-> s, owner |-> o, fence |-> fence[s] + 1, renewals |-> 0]
  OBVIOUS
<1>4. /\ PolicyAdmits(n) /\ limit' = n /\ fence[s] < MaxFence
      /\ owner' = [owner EXCEPT ![s] = o] /\ fence' = [fence EXCEPT ![s] = @ + 1]
      /\ leases' = leases \cup {new} /\ budgets' \subseteq budgets \cup {new}
      /\ executing' = executing
      /\ \A t \in Slots \ {s} : expires'[t] = expires[t] /\ hold'[t] = hold[t]
  BY <1>1, <1>3 DEF Reserves
<1>5. new \in Reservation
  BY <1>2, <1>3, <1>4, CapacityAssumption DEF Reservation
<1>6. new \notin Reservations
  BY <1>2, <1>3 DEF Reservations, SlotInv, Issued
<1>7. Reservations' = Reservations \cup {new}
  BY <1>3, <1>4 DEF Reservations
<1>8. InUse' \subseteq InUse \cup {new}
  <2> SUFFICES ASSUME NEW l \in InUse', l # new PROVE l \in InUse
    OBVIOUS
  <2>1. l \in Reservations
    BY <1>7 DEF InUse
  <2>2. CASE l \in budgets' \cup executing'
    BY <1>4, <2>1, <2>2 DEF InUse
  <2>3. CASE Running(l)'
    <3>1. l.slot \in Slots /\ l.fence <= fence[l.slot] /\ l.fence \in Nat
      BY <2>1 DEF SlotInv, TypeOK, Lease, Reservations, Issued
    <3>2. l.slot # s
      BY <1>2, <1>4, <2>3, <3>1 DEF Running, Identified, SlotInv, TypeOK
    <3>3. Running(l)
      BY <1>4, <2>3, <3>1, <3>2 DEF Running, Identified, SlotInv, TypeOK
    <3> QED BY <2>1, <3>3 DEF InUse
  <2> QED BY <2>2, <2>3 DEF InUse
<1>9. Shared!Cardinality(InUse') <= limit'
  <2>1. (limit \in Nat /\ Cardinality(InUse) <= limit)'
    BY InUseBounded, PTL
  <2> QED BY <2>1 DEF Shared!Cardinality, Cardinality
<1>10. limit' = limit \/ InUse = {}
  <2>1. ASSUME BusySlots = {} \/ limit = 0 PROVE InUse = {}
    BY <2>1, InUseBusy DEF BusySlots, SlotInv, BusyWithinLimit, Slots
  <2> QED BY <1>4, <2>1 DEF PolicyAdmits
<1> QED BY <1>5, <1>6, <1>7, <1>8, <1>9, <1>10 DEF Shared!SemaphoreNext, Shared!Enter

LEMMA ExitStep ==
    ASSUME SlotInv, [Next]_vars,
           \A o \in Owners, n \in Limits, h \in Ttl..MaxHold, b \in BOOLEAN : ~Reserve(o, n, h, b)
    PROVE  limit' = limit /\ Reservations' = Reservations /\ InUse' \subseteq InUse
<1>0. \A l \in leases : l \in Lease /\ l.slot \in Slots /\ l.owner \in Owners /\ l.owner # Nobody
  BY SlotFacts DEF SlotInv, TypeOK, Lease
<1> DEFINE Goal == limit' = limit /\ Reservations' = Reservations /\ InUse' \subseteq InUse
<1>1. ASSUME limit' = limit, Reservations' = Reservations,
             budgets' \cup executing' \subseteq budgets \cup executing,
             \A l \in Reservations : Running(l)' => Running(l)
      PROVE  Goal
  BY <1>1 DEF InUse
<1>2. ASSUME NEW m \in leases, Renew(m) PROVE Goal
  <2> DEFINE new == [m EXCEPT !.renewals = @ + 1]
  <2>1. /\ UNCHANGED <<limit, owner, fence, budgets, executing>> /\ leases' = leases \cup {new}
        /\ expires[m.slot] > 0
        /\ expires' = [expires EXCEPT ![m.slot] = Ttl]
        /\ hold' = [hold EXCEPT ![m.slot] = IF @ > Ttl THEN @ ELSE Ttl]
    BY <1>2 DEF Renew, Exact, Live, call
  <2>2. new.renewals # 0
    BY <1>0 DEF Lease
  <2> HIDE DEF new
  <2>3. Reservations' = Reservations
    BY <2>1, <2>2 DEF Reservations
  <2>4. ASSUME NEW l \in Reservations, Running(l)' PROVE Running(l)
    BY <1>0, <2>1, <2>4 DEF Reservations, Running, Identified, SlotInv, TypeOK
  <2> QED BY <1>1, <2>1, <2>3, <2>4
<1>3. ASSUME NEW m \in leases, Release(m) \/ Confirms(m) PROVE Goal
  <2>1. /\ UNCHANGED <<limit, fence, leases, executing>> /\ budgets' \subseteq budgets
        /\ Vacate(m.slot)
    BY <1>3, Zenon DEF Release, Confirms, Complete, call
  <2>2. ASSUME NEW l \in Reservations, Running(l)' PROVE Running(l)
    <3>1. l.slot # m.slot
      BY <1>0, <2>1, <2>2 DEF Vacate, Reservations, Running, Identified, SlotInv, TypeOK
    <3> QED BY <1>0, <2>1, <2>2, <3>1 DEF Vacate, Reservations, Running, Identified, SlotInv, TypeOK
  <2> QED BY <1>1, <2>1, <2>2 DEF Reservations
<1>4. ASSUME NEW m \in leases, Calls(m) \/ Answers(m) \/ Closes(m) PROVE Goal
  <2>1. UNCHANGED <<limit, row, leases>> /\ budgets' \cup executing' \subseteq budgets \cup executing
    BY <1>4 DEF Calls, Answers, Closes
  <2> QED BY <1>1, <2>1 DEF row, Reservations, Running, Identified
<1>5. CASE Reconcile
  BY <1>0, <1>1, <1>5 DEF Reconcile, call, Reservations, Running, Identified
<1>6. CASE Tick
  <2>1. UNCHANGED <<limit, owner, fence, leases, budgets, executing>>
    BY <1>6 DEF Tick, call
  <2>2. ASSUME NEW t \in Slots
        PROVE  (expires'[t] > 0 => expires[t] > 0) /\ (hold'[t] > 0 => hold[t] > 0)
    BY <1>6, MinusBounds, SlotFacts DEF Tick, SlotInv, TypeOK
  <2> QED BY <1>0, <1>1, <2>1, <2>2 DEF Reservations, Running, Identified
<1>7. CASE UNCHANGED vars
  BY <1>1, <1>7 DEF vars, row, call, Reservations, Running, Identified
<1> QED BY <1>2, <1>3, <1>4, <1>5, <1>6, <1>7 DEF Next

(* The limit of a resource is kept like a semaphore, whoever dies, expires *)
(* or answers late: a lease or call in use is never displaced, replicas    *)
(* with another limit wait until nothing is in use, and no lease comes     *)
(* back.                                                                   *)
THEOREM ImplementsSemaphore == Spec => KeepsSemaphore
<1>1. Init => Shared!SemaphoreInit
  BY DEF Init, Shared!SemaphoreInit, InUse, Reservations
<1>2. SlotInv /\ SlotInv' /\ [Next]_vars => [Shared!SemaphoreNext]_<<limit, InUse, Reservations>>
  <2> SUFFICES ASSUME SlotInv, SlotInv', [Next]_vars PROVE Shared!SemaphoreNext
    OBVIOUS
  <2>1. CASE \E o \in Owners, n \in Limits, h \in Ttl..MaxHold, b \in BOOLEAN : Reserve(o, n, h, b)
    BY <2>1, EntryStep
  <2>2. CASE \A o \in Owners, n \in Limits, h \in Ttl..MaxHold, b \in BOOLEAN : ~Reserve(o, n, h, b)
    BY <2>2, ExitStep DEF Shared!SemaphoreNext, Shared!Leave
  <2> QED BY <2>1, <2>2
<1> QED BY <1>1, <1>2, SlotInvariant, PTL DEF Spec, KeepsSemaphore, Shared!SemaphoreSpec

(* Below the limit the search for a slot cannot run out.                   *)
THEOREM SearchSucceeds == Spec => []AlwaysASlot
<1>1. TypeOK => AlwaysASlot
  <2> SUFFICES ASSUME TypeOK, NEW n \in Limits, Cardinality(BusySlots) < n,
                      Reusable(n) \cup Unused(n) = {}
               PROVE  FALSE
    BY DEF AlwaysASlot
  <2>1. n \in Nat /\ n > 0 /\ n <= MaxLimit /\ MaxLimit \in Nat
    BY CapacityAssumption DEF Limits
  <2>2. 0..n - 1 \subseteq Slots
    BY <2>1 DEF Slots
  <2>3. 0..n - 1 \subseteq BusySlots
    <3> SUFFICES ASSUME NEW s \in 0..n - 1 PROVE Busy(s)
      BY <2>2 DEF BusySlots
    <3>1. s \in Slots /\ s < n /\ fence[s] \in Nat
      BY <2>1, <2>2 DEF TypeOK
    <3> QED BY <3>1 DEF Reusable, Unused
  <2>4. IsFiniteSet(Slots) /\ IsFiniteSet(BusySlots)
    <3>1. IsFiniteSet(Slots)
      BY <2>1, FS_Interval DEF Slots
    <3> QED BY <3>1, FS_Subset DEF BusySlots
  <2>5. Cardinality(0..n - 1) <= Cardinality(BusySlots) /\ Cardinality(BusySlots) \in Nat
    BY <2>3, <2>4, FS_Subset, FS_CardinalityType
  <2>6. Cardinality(0..n - 1) = n
    BY <2>1, FS_Interval
  <2> QED BY <2>1, <2>5, <2>6
<1> QED BY <1>1, TypeCorrect, PTL

(* A lease identity that is no longer live never is again, so that neither *)
(* its renewal nor its release can reach a slot that others hold by then.  *)
THEOREM NoResurrection == Spec => LostForever
<1>1. TypeOK /\ Issued /\ [Next]_vars => [\A l \in leases : Live(l)' => Live(l)]_vars
  <2> SUFFICES ASSUME TypeOK, Issued, [Next]_vars, NEW l \in leases, Live(l)' PROVE Live(l)
    OBVIOUS
  <2>0. /\ l \in Lease /\ l.slot \in Slots /\ l.owner \in Owners /\ l.owner # Nobody
        /\ l.fence \in Nat /\ fence[l.slot] \in Nat /\ l.fence <= fence[l.slot]
    BY SlotFacts DEF TypeOK, Lease, Issued
  <2>1. ASSUME NEW o \in Owners, NEW n \in Limits, NEW h \in Ttl..MaxHold, NEW b \in BOOLEAN,
               Reserve(o, n, h, b)
        PROVE  Live(l)
    <3>1. PICK s \in Choice(n) : Reserves(o, n, b, s)
      BY <2>1, ReserveStep
    <3>2. s \in Slots
      BY ChoiceIsFree
    <3>3. /\ owner' = [owner EXCEPT ![s] = o] /\ fence' = [fence EXCEPT ![s] = @ + 1]
          /\ \A t \in Slots \ {s} : expires'[t] = expires[t]
      BY <3>1 DEF Reserves
    <3>4. l.slot # s
      BY <2>0, <3>2, <3>3 DEF Live, Identified, TypeOK
    <3> QED BY <2>0, <3>3, <3>4 DEF Live, Identified, TypeOK
  <2>2. ASSUME NEW m \in leases, Renew(m) PROVE Live(l)
    <3>1. /\ owner' = owner /\ fence' = fence /\ expires' = [expires EXCEPT ![m.slot] = Ttl]
          /\ expires[m.slot] > 0
      BY <2>2 DEF Renew, Exact, Live
    <3> QED BY <2>0, <3>1 DEF Live, Identified, TypeOK
  <2>3. ASSUME NEW m \in leases, Release(m) \/ Confirms(m) PROVE Live(l)
    <3>1. Vacate(m.slot) /\ fence' = fence
      BY <2>3, Zenon DEF Release, Confirms, Complete
    <3>2. l.slot # m.slot
      BY <2>0, <3>1 DEF Vacate, Live, Identified, TypeOK
    <3> QED BY <2>0, <3>1, <3>2 DEF Vacate, Live, Identified, TypeOK
  <2>4. ASSUME NEW m \in leases, Calls(m) \/ Answers(m) \/ Closes(m) PROVE Live(l)
    BY <2>4 DEF Calls, Answers, Closes, row, Live, Identified
  <2>5. CASE Reconcile
    BY <2>0, <2>5 DEF Reconcile, Live, Identified
  <2>6. CASE Tick
    <3>1. expires'[l.slot] > 0 => expires[l.slot] > 0
      BY <2>0, <2>6, MinusBounds, SlotFacts DEF Tick, TypeOK
    <3> QED BY <2>6, <3>1 DEF Tick, Live, Identified
  <2>7. CASE UNCHANGED vars
    BY <2>7 DEF vars, row, Live, Identified
  <2> QED BY <2>1, <2>2, <2>3, <2>4, <2>5, <2>6, <2>7 DEF Next
<1> QED BY <1>1, TokensInvariant, PTL DEF Spec, LostForever
============================================================================
