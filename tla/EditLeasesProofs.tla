-------------------------- MODULE EditLeasesProofs --------------------------
(***************************************************************************)
(* Proofs about EditLeases, for any number of tabs and background writers  *)
(* and any lease and idle times.                                           *)
(***************************************************************************)
EXTENDS EditLeases, TLAPS

(* The lease outlives no deadline.                                         *)
LEMMA DeadlinesTyped ==
    ASSUME TypeOK, NEW active, Deadlines(active)
    PROVE  left' \in 0 .. LEASE /\ idleLeft' \in 0 .. IDLE
BY EditLeasesAssumption DEF Deadlines, Least, TypeOK

(* What somebody read: it is as old as its revision, and current if that   *)
(* is the item's.                                                          *)
Dated(r) == r[2] <= revision /\ (r[2] = revision => r[1] = content)

ReadDated == \A t \in Tabs : Dated(read[t])
SeenDated == \A j \in Jobs : seen[j] # Nothing => Dated(seen[j])

(* A deleted item has no live lease, and whoever edits under one has the   *)
(* current content (as NoSurprise says of those with no write under way).  *)
GoneIsFree == ~exists => ~Live
Current == \A t \in Tabs : at[t] = "editing" /\ Required(t) => read[t] = Now

(* The invariant: contents are no more than revisions.                     *)
IInv == TypeOK /\ content <= revision /\ ReadDated /\ SeenDated /\ GoneIsFree /\ Current

----------------------------------------------------------------------------
(* A new content comes with a new revision, and both stay in their bounds. *)
LEMMA NewContentTyped ==
    ASSUME TypeOK, content <= revision, NEW from \in 1 .. MaxRevision, NewContent(from)
    PROVE  /\ content' \in 1 .. MaxRevision /\ base' \in 1 .. MaxRevision
           /\ revision' \in 1 .. MaxRevision /\ content' <= revision'
BY EditLeasesAssumption DEF NewContent, TypeOK

(* Everything starts as the invariant says.                                *)
LEMMA IInvInit == Init => IInv
<1> SUFFICES ASSUME Init PROVE IInv
  OBVIOUS
<1>1. TypeOK
  BY EditLeasesAssumption DEF Init, TypeOK
<1>2. content <= revision /\ ReadDated /\ SeenDated
  BY DEF Init, ReadDated, SeenDated, Dated
<1>3. GoneIsFree /\ Current
  BY DEF Init, GoneIsFree, Current
<1> QED BY <1>1, <1>2, <1>3 DEF IInv

(* Every step gives each variable a value of its type.                     *)
LEMMA TypeStep ==
    ASSUME TypeOK, content <= revision, [Next]_vars
    PROVE  TypeOK' /\ (content <= revision)'
<1> DEFINE Typed == TypeOK' /\ (content <= revision)'
           States == {"closed", "acquiring", "loading", "editing", "lost"}
<1> SUFFICES Typed
  OBVIOUS
<1> USE EditLeasesAssumption DEF TypeOK, row, tabs, Stays
<1>a. ASSUME NEW t \in Tabs, Lost(t) \/ Stays(t)
      PROVE  at' \in [Tabs -> States] /\ releasing' \subseteq Tabs
  BY <1>a DEF Lost
<1>b. ASSUME Invalidate
      PROVE  /\ epoch' \in 0 .. MaxEpoch /\ owner' \in Tabs \cup {Nobody}
             /\ left' \in 0 .. LEASE /\ idleLeft' \in 0 .. IDLE /\ activity' \in 0 .. MaxActivity
  BY <1>b DEF Invalidate, Clear
<1>1. ASSUME NEW t \in Tabs, Open(t) PROVE Typed
  BY <1>1 DEF Open
<1>2. ASSUME NEW t \in Tabs, Act(t) PROVE Typed
  <2>1. acts' \in [Tabs -> 0 .. MaxActivity]
    BY <1>2 DEF Act
  <2> QED BY <1>2, <2>1 DEF Act
<1>3. ASSUME NEW t \in Tabs, Send(t, "save") \/ Send(t, "delete") PROVE Typed
  BY <1>3 DEF Send
<1>4. ASSUME NEW t \in Tabs, Arrives(t) PROVE Typed
  <2>1. CASE Acquire(t)
    <3>1. left' \in 0 .. LEASE /\ idleLeft' \in 0 .. IDLE
      BY <2>1 DEF Acquire, Least
    <3>2. at' \in [Tabs -> States] /\ held' \in [Tabs -> 0 .. MaxEpoch]
      BY <2>1 DEF Acquire
    <3>3. owner' \in Tabs \cup {Nobody} /\ epoch' \in 0 .. MaxEpoch /\ activity' = 0
      BY <2>1 DEF Acquire
    <3> QED BY <2>1, <3>1, <3>2, <3>3 DEF Acquire, KeepItem
  <2>2. CASE AcquireFails(t)
    BY <2>2 DEF AcquireFails
  <2>3. CASE Load(t)
    <3>1. read' \in [Tabs -> (1 .. MaxRevision) \X (1 .. MaxRevision)]
      BY <2>3 DEF Load, Now
    <3> QED BY <2>3, <3>1 DEF Load
  <2>4. CASE Leave(t)
    BY <2>4, <1>a DEF Leave
  <2>5. CASE SendRenewal(t)
    BY <2>5 DEF SendRenewal
  <2>6. CASE Renew(t)
    <3>1. left' \in 0 .. LEASE /\ idleLeft' \in 0 .. IDLE
      BY <2>6, DeadlinesTyped DEF Renew
    <3>2. renewing[t] \in 0 .. MaxActivity
      BY <2>6 DEF Renew
    <3>3. activity' \in 0 .. MaxActivity
      BY <2>6, <3>2 DEF Renew
    <3>4. Lost(t) \/ Stays(t)
      BY <2>6 DEF Renew, Answered
    <3>5. renewing' \in [Tabs -> (0 .. MaxActivity) \cup {Nothing}]
      BY <2>6 DEF Renew
    <3> QED BY <2>6, <1>a, <3>1, <3>3, <3>4, <3>5 DEF Renew, KeepItem
  <2>7. CASE RenewFails(t)
    <3>1. Lost(t) \/ Stays(t)
      BY <2>7 DEF RenewFails
    <3>2. renewing' \in [Tabs -> (0 .. MaxActivity) \cup {Nothing}]
      BY <2>7 DEF RenewFails
    <3> QED BY <2>7, <1>a, <3>1, <3>2 DEF RenewFails
  <2>8. CASE Save(t)
    <3>1. left' \in 0 .. LEASE /\ idleLeft' \in 0 .. IDLE
      BY <2>8, DeadlinesTyped DEF Save
    <3>2. /\ content' \in 1 .. MaxRevision /\ base' \in 1 .. MaxRevision
          /\ revision' \in 1 .. MaxRevision /\ content' <= revision'
      <4>1. read[t][1] \in 1 .. MaxRevision
        OBVIOUS
      <4> QED BY <2>8, <4>1, NewContentTyped DEF Save
    <3>3. Lost(t) \/ Stays(t)
      BY <2>8 DEF Save
    <3>4. read' \in [Tabs -> (1 .. MaxRevision) \X (1 .. MaxRevision)]
      BY <2>8, <3>2 DEF Save, Now
    <3>5. writing' \in [Tabs -> {"save", "delete", Nothing}]
      BY <2>8 DEF Save
    <3> QED BY <2>8, <1>a, <3>1, <3>2, <3>3, <3>4, <3>5 DEF Save
  <2>9. CASE Delete(t)
    <3>1. /\ content' \in 1 .. MaxRevision /\ base' \in 1 .. MaxRevision
          /\ revision' \in 1 .. MaxRevision /\ content' <= revision'
      <4>1. read[t][1] \in 1 .. MaxRevision
        OBVIOUS
      <4> QED BY <2>9, <4>1, NewContentTyped DEF Delete
    <3>2. Lost(t) \/ Stays(t)
      BY <2>9 DEF Delete
    <3>3. writing' \in [Tabs -> {"save", "delete", Nothing}] /\ exists' \in BOOLEAN
      BY <2>9 DEF Delete
    <3> QED BY <2>9, <1>a, <1>b, <3>1, <3>2, <3>3 DEF Delete
  <2>10. CASE WriteFails(t)
    <3>1. Lost(t) \/ Stays(t)
      BY <2>10 DEF WriteFails
    <3>2. writing' \in [Tabs -> {"save", "delete", Nothing}]
      BY <2>10 DEF WriteFails
    <3> QED BY <2>10, <1>a, <3>1, <3>2 DEF WriteFails
  <2>11. CASE Release(t)
    BY <2>11 DEF Release, KeepItem, Clear
  <2>12. CASE ReleaseLost(t)
    BY <2>12 DEF ReleaseLost
  <2> QED BY <1>4, <2>1, <2>2, <2>3, <2>4, <2>5, <2>6, <2>7, <2>8, <2>9, <2>10, <2>11, <2>12 DEF Arrives
<1>5. ASSUME NEW j \in Jobs, Capture(j) \/ Skip(j) PROVE Typed
  <2>1. seen' \in [Jobs -> ((1 .. MaxRevision) \X (1 .. MaxRevision)) \cup {Nothing}]
    BY <1>5 DEF Capture, Skip, Now
  <2> QED BY <1>5, <2>1 DEF Capture, Skip
<1>6. ASSUME NEW j \in Jobs, Commit(j) PROVE Typed
  <2>1. seen[j][1] \in 1 .. MaxRevision
    BY <1>6 DEF Commit
  <2>2. /\ content' \in 1 .. MaxRevision /\ base' \in 1 .. MaxRevision
        /\ revision' \in 1 .. MaxRevision /\ content' <= revision'
    BY <1>6, <2>1, NewContentTyped DEF Commit
  <2>3. exists' \in BOOLEAN /\ seen' \in [Jobs -> ((1 .. MaxRevision) \X (1 .. MaxRevision)) \cup {Nothing}]
    BY <1>6 DEF Commit
  <2> QED BY <1>6, <2>2, <2>3 DEF Commit, KeepLease
<1>7. CASE SystemWrite \/ Recreate
  <2>1. /\ content' \in 1 .. MaxRevision /\ base' \in 1 .. MaxRevision
        /\ revision' \in 1 .. MaxRevision /\ content' <= revision'
    BY <1>7, NewContentTyped DEF SystemWrite, Recreate
  <2>2. exists' \in BOOLEAN
    BY <1>7 DEF SystemWrite, Recreate
  <2> QED BY <1>7, <1>b, <2>1, <2>2 DEF SystemWrite, Recreate, KeepLease
<1>8. CASE Restore
  BY <1>8 DEF Restore, KeepLease
<1>9. CASE Revoke \/ InvalidateAll
  BY <1>9, <1>b DEF Revoke, InvalidateAll, KeepItem
<1>10. CASE Tick
  <2>1. left' \in 0 .. LEASE /\ idleLeft' \in 0 .. IDLE
    BY <1>10 DEF Tick
  <2> QED BY <1>10, <2>1 DEF Tick
<1>11. CASE UNCHANGED vars
  BY <1>11 DEF vars
<1> QED BY <1>1, <1>2, <1>3, <1>4, <1>5, <1>6, <1>7, <1>8, <1>9, <1>10, <1>11 DEF Next, UserActs

(* Everybody's types, in every state; contents are counted by revisions.   *)
THEOREM TypeCorrect == Spec => [](TypeOK /\ content <= revision)
<1>1. Init => TypeOK /\ content <= revision
  BY IInvInit DEF IInv
<1>2. TypeOK /\ content <= revision /\ [Next]_vars => (TypeOK /\ content <= revision)'
  BY TypeStep
<1> QED BY <1>1, <1>2, PTL DEF Spec

----------------------------------------------------------------------------
(* What steps do to the item, to what was read of it, and to the lease.    *)

(* A content changes with its revision only, and revisions go up.          *)
LEMMA Progress ==
    ASSUME TypeOK, [Next]_vars
    PROVE  (revision' = revision /\ content' = content) \/ revision' > revision
<1> USE DEF row, tabs, KeepItem, TypeOK
<1>1. ASSUME NEW t \in Tabs, Arrives(t)
      PROVE  UNCHANGED <<content, revision>> \/ revision' = revision + 1
  BY <1>1 DEF Arrives, Acquire, AcquireFails, Load, Leave, SendRenewal, Renew, RenewFails, Save, Delete,
              WriteFails, Release, ReleaseLost, NewContent
<1>2. ASSUME NEW j \in Jobs, Capture(j) \/ Commit(j) \/ Skip(j)
      PROVE  UNCHANGED <<content, revision>> \/ revision' = revision + 1
  BY <1>2 DEF Capture, Commit, Skip, NewContent
<1>3. CASE UserActs
  BY <1>3 DEF UserActs, Open, Act, Send
<1>4. CASE SystemWrite \/ Restore \/ Recreate \/ Revoke \/ InvalidateAll \/ Tick
  BY <1>4 DEF SystemWrite, Restore, Recreate, Revoke, InvalidateAll, Tick, NewContent
<1>5. CASE UNCHANGED vars
  BY <1>5 DEF vars
<1> QED BY <1>1, <1>2, <1>3, <1>4, <1>5 DEF Next

(* What a tab or a job has read stays, or is what the step leaves behind.  *)
LEMMA Readings ==
    ASSUME TypeOK, [Next]_vars
    PROVE  /\ \A t \in Tabs : read'[t] = read[t] \/ read'[t] = Now'
           /\ \A j \in Jobs : seen'[j] = seen[j] \/ seen'[j] = Nothing \/ seen'[j] = Now'
<1> USE DEF row, tabs, TypeOK
<1>1. ASSUME NEW t \in Tabs, Arrives(t)
      PROVE  UNCHANGED seen /\ (UNCHANGED read \/ read' = [read EXCEPT ![t] = Now'])
  <2>1. CASE Load(t)
    BY <2>1 DEF Load, Now
  <2>2. CASE Save(t)
    BY <2>2 DEF Save
  <2> QED BY <1>1, <2>1, <2>2 DEF Arrives, Acquire, AcquireFails, Leave, SendRenewal, Renew, RenewFails, Delete,
                                  WriteFails, Release, ReleaseLost
<1>2. ASSUME NEW j \in Jobs, Capture(j) \/ Commit(j) \/ Skip(j)
      PROVE  UNCHANGED read /\ (seen' = [seen EXCEPT ![j] = Now'] \/ seen' = [seen EXCEPT ![j] = Nothing])
  BY <1>2 DEF Capture, Commit, Skip, Now
<1>3. CASE UserActs
  BY <1>3 DEF UserActs, Open, Act, Send
<1>4. CASE SystemWrite \/ Restore \/ Recreate \/ Revoke \/ InvalidateAll \/ Tick
  BY <1>4 DEF SystemWrite, Restore, Recreate, Revoke, InvalidateAll, Tick
<1>5. CASE UNCHANGED vars
  BY <1>5 DEF vars
<1> QED BY <1>1, <1>2, <1>3, <1>4, <1>5 DEF Next

(* A lease lives on, is renewed while it is live and the item exists, or   *)
(* is granted on an item nobody edits; its item stays what it is, unless   *)
(* its owner saves.                                                        *)
LeaseKept == Live' => Live /\ UNCHANGED <<epoch, owner, exists>>
LeaseGranted == ~Live /\ exists /\ exists' /\ epoch' = epoch + 1

LEMMA StepsOnLease ==
    ASSUME TypeOK, GoneIsFree, [Next]_vars
    PROVE  LeaseKept \/ LeaseGranted
<1> USE EditLeasesAssumption DEF row, tabs, KeepItem, TypeOK, LeaseKept, Live
<1>1. ASSUME NEW t \in Tabs, Arrives(t) PROVE LeaseKept \/ LeaseGranted
  <2>1. CASE Acquire(t)
    BY <2>1 DEF Acquire, LeaseGranted
  <2>2. CASE Renew(t) \/ Save(t)
    BY <2>2 DEF Renew, Renewable, Save, Guarded, Required
  <2>3. CASE Delete(t) \/ Release(t)
    BY <2>3 DEF Delete, Release, Invalidate, Clear
  <2> QED BY <1>1, <2>1, <2>2, <2>3 DEF Arrives, AcquireFails, Load, Leave, SendRenewal, RenewFails, WriteFails, ReleaseLost
<1>2. ASSUME NEW j \in Jobs, Capture(j) \/ Commit(j) \/ Skip(j) PROVE LeaseKept
  BY <1>2 DEF Capture, Commit, Skip, MayCommit, KeepLease
<1>3. CASE UserActs
  BY <1>3 DEF UserActs, Open, Act, Send
<1>4. CASE SystemWrite \/ Recreate \/ Revoke \/ InvalidateAll
  BY <1>4 DEF SystemWrite, Recreate, Revoke, InvalidateAll, Invalidate, Clear, KeepLease
<1>5. CASE Restore
  BY <1>5 DEF Restore, KeepLease, GoneIsFree
<1>6. CASE Tick
  BY <1>6 DEF Tick
<1>7. CASE UNCHANGED vars
  BY <1>7 DEF vars
<1> QED BY <1>1, <1>2, <1>3, <1>4, <1>5, <1>6, <1>7 DEF Next

(* Who edits under a live lease either did so before the step, with the    *)
(* same draft over the same item, or has just read the item.               *)
Undisturbed(t) == /\ at[t] = "editing" /\ Required(t)
                  /\ UNCHANGED <<content, revision>> /\ read'[t] = read[t]

LEMMA StepsOnEditors ==
    ASSUME TypeOK, GoneIsFree, [Next]_vars,
           NEW t \in Tabs, (at[t] = "editing" /\ Required(t))'
    PROVE  Undisturbed(t) \/ read'[t] = Now'
<1> USE EditLeasesAssumption DEF row, tabs, KeepItem, TypeOK, Required, Live, Undisturbed
<1>1. ASSUME NEW u \in Tabs, Arrives(u) PROVE Undisturbed(t) \/ read'[t] = Now'
  <2>1. CASE Acquire(u)
    BY <2>1 DEF Acquire
  <2>2. CASE Load(u)
    BY <2>2 DEF Load, Now
  <2>3. CASE Renew(u)
    BY <2>3 DEF Renew, Renewable, Answered, Stays, Lost
  <2>4. CASE Save(u)
    BY <2>4 DEF Save, Guarded, Stays, Lost
  <2>5. CASE Delete(u)
    BY <2>5 DEF Delete, Invalidate, Clear
  <2>6. CASE Release(u)
    BY <2>6 DEF Release, Clear
  <2>7. CASE RenewFails(u) \/ WriteFails(u) \/ Leave(u)
    BY <2>7 DEF RenewFails, WriteFails, Leave, Stays, Lost
  <2> QED BY <1>1, <2>1, <2>2, <2>3, <2>4, <2>5, <2>6, <2>7 DEF Arrives, AcquireFails, SendRenewal, ReleaseLost
<1>2. ASSUME NEW j \in Jobs, Capture(j) \/ Commit(j) \/ Skip(j) PROVE Undisturbed(t)
  BY <1>2 DEF Capture, Commit, Skip, MayCommit, KeepLease
<1>3. ASSUME NEW u \in Tabs, Open(u) \/ Act(u) \/ Send(u, "save") \/ Send(u, "delete") PROVE Undisturbed(t)
  BY <1>3 DEF Open, Act, Send
<1>4. CASE SystemWrite \/ Recreate \/ Revoke \/ InvalidateAll
  BY <1>4 DEF SystemWrite, Recreate, Revoke, InvalidateAll, Invalidate, Clear, KeepLease
<1>5. CASE Restore
  BY <1>5 DEF Restore, KeepLease, GoneIsFree
<1>6. CASE Tick
  BY <1>6 DEF Tick
<1>7. CASE UNCHANGED vars
  BY <1>7 DEF vars
<1> QED BY <1>1, <1>2, <1>3, <1>4, <1>5, <1>6, <1>7 DEF Next, UserActs

----------------------------------------------------------------------------
(* The invariant holds whatever happens.                                   *)
LEMMA IInvPreserved == ASSUME IInv, [Next]_vars PROVE IInv'
<1> USE DEF IInv
<1>1. TypeOK' /\ (content <= revision)'
  BY TypeStep
<1>2. \A r : Dated(r) /\ r[2] \in Nat => Dated(r)'
  BY <1>1, Progress DEF Dated, TypeOK
<1>3. Dated(Now)'
  BY <1>1 DEF Dated, Now, TypeOK
<1>4. ReadDated'
  <2> SUFFICES ASSUME NEW t \in Tabs PROVE Dated(read[t])'
    BY DEF ReadDated
  <2>1. CASE read'[t] = read[t]
    <3>1. Dated(read[t]) /\ read[t][2] \in Nat
      BY DEF ReadDated, TypeOK
    <3> QED BY <2>1, <3>1, <1>2 DEF Dated
  <2>2. CASE read'[t] = Now'
    BY <2>2, <1>3 DEF Dated
  <2> QED BY <2>1, <2>2, Readings
<1>5. SeenDated'
  <2> SUFFICES ASSUME NEW j \in Jobs, seen'[j] # Nothing PROVE Dated(seen[j])'
    BY DEF SeenDated
  <2>1. CASE seen'[j] = seen[j]
    <3>1. Dated(seen[j]) /\ seen[j][2] \in Nat
      BY <2>1 DEF SeenDated, TypeOK
    <3> QED BY <2>1, <3>1, <1>2 DEF Dated
  <2>2. CASE seen'[j] = Now'
    BY <2>2, <1>3 DEF Dated
  <2> QED BY <2>1, <2>2, Readings
<1>6. GoneIsFree'
  BY StepsOnLease DEF GoneIsFree, LeaseKept, LeaseGranted
<1>7. Current'
  BY StepsOnEditors DEF Current, Undisturbed, Now
<1> QED BY <1>1, <1>4, <1>5, <1>6, <1>7

LEMMA Invariant == Spec => []IInv
BY IInvInit, IInvPreserved, PTL DEF Spec

(* Whoever edits under a live lease has the current content before them.   *)
THEOREM EditorsAreCurrent == Spec => []NoSurprise
<1>1. IInv => NoSurprise
  BY DEF IInv, Current, NoSurprise
<1> QED BY <1>1, Invariant, PTL

(* No writer replaces a content it has not read: guard_reference_write and *)
(* commit_translation_candidate compare revisions, and a revision that is  *)
(* still the item's says that the content is.                              *)
THEOREM NoLostUpdates == Spec => NothingOverwritten
<1>1. IInv /\ [Next]_vars => (content' # content => base' = content)
  <2> SUFFICES ASSUME IInv, [Next]_vars, content' # content PROVE base' = content
    OBVIOUS
  <2> USE DEF IInv, NewContent, row, tabs, KeepItem
  <2>1. ASSUME NEW t \in Tabs, Save(t) \/ Delete(t) PROVE base' = content
    <3>1. read[t][1] = content
      BY <2>1 DEF Save, Delete, Guarded, ReadDated, Dated
    <3> QED BY <2>1, <3>1 DEF Save, Delete
  <2>2. ASSUME NEW j \in Jobs, Commit(j) PROVE base' = content
    <3>1. seen[j][1] = content
      BY <2>2 DEF Commit, MayCommit, SeenDated, Dated
    <3> QED BY <2>2, <3>1 DEF Commit
  <2>3. CASE SystemWrite \/ Recreate
    BY <2>3 DEF SystemWrite, Recreate
  <2>4. ASSUME NEW t \in Tabs, Arrives(t) PROVE Save(t) \/ Delete(t)
    BY <2>4 DEF Arrives, Acquire, AcquireFails, Load, Leave, SendRenewal, Renew, RenewFails, WriteFails,
                Release, ReleaseLost
  <2>5. ASSUME NEW j \in Jobs, Capture(j) \/ Commit(j) \/ Skip(j) PROVE Commit(j)
    BY <2>5 DEF Capture, Skip
  <2>6. ~(UserActs \/ Restore \/ Revoke \/ InvalidateAll \/ Tick \/ UNCHANGED vars)
    BY DEF UserActs, Open, Act, Send, Restore, Revoke, InvalidateAll, Tick, vars
  <2> QED BY <2>1, <2>2, <2>3, <2>4, <2>5, <2>6 DEF Next
<1> QED BY <1>1, Invariant, PTL DEF Spec, NothingOverwritten

(* require_edit_lock and renew_edit_lock never bring a lease back.         *)
THEOREM NoRevival == Spec => LeaseNotRevived
<1>1. IInv /\ [Next]_vars => (Live' => epoch' > epoch \/ (Live /\ UNCHANGED <<epoch, owner>>))
  BY StepsOnLease DEF IInv, LeaseKept, LeaseGranted, TypeOK
<1> QED BY <1>1, Invariant, PTL DEF Spec, LeaseNotRevived
=============================================================================
