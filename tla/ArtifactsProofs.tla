-------------------------- MODULE ArtifactsProofs --------------------------
(***************************************************************************)
(* Proofs about Artifacts, for any number of objects, readers, collectors  *)
(* and kinds of reference, and for every lease time and margin.            *)
(***************************************************************************)
EXTENDS Artifacts, TLAPS

(* A reader's new deadline is no longer than its margin.                   *)
LEMMA LeftBounds == ASSUME TypeOK, NEW r \in Readers
                    PROVE  Left(r) \in 0 .. Margin
BY ArtifactsAssumption DEF Left, TypeOK

(* The clock never runs a timer below zero or up.                          *)
LEMMA DownBounds == ASSUME NEW n \in Nat, NEW t \in 0 .. n
                    PROVE  Down(t) \in 0 .. n
BY DEF Down

(* Everything starts with a value of its type, ...                         *)
LEMMA TypeInit == ASSUME Init PROVE TypeOK
BY ArtifactsAssumption DEF Init, TypeOK

(* ... and every step gives it one.                                        *)
LEMMA TypeStep == ASSUME TypeOK, [Next]_vars PROVE TypeOK'
<1> USE DEF provider, registry, discovery, grace, readers, collectors
<1>1. ASSUME NEW o \in Objects, ObjectStep(o) PROVE TypeOK'
  <2>1. CASE Put(o) \/ LandPut(o) \/ LandDelete(o) \/ WriterEnds(o)
    BY <2>1 DEF Put, LandPut, LandDelete, WriterEnds, TypeOK
  <2>2. ASSUME NEW k \in Kinds, Attach(o, k) \/ Detach(o, k) PROVE TypeOK'
    BY <2>2 DEF Attach, Detach, TypeOK
  <2>3. CASE ClaimExpires(o) \/ BytesAge(o) \/ OrphanAges(o) \/ RowAges(o)
    BY <2>3 DEF ClaimExpires, BytesAge, OrphanAges, RowAges, OnlyRegistryMoves, TypeOK
  <2> QED BY <1>1, <2>1, <2>2, <2>3 DEF ObjectStep
<1>2. ASSUME NEW r \in Readers, ReaderStep(r) PROVE TypeOK'
  <2> USE DEF OnlyReadersMove
  <2>1. ASSUME NEW o \in Objects, Resolve(r, o) PROVE TypeOK'
    BY <2>1 DEF Resolve, TypeOK
  <2>2. CASE AcquireLease(r)
    BY <2>2, LeftBounds, ArtifactsAssumption DEF AcquireLease, TypeOK
  <2>3. CASE BeginRenewal(r) \/ RenewLease(r)
    BY <2>3, ArtifactsAssumption DEF BeginRenewal, RenewLease, TypeOK
  <2>4. CASE ApplyRenewal(r)
    BY <2>4, LeftBounds, ArtifactsAssumption DEF ApplyRenewal, TypeOK
  <2>5. CASE Close(r)
    BY <2>5, ArtifactsAssumption DEF Close, TypeOK
  <2> QED BY <1>2, <2>1, <2>2, <2>3, <2>4, <2>5 DEF ReaderStep
<1>3. ASSUME NEW c \in Collectors, CollectorStep(c) PROVE TypeOK'
  <2> USE DEF Goes, Done, OnlyRegistryMoves
  <2>1. ASSUME NEW o \in Objects, Observe(c, o) \/ Promote(c, o) \/ Sweep(c, o) PROVE TypeOK'
    <3>1. CASE Observe(c, o)
      BY <3>1 DEF Observe, Listed, TypeOK
    <3>2. CASE Promote(c, o)
      BY <3>2 DEF Promote, Known, TypeOK
    <3>3. CASE Sweep(c, o)
      <4>1. CASE MayClaim(o, FALSE)
        BY <3>3, <4>1 DEF Sweep, ClaimedBy, TypeOK
      <4>2. CASE ~MayClaim(o, FALSE)
        BY <3>3, <4>2 DEF Sweep, TypeOK
      <4> QED BY <4>1, <4>2
    <3> QED BY <2>1, <3>1, <3>2, <3>3
  <2>2. CASE Start(c) \/ NextPass(c)
    BY <2>2 DEF Start, NextPass, Stored, Quarantined, Collectable, OldEnough, TypeOK
  <2>3. CASE Inspect(c) \/ InspectFails(c)
    BY <2>3 DEF Inspect, InspectFails, TypeOK
  <2>4. CASE Register(c)
    BY <2>4 DEF Register, TypeOK
  <2>5. CASE Reap(c)
    <3>1. CASE MayClaim(at[c], TRUE)
      BY <2>5, <3>1 DEF Reap, ClaimedBy, TypeOK
    <3>2. CASE ~MayClaim(at[c], TRUE)
      BY <2>5, <3>2 DEF Reap, TypeOK
    <3> QED BY <3>1, <3>2
  <2>6. CASE Delete(c) \/ DeleteFails(c)
    BY <2>6 DEF Delete, DeleteFails, TypeOK
  <2>7. CASE Finish(c)
    <3>1. CASE Finishes(c)
      <4>1. at[c] \in Objects
        BY <2>7 DEF Finish, TypeOK
      <4>2. /\ row' = [row EXCEPT ![at[c]] = "deleted"] /\ token' = [token EXCEPT ![at[c]] = Nobody]
            /\ claimed' = claimed \ {at[c]}
            /\ \/ Goes(c, "forget", at[c]) \/ Goes(c, "sweep", Nobody) \/ Goes(c, "promote", Nobody)
        BY <2>7, <3>1 DEF Finish
      <4>3. UNCHANGED <<bytes, late, doomed, bound, orphan, owner, grace, writer, readers, todo>>
        BY <2>7, <3>1 DEF Finish
      <4> QED BY <4>1, <4>2, <4>3 DEF TypeOK
    <3>2. CASE ~Finishes(c)
      BY <2>7, <3>2 DEF Finish, TypeOK
    <3> QED BY <3>1, <3>2
  <2>8. CASE Forget(c) \/ Ends(c) \/ Stops(c)
    BY <2>8 DEF Forget, Ends, Stops, GivesUpOwner, TypeOK
  <2> QED BY <1>3, <2>1, <2>2, <2>3, <2>4, <2>5, <2>6, <2>7, <2>8 DEF CollectorStep, Works
<1>4. CASE Tick
  BY <1>4, DownBounds, ArtifactsAssumption DEF Tick, OnlyReadersMove, TypeOK
<1>5. CASE OwnerExpires
  BY <1>5 DEF OwnerExpires, TypeOK
<1>6. CASE UNCHANGED vars
  BY <1>6 DEF vars, TypeOK
<1> QED BY <1>1, <1>2, <1>3, <1>4, <1>5, <1>6 DEF Next

(* Every variable keeps its type; a reader that is not idle and a collector *)
(* in the middle of an object have an object.                              *)
THEOREM TypeCorrect == Spec => []TypeOK
<1>1. TypeOK /\ [Next]_vars => TypeOK'
  BY TypeStep
<1> QED BY <1>1, TypeInit, PTL DEF Spec

----------------------------------------------------------------------------
(* What is being collected: the row says so for ever.                      *)
Gone(o) == row[o] \in {"deleting", "deleted"}

(* Bytes are deleted only when the row is gone, and a row that is not has  *)
(* its bytes: from the put to the claim.                                   *)
BytesInv == \A o \in Objects :
    /\ o \in doomed => Gone(o)
    /\ bound[o] # {} => row[o] = "ready"
    /\ row[o] = "ready" => o \in bytes
    /\ row[o] = "none" /\ writer[o] = "put" => o \in bytes

ClaimInv == \A c \in Collectors :
    /\ collector[c] \in {"claimed", "reclaimed"} => Gone(at[c])
    /\ collector[c] = "inspected" => row[at[c]] # "none" \/ at[c] \in bytes

(* A live lease, left behind or in use, keeps the row ready; a reader's    *)
(* own deadline, also the one it is about to set, comes before its expiry. *)
LeaseInv == \A r \in Readers :
    /\ lease[r] > 0 => reads[r] \in Objects /\ row[reads[r]] = "ready"
    /\ deadline[r] <= lease[r]
    /\ reader[r] = "renewed" => Margin - elapsed[r] <= lease[r]

(* Rows and observations are no older than the bytes.                      *)
AgeInv == \A o \in Objects :
    /\ writer[o] = "new" => row[o] = "none" /\ orphan[o] = "none" /\ o \notin bytes \cup late
                            /\ \A c \in Collectors : o \notin todo[c]
    /\ o \in young => orphan[o] # "old" /\ o \notin aged /\ ~Gone(o)
    /\ o \in aged => row[o] # "none"

Inv == TypeOK /\ BytesInv /\ ClaimInv /\ LeaseInv /\ AgeInv

(* The invariant holds before anything is stored, ...                      *)
LEMMA InvInit == ASSUME Init PROVE Inv
<1>1. TypeOK
  BY TypeInit
<1> QED BY <1>1, ArtifactsAssumption DEF Init, Inv, BytesInv, ClaimInv, LeaseInv, AgeInv, Gone

(* Steps of an object other than those of its references.                  *)
LEMMA ObjectStepInv == ASSUME Inv, NEW o \in Objects, ObjectStep(o), TypeOK' PROVE Inv'
<1> USE DEF provider, registry, discovery, grace, readers, collectors
<1>1. CASE Put(o)
  BY <1>1 DEF Put, Inv, TypeOK, BytesInv, ClaimInv, LeaseInv, AgeInv, Gone
<1>2. CASE LandPut(o)
  BY <1>2 DEF LandPut, Inv, TypeOK, BytesInv, ClaimInv, LeaseInv, AgeInv, Gone
<1>3. CASE LandDelete(o)
  BY <1>3 DEF LandDelete, Inv, TypeOK, BytesInv, ClaimInv, LeaseInv, AgeInv, Gone
<1>4. CASE WriterEnds(o)
  BY <1>4 DEF WriterEnds, Inv, TypeOK, BytesInv, ClaimInv, LeaseInv, AgeInv, Gone
<1>5. ASSUME NEW k \in Kinds, Attach(o, k) PROVE Inv'
  BY <1>5 DEF Attach, Registers, Inv, TypeOK, BytesInv, ClaimInv, LeaseInv, AgeInv, Gone
<1>6. ASSUME NEW k \in Kinds, Detach(o, k) PROVE Inv'
  BY <1>6 DEF Detach, Inv, TypeOK, BytesInv, ClaimInv, LeaseInv, AgeInv, Gone
<1>7. CASE ClaimExpires(o)
  BY <1>7 DEF ClaimExpires, OnlyRegistryMoves, Inv, TypeOK, BytesInv, ClaimInv, LeaseInv, AgeInv, Gone
<1>8. CASE BytesAge(o) \/ OrphanAges(o) \/ RowAges(o)
  BY <1>8 DEF BytesAge, OrphanAges, RowAges, Inv, TypeOK, BytesInv, ClaimInv, LeaseInv, AgeInv, Gone
<1> QED BY <1>1, <1>2, <1>3, <1>4, <1>5, <1>6, <1>7, <1>8 DEF ObjectStep

(* Readers change their own columns only.                                  *)
LEMMA ReaderStepInv ==
  ASSUME Inv, TypeOK', OnlyReadersMove, LeaseInv' PROVE Inv'
BY DEF OnlyReadersMove, provider, registry, discovery, grace, collectors,
       Inv, BytesInv, ClaimInv, AgeInv, Gone

(* A reader's own deadline never outlives the lease the row's lock granted. *)
LEMMA ReaderLeases == ASSUME Inv, NEW r \in Readers, ReaderStep(r), TypeOK' PROVE LeaseInv'
<1> USE ArtifactsAssumption DEF OnlyReadersMove, registry
<1>1. ASSUME NEW o \in Objects, Resolve(r, o) PROVE LeaseInv'
  BY <1>1 DEF Resolve, Inv, TypeOK, LeaseInv
<1>2. CASE AcquireLease(r)
  BY <1>2 DEF AcquireLease, Left, Inv, TypeOK, LeaseInv
<1>3. CASE BeginRenewal(r)
  BY <1>3 DEF BeginRenewal, Inv, TypeOK, LeaseInv
<1>4. CASE RenewLease(r)
  BY <1>4 DEF RenewLease, Inv, TypeOK, LeaseInv
<1>5. CASE ApplyRenewal(r)
  BY <1>5 DEF ApplyRenewal, Left, Inv, TypeOK, LeaseInv
<1>6. CASE Close(r)
  BY <1>6 DEF Close, Inv, TypeOK, LeaseInv
<1> QED BY <1>1, <1>2, <1>3, <1>4, <1>5, <1>6 DEF ReaderStep

(* Lease and deadline run down together.                                   *)
LEMMA TickLeases == ASSUME Inv, Tick PROVE LeaseInv'
BY ArtifactsAssumption DEF Tick, Down, Timed, OnlyReadersMove, registry, Inv, TypeOK, LeaseInv

(* Collectors: a claim is the only step that makes an object unreadable,   *)
(* and what it requires, under the row's lock, is what the others rely on. *)
LEMMA CollectorStepInv == ASSUME Inv, NEW c \in Collectors, CollectorStep(c), TypeOK' PROVE Inv'
<1> USE DEF provider, registry, discovery, grace, readers, Goes, Done, OnlyRegistryMoves
<1>1. ASSUME NEW o \in Objects, Observe(c, o) PROVE Inv'
  BY <1>1 DEF Observe, Listed, Inv, TypeOK, BytesInv, ClaimInv, LeaseInv, AgeInv, Gone
<1>2. ASSUME NEW o \in Objects, Promote(c, o) PROVE Inv'
  BY <1>2 DEF Promote, Known, Inv, TypeOK, BytesInv, ClaimInv, LeaseInv, AgeInv, Gone
<1>3. ASSUME NEW o \in Objects, ClaimedBy(c, o), MayClaim(o, TRUE) \/ MayClaim(o, FALSE),
             Goes(c, "claimed", o) \/ Goes(c, "reclaimed", o),
             todo' \in {todo, [todo EXCEPT ![c] = @ \ {o}]}, OnlyRegistryMoves
      PROVE  Inv'
  <2>1. /\ bound[o] = {} /\ row[o] # "none" /\ o \in aged
        /\ \A r \in Readers : ~(reads[r] = o /\ lease[r] > 0)
    BY <1>3 DEF MayClaim, Free, Leased, OldEnough
  <2>2. /\ row' = [row EXCEPT ![o] = "deleting"]
        /\ UNCHANGED <<bytes, late, doomed, bound, orphan, young, aged, writer, reader, reads, lease, deadline, elapsed>>
    BY <1>3 DEF ClaimedBy
  <2>3. BytesInv'
    BY <2>1, <2>2 DEF Inv, TypeOK, BytesInv, Gone
  <2>4. ClaimInv'
    BY <1>3, <2>2 DEF Inv, TypeOK, ClaimInv, Gone
  <2>5. LeaseInv'
    BY <2>1, <2>2 DEF Inv, TypeOK, LeaseInv
  <2>6. AgeInv'
    BY <1>3, <2>1, <2>2 DEF Inv, TypeOK, AgeInv, Gone
  <2> QED BY <2>3, <2>4, <2>5, <2>6 DEF Inv
<1>4. ASSUME NEW o \in Objects, Sweep(c, o) PROVE Inv'
  <2>1. CASE MayClaim(o, FALSE)
    BY <1>4, <2>1, <1>3 DEF Sweep
  <2>2. CASE ~MayClaim(o, FALSE)
    BY <1>4, <2>2 DEF Sweep, Inv, TypeOK, BytesInv, ClaimInv, LeaseInv, AgeInv, Gone
  <2> QED BY <2>1, <2>2
<1>5. CASE Reap(c)
  <2>1. CASE MayClaim(at[c], TRUE)
    <3>1. at[c] \in Objects
      BY <1>5 DEF Reap, Inv, TypeOK
    <3> QED BY <1>5, <2>1, <3>1, <1>3 DEF Reap
  <2>2. CASE ~MayClaim(at[c], TRUE)
    BY <1>5, <2>2 DEF Reap, Inv, TypeOK, BytesInv, ClaimInv, LeaseInv, AgeInv, Gone
  <2> QED BY <2>1, <2>2
<1>6. CASE Start(c) \/ NextPass(c)
  BY <1>6 DEF Start, NextPass, Stored, Quarantined, Collectable, OldEnough,
              Inv, TypeOK, BytesInv, ClaimInv, LeaseInv, AgeInv, Gone
<1>7. CASE Inspect(c) \/ InspectFails(c)
  BY <1>7 DEF Inspect, InspectFails, Inv, TypeOK, BytesInv, ClaimInv, LeaseInv, AgeInv, Gone
<1>8. CASE Register(c)
  BY <1>8 DEF Register, Unknown, Inv, TypeOK, BytesInv, ClaimInv, LeaseInv, AgeInv, Gone
<1>9. CASE Delete(c)
  BY <1>9 DEF Delete, Inv, TypeOK, BytesInv, ClaimInv, LeaseInv, AgeInv, Gone
<1>10. CASE DeleteFails(c)
  BY <1>10 DEF DeleteFails, Inv, TypeOK, BytesInv, ClaimInv, LeaseInv, AgeInv, Gone
<1>11. CASE Finish(c)
  <2>1. CASE Finishes(c)
    <3>1. at[c] \in Objects /\ row[at[c]] = "deleting"
      BY <1>11, <2>1 DEF Finish, Finishes, Inv, TypeOK
    <3>2. /\ row' = [row EXCEPT ![at[c]] = "deleted"] /\ claimed' = claimed \ {at[c]}
          /\ UNCHANGED <<bytes, late, doomed, bound, young, aged, writer, reader, reads, lease, deadline, elapsed>>
      BY <1>11, <2>1 DEF Finish
    <3>3. LeaseInv'
      BY <3>1, <3>2 DEF Inv, TypeOK, LeaseInv
    <3>4. UNCHANGED <<orphan, todo>> /\ at[c] \notin young /\ writer[at[c]] # "new"
      BY <1>11, <3>1 DEF Finish, Inv, TypeOK, AgeInv, Gone
    <3>5. AgeInv'
      BY <3>1, <3>2, <3>4 DEF Inv, TypeOK, AgeInv, Gone
    <3>6. BytesInv'
      BY <3>1, <3>2 DEF Inv, TypeOK, BytesInv, Gone
    <3>7. ClaimInv'
      BY <1>11, <2>1, <3>1, <3>2 DEF Finish, Inv, TypeOK, ClaimInv, Gone
    <3> QED BY <3>3, <3>5, <3>6, <3>7 DEF Inv
  <2>2. CASE ~Finishes(c)
    BY <1>11, <2>2 DEF Finish, Inv, TypeOK, BytesInv, ClaimInv, LeaseInv, AgeInv, Gone
  <2> QED BY <2>1, <2>2
<1>12. CASE Forget(c) \/ Ends(c) \/ Stops(c)
  BY <1>12 DEF Forget, Ends, Stops, Inv, TypeOK, BytesInv, ClaimInv, LeaseInv, AgeInv, Gone
<1> QED BY <1>1, <1>2, <1>4, <1>5, <1>6, <1>7, <1>8, <1>9, <1>10, <1>11, <1>12 DEF CollectorStep, Works

(* ... and is kept by every step of the system.                            *)
LEMMA InvStep == ASSUME Inv, [Next]_vars PROVE Inv'
<1>1. TypeOK'
  BY TypeStep DEF Inv
<1>2. ASSUME NEW o \in Objects, ObjectStep(o) PROVE Inv'
  BY <1>1, <1>2, ObjectStepInv
<1>3. ASSUME NEW r \in Readers, ReaderStep(r) PROVE Inv'
  <2>1. OnlyReadersMove
    BY <1>3 DEF ReaderStep, Resolve, AcquireLease, BeginRenewal, RenewLease, ApplyRenewal, Close
  <2> QED BY <1>1, <1>3, <2>1, ReaderLeases, ReaderStepInv
<1>4. CASE Tick
  BY <1>1, <1>4, TickLeases, ReaderStepInv DEF Tick
<1>5. ASSUME NEW c \in Collectors, CollectorStep(c) PROVE Inv'
  BY <1>1, <1>5, CollectorStepInv
<1>6. CASE OwnerExpires
  BY <1>1, <1>6 DEF OwnerExpires, provider, registry, grace, readers, collectors,
                    Inv, BytesInv, ClaimInv, LeaseInv, AgeInv, Gone
<1>7. CASE UNCHANGED vars
  BY <1>1, <1>7 DEF vars, provider, registry, discovery, grace, readers, collectors,
                    Inv, BytesInv, ClaimInv, LeaseInv, AgeInv, Gone
<1> QED BY <1>2, <1>3, <1>4, <1>5, <1>6, <1>7 DEF Next

(* So it holds whenever a transaction or a provider looks.                 *)
THEOREM Invariance == Spec => []Inv
BY InvInit, InvStep, PTL DEF Spec

----------------------------------------------------------------------------
(* What is bound can be read and no earlier deletion will reach it.        *)
THEOREM ReferencesAreReadable == Spec => []BoundBytesKept
<1>1. Inv => BoundBytesKept
  BY DEF Inv, BytesInv, BoundBytesKept, Gone
<1> QED BY <1>1, Invariance, PTL

(* A reader that passes its own check streams bytes that are still there.  *)
THEOREM StreamsAreComplete == Spec => []ReadersProtected
<1>1. Inv => ReadersProtected
  BY DEF Inv, TypeOK, BytesInv, LeaseInv, ReadersProtected, MayRead
<1> QED BY <1>1, Invariance, PTL

(* A put within its grace period is neither deleted nor refused.           *)
THEOREM UploadsSurvive == Spec => []UploadsProtected
<1>1. Inv => UploadsProtected
  BY DEF Inv, TypeOK, BytesInv, AgeInv, UploadsProtected, Gone
<1> QED BY <1>1, Invariance, PTL

(* No step of writers, readers or collectors makes a tombstone readable.   *)
THEOREM TombstonesAreFinal == Spec => TombstonesStay
<1>1. ASSUME TypeOK, [Next]_vars, NEW o \in Objects, Gone(o) PROVE Gone(o)'
  <2> USE <1>1 DEF Gone, TypeOK, provider, registry, discovery, readers, grace
  <2>1. ASSUME NEW x \in Objects, ObjectStep(x) PROVE Gone(o)'
    BY <2>1 DEF ObjectStep, Put, LandPut, LandDelete, WriterEnds, Attach, Registers, Detach,
                ClaimExpires, OnlyRegistryMoves, BytesAge, OrphanAges, RowAges
  <2>2. ASSUME NEW r \in Readers, ReaderStep(r) PROVE Gone(o)'
    BY <2>2 DEF ReaderStep, Resolve, AcquireLease, BeginRenewal, RenewLease, ApplyRenewal, Close,
                OnlyReadersMove
  <2>3. ASSUME NEW c \in Collectors, CollectorStep(c) PROVE Gone(o)'
    <3>1. CASE Register(c)
      BY <3>1 DEF Register, Unknown
    <3>2. ASSUME NEW x \in Objects, Observe(c, x) \/ Promote(c, x) PROVE Gone(o)'
      BY <3>2 DEF Observe, Promote
    <3>3. ASSUME NEW x \in Objects, Sweep(c, x) PROVE Gone(o)'
      BY <3>3 DEF Sweep, ClaimedBy
    <3>4. CASE Reap(c)
      BY <3>4 DEF Reap, ClaimedBy
    <3>5. CASE Finish(c)
      BY <3>5 DEF Finish
    <3>6. CASE Start(c) \/ NextPass(c) \/ Inspect(c) \/ Forget(c) \/ Ends(c)
      BY <3>6 DEF Start, NextPass, Inspect, Forget, Ends
    <3>7. CASE Delete(c) \/ InspectFails(c) \/ DeleteFails(c) \/ Stops(c)
      BY <3>7 DEF Delete, InspectFails, DeleteFails, Stops
    <3> QED BY <2>3, <3>1, <3>2, <3>3, <3>4, <3>5, <3>6, <3>7 DEF CollectorStep, Works
  <2>4. CASE Tick \/ OwnerExpires \/ UNCHANGED vars
    BY <2>4 DEF Tick, OnlyReadersMove, OwnerExpires, vars
  <2> QED BY <2>1, <2>2, <2>3, <2>4 DEF Next
<1>2. TypeOK /\ [Next]_vars => [\A o \in Objects : row[o] \in {"deleting", "deleted"} =>
                                            row'[o] \in {"deleting", "deleted"}]_vars
  BY <1>1 DEF Gone
<1> QED BY <1>2, TypeCorrect, PTL DEF Spec, TombstonesStay

=============================================================================
