------------------------- MODULE GenerationsProofs -------------------------
(* Proofs about Generations, for any number of work items, of attempts at each  *)
(* and of batches.                                                              *)
EXTENDS Generations, TLAPS

(* A generation is a pair of an item and one of its fences.                     *)
LEMMA GenFacts ==
  /\ NoGen \notin Gens
  /\ \A g \in Gens : Item(g) \in Works /\ g[2] \in Nat /\ g[2] >= 1 /\ g[2] <= MaxFence[Item(g)]
  /\ \A g, h \in Gens : Item(g) = Item(h) /\ g[2] = h[2] => g = h
  /\ \A w \in Works : \A f \in 1 .. MaxFence[w] :
        <<w, f>> \in Gens /\ Item(<<w, f>>) = w /\ <<w, f>>[2] = f
<1>1. \A w \in Works : MaxFence[w] \in Nat
  BY BoundsAssumption
<1>2. \A g \in Gens : \E w \in Works : \E f \in 1 .. MaxFence[w] : g = <<w, f>>
  BY DEF Gens
<1>3. \A w \in Works : \A f \in 1 .. MaxFence[w] :
        <<w, f>> \in Gens /\ Item(<<w, f>>) = w /\ <<w, f>>[2] = f
  BY DEF Gens, Item
<1>4. NoGen \notin Gens
  BY <1>1, <1>2, NoGenAssumption
<1>5. \A g \in Gens : /\ g = <<Item(g), g[2]>>
                      /\ Item(g) \in Works /\ g[2] \in 1 .. MaxFence[Item(g)]
  BY <1>2 DEF Item
<1> QED  BY <1>1, <1>3, <1>4, <1>5

Statuses == {"none", "queued", "running", "succeeded", "failed", "cancelled"}
Phases == {"none"} \cup Candidates \cup {"active"} \cup Disused
Threads == {"none", "over", "silent"} \cup Working \cup Ended

(* Every column, pointer and thread keeps its type.                             *)
THEOREM TypeCorrect == Spec => []TypeOK
<1>1. Init => TypeOK
  <2> SUFFICES ASSUME Init PROVE TypeOK
    OBVIOUS
  <2>1. flag \in [Works -> BOOLEAN] /\ cleaned \in [Gens -> BOOLEAN]
    BY Zenon DEF Init
  <2>2. stored \in [Gens -> SUBSET Points] /\ tombstones \in SUBSET Gens /\ listed \in SUBSET Gens
    BY DEF Init
  <2>3. written \in [Gens -> 0 .. Batches] /\ fence \in [Works -> Nat]
    BY BoundsAssumption DEF Init
  <2> QED  BY <2>1, <2>2, <2>3 DEF Init, TypeOK, Busy
<1>2. TypeOK /\ [Next]_vars => TypeOK'
  <2> SUFFICES ASSUME TypeOK, [Next]_vars PROVE TypeOK'
    OBVIOUS
  <2> USE DEF TypeOK, work, document, generations, threads
  <2>1. ASSUME NEW w \in Works, Admit(w) PROVE TypeOK'
    BY <2>1 DEF Admit, Captures, Base, Busy
  <2>2. CASE CancelUpdate \/ SoftDelete \/ Purge
    BY <2>2 DEF CancelUpdate, SoftDelete, Purge, Settled, Flagged, Interrupted, Candidates, Disused, Retained
  <2>3. CASE Restore \/ DeleteBytes
    BY <2>3 DEF Restore, DeleteBytes
  <2>4. ASSUME NEW w \in Works, Claim(w) \/ Reclaim(w) PROVE TypeOK'
    <3>1. Takes(w)
      BY <2>4 DEF Claim, Reclaim
    <3>2. fence' \in [Works -> Nat] /\ status' \in [Works -> Statuses]
      BY <3>1 DEF Takes, Statuses
    <3>3. thread' \in [Gens -> Threads]
      BY <3>1 DEF Takes, Threads, Working
    <3> QED  BY <3>1, <3>2, <3>3 DEF Takes, Statuses, Threads
  <2>5. ASSUME NEW w \in Works, Settle(w) PROVE TypeOK'
    BY <2>5 DEF Settle
  <2>6. ASSUME NEW g \in Gens, Prepare(g) \/ Recover(g) \/ Checkpoint(g) PROVE TypeOK'
    BY <2>6 DEF Prepare, Recover, Checkpoint, Moves, Working, Candidates, Disused
  <2>7. ASSUME NEW g \in Gens, Start(g) \/ Stop(g) \/ Quit(g) PROVE TypeOK'
    BY <2>7 DEF Start, Stop, Quit, Moves, Working, Ended, Captures, Base, Busy
  <2>8. ASSUME NEW g \in Gens, Index(g) PROVE TypeOK'
    BY <2>8, BoundsAssumption DEF Index, MoreToWrite, Points
  <2>9. ASSUME NEW g \in Gens, MarkReady(g) PROVE TypeOK'
    BY <2>9 DEF MarkReady, Moves, Working, Candidates
  <2>10. ASSUME NEW g \in Gens, Publish(g) PROVE TypeOK'
    BY <2>10, GenFacts DEF Publish, Moves, Disused
  <2>11. ASSUME NEW g \in Gens, NEW o \in Outcomes, Acknowledge(g, o) PROVE TypeOK'
    BY <2>11, GenFacts DEF Acknowledge, Outcomes, Ended
  <2>12. CASE RetireCheckpoint \/ List
    BY <2>12 DEF RetireCheckpoint, List
  <2>13. ASSUME NEW g \in Gens, Clean(g) PROVE TypeOK'
    BY <2>13 DEF Clean
  <2>14. CASE UNCHANGED vars
    BY <2>14 DEF vars
  <2> QED
    BY <2>1, <2>2, <2>3, <2>4, <2>5, <2>6, <2>7, <2>8, <2>9, <2>10, <2>11, <2>12, <2>13, <2>14
       DEF Next, Attempt
<1> QED  BY <1>1, <1>2, PTL DEF Spec

-----------------------------------------------------------------------------
(* The items and what the document says of them.                                *)

(* Only an admitted item can be flagged.                                        *)
Unflagged == \A w \in Works : status[w] = "none" => ~flag[w]
OneLive == \A v, w \in Works : Live(v) /\ Live(w) => v = w
LiveWritable == \A w \in Works : Live(w) => Writable
(* An attempt has one of the fences its item has handed out.                    *)
Fenced == \A g \in Gens : thread[g] # "none" => g[2] <= fence[Item(g)]
(* A handler that has stopped, and whose outcome is still awaited, has said so. *)
StoppedIdle == \A g \in Gens : thread[g] = "stopped" /\ Owns(g) => docStatus \notin Busy

ItemInv == Unflagged /\ OneLive /\ LiveWritable /\ Fenced /\ StoppedIdle /\ NotStranded

LEMMA OneOwner ==
  ASSUME OneLive, NEW g \in Gens, NEW h \in Gens, Owns(g), Owns(h)
  PROVE  g = h
<1>1. Live(Item(g)) /\ Live(Item(h))
  BY DEF Owns, Live, Pending
<1>2. Item(g) = Item(h)
  BY <1>1, GenFacts DEF OneLive
<1> QED  BY <1>2, GenFacts DEF Owns

(* A claim starts one attempt, under a fence no attempt has, and takes          *)
(* ownership from every other.                                                  *)
LEMMA TakesStep ==
  ASSUME TypeOK, Fenced, NEW w \in Works, Claim(w) \/ Reclaim(w)
  PROVE  \E new \in Gens :
           /\ Item(new) = w /\ new[2] = fence'[w] /\ thread[new] = "none"
           /\ thread' = [thread EXCEPT ![new] = "claimed"]
           /\ \A g \in Gens \ {new} : Owns(g)' => Owns(g)
           /\ \A g \in Gens : fence[Item(g)] <= fence'[Item(g)]
           /\ \A v \in Works : Live(v)' <=> Live(v)
           /\ \A v \in Works : status'[v] = "none" => status[v] = "none"
           /\ UNCHANGED <<flag, document, generations, tombstones, stored, written, listed>>
<1>1. Takes(w) /\ status[w] \in Pending
  BY DEF Claim, Reclaim, Pending
<1>2. fence[w] \in Nat /\ fence[w] + 1 \in 1 .. MaxFence[w]
  <2>1. fence[w] \in Nat /\ MaxFence[w] \in Nat
    BY BoundsAssumption DEF TypeOK
  <2>2. fence[w] < MaxFence[w]
    BY <1>1 DEF Takes
  <2> QED  BY <2>1, <2>2
<1>3. PICK new \in Gens : new = <<w, fence[w] + 1>> /\ Item(new) = w /\ new[2] = fence[w] + 1
  BY <1>2, GenFacts
<1>4. /\ status' = [status EXCEPT ![w] = "running"]
      /\ fence' = [fence EXCEPT ![w] = @ + 1]
      /\ thread' = [thread EXCEPT ![new] = "claimed"]
      /\ UNCHANGED <<flag, document, generations, tombstones, stored, written, listed>>
  BY <1>1, <1>3 DEF Takes
<1>5. thread[new] = "none"
  BY <1>2, <1>3 DEF Fenced
<1>6. \A g \in Gens : fence[Item(g)] <= fence'[Item(g)]
  BY <1>4, GenFacts DEF TypeOK
<1>7. ASSUME NEW g \in Gens \ {new}, Owns(g)' PROVE Owns(g)
  <2>1. Item(g) # w
    BY <1>3, <1>4, <1>7, GenFacts DEF Owns, TypeOK
  <2> QED  BY <1>4, <1>7, <2>1, GenFacts DEF Owns, TypeOK
<1>8. \A v \in Works : Live(v)' <=> Live(v)
  BY <1>1, <1>4 DEF Live, Pending, TypeOK
<1>9. new[2] = fence'[w] /\ \A v \in Works : status'[v] = "none" => status[v] = "none"
  BY <1>3, <1>4 DEF TypeOK
<1> QED  BY <1>3, <1>4, <1>5, <1>6, <1>7, <1>8, <1>9

(* Steps that concern neither the items nor the status of the document.         *)
Aside ==
  /\ UNCHANGED <<work, docStatus, exists>>
  /\ trashed' => trashed
  /\ \A g \in Gens : /\ thread'[g] # "none" => thread[g] # "none"
                     /\ thread'[g] = "stopped" => thread[g] = "stopped"
                     /\ thread[g] = "silent" => thread'[g] = "silent"

LEMMA StepsAside ==
  ASSUME TypeOK,
         \/ Restore \/ DeleteBytes \/ RetireCheckpoint \/ List \/ UNCHANGED vars
         \/ \E g \in Gens : \/ Prepare(g) \/ Recover(g) \/ Checkpoint(g) \/ Index(g)
                            \/ MarkReady(g) \/ Quit(g) \/ Clean(g)
  PROVE  Aside
<1> USE DEF Aside, work, document, threads, TypeOK
<1>1. CASE Restore \/ DeleteBytes \/ RetireCheckpoint \/ List \/ UNCHANGED vars
  BY <1>1 DEF Restore, DeleteBytes, RetireCheckpoint, List, vars
<1>2. ASSUME NEW g \in Gens, Prepare(g) \/ Recover(g) \/ Checkpoint(g) \/ MarkReady(g) PROVE Aside
  BY <1>2 DEF Prepare, Recover, Checkpoint, MarkReady, Moves
<1>3. ASSUME NEW g \in Gens, Index(g) \/ Quit(g) \/ Clean(g) PROVE Aside
  BY <1>3 DEF Index, Quit, Clean, Working, Ended
<1> QED  BY <1>1, <1>2, <1>3

(* Requests that give up every pending item.                                    *)
LEMMA StepsWithdraw ==
  ASSUME TypeOK, NotStranded, CancelUpdate \/ SoftDelete \/ Purge
  PROVE  /\ \A w \in Works : ~Live(w)' /\ (status'[w] = "none" => status[w] = "none" /\ flag'[w] = flag[w])
         /\ UNCHANGED <<fence, thread>>
         /\ exists' => docStatus' \notin Busy \/ FailedSilently
<1>1. /\ status' = [w \in Works |-> Settled(w)]
      /\ flag' = [w \in Works |-> Flagged(w)]
      /\ UNCHANGED <<fence, thread>>
  BY DEF CancelUpdate, SoftDelete, Purge, threads
<1>2. \A w \in Works : ~Live(w)' /\ (status'[w] = "none" => status[w] = "none" /\ flag'[w] = flag[w])
  <2> TAKE w \in Works
  <2>1. status'[w] = Settled(w) /\ flag'[w] = Flagged(w)
    BY <1>1
  <2>2. status[w] \in Pending => flag'[w]
    BY <2>1 DEF Flagged
  <2>3. status[w] \notin Pending => status'[w] = status[w] /\ flag'[w] = flag[w]
    <3>1. flag[w] \in BOOLEAN
      BY DEF TypeOK
    <3> QED  BY <2>1, <3>1 DEF Flagged, Settled, Pending
  <2>4. status[w] \in Pending => status'[w] # "none"
    BY <2>1 DEF Settled, Pending
  <2> QED  BY <2>2, <2>3, <2>4, Zenon DEF Live
<1>3. exists' => docStatus' \notin Busy \/ FailedSilently
  <2>1. CASE CancelUpdate \/ Purge
    BY <2>1 DEF CancelUpdate, Purge, Busy
  <2>2. CASE SoftDelete
    BY <2>2 DEF SoftDelete, Writable, Interrupted, NotStranded, Live, Busy
  <2> QED  BY <2>1, <2>2
<1> QED  BY <1>1, <1>2, <1>3

LEMMA ItemInvariant == Spec => []ItemInv
<1>1. Init => ItemInv
  <2> SUFFICES ASSUME Init PROVE ItemInv
    OBVIOUS
  <2>1. \A w \in Works : ~flag[w]
    BY Zenon DEF Init
  <2>2. Live(Upload) /\ \A w \in Works : Live(w) => w = Upload
    BY <2>1, UploadAssumption DEF Init, Live, Pending
  <2>3. \A g \in Gens : thread[g] = "none"
    BY DEF Init
  <2> QED  BY <2>1, <2>2, <2>3, UploadAssumption
           DEF Init, ItemInv, Unflagged, OneLive, LiveWritable, Fenced, StoppedIdle, NotStranded, Writable
<1>2. TypeOK /\ ItemInv /\ [Next]_vars => ItemInv'
  <2> SUFFICES ASSUME TypeOK, ItemInv, [Next]_vars PROVE ItemInv'
    OBVIOUS
  <2> USE DEF ItemInv
  <2>1. ASSUME NEW w \in Works, Admit(w) PROVE ItemInv'
    <3>1. /\ status' = [status EXCEPT ![w] = "queued"] /\ docStatus' = "queued"
          /\ UNCHANGED <<fence, flag, trashed, exists, thread>>
          /\ Writable /\ status[w] = "none"
      BY <2>1 DEF Admit, threads
    <3>2. \A v \in Works : ~Live(v)
      BY <2>1 DEF Admit, Admissible
    <3>3. /\ Live(w)'
          /\ \A v \in Works : Live(v)' => v = w
      BY <3>1, <3>2 DEF Live, Pending, Unflagged, TypeOK
    <3>4. \A g \in Gens : ~Owns(g)'
      <4> TAKE g \in Gens
      <4>1. ~Owns(g)
        BY <3>2, GenFacts DEF Owns, Live, Pending
      <4> QED  BY <3>1, <4>1, GenFacts DEF Owns, TypeOK
    <3>5. Unflagged' /\ Fenced'
      BY <3>1 DEF Unflagged, Fenced, TypeOK
    <3> QED  BY <3>1, <3>3, <3>4, <3>5 DEF OneLive, LiveWritable, StoppedIdle, NotStranded, Writable
  <2>2. CASE CancelUpdate \/ SoftDelete \/ Purge
    <3>1. /\ \A w \in Works : ~Live(w)' /\ (status'[w] = "none" => status[w] = "none" /\ flag'[w] = flag[w])
          /\ UNCHANGED <<fence, thread>>
          /\ exists' => docStatus' \notin Busy \/ FailedSilently
      BY <2>2, StepsWithdraw
    <3>2. \A g \in Gens : ~Owns(g)'
      BY <3>1, GenFacts DEF Owns, Live, Pending
    <3>3. Unflagged' /\ Fenced'
      BY <3>1 DEF Unflagged, Fenced
    <3> QED  BY <3>1, <3>2, <3>3 DEF OneLive, LiveWritable, StoppedIdle, NotStranded, FailedSilently
  <2>3. ASSUME NEW w \in Works, Claim(w) \/ Reclaim(w) PROVE ItemInv'
    <3>1. PICK new \in Gens :
           /\ Item(new) = w /\ new[2] = fence'[w] /\ thread[new] = "none"
           /\ thread' = [thread EXCEPT ![new] = "claimed"]
           /\ \A g \in Gens \ {new} : Owns(g)' => Owns(g)
           /\ \A g \in Gens : fence[Item(g)] <= fence'[Item(g)]
           /\ \A v \in Works : Live(v)' <=> Live(v)
           /\ \A v \in Works : status'[v] = "none" => status[v] = "none"
           /\ UNCHANGED <<flag, document, generations, tombstones, stored, written, listed>>
      BY <2>3, TakesStep
    <3>2. Unflagged' /\ OneLive' /\ LiveWritable' /\ NotStranded'
      BY <3>1 DEF Unflagged, OneLive, LiveWritable, NotStranded, FailedSilently, Writable, document, TypeOK
    <3>3. \A g \in Gens \ {new} : thread'[g] = thread[g]
      BY <3>1 DEF TypeOK
    <3>4. thread'[new] = "claimed"
      BY <3>1 DEF TypeOK
    <3>5. Fenced'
      <4> SUFFICES ASSUME NEW g \in Gens, thread'[g] # "none" PROVE g[2] <= fence'[Item(g)]
        BY DEF Fenced
      <4>1. fence[Item(g)] \in Nat /\ fence'[Item(g)] >= fence[Item(g)] /\ g[2] \in Nat /\ new[2] \in Nat
        BY <3>1, GenFacts DEF TypeOK
      <4>2. CASE g = new
        BY <3>1, <4>1, <4>2
      <4>3. CASE g # new
        <5>1. g[2] <= fence[Item(g)]
          BY <3>3, <4>3 DEF Fenced
        <5>2. fence'[Item(g)] \in Nat
          BY <2>3, GenFacts DEF Claim, Reclaim, Takes, TypeOK
        <5> QED  BY <4>1, <5>1, <5>2
      <4> QED  BY <4>2, <4>3
    <3>6. StoppedIdle'
      BY <3>1, <3>3, <3>4 DEF StoppedIdle, document
    <3> QED  BY <3>2, <3>5, <3>6
  <2>4. ASSUME NEW w \in Works, Settle(w) PROVE ItemInv'
    <3>1. /\ status' = [status EXCEPT ![w] = "cancelled"] /\ flag[w]
          /\ UNCHANGED <<fence, flag, document, thread>>
      BY <2>4 DEF Settle, threads
    <3>2. \A v \in Works : (Live(v)' <=> Live(v)) /\ (status'[v] = "none" => status[v] = "none")
      BY <3>1 DEF Live, Pending, TypeOK
    <3>3. \A g \in Gens : Owns(g)' => Owns(g)
      BY <3>1, GenFacts DEF Owns, TypeOK
    <3> QED  BY <3>1, <3>2, <3>3
             DEF Unflagged, OneLive, LiveWritable, NotStranded, FailedSilently, Writable, document, Fenced, StoppedIdle
  <2>5. ASSUME NEW g \in Gens, Start(g) \/ Stop(g) PROVE ItemInv'
    <3>1. /\ UNCHANGED <<work, trashed, exists>>
          /\ Owns(g)
          /\ \/ docStatus' = "processing" /\ thread' = [thread EXCEPT ![g] = "started"] /\ thread[g] = "prepared"
             \/ docStatus' = "halted" /\ thread' = [thread EXCEPT ![g] = "stopped"] /\ thread[g] \in Working
             \/ UNCHANGED docStatus /\ thread' = [thread EXCEPT ![g] = "mute"] /\ thread[g] \in Working
      BY <2>5 DEF Start, Stop, Moves
    <3>2. \A h \in Gens : (thread'[h] # "none" => thread[h] # "none") /\ Owns(h)' = Owns(h)
      BY <3>1 DEF TypeOK, Working, Owns, work
    <3>3. \A v \in Works : Live(v)' <=> Live(v)
      BY <3>1 DEF Live, work
    <3>4. Live(Item(g)) /\ Item(g) \in Works
      BY <3>1, GenFacts DEF Owns, Live, Pending
    <3>5. StoppedIdle'
      BY <3>1, <3>2, OneOwner DEF StoppedIdle, TypeOK, Busy
    <3> QED  BY <3>1, <3>2, <3>3, <3>4, <3>5
             DEF Unflagged, OneLive, LiveWritable, NotStranded, Writable, Fenced, work
  <2>6. ASSUME NEW g \in Gens, Publish(g) PROVE ItemInv'
    <3>1. /\ status' = [status EXCEPT ![Item(g)] = "succeeded"] /\ docStatus' = "done"
          /\ UNCHANGED <<fence, flag, trashed, exists>>
          /\ thread' = [thread EXCEPT ![g] = "over"] /\ thread[g] = "ready"
      BY <2>6 DEF Publish, Moves
    <3>2. \A v \in Works : (Live(v)' => Live(v)) /\ (status'[v] = "none" => status[v] = "none")
      BY <3>1 DEF Live, Pending, TypeOK
    <3>3. \A h \in Gens : thread'[h] # "none" => thread[h] # "none"
      BY <3>1 DEF TypeOK
    <3> QED  BY <3>1, <3>2, <3>3
             DEF Unflagged, OneLive, LiveWritable, NotStranded, Writable, Fenced, StoppedIdle, Busy
  <2>7. ASSUME NEW g \in Gens, NEW o \in Outcomes, Acknowledge(g, o) PROVE ItemInv'
    <3>1. /\ status' = [status EXCEPT ![Item(g)] = o] /\ Owns(g) /\ o \in {"queued", "failed"}
          /\ UNCHANGED <<fence, flag, document>>
          /\ \/ thread' = [thread EXCEPT ![g] = "over"] /\ thread[g] = "stopped"
             \/ thread' = [thread EXCEPT ![g] = "silent"] /\ thread[g] = "mute"
      BY <2>7 DEF Acknowledge, Outcomes, Ended
    <3>2. docStatus \notin Busy \/ \E h \in Gens : thread'[h] = "silent"
      BY <3>1 DEF StoppedIdle, TypeOK
    <3>3. \A v \in Works : (Live(v)' => Live(v)) /\ (status'[v] = "none" => status[v] = "none")
      BY <3>1 DEF Live, Pending, TypeOK, Owns
    <3>4. \A h \in Gens : thread'[h] # "none" => thread[h] # "none"
      BY <3>1 DEF TypeOK
    <3>5. NotStranded'
      BY <3>1, <3>2 DEF NotStranded, FailedSilently, document
    <3>6. StoppedIdle'
      <4>1. \A h \in Gens : thread'[h] = "stopped" => thread[h] = "stopped" /\ h # g
        BY <3>1 DEF TypeOK
      <4>2. \A h \in Gens : h # g => ~Owns(h)
        BY <3>1, OneOwner
      <4>3. \A h \in Gens : Owns(h)' => Owns(h)
        BY <3>1, GenFacts DEF Owns, TypeOK
      <4> QED  BY <4>1, <4>2, <4>3 DEF StoppedIdle
    <3> QED  BY <3>1, <3>3, <3>4, <3>5, <3>6
             DEF Unflagged, OneLive, LiveWritable, Writable, Fenced, document
  <2>8. CASE Aside
    <3>1. \A v \in Works : Live(v)' <=> Live(v)
      BY <2>8 DEF Aside, work, Live
    <3>2. \A h \in Gens : Owns(h)' <=> Owns(h)
      BY <2>8 DEF Aside, work, Owns
    <3> QED  BY <2>8, <3>1, <3>2
             DEF Aside, work, Unflagged, OneLive, LiveWritable, NotStranded, FailedSilently, Writable, Fenced, StoppedIdle
  <2> QED
    BY <2>1, <2>2, <2>3, <2>4, <2>5, <2>6, <2>7, <2>8, StepsAside DEF Next, Attempt
<1> QED  BY <1>1, <1>2, TypeCorrect, PTL DEF Spec

-----------------------------------------------------------------------------
(* The rows of the generations, the two pointers and the outcomes.              *)

Candidacy == \A g \in Gens : phase[g] \in Candidates <=> g = candidate
ActiveRow == /\ active # NoGen => phase[active] = "active"
             /\ \A g \in Gens : phase[g] = "active" => g = active
(* Only an attempt that has prepared has a row.                                 *)
Prepared == \A g \in Gens : phase[g] # "none" => thread[g] \notin {"none", "claimed"}
(* The rows of a document go with it.                                           *)
Gone == ~exists => \A g \in Gens : phase[g] = "none"

RowInv == Candidacy /\ ActiveRow /\ Prepared /\ SuccessIsPublication /\ Gone

(* Steps that leave the rows and the pointers alone, and settle no item as      *)
(* succeeded.                                                                   *)
RowsKept ==
  /\ UNCHANGED <<phase, active, candidate, exists>>
  /\ \A g \in Gens : \/ thread'[g] \notin {"none", "claimed"}
                     \/ thread'[g] = thread[g]
                     \/ thread[g] = "none"
  /\ \A w \in Works : status'[w] = "succeeded" <=> status[w] = "succeeded"

LEMMA StepsKeepingRows ==
  ASSUME TypeOK, Fenced,
         \/ \E w \in Works : Admit(w) \/ Claim(w) \/ Reclaim(w) \/ Settle(w)
         \/ SoftDelete \/ Restore \/ DeleteBytes \/ RetireCheckpoint \/ List \/ UNCHANGED vars
         \/ \E g \in Gens : \/ Recover(g) \/ Start(g) \/ Checkpoint(g) \/ Index(g)
                            \/ Stop(g) \/ Quit(g) \/ Clean(g)
                            \/ \E o \in Outcomes : Acknowledge(g, o)
  PROVE  RowsKept
<1> USE DEF RowsKept, document, generations, threads
<1>1. ASSUME NEW w \in Works, Claim(w) \/ Reclaim(w) PROVE RowsKept
  <2>1. PICK new \in Gens : /\ thread[new] = "none"
                            /\ thread' = [thread EXCEPT ![new] = "claimed"]
                            /\ UNCHANGED <<document, generations>>
    BY <1>1, TakesStep
  <2>2. \A v \in Works : status'[v] = "succeeded" <=> status[v] = "succeeded"
    BY <1>1 DEF Claim, Reclaim, Takes, TypeOK
  <2> QED  BY <2>1, <2>2 DEF TypeOK
<1>2. ASSUME NEW w \in Works, Admit(w) \/ Settle(w) PROVE RowsKept
  BY <1>2 DEF Admit, Settle, TypeOK
<1>3. CASE SoftDelete
  BY <1>3 DEF SoftDelete, Settled, TypeOK
<1>4. CASE Restore \/ DeleteBytes \/ RetireCheckpoint \/ List \/ UNCHANGED vars
  BY <1>4 DEF Restore, DeleteBytes, RetireCheckpoint, List, vars, work
<1>5. ASSUME NEW g \in Gens, Recover(g) \/ Index(g) \/ Clean(g) PROVE RowsKept
  BY <1>5 DEF Recover, Index, Clean, work
<1>6. ASSUME NEW g \in Gens, Start(g) \/ Checkpoint(g) \/ Stop(g) \/ Quit(g) PROVE RowsKept
  BY <1>6 DEF Start, Checkpoint, Stop, Quit, Moves, work, TypeOK
<1>7. ASSUME NEW g \in Gens, NEW o \in Outcomes, Acknowledge(g, o) PROVE RowsKept
  BY <1>7, GenFacts DEF Acknowledge, Owns, Outcomes, TypeOK
<1> QED  BY <1>1, <1>2, <1>3, <1>4, <1>5, <1>6, <1>7

LEMMA RowInvariant == Spec => []RowInv
<1>1. Init => RowInv
  BY GenFacts, UploadAssumption
     DEF Init, RowInv, Candidacy, ActiveRow, Prepared, SuccessIsPublication, Gone, Candidates
<1>2. TypeOK /\ ItemInv /\ RowInv /\ [Next]_vars => RowInv'
  <2> SUFFICES ASSUME TypeOK, ItemInv, RowInv, [Next]_vars PROVE RowInv'
    OBVIOUS
  <2> USE DEF RowInv
  <2>1. ASSUME RowsKept PROVE RowInv'
    BY <2>1 DEF RowsKept, Candidacy, ActiveRow, Prepared, SuccessIsPublication, Gone
  <2>2. ASSUME NEW g \in Gens, Prepare(g) PROVE RowInv'
    <3>1. /\ \A h \in Gens : phase'[h] = IF h = g THEN "preparing"
                                         ELSE IF candidate = h THEN "abandoned" ELSE phase[h]
          /\ candidate' = g /\ exists
          /\ UNCHANGED <<status, exists, active>>
          /\ thread' = [thread EXCEPT ![g] = "prepared"] /\ thread[g] = "claimed"
      BY <2>2 DEF Prepare, Moves, Writable, work, document
    <3>2. phase[g] = "none"
      BY <3>1 DEF Prepared
    <3>3. Candidacy'
      BY <3>1 DEF Candidacy, Candidates
    <3>4. \A h \in Gens : phase'[h] \in {"active", "retired"} <=> phase[h] \in {"active", "retired"}
      BY <3>1, <3>2 DEF Candidacy, Candidates
    <3>5. ActiveRow' /\ SuccessIsPublication'
      BY <3>1, <3>2, <3>4 DEF ActiveRow, SuccessIsPublication, Candidacy, Candidates, TypeOK
    <3>6. Prepared'
      BY <3>1 DEF Prepared, Candidacy, Candidates, TypeOK
    <3> QED  BY <3>1, <3>3, <3>5, <3>6 DEF Gone
  <2>3. ASSUME NEW g \in Gens, MarkReady(g) PROVE RowInv'
    <3>1. /\ \A h \in Gens : phase'[h] = IF h = g THEN "ready" ELSE phase[h]
          /\ phase[g] \in Candidates
          /\ \A h \in Gens : thread'[h] = IF h = g THEN "ready" ELSE thread[h]
          /\ UNCHANGED <<status, exists, active, candidate>>
      BY <2>3 DEF MarkReady, Moves, work, document, TypeOK
    <3> QED  BY <3>1, GenFacts
             DEF Candidacy, ActiveRow, Prepared, SuccessIsPublication, Gone, Candidates, TypeOK
  <2>4. ASSUME NEW g \in Gens, Publish(g) PROVE RowInv'
    <3>1. /\ \A h \in Gens : phase'[h] = IF h = g THEN "active" ELSE IF h = active THEN "retired" ELSE phase[h]
          /\ candidate = g /\ phase[g] = "ready" /\ exists
          /\ active' = g /\ candidate' = NoGen
          /\ \A w \in Works : status'[w] = IF w = Item(g) THEN "succeeded" ELSE status[w]
          /\ \A h \in Gens : thread'[h] = IF h = g THEN "over" ELSE thread[h]
          /\ UNCHANGED exists
      BY <2>4 DEF Publish, Moves, Writable, Current, TypeOK
    <3>2. Candidacy' /\ ActiveRow' /\ Prepared' /\ Gone'
      BY <3>1, GenFacts DEF Candidacy, ActiveRow, Prepared, Gone, Candidates
    <3>3. \A h \in Gens : phase'[h] \in {"active", "retired"} <=> (h = g \/ phase[h] \in {"active", "retired"})
      BY <3>1, GenFacts DEF ActiveRow
    <3>4. SuccessIsPublication'
      BY <3>1, <3>3, GenFacts DEF SuccessIsPublication
    <3> QED  BY <3>2, <3>4
  <2>5. CASE CancelUpdate
    <3>1. /\ \A h \in Gens : phase'[h] = IF candidate = h THEN "abandoned" ELSE phase[h]
          /\ candidate' = NoGen
          /\ \A w \in Works : status'[w] = Settled(w)
          /\ UNCHANGED <<exists, active, thread>> /\ exists
      BY <2>5 DEF CancelUpdate, Writable, threads, document
    <3>2. \A w \in Works : status'[w] = "succeeded" <=> status[w] = "succeeded"
      BY <3>1 DEF Settled
    <3>3. \A h \in Gens : phase'[h] \in {"active", "retired"} <=> phase[h] \in {"active", "retired"}
      BY <3>1 DEF Candidacy, Candidates
    <3>4. Candidacy' /\ ActiveRow' /\ Prepared' /\ Gone'
      BY <3>1, GenFacts DEF Candidacy, ActiveRow, Prepared, Gone, Candidates, TypeOK
    <3>5. SuccessIsPublication'
      BY <3>1, <3>2, <3>3 DEF SuccessIsPublication
    <3> QED  BY <3>4, <3>5
  <2>6. CASE Purge
    <3>1. /\ \A h \in Gens : phase'[h] = "none"
          /\ candidate' = NoGen /\ active' = NoGen /\ ~exists'
      BY <2>6 DEF Purge
    <3> QED  BY <3>1, GenFacts
             DEF Candidacy, ActiveRow, Prepared, SuccessIsPublication, Gone, Candidates
  <2> QED
    BY <2>1, <2>2, <2>3, <2>4, <2>5, <2>6, StepsKeepingRows DEF ItemInv, Next, Attempt
<1> QED  BY <1>1, <1>2, TypeCorrect, ItemInvariant, PTL DEF Spec

-----------------------------------------------------------------------------
(* The points, the checkpoint and the cleanup.                                  *)

Whole == active # NoGen => Verified(active)
(* Only a disused generation is cleaned, and it stays disused.                  *)
Uncleaned == \A g \in Gens : phase[g] \in {"none", "active"} \cup Candidates => ~cleaned[g]
(* What a cleanup has listed cannot come back into use, however old the list.   *)
ListedDisused == \A g \in listed : g # stage /\ (exists => phase[g] \in Disused)
Staged == stage # NoGen => exists /\ phase[stage] # "none" /\ ~cleaned[stage]
(* An attempt that may write points, and every point written, is known by a row *)
(* or by a tombstone.                                                           *)
Known(g) == phase[g] # "none" \/ g \in tombstones
WritersKnown == \A g \in Gens : thread[g] \in Working \ {"claimed"} => Known(g)
PointsKnown == \A g \in Gens : stored[g] # {} => Known(g)

PointInv == Whole /\ Uncleaned /\ ListedDisused /\ Staged /\ WritersKnown /\ PointsKnown

(* Steps that leave everything this invariant is about alone, but for attempts  *)
(* that go on from known ones.                                                  *)
PointsKept ==
  /\ UNCHANGED <<phase, active, cleaned, stage, tombstones, stored, listed, exists>>
  /\ \A g \in Gens : thread'[g] \in Working \ {"claimed"} => thread[g] \in Working \ {"claimed"}

LEMMA StepsKeepingPoints ==
  ASSUME TypeOK, Fenced,
         \/ \E w \in Works : Admit(w) \/ Claim(w) \/ Reclaim(w) \/ Settle(w)
         \/ SoftDelete \/ Restore \/ UNCHANGED vars
         \/ \E g \in Gens : \/ Start(g) \/ Stop(g) \/ Quit(g)
                            \/ \E o \in Outcomes : Acknowledge(g, o)
  PROVE  PointsKept
<1> USE DEF PointsKept, document, generations, threads
<1>1. ASSUME NEW w \in Works, Claim(w) \/ Reclaim(w) PROVE PointsKept
  <2>1. PICK new \in Gens : /\ thread' = [thread EXCEPT ![new] = "claimed"]
                            /\ UNCHANGED <<document, generations, tombstones, stored, written, listed>>
    BY <1>1, TakesStep
  <2> QED  BY <2>1 DEF TypeOK
<1>2. ASSUME NEW w \in Works, Admit(w) \/ Settle(w) PROVE PointsKept
  BY <1>2 DEF Admit, Settle
<1>3. CASE SoftDelete \/ Restore \/ UNCHANGED vars
  BY <1>3 DEF SoftDelete, Restore, vars
<1>4. ASSUME NEW g \in Gens, Start(g) \/ Stop(g) \/ Quit(g) PROVE PointsKept
  BY <1>4 DEF Start, Stop, Quit, Moves, Working, Ended, TypeOK
<1>5. ASSUME NEW g \in Gens, NEW o \in Outcomes, Acknowledge(g, o) PROVE PointsKept
  BY <1>5 DEF Acknowledge, Working, Ended, TypeOK
<1> QED  BY <1>1, <1>2, <1>3, <1>4, <1>5

LEMMA PointInvariant == Spec => []PointInv
<1>1. Init => PointInv
  <2> SUFFICES ASSUME Init PROVE PointInv
    OBVIOUS
  <2>1. \A g \in Gens : ~cleaned[g]
    BY Zenon DEF Init
  <2>2. \A g \in Gens : stored[g] = {} /\ thread[g] = "none"
    BY DEF Init
  <2> QED  BY <2>1, <2>2
           DEF Init, PointInv, Whole, Uncleaned, ListedDisused, Staged, WritersKnown, PointsKnown, Working
<1>2. TypeOK /\ ItemInv /\ RowInv /\ PointInv /\ [Next]_vars => PointInv'
  <2> SUFFICES ASSUME TypeOK, ItemInv, RowInv, PointInv, [Next]_vars PROVE PointInv'
    OBVIOUS
  <2> USE DEF PointInv, RowInv
  <2>1. ASSUME PointsKept PROVE PointInv'
    BY <2>1 DEF PointsKept, Whole, Uncleaned, ListedDisused, Staged, WritersKnown, PointsKnown, Known, Verified
  <2>2. ASSUME NEW g \in Gens, Prepare(g) PROVE PointInv'
    <3>1. /\ \A h \in Gens : phase'[h] = IF h = g THEN "preparing"
                                         ELSE IF candidate = h THEN "abandoned" ELSE phase[h]
          /\ exists /\ thread[g] = "claimed"
          /\ \A h \in Gens \ {g} : thread'[h] = thread[h]
          /\ UNCHANGED <<exists, active, cleaned, stage, tombstones, stored, listed>>
      BY <2>2 DEF Prepare, Moves, Writable, document, TypeOK
    <3>2. phase[g] = "none"
      BY <3>1 DEF Prepared
    <3>3. Whole' /\ PointsKnown' /\ WritersKnown'
      BY <3>1 DEF Whole, PointsKnown, WritersKnown, Known, Verified, Candidacy, Candidates
    <3>4. Uncleaned'
      BY <3>1, <3>2 DEF Uncleaned, Candidates
    <3>5. ListedDisused'
      BY <3>1, <3>2 DEF ListedDisused, Disused, TypeOK
    <3>6. Staged'
      BY <3>1 DEF Staged, TypeOK
    <3> QED  BY <3>3, <3>4, <3>5, <3>6
  <2>3. ASSUME NEW g \in Gens, Recover(g) \/ Checkpoint(g) PROVE PointInv'
    <3>1. /\ phase[g] = "preparing" /\ exists /\ stage' = g
          /\ UNCHANGED <<phase, exists, active, cleaned, tombstones, stored, listed>>
          /\ thread[g] \in {"prepared", "started"}
          /\ \A h \in Gens \ {g} : thread'[h] = thread[h]
      BY <2>3 DEF Recover, Checkpoint, Moves, Writable, document, threads, TypeOK
    <3>2. ~cleaned[g]
      BY <3>1 DEF Uncleaned, Candidates
    <3>3. ListedDisused' /\ Staged'
      BY <3>1, <3>2 DEF ListedDisused, Staged, Disused
    <3>4. Whole' /\ Uncleaned' /\ PointsKnown' /\ WritersKnown'
      BY <3>1 DEF Whole, Uncleaned, PointsKnown, WritersKnown, Known, Verified
    <3> QED  BY <3>3, <3>4
  <2>4. ASSUME NEW g \in Gens, Index(g) PROVE PointInv'
    <3>1. /\ UNCHANGED <<phase, active, cleaned, stage, tombstones, listed, exists, thread>>
          /\ thread[g] = "indexing"
          /\ stored' = [stored EXCEPT ![g] = @ \cup {written[g] + 1}]
          /\ written[g] + 1 \in Points
      <4>1. written[g] \in 0 .. Batches /\ written[g] < Batches /\ Batches \in Nat
        BY <2>4, BoundsAssumption DEF Index, MoreToWrite, TypeOK
      <4> QED  BY <2>4, <4>1 DEF Index, Points, document, generations
    <3>2. Known(g)
      BY <3>1 DEF WritersKnown, Working
    <3>3. \A h \in Gens : Verified(h) => stored'[h] = Points
      BY <3>1 DEF Verified, TypeOK
    <3>4. Whole'
      BY <3>1, <3>3 DEF Whole, Verified, TypeOK
    <3>5. PointsKnown'
      BY <3>1, <3>2 DEF PointsKnown, Known, TypeOK
    <3> QED  BY <3>1, <3>4, <3>5 DEF Uncleaned, ListedDisused, Staged, WritersKnown, Known
  <2>5. ASSUME NEW g \in Gens, MarkReady(g) PROVE PointInv'
    <3>1. /\ \A h \in Gens : phase'[h] = IF h = g THEN "ready" ELSE phase[h]
          /\ phase[g] \in Candidates /\ exists
          /\ \A h \in Gens \ {g} : thread'[h] = thread[h]
          /\ UNCHANGED <<exists, active, cleaned, stage, tombstones, stored, listed>>
      BY <2>5 DEF MarkReady, Moves, Writable, document, TypeOK
    <3>2. Whole' /\ Uncleaned' /\ PointsKnown' /\ WritersKnown'
      BY <3>1 DEF Whole, Uncleaned, PointsKnown, WritersKnown, Known, Verified, Candidates
    <3>3. ListedDisused' /\ Staged'
      BY <3>1 DEF ListedDisused, Staged, Disused, Candidates, TypeOK
    <3> QED  BY <3>2, <3>3
  <2>6. ASSUME NEW g \in Gens, Publish(g) PROVE PointInv'
    <3>1. /\ \A h \in Gens : phase'[h] = IF h = g THEN "active" ELSE IF h = active THEN "retired" ELSE phase[h]
          /\ phase[g] = "ready" /\ exists /\ active' = g /\ Verified(g)
          /\ \A h \in Gens : thread'[h] = IF h = g THEN "over" ELSE thread[h]
          /\ UNCHANGED <<exists, cleaned, stage, tombstones, stored, listed>>
      BY <2>6 DEF Publish, Moves, Writable, TypeOK
    <3>2. Whole' /\ PointsKnown' /\ WritersKnown'
      BY <3>1 DEF Whole, PointsKnown, WritersKnown, Known, Verified, Working
    <3>3. Uncleaned'
      BY <3>1 DEF Uncleaned, Candidates
    <3>4. ListedDisused' /\ Staged'
      BY <3>1 DEF ListedDisused, Staged, Disused, TypeOK
    <3> QED  BY <3>2, <3>3, <3>4
  <2>7. CASE CancelUpdate
    <3>1. /\ \A h \in Gens : phase'[h] = IF candidate = h THEN "abandoned" ELSE phase[h]
          /\ stage' = NoGen
          /\ UNCHANGED <<exists, active, cleaned, tombstones, stored, listed, thread>>
      BY <2>7 DEF CancelUpdate, document, threads
    <3>2. Whole' /\ Uncleaned' /\ PointsKnown' /\ WritersKnown'
      BY <3>1 DEF Whole, Uncleaned, PointsKnown, WritersKnown, Known, Verified, Candidates, Candidacy
    <3>3. ListedDisused' /\ Staged'
      BY <3>1, GenFacts DEF ListedDisused, Staged, Disused, TypeOK
    <3> QED  BY <3>2, <3>3
  <2>8. CASE Purge
    <3>1. /\ \A h \in Gens : phase'[h] = "none"
          /\ \A h \in Gens : cleaned'[h] = FALSE
          /\ stage' = NoGen /\ active' = NoGen /\ ~exists'
          /\ tombstones' = tombstones \cup Retained
          /\ UNCHANGED <<stored, listed, thread>>
      BY <2>8 DEF Purge, threads
    <3>2. \A h \in Gens : Known(h) => Known(h)'
      BY <3>1 DEF Known, Retained
    <3>3. PointsKnown' /\ WritersKnown'
      BY <3>1, <3>2 DEF PointsKnown, WritersKnown
    <3> QED  BY <3>1, <3>3, GenFacts DEF Whole, Uncleaned, ListedDisused, Staged, TypeOK
  <2>9. CASE DeleteBytes
    <3>1. /\ UNCHANGED <<phase, active, cleaned, stage, tombstones, listed, exists, thread>> /\ ~exists
          /\ \A h \in Gens : stored'[h] = {}
      BY <2>9 DEF DeleteBytes, document, generations, threads
    <3>2. active = NoGen
      BY <3>1 DEF Gone, ActiveRow, TypeOK
    <3> QED  BY <3>1, <3>2
             DEF Whole, Uncleaned, ListedDisused, Staged, WritersKnown, PointsKnown, Known
  <2>10. CASE RetireCheckpoint
    <3>1. /\ UNCHANGED <<phase, active, cleaned, tombstones, stored, listed, exists, thread>>
          /\ stage' = NoGen
      BY <2>10 DEF RetireCheckpoint, document, threads
    <3> QED  BY <3>1, GenFacts
             DEF Whole, Uncleaned, ListedDisused, Staged, WritersKnown, PointsKnown, Known, Verified, TypeOK
  <2>11. CASE List
    <3>1. /\ UNCHANGED <<phase, active, cleaned, stage, tombstones, stored, exists, thread>>
          /\ listed' = listed \cup {g \in Gens : Collectable(g)}
      BY <2>11 DEF List, document, generations, threads
    <3> QED  BY <3>1
             DEF Whole, Uncleaned, ListedDisused, Collectable, Staged, WritersKnown, PointsKnown, Known, Verified
  <2>12. ASSUME NEW g \in Gens, Clean(g) PROVE PointInv'
    <3>1. /\ UNCHANGED <<phase, active, stage, tombstones, exists, thread>>
          /\ listed' \subseteq listed /\ g \in listed
          /\ \A h \in Gens : stored'[h] \in {stored[h], {}}
          /\ \A h \in Gens \ {g} : stored'[h] = stored[h] /\ cleaned'[h] = cleaned[h]
          /\ \/ Removable(g)
             \/ UNCHANGED <<stored, cleaned>>
      BY <2>12 DEF Clean, document, threads, TypeOK
    <3>2. CASE UNCHANGED <<stored, cleaned>>
      BY <3>1, <3>2
         DEF Whole, Uncleaned, ListedDisused, Staged, WritersKnown, PointsKnown, Known, Verified
    <3>3. CASE Removable(g)
      <4>1. g # active /\ g # stage /\ phase[g] \in Disused
        BY <3>1, <3>3 DEF Removable, ListedDisused
      <4>2. Whole' /\ Staged'
        BY <3>1, <4>1 DEF Whole, Staged, Verified, TypeOK
      <4>3. Uncleaned'
        BY <3>1, <4>1 DEF Uncleaned, Disused, Candidates
      <4>4. ListedDisused' /\ WritersKnown' /\ PointsKnown'
        BY <3>1 DEF ListedDisused, WritersKnown, PointsKnown, Known
      <4> QED  BY <4>2, <4>3, <4>4
    <3> QED  BY <3>1, <3>2, <3>3
  <2> QED
    BY <2>1, <2>2, <2>3, <2>4, <2>5, <2>6, <2>7, <2>8, <2>9, <2>10, <2>11, <2>12, StepsKeepingPoints
       DEF ItemInv, Next, Attempt
<1> QED  BY <1>1, <1>2, TypeCorrect, ItemInvariant, RowInvariant, PTL DEF Spec

-----------------------------------------------------------------------------
(* At most one item may change the document, and at most one generation is      *)
(* under construction.                                                          *)
THEOREM SingleMutator == Spec => []OneMutator
<1>1. ItemInv /\ RowInv => OneMutator
  BY DEF ItemInv, OneLive, RowInv, Candidacy, OneMutator
<1> QED  BY <1>1, ItemInvariant, RowInvariant, PTL

(* An attempt that owns its item is never refused its document, by the trash or *)
(* by a candidate of somebody else.                                             *)
THEOREM OwnersServed == Spec => []OwnerNotRefused
<1>1. ItemInv => OwnerNotRefused
  <2> SUFFICES ASSUME ItemInv, NEW g \in Gens, Owns(g) PROVE Writable /\ Free(g)
    BY DEF OwnerNotRefused
  <2>1. Live(Item(g)) /\ Item(g) \in Works
    BY GenFacts DEF Owns, Live, Pending
  <2> QED  BY <2>1, GenFacts DEF ItemInv, LiveWritable, OneLive, Free
<1> QED  BY <1>1, ItemInvariant, PTL

(* A document that says it is in processing has an item that will process it.   *)
THEOREM NeverStranded == Spec => []NotStranded
<1>1. ItemInv => NotStranded
  BY DEF ItemInv
<1> QED  BY <1>1, ItemInvariant, PTL

(* Items succeed exactly by publication.                                        *)
THEOREM SuccessPublishes == Spec => []SuccessIsPublication
<1>1. RowInv => SuccessIsPublication
  BY DEF RowInv
<1> QED  BY <1>1, RowInvariant, PTL

(* Readers are shown one generation, with all its points.                       *)
THEOREM ReadersSeeWhole == Spec => []PublishedIsWhole
<1>1. RowInv /\ PointInv => PublishedIsWhole
  BY DEF RowInv, PointInv, ActiveRow, Whole, PublishedIsWhole
<1> QED  BY <1>1, RowInvariant, PointInvariant, PTL

(* Points written by attempts long dead are of generations that searches know   *)
(* to exclude, also after the document was purged.                              *)
THEOREM LateWritesKnown == Spec => []LateWritesExcluded
<1>1. RowInv /\ PointInv => LateWritesExcluded
  BY DEF RowInv, PointInv, ActiveRow, PointsKnown, Known, LateWritesExcluded
<1> QED  BY <1>1, RowInvariant, PointInvariant, PTL

(* A cleanup never removes the generation a checkpoint belongs to.              *)
THEOREM CheckpointSafe == Spec => []CheckpointKept
<1>1. PointInv => CheckpointKept
  BY DEF PointInv, Staged, CheckpointKept
<1> QED  BY <1>1, PointInvariant, PTL

(* The version an update can be cancelled back to is the published one.         *)
THEOREM SnapshotIsCurrent == Spec => []SnapshotCurrent
<1>1. Init => SnapshotCurrent
  BY DEF Init, SnapshotCurrent
<1>2. SnapshotCurrent /\ [Next]_vars => SnapshotCurrent'
  <2> SUFFICES ASSUME SnapshotCurrent, [Next]_vars PROVE SnapshotCurrent'
    OBVIOUS
  <2> USE DEF SnapshotCurrent, document, generations
  <2>1. ASSUME NEW w \in Works, Admit(w) PROVE SnapshotCurrent'
    BY <2>1 DEF Admit, Captures, Base, Writable
  <2>2. ASSUME NEW g \in Gens, Start(g) PROVE SnapshotCurrent'
    BY <2>2 DEF Start, Captures, Base, Writable
  <2>3. CASE CancelUpdate \/ Purge \/ \E g \in Gens : Publish(g)
    BY <2>3 DEF CancelUpdate, Purge, Publish
  <2>4. CASE SoftDelete \/ Restore \/ DeleteBytes \/ RetireCheckpoint \/ List \/ UNCHANGED vars
    BY <2>4 DEF SoftDelete, Restore, DeleteBytes, RetireCheckpoint, List, vars
  <2>5. ASSUME NEW w \in Works, Claim(w) \/ Reclaim(w) \/ Settle(w) PROVE SnapshotCurrent'
    BY <2>5 DEF Claim, Reclaim, Takes, Settle
  <2>6. ASSUME NEW g \in Gens, Prepare(g) \/ Recover(g) \/ Checkpoint(g) \/ Index(g) \/ MarkReady(g)
        PROVE  SnapshotCurrent'
    BY <2>6 DEF Prepare, Recover, Checkpoint, Index, MarkReady
  <2>7. ASSUME NEW g \in Gens, Stop(g) \/ Quit(g) \/ Clean(g) \/ \E o \in Outcomes : Acknowledge(g, o)
        PROVE  SnapshotCurrent'
    BY <2>7 DEF Stop, Quit, Clean, Acknowledge
  <2> QED  BY <2>1, <2>2, <2>3, <2>4, <2>5, <2>6, <2>7 DEF Next, Attempt
<1> QED  BY <1>1, <1>2, PTL DEF Spec

(* A publication is of live work, and retires what was published before it.     *)
THEOREM PublicationIsLive == Spec => PublishesLiveWork
<1>1. TypeOK /\ TypeOK' /\ ItemInv /\ [Next]_vars =>
        [active' # active =>
           \/ active' # NoGen /\ Live(Item(active')) /\ (active # NoGen => phase'[active] = "retired")
           \/ active' = NoGen /\ ~exists']_vars
  <2> SUFFICES ASSUME TypeOK, ItemInv, Next, active' # active
               PROVE  \/ active' # NoGen /\ Live(Item(active')) /\ (active # NoGen => phase'[active] = "retired")
                      \/ active' = NoGen /\ ~exists'
    BY DEF vars
  <2>1. CASE Purge
    BY <2>1 DEF Purge
  <2>2. ASSUME NEW g \in Gens, Publish(g)
        PROVE  active' # NoGen /\ Live(Item(active')) /\ (active # NoGen => phase'[active] = "retired")
    <3>1. active' = g /\ Owns(g) /\ active # g
      BY <2>2 DEF Publish
    <3>2. active # NoGen => phase'[active] = "retired"
      BY <2>2, <3>1 DEF Publish, TypeOK
    <3> QED  BY <3>1, <3>2, GenFacts DEF Owns, Live, Pending
  <2>3. Purge \/ \E g \in Gens : Publish(g)
    <3>1. ASSUME NEW g \in Gens, Prepare(g) PROVE active' = active
      BY <3>1 DEF Prepare
    <3>2. ASSUME NEW g \in Gens, MarkReady(g) PROVE active' = active
      BY <3>2 DEF MarkReady
    <3>3. CASE CancelUpdate
      BY <3>3 DEF CancelUpdate
    <3>4. RowsKept => active' = active
      BY DEF RowsKept
    <3> QED  BY <3>1, <3>2, <3>3, <3>4, StepsKeepingRows DEF ItemInv, Next, Attempt
  <2> QED  BY <2>1, <2>2, <2>3
<1> QED  BY <1>1, TypeCorrect, ItemInvariant, PTL DEF Spec, PublishesLiveWork

-----------------------------------------------------------------------------
(* Generations implements DocumentPromise.                                      *)

(* A queued item was not withdrawn: a withdrawal settles it at once.            *)
QueuedLive == \A w \in Works : status[w] = "queued" => ~flag[w]

LEMMA QueuedInvariant == Spec => []QueuedLive
<1>1. Init => QueuedLive
  <2> SUFFICES ASSUME Init PROVE QueuedLive
    OBVIOUS
  <2>1. \A w \in Works : ~flag[w]
    BY Zenon DEF Init
  <2> QED  BY <2>1 DEF QueuedLive
<1>2. TypeOK /\ ItemInv /\ QueuedLive /\ [Next]_vars => QueuedLive'
  <2> SUFFICES ASSUME TypeOK, ItemInv, QueuedLive, [Next]_vars PROVE QueuedLive'
    OBVIOUS
  <2> USE DEF QueuedLive
  <2>1. ASSUME NEW w \in Works, Admit(w) PROVE QueuedLive'
    <3>1. status' = [status EXCEPT ![w] = "queued"] /\ flag' = flag /\ status[w] = "none"
      BY <2>1 DEF Admit
    <3> QED  BY <3>1 DEF ItemInv, Unflagged, TypeOK
  <2>2. CASE CancelUpdate \/ SoftDelete \/ Purge
    <3>1. \A w \in Works : status'[w] = Settled(w)
      BY <2>2 DEF CancelUpdate, SoftDelete, Purge
    <3> QED  BY <3>1 DEF Settled, TypeOK
  <2>3. ASSUME NEW w \in Works, Claim(w) \/ Reclaim(w) \/ Settle(w) PROVE QueuedLive'
    <3>1. flag' = flag /\ (status' = [status EXCEPT ![w] = "running"] \/ status' = [status EXCEPT ![w] = "cancelled"])
      BY <2>3 DEF Claim, Reclaim, Takes, Settle
    <3> QED  BY <3>1 DEF TypeOK
  <2>4. ASSUME NEW g \in Gens, \/ Start(g) \/ Stop(g) \/ Publish(g)
                                \/ \E o \in Outcomes : Acknowledge(g, o)
        PROVE  QueuedLive'
    <3>1. flag' = flag /\ Owns(g) /\ \E o \in {"running", "succeeded", "failed", "queued"} :
                                      status' = [status EXCEPT ![Item(g)] = o] \/ status' = status
      BY <2>4 DEF Start, Stop, Publish, Acknowledge, Outcomes, work
    <3> QED  BY <3>1, GenFacts DEF Owns, TypeOK
  <2>5. CASE Aside
    BY <2>5 DEF Aside, work
  <2> QED  BY <2>1, <2>2, <2>3, <2>4, <2>5, StepsAside DEF Next, Attempt
<1> QED  BY <1>1, <1>2, TypeCorrect, ItemInvariant, PTL DEF Spec

(* What a step shows of itself outside: nothing, unless it is one of the        *)
(* promise.                                                                     *)
Unnoticed == UNCHANGED <<Requests, GivenUp, Shown, exists>>

LEMMA RequestsUntouched ==
  ASSUME UNCHANGED <<status, flag, active, exists>>
  PROVE  Unnoticed
BY DEF Unnoticed, Requests, Request, GivenUp, Shown

LEMMA InHandIsLive ==
  ASSUME TypeOK, NEW w \in Works
  PROVE  (Requests[w] = "open" /\ w \notin GivenUp) <=> Live(w)
BY DEF Requests, Request, GivenUp, Live, Pending, TypeOK

(* A withdrawal is of the one item that is live, or of none.                    *)
LEMMA WithdrawsOne ==
  ASSUME TypeOK, ItemInv, QueuedLive, UNCHANGED <<Shown, exists>>,
         status' = [w \in Works |-> Settled(w)],
         flag' = [w \in Works |-> Flagged(w)]
  PROVE  Unnoticed \/ \E w \in Works : Document!GiveUp(w)
<1>1. ASSUME NEW w \in Works, ~Live(w)
      PROVE  status'[w] = status[w] /\ flag'[w] = flag[w]
  <2>1. flag[w] \in BOOLEAN
    BY DEF TypeOK
  <2>2. status[w] # "queued"
    BY <1>1 DEF QueuedLive, Live, Pending
  <2>3. status[w] \in Pending => flag[w]
    BY <1>1 DEF Live
  <2> QED  BY <2>1, <2>2, <2>3 DEF Settled, Flagged
<1>2. CASE \A w \in Works : ~Live(w)
  <2>1. Requests' = Requests
    BY <1>1, <1>2 DEF Requests, Request
  <2>2. GivenUp' = GivenUp
    BY <1>1, <1>2 DEF GivenUp
  <2> QED  BY <2>1, <2>2 DEF Unnoticed
<1>3. ASSUME NEW w \in Works, Live(w) PROVE Document!GiveUp(w)
  <2>1. \A v \in Works \ {w} : status'[v] = status[v] /\ flag'[v] = flag[v]
    BY <1>1, <1>3 DEF ItemInv, OneLive
  <2>2. flag'[w] /\ status'[w] = Settled(w) /\ status[w] \in Pending
    BY <1>3 DEF Flagged, Live
  <2>3. GivenUp' = GivenUp \cup {w}
    BY <2>1, <2>2 DEF GivenUp
  <2>4. Requests[w] = "open"
    BY <2>2 DEF Requests, Request, Pending
  <2>5. Requests' \in {Requests, [Requests EXCEPT ![w] = "cancelled"]}
    <3>1. \A v \in Works \ {w} : Requests'[v] = Requests[v]
      BY <2>1 DEF Requests, Request
    <3>2. Requests'[w] \in {"open", "cancelled"}
      BY <2>2 DEF Requests, Request, Settled, Pending
    <3> QED  BY <2>4, <3>1, <3>2 DEF Requests
  <2> QED  BY <2>3, <2>4, <2>5 DEF Document!GiveUp, Document!Withdraw, Document!document
<1> QED  BY <1>2, <1>3

(* An item that ends, and the request of it.                                    *)
LEMMA SettlesOne ==
  ASSUME TypeOK, NEW w \in Works, NEW o \in {"succeeded", "failed", "cancelled"},
         status[w] \in Pending, flag[w] => o = "cancelled",
         status' = [status EXCEPT ![w] = o], flag' = flag
  PROVE  Document!Settle({w}, o)
<1>1. \A i \in {w} : Requests[i] = "open" /\ (i \in GivenUp => o = "cancelled")
  BY DEF Requests, Request, Pending, GivenUp
<1>2. Requests' = [i \in Works |-> IF i \in {w} THEN o ELSE Requests[i]]
  BY DEF Requests, Request, Pending, TypeOK
<1>3. GivenUp' = GivenUp
  BY DEF GivenUp
<1> QED  BY <1>1, <1>2, <1>3 DEF Document!Settle

LEMMA StepsOnDocument ==
  ASSUME TypeOK, ItemInv, QueuedLive, [Next]_vars
  PROVE  Document!DocumentNext \/ Unnoticed
<1> USE DEF work, document, generations
<1>1. ASSUME NEW w \in Works, Admit(w) PROVE Document!Take(w)
  <2>1. /\ status' = [status EXCEPT ![w] = "queued"] /\ status[w] = "none"
        /\ UNCHANGED <<flag, active, exists>> /\ exists
    BY <1>1 DEF Admit, Writable
  <2>2. \A v \in Works : ~(Requests[v] = "open" /\ v \notin GivenUp)
    BY <1>1, InHandIsLive DEF Admit, Admissible
  <2>3. Requests[w] = "absent" /\ Requests' = [Requests EXCEPT ![w] = "open"]
    BY <2>1 DEF Requests, Request, Pending, TypeOK
  <2>4. UNCHANGED <<GivenUp, Shown, exists>>
    BY <2>1 DEF GivenUp, Shown
  <2> QED  BY <2>1, <2>2, <2>3, <2>4 DEF Document!Take, Document!InHand, Document!Accept, Document!document
<1>2. CASE CancelUpdate \/ SoftDelete
  <2>1. /\ status' = [w \in Works |-> Settled(w)] /\ flag' = [w \in Works |-> Flagged(w)]
        /\ UNCHANGED <<active, exists>>
    BY <1>2 DEF CancelUpdate, SoftDelete
  <2>2. UNCHANGED Shown
    BY <2>1 DEF Shown
  <2>3. Unnoticed \/ \E w \in Works : Document!GiveUp(w)
    BY <2>1, <2>2, WithdrawsOne
  <2> QED  BY <2>3 DEF Document!DocumentNext
<1>3. CASE Purge
  <2>1. /\ exists /\ trashed /\ ~exists' /\ active' = NoGen
        /\ status' = [w \in Works |-> Settled(w)] /\ flag' = [w \in Works |-> Flagged(w)]
    BY <1>3 DEF Purge
  <2>2. \A w \in Works : ~Live(w)
    BY <2>1 DEF ItemInv, LiveWritable, Writable
  <2>3. ASSUME NEW w \in Works PROVE status'[w] = status[w] /\ flag'[w] = flag[w]
    <3>1. flag[w] \in BOOLEAN
      BY DEF TypeOK
    <3>2. status[w] # "queued" /\ (status[w] \in Pending => flag[w])
      BY <2>2 DEF QueuedLive, Live, Pending
    <3> QED  BY <2>1, <3>1, <3>2 DEF Settled, Flagged
  <2>4. UNCHANGED <<Requests, GivenUp>>
    BY <2>3 DEF Requests, Request, GivenUp
  <2>5. Shown' = NoGen
    BY <2>1 DEF Shown
  <2>6. \A w \in Works : ~(Requests[w] = "open" /\ w \notin GivenUp)
    BY <2>2, InHandIsLive
  <2>7. Document!Remove
    BY <2>1, <2>4, <2>5, <2>6 DEF Document!Remove, Document!InHand
  <2> QED  BY <2>7 DEF Document!DocumentNext
<1>4. ASSUME NEW w \in Works, Claim(w) \/ Reclaim(w) PROVE Unnoticed
  <2>1. /\ status' = [status EXCEPT ![w] = "running"] /\ status[w] \in Pending
        /\ UNCHANGED <<flag, active, exists>>
    BY <1>4 DEF Claim, Reclaim, Takes, Pending
  <2> QED  BY <2>1 DEF Unnoticed, Requests, Request, GivenUp, Shown, Pending, TypeOK
<1>5. ASSUME NEW w \in Works, Settle(w) PROVE Document!Drop(w, "cancelled")
  <2>1. /\ status' = [status EXCEPT ![w] = "cancelled"] /\ status[w] \in Pending
        /\ UNCHANGED <<flag, active, exists>>
    BY <1>5 DEF Settle, Pending
  <2>2. Document!Settle({w}, "cancelled")
    BY <2>1, SettlesOne
  <2> QED  BY <2>1, <2>2 DEF Document!Drop, Document!document, Shown
<1>6. ASSUME NEW g \in Gens, Publish(g) PROVE Document!Show(Item(g)) /\ Item(g) \in Works
  <2>1. /\ status' = [status EXCEPT ![Item(g)] = "succeeded"] /\ Owns(g)
        /\ exists /\ UNCHANGED <<flag, exists>> /\ active' = g
    BY <1>6 DEF Publish, Writable
  <2>2. Document!Settle({Item(g)}, "succeeded")
    BY <2>1, SettlesOne, GenFacts DEF Owns, Pending
  <2>3. Shown' = Item(g)
    BY <2>1, GenFacts, NoGenAssumption DEF Shown
  <2> QED  BY <2>1, <2>2, <2>3, GenFacts DEF Document!Show
<1>7. ASSUME NEW g \in Gens, NEW o \in Outcomes, Acknowledge(g, o)
      PROVE  Document!DocumentNext \/ Unnoticed
  <2>1. /\ status' = [status EXCEPT ![Item(g)] = o] /\ Owns(g) /\ Item(g) \in Works
        /\ UNCHANGED <<flag, active, exists>>
    BY <1>7, GenFacts DEF Acknowledge
  <2>2. CASE o = "failed"
    <3>1. Document!Settle({Item(g)}, "failed")
      BY <2>1, <2>2, SettlesOne DEF Owns, Pending
    <3>2. Document!Drop(Item(g), "failed")
      BY <2>1, <3>1 DEF Document!Drop, Document!document, Shown
    <3> QED  BY <2>1, <3>2 DEF Document!DocumentNext
  <2>3. CASE o = "queued"
    BY <2>1, <2>3 DEF Unnoticed, Requests, Request, GivenUp, Shown, Pending, Owns, TypeOK
  <2> QED  BY <2>2, <2>3 DEF Outcomes
<1>8. ASSUME NEW g \in Gens, \/ Prepare(g) \/ Recover(g) \/ Start(g) \/ Checkpoint(g) \/ Index(g)
                             \/ MarkReady(g) \/ Stop(g) \/ Quit(g) \/ Clean(g)
      PROVE  Unnoticed
  <2>1. UNCHANGED <<status, flag, active, exists>>
    BY <1>8 DEF Prepare, Recover, Start, Checkpoint, Index, MarkReady, Stop, Quit, Clean
  <2> QED  BY <2>1, RequestsUntouched
<1>9. CASE Restore \/ DeleteBytes \/ RetireCheckpoint \/ List \/ UNCHANGED vars
  <2>1. UNCHANGED <<status, flag, active, exists>>
    BY <1>9 DEF Restore, DeleteBytes, RetireCheckpoint, List, vars
  <2> QED  BY <2>1, RequestsUntouched
<1> QED  BY <1>1, <1>2, <1>3, <1>4, <1>5, <1>6, <1>7, <1>8, <1>9 DEF Next, Attempt, Document!DocumentNext

(* Whatever dies, comes late, is taken over, cancelled or cleaned, requesters   *)
(* and readers see one document that takes requests one at a time, settles each *)
(* once and changes by the success of the one in hand.                          *)
THEOREM ImplementsDocumentPromise == Spec => KeepsDocumentPromise
<1>1. Init => Document!DocumentInit
  <2> SUFFICES ASSUME Init PROVE Document!DocumentInit
    OBVIOUS
  <2>1. GivenUp = {}
    <3>1. \A w \in Works : ~flag[w]
      BY Zenon DEF Init
    <3> QED  BY <3>1 DEF GivenUp
  <2>2. Requests = [w \in Works |-> IF w = Upload THEN "open" ELSE "absent"]
    BY DEF Init, Requests, Request, Pending
  <2>3. Shown = NoGen /\ exists
    BY DEF Init, Shown
  <2> QED  BY <2>1, <2>2, <2>3 DEF Document!DocumentInit
<1>2. TypeOK /\ ItemInv /\ QueuedLive /\ [Next]_vars =>
        [Document!DocumentNext]_<<Requests, GivenUp, Shown, ~exists>>
  BY StepsOnDocument DEF Unnoticed
<1> QED  BY <1>1, <1>2, TypeCorrect, ItemInvariant, QueuedInvariant, PTL
         DEF Spec, KeepsDocumentPromise, Document!DocumentSpec

(* A document handles its items as the ledger promised (WorkStore keeps the     *)
(* same promise, whoever uses it): an item it gave up never counts as done, and *)
(* none is settled twice.                                                       *)
THEOREM KeepsLedgerPromise == Spec => [][Document!PromiseNext]_<<Requests, GivenUp>>
<1>1. Document!DocumentNext => [Document!PromiseNext]_<<Requests, GivenUp>>
  <2> SUFFICES ASSUME Document!DocumentNext PROVE [Document!PromiseNext]_<<Requests, GivenUp>>
    OBVIOUS
  <2>1. ASSUME NEW i \in Works, Document!Take(i) \/ Document!GiveUp(i) PROVE Document!PromiseNext
    BY <2>1 DEF Document!Take, Document!GiveUp, Document!PromiseNext
  <2>2. ASSUME NEW i \in Works, NEW o \in {"succeeded", "failed", "cancelled"}, Document!Settle({i}, o)
        PROVE  Document!PromiseNext
    <3>1. {i} \in SUBSET Works /\ o \in Document!Outcomes
      BY DEF Document!Outcomes
    <3> QED  BY <2>2, <3>1 DEF Document!PromiseNext
  <2>3. CASE Document!Remove
    BY <2>3 DEF Document!Remove
  <2> QED  BY <2>1, <2>2, <2>3 DEF Document!DocumentNext, Document!Show, Document!Drop
<1>2. [Document!DocumentNext]_<<Requests, GivenUp, Shown, ~exists>> => [Document!PromiseNext]_<<Requests, GivenUp>>
  BY <1>1
<1> QED  BY <1>2, ImplementsDocumentPromise, PTL DEF KeepsDocumentPromise, Document!DocumentSpec

-----------------------------------------------------------------------------
(* Generations implements LedgerRows.                                           *)

RowMove(k) == \/ Rows!Stays(k) \/ Rows!Enters(k) \/ Rows!Taken(k) \/ Rows!Given(k)
              \/ Rows!Recalled(k) \/ Rows!Cleared(k)

LEMMA RowKept ==
  ASSUME NEW k \in Works, status'[k] = status[k], fence'[k] = fence[k], flag'[k] = flag[k]
  PROVE  RowMove(k)
BY DEF RowMove, Rows!Stays, Rows!Becomes, ItemStatus

(* A withdrawal moves every pending row, and no other.                          *)
LEMMA WithdrawalMoves ==
  ASSUME TypeOK, NEW k \in Works, status'[k] = Settled(k), flag'[k] = Flagged(k), fence'[k] = fence[k]
  PROVE  RowMove(k)
<1>1. CASE status[k] \in Pending
  BY <1>1 DEF Pending, Settled, Flagged, ItemStatus, RowMove, Rows!Recalled, Rows!Becomes
<1>2. CASE status[k] \notin Pending
  <2>1. status'[k] = status[k]
    BY <1>2 DEF Settled, Pending
  <2>2. flag'[k] = flag[k]
    BY <1>2 DEF Flagged, TypeOK
  <2> QED  BY <2>1, <2>2, RowKept
<1> QED  BY <1>1, <1>2

(* An owner gives up its row, and touches no other.                             *)
LEMMA OwnerMoves ==
  ASSUME TypeOK, NEW g \in Gens, NEW s \in {"queued", "succeeded", "failed"}, Owns(g),
         status' = [status EXCEPT ![Item(g)] = s], UNCHANGED <<fence, flag>>, NEW k \in Works
  PROVE  RowMove(k)
<1>1. CASE k # Item(g)
  BY <1>1, RowKept DEF TypeOK
<1>2. CASE k = Item(g)
  BY <1>2 DEF TypeOK, Owns, ItemStatus, RowMove, Rows!Given, Rows!Held, Rows!Becomes
<1> QED  BY <1>1, <1>2

LEMMA StepsOnRows == ASSUME TypeOK, ItemInv, QueuedLive, [Next]_vars, NEW k \in Works PROVE RowMove(k)
<1> USE DEF work
<1>1. ASSUME NEW w \in Works, Admit(w) PROVE RowMove(k)
  <2>1. status[w] = "none" /\ status' = [status EXCEPT ![w] = "queued"] /\ UNCHANGED <<fence, flag>>
    BY <1>1 DEF Admit
  <2>2. CASE k = w
    BY <2>1, <2>2 DEF TypeOK, ItemStatus, RowMove, Rows!Enters, Rows!Becomes
  <2> QED  BY <2>1, <2>2, RowKept DEF TypeOK
<1>2. CASE CancelUpdate \/ SoftDelete \/ Purge
  BY <1>2, WithdrawalMoves DEF CancelUpdate, SoftDelete, Purge
<1>3. ASSUME NEW w \in Works, Claim(w) \/ Reclaim(w) PROVE RowMove(k)
  <2>1. /\ status[w] \in {"queued", "running"} /\ ~flag[w]
        /\ status' = [status EXCEPT ![w] = "running"] /\ fence' = [fence EXCEPT ![w] = @ + 1]
        /\ UNCHANGED flag
    BY <1>3 DEF Claim, Reclaim, Takes, QueuedLive
  <2>2. CASE k = w
    BY <2>1, <2>2 DEF TypeOK, ItemStatus, RowMove, Rows!Taken, Rows!Becomes
  <2> QED  BY <2>1, <2>2, RowKept DEF TypeOK
<1>4. ASSUME NEW w \in Works, Settle(w) PROVE RowMove(k)
  <2>1. /\ status[w] = "running" /\ flag[w]
        /\ status' = [status EXCEPT ![w] = "cancelled"] /\ UNCHANGED <<fence, flag>>
    BY <1>4 DEF Settle
  <2>2. CASE k = w
    BY <2>1, <2>2 DEF TypeOK, ItemStatus, RowMove, Rows!Cleared, Rows!Becomes
  <2> QED  BY <2>1, <2>2, RowKept DEF TypeOK
<1>5. ASSUME NEW g \in Gens, Publish(g) \/ \E o \in Outcomes : Acknowledge(g, o) PROVE RowMove(k)
  <2>1. /\ Owns(g) /\ UNCHANGED <<fence, flag>>
        /\ \E s \in {"queued", "succeeded", "failed"} : status' = [status EXCEPT ![Item(g)] = s]
    BY <1>5 DEF Publish, Acknowledge, Outcomes
  <2> QED  BY <2>1, OwnerMoves
<1>6. ASSUME NEW g \in Gens, Start(g) \/ Stop(g) PROVE RowMove(k)
  BY <1>6, RowKept DEF Start, Stop
<1>7. CASE Aside
  BY <1>7, RowKept DEF Aside
<1> QED  BY <1>1, <1>2, <1>3, <1>4, <1>5, <1>6, <1>7, StepsAside DEF Next, Attempt

LEMMA OneFenceAtATime ==
  ASSUME TypeOK, [Next]_vars
  PROVE  \/ UNCHANGED fence
         \/ \E w \in Works : fence' = [fence EXCEPT ![w] = @ + 1]
<1>1. ASSUME NEW w \in Works, Claim(w) \/ Reclaim(w) PROVE fence' = [fence EXCEPT ![w] = @ + 1]
  BY <1>1 DEF Claim, Reclaim, Takes
<1>2. ASSUME NEW w \in Works, Admit(w) \/ Settle(w) PROVE UNCHANGED fence
  BY <1>2 DEF Admit, Settle
<1>3. CASE CancelUpdate \/ SoftDelete \/ Purge
  BY <1>3 DEF CancelUpdate, SoftDelete, Purge
<1>4. ASSUME NEW g \in Gens, \/ Start(g) \/ Stop(g) \/ Publish(g)
                              \/ \E o \in Outcomes : Acknowledge(g, o)
      PROVE  UNCHANGED fence
  BY <1>4 DEF Start, Stop, Publish, Acknowledge, work
<1>5. CASE Aside
  BY <1>5 DEF Aside, work
<1> QED  BY <1>1, <1>2, <1>3, <1>4, <1>5, StepsAside DEF Next, Attempt

(* What Generations takes for granted of its items is what the ledger is: the   *)
(* same rows that WorkExecution gives its handlers (HandlersAreAtomic).         *)
THEOREM ItemsAreLedgerRows == Spec => KeepsRows
<1>1. Init => Rows!RowsInit
  <2> SUFFICES ASSUME Init PROVE Rows!RowsInit
    OBVIOUS
  <2>1. fence = [w \in Works |-> 0] /\ flag = [w \in Works |-> FALSE]
    BY Zenon DEF Init
  <2>2. ItemStatus \in [Works -> {"absent", "queued"}]
    BY DEF Init, ItemStatus
  <2> QED  BY <2>1, <2>2 DEF Rows!RowsInit
<1>2. TypeOK /\ ItemInv /\ QueuedLive /\ [Next]_vars => [Rows!RowsNext]_(Rows!rows)
  <2> SUFFICES ASSUME TypeOK, ItemInv, QueuedLive, [Next]_vars PROVE Rows!RowsNext
    OBVIOUS
  <2>1. \A i, j \in Works : fence'[i] # fence[i] /\ fence'[j] # fence[j] => i = j
    BY OneFenceAtATime DEF TypeOK
  <2>2. \A k \in Works : RowMove(k)
    BY StepsOnRows
  <2> QED  BY <2>1, <2>2 DEF RowMove, Rows!RowsNext
<1> QED  BY <1>1, <1>2, TypeCorrect, ItemInvariant, QueuedInvariant, PTL DEF Spec, KeepsRows, Rows!RowsSpec

(* Rows that move so never return to an attempt that lost them.                 *)
THEOREM AttemptsDoNotReturn == Spec => LostForever
<1>1. TypeOK /\ ItemInv /\ QueuedLive /\ [Next]_vars
        => [\A g \in Gens : g[2] <= fence[Item(g)] /\ Owns(g)' => Owns(g)]_vars
  <2> SUFFICES ASSUME TypeOK, ItemInv, QueuedLive, [Next]_vars,
                      NEW g \in Gens, g[2] <= fence[Item(g)], Owns(g)'
               PROVE  Owns(g)
    OBVIOUS
  <2>1. RowMove(Item(g)) /\ Item(g) \in Works /\ g[2] \in Nat /\ fence[Item(g)] \in Nat
    BY StepsOnRows, GenFacts DEF TypeOK
  <2>2. Item(g)' = Item(g) /\ status'[Item(g)] = "running" /\ ~flag'[Item(g)] /\ fence'[Item(g)] = g[2]
    BY DEF Owns, Item
  <2>3. ~Rows!Taken(Item(g))
    BY <2>1, <2>2 DEF Rows!Taken, Rows!Becomes
  <2>4. Rows!Stays(Item(g))
    BY <2>1, <2>2, <2>3 DEF RowMove, Rows!Enters, Rows!Given, Rows!Recalled, Rows!Cleared, Rows!Becomes, ItemStatus
  <2> QED  BY <2>1, <2>2, <2>4 DEF Rows!Stays, Rows!Becomes, ItemStatus, Owns, TypeOK
<1> QED  BY <1>1, TypeCorrect, ItemInvariant, QueuedInvariant, PTL DEF Spec, LostForever
=============================================================================
