--------------------------- MODULE BulkJobsProofs ---------------------------
(***************************************************************************)
(* Proofs about BulkJobs, for any jobs, items and documents.  Job and      *)
(* receipts are related by the state of the coordinator's own receipt: it  *)
(* is "succeeded" exactly from the fan-out on, which no cancelled or       *)
(* failed coordinator can reach any more.                                  *)
(***************************************************************************)
EXTENDS BulkJobs, TLAPS

(* Before its fan-out a job has at most an open or a failed coordinator.   *)
Rows == \A j \in Jobs :
    /\ job[j] \in {"none", "awaiting"} => parent[j] = "none"
    /\ job[j] = "queued" => parent[j] \in {"queued", "running", "failed"}
    /\ job[j] = "running" => parent[j] = "succeeded"
    /\ job[j] = "cancelled" => parent[j] # "succeeded"

(* Items come into being with the fan-out.                                 *)
Untouched == \A i \in Items :
    parent[JobOf[i]] # "succeeded" => item[i] = "none" /\ child[i] = "none"

(* The two parts of JobsAgree that are not consequences.                   *)
Told == \A j \in Jobs : job[j] \in {"completed", "failed"} /\ parent[j] = "succeeded" =>
    /\ \A i \in ItemsOf(j) : item[i] \in ItemEnded /\ reported[i] = item[i]
    /\ job[j] = "failed" <=> /\ \E i \in ItemsOf(j) : item[i] = "failed"
                             /\ \A i \in ItemsOf(j) : item[i] # "done"
Served == \A i \in Items : item[i] \in {"queued", "running"} => job[JobOf[i]] = "running"

Receipts == Rows /\ Untouched /\ Told /\ Served

ItemStates == {"none", "queued", "running"} \cup ItemEnded

----------------------------------------------------------------------------
(* The projection touches one job, and ends it only with all its items.    *)
LEMMA Projected ==
    ASSUME TypeOK, NEW j \in Jobs, job[j] = "running",
           NEW f \in [Items -> ItemStates], Project(f, j)
    PROVE  /\ job' \in [Jobs -> {"none", "awaiting", "queued", "running"} \cup Ended]
           /\ reported' \in [Items -> {"none"} \cup ItemEnded]
           /\ \A k \in Jobs : k # j => job'[k] = job[k]
           /\ \A i \in Items : JobOf[i] # j => reported'[i] = reported[i]
           /\ job'[j] \in {"running", "completed", "failed"}
           /\ job'[j] # "running" => \A i \in ItemsOf(j) : f[i] \in ItemEnded /\ reported'[i] = f[i]
           /\ job'[j] # "running" =>
                 (job'[j] = "failed" <=> /\ \E i \in ItemsOf(j) : f[i] = "failed"
                                         /\ \A i \in ItemsOf(j) : f[i] # "done")
<1> USE DEF TypeOK, Project, Ended, ItemEnded, ItemStates
<1>1. Verdict(f, j) \in {"completed", "failed"}
  BY DEF Verdict
<1>2. job' = [job EXCEPT ![j] = IF AllEnded(f, j) THEN Verdict(f, j) ELSE @]
  OBVIOUS
<1>3. job' \in [Jobs -> {"none", "awaiting", "queued", "running"} \cup Ended]
  BY <1>1, <1>2
<1>4. reported' \in [Items -> {"none"} \cup ItemEnded]
  BY DEF Shown
<1>5. job'[j] = IF AllEnded(f, j) THEN Verdict(f, j) ELSE "running"
  BY <1>2
<1>6. job'[j] # "running" => \A i \in ItemsOf(j) : f[i] \in ItemEnded /\ reported'[i] = f[i]
  BY <1>5 DEF AllEnded, Shown, ItemsOf
<1>7. job'[j] # "running" =>
         (job'[j] = "failed" <=> /\ \E i \in ItemsOf(j) : f[i] = "failed"
                                 /\ \A i \in ItemsOf(j) : f[i] # "done")
  BY <1>5 DEF Verdict
<1> QED
  BY <1>1, <1>2, <1>3, <1>4, <1>5, <1>6, <1>7

(* A step that ends one item of a running job.                             *)
LEMMA ItemEnds ==
    ASSUME BulkAssumption, TypeOK, NEW i \in Items, job[JobOf[i]] = "running",
           NEW outcome \in ItemEnded, EndItem(i, outcome)
    PROVE  /\ item' \in [Items -> ItemStates]
           /\ Project(item', JobOf[i])
           /\ JobOf[i] \in Jobs
           /\ item'[i] = outcome
           /\ \A k \in Items : k # i => item'[k] = item[k]
BY DEF BulkAssumption, TypeOK, EndItem, ItemStates

----------------------------------------------------------------------------
(* SoftDelete and what it leaves.                                          *)
LEMMA Deleted ==
    ASSUME BulkAssumption, TypeOK, NEW d \in Docs, NEW how \in {"withdrawn", "cancelled"}, SoftDelete(d, how)
    PROVE  /\ child' \in [Items -> {"none", "pending", "withdrawn", "succeeded", "failed", "cancelled"}]
           /\ doc' \in [Docs -> {"ready", "halted", "busy", "review", "gone"}]
           /\ trashed' \in [Docs -> BOOLEAN]
           /\ other' \in [Docs -> {"none", "pending", "withdrawn", "over"}]
           /\ \A i \in Items : child'[i] = child[i] \/ (child[i] = "pending" /\ child'[i] = how)
           /\ \A i \in Items : DocOf[i] = d => child'[i] # "pending"
           /\ other'[d] # "pending"
           /\ \A e \in Docs : e # d => other'[e] = other[e] /\ (trashed'[e] <=> trashed[e])
<1> USE DEF TypeOK, SoftDelete, Withdraw, Invalidated, Wanted
<1>1. trashed' \in [Docs -> BOOLEAN] /\ \A e \in Docs : e # d => (trashed'[e] <=> trashed[e])
  BY Zenon
<1>2. child' \in [Items -> {"none", "pending", "withdrawn", "succeeded", "failed", "cancelled"}]
  OBVIOUS
<1>3. doc' \in [Docs -> {"ready", "halted", "busy", "review", "gone"}]
  OBVIOUS
<1>4. other' \in [Docs -> {"none", "pending", "withdrawn", "over"}]
  OBVIOUS
<1> QED
  BY <1>1, <1>2, <1>3, <1>4

----------------------------------------------------------------------------
(* Types.                                                                  *)

(* Jobs, receipts and documents keep their types.                          *)
LEMMA TypeStep == BulkAssumption /\ TypeOK /\ Receipts /\ [Next]_vars => TypeOK'
<1> SUFFICES ASSUME BulkAssumption, TypeOK, Receipts, [Next]_vars PROVE TypeOK'
  OBVIOUS
<1> DEFINE Jb == job \in [Jobs -> {"none", "awaiting", "queued", "running"} \cup Ended]
           Rp == reported \in [Items -> {"none"} \cup ItemEnded]
           Pa == parent \in [Jobs -> {"none", "queued", "running", "withdrawn", "succeeded", "failed", "cancelled"}]
           It == item \in [Items -> ItemStates]
           Ch == child \in [Items -> {"none", "pending", "withdrawn", "succeeded", "failed", "cancelled"}]
           Dc == doc \in [Docs -> {"ready", "halted", "busy", "review", "gone"}]
           Tr == trashed \in [Docs -> BOOLEAN]
           Ot == other \in [Docs -> {"none", "pending", "withdrawn", "over"}]
           Sc == scan \subseteq Jobs
<1>0. Jb /\ Rp /\ Pa /\ It /\ Ch /\ Dc /\ Tr /\ Ot /\ Sc
  BY DEF TypeOK, ItemStates
<1>q. Jb' /\ Rp' /\ Pa' /\ It' /\ Ch' /\ Dc' /\ Tr' /\ Ot' /\ Sc' => TypeOK'
  BY DEF TypeOK, ItemStates
<1>1. ASSUME NEW j \in Jobs, Submit(j) \/ Approve(j) \/ CancelJob(j) \/ Coordinator(j)
      PROVE  TypeOK'
  <2>1. Jb' /\ Pa'
    <3>1. CASE Submit(j) BY <3>1, <1>0 DEF Submit, Ended
    <3>2. CASE Approve(j) BY <3>2, <1>0 DEF Approve, Ended
    <3>3. CASE CancelJob(j) BY <3>3, <1>0 DEF CancelJob, Ended
    <3>4. CASE ClaimParent(j) BY <3>4, <1>0 DEF ClaimParent, Ended
    <3>5. CASE FanOut(j) BY <3>5, <1>0 DEF FanOut, Ended
    <3>6. CASE LoseParent(j) BY <3>6, <1>0 DEF LoseParent, Ended
    <3>7. CASE FailParent(j) BY <3>7, <1>0 DEF FailParent, Ended
    <3> QED BY <1>1, <3>1, <3>2, <3>3, <3>4, <3>5, <3>6, <3>7 DEF Coordinator
  <2>2. Rp' /\ It'
    <3>1. CASE FanOut(j) BY <3>1, <1>0 DEF FanOut, ItemStates
    <3>2. CASE ~FanOut(j)
      <4>1. UNCHANGED <<reported, item>>
        BY <3>2, <1>1 DEF Submit, Approve, CancelJob, Coordinator, ClaimParent, LoseParent, FailParent
      <4> QED BY <4>1, <1>0
    <3> QED BY <3>1, <3>2
  <2>3. UNCHANGED <<child, doc, trashed, other, scan>>
    BY <1>1 DEF Submit, Approve, CancelJob, Coordinator, ClaimParent, FanOut, LoseParent, FailParent, docs
  <2>4. Ch' /\ Dc' /\ Ot' /\ Sc'
    BY <2>3, <1>0
  <2>5. Tr'
    BY <2>3, <1>0, Zenon
  <2> QED
    BY <2>1, <2>2, <2>4, <2>5, <1>q
<1>2. ASSUME NEW j \in Jobs, ReconcileJob(j) PROVE TypeOK'
  <2>1. Jb' /\ Rp'
    <3>1. CASE StillPending(j) /\ parent[j] \in {"failed", "cancelled"}
      BY <3>1, <1>0, <1>2 DEF ReconcileJob, Ended
    <3>2. CASE StillPending(j) /\ parent[j] \notin {"failed", "cancelled"} /\ job[j] = "running"
      <4>1. Project(item, j)
        BY <3>2, <1>2 DEF ReconcileJob
      <4> QED
        BY <4>1, <3>2, <1>0, Projected
    <3>3. CASE ~StillPending(j) \/ (parent[j] \notin {"failed", "cancelled"} /\ job[j] # "running")
      <4>1. UNCHANGED <<job, reported>>
        BY <3>3, <1>2 DEF ReconcileJob
      <4> QED
        BY <4>1, <1>0
    <3> QED
      BY <3>1, <3>2, <3>3
  <2>2. UNCHANGED <<parent, item, child, doc, trashed, other>> /\ Sc'
    BY <1>0, <1>2 DEF ReconcileJob, work, docs
  <2>3. Pa' /\ It' /\ Ch' /\ Dc' /\ Ot'
    BY <2>2, <1>0
  <2>4. Tr'
    BY <2>2, <1>0, Zenon
  <2> QED
    BY <2>1, <2>2, <2>3, <2>4, <1>q
<1>3. ASSUME NEW i \in Items, ClaimItem(i) \/ LoseItem(i) \/ FailItem(i) \/ DeferItem(i) PROVE TypeOK'
  <2>1. It'
    <3>1. CASE ClaimItem(i) BY <3>1, <1>0 DEF ClaimItem, ItemStates
    <3>2. CASE LoseItem(i) BY <3>2, <1>0 DEF LoseItem, ItemStates
    <3>3. CASE FailItem(i) BY <3>3, <1>0 DEF FailItem, ItemStates, ItemEnded
    <3>4. CASE DeferItem(i) BY <3>4, <1>0 DEF DeferItem, ItemStates
    <3> QED BY <1>3, <3>1, <3>2, <3>3, <3>4
  <2>2. UNCHANGED <<job, reported, parent, child, doc, trashed, other, scan>>
    BY <1>3 DEF ClaimItem, LoseItem, FailItem, DeferItem, docs
  <2>3. Jb' /\ Rp' /\ Pa' /\ Ch' /\ Dc' /\ Ot' /\ Sc'
    BY <2>2, <1>0
  <2>4. Tr'
    BY <2>2, <1>0, Zenon
  <2> QED
    BY <2>1, <2>3, <2>4, <1>q
<1>4. ASSUME NEW i \in Items, RunItem(i) \/ RefuseItem(i) PROVE TypeOK'
  <2>0. JobOf[i] \in Jobs /\ DocOf[i] \in Docs
    BY DEF BulkAssumption
  <2>1. job[JobOf[i]] = "running"
    BY <1>4 DEF RunItem, DeleteItem, SkipItem, ConflictItem, RefuseItem, AdmitItem, ConcludeItem, Admits, Runs, Receipts, Served
  <2>2. CASE AdmitItem(i)
    <3>1. It' /\ Ch' /\ Dc'
      BY <2>0, <2>2, <1>0 DEF AdmitItem, ItemStates
    <3>2. UNCHANGED <<job, reported, parent, trashed, other, scan>>
      BY <2>2 DEF AdmitItem
    <3>3. Jb' /\ Rp' /\ Pa' /\ Ot' /\ Sc'
      BY <3>2, <1>0
    <3>4. Tr'
      BY <3>2, <1>0, Zenon
    <3> QED
      BY <3>1, <3>3, <3>4, <1>q
  <2>3. ASSUME NEW outcome \in ItemEnded, EndItem(i, outcome) PROVE Jb' /\ Rp' /\ It'
    <3>1. It' /\ Project(item', JobOf[i])
      BY <2>1, <2>3, ItemEnds
    <3> QED
      BY <2>0, <2>1, <3>1, Projected
  <2>4. CASE SkipItem(i) \/ ConflictItem(i) \/ RefuseItem(i) \/ ConcludeItem(i)
    <3>1. \E outcome \in ItemEnded : EndItem(i, outcome)
      BY <2>4 DEF SkipItem, ConflictItem, RefuseItem, ConcludeItem, ItemEnded
    <3>2. UNCHANGED <<parent, child, doc, trashed, other, scan>>
      BY <2>4 DEF SkipItem, ConflictItem, RefuseItem, ConcludeItem, docs
    <3>3. Jb' /\ Rp' /\ It'
      BY <3>1, <2>3
    <3>4. Pa' /\ Ch' /\ Dc' /\ Ot' /\ Sc'
      BY <3>2, <1>0
    <3>5. Tr'
      BY <3>2, <1>0, Zenon
    <3> QED
      BY <3>3, <3>4, <3>5, <1>q
  <2>5. CASE DeleteItem(i)
    <3>1. \E outcome \in ItemEnded : EndItem(i, outcome)
      BY <2>5 DEF DeleteItem, ItemEnded
    <3>2. UNCHANGED <<parent, scan>>
      BY <2>5 DEF DeleteItem
    <3>3. Jb' /\ Rp' /\ It'
      BY <3>1, <2>3
    <3>4. Pa' /\ Sc'
      BY <3>2, <1>0
    <3>5. CASE UNCHANGED <<child, docs>>
      <4>1. Ch' /\ Dc' /\ Ot'
        BY <3>5, <1>0 DEF docs
      <4>2. Tr'
        BY <3>5, <1>0, Zenon DEF docs
      <4> QED
        BY <3>3, <3>4, <4>1, <4>2, <1>q
    <3>6. ASSUME NEW how \in {"withdrawn", "cancelled"}, SoftDelete(DocOf[i], how) PROVE TypeOK'
      <4>1. Ch' /\ Dc' /\ Tr' /\ Ot'
        BY <2>0, <3>6, Deleted, Zenon
      <4> QED
        BY <3>3, <3>4, <4>1, <1>q
    <3> QED
      BY <2>5, <3>5, <3>6 DEF DeleteItem
  <2> QED
    BY <1>4, <2>2, <2>4, <2>5 DEF RunItem
<1>5. ASSUME NEW i \in Items, ChildWorks(i) \/ ChildEnds(i) PROVE TypeOK'
  <2>0. DocOf[i] \in Docs
    BY DEF BulkAssumption
  <2>1. Ch' /\ Dc'
    BY <1>5, <2>0, <1>0 DEF ChildWorks, ChildEnds, work
  <2>2. UNCHANGED <<job, reported, parent, item, trashed, other, scan>>
    BY <1>5 DEF ChildWorks, ChildEnds, work
  <2>3. Jb' /\ Rp' /\ Pa' /\ It' /\ Ot' /\ Sc'
    BY <2>2, <1>0
  <2>4. Tr'
    BY <2>2, <1>0, Zenon
  <2> QED
    BY <2>1, <2>3, <2>4, <1>q
<1>6. ASSUME NEW d \in Docs, OtherStarts(d) \/ OtherEnds(d) \/ Purge(d) PROVE TypeOK'
  <2>1. Dc' /\ Ot'
    <3>1. CASE OtherStarts(d) BY <3>1, <1>0 DEF OtherStarts
    <3>2. CASE OtherEnds(d) BY <3>2, <1>0 DEF OtherEnds
    <3>3. CASE Purge(d) BY <3>3, <1>0 DEF Purge
    <3> QED BY <1>6, <3>1, <3>2, <3>3
  <2>2. UNCHANGED <<job, reported, parent, item, child, trashed, scan>>
    BY <1>6 DEF OtherStarts, OtherEnds, Purge, work
  <2>3. Jb' /\ Rp' /\ Pa' /\ It' /\ Ch' /\ Sc'
    BY <2>2, <1>0
  <2>4. Tr'
    BY <2>2, <1>0, Zenon
  <2> QED
    BY <2>1, <2>3, <2>4, <1>q
<1>7. ASSUME NEW d \in Docs, Trash(d) PROVE TypeOK'
  <2>1. PICK how \in {"withdrawn", "cancelled"} : SoftDelete(d, how)
    BY <1>7 DEF Trash
  <2>2. Ch' /\ Dc' /\ Tr' /\ Ot'
    BY <2>1, Deleted, Zenon
  <2>3. Jb' /\ Rp' /\ Pa' /\ It' /\ Sc'
    BY <1>7, <1>0 DEF Trash
  <2> QED
    BY <2>2, <2>3, <1>q
<1>8. ASSUME NEW d \in Docs, Restore(d) PROVE TypeOK'
  <2>1. Tr'
    BY <1>8, <1>0, Zenon DEF Restore
  <2>2. Jb' /\ Rp' /\ Pa' /\ It' /\ Ch' /\ Dc' /\ Ot' /\ Sc'
    BY <1>8, <1>0 DEF Restore, work
  <2> QED
    BY <2>1, <2>2, <1>q
<1>9. CASE ScanJobs \/ UNCHANGED vars
  <2>1. UNCHANGED <<job, reported, parent, item, child, doc, trashed, other>>
    BY <1>9 DEF ScanJobs, vars, work, docs
  <2>2. Sc'
    BY <1>9, <1>0 DEF ScanJobs, vars
  <2>3. Jb' /\ Rp' /\ Pa' /\ It' /\ Ch' /\ Dc' /\ Ot'
    BY <2>1, <1>0
  <2>4. Tr'
    BY <2>1, <1>0, Zenon
  <2> QED
    BY <2>2, <2>3, <2>4, <1>q
<1> QED
  BY <1>1, <1>2, <1>3, <1>4, <1>5, <1>6, <1>7, <1>8, <1>9 DEF Next, ItemStep

----------------------------------------------------------------------------
(* Receipts.                                                               *)

(* What a step that leaves the coordinators alone must show.               *)
LEMMA SameParents ==
    ASSUME BulkAssumption, TypeOK, Receipts, NEW i \in Items, job[JobOf[i]] = "running",
           UNCHANGED <<job, reported, parent>>,
           \A k \in Items : k # i => item'[k] = item[k] /\ child'[k] = child[k],
           item[i] \in {"queued", "running"}
    PROVE  Receipts'
<1>0. JobOf[i] \in Jobs
  BY DEF BulkAssumption
<1>1. parent[JobOf[i]] = "succeeded"
  BY <1>0 DEF Receipts, Rows
<1>2. Rows'
  BY DEF Receipts, Rows
<1>3. Untouched'
  BY <1>1 DEF Receipts, Untouched
<1>4. Served'
  BY DEF Receipts, Served
<1>5. Told'
  <2> SUFFICES ASSUME NEW j \in Jobs, job[j] \in {"completed", "failed"}, parent[j] = "succeeded"
               PROVE  /\ \A k \in ItemsOf(j) : item'[k] \in ItemEnded /\ reported'[k] = item'[k]
                      /\ job'[j] = "failed" <=> /\ \E k \in ItemsOf(j) : item'[k] = "failed"
                                                /\ \A k \in ItemsOf(j) : item'[k] # "done"
    BY DEF Told, ItemsOf
  <2>1. i \notin ItemsOf(j)
    BY DEF ItemsOf
  <2>2. \A k \in ItemsOf(j) : item'[k] = item[k]
    BY <2>1 DEF ItemsOf
  <2> QED
    BY <2>2 DEF Receipts, Told
<1> QED
  BY <1>2, <1>3, <1>4, <1>5 DEF Receipts

(* What a step that projects a running job must show.                      *)
LEMMA ProjectionKeeps ==
    ASSUME BulkAssumption, TypeOK, Receipts, NEW j \in Jobs, job[j] = "running",
           item' \in [Items -> ItemStates], Project(item', j), UNCHANGED parent,
           \A k \in Items : JobOf[k] # j => item'[k] = item[k],
           \A k \in Items : child[k] = "none" => child'[k] = "none"
    PROVE  Receipts'
<1> DEFINE P == /\ job' \in [Jobs -> {"none", "awaiting", "queued", "running"} \cup Ended]
                /\ \A k \in Jobs : k # j => job'[k] = job[k]
                /\ \A i \in Items : JobOf[i] # j => reported'[i] = reported[i]
                /\ job'[j] \in {"running", "completed", "failed"}
                /\ job'[j] # "running" => \A i \in ItemsOf(j) : item'[i] \in ItemEnded /\ reported'[i] = item'[i]
                /\ job'[j] # "running" =>
                      (job'[j] = "failed" <=> /\ \E i \in ItemsOf(j) : item'[i] = "failed"
                                              /\ \A i \in ItemsOf(j) : item'[i] # "done")
<1>1. P
  BY Projected
<1> HIDE DEF P
<1>2. parent[j] = "succeeded"
  BY DEF Receipts, Rows
<1>3. Rows'
  BY <1>1, <1>2 DEF P, Receipts, Rows
<1>4. Untouched'
  BY <1>2 DEF Receipts, Untouched
<1>5. Served'
  <2> SUFFICES ASSUME NEW i \in Items, item'[i] \in {"queued", "running"} PROVE job'[JobOf[i]] = "running"
    BY DEF Served
  <2>0. JobOf[i] \in Jobs
    BY DEF BulkAssumption
  <2>1. CASE JobOf[i] = j
    BY <2>1, <1>1 DEF P, ItemsOf, ItemEnded
  <2>2. CASE JobOf[i] # j
    BY <2>0, <2>2, <1>1 DEF P, Receipts, Served
  <2> QED
    BY <2>1, <2>2
<1>6. Told'
  <2> SUFFICES ASSUME NEW k \in Jobs, job'[k] \in {"completed", "failed"}, parent[k] = "succeeded"
               PROVE  /\ \A i \in ItemsOf(k) : item'[i] \in ItemEnded /\ reported'[i] = item'[i]
                      /\ job'[k] = "failed" <=> /\ \E i \in ItemsOf(k) : item'[i] = "failed"
                                                /\ \A i \in ItemsOf(k) : item'[i] # "done"
    BY DEF Told, ItemsOf
  <2>1. CASE k = j
    BY <2>1, <1>1 DEF P
  <2>2. CASE k # j
    <3>1. job'[k] = job[k] /\ \A i \in ItemsOf(k) : item'[i] = item[i] /\ reported'[i] = reported[i]
      BY <2>2, <1>1 DEF P, ItemsOf
    <3> QED
      BY <3>1 DEF Receipts, Told
  <2> QED
    BY <2>1, <2>2
<1> QED
  BY <1>3, <1>4, <1>5, <1>6 DEF Receipts

(* What a step of the documents alone must show.                           *)
LEMMA SameReceipts ==
    ASSUME Receipts, UNCHANGED <<job, reported, parent, item>>,
           \A i \in Items : child[i] = "none" => child'[i] = "none"
    PROVE  Receipts'
BY DEF Receipts, Rows, Untouched, Told, Served, ItemsOf

LEMMA ReceiptsStep == BulkAssumption /\ TypeOK /\ Receipts /\ [Next]_vars => Receipts'
<1> SUFFICES ASSUME BulkAssumption, TypeOK, Receipts, [Next]_vars PROVE Receipts'
  OBVIOUS
<1>1. ASSUME NEW j \in Jobs, Submit(j) \/ Approve(j) \/ CancelJob(j) \/ ClaimParent(j) \/ LoseParent(j) \/ FailParent(j)
      PROVE  Receipts'
  <2>1. UNCHANGED <<reported, item, child>>
    BY <1>1 DEF Submit, Approve, CancelJob, ClaimParent, LoseParent, FailParent
  <2>2. /\ \A k \in Jobs : k # j => job'[k] = job[k] /\ parent'[k] = parent[k]
        /\ parent[j] # "succeeded" /\ parent'[j] # "succeeded"
        /\ job[j] # "running" /\ job'[j] # "running"
        /\ job'[j] \in {"none", "awaiting"} => parent'[j] = "none"
        /\ job'[j] = "queued" => parent'[j] \in {"queued", "running", "failed"}
    <3>1. CASE Submit(j) BY <3>1 DEF Submit, TypeOK, Receipts, Rows
    <3>2. CASE Approve(j) BY <3>2 DEF Approve, TypeOK, Receipts, Rows
    <3>3. CASE CancelJob(j) BY <3>3 DEF CancelJob, TypeOK, Receipts, Rows
    <3>4. CASE ClaimParent(j) BY <3>4 DEF ClaimParent, TypeOK, Receipts, Rows
    <3>5. CASE LoseParent(j) BY <3>5 DEF LoseParent, TypeOK, Receipts, Rows
    <3>6. CASE FailParent(j) BY <3>6 DEF FailParent, TypeOK, Receipts, Rows
    <3> QED BY <1>1, <3>1, <3>2, <3>3, <3>4, <3>5, <3>6
  <2>3. Rows'
    BY <2>2 DEF Receipts, Rows
  <2>4. Untouched'
    BY <2>1, <2>2 DEF Receipts, Untouched, BulkAssumption
  <2>5. Served'
    BY <2>1, <2>2 DEF Receipts, Served, BulkAssumption
  <2>6. Told'
    BY <2>1, <2>2 DEF Receipts, Told, ItemsOf
  <2> QED
    BY <2>3, <2>4, <2>5, <2>6 DEF Receipts
<1>2. ASSUME NEW j \in Jobs, FanOut(j) PROVE Receipts'
  <2>1. /\ job[j] = "queued" /\ parent[j] = "running"
        /\ \A k \in Jobs : k # j => job'[k] = job[k] /\ parent'[k] = parent[k]
        /\ job'[j] = "running" /\ parent'[j] = "succeeded"
        /\ \A i \in Items : JobOf[i] # j => item'[i] = item[i] /\ reported'[i] = reported[i]
        /\ UNCHANGED child
    BY <1>2 DEF FanOut, TypeOK, Receipts, Rows
  <2>2. Rows'
    BY <2>1 DEF Receipts, Rows
  <2>3. Untouched'
    BY <2>1 DEF Receipts, Untouched, BulkAssumption
  <2>4. Served'
    BY <2>1 DEF Receipts, Served, BulkAssumption
  <2>5. Told'
    BY <2>1 DEF Receipts, Told, ItemsOf
  <2> QED
    BY <2>2, <2>3, <2>4, <2>5 DEF Receipts
<1>3. ASSUME NEW j \in Jobs, ReconcileJob(j) PROVE Receipts'
  <2>0. UNCHANGED <<parent, item, child>>
    BY <1>3 DEF ReconcileJob, work
  <2>1. CASE StillPending(j) /\ parent[j] \in {"failed", "cancelled"}
    <3>1. /\ \A k \in Jobs : k # j => job'[k] = job[k]
          /\ job'[j] = "failed" /\ job[j] # "running"
          /\ \A i \in Items : JobOf[i] # j => reported'[i] = reported[i]
      BY <1>3, <2>1 DEF ReconcileJob, TypeOK, Receipts, Rows
    <3>2. Rows'
      BY <2>0, <2>1, <3>1 DEF Receipts, Rows
    <3>3. Untouched'
      BY <2>0 DEF Receipts, Untouched
    <3>4. Served'
      BY <2>0, <3>1 DEF Receipts, Served, BulkAssumption
    <3>5. Told'
      BY <2>0, <2>1, <3>1 DEF Receipts, Told, ItemsOf
    <3> QED
      BY <3>2, <3>3, <3>4, <3>5 DEF Receipts
  <2>2. CASE StillPending(j) /\ parent[j] \notin {"failed", "cancelled"} /\ job[j] = "running"
    <3>1. Project(item, j)
      BY <2>2, <1>3 DEF ReconcileJob
    <3>2. Project(item', j)
      BY <2>0, <3>1
    <3>3. item' \in [Items -> ItemStates]
      BY <2>0 DEF TypeOK, ItemStates
    <3> QED
      BY <2>0, <2>2, <3>2, <3>3, ProjectionKeeps
  <2>3. CASE ~StillPending(j) \/ (parent[j] \notin {"failed", "cancelled"} /\ job[j] # "running")
    <3>1. UNCHANGED <<job, reported>>
      BY <2>3, <1>3 DEF ReconcileJob
    <3> QED
      BY <2>0, <3>1, SameReceipts
  <2> QED
    BY <2>1, <2>2, <2>3
<1>4. ASSUME NEW i \in Items, ClaimItem(i) \/ LoseItem(i) \/ FailItem(i) \/ DeferItem(i) \/ AdmitItem(i) PROVE Receipts'
  <2>1. item[i] \in {"queued", "running"}
    BY <1>4 DEF ClaimItem, LoseItem, FailItem, DeferItem, AdmitItem, Admits, Runs
  <2>2. job[JobOf[i]] = "running"
    BY <2>1 DEF Receipts, Served
  <2>3. UNCHANGED <<job, reported, parent>>
    BY <1>4 DEF ClaimItem, LoseItem, FailItem, DeferItem, AdmitItem
  <2>4. \A k \in Items : k # i => item'[k] = item[k] /\ child'[k] = child[k]
    BY <1>4 DEF ClaimItem, LoseItem, FailItem, DeferItem, AdmitItem, TypeOK
  <2> QED
    BY <2>1, <2>2, <2>3, <2>4, SameParents
<1>5. ASSUME NEW i \in Items, SkipItem(i) \/ ConflictItem(i) \/ RefuseItem(i) \/ ConcludeItem(i) \/ DeleteItem(i) PROVE Receipts'
  <2>0. JobOf[i] \in Jobs /\ DocOf[i] \in Docs
    BY DEF BulkAssumption
  <2>1. PICK outcome \in ItemEnded : EndItem(i, outcome)
    BY <1>5 DEF SkipItem, ConflictItem, RefuseItem, ConcludeItem, DeleteItem, ItemEnded
  <2>2. item[i] = "running" /\ UNCHANGED parent
    BY <1>5 DEF SkipItem, ConflictItem, RefuseItem, ConcludeItem, DeleteItem, Admits, Runs
  <2>3. job[JobOf[i]] = "running"
    BY <2>2 DEF Receipts, Served
  <2>4. /\ item' \in [Items -> ItemStates]
        /\ Project(item', JobOf[i])
        /\ \A k \in Items : k # i => item'[k] = item[k]
    BY <2>1, <2>3, ItemEnds
  <2>5. \A k \in Items : child'[k] = child[k] \/ child[k] = "pending"
    <3>1. CASE UNCHANGED child
      BY <3>1
    <3>2. ASSUME NEW how \in {"withdrawn", "cancelled"}, SoftDelete(DocOf[i], how)
          PROVE  \A k \in Items : child'[k] = child[k] \/ child[k] = "pending"
      BY <2>0, <3>2, Deleted
    <3> QED
      BY <1>5, <3>1, <3>2 DEF SkipItem, ConflictItem, RefuseItem, ConcludeItem, DeleteItem
  <2> QED
    BY <2>0, <2>2, <2>3, <2>4, <2>5, ProjectionKeeps
<1>6. CASE \/ \E i \in Items : ChildWorks(i) \/ ChildEnds(i)
           \/ \E d \in Docs : OtherStarts(d) \/ OtherEnds(d) \/ Trash(d) \/ Restore(d) \/ Purge(d)
           \/ ScanJobs \/ UNCHANGED vars
  <2>1. UNCHANGED <<job, reported, parent, item>>
    BY <1>6 DEF ChildWorks, ChildEnds, OtherStarts, OtherEnds, Trash, Restore, Purge, ScanJobs, vars, work
  <2>2. CASE UNCHANGED child
    BY <2>1, <2>2, SameReceipts
  <2>3. ASSUME NEW i \in Items, ChildEnds(i) PROVE Receipts'
    <3>1. \A k \in Items : child[k] = "none" => child'[k] = "none"
      BY <2>3 DEF ChildEnds, TypeOK
    <3> QED
      BY <2>1, <3>1, SameReceipts
  <2>4. ASSUME NEW d \in Docs, Trash(d) PROVE Receipts'
    <3>1. PICK how \in {"withdrawn", "cancelled"} : SoftDelete(d, how)
      BY <2>4 DEF Trash
    <3>2. \A k \in Items : child[k] = "none" => child'[k] = "none"
      BY <3>1, Deleted
    <3> QED
      BY <2>1, <3>2, SameReceipts
  <2> QED
    BY <1>6, <2>2, <2>3, <2>4 DEF ChildWorks, OtherStarts, OtherEnds, Restore, Purge, ScanJobs, vars, work
<1> QED
  BY <1>1, <1>2, <1>3, <1>4, <1>5, <1>6 DEF Next, Coordinator, ItemStep, RunItem

----------------------------------------------------------------------------
(* Documents: the step that admits or starts work has looked at them.      *)
LEMMA QuietStep == BulkAssumption /\ TypeOK /\ DocumentsQuiet /\ [Next]_vars => DocumentsQuiet'
<1> SUFFICES ASSUME BulkAssumption, TypeOK, DocumentsQuiet, [Next]_vars PROVE DocumentsQuiet'
  OBVIOUS
<1> DEFINE Calm(d) == /\ trashed[d] => ~Working(d)
                      /\ \A i, k \in Wanted(d) : i = k
                      /\ Wanted(d) # {} => other[d] # "pending"
<1>0. \A d \in Docs : Calm(d)
  BY DEF DocumentsQuiet
<1>q. (\A d \in Docs : Calm(d)') => DocumentsQuiet'
  BY DEF DocumentsQuiet
(* Nothing new is wanted, and what leaves the trash may be worked on.      *)
<1>1. ASSUME \A i \in Items : child'[i] = "pending" => child[i] = "pending",
             \A d \in Docs : other'[d] = "pending" => other[d] = "pending",
             \A d \in Docs : trashed'[d] => trashed[d]
      PROVE  DocumentsQuiet'
  <2> SUFFICES ASSUME NEW d \in Docs PROVE Calm(d)'
    BY <1>q
  <2>1. Wanted(d)' \subseteq Wanted(d)
    BY <1>1 DEF Wanted
  <2> QED
    BY <1>0, <1>1, <2>1 DEF Working
<1>2. ASSUME NEW d \in Docs, NEW how \in {"withdrawn", "cancelled"}, SoftDelete(d, how) PROVE DocumentsQuiet'
  <2>1. /\ \A i \in Items : child'[i] = child[i] \/ (child[i] = "pending" /\ child'[i] = how)
        /\ \A i \in Items : DocOf[i] = d => child'[i] # "pending"
        /\ other'[d] # "pending"
        /\ \A e \in Docs : e # d => other'[e] = other[e] /\ (trashed'[e] <=> trashed[e])
    BY <1>2, Deleted
  <2> SUFFICES ASSUME NEW e \in Docs PROVE Calm(e)'
    BY <1>q
  <2>2. Wanted(e)' \subseteq Wanted(e)
    BY <2>1 DEF Wanted
  <2>3. CASE e = d
    BY <2>1, <2>3 DEF Wanted, Working
  <2>4. CASE e # d
    BY <1>0, <2>1, <2>2, <2>4 DEF Working
  <2> QED
    BY <2>3, <2>4
<1>3. ASSUME NEW i \in Items, AdmitItem(i) PROVE DocumentsQuiet'
  <2>0. DocOf[i] \in Docs
    BY DEF BulkAssumption
  <2>1. /\ \A k \in Items : k # i => child'[k] = child[k]
        /\ UNCHANGED <<trashed, other>>
        /\ ~Working(DocOf[i]) /\ ~trashed[DocOf[i]]
    BY <1>3 DEF AdmitItem, Skips, TypeOK
  <2> SUFFICES ASSUME NEW d \in Docs PROVE Calm(d)'
    BY <1>q
  <2>2. CASE d = DocOf[i]
    <3>1. Wanted(d)' \subseteq {i} /\ other'[d] # "pending" /\ ~trashed'[d]
      BY <2>1, <2>2 DEF Wanted, Working
    <3> QED
      BY <3>1
  <2>3. CASE d # DocOf[i]
    <3>1. Wanted(d)' = Wanted(d)
      BY <2>1, <2>3 DEF Wanted
    <3> QED
      BY <1>0, <2>1, <3>1 DEF Working
  <2> QED
    BY <2>2, <2>3
<1>4. ASSUME NEW d \in Docs, OtherStarts(d) PROVE DocumentsQuiet'
  <2>1. /\ \A e \in Docs : e # d => other'[e] = other[e]
        /\ UNCHANGED <<trashed, child>>
        /\ ~Working(d) /\ ~trashed[d]
    BY <1>4 DEF OtherStarts, TypeOK, work
  <2> SUFFICES ASSUME NEW e \in Docs PROVE Calm(e)'
    BY <1>q
  <2>2. Wanted(e)' = Wanted(e)
    BY <2>1 DEF Wanted
  <2>3. CASE e = d
    BY <2>1, <2>2, <2>3 DEF Working
  <2>4. CASE e # d
    BY <1>0, <2>1, <2>2, <2>4 DEF Working
  <2> QED
    BY <2>3, <2>4
<1>5. ASSUME NEW i \in Items, ChildEnds(i) PROVE DocumentsQuiet'
  <2>1. UNCHANGED <<trashed, other>> /\ \A k \in Items : child'[k] = "pending" => child[k] = "pending"
    BY <1>5 DEF ChildEnds, TypeOK
  <2> QED
    BY <2>1, <1>1
<1>6. ASSUME NEW d \in Docs, OtherEnds(d) \/ Restore(d) PROVE DocumentsQuiet'
  <2>1. /\ UNCHANGED child
        /\ \A e \in Docs : other'[e] = "pending" => other[e] = "pending"
        /\ \A e \in Docs : trashed'[e] => trashed[e]
    BY <1>6 DEF OtherEnds, Restore, TypeOK, work
  <2> QED
    BY <2>1, <1>1
<1>7. ASSUME NEW i \in Items, DeleteItem(i) PROVE DocumentsQuiet'
  <2>0. DocOf[i] \in Docs
    BY DEF BulkAssumption
  <2>1. CASE UNCHANGED <<child, docs>>
    BY <2>1, <1>1 DEF docs
  <2>2. CASE \E how \in {"withdrawn", "cancelled"} : SoftDelete(DocOf[i], how)
    BY <2>0, <2>2, <1>2
  <2> QED
    BY <1>7, <2>1, <2>2 DEF DeleteItem
<1>8. ASSUME NEW d \in Docs, Trash(d) PROVE DocumentsQuiet'
  BY <1>8, <1>2 DEF Trash
<1>9. CASE UNCHANGED <<child, trashed, other>>
  BY <1>9, <1>1
<1>10. ASSUME NEW j \in Jobs, Submit(j) \/ Approve(j) \/ CancelJob(j) \/ Coordinator(j) \/ ReconcileJob(j)
       PROVE  UNCHANGED <<child, trashed, other>>
  BY <1>10 DEF Submit, Approve, CancelJob, Coordinator, ClaimParent, FanOut, LoseParent, FailParent, ReconcileJob, work, docs
<1>11. ASSUME NEW i \in Items, ClaimItem(i) \/ LoseItem(i) \/ FailItem(i) \/ DeferItem(i) \/ RefuseItem(i)
                                \/ SkipItem(i) \/ ConflictItem(i) \/ ConcludeItem(i) \/ ChildWorks(i)
       PROVE  UNCHANGED <<child, trashed, other>>
  BY <1>11 DEF ClaimItem, LoseItem, FailItem, DeferItem, RefuseItem, SkipItem, ConflictItem, ConcludeItem, ChildWorks, work, docs
<1>12. ASSUME NEW d \in Docs, Purge(d) PROVE UNCHANGED <<child, trashed, other>>
  BY <1>12 DEF Purge, work
<1>13. CASE ScanJobs \/ UNCHANGED vars
  BY <1>13, <1>9 DEF ScanJobs, vars, work, docs
<1> QED
  BY <1>2, <1>3, <1>4, <1>5, <1>6, <1>7, <1>8, <1>9, <1>10, <1>11, <1>12, <1>13 DEF Next, ItemStep, RunItem

----------------------------------------------------------------------------
(* Theorems.                                                               *)

LEMMA Start == BulkAssumption /\ Init => TypeOK /\ Receipts /\ DocumentsQuiet
<1> SUFFICES ASSUME BulkAssumption, Init PROVE TypeOK /\ Receipts /\ DocumentsQuiet
  OBVIOUS
<1>1. TypeOK
  <2>1. trashed \in [Docs -> BOOLEAN]
    BY Zenon DEF Init
  <2>2. doc \in [Docs -> {"ready", "halted", "busy", "review", "gone"}]
    BY DEF Init
  <2> QED
    BY <2>1, <2>2 DEF Init, TypeOK
<1>2. Receipts
  BY DEF Init, Receipts, Rows, Untouched, Told, Served, BulkAssumption
<1>3. DocumentsQuiet
  BY DEF Init, DocumentsQuiet, Wanted, Working
<1> QED
  BY <1>1, <1>2, <1>3

THEOREM Invariance == Spec => [](TypeOK /\ Receipts /\ DocumentsQuiet)
<1>1. TypeOK /\ Receipts /\ DocumentsQuiet /\ [Next]_vars => (TypeOK /\ Receipts /\ DocumentsQuiet)'
  BY BulkAssumption, TypeStep, ReceiptsStep, QuietStep
<1> QED
  BY <1>1, Start, BulkAssumption, PTL DEF Spec

(* Jobs, receipts and documents keep their types (work/bulk.py,            *)
(* job_queue.py): a report never names an open receipt.                    *)
THEOREM TypeCorrect == Spec => []TypeOK
BY Invariance, PTL

(* No two wanted works on a document, and none on one in the trash,        *)
(* whichever jobs and users ask for it (work/admission.py).                *)
THEOREM QuietDocuments == Spec => []DocumentsQuiet
BY Invariance, PTL

(* The public job says what its private receipts say (reconcile_job and    *)
(* everything that writes either).                                         *)
THEOREM ReportsAreTrue == Spec => []JobsAgree
<1>1. TypeOK /\ Receipts => JobsAgree
  <2> SUFFICES ASSUME TypeOK, Receipts PROVE JobsAgree
    OBVIOUS
  <2>1. ASSUME NEW i \in Items, job[JobOf[i]] \in {"awaiting", "queued", "cancelled"}
        PROVE  item[i] = "none" /\ child[i] = "none"
    BY <2>1, BulkAssumption DEF Receipts, Rows, Untouched, BulkAssumption
  <2> QED
    BY <2>1 DEF JobsAgree, Receipts, Told, Served
<1> QED
  BY <1>1, Invariance, PTL

(* Nothing rewrites the status or the report of a job that is over: not    *)
(* its items, nor a reconciliation that read it before (reconcile_bulk).   *)
THEOREM JobsEndOnce == Spec => EndedJobsStay
<1>1. BulkAssumption /\ TypeOK /\ Receipts /\ [Next]_vars =>
         [\A j \in Jobs : job[j] \in Ended =>
             /\ job'[j] = job[j]
             /\ \A i \in ItemsOf(j) : reported'[i] = reported[i]]_vars
  <2> SUFFICES ASSUME BulkAssumption, TypeOK, Receipts, [Next]_vars,
                      NEW j \in Jobs, job[j] \in Ended
               PROVE  job'[j] = job[j] /\ \A i \in ItemsOf(j) : reported'[i] = reported[i]
    OBVIOUS
  <2>1. ASSUME NEW k \in Jobs, job[k] = "running", NEW f \in [Items -> ItemStates], Project(f, k)
        PROVE  job'[j] = job[j] /\ \A i \in ItemsOf(j) : reported'[i] = reported[i]
    <3>1. k # j
      BY <2>1 DEF Ended
    <3>2. /\ \A h \in Jobs : h # k => job'[h] = job[h]
          /\ \A i \in Items : JobOf[i] # k => reported'[i] = reported[i]
      BY <2>1, Projected
    <3> QED
      BY <3>1, <3>2 DEF ItemsOf
  <2>2. ASSUME NEW k \in Jobs, Submit(k) \/ Approve(k) \/ CancelJob(k) \/ Coordinator(k)
        PROVE  job'[j] = job[j] /\ \A i \in ItemsOf(j) : reported'[i] = reported[i]
    BY <2>2 DEF Submit, Approve, CancelJob, Coordinator, ClaimParent, FanOut, LoseParent, FailParent, TypeOK, Ended, ItemsOf
  <2>3. ASSUME NEW k \in Jobs, ReconcileJob(k)
        PROVE  job'[j] = job[j] /\ \A i \in ItemsOf(j) : reported'[i] = reported[i]
    <3>1. CASE StillPending(k) /\ parent[k] \in {"failed", "cancelled"}
      BY <2>3, <3>1 DEF ReconcileJob, StillPending, TypeOK, Ended, ItemsOf
    <3>2. CASE StillPending(k) /\ parent[k] \notin {"failed", "cancelled"} /\ job[k] = "running"
      <4>1. Project(item, k)
        BY <2>3, <3>2 DEF ReconcileJob
      <4>2. item \in [Items -> ItemStates]
        BY DEF TypeOK, ItemStates
      <4> QED
        BY <2>1, <3>2, <4>1, <4>2
    <3>3. CASE ~StillPending(k) \/ (parent[k] \notin {"failed", "cancelled"} /\ job[k] # "running")
      BY <2>3, <3>3 DEF ReconcileJob
    <3> QED
      BY <3>1, <3>2, <3>3
  <2>4. ASSUME NEW i \in Items,
               SkipItem(i) \/ ConflictItem(i) \/ RefuseItem(i) \/ ConcludeItem(i) \/ DeleteItem(i)
        PROVE  job'[j] = job[j] /\ \A k \in ItemsOf(j) : reported'[k] = reported[k]
    <3>1. PICK outcome \in ItemEnded : EndItem(i, outcome)
      BY <2>4 DEF SkipItem, ConflictItem, RefuseItem, ConcludeItem, DeleteItem, ItemEnded
    <3>2. job[JobOf[i]] = "running"
      BY <2>4 DEF SkipItem, ConflictItem, RefuseItem, ConcludeItem, DeleteItem, Admits, Runs, Receipts, Served
    <3>3. item' \in [Items -> ItemStates] /\ Project(item', JobOf[i]) /\ JobOf[i] \in Jobs
      BY <3>1, <3>2, ItemEnds
    <3> QED
      BY <2>1, <3>2, <3>3
  <2>5. CASE UNCHANGED <<job, reported>>
    BY <2>5
  <2>6. ASSUME NEW i \in Items, ClaimItem(i) \/ LoseItem(i) \/ FailItem(i) \/ DeferItem(i) \/ AdmitItem(i)
                                 \/ ChildWorks(i) \/ ChildEnds(i)
        PROVE  UNCHANGED <<job, reported>>
    BY <2>6 DEF ClaimItem, LoseItem, FailItem, DeferItem, AdmitItem, ChildWorks, ChildEnds
  <2>7. ASSUME NEW d \in Docs, OtherStarts(d) \/ OtherEnds(d) \/ Trash(d) \/ Restore(d) \/ Purge(d)
        PROVE  UNCHANGED <<job, reported>>
    BY <2>7 DEF OtherStarts, OtherEnds, Trash, Restore, Purge
  <2>8. CASE ScanJobs \/ UNCHANGED vars
    BY <2>8 DEF ScanJobs, vars
  <2> QED
    BY <2>2, <2>3, <2>4, <2>5, <2>6, <2>7, <2>8 DEF Next, ItemStep, RunItem
<1> QED
  BY <1>1, Invariance, BulkAssumption, PTL DEF Spec, EndedJobsStay
----------------------------------------------------------------------------
(* Rows as items of WorkPromise.  A coordinator, an item and a document's  *)
(* work move along these pairs of states, and each of them is a stutter or *)
(* a step of the promise.                                                  *)
Moves == {<<"none", "queued">>, <<"none", "pending">>,
          <<"queued", "running">>, <<"running", "queued">>,
          <<"running", "succeeded">>, <<"running", "failed">>, <<"running", "done">>, <<"running", "skipped">>,
          <<"pending", "succeeded">>, <<"pending", "failed">>,
          <<"queued", "cancelled">>, <<"pending", "cancelled">>,
          <<"running", "withdrawn">>, <<"pending", "withdrawn">>, <<"withdrawn", "cancelled">>}

Moved(s, t) == s = t \/ <<s, t>> \in Moves

Accepted(s, t)  == Phase(s) = "absent" /\ Phase(t) = "open" /\ Stopped(s) = Stopped(t)
Withdrawn(s, t) == Phase(s) = "open" /\ Phase(t) \in {"open", "cancelled"} /\ Stopped(t)
Settled(s, t)   == /\ Phase(s) = "open" /\ Phase(t) \in {"succeeded", "failed", "cancelled"}
                   /\ Stopped(s) => Phase(t) = "cancelled"
                   /\ Stopped(s) = Stopped(t)

LEMMA MovesArePromised ==
    ASSUME NEW s, NEW t, Moved(s, t)
    PROVE  Row(s) = Row(t) \/ Accepted(s, t) \/ Withdrawn(s, t) \/ Settled(s, t)
BY DEF Moved, Moves, Row, Accepted, Withdrawn, Settled, Phase, Stopped

LEMMA CoordinatorKeeps ==
    ASSUME NEW j \in Jobs, Moved(parent[j], parent'[j])
    PROVE  [Coordination(j)!PromiseNext]_(Row(parent[j]))
<1> DEFINE s == parent[j]
           t == parent'[j]
<1>1. CASE Row(s) = Row(t)
  BY <1>1
<1>2. CASE Accepted(s, t)
  <2>1. Coordination(j)!Accept(j)
    BY <1>2 DEF Accepted, Coordination!Accept
  <2> QED BY <2>1 DEF Coordination!PromiseNext
<1>3. CASE Withdrawn(s, t)
  <2>1. Coordination(j)!Withdraw(j)
    BY <1>3 DEF Withdrawn, Coordination!Withdraw
  <2> QED BY <2>1 DEF Coordination!PromiseNext
<1>4. CASE Settled(s, t)
  <2>1. Coordination(j)!Settle({j}, Phase(t))
    BY <1>4 DEF Settled, Coordination!Settle
  <2>2. {j} \in SUBSET {j} /\ Phase(t) \in Coordination(j)!Outcomes
    BY <1>4 DEF Settled, Coordination!Outcomes
  <2> QED BY <2>1, <2>2 DEF Coordination!PromiseNext
<1> QED BY <1>1, <1>2, <1>3, <1>4, MovesArePromised

LEMMA ItemKeeps ==
    ASSUME NEW i \in Items, Moved(item[i], item'[i])
    PROVE  [ItemWork(i)!PromiseNext]_(Row(item[i]))
<1> DEFINE s == item[i]
           t == item'[i]
<1>1. CASE Row(s) = Row(t)
  BY <1>1
<1>2. CASE Accepted(s, t)
  <2>1. ItemWork(i)!Accept(i)
    BY <1>2 DEF Accepted, ItemWork!Accept
  <2> QED BY <2>1 DEF ItemWork!PromiseNext
<1>3. CASE Withdrawn(s, t)
  <2>1. ItemWork(i)!Withdraw(i)
    BY <1>3 DEF Withdrawn, ItemWork!Withdraw
  <2> QED BY <2>1 DEF ItemWork!PromiseNext
<1>4. CASE Settled(s, t)
  <2>1. ItemWork(i)!Settle({i}, Phase(t))
    BY <1>4 DEF Settled, ItemWork!Settle
  <2>2. {i} \in SUBSET {i} /\ Phase(t) \in ItemWork(i)!Outcomes
    BY <1>4 DEF Settled, ItemWork!Outcomes
  <2> QED BY <2>1, <2>2 DEF ItemWork!PromiseNext
<1> QED BY <1>1, <1>2, <1>3, <1>4, MovesArePromised

LEMMA DocumentKeeps ==
    ASSUME NEW i \in Items, Moved(child[i], child'[i])
    PROVE  [DocumentWork(i)!PromiseNext]_(Row(child[i]))
<1> DEFINE s == child[i]
           t == child'[i]
<1>1. CASE Row(s) = Row(t)
  BY <1>1
<1>2. CASE Accepted(s, t)
  <2>1. DocumentWork(i)!Accept(i)
    BY <1>2 DEF Accepted, DocumentWork!Accept
  <2> QED BY <2>1 DEF DocumentWork!PromiseNext
<1>3. CASE Withdrawn(s, t)
  <2>1. DocumentWork(i)!Withdraw(i)
    BY <1>3 DEF Withdrawn, DocumentWork!Withdraw
  <2> QED BY <2>1 DEF DocumentWork!PromiseNext
<1>4. CASE Settled(s, t)
  <2>1. DocumentWork(i)!Settle({i}, Phase(t))
    BY <1>4 DEF Settled, DocumentWork!Settle
  <2>2. {i} \in SUBSET {i} /\ Phase(t) \in DocumentWork(i)!Outcomes
    BY <1>4 DEF Settled, DocumentWork!Outcomes
  <2> QED BY <2>1, <2>2 DEF DocumentWork!PromiseNext
<1> QED BY <1>1, <1>2, <1>3, <1>4, MovesArePromised

LEMMA RowsMove ==
    ASSUME BulkAssumption, TypeOK, Receipts, [Next]_vars
    PROVE  /\ \A j \in Jobs : Moved(parent[j], parent'[j])
           /\ \A i \in Items : Moved(item[i], item'[i]) /\ Moved(child[i], child'[i])
<1> DEFINE P == \A j \in Jobs : Moved(parent[j], parent'[j])
           I == \A i \in Items : Moved(item[i], item'[i])
           C == \A i \in Items : Moved(child[i], child'[i])
<1> SUFFICES P /\ I /\ C
  OBVIOUS
<1> USE DEF Moved, Moves
<1>1. parent' = parent => P
  OBVIOUS
<1>2. item' = item => I
  OBVIOUS
<1>3. child' = child => C
  OBVIOUS
<1>4. ASSUME NEW j \in Jobs, Submit(j) \/ Approve(j) \/ CancelJob(j) \/ ClaimParent(j) \/ LoseParent(j) \/ FailParent(j)
      PROVE  P /\ I /\ C
  <2>1. item' = item /\ child' = child
    BY <1>4 DEF Submit, Approve, CancelJob, ClaimParent, LoseParent, FailParent
  <2>2. CASE Submit(j) BY <2>2 DEF Submit, TypeOK, Receipts, Rows
  <2>3. CASE Approve(j) BY <2>3 DEF Approve, TypeOK, Receipts, Rows
  <2>4. CASE CancelJob(j) BY <2>4 DEF CancelJob, TypeOK, Receipts, Rows
  <2>5. CASE ClaimParent(j) BY <2>5 DEF ClaimParent, TypeOK
  <2>6. CASE LoseParent(j) BY <2>6 DEF LoseParent, TypeOK
  <2>7. CASE FailParent(j) BY <2>7 DEF FailParent, TypeOK
  <2> QED BY <1>4, <1>2, <1>3, <2>1, <2>2, <2>3, <2>4, <2>5, <2>6, <2>7
<1>5. ASSUME NEW j \in Jobs, FanOut(j) PROVE P /\ I /\ C
  <2>1. \A i \in Items : JobOf[i] = j => item[i] = "none"
    BY <1>5 DEF FanOut, Receipts, Untouched
  <2>2. P
    BY <1>5 DEF FanOut, TypeOK
  <2>3. I
    BY <1>5, <2>1 DEF FanOut
  <2> QED BY <1>3, <1>5, <2>2, <2>3 DEF FanOut
<1>6. ASSUME NEW i \in Items, ClaimItem(i) \/ LoseItem(i) \/ FailItem(i) \/ DeferItem(i) PROVE P /\ I /\ C
  <2>1. parent' = parent /\ child' = child
    BY <1>6 DEF ClaimItem, LoseItem, FailItem, DeferItem, docs
  <2>2. I
    BY <1>6 DEF ClaimItem, LoseItem, FailItem, DeferItem, Runs, TypeOK
  <2> QED BY <1>1, <1>3, <2>1, <2>2
<1>7. ASSUME NEW i \in Items, AdmitItem(i) PROVE P /\ I /\ C
  BY <1>1, <1>7 DEF AdmitItem, Admits, Runs, TypeOK
<1>8. ASSUME NEW i \in Items, NEW outcome \in ItemEnded, Runs(i), EndItem(i, outcome) PROVE I
  BY <1>8 DEF EndItem, Runs, ItemEnded, TypeOK
<1>9. ASSUME NEW i \in Items, SkipItem(i) \/ ConflictItem(i) \/ RefuseItem(i) \/ ConcludeItem(i)
      PROVE  P /\ I /\ C
  <2>1. Runs(i) /\ \E outcome \in ItemEnded : EndItem(i, outcome)
    BY <1>9 DEF SkipItem, ConflictItem, RefuseItem, ConcludeItem, Admits, ItemEnded
  <2>2. parent' = parent /\ child' = child
    BY <1>9 DEF SkipItem, ConflictItem, RefuseItem, ConcludeItem
  <2> QED BY <1>1, <1>3, <1>8, <2>1, <2>2
<1>10. ASSUME NEW d \in Docs, NEW how \in {"withdrawn", "cancelled"}, SoftDelete(d, how) PROVE C
  BY <1>10, Deleted
<1>11. ASSUME NEW i \in Items, DeleteItem(i) PROVE P /\ I /\ C
  <2>1. Runs(i) /\ parent' = parent /\ \E outcome \in ItemEnded : EndItem(i, outcome)
    BY <1>11 DEF DeleteItem, ItemEnded
  <2>2. child' = child \/ \E how \in {"withdrawn", "cancelled"} : SoftDelete(DocOf[i], how)
    BY <1>11 DEF DeleteItem
  <2>3. DocOf[i] \in Docs
    BY DEF BulkAssumption
  <2> QED BY <1>1, <1>3, <1>8, <1>10, <2>1, <2>2, <2>3
<1>12. ASSUME NEW i \in Items, ChildWorks(i) \/ ChildEnds(i) PROVE P /\ I /\ C
  <2>1. parent' = parent /\ item' = item
    BY <1>12 DEF ChildWorks, ChildEnds, work
  <2>2. C
    BY <1>12 DEF ChildWorks, ChildEnds, work, TypeOK
  <2> QED BY <1>1, <1>2, <2>1, <2>2
<1>13. ASSUME NEW d \in Docs, Trash(d) PROVE P /\ I /\ C
  <2>1. parent' = parent /\ item' = item /\ \E how \in {"withdrawn", "cancelled"} : SoftDelete(d, how)
    BY <1>13 DEF Trash
  <2> QED BY <1>1, <1>2, <1>10, <2>1
<1>14. CASE UNCHANGED work
  BY <1>1, <1>2, <1>3, <1>14 DEF work
<1>15. ASSUME NEW d \in Docs, OtherStarts(d) \/ OtherEnds(d) \/ Restore(d) \/ Purge(d) PROVE UNCHANGED work
  BY <1>15 DEF OtherStarts, OtherEnds, Restore, Purge
<1>16. ASSUME NEW j \in Jobs, ReconcileJob(j) PROVE UNCHANGED work
  BY <1>16 DEF ReconcileJob
<1>17. ASSUME ScanJobs \/ UNCHANGED vars PROVE UNCHANGED work
  BY <1>17 DEF ScanJobs, vars
<1> QED
  BY <1>4, <1>5, <1>6, <1>7, <1>9, <1>11, <1>12, <1>13, <1>14, <1>15, <1>16, <1>17
  DEF Next, Coordinator, ItemStep, RunItem

(* Bulk jobs use the ledger as it promises to be used: no row is enqueued  *)
(* again, settles twice or settles otherwise than its cancellation says,   *)
(* although a fan-out, a deletion and a reconciliation write many of them  *)
(* in one transaction (work/bulk.py, work/admission.py).                   *)
THEOREM RowsKeepPromise == Spec => KeepsLedgerPromise
<1> DEFINE A == /\ \A j \in Jobs : [Coordination(j)!PromiseNext]_(Row(parent[j]))
                /\ \A i \in Items : /\ [ItemWork(i)!PromiseNext]_(Row(item[i]))
                                    /\ [DocumentWork(i)!PromiseNext]_(Row(child[i]))
<1>1. BulkAssumption /\ TypeOK /\ Receipts /\ [Next]_vars => A
  BY RowsMove, CoordinatorKeeps, ItemKeeps, DocumentKeeps
<1> HIDE DEF A
<1>2. Spec => [][A]_work
  BY <1>1, Invariance, BulkAssumption, PTL DEF Spec
<1> QED BY <1>2 DEF A, KeepsLedgerPromise
=============================================================================
