------------------------------ MODULE BulkJobs ------------------------------
(***************************************************************************)
(* Bulk deletion, regeneration and resumption of documents in the          *)
(* replicas-v1 deployment: admission, approval and cancellation of a job   *)
(* (job_queue.py), the coordinator that fans it out into items, the items, *)
(* which admit a document's work and wait for it by deferring, and the     *)
(* periodic reconciliation of the public job with its private receipts     *)
(* (work/bulk.py).                                                         *)
(*                                                                         *)
(* The rows of the work ledger are taken from WorkStore in the states told *)
(* apart here: "running" is claimed, "withdrawn" is running with           *)
(* cancel_requested, and a lost or retried attempt is back at "queued".    *)
(* That a retired attempt commits nothing is WorkExecution's. Coordinators *)
(* hold the admission lock, so their transactions are serial and are the   *)
(* actions; reconciliation holds the lock of one job at a time.            *)
(***************************************************************************)
EXTENDS Integers, FiniteSets

CONSTANTS
    Jobs, Items, Docs,
    JobOf,          \* the job and the document of an item
    DocOf,
    Kind,           \* Kind[j]: "delete", "resume" or "regenerate"
    NeedsApproval,  \* jobs with as many documents as the threshold
    MaxPending,     \* job_queue_max_pending
    MaxDocuments,   \* document work pending at once
    Others          \* bound: documents that others have work for, once each

ASSUME BulkAssumption ==
    /\ JobOf \in [Items -> Jobs] /\ DocOf \in [Items -> Docs]
    /\ Kind \in [Jobs -> {"delete", "resume", "regenerate"}]
    /\ NeedsApproval \subseteq {j \in Jobs : Kind[j] # "resume"}
    /\ \A j \in Jobs : \E i \in Items : JobOf[i] = j     \* an empty list is refused
    /\ Others \subseteq Docs
    /\ MaxPending \in Nat \ {0} /\ MaxDocuments \in Nat \ {0}

VARIABLES
    job,       \* status of the public job
    reported,  \* reported[i]: what job.result says of the item
    parent,    \* the work "bulk/<job>"
    item,      \* the work "bulk-item/<job>/<index>"; succeeded is "done", or "skipped" if it has a code
    child,     \* the document work an item admitted
    doc,       \* "ready", "halted" (paused or failed), "busy", "review" or "gone"
    trashed,
    other,     \* other[d]: work of the document that no bulk job asked for
    scan       \* jobs reconciliation has read and not yet visited

work == <<parent, item, child>>
docs == <<doc, trashed, other>>
vars == <<job, reported, work, docs, scan>>

Ended     == {"completed", "failed", "cancelled"}
ItemEnded == {"done", "skipped", "failed"}

(* Documents are in any state the rest of the system may leave them in.    *)
Init == /\ job = [j \in Jobs |-> "none"]
        /\ reported = [i \in Items |-> "none"]
        /\ parent = [j \in Jobs |-> "none"]
        /\ item = [i \in Items |-> "none"]
        /\ child = [i \in Items |-> "none"]
        /\ doc \in [Docs -> {"ready", "halted", "review", "gone"}]
        /\ trashed = [d \in Docs |-> FALSE]
        /\ other = [d \in Docs |-> "none"]
        /\ scan = {}

----------------------------------------------------------------------------
ItemsOf(j) == {i \in Items : JobOf[i] = j}
DocsOf(j)  == {DocOf[i] : i \in ItemsOf(j)}
PendingJobs == {j \in Jobs : job[j] \in {"awaiting", "queued", "running"}}

(* reserved_generation_doc_ids                                             *)
Reserved == UNION {DocsOf(j) : j \in {k \in PendingJobs : Kind[k] # "delete"}}

(* Document work that is wanted, and all that takes room in its queue.     *)
Wanted(d) == {i \in Items : DocOf[i] = d /\ child[i] = "pending"}
Working(d) == Wanted(d) # {} \/ other[d] = "pending"
Occupied == Cardinality({i \in Items : child[i] \in {"pending", "withdrawn"}})
          + Cardinality({d \in Docs : other[d] \in {"pending", "withdrawn"}})

(* invalidate_document_intents: a queued work is cancelled at once, a      *)
(* running one is told to stop (how is a parameter).                       *)
InvalidatedNone(d) == {}                                 \* mutant
Invalidated(d) == Wanted(d)

Withdraw(d, how) ==
    /\ child' = [i \in Items |-> IF i \in Invalidated(d) THEN how ELSE child[i]]
    /\ other' = [other EXCEPT ![d] = IF @ # "pending" THEN @
                                       ELSE IF how = "cancelled" THEN "over" ELSE how]
    /\ doc' = [doc EXCEPT ![d] = IF Working(d) /\ @ = "busy" THEN "halted" ELSE @]

(* registry.soft_delete of a document that exists, trashed already or not. *)
SoftDelete(d, how) ==
    /\ Withdraw(d, how)
    /\ trashed' = [trashed EXCEPT ![d] = TRUE]

(* reconcile_job, of items in the states f.                                *)
Shown(s) == IF s \in ItemEnded THEN s ELSE "none"

AllEndedButSkipped(f, j) == \A i \in ItemsOf(j) : f[i] \in {"done", "failed"}  \* mutant
AllEnded(f, j) == \A i \in ItemsOf(j) : f[i] \in ItemEnded

VerdictOfAnyError(f, j) ==                               \* mutant
    IF \E i \in ItemsOf(j) : f[i] = "failed" THEN "failed" ELSE "completed"
Verdict(f, j) ==
    IF (\E i \in ItemsOf(j) : f[i] = "failed") /\ (\A i \in ItemsOf(j) : f[i] # "done")
    THEN "failed" ELSE "completed"

Project(f, j) ==
    /\ reported' = [i \in Items |-> IF JobOf[i] = j THEN Shown(f[i]) ELSE reported[i]]
    /\ job' = [job EXCEPT ![j] = IF AllEnded(f, j) THEN Verdict(f, j) ELSE @]

----------------------------------------------------------------------------
(* Administrators (JobQueue).                                              *)

Submit(j) ==
    /\ job[j] = "none"
    /\ Cardinality(PendingJobs) < MaxPending
    /\ Kind[j] = "resume" => DocsOf(j) \cap Reserved = {}
    /\ IF j \in NeedsApproval
       THEN job' = [job EXCEPT ![j] = "awaiting"] /\ UNCHANGED parent
       ELSE job' = [job EXCEPT ![j] = "queued"] /\ parent' = [parent EXCEPT ![j] = "queued"]
    /\ UNCHANGED <<reported, item, child, docs, scan>>

Approve(j) ==
    /\ job[j] = "awaiting"
    /\ job' = [job EXCEPT ![j] = "queued"]
    /\ parent' = [parent EXCEPT ![j] = "queued"]
    /\ UNCHANGED <<reported, item, child, docs, scan>>

(* A job that has not fanned out, although its coordinator may be claimed. *)
CancelJob(j) ==
    /\ job[j] \in {"awaiting", "queued"}
    /\ job' = [job EXCEPT ![j] = "cancelled"]
    /\ parent' = [parent EXCEPT ![j] = CASE @ = "queued" -> "cancelled"
                                         [] @ = "running" -> "withdrawn"
                                         [] OTHER -> @]
    /\ UNCHANGED <<reported, item, child, docs, scan>>

----------------------------------------------------------------------------
(* The coordinator of a job.                                               *)

ClaimParent(j) ==
    /\ parent[j] = "queued"
    /\ parent' = [parent EXCEPT ![j] = "running"]
    /\ UNCHANGED <<job, reported, item, child, docs, scan>>

(* run_bulk: items, status and its own receipt in one transaction.         *)
FanOut(j) ==
    /\ parent[j] = "running"
    /\ job[j] \in {"queued", "running"}
    /\ parent' = [parent EXCEPT ![j] = "succeeded"]
    /\ item' = [i \in Items |-> IF JobOf[i] = j THEN "queued" ELSE item[i]]
    /\ reported' = [i \in Items |-> IF JobOf[i] = j THEN "none" ELSE reported[i]]
    /\ job' = [job EXCEPT ![j] = "running"]
    /\ UNCHANGED <<child, docs, scan>>

(* The attempt is lost, or had been asked to stop; or the handler raised.  *)
LoseParent(j) ==
    /\ parent[j] \in {"running", "withdrawn"}
    /\ parent' = [parent EXCEPT ![j] = IF @ = "running" THEN "queued" ELSE "cancelled"]
    /\ UNCHANGED <<job, reported, item, child, docs, scan>>

FailParent(j) ==
    /\ parent[j] = "running"
    /\ parent' = [parent EXCEPT ![j] = "failed"]
    /\ UNCHANGED <<job, reported, item, child, docs, scan>>

----------------------------------------------------------------------------
(* An item. Its transaction locks admission, its work and the job.         *)

ClaimItem(i) ==
    /\ item[i] = "queued"
    /\ item' = [item EXCEPT ![i] = "running"]
    /\ UNCHANGED <<job, reported, parent, child, docs, scan>>

LoseItem(i) ==
    /\ item[i] = "running"
    /\ item' = [item EXCEPT ![i] = "queued"]
    /\ UNCHANGED <<job, reported, parent, child, docs, scan>>

(* The handler raised (a conflict of scopes is no DomainError): the worker *)
(* fails the item and knows nothing of the job.                            *)
FailItem(i) ==
    /\ item[i] = "running"
    /\ item' = [item EXCEPT ![i] = "failed"]
    /\ UNCHANGED <<job, reported, parent, child, docs, scan>>

Runs(i) == item[i] = "running" /\ job[JobOf[i]] \in {"queued", "running"}

EndItem(i, outcome) ==
    /\ item' = [item EXCEPT ![i] = outcome]
    /\ Project(item', JobOf[i])

DeleteItem(i) ==
    /\ Runs(i) /\ Kind[JobOf[i]] = "delete"
    /\ \/ /\ doc[DocOf[i]] = "gone"
          /\ EndItem(i, "failed")
          /\ UNCHANGED <<child, docs>>
       \/ /\ doc[DocOf[i]] # "gone"
          /\ EndItem(i, "done")
          /\ \E how \in {"withdrawn", "cancelled"} : SoftDelete(DocOf[i], how)
    /\ UNCHANGED <<parent, scan>>

(* generation_skip_code                                                    *)
Skips(i) == LET d == DocOf[i] IN
    \/ trashed[d] \/ doc[d] \in {"gone", "review", "busy"}
    \/ Kind[JobOf[i]] = "resume" /\ doc[d] # "halted"

Admits(i) == Runs(i) /\ Kind[JobOf[i]] # "delete" /\ child[i] = "none"

SkipItem(i) ==
    /\ Admits(i) /\ Skips(i)
    /\ EndItem(i, "skipped")
    /\ UNCHANGED <<parent, child, docs, scan>>

(* enqueue_existing_document finds other work of the document ...          *)
ConflictItem(i) ==
    /\ Admits(i) /\ ~Skips(i) /\ Working(DocOf[i])
    /\ EndItem(i, "failed")
    /\ UNCHANGED <<parent, child, docs, scan>>

(* ... or no original.                                                     *)
RefuseItem(i) ==
    /\ Admits(i) /\ ~Skips(i)
    /\ EndItem(i, "failed")
    /\ UNCHANGED <<parent, child, docs, scan>>

(* The document's work is admitted under a key of the item's own, and the  *)
(* item deferred (or its attempt lost before: the same here).              *)
AdmitItem(i) ==
    /\ Admits(i) /\ ~Skips(i)
    /\ ~Working(DocOf[i]) /\ Occupied < MaxDocuments
    /\ child' = [child EXCEPT ![i] = "pending"]
    /\ doc' = [doc EXCEPT ![DocOf[i]] = "busy"]
    /\ item' = [item EXCEPT ![i] = "queued"]
    /\ UNCHANGED <<job, reported, parent, trashed, other, scan>>

(* The queue of documents is full, or the document is still being worked.  *)
DeferItem(i) ==
    /\ Runs(i)
    /\ \/ Admits(i) /\ ~Skips(i) /\ ~Working(DocOf[i]) /\ Occupied >= MaxDocuments
       \/ child[i] \in {"pending", "withdrawn"}
    /\ item' = [item EXCEPT ![i] = "queued"]
    /\ UNCHANGED <<job, reported, parent, child, docs, scan>>

ConcludeItem(i) ==
    /\ Runs(i)
    /\ child[i] \in {"succeeded", "failed", "cancelled"}
    /\ EndItem(i, IF child[i] = "succeeded" THEN "done" ELSE "failed")
    /\ UNCHANGED <<parent, child, docs, scan>>

RunItem(i) == DeleteItem(i) \/ SkipItem(i) \/ ConflictItem(i) \/ AdmitItem(i) \/ ConcludeItem(i)

----------------------------------------------------------------------------
(* reconcile_bulk: the jobs are read in one transaction (here all, in the  *)
(* code the first 100), and visited each in one of its own.                *)

ScanJobs ==
    /\ scan = {}
    /\ scan' = {j \in Jobs : job[j] \in {"queued", "running"}}
    /\ UNCHANGED <<job, reported, work, docs>>

RereadNothing(j) == TRUE                                 \* mutant
StillPending(j) == job[j] \in {"queued", "running"}

ReconcileJob(j) ==
    /\ j \in scan
    /\ scan' = scan \ {j}
    /\ IF StillPending(j) /\ parent[j] \in {"failed", "cancelled"}
       THEN /\ job' = [job EXCEPT ![j] = "failed"]
            /\ reported' = [i \in Items |-> IF JobOf[i] = j THEN "none" ELSE reported[i]]
       ELSE IF StillPending(j) /\ job[j] = "running"
            THEN Project(item, j)
            ELSE UNCHANGED <<job, reported>>
    /\ UNCHANGED <<work, docs>>

----------------------------------------------------------------------------
(* The documents, as the rest of the system treats them (Generations).     *)

(* An attempt that fails halts the document first, and may be retried.     *)
ChildWorks(i) ==
    /\ child[i] = "pending"
    /\ \E s \in {"busy", "halted"} : doc' = [doc EXCEPT ![DocOf[i]] = s]
    /\ UNCHANGED <<job, reported, work, trashed, other, scan>>

(* An attempt that was told to stop commits nothing and ends cancelled.    *)
ChildEnds(i) ==
    /\ \/ /\ child[i] = "pending"
          /\ \/ child' = [child EXCEPT ![i] = "succeeded"] /\ doc' = [doc EXCEPT ![DocOf[i]] = "ready"]
             \/ child' = [child EXCEPT ![i] = "failed"] /\ doc' = [doc EXCEPT ![DocOf[i]] = "halted"]
       \/ /\ child[i] = "withdrawn"
          /\ child' = [child EXCEPT ![i] = "cancelled"]
          /\ UNCHANGED doc
    /\ UNCHANGED <<job, reported, parent, item, trashed, other, scan>>

(* Work of a user, or a repair, which leaves the status.                   *)
OtherStarts(d) ==
    /\ d \in Others /\ other[d] = "none" /\ ~trashed[d] /\ doc[d] \in {"ready", "halted"}
    /\ ~Working(d) /\ Occupied < MaxDocuments
    /\ other' = [other EXCEPT ![d] = "pending"]
    /\ \E s \in {"busy", doc[d]} : doc' = [doc EXCEPT ![d] = s]
    /\ UNCHANGED <<job, reported, work, trashed, scan>>

OtherEnds(d) ==
    /\ other[d] \in {"pending", "withdrawn"}
    /\ other' = [other EXCEPT ![d] = "over"]
    /\ IF other[d] = "pending" /\ doc[d] = "busy"
       THEN \E s \in {"ready", "halted"} : doc' = [doc EXCEPT ![d] = s]
       ELSE UNCHANGED doc
    /\ UNCHANGED <<job, reported, work, trashed, scan>>

Trash(d) ==
    /\ doc[d] # "gone" /\ ~trashed[d]
    /\ \E how \in {"withdrawn", "cancelled"} : SoftDelete(d, how)
    /\ UNCHANGED <<job, reported, parent, item, scan>>

Restore(d) ==
    /\ trashed[d] /\ doc[d] # "gone"
    /\ trashed' = [trashed EXCEPT ![d] = FALSE]
    /\ UNCHANGED <<job, reported, work, doc, other, scan>>

Purge(d) ==
    /\ trashed[d] /\ doc[d] # "gone"
    /\ doc' = [doc EXCEPT ![d] = "gone"]
    /\ UNCHANGED <<job, reported, work, trashed, other, scan>>

----------------------------------------------------------------------------
Coordinator(j) == ClaimParent(j) \/ FanOut(j) \/ LoseParent(j) \/ FailParent(j)
ItemStep(i) == ClaimItem(i) \/ LoseItem(i) \/ FailItem(i) \/ DeferItem(i) \/ RefuseItem(i) \/ RunItem(i)

Next == \/ \E j \in Jobs : Submit(j) \/ Approve(j) \/ CancelJob(j) \/ Coordinator(j) \/ ReconcileJob(j)
        \/ \E i \in Items : ItemStep(i) \/ ChildWorks(i) \/ ChildEnds(i)
        \/ \E d \in Docs : OtherStarts(d) \/ OtherEnds(d) \/ Trash(d) \/ Restore(d) \/ Purge(d)
        \/ ScanJobs

Spec == Init /\ [][Next]_vars

(* Workers poll, documents are worked to an end, reconciliation recurs.    *)
(* An attempt may be lost any number of times, but not every one is; no    *)
(* failure is needed, and a full queue of documents is waited for.         *)
FairSpec ==
    /\ Spec
    /\ \A j \in Jobs : /\ WF_vars(ClaimParent(j)) /\ SF_vars(FanOut(j)) /\ WF_vars(ReconcileJob(j))
    /\ \A i \in Items : /\ WF_vars(ClaimItem(i)) /\ SF_vars(RunItem(i)) /\ WF_vars(ChildEnds(i))
    /\ \A d \in Docs : WF_vars(OtherEnds(d))
    /\ WF_vars(ScanJobs)

----------------------------------------------------------------------------
(* Properties.                                                             *)

(* Jobs, receipts and documents are in states of their kinds; a report     *)
(* names outcomes only.                                                    *)
TypeOK == /\ job \in [Jobs -> {"none", "awaiting", "queued", "running"} \cup Ended]
          /\ reported \in [Items -> {"none"} \cup ItemEnded]
          /\ parent \in [Jobs -> {"none", "queued", "running", "withdrawn", "succeeded", "failed", "cancelled"}]
          /\ item \in [Items -> {"none", "queued", "running"} \cup ItemEnded]
          /\ child \in [Items -> {"none", "pending", "withdrawn", "succeeded", "failed", "cancelled"}]
          /\ doc \in [Docs -> {"ready", "halted", "busy", "review", "gone"}]
          /\ trashed \in [Docs -> BOOLEAN]
          /\ other \in [Docs -> {"none", "pending", "withdrawn", "over"}]
          /\ scan \subseteq Jobs

(* What an administrator reads of a job is what happened: a job that ended *)
(* after its fan-out reports the outcome of every item, and failed only if *)
(* nothing was done; an item whose receipt is open belongs to a running    *)
(* job, so that its transaction is not refused; a job that was cancelled,  *)
(* or waits for approval, has touched nothing.                             *)
JobsAgree ==
    /\ \A j \in Jobs : job[j] \in {"completed", "failed"} /\ parent[j] = "succeeded" =>
          /\ \A i \in ItemsOf(j) : item[i] \in ItemEnded /\ reported[i] = item[i]
          /\ job[j] = "failed" <=> /\ \E i \in ItemsOf(j) : item[i] = "failed"
                                   /\ \A i \in ItemsOf(j) : item[i] # "done"
    /\ \A i \in Items : item[i] \in {"queued", "running"} => job[JobOf[i]] = "running"
    /\ \A i \in Items : job[JobOf[i]] \in {"awaiting", "queued", "cancelled"} =>
          item[i] = "none" /\ child[i] = "none"

(* A job ends once: neither its last item nor a reconciliation that read   *)
(* it before rewrites the status or the report of a job that is over.      *)
EndedJobsStay == [][\A j \in Jobs : job[j] \in Ended =>
    /\ job'[j] = job[j]
    /\ \A i \in ItemsOf(j) : reported'[i] = reported[i]]_vars

(* Whoever asks for it, a document is worked on by one wanted work at a    *)
(* time, and by none while it is in the trash: a bulk deletion stops what  *)
(* another bulk job has under way.                                         *)
DocumentsQuiet == \A d \in Docs :
    /\ trashed[d] => ~Working(d)
    /\ \A i, k \in Wanted(d) : i = k
    /\ Wanted(d) # {} => other[d] # "pending"

(* Each row is used as an item of WorkPromise, which WorkStore keeps: it   *)
(* is enqueued once, whatever fans out or is admitted again, settles once, *)
(* and is never told to stop after it settled.                             *)
Phase(s) == CASE s = "none" -> "absent"
              [] s \in {"queued", "running", "pending", "withdrawn"} -> "open"
              [] s \in {"done", "skipped"} -> "succeeded"
              [] OTHER -> s

Stopped(s) == s \in {"withdrawn", "cancelled"}

Row(s) == <<Phase(s), Stopped(s)>>

Coordination(j) == INSTANCE WorkPromise WITH
    Items <- {j}, phase <- [k \in {j} |-> Phase(parent[k])], withdrawn <- {k \in {j} : Stopped(parent[k])}

ItemWork(i) == INSTANCE WorkPromise WITH
    Items <- {i}, phase <- [k \in {i} |-> Phase(item[k])], withdrawn <- {k \in {i} : Stopped(item[k])}

DocumentWork(i) == INSTANCE WorkPromise WITH
    Items <- {i}, phase <- [k \in {i} |-> Phase(child[k])], withdrawn <- {k \in {i} : Stopped(child[k])}

KeepsLedgerPromise == [][
    /\ \A j \in Jobs : [Coordination(j)!PromiseNext]_(Row(parent[j]))
    /\ \A i \in Items : /\ [ItemWork(i)!PromiseNext]_(Row(item[i]))
                        /\ [DocumentWork(i)!PromiseNext]_(Row(child[i]))]_work

(* A job that was accepted and needs nobody's approval ends, although its  *)
(* coordinator or the last of its items may fail without telling it.       *)
JobsEnd == \A j \in Jobs : job[j] \in {"queued", "running"} ~> job[j] \in Ended
============================================================================
