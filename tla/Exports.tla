------------------------------- MODULE Exports -------------------------------
(***************************************************************************)
(* Exports of original documents: services/export_queue.py in a deployment *)
(* with durable work, and the export part of work/maintenance.py.          *)
(*                                                                         *)
(* An export is a job row, a work item that builds its ZIP parts, and the  *)
(* references that keep bytes in the artifact store: to the originals it   *)
(* reads (sources) while it is pending, to its parts (files) while it can  *)
(* be downloaded.  Every action is one transaction, and every submission   *)
(* one transaction under the admission lock.  That the transactions of a   *)
(* lost attempt do not commit is established by WorkExecution.             *)
(*                                                                         *)
(* Left out: the reserve of free disk space, which can only refuse more,   *)
(* the private copy a download streams from, and the single-process queue. *)
(***************************************************************************)
EXTENDS Naturals, FiniteSets, FiniteSetsExt

CONSTANTS
    Exports,     \* requests
    By,          \* [Exports -> users]
    Size,        \* [Exports -> Nat]: bytes, estimated before and built after (ZIP_STORED)
    Quota,       \* bulk_export_max_retained_mb
    MaxPending,  \* bulk_export_max_pending
    MaxActive,   \* bulk_export_max_active_per_user
    MaxOps       \* bulk_export_max_ops_per_hour

VARIABLES
    job,         \* Job.status
    item,        \* WorkItem.status of export/<job>
    sources,     \* exports whose originals are bound to them
    files,       \* exports whose parts are bound
    available,   \* exports with artifact_status "available"
    lapsed,      \* exports past their expires_at
    recent,      \* exports created within the last hour
    leased       \* exports being downloaded from the API process

vars == <<job, item, sources, files, available, lapsed, recent, leased>>

PENDING_STATUSES == {"queued", "running"}
STATUS_READY == "ready"
STATUS_COMPLETED == "completed"

Init == /\ job = [e \in Exports |-> "none"]
        /\ item = [e \in Exports |-> "none"]
        /\ sources = {} /\ files = {} /\ available = {} /\ lapsed = {} /\ recent = {} /\ leased = {}

Bytes(E) == MapThenSumSet(LAMBDA e : Size[e], E)
Pending  == {e \in Exports : job[e] \in PENDING_STATUSES}
Ready    == {e \in Exports : job[e] = STATUS_READY}
Own(e, E) == {f \in E : By[f] = By[e]}

(* _assert_capacity: pending exports of all and of the user, the user's    *)
(* last hour, and the bytes of ready and of pending exports with this one. *)
Capacity(e) ==
    /\ Cardinality(Pending) < MaxPending
    /\ Cardinality(Own(e, Pending)) < MaxActive
    /\ Cardinality(Own(e, recent)) < MaxOps
    /\ Bytes(Ready) + Bytes(Pending) + Size[e] <= Quota

(* submit: the job, its work item and the references to its originals.     *)
Submit(e) ==
    /\ job[e] = "none" /\ Capacity(e)
    /\ job' = [job EXCEPT ![e] = "queued"]
    /\ item' = [item EXCEPT ![e] = "queued"]
    /\ sources' = sources \cup {e}
    /\ recent' = recent \cup {e}
    /\ UNCHANGED <<files, available, lapsed, leased>>

HourPasses(e) ==
    /\ e \in recent
    /\ recent' = recent \ {e}
    /\ UNCHANGED <<job, item, sources, files, available, lapsed, leased>>

----------------------------------------------------------------------------
(* The work item.                                                          *)
MovesItem(e, from, to) == item[e] = from /\ item' = [item EXCEPT ![e] = to]

Claim(e) == MovesItem(e, "queued", "running") /\ UNCHANGED <<job, sources, files, available, lapsed, recent, leased>>

(* The attempt is lost, or its failure is transient and may be retried.    *)
Retry(e) == MovesItem(e, "running", "queued") /\ UNCHANGED <<job, sources, files, available, lapsed, recent, leased>>

(* The worker fails the item: the handler raised (after it failed the job, *)
(* or because the job is no longer pending, or because failing the job did *)
(* not commit), or the last attempt was lost.                              *)
FailItem(e) == MovesItem(e, "running", "failed") /\ UNCHANGED <<job, sources, files, available, lapsed, recent, leased>>

(* _set_running, which a later attempt repeats.                            *)
SetRunning(e) ==
    /\ item[e] = "running" /\ job[e] \in PENDING_STATUSES
    /\ job' = [job EXCEPT ![e] = "running"]
    /\ UNCHANGED <<item, sources, files, available, lapsed, recent, leased>>

(* _finish_completed: parts bound, originals let go, item finished.        *)
FinishCompleted(e) ==
    /\ job[e] = "running" /\ MovesItem(e, "running", "succeeded")
    /\ job' = [job EXCEPT ![e] = STATUS_COMPLETED]
    /\ files' = files \cup {e}
    /\ sources' = sources \ {e}
    /\ available' = available \cup {e}
    /\ UNCHANGED <<lapsed, recent, leased>>

(* retire_files: all references of these exports.                          *)
RetireFiles(E) == sources' = sources \ E /\ files' = files \ E

(* _finish_failed, by the attempt or by purge_exports after its item failed. *)
FinishFailed(e) ==
    /\ e \in Pending /\ item[e] \in {"running", "failed"}
    /\ job' = [job EXCEPT ![e] = "failed"]
    /\ RetireFiles({e})
    /\ UNCHANGED <<item, available, lapsed, recent, leased>>

----------------------------------------------------------------------------
(* What was built.                                                         *)
Lapse(e) ==
    /\ e \in available \ lapsed
    /\ lapsed' = lapsed \cup {e}
    /\ UNCHANGED <<job, item, sources, files, available, recent, leased>>

(* acquire_download, and the release at the end of the response.  Bound:   *)
(* one download of an export at a time, where the code counts them.        *)
Download(e) ==
    /\ job[e] = STATUS_COMPLETED /\ e \in available \ (lapsed \cup leased)
    /\ leased' = leased \cup {e}
    /\ UNCHANGED <<job, item, sources, files, available, lapsed, recent>>

Release(e) ==
    /\ e \in leased
    /\ leased' = leased \ {e}
    /\ UNCHANGED <<job, item, sources, files, available, lapsed, recent>>

Retire(E) == /\ available' = available \ E
             /\ RetireFiles(E)
             /\ UNCHANGED <<item, lapsed, recent, leased>>

(* delete_artifacts by a user: the API process knows the downloads.        *)
Delete(e) == e \in available \ leased /\ Retire({e}) /\ UNCHANGED job

(* purge_exports in a worker, whose queue object knows of no download.     *)
Expire(e) == job[e] = STATUS_COMPLETED /\ e \in available \cap lapsed /\ Retire({e}) /\ UNCHANGED job

(* apply_rollback from the operator's process: pending jobs fail, their    *)
(* items stay; what is available goes too if the operator says so.         *)
Rollback == \E ready \in {{}, available} :
    /\ job' = [e \in Exports |-> IF e \in Pending THEN "failed" ELSE job[e]]
    /\ Retire(Pending \cup ready)

----------------------------------------------------------------------------
Next == \/ \E e \in Exports : \/ Submit(e) \/ HourPasses(e)
                              \/ Claim(e) \/ Retry(e) \/ FailItem(e)
                              \/ SetRunning(e) \/ FinishCompleted(e) \/ FinishFailed(e)
                              \/ Lapse(e) \/ Download(e) \/ Release(e) \/ Delete(e) \/ Expire(e)
        \/ Rollback

Spec == Init /\ [][Next]_vars

(* The exports kept for download stay within the quota the documentation   *)
(* gives them (docs/HOST_SIZING.md:49: up to 5 GiB of ready exports).      *)
RetainedWithinQuota == Bytes(files) <= Quota
=============================================================================
