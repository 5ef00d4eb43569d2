---------------------------- MODULE Generations ----------------------------
(* The life of one document in the replicas-v1 deployment: admission of work,   *)
(* the generations its attempts build, publication, cancellation of an update,  *)
(* the trash, and the removal of generations nobody reads.                      *)
(*                                                                              *)
(* A generation is owned by one attempt, and is named here by it: <<w, f>> is   *)
(* the generation of work item w under fence f (document_handler.py stores both *)
(* numbers in the row). Transactions in PostgreSQL are atomic steps, and those  *)
(* of a handler happen only while its claim holds. Writes to Qdrant have no     *)
(* such guard: a thread goes on writing after its attempt has been lost.        *)
(*                                                                              *)
(* Left out: documents indexed before generations existed, the contents of a    *)
(* publication and its hashes, scope changes, and repairs (other mutators).     *)
EXTENDS Naturals, FiniteSets

CONSTANTS
  Works,      \* the work items ever admitted for the document
  Upload,     \* the one its upload was admitted with
  MaxFence,   \* bound: attempts at each item
  Batches,    \* batches in which the points of a generation are written
  NoGen       \* no generation

ASSUME UploadAssumption == Upload \in Works
ASSUME BoundsAssumption == MaxFence \in [Works -> Nat \ {0}] /\ Batches \in Nat \ {0}
ASSUME NoGenAssumption == NoGen \notin Works \X Nat

VARIABLES
  \* work_items
  status, fence, flag,
  \* the documents row: status, deleted_at and whether it still exists
  docStatus, trashed, exists,
  \* document_generations, the two pointers, the checkpoint and the update attempt
  phase, base, cleaned, active, candidate, stage, captured, captureBase,
  \* deleted_work_generations
  tombstones,
  \* points in Qdrant, by generation
  stored,
  \* the thread of each attempt and the batches it has written
  thread, written,
  \* generations a cleanup has listed and not visited yet
  listed

work == <<status, fence, flag>>
document == <<docStatus, trashed, exists>>
generations == <<phase, base, cleaned, active, candidate, stage, captured, captureBase>>
threads == <<thread, written>>
vars == <<work, document, generations, tombstones, stored, threads, listed>>

Gens == UNION {{w} \X (1 .. MaxFence[w]) : w \in Works}
Item(g) == g[1]
Points == 1 .. Batches

Pending == {"queued", "running"}
(* paused, failed and error are one status here, "halted": requests treat them  *)
(* alike.                                                                       *)
Busy == {"uploaded", "queued", "processing"}
Candidates == {"preparing", "ready"}
Disused == {"retired", "abandoned"}
Working == {"claimed", "prepared", "started", "indexing", "ready"}
(* A handler that has ended: the document says so, or could not be told.        *)
Ended == {"stopped", "mute"}

(* The upload admits the first item in the transaction that creates the row.    *)
Init ==
  /\ status = [w \in Works |-> IF w = Upload THEN "queued" ELSE "none"]
  /\ fence = [w \in Works |-> 0]
  /\ flag = [w \in Works |-> FALSE]
  /\ docStatus = "uploaded" /\ trashed = FALSE /\ exists = TRUE
  /\ phase = [g \in Gens |-> "none"]
  /\ base = [g \in Gens |-> NoGen]
  /\ cleaned = [g \in Gens |-> FALSE]
  /\ active = NoGen /\ candidate = NoGen /\ stage = NoGen
  /\ captured = FALSE /\ captureBase = NoGen
  /\ tombstones = {}
  /\ stored = [g \in Gens |-> {}]
  /\ thread = [g \in Gens |-> "none"]
  /\ written = [g \in Gens |-> 0]
  /\ listed = {}

-----------------------------------------------------------------------------
(* What the transactions ask before they write.                                 *)

(* Mutant: a cancelled item still lets its handler write.                       *)
OwnsCancelledToo(g) == status[Item(g)] = "running" /\ fence[Item(g)] = g[2]
(* The claim <<w, f>> still owns its item (the lease is in WorkStore: an item   *)
(* whose lease ran out is one that may be reclaimed here at any time).          *)
Owns(g) == status[Item(g)] = "running" /\ fence[Item(g)] = g[2] /\ ~flag[Item(g)]

Live(w) == status[w] \in Pending /\ ~flag[w]

Writable == exists /\ ~trashed

Current(g) == candidate = g

(* Mutant: only running items stand in the way of an admission.                 *)
AdmissibleBesideQueued == \A w \in Works : ~(status[w] = "running" /\ ~flag[w])
Admissible == \A w \in Works : ~Live(w)

(* Invalidation of every pending item of the document, newly cancelled or not.  *)
Settled(w) == IF status[w] = "queued" THEN "cancelled" ELSE status[w]
Flagged(w) == flag[w] \/ status[w] \in Pending

Interrupted ==
  IF docStatus \in Busy /\ \E w \in Works : status[w] \in Pending THEN "halted" ELSE docStatus

(* A snapshot of the published version is kept while an update runs.            *)
Captures == captured \/ docStatus = "done" \/ active # NoGen
(* Mutant: the snapshot does not say which version it is of.                    *)
BaseForgotten == IF captured THEN captureBase ELSE NoGen
Base == IF captured THEN captureBase ELSE IF Captures THEN active ELSE NoGen

Verified(g) == stored[g] = Points

(* Mutant: only generations that were published keep a tombstone.               *)
RetainedPublished == {g \in Gens : phase[g] \in {"active", "retired"}}
Retained == {g \in Gens : phase[g] # "none"}

(* Mutant: the checkpoint does not protect its generation.                      *)
CollectableWithCheckpoint(g) == phase[g] \in Disused /\ ~cleaned[g]
Collectable(g) == phase[g] \in Disused /\ ~cleaned[g] /\ stage # g

Removable(g) == phase[g] \in Disused /\ g \notin {active, candidate}

-----------------------------------------------------------------------------
(* Requests.                                                                    *)

Admit(w) ==
  /\ status[w] = "none"
  /\ Writable
  /\ docStatus \notin Busy
  /\ Admissible
  /\ status' = [status EXCEPT ![w] = "queued"]
  /\ captured' = Captures
  /\ captureBase' = Base
  /\ docStatus' = "queued"
  /\ UNCHANGED <<fence, flag, trashed, exists, phase, base, cleaned, active, candidate, stage,
                 tombstones, stored, threads, listed>>

(* One transaction: the pending items are cancelled, the candidate is abandoned *)
(* and the document shows the version it showed before the update.              *)
CancelUpdate ==
  /\ Writable
  /\ captured \/ (docStatus # "done" /\ active # NoGen)
  /\ Base = active
  /\ status' = [w \in Works |-> Settled(w)]
  /\ flag' = [w \in Works |-> Flagged(w)]
  /\ phase' = [g \in Gens |-> IF candidate = g THEN "abandoned" ELSE phase[g]]
  /\ candidate' = NoGen /\ stage' = NoGen
  /\ captured' = FALSE /\ captureBase' = NoGen
  /\ docStatus' = "done"
  /\ UNCHANGED <<fence, trashed, exists, base, cleaned, active, tombstones, stored, threads, listed>>

(* Mutant: the work of a document thrown away is left running.                  *)
SoftDeleteKeepsWork ==
  /\ Writable
  /\ docStatus' = Interrupted
  /\ trashed' = TRUE
  /\ UNCHANGED <<work, exists, generations, tombstones, stored, threads, listed>>

SoftDelete ==
  /\ Writable
  /\ status' = [w \in Works |-> Settled(w)]
  /\ flag' = [w \in Works |-> Flagged(w)]
  /\ docStatus' = Interrupted
  /\ trashed' = TRUE
  /\ UNCHANGED <<fence, exists, generations, tombstones, stored, threads, listed>>

Restore ==
  /\ exists /\ trashed
  /\ trashed' = FALSE
  /\ UNCHANGED <<work, docStatus, exists, generations, tombstones, stored, threads, listed>>

(* The rows go; of the generations only the names stay, so that searches can    *)
(* still exclude points written late.                                           *)
Purge ==
  /\ exists /\ trashed
  /\ status' = [w \in Works |-> Settled(w)]
  /\ flag' = [w \in Works |-> Flagged(w)]
  /\ tombstones' = tombstones \cup Retained
  /\ exists' = FALSE
  /\ phase' = [g \in Gens |-> "none"]
  /\ base' = [g \in Gens |-> NoGen]
  /\ cleaned' = [g \in Gens |-> FALSE]
  /\ active' = NoGen /\ candidate' = NoGen /\ stage' = NoGen
  /\ captured' = FALSE /\ captureBase' = NoGen
  /\ docStatus' = "done" /\ trashed' = FALSE  \* columns of no row
  /\ UNCHANGED <<fence, stored, threads, listed>>

(* Mutant: the bytes go whether or not the row is gone.                         *)
DeleteBytesUnchecked ==
  /\ stored' = [g \in Gens |-> {}]
  /\ UNCHANGED <<work, document, generations, tombstones, threads, listed>>

DeleteBytes ==
  /\ ~exists
  /\ stored' = [g \in Gens |-> {}]
  /\ UNCHANGED <<work, document, generations, tombstones, threads, listed>>

-----------------------------------------------------------------------------
(* The work item, as far as the document sees it.                               *)

Takes(w) ==
  /\ fence[w] < MaxFence[w]
  /\ status' = [status EXCEPT ![w] = "running"]
  /\ fence' = [fence EXCEPT ![w] = @ + 1]
  /\ thread' = [thread EXCEPT ![<<w, fence[w] + 1>>] = "claimed"]
  /\ UNCHANGED <<flag, document, generations, tombstones, stored, written, listed>>

Claim(w) == status[w] = "queued" /\ Takes(w)

(* Mutant: nobody takes over from an owner that died.                           *)
ReclaimNever(w) == FALSE /\ Takes(w)

(* The lease ran out: the owner may be dead, or only slow.                      *)
Reclaim(w) == status[w] = "running" /\ ~flag[w] /\ Takes(w)

Settle(w) ==
  /\ status[w] = "running" /\ flag[w]
  /\ status' = [status EXCEPT ![w] = "cancelled"]
  /\ UNCHANGED <<fence, flag, document, generations, tombstones, stored, threads, listed>>

(* Mutant: a handler that returns is taken to have succeeded.                   *)
OutcomesOfReturn == {"succeeded", "queued"}
Outcomes == {"failed", "queued"}

(* The coordinator acknowledges a handler that did not publish. An error it     *)
(* does not know is no reason to try again.                                     *)
Acknowledge(g, outcome) ==
  /\ thread[g] \in Ended /\ Owns(g)
  /\ outcome \in Outcomes
  /\ outcome = "queued" => thread[g] = "stopped" /\ fence[Item(g)] < MaxFence[Item(g)]
  /\ status' = [status EXCEPT ![Item(g)] = outcome]
  /\ thread' = [thread EXCEPT ![g] = IF @ = "mute" THEN "silent" ELSE "over"]
  /\ UNCHANGED <<fence, flag, document, generations, tombstones, stored, written, listed>>

-----------------------------------------------------------------------------
(* The thread of an attempt.                                                    *)

Moves(g, from, to) == thread[g] = from /\ thread' = [thread EXCEPT ![g] = to]

(* A candidate left by an earlier attempt is abandoned, unless other live work  *)
(* owns it.                                                                     *)
Free(g) == \A h \in Gens : h = candidate => Item(h) = Item(g) \/ ~Live(Item(h))

Prepare(g) ==
  /\ Moves(g, "claimed", "prepared")
  /\ Owns(g) /\ Writable /\ Free(g)
  /\ phase' = [h \in Gens |-> IF h = g THEN "preparing" ELSE IF candidate = h THEN "abandoned" ELSE phase[h]]
  /\ base' = [base EXCEPT ![g] = active]
  /\ candidate' = g
  /\ UNCHANGED <<work, document, cleaned, active, stage, captured, captureBase, tombstones, stored, written, listed>>

(* An accepted checkpoint of an earlier attempt is copied into the generation.  *)
Recover(g) ==
  /\ thread[g] = "prepared" /\ Owns(g) /\ Writable
  /\ Current(g) /\ phase[g] = "preparing"
  /\ stage \notin {NoGen, g}
  /\ stage' = g
  /\ UNCHANGED <<work, document, phase, base, cleaned, active, candidate, captured, captureBase,
                 tombstones, stored, threads, listed>>

Start(g) ==
  /\ Moves(g, "prepared", "started")
  /\ Owns(g) /\ Writable
  /\ captured' = Captures /\ captureBase' = Base
  /\ docStatus' = "processing"
  /\ UNCHANGED <<work, trashed, exists, phase, base, cleaned, active, candidate, stage,
                 tombstones, stored, written, listed>>

Checkpoint(g) ==
  /\ Moves(g, "started", "indexing")
  /\ Owns(g) /\ Writable
  /\ Current(g) /\ phase[g] = "preparing"
  /\ stage' = g
  /\ UNCHANGED <<work, document, phase, base, cleaned, active, candidate, captured, captureBase,
                 tombstones, stored, written, listed>>

(* Mutant: one batch too many.                                                  *)
MoreToWrite(g) == written[g] < Batches

(* No transaction, no claim: the points of the generation go to Qdrant.         *)
Index(g) ==
  /\ thread[g] = "indexing"
  /\ MoreToWrite(g)
  /\ written' = [written EXCEPT ![g] = @ + 1]
  /\ stored' = [stored EXCEPT ![g] = @ \cup {written[g] + 1}]
  /\ UNCHANGED <<work, document, generations, tombstones, thread, listed>>

MarkReady(g) ==
  /\ Moves(g, "indexing", "ready")
  /\ written[g] = Batches
  /\ Owns(g) /\ Writable
  /\ Current(g) /\ phase[g] \in Candidates
  /\ phase' = [phase EXCEPT ![g] = "ready"]
  /\ UNCHANGED <<work, document, base, cleaned, active, candidate, stage, captured, captureBase,
                 tombstones, stored, written, listed>>

(* The canonical rows, the pointer, the document and the outcome of the item    *)
(* change together.                                                             *)
Publish(g) ==
  /\ Moves(g, "ready", "over")
  /\ Owns(g) /\ Writable
  /\ Current(g) /\ phase[g] = "ready"
  /\ base[g] = active
  /\ Verified(g)
  /\ phase' = [h \in Gens |-> IF h = g THEN "active" ELSE IF h = active THEN "retired" ELSE phase[h]]
  /\ active' = g /\ candidate' = NoGen
  /\ captured' = FALSE /\ captureBase' = NoGen
  /\ docStatus' = "done"
  /\ status' = [status EXCEPT ![Item(g)] = "succeeded"]
  /\ UNCHANGED <<fence, flag, trashed, exists, base, cleaned, stage, tombstones, stored, written, listed>>

(* The handler ends without a publication and says so in the document, or what  *)
(* made it end (the database) makes that update fail too.                       *)
Stop(g) ==
  /\ thread[g] \in Working
  /\ Owns(g) /\ exists
  /\ \/ /\ thread' = [thread EXCEPT ![g] = "stopped"]
        /\ docStatus' = "halted"
     \/ /\ thread' = [thread EXCEPT ![g] = "mute"]
        /\ UNCHANGED docStatus
  /\ UNCHANGED <<work, trashed, exists, generations, tombstones, stored, written, listed>>

(* The process dies, or the thread finds at its next transaction that it lost   *)
(* the item. Bound: the last attempt does not die.                              *)
Quit(g) ==
  /\ thread[g] \in Working \cup Ended
  /\ Owns(g) => g[2] < MaxFence[Item(g)]
  /\ thread' = [thread EXCEPT ![g] = "over"]
  /\ UNCHANGED <<work, document, generations, tombstones, stored, written, listed>>

-----------------------------------------------------------------------------
(* Removal.                                                                     *)

(* A checkpoint that was published whole is dropped.                            *)
RetireCheckpoint ==
  /\ stage # NoGen /\ phase[stage] \in {"active", "retired"}
  /\ stage' = NoGen
  /\ UNCHANGED <<work, document, phase, base, cleaned, active, candidate, captured, captureBase,
                 tombstones, stored, threads, listed>>

List ==
  /\ listed' = listed \cup {g \in Gens : Collectable(g)}
  /\ listed' # listed
  /\ UNCHANGED <<work, document, generations, tombstones, stored, threads>>

(* The list is old by the time a generation on it is visited. Its row stays.    *)
Clean(g) ==
  /\ g \in listed
  /\ listed' = listed \ {g}
  /\ IF Removable(g)
     THEN /\ stored' = [stored EXCEPT ![g] = {}]
          /\ cleaned' = [cleaned EXCEPT ![g] = TRUE]
     ELSE UNCHANGED <<stored, cleaned>>
  /\ UNCHANGED <<work, document, phase, base, active, candidate, stage, captured, captureBase,
                 tombstones, threads>>

-----------------------------------------------------------------------------
Attempt(g) ==
  \/ Prepare(g) \/ Recover(g) \/ Start(g) \/ Checkpoint(g) \/ Index(g) \/ MarkReady(g) \/ Publish(g)
  \/ Stop(g)
  \/ \E o \in Outcomes : Acknowledge(g, o)

Next ==
  \/ \E w \in Works : Admit(w) \/ Claim(w) \/ Reclaim(w) \/ Settle(w)
  \/ CancelUpdate \/ SoftDelete \/ Restore \/ Purge \/ DeleteBytes
  \/ \E g \in Gens : Attempt(g) \/ Quit(g) \/ Clean(g)
  \/ RetireCheckpoint \/ List

Spec == Init /\ [][Next]_vars

-----------------------------------------------------------------------------
(* Types of every column, pointer and thread.                                   *)
TypeOK ==
  /\ status \in [Works -> {"none", "queued", "running", "succeeded", "failed", "cancelled"}]
  /\ fence \in [Works -> Nat]
  /\ flag \in [Works -> BOOLEAN]
  /\ docStatus \in Busy \cup {"halted", "done"}
  /\ trashed \in BOOLEAN /\ exists \in BOOLEAN
  /\ phase \in [Gens -> {"none"} \cup Candidates \cup {"active"} \cup Disused]
  /\ base \in [Gens -> Gens \cup {NoGen}]
  /\ cleaned \in [Gens -> BOOLEAN]
  /\ active \in Gens \cup {NoGen} /\ candidate \in Gens \cup {NoGen} /\ stage \in Gens \cup {NoGen}
  /\ captured \in BOOLEAN /\ captureBase \in Gens \cup {NoGen}
  /\ tombstones \in SUBSET Gens
  /\ stored \in [Gens -> SUBSET Points]
  /\ thread \in [Gens -> {"none", "over", "silent"} \cup Working \cup Ended]
  /\ written \in [Gens -> 0 .. Batches]
  /\ listed \in SUBSET Gens

(* What readers are shown is one generation, whole: its row is the only active  *)
(* one and all its points are in Qdrant, whatever attempts, cleanups and purges *)
(* have done since it was verified. generation_publication.py, generation_cleanup.py *)
PublishedIsWhole ==
  /\ active # NoGen => phase[active] = "active" /\ Verified(active)
  /\ \A g \in Gens : phase[g] = "active" => g = active

(* At most one generation is under construction and the candidate pointer names *)
(* it; at most one item may change the document. admission.py,                  *)
(* document_handler.py, generation_store.py.                                    *)
OneMutator ==
  /\ \A v, w \in Works : Live(v) /\ Live(w) => v = w
  /\ \A g \in Gens : phase[g] \in Candidates <=> g = candidate

(* A live attempt that has yet to prepare is never refused: prepare_document_attempt *)
(* would raise LostOwnership at an owner, whose item would fail with the document *)
(* left busy.                                                                   *)
OwnerNotRefused ==
  \A g \in Gens : Owns(g) /\ thread[g] \in Working => Writable /\ Free(g)

(* An item failed without the document having been told, and there is no other. *)
(* document_handler.py calls registry.update while it handles another error,    *)
(* worker.py fails the item whatever the handler raised, and nothing repairs    *)
(* the status.                                                                  *)
FailedSilently == (\E g \in Gens : thread[g] = "silent") /\ \A w \in Works : ~Live(w)

(* A document that says it is being processed has work that will process it,    *)
(* unless a handler failed silently.                                            *)
(* In this deployment nothing else would ever reset the status (registry.py's   *)
(* reset_stale_statuses returns at once), and every request would be refused.   *)
NotStranded ==
  exists /\ docStatus \in Busy => FailedSilently \/ \E w \in Works : Live(w)

(* An item succeeded exactly when a generation of it was published: the outcome *)
(* of the item and the pointer are one commit (generation_publication.py).      *)
SuccessIsPublication ==
  exists => \A w \in Works :
    status[w] = "succeeded" <=> \E g \in Gens : Item(g) = w /\ phase[g] \in {"active", "retired"}

(* A cancellation of the update finds the version the update began from still   *)
(* published, so restoring the snapshot is right (restore_canceled_update raises *)
(* otherwise and the request fails).                                            *)
SnapshotCurrent ==
  exists /\ captured => captureBase = active

(* Points outside the published generation, late ones included, are of a        *)
(* generation that searches exclude by name: its row or its tombstone is there. *)
(* generation_search.py generation_exclusions.                                  *)
LateWritesExcluded ==
  \A g \in Gens : stored[g] # {} /\ g # active => phase[g] \notin {"none", "active"} \/ g \in tombstones

(* The generation an accepted checkpoint belongs to is never cleaned under it,  *)
(* although the list of generations to clean is made before they are locked.    *)
CheckpointKept ==
  stage # NoGen => phase[stage] # "none" /\ ~cleaned[stage]

(* Nothing is published for work that was cancelled, and only the generation    *)
(* that was published before it is retired by a publication; a version is       *)
(* withdrawn only with the document.                                            *)
PublishesLiveWork ==
  [][active' # active =>
       \/ active' # NoGen /\ Live(Item(active')) /\ (active # NoGen => phase'[active] = "retired")
       \/ active' = NoGen /\ ~exists']_vars

(* An attempt that lost its item stays without it: what its thread still tries  *)
(* is refused at its next transaction, however often the item changes hands.    *)
LostForever ==
  [][\A g \in Gens : g[2] <= fence[Item(g)] /\ Owns(g)' => Owns(g)]_vars

-----------------------------------------------------------------------------
(* The document as its requesters and readers see it.                           *)
Request(w) == IF status[w] = "none" THEN "absent" ELSE IF status[w] \in Pending THEN "open" ELSE status[w]

Requests == [w \in Works |-> Request(w)]
GivenUp == {w \in Works : flag[w]}
Shown == IF active = NoGen THEN NoGen ELSE Item(active)

Document == INSTANCE DocumentPromise WITH
  Items <- Works, First <- Upload, NoVersion <- NoGen,
  phase <- Requests, withdrawn <- GivenUp, shown <- Shown, gone <- ~exists

(* Attempts that die, come late or are taken over, cleanups and late writes     *)
(* never show: requests are taken one at a time and settled once, a withdrawn   *)
(* one is never shown, and readers see another version only when the request in *)
(* hand succeeds or the document is purged.                                     *)
KeepsDocumentPromise == Document!DocumentSpec

(* The items move as the ledger lets them, as WorkExecution implements it.      *)
ItemStatus == [w \in Works |-> IF status[w] = "none" THEN "absent" ELSE status[w]]

Rows == INSTANCE LedgerRows WITH Items <- Works, status <- ItemStatus, withdrawn <- flag

KeepsRows == Rows!RowsSpec

-----------------------------------------------------------------------------
(* Workers poll and the handler of a live attempt goes on; dead attempts are    *)
(* reclaimed. Nobody needs to ask for anything.                                 *)
Fairness ==
  /\ \A w \in Works : WF_vars(Claim(w))
  /\ \A w \in Works : WF_vars((fence[w] > 0 => thread[<<w, fence[w]>>] = "over") /\ Reclaim(w))
  /\ \A g \in Gens : WF_vars(Owns(g) /\ Attempt(g))

FairSpec == Spec /\ Fairness

(* A document does not stay in processing: it is published, stopped or deleted, *)
(* unless the one update that would have said so failed.                        *)
BusySettles ==
  exists /\ docStatus \in Busy ~> ~exists \/ docStatus \notin Busy \/ FailedSilently
=============================================================================
