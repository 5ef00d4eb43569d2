# OKF Knowledge Service: TLA+ specifications and proofs

This directory holds a verification project for the OKF Knowledge Service in
`src/`: TLA+ modules translated from the Python source of its durable work
subsystem and of what is built on it, TLC configurations that model-check them on small instances, and
TLAPS proofs that carry the most important results to every value of the
constants. Every definition that stands for code is listed in `PROJECT.json`
under `map` with the lines it was translated from; every risk the modules were
written for is listed there under `hazards` with its line and its properties.

Paths below are relative to `src/backend/app/`.

## 1. The system

Documents (DOCX, XLSX, PDF, EML, MSG) are uploaded through a FastAPI backend,
parsed in child processes, cut into concepts by a language model, stored in
PostgreSQL and projected into Qdrant; chats are answered from retrieved
fragments. In the `replicas-v1` deployment several API, worker and scheduler
processes share one PostgreSQL database, one Qdrant and one model provider.
Everything that must not be lost or done twice is a row of `work_items`:
API processes admit work, any worker claims it under a lease with a *fence*
(a number that grows with every claim), and all effects of a handler are
transactions that first prove the claim is still theirs.

### 1.1 Inventory

| Component | State | Operations | Hard behaviour | What makes it correct |
|---|---|---|---|---|
| Durable work ledger (`services/work/store.py`, `models.py`) | `work_items`: status, attempts, owner, fence, lease, epoch, cancel flag, not-before | enqueue, claim (with the sweep of retired rows), renew, finish, retry, defer, cancel | expired leases, stale tokens, cancellation racing every other step, retries against a maximum | a lost token stays lost; an item settles once; an accepted cancellation is final |
| Work execution (`work/worker.py`, `context.py`, `handlers.py`, `db/session.py`) | the process: slots, handler threads, the claim bound to an open transaction, acknowledged completions | poll, heartbeat, acknowledge, abandon; begin, flush, commit or roll back a guarded transaction | a handler thread outlives its claim; the lease ends between `finish` and `COMMIT` | only the current owner's transactions commit; nothing is written after an item settled |
| Maintenance control (`work/maintenance_control.py`, `maintenance.py`, `cli.py`) | epoch, phase, operator receipts, reader/writer advisory locks | enter, leave, bind a runtime to an epoch, `assert_writes_allowed` | a backup or upgrade begins while writers are active | no write commits inside a maintenance operation; workers of an older epoch never write again |
| Document admission (`work/admission.py`) | `work_admission_state`, frozen inputs | admit process/resume/regenerate, invalidate intents, freeze input | double clicks, replays, capacity of the queue | at most one live mutator per document |
| Generations and publication (`generation_store.py`, `generation_publication.py`, `generation_cleanup.py`, `document_update.py`, `work/document_handler.py`) | generation rows (phase, base, owner), active and candidate pointers, update attempts, Qdrant points by generation | begin, mark ready, publish, abandon, clean up, cancel an update, recover a checkpoint | late external writes of a dead attempt, cancellation against publication, cleanup against publication | readers see exactly one verified generation; an update that was cancelled never publishes; published points are never removed |
| Shared capacity (`work/coordination.py`, `model_budget.py`, `provider_reconciliation.py`) | capacity resources and slots, rate windows, model-call admissions | reserve, renew, release, complete, hold, reconcile, consume rate | a caller that dies while the provider works on its call; a limit lowered while slots are busy | the provider never runs more calls than the limit; a lost lease stays lost |
| Chat runs (`work/chat.py`, `chat_runtime.py`, `chat_history.py`) | sessions, runs, answers, the slots of "chat" | admit, heartbeat, finish, cancel, delete, purge, reconcile | a newer request, a lost lease or a deletion while an answer is written | one run per session; run and answer agree; history is written once; a late release frees nobody else's slot |
| Bulk jobs (`work/bulk.py`, `job_queue.py`, `bulk_generation.py`) | `jobs` with their public result; the work rows of coordinator, items and documents | submit, approve, cancel, fan out, run an item, wait by deferring, reconcile | the job row and the receipts are written by different transactions and processes; two jobs over one document | a job that ended says what its items did, and never changes; a document in the trash is left alone; every accepted job ends |
| Scheduler (`work/scheduler.py`, `runtime.py`) | dedupe keys of periodic work | enqueue due work | several schedulers, missed slots | one pending item per schedule |
| Process-local admission (`llm_scheduler.py`, `rate_limiter.py`) | a condition variable, in-memory windows | acquire by priority, release, cancel | chat over background without starving | at most one local model call runs |
| Edit leases of reference data (`reference_edit_lock.py`, `reference_concurrency.py`, `reference_mutation.py`, `reference_translation.py`; `editorLeaseSession.mjs` in the browser) | one row per item: revision, epoch, owner, two deadlines, activity; the tab's own session | acquire, renew, save, delete, release, revoke; background translations and bulk actions | requests that arrive late or never, writers without a lease, a re-created item, a tab nobody looks at | nothing is overwritten unread; an editor under a live lease sees the current content; a forgotten editor gives the item free |
| Scope changes (`processing_scope*.py`, `work/scope.py`) | reviews, scope-change operations | open, save, apply | two tabs, an operation that outlives its editor | a stale tab never overwrites a newer selection |
| Artifacts (`services/artifacts/`) | bytes at the provider; object rows, references, read leases, claims; observations of unknown objects | put, bind, unbind, lease, renew, claim, delete, quarantine, adopt | provider calls between transactions that take effect late; paused collectors; readers that stream | what a committed reference names can be read; a reader whose lease check passes has its bytes; garbage goes |
| Audit outbox (`audit_outbox.py`, `audit_leadership.py`, `audit_hold*.py`) | outbox rows, advisory leadership, the write to stdout | record, list, write, mark, put off, hold | a leader that lost its lock while it writes; a marker that fails after the line is out | every recorded event is written or withheld in the end; a second line has a cause |
| Export queue (`export_queue.py`, `bulk_export.py`, `work/scratch.py`) | jobs, their work items, references to originals and to built parts, download leases of one process | submit, run, complete, fail, download, delete, expire, roll back | admission against what is already retained; job and item end in different transactions | what is retained stays within its quota (it does not: section 3.3) |
| Trash (`trash.py`, `work/trash.py`, `registry.py`) | `deleted_at`, tombstones of generations | soft delete, restore, purge, clean up bytes | restore against purge | a restored document is not purged |
| Diagnostics, glossary, tags, tables, retrieval, parsing, i18n, auth, API, deployment, frontend | see `PROJECT.json` | | | |

### 1.2 How the components interact

```
API process                       worker process                       shared services
-----------                       --------------                       ---------------
admission --enqueue--> work_items <--claim/renew/finish-- coordinator
   |                       ^                                  | starts a thread
   |                       | guard (row lock, fence, lease)   v
   +--cancel/delete------> +--------------------------- handler transactions --> documents, generations
                           |                                  |
maintenance --epoch------->+                                  +--reserve/release--> capacity slots
                                                              +--unfenced writes--> Qdrant
                                                              +--calls------------> model provider
```

Two kinds of effect leave a handler. Those in PostgreSQL are guarded: the
transaction locks the work row and checks the fence before it begins and before
it commits. Those in Qdrant, in the object store and at the model provider
cannot be guarded that way: a dead attempt may still be writing. The code
meets the first kind with locks and the second with *names* that are never
reused (a generation belongs to one work item and one fence), with capacity
that is not returned until a call is known to have ended, and, for stored objects, with rows
that outlive the bytes: an object once claimed for deletion is never referred to again.

Three more components hang on the same database. `attach_blob` and `retire_files`
bind and release stored objects in the transactions of documents and exports, and the collector deletes
what nothing is bound to. Every business transaction may record an audit event, which the
dispatcher of the leading replica writes to stdout. Reference data (terms, tags, developments) is
edited under leases by people and without leases by translations and bulk actions.

## 2. The modules

| Module | Extends | What it is |
|---|---|---|
| `WorkPromise` | | abstract: what the ledger promises to the code that enqueues work |
| `LedgerRows` | | abstract: how the rows of the ledger move, for a component that rides on them |
| `AtomicWork` | `LedgerRows` | abstract: what the ledger is to handlers, whose transactions are single steps |
| `DocumentPromise` | `WorkPromise` | abstract: what a document promises to its requesters and readers |
| `Semaphore` | | abstract: what a shared limit promises |
| `WorkStore` | | the ledger, one action per committed transaction |
| `WorkExecution` | `WorkStore` | coordinators, handler threads and opened-up handler transactions over the ledger |
| `WorkProofs` | `WorkExecution` | the theorems of both |
| `Capacity` | | slot leases and the model budget |
| `CapacityProofs` | `Capacity` | its theorems |
| `Generations` | | one document: admission, attempts, publication, cancellation, trash, cleanup |
| `GenerationsProofs` | `Generations` | its theorems |
| `ChatRuns` | | chat requests: durable run, history entry, capacity slot, request thread and heartbeat |
| `ChatRunsProofs` | `ChatRuns` | its theorems |
| `BulkJobs` | | bulk jobs, their coordinator, items and the documents they touch |
| `BulkJobsProofs` | `BulkJobs` | its theorems |
| `Artifacts` | | stored objects, references, read leases and the collector |
| `ArtifactsProofs` | `Artifacts` | its theorems |
| `AuditOutbox` | | the dispatchers of audit events under one advisory lock |
| `AuditOutboxProofs` | `AuditOutbox` | its theorems |
| `EditLeases` | | one item of reference data, its lease, its tabs and its background writers |
| `EditLeasesProofs` | `EditLeases` | its theorems |
| `Exports` | | exports from admission to expiry |
| `MC...` | | the constants TLC needs; each `.cfg` is one question |

A definition whose comment says *mutant* is a plausible bug of the operator
below it. No specification uses it; it exists so that one can substitute it and
see that the property listed with it in `PROJECT.json` notices.

The detailed modules meet in the abstract ones, each instantiated with the refinement mapping of the module
that implements it:

```
 requesters    WorkPromise <- WorkStore, WorkExecution        (Phase, Withdrawn)
               WorkPromise <- BulkJobs: every receipt         (Row)
               DocumentPromise <- Generations                 (Requests, GivenUp, Shown, ~exists)
 handlers      AtomicWork  <- WorkExecution                   (cancelled)
               LedgerRows  <- Generations: its work items     (ItemStatus, flag)
 limits        Semaphore   <- Capacity: calls at the provider (Reservations, Running, InUse)
               Semaphore   <- ChatRuns: admissions            (Holding, Started)
```

So what `Generations` takes for granted of its items (an attempt that owns its item may write, another may
take over at any time, nobody acts on a withdrawn item) is `LedgerRows`, and that
is what `WorkExecution` is shown to give its handlers. `Artifacts` and `AuditOutbox` are not composed with
the rest: they take references and events as given.

### 2.1 `WorkStore`: the ledger

*State.* One function per column of `WorkItem` (`status`, `owner`, `lease`,
`fence`, `attempts`, `cancelled`, `delay`, `rowEpoch`), the maintenance row
(`epoch`, `enabled`), the epoch each process has bound, and `claims`: every
`WorkClaim` that was ever returned. A token never leaves `claims`: a process may
present it at any later time and any number of times. Time is the database
clock, counted as remaining time, so that the model has no unbounded clock.

*Actions* are the functions of `store.py`: `Enqueue`, `PollClaim`/`PollEmpty`
(`claim` with the sweep of cancelled rows that nobody can acknowledge; `free` is
the set of rows `SKIP LOCKED` does not skip), `Renew`, `Finish`, `Retry`,
`Defer`, `Cancel`; and those of maintenance: `EnterMaintenance`,
`LeaveMaintenance`, `BindEpoch`. `Compatible` is the handler table of a release:
a poll sees only kinds and versions it has handlers for, but its sweep retires
rows of every kind, as in the code.

*Abstraction.* Payload, progress and JSON results are left out. `claim` takes
the row that has been available longest; the model lets it take any, which has
more behaviours.

### 2.2 `WorkExecution`: threads and transactions over the ledger

A process has a coordinator (`Worker.run_once`: `Claims`, `FindsNothing`,
`Submits`, `Heartbeats`, `Acknowledges`, `Abandons`) and a handler thread. The
handler's transaction is the sequence `Begins` (guard at session entry),
optionally `Completes` (`finish` within it: succeeded for a publication, succeeded or failed for a
bulk item, `work/bulk.py:118`), `Checks` (guard before commit), `Commits` or `RollsBack`. Between `Begins` and its end it holds the row lock:
`Free` is what is left for everyone else. Between any two of these steps the
lease may run out, the coordinator may give up, the process may be stopped.
`effects[i]` records, in commit order, the fence under which each transaction
for item `i` was committed; it stands for all a handler writes.

A completed item commits without a live lease (`commit_completed`), so
executions are *not* behaviours of `WorkStore`'s `Spec`. That the ledger's
promise holds nevertheless is a property of its own, `KeepsPromiseOpen`. That a handler's
transaction nevertheless acts as one step, of an attempt that owns its item at that moment, is `TransactionsAtomic`;
it is what the other modules assume when they write a handler's transaction as one action.

### 2.3 `Capacity`: slot leases and the model budget

*State.* The policy row's limit, the columns of the slot rows, every
`CapacityLease` that was returned, and the model calls by the lease they run
under: budgets not closed, calls begun, calls the provider is still executing.
*Actions* are `Reserve`, `Renew`, `Release`, `Complete` as used by a budget
(`Confirms`), a budget closed without knowing the call's end (`Closes`: the
caller died, timed out or could not reach the database), and the operator's
`Reconcile`. `Calls` and `Answers` are the provider's side; `Answers` may come
long after the caller has gone.

*Abstraction.* What `Confirms` presumes, that the provider has finished, the code concludes from a finish reason or a
rejecting status of the latest request (`llm_client.py:514-521`). A call is therefore its latest request. If the client library
repeats a request by itself, an earlier one may still be executing when the call is confirmed, and is not counted;
only the task `source_assessment` has these retries set to 0 (`llm_client.py:468`).

*Mapping.* The users of `Semaphore` are reservations, each the lease that one `Reserve` returned. Inside
(`InUse`) are those that run, those whose budget is not closed and those with a call the provider is still executing,
whether or not anybody waits for its answer. `limit` changes only while nobody is inside: `reserve_capacity` asks that no slot is busy.

### 2.4 `Generations`: one document

A generation is named by the attempt `<<work, fence>>` that owns it, because the
row stores both and no second generation can have them. *State*: the work items
as far as the document sees them, the document row, the generation rows with
the active and the candidate pointer, the checkpoint (`stage`), the snapshot
kept while an update runs (`captured`, `captureBase`), tombstones, the points in
Qdrant by generation, each attempt's thread, and the list of a cleanup between
its query and its visits.

*Actions.* Requests: `Admit`, `CancelUpdate`, `SoftDelete`, `Restore`, `Purge`,
`DeleteBytes`. The item: `Claim`, `Reclaim` (the lease ran out; its owner may be
dead or only slow), `Settle`, `Acknowledge`. The attempt: `Prepare`, `Recover`,
`Start`, `Checkpoint`, `Index`, `MarkReady`, `Publish`, `Stop`, `Quit`. Removal:
`RetireCheckpoint`, `List`, `Clean`. Every transaction of a handler has
`Owns(g)` as a guard (that is what `WorkExecution` establishes);
`Index` has none, because Qdrant knows nothing of claims. A handler that fails records that in the document and then has
its item failed or retried by the worker: `Stop`, then `Acknowledge`. The two are separate transactions, and if the first fails
(`document_handler.py:239` raises) the worker still fails the item: the thread is then *silent*, and the document goes on saying
that it is being processed. Only a purge ends that, or, if there is a published version, the cancellation of the update. `BusySettles` and
`NotStranded` except exactly this case (`FailedSilently`).

*Abstraction.* `paused`, `failed` and `error` are one document status,
`"halted"`: requests treat them alike. The lease is nondeterminism: a running
item may be reclaimed at any time. Each admission carries a fresh request id.
`DocumentPromise` has none of the generations: only requests, what readers are shown and whether the document is gone.
Left out: documents without generations (before the migration), the contents and
hashes of a publication, scope changes and repairs (other mutators, which the
same admission excludes), and the single-process deployment.

### 2.5 `ChatRuns`: requests, their history and their slot

*State.* Sessions; the columns of a run; the status, content and sources of its
answer attempt; the slots of the resource "chat"; per attempt the request thread
(`request`) with its cancellation event (`asked`); the threads of previews. An
attempt names its run: both are unique, and a run has one attempt.

*Actions.* `Admit` (stops the older run of the session, gives its slot back and
takes one, all in one transaction), `Cancel`, `DeleteSession`, `PurgeSession`;
the thread and its heartbeat: `Beat`, `Ask`, `SaveSources`, `Finish`,
`FinishRefused`, `RetainDraft`, `Vanish`; `PreviewStart`, `PreviewBeat`,
`PreviewEnd`; `Reconcile` for one page of lapsed runs; `Tick`.
All transactions on runs take the lock of the capacity policy row first, so one action
is one transaction; `Finish` may be taken although the event is set, because the
event is read before the transaction.

*Abstraction.* The text is nothing, the answer, or a draft. A slot is held by a run id or
a preview id, and these are used for one reservation each, so the fences of
slots are left out here (`Capacity` has them and limits that differ). Both implement `Semaphore`. Left out: the
single-process history writer, the text of questions, listings, and the moment before the capacity
policy row exists.

### 2.6 `BulkJobs`: a job, its coordinator, its items

*State.* The public row (`job`, and `reported`: what its result says of each
item); the private receipts in the work ledger: `parent` (`bulk/<job>`), `item`
(`bulk-item/<job>/<index>`) and `child` (the document work an item admitted);
documents with their trash flag and the work that others have for them; and
`scan`, the jobs a reconciliation has read and not yet visited.

*Actions.* `Submit`, `Approve`, `CancelJob`; `ClaimParent`, `FanOut`,
`LoseParent`, `FailParent`; for an item `ClaimItem`, `LoseItem`, `FailItem`,
`DeferItem` and the cases of `run_bulk_item`: `DeleteItem`, `SkipItem`,
`ConflictItem`, `RefuseItem`, `AdmitItem`, `ConcludeItem`, each with the
projection (`Project`, that is `reconcile_job`) that the code makes in the same transaction;
`ScanJobs` and `ReconcileJob`; and what the rest of the system does with
documents: `ChildWorks`, `ChildEnds`, `OtherStarts`, `OtherEnds`, `Trash`, `Restore`, `Purge`.
Coordinators and deletions hold the admission lock to their commit, so their transactions are serial.
`FailItem` is the case the reconciliation exists for: a handler that raises is
failed by its worker, which does not know the job.

*Abstraction.* The receipts have the states of `WorkStore` that matter here (`Row` maps them to `WorkPromise`); that a retired
attempt commits nothing is `WorkExecution`'s. Documents move as `Generations` lets
them. Users are left out, and with them the second administrator of an approval, a plain guard;
so are rate limits, audit records, and the thread and in-memory queue of the single-process deployment.
`scan` holds all pending jobs where the code reads a hundred, which is above `job_queue_max_pending`.

### 2.7 `Artifacts`: objects and their collection

*State.* The provider: the objects it has, puts and deletions still on their way
(`late`, `doomed`). SQL: the object's row, the kinds of reference to it, the claim on it, the
observation of an unknown object and the run lease of the collection. Readers:
the lease in the database, counted down by its clock, and the reader's own
deadline, counted down by its own from before the request. What the grace
period tells apart (`young`, `aged`, `changed`) are sets, because only "long
enough ago" is ever asked. `stale` says for which objects a collector works off a fingerprint that is out of date:
the listing is made once, before the pass that records it.

*Actions.* Writers `Put`, `Attach`, `Detach`, `WriterEnds`; readers `Resolve`,
`AcquireLease`, `BeginRenewal`, `RenewLease`, `ApplyRenewal`, `Close`; one
collection cycle from `Start` over `Observe`, `Promote` (with inspection, adoption,
and deletion of what lies under a tombstone) and `Sweep` (claim, delete at the
provider, finish) to `Ends`; and what time and the provider do. Between any two
steps of a collector its run lease or its claim may expire, and another may begin.

*Abstraction.* Pages, cursors and the byte budget of a cycle are left out, and
so are storage migration and the providers' own I/O. Object ids are fresh, as uuids are. Puts that land late are those of the
remote stores (`artifacts/s3.py`, whose client makes two attempts, `factory.py:46`); the local store links its file
before it answers, and its runs are among those in which nothing lands late.

### 2.8 `AuditOutbox`: delivery of audit events

*State.* The rows, those that are due in the order of a tick's query, the lines
that are out for each, the advisory lock and who believes to own it, and each dispatcher's
place in its tick. `Ghost` is the lock of a connection its client has dropped and the server has not yet noticed.
A transaction of a dispatcher runs on the connection that owns the lock, so it has `Owns` as a
guard; the write to stdout is a step between two of them and has none.

*Actions.* `Record`, `BecomesDue`, `HoldPending`, `SessionEnds`; `Acquire`, `List`, `Read`,
`Count`, `Write`, `Mark`, `EndTick` of a dispatcher, and how each may fail.

*Abstraction.* Payloads are valid or not, rows can be written or not; both are
fixed, which gives rows that are retried for ever beside others.

### 2.9 `EditLeases`: one item, its editors and other writers

*State.* The item's content and its `ReferenceResourceState` (revision, epoch, owner, the
two deadlines, activity); for each tab what it shows, the content and revision
its draft began from, and every request of its own that is under way; for each background writer the content and
revision it took up. `base` remembers from which content the current one was made.

*Actions.* The tab's side is translated from `editorLeaseSession.mjs` (`Open`,
`Load`, `Act`, `SendRenewal`, `Send`, `Leave`), the server's from the reference modules (`Acquire`,
`Renew`, `Save`, `Delete`, `Release`, `Revoke`, `InvalidateAll`). A request and its arrival are two actions, and it may
be lost (`...Fails`, `ReleaseLost`). `Capture`/`Commit`/`Skip` are translations and bulk actions,
`SystemWrite`, `Restore` and `Recreate` writers that ask nobody.

*Abstraction.* One item and one clock; access rights and operations on
several items at once are left out.

### 2.10 `Exports`: from admission to expiry

*State.* The job and its work item, the references to originals and parts, what
is available, expired, or created within the hour, and the downloads of the API process.
*Actions.* `Submit` with all of `_assert_capacity` except the disk reserve (which only refuses more); `SetRunning`, `FinishCompleted`,
`FinishFailed`, `Retry`, `FailItem`; `Download`, `Release`, `Delete`, `Expire`, `Rollback`. Downloads
are known to the API process alone, so expiry in a worker and the operator's rollback do not wait for
them; a download streams from a private copy.

## 3. What TLC checks

Distinct states are those TLC reports.

| Run | States | Question |
|---|---|---|
| `work_execution` | 2.6 million | Two workers with threads, crashes, stops, stale tokens, cancellation, retries and maintenance, transactions opened up: `LostForever`, `CancelNotStranded`, `AttemptsAccounted` of the ledger, `OpenTransactionHoldsRow`, `EffectsInOrder`, `TransactionsAtomic` of the execution, and the promise to whoever enqueued (`KeepsPromiseOpen`) |
| `work_execution_live` | 15 thousand | Is a cancellation final although the handler never returns and its coordinator may go on renewing (`CancelSettlesOpen`)? |
| `capacity` | 1.2 million | Two replicas with different limits, dying callers, calls that outlive their caller: are the slots a semaphore for calls at the provider (`KeepsSemaphore`), and is a lost lease lost (`LostForever`)? |
| `generations` | 1.3 million | An upload attempted twice, then an update; cancellation, trash, purge and a cleanup from an old list: what readers see (`PublishedIsWhole`, `LateWritesExcluded`), what the document promises (`KeepsDocumentPromise`), what it and its items say (`OneMutator`, `OwnerNotRefused`, `SuccessIsPublication`), what an update or a successor relies on (`SnapshotCurrent`, `CheckpointKept`), and whether the document leaves processing although attempts die (`BusySettles`, except as section 2.4 says) |
| `chat_runs` | 1.6 million | Two attempts, of one conversation or of two, and a preview compete for one slot that expires and is reallocated: `StoriesAgree`, `OneRunPerSession`, `HistoryIsFinal`, `LiveRunsHoldSlots`, `SlotsNotStolen`; is a run settled and its slot free although its requester is gone (`OrphansSettle`)? |
| `bulk_jobs` | 1.5 million | A regeneration of two documents and a deletion of one of them that needs approval, with room for one document in the queue: `JobsAgree`, `EndedJobsStay`, `DocumentsQuiet` |
| `bulk_live` | 46 thousand | Do a regeneration and a resumption of one document end, although attempts are lost and items fail without telling the job (`JobsEnd`)? |
| `artifacts` | 2.2 million | One object, one reader and two collectors, with puts and deletions that take effect late and leases that end under a paused process: `BoundBytesKept`, `ReadersProtected`, `UploadsProtected` |
| `artifacts_live` | 111 thousand | Do bytes nobody refers to go, after any number of failures (`GarbageGoes`)? |
| `audit_outbox` | 34 thousand | Two replicas, three events of which one is invalid and one can never be written, a page of one row: `DuplicatesExplained`, `SettlesOnce`, `Delivered` |
| `edit_leases` | 1.6 million | Two tabs and a translation over one item that is deleted, restored and re-created: `NoSurprise`, `NothingOverwritten`, `ForgottenEnds` |
| `exports_quota` | violation | One administrator within all his limits exports three times; two results fit into the quota (section 3.3) |

`WorkExecution` has every action of `WorkStore`, so the ledger's properties are
checked there, in the richer system; the refinement of `WorkPromise` by `WorkStore` alone is a theorem.

### 3.1 Bounds, and why they are enough

- *Fences* (`MaxFence`): two claims give one stale token and one current; three
  give two stale tokens of different age, which ordering between stale
  attempts (`EffectsInOrder`) needs.
- *Attempts* (`MaxAttempts = 2`): one retry that is granted, one that is not.
- *Lease and delay*: 1 tick where only "live or expired" matters, 2 in the
  liveness runs, so that a lease can be renewed while still live.
- *Epochs* (`MaxEpoch = 1`): one maintenance operation gives rows, tokens and
  processes of an old and of a new epoch.
- *Two processes*: every property of the ledger and of transactions speaks of at
  most two parties and one item; items interact only through the sweep of a
  poll, and the theorems hold for any number of items.
- *Effects* (`MaxEffects = 2`): the order of two commits.
- *Capacity*: a limit of 2 against 1 is the smallest in which lowering the limit
  and partial occupation exist; three slots are needed for free slots to lie
  between busy ones.
- *Batches = 2*: a generation can be half written. An upload with two attempts
  and one further request give a dead attempt, a successor that inherits its checkpoint, a
  requeued item beside a new request, and a version that is retired. Further versions and
  attempts are covered by the theorems, which hold for any number.
- *Chats*: two attempts give supersession, a late owner and a new one; two
  conversations are needed for a slot to pass between runs that do not
  supersede each other. A lease of 2 with renewal at 1 has a heartbeat that renews and
  one that does not. Pages of 1 and of 2 against two lapsed runs give a full
  and a partial page.
- *Bulk jobs*: two items in one job give a job with mixed outcomes; a third, in another job over the
  same document, gives the conflict. A queue of one document is full as soon as anything runs. Work that no
  bulk job asked for starts once, on one document (`Others`).
- *Artifacts*: one object, because objects share nothing but the run lease of the
  collection; two collectors for a paused one and its successor; two kinds of
  reference, so that one of them can be overlooked. A read lease of 3 with a margin of 2 leaves room for a renewal
  between two ticks. The liveness run has no reader, which could only delay, and the shortest lease.
- *Audit*: a page of one row makes a row that can never be written block the others unless it
  is put off; lines are counted up to "two or more".
- *Edit leases*: a lease of 2 and an idle time of 3 let either deadline come first; two epochs
  give an owner and a successor; three revisions a content, one that replaces it and
  a conflict between two that would.
- *Quit*: the last attempt of an item does not die while it owns the item;
  without this bound on fences the item would be claimed again.

`CHECK_DEADLOCK FALSE` is set for `Generations` and `Exports`: a published or purged
document whose requests are all used up really has nothing left to do, nor has an
installation whose exports are over.

### 3.2 Fairness, and what justifies it

- `WorkExecution`: the clock runs and an operator ends the maintenance begun; transactions end (statement and idle timeouts of
  `db/session.py`); processes that were stopped or whose epoch was retired exit
  and a supervisor starts them again; polling is *strongly* fair because a
  process that crashes again and again polls now and then. Neither the
  handler's return nor the heartbeat is fair.
- `Generations`: pending items are claimed; an item whose attempt is over is
  claimed again once its lease ran out; a live owner goes on. No fairness of
  requests, cleanup or crashes.

- `ChatRuns`: the clock runs, and the scheduler has lapsed runs reconciled.
  Nothing is asked of request threads, heartbeats or users.
- `BulkJobs`: workers claim queued rows, documents under way come to an end, and
  reconciliation recurs and visits what it read. Attempts may be lost any number
  of times, but not every one is (strong fairness of `FanOut` and `RunItem`); no failure is fair, so
  nothing ends because a handler is required to raise.
- `Artifacts`: time passes, collectors go on, readers close; from some time on no
  inspection or deletion fails and no collector stops or loses its run lease in the middle of a cycle
  (the code's answer to a failure is the next cycle, so with failures for ever nothing can be required).
- `AuditOutbox`: dispatchers go on (a write to stdout returns), the server frees the
  locks of dropped connections, postponed rows become due; from some time on only the rows that
  can never be written fail.
- `EditLeases`: the clock runs. Nothing is asked of tabs, networks or users:
  `ForgottenEnds` is about users who do nothing any more and holds whatever their tabs do.

### 3.3 Where the code and its documentation disagree

`exports_quota` refutes `RetainedWithinQuota`: exports that are complete and kept
for download may exceed the quota that `docs/HOST_SIZING.md:49`
("До 5 ГиБ готовых экспортов") and `docs/LIMITS.md:25` give them. `_assert_capacity` adds up what is
retained over jobs with `status == "ready"` (`services/export_queue.py:1218`), but a job that ends well
gets `"completed"` (`:836`) and nothing sets `"ready"`; only the test of the quota inserts
such a row (`tests/test_export_queue.py:254`). In the trace one administrator submits three exports one
after another, each within the hourly limit and the quota, and all three are retained. With the
defaults, two administrators can retain six exports of 1 GiB in an hour against a quota of 5 GiB; the disk
reserve is the only bound left.

## 4. What is proved

All theorems hold for every value of the constants that satisfies the named
assumptions `WorkStoreAssumption`, `CapacityAssumption`, `UploadAssumption`,
`BoundsAssumption`, `NoGenAssumption`, `ChatAssumption`, `BulkAssumption`, `ArtifactsAssumption`, `AuditOutboxAssumption`,
`EditLeasesAssumption`.
**Every safety invariant, every action property and every refinement the passing runs check is proved.**
The bounds on fences, effects and epochs are constants like any
other, so the results hold however large they are.

`WorkProofs`, the ledger. `TypeOK` is inductive by itself. `LostForever` needs `TokenInv`:
no token has a fence above its row's, and for one item and fence
there is one token. A row's fence only grows, and a
token with the current fence can lose, but not regain, the status, owner, lease
and epoch it had, since only a claim sets them and a claim takes a new fence.
The refinement of `WorkPromise` is by cases: every action is an `Accept`, a `Withdraw`, a `Settle`
of the set it retires, or a stutter; a claim that retires other rows is a
`Settle` of those.

`WorkProofs`, executions. The inductive invariant is `ExecInv`: the ledger's
invariants for executions (`LedgerInv`), which handler belongs to which claim
(`ThreadInv`), that an open transaction has its row (`Guarded`), that no effect
carries a fence above the row's (`EffectsPast`), and that effects are ordered.
`Guarded` is what makes it work: it is preserved because everything that could
take the row, cancel it or retire its epoch needs it to be in `Free` or waits for
the maintenance row. Each step of an execution is a step of the ledger or a
*late outcome*, the commit of a completed item whose lease is over; both keep the promise
(`ExecutionKeepsPromise`). `HandlersAreAtomic` adds that each moves every row as `LedgerRows` lets it, and that at a
commit `Guarded` makes the handler's claim the row's latest attempt, so that guard, statements, check
and commit collapse into one step of `AtomicWork`.

`CapacityProofs`. A call that is executing has a lease that identifies its slot
(`CallsHoldSlots`), and two calls identify different slots; busy slots lie below
the limit (`BusyWithinLimit`), so reservations in use map one-to-one into `0..limit-1`, and
their number is bounded by cardinality (`InUseBounded`). `ProviderWithinLimit` is the part of it about calls, and
the refinement of `Semaphore` its dynamic form: a step that puts a reservation to use makes it
(`EntryStep`), no other does (`ExitStep`), and the limit follows the policy only while every slot is free. `AlwaysASlot` is
a counting argument over the same interval.

`GenerationsProofs`. The invariant has three layers, each preserved given those before:
`ItemInv` about items and the document (a live item exists only once, and only
while the document is writable; an attempt whose fence is current is the only one
that owns), `RowInv` about generation rows and the two pointers, and `PointInv`
about Qdrant (which thread can still write which points, what was cleaned and
what a list may still contain). The stale list of a cleanup is harmless because
`retired` and `abandoned` are final while a row exists (`ListedDisused`).
On these layers rest two refinements. `ImplementsDocumentPromise`: an admission finds
nothing in hand (`OneLive`), a publication shows the request in hand, a purge finds nothing to give up;
everything an attempt does besides goes unnoticed. `KeepsLedgerPromise` follows: the
document uses its items as `WorkPromise` says. `ItemsAreLedgerRows`: its items move as the ledger's
rows (`QueuedLive`, that a queued item was not withdrawn, is what take-overs need), from which
`AttemptsDoNotReturn`: an attempt that lost its item never owns it again.

`ChatRunsProofs`. The invariant is `Story(r)`, one formula per attempt about its
run, message, lease and slot. Each step is first classified by what it does to one
attempt (`StoryStep`: nothing, admission, an end, a renewal, ...), and `Story` is
preserved case by case, so no case repeats the argument for the others.
`OneRunPerSession` adds that only an admission begins a run and that it ends those of its session.
`LiveRunsHoldSlots` (`Served`) is what makes a late release harmless: a slot is
given back only by the run that has it. For the refinement of `Semaphore`, holders map one-to-one into the slots
(`HoldingBounded`), each step is an entry of one newcomer, in whose favour an
older run of its session may leave, or only lets holders leave; `AdmissionsBounded` follows from the first.

`BulkJobsProofs`. Job and receipts are related through the coordinator's own receipt (`Rows`,
`Untouched`): it is "succeeded" exactly from the fan-out on, so a job that is
cancelled or failed before has no items, and no item that is open can find its
job over (`Served`). That makes `EndedJobsStay` a matter of the re-read in
`reconcile_bulk` alone. `DocumentsQuiet` is inductive by itself: whoever admits
work has looked at the document under the lock that a deletion needs.
`RowsKeepPromise` shows for every receipt that it is used as `WorkPromise` says, although one transaction moves the receipts of a
job, of its items and of documents together: each step is first classified by what it may do to one receipt (`Moves`).

`ArtifactsProofs`. The invariant says that bytes go only when the row is gone for ever
(`BytesInv`), that a collector deletes only what is gone or what no row and no
reference knows (`ClaimInv`), that a lease that has time left keeps the row ready and outlives the reader's own deadline,
also the one the reader is about to set (`LeaseInv`), and that rows and observations are no older than
the bytes (`AgeInv`), from which `UploadsProtected` follows. The proof is for every lease time and every smaller margin. `TombstonesStay`,
which no run repeats, is proved from the same: it is what makes deletions harmless that take effect late.

`AuditOutboxProofs`. A row with two lines must have an explanation at the moment of
the second, so the invariant (`Traced`) follows it from there backwards: a row that is still pending with a line is
being marked or has an explanation (`Open`), hence a leader that lists it and
is about to write has one (`Led`), unless it does not own the lock any more.

`EditLeasesProofs`. Whatever a tab was sent, shows or drafts, and whatever a
translation took up, is dated: at a revision that is still the item's it is the item's content (`ReadDated`,
`SeenDated`), because a content changes with the revision only and revisions go up. An item that is gone has no owner
(`GoneIsFree`), and what the holder of the live lease shows is current (`Current`), since a write by anybody else
ends that lease. `NoSurprise` is a part of it; `NothingOverwritten` follows at each
write from the revision the server compares. `LeaseNotRevived` looks at the lease alone: one that
is over is followed by a greater epoch.

Some properties are proved without a run of their own, because a property
of a run implies what they would show: `NotStranded` (by `BusySettles`), the
ledger's own refinement `KeepsPromise` (`KeepsPromiseOpen`), `SettledIsQuiet` (`TransactionsAtomic`), `ProviderWithinLimit`, `BusyWithinLimit` and `AlwaysASlot` of
`Capacity` (`KeepsSemaphore` implies the first, and needs the second to hold), and type correctness of every module with a proof module.
Others were checked by TLC on the instance of their module before they were proved and are left out of
its run to keep that within its time: `TombstonesStay`, `LeaseNotRevived`, `PublishesLiveWork`, `LostForever` and `KeepsRows` of `Generations`,
`AdmissionsWithinLimit` and `KeepsSemaphore` of `ChatRuns`, `KeepsLedgerPromise` of `BulkJobs`.

### 4.1 What is only model-checked

Liveness: `CancelSettlesOpen`, `BusySettles`, `OrphansSettle`, `JobsEnd`, `GarbageGoes`,
`Delivered` and `ForgottenEnds`. They rest on fairness, which the prover's backends do not cover.

`Exports` has no proofs: its one property is refuted (section 3.3).

## 5. What is not modelled, and why

Each component's own account is in `PROJECT.json` (`components`, with what a
partly modelled one leaves out). In groups:

- *Worth a module, see below*: the scheduler, the process-local scheduler, rate
  windows, the operator's part of maintenance, scope changes and other mutators of a document.
- *State without concurrency of its own*: glossary, tags, attributes, tables and locales keep
  rows behind single transactions with a revision counter.
- *Data transformation*: parsing, chunking, prompts, ranking, quality and
  source assessment. One attempt computes them from its input; nothing in their
  order can go wrong that the attempt's own steps do not show.
- *I/O and wiring*: storage adapters, HTTP routing, authentication, migrations,
  deployment commands, the browser client.

Two hazards in `PROJECT.json` have no property; their notes say why. Known limits of the
models, which no plan changes: a session deleted while the very first chat of a deployment is admitted, before
the capacity's policy row exists (the deletion takes no lock then, `work/chat.py`); replicas
whose clocks differ, which `EditLeases` leaves out (revisions do not depend on
clocks, so nothing is overwritten, but an editor may meet a conflict); a dispatcher blocked in
its write to stdout, which keeps the lock and is only reported as stalled; a document whose handler could not even record its
failure, which stays in processing (section 2.4); requests to the model provider that its client library repeats, of
which the budget counts the latest (section 2.3); and the byte budget of a
collection, which an object at the head of the list whose deletion always fails keeps consuming.

## 6. Plan

1. Safety properties of `Exports` beside its quota: job and receipt agree, originals are
   bound while an export is pending and no longer, every export ends.
2. The priority scheduler as a condition variable, rate windows beside
   `Capacity`, and the operator's retained lock of maintenance composed with `WorkExecution`.
3. Scope changes and canonical repairs, as further mutators of `Generations`.
4. Composition: `Generations` meets `WorkExecution` in `LedgerRows` (section 2). What is left is to let the documents of
   `BulkJobs` implement `DocumentPromise`, and to bind the references of `Artifacts` to the
   transactions of `Generations` and `Exports`.
