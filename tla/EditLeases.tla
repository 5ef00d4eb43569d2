----------------------------- MODULE EditLeases -----------------------------
(***************************************************************************)
(* One item of reference data (a term, a development, a tag...) with its   *)
(* row of revision and edit lease (services/reference_edit_lock.py,        *)
(* reference_concurrency.py, reference_mutation.py), the browser tabs that *)
(* edit it (frontend/src/lib/editorLeaseSession.mjs) and the writers that  *)
(* work without a lease (reference_translation.py, reference_tag_actions.py)*)
(*                                                                         *)
(* Every server operation is one transaction under the row's lock. The     *)
(* requests of a tab travel on their own: one may arrive after the tab has *)
(* given up, in any order, or never. A tab is one opening of an editor and *)
(* has a token of its own.                                                 *)
(*                                                                         *)
(* The deadlines are kept as the time that is left of them, by one clock.  *)
(***************************************************************************)
EXTENDS Integers

CONSTANTS
    Tabs,
    Jobs,         \* background writers: translations, bulk actions
    LEASE,        \* LEASE_SECONDS
    IDLE,         \* IDLE_SECONDS
    MaxEpoch, MaxRevision, MaxActivity,   \* bounds of the model
    Nobody, Nothing

ASSUME EditLeasesAssumption ==
    /\ LEASE \in Nat \ {0} /\ IDLE \in Nat \ {0}
    /\ MaxEpoch \in Nat /\ MaxRevision \in Nat \ {0} /\ MaxActivity \in Nat
    /\ Nobody \notin Tabs

VARIABLES
    \* the item and its ReferenceResourceState
    exists, content, revision, epoch, owner, left, idleLeft, activity,
    base,      \* the content that the author of the current one had read
    \* the tabs
    at,        \* what the tab shows
    held,      \* the epoch it was granted
    read,      \* the content and revision its draft started from
    acts,      \* how often its user did something
    renewing,  \* activity_sequence of the renewal under way, or Nothing
    writing,   \* "save" or "delete" under way, or Nothing
    releasing, \* tabs whose release is under way
    \* the background writers
    seen       \* the content and revision the job took up, or Nothing

row  == <<exists, content, revision, epoch, owner, left, idleLeft, activity, base>>
tabs == <<at, held, read, acts, renewing, writing, releasing>>
vars == <<row, tabs, seen>>

Least(a, b) == IF a < b THEN a ELSE b

(* live                                                                    *)
Live == owner # Nobody /\ left > 0 /\ idleLeft > 0

Init == /\ exists = TRUE /\ content = 1 /\ base = 1
        /\ revision = 1 /\ epoch = 0 /\ owner = Nobody
        /\ left = 0 /\ idleLeft = 0 /\ activity = 0
        /\ at = [t \in Tabs |-> "closed"]
        /\ held = [t \in Tabs |-> 0]
        /\ read = [t \in Tabs |-> <<1, 1>>]
        /\ acts = [t \in Tabs |-> 0]
        /\ renewing = [t \in Tabs |-> Nothing]
        /\ writing = [t \in Tabs |-> Nothing]
        /\ releasing = {}
        /\ seen = [j \in Jobs |-> Nothing]

----------------------------------------------------------------------------
(* Parts of the transactions.                                              *)

Now == <<content, revision>>

(* Nobody can tell two contents apart by chance: each change makes a new.  *)
NewContent(from) == /\ revision < MaxRevision
                    /\ content' = content + 1
                    /\ revision' = revision + 1
                    /\ base' = from

(* _clear, invalidate_reference_lease                                      *)
Clear == owner' = Nobody /\ left' = 0 /\ idleLeft' = 0 /\ activity' = 0
Invalidate == epoch < MaxEpoch /\ epoch' = epoch + 1 /\ Clear

KeepLease == UNCHANGED <<epoch, owner, left, idleLeft, activity>>
KeepItem  == UNCHANGED <<exists, content, revision, base>>

(* compute_deadlines: what a renewal does to the deadlines.                *)
DeadlinesAnyway(active) == idleLeft' = IDLE /\ left' = Least(LEASE, IDLE)      \* mutant
Deadlines(active) ==
    /\ idleLeft' = IF active THEN IDLE ELSE idleLeft
    /\ left' = Least(LEASE, IF active THEN IDLE ELSE idleLeft)

(* require_edit_lock, for the token and the epoch of tab t.                *)
Required(t) == exists /\ Live /\ owner = t /\ held[t] = epoch

(* guard_reference_write for a tab's request.                              *)
Guarded(t) == read[t][2] = revision /\ Required(t)

(* A tab stops editing, and says so if it was ever granted anything.       *)
Lost(t) == /\ at' = [at EXCEPT ![t] = "lost"]
           /\ releasing' = IF held[t] > 0 THEN releasing \cup {t} ELSE releasing

Stays(t) == UNCHANGED <<at, releasing>>

(* The tab gets its answer, or no answer, which it takes for a loss.       *)
Answered(t) == Stays(t) \/ Lost(t)

----------------------------------------------------------------------------
(* A tab.                                                                  *)

(* start: status, then acquire with a new token.                           *)
Open(t) ==
    /\ at[t] = "closed" \/ (at[t] = "lost" /\ owner # t)
    /\ t \notin releasing /\ renewing[t] = Nothing /\ writing[t] = Nothing
    /\ at' = [at EXCEPT ![t] = "acquiring"]
    /\ held' = [held EXCEPT ![t] = 0]
    /\ acts' = [acts EXCEPT ![t] = 0]
    /\ UNCHANGED <<row, read, renewing, writing, releasing, seen>>

(* acquire_edit_lock; whether the tab hears of it or not.                  *)
Acquire(t) ==
    /\ at[t] = "acquiring"
    /\ exists /\ ~Live
    /\ epoch < MaxEpoch
    /\ epoch' = epoch + 1
    /\ owner' = t /\ activity' = 0
    /\ idleLeft' = IDLE /\ left' = Least(LEASE, IDLE)
    /\ \/ at' = [at EXCEPT ![t] = "loading"] /\ held' = [held EXCEPT ![t] = epoch + 1]
       \/ at' = [at EXCEPT ![t] = "lost"] /\ UNCHANGED held
    /\ KeepItem
    /\ UNCHANGED <<read, acts, renewing, writing, releasing, seen>>

(* The item is being edited, is gone, or the request never arrives.        *)
AcquireFails(t) ==
    /\ at[t] = "acquiring"
    /\ at' = [at EXCEPT ![t] = "lost"]
    /\ UNCHANGED <<row, held, read, acts, renewing, writing, releasing, seen>>

(* onAcquired: the editor starts from what the item is now. The user also  *)
(* comes back to the current state after a conflict.                       *)
Load(t) ==
    /\ at[t] \in {"loading", "editing"} /\ writing[t] = Nothing
    /\ exists
    /\ read' = [read EXCEPT ![t] = Now]
    /\ at' = [at EXCEPT ![t] = "editing"]
    /\ UNCHANGED <<row, held, acts, renewing, writing, releasing, seen>>

(* lose, dispose: a timer, an error, the user; also of a tab that only     *)
(* loads.                                                                  *)
Leave(t) ==
    /\ at[t] \in {"loading", "editing"}
    /\ Lost(t)
    /\ UNCHANGED <<row, held, read, acts, renewing, writing, seen>>

(* The user does something.                                                *)
Act(t) ==
    /\ at[t] = "editing" /\ acts[t] < MaxActivity
    /\ acts' = [acts EXCEPT ![t] = @ + 1]
    /\ UNCHANGED <<row, at, held, read, renewing, writing, releasing, seen>>

SendRenewal(t) ==
    /\ at[t] = "editing" /\ renewing[t] = Nothing
    /\ renewing' = [renewing EXCEPT ![t] = acts[t]]
    /\ UNCHANGED <<row, at, held, read, acts, writing, releasing, seen>>

Send(t, kind) ==
    /\ at[t] = "editing" /\ writing[t] = Nothing
    /\ writing' = [writing EXCEPT ![t] = kind]
    /\ UNCHANGED <<row, at, held, read, acts, renewing, releasing, seen>>

(* renew_edit_lock                                                         *)
RenewableDead(t) == exists /\ owner = t /\ held[t] = epoch       \* mutant
Renewable(t) == Required(t)

Renew(t) ==
    /\ renewing[t] # Nothing /\ Renewable(t)
    /\ LET active == renewing[t] > activity
       IN  /\ activity' = IF active THEN renewing[t] ELSE activity
           /\ Deadlines(active)
    /\ renewing' = [renewing EXCEPT ![t] = Nothing]
    /\ IF at[t] = "editing" THEN Answered(t) ELSE Stays(t)
    /\ KeepItem
    /\ UNCHANGED <<epoch, owner, held, read, acts, writing, seen>>

RenewFails(t) ==
    /\ renewing[t] # Nothing
    /\ renewing' = [renewing EXCEPT ![t] = Nothing]
    /\ IF at[t] = "editing" THEN Lost(t) ELSE Stays(t)
    /\ UNCHANGED <<row, held, read, acts, writing, seen>>

(* A save that passes; it may change nothing.                              *)
Save(t) ==
    /\ writing[t] = "save" /\ Guarded(t)
    /\ Deadlines(TRUE)
    /\ \/ NewContent(read[t][1])
       \/ UNCHANGED <<content, revision, base>>
    /\ writing' = [writing EXCEPT ![t] = Nothing]
    /\ \/ Stays(t) /\ read' = [read EXCEPT ![t] = Now']
       \/ at[t] = "editing" /\ Lost(t) /\ UNCHANGED read
    /\ UNCHANGED <<exists, epoch, owner, activity, held, acts, renewing, seen>>

(* A deletion that passes: the lease goes with the item.                   *)
Delete(t) ==
    /\ writing[t] = "delete" /\ Guarded(t)
    /\ NewContent(read[t][1])
    /\ exists' = FALSE
    /\ Invalidate
    /\ writing' = [writing EXCEPT ![t] = Nothing]
    /\ IF at[t] = "editing" THEN Lost(t) ELSE Stays(t)
    /\ UNCHANGED <<held, read, acts, renewing, seen>>

(* A write that is refused or never arrives. After a conflict of revisions *)
(* the editor stays open.                                                  *)
WriteFails(t) ==
    /\ writing[t] # Nothing
    /\ writing' = [writing EXCEPT ![t] = Nothing]
    /\ \/ at[t] = "editing" /\ Lost(t)
       \/ (at[t] # "editing" \/ read[t][2] # revision) /\ Stays(t)
    /\ UNCHANGED <<row, held, read, acts, renewing, seen>>

(* release_edit_lock, which is happy with a lease that ran out.            *)
Release(t) ==
    /\ t \in releasing
    /\ releasing' = releasing \ {t}
    /\ IF owner = t /\ held[t] = epoch THEN Clear ELSE UNCHANGED <<owner, left, idleLeft, activity>>
    /\ KeepItem
    /\ UNCHANGED <<epoch, at, held, read, acts, renewing, writing, seen>>

ReleaseLost(t) ==
    /\ t \in releasing
    /\ releasing' = releasing \ {t}
    /\ UNCHANGED <<row, at, held, read, acts, renewing, writing, seen>>

----------------------------------------------------------------------------
(* Writers without a lease.                                                *)

(* capture_translation_candidate, which leaves an item alone that is being *)
(* edited; the candidates of a bulk action are listed without looking.     *)
Capture(j) ==
    /\ seen[j] = Nothing /\ exists
    /\ seen' = [seen EXCEPT ![j] = Now]
    /\ UNCHANGED <<row, tabs>>

(* commit_translation_candidate, _card: nobody edits, nothing has changed. *)
MayCommitStale(j) == exists /\ ~Live                             \* mutant
MayCommit(j) == exists /\ ~Live /\ seen[j][2] = revision

Commit(j) ==
    /\ seen[j] # Nothing /\ MayCommit(j)
    /\ NewContent(seen[j][1])
    /\ exists' \in {TRUE, FALSE}    \* apply_cleanup deletes
    /\ seen' = [seen EXCEPT ![j] = Nothing]
    /\ KeepLease
    /\ UNCHANGED tabs

Skip(j) ==
    /\ seen[j] # Nothing
    /\ seen' = [seen EXCEPT ![j] = Nothing]
    /\ UNCHANGED <<row, tabs>>

(* Writers that read and write in one transaction: guard_reference_writes  *)
(* without a context, as bulk_review and delete_unused.                    *)
SystemWrite ==
    /\ exists /\ ~Live
    /\ NewContent(content)
    /\ \/ UNCHANGED exists /\ KeepLease
       \/ exists' = FALSE /\ Invalidate
    /\ UNCHANGED <<tabs, seen>>

(* ensure_assigned_tags: a document needs the tag that was deleted.        *)
Restore ==
    /\ ~exists /\ revision < MaxRevision
    /\ exists' = TRUE
    /\ revision' = revision + 1
    /\ KeepLease
    /\ UNCHANGED <<content, base, tabs, seen>>

(* initialize_reference_resource: the identifier is used again.            *)
Recreate ==
    /\ ~exists
    /\ exists' = TRUE
    /\ NewContent(content)
    /\ Invalidate
    /\ UNCHANGED <<tabs, seen>>

(* revoke_edit_lock by an administrator who has seen the current epoch,    *)
(* and invalidate_all_editor_generations.                                  *)
Revoke ==
    /\ exists /\ Invalidate
    /\ KeepItem
    /\ UNCHANGED <<tabs, seen>>

InvalidateAll ==
    /\ Invalidate
    /\ KeepItem
    /\ UNCHANGED <<tabs, seen>>

Tick ==
    /\ left > 0 \/ idleLeft > 0
    /\ left' = IF left > 0 THEN left - 1 ELSE 0
    /\ idleLeft' = IF idleLeft > 0 THEN idleLeft - 1 ELSE 0
    /\ UNCHANGED <<exists, content, revision, epoch, owner, activity, base, tabs, seen>>

----------------------------------------------------------------------------
(* What shows that a user is there.                                        *)
UserActs == \E t \in Tabs : Open(t) \/ Act(t) \/ Send(t, "save") \/ Send(t, "delete")

Arrives(t) == \/ Acquire(t) \/ AcquireFails(t) \/ Load(t) \/ Leave(t) \/ SendRenewal(t)
              \/ Renew(t) \/ RenewFails(t) \/ Save(t) \/ Delete(t) \/ WriteFails(t)
              \/ Release(t) \/ ReleaseLost(t)

Next == \/ UserActs
        \/ \E t \in Tabs : Arrives(t)
        \/ \E j \in Jobs : Capture(j) \/ Commit(j) \/ Skip(j)
        \/ SystemWrite \/ Restore \/ Recreate \/ Revoke \/ InvalidateAll \/ Tick

Spec == Init /\ [][Next]_vars

FairSpec == Spec /\ WF_vars(Tick)

----------------------------------------------------------------------------
TypeOK ==
    /\ exists \in BOOLEAN
    /\ content \in 1 .. MaxRevision /\ base \in 1 .. MaxRevision
    /\ revision \in 1 .. MaxRevision /\ epoch \in 0 .. MaxEpoch
    /\ owner \in Tabs \cup {Nobody}
    /\ left \in 0 .. LEASE /\ idleLeft \in 0 .. IDLE /\ activity \in 0 .. MaxActivity
    /\ at \in [Tabs -> {"closed", "acquiring", "loading", "editing", "lost"}]
    /\ held \in [Tabs -> 0 .. MaxEpoch]
    /\ read \in [Tabs -> (1 .. MaxRevision) \X (1 .. MaxRevision)]
    /\ acts \in [Tabs -> 0 .. MaxActivity]
    /\ renewing \in [Tabs -> (0 .. MaxActivity) \cup {Nothing}]
    /\ writing \in [Tabs -> {"save", "delete", Nothing}]
    /\ releasing \subseteq Tabs
    /\ seen \in [Jobs -> ((1 .. MaxRevision) \X (1 .. MaxRevision)) \cup {Nothing}]

(* Whoever edits under a live lease has the current content before them:   *)
(* no other tab, late request or background writer changes it under their  *)
(* hands, and a lease that has run out never comes back to life.           *)
NoSurprise == \A t \in Tabs :
    at[t] = "editing" /\ writing[t] = Nothing /\ Required(t) => read[t] = Now

(* Nothing is overwritten unseen: every content was made from the one it   *)
(* replaces, by whichever writer, also after the item was deleted and its  *)
(* identifier used again.                                                  *)
NothingOverwritten == [][content' # content => base' = content]_vars

(* A lease that has run out, was released or was invalidated is not live   *)
(* again: what is live afterwards has a new epoch, which no token that was *)
(* granted before matches (require_edit_lock, renew_edit_lock).            *)
LeaseNotRevived == [][Live' => epoch' > epoch \/ (Live /\ UNCHANGED <<epoch, owner>>)]_vars

(* An editor somebody left open gives the item free, although the tab goes *)
(* on renewing.                                                            *)
ForgottenEnds == <>[][~UserActs]_vars => []<>~Live
=============================================================================
