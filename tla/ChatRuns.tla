------------------------------ MODULE ChatRuns ------------------------------
(***************************************************************************)
(* Chat requests of the replicas-v1 deployment: the durable run of         *)
(* work/chat.py, its answer in the history (chat_history.py), its slot of  *)
(* the shared "chat" capacity, and the request thread with its heartbeat   *)
(* (work/chat_runtime.py, api/chat.py, chat_stream.py).                    *)
(*                                                                         *)
(* A run is named by its attempt id. Every transaction on runs locks the   *)
(* policy row of the capacity first, so transactions are serial; they are  *)
(* the actions here. What is concurrent is everything between them: the    *)
(* request thread, its heartbeat, the user's cancellation from another     *)
(* process, newer requests, deletion of the history, and reconciliation.   *)
(*                                                                         *)
(* Time is the database clock, kept as remaining time. A slot is held by a *)
(* run id or a preview id, either used for one reservation only, so fences *)
(* tell nothing more apart and are left out (Capacity has them). Users are *)
(* left out: a session belongs to one.                                     *)
(***************************************************************************)
EXTENDS Integers, FiniteSets

CONSTANTS
    Runs,        \* attempts ever made
    Sessions,
    Previews,    \* previews of scenarios: chats without a history
    Limit,       \* chat_max_inflight
    Ttl,         \* the 30 seconds of a lease, in ticks
    RenewBelow,  \* a heartbeat renews when no more than this is left (20 s)
    Page,        \* runs reconciled in one transaction (25)
    Nobody

ASSUME ChatAssumption ==
    /\ Limit \in Nat \ {0} /\ Ttl \in Nat \ {0} /\ Page \in Nat \ {0}
    /\ RenewBelow \in Nat
    /\ Runs \cap Previews = {}
    /\ Nobody \notin Runs \cup Previews \cup Sessions

Slots == 0 .. Limit - 1

VARIABLES
    session,  \* session[s]: "absent", "open", "deleted" (deleted_at) or "purged"
    \* chat_runs, by attempt
    run, of, lease, capacity,
    \* the assistant's message of the attempt
    answer,   \* status of the answer attempt
    text,     \* content
    sources,  \* evidence saved
    \* slots of the resource "chat"
    holder, expires,
    \* the request thread, and its cancellation event
    request, asked,
    preview   \* preview[p]: its thread

history == <<answer, text, sources>>
slots   == <<holder, expires>>
vars    == <<session, run, of, lease, capacity, history, slots, request, asked, preview>>

Ended == {"completed", "stopped", "failed"}

Init == /\ session = [s \in Sessions |-> "absent"]
        /\ run = [r \in Runs |-> "none"]
        /\ of = [r \in Runs |-> Nobody]
        /\ lease = [r \in Runs |-> 0]
        /\ capacity = [r \in Runs |-> 0]
        /\ answer = [r \in Runs |-> "none"]
        /\ text = [r \in Runs |-> "none"]
        /\ sources = [r \in Runs |-> FALSE]
        /\ holder = [c \in Slots |-> Nobody]
        /\ expires = [c \in Slots |-> 0]
        /\ request = [r \in Runs |-> "none"]
        /\ asked = [r \in Runs |-> FALSE]
        /\ preview = [p \in Previews |-> "none"]

----------------------------------------------------------------------------
RunningIn(s) == {r \in Runs : of[r] = s /\ run[r] = "running"}

(* _slot_token: the slot is still the run's; live if it has not expired.   *)
HasSlot(r) == holder[capacity[r]] = r

(* _locked: what lets the owner of a run write.                            *)
Locked(r) == /\ run[r] = "running" /\ lease[r] > 0
             /\ HasSlot(r) /\ expires[capacity[r]] > 0
             /\ session[of[r]] = "open"

(* _release: an expired slot, perhaps reallocated, is never cleared.       *)
FreedByNumber(R) == {capacity[r] : r \in R}              \* mutant
Freed(R) == {capacity[r] : r \in {q \in R : HasSlot(q) /\ expires[capacity[q]] > 0}}

Release(R) == /\ holder' = [c \in Slots |-> IF c \in Freed(R) THEN Nobody ELSE holder[c]]
              /\ expires' = [c \in Slots |-> IF c \in Freed(R) THEN 0 ELSE expires[c]]

UnoccupiedEarly(c) == holder[c] = Nobody \/ expires[c] <= 1  \* mutant
Unoccupied(c) == holder[c] = Nobody \/ expires[c] = 0

(* reserve_capacity, after the slots in freed were given back.             *)
Reserve(o, freed, c) ==
    /\ Unoccupied(c) \/ c \in freed
    /\ holder' = [d \in Slots |-> IF d = c THEN o ELSE IF d \in freed THEN Nobody ELSE holder[d]]
    /\ expires' = [d \in Slots |-> IF d = c THEN Ttl ELSE IF d \in freed THEN 0 ELSE expires[d]]

(* _finish_message, for a set of attempts.  It raises, and the transaction *)
(* is rolled back, if one is terminal already.                             *)
FinishAnswers(R, outcome) ==
    /\ \A r \in R : answer[r] = "incomplete"
    /\ answer' = [r \in Runs |-> IF r \in R THEN outcome ELSE answer[r]]
    /\ text' = [r \in Runs |-> IF r \in R /\ outcome = "completed" THEN "answer" ELSE text[r]]
    /\ UNCHANGED sources

Settle(R, outcome) == run' = [r \in Runs |-> IF r \in R THEN outcome ELSE run[r]]

----------------------------------------------------------------------------
(* Admission and the user.                                                 *)

SupersedesNone(s) == {}                                  \* mutant
Superseded(s) == RunningIn(s)

(* A newer request of a session stops the older one, in one transaction    *)
(* with its own admission: if there is no slot, nothing has happened.      *)
(* Bound: an attempt id is not used again after its session was purged.    *)
Admit(r, s, c) ==
    /\ run[r] = "none"
    /\ session[s] \in {"absent", "open"}
    /\ \A q \in Superseded(s) : answer[q] = "incomplete"
    /\ Reserve(r, Freed(Superseded(s)), c)
    /\ session' = [session EXCEPT ![s] = "open"]
    /\ run' = [q \in Runs |-> IF q = r THEN "running" ELSE IF q \in Superseded(s) THEN "stopped" ELSE run[q]]
    /\ answer' = [q \in Runs |-> IF q = r THEN "incomplete"
                                 ELSE IF of[q] = s /\ answer[q] = "incomplete" THEN "stopped" ELSE answer[q]]
    /\ text' = [text EXCEPT ![r] = "empty"]
    /\ of' = [of EXCEPT ![r] = s]
    /\ lease' = [lease EXCEPT ![r] = Ttl]
    /\ capacity' = [capacity EXCEPT ![r] = c]
    /\ request' = [request EXCEPT ![r] = "working"]
    /\ UNCHANGED <<sources, asked, preview>>

Cancel(r) ==
    /\ run[r] = "running" /\ session[of[r]] = "open"
    /\ FinishAnswers({r}, "stopped")
    /\ Settle({r}, "stopped")
    /\ Release({r})
    /\ UNCHANGED <<session, of, lease, capacity, request, asked, preview>>

DeleteSession(s) ==
    /\ session[s] = "open"
    /\ FinishAnswers(RunningIn(s), "stopped")
    /\ Settle(RunningIn(s), "stopped")
    /\ Release(RunningIn(s))
    /\ session' = [session EXCEPT ![s] = "deleted"]
    /\ UNCHANGED <<of, lease, capacity, request, asked, preview>>

(* The session and, by cascade, its messages and their runs are removed.   *)
PurgeSession(s) ==
    /\ session[s] = "deleted"
    /\ session' = [session EXCEPT ![s] = "purged"]
    /\ run' = [r \in Runs |-> IF of[r] = s THEN "purged" ELSE run[r]]
    /\ answer' = [r \in Runs |-> IF of[r] = s THEN "purged" ELSE answer[r]]
    /\ text' = [r \in Runs |-> IF of[r] = s THEN "none" ELSE text[r]]
    /\ sources' = [r \in Runs |-> of[r] # s /\ sources[r]]
    /\ UNCHANGED <<of, lease, capacity, slots, request, asked, preview>>

----------------------------------------------------------------------------
(* The request thread and its heartbeat.                                   *)

(* A heartbeat renews run and slot together, or asks the thread to stop.   *)
Beat(r) ==
    /\ request[r] = "working" /\ ~asked[r]
    /\ IF Locked(r)
       THEN /\ lease[r] <= RenewBelow
            /\ lease' = [lease EXCEPT ![r] = Ttl]
            /\ expires' = [expires EXCEPT ![capacity[r]] = Ttl]
            /\ UNCHANGED asked
       ELSE asked' = [asked EXCEPT ![r] = TRUE] /\ UNCHANGED <<lease, expires>>
    /\ UNCHANGED <<session, run, of, capacity, history, holder, request, preview>>

(* The requester disconnects, or the heartbeat cannot reach the database.  *)
Ask(r) ==
    /\ request[r] = "working" /\ ~asked[r]
    /\ asked' = [asked EXCEPT ![r] = TRUE]
    /\ UNCHANGED <<session, run, of, lease, capacity, history, slots, request, preview>>

SaveSources(r) ==
    /\ request[r] = "working"
    /\ Locked(r) /\ answer[r] = "incomplete"
    /\ sources' = [sources EXCEPT ![r] = TRUE]
    /\ UNCHANGED <<session, run, of, lease, capacity, answer, text, slots, request, asked, preview>>

(* finish_chat_run.  The event is read before the transaction, so it may   *)
(* be set and the answer completed.  If the commit is not acknowledged the *)
(* thread takes itself to have failed: the second finish it then tries     *)
(* (chat_runtime.py:159-165) finds the run over and is refused in _locked. *)
Finish(r, outcome) ==
    /\ request[r] = "working"
    /\ Locked(r)
    /\ FinishAnswers({r}, outcome)
    /\ Settle({r}, outcome)
    /\ Release({r})
    /\ request' = [request EXCEPT ![r] = "drafting"]
    /\ UNCHANGED <<session, of, lease, capacity, asked, preview>>

(* Ownership was lost, or the database failed it: the run is not touched.  *)
FinishRefused(r) ==
    /\ request[r] = "working"
    /\ request' = [request EXCEPT ![r] = "drafting"]
    /\ UNCHANGED <<session, run, of, lease, capacity, history, slots, asked, preview>>

(* What was generated before the end is kept, as a draft.                  *)
KeepsAnyDraft(r) == answer[r] # "purged"                 \* mutant
KeepsDraft(r) == /\ run[r] \in {"stopped", "failed"}
                 /\ session[of[r]] = "open"
                 /\ answer[r] \in {"stopped", "failed"}
                 /\ text[r] = "empty"

RetainDraft(r) ==
    /\ request[r] = "drafting"
    /\ KeepsDraft(r)
    /\ text' = [text EXCEPT ![r] = "draft"]
    /\ request' = [request EXCEPT ![r] = "over"]
    /\ UNCHANGED <<session, run, of, lease, capacity, answer, sources, slots, asked, preview>>

(* The thread ends without (another) write, or the process dies.           *)
Vanish(r) ==
    /\ request[r] \in {"working", "drafting"}
    /\ request' = [request EXCEPT ![r] = "over"]
    /\ UNCHANGED <<session, run, of, lease, capacity, history, slots, asked, preview>>

----------------------------------------------------------------------------
(* Previews use the same capacity, and keep no history.                    *)

PreviewHolds(p, c) == holder[c] = p /\ expires[c] > 0

PreviewStart(p, c) ==
    /\ preview[p] = "none"
    /\ Reserve(p, {}, c)
    /\ preview' = [preview EXCEPT ![p] = "working"]
    /\ UNCHANGED <<session, run, of, lease, capacity, history, request, asked>>

PreviewBeat(p, c) ==
    /\ preview[p] = "working" /\ PreviewHolds(p, c)
    /\ expires' = [expires EXCEPT ![c] = Ttl]
    /\ UNCHANGED <<session, run, of, lease, capacity, history, holder, request, asked, preview>>

(* It gives its slot back if that is still its own, or is interrupted.     *)
PreviewEnd(p) ==
    /\ preview[p] = "working"
    /\ preview' = [preview EXCEPT ![p] = "over"]
    /\ \/ \E c \in Slots : /\ PreviewHolds(p, c)
                           /\ holder' = [holder EXCEPT ![c] = Nobody]
                           /\ expires' = [expires EXCEPT ![c] = 0]
       \/ UNCHANGED slots
    /\ UNCHANGED <<session, run, of, lease, capacity, history, request, asked>>

----------------------------------------------------------------------------
(* The rest of the system.                                                 *)

Lapsed == {r \in Runs : run[r] = "running" /\ lease[r] = 0}

(* Runs whose owner is gone become interrupted; the model is not asked     *)
(* again. A run without its message would fail the whole page.             *)
FullPages(R) == R \subseteq Lapsed /\ Cardinality(R) = Page  \* mutant
Reconcilable(R) == R \subseteq Lapsed /\ R # {} /\ Cardinality(R) <= Page

Reconcile(R) ==
    /\ Reconcilable(R)
    /\ \A r \in R : session[of[r]] \in {"open", "deleted"} /\ answer[r] # "purged"
    /\ answer' = [r \in Runs |-> IF r \in R /\ answer[r] = "incomplete" THEN "stopped" ELSE answer[r]]
    /\ Settle(R, "interrupted")
    /\ Release(R)
    /\ UNCHANGED <<session, of, lease, capacity, text, sources, request, asked, preview>>

Minus(t) == IF t > 0 THEN t - 1 ELSE 0

Tick == /\ lease' = [r \in Runs |-> Minus(lease[r])]
        /\ expires' = [c \in Slots |-> Minus(expires[c])]
        /\ UNCHANGED <<session, run, of, capacity, history, holder, request, asked, preview>>

Thread(r) == \/ Beat(r) \/ Ask(r) \/ SaveSources(r) \/ FinishRefused(r) \/ RetainDraft(r) \/ Vanish(r)
             \/ \E o \in Ended : Finish(r, o)

Next == \/ \E r \in Runs, s \in Sessions, c \in Slots : Admit(r, s, c)
        \/ \E r \in Runs : Cancel(r) \/ Thread(r)
        \/ \E s \in Sessions : DeleteSession(s) \/ PurgeSession(s)
        \/ \E p \in Previews : PreviewEnd(p) \/ \E c \in Slots : PreviewStart(p, c) \/ PreviewBeat(p, c)
        \/ \E R \in SUBSET Runs : Reconcile(R)
        \/ Tick

Spec == Init /\ [][Next]_vars

(* The clock runs and the scheduler has lapsed runs reconciled. Nothing is *)
(* asked of the request threads.                                           *)
FairSpec == Spec /\ WF_vars(Tick) /\ WF_vars(\E R \in SUBSET Runs : Reconcile(R))

----------------------------------------------------------------------------
(* Properties.                                                             *)

(* Columns, slots and threads have their types.                            *)
TypeOK == /\ session \in [Sessions -> {"absent", "open", "deleted", "purged"}]
          /\ run \in [Runs -> {"none", "running", "interrupted", "purged"} \cup Ended]
          /\ of \in [Runs -> Sessions \cup {Nobody}]
          /\ lease \in [Runs -> 0 .. Ttl]
          /\ capacity \in [Runs -> Slots]
          /\ answer \in [Runs -> {"none", "incomplete", "purged"} \cup Ended]
          /\ text \in [Runs -> {"none", "empty", "answer", "draft"}]
          /\ sources \in [Runs -> BOOLEAN]
          /\ holder \in [Slots -> Runs \cup Previews \cup {Nobody}]
          /\ expires \in [Slots -> 0 .. Ttl]
          /\ request \in [Runs -> {"none", "working", "drafting", "over"}]
          /\ asked \in [Runs -> BOOLEAN]
          /\ preview \in [Previews -> {"none", "working", "over"}]

(* The run and the message tell the same story, although cancellations,    *)
(* newer requests, deletions and reconciliation each write both: otherwise *)
(* _finish_message raises in all of them, and reconciliation stops at the  *)
(* page that contains the run.                                             *)
StoriesAgree == \A r \in Runs :
    /\ run[r] = "running" => answer[r] = "incomplete" /\ session[of[r]] = "open"
    /\ run[r] \in Ended => answer[r] = run[r]
    /\ run[r] = "interrupted" => answer[r] = "stopped" /\ text[r] = "empty"
    /\ answer[r] = "completed" <=> text[r] = "answer"

(* A session has one request in progress, whichever process admitted it.   *)
OneRunPerSession == \A s \in Sessions, q, r \in Runs :
    q \in RunningIn(s) /\ r \in RunningIn(s) => q = r

(* A run that may still write holds its slot for as long as its lease says *)
(* so: never more than Limit requests are in progress, and a run cannot be *)
(* locked out by its slot alone.                                           *)
LiveRunsHoldSlots == \A r \in Runs :
    run[r] = "running" /\ lease[r] > 0 => HasSlot(r) /\ expires[capacity[r]] = lease[r]

(* A slot is taken from a live holder by nobody else: late releases of     *)
(* runs whose slot was reallocated clear nothing.                          *)
SlotsNotStolen == [][\A r \in Runs :
    run[r] = "running" /\ lease[r] > 0 /\ run'[r] = "running" => holder'[capacity[r]] = r]_vars

(* Never more runs may write at a time than chat_max_inflight allows.      *)
AdmissionsWithinLimit == Cardinality({r \in Runs : run[r] = "running" /\ lease[r] > 0}) <= Limit

(* The "chat" resource is a Semaphore for runs and previews: inside are    *)
(* those whose slot has not expired; one that was superseded makes room in *)
(* the transaction that admits its successor, and nobody who lost a slot   *)
(* holds one again.                                                        *)
Holding == {o \in Runs \cup Previews : \E c \in Slots : holder[c] = o /\ expires[c] > 0}

Started == {r \in Runs : run[r] # "none"} \cup {p \in Previews : preview[p] # "none"}

Shared == INSTANCE Semaphore WITH limit <- Limit, Users <- Runs \cup Previews,
                                  inside <- Holding, seen <- Started

KeepsSemaphore == Shared!SemaphoreSpec

(* What the history says of an attempt is said once. Only a draft may be   *)
(* added to one that was stopped or failed, and nothing at all changes     *)
(* after the session was deleted, except that it is purged.                *)
HistoryIsFinal == [][\A r \in Runs :
    /\ answer[r] \in Ended => answer'[r] \in {answer[r], "purged"}
    /\ answer[r] \in Ended /\ text'[r] # text[r] /\ answer'[r] # "purged" =>
          text[r] = "empty" /\ answer[r] # "completed" /\ session[of[r]] = "open"
    /\ answer[r] \in Ended /\ sources'[r] # sources[r] => answer'[r] = "purged"]_vars

(* A run whose requester is gone is settled, and with it its session can   *)
(* be used and its slot taken again.                                       *)
OrphansSettle == \A r \in Runs :
    run[r] = "running" /\ request[r] = "over" ~>
        run[r] # "running" /\ ~(HasSlot(r) /\ expires[capacity[r]] > 0)
============================================================================
