--------------------------- MODULE ChatRunsProofs ---------------------------
(***************************************************************************)
(* Proofs about ChatRuns, for any number of attempts, sessions, previews   *)
(* and slots and for every lease time.                                     *)
(***************************************************************************)
EXTENDS ChatRuns, FiniteSetTheorems, FunctionTheorems, TLAPS

LEMMA MinusBounds == ASSUME NEW n \in Nat, NEW t \in 0..n
                     PROVE  Minus(t) \in 0..n /\ (Minus(t) > 0 => t > 0)
BY DEF Minus

(* What transactions do to the two columns of a slot.                      *)
LEMMA SlotTypes ==
  ASSUME TypeOK
  PROVE  /\ \A R \in SUBSET Runs : Release(R) =>
                /\ holder' \in [Slots -> Runs \cup Previews \cup {Nobody}]
                /\ expires' \in [Slots -> 0 .. Ttl]
         /\ \A o \in Runs \cup Previews, c \in Slots : \A f : Reserve(o, f, c) =>
                /\ holder' \in [Slots -> Runs \cup Previews \cup {Nobody}]
                /\ expires' \in [Slots -> 0 .. Ttl]
BY ChatAssumption DEF TypeOK, Release, Reserve

LEMMA TypeInit == ASSUME Init PROVE TypeOK
<1>1. sources \in [Runs -> BOOLEAN] /\ asked \in [Runs -> BOOLEAN]
  BY Zenon DEF Init
<1>2. lease \in [Runs -> 0 .. Ttl] /\ expires \in [Slots -> 0 .. Ttl] /\ capacity \in [Runs -> Slots]
  BY ChatAssumption DEF Init, Slots
<1> QED BY <1>1, <1>2 DEF Init, TypeOK

LEMMA TypeStep == ASSUME TypeOK, [Next]_vars PROVE TypeOK'
<1> USE DEF history, slots
<1>1. ASSUME NEW r \in Runs, NEW s \in Sessions, NEW c \in Slots, Admit(r, s, c) PROVE TypeOK'
  <2>1. holder' \in [Slots -> Runs \cup Previews \cup {Nobody}] /\ expires' \in [Slots -> 0 .. Ttl]
    BY <1>1, SlotTypes DEF Admit
  <2>2. sources' \in [Runs -> BOOLEAN] /\ asked' \in [Runs -> BOOLEAN]
    BY <1>1, Zenon DEF Admit, TypeOK
  <2> QED BY <1>1, <2>1, <2>2, ChatAssumption DEF Admit, TypeOK, Ended
<1>2. ASSUME NEW R \in SUBSET Runs, NEW o \in Ended, FinishAnswers(R, o), Settle(R, o), Release(R)
      PROVE  /\ run' \in [Runs -> {"none", "running", "interrupted", "purged"} \cup Ended]
             /\ answer' \in [Runs -> {"none", "incomplete", "purged"} \cup Ended]
             /\ text' \in [Runs -> {"none", "empty", "answer", "draft"}]
             /\ sources' \in [Runs -> BOOLEAN]
             /\ holder' \in [Slots -> Runs \cup Previews \cup {Nobody}]
             /\ expires' \in [Slots -> 0 .. Ttl]
  <2>1. sources' \in [Runs -> BOOLEAN]
    BY <1>2, Zenon DEF FinishAnswers, TypeOK
  <2> QED BY <1>2, <2>1, SlotTypes DEF FinishAnswers, Settle, TypeOK
<1>3. ASSUME NEW r \in Runs, Cancel(r) PROVE TypeOK'
  <2>1. asked' \in [Runs -> BOOLEAN]
    BY <1>3, Zenon DEF Cancel, TypeOK
  <2>2. {r} \in SUBSET Runs /\ "stopped" \in Ended
    BY DEF Ended
  <2> QED BY <1>3, <1>2, <2>1, <2>2 DEF Cancel, TypeOK
<1>4. ASSUME NEW s \in Sessions, DeleteSession(s) PROVE TypeOK'
  <2>1. asked' \in [Runs -> BOOLEAN]
    BY <1>4, Zenon DEF DeleteSession, TypeOK
  <2>2. RunningIn(s) \in SUBSET Runs /\ "stopped" \in Ended
    BY DEF RunningIn, Ended
  <2> QED BY <1>4, <1>2, <2>1, <2>2 DEF DeleteSession, TypeOK
<1>5. ASSUME NEW s \in Sessions, PurgeSession(s) PROVE TypeOK'
  <2>1. asked' \in [Runs -> BOOLEAN] /\ sources' \in [Runs -> BOOLEAN]
    BY <1>5, Zenon DEF PurgeSession, TypeOK
  <2> QED BY <1>5, <2>1 DEF PurgeSession, TypeOK
<1>6. ASSUME NEW r \in Runs, Thread(r) PROVE TypeOK'
  <2>1. asked' \in [Runs -> BOOLEAN] /\ sources' \in [Runs -> BOOLEAN]
    <3>1. CASE \E o \in Ended : Finish(r, o)
      BY <3>1, Zenon DEF Finish, FinishAnswers, TypeOK
    <3>2. CASE Beat(r) \/ Ask(r) \/ SaveSources(r)
      BY <3>2 DEF Beat, Ask, SaveSources, TypeOK
    <3>3. CASE FinishRefused(r) \/ RetainDraft(r) \/ Vanish(r)
      BY <3>3, Zenon DEF FinishRefused, RetainDraft, Vanish, TypeOK
    <3> QED BY <1>6, <3>1, <3>2, <3>3 DEF Thread
  <2>2. ASSUME NEW o \in Ended, Finish(r, o) PROVE TypeOK'
    <3>1. {r} \in SUBSET Runs
      OBVIOUS
    <3> QED BY <2>2, <1>2, <2>1, <3>1 DEF Finish, TypeOK
  <2>3. CASE Beat(r)
    BY <2>3, <2>1, ChatAssumption DEF Beat, TypeOK
  <2>4. CASE Ask(r) \/ SaveSources(r) \/ FinishRefused(r) \/ RetainDraft(r) \/ Vanish(r)
    BY <2>4, <2>1 DEF Ask, SaveSources, FinishRefused, RetainDraft, Vanish, TypeOK
  <2> QED BY <1>6, <2>2, <2>3, <2>4 DEF Thread
<1>7. ASSUME NEW p \in Previews, \/ PreviewEnd(p)
                                 \/ \E c \in Slots : PreviewStart(p, c) \/ PreviewBeat(p, c)
      PROVE  TypeOK'
  <2>1. asked' \in [Runs -> BOOLEAN] /\ sources' \in [Runs -> BOOLEAN]
    BY <1>7, Zenon DEF PreviewEnd, PreviewStart, PreviewBeat, TypeOK
  <2>2. holder' \in [Slots -> Runs \cup Previews \cup {Nobody}] /\ expires' \in [Slots -> 0 .. Ttl]
    <3>1. CASE PreviewEnd(p)
      BY <3>1, ChatAssumption DEF PreviewEnd, TypeOK
    <3>2. ASSUME NEW c \in Slots, PreviewStart(p, c)
          PROVE  /\ holder' \in [Slots -> Runs \cup Previews \cup {Nobody}]
                 /\ expires' \in [Slots -> 0 .. Ttl]
      <4>1. p \in Runs \cup Previews /\ Reserve(p, {}, c)
        BY <3>2 DEF PreviewStart
      <4> QED BY <4>1, SlotTypes
    <3>3. ASSUME NEW c \in Slots, PreviewBeat(p, c)
          PROVE  /\ holder' \in [Slots -> Runs \cup Previews \cup {Nobody}]
                 /\ expires' \in [Slots -> 0 .. Ttl]
      BY <3>3, ChatAssumption DEF PreviewBeat, TypeOK
    <3> QED BY <1>7, <3>1, <3>2, <3>3
  <2> QED BY <1>7, <2>1, <2>2 DEF PreviewEnd, PreviewStart, PreviewBeat, TypeOK
<1>8. ASSUME NEW R \in SUBSET Runs, Reconcile(R) PROVE TypeOK'
  <2>1. asked' \in [Runs -> BOOLEAN] /\ sources' \in [Runs -> BOOLEAN]
    BY <1>8, Zenon DEF Reconcile, TypeOK
  <2> QED BY <1>8, <2>1, SlotTypes DEF Reconcile, Settle, TypeOK, Ended
<1>9. CASE Tick
  <2>1. asked' \in [Runs -> BOOLEAN] /\ sources' \in [Runs -> BOOLEAN]
    BY <1>9, Zenon DEF Tick, TypeOK
  <2> QED BY <1>9, <2>1, MinusBounds, ChatAssumption DEF Tick, TypeOK
<1>10. CASE UNCHANGED vars
  BY <1>10 DEF vars, TypeOK
<1> QED BY <1>1, <1>3, <1>4, <1>5, <1>6, <1>7, <1>8, <1>9, <1>10 DEF Next

(* Columns, slots and threads keep their types.                            *)
THEOREM TypeCorrect == Spec => []TypeOK
BY TypeInit, TypeStep, PTL DEF Spec

----------------------------------------------------------------------------
(* Run, message, session and requests of one attempt, case by case.        *)
Story(r) ==
    /\ run[r] = "running" <=> answer[r] = "incomplete"
    /\ run[r] = "none" <=> answer[r] = "none"
    /\ run[r] = "purged" <=> answer[r] = "purged"
    /\ run[r] \in Ended => answer[r] = run[r]
    /\ run[r] = "interrupted" => answer[r] = "stopped"
    /\ answer[r] \in {"none", "purged"} => text[r] = "none"
    /\ run[r] \in {"running", "interrupted"} => text[r] = "empty"
    /\ answer[r] = "completed" <=> text[r] = "answer"
    /\ run[r] = "running" => of[r] \in Sessions /\ session[of[r]] = "open"
    /\ run[r] = "none" => of[r] = Nobody

Stories == \A r \in Runs : Story(r)

(* What each step does to the story of an attempt: the columns of one      *)
(* attempt change in one of these ways.                                    *)
Kept(r) == run'[r] = run[r] /\ answer'[r] = answer[r] /\ text'[r] = text[r] /\ of'[r] = of[r]
           /\ (run[r] = "running" => session'[of[r]] = session[of[r]])
Begun(r) == /\ run[r] = "none" /\ run'[r] = "running" /\ answer'[r] = "incomplete" /\ text'[r] = "empty"
            /\ of'[r] \in Sessions /\ session'[of'[r]] = "open"
Settled(r) == /\ run[r] = "running" /\ run'[r] \in Ended /\ answer'[r] = run'[r] /\ of'[r] = of[r]
              /\ text'[r] = IF run'[r] = "completed" THEN "answer" ELSE text[r]
Interrupted(r) == /\ run[r] = "running" /\ run'[r] = "interrupted" /\ answer'[r] = "stopped"
                  /\ text'[r] = text[r] /\ of'[r] = of[r]
Purged(r) == /\ run[r] # "none" /\ run'[r] = "purged" /\ answer'[r] = "purged" /\ text'[r] = "none"
             /\ of'[r] = of[r]
Drafted(r) == /\ run[r] \in {"stopped", "failed"} /\ run'[r] = run[r] /\ answer'[r] = answer[r]
              /\ session[of[r]] = "open"
              /\ text[r] = "empty" /\ text'[r] = "draft" /\ of'[r] = of[r]

StoryStep(r) == Kept(r) \/ Begun(r) \/ Settled(r) \/ Interrupted(r) \/ Purged(r) \/ Drafted(r)

LEMMA StepsOnStories == ASSUME TypeOK, Stories, [Next]_vars, NEW k \in Runs PROVE StoryStep(k)
<1> USE DEF history, slots, StoryStep
<1> k \in Runs /\ Story(k)
  BY DEF Stories
<1>1. ASSUME NEW r \in Runs, NEW s \in Sessions, NEW c \in Slots, Admit(r, s, c) PROVE StoryStep(k)
  BY <1>1, ChatAssumption DEF Admit, TypeOK, Story, Ended, Superseded, RunningIn, Kept, Begun, Settled
<1>2. ASSUME NEW R \in SUBSET Runs, NEW o \in Ended, FinishAnswers(R, o), Settle(R, o), UNCHANGED of,
             k \in R
      PROVE  Settled(k)
  BY <1>2 DEF FinishAnswers, Settle, TypeOK, Story, Ended, Settled
<1>3. ASSUME NEW R \in SUBSET Runs, NEW o \in Ended, FinishAnswers(R, o), Settle(R, o), UNCHANGED of,
             k \notin R, run[k] = "running" => session'[of[k]] = session[of[k]]
      PROVE  Kept(k)
  BY <1>3 DEF FinishAnswers, Settle, TypeOK, Kept
<1>4. ASSUME NEW r \in Runs, Cancel(r) PROVE StoryStep(k)
  <2>1. {r} \in SUBSET Runs /\ "stopped" \in Ended
    BY DEF Ended
  <2> QED BY <1>4, <1>2, <1>3, <2>1 DEF Cancel
<1>5. ASSUME NEW s \in Sessions, DeleteSession(s) PROVE StoryStep(k)
  <2>1. RunningIn(s) \in SUBSET Runs /\ "stopped" \in Ended
    BY DEF RunningIn, Ended
  <2>2. k \notin RunningIn(s) /\ run[k] = "running" => session'[of[k]] = session[of[k]]
    BY <1>5 DEF DeleteSession, RunningIn, Story, TypeOK
  <2> QED BY <1>5, <1>2, <1>3, <2>1, <2>2 DEF DeleteSession
<1>6. ASSUME NEW s \in Sessions, PurgeSession(s) PROVE StoryStep(k)
  BY <1>6, ChatAssumption DEF PurgeSession, TypeOK, Story, Purged, Kept
<1>7. ASSUME NEW r \in Runs, Thread(r) PROVE StoryStep(k)
  <2>1. ASSUME NEW o \in Ended, Finish(r, o) PROVE StoryStep(k)
    <3>1. {r} \in SUBSET Runs
      OBVIOUS
    <3> QED BY <2>1, <1>2, <1>3, <3>1 DEF Finish
  <2>2. CASE RetainDraft(r)
    BY <2>2 DEF RetainDraft, KeepsDraft, TypeOK, Drafted, Kept
  <2>3. CASE Beat(r) \/ Ask(r) \/ SaveSources(r) \/ FinishRefused(r) \/ Vanish(r)
    <3>1. UNCHANGED <<run, answer, text, of, session>>
      BY <2>3 DEF Beat, Ask, SaveSources, FinishRefused, Vanish
    <3> QED BY <3>1 DEF Kept
  <2> QED BY <1>7, <2>1, <2>2, <2>3 DEF Thread
<1>8. ASSUME NEW R \in SUBSET Runs, Reconcile(R) PROVE StoryStep(k)
  BY <1>8 DEF Reconcile, Reconcilable, Lapsed, Settle, TypeOK, Story, Interrupted, Kept
<1>9. CASE \/ \E p \in Previews : PreviewEnd(p) \/ \E c \in Slots : PreviewStart(p, c) \/ PreviewBeat(p, c)
           \/ Tick \/ UNCHANGED vars
  <2>1. UNCHANGED <<run, answer, text, of, session>>
    BY <1>9 DEF PreviewEnd, PreviewStart, PreviewBeat, Tick, vars
  <2> QED BY <2>1 DEF Kept
<1> QED BY <1>1, <1>4, <1>5, <1>6, <1>7, <1>8, <1>9 DEF Next

LEMMA StoryKept == ASSUME TypeOK, TypeOK', NEW r \in Runs, Story(r), StoryStep(r) PROVE Story(r)'
BY DEF StoryStep, Story, Kept, Begun, Settled, Interrupted, Purged, Drafted, Ended, TypeOK

LEMMA StoryInvariant == Spec => [](TypeOK /\ Stories)
<1>1. ASSUME Init PROVE Stories
  BY <1>1 DEF Init, Stories, Story, Ended
<1>2. ASSUME TypeOK, Stories, [Next]_vars PROVE Stories'
  BY <1>2, TypeStep, StepsOnStories, StoryKept DEF Stories
<1> QED BY <1>1, <1>2, TypeInit, TypeStep, PTL DEF Spec

(* The run and the message tell the same story.                            *)
THEOREM OneStory == Spec => []StoriesAgree
<1>1. TypeOK /\ Stories => StoriesAgree
  BY DEF Stories, Story, StoriesAgree, Ended
<1> QED BY <1>1, StoryInvariant, PTL

(* Evidence is saved for answers in progress only, and goes with a purge.  *)
LEMMA SourcesKept ==
  ASSUME TypeOK, [Next]_vars, NEW r \in Runs, answer[r] # "incomplete", answer'[r] # "purged"
  PROVE  sources'[r] = sources[r]
<1> USE DEF history, slots
<1>1. ASSUME NEW s \in Sessions, PurgeSession(s) PROVE sources'[r] = sources[r]
  <2>1. sources'[r] = (of[r] # s /\ sources[r])
    BY <1>1 DEF PurgeSession
  <2>2. of[r] # s
    BY <1>1 DEF PurgeSession, TypeOK
  <2>3. sources[r] \in BOOLEAN
    BY Zenon DEF TypeOK
  <2> QED BY <2>1, <2>2, <2>3, Zenon
<1>2. ASSUME NEW q \in Runs, SaveSources(q) PROVE sources'[r] = sources[r]
  <2>1. q # r
    BY <1>2 DEF SaveSources
  <2> QED BY <1>2, <2>1, Zenon DEF SaveSources, TypeOK
<1>3. CASE \E q \in Runs, s \in Sessions, c \in Slots : Admit(q, s, c)
  BY <1>3, Zenon DEF Admit
<1>4. CASE \E q \in Runs : Cancel(q)
  BY <1>4, Zenon DEF Cancel, FinishAnswers
<1>5. CASE \E s \in Sessions : DeleteSession(s)
  BY <1>5, Zenon DEF DeleteSession, FinishAnswers
<1>6. CASE \/ \E p \in Previews : PreviewEnd(p) \/ \E c \in Slots : PreviewStart(p, c) \/ PreviewBeat(p, c)
           \/ \E R \in SUBSET Runs : Reconcile(R)
           \/ Tick \/ UNCHANGED vars
  BY <1>6, Zenon DEF PreviewEnd, PreviewStart, PreviewBeat, Reconcile, Tick, vars
<1>7. ASSUME NEW q \in Runs, Thread(q) PROVE sources'[r] = sources[r]
  <2>1. CASE \E o \in Ended : Finish(q, o)
    BY <2>1, Zenon DEF Finish, FinishAnswers
  <2>2. CASE Beat(q) \/ Ask(q) \/ FinishRefused(q) \/ RetainDraft(q) \/ Vanish(q)
    BY <2>2, Zenon DEF Beat, Ask, FinishRefused, RetainDraft, Vanish
  <2> QED BY <1>7, <1>2, <2>1, <2>2 DEF Thread
<1> QED BY <1>1, <1>3, <1>4, <1>5, <1>6, <1>7 DEF Next

(* What the history says of an attempt is final.                           *)
THEOREM FinalHistory == Spec => HistoryIsFinal
<1>1. ASSUME TypeOK, Stories, [Next]_vars, NEW r \in Runs
      PROVE  /\ answer[r] \in Ended => answer'[r] \in {answer[r], "purged"}
             /\ answer[r] \in Ended /\ text'[r] # text[r] /\ answer'[r] # "purged" =>
                   text[r] = "empty" /\ answer[r] # "completed" /\ session[of[r]] = "open"
  BY <1>1, StepsOnStories DEF Stories, Story, StoryStep, Kept, Begun, Settled, Interrupted, Purged, Drafted, Ended
<1>2. ASSUME TypeOK, Stories, [Next]_vars, NEW r \in Runs, answer[r] \in Ended, sources'[r] # sources[r]
      PROVE  answer'[r] = "purged"
  BY <1>2, SourcesKept DEF Ended
<1>3. TypeOK /\ Stories /\ [Next]_vars => [\A r \in Runs :
      /\ answer[r] \in Ended => answer'[r] \in {answer[r], "purged"}
      /\ answer[r] \in Ended /\ text'[r] # text[r] /\ answer'[r] # "purged" =>
            text[r] = "empty" /\ answer[r] # "completed" /\ session[of[r]] = "open"
      /\ answer[r] \in Ended /\ sources'[r] # sources[r] => answer'[r] = "purged"]_vars
  BY <1>1, <1>2
<1> QED BY <1>3, StoryInvariant, PTL DEF Spec, HistoryIsFinal

----------------------------------------------------------------------------
LEMMA OnlyAdmissionsBegin ==
  ASSUME TypeOK, [Next]_vars, ~ \E q \in Runs, s \in Sessions, c \in Slots : Admit(q, s, c),
         NEW k \in Runs, run'[k] = "running"
  PROVE  run[k] = "running"
<1> USE DEF history, slots
<1>1. ASSUME NEW R \in SUBSET Runs, NEW o, o # "running", Settle(R, o) PROVE run[k] = "running"
  BY <1>1 DEF Settle, TypeOK
<1>2. ASSUME NEW r \in Runs, Cancel(r) PROVE run[k] = "running"
  BY <1>2, <1>1, {r} \in SUBSET Runs DEF Cancel
<1>3. ASSUME NEW s \in Sessions, DeleteSession(s) PROVE run[k] = "running"
  BY <1>3, <1>1, RunningIn(s) \in SUBSET Runs DEF DeleteSession, RunningIn
<1>4. ASSUME NEW s \in Sessions, PurgeSession(s) PROVE run[k] = "running"
  BY <1>4 DEF PurgeSession, TypeOK
<1>5. ASSUME NEW r \in Runs, NEW o \in Ended, Finish(r, o) PROVE run[k] = "running"
  BY <1>5, <1>1, {r} \in SUBSET Runs DEF Finish, Ended
<1>6. ASSUME NEW R \in SUBSET Runs, Reconcile(R) PROVE run[k] = "running"
  BY <1>6, <1>1 DEF Reconcile
<1>7. ASSUME NEW r \in Runs, Beat(r) \/ Ask(r) \/ SaveSources(r) \/ FinishRefused(r) \/ RetainDraft(r) \/ Vanish(r)
      PROVE  run' = run
  BY <1>7 DEF Beat, Ask, SaveSources, FinishRefused, RetainDraft, Vanish
<1>8. ASSUME \/ \E p \in Previews : PreviewEnd(p) \/ \E c \in Slots : PreviewStart(p, c) \/ PreviewBeat(p, c)
             \/ Tick \/ UNCHANGED vars
      PROVE  run' = run
  BY <1>8 DEF PreviewEnd, PreviewStart, PreviewBeat, Tick, vars
<1> QED BY <1>2, <1>3, <1>4, <1>5, <1>6, <1>7, <1>8 DEF Next, Thread

(* A session has one request in progress.                                  *)
THEOREM SingleRun == Spec => []OneRunPerSession
<1>1. ASSUME Init PROVE OneRunPerSession
  BY <1>1 DEF Init, OneRunPerSession, RunningIn
<1>2. ASSUME TypeOK, Stories, OneRunPerSession, [Next]_vars PROVE OneRunPerSession'
  <2>1. ASSUME NEW r \in Runs, NEW s \in Sessions, NEW c \in Slots, Admit(r, s, c) PROVE OneRunPerSession'
    BY <2>1, <1>2 DEF Admit, OneRunPerSession, RunningIn, Superseded, TypeOK
  <2>2. ASSUME \A r \in Runs : run'[r] = "running" => run[r] = "running" /\ of'[r] = of[r]
        PROVE  OneRunPerSession'
    BY <2>2, <1>2 DEF OneRunPerSession, RunningIn
  <2>3. ASSUME NEW r \in Runs, ~ \E q \in Runs, s \in Sessions, c \in Slots : Admit(q, s, c)
        PROVE  ~Begun(r)
    BY <2>3, <1>2, OnlyAdmissionsBegin DEF Begun
  <2> QED BY <2>1, <2>2, <2>3, <1>2, StepsOnStories
          DEF StoryStep, Kept, Settled, Interrupted, Purged, Drafted, Ended
<1> QED BY <1>1, <1>2, StoryInvariant, PTL DEF Spec

----------------------------------------------------------------------------
(* Slots. A live run has a slot, and neither a release of other runs' slots *)
(* nor a reservation takes it away.                                        *)
Served(r) == run[r] = "running" /\ lease[r] > 0 => HasSlot(r) /\ expires[capacity[r]] = lease[r]

LEMMA ReleaseSpares ==
  ASSUME TypeOK, NEW R \in SUBSET Runs, NEW r \in Runs \ R, HasSlot(r), Release(R)
  PROVE  holder'[capacity[r]] = r /\ expires'[capacity[r]] = expires[capacity[r]]
<1>1. capacity[r] \in Slots /\ capacity[r] \notin Freed(R)
  BY DEF TypeOK, Freed, HasSlot
<1> QED BY <1>1 DEF Release, HasSlot

LEMMA ReserveSpares ==
  ASSUME TypeOK, NEW R \in SUBSET Runs, NEW r \in Runs \ R, HasSlot(r), expires[capacity[r]] > 0,
         NEW o, NEW c \in Slots, Reserve(o, Freed(R), c)
  PROVE  holder'[capacity[r]] = r /\ expires'[capacity[r]] = expires[capacity[r]]
<1>1. capacity[r] \in Slots /\ capacity[r] \notin Freed(R)
  BY DEF TypeOK, Freed, HasSlot
<1>2. capacity[r] # c
  BY <1>1, ChatAssumption DEF Reserve, Unoccupied, HasSlot
<1> QED BY <1>1, <1>2 DEF Reserve, HasSlot

LEMMA ServedStep ==
  ASSUME TypeOK, \A r \in Runs : Served(r), [Next]_vars, NEW k \in Runs
  PROVE  /\ Served(k)'
         /\ run[k] = "running" /\ lease[k] > 0 /\ run'[k] = "running" => holder'[capacity[k]] = k
<1> DEFINE Goal == /\ Served(k)'
                   /\ run[k] = "running" /\ lease[k] > 0 /\ run'[k] = "running" => holder'[capacity[k]] = k
<1> SUFFICES Goal
  OBVIOUS
<1> USE DEF history, slots
<1> Served(k) /\ lease[k] \in Nat /\ capacity[k] \in Slots
  BY ChatAssumption DEF TypeOK
<1>1. ASSUME NEW r \in Runs, NEW s \in Sessions, NEW c \in Slots, Admit(r, s, c) PROVE Goal
  <2>1. CASE k = r
    <3>1. run[k] # "running" /\ capacity'[k] = c /\ holder'[c] = k /\ expires'[c] = Ttl /\ lease'[k] = Ttl
      BY <1>1, <2>1 DEF Admit, Reserve, TypeOK
    <3> QED BY <3>1 DEF Served, HasSlot
  <2>2. CASE k # r
    <3>1. capacity'[k] = capacity[k] /\ lease'[k] = lease[k]
      BY <1>1, <2>2 DEF Admit, TypeOK
    <3>2. run'[k] = "running" => run[k] = "running" /\ k \notin Superseded(s)
      BY <1>1, <2>2 DEF Admit, TypeOK
    <3>3. Superseded(s) \in SUBSET Runs
      BY DEF Superseded, RunningIn
    <3>4. run'[k] = "running" /\ lease[k] > 0 =>
             holder'[capacity[k]] = k /\ expires'[capacity[k]] = expires[capacity[k]]
      BY <1>1, <3>2, <3>3, ReserveSpares DEF Admit, Served
    <3> QED BY <3>1, <3>2, <3>4 DEF Served, HasSlot
  <2> QED BY <2>1, <2>2
<1>2. ASSUME NEW R \in SUBSET Runs, NEW o, o # "running", Settle(R, o), Release(R), UNCHANGED <<lease, capacity>> PROVE Goal
  <2>1. run'[k] = "running" => run[k] = "running" /\ k \notin R
    BY <1>2 DEF Settle, TypeOK
  <2>2. run'[k] = "running" /\ lease[k] > 0 =>
           holder'[capacity[k]] = k /\ expires'[capacity[k]] = expires[capacity[k]]
    BY <1>2, <2>1, ReleaseSpares DEF Served
  <2> QED BY <1>2, <2>1, <2>2 DEF Served, HasSlot
<1>3. ASSUME NEW r \in Runs, Cancel(r) PROVE Goal
  BY <1>3, <1>2, {r} \in SUBSET Runs DEF Cancel
<1>4. ASSUME NEW s \in Sessions, DeleteSession(s) PROVE Goal
  BY <1>4, <1>2, RunningIn(s) \in SUBSET Runs DEF DeleteSession, RunningIn
<1>5. ASSUME NEW s \in Sessions, PurgeSession(s) PROVE Goal
  <2>1. run'[k] = "running" => run[k] = "running"
    BY <1>5 DEF PurgeSession, TypeOK
  <2> QED BY <1>5, <2>1 DEF PurgeSession, Served, HasSlot
<1>6. ASSUME NEW r \in Runs, Thread(r) PROVE Goal
  <2>1. ASSUME NEW o \in Ended, Finish(r, o) PROVE Goal
    BY <2>1, <1>2, {r} \in SUBSET Runs DEF Finish, Ended
  <2>2. CASE Beat(r)
    <3>1. holder' = holder /\ run' = run /\ capacity' = capacity
      BY <2>2 DEF Beat
    <3>2. CASE k = r
      BY <2>2, <3>1, <3>2 DEF Beat, Locked, Served, HasSlot, TypeOK
    <3>3. CASE k # r
      BY <2>2, <3>1, <3>3 DEF Beat, Locked, Served, HasSlot, TypeOK
    <3> QED BY <3>2, <3>3
  <2>3. CASE Ask(r) \/ SaveSources(r) \/ FinishRefused(r) \/ RetainDraft(r) \/ Vanish(r)
    <3>1. UNCHANGED <<run, lease, capacity, holder, expires>>
      BY <2>3 DEF Ask, SaveSources, FinishRefused, RetainDraft, Vanish
    <3> QED BY <3>1 DEF Served, HasSlot
  <2> QED BY <1>6, <2>1, <2>2, <2>3 DEF Thread
<1>7. ASSUME NEW p \in Previews, NEW c \in Slots, PreviewStart(p, c) PROVE Goal
  <2>1. {} \in SUBSET Runs /\ Reserve(p, Freed({}), c)
    <3>1. Freed({}) = {}
      BY DEF Freed
    <3> QED BY <1>7, <3>1 DEF PreviewStart
  <2>2. UNCHANGED <<run, lease, capacity>>
    BY <1>7 DEF PreviewStart
  <2>3. run[k] = "running" /\ lease[k] > 0 =>
           holder'[capacity[k]] = k /\ expires'[capacity[k]] = expires[capacity[k]]
    BY <2>1, ReserveSpares DEF Served
  <2> QED BY <2>2, <2>3 DEF Served, HasSlot
<1>8. ASSUME NEW p \in Previews, PreviewEnd(p) \/ \E c \in Slots : PreviewBeat(p, c) PROVE Goal
  <2>1. UNCHANGED <<run, lease, capacity>>
    BY <1>8 DEF PreviewEnd, PreviewBeat
  <2>2. HasSlot(k) => holder'[capacity[k]] = k /\ expires'[capacity[k]] = expires[capacity[k]]
    BY <1>8, ChatAssumption DEF PreviewEnd, PreviewBeat, PreviewHolds, HasSlot, TypeOK
  <2> QED BY <2>1, <2>2 DEF Served, HasSlot
<1>9. ASSUME NEW R \in SUBSET Runs, Reconcile(R) PROVE Goal
  BY <1>9, <1>2 DEF Reconcile
<1>10. CASE Tick
  <2>1. UNCHANGED <<run, capacity, holder>>
    BY <1>10 DEF Tick
  <2>2. lease'[k] = Minus(lease[k]) /\ expires'[capacity[k]] = Minus(expires[capacity[k]])
    BY <1>10 DEF Tick
  <2>3. lease'[k] > 0 => lease[k] > 0
    BY <2>2 DEF Minus
  <2> QED BY <2>1, <2>2, <2>3 DEF Served, HasSlot
<1>11. CASE UNCHANGED vars
  BY <1>11 DEF vars, Served, HasSlot
<1> QED BY <1>1, <1>3, <1>4, <1>5, <1>6, <1>7, <1>8, <1>9, <1>10, <1>11 DEF Next

LEMMA ServedInvariant == Spec => [](TypeOK /\ \A r \in Runs : Served(r))
<1>1. ASSUME Init PROVE \A r \in Runs : Served(r)
  BY <1>1 DEF Init, Served
<1>2. ASSUME TypeOK, \A r \in Runs : Served(r), [Next]_vars PROVE (\A r \in Runs : Served(r))'
  BY <1>2, ServedStep
<1> QED BY <1>1, <1>2, TypeInit, TypeStep, PTL DEF Spec

(* A run that may still write holds its slot as long as its lease says so. *)
THEOREM RunsAreServed == Spec => []LiveRunsHoldSlots
<1>1. (\A r \in Runs : Served(r)) => LiveRunsHoldSlots
  BY DEF Served, LiveRunsHoldSlots
<1> QED BY <1>1, ServedInvariant, PTL

(* No transaction of another takes the slot of a live run.                 *)
THEOREM SlotsAreKept == Spec => SlotsNotStolen
<1>1. TypeOK /\ (\A r \in Runs : Served(r)) /\ [Next]_vars => [\A r \in Runs :
        run[r] = "running" /\ lease[r] > 0 /\ run'[r] = "running" => holder'[capacity[r]] = r]_vars
  BY ServedStep
<1> QED BY <1>1, ServedInvariant, PTL DEF Spec, SlotsNotStolen
----------------------------------------------------------------------------
(* The capacity as a Semaphore: holders have different slots.              *)
LEMMA HoldingBounded ==
  ASSUME TypeOK
  PROVE  IsFiniteSet(Holding) /\ Cardinality(Holding) \in Nat /\ Cardinality(Holding) <= Limit
<1> DEFINE slotOf == [o \in Holding |-> CHOOSE c \in Slots : holder[c] = o]
<1>1. \A o \in Holding : slotOf[o] \in Slots /\ holder[slotOf[o]] = o
  BY DEF Holding
<1>2. slotOf \in [Holding -> Slots]
  BY <1>1
<1>3. \A o, q \in Holding : slotOf[o] = slotOf[q] => o = q
  BY <1>1
<1> HIDE DEF slotOf
<1>4. slotOf \in Injection(Holding, Slots)
  BY <1>2, <1>3, Fun_IsInj
<1>5. IsFiniteSet(Slots) /\ Cardinality(Slots) = Limit
  BY ChatAssumption, FS_Interval DEF Slots
<1>6. IsFiniteSet(Holding) /\ Cardinality(Holding) <= Cardinality(Slots)
  BY <1>4, <1>5, FS_Injection
<1> QED BY <1>5, <1>6, FS_CardinalityType

(* Never more runs may write at a time than there are slots: each of them  *)
(* holds one.                                                              *)
THEOREM AdmissionsBounded == Spec => []AdmissionsWithinLimit
<1>1. ASSUME TypeOK, \A r \in Runs : Served(r) PROVE AdmissionsWithinLimit
  <2> DEFINE Live == {r \in Runs : run[r] = "running" /\ lease[r] > 0}
  <2>1. Live \subseteq Holding
    <3> SUFFICES ASSUME NEW r \in Live PROVE r \in Holding
      OBVIOUS
    <3>1. capacity[r] \in Slots /\ holder[capacity[r]] = r /\ expires[capacity[r]] > 0
      BY <1>1 DEF Served, HasSlot, TypeOK
    <3> QED BY <3>1 DEF Holding
  <2>2. Cardinality(Live) <= Cardinality(Holding) /\ Cardinality(Live) \in Nat
    BY <1>1, <2>1, HoldingBounded, FS_Subset, FS_CardinalityType
  <2>3. Cardinality(Live) <= Limit
    BY <1>1, <2>2, HoldingBounded, ChatAssumption
  <2> QED BY <2>3 DEF AdmissionsWithinLimit
<1> QED BY <1>1, ServedInvariant, PTL

(* What a reservation does to the holders, and what a release does.        *)
LEMMA EntersAlone ==
  ASSUME TypeOK, NEW u \in Runs \cup Previews, NEW R \in SUBSET Runs, NEW c \in Slots,
         Reserve(u, Freed(R), c)
  PROVE  Holding' \subseteq Holding \cup {u}
<1> SUFFICES ASSUME NEW o \in Holding', o # u PROVE o \in Holding
  OBVIOUS
<1>1. PICK d \in Slots : holder'[d] = o /\ expires'[d] > 0
  BY DEF Holding
<1>2. o \in Runs \cup Previews /\ o # Nobody
  BY ChatAssumption DEF Holding
<1>3. holder[d] = o /\ expires[d] > 0
  BY <1>1, <1>2 DEF Reserve
<1> QED BY <1>2, <1>3 DEF Holding

LEMMA ReleaseEmpties ==
  ASSUME TypeOK, NEW R, Release(R) PROVE Holding' \subseteq Holding
<1> SUFFICES ASSUME NEW o \in Holding' PROVE o \in Holding
  OBVIOUS
<1>1. PICK d \in Slots : holder'[d] = o /\ expires'[d] > 0
  BY DEF Holding
<1>2. o \in Runs \cup Previews /\ o # Nobody
  BY ChatAssumption DEF Holding
<1>3. holder[d] = o /\ expires[d] > 0
  BY <1>1, <1>2 DEF Release
<1> QED BY <1>2, <1>3 DEF Holding

(* The two ways in.                                                        *)
LEMMA AdmitEnters ==
  ASSUME TypeOK, TypeOK', NEW r \in Runs, NEW s \in Sessions, NEW c \in Slots, Admit(r, s, c)
  PROVE  Shared!Enter(r)
<1>1. Holding' \subseteq Holding \cup {r}
  BY EntersAlone, Superseded(s) \in SUBSET Runs DEF Admit, Superseded, RunningIn
<1>2. run' = [q \in Runs |-> IF q = r THEN "running" ELSE IF q \in Superseded(s) THEN "stopped" ELSE run[q]]
      /\ run[r] = "none" /\ preview' = preview
  BY DEF Admit
<1>3. r \notin Started
  BY <1>2, ChatAssumption DEF Started
<1>4. \A q \in Superseded(s) : run[q] # "none"
  BY DEF Superseded, RunningIn
<1>5. Started' = Started \cup {r}
  BY <1>2, <1>4 DEF Started
<1>6. Shared!Cardinality(Holding') <= Limit
  <2>1. (Cardinality(Holding) <= Limit)'
    BY HoldingBounded, PTL
  <2> QED BY <2>1 DEF Shared!Cardinality, Cardinality
<1> QED BY <1>1, <1>3, <1>5, <1>6 DEF Shared!Enter

LEMMA PreviewEnters ==
  ASSUME TypeOK, TypeOK', NEW p \in Previews, NEW c \in Slots, PreviewStart(p, c)
  PROVE  Shared!Enter(p)
<1>1. Holding' \subseteq Holding \cup {p}
  <2>1. Freed({}) = {} /\ {} \in SUBSET Runs
    BY DEF Freed
  <2> QED BY <2>1, EntersAlone DEF PreviewStart
<1>2. preview[p] = "none" /\ preview' = [preview EXCEPT ![p] = "working"] /\ run' = run
  BY DEF PreviewStart
<1>3. p \notin Started
  BY <1>2, ChatAssumption DEF Started
<1>4. Started' = Started \cup {p}
  BY <1>2 DEF Started, TypeOK
<1>5. Shared!Cardinality(Holding') <= Limit
  <2>1. (Cardinality(Holding) <= Limit)'
    BY HoldingBounded, PTL
  <2> QED BY <2>1 DEF Shared!Cardinality, Cardinality
<1> QED BY <1>1, <1>3, <1>4, <1>5 DEF Shared!Enter

(* Every other step lets holders go, or leaves them alone.                 *)
LEMMA OthersLeave ==
  ASSUME TypeOK, Stories, [Next]_vars,
         ~ \E r \in Runs, s \in Sessions, c \in Slots : Admit(r, s, c),
         ~ \E p \in Previews, c \in Slots : PreviewStart(p, c)
  PROVE  Shared!Leave
<1> USE DEF history, slots
<1>1. \A r \in Runs : run'[r] = "none" <=> run[r] = "none"
  <2> SUFFICES ASSUME NEW r \in Runs PROVE run'[r] = "none" <=> run[r] = "none"
    OBVIOUS
  <2>1. StoryStep(r) /\ ~Begun(r)
    BY StepsOnStories, OnlyAdmissionsBegin DEF Begun
  <2> QED BY <2>1 DEF StoryStep, Kept, Settled, Interrupted, Purged, Drafted, Ended
<1>2. \A p \in Previews : preview'[p] = "none" <=> preview[p] = "none"
  <2>1. ASSUME NEW p \in Previews, PreviewEnd(p) PROVE preview' = [preview EXCEPT ![p] = "over"] /\ preview[p] = "working"
    BY <2>1 DEF PreviewEnd
  <2>2. ASSUME ~ \E p \in Previews : PreviewEnd(p) PROVE preview' = preview
    BY <2>2 DEF Next, Cancel, Thread, Beat, Ask, SaveSources, FinishRefused, RetainDraft, Vanish, Finish,
                DeleteSession, PurgeSession, PreviewBeat, Reconcile, Tick, vars
  <2> QED BY <2>1, <2>2 DEF TypeOK
<1>3. Started' = Started
  BY <1>1, <1>2 DEF Started
<1> SUFFICES Holding' \subseteq Holding
  BY <1>3 DEF Shared!Leave
<1>4. ASSUME NEW r \in Runs, Thread(r) PROVE Holding' \subseteq Holding
  <2>1. ASSUME NEW o \in Ended, Finish(r, o) PROVE Holding' \subseteq Holding
    BY <2>1, ReleaseEmpties DEF Finish
  <2>2. CASE Beat(r)
    <3>1. holder' = holder /\ capacity[r] \in Slots
      BY <2>2 DEF Beat, TypeOK
    <3>2. \/ expires' = expires
          \/ expires[capacity[r]] > 0 /\ expires' = [expires EXCEPT ![capacity[r]] = Ttl]
      BY <2>2 DEF Beat, Locked
    <3>3. \A d \in Slots : expires'[d] > 0 => expires[d] > 0
      BY <3>1, <3>2 DEF TypeOK
    <3> QED BY <3>1, <3>3 DEF Holding
  <2>3. CASE Ask(r) \/ SaveSources(r) \/ FinishRefused(r) \/ RetainDraft(r) \/ Vanish(r)
    <3>1. UNCHANGED slots
      BY <2>3 DEF Ask, SaveSources, FinishRefused, RetainDraft, Vanish
    <3> QED BY <3>1 DEF Holding
  <2> QED BY <1>4, <2>1, <2>2, <2>3 DEF Thread
<1>5. ASSUME NEW R, Release(R) PROVE Holding' \subseteq Holding
  BY <1>5, ReleaseEmpties
<1>6. ASSUME NEW p \in Previews, PreviewEnd(p) PROVE Holding' \subseteq Holding
  <2>1. CASE UNCHANGED slots
    BY <2>1 DEF Holding
  <2>2. ASSUME NEW c \in Slots, holder' = [holder EXCEPT ![c] = Nobody], expires' = [expires EXCEPT ![c] = 0]
        PROVE  Holding' \subseteq Holding
    <3>1. \A d \in Slots : expires'[d] > 0 => holder'[d] = holder[d] /\ expires'[d] = expires[d]
      BY <2>2 DEF TypeOK
    <3> QED BY <3>1 DEF Holding
  <2> QED BY <1>6, <2>1, <2>2 DEF PreviewEnd
<1>7. ASSUME NEW p \in Previews, NEW c \in Slots, PreviewBeat(p, c) PROVE Holding' \subseteq Holding
  <2>1. \A d \in Slots : holder'[d] = holder[d] /\ (expires'[d] > 0 => expires[d] > 0)
    BY <1>7 DEF PreviewBeat, PreviewHolds, TypeOK
  <2> QED BY <2>1 DEF Holding
<1>8. CASE Tick
  <2>1. \A d \in Slots : holder'[d] = holder[d] /\ (expires'[d] > 0 => expires[d] > 0)
    BY <1>8, ChatAssumption, MinusBounds DEF Tick, TypeOK
  <2> QED BY <2>1 DEF Holding
<1>9. CASE UNCHANGED vars
  BY <1>9 DEF vars, Holding
<1>10. ASSUME NEW s \in Sessions, PurgeSession(s) PROVE Holding' \subseteq Holding
  BY <1>10 DEF PurgeSession, Holding
<1> QED BY <1>4, <1>5, <1>6, <1>7, <1>8, <1>9, <1>10 DEF Next, Cancel, DeleteSession, Reconcile

(* Chats share their capacity as users of a semaphore do, although slots   *)
(* expire, are given back late, and pass from a run to its successor.      *)
THEOREM ImplementsSemaphore == Spec => KeepsSemaphore
<1>1. Init => Shared!SemaphoreInit
  BY ChatAssumption DEF Init, Shared!SemaphoreInit, Holding, Started
<1>2. TypeOK /\ TypeOK' /\ Stories /\ [Next]_vars
        => [Shared!SemaphoreNext]_<<Limit, Holding, Started>>
  <2> SUFFICES ASSUME TypeOK, TypeOK', Stories, [Next]_vars PROVE Shared!SemaphoreNext
    OBVIOUS
  <2>1. ASSUME NEW u \in Runs \cup Previews, Shared!Enter(u) PROVE Shared!SemaphoreNext
    BY <2>1 DEF Shared!SemaphoreNext
  <2>2. CASE Shared!Leave
    BY <2>2 DEF Shared!SemaphoreNext
  <2> QED BY <2>1, <2>2, AdmitEnters, PreviewEnters, OthersLeave
<1> QED BY <1>1, <1>2, StoryInvariant, PTL DEF Spec, KeepsSemaphore, Shared!SemaphoreSpec
============================================================================
