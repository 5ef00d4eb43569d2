------------------------- MODULE AuditOutboxProofs -------------------------
(***************************************************************************)
(* Proofs about AuditOutbox. That a second line has an explanation rests   *)
(* on what was known of the row when it was read: see Traced.              *)
(***************************************************************************)
EXTENDS AuditOutbox, SequenceTheorems, TLAPS

(* The one who wrote the row is about to mark it, or has failed to.        *)
Marking(r)   == \E p \in Procs : at[p] = "marking" /\ Row(p) = r
Explained(r) == r \in unmarked \/ \E p \in Procs : at[p] = "marking" /\ Row(p) = r /\ ~Owns(p)

(* A row is marked with its line out. One that is still pending although it*)
(* has a line is being marked or has an explanation, and one that a leader *)
(* is about to write has an explanation if it has a line.                  *)
Written == \A p \in Procs : at[p] = "marking" => lines[Row(p)] > 0
Known   == /\ \A p \in Procs : at[p] \in {"counting", "writing", "marking"} =>
                                   status[Row(p)] # "none"
           /\ \A r \in Rows : lines[r] > 0 => status[r] # "none"
Open    == \A r \in Rows : status[r] = "pending" /\ lines[r] > 0 =>
                              Explained(r) \/ Marking(r)
Led     == \A p \in Procs :
              at[p] \in {"counting", "writing"} /\ Owns(p) /\ lines[Row(p)] > 0 => Explained(Row(p))
Twice   == \A r \in Rows : lines[r] > 1 => Explained(r)
Traced  == Written /\ Known /\ Open /\ Led /\ Twice

----------------------------------------------------------------------------
(* Removing an element leaves a sequence of the same kind.                 *)
LEMMA WithoutTyped ==
    ASSUME NEW S, NEW s \in Seq(S), NEW x
    PROVE  Without(s, x) \in Seq(S)
<1>1. CASE \E i \in DOMAIN s : s[i] = x
  <2>1. PICK i : i = CHOOSE k \in DOMAIN s : s[k] = x
    OBVIOUS
  <2>2. i \in DOMAIN s
    BY <1>1, <2>1
  <2>3. i \in 1 .. Len(s) /\ Len(s) \in Nat
    BY <2>2, LenProperties
  <2>4. SubSeq(s, 1, i - 1) \in Seq(S)
    BY <2>3, SubSeqProperties
  <2>5. SubSeq(s, i + 1, Len(s)) \in Seq(S)
    BY <2>3, SubSeqProperties
  <2>6. SubSeq(s, 1, i - 1) \o SubSeq(s, i + 1, Len(s)) \in Seq(S)
    BY <2>4, <2>5, ConcatProperties
  <2> QED BY <1>1, <2>1, <2>6 DEF Without
<1>2. CASE ~ \E i \in DOMAIN s : s[i] = x
  BY <1>2 DEF Without
<1> QED BY <1>1, <1>2

(* What a tick lists is a sequence of rows.                                *)
LEMMA ListTyped ==
    ASSUME NEW S, NEW s \in Seq(S)
    PROVE  SubSeq(s, 1, IF Len(s) < Page THEN Len(s) ELSE Page) \in Seq(S)
<1>1. Page \in Nat /\ Page > 0 /\ Len(s) \in Nat
  BY AuditOutboxAssumption, LenProperties
<1> QED BY <1>1, SubSeqProperties

(* The current row of a dispatcher that has one is a row.                  *)
LEMMA RowTyped ==
    ASSUME TypeOK, NEW p \in Procs, todo[p] # << >>
    PROVE  Row(p) \in Rows /\ Tail(todo[p]) \in Seq(Rows)
<1>1. todo[p] \in Seq(Rows)
  BY DEF TypeOK
<1> QED BY <1>1, HeadTailProperties DEF Row

(* Next1 and Leaves keep the types of a dispatcher's own state.            *)
LEMMA Next1Typed ==
    ASSUME TypeOK, NEW p \in Procs, todo[p] # << >>, Next1(p)
    PROVE  /\ at' \in [Procs -> {"idle", "rows", "counting", "writing", "marking"}]
           /\ todo' \in [Procs -> Seq(Rows)]
           /\ \A q \in Procs : at'[q] \in {"counting", "writing", "marking"} => todo'[q] # << >>
BY RowTyped DEF TypeOK, Next1

LEMMA LeavesTyped ==
    ASSUME TypeOK, NEW p \in Procs, Leaves(p)
    PROVE  /\ at' \in [Procs -> {"idle", "rows", "counting", "writing", "marking"}]
           /\ todo' \in [Procs -> Seq(Rows)]
           /\ \A q \in Procs : at'[q] \in {"counting", "writing", "marking"} => todo'[q] # << >>
           /\ lock' \in Procs \cup {Nobody, Ghost}
           /\ conn' \subseteq Procs
<1>1. << >> \in Seq(Rows)
  BY EmptySeq
<1> QED BY <1>1 DEF TypeOK, Leaves

LEMMA PutOffTyped ==
    ASSUME TypeOK, NEW r \in Rows, PutOff(r)
    PROVE  due' \in Seq(Rows) /\ later' \subseteq Rows
BY WithoutTyped DEF TypeOK, PutOff

----------------------------------------------------------------------------
(* Type correctness.                                                       *)
LEMMA TypeStep == TypeOK /\ [Next]_vars => TypeOK'
<1> SUFFICES ASSUME TypeOK, [Next]_vars PROVE TypeOK'
  OBVIOUS
<1> USE AuditOutboxAssumption
<1>1. ASSUME NEW r \in Rows, Record(r) PROVE TypeOK'
  BY <1>1, AppendProperties DEF TypeOK, Record, output, threads
<1>2. ASSUME NEW r \in Rows, BecomesDue(r) PROVE TypeOK'
  BY <1>2, AppendProperties DEF TypeOK, BecomesDue, output, threads
<1>3. CASE HoldPending
  BY <1>3, EmptySeq DEF TypeOK, HoldPending, output, threads
<1>4. CASE SessionEnds
  BY <1>4 DEF TypeOK, SessionEnds, outbox, output, threads
<1>5. ASSUME NEW p \in Procs, Acquire(p) PROVE TypeOK'
  BY <1>5 DEF TypeOK, Acquire, outbox, output, threads
<1>6. ASSUME NEW p \in Procs, AcquireFails(p) PROVE TypeOK'
  BY <1>6 DEF TypeOK, AcquireFails, outbox, output, threads
<1>7. ASSUME NEW p \in Procs, List(p) PROVE TypeOK'
  BY <1>7, ListTyped DEF TypeOK, List, outbox, output
<1>8. ASSUME NEW p \in Procs, EndTick(p) PROVE TypeOK'
  BY <1>8 DEF TypeOK, EndTick, outbox, output
<1>9. ASSUME NEW p \in Procs, Read(p) PROVE TypeOK'
  <2>1. Row(p) \in Rows
    BY <1>9, RowTyped DEF Read
  <2>2. CASE Next1(p) /\ UNCHANGED outbox
    BY <1>9, <2>2, Next1Typed DEF TypeOK, Read, outbox, output
  <2>3. CASE /\ status' = [status EXCEPT ![Row(p)] = "held"]
             /\ due' = Without(due, Row(p))
             /\ later' = later \ {Row(p)}
             /\ Next1(p)
    BY <1>9, <2>1, <2>3, Next1Typed, WithoutTyped DEF TypeOK, Read, output
  <2>4. CASE /\ at' = [at EXCEPT ![p] = "counting"]
             /\ UNCHANGED <<outbox, todo>>
    BY <1>9, <2>4 DEF TypeOK, Read, outbox, output
  <2> QED BY <1>9, <2>2, <2>3, <2>4 DEF Read
<1>10. ASSUME NEW p \in Procs, Count(p) PROVE TypeOK'
  BY <1>10 DEF TypeOK, Count, outbox, output
<1>11. ASSUME NEW p \in Procs, Write(p) PROVE TypeOK'
  <2>1. lines' \in [Rows -> 0 .. 2]
    <3>1. \A r \in Rows : (IF lines[r] < 2 THEN lines[r] + 1 ELSE lines[r]) \in 0 .. 2
      BY DEF TypeOK
    <3>2. lines' = [lines EXCEPT ![Row(p)] = IF lines[Row(p)] < 2 THEN lines[Row(p)] + 1
                                                                  ELSE lines[Row(p)]]
      BY <1>11 DEF Write
    <3>3. CASE Row(p) \in Rows
      BY <3>1, <3>2, <3>3 DEF TypeOK
    <3>4. CASE Row(p) \notin Rows
      BY <3>2, <3>4 DEF TypeOK
    <3> QED BY <3>3, <3>4
  <2>2. /\ at' \in [Procs -> {"idle", "rows", "counting", "writing", "marking"}]
        /\ \A q \in Procs : at'[q] \in {"counting", "writing", "marking"} => todo'[q] # << >>
    BY <1>11 DEF TypeOK, Write
  <2> QED BY <1>11, <2>1, <2>2 DEF TypeOK, Write, outbox
<1>12. ASSUME NEW p \in Procs, WriteFails(p) PROVE TypeOK'
  <2>1. Row(p) \in Rows /\ todo[p] # << >>
    BY <1>12, RowTyped DEF WriteFails, TypeOK
  <2>2. CASE Owns(p)
    BY <1>12, <2>1, <2>2, Next1Typed, PutOffTyped DEF TypeOK, WriteFails, output
  <2>3. CASE ~Owns(p)
    BY <1>12, <2>3, LeavesTyped DEF TypeOK, WriteFails, output
  <2> QED BY <2>2, <2>3
<1>13. ASSUME NEW p \in Procs, Mark(p) PROVE TypeOK'
  <2>1. Row(p) \in Rows /\ todo[p] # << >>
    BY <1>13, RowTyped DEF Mark, TypeOK
  <2>2. CASE Marks(Row(p))
    <3>1. status' \in [Rows -> {"none", "pending", "held", "written"}]
      BY <1>13, <2>1, <2>2 DEF TypeOK, Mark
    <3>2. due' \in Seq(Rows) /\ later' \subseteq Rows
      BY <1>13, <2>1, <2>2, WithoutTyped DEF TypeOK, Mark
    <3> QED BY <1>13, <2>1, <3>1, <3>2, Next1Typed DEF TypeOK, Mark, output
  <2>3. CASE ~Marks(Row(p))
    BY <1>13, <2>1, <2>3, Next1Typed DEF TypeOK, Mark, outbox, output
  <2> QED BY <2>2, <2>3
<1>14. ASSUME NEW p \in Procs, MarkFails(p) PROVE TypeOK'
  <2>1. Row(p) \in Rows /\ todo[p] # << >>
    BY <1>14, RowTyped DEF MarkFails, TypeOK
  <2> QED BY <1>14, <2>1, Next1Typed, PutOffTyped DEF TypeOK, MarkFails
<1>15. ASSUME NEW p \in Procs, Breaks(p) PROVE TypeOK'
  <2>1. at[p] = "marking" => Row(p) \in Rows
    BY RowTyped DEF TypeOK
  <2> QED BY <1>15, <2>1, LeavesTyped DEF TypeOK, Breaks, outbox
<1>16. CASE UNCHANGED vars
  BY <1>16 DEF TypeOK, vars, outbox, output, threads
<1> QED
  BY <1>1, <1>2, <1>3, <1>4, <1>5, <1>6, <1>7, <1>8, <1>9, <1>10, <1>11, <1>12, <1>13,
     <1>14, <1>15, <1>16 DEF Next, Works, Fails, Refused, FindsOut

LEMMA TypeInit == Init => TypeOK
BY EmptySeq DEF Init, TypeOK

(* The outbox, the output, the lock and the dispatchers keep their types.  *)
THEOREM TypeCorrect == Spec => []TypeOK
BY TypeInit, TypeStep, PTL DEF Spec

----------------------------------------------------------------------------
(* A dispatcher that takes an answer for lost leaves its explanation, and  *)
(* nobody leads again in the middle of a row.                              *)
LEMMA StaysExplained ==
    ASSUME TypeOK, [Next]_vars, NEW r \in Rows, Explained(r)
    PROVE  Explained(r)'
<1> USE AuditOutboxAssumption DEF Explained, Owns, Row
<1>1. CASE r \in unmarked
  <2>1. unmarked \subseteq unmarked'
    BY DEF Next, Works, Fails, Refused, FindsOut, vars, outbox, output, threads, Record,
           BecomesDue, HoldPending, SessionEnds, Acquire, AcquireFails, List, EndTick, Read,
           Count, Write, WriteFails, Mark, MarkFails, Breaks
  <2> QED BY <1>1, <2>1
<1>2. CASE \E q \in Procs : at[q] = "marking" /\ Row(q) = r /\ ~Owns(q)
  <2>1. PICK q \in Procs : at[q] = "marking" /\ Row(q) = r /\ ~Owns(q)
    BY <1>2
  <2> SUFFICES (at'[q] = at[q] /\ todo'[q] = todo[q] /\ ~Owns(q)') \/ r \in unmarked'
    BY <2>1
  <2> USE <2>1 DEF TypeOK
  <2>2. ASSUME NEW e \in Rows, Record(e) \/ BecomesDue(e)
        PROVE  at'[q] = at[q] /\ todo'[q] = todo[q] /\ ~Owns(q)'
    BY <2>2 DEF Record, BecomesDue, threads
  <2>3. CASE HoldPending \/ SessionEnds
    BY <2>3 DEF HoldPending, SessionEnds, threads
  <2>4. ASSUME NEW p \in Procs, Acquire(p) \/ AcquireFails(p)
        PROVE  at'[q] = at[q] /\ todo'[q] = todo[q] /\ ~Owns(q)'
    BY <2>4 DEF Acquire, AcquireFails, threads
  <2>5. ASSUME NEW p \in Procs, List(p) \/ EndTick(p) \/ Count(p) \/ Write(p)
        PROVE  at'[q] = at[q] /\ todo'[q] = todo[q] /\ ~Owns(q)'
    BY <2>5 DEF List, EndTick, Count, Write
  <2>6. ASSUME NEW p \in Procs, Read(p)
        PROVE  at'[q] = at[q] /\ todo'[q] = todo[q] /\ ~Owns(q)'
    BY <2>6 DEF Read, Next1
  <2>7. ASSUME NEW p \in Procs, WriteFails(p)
        PROVE  at'[q] = at[q] /\ todo'[q] = todo[q] /\ ~Owns(q)'
    BY <2>7 DEF WriteFails, Next1, Leaves
  <2>8. ASSUME NEW p \in Procs, Mark(p) \/ MarkFails(p)
        PROVE  at'[q] = at[q] /\ todo'[q] = todo[q] /\ ~Owns(q)'
    BY <2>8 DEF Mark, MarkFails, Next1
  <2>9. ASSUME NEW p \in Procs, Breaks(p)
        PROVE  (at'[q] = at[q] /\ todo'[q] = todo[q] /\ ~Owns(q)') \/ r \in unmarked'
    BY <2>9 DEF Breaks, Leaves
  <2>10. CASE UNCHANGED vars
    BY <2>10 DEF vars, threads
  <2> QED
    BY <2>2, <2>3, <2>4, <2>5, <2>6, <2>7, <2>8, <2>9, <2>10
       DEF Next, Works, Fails, Refused, FindsOut
<1> QED BY <1>1, <1>2

(* What one step does to the state of a row and to the count of its lines. *)
LEMMA RowStep ==
    ASSUME TypeOK, Traced, [Next]_vars, NEW r \in Rows
    PROVE  /\ status'[r] # status[r] =>
                 \/ status[r] = "none" /\ status'[r] = "pending"
                 \/ status[r] = "pending" /\ status'[r] = "held"
                 \/ status[r] = "pending" /\ status'[r] = "written" /\ lines[r] > 0
           /\ lines'[r] # lines[r] =>
                 \E p \in Procs : Write(p) /\ Row(p) = r /\ lines[r] < 2 /\ lines'[r] = lines[r] + 1
<1> USE DEF TypeOK
<1>1. ASSUME NEW e \in Rows, Record(e) PROVE lines' = lines /\
             (status'[r] # status[r] => status[r] = "none" /\ status'[r] = "pending")
  BY <1>1 DEF Record, output
<1>2. ASSUME NEW e \in Rows, BecomesDue(e) PROVE lines' = lines /\ status' = status
  BY <1>2 DEF BecomesDue, output
<1>3. CASE HoldPending
  BY <1>3 DEF HoldPending, output
<1>4. CASE SessionEnds
  BY <1>4 DEF SessionEnds, outbox, output
<1>5. ASSUME NEW p \in Procs, Acquire(p) \/ AcquireFails(p) \/ List(p) \/ EndTick(p) \/ Count(p)
                              \/ WriteFails(p) \/ MarkFails(p) \/ Breaks(p)
      PROVE lines' = lines /\ status' = status
  BY <1>5 DEF Acquire, AcquireFails, List, EndTick, Count, WriteFails, MarkFails, Breaks, outbox, output
<1>6. ASSUME NEW p \in Procs, Read(p) PROVE lines' = lines /\
             (status'[r] # status[r] => status[r] = "pending" /\ status'[r] = "held")
  BY <1>6, RowTyped DEF Read, outbox, output
<1>7. ASSUME NEW p \in Procs, Write(p) PROVE status' = status /\
             (lines'[r] # lines[r] => Row(p) = r /\ lines[r] < 2 /\ lines'[r] = lines[r] + 1)
  BY <1>7 DEF Write, outbox
<1>8. ASSUME NEW p \in Procs, Mark(p) PROVE lines' = lines /\
             (status'[r] # status[r] => status[r] = "pending" /\ status'[r] = "written" /\ lines[r] > 0)
  <2>1. lines[Row(p)] > 0
    BY <1>8 DEF Mark, Traced, Written
  <2> QED BY <1>8, <2>1, RowTyped DEF Mark, Marks, outbox, output
<1>9. CASE UNCHANGED vars
  BY <1>9 DEF vars, outbox, output
<1> QED
  BY <1>1, <1>2, <1>3, <1>4, <1>5, <1>6, <1>7, <1>8, <1>9 DEF Next, Works, Fails, Refused, FindsOut

(* A dispatcher gets to a later part of a row only from the one before.    *)
LEMMA ThreadStep ==
    ASSUME TypeOK, [Next]_vars, NEW p \in Procs,
           at'[p] \in {"counting", "writing", "marking"}
    PROVE  /\ Row(p)' = Row(p) /\ todo[p] # << >>
           /\ Owns(p)' => Owns(p)
           /\ \/ at'[p] = at[p]
              \/ at'[p] = "counting" /\ Read(p) /\ status[Row(p)] = "pending" /\ lines' = lines
              \/ at'[p] = "writing" /\ at[p] = "counting"
              \/ at'[p] = "marking" /\ Write(p)
<1> USE AuditOutboxAssumption DEF TypeOK, Row, Owns
<1>1. ASSUME NEW e \in Rows, Record(e) \/ BecomesDue(e)
      PROVE  at' = at /\ todo' = todo /\ lock' = lock /\ conn' = conn
  BY <1>1 DEF Record, BecomesDue, threads
<1>2. ASSUME HoldPending \/ SessionEnds
      PROVE  at' = at /\ todo' = todo /\ (Owns(p)' => Owns(p))
  BY <1>2 DEF HoldPending, SessionEnds, threads
<1>3. ASSUME NEW q \in Procs, Acquire(q) \/ AcquireFails(q)
      PROVE  at' = at /\ todo' = todo /\ at[q] = "idle" /\ (Owns(p)' => Owns(p) \/ q = p)
  BY <1>3 DEF Acquire, AcquireFails, threads
<1>4. ASSUME NEW q \in Procs, List(q) \/ EndTick(q)
      PROVE  p # q /\ at'[p] = at[p] /\ todo'[p] = todo[p] /\ lock' = lock /\ conn' = conn
  BY <1>4 DEF List, EndTick
<1>5. ASSUME NEW q \in Procs, Read(q)
      PROVE  /\ todo'[p] = todo[p] /\ lock' = lock /\ conn' = conn
             /\ \/ at'[p] = at[p]
                \/ q = p /\ at'[p] = "counting" /\ status[Row(p)] = "pending" /\ lines' = lines
  BY <1>5 DEF Read, Next1, output
<1>6. ASSUME NEW q \in Procs, Count(q)
      PROVE  /\ todo' = todo /\ lock' = lock /\ conn' = conn
             /\ at'[p] = at[p] \/ (at'[p] = "writing" /\ at[p] = "counting")
  BY <1>6 DEF Count
<1>7. ASSUME NEW q \in Procs, Write(q)
      PROVE  /\ todo' = todo /\ lock' = lock /\ conn' = conn
             /\ at'[p] = at[p] \/ (q = p /\ at'[p] = "marking")
  BY <1>7 DEF Write
<1>8. ASSUME NEW q \in Procs, WriteFails(q) \/ Breaks(q)
      PROVE  p # q /\ at'[p] = at[p] /\ todo'[p] = todo[p] /\ (Owns(p)' => Owns(p))
  BY <1>8 DEF WriteFails, Breaks, Next1, Leaves
<1>9. ASSUME NEW q \in Procs, Mark(q) \/ MarkFails(q)
      PROVE  p # q /\ at'[p] = at[p] /\ todo'[p] = todo[p] /\ lock' = lock /\ conn' = conn
  BY <1>9 DEF Mark, MarkFails, Next1
<1>10. ASSUME UNCHANGED vars
       PROVE  at' = at /\ todo' = todo /\ lock' = lock /\ conn' = conn
  BY <1>10 DEF vars, threads
<1>11. /\ todo'[p] = todo[p]
       /\ Owns(p)' => Owns(p)
       /\ \/ at'[p] = at[p]
          \/ at'[p] = "counting" /\ Read(p) /\ status[Row(p)] = "pending" /\ lines' = lines
          \/ at'[p] = "writing" /\ at[p] = "counting"
          \/ at'[p] = "marking" /\ Write(p)
  <2>1. ASSUME NEW q \in Procs, Acquire(q) \/ AcquireFails(q)
        PROVE  Owns(p)' => Owns(p)
    BY <1>3, <2>1
  <2> HIDE DEF TypeOK, Row, Owns
  <2>2. UNCHANGED <<lock, conn>> => (Owns(p)' => Owns(p))
    BY DEF Owns
  <2>3. Owns(p)' => Owns(p)
    BY <1>1, <1>2, <1>4, <1>5, <1>6, <1>7, <1>8, <1>9, <1>10, <2>1, <2>2
       DEF Next, Works, Fails, Refused, FindsOut
  <2>4. todo'[p] = todo[p]
    BY <1>1, <1>2, <1>3, <1>4, <1>5, <1>6, <1>7, <1>8, <1>9, <1>10
       DEF Next, Works, Fails, Refused, FindsOut
  <2>5. \/ at'[p] = at[p]
        \/ at'[p] = "counting" /\ Read(p) /\ status[Row(p)] = "pending" /\ lines' = lines
        \/ at'[p] = "writing" /\ at[p] = "counting"
        \/ at'[p] = "marking" /\ Write(p)
    BY <1>1, <1>2, <1>3, <1>4, <1>5, <1>6, <1>7, <1>8, <1>9, <1>10
       DEF Next, Works, Fails, Refused, FindsOut
  <2> QED BY <2>3, <2>4, <2>5
<1>12. todo[p] # << >>
  BY <1>11 DEF Read, Write
<1> QED BY <1>11, <1>12

----------------------------------------------------------------------------
(* The tracing of lines is inductive.                                      *)
LEMMA TracedStep == TypeOK /\ Traced /\ [Next]_vars => Traced'
<1> SUFFICES ASSUME TypeOK, Traced, [Next]_vars PROVE Traced'
  OBVIOUS
<1> USE DEF Traced
<1>1. \A r \in Rows : status[r] # "none" => status'[r] # "none"
  BY RowStep
<1>2. \A r \in Rows : lines[r] \in 0 .. 2 /\ lines'[r] \in 0 .. 2
  BY TypeStep DEF TypeOK
<1>3. \A r \in Rows : lines[r] > 0 => lines'[r] > 0
  <2> TAKE r \in Rows
  <2>1. lines'[r] # lines[r] => lines'[r] = lines[r] + 1
    BY RowStep
  <2> QED BY <1>2, <2>1
<1>4. Written'
  <2> SUFFICES ASSUME NEW p \in Procs, at'[p] = "marking" PROVE (lines[Row(p)] > 0)'
    BY DEF Written
  <2>1. Row(p)' = Row(p) /\ Row(p) \in Rows
    BY ThreadStep, RowTyped
  <2>2. at[p] = "marking" \/ Write(p)
    BY ThreadStep
  <2>3. CASE at[p] = "marking"
    BY <1>3, <2>1, <2>3 DEF Written
  <2>4. CASE Write(p)
    <3>1. lines' = [lines EXCEPT ![Row(p)] = IF lines[Row(p)] < 2 THEN lines[Row(p)] + 1
                                                                  ELSE lines[Row(p)]]
      BY <2>4 DEF Write
    <3>2. lines'[Row(p)] = IF lines[Row(p)] < 2 THEN lines[Row(p)] + 1 ELSE lines[Row(p)]
      BY <2>1, <3>1 DEF TypeOK
    <3> QED BY <1>2, <2>1, <3>2
  <2> QED BY <2>2, <2>3, <2>4
<1>5. Known'
  <2>1. ASSUME NEW p \in Procs, at'[p] \in {"counting", "writing", "marking"}
        PROVE  (status[Row(p)] # "none")'
    <3>1. Row(p)' = Row(p) /\ Row(p) \in Rows
      BY <2>1, ThreadStep, RowTyped
    <3>2. status[Row(p)] # "none"
      BY <2>1, ThreadStep DEF Known, Write
    <3> QED BY <1>1, <3>1, <3>2
  <2>2. ASSUME NEW r \in Rows, lines'[r] > 0 PROVE status'[r] # "none"
    <3>1. CASE lines[r] > 0
      BY <1>1, <3>1 DEF Known
    <3>2. CASE lines'[r] # lines[r]
      BY <1>1, <3>2, RowStep DEF Known, Write
    <3> QED BY <2>2, <3>1, <3>2
  <2> QED BY <2>1, <2>2 DEF Known
<1>6. Open'
  <2> SUFFICES ASSUME NEW r \in Rows, status'[r] = "pending", lines'[r] > 0
               PROVE  Explained(r)' \/ Marking(r)'
    BY DEF Open
  <2>1. CASE lines'[r] # lines[r]
    <3>1. PICK p \in Procs : Write(p) /\ Row(p) = r
      BY <2>1, RowStep
    <3> QED BY <3>1 DEF Write, Marking, Row, TypeOK
  <2>2. CASE lines'[r] = lines[r] /\ Explained(r)
    BY <2>2, StaysExplained
  <2>3. CASE lines'[r] = lines[r] /\ ~Explained(r)
    <3>1. status[r] = "pending"
      BY <2>3, RowStep DEF Known
    <3>2. PICK p \in Procs : at[p] = "marking" /\ Row(p) = r
      BY <2>3, <3>1 DEF Open, Marking
    <3>3. CASE at'[p] = "marking"
      BY <3>2, <3>3, ThreadStep DEF Marking
    <3>4. CASE at'[p] # "marking" /\ Mark(p)
      BY <3>1, <3>2, <3>4 DEF Mark, Marks, TypeOK
    <3>5. CASE at'[p] # "marking" /\ (MarkFails(p) \/ Breaks(p))
      BY <3>2, <3>5 DEF MarkFails, Breaks, Explained
    <3>6. at'[p] # "marking" => Mark(p) \/ MarkFails(p) \/ Breaks(p)
      BY <3>2 DEF Next, Works, Fails, Refused, FindsOut, vars, threads, TypeOK, Record, BecomesDue,
                  HoldPending, SessionEnds, Acquire, AcquireFails, List, EndTick, Read, Count, Write,
                  WriteFails, Mark, MarkFails, Breaks, Next1, Leaves
    <3> QED BY <3>3, <3>4, <3>5, <3>6
  <2> QED BY <2>1, <2>2, <2>3
<1>7. Led'
  <2> SUFFICES ASSUME NEW p \in Procs, at'[p] \in {"counting", "writing"}, Owns(p)',
                      (lines[Row(p)] > 0)'
               PROVE  Explained(Row(p))'
    BY DEF Led, Owns, Explained
  <2>1. PICK r \in Rows : r = Row(p) /\ r = Row(p)'
    BY ThreadStep, RowTyped
  <2>2. Owns(p) /\ lines'[r] > 0
    BY <2>1, ThreadStep
  <2> SUFFICES Explained(r)'
    BY <2>1 DEF Explained
  <2>3. CASE lines'[r] # lines[r]
    <3>1. PICK q \in Procs : Write(q) /\ Row(q) = r
      BY <2>3, RowStep
    <3>2. q # p
      BY <3>1 DEF Write, TypeOK
    <3>3. at'[q] = "marking" /\ Row(q)' = r /\ ~Owns(q)'
      BY <2>2, <3>1, <3>2 DEF Write, TypeOK, Owns, Row
    <3> QED BY <3>3 DEF Explained
  <2>4. CASE lines'[r] = lines[r]
    <3>1. lines[r] > 0
      BY <2>2, <2>4
    <3>2. CASE at[p] \in {"counting", "writing"}
      BY <2>1, <2>2, <3>1, <3>2, StaysExplained DEF Led
    <3>3. CASE Read(p) /\ status[r] = "pending"
      <4>1. Explained(r) \/ Marking(r)
        BY <3>1, <3>3 DEF Open
      <4>2. Explained(r)
        BY <2>2, <3>3, <4>1 DEF Marking, Explained, Owns, Read
      <4> QED BY <4>2, StaysExplained
    <3> QED BY <2>1, <3>2, <3>3, ThreadStep
  <2> QED BY <2>3, <2>4
<1>8. Twice'
  <2> SUFFICES ASSUME NEW r \in Rows, lines'[r] > 1 PROVE Explained(r)'
    BY DEF Twice
  <2>1. CASE lines'[r] = lines[r]
    BY <2>1, StaysExplained DEF Twice
  <2>2. CASE lines'[r] # lines[r]
    <3>1. PICK p \in Procs : Write(p) /\ Row(p) = r /\ lines'[r] = lines[r] + 1
      BY <2>2, RowStep
    <3>2. lines[r] > 0
      BY <1>2, <3>1
    <3>3. CASE Owns(p)
      BY <3>1, <3>2, <3>3, StaysExplained DEF Led, Write
    <3>4. CASE ~Owns(p)
      BY <3>1, <3>4 DEF Write, Explained, Owns, Row, TypeOK
    <3> QED BY <3>3, <3>4
  <2> QED BY <2>1, <2>2
<1> QED BY <1>4, <1>5, <1>6, <1>7, <1>8

LEMMA TracedInit == Init => Traced
<1> SUFFICES ASSUME Init PROVE Traced
  OBVIOUS
<1>1. \A r \in Rows : lines[r] = 0
  BY DEF Init
<1>2. Written /\ Led /\ \A p \in Procs : at[p] = "idle"
  BY DEF Init, Written, Led
<1> QED BY <1>1, <1>2 DEF Traced, Known, Open, Twice

LEMMA Invariance == Spec => [](TypeOK /\ Traced)
<1>1. Init => TypeOK /\ Traced
  BY TypeInit, TracedInit
<1>2. TypeOK /\ Traced /\ [Next]_vars => (TypeOK /\ Traced)'
  BY TypeStep, TracedStep
<1> QED BY <1>1, <1>2, PTL DEF Spec

(* Whatever is written twice was written by a dispatcher whose marker did  *)
(* not get through: at-least-once delivery has no other duplicates, for    *)
(* any number of replicas and events.                                      *)
THEOREM DuplicatesHaveCause == Spec => []DuplicatesExplained
<1>1. TypeOK /\ Traced => DuplicatesExplained
  BY DEF Traced, Twice, Explained, DuplicatesExplained
<1> QED BY <1>1, Invariance, PTL

(* An event settles once, and as written only after its line.              *)
THEOREM EventsSettleOnce == Spec => SettlesOnce
<1>1. (TypeOK /\ Traced) /\ [Next]_vars =>
        [\A r \in Rows : status'[r] # status[r] =>
             /\ status[r] \in {"none", "pending"}
             /\ status'[r] = "written" => lines[r] > 0]_vars
  BY RowStep
<1> QED BY <1>1, Invariance, PTL DEF Spec, SettlesOnce
=============================================================================
