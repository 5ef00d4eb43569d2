---------------------------- MODULE AuditOutbox ----------------------------
(***************************************************************************)
(* Delivery of audit events to stdout (services/audit_outbox.py) by the    *)
(* dispatcher of whichever replica holds a session-level advisory lock     *)
(* (services/audit_leadership.py).                                         *)
(*                                                                         *)
(* Every transaction of a dispatcher runs on the very connection that owns *)
(* the lock, so it is one action while the lock is held, and an error once *)
(* it is not. Only the write to stdout lies outside: a dispatcher whose    *)
(* connection is gone finds out at its next transaction.                   *)
(*                                                                         *)
(* The rows that are due are kept in the order in which a tick reads them, *)
(* by next_attempt_at; a row that failed is put off and is later due       *)
(* behind those that were recorded meanwhile.                              *)
(***************************************************************************)
EXTENDS Integers, Sequences

CONSTANTS
    Rows,        \* recorded events
    Procs,       \* replicas with a dispatcher
    Invalid,     \* rows whose payload does not validate
    Unwritable,  \* rows that the sink refuses whenever they are written
    Page,        \* the most rows one tick reads
    Nobody,
    Ghost        \* holds the lock for a connection its client has dropped

ASSUME AuditOutboxAssumption ==
    /\ Invalid \subseteq Rows /\ Unwritable \subseteq Rows
    /\ Page \in Nat \ {0}
    /\ Nobody \notin Procs /\ Ghost \notin Procs /\ Nobody # Ghost

VARIABLES
    status,    \* of each row; "none" before its transaction commits
    due,       \* pending rows a tick would read, in order
    later,     \* pending rows whose next attempt lies ahead
    lines,     \* complete lines written for the row: 0, 1 or 2 for more
    unmarked,  \* rows with a line whose marker was not committed
    lock,      \* the owner of the advisory lock
    conn,      \* dispatchers that believe they own it
    at,        \* what the dispatcher's thread does
    todo       \* the rows of its tick, the current one first

outbox  == <<status, due, later>>
output  == <<lines, unmarked>>
threads == <<at, todo>>
vars    == <<outbox, output, lock, conn, threads>>

Init == /\ status = [r \in Rows |-> "none"]
        /\ due = << >> /\ later = {}
        /\ lines = [r \in Rows |-> 0] /\ unmarked = {}
        /\ lock = Nobody /\ conn = {}
        /\ at = [p \in Procs |-> "idle"]
        /\ todo = [p \in Procs |-> << >>]

----------------------------------------------------------------------------
(* The rest of the system.                                                 *)

(* A business transaction that records an event commits.                   *)
Record(r) ==
    /\ status[r] = "none"
    /\ status' = [status EXCEPT ![r] = "pending"]
    /\ due' = Append(due, r)
    /\ UNCHANGED <<later, output, lock, conn, threads>>

BecomesDue(r) ==
    /\ r \in later
    /\ later' = later \ {r}
    /\ due' = Append(due, r)
    /\ UNCHANGED <<status, output, lock, conn, threads>>

(* hold_pending: the operator withholds what a restored backup has.        *)
HoldPending ==
    /\ status' = [r \in Rows |-> IF status[r] = "pending" THEN "held" ELSE status[r]]
    /\ due' = << >> /\ later' = {}
    /\ UNCHANGED <<output, lock, conn, threads>>

(* The server ends the session of the leader, which is not told.           *)
SessionEnds ==
    /\ lock # Nobody
    /\ lock' = Nobody
    /\ UNCHANGED <<outbox, output, conn, threads>>

----------------------------------------------------------------------------
(* A dispatcher.                                                           *)

(* What a transaction on the dispatcher's connection needs: _assert_owned. *)
OwnsUnasserted(p) == p \in conn                          \* mutant
Owns(p) == p \in conn /\ lock = p

Row(p) == Head(todo[p])

Without(s, r) ==
    IF \E i \in DOMAIN s : s[i] = r
    THEN LET i == CHOOSE i \in DOMAIN s : s[i] = r
         IN SubSeq(s, 1, i - 1) \o SubSeq(s, i + 1, Len(s))
    ELSE s

Next1(p) == /\ at' = [at EXCEPT ![p] = "rows"]
            /\ todo' = [todo EXCEPT ![p] = Tail(@)]

(* close: the connection is discarded; the server frees the lock in time.  *)
Leaves(p) ==
    /\ conn' = conn \ {p}
    /\ lock' \in IF lock = p THEN {Nobody, Ghost} ELSE {lock}
    /\ at' = [at EXCEPT ![p] = "idle"]
    /\ todo' = [todo EXCEPT ![p] = << >>]

(* acquire, and the case that its answer is lost.                          *)
Acquire(p) ==
    /\ at[p] = "idle" /\ p \notin conn /\ lock = Nobody
    /\ conn' = conn \cup {p}
    /\ lock' = p
    /\ UNCHANGED <<outbox, output, threads>>

AcquireFails(p) ==
    /\ at[p] = "idle" /\ p \notin conn /\ lock = Nobody
    /\ lock' = Ghost
    /\ UNCHANGED <<outbox, output, conn, threads>>

List(p) ==
    /\ at[p] = "idle" /\ Owns(p)
    /\ due # << >>
    /\ at' = [at EXCEPT ![p] = "rows"]
    /\ todo' = [todo EXCEPT ![p] = SubSeq(due, 1, IF Len(due) < Page THEN Len(due) ELSE Page)]
    /\ UNCHANGED <<outbox, output, lock, conn>>

EndTick(p) ==
    /\ at[p] = "rows" /\ todo[p] = << >>
    /\ at' = [at EXCEPT ![p] = "idle"]
    /\ UNCHANGED <<outbox, output, lock, conn, todo>>

(* The row is read. One that is no longer pending is skipped and one that  *)
(* is not valid is withheld; for any other the transaction goes on.        *)
Read(p) ==
    /\ at[p] = "rows" /\ todo[p] # << >> /\ Owns(p)
    /\ \/ /\ status[Row(p)] # "pending"
          /\ Next1(p) /\ UNCHANGED outbox
       \/ /\ status[Row(p)] = "pending" /\ Row(p) \in Invalid
          /\ status' = [status EXCEPT ![Row(p)] = "held"]
          /\ due' = Without(due, Row(p))
          /\ later' = later \ {Row(p)}
          /\ Next1(p)
       \/ /\ status[Row(p)] = "pending" /\ Row(p) \notin Invalid
          /\ at' = [at EXCEPT ![p] = "counting"]
          /\ UNCHANGED <<outbox, todo>>
    /\ UNCHANGED <<output, lock, conn>>

(* The attempt is counted and committed; what may have happened to the row *)
(* since it was read is not looked at again.                               *)
Count(p) ==
    /\ at[p] = "counting" /\ Owns(p)
    /\ at' = [at EXCEPT ![p] = "writing"]
    /\ UNCHANGED <<outbox, output, lock, conn, todo>>

(* write_line: not a transaction, and nobody asks who leads.               *)
Write(p) ==
    /\ at[p] = "writing" /\ Row(p) \notin Unwritable
    /\ lines' = [lines EXCEPT ![Row(p)] = IF @ < 2 THEN @ + 1 ELSE @]
    /\ at' = [at EXCEPT ![p] = "marking"]
    /\ UNCHANGED <<outbox, unmarked, lock, conn, todo>>

(* _failure: the row, if still pending, is put off.                        *)
PutOffInPlace(r) == UNCHANGED <<due, later>>             \* mutant
PutOff(r) ==
    IF status[r] = "pending"
    THEN /\ due' = Without(due, r)
         /\ later' = later \cup {r}
    ELSE UNCHANGED <<due, later>>

WriteFails(p) ==
    /\ at[p] = "writing"
    /\ IF Owns(p)
       THEN PutOff(Row(p)) /\ Next1(p) /\ UNCHANGED <<lock, conn>>
       ELSE Leaves(p) /\ UNCHANGED <<due, later>>
    /\ UNCHANGED <<status, output>>

(* _mark_written, which a row that was withheld meanwhile ignores.         *)
MarksAny(r) == status[r] # "none"                        \* mutant
Marks(r) == status[r] = "pending"

Mark(p) ==
    /\ at[p] = "marking" /\ Owns(p)
    /\ IF Marks(Row(p))
       THEN /\ status' = [status EXCEPT ![Row(p)] = "written"]
            /\ due' = Without(due, Row(p))
            /\ later' = later \ {Row(p)}
       ELSE UNCHANGED outbox
    /\ Next1(p)
    /\ UNCHANGED <<output, lock, conn>>

MarkFails(p) ==
    /\ at[p] = "marking" /\ Owns(p)
    /\ PutOff(Row(p)) /\ Next1(p)
    /\ unmarked' = unmarked \cup {Row(p)}
    /\ UNCHANGED <<status, lines, lock, conn>>

(* A tick ends with an error: its connection was found to be gone, or any  *)
(* statement failed. The thread may also end, or the process. (A commit    *)
(* whose answer is lost is the commit, and then this.)                     *)
Breaks(p) ==
    /\ p \in conn
    /\ Leaves(p)
    /\ unmarked' = IF at[p] = "marking" THEN unmarked \cup {Row(p)} ELSE unmarked
    /\ UNCHANGED <<outbox, lines>>

----------------------------------------------------------------------------
Refused(p)  == at[p] = "writing" /\ Row(p) \in Unwritable /\ WriteFails(p)
FindsOut(p) == ~Owns(p) /\ at[p] # "writing" /\ Breaks(p)

Works(p) == \/ Acquire(p) \/ List(p) \/ EndTick(p) \/ Read(p) \/ Count(p) \/ Write(p)
            \/ Refused(p) \/ Mark(p) \/ FindsOut(p)

Fails(p) == AcquireFails(p) \/ WriteFails(p) \/ MarkFails(p) \/ Breaks(p)

Next == \/ \E r \in Rows : Record(r) \/ BecomesDue(r)
        \/ HoldPending \/ SessionEnds
        \/ \E p \in Procs : Works(p) \/ Fails(p)

Spec == Init /\ [][Next]_vars

(* Dispatchers go on, the server gives back the locks of sessions that are *)
(* gone, and from some time on nothing fails that need not.                *)
Disturbs == \/ \E p \in Procs : Fails(p) /\ ~Works(p)
            \/ SessionEnds /\ lock # Ghost

FairSpec == /\ Spec
            /\ \A p \in Procs : WF_vars(Works(p))
            /\ WF_vars(SessionEnds /\ lock = Ghost)
            /\ \A r \in Rows : WF_vars(BecomesDue(r))
            /\ <>[][~Disturbs]_vars

----------------------------------------------------------------------------
TypeOK ==
    /\ status \in [Rows -> {"none", "pending", "held", "written"}]
    /\ due \in Seq(Rows) /\ later \subseteq Rows
    /\ lines \in [Rows -> 0 .. 2] /\ unmarked \subseteq Rows
    /\ lock \in Procs \cup {Nobody, Ghost}
    /\ conn \subseteq Procs
    /\ at \in [Procs -> {"idle", "rows", "counting", "writing", "marking"}]
    /\ todo \in [Procs -> Seq(Rows)]
    /\ \A p \in Procs : at[p] \in {"counting", "writing", "marking"} => todo[p] # << >>

(* A row settles once, and as written only when its line is out: neither   *)
(* a late leader nor a marker whose answer was lost rewrites one that was  *)
(* withheld.                                                               *)
SettlesOnce == [][\A r \in Rows : status'[r] # status[r] =>
                      /\ status[r] \in {"none", "pending"}
                      /\ status'[r] = "written" => lines[r] > 0]_vars

(* A second line for an event means that an earlier one got no marker, or  *)
(* is the single line of a dispatcher that lost its lock while writing.    *)
DuplicatesExplained == \A r \in Rows : lines[r] > 1 =>
    r \in unmarked \/ \E p \in Procs : at[p] = "marking" /\ Row(p) = r /\ ~Owns(p)

(* Every event is written or withheld in the end, although leaders die and *)
(* other events can never be written.                                      *)
Delivered == \A r \in Rows \ Unwritable : status[r] = "pending" ~> status[r] \in {"written", "held"}
=============================================================================
