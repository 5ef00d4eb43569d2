-------------------------- MODULE DocumentPromise --------------------------
(***************************************************************************)
(* What a document promises to those who ask for its processing and those  *)
(* who read it, with no attempts, generations, checkpoints or late writes  *)
(* in sight: requests are taken one at a time, each is settled once, and   *)
(* what readers are shown changes by the success of the request in hand    *)
(* and by nothing else, until the document is removed for good.            *)
(*                                                                         *)
(* The requests are items of WorkPromise; the steps below are its steps,   *)
(* together with what they do to the document.                             *)
(***************************************************************************)
EXTENDS WorkPromise

CONSTANTS First,      \* the request that came with the document
          NoVersion

VARIABLES shown,      \* the request whose result readers are shown
          gone        \* the document was removed

document == <<shown, gone>>

DocumentInit == /\ phase = [i \in Items |-> IF i = First THEN "open" ELSE "absent"]
                /\ withdrawn = {}
                /\ shown = NoVersion
                /\ gone = FALSE

InHand(i) == phase[i] = "open" /\ i \notin withdrawn

(* A request is taken while none is in hand; attempts at a withdrawn one   *)
(* may still be going on.                                                  *)
Take(i) == ~gone /\ (\A k \in Items : ~InHand(k)) /\ Accept(i) /\ UNCHANGED document

GiveUp(i) == Withdraw(i) /\ UNCHANGED document

Show(i) == ~gone /\ Settle({i}, "succeeded") /\ shown' = i /\ UNCHANGED gone

(* Failed, or stopped after it was withdrawn: readers see what they saw.   *)
Drop(i, o) == Settle({i}, o) /\ UNCHANGED document

(* Nothing is in hand any more when the document goes.                     *)
Remove == /\ ~gone /\ \A i \in Items : ~InHand(i)
          /\ gone' = TRUE /\ shown' = NoVersion
          /\ UNCHANGED <<phase, withdrawn>>

DocumentNext == \/ \E i \in Items : \/ Take(i) \/ GiveUp(i) \/ Show(i)
                                    \/ \E o \in {"failed", "cancelled"} : Drop(i, o)
                \/ Remove

DocumentSpec == DocumentInit /\ [][DocumentNext]_<<phase, withdrawn, shown, gone>>
============================================================================
