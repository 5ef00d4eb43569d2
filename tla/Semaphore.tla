----------------------------- MODULE Semaphore ------------------------------
(***************************************************************************)
(* What a shared limit promises, with no slots, rows, tokens or clocks in  *)
(* sight: users come in one at a time and once only, never more of them    *)
(* are inside than the limit in force, and the limit changes only while    *)
(* nobody is inside.                                                       *)
(***************************************************************************)
EXTENDS Naturals, FiniteSets

CONSTANT Users

VARIABLES limit,   \* the limit in force
          inside,  \* the users inside
          seen     \* everyone who ever came in

SemaphoreInit == limit \in Nat /\ inside = {} /\ seen = {}

(* Others may be sent away to make room for the one who comes in.          *)
Enter(u) == /\ u \notin seen
            /\ seen' = seen \cup {u}
            /\ inside' \subseteq inside \cup {u}
            /\ Cardinality(inside') <= limit'

Leave == inside' \subseteq inside /\ UNCHANGED seen

SemaphoreNext == /\ limit' = limit \/ inside = {}
                 /\ Leave \/ \E u \in Users : Enter(u)

SemaphoreSpec == SemaphoreInit /\ [][SemaphoreNext]_<<limit, inside, seen>>
=============================================================================
