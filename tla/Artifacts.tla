----------------------------- MODULE Artifacts -----------------------------
(***************************************************************************)
(* Stored objects and their collection (services/artifacts/): the bytes a  *)
(* provider keeps, the rows and references SQL keeps about them, readers   *)
(* that hold a lease while they stream, and the garbage collector, which   *)
(* several processes may run.                                              *)
(*                                                                         *)
(* SQL transactions that touch an object lock its row (lock_object), so    *)
(* each is one action. A call to the provider lies between transactions,   *)
(* and one whose answer is lost may still take effect later: a put that    *)
(* was retried (late), a deletion that timed out (doomed).                 *)
(*                                                                         *)
(* Object ids are fresh uuids, rows are never removed, and an object's     *)
(* bytes never change. The lease of a reader is kept as the time left on   *)
(* the database's clock and on the reader's own; the leases of collectors  *)
(* and claims, and the grace period, simply run out at some time.          *)
(***************************************************************************)
EXTENDS Integers, FiniteSets

CONSTANTS
    Objects, Readers, Collectors,
    Kinds,       \* the kinds of reference claim_delete looks for
    Plain,       \* objects written as application/octet-stream
    Ttl,         \* a read lease, in ticks of the database
    Margin,      \* the reader's own deadline: 0.8 of the lease, in ticks
    Nobody

ASSUME ArtifactsAssumption ==
    /\ Plain \subseteq Objects
    /\ Ttl \in Nat /\ Margin \in Nat /\ Margin < Ttl
    /\ Nobody \notin Objects \cup Collectors

VARIABLES
    \* at the provider
    bytes,      \* the objects it has
    late,       \* a copy of an earlier put is still on its way
    doomed,     \* a deletion that was asked for is still on its way
    \* in SQL
    row,        \* state of the object's row, "none" before it exists
    bound,      \* the kinds of reference that name the object
    token,      \* delete_token: the collector that made the last claim
    claimed,    \* objects whose claim has not expired
    orphan,     \* its observation: "none", "new" or "old" (first_seen_at)
    owner,      \* the collector the run lease of the collection names
    \* how much of the grace period has passed, and what was observed
    young,      \* bytes written less than the grace period ago
    aged,       \* rows older than the grace period
    changed,    \* the provider's fingerprint is not the observed one
    stale,      \* ... nor the one the collector has on the list it works off
    \* the processes
    writer,     \* of the object: "new", "put" (bytes written) or "done"
    reader, reads, lease, deadline, elapsed,
    collector, at, todo

provider   == <<bytes, late, doomed>>
registry   == <<row, bound, token, claimed>>
discovery  == <<orphan, owner>>
grace      == <<young, aged, changed, stale>>
readers    == <<reader, reads, lease, deadline, elapsed>>
collectors == <<collector, at, todo>>
vars == <<provider, registry, discovery, grace, writer, readers, collectors>>

Init == /\ bytes = {} /\ late = {} /\ doomed = {}
        /\ row = [o \in Objects |-> "none"]
        /\ bound = [o \in Objects |-> {}]
        /\ token = [o \in Objects |-> Nobody]
        /\ claimed = {}
        /\ orphan = [o \in Objects |-> "none"]
        /\ owner = Nobody
        /\ young = {} /\ aged = {} /\ changed = {}
        /\ stale = [c \in Collectors |-> {}]
        /\ writer = [o \in Objects |-> "new"]
        /\ reader = [r \in Readers |-> "idle"]
        /\ reads = [r \in Readers |-> Nobody]
        /\ lease = [r \in Readers |-> 0]
        /\ deadline = [r \in Readers |-> 0]
        /\ elapsed = [r \in Readers |-> 0]
        /\ collector = [c \in Collectors |-> "idle"]
        /\ at = [c \in Collectors |-> Nobody]
        /\ todo = [c \in Collectors |-> {}]

----------------------------------------------------------------------------
(* Writers: bytes first, then the transaction that refers to them.         *)

(* put, with or without an answer: a writer without one never refers to    *)
(* the object. Either way a retried request may arrive again, later.       *)
Put(o) ==
    /\ writer[o] = "new"
    /\ \/ bytes' = bytes \cup {o} /\ writer' = [writer EXCEPT ![o] = "put"]
       \/ bytes' \in {bytes, bytes \cup {o}} /\ writer' = [writer EXCEPT ![o] = "done"]
    /\ late' \in {late, late \cup {o}}
    /\ young' = young \cup {o}
    /\ UNCHANGED <<doomed, registry, discovery, aged, changed, stale, readers, collectors>>

Listed(c, o) == collector[c] = "observe" /\ o \in todo[c]

(* Remote stores only: the client sends a request again that was not       *)
(* answered, and either may arrive late. Puts are conditional on the key   *)
(* being free; bytes that come back have a fingerprint of their own.       *)
LandPut(o) ==
    /\ o \in late
    /\ late' = late \ {o}
    /\ bytes' = bytes \cup {o}
    /\ IF o \in bytes THEN UNCHANGED <<changed, stale>>
       ELSE /\ changed' = changed \cup {o}
            /\ stale' = [c \in Collectors |-> stale[c] \cup {x \in {o} : Listed(c, x)}]
    /\ UNCHANGED <<doomed, registry, discovery, young, aged, writer, readers, collectors>>

LandDelete(o) ==
    /\ o \in doomed
    /\ doomed' = doomed \ {o}
    /\ bytes' = bytes \ {o}
    /\ UNCHANGED <<late, registry, discovery, grace, writer, readers, collectors>>

(* register_blob: a row the collector made for an unknown object says      *)
(* octet-stream, which need not be what the writer's reference says.       *)
Registers(o) == \/ row[o] = "none"
                \/ row[o] = "ready" /\ (bound[o] # {} \/ o \in Plain)

(* attach_blob and its like, for a new object or one already referred to.  *)
Attach(o, k) ==
    /\ writer[o] = "put" \/ bound[o] # {}
    /\ Registers(o)
    /\ row' = [row EXCEPT ![o] = "ready"]
    /\ bound' = [bound EXCEPT ![o] = @ \cup {k}]
    /\ UNCHANGED <<token, claimed, provider, discovery, grace, writer, readers, collectors>>

(* The writer's transaction is over: committed, refused or rolled back.    *)
WriterEnds(o) ==
    /\ writer[o] = "put"
    /\ writer' = [writer EXCEPT ![o] = "done"]
    /\ UNCHANGED <<provider, registry, discovery, grace, readers, collectors>>

Detach(o, k) ==
    /\ k \in bound[o]
    /\ bound' = [bound EXCEPT ![o] = @ \ {k}]
    /\ UNCHANGED <<row, token, claimed, provider, discovery, grace, writer, readers, collectors>>

----------------------------------------------------------------------------
(* Readers: _Lease and its renewing thread. An idle reader may have left a *)
(* lease behind; its name is used again when that has expired.             *)

Streaming(r) == reader[r] \in {"open", "renewing", "renewed"}

(* check: neither lost nor past the deadline.                              *)
MayRead(r) == Streaming(r) /\ deadline[r] > 0

OnlyReadersMove == UNCHANGED <<provider, registry, discovery, grace, writer, collectors>>

(* resolve_blob, in a transaction of its own; then the clock is read.      *)
Resolve(r, o) ==
    /\ reader[r] = "idle" /\ lease[r] = 0
    /\ bound[o] # {} /\ row[o] = "ready"
    /\ reader' = [reader EXCEPT ![r] = "leasing"]
    /\ reads' = [reads EXCEPT ![r] = o]
    /\ UNCHANGED <<lease, deadline, elapsed>> /\ OnlyReadersMove

(* The deadline counts from before the transaction began.                  *)
Left(r) == IF elapsed[r] < Margin THEN Margin - elapsed[r] ELSE 0

AcquireLease(r) ==
    /\ reader[r] = "leasing"
    /\ row[reads[r]] = "ready"
    /\ reader' = [reader EXCEPT ![r] = "open"]
    /\ lease' = [lease EXCEPT ![r] = Ttl]
    /\ deadline' = [deadline EXCEPT ![r] = Left(r)]
    /\ elapsed' = [elapsed EXCEPT ![r] = 0]
    /\ UNCHANGED reads /\ OnlyReadersMove

BeginRenewal(r) ==
    /\ reader[r] = "open"
    /\ reader' = [reader EXCEPT ![r] = "renewing"]
    /\ elapsed' = [elapsed EXCEPT ![r] = 0]
    /\ UNCHANGED <<reads, lease, deadline>> /\ OnlyReadersMove

(* renew_read_lease; whatever it raises, the lease counts as lost.         *)
RenewLease(r) ==
    /\ reader[r] = "renewing"
    /\ \/ /\ row[reads[r]] = "ready" /\ lease[r] > 0
          /\ lease' = [lease EXCEPT ![r] = Ttl]
          /\ reader' \in {[reader EXCEPT ![r] = "renewed"], [reader EXCEPT ![r] = "lost"]}
       \/ /\ reader' = [reader EXCEPT ![r] = "lost"]
          /\ UNCHANGED lease
    /\ UNCHANGED <<reads, deadline, elapsed>> /\ OnlyReadersMove

(* A renewal that comes after the deadline has passed is of no use.        *)
ApplyRenewal(r) ==
    /\ reader[r] = "renewed"
    /\ IF deadline[r] = 0
       THEN /\ reader' = [reader EXCEPT ![r] = "lost"] /\ UNCHANGED deadline
       ELSE /\ reader' = [reader EXCEPT ![r] = "open"]
            /\ deadline' = [deadline EXCEPT ![r] = Left(r)]
    /\ elapsed' = [elapsed EXCEPT ![r] = 0]
    /\ UNCHANGED <<reads, lease>> /\ OnlyReadersMove

(* close, an error (BlobLeaseLost if there is nothing to lease) or the end *)
(* of the process; a lease that is not given back expires.                 *)
Close(r) ==
    /\ reader[r] # "idle"
    /\ reader' = [reader EXCEPT ![r] = "idle"]
    /\ deadline' = [deadline EXCEPT ![r] = 0]
    /\ lease' \in {lease, [lease EXCEPT ![r] = 0]}
    /\ elapsed' = [elapsed EXCEPT ![r] = 0]
    /\ UNCHANGED reads /\ OnlyReadersMove

Timed(r) == reader[r] \in {"leasing", "renewing", "renewed"}

Down(n) == IF n > 0 THEN n - 1 ELSE 0

Tick ==
    /\ lease' = [r \in Readers |-> Down(lease[r])]
    /\ deadline' = [r \in Readers |-> Down(deadline[r])]
    /\ elapsed' = [r \in Readers |-> IF Timed(r) /\ elapsed[r] < Margin THEN elapsed[r] + 1 ELSE elapsed[r]]
    /\ UNCHANGED <<reader, reads>> /\ OnlyReadersMove

----------------------------------------------------------------------------
(* The collector: run_gc_cycle, in its three passes "observe", "promote"   *)
(* and "sweep". Each works off a list made when it begins (todo); all      *)
(* objects are taken to fit in one page and in the cycle's byte budget.    *)

Goes(c, where, o) == /\ collector' = [collector EXCEPT ![c] = where]
                     /\ at' = [at EXCEPT ![c] = o]

Done(c, o) == todo' = [todo EXCEPT ![c] = @ \ {o}]

OnlyRegistryMoves == UNCHANGED <<provider, discovery, grace, writer, readers>>

Leased(o) == \E r \in Readers : reads[r] = o /\ lease[r] > 0

(* What the list of candidates and, once more, the claim ask of an object. *)
FreeOfBindings(o) == "binding" \notin bound[o] /\ ~Leased(o)  \* mutant
FreeThoughLeased(o) == bound[o] = {}                     \* mutant
Free(o) == bound[o] = {} /\ ~Leased(o)

OldAnyway(o) == row[o] # "none"                          \* mutant
OldEnough(o) == o \in aged

(* The lists: what the provider has, what was first seen long ago, and     *)
(* what may be collected now.                                              *)
Stored == bytes
Quarantined == {o \in Objects : orphan[o] = "old"}
Collectable == {o \in Objects : /\ row[o] = "ready" \/ (row[o] = "deleting" /\ o \notin claimed)
                                /\ Free(o) /\ OldEnough(o)}

Start(c) ==
    /\ collector[c] = "idle"
    /\ owner = Nobody
    /\ owner' = c
    /\ Goes(c, "observe", Nobody)
    /\ todo' = [todo EXCEPT ![c] = Stored]
    /\ UNCHANGED <<provider, registry, orphan, grace, writer, readers>>

(* The run lease expires, so the row no longer names a live owner.         *)
OwnerExpires ==
    /\ owner # Nobody
    /\ owner' = Nobody
    /\ UNCHANGED <<provider, registry, orphan, grace, writer, readers, collectors>>

(* _observe: what has a live row needs no observation.                     *)
KnownAtAll(o) == row[o] \in {"ready", "deleting", "deleted"}  \* mutant
Known(o) == row[o] \in {"ready", "deleting"}

(* Whether the fingerprint on record is another than the one listed. A     *)
(* stale one may be on record already, unless the present one is.          *)
Differs(c, o) == IF o \in stale[c] THEN {TRUE, o \notin changed} ELSE {o \in changed}

Observe(c, o) ==
    /\ Listed(c, o) /\ owner = c
    /\ \E differs \in Differs(c, o) :
          orphan' = [orphan EXCEPT ![o] = IF Known(o) THEN "none" ELSE IF @ = "none" \/ differs THEN "new" ELSE @]
    /\ changed' = IF o \in stale[c] THEN changed \cup {o} ELSE changed \ {o}
    /\ stale' = [stale EXCEPT ![c] = @ \ {o}]
    /\ Done(c, o)
    /\ UNCHANGED <<collector, at, owner, provider, registry, young, aged, writer, readers>>

(* guard.checkpoint, and the list of the next pass.                        *)
NextPass(c) ==
    /\ todo[c] = {} /\ owner = c
    /\ \/ /\ collector[c] = "observe"
          /\ Goes(c, "promote", Nobody)
          /\ todo' = [todo EXCEPT ![c] = Quarantined]
       \/ /\ collector[c] = "promote"
          /\ Goes(c, "sweep", Nobody)
          /\ todo' = [todo EXCEPT ![c] = Collectable]
    /\ UNCHANGED <<owner, provider, registry, orphan, grace, writer, readers>>

(* _promote, its first transaction: the observation is gone or the object  *)
(* has a row by now, or it is unknown and gets inspected, or it is a       *)
(* tombstone whose bytes came back.                                        *)
Promote(c, o) ==
    /\ collector[c] = "promote" /\ o \in todo[c] /\ owner = c
    /\ Done(c, o)
    /\ \/ orphan[o] # "old" /\ UNCHANGED <<orphan, collector, at>>
       \/ /\ orphan[o] = "old" /\ Known(o)
          /\ orphan' = [orphan EXCEPT ![o] = "none"]
          /\ UNCHANGED <<collector, at>>
       \/ /\ orphan[o] = "old" /\ ~Known(o)
          /\ Goes(c, IF row[o] = "none" THEN "inspect" ELSE "reap", o)
          /\ UNCHANGED orphan
    /\ UNCHANGED <<owner, provider, registry, grace, writer, readers>>

(* inspect_candidate reads the bytes: they may be gone by now, or not be   *)
(* the observed ones.                                                      *)
Inspect(c) ==
    /\ collector[c] = "inspect"
    /\ IF at[c] \in bytes \ changed
       THEN Goes(c, "inspected", at[c])
       ELSE Goes(c, "promote", Nobody)
    /\ orphan' = IF at[c] \in bytes THEN orphan ELSE [orphan EXCEPT ![at[c]] = "none"]
    /\ UNCHANGED <<todo, owner, provider, registry, grace, writer, readers>>

InspectFails(c) ==
    /\ collector[c] = "inspect"
    /\ Goes(c, "promote", Nobody)
    /\ UNCHANGED <<todo, provider, registry, discovery, grace, writer, readers>>

(* Its second transaction: a row as old as the observation, unless there   *)
(* is one by now. A tombstone keeps its observation.                       *)
Unknown(o) == row[o] = "none"

Register(c) ==
    /\ collector[c] = "inspected" /\ owner = c
    /\ LET o == at[c] IN
       IF orphan[o] = "old"
       THEN /\ row' = IF Unknown(o) THEN [row EXCEPT ![o] = "ready"] ELSE row
            /\ aged' = IF Unknown(o) THEN aged \cup {o} ELSE aged
            /\ orphan' = IF row[o] = "deleted" THEN orphan ELSE [orphan EXCEPT ![o] = "none"]
       ELSE UNCHANGED <<row, aged, orphan>>
    /\ Goes(c, "promote", Nobody)
    /\ UNCHANGED <<todo, bound, token, claimed, owner, provider, young, changed, stale, writer, readers>>

(* claim_delete, of a tombstone only if its bytes reappeared.              *)
MayClaim(o, reappeared) == /\ row[o] = "ready" \/ (row[o] = "deleted" /\ reappeared)
                                               \/ (row[o] = "deleting" /\ o \notin claimed)
                           /\ Free(o) /\ OldEnough(o)

ClaimedBy(c, o) == /\ row' = [row EXCEPT ![o] = "deleting"]
                   /\ token' = [token EXCEPT ![o] = c]
                   /\ claimed' = claimed \cup {o}
                   /\ UNCHANGED bound

Sweep(c, o) ==
    /\ collector[c] = "sweep" /\ o \in todo[c]
    /\ Done(c, o)
    /\ IF MayClaim(o, FALSE)
       THEN ClaimedBy(c, o) /\ Goes(c, "claimed", o)
       ELSE UNCHANGED <<registry, collector, at>>
    /\ OnlyRegistryMoves

Reap(c) ==
    /\ collector[c] = "reap"
    /\ IF MayClaim(at[c], TRUE)
       THEN ClaimedBy(c, at[c]) /\ Goes(c, "reclaimed", at[c])
       ELSE Goes(c, "promote", Nobody) /\ UNCHANGED registry
    /\ UNCHANGED todo /\ OnlyRegistryMoves

ClaimExpires(o) ==
    /\ o \in claimed
    /\ claimed' = claimed \ {o}
    /\ UNCHANGED <<row, bound, token, collectors>> /\ OnlyRegistryMoves

(* store.delete: done, or an error; after an error the request may still   *)
(* be on its way. The guard is asked before the call, not during it: a     *)
(* collector whose claim or run lease has expired may get here.            *)
Delete(c) ==
    /\ collector[c] \in {"claimed", "reclaimed"}
    /\ bytes' = bytes \ {at[c]}
    /\ Goes(c, IF collector[c] = "claimed" THEN "asked" ELSE "reasked", at[c])
    /\ UNCHANGED <<todo, late, doomed, registry, discovery, grace, writer, readers>>

DeleteFails(c) ==
    /\ collector[c] \in {"claimed", "reclaimed"}
    /\ doomed' \in {doomed, doomed \cup {at[c]}}
    /\ Goes(c, IF collector[c] = "claimed" THEN "sweep" ELSE "promote", Nobody)
    /\ UNCHANGED <<todo, bytes, late, registry, discovery, grace, writer, readers>>

(* finish_delete, which answers whether the claim was still the last.      *)
Finishes(c) == row[at[c]] = "deleting" /\ token[at[c]] = c

Finish(c) ==
    /\ collector[c] \in {"asked", "reasked"}
    /\ IF Finishes(c)
       THEN /\ row' = [row EXCEPT ![at[c]] = "deleted"]
            /\ token' = [token EXCEPT ![at[c]] = Nobody]
            /\ claimed' = claimed \ {at[c]}
            /\ UNCHANGED bound
       ELSE UNCHANGED registry
    /\ IF collector[c] = "reasked" /\ Finishes(c)
       THEN Goes(c, "forget", at[c])
       ELSE Goes(c, IF collector[c] = "asked" THEN "sweep" ELSE "promote", Nobody)
    /\ UNCHANGED todo /\ OnlyRegistryMoves

Forget(c) ==
    /\ collector[c] = "forget"
    /\ orphan' = [orphan EXCEPT ![at[c]] = "none"]
    /\ Goes(c, "promote", Nobody)
    /\ UNCHANGED <<todo, owner, provider, registry, grace, writer, readers>>

GivesUpOwner(c) == owner' = IF owner = c THEN Nobody ELSE owner

Ends(c) ==
    /\ collector[c] = "sweep" /\ todo[c] = {}
    /\ GivesUpOwner(c)
    /\ Goes(c, "idle", Nobody)
    /\ UNCHANGED <<todo, provider, registry, orphan, grace, writer, readers>>

(* The guard finds the run lease lost, an error ends the cycle, or the     *)
(* process ends, and its lease expires.                                    *)
Stops(c) ==
    /\ collector[c] # "idle"
    /\ GivesUpOwner(c) \/ UNCHANGED owner
    /\ Goes(c, "idle", Nobody)
    /\ todo' = [todo EXCEPT ![c] = {}]
    /\ stale' = [stale EXCEPT ![c] = {}]
    /\ UNCHANGED <<provider, registry, orphan, young, aged, changed, writer, readers>>

----------------------------------------------------------------------------
(* The grace period, from the writing of the bytes, their first            *)
(* observation and the creation of the row.                                *)

BytesAge(o) == /\ o \in young /\ young' = young \ {o}
               /\ UNCHANGED <<provider, registry, discovery, aged, changed, stale, writer, readers, collectors>>

OrphanAges(o) == /\ orphan[o] = "new" /\ o \notin young
                 /\ orphan' = [orphan EXCEPT ![o] = "old"]
                 /\ UNCHANGED <<owner, provider, registry, grace, writer, readers, collectors>>

RowAges(o) == /\ row[o] # "none" /\ o \notin young /\ o \notin aged
              /\ aged' = aged \cup {o}
              /\ UNCHANGED <<provider, registry, discovery, young, changed, stale, writer, readers, collectors>>

----------------------------------------------------------------------------
ObjectStep(o) ==
    \/ Put(o) \/ LandPut(o) \/ LandDelete(o) \/ WriterEnds(o)
    \/ \E k \in Kinds : Attach(o, k) \/ Detach(o, k)
    \/ ClaimExpires(o) \/ BytesAge(o) \/ OrphanAges(o) \/ RowAges(o)

ReaderStep(r) ==
    \/ \E o \in Objects : Resolve(r, o)
    \/ AcquireLease(r) \/ BeginRenewal(r) \/ RenewLease(r) \/ ApplyRenewal(r) \/ Close(r)

Works(c) ==
    \/ \E o \in Objects : Observe(c, o) \/ Promote(c, o) \/ Sweep(c, o)
    \/ Start(c) \/ NextPass(c) \/ Inspect(c) \/ Register(c) \/ Reap(c)
    \/ Delete(c) \/ Finish(c) \/ Forget(c) \/ Ends(c)

CollectorStep(c) == Works(c) \/ InspectFails(c) \/ DeleteFails(c) \/ Stops(c)

Next == \/ \E o \in Objects : ObjectStep(o)
        \/ \E r \in Readers : ReaderStep(r)
        \/ \E c \in Collectors : CollectorStep(c)
        \/ Tick \/ OwnerExpires

Spec == Init /\ [][Next]_vars

(* Time passes and readers end; collectors work, and from some time on     *)
(* nothing disturbs them. Nothing is asked of writers or late answers.     *)
Disturbs == \/ \E c \in Collectors :
                  /\ ~Works(c)
                  /\ InspectFails(c) \/ DeleteFails(c) \/ (Stops(c) /\ owner = c)
            \/ (OwnerExpires /\ collector[owner] # "idle")

TimePasses == \/ Tick \/ OwnerExpires
              \/ \E o \in Objects : ClaimExpires(o) \/ BytesAge(o) \/ OrphanAges(o) \/ RowAges(o)

FairSpec == /\ Spec
            /\ WF_vars(TimePasses)
            /\ WF_vars(\E r \in Readers : Close(r))
            /\ \A c \in Collectors : WF_vars(Works(c) \/ (Stops(c) /\ owner # c))
            /\ <>[][~Disturbs]_vars

----------------------------------------------------------------------------
TypeOK ==
    /\ bytes \subseteq Objects /\ late \subseteq Objects /\ doomed \subseteq Objects
    /\ row \in [Objects -> {"none", "ready", "deleting", "deleted"}]
    /\ bound \in [Objects -> SUBSET Kinds]
    /\ token \in [Objects -> Collectors \cup {Nobody}]
    /\ claimed \subseteq Objects
    /\ orphan \in [Objects -> {"none", "new", "old"}]
    /\ owner \in Collectors \cup {Nobody}
    /\ young \subseteq Objects /\ aged \subseteq Objects /\ changed \subseteq Objects
    /\ stale \in [Collectors -> SUBSET Objects]
    /\ writer \in [Objects -> {"new", "put", "done"}]
    /\ reader \in [Readers -> {"idle", "leasing", "open", "renewing", "renewed", "lost"}]
    /\ reads \in [Readers -> Objects \cup {Nobody}]
    /\ lease \in [Readers -> 0 .. Ttl]
    /\ deadline \in [Readers -> 0 .. Margin]
    /\ elapsed \in [Readers -> 0 .. Margin]
    /\ collector \in [Collectors -> {"idle", "observe", "promote", "inspect", "inspected", "reap", "reclaimed",
                                     "reasked", "forget", "sweep", "claimed", "asked"}]
    /\ at \in [Collectors -> Objects \cup {Nobody}]
    /\ todo \in [Collectors -> SUBSET Objects]
    /\ \A r \in Readers : reader[r] # "idle" => reads[r] \in Objects
    /\ \A c \in Collectors : collector[c] \notin {"idle", "observe", "promote", "sweep"} => at[c] \in Objects

(* Whatever is referred to can be read, and no deletion that was asked for *)
(* earlier is still on its way to it: neither collectors that were paused  *)
(* nor requests that timed out destroy what a transaction has bound.       *)
BoundBytesKept == \A o \in Objects : bound[o] # {} => /\ row[o] = "ready"
                                                     /\ o \in bytes /\ o \notin doomed

(* A reader whose check has just passed finds the bytes it streams, though *)
(* the document was purged meanwhile and its heartbeat may be late.        *)
ReadersProtected == \A r \in Readers : MayRead(r) => reads[r] \in bytes

(* Bytes that were put less than the grace period ago are still there for  *)
(* the transaction that will bind them, and it is not refused.             *)
UploadsProtected == \A o \in young : writer[o] = "put" =>
                        o \in bytes /\ row[o] \in {"none", "ready"}

(* What the collector took is never readable again, even if it finds the   *)
(* bytes again: another cycle may be inspecting them as unknown.           *)
TombstonesStay == [][\A o \in Objects : row[o] \in {"deleting", "deleted"} =>
                                            row'[o] \in {"deleting", "deleted"}]_vars

(* Bytes nobody refers to, and nobody is going to, go in the end: after a  *)
(* lost upload, an expired claim, a deletion that failed, a late put.      *)
GarbageGoes == \A o \in Objects : (writer[o] = "done" /\ bound[o] = {}) ~> (o \notin bytes)
=============================================================================
