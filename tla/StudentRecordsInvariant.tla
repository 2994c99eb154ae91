---------------------- MODULE StudentRecordsInvariant ----------------------
(***************************************************************************)
(* Why the record set is safe: the inductive invariants from which         *)
(* StudentRecordsProofs derives the safety properties of StudentRecords.   *)
(* The first is about the mutation gate and the hold; the deletion adds    *)
(* the write gate, and the purge schedule its transitions; the operation a *)
(* deletion works for needs none of these, and the inventory of its        *)
(* receipt needs it, the deletion's and the hold's.  ContractInvariant     *)
(* collects what RecordContract needs.                                     *)
(***************************************************************************)
EXTENDS StudentRecords

-----------------------------------------------------------------------------
(* The hold.                                                               *)

\* Where a deletion is between its verified lease and its end.
DeletionStates ==
    {"read", "fence1", "consult", "fence2", "reuse", "count", "record", "recheck",
     "sweep", "remove", "retry", "complete"}

OrphanStates == {"prepare", "orphan-sweep", "orphan-complete", "orphan-retry"}

TransitionStates ==
    {"suspend", "flip", "reread", "settle", "catch", "catch-held", "catch-settle"}

Busy(t) == pc[t] \notin {"ready", "done"}

\* The handler of which kind of request a step belongs to.
OwnStep(r, where) ==
    /\ where = "reserve" => r \in ProjectWrites
    /\ where = "create" => r \in Creators
    /\ where = "rename" => r \in AliasCorrections
    /\ where \in {"attempt", "withdraw"} => r \in Connects
    /\ where = "load" => r \in ReviewWrites \cup Connects \cup AccountChanges
    /\ where = "change" => r \in AccountChanges
    /\ where = "verify" => r \in Protected \cup Deleters
    /\ where \in DeletionStates => r \in Deleters
    /\ where \in OrphanStates => r = Sweeper
    /\ where \in TransitionStates => r \in Transitions

\* The steps that run under a mutation lease.
Leased(r, where) ==
    \/ where \in DeletionStates \cup {"verify", "reserve", "create", "rename"}
    \/ where = "load" /\ r \in ReviewWrites

\* Every request is at a step of its own kind's handler.
HandlersKeepToTheirSteps ==
    \A r \in Requests :
        /\ OwnStep(r, pc[r])
        /\ r \in Transitions => pc[r] \in TransitionStates \cup {"ready", "done"}

\* A step that touches protected content holds a mutation lease.
MutationsAreLeased ==
    \A r \in Requests : Leased(r, pc[r]) => r \in mutationLeases

\* A transition that has begun owns the tail and has the mutation gate shut; one that
\* places a hold has waited for every lease before it touches the document.
TransitionIsAlone ==
    \A t \in Transitions : Busy(t) =>
        /\ transition = t
        /\ mutationsHeld
        /\ t \in Places /\ pc[t] # "suspend" => mutationLeases = {}

\* No request is past its hold check while the hold is in place.
NoMutationUnderHold ==
    student.exists /\ student.hold => \A r \in mutationLeases : pc[r] = "verify"

\* Orphan cleanup works on the rows of a student who is gone.
OrphansHaveNoStudent ==
    pc[Sweeper] \in OrphanStates => ~student.exists

\* Why a held record is frozen: every step that could change it runs under a mutation
\* lease, and with the hold in place the only leases left are those of requests that have
\* yet to look at it.
HoldInvariant ==
    /\ HandlersKeepToTheirSteps
    /\ MutationsAreLeased
    /\ TransitionIsAlone
    /\ NoMutationUnderHold
    /\ OrphansHaveNoStudent

-----------------------------------------------------------------------------
(* The deletion.                                                           *)

\* The steps that store something for the student, without reading it again.
Storing == {"create", "attempt"}

\* Where a deletion is after its wait for the write gate to drain.
Fenced == {"reuse", "count", "record", "recheck", "sweep", "remove"}

\* The steps that hold a write lease: they store something, or lead to a step that does.
WriteLeased(r, where) ==
    \/ where \in {"load", "reserve", "create", "attempt"}
    \/ where = "verify" /\ r \in Protected

WritesAreLeased ==
    \A r \in Requests : WriteLeased(r, pc[r]) => r \in writeLeases

\* From the second fence on the write gate is shut, past it it is empty too, until the
\* document has been removed.
FenceHolds(where) ==
    /\ where \in Fenced \cup {"fence2"} => writesClosed
    /\ where \in Fenced => writeLeases = {}
    /\ where = "complete" => ~student.exists

\* A sweep starts with every collection before it; what it has acknowledged is empty and
\* stays so.
SweepHolds(d, where, w) ==
    /\ where \in {"gate", "fence1", "consult", "fence2", "reuse", "record", "recheck"}
         => w.todo = Collections
    /\ where = "verify" /\ d = Sweeper => w.todo = Collections
    /\ where = "sweep" /\ ~w.failed => \A c \in Collections \ w.todo : rows[c] = {}
    /\ where = "remove" => NoRows

DeletionsAreFenced ==
    \A d \in Deleters : FenceHolds(pc[d]) /\ SweepHolds(d, pc[d], work[d])

\* Once the document is gone no request is about to store a row.
NoWriterOutlives == ~student.exists => \A r \in Requests : pc[r] \notin Storing

\* Why a removed student stays gone: from the second fence to the removal nobody else
\* holds a write lease and nobody can take one, so what a sweep has emptied is still
\* empty when the document goes.
DeletionInvariant ==
    /\ WritesAreLeased
    /\ DeletionsAreFenced
    /\ NoWriterOutlives
    /\ NoResurrection
    /\ CompletedMeansGone

-----------------------------------------------------------------------------
(* The purge schedule.                                                     *)

NotHeld == ~(student.exists /\ student.hold)

\* Why a held record's tombstones have no deadline: the flag is set only by a transition
\* that has cleared the deadlines, and deadlines are given only by one that has seen or
\* made the flag clear; the tail keeps every other transition away in between.
PurgeInvariant ==
    /\ HoldSuspendsPurge
    /\ \A t \in Transitions :
        /\ t \in Places /\ pc[t] = "flip" => ~armed
        /\ t \in Releases /\ pc[t] = "reread" => NotHeld
        /\ pc[t] \in {"settle", "catch-settle"} => NotHeld

-----------------------------------------------------------------------------
(* The operation.                                                          *)

\* Where a deletion has claimed the account, under a new operation or the recorded one.
Claimed ==
    {"consult", "fence2", "reuse", "count", "record", "recheck", "sweep", "remove",
     "retry", "complete"}

\* Where a deletion, or the sweeper's cleanup of an orphan, works on a receipt that exists.
OnReceipt ==
    {"reuse", "sweep", "remove", "retry", "complete", "orphan"} \cup OrphanStates

\* Where a deletion has read the account and is on its way to the first fence.
Chosen(d) == pc[d] = "fence1" \/ (d = Sweeper /\ pc[d] \in {"gate", "verify"})

Recorded(op) == receipts[op].status # "none"

\* A pending account is one under an operation, and it is disabled.
PendingIsMarked ==
    /\ student.pending <=> student.op # NoOp
    /\ student.pending => ~student.active

\* There is a receipt for the account's operation only, with its reason.
ReceiptsBelong ==
    \A op \in Deleters :
        Recorded(op) => student.op = op /\ receipts[op].reason = student.reason

\* A deletion works for the account's operation and reason ...
WorksFor(d) ==
    /\ pc[d] \in Claimed =>
        /\ work[d].op = student.op /\ work[d].reason = student.reason
        /\ work[d].receipt => Recorded(work[d].op)
    /\ pc[d] \in OnReceipt => Recorded(work[d].op)

\* ... and one that is to claim it has read that it is free, in a version that a claim by
\* another deletion would have left behind, or read whose it is.
WillClaim(d) ==
    Chosen(d) =>
        /\ version[d] <= student.version
        /\ ~work[d].receipt
        /\ IF work[d].resume
           THEN work[d].op = student.op /\ work[d].reason = student.reason
           ELSE /\ version[d] = student.version => student.op = NoOp
                /\ work[d].reason \in Reasons
                /\ d # Sweeper => work[d].reason = "julio-request"

AccountInvariant ==
    /\ PendingIsMarked
    /\ ReceiptsBelong
    /\ \A d \in Deleters : WorksFor(d) /\ WillClaim(d)
-----------------------------------------------------------------------------
(* The inventory.                                                          *)

\* What a deletion has counted covers every row there is, from the count on.
CountHolds(where, w) ==
    /\ where = "count" => \A c \in Collections \ w.todo : rows[c] \subseteq w.counted[c]
    /\ where = "record" => \A c \in Collections : rows[c] \subseteq w.counted[c]

\* Once the account's receipt is durable no request is about to store a row.
Reported == student.exists /\ student.op # NoOp /\ Recorded(student.op)

NoWriterIsLeft == Reported => \A r \in Requests : pc[r] \notin Storing

\* Why the inventory stays complete: the deletion counts when every writer that found the
\* account usable has drained; and a request that a reopened gate admits later finds the
\* account pending, whichever of its checks it comes to.
InventoryInvariant ==
    /\ InventoryIsComplete
    /\ NoWriterIsLeft
    /\ \A d \in Deleters : CountHolds(pc[d], work[d])

-----------------------------------------------------------------------------
(* The contract.                                                           *)

\* A student is removed only under a receipt.
GoneIsReported == ~student.exists => \E op \in Deleters : Recorded(op)

\* Why the contract is kept: all of the above, but the inventory.
ContractInvariant ==
    /\ Types
    /\ HoldInvariant
    /\ DeletionInvariant
    /\ PurgeInvariant
    /\ AccountInvariant
    /\ GoneIsReported
=============================================================================
