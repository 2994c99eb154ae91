------------------------------ MODULE LeaseGate ------------------------------
(***************************************************************************)
(* One student's entry of a barrier map, as studentDataWriteBarrier.ts and *)
(* studentRecordMutationBarrier.ts keep it.  The map binds the student to  *)
(* a state object {activeLeases, closed, waiters}; an object is created on *)
(* demand and dropped from the map when it is idle and open, so over time  *)
(* several objects stand for one student, and a release closure keeps the  *)
(* object it was made with.  JavaScript runs one task at a time: what      *)
(* happens between two awaits is one step, and a resolved promise resumes  *)
(* its closer in a later task (pc "woken").                                *)
(*                                                                         *)
(* The two files hold the same code under different names (`closed` is     *)
(* `preservationHeld` in the second); the map entries name the first where *)
(* both have the operation.                                                *)
(*                                                                         *)
(* Who may reopen: both reopening calls are made by the one serialized     *)
(* hold transition of a student, after its own wait has drained the gate,  *)
(* so no closer is waiting then (guard NoCloserPending of Reopen).         *)
(***************************************************************************)
EXTENDS Naturals, FiniteSets

CONSTANTS
    Requests,   \* concurrent calls of acquire...Lease for this student
    Closers,    \* concurrent calls of ...AndWait for this student
    Objects,    \* identities of state objects
    None        \* no object: the map has no entry

ASSUME RequestsFinite == IsFiniteSet(Requests)
ASSUME NoneIsNoObject == None \notin Objects

VARIABLES
    entry,         \* writeStates.get(studentID), or None
    activeLeases,  \* [Objects -> Nat]
    closed,        \* [Objects -> BOOLEAN]
    waiters,       \* [Objects -> SUBSET Closers]: unresolved wait promises
    lease,         \* [Requests -> Objects \cup {None}]: the object captured by a live release closure
    closerPc       \* [Closers -> idle | waiting | woken | through]

vars == <<entry, activeLeases, closed, waiters, lease, closerPc>>

CloserStates == {"idle", "waiting", "woken", "through"}

\* Types; and the registered waiters are exactly the closers still waiting (an object
\* that kept a resolved waiter would resume it again, or hold it for ever).
TypeOK ==
    /\ entry \in Objects \cup {None}
    /\ activeLeases \in [Objects -> Nat]
    /\ closed \in [Objects -> BOOLEAN]
    /\ waiters \in [Objects -> SUBSET Closers]
    /\ lease \in [Requests -> Objects \cup {None}]
    /\ closerPc \in [Closers -> CloserStates]
    /\ \A c \in Closers :
        closerPc[c] = "waiting" <=> \E o \in Objects : c \in waiters[o]

Init ==
    /\ entry = None
    /\ activeLeases = [o \in Objects |-> 0]
    /\ closed = [o \in Objects |-> FALSE]
    /\ waiters = [o \in Objects |-> {}]
    /\ lease = [r \in Requests |-> None]
    /\ closerPc = [c \in Closers |-> "idle"]

-----------------------------------------------------------------------------
\* An object nothing refers to: what `new` may return.
Unreferenced(o) ==
    /\ o # entry
    /\ \A r \in Requests : lease[r] # o
    /\ waiters[o] = {}

\* stateFor: the map's object, or a new one with no lease, open, no waiter.
StateFor(o) == IF entry = None THEN Unreferenced(o) ELSE o = entry

\* Mutant: entering restarts the counter instead of adding to it.
LeasesOfRestarted(o) == 0

LeasesOf(o) == IF entry = None THEN 0 ELSE activeLeases[o]
IsClosed(o) == entry # None /\ closed[o]

\* acquire...Lease: refused (null) while the gate is closed, which changes nothing.
Acquire(r) ==
    /\ lease[r] = None
    /\ \E o \in Objects :
        /\ StateFor(o)
        /\ ~IsClosed(o)
        /\ entry' = o
        /\ activeLeases' = [activeLeases EXCEPT ![o] = LeasesOf(o) + 1]
        /\ closed' = [closed EXCEPT ![o] = FALSE]
        /\ lease' = [lease EXCEPT ![r] = o]
    /\ UNCHANGED <<waiters, closerPc>>

\* Mutant: the last release tests the map identity and forgets to look at `closed`.
EntryAfterReleaseForgetsClosed(o, left) ==
    IF left = 0 /\ entry = o THEN None ELSE entry

\* Mutant: an idle open object is never dropped from the map.
EntryAfterReleaseKeeps(o, left) == entry

\* The last release drops an open object from the map, if the map still holds it.
EntryAfterRelease(o, left) ==
    IF left = 0 /\ ~closed[o] /\ entry = o THEN None ELSE entry

\* Mutant: the last release resolves nobody.
WokenByNone(o, left) == {}

\* The last release resolves every registered waiter.
WokenBy(o, left) == IF left = 0 THEN waiters[o] ELSE {}

WaitersLeft(o, left) == waiters[o] \ WokenBy(o, left)

\* Math.max(0, activeLeases - 1)
OneLess(n) == IF n > 0 THEN n - 1 ELSE 0

\* The closure that acquire returned, called for the first time (`released`).
Release(r) ==
    /\ lease[r] # None
    /\ LET o == lease[r]
           left == OneLess(activeLeases[o])
       IN /\ activeLeases' = [activeLeases EXCEPT ![o] = left]
          /\ waiters' = [waiters EXCEPT ![o] = WaitersLeft(o, left)]
          /\ closerPc' = [c \in Closers |->
                           IF c \in WokenBy(o, left) THEN "woken" ELSE closerPc[c]]
          /\ entry' = EntryAfterRelease(o, left)
    /\ lease' = [lease EXCEPT ![r] = None]
    /\ UNCHANGED closed

\* close...AndWait / hold...AndWait: the gate shuts at once; with no lease out the
\* call returns, otherwise its promise is registered on the object.
CloseAndWait(c) ==
    /\ closerPc[c] = "idle"
    /\ \E o \in Objects :
        /\ StateFor(o)
        /\ entry' = o
        /\ closed' = [closed EXCEPT ![o] = TRUE]
        /\ activeLeases' = [activeLeases EXCEPT ![o] = LeasesOf(o)]
        /\ IF LeasesOf(o) = 0
           THEN /\ closerPc' = [closerPc EXCEPT ![c] = "woken"]
                /\ UNCHANGED waiters
           ELSE /\ closerPc' = [closerPc EXCEPT ![c] = "waiting"]
                /\ waiters' = [waiters EXCEPT ![o] = @ \cup {c}]
    /\ UNCHANGED lease

\* The task that follows the await of a resolved wait.
Continue(c) ==
    /\ closerPc[c] = "woken"
    /\ closerPc' = [closerPc EXCEPT ![c] = "through"]
    /\ UNCHANGED <<entry, activeLeases, closed, waiters, lease>>

NoCloserPending == \A c \in Closers : closerPc[c] \notin {"waiting", "woken"}

\* reopenStudentDataLeaseGateForPreservation / releaseStudentRecordMutationHold:
\* open the gate, and drop the object when no lease is out.
Reopen ==
    /\ NoCloserPending
    /\ entry # None
    /\ closed' = [closed EXCEPT ![entry] = FALSE]
    /\ entry' = IF activeLeases[entry] = 0 THEN None ELSE entry
    /\ closerPc' = [c \in Closers |-> "idle"]
    /\ UNCHANGED <<activeLeases, waiters, lease>>

Next ==
    \/ \E r \in Requests : Acquire(r) \/ Release(r)
    \/ \E c \in Closers : CloseAndWait(c) \/ Continue(c)
    \/ Reopen

\* Fairness: handlers settle, so that their `finally` releases the lease; the event loop
\* runs resumed tasks.  (Either stays enabled until it is taken, so that a condition on all
\* requests together asks for no more than one on each.)
Fairness ==
    /\ WF_vars(\E r \in Requests : Release(r))
    /\ WF_vars(\E c \in Closers : Continue(c))

Spec == Init /\ [][Next]_vars
FairSpec == Spec /\ Fairness

-----------------------------------------------------------------------------
HoldersOf(o) == {r \in Requests : lease[r] = o}

\* The counter and the live release closures agree, and every live closure belongs to
\* the object the map holds: a request that entered through a dropped object would be
\* invisible to the closer of a new one (the identity test of the release closure).
LeasesAreCounted ==
    /\ \A o \in Objects \ {entry} : HoldersOf(o) = {}
    /\ entry # None => activeLeases[entry] = Cardinality(HoldersOf(entry))

\* A registered waiter has a lease to wait for on the object in the map: the release
\* that takes the counter to zero cannot have happened already.
NoLostWakeup ==
    \A c \in Closers : closerPc[c] = "waiting" =>
        /\ entry # None
        /\ c \in waiters[entry]
        /\ HoldersOf(entry) # {}

\* The map does not grow with the students ever seen: an entry remains only for a
\* student with a request inside or a gate deliberately left shut.
NoIdleEntry == entry # None => closed[entry] \/ HoldersOf(entry) # {}

\* Every closer that shut the gate goes on once the requests inside have left: there is always
\* a later moment at which none of them waits any more (a closer that is through shuts the gate
\* again only after a reopening, which waits for the others).
CloserPasses == []<>NoCloserPending

-----------------------------------------------------------------------------
\* The refinement: the barrier as the handlers see it.
Contract == INSTANCE GateContract WITH
    open    <- entry = None \/ ~closed[entry],
    holders <- {r \in Requests : lease[r] # None},
    pending <- {c \in Closers : closerPc[c] \in {"waiting", "woken"}},
    passed  <- {c \in Closers : closerPc[c] = "through"}

\* The map of objects, counters and promises implements the gate contract: in
\* particular a closer goes on only at a moment when no request is inside.
ImplementsContract == Contract!Spec
=============================================================================
