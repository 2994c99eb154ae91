--------------------------- MODULE LeaseGateProofs ---------------------------
(***************************************************************************)
(* The per-student gate for any number of requests, closers and state      *)
(* objects: its invariant, and that it implements GateContract.            *)
(***************************************************************************)
EXTENDS LeaseGate, FiniteSetTheorems, TLAPS

\* Only the object in the map has waiters.
WaitersAreHere == \A o \in Objects \ {entry} : waiters[o] = {}

\* A closer that has yet to go on finds the gate it shut in the map: with somebody inside
\* while it waits, with nobody inside once it was woken.
ClosersShutTheGate ==
    \A c \in Closers :
        /\ closerPc[c] \in {"waiting", "woken"} => entry # None /\ closed[entry]
        /\ closerPc[c] = "waiting" => HoldersOf(entry) # {}
        /\ closerPc[c] = "woken" => HoldersOf(entry) = {}

\* The inductive invariant.
GateInvariant ==
    /\ TypeOK
    /\ LeasesAreCounted
    /\ WaitersAreHere
    /\ ClosersShutTheGate
    /\ NoIdleEntry

-----------------------------------------------------------------------------
\* The requests inside through one object are finitely many.
LEMMA HoldersFinite == \A o : IsFiniteSet(HoldersOf(o))
<1> TAKE o
<1>1. HoldersOf(o) \subseteq Requests
  BY DEF HoldersOf
<1> QED BY <1>1, RequestsFinite, FS_Subset

\* stateFor returns an object whose counter is right; no other object is in use.
LEMMA StateForCounts ==
    ASSUME GateInvariant, NEW o \in Objects, StateFor(o)
    PROVE  /\ LeasesOf(o) = Cardinality(HoldersOf(o))
           /\ LeasesOf(o) \in Nat
           /\ \A x \in Objects \ {o} : HoldersOf(x) = {} /\ waiters[x] = {}
           /\ entry = None => HoldersOf(o) = {} /\ waiters[o] = {}
<1>1. CASE entry = None
  <2>1. \A x \in Objects : x # entry
    BY <1>1, NoneIsNoObject
  <2>2. \A x \in Objects : HoldersOf(x) = {} /\ waiters[x] = {}
    BY <2>1 DEF GateInvariant, LeasesAreCounted, WaitersAreHere
  <2>3. Cardinality(HoldersOf(o)) = 0
    BY <2>2, FS_EmptySet
  <2>4. LeasesOf(o) = 0
    BY <1>1 DEF LeasesOf
  <2> QED BY <2>2, <2>3, <2>4
<1>2. CASE entry # None
  <2>1. o = entry
    BY <1>2 DEF StateFor
  <2>2. LeasesOf(o) = activeLeases[o]
    BY <1>2 DEF LeasesOf
  <2>3. activeLeases[o] = Cardinality(HoldersOf(o)) /\ activeLeases[o] \in Nat
    BY <1>2, <2>1 DEF GateInvariant, LeasesAreCounted, TypeOK
  <2>4. \A x \in Objects \ {o} : HoldersOf(x) = {} /\ waiters[x] = {}
    BY <2>1 DEF GateInvariant, LeasesAreCounted, WaitersAreHere
  <2> QED BY <1>2, <2>2, <2>3, <2>4
<1> QED BY <1>1, <1>2

-----------------------------------------------------------------------------
LEMMA GateInit == Init => GateInvariant
<1> SUFFICES ASSUME Init PROVE GateInvariant
  OBVIOUS
<1> USE DEF Init
<1>1. TypeOK
  BY DEF TypeOK, CloserStates
<1>2. \A o \in Objects : HoldersOf(o) = {}
  BY NoneIsNoObject DEF HoldersOf
<1>3. LeasesAreCounted
  BY <1>2 DEF LeasesAreCounted
<1>4. WaitersAreHere /\ ClosersShutTheGate /\ NoIdleEntry
  BY DEF WaitersAreHere, ClosersShutTheGate, NoIdleEntry
<1> QED BY <1>1, <1>3, <1>4 DEF GateInvariant

\* A request enters: it is counted on the object in the map, which is open, so that no
\* closer is on its way.
LEMMA GateAcquire ==
    ASSUME GateInvariant, NEW r \in Requests, Acquire(r)
    PROVE  GateInvariant'
<1>1. PICK o \in Objects :
        /\ StateFor(o)
        /\ ~IsClosed(o)
        /\ entry' = o
        /\ activeLeases' = [activeLeases EXCEPT ![o] = LeasesOf(o) + 1]
        /\ closed' = [closed EXCEPT ![o] = FALSE]
        /\ lease' = [lease EXCEPT ![r] = o]
  BY DEF Acquire
<1>2. lease[r] = None /\ waiters' = waiters /\ closerPc' = closerPc
  BY DEF Acquire
<1>3. TypeOK
  BY DEF GateInvariant
<1>4. /\ LeasesOf(o) = Cardinality(HoldersOf(o))
      /\ LeasesOf(o) \in Nat
      /\ \A x \in Objects \ {o} : HoldersOf(x) = {} /\ waiters[x] = {}
  BY <1>1, StateForCounts
<1>5. TypeOK'
  BY <1>1, <1>2, <1>3, <1>4 DEF TypeOK
<1>6. r \notin HoldersOf(o) /\ HoldersOf(o)' = HoldersOf(o) \cup {r}
  BY <1>1, <1>2, <1>3, NoneIsNoObject DEF HoldersOf, TypeOK
<1>7. \A x \in Objects \ {o} : HoldersOf(x)' = {}
  BY <1>1, <1>3, <1>4 DEF HoldersOf, TypeOK
<1>8. Cardinality(HoldersOf(o) \cup {r}) = Cardinality(HoldersOf(o)) + 1
  BY <1>6, HoldersFinite, FS_AddElement
<1>9. LeasesAreCounted'
  <2>1. activeLeases'[o] = LeasesOf(o) + 1
    BY <1>1, <1>3 DEF TypeOK
  <2> QED BY <1>1, <1>4, <1>6, <1>7, <1>8, <2>1 DEF LeasesAreCounted
<1>10. WaitersAreHere'
  BY <1>1, <1>2, <1>4 DEF WaitersAreHere
<1>11. \A c \in Closers : closerPc[c] \notin {"waiting", "woken"}
  BY <1>1 DEF GateInvariant, ClosersShutTheGate, StateFor, IsClosed
<1>12. ClosersShutTheGate'
  BY <1>2, <1>11 DEF ClosersShutTheGate
<1>13. NoIdleEntry'
  BY <1>1, <1>6 DEF NoIdleEntry
<1> QED BY <1>5, <1>9, <1>10, <1>12, <1>13 DEF GateInvariant

\* What a release finds: its object is the one in the map, and the counter is positive.
LEMMA ReleaseFinds ==
    ASSUME GateInvariant, NEW r \in Requests, lease[r] # None
    PROVE  /\ lease[r] \in Objects
           /\ entry = lease[r]
           /\ r \in HoldersOf(entry)
           /\ activeLeases[entry] \in Nat
           /\ activeLeases[entry] = Cardinality(HoldersOf(entry))
           /\ OneLess(activeLeases[entry]) = Cardinality(HoldersOf(entry) \ {r})
           /\ OneLess(activeLeases[entry]) \in Nat
<1>1. lease[r] \in Objects
  BY DEF GateInvariant, TypeOK
<1>2. r \in HoldersOf(lease[r])
  BY DEF HoldersOf
<1>3. entry = lease[r]
  BY <1>1, <1>2 DEF GateInvariant, LeasesAreCounted
<1>4. activeLeases[entry] \in Nat /\ activeLeases[entry] = Cardinality(HoldersOf(entry))
  BY <1>1, <1>3 DEF GateInvariant, TypeOK, LeasesAreCounted
<1>5. Cardinality(HoldersOf(entry) \ {r}) = Cardinality(HoldersOf(entry)) - 1
  BY <1>2, <1>3, HoldersFinite, FS_RemoveElement
<1>6. Cardinality(HoldersOf(entry) \ {r}) \in Nat
  BY HoldersFinite, FS_RemoveElement, FS_CardinalityType
<1>7. OneLess(activeLeases[entry]) = Cardinality(HoldersOf(entry) \ {r})
  BY <1>4, <1>5, <1>6 DEF OneLess
<1> QED BY <1>1, <1>2, <1>3, <1>4, <1>6, <1>7

\* A request leaves: the last one wakes every closer that waits, and drops an open object.
LEMMA GateRelease ==
    ASSUME GateInvariant, NEW r \in Requests, Release(r)
    PROVE  GateInvariant'
<1>0. PICK o \in Objects : o = lease[r]
  BY ReleaseFinds DEF Release
<1> DEFINE left == OneLess(activeLeases[o])
<1>1. /\ lease[r] # None
      /\ activeLeases' = [activeLeases EXCEPT ![o] = left]
      /\ waiters' = [waiters EXCEPT ![o] = WaitersLeft(o, left)]
      /\ closerPc' = [c \in Closers |-> IF c \in WokenBy(o, left) THEN "woken" ELSE closerPc[c]]
      /\ entry' = EntryAfterRelease(o, left)
      /\ lease' = [lease EXCEPT ![r] = None]
      /\ closed' = closed
  BY <1>0 DEF Release
<1>2. /\ lease[r] = o /\ entry = o /\ r \in HoldersOf(o)
      /\ left = Cardinality(HoldersOf(o) \ {r}) /\ left \in Nat
  BY <1>0, <1>1, ReleaseFinds
<1>3. TypeOK /\ WaitersAreHere /\ ClosersShutTheGate /\ LeasesAreCounted
  BY DEF GateInvariant
<1>4. HoldersOf(o)' = HoldersOf(o) \ {r}
  BY <1>1, <1>2, <1>3, NoneIsNoObject DEF HoldersOf, TypeOK
<1>5. \A x \in Objects \ {o} : HoldersOf(x)' = {}
  <2>1. \A x \in Objects \ {o} : HoldersOf(x) = {}
    BY <1>2, <1>3 DEF LeasesAreCounted
  <2> QED BY <1>1, <1>3, <2>1, NoneIsNoObject DEF HoldersOf, TypeOK
<1>6. left = 0 <=> HoldersOf(o)' = {}
  <2>1. IsFiniteSet(HoldersOf(o) \ {r})
    BY HoldersFinite, FS_RemoveElement
  <2>2. Cardinality(HoldersOf(o) \ {r}) = 0 <=> HoldersOf(o) \ {r} = {}
    BY <2>1, FS_EmptySet
  <2> QED BY <1>2, <1>4, <2>2
<1>7. \A c \in Closers : closerPc[c] = "waiting" <=> c \in waiters[o]
  BY <1>2, <1>3 DEF TypeOK, WaitersAreHere
<1> HIDE DEF left
<1>8. CASE left = 0
  <2>1. WokenBy(o, left) = waiters[o] /\ WaitersLeft(o, left) = {}
    BY <1>8 DEF WokenBy, WaitersLeft
  <2>2. \A x \in Objects : waiters'[x] = {}
    BY <1>1, <1>2, <1>3, <2>1 DEF TypeOK, WaitersAreHere
  <2>3. \A c \in Closers : closerPc'[c] = IF closerPc[c] = "waiting" THEN "woken" ELSE closerPc[c]
    BY <1>1, <1>7, <2>1
  <2>4. entry' = IF closed[o] THEN o ELSE None
    BY <1>1, <1>2, <1>8 DEF EntryAfterRelease
  <2>5. TypeOK'
    <3>1. closerPc' \in [Closers -> CloserStates]
      BY <1>1, <1>3 DEF TypeOK, CloserStates
    <3>2. \A c \in Closers : closerPc'[c] # "waiting"
      BY <2>3
    <3>3. \A c \in Closers : closerPc'[c] = "waiting" <=> \E x \in Objects : c \in waiters'[x]
      BY <2>2, <3>2
    <3>4. waiters' \in [Objects -> SUBSET Closers]
      BY <1>1, <1>2, <1>3, <2>1 DEF TypeOK
    <3>5. entry' \in Objects \cup {None} /\ closed' \in [Objects -> BOOLEAN]
      BY <1>1, <1>2, <1>3, <2>4 DEF TypeOK
    <3>6. activeLeases' \in [Objects -> Nat] /\ lease' \in [Requests -> Objects \cup {None}]
      BY <1>1, <1>2, <1>3 DEF TypeOK
    <3> QED BY <3>1, <3>3, <3>4, <3>5, <3>6 DEF TypeOK
  <2>6. \A x \in Objects : HoldersOf(x)' = {}
    BY <1>5, <1>6, <1>8
  <2>7. LeasesAreCounted'
    <3>1. entry' # None => entry' = o /\ activeLeases'[o] = 0
      BY <1>1, <1>2, <1>3, <1>8, <2>4 DEF TypeOK
    <3>2. entry' # None => Cardinality(HoldersOf(entry)') = 0
      BY <1>2, <2>6, <3>1, FS_EmptySet
    <3>3. HoldersOf(entry)' = {x \in Requests : lease'[x] = entry'}
      BY DEF HoldersOf
    <3> QED BY <2>6, <3>1, <3>2, <3>3 DEF LeasesAreCounted
  <2>8. WaitersAreHere'
    BY <2>2 DEF WaitersAreHere
  <2>9. ClosersShutTheGate'
    <3> SUFFICES ASSUME NEW c \in Closers, closerPc'[c] = "woken"
                 PROVE  entry' # None /\ closed'[entry'] /\ HoldersOf(entry)' = {}
      BY <2>3 DEF ClosersShutTheGate
    <3>1. closed[o]
      BY <1>2, <1>3, <2>3 DEF ClosersShutTheGate
    <3>2. entry' = o
      BY <2>4, <3>1
    <3> QED BY <1>1, <1>2, <2>6, <3>1, <3>2, NoneIsNoObject
  <2>10. NoIdleEntry'
    BY <1>1, <2>4 DEF NoIdleEntry
  <2> QED BY <2>5, <2>7, <2>8, <2>9, <2>10 DEF GateInvariant
<1>9. CASE left # 0
  <2>1. WokenBy(o, left) = {} /\ WaitersLeft(o, left) = waiters[o]
    BY <1>9 DEF WokenBy, WaitersLeft
  <2>2. waiters' = waiters /\ closerPc' = closerPc
    BY <1>1, <1>2, <1>3, <2>1 DEF TypeOK
  <2>3. entry' = entry
    BY <1>1, <1>9 DEF EntryAfterRelease
  <2>4. TypeOK'
    BY <1>1, <1>2, <1>3, <2>2, <2>3 DEF TypeOK
  <2>5. HoldersOf(entry)' # {}
    BY <1>2, <1>6, <1>9, <2>3 DEF HoldersOf
  <2>6. LeasesAreCounted'
    <3>1. activeLeases'[o] = left
      BY <1>1, <1>2, <1>3 DEF TypeOK
    <3>2. HoldersOf(entry)' = HoldersOf(o)'
      BY <1>2, <2>3 DEF HoldersOf
    <3> QED BY <1>2, <1>4, <1>5, <2>3, <3>1, <3>2 DEF LeasesAreCounted
  <2>7. WaitersAreHere'
    BY <1>3, <2>2, <2>3 DEF WaitersAreHere
  <2>8. \A c \in Closers : closerPc[c] # "woken"
    BY <1>2, <1>3 DEF ClosersShutTheGate
  <2>9. ClosersShutTheGate'
    BY <1>1, <1>3, <2>2, <2>3, <2>5, <2>8 DEF ClosersShutTheGate
  <2>10. NoIdleEntry'
    BY <2>5 DEF NoIdleEntry
  <2> QED BY <2>4, <2>6, <2>7, <2>9, <2>10 DEF GateInvariant
<1> QED BY <1>8, <1>9

\* A closer shuts the gate, and waits if somebody is inside.
LEMMA GateClose ==
    ASSUME GateInvariant, NEW c \in Closers, CloseAndWait(c)
    PROVE  GateInvariant'
<1>1. PICK o \in Objects :
        /\ StateFor(o)
        /\ entry' = o
        /\ closed' = [closed EXCEPT ![o] = TRUE]
        /\ activeLeases' = [activeLeases EXCEPT ![o] = LeasesOf(o)]
        /\ IF LeasesOf(o) = 0
           THEN /\ closerPc' = [closerPc EXCEPT ![c] = "woken"]
                /\ waiters' = waiters
           ELSE /\ closerPc' = [closerPc EXCEPT ![c] = "waiting"]
                /\ waiters' = [waiters EXCEPT ![o] = @ \cup {c}]
  BY DEF CloseAndWait
<1>2. closerPc[c] = "idle" /\ lease' = lease
  BY DEF CloseAndWait
<1>3. TypeOK /\ ClosersShutTheGate /\ WaitersAreHere
  BY DEF GateInvariant
<1>4. /\ LeasesOf(o) = Cardinality(HoldersOf(o))
      /\ LeasesOf(o) \in Nat
      /\ \A x \in Objects \ {o} : HoldersOf(x) = {} /\ waiters[x] = {}
      /\ entry = None => HoldersOf(o) = {} /\ waiters[o] = {}
  BY <1>1, StateForCounts
<1>5. entry # None => o = entry
  BY <1>1 DEF StateFor
<1>6. \A x : HoldersOf(x)' = HoldersOf(x)
  BY <1>2 DEF HoldersOf
<1>7. HoldersOf(entry)' = HoldersOf(o)
  BY <1>1, <1>2 DEF HoldersOf
<1>8. LeasesOf(o) = 0 <=> HoldersOf(o) = {}
  BY <1>4, HoldersFinite, FS_EmptySet
<1>9. TypeOK'
  <2>1. /\ entry' \in Objects \cup {None}
        /\ activeLeases' \in [Objects -> Nat]
        /\ closed' \in [Objects -> BOOLEAN]
        /\ waiters' \in [Objects -> SUBSET Closers]
        /\ lease' \in [Requests -> Objects \cup {None}]
        /\ closerPc' \in [Closers -> CloserStates]
    BY <1>1, <1>2, <1>3, <1>4 DEF TypeOK, CloserStates
  <2>2. \A k \in Closers : closerPc'[k] = "waiting" <=> \E x \in Objects : k \in waiters'[x]
    <3>1. CASE LeasesOf(o) = 0
      BY <1>1, <1>2, <1>3, <3>1 DEF TypeOK
    <3>2. CASE LeasesOf(o) # 0
      BY <1>1, <1>2, <1>3, <3>2 DEF TypeOK
    <3> QED BY <3>1, <3>2
  <2> QED BY <2>1, <2>2 DEF TypeOK
<1>10. LeasesAreCounted'
  <2>1. activeLeases'[o] = LeasesOf(o)
    BY <1>1, <1>3 DEF TypeOK
  <2> QED BY <1>1, <1>4, <1>6, <1>7, <2>1 DEF LeasesAreCounted
<1>11. WaitersAreHere'
  <2>1. \A x \in Objects \ {o} : waiters'[x] = waiters[x]
    BY <1>1, <1>3 DEF TypeOK
  <2> QED BY <1>1, <1>4, <2>1 DEF WaitersAreHere
<1>12. ClosersShutTheGate'
  <2> SUFFICES ASSUME NEW k \in Closers
               PROVE  /\ closerPc'[k] \in {"waiting", "woken"} => entry' # None /\ closed'[entry']
                      /\ closerPc'[k] = "waiting" => HoldersOf(entry)' # {}
                      /\ closerPc'[k] = "woken" => HoldersOf(entry)' = {}
    BY DEF ClosersShutTheGate
  <2>1. entry' # None /\ closed'[entry']
    BY <1>1, <1>3, NoneIsNoObject DEF TypeOK
  <2>2. closerPc'[k] = IF k = c THEN IF LeasesOf(o) = 0 THEN "woken" ELSE "waiting" ELSE closerPc[k]
    BY <1>1, <1>3 DEF TypeOK
  <2>3. CASE k = c
    BY <1>7, <1>8, <2>1, <2>2, <2>3
  <2>4. CASE k # c
    BY <1>3, <1>5, <1>7, <2>1, <2>2, <2>4 DEF ClosersShutTheGate
  <2> QED BY <2>3, <2>4
<1>13. NoIdleEntry'
  BY <1>1, <1>3 DEF NoIdleEntry, TypeOK
<1> QED BY <1>9, <1>10, <1>11, <1>12, <1>13 DEF GateInvariant

\* A woken closer goes on.
LEMMA GateContinue ==
    ASSUME GateInvariant, NEW c \in Closers, Continue(c)
    PROVE  GateInvariant'
<1>1. /\ closerPc[c] = "woken"
      /\ closerPc' = [closerPc EXCEPT ![c] = "through"]
      /\ UNCHANGED <<entry, activeLeases, closed, waiters, lease>>
  BY DEF Continue
<1>2. \A x : HoldersOf(x)' = HoldersOf(x)
  BY <1>1 DEF HoldersOf
<1>3. HoldersOf(entry)' = HoldersOf(entry)
  BY <1>1 DEF HoldersOf
<1>4. TypeOK'
  BY <1>1 DEF GateInvariant, TypeOK, CloserStates
<1>5. LeasesAreCounted' /\ WaitersAreHere' /\ NoIdleEntry'
  BY <1>1, <1>2, <1>3 DEF GateInvariant, LeasesAreCounted, WaitersAreHere, NoIdleEntry
<1>6. \A k \in Closers : closerPc'[k] \in {"waiting", "woken"} => closerPc'[k] = closerPc[k]
  BY <1>1 DEF GateInvariant, TypeOK
<1>7. ClosersShutTheGate'
  BY <1>1, <1>3, <1>6 DEF GateInvariant, ClosersShutTheGate
<1> QED BY <1>4, <1>5, <1>7 DEF GateInvariant

\* The gate is opened when no closer is on its way.
LEMMA GateReopen ==
    ASSUME GateInvariant, Reopen
    PROVE  GateInvariant'
<1>1. PICK o \in Objects : o = entry
  BY DEF Reopen, GateInvariant, TypeOK
<1>2. /\ NoCloserPending
      /\ closed' = [closed EXCEPT ![o] = FALSE]
      /\ entry' = IF activeLeases[o] = 0 THEN None ELSE o
      /\ closerPc' = [c \in Closers |-> "idle"]
      /\ activeLeases' = activeLeases /\ waiters' = waiters /\ lease' = lease
  BY <1>1 DEF Reopen
<1>3. \A x : HoldersOf(x)' = HoldersOf(x)
  BY <1>2 DEF HoldersOf
<1>4. activeLeases[o] = 0 <=> HoldersOf(o) = {}
  BY <1>1, NoneIsNoObject, HoldersFinite, FS_EmptySet DEF GateInvariant, LeasesAreCounted
<1>5. \A x \in Objects : waiters[x] = {}
  BY <1>2 DEF GateInvariant, TypeOK, NoCloserPending
<1>6. TypeOK'
  BY <1>1, <1>2, <1>5 DEF GateInvariant, TypeOK, CloserStates
<1>7. \A x \in Objects \ {o} : HoldersOf(x) = {}
  BY <1>1 DEF GateInvariant, LeasesAreCounted
<1>8. CASE activeLeases[o] = 0
  <2>1. entry' = None /\ \A x \in Objects : HoldersOf(x)' = {}
    BY <1>2, <1>3, <1>4, <1>7, <1>8
  <2> QED BY <1>2, <1>5, <1>6, <2>1 DEF GateInvariant, LeasesAreCounted, WaitersAreHere,
            ClosersShutTheGate, NoIdleEntry
<1>9. CASE activeLeases[o] # 0
  <2>1. entry' = o /\ HoldersOf(entry)' = HoldersOf(o)
    BY <1>2, <1>9 DEF HoldersOf
  <2>2. LeasesAreCounted'
    BY <1>1, <1>2, <1>3, <1>7, <2>1, NoneIsNoObject DEF GateInvariant, LeasesAreCounted
  <2>3. NoIdleEntry'
    BY <1>4, <1>9, <2>1 DEF NoIdleEntry
  <2>4. WaitersAreHere' /\ ClosersShutTheGate'
    BY <1>2, <1>5 DEF WaitersAreHere, ClosersShutTheGate
  <2> QED BY <1>6, <2>2, <2>3, <2>4 DEF GateInvariant
<1> QED BY <1>8, <1>9

LEMMA GateNext == GateInvariant /\ [Next]_vars => GateInvariant'
<1> SUFFICES ASSUME GateInvariant, [Next]_vars PROVE GateInvariant'
  OBVIOUS
<1>1. ASSUME NEW r \in Requests, Acquire(r) \/ Release(r) PROVE GateInvariant'
  BY <1>1, GateAcquire, GateRelease
<1>2. ASSUME NEW c \in Closers, CloseAndWait(c) \/ Continue(c) PROVE GateInvariant'
  BY <1>2, GateClose, GateContinue
<1>3. CASE Reopen
  BY <1>3, GateReopen
<1>4. CASE UNCHANGED vars
  BY <1>4 DEF vars, GateInvariant, TypeOK, LeasesAreCounted, WaitersAreHere,
              ClosersShutTheGate, NoIdleEntry, HoldersOf
<1> QED BY <1>1, <1>2, <1>3, <1>4 DEF Next

\* The leases are counted on the object that the map holds, the closers that are on their
\* way shut it, and it is there for a reason (acquire, release and close of both barriers).
THEOREM GateIsInvariant == Spec => []GateInvariant
<1> QED BY GateInit, GateNext, PTL DEF Spec

\* Every live release closure is counted on the object in the map: no request is invisible
\* to a closer (the identity test when an object is dropped).
THEOREM LeasesStayCounted == Spec => []LeasesAreCounted
<1>1. GateInvariant => LeasesAreCounted
  BY DEF GateInvariant
<1> QED BY <1>1, GateIsInvariant, PTL

\* A closer never waits on an object whose last lease is gone (registration against the
\* resolution of the promises).
THEOREM NoWakeupIsLost == Spec => []NoLostWakeup
<1>1. GateInvariant => NoLostWakeup
  <2> SUFFICES ASSUME GateInvariant, NEW c \in Closers, closerPc[c] = "waiting"
               PROVE  entry # None /\ c \in waiters[entry] /\ HoldersOf(entry) # {}
    BY DEF NoLostWakeup
  <2>1. PICK o \in Objects : c \in waiters[o]
    BY DEF GateInvariant, TypeOK
  <2>2. o = entry
    BY <2>1 DEF GateInvariant, WaitersAreHere
  <2> QED BY <2>1, <2>2, NoneIsNoObject DEF GateInvariant, ClosersShutTheGate
<1> QED BY <1>1, GateIsInvariant, PTL

\* The map keeps no entry that is open and unused.
THEOREM NoEntryIsIdle == Spec => []NoIdleEntry
<1>1. GateInvariant => NoIdleEntry
  BY DEF GateInvariant
<1> QED BY <1>1, GateIsInvariant, PTL

-----------------------------------------------------------------------------
(* The refinement.                                                         *)

LEMMA ContractInit == Init => Contract!Init
<1> SUFFICES ASSUME Init PROVE Contract!Init
  OBVIOUS
<1> QED BY DEF Init, Contract!Init

\* Entering and leaving.
LEMMA ContractRequests ==
    ASSUME GateInvariant, NEW r \in Requests, Acquire(r) \/ Release(r)
    PROVE  Contract!Next
<1>0. TypeOK
  BY DEF GateInvariant
<1>1. CASE Acquire(r)
  <2>1. PICK o \in Objects :
          /\ StateFor(o)
          /\ ~IsClosed(o)
          /\ entry' = o
          /\ closed' = [closed EXCEPT ![o] = FALSE]
          /\ lease' = [lease EXCEPT ![r] = o]
    BY <1>1 DEF Acquire
  <2>2. lease[r] = None /\ closerPc' = closerPc
    BY <1>1 DEF Acquire
  <2>3. entry = None \/ ~closed[entry]
    BY <2>1 DEF StateFor, IsClosed
  <2>4. entry' = None \/ ~closed'[entry']
    BY <2>1, <1>0 DEF TypeOK
  <2>5. {x \in Requests : lease'[x] # None} = {x \in Requests : lease[x] # None} \cup {r}
    BY <2>1, <1>0, NoneIsNoObject DEF TypeOK
  <2>6. Contract!Enter(r)
    BY <2>2, <2>3, <2>4, <2>5 DEF Contract!Enter
  <2> QED BY <2>6 DEF Contract!Next
<1>2. CASE Release(r)
  <2>1. PICK o \in Objects : o = lease[r]
    BY <1>2, ReleaseFinds DEF Release
  <2>2. lease[r] # None /\ entry = o
    BY <1>2, <2>1, ReleaseFinds DEF Release
  <2> DEFINE left == OneLess(activeLeases[o])
  <2>3. /\ closerPc' = [c \in Closers |-> IF c \in WokenBy(o, left) THEN "woken" ELSE closerPc[c]]
        /\ entry' = EntryAfterRelease(o, left)
        /\ lease' = [lease EXCEPT ![r] = None]
        /\ closed' = closed
    BY <1>2, <2>1 DEF Release
  <2> HIDE DEF left
  <2>4. (entry' = None \/ ~closed'[entry']) = (entry = None \/ ~closed[entry])
    BY <2>2, <2>3, NoneIsNoObject DEF EntryAfterRelease
  <2>5. {x \in Requests : lease'[x] # None} = {x \in Requests : lease[x] # None} \ {r}
    BY <2>3, <1>0 DEF TypeOK
  <2>6. \A c \in Closers : c \in WokenBy(o, left) => closerPc[c] = "waiting"
    BY <1>0 DEF WokenBy, TypeOK
  <2>7. /\ {c \in Closers : closerPc'[c] \in {"waiting", "woken"}}
             = {c \in Closers : closerPc[c] \in {"waiting", "woken"}}
        /\ {c \in Closers : closerPc'[c] = "through"} = {c \in Closers : closerPc[c] = "through"}
    BY <2>3, <2>6
  <2>8. Contract!Leave(r)
    BY <2>2, <2>4, <2>5, <2>7 DEF Contract!Leave
  <2> QED BY <2>8 DEF Contract!Next
<1> QED BY <1>1, <1>2

\* Shutting the gate and going on.
LEMMA ContractClosers ==
    ASSUME GateInvariant, NEW c \in Closers, CloseAndWait(c) \/ Continue(c)
    PROVE  Contract!Next
<1>0. TypeOK
  BY DEF GateInvariant
<1>1. CASE CloseAndWait(c)
  <2>1. PICK o \in Objects :
          /\ entry' = o
          /\ closed' = [closed EXCEPT ![o] = TRUE]
          /\ \/ closerPc' = [closerPc EXCEPT ![c] = "woken"]
             \/ closerPc' = [closerPc EXCEPT ![c] = "waiting"]
    BY <1>1 DEF CloseAndWait
  <2>2. closerPc[c] = "idle" /\ lease' = lease
    BY <1>1 DEF CloseAndWait
  <2>3. ~(entry' = None \/ ~closed'[entry'])
    BY <2>1, <1>0, NoneIsNoObject DEF TypeOK
  <2>4. /\ {k \in Closers : closerPc'[k] \in {"waiting", "woken"}}
             = {k \in Closers : closerPc[k] \in {"waiting", "woken"}} \cup {c}
        /\ {k \in Closers : closerPc'[k] = "through"} = {k \in Closers : closerPc[k] = "through"}
    BY <2>1, <2>2, <1>0 DEF TypeOK
  <2>5. Contract!Shut(c)
    BY <2>2, <2>3, <2>4 DEF Contract!Shut
  <2> QED BY <2>5 DEF Contract!Next
<1>2. CASE Continue(c)
  <2>1. /\ closerPc[c] = "woken"
        /\ closerPc' = [closerPc EXCEPT ![c] = "through"]
        /\ UNCHANGED <<entry, closed, lease>>
    BY <1>2 DEF Continue
  <2>2. ~(entry = None \/ ~closed[entry]) /\ HoldersOf(entry) = {}
    BY <2>1 DEF GateInvariant, ClosersShutTheGate
  <2>3. \A x \in Objects : HoldersOf(x) = {}
    BY <2>2 DEF GateInvariant, LeasesAreCounted
  <2>4. {r \in Requests : lease[r] # None} = {}
    BY <2>3, <1>0 DEF HoldersOf, TypeOK
  <2>5. /\ {k \in Closers : closerPc'[k] \in {"waiting", "woken"}}
             = {k \in Closers : closerPc[k] \in {"waiting", "woken"}} \ {c}
        /\ {k \in Closers : closerPc'[k] = "through"}
             = {k \in Closers : closerPc[k] = "through"} \cup {c}
    BY <2>1, <1>0 DEF TypeOK
  <2>6. Contract!Pass(c)
    BY <2>1, <2>2, <2>4, <2>5 DEF Contract!Pass
  <2> QED BY <2>6 DEF Contract!Next
<1> QED BY <1>1, <1>2

\* Opening it again.
LEMMA ContractReopen ==
    ASSUME GateInvariant, Reopen
    PROVE  Contract!Next
<1>1. /\ \A c \in Closers : closerPc[c] \notin {"waiting", "woken"}
      /\ entry # None
      /\ closed' = [closed EXCEPT ![entry] = FALSE]
      /\ entry' = None \/ entry' = entry
      /\ closerPc' = [c \in Closers |-> "idle"]
      /\ lease' = lease
  BY DEF Reopen, NoCloserPending
<1>2. entry' = None \/ ~closed'[entry']
  BY <1>1 DEF GateInvariant, TypeOK
<1>3. /\ {c \in Closers : closerPc[c] \in {"waiting", "woken"}} = {}
      /\ {c \in Closers : closerPc'[c] \in {"waiting", "woken"}} = {}
      /\ {c \in Closers : closerPc'[c] = "through"} = {}
  BY <1>1
<1>4. Contract!Open
  BY <1>1, <1>2, <1>3 DEF Contract!Open
<1> QED BY <1>4 DEF Contract!Next

\* Both barriers implement the gate the handlers rely on: in particular a closer goes on
\* only while no request that entered before it shut the gate is still inside.
THEOREM GateImplementsContract == Spec => ImplementsContract
<1>1. GateInvariant /\ [Next]_vars => [Contract!Next]_(Contract!vars)
  <2> SUFFICES ASSUME GateInvariant, [Next]_vars
               PROVE  Contract!Next \/ UNCHANGED Contract!vars
    OBVIOUS
  <2>1. ASSUME NEW r \in Requests, Acquire(r) \/ Release(r) PROVE Contract!Next
    BY <2>1, ContractRequests
  <2>2. ASSUME NEW c \in Closers, CloseAndWait(c) \/ Continue(c) PROVE Contract!Next
    BY <2>2, ContractClosers
  <2>3. CASE Reopen
    BY <2>3, ContractReopen
  <2>4. CASE UNCHANGED vars
    BY <2>4 DEF vars, Contract!vars
  <2> QED BY <2>1, <2>2, <2>3, <2>4 DEF Next
<1> QED BY <1>1, ContractInit, GateIsInvariant, PTL DEF Spec, ImplementsContract, Contract!Spec
=============================================================================
