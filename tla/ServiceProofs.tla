---------------------------- MODULE ServiceProofs -----------------------------
(***************************************************************************)
(* Three small parts of the system that share neither state nor calls.     *)
(*                                                                         *)
(* The payload budget for any number of uploads, callers and any limits:   *)
(* the counters of the guard are always the uploads that hold a slot.      *)
(*                                                                         *)
(* Pond races for any number of rooms, seats and windows, and any limits:  *)
(* fair races, and event streams that are never behind their room.         *)
(*                                                                         *)
(* Releases for any number of deployments, rollbacks and revisions: what a *)
(* script reports of the host is so.                                       *)
(***************************************************************************)
EXTENDS ProjectPayload, PondRooms, NativeRelease, FiniteSetTheorems, TLAPS

(* Uploads.                                                                *)

Steps == {"coming", "parsing", "parsed", "routed", "handler", "answered", "stopped"}
Held == {"available", "claimed", "owned"}
Requests == [at : Steps, identity : Callers \cup {NewUpload.identity}, kind : Kinds,
             reservation : Held \cup {"none", "released"}, closed : BOOLEAN, told : BOOLEAN]

PayloadTypes ==
    /\ upload \in [Uploads -> Requests]
    /\ total \in [Kinds -> Nat]
    /\ taken \in [Callers -> [Kinds -> Nat]]

\* Where a request is and what its reservation is agree; a slot belongs to a known caller; the
\* listeners are called once the transport is closed, and leave a slot to a handler only.
Agree(r) ==
    /\ r.at = "handler" <=> r.reservation = "owned"
    /\ r.at = "coming" => r.reservation = "none"
    /\ r.reservation \in Held => r.identity \in Callers
    /\ r.told => r.closed /\ r.reservation \notin {"available", "claimed"}
StepsAgree == \A u \in Uploads : Agree(upload[u])

Counted == \A k \in Kinds :
    /\ total[k] = Cardinality(HoldingKind(k))
    /\ \A i \in Callers : taken[i][k] = Cardinality(HoldingOf(i, k))

\* Normal uploads stay within their own limit also when a heavy one counts them in: when the
\* heavy one goes, that limit is what is left.
WithinLimits ==
    /\ total["heavy"] <= HeavyLimit /\ total["normal"] <= NormalLimit
    /\ \A i \in Callers :
          /\ taken[i]["normal"] <= NormalEach
          /\ taken[i]["heavy"] > 0 => taken[i]["heavy"] + taken[i]["normal"] <= HeavyEach

PayloadInvariant == PayloadTypes /\ StepsAgree /\ Counted /\ WithinLimits

-----------------------------------------------------------------------------
\* The uploads are finitely many, and so are those that hold a slot.
LEMMA HoldersFinite ==
    /\ \A k : IsFiniteSet(HoldingKind(k))
    /\ \A i, k : IsFiniteSet(HoldingOf(i, k))
<1>1. \A k : HoldingKind(k) \subseteq Uploads
  BY DEF HoldingKind, Holding
<1>2. \A i, k : HoldingOf(i, k) \subseteq Uploads
  BY <1>1 DEF HoldingOf
<1> QED BY <1>1, <1>2, PayloadAssumption, FS_Subset

\* A step that neither takes nor gives back a slot leaves the counts right.
LEMMA CountsKept ==
    ASSUME Counted, UNCHANGED <<total, taken>>,
           \A v \in Uploads :
              /\ upload'[v].reservation \in Held <=> upload[v].reservation \in Held
              /\ upload'[v].kind = upload[v].kind
              /\ upload'[v].identity = upload[v].identity
    PROVE  Counted'
<1>1. \A k : HoldingKind(k)' = HoldingKind(k)
  BY DEF HoldingKind, Holding, Held
<1>2. \A i, k : HoldingOf(i, k)' = HoldingOf(i, k)
  BY <1>1 DEF HoldingOf, HoldingKind, Holding
<1> QED BY <1>1, <1>2 DEF Counted

\* A step of u that takes a slot of kind k for caller i.
LEMMA CountsTaken ==
    ASSUME PayloadTypes, Counted, NEW u \in Uploads, NEW i \in Callers, NEW k \in Kinds,
           upload[u].reservation \notin Held,
           upload'[u].reservation \in Held, upload'[u].kind = k, upload'[u].identity = i,
           \A v \in Uploads \ {u} : upload'[v] = upload[v],
           total' = [total EXCEPT ![k] = @ + 1],
           taken' = [taken EXCEPT ![i][k] = @ + 1]
    PROVE  Counted'
<1> SUFFICES ASSUME NEW j \in Kinds
             PROVE  /\ total'[j] = Cardinality(HoldingKind(j)')
                    /\ \A c \in Callers : taken'[c][j] = Cardinality(HoldingOf(c, j)')
  BY DEF Counted
<1>1. u \notin HoldingKind(j) /\ \A c : u \notin HoldingOf(c, j)
  BY DEF HoldingKind, HoldingOf, Holding, Held
<1>2. CASE j = k
  <2>1. HoldingKind(j)' = HoldingKind(j) \cup {u}
    BY <1>2 DEF HoldingKind, Holding, Held
  <2>2. total'[j] = total[j] + 1
    BY <1>2 DEF PayloadTypes
  <2>3. total'[j] = Cardinality(HoldingKind(j)')
    BY <1>1, <2>1, <2>2, HoldersFinite, FS_AddElement DEF Counted
  <2>4. ASSUME NEW c \in Callers PROVE taken'[c][j] = Cardinality(HoldingOf(c, j)')
    <3>1. CASE c = i
      <4>1. HoldingOf(c, j)' = HoldingOf(c, j) \cup {u}
        BY <1>2, <3>1, <2>1 DEF HoldingOf, HoldingKind, Holding
      <4>2. taken'[c][j] = taken[c][j] + 1
        BY <1>2, <3>1 DEF PayloadTypes
      <4> QED BY <1>1, <4>1, <4>2, HoldersFinite, FS_AddElement DEF Counted
    <3>2. CASE c # i
      <4>1. HoldingOf(c, j)' = HoldingOf(c, j)
        BY <1>2, <3>2, <2>1, <1>1 DEF HoldingOf, HoldingKind, Holding
      <4>2. taken'[c][j] = taken[c][j]
        BY <3>2 DEF PayloadTypes
      <4> QED BY <4>1, <4>2 DEF Counted
    <3> QED BY <3>1, <3>2
  <2> QED BY <2>3, <2>4
<1>3. CASE j # k
  <2>1. HoldingKind(j)' = HoldingKind(j)
    BY <1>3 DEF HoldingKind, Holding, Held
  <2>2. \A c : HoldingOf(c, j)' = HoldingOf(c, j)
    BY <2>1, <1>3 DEF HoldingOf, HoldingKind, Holding
  <2>3. total'[j] = total[j] /\ \A c \in Callers : taken'[c][j] = taken[c][j]
    BY <1>3 DEF PayloadTypes
  <2> QED BY <2>1, <2>2, <2>3 DEF Counted
<1> QED BY <1>2, <1>3

\* A step of u that gives its slot back.
LEMMA CountsGiven ==
    ASSUME PayloadTypes, Counted, NEW u \in Uploads,
           upload[u].reservation \in Held, upload[u].identity \in Callers,
           upload'[u].reservation \notin Held,
           \A v \in Uploads \ {u} : upload'[v] = upload[v],
           ReleaseSlot(u)
    PROVE  /\ Counted'
           /\ total[upload[u].kind] > 0 /\ taken[upload[u].identity][upload[u].kind] > 0
<1> DEFINE k == upload[u].kind
           i == upload[u].identity
<1>0. k \in Kinds
  BY DEF PayloadTypes, Requests
<1>1. total' = [total EXCEPT ![k] = @ - 1] /\ taken' = [taken EXCEPT ![i][k] = @ - 1]
  BY DEF ReleaseSlot
<1>2. u \in HoldingKind(k) /\ u \in HoldingOf(i, k)
  BY DEF HoldingKind, HoldingOf, Holding, Held
<1>3. total[k] > 0 /\ taken[i][k] > 0
  <2>1. Cardinality(HoldingKind(k)) # 0 /\ Cardinality(HoldingOf(i, k)) # 0
    BY <1>2, HoldersFinite, FS_EmptySet
  <2>2. total[k] \in Nat /\ taken[i][k] \in Nat
    BY <1>0 DEF PayloadTypes
  <2>3. total[k] = Cardinality(HoldingKind(k)) /\ taken[i][k] = Cardinality(HoldingOf(i, k))
    BY <1>0 DEF Counted
  <2> QED BY <2>1, <2>2, <2>3
<1>4. ASSUME NEW j \in Kinds
      PROVE  /\ total'[j] = Cardinality(HoldingKind(j)')
             /\ \A c \in Callers : taken'[c][j] = Cardinality(HoldingOf(c, j)')
  <2>1. CASE j = k
    <3>1. HoldingKind(j)' = HoldingKind(j) \ {u}
      BY <2>1 DEF HoldingKind, Holding, Held
    <3>2. total'[j] = total[j] - 1
      BY <2>1, <1>0, <1>1 DEF PayloadTypes
    <3>3. total'[j] = Cardinality(HoldingKind(j)')
      BY <1>2, <2>1, <3>1, <3>2, HoldersFinite, FS_RemoveElement DEF Counted
    <3>4. ASSUME NEW c \in Callers PROVE taken'[c][j] = Cardinality(HoldingOf(c, j)')
      <4>1. CASE c = i
        <5>1. HoldingOf(c, j)' = HoldingOf(c, j) \ {u}
          BY <2>1, <3>1, <4>1 DEF HoldingOf, HoldingKind, Holding
        <5>2. taken'[c][j] = taken[c][j] - 1
          BY <2>1, <4>1, <1>0, <1>1 DEF PayloadTypes
        <5>3. u \in HoldingOf(c, j)
          BY <1>2, <2>1, <4>1
        <5> QED BY <5>1, <5>2, <5>3, HoldersFinite, FS_RemoveElement DEF Counted
      <4>2. CASE c # i
        <5>1. u \notin HoldingOf(c, j)
          BY <4>2 DEF HoldingOf
        <5>2. HoldingOf(c, j)' = HoldingOf(c, j)
          BY <2>1, <3>1, <5>1 DEF HoldingOf, HoldingKind, Holding
        <5>3. taken'[c][j] = taken[c][j]
          BY <4>2, <1>1 DEF PayloadTypes
        <5> QED BY <5>2, <5>3 DEF Counted
      <4> QED BY <4>1, <4>2
    <3> QED BY <3>3, <3>4
  <2>2. CASE j # k
    <3>1. u \notin HoldingKind(j)
      BY <2>2 DEF HoldingKind
    <3>2. HoldingKind(j)' = HoldingKind(j)
      BY <3>1 DEF HoldingKind, Holding, Held
    <3>3. \A c : HoldingOf(c, j)' = HoldingOf(c, j)
      BY <3>2, <3>1 DEF HoldingOf, HoldingKind, Holding
    <3>4. total'[j] = total[j] /\ \A c \in Callers : taken'[c][j] = taken[c][j]
      BY <2>2, <1>1 DEF PayloadTypes
    <3> QED BY <3>2, <3>3, <3>4 DEF Counted
  <2> QED BY <2>1, <2>2
<1> QED BY <1>3, <1>4 DEF Counted

-----------------------------------------------------------------------------
LEMMA PayloadStarts == PayloadInit => PayloadInvariant
<1> SUFFICES ASSUME PayloadInit PROVE PayloadInvariant
  OBVIOUS
<1>1. PayloadTypes
  BY DEF PayloadInit, PayloadTypes, Requests, NewUpload, Steps, Kinds, NoSlots
<1>2. StepsAgree
  BY DEF PayloadInit, StepsAgree, Agree, NewUpload, Held
<1>3. \A k : HoldingKind(k) = {} /\ \A i : HoldingOf(i, k) = {}
  BY DEF PayloadInit, HoldingKind, HoldingOf, Holding, NewUpload
<1>4. Counted
  BY <1>3, FS_EmptySet DEF PayloadInit, Counted, NoSlots
<1>5. WithinLimits
  BY PayloadAssumption DEF PayloadInit, WithinLimits, NoSlots, Kinds
<1> QED BY <1>1, <1>2, <1>4, <1>5 DEF PayloadInvariant

\* The limits outlast a slot that is given back.
LEMMA LimitsOutlast ==
    ASSUME PayloadTypes, WithinLimits, NEW i \in Callers, NEW k \in Kinds,
           total[k] > 0, taken[i][k] > 0,
           total' = [total EXCEPT ![k] = @ - 1],
           taken' = [taken EXCEPT ![i][k] = @ - 1]
    PROVE  /\ WithinLimits'
           /\ total' \in [Kinds -> Nat] /\ taken' \in [Callers -> [Kinds -> Nat]]
<1>1. total' \in [Kinds -> Nat]
  BY DEF PayloadTypes
<1>2. taken' \in [Callers -> [Kinds -> Nat]]
  <2>1. [taken[i] EXCEPT ![k] = @ - 1] \in [Kinds -> Nat]
    BY DEF PayloadTypes
  <2> QED BY <2>1 DEF PayloadTypes
<1>3. total'["heavy"] <= HeavyLimit /\ total'["normal"] <= NormalLimit
  BY PayloadAssumption DEF PayloadTypes, WithinLimits, Kinds
<1>4. ASSUME NEW c \in Callers
      PROVE  /\ taken'[c]["normal"] <= NormalEach
             /\ taken'[c]["heavy"] > 0 => taken'[c]["heavy"] + taken'[c]["normal"] <= HeavyEach
  <2>1. taken'[c]["normal"] <= taken[c]["normal"] /\ taken'[c]["heavy"] <= taken[c]["heavy"]
    BY DEF PayloadTypes, Kinds
  <2>2. /\ taken[c]["normal"] \in Nat /\ taken[c]["heavy"] \in Nat
        /\ taken'[c]["normal"] \in Nat /\ taken'[c]["heavy"] \in Nat
    BY <1>2 DEF PayloadTypes, Kinds
  <2>3. /\ taken[c]["normal"] <= NormalEach
        /\ taken[c]["heavy"] > 0 => taken[c]["heavy"] + taken[c]["normal"] <= HeavyEach
    BY DEF WithinLimits
  <2> QED BY <2>1, <2>2, <2>3, PayloadAssumption
<1> QED BY <1>1, <1>2, <1>3, <1>4 DEF WithinLimits

\* The guard lets an upload in only while the limits leave room for it.
LEMMA LimitsAdmit ==
    ASSUME PayloadTypes, WithinLimits, NEW i \in Callers, NEW k \in Kinds, Admits(i, k),
           total' = [total EXCEPT ![k] = @ + 1],
           taken' = [taken EXCEPT ![i][k] = @ + 1]
    PROVE  /\ WithinLimits'
           /\ total' \in [Kinds -> Nat] /\ taken' \in [Callers -> [Kinds -> Nat]]
<1>1. total' \in [Kinds -> Nat]
  BY DEF PayloadTypes
<1>2. taken' \in [Callers -> [Kinds -> Nat]]
  <2>1. [taken[i] EXCEPT ![k] = @ + 1] \in [Kinds -> Nat]
    BY DEF PayloadTypes
  <2> QED BY <2>1 DEF PayloadTypes
<1>3. total'["heavy"] <= HeavyLimit /\ total'["normal"] <= NormalLimit
  BY PayloadAssumption DEF PayloadTypes, WithinLimits, Kinds, Admits
<1>4. ASSUME NEW c \in Callers
      PROVE  /\ taken'[c]["normal"] <= NormalEach
             /\ taken'[c]["heavy"] > 0 => taken'[c]["heavy"] + taken'[c]["normal"] <= HeavyEach
  <2>1. CASE c # i
    <3>1. taken'[c] = taken[c]
      BY <2>1 DEF PayloadTypes
    <3> QED BY <3>1 DEF WithinLimits
  <2>2. CASE c = i
    <3>1. /\ taken[c]["normal"] \in Nat /\ taken[c]["heavy"] \in Nat
      BY DEF PayloadTypes, Kinds
    <3>2. taken[c]["normal"] <= NormalEach
      BY DEF WithinLimits
    <3>3. CASE k = "heavy"
      <4>1. /\ taken'[c]["heavy"] = taken[c]["heavy"] + 1
            /\ taken'[c]["normal"] = taken[c]["normal"]
        BY <2>2, <3>3 DEF PayloadTypes, Kinds
      <4>2. taken[c]["heavy"] + taken[c]["normal"] < HeavyEach
        BY <2>2, <3>3 DEF Admits
      <4> QED BY <3>1, <3>2, <4>1, <4>2, PayloadAssumption
    <3>4. CASE k = "normal"
      <4>1. /\ taken'[c]["normal"] = taken[c]["normal"] + 1
            /\ taken'[c]["heavy"] = taken[c]["heavy"]
        BY <2>2, <3>4 DEF PayloadTypes, Kinds
      <4>2. taken[c]["heavy"] = 0 /\ taken[c]["normal"] < NormalEach
        BY <2>2, <3>4 DEF Admits
      <4> QED BY <3>1, <4>1, <4>2, PayloadAssumption
    <3> QED BY <3>3, <3>4 DEF Kinds
  <2> QED BY <2>1, <2>2
<1> QED BY <1>1, <1>2, <1>3, <1>4 DEF WithinLimits

\* A step of one upload, described by the record it leaves: what is to be shown of it.
LEMMA OneUpload ==
    ASSUME PayloadTypes, StepsAgree, NEW u \in Uploads, NEW r,
           upload' = [upload EXCEPT ![u] = r],
           r \in Requests, Agree(r)
    PROVE  /\ upload' \in [Uploads -> Requests] /\ StepsAgree'
           /\ upload'[u] = r /\ \A v \in Uploads \ {u} : upload'[v] = upload[v]
<1>1. upload' \in [Uploads -> Requests]
  BY DEF PayloadTypes
<1>2. upload'[u] = r /\ \A v \in Uploads \ {u} : upload'[v] = upload[v]
  BY DEF PayloadTypes
<1>3. ASSUME NEW v \in Uploads PROVE Agree(upload'[v])
  <2>1. CASE v = u
    BY <2>1, <1>2
  <2>2. CASE v # u
    BY <2>2, <1>2 DEF StepsAgree
  <2> QED BY <2>1, <2>2
<1> QED BY <1>1, <1>2, <1>3 DEF StepsAgree

\* A step that leaves the slot alone.
LEMMA SlotKept ==
    ASSUME PayloadInvariant, NEW u \in Uploads, NEW r,
           upload' = [upload EXCEPT ![u] = r], UNCHANGED <<total, taken>>,
           r \in Requests, Agree(r),
           r.reservation \in Held <=> upload[u].reservation \in Held,
           r.kind = upload[u].kind, r.identity = upload[u].identity
    PROVE  PayloadInvariant'
<1>1. PayloadTypes /\ StepsAgree /\ Counted /\ WithinLimits
  BY DEF PayloadInvariant
<1>2. /\ upload' \in [Uploads -> Requests] /\ StepsAgree'
      /\ upload'[u] = r /\ \A v \in Uploads \ {u} : upload'[v] = upload[v]
  BY <1>1, OneUpload
<1>3. Counted'
  <2>1. \A v \in Uploads :
              /\ upload'[v].reservation \in Held <=> upload[v].reservation \in Held
              /\ upload'[v].kind = upload[v].kind
              /\ upload'[v].identity = upload[v].identity
    BY <1>2
  <2> QED BY <2>1, <1>1, CountsKept
<1>4. PayloadTypes' /\ WithinLimits'
  BY <1>1, <1>2 DEF PayloadTypes, WithinLimits
<1> QED BY <1>2, <1>3, <1>4 DEF PayloadInvariant

\* A step that gives the slot back.
LEMMA SlotGiven ==
    ASSUME PayloadInvariant, NEW u \in Uploads, NEW r,
           upload' = [upload EXCEPT ![u] = r], ReleaseSlot(u),
           r \in Requests, Agree(r),
           upload[u].reservation \in Held, r.reservation \notin Held
    PROVE  PayloadInvariant'
<1>1. PayloadTypes /\ StepsAgree /\ Counted /\ WithinLimits
  BY DEF PayloadInvariant
<1>2. /\ upload' \in [Uploads -> Requests] /\ StepsAgree'
      /\ upload'[u] = r /\ \A v \in Uploads \ {u} : upload'[v] = upload[v]
  BY <1>1, OneUpload
<1>3. upload[u].identity \in Callers /\ upload[u].kind \in Kinds
  BY <1>1 DEF StepsAgree, Agree, PayloadTypes, Requests
<1>4. /\ Counted'
      /\ total[upload[u].kind] > 0 /\ taken[upload[u].identity][upload[u].kind] > 0
  BY <1>1, <1>2, <1>3, CountsGiven
<1>5. /\ WithinLimits'
      /\ total' \in [Kinds -> Nat] /\ taken' \in [Callers -> [Kinds -> Nat]]
  BY <1>1, <1>3, <1>4, LimitsOutlast DEF ReleaseSlot
<1> QED BY <1>2, <1>4, <1>5 DEF PayloadInvariant, PayloadTypes

-----------------------------------------------------------------------------
\* releaseBeforeOwnership, from a step that does not belong to the handler.
LEMMA ReleaseKeepsInvariant ==
    ASSUME PayloadInvariant, NEW u \in Uploads, NEW at \in Steps, NEW told \in BOOLEAN,
           ReleaseBeforeOwnership(u, at, told),
           at = upload[u].at \/ (at = "stopped" /\ upload[u].at # "handler"),
           upload[u].closed
    PROVE  PayloadInvariant'
<1> DEFINE old == upload[u]
<1>1. old \in Requests /\ Agree(old)
  BY DEF PayloadInvariant, PayloadTypes, StepsAgree
<1>2. CASE old.reservation \in Fallback
  <2> DEFINE r == [old EXCEPT !.at = at, !.told = told, !.reservation = "released"]
  <2>1. upload' = [upload EXCEPT ![u] = r] /\ ReleaseSlot(u)
    BY <1>2 DEF ReleaseBeforeOwnership
  <2>2. r \in Requests
    BY <1>1 DEF Requests
  <2>3. Agree(r)
    BY <1>1, <1>2 DEF Requests, Agree, Fallback, Held
  <2>4. old.reservation \in Held /\ r.reservation \notin Held
    BY <1>1, <1>2 DEF Fallback, Held, Requests
  <2> QED BY <2>1, <2>2, <2>3, <2>4, SlotGiven
<1>3. CASE old.reservation \notin Fallback
  <2> DEFINE r == [old EXCEPT !.at = at, !.told = told]
  <2>1. upload' = [upload EXCEPT ![u] = r] /\ UNCHANGED <<total, taken>>
    BY <1>3 DEF ReleaseBeforeOwnership
  <2>2. r \in Requests
    BY <1>1 DEF Requests
  <2>3. Agree(r)
    BY <1>1, <1>3 DEF Requests, Agree, Fallback, Held
  <2>4. /\ r.reservation = old.reservation /\ r.kind = old.kind /\ r.identity = old.identity
    BY <1>1 DEF Requests
  <2> QED BY <2>1, <2>2, <2>3, <2>4, SlotKept
<1> QED BY <1>2, <1>3

\* The guard.
LEMMA GuardKeepsInvariant ==
    ASSUME PayloadInvariant, NEW u \in Uploads, Guard(u)
    PROVE  PayloadInvariant'
<1> DEFINE old == upload[u]
<1>0. PayloadTypes /\ StepsAgree /\ Counted /\ WithinLimits
  BY DEF PayloadInvariant
<1>1. old \in Requests /\ Agree(old)
  BY <1>0 DEF PayloadTypes, StepsAgree
<1>2. old.at = "coming" /\ old.reservation = "none"
  BY <1>1 DEF Guard, Agree
<1>3. ASSUME upload' = [upload EXCEPT ![u].at = "stopped"], UNCHANGED <<total, taken>>
      PROVE  PayloadInvariant'
  <2> DEFINE r == [old EXCEPT !.at = "stopped"]
  <2>1. upload' = [upload EXCEPT ![u] = r]
    BY <1>3
  <2>2. r \in Requests
    BY <1>1 DEF Requests, Steps
  <2>3. Agree(r)
    BY <1>1, <1>2 DEF Requests, Agree, Held
  <2>4. /\ r.reservation = old.reservation /\ r.kind = old.kind /\ r.identity = old.identity
    BY <1>1 DEF Requests
  <2> QED BY <1>3, <2>1, <2>2, <2>3, <2>4, SlotKept
<1>4. ASSUME upload' = [upload EXCEPT ![u].at = "answered", ![u].closed = TRUE],
             UNCHANGED <<total, taken>>
      PROVE  PayloadInvariant'
  <2> DEFINE r == [old EXCEPT !.at = "answered", !.closed = TRUE]
  <2>1. upload' = [upload EXCEPT ![u] = r]
    BY <1>4
  <2>2. r \in Requests
    BY <1>1 DEF Requests, Steps
  <2>3. Agree(r)
    BY <1>1, <1>2 DEF Requests, Agree, Held
  <2>4. /\ r.reservation = old.reservation /\ r.kind = old.kind /\ r.identity = old.identity
    BY <1>1 DEF Requests
  <2> QED BY <1>4, <2>1, <2>2, <2>3, <2>4, SlotKept
<1>5. ASSUME NEW i \in Callers, NEW k \in Kinds, Admits(i, k), ~old.closed,
             upload' = [upload EXCEPT ![u].at = "parsing", ![u].identity = i, ![u].kind = k,
                                      ![u].reservation = "available"],
             total' = [total EXCEPT ![k] = @ + 1],
             taken' = [taken EXCEPT ![i][k] = @ + 1]
      PROVE  PayloadInvariant'
  <2> DEFINE r == [old EXCEPT !.at = "parsing", !.identity = i, !.kind = k,
                              !.reservation = "available"]
  <2>1. upload' = [upload EXCEPT ![u] = r]
    BY <1>5
  <2>2. r \in Requests
    BY <1>1 DEF Requests, Steps, Held
  <2>3. r.reservation = "available" /\ r.kind = k /\ r.identity = i /\ r.at = "parsing"
    BY <1>1 DEF Requests
  <2>4. Agree(r)
    <3>1. r.told = old.told /\ ~old.told
      BY <1>1, <1>5 DEF Requests, Agree
    <3> QED BY <2>3, <3>1 DEF Agree, Held
  <2>5. /\ upload' \in [Uploads -> Requests] /\ StepsAgree'
        /\ upload'[u] = r /\ \A v \in Uploads \ {u} : upload'[v] = upload[v]
    BY <1>0, <2>1, <2>2, <2>4, OneUpload
  <2>6. Counted'
    <3>1. upload[u].reservation \notin Held
      BY <1>2 DEF Held
    <3>2. upload'[u].reservation \in Held /\ upload'[u].kind = k /\ upload'[u].identity = i
      BY <2>3, <2>5 DEF Held
    <3> QED BY <1>0, <1>5, <2>5, <3>1, <3>2, CountsTaken
  <2>7. /\ WithinLimits'
        /\ total' \in [Kinds -> Nat] /\ taken' \in [Callers -> [Kinds -> Nat]]
    BY <1>0, <1>5, LimitsAdmit
  <2> QED BY <2>5, <2>6, <2>7 DEF PayloadInvariant, PayloadTypes
<1> QED BY <1>3, <1>4, <1>5 DEF Guard

\* The steps between the guard and the handler, the end of the handler, and the disconnect.
LEMMA OthersKeepInvariant ==
    ASSUME PayloadInvariant, NEW u \in Uploads,
           \/ Parsed(u) \/ ParseFails(u) \/ ClaimReservation(u) \/ AnswerBefore(u)
           \/ TakeOwnership(u) \/ HandlerEnds(u) \/ Disconnect(u) \/ Tell(u)
    PROVE  PayloadInvariant'
<1> DEFINE old == upload[u]
<1>1. old \in Requests /\ Agree(old)
  BY DEF PayloadInvariant, PayloadTypes, StepsAgree
<1>2. ASSUME NEW at \in Steps \ {"handler", "coming"}, NEW closed \in BOOLEAN,
             old.closed => closed, old.at # "handler",
             upload' = [upload EXCEPT ![u] = [old EXCEPT !.at = at, !.closed = closed]],
             UNCHANGED <<total, taken>>
      PROVE  PayloadInvariant'
  <2> DEFINE r == [old EXCEPT !.at = at, !.closed = closed]
  <2>1. r \in Requests
    BY <1>1 DEF Requests
  <2>2. Agree(r)
    BY <1>1, <1>2 DEF Requests, Agree
  <2>3. /\ r.reservation = old.reservation /\ r.kind = old.kind /\ r.identity = old.identity
    BY <1>1 DEF Requests
  <2> QED BY <1>2, <2>1, <2>2, <2>3, SlotKept
<1>3. CASE Parsed(u)
  <2>1. upload' = [upload EXCEPT ![u] = [old EXCEPT !.at = "parsed", !.closed = old.closed]]
    BY <1>1, <1>3 DEF Parsed, Move, Requests
  <2> QED BY <1>1, <1>2, <1>3, <2>1 DEF Parsed, Move, Steps, Requests
<1>4. CASE ParseFails(u)
  <2>1. upload' = [upload EXCEPT ![u] = [old EXCEPT !.at = "answered", !.closed = TRUE]]
    BY <1>4 DEF ParseFails
  <2> QED BY <1>2, <1>4, <2>1 DEF ParseFails, Steps
<1>5. CASE AnswerBefore(u)
  <2>1. upload' = [upload EXCEPT ![u] = [old EXCEPT !.at = "answered", !.closed = TRUE]]
    BY <1>5 DEF AnswerBefore
  <2> QED BY <1>2, <1>5, <2>1 DEF AnswerBefore, Steps
<1>6. ASSUME old.at # "handler", UNCHANGED <<total, taken>>,
             upload' = [upload EXCEPT ![u].at = "stopped"]
      PROVE  PayloadInvariant'
  <2>1. upload' = [upload EXCEPT ![u] = [old EXCEPT !.at = "stopped", !.closed = old.closed]]
    BY <1>1, <1>6 DEF Requests
  <2> QED BY <1>1, <1>2, <1>6, <2>1 DEF Steps, Requests
<1>7. ASSUME NEW at \in Steps \ {"coming"}, NEW reservation \in {"claimed", "owned"},
             at = "handler" <=> reservation = "owned",
             old.reservation \in {"available", "claimed"}, ~old.closed,
             upload' = [upload EXCEPT ![u].at = at, ![u].reservation = reservation],
             UNCHANGED <<total, taken>>
      PROVE  PayloadInvariant'
  <2> DEFINE r == [old EXCEPT !.at = at, !.reservation = reservation]
  <2>1. upload' = [upload EXCEPT ![u] = r]
    BY <1>7
  <2>2. r \in Requests
    BY <1>1 DEF Requests, Held
  <2>3. Agree(r)
    BY <1>1, <1>7 DEF Requests, Agree, Held
  <2>4. /\ r.reservation \in Held <=> old.reservation \in Held
        /\ r.kind = old.kind /\ r.identity = old.identity
    BY <1>1, <1>7 DEF Requests, Held
  <2> QED BY <1>7, <2>1, <2>2, <2>3, <2>4, SlotKept
<1>8. CASE ClaimReservation(u)
  <2>1. CASE old.closed
    <3>1. ReleaseBeforeOwnership(u, "stopped", old.told) /\ old.at # "handler"
      BY <1>8, <2>1 DEF ClaimReservation
    <3>2. old.told \in BOOLEAN /\ "stopped" \in Steps
      BY <1>1 DEF Requests, Steps
    <3> QED BY <2>1, <3>1, <3>2, ReleaseKeepsInvariant
  <2>2. CASE ~old.closed /\ old.reservation = "available"
    <3>1. /\ upload' = [upload EXCEPT ![u].at = "routed", ![u].reservation = "claimed"]
          /\ UNCHANGED <<total, taken>>
      BY <1>8, <2>2 DEF ClaimReservation
    <3> QED BY <1>7, <2>2, <3>1 DEF Steps
  <2>3. CASE ~old.closed /\ old.reservation # "available"
    BY <1>6, <1>8, <2>3 DEF ClaimReservation
  <2> QED BY <2>1, <2>2, <2>3
<1>9. CASE TakeOwnership(u)
  <2>1. CASE old.closed
    <3>1. ReleaseBeforeOwnership(u, "stopped", old.told) /\ old.at # "handler"
      BY <1>9, <2>1 DEF TakeOwnership
    <3>2. old.told \in BOOLEAN /\ "stopped" \in Steps
      BY <1>1 DEF Requests, Steps
    <3> QED BY <2>1, <3>1, <3>2, ReleaseKeepsInvariant
  <2>2. CASE ~old.closed /\ old.reservation = "claimed"
    <3>1. /\ upload' = [upload EXCEPT ![u].at = "handler", ![u].reservation = "owned"]
          /\ UNCHANGED <<total, taken>>
      BY <1>9, <2>2 DEF TakeOwnership
    <3> QED BY <1>7, <2>2, <3>1 DEF Steps
  <2>3. CASE ~old.closed /\ old.reservation # "claimed"
    BY <1>6, <1>9, <2>3 DEF TakeOwnership
  <2> QED BY <2>1, <2>2, <2>3
<1>10. CASE HandlerEnds(u)
  <2> DEFINE r == [old EXCEPT !.at = "answered", !.closed = TRUE, !.reservation = "released"]
  <2>1. upload' = [upload EXCEPT ![u] = r] /\ ReleaseSlot(u)
    BY <1>10 DEF HandlerEnds
  <2>2. r \in Requests
    BY <1>1 DEF Requests, Steps
  <2>3. Agree(r)
    BY <1>1 DEF Requests, Agree, Held
  <2>4. old.reservation \in Held /\ r.reservation \notin Held
    BY <1>1, <1>10 DEF HandlerEnds, Agree, Held, Requests
  <2> QED BY <2>1, <2>2, <2>3, <2>4, SlotGiven
<1>11. CASE Disconnect(u)
  <2> DEFINE r == [old EXCEPT !.closed = TRUE]
  <2>1. upload' = [upload EXCEPT ![u] = r] /\ UNCHANGED <<total, taken>>
    BY <1>11 DEF Disconnect
  <2>2. r \in Requests
    BY <1>1 DEF Requests
  <2>3. Agree(r)
    BY <1>1 DEF Requests, Agree
  <2>4. /\ r.reservation = old.reservation /\ r.kind = old.kind /\ r.identity = old.identity
    BY <1>1 DEF Requests
  <2> QED BY <2>1, <2>2, <2>3, <2>4, SlotKept
<1>12. CASE Tell(u)
  <2>1. old.at \in Steps
    BY <1>1 DEF Requests
  <2> QED BY <1>12, <2>1, ReleaseKeepsInvariant DEF Tell
<1> QED BY <1>3, <1>4, <1>5, <1>8, <1>9, <1>10, <1>11, <1>12

LEMMA PayloadSteps == PayloadInvariant /\ [PayloadNext]_payloadVars => PayloadInvariant'
<1> SUFFICES ASSUME PayloadInvariant, [PayloadNext]_payloadVars PROVE PayloadInvariant'
  OBVIOUS
<1>1. ASSUME NEW u \in Uploads, UploadStep(u) PROVE PayloadInvariant'
  BY <1>1, GuardKeepsInvariant, OthersKeepInvariant DEF UploadStep
<1>2. CASE UNCHANGED payloadVars
  <2>1. UNCHANGED <<upload, total, taken>>
    BY <1>2 DEF payloadVars
  <2>2. PayloadTypes' /\ StepsAgree' /\ WithinLimits'
    BY <2>1 DEF PayloadInvariant, PayloadTypes, StepsAgree, WithinLimits
  <2>3. Counted'
    BY <2>1, CountsKept DEF PayloadInvariant
  <2> QED BY <2>2, <2>3 DEF PayloadInvariant
<1> QED BY <1>1, <1>2 DEF PayloadNext

-----------------------------------------------------------------------------
\* The counters of the guard are the uploads that hold a slot, within the limits, and the slots
\* follow the steps of their requests (middleware/projectPayload.ts).
THEOREM PayloadIsInvariant == PayloadSpec => []PayloadInvariant
<1> QED BY PayloadStarts, PayloadSteps, PTL DEF PayloadSpec

\* Every slot comes back, once, wherever the client disconnects; a handler never runs without.
THEOREM SlotsStayAccounted == PayloadSpec => []SlotsAreAccounted
<1>1. PayloadInvariant => SlotsAreAccounted
  <2> SUFFICES ASSUME PayloadInvariant PROVE SlotsAreAccounted
    OBVIOUS
  <2>1. \A i \in Callers :
          IF taken[i]["heavy"] > 0
          THEN taken[i]["heavy"] + taken[i]["normal"] <= HeavyEach
          ELSE taken[i]["normal"] <= NormalEach
    BY DEF PayloadInvariant, WithinLimits
  <2>2. ASSUME NEW u \in Uploads
        PROVE  /\ upload[u].at = "handler" => u \in Holding
               /\ upload[u].told /\ upload[u].at # "handler" => u \notin Holding
    BY DEF PayloadInvariant, StepsAgree, Agree, Holding, Held
  <2> QED BY <2>1, <2>2 DEF PayloadInvariant, Counted, WithinLimits, SlotsAreAccounted
<1> QED BY <1>1, PayloadIsInvariant, PTL

-----------------------------------------------------------------------------
(* Races.                                                                  *)

PlayerRecords == [progress : Nat, question : Nat, solved : SUBSET Nat]
RoomRecords == [status : {"none", "waiting", "racing", "finished"}, due : BOOLEAN,
                players : [Seats -> PlayerRecords]]

\* A player's progress is what it solved.
PlayerIsHonest(p) ==
    /\ IsFiniteSet(p.solved)
    /\ p.progress = Cardinality(p.solved)
    /\ p.progress <= FinishAt

\* Until the race is over nobody has all it needs, and the question a player holds is newer
\* than those it solved; when it is over, one player has.
RoomIsFair(r) ==
    /\ r \in RoomRecords
    /\ \A s \in Seats : PlayerIsHonest(r.players[s])
    /\ r.status # "finished" =>
          \A s \in Seats : /\ r.players[s].progress < FinishAt
                           /\ \A q \in r.players[s].solved : q < r.players[s].question
    /\ r.status = "finished" =>
          \E s \in Seats : /\ r.players[s].progress = FinishAt
                           /\ \A o \in Seats \ {s} : r.players[o].progress < FinishAt

\* The inductive invariant; what `room` holds when every due room is gone has it, too.
RoomsAreFair(rs) == rs \in [RoomCodes -> RoomRecords] /\ \A c \in RoomCodes : RoomIsFair(rs[c])
PondInvariant == RoomsAreFair(room)

-----------------------------------------------------------------------------
LEMMA PlayersStart ==
    /\ NoPlayer \in PlayerRecords /\ PlayerIsHonest(NoPlayer) /\ NoPlayer.progress < FinishAt
    /\ NoPlayer.solved = {} /\ NoPlayer.question = 0
    /\ NewPlayer \in PlayerRecords /\ PlayerIsHonest(NewPlayer) /\ NewPlayer.progress < FinishAt
    /\ NewPlayer.solved = {} /\ NewPlayer.question = 1
  BY PondAssumption, FS_EmptySet DEF NoPlayer, NewPlayer, PlayerRecords, PlayerIsHonest

LEMMA NoRoomIsFair == RoomIsFair(NoRoom) /\ NoRoom.players = [s \in Seats |-> NoPlayer]
  BY PlayersStart DEF NoRoom, RoomIsFair, RoomRecords

\* closeRoom and removeExpiredRooms leave fair rooms.
LEMMA ClosingIsFair ==
    ASSUME PondInvariant, NEW codes
    PROVE  RoomsAreFair(Close(codes))
  BY NoRoomIsFair DEF PondInvariant, RoomsAreFair, Close, RoomIsFair

LEMMA RoomsIsFair == PondInvariant => RoomsAreFair(Rooms)
  BY ClosingIsFair DEF Rooms

LEMMA PutIsFair ==
    ASSUME PondInvariant, NEW c \in RoomCodes, NEW r, RoomIsFair(r), Put(c, r)
    PROVE  PondInvariant'
<1>1. RoomsAreFair(Rooms)
  BY RoomsIsFair
<1>2. room' = [Rooms EXCEPT ![c] = r]
  BY DEF Put
<1>3. r \in RoomRecords
  BY DEF RoomIsFair
<1> QED BY <1>1, <1>2, <1>3 DEF PondInvariant, RoomsAreFair

\* A room whose status or due mark changes while nobody moves.
LEMMA StatusIsFair ==
    ASSUME NEW r, RoomIsFair(r), r.status # "finished",
           NEW n, n \in RoomRecords, n.players = r.players, n.status # "finished"
    PROVE  RoomIsFair(n)
  BY DEF RoomIsFair

-----------------------------------------------------------------------------
LEMMA JoiningIsFair ==
    ASSUME NEW r, RoomIsFair(r), r.status = "waiting", NEW s \in Seats
    PROVE  RoomIsFair([r EXCEPT !.players[s] = NewPlayer])
<1> DEFINE n == [r EXCEPT !.players[s] = NewPlayer]
<1>1. r \in RoomRecords
  BY DEF RoomIsFair
<1>2. /\ n \in RoomRecords /\ n.status = "waiting"
      /\ n.players = [r.players EXCEPT ![s] = NewPlayer]
  BY <1>1, PlayersStart DEF RoomRecords
<1>3. n.players[s] = NewPlayer /\ \A o \in Seats \ {s} : n.players[o] = r.players[o]
  BY <1>1, <1>2 DEF RoomRecords
<1> HIDE DEF n
<1>4. ASSUME NEW o \in Seats
      PROVE  /\ PlayerIsHonest(n.players[o]) /\ n.players[o].progress < FinishAt
             /\ \A q \in n.players[o].solved : q < n.players[o].question
  <2>1. CASE o = s
    BY <1>3, <2>1, PlayersStart
  <2>2. CASE o # s
    BY <1>3, <2>2 DEF RoomIsFair
  <2> QED BY <2>1, <2>2
<1>5. RoomIsFair(n)
  BY <1>2, <1>4 DEF RoomIsFair
<1> QED BY <1>5 DEF n

\* A player that solves a question it has not solved before is one step further.
LEMMA SolvingIsHonest ==
    ASSUME NEW p \in PlayerRecords, PlayerIsHonest(p), p.progress < FinishAt,
           NEW q \in Nat, q \notin p.solved,
           NEW n \in PlayerRecords, n.progress = p.progress + 1, n.solved = p.solved \cup {q}
    PROVE  PlayerIsHonest(n)
<1>1. p.progress \in Nat
  BY DEF PlayerRecords
<1>2. IsFiniteSet(p.solved) /\ p.progress = Cardinality(p.solved)
  BY DEF PlayerIsHonest
<1>3. IsFiniteSet(p.solved \cup {q}) /\ Cardinality(p.solved \cup {q}) = Cardinality(p.solved) + 1
  BY <1>2, FS_AddElement
<1> QED BY <1>1, <1>2, <1>3, PondAssumption DEF PlayerIsHonest

\* The heart of it: an answer counts only for the question the player holds, which it has not
\* solved before, so that the progress grows with what is solved.
LEMMA AnswersAreFair ==
    ASSUME NEW r, RoomIsFair(r), r.status = "racing", NEW s \in Seats, NEW q \in 1..FinishAt,
           Current(r, s, q)
    PROVE  RoomIsFair(Ahead(r, s, q))
<1> DEFINE p == r.players[s]
           n == Ahead(r, s, q)
<1>1. r \in RoomRecords /\ p \in PlayerRecords /\ q \in Nat
  BY PondAssumption DEF RoomIsFair, RoomRecords
<1>2. p.progress \in Nat /\ p.question = q /\ p.solved \in SUBSET Nat
  BY <1>1 DEF PlayerRecords, Current
<1>3. p.progress < FinishAt /\ q \notin p.solved
  BY <1>1, <1>2 DEF RoomIsFair
<1>4. PlayerIsHonest(p)
  BY DEF RoomIsFair
<1>5. CASE p.progress + 1 >= FinishAt
  <2> DEFINE new == [p EXCEPT !.progress = @ + 1, !.solved = @ \cup {q}]
  <2>1. /\ new \in PlayerRecords /\ new.progress = p.progress + 1
        /\ new.solved = p.solved \cup {q}
    <3>1. p.progress + 1 \in Nat /\ p.solved \cup {q} \in SUBSET Nat
      BY <1>1, <1>2
    <3> QED BY <1>1, <3>1 DEF PlayerRecords
  <2>2. n = [r EXCEPT !.status = "finished", !.players[s] = new]
    BY <1>5 DEF Ahead
  <2> HIDE DEF new, n
  <2>3. /\ n \in RoomRecords /\ n.status = "finished"
        /\ n.players = [r.players EXCEPT ![s] = new]
    BY <1>1, <2>1, <2>2 DEF RoomRecords
  <2>4. n.players[s] = new /\ \A o \in Seats \ {s} : n.players[o] = r.players[o]
    BY <1>1, <2>3 DEF RoomRecords
  <2>5. new.progress = FinishAt /\ PlayerIsHonest(new)
    BY <1>1, <1>2, <1>3, <1>4, <1>5, <2>1, SolvingIsHonest, PondAssumption
  <2>6. \A o \in Seats : PlayerIsHonest(n.players[o])
    BY <2>4, <2>5 DEF RoomIsFair
  <2>7. \A o \in Seats \ {s} : n.players[o].progress < FinishAt
    BY <2>4 DEF RoomIsFair
  <2>8. \E w \in Seats : /\ n.players[w].progress = FinishAt
                          /\ \A o \in Seats \ {w} : n.players[o].progress < FinishAt
    BY <2>4, <2>5, <2>7
  <2>9. RoomIsFair(n)
    BY <2>3, <2>6, <2>8 DEF RoomIsFair
  <2> QED BY <2>9 DEF n
<1>6. CASE ~(p.progress + 1 >= FinishAt)
  <2> DEFINE new == [progress |-> p.progress + 1, question |-> p.question + 1,
                     solved |-> p.solved \cup {q}]
  <2>1. /\ new \in PlayerRecords /\ new.progress = p.progress + 1
        /\ new.solved = p.solved \cup {q} /\ new.question = q + 1
    BY <1>1, <1>2 DEF PlayerRecords
  <2>2. n = [r EXCEPT !.players[s] = new]
    BY <1>6 DEF Ahead
  <2> HIDE DEF new, n
  <2>3. /\ n \in RoomRecords /\ n.status = "racing"
        /\ n.players = [r.players EXCEPT ![s] = new]
    BY <1>1, <2>1, <2>2 DEF RoomRecords
  <2>4. n.players[s] = new /\ \A o \in Seats \ {s} : n.players[o] = r.players[o]
    BY <1>1, <2>3 DEF RoomRecords
  <2>5. new.progress < FinishAt /\ PlayerIsHonest(new)
    BY <1>1, <1>2, <1>3, <1>4, <1>6, <2>1, SolvingIsHonest, PondAssumption
  <2>6. \A x \in new.solved : x < new.question
    <3>1. \A x \in p.solved : x \in Nat /\ x < q
      BY <1>2 DEF RoomIsFair
    <3> QED BY <1>1, <2>1, <3>1
  <2>7. ASSUME NEW o \in Seats
        PROVE  /\ PlayerIsHonest(n.players[o]) /\ n.players[o].progress < FinishAt
               /\ \A x \in n.players[o].solved : x < n.players[o].question
    <3>1. CASE o = s
      BY <2>4, <2>5, <2>6, <3>1
    <3>2. CASE o # s
      BY <2>4, <3>2 DEF RoomIsFair
    <3> QED BY <3>1, <3>2
  <2>8. RoomIsFair(n)
    BY <2>3, <2>7 DEF RoomIsFair
  <2> QED BY <2>8 DEF n
<1> QED BY <1>5, <1>6

-----------------------------------------------------------------------------
LEMMA PondStarts == PondInit => PondInvariant
  BY NoRoomIsFair DEF PondInit, PondInvariant, RoomsAreFair, RoomIsFair

LEMMA RoomStepsAreFair ==
    ASSUME PondInvariant, NEW c \in RoomCodes, RoomStep(c)
    PROVE  PondInvariant'
<1>1. RoomIsFair(room[c]) /\ RoomIsFair(Rooms[c])
  BY RoomsIsFair DEF PondInvariant, RoomsAreFair
<1>2. CASE TimePasses(c)
  <2> DEFINE n == [room[c] EXCEPT !.due = TRUE]
  <2>1. room' = [room EXCEPT ![c] = n]
    BY <1>2 DEF TimePasses
  <2>2. /\ n \in RoomRecords /\ n.players = room[c].players /\ n.status = room[c].status
    BY <1>1 DEF RoomIsFair, RoomRecords
  <2> HIDE DEF n
  <2>3. RoomIsFair(n)
    BY <1>1, <2>2 DEF RoomIsFair
  <2> QED BY <2>1, <2>2, <2>3 DEF PondInvariant, RoomsAreFair
<1>3. CASE CloseRoom(c)
  BY <1>3, ClosingIsFair DEF CloseRoom, PondInvariant
<1>4. CASE CreateRoom(c)
  <2> DEFINE n == [NoRoom EXCEPT !.status = "waiting"]
  <2>1. /\ n \in RoomRecords /\ n.players = NoRoom.players /\ n.status = "waiting"
    BY NoRoomIsFair DEF RoomIsFair, RoomRecords
  <2>2. NoRoom.status = "none"
    BY DEF NoRoom
  <2> HIDE DEF n
  <2>3. RoomIsFair(n)
    BY <2>1, <2>2, NoRoomIsFair, StatusIsFair
  <2>4. Put(c, n)
    BY <1>4 DEF CreateRoom, n
  <2> QED BY <2>3, <2>4, PutIsFair
<1>5. CASE StartRoom(c)
  <2> DEFINE n == [Rooms[c] EXCEPT !.status = "racing"]
  <2>1. /\ n \in RoomRecords /\ n.players = Rooms[c].players /\ n.status = "racing"
    BY <1>1 DEF RoomIsFair, RoomRecords
  <2>2. Rooms[c].status = "waiting" /\ Put(c, n)
    BY <1>5 DEF StartRoom
  <2> HIDE DEF n
  <2>3. RoomIsFair(n)
    BY <1>1, <2>1, <2>2, StatusIsFair
  <2> QED BY <2>2, <2>3, PutIsFair
<1>6. ASSUME NEW s \in Seats, JoinRoom(c, s) PROVE PondInvariant'
  <2>1. Rooms[c].status = "waiting" /\ Put(c, [Rooms[c] EXCEPT !.players[s] = NewPlayer])
    BY <1>6 DEF JoinRoom
  <2>2. RoomIsFair([Rooms[c] EXCEPT !.players[s] = NewPlayer])
    BY <1>1, <2>1, JoiningIsFair
  <2> QED BY <2>1, <2>2, PutIsFair
<1>7. ASSUME NEW s \in Seats, NEW q \in 1..FinishAt, AnswerQuestion(c, s, q)
      PROVE  PondInvariant'
  <2>1. /\ Rooms[c].status = "racing" /\ Current(Rooms[c], s, q)
        /\ Put(c, Ahead(Rooms[c], s, q))
    BY <1>7 DEF AnswerQuestion
  <2>2. RoomIsFair(Ahead(Rooms[c], s, q))
    BY <1>1, <2>1, AnswersAreFair
  <2> QED BY <2>1, <2>2, PutIsFair
<1> QED BY <1>2, <1>3, <1>4, <1>5, <1>6, <1>7 DEF RoomStep

LEMMA PondSteps == PondInvariant /\ [PondNext]_pondVars => PondInvariant'
<1> SUFFICES ASSUME PondInvariant, [PondNext]_pondVars PROVE PondInvariant'
  OBVIOUS
<1>1. CASE LookUp
  BY <1>1, RoomsIsFair DEF LookUp, PondInvariant
<1>2. ASSUME NEW t \in Streams, StreamStep(t) PROVE PondInvariant'
  <2>1. CASE HeartbeatEnds(t) \/ StreamCloses(t)
    BY <2>1 DEF HeartbeatEnds, StreamCloses, PondInvariant
  <2>2. ASSUME NEW c \in RoomCodes, NEW s \in Seats, Subscribe(t, c, s) PROVE PondInvariant'
    BY <2>2, RoomsIsFair DEF Subscribe, PondInvariant
  <2> QED BY <1>2, <2>1, <2>2 DEF StreamStep
<1>3. CASE UNCHANGED pondVars
  BY <1>3 DEF pondVars, PondInvariant
<1> QED BY <1>1, <1>2, <1>3, RoomStepsAreFair DEF PondNext

-----------------------------------------------------------------------------
\* Rooms stay well-formed, and a question a player holds is newer than those it has solved,
\* also when others join, leave by an expiry, or finish (pondPaddlersRooms.ts).
THEOREM RoomsStayFair == PondSpec => []PondInvariant
<1> QED BY PondStarts, PondSteps, PTL DEF PondSpec

\* Every question counts once, and a race has exactly one winner (answerQuestion).
THEOREM RacesAreFair == PondSpec => []RaceIsFair
<1>1. PondInvariant => RaceIsFair
  <2> SUFFICES ASSUME PondInvariant, NEW c \in RoomCodes PROVE FairRoom(room[c])
    BY DEF RaceIsFair
  <2> DEFINE r == room[c]
  <2>1. RoomIsFair(r)
    BY DEF PondInvariant, RoomsAreFair
  <2>2. \A s \in Seats : r.players[s].progress \in Nat
    BY <2>1 DEF RoomIsFair, RoomRecords, PlayerRecords
  <2> HIDE DEF r
  <2>3. \A s \in Seats : /\ r.players[s].progress = Cardinality(r.players[s].solved)
                         /\ r.players[s].progress <= FinishAt
    BY <2>1 DEF RoomIsFair, PlayerIsHonest
  <2>4. CASE r.status = "finished"
    <3>1. PICK s \in Seats : /\ r.players[s].progress = FinishAt
                             /\ \A o \in Seats \ {s} : r.players[o].progress < FinishAt
      BY <2>1, <2>4 DEF RoomIsFair
    <3> QED BY <2>2, <2>3, <2>4, <3>1, PondAssumption DEF FairRoom, r
  <2>5. CASE r.status # "finished"
    <3>1. \A s \in Seats : r.players[s].progress < FinishAt
      BY <2>1, <2>5 DEF RoomIsFair
    <3> QED BY <2>2, <2>3, <2>5, <3>1, PondAssumption DEF FairRoom, r
  <2> QED BY <2>4, <2>5
<1> QED BY <1>1, RoomsStayFair, PTL

-----------------------------------------------------------------------------
(* Event streams.                                                          *)

\* The windows that listen for seat s of room c.
ListeningTo(ss, c, s) == {t \in Streams : ss[t].listed /\ ss[t].code = c /\ ss[t].seat = s}

States == {"nothing", "closed"} \cup {PublicState(r) : r \in RoomRecords}
StreamRecords == [response : {"none", "open", "ended"}, code : RoomCodes \cup {"none"},
                  seat : Seats \cup {"none"}, listed : BOOLEAN, seen : States]

\* What a stream x of the rooms rs is: listed only for a player of a room that is still waiting
\* or racing, and, while its response is open, listed and up to date.
UpToDate(x, rs) ==
    /\ x.response = "none" => ~x.listed
    /\ x.response = "open" => x.listed /\ x.seen = PublicState(rs[x.code])
    /\ x.listed => /\ x.code \in RoomCodes /\ x.seat \in Seats
                   /\ rs[x.code].status \in {"waiting", "racing"}
                   /\ x.seat \in Players(rs[x.code])

\* The streams ss fit the rooms rs.  A code that is not in use has no players.
StreamsFit(rs, ss) ==
    /\ ss = [t \in Streams |-> ss[t]]
    /\ \A c \in RoomCodes : rs[c].status = "none" => Players(rs[c]) = {}
    /\ \A t \in Streams : ss[t] \in StreamRecords /\ UpToDate(ss[t], rs)
    /\ \A c \in RoomCodes, s \in Seats : Cardinality(ListeningTo(ss, c, s)) <= MaxStreams

StreamInvariant == StreamsFit(room, stream)

\* When no window starts to listen, no seat has more of them.
LEMMA FewerListen ==
    ASSUME NEW old, NEW new, NEW c, NEW s,
           ListeningTo(new, c, s) \subseteq ListeningTo(old, c, s),
           Cardinality(ListeningTo(old, c, s)) <= MaxStreams
    PROVE  Cardinality(ListeningTo(new, c, s)) <= MaxStreams
<1>1. ListeningTo(old, c, s) \in SUBSET Streams
  BY DEF ListeningTo
<1>2. IsFiniteSet(ListeningTo(old, c, s))
  BY <1>1, StreamsAreLimited, FS_Subset
<1>3. /\ Cardinality(ListeningTo(new, c, s)) <= Cardinality(ListeningTo(old, c, s))
      /\ IsFiniteSet(ListeningTo(new, c, s))
  BY <1>2, FS_Subset
<1>4. Cardinality(ListeningTo(new, c, s)) \in Nat /\ Cardinality(ListeningTo(old, c, s)) \in Nat
  BY <1>2, <1>3, FS_CardinalityType
<1> QED BY <1>3, <1>4, StreamsAreLimited

\* closeRoom and removeExpiredRooms end the streams of the rooms that go, and no others.
LEMMA ClosingFits ==
    ASSUME StreamInvariant, NEW codes
    PROVE  StreamsFit(Close(codes), CloseStreams(codes))
<1> DEFINE rs == Close(codes)
           ss == CloseStreams(codes)
<1>1. ss = [t \in Streams |-> ss[t]]
  BY DEF CloseStreams, Notify
<1>2. ASSUME NEW c \in RoomCodes, rs[c].status = "none"
      PROVE  Players(rs[c]) = {}
  BY <1>2, NoRoomIsFair DEF StreamInvariant, StreamsFit, Close, Players, NoPlayer
<1>3. ASSUME NEW t \in Streams
      PROVE  /\ ss[t] \in StreamRecords /\ UpToDate(ss[t], rs)
             /\ ss[t].listed => ss[t] = stream[t]
  <2>1. stream[t] \in StreamRecords /\ UpToDate(stream[t], room)
    BY DEF StreamInvariant, StreamsFit
  <2>2. CASE ~stream[t].listed \/ stream[t].code \notin codes
    <3>1. ss[t] = stream[t]
      BY <2>2 DEF CloseStreams, Notify
    <3>2. stream[t].listed => rs[stream[t].code] = room[stream[t].code]
      BY <2>1, <2>2 DEF UpToDate, Close
    <3> QED BY <2>1, <3>1, <3>2 DEF UpToDate
  <2>3. CASE stream[t].listed /\ stream[t].code \in codes
    <3>1. ss[t] = [stream[t] EXCEPT !.listed = FALSE, !.response = "ended", !.seen = "nothing"]
      BY <2>3 DEF CloseStreams, Notify
    <3>2. "nothing" \in States
      BY DEF States
    <3> HIDE DEF ss
    <3>3. ss[t] \in StreamRecords /\ ss[t].listed = FALSE /\ ss[t].response = "ended"
      BY <2>1, <3>1, <3>2 DEF StreamRecords
    <3> QED BY <3>3 DEF UpToDate
  <2> QED BY <2>2, <2>3
<1>4. ASSUME NEW c \in RoomCodes, NEW s \in Seats
      PROVE  Cardinality(ListeningTo(ss, c, s)) <= MaxStreams
  <2>1. ListeningTo(ss, c, s) \subseteq ListeningTo(stream, c, s)
    BY <1>3 DEF ListeningTo
  <2> QED BY <2>1, FewerListen DEF StreamInvariant, StreamsFit
<1> HIDE DEF rs, ss
<1>5. StreamsFit(rs, ss)
  BY <1>1, <1>2, <1>3, <1>4 DEF StreamsFit
<1> QED BY <1>5 DEF rs, ss

LEMMA LookingUpFits == StreamInvariant => StreamsFit(Rooms, Listening)
  BY ClosingFits DEF Rooms, Listening

\* broadcast writes the new state of a room that keeps its players, and ends its streams when
\* the race is over.
LEMMA BroadcastFits ==
    ASSUME NEW rs \in [RoomCodes -> RoomRecords], NEW ss, StreamsFit(rs, ss),
           NEW c \in RoomCodes, NEW r \in RoomRecords, NEW slow,
           Players(rs[c]) \subseteq Players(r), r.status # "none"
    PROVE  StreamsFit([rs EXCEPT ![c] = r],
                      Notify(ss, {c}, PublicState(r), r.status = "finished", slow))
<1> DEFINE last == r.status = "finished"
           ns == [rs EXCEPT ![c] = r]
           ts == Notify(ss, {c}, PublicState(r), last, slow)
<1>1. /\ ns[c] = r /\ \A d \in RoomCodes \ {c} : ns[d] = rs[d]
      /\ r.status \in {"waiting", "racing", "finished"}
  BY DEF RoomRecords
<1>2. ts = [t \in Streams |-> ts[t]]
  BY DEF Notify
<1>3. ASSUME NEW d \in RoomCodes, ns[d].status = "none"
      PROVE  Players(ns[d]) = {}
  BY <1>1, <1>3 DEF StreamsFit
<1>4. ASSUME NEW t \in Streams
      PROVE  /\ ts[t] \in StreamRecords /\ UpToDate(ts[t], ns)
             /\ ts[t].listed => /\ ss[t].listed /\ ts[t].code = ss[t].code
                                /\ ts[t].seat = ss[t].seat
  <2>1. ss[t] \in StreamRecords /\ UpToDate(ss[t], rs)
    BY DEF StreamsFit
  <2>2. CASE ~ss[t].listed \/ ss[t].code # c
    <3>1. ts[t] = ss[t]
      BY <2>2 DEF Notify
    <3>2. ss[t].listed => ns[ss[t].code] = rs[ss[t].code]
      BY <1>1, <2>1, <2>2 DEF UpToDate
    <3> QED BY <2>1, <3>1, <3>2 DEF UpToDate
  <2>3. CASE ss[t].listed /\ ss[t].code = c
    <3> DEFINE listed == ~last
               response == IF last \/ t \in slow THEN "ended" ELSE ss[t].response
               seen == IF last \/ t \in slow \/ ss[t].response = "ended"
                       THEN "nothing" ELSE PublicState(r)
    <3>3. ts[t] = [ss[t] EXCEPT !.listed = listed, !.response = response, !.seen = seen]
      BY <2>3 DEF Notify
    <3>6. PublicState(r) \in States /\ "nothing" \in States
      BY DEF States
    <3>7. ss[t].response \in {"none", "open", "ended"}
      BY <2>1 DEF StreamRecords
    <3>4. /\ listed \in BOOLEAN /\ response \in {"none", "open", "ended"} /\ seen \in States
          /\ response = "open" => seen = PublicState(r)
      BY <3>6, <3>7
    <3> HIDE DEF ts, listed, response, seen
    <3>5. /\ ts[t] \in StreamRecords /\ ts[t].code = ss[t].code /\ ts[t].seat = ss[t].seat
          /\ ts[t].listed = listed /\ ts[t].response = response /\ ts[t].seen = seen
      BY <2>1, <3>3, <3>4 DEF StreamRecords
    <3>1. /\ ts[t] \in StreamRecords /\ ts[t].code = c /\ ts[t].seat = ss[t].seat
          /\ ts[t].listed = ~last /\ ts[t].response # "none"
          /\ ts[t].response = "open" => ~last /\ ts[t].seen = PublicState(r)
      BY <2>1, <2>3, <3>4, <3>5 DEF listed, response, UpToDate
    <3>2. ss[t].seat \in Seats /\ ss[t].seat \in Players(r) /\ ss[t].response # "none"
      BY <2>1, <2>3 DEF UpToDate
    <3> QED BY <1>1, <2>1, <2>3, <3>1, <3>2 DEF UpToDate
  <2> QED BY <2>2, <2>3
<1>5. ASSUME NEW d \in RoomCodes, NEW s \in Seats
      PROVE  Cardinality(ListeningTo(ts, d, s)) <= MaxStreams
  <2>1. ListeningTo(ts, d, s) \subseteq ListeningTo(ss, d, s)
    BY <1>4 DEF ListeningTo
  <2> QED BY <2>1, FewerListen DEF StreamsFit
<1> HIDE DEF ns, ts
<1>6. StreamsFit(ns, ts)
  BY <1>2, <1>3, <1>4, <1>5 DEF StreamsFit
<1> QED BY <1>6 DEF ns, ts

\* The handlers that look rooms up, change one and broadcast its state.
LEMMA PuttingFits ==
    ASSUME PondInvariant, StreamInvariant, NEW c \in RoomCodes, NEW r \in RoomRecords,
           Put(c, r), Broadcast(c, r), Players(Rooms[c]) \subseteq Players(r), r.status # "none"
    PROVE  StreamInvariant'
<1>1. Rooms \in [RoomCodes -> RoomRecords]
  BY RoomsIsFair DEF RoomsAreFair
<1>2. StreamsFit(Rooms, Listening)
  BY LookingUpFits
<1>3. PICK slow \in SUBSET Streams :
        stream' = Notify(Listening, {c}, PublicState(r), r.status = "finished", slow)
  BY DEF Broadcast
<1>4. room' = [Rooms EXCEPT ![c] = r]
  BY DEF Put
<1>5. StreamsFit([Rooms EXCEPT ![c] = r],
                 Notify(Listening, {c}, PublicState(r), r.status = "finished", slow))
  BY <1>1, <1>2, BroadcastFits
<1> QED BY <1>3, <1>4, <1>5 DEF StreamInvariant

LEMMA RoomStepsFit ==
    ASSUME PondInvariant, StreamInvariant, NEW c \in RoomCodes, RoomStep(c)
    PROVE  StreamInvariant'
<1>1. Rooms \in [RoomCodes -> RoomRecords] /\ room \in [RoomCodes -> RoomRecords]
  BY RoomsIsFair DEF PondInvariant, RoomsAreFair
<1>2. StreamsFit(Rooms, Listening)
  BY LookingUpFits
<1>3. CASE TimePasses(c)
  <2>1. /\ \A d \in RoomCodes : /\ room'[d].status = room[d].status
                               /\ room'[d].players = room[d].players
        /\ stream' = stream
    BY <1>1, <1>3 DEF TimePasses, RoomRecords
  <2>2. \A d \in RoomCodes : /\ Players(room'[d]) = Players(room[d])
                             /\ PublicState(room'[d]) = PublicState(room[d])
    BY <2>1 DEF Players, PublicState
  <2>3. \A t \in Streams : stream[t] \in StreamRecords /\ UpToDate(stream[t], room)
    BY DEF StreamInvariant, StreamsFit
  <2>4. \A t \in Streams : stream[t].response = "open" => stream[t].code \in RoomCodes
    BY <2>3 DEF UpToDate
  <2>5. ASSUME NEW t \in Streams PROVE UpToDate(stream[t], room')
    BY <2>1, <2>2, <2>3, <2>4 DEF UpToDate
  <2>6. StreamsFit(room', stream)
    BY <2>1, <2>2, <2>3, <2>5 DEF StreamInvariant, StreamsFit
  <2> QED BY <2>1, <2>6 DEF StreamInvariant
<1>4. CASE CloseRoom(c)
  BY <1>4, ClosingFits DEF CloseRoom, StreamInvariant
<1>5. CASE CreateRoom(c)
  <2> DEFINE r == [NoRoom EXCEPT !.status = "waiting"]
             ns == [Rooms EXCEPT ![c] = r]
  <2>1. room' = ns /\ stream' = Listening /\ Rooms[c].status = "none"
    BY <1>5 DEF CreateRoom, Put
  <2>2. r.status = "waiting"
    BY DEF NoRoom
  <2> HIDE DEF r
  <2>3. ns[c] = r /\ \A d \in RoomCodes \ {c} : ns[d] = Rooms[d]
    BY <1>1
  <2> HIDE DEF ns
  <2>4. ASSUME NEW t \in Streams PROVE UpToDate(Listening[t], ns)
    <3>1. UpToDate(Listening[t], Rooms)
      BY <1>2 DEF StreamsFit
    <3>2. Listening[t].listed => Listening[t].code \in RoomCodes \ {c}
      BY <2>1, <3>1 DEF UpToDate
    <3> QED BY <2>3, <3>1, <3>2 DEF UpToDate
  <2>5. StreamsFit(ns, Listening)
    BY <1>2, <2>2, <2>3, <2>4 DEF StreamsFit
  <2> QED BY <2>1, <2>5 DEF StreamInvariant
<1>6. CASE StartRoom(c)
  <2> DEFINE r == [Rooms[c] EXCEPT !.status = "racing"]
  <2>1. r \in RoomRecords /\ r.players = Rooms[c].players /\ r.status = "racing"
    BY <1>1 DEF RoomRecords
  <2>2. Put(c, r) /\ Broadcast(c, r)
    BY <1>6 DEF StartRoom
  <2> HIDE DEF r
  <2>3. Players(Rooms[c]) \subseteq Players(r)
    BY <2>1 DEF Players
  <2> QED BY <2>1, <2>2, <2>3, PuttingFits
<1>7. ASSUME NEW s \in Seats, JoinRoom(c, s) PROVE StreamInvariant'
  <2> DEFINE r == [Rooms[c] EXCEPT !.players[s] = NewPlayer]
  <2>1. /\ r \in RoomRecords /\ r.players = [Rooms[c].players EXCEPT ![s] = NewPlayer]
        /\ r.status = Rooms[c].status
    BY <1>1, PlayersStart DEF RoomRecords
  <2>2. Put(c, r) /\ Broadcast(c, r) /\ Rooms[c].status = "waiting"
    BY <1>7 DEF JoinRoom
  <2> HIDE DEF r
  <2>3. Players(Rooms[c]) \subseteq Players(r)
    BY <1>1, <2>1, PlayersStart DEF Players, RoomRecords
  <2> QED BY <2>1, <2>2, <2>3, PuttingFits
<1>8. ASSUME NEW s \in Seats, NEW q \in 1..FinishAt, AnswerQuestion(c, s, q)
      PROVE  StreamInvariant'
  <2> DEFINE r == Ahead(Rooms[c], s, q)
  <2>1. Put(c, r) /\ Broadcast(c, r) /\ Rooms[c].status = "racing" /\ Current(Rooms[c], s, q)
    BY <1>8 DEF AnswerQuestion
  <2>2. RoomIsFair(Rooms[c])
    BY RoomsIsFair DEF RoomsAreFair
  <2>3. r \in RoomRecords
    BY <2>1, <2>2, AnswersAreFair DEF RoomIsFair
  <2>4. /\ r.status \in {"racing", "finished"}
        /\ \A o \in Seats : r.players[o] # Rooms[c].players[o] => r.players[o].question # 0
    <3> DEFINE p == Rooms[c].players[s]
    <3>1. /\ p \in PlayerRecords /\ p.progress \in Nat /\ p.question = q /\ q \in Nat \ {0}
          /\ Rooms[c] \in RoomRecords
      BY <1>1, <2>1, PondAssumption DEF RoomRecords, PlayerRecords, Current
    <3>2. CASE p.progress + 1 >= FinishAt
      <4> DEFINE new == [p EXCEPT !.progress = @ + 1, !.solved = @ \cup {q}]
      <4>1. new.question = q
        BY <3>1 DEF PlayerRecords
      <4>2. r = [Rooms[c] EXCEPT !.status = "finished", !.players[s] = new]
        BY <3>2 DEF Ahead
      <4> HIDE DEF new, r
      <4>3. r.status = "finished" /\ r.players = [Rooms[c].players EXCEPT ![s] = new]
        BY <3>1, <4>2 DEF RoomRecords
      <4>4. r.players[s] = new /\ \A o \in Seats \ {s} : r.players[o] = Rooms[c].players[o]
        BY <3>1, <4>3 DEF RoomRecords
      <4> QED BY <3>1, <4>1, <4>3, <4>4
    <3>3. CASE ~(p.progress + 1 >= FinishAt)
      <4> DEFINE new == [progress |-> p.progress + 1, question |-> p.question + 1,
                         solved |-> p.solved \cup {q}]
      <4>1. new.question # 0
        BY <3>1
      <4>2. r = [Rooms[c] EXCEPT !.players[s] = new]
        BY <3>3 DEF Ahead
      <4> HIDE DEF new, r
      <4>3. r.status = "racing" /\ r.players = [Rooms[c].players EXCEPT ![s] = new]
        BY <2>1, <3>1, <4>2 DEF RoomRecords
      <4>4. r.players[s] = new /\ \A o \in Seats \ {s} : r.players[o] = Rooms[c].players[o]
        BY <3>1, <4>3 DEF RoomRecords
      <4> QED BY <3>1, <4>1, <4>3, <4>4
    <3> QED BY <3>2, <3>3
  <2> HIDE DEF r
  <2>5. Players(Rooms[c]) \subseteq Players(r)
    BY <2>4 DEF Players
  <2> QED BY <2>1, <2>3, <2>4, <2>5, PuttingFits
<1> QED BY <1>3, <1>4, <1>5, <1>6, <1>7, <1>8 DEF RoomStep

\* The events route admits a window only while its seat has room for one more.
LEMMA SubscribingFits ==
    ASSUME PondInvariant, StreamInvariant, NEW t \in Streams, NEW c \in RoomCodes, NEW s \in Seats,
           Subscribe(t, c, s)
    PROVE  StreamInvariant'
<1> DEFINE new == [response |-> "open", code |-> c, seat |-> s, listed |-> TRUE,
                   seen |-> PublicState(Rooms[c])]
           ss == [Listening EXCEPT ![t] = new]
<1>1. StreamsFit(Rooms, Listening) /\ Rooms \in [RoomCodes -> RoomRecords]
  BY LookingUpFits, RoomsIsFair DEF RoomsAreFair
<1>2. /\ room' = Rooms /\ stream' = ss /\ Listening[t].response = "none"
      /\ s \in Players(Rooms[c]) /\ Rooms[c].status # "finished"
      /\ Cardinality(ListeningTo(Listening, c, s)) < MaxStreams
  BY DEF Subscribe, ListeningTo
<1>3. new \in StreamRecords
  BY <1>1 DEF StreamRecords, States
<1>4. Rooms[c].status \in {"waiting", "racing"}
  BY <1>1, <1>2 DEF StreamsFit, RoomRecords
<1>5. UpToDate(new, Rooms)
  BY <1>2, <1>4 DEF UpToDate
<1>6. ss[t] = new /\ \A u \in Streams \ {t} : ss[u] = Listening[u]
  BY <1>1 DEF StreamsFit
<1>7. /\ ss = [u \in Streams |-> ss[u]]
      /\ \A u \in Streams : ss[u] \in StreamRecords /\ UpToDate(ss[u], Rooms)
  BY <1>1, <1>3, <1>5, <1>6 DEF StreamsFit
<1>8. ASSUME NEW d \in RoomCodes, NEW o \in Seats
      PROVE  Cardinality(ListeningTo(ss, d, o)) <= MaxStreams
  <2>1. Cardinality(ListeningTo(Listening, d, o)) <= MaxStreams
    BY <1>1 DEF StreamsFit
  <2>2. CASE d = c /\ o = s
    <3>1. ListeningTo(ss, c, s) \subseteq ListeningTo(Listening, c, s) \cup {t}
      BY <1>6 DEF ListeningTo
    <3>2. IsFiniteSet(ListeningTo(Listening, c, s))
      <4>1. ListeningTo(Listening, c, s) \in SUBSET Streams
        BY DEF ListeningTo
      <4> QED BY <4>1, StreamsAreLimited, FS_Subset
    <3>3. /\ IsFiniteSet(ListeningTo(Listening, c, s) \cup {t})
          /\ Cardinality(ListeningTo(Listening, c, s) \cup {t})
                <= Cardinality(ListeningTo(Listening, c, s)) + 1
          /\ Cardinality(ListeningTo(Listening, c, s)) \in Nat
      <4> DEFINE L == ListeningTo(Listening, c, s)
      <4> HIDE DEF L
      <4>1. IsFiniteSet(L)
        BY <3>2 DEF L
      <4>2. /\ IsFiniteSet(L \cup {t}) /\ Cardinality(L) \in Nat
            /\ Cardinality(L \cup {t}) = IF t \in L THEN Cardinality(L) ELSE Cardinality(L) + 1
        BY <4>1, FS_AddElement, FS_CardinalityType
      <4>3. Cardinality(L \cup {t}) <= Cardinality(L) + 1
        BY <4>2
      <4> QED BY <4>2, <4>3 DEF L
    <3>4. /\ Cardinality(ListeningTo(ss, c, s))
                <= Cardinality(ListeningTo(Listening, c, s) \cup {t})
          /\ IsFiniteSet(ListeningTo(ss, c, s))
      BY <3>1, <3>3, FS_Subset
    <3>5. /\ Cardinality(ListeningTo(ss, c, s)) \in Nat
          /\ Cardinality(ListeningTo(Listening, c, s) \cup {t}) \in Nat
      BY <3>3, <3>4, FS_CardinalityType
    <3> HIDE DEF ss
    <3> QED BY <1>2, <2>2, <3>3, <3>4, <3>5, StreamsAreLimited
  <2>3. CASE ~(d = c /\ o = s)
    <3>1. ListeningTo(ss, d, o) \subseteq ListeningTo(Listening, d, o)
      BY <1>6, <2>3 DEF ListeningTo
    <3> QED BY <2>1, <3>1, FewerListen
  <2> QED BY <2>2, <2>3
<1> HIDE DEF ss
<1>9. StreamsFit(Rooms, ss)
  BY <1>1, <1>7, <1>8 DEF StreamsFit
<1> QED BY <1>2, <1>9 DEF StreamInvariant

LEMMA StreamStepsFit ==
    ASSUME PondInvariant, StreamInvariant, NEW t \in Streams, StreamStep(t)
    PROVE  StreamInvariant'
<1>1. /\ stream = [u \in Streams |-> stream[u]]
      /\ \A u \in Streams : stream[u] \in StreamRecords /\ UpToDate(stream[u], room)
  BY DEF StreamInvariant, StreamsFit
<1>2. ASSUME room' = room, stream'[t] \in StreamRecords, UpToDate(stream'[t], room),
             stream' = [stream EXCEPT ![t] = stream'[t]],
             stream'[t].listed => /\ stream[t].listed /\ stream'[t].code = stream[t].code
                                  /\ stream'[t].seat = stream[t].seat
      PROVE  StreamInvariant'
  <2> DEFINE ss == stream'
  <2>1. \A u \in Streams \ {t} : ss[u] = stream[u]
    BY <1>1, <1>2
  <2>2. /\ ss = [u \in Streams |-> ss[u]]
        /\ \A u \in Streams : ss[u] \in StreamRecords /\ UpToDate(ss[u], room)
    BY <1>1, <1>2, <2>1
  <2>3. ASSUME NEW c \in RoomCodes, NEW s \in Seats
        PROVE  Cardinality(ListeningTo(ss, c, s)) <= MaxStreams
    <3>1. ListeningTo(ss, c, s) \subseteq ListeningTo(stream, c, s)
      BY <1>2, <2>1 DEF ListeningTo
    <3> QED BY <3>1, FewerListen DEF StreamInvariant, StreamsFit
  <2>4. StreamsFit(room, ss)
    BY <2>2, <2>3 DEF StreamInvariant, StreamsFit
  <2> QED BY <1>2, <2>4 DEF StreamInvariant
<1>3. CASE HeartbeatEnds(t)
  <2> DEFINE y == [stream[t] EXCEPT !.response = "ended", !.seen = "nothing"]
  <2>1. stream' = [stream EXCEPT ![t] = y] /\ room' = room
    BY <1>1, <1>3 DEF HeartbeatEnds
  <2>2. /\ y \in StreamRecords /\ y.code = stream[t].code /\ y.seat = stream[t].seat
        /\ y.listed = stream[t].listed /\ y.response = "ended"
    BY <1>1 DEF StreamRecords, States
  <2> HIDE DEF y
  <2>3. stream'[t] = y
    BY <1>1, <2>1
  <2>4. UpToDate(y, room)
    BY <1>1, <2>2 DEF UpToDate
  <2> QED BY <1>2, <2>1, <2>2, <2>3, <2>4
<1>4. CASE StreamCloses(t)
  <2>1. stream' = [stream EXCEPT ![t] = NoStream] /\ room' = room
    BY <1>4 DEF StreamCloses
  <2>2. NoStream \in StreamRecords /\ NoStream.listed = FALSE /\ NoStream.response = "none"
    BY DEF NoStream, StreamRecords, States
  <2>3. stream'[t] = NoStream
    BY <1>1, <2>1
  <2>4. UpToDate(NoStream, room)
    BY <2>2 DEF UpToDate
  <2> QED BY <1>2, <2>1, <2>2, <2>3, <2>4
<1>5. ASSUME NEW c \in RoomCodes, NEW s \in Seats, Subscribe(t, c, s) PROVE StreamInvariant'
  BY <1>5, SubscribingFits
<1> QED BY <1>3, <1>4, <1>5 DEF StreamStep

LEMMA StreamsStart == PondInit => StreamInvariant
<1> SUFFICES ASSUME PondInit PROVE StreamInvariant
  OBVIOUS
<1>1. NoStream \in StreamRecords /\ NoStream.listed = FALSE /\ NoStream.response = "none"
  BY DEF NoStream, StreamRecords, States
<1>2. \A t \in Streams : stream[t] = NoStream
  BY DEF PondInit
<1>3. \A t \in Streams : UpToDate(stream[t], room)
  BY <1>1, <1>2 DEF UpToDate
<1>4. \A c \in RoomCodes : Players(room[c]) = {}
  BY NoRoomIsFair DEF PondInit, Players, NoPlayer
<1>5. ASSUME NEW c \in RoomCodes, NEW s \in Seats
      PROVE  Cardinality(ListeningTo(stream, c, s)) <= MaxStreams
  <2>1. ListeningTo(stream, c, s) = {}
    BY <1>1, <1>2 DEF ListeningTo
  <2> QED BY <2>1, FS_EmptySet, StreamsAreLimited
<1>6. stream = [t \in Streams |-> stream[t]]
  BY DEF PondInit
<1> QED BY <1>1, <1>2, <1>3, <1>4, <1>5, <1>6 DEF StreamInvariant, StreamsFit

LEMMA PondStepsFit ==
    PondInvariant /\ StreamInvariant /\ [PondNext]_pondVars => StreamInvariant'
<1> SUFFICES ASSUME PondInvariant, StreamInvariant, [PondNext]_pondVars PROVE StreamInvariant'
  OBVIOUS
<1>1. CASE LookUp
  BY <1>1, LookingUpFits DEF LookUp, StreamInvariant
<1>2. CASE UNCHANGED pondVars
  BY <1>2 DEF pondVars, StreamInvariant
<1> QED BY <1>1, <1>2, RoomStepsFit, StreamStepsFit DEF PondNext

\* An event stream that is open shows its player the present state of a race that still runs,
\* and none outlives its room or its race, however rooms expire, clients slow down and windows
\* come and go (subscribeToRoom, broadcast, closeRoom, the events route).
THEOREM StreamsStayCurrent == PondSpec => []StreamsAreCurrent
<1>1. StreamInvariant => StreamsAreCurrent
  BY DEF StreamInvariant, StreamsFit, UpToDate, StreamsAreCurrent, ListeningTo
<1> QED BY <1>1, StreamsStart, PondStepsFit, RoomsStayFair, PTL DEF PondSpec

-----------------------------------------------------------------------------
(* Releases.                                                               *)

Installable == (Revisions \cup {First}) \X {"enabled", "disabled"}
Places == Activating \cup {"idle", "ready", "done", "killed"}
Sayings == {"nothing", "refused", "activated", "restored", "recovery"}
Runs == [at : Places, target : Installable \cup {NoRelease}, back : Installable \cup {NoRelease},
         restoring : BOOLEAN, said : Sayings]

ReleaseTypes ==
    /\ script \in [Scripts -> Runs]
    /\ current \in Installable /\ previous \in Installable \cup {NoRelease}
    /\ replaced \in [Scripts -> Installable \cup {NoRelease}]

\* The API is down or is the release behind the link, and was started since the link was put.
Serving ==
    /\ api \in {Down, current}
    /\ api = current => current \in served

\* Where a script is, the link is; what it replaced is what it would restore. A script during
\* whose activation another put the link knows neither.
Knows(s) ==
    LET run == script[s] IN
    /\ run.at \in {"idle", "ready"} => ~run.restoring /\ replaced[s] = NoRelease
    /\ run.at \in Activating \cup {"ready"} =>
          run.target \in Installable /\ run.back \in Installable
    /\ run.at \in Activating /\ s \notin crossed =>
          /\ run.restoring => replaced[s] \in {NoRelease, run.back}
          /\ ~run.restoring => replaced[s] = IF run.at = "link" THEN NoRelease ELSE run.back
          /\ current = IF run.at # "link" THEN Aim(s)
                       ELSE IF run.restoring THEN current ELSE run.back
          /\ run.at \in {"nginx", "gate", "last"} => Serving
          /\ run.at = "last" => current \in served

ReleaseInvariant ==
    /\ ReleaseTypes
    /\ \A s \in Scripts : Knows(s)

\* A step that leaves the link where it is, and the API with the release behind it.
LeavesLink ==
    /\ current' = current
    /\ Serving => Serving'
    /\ current \in served => current' \in served'

LEMMA InstallableIsReal == Down \notin Installable /\ NoRelease \notin Installable
BY DEF Down, NoRelease, Installable

LEMMA ModeIsKnown == \A k : Mode(k) \in {"enabled", "disabled"}
BY DEF Mode

\* What a script knows stays so in the steps of the others: one that puts the link crosses it
\* if it is activating.
LEMMA OthersKnow ==
    ASSUME NEW s \in Scripts, Knows(s), script'[s] = script[s], replaced'[s] = replaced[s],
           crossed \subseteq crossed',
           script[s].at \in Activating => s \in crossed' \/ LeavesLink
    PROVE  Knows(s)'
<1>1. Aim(s)' = Aim(s)
  BY DEF Aim
<1>2. CASE script[s].at \in Activating /\ s \notin crossed'
  BY <1>1, <1>2 DEF Knows, LeavesLink
<1>3. CASE ~(script[s].at \in Activating /\ s \notin crossed')
  BY <1>3 DEF Knows
<1> QED BY <1>2, <1>3

\* A script goes on.
LEMMA Going ==
    ASSUME ReleaseTypes, NEW s \in Scripts, NEW at \in Places, MoveTo(s, at)
    PROVE  /\ script' \in [Scripts -> Runs]
           /\ script'[s] = [script[s] EXCEPT !.at = at]
           /\ \A o \in Scripts : o # s => script'[o] = script[o]
<1> DEFINE run == [script[s] EXCEPT !.at = at]
<1>1. script \in [Scripts -> Runs] /\ script[s] \in Runs
  BY DEF ReleaseTypes
<1>2. run \in Runs
  BY <1>1 DEF Runs
<1>3. script' = [script EXCEPT ![s] = run]
  BY DEF MoveTo
<1> HIDE DEF run
<1>4. script' \in [Scripts -> Runs] /\ script'[s] = run
      /\ \A o \in Scripts : o # s => script'[o] = script[o]
  BY <1>1, <1>2, <1>3
<1> QED BY <1>4 DEF run

LEMMA Reporting ==
    ASSUME ReleaseTypes, NEW s \in Scripts, NEW said \in Sayings, Report(s, said)
    PROVE  /\ script' \in [Scripts -> Runs]
           /\ script'[s] = [script[s] EXCEPT !.at = "done", !.said = said]
           /\ \A o \in Scripts : o # s => script'[o] = script[o]
<1> DEFINE run == [script[s] EXCEPT !.at = "done", !.said = said]
<1>1. script \in [Scripts -> Runs] /\ script[s] \in Runs
  BY DEF ReleaseTypes
<1>2. run \in Runs
  BY <1>1 DEF Runs, Places
<1>3. script' = [script EXCEPT ![s] = run]
  BY DEF Report
<1> HIDE DEF run
<1>4. script' \in [Scripts -> Runs] /\ script'[s] = run
      /\ \A o \in Scripts : o # s => script'[o] = script[o]
  BY <1>1, <1>2, <1>3
<1> QED BY <1>4 DEF run

\* A step of one script, the others being where they were.
LEMMA OneActs ==
    ASSUME ReleaseInvariant, NEW s \in Scripts,
           \A o \in Scripts : o # s => script'[o] = script[o] /\ replaced'[o] = replaced[o],
           crossed \subseteq crossed',
           \A o \in Scripts : o # s /\ script[o].at \in Activating => o \in crossed' \/ LeavesLink,
           ReleaseTypes', Knows(s)'
    PROVE  ReleaseInvariant'
<1>1. ASSUME NEW o \in Scripts PROVE Knows(o)'
  <2>1. CASE o = s
    BY <2>1
  <2>2. CASE o # s
    BY <2>2, OthersKnow DEF ReleaseInvariant
  <2> QED BY <2>1, <2>2
<1> QED BY <1>1 DEF ReleaseInvariant

LEMMA StepFacts ==
    ASSUME ReleaseInvariant, NEW s \in Scripts
    PROVE  /\ script \in [Scripts -> Runs] /\ script[s] \in Runs /\ Knows(s)
           /\ current \in Installable /\ previous \in Installable \cup {NoRelease}
           /\ replaced \in [Scripts -> Installable \cup {NoRelease}]
BY DEF ReleaseInvariant, ReleaseTypes

\* The release that a script is at, while it activates.
LEMMA AimKept ==
    ASSUME NEW s \in Scripts, script'[s].target = script[s].target,
           script'[s].back = script[s].back, script'[s].restoring = script[s].restoring
    PROVE  Aim(s)' = Aim(s)
BY DEF Aim

LEMMA StartApiServes ==
    ASSUME StartApi, current \in Installable, current' = current
    PROVE  Serving' /\ LeavesLink
<1>1. current # Down
  BY InstallableIsReal
<1>2. PICK up \in BOOLEAN :
        /\ api' = IF up /\ Starts(current) THEN current ELSE Down
        /\ served' = IF up /\ Starts(current) THEN served \cup {current} ELSE served
  BY DEF StartApi
<1> QED BY <1>1, <1>2 DEF Serving, LeavesLink

LEMMA LinkStep == ASSUME ReleaseInvariant, NEW s \in Scripts, Link(s) PROVE ReleaseInvariant'
<1>1. /\ script[s].at = "link" /\ current' = Aim(s) /\ previous' = previous
      /\ replaced' = IF script[s].restoring THEN replaced ELSE [replaced EXCEPT ![s] = current]
      /\ crossed' = crossed \cup {o \in Scripts \ {s} : script[o].at \in Activating}
      /\ MoveTo(s, "unit")
  BY DEF Link
<1>2. /\ script' \in [Scripts -> Runs]
      /\ script'[s] = [script[s] EXCEPT !.at = "unit"]
      /\ \A o \in Scripts : o # s => script'[o] = script[o]
  BY <1>1, Going DEF ReleaseInvariant, Places, Activating
<1>3. /\ script'[s].at = "unit" /\ script'[s].target = script[s].target
      /\ script'[s].back = script[s].back /\ script'[s].restoring = script[s].restoring
  BY <1>2, StepFacts DEF Runs
<1>4. script[s].at \in Activating /\ script[s].restoring \in BOOLEAN
  BY <1>1, StepFacts DEF Activating, Runs
<1>5. /\ script[s].target \in Installable /\ script[s].back \in Installable
      /\ s \notin crossed =>
            /\ script[s].restoring => replaced[s] \in {NoRelease, script[s].back}
            /\ ~script[s].restoring => current = script[s].back
  BY <1>1, <1>4, StepFacts DEF Knows
<1>6. /\ replaced' \in [Scripts -> Installable \cup {NoRelease}]
      /\ replaced'[s] = IF script[s].restoring THEN replaced[s] ELSE current
      /\ \A o \in Scripts : o # s => replaced'[o] = replaced[o]
  BY <1>1, StepFacts
<1>7. Aim(s)' = current' /\ current' \in Installable
  BY <1>1, <1>3, <1>5, AimKept DEF Aim
<1>8. Knows(s)'
  BY <1>1, <1>3, <1>4, <1>5, <1>6, <1>7 DEF Knows, Activating
<1>9. ReleaseTypes'
  BY <1>1, <1>2, <1>6, <1>7, StepFacts DEF ReleaseTypes
<1> QED BY <1>1, <1>2, <1>6, <1>8, <1>9, OneActs

\* Reloading the unit, restarting the API and passing the gate.
LEMMA MovingStep ==
    ASSUME ReleaseInvariant, NEW s \in Scripts,
           Unit(s) \/ Reload(s) \/ Restart(s) \/ Nginx(s) \/ Gate(s) \/ Kill(s)
    PROVE  ReleaseInvariant'
<1>1. PICK at \in {"reload", "restart", "nginx", "gate", "last", "killed"} :
        /\ MoveTo(s, at)
        /\ at = "reload" => script[s].at = "unit"
        /\ at = "restart" => script[s].at = "reload"
        /\ at = "nginx" => script[s].at = "restart" /\ StartApi
        /\ at = "gate" => script[s].at = "nginx"
        /\ at = "last" => script[s].at = "gate" /\ api = Aim(s)
        /\ script[s].at \in Activating
        /\ at # "nginx" => UNCHANGED <<api, served>>
        /\ UNCHANGED <<current, previous, replaced, crossed>>
  BY DEF Unit, Reload, Restart, Nginx, Gate, Kill, links, host, history, Activating
<1>2. /\ script' \in [Scripts -> Runs]
      /\ script'[s] = [script[s] EXCEPT !.at = at]
      /\ \A o \in Scripts : o # s => script'[o] = script[o]
  BY <1>1, Going DEF ReleaseInvariant, Places, Activating
<1>3. /\ script'[s].at = at /\ script'[s].target = script[s].target
      /\ script'[s].back = script[s].back /\ script'[s].restoring = script[s].restoring
  BY <1>2, StepFacts DEF Runs
<1>4. Aim(s)' = Aim(s)
  BY <1>3, AimKept
<1>5. current \in Installable
  BY StepFacts
<1>6. s \notin crossed =>
        /\ at \in {"nginx", "gate", "last"} => Serving'
        /\ at = "last" => current' \in served'
  <2> SUFFICES ASSUME s \notin crossed
               PROVE  /\ at \in {"nginx", "gate", "last"} => Serving'
                      /\ at = "last" => current' \in served'
    OBVIOUS
  <2>1. CASE at = "nginx"
    BY <2>1, <1>1, <1>5, StartApiServes
  <2>2. CASE at = "gate"
    BY <2>2, <1>1, StepFacts DEF Knows, Serving, Activating
  <2>3. CASE at = "last"
    <3>1. Serving /\ current = Aim(s)
      BY <2>3, <1>1, StepFacts DEF Knows, Activating
    <3> QED BY <2>3, <3>1, <1>1 DEF Serving
  <2> QED BY <2>1, <2>2, <2>3, <1>1
<1>7. Knows(s)'
  <2>1. /\ script[s].target \in Installable /\ script[s].back \in Installable
        /\ s \notin crossed =>
              /\ script[s].restoring => replaced[s] \in {NoRelease, script[s].back}
              /\ script[s].at # "link" =>
                    /\ ~script[s].restoring => replaced[s] = script[s].back
                    /\ current = Aim(s)
    BY <1>1, StepFacts DEF Knows
  <2>2. script[s].at # "link" \/ at = "killed"
    BY <1>1
  <2> QED BY <1>1, <1>3, <1>4, <1>6, <2>1, <2>2 DEF Knows, Activating
<1>8. ReleaseTypes'
  BY <1>1, <1>2, StepFacts DEF ReleaseTypes
<1>9. LeavesLink
  <2>1. CASE at = "nginx"
    BY <2>1, <1>1, <1>5, StartApiServes
  <2>2. CASE at # "nginx"
    BY <2>2, <1>1 DEF LeavesLink, Serving
  <2> QED BY <2>1, <2>2
<1> QED BY <1>1, <1>2, <1>7, <1>8, <1>9, OneActs

\* A script that ends or starts over.
LEMMA EndingStep ==
    ASSUME ReleaseInvariant, NEW s \in Scripts, Keep(s) \/ Restored(s)
    PROVE  ReleaseInvariant'
<1>1. PICK said \in Sayings :
        /\ Report(s, said) /\ script[s].at = "last"
        /\ UNCHANGED <<current, api, served, replaced, crossed>>
  BY DEF Keep, Restored, links, host, history, Sayings
<1>2. /\ script' \in [Scripts -> Runs]
      /\ script'[s] = [script[s] EXCEPT !.at = "done", !.said = said]
      /\ \A o \in Scripts : o # s => script'[o] = script[o]
  BY <1>1, Reporting DEF ReleaseInvariant
<1>3. script'[s].at = "done"
  BY <1>2, StepFacts DEF Runs
<1>4. script[s].at \in Activating /\ script[s].back \in Installable
  BY <1>1, StepFacts DEF Activating, Knows
<1>5. previous' \in Installable \cup {NoRelease}
  BY <1>4, StepFacts DEF Keep, Restored, links
<1>6. Knows(s)'
  BY <1>3 DEF Knows, Activating
<1>7. ReleaseTypes'
  BY <1>1, <1>2, <1>5, StepFacts DEF ReleaseTypes
<1>8. LeavesLink
  BY <1>1 DEF LeavesLink, Serving
<1> QED BY <1>1, <1>2, <1>6, <1>7, <1>8, OneActs

LEMMA FailStep == ASSUME ReleaseInvariant, NEW s \in Scripts, Fail(s) PROVE ReleaseInvariant'
<1> DEFINE run == script'[s]
<1>1. script[s].at \in Activating /\ UNCHANGED <<current, previous, replaced, crossed>>
  BY DEF Fail, links
<1>2. /\ script' \in [Scripts -> Runs]
      /\ \A o \in Scripts : o # s => script'[o] = script[o]
      /\ \/ run.at = "done"
         \/ /\ run.at = "link" /\ run.restoring /\ run.back = script[s].back
            /\ run.target = script[s].target /\ ~script[s].restoring
  <2>1. CASE script[s].restoring
    <3>1. Report(s, "recovery")
      BY <2>1 DEF Fail
    <3>2. /\ script' \in [Scripts -> Runs]
          /\ script'[s] = [script[s] EXCEPT !.at = "done", !.said = "recovery"]
          /\ \A o \in Scripts : o # s => script'[o] = script[o]
      BY <3>1, Reporting DEF ReleaseInvariant, Sayings
    <3> QED BY <3>2, StepFacts DEF Runs
  <2>2. CASE ~script[s].restoring
    <3> DEFINE back == [script[s] EXCEPT !.restoring = TRUE, !.at = "link"]
    <3>1. script' = [script EXCEPT ![s] = back]
      BY <2>2 DEF Fail
    <3>2. /\ back \in Runs /\ back.at = "link" /\ back.restoring /\ back.back = script[s].back
          /\ back.target = script[s].target
      BY StepFacts DEF Runs, Places, Activating
    <3> HIDE DEF back
    <3> QED BY <2>2, <3>1, <3>2, StepFacts
  <2> QED BY <2>1, <2>2
<1>3. /\ script[s].target \in Installable /\ script[s].back \in Installable
      /\ s \notin crossed =>
            (~script[s].restoring => replaced[s] \in {NoRelease, script[s].back})
  BY <1>1, StepFacts DEF Knows
<1>4. Knows(s)'
  BY <1>1, <1>2, <1>3 DEF Knows, Activating
<1>5. ReleaseTypes'
  BY <1>1, <1>2, StepFacts DEF ReleaseTypes
<1>6. LeavesLink
  <2>1. CASE StartApi
    BY <2>1, <1>1, StepFacts, StartApiServes
  <2>2. CASE UNCHANGED <<api, served>>
    BY <2>2, <1>1 DEF LeavesLink, Serving
  <2> QED BY <2>1, <2>2 DEF Fail, host
<1> QED BY <1>1, <1>2, <1>4, <1>5, <1>6, OneActs

\* A script that is not yet activating changes nothing of the host.
LEMMA OneWaits ==
    ASSUME ReleaseInvariant, NEW s \in Scripts,
           \A o \in Scripts : o # s => script'[o] = script[o],
           script' \in [Scripts -> Runs], UNCHANGED <<links, host, history>>, Knows(s)'
    PROVE  ReleaseInvariant'
<1>1. ReleaseTypes'
  BY StepFacts DEF ReleaseTypes, links, history
<1>2. LeavesLink /\ UNCHANGED <<replaced, crossed>>
  BY DEF LeavesLink, Serving, links, host, history
<1> QED BY <1>1, <1>2, OneActs

LEMMA BeginStep == ASSUME ReleaseInvariant, NEW s \in Scripts, Begin(s) PROVE ReleaseInvariant'
<1>1. /\ script[s].at = "ready" /\ UNCHANGED <<links, host, history>>
  BY DEF Begin
<1>2. /\ script[s].target \in Installable /\ script[s].back \in Installable
      /\ ~script[s].restoring /\ replaced[s] = NoRelease
  BY <1>1, StepFacts DEF Knows
<1>3. CASE Unmoved(s) /\ MoveTo(s, "link")
  <2>1. /\ script' \in [Scripts -> Runs]
        /\ script'[s] = [script[s] EXCEPT !.at = "link"]
        /\ \A o \in Scripts : o # s => script'[o] = script[o]
    BY <1>3, Going DEF ReleaseInvariant, Places, Activating
  <2>2. /\ script'[s].at = "link" /\ script'[s].target = script[s].target
        /\ script'[s].back = script[s].back /\ script'[s].restoring = script[s].restoring
    BY <2>1, StepFacts DEF Runs
  <2>3. Knows(s)'
    BY <1>1, <1>2, <1>3, <2>2 DEF Knows, Unmoved, links, history, Activating
  <2> QED BY <1>1, <2>1, <2>3, OneWaits
<1>4. CASE Report(s, "refused")
  <2>1. /\ script' \in [Scripts -> Runs]
        /\ script'[s] = [script[s] EXCEPT !.at = "done", !.said = "refused"]
        /\ \A o \in Scripts : o # s => script'[o] = script[o]
    BY <1>4, Reporting DEF ReleaseInvariant, Sayings
  <2>2. script'[s].at = "done"
    BY <2>1, StepFacts DEF Runs
  <2>3. Knows(s)'
    BY <2>2 DEF Knows, Activating
  <2> QED BY <1>1, <2>1, <2>3, OneWaits
<1> QED BY <1>3, <1>4 DEF Begin

LEMMA PrepareReleaseStep ==
    ASSUME ReleaseInvariant, NEW s \in Scripts,
           \/ \E v \in Revisions : PrepareDeploy(s, v)
           \/ PrepareRollback(s)
    PROVE  ReleaseInvariant'
<1>1. PICK target \in Installable :
        /\ script[s].at = "idle" /\ UNCHANGED <<links, host, history>>
        /\ script' = [script EXCEPT ![s].at = "ready", ![s].target = target, ![s].back = current]
  <2>1. CASE PrepareRollback(s)
    BY <2>1, StepFacts DEF PrepareRollback
  <2>2. CASE \E v \in Revisions : PrepareDeploy(s, v)
    <3>1. PICK v \in Revisions : PrepareDeploy(s, v)
      BY <2>2
    <3>2. <<v, Mode(key)>> \in Installable
      BY ModeIsKnown DEF Installable
    <3> QED BY <3>1, <3>2 DEF PrepareDeploy
  <2> QED BY <2>1, <2>2
<1> DEFINE run == [script[s] EXCEPT !.at = "ready", !.target = target, !.back = current]
<1>2. script' = [script EXCEPT ![s] = run]
  BY <1>1
<1>3. /\ run \in Runs /\ run.at = "ready" /\ run.target = target /\ run.back = current
      /\ run.restoring = script[s].restoring
  BY StepFacts DEF Runs, Places
<1> HIDE DEF run
<1>4. /\ script' \in [Scripts -> Runs] /\ script'[s] = run
      /\ \A o \in Scripts : o # s => script'[o] = script[o]
  BY <1>2, <1>3, StepFacts
<1>5. Knows(s)'
  BY <1>1, <1>3, <1>4, StepFacts DEF Knows, history, Activating
<1> QED BY <1>1, <1>3, <1>4, <1>5, OneWaits DEF Activating

\* The API starts again, or the operator adds the key.
LEMMA HostStep ==
    ASSUME ReleaseInvariant,
           ApiRestarts \/ AddKey \/ UNCHANGED releaseVars
    PROVE  ReleaseInvariant'
<1>1. UNCHANGED <<script, links, replaced, crossed>>
  BY DEF ApiRestarts, AddKey, releaseVars, history
<1>2. LeavesLink
  <2>1. CASE ApiRestarts
    BY <2>1, StartApiServes DEF ApiRestarts, ReleaseInvariant, ReleaseTypes, links
  <2>2. CASE ~ApiRestarts
    BY <2>2 DEF AddKey, releaseVars, host, history, links, Serving, LeavesLink
  <2> QED BY <2>1, <2>2
<1>3. ASSUME NEW s \in Scripts PROVE Knows(s)'
  BY <1>1, <1>2, OthersKnow DEF ReleaseInvariant
<1> QED BY <1>1, <1>3 DEF ReleaseInvariant, ReleaseTypes, links

\* Every step keeps the invariant.
LEMMA ReleasesStart == ReleaseInit => ReleaseInvariant
<1> SUFFICES ASSUME ReleaseInit PROVE ReleaseInvariant
  OBVIOUS
<1>1. NewScript \in Runs /\ <<First, "disabled">> \in Installable /\ "idle" \notin Activating
  BY DEF NewScript, Runs, Places, Sayings, Installable, Activating
<1>2. /\ script = [s \in Scripts |-> NewScript] /\ current = <<First, "disabled">>
      /\ previous = NoRelease /\ replaced = [s \in Scripts |-> NoRelease]
  BY DEF ReleaseInit
<1>3. ReleaseTypes
  BY <1>1, <1>2 DEF ReleaseTypes
<1>4. \A s \in Scripts :
         script[s].at = "idle" /\ ~script[s].restoring /\ replaced[s] = NoRelease
  BY <1>2 DEF NewScript
<1>5. \A s \in Scripts : Knows(s)
  BY <1>1, <1>4 DEF Knows
<1> QED BY <1>1, <1>3, <1>4, <1>5 DEF ReleaseInvariant

LEMMA ReleasesStep ==
    ReleaseInvariant /\ [ReleaseNext]_releaseVars => ReleaseInvariant'
<1> SUFFICES ASSUME ReleaseInvariant, [ReleaseNext]_releaseVars PROVE ReleaseInvariant'
  OBVIOUS
<1>1. ASSUME NEW s \in Scripts, ScriptStep(s) PROVE ReleaseInvariant'
  BY <1>1, BeginStep, LinkStep, MovingStep, EndingStep, FailStep DEF ScriptStep
<1>2. ASSUME NEW s \in Deploys, NEW v \in Revisions, PrepareDeploy(s, v)
      PROVE  ReleaseInvariant'
  BY <1>2, PrepareReleaseStep DEF Scripts
<1>3. ASSUME NEW s \in Rollbacks, PrepareRollback(s) PROVE ReleaseInvariant'
  BY <1>3, PrepareReleaseStep DEF Scripts
<1>4. CASE ApiRestarts \/ AddKey \/ UNCHANGED releaseVars
  BY <1>4, HostStep
<1> QED BY <1>1, <1>2, <1>3, <1>4 DEF ReleaseNext

\* Only the last step of a script, a refusal and a failing restoration report anything.
LEMMA OthersSayNothing ==
    ASSUME ReleaseInvariant, [ReleaseNext]_releaseVars, NEW s \in Scripts,
           script'[s].said # script[s].said
    PROVE  \/ Keep(s) \/ Restored(s)
           \/ script'[s].said \in {"refused", "recovery"}
<1> DEFINE Quiet == script'[s].said = script[s].said
<1>1. script \in [Scripts -> Runs] /\ script[s] \in Runs
  BY StepFacts
<1>2. ASSUME NEW o \in Scripts, NEW at, MoveTo(o, at) PROVE Quiet
  BY <1>1, <1>2 DEF MoveTo, Runs
<1>3. ASSUME NEW o \in Scripts, NEW said, Report(o, said)
      PROVE  IF o = s THEN script'[s].said = said ELSE Quiet
  BY <1>1, <1>3 DEF Report, Runs
<1>4. ASSUME NEW o \in Scripts, NEW run \in Runs, script' = [script EXCEPT ![o] = run],
             run.said = script[o].said
      PROVE  Quiet
  BY <1>1, <1>4
<1>5. ASSUME NEW o \in Scripts, ScriptStep(o), ~Keep(o), ~Restored(o)
      PROVE  Quiet \/ script'[s].said \in {"refused", "recovery"}
  <2>1. CASE \E at \in Places : MoveTo(o, at)
    BY <1>2, <2>1
  <2>2. CASE Report(o, "refused") \/ Report(o, "recovery")
    BY <1>3, <2>2
  <2>3. CASE script' = [script EXCEPT ![o].restoring = TRUE, ![o].at = "link"]
    BY <1>1, <2>3 DEF Runs
  <2> QED
    BY <1>5, <2>1, <2>2, <2>3
       DEF ScriptStep, Begin, Link, Unit, Reload, Restart, Nginx, Gate, Fail, Kill,
           Places, Activating
<1>6. ASSUME NEW o \in Scripts, Keep(o) \/ Restored(o) PROVE o = s \/ Quiet
  <2>1. \E said : Report(o, said)
    BY <1>6 DEF Keep, Restored
  <2> QED BY <1>3, <2>1
<1>7. ASSUME NEW o \in Scripts, NEW target, NEW back,
             script' = [script EXCEPT ![o].at = "ready", ![o].target = target, ![o].back = back]
      PROVE  Quiet
  BY <1>1, <1>7 DEF Runs
<1>8. ASSUME NEW o \in Deploys, NEW v \in Revisions, PrepareDeploy(o, v) PROVE Quiet
  BY <1>7, <1>8 DEF PrepareDeploy, Scripts
<1>9. ASSUME NEW o \in Rollbacks, PrepareRollback(o) PROVE Quiet
  BY <1>7, <1>9 DEF PrepareRollback, Scripts
<1>10. CASE ApiRestarts \/ AddKey \/ UNCHANGED releaseVars
  BY <1>10 DEF ApiRestarts, AddKey, releaseVars
<1> QED BY <1>5, <1>6, <1>8, <1>9, <1>10 DEF ReleaseNext

LEMMA ReportsAreKnown ==
    ASSUME ReleaseInvariant, NEW s \in Scripts \ crossed, Keep(s) \/ Restored(s)
    PROVE  ReportIsTrue(s)
<1>1. script[s].at = "last" /\ script[s].at \in Activating
  BY DEF Keep, Restored, Activating
<1>2. /\ Knows(s) /\ script \in [Scripts -> Runs] /\ script[s] \in Runs
  BY StepFacts
<1>3. /\ current = Aim(s) /\ Serving /\ current \in served
      /\ script[s].restoring => replaced[s] \in {NoRelease, script[s].back}
      /\ ~script[s].restoring => replaced[s] = script[s].back
  BY <1>1, <1>2 DEF Knows
<1>4. current' = current /\ api' = api /\ served' = served
  BY DEF Keep, Restored, links, host, history
<1>5. CASE Keep(s)
  <2>1. /\ ~script[s].restoring /\ Report(s, "activated")
        /\ previous' = IF script[s].back # script[s].target THEN script[s].back ELSE previous
    BY <1>5 DEF Keep
  <2>2. script'[s].said = "activated"
    BY <1>2, <2>1 DEF Report, Runs
  <2>3. current = script[s].target
    BY <1>3, <2>1 DEF Aim
  <2> QED BY <1>3, <1>4, <2>1, <2>2, <2>3 DEF ReportIsTrue, Serving
<1>6. CASE Restored(s)
  <2>1. script[s].restoring /\ Report(s, "restored") /\ current = script[s].back
    BY <1>6 DEF Restored
  <2>2. script'[s].said = "restored"
    BY <1>2, <2>1 DEF Report, Runs
  <2> QED BY <1>3, <1>4, <2>1, <2>2 DEF ReportIsTrue, Serving
<1> QED BY <1>5, <1>6

\* What the scripts report of the host is so, for any number of deployments and rollbacks that
\* prepare and activate in any order without a lock, whatever failed, was killed or was
\* restarted between their steps: a script that says it is activated has put its target, has
\* seen the API come up as it and has kept what it replaced; one that says it is restored has
\* put back what it replaced. Only a script during whose own activation another put the link
\* is left out (deploy-native-release.sh, rollback-native-release.sh).
THEOREM ReportsStayTrue == ReleaseSpec => ReportsAreTrue
<1>1. ReleaseInit => ReleaseInvariant
  BY ReleasesStart
<1>2. ReleaseInvariant /\ [ReleaseNext]_releaseVars => ReleaseInvariant'
  BY ReleasesStep
<1>3. ReleaseInvariant /\ [ReleaseNext]_releaseVars
         => [\A s \in Scripts \ crossed :
               script'[s].said # script[s].said => ReportIsTrue(s)]_releaseVars
  <2> SUFFICES ASSUME ReleaseInvariant, [ReleaseNext]_releaseVars,
                      NEW s \in Scripts \ crossed, script'[s].said # script[s].said
               PROVE  ReportIsTrue(s)
    OBVIOUS
  <2>1. CASE Keep(s) \/ Restored(s)
    BY <2>1, ReportsAreKnown
  <2>2. CASE script'[s].said \in {"refused", "recovery"}
    BY <2>2 DEF ReportIsTrue
  <2> QED BY <2>1, <2>2, OthersSayNothing
<1> QED BY <1>1, <1>2, <1>3, PTL DEF ReleaseSpec, ReportsAreTrue
=============================================================================
