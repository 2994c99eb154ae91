--------------------------- MODULE ProjectSyncProofs ---------------------------
(***************************************************************************)
(* The workspace and its recovery copy hold the projects of the student    *)
(* they are shown to, for any number of students, loads and events: Fits   *)
(* is inductive as long as no queued switch passes through a student who   *)
(* has left.                                                               *)
(***************************************************************************)
EXTENDS ProjectSync, SequenceTheorems, TLAPS

\* The projects are those of s.
Of(s, projects) == \A p \in projects : "student" \in DOMAIN p /\ p.student = s

\* The queue of owner switches q, when the workspace is o's, the save engine works for a and the
\* loads of w hold back the switch that began them.  A switch that follows one to Nobody never
\* waits: nobody's workspace is empty.
QueueFits(q, o, a, w) ==
    /\ o \in Owners /\ a \in Owners
    /\ q \in Seq([next : Owners, persists : BOOLEAN])
    /\ q = <<>> => o = a
    /\ q # <<>> => q[Len(q)].next = o
    /\ \A i \in 1 .. Len(q) - 1 : q[i].next = Nobody => ~q[i + 1].persists
    /\ w # {} => q # <<>> /\ q[1].next = a
    /\ \A l, m \in w : l = m
    /\ q # <<>> /\ a = Nobody /\ w = {} => ~q[1].persists

\* A hand-off that may refresh the recovery copy is that of the student of the workspace.
LateFits(hs, o, h) ==
    /\ h \in Owners
    /\ hs \in Seq([student : Owners, replaces : BOOLEAN])
    /\ \A i \in 1 .. Len(hs) : hs[i].replaces =>
          hs[i].student \in Students /\ {o, h} \subseteq {hs[i].student, Nobody}

IsCall(c) == {"kind", "student"} \subseteq DOMAIN c

\* A load has only projects of its student; a current one is the owner's.
LoadFits(load, o) ==
    /\ {"pc", "current", "awaited", "student", "found", "plan", "merged", "call"}
          \subseteq DOMAIN load
    /\ load.student \in Owners
    /\ load.current => load.student = o
    /\ load.pc = "idle" => ~load.awaited
    /\ load.pc \in {"failed", "apply", "initial"} => load.student \in Students
    /\ Of(load.student, load.found) /\ Of(load.student, load.plan) /\ Of(load.student, load.merged)
    /\ load.student = Nobody => load.found = {}
    /\ IsCall(load.call)
    /\ load.pc = "initial" \/ load.call.kind # "idle" => load.call.student = load.student

LoadsFit(ls, o) == DOMAIN ls = Loads /\ \A l \in Loads : LoadFits(ls[l], o)

\* A creation that still counts is the owner's, and the save engine works for the owner.
ChangeFits(c, o, a) ==
    /\ {"pc", "current", "project", "call"} \subseteq DOMAIN c
    /\ IsCall(c.call)
    /\ c.pc = "create" /\ c.current =>
          /\ Of(o, {c.project}) /\ c.call.student = o
          /\ a = o /\ o \in Students

SaveFits(s, a) ==
    /\ {"pc", "call"} \subseteq DOMAIN s
    /\ IsCall(s.call)
    /\ s.pc = "call" => s.call.student = a

CopyFits(copy, o) ==
    /\ Of(copy.student, copy.projects)
    /\ copy.student = Nobody => copy.projects = {}
    /\ o # Nobody => copy.student \in {o, Nobody}

WorkspaceFits(i, o) ==
    /\ {"projects", "volatile"} \subseteq DOMAIN i
    /\ Of(o, i.projects)
    /\ i.projects # {} => o \in Students
    /\ CopyFits(i.volatile, o)

Awaiting == {l \in Loads : loads[l].awaited}

\* Between two tasks of the tab, an open or a loading workspace is that of the save engine.
EngineFits == Given /\ NextTask => active = owner

Fits ==
    /\ session \in Owners
    /\ QueueFits(switches, owner, active, Awaiting)
    /\ LateFits(late, owner, hidden)
    /\ LoadsFit(loads, owner)
    /\ ChangeFits(change, owner, active)
    /\ SaveFits(save, active)
    /\ WorkspaceFits(ide, owner)
    /\ EngineFits

FitsUnlessStrayed == strayed \/ Fits

-----------------------------------------------------------------------------
(* The queue of owner switches.                                            *)

Switch == [next : Owners, persists : BOOLEAN]
Handoff == [student : Owners, replaces : BOOLEAN]

\* A switch joins the queue.
LEMMA QueueGrows ==
    ASSUME NEW q, NEW o, NEW a, NEW w, QueueFits(q, o, a, w),
           NEW n \in Owners, NEW b \in BOOLEAN, o = Nobody => ~b
    PROVE  QueueFits(Append(q, [next |-> n, persists |-> b]), n, a, w)
<1> DEFINE e == [next |-> n, persists |-> b]
           r == Append(q, e)
<1>1. /\ q \in Seq(Switch) /\ o \in Owners /\ a \in Owners
      /\ q = <<>> => o = a
      /\ q # <<>> => q[Len(q)].next = o
      /\ \A i \in 1 .. Len(q) - 1 : q[i].next = Nobody => ~q[i + 1].persists
      /\ w # {} => q # <<>> /\ q[1].next = a
      /\ \A l, m \in w : l = m
      /\ q # <<>> /\ a = Nobody /\ w = {} => ~q[1].persists
  BY DEF QueueFits, Switch
<1>2. e \in Switch /\ e.next = n /\ e.persists = b
  BY DEF Switch
<1> HIDE DEF e
<1>3. /\ r \in Seq(Switch) /\ Len(r) = Len(q) + 1 /\ Len(q) \in Nat
      /\ \A i \in 1 .. Len(q) : r[i] = q[i]
      /\ r[Len(q) + 1] = e
  BY <1>1, <1>2
<1> HIDE DEF r
<1>4. r # <<>> /\ (q = <<>> <=> Len(q) = 0)
  BY <1>1, <1>3
<1>5. \A i \in 1 .. Len(r) - 1 : r[i].next = Nobody => ~r[i + 1].persists
  <2> TAKE i \in 1 .. Len(r) - 1
  <2>1. CASE i = Len(q)
    BY <2>1, <1>1, <1>2, <1>3, <1>4
  <2>2. CASE i # Len(q)
    BY <2>2, <1>1, <1>3
  <2> QED BY <2>1, <2>2
<1>6. q # <<>> => r[1] = q[1]
  BY <1>3, <1>4
<1>7. q = <<>> => r[1] = e
  BY <1>3, <1>4
<1>8. r \in Seq([next : Owners, persists : BOOLEAN])
  BY <1>3 DEF Switch
<1>9. /\ r[Len(r)].next = n
      /\ w # {} => r[1].next = a
      /\ a = Nobody /\ w = {} => ~r[1].persists
  BY <1>1, <1>2, <1>3, <1>6, <1>7
<1>10. QueueFits(r, n, a, w)
  BY <1>1, <1>4, <1>5, <1>8, <1>9 DEF QueueFits
<1> QED BY <1>10 DEF r, e

\* What is left of a queue without its first switch.
LEMMA QueueTail ==
    ASSUME NEW q, NEW o, NEW a, NEW w, QueueFits(q, o, a, w), q # <<>>
    PROVE  /\ Tail(q) \in Seq([next : Owners, persists : BOOLEAN])
           /\ Head(q) = q[1] /\ q[1].next \in Owners
           /\ Tail(q) = <<>> => q[1].next = o
           /\ Tail(q) # <<>> => Tail(q)[Len(Tail(q))].next = o
           /\ \A i \in 1 .. Len(Tail(q)) - 1 :
                 Tail(q)[i].next = Nobody => ~Tail(q)[i + 1].persists
           /\ Tail(q) # <<>> /\ q[1].next = Nobody => ~Tail(q)[1].persists
<1> DEFINE r == Tail(q)
<1>1. /\ q \in Seq(Switch)
      /\ q[Len(q)].next = o
      /\ \A i \in 1 .. Len(q) - 1 : q[i].next = Nobody => ~q[i + 1].persists
  BY DEF QueueFits, Switch
<1>2. /\ r \in Seq(Switch) /\ Len(r) = Len(q) - 1 /\ Len(q) \in Nat \ {0}
      /\ \A i \in 1 .. Len(r) : r[i] = q[i + 1]
      /\ Head(q) = q[1] /\ q[1] \in Switch
  BY <1>1
<1> HIDE DEF r
<1>3. r = <<>> <=> Len(q) = 1
  BY <1>2
<1>4. \A i \in 1 .. Len(r) - 1 : r[i].next = Nobody => ~r[i + 1].persists
  BY <1>1, <1>2
<1>5. /\ r = <<>> => q[1].next = o
      /\ r # <<>> => r[Len(r)].next = o
      /\ r # <<>> /\ q[1].next = Nobody => ~r[1].persists
  BY <1>1, <1>2, <1>3
<1>6. q[1].next \in Owners /\ r \in Seq([next : Owners, persists : BOOLEAN])
  BY <1>2 DEF Switch
<1> QED BY <1>2, <1>4, <1>5, <1>6 DEF r

\* The load that held back the first switch is over.
LEMMA QueueShrinks ==
    ASSUME NEW q, NEW o, NEW a, NEW w, QueueFits(q, o, a, w), NEW l \in w
    PROVE  QueueFits(Tail(q), o, a, w \ {l})
<1>1. /\ q # <<>> /\ q[1].next = a /\ o \in Owners /\ a \in Owners
      /\ w \ {l} = {}
  BY DEF QueueFits
<1> DEFINE r == Tail(q)
           v == w \ {l}
<1>2. /\ r \in Seq([next : Owners, persists : BOOLEAN])
      /\ r = <<>> => a = o
      /\ r # <<>> => r[Len(r)].next = o
      /\ \A i \in 1 .. Len(r) - 1 : r[i].next = Nobody => ~r[i + 1].persists
      /\ r # <<>> /\ a = Nobody => ~r[1].persists
  BY <1>1, QueueTail
<1>3. v = {}
  BY <1>1
<1> HIDE DEF r, v
<1>4. QueueFits(r, o, a, v)
  BY <1>1, <1>2, <1>3 DEF QueueFits
<1> QED BY <1>4 DEF r, v

\* A switch that is not the last one is over at once.
LEMMA QueueAdvances ==
    ASSUME NEW q, NEW o, NEW a, QueueFits(q, o, a, {}), q # <<>>, Head(q).next # o
    PROVE  /\ QueueFits(Tail(q), o, Head(q).next, {})
           /\ Tail(q) # <<>>
           /\ Head(q).next = Nobody => ~Head(Tail(q)).persists
<1>1. o \in Owners
  BY DEF QueueFits
<1>2. Tail(q) # <<>>
  BY QueueTail
<1>3. Head(Tail(q)) = Tail(q)[1]
  BY <1>2, QueueTail
<1> DEFINE r == Tail(q)
           n == Head(q).next
<1>4. /\ r \in Seq([next : Owners, persists : BOOLEAN]) /\ n \in Owners
      /\ r # <<>> => r[Len(r)].next = o
      /\ \A i \in 1 .. Len(r) - 1 : r[i].next = Nobody => ~r[i + 1].persists
      /\ r # <<>> /\ n = Nobody => ~r[1].persists
  BY QueueTail
<1> HIDE DEF r, n
<1>5. r # <<>> /\ Head(r) = r[1]
  BY <1>2, <1>3 DEF r
<1>6. QueueFits(r, o, n, {})
  BY <1>1, <1>4, <1>5 DEF QueueFits
<1>7. n = Nobody => ~Head(r).persists
  BY <1>4, <1>5
<1> QED BY <1>5, <1>6, <1>7 DEF r, n

\* The last switch begins the load it awaits.
LEMMA QueueStarts ==
    ASSUME NEW q, NEW o, NEW a, QueueFits(q, o, a, {}), q # <<>>, Head(q).next = o, NEW l
    PROVE  QueueFits(q, o, o, {l})
<1>1. Head(q) = q[1]
  BY QueueTail
<1> QED BY <1>1 DEF QueueFits

-----------------------------------------------------------------------------
(* The hand-offs that wait.                                                *)

LEMMA LateGrows ==
    ASSUME NEW hs, NEW o \in Owners, NEW h, LateFits(hs, o, h),
           NEW s \in Owners, NEW b \in BOOLEAN, b => s \in Students /\ {o, h} \subseteq {s, Nobody}
    PROVE  LateFits(Append(hs, [student |-> s, replaces |-> b]), o, h)
<1> DEFINE e == [student |-> s, replaces |-> b]
           r == Append(hs, e)
<1>1. hs \in Seq(Handoff)
  BY DEF LateFits, Handoff
<1>2. e \in Handoff /\ e.student = s /\ e.replaces = b
  BY DEF Handoff
<1> HIDE DEF e
<1>3. /\ r \in Seq(Handoff) /\ Len(r) = Len(hs) + 1 /\ Len(hs) \in Nat
      /\ \A i \in 1 .. Len(hs) : r[i] = hs[i]
      /\ r[Len(hs) + 1] = e
  BY <1>1, <1>2
<1> HIDE DEF r
<1>4. \A i \in 1 .. Len(r) : r[i].replaces =>
          r[i].student \in Students /\ {o, h} \subseteq {r[i].student, Nobody}
  <2> TAKE i \in 1 .. Len(r)
  <2>1. CASE i \in 1 .. Len(hs)
    BY <2>1, <1>3 DEF LateFits
  <2>2. CASE i = Len(hs) + 1
    BY <2>2, <1>2, <1>3
  <2> QED BY <2>1, <2>2, <1>3
<1>5. LateFits(r, o, h)
  BY <1>3, <1>4 DEF LateFits, Handoff
<1> QED BY <1>5 DEF r, e

LEMMA LateTail ==
    ASSUME NEW hs, NEW o \in Owners, NEW h, LateFits(hs, o, h), hs # <<>>
    PROVE  /\ LateFits(Tail(hs), o, h)
           /\ Head(hs).replaces =>
                 Head(hs).student \in Students /\ {o, h} \subseteq {Head(hs).student, Nobody}
<1> DEFINE r == Tail(hs)
<1>1. hs \in Seq(Handoff)
  BY DEF LateFits, Handoff
<1>2. /\ r \in Seq(Handoff) /\ Len(r) = Len(hs) - 1 /\ Len(hs) \in Nat \ {0}
      /\ \A i \in 1 .. Len(r) : r[i] = hs[i + 1]
      /\ Head(hs) = hs[1]
  BY <1>1
<1> HIDE DEF r
<1>3. LateFits(r, o, h)
  BY <1>2 DEF LateFits, Handoff
<1> QED BY <1>2, <1>3 DEF r, LateFits

\* Students go, and the one who comes back is the one who was hidden.
LEMMA LateChange ==
    ASSUME NEW hs, NEW o, NEW h, LateFits(hs, o, h),
           NEW p \in Owners, NEW k \in Owners, {p, k} \subseteq {o, h, Nobody}
    PROVE  LateFits(hs, p, k)
BY DEF LateFits

-----------------------------------------------------------------------------
(* The workspace.                                                          *)

\* An open workspace that fits is that of the save engine.
Steady(i) == WorkspaceFits(i, owner) /\ (i.projects # {} => active = owner)

\* j has the projects and the recovery copy of i.
SameWork(i, j) ==
    /\ {"projects", "volatile"} \subseteq DOMAIN j
    /\ j.projects = i.projects /\ j.volatile = i.volatile

LEMMA SameWorkIsSteady == \A i, j : Steady(i) /\ SameWork(i, j) => Steady(j)
BY DEF Steady, SameWork, WorkspaceFits

LEMMA SameWorkFits ==
    \A i, j, o : WorkspaceFits(i, o) /\ SameWork(i, j) => WorkspaceFits(j, o)
BY DEF SameWork, WorkspaceFits

\* A refreshed recovery copy of the student of the projects.
LEMMA ReplacedFits ==
    \A copy, s, ps, b, o :
        CopyFits(copy, o) /\ Of(s, ps) /\ (ps # {} => s = o /\ o \in Students)
        => CopyFits(Replace(copy, s, ps, b), o)
<1> TAKE copy, s, ps, b, o
<1> HAVE CopyFits(copy, o) /\ Of(s, ps) /\ (ps # {} => s = o /\ o \in Students)
<1>1. CASE ps = {} /\ copy.student = s
  BY <1>1 DEF Replace, CopyFits, NoCopy, Of
<1>2. CASE ps = {} /\ copy.student # s
  BY <1>2 DEF Replace
<1>3. CASE ps # {}
  <2> DEFINE c == [student |-> s, projects |-> ps,
                   unsynced |-> b \/ (copy.student = s /\ copy.unsynced)]
  <2>1. Replace(copy, s, ps, b) = c
    BY <1>3 DEF Replace
  <2>2. c.student = s /\ c.projects = ps
    OBVIOUS
  <2> HIDE DEF c
  <2>3. s # Nobody
    BY <1>3, StudentsAreReal
  <2>4. CopyFits(c, o)
    BY <1>3, <2>2, <2>3 DEF CopyFits
  <2> QED BY <2>1, <2>4
<1> QED BY <1>1, <1>2, <1>3

LEMMA DiscardedFits == \A copy, s, o : CopyFits(copy, o) => CopyFits(Discard(copy, s), o)
BY DEF Discard, CopyFits, NoCopy, Of

LEMMA RetainedFits ==
    \A copy, o, p : CopyFits(copy, o) => CopyFits(RetainAcross(copy, p), p)
BY DEF RetainAcross, CopyFits, NoCopy, Of

\* The recovery copy of the owner has projects of the owner.
LEMMA CopyOfFits ==
    \A s : WorkspaceFits(ide, owner) => Of(s, CopyOf(s)) /\ (CopyOf(s) # {} => s # Nobody)
BY DEF WorkspaceFits, CopyFits, CopyOf, Of

\* What the workspace is opened with, when the projects are the owner's and the engine's.
LEMMA OpenedWith ==
    ASSUME NEW i, Steady(i), NEW ps, Of(owner, ps), ps # {} => active = owner /\ owner \in Students,
           NEW j, {"projects", "volatile"} \subseteq DOMAIN j, j.projects = ps,
           j.volatile = i.volatile
    PROVE  Steady(j)
BY DEF Steady, WorkspaceFits

LEMMA RefreshedSteady ==
    \A i : Steady(i) => Steady(Refreshed(i)) /\ Refreshed(i).projects = i.projects
<1> TAKE i
<1> HAVE Steady(i)
<1>1. CASE active = Nobody \/ i.projects = {}
  BY <1>1 DEF Refreshed
<1>2. CASE ~(active = Nobody \/ i.projects = {})
  <2> DEFINE c == Replace(i.volatile, active, i.projects, TRUE)
             j == [i EXCEPT !.volatile = c]
  <2>1. Refreshed(i) = j
    BY <1>2 DEF Refreshed
  <2>2. CopyFits(c, owner)
    BY <1>2, ReplacedFits DEF Steady, WorkspaceFits
  <2> HIDE DEF c
  <2>3. j.projects = i.projects /\ j.volatile = c /\ {"projects", "volatile"} \subseteq DOMAIN j
    BY DEF Steady, WorkspaceFits
  <2> HIDE DEF j
  <2>4. Steady(j)
    BY <2>2, <2>3 DEF Steady, WorkspaceFits
  <2> QED BY <2>1, <2>3, <2>4
<1> QED BY <1>1, <1>2

LEMMA AcknowledgedSteady ==
    \A i : Steady(i) => Steady(Acknowledged(i)) /\ Acknowledged(i).projects = i.projects
<1> TAKE i
<1> HAVE Steady(i)
<1> DEFINE c == Discard(i.volatile, active)
           j == [i EXCEPT !.volatile = c]
<1>1. Acknowledged(i) = j
  BY DEF Acknowledged
<1>2. CopyFits(c, owner)
  BY DiscardedFits DEF Steady, WorkspaceFits
<1> HIDE DEF c
<1>3. j.projects = i.projects /\ j.volatile = c /\ {"projects", "volatile"} \subseteq DOMAIN j
  BY DEF Steady, WorkspaceFits
<1> HIDE DEF j
<1>4. Steady(j)
  BY <1>2, <1>3 DEF Steady, WorkspaceFits
<1> QED BY <1>1, <1>3, <1>4

LEMMA SavedStudent == \A c : Saved(c).student = c.student /\ "student" \in DOMAIN Saved(c)
BY DEF Saved, FromRow, Project

\* A saved project takes the place of the one that was sent.
LEMMA AfterSaveSteady ==
    ASSUME NEW i, Steady(i), NEW started, NEW c, c.student = active
    PROVE  Steady(AfterSave(i, started, Saved(c)))
<1> DEFINE saved == Saved(c)
           current == {p \in i.projects : p.id = started.id}
           p == CHOOSE q \in current : TRUE
           edited == p.content # started.content \/ p.dirty # started.dirty
           kept == [p EXCEPT !.id = saved.id, !.base = saved.base, !.dirty = TRUE]
           u == i.unsynced \ {started.id, saved.id}
           j == [i EXCEPT !.unsynced = u]
           x == (i.projects \ {p}) \cup {kept}
           y == (i.projects \ {p}) \cup {saved}
           jx == [j EXCEPT !.projects = x, !.pending = @ \cup {saved.id}]
           jy == [j EXCEPT !.projects = y]
<1>1. CASE current = {}
  BY <1>1 DEF AfterSave
<1>2. CASE current # {}
  <2>1. p \in i.projects /\ active = owner /\ owner \in Students
    BY <1>2 DEF Steady, WorkspaceFits
  <2>2. kept.student = p.student /\ "student" \in DOMAIN kept /\ p.student = owner
    <3>1. p.student = owner /\ "student" \in DOMAIN p
      BY <2>1 DEF Steady, WorkspaceFits, Of
    <3> HIDE DEF p, saved
    <3> QED BY <3>1
  <2>3. Of(owner, x)
    <3> HIDE DEF kept, p
    <3> QED BY <2>1, <2>2 DEF Of, Steady, WorkspaceFits
  <2>4. Of(owner, y)
    <3> HIDE DEF p
    <3> QED BY <2>1, SavedStudent DEF Of, Steady, WorkspaceFits
  <2>5. AfterSave(i, started, saved) = IF edited THEN Refreshed(jx) ELSE jy
    BY <1>2 DEF AfterSave
  <2> HIDE DEF saved, p, kept, x, y, u, edited
  <2>6. /\ {"projects", "volatile"} \subseteq DOMAIN jx
        /\ jx.projects = x /\ jx.volatile = i.volatile
    BY DEF Steady, WorkspaceFits
  <2>7. /\ {"projects", "volatile"} \subseteq DOMAIN jy
        /\ jy.projects = y /\ jy.volatile = i.volatile
    BY DEF Steady, WorkspaceFits
  <2> HIDE DEF j, jx, jy
  <2>8. Steady(jx)
    BY <2>1, <2>3, <2>6, OpenedWith
  <2>9. Steady(jy)
    BY <2>1, <2>4, <2>7, OpenedWith
  <2>10. Steady(AfterSave(i, started, saved))
    BY <2>5, <2>8, <2>9, RefreshedSteady
  <2> QED BY <2>10 DEF saved
<1> QED BY <1>1, <1>2

\* A failed save keeps the projects.
LEMMA AfterFailureSteady ==
    ASSUME NEW i, Steady(i), NEW started, NEW s
    PROVE  Steady(AfterFailure(i, started, s))
<1> DEFINE u == i.unsynced \cup {started.id}
           j == [i EXCEPT !.unsynced = u]
           c == Replace(j.volatile, s, i.projects, TRUE)
           d == Discard(j.volatile, s)
           jc == [j EXCEPT !.volatile = c]
           jd == [j EXCEPT !.volatile = d]
<1>1. AfterFailure(i, started, s) = IF s = active /\ s = owner THEN jc ELSE jd
  BY DEF AfterFailure
<1> HIDE DEF u
<1>2. /\ {"projects", "volatile"} \subseteq DOMAIN j
      /\ j.projects = i.projects /\ j.volatile = i.volatile
  BY DEF Steady, WorkspaceFits
<1>3. s = owner => CopyFits(c, owner)
  BY <1>2, ReplacedFits DEF Steady, WorkspaceFits
<1>4. CopyFits(d, owner)
  BY <1>2, DiscardedFits DEF Steady, WorkspaceFits
<1> HIDE DEF j, c, d
<1>5. /\ {"projects", "volatile"} \subseteq DOMAIN jc
      /\ {"projects", "volatile"} \subseteq DOMAIN jd
      /\ jc.projects = i.projects /\ jc.volatile = c
      /\ jd.projects = i.projects /\ jd.volatile = d
  BY <1>2
<1> HIDE DEF jc, jd
<1>6. s = owner => Steady(jc)
  BY <1>3, <1>5 DEF Steady, WorkspaceFits
<1>7. Steady(jd)
  BY <1>4, <1>5 DEF Steady, WorkspaceFits
<1> QED BY <1>1, <1>6, <1>7

\* A project is removed.
LEMMA RemovedSteady == \A i, p : Steady(i) => Steady(Removed(i, p))
<1> TAKE i, p
<1> HAVE Steady(i)
<1> DEFINE x == {q \in i.projects : q.id # p.id}
           j == [i EXCEPT !.projects = x, !.pending = @ \ {p.id}, !.unsynced = @ \ {p.id}]
<1>1. Removed(i, p) = Refreshed(j)
  BY DEF Removed
<1>2. Of(owner, x) /\ (x # {} => active = owner /\ owner \in Students)
  BY DEF Steady, WorkspaceFits, Of
<1> HIDE DEF x
<1>3. {"projects", "volatile"} \subseteq DOMAIN j /\ j.projects = x /\ j.volatile = i.volatile
  BY DEF Steady, WorkspaceFits
<1> HIDE DEF j
<1>4. Steady(j)
  BY <1>2, <1>3, OpenedWith
<1> QED BY <1>1, <1>4, RefreshedSteady

\* The created row takes the place of the local project of the owner.
LEMMA AfterCreateSteady ==
    ASSUME NEW i, Steady(i), NEW local, NEW saved, Of(owner, {saved}),
           active = owner, owner \in Students
    PROVE  Steady(AfterCreate(i, local, saved))
<1> DEFINE x == {p \in i.projects : p.id # local.id} \cup {saved}
           j == [i EXCEPT !.projects = x, !.unsynced = @ \ {local.id, saved.id}]
<1>1. AfterCreate(i, local, saved) = j
  BY DEF AfterCreate
<1>2. Of(owner, x)
  BY DEF Steady, WorkspaceFits, Of
<1> HIDE DEF x
<1>3. {"projects", "volatile"} \subseteq DOMAIN j /\ j.projects = x /\ j.volatile = i.volatile
  BY DEF Steady, WorkspaceFits
<1> HIDE DEF j
<1>4. Steady(j)
  BY <1>2, <1>3, OpenedWith
<1> QED BY <1>1, <1>4

LEMMA AfterCreateErrorSteady ==
    ASSUME NEW i, Steady(i), NEW local, Of(owner, {local}), active = owner, owner \in Students
    PROVE  Steady(AfterCreateError(i, local))
<1> DEFINE x == IF local.id \in IdsOf(i.projects) THEN i.projects ELSE i.projects \cup {local}
           j == [i EXCEPT !.unsynced = @ \cup {local.id}, !.projects = x]
<1>1. AfterCreateError(i, local) = Refreshed(j)
  BY DEF AfterCreateError
<1>2. Of(owner, x)
  BY DEF Steady, WorkspaceFits, Of
<1> HIDE DEF x
<1>3. {"projects", "volatile"} \subseteq DOMAIN j /\ j.projects = x /\ j.volatile = i.volatile
  BY DEF Steady, WorkspaceFits
<1> HIDE DEF j
<1>4. Steady(j)
  BY <1>2, <1>3, OpenedWith
<1> QED BY <1>1, <1>4, RefreshedSteady

LEMMA OpenedSteady == \A i : Steady(i) => Steady(Opened(i)) /\ Opened(i).projects = i.projects
<1> TAKE i
<1> HAVE Steady(i)
<1>1. SameWork(i, Opened(i))
  BY DEF Steady, WorkspaceFits, SameWork, Opened
<1> QED BY <1>1, SameWorkIsSteady DEF SameWork

LEMMA OfflineSteady == \A i : Steady(i) => Steady(Offline(i))
<1> TAKE i
<1> HAVE Steady(i)
<1> DEFINE j == [i EXCEPT !.pending = @ \cup IdsOf(i.projects),
                          !.unsynced = @ \cup IdsOf(i.projects)]
<1>1. SameWork(i, j)
  BY DEF Steady, WorkspaceFits, SameWork
<1>2. Offline(i) = Opened(Refreshed(j))
  BY DEF Offline
<1> HIDE DEF j
<1>3. Steady(j)
  BY <1>1, SameWorkIsSteady
<1> QED BY <1>2, <1>3, RefreshedSteady, OpenedSteady

LEMMA BlankFits ==
    \A i, o : {"projects", "volatile"} \subseteq DOMAIN i /\ CopyFits(i.volatile, o)
              => WorkspaceFits(Blank(i), o) /\ Blank(i).projects = {}
<1> TAKE i, o
<1> HAVE {"projects", "volatile"} \subseteq DOMAIN i /\ CopyFits(i.volatile, o)
<1>1. /\ {"projects", "volatile"} \subseteq DOMAIN Blank(i)
      /\ Blank(i).projects = {} /\ Blank(i).volatile = i.volatile
  BY DEF Blank
<1> QED BY <1>1 DEF WorkspaceFits, Of

-----------------------------------------------------------------------------
(* Requests and saves.                                                     *)

LEMMA CallFields ==
    \A k, s, slot, x, b :
        /\ IsCall(Call(k, s, slot, x, b))
        /\ Call(k, s, slot, x, b).student = s /\ Call(k, s, slot, x, b).kind = k
BY DEF Call, IsCall

LEMMA SaveCallFields ==
    \A p, s : /\ IsCall(SaveCall(p, s)) /\ SaveCall(p, s).student = s
              /\ SaveCall(p, s).kind # "idle"
BY CallFields DEF SaveCall

LEMMA NextCallFields ==
    \A c : IsCall(c) => /\ IsCall(NextCall(c)) /\ NextCall(c).student = c.student
                        /\ NextCall(c).kind # "idle"
<1> TAKE c
<1> HAVE IsCall(c)
<1> DEFINE d == [c EXCEPT !.kind = "probe", !.reply = "none"]
<1>1. IsCall(d) /\ d.student = c.student /\ d.kind = "probe"
  BY DEF IsCall
<1> HIDE DEF d
<1>2. \/ NextCall(c) = d
      \/ \E k, slot, x, b : k # "idle" /\ NextCall(c) = Call(k, c.student, slot, x, b)
  <2>1. "adopt" # "idle" /\ "recover" # "idle"
    OBVIOUS
  <2> QED BY <2>1 DEF NextCall, Recover, d
<1> QED BY <1>1, <1>2, CallFields

\* What the server answers leaves the request its student's.
LEMMA OutcomeFields ==
    ASSUME NEW c, IsCall(c), NEW o \in Outcomes(c)
    PROVE  /\ IsCall(o.call) /\ o.call.student = c.student /\ o.call.kind = c.kind
<1> DEFINE done   == Handled(server[c.student][c.slot], c)
           answer == [c EXCEPT !.reply = done.reply, !.row = done.row]
           failed == [c EXCEPT !.reply = "error"]
<1>1. o.call \in {answer, failed}
  BY DEF Outcomes
<1> HIDE DEF done
<1>2. IsCall(answer) /\ answer.student = c.student /\ answer.kind = c.kind
  BY DEF IsCall
<1>3. IsCall(failed) /\ failed.student = c.student /\ failed.kind = c.kind
  BY DEF IsCall
<1> HIDE DEF answer, failed
<1> QED BY <1>1, <1>2, <1>3

LEMMA NoSaveFits == SaveFits(NoSave, active) /\ SaveFits([NoSave EXCEPT !.pc = "purge"], active)
<1>1. IsCall(NoCall)
  BY CallFields DEF NoCall
<1>2. /\ {"pc", "call"} \subseteq DOMAIN NoSave /\ NoSave.call = NoCall /\ NoSave.pc = "idle"
  BY DEF NoSave
<1> QED BY <1>1, <1>2 DEF SaveFits

\* What a step of the save engine leaves behind.
Saves == Steady(ide') /\ SaveFits(save', active)

LEMMA StartProjectSaves ==
    ASSUME NEW i, Steady(i), NEW p, NEW todo, NEW force, NEW failed,
           StartProject(i, p, todo, force, failed)
    PROVE  Saves
<1>1. Steady(ide')
  BY RefreshedSteady DEF StartProject
<1>2. /\ {"pc", "call"} \subseteq DOMAIN save' /\ save'.call = SaveCall(p, active)
  BY DEF StartProject
<1>3. SaveFits(save', active)
  BY <1>2, SaveCallFields DEF SaveFits
<1> QED BY <1>1, <1>3 DEF Saves

LEMMA EndSaveSaves ==
    ASSUME NEW i, Steady(i), NEW force, NEW failed, EndSave(i, force, failed)
    PROVE  Saves
BY AcknowledgedSteady, NoSaveFits DEF EndSave, Saves

LEMMA StartRoundSaves ==
    ASSUME NEW i, Steady(i), NEW force, NEW failed, StartRound(i, force, failed)
    PROVE  Saves
<1> DEFINE j == [i EXCEPT !.pending = {}, !.queued = FALSE]
<1>1. SameWork(i, j)
  BY DEF SameWork, Steady, WorkspaceFits
<1>2. \/ EndSave(j, force, failed)
      \/ \E p, ids : StartProject(j, p, ids, force, failed)
  BY DEF StartRound
<1> HIDE DEF j
<1>3. Steady(j)
  BY <1>1, SameWorkIsSteady
<1> QED BY <1>2, <1>3, EndSaveSaves, StartProjectSaves

LEMMA ContinueSaveSaves ==
    ASSUME NEW i, Steady(i), NEW failed, ContinueSave(i, failed)
    PROVE  Saves
<1>1. \/ EndSave(i, save.force, failed)
      \/ StartRound(i, save.force, failed)
      \/ \E p : StartProject(i, p, save.todo, save.force, failed)
  BY DEF ContinueSave
<1> QED BY <1>1, EndSaveSaves, StartRoundSaves, StartProjectSaves

LEMMA BeginSaveSaves ==
    ASSUME NEW i, Steady(i), NEW force, BeginSave(i, force), SaveFits(save, active)
    PROVE  Saves
<1>1. CASE ide' = i /\ UNCHANGED save
  BY <1>1 DEF Saves
<1>2. CASE ide' = [i EXCEPT !.queued = TRUE] /\ UNCHANGED save
  <2>1. SameWork(i, ide')
    BY <1>2 DEF SameWork, Steady, WorkspaceFits
  <2> QED BY <1>2, <2>1, SameWorkIsSteady DEF Saves
<1>3. CASE StartRound(i, force, FALSE)
  BY <1>3, StartRoundSaves
<1> QED BY <1>1, <1>2, <1>3 DEF BeginSave

-----------------------------------------------------------------------------
(* Loads and mutations.                                                    *)

LEMMA NoLoadFits ==
    /\ \A o : LoadFits(NoLoad, o)
    /\ ~NoLoad.awaited /\ ~NoLoad.current
BY CallFields DEF NoLoad, LoadFits, NoCall, Owners, Of

\* No load is current any more; nothing else changes.
LEMMA StaleFits ==
    ASSUME NEW o, LoadsFit(loads, o)
    PROVE  /\ \A p : LoadsFit(Stale, p)
           /\ \A l \in Loads : ~Stale[l].current /\ Stale[l].awaited = loads[l].awaited
<1>1. \A l \in Loads : Stale[l] = [loads[l] EXCEPT !.current = FALSE]
  BY DEF Stale
<1>2. ASSUME NEW l \in Loads
      PROVE  /\ ~Stale[l].current /\ Stale[l].awaited = loads[l].awaited
             /\ \A p : LoadFits(Stale[l], p)
  <2> DEFINE x == [loads[l] EXCEPT !.current = FALSE]
  <2>1. LoadFits(loads[l], o)
    BY DEF LoadsFit
  <2>2. /\ DOMAIN x = DOMAIN loads[l]
        /\ x.current = FALSE
        /\ x.pc = loads[l].pc /\ x.awaited = loads[l].awaited /\ x.student = loads[l].student
        /\ x.found = loads[l].found /\ x.plan = loads[l].plan /\ x.merged = loads[l].merged
        /\ x.call = loads[l].call
    BY <2>1 DEF LoadFits
  <2> HIDE DEF x
  <2>3. \A p : LoadFits(x, p)
    BY <2>1, <2>2 DEF LoadFits
  <2> QED BY <1>1, <2>2, <2>3 DEF x
<1>3. DOMAIN Stale = Loads
  BY DEF Stale
<1> QED BY <1>2, <1>3 DEF LoadsFit

LEMMA StaleChangeFits ==
    ASSUME NEW o, NEW a, ChangeFits(change, o, a)
    PROVE  \A p, b : ChangeFits(StaleChange, p, b)
<1> DEFINE x == [change EXCEPT !.current = FALSE]
<1>1. DOMAIN x = DOMAIN change /\ x.current = FALSE /\ x.call = change.call
  BY DEF ChangeFits
<1>2. StaleChange = x
  BY DEF StaleChange
<1> HIDE DEF x
<1> QED BY <1>1, <1>2 DEF ChangeFits

LEMMA NoChangeFits == \A o, a : ChangeFits(NoChange, o, a)
BY CallFields DEF NoChange, ChangeFits, NoCall

\* A load of the owner begins; b says that a switch awaits it.
LEMMA StartLoadFits ==
    ASSUME LoadsFit(loads, owner), NEW a, ChangeFits(change, owner, a), owner \in Owners,
           NEW i, {"projects", "volatile"} \subseteq DOMAIN i,
           NEW b \in BOOLEAN, StartLoad(i, owner, b)
    PROVE  /\ LoadsFit(loads', owner)
           /\ \A c : ChangeFits(change', owner, c)
           /\ SameWork(i, ide')
           /\ ~b => Awaiting' = Awaiting
           /\ b => \E l \in Loads : Awaiting' = Awaiting \cup {l}
<1>1. PICK l \in Loads :
         /\ loads[l].pc = "idle"
         /\ loads' = [Stale EXCEPT ![l] =
               [NoLoad EXCEPT !.pc = "fetch", !.current = TRUE, !.awaited = b, !.student = owner]]
         /\ change' = StaleChange
         /\ ide' = [i EXCEPT !.loading = TRUE, !.suppress = TRUE]
  BY DEF StartLoad
<1> DEFINE x == [NoLoad EXCEPT !.pc = "fetch", !.current = TRUE, !.awaited = b, !.student = owner]
<1>2. /\ DOMAIN x = DOMAIN NoLoad /\ x.pc = "fetch" /\ x.current = TRUE /\ x.awaited = b
      /\ x.student = owner /\ x.found = {} /\ x.plan = {} /\ x.merged = {} /\ x.call = NoCall
  BY DEF NoLoad
<1>3. LoadFits(NoLoad, owner)
  BY NoLoadFits
<1>4. NoLoad.call = NoCall /\ NoCall.kind = "idle"
  BY CallFields DEF NoLoad, NoCall
<1> HIDE DEF x
<1>5. LoadFits(x, owner)
  BY <1>2, <1>3, <1>4 DEF LoadFits, Of
<1>6. LoadsFit(Stale, owner) /\ \A m \in Loads : Stale[m].awaited = loads[m].awaited
  BY StaleFits
<1>7. loads' = [Stale EXCEPT ![l] = x]
  BY <1>1 DEF x
<1>8. LoadsFit(loads', owner) /\ loads'[l] = x /\ \A m \in Loads \ {l} : loads'[m] = Stale[m]
  BY <1>5, <1>6, <1>7 DEF LoadsFit
<1>9. ~loads[l].awaited
  BY <1>1 DEF LoadsFit, LoadFits
<1>10. /\ ~b => Awaiting' = Awaiting
       /\ b => Awaiting' = Awaiting \cup {l}
  BY <1>2, <1>6, <1>8, <1>9 DEF Awaiting
<1>11. \A c : ChangeFits(change', owner, c)
  BY <1>1, StaleChangeFits
<1>12. SameWork(i, ide')
  BY <1>1 DEF SameWork
<1> QED BY <1>8, <1>10, <1>11, <1>12

-----------------------------------------------------------------------------
(* Steps between two tasks, which leave the owner and the engine alone.    *)

\* What NextTask brings.
LEMMA BetweenTasks ==
    ASSUME Fits, NextTask
    PROVE  /\ Steady(ide)
           /\ \A l \in Loads : loads[l].current => active = owner
           /\ owner \in Owners /\ active \in Owners
BY DEF Fits, EngineFits, Given, Steady, QueueFits

LEMMA QuietStep ==
    ASSUME Fits, NextTask, UNCHANGED <<session, owner, hidden, active, late>>,
           QueueFits(switches', owner, active, Awaiting'),
           LoadsFit(loads', owner), ChangeFits(change', owner, active), SaveFits(save', active),
           Steady(ide'), \A l \in Loads : loads'[l].current => active = owner
    PROVE  Fits'
<1>1. EngineFits'
  BY DEF EngineFits, Given, Steady
<1> QED BY <1>1 DEF Fits, Steady

\* Only the save engine, the workspace and the mutation move.
LEMMA EngineStep ==
    ASSUME Fits, NextTask, UNCHANGED <<ownerVars, loads>>, ChangeFits(change', owner, active),
           SaveFits(save', active), Steady(ide')
    PROVE  Fits'
<1>1. Awaiting' = Awaiting
  BY DEF Awaiting
<1>2. /\ QueueFits(switches', owner, active, Awaiting')
      /\ LoadsFit(loads', owner)
  BY <1>1 DEF Fits, ownerVars
<1> QED BY <1>2, QuietStep, BetweenTasks DEF ownerVars

LEMMA SaveStep ==
    ASSUME Fits, NextTask, UNCHANGED <<ownerVars, loads, change>>, Saves
    PROVE  Fits'
BY EngineStep DEF Saves, Fits

LEMMA SavingSteps ==
    ASSUME Fits, SaveAnswered \/ SavePurged \/ Autosave \/ Flush \/ PrepareSaves
    PROVE  Fits'
<1>1. CASE SaveAnswered
  <2>1. /\ NextTask /\ save.pc = "call"
        /\ UNCHANGED <<ownerVars, loads, change>>
        /\ \/ save' = [save EXCEPT !.call = NextCall(save.call)] /\ UNCHANGED ide
           \/ ContinueSave(AfterSave(ide, save.project, Saved(save.call)), save.failed)
           \/ ContinueSave(AfterFailure(ide, save.project, save.owner), TRUE)
    BY <1>1 DEF SaveAnswered
  <2>2. Steady(ide) /\ save.call.student = active /\ IsCall(save.call)
    BY <2>1, BetweenTasks DEF Fits, SaveFits
  <2>3. CASE save' = [save EXCEPT !.call = NextCall(save.call)] /\ UNCHANGED ide
    <3> DEFINE c == NextCall(save.call)
    <3>1. IsCall(c) /\ c.student = active
      BY <2>2, NextCallFields
    <3> HIDE DEF c
    <3>2. /\ DOMAIN save' = DOMAIN save /\ save'.call = c
      BY <2>3 DEF Fits, SaveFits, c
    <3>3. SaveFits(save', active)
      BY <3>1, <3>2 DEF Fits, SaveFits
    <3> QED BY <2>1, <2>2, <2>3, <3>3, SaveStep DEF Saves
  <2>4. CASE ContinueSave(AfterSave(ide, save.project, Saved(save.call)), save.failed)
    BY <2>1, <2>2, <2>4, AfterSaveSteady, ContinueSaveSaves, SaveStep
  <2>5. CASE ContinueSave(AfterFailure(ide, save.project, save.owner), TRUE)
    BY <2>1, <2>2, <2>5, AfterFailureSteady, ContinueSaveSaves, SaveStep
  <2> QED BY <2>1, <2>3, <2>4, <2>5
<1>2. CASE SavePurged
  <2>1. /\ NextTask /\ UNCHANGED <<ownerVars, loads, change>>
        /\ save' = NoSave /\ ide' = [ide EXCEPT !.unsynced = {}]
    BY <1>2 DEF SavePurged
  <2>2. SameWork(ide, ide')
    BY <2>1 DEF SameWork, Fits, WorkspaceFits
  <2> QED BY <2>1, <2>2, BetweenTasks, SameWorkIsSteady, NoSaveFits, SaveStep DEF Saves
<1>3. CASE Autosave
  <2> DEFINE i == [ide EXCEPT !.timer = FALSE]
  <2>1. /\ NextTask /\ UNCHANGED <<ownerVars, loads, change>>
        /\ BeginSave(i, FALSE)
    BY <1>3 DEF Autosave
  <2>2. SameWork(ide, i)
    BY DEF SameWork, Fits, WorkspaceFits
  <2> HIDE DEF i
  <2> QED BY <2>1, <2>2, BetweenTasks, SameWorkIsSteady, BeginSaveSaves, SaveStep DEF Fits
<1>4. CASE Flush
  <2> DEFINE r == Refreshed(ide)
             i == [r EXCEPT !.timer = FALSE]
  <2>1. /\ NextTask /\ UNCHANGED <<ownerVars, loads, change>>
        /\ BeginSave(i, FALSE)
    BY <1>4 DEF Flush
  <2>2. Steady(r)
    BY <2>1, BetweenTasks, RefreshedSteady
  <2> HIDE DEF r
  <2>3. SameWork(r, i)
    BY <2>2 DEF SameWork, Steady, WorkspaceFits
  <2> HIDE DEF i
  <2> QED BY <2>1, <2>2, <2>3, SameWorkIsSteady, BeginSaveSaves, SaveStep DEF Fits
<1>5. CASE PrepareSaves
  <2> DEFINE open == {p.id : p \in {q \in ide.projects : q.id.local \/ q.id \in ide.unsynced}}
             i == [ide EXCEPT !.pending = @ \cup open]
  <2>1. /\ NextTask /\ UNCHANGED <<ownerVars, loads, change>>
        /\ BeginSave(i, TRUE) \/ (ide' = i /\ UNCHANGED save)
    BY <1>5 DEF PrepareSaves
  <2>2. SameWork(ide, i)
    BY DEF SameWork, Fits, WorkspaceFits
  <2> HIDE DEF i
  <2>3. Steady(i) /\ SaveFits(save, active)
    BY <2>1, <2>2, BetweenTasks, SameWorkIsSteady DEF Fits
  <2>4. CASE BeginSave(i, TRUE)
    BY <2>1, <2>3, <2>4, BeginSaveSaves, SaveStep
  <2>5. CASE ide' = i /\ UNCHANGED save
    BY <2>1, <2>3, <2>5, SaveStep DEF Saves
  <2> QED BY <2>1, <2>4, <2>5
<1> QED BY <1>1, <1>2, <1>3, <1>4, <1>5

-----------------------------------------------------------------------------
(* What the student does.                                                  *)

LEMMA EditStep == ASSUME Fits, NEW p, Edit(p) PROVE Fits'
<1> DEFINE e == [p EXCEPT !.content = clock + 1, !.dirty = TRUE]
           x == (ide.projects \ {p}) \cup {e}
           i == [ide EXCEPT !.projects = x]
           j == [i EXCEPT !.pending = @ \cup {p.id}, !.timer = TRUE]
<1>1. /\ NextTask /\ p \in ide.projects
      /\ ide' = IF ide.suppress THEN i ELSE Refreshed(j)
      /\ UNCHANGED <<ownerVars, loads, change, save>>
  BY DEF Edit
<1>2. /\ Steady(ide) /\ "student" \in DOMAIN p /\ p.student = owner
      /\ active = owner /\ owner \in Students
  BY <1>1, BetweenTasks DEF Steady, WorkspaceFits, Of
<1>3. e.student = owner /\ "student" \in DOMAIN e
  BY <1>2
<1> HIDE DEF e
<1>4. Of(owner, x)
  BY <1>2, <1>3 DEF Steady, WorkspaceFits, Of
<1> HIDE DEF x
<1>5. {"projects", "volatile"} \subseteq DOMAIN i /\ i.projects = x /\ i.volatile = ide.volatile
  BY DEF Fits, WorkspaceFits
<1> HIDE DEF i
<1>6. SameWork(i, j)
  BY <1>5 DEF SameWork
<1> HIDE DEF j
<1>7. Steady(i)
  BY <1>2, <1>4, <1>5, OpenedWith
<1>8. Steady(ide')
  BY <1>1, <1>6, <1>7, SameWorkIsSteady, RefreshedSteady
<1> QED BY <1>1, <1>8, SaveStep DEF Saves, Fits

LEMMA SaveNowStep == ASSUME Fits, NEW p, SaveNow(p) PROVE Fits'
<1> DEFINE i == [ide EXCEPT !.pending = @ \cup {p.id}]
<1>1. /\ NextTask /\ UNCHANGED <<ownerVars, loads, change>>
      /\ BeginSave(i, FALSE)
  BY DEF SaveNow
<1>2. SameWork(ide, i)
  BY DEF SameWork, Fits, WorkspaceFits
<1> HIDE DEF i
<1> QED BY <1>1, <1>2, BetweenTasks, SameWorkIsSteady, BeginSaveSaves, SaveStep DEF Fits

LEMMA CreateStep == ASSUME Fits, Create PROVE Fits'
<1> DEFINE p == Project(active, LocalId([kind |-> "own", stamp |-> clock + 1]), clock + 1, 0, TRUE)
           x == ide.projects \cup {p}
           i == [ide EXCEPT !.projects = x, !.suppress = TRUE, !.unsynced = @ \cup {p.id}]
           c == SaveCall(p, active)
<1>1. /\ NextTask /\ active \in Students /\ owner = active
      /\ ide' = Refreshed(i)
      /\ change' = [pc |-> "create", current |-> TRUE, project |-> p, call |-> c]
      /\ UNCHANGED <<ownerVars, loads, save>>
  BY DEF Create
<1>2. p.student = active /\ "student" \in DOMAIN p
  BY DEF Project
<1>3. IsCall(c) /\ c.student = active
  BY SaveCallFields
<1> HIDE DEF p, c
<1>4. Of(owner, x) /\ Of(owner, {p})
  BY <1>1, <1>2 DEF Fits, WorkspaceFits, Of
<1> HIDE DEF x
<1>5. {"projects", "volatile"} \subseteq DOMAIN i /\ i.projects = x /\ i.volatile = ide.volatile
  BY DEF Fits, WorkspaceFits
<1> HIDE DEF i
<1>6. Steady(ide')
  BY <1>1, <1>4, <1>5, BetweenTasks, OpenedWith, RefreshedSteady
<1>7. ChangeFits(change', owner, active)
  BY <1>1, <1>3, <1>4 DEF ChangeFits
<1> QED BY <1>1, <1>6, <1>7, EngineStep DEF Fits

LEMMA DeleteStep == ASSUME Fits, NEW p, Delete(p) PROVE Fits'
<1> DEFINE c == Call("delete", active, p.id.slot, 0, p.base)
<1>1. /\ NextTask /\ UNCHANGED <<ownerVars, loads, save>>
      /\ \/ ide' = Removed(ide, p) /\ UNCHANGED change
         \/ ide' = ide /\ change' = [pc |-> "delete", current |-> TRUE, project |-> p, call |-> c]
  BY DEF Delete
<1>2. Steady(ide) /\ Steady(Removed(ide, p))
  BY <1>1, BetweenTasks, RemovedSteady
<1>3. IsCall(c)
  BY CallFields
<1> HIDE DEF c
<1>4. ChangeFits(change', owner, active)
  <2>1. CASE UNCHANGED change
    BY <2>1 DEF Fits
  <2>2. CASE change' = [pc |-> "delete", current |-> TRUE, project |-> p, call |-> c]
    BY <2>2, <1>3 DEF ChangeFits
  <2> QED BY <1>1, <2>1, <2>2
<1> QED BY <1>1, <1>2, <1>4, EngineStep DEF Fits

\* A load begins in the owner's workspace.
LEMMA ReloadStep ==
    ASSUME Fits, NextTask, active = owner, StartLoad(ide, owner, FALSE),
           UNCHANGED <<ownerVars, save>>
    PROVE  Fits'
<1>1. /\ LoadsFit(loads', owner) /\ ChangeFits(change', owner, active)
      /\ SameWork(ide, ide') /\ Awaiting' = Awaiting
  BY StartLoadFits DEF Fits, QueueFits, WorkspaceFits
<1>2. QueueFits(switches', owner, active, Awaiting') /\ SaveFits(save', active)
  BY <1>1 DEF Fits, ownerVars
<1>3. Steady(ide')
  BY <1>1, BetweenTasks, SameWorkIsSteady
<1> QED BY <1>1, <1>2, <1>3, QuietStep DEF ownerVars

LEMMA RouteStep == ASSUME Fits, RouteChange PROVE Fits'
<1>1. /\ NextTask /\ active = owner /\ StartLoad(ide, owner, FALSE)
      /\ UNCHANGED <<ownerVars, save>>
  BY DEF RouteChange
<1> QED BY <1>1, ReloadStep

\* The answer of a mutation that still counts leaves an open workspace with its owner.
LEMMA AfterChangeSteady ==
    ASSUME Steady(ide), ChangeFits(change, owner, active), change.pc \in {"create", "delete"}
    PROVE  Steady(IF change.current THEN AfterChange(change) ELSE ide)
<1>1. CASE change.current /\ change.pc = "create"
  <2>1. /\ Of(owner, {change.project}) /\ change.call.student = owner
        /\ active = owner /\ owner \in Students
    BY <1>1 DEF ChangeFits
  <2>2. Of(owner, {Saved(change.call)})
    BY <2>1, SavedStudent DEF Of
  <2>3. /\ Steady(AfterCreate(ide, change.project, Saved(change.call)))
        /\ Steady(AfterCreateError(ide, change.project))
    BY <2>1, <2>2, AfterCreateSteady, AfterCreateErrorSteady
  <2> QED BY <1>1, <2>3 DEF AfterChange
<1>2. CASE change.current /\ change.pc = "delete"
  BY <1>2, RemovedSteady DEF AfterChange
<1>3. CASE ~change.current
  BY <1>3
<1> QED BY <1>1, <1>2, <1>3

LEMMA EndChangeSteady ==
    ASSUME NEW i, Steady(i), NEW c, EndChange(i, c)
    PROVE  Steady(ide')
<1>1. SameWork(i, ide')
  BY DEF EndChange, SameWork, Steady, WorkspaceFits
<1> QED BY <1>1, SameWorkIsSteady

LEMMA ChangeAnsweredStep == ASSUME Fits, ChangeAnswered PROVE Fits'
<1>1. NextTask /\ UNCHANGED <<ownerVars, loads, save>>
  BY DEF ChangeAnswered
<1>2. Steady(ide) /\ ChangeFits(change, owner, active)
  BY <1>1, BetweenTasks DEF Fits
<1>3. CASE change' = [change EXCEPT !.call = NextCall(change.call)] /\ UNCHANGED ide
  <2> DEFINE c == NextCall(change.call)
  <2>1. IsCall(c) /\ c.student = change.call.student
    BY <1>2, NextCallFields DEF ChangeFits
  <2> HIDE DEF c
  <2>2. /\ DOMAIN change' = DOMAIN change /\ change'.call = c
        /\ change'.pc = change.pc /\ change'.current = change.current
        /\ change'.project = change.project
    BY <1>2, <1>3 DEF ChangeFits, c
  <2>3. ChangeFits(change', owner, active)
    BY <1>2, <2>1, <2>2 DEF ChangeFits
  <2> QED BY <1>1, <1>2, <1>3, <2>3, EngineStep DEF Fits
<1>4. CASE ~NeedsMore(change.call)
  <2> DEFINE after == IF change.current THEN AfterChange(change) ELSE ide
             purging == [change EXCEPT !.call = NoCall,
                            !.pc = IF @ = "create" THEN "created" ELSE "deleted"]
  <2>1. \/ ide' = Acknowledged(after) /\ change' = purging
        \/ EndChange(after, change) /\ change' = NoChange
    BY <1>4 DEF ChangeAnswered
  <2>2. change.pc \in {"create", "delete"}
    BY DEF ChangeAnswered
  <2>3. Steady(after)
    BY <1>2, <2>2, AfterChangeSteady
  <2> HIDE DEF after
  <2>4. CASE ide' = Acknowledged(after) /\ change' = purging
    <3>1. change'.pc \in {"created", "deleted"} /\ DOMAIN change' = DOMAIN change
          /\ change'.call = NoCall
      BY <1>2, <2>4 DEF ChangeFits
    <3>2. ChangeFits(change', owner, active)
      BY <1>2, <3>1, CallFields DEF ChangeFits, NoCall
    <3>3. Steady(ide')
      BY <2>3, <2>4, AcknowledgedSteady
    <3> QED BY <1>1, <3>2, <3>3, EngineStep DEF Fits
  <2>5. CASE EndChange(after, change) /\ change' = NoChange
    <3>1. Steady(ide')
      BY <2>3, <2>5, EndChangeSteady
    <3> QED BY <1>1, <2>5, <3>1, NoChangeFits, EngineStep DEF Fits
  <2> QED BY <2>1, <2>4, <2>5
<1> QED BY <1>3, <1>4 DEF ChangeAnswered

LEMMA ChangePurgedStep == ASSUME Fits, ChangePurged PROVE Fits'
<1> DEFINE i == [ide EXCEPT !.unsynced = {}]
<1>1. /\ NextTask /\ EndChange(i, change) /\ change' = NoChange
      /\ UNCHANGED <<ownerVars, loads, save>>
  BY DEF ChangePurged
<1>2. Steady(ide)
  BY <1>1, BetweenTasks
<1>3. SameWork(ide, i)
  BY <1>2 DEF SameWork, Steady, WorkspaceFits
<1>4. Steady(i)
  BY <1>2, <1>3, SameWorkIsSteady
<1> HIDE DEF i
<1>5. Steady(ide')
  BY <1>1, <1>4, EndChangeSteady
<1> QED BY <1>1, <1>5, NoChangeFits, EngineStep DEF Fits

-----------------------------------------------------------------------------
(* The steps of a load.                                                    *)

\* What a load and the workspace may have become after a step of load l: x is the load.
LEMMA LoadStep ==
    ASSUME Fits, NextTask, NEW l \in Loads, NEW x,
           LoadFits(x, owner), x.awaited = loads[l].awaited, x.current => loads[l].current,
           GoOn(l, x), Steady(ide'),
           UNCHANGED <<session, owner, hidden, active, late, save, change>>
    PROVE  Fits'
<1>1. loads' = [loads EXCEPT ![l] = x] /\ UNCHANGED switches
  BY DEF GoOn
<1>2. LoadsFit(loads, owner)
  BY DEF Fits
<1>3. loads'[l] = x /\ \A m \in Loads \ {l} : loads'[m] = loads[m]
  BY <1>1, <1>2 DEF LoadsFit
<1>4. LoadsFit(loads', owner)
  BY <1>1, <1>2, <1>3 DEF LoadsFit
<1>5. Awaiting' = Awaiting
  BY <1>3 DEF Awaiting
<1>6. \A m \in Loads : loads'[m].current => active = owner
  BY <1>3, BetweenTasks
<1> QED BY <1>1, <1>4, <1>5, <1>6, QuietStep DEF Fits

\* Load l is over, and the switch that awaited it, too.
LEMMA EndStep ==
    ASSUME Fits, NextTask, NEW l \in Loads, EndLoad(l), Steady(ide'),
           UNCHANGED <<session, owner, hidden, active, late, save, change>>
    PROVE  Fits'
<1>1. /\ loads' = [loads EXCEPT ![l] = NoLoad]
      /\ switches' = IF loads[l].awaited THEN Tail(switches) ELSE switches
  BY DEF EndLoad
<1>2. LoadsFit(loads, owner)
  BY DEF Fits
<1>3. loads'[l] = NoLoad /\ \A m \in Loads \ {l} : loads'[m] = loads[m]
  BY <1>1, <1>2 DEF LoadsFit
<1>4. LoadsFit(loads', owner)
  BY <1>1, <1>2, <1>3, NoLoadFits DEF LoadsFit
<1>5. Awaiting' = Awaiting \ {l}
  BY <1>3, NoLoadFits DEF Awaiting
<1>6. QueueFits(switches, owner, active, Awaiting)
  BY DEF Fits
<1>7. QueueFits(switches', owner, active, Awaiting')
  <2>1. CASE loads[l].awaited
    <3>1. l \in Awaiting
      BY <2>1 DEF Awaiting
    <3> QED BY <1>1, <1>5, <1>6, <2>1, <3>1, QueueShrinks
  <2>2. CASE ~loads[l].awaited
    <3>1. Awaiting' = Awaiting
      BY <1>5, <2>2 DEF Awaiting
    <3> QED BY <1>1, <1>6, <2>2, <3>1
  <2> QED BY <2>1, <2>2
<1>8. \A m \in Loads : loads'[m].current => active = owner
  BY <1>3, NoLoadFits, BetweenTasks
<1> QED BY <1>4, <1>7, <1>8, QuietStep DEF Fits

LEMMA LoadServedStep == ASSUME Fits, NEW l \in Loads, LoadServed(l) PROVE Fits'
<1> DEFINE s == loads[l].student
           rows == IF s = Nobody THEN {}
                   ELSE {FromRow(s, slot, server[s][slot]) :
                            slot \in {x \in Slots : Exists(server[s][x])}}
           y == [loads[l] EXCEPT !.pc = "found", !.found = rows]
           z == [loads[l] EXCEPT !.pc = "failed"]
<1>1. /\ NextTask /\ UNCHANGED <<ownerVars, ide, save, change>>
      /\ loads[l].pc = "fetch"
      /\ \/ loads' = [loads EXCEPT ![l].pc = "found", ![l].found = rows]
         \/ s # Nobody /\ loads' = [loads EXCEPT ![l].pc = "failed"]
  BY DEF LoadServed
<1>2. LoadsFit(loads, owner) /\ LoadFits(loads[l], owner)
  BY DEF Fits, LoadsFit
<1>3. Of(s, rows) /\ (s = Nobody => rows = {})
  BY DEF Of, FromRow, Project
<1> HIDE DEF rows
<1>4. CASE loads' = [loads EXCEPT ![l].pc = "found", ![l].found = rows]
  <2>1. loads' = [loads EXCEPT ![l] = y]
    BY <1>2, <1>4 DEF LoadsFit
  <2>2. /\ DOMAIN y = DOMAIN loads[l] /\ y.pc = "found" /\ y.found = rows
        /\ y.current = loads[l].current /\ y.awaited = loads[l].awaited /\ y.student = s
        /\ y.plan = loads[l].plan /\ y.merged = loads[l].merged /\ y.call = loads[l].call
    BY <1>2 DEF LoadFits
  <2> HIDE DEF y
  <2>3. LoadFits(y, owner)
    BY <1>2, <1>3, <2>2 DEF LoadFits
  <2> QED BY <1>1, <2>1, <2>2, <2>3, LoadStep, BetweenTasks DEF ownerVars, GoOn
<1>5. CASE s # Nobody /\ loads' = [loads EXCEPT ![l].pc = "failed"]
  <2>1. loads' = [loads EXCEPT ![l] = z]
    BY <1>2, <1>5 DEF LoadsFit
  <2>2. /\ DOMAIN z = DOMAIN loads[l] /\ z.pc = "failed" /\ z.found = loads[l].found
        /\ z.current = loads[l].current /\ z.awaited = loads[l].awaited /\ z.student = s
        /\ z.plan = loads[l].plan /\ z.merged = loads[l].merged /\ z.call = loads[l].call
    BY <1>2 DEF LoadFits
  <2> HIDE DEF z
  <2>3. LoadFits(z, owner)
    BY <1>2, <1>5, <2>2 DEF LoadFits, Owners
  <2> QED BY <1>1, <2>1, <2>2, <2>3, LoadStep, BetweenTasks DEF ownerVars, GoOn
<1> QED BY <1>1, <1>4, <1>5

LEMMA NewProjectOf == \A s : Of(s, {NewProject(s)})
BY DEF Of, NewProject, Project

LEMMA LoadFailedStep == ASSUME Fits, NEW l \in Loads, LoadFailed(l) PROVE Fits'
<1> DEFINE s == loads[l].student
           copy == CopyOf(s)
           fresh == {NewProject(s)}
           i == [ide EXCEPT !.projects = copy]
           j == [ide EXCEPT !.projects = fresh]
<1>1. /\ NextTask /\ loads[l].pc = "failed" /\ EndLoad(l)
      /\ UNCHANGED <<session, owner, hidden, active, late, save, change>>
      /\ \/ ide' = ide
         \/ loads[l].current /\ ide' = Offline(i)
         \/ loads[l].current /\ ide' = Offline(j)
  BY DEF LoadFailed
<1>2. LoadFits(loads[l], owner) /\ Steady(ide) /\ WorkspaceFits(ide, owner)
  BY <1>1, BetweenTasks DEF Fits, LoadsFit
<1>3. ASSUME loads[l].current
      PROVE  s = owner /\ owner \in Students /\ active = owner
  BY <1>1, <1>2, <1>3, BetweenTasks DEF LoadFits
<1>4. Of(s, copy) /\ Of(s, fresh)
  BY <1>2, CopyOfFits, NewProjectOf
<1> HIDE DEF copy, fresh
<1>5. /\ {"projects", "volatile"} \subseteq DOMAIN i
      /\ i.projects = copy /\ i.volatile = ide.volatile
      /\ {"projects", "volatile"} \subseteq DOMAIN j
      /\ j.projects = fresh /\ j.volatile = ide.volatile
  BY <1>2 DEF WorkspaceFits
<1> HIDE DEF i, j
<1>6. ASSUME loads[l].current
      PROVE  Steady(i) /\ Steady(j)
  <2>1. s = owner /\ owner \in Students /\ active = owner
    BY <1>3, <1>6
  <2>2. Of(owner, copy) /\ Of(owner, fresh)
    BY <1>4, <2>1
  <2> QED BY <1>2, <1>5, <2>1, <2>2, OpenedWith
<1>7. Steady(ide')
  BY <1>1, <1>2, <1>6, OfflineSteady
<1> QED BY <1>1, <1>7, EndStep

\* The projects of a plan are those of the student of the copy and the rows.
LEMMA PlanOf ==
    ASSUME NEW s, NEW copy, Of(s, copy), NEW remote, Of(s, remote)
    PROVE  Of(s, Plan(copy, remote).projects)
<1>1. ASSUME NEW p \in copy
      PROVE  Of(s, Reconciled(p, remote).projects)
  <2>1. p.student = s /\ "student" \in DOMAIN p
    BY DEF Of
  <2>2. RecoveredCopy(p).student = s /\ "student" \in DOMAIN RecoveredCopy(p)
    BY <2>1 DEF RecoveredCopy, Project
  <2> DEFINE same == {r \in remote : r.id = p.id}
             r == CHOOSE q \in same : TRUE
  <2>3. \/ Reconciled(p, remote).projects = {p}
        \/ Reconciled(p, remote).projects = {RecoveredCopy(p)}
        \/ Reconciled(p, remote).projects = {}
        \/ same # {} /\ Reconciled(p, remote).projects = {r}
        \/ same # {} /\ Reconciled(p, remote).projects = {r, RecoveredCopy(p)}
    BY DEF Reconciled
  <2>4. same # {} => r \in remote
    OBVIOUS
  <2> HIDE DEF r, same
  <2> QED BY <2>1, <2>2, <2>3, <2>4 DEF Of
<1>2. Plan(copy, remote).projects =
          (UNION {Reconciled(p, remote).projects : p \in copy})
          \cup {r \in remote : r.id \notin IdsOf(copy)}
  BY DEF Plan
<1> QED BY <1>1, <1>2 DEF Of

LEMMA LoadFoundStep == ASSUME Fits, NEW l \in Loads, LoadFound(l) PROVE Fits'
<1> DEFINE load == loads[l]
           s == load.student
           copy == CopyOf(s)
           plan == Plan(copy, load.found)
           p == NewProject(s)
           c == SaveCall(p, s)
           i == [ide EXCEPT !.projects = load.found]
           j == [ide EXCEPT !.projects = {p}, !.unsynced = @ \cup {p.id}]
           y == [load EXCEPT !.pc = "apply", !.plan = plan.projects, !.merged = plan.projects,
                             !.writes = plan.writes, !.todo = plan.writes]
           z == [load EXCEPT !.pc = "initial", !.writes = {p}, !.call = c]
<1>1. /\ NextTask /\ load.pc = "found"
      /\ UNCHANGED <<session, owner, hidden, active, late, save, change>>
      /\ \/ EndLoad(l) /\ ide' = ide
         \/ load.current /\ copy # {} /\ GoOn(l, y) /\ ide' = ide
         \/ load.current /\ EndLoad(l) /\ ide' = Opened(i)
         \/ load.current /\ s # Nobody /\ GoOn(l, z) /\ ide' = Refreshed(j)
  BY DEF LoadFound
<1>2. LoadFits(load, owner) /\ Steady(ide) /\ WorkspaceFits(ide, owner)
  BY <1>1, BetweenTasks DEF Fits, LoadsFit
<1>3. /\ Of(s, copy) /\ (copy # {} => s # Nobody)
      /\ Of(s, load.found) /\ (s = Nobody => load.found = {})
      /\ s \in Owners
      /\ load.current => s = owner /\ active = owner
  BY <1>1, <1>2, CopyOfFits, BetweenTasks DEF LoadFits
<1>4. CASE EndLoad(l) /\ ide' = ide
  BY <1>1, <1>2, <1>4, EndStep
<1>5. CASE load.current /\ copy # {} /\ GoOn(l, y) /\ ide' = ide
  <2>1. Of(s, plan.projects)
    BY <1>3, PlanOf
  <2> HIDE DEF plan, copy
  <2>2. /\ DOMAIN y = DOMAIN load /\ y.pc = "apply" /\ y.plan = plan.projects
        /\ y.merged = plan.projects
        /\ y.current = load.current /\ y.awaited = load.awaited /\ y.student = s
        /\ y.found = load.found /\ y.call = load.call
    BY <1>2 DEF LoadFits
  <2> HIDE DEF y
  <2>3. LoadFits(y, owner)
    <3>1. s \in Students
      BY <1>3, <1>5 DEF Owners
    <3> QED BY <1>1, <1>2, <2>1, <2>2, <3>1 DEF LoadFits
  <2> QED BY <1>1, <1>2, <1>5, <2>2, <2>3, LoadStep
<1>6. CASE load.current /\ EndLoad(l) /\ ide' = Opened(i)
  <2>1. /\ {"projects", "volatile"} \subseteq DOMAIN i
        /\ i.projects = load.found /\ i.volatile = ide.volatile
    BY <1>2 DEF WorkspaceFits
  <2> HIDE DEF i
  <2>2. load.found # {} => owner \in Students
    BY <1>3, <1>6 DEF Owners
  <2>3. Steady(i)
    BY <1>2, <1>3, <1>6, <2>1, <2>2, OpenedWith
  <2> QED BY <1>1, <1>6, <2>3, OpenedSteady, EndStep
<1>7. CASE load.current /\ s # Nobody /\ GoOn(l, z) /\ ide' = Refreshed(j)
  <2>1. IsCall(c) /\ c.student = s /\ Of(s, {p})
    BY SaveCallFields, NewProjectOf
  <2>2. s \in Students
    BY <1>3, <1>7 DEF Owners
  <2> HIDE DEF p, c
  <2>3. {"projects", "volatile"} \subseteq DOMAIN j /\ j.projects = {p} /\ j.volatile = ide.volatile
    BY <1>2 DEF WorkspaceFits
  <2>4. /\ DOMAIN z = DOMAIN load /\ z.pc = "initial" /\ z.call = c
        /\ z.current = load.current /\ z.awaited = load.awaited /\ z.student = s
        /\ z.found = load.found /\ z.plan = load.plan /\ z.merged = load.merged
    BY <1>2 DEF LoadFits
  <2> HIDE DEF j, z
  <2>5. Steady(j)
    BY <1>2, <1>3, <1>7, <2>1, <2>2, <2>3, OpenedWith
  <2>6. LoadFits(z, owner)
    BY <1>2, <2>1, <2>2, <2>4 DEF LoadFits
  <2> QED BY <1>1, <1>7, <2>4, <2>5, <2>6, RefreshedSteady, LoadStep
<1> QED BY <1>1, <1>4, <1>5, <1>6, <1>7

LEMMA LoadAppliesStep == ASSUME Fits, NEW l \in Loads, LoadApplies(l) PROVE Fits'
<1> DEFINE load == loads[l]
           s == load.student
           done == load.call.kind # "idle"
           target == CHOOSE p \in load.writes \ load.todo : p.content = load.call.content
           merged == IF done THEN {p \in load.merged : p.id # target.id} \cup {Saved(load.call)}
                     ELSE load.merged
           distinct == {p \in merged : p \in load.found => p.id \notin IdsOf(merged \ load.found)}
           kept == [ide EXCEPT !.projects = load.plan, !.pending = @ \cup IdsOf(load.writes),
                               !.unsynced = @ \cup IdsOf(load.writes)]
           over == [ide EXCEPT !.projects = distinct]
           next == NextCall(load.call)
           y == [load EXCEPT !.call = next]
           z(p) == [load EXCEPT !.merged = merged, !.todo = @ \ {p}, !.call = SaveCall(p, s)]
           w == [load EXCEPT !.pc = "applied", !.call = NoCall]
<1>1. /\ NextTask /\ load.pc = "apply"
      /\ UNCHANGED <<session, owner, hidden, active, late, save, change>>
      /\ \/ done /\ GoOn(l, y) /\ ide' = ide
         \/ EndLoad(l) /\ ide' = IF load.current THEN Opened(Refreshed(kept)) ELSE ide
         \/ (\E p : GoOn(l, z(p))) /\ ide' = ide
         \/ EndLoad(l) /\ ide' = ide
         \/ load.current /\ GoOn(l, w) /\ ide' = Acknowledged(over)
  BY DEF LoadApplies, NeedsMore
<1>2. LoadFits(load, owner) /\ Steady(ide) /\ WorkspaceFits(ide, owner)
  BY <1>1, BetweenTasks DEF Fits, LoadsFit
<1>3. /\ Of(s, load.plan) /\ Of(s, load.merged) /\ s \in Students
      /\ load.current => s = owner /\ active = owner
      /\ done => load.call.student = s
  BY <1>1, <1>2, BetweenTasks DEF LoadFits
<1>4. Of(s, merged)
  <2>1. done => Of(s, {Saved(load.call)})
    BY <1>3, SavedStudent DEF Of
  <2> HIDE DEF done, target
  <2> QED BY <1>3, <2>1 DEF Of
<1>5. Of(s, distinct)
  <2> HIDE DEF merged
  <2> QED BY <1>4 DEF Of
<1> HIDE DEF done, target, merged, distinct, next
<1>6. CASE done /\ GoOn(l, y) /\ ide' = ide
  <2>1. IsCall(next) /\ next.student = s
    BY <1>2, <1>3, <1>6, NextCallFields DEF LoadFits, next
  <2>2. /\ DOMAIN y = DOMAIN load /\ y.pc = "apply" /\ y.plan = load.plan
        /\ y.merged = load.merged
        /\ y.current = load.current /\ y.awaited = load.awaited /\ y.student = s
        /\ y.found = load.found /\ y.call = next
    BY <1>1, <1>2 DEF LoadFits
  <2> HIDE DEF y
  <2>3. LoadFits(y, owner)
    BY <1>2, <1>3, <2>1, <2>2 DEF LoadFits
  <2> QED BY <1>1, <1>2, <1>6, <2>2, <2>3, LoadStep
<1>7. CASE EndLoad(l) /\ ide' = IF load.current THEN Opened(Refreshed(kept)) ELSE ide
  <2>1. /\ {"projects", "volatile"} \subseteq DOMAIN kept
        /\ kept.projects = load.plan /\ kept.volatile = ide.volatile
    BY <1>2 DEF WorkspaceFits
  <2> HIDE DEF kept
  <2>2. load.current => Steady(kept)
    BY <1>2, <1>3, <2>1, OpenedWith
  <2> QED BY <1>1, <1>2, <1>7, <2>2, OpenedSteady, RefreshedSteady, EndStep
<1>8. CASE (\E p : GoOn(l, z(p))) /\ ide' = ide
  <2>1. PICK p : GoOn(l, z(p))
    BY <1>8
  <2> DEFINE c == SaveCall(p, s)
             x == z(p)
  <2>2. IsCall(c) /\ c.student = s
    BY SaveCallFields
  <2> HIDE DEF c
  <2>3. /\ DOMAIN x = DOMAIN load /\ x.pc = "apply" /\ x.plan = load.plan
        /\ x.merged = merged
        /\ x.current = load.current /\ x.awaited = load.awaited /\ x.student = s
        /\ x.found = load.found /\ x.call = c
    BY <1>1, <1>2 DEF LoadFits, c
  <2>4. GoOn(l, x)
    BY <2>1
  <2> HIDE DEF x, z
  <2>5. LoadFits(x, owner)
    BY <1>2, <1>3, <1>4, <2>2, <2>3 DEF LoadFits
  <2> QED BY <1>1, <1>2, <1>8, <2>3, <2>4, <2>5, LoadStep
<1>9. CASE EndLoad(l) /\ ide' = ide
  BY <1>1, <1>2, <1>9, EndStep
<1>10. CASE load.current /\ GoOn(l, w) /\ ide' = Acknowledged(over)
  <2>1. /\ {"projects", "volatile"} \subseteq DOMAIN over
        /\ over.projects = distinct /\ over.volatile = ide.volatile
    BY <1>2 DEF WorkspaceFits
  <2> HIDE DEF over
  <2>2. Steady(Acknowledged(over))
    BY <1>2, <1>3, <1>5, <1>10, <2>1, OpenedWith, AcknowledgedSteady
  <2>3. /\ DOMAIN w = DOMAIN load /\ w.pc = "applied" /\ w.plan = load.plan
        /\ w.merged = load.merged
        /\ w.current = load.current /\ w.awaited = load.awaited /\ w.student = s
        /\ w.found = load.found /\ w.call = NoCall
    BY <1>2 DEF LoadFits
  <2> HIDE DEF w
  <2>4. LoadFits(w, owner)
    BY <1>2, <2>3, CallFields DEF LoadFits, NoCall
  <2> QED BY <1>1, <1>10, <2>2, <2>3, <2>4, LoadStep
<1> QED BY <1>1, <1>6, <1>7, <1>8, <1>9, <1>10

LEMMA LoadCreatesStep == ASSUME Fits, NEW l \in Loads, LoadCreates(l) PROVE Fits'
<1> DEFINE load == loads[l]
           s == load.student
           local == CHOOSE p \in load.writes : TRUE
           next == NextCall(load.call)
           y == [load EXCEPT !.call = next]
           z == [load EXCEPT !.pc = "failed"]
           made == AfterCreate(ide, local, Saved(load.call))
           w == [load EXCEPT !.pc = "created", !.call = NoCall]
<1>1. /\ NextTask /\ load.pc = "initial"
      /\ UNCHANGED <<session, owner, hidden, active, late, save, change>>
      /\ \/ GoOn(l, y) /\ ide' = ide
         \/ EndLoad(l) /\ ide' = IF load.current THEN Opened(made) ELSE ide
         \/ GoOn(l, z) /\ ide' = ide
         \/ load.current /\ GoOn(l, w) /\ ide' = Acknowledged(made)
  BY DEF LoadCreates
<1>2. LoadFits(load, owner) /\ Steady(ide)
  BY <1>1, BetweenTasks DEF Fits, LoadsFit
<1>3. /\ s \in Students /\ load.call.student = s
      /\ load.current => s = owner /\ active = owner
  BY <1>1, <1>2, BetweenTasks DEF LoadFits
<1> HIDE DEF local
<1>4. CASE GoOn(l, y) /\ ide' = ide
  <2>1. IsCall(next) /\ next.student = s
    BY <1>2, <1>3, NextCallFields DEF LoadFits
  <2> HIDE DEF next
  <2>2. /\ DOMAIN y = DOMAIN load /\ y.pc = "initial" /\ y.plan = load.plan
        /\ y.merged = load.merged
        /\ y.current = load.current /\ y.awaited = load.awaited /\ y.student = s
        /\ y.found = load.found /\ y.call = next
    BY <1>1, <1>2 DEF LoadFits
  <2> HIDE DEF y
  <2>3. LoadFits(y, owner)
    BY <1>2, <1>3, <2>1, <2>2 DEF LoadFits
  <2> QED BY <1>1, <1>2, <1>4, <2>2, <2>3, LoadStep
<1>5. CASE EndLoad(l) /\ ide' = IF load.current THEN Opened(made) ELSE ide
  <2>1. load.current => Steady(made)
    <3>1. load.current => Of(owner, {Saved(load.call)})
      BY <1>3, SavedStudent DEF Of
    <3> QED BY <1>2, <1>3, <3>1, AfterCreateSteady
  <2> HIDE DEF made
  <2> QED BY <1>1, <1>2, <1>5, <2>1, OpenedSteady, EndStep
<1>6. CASE GoOn(l, z) /\ ide' = ide
  <2>1. /\ DOMAIN z = DOMAIN load /\ z.pc = "failed" /\ z.plan = load.plan
        /\ z.merged = load.merged
        /\ z.current = load.current /\ z.awaited = load.awaited /\ z.student = s
        /\ z.found = load.found /\ z.call = load.call
    BY <1>2 DEF LoadFits
  <2> HIDE DEF z
  <2>2. LoadFits(z, owner)
    BY <1>2, <1>3, <2>1 DEF LoadFits
  <2> QED BY <1>1, <1>2, <1>6, <2>1, <2>2, LoadStep
<1>7. CASE load.current /\ GoOn(l, w) /\ ide' = Acknowledged(made)
  <2>1. Of(owner, {Saved(load.call)})
    BY <1>3, <1>7, SavedStudent DEF Of
  <2>2. Steady(made)
    BY <1>2, <1>3, <1>7, <2>1, AfterCreateSteady
  <2> HIDE DEF made
  <2>3. /\ DOMAIN w = DOMAIN load /\ w.pc = "created" /\ w.plan = load.plan
        /\ w.merged = load.merged
        /\ w.current = load.current /\ w.awaited = load.awaited /\ w.student = s
        /\ w.found = load.found /\ w.call = NoCall
    BY <1>2 DEF LoadFits
  <2> HIDE DEF w
  <2>4. LoadFits(w, owner)
    BY <1>2, <2>3, CallFields DEF LoadFits, NoCall
  <2> QED BY <1>1, <1>7, <2>2, <2>3, <2>4, AcknowledgedSteady, LoadStep
<1> QED BY <1>1, <1>4, <1>5, <1>6, <1>7

LEMMA LoadPurgedStep == ASSUME Fits, NEW l \in Loads, LoadPurged(l) PROVE Fits'
<1> DEFINE i == IF loads[l].pc = "created" THEN [ide EXCEPT !.unsynced = {}] ELSE ide
<1>1. /\ NextTask /\ EndLoad(l)
      /\ ide' = IF loads[l].current THEN Opened(i) ELSE i
      /\ UNCHANGED <<session, owner, hidden, active, late, save, change>>
  BY DEF LoadPurged
<1>2. Steady(ide)
  BY <1>1, BetweenTasks
<1>3. SameWork(ide, i)
  BY <1>2 DEF SameWork, Steady, WorkspaceFits
<1>4. Steady(i)
  BY <1>2, <1>3, SameWorkIsSteady
<1> HIDE DEF i
<1>5. Steady(ide')
  BY <1>1, <1>4, OpenedSteady
<1> QED BY <1>1, <1>5, EndStep

-----------------------------------------------------------------------------
(* The server.                                                             *)

LEMMA ServeSaveStep == ASSUME Fits, ServeSave PROVE Fits'
<1>1. /\ NextTask /\ UNCHANGED <<ownerVars, ide, loads, change>>
      /\ \E o \in Outcomes(save.call) : save' = [save EXCEPT !.call = o.call]
  BY DEF ServeSave
<1>2. PICK o \in Outcomes(save.call) : save' = [save EXCEPT !.call = o.call]
  BY <1>1
<1>3. SaveFits(save, active)
  BY DEF Fits
<1> DEFINE c == o.call
<1>4. IsCall(c) /\ c.student = save.call.student
  BY <1>3, OutcomeFields DEF SaveFits
<1>5. DOMAIN save' = DOMAIN save /\ save'.call = c /\ save'.pc = save.pc
  BY <1>2, <1>3 DEF SaveFits
<1> HIDE DEF c
<1>6. SaveFits(save', active)
  BY <1>3, <1>4, <1>5 DEF SaveFits
<1> QED BY <1>1, <1>6, BetweenTasks, SaveStep DEF Saves

LEMMA ServeChangeStep == ASSUME Fits, ServeChange PROVE Fits'
<1>1. /\ NextTask /\ UNCHANGED <<ownerVars, ide, save, loads>>
      /\ \E o \in Outcomes(change.call) : change' = [change EXCEPT !.call = o.call]
  BY DEF ServeChange
<1>2. PICK o \in Outcomes(change.call) : change' = [change EXCEPT !.call = o.call]
  BY <1>1
<1>3. ChangeFits(change, owner, active)
  BY DEF Fits
<1> DEFINE c == o.call
<1>4. IsCall(c) /\ c.student = change.call.student
  BY <1>3, OutcomeFields DEF ChangeFits
<1>5. /\ DOMAIN change' = DOMAIN change /\ change'.call = c /\ change'.pc = change.pc
      /\ change'.current = change.current /\ change'.project = change.project
  BY <1>2, <1>3 DEF ChangeFits
<1> HIDE DEF c
<1>6. ChangeFits(change', owner, active)
  BY <1>3, <1>4, <1>5 DEF ChangeFits
<1> QED BY <1>1, <1>6, BetweenTasks, EngineStep DEF Fits

LEMMA ServeLoadStep == ASSUME Fits, NEW l \in Loads, ServeLoad(l) PROVE Fits'
<1> DEFINE load == loads[l]
<1>1. /\ NextTask /\ UNCHANGED <<ownerVars, ide, save, change>>
      /\ \E o \in Outcomes(load.call) : loads' = [loads EXCEPT ![l].call = o.call]
  BY DEF ServeLoad
<1>2. PICK o \in Outcomes(load.call) : loads' = [loads EXCEPT ![l].call = o.call]
  BY <1>1
<1>3. LoadsFit(loads, owner) /\ LoadFits(load, owner)
  BY DEF Fits, LoadsFit
<1> DEFINE c == o.call
           y == [load EXCEPT !.call = c]
<1>4. IsCall(c) /\ c.student = load.call.student /\ c.kind = load.call.kind
  BY <1>3, OutcomeFields DEF LoadFits
<1> HIDE DEF c
<1>5. loads' = [loads EXCEPT ![l] = y]
  BY <1>2, <1>3 DEF LoadsFit, c
<1>6. /\ DOMAIN y = DOMAIN load /\ y.pc = load.pc /\ y.plan = load.plan
      /\ y.merged = load.merged
      /\ y.current = load.current /\ y.awaited = load.awaited /\ y.student = load.student
      /\ y.found = load.found /\ y.call = c
  BY <1>3 DEF LoadFits
<1> HIDE DEF y
<1>7. LoadFits(y, owner)
  BY <1>3, <1>4, <1>6 DEF LoadFits
<1> QED BY <1>1, <1>5, <1>6, <1>7, BetweenTasks, LoadStep DEF ownerVars, GoOn

LEMMA OtherDeviceStep ==
    ASSUME Fits, NEW s, NEW slot, OtherDeviceSaves(s, slot) \/ OtherDeviceDeletes(s, slot)
    PROVE  Fits'
<1>1. NextTask /\ UNCHANGED <<ownerVars, ide, save, loads, change>>
  BY DEF OtherDeviceSaves, OtherDeviceDeletes
<1> QED BY <1>1, BetweenTasks, EngineStep DEF Fits

-----------------------------------------------------------------------------
(* The owner of the workspace.                                             *)

\* Nothing is open or loading.
LEMMA NothingGiven ==
    ASSUME ide'.projects = {}, \A l \in Loads : ~loads'[l].current
    PROVE  EngineFits'
BY DEF EngineFits, Given

LEMMA ChangeOwnerStep ==
    ASSUME Fits, NextTask, NEW next \in Owners, ChangeOwner(ide, next),
           UNCHANGED <<active, save>>, session' \in Owners, LateFits(late', next, hidden')
    PROVE  Fits'
<1>1. CASE next = owner
  <2>1. owner' = owner /\ ide' = ide /\ UNCHANGED <<switches, loads, change>>
    BY <1>1 DEF ChangeOwner
  <2>2. Awaiting' = Awaiting
    BY <2>1 DEF Awaiting
  <2>3. EngineFits'
    BY <2>1, BetweenTasks DEF EngineFits, Given, Steady
  <2> QED BY <1>1, <2>1, <2>2, <2>3 DEF Fits
<1>2. CASE next # owner
  <2> DEFINE v == RetainAcross(ide.volatile, next)
             i == [ide EXCEPT !.volatile = v]
             b == ide.projects # {}
             e == [next |-> next, persists |-> i.projects # {}]
  <2>1. /\ owner' = next /\ ide' = Blank(i)
        /\ switches' = Append(switches, e)
        /\ loads' = Stale /\ change' = StaleChange
    BY <1>2 DEF ChangeOwner
  <2>2. WorkspaceFits(ide, owner) /\ CopyFits(v, next)
    BY RetainedFits DEF Fits, WorkspaceFits
  <2> HIDE DEF v
  <2>3. {"projects", "volatile"} \subseteq DOMAIN i /\ i.projects = ide.projects /\ i.volatile = v
    BY <2>2 DEF WorkspaceFits
  <2> HIDE DEF i
  <2>4. WorkspaceFits(ide', next) /\ ide'.projects = {}
    BY <2>1, <2>2, <2>3, BlankFits
  <2>5. e = [next |-> next, persists |-> b] /\ b \in BOOLEAN /\ (owner = Nobody => ~b)
    BY <2>2, <2>3, StudentsAreReal DEF WorkspaceFits
  <2> HIDE DEF e, b
  <2>6. QueueFits(switches', next, active, Awaiting)
    BY <2>1, <2>5, QueueGrows DEF Fits
  <2>7. /\ LoadsFit(loads', next)
        /\ \A l \in Loads : ~loads'[l].current /\ loads'[l].awaited = loads[l].awaited
    BY <2>1, StaleFits DEF Fits
  <2>8. Awaiting' = Awaiting
    BY <2>7 DEF Awaiting
  <2>9. ChangeFits(change', next, active)
    BY <2>1, StaleChangeFits DEF Fits
  <2>10. EngineFits'
    BY <2>4, <2>7, NothingGiven
  <2> QED BY <2>1, <2>4, <2>6, <2>7, <2>8, <2>9, <2>10 DEF Fits
<1> QED BY <1>1, <1>2

LEMMA HideStep == ASSUME Fits, Hide PROVE Fits'
<1> DEFINE e == [student |-> owner, replaces |-> TRUE]
<1>1. /\ NextTask /\ owner \in Students /\ hidden' = owner
      /\ late' = IF active = owner THEN Append(late, e) ELSE late
      /\ ChangeOwner(ide, Nobody)
      /\ UNCHANGED <<session, active, save>>
  BY DEF Hide
<1>2. Nobody \in Owners /\ owner \in Owners
  BY <1>1 DEF Owners
<1>3. LateFits(late, Nobody, owner)
  BY <1>2, LateChange DEF Fits
<1>4. LateFits(late', Nobody, hidden')
  <2>1. CASE late' = late
    BY <1>1, <1>3, <2>1
  <2>2. CASE late' = Append(late, e)
    BY <1>1, <1>2, <1>3, <2>2, LateGrows
  <2> QED BY <1>1, <2>1, <2>2
<1> QED BY <1>1, <1>2, <1>4, ChangeOwnerStep DEF Fits

LEMMA RevalidatedStep == ASSUME Fits, Revalidated PROVE Fits'
<1>1. /\ NextTask /\ hidden' = Nobody /\ ChangeOwner(ide, hidden)
      /\ UNCHANGED <<session, active, late, save>>
  BY DEF Revalidated
<1>2. LateFits(late, owner, hidden) /\ hidden \in Owners /\ Nobody \in Owners
  BY DEF Fits, LateFits, Owners
<1>3. LateFits(late', hidden, hidden')
  BY <1>1, <1>2, LateChange
<1> QED BY <1>1, <1>2, <1>3, ChangeOwnerStep DEF Fits

LEMMA SignInStep == ASSUME Fits, NEW s \in Students, SignIn(s) PROVE Fits'
<1>1. /\ NextTask /\ late = <<>> /\ hidden = Nobody /\ session' = s /\ ChangeOwner(ide, s)
      /\ UNCHANGED <<hidden, active, late, save>>
  BY DEF SignIn
<1>2. s \in Owners
  BY DEF Owners
<1>3. LateFits(late', s, hidden')
  BY <1>1, <1>2 DEF Fits, LateFits
<1> QED BY <1>1, <1>2, <1>3, ChangeOwnerStep

LEMMA SignedOutStep == ASSUME Fits, SignedOut PROVE Fits'
<1>1. /\ NextTask /\ hidden' = Nobody /\ ChangeOwner(ide, Nobody)
      /\ UNCHANGED <<session, active, late, save>>
  BY DEF SignedOut
<1>2. Nobody \in Owners
  BY DEF Owners
<1>3. LateFits(late', Nobody, hidden')
  BY <1>1, <1>2, LateChange DEF Fits
<1> QED BY <1>1, <1>2, <1>3, ChangeOwnerStep DEF Fits

\* The owner and the queue stay; the hand-offs, the hidden student and the session may not.
LEMMA HandoffStep ==
    ASSUME Fits, NextTask, UNCHANGED <<owner, active, switches, save>>, session' \in Owners,
           LateFits(late', owner, hidden'), Steady(ide'),
           UNCHANGED <<loads, change>> \/ (loads' = Stale /\ change' = StaleChange)
    PROVE  Fits'
<1>1. /\ LoadsFit(loads', owner) /\ ChangeFits(change', owner, active)
      /\ \A l \in Loads : loads'[l].awaited = loads[l].awaited
                          /\ (loads'[l].current => active = owner)
  <2>1. CASE UNCHANGED <<loads, change>>
    BY <2>1, BetweenTasks DEF Fits
  <2>2. CASE loads' = Stale /\ change' = StaleChange
    BY <2>2, StaleFits, StaleChangeFits DEF Fits
  <2> QED BY <2>1, <2>2
<1>2. Awaiting' = Awaiting
  BY <1>1 DEF Awaiting
<1>3. EngineFits'
  BY <1>1 DEF EngineFits, Given, Steady
<1> QED BY <1>1, <1>2, <1>3 DEF Fits, Steady

LEMMA HandoffContinuesStep == ASSUME Fits, HandoffContinues PROVE Fits'
<1> DEFINE h == Head(late)
           c == Replace(ide.volatile, h.student, ide.projects,
                   save.pc # "idle" \/ ide.pending # {} \/ ide.queued \/ ide.unsynced # {})
           i == [ide EXCEPT !.volatile = c]
           copied == IF h.replaces /\ ide.projects # {} THEN i ELSE ide
<1>1. /\ NextTask /\ late # <<>> /\ late' = Tail(late) /\ ide' = Blank(copied)
      /\ loads' = Stale /\ change' = StaleChange
      /\ UNCHANGED <<session, owner, hidden, active, switches, save>>
  BY DEF HandoffContinues
<1>2. WorkspaceFits(ide, owner) /\ owner \in Owners /\ LateFits(late, owner, hidden)
  BY DEF Fits, QueueFits
<1>3. /\ LateFits(late', owner, hidden)
      /\ h.replaces => h.student \in Students /\ owner \in {h.student, Nobody}
  BY <1>1, <1>2, LateTail
<1>4. h.replaces /\ ide.projects # {} => CopyFits(c, owner)
  <2> SUFFICES ASSUME h.replaces, ide.projects # {} PROVE CopyFits(c, owner)
    OBVIOUS
  <2>1. h.student = owner /\ owner \in Students
    BY <1>2, <1>3, StudentsAreReal DEF WorkspaceFits
  <2>2. Of(h.student, ide.projects) /\ CopyFits(ide.volatile, owner)
    BY <1>2, <2>1 DEF WorkspaceFits
  <2> HIDE DEF h
  <2> QED BY <2>1, <2>2, ReplacedFits
<1> HIDE DEF c, h
<1>5. {"projects", "volatile"} \subseteq DOMAIN i /\ i.volatile = c
  BY <1>2 DEF WorkspaceFits
<1> HIDE DEF i
<1>6. {"projects", "volatile"} \subseteq DOMAIN copied /\ CopyFits(copied.volatile, owner)
  BY <1>2, <1>4, <1>5 DEF WorkspaceFits
<1> HIDE DEF copied
<1>7. Steady(ide')
  BY <1>1, <1>6, BlankFits DEF Steady
<1> QED BY <1>1, <1>3, <1>7, HandoffStep DEF Fits

LEMMA DiscardSteady == \A s : Steady(ide) => Steady([ide EXCEPT !.volatile = Discard(@, s)])
<1> TAKE s
<1> HAVE Steady(ide)
<1> DEFINE c == Discard(ide.volatile, s)
           i == [ide EXCEPT !.volatile = c]
<1>1. CopyFits(c, owner)
  BY DiscardedFits DEF Steady, WorkspaceFits
<1> HIDE DEF c
<1>2. /\ {"projects", "volatile"} \subseteq DOMAIN i /\ i.projects = ide.projects
      /\ i.volatile = c
  BY DEF Steady, WorkspaceFits
<1> HIDE DEF i
<1>3. Steady(i)
  BY <1>1, <1>2 DEF Steady, WorkspaceFits
<1> QED BY <1>3 DEF i, c

LEMMA RevalidationFailsStep == ASSUME Fits, RevalidationFails PROVE Fits'
<1> DEFINE e == [student |-> hidden, replaces |-> FALSE]
<1>1. /\ NextTask /\ hidden' = Nobody
      /\ late' = IF active = hidden THEN Append(late, e) ELSE late
      /\ ide' = [ide EXCEPT !.volatile = Discard(@, hidden)]
      /\ UNCHANGED <<session, owner, active, switches, save, loads, change>>
  BY DEF RevalidationFails
<1>2. Steady(ide')
  BY <1>1, BetweenTasks, DiscardSteady
<1>3. /\ LateFits(late, owner, hidden) /\ hidden \in Owners /\ owner \in Owners
      /\ Nobody \in Owners
  BY DEF Fits, LateFits, QueueFits, Owners
<1>4. LateFits(late, owner, Nobody)
  BY <1>3, LateChange
<1>5. LateFits(Append(late, e), owner, Nobody)
  BY <1>3, <1>4, LateGrows
<1>6. LateFits(late', owner, hidden')
  BY <1>1, <1>4, <1>5
<1> QED BY <1>1, <1>2, <1>6, HandoffStep DEF Fits

LEMMA SessionEndsStep == ASSUME Fits, SessionEnds PROVE Fits'
<1>1. /\ NextTask /\ session' = Nobody
      /\ UNCHANGED <<owner, hidden, active, switches, late, ide, save, loads, change>>
  BY DEF SessionEnds
<1>2. session' \in Owners
  BY <1>1 DEF Owners
<1> QED BY <1>1, <1>2, BetweenTasks, HandoffStep DEF Fits

-----------------------------------------------------------------------------
(* Signing out.                                                            *)

LEMMA PrepareStep == ASSUME Fits, PrepareExit \/ PrepareSaved \/ PrepareChecks PROVE Fits'
<1>1. /\ NextTask /\ UNCHANGED <<ownerVars, save>>
      /\ UNCHANGED <<loads, change>> \/ (loads' = Stale /\ change' = StaleChange)
      /\ \/ ide' = ide
         \/ ide' = [ide EXCEPT !.loading = TRUE, !.suppress = TRUE, !.timer = FALSE]
         \/ ide' = [ide EXCEPT !.suppress = FALSE]
         \/ ide' = [ide EXCEPT !.loading = TRUE]
  BY DEF PrepareExit, PrepareSaved, PrepareChecks
<1>2. SameWork(ide, ide')
  BY <1>1 DEF SameWork, Fits, WorkspaceFits
<1>3. Steady(ide')
  BY <1>1, <1>2, BetweenTasks, SameWorkIsSteady
<1> QED BY <1>1, <1>3, HandoffStep DEF Fits, ownerVars

LEMMA ResumeStep == ASSUME Fits, Resume PROVE Fits'
<1>1. /\ NextTask /\ UNCHANGED <<ownerVars, save>>
      /\ \/ active = owner /\ StartLoad(ide, owner, FALSE)
         \/ UNCHANGED <<ide, loads, change>>
  BY DEF Resume
<1>2. CASE active = owner /\ StartLoad(ide, owner, FALSE)
  BY <1>1, <1>2, ReloadStep
<1>3. CASE UNCHANGED <<ide, loads, change>>
  BY <1>1, <1>3, BetweenTasks, EngineStep DEF Fits
<1> QED BY <1>1, <1>2, <1>3

LEMMA SignOutStep == ASSUME Fits, SignOut PROVE Fits'
<1> DEFINE e == [student |-> active, replaces |-> FALSE]
<1>1. /\ NextTask /\ session' \in {Nobody, session}
      /\ ide' = [ide EXCEPT !.volatile = Discard(@, exit.student)]
      /\ late' = Append(late, e) \/ late' = late
      /\ UNCHANGED <<owner, hidden, active, switches, save, loads, change>>
  BY DEF SignOut
<1>2. Steady(ide')
  BY <1>1, BetweenTasks, DiscardSteady
<1>3. /\ LateFits(late, owner, hidden) /\ active \in Owners /\ owner \in Owners
      /\ session' \in Owners
  BY <1>1 DEF Fits, QueueFits, Owners
<1>4. LateFits(Append(late, e), owner, hidden)
  BY <1>3, LateGrows
<1> QED BY <1>1, <1>2, <1>3, <1>4, HandoffStep

-----------------------------------------------------------------------------
(* The save engine goes over to the next owner.                            *)

LEMMA SwitchOwnerStep == ASSUME Fits, SwitchOwner, ~strayed' PROVE Fits'
<1> DEFINE next == Head(switches).next
           i == [ide EXCEPT !.pending = {}, !.unsynced = {}, !.queued = FALSE]
<1>1. /\ switches # <<>> /\ Awaiting = {} /\ ~Mutating /\ save.pc = "idle"
      /\ active' = next
      /\ \/ owner = next /\ StartLoad(i, next, TRUE) /\ UNCHANGED switches
         \/ /\ owner # next /\ ide' = i /\ switches' = Tail(switches)
            /\ UNCHANGED <<loads, change>>
      /\ next \in {owner, Nobody} \/ ~Given
      /\ UNCHANGED <<session, owner, hidden, late, save>>
  BY DEF SwitchOwner, Awaiting
<1>2. QueueFits(switches, owner, active, {}) /\ owner \in Owners
  BY <1>1 DEF Fits, QueueFits
<1>3. SameWork(ide, i) /\ {"projects", "volatile"} \subseteq DOMAIN i
  BY DEF SameWork, Fits, WorkspaceFits
<1> HIDE DEF i
<1>4. SaveFits(save', active')
  BY <1>1 DEF Fits, SaveFits
<1>5. CASE owner = next /\ StartLoad(i, next, TRUE) /\ UNCHANGED switches
  <2>1. /\ LoadsFit(loads', owner) /\ ChangeFits(change', owner, active')
        /\ SameWork(i, ide')
        /\ \E l \in Loads : Awaiting' = Awaiting \cup {l}
    BY <1>2, <1>3, <1>5, StartLoadFits DEF Fits
  <2>2. PICK l \in Loads : Awaiting' = {l}
    BY <1>1, <2>1
  <2>3. QueueFits(switches, owner, owner, {l})
    BY <1>1, <1>2, <1>5, QueueStarts
  <2>4. QueueFits(switches', owner', active', Awaiting')
    BY <1>1, <1>5, <2>2, <2>3
  <2>5. WorkspaceFits(ide', owner)
    BY <1>3, <2>1, SameWorkFits DEF Fits
  <2>6. EngineFits'
    BY <1>1, <1>5 DEF EngineFits
  <2> QED BY <1>1, <1>4, <2>1, <2>4, <2>5, <2>6 DEF Fits
<1>6. CASE /\ owner # next /\ ide' = i /\ switches' = Tail(switches)
           /\ UNCHANGED <<loads, change>>
  <2>1. /\ QueueFits(Tail(switches), owner, next, {})
        /\ Tail(switches) # <<>>
        /\ next = Nobody => ~Head(Tail(switches)).persists
    BY <1>1, <1>2, <1>6, QueueAdvances
  <2>2. Awaiting' = {}
    BY <1>1, <1>6 DEF Awaiting
  <2>3. QueueFits(switches', owner', active', Awaiting')
    BY <1>1, <1>6, <2>1, <2>2
  <2>4. WorkspaceFits(ide', owner)
    BY <1>3, <1>6, SameWorkFits DEF Fits
  <2>5. ChangeFits(change', owner, active')
    <3>1. change'.pc = "idle"
      BY <1>1, <1>6 DEF Mutating
    <3> QED BY <1>6, <3>1 DEF Fits, ChangeFits
  <2>6. EngineFits'
    <3>1. Given' => Given
      BY <1>3, <1>6 DEF Given, SameWork
    <3>2. Given => next = Nobody
      BY <1>1, <1>6
    <3>3. next = Nobody => ~NextTask'
      <4>1. ~Mutating' /\ save'.pc = "idle" /\ ~(\E l \in Loads : loads'[l].awaited)
        BY <1>1, <1>6 DEF Mutating, Awaiting
      <4> QED BY <1>6, <2>1, <4>1 DEF NextTask
    <3> QED BY <3>1, <3>2, <3>3 DEF EngineFits
  <2> QED BY <1>1, <1>4, <1>6, <2>3, <2>4, <2>5, <2>6 DEF Fits
<1> QED BY <1>1, <1>5, <1>6

-----------------------------------------------------------------------------
(* The invariant.                                                          *)

LEMMA FitsAtFirst == SyncInit => FitsUnlessStrayed
<1> SUFFICES ASSUME SyncInit PROVE Fits
    BY DEF FitsUnlessStrayed
<1> DEFINE row == [content |-> 0, version |-> 1]
           p == FromRow(owner, Original, row)
<1>1. /\ session = First /\ owner = First /\ active = First /\ hidden = Nobody
      /\ switches = <<>> /\ late = <<>>
      /\ ide = [projects |-> {p},
                pending |-> {}, unsynced |-> {}, volatile |-> NoCopy, loading |-> FALSE,
                suppress |-> FALSE, timer |-> FALSE, queued |-> FALSE]
      /\ save = NoSave /\ change = NoChange
      /\ loads = [l \in Loads |-> NoLoad]
  BY DEF SyncInit
<1>2. First \in Students /\ First \in Owners /\ Nobody \in Owners
  BY StudentsAreReal DEF Owners
<1>3. p.student = owner /\ "student" \in DOMAIN p
  BY DEF FromRow, Project
<1> HIDE DEF p
<1>4. /\ {"projects", "volatile"} \subseteq DOMAIN ide
      /\ ide.projects = {p} /\ ide.volatile = NoCopy
  BY <1>1
<1>5. WorkspaceFits(ide, owner)
  BY <1>1, <1>2, <1>3, <1>4 DEF WorkspaceFits, CopyFits, NoCopy, Of
<1>6. Awaiting = {} /\ LoadsFit(loads, owner)
  BY <1>1, NoLoadFits DEF Awaiting, LoadsFit
<1>7. QueueFits(switches, owner, active, Awaiting)
  BY <1>1, <1>2, <1>6 DEF QueueFits
<1>8. LateFits(late, owner, hidden)
  BY <1>1, <1>2 DEF LateFits
<1>9. ChangeFits(change, owner, active) /\ SaveFits(save, active) /\ EngineFits
  BY <1>1, NoChangeFits, NoSaveFits DEF EngineFits
<1> QED BY <1>1, <1>2, <1>5, <1>6, <1>7, <1>8, <1>9 DEF Fits

LEMMA StrayedStays == strayed /\ [SyncNext]_syncVars => strayed'
<1> SUFFICES ASSUME strayed, [SyncNext]_syncVars PROVE strayed'
    OBVIOUS
<1>1. CASE UNCHANGED syncVars
  BY <1>1 DEF syncVars, history
<1>2. CASE SwitchOwner
  BY <1>2 DEF SwitchOwner
<1>3. CASE Work
  BY <1>3 DEF Work, Edit, SaveNow, Delete, Create, RouteChange, Flush, history
<1>4. CASE Engine
  BY <1>4 DEF Engine, Autosave, SaveAnswered, SavePurged, ChangeAnswered, ChangePurged, history
<1>5. CASE Loading
  BY <1>5 DEF Loading, LoadServed, LoadFailed, LoadFound, LoadApplies, LoadCreates, LoadPurged,
              history
<1>6. CASE Session
  BY <1>6 DEF Session, Hide, HandoffContinues, Revalidated, RevalidationFails, SessionEnds,
              SignIn, history
<1>7. CASE Leaving
  BY <1>7 DEF Leaving, PrepareExit, PrepareSaves, PrepareSaved, PrepareChecks, Resume, SignOut,
              SignedOut, history
<1>8. CASE Remote
  BY <1>8 DEF Remote, ServeSave, ServeChange, ServeLoad, OtherDeviceSaves, OtherDeviceDeletes,
              history
<1> QED BY <1>1, <1>2, <1>3, <1>4, <1>5, <1>6, <1>7, <1>8 DEF SyncNext

LEMMA FitsNext == FitsUnlessStrayed /\ [SyncNext]_syncVars => FitsUnlessStrayed'
<1> SUFFICES ASSUME Fits, [SyncNext]_syncVars, ~strayed' PROVE Fits'
    BY StrayedStays DEF FitsUnlessStrayed
<1>1. CASE UNCHANGED syncVars
  <2>1. Awaiting' = Awaiting /\ EngineFits'
    BY <1>1 DEF syncVars, ownerVars, Awaiting, Fits, EngineFits, Given, NextTask, Mutating
  <2> QED BY <1>1, <2>1 DEF syncVars, ownerVars, Fits
<1>2. CASE SwitchOwner
  BY <1>2, SwitchOwnerStep
<1>3. CASE Work
  BY <1>3, EditStep, SaveNowStep, DeleteStep, CreateStep, RouteStep, SavingSteps DEF Work
<1>4. CASE Engine
  BY <1>4, SavingSteps, ChangeAnsweredStep, ChangePurgedStep DEF Engine
<1>5. CASE Loading
  BY <1>5, LoadServedStep, LoadFailedStep, LoadFoundStep, LoadAppliesStep, LoadCreatesStep,
     LoadPurgedStep DEF Loading
<1>6. CASE Session
  BY <1>6, HideStep, HandoffContinuesStep, RevalidatedStep, RevalidationFailsStep,
     SessionEndsStep, SignInStep DEF Session
<1>7. CASE Leaving
  BY <1>7, PrepareStep, SavingSteps, ResumeStep, SignOutStep, SignedOutStep DEF Leaving
<1>8. CASE Remote
  BY <1>8, ServeSaveStep, ServeChangeStep, ServeLoadStep, OtherDeviceStep DEF Remote
<1> QED BY <1>1, <1>2, <1>3, <1>4, <1>5, <1>6, <1>7, <1>8 DEF SyncNext

\* The workspace shows projects of its owner only, and the recovery copy never holds another's
\* than the owner's, whatever saves, loads and hand-offs of earlier owners are still answered:
\* for any students, loads and events, unless a queued switch passed through a student who had
\* left.
THEOREM NobodySeesForeignProjects == SyncSpec => []NoForeignProjects
<1>1. SyncInit => FitsUnlessStrayed
  BY FitsAtFirst
<1>2. FitsUnlessStrayed /\ [SyncNext]_syncVars => FitsUnlessStrayed'
  BY FitsNext
<1>3. FitsUnlessStrayed => NoForeignProjects
  BY DEF FitsUnlessStrayed, Fits, WorkspaceFits, CopyFits, Of, NoForeignProjects
<1> QED BY <1>1, <1>2, <1>3, PTL DEF SyncSpec

=============================================================================
