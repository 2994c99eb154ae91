--------------------------- MODULE TabSessionProofs ---------------------------
(***************************************************************************)
(* Late answers are dropped, and a sign-out waits for the tabs it knows    *)
(* of, for any number of tabs and students and any events between them.    *)
(***************************************************************************)
EXTENDS TabSessions, SequenceTheorems, TLAPS

People == Students \cup {Nobody}
Pages == {"new", "visible", "hidden", "frozen", "closed"}
TabRecords == [user : People, page : Pages, away : People, again : BOOLEAN,
               phase : {"open", "preparing", "ready"}, dirty : BOOLEAN, since : SUBSET People]
CheckRecords == [pc : {"idle", "sent", "answered", "failed"}, who : People,
                 current : BOOLEAN, answer : People]
Checks == [Purposes -> CheckRecords]

\* The student a tab record belongs to.
Owner(c) == IF c.user # Nobody THEN c.user ELSE c.away

\* The checks of a tab are those of a tab whose session belongs to s: an answer that counts is
\* the session's of some moment since the tab last changed, and then the tab shows nobody.
FreshAt(c, checks, s) ==
    /\ s \in c.since
    /\ c.page = "new" => \A k \in Purposes : checks[k] = NoCheck
    /\ \A k \in Purposes : checks[k].current =>
          /\ c.user = Nobody
          /\ checks[k].pc = "answered" => checks[k].answer \in c.since

\* No work of w is unsaved in this tab, and none can be typed.
Clean(c, w) == Owner(c) = w => ~c.dirty /\ (c.user = w => c.phase # "open")

\* What a step may make of a tab's work: it is typed in an open workspace, or it was there and
\* its student is the same or forgotten; and another student's workspace opens.
Kept(c, d) ==
    /\ d.dirty =>
          \/ c.dirty /\ (d.user = Nobody => Owner(d) \in {Owner(c), Nobody})
          \/ d.user # Nobody /\ d.user = c.user /\ c.phase = "open"
    /\ d.user # Nobody => d.user = c.user \/ d.phase = "open"

\* The workspace was not open for this student before.
Opened(c, d) == d.user # Nobody /\ d.phase = "open" /\ ~(d.user = c.user /\ c.phase = "open")

LEMMA CleanStays ==
    \A c, d \in TabRecords, w \in Students :
        Kept(c, d) /\ ~Opened(c, d) /\ Clean(c, w) => Clean(d, w)
BY FirstIsStudent DEF Kept, Opened, Clean, Owner

TabTypes ==
    /\ session \in People
    /\ tab \in [Tabs -> TabRecords]
    /\ check \in [Tabs -> Checks]
    /\ login \in [Tabs -> People]
    /\ \A t \in Tabs : leave[t].pc # "idle" => leave[t].who \in Students
    /\ reopened \in SUBSET Tabs

Fresh == \A t \in Tabs : FreshAt(tab[t], check[t], session)

\* What every step of tab t does to tabs, checks and the reopened workspaces while the session
\* stays: the other tabs are left alone.
Moves(t) ==
    /\ tab' \in [Tabs -> TabRecords] /\ check' \in [Tabs -> Checks]
    /\ \A u \in Tabs \ {t} : tab'[u] = tab[u] /\ check'[u] = check[u]
    /\ FreshAt(tab'[t], check'[t], session)
    /\ Kept(tab[t], tab'[t])
    /\ reopened \subseteq reopened' /\ reopened' \subseteq Tabs
    /\ Opened(tab[t], tab'[t]) => t \in reopened' \/ \A u \in Tabs : leave[u].pc = "idle"
    /\ \/ tab'[t].user \in {tab[t].user, Nobody} \cup tab[t].since
       \/ login'[t] # login[t]
       \/ leave'[t] # leave[t]

-----------------------------------------------------------------------------
(* What the operators on tab records do to each field.                     *)

\* The student, the phase and the unsaved work are those of c.
SameStudent(c, d) ==
    /\ d \in TabRecords
    /\ d.user = c.user /\ d.away = c.away /\ d.phase = c.phase
    /\ (d.dirty <=> c.dirty) /\ d.since = c.since

\* d is c, showing who while the session belongs to s.
Shown(c, who, s, d) ==
    /\ d \in TabRecords
    /\ d.user = who /\ d.since = {s} /\ d.page = c.page /\ d.away = c.away /\ d.again = c.again
    /\ d.phase = IF who = c.user THEN c.phase ELSE "open"
    /\ d.dirty <=> c.dirty /\ who \in {Nobody, c.user, c.away}

LEMMA ShowingFields ==
    \A c \in TabRecords, who \in People, s \in People : Shown(c, who, s, Showing(c, who, s))
<1> TAKE c \in TabRecords, who \in People, s \in People
<1> DEFINE p == IF who = c.user THEN c.phase ELSE "open"
           d == c.dirty /\ who \in {Nobody, c.user, c.away}
           x == [c EXCEPT !.user = who, !.since = {s}, !.phase = p, !.dirty = d]
<1>1. p \in {"open", "preparing", "ready"} /\ d \in BOOLEAN
  BY DEF TabRecords
<1>2. x = Showing(c, who, s)
  BY DEF Showing
<1>3. p = IF who = c.user THEN c.phase ELSE "open"
  OBVIOUS
<1>4. d <=> c.dirty /\ who \in {Nobody, c.user, c.away}
  OBVIOUS
<1> HIDE DEF p, d
<1>5. /\ x \in TabRecords /\ x.user = who /\ x.since = {s} /\ x.page = c.page
      /\ x.away = c.away /\ x.again = c.again /\ x.phase = p /\ (x.dirty <=> d)
  BY <1>1 DEF TabRecords
<1> HIDE DEF x
<1> QED BY <1>2, <1>3, <1>4, <1>5 DEF Shown

LEMMA ForgottenFields ==
    \A c \in TabRecords :
        /\ Forgotten(c) \in TabRecords
        /\ Forgotten(c).user = c.user
        /\ Forgotten(c).since = c.since
        /\ Forgotten(c).page = c.page
        /\ Forgotten(c).away = c.away
        /\ Forgotten(c).again = c.again
        /\ Forgotten(c).phase = c.phase
        /\ ~Forgotten(c).dirty
BY DEF Forgotten, TabRecords

LEMMA ConcealedFields ==
    session \in People =>
    \A c \in TabRecords :
        /\ Concealed(c) \in TabRecords
        /\ Concealed(c).user = Nobody
        /\ Concealed(c).page = c.page
        /\ Concealed(c).again = c.again
        /\ Concealed(c).away = Owner(c)
        /\ Concealed(c).dirty <=> c.dirty
        /\ Concealed(c).since = IF Owner(c) = Nobody THEN c.since ELSE {session}
<1> SUFFICES ASSUME session \in People, NEW c \in TabRecords
             PROVE  /\ Concealed(c) \in TabRecords
                    /\ Concealed(c).user = Nobody
                    /\ Concealed(c).page = c.page
                    /\ Concealed(c).again = c.again
                    /\ Concealed(c).away = Owner(c)
                    /\ Concealed(c).dirty <=> c.dirty
                    /\ Concealed(c).since = IF Owner(c) = Nobody THEN c.since ELSE {session}
    OBVIOUS
<1>1. Owner(c) \in People /\ Nobody \in People
  BY DEF Owner, People, TabRecords
<1>2. CASE Owner(c) = Nobody
  <2>1. Concealed(c) = c /\ c.user = Nobody /\ c.away = Nobody
    BY <1>2 DEF Concealed, Owner
  <2> QED BY <1>2, <2>1
<1>3. CASE Owner(c) # Nobody
  <2> DEFINE d == Showing(c, Nobody, session)
  <2>1. Nobody \in People
    BY <1>1
  <2>2. Shown(c, Nobody, session, d)
    BY <2>1, ShowingFields
  <2>3. Concealed(c) = [d EXCEPT !.away = Owner(c)]
    BY <1>3 DEF Concealed, Owner
  <2> HIDE DEF d
  <2> DEFINE x == [d EXCEPT !.away = Owner(c)]
  <2>4. /\ x \in TabRecords /\ x.user = d.user /\ x.page = d.page /\ x.again = d.again
        /\ x.away = Owner(c) /\ (x.dirty <=> d.dirty) /\ x.since = d.since
    BY <1>1, <2>2 DEF TabRecords, Shown
  <2>5. Concealed(c) = x
    BY <2>3
  <2> HIDE DEF x
  <2> QED BY <1>3, <2>2, <2>4, <2>5 DEF Shown
<1> QED BY <1>2, <1>3

\* Outdated keeps everything but the revision; a check that is sent is current and unanswered.
LEMMA OutdatedFields ==
    \A cs \in Checks :
        /\ Outdated(cs) \in Checks
        /\ \A k \in Purposes : ~Outdated(cs)[k].current /\ Outdated(cs)[k].pc = cs[k].pc
BY DEF Outdated, Checks, CheckRecords

LEMMA SentFields ==
    \A who \in People :
        Sent(who) \in CheckRecords /\ Sent(who).current /\ Sent(who).pc = "sent"
BY DEF Sent, CheckRecords, People

LEMMA NoCheckFields == NoCheck \in CheckRecords /\ ~NoCheck.current /\ NoCheck.pc = "idle"
BY DEF NoCheck, CheckRecords, People

LEMMA OneCheckMore ==
    \A cs \in Checks, k \in Purposes, x \in CheckRecords :
        /\ [cs EXCEPT ![k] = x] \in Checks
        /\ [cs EXCEPT ![k] = x][k] = x
        /\ \A j \in Purposes \ {k} : [cs EXCEPT ![k] = x][j] = cs[j]
BY DEF Checks

LEMMA ReopensFlags ==
    ASSUME TabTypes, NEW t \in Tabs, Reopens(t)
    PROVE  /\ reopened \subseteq reopened' /\ reopened' \subseteq Tabs
           /\ Opened(tab[t], tab'[t]) => t \in reopened' \/ \A u \in Tabs : leave[u].pc = "idle"
BY DEF Reopens, Opened, TabTypes

-----------------------------------------------------------------------------
(* Pages come and go.                                                      *)

LEMMA LeavesMoves ==
    ASSUME TabTypes, Fresh, NEW t \in Tabs, NEW page \in {"hidden", "frozen"}, Leaves(t, page),
           reopened' = reopened, Alive(t)
    PROVE  Moves(t)
<1> DEFINE c == tab[t]
           x == Concealed(c)
           d == [x EXCEPT !.page = page, !.again = FALSE]
           cs == IF Whose(t) = Nobody THEN check[t] ELSE Outdated(check[t])
<1>1. c \in TabRecords /\ check[t] \in Checks /\ session \in People /\ c.page # "new"
  BY DEF TabTypes, Alive
<1>2. /\ x \in TabRecords /\ x.user = Nobody /\ x.away = Owner(c) /\ (x.dirty <=> c.dirty)
      /\ x.since = IF Owner(c) = Nobody THEN c.since ELSE {session}
  BY <1>1, ConcealedFields
<1> HIDE DEF x
<1>3. /\ d \in TabRecords /\ d.user = x.user /\ d.away = x.away /\ (d.dirty <=> x.dirty)
      /\ d.since = x.since /\ d.page = page
  BY <1>2 DEF TabRecords, Pages
<1>4. cs \in Checks /\ (Owner(c) # Nobody => \A k \in Purposes : ~cs[k].current)
  BY <1>1, OutdatedFields DEF Whose, Owner
<1>5. tab' = [tab EXCEPT ![t] = d] /\ check' = [check EXCEPT ![t] = cs]
  BY DEF Leaves, x
<1>6. Owner(c) = Nobody => cs = check[t]
  BY DEF Whose, Owner
<1> HIDE DEF d, cs
<1>7. FreshAt(d, cs, session)
  BY <1>1, <1>2, <1>3, <1>4, <1>6 DEF FreshAt, Fresh
<1>8. Kept(c, d) /\ ~Opened(c, d)
  BY <1>2, <1>3 DEF Kept, Opened, Owner
<1> QED BY <1>1, <1>2, <1>3, <1>4, <1>5, <1>7, <1>8 DEF Moves, TabTypes

\* revalidate, from a record c that may be the tab's already changed one.
LEMMA RevalidateMoves ==
    ASSUME TabTypes, Fresh, NEW t \in Tabs, tab[t].page # "new",
           reopened \subseteq reopened' /\ reopened' \subseteq Tabs
    PROVE  \A c \in TabRecords :
              /\ Revalidate(t, c)
              /\ c.page # "new" /\ session \in c.since
              /\ c.dirty => tab[t].dirty /\ Owner(c) = Owner(tab[t])
              => Moves(t)
<1> TAKE c \in TabRecords
<1> SUFFICES ASSUME Revalidate(t, c), c.page # "new", session \in c.since,
                    c.dirty => tab[t].dirty /\ Owner(c) = Owner(tab[t])
             PROVE  Moves(t)
    OBVIOUS
<1> DEFINE d == Concealed(c)
           o == Outdated(check[t])
           x == Sent(d.away)
           cs == [o EXCEPT !["lease"] = x]
<1>1. check[t] \in Checks /\ session \in People
  BY DEF TabTypes
<1>2. /\ d \in TabRecords /\ d.user = Nobody /\ d.away = Owner(c) /\ (d.dirty <=> c.dirty)
      /\ d.since = (IF Owner(c) = Nobody THEN c.since ELSE {session}) /\ d.page = c.page
  BY <1>1, ConcealedFields
<1>3. tab' = [tab EXCEPT ![t] = d] /\ check' = [check EXCEPT ![t] = cs]
  BY DEF Revalidate, TabTypes
<1> HIDE DEF d
<1>4. x \in CheckRecords /\ x.current /\ x.pc = "sent"
  BY <1>2, SentFields DEF TabRecords
<1>5. o \in Checks /\ \A k \in Purposes : ~o[k].current
  BY <1>1, OutdatedFields
<1> HIDE DEF o, x
<1>6. cs \in Checks /\ \A k \in Purposes : cs[k] = x \/ ~cs[k].current
  BY <1>4, <1>5, OneCheckMore DEF Purposes
<1> HIDE DEF cs
<1>7. FreshAt(d, cs, session)
  BY <1>2, <1>4, <1>6 DEF FreshAt
<1>8. Kept(tab[t], d) /\ ~Opened(tab[t], d)
  BY <1>2 DEF Kept, Opened, Owner
<1> QED BY <1>2, <1>3, <1>6, <1>7, <1>8 DEF Moves, TabTypes

LEMMA ReturnsMoves ==
    ASSUME TabTypes, Fresh, NEW t \in Tabs, NEW twice \in BOOLEAN, Returns(t, twice),
           reopened' = reopened, tab[t].page # "new"
    PROVE  Moves(t)
<1> DEFINE a == twice /\ Whose(t) # Nobody
           c == [tab[t] EXCEPT !.page = "visible", !.again = a]
           e == [c EXCEPT !.again = TRUE]
<1>1. tab[t] \in TabRecords /\ session \in tab[t].since /\ check[t] \in Checks
  BY DEF TabTypes, Fresh, FreshAt
<1>2. a \in BOOLEAN
  OBVIOUS
<1> HIDE DEF a
<1>3. SameStudent(tab[t], c) /\ c.page = "visible"
  BY <1>1, <1>2 DEF SameStudent, TabRecords, Pages
<1> HIDE DEF c
<1>4. SameStudent(tab[t], e) /\ e.page = "visible"
  BY <1>3 DEF SameStudent, TabRecords
<1> HIDE DEF e
<1>5. \/ tab' = [tab EXCEPT ![t] = e] /\ UNCHANGED check
      \/ tab' = [tab EXCEPT ![t] = c] /\ UNCHANGED check
      \/ Revalidate(t, c)
  BY DEF Returns, c, e, a
<1>6. CASE Revalidate(t, c)
  <2>1. c.dirty => tab[t].dirty /\ Owner(c) = Owner(tab[t])
    BY <1>3 DEF SameStudent, Owner
  <2>2. c \in TabRecords /\ session \in c.since /\ c.page # "new"
    BY <1>1, <1>3 DEF SameStudent
  <2> QED BY <1>6, <2>1, <2>2, RevalidateMoves DEF TabTypes
<1>7. ASSUME NEW d, SameStudent(tab[t], d), d.page = "visible",
             tab' = [tab EXCEPT ![t] = d], UNCHANGED check
      PROVE  Moves(t)
  <2>1. FreshAt(d, check[t], session)
    BY <1>7 DEF FreshAt, Fresh, SameStudent
  <2>2. Kept(tab[t], d) /\ ~Opened(tab[t], d)
    BY <1>7 DEF Kept, Opened, Owner, SameStudent
  <2> QED BY <1>1, <1>7, <2>1, <2>2 DEF Moves, TabTypes, SameStudent
<1>8. CASE tab' = [tab EXCEPT ![t] = e] /\ UNCHANGED check
  BY <1>4, <1>7, <1>8
<1>9. CASE tab' = [tab EXCEPT ![t] = c] /\ UNCHANGED check
  BY <1>3, <1>7, <1>9
<1> QED BY <1>5, <1>6, <1>8, <1>9

\* Only the tab record changes, and its student, page and history stay.
LEMMA WorkMoves ==
    ASSUME TabTypes, Fresh, NEW t \in Tabs, UNCHANGED check,
           NEW p \in {"open", "preparing", "ready"}, NEW w \in BOOLEAN,
           tab' = [tab EXCEPT ![t] = [tab[t] EXCEPT !.phase = p, !.dirty = w]],
           w => tab[t].dirty \/ (tab[t].user # Nobody /\ tab[t].phase = "open"),
           reopened \subseteq reopened' /\ reopened' \subseteq Tabs,
           tab[t].user # Nobody /\ p = "open" /\ tab[t].phase # "open" =>
                t \in reopened' \/ \A u \in Tabs : leave[u].pc = "idle"
    PROVE  Moves(t)
<1> DEFINE d == [tab[t] EXCEPT !.phase = p, !.dirty = w]
<1>1. tab[t] \in TabRecords
  BY DEF TabTypes
<1>2. /\ d \in TabRecords /\ d.user = tab[t].user /\ d.away = tab[t].away /\ d.page = tab[t].page
      /\ d.since = tab[t].since /\ d.phase = p /\ (d.dirty <=> w)
  BY <1>1 DEF TabRecords
<1>3. tab' = [tab EXCEPT ![t] = d]
  OBVIOUS
<1> HIDE DEF d
<1>4. FreshAt(d, check[t], session)
  BY <1>2 DEF FreshAt, Fresh
<1>5. Kept(tab[t], d)
  BY <1>2 DEF Kept, Owner
<1>6. Opened(tab[t], d) => t \in reopened' \/ \A u \in Tabs : leave[u].pc = "idle"
  BY <1>2 DEF Opened
<1> QED BY <1>2, <1>3, <1>4, <1>5, <1>6 DEF Moves, TabTypes

LEMMA LifecycleMoves ==
    ASSUME TabTypes, Fresh, NEW t \in Tabs, Lifecycle(t) \/ LeaseExpires(t)
    PROVE  Moves(t)
<1>1. tab[t] \in TabRecords /\ check[t] \in Checks /\ session \in People
      /\ session \in tab[t].since /\ reopened \in SUBSET Tabs
  BY DEF TabTypes, Fresh, FreshAt
<1>2. CASE HidePage(t)
  BY <1>2, LeavesMoves DEF HidePage, Visible, Alive
<1>3. CASE FreezePage(t)
  BY <1>3, LeavesMoves DEF FreezePage
<1>4. CASE ShowPage(t)
  BY <1>4, ReturnsMoves DEF ShowPage
<1>5. CASE ThawPage(t)
  BY <1>5, ReturnsMoves DEF ThawPage
<1>6. CASE LeaseExpires(t)
  BY <1>1, <1>6, RevalidateMoves DEF LeaseExpires, Visible
<1>7. CASE OpenTab(t)
  <2> DEFINE d == Tab(Nobody, "visible")
             x == Sent(Nobody)
             cs == [check[t] EXCEPT !["open"] = x]
  <2>1. /\ d \in TabRecords /\ d.user = Nobody /\ d.page = "visible" /\ d.since = {session}
        /\ ~d.dirty
    BY <1>1 DEF Tab, TabRecords, Pages, People
  <2>2. tab' = [tab EXCEPT ![t] = d] /\ check' = [check EXCEPT ![t] = cs] /\ reopened' = reopened
        /\ tab[t].page = "new"
    BY <1>7 DEF OpenTab, TabTypes
  <2>3. x \in CheckRecords /\ x.pc = "sent"
    BY SentFields DEF People
  <2>4. \A k \in Purposes : check[t][k] = NoCheck
    BY <2>2 DEF Fresh, FreshAt
  <2> HIDE DEF d, x
  <2>5. cs \in Checks /\ \A k \in Purposes : cs[k] = x \/ cs[k] = NoCheck
    BY <1>1, <2>3, <2>4, OneCheckMore DEF Purposes
  <2> HIDE DEF cs
  <2>6. FreshAt(d, cs, session)
    BY <2>1, <2>3, <2>5, NoCheckFields DEF FreshAt
  <2>7. Kept(tab[t], d) /\ ~Opened(tab[t], d)
    BY <2>1 DEF Kept, Opened
  <2> QED BY <1>1, <2>1, <2>2, <2>5, <2>6, <2>7 DEF Moves, TabTypes
<1>8. CASE CloseTab(t)
  <2> DEFINE d == Tab(Nobody, "closed")
             cs == [k \in Purposes |-> NoCheck]
  <2>1. /\ d \in TabRecords /\ d.user = Nobody /\ d.page = "closed" /\ d.since = {session}
        /\ ~d.dirty
    BY <1>1 DEF Tab, TabRecords, Pages, People
  <2>2. tab' = [tab EXCEPT ![t] = d] /\ check' = [check EXCEPT ![t] = cs] /\ reopened' = reopened
    BY <1>8 DEF CloseTab
  <2> HIDE DEF d
  <2>5. cs \in Checks /\ \A k \in Purposes : cs[k] = NoCheck
    BY NoCheckFields DEF Checks
  <2> HIDE DEF cs
  <2>6. FreshAt(d, cs, session)
    BY <2>1, <2>5, NoCheckFields DEF FreshAt
  <2>7. Kept(tab[t], d) /\ ~Opened(tab[t], d)
    BY <2>1 DEF Kept, Opened
  <2> QED BY <1>1, <2>1, <2>2, <2>5, <2>6, <2>7 DEF Moves, TabTypes
<1>9. CASE Edit(t)
  <2>1. tab[t].phase \in {"open", "preparing", "ready"}
    BY <1>1 DEF TabRecords
  <2>2. tab' = [tab EXCEPT ![t] = [tab[t] EXCEPT !.phase = tab[t].phase, !.dirty = TRUE]]
    BY <1>1, <1>9 DEF Edit, TabTypes, TabRecords
  <2> QED BY <1>9, <2>1, <2>2, WorkMoves, <1>1 DEF Edit
<1>10. CASE Autosave(t)
  <2>1. tab[t].phase \in {"open", "preparing", "ready"}
    BY <1>1 DEF TabRecords
  <2>2. tab' = [tab EXCEPT ![t] = [tab[t] EXCEPT !.phase = tab[t].phase, !.dirty = FALSE]]
    BY <1>1, <1>10 DEF Autosave, TabTypes, TabRecords
  <2> QED BY <1>10, <2>1, <2>2, WorkMoves, <1>1 DEF Autosave
<1> QED BY <1>2, <1>3, <1>4, <1>5, <1>6, <1>7, <1>8, <1>9, <1>10 DEF Lifecycle

-----------------------------------------------------------------------------
(* Checks are answered.                                                    *)

LEMMA ServeMoves ==
    ASSUME TabTypes, Fresh, NEW t \in Tabs, NEW k \in Purposes, Serve(t, k)
    PROVE  Moves(t)
<1>1. tab[t] \in TabRecords /\ check[t] \in Checks /\ session \in People
      /\ FreshAt(tab[t], check[t], session) /\ tab[t].page # "new"
  BY DEF TabTypes, Fresh, Serve, Running
<1>2. PICK x \in CheckRecords :
         /\ check' = [check EXCEPT ![t] = [check[t] EXCEPT ![k] = x]]
         /\ x.current => check[t][k].current
         /\ x.pc = "answered" => x.answer = session
  <2> DEFINE q == check[t][k]
             y == [q EXCEPT !.pc = "answered", !.answer = session]
             z == [q EXCEPT !.pc = "failed"]
  <2>1. q \in CheckRecords
    BY <1>1 DEF Checks
  <2>2. \/ check' = [check EXCEPT ![t] = [check[t] EXCEPT ![k] = y]]
        \/ check' = [check EXCEPT ![t] = [check[t] EXCEPT ![k] = z]]
    BY <1>1 DEF Serve, TabTypes, Checks
  <2> HIDE DEF q
  <2>3. /\ y \in CheckRecords /\ y.current = q.current /\ y.answer = session
        /\ z \in CheckRecords /\ z.current = q.current /\ z.pc = "failed"
    BY <1>1, <2>1 DEF CheckRecords
  <2> HIDE DEF y, z
  <2>4. CASE check' = [check EXCEPT ![t] = [check[t] EXCEPT ![k] = y]]
    <3>1. (y.current => check[t][k].current) /\ (y.pc = "answered" => y.answer = session)
      BY <2>3 DEF q
    <3> QED BY <2>3, <2>4, <3>1
  <2>5. CASE check' = [check EXCEPT ![t] = [check[t] EXCEPT ![k] = z]]
    <3>1. (z.current => check[t][k].current) /\ (z.pc = "answered" => z.answer = session)
      BY <2>3 DEF q
    <3> QED BY <2>3, <2>5, <3>1
  <2> QED BY <2>2, <2>4, <2>5
<1> DEFINE cs == [check[t] EXCEPT ![k] = x]
<1>3. cs \in Checks /\ cs[k] = x /\ \A j \in Purposes \ {k} : cs[j] = check[t][j]
  BY <1>1, OneCheckMore
<1>4. check' = [check EXCEPT ![t] = cs] /\ UNCHANGED <<tab, reopened>>
  BY <1>2 DEF Serve
<1> HIDE DEF cs
<1>5. FreshAt(tab[t], cs, session)
  BY <1>1, <1>2, <1>3 DEF FreshAt
<1>6. Kept(tab[t], tab[t]) /\ ~Opened(tab[t], tab[t])
  BY DEF Kept, Opened
<1> QED BY <1>1, <1>3, <1>4, <1>5, <1>6 DEF Moves, TabTypes

LEMMA LeaseAnsweredMoves ==
    ASSUME TabTypes, Fresh, NEW t \in Tabs, LeaseAnswered(t)
    PROVE  Moves(t)
<1> DEFINE c == check[t]["lease"]
           old == tab[t]
           new == IF ~Counts(c) THEN old
                  ELSE IF Confirmed(c) THEN Showing(old, c.who, session)
                  ELSE Forgotten(Showing(old, Nobody, session))
           next == IF new.user # Nobody THEN new.user ELSE new.away
           asks == Visible(t) /\ old.again /\ next # Nobody
           once == [new EXCEPT !.again = FALSE]
           a == new.again /\ ~Visible(t)
           w == IF Visible(t) /\ ~old.again /\ new.away = c.who THEN Nobody ELSE new.away
           d == [new EXCEPT !.again = a, !.away = w]
           out == IF Counts(c) THEN Outdated(check[t]) ELSE check[t]
           cs == [out EXCEPT !["lease"] = NoCheck]
<1>1. old \in TabRecords /\ check[t] \in Checks /\ session \in People /\ c \in CheckRecords
      /\ FreshAt(old, check[t], session) /\ old.page # "new" /\ Nobody \in People
  BY DEF TabTypes, Fresh, LeaseAnswered, Running, Checks, Purposes, People
<1>2. IF asks THEN Revalidate(t, once)
      ELSE tab' = [tab EXCEPT ![t] = d] /\ check' = [check EXCEPT ![t] = cs]
  BY DEF LeaseAnswered, TabTypes
<1>3. Reopens(t)
  BY DEF LeaseAnswered
<1>4. Counts(c) => old.user = Nobody
  BY <1>1 DEF FreshAt, Counts, Purposes
<1>5. Counts(c) /\ Confirmed(c) => c.who \in old.since
  BY <1>1 DEF FreshAt, Counts, Purposes, Confirmed
<1>6. c.who \in People
  BY <1>1 DEF CheckRecords
\* What the answer makes of the tab.
<1>7. /\ new \in TabRecords /\ new.page = old.page /\ session \in new.since
      /\ new.away = old.away
      /\ new.dirty => old.dirty /\ Owner(new) = Owner(old)
      /\ new.user # Nobody => new.user = old.user \/ new.phase = "open"
      /\ new.user \in {old.user, Nobody} \cup old.since
      /\ ~Counts(c) => new = old
  <2>1. CASE ~Counts(c)
    BY <1>1, <2>1 DEF FreshAt
  <2>2. CASE Counts(c) /\ Confirmed(c)
    <3>1. new = Showing(old, c.who, session)
      BY <2>2
    <3> HIDE DEF new, old, c
    <3>2. Shown(old, c.who, session, new)
      BY <1>1, <1>6, <3>1, ShowingFields
    <3> QED BY <1>4, <1>5, <2>2, <3>2 DEF Owner, Shown
  <2>3. CASE Counts(c) /\ ~Confirmed(c)
    <3> DEFINE e == Showing(old, Nobody, session)
    <3>1. new = Forgotten(e)
      BY <2>3
    <3>2. Shown(old, Nobody, session, e)
      BY <1>1, ShowingFields
    <3> HIDE DEF new, e
    <3>3. /\ new \in TabRecords /\ new.user = Nobody /\ new.since = {session} /\ new.page = old.page
          /\ new.away = old.away /\ ~new.dirty
      BY <3>1, <3>2, ForgottenFields DEF Shown
    <3> QED BY <2>3, <3>3
  <2> QED BY <2>1, <2>2, <2>3
<1>8. out \in Checks /\ (Counts(c) => \A k \in Purposes : ~out[k].current)
      /\ (~Counts(c) => out = check[t])
  BY <1>1, OutdatedFields
<1> HIDE DEF new, c
<1>9. CASE asks
  <2>1. /\ once \in TabRecords /\ once.page = new.page /\ once.since = new.since
        /\ (once.dirty <=> new.dirty) /\ once.user = new.user /\ once.away = new.away
    BY <1>7 DEF TabRecords
  <2>2. Revalidate(t, once)
    BY <1>2, <1>9
  <2> HIDE DEF once, asks
  <2>3. once.page # "new" /\ session \in once.since
        /\ (once.dirty => old.dirty /\ Owner(once) = Owner(old))
    BY <1>1, <1>7, <2>1 DEF Owner
  <2> QED BY <1>1, <1>3, <2>1, <2>2, <2>3, RevalidateMoves, ReopensFlags
<1>10. CASE ~asks
  <2>1. tab' = [tab EXCEPT ![t] = d] /\ check' = [check EXCEPT ![t] = cs]
    BY <1>2, <1>10
  <2>2. a \in BOOLEAN /\ w \in {new.away, Nobody}
    BY <1>7 DEF TabRecords
  <2> HIDE DEF a, w, out
  <2>3. /\ d \in TabRecords /\ d.page = new.page /\ d.since = new.since /\ d.away = w
        /\ (d.dirty <=> new.dirty) /\ d.user = new.user /\ d.phase = new.phase
    BY <1>1, <1>7, <2>2 DEF TabRecords
  <2>4. cs \in Checks /\ cs["lease"] = NoCheck /\ \A k \in Purposes \ {"lease"} : cs[k] = out[k]
    BY <1>8, NoCheckFields, OneCheckMore DEF Purposes
  <2> HIDE DEF d, cs
  <2>5. FreshAt(d, cs, session)
    BY <1>1, <1>7, <1>8, <2>3, <2>4, NoCheckFields DEF FreshAt
  <2>6. Kept(old, d)
    BY <1>7, <2>2, <2>3 DEF Kept, Owner
  <2> QED BY <1>1, <1>3, <1>7, <2>1, <2>3, <2>4, <2>5, <2>6, ReopensFlags DEF Moves, TabTypes
<1> QED BY <1>9, <1>10

LEMMA BootstrappedMoves ==
    ASSUME TabTypes, Fresh, NEW t \in Tabs, NEW k \in {"open", "queue"}, Bootstrapped(t, k)
    PROVE  Moves(t)
<1> DEFINE c == check[t][k]
           old == tab[t]
           shows == Counts(c) /\ c.pc = "answered"
           d == IF shows THEN Showing(old, c.answer, session) ELSE old
           out == IF shows THEN Outdated(check[t]) ELSE check[t]
           cs == [out EXCEPT ![k] = NoCheck]
<1>1. old \in TabRecords /\ check[t] \in Checks /\ session \in People /\ c \in CheckRecords
      /\ FreshAt(old, check[t], session) /\ old.page # "new" /\ k \in Purposes
  BY DEF TabTypes, Fresh, Bootstrapped, Running, Checks, Purposes
<1>2. tab' = [tab EXCEPT ![t] = d] /\ check' = [check EXCEPT ![t] = cs] /\ Reopens(t)
  BY DEF Bootstrapped, TabTypes
<1>3. shows => old.user = Nobody /\ c.answer \in old.since /\ c.answer \in People
  BY <1>1 DEF FreshAt, Counts, CheckRecords
<1>4. out \in Checks /\ (shows => \A j \in Purposes : ~out[j].current) /\ (~shows => out = check[t])
  BY <1>1, OutdatedFields
<1>5. shows => Shown(old, c.answer, session, d)
  BY <1>1, <1>3, ShowingFields
<1>6. ~shows => d = old
  OBVIOUS
<1> HIDE DEF out, d
<1>7. cs \in Checks /\ cs[k] = NoCheck /\ \A j \in Purposes \ {k} : cs[j] = out[j]
  BY <1>1, <1>4, NoCheckFields, OneCheckMore
<1> HIDE DEF cs, shows, c
<1>8. FreshAt(d, cs, session)
  BY <1>1, <1>3, <1>4, <1>5, <1>6, <1>7, NoCheckFields DEF FreshAt, Shown
<1>9. Kept(old, d)
  BY <1>3, <1>5, <1>6 DEF Kept, Owner, Shown
<1>10. d \in TabRecords /\ d.user \in {old.user, Nobody} \cup old.since
  BY <1>1, <1>3, <1>5, <1>6 DEF Shown
<1> QED BY <1>1, <1>2, <1>7, <1>8, <1>9, <1>10, ReopensFlags DEF Moves, TabTypes

-----------------------------------------------------------------------------
(* Sessions change.                                                        *)

\* The tab shows somebody else and its checks are outdated.
LEMMA ShowMoves ==
    ASSUME TabTypes, Fresh, NEW t \in Tabs, Running(t), Reopens(t),
           NEW d, NEW who \in People, SameStudent(Showing(tab[t], who, session), d),
           d.page = tab[t].page,
           tab' = [tab EXCEPT ![t] = d], check' = [check EXCEPT ![t] = Outdated(@)],
           who = Nobody => tab[t].user = Nobody,
           login'[t] # login[t] \/ leave'[t] # leave[t]
    PROVE  Moves(t)
<1> DEFINE cs == Outdated(check[t])
           x == Showing(tab[t], who, session)
<1>1. tab[t] \in TabRecords /\ check[t] \in Checks /\ session \in People /\ tab[t].page # "new"
  BY DEF TabTypes, Running
<1>2. Shown(tab[t], who, session, x)
  BY <1>1, ShowingFields
<1>3. check' = [check EXCEPT ![t] = cs] /\ SameStudent(x, d)
  OBVIOUS
<1>4. cs \in Checks /\ \A k \in Purposes : ~cs[k].current
  BY <1>1, OutdatedFields
<1> HIDE DEF cs, x
<1>5. FreshAt(d, cs, session)
  BY <1>1, <1>2, <1>3, <1>4 DEF FreshAt, Shown, SameStudent
<1>6. Kept(tab[t], d)
  BY <1>2, <1>3 DEF Kept, Owner, Shown, SameStudent
<1> QED BY <1>1, <1>3, <1>4, <1>5, <1>6, ReopensFlags DEF Moves, TabTypes, SameStudent

\* The tab shows nobody and has nothing unsaved.
LEMMA ForgetMoves ==
    ASSUME TabTypes, Fresh, NEW t \in Tabs, Running(t), reopened' = reopened,
           tab' = [tab EXCEPT ![t] = Forgotten(Showing(@, Nobody, session))],
           check' = [check EXCEPT ![t] = Outdated(@)]
    PROVE  Moves(t)
<1> DEFINE cs == Outdated(check[t])
           x == Showing(tab[t], Nobody, session)
           d == Forgotten(x)
<1>1. tab[t] \in TabRecords /\ check[t] \in Checks /\ session \in People /\ tab[t].page # "new"
      /\ Nobody \in People
  BY DEF TabTypes, Running, People
<1>2. Shown(tab[t], Nobody, session, x)
  BY <1>1, ShowingFields
<1>3. check' = [check EXCEPT ![t] = cs] /\ tab' = [tab EXCEPT ![t] = d]
  BY DEF TabTypes
<1>4. cs \in Checks /\ \A k \in Purposes : ~cs[k].current
  BY <1>1, OutdatedFields
<1> HIDE DEF cs, x
<1>5. /\ d \in TabRecords /\ d.user = Nobody /\ d.since = {session} /\ d.page = tab[t].page /\ ~d.dirty
  BY <1>2, ForgottenFields DEF Shown
<1> HIDE DEF d
<1>6. FreshAt(d, cs, session)
  BY <1>1, <1>4, <1>5 DEF FreshAt
<1>7. Kept(tab[t], d) /\ ~Opened(tab[t], d)
  BY <1>5 DEF Kept, Opened
<1> QED BY <1>1, <1>3, <1>4, <1>5, <1>6, <1>7 DEF Moves, TabTypes

\* The second half of a session change, in a tab that shows nobody.
LEMMA FollowMoves ==
    ASSUME TabTypes, Fresh, NEW t \in Tabs, reopened' = reopened
    PROVE  \A c \in TabRecords, cs \in Checks : \A queue :
              /\ Follow(t, queue, c, cs)
              /\ FreshAt(c, cs, session) /\ c.user = Nobody /\ c.page # "new"
              /\ c.dirty => tab[t].dirty /\ Owner(c) = Owner(tab[t])
              => Moves(t)
<1> TAKE c \in TabRecords, cs \in Checks
<1> TAKE queue
<1> SUFFICES ASSUME Follow(t, queue, c, cs), FreshAt(c, cs, session), c.user = Nobody,
                    c.page # "new", c.dirty => tab[t].dirty /\ Owner(c) = Owner(tab[t])
             PROVE  Moves(t)
    OBVIOUS
<1>1. session \in People /\ Nobody \in People
  BY DEF TabTypes, People
<1>2. CASE queue.change # Nobody /\ Visible(t)
  <2> DEFINE x == Sent(Nobody)
             os == [cs EXCEPT !["queue"] = x]
  <2>1. tab' = [tab EXCEPT ![t] = c] /\ check' = [check EXCEPT ![t] = os]
    BY <1>2 DEF Follow
  <2>2. x \in CheckRecords /\ x.pc = "sent"
    BY <1>1, SentFields
  <2> HIDE DEF x
  <2>3. os \in Checks /\ \A k \in Purposes : os[k] = x \/ os[k] = cs[k]
    BY <2>2, OneCheckMore DEF Purposes
  <2> HIDE DEF os
  <2>4. FreshAt(c, os, session)
    BY <2>2, <2>3 DEF FreshAt
  <2>5. Kept(tab[t], c) /\ ~Opened(tab[t], c)
    BY DEF Kept, Opened
  <2> QED BY <2>1, <2>3, <2>4, <2>5 DEF Moves, TabTypes
<1>3. CASE ~(queue.change # Nobody /\ Visible(t))
  <2> DEFINE d == Showing(c, Nobody, session)
             os == Outdated(cs)
  <2>1. tab' = [tab EXCEPT ![t] = d] /\ check' = [check EXCEPT ![t] = os]
    BY <1>3 DEF Follow
  <2>2. Shown(c, Nobody, session, d)
    BY <1>1, ShowingFields
  <2>3. os \in Checks /\ \A k \in Purposes : ~os[k].current
    BY OutdatedFields
  <2> HIDE DEF os, d
  <2>4. FreshAt(d, os, session)
    BY <2>2, <2>3 DEF FreshAt, Shown
  <2>5. Kept(tab[t], d) /\ ~Opened(tab[t], d)
    BY <2>2 DEF Kept, Opened, Shown, Owner
  <2> QED BY <2>1, <2>2, <2>3, <2>4, <2>5 DEF Moves, TabTypes, Shown
<1> QED BY <1>2, <1>3

LEMMA ChangingMoves ==
    ASSUME TabTypes, Fresh, NEW t \in Tabs, Changing(t)
    PROVE  Moves(t)
<1>1. tab[t] \in TabRecords /\ check[t] \in Checks /\ session \in People /\ Running(t)
      /\ FreshAt(tab[t], check[t], session) /\ reopened' = reopened /\ tab[t].page # "new"
      /\ Nobody \in People
  BY DEF TabTypes, Fresh, Changing, ChangeTaken, ChangeEnds, Queued, Running, People
<1>2. CASE ChangeTaken(t)
  <2> DEFINE queue == [worker[t] EXCEPT !.todo = Tail(@), !.change = Head(worker[t].todo)]
             d == Forgotten(tab[t])
  <2>1. CASE queue.change = tab[t].user
    <3>1. UNCHANGED <<tab, check>>
      BY <1>2, <2>1 DEF ChangeTaken
    <3>2. Kept(tab[t], tab[t]) /\ ~Opened(tab[t], tab[t])
      BY DEF Kept, Opened
    <3> QED BY <1>1, <3>1, <3>2 DEF Moves, TabTypes
  <2>2. CASE queue.change # tab[t].user /\ tab[t].user # Nobody
    <3>1. tab' = [tab EXCEPT ![t] = d] /\ UNCHANGED check
      BY <1>2, <2>2 DEF ChangeTaken, TabTypes
    <3>2. /\ d \in TabRecords /\ d.user = tab[t].user /\ d.since = tab[t].since /\ d.page = tab[t].page
          /\ d.phase = tab[t].phase /\ ~d.dirty
      BY <1>1, ForgottenFields
    <3> HIDE DEF d
    <3>3. FreshAt(d, check[t], session)
      BY <1>1, <3>2 DEF FreshAt
    <3>4. Kept(tab[t], d) /\ ~Opened(tab[t], d)
      BY <3>2 DEF Kept, Opened
    <3> QED BY <1>1, <3>1, <3>2, <3>3, <3>4 DEF Moves, TabTypes
  <2>3. CASE queue.change # tab[t].user /\ tab[t].user = Nobody
    <3>1. Follow(t, queue, tab[t], check[t])
      BY <1>2, <2>3 DEF ChangeTaken
    <3> HIDE DEF queue
    <3> QED BY <1>1, <2>3, <3>1, FollowMoves
  <2> QED BY <2>1, <2>2, <2>3
<1>3. CASE ChangeEnds(t)
  <2> DEFINE x == Showing(tab[t], Nobody, session)
             c == Forgotten(x)
             cs == Outdated(check[t])
  <2>1. Follow(t, worker[t], c, cs)
    BY <1>3 DEF ChangeEnds
  <2>2. Shown(tab[t], Nobody, session, x)
    BY <1>1, ShowingFields
  <2> HIDE DEF x
  <2>3. c \in TabRecords /\ c.user = Nobody /\ c.since = {session} /\ c.page = tab[t].page /\ ~c.dirty
    BY <2>2, ForgottenFields DEF Shown
  <2>4. cs \in Checks /\ \A k \in Purposes : ~cs[k].current
    BY <1>1, OutdatedFields
  <2> HIDE DEF c, cs
  <2>5. FreshAt(c, cs, session) /\ c.page # "new"
    BY <1>1, <2>3, <2>4 DEF FreshAt
  <2> QED BY <1>1, <2>1, <2>3, <2>4, <2>5, FollowMoves
<1> QED BY <1>2, <1>3 DEF Changing

LEMMA SignedInMoves ==
    ASSUME TabTypes, Fresh, NEW t \in Tabs, SignedIn(t)
    PROVE  Moves(t)
<1>1. tab[t] \in TabRecords /\ check[t] \in Checks /\ session \in People /\ Running(t)
      /\ FreshAt(tab[t], check[t], session) /\ login[t] \in People /\ login'[t] # login[t]
      /\ reopened \in SUBSET Tabs
  BY DEF TabTypes, Fresh, SignedIn
<1>2. CASE UNCHANGED <<tab, check, inbox, reopened>>
  <2>1. Kept(tab[t], tab[t]) /\ ~Opened(tab[t], tab[t])
    BY DEF Kept, Opened
  <2> QED BY <1>1, <1>2, <2>1 DEF Moves, TabTypes
<1>3. CASE Show(t, login[t]) /\ Reopens(t)
  <2> DEFINE d == Showing(tab[t], login[t], session)
  <2>1. Shown(tab[t], login[t], session, d)
    BY <1>1, ShowingFields
  <2>2. tab' = [tab EXCEPT ![t] = d] /\ check' = [check EXCEPT ![t] = Outdated(@)]
    BY <1>3 DEF Show, TabTypes
  <2>3. SameStudent(Showing(tab[t], login[t], session), d)
    BY <2>1 DEF SameStudent, Shown
  <2>4. d.page = tab[t].page /\ login[t] # Nobody
    BY <2>1 DEF Shown, SignedIn
  <2> HIDE DEF d
  <2> QED BY <1>1, <1>3, <2>2, <2>3, <2>4, ShowMoves
<1> QED BY <1>2, <1>3 DEF SignedIn

-----------------------------------------------------------------------------
(* Signing out, as it moves the tabs.                                      *)

\* The workspace is locked or ready, or opened again by a step that says so.
LEMMA PhaseMoves ==
    ASSUME TabTypes, Fresh, NEW t \in Tabs, UNCHANGED check,
           NEW p \in {"open", "preparing", "ready"},
           tab' = [tab EXCEPT ![t].phase = p],
           Reopens(t) \/ (p # "open" /\ reopened' = reopened)
    PROVE  Moves(t)
<1>1. tab[t] \in TabRecords /\ reopened \in SUBSET Tabs
  BY DEF TabTypes
<1>2. tab' = [tab EXCEPT ![t] = [tab[t] EXCEPT !.phase = p, !.dirty = tab[t].dirty]]
      /\ tab[t].dirty \in BOOLEAN
  BY <1>1 DEF TabTypes, TabRecords
<1>3. tab'[t].phase = p /\ tab'[t].user = tab[t].user
  BY <1>1 DEF TabTypes, TabRecords
<1>4. CASE Reopens(t)
  <2>1. /\ reopened \subseteq reopened' /\ reopened' \subseteq Tabs
        /\ Opened(tab[t], tab'[t]) => t \in reopened' \/ \A u \in Tabs : leave[u].pc = "idle"
    BY <1>4, ReopensFlags
  <2>2. tab[t].user # Nobody /\ p = "open" /\ tab[t].phase # "open" =>
            t \in reopened' \/ \A u \in Tabs : leave[u].pc = "idle"
    BY <1>3, <2>1 DEF Opened
  <2> QED BY <1>2, <2>1, <2>2, WorkMoves
<1>5. CASE p # "open" /\ reopened' = reopened
  BY <1>1, <1>2, <1>5, WorkMoves
<1> QED BY <1>4, <1>5

\* Nothing changes in any tab.
LEMMA StillMoves ==
    ASSUME TabTypes, Fresh, NEW t \in Tabs, UNCHANGED <<tab, check, reopened>>
    PROVE  Moves(t)
BY DEF Moves, TabTypes, Fresh, Kept, Opened

LEMMA ResumedMoves ==
    ASSUME TabTypes, Fresh, NEW t \in Tabs, NEW who, tab' = Resumed(t, who), Reopens(t),
           UNCHANGED check
    PROVE  Moves(t)
<1> DEFINE p == IF tab[t].user = who THEN "open" ELSE tab[t].phase
<1>1. p \in {"open", "preparing", "ready"}
  BY DEF TabTypes, TabRecords
<1>2. tab' = [tab EXCEPT ![t].phase = p]
  BY DEF Resumed, TabTypes
<1> HIDE DEF p
<1> QED BY <1>1, <1>2, PhaseMoves

LEMMA PreparesMoves ==
    ASSUME TabTypes, Fresh, NEW t \in Tabs, NEW who, Prepares(t, who),
           reopened' = reopened \/ Reopens(t), UNCHANGED check
    PROVE  Moves(t)
<1>1. tab[t] \in TabRecords /\ reopened \in SUBSET Tabs
  BY DEF TabTypes
<1>2. CASE tab[t].user = who
  <2>1. tab' = [tab EXCEPT ![t] = [tab[t] EXCEPT !.phase = "ready", !.dirty = FALSE]]
    BY <1>2, <1>1 DEF Prepares, TabTypes
  <2>2. reopened \subseteq reopened' /\ reopened' \subseteq Tabs
    BY <1>1, ReopensFlags
  <2> QED BY <2>1, <2>2, WorkMoves
<1>3. CASE tab[t].user # who
  <2>1. tab' = tab
    BY <1>3 DEF Prepares
  <2>2. reopened' = reopened
    BY <2>1 DEF Reopens
  <2> QED BY <2>1, <2>2, StillMoves
<1> QED BY <1>2, <1>3

LEMMA FailureMoves ==
    ASSUME TabTypes, Fresh, NEW t \in Tabs, NEW who, PreparationFails(t, who), Reopens(t),
           UNCHANGED check
    PROVE  Moves(t)
<1>1. CASE tab[t].user = who
  BY <1>1, PhaseMoves DEF PreparationFails
<1>2. CASE tab[t].user # who
  <2>1. tab' = tab
    BY <1>2 DEF PreparationFails
  <2>2. reopened' = reopened
    BY <2>1 DEF Reopens
  <2> QED BY <2>1, <2>2, StillMoves
<1> QED BY <1>1, <1>2

LEMMA LeavingMoves ==
    ASSUME TabTypes, Fresh, NEW t \in Tabs, Leaving(t) \/ StartLogout(t), ~LogoutServed(t)
    PROVE  Moves(t)
<1>1. CASE StartLogout(t)
  <2>1. tab' = [tab EXCEPT ![t].phase = "preparing"] /\ UNCHANGED check /\ reopened' = reopened
    BY <1>1 DEF StartLogout
  <2> QED BY <2>1, PhaseMoves
<1>2. CASE AskTabs(t)
  BY <1>2, PreparesMoves DEF AskTabs
<1>3. CASE LogoutFails(t)
  BY <1>3, FailureMoves DEF LogoutFails
<1>4. CASE RequestLogout(t)
  BY <1>4, StillMoves DEF RequestLogout
<1>5. CASE CancelLogout(t)
  BY <1>5, ResumedMoves DEF CancelLogout
<1>6. CASE LogoutDone(t)
  <2>1. Running(t) /\ reopened' = reopened
        /\ tab' = [tab EXCEPT ![t] = Forgotten(Showing(@, Nobody, session))]
        /\ check' = [check EXCEPT ![t] = Outdated(@)]
    BY <1>6 DEF LogoutDone, End
  <2> QED BY <2>1, ForgetMoves
<1>7. CASE ProbeAnswered(t)
  <2>1. CASE UNCHANGED <<tab, check, inbox, reopened>>
    BY <2>1, StillMoves
  <2>2. CASE /\ session = leave[t].who
             /\ tab' = [tab EXCEPT ![t] = [Showing(@, session, session) EXCEPT !.phase = "open"]]
             /\ check' = [check EXCEPT ![t] = Outdated(@)]
             /\ Reopens(t)
             /\ leave' = [leave EXCEPT ![t] = NoLeave]
    <3> DEFINE x == Showing(tab[t], session, session)
               d == [x EXCEPT !.phase = "open"]
               cs == Outdated(check[t])
    <3>1. leave[t].pc = "probing" /\ Running(t)
      BY <1>7 DEF ProbeAnswered
    <3>2. /\ tab[t] \in TabRecords /\ check[t] \in Checks /\ tab[t].page # "new"
          /\ session \in Students /\ session \in People
      BY <2>2, <3>1 DEF TabTypes, Running
    <3>3. Shown(tab[t], session, session, x)
      BY <3>2, ShowingFields
    <3>4. check' = [check EXCEPT ![t] = cs] /\ tab' = [tab EXCEPT ![t] = d] /\ Reopens(t)
      BY <2>2 DEF TabTypes
    <3>5. cs \in Checks /\ \A k \in Purposes : ~cs[k].current
      BY <3>2, OutdatedFields
    <3> HIDE DEF cs, x
    <3>6. /\ d \in TabRecords /\ d.user = session /\ d.away = x.away /\ d.page = x.page
          /\ d.since = x.since /\ (d.dirty <=> x.dirty) /\ d.phase = "open"
      BY <3>3 DEF Shown, TabRecords
    <3> HIDE DEF d
    <3>7. FreshAt(d, cs, session)
      BY <3>2, <3>3, <3>5, <3>6 DEF FreshAt, Shown
    <3>8. Kept(tab[t], d)
      BY <3>2, <3>3, <3>6, FirstIsStudent DEF Kept, Shown
    <3>9. leave'[t] # leave[t] \/ tab'[t].user \in {tab[t].user, Nobody} \cup tab[t].since
      BY <3>2, <3>4, <3>6 DEF Fresh, FreshAt, TabTypes
    <3> QED BY <3>2, <3>4, <3>5, <3>6, <3>7, <3>8, <3>9, ReopensFlags DEF Moves, TabTypes
  <2> QED BY <1>7, <2>1, <2>2 DEF ProbeAnswered
<1> QED BY <1>1, <1>2, <1>3, <1>4, <1>5, <1>6, <1>7 DEF Leaving

LEMMA HearingMoves ==
    ASSUME TabTypes, Fresh, NEW t \in Tabs, Hearing(t) \/ PrepareDone(t)
    PROVE  Moves(t)
<1>1. CASE HearPresence(t) \/ HearChange(t) \/ HearAnswer(t)
  BY <1>1, StillMoves DEF HearPresence, HearChange, HearAnswer
<1>2. CASE HearCancel(t)
  BY <1>2, ResumedMoves DEF HearCancel
<1>3. CASE HearPrepare(t)
  <2>1. CASE tab' = [tab EXCEPT ![t].phase = "preparing"]
    BY <1>3, <2>1, PhaseMoves DEF HearPrepare
  <2>2. CASE UNCHANGED tab
    BY <1>3, <2>2, StillMoves DEF HearPrepare
  <2> QED BY <1>3, <2>1, <2>2 DEF HearPrepare
<1>4. CASE PrepareDone(t)
  BY <1>4, PreparesMoves, FailureMoves DEF PrepareDone
<1> QED BY <1>1, <1>2, <1>3, <1>4 DEF Hearing

-----------------------------------------------------------------------------
(* The session itself, and every step together.                            *)

\* The work of every tab stays as it is.
Still ==
    /\ tab' \in [Tabs -> TabRecords]
    /\ \A u \in Tabs : /\ tab'[u].user = tab[u].user /\ tab'[u].away = tab[u].away
                      /\ tab'[u].phase = tab[u].phase /\ tab'[u].dirty = tab[u].dirty
                      /\ tab'[u].page = tab[u].page
    /\ check' = check /\ reopened' = reopened

LEMMA SessionMoves ==
    ASSUME TabTypes, Fresh, NEW s \in People, SessionIs(s), UNCHANGED <<check, reopened>>
    PROVE  Still /\ Fresh' /\ session' \in People
<1> DEFINE w(u) == IF \E k \in Purposes : check[u][k].pc # "idle"
                   THEN tab[u].since \cup {s} ELSE {s}
<1>1. ASSUME NEW u \in Tabs
      PROVE  /\ tab'[u] \in TabRecords
             /\ tab'[u].user = tab[u].user /\ tab'[u].away = tab[u].away
             /\ tab'[u].phase = tab[u].phase /\ tab'[u].dirty = tab[u].dirty
             /\ tab'[u].page = tab[u].page /\ tab'[u].since = w(u)
  <2>1. tab[u] \in TabRecords
    BY DEF TabTypes
  <2>2. w(u) \in SUBSET People
    BY <2>1 DEF TabRecords
  <2>3. tab'[u] = [tab[u] EXCEPT !.since = w(u)]
    BY <2>1 DEF SessionIs, TabRecords
  <2> HIDE DEF w
  <2> QED BY <2>1, <2>2, <2>3 DEF TabRecords
<1>2. tab' = [u \in Tabs |-> tab'[u]]
  BY DEF SessionIs
<1>3. Still
  BY <1>1, <1>2 DEF Still
<1>4. ASSUME NEW u \in Tabs PROVE FreshAt(tab'[u], check[u], s)
  <2>1. FreshAt(tab[u], check[u], session)
    BY DEF Fresh
  <2>2. s \in w(u)
    OBVIOUS
  <2>3. ASSUME NEW k \in Purposes, check[u][k].current, check[u][k].pc = "answered"
        PROVE  check[u][k].answer \in w(u)
    BY <2>1, <2>3 DEF FreshAt
  <2> HIDE DEF w
  <2> QED BY <1>1, <2>1, <2>2, <2>3 DEF FreshAt
<1> QED BY <1>3, <1>4 DEF Fresh, SessionIs

\* A step of tab t, the session as it was; or the session changes and nothing else about tabs.
LEMMA EveryMove ==
    ASSUME TabTypes, Fresh, Next
    PROVE  \/ session' = session /\ \E t \in Tabs : Moves(t)
           \/ Still /\ Fresh' /\ session' \in People
<1>1. CASE SessionEnds
  BY <1>1, SessionMoves DEF SessionEnds, People
<1>2. ASSUME NEW t \in Tabs, NEW s \in Students, SignIn(t, s)
      PROVE  Still /\ Fresh' /\ session' \in People
  BY <1>2, SessionMoves DEF SignIn, People
<1>3. ASSUME NEW t \in Tabs, LogoutServed(t)
      PROVE  Still /\ Fresh' /\ session' \in People
  <2>1. session \in People /\ Nobody \in People
    BY DEF TabTypes, People
  <2> QED BY <1>3, <2>1, SessionMoves DEF LogoutServed
<1>4. ASSUME NEW t \in Tabs,
             \/ Lifecycle(t) \/ LeaseExpires(t) \/ Checking(t)
             \/ SignedIn(t) \/ Hearing(t) \/ Changing(t)
             \/ StartLogout(t) \/ Leaving(t) \/ PrepareDone(t),
             ~LogoutServed(t)
      PROVE  session' = session /\ Moves(t)
  <2>1. Moves(t)
    BY <1>4, LifecycleMoves, ServeMoves, LeaseAnsweredMoves, BootstrappedMoves, SignedInMoves,
       HearingMoves, ChangingMoves, LeavingMoves DEF Checking
  <2>2. session' = session
    BY <1>4 DEF Lifecycle, HidePage, FreezePage, ShowPage, ThawPage, OpenTab, CloseTab, Edit,
       Autosave, LeaseExpires, Others, Checking, Serve, LeaseAnswered, Bootstrapped, SignedIn,
       Hearing, HearPresence, HearChange, HearPrepare, HearCancel, HearAnswer, Changing,
       ChangeTaken, ChangeEnds, Queued, StartLogout, Leaving, AskTabs, LogoutFails,
       RequestLogout, CancelLogout, ProbeAnswered, LogoutDone, Elsewhere, PrepareDone
  <2> QED BY <2>1, <2>2
<1> QED BY <1>1, <1>2, <1>3, <1>4 DEF Next

LEMMA LoginsAreTyped ==
    ASSUME TabTypes, Next
    PROVE  login' \in [Tabs -> People]
<1>1. login \in [Tabs -> People]
  BY DEF TabTypes
<1>2. ASSUME NEW t \in Tabs, SignedIn(t) \/ CloseTab(t) PROVE login' \in [Tabs -> People]
  BY <1>1, <1>2 DEF SignedIn, CloseTab, People
<1>3. ASSUME NEW t \in Tabs, NEW s \in Students, SignIn(t, s) PROVE login' \in [Tabs -> People]
  BY <1>1, <1>3 DEF SignIn, People
<1>4. ASSUME NEW t \in Tabs,
             \/ Lifecycle(t) /\ ~CloseTab(t)
             \/ LeaseExpires(t) \/ Checking(t) \/ Hearing(t) \/ Changing(t)
             \/ StartLogout(t) \/ Leaving(t) \/ PrepareDone(t)
      PROVE  login' = login
  BY <1>4 DEF Lifecycle, HidePage, FreezePage, ShowPage, ThawPage, OpenTab, CloseTab, Edit,
     Autosave, LeaseExpires, Others, Checking, Serve, LeaseAnswered, Bootstrapped,
     Hearing, HearPresence, HearChange, HearPrepare, HearCancel, HearAnswer, Changing,
     ChangeTaken, ChangeEnds, Queued, StartLogout, Leaving, AskTabs, LogoutFails,
     RequestLogout, CancelLogout, LogoutServed, ProbeAnswered, LogoutDone, Elsewhere, PrepareDone
<1>5. SessionEnds => login' = login
  BY DEF SessionEnds
<1> QED BY <1>1, <1>2, <1>3, <1>4, <1>5 DEF Next

\* How the sign-outs of the tabs go on: one is begun, asks, hears an answer, or goes on for the
\* same student; and it ends.
LeaveGoesOn(t) ==
    \/ leave' = leave
    \/ leave' = [leave EXCEPT ![t] = NoLeave]
    \/ \E where \in {"ending", "probing"} :
          leave' = [leave EXCEPT ![t].pc = where] /\ leave[t].pc # "idle"

LEMMA LeavesGoOn ==
    ASSUME Next
    PROVE  \/ leave' = leave
           \/ \E t \in Tabs : \/ LeaveGoesOn(t) \/ StartLogout(t) \/ AskTabs(t)
                              \/ RequestLogout(t) \/ HearAnswer(t)
<1>1. SessionEnds => leave' = leave
  BY DEF SessionEnds
<1>2. ASSUME NEW t \in Tabs, NEW s \in Students, SignIn(t, s) PROVE leave' = leave
  BY <1>2 DEF SignIn
<1>3. ASSUME NEW t \in Tabs,
             \/ Lifecycle(t) /\ ~CloseTab(t)
             \/ LeaseExpires(t) \/ Checking(t) \/ Changing(t) \/ SignedIn(t) \/ PrepareDone(t)
             \/ HearPresence(t) \/ HearChange(t) \/ HearPrepare(t) \/ HearCancel(t)
      PROVE  leave' = leave
  BY <1>3 DEF Lifecycle, HidePage, FreezePage, ShowPage, ThawPage, OpenTab, CloseTab, Edit,
     Autosave, LeaseExpires, Others, Checking, Serve, LeaseAnswered, Bootstrapped, SignedIn,
     HearPresence, HearChange, HearPrepare, HearCancel, Changing,
     ChangeTaken, ChangeEnds, Queued, PrepareDone
<1>4. ASSUME NEW t \in Tabs, CloseTab(t) \/ LogoutFails(t) \/ CancelLogout(t) \/ LogoutDone(t)
      PROVE  LeaveGoesOn(t)
  BY <1>4 DEF LeaveGoesOn, CloseTab, LogoutFails, CancelLogout, LogoutDone
<1>5. ASSUME NEW t \in Tabs, LogoutServed(t) \/ ProbeAnswered(t)
      PROVE  LeaveGoesOn(t)
  BY <1>5 DEF LeaveGoesOn, LogoutServed, ProbeAnswered
<1> QED BY <1>1, <1>2, <1>3, <1>4, <1>5 DEF Next, Hearing, Leaving

-----------------------------------------------------------------------------
(* Messages.                                                               *)

Exchange == {"prepare", "started", "saved", "refused"}
Types == Exchange \cup {"hello", "present", "suspended", "goodbye", "changed", "cancel"}
Messages == [type : Types, from : Tabs, who : People, number : Nat]
LeaveRecords ==
    [pc : {"idle", "preparing", "waiting", "requested", "ending", "probing"},
     who : People, number : Nat, asked : SUBSET Tabs,
     started : SUBSET Tabs, saved : SUBSET Tabs, refused : SUBSET Tabs]

TalkTypes ==
    /\ inbox \in [Tabs -> Seq(Messages)]
    /\ jobs \in [Tabs -> SUBSET Messages]
    /\ \A t \in Tabs : \A m \in jobs[t] : m.type = "prepare"
    /\ known \in [Tabs -> SUBSET Tabs]
    /\ leave \in [Tabs -> LeaveRecords]
    /\ budget \in Budget

\* The messages of a sequence.
Within(seq) == {seq[i] : i \in 1..Len(seq)}

LEMMA WithinIsTyped == \A seq \in Seq(Messages) : Within(seq) \subseteq Messages
BY ElementOfSeq DEF Within

LEMMA WithinOne == \A m \in Messages : <<m>> \in Seq(Messages) /\ Within(<<m>>) = {m}
BY DEF Within

LEMMA WithinTwo ==
    \A m, n \in Messages : <<m, n>> \in Seq(Messages) /\ Within(<<m, n>>) = {m, n}
<1> TAKE m, n \in Messages
<1>1. <<m, n>> \in Seq(Messages) /\ Len(<<m, n>>) = 2 /\ <<m, n>>[1] = m /\ <<m, n>>[2] = n
  OBVIOUS
<1> QED BY <1>1 DEF Within

LEMMA WithinMore ==
    \A x, y \in Seq(Messages) :
        x \o y \in Seq(Messages) /\ Within(x \o y) \subseteq Within(x) \cup Within(y)
<1> TAKE x, y \in Seq(Messages)
<1>1. /\ x \o y \in Seq(Messages) /\ Len(x \o y) = Len(x) + Len(y)
      /\ \A i \in 1 .. Len(x) + Len(y) :
            (x \o y)[i] = IF i <= Len(x) THEN x[i] ELSE y[i - Len(x)]
  BY ConcatProperties
<1>2. Len(x) \in Nat /\ Len(y) \in Nat
  BY LenProperties
<1>3. ASSUME NEW i \in 1 .. Len(x) + Len(y) PROVE (x \o y)[i] \in Within(x) \cup Within(y)
  <2>1. CASE i <= Len(x)
    BY <1>1, <1>2, <2>1 DEF Within
  <2>2. CASE ~(i <= Len(x))
    <3>1. i - Len(x) \in 1 .. Len(y)
      BY <1>2, <2>2
    <3> QED BY <1>1, <2>2, <3>1 DEF Within
  <2> QED BY <2>1, <2>2
<1> QED BY <1>1, <1>3 DEF Within

LEMMA WithinTail ==
    \A x \in Seq(Messages) : x # <<>> =>
        /\ Tail(x) \in Seq(Messages) /\ Within(Tail(x)) \subseteq Within(x)
        /\ Head(x) \in Within(x)
<1> TAKE x \in Seq(Messages)
<1> SUFFICES ASSUME x # <<>>
             PROVE  /\ Tail(x) \in Seq(Messages) /\ Within(Tail(x)) \subseteq Within(x)
                    /\ Head(x) \in Within(x)
    OBVIOUS
<1>1. /\ Tail(x) \in Seq(Messages) /\ Len(Tail(x)) = Len(x) - 1
      /\ \A i \in 1 .. Len(Tail(x)) : Tail(x)[i] = x[i + 1]
  BY HeadTailProperties
<1>2. Len(x) \in Nat \ {0}
  BY EmptySeq
<1>3. Head(x) = x[1]
  BY <1>2
<1> QED BY <1>1, <1>2, <1>3 DEF Within

\* The mail of tab u: what has arrived there and what it still prepares for.
Mails(u) == Within(inbox[u]) \cup jobs[u]

LEMMA PostedWithin ==
    ASSUME NEW t \in Tabs
    PROVE  \A box \in [Tabs -> Seq(Messages)], ms \in Seq(Messages) :
              /\ Posted(box, t, ms) \in [Tabs -> Seq(Messages)]
              /\ \A u \in Tabs : Within(Posted(box, t, ms)[u]) \subseteq Within(box[u]) \cup Within(ms)
<1> TAKE box \in [Tabs -> Seq(Messages)], ms \in Seq(Messages)
<1>1. ASSUME NEW u \in Tabs
      PROVE  /\ Posted(box, t, ms)[u] \in Seq(Messages)
             /\ Within(Posted(box, t, ms)[u]) \subseteq Within(box[u]) \cup Within(ms)
  <2>1. box[u] \in Seq(Messages)
    OBVIOUS
  <2>2. Posted(box, t, ms)[u] = IF u # t /\ Alive(u) THEN box[u] \o ms ELSE box[u]
    BY DEF Posted
  <2> QED BY <2>1, <2>2, WithinMore
<1>2. Posted(box, t, ms) = [u \in Tabs |-> Posted(box, t, ms)[u]]
  BY DEF Posted
<1> QED BY <1>1, <1>2

\* What a message may be that was not there before the step: no part of a sign-out, its opening,
\* or an answer to it; and a tab that answers "saved" has nothing of the student unsaved.
Novel(m) ==
    \/ m.type \notin Exchange
    \/ \E t \in Tabs : /\ AskTabs(t) /\ m.type = "prepare"
                       /\ m.who = leave[t].who /\ m.number = leave[t].number
    \/ \E t \in Tabs : \E q \in Mails(t) :
          /\ q.type = "prepare" /\ m.who = q.who /\ m.number = q.number
          /\ m.type \in Exchange /\ m.from = t
          /\ m.type = "saved" => Clean(tab'[t], m.who)

MailStep ==
    /\ inbox' \in [Tabs -> Seq(Messages)]
    /\ jobs' \in [Tabs -> SUBSET Messages]
    /\ \A t \in Tabs : \A m \in jobs'[t] : m.type = "prepare"
    /\ \A u \in Tabs : \A m \in Mails(u)' : m \in Mails(u) \/ Novel(m)

\* Only one message is new, in whichever tabs it arrives.
LEMMA OneMessage ==
    ASSUME TalkTypes, NEW t \in Tabs, NEW m \in Messages, inbox' = Posted(inbox, t, <<m>>),
           jobs' = [jobs EXCEPT ![t] = jobs'[t]], jobs'[t] \subseteq jobs[t],
           m.type \notin Exchange \/ Novel(m)
    PROVE  MailStep
<1>1. <<m>> \in Seq(Messages) /\ Within(<<m>>) = {m} /\ inbox \in [Tabs -> Seq(Messages)]
  BY WithinOne DEF TalkTypes
<1>2. /\ inbox' \in [Tabs -> Seq(Messages)]
      /\ \A u \in Tabs : Within(inbox'[u]) \subseteq Within(inbox[u]) \cup {m}
  BY <1>1, PostedWithin
<1>3. \A u \in Tabs : jobs'[u] \subseteq jobs[u]
  BY DEF TalkTypes
<1>4. Novel(m)
  BY DEF Novel
<1>5. jobs' \in [Tabs -> SUBSET Messages] /\ \A u \in Tabs : \A n \in jobs'[u] : n.type = "prepare"
  BY <1>3 DEF TalkTypes
<1>6. ASSUME NEW u \in Tabs, NEW n \in Mails(u)' PROVE n \in Mails(u) \/ Novel(n)
  BY <1>2, <1>3, <1>4, <1>6 DEF Mails
<1> QED BY <1>2, <1>5, <1>6 DEF MailStep

\* Nothing is new.
LEMMA NoMessage ==
    ASSUME TalkTypes, inbox' \in [Tabs -> Seq(Messages)],
           \A u \in Tabs : Within(inbox'[u]) \subseteq Within(inbox[u]),
           jobs' = jobs
    PROVE  MailStep
BY DEF MailStep, Mails, TalkTypes

LEMMA PlainMail ==
    ASSUME TabTypes, TalkTypes, NEW t \in Tabs,
           \/ ThawPage(t) \/ OpenTab(t) \/ SignedIn(t) \/ CancelLogout(t) \/ ProbeAnswered(t)
           \/ LogoutDone(t) \/ FreezePage(t) \/ CloseTab(t)
    PROVE  MailStep
<1> DEFINE plain(type, who) == Message(type, t, who, 0)
<1>1. ASSUME NEW type \in Types \ Exchange, NEW who \in People
      PROVE  plain(type, who) \in Messages /\ plain(type, who).type \notin Exchange
  BY <1>1 DEF Message, Messages
<1>2. Nobody \in People /\ login[t] \in People /\ leave[t].who \in People /\ session \in People
      /\ inbox \in [Tabs -> Seq(Messages)]
  BY DEF TabTypes, TalkTypes, LeaveRecords, People
<1>3. {"hello", "suspended", "goodbye", "changed", "cancel"} \subseteq Types \ Exchange
  BY DEF Types, Exchange
<1>4. ASSUME NEW type \in Types \ Exchange, NEW who \in People,
             inbox' = Posted(inbox, t, <<plain(type, who)>>), jobs' = jobs
      PROVE  MailStep
  <2>1. jobs' = [jobs EXCEPT ![t] = jobs'[t]] /\ jobs'[t] \subseteq jobs[t]
    BY <1>4 DEF TalkTypes
  <2> HIDE DEF plain
  <2> QED BY <1>1, <1>4, <2>1, OneMessage
<1>5. CASE ThawPage(t) \/ OpenTab(t)
  BY <1>2, <1>3, <1>4, <1>5 DEF ThawPage, OpenTab, Others, Post
<1>6. CASE SignedIn(t)
  BY <1>2, <1>3, <1>4, <1>6, NoMessage DEF SignedIn, Post
<1>7. CASE CancelLogout(t) \/ LogoutDone(t)
  BY <1>2, <1>3, <1>4, <1>7 DEF CancelLogout, LogoutDone, Post
<1>8. CASE ProbeAnswered(t)
  <2>1. CASE inbox' = inbox
    BY <1>2, <1>8, <2>1, NoMessage DEF ProbeAnswered
  <2>2. CASE Post(t, "cancel", session)
    BY <1>2, <1>3, <1>4, <1>8, <2>2 DEF ProbeAnswered, Post
  <2> QED BY <1>8, <2>1, <2>2 DEF ProbeAnswered
<1>9. ASSUME NEW said \in Seq(Messages), Within(said) \subseteq Messages,
             \A m \in Within(said) : m.type \notin Exchange,
             inbox' = [Posted(inbox, t, said) EXCEPT ![t] = <<>>],
             jobs' = [jobs EXCEPT ![t] = jobs'[t]], jobs'[t] \subseteq jobs[t]
      PROVE  MailStep
  <2> DEFINE box == Posted(inbox, t, said)
  <2>1. /\ box \in [Tabs -> Seq(Messages)]
        /\ \A u \in Tabs : Within(box[u]) \subseteq Within(inbox[u]) \cup Within(said)
    BY <1>2, PostedWithin
  <2>2. inbox' = [box EXCEPT ![t] = <<>>]
    BY <1>9
  <2> HIDE DEF box
  <2>3. <<>> \in Seq(Messages) /\ Within(<<>>) = {}
    BY DEF Within
  <2>4. /\ inbox' \in [Tabs -> Seq(Messages)]
        /\ \A u \in Tabs : Within(inbox'[u]) \subseteq Within(inbox[u]) \cup Within(said)
    BY <2>1, <2>2, <2>3
  <2>5. \A u \in Tabs : jobs'[u] \subseteq jobs[u]
    BY <1>9 DEF TalkTypes
  <2>6. \A m \in Within(said) : Novel(m)
    BY <1>9 DEF Novel
  <2> QED BY <2>4, <2>5, <2>6, <1>9 DEF MailStep, Mails, TalkTypes
<1>10. CASE FreezePage(t)
  <2> DEFINE m == plain("suspended", Nobody)
  <2>1. m \in Messages /\ m.type \notin Exchange
    BY <1>1, <1>2, <1>3
  <2>2. inbox' = [Posted(inbox, t, <<m>>) EXCEPT ![t] = <<>>] /\ jobs' = jobs
    BY <1>10 DEF FreezePage, Others
  <2> HIDE DEF m
  <2>3. <<m>> \in Seq(Messages) /\ Within(<<m>>) = {m}
    BY <2>1, WithinOne
  <2> QED BY <1>9, <2>1, <2>2, <2>3 DEF TalkTypes
<1>11. CASE CloseTab(t)
  <2> DEFINE m == plain("goodbye", Nobody)
  <2>1. m \in Messages /\ m.type \notin Exchange
    BY <1>1, <1>2, <1>3
  <2>2. PICK said \in {<<>>, <<m>>} : inbox' = [Posted(inbox, t, said) EXCEPT ![t] = <<>>]
    BY <1>11 DEF CloseTab
  <2>3. jobs' = [jobs EXCEPT ![t] = {}]
    BY <1>11 DEF CloseTab
  <2> HIDE DEF m
  <2>4. said \in Seq(Messages) /\ Within(said) \subseteq {m}
    <3>1. <<>> \in Seq(Messages) /\ Within(<<>>) = {}
      BY DEF Within
    <3>2. <<m>> \in Seq(Messages) /\ Within(<<m>>) = {m}
      BY <2>1, WithinOne
    <3> QED BY <3>1, <3>2
  <2>5. jobs' = [jobs EXCEPT ![t] = jobs'[t]] /\ jobs'[t] \subseteq jobs[t]
    BY <2>3 DEF TalkTypes
  <2> QED BY <1>9, <2>1, <2>2, <2>4, <2>5
<1> QED BY <1>5, <1>6, <1>7, <1>8, <1>10, <1>11

\* A message that is read is one of the tab's mail.
LEMMA ReadWithin ==
    ASSUME TalkTypes, NEW t \in Tabs, inbox[t] # <<>>
    PROVE  /\ Mail(t) \in Messages /\ Mail(t) \in Mails(t)
           /\ Read(t) \in [Tabs -> Seq(Messages)]
           /\ \A u \in Tabs : Within(Read(t)[u]) \subseteq Within(inbox[u])
<1>1. inbox[t] \in Seq(Messages) /\ inbox \in [Tabs -> Seq(Messages)]
  BY DEF TalkTypes
<1>2. /\ Tail(inbox[t]) \in Seq(Messages) /\ Within(Tail(inbox[t])) \subseteq Within(inbox[t])
      /\ Head(inbox[t]) \in Within(inbox[t])
  BY <1>1, WithinTail
<1>3. Within(inbox[t]) \subseteq Messages
  BY <1>1, WithinIsTyped
<1> QED BY <1>1, <1>2, <1>3 DEF Mail, Read, Mails

\* A message is read and others are sent, all of them answers to it or no part of a sign-out.
LEMMA AnswersMail ==
    ASSUME TalkTypes, NEW t \in Tabs, inbox[t] # <<>>,
           NEW ms \in Seq(Messages), inbox' = Posted(Read(t), t, ms), jobs' = jobs,
           \A m \in Within(ms) : Novel(m)
    PROVE  MailStep
<1>1. /\ Read(t) \in [Tabs -> Seq(Messages)]
      /\ \A u \in Tabs : Within(Read(t)[u]) \subseteq Within(inbox[u])
  BY ReadWithin
<1> DEFINE box == Read(t)
<1>2. inbox' = Posted(box, t, ms)
  OBVIOUS
<1> HIDE DEF box
<1>3. box \in [Tabs -> Seq(Messages)] /\ \A u \in Tabs : Within(box[u]) \subseteq Within(inbox[u])
  BY <1>1 DEF box
<1>4. /\ Posted(box, t, ms) \in [Tabs -> Seq(Messages)]
      /\ \A u \in Tabs : Within(Posted(box, t, ms)[u]) \subseteq Within(box[u]) \cup Within(ms)
  BY <1>3, PostedWithin
<1> QED BY <1>2, <1>3, <1>4 DEF MailStep, Mails, TalkTypes

\* The answers of tab t to the question m.
LEMMA RepliesAreNovel ==
    ASSUME NEW t \in Tabs, NEW type \in Exchange
    PROVE  \A m \in Messages :
              /\ Reply(m, t, type) \in Messages
              /\ Reply(m, t, type).type = type
              /\ /\ m \in Mails(t) /\ m.type = "prepare"
                 /\ type = "saved" => Clean(tab'[t], m.who)
                 => Novel(Reply(m, t, type))
<1> TAKE m \in Messages
<1> DEFINE r == Reply(m, t, type)
<1>1. /\ r \in Messages /\ r.type = type /\ r.from = t /\ r.who = m.who /\ r.number = m.number
  BY DEF Reply, Message, Messages, Types
<1> HIDE DEF r
<1>2. ASSUME m \in Mails(t), m.type = "prepare", type = "saved" => Clean(tab'[t], m.who)
      PROVE  Novel(r)
  BY <1>1, <1>2 DEF Novel
<1> QED BY <1>1, <1>2 DEF r

LEMMA HearingMail ==
    ASSUME TabTypes, TalkTypes, NEW t \in Tabs, Hearing(t)
    PROVE  MailStep
<1> DEFINE m == Mail(t)
<1>1. inbox[t] # <<>>
  BY DEF Hearing, HearPresence, HearChange, HearPrepare, HearCancel, HearAnswer, Arrives
<1>2. /\ m \in Messages /\ m \in Mails(t) /\ Read(t) \in [Tabs -> Seq(Messages)]
      /\ \A u \in Tabs : Within(Read(t)[u]) \subseteq Within(inbox[u])
  BY <1>1, ReadWithin
<1>3. CASE HearChange(t) \/ HearCancel(t) \/ HearAnswer(t)
  <2>1. inbox' = Read(t) /\ jobs' = jobs
    BY <1>3 DEF HearChange, HearCancel, HearAnswer
  <2> QED BY <1>2, <2>1, NoMessage
<1>4. CASE HearPresence(t)
  <2>1. jobs' = jobs
    BY <1>4 DEF HearPresence
  <2>2. CASE inbox' = Read(t)
    BY <1>2, <2>1, <2>2, NoMessage
  <2>3. CASE inbox' = Posted(Read(t), t, <<Message("present", t, Nobody, 0)>>)
    <3> DEFINE n == Message("present", t, Nobody, 0)
    <3>1. n \in Messages /\ n.type \notin Exchange
      BY DEF Message, Messages, Types, Exchange, People
    <3> HIDE DEF n
    <3>2. Novel(n)
      BY <3>1 DEF Novel
    <3>3. <<n>> \in Seq(Messages) /\ Within(<<n>>) = {n}
      BY <3>1, WithinOne
    <3>4. inbox' = Posted(Read(t), t, <<n>>)
      BY <2>3 DEF n
    <3> QED BY <1>1, <2>1, <3>2, <3>3, <3>4, AnswersMail
  <2> QED BY <1>4, <2>2, <2>3 DEF HearPresence
<1>5. CASE HearPrepare(t)
  <2> DEFINE left == tab[t].dirty /\ Whose(t) = m.who
             s == Reply(m, t, "started")
             type == IF left THEN "refused" ELSE "saved"
             r == Reply(m, t, type)
  <2>1. m.type = "prepare" /\ type \in Exchange
    BY <1>5 DEF HearPrepare, Arrives, Exchange
  <2>2. s \in Messages /\ Novel(s)
    BY <1>2, <2>1, RepliesAreNovel DEF Exchange
  <2>3. CASE tab[t].user = m.who
    <3>1. /\ jobs' = [jobs EXCEPT ![t] = @ \cup {m}]
          /\ inbox' = Posted(Read(t), t, <<s>>)
      BY <1>5, <2>3 DEF HearPrepare
    <3> HIDE DEF s, m
    <3>2. <<s>> \in Seq(Messages) /\ Within(<<s>>) = {s}
      BY <2>2, WithinOne
    <3> DEFINE box == Read(t)
    <3>3. box \in [Tabs -> Seq(Messages)] /\ \A u \in Tabs : Within(box[u]) \subseteq Within(inbox[u])
      BY <1>2
    <3>4. inbox' = Posted(box, t, <<s>>)
      BY <3>1
    <3> HIDE DEF box
    <3>5. /\ inbox' \in [Tabs -> Seq(Messages)]
          /\ \A u \in Tabs : Within(inbox'[u]) \subseteq Within(box[u]) \cup {s}
      BY <3>2, <3>3, <3>4, PostedWithin
    <3>6. /\ jobs' \in [Tabs -> SUBSET Messages]
          /\ \A u \in Tabs : \A n \in jobs'[u] : n.type = "prepare"
          /\ \A u \in Tabs : jobs'[u] \subseteq Mails(u)
      BY <1>2, <2>1, <3>1 DEF TalkTypes, Mails
    <3>7. ASSUME NEW u \in Tabs, NEW n \in Mails(u)' PROVE n \in Mails(u) \/ Novel(n)
      BY <2>2, <3>3, <3>5, <3>6, <3>7 DEF Mails
    <3> QED BY <3>5, <3>6, <3>7 DEF MailStep
  <2>4. CASE tab[t].user # m.who
    <3>1. jobs' = jobs /\ UNCHANGED tab /\ inbox' = Posted(Read(t), t, <<s, r>>)
      BY <1>5, <2>4 DEF HearPrepare
    <3>2. type = "saved" => Clean(tab'[t], m.who)
      BY <2>4, <3>1 DEF Clean, Owner, Whose
    <3>3. r \in Messages /\ Novel(r)
      BY <1>2, <2>1, <3>2, RepliesAreNovel
    <3> HIDE DEF s, r, m
    <3>4. <<s, r>> \in Seq(Messages) /\ Within(<<s, r>>) = {s, r}
      BY <2>2, <3>3, WithinTwo
    <3> QED BY <1>1, <2>2, <3>1, <3>3, <3>4, AnswersMail
  <2> QED BY <2>3, <2>4
<1> QED BY <1>3, <1>4, <1>5 DEF Hearing

\* A workspace that is prepared has nothing unsaved, and nothing can be typed in it.
LEMMA PreparesClean ==
    ASSUME TabTypes, NEW t \in Tabs
    PROVE  \A who \in People : Prepares(t, who) => Clean(tab'[t], who)
<1> TAKE who \in People
<1>1. tab[t] \in TabRecords
  BY DEF TabTypes
<1>2. CASE tab[t].user = who
  BY <1>1, <1>2 DEF Prepares, Clean, Owner, TabTypes, TabRecords
<1>3. CASE tab[t].user # who
  BY <1>3 DEF Prepares, Clean, Owner, Whose
<1> QED BY <1>2, <1>3

LEMMA PreparingMail ==
    ASSUME TabTypes, TalkTypes, NEW t \in Tabs, AskTabs(t) \/ PrepareDone(t)
    PROVE  MailStep
<1>1. CASE AskTabs(t)
  <2> DEFINE m == Message("prepare", t, leave[t].who, leave[t].number)
  <2>1. /\ m \in Messages /\ m.type = "prepare" /\ m.who = leave[t].who
        /\ m.number = leave[t].number
    BY DEF Message, Messages, Types, Exchange, TalkTypes, LeaveRecords
  <2>2. inbox' = Posted(inbox, t, <<m>>) /\ jobs' = jobs
    BY <1>1 DEF AskTabs
  <2> HIDE DEF m
  <2>3. Novel(m)
    BY <1>1, <2>1 DEF Novel
  <2>4. jobs' = [jobs EXCEPT ![t] = jobs'[t]] /\ jobs'[t] \subseteq jobs[t]
    BY <2>2 DEF TalkTypes
  <2> QED BY <2>1, <2>2, <2>3, <2>4, OneMessage
<1>2. CASE PrepareDone(t)
  <2>1. PICK m \in jobs[t] :
           /\ \/ Prepares(t, m.who) /\ inbox' = Posted(inbox, t, <<Reply(m, t, "saved")>>)
              \/ inbox' = Posted(inbox, t, <<Reply(m, t, "refused")>>)
           /\ jobs' = [jobs EXCEPT ![t] = @ \ {m}]
    BY <1>2 DEF PrepareDone
  <2>2. m \in Messages /\ m \in Mails(t) /\ m.type = "prepare"
    BY DEF TalkTypes, Mails
  <2>3. jobs' = [jobs EXCEPT ![t] = jobs'[t]] /\ jobs'[t] \subseteq jobs[t]
    BY <2>1 DEF TalkTypes
  <2>4. Prepares(t, m.who) => Clean(tab'[t], m.who)
    BY <2>2, PreparesClean DEF Messages
  <2>5. ASSUME NEW type \in Exchange, inbox' = Posted(inbox, t, <<Reply(m, t, type)>>),
               type = "saved" => Clean(tab'[t], m.who)
        PROVE  MailStep
    <3> DEFINE r == Reply(m, t, type)
    <3>1. r \in Messages /\ Novel(r)
      BY <2>2, <2>5, RepliesAreNovel
    <3>2. inbox' = Posted(inbox, t, <<r>>)
      BY <2>5
    <3> HIDE DEF r
    <3> QED BY <2>3, <3>1, <3>2, OneMessage
  <2> QED BY <2>1, <2>4, <2>5 DEF Exchange
<1> QED BY <1>1, <1>2

LEMMA EveryMail ==
    ASSUME TabTypes, TalkTypes, Next
    PROVE  MailStep
<1>1. inbox \in [Tabs -> Seq(Messages)]
  BY DEF TalkTypes
<1>2. ASSUME inbox' = inbox, jobs' = jobs PROVE MailStep
  BY <1>1, <1>2, NoMessage
<1>3. SessionEnds => MailStep
  BY <1>2 DEF SessionEnds, talk
<1>4. ASSUME NEW t \in Tabs, NEW s \in Students, SignIn(t, s) PROVE MailStep
  BY <1>2, <1>4 DEF SignIn, talk
<1>5. ASSUME NEW t \in Tabs,
             \/ HidePage(t) \/ ShowPage(t) \/ Edit(t) \/ Autosave(t) \/ LeaseExpires(t)
             \/ Checking(t) \/ Changing(t) \/ StartLogout(t) \/ LogoutFails(t)
             \/ RequestLogout(t) \/ LogoutServed(t)
      PROVE  inbox' = inbox /\ jobs' = jobs
  BY <1>5 DEF HidePage, ShowPage, Edit, Autosave, LeaseExpires, Others, Checking, Serve,
     LeaseAnswered, Bootstrapped, Changing, ChangeTaken, ChangeEnds, Queued, StartLogout,
     LogoutFails, Elsewhere, RequestLogout, LogoutServed, talk
<1> QED BY <1>2, <1>3, <1>4, <1>5, PlainMail, HearingMail, PreparingMail
    DEF Next, Lifecycle, Leaving

-----------------------------------------------------------------------------
(* How often things may happen, whom a tab knows, and the sign-outs.       *)

Events == {"lost", "hides", "freezes", "opens", "closes", "edits", "signIns", "signOuts",
           "ends", "failures", "slow"}

LEMMA NextSpends ==
    ASSUME Next
    PROVE  budget' = budget \/ \E what \in Events : Spend(what)
<1>1. ASSUME NEW t \in Tabs, AskTabs(t) PROVE budget' = budget
  <2>1. Prepares(t, leave[t].who)
    BY <1>1, Zenon DEF AskTabs
  <2> QED BY <2>1 DEF Prepares, Free
<1>2. ASSUME NEW t \in Tabs, Lifecycle(t) \/ LeaseExpires(t) \/ Checking(t)
      PROVE  budget' = budget \/ \E what \in Events : Spend(what)
  BY <1>2 DEF Events, Lifecycle, HidePage, FreezePage, ShowPage, ThawPage, OpenTab, CloseTab,
     Edit, Autosave, LeaseExpires, Checking, Serve, LeaseAnswered, Bootstrapped, Free
<1>3. ASSUME NEW t \in Tabs, SignedIn(t) \/ (\E s \in Students : SignIn(t, s))
      PROVE  budget' = budget \/ \E what \in Events : Spend(what)
  BY <1>3 DEF Events, SignedIn, SignIn, Free
<1>4. ASSUME NEW t \in Tabs, Hearing(t) \/ Changing(t)
      PROVE  budget' = budget
  BY <1>4 DEF Hearing, HearPresence, HearChange, HearPrepare, HearCancel, HearAnswer, Changing,
     ChangeTaken, ChangeEnds, Queued
<1>5. ASSUME NEW t \in Tabs, StartLogout(t) \/ PrepareDone(t) \/ LogoutFails(t)
      PROVE  budget' = budget \/ \E what \in Events : Spend(what)
  BY <1>5 DEF Events, StartLogout, PrepareDone, LogoutFails, Prepares, PreparationFails, Free
<1>6. ASSUME NEW t \in Tabs, RequestLogout(t) \/ CancelLogout(t) \/ LogoutServed(t)
                             \/ ProbeAnswered(t) \/ LogoutDone(t)
      PROVE  budget' = budget \/ \E what \in Events : Spend(what)
  BY <1>6 DEF Events, RequestLogout, CancelLogout, LogoutServed, ProbeAnswered, LogoutDone, Free
<1>7. SessionEnds => \E what \in Events : Spend(what)
  BY DEF Events, SessionEnds
<1> QED BY <1>1, <1>2, <1>3, <1>4, <1>5, <1>6, <1>7 DEF Next, Leaving

LEMMA BudgetFalls ==
    ASSUME TalkTypes, Next
    PROVE  /\ budget' \in Budget
           /\ budget'["signOuts"] <= budget["signOuts"]
           /\ \A t \in Tabs : StartLogout(t) => budget'["signOuts"] < budget["signOuts"]
<1>1. budget \in Budget
  BY DEF TalkTypes
<1>2. ASSUME NEW what \in Events, Spend(what)
      PROVE  /\ budget' \in Budget
             /\ budget'["signOuts"] <= budget["signOuts"]
             /\ what = "signOuts" => budget'["signOuts"] < budget["signOuts"]
  BY <1>1, <1>2 DEF Spend, Budget, Events
<1>3. \A t \in Tabs : StartLogout(t) => Spend("signOuts") /\ "signOuts" \in Events
  BY DEF StartLogout, Events
<1>4. CASE budget' = budget
  <2>1. ~Spend("signOuts")
    BY <1>1, <1>4 DEF Spend, Budget
  <2> QED BY <1>1, <1>3, <1>4, <2>1 DEF Budget
<1>5. CASE \E what \in Events : Spend(what)
  BY <1>2, <1>3, <1>5
<1> QED BY <1>4, <1>5, NextSpends

LEMMA KnownIsTyped ==
    ASSUME TalkTypes, Next
    PROVE  known' \in [Tabs -> SUBSET Tabs]
<1>1. known \in [Tabs -> SUBSET Tabs]
  BY DEF TalkTypes
<1>2. ASSUME NEW t \in Tabs, AskTabs(t) \/ CloseTab(t) PROVE known' \in [Tabs -> SUBSET Tabs]
  BY <1>1, <1>2 DEF AskTabs, CloseTab
<1>3. ASSUME NEW t \in Tabs, HearPresence(t) PROVE known' \in [Tabs -> SUBSET Tabs]
  <2>1. Mail(t).from \in Tabs
    BY <1>3, ReadWithin DEF HearPresence, Arrives, Messages
  <2> QED BY <1>1, <1>3, <2>1 DEF HearPresence
<1>4. SessionEnds => known' = known
  BY DEF SessionEnds, talk
<1>5. ASSUME NEW t \in Tabs, NEW s \in Students, SignIn(t, s) PROVE known' = known
  BY <1>5 DEF SignIn, talk
<1>6. ASSUME NEW t \in Tabs,
             \/ Lifecycle(t) /\ ~CloseTab(t)
             \/ LeaseExpires(t) \/ Checking(t) \/ Changing(t) \/ SignedIn(t)
             \/ StartLogout(t) \/ PrepareDone(t)
             \/ Leaving(t) /\ ~AskTabs(t)
             \/ Hearing(t) /\ ~HearPresence(t)
      PROVE  known' = known
  BY <1>6 DEF Lifecycle, HidePage, FreezePage, ShowPage, ThawPage, OpenTab, CloseTab, Edit,
     Autosave, LeaseExpires, Others, Checking, Serve, LeaseAnswered, Bootstrapped, SignedIn,
     Hearing, HearPresence, HearChange, HearPrepare, HearCancel, HearAnswer, Changing,
     ChangeTaken, ChangeEnds, Queued, StartLogout, Leaving, AskTabs, LogoutFails, Elsewhere,
     RequestLogout, CancelLogout, LogoutServed, ProbeAnswered, LogoutDone, PrepareDone, talk
<1> QED BY <1>1, <1>2, <1>3, <1>4, <1>5, <1>6 DEF Next

\* The sign-out l has become k, of the same student and number.
SameLeave(l, k) == k \in LeaveRecords /\ k.who = l.who /\ k.number = l.number

\* What becomes of the sign-out of tab t in a step.
LeaveTurns(t) ==
    LET l == leave[t]
        k == leave'[t]
        m == Mail(t)
    IN  \/ k = NoLeave
        \/ /\ SameLeave(l, k) /\ l.pc # "idle" /\ k.pc \in {"ending", "probing"}
        \/ /\ StartLogout(t) /\ k \in LeaveRecords
           /\ k.pc = "preparing" /\ k.who = tab[t].user /\ k.who \in Students
           /\ k.number = budget["signOuts"] /\ k.saved = {}
        \/ /\ AskTabs(t) /\ SameLeave(l, k) /\ l.pc = "preparing" /\ k.pc = "waiting"
           /\ k.asked \subseteq k.started /\ k.saved = l.saved
        \/ /\ SameLeave(l, k) /\ l.pc = "waiting" /\ k.pc = "requested"
           /\ k.asked = l.asked /\ k.started = l.started /\ k.saved = l.saved
           /\ k.started \subseteq k.saved
        \/ /\ SameLeave(l, k) /\ l.pc = "waiting" /\ k.pc = "waiting"
           /\ k.asked = l.asked /\ l.started \subseteq k.started
           /\ \A u \in k.saved \ l.saved : /\ inbox[t] # <<>> /\ m.type = "saved"
                                           /\ m.from = u /\ m.number = l.number

OthersStay(t) == leave' = [leave EXCEPT ![t] = leave'[t]]

LEMMA LeavesTurn ==
    ASSUME TabTypes, TalkTypes, Next
    PROVE  \/ leave' = leave
           \/ \E t \in Tabs : LeaveTurns(t) /\ OthersStay(t)
<1> USE DEF OthersStay
<1>1. leave \in [Tabs -> LeaveRecords]
  BY DEF TalkTypes
<1>2. ASSUME NEW t \in Tabs, LeaveGoesOn(t), leave' # leave PROVE LeaveTurns(t) /\ OthersStay(t)
  <2>1. CASE leave' = [leave EXCEPT ![t] = NoLeave]
    BY <1>1, <2>1 DEF LeaveTurns
  <2>2. ASSUME NEW where \in {"ending", "probing"},
               leave' = [leave EXCEPT ![t].pc = where], leave[t].pc # "idle"
        PROVE  LeaveTurns(t) /\ OthersStay(t)
    <3> DEFINE l == leave[t]
               k == [l EXCEPT !.pc = where]
    <3>1. l \in LeaveRecords
      BY <1>1
    <3>2. leave' = [leave EXCEPT ![t] = k]
      BY <1>1, <2>2
    <3> HIDE DEF l
    <3>3. SameLeave(l, k) /\ k.pc = where
      BY <3>1 DEF SameLeave, LeaveRecords
    <3> HIDE DEF k
    <3> QED BY <1>1, <2>2, <3>2, <3>3 DEF LeaveTurns, l
  <2> QED BY <1>2, <2>1, <2>2 DEF LeaveGoesOn
<1>3. ASSUME NEW t \in Tabs, StartLogout(t) PROVE LeaveTurns(t) /\ OthersStay(t)
  <2> DEFINE who == tab[t].user
             n == budget["signOuts"]
             k == [NoLeave EXCEPT !.pc = "preparing", !.who = who, !.number = n]
  <2>1. who \in Students /\ n \in Nat
    BY <1>3 DEF StartLogout, TabTypes, TabRecords, People, TalkTypes, Budget
  <2>2. leave' = [leave EXCEPT ![t] = k]
    BY <1>3 DEF StartLogout
  <2> HIDE DEF who, n
  <2>3. k \in LeaveRecords /\ k.pc = "preparing" /\ k.who = who /\ k.number = n /\ k.saved = {}
    BY <2>1 DEF NoLeave, LeaveRecords, People
  <2> HIDE DEF k
  <2> QED BY <1>1, <1>3, <2>1, <2>2, <2>3 DEF LeaveTurns, who, n
<1>4. ASSUME NEW t \in Tabs, AskTabs(t) PROVE LeaveTurns(t) /\ OthersStay(t)
  <2>1. PICK gone \in SUBSET known[t] :
           leave' = [leave EXCEPT ![t].pc = "waiting", ![t].asked = known[t] \ gone,
                                  ![t].started = Counted(t) \ gone]
    BY <1>4 DEF AskTabs
  <2> DEFINE l == leave[t]
             a == known[t] \ gone
             k == [l EXCEPT !.pc = "waiting", !.asked = a, !.started = a]
  <2>2. l \in LeaveRecords /\ a \in SUBSET Tabs
    BY <1>1 DEF TalkTypes
  <2>3. leave' = [leave EXCEPT ![t] = k]
    BY <1>1, <2>1 DEF Counted
  <2> HIDE DEF l, a
  <2>4. SameLeave(l, k) /\ k.pc = "waiting" /\ k.asked = a /\ k.started = a /\ k.saved = l.saved
    BY <2>2 DEF SameLeave, LeaveRecords
  <2> HIDE DEF k
  <2>5. leave'[t] = k /\ OthersStay(t)
    BY <1>1, <2>3
  <2>6. l.pc = "preparing"
    BY <1>4 DEF AskTabs, l
  <2> QED BY <1>4, <2>4, <2>5, <2>6 DEF LeaveTurns, l
<1>5. ASSUME NEW t \in Tabs, RequestLogout(t) PROVE LeaveTurns(t) /\ OthersStay(t)
  <2> DEFINE l == leave[t]
             k == [l EXCEPT !.pc = "requested"]
  <2>1. l \in LeaveRecords
    BY <1>1
  <2>2. leave' = [leave EXCEPT ![t] = k] /\ l.pc = "waiting" /\ l.started \subseteq l.saved
    BY <1>1, <1>5 DEF RequestLogout, AllAnswered
  <2> HIDE DEF l
  <2>3. /\ SameLeave(l, k) /\ k.pc = "requested"
        /\ k.asked = l.asked /\ k.started = l.started /\ k.saved = l.saved
    BY <2>1 DEF SameLeave, LeaveRecords
  <2> HIDE DEF k
  <2>4. leave'[t] = k /\ OthersStay(t)
    BY <1>1, <2>2
  <2> QED BY <2>2, <2>3, <2>4 DEF LeaveTurns, l
<1>6. ASSUME NEW t \in Tabs, HearAnswer(t), leave' # leave PROVE LeaveTurns(t) /\ OthersStay(t)
  <2> DEFINE l == leave[t]
             m == Mail(t)
             a == l.started \cup {m.from}
             b == IF m.type = "saved" THEN l.saved \cup {m.from} ELSE l.saved
             c == IF m.type = "refused" THEN l.refused \cup {m.from} ELSE l.refused
             k == [l EXCEPT !.started = a, !.saved = b, !.refused = c]
  <2>1. inbox[t] # <<>> /\ m.from \in Tabs
    BY <1>6, ReadWithin DEF HearAnswer, Arrives, Messages
  <2>2. l \in LeaveRecords /\ a \in SUBSET Tabs /\ b \in SUBSET Tabs /\ c \in SUBSET Tabs
    BY <1>1, <2>1 DEF LeaveRecords
  <2>3. /\ l.pc = "waiting" /\ l.number = m.number
        /\ leave' = [leave EXCEPT ![t].started = @ \cup {m.from},
                          ![t].saved = IF m.type = "saved" THEN @ \cup {m.from} ELSE @,
                          ![t].refused = IF m.type = "refused" THEN @ \cup {m.from} ELSE @]
    BY <1>6 DEF HearAnswer
  <2>4. l.started \subseteq a /\ \A u \in b \ l.saved : m.type = "saved" /\ m.from = u
    OBVIOUS
  <2>5. leave' = [leave EXCEPT ![t] = k]
    BY <1>1, <2>3 DEF LeaveRecords
  <2> HIDE DEF l, a, b, c, m
  <2>6. /\ SameLeave(l, k) /\ k.pc = l.pc /\ k.asked = l.asked /\ k.started = a /\ k.saved = b
    BY <2>2 DEF SameLeave, LeaveRecords
  <2> HIDE DEF k
  <2>7. leave'[t] = k /\ OthersStay(t)
    BY <1>1, <2>5
  <2> QED BY <2>1, <2>3, <2>4, <2>6, <2>7 DEF LeaveTurns, l, m
<1> QED BY <1>2, <1>3, <1>4, <1>5, <1>6, LeavesGoOn

-----------------------------------------------------------------------------
(* Types, and the checks whose answers count.                              *)

TypesHold == TabTypes /\ TalkTypes /\ Fresh

LEMMA TypesStart == Init => TypesHold
<1> SUFFICES ASSUME Init PROVE TypesHold
    OBVIOUS
<1>1. PICK start \in Starts :
         /\ tab = [t \in Tabs |-> IF t \in start.open
                   THEN [Tab(First, "visible") EXCEPT !.dirty = t \in start.unsaved]
                   ELSE Tab(Nobody, "new")]
         /\ known = [t \in Tabs |-> IF t \in start.open THEN start.open \ {t} ELSE {}]
         /\ budget = start.budget
  BY DEF Init
<1>2. start.open \in SUBSET Tabs /\ budget \in Budget
  BY <1>1, TabStarts
<1>3. /\ session = First
      /\ check = [t \in Tabs |-> [k \in Purposes |-> NoCheck]]
      /\ login = [t \in Tabs |-> Nobody]
      /\ inbox = [t \in Tabs |-> <<>>]
      /\ jobs = [t \in Tabs |-> {}]
      /\ leave = [t \in Tabs |-> NoLeave]
      /\ reopened = {}
  BY DEF Init
<1>4. First \in People /\ Nobody \in People
  BY FirstIsStudent DEF People
<1>5. ASSUME NEW t \in Tabs PROVE tab[t] \in TabRecords /\ tab[t].since = {First}
  <2> DEFINE w == t \in start.unsaved
             c == Tab(First, "visible")
             d == Tab(Nobody, "new")
             e == [c EXCEPT !.dirty = w]
  <2>1. w \in BOOLEAN
    OBVIOUS
  <2>2. c \in TabRecords /\ c.since = {First} /\ d \in TabRecords /\ d.since = {First}
    BY <1>3, <1>4 DEF Tab, TabRecords, Pages
  <2>3. tab[t] = e \/ tab[t] = d
    BY <1>1
  <2> HIDE DEF w, c, d
  <2>4. e \in TabRecords /\ e.since = c.since
    BY <2>1, <2>2 DEF TabRecords
  <2> QED BY <2>2, <2>3, <2>4
<1>6. tab = [t \in Tabs |-> tab[t]]
  BY <1>1
<1>7. tab \in [Tabs -> TabRecords]
  BY <1>5, <1>6
<1>8. check \in [Tabs -> Checks]
  BY <1>3, NoCheckFields DEF Checks
<1>9. TabTypes
  BY <1>3, <1>4, <1>7, <1>8 DEF TabTypes, NoLeave
<1>10. NoLeave \in LeaveRecords
  BY DEF NoLeave, LeaveRecords, People
<1>11. TalkTypes
  BY <1>1, <1>2, <1>3, <1>10 DEF TalkTypes
<1>12. Fresh
  BY <1>3, <1>5, NoCheckFields DEF Fresh, FreshAt
<1> QED BY <1>9, <1>11, <1>12 DEF TypesHold

LEMMA LeaveRecordsStay ==
    ASSUME TypesHold, Next
    PROVE  /\ leave' \in [Tabs -> LeaveRecords]
           /\ \A t \in Tabs : leave'[t].pc # "idle" => leave'[t].who \in Students
<1>1. TabTypes /\ TalkTypes /\ leave \in [Tabs -> LeaveRecords]
  BY DEF TypesHold, TalkTypes
<1>2. NoLeave \in LeaveRecords /\ NoLeave.pc = "idle"
  BY DEF NoLeave, LeaveRecords, People
<1>3. CASE leave' = leave
  BY <1>1, <1>3 DEF TabTypes
<1>4. ASSUME NEW t \in Tabs, LeaveTurns(t), OthersStay(t)
      PROVE  /\ leave' \in [Tabs -> LeaveRecords]
             /\ \A u \in Tabs : leave'[u].pc # "idle" => leave'[u].who \in Students
  <2>1. leave'[t] \in LeaveRecords /\ (leave'[t].pc # "idle" => leave'[t].who \in Students)
    <3>1. leave[t].pc # "idle" => leave[t].who \in Students
      BY <1>1 DEF TabTypes
    <3> QED BY <1>2, <1>4, <3>1 DEF LeaveTurns, SameLeave
  <2>2. leave' = [leave EXCEPT ![t] = leave'[t]]
    BY <1>4 DEF OthersStay
  <2> QED BY <1>1, <2>1, <2>2 DEF TabTypes
<1> QED BY <1>1, <1>3, <1>4, LeavesTurn

LEMMA TypesStep == TypesHold /\ [Next]_vars => TypesHold'
<1> SUFFICES ASSUME TypesHold, [Next]_vars PROVE TypesHold'
    OBVIOUS
<1>1. CASE UNCHANGED vars
  <2>1. /\ session' = session /\ tab' = tab /\ check' = check /\ login' = login
        /\ inbox' = inbox /\ known' = known /\ jobs' = jobs /\ leave' = leave
        /\ reopened' = reopened /\ budget' = budget
    BY <1>1 DEF vars
  <2>2. TabTypes'
    BY <2>1 DEF TypesHold, TabTypes
  <2>3. TalkTypes'
    BY <2>1 DEF TypesHold, TalkTypes
  <2>4. Fresh'
    BY <2>1 DEF TypesHold, Fresh, FreshAt
  <2> QED BY <2>2, <2>3, <2>4 DEF TypesHold
<1>2. CASE Next
  <2>1. TabTypes /\ TalkTypes /\ Fresh
    BY DEF TypesHold
  <2>2. /\ leave' \in [Tabs -> LeaveRecords]
        /\ \A t \in Tabs : leave'[t].pc # "idle" => leave'[t].who \in Students
    BY <1>2, LeaveRecordsStay
  <2>3. /\ session' \in People
        /\ tab' \in [Tabs -> TabRecords]
        /\ check' \in [Tabs -> Checks]
        /\ reopened' \in SUBSET Tabs
        /\ Fresh'
    <3>1. CASE Still /\ Fresh' /\ session' \in People
      BY <2>1, <3>1 DEF Still, TabTypes
    <3>2. ASSUME NEW t \in Tabs, Moves(t), session' = session
          PROVE  /\ session' \in People
                 /\ tab' \in [Tabs -> TabRecords]
                 /\ check' \in [Tabs -> Checks]
                 /\ reopened' \in SUBSET Tabs
                 /\ Fresh'
      <4>1. \A u \in Tabs : FreshAt(tab'[u], check'[u], session)
        BY <2>1, <3>2 DEF Moves, Fresh
      <4>2. Fresh'
        BY <3>2, <4>1 DEF Fresh
      <4> QED BY <2>1, <3>2, <4>2 DEF Moves, TabTypes
    <3> QED BY <1>2, <2>1, <3>1, <3>2, EveryMove
  <2>4. login' \in [Tabs -> People]
    BY <1>2, <2>1, LoginsAreTyped
  <2>5. TabTypes'
    BY <2>2, <2>3, <2>4 DEF TabTypes
  <2>6. MailStep /\ budget' \in Budget /\ known' \in [Tabs -> SUBSET Tabs]
    BY <1>2, <2>1, EveryMail, BudgetFalls, KnownIsTyped
  <2>7. TalkTypes'
    BY <2>2, <2>6 DEF TalkTypes, MailStep
  <2> QED BY <2>3, <2>5, <2>7 DEF TypesHold
<1> QED BY <1>1, <1>2

\* The answer of a session check never shows a student whom the session has not belonged to since
\* the tab last changed what it shows, in any number of tabs (bootstrapSession,
\* revalidateStudentSession).
THEOREM LateAnswersAreDropped == Spec => NoLateAnswer
<1> DEFINE Dropped == \A t \in Tabs :
              /\ check'[t] # check[t] /\ login'[t] = login[t] /\ leave'[t] = leave[t]
              /\ tab'[t].user \notin {tab[t].user, Nobody}
              => tab'[t].user \in tab[t].since
<1>1. TypesHold /\ [Next]_vars => [Dropped]_vars
  <2> SUFFICES ASSUME TypesHold, Next PROVE Dropped
      OBVIOUS
  <2>1. TabTypes /\ TalkTypes /\ Fresh
    BY DEF TypesHold
  <2>2. CASE Still
    BY <2>2 DEF Still
  <2>3. ASSUME NEW t \in Tabs, Moves(t) PROVE Dropped
    BY <2>3 DEF Moves
  <2> QED BY <2>1, <2>2, <2>3, EveryMove
<1>2. Spec => []TypesHold
  BY TypesStart, TypesStep, PTL DEF Spec
<1> QED BY <1>1, <1>2, PTL DEF Spec, NoLateAnswer

-----------------------------------------------------------------------------
(* A sign-out is requested when every tab that counts has saved.           *)

\* Tab u has nothing of w to save, or it was reopened and is excused.
Safe(u, w) == u \in reopened \/ Clean(tab[u], w)

Begun(v) == leave[v].pc # "idle"

\* Each sign-out has a number of its own, above those to come.
NumbersFall ==
    /\ \A v \in Tabs : Begun(v) => leave[v].number > budget["signOuts"]
    /\ \A v, w \in Tabs : v # w /\ Begun(v) /\ Begun(w) => leave[v].number # leave[w].number

\* A message that is part of a sign-out is of no sign-out to come; when it is of one under way it
\* names its student, and the tab that says "saved" is safe.
MailIsCareful == \A u \in Tabs : \A m \in Mails(u) : m.type \in Exchange =>
    /\ m.number > budget["signOuts"]
    /\ \A v \in Tabs :
          Begun(v) /\ leave[v].number = m.number =>
             m.who = leave[v].who /\ (m.type = "saved" => Safe(m.from, m.who))

\* The tabs that a sign-out has heard "saved" from are safe; from its question on, the tab itself
\* is; and it is requested when those that it counts have all saved.
LeavesAreCareful == \A v \in Tabs :
    /\ leave[v].pc \in {"preparing", "waiting", "requested"} =>
          \A u \in leave[v].saved : Safe(u, leave[v].who)
    /\ leave[v].pc \in {"waiting", "requested"} =>
          Safe(v, leave[v].who) /\ leave[v].asked \subseteq leave[v].started
    /\ leave[v].pc = "requested" => leave[v].started \subseteq leave[v].saved

Careful == NumbersFall /\ MailIsCareful /\ LeavesAreCareful

LEMMA CarefulIsEnough == TypesHold /\ Careful => SignOutWaitsForTabs
<1> SUFFICES ASSUME TypesHold, Careful, NEW t \in Tabs, leave[t].pc = "requested",
                    NEW u \in ({t} \cup leave[t].asked \cup leave[t].started) \ reopened
             PROVE  ~(tab[u].dirty /\ Whose(u) = leave[t].who)
    BY DEF SignOutWaitsForTabs
<1>1. Safe(u, leave[t].who)
  BY DEF Careful, LeavesAreCareful
<1> QED BY <1>1 DEF Safe, Clean, Owner, Whose

LEMMA CarefulStart == Init => Careful
<1> SUFFICES ASSUME Init PROVE Careful
    OBVIOUS
<1>1. ASSUME NEW t \in Tabs PROVE ~Begun(t) /\ Mails(t) = {} /\ leave[t].pc = "idle"
  BY DEF Init, NoLeave, Mails, Within, Begun
<1> QED BY <1>1 DEF Careful, NumbersFall, MailIsCareful, LeavesAreCareful

\* While a sign-out is under way a safe tab stays safe: it is reopened, or nothing is typed there.
LEMMA SafeStays ==
    ASSUME TypesHold, Next, NEW v \in Tabs, Begun(v)
    PROVE  \A u \in Tabs, w \in Students : Safe(u, w) => u \in reopened' \/ Clean(tab'[u], w)
<1> TAKE u \in Tabs, w \in Students
<1> SUFFICES ASSUME Safe(u, w) PROVE u \in reopened' \/ Clean(tab'[u], w)
    OBVIOUS
<1>1. TabTypes /\ TalkTypes /\ Fresh /\ tab[u] \in TabRecords
  BY DEF TypesHold, TabTypes
<1>2. CASE Still
  BY <1>2 DEF Still, Safe, Clean, Owner
<1>3. ASSUME NEW t \in Tabs, Moves(t) PROVE u \in reopened' \/ Clean(tab'[u], w)
  <2>1. CASE u # t
    BY <1>3, <2>1 DEF Moves, Safe
  <2>2. CASE u = t
    <3>1. /\ tab'[t] \in TabRecords /\ Kept(tab[t], tab'[t]) /\ reopened \subseteq reopened'
          /\ Opened(tab[t], tab'[t]) => t \in reopened'
      BY <1>3 DEF Moves, Begun
    <3> QED BY <1>1, <2>2, <3>1, CleanStays DEF Safe
  <2> QED BY <2>1, <2>2
<1> QED BY <1>1, <1>2, <1>3, EveryMove

\* A sign-out that is under way after the step was so before it, or has just begun.
Goes(v) == Begun(v) /\ leave'[v].number = leave[v].number /\ leave'[v].who = leave[v].who
Starting(v) == /\ leave'[v].number = budget["signOuts"] /\ leave'[v].pc = "preparing"
              /\ leave'[v].saved = {} /\ StartLogout(v)

LEMMA LeavesGoOrStart ==
    ASSUME TypesHold, Next
    PROVE  /\ \A v \in Tabs : leave'[v].pc # "idle" => Goes(v) \/ Starting(v)
           /\ \A v, w \in Tabs : Starting(v) /\ Starting(w) => v = w
<1>1. TabTypes /\ TalkTypes /\ leave \in [Tabs -> LeaveRecords]
  BY DEF TypesHold, TalkTypes
<1>2. NoLeave.pc = "idle"
  BY DEF NoLeave
<1>3. ASSUME NEW v \in Tabs, LeaveTurns(v), leave'[v].pc # "idle" PROVE Goes(v) \/ Starting(v)
  BY <1>2, <1>3 DEF LeaveTurns, SameLeave, Goes, Starting, Begun
<1>4. ASSUME NEW v \in Tabs, leave'[v] = leave[v], leave'[v].pc # "idle" PROVE Goes(v)
  BY <1>4 DEF Goes, Begun
<1>5. ASSUME NEW v \in Tabs, Starting(v) PROVE leave'[v] # leave[v]
  BY <1>5 DEF Starting, StartLogout
<1>6. ASSUME NEW t \in Tabs, OthersStay(t) PROVE \A v \in Tabs \ {t} : leave'[v] = leave[v]
  BY <1>1, <1>6 DEF OthersStay
<1> QED BY <1>1, <1>3, <1>4, <1>5, <1>6, LeavesTurn

LEMMA NumbersGoOn ==
    ASSUME TypesHold, Careful, Next
    PROVE  NumbersFall'
<1>1. /\ TalkTypes /\ budget'["signOuts"] <= budget["signOuts"]
      /\ \A t \in Tabs : StartLogout(t) => budget'["signOuts"] < budget["signOuts"]
  BY BudgetFalls DEF TypesHold
<1>2. budget["signOuts"] \in Nat /\ budget'["signOuts"] \in Nat
  BY <1>1, BudgetFalls DEF TalkTypes, Budget
<1>3. NumbersFall /\ \A v \in Tabs : leave[v].number \in Nat
  BY <1>1 DEF Careful, TalkTypes, LeaveRecords
<1>4. ASSUME NEW v \in Tabs, leave'[v].pc # "idle"
      PROVE  leave'[v].number > budget'["signOuts"]
  <2>1. CASE Goes(v)
    BY <1>1, <1>2, <1>3, <2>1 DEF NumbersFall, Goes
  <2>2. CASE Starting(v)
    BY <1>1, <2>2, <1>2 DEF Starting
  <2> QED BY <1>4, <2>1, <2>2, LeavesGoOrStart
<1>5. ASSUME NEW v \in Tabs, NEW w \in Tabs, v # w, leave'[v].pc # "idle", leave'[w].pc # "idle"
      PROVE  leave'[v].number # leave'[w].number
  <2>1. CASE Goes(v) /\ Goes(w)
    BY <1>3, <1>5, <2>1 DEF NumbersFall, Goes
  <2>2. CASE Starting(v) /\ Goes(w)
    BY <1>2, <1>3, <2>2 DEF NumbersFall, Goes, Starting
  <2>3. CASE Goes(v) /\ Starting(w)
    BY <1>2, <1>3, <2>3 DEF NumbersFall, Goes, Starting
  <2> QED BY <1>5, <2>1, <2>2, <2>3, LeavesGoOrStart
<1> QED BY <1>4, <1>5 DEF NumbersFall, Begun

LEMMA MailGoesOn ==
    ASSUME TypesHold, Careful, Next
    PROVE  MailIsCareful'
<1>1. TabTypes /\ TalkTypes /\ budget'["signOuts"] <= budget["signOuts"]
  BY BudgetFalls DEF TypesHold
<1>2. budget["signOuts"] \in Nat /\ budget'["signOuts"] \in Nat
  BY <1>1, BudgetFalls DEF TalkTypes, Budget
<1>3. NumbersFall /\ MailIsCareful /\ \A v \in Tabs : leave[v].number \in Nat
  BY <1>1 DEF Careful, TalkTypes, LeaveRecords
<1>4. ASSUME NEW u \in Tabs, NEW m \in Mails(u) PROVE m \in Messages
  <2>1. inbox[u] \in Seq(Messages) /\ jobs[u] \subseteq Messages
    BY <1>1 DEF TalkTypes
  <2> QED BY <1>4, <2>1, WithinIsTyped DEF Mails
<1>5. ASSUME NEW m, m.number \in Nat, m.number > budget["signOuts"],
             NEW v \in Tabs, leave'[v].pc # "idle", leave'[v].number = m.number
      PROVE  Goes(v)
  BY <1>2, <1>5, LeavesGoOrStart DEF Starting
<1>6. ASSUME NEW m,
             /\ m.number \in Nat /\ m.number > budget["signOuts"]
             /\ \A v \in Tabs : Goes(v) /\ leave[v].number = m.number =>
                   /\ m.who = leave[v].who
                   /\ m.type = "saved" => m.from \in reopened' \/ Clean(tab'[m.from], m.who)
      PROVE  /\ m.number > budget'["signOuts"]
             /\ \A v \in Tabs :
                   leave'[v].pc # "idle" /\ leave'[v].number = m.number =>
                      /\ m.who = leave'[v].who
                      /\ m.type = "saved" => m.from \in reopened' \/ Clean(tab'[m.from], m.who)
  BY <1>1, <1>2, <1>5, <1>6 DEF Goes
<1>7. ASSUME NEW u \in Tabs, NEW m \in Mails(u), m.type \in Exchange
      PROVE  /\ m.number \in Nat /\ m.number > budget["signOuts"]
             /\ \A v \in Tabs : Goes(v) /\ leave[v].number = m.number =>
                   /\ m.who = leave[v].who
                   /\ m.type = "saved" => m.from \in reopened' \/ Clean(tab'[m.from], m.who)
  <2>1. m.number \in Nat /\ m.from \in Tabs /\ m.number > budget["signOuts"]
    BY <1>3, <1>4, <1>7 DEF MailIsCareful, Messages
  <2>2. ASSUME NEW v \in Tabs, Goes(v), leave[v].number = m.number
        PROVE  /\ m.who = leave[v].who
               /\ m.type = "saved" => m.from \in reopened' \/ Clean(tab'[m.from], m.who)
    <3>1. m.who = leave[v].who /\ (m.type = "saved" => Safe(m.from, m.who))
      BY <1>3, <1>7, <2>2 DEF MailIsCareful, Goes
    <3>2. m.who \in Students /\ Begun(v)
      BY <1>1, <2>2, <3>1 DEF Goes, Begun, TabTypes
    <3> QED BY <2>1, <3>1, <3>2, SafeStays
  <2> QED BY <2>1, <2>2
<1>8. ASSUME NEW m, Novel(m), m.type \in Exchange
      PROVE  /\ m.number \in Nat /\ m.number > budget["signOuts"]
             /\ \A v \in Tabs : Goes(v) /\ leave[v].number = m.number =>
                   /\ m.who = leave[v].who
                   /\ m.type = "saved" => m.from \in reopened' \/ Clean(tab'[m.from], m.who)
  <2>1. ASSUME NEW t \in Tabs, AskTabs(t), m.type = "prepare",
               m.who = leave[t].who, m.number = leave[t].number
        PROVE  /\ m.number \in Nat /\ m.number > budget["signOuts"]
               /\ \A v \in Tabs : Goes(v) /\ leave[v].number = m.number => m.who = leave[v].who
    <3>1. Begun(t)
      BY <2>1 DEF AskTabs, Begun
    <3> QED BY <1>3, <2>1, <3>1 DEF NumbersFall, Goes
  <2>2. ASSUME NEW t \in Tabs, NEW q \in Mails(t),
               q.type = "prepare", m.who = q.who, m.number = q.number, m.from = t,
               m.type = "saved" => Clean(tab'[t], m.who)
        PROVE  /\ m.number \in Nat /\ m.number > budget["signOuts"]
               /\ \A v \in Tabs : Goes(v) /\ leave[v].number = m.number =>
                     /\ m.who = leave[v].who
                     /\ m.type = "saved" => m.from \in reopened' \/ Clean(tab'[m.from], m.who)
    <3>1. q.type \in Exchange
      BY <2>2 DEF Exchange
    <3> QED BY <1>7, <2>2, <3>1
  <2> QED BY <1>8, <2>1, <2>2 DEF Novel
<1>9. ASSUME NEW u \in Tabs, NEW m \in Mails(u)', m.type \in Exchange
      PROVE  /\ m.number > budget'["signOuts"]
             /\ \A v \in Tabs :
                   leave'[v].pc # "idle" /\ leave'[v].number = m.number =>
                      /\ m.who = leave'[v].who
                      /\ m.type = "saved" => m.from \in reopened' \/ Clean(tab'[m.from], m.who)
  <2>1. m \in Mails(u) \/ Novel(m)
    BY <1>1, <1>9, EveryMail DEF MailStep
  <2> QED BY <1>6, <1>7, <1>8, <1>9, <2>1
<1> QED BY <1>9 DEF MailIsCareful, Begun, Safe

LEMMA LeavesGoOnCarefully ==
    ASSUME TypesHold, Careful, Next
    PROVE  LeavesAreCareful'
<1>1. TabTypes /\ TalkTypes /\ leave \in [Tabs -> LeaveRecords]
  BY DEF TypesHold, TalkTypes
<1>2. NumbersFall /\ MailIsCareful /\ LeavesAreCareful
  BY DEF Careful
<1> DEFINE NextSafe(u, w) == u \in reopened' \/ Clean(tab'[u], w)
           Fine(l, v) ==
              /\ l.pc \in {"preparing", "waiting", "requested"} =>
                    \A u \in l.saved : NextSafe(u, l.who)
              /\ l.pc \in {"waiting", "requested"} => NextSafe(v, l.who) /\ l.asked \subseteq l.started
              /\ l.pc = "requested" => l.started \subseteq l.saved
<1>3. ASSUME NEW v \in Tabs, Begun(v)
      PROVE  /\ leave[v].who \in Students
             /\ \A u \in Tabs : Safe(u, leave[v].who) => NextSafe(u, leave[v].who)
  <2>1. leave[v].who \in Students
    BY <1>1, <1>3 DEF Begun, TabTypes
  <2> QED BY <1>3, <2>1, SafeStays
<1>4. ASSUME NEW v \in Tabs,
             leave[v].pc \in {"preparing", "waiting", "requested"}
      PROVE  \A u \in leave[v].saved : NextSafe(u, leave[v].who)
  <2>1. Begun(v) /\ leave[v].saved \subseteq Tabs
    BY <1>1, <1>4 DEF Begun, LeaveRecords
  <2>2. \A u \in leave[v].saved : Safe(u, leave[v].who)
    BY <1>2, <1>4 DEF LeavesAreCareful
  <2> QED BY <1>3, <2>1, <2>2
<1>5. ASSUME NEW v \in Tabs, leave[v].pc \in {"waiting", "requested"}
      PROVE  NextSafe(v, leave[v].who) /\ leave[v].asked \subseteq leave[v].started
  <2>1. Begun(v) /\ Safe(v, leave[v].who) /\ leave[v].asked \subseteq leave[v].started
    BY <1>2, <1>5 DEF Begun, LeavesAreCareful
  <2> QED BY <1>3, <2>1
<1>6. ASSUME NEW v \in Tabs PROVE Fine(leave[v], v)
  <2>1. leave[v].pc = "requested" => leave[v].started \subseteq leave[v].saved
    BY <1>2 DEF LeavesAreCareful
  <2> HIDE DEF NextSafe
  <2> QED BY <1>4, <1>5, <2>1
<1>7. ASSUME NEW v \in Tabs, LeaveTurns(v) PROVE Fine(leave'[v], v)
  <2> DEFINE l == leave[v]
             k == leave'[v]
  <2>1. CASE k = NoLeave
    BY <2>1 DEF NoLeave
  <2>2. CASE k.pc \in {"ending", "probing"}
    BY <2>2
  <2>3. CASE k.pc = "preparing" /\ k.saved = {}
    BY <2>3
  <2>4. CASE /\ AskTabs(v) /\ SameLeave(l, k) /\ l.pc = "preparing" /\ k.pc = "waiting"
             /\ k.asked \subseteq k.started /\ k.saved = l.saved
    <3>1. Prepares(v, l.who) /\ l.who \in People
      BY <1>1, <2>4, Zenon DEF AskTabs, LeaveRecords
    <3>2. NextSafe(v, l.who)
      BY <1>1, <3>1, PreparesClean
    <3>3. \A u \in l.saved : NextSafe(u, l.who)
      BY <1>4, <2>4
    <3> HIDE DEF NextSafe, l, k
    <3>4. Fine(k, v)
      BY <2>4, <3>2, <3>3 DEF SameLeave
    <3> QED BY <3>4 DEF k
  <2>5. CASE /\ SameLeave(l, k) /\ l.pc = "waiting" /\ k.pc = "requested"
             /\ k.asked = l.asked /\ k.started = l.started /\ k.saved = l.saved
             /\ k.started \subseteq k.saved
    <3>1. /\ NextSafe(v, l.who) /\ l.asked \subseteq l.started
          /\ \A u \in l.saved : NextSafe(u, l.who)
      BY <1>4, <1>5, <2>5
    <3> HIDE DEF NextSafe, l, k
    <3>2. Fine(k, v)
      BY <2>5, <3>1 DEF SameLeave
    <3> QED BY <3>2 DEF k
  <2>6. CASE /\ SameLeave(l, k) /\ l.pc = "waiting" /\ k.pc = "waiting"
             /\ k.asked = l.asked /\ l.started \subseteq k.started
             /\ \A u \in k.saved \ l.saved : /\ inbox[v] # <<>> /\ Mail(v).type = "saved"
                                             /\ Mail(v).from = u /\ Mail(v).number = l.number
    <3>1. /\ NextSafe(v, l.who) /\ l.asked \subseteq l.started
          /\ \A u \in l.saved : NextSafe(u, l.who)
      BY <1>4, <1>5, <2>6
    <3>2. ASSUME NEW u \in k.saved \ l.saved PROVE NextSafe(u, l.who)
      <4>1. /\ inbox[v] # <<>> /\ Mail(v).type = "saved" /\ Mail(v).from = u
            /\ Mail(v).number = l.number
        BY <2>6, <3>2
      <4>2. Mail(v) \in Mails(v) /\ Mail(v) \in Messages /\ Mail(v).type \in Exchange /\ u \in Tabs
        BY <1>1, <4>1, ReadWithin DEF Exchange, Messages
      <4>3. Begun(v)
        BY <2>6 DEF Begun
      <4>4. Safe(u, l.who)
        BY <1>2, <4>1, <4>2, <4>3 DEF MailIsCareful
      <4> QED BY <1>3, <4>2, <4>3, <4>4
    <3>3. \A u \in k.saved : NextSafe(u, l.who)
      BY <3>1, <3>2
    <3> HIDE DEF NextSafe, l, k
    <3>4. Fine(k, v)
      BY <2>6, <3>1, <3>3 DEF SameLeave
    <3> QED BY <3>4 DEF k
  <2> HIDE DEF Fine
  <2> QED BY <1>7, <2>1, <2>2, <2>3, <2>4, <2>5, <2>6 DEF LeaveTurns
<1>8. ASSUME NEW v \in Tabs PROVE Fine(leave'[v], v)
  <2>1. CASE leave' = leave
    BY <1>6, <2>1
  <2>2. ASSUME NEW t \in Tabs, LeaveTurns(t), OthersStay(t) PROVE Fine(leave'[v], v)
    <3>1. v # t => leave'[v] = leave[v]
      BY <1>1, <2>2 DEF OthersStay
    <3> HIDE DEF Fine
    <3> QED BY <1>6, <1>7, <2>2, <3>1
  <2> HIDE DEF Fine
  <2> QED BY <1>1, <2>1, <2>2, LeavesTurn
<1> QED BY <1>8 DEF LeavesAreCareful, Safe

LEMMA CarefulStep == TypesHold /\ Careful /\ [Next]_vars => Careful'
<1> SUFFICES ASSUME TypesHold, Careful, [Next]_vars PROVE Careful'
    OBVIOUS
<1>1. CASE Next
  BY <1>1, NumbersGoOn, MailGoesOn, LeavesGoOnCarefully DEF Careful
<1>2. CASE UNCHANGED vars
  BY <1>2 DEF vars, Careful, NumbersFall, MailIsCareful, LeavesAreCareful, Begun, Safe, Mails
<1> QED BY <1>1, <1>2

\* When the sign-out is requested, every tab that it knew of, or that has announced itself, and the
\* tab itself have saved the student's work, for any number of tabs, students and sign-outs at once
\* (prepareStudentLogoutInOtherTabs).
THEOREM SignOutsWait == Spec => []SignOutWaitsForTabs
<1>1. Spec => [](TypesHold /\ Careful)
  <2>1. Init => TypesHold /\ Careful
    BY TypesStart, CarefulStart
  <2>2. TypesHold /\ Careful /\ [Next]_vars => (TypesHold /\ Careful)'
    BY TypesStep, CarefulStep
  <2> QED BY <2>1, <2>2, PTL DEF Spec
<1> QED BY <1>1, CarefulIsEnough, PTL
=============================================================================
