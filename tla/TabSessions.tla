------------------------------ MODULE TabSessions ------------------------------
(***************************************************************************)
(* One student session in several tabs of one browser: who each tab shows, *)
(* the checks that confirm it, the page lifecycle that hides it, and the   *)
(* sign-out in one tab that first makes every other tab save.              *)
(*                                                                         *)
(* The tabs share the session cookie and talk over a broadcast channel: a  *)
(* page that is frozen or gone hears nothing, every other page hears the   *)
(* messages in their order, some time later.  A check of the session is    *)
(* three steps (sent, served, answered).                                   *)
(*                                                                         *)
(* The workspace of a tab is abstracted to what a sign-out needs of it     *)
(* (ProjectSync has the rest): is there unsaved work, and is it open,      *)
(* being prepared for the end of the session, or ready for it.  The        *)
(* teacher's session, password set-up and the inactivity timer are left    *)
(* out.                                                                    *)
(***************************************************************************)
EXTENDS Integers, FiniteSets, Sequences

CONSTANTS
    Tabs,
    Students,
    Nobody,
    First,      \* who is signed in at the start
    Starts      \* open tabs, those with unsaved work, and how often each event may happen

Budget == [lost : Nat, hides : Nat, freezes : Nat, opens : Nat, closes : Nat, edits : Nat,
           signIns : Nat, signOuts : Nat, ends : Nat, failures : Nat, slow : Nat]

ASSUME TabsAreReal == IsFiniteSet(Tabs)
ASSUME FirstIsStudent == First \in Students /\ Nobody \notin Students
ASSUME TabStarts ==
    Starts \subseteq [open : SUBSET Tabs, unsaved : SUBSET Tabs, budget : Budget]

VARIABLES
    session,    \* the student of the session cookie
    tab,        \* what each tab shows, see Tab
    check,      \* session checks under way, by their purpose
    login,      \* a sign-in that was served and whose answer is to come
    inbox,      \* broadcast messages not yet delivered
    known,      \* knownTabIDs
    frozen,     \* suspendedTabIDs
    worker,     \* sessionChangeQueue: the change at work and those that wait
    jobs,       \* the sign-outs of other tabs that a tab is preparing for
    leave,      \* the sign-out that a tab has begun (asked is history: whom it knew of)
    reopened,   \* tabs whose workspace opened again while a sign-out was waiting
    budget

talk == <<inbox, known, frozen>>
vars == <<session, tab, check, login, inbox, known, frozen, worker, jobs, leave, reopened, budget>>

Purposes == {"lease", "open", "queue"}
NoCheck == [pc |-> "idle", who |-> Nobody, current |-> FALSE, answer |-> Nobody]
NoLeave == [pc |-> "idle", who |-> Nobody, number |-> 0, asked |-> {},
            started |-> {}, saved |-> {}, refused |-> {}]
Idle == [pc |-> "idle", change |-> Nobody, todo |-> <<>>]

\* currentUser, the page ("new", "visible", "hidden", "frozen" in the back-forward cache, or
\* "closed"), suspendedStudentID, resumeValidationRequired, the phase of the workspace, whether
\* it has unsaved work, and, as history, everyone the session has belonged to since
\* sessionRevision last changed in this tab (only the present one while no check is under way).
Tab(user, page) == [user |-> user, page |-> page, away |-> Nobody, again |-> FALSE,
                    phase |-> "open", dirty |-> FALSE, since |-> {session}]

Alive(t) == tab[t].page \in {"visible", "hidden"}
Visible(t) == tab[t].page = "visible"
\* The student a tab belongs to, shown or hidden; unsaved work is this student's.
Whose(t) == IF tab[t].user # Nobody THEN tab[t].user ELSE tab[t].away

Spend(what) == budget[what] > 0 /\ budget' = [budget EXCEPT ![what] = @ - 1]
Free == UNCHANGED budget

Init ==
    /\ session = First
    /\ \E start \in Starts :
           /\ tab = [t \in Tabs |-> IF t \in start.open
                     THEN [Tab(First, "visible") EXCEPT !.dirty = t \in start.unsaved]
                     ELSE Tab(Nobody, "new")]
           /\ known = [t \in Tabs |-> IF t \in start.open THEN start.open \ {t} ELSE {}]
           /\ budget = start.budget
    /\ check = [t \in Tabs |-> [k \in Purposes |-> NoCheck]]
    /\ login = [t \in Tabs |-> Nobody]
    /\ inbox = [t \in Tabs |-> <<>>]
    /\ frozen = [t \in Tabs |-> {}]
    /\ worker = [t \in Tabs |-> Idle]
    /\ jobs = [t \in Tabs |-> {}]
    /\ leave = [t \in Tabs |-> NoLeave]
    /\ reopened = {}

-----------------------------------------------------------------------------
(* What a tab shows. *)

\* A tab whose revision changes while the session belongs to s: another identity is shown, or
\* none, and the workspace is hidden or loaded.  Unsaved work stays in the volatile copy until
\* its student is back.
Showing(c, who, s) == [c EXCEPT
    !.user = who, !.since = {s},
    !.phase = IF who = c.user THEN @ ELSE "open",
    !.dirty = @ /\ who \in {Nobody, c.user, c.away}]

\* endStudentSessionHandoff: the recovery copy of the student goes too.
Forgotten(c) == [c EXCEPT !.dirty = FALSE]

\* Every change of sessionRevision makes the answers still to come worthless.
Outdated(checks) == [k \in Purposes |-> [checks[k] EXCEPT !.current = FALSE]]

Show(t, who) == /\ tab' = [tab EXCEPT ![t] = Showing(@, who, session)]
                /\ check' = [check EXCEPT ![t] = Outdated(@)]
End(t) == /\ tab' = [tab EXCEPT ![t] = Forgotten(Showing(@, Nobody, session))]
          /\ check' = [check EXCEPT ![t] = Outdated(@)]

\* A workspace that was locked, or showed another student or none, is open for this one.
Reopens(t) == reopened' =
    IF tab'[t].user # Nobody /\ tab'[t].phase = "open"
       /\ (tab[t].user # tab'[t].user \/ tab[t].phase # "open")
       /\ \E u \in Tabs : leave[u].pc # "idle"
    THEN reopened \cup {t} ELSE reopened

Sent(who) == [pc |-> "sent", who |-> who, current |-> TRUE, answer |-> Nobody]

\* Mutant: the old owner stays on the screen while the session is asked for.
Concealed_Shown(c) == [c EXCEPT !.away = IF c.user # Nobody THEN c.user ELSE @, !.since = {session}]

\* hideStudentSession as the page lifecycle calls it.
Concealed(c) ==
    LET who == IF c.user # Nobody THEN c.user ELSE c.away
    IN  IF who = Nobody THEN c ELSE [Showing(c, Nobody, session) EXCEPT !.away = who]

\* revalidate: hide first, then ask.
Revalidate(t, c) ==
    /\ tab' = [tab EXCEPT ![t] = Concealed(c)]
    /\ check' = [check EXCEPT ![t] = [Outdated(@) EXCEPT !["lease"] = Sent(Concealed(c).away)]]

\* onVisibilityChange and onPageHide.
Leaves(t, page) ==
    /\ tab' = [tab EXCEPT ![t] = [Concealed(@) EXCEPT !.page = page, !.again = FALSE]]
    /\ check' = [check EXCEPT ![t] = IF Whose(t) = Nobody THEN @ ELSE Outdated(@)]

\* The page is visible again: another check, or one noted for the end of the check under way
\* (always when pageshow and visibilitychange both say so).
Returns(t, twice) ==
    LET c == [tab[t] EXCEPT !.page = "visible", !.again = twice /\ Whose(t) # Nobody]
    IN  IF check[t]["lease"].pc # "idle"
        THEN tab' = [tab EXCEPT ![t] = [c EXCEPT !.again = TRUE]] /\ UNCHANGED check
        ELSE IF Whose(t) # Nobody THEN Revalidate(t, c)
        ELSE tab' = [tab EXCEPT ![t] = c] /\ UNCHANGED check

Message(type, from, who, number) == [type |-> type, from |-> from, who |-> who, number |-> number]
\* postStudentSessionMessage: every other page that is not frozen will hear it.
Posted(box, t, messages) ==
    [u \in Tabs |-> IF u # t /\ Alive(u) THEN box[u] \o messages ELSE box[u]]
Post(t, type, who) == inbox' = Posted(inbox, t, <<Message(type, t, who, 0)>>)

Others == UNCHANGED <<session, login, known, frozen, worker, jobs, leave>>

HidePage(t) ==
    /\ Visible(t) /\ Spend("hides")
    /\ Leaves(t, "hidden")
    /\ Others /\ UNCHANGED <<inbox, reopened>>

FreezePage(t) ==
    /\ Alive(t) /\ Spend("freezes")
    /\ Leaves(t, "frozen")
    /\ inbox' = [Posted(inbox, t, <<Message("suspended", t, Nobody, 0)>>) EXCEPT ![t] = <<>>]
    /\ Others /\ UNCHANGED reopened

ShowPage(t) ==
    /\ tab[t].page = "hidden"
    /\ Returns(t, FALSE)
    /\ Others /\ UNCHANGED <<inbox, reopened, budget>>

\* (The presence message that follows the hello tells the others nothing new.)
ThawPage(t) ==
    /\ tab[t].page = "frozen"
    /\ Returns(t, TRUE)
    /\ Post(t, "hello", Nobody)
    /\ Others /\ UNCHANGED <<reopened, budget>>

\* The lease of a student on a visible page is over.
LeaseExpires(t) ==
    /\ Visible(t) /\ tab[t].user # Nobody /\ check[t]["lease"].pc = "idle"
    /\ Revalidate(t, tab[t])
    /\ Others /\ UNCHANGED <<inbox, reopened, budget>>

\* A tab is opened: its listeners say hello, and bootstrapSession asks who is signed in.
OpenTab(t) ==
    /\ tab[t].page = "new" /\ Spend("opens")
    /\ tab' = [tab EXCEPT ![t] = Tab(Nobody, "visible")]
    /\ check' = [check EXCEPT ![t]["open"] = Sent(Nobody)]
    /\ Post(t, "hello", Nobody)
    /\ Others /\ UNCHANGED reopened

\* A tab is closed, with a goodbye unless it crashes; all it was doing ends.
CloseTab(t) ==
    /\ tab[t].page \in {"visible", "hidden", "frozen"} /\ Spend("closes")
    /\ tab' = [tab EXCEPT ![t] = Tab(Nobody, "closed")]
    /\ check' = [check EXCEPT ![t] = [k \in Purposes |-> NoCheck]]
    /\ \E said \in {<<>>, <<Message("goodbye", t, Nobody, 0)>>} :
           inbox' = [Posted(inbox, t, said) EXCEPT ![t] = <<>>]
    /\ login' = [login EXCEPT ![t] = Nobody]
    /\ known' = [known EXCEPT ![t] = {}] /\ frozen' = [frozen EXCEPT ![t] = {}]
    /\ worker' = [worker EXCEPT ![t] = Idle]
    /\ jobs' = [jobs EXCEPT ![t] = {}]
    /\ leave' = [leave EXCEPT ![t] = NoLeave]
    /\ UNCHANGED <<session, reopened>>

\* A student types, and autosave saves it.
Edit(t) ==
    /\ Visible(t) /\ tab[t].user # Nobody /\ tab[t].phase = "open" /\ Spend("edits")
    /\ tab' = [tab EXCEPT ![t].dirty = TRUE]
    /\ Others /\ UNCHANGED <<check, inbox, reopened>>

Autosave(t) ==
    /\ Alive(t) /\ tab[t].user # Nobody /\ tab[t].phase = "open" /\ tab[t].dirty
    /\ tab' = [tab EXCEPT ![t].dirty = FALSE]
    /\ Others /\ UNCHANGED <<check, inbox, reopened, budget>>

-----------------------------------------------------------------------------
(* Checks of the session. *)

Running(t) == tab[t].page \notin {"new", "frozen", "closed"}

\* The server answers a check, or the request fails.
Serve(t, k) ==
    /\ Running(t) /\ check[t][k].pc = "sent"
    /\ \/ check' = [check EXCEPT ![t][k].pc = "answered", ![t][k].answer = session] /\ Free
       \/ check' = [check EXCEPT ![t][k].pc = "failed"] /\ Spend("lost")
    /\ Others /\ UNCHANGED <<tab, inbox, reopened>>

\* Mutant: the answer counts whatever happened since the question.
Counts_Always(c) == TRUE

\* sessionRevision is still the one the check was sent with.
Counts(c) == c.current

Confirmed(c) == c.pc = "answered" /\ c.answer = c.who

\* revalidateStudentSession is over (a refusal or a failure ends the hand-off of the student), and
\* the lifecycle asks again when the page came back meanwhile.
LeaseAnswered(t) ==
    LET c == check[t]["lease"]
        old == tab[t]
        new == IF ~Counts(c) THEN old
               ELSE IF Confirmed(c) THEN Showing(old, c.who, session)
               ELSE Forgotten(Showing(old, Nobody, session))
        next == IF new.user # Nobody THEN new.user ELSE new.away
        asks == Visible(t) /\ old.again /\ next # Nobody
    IN  /\ Running(t) /\ c.pc \in {"answered", "failed"}
        /\ IF asks THEN Revalidate(t, [new EXCEPT !.again = FALSE])
           ELSE /\ tab' = [tab EXCEPT ![t] = [new EXCEPT
                      !.again = @ /\ ~Visible(t),
                      !.away = IF Visible(t) /\ ~old.again /\ @ = c.who THEN Nobody ELSE @]]
                /\ check' = [check EXCEPT ![t] =
                      [(IF Counts(c) THEN Outdated(@) ELSE @) EXCEPT !["lease"] = NoCheck]]
        /\ Reopens(t)
        /\ Others /\ UNCHANGED <<inbox, budget>>

\* bootstrapSession is over; a failure shows nothing new.
Bootstrapped(t, k) ==
    LET c == check[t][k]
        shows == Counts(c) /\ c.pc = "answered"
    IN  /\ Running(t) /\ c.pc \in {"answered", "failed"}
        /\ tab' = [tab EXCEPT ![t] = IF shows THEN Showing(@, c.answer, session) ELSE @]
        /\ check' = [check EXCEPT ![t] = [(IF shows THEN Outdated(@) ELSE @) EXCEPT ![k] = NoCheck]]
        /\ Reopens(t)
        /\ worker' = IF k = "queue" THEN [worker EXCEPT ![t] = [Idle EXCEPT !.todo = worker[t].todo]] ELSE worker
        /\ UNCHANGED <<session, login, talk, jobs, leave, budget>>

-----------------------------------------------------------------------------
(* Signing in, and what the other tabs do about it. *)

\* The session belongs to somebody else now.
SessionIs(s) == /\ session' = s
                /\ tab' = [u \in Tabs |-> [tab[u] EXCEPT !.since =
                       IF \E k \in Purposes : check[u][k].pc # "idle" THEN @ \cup {s} ELSE {s}]]

\* The server signs a student in; it refuses while another session is live.
SignIn(t, s) ==
    /\ Visible(t) /\ tab[t].user = Nobody /\ login[t] = Nobody /\ leave[t].pc = "idle"
    /\ check[t]["lease"].pc = "idle"
    /\ session = Nobody /\ Spend("signIns")
    /\ SessionIs(s)
    /\ login' = [login EXCEPT ![t] = s]
    /\ UNCHANGED <<check, talk, worker, jobs, leave, reopened>>

\* The session ends elsewhere: it expires, or the account is disabled.
SessionEnds ==
    /\ session # Nobody /\ Spend("ends")
    /\ SessionIs(Nobody)
    /\ UNCHANGED <<check, login, talk, worker, jobs, leave, reopened>>

\* acceptStudentSignIn, or the answer never comes.
SignedIn(t) ==
    /\ Running(t) /\ login[t] # Nobody
    /\ \/ /\ Show(t, login[t]) /\ Reopens(t)
          /\ Post(t, "changed", login[t]) /\ Free
       \/ Spend("lost") /\ UNCHANGED <<tab, check, inbox, reopened>>
    /\ login' = [login EXCEPT ![t] = Nobody]
    /\ UNCHANGED <<session, known, frozen, worker, jobs, leave>>

\* The second half of a session change, from the tab c with its checks: a sign-out clears the tab,
\* a hidden page clears it too, and a visible one asks who is signed in.
Follow(t, queue, c, checks) ==
    LET asks == queue.change # Nobody /\ Visible(t)
    IN  /\ tab' = [tab EXCEPT ![t] = IF asks THEN c ELSE Showing(c, Nobody, session)]
        /\ check' = [check EXCEPT ![t] = IF asks THEN [checks EXCEPT !["queue"] = Sent(Nobody)]
                                         ELSE Outdated(checks)]
        /\ worker' = [worker EXCEPT ![t] = IF asks THEN [queue EXCEPT !.pc = "asking"]
                                           ELSE [Idle EXCEPT !.todo = queue.todo]]

Queued == UNCHANGED <<session, login, talk, jobs, leave, reopened, budget>>

\* The next change of the queue: nothing when the tab shows that student already; a student who is
\* shown must go first (acceptStudentSessionEndedFromAnotherTab), which takes a moment.
ChangeTaken(t) ==
    LET queue == [worker[t] EXCEPT !.todo = Tail(@), !.change = Head(worker[t].todo)]
    IN  /\ Running(t) /\ worker[t].pc = "idle" /\ worker[t].todo # <<>>
        /\ IF queue.change = tab[t].user
           THEN /\ worker' = [worker EXCEPT ![t] = [Idle EXCEPT !.todo = queue.todo]]
                /\ UNCHANGED <<tab, check>>
           ELSE IF tab[t].user # Nobody
           THEN /\ worker' = [worker EXCEPT ![t] = [queue EXCEPT !.pc = "ending"]]
                /\ tab' = [tab EXCEPT ![t] = Forgotten(@)] /\ UNCHANGED check
           ELSE Follow(t, queue, tab[t], check[t])
        /\ Queued

\* The student goes, whoever is shown by now.
ChangeEnds(t) ==
    /\ Running(t) /\ worker[t].pc = "ending"
    /\ Follow(t, worker[t], Forgotten(Showing(tab[t], Nobody, session)), Outdated(check[t]))
    /\ Queued

-----------------------------------------------------------------------------
(* Signing out. *)

Elsewhere == UNCHANGED <<session, login, frozen, worker>>

\* logoutStudent: this tab saves its own work first.
StartLogout(t) ==
    /\ Visible(t) /\ tab[t].user # Nobody /\ leave[t].pc = "idle" /\ Spend("signOuts")
    /\ leave' = [leave EXCEPT ![t] = [NoLeave EXCEPT !.pc = "preparing", !.who = tab[t].user,
                                                     !.number = budget["signOuts"]]]
    /\ tab' = [tab EXCEPT ![t].phase = "preparing"]
    /\ Elsewhere /\ UNCHANGED <<check, inbox, known, jobs, reopened>>

\* prepareStudentSessionHandoff in tab t succeeds: an open workspace has saved everything and is
\* locked; for a student who is not shown there must be nothing unsaved in memory.
Prepares(t, who) ==
    IF tab[t].user = who
    THEN tab' = [tab EXCEPT ![t].phase = "ready", ![t].dirty = FALSE] /\ Free
    ELSE ~(tab[t].dirty /\ Whose(t) = who) /\ UNCHANGED tab /\ Free

\* It fails, and the workspace is opened again.
PreparationFails(t, who) ==
    IF tab[t].user = who THEN tab' = [tab EXCEPT ![t].phase = "open"] /\ Spend("failures")
    ELSE tab[t].dirty /\ Whose(t) = who /\ UNCHANGED tab /\ Free

\* Mutant: a tab that was not heard of lately is not asked to save.
Counted_NotFrozen(t) == known[t] \ frozen[t]

\* Which other tabs must answer: all that are known.  (A tab that has vanished without a goodbye
\* is forgotten after 90 s.)
Counted(t) == known[t]

\* prepareStudentLogoutInOtherTabs asks them.
AskTabs(t) ==
    /\ Running(t) /\ leave[t].pc = "preparing"
    /\ Prepares(t, leave[t].who)
    /\ \E gone \in SUBSET {u \in known[t] : tab[u].page = "closed" /\ u \notin frozen[t]} :
           /\ known' = [known EXCEPT ![t] = @ \ gone]
           /\ leave' = [leave EXCEPT ![t].pc = "waiting", ![t].asked = known[t] \ gone,
                                     ![t].started = Counted(t) \ gone]
    /\ inbox' = Posted(inbox, t, <<Message("prepare", t, leave[t].who, leave[t].number)>>)
    /\ Elsewhere /\ UNCHANGED <<check, jobs, reopened>>

LogoutFails(t) ==
    /\ Running(t) /\ leave[t].pc = "preparing"
    /\ PreparationFails(t, leave[t].who)
    /\ leave' = [leave EXCEPT ![t] = NoLeave]
    /\ Reopens(t)
    /\ Elsewhere /\ UNCHANGED <<check, inbox, known, jobs>>

AllAnswered(l) == l.started \subseteq l.saved \cup l.refused

\* Every tab that was counted or has announced itself is ready: the sign-out is requested.
RequestLogout(t) ==
    /\ Running(t) /\ leave[t].pc = "waiting"
    /\ AllAnswered(leave[t]) /\ leave[t].refused = {}
    /\ leave' = [leave EXCEPT ![t].pc = "requested"]
    /\ Elsewhere /\ UNCHANGED <<tab, check, inbox, known, jobs, reopened, budget>>

\* resumeStudentSessionHandoff.
Resumed(t, who) == [tab EXCEPT ![t].phase = IF tab[t].user = who THEN "open" ELSE @]

\* A tab has refused, or 15 s are over: the others are told, and this workspace opens again.
CancelLogout(t) ==
    /\ Running(t) /\ leave[t].pc = "waiting"
    /\ \/ AllAnswered(leave[t]) /\ leave[t].refused # {} /\ Free
       \/ ~AllAnswered(leave[t]) /\ Spend("slow")
       \/ /\ \E u \in leave[t].started : ~Running(u)
          /\ ~AllAnswered(leave[t]) /\ Free
    /\ Post(t, "cancel", leave[t].who)
    /\ tab' = Resumed(t, leave[t].who) /\ Reopens(t)
    /\ leave' = [leave EXCEPT ![t] = NoLeave]
    /\ Elsewhere /\ UNCHANGED <<check, known, jobs>>

\* The server ends whatever session the cookie has; its answer may be lost, or the request.
LogoutServed(t) ==
    /\ Running(t) /\ leave[t].pc = "requested"
    /\ \/ SessionIs(Nobody) /\ leave' = [leave EXCEPT ![t].pc = "ending"] /\ Free
       \/ \E s \in {session, Nobody} : SessionIs(s)
          /\ leave' = [leave EXCEPT ![t].pc = "probing"] /\ Spend("lost")
    /\ UNCHANGED <<check, login, talk, worker, jobs, reopened>>

\* After an error the session is asked for: still this student, and the sign-out is taken back;
\* anybody else, or no answer, and it goes on.
ProbeAnswered(t) ==
    /\ Running(t) /\ leave[t].pc = "probing"
    /\ \/ /\ session = leave[t].who /\ Free
          /\ tab' = [tab EXCEPT ![t] = [Showing(@, session, session) EXCEPT !.phase = "open"]]
          /\ check' = [check EXCEPT ![t] = Outdated(@)]
          /\ Post(t, "cancel", session) /\ Reopens(t)
          /\ leave' = [leave EXCEPT ![t] = NoLeave]
       \/ /\ \/ session # leave[t].who /\ Free
             \/ Spend("lost")
          /\ leave' = [leave EXCEPT ![t].pc = "ending"]
          /\ UNCHANGED <<tab, check, inbox, reopened>>
    /\ Elsewhere /\ UNCHANGED <<known, jobs>>

\* failClosedStudentSessionExit: the hand-off is over, the tab is cleared and says so.
LogoutDone(t) ==
    /\ Running(t) /\ leave[t].pc = "ending"
    /\ End(t)
    /\ Post(t, "changed", Nobody)
    /\ leave' = [leave EXCEPT ![t] = NoLeave]
    /\ Elsewhere /\ UNCHANGED <<known, jobs, reopened, budget>>

-----------------------------------------------------------------------------
(* Messages. *)

Mail(t) == Head(inbox[t])
Arrives(t, types) == Alive(t) /\ inbox[t] # <<>> /\ Mail(t).type \in types
Read(t) == [inbox EXCEPT ![t] = Tail(@)]

\* hello, present, suspended and goodbye keep track of the other tabs.
HearPresence(t) ==
    LET m == Mail(t) IN
    /\ Arrives(t, {"hello", "present", "suspended", "goodbye"})
    /\ known' = [known EXCEPT ![t] = IF m.type = "goodbye" THEN @ \ {m.from} ELSE @ \cup {m.from}]
    /\ frozen' = [frozen EXCEPT ![t] = IF m.type = "suspended" THEN @ \cup {m.from} ELSE @ \ {m.from}]
    /\ inbox' = IF m.type = "hello" THEN Posted(Read(t), t, <<Message("present", t, Nobody, 0)>>)
                ELSE Read(t)
    /\ UNCHANGED <<session, tab, check, login, worker, jobs, leave, reopened, budget>>

HearChange(t) ==
    /\ Arrives(t, {"changed"})
    /\ worker' = [worker EXCEPT ![t].todo = Append(@, Mail(t).who)]
    /\ inbox' = Read(t)
    /\ UNCHANGED <<session, tab, check, login, known, frozen, jobs, leave, reopened, budget>>

Reply(m, t, type) == Message(type, t, m.who, m.number)

\* respondToStudentLogoutPreparation: it says that it has started; with no workspace of the
\* student to save it is done at once, ready unless work is left in memory.
HearPrepare(t) ==
    LET m == Mail(t)
        left == tab[t].dirty /\ Whose(t) = m.who
    IN  /\ Arrives(t, {"prepare"})
        /\ IF tab[t].user = m.who
           THEN /\ jobs' = [jobs EXCEPT ![t] = @ \cup {m}]
                /\ tab' = [tab EXCEPT ![t].phase = "preparing"]
                /\ inbox' = Posted(Read(t), t, <<Reply(m, t, "started")>>)
           ELSE /\ inbox' = Posted(Read(t), t,
                       <<Reply(m, t, "started"), Reply(m, t, IF left THEN "refused" ELSE "saved")>>)
                /\ UNCHANGED <<tab, jobs>>
        /\ UNCHANGED <<session, check, login, known, frozen, worker, leave, reopened, budget>>

\* The preparation is over, whether or not anybody still waits for it.
PrepareDone(t) ==
    \E m \in jobs[t] :
        /\ Running(t)
        /\ \/ Prepares(t, m.who) /\ inbox' = Posted(inbox, t, <<Reply(m, t, "saved")>>)
           \/ PreparationFails(t, m.who) /\ inbox' = Posted(inbox, t, <<Reply(m, t, "refused")>>)
        /\ Reopens(t)
        /\ jobs' = [jobs EXCEPT ![t] = @ \ {m}]
        /\ UNCHANGED <<session, check, login, known, frozen, worker, leave>>

HearCancel(t) ==
    /\ Arrives(t, {"cancel"})
    /\ tab' = Resumed(t, Mail(t).who) /\ Reopens(t)
    /\ inbox' = Read(t)
    /\ UNCHANGED <<session, check, login, known, frozen, worker, jobs, leave, budget>>

\* Answers count for the sign-out that asked, while it waits.
HearAnswer(t) ==
    LET m == Mail(t) IN
    /\ Arrives(t, {"started", "saved", "refused"})
    /\ inbox' = Read(t)
    /\ leave' = IF leave[t].pc = "waiting" /\ leave[t].number = m.number
                THEN [leave EXCEPT ![t].started = @ \cup {m.from},
                          ![t].saved = IF m.type = "saved" THEN @ \cup {m.from} ELSE @,
                          ![t].refused = IF m.type = "refused" THEN @ \cup {m.from} ELSE @]
                ELSE leave
    /\ UNCHANGED <<session, tab, check, login, known, frozen, worker, jobs, reopened, budget>>

-----------------------------------------------------------------------------
Lifecycle(t) == \/ HidePage(t) \/ FreezePage(t) \/ ShowPage(t) \/ ThawPage(t)
                \/ OpenTab(t) \/ CloseTab(t) \/ Edit(t) \/ Autosave(t)
Checking(t) == \/ \E k \in Purposes : Serve(t, k)
               \/ LeaseAnswered(t)
               \/ \E k \in {"open", "queue"} : Bootstrapped(t, k)
Hearing(t) == HearPresence(t) \/ HearChange(t) \/ HearPrepare(t) \/ HearCancel(t) \/ HearAnswer(t)
Changing(t) == ChangeTaken(t) \/ ChangeEnds(t)
Leaving(t) == \/ AskTabs(t) \/ LogoutFails(t) \/ RequestLogout(t) \/ CancelLogout(t)
              \/ LogoutServed(t) \/ ProbeAnswered(t) \/ LogoutDone(t)

Next == SessionEnds \/ \E t \in Tabs :
            \/ Lifecycle(t) \/ LeaseExpires(t) \/ Checking(t)
            \/ SignedIn(t) \/ \E s \in Students : SignIn(t, s)
            \/ Hearing(t) \/ Changing(t)
            \/ StartLogout(t) \/ Leaving(t) \/ PrepareDone(t)

\* A page that runs answers what it hears, its timers fire and its requests end; nothing obliges a
\* person, or a hidden or frozen page to come back.  (Only the checks go on for ever, so one
\* condition serves for all other reactions.)
Reacting(t) == SignedIn(t) \/ Hearing(t) \/ Changing(t) \/ Leaving(t) \/ PrepareDone(t)
Fairness ==
    /\ WF_vars(\E t \in Tabs : Reacting(t))
    /\ \A t \in Tabs : WF_vars(LeaseExpires(t)) /\ WF_vars(Checking(t))
Spec == Init /\ [][Next]_vars /\ Fairness

-----------------------------------------------------------------------------
(* Properties. *)

\* The answer of a session check never shows a student whom the session has not belonged to since
\* the tab last changed what it shows: an answer that a sign-out, a sign-in or a hidden page has
\* overtaken is dropped (bootstrapSession, revalidateStudentSession).
NoLateAnswer == [][\A t \in Tabs :
    /\ check'[t] # check[t] /\ login'[t] = login[t] /\ leave'[t] = leave[t]
    /\ tab'[t].user \notin {tab[t].user, Nobody}
    => tab'[t].user \in tab[t].since]_vars

\* When the sign-out is requested, every tab that it knew of, or that has announced itself, and
\* the tab itself have saved the student's work, however the answers, freezes, closings and
\* failures came together (prepareStudentLogoutInOtherTabs); a workspace that another sign-out's
\* cancellation, a session check or a late sign-in has opened meanwhile is excused.
SignOutWaitsForTabs == \A t \in Tabs :
    leave[t].pc = "requested" =>
        \A u \in ({t} \cup leave[t].asked \cup leave[t].started) \ reopened :
            ~(tab[u].dirty /\ Whose(u) = leave[t].who)

Stale(t) == tab[t].user \notin {session, Nobody}
Locked(t) == tab[t].phase # "open"

\* A visible page does not go on showing a student whose session is over, whichever broadcast
\* messages it missed while hidden or frozen and whichever checks failed; and a workspace that was
\* locked for a sign-out opens again, or its student goes, whatever becomes of the sign-out: it is
\* cancelled, its tab is closed, or it was given up before the preparation was over.
TabsRecover == \A t \in Tabs :
    (Stale(t) \/ Locked(t)) ~> (~(Stale(t) \/ Locked(t)) \/ ~Visible(t))
=============================================================================
