------------------------------ MODULE ProjectSync ------------------------------
(***************************************************************************)
(* The saved projects of the code workspace in one browser tab: editing,   *)
(* autosave, loading and reconciliation with the server, the creation and  *)
(* deletion of projects, and the hand-off of the workspace when the        *)
(* student's session is hidden, revalidated, ended or handed over.         *)
(*                                                                         *)
(* The tab is single-threaded: a step runs from one await to the next, and *)
(* the watcher of the owner runs in the same step as the change it         *)
(* watches.  Every request to the server is three steps (sent, served,     *)
(* answered) with anything in between; it may be lost before or after the  *)
(* server applied it.  Another device of the same student works on the     *)
(* same rows.                                                              *)
(*                                                                         *)
(* A text is named by the stamp of the edit that produced it.  Projects    *)
(* that never leave the browser (Java, Karel, signed-out work), lazy       *)
(* loading of bodies and the choice of the selected project are left out.  *)
(***************************************************************************)
EXTENDS Integers, FiniteSets, Sequences

CONSTANTS
    Students,
    First,          \* who is signed in at the start
    Nobody,         \* the owner of a signed-out workspace
    Edits,          \* nobody types once this many stamps are given out
    Loads,          \* runs of loadProjects under way together
    Budgets         \* how often each event of the environment may happen

Budget == [lost : Nat, hides : Nat, others : Nat, routes : Nat, exits : Nat, ends : Nat,
           creates : Nat, deletes : Nat]

ASSUME StudentsAreReal == Nobody \notin Students /\ First \in Students
ASSUME EditsIsNatural == Edits \in Nat
ASSUME BudgetsAreBounds == Budgets \subseteq Budget

VARIABLES
    server,     \* the rows of each student
    session,    \* the student of the session cookie
    owner,      \* studentProjectOwnerID of the store, and desiredProjectOwnerID
    hidden,     \* the student whose session is being revalidated
    active,     \* activeStorageOwnerID: whose projects the save engine works on
    switches,   \* projectOwnerSwitchQueue
    late,       \* hand-offs that wait for the browser store before they hide the workspace
    ide,        \* the workspace: projects, save sets, recovery copy, flags
    save,       \* saveInFlight
    loads,      \* runs of loadProjects
    change,     \* a creation or deletion under way: the owner-bound mutation
    exit,       \* a sign-out and the student who leaves
    clock,      \* stamps given out
    superseded, \* stamps whose text a user replaced or deleted knowingly
    forfeited,  \* stamps whose text was recovery data of a session that ended
    exposed,    \* stamps that a known defect may lose: AtRisk, PassedOver, Marked, and what is
                \* typed into a suspended workspace
    overtaken,  \* a hand-off hid the workspace after it had been prepared for the next owner
    strayed,    \* a queued switch passed through a student who had left while another's
                \* workspace was open or loading
    doubled,    \* the workspace listed a project twice, or beside the row it had become
    budget

ownerVars == <<session, owner, hidden, active, switches, late>>
history   == <<superseded, forfeited, exposed, overtaken, strayed, doubled>>
syncVars == <<server, ownerVars, ide, save, loads, change, exit, clock, history, budget>>

Stamps == 0 .. Edits + 1
Owners == Students \cup {Nobody}

\* The import id of a row: a project made here, or the recovered copy of one version.
Slots == [kind : {"own", "recovered"}, stamp : Stamps]
Ids   == [slot : Slots, local : BOOLEAN]
Original == [kind |-> "own", stamp |-> 0]

NoRow == [content |-> 0, version |-> 0]
Exists(row) == row.version > 0

\* `base` is serverUpdatedAt; `dirty` says that updatedAt is a local edit, not the server's.
Project(s, id, content, base, dirty) ==
    [student |-> s, id |-> id, content |-> content, base |-> base, dirty |-> dirty]
LocalId(slot)  == [slot |-> slot, local |-> TRUE]
RemoteId(slot) == [slot |-> slot, local |-> FALSE]
FromRow(s, slot, row) == Project(s, RemoteId(slot), row.content, row.version, FALSE)
IdsOf(projects)   == {p.id : p \in projects}
TextsOf(projects) == {p.content : p \in projects}

NoExit == [pc |-> "none", student |-> Nobody]
NoCopy == [student |-> Nobody, projects |-> {}, unsynced |-> FALSE]

Spend(what) == budget[what] > 0 /\ budget' = [budget EXCEPT ![what] = @ - 1]
Free == UNCHANGED budget

-----------------------------------------------------------------------------
(* The copy kept in volatile memory. *)

Replace(copy, s, projects, unsynced) ==
    IF projects = {} THEN IF copy.student = s THEN NoCopy ELSE copy
    ELSE [student |-> s, projects |-> projects,
          unsynced |-> unsynced \/ (copy.student = s /\ copy.unsynced)]
Discard(copy, s) == IF copy.student = s THEN NoCopy ELSE copy
RetainAcross(copy, next) == IF next # Nobody /\ copy.student # next THEN NoCopy ELSE copy
CopyOf(s) == IF ide.volatile.student = s THEN ide.volatile.projects ELSE {}

Refreshed(i) ==
    IF active = Nobody THEN i
    ELSE IF i.projects = {} THEN i
    ELSE [i EXCEPT !.volatile = Replace(@, active, i.projects, TRUE)]

Acknowledged(i) == [i EXCEPT !.volatile = Discard(@, active)]

\* discardLocalProjectSnapshotIfSafe gives the copy up, purges the browser store and, after
\* that await, clears `unsynced`, whatever came into it meanwhile; unsafe, it does nothing.
Discardable(i) == i.unsynced = {} /\ i.pending = {} /\ ~i.queued

-----------------------------------------------------------------------------
(* Requests to the server. *)

Call(kind, s, slot, content, base) ==
    [kind |-> kind, student |-> s, slot |-> slot, content |-> content, base |-> base,
     reply |-> "none", row |-> NoRow]
NoCall == Call("idle", Nobody, Original, 0, 0)
SaveCall(p, s) ==
    IF p.id.local THEN Call("create", s, p.id.slot, p.content, 0)
    ELSE Call("update", s, p.id.slot, p.content, p.base)

\* What the server does with a request, as the controller does it: creation is idempotent by
\* import id, update and delete are conditional on the version.
Handled(row, c) ==
    CASE c.kind \in {"create", "recover"} ->
            IF Exists(row) THEN [row |-> row, reply |-> "replay"]
            ELSE [row |-> [content |-> c.content, version |-> 1], reply |-> "ok"]
      [] c.kind \in {"update", "adopt"} ->
            IF ~Exists(row) THEN [row |-> row, reply |-> "error"]
            ELSE IF row.version # c.base THEN [row |-> row, reply |-> "conflict"]
            ELSE [row |-> [content |-> c.content, version |-> row.version + 1], reply |-> "ok"]
      [] c.kind = "delete" ->
            IF Exists(row) /\ row.version # c.base THEN [row |-> row, reply |-> "conflict"]
            ELSE [row |-> NoRow, reply |-> "ok"]
      [] c.kind = "probe" ->
            [row |-> row, reply |-> IF Exists(row) THEN "conflict" ELSE "ok"]

Waiting(c) == c.kind # "idle" /\ c.reply = "none"

\* The outcomes of a request: refused when the session is another student's, otherwise handled;
\* a request may be lost before or after the server applied it.
Outcomes(c) ==
    LET done   == Handled(server[c.student][c.slot], c)
        keep   == [server EXCEPT ![c.student][c.slot] = done.row]
        answer == [c EXCEPT !.reply = done.reply, !.row = done.row]
        failed == [c EXCEPT !.reply = "error"]
    IN  IF session # c.student THEN {[rows |-> server, call |-> failed, lost |-> FALSE]}
        ELSE {[rows |-> keep, call |-> answer, lost |-> FALSE],
              [rows |-> server, call |-> failed, lost |-> TRUE],
              [rows |-> keep, call |-> failed, lost |-> TRUE]}

Happens(o) == server' = o.rows /\ (IF o.lost THEN Spend("lost") ELSE Free)

\* createRemotePythonIdeProject: a replay with another text adopts the row when nobody has
\* changed it, and otherwise saves a recovered copy beside it.  deleteRemotePythonIdeProject:
\* after an unclear answer the row is looked for.
Recover(c) == Call("recover", c.student, [kind |-> "recovered", stamp |-> c.content], c.content, 0)
NeedsMore(c) ==
    \/ c.kind = "create" /\ c.reply = "replay" /\ c.row.content # c.content
    \/ c.kind = "adopt" /\ c.reply = "conflict"
    \/ c.kind = "delete" /\ c.reply = "error"
NextCall(c) ==
    IF c.kind = "delete" THEN [c EXCEPT !.kind = "probe", !.reply = "none"]
    ELSE IF c.kind = "create" /\ c.row.version = 1
    THEN Call("adopt", c.student, c.slot, c.content, c.row.version)
    ELSE Recover(c)
Succeeded(c) ==
    \/ c.reply = "ok"
    \/ c.kind \in {"create", "recover"} /\ c.reply = "replay" /\ c.row.content = c.content
Saved(c) == FromRow(c.student, c.slot, c.row)

-----------------------------------------------------------------------------
(* Loading and reconciliation. *)

NoLoad == [pc |-> "idle", current |-> FALSE, awaited |-> FALSE, student |-> Nobody,
           found |-> {}, plan |-> {}, merged |-> {}, writes |-> {}, todo |-> {}, call |-> NoCall]
NoChange == [pc |-> "idle", current |-> FALSE, project |-> Project(Nobody, LocalId(Original), 0, 0, FALSE),
             call |-> NoCall]
NoSave == [pc |-> "idle", todo |-> {}, force |-> FALSE, failed |-> FALSE,
           project |-> NoChange.project, owner |-> Nobody, call |-> NoCall]

\* Mutant: the owner changes and a load goes on as if it had not.
Stale_KeepsRuns == loads

\* ++projectLoadRunID: no run of a load or of a mutation is current any more.
Stale == [l \in Loads |-> [loads[l] EXCEPT !.current = FALSE]]
StaleChange == [change EXCEPT !.current = FALSE]

\* An initial project is created inside the load; the mutation is owner-bound, and ends with
\* its purge.
Mutating == change.pc # "idle" \/ \E l \in Loads : loads[l].pc \in {"initial", "created"}

\* No queued switch of the owner that has nothing to wait for: a microtask goes on before the
\* next event of the tab.
NextTask == ~(/\ switches # <<>> /\ ~Head(switches).persists
              /\ ~(\E l \in Loads : loads[l].awaited) /\ ~Mutating /\ save.pc = "idle")

\* The texts in the workspace and in the recovery copy.
InTab == TextsOf(ide.projects) \cup TextsOf(ide.volatile.projects)

\* A save that is under way when the workspace is suspended passes over the projects it has
\* still to save and, when it ends, gives up the recovery copy all the same.
AtRisk == IF save.pc # "idle" \/ change.pc # "idle" \/ exit # NoExit THEN TextsOf(ide.projects) ELSE {}

\* A creation suspends the workspace, too, but leaves it as it is: only what such a save passes
\* over is at risk.
PassedOver == IF exit # NoExit THEN TextsOf(ide.projects)
              ELSE IF save.pc = "idle" THEN {}
              ELSE TextsOf({p \in ide.projects : p.id \in save.todo \cup ide.pending})

\* loadProjects up to its first await; nothing happens while an owner switch is pending.
StartLoad(i, s, awaited) ==
    \E l \in Loads :
        /\ loads[l].pc = "idle"
        /\ loads' = [Stale EXCEPT ![l] =
              [NoLoad EXCEPT !.pc = "fetch", !.current = TRUE, !.awaited = awaited, !.student = s]]
        /\ change' = StaleChange
        /\ ide' = [i EXCEPT !.loading = TRUE, !.suppress = TRUE]

RecoveredCopy(p) ==
    Project(p.student, LocalId([kind |-> "recovered", stamp |-> p.content]), p.content, 0, TRUE)

\* reconcilePythonIdeRecoveryProjects, for one project of the recovery copy: the projects it
\* contributes to the workspace and the one it must write.
Reconciled(p, remote) ==
    LET same == {r \in remote : r.id = p.id} IN
    IF p.id.local THEN [projects |-> {p}, writes |-> {p}]
    ELSE IF same = {} THEN
        IF p.dirty THEN [projects |-> {RecoveredCopy(p)}, writes |-> {RecoveredCopy(p)}]
        ELSE [projects |-> {}, writes |-> {}]
    ELSE LET r == CHOOSE r \in same : TRUE IN
        IF r.content = p.content THEN [projects |-> {r}, writes |-> {}]
        ELSE IF r.base = p.base THEN [projects |-> {p}, writes |-> {p}]
        ELSE [projects |-> {r, RecoveredCopy(p)}, writes |-> {RecoveredCopy(p)}]

\* Mutant: the rows the recovery copy stands for are listed beside it.
Plan_ListsAllRows(copy, remote) ==
    [projects |-> (UNION {Reconciled(p, remote).projects : p \in copy}) \cup remote,
     writes |-> UNION {Reconciled(p, remote).writes : p \in copy}]

Plan(copy, remote) ==
    [projects |-> (UNION {Reconciled(p, remote).projects : p \in copy})
                  \cup {r \in remote : r.id \notin IdsOf(copy)},
     writes |-> UNION {Reconciled(p, remote).writes : p \in copy}]

\* The texts the server has.
OnServer == {server[s][slot].content : s \in Students, slot \in Slots}

-----------------------------------------------------------------------------
SyncInit ==
    /\ server = [s \in Students |-> [slot \in Slots |->
          IF slot = Original THEN [content |-> 0, version |-> 1] ELSE NoRow]]
    /\ session = First /\ owner = First /\ active = First
    /\ hidden = Nobody /\ switches = <<>> /\ late = <<>>
    /\ ide = [projects |-> {FromRow(owner, Original, [content |-> 0, version |-> 1])},
              pending |-> {}, unsynced |-> {}, volatile |-> NoCopy, loading |-> FALSE,
              suppress |-> FALSE, timer |-> FALSE, queued |-> FALSE]
    /\ save = NoSave /\ change = NoChange
    /\ loads = [l \in Loads |-> NoLoad]
    /\ exit = NoExit
    /\ clock = 0 /\ superseded = {} /\ forfeited = {} /\ exposed = {}
    /\ overtaken = FALSE /\ strayed = FALSE /\ doubled = FALSE
    /\ budget \in Budgets

-----------------------------------------------------------------------------
(* Saving: savePendingProjects and saveProjectOnce. *)

\* Mutant: a forced save passes over a suspended workspace, too.
Savable_IgnoresForce(i, ids, force) == {p \in i.projects : p.id \in ids /\ ~i.suppress}

Savable(i, ids, force) == {p \in i.projects : p.id \in ids /\ (force \/ ~i.suppress)}

\* The next project of the round, a further round, or the end of the save.
StartProject(i, p, todo, force, failed) ==
    /\ ide' = Refreshed(i)
    /\ save' = [pc |-> "call", todo |-> todo \ {p.id}, force |-> force, failed |-> failed,
                project |-> p, owner |-> active, call |-> SaveCall(p, active)]

EndSave(i, force, failed) ==
    IF active # Nobody /\ ~failed /\ i.unsynced = {}
    THEN ide' = Acknowledged(i) /\ save' = [NoSave EXCEPT !.pc = "purge"]
    ELSE ide' = i /\ save' = NoSave

StartRound(i, force, failed) ==
    \E ids \in IF i.pending # {} THEN {i.pending}
               ELSE IF i.projects = {} THEN {{}} ELSE {{id} : id \in IdsOf(i.projects)} :
        LET j == [i EXCEPT !.pending = {}, !.queued = FALSE]
            ready == Savable(j, ids, force)
        IN  IF ready = {} THEN EndSave(j, force, failed)
            ELSE \E p \in ready : StartProject(j, p, ids, force, failed)

ContinueSave(i, failed) ==
    LET ready == Savable(i, save.todo, save.force) IN
    IF ready # {} THEN \E p \in ready : StartProject(i, p, save.todo, save.force, failed)
    ELSE IF i.queued \/ i.pending # {} THEN StartRound(i, save.force, failed)
    ELSE EndSave(i, save.force, failed)

BeginSave(i, force) ==
    IF i.suppress /\ ~force THEN ide' = i /\ UNCHANGED save
    ELSE IF save.pc # "idle" THEN ide' = [i EXCEPT !.queued = TRUE] /\ UNCHANGED save
    ELSE StartRound(i, force, FALSE)

\* Mutant: a confirmed save replaces the project whatever was typed meanwhile.
AfterSave_DropsNewerEdit(i, started, saved) ==
    IF started.id \notin IdsOf(i.projects) THEN i
    ELSE [i EXCEPT !.projects = {p \in @ : p.id # started.id} \cup {saved},
                   !.unsynced = @ \ {started.id, saved.id}]

\* A confirmed save of a project that was edited meanwhile keeps the edit on the new version.
AfterSave(i, started, saved) ==
    LET current == {p \in i.projects : p.id = started.id} IN
    IF current = {} THEN i
    ELSE LET p == CHOOSE p \in current : TRUE
             edited == p.content # started.content \/ p.dirty # started.dirty
             kept == [p EXCEPT !.id = saved.id, !.base = saved.base, !.dirty = TRUE]
             j == [i EXCEPT !.unsynced = @ \ {started.id, saved.id}]
         IN  IF edited
             THEN Refreshed([j EXCEPT !.projects = (@ \ {p}) \cup {kept},
                                      !.pending = @ \cup {saved.id}])
             ELSE [j EXCEPT !.projects = (@ \ {p}) \cup {saved}]

\* A failed save keeps its text for a retry while its student still owns the workspace, and
\* gives up the recovery copy otherwise.
AfterFailure(i, started, s) ==
    LET j == [i EXCEPT !.unsynced = @ \cup {started.id}] IN
    IF s = active /\ s = owner
    THEN [j EXCEPT !.volatile = Replace(@, s, i.projects, TRUE)]
    ELSE [j EXCEPT !.volatile = Discard(@, s)]

SaveAnswered ==
    /\ NextTask
    /\ save.pc = "call" /\ ~Waiting(save.call)
    /\ IF NeedsMore(save.call)
       THEN save' = [save EXCEPT !.call = NextCall(save.call)] /\ UNCHANGED ide
       ELSE IF Succeeded(save.call)
       THEN ContinueSave(AfterSave(ide, save.project, Saved(save.call)), save.failed)
       ELSE ContinueSave(AfterFailure(ide, save.project, save.owner), TRUE)
    /\ UNCHANGED <<server, ownerVars, loads, change, exit, clock, history, budget>>

\* After the purge of the browser store, discardLocalProjectSnapshot clears the set again.
SavePurged ==
    /\ NextTask
    /\ save.pc = "purge"
    /\ save' = NoSave
    /\ ide' = [ide EXCEPT !.unsynced = {}]
    /\ UNCHANGED <<server, ownerVars, loads, change, exit, clock, history, budget>>

-----------------------------------------------------------------------------
(* The student. *)

\* scheduleSave; while saves are suppressed the text changes and nothing is scheduled.
Edit(p) ==
    /\ NextTask
    /\ p \in ide.projects /\ ~ide.loading /\ clock < Edits
    /\ LET typed == [ide EXCEPT !.projects = (@ \ {p})
                        \cup {[p EXCEPT !.content = clock + 1, !.dirty = TRUE]}]
       IN  ide' = IF ide.suppress THEN typed
                  ELSE Refreshed([typed EXCEPT !.pending = @ \cup {p.id}, !.timer = TRUE])
    /\ clock' = clock + 1
    /\ superseded' = superseded \cup {p.content}
    /\ exposed' = IF ide.suppress \/ exit # NoExit \/ change.pc \in {"create", "created"}
                  THEN exposed \cup {clock + 1} ELSE exposed
    /\ UNCHANGED <<server, ownerVars, save, loads, change, exit, forfeited, overtaken, strayed,
                   doubled, budget>>

Autosave ==
    /\ NextTask
    /\ ide.timer
    /\ BeginSave([ide EXCEPT !.timer = FALSE], FALSE)
    /\ UNCHANGED <<server, ownerVars, loads, change, exit, clock, history, budget>>

\* saveSelectedProject, by the Save button.
SaveNow(p) ==
    /\ NextTask
    /\ p \in ide.projects /\ ~ide.loading
    /\ p.id \in ide.unsynced
    /\ BeginSave([ide EXCEPT !.pending = @ \cup {p.id}], FALSE)
    /\ UNCHANGED <<server, ownerVars, loads, change, exit, clock, history, budget>>

\* createProject and saveNewProject.
Create ==
    /\ NextTask
    /\ active \in Students /\ owner = active /\ ~ide.loading
    /\ change.pc = "idle" /\ clock < Edits /\ Spend("creates")
    /\ LET p == Project(active, LocalId([kind |-> "own", stamp |-> clock + 1]), clock + 1, 0, TRUE)
       IN  /\ ide' = Refreshed([ide EXCEPT !.projects = @ \cup {p}, !.suppress = TRUE,
                                           !.unsynced = @ \cup {p.id}])
           /\ change' = [pc |-> "create", current |-> TRUE, project |-> p,
                         call |-> SaveCall(p, active)]
    /\ clock' = clock + 1
    /\ superseded' = superseded \cup {clock + 1}
    /\ exposed' = exposed \cup PassedOver
    /\ UNCHANGED <<server, ownerVars, save, loads, exit, forfeited, overtaken, strayed, doubled>>

\* The created row takes the place of the local project.
AfterCreate(i, local, saved) ==
    [i EXCEPT !.projects = {p \in @ : p.id # local.id} \cup {saved},
              !.unsynced = @ \ {local.id, saved.id}]

\* createProject lists the project a second time here, which saveNewProject had listed already
\* (CodeIdeWorkspace.vue:3445): `doubled` tells, where the set does not.
AfterCreateError(i, local) ==
    Refreshed([i EXCEPT !.unsynced = @ \cup {local.id},
        !.projects = IF local.id \in IdsOf(@) THEN @ ELSE @ \cup {local}])

Removed(i, p) ==
    Refreshed([i EXCEPT !.projects = {q \in @ : q.id # p.id}, !.pending = @ \ {p.id},
                        !.unsynced = @ \ {p.id}])

\* deleteProject; the last project stays.
Delete(p) ==
    /\ NextTask
    /\ p \in ide.projects /\ ~ide.loading /\ Cardinality(ide.projects) > 1
    /\ change.pc = "idle" /\ Spend("deletes")
    /\ IF p.id.local
       THEN /\ ide' = Removed(ide, p)
            /\ UNCHANGED change
       ELSE /\ change' = [pc |-> "delete", current |-> TRUE, project |-> p,
                          call |-> Call("delete", active, p.id.slot, 0, p.base)]
            /\ UNCHANGED ide
    /\ superseded' = superseded \cup {p.content}
    /\ UNCHANGED <<server, ownerVars, save, loads, exit, clock, forfeited, exposed, overtaken,
                   strayed, doubled>>

\* The workspace after the last answer of a mutation that is still current.
AfterChange(c) ==
    IF c.pc = "create" /\ Succeeded(c.call) THEN AfterCreate(ide, c.project, Saved(c.call))
    ELSE IF c.pc = "create" THEN AfterCreateError(ide, c.project)
    ELSE IF Succeeded(c.call) THEN Removed(ide, c.project) ELSE ide

\* createProject lets the workspace save again, if its owner and load run are still the same.
EndChange(i, c) ==
    ide' = IF c.pc \in {"create", "created"} /\ c.current THEN [i EXCEPT !.suppress = FALSE] ELSE i

\* A created project that a save has made a row of meanwhile is listed beside it; one whose
\* creation failed is listed twice.
Doubles(c) ==
    c.pc = "create" /\ c.current /\ (~Succeeded(c.call) \/ c.project.id \notin IdsOf(ide.projects))

\* A mutation whose owner or load run changed meanwhile leaves the workspace alone.
ChangeAnswered ==
    LET after  == IF change.current THEN AfterChange(change) ELSE ide
        purges == change.current /\ Succeeded(change.call) /\ Discardable(after)
    IN  /\ NextTask
        /\ change.pc \in {"create", "delete"} /\ ~Waiting(change.call)
        /\ IF NeedsMore(change.call)
           THEN /\ change' = [change EXCEPT !.call = NextCall(change.call)]
                /\ UNCHANGED <<ide, superseded, doubled>>
           ELSE /\ IF purges
                   THEN /\ ide' = Acknowledged(after)
                        /\ change' = [change EXCEPT !.call = NoCall,
                              !.pc = IF @ = "create" THEN "created" ELSE "deleted"]
                   ELSE EndChange(after, change) /\ change' = NoChange
                /\ superseded' = IF change.pc = "delete" /\ change.current
                                 THEN superseded \cup TextsOf({p \in ide.projects : p.id = change.project.id})
                                 ELSE superseded
                /\ doubled' = (doubled \/ Doubles(change))
        /\ UNCHANGED <<server, ownerVars, save, loads, exit, clock, forfeited, exposed, overtaken,
                       strayed, budget>>

\* The texts that only their mark keeps from being taken for synced.
Marked == TextsOf({p \in ide.projects : p.id \in ide.unsynced})

\* After the purge the marks are cleared, also that of a save that failed meanwhile.
ChangePurged ==
    /\ NextTask
    /\ change.pc \in {"created", "deleted"}
    /\ EndChange([ide EXCEPT !.unsynced = {}], change)
    /\ change' = NoChange
    /\ exposed' = exposed \cup Marked
    /\ UNCHANGED <<server, ownerVars, save, loads, exit, clock, superseded, forfeited, overtaken,
                   strayed, doubled, budget>>

-----------------------------------------------------------------------------
(* loadProjects. *)

Opened(i) == [i EXCEPT !.loading = FALSE, !.suppress = FALSE]

\* A run ends; the owner switch that awaited it is over.
EndLoad(l) ==
    /\ loads' = [loads EXCEPT ![l] = NoLoad]
    /\ switches' = IF loads[l].awaited THEN Tail(switches) ELSE switches
GoOn(l, load) == loads' = [loads EXCEPT ![l] = load] /\ UNCHANGED switches

\* Mutant: a failed load leaves the workspace closed.
Offline_StaysClosed(i) == [i EXCEPT !.pending = @ \cup IdsOf(i.projects)]

\* Every project of the workspace is to be saved again.
Offline(i) ==
    Opened(Refreshed([i EXCEPT !.pending = @ \cup IdsOf(i.projects),
                               !.unsynced = @ \cup IdsOf(i.projects)]))

\* The stamp of a project the workspace makes by itself; beyond the bound they share the last.
Fresh == IF clock <= Edits THEN clock + 1 ELSE clock
NewProject(s) == Project(s, LocalId([kind |-> "own", stamp |-> Fresh]), Fresh, 0, TRUE)

\* The list of rows is answered, or the request fails; without an account there is none.
LoadServed(l) ==
    LET s == loads[l].student
        rows == IF s = Nobody THEN {}
                ELSE {FromRow(s, slot, server[s][slot]) : slot \in {x \in Slots : Exists(server[s][x])}}
    IN  /\ NextTask
        /\ loads[l].pc = "fetch"
        /\ \/ /\ s \in {Nobody, session} /\ Free
              /\ loads' = [loads EXCEPT ![l].pc = "found", ![l].found = rows]
           \/ /\ s # Nobody /\ (IF s = session THEN Spend("lost") ELSE Free)
              /\ loads' = [loads EXCEPT ![l].pc = "failed"]
        /\ UNCHANGED <<server, ownerVars, ide, save, change, exit, clock, history>>

\* The catch block: the recovery copy, or a new project, stands in for the server's list.
LoadFailed(l) ==
    LET s == loads[l].student
        copy == CopyOf(s)
    IN  /\ NextTask
        /\ loads[l].pc = "failed"
        /\ EndLoad(l)
        /\ IF ~loads[l].current THEN UNCHANGED <<ide, clock, superseded>>
           ELSE IF copy # {}
           THEN ide' = Offline([ide EXCEPT !.projects = copy]) /\ UNCHANGED <<clock, superseded>>
           ELSE /\ clock' = Fresh /\ superseded' = superseded \cup {Fresh}
                /\ ide' = Offline([ide EXCEPT !.projects = {NewProject(s)}])
        /\ UNCHANGED <<server, session, owner, hidden, active, late, save, change, exit, forfeited,
                       exposed, overtaken, strayed, doubled, budget>>

\* The list is compared with the recovery copy as it is now.
LoadFound(l) ==
    LET load == loads[l]
        copy == CopyOf(load.student)
        plan == Plan(copy, load.found)
    IN  /\ NextTask
        /\ load.pc = "found"
        /\ IF ~load.current THEN EndLoad(l) /\ UNCHANGED <<ide, clock, superseded>>
           ELSE IF copy # {}
           THEN /\ GoOn(l, [load EXCEPT !.pc = "apply", !.plan = plan.projects, !.merged = plan.projects,
                                        !.writes = plan.writes, !.todo = plan.writes])
                /\ UNCHANGED <<ide, clock, superseded>>
           ELSE IF load.found # {} \/ load.student = Nobody
           THEN /\ EndLoad(l)
                /\ ide' = Opened([ide EXCEPT !.projects = load.found])
                /\ UNCHANGED <<clock, superseded>>
           ELSE LET p == NewProject(load.student) IN
                /\ clock' = Fresh /\ superseded' = superseded \cup {Fresh}
                /\ GoOn(l, [load EXCEPT !.pc = "initial", !.writes = {p},
                                        !.call = SaveCall(p, load.student)])
                /\ ide' = Refreshed([ide EXCEPT !.projects = {p}, !.unsynced = @ \cup {p.id}])
        /\ UNCHANGED <<server, session, owner, hidden, active, late, save, change, exit, forfeited,
                       exposed, overtaken, strayed, doubled, budget>>

\* A project that the server has already, and its row: that of its import id, or the recovered
\* copy that an unanswered request made of its text.
SideBySide(projects) ==
    \E p, q \in projects :
        /\ p.id.local /\ ~q.id.local
        /\ q.id.slot \in {p.id.slot, [kind |-> "recovered", stamp |-> p.content]}

\* applyPythonIdeRecoveryPlan: one write after the other, whatever became of the load.
LoadApplies(l) ==
    LET load == loads[l]
        done == load.call.kind # "idle"
        target == CHOOSE p \in load.writes \ load.todo :
                     p.content = load.call.content
        merged == IF done THEN {p \in load.merged : p.id # target.id} \cup {Saved(load.call)}
                  ELSE load.merged
        distinct == {p \in merged : p \in load.found => p.id \notin IdsOf(merged \ load.found)}
        kept == [ide EXCEPT !.projects = load.plan, !.pending = @ \cup IdsOf(load.writes),
                            !.unsynced = @ \cup IdsOf(load.writes)]
    IN  /\ NextTask
        /\ load.pc = "apply" /\ ~Waiting(load.call)
        /\ IF NeedsMore(load.call)
           THEN GoOn(l, [load EXCEPT !.call = NextCall(load.call)]) /\ UNCHANGED ide
           ELSE IF done /\ ~Succeeded(load.call)
           THEN /\ EndLoad(l)
                /\ ide' = IF load.current THEN Opened(Refreshed(kept)) ELSE ide
           ELSE IF load.todo # {}
           THEN /\ \E p \in load.todo :
                      GoOn(l, [load EXCEPT !.merged = merged, !.todo = @ \ {p},
                                           !.call = SaveCall(p, load.student)])
                /\ UNCHANGED ide
           ELSE IF ~load.current THEN EndLoad(l) /\ UNCHANGED ide
           ELSE /\ GoOn(l, [load EXCEPT !.pc = "applied", !.call = NoCall])
                /\ ide' = Acknowledged([ide EXCEPT !.projects = distinct])
        /\ doubled' = (doubled \/ (/\ done /\ ~NeedsMore(load.call) /\ ~Succeeded(load.call)
                                   /\ load.current /\ SideBySide(load.plan)))
        /\ UNCHANGED <<server, session, owner, hidden, active, late, save, change, exit, clock,
                       superseded, forfeited, exposed, overtaken, strayed, budget>>

\* An empty account gets its first project.
LoadCreates(l) ==
    LET load == loads[l]
        local == CHOOSE p \in load.writes : TRUE
        after == AfterCreate(ide, local, Saved(load.call))
    IN  /\ NextTask
        /\ load.pc = "initial" /\ ~Waiting(load.call)
        /\ IF NeedsMore(load.call)
           THEN GoOn(l, [load EXCEPT !.call = NextCall(load.call)]) /\ UNCHANGED ide
           ELSE IF ~load.current THEN EndLoad(l) /\ UNCHANGED ide
           ELSE IF ~Succeeded(load.call)
           THEN GoOn(l, [load EXCEPT !.pc = "failed"]) /\ UNCHANGED ide
           ELSE IF Discardable(after)
           THEN GoOn(l, [load EXCEPT !.pc = "created", !.call = NoCall]) /\ ide' = Acknowledged(after)
           ELSE EndLoad(l) /\ ide' = Opened(after)
        /\ UNCHANGED <<server, session, owner, hidden, active, late, save, change, exit, clock,
                       history, budget>>

\* After the purge of the browser store; that of a creation clears the marks.
LoadPurged(l) ==
    LET i == IF loads[l].pc = "created" THEN [ide EXCEPT !.unsynced = {}] ELSE ide
    IN  /\ NextTask
        /\ loads[l].pc \in {"applied", "created"}
        /\ EndLoad(l)
        /\ ide' = IF loads[l].current THEN Opened(i) ELSE i
        /\ exposed' = IF loads[l].pc = "created" THEN exposed \cup Marked ELSE exposed
        /\ UNCHANGED <<server, session, owner, hidden, active, late, save, change, exit, clock,
                       superseded, forfeited, overtaken, strayed, doubled, budget>>

\* The route of the page changes.
RouteChange ==
    /\ NextTask
    /\ active = owner /\ Spend("routes")
    /\ StartLoad(ide, active, FALSE)
    /\ exposed' = exposed \cup AtRisk
    /\ UNCHANGED <<server, ownerVars, save, exit, clock, superseded, forfeited, overtaken, strayed,
                   doubled>>

-----------------------------------------------------------------------------
(* The owner of the workspace. *)

\* hideWorkspaceForOwnerTransition
Blank(i) == [i EXCEPT !.projects = {}, !.loading = TRUE, !.suppress = TRUE, !.timer = FALSE]

\* The watcher of studentProjectOwnerID: the old workspace is hidden at once, the switch queues.
ChangeOwner(i, next) ==
    /\ owner' = next
    /\ IF next = owner THEN ide' = i /\ UNCHANGED <<switches, loads, change>>
       ELSE /\ ide' = Blank([i EXCEPT !.volatile = RetainAcross(@, next)])
            /\ switches' = Append(switches, [next |-> next, persists |-> i.projects # {}])
            /\ loads' = Stale /\ change' = StaleChange

\* The workspace shows somebody's projects, or a load will.
Given == ide.projects # {} \/ \E l \in Loads : loads[l].current

\* switchProjectOwner, once the mutations and the save under way are over.  Its own write to
\* the browser store comes after those of the hand-offs that began earlier.
SwitchOwner ==
    LET next == Head(switches).next
        i == [ide EXCEPT !.pending = {}, !.unsynced = {}, !.queued = FALSE]
    IN  /\ switches # <<>> /\ ~(\E l \in Loads : loads[l].awaited)
        /\ ~Mutating /\ save.pc = "idle"
        /\ Head(switches).persists => late = <<>>
        /\ active' = next
        /\ IF owner = next THEN StartLoad(i, next, TRUE) /\ UNCHANGED switches
           ELSE ide' = i /\ switches' = Tail(switches) /\ UNCHANGED <<loads, change>>
        /\ strayed' = (strayed \/ (next \notin {owner, Nobody} /\ Given))
        /\ UNCHANGED <<server, session, owner, hidden, late, save, exit, clock, superseded,
                       forfeited, exposed, overtaken, doubled, budget>>

\* hideStudentSession: the page is hidden or its lease has run out.  The workspace's own
\* listener may flush pending work before or is silenced by the hiding.
Hide ==
    /\ NextTask
    /\ owner \in Students /\ Spend("hides")
    /\ hidden' = owner
    /\ late' = IF active = owner THEN Append(late, [student |-> owner, replaces |-> TRUE]) ELSE late
    /\ exposed' = exposed \cup AtRisk
    /\ ChangeOwner(ide, Nobody)
    /\ UNCHANGED <<server, session, active, save, exit, clock, superseded, forfeited, overtaken,
                   strayed, doubled>>

\* The page becomes hidden and the workspace's listener runs first.
Flush ==
    /\ NextTask
    /\ ~ide.suppress /\ ide.pending # {}
    /\ BeginSave([Refreshed(ide) EXCEPT !.timer = FALSE], FALSE)
    /\ UNCHANGED <<server, ownerVars, loads, change, exit, clock, history, budget>>

\* A switch of the owner is still to come.
SwitchWaits == Len(switches) > (IF \E l \in Loads : loads[l].awaited THEN 1 ELSE 0)

\* A hand-off that goes on now hides a workspace that was prepared for the next owner.
Overtakes == owner # Nobody /\ exit = NoExit /\ ~SwitchWaits

\* The hand-off goes on after its write to the browser store: it refreshes the recovery copy if
\* there is still a workspace, and hides it (again).
HandoffContinues ==
    LET h == Head(late)
        copied == IF h.replaces /\ ide.projects # {}
                  THEN [ide EXCEPT !.volatile = Replace(@, h.student, ide.projects,
                          save.pc # "idle" \/ ide.pending # {} \/ ide.queued \/ ide.unsynced # {})]
                  ELSE ide
    IN  /\ NextTask
        /\ late # <<>> /\ late' = Tail(late)
        /\ ide' = Blank(copied)
        /\ loads' = Stale /\ change' = StaleChange
        /\ overtaken' = (overtaken \/ Overtakes)
        /\ exposed' = exposed \cup AtRisk \cup (IF Overtakes THEN InTab ELSE {})
        /\ UNCHANGED <<server, session, owner, hidden, active, switches, save, exit, clock,
                       superseded, forfeited, strayed, doubled, budget>>

\* The student is back and the server confirms the session.
Revalidated ==
    /\ NextTask
    /\ hidden # Nobody /\ session = hidden
    /\ hidden' = Nobody
    /\ ChangeOwner(ide, hidden)
    /\ UNCHANGED <<server, session, active, late, save, exit, clock, history, budget>>

\* The server does not confirm it, or does not answer: endStudentSessionHandoff, clearSession.
RevalidationFails ==
    /\ NextTask
    /\ hidden # Nobody
    /\ IF session = hidden THEN Spend("lost") ELSE Free
    /\ hidden' = Nobody
    /\ late' = IF active = hidden THEN Append(late, [student |-> hidden, replaces |-> FALSE]) ELSE late
    /\ ide' = [ide EXCEPT !.volatile = Discard(@, hidden)]
    /\ forfeited' = forfeited \cup {t \in 1 .. clock : t \notin OnServer}
    /\ UNCHANGED <<server, session, owner, active, switches, save, loads, change, exit, clock,
                   superseded, exposed, overtaken, strayed, doubled>>

\* The session ends on the server: inactivity, or a reset by the teacher.
SessionEnds ==
    /\ NextTask
    /\ session # Nobody /\ Spend("ends")
    /\ session' = Nobody
    /\ UNCHANGED <<server, owner, hidden, active, switches, late, ide, save, loads, change, exit,
                   clock, history>>

\* A student signs in; that takes longer than the browser store does.
SignIn(s) ==
    /\ NextTask
    /\ late = <<>> /\ owner = Nobody /\ hidden = Nobody /\ session = Nobody
    /\ session' = s
    /\ ChangeOwner(ide, s)
    /\ UNCHANGED <<server, hidden, active, late, save, exit, clock, history, budget>>

-----------------------------------------------------------------------------
(* Signing out: prepareStudentSessionHandoff and the "prepare" hand-off. *)

PrepareExit ==
    /\ NextTask
    /\ owner \in Students /\ exit = NoExit /\ Spend("exits")
    /\ IF active = owner
       THEN /\ exit' = [pc |-> "waiting", student |-> owner]
            /\ ide' = [ide EXCEPT !.loading = TRUE, !.suppress = TRUE, !.timer = FALSE]
            /\ loads' = Stale /\ change' = StaleChange
       ELSE exit' = [pc |-> "checking", student |-> owner] /\ UNCHANGED <<ide, loads, change>>
    /\ exposed' = exposed \cup AtRisk \cup (IF switches # <<>> THEN TextsOf(CopyOf(owner)) ELSE {})
    /\ UNCHANGED <<server, ownerVars, save, clock, superseded, forfeited, overtaken, strayed,
                   doubled>>

\* After the mutations and the save under way, everything not confirmed is saved by force.
PrepareSaves ==
    LET open == {p.id : p \in {q \in ide.projects : q.id.local \/ q.id \in ide.unsynced}}
        i == [ide EXCEPT !.pending = @ \cup open]
    IN  /\ NextTask
        /\ exit.pc = "waiting" /\ ~Mutating /\ save.pc = "idle"
        /\ exit' = [exit EXCEPT !.pc = "saving"]
        /\ IF i.pending # {} THEN BeginSave(i, TRUE) ELSE ide' = i /\ UNCHANGED save
        /\ UNCHANGED <<server, ownerVars, loads, change, clock, history, budget>>

PrepareSaved ==
    /\ NextTask
    /\ exit.pc = "saving" /\ save.pc = "idle"
    /\ IF ide.unsynced # {}
       THEN exit' = [exit EXCEPT !.pc = "failed"] /\ ide' = [ide EXCEPT !.suppress = FALSE]
       ELSE exit' = [exit EXCEPT !.pc = "checking"] /\ ide' = [ide EXCEPT !.loading = TRUE]
    /\ UNCHANGED <<server, ownerVars, save, loads, change, clock, history, budget>>

\* Work that is left in volatile memory stops the sign-out.
PrepareChecks ==
    /\ NextTask
    /\ exit.pc = "checking"
    /\ exit' = [exit EXCEPT !.pc =
          IF ide.volatile.student = exit.student /\ ide.volatile.unsynced THEN "failed" ELSE "prepared"]
    /\ UNCHANGED <<server, ownerVars, ide, save, loads, change, clock, history, budget>>

\* The "resume" hand-off after a failure, or after the sign-out was refused or cancelled:
\* the projects are loaded again.
Resume ==
    /\ NextTask
    /\ \/ exit.pc = "failed" /\ Free
       \/ exit.pc = "prepared" /\ Spend("lost")
    /\ exit' = NoExit
    /\ IF exit.student = active /\ active = owner THEN StartLoad(ide, active, FALSE)
       ELSE UNCHANGED <<ide, loads, change>>
    /\ UNCHANGED <<server, ownerVars, save, clock, history>>

\* The server signs the student out, or nobody can tell whether it did:
\* failClosedStudentSessionExit begins to end the hand-off.
SignOut ==
    /\ NextTask
    /\ exit.pc = "prepared"
    /\ \/ session' = Nobody /\ Free
       \/ session' = session /\ Spend("lost")
    /\ exit' = [exit EXCEPT !.pc = "ending"]
    /\ ide' = [ide EXCEPT !.volatile = Discard(@, exit.student)]
    /\ late' = IF active = exit.student THEN Append(late, [student |-> active, replaces |-> FALSE])
               ELSE late
    /\ UNCHANGED <<server, owner, hidden, active, switches, save, loads, change, clock, history>>

\* clearSession, when the hand-off is over.
SignedOut ==
    /\ NextTask
    /\ exit.pc = "ending" /\ late = <<>>
    /\ exit' = NoExit /\ hidden' = Nobody
    /\ ChangeOwner(ide, Nobody)
    /\ UNCHANGED <<server, session, active, late, save, clock, history, budget>>

-----------------------------------------------------------------------------
(* The server and the other device. *)

ServeSave ==
    /\ NextTask
    /\ save.pc = "call" /\ Waiting(save.call)
    /\ \E o \in Outcomes(save.call) : Happens(o) /\ save' = [save EXCEPT !.call = o.call]
    /\ UNCHANGED <<ownerVars, ide, loads, change, exit, clock, history>>

ServeChange ==
    /\ NextTask
    /\ change.pc # "idle" /\ Waiting(change.call)
    /\ \E o \in Outcomes(change.call) : Happens(o) /\ change' = [change EXCEPT !.call = o.call]
    /\ UNCHANGED <<ownerVars, ide, save, loads, exit, clock, history>>

ServeLoad(l) ==
    /\ NextTask
    /\ loads[l].pc \in {"apply", "initial"} /\ Waiting(loads[l].call)
    /\ \E o \in Outcomes(loads[l].call) : Happens(o) /\ loads' = [loads EXCEPT ![l].call = o.call]
    /\ UNCHANGED <<ownerVars, ide, save, change, exit, clock, history>>

OtherDeviceSaves(s, slot) ==
    /\ NextTask
    /\ Exists(server[s][slot]) /\ clock < Edits /\ Spend("others")
    /\ clock' = clock + 1
    /\ server' = [server EXCEPT ![s][slot] = [content |-> clock + 1, version |-> @.version + 1]]
    /\ superseded' = superseded \cup {server[s][slot].content}
    /\ UNCHANGED <<ownerVars, ide, save, loads, change, exit, forfeited, exposed, overtaken,
                   strayed, doubled>>

OtherDeviceDeletes(s, slot) ==
    /\ NextTask
    /\ Exists(server[s][slot]) /\ Spend("others")
    /\ server' = [server EXCEPT ![s][slot] = NoRow]
    /\ superseded' = superseded \cup {server[s][slot].content}
    /\ UNCHANGED <<ownerVars, ide, save, loads, change, exit, clock, forfeited, exposed, overtaken,
                   strayed, doubled>>

Work == \/ \E p \in ide.projects : Edit(p) \/ SaveNow(p) \/ Delete(p)
        \/ Create \/ RouteChange \/ Flush
Engine == Autosave \/ SaveAnswered \/ SavePurged \/ ChangeAnswered \/ ChangePurged
Loading == \E l \in Loads :
              \/ LoadServed(l) \/ LoadFailed(l) \/ LoadFound(l)
              \/ LoadApplies(l) \/ LoadCreates(l) \/ LoadPurged(l)
Session == \/ Hide \/ HandoffContinues \/ Revalidated \/ RevalidationFails
           \/ SessionEnds \/ \E s \in Students : SignIn(s)
Leaving == PrepareExit \/ PrepareSaves \/ PrepareSaved \/ PrepareChecks \/ Resume \/ SignOut \/ SignedOut
Remote  == \/ ServeSave \/ ServeChange \/ \E l \in Loads : ServeLoad(l)
           \/ \E s \in Students, slot \in Slots :
                  OtherDeviceSaves(s, slot) \/ OtherDeviceDeletes(s, slot)

SyncNext == \/ SwitchOwner
        \/ Work \/ Engine \/ Loading \/ Session \/ Leaving \/ Remote

\* Requests are answered or time out, the browser store answers, and what is queued in the tab
\* goes on; nothing obliges a user, the page or another device.
Answered == SaveAnswered \/ SavePurged \/ ChangeAnswered \/ ChangePurged
            \/ ServeSave \/ ServeChange \/ \E l \in Loads : ServeLoad(l)
Exiting == PrepareSaves \/ PrepareSaved \/ PrepareChecks \/ Resume \/ SignOut \/ SignedOut
SyncFairness ==
    /\ WF_syncVars(Answered) /\ WF_syncVars(Loading) /\ WF_syncVars(HandoffContinues)
    /\ WF_syncVars(SwitchOwner) /\ WF_syncVars(Revalidated \/ RevalidationFails) /\ WF_syncVars(Exiting)
SyncSpec == SyncInit /\ [][SyncNext]_syncVars /\ SyncFairness

-----------------------------------------------------------------------------
(* Properties. *)

Calls == {save.call, change.call} \cup {loads[l].call : l \in Loads}

\* The variables keep their shape; the workspace lists a project once, unless it is `doubled`:
\* opened with a project and the row it had become, or after a creation that failed (the code
\* lists the project a second time) or ended after a save had made the row.
SyncTypeOK ==
    /\ {session, owner, hidden, active} \subseteq Owners
    /\ IdsOf(ide.projects) \cup ide.pending \cup ide.unsynced \subseteq Ids
    /\ {c.student : c \in Calls} \subseteq Owners
    /\ clock \in Stamps
    /\ superseded \cup forfeited \cup exposed \subseteq Stamps
    /\ (doubled \/ Cardinality(IdsOf(ide.projects)) = Cardinality(ide.projects))

Typed == 1 .. clock
InFlight == {c.content : c \in {d \in Calls : d.kind \notin {"idle", "delete", "probe"}}}

\* What a student typed is on the server, in the workspace, in the recovery copy or on its way,
\* until somebody replaces or deletes it knowingly or the session ends with it unsaved, whatever
\* saves, loads, creations and hand-offs run together; `exposed` excuses the two known defects
\* (AtRisk and PassedOver: a suspended save acknowledges what it passes over; Marked: the end of
\* a creation or deletion wipes the mark of a save that failed meanwhile) and what is typed into
\* a workspace that is being created, reloaded or signed out; from the moment it is `doubled` or
\* `strayed`, the workspace promises nothing.
EditsSurvive == strayed \/ doubled \/
    Typed \subseteq OnServer \cup InTab \cup InFlight \cup superseded \cup forfeited \cup exposed

\* A student is signed out by this tab only when every text is on the server, with the same
\* excuses.
HandoffSavesAll ==
    exit.pc = "ending" =>
        strayed \/ doubled \/ Typed \subseteq OnServer \cup superseded \cup forfeited \cup exposed

\* CodeIdeWorkspace.vue:8002: "Projects safely synced" is said before the sign-out goes on.  The
\* same without the excuse of `exposed`.
SignedOutWorkIsSynced ==
    exit.pc = "ending" => Typed \subseteq OnServer \cup superseded \cup forfeited

\* The workspace shows projects of the current owner only, also while an earlier owner's saves,
\* loads and hand-offs are still being answered; the recovery copy is one student's and never
\* another's than the owner's.  (`strayed` excuses the switches that were queued for students who
\* have left: they make each of them the active one in turn.)
NoForeignProjects == strayed \/
    /\ \A p \in ide.projects : p.student = owner
    /\ \A p \in ide.volatile.projects : p.student = ide.volatile.student
    /\ owner # Nobody => ide.volatile.student \in {owner, Nobody}

\* A workspace that is being prepared for a student opens in the end, however the loads, the
\* switches and the hand-offs interleave and whichever requests fail.  (A hand-off that comes
\* after the workspace was prepared for the next owner hides it for good: `overtaken`.)
WorkspaceOpens == (owner # Nobody /\ ide.loading) ~> (owner = Nobody \/ ~ide.loading \/ overtaken)
=============================================================================
