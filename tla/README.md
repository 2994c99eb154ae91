# Specifications of the classroom service

TLA+ models of the parts of this repository whose correctness depends on the order in
which things happen: the API process in `back-end/src`, the session and workspace code of
the browser in `front-end/src`, and the release scripts in `scripts/`; with the TLC
configurations that check them on small instances and TLAPS proofs of the properties that
matter most. Paths below are relative to the repository root; `back-end/src/` is left out
where it is clear.

## 1. The system

A Node process (Express, Mongoose) in front of one MongoDB database, and a Vue
application in the browser. The process is single-threaded: what a handler does between
two `await`s is one step, and every `await` is a point where other requests run. There
are no database transactions, so every multi-document operation is a sequence of
separately acknowledged updates. Coordination between requests is process-local (leases,
gates, promise tails); the documentation requires a single API process
(`docs/privacy-operations.md:518-523`), and so do the models. All of the process's memory
is lost in a restart. A browser tab is single-threaded in the same way; tabs share the
session cookie and talk over a BroadcastChannel.

### Inventory

| Component | State | Operations | Interacts through | Hard part | Correct when |
|---|---|---|---|---|---|
| Per-student lease gates (`security/studentDataWriteBarrier.ts`, `security/studentRecordMutationBarrier.ts`) | a map from student to `{activeLeases, closed, waiters}` | acquire, release, close and wait, reopen | every protected handler calls them | objects come and go in the map while closures still hold them; wake-ups | a closer goes on only when nobody who entered earlier is inside; no wake-up is lost; the map does not grow |
| Record deletion (`services/studentRecordDeletion.ts`, `studentDataController.ts`) | fields of the student document, the receipt, three child collections | two fences, receipt, three parallel `deleteMany`, final `deleteOne`, completion | gates; database | other writers between the fences; each operation may fail; retries; two deletions of one operation | nothing comes back; the receipt is complete and true; a retry continues the same operation |
| Retention sweep (`services/studentRecordRetention.ts`) | deadlines, policy days | orphan receipts, then candidates | verified mutation lease; deletion | a sign-in renews a deadline under the sweep; a crash in the middle of a deletion | only expired or pending accounts are removed, and all of those are in the end |
| Preservation hold (`services/studentRecordPreservation.ts`) | `recordPreservationHoldActive`, per-student tail | place, release | both gates, purge schedule | requests already past their checks; unacknowledged updates; restarts | a held record does not change |
| Project tombstones (`services/pythonProjectTombstoneLifecycle.ts`) | `deletedAt`, `purgeAt` of projects and reviews | suspend, resume, hourly sweep, start-up migration | hold transitions; mutation lease | two collections updated together; errors withdraw the schedule; a hold that comes or goes under a sweep | nothing is purged under a hold; tombstones do go |
| Python projects, reviews, quota (`controllers/users/pythonProjectController.ts`) | project rows, review rows, a ledger in the student document | create (idempotent by import id), update, delete, review create and edit | the ledger; write and mutation leases; tombstone sweep | three documents, no transaction; requests of one student run concurrently | ledger below the saved projects by no more than what unacknowledged operations cost; a failed deletion is undone; a deletion takes the review along |
| Student accounts, sign-in (`studentController.ts`, `security/sessionLifecycle.ts`) | the account's session version, access code, pending set-up, password; the cookie | code and password sign-in, password choice, check, sign-out, reset, activate | session cookie; record deletion | handlers read the account before a conditional update; answers that are lost or late | the newest session is the only one; a code opens one set-up; a pending account stays disabled |
| OAuth linking (`studentOAuthController.ts`) | login attempts, the binding cookie | start, link, callback | the provider; accounts | late or repeated callbacks | an attempt is consumed once and does not outlive its session |
| Session middleware (`middleware/auth.ts`) | session, student document | check of every request | all handlers | a check made long before the handler's effect | no effect for a student who is gone |
| Project payload reservation (`middleware/projectPayload.ts`) | slots in use, in total and per caller | guard, claim, own, release | project requests | disconnects between any two of these | every slot comes back, once |
| Pond Paddlers rooms (`services/pondPaddlersRooms.ts`, `routes/pondPaddlersRoutes.ts`) | rooms, players, event streams | open, join, start, answer, leave, close, expire, subscribe | server-sent events | expiry, repeated and late answers, slow streams | a question counts once; a race has one winner; no stream is behind its room or outlives it |
| Front-end session store, lifecycle (`front-end/src/stores/app.ts`, `modules/studentSessionLifecycle.ts`) | who the tab shows, `sessionRevision`, the lease | check, sign in, sign out, hide, revalidate | API; the workspace | late answers; pages that are hidden, frozen or restored | an overtaken answer is dropped; no page stays stale or locked |
| Cross-tab logout (`front-end/src/modules/studentSessionBroadcast.ts`, `studentSessionHandoff.ts`) | known, suspended and answered tabs | prepare, started, result, cancel, ended | BroadcastChannel; other tabs | time-outs, late results, frozen, closed and new tabs, lost messages | a sign-out waits for the saves of every tab |
| IDE project recovery and autosave (`front-end/src/components/CodeIdeWorkspace.vue`, `modules/pythonIde.ts`) | projects, pending and unsynced sets, save loop, loads, recovery copy | edit, save, load with reconciliation, create, delete, switch owner, suspend, hand off | API; the session store | every pair of these overlaps; a switch of the owner in between | nothing typed is dropped; nobody sees another's projects; the workspace opens |
| Native releases (`scripts/deploy-native-release.sh`, `scripts/rollback-native-release.sh`) | two links, a unit, a key, the running service | activate, gate, restore, roll back | systemd, file system | a step fails or the script is killed; two operators, without a lock | the report of a script is what runs |
| Rate limits (`security/exactExpiryRateLimitStore.ts`) | counter and timer per key | increment, reset, expire | middleware | none: each call is one synchronous step | a window ends once |
| Classroom analytics, problem reports, administrators | single documents | single updates | none | none | |
| Server start and stop (`server.ts`) | process | migrations, reconciliation, listen | all services | a crash at any step | start-up repairs what a crash left |
| In-browser Python and Java, course content, games | browser-local | presentation, external interpreters | API | a run that is stopped while its frame loads | |
| Heavy-task lock, build scripts, CI (`scripts/`) | a lock directory | take, recover, leave | file system | two processes at one stale lock | one owner |

`PROJECT.json` lists every component with what is modelled of it, and the hazards of the
code line by line with the properties that would catch them.

## 2. The modules

| Module | Models | Level |
|---|---|---|
| `GateContract` | what a per-student gate promises | abstract specification |
| `LeaseGate` | the map, counters and promises of both barriers | implements `GateContract` |
| `LeaseGateProofs` | the gate's invariant, and the refinement | proofs |
| `RecordContract` | what the API promises about one student's records | abstract specification |
| `StudentRecords` | one student's record set: leases, protected writes, account changes, sign-in, deletion, retention sweep, hold, crash | composed system over two gates; implements `RecordContract` |
| `StudentRecordsInvariant` | the inductive invariants of `StudentRecords` | definitions, checked by TLC before they were proved |
| `StudentRecordsProofs` | types and hold; operation of a deletion, purge schedule, deletion and its inventory; the refinement | proofs |
| `ProjectStore`, `ProjectStoreProofs` | one student's projects, reviews, ledger, and the tombstone sweep | component; proofs |
| `TombstoneHold`, `TombstoneHoldProofs` | the tombstones of one project under holds that come and go, operation by operation | composed; proofs |
| `StudentSignIn`, `StudentSignInProofs` | sessions, access codes, passwords, providers of one account in several browsers | component; proofs |
| `ProjectPayload` | the upload slots | component |
| `PondRooms` | rooms, players, streams | component |
| `NativeRelease` | deployments and rollbacks on one host | component |
| `ServiceProofs` | the slots, the races and the streams, the reports of releases | proofs |
| `ProjectSync`, `ProjectSyncProofs` | the workspace of one tab, the student's rows on the server, another device | composed; proofs |
| `TabSessions`, `TabSessionProofs` | several tabs of one browser: who is shown, checks, sign-out | composed; proofs |
| `MC...` | instances for TLC | |

### Conventions

* One `pc` (or `at`) per request. Its value names the database operation the handler is
  waiting for; the action of that name performs the operation and everything the handler
  does until it starts the next one.
* A database operation is acknowledged ("ok"), lost, or applied without its
  acknowledgement ("unacknowledged"); the handler sees the last two as the same error.
  Reads are answered or lost. The number of faults in a behaviour is bounded by
  `MaxFaults` (`MaxLost` and `MaxAmbiguous` in `ProjectStore`), crashes by `MaxCrashes`
  or `MaxRestarts`. The proofs hold for every value of these bounds.
* A request of the browser is three steps: sent, served, answered. In between anything
  else may happen in the tab, in other tabs and on other devices.
* A crash loses every request and all process-local state; what start-up repairs before
  it listens is part of the crash action.
* Document contents are reduced to what a property tells apart: a child collection is the
  set of requests whose row it holds, a text is the stamp of the edit that typed it, a
  deadline is none, ahead or passed.
* Names ending in words such as `Ignored`, `Regardless`, `Keeps`, preceded by a comment
  "Mutant", are wrong variants of the next definition. No behaviour uses them: they exist
  to show that a property notices that bug (`PROJECT.json`, "mutants").

### LeaseGate and GateContract

`entry` is the map's binding for one student; `activeLeases`, `closed` and `waiters` are
the fields of the state objects. `Acquire`, `Release`, `CloseAndWait` and `Reopen` are the
four exported functions, each synchronous up to its `await`; `Continue` is the task that
runs after a resolved promise. The refinement maps the gate to a flag, the set of lease
holders, and the closers that wait or have passed.

### StudentRecords

`student`, `alias`, `rows`, `receipts`, `armed` are the database; `writeLeases`,
`writesClosed`, `mutationLeases`, `mutationsHeld`, `transition` are the process;
`pc`, `work` are the handlers in flight. Requests are grouped by kind in the constants
(`ProjectWrites`, `ReviewWrites`, `AliasCorrections`, `Connects`, `AccountChanges`,
`SignIns`, `Deletions`, `Places`, `Releases`) and pass the same wrappers as in the routes:
authentication, write lease, verified mutation lease (process gate, then durable flag),
handler. A handler that stores a row first looks at the account: the reservation of quota, the
load of the student. `Sweeper` is the hourly retention sweep. `armed` stands for "a tombstone of this
student has a purge deadline".

Abstracted: the session version is part of "authenticated" (StudentSignIn has it); there
is one student; policy reconciliation, the batch size of the sweep and legacy pending
accounts without an operation id are left out; the event trail and the timestamps of the
hold too.

`RecordContract` is what a user of the API may rely on. An account is open, pending or gone,
in that order; it is claimed once, for one operation and one reason, and disabled by the
claim. Rows are stored while there is an account, deleted only under an open receipt of the
operation that claimed it, and the account goes when none is left. Under a hold only the
access, the retention deadline and link attempts change, and no tombstone has a deadline.
The refinement maps the document to a phase (`Phase`), the hold to `Held` (a record that is
gone is not held), the receipts to `Reports` (how often a deletion was tried does not
matter), and the rest to itself. Gates, leases, reads, waits, a write that is lost and a
crash are stutters; a write that is applied without its acknowledgement is the step of the
contract, and the retry that finds it done a stutter. The contract leaves open what the code
leaves open: a request that entered before the fence still stores its row while the account
is pending, and a late mark reopens a completed receipt (finding 1).

### ProjectStore and TombstoneHold

`project` and `review` have one row per import id (both have unique indexes); `quota` is
the ledger. Requests of the student and the teacher run concurrently (the leases are
shared), and each step is one operation of the controller. An update that found its version
gone gives its growth back inside the `try` block (`UndoGrowth`); when that release throws,
the `catch` block releases the same growth again (`CatchGrowth`), which is one too many when
the first was applied. `Restore` and `Remove` are the two operations of a
`Promise.allSettled`, in either order. `PassDeadline` lets a deadline
pass: it is an hour after the deletion, so no deletion is still running then, and a sweep
uses the clock value it began with. `save()` of a review is modelled with Mongoose's
behaviour: by id, and by `__v` when the files are replaced.

`TombstoneHold` takes one project and its review, and adds what `ProjectStore` leaves out:
the durable flag, the mutation gate, and the transitions of the hold with their catch
blocks. `move` is the transition under way, `sweep` and `deletion` are the other two actors.

### StudentSignIn

`account` is the student document, `cookie` what each browser carries, `attempt` the OAuth
attempt its binding cookie fits, `visit` a request under way. A cookie is valid only while
its version is the account's. Each handler that updates the account does so under the
filter of the code; its answer may set the cookie, later than others or never. Left out:
the lock-out counters, teacher identities, username correction, and retention and deletion
(StudentRecords). A session check that was sent with an old set-up cookie and is answered
after the full session was set removes the new cookie (`studentController.ts:478`); the
model has it, nothing but a new sign-in is lost.

### ProjectPayload and PondRooms

An upload passes guard, parser, claim and handler, and its connection can end or be torn
down between any two of them (`Disconnect`, `Tell`: the flag and the listeners are separate
moments). Seats and streams of `PondRooms` are browser windows; a handler is one step, and
looks rooms up the way the code does, closing those whose time has passed first. Names,
lobby pages and the wording of questions are left out; a question is its number.

### ProjectSync and TabSessions

`ProjectSync` has one tab. `ide` is the workspace, `save` the save loop, `loads` the runs
of `loadProjects`, `change` the creation or deletion under way, `exit` a sign-out, `late`
the hand-offs that hide the workspace after an `await` of the browser store, `switches`
the queue of owner switches. The session of the tab is simple there, and every way it can
end is; `TabSessions` has the session with all its checks, and of the workspace only
whether there is unsaved work and whether it is open, being prepared or ready.

A confirmed save, deletion, creation or recovery gives the recovery copy up, waits for the
purge of the browser store, and only then goes on: `save` in "purge", `change` in "created"
or "deleted", a load in "applied" or "created". All but the recovery end by clearing the set
of unsynced projects, whatever came into it during the wait (`SavePurged`, `ChangePurged`,
`LoadPurged`). The purge itself is assumed to succeed. Left out:
anonymous projects and their import, course starters, file operations, projects that
never leave the browser; in `TabSessions` the teacher's session, set-up sessions, the
inactivity timer and heartbeats.

Histories keep known defects from hiding others (section 4 describes them). `exposed`
collects the texts that were in the workspace when it was hidden, reloaded or prepared while
a save, a creation or deletion, or a sign-out was under way (`AtRisk`), or when a late
hand-off hid it; those that a running save passes over because a creation suspends the
workspace (`PassedOver`); those whose mark the end of a creation or deletion wiped
(`Marked`); and those typed while it was being signed out or a project was being created:
there the code drops text, and `EditsSurvive` and `HandoffSavesAll` speak of every other
text. `doubled` marks a workspace that listed a project twice: it was opened with a project
and a row it had become side by side, a creation failed (the code lists its project a second
time, which the model's set cannot show), or a creation ended after a save had made the row.
`strayed` marks a queued switch that passed through a student who had
left while another's workspace was open or loading: from then on the wrong text, or the wrong
student, can win. `overtaken` marks a hand-off that hid the workspace after it had been
prepared for the next owner; in the application the check of the sixty-second lease opens it
again. `reopened` in `TabSessions` marks a workspace that another sign-out's cancellation or
a lease check opened while this sign-out was waiting.

### NativeRelease

A script prepares for minutes and then changes links, unit, key and service step by step;
each step can fail, and a failure runs the restoring steps of the code. A script can be
killed, and systemd restarts the API on its own. No script takes a lock: the links are read
again once, before the first change (`Unmoved`), and several scripts may change the host at
the same time. When another script puts `current` between that check and the report, no line
of either script notices, and the report can be false: TLC shows a deployment that says
"Activated" while the other one's release runs. `ReportsAreTrue` leaves exactly these
scripts out, by the history variable `crossed`, and speaks of every other one, also of those
that activate next to a script which has not put its link yet, or had put it before. The
crossed reports stay a hazard that no property covers. A killed script
can leave `current` on a release that never passed a gate, and the next deployment keeps
that as `previous`; `docs/native-production-deployment.md:164` leaves that to the operator.

## 3. Runs

| Run | Instance | States | Shows |
|---|---|---|---|
| `Services` | five small parts, one per behaviour: 2 browsers with 2 requests under way, 2 codes, versions to 3; 3 uploads of 2 callers; 2 rooms, 2 seats, 2 streams; 2 deployments, 1 rollback, a new revision next to the installed one; tombstones with 3 transitions, 2 faults, 1 restart | 1 074 000 | one browser at a time, codes are used once; slots come back; races and streams; reports of releases; tombstones under holds |
| `StudentRecordsHold` | review write, manual deletion, place, release, sweep; 1 fault, 1 crash | 1 423 000 | a held record is frozen and has no purge deadline; with hold and release the contract is kept |
| `StudentRecordsDeletion` | manual deletion and sweep, 1 fault; with a project write and 1 crash, or with a provider link and an account change or a sign-in | 1 069 000 | no resurrection, complete inventory, true receipts, one operation; only expired accounts are swept; deletion, account changes and sign-in keep the contract (a pending account stays disabled) |
| `StudentRecordsProgress` | alias correction, place, release, sweep; 1 fault, 1 crash; fair | 39 000 | every request ends, also after a restart under a hold; deletions and receipts are finished |
| `StudentRecordsCompletion` | two deletions of one operation, no fault | | finding 1 |
| `StudentRecordsRelease` | one deletion, two placements, one release; 4 faults, no crash | | finding 4 |
| `ProjectStoreQuota` | three of: two creations, an update, a deletion; 3 import ids, room for 2 projects and 3 bytes, payloads of 1 and 2 bytes; 1 lost operation, 1 applied without acknowledgement | 806 000 | ledger exact without failures, never too low with lost operations; an unacknowledged one costs the ledger and the limits at most one project; rollback |
| `ProjectStoreTombstones` | deletion, review creation, review edit, sweep, 1 project; 2 lost operations, 1 crash; fair | 194 000 | tombstones go, reviews first |
| `ProjectStoreOrphan` | deletion and review creation, no fault | | finding 2 |
| `ProjectSync` | two parts: the workspace with 2 students, 2 edits, 2 loads under way and eight budgets of hides, sign-outs, route changes, creations, deletions, edits of another device, lost requests; the gate with 4 requests, 3 closers, 3 objects; fair | 230 000 | nothing typed is dropped; a sign-out waits for the saves; no foreign projects; the workspace opens. The gate's counters, wake-ups and refinement |
| `ProjectSyncSignOut` | 2 edits, one sign-out, no fault | | finding 3 |
| `TabSessions` | 2 tabs, 2 students; eleven budgets of sign-outs, sign-ins, hides, freezes, openings, closings, failures, lost messages, late work; fair | 187 000 | a sign-out waits for every tab; late answers are dropped; tabs recover |

`MCServices` and `MCSyncAndGate` put parts into one instance that share neither state nor
calls: each behaviour belongs to one part, so every part is checked as if it were alone.

Why the bounds are enough for the cases that matter: every race in the list of hazards is
between two or three parties, and each run has all the parties of the hazards it is for,
with a failure at any of their operations and a restart at any point. Three state objects
are the most one student can have alive in `LeaseGate` (one in the map, one or more held by
closures). In `StudentRecordsDeletion` the state constraint `OneKindOfWriter` keeps content
writes, account changes and sign-ins apart (a provider link meets the latter two): the
first touch other fields of the document, the other two race in `StudentSignIn`, and each
of them meets both deletions; the crash is left to the first group. The account properties
of this run are also proved, for all of them together. Uploads run into the limits of both
kinds; two rooms and seats do not run into the limits of rooms and players, whose test is a
comparison at the door, and two streams do run into theirs. In `ProjectStoreQuota` three
import ids meet a limit of two projects, and payloads of one and two bytes (`MaxSize = 2`)
a limit of three: growth, shrinkage, both limits, their boundary and what lies beyond it
occur. The state constraint `FewArrive` lets any three of the four requests arrive, the
races of the controller being between two that a third makes room for; the import ids
differ in their names only, so `QuotaInit` starts with the first ones saved, and the two
creations are symmetric. One lost and one unacknowledged operation are enough to lose the
release of a conflict and the one in the catch block, each at any step. Two lost operations
let a rollback fail, and a sweep fail after a deletion that failed. In `ProjectSync`
creations are not combined with hides or route changes, and route changes not with
sign-outs: together they are too many for TLC (a doubled workspace that is reloaded saves
over itself without end), and the budgets pair every event with those of its hazards. One
of them combines a creation, a deletion, a lost request and a sign-out: a creation fails,
or a save fails during the purge that follows a creation or a deletion. Longer behaviours
(three loads, four edits, up to four of each event, some 10^8 states) were only simulated:
they are where `doubled` and `strayed` were found. Within the run's budgets a creation fails,
and a workspace opens with a project and its row after a hide, a sign-out and the end of the
session; `strayed` does not occur there. What holds for any number of requests, failures and
crashes is what the proofs are for.

`Services`, `ProjectStoreQuota`, `ProjectSync` and `TabSessions` do not check deadlock: there
the system may come to rest (closers through, versions used up, all requests answered, all
events of the budget spent and the page idle). `Services` uses the symmetry of browsers and of
visits; it checks no liveness.

### Fairness

* A request that has begun is worked off: `WF` on its steps. The event loop runs resumed
  tasks, and a database operation is answered or fails (driver time-outs). Nothing forces
  a request to arrive, a record to expire or the process to crash.
* The retention sweep and the tombstone sweep run again and again: their timers are
  started in `server.ts` and rearm themselves; a sweep that fails is followed by the next.
* Time passes: `SF` on `PassDeadline`, because the condition for it is interrupted by
  sweeps, each of which is short against the hour of the deadline.
* In `LeaseGate`, leases are released (the wrappers release in `finally`) and resumed tasks
  run.
* In `ProjectSync`, requests are answered or fail, promises continue, the queue of owner
  switches moves, and a sign-out goes on once it was begun. Nobody has to type, sign out or
  come back to the tab; in particular a load is retried by its own code and not by luck.
* In `TabSessions`, the tabs react to what has arrived (`WF` on all reactions together),
  and per tab the lease timer of a visible page fires and its check is worked off.
  Time-outs count as reactions; a lost message is not sent again.

## 4. Findings

1. `StudentRecordsCompletion`: an overtaken deletion of the same operation puts a
   completed receipt back to `needs-retry` (`services/studentRecordDeletion.ts:301`); the
   receipt is listed in Admin again and its follow-up period begins anew.
   `docs/privacy-operations.md:502` says the period begins once deletion completes. No
   failure is needed.
2. `ProjectStoreOrphan`: `createPythonProjectReview` inserts a review copied from a
   project that `deletePythonProject` removed in the meantime. The copy stays active,
   unreachable by the review handlers and invisible to the sweep, until the student's
   whole record is deleted. `docs/privacy-operations.md:382` describes a deletion that
   takes the review rows along.
3. `ProjectSyncSignOut`: an edit typed while a save is in flight and followed by a
   sign-out is lost. The hand-off suppresses autosaves, the save loop then takes the edit
   up and returns without a request (`CodeIdeWorkspace.vue:3068`), and the workspace says
   that everything is synced.

4. `StudentRecordsRelease`: both gates can admit requests while a deletion is pending. A
   deletion fails after its receipt is durable; a hold is placed, which reopens the write
   gate (`services/studentRecordPreservation.ts:106`); its release is applied but reported
   as an error, and the read of its catch block fails too, so the mutation gate stays shut
   with the flag off. A second placement then fails before it sets the flag, and its catch
   block opens the mutation gate (`:151`) without shutting the write gate as the release's
   catch block does (`:232`). `docs/privacy-operations.md:434` says that release recloses
   the deletion lease gate. It takes four failed operations; with three, TLC finds no
   violation in 2 348 000 states. What is admitted there adds no row: the quota reservation,
   the review's and the link's handlers each look at the account under their leases and
   refuse a disabled or pending one. `InventoryIsComplete` is proved with releases
   (section 5).

Noted on the way and not given a run:

* With an operation that is applied but reported as failed, the ledger counts too little
  and the limits can be passed, until the next start rebuilds it. An insert's reservation is
  given back although the project was saved
  (`controllers/users/pythonProjectController.ts:796`); the growth of an update likewise; and
  a release of a conflicted update that is applied but throws (`:946`) is repeated in the
  catch block (`:966`), where a comment says that an over-counted quota fails closed
  (`:968-969`). All of it happens in `ProjectStoreQuota`, where TLC refutes
  `quota.count >= ActiveCount` and its like; `QuotaFailsClosed` and `LimitsHold` therefore
  allow one project and its bytes for every such operation, and for nothing else.
* A deletion whose scrub of the project is applied but reported as failed answers with an
  error and leaves the tombstone: the operation comes before the blocks that roll back
  (`controllers/users/pythonProjectController.ts:1046`).
* A `review.save()` in flight can write content into a scrubbed tombstone, and an edit
  that succeeded there is overwritten by a rollback. A crash between the scrub of a project
  and the scrub of its review leaves an active review without its project.
* A tab that is hidden while a save is in flight can lose the later edit, and a save that
  fails while the workspace is suspended drops the recovery copy
  (`CodeIdeWorkspace.vue:3188`), although `stores/app.ts:225-226` counts on the workspace
  keeping it. `createProject` overwrites what is typed while it is under way (`:1928`), and
  suspends autosaves, so that a save under way passes over what waits behind it. These are
  what `AtRisk`, `PassedOver` and the texts typed meanwhile excuse (`exposed`).
* After a confirmed deletion (`:3726`) or creation (`:1942`)
  `discardLocalProjectSnapshot` gives the recovery copy up, awaits the purge of the browser
  store and then clears `unsyncedProjectIDs` (`:2581-2583`). A save that fails during that
  await has marked its project and refreshed the copy; the mark is wiped. The next
  acknowledgement, for example of another deletion, gives the copy up, since nothing is
  marked, and a sign-out finds nothing to save, says "Projects safely synced", and the text
  is on no server and in no copy. It takes one failed request. The behaviours are in the
  `ProjectSync` run, where `HandoffSavesAll` excuses the texts whose mark was wiped
  (`Marked`); without that excuse TLC refutes it.
* A `createProject` that fails lists its project twice: `saveNewProject` had listed it
  (`:1907`), and the catch block does again (`:3445`). `doubled` tells.
* When the answer of a creation is lost, the recovery copy keeps the local project; the
  next load lists it beside the row it has become (`modules/pythonIde.ts:4162-4236`), and
  if the recovery write fails too, the workspace opens with both
  (`CodeIdeWorkspace.vue:2928`). A creation that ends after a forced save has turned the
  project into its row does the same. Once the local one is saved, two entries have one
  id, and the older text is saved over the newer. `doubled` excuses this; it takes two
  answers that are lost, refused or too late. The row can also be the recovered copy that
  a retried creation made without learning of it (`modules/pythonIde.ts:4461`): the
  workspace lists that row and the local project, the student edits the row, and the next
  retry replays the same recovered copy in the local project's place. A directed run of
  TLC shows it, with four lost answers and three changes by another device, which is more
  than the run's budgets allow.
* A queued switch of the owner compares student ids (`:8043`), not which switch it is. When a
  student leaves and comes back while switches for others are still queued, the workspace
  opens at the first switch to the student, and the others pass under it: each makes its
  student the active one, and what is typed then goes into the recovery copy, and to the
  server, as that student's work (`:2471`). The server refuses the latter, as the session is
  not that student's. It takes two hides or sign-outs and two students; `strayed` excuses it.
* A suspension that continues late hides a workspace already prepared for the next owner
  (`:7939-7964`), and a preparation that ends after the sign-out was cancelled leaves its
  tab locked (`studentSessionBroadcast.ts:357,407`), both until the next lease check. A
  hidden or revalidating tab ignores the message that the session has ended and learns of
  it by that check.

## 5. Proofs

Assumptions, all on constants: the kinds of requests are disjoint (`KindsAreDisjoint`),
the child collections are among the three of the code (`CollectionsAreKnown`), bounds are
natural numbers, `NoOp` is not a request; for the gate and the uploads, requests are
finitely many and `None` is no object; a race needs at least one answer, and streams are
finitely many; nobody is no student (`StudentsAreReal`); there are codes to give out and an unset password is none that can be
chosen (`SignInAssumption`); a student has finitely many projects, at least one, with names
that nothing else has (`FiniteStore`, `OwnNames`). No fairness is used.

**Types** (`StudentRecordsProofs`). `TypesCorrect` and `TypeOKHolds`: every variable keeps
its type, and a request that has not begun or has ended holds no lease.

**Hold** (`StudentRecordsProofs`). `HeldRecordsAreFrozen` is not inductive: that a
step leaves a held record alone depends on where every other request is. `HoldInvariant`
says why: a step that changes protected content runs under a mutation lease; a transition
that has begun owns the tail, has the gate shut, and has waited for the leases to drain
before it writes; so with the hold durable, the only leases are those of requests that
have yet to read the flag, and those go away without a write. After a crash the gates are
open, and the durable flag alone carries the last conjunct. `HoldIsInvariant` proves it,
one lemma per group of actions, and `HeldRecordsStayFrozen` derives the action property.

**Deletion** (`StudentRecordsProofs`). `NoResurrection` and `CompletedMeansGone`
become inductive with the position of every deletion: from the second fence on the write
gate is shut, after its wait it is empty, a collection that this sweep has emptied is
still empty, and when the document goes, no request is about to store a row. It rests on `HoldInvariant`
(deletions work under a mutation lease, so no hold transition reopens the write gate
under them).

**Inventory** (`StudentRecordsProofs`). `InventoryIsComplete` speaks of the receipt
that an account's operation has made durable, and of every row that is there afterwards.
`InventoryInvariant` says why none is missing: what a deletion has counted covers the rows
from the count on; once the receipt is durable no request is between its lease and its
insert, and none sets out for one, because every handler that stores a row looks at the
account under its write lease first, and a pending account is disabled. That a hold or its
release may reopen the gates (finding 4) does not matter: what the gates let in then is
refused. It rests on the hold's, the deletion's and the account's invariants: the first two
say that nobody inserts while a deletion counts, the third that the receipt belongs to the
operation of the deletion that counted, and that the account stays disabled.

**Account and purge schedule** (`StudentRecordsProofs`). `AccountInvariant` says
that an account is pending exactly when it is under an operation, and then disabled; that
there is a receipt only for the account's operation, with its reason; that a deletion past
its claim works for that operation; and that one about to claim the account has read it in
a version that a rival's claim would have left behind. `PendingAccountsStayDisabled`,
`OperationsAreStable` and `OnlyExpiredAreClaimed` follow. `PurgeInvariant` makes
`HoldSuspendsPurge` inductive: the flag is set only by a transition that has cleared the
deadlines, and deadlines are given only by one that saw the flag clear; that no other
transition comes in between is the tail ownership of `HoldInvariant`.

**Contract** (`StudentRecordsProofs`). `RecordsKeepContract` is the refinement: initial
states map to initial states, and every step of a request, a transition, the sweep or a
crash is a step of `RecordContract` or a stutter. That a step is allowed depends on what
others may have done since the handler last read, so the proof uses all invariants above but
the inventory's (`ContractInvariant`): a stored row has an account and no hold over it
because its request holds the leases; a deletion erases under a receipt because the account
is pending for its operation and the receipt was made durable or read; a claim finds no hold
because it works under a mutation lease; a receipt is settled when the student is gone. Two
facts had to be added to them. A deletion that is about to claim has one of the two reasons,
also after a retry (`WillClaim`). And a student is gone only under a receipt
(`GoneIsReported`): so a deletion that comes late to make its receipt durable finds the one
of its operation there, and a receipt is stored first for a pending account only. The theorem
holds for any requests, failures and crashes, releases included. TLC checks `KeepsContract` in two runs with different requests, and checked
`ContractInvariant` on the same instances. `HoldInvariant` and the action property of
`PendingAccountsStayDisabled` are no longer properties of a run: the first is proved, and
the contract implies the second.

**Tombstones** (`TombstoneHoldProofs`). `HeldTombstonesStay` needs to know who may be at
work: `HoldSafe` says that a sweep or a deletion beyond its check of the flag holds a
lease and that there is no hold; that a transition beyond its wait has the gate shut and
nobody inside; that it sets the flag only where no deadline is left, and gives deadlines
only where the flag is not set. `HoldKeepsTombstones` then follows step by step, for any
number of transitions, failures and restarts. A restart opens the gate, and it is the
flag, read under every lease, that keeps the invariant.

**Gate** (`LeaseGateProofs`). `GateInvariant` says that only the object in the map has
leases and waiters, that its counter is the number of live release closures, and that a
closer on its way has the gate shut in the map, with somebody inside while it waits and
nobody inside once it was woken. It is needed because the refinement speaks of one gate
while the code has several state objects: without it a closure could belong to an object
that a new closer does not see. `GateImplementsContract` then maps every step to a step
of `GateContract`; `LeasesStayCounted`, `NoWakeupIsLost` and `NoEntryIsIdle` follow from
the invariant.

**Uploads** (`ServiceProofs`). `PayloadInvariant` adds to `SlotsAreAccounted` what
each stage of an upload knows of its reservation, so that a slot is given back once:
either by the handler that owns it or by the end of the connection, never by both.
Lemmas say what one reservation more or less does to the cardinalities the counters stand
for. `SlotsStayAccounted` holds for any uploads, callers and limits.

**Rooms** (`ServiceProofs`). `RaceIsFair` is inductive once the question a player holds
is known to be newer than all it has solved, and a finished room to have one player at
the line. `RacesAreFair` holds for any rooms, seats and bounds.
`StreamsStayCurrent` adds that a stream is listed only for a player of a room that still
waits or races, and that an open one is listed and has seen the room's present state: so
every handler that changes a room must publish to all that are listed, and ending a room
or a player's stay must end their streams (`StreamInvariant`).

**Releases** (`ServiceProofs`). `ReportsAreTrue` speaks of the last step of a script, and
what makes it so was done many steps before. `ReleaseInvariant` says of every activating
script that nobody crossed that from the link on, `current` is what it aims at, and what it
replaced is what it would restore (`Knows`); and that from the restart on the API is down or
is the release behind the link and was started since the link was put (`Serving`). The last
part is why a restart, by systemd or by another script, does no harm between two steps, and
why the gate must come after the restart: every step but the put link leaves all this to the
other scripts (`LeavesLink`, `OthersKnow`), and the put link crosses them. `ReportsStayTrue`
holds for any number of deployments, rollbacks and revisions, without a lock.

**Sign-in** (`StudentSignInProofs`). `OneBrowserAtATime` follows from what a cookie's
version means. `SignInInvariant` says that a version of the account is given to one
browser at a time, that an answer under way carries a version no newer than the account's,
and that a cookie with the account's version carries the session the account has
(`SessionsFit`, `SessionsStand`); and that only the last code given out can be unused or
pending, in which case nothing was chosen through it, while what was chosen through it is
the account's password or identity (`CodesFit`). `CodesStayUsedOnce` follows from the
last two.

**Projects** (`ProjectStoreProofs`). `StoreInvariant` says, for every behaviour: a version
of a document names one content (`VersionsTell`: this is what lets a `save()` or a rollback
that matches a version put back what it read), and a sweep deletes projects only after it
found no review due (`ReviewsFirst`). The ledger and one largest project for every operation
applied without its acknowledgement (`Missing`) are at least the active projects and the claims of the requests in flight, equal without failures,
and within the limits (`LedgerCovers`). A claim is what a request has reserved and
may still give back or use, the growth that the catch block will release among it; so the
proof has one fact per step, that it moves ledger, projects and claims together or pays with
a new unacknowledged operation (`Balanced`). And while there is no such operation, a rollback
knows the tombstones it has to undo (`Rolled`). `QuotaCoversProjects` and `LimitsAreKept`
hold for lost and unacknowledged operations and crashes in any number, `SweepKeepsOrder` for
any failures, while `QuotaStaysExact` (without failures) and `FailureIsRolledBack` (one lost
operation) state their conditions in the property.

**Tabs** (`TabSessionProofs`). Every step of a tab is one of few moves on its record and its
checks (`Moves`), lemmas say what the operators on records do to each field, and every
action is mapped to a move (`EveryMove`). `Fresh` makes `NoLateAnswer` inductive: an answer
that counts is the session's of some moment since the tab last changed, and then the tab
shows nobody. `SignOutWaitsForTabs` needs what the messages under way know (`Careful`):
sign-outs have numbers of their own, above those to come, so an old message can belong to
no later sign-out; a message of a sign-out names its student; and a tab that has said
"saved" has nothing of that student unsaved and no open workspace of it, or was reopened
while a sign-out was under way. `LateAnswersAreDropped` and `SignOutsWait` hold for any
number of tabs and students, and sign-outs at once.

**Workspace** (`ProjectSyncProofs`). `NoForeignProjects` is about the queue of owner
switches. `Fits` says that the last switch in the queue leads to the owner, or the queue is
empty and the save engine works for the owner; that a load which still counts was begun for
the owner, has found, planned and merged only that student's projects, and that what it
writes is that student's; the same of a creation under way; that a hand-off which may refresh
the recovery copy is of the student of the workspace; and that between two tasks of the tab an
open or loading workspace is the save engine's. The last part (`EngineFits`) is what makes the
recovery copy safe, since the code files it under the engine's student and not the owner's,
and it is what a stray switch breaks: `FitsUnlessStrayed` is the inductive invariant. Lemmas
say what a switch does to the queue, and which operators leave a workspace its students
(`Steady`); then there is one lemma per action. `NobodySeesForeignProjects` holds for any
students, loads and edits and any number of events.

Only model-checked: all liveness (out of the provers' reach), `TabsRecover` among it; and
three properties of `ProjectSync`. `EditsSurvive` and `HandoffSavesAll` depend on the contents
of the rows, the requests under way and the copy together, and the reconciliation chooses
among rows by content. That the workspace lists a project once (`SyncTypeOK`) was to be
proved next; the attempt to make it inductive found the recovered copy that is replayed
beside itself (section 4). `doubled` now counts that case; but a version names one text
only until a row is deleted and created again, and a recovered copy may be deleted elsewhere
between two writes of one load. So the three properties are claimed for the budgets of the
run, and no theorem states them.

## 6. Not modelled, and why

Nearly all of the repository's lines are course content, its data and normalisation,
pages and games: sequential, without shared state, and nothing a model of states and steps
adds to (`stores/courses`, `pages`, the example programs and images). The Python and Java
runtimes (`modules/pythonIdeRuntime.ts`, `modules/javaIdeRuntime.ts` and what feeds the
editor) are shims around external interpreters that run in workers and frames; the one race
seen there is listed as a hazard. This is why the models map a small share of all lines
while they cover the parts that coordinate.

Also left out: reading handlers (they change nothing); validation, serialization and
rendering; rate limits, analytics, problem reports and administrator accounts (single
atomic updates or single synchronous steps); CI and build scripts; the heavy-task lock of
a development machine (`scripts/classes-family-heavy-task.mjs:161`), whose recovery of a
stale lock is not atomic: two processes that find a dead owner may both go on. Several API processes at once are excluded by the deployment documentation.

## 7. Plan

Done: the gate and the records (hold, deletion, inventory, operation, purge schedule), both
with their contracts,
projects and quota, sign-in, uploads, rooms, releases, tabs and the tombstones under a hold
(checked and proved), `NoForeignProjects` among the properties of the workspace; its others
(checked). What is left, in this order:

1. For the workspace, which projects can share a text or an import id: the statement from
   which `SyncTypeOK` and then `HandoffSavesAll` could be proved for any budget, or where
   they end.
2. The workspace with anonymous projects and their import, and the teacher's session in
   the tabs.
3. The start-up sequence and graceful stop; the sandbox sessions of a Python run;
   `HeavyTaskLock`.
