----------------------------- MODULE ProjectStore -----------------------------
(***************************************************************************)
(* The saved Python projects of one student: the project rows, the         *)
(* teacher's review copy of each, and the quota ledger in the student      *)
(* document, which are three documents that no transaction ties together.  *)
(* Requests of the student and of the teacher run concurrently; the hourly *)
(* purger removes what an interrupted deletion left behind.                *)
(*                                                                         *)
(* A step is one database operation and what the handler does with its     *)
(* outcome.  An operation may be lost, or applied without its              *)
(* acknowledgement; a crash loses every request in flight.                 *)
(*                                                                         *)
(* The record is neither held nor being deleted: those exclusions, and the *)
(* leases that make them, are StudentRecords.  The leases do not exclude   *)
(* project requests from one another.                                      *)
(***************************************************************************)
EXTENDS Integers, FiniteSets

CONSTANTS
    Projects,       \* import ids: at most one row each (unique index)
    Creates, Updates, Deletes,      \* requests of the student
    ReviewCreates, ReviewEdits,     \* requests of the teacher
    Purger,         \* the tombstone sweep
    Sweeps,         \* whether it runs
    Seed,           \* who wrote the initial rows
    Sizes,          \* byte counts of a payload
    MaxSize,        \* the largest of them (MAX_PROJECT_LENGTH bounds the text of a payload)
    MaxProjects,    \* MAX_ACTIVE_PROJECTS
    MaxBytes,       \* MAX_ACTIVE_PROJECT_BYTES
    MaxLost,        \* operations lost in a behaviour
    MaxAmbiguous,   \* operations applied without acknowledgement in a behaviour
    MaxCrashes      \* process crashes in a behaviour

Requests == Creates \cup Updates \cup Deletes \cup ReviewCreates \cup ReviewEdits
Writers  == Requests \cup {Seed}

ASSUME SizesArePositive == Sizes \subseteq Nat \ {0}
ASSUME SizesAreBounded == MaxSize \in Nat /\ \A n \in Sizes : n <= MaxSize
ASSUME LimitsAreNaturals == MaxProjects \in Nat /\ MaxBytes \in Nat
ASSUME FaultBounds == MaxLost \in Nat /\ MaxAmbiguous \in Nat /\ MaxCrashes \in Nat
ASSUME SweepsOrNot == Sweeps \in BOOLEAN
ASSUME FiniteStore == IsFiniteSet(Projects) /\ IsFiniteSet(Requests) /\ Projects # {}
ASSUME OwnNames == Purger \notin Requests /\ Seed \notin Requests

VARIABLES
    project,    \* [Projects -> project row]
    review,     \* [Projects -> review row]: unique per project
    quota,      \* activeProjectCount and activeProjectBytes of the student document
    pc,         \* [Requests \cup {Purger} -> where the handler is]
    local,      \* [Requests -> local variables]
    answer,     \* [Requests -> what the caller was told]
    lost, ambiguous, crashes

store   == <<project, review, quota>>
bounds  == <<lost, ambiguous, crashes>>
vars    == <<store, pc, local, answer, bounds>>

\* `version` is updatedAt, named after the request that wrote it; `by` is deletedAt, named
\* after the request that set it; `deadline` is purgeAt: none, ahead, or passed; `saved` is
\* __v, which only a save() that replaces the files changes.
RowStates == {"none", "active", "tombstone"}
Deadlines == {"none", "ahead", "passed"}
Texts     == {"none", "copy", "edited"}
ProjectRows == [state : RowStates, bytes : 0..MaxSize, version : Writers, by : Writers,
                deadline : Deadlines]
ReviewRows  == [state : RowStates, id : Writers, text : Texts, saved : Writers,
                by : Writers, deadline : Deadlines]
NoProject == [state |-> "none", bytes |-> 0, version |-> Seed, by |-> Seed, deadline |-> "none"]
NoReview  == [state |-> "none", id |-> Seed, text |-> "none", saved |-> Seed, by |-> Seed,
              deadline |-> "none"]
NoLocal(p) == [target |-> p, seen |-> NoProject, new |-> 0, review |-> NoReview,
               duplicate |-> FALSE, todo |-> {}]

Pending ==
    {"ready", "lookup", "reserve", "insert", "giveback", "replay",
     "find", "grow", "write", "undo", "catch", "shrink",
     "tombstone", "scrub", "release", "restore", "remove",
     "review-project", "review-find", "review-insert", "review-load", "review-save"}

TypeOK ==
    /\ project \in [Projects -> ProjectRows]
    /\ review \in [Projects -> ReviewRows]
    /\ \A p \in Projects : \A row \in {project[p], review[p]} :
        row.deadline # "none" => row.state = "tombstone"
    /\ quota \in [count : Nat, bytes : Nat]
    /\ \A r \in Requests : pc[r] \in Pending \cup {"done"}
    /\ pc[Purger] \in {"idle", "reviews", "projects", "suspend"}
    /\ \A r \in Requests : local[r].target \in Projects /\ local[r].new \in Sizes \cup {0}
    /\ answer \in [Requests -> {"none", "success", "error"}]

-----------------------------------------------------------------------------
Active(p) == project[p].state = "active"
ActiveProjects == {p \in Projects : Active(p)}

ActiveCount == Cardinality(ActiveProjects)

\* The sum of the values of f, whose units are counted one by one.
Total(f) == Cardinality(UNION {{x} \X (1..f[x]) : x \in DOMAIN f})
ActiveBytes == Total([p \in Projects |-> IF Active(p) THEN project[p].bytes ELSE 0])

\* Each project is new or saved, reviewed or not, within the limits.
Init ==
    /\ project \in [Projects -> {NoProject}
         \cup {[NoProject EXCEPT !.state = "active", !.bytes = n] : n \in Sizes}]
    /\ ActiveCount <= MaxProjects /\ ActiveBytes <= MaxBytes
    /\ review \in [Projects -> {NoReview, [NoReview EXCEPT !.state = "active", !.text = "copy"]}]
    /\ \A p \in Projects : review[p].state = "active" => Active(p)
    /\ quota = [count |-> ActiveCount, bytes |-> ActiveBytes]
    /\ pc = [r \in Requests \cup {Purger} |-> IF r = Purger THEN "idle" ELSE "ready"]
    /\ local = [r \in Requests |-> NoLocal(CHOOSE p \in Projects : TRUE)]
    /\ answer = [r \in Requests |-> "none"]
    /\ lost = 0 /\ ambiguous = 0 /\ crashes = 0

\* How an operation may end; the handler sees "lost" and "unacknowledged" as one error.
ReadOutcomes == {"ok"} \cup (IF lost < MaxLost THEN {"lost"} ELSE {})
Outcomes == ReadOutcomes \cup (IF ambiguous < MaxAmbiguous THEN {"unacknowledged"} ELSE {})
Spend(o) ==
    /\ lost' = IF o = "lost" THEN lost + 1 ELSE lost
    /\ ambiguous' = IF o = "unacknowledged" THEN ambiguous + 1 ELSE ambiguous
    /\ UNCHANGED crashes

Go(r, where) == pc' = [pc EXCEPT ![r] = where] /\ UNCHANGED answer
End(r, told) == pc' = [pc EXCEPT ![r] = "done"] /\ answer' = [answer EXCEPT ![r] = told]
GoIf(r, condition, where) == IF condition THEN Go(r, where) ELSE End(r, "error")

\* The row of p becomes `new` if the filter matched and the operation was not lost.
PutProject(p, o, matched, new) ==
    project' = IF matched /\ o # "lost" THEN [project EXCEPT ![p] = new] ELSE project
PutReview(p, o, matched, new) ==
    review' = IF matched /\ o # "lost" THEN [review EXCEPT ![p] = new] ELSE review

-----------------------------------------------------------------------------
(* The quota ledger.                                                       *)

\* Mutant: the limit is compared with the totals before the addition.
QuotaFitsBefore(count, bytes) == quota.count < MaxProjects /\ quota.bytes < MaxBytes

QuotaFits(count, bytes) ==
    /\ quota.count + count <= MaxProjects
    /\ quota.bytes + bytes <= MaxBytes

QuotaCanGive(count, bytes) == quota.count >= count /\ quota.bytes >= bytes

\* reserveStudentProjectQuota / releaseStudentProjectQuota: one conditional increment; the
\* handler goes on at `where` if it was acknowledged and matched.
Reserve(o, count, bytes) ==
    quota' = IF QuotaFits(count, bytes) /\ o # "lost"
             THEN [count |-> quota.count + count, bytes |-> quota.bytes + bytes] ELSE quota
Release(o, count, bytes) ==
    quota' = IF QuotaCanGive(count, bytes) /\ o # "lost"
             THEN [count |-> quota.count - count, bytes |-> quota.bytes - bytes] ELSE quota

-----------------------------------------------------------------------------
(* createPythonProject.                                                    *)

BeginCreate(r) ==
    /\ pc[r] = "ready"
    /\ r \in Creates
    /\ \E p \in Projects, n \in Sizes :
        local' = [local EXCEPT ![r] = [NoLocal(p) EXCEPT !.new = n]]
    /\ Go(r, "lookup")
    /\ UNCHANGED <<store, bounds>>

\* A retry of an import that is already saved is answered with the saved project.
LookUpImport(r) ==
    /\ pc[r] = "lookup"
    /\ \E o \in ReadOutcomes :
        /\ Spend(o)
        /\ IF o = "ok" /\ Active(local[r].target) THEN End(r, "success")
           ELSE GoIf(r, o = "ok" /\ project[local[r].target].state = "none", "reserve")
    /\ UNCHANGED <<store, local>>

ReserveForCreate(r) ==
    /\ pc[r] = "reserve"
    /\ \E o \in Outcomes :
        /\ Spend(o)
        /\ Reserve(o, 1, local[r].new)
        /\ GoIf(r, o = "ok" /\ QuotaFits(1, local[r].new), "insert")
    /\ UNCHANGED <<project, review, local>>

\* Mutant: the duplicate import is answered before the reservation is given back.
AfterInsertErrorReplays(o) == IF o = "ok" THEN "replay" ELSE "giveback"

AfterInsertError(o) == "giveback"

\* The unique index refuses a second row of the same import id, a tombstone included; any
\* error gives the reservation back.
InsertProject(r) ==
    /\ pc[r] = "insert"
    /\ LET p     == local[r].target
           fresh == project[p].state = "none"
       IN \E o \in Outcomes :
            /\ Spend(o)
            /\ PutProject(p, o, fresh, [NoProject EXCEPT !.state = "active",
                                          !.bytes = local[r].new, !.version = r])
            /\ IF o = "ok" /\ fresh THEN End(r, "success") ELSE Go(r, AfterInsertError(o))
            /\ local' = [local EXCEPT ![r].duplicate = (o = "ok" /\ ~fresh)]
    /\ UNCHANGED <<review, quota>>

GiveBack(r) ==
    /\ pc[r] = "giveback"
    /\ \E o \in Outcomes :
        /\ Spend(o)
        /\ Release(o, 1, local[r].new)
        /\ GoIf(r, o = "ok" /\ QuotaCanGive(1, local[r].new) /\ local[r].duplicate, "replay")
    /\ UNCHANGED <<project, review, local>>

ReplayImport(r) ==
    /\ pc[r] = "replay"
    /\ \E o \in ReadOutcomes :
        /\ Spend(o)
        /\ End(r, IF o = "ok" /\ Active(local[r].target) THEN "success" ELSE "error")
    /\ UNCHANGED <<store, local>>

-----------------------------------------------------------------------------
(* updatePythonProject.                                                    *)

Growth(r) == local[r].new - local[r].seen.bytes

\* findOwnedProject and the comparison that follows: an active project, whose updatedAt is
\* the one the caller saw (a stale caller is told so and changes nothing).
Find(r, p, n, where) ==
    /\ pc[r] = "ready"
    /\ \E o \in ReadOutcomes, current \in BOOLEAN :
        /\ Spend(o)
        /\ GoIf(r, o = "ok" /\ Active(p) /\ current, where)
    /\ local' = [local EXCEPT ![r] = [NoLocal(p) EXCEPT !.seen = project[p], !.new = n]]
    /\ UNCHANGED store

FindForUpdate(r) ==
    \E p \in Projects, n \in Sizes :
        Find(r, p, n, IF n > project[p].bytes THEN "grow" ELSE "write")

ReserveGrowth(r) ==
    /\ pc[r] = "grow"
    /\ \E o \in Outcomes :
        /\ Spend(o)
        /\ Reserve(o, 0, Growth(r))
        /\ GoIf(r, o = "ok" /\ QuotaFits(0, Growth(r)), "write")
    /\ UNCHANGED <<project, review, local>>

\* Mutant: the write is not bound to the version that was read.
UnchangedSinceActive(r) == Active(local[r].target)

\* The filter of both writes: the row is active and still the one that was read.
UnchangedSince(r) ==
    /\ Active(local[r].target)
    /\ project[local[r].target].version = local[r].seen.version

WriteProject(r) ==
    /\ pc[r] = "write"
    /\ \E o \in Outcomes :
        /\ Spend(o)
        /\ PutProject(local[r].target, o, UnchangedSince(r),
             [project[local[r].target] EXCEPT !.bytes = local[r].new, !.version = r])
        /\ IF o = "ok" /\ UnchangedSince(r)
           THEN IF Growth(r) < 0 THEN Go(r, "shrink") ELSE End(r, "success")
           ELSE GoIf(r, Growth(r) > 0, IF o = "ok" THEN "undo" ELSE "catch")
    /\ UNCHANGED <<review, quota, local>>

\* Mutant: the release of a conflict falls through to the catch block.
AfterUndoReleases(o) == "catch"

\* The release of a conflict runs inside the try block: its error reaches the catch block,
\* which releases the same reservation again.
AfterUndo(o) == IF o = "ok" THEN "done" ELSE "catch"

\* A write that did not match gives its reservation back.
UndoGrowth(r) ==
    /\ pc[r] = "undo"
    /\ \E o \in Outcomes :
        /\ Spend(o)
        /\ Release(o, 0, Growth(r))
        /\ IF AfterUndo(o) = "done" THEN End(r, "error") ELSE Go(r, AfterUndo(o))
    /\ UNCHANGED <<project, review, local>>

\* The catch block, after an error of the write or of that release; its own error is swallowed.
CatchGrowth(r) ==
    /\ pc[r] = "catch"
    /\ \E o \in Outcomes : Spend(o) /\ Release(o, 0, Growth(r))
    /\ End(r, "error")
    /\ UNCHANGED <<project, review, local>>

ReleaseShrinkage(r) ==
    /\ pc[r] = "shrink"
    /\ \E o \in Outcomes :
        /\ Spend(o)
        /\ Release(o, 0, -Growth(r))
        /\ End(r, IF o = "ok" /\ QuotaCanGive(0, -Growth(r)) THEN "success" ELSE "error")
    /\ UNCHANGED <<project, review, local>>

-----------------------------------------------------------------------------
(* deletePythonProject.                                                    *)

FindForDelete(r) == \E p \in Projects : Find(r, p, 0, "tombstone")

\* The project is scrubbed and marked first; from here on the request owns the tombstone.
ScrubProject(r) ==
    /\ pc[r] = "tombstone"
    /\ \E o \in Outcomes :
        /\ Spend(o)
        /\ PutProject(local[r].target, o, UnchangedSince(r),
             [state |-> "tombstone", bytes |-> 0, version |-> r, by |-> r, deadline |-> "ahead"])
        /\ GoIf(r, o = "ok" /\ UnchangedSince(r), "scrub")
    /\ UNCHANGED <<review, quota, local>>

\* Mutant: a rollback forgets the review.
RollBackProject(r) == {"project"}

\* What a rollback has to put back.
RollBack(r) == IF local[r].review.state = "none" THEN {"project"} ELSE {"project", "review"}

\* Then the review, whose earlier content is kept in case of a rollback; after an error only
\* the project is rolled back.
ScrubReview(r) ==
    /\ pc[r] = "scrub"
    /\ LET p       == local[r].target
           matched == review[p].state = "active"
       IN \E o \in Outcomes :
            /\ Spend(o)
            /\ PutReview(p, o, matched,
                 [review[p] EXCEPT !.state = "tombstone", !.text = "none", !.by = r,
                                   !.deadline = "ahead"])
            /\ Go(r, IF o = "ok" THEN "release" ELSE "restore")
            /\ local' = [local EXCEPT
                 ![r].review = IF o = "ok" /\ matched THEN review[p] ELSE NoReview,
                 ![r].todo = IF o = "ok" THEN {} ELSE {"project"}]
    /\ UNCHANGED <<project, quota>>

\* Then the quota is released; whatever goes wrong rolls both rows back.
ReleaseDeleted(r) ==
    /\ pc[r] = "release"
    /\ LET bytes == local[r].seen.bytes
       IN \E o \in Outcomes :
            /\ Spend(o)
            /\ Release(o, 1, bytes)
            /\ LET done == o = "ok" /\ QuotaCanGive(1, bytes)
               IN /\ Go(r, IF done THEN "remove" ELSE "restore")
                  /\ local' = [local EXCEPT ![r].todo =
                                 IF done THEN {"project", "review"} ELSE RollBack(r)]
    /\ UNCHANGED <<project, review>>

OwnsProject(r) == project[local[r].target].state = "tombstone" /\ project[local[r].target].by = r
OwnsReview(r)  == review[local[r].target].state = "tombstone" /\ review[local[r].target].by = r

\* restoreDeleteTombstones: two updates in flight together, on the rows this request scrubbed.
Restore(r, row) ==
    /\ pc[r] = "restore"
    /\ row \in local[r].todo
    /\ \E o \in Outcomes :
        /\ Spend(o)
        /\ PutProject(local[r].target, o, row = "project" /\ OwnsProject(r), local[r].seen)
        /\ PutReview(local[r].target, o, row = "review" /\ OwnsReview(r),
             [local[r].review EXCEPT !.saved = review[local[r].target].saved])
    /\ local' = [local EXCEPT ![r].todo = @ \ {row}]
    /\ IF local[r].todo = {row} THEN End(r, "error") ELSE Go(r, "restore")
    /\ UNCHANGED quota

\* The two final deletes, in flight together; their failure leaves tombstones to the purger.
Remove(r, row) ==
    /\ pc[r] = "remove"
    /\ row \in local[r].todo
    /\ \E o \in Outcomes :
        /\ Spend(o)
        /\ PutProject(local[r].target, o, row = "project" /\ OwnsProject(r), NoProject)
        /\ PutReview(local[r].target, o, row = "review" /\ OwnsReview(r), NoReview)
    /\ local' = [local EXCEPT ![r].todo = @ \ {row}]
    /\ IF local[r].todo = {row} THEN End(r, "success") ELSE Go(r, "remove")
    /\ UNCHANGED quota

-----------------------------------------------------------------------------
(* createPythonProjectReview and updatePythonProjectReview.                *)

\* Both begin by reading an active project of the student.
FindReviewedProject(r) ==
    /\ pc[r] = "ready"
    /\ r \in ReviewCreates \cup ReviewEdits
    /\ \E p \in Projects, o \in ReadOutcomes :
        /\ Spend(o)
        /\ local' = [local EXCEPT ![r] = [NoLocal(p) EXCEPT !.seen = project[p]]]
        /\ GoIf(r, o = "ok" /\ Active(p),
                IF r \in ReviewCreates THEN "review-find" ELSE "review-load")
    /\ UNCHANGED store

FindReview(r) ==
    /\ pc[r] = "review-find"
    /\ \E o \in ReadOutcomes :
        /\ Spend(o)
        /\ IF o = "ok" /\ review[local[r].target].state = "active"
           THEN End(r, "success")
           ELSE GoIf(r, o = "ok", "review-insert")
    /\ UNCHANGED <<store, local>>

\* The copy is made from the project that was read; the unique index refuses a second row.
InsertReview(r) ==
    /\ pc[r] = "review-insert"
    /\ LET p     == local[r].target
           fresh == review[p].state = "none"
       IN \E o \in Outcomes :
            /\ Spend(o)
            /\ PutReview(p, o, fresh, [NoReview EXCEPT !.state = "active", !.id = r,
                                                       !.text = "copy"])
            /\ End(r, IF o = "ok" /\ fresh THEN "success" ELSE "error")
    /\ UNCHANGED <<project, quota, local>>

LoadReview(r) ==
    /\ pc[r] = "review-load"
    /\ LET row == review[local[r].target]
       IN \E o \in ReadOutcomes :
            /\ Spend(o)
            /\ GoIf(r, o = "ok" /\ row.state = "active", "review-save")
            /\ local' = [local EXCEPT ![r].review = row]
    /\ UNCHANGED store

\* save() writes the changed fields of the document with that id, tombstone or not; one that
\* replaces the files is refused when another has done so since the document was read.
SaveReview(r) ==
    /\ pc[r] = "review-save"
    /\ LET row == review[local[r].target]
       IN \E o \in Outcomes, files \in BOOLEAN :
            LET matched == /\ row.state # "none" /\ row.id = local[r].review.id
                           /\ files => row.saved = local[r].review.saved
            IN /\ Spend(o)
               /\ PutReview(local[r].target, o, matched,
                    [row EXCEPT !.text = "edited", !.saved = IF files THEN r ELSE @])
               /\ End(r, IF o = "ok" /\ matched THEN "success" ELSE "error")
    /\ UNCHANGED <<project, quota, local>>

-----------------------------------------------------------------------------
(* enforcePythonProjectTombstoneLifecycle, for this student.               *)

InFlight(r) == r \in Requests /\ pc[r] \notin {"ready", "done"}

\* The deadline of a project's tombstones passes.  It is an hour away, and `now` is taken
\* once per sweep: no deletion is still running when its deadline passes, and a deadline
\* that passes during a sweep is not seen by it.
PassDeadline(p) ==
    /\ pc[Purger] = "idle"
    /\ {project[p].deadline, review[p].deadline} \cap {"ahead"} # {}
    /\ project[p].deadline = "ahead" => ~InFlight(project[p].by)
    /\ review[p].deadline = "ahead" => ~InFlight(review[p].by)
    /\ project' = [project EXCEPT ![p].deadline = IF @ = "ahead" THEN "passed" ELSE @]
    /\ review' = [review EXCEPT ![p].deadline = IF @ = "ahead" THEN "passed" ELSE @]
    /\ UNCHANGED <<quota, pc, local, answer, bounds>>

WithDeadline(rows, from, to) ==
    [p \in Projects |->
        IF rows[p].state = "tombstone" /\ rows[p].deadline \in from
        THEN [rows[p] EXCEPT !.deadline = to] ELSE rows[p]]

\* One update on each collection, in flight together: an error may have spared either.
OnBoth(o, from, to) ==
    /\ project' \in {WithDeadline(project, from, to)} \cup (IF o = "ok" THEN {} ELSE {project})
    /\ review'  \in {WithDeadline(review, from, to)} \cup (IF o = "ok" THEN {} ELSE {review})

StepPurger(where) == pc' = [pc EXCEPT ![Purger] = where] /\ UNCHANGED answer

\* Mutant: a withdrawn deadline is never given again.
UnscheduledNever == {}

Unscheduled == {"none"}

\* Tombstones without a deadline get a fresh one.
Schedule ==
    /\ pc[Purger] = "idle"
    /\ \E o \in ReadOutcomes :
        /\ Spend(o)
        /\ OnBoth(o, Unscheduled, "ahead")
        /\ StepPurger(IF o = "ok" THEN "reviews" ELSE "suspend")
    /\ UNCHANGED <<quota, local>>

IsDue(row) == row.state = "tombstone" /\ row.deadline = "passed"

\* Mutant: the sweep goes on to the projects although the reviews could not be purged.
AfterReviewsRegardless(o) == "projects"

AfterReviews(o) == IF o = "ok" THEN "projects" ELSE "suspend"

\* Reviews go first.
PurgeReviews ==
    /\ pc[Purger] = "reviews"
    /\ \E o \in Outcomes :
        /\ Spend(o)
        /\ review' = [p \in Projects |->
                        IF IsDue(review[p]) /\ o # "lost" THEN NoReview ELSE review[p]]
        /\ StepPurger(AfterReviews(o))
    /\ UNCHANGED <<project, quota, local>>

PurgeProjects ==
    /\ pc[Purger] = "projects"
    /\ \E o \in Outcomes :
        /\ Spend(o)
        /\ project' = [p \in Projects |->
                         IF IsDue(project[p]) /\ o # "lost" THEN NoProject ELSE project[p]]
        /\ StepPurger(IF o = "ok" THEN "idle" ELSE "suspend")
    /\ UNCHANGED <<review, quota, local>>

\* After an error every deadline of the student is withdrawn until the next sweep.
Suspend ==
    /\ pc[Purger] = "suspend"
    /\ \E o \in ReadOutcomes :
        /\ Spend(o)
        /\ OnBoth(o, {"ahead", "passed"}, "none")
    /\ StepPurger("idle")
    /\ UNCHANGED <<quota, local>>

-----------------------------------------------------------------------------
\* The process dies; on its restart the quota ledger is rebuilt from the active projects
\* before the first request is accepted.  (The sweep that start-up runs is the next one.)
Crash ==
    /\ crashes < MaxCrashes
    /\ crashes' = crashes + 1
    /\ quota' = [count |-> ActiveCount, bytes |-> ActiveBytes]
    /\ pc' = [r \in Requests \cup {Purger} |->
                IF r = Purger THEN "idle" ELSE IF pc[r] = "ready" THEN "ready" ELSE "done"]
    /\ UNCHANGED <<project, review, local, answer, lost, ambiguous>>

CreateStep(r) ==
    \/ BeginCreate(r) \/ LookUpImport(r) \/ ReserveForCreate(r) \/ InsertProject(r)
    \/ GiveBack(r) \/ ReplayImport(r)
UpdateStep(r) ==
    \/ FindForUpdate(r) \/ ReserveGrowth(r) \/ WriteProject(r)
    \/ UndoGrowth(r) \/ CatchGrowth(r) \/ ReleaseShrinkage(r)
DeleteStep(r) ==
    \/ FindForDelete(r) \/ ScrubProject(r) \/ ScrubReview(r) \/ ReleaseDeleted(r)
    \/ \E row \in {"project", "review"} : Restore(r, row) \/ Remove(r, row)
ReviewStep(r) ==
    FindReviewedProject(r) \/ FindReview(r) \/ InsertReview(r) \/ LoadReview(r) \/ SaveReview(r)
RequestStep(r) ==
    \/ r \in Creates /\ CreateStep(r)
    \/ r \in Updates /\ UpdateStep(r)
    \/ r \in Deletes /\ DeleteStep(r)
    \/ r \in ReviewCreates \cup ReviewEdits /\ ReviewStep(r)
PurgerStep == Schedule \/ PurgeReviews \/ PurgeProjects \/ Suspend
Sweep == Sweeps /\ (PurgerStep \/ \E p \in Projects : PassDeadline(p))

Next ==
    \/ \E r \in Requests : RequestStep(r)
    \/ Sweep
    \/ Crash

Spec == Init /\ [][Next]_vars

\* Fairness: a request that has arrived is worked off, the sweep's timer keeps firing, and
\* time passes.
Fairness ==
    /\ \A r \in Requests : WF_vars(pc[r] # "ready" /\ RequestStep(r))
    /\ WF_vars(Sweeps /\ PurgerStep)
    /\ \A p \in Projects : SF_vars(Sweeps /\ PassDeadline(p))

FairSpec == Spec /\ Fairness

-----------------------------------------------------------------------------
(* Properties.                                                             *)

\* What the requests in flight have reserved, or have yet to release or to use again.
Claim(r) ==
    CASE pc[r] \in {"insert", "giveback"} -> [count |-> 1, bytes |-> local[r].new]
      [] pc[r] \in {"write", "undo", "catch"} /\ r \in Updates /\ Growth(r) > 0
           -> [count |-> 0, bytes |-> Growth(r)]
      [] pc[r] = "shrink" -> [count |-> 0, bytes |-> -Growth(r)]
      [] pc[r] \in {"scrub", "release"} \/ (pc[r] = "restore" /\ "project" \in local[r].todo)
           -> [count |-> 1, bytes |-> local[r].seen.bytes]
      [] OTHER -> [count |-> 0, bytes |-> 0]

\* Without failures the ledger is exact: it counts the active projects and what the requests
\* in flight have claimed, whatever they raced with, duplicate imports and lost updates
\* included.
QuotaIsExact ==
    lost = 0 /\ ambiguous = 0 =>
        /\ quota.count = ActiveCount + Total([r \in Requests |-> Claim(r).count])
        /\ quota.bytes = ActiveBytes + Total([r \in Requests |-> Claim(r).bytes])

\* "An over-counted quota fails closed": a lost operation or a crash makes the ledger count
\* too much, never too little.  An operation applied without its acknowledgement does make it
\* count too little: the handler gives a reservation back although the project was saved, or
\* twice.  Each such operation costs the ledger one project and its bytes, and no more,
\* whatever the rollback that follows it meets.
QuotaFailsClosed ==
    /\ quota.count + ambiguous >= ActiveCount
    /\ quota.bytes + ambiguous * MaxSize >= ActiveBytes

\* "Each student can save up to 25 active projects or 32 MiB total": past the limits there is
\* at most one project for every operation applied without its acknowledgement.
LimitsHold ==
    /\ ActiveCount <= MaxProjects + ambiguous
    /\ ActiveBytes <= MaxBytes + ambiguous * MaxSize

\* A single lost operation is rolled back: a project is a tombstone only while its deletion is
\* running or after it was reported done; one whose deletion was reported failed is there
\* again, and so is its review.  (A scrub of the project that is applied and reported as
\* failed is not: nothing catches it.)
OneFailureIsRolledBack ==
    lost <= 1 /\ ambiguous = 0 /\ crashes = 0 =>
        \A p \in Projects, r \in Deletes :
            pc[r] = "done" /\ answer[r] = "error" =>
                /\ ~(project[p].state = "tombstone" /\ project[p].by = r)
                /\ ~(review[p].state = "tombstone" /\ review[p].by = r)

\* "Reviews go first so a partial failure cannot remove a project while leaving its
\* same-deadline review behind."
ReviewsGoFirst ==
    [][\A p \in Projects :
        pc[Purger] = "projects" /\ pc'[Purger] # "projects" /\ IsDue(project[p])
            => ~IsDue(review[p]) \/ project' = project]_vars

\* A tombstone does not stay: its request removes or restores it, or the sweep purges it.
TombstonesGo ==
    \A p \in Projects :
        /\ project[p].state = "tombstone" ~> project[p].state # "tombstone"
        /\ review[p].state = "tombstone" ~> review[p].state # "tombstone"

\* A deletion "leaves only scrubbed tombstones": when one has been reported done and nobody
\* is working any more, what is left of the review of a project that is gone is a tombstone
\* without content.
DeletionTakesTheReview ==
    (\A r \in Requests : ~InFlight(r)) =>
        \A r \in Deletes : answer[r] = "success" /\ ~Active(local[r].target)
            => review[local[r].target].state # "active" /\ review[local[r].target].text = "none"
=============================================================================
