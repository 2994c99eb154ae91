----------------------------- MODULE TombstoneHold -----------------------------
(* The tombstones of one student while a preservation hold comes and goes: the sweep
   (services/pythonProjectTombstoneLifecycle.ts), the transitions of the hold
   (services/studentRecordPreservation.ts) and a project deletion, which exclude each other
   by the mutation gate and, after a restart has opened the gate, by the durable flag alone.

   ProjectStore has what a deletion and the sweep do to several projects, StudentRecords
   what a hold does to the other requests; here is one project and its review, with the
   schedule and the transitions operation by operation. The student is not deleted.

   A step is one database operation, which may be lost or applied without its
   acknowledgement. Nobody but the transition under way changes the flag, so that the
   branches for a flag that changed under a transition or under a lease are not reached and
   not written down. *)
EXTENDS Naturals
CONSTANTS
    MaxTransitions, MaxFaults, MaxRestarts      \* bounds of a behaviour

VARIABLES
    holdFlag,       \* recordPreservationHoldActive, durable
    rows,           \* [Collections -> row]
    gateShut, inside,       \* preservationHeld; who holds a mutation lease
    sweep, deletion,        \* where the sweep and the deletion are
    move,           \* the transition under way: where it is, what it wants, and whether it
                    \* is in its catch block
    spent           \* transitions, faults and restarts so far
holdVars == <<holdFlag, rows, gateShut, inside, sweep, deletion, move, spent>>

Collections == {"projects", "reviews"}
Saved == [state |-> "active", deadline |-> "none"]
Gone == [state |-> "none", deadline |-> "none"]
NoMove == [at |-> "idle", want |-> TRUE, caught |-> FALSE]

HoldInit ==
    /\ holdFlag = FALSE
    /\ rows = [c \in Collections |-> Saved]
    /\ gateShut = FALSE /\ inside = {}
    /\ sweep = "idle" /\ deletion = "idle" /\ move = NoMove
    /\ spent = [transitions |-> 0, faults |-> 0, restarts |-> 0]

-----------------------------------------------------------------------------
Answers == {"ok"} \cup (IF spent.faults < MaxFaults THEN {"lost"} ELSE {})
Charge(o) == spent' = IF o = "ok" THEN spent ELSE [spent EXCEPT !.faults = @ + 1]

\* updateTombstones on one collection, and updateAllTombstones: both are sent, an error may
\* have spared either.
Reschedule(c, from, to) ==
    IF rows[c].state = "tombstone" /\ rows[c].deadline \in from
    THEN [rows[c] EXCEPT !.deadline = to] ELSE rows[c]
UpdateAll(o, from, to) == \E done \in SUBSET Collections :
    /\ o = "ok" => done = Collections
    /\ rows' = [c \in Collections |-> IF c \in done THEN Reschedule(c, from, to) ELSE rows[c]]
ScheduleAll(o) == UpdateAll(o, {"none"}, "ahead")
SuspendAll(o) == UpdateAll(o, {"ahead", "passed"}, "none")

\* deleteDueTombstones, and deleteOne of a deletion; an error may come after the effect.
Delete(o, c, due) ==
    \/ rows' = IF rows[c].state = "tombstone" /\ rows[c].deadline \in due
               THEN [rows EXCEPT ![c] = Gone] ELSE rows
    \/ o # "ok" /\ UNCHANGED rows

\* acquireVerifiedStudentRecordMutationLease. A client that finds the durable flag leaves,
\* shuts the gate and waits for it to drain.
Enter(client) == ~gateShut /\ inside' = inside \cup {client}
Leave(client) == inside' = inside \ {client}
FindsHold(client) == holdFlag /\ Leave(client) /\ gateShut' = TRUE

\* Mutant: shutting the gate does not wait for those inside.
DrainedAtOnce == TRUE

Drained == inside = {}

-----------------------------------------------------------------------------
\* deletePythonProject, under its lease: the rows are scrubbed and given a deadline, then
\* removed; it may end with an error in between.
DeletionStarts ==
    /\ deletion = "idle" /\ rows["projects"].state = "active"
    /\ Enter("deletion")
    /\ deletion' = "verify"
    /\ UNCHANGED <<holdFlag, rows, gateShut, sweep, move, spent>>
DeletionVerifies == \E o \in Answers :
    /\ deletion = "verify" /\ Charge(o)
    /\ \/ o = "ok" /\ FindsHold("deletion") /\ deletion' = "idle"
       \/ o = "ok" /\ ~holdFlag /\ deletion' = "scrub" /\ UNCHANGED <<gateShut, inside>>
       \/ o # "ok" /\ Leave("deletion") /\ deletion' = "idle" /\ UNCHANGED gateShut
    /\ UNCHANGED <<holdFlag, rows, sweep, move>>
DeletionScrubs == \E c \in Collections :
    /\ deletion = "scrub"
    /\ rows[c].state = "active"
    /\ c = "reviews" => rows["projects"].state # "active"
    /\ rows' = [rows EXCEPT ![c] = [state |-> "tombstone", deadline |-> "ahead"]]
    /\ UNCHANGED <<holdFlag, gateShut, inside, sweep, deletion, move, spent>>
DeletionRemoves == \E c \in Collections, o \in Answers :
    /\ deletion = "scrub"
    /\ \A d \in Collections : rows[d].state # "active"
    /\ rows[c].state = "tombstone"
    /\ Charge(o) /\ Delete(o, c, {"ahead", "none", "passed"})
    /\ UNCHANGED <<holdFlag, gateShut, inside, sweep, deletion, move>>
DeletionEnds ==
    /\ deletion = "scrub"
    /\ deletion' = "ended" /\ Leave("deletion")
    /\ UNCHANGED <<holdFlag, rows, gateShut, sweep, move, spent>>

\* A deadline is an hour away and the sweep takes the time once: one that passes while it
\* runs is seen by the next.
DeadlinePasses(c) ==
    /\ sweep = "idle" /\ deletion # "scrub" /\ rows[c].deadline = "ahead"
    /\ rows' = [rows EXCEPT ![c].deadline = "passed"]
    /\ UNCHANGED <<holdFlag, gateShut, inside, sweep, deletion, move, spent>>

-----------------------------------------------------------------------------
\* reconcileAndPurgeStudentTombstones
SweepStarts ==
    /\ sweep = "idle" /\ \E c \in Collections : rows[c].state = "tombstone"
    /\ \/ Enter("sweep") /\ sweep' = "verify"
       \/ gateShut /\ sweep' = "refused" /\ UNCHANGED inside
    /\ UNCHANGED <<holdFlag, rows, gateShut, deletion, move, spent>>
SweepVerifies == \E o \in Answers :
    /\ sweep = "verify" /\ Charge(o)
    /\ \/ o = "ok" /\ FindsHold("sweep") /\ sweep' = "drain"
       \/ o = "ok" /\ ~holdFlag /\ sweep' = "read" /\ UNCHANGED <<gateShut, inside>>
       \/ o # "ok" /\ Leave("sweep") /\ sweep' = "idle" /\ UNCHANGED gateShut
    /\ UNCHANGED <<holdFlag, rows, deletion, move>>
SweepDrained ==
    /\ sweep = "drain" /\ Drained
    /\ sweep' = "refused"
    /\ UNCHANGED <<holdFlag, rows, gateShut, inside, deletion, move, spent>>

\* Without a lease only a durable hold allows a suspension; it may have ended meanwhile.
SweepRefused == \E o \in Answers :
    /\ sweep = "refused" /\ Charge(o)
    /\ sweep' = IF o = "ok" /\ holdFlag THEN "suspend" ELSE "idle"
    /\ UNCHANGED <<holdFlag, rows, gateShut, inside, deletion, move>>
SweepSuspends == \E o \in Answers :
    /\ sweep = "suspend" /\ Charge(o)
    /\ SuspendAll(o) /\ sweep' = "idle"
    /\ UNCHANGED <<holdFlag, gateShut, inside, deletion, move>>

\* With a lease: the flag again, the schedule, then reviews before projects; an error
\* withdraws the schedule.
SweepWorks == \E o \in Answers :
    /\ sweep \in {"read", "schedule", "reviews", "projects"}
    /\ Charge(o)
    /\ CASE sweep = "read" -> UNCHANGED rows
         [] sweep = "schedule" -> ScheduleAll(o)
         [] OTHER -> Delete(o, sweep, {"passed"})
    /\ IF o = "ok" /\ sweep = "projects" THEN Leave("sweep") /\ sweep' = "idle"
       ELSE /\ UNCHANGED inside
            /\ sweep' = IF o # "ok" THEN "withdraw"
                        ELSE CASE sweep = "read" -> "schedule"
                               [] sweep = "schedule" -> "reviews"
                               [] sweep = "reviews" -> "projects"
    /\ UNCHANGED <<holdFlag, gateShut, deletion, move>>
SweepWithdraws == \E o \in Answers :
    /\ sweep = "withdraw" /\ Charge(o)
    /\ SuspendAll(o) /\ Leave("sweep") /\ sweep' = "idle"
    /\ UNCHANGED <<holdFlag, gateShut, deletion, move>>

-----------------------------------------------------------------------------
\* setStudentRecordPreservationHold: transitions of a student wait for one another.
MoveOn(at) == move' = [move EXCEPT !.at = at]
MoveEnds == move' = NoMove
TransitionBegins(want) ==
    /\ move.at = "idle" /\ spent.transitions < MaxTransitions
    /\ spent' = [spent EXCEPT !.transitions = @ + 1]
    /\ move' = [at |-> "drain", want |-> want, caught |-> FALSE]
    /\ gateShut' = TRUE
    /\ UNCHANGED <<holdFlag, rows, inside, sweep, deletion>>
TransitionDrained ==
    /\ move.at = "drain" /\ Drained
    /\ MoveOn(IF move.want THEN "suspend" ELSE "flag")
    /\ UNCHANGED <<holdFlag, rows, gateShut, inside, sweep, deletion, spent>>

\* The schedule goes before the flag is set.
TransitionSuspends == \E o \in Answers :
    /\ move.at = "suspend" /\ Charge(o)
    /\ SuspendAll(o)
    /\ MoveOn(IF o = "ok" THEN "flag" ELSE "catch")
    /\ UNCHANGED <<holdFlag, gateShut, inside, sweep, deletion>>

\* findOneAndUpdate under the opposite flag; without a match the flag is read.
TransitionFlags == \E o \in Answers :
    /\ move.at = "flag" /\ Charge(o)
    /\ \/ holdFlag' = move.want
       \/ o # "ok" /\ UNCHANGED holdFlag
    /\ IF o # "ok" THEN MoveOn("catch")
       ELSE IF holdFlag = move.want THEN MoveOn("existing")
       ELSE IF move.want THEN MoveEnds ELSE MoveOn("resume")
    /\ UNCHANGED <<rows, gateShut, inside, sweep, deletion>>
TransitionReads == \E o \in Answers :
    /\ move.at = "existing" /\ Charge(o)
    /\ IF o # "ok" THEN MoveOn("catch") ELSE IF move.want THEN MoveEnds ELSE MoveOn("resume")
    /\ UNCHANGED <<holdFlag, rows, gateShut, inside, sweep, deletion>>

\* resumePythonProjectTombstonePurge: the flag is read, the schedule given, the flag read
\* again, and the gate opens; an unreadable flag withdraws the schedule.
Thrown == IF move.caught THEN MoveEnds ELSE MoveOn("catch")
TransitionResumes == \E o \in Answers :
    /\ move.at \in {"resume", "schedule", "recheck"} /\ Charge(o)
    /\ IF move.at = "schedule" THEN ScheduleAll(o) ELSE UNCHANGED rows
    /\ IF o # "ok" THEN UNCHANGED gateShut /\ IF move.at = "schedule" THEN Thrown
                                              ELSE MoveOn("withdraw")
       ELSE CASE move.at = "resume" -> MoveOn("schedule") /\ UNCHANGED gateShut
              [] move.at = "schedule" -> MoveOn("recheck") /\ UNCHANGED gateShut
              [] move.at = "recheck" -> MoveEnds /\ gateShut' = FALSE
    /\ UNCHANGED <<holdFlag, inside, sweep, deletion>>
TransitionWithdraws == \E o \in Answers :
    /\ move.at = "withdraw" /\ Charge(o)
    /\ SuspendAll(o) /\ Thrown
    /\ UNCHANGED <<holdFlag, gateShut, inside, sweep, deletion>>

\* The catch blocks: the gate opens again only if the flag is read and is not set, and the
\* schedule is in place.
TransitionCatches == \E o \in Answers :
    /\ move.at = "catch" /\ Charge(o)
    /\ IF o # "ok" THEN MoveEnds
       ELSE move' = [move EXCEPT !.caught = TRUE, !.at = IF holdFlag THEN "withdraw" ELSE "resume"]
    /\ UNCHANGED <<holdFlag, rows, gateShut, inside, sweep, deletion>>

\* A restart opens the gate and forgets who was inside.
Restarted ==
    /\ spent.restarts < MaxRestarts
    /\ spent' = [spent EXCEPT !.restarts = @ + 1]
    /\ gateShut' = FALSE /\ inside' = {} /\ sweep' = "idle" /\ move' = NoMove
    /\ deletion' = IF deletion = "idle" THEN "idle" ELSE "ended"
    /\ UNCHANGED <<holdFlag, rows>>

HoldNext ==
    \/ DeletionStarts \/ DeletionVerifies \/ DeletionScrubs \/ DeletionRemoves \/ DeletionEnds
    \/ \E c \in Collections : DeadlinePasses(c)
    \/ SweepStarts \/ SweepVerifies \/ SweepDrained \/ SweepRefused \/ SweepSuspends
    \/ SweepWorks \/ SweepWithdraws
    \/ \E want \in BOOLEAN : TransitionBegins(want)
    \/ TransitionDrained \/ TransitionSuspends \/ TransitionFlags \/ TransitionReads
    \/ TransitionResumes \/ TransitionWithdraws \/ TransitionCatches
    \/ Restarted
HoldSpec == HoldInit /\ [][HoldNext]_holdVars

-----------------------------------------------------------------------------
\* While the durable flag is set no tombstone has a deadline and none is created or removed,
\* also by a sweep or a deletion that began before the hold, by a sweep that works on an
\* earlier hold, after lost operations, and after a restart with the hold in place.
HeldTombstonesStay ==
    [][/\ holdFlag' => \A c \in Collections : rows'[c].deadline = "none"
       /\ holdFlag => rows' = rows]_holdVars
=============================================================================
