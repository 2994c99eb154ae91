-------------------------- MODULE TombstoneHoldProofs --------------------------
(* That a hold leaves the tombstones of its student alone, for any number of transitions,
   failures and restarts.  The flag alone does not show it: the invariant says who may be
   at work while a transition is, and that a transition sets the flag only after every
   deadline has been taken away. *)
EXTENDS TombstoneHold, TLAPS

Places == {"idle", "drain", "suspend", "flag", "existing", "resume", "schedule", "recheck",
           "withdraw", "catch"}
Row == [state : {"none", "active", "tombstone"}, deadline : {"none", "ahead", "passed"}]

HoldTypes ==
    /\ holdFlag \in BOOLEAN /\ gateShut \in BOOLEAN
    /\ rows \in [Collections -> Row]
    /\ inside \subseteq {"sweep", "deletion"}
    /\ move \in [at : Places, want : BOOLEAN, caught : BOOLEAN]

NoDeadlines == \A c \in Collections : rows[c].deadline = "none"
TombstonesOnly == \A c \in Collections : rows[c].deadline # "none" => rows[c].state = "tombstone"

\* Who works on the rows holds a lease, and has seen that there is no hold.
SweepAtWork == sweep \in {"read", "schedule", "reviews", "projects", "withdraw"}
Working ==
    /\ sweep = "verify" \/ SweepAtWork => "sweep" \in inside
    /\ deletion \in {"verify", "scrub"} => "deletion" \in inside
    /\ SweepAtWork \/ deletion = "scrub" => ~holdFlag

\* A transition works behind a shut gate with nobody inside, sets the flag only where no
\* deadline is left, and gives deadlines only where no hold is.
Moving ==
    /\ move.at # "idle" => gateShut
    /\ move.at \notin {"idle", "drain"} => inside = {}
    /\ move.at = "flag" /\ move.want => NoDeadlines
    /\ move.at = "existing" => holdFlag = move.want
    /\ move.at \in {"resume", "schedule", "recheck"} => ~holdFlag

HoldSafe == HoldTypes /\ TombstonesOnly /\ (holdFlag => NoDeadlines) /\ Working /\ Moving

USE DEF Collections

-----------------------------------------------------------------------------
(* What the updates do to the rows.                                         *)

LEMMA UpdatesKeepTypes ==
    ASSUME NEW o, NEW from, NEW to \in {"none", "ahead", "passed"},
           rows \in [Collections -> Row], TombstonesOnly, UpdateAll(o, from, to)
    PROVE  rows' \in [Collections -> Row] /\ TombstonesOnly'
<1>1. PICK done \in SUBSET Collections :
        rows' = [c \in Collections |-> IF c \in done THEN Reschedule(c, from, to) ELSE rows[c]]
  BY DEF UpdateAll
<1>2. ASSUME NEW c \in Collections
      PROVE  /\ Reschedule(c, from, to) \in Row
             /\ Reschedule(c, from, to).deadline # "none"
                  => Reschedule(c, from, to).state = "tombstone"
  BY DEF Reschedule, Row, TombstonesOnly
<1> QED BY <1>1, <1>2 DEF TombstonesOnly

\* Where no deadline is, taking deadlines away changes nothing.
LEMMA SuspensionIsIdle ==
    ASSUME NEW o, rows \in [Collections -> Row], NoDeadlines, SuspendAll(o)
    PROVE  rows' = rows
<1>1. PICK done \in SUBSET Collections :
        rows' = [c \in Collections |-> IF c \in done
                   THEN Reschedule(c, {"ahead", "passed"}, "none") ELSE rows[c]]
  BY DEF SuspendAll, UpdateAll
<1> QED BY <1>1 DEF Reschedule, NoDeadlines

LEMMA SuspensionTakesAll ==
    ASSUME rows \in [Collections -> Row], TombstonesOnly, SuspendAll("ok")
    PROVE  NoDeadlines'
<1>1. rows' = [c \in Collections |-> Reschedule(c, {"ahead", "passed"}, "none")]
  BY DEF SuspendAll, UpdateAll
<1>2. \A c \in Collections : Reschedule(c, {"ahead", "passed"}, "none").deadline = "none"
  BY DEF Reschedule, Row, TombstonesOnly
<1> QED BY <1>1, <1>2 DEF NoDeadlines

LEMMA DeletesKeepTypes ==
    ASSUME NEW o, NEW c \in Collections, NEW due,
           rows \in [Collections -> Row], TombstonesOnly, Delete(o, c, due)
    PROVE  rows' \in [Collections -> Row] /\ TombstonesOnly' /\ (NoDeadlines => NoDeadlines')
BY DEF Delete, Gone, Row, TombstonesOnly, NoDeadlines

-----------------------------------------------------------------------------
(* One lemma per actor.                                                     *)

Moves == [at : Places, want : BOOLEAN, caught : BOOLEAN]

LEMMA MoveGoesOn ==
    ASSUME move \in Moves, NEW at \in Places, MoveOn(at)
    PROVE  move' \in Moves /\ move'.at = at /\ move'.want = move.want
BY DEF Moves, MoveOn

LEMMA MoveIsOver ==
    ASSUME MoveEnds PROVE move' \in Moves /\ move'.at = "idle"
BY DEF Moves, MoveEnds, NoMove, Places

\* A step keeps the invariant and, under a hold, the rows.
Kept == HoldSafe' /\ (holdFlag => rows' = rows)

LEMMA DeletionsKeep ==
    ASSUME HoldSafe,
           \/ DeletionStarts \/ DeletionVerifies \/ DeletionScrubs \/ DeletionRemoves
           \/ DeletionEnds
    PROVE  Kept
<1> USE DEF HoldSafe, HoldTypes, NoDeadlines, Working, Moving, SweepAtWork, Kept
<1>1. ASSUME DeletionStarts PROVE Kept
  BY <1>1 DEF DeletionStarts, Enter, TombstonesOnly
<1>2. ASSUME DeletionVerifies PROVE Kept
  <2>1. "deletion" \in inside /\ move.at \in {"idle", "drain"}
    BY <1>2 DEF DeletionVerifies
  <2>2. \/ inside' = inside \ {"deletion"} /\ deletion' = "idle"
        \/ inside' = inside /\ ~holdFlag /\ deletion' = "scrub"
    BY <1>2 DEF DeletionVerifies, FindsHold, Leave
  <2>3. gateShut' = TRUE \/ gateShut' = gateShut
    BY <1>2 DEF DeletionVerifies, FindsHold
  <2>4. UNCHANGED <<holdFlag, rows, sweep, move>>
    BY <1>2 DEF DeletionVerifies
  <2> QED BY <2>1, <2>2, <2>3, <2>4 DEF TombstonesOnly
<1>3. ASSUME DeletionScrubs PROVE Kept
  <2>1. "deletion" \in inside /\ ~holdFlag /\ move.at \in {"idle", "drain"}
    BY <1>3 DEF DeletionScrubs
  <2>2. rows' \in [Collections -> Row] /\ TombstonesOnly'
    BY <1>3 DEF DeletionScrubs, TombstonesOnly, Row
  <2> QED BY <1>3, <2>1, <2>2 DEF DeletionScrubs
<1>4. ASSUME DeletionRemoves PROVE Kept
  <2>1. "deletion" \in inside /\ ~holdFlag /\ move.at \in {"idle", "drain"}
    BY <1>4 DEF DeletionRemoves
  <2>2. rows' \in [Collections -> Row] /\ TombstonesOnly'
    BY <1>4, DeletesKeepTypes DEF DeletionRemoves
  <2> QED BY <1>4, <2>1, <2>2 DEF DeletionRemoves
<1>5. ASSUME DeletionEnds PROVE Kept
  BY <1>5 DEF DeletionEnds, Leave, TombstonesOnly
<1> QED BY <1>1, <1>2, <1>3, <1>4, <1>5

LEMMA DeadlinesKeep ==
    ASSUME HoldSafe, NEW c \in Collections, DeadlinePasses(c)
    PROVE  Kept
<1>1. ~holdFlag /\ ~(move.at = "flag" /\ move.want)
  BY DEF DeadlinePasses, HoldSafe, NoDeadlines, Moving
<1>2. rows' \in [Collections -> Row] /\ TombstonesOnly'
  BY DEF DeadlinePasses, HoldSafe, HoldTypes, TombstonesOnly, Row
<1> QED BY <1>1, <1>2 DEF DeadlinePasses, HoldSafe, HoldTypes, Working, Moving, SweepAtWork, Kept

LEMMA SweepsKeep ==
    ASSUME HoldSafe,
           \/ SweepStarts \/ SweepVerifies \/ SweepDrained \/ SweepRefused
           \/ SweepSuspends \/ SweepWorks \/ SweepWithdraws
    PROVE  Kept
<1> USE DEF HoldSafe, HoldTypes, Working, Moving, SweepAtWork, Kept
<1>1. ASSUME SweepStarts PROVE Kept
  BY <1>1 DEF SweepStarts, Enter, TombstonesOnly, NoDeadlines
<1>2. ASSUME SweepVerifies PROVE Kept
  <2>1. "sweep" \in inside /\ move.at \in {"idle", "drain"}
    BY <1>2 DEF SweepVerifies
  <2>2. \/ inside' = inside \ {"sweep"} /\ sweep' \in {"idle", "drain"}
        \/ inside' = inside /\ ~holdFlag /\ sweep' = "read"
    BY <1>2 DEF SweepVerifies, FindsHold, Leave
  <2>3. gateShut' = TRUE \/ gateShut' = gateShut
    BY <1>2 DEF SweepVerifies, FindsHold
  <2>4. UNCHANGED <<holdFlag, rows, deletion, move>>
    BY <1>2 DEF SweepVerifies
  <2> QED BY <2>1, <2>2, <2>3, <2>4 DEF TombstonesOnly, NoDeadlines
<1>3. ASSUME SweepDrained PROVE Kept
  BY <1>3 DEF SweepDrained, TombstonesOnly, NoDeadlines
<1>4. ASSUME SweepRefused PROVE Kept
  BY <1>4 DEF SweepRefused, TombstonesOnly, NoDeadlines
<1>5. ASSUME SweepSuspends PROVE Kept
  <2>1. PICK o \in Answers : SuspendAll(o)
    BY <1>5 DEF SweepSuspends
  <2>2. rows' \in [Collections -> Row] /\ TombstonesOnly'
    BY <2>1, UpdatesKeepTypes DEF SuspendAll
  <2>3. NoDeadlines => rows' = rows /\ NoDeadlines'
    BY <2>1, SuspensionIsIdle DEF NoDeadlines
  <2> QED BY <1>5, <2>2, <2>3 DEF SweepSuspends
<1>6. ASSUME SweepWorks PROVE Kept
  <2>1. "sweep" \in inside /\ ~holdFlag /\ move.at \in {"idle", "drain"}
    BY <1>6 DEF SweepWorks
  <2>2. rows' \in [Collections -> Row] /\ TombstonesOnly'
    <3>1. PICK o \in Answers : CASE sweep = "read" -> UNCHANGED rows
                                 [] sweep = "schedule" -> ScheduleAll(o)
                                 [] OTHER -> Delete(o, sweep, {"passed"})
      BY <1>6 DEF SweepWorks
    <3>2. CASE sweep = "read"
      BY <3>1, <3>2 DEF TombstonesOnly
    <3>3. CASE sweep = "schedule"
      <4>1. UpdateAll(o, {"none"}, "ahead")
        BY <3>1, <3>3 DEF ScheduleAll
      <4> QED BY <4>1, UpdatesKeepTypes
    <3>4. CASE sweep \in Collections
      <4>1. Delete(o, sweep, {"passed"})
        BY <3>1, <3>4
      <4> QED BY <3>4, <4>1, DeletesKeepTypes
    <3> QED BY <1>6, <3>2, <3>3, <3>4 DEF SweepWorks
  <2>3. sweep' \in {"idle", "withdraw", "schedule", "reviews", "projects"}
    BY <1>6 DEF SweepWorks
  <2>4. (sweep' = "idle" /\ inside' = inside \ {"sweep"}) \/ inside' = inside
    BY <1>6 DEF SweepWorks, Leave
  <2>5. UNCHANGED <<holdFlag, gateShut, deletion, move>>
    BY <1>6 DEF SweepWorks
  <2> QED BY <2>1, <2>2, <2>3, <2>4, <2>5
<1>7. ASSUME SweepWithdraws PROVE Kept
  <2>1. "sweep" \in inside /\ ~holdFlag /\ move.at \in {"idle", "drain"}
    BY <1>7 DEF SweepWithdraws
  <2>2. rows' \in [Collections -> Row] /\ TombstonesOnly'
    BY <1>7, UpdatesKeepTypes DEF SweepWithdraws, SuspendAll
  <2> QED BY <1>7, <2>1, <2>2 DEF SweepWithdraws, Leave
<1> QED BY <1>1, <1>2, <1>3, <1>4, <1>5, <1>6, <1>7

LEMMA TransitionsKeep ==
    ASSUME HoldSafe,
           \/ \E want \in BOOLEAN : TransitionBegins(want)
           \/ TransitionDrained \/ TransitionSuspends \/ TransitionFlags \/ TransitionReads
           \/ TransitionResumes \/ TransitionWithdraws \/ TransitionCatches
    PROVE  Kept
<1> USE DEF HoldSafe, HoldTypes, Working, Moving, SweepAtWork, Kept
<1>1. ASSUME NEW want \in BOOLEAN, TransitionBegins(want) PROVE Kept
  BY <1>1 DEF TransitionBegins, Places, TombstonesOnly, NoDeadlines
<1>2. ASSUME TransitionDrained PROVE Kept
  BY <1>2 DEF TransitionDrained, Drained, MoveOn, Places, TombstonesOnly, NoDeadlines
<1>3. ASSUME TransitionSuspends PROVE Kept
  <2>1. PICK o \in Answers : SuspendAll(o) /\ MoveOn(IF o = "ok" THEN "flag" ELSE "catch")
    BY <1>3 DEF TransitionSuspends
  <2>2. rows' \in [Collections -> Row] /\ TombstonesOnly'
    BY <2>1, UpdatesKeepTypes DEF SuspendAll
  <2>3. NoDeadlines => rows' = rows /\ NoDeadlines'
    BY <2>1, SuspensionIsIdle DEF NoDeadlines
  <2>4. o = "ok" => NoDeadlines'
    BY <2>1, SuspensionTakesAll
  <2>5. move'.at \in {"flag", "catch"} /\ (move'.at = "flag" => o = "ok")
    BY <2>1 DEF MoveOn
  <2>6. move' \in [at : Places, want : BOOLEAN, caught : BOOLEAN]
    BY <2>1 DEF MoveOn, Places
  <2>7. move.at = "suspend" /\ UNCHANGED <<holdFlag, gateShut, inside, sweep, deletion>>
    BY <1>3 DEF TransitionSuspends
  <2> QED BY <2>2, <2>3, <2>4, <2>5, <2>6, <2>7
<1>4. ASSUME TransitionFlags PROVE Kept
  <2>1. move.at = "flag" /\ UNCHANGED <<rows, gateShut, inside, sweep, deletion>>
    BY <1>4 DEF TransitionFlags
  <2>2. holdFlag' \in {holdFlag, move.want}
    BY <1>4 DEF TransitionFlags
  <2>3. ~SweepAtWork /\ deletion # "scrub"
    BY <2>1
  <2>4. holdFlag' => NoDeadlines
    BY <2>1, <2>2
  <2>5. PICK o \in Answers :
          /\ holdFlag' = move.want \/ o # "ok"
          /\ IF o # "ok" THEN MoveOn("catch")
             ELSE IF holdFlag = move.want THEN MoveOn("existing")
             ELSE IF move.want THEN MoveEnds ELSE MoveOn("resume")
    BY <1>4 DEF TransitionFlags
  <2>6. \/ MoveOn("catch")
        \/ MoveOn("existing") /\ holdFlag' = move.want
        \/ MoveEnds
        \/ MoveOn("resume") /\ holdFlag' = move.want /\ ~move.want
    BY <2>5
  <2>7. /\ move' \in Moves
        /\ move'.at \in {"idle", "existing", "resume", "catch"}
        /\ move'.at = "existing" => holdFlag' = move'.want
        /\ move'.at = "resume" => ~holdFlag'
    BY <2>6, MoveGoesOn, MoveIsOver DEF Moves, Places
  <2>8. /\ rows' \in [Collections -> Row] /\ TombstonesOnly'
        /\ holdFlag' => NoDeadlines'
    BY <2>1, <2>4 DEF TombstonesOnly, NoDeadlines
  <2>9. holdFlag' = TRUE \/ holdFlag' = FALSE
    BY <2>2 DEF Moves
  <2>10. HoldTypes' /\ Moving'
    BY <2>1, <2>7, <2>8, <2>9 DEF Moves
  <2>11. Working'
    BY <2>1, <2>3
  <2>12. holdFlag => rows' = rows
    BY <2>1
  <2> HIDE DEF HoldTypes, Working, Moving
  <2> QED BY <2>8, <2>10, <2>11, <2>12
<1>5. ASSUME TransitionReads PROVE Kept
  <2>1. MoveOn("catch") \/ MoveEnds \/ (MoveOn("resume") /\ ~move.want)
    BY <1>5 DEF TransitionReads
  <2>2. /\ move.at = "existing"
        /\ UNCHANGED <<holdFlag, rows, gateShut, inside, sweep, deletion>>
    BY <1>5 DEF TransitionReads
  <2>3. /\ move' \in Moves /\ move'.at \in {"idle", "resume", "catch"}
        /\ move'.at = "resume" => ~move.want
    BY <2>1, MoveGoesOn, MoveIsOver DEF Moves, Places
  <2> QED BY <2>2, <2>3 DEF TombstonesOnly, NoDeadlines, Moves
<1>6. ASSUME TransitionResumes PROVE Kept
  <2>1. /\ move.at \in {"resume", "schedule", "recheck"}
        /\ UNCHANGED <<holdFlag, inside, sweep, deletion>>
    BY <1>6 DEF TransitionResumes
  <2>2. rows' \in [Collections -> Row] /\ TombstonesOnly'
    <3>1. CASE move.at = "schedule"
      BY <1>6, <3>1, UpdatesKeepTypes DEF TransitionResumes, ScheduleAll
    <3>2. CASE move.at # "schedule"
      BY <1>6, <3>2 DEF TransitionResumes, TombstonesOnly
    <3> QED BY <3>1, <3>2
  <2>3. \/ /\ MoveOn("catch") \/ MoveOn("schedule") \/ MoveOn("recheck")
              \/ MoveOn("withdraw") \/ MoveEnds
           /\ gateShut' = gateShut
        \/ MoveEnds /\ gateShut' = FALSE
    BY <1>6 DEF TransitionResumes, Thrown
  <2>4. /\ move' \in Moves
        /\ move'.at \in {"idle", "catch", "schedule", "recheck", "withdraw"}
    <3>1. MoveEnds \/ \E at \in {"catch", "schedule", "recheck", "withdraw"} : MoveOn(at)
      BY <2>3
    <3>2. move \in Moves /\ {"catch", "schedule", "recheck", "withdraw"} \subseteq Places
      BY DEF Moves, Places
    <3> QED BY <3>1, <3>2, MoveGoesOn, MoveIsOver
  <2>5. gateShut' = gateShut \/ (gateShut' = FALSE /\ move'.at = "idle")
    BY <2>3, MoveIsOver
  <2> QED BY <2>1, <2>2, <2>4, <2>5 DEF Moves
<1>7. ASSUME TransitionWithdraws PROVE Kept
  <2>1. PICK o \in Answers : SuspendAll(o)
    BY <1>7 DEF TransitionWithdraws
  <2>2. rows' \in [Collections -> Row] /\ TombstonesOnly'
    BY <2>1, UpdatesKeepTypes DEF SuspendAll
  <2>3. NoDeadlines => rows' = rows /\ NoDeadlines'
    BY <2>1, SuspensionIsIdle DEF NoDeadlines
  <2>4. MoveOn("catch") \/ MoveEnds
    BY <1>7 DEF TransitionWithdraws, Thrown
  <2>5. move' \in Moves /\ move'.at \in {"idle", "catch"}
    BY <2>4, MoveGoesOn, MoveIsOver DEF Moves, Places
  <2>6. move.at = "withdraw" /\ UNCHANGED <<holdFlag, gateShut, inside, sweep, deletion>>
    BY <1>7 DEF TransitionWithdraws
  <2> QED BY <2>2, <2>3, <2>5, <2>6 DEF Moves
<1>8. ASSUME TransitionCatches PROVE Kept
  <2>1. /\ move.at = "catch"
        /\ UNCHANGED <<holdFlag, rows, gateShut, inside, sweep, deletion>>
    BY <1>8 DEF TransitionCatches
  <2>2. \/ MoveEnds
        \/ holdFlag /\ move' = [move EXCEPT !.caught = TRUE, !.at = "withdraw"]
        \/ ~holdFlag /\ move' = [move EXCEPT !.caught = TRUE, !.at = "resume"]
    BY <1>8 DEF TransitionCatches
  <2>3. /\ move' \in Moves /\ move'.at \in {"idle", "withdraw", "resume"}
        /\ move'.at = "resume" => ~holdFlag
    BY <2>2, MoveIsOver DEF Moves, Places
  <2> QED BY <2>1, <2>3 DEF TombstonesOnly, NoDeadlines, Moves
<1> QED BY <1>1, <1>2, <1>3, <1>4, <1>5, <1>6, <1>7, <1>8

LEMMA RestartKeeps == ASSUME HoldSafe, Restarted PROVE Kept
<1>1. move' \in Moves /\ move'.at = "idle"
  BY DEF Restarted, NoMove, Moves, Places
<1>2. gateShut' = FALSE /\ inside' = {} /\ sweep' = "idle" /\ UNCHANGED <<holdFlag, rows>>
  BY DEF Restarted
<1>3. deletion' \in {"idle", "ended"}
  BY DEF Restarted
<1> QED BY <1>1, <1>2, <1>3 DEF HoldSafe, HoldTypes, TombstonesOnly, NoDeadlines, Working,
                              Moving, SweepAtWork, Kept, Moves

-----------------------------------------------------------------------------
LEMMA HoldStarts == HoldInit => HoldSafe
<1> SUFFICES ASSUME HoldInit PROVE HoldSafe
  OBVIOUS
<1>1. rows \in [Collections -> Row] /\ TombstonesOnly /\ NoDeadlines
  BY DEF HoldInit, Saved, Row, TombstonesOnly, NoDeadlines
<1>2. move \in Moves /\ move.at = "idle"
  BY DEF HoldInit, NoMove, Moves, Places
<1>3. holdFlag = FALSE /\ gateShut = FALSE /\ inside = {} /\ sweep = "idle" /\ deletion = "idle"
  BY DEF HoldInit
<1> QED BY <1>1, <1>2, <1>3 DEF HoldSafe, HoldTypes, Working, Moving, SweepAtWork, Moves

LEMMA HoldSteps == HoldSafe /\ [HoldNext]_holdVars => Kept
<1> SUFFICES ASSUME HoldSafe, [HoldNext]_holdVars PROVE Kept
  OBVIOUS
<1>1. CASE HoldNext
  BY <1>1, DeletionsKeep, DeadlinesKeep, SweepsKeep, TransitionsKeep, RestartKeeps DEF HoldNext
<1>2. CASE UNCHANGED holdVars
  BY <1>2 DEF holdVars, HoldSafe, HoldTypes, TombstonesOnly, NoDeadlines, Working, Moving,
              SweepAtWork, Kept
<1> QED BY <1>1, <1>2

\* Who works on the tombstones holds a lease and has seen no hold, and the transition that
\* sets the flag has nobody beside it and no deadline left (both services).
THEOREM HoldSafeAlways == HoldSpec => []HoldSafe
<1>1. HoldSafe /\ [HoldNext]_holdVars => HoldSafe'
  BY HoldSteps DEF Kept
<1> QED BY <1>1, HoldStarts, PTL DEF HoldSpec

\* Under the durable flag no tombstone has a deadline and no row changes, whatever sweep,
\* deletion or transition is under way and whatever was lost or restarted.
THEOREM HoldKeepsTombstones == HoldSpec => HeldTombstonesStay
<1>1. HoldSafe /\ HoldSafe' /\ [HoldNext]_holdVars =>
        [/\ holdFlag' => \A c \in Collections : rows'[c].deadline = "none"
         /\ holdFlag => rows' = rows]_holdVars
  BY HoldSteps DEF Kept, HoldSafe, NoDeadlines
<1> QED BY <1>1, HoldSafeAlways, PTL DEF HoldSpec, HeldTombstonesStay
=============================================================================
