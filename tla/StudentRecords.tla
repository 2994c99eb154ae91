--------------------------- MODULE StudentRecords ---------------------------
(***************************************************************************)
(* The life of one student's record set in the API process: project,       *)
(* review, alias, provider-link and account requests, the sign-in, Julio's *)
(* permanent deletion, the hourly retention sweep, and the preservation    *)
(* hold, all racing over one MongoDB document, its child collections and   *)
(* its deletion receipt, and coordinated by two process-local gates.       *)
(*                                                                         *)
(* A step is what a handler does between two awaits: it starts with the    *)
(* database operation the handler is waiting for, includes that            *)
(* operation's effect, and ends where the handler starts the next one.     *)
(* Every operation may be lost, or be applied without its acknowledgement  *)
(* reaching the process; the process may crash, which loses the gates and  *)
(* every request in flight and leaves the database.                        *)
(*                                                                         *)
(* The gates are used at the level of GateContract, which LeaseGate shows  *)
(* the code to implement: a flag, the set of lease holders, and a wait     *)
(* that ends when the set is empty.                                        *)
(*                                                                         *)
(* What all of this promises is RecordContract, which the module           *)
(* implements.                                                             *)
(***************************************************************************)
EXTENDS Naturals, FiniteSets

CONSTANTS
    ProjectWrites,     \* student requests that create a project row
    ReviewWrites,      \* admin requests that create a review row
    AliasCorrections,  \* admin requests that correct the username
    Connects,          \* setup-session requests that create an OAuth link attempt
    AccountChanges,    \* admin requests: active status, access-code reset
    SignIns,           \* successful sign-ins
    Deletions,         \* Julio's DELETE requests
    Places, Releases,  \* hold transitions
    Sweeper,           \* the retention sweeper
    Collections,       \* the child collections of a student: oauth, projects, reviews
    NoOp,              \* no deletion operation
    Seed,              \* what was there before: initial rows, initial alias
    MaxFaults,         \* database failures in a behaviour
    MaxCrashes         \* process crashes in a behaviour

Transitions == Places \cup Releases
Deleters    == Deletions \cup {Sweeper}
Creators    == ProjectWrites \cup ReviewWrites
Protected   == Creators \cup AliasCorrections
Leasers     == Protected \cup Connects \cup AccountChanges
Requests    == Leasers \cup SignIns \cup Deleters \cup Transitions
RowIds      == Requests \cup {Seed}

ASSUME KindsAreDisjoint ==
    /\ ProjectWrites \cap (ReviewWrites \cup AliasCorrections \cup Connects
         \cup AccountChanges \cup SignIns \cup Deleters \cup Transitions) = {}
    /\ ReviewWrites \cap (AliasCorrections \cup Connects \cup AccountChanges
         \cup SignIns \cup Deleters \cup Transitions) = {}
    /\ AliasCorrections \cap (Connects \cup AccountChanges \cup SignIns
         \cup Deleters \cup Transitions) = {}
    /\ Connects \cap (AccountChanges \cup SignIns \cup Deleters \cup Transitions) = {}
    /\ AccountChanges \cap (SignIns \cup Deleters \cup Transitions) = {}
    /\ SignIns \cap (Deleters \cup Transitions) = {}
    /\ Deleters \cap Transitions = {}
    /\ Places \cap Releases = {}
    /\ Sweeper \notin Deletions
ASSUME CollectionsAreKnown == Collections \subseteq {"oauth", "projects", "reviews"}
ASSUME BoundsAreNaturals == MaxFaults \in Nat /\ MaxCrashes \in Nat
ASSUME NoOpIsNoRequest == NoOp \notin Requests

VARIABLES
    \* the database
    student,         \* the Student document and whether it exists
    alias,           \* who wrote the username
    rows,            \* [Collections -> SUBSET RowIds]
    receipts,        \* [Deleters -> receipt of the operation that request began]
    armed,           \* tombstones of this student carry a purge deadline
    \* the process
    writesClosed,    \* the write gate
    writeLeases,
    mutationsHeld,   \* the mutation gate
    mutationLeases,
    transition,      \* the hold transition that owns the per-student tail, or NoOp
    pc,              \* [Requests -> where the handler is]
    version,         \* [Requests -> the session version a handler read]
    work,            \* [Deleters -> local variables of deleteStudentRecordSet]
    \* bounds
    faults, crashes

db      == <<student, alias, rows, receipts, armed>>
gates   == <<writesClosed, writeLeases, mutationsHeld, mutationLeases>>
vars    == <<db, gates, transition, pc, version, work, faults, crashes>>

NoInventory == [c \in Collections |-> {}]
NoReceipt   == [status |-> "none", reason |-> "none", inventory |-> NoInventory]
\* The operation id is the one a fresh deletion of this request would record.
NoWork(d)   == [op |-> d, resume |-> FALSE, reason |-> "none", receipt |-> FALSE,
                todo |-> Collections, failed |-> FALSE, counted |-> NoInventory]

Reasons  == {"julio-request", "retention-expiry"}
Statuses == {"none", "in-progress", "needs-retry", "completed"}

\* Mutant: only receipts that were explicitly marked are looked for.
UnfinishedOnlyMarked == {"needs-retry"}

Unfinished == {"in-progress", "needs-retry"}

States ==
    {"ready", "authed", "verify", "parked", "load", "reserve", "create", "rename", "attempt",
     "withdraw", "change", "signin", "done",
     "idle", "orphan", "prepare", "orphan-sweep", "orphan-complete", "orphan-retry",
     "candidates", "gate", "read", "fence1", "consult", "fence2", "reuse", "count",
     "record", "recheck", "sweep", "remove", "retry", "complete",
     "suspend", "flip", "reread", "settle", "catch", "catch-held", "catch-settle"}

Students == [exists : BOOLEAN, active : BOOLEAN, pending : BOOLEAN, expired : BOOLEAN,
             hold : BOOLEAN, op : Deleters \cup {NoOp}, reason : Reasons \cup {"none"},
             version : Nat]
Inventories == [Collections -> SUBSET RowIds]
Receipts == [status : Statuses, reason : Reasons \cup {"none"}, inventory : Inventories]
Works == [op : Deleters, resume : BOOLEAN, reason : Reasons \cup {"none"},
          receipt : BOOLEAN, todo : SUBSET Collections, failed : BOOLEAN,
          counted : Inventories]

DatabaseTypes ==
    /\ student \in Students
    /\ alias \in RowIds
    /\ rows \in Inventories
    /\ receipts \in [Deleters -> Receipts]
    /\ armed \in BOOLEAN

GateTypes ==
    /\ writesClosed \in BOOLEAN /\ mutationsHeld \in BOOLEAN
    /\ writeLeases \subseteq Leasers
    /\ mutationLeases \subseteq Protected \cup Deleters
    /\ transition \in Transitions \cup {NoOp}

HandlerTypes ==
    /\ pc \in [Requests -> States]
    /\ version \in [Requests -> Nat]
    /\ work \in [Deleters -> Works]
    /\ faults \in 0..MaxFaults
    /\ crashes \in 0..MaxCrashes

Types == DatabaseTypes /\ GateTypes /\ HandlerTypes

\* A lease is held only by a request that is running: every way a handler ends, the
\* refusals, errors and early returns included, gives its leases back.
LeasesAreLive ==
    \A r \in writeLeases \cup mutationLeases :
        pc[r] \notin {"ready", "authed", "done", "idle"}

TypeOK == Types /\ LeasesAreLive

Init ==
    /\ student = [exists |-> TRUE, active |-> TRUE, pending |-> FALSE, expired |-> FALSE,
                  hold |-> FALSE, op |-> NoOp, reason |-> "none", version |-> 0]
    /\ alias = Seed
    /\ rows = [c \in Collections |-> {Seed}]
    /\ receipts = [d \in Deleters |-> NoReceipt]
    /\ armed = TRUE
    /\ writesClosed = FALSE /\ writeLeases = {}
    /\ mutationsHeld = FALSE /\ mutationLeases = {}
    /\ transition = NoOp
    /\ pc = [r \in Requests |-> IF r = Sweeper THEN "idle" ELSE "ready"]
    /\ version = [r \in Requests |-> 0]
    /\ work = [d \in Deleters |-> NoWork(d)]
    /\ faults = 0 /\ crashes = 0

-----------------------------------------------------------------------------
(* Database operations and the shape of a handler.                         *)

\* How an operation may end: acknowledged, lost before it took effect, or applied with
\* its acknowledgement lost.  The handler sees the last two as the same error.
Outcomes == {"ok"} \cup (IF faults < MaxFaults THEN {"lost", "unacknowledged"} ELSE {})
\* A read has no effect to lose.
ReadOutcomes == Outcomes \ {"unacknowledged"}
Spend(o) == faults' = IF o = "ok" THEN faults ELSE faults + 1

\* What the filter of an update and its outcome leave of the document: `new` if the
\* operation matched and was applied.
Effect(o, matched, new) == IF matched /\ o # "lost" THEN new ELSE student

Rest(r) == IF r = Sweeper THEN "idle" ELSE "done"

\* The handler goes on to `where`, keeping its leases.
Go(r, where) ==
    /\ pc' = [pc EXCEPT ![r] = where]
    /\ UNCHANGED <<writeLeases, mutationLeases>>

\* Mutant: the mutation lease is not released when the handler settles.
FinishKeepsLease(r) ==
    /\ pc' = [pc EXCEPT ![r] = Rest(r)]
    /\ writeLeases' = writeLeases \ {r}
    /\ UNCHANGED mutationLeases

\* The handler settles: its wrappers' `finally` blocks release what it holds.
Finish(r) ==
    /\ pc' = [pc EXCEPT ![r] = Rest(r)]
    /\ writeLeases' = writeLeases \ {r}
    /\ mutationLeases' = mutationLeases \ {r}

\* A row is written into a collection, or taken out of it.
WithRow(c, r)    == [rows EXCEPT ![c] = @ \cup {r}]
WithoutRow(c, r) == [rows EXCEPT ![c] = @ \ {r}]

GoIf(r, condition, where) == IF condition THEN Go(r, where) ELSE Finish(r)

UsableBySession == student.exists /\ student.active /\ ~student.pending /\ ~student.expired
-----------------------------------------------------------------------------
(* The gates in front of a handler.                                        *)

\* validStudent / validStudentSetup: the session is checked against the document before
\* the request reaches its lease wrappers (rate limiting and body parsing lie between).
Authenticate(r) ==
    /\ pc[r] = "ready"
    /\ UsableBySession
    /\ pc' = [pc EXCEPT ![r] = "authed"]
    /\ UNCHANGED <<db, gates, transition, version, work, faults, crashes>>

\* What a request must have passed before its wrappers run.
AtWrappers(r) ==
    pc[r] = (IF r \in ProjectWrites \cup Connects THEN "authed" ELSE "ready")

\* withStudentDataWriteLease around a security-control handler.
EnterWrites(r) ==
    /\ AtWrappers(r)
    /\ IF writesClosed
       THEN Finish(r)
       ELSE /\ writeLeases' = writeLeases \cup {r}
            /\ pc' = [pc EXCEPT ![r] = "load"]
            /\ UNCHANGED mutationLeases
    /\ UNCHANGED <<db, writesClosed, mutationsHeld, transition, version, work, faults, crashes>>

\* withStudentDataWriteLease(withStudentRecordMutationLease(handler)): both in-process
\* leases are taken in one task; the hold is then read from the database.
EnterBoth(r) ==
    /\ AtWrappers(r)
    /\ IF writesClosed \/ mutationsHeld
       THEN Finish(r)
       ELSE /\ writeLeases' = writeLeases \cup {r}
            /\ mutationLeases' = mutationLeases \cup {r}
            /\ pc' = [pc EXCEPT ![r] = "verify"]
    /\ UNCHANGED <<db, writesClosed, mutationsHeld, transition, version, work, faults, crashes>>

\* The route of a deletion takes the mutation lease only; so does the sweeper.
EnterMutations(d) ==
    /\ pc[d] = (IF d = Sweeper THEN "gate" ELSE "ready")
    /\ IF mutationsHeld
       THEN Finish(d)
       ELSE /\ mutationLeases' = mutationLeases \cup {d}
            /\ pc' = [pc EXCEPT ![d] = "verify"]
            /\ UNCHANGED writeLeases
    /\ UNCHANGED <<db, writesClosed, mutationsHeld, transition, version, work, faults, crashes>>

\* Where a handler starts once the hold has been verified to be inactive.
AfterVerify(r) ==
    CASE r \in ProjectWrites    -> "reserve"
      [] r \in ReviewWrites     -> "load"
      [] r \in AliasCorrections -> "rename"
      [] r \in Deletions        -> "read"
      [] OTHER                  -> "fence1"

\* Mutant: the in-process gate is trusted, the durable hold is not consulted.
HoldSeenTrustsGate == FALSE

\* Student.exists({ _id, recordPreservationHoldActive: true })
HoldSeen == student.exists /\ student.hold

\* acquireVerifiedStudentRecordMutationLease, after the in-process lease: a durable hold
\* (found after a restart) shuts this process's gate too and waits for it to drain; a
\* failed read refuses the request.
VerifyHold(r) ==
    /\ pc[r] = "verify"
    /\ \E o \in ReadOutcomes :
        /\ Spend(o)
        /\ IF o = "lost"
           THEN Finish(r) /\ UNCHANGED mutationsHeld
           ELSE IF HoldSeen
           THEN /\ mutationLeases' = mutationLeases \ {r}
                /\ mutationsHeld' = TRUE
                /\ pc' = [pc EXCEPT ![r] = "parked"]
                /\ UNCHANGED writeLeases
           ELSE Go(r, AfterVerify(r)) /\ UNCHANGED mutationsHeld
    /\ UNCHANGED <<db, writesClosed, transition, version, work, crashes>>

\* The gate it shut has drained: the request that found the hold is refused.
Unpark(r) ==
    /\ pc[r] = "parked"
    /\ mutationLeases = {}
    /\ Finish(r)
    /\ UNCHANGED <<db, writesClosed, mutationsHeld, transition, version, work, faults, crashes>>

-----------------------------------------------------------------------------
(* Requests that write content or account state.                           *)

\* createPythonProject reserves the quota, which a disabled account is refused; what it
\* counts, and whether it fits, is ProjectStore's.
ReserveQuota(r) ==
    /\ pc[r] = "reserve"
    /\ \E o \in ReadOutcomes, fits \in BOOLEAN :
        /\ Spend(o)
        /\ GoIf(r, o = "ok" /\ fits /\ student.exists /\ student.active, "create")
    /\ UNCHANGED <<db, writesClosed, mutationsHeld, transition, version, work, crashes>>

\* It then stores the row without reading the student again: what it relies on is the write
\* lease it holds.
CreateProject(r) ==
    /\ pc[r] = "create"
    /\ r \in ProjectWrites
    /\ \E o \in Outcomes :
        /\ Spend(o)
        /\ rows' = IF o = "lost" THEN rows ELSE WithRow("projects", r)
    /\ Finish(r)
    /\ UNCHANGED <<student, alias, receipts, armed, writesClosed, mutationsHeld, transition,
                   version, work, crashes>>

\* findManagedPythonProjectStudent: a review is refused while deletion is pending.
LoadManagedStudent(r) ==
    /\ pc[r] = "load"
    /\ r \in ReviewWrites
    /\ \E o \in ReadOutcomes :
        /\ Spend(o)
        /\ GoIf(r, o = "ok" /\ student.exists /\ ~student.pending, "create")
    /\ UNCHANGED <<db, writesClosed, mutationsHeld, transition, version, work, crashes>>

CreateReview(r) ==
    /\ pc[r] = "create"
    /\ r \in ReviewWrites
    /\ \E o \in Outcomes :
        /\ Spend(o)
        /\ rows' = IF o = "lost" THEN rows ELSE WithRow("reviews", r)
    /\ Finish(r)
    /\ UNCHANGED <<student, alias, receipts, armed, writesClosed, mutationsHeld, transition,
                   version, work, crashes>>

\* correctStudentUsername: one update, refused while deletion is pending.
CorrectUsername(r) ==
    /\ pc[r] = "rename"
    /\ LET matched == student.exists /\ ~student.pending
       IN \E o \in Outcomes :
            /\ Spend(o)
            /\ student' = Effect(o, matched, [student EXCEPT !.version = @ + 1])
            /\ alias' = IF matched /\ o # "lost" THEN r ELSE alias
    /\ Finish(r)
    /\ UNCHANGED <<rows, receipts, armed, writesClosed, mutationsHeld, transition, version,
                   work, crashes>>

\* connectStudentOAuthProvider reads the student under its write lease ...
LoadForConnect(r) ==
    /\ pc[r] = "load"
    /\ r \in Connects
    /\ \E o \in ReadOutcomes :
        /\ Spend(o)
        /\ GoIf(r, o = "ok" /\ UsableBySession, "attempt")
    /\ UNCHANGED <<db, writesClosed, mutationsHeld, transition, version, work, crashes>>

\* ... and stores a link attempt owned by the student; on an error it tries to delete it.
CreateAttempt(r) ==
    /\ pc[r] = "attempt"
    /\ \E o \in Outcomes :
        /\ Spend(o)
        /\ rows' = IF o = "lost" THEN rows ELSE WithRow("oauth", r)
        /\ GoIf(r, o # "ok", "withdraw")
    /\ UNCHANGED <<student, alias, receipts, armed, writesClosed, mutationsHeld, transition,
                   version, work, crashes>>

WithdrawAttempt(r) ==
    /\ pc[r] = "withdraw"
    /\ \E o \in Outcomes :
        /\ Spend(o)
        /\ rows' = IF o = "lost" THEN rows ELSE WithoutRow("oauth", r)
    /\ Finish(r)
    /\ UNCHANGED <<student, alias, receipts, armed, writesClosed, mutationsHeld, transition,
                   version, work, crashes>>

\* setStudentActive and resetStudentAccessCode read the account, refuse a pending one,
\* and remember its session version ...
LoadAccount(r) ==
    /\ pc[r] = "load"
    /\ r \in AccountChanges
    /\ \E o \in ReadOutcomes :
        /\ Spend(o)
        /\ GoIf(r, o = "ok" /\ student.exists /\ ~student.pending, "change")
    /\ version' = [version EXCEPT ![r] = student.version]
    /\ UNCHANGED <<db, writesClosed, mutationsHeld, transition, work, crashes>>

\* ... and change it only if it is still the account they read, and not expired when the
\* change makes it usable.
AccountStillCurrent(r, active) ==
    /\ student.exists
    /\ ~student.pending
    /\ student.version = version[r]
    /\ active => ~student.expired

ChangeAccount(r) ==
    /\ pc[r] = "change"
    /\ \E o \in Outcomes, active \in BOOLEAN :
        /\ Spend(o)
        /\ student' = Effect(o, AccountStillCurrent(r, active),
                             [student EXCEPT !.active = active, !.version = @ + 1])
    /\ Finish(r)
    /\ UNCHANGED <<alias, rows, receipts, armed, writesClosed, mutationsHeld, transition,
                   version, work, crashes>>

\* createStudentSession: the account is read and the credential compared; the time that
\* decides about expiry is taken here, before the update that follows.
BeginSignIn(r) ==
    /\ pc[r] = "ready"
    /\ UsableBySession
    /\ pc' = [pc EXCEPT ![r] = "signin"]
    /\ version' = [version EXCEPT ![r] = student.version]
    /\ UNCHANGED <<db, gates, transition, work, faults, crashes>>

\* The update renews the retention deadline, if the account is the one that was read.
FinishSignIn(r) ==
    /\ pc[r] = "signin"
    /\ LET matched == /\ student.exists /\ student.active /\ ~student.pending
                      /\ student.version = version[r]
       IN \E o \in Outcomes :
            /\ Spend(o)
            /\ student' = Effect(o, matched, [student EXCEPT !.expired = FALSE,
                                                             !.version = @ + 1])
    /\ Finish(r)
    /\ UNCHANGED <<alias, rows, receipts, armed, writesClosed, mutationsHeld, transition,
                   version, work, crashes>>

\* The retention deadline passes.
Expire ==
    /\ student.exists /\ ~student.expired
    /\ student' = [student EXCEPT !.expired = TRUE]
    /\ UNCHANGED <<alias, rows, receipts, armed, gates, transition, pc, version, work,
                   faults, crashes>>
-----------------------------------------------------------------------------
(* Deletion: deleteStudentData and deleteStudentRecordSet.                 *)

Set(d, new) == work' = [work EXCEPT ![d] = new]

\* The handler settles and its local variables are gone.
FinishDeletion(d) == Finish(d) /\ Set(d, NoWork(d))

\* deleteStudentData reads the account: a held one is refused, and a pending one is
\* resumed under its recorded operation.
ReadForDeletion(d) ==
    /\ pc[d] = "read"
    /\ \E o \in ReadOutcomes :
        /\ Spend(o)
        /\ IF o = "ok" /\ student.exists /\ ~student.hold
           THEN /\ Go(d, "fence1")
                /\ version' = [version EXCEPT ![d] = student.version]
                /\ Set(d, [NoWork(d) EXCEPT
                     !.resume = student.op # NoOp,
                     !.op     = IF student.op # NoOp THEN student.op ELSE d,
                     !.reason = IF student.op # NoOp THEN student.reason
                                                     ELSE "julio-request"])
           ELSE FinishDeletion(d) /\ UNCHANGED version
    /\ UNCHANGED <<db, writesClosed, mutationsHeld, transition, crashes>>

\* Mutant: the fence trusts the caller's earlier read of the account.
StillEligibleTrustsRead(d) == student.exists

\* initialFilter and the hold: the account is the one the caller read, still under the
\* same operation, and for the sweeper still pending or still expired.
StillEligible(d) ==
    /\ student.exists
    /\ ~student.hold
    /\ student.version = version[d]
    /\ work[d].resume => student.op = work[d].op
    /\ d = Sweeper => IF work[d].resume THEN student.pending
                      ELSE ~student.pending /\ student.expired

\* First fence: disable the account, mark it pending and rotate its session version, all
\* before waiting for anyone.  A fresh operation then shuts the write gate at once.
FirstFence(d) ==
    /\ pc[d] = "fence1"
    /\ \E o \in Outcomes :
        /\ Spend(o)
        /\ student' = Effect(o, StillEligible(d),
             [student EXCEPT !.active = FALSE, !.pending = TRUE, !.op = work[d].op,
                             !.reason = work[d].reason, !.version = @ + 1])
        /\ IF o = "ok" /\ StillEligible(d)
           THEN /\ Go(d, IF work[d].resume THEN "consult" ELSE "fence2")
                /\ version' = [version EXCEPT ![d] = student.version + 1]
                /\ writesClosed' = (writesClosed \/ ~work[d].resume)
                /\ UNCHANGED work
           ELSE FinishDeletion(d) /\ UNCHANGED <<version, writesClosed>>
    /\ UNCHANGED <<alias, rows, receipts, armed, mutationsHeld, transition, crashes>>

\* A resumed operation reads its receipt, takes the reason from it, and shuts the gate.
ConsultReceipt(d) ==
    /\ pc[d] = "consult"
    /\ \E o \in ReadOutcomes :
        /\ Spend(o)
        /\ LET receipt == receipts[work[d].op] IN
           IF o = "ok"
           THEN /\ Go(d, "fence2")
                /\ writesClosed' = TRUE
                /\ Set(d, [work[d] EXCEPT
                     !.receipt = receipt.status # "none",
                     !.reason  = IF receipt.status # "none" THEN receipt.reason ELSE @])
           ELSE FinishDeletion(d) /\ UNCHANGED writesClosed
    /\ UNCHANGED <<db, mutationsHeld, transition, version, crashes>>

\* Mutant: the deletion does not wait for the requests that entered before it.
WritesDrainedIgnored == TRUE

\* closeStudentDataWritesAndWait has resolved.
WritesDrained == writeLeases = {}

\* Second fence, after the drain: another deletion of the same operation that fenced
\* after our first fence has changed the version, and then takes over.
SecondFence(d) ==
    /\ pc[d] = "fence2"
    /\ WritesDrained
    /\ LET matched == /\ student.exists
                      /\ student.op = work[d].op
                      /\ student.version = version[d]
       IN \E o \in Outcomes :
            /\ Spend(o)
            /\ student' = Effect(o, matched,
                 [student EXCEPT !.active = FALSE, !.pending = TRUE,
                                 !.reason = work[d].reason, !.version = @ + 1])
            /\ IF o = "ok" /\ matched
               THEN /\ Go(d, IF work[d].receipt THEN "reuse" ELSE "count")
                    /\ version' = [version EXCEPT ![d] = student.version + 1]
                    /\ UNCHANGED work
               ELSE FinishDeletion(d) /\ UNCHANGED version
    /\ UNCHANGED <<alias, rows, receipts, armed, writesClosed, mutationsHeld, transition,
                   crashes>>

WithStatus(op, status) == [receipts EXCEPT ![op].status = status]

\* setReceiptInProgress, when the receipt read earlier already holds the inventory.
ReuseReceipt(d) ==
    /\ pc[d] = "reuse"
    /\ \E o \in Outcomes :
        /\ Spend(o)
        /\ receipts' = IF o = "lost" THEN receipts ELSE WithStatus(work[d].op, "in-progress")
        /\ IF o = "ok" THEN Go(d, "sweep") /\ UNCHANGED work ELSE FinishDeletion(d)
    /\ UNCHANGED <<student, alias, rows, armed, writesClosed, mutationsHeld, transition,
                   version, crashes>>

\* countStudentRecordInventory: three counts in flight together, in any order.  The model
\* keeps which rows each one saw.
CountInventory(d, c) ==
    /\ pc[d] = "count"
    /\ c \in work[d].todo
    /\ \E o \in ReadOutcomes :
        /\ Spend(o)
        /\ LET left == work[d].todo \ {c} IN
           IF o = "ok"
           THEN /\ Go(d, IF left = {} THEN "record" ELSE "count")
                /\ Set(d, [work[d] EXCEPT
                     !.todo = IF left = {} THEN Collections ELSE left,
                     !.counted[c] = rows[c]])
           ELSE FinishDeletion(d)
    /\ UNCHANGED <<db, writesClosed, mutationsHeld, transition, version, crashes>>

\* ensureDurableDeletionReceipt's upsert; a receipt that already holds an inventory makes
\* the insert fail on its unique operation.
RecordReceipt(d) ==
    /\ pc[d] = "record"
    /\ \E o \in Outcomes :
        /\ Spend(o)
        /\ LET op    == work[d].op
               fresh == receipts[op].status = "none"
           IN /\ receipts' = IF fresh /\ o # "lost"
                             THEN [receipts EXCEPT ![op] =
                                    [status |-> "in-progress", reason |-> work[d].reason,
                                     inventory |-> work[d].counted]]
                             ELSE receipts
              /\ Go(d, IF fresh /\ o = "ok" THEN "sweep" ELSE "recheck")
    /\ UNCHANGED <<student, alias, rows, armed, writesClosed, mutationsHeld, transition,
                   version, work, crashes>>

\* Mutant: the deletion goes on although the receipt may not be there.
RecheckReceiptAssumed(d) ==
    /\ pc[d] = "recheck"
    /\ Go(d, "sweep")
    /\ UNCHANGED <<db, writesClosed, mutationsHeld, transition, version, work, faults, crashes>>

\* After any error the receipt is read again, and the deletion goes on if some deletion
\* of this operation has made an inventory durable.
RecheckReceipt(d) ==
    /\ pc[d] = "recheck"
    /\ \E o \in ReadOutcomes :
        /\ Spend(o)
        /\ IF o = "ok" /\ receipts[work[d].op].status # "none"
           THEN Go(d, "sweep") /\ UNCHANGED work
           ELSE FinishDeletion(d)
    /\ UNCHANGED <<db, writesClosed, mutationsHeld, transition, version, crashes>>

\* deleteStudentChildRecords: three deleteMany in flight together; all of them settle
\* before a failure of any is reported.
DeleteRows(d, from, c, allDone, someFailed) ==
    /\ pc[d] = from
    /\ c \in work[d].todo
    /\ \E o \in Outcomes :
        /\ Spend(o)
        /\ rows' = IF o = "lost" THEN rows ELSE [rows EXCEPT ![c] = {}]
        /\ LET left   == work[d].todo \ {c}
               failed == work[d].failed \/ o # "ok"
           IN /\ Go(d, IF left # {} THEN from ELSE IF failed THEN someFailed ELSE allDone)
              /\ Set(d, [work[d] EXCEPT !.todo = left, !.failed = failed])
    /\ UNCHANGED <<student, alias, receipts, armed, writesClosed, mutationsHeld, transition,
                   version, crashes>>

SweepRows(d, c) == DeleteRows(d, "sweep", c, "remove", "retry")

\* Mutant: an acknowledged deleteOne is taken for a deletion (deletedCount not looked at).
RemovedIfAcknowledged(o, matched) == o = "ok"

Removed(o, matched) == o = "ok" /\ matched

\* Student.deleteOne, on the document both fences left.
RemoveStudent(d) ==
    /\ pc[d] = "remove"
    /\ LET matched == /\ student.exists
                      /\ ~student.active
                      /\ student.op = work[d].op
                      /\ student.version = version[d]
       IN \E o \in Outcomes :
            /\ Spend(o)
            /\ student' = Effect(o, matched, [student EXCEPT !.exists = FALSE])
            /\ Go(d, IF Removed(o, matched) THEN "complete" ELSE "retry")
    /\ UNCHANGED <<alias, rows, receipts, armed, writesClosed, mutationsHeld, transition,
                   version, work, crashes>>

\* markReceiptNeedsRetry, whose own failure is ignored.
MarkNeedsRetry(d) ==
    /\ pc[d] = "retry"
    /\ \E o \in Outcomes :
        /\ Spend(o)
        /\ receipts' = IF o = "lost" THEN receipts ELSE WithStatus(work[d].op, "needs-retry")
    /\ FinishDeletion(d)
    /\ UNCHANGED <<student, alias, rows, armed, writesClosed, mutationsHeld, transition,
                   version, crashes>>

\* The receipt is completed; if that fails it stays as it is, for the sweeper.
CompleteReceipt(d) ==
    /\ pc[d] = "complete"
    /\ \E o \in Outcomes :
        /\ Spend(o)
        /\ receipts' = IF o = "lost" THEN receipts ELSE WithStatus(work[d].op, "completed")
    /\ FinishDeletion(d)
    /\ UNCHANGED <<student, alias, rows, armed, writesClosed, mutationsHeld, transition,
                   version, crashes>>
-----------------------------------------------------------------------------
(* The retention sweep: enforceStudentRecordRetention, at startup and then  *)
(* every hour, one at a time.                                              *)

\* reconcileOrphanedDeletionReceipts takes its list of unfinished receipts; of one
\* student there is at most one (OperationIsStable).
BeginSweep(s) ==
    /\ pc[s] = "idle"
    /\ \E o \in ReadOutcomes :
        /\ Spend(o)
        /\ LET unfinished == {op \in Deleters : receipts[op].status \in Unfinished} IN
           IF o = "lost" THEN Finish(s) /\ UNCHANGED work
           ELSE IF unfinished = {} THEN Go(s, "candidates") /\ UNCHANGED work
           ELSE \E op \in unfinished :
                  Go(s, "orphan") /\ Set(s, [NoWork(s) EXCEPT !.op = op])
    /\ UNCHANGED <<db, writesClosed, mutationsHeld, transition, version, crashes>>

\* A receipt whose student still exists is left to the pending candidates.  An error
\* here ends the whole sweep.
CheckOrphan(s) ==
    /\ pc[s] = "orphan"
    /\ \E o \in ReadOutcomes :
        /\ Spend(o)
        /\ IF o = "lost" THEN FinishDeletion(s)
           ELSE Go(s, IF student.exists THEN "candidates" ELSE "prepare") /\ UNCHANGED work
    /\ UNCHANGED <<db, writesClosed, mutationsHeld, transition, version, crashes>>

ReceiptUnfinished(s) == receipts[work[s].op].status \in Unfinished

\* An update of the receipt that applies only while it is unfinished.  An error goes to the
\* catch block, an unmatched filter on to the next receipt.
UpdateOrphan(s, from, status, next) ==
    /\ pc[s] = from
    /\ \E o \in Outcomes :
        /\ Spend(o)
        /\ receipts' = IF o # "lost" /\ ReceiptUnfinished(s)
                       THEN WithStatus(work[s].op, status) ELSE receipts
        /\ Go(s, IF o # "ok" THEN "orphan-retry"
                 ELSE IF ReceiptUnfinished(s) THEN next ELSE "candidates")
    /\ UNCHANGED <<student, alias, rows, armed, writesClosed, mutationsHeld, transition,
                   version, work, crashes>>

PrepareOrphan(s)  == UpdateOrphan(s, "prepare", "in-progress", "orphan-sweep")
SweepOrphan(s, c) == DeleteRows(s, "orphan-sweep", c, "orphan-complete", "orphan-retry")
CompleteOrphan(s) == UpdateOrphan(s, "orphan-complete", "completed", "candidates")

\* The catch block marks the receipt whatever its status has become; errors are ignored.
RetryOrphan(s) ==
    /\ pc[s] = "orphan-retry"
    /\ \E o \in Outcomes :
        /\ Spend(o)
        /\ receipts' = IF o = "lost" THEN receipts ELSE WithStatus(work[s].op, "needs-retry")
    /\ Go(s, "candidates")
    /\ UNCHANGED <<student, alias, rows, armed, writesClosed, mutationsHeld, transition,
                   version, work, crashes>>

\* Mutant: the pending accounts are not queried.
CandidateOnlyExpired == student.exists /\ ~student.hold /\ ~student.pending /\ student.expired

\* The two candidate queries: pending accounts, and expired ones; neither takes a held one.
Candidate == student.exists /\ ~student.hold /\ (student.pending \/ student.expired)

FindCandidate(s) ==
    /\ pc[s] = "candidates"
    /\ \E o \in ReadOutcomes :
        /\ Spend(o)
        /\ IF o = "ok" /\ Candidate
           THEN /\ Go(s, "gate")
                /\ version' = [version EXCEPT ![s] = student.version]
                /\ Set(s, [NoWork(s) EXCEPT
                     !.resume = student.pending,
                     !.op     = IF student.op # NoOp THEN student.op ELSE s,
                     !.reason = IF student.pending THEN student.reason
                                                   ELSE "retention-expiry"])
           ELSE FinishDeletion(s) /\ UNCHANGED version
    /\ UNCHANGED <<db, writesClosed, mutationsHeld, transition, crashes>>

-----------------------------------------------------------------------------
(* The preservation hold: setStudentRecordPreservationHold.                *)

Settled(t) ==
    /\ pc' = [pc EXCEPT ![t] = "done"]
    /\ transition' = NoOp

Step(t, where) ==
    /\ pc' = [pc EXCEPT ![t] = where]
    /\ UNCHANGED transition

\* The transition gets the per-student tail and shuts the mutation gate.
BeginTransition(t) ==
    /\ pc[t] = "ready"
    /\ transition = NoOp
    /\ transition' = t
    /\ mutationsHeld' = TRUE
    /\ pc' = [pc EXCEPT ![t] = IF t \in Places THEN "suspend" ELSE "flip"]
    /\ UNCHANGED <<db, writesClosed, writeLeases, mutationLeases, version, work, faults,
                   crashes>>

\* holdStudentRecordMutationsAndWait has resolved.  The last release resolves every waiter
\* in one task, and parked requests have nothing to do but settle: they are gone before
\* the transition's next database operation comes back.
MutationsDrained == mutationLeases = {} /\ \A r \in Requests : pc[r] # "parked"

\* Placing first clears every purge deadline of the student's tombstones.
SuspendPurge(t) ==
    /\ pc[t] = "suspend"
    /\ MutationsDrained
    /\ \E o \in Outcomes :
        /\ Spend(o)
        /\ armed' = (armed /\ o = "lost")
        /\ Step(t, IF o = "ok" THEN "flip" ELSE "catch")
    /\ UNCHANGED <<student, alias, rows, receipts, gates, version, work, crashes>>

\* With the hold in place, a pending student's write gate is reopened so that the record
\* can still be exported.
ReopenIfPending ==
    writesClosed' = (writesClosed /\ ~(student.exists /\ student.pending))

\* The durable flag is set under the filter that it was not.
PlaceHold(t) ==
    /\ pc[t] = "flip"
    /\ t \in Places
    /\ LET matched == student.exists /\ ~student.hold
       IN \E o \in Outcomes :
            /\ Spend(o)
            /\ student' = Effect(o, matched, [student EXCEPT !.hold = TRUE])
            /\ IF o = "ok" /\ matched
               THEN Settled(t) /\ ReopenIfPending
               ELSE Step(t, IF o = "ok" THEN "reread" ELSE "catch") /\ UNCHANGED writesClosed
    /\ UNCHANGED <<alias, rows, receipts, armed, writeLeases, mutationsHeld, mutationLeases,
                   version, work, crashes>>

\* The flag is cleared under the filter that it was set; a pending student's write gate is
\* shut again before anything else.
ReleaseHold(t) ==
    /\ pc[t] = "flip"
    /\ t \in Releases
    /\ MutationsDrained
    /\ LET matched == student.exists /\ student.hold
       IN \E o \in Outcomes :
            /\ Spend(o)
            /\ student' = Effect(o, matched, [student EXCEPT !.hold = FALSE])
            /\ Step(t, IF o # "ok" THEN "catch" ELSE IF matched THEN "settle" ELSE "reread")
            /\ writesClosed' = (writesClosed \/ (o = "ok" /\ matched /\ student.pending))
    /\ UNCHANGED <<alias, rows, receipts, armed, writeLeases, mutationsHeld, mutationLeases,
                   version, work, crashes>>

\* The filter did not match: the student is gone, or already in the state asked for.  The
\* transition owns the student's tail, so the flag cannot have changed since, and the
\* branches of the code for that case (state-changed) are never taken.
Reread(t) ==
    /\ pc[t] = "reread"
    /\ \E o \in ReadOutcomes :
        /\ Spend(o)
        /\ IF o = "lost"
           THEN Step(t, "catch") /\ UNCHANGED <<writesClosed, mutationsHeld>>
           ELSE IF t \in Places
           THEN /\ Settled(t)
                /\ mutationsHeld' = student.exists
                /\ writesClosed' = (writesClosed /\ ~(student.exists /\ student.pending))
           ELSE /\ Step(t, "settle")
                /\ writesClosed' = (writesClosed \/ (student.exists /\ student.pending))
                /\ UNCHANGED mutationsHeld
    /\ UNCHANGED <<db, writeLeases, mutationLeases, version, work, crashes>>

\* Clearing or scheduling the purge takes several operations on two collections and two
\* reads; a failure leaves either result.
SchedulePurge(o) ==
    /\ Spend(o)
    /\ IF o = "ok" THEN armed' = student.exists ELSE armed' \in BOOLEAN

\* A released pending student's write gate has been shut and must drain.
ReleaseDrained(t) == t \in Releases /\ student.exists /\ student.pending => WritesDrained

\* A released student's tombstones get their deadline (a missing student's lose it); only
\* then is the mutation gate opened.
SettleRelease(t) ==
    /\ pc[t] = "settle"
    /\ ReleaseDrained(t)
    /\ \E o \in ReadOutcomes :
        /\ SchedulePurge(o)
        /\ IF o = "ok" THEN Settled(t) /\ mutationsHeld' = FALSE
                       ELSE Step(t, "catch") /\ UNCHANGED mutationsHeld
    /\ UNCHANGED <<student, alias, rows, receipts, writesClosed, writeLeases,
                   mutationLeases, version, work, crashes>>

\* Mutant: an error is taken to mean that the update did not happen.
HoldAfterErrorAssumed(t) == t \in Releases

HoldAfterError(t) == student.exists /\ student.hold

\* The catch block re-reads the flag: unreadable, the gate stays shut.
CatchTransition(t) ==
    /\ pc[t] = "catch"
    /\ \E o \in ReadOutcomes :
        /\ Spend(o)
        /\ IF o = "lost" THEN Settled(t) /\ UNCHANGED writesClosed
           ELSE IF HoldAfterError(t) THEN Step(t, "catch-held") /\ UNCHANGED writesClosed
           ELSE /\ Step(t, "catch-settle")
                /\ writesClosed' = (writesClosed
                     \/ (t \in Releases /\ student.exists /\ student.pending))
    /\ UNCHANGED <<db, writeLeases, mutationsHeld, mutationLeases, version, work, crashes>>

\* The hold is in place after all: the purge is suspended as well as possible, and the
\* mutation gate stays shut.
CatchHeld(t) ==
    /\ pc[t] = "catch-held"
    /\ \E o \in Outcomes : Spend(o) /\ armed' = (armed /\ o = "lost")
    /\ IF t \in Places THEN ReopenIfPending ELSE UNCHANGED writesClosed
    /\ Settled(t)
    /\ UNCHANGED <<student, alias, rows, receipts, writeLeases, mutationsHeld,
                   mutationLeases, version, work, crashes>>

\* The hold is not in place: the mutation gate opens if the purge schedule could be put
\* right, and stays shut otherwise.
CatchSettle(t) ==
    /\ pc[t] = "catch-settle"
    /\ ReleaseDrained(t)
    /\ \E o \in ReadOutcomes :
        /\ SchedulePurge(o)
        /\ mutationsHeld' = (mutationsHeld /\ o # "ok")
    /\ Settled(t)
    /\ UNCHANGED <<student, alias, rows, receipts, writesClosed, writeLeases,
                   mutationLeases, version, work, crashes>>

-----------------------------------------------------------------------------
\* The process dies and is restarted: the database is what it was; gates, leases, the
\* tail and every request in flight are gone.
Crash ==
    /\ crashes < MaxCrashes
    /\ crashes' = crashes + 1
    /\ writesClosed' = FALSE /\ writeLeases' = {}
    /\ mutationsHeld' = FALSE /\ mutationLeases' = {}
    /\ transition' = NoOp
    /\ pc' = [r \in Requests |-> IF pc[r] = "ready" THEN "ready" ELSE Rest(r)]
    /\ version' = [r \in Requests |-> 0]
    /\ work' = [d \in Deleters |-> NoWork(d)]
    /\ UNCHANGED <<db, faults>>

WriterStep(r) ==
    \/ r \in ProjectWrites \cup Connects /\ Authenticate(r)
    \/ r \in Connects \cup AccountChanges /\ EnterWrites(r)
    \/ r \in Protected /\ (EnterBoth(r) \/ VerifyHold(r) \/ Unpark(r))
    \/ ReserveQuota(r) \/ CreateProject(r) \/ LoadManagedStudent(r) \/ CreateReview(r)
    \/ r \in AliasCorrections /\ CorrectUsername(r)
    \/ LoadForConnect(r)
    \/ r \in Connects /\ (CreateAttempt(r) \/ WithdrawAttempt(r))
    \/ LoadAccount(r)
    \/ r \in AccountChanges /\ ChangeAccount(r)
    \/ r \in SignIns /\ (BeginSignIn(r) \/ FinishSignIn(r))

DeletionStep(d) ==
    \/ EnterMutations(d) \/ VerifyHold(d) \/ Unpark(d) \/ ReadForDeletion(d)
    \/ FirstFence(d) \/ ConsultReceipt(d) \/ SecondFence(d) \/ ReuseReceipt(d)
    \/ \E c \in Collections : CountInventory(d, c) \/ SweepRows(d, c)
    \/ RecordReceipt(d) \/ RecheckReceipt(d) \/ RemoveStudent(d)
    \/ MarkNeedsRetry(d) \/ CompleteReceipt(d)

SweeperStep(s) ==
    \/ BeginSweep(s) \/ CheckOrphan(s) \/ PrepareOrphan(s)
    \/ \E c \in Collections : SweepOrphan(s, c)
    \/ CompleteOrphan(s) \/ RetryOrphan(s) \/ FindCandidate(s)

TransitionStep(t) ==
    \/ BeginTransition(t) \/ SuspendPurge(t) \/ PlaceHold(t) \/ ReleaseHold(t)
    \/ Reread(t) \/ SettleRelease(t) \/ CatchTransition(t) \/ CatchHeld(t) \/ CatchSettle(t)

Next ==
    \/ \E r \in Leasers \cup SignIns : WriterStep(r)
    \/ \E d \in Deleters : DeletionStep(d)
    \/ SweeperStep(Sweeper)
    \/ \E t \in Transitions : TransitionStep(t)
    \/ Expire
    \/ Crash

Spec == Init /\ [][Next]_vars

\* Fairness: a request that has arrived runs to its end (the event loop, and a database
\* that answers or fails), and the sweep's timer keeps firing.  Nothing makes a request
\* arrive, a deadline pass or the process crash.
Fairness ==
    /\ \A r \in Leasers \cup SignIns : WF_vars(pc[r] # "ready" /\ WriterStep(r))
    /\ \A d \in Deleters : WF_vars(pc[d] # "ready" /\ DeletionStep(d))
    /\ WF_vars(SweeperStep(Sweeper))
    /\ \A t \in Transitions : WF_vars(pc[t] # "ready" /\ TransitionStep(t))

FairSpec == Spec /\ Fairness

-----------------------------------------------------------------------------
(* Properties.                                                             *)

NoRows == \A c \in Collections : rows[c] = {}

RecordsStay ==
    student.exists /\ student.hold =>
        /\ student'.exists
        /\ student'.pending = student.pending
        /\ alias' = alias
        /\ \A c \in Collections \ {"oauth"} : rows'[c] = rows[c]

\* A held record is read-only (privacy-operations.md: project and review changes, alias
\* correction and deletion are refused): from the moment the hold is durable until it is
\* released nothing that an inspection would see changes, whatever was already past its
\* checks when the hold was placed, and across a restart that loses the gates.
HeldRecordsAreFrozen == [][RecordsStay]_vars

\* A removed student leaves no record behind, and no request that was authenticated or
\* loaded its student before the removal ever recreates one.
NoResurrection == ~student.exists => NoRows

\* While deletion is pending the account is disabled: no activation, code reset or
\* sign-in that read the account earlier turns it on again.
PendingStaysDisabled == student.exists /\ student.pending => ~student.active

\* The inventory the receipt reports is complete: once it is durable, and as long as the
\* student is there, every row that exists is one the inventory counted, so what is
\* deleted later is never more than what is reported.
InventoryIsComplete ==
    student.exists /\ student.op # NoOp /\ receipts[student.op].status # "none" =>
        \A c \in Collections : rows[c] \subseteq receipts[student.op].inventory[c]

\* A completed receipt tells the truth, for every interleaving of two deletions, the
\* sweeper and failed acknowledgements.
CompletedMeansGone ==
    \A op \in Deleters : receipts[op].status = "completed" => ~student.exists /\ NoRows

\* "A pending retry keeps the original reason and operation ID and reuses the same
\* receipt": once an account is pending it stays so, under one operation and one reason,
\* until it is removed.
OperationIsStable ==
    [][student.op # NoOp =>
        /\ student'.pending
        /\ student'.op = student.op
        /\ student'.reason = student.reason
        /\ \A op \in Deleters \ {student.op} : receipts'[op] = receipts[op]]_vars

\* "A concurrent successful sign-in wins only by atomically renewing the deadline before
\* the first deletion fence": the automatic deletion never claims an account whose
\* deadline was renewed after the sweep selected it.
OnlyExpiredAccountsAreSwept ==
    [][~student.pending /\ student'.pending /\ student'.reason = "retention-expiry"
        => student.expired]_vars

\* No tombstone of a held record has a purge deadline.
HoldSuspendsPurge == student.exists /\ student.hold => ~armed

\* "If a deletion was already pending, release also recloses the deletion lease gate": in a
\* process that shut the write gate for a deletion, the gate is shut again whenever the hold
\* is off and mutations are admitted.
ReleaseReclosesWrites ==
    student.exists /\ student.op # NoOp /\ receipts[student.op].status # "none"
      /\ ~student.hold /\ ~mutationsHeld /\ crashes = 0 => writesClosed

\* Every request, transition and sweep that began comes to an end: the gates, the wait for the
\* drain and the per-student tail never make two of them wait for each other.
EveryRequestEnds ==
    \A r \in Requests : pc[r] # "ready" ~> pc[r] = Rest(r)

\* A pending deletion is finished by the sweeper, unless the record is held or its gate
\* was deliberately left shut after an error.
PendingIsDeleted ==
    student.exists /\ student.pending
        ~> ~student.exists \/ student.hold \/ mutationsHeld

\* The receipt of a removed student does not stay unfinished.
ReceiptIsFinished ==
    ~student.exists ~> \A op \in Deleters : receipts[op].status \in {"none", "completed"}

\* "Once deletion completes, its 90-day follow-up period begins" and the receipt is
\* excluded from Admin: completion is final.
CompletionIsFinal ==
    [][\A op \in Deleters : receipts[op].status = "completed"
        => receipts'[op].status = "completed"]_vars

-----------------------------------------------------------------------------
(* What all of it is for.                                                  *)

\* What the contract speaks of.  How often a receipt was tried does not matter to it.
Phase       == IF ~student.exists THEN "gone" ELSE IF student.pending THEN "pending" ELSE "open"
Held        == student.exists /\ student.hold
Report(op)  == [receipts[op] EXCEPT !.status = IF @ \in Unfinished THEN "open" ELSE @]
Reports     == [op \in Deleters |-> Report(op)]

Contract == INSTANCE RecordContract WITH
    Operations <- Deleters,
    phase      <- Phase,
    enabled    <- student.active,
    expired    <- student.expired,
    operation  <- student.op,
    reason     <- student.reason,
    reports    <- Reports,
    held       <- Held,
    deadlines  <- armed

\* Gates, fences, retries, sweeps and restarts together give a record set that keeps the
\* contract: rows go only under a durable receipt of a pending account, the account only
\* when they are gone, nothing of a held record but its access and link attempts changes,
\* and a lost answer, a crash or an overtaken handler shows as nothing at all.
KeepsContract == Contract!Spec
=============================================================================
