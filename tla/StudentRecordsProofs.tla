------------------------- MODULE StudentRecordsProofs -------------------------
(***************************************************************************)
(* The proofs about one student's records, for all sets of requests and    *)
(* all bounds.                                                             *)
(*                                                                         *)
(* First the types: one lemma for each operator the actions are built      *)
(* from, then one step for each action.  Then, that a held record is       *)
(* frozen: HoldInvariant is inductive, and no step of the system changes   *)
(* what it protects.                                                       *)
(*                                                                         *)
(* Then the life of an account that is deleted.  A pending account stays   *)
(* disabled under one operation, whoever deletes it, and a held record's   *)
(* tombstones have no deadline: AccountInvariant and PurgeInvariant are    *)
(* inductive.  A removed student leaves nothing behind and never comes     *)
(* back: DeletionInvariant is inductive on top of HoldInvariant, which it  *)
(* needs where a hold transition reopens the write gate.  And the receipt  *)
(* says what was left: InventoryInvariant rests on these but the purge's.  *)
(*                                                                         *)
(* Last, all of it together but the inventory implements RecordContract:   *)
(* every step is one of its actions or changes nothing it speaks of.       *)
(***************************************************************************)
EXTENDS StudentRecordsInvariant, TLAPS

-----------------------------------------------------------------------------
(* The operators.                                                          *)

\* Every kind of request is a request.
LEMMA KindsAreRequests ==
    /\ Leasers \subseteq Requests /\ SignIns \subseteq Requests
    /\ Deleters \subseteq Requests /\ Transitions \subseteq Requests
    /\ Protected \subseteq Leasers /\ Connects \subseteq Leasers
    /\ AccountChanges \subseteq Leasers /\ ProjectWrites \subseteq Protected
    /\ ReviewWrites \subseteq Protected /\ AliasCorrections \subseteq Protected
    /\ Sweeper \in Deleters /\ Deletions \subseteq Deleters
    /\ Places \subseteq Transitions /\ Releases \subseteq Transitions
    /\ Requests \subseteq RowIds
BY DEF Requests, Leasers, Protected, Creators, Deleters, Transitions, RowIds

\* A failure is counted within its bound.
LEMMA SpendType ==
    ASSUME HandlerTypes, NEW o \in Outcomes, Spend(o)
    PROVE  faults' \in 0..MaxFaults
BY BoundsAreNaturals DEF HandlerTypes, Outcomes, Spend

LEMMA ReadOutcomesType == ReadOutcomes \subseteq Outcomes
BY DEF ReadOutcomes

LEMMA RestType == \A r : Rest(r) \in States
BY DEF Rest, States

\* Going on or settling keeps the control state well formed.
LEMMA GoType ==
    ASSUME Types, NEW r \in Requests, NEW where \in States, Go(r, where)
    PROVE  /\ pc' \in [Requests -> States]
           /\ writeLeases' \subseteq Leasers
           /\ mutationLeases' \subseteq Protected \cup Deleters
BY DEF Types, GateTypes, HandlerTypes, Go

LEMMA FinishType ==
    ASSUME Types, NEW r \in Requests, Finish(r)
    PROVE  /\ pc' \in [Requests -> States]
           /\ writeLeases' \subseteq Leasers
           /\ mutationLeases' \subseteq Protected \cup Deleters
BY RestType DEF Types, GateTypes, HandlerTypes, Finish

LEMMA GoIfType ==
    ASSUME Types, NEW r \in Requests, NEW where \in States, NEW b, GoIf(r, b, where)
    PROVE  /\ pc' \in [Requests -> States]
           /\ writeLeases' \subseteq Leasers
           /\ mutationLeases' \subseteq Protected \cup Deleters
BY GoType, FinishType DEF GoIf

LEMMA RowsType ==
    ASSUME rows \in Inventories, NEW c, NEW r \in RowIds
    PROVE  /\ WithRow(c, r) \in Inventories
           /\ WithoutRow(c, r) \in Inventories
           /\ [rows EXCEPT ![c] = {}] \in Inventories
<1>1. CASE c \in Collections
  BY <1>1 DEF Inventories, WithRow, WithoutRow
<1>2. CASE c \notin Collections
  BY <1>2 DEF Inventories, WithRow, WithoutRow
<1>3. QED
  BY <1>1, <1>2

LEMMA EffectType ==
    ASSUME student \in Students, NEW o, NEW matched, NEW new \in Students
    PROVE  Effect(o, matched, new) \in Students
BY DEF Effect

LEMMA NoWorkType == NoInventory \in Inventories /\ \A d \in Deleters : NoWork(d) \in Works
BY DEF NoWork, Works, NoInventory, Inventories

LEMMA SetType ==
    ASSUME HandlerTypes, NEW d, NEW new \in Works, Set(d, new)
    PROVE  work' \in [Deleters -> Works]
BY DEF HandlerTypes, Set

LEMMA StatusType ==
    ASSUME DatabaseTypes, NEW op, NEW status \in Statuses
    PROVE  WithStatus(op, status) \in [Deleters -> Receipts]
<1>1. \A r \in Receipts : [r EXCEPT !.status = status] \in Receipts
  BY DEF Receipts
<1>2. QED
  BY <1>1 DEF DatabaseTypes, WithStatus

\* One field of the document changes at a time.
LEMMA FieldType ==
    ASSUME NEW s \in Students
    PROVE  /\ \A b \in BOOLEAN :
                /\ [s EXCEPT !.exists = b] \in Students
                /\ [s EXCEPT !.active = b] \in Students
                /\ [s EXCEPT !.pending = b] \in Students
                /\ [s EXCEPT !.expired = b] \in Students
                /\ [s EXCEPT !.hold = b] \in Students
           /\ \A op \in Deleters \cup {NoOp} : [s EXCEPT !.op = op] \in Students
           /\ \A e \in Reasons \cup {"none"} : [s EXCEPT !.reason = e] \in Students
           /\ \A n \in Nat : [s EXCEPT !.version = n] \in Students
           /\ s.version \in Nat
BY DEF Students

\* What a sign-in, an account change and the two fences write.
LEMMA UpdateType ==
    ASSUME NEW s \in Students, NEW a \in BOOLEAN, NEW p \in BOOLEAN,
           NEW op \in Deleters \cup {NoOp}, NEW e \in Reasons \cup {"none"}, NEW n \in Nat
    PROVE  /\ [s EXCEPT !.expired = a, !.version = n] \in Students
           /\ [s EXCEPT !.active = a, !.version = n] \in Students
           /\ [s EXCEPT !.active = a, !.pending = p, !.reason = e, !.version = n]
                \in Students
           /\ [s EXCEPT !.active = a, !.pending = p, !.op = op, !.reason = e,
                        !.version = n] \in Students
<1> DEFINE x  == [s EXCEPT !.expired = a]
           s1 == [s EXCEPT !.active = a]
           s2 == [s1 EXCEPT !.pending = p]
           s3 == [s2 EXCEPT !.op = op]
           r2 == [s2 EXCEPT !.reason = e]
           r3 == [s3 EXCEPT !.reason = e]
<1>1. x \in Students /\ s1 \in Students
  BY FieldType
<1>x HIDE DEF x, s1
<1>2. s2 \in Students
  BY <1>1, FieldType
<1>y HIDE DEF s2
<1>3. s3 \in Students /\ r2 \in Students
  BY <1>2, FieldType
<1>z HIDE DEF s3, r2
<1>4. r3 \in Students
  BY <1>3, FieldType
<1>w HIDE DEF r3
<1>5. /\ [x EXCEPT !.version = n] \in Students
      /\ [s1 EXCEPT !.version = n] \in Students
      /\ [r2 EXCEPT !.version = n] \in Students
      /\ [r3 EXCEPT !.version = n] \in Students
  BY <1>1, <1>3, <1>4, FieldType
<1>6. /\ [x EXCEPT !.version = n] = [s EXCEPT !.expired = a, !.version = n]
      /\ [s1 EXCEPT !.version = n] = [s EXCEPT !.active = a, !.version = n]
      /\ [r2 EXCEPT !.version = n]
           = [s EXCEPT !.active = a, !.pending = p, !.reason = e, !.version = n]
      /\ [r3 EXCEPT !.version = n]
           = [s EXCEPT !.active = a, !.pending = p, !.op = op, !.reason = e, !.version = n]
  BY DEF x, s1, s2, s3, r2, r3
<1>7. QED
  BY <1>5, <1>6

\* What the local variables of a deletion go through.
LEMMA WorkType ==
    ASSUME NEW w \in Works, NEW b \in BOOLEAN, NEW op \in Deleters,
           NEW e \in Reasons \cup {"none"}, NEW t \in SUBSET Collections,
           NEW seen \in SUBSET RowIds, NEW c
    PROVE  /\ [w EXCEPT !.op = op] \in Works
           /\ [w EXCEPT !.resume = b, !.op = op, !.reason = e] \in Works
           /\ [w EXCEPT !.receipt = b, !.reason = e] \in Works
           /\ [w EXCEPT !.todo = t, !.failed = b] \in Works
           /\ [w EXCEPT !.todo = t, !.counted[c] = seen] \in Works
<1> DEFINE w1 == [w EXCEPT !.resume = b]
           w2 == [w1 EXCEPT !.op = op]
           v1 == [w EXCEPT !.receipt = b]
           u1 == [w EXCEPT !.todo = t]
           n1 == [u1.counted EXCEPT ![c] = seen]
<1>1. w1 \in Works /\ v1 \in Works /\ u1 \in Works /\ [w EXCEPT !.op = op] \in Works
  BY DEF Works
<1>x HIDE DEF w1, v1, u1
<1>2. w2 \in Works /\ u1.counted \in Inventories
  BY <1>1 DEF Works
<1>3. n1 \in Inventories
  BY <1>2 DEF Inventories
<1>y HIDE DEF w2, n1
<1>4. /\ [w2 EXCEPT !.reason = e] \in Works
      /\ [v1 EXCEPT !.reason = e] \in Works
      /\ [u1 EXCEPT !.failed = b] \in Works
      /\ [u1 EXCEPT !.counted = n1] \in Works
  BY <1>1, <1>2, <1>3 DEF Works
<1>5. /\ [w2 EXCEPT !.reason = e] = [w EXCEPT !.resume = b, !.op = op, !.reason = e]
      /\ [v1 EXCEPT !.reason = e] = [w EXCEPT !.receipt = b, !.reason = e]
      /\ [u1 EXCEPT !.failed = b] = [w EXCEPT !.todo = t, !.failed = b]
  BY DEF w1, w2, v1, u1
<1>6. [u1 EXCEPT !.counted = n1] = [w EXCEPT !.todo = t, !.counted[c] = seen]
  BY DEF u1, n1
<1>7. QED
  BY <1>1, <1>4, <1>5, <1>6

\* The deletion of one collection, for a deletion and for the sweeper's orphans.
LEMMA DeleteRowsType ==
    ASSUME Types, NEW d \in Deleters, NEW c \in Collections, NEW from \in States,
           NEW allDone \in States, NEW someFailed \in States,
           DeleteRows(d, from, c, allDone, someFailed)
    PROVE  Types'
<1> USE DEF Types, DatabaseTypes, GateTypes, HandlerTypes
<1>1. d \in Requests /\ work[d] \in Works
  BY KindsAreRequests
<1>2. work[d].todo \in SUBSET Collections /\ work[d].failed \in BOOLEAN
  BY <1>1 DEF Works
<1>3. \A t \in SUBSET Collections, b \in BOOLEAN :
        [work[d] EXCEPT !.todo = t, !.failed = b] \in Works
  BY <1>1, WorkType
<1>4. [rows EXCEPT ![c] = {}] \in Inventories
  BY RowsType DEF RowIds
<1>5. rows' \in Inventories
  BY <1>4 DEF DeleteRows
<1>6. QED
  BY <1>1, <1>2, <1>3, <1>5, GoType, SetType, SpendType DEF DeleteRows

-----------------------------------------------------------------------------
(* The actions.                                                            *)

LEMMA TypesInit == Init => Types
<1> SUFFICES ASSUME Init PROVE Types
    OBVIOUS
<1> USE DEF Init
<1>1. DatabaseTypes
  BY NoWorkType DEF DatabaseTypes, Students, Inventories, RowIds, Receipts, Statuses,
                    NoReceipt, NoInventory
<1>2. GateTypes
  BY DEF GateTypes
<1>3. HandlerTypes
  BY NoWorkType, BoundsAreNaturals DEF HandlerTypes, States
<1>4. QED
  BY <1>1, <1>2, <1>3 DEF Types

LEMMA TypesWriters ==
    ASSUME Types, NEW r \in Leasers \cup SignIns, WriterStep(r)
    PROVE  Types'
<1> USE DEF Types, DatabaseTypes, GateTypes, HandlerTypes, db, gates
<1>0. r \in Requests /\ r \in RowIds
  BY KindsAreRequests
<1>1. CASE Authenticate(r)
  BY <1>0, <1>1 DEF Authenticate, States
<1>2. CASE r \in Connects \cup AccountChanges /\ EnterWrites(r)
  BY <1>0, <1>2, FinishType, KindsAreRequests DEF EnterWrites, States
<1>3. CASE r \in Protected /\ EnterBoth(r)
  BY <1>0, <1>3, FinishType, KindsAreRequests DEF EnterBoth, States
<1>4. CASE VerifyHold(r)
  <2>1. AfterVerify(r) \in States
    BY DEF AfterVerify, States
  <2>2. faults' \in 0..MaxFaults
    BY <1>4, SpendType, ReadOutcomesType DEF VerifyHold
  <2>3. QED
    BY <1>0, <1>4, <2>1, <2>2, GoType, FinishType DEF VerifyHold, States
<1>5. CASE Unpark(r)
  BY <1>0, <1>5, FinishType DEF Unpark
<1>6. CASE CreateProject(r)
  BY <1>0, <1>6, FinishType, SpendType, RowsType DEF CreateProject
<1>7. CASE ReserveQuota(r) \/ LoadManagedStudent(r)
  <2>1. "create" \in States
    BY DEF States
  <2>2. QED
    BY <1>0, <1>7, <2>1, GoIfType, SpendType, ReadOutcomesType
       DEF ReserveQuota, LoadManagedStudent
<1>8. CASE CreateReview(r)
  BY <1>0, <1>8, FinishType, SpendType, RowsType DEF CreateReview
<1>9. CASE CorrectUsername(r)
  <2>1. [student EXCEPT !.version = @ + 1] \in Students
    BY DEF Students
  <2>2. QED
    BY <1>0, <1>9, <2>1, FinishType, SpendType, EffectType DEF CorrectUsername
<1>10. CASE LoadForConnect(r)
  <2>1. "attempt" \in States
    BY DEF States
  <2>2. QED
    BY <1>0, <1>10, <2>1, GoIfType, SpendType, ReadOutcomesType DEF LoadForConnect
<1>11. CASE CreateAttempt(r)
  <2>1. "withdraw" \in States
    BY DEF States
  <2>2. QED
    BY <1>0, <1>11, <2>1, GoIfType, SpendType, RowsType DEF CreateAttempt
<1>12. CASE WithdrawAttempt(r)
  BY <1>0, <1>12, FinishType, SpendType, RowsType DEF WithdrawAttempt
<1>13. CASE LoadAccount(r)
  <2>1. "change" \in States /\ student.version \in Nat
    BY DEF States, Students
  <2>2. QED
    BY <1>0, <1>13, <2>1, GoIfType, SpendType, ReadOutcomesType DEF LoadAccount
<1>14. CASE ChangeAccount(r)
  <2>1. student \in Students /\ student.version + 1 \in Nat
    BY FieldType
  <2>2. PICK o \in Outcomes, active \in BOOLEAN :
          /\ Spend(o)
          /\ student' = Effect(o, AccountStillCurrent(r, active),
                             [student EXCEPT !.active = active, !.version = @ + 1])
    BY <1>14 DEF ChangeAccount
  <2>3. [student EXCEPT !.active = active, !.version = @ + 1] \in Students
    BY <2>1, UpdateType
  <2>4. student' \in Students
    BY <2>1, <2>2, <2>3, EffectType
  <2>5. QED
    BY <1>0, <1>14, <2>2, <2>4, FinishType, SpendType DEF ChangeAccount
<1>15. CASE BeginSignIn(r)
  <2>1. "signin" \in States /\ student.version \in Nat
    BY DEF States, Students
  <2>2. QED
    BY <1>0, <1>15, <2>1 DEF BeginSignIn
<1>16. CASE FinishSignIn(r)
  <2>1. student \in Students /\ student.version + 1 \in Nat
    BY FieldType
  <2>2. [student EXCEPT !.expired = FALSE, !.version = @ + 1] \in Students
    BY <2>1, UpdateType
  <2>3. student' \in Students
    BY <1>16, <2>1, <2>2 DEF FinishSignIn, Effect
  <2>4. QED
    BY <1>0, <1>16, <2>3, FinishType, SpendType DEF FinishSignIn
<1>17. QED
  BY <1>1, <1>2, <1>3, <1>4, <1>5, <1>6, <1>7, <1>8, <1>9, <1>10, <1>11, <1>12, <1>13,
     <1>14, <1>15, <1>16 DEF WriterStep

LEMMA TypesDeletion ==
    ASSUME Types, NEW d \in Deleters, DeletionStep(d)
    PROVE  Types'
<1> USE DEF Types, DatabaseTypes, GateTypes, HandlerTypes, db, gates
<1>0. d \in Requests /\ d \in RowIds /\ work[d] \in Works /\ version[d] \in Nat
  BY KindsAreRequests
<1>a. /\ work[d].op \in Deleters /\ work[d].reason \in Reasons \cup {"none"}
      /\ work[d].todo \in SUBSET Collections /\ work[d].failed \in BOOLEAN
      /\ work[d].counted \in Inventories
  BY <1>0 DEF Works
<1>b. /\ student.op \in Deleters \cup {NoOp} /\ student.reason \in Reasons \cup {"none"}
      /\ student.version \in Nat /\ student.version + 1 \in Nat
  BY DEF Students
<1>c. ASSUME FinishDeletion(d)
      PROVE  /\ pc' \in [Requests -> States]
             /\ writeLeases' \subseteq Leasers
             /\ mutationLeases' \subseteq Protected \cup Deleters
             /\ work' \in [Deleters -> Works]
  BY <1>0, <1>c, FinishType, SetType, NoWorkType DEF FinishDeletion
<1>1. CASE EnterMutations(d)
  BY <1>0, <1>1, FinishType DEF EnterMutations, States
<1>2. CASE VerifyHold(d)
  <2>1. AfterVerify(d) \in States
    BY DEF AfterVerify, States
  <2>2. faults' \in 0..MaxFaults
    BY <1>2, SpendType, ReadOutcomesType DEF VerifyHold
  <2>3. QED
    BY <1>0, <1>2, <2>1, <2>2, GoType, FinishType DEF VerifyHold, States
<1>3. CASE Unpark(d)
  BY <1>0, <1>3, FinishType DEF Unpark
<1>4. CASE ReadForDeletion(d)
  <2>1. "fence1" \in States /\ "julio-request" \in Reasons
    BY DEF States, Reasons
  <2>2. \A b \in BOOLEAN, op \in Deleters, e \in Reasons \cup {"none"} :
          [NoWork(d) EXCEPT !.resume = b, !.op = op, !.reason = e] \in Works
    BY NoWorkType, WorkType
  <2>3. QED
    BY <1>0, <1>4, <1>b, <1>c, <2>1, <2>2, GoType, SetType, SpendType, ReadOutcomesType
       DEF ReadForDeletion
<1>5. CASE FirstFence(d)
  <2>1. "consult" \in States /\ "fence2" \in States
    BY DEF States
  <2>2. [student EXCEPT !.active = FALSE, !.pending = TRUE, !.op = work[d].op,
                        !.reason = work[d].reason, !.version = @ + 1] \in Students
    BY <1>a, <1>b, UpdateType
  <2>3. student' \in Students
    BY <1>5, <2>2 DEF FirstFence, Effect
  <2>4. QED
    BY <1>0, <1>5, <1>b, <1>c, <2>1, <2>3, GoType, SpendType DEF FirstFence
<1>6. CASE ConsultReceipt(d)
  <2>1. "fence2" \in States
    BY DEF States
  <2>2. \A b \in BOOLEAN, e \in Reasons \cup {"none"} :
          [work[d] EXCEPT !.receipt = b, !.reason = e] \in Works
    BY <1>0, WorkType
  <2>3. receipts[work[d].op].reason \in Reasons \cup {"none"}
    BY <1>a DEF Receipts
  <2>4. QED
    BY <1>0, <1>6, <1>a, <1>c, <2>1, <2>2, <2>3, GoType, SetType, SpendType, ReadOutcomesType
       DEF ConsultReceipt
<1>7. CASE SecondFence(d)
  <2>1. "reuse" \in States /\ "count" \in States
    BY DEF States
  <2>2. student \in Students
           /\ [student EXCEPT !.active = FALSE, !.pending = TRUE,
                              !.reason = work[d].reason, !.version = @ + 1] \in Students
    BY <1>a, <1>b, UpdateType
  <2>3. student' \in Students
    BY <1>7, <2>2 DEF SecondFence, Effect
  <2>4. QED
    BY <1>0, <1>7, <1>b, <1>c, <2>1, <2>3, GoType, SpendType DEF SecondFence
<1>8. CASE ReuseReceipt(d)
  <2>1. "sweep" \in States /\ "in-progress" \in Statuses
    BY DEF States, Statuses
  <2>2. QED
    BY <1>0, <1>8, <1>c, <2>1, GoType, SpendType, StatusType DEF ReuseReceipt
<1>9. ASSUME NEW c \in Collections, CountInventory(d, c)
      PROVE  Types'
  <2>1. "record" \in States /\ "count" \in States
    BY DEF States
  <2>2. rows[c] \in SUBSET RowIds
    BY DEF Inventories
  <2>3. \A t \in SUBSET Collections :
          [work[d] EXCEPT !.todo = t, !.counted[c] = rows[c]] \in Works
    BY <1>0, <2>2, WorkType
  <2>4. QED
    BY <1>0, <1>9, <1>a, <1>c, <2>1, <2>3, GoType, SetType, SpendType, ReadOutcomesType
       DEF CountInventory
<1>10. ASSUME NEW c \in Collections, SweepRows(d, c)
       PROVE  Types'
  <2>1. "sweep" \in States /\ "remove" \in States /\ "retry" \in States
    BY DEF States
  <2>2. QED
    BY <1>10, <2>1, DeleteRowsType DEF SweepRows
<1>11. CASE RecordReceipt(d)
  <2>1. "sweep" \in States /\ "recheck" \in States
    BY DEF States
  <2>2. [status |-> "in-progress", reason |-> work[d].reason,
         inventory |-> work[d].counted] \in Receipts
    BY <1>a DEF Receipts, Statuses
  <2>3. receipts' \in [Deleters -> Receipts]
    BY <1>11, <2>2 DEF RecordReceipt
  <2>4. QED
    BY <1>0, <1>11, <2>1, <2>3, GoType, SpendType DEF RecordReceipt
<1>12. CASE RecheckReceipt(d)
  <2>1. "sweep" \in States
    BY DEF States
  <2>2. QED
    BY <1>0, <1>12, <1>c, <2>1, GoType, SpendType, ReadOutcomesType DEF RecheckReceipt
<1>13. CASE RemoveStudent(d)
  <2>1. "complete" \in States /\ "retry" \in States
    BY DEF States
  <2>2. [student EXCEPT !.exists = FALSE] \in Students
    BY FieldType
  <2>3. student' \in Students
    BY <1>13, <2>2 DEF RemoveStudent, Effect
  <2>4. QED
    BY <1>0, <1>13, <2>1, <2>3, GoType, SpendType DEF RemoveStudent
<1>14. CASE MarkNeedsRetry(d)
  <2>1. "needs-retry" \in Statuses
    BY DEF Statuses
  <2>2. QED
    BY <1>0, <1>14, <1>c, <2>1, SpendType, StatusType DEF MarkNeedsRetry
<1>15. CASE CompleteReceipt(d)
  <2>1. "completed" \in Statuses
    BY DEF Statuses
  <2>2. QED
    BY <1>0, <1>15, <1>c, <2>1, SpendType, StatusType DEF CompleteReceipt
<1>16. QED
  BY <1>1, <1>2, <1>3, <1>4, <1>5, <1>6, <1>7, <1>8, <1>9, <1>10, <1>11, <1>12, <1>13,
     <1>14, <1>15 DEF DeletionStep

LEMMA TypesSweeper ==
    ASSUME Types, SweeperStep(Sweeper)
    PROVE  Types'
<1> DEFINE s == Sweeper
<1> USE DEF Types, DatabaseTypes, GateTypes, HandlerTypes, db, gates
<1>0. s \in Requests /\ s \in Deleters /\ work[s] \in Works
  BY KindsAreRequests
<1>a. work[s].op \in Deleters
  BY <1>0 DEF Works
<1>b. /\ student.op \in Deleters \cup {NoOp} /\ student.reason \in Reasons \cup {"none"}
      /\ student.version \in Nat /\ student.pending \in BOOLEAN
  BY DEF Students
<1>c. ASSUME FinishDeletion(s)
      PROVE  /\ pc' \in [Requests -> States]
             /\ writeLeases' \subseteq Leasers
             /\ mutationLeases' \subseteq Protected \cup Deleters
             /\ work' \in [Deleters -> Works]
  BY <1>0, <1>c, FinishType, SetType, NoWorkType DEF FinishDeletion
<1>d. /\ {"orphan", "prepare", "orphan-sweep", "orphan-complete", "orphan-retry",
          "candidates", "gate"} \subseteq States
      /\ {"in-progress", "needs-retry", "completed"} \subseteq Statuses
  BY DEF States, Statuses
<1>e. ASSUME NEW from, NEW status \in Statuses, NEW next \in States,
             UpdateOrphan(s, from, status, next)
      PROVE  Types'
  <2>1. "orphan-retry" \in States /\ "candidates" \in States
    BY <1>d
  <2>2. QED
    BY <1>0, <1>e, <2>1, GoType, SpendType, StatusType DEF UpdateOrphan
<1>1. CASE BeginSweep(s)
  <2>1. \A op \in Deleters : [NoWork(s) EXCEPT !.op = op] \in Works
    BY <1>0, NoWorkType, WorkType
  <2>2. QED
    BY <1>0, <1>1, <1>d, <2>1, GoType, FinishType, SetType, SpendType, ReadOutcomesType
       DEF BeginSweep
<1>2. CASE CheckOrphan(s)
  BY <1>0, <1>2, <1>c, <1>d, GoType, SpendType, ReadOutcomesType DEF CheckOrphan
<1>3. CASE PrepareOrphan(s)
  BY <1>3, <1>d, <1>e DEF PrepareOrphan
<1>4. ASSUME NEW c \in Collections, SweepOrphan(s, c)
      PROVE  Types'
  BY <1>0, <1>4, <1>d, DeleteRowsType DEF SweepOrphan
<1>5. CASE CompleteOrphan(s)
  BY <1>5, <1>d, <1>e DEF CompleteOrphan
<1>6. CASE RetryOrphan(s)
  BY <1>0, <1>6, <1>d, GoType, SpendType, StatusType DEF RetryOrphan
<1>7. CASE FindCandidate(s)
  <2>1. "retention-expiry" \in Reasons
    BY DEF Reasons
  <2>2. \A b \in BOOLEAN, op \in Deleters, e \in Reasons \cup {"none"} :
          [NoWork(s) EXCEPT !.resume = b, !.op = op, !.reason = e] \in Works
    BY <1>0, NoWorkType, WorkType
  <2>3. QED
    BY <1>0, <1>7, <1>b, <1>c, <1>d, <2>1, <2>2, GoType, SetType, SpendType,
       ReadOutcomesType DEF FindCandidate
<1>8. QED
  BY <1>1, <1>2, <1>3, <1>4, <1>5, <1>6, <1>7 DEF SweeperStep

LEMMA TypesTransitions ==
    ASSUME Types, NEW t \in Transitions, TransitionStep(t)
    PROVE  Types'
<1> USE DEF Types, DatabaseTypes, GateTypes, HandlerTypes, db, gates
<1>0. t \in Requests
  BY KindsAreRequests
<1>a. {"suspend", "flip", "reread", "settle", "catch", "catch-held", "catch-settle",
       "done"} \subseteq States
  BY DEF States
<1>b. ASSUME Settled(t)
      PROVE  pc' \in [Requests -> States] /\ transition' \in Transitions \cup {NoOp}
  BY <1>0, <1>a, <1>b DEF Settled
<1>c. ASSUME NEW where \in States, Step(t, where)
      PROVE  pc' \in [Requests -> States] /\ transition' \in Transitions \cup {NoOp}
  BY <1>0, <1>c DEF Step
<1>d. ASSUME NEW o \in ReadOutcomes, SchedulePurge(o)
      PROVE  armed' \in BOOLEAN /\ faults' \in 0..MaxFaults
  <2>1. student.exists \in BOOLEAN
    BY DEF Students
  <2>2. QED
    BY <1>d, <2>1, SpendType, ReadOutcomesType DEF SchedulePurge
<1>1. CASE BeginTransition(t)
  <2>1. pc' \in [Requests -> States]
    BY <1>1, <1>a DEF BeginTransition
  <2>2. QED
    BY <1>1, <2>1 DEF BeginTransition
<1>2. CASE SuspendPurge(t)
  BY <1>2, <1>a, <1>c, SpendType DEF SuspendPurge
<1>3. CASE PlaceHold(t)
  <2>1. [student EXCEPT !.hold = TRUE] \in Students
    BY FieldType
  <2>2. student' \in Students
    BY <1>3, <2>1 DEF PlaceHold, Effect
  <2>3. pc' \in [Requests -> States] /\ transition' \in Transitions \cup {NoOp}
    BY <1>3, <1>a, <1>b, <1>c DEF PlaceHold
  <2>4. writesClosed' \in BOOLEAN /\ faults' \in 0..MaxFaults
    BY <1>3, SpendType DEF PlaceHold, ReopenIfPending
  <2>5. UNCHANGED <<alias, rows, receipts, armed, writeLeases, mutationsHeld,
                    mutationLeases, version, work, crashes>>
    BY <1>3 DEF PlaceHold
  <2>6. QED
    BY <2>2, <2>3, <2>4, <2>5
<1>4. CASE ReleaseHold(t)
  <2>1. [student EXCEPT !.hold = FALSE] \in Students
    BY FieldType
  <2>2. student.pending \in BOOLEAN
    BY DEF Students
  <2>3. student' \in Students
    BY <1>4, <2>1 DEF ReleaseHold, Effect
  <2>4. QED
    BY <1>4, <1>a, <1>c, <2>2, <2>3, SpendType DEF ReleaseHold
<1>5. CASE Reread(t)
  <2>1. student.exists \in BOOLEAN /\ student.pending \in BOOLEAN
    BY DEF Students
  <2>2. QED
    BY <1>5, <1>a, <1>b, <1>c, <2>1, SpendType, ReadOutcomesType DEF Reread
<1>6. CASE SettleRelease(t)
  BY <1>6, <1>a, <1>b, <1>c, <1>d DEF SettleRelease
<1>7. CASE CatchTransition(t)
  <2>1. student.exists \in BOOLEAN /\ student.pending \in BOOLEAN
    BY DEF Students
  <2>2. QED
    BY <1>7, <1>a, <1>b, <1>c, <2>1, SpendType, ReadOutcomesType DEF CatchTransition
<1>8. CASE CatchHeld(t)
  BY <1>8, <1>b, SpendType DEF CatchHeld, ReopenIfPending
<1>9. CASE CatchSettle(t)
  BY <1>9, <1>b, <1>d DEF CatchSettle
<1>10. QED
  BY <1>1, <1>2, <1>3, <1>4, <1>5, <1>6, <1>7, <1>8, <1>9 DEF TransitionStep

LEMMA TypesNext == Types /\ [Next]_vars => Types'
<1> SUFFICES ASSUME Types, [Next]_vars PROVE Types'
    OBVIOUS
<1>1. CASE UNCHANGED vars
  BY <1>1 DEF vars, db, gates, Types, DatabaseTypes, GateTypes, HandlerTypes
<1>2. CASE Expire
  <2>1. [student EXCEPT !.expired = TRUE] \in Students
    BY FieldType DEF Types, DatabaseTypes
  <2>2. QED
    BY <1>2, <2>1 DEF Expire, gates, Types, DatabaseTypes, GateTypes, HandlerTypes
<1>3. CASE Crash
  <2>1. pc' \in [Requests -> States]
    BY <1>3, RestType DEF Crash, States
  <2>2. work' \in [Deleters -> Works]
    BY <1>3, NoWorkType DEF Crash
  <2>3. crashes' \in 0..MaxCrashes
    BY <1>3, BoundsAreNaturals DEF Crash, Types, HandlerTypes
  <2>4. QED
    BY <1>3, <2>1, <2>2, <2>3 DEF Crash, db, Types, DatabaseTypes, GateTypes, HandlerTypes
<1>4. QED
  BY <1>1, <1>2, <1>3, TypesWriters, TypesDeletion, TypesSweeper, TypesTransitions DEF Next

\* Every variable keeps its type, whatever the sets of requests and the bounds.
THEOREM TypesCorrect == Spec => []Types
<1>1. QED
  BY TypesInit, TypesNext, PTL DEF Spec

-----------------------------------------------------------------------------
(* Leases are live.                                                        *)

\* Where a request runs nothing.
Resting == {"ready", "authed", "done", "idle"}

\* One handler's move keeps the leases live if it takes one only while it runs, and has
\* none when it rests.
LEMMA LiveMove ==
    ASSUME Types, LeasesAreLive, NEW r \in Requests, NEW where,
           pc' = [pc EXCEPT ![r] = where],
           writeLeases' \cup mutationLeases' \subseteq writeLeases \cup mutationLeases \cup {r},
           where \in Resting => r \notin writeLeases' \cup mutationLeases'
    PROVE  LeasesAreLive'
<1>1. pc \in [Requests -> States] /\ writeLeases \cup mutationLeases \subseteq Requests
  BY KindsAreRequests DEF Types, HandlerTypes, GateTypes
<1>2. QED
  BY <1>1 DEF LeasesAreLive, Resting

LEMMA LiveGo ==
    ASSUME Types, LeasesAreLive, NEW r \in Requests, NEW where, Go(r, where),
           where \notin Resting
    PROVE  LeasesAreLive'
BY LiveMove DEF Go

LEMMA LiveFinish ==
    ASSUME Types, LeasesAreLive, NEW r \in Requests, Finish(r)
    PROVE  LeasesAreLive'
BY LiveMove DEF Finish

LEMMA LiveGoIf ==
    ASSUME Types, LeasesAreLive, NEW r \in Requests, NEW b, NEW where, GoIf(r, b, where),
           where \notin Resting
    PROVE  LeasesAreLive'
BY LiveGo, LiveFinish DEF GoIf

LEMMA LiveVerify ==
    ASSUME Types, LeasesAreLive, NEW r \in Requests, VerifyHold(r) \/ Unpark(r)
    PROVE  LeasesAreLive'
<1>1. "parked" \notin Resting /\ AfterVerify(r) \notin Resting
  BY DEF Resting, AfterVerify
<1>2. CASE Unpark(r)
  BY <1>2, LiveFinish DEF Unpark
<1>3. CASE VerifyHold(r)
  <2>1. \/ Finish(r)
        \/ Go(r, AfterVerify(r))
        \/ /\ pc' = [pc EXCEPT ![r] = "parked"]
           /\ writeLeases' = writeLeases /\ mutationLeases' = mutationLeases \ {r}
    BY <1>3 DEF VerifyHold
  <2>2. QED
    BY <1>1, <2>1, LiveFinish, LiveGo, LiveMove
<1>4. QED
  BY <1>2, <1>3

LEMMA LiveWriters ==
    ASSUME Types, LeasesAreLive, NEW r \in Leasers \cup SignIns, WriterStep(r)
    PROVE  LeasesAreLive'
<1>0. r \in Requests
  BY KindsAreRequests
<1>a. {"load", "verify", "create", "attempt", "withdraw", "change", "signin"} \cap Resting = {}
  BY DEF Resting
<1>1. CASE Authenticate(r) \/ BeginSignIn(r)
  <2>1. r \notin writeLeases \cup mutationLeases
    BY <1>1 DEF Authenticate, BeginSignIn, LeasesAreLive
  <2>2. PICK where \in {"authed", "signin"} : pc' = [pc EXCEPT ![r] = where]
    BY <1>1 DEF Authenticate, BeginSignIn
  <2>3. UNCHANGED <<writeLeases, mutationLeases>>
    BY <1>1 DEF Authenticate, BeginSignIn, gates
  <2>4. QED
    BY <1>0, <2>1, <2>2, <2>3, LiveMove
<1>2. CASE EnterWrites(r) \/ EnterBoth(r)
  <2>1. \/ Finish(r)
        \/ \E where \in {"load", "verify"} :
              /\ pc' = [pc EXCEPT ![r] = where]
              /\ writeLeases' = writeLeases \cup {r}
              /\ mutationLeases' \subseteq mutationLeases \cup {r}
    BY <1>2 DEF EnterWrites, EnterBoth
  <2>2. QED
    BY <1>0, <1>a, <2>1, LiveFinish, LiveMove
<1>3. CASE VerifyHold(r) \/ Unpark(r)
  BY <1>0, <1>3, LiveVerify
<1>4. CASE CreateProject(r) \/ CreateReview(r) \/ CorrectUsername(r) \/ WithdrawAttempt(r)
           \/ ChangeAccount(r) \/ FinishSignIn(r)
  <2>1. Finish(r)
    BY <1>4 DEF CreateProject, CreateReview, CorrectUsername, WithdrawAttempt, ChangeAccount,
                FinishSignIn
  <2>2. QED
    BY <1>0, <2>1, LiveFinish
<1>5. CASE \/ ReserveQuota(r) \/ LoadManagedStudent(r) \/ LoadForConnect(r)
           \/ CreateAttempt(r) \/ LoadAccount(r)
  <2>1. \E b : GoIf(r, b, "create") \/ GoIf(r, b, "attempt") \/ GoIf(r, b, "withdraw")
               \/ GoIf(r, b, "change")
    BY <1>5 DEF ReserveQuota, LoadManagedStudent, LoadForConnect, CreateAttempt, LoadAccount
  <2>2. QED
    BY <1>0, <1>a, <2>1, LiveGoIf
<1>6. QED
  BY <1>1, <1>2, <1>3, <1>4, <1>5 DEF WriterStep

LEMMA LiveDeletions ==
    ASSUME Types, LeasesAreLive, NEW d \in Deleters, DeletionStep(d)
    PROVE  LeasesAreLive'
<1>0. d \in Requests
  BY KindsAreRequests
<1>a. {"verify", "fence1", "consult", "fence2", "reuse", "count", "record", "recheck",
       "sweep", "remove", "retry", "complete"} \cap Resting = {}
  BY DEF Resting
<1>1. CASE EnterMutations(d)
  <2>1. \/ Finish(d)
        \/ /\ pc' = [pc EXCEPT ![d] = "verify"]
           /\ writeLeases' = writeLeases /\ mutationLeases' = mutationLeases \cup {d}
    BY <1>1 DEF EnterMutations
  <2>2. QED
    BY <1>0, <1>a, <2>1, LiveFinish, LiveMove
<1>2. CASE VerifyHold(d) \/ Unpark(d)
  BY <1>0, <1>2, LiveVerify
<1>3. CASE ReadForDeletion(d) \/ FirstFence(d) \/ ConsultReceipt(d) \/ SecondFence(d)
           \/ ReuseReceipt(d) \/ RecheckReceipt(d) \/ MarkNeedsRetry(d) \/ CompleteReceipt(d)
  <2>1. \/ Finish(d)
        \/ \E where \in {"fence1", "consult", "fence2", "reuse", "count", "sweep"} : Go(d, where)
    BY <1>3 DEF ReadForDeletion, FirstFence, ConsultReceipt, SecondFence, ReuseReceipt,
                RecheckReceipt, MarkNeedsRetry, CompleteReceipt, FinishDeletion
  <2>2. QED
    BY <1>0, <1>a, <2>1, LiveFinish, LiveGo
<1>4. ASSUME NEW c \in Collections, CountInventory(d, c) \/ SweepRows(d, c)
      PROVE  LeasesAreLive'
  <2>1. \/ Finish(d)
        \/ \E where \in {"record", "count", "sweep", "retry", "remove"} : Go(d, where)
    BY <1>4 DEF CountInventory, SweepRows, DeleteRows, FinishDeletion
  <2>2. QED
    BY <1>0, <1>a, <2>1, LiveFinish, LiveGo
<1>5. CASE RecordReceipt(d) \/ RemoveStudent(d)
  <2>1. \E where \in {"sweep", "recheck", "complete", "retry"} : Go(d, where)
    BY <1>5 DEF RecordReceipt, RemoveStudent
  <2>2. QED
    BY <1>0, <1>a, <2>1, LiveGo
<1>6. QED
  BY <1>1, <1>2, <1>3, <1>4, <1>5 DEF DeletionStep

LEMMA LiveSweeper ==
    ASSUME Types, LeasesAreLive, SweeperStep(Sweeper)
    PROVE  LeasesAreLive'
<1>0. Sweeper \in Requests
  BY KindsAreRequests
<1>a. {"candidates", "orphan", "prepare", "orphan-sweep", "orphan-complete", "orphan-retry",
       "gate"} \cap Resting = {}
  BY DEF Resting
<1>1. \/ Finish(Sweeper)
      \/ \E where \in {"candidates", "orphan", "prepare", "orphan-sweep", "orphan-complete",
                       "orphan-retry", "gate"} : Go(Sweeper, where)
  <2>1. CASE BeginSweep(Sweeper) \/ CheckOrphan(Sweeper) \/ FindCandidate(Sweeper)
    BY <2>1 DEF BeginSweep, CheckOrphan, FindCandidate, FinishDeletion
  <2>2. CASE PrepareOrphan(Sweeper) \/ CompleteOrphan(Sweeper) \/ RetryOrphan(Sweeper)
    BY <2>2 DEF PrepareOrphan, CompleteOrphan, UpdateOrphan, RetryOrphan
  <2>3. CASE \E c \in Collections : SweepOrphan(Sweeper, c)
    BY <2>3 DEF SweepOrphan, DeleteRows
  <2>4. QED
    BY <2>1, <2>2, <2>3 DEF SweeperStep
<1>2. QED
  BY <1>0, <1>a, <1>1, LiveFinish, LiveGo

LEMMA LiveTransitions ==
    ASSUME Types, LeasesAreLive, NEW t \in Transitions, TransitionStep(t)
    PROVE  LeasesAreLive'
<1>1. /\ t \in Requests /\ t \notin writeLeases \cup mutationLeases
  BY KindsAreRequests, KindsAreDisjoint
     DEF Types, GateTypes, Transitions, Leasers, Protected, Creators
<1>2. UNCHANGED <<writeLeases, mutationLeases>>
  BY DEF TransitionStep, BeginTransition, SuspendPurge, PlaceHold, ReleaseHold, Reread,
     SettleRelease, CatchTransition, CatchHeld, CatchSettle, gates
<1>3. \E where : pc' = [pc EXCEPT ![t] = where]
  BY DEF TransitionStep, BeginTransition, SuspendPurge, PlaceHold, ReleaseHold, Reread,
     SettleRelease, CatchTransition, CatchHeld, CatchSettle, Step, Settled
<1>4. QED
  BY <1>1, <1>2, <1>3, LiveMove

LEMMA LiveNext == Types /\ LeasesAreLive /\ [Next]_vars => LeasesAreLive'
<1> SUFFICES ASSUME Types, LeasesAreLive, [Next]_vars PROVE LeasesAreLive'
    OBVIOUS
<1>1. CASE UNCHANGED <<pc, writeLeases, mutationLeases>>
  BY <1>1 DEF LeasesAreLive
<1>2. CASE Expire
  BY <1>1, <1>2 DEF Expire, gates
<1>3. CASE Crash
  BY <1>3 DEF Crash, LeasesAreLive
<1>4. CASE UNCHANGED vars
  BY <1>1, <1>4 DEF vars, gates
<1>5. QED
  BY <1>2, <1>3, <1>4, LiveWriters, LiveDeletions, LiveSweeper, LiveTransitions DEF Next

\* Only running requests hold leases: no refusal, error or early return of a handler
\* leaves a gate's counter above zero for good.
THEOREM TypeOKHolds == Spec => []TypeOK
<1>1. Init => LeasesAreLive
  BY DEF Init, LeasesAreLive
<1>2. Types /\ LeasesAreLive => TypeOK
  BY DEF TypeOK
<1>3. QED
  BY <1>1, <1>2, TypesCorrect, LiveNext, PTL DEF Spec

-----------------------------------------------------------------------------
(* The hold.                                                               *)


\* No request is of two kinds.
LEMMA KindsAreApart ==
    /\ Deleters \cap (Leasers \cup SignIns \cup Transitions) = {}
    /\ Transitions \cap (Leasers \cup SignIns) = {}
    /\ ReviewWrites \cap (ProjectWrites \cup AliasCorrections \cup Connects
                          \cup AccountChanges \cup SignIns) = {}
    /\ ProjectWrites \cap (AliasCorrections \cup Connects \cup AccountChanges) = {}
    /\ AliasCorrections \cap (Connects \cup AccountChanges) = {}
    /\ Connects \cap AccountChanges = {}
    /\ SignIns \cap Leasers = {}
    /\ Places \cap Releases = {}
    /\ Sweeper \notin Deletions
BY KindsAreDisjoint DEF Deleters, Leasers, Transitions, Protected, Creators

\* The document keeps, through every step but a hold transition's, what the invariant
\* says of it.
HoldKept ==
    /\ student'.exists => student.exists
    /\ student'.exists /\ student'.hold => student.hold

LEMMA HoldInit == Init => HoldInvariant
<1> SUFFICES ASSUME Init PROVE HoldInvariant
    OBVIOUS
<1>1. \A r \in Requests : pc[r] \in {"ready", "idle"} /\ (pc[r] = "idle" => r = Sweeper)
  BY DEF Init
<1>2. \A t \in Transitions : pc[t] = "ready"
  BY KindsAreApart, KindsAreRequests DEF Init
<1>3. HandlersKeepToTheirSteps /\ MutationsAreLeased
  BY <1>1, <1>2 DEF HandlersKeepToTheirSteps, MutationsAreLeased, OwnStep, Leased,
     DeletionStates, OrphanStates, TransitionStates
<1>4. OrphansHaveNoStudent
  BY <1>1, KindsAreRequests DEF OrphansHaveNoStudent, OrphanStates
<1>5. TransitionIsAlone /\ NoMutationUnderHold
  BY <1>2 DEF TransitionIsAlone, NoMutationUnderHold, Busy, Init
<1>6. QED
  BY <1>3, <1>4, <1>5 DEF HoldInvariant

\* A handler that moves to another step of its own keeps the invariant, if it holds the
\* lease the step needs and takes a lease only while the gate is open.
LEMMA HoldMove ==
    ASSUME Types, HoldInvariant, HoldKept,
           NEW r \in Requests \ Transitions, NEW where \in States, OwnStep(r, where),
           pc' = [pc EXCEPT ![r] = where],
           Leased(r, where) => r \in mutationLeases',
           mutationLeases \ {r} \subseteq mutationLeases',
           mutationLeases' \subseteq mutationLeases \cup {r},
           mutationLeases' \subseteq mutationLeases \/ ~mutationsHeld,
           r \in mutationLeases' /\ where # "verify" => ~(student.exists /\ student.hold),
           where \in OrphanStates => ~student.exists,
           mutationsHeld => mutationsHeld', transition' = transition
    PROVE  HoldInvariant'
<1>0. pc \in [Requests -> States] /\ pc' \in [Requests -> States] /\ Sweeper \in Requests
  BY KindsAreRequests DEF Types, HandlerTypes
<1>1. HandlersKeepToTheirSteps'
  BY <1>0 DEF HoldInvariant, HandlersKeepToTheirSteps, OwnStep
<1>2. MutationsAreLeased'
  BY <1>0 DEF HoldInvariant, MutationsAreLeased, Leased
<1>3. TransitionIsAlone'
  <2>1. \A t \in Transitions : pc'[t] = pc[t]
    BY <1>0, KindsAreRequests
  <2>2. QED
    BY <2>1 DEF HoldInvariant, TransitionIsAlone, Busy
<1>4. NoMutationUnderHold'
  <2>1. mutationLeases \subseteq Requests /\ mutationLeases' \subseteq Requests
    BY KindsAreRequests DEF Types, GateTypes
  <2>2. QED
    BY <1>0, <2>1 DEF HoldInvariant, NoMutationUnderHold, HoldKept
<1>5. OrphansHaveNoStudent'
  BY <1>0 DEF HoldInvariant, OrphansHaveNoStudent, HoldKept
<1>6. QED
  BY <1>1, <1>2, <1>3, <1>4, <1>5 DEF HoldInvariant

\* Going on under the leases held so far.
LEMMA HoldGo ==
    ASSUME Types, HoldInvariant, HoldKept,
           NEW r \in Requests \ Transitions, NEW where \in States, OwnStep(r, where),
           Go(r, where),
           Leased(r, where) => Leased(r, pc[r]),
           pc[r] = "verify" => ~HoldSeen,
           where \in OrphanStates => ~student.exists,
           UNCHANGED <<mutationsHeld, transition>>
    PROVE  HoldInvariant'
<1>1. r \in mutationLeases => ~(student.exists /\ student.hold)
  BY DEF HoldInvariant, NoMutationUnderHold, HoldSeen
<1>2. Leased(r, where) => r \in mutationLeases
  BY DEF HoldInvariant, MutationsAreLeased
<1>3. QED
  BY <1>1, <1>2, HoldMove DEF Go

\* Settling.
LEMMA HoldFinish ==
    ASSUME Types, HoldInvariant, HoldKept, NEW r \in Requests \ Transitions, Finish(r),
           mutationsHeld => mutationsHeld', transition' = transition
    PROVE  HoldInvariant'
<1>1. Rest(r) \in States /\ OwnStep(r, Rest(r)) /\ ~Leased(r, Rest(r)) /\ Rest(r) \notin OrphanStates
  BY RestType DEF Rest, OwnStep, Leased, DeletionStates, OrphanStates, TransitionStates
<1>2. QED
  BY <1>1, HoldMove DEF Finish

\* Where the handlers of each kind may go.
LEMMA OwnSteps ==
    ASSUME NEW r \in Requests
    PROVE  /\ r \in ProjectWrites => OwnStep(r, "reserve")
           /\ r \in Creators => OwnStep(r, "create")
           /\ r \in AliasCorrections => OwnStep(r, "rename")
           /\ r \in Connects => OwnStep(r, "attempt") /\ OwnStep(r, "withdraw")
           /\ r \in AccountChanges => OwnStep(r, "change")
           /\ r \in ReviewWrites \cup Connects \cup AccountChanges => OwnStep(r, "load")
           /\ r \in Protected \cup Deleters => OwnStep(r, "verify")
           /\ r \in Deleters => \A where \in DeletionStates : OwnStep(r, where)
           /\ r = Sweeper => \A where \in OrphanStates : OwnStep(r, where)
           /\ \A where \in {"authed", "parked", "signin", "idle", "orphan", "candidates",
                            "gate", "ready", "done"} : OwnStep(r, where)
BY DEF OwnStep, DeletionStates, OrphanStates, TransitionStates

\* The steps that need no mutation lease.
LEMMA LeaseFree ==
    \A r : /\ \A where \in {"authed", "parked", "attempt", "withdraw", "change", "signin",
                            "idle", "orphan", "candidates", "gate", "ready", "done"}
                          \cup OrphanStates : ~Leased(r, where)
           /\ r \notin ReviewWrites => ~Leased(r, "load")
           /\ \A where \in DeletionStates \cup {"verify", "reserve", "create", "rename"} :
                Leased(r, where)
BY DEF Leased, DeletionStates, OrphanStates

\* What the verification of the hold leads to is a step of the handler, under the lease.
LEMMA HoldVerify ==
    ASSUME Types, HoldInvariant, NEW r \in Protected \cup Deleters, VerifyHold(r)
    PROVE  HoldInvariant'
<1>1. r \in Requests \ Transitions
  BY KindsAreApart, KindsAreRequests
<1>2. HoldKept /\ transition' = transition
  BY DEF VerifyHold, HoldKept, db
<1>3. CASE Finish(r) /\ UNCHANGED mutationsHeld
  BY <1>1, <1>2, <1>3, HoldFinish
<1>4. CASE /\ mutationLeases' = mutationLeases \ {r}
           /\ mutationsHeld' = TRUE
           /\ pc' = [pc EXCEPT ![r] = "parked"]
  <2>1. "parked" \in States /\ OwnStep(r, "parked") /\ "parked" \notin OrphanStates /\ ~Leased(r, "parked")
    BY <1>1, OwnSteps, LeaseFree DEF States, OrphanStates
  <2>2. QED
    BY <1>1, <1>2, <1>4, <2>1, HoldMove
<1>5. CASE ~HoldSeen /\ Go(r, AfterVerify(r)) /\ UNCHANGED mutationsHeld
  <2>1. AfterVerify(r) \in States /\ AfterVerify(r) \notin OrphanStates
    BY DEF AfterVerify, States, OrphanStates
  <2>2. OwnStep(r, AfterVerify(r))
    <3>1. CASE r \in ProjectWrites
      <4>1. AfterVerify(r) = "reserve"
        BY <3>1, KindsAreApart, KindsAreRequests DEF AfterVerify
      <4>2. QED
        BY <1>1, <3>1, <4>1, OwnSteps
    <3>2. CASE r \in ReviewWrites
      <4>1. AfterVerify(r) = "load"
        BY <3>2, KindsAreApart, KindsAreRequests DEF AfterVerify
      <4>2. QED
        BY <1>1, <3>2, <4>1, OwnSteps
    <3>3. CASE r \in AliasCorrections
      <4>1. AfterVerify(r) = "rename"
        BY <3>3, KindsAreApart, KindsAreRequests DEF AfterVerify
      <4>2. QED
        BY <1>1, <3>3, <4>1, OwnSteps
    <3>4. CASE r \in Deleters
      <4>1. AfterVerify(r) \in {"read", "fence1"}
        BY <3>4, KindsAreApart, KindsAreRequests DEF AfterVerify
      <4>2. QED
        BY <1>1, <3>4, <4>1, OwnSteps DEF DeletionStates
    <3>5. QED
      BY <3>1, <3>2, <3>3, <3>4 DEF Protected, Creators
  <2>3. Leased(r, pc[r])
    BY LeaseFree DEF VerifyHold
  <2>4. QED
    BY <1>1, <1>2, <1>5, <2>1, <2>2, <2>3, HoldGo
<1>6. QED
  BY <1>3, <1>4, <1>5 DEF VerifyHold

LEMMA HoldWriters ==
    ASSUME Types, HoldInvariant, NEW r \in Leasers \cup SignIns, WriterStep(r)
    PROVE  HoldInvariant'
<1>0. /\ r \in Requests \ Transitions /\ student \in Students
      /\ r \notin Deleters /\ r # Sweeper
  BY KindsAreApart, KindsAreRequests DEF Types, DatabaseTypes
<1>a. {"authed", "load", "verify", "create", "attempt", "withdraw", "change", "signin"}
        \subseteq States \ OrphanStates
  BY DEF States, OrphanStates
<1>1. CASE Authenticate(r)
  <2>1. OwnStep(r, "authed") /\ ~Leased(r, "authed")
    BY <1>0, OwnSteps, LeaseFree
  <2>2. HoldKept /\ UNCHANGED <<mutationLeases, mutationsHeld, transition>>
    BY <1>1 DEF Authenticate, HoldKept, db, gates
  <2>3. ~Leased(r, "ready") /\ (r \in mutationLeases => ~(student.exists /\ student.hold))
    BY <1>0, <1>1, LeaseFree DEF Authenticate, HoldInvariant, NoMutationUnderHold
  <2>4. QED
    BY <1>0, <1>1, <1>a, <2>1, <2>2, <2>3, HoldMove DEF Authenticate
<1>2. CASE r \in Connects \cup AccountChanges /\ EnterWrites(r)
  <2>1. OwnStep(r, "load") /\ ~Leased(r, "load")
    BY <1>0, <1>2, OwnSteps, LeaseFree, KindsAreApart
  <2>2. HoldKept /\ UNCHANGED <<mutationsHeld, transition>>
    BY <1>2 DEF EnterWrites, HoldKept, db
  <2>3. r \in mutationLeases => ~(student.exists /\ student.hold)
    BY <1>2 DEF EnterWrites, AtWrappers, HoldInvariant, NoMutationUnderHold
  <2>4. CASE Finish(r)
    BY <1>0, <2>2, <2>4, HoldFinish
  <2>5. CASE pc' = [pc EXCEPT ![r] = "load"] /\ UNCHANGED mutationLeases
    BY <1>0, <1>a, <2>1, <2>2, <2>3, <2>5, HoldMove
  <2>6. QED
    BY <1>2, <2>4, <2>5 DEF EnterWrites
<1>3. CASE r \in Protected /\ EnterBoth(r)
  <2>1. OwnStep(r, "verify")
    BY <1>0, <1>3, OwnSteps
  <2>2. HoldKept /\ UNCHANGED <<mutationsHeld, transition>>
    BY <1>3 DEF EnterBoth, HoldKept, db
  <2>3. CASE Finish(r)
    BY <1>0, <2>2, <2>3, HoldFinish
  <2>4. CASE /\ ~mutationsHeld
             /\ mutationLeases' = mutationLeases \cup {r}
             /\ pc' = [pc EXCEPT ![r] = "verify"]
    BY <1>0, <1>a, <2>1, <2>2, <2>4, HoldMove
  <2>5. QED
    BY <1>3, <2>3, <2>4 DEF EnterBoth
<1>4. CASE r \in Protected /\ VerifyHold(r)
  BY <1>4, HoldVerify
<1>5. CASE Unpark(r)
  BY <1>0, <1>5, HoldFinish DEF Unpark, HoldKept, db
<1>6. CASE CreateProject(r)
  BY <1>0, <1>6, HoldFinish DEF CreateProject, HoldKept
<1>7. CASE ReserveQuota(r) \/ LoadManagedStudent(r)
  <2>1. OwnStep(r, "create") /\ Leased(r, pc[r])
    <3>1. r \in Creators /\ Leased(r, pc[r])
      BY <1>0, <1>7 DEF ReserveQuota, LoadManagedStudent, Creators, Leased, HoldInvariant,
         HandlersKeepToTheirSteps, OwnStep
    <3>2. QED
      BY <1>0, <3>1, OwnSteps
  <2>2. HoldKept /\ UNCHANGED <<mutationsHeld, transition>> /\ pc[r] # "verify"
    BY <1>7 DEF ReserveQuota, LoadManagedStudent, HoldKept, db
  <2>3. CASE Finish(r)
    BY <1>0, <2>2, <2>3, HoldFinish
  <2>4. CASE Go(r, "create")
    BY <1>0, <1>a, <2>1, <2>2, <2>4, HoldGo
  <2>5. QED
    BY <1>7, <2>3, <2>4 DEF ReserveQuota, LoadManagedStudent, GoIf
<1>8. CASE CreateReview(r)
  BY <1>0, <1>8, HoldFinish DEF CreateReview, HoldKept
<1>9. CASE CorrectUsername(r)
  <2>1. HoldKept
    BY <1>0, <1>9 DEF CorrectUsername, HoldKept, Effect, Students
  <2>2. QED
    BY <1>0, <1>9, <2>1, HoldFinish DEF CorrectUsername
<1>10. CASE LoadForConnect(r)
  <2>1. OwnStep(r, "attempt") /\ ~Leased(r, "attempt")
    BY <1>0, <1>10, OwnSteps, LeaseFree DEF LoadForConnect
  <2>2. HoldKept /\ UNCHANGED <<mutationsHeld, transition>> /\ pc[r] # "verify"
    BY <1>10 DEF LoadForConnect, HoldKept, db
  <2>3. CASE Finish(r)
    BY <1>0, <2>2, <2>3, HoldFinish
  <2>4. CASE Go(r, "attempt")
    BY <1>0, <1>a, <2>1, <2>2, <2>4, HoldGo
  <2>5. QED
    BY <1>10, <2>3, <2>4 DEF LoadForConnect, GoIf
<1>11. CASE r \in Connects /\ CreateAttempt(r)
  <2>1. OwnStep(r, "withdraw") /\ ~Leased(r, "withdraw")
    BY <1>0, <1>11, OwnSteps, LeaseFree
  <2>2. HoldKept /\ UNCHANGED <<mutationsHeld, transition>> /\ pc[r] # "verify"
    BY <1>11 DEF CreateAttempt, HoldKept
  <2>3. CASE Finish(r)
    BY <1>0, <2>2, <2>3, HoldFinish
  <2>4. CASE Go(r, "withdraw")
    BY <1>0, <1>a, <2>1, <2>2, <2>4, HoldGo
  <2>5. QED
    BY <1>11, <2>3, <2>4 DEF CreateAttempt, GoIf
<1>12. CASE WithdrawAttempt(r)
  BY <1>0, <1>12, HoldFinish DEF WithdrawAttempt, HoldKept
<1>13. CASE LoadAccount(r)
  <2>1. OwnStep(r, "change") /\ ~Leased(r, "change")
    BY <1>0, <1>13, OwnSteps, LeaseFree DEF LoadAccount
  <2>2. HoldKept /\ UNCHANGED <<mutationsHeld, transition>> /\ pc[r] # "verify"
    BY <1>13 DEF LoadAccount, HoldKept, db
  <2>3. CASE Finish(r)
    BY <1>0, <2>2, <2>3, HoldFinish
  <2>4. CASE Go(r, "change")
    BY <1>0, <1>a, <2>1, <2>2, <2>4, HoldGo
  <2>5. QED
    BY <1>13, <2>3, <2>4 DEF LoadAccount, GoIf
<1>14. CASE ChangeAccount(r)
  <2>1. HoldKept
    BY <1>0, <1>14 DEF ChangeAccount, HoldKept, Effect, Students
  <2>2. QED
    BY <1>0, <1>14, <2>1, HoldFinish DEF ChangeAccount
<1>15. CASE BeginSignIn(r)
  <2>1. OwnStep(r, "signin") /\ ~Leased(r, "signin")
    BY <1>0, OwnSteps, LeaseFree
  <2>2. HoldKept /\ UNCHANGED <<mutationLeases, mutationsHeld, transition>>
    BY <1>15 DEF BeginSignIn, HoldKept, db, gates
  <2>3. r \in mutationLeases => ~(student.exists /\ student.hold)
    BY <1>15 DEF BeginSignIn, HoldInvariant, NoMutationUnderHold
  <2>4. QED
    BY <1>0, <1>15, <1>a, <2>1, <2>2, <2>3, HoldMove DEF BeginSignIn
<1>16. CASE FinishSignIn(r)
  <2>1. HoldKept
    BY <1>0, <1>16 DEF FinishSignIn, HoldKept, Effect, Students
  <2>2. QED
    BY <1>0, <1>16, <2>1, HoldFinish DEF FinishSignIn
<1>17. QED
  BY <1>1, <1>2, <1>3, <1>4, <1>5, <1>6, <1>7, <1>8, <1>9, <1>10, <1>11, <1>12, <1>13,
     <1>14, <1>15, <1>16 DEF WriterStep

LEMMA HoldDeletions ==
    ASSUME Types, HoldInvariant, NEW d \in Deleters, DeletionStep(d)
    PROVE  HoldInvariant'
<1>0. d \in Requests \ Transitions /\ student \in Students
  BY KindsAreApart, KindsAreRequests DEF Types, DatabaseTypes
<1>a. DeletionStates \cup {"verify"} \subseteq States \ OrphanStates
  BY DEF DeletionStates, States, OrphanStates
<1>b. \A where \in DeletionStates \cup {"verify"} : OwnStep(d, where) /\ Leased(d, where)
  BY <1>0, OwnSteps, LeaseFree
<1>g. ASSUME HoldKept, NEW where \in DeletionStates, Go(d, where), pc[d] \in DeletionStates,
             UNCHANGED <<mutationsHeld, transition>>
      PROVE  HoldInvariant'
  <2>1. pc[d] # "verify" /\ Leased(d, pc[d])
    BY <1>b, <1>g DEF DeletionStates
  <2>2. QED
    BY <1>0, <1>a, <1>b, <1>g, <2>1, HoldGo
<1>f. ASSUME HoldKept, FinishDeletion(d), UNCHANGED <<mutationsHeld, transition>>
      PROVE  HoldInvariant'
  BY <1>0, <1>f, HoldFinish DEF FinishDeletion
<1>1. CASE EnterMutations(d)
  <2>1. HoldKept /\ UNCHANGED <<mutationsHeld, transition>>
    BY <1>1 DEF EnterMutations, HoldKept, db
  <2>2. CASE Finish(d)
    BY <1>0, <2>1, <2>2, HoldFinish
  <2>3. CASE /\ ~mutationsHeld
             /\ mutationLeases' = mutationLeases \cup {d}
             /\ pc' = [pc EXCEPT ![d] = "verify"]
    BY <1>0, <1>a, <1>b, <2>1, <2>3, HoldMove
  <2>4. QED
    BY <1>1, <2>2, <2>3 DEF EnterMutations
<1>2. CASE VerifyHold(d)
  BY <1>2, HoldVerify
<1>3. CASE Unpark(d)
  BY <1>0, <1>3, HoldFinish DEF Unpark, HoldKept, db
<1>4. CASE ReadForDeletion(d)
  <2>1. HoldKept /\ UNCHANGED <<mutationsHeld, transition>> /\ pc[d] = "read"
    BY <1>4 DEF ReadForDeletion, HoldKept, db
  <2>2. Go(d, "fence1") \/ FinishDeletion(d)
    BY <1>4 DEF ReadForDeletion
  <2>3. QED
    BY <2>1, <2>2, <1>g, <1>f DEF DeletionStates
<1>5. CASE FirstFence(d)
  <2>1. HoldKept
    BY <1>0, <1>5 DEF FirstFence, HoldKept, Effect, Students
  <2>2. UNCHANGED <<mutationsHeld, transition>> /\ pc[d] = "fence1"
    BY <1>5 DEF FirstFence
  <2>3. Go(d, "consult") \/ Go(d, "fence2") \/ FinishDeletion(d)
    BY <1>5 DEF FirstFence
  <2>4. QED
    BY <2>1, <2>2, <2>3, <1>g, <1>f DEF DeletionStates
<1>6. CASE ConsultReceipt(d)
  <2>1. HoldKept /\ UNCHANGED <<mutationsHeld, transition>> /\ pc[d] = "consult"
    BY <1>6 DEF ConsultReceipt, HoldKept, db
  <2>2. Go(d, "fence2") \/ FinishDeletion(d)
    BY <1>6 DEF ConsultReceipt
  <2>3. QED
    BY <2>1, <2>2, <1>g, <1>f DEF DeletionStates
<1>7. CASE SecondFence(d)
  <2>1. HoldKept
    BY <1>0, <1>7 DEF SecondFence, HoldKept, Effect, Students
  <2>2. UNCHANGED <<mutationsHeld, transition>> /\ pc[d] = "fence2"
    BY <1>7 DEF SecondFence
  <2>3. Go(d, "reuse") \/ Go(d, "count") \/ FinishDeletion(d)
    BY <1>7 DEF SecondFence
  <2>4. QED
    BY <2>1, <2>2, <2>3, <1>g, <1>f DEF DeletionStates
<1>8. CASE ReuseReceipt(d)
  <2>1. HoldKept /\ UNCHANGED <<mutationsHeld, transition>> /\ pc[d] = "reuse"
    BY <1>8 DEF ReuseReceipt, HoldKept
  <2>2. Go(d, "sweep") \/ FinishDeletion(d)
    BY <1>8 DEF ReuseReceipt
  <2>3. QED
    BY <2>1, <2>2, <1>g, <1>f DEF DeletionStates
<1>9. ASSUME NEW c \in Collections, CountInventory(d, c)
      PROVE  HoldInvariant'
  <2>1. HoldKept /\ UNCHANGED <<mutationsHeld, transition>> /\ pc[d] = "count"
    BY <1>9 DEF CountInventory, HoldKept, db
  <2>2. Go(d, "record") \/ Go(d, "count") \/ FinishDeletion(d)
    BY <1>9 DEF CountInventory
  <2>3. QED
    BY <2>1, <2>2, <1>g, <1>f DEF DeletionStates
<1>10. ASSUME NEW c \in Collections, SweepRows(d, c)
       PROVE  HoldInvariant'
  <2>1. HoldKept /\ UNCHANGED <<mutationsHeld, transition>> /\ pc[d] = "sweep"
    BY <1>10 DEF SweepRows, DeleteRows, HoldKept
  <2>2. Go(d, "sweep") \/ Go(d, "retry") \/ Go(d, "remove")
    BY <1>10 DEF SweepRows, DeleteRows
  <2>3. QED
    BY <2>1, <2>2, <1>g DEF DeletionStates
<1>11. CASE RecordReceipt(d)
  <2>1. HoldKept /\ UNCHANGED <<mutationsHeld, transition>> /\ pc[d] = "record"
    BY <1>11 DEF RecordReceipt, HoldKept
  <2>2. Go(d, "sweep") \/ Go(d, "recheck")
    BY <1>11 DEF RecordReceipt
  <2>3. QED
    BY <2>1, <2>2, <1>g DEF DeletionStates
<1>12. CASE RecheckReceipt(d)
  <2>1. HoldKept /\ UNCHANGED <<mutationsHeld, transition>> /\ pc[d] = "recheck"
    BY <1>12 DEF RecheckReceipt, HoldKept, db
  <2>2. Go(d, "sweep") \/ FinishDeletion(d)
    BY <1>12 DEF RecheckReceipt
  <2>3. QED
    BY <2>1, <2>2, <1>g, <1>f DEF DeletionStates
<1>13. CASE RemoveStudent(d)
  <2>1. HoldKept
    BY <1>0, <1>13 DEF RemoveStudent, HoldKept, Effect, Students
  <2>2. UNCHANGED <<mutationsHeld, transition>> /\ pc[d] = "remove"
    BY <1>13 DEF RemoveStudent
  <2>3. Go(d, "complete") \/ Go(d, "retry")
    BY <1>13 DEF RemoveStudent
  <2>4. QED
    BY <2>1, <2>2, <2>3, <1>g DEF DeletionStates
<1>14. CASE MarkNeedsRetry(d)
  BY <1>14, <1>f DEF MarkNeedsRetry, HoldKept
<1>15. CASE CompleteReceipt(d)
  BY <1>15, <1>f DEF CompleteReceipt, HoldKept
<1>16. QED
  BY <1>1, <1>2, <1>3, <1>4, <1>5, <1>6, <1>7, <1>8, <1>9, <1>10, <1>11, <1>12, <1>13,
     <1>14, <1>15 DEF DeletionStep

LEMMA HoldSweeper ==
    ASSUME Types, HoldInvariant, SweeperStep(Sweeper)
    PROVE  HoldInvariant'
<1> DEFINE s == Sweeper
<1>0. s \in Requests \ Transitions
  BY KindsAreApart, KindsAreRequests
<1>a. /\ OrphanStates \cup {"orphan", "candidates", "gate"} \subseteq States
      /\ {"orphan", "candidates", "gate"} \cap OrphanStates = {}
      /\ "verify" \notin OrphanStates
  BY DEF OrphanStates, States
<1>b. \A where \in OrphanStates \cup {"orphan", "candidates", "gate"} :
        OwnStep(s, where) /\ ~Leased(s, where)
  BY <1>0, OwnSteps, LeaseFree
<1>g. ASSUME HoldKept, NEW where \in OrphanStates \cup {"orphan", "candidates", "gate"},
             Go(s, where), pc[s] # "verify",
             where \in OrphanStates => pc[s] \in OrphanStates \/ ~student.exists,
             UNCHANGED <<mutationsHeld, transition>>
      PROVE  HoldInvariant'
  <2>1. where \in OrphanStates => ~student.exists
    BY <1>g DEF HoldInvariant, OrphansHaveNoStudent
  <2>2. QED
    BY <1>0, <1>a, <1>b, <1>g, <2>1, HoldGo
<1>f. ASSUME HoldKept, Finish(s), UNCHANGED <<mutationsHeld, transition>>
      PROVE  HoldInvariant'
  BY <1>0, <1>f, HoldFinish
<1>1. CASE BeginSweep(s)
  <2>1. HoldKept /\ UNCHANGED <<mutationsHeld, transition>> /\ pc[s] = "idle"
    BY <1>1 DEF BeginSweep, HoldKept, db
  <2>2. Go(s, "candidates") \/ Go(s, "orphan") \/ Finish(s)
    BY <1>1 DEF BeginSweep
  <2>3. QED
    BY <2>1, <2>2, <1>a, <1>g, <1>f
<1>2. CASE CheckOrphan(s)
  <2>1. HoldKept /\ UNCHANGED <<mutationsHeld, transition>> /\ pc[s] = "orphan"
    BY <1>2 DEF CheckOrphan, HoldKept, db
  <2>2. Go(s, "candidates") \/ (Go(s, "prepare") /\ ~student.exists) \/ Finish(s)
    BY <1>2 DEF CheckOrphan, FinishDeletion
  <2>3. "prepare" \in OrphanStates
    BY DEF OrphanStates
  <2>4. QED
    BY <2>1, <2>2, <2>3, <1>a, <1>g, <1>f
<1>3. CASE PrepareOrphan(s)
  <2>1. HoldKept /\ UNCHANGED <<mutationsHeld, transition>> /\ pc[s] \in OrphanStates
    BY <1>3 DEF PrepareOrphan, UpdateOrphan, HoldKept, OrphanStates
  <2>2. Go(s, "candidates") \/ \E where \in OrphanStates : Go(s, where)
    BY <1>3 DEF PrepareOrphan, UpdateOrphan, OrphanStates
  <2>3. QED
    BY <2>1, <2>2, <1>a, <1>g
<1>4. ASSUME NEW c \in Collections, SweepOrphan(s, c)
      PROVE  HoldInvariant'
  <2>1. HoldKept /\ UNCHANGED <<mutationsHeld, transition>> /\ pc[s] \in OrphanStates
    BY <1>4 DEF SweepOrphan, DeleteRows, HoldKept, OrphanStates
  <2>2. \E where \in OrphanStates : Go(s, where)
    BY <1>4 DEF SweepOrphan, DeleteRows, OrphanStates
  <2>3. QED
    BY <2>1, <2>2, <1>a, <1>g
<1>5. CASE CompleteOrphan(s)
  <2>1. HoldKept /\ UNCHANGED <<mutationsHeld, transition>> /\ pc[s] \in OrphanStates
    BY <1>5 DEF CompleteOrphan, UpdateOrphan, HoldKept, OrphanStates
  <2>2. Go(s, "candidates") \/ \E where \in OrphanStates : Go(s, where)
    BY <1>5 DEF CompleteOrphan, UpdateOrphan, OrphanStates
  <2>3. QED
    BY <2>1, <2>2, <1>a, <1>g
<1>6. CASE RetryOrphan(s)
  <2>1. HoldKept /\ UNCHANGED <<mutationsHeld, transition>> /\ pc[s] \in OrphanStates
    BY <1>6 DEF RetryOrphan, HoldKept, OrphanStates
  <2>2. Go(s, "candidates")
    BY <1>6 DEF RetryOrphan
  <2>3. QED
    BY <2>1, <2>2, <1>a, <1>g
<1>7. CASE FindCandidate(s)
  <2>1. HoldKept /\ UNCHANGED <<mutationsHeld, transition>> /\ pc[s] = "candidates"
    BY <1>7 DEF FindCandidate, HoldKept, db
  <2>2. Go(s, "gate") \/ Finish(s)
    BY <1>7 DEF FindCandidate, FinishDeletion
  <2>3. QED
    BY <2>1, <2>2, <1>a, <1>g, <1>f
<1>8. QED
  BY <1>1, <1>2, <1>3, <1>4, <1>5, <1>6, <1>7 DEF SweeperStep

\* A hold transition keeps the invariant if it is the only one, shuts the gate before it
\* does anything, and finds no lease out when it sets the hold.
LEMMA HoldTransition ==
    ASSUME Types, HoldInvariant, NEW t \in Transitions,
           NEW where \in TransitionStates \cup {"done"},
           pc' = [pc EXCEPT ![t] = where],
           transition \in {t, NoOp},
           where # "done" => transition' = t /\ mutationsHeld',
           t \in Places /\ where \notin {"suspend", "done"} => mutationLeases = {},
           mutationLeases' = mutationLeases,
           student'.exists => student.exists,
           student'.exists /\ student'.hold => student.hold \/ mutationLeases = {}
    PROVE  HoldInvariant'
<1>0. /\ pc \in [Requests -> States] /\ Sweeper \in Requests /\ t \in Requests
      /\ NoOp \notin Transitions /\ Sweeper # t /\ mutationLeases \subseteq Requests
      /\ t \notin mutationLeases
  BY KindsAreRequests, KindsAreApart, NoOpIsNoRequest DEF Types, HandlerTypes, GateTypes
<1>1. \A r \in Requests \ {t} : pc'[r] = pc[r]
  BY <1>0
<1>2. pc'[t] = where
  BY <1>0
<1>3. HandlersKeepToTheirSteps'
  <2>1. OwnStep(t, where)
    BY DEF OwnStep, DeletionStates, OrphanStates, TransitionStates
  <2>2. QED
    BY <1>1, <1>2, <2>1 DEF HoldInvariant, HandlersKeepToTheirSteps, OwnStep
<1>4. MutationsAreLeased'
  <2>1. ~Leased(t, where)
    BY DEF Leased, DeletionStates, TransitionStates
  <2>2. QED
    BY <1>1, <1>2, <2>1 DEF HoldInvariant, MutationsAreLeased, Leased
<1>5. TransitionIsAlone'
  <2>1. \A u \in Transitions \ {t} : ~Busy(u)
    BY <1>0 DEF HoldInvariant, TransitionIsAlone
  <2>2. \A u \in Transitions \ {t} : ~Busy(u)'
    BY <1>1, <2>1, KindsAreRequests DEF Busy
  <2>3. Busy(t)' => where # "done"
    BY <1>2 DEF Busy
  <2>4. QED
    BY <1>2, <2>2, <2>3 DEF TransitionIsAlone
<1>6. NoMutationUnderHold'
  BY <1>0, <1>1 DEF HoldInvariant, NoMutationUnderHold
<1>7. OrphansHaveNoStudent'
  BY <1>0, <1>1 DEF HoldInvariant, OrphansHaveNoStudent
<1>8. QED
  BY <1>3, <1>4, <1>5, <1>6, <1>7 DEF HoldInvariant

LEMMA HoldTransitions ==
    ASSUME Types, HoldInvariant, NEW t \in Transitions, TransitionStep(t)
    PROVE  HoldInvariant'
<1>0. student \in Students /\ t \in Requests /\ NoOp # t
  BY KindsAreRequests, NoOpIsNoRequest DEF Types, DatabaseTypes
<1>a. ASSUME pc[t] \in TransitionStates
      PROVE  /\ transition = t /\ mutationsHeld
             /\ t \in Places /\ pc[t] # "suspend" => mutationLeases = {}
  BY <1>a DEF HoldInvariant, TransitionIsAlone, Busy, TransitionStates
\* What every step but the first and the ones that flip the flag does.
<1>g. ASSUME pc[t] \in TransitionStates, NEW where \in TransitionStates,
             t \in Places => pc[t] # "suspend", Step(t, where),
             student' = student, UNCHANGED <<mutationsHeld, mutationLeases>>
      PROVE  HoldInvariant'
  BY <1>a, <1>g, HoldTransition DEF Step
<1>d. ASSUME pc[t] \in TransitionStates, Settled(t), student' = student,
             UNCHANGED mutationLeases
      PROVE  HoldInvariant'
  BY <1>a, <1>d, HoldTransition DEF Settled
<1>1. CASE BeginTransition(t)
  <2>1. PICK where \in {"suspend", "flip"} :
          /\ pc' = [pc EXCEPT ![t] = where]
          /\ t \in Places => where = "suspend"
    BY <1>1 DEF BeginTransition
  <2>2. /\ transition = NoOp /\ transition' = t /\ mutationsHeld' = TRUE
        /\ student' = student /\ mutationLeases' = mutationLeases
    BY <1>1 DEF BeginTransition, db
  <2>3. QED
    BY <2>1, <2>2, HoldTransition DEF TransitionStates
<1>2. CASE SuspendPurge(t)
  <2>1. pc[t] = "suspend" /\ mutationLeases = {} /\ student' = student
    BY <1>2 DEF SuspendPurge, MutationsDrained
  <2>2. UNCHANGED <<mutationsHeld, mutationLeases>>
    BY <1>2 DEF SuspendPurge, gates
  <2>3. PICK where \in {"flip", "catch"} : Step(t, where)
    BY <1>2 DEF SuspendPurge
  <2>4. QED
    BY <1>a, <2>1, <2>2, <2>3, HoldTransition DEF Step, TransitionStates
<1>3. CASE PlaceHold(t)
  <2>1. /\ pc[t] = "flip" /\ t \in Places
        /\ UNCHANGED <<mutationsHeld, mutationLeases>>
    BY <1>3 DEF PlaceHold
  <2>2. transition = t /\ mutationsHeld /\ mutationLeases = {}
    BY <1>a, <2>1 DEF TransitionStates
  <2>3. student'.exists => student.exists
    BY <1>0, <1>3 DEF PlaceHold, Effect, Students
  <2>4. CASE Settled(t)
    BY <2>1, <2>2, <2>3, <2>4, HoldTransition DEF Settled
  <2>5. CASE Step(t, "reread") \/ Step(t, "catch")
    <3>1. PICK where \in {"reread", "catch"} : Step(t, where)
      BY <2>5
    <3>2. QED
      BY <2>1, <2>2, <2>3, <3>1, HoldTransition DEF Step, TransitionStates
  <2>6. QED
    BY <1>3, <2>4, <2>5 DEF PlaceHold
<1>4. CASE ReleaseHold(t)
  <2>1. /\ pc[t] = "flip" /\ mutationLeases = {}
        /\ UNCHANGED <<mutationsHeld, mutationLeases>>
    BY <1>4 DEF ReleaseHold, MutationsDrained
  <2>2. transition = t /\ mutationsHeld
    BY <1>a, <2>1 DEF TransitionStates
  <2>3. student'.exists => student.exists
    BY <1>0, <1>4 DEF ReleaseHold, Effect, Students
  <2>4. PICK where \in {"catch", "settle", "reread"} : Step(t, where)
    BY <1>4 DEF ReleaseHold
  <2>5. QED
    BY <2>1, <2>2, <2>3, <2>4, HoldTransition DEF Step, TransitionStates
<1>5. CASE Reread(t)
  <2>1. pc[t] = "reread" /\ student' = student /\ mutationLeases' = mutationLeases
    BY <1>5 DEF Reread, db
  <2>2. Settled(t) \/ ((Step(t, "catch") \/ Step(t, "settle")) /\ UNCHANGED mutationsHeld)
    BY <1>5 DEF Reread
  <2>3. QED
    BY <2>1, <2>2, <1>g, <1>d DEF TransitionStates
<1>6. CASE SettleRelease(t)
  <2>1. pc[t] = "settle" /\ student' = student /\ mutationLeases' = mutationLeases
    BY <1>6 DEF SettleRelease
  <2>2. Settled(t) \/ (Step(t, "catch") /\ UNCHANGED mutationsHeld)
    BY <1>6 DEF SettleRelease
  <2>3. QED
    BY <2>1, <2>2, <1>g, <1>d DEF TransitionStates
<1>7. CASE CatchTransition(t)
  <2>1. /\ pc[t] = "catch" /\ student' = student
        /\ UNCHANGED <<mutationsHeld, mutationLeases>>
    BY <1>7 DEF CatchTransition, db
  <2>2. Settled(t) \/ Step(t, "catch-held") \/ Step(t, "catch-settle")
    BY <1>7 DEF CatchTransition
  <2>3. QED
    BY <2>1, <2>2, <1>g, <1>d DEF TransitionStates
<1>8. CASE CatchHeld(t)
  BY <1>8, <1>d DEF CatchHeld, TransitionStates
<1>9. CASE CatchSettle(t)
  BY <1>9, <1>d DEF CatchSettle, TransitionStates
<1>10. QED
  BY <1>1, <1>2, <1>3, <1>4, <1>5, <1>6, <1>7, <1>8, <1>9 DEF TransitionStep

LEMMA HoldNext == Types /\ HoldInvariant /\ [Next]_vars => HoldInvariant'
<1> SUFFICES ASSUME Types, HoldInvariant, [Next]_vars PROVE HoldInvariant'
    OBVIOUS
<1> USE DEF HoldInvariant, HandlersKeepToTheirSteps, MutationsAreLeased,
     TransitionIsAlone, NoMutationUnderHold, OrphansHaveNoStudent
<1>1. CASE UNCHANGED vars
  BY <1>1 DEF vars, db, gates, OwnStep, Leased, Busy
<1>2. CASE Expire
  <2>1. student'.exists = student.exists /\ student'.hold = student.hold
    BY <1>2 DEF Expire, Types, DatabaseTypes, Students
  <2>2. UNCHANGED <<pc, mutationLeases, mutationsHeld, transition>>
    BY <1>2 DEF Expire, gates
  <2>3. QED
    BY <2>1, <2>2 DEF OwnStep, Leased, Busy
<1>3. CASE Crash
  <2>1. \A r \in Requests : pc'[r] \in {"ready", "idle", "done"}
    BY <1>3 DEF Crash, Rest
  <2>2. \A t \in Transitions : pc'[t] \in {"ready", "done"}
    BY <1>3, KindsAreApart, KindsAreRequests DEF Crash, Rest
  <2>3. (HandlersKeepToTheirSteps /\ MutationsAreLeased)'
    BY <2>1, <2>2 DEF OwnStep, Leased, DeletionStates, OrphanStates, TransitionStates
  <2>4. (TransitionIsAlone /\ OrphansHaveNoStudent)'
    BY <2>1, <2>2, KindsAreRequests DEF Busy, OrphanStates
  <2>5. NoMutationUnderHold'
    BY <1>3 DEF Crash
  <2>6. QED
    BY <2>3, <2>4, <2>5
<1>4. QED
  BY <1>1, <1>2, <1>3, HoldWriters, HoldDeletions, HoldSweeper, HoldTransitions DEF Next

\* The invariant holds in every reachable state, for any number of requests of each kind,
\* of database failures and of crashes.
THEOREM HoldIsInvariant == Spec => [](Types /\ HoldInvariant)
<1>1. Init => Types /\ HoldInvariant
  BY TypesInit, HoldInit
<1>2. Types /\ HoldInvariant /\ [Next]_vars => (Types /\ HoldInvariant)'
  BY TypesNext, HoldNext
<1>3. QED
  BY <1>1, <1>2, PTL DEF Spec

-----------------------------------------------------------------------------
(* What the invariant gives: a held record is frozen.                      *)

\* A step of a request that needs a mutation lease does not happen under the hold.
LEMMA LeasedStepsAreShut ==
    ASSUME HoldInvariant, student.exists, student.hold, NEW r \in Requests,
           pc[r] \in DeletionStates \cup {"create", "rename"}
    PROVE  FALSE
<1>1. r \in mutationLeases
  BY LeaseFree DEF HoldInvariant, MutationsAreLeased
<1>2. QED
  BY <1>1 DEF HoldInvariant, NoMutationUnderHold, DeletionStates

LEMMA FrozenWriters ==
    ASSUME Types, HoldInvariant, NEW r \in Leasers \cup SignIns, WriterStep(r),
           student.exists, student.hold
    PROVE  RecordsStay
<1>0. r \in Requests /\ student \in Students /\ rows \in Inventories
  BY KindsAreRequests DEF Types, DatabaseTypes
<1>1. ~CreateProject(r) /\ ~CreateReview(r) /\ ~CorrectUsername(r)
  BY <1>0, LeasedStepsAreShut DEF CreateProject, CreateReview, CorrectUsername
<1>2. CASE UNCHANGED db
  BY <1>2 DEF RecordsStay, db
<1>3. CASE CreateAttempt(r) \/ WithdrawAttempt(r)
  <2>1. student' = student /\ alias' = alias
    BY <1>3 DEF CreateAttempt, WithdrawAttempt
  <2>2. \A c \in Collections \ {"oauth"} : rows'[c] = rows[c]
    BY <1>0, <1>3 DEF CreateAttempt, WithdrawAttempt, WithRow, WithoutRow, Inventories
  <2>3. QED
    BY <2>1, <2>2 DEF RecordsStay
<1>4. CASE ChangeAccount(r)
  BY <1>0, <1>4 DEF ChangeAccount, Effect, Students, RecordsStay
<1>5. CASE FinishSignIn(r)
  BY <1>0, <1>5 DEF FinishSignIn, Effect, Students, RecordsStay
<1>6. CASE \/ Authenticate(r) \/ EnterWrites(r) \/ EnterBoth(r) \/ VerifyHold(r)
           \/ Unpark(r) \/ ReserveQuota(r) \/ LoadManagedStudent(r) \/ LoadForConnect(r)
           \/ LoadAccount(r) \/ BeginSignIn(r)
  <2>1. UNCHANGED db
    BY <1>6 DEF Authenticate, EnterWrites, EnterBoth, VerifyHold, Unpark,
                ReserveQuota, LoadManagedStudent, LoadForConnect, LoadAccount, BeginSignIn
  <2>2. QED
    BY <1>2, <2>1
<1>7. QED
  BY <1>1, <1>3, <1>4, <1>5, <1>6 DEF WriterStep

LEMMA FrozenDeletions ==
    ASSUME Types, HoldInvariant, NEW d \in Deleters, DeletionStep(d),
           student.exists, student.hold
    PROVE  RecordsStay
<1>0. d \in Requests
  BY KindsAreRequests
<1>1. pc[d] \notin DeletionStates
  BY <1>0, LeasedStepsAreShut
<1>2. EnterMutations(d) \/ VerifyHold(d) \/ Unpark(d)
  BY <1>1 DEF DeletionStep, DeletionStates, ReadForDeletion, FirstFence, ConsultReceipt,
     SecondFence, ReuseReceipt, CountInventory, SweepRows, DeleteRows, RecordReceipt,
     RecheckReceipt, RemoveStudent, MarkNeedsRetry, CompleteReceipt
<1>3. UNCHANGED db
  BY <1>2 DEF EnterMutations, VerifyHold, Unpark
<1>4. QED
  BY <1>3 DEF db, RecordsStay

LEMMA FrozenSweeper ==
    ASSUME HoldInvariant, SweeperStep(Sweeper), student.exists, student.hold
    PROVE  RecordsStay
<1>1. pc[Sweeper] \notin OrphanStates
  BY DEF HoldInvariant, OrphansHaveNoStudent
<1>2. BeginSweep(Sweeper) \/ CheckOrphan(Sweeper) \/ FindCandidate(Sweeper)
  BY <1>1 DEF SweeperStep, OrphanStates, PrepareOrphan, CompleteOrphan, UpdateOrphan,
     SweepOrphan, DeleteRows, RetryOrphan
<1>3. UNCHANGED db
  BY <1>2 DEF BeginSweep, CheckOrphan, FindCandidate
<1>4. QED
  BY <1>3 DEF db, RecordsStay

LEMMA FrozenTransitions ==
    ASSUME Types, NEW t \in Transitions, TransitionStep(t)
    PROVE  RecordsStay
<1>0. student \in Students
  BY DEF Types, DatabaseTypes
<1>1. UNCHANGED <<alias, rows>>
  BY DEF TransitionStep, BeginTransition, SuspendPurge, PlaceHold, ReleaseHold, Reread,
     SettleRelease, CatchTransition, CatchHeld, CatchSettle, db
<1>2. student'.exists = student.exists /\ student'.pending = student.pending
  <2>1. CASE PlaceHold(t)
    BY <1>0, <2>1 DEF PlaceHold, Effect, Students
  <2>2. CASE ReleaseHold(t)
    BY <1>0, <2>2 DEF ReleaseHold, Effect, Students
  <2>3. CASE student' = student
    BY <2>3
  <2>4. QED
    BY <2>1, <2>2, <2>3 DEF TransitionStep, BeginTransition, SuspendPurge, Reread,
       SettleRelease, CatchTransition, CatchHeld, CatchSettle, db
<1>3. QED
  BY <1>1, <1>2 DEF RecordsStay

\* A held record is frozen, whatever was already past its checks when the hold was placed
\* and across restarts (the 409 of withStudentRecordMutationLease and the filters of the
\* deletion together).
THEOREM HeldRecordsStayFrozen == Spec => HeldRecordsAreFrozen
<1>1. Types /\ HoldInvariant /\ [Next]_vars => [RecordsStay]_vars
  <2> SUFFICES ASSUME Types, HoldInvariant, Next, student.exists, student.hold
               PROVE  RecordsStay
      BY DEF RecordsStay
  <2>1. CASE Expire
    BY <2>1 DEF Expire, RecordsStay, Types, DatabaseTypes, Students
  <2>2. CASE Crash
    BY <2>2 DEF Crash, RecordsStay, db
  <2>3. QED
    BY <2>1, <2>2, FrozenWriters, FrozenDeletions, FrozenSweeper, FrozenTransitions
       DEF Next
<1>2. QED
  BY <1>1, HoldIsInvariant, PTL DEF Spec, HeldRecordsAreFrozen

-----------------------------------------------------------------------------
(* What every step keeps, and what one deletion concludes from it.         *)

\* An operation, once recorded, stays; a claim leaves a newer version behind.
OperationKept ==
    /\ student'.version >= student.version
    /\ student.op # NoOp => student'.op = student.op /\ student'.reason = student.reason
    /\ student'.op # student.op => student'.version > student.version

ReceiptsKept == \A op \in Deleters : Recorded(op) => Recorded(op)'

\* The handlers of the others are where they were.
Untouched(d) == pc'[d] = pc[d] /\ work'[d] = work[d] /\ version'[d] = version[d]

\* What the invariant says of a deletion survives the steps of others.
LEMMA AgreementKept ==
    ASSUME Types, Types', NEW d \in Deleters, WorksFor(d), WillClaim(d), Untouched(d),
           OperationKept, ReceiptsKept
    PROVE  WorksFor(d)' /\ WillClaim(d)'
<1>1. /\ work[d].op \in Deleters /\ version[d] \in Nat
      /\ student.version \in Nat /\ student'.version \in Nat
  BY KindsAreRequests DEF Types, DatabaseTypes, HandlerTypes, Works, Students
<1>2. work[d].op # NoOp
  BY <1>1, KindsAreRequests, NoOpIsNoRequest
<1>3. WorksFor(d)'
  BY <1>1, <1>2 DEF WorksFor, Untouched, OperationKept, ReceiptsKept
<1>4. WillClaim(d)'
  <2>1. SUFFICES ASSUME Chosen(d)' PROVE WillClaim(d)'
    BY DEF WillClaim
  <2>2. Chosen(d)
    BY <2>1 DEF Chosen, Untouched
  <2>3. student'.version >= version'[d] /\ ~work'[d].receipt
    BY <1>1, <2>2 DEF WillClaim, Untouched, OperationKept
  <2>4. CASE work[d].resume
    BY <1>2, <2>1, <2>2, <2>3, <2>4 DEF WillClaim, Untouched, OperationKept
  <2>5. CASE ~work[d].resume
    <3>1. version'[d] = student'.version => student'.op = NoOp
      BY <1>1, <2>2, <2>5 DEF WillClaim, Untouched, OperationKept
    <3>2. /\ work'[d].reason \in Reasons
          /\ d # Sweeper => work'[d].reason = "julio-request"
      BY <2>2, <2>5 DEF WillClaim, Untouched
    <3>3. QED
      BY <2>3, <2>5, <3>1, <3>2 DEF WillClaim, Untouched
  <2>6. QED
    BY <2>4, <2>5
<1>5. QED
  BY <1>3, <1>4

\* A deletion that is at no step the invariant speaks of owes it nothing.
LEMMA AgreementIdle ==
    ASSUME NEW d, pc'[d] \notin Claimed \cup OnReceipt, ~Chosen(d)'
    PROVE  WorksFor(d)' /\ WillClaim(d)'
BY DEF WorksFor, WillClaim

\* One handler's step keeps the invariant, if it keeps the operation and the receipts and,
\* for a deletion, arrives where it may.
LEMMA AccountStep ==
    ASSUME Types, Types', AccountInvariant, NEW r \in Requests,
           \A d \in Deleters \ {r} : Untouched(d),
           OperationKept, ReceiptsKept, PendingIsMarked', ReceiptsBelong',
           r \in Deleters => WorksFor(r)' /\ WillClaim(r)'
    PROVE  AccountInvariant'
<1>1. \A d \in Deleters \ {r} : WorksFor(d)' /\ WillClaim(d)'
  BY AgreementKept DEF AccountInvariant
<1>2. QED
  BY <1>1 DEF AccountInvariant

\* Steps that leave the document's marks and the receipts alone.
MarksKept ==
    /\ student'.op = student.op /\ student'.reason = student.reason
    /\ student'.pending = student.pending
    /\ student.pending => ~student'.active
    /\ student'.version >= student.version
    /\ receipts' = receipts

LEMMA MarksKeep ==
    ASSUME AccountInvariant, MarksKept
    PROVE  OperationKept /\ ReceiptsKept /\ PendingIsMarked' /\ ReceiptsBelong'
BY DEF AccountInvariant, MarksKept, OperationKept, ReceiptsKept, PendingIsMarked,
       ReceiptsBelong, Recorded

LEMMA SameMarks ==
    ASSUME Types, AccountInvariant, student' = student, receipts' = receipts
    PROVE  MarksKept
<1>1. student.version \in Nat
  BY DEF Types, DatabaseTypes, Students
<1>2. QED
  BY <1>1 DEF MarksKept, AccountInvariant, PendingIsMarked

-----------------------------------------------------------------------------
(* Requests and hold transitions: they respect the marks.                  *)

LEMMA AccountInit == Init => AccountInvariant
<1> SUFFICES ASSUME Init PROVE AccountInvariant
    OBVIOUS
<1>1. PendingIsMarked /\ ReceiptsBelong
  BY DEF Init, PendingIsMarked, ReceiptsBelong, Recorded, NoReceipt
<1>2. ASSUME NEW d \in Deleters
      PROVE  WorksFor(d) /\ WillClaim(d)
  <2>1. pc[d] \in {"ready", "idle"}
    BY KindsAreRequests DEF Init
  <2>2. QED
    BY <2>1 DEF WorksFor, WillClaim, Chosen, Claimed, OnReceipt, OrphanStates
<1>3. QED
  BY <1>1, <1>2 DEF AccountInvariant

\* No request but a deletion changes a pending account into an active one.
LEMMA WriterMarks ==
    ASSUME Types, AccountInvariant, NEW r \in Leasers \cup SignIns, WriterStep(r)
    PROVE  MarksKept /\ \A d \in Deleters : Untouched(d)
<1>0. /\ student \in Students /\ student.version \in Nat /\ r \notin Deleters
      /\ pc \in [Requests -> States] /\ Deleters \subseteq Requests
  BY KindsAreApart, KindsAreRequests DEF Types, DatabaseTypes, HandlerTypes, Students
<1>1. receipts' = receipts /\ work' = work
  BY DEF WriterStep, Authenticate, EnterWrites, EnterBoth, VerifyHold, Unpark, CreateProject,
     ReserveQuota, LoadManagedStudent, CreateReview, CorrectUsername, LoadForConnect,
     CreateAttempt, WithdrawAttempt, LoadAccount, ChangeAccount, BeginSignIn, FinishSignIn, db
<1>2. \A d \in Deleters : version'[d] = version[d]
  <2>1. CASE LoadAccount(r) \/ BeginSignIn(r)
    BY <1>0, <2>1 DEF LoadAccount, BeginSignIn, Types, HandlerTypes
  <2>2. CASE version' = version
    BY <2>2
  <2>3. QED
    BY <2>1, <2>2 DEF WriterStep, Authenticate, EnterWrites, EnterBoth, VerifyHold, Unpark,
       CreateProject, ReserveQuota, LoadManagedStudent, CreateReview, CorrectUsername,
       LoadForConnect, CreateAttempt, WithdrawAttempt, ChangeAccount, FinishSignIn
<1>3. \E where : pc' = [pc EXCEPT ![r] = where]
  BY DEF WriterStep, Authenticate, EnterWrites, EnterBoth, VerifyHold, Unpark, CreateProject,
     ReserveQuota, LoadManagedStudent, CreateReview, CorrectUsername, LoadForConnect,
     CreateAttempt, WithdrawAttempt, LoadAccount, ChangeAccount, BeginSignIn, FinishSignIn, Go, GoIf, Finish
<1>4. \A d \in Deleters : pc'[d] = pc[d]
  BY <1>0, <1>3
<1>5. MarksKept
  <2>1. CASE student' = student
    BY <1>1, <2>1, SameMarks
  <2>2. CASE CorrectUsername(r)
    BY <1>0, <1>1, <2>2 DEF CorrectUsername, Effect, MarksKept, Students, AccountInvariant,
       PendingIsMarked
  <2>3. CASE ChangeAccount(r)
    <3>1. PICK o \in Outcomes, active \in BOOLEAN :
            student' = Effect(o, AccountStillCurrent(r, active),
                              [student EXCEPT !.active = active, !.version = @ + 1])
      BY <2>3 DEF ChangeAccount
    <3>2. CASE student' = student
      BY <1>1, <3>2, SameMarks
    <3>3. CASE /\ ~student.pending
               /\ student' = [student EXCEPT !.active = active, !.version = @ + 1]
      BY <1>0, <1>1, <3>3 DEF MarksKept, Students
    <3>4. QED
      BY <3>1, <3>2, <3>3 DEF Effect, AccountStillCurrent
  <2>4. CASE FinishSignIn(r)
    BY <1>0, <1>1, <2>4 DEF FinishSignIn, Effect, MarksKept, Students, AccountInvariant,
       PendingIsMarked
  <2>5. QED
    BY <2>1, <2>2, <2>3, <2>4 DEF WriterStep, Authenticate, EnterWrites, EnterBoth,
       VerifyHold, Unpark, CreateProject, ReserveQuota, LoadManagedStudent, CreateReview,
       LoadForConnect, CreateAttempt, WithdrawAttempt, LoadAccount, BeginSignIn, db
<1>6. QED
  BY <1>1, <1>2, <1>4, <1>5 DEF Untouched

LEMMA TransitionMarks ==
    ASSUME Types, AccountInvariant, NEW t \in Transitions, TransitionStep(t)
    PROVE  MarksKept /\ \A d \in Deleters : Untouched(d)
<1>0. /\ student \in Students /\ student.version \in Nat /\ t \notin Deleters
      /\ pc \in [Requests -> States] /\ Deleters \subseteq Requests
  BY KindsAreApart, KindsAreRequests DEF Types, DatabaseTypes, HandlerTypes, Students
<1>1. UNCHANGED <<receipts, version, work>>
  BY DEF TransitionStep, BeginTransition, SuspendPurge, PlaceHold, ReleaseHold, Reread,
     SettleRelease, CatchTransition, CatchHeld, CatchSettle, db
<1>2. \E where : pc' = [pc EXCEPT ![t] = where]
  BY DEF TransitionStep, BeginTransition, SuspendPurge, PlaceHold, ReleaseHold, Reread,
     SettleRelease, CatchTransition, CatchHeld, CatchSettle, Step, Settled
<1>3. \A d \in Deleters : pc'[d] = pc[d]
  BY <1>0, <1>2
<1>4. MarksKept
  <2>1. CASE student' = student
    BY <1>1, <2>1, SameMarks
  <2>2. CASE PlaceHold(t)
    BY <1>0, <1>1, <2>2 DEF PlaceHold, Effect, MarksKept, Students, AccountInvariant,
       PendingIsMarked
  <2>3. CASE ReleaseHold(t)
    BY <1>0, <1>1, <2>3 DEF ReleaseHold, Effect, MarksKept, Students, AccountInvariant,
       PendingIsMarked
  <2>4. QED
    BY <2>1, <2>2, <2>3 DEF TransitionStep, BeginTransition, SuspendPurge, Reread,
       SettleRelease, CatchTransition, CatchHeld, CatchSettle, db
<1>5. QED
  BY <1>1, <1>3, <1>4 DEF Untouched

-----------------------------------------------------------------------------
(* Deletions.                                                              *)

LEMMA DeletionTouchesItself ==
    ASSUME Types, NEW d \in Deleters, DeletionStep(d) \/ (d = Sweeper /\ SweeperStep(d))
    PROVE  \A e \in Deleters \ {d} : Untouched(e)
<1>1. \E where : pc' = [pc EXCEPT ![d] = where]
  BY DEF DeletionStep, EnterMutations, VerifyHold, Unpark, ReadForDeletion, FirstFence,
     ConsultReceipt, SecondFence, ReuseReceipt, CountInventory, SweepRows, DeleteRows,
     RecordReceipt, RecheckReceipt, RemoveStudent, MarkNeedsRetry, CompleteReceipt,
     SweeperStep, BeginSweep, CheckOrphan, PrepareOrphan, SweepOrphan, CompleteOrphan,
     UpdateOrphan, RetryOrphan, FindCandidate, FinishDeletion, Go, Finish
<1>2. work' = work \/ \E new : work' = [work EXCEPT ![d] = new]
  BY DEF DeletionStep, EnterMutations, VerifyHold, Unpark, ReadForDeletion, FirstFence,
     ConsultReceipt, SecondFence, ReuseReceipt, CountInventory, SweepRows, DeleteRows,
     RecordReceipt, RecheckReceipt, RemoveStudent, MarkNeedsRetry, CompleteReceipt,
     SweeperStep, BeginSweep, CheckOrphan, PrepareOrphan, SweepOrphan, CompleteOrphan,
     UpdateOrphan, RetryOrphan, FindCandidate, FinishDeletion, Set
<1>3. version' = version \/ \E new : version' = [version EXCEPT ![d] = new]
  BY DEF DeletionStep, EnterMutations, VerifyHold, Unpark, ReadForDeletion, FirstFence,
     ConsultReceipt, SecondFence, ReuseReceipt, CountInventory, SweepRows, DeleteRows,
     RecordReceipt, RecheckReceipt, RemoveStudent, MarkNeedsRetry, CompleteReceipt,
     SweeperStep, BeginSweep, CheckOrphan, PrepareOrphan, SweepOrphan, CompleteOrphan,
     UpdateOrphan, RetryOrphan, FindCandidate
<1>4. /\ pc \in [Requests -> States] /\ work \in [Deleters -> Works]
      /\ version \in [Requests -> Nat] /\ Deleters \subseteq Requests
  BY KindsAreRequests DEF Types, HandlerTypes
<1>5. QED
  BY <1>1, <1>2, <1>3, <1>4 DEF Untouched

LEMMA EndAgrees ==
    ASSUME Types, NEW d \in Deleters, Finish(d)
    PROVE  WorksFor(d)' /\ WillClaim(d)'
<1>1. pc'[d] \in {"idle", "done"}
  BY KindsAreRequests DEF Types, HandlerTypes, Finish, Rest
<1>2. QED
  BY <1>1, AgreementIdle DEF Claimed, OnReceipt, OrphanStates, Chosen

\* A deletion past its claim that goes on with the same variables keeps the agreement, if
\* there is a receipt where it needs one.
LEMMA ClaimGoes ==
    ASSUME Types, NEW d \in Deleters, NEW where \in Claimed, Go(d, where),
           pc[d] \in Claimed, WorksFor(d), OperationKept, ReceiptsKept,
           work'[d].op = work[d].op, work'[d].reason = work[d].reason,
           work'[d].receipt = work[d].receipt,
           where \in OnReceipt => Recorded(work[d].op)'
    PROVE  WorksFor(d)' /\ WillClaim(d)'
<1>1. pc'[d] = where
  BY KindsAreRequests DEF Types, HandlerTypes, Go
<1>2. ~Chosen(d)'
  BY <1>1 DEF Chosen, Claimed
<1>3. work[d].op \in Deleters /\ work[d].op # NoOp
  BY KindsAreRequests, NoOpIsNoRequest DEF Types, HandlerTypes, Works
<1>4. student'.op = work'[d].op /\ student'.reason = work'[d].reason
  BY <1>3 DEF WorksFor, OperationKept
<1>5. work'[d].receipt => Recorded(work[d].op)'
  BY <1>3 DEF WorksFor, ReceiptsKept, Recorded
<1>6. QED
  BY <1>1, <1>2, <1>4, <1>5 DEF WorksFor, WillClaim

\* A status is written into a receipt that exists.
LEMMA StatusKeeps ==
    ASSUME Types, AccountInvariant, NEW op \in Deleters, Recorded(op),
           NEW status \in Statuses \ {"none"}, student' = student,
           receipts' = receipts \/ receipts' = WithStatus(op, status)
    PROVE  OperationKept /\ ReceiptsKept /\ PendingIsMarked' /\ ReceiptsBelong'
<1>1. receipts \in [Deleters -> Receipts] /\ student.version \in Nat
  BY DEF Types, DatabaseTypes, Students
<1>2. \A e \in Deleters : /\ Recorded(e)' <=> Recorded(e)
                          /\ receipts'[e].reason = receipts[e].reason
  BY <1>1 DEF WithStatus, Recorded, Receipts
<1>3. QED
  BY <1>1, <1>2 DEF OperationKept, ReceiptsKept, AccountInvariant, PendingIsMarked,
     ReceiptsBelong

\* The steps of a deletion that only read, and its sweep of the rows.
Reading(d) ==
    \/ EnterMutations(d) \/ VerifyHold(d) \/ Unpark(d) \/ ReadForDeletion(d)
    \/ ConsultReceipt(d) \/ RecheckReceipt(d)
    \/ \E c \in Collections : CountInventory(d, c) \/ SweepRows(d, c)

LEMMA ReadingChangesNothing ==
    ASSUME NEW d \in Deleters, Reading(d)
    PROVE  student' = student /\ receipts' = receipts
BY DEF Reading, EnterMutations, VerifyHold, Unpark, ReadForDeletion, ConsultReceipt,
   RecheckReceipt, CountInventory, SweepRows, DeleteRows, db

LEMMA ReadingAgrees ==
    ASSUME Types, AccountInvariant, NEW d \in Deleters, Reading(d)
    PROVE  WorksFor(d)' /\ WillClaim(d)'
<1>0. /\ d \in Requests /\ work[d] \in Works /\ WorksFor(d) /\ WillClaim(d)
      /\ pc \in [Requests -> States] /\ work \in [Deleters -> Works]
      /\ version \in [Requests -> Nat] /\ student \in Students
  BY KindsAreRequests DEF Types, HandlerTypes, DatabaseTypes, AccountInvariant
<1>1. student' = student /\ receipts' = receipts
  BY ReadingChangesNothing
<1>2. OperationKept /\ ReceiptsKept
  BY <1>1, SameMarks, MarksKeep
<1>3. ASSUME Finish(d)
      PROVE  WorksFor(d)' /\ WillClaim(d)'
  BY <1>3, EndAgrees
<1>4. CASE EnterMutations(d)
  <2>1. CASE pc' = [pc EXCEPT ![d] = "verify"]
    <3>1. pc'[d] = "verify" /\ WorksFor(d)'
      BY <1>0, <2>1 DEF WorksFor, Claimed, OnReceipt, OrphanStates
    <3>2. CASE d = Sweeper
      <4>1. Chosen(d) /\ work' = work /\ version' = version
        BY <1>4, <3>2 DEF EnterMutations, Chosen
      <4>2. QED
        BY <1>1, <3>1, <4>1 , <1>0 DEF WillClaim
    <3>3. CASE d # Sweeper
      BY <3>1, <3>3 DEF WillClaim, Chosen
    <3>4. QED
      BY <3>1, <3>2, <3>3
  <2>2. QED
    BY <1>3, <1>4, <2>1 DEF EnterMutations
<1>5. CASE VerifyHold(d)
  <2>1. CASE pc' = [pc EXCEPT ![d] = "parked"]
    <3>1. pc'[d] = "parked"
      BY <1>0, <2>1
    <3>2. QED
      BY <3>1, AgreementIdle DEF Claimed, OnReceipt, OrphanStates, Chosen
  <2>2. CASE Go(d, AfterVerify(d))
    <3>1. pc'[d] = (IF d = Sweeper THEN "fence1" ELSE "read")
      <4>1. AfterVerify(d) = (IF d = Sweeper THEN "fence1" ELSE "read")
        BY KindsAreApart, KindsAreRequests DEF AfterVerify, Deleters
      <4>2. QED
        BY <1>0, <2>2, <4>1 DEF Go
    <3>2. CASE d = Sweeper
      <4>1. Chosen(d) /\ work' = work /\ version' = version
        BY <1>5, <3>2 DEF VerifyHold, Chosen
      <4>2. WorksFor(d)'
        BY <3>1, <3>2 DEF WorksFor, Claimed, OnReceipt, OrphanStates
      <4>3. QED
        BY <1>0, <1>1, <4>1, <4>2 DEF WillClaim
    <3>3. CASE d # Sweeper
      BY <3>1, <3>3, AgreementIdle DEF Claimed, OnReceipt, OrphanStates, Chosen
    <3>4. QED
      BY <3>2, <3>3
  <2>3. QED
    BY <1>3, <1>5, <2>1, <2>2 DEF VerifyHold
<1>6. CASE Unpark(d)
  BY <1>3, <1>6 DEF Unpark
<1>7. CASE ReadForDeletion(d)
  <2>1. CASE FinishDeletion(d)
    BY <1>3, <2>1 DEF FinishDeletion
  <2>2. CASE ~FinishDeletion(d)
    <3>1. /\ pc'[d] = "fence1" /\ version'[d] = student.version
          /\ work'[d] = [NoWork(d) EXCEPT
                     !.resume = student.op # NoOp,
                     !.op     = IF student.op # NoOp THEN student.op ELSE d,
                     !.reason = IF student.op # NoOp THEN student.reason
                                                     ELSE "julio-request"]
      BY <1>0, <1>7, <2>2 DEF ReadForDeletion, Go, Set
    <3>2. WorksFor(d)'
      BY <3>1 DEF WorksFor, Claimed, OnReceipt, OrphanStates
    <3>3. /\ work'[d].resume <=> student.op # NoOp
          /\ work'[d].op = (IF student.op # NoOp THEN student.op ELSE d)
          /\ work'[d].reason = (IF student.op # NoOp THEN student.reason
                                                     ELSE "julio-request")
          /\ ~work'[d].receipt
      BY <3>1 DEF NoWork
    <3>4. student.version \in Nat
      BY <1>0 DEF Students
    <3>5. WillClaim(d)'
      BY <1>1, <3>1, <3>3, <3>4 DEF WillClaim, Reasons
    <3>6. QED
      BY <3>2, <3>5
  <2>3. QED
    BY <2>1, <2>2
<1>8. CASE ConsultReceipt(d)
  <2>1. CASE FinishDeletion(d)
    BY <1>3, <2>1 DEF FinishDeletion
  <2>2. CASE ~FinishDeletion(d)
    <3> DEFINE receipt == receipts[work[d].op]
    <3>1. /\ pc[d] = "consult" /\ pc'[d] = "fence2"
          /\ work'[d] = [work[d] EXCEPT
                     !.receipt = receipt.status # "none",
                     !.reason  = IF receipt.status # "none" THEN receipt.reason ELSE @]
      BY <1>0, <1>8, <2>2 DEF ConsultReceipt, Go, Set
    <3>2. /\ work'[d].op = work[d].op
          /\ work'[d].receipt <=> Recorded(work[d].op)
          /\ work'[d].reason = (IF Recorded(work[d].op) THEN receipt.reason
                                                        ELSE work[d].reason)
      BY <1>0, <3>1 DEF Works, Recorded
    <3>3. work[d].op = student.op /\ work[d].reason = student.reason /\ work[d].op \in Deleters
      BY <1>0, <3>1 DEF WorksFor, Claimed, Works
    <3>4. Recorded(work[d].op) => receipt.reason = student.reason
      BY <3>3 DEF AccountInvariant, ReceiptsBelong
    <3>5. /\ work'[d].op = student'.op /\ work'[d].reason = student'.reason
          /\ work'[d].receipt => Recorded(work[d].op)'
      BY <1>1, <3>2, <3>3, <3>4 DEF Recorded
    <3>6. QED
      BY <3>1, <3>5 DEF WorksFor, WillClaim, Chosen, OnReceipt, OrphanStates
  <2>3. QED
    BY <2>1, <2>2
<1>9. CASE RecheckReceipt(d)
  <2>1. CASE FinishDeletion(d)
    BY <1>3, <2>1 DEF FinishDeletion
  <2>2. CASE Go(d, "sweep") /\ work' = work /\ Recorded(work[d].op)
    <3>1. pc[d] \in Claimed /\ "sweep" \in Claimed /\ Recorded(work[d].op)'
      BY <1>1, <1>9, <2>2 DEF RecheckReceipt, Claimed, Recorded
    <3>2. QED
      BY <1>0, <1>2, <2>2, <3>1, ClaimGoes
  <2>3. QED
    BY <1>9, <2>1, <2>2 DEF RecheckReceipt, Recorded
<1>10. ASSUME NEW c \in Collections, CountInventory(d, c)
       PROVE  WorksFor(d)' /\ WillClaim(d)'
  <2>1. CASE FinishDeletion(d)
    BY <1>3, <2>1 DEF FinishDeletion
  <2>2. CASE ~FinishDeletion(d)
    <3>0. PICK where \in {"record", "count"} : Go(d, where)
      BY <1>10, <2>2 DEF CountInventory
    <3>1. \E todo : Set(d, [work[d] EXCEPT !.todo = todo, !.counted[c] = rows[c]])
      BY <1>10, <2>2 DEF CountInventory
    <3>2. /\ work'[d].op = work[d].op /\ work'[d].reason = work[d].reason
          /\ work'[d].receipt = work[d].receipt
      BY <1>0, <3>1 DEF Works, Set
    <3>3. pc[d] \in Claimed /\ where \in Claimed \ OnReceipt
      BY <1>10 DEF CountInventory, Claimed, OnReceipt, OrphanStates
    <3>4. QED
      BY <1>0, <1>2, <3>0, <3>2, <3>3, ClaimGoes
  <2>3. QED
    BY <2>1, <2>2
<1>11. ASSUME NEW c \in Collections, SweepRows(d, c)
       PROVE  WorksFor(d)' /\ WillClaim(d)'
  <2>0. PICK where \in {"sweep", "remove", "retry"} : Go(d, where)
    BY <1>11 DEF SweepRows, DeleteRows
  <2>1. \E todo, failed : Set(d, [work[d] EXCEPT !.todo = todo, !.failed = failed])
    BY <1>11 DEF SweepRows, DeleteRows
  <2>2. /\ work'[d].op = work[d].op /\ work'[d].reason = work[d].reason
        /\ work'[d].receipt = work[d].receipt
    BY <1>0, <2>1 DEF Works, Set
  <2>3. pc[d] = "sweep" /\ where \in Claimed
    BY <1>11 DEF SweepRows, DeleteRows, Claimed
  <2>4. pc[d] \in Claimed /\ Recorded(work[d].op)'
    BY <1>0, <1>1, <2>2, <2>3 DEF WorksFor, Claimed, OnReceipt, Recorded
  <2>5. QED
    BY <1>0, <1>2, <2>0, <2>2, <2>3, <2>4, ClaimGoes
<1>12. QED
  BY <1>4, <1>5, <1>6, <1>7, <1>8, <1>9, <1>10, <1>11 DEF Reading

\* What a step has to show besides the agreement of the deletion that takes it.
Keeps == OperationKept /\ ReceiptsKept /\ PendingIsMarked' /\ ReceiptsBelong'

\* The claim: the account is free in the version that was read, or is this deletion's.
LEMMA FirstFenceKeeps ==
    ASSUME Types, AccountInvariant, NEW d \in Deleters, FirstFence(d)
    PROVE  Keeps /\ WorksFor(d)' /\ WillClaim(d)'
<1>0. /\ work[d] \in Works /\ WorksFor(d) /\ WillClaim(d) /\ Chosen(d)
      /\ student \in Students /\ pc \in [Requests -> States]
      /\ d \in Requests /\ version \in [Requests -> Nat]
  BY KindsAreRequests DEF Types, HandlerTypes, DatabaseTypes, AccountInvariant, FirstFence,
     Chosen
<1>1. /\ work[d].op \in Deleters /\ work[d].op # NoOp /\ student.version \in Nat
      /\ work[d].resume \in BOOLEAN
  BY <1>0, KindsAreRequests, NoOpIsNoRequest DEF Works, Students
<1>2. receipts' = receipts
  BY DEF FirstFence
<1>3. CASE student' = student
  <2>1. Keeps
    BY <1>2, <1>3, SameMarks, MarksKeep DEF Keeps
  <2>2. CASE FinishDeletion(d)
    BY <2>1, <2>2, EndAgrees DEF FinishDeletion
  <2>3. CASE ~FinishDeletion(d)
    <3>1. /\ student' = [student EXCEPT !.active = FALSE, !.pending = TRUE,
                            !.op = work[d].op, !.reason = work[d].reason, !.version = @ + 1]
      BY <2>3 DEF FirstFence, Effect
    <3>2. student'.version = student.version + 1
      BY <1>0, <3>1 DEF Students
    <3>3. QED
      BY <1>1, <1>3, <3>2
  <2>4. QED
    BY <2>2, <2>3
<1>4. CASE /\ StillEligible(d)
           /\ student' = [student EXCEPT !.active = FALSE, !.pending = TRUE,
                            !.op = work[d].op, !.reason = work[d].reason, !.version = @ + 1]
  <2>1. /\ student'.active = FALSE /\ student'.pending = TRUE /\ student'.op = work[d].op
        /\ student'.reason = work[d].reason /\ student'.version = student.version + 1
    BY <1>0, <1>4 DEF Students
  <2>2. student.op # NoOp => student.op = work[d].op /\ student.reason = work[d].reason
    BY <1>0, <1>4 DEF StillEligible, WillClaim
  <2>3. OperationKept
    BY <1>1, <2>1, <2>2 DEF OperationKept
  <2>4. ReceiptsKept
    BY <1>2 DEF ReceiptsKept, Recorded
  <2>5. PendingIsMarked'
    BY <1>1, <2>1 DEF PendingIsMarked
  <2>6. ReceiptsBelong'
    <3>1. ASSUME NEW op \in Deleters, Recorded(op)
          PROVE  student'.op = op /\ receipts[op].reason = student'.reason
      <4>1. student.op = op /\ receipts[op].reason = student.reason /\ op # NoOp
        BY <3>1, KindsAreRequests, NoOpIsNoRequest DEF AccountInvariant, ReceiptsBelong
      <4>2. QED
        BY <2>1, <2>2, <4>1
    <3>2. QED
      BY <1>2, <3>1 DEF ReceiptsBelong, Recorded
  <2>7. CASE FinishDeletion(d)
    BY <2>3, <2>4, <2>5, <2>6, <2>7, EndAgrees DEF FinishDeletion, Keeps
  <2>8. CASE ~FinishDeletion(d)
    <3>1. PICK where \in {"consult", "fence2"} : Go(d, where) /\ work' = work
      BY <2>8 DEF FirstFence
    <3>2. pc'[d] = where
      BY <1>0, <3>1 DEF Go
    <3>3. ~work[d].receipt
      BY <1>0 DEF WillClaim
    <3>4. WorksFor(d)' /\ WillClaim(d)'
      BY <2>1, <3>1, <3>2, <3>3 DEF WorksFor, WillClaim, Chosen, OnReceipt, OrphanStates
    <3>5. QED
      BY <2>3, <2>4, <2>5, <2>6, <3>4 DEF Keeps
  <2>9. QED
    BY <2>7, <2>8
<1>5. QED
  BY <1>3, <1>4 DEF FirstFence, Effect

LEMMA SecondFenceKeeps ==
    ASSUME Types, AccountInvariant, NEW d \in Deleters, SecondFence(d)
    PROVE  Keeps /\ WorksFor(d)' /\ WillClaim(d)'
<1>0. /\ work[d] \in Works /\ WorksFor(d) /\ pc[d] \in Claimed
      /\ student \in Students /\ student.version \in Nat
  BY KindsAreRequests DEF Types, HandlerTypes, DatabaseTypes, AccountInvariant, SecondFence,
     Claimed, Students
<1>1. /\ work[d].op = student.op /\ work[d].reason = student.reason
      /\ work[d].op \in Deleters /\ work[d].op # NoOp
  BY <1>0, KindsAreRequests, NoOpIsNoRequest DEF WorksFor, Works
<1>2. receipts' = receipts
  BY DEF SecondFence
<1>3. MarksKept
  <2>1. CASE student' = student
    BY <1>2, <2>1, SameMarks
  <2>2. CASE student' = [student EXCEPT !.active = FALSE, !.pending = TRUE,
                                 !.reason = work[d].reason, !.version = @ + 1]
    <3>1. student.pending = TRUE
      BY <1>0, <1>1 DEF AccountInvariant, PendingIsMarked, Students
    <3>2. /\ student'.op = student.op /\ student'.reason = work[d].reason
          /\ student'.active = FALSE /\ student'.pending = TRUE
          /\ student'.version = student.version + 1
      BY <1>0, <2>2 DEF Students
    <3>3. student'.version >= student.version
      BY <1>0, <3>2
    <3>4. student'.reason = student.reason /\ student'.pending = student.pending
      BY <1>1, <3>1, <3>2
    <3>5. ~student'.active
      BY <3>2
    <3>6. QED
      BY <1>2, <3>2, <3>3, <3>4, <3>5 DEF MarksKept
  <2>3. QED
    BY <2>1, <2>2 DEF SecondFence, Effect
<1>4. Keeps
  BY <1>3, MarksKeep DEF Keeps
<1>5. WorksFor(d)' /\ WillClaim(d)'
  <2>1. CASE FinishDeletion(d)
    BY <2>1, EndAgrees DEF FinishDeletion
  <2>2. CASE ~FinishDeletion(d)
    <3>1. PICK where \in {"reuse", "count"} :
            /\ Go(d, where) /\ work' = work
            /\ where = "reuse" => work[d].receipt
      BY <2>2 DEF SecondFence
    <3>2. where \in Claimed
      BY DEF Claimed
    <3>3. where \in OnReceipt => Recorded(work[d].op)'
      BY <1>0, <1>2, <3>1 DEF OnReceipt, OrphanStates, WorksFor, Recorded
    <3>4. QED
      BY <1>0, <1>4, <3>1, <3>2, <3>3, ClaimGoes DEF Keeps
  <2>3. QED
    BY <2>1, <2>2
<1>6. QED
  BY <1>4, <1>5

LEMMA RemovalKeeps ==
    ASSUME Types, AccountInvariant, NEW d \in Deleters, RemoveStudent(d)
    PROVE  Keeps /\ WorksFor(d)' /\ WillClaim(d)'
<1>0. /\ WorksFor(d) /\ pc[d] = "remove" /\ student \in Students /\ student.version \in Nat
  BY DEF Types, DatabaseTypes, AccountInvariant, RemoveStudent, Students
<1>1. receipts' = receipts /\ work' = work
  BY DEF RemoveStudent
<1>2. MarksKept
  <2>1. CASE student' = student
    BY <1>1, <2>1, SameMarks
  <2>2. CASE student' = [student EXCEPT !.exists = FALSE]
    BY <1>0, <1>1, <2>2 DEF MarksKept, Students, AccountInvariant, PendingIsMarked
  <2>3. QED
    BY <2>1, <2>2 DEF RemoveStudent, Effect
<1>3. Keeps
  BY <1>2, MarksKeep DEF Keeps
<1>4. PICK where \in {"complete", "retry"} : Go(d, where)
  BY DEF RemoveStudent
<1>5. pc[d] \in Claimed /\ where \in Claimed /\ Recorded(work[d].op)'
  BY <1>0, <1>1 DEF Claimed, OnReceipt, WorksFor, Recorded
<1>6. QED
  BY <1>0, <1>1, <1>3, <1>4, <1>5, ClaimGoes DEF Keeps

\* The receipt is created for the operation and reason the deletion works for.
LEMMA RecordKeeps ==
    ASSUME Types, AccountInvariant, NEW d \in Deleters, RecordReceipt(d)
    PROVE  Keeps /\ WorksFor(d)' /\ WillClaim(d)'
<1> DEFINE op == work[d].op
           fresh == ~Recorded(op)
           new == [status |-> "in-progress", reason |-> work[d].reason,
                   inventory |-> work[d].counted]
<1>0. /\ work[d] \in Works /\ WorksFor(d) /\ pc[d] \in Claimed
      /\ student.version \in Nat /\ receipts \in [Deleters -> Receipts]
  BY KindsAreRequests DEF Types, HandlerTypes, DatabaseTypes, AccountInvariant,
     RecordReceipt, Claimed, Students
<1>1. op = student.op /\ work[d].reason = student.reason /\ op \in Deleters
  BY <1>0 DEF WorksFor, Works
<1>2. student' = student /\ work' = work
  BY DEF RecordReceipt
<1>3. receipts' = receipts \/ (fresh /\ receipts' = [receipts EXCEPT ![op] = new])
  BY DEF RecordReceipt, Recorded
<1>4. \A e \in Deleters :
        \/ receipts'[e] = receipts[e]
        \/ e = op /\ receipts'[e] = new
  BY <1>0, <1>3
<1>5. OperationKept /\ PendingIsMarked'
  BY <1>0, <1>2 DEF OperationKept, AccountInvariant, PendingIsMarked
<1>6. ReceiptsKept
  BY <1>4 DEF ReceiptsKept, Recorded
<1>7. ReceiptsBelong'
  BY <1>1, <1>2, <1>4 DEF ReceiptsBelong, Recorded, AccountInvariant
<1>8. PICK where \in {"sweep", "recheck"} :
        Go(d, where) /\ (where = "sweep" => receipts'[op].status # "none")
  <2>1. CASE Go(d, "recheck")
    BY <2>1
  <2>2. CASE Go(d, "sweep") /\ receipts' = [receipts EXCEPT ![op] = new]
    BY <1>0, <1>1, <2>2
  <2>3. QED
    BY <2>1, <2>2 DEF RecordReceipt
<1>9. where \in Claimed /\ (where \in OnReceipt => Recorded(op)')
  BY <1>2, <1>8 DEF Claimed, OnReceipt, OrphanStates, Recorded
<1>10. QED
  BY <1>0, <1>2, <1>5, <1>6, <1>7, <1>8, <1>9, ClaimGoes DEF Keeps

LEMMA StatusDeletions ==
    ASSUME Types, AccountInvariant, NEW d \in Deleters,
           ReuseReceipt(d) \/ MarkNeedsRetry(d) \/ CompleteReceipt(d)
    PROVE  Keeps /\ WorksFor(d)' /\ WillClaim(d)'
<1>0. /\ work[d] \in Works /\ WorksFor(d) /\ pc[d] \in Claimed \cap OnReceipt
  BY KindsAreRequests DEF Types, HandlerTypes, AccountInvariant, ReuseReceipt,
     MarkNeedsRetry, CompleteReceipt, Claimed, OnReceipt
<1>1. work[d].op \in Deleters /\ Recorded(work[d].op)
  BY <1>0 DEF WorksFor, Works
<1>2. PICK status \in Statuses \ {"none"} :
        receipts' = receipts \/ receipts' = WithStatus(work[d].op, status)
  BY DEF ReuseReceipt, MarkNeedsRetry, CompleteReceipt, Statuses
<1>3. student' = student
  BY DEF ReuseReceipt, MarkNeedsRetry, CompleteReceipt
<1>4. Keeps
  BY <1>1, <1>2, <1>3, StatusKeeps DEF Keeps
<1>5. CASE FinishDeletion(d)
  BY <1>4, <1>5, EndAgrees DEF FinishDeletion
<1>6. CASE Go(d, "sweep") /\ work' = work
  <2>1. "sweep" \in Claimed /\ Recorded(work[d].op)'
    BY <1>1, <1>4, <1>6 DEF Claimed, Keeps, ReceiptsKept, Recorded
  <2>2. QED
    BY <1>0, <1>4, <1>6, <2>1, ClaimGoes DEF Keeps
<1>7. QED
  BY <1>5, <1>6 DEF ReuseReceipt, MarkNeedsRetry, CompleteReceipt

LEMMA DeletionAgrees ==
    ASSUME Types, AccountInvariant, NEW d \in Deleters, DeletionStep(d)
    PROVE  Keeps /\ WorksFor(d)' /\ WillClaim(d)'
<1>1. CASE Reading(d)
  BY <1>1, ReadingChangesNothing, ReadingAgrees, SameMarks, MarksKeep DEF Keeps
<1>2. CASE FirstFence(d)
  BY <1>2, FirstFenceKeeps
<1>3. CASE SecondFence(d)
  BY <1>3, SecondFenceKeeps
<1>4. CASE RemoveStudent(d)
  BY <1>4, RemovalKeeps
<1>5. CASE RecordReceipt(d)
  BY <1>5, RecordKeeps
<1>6. CASE ReuseReceipt(d) \/ MarkNeedsRetry(d) \/ CompleteReceipt(d)
  BY <1>6, StatusDeletions
<1>7. QED
  BY <1>1, <1>2, <1>3, <1>4, <1>5, <1>6 DEF DeletionStep, Reading

LEMMA AccountDeletions ==
    ASSUME Types, Types', AccountInvariant, NEW d \in Deleters, DeletionStep(d)
    PROVE  AccountInvariant'
<1>1. \A e \in Deleters \ {d} : Untouched(e)
  BY DeletionTouchesItself
<1>2. QED
  BY <1>1, DeletionAgrees, AccountStep, KindsAreRequests DEF Keeps

-----------------------------------------------------------------------------
(* The sweeper.                                                            *)

LEMMA SweeperKeeps ==
    ASSUME Types, AccountInvariant, SweeperStep(Sweeper)
    PROVE  Keeps
<1> DEFINE s == Sweeper
<1>0. s \in Deleters /\ work[s] \in Works /\ WorksFor(s)
  BY KindsAreRequests DEF Types, HandlerTypes, AccountInvariant
<1>1. student' = student
  BY DEF SweeperStep, BeginSweep, CheckOrphan, PrepareOrphan, SweepOrphan, CompleteOrphan,
     UpdateOrphan, DeleteRows, RetryOrphan, FindCandidate, db
<1>2. CASE receipts' = receipts
  BY <1>1, <1>2, SameMarks, MarksKeep DEF Keeps
<1>3. CASE PrepareOrphan(s) \/ CompleteOrphan(s) \/ RetryOrphan(s)
  <2>1. Recorded(work[s].op) /\ work[s].op \in Deleters
    BY <1>0, <1>3 DEF PrepareOrphan, CompleteOrphan, UpdateOrphan, RetryOrphan, OnReceipt,
       OrphanStates, WorksFor, Works
  <2>2. PICK status \in Statuses \ {"none"} :
          receipts' = receipts \/ receipts' = WithStatus(work[s].op, status)
    BY <1>3 DEF PrepareOrphan, CompleteOrphan, UpdateOrphan, RetryOrphan, Statuses
  <2>3. QED
    BY <1>1, <2>1, <2>2, StatusKeeps DEF Keeps
<1>4. QED
  BY <1>2, <1>3 DEF SweeperStep, BeginSweep, CheckOrphan, SweepOrphan, DeleteRows,
     FindCandidate, db

LEMMA SweeperAgrees ==
    ASSUME Types, AccountInvariant, SweeperStep(Sweeper)
    PROVE  WorksFor(Sweeper)' /\ WillClaim(Sweeper)'
<1> DEFINE s == Sweeper
<1>0. /\ s \in Deleters /\ s \in Requests /\ work[s] \in Works /\ WorksFor(s)
      /\ pc \in [Requests -> States] /\ work \in [Deleters -> Works]
      /\ version \in [Requests -> Nat] /\ student \in Students
  BY KindsAreRequests DEF Types, HandlerTypes, DatabaseTypes, AccountInvariant
<1>1. Keeps
  BY SweeperKeeps
<1>2. ASSUME Finish(s) PROVE WorksFor(s)' /\ WillClaim(s)'
  BY <1>0, <1>2, EndAgrees
<1>3. ASSUME Go(s, "candidates") PROVE WorksFor(s)' /\ WillClaim(s)'
  <2>1. pc'[s] = "candidates"
    BY <1>0, <1>3 DEF Go
  <2>2. QED
    BY <2>1, AgreementIdle DEF Claimed, OnReceipt, OrphanStates, Chosen
<1>4. ASSUME NEW where \in OrphanStates \cup {"orphan"}, Go(s, where),
             Recorded(work[s].op)'
      PROVE  WorksFor(s)' /\ WillClaim(s)'
  <2>1. pc'[s] = where /\ where \notin Claimed /\ where \notin {"fence1", "gate", "verify"}
    BY <1>0, <1>4 DEF Go, OrphanStates, Claimed
  <2>2. QED
    BY <1>4, <2>1 DEF WorksFor, WillClaim, Chosen
<1>5. CASE BeginSweep(s)
  <2>1. CASE Finish(s)
    BY <1>2, <2>1
  <2>2. CASE Go(s, "candidates")
    BY <1>3, <2>2
  <2>3. ASSUME NEW op \in Deleters, receipts[op].status \in Unfinished,
               Go(s, "orphan"), Set(s, [NoWork(s) EXCEPT !.op = op])
        PROVE  WorksFor(s)' /\ WillClaim(s)'
    <3>1. work'[s].op = op
      BY <1>0, <2>3 DEF Set, NoWork
    <3>2. Recorded(work[s].op)'
      BY <1>1, <2>3, <3>1 DEF Keeps, ReceiptsKept, Recorded, Unfinished
    <3>3. QED
      BY <1>4, <2>3, <3>2
  <2>4. QED
    BY <1>5, <2>1, <2>2, <2>3 DEF BeginSweep
<1>6. CASE CheckOrphan(s)
  <2>1. CASE FinishDeletion(s)
    BY <1>2, <2>1 DEF FinishDeletion
  <2>2. CASE Go(s, "candidates")
    BY <1>3, <2>2
  <2>3. CASE Go(s, "prepare") /\ work' = work
    <3>1. Recorded(work[s].op)' /\ "prepare" \in OrphanStates
      BY <1>0, <1>6, <2>3 DEF CheckOrphan, db, WorksFor, OnReceipt, OrphanStates, Recorded
    <3>2. QED
      BY <1>4, <2>3, <3>1
  <2>4. QED
    BY <1>6, <2>1, <2>2, <2>3 DEF CheckOrphan
<1>7. CASE \/ PrepareOrphan(s) \/ CompleteOrphan(s) \/ RetryOrphan(s)
           \/ \E c \in Collections : SweepOrphan(s, c)
  <2>1. pc[s] \in OnReceipt /\ Recorded(work[s].op) /\ work[s].op \in Deleters
    BY <1>0, <1>7 DEF PrepareOrphan, CompleteOrphan, UpdateOrphan, RetryOrphan, SweepOrphan,
       DeleteRows, OnReceipt, OrphanStates, WorksFor, Works
  <2>2. PICK where \in OrphanStates \cup {"candidates"} : Go(s, where)
    BY <1>7 DEF PrepareOrphan, CompleteOrphan, UpdateOrphan, RetryOrphan, SweepOrphan,
       DeleteRows, OrphanStates
  <2>3. work'[s].op = work[s].op
    <3>1. CASE work' = work
      BY <3>1
    <3>2. CASE \E todo, failed : Set(s, [work[s] EXCEPT !.todo = todo, !.failed = failed])
      BY <1>0, <3>2 DEF Set, Works
    <3>3. QED
      BY <1>7, <3>1, <3>2 DEF PrepareOrphan, CompleteOrphan, UpdateOrphan, RetryOrphan,
         SweepOrphan, DeleteRows
  <2>4. Recorded(work[s].op)'
    BY <1>1, <2>1, <2>3 DEF Keeps, ReceiptsKept, Recorded
  <2>5. QED
    BY <1>3, <1>4, <2>2, <2>4
<1>8. CASE FindCandidate(s)
  <2>1. CASE FinishDeletion(s)
    BY <1>2, <2>1 DEF FinishDeletion
  <2>2. CASE ~FinishDeletion(s)
    <3>1. /\ pc'[s] = "gate" /\ version'[s] = student.version /\ student' = student
          /\ work'[s] = [NoWork(s) EXCEPT
                     !.resume = student.pending,
                     !.op     = IF student.op # NoOp THEN student.op ELSE s,
                     !.reason = IF student.pending THEN student.reason
                                                   ELSE "retention-expiry"]
      BY <1>0, <1>8, <2>2 DEF FindCandidate, Go, Set, db
    <3>2. WorksFor(s)'
      BY <3>1 DEF WorksFor, Claimed, OnReceipt, OrphanStates
    <3>3. /\ work'[s].resume = student.pending
          /\ work'[s].op = (IF student.op # NoOp THEN student.op ELSE s)
          /\ work'[s].reason = (IF student.pending THEN student.reason
                                                   ELSE "retention-expiry")
          /\ ~work'[s].receipt
      BY <3>1 DEF NoWork
    <3>4. student.version \in Nat /\ (student.pending <=> student.op # NoOp)
      BY <1>0 DEF Students, AccountInvariant, PendingIsMarked
    <3>5. WillClaim(s)'
      BY <3>1, <3>3, <3>4 DEF WillClaim, Reasons
    <3>6. QED
      BY <3>2, <3>5
  <2>3. QED
    BY <2>1, <2>2
<1>9. QED
  BY <1>5, <1>6, <1>7, <1>8 DEF SweeperStep

LEMMA AccountSweeper ==
    ASSUME Types, Types', AccountInvariant, SweeperStep(Sweeper)
    PROVE  AccountInvariant'
<1>1. Sweeper \in Requests /\ Sweeper \in Deleters
  BY KindsAreRequests
<1>2. \A e \in Deleters \ {Sweeper} : Untouched(e)
  BY <1>1, DeletionTouchesItself
<1>3. QED
  BY <1>1, <1>2, SweeperKeeps, SweeperAgrees, AccountStep DEF Keeps

-----------------------------------------------------------------------------
(* The invariant, and what it gives.                                       *)

LEMMA AccountNext == Types /\ Types' /\ AccountInvariant /\ [Next]_vars => AccountInvariant'
<1> SUFFICES ASSUME Types, Types', AccountInvariant, [Next]_vars
             PROVE  AccountInvariant'
    OBVIOUS
<1>e. ASSUME MarksKept, \A d \in Deleters : Untouched(d)
      PROVE  AccountInvariant'
  <2>1. Keeps
    BY <1>e, MarksKeep DEF Keeps
  <2>2. QED
    BY <1>e, <2>1, AgreementKept DEF AccountInvariant, Keeps
<1>1. CASE UNCHANGED vars
  BY <1>1, <1>e, SameMarks DEF vars, db, Untouched
<1>2. CASE Expire
  <2>1. MarksKept
    BY <1>2 DEF Expire, MarksKept, Types, DatabaseTypes, Students, AccountInvariant,
       PendingIsMarked
  <2>2. QED
    BY <1>2, <1>e, <2>1 DEF Expire, Untouched
<1>3. CASE Crash
  <2>1. Keeps
    BY <1>3, SameMarks, MarksKeep DEF Crash, db, Keeps
  <2>2. ASSUME NEW d \in Deleters
        PROVE  WorksFor(d)' /\ WillClaim(d)'
    <3>1. pc'[d] \in {"ready", "idle", "done"}
      BY <1>3, KindsAreRequests DEF Crash, Rest
    <3>2. QED
      BY <3>1, AgreementIdle DEF Claimed, OnReceipt, OrphanStates, Chosen
  <2>3. QED
    BY <2>1, <2>2 DEF Keeps, AccountInvariant
<1>4. ASSUME NEW r \in Leasers \cup SignIns, WriterStep(r)
      PROVE  AccountInvariant'
  BY <1>4, <1>e, WriterMarks
<1>5. ASSUME NEW t \in Transitions, TransitionStep(t)
      PROVE  AccountInvariant'
  BY <1>5, <1>e, TransitionMarks
<1>6. QED
  BY <1>1, <1>2, <1>3, <1>4, <1>5, AccountDeletions, AccountSweeper DEF Next

\* The operation and the reason a deletion works for are those of the account and of its
\* receipt, whoever resumes it and however often (deleteStudentRecordSet's filters on
\* dataDeletionOperationID and sessionVersion).
THEOREM AccountIsInvariant == Spec => [](Types /\ AccountInvariant)
<1>1. Types /\ AccountInvariant /\ [Next]_vars => (Types /\ AccountInvariant)'
  BY TypesNext, AccountNext
<1>2. Init => Types /\ AccountInvariant
  BY TypesInit, AccountInit
<1>3. QED
  BY <1>1, <1>2, PTL DEF Spec

\* A pending account is disabled until it is gone: no activation, access-code reset or
\* sign-in that read the account before the deletion turns it on again.
THEOREM PendingAccountsStayDisabled == Spec => []PendingStaysDisabled
<1>1. AccountInvariant => PendingStaysDisabled
  BY DEF AccountInvariant, PendingIsMarked, PendingStaysDisabled
<1>2. QED
  BY <1>1, AccountIsInvariant, PTL

-----------------------------------------------------------------------------
(* The action properties.                                                  *)

\* The marks of the document move only in a deletion.
LEMMA OthersKeepMarks ==
    ASSUME Types, AccountInvariant, Next
    PROVE  MarksKept \/ \E d \in Deleters : DeletionStep(d) \/ SweeperStep(Sweeper)
<1>1. CASE Expire
  BY <1>1 DEF Expire, MarksKept, Types, DatabaseTypes, Students, AccountInvariant,
     PendingIsMarked
<1>2. CASE Crash
  BY <1>2, SameMarks DEF Crash, db
<1>3. QED
  BY <1>1, <1>2, WriterMarks, TransitionMarks, KindsAreRequests DEF Next

\* A deletion writes the receipt of the account's operation only.
LEMMA OnlyOwnReceipt ==
    ASSUME Types, AccountInvariant, NEW op \in Deleters \ {student.op},
           (\E d \in Deleters : DeletionStep(d)) \/ SweeperStep(Sweeper)
    PROVE  receipts'[op] = receipts[op]
<1>1. receipts \in [Deleters -> Receipts]
  BY DEF Types, DatabaseTypes
<1>2. ASSUME NEW d \in Deleters, pc[d] \in Claimed \cup OnReceipt,
             \/ receipts' = receipts
             \/ \E status : receipts' = WithStatus(work[d].op, status)
             \/ \E new : receipts' = [receipts EXCEPT ![work[d].op] = new]
      PROVE  receipts'[op] = receipts[op]
  <2>1. work[d].op \in Deleters
    BY DEF Types, HandlerTypes, Works
  <2>2. work[d].op = student.op
    BY <1>2, <2>1 DEF AccountInvariant, WorksFor, ReceiptsBelong
  <2>3. QED
    BY <1>1, <1>2, <2>1, <2>2 DEF WithStatus
<1>3. ASSUME NEW d \in Deleters, DeletionStep(d)
      PROVE  receipts'[op] = receipts[op]
  <2>1. CASE \/ ReuseReceipt(d) \/ RecordReceipt(d) \/ MarkNeedsRetry(d)
             \/ CompleteReceipt(d)
    <3>1. pc[d] \in Claimed \cup OnReceipt
      BY <2>1 DEF ReuseReceipt, RecordReceipt, MarkNeedsRetry, CompleteReceipt, Claimed
    <3>2. \/ receipts' = receipts
          \/ \E status : receipts' = WithStatus(work[d].op, status)
          \/ \E new : receipts' = [receipts EXCEPT ![work[d].op] = new]
      BY <2>1 DEF ReuseReceipt, RecordReceipt, MarkNeedsRetry, CompleteReceipt
    <3>3. QED
      BY <1>2, <3>1, <3>2
  <2>2. CASE receipts' = receipts
    BY <2>2
  <2>3. QED
    BY <1>3, <2>1, <2>2, ReadingChangesNothing DEF DeletionStep, Reading, FirstFence,
       SecondFence, RemoveStudent
<1>4. CASE SweeperStep(Sweeper)
  <2>1. CASE PrepareOrphan(Sweeper) \/ CompleteOrphan(Sweeper) \/ RetryOrphan(Sweeper)
    <3>1. pc[Sweeper] \in OnReceipt
      BY <2>1 DEF PrepareOrphan, CompleteOrphan, UpdateOrphan, RetryOrphan, OnReceipt,
         OrphanStates
    <3>2. \/ receipts' = receipts
          \/ \E status : receipts' = WithStatus(work[Sweeper].op, status)
      BY <2>1 DEF PrepareOrphan, CompleteOrphan, UpdateOrphan, RetryOrphan
    <3>3. QED
      BY <1>2, <3>1, <3>2, KindsAreRequests
  <2>2. CASE receipts' = receipts
    BY <2>2
  <2>3. QED
    BY <1>4, <2>1, <2>2 DEF SweeperStep, BeginSweep, CheckOrphan, SweepOrphan, DeleteRows,
       FindCandidate, db
<1>5. QED
  BY <1>3, <1>4

LEMMA NextKeeps == Types /\ AccountInvariant /\ Next => OperationKept
BY OthersKeepMarks, MarksKeep, DeletionAgrees, SweeperKeeps DEF Keeps

\* Once an account is pending it stays so, under one operation, one reason and one receipt,
\* until it is removed, for any number of deletions, sweeps, failures and crashes.
THEOREM OperationsAreStable == Spec => OperationIsStable
<1> DEFINE Stable == student.op # NoOp =>
        /\ student'.pending
        /\ student'.op = student.op
        /\ student'.reason = student.reason
        /\ \A op \in Deleters \ {student.op} : receipts'[op] = receipts[op]
<1>1. Types /\ AccountInvariant /\ (Types /\ AccountInvariant)' /\ [Next]_vars
        => [Stable]_vars
  <2> SUFFICES ASSUME Types, AccountInvariant, AccountInvariant', Next, student.op # NoOp
               PROVE  Stable
      OBVIOUS
  <2>1. student'.op = student.op /\ student'.reason = student.reason
    BY NextKeeps DEF OperationKept
  <2>2. student'.pending
    BY <2>1 DEF AccountInvariant, PendingIsMarked
  <2>3. ASSUME NEW op \in Deleters \ {student.op}
        PROVE  receipts'[op] = receipts[op]
    BY <2>3, OthersKeepMarks, OnlyOwnReceipt DEF MarksKept
  <2>4. QED
    BY <2>1, <2>2, <2>3
<1>2. QED
  BY <1>1, AccountIsInvariant, PTL DEF Spec, OperationIsStable

\* The automatic deletion claims only an account whose deadline has passed in that very
\* update: a sign-in that renewed it after the sweep selected the account wins.
THEOREM OnlyExpiredAreClaimed == Spec => OnlyExpiredAccountsAreSwept
<1> DEFINE Expired ==
        ~student.pending /\ student'.pending /\ student'.reason = "retention-expiry"
          => student.expired
<1>1. Types /\ AccountInvariant /\ [Next]_vars => [Expired]_vars
  <2> SUFFICES ASSUME Types, AccountInvariant, Next, ~student.pending, student'.pending,
                      student'.reason = "retention-expiry"
               PROVE  student.expired
      OBVIOUS
  <2>0. student \in Students
    BY DEF Types, DatabaseTypes
  <2>1. student'.pending # student.pending
    OBVIOUS
  <2>2. PICK d \in Deleters : DeletionStep(d)
    <3>1. ~MarksKept
      BY <2>1 DEF MarksKept
    <3>2. ~SweeperStep(Sweeper)
      BY <2>1 DEF SweeperStep, BeginSweep, CheckOrphan, PrepareOrphan, SweepOrphan,
         CompleteOrphan, UpdateOrphan, DeleteRows, RetryOrphan, FindCandidate, db
    <3>3. QED
      BY <3>1, <3>2, OthersKeepMarks
  <2>3. work[d].op \in Deleters /\ work[d].op # NoOp
    BY KindsAreRequests, NoOpIsNoRequest DEF Types, HandlerTypes, Works
  <2>4. FirstFence(d) \/ SecondFence(d)
    <3>1. CASE RemoveStudent(d)
      BY <2>0, <2>1, <3>1 DEF RemoveStudent, Effect, Students
    <3>2. CASE student' = student
      BY <2>1, <3>2
    <3>3. QED
      BY <2>2, <3>1, <3>2, ReadingChangesNothing DEF DeletionStep, Reading, ReuseReceipt,
         RecordReceipt, MarkNeedsRetry, CompleteReceipt
  <2>5. student.op = NoOp
    BY DEF AccountInvariant, PendingIsMarked
  <2>6. FirstFence(d) /\ StillEligible(d) /\ student'.reason = work[d].reason
    <3>1. ~SecondFence(d)
      BY <2>1, <2>3, <2>5 DEF SecondFence, Effect
    <3>2. QED
      BY <2>0, <2>1, <2>4, <3>1 DEF FirstFence, Effect, Students
  <2>7. ~work[d].resume
    BY <2>3, <2>5, <2>6 DEF StillEligible
  <2>8. CASE d = Sweeper
    BY <2>6, <2>7, <2>8 DEF StillEligible
  <2>9. CASE d # Sweeper
    BY <2>6, <2>7, <2>9 DEF AccountInvariant, WillClaim, Chosen, FirstFence
  <2>10. QED
    BY <2>8, <2>9
<1>2. QED
  BY <1>1, AccountIsInvariant, PTL DEF Spec, OnlyExpiredAccountsAreSwept

-----------------------------------------------------------------------------
(* The purge schedule.                                                     *)

\* Nobody but a hold transition sets the flag or gives a deadline.
LEMMA OthersKeepTheHold ==
    ASSUME Types, Next, ~\E t \in Transitions : TransitionStep(t), ~Crash
    PROVE  /\ HoldKept /\ armed' = armed
           /\ \A t \in Transitions : pc'[t] = pc[t]
<1>0. student \in Students /\ pc \in [Requests -> States] /\ Transitions \subseteq Requests
  BY KindsAreRequests DEF Types, DatabaseTypes, HandlerTypes
<1>1. ASSUME NEW r \in Leasers \cup SignIns, WriterStep(r)
      PROVE  /\ HoldKept /\ armed' = armed
             /\ \A t \in Transitions : pc'[t] = pc[t]
  <2>1. armed' = armed
    BY <1>1 DEF WriterStep, Authenticate, EnterWrites, EnterBoth, VerifyHold, Unpark,
       CreateProject, ReserveQuota, LoadManagedStudent, CreateReview, CorrectUsername,
       LoadForConnect, CreateAttempt, WithdrawAttempt, LoadAccount, ChangeAccount, BeginSignIn,
       FinishSignIn, db
  <2>2. \E where : pc' = [pc EXCEPT ![r] = where]
    BY <1>1 DEF WriterStep, Authenticate, EnterWrites, EnterBoth, VerifyHold, Unpark,
       CreateProject, ReserveQuota, LoadManagedStudent, CreateReview, CorrectUsername,
       LoadForConnect, CreateAttempt, WithdrawAttempt, LoadAccount, ChangeAccount, BeginSignIn,
       FinishSignIn, Go, GoIf, Finish
  <2>3. r \notin Transitions
    BY KindsAreApart
  <2>4. HoldKept
    <3>1. CASE CorrectUsername(r) \/ ChangeAccount(r) \/ FinishSignIn(r)
      BY <1>0, <3>1 DEF CorrectUsername, ChangeAccount, FinishSignIn, Effect, Students,
         HoldKept
    <3>2. CASE student' = student
      BY <3>2 DEF HoldKept
    <3>3. QED
      BY <1>1, <3>1, <3>2 DEF WriterStep, Authenticate, EnterWrites, EnterBoth, VerifyHold,
         Unpark, CreateProject, ReserveQuota, LoadManagedStudent, CreateReview, LoadForConnect,
         CreateAttempt, WithdrawAttempt, LoadAccount, BeginSignIn, db
  <2>5. QED
    BY <1>0, <2>1, <2>2, <2>3, <2>4
<1>2. ASSUME NEW d \in Deleters, DeletionStep(d) \/ (d = Sweeper /\ SweeperStep(d))
      PROVE  /\ HoldKept /\ armed' = armed
             /\ \A t \in Transitions : pc'[t] = pc[t]
  <2>1. armed' = armed
    BY <1>2 DEF DeletionStep, EnterMutations, VerifyHold, Unpark, ReadForDeletion, FirstFence,
       ConsultReceipt, SecondFence, ReuseReceipt, CountInventory, SweepRows, DeleteRows,
       RecordReceipt, RecheckReceipt, RemoveStudent, MarkNeedsRetry, CompleteReceipt,
       SweeperStep, BeginSweep, CheckOrphan, PrepareOrphan, SweepOrphan, CompleteOrphan,
       UpdateOrphan, RetryOrphan, FindCandidate, db
  <2>2. \E where : pc' = [pc EXCEPT ![d] = where]
    BY <1>2 DEF DeletionStep, EnterMutations, VerifyHold, Unpark, ReadForDeletion, FirstFence,
       ConsultReceipt, SecondFence, ReuseReceipt, CountInventory, SweepRows, DeleteRows,
       RecordReceipt, RecheckReceipt, RemoveStudent, MarkNeedsRetry, CompleteReceipt,
       SweeperStep, BeginSweep, CheckOrphan, PrepareOrphan, SweepOrphan, CompleteOrphan,
       UpdateOrphan, RetryOrphan, FindCandidate, FinishDeletion, Go, Finish
  <2>3. d \notin Transitions
    BY KindsAreApart
  <2>4. HoldKept
    <3>1. CASE FirstFence(d) \/ SecondFence(d) \/ RemoveStudent(d)
      BY <1>0, <3>1 DEF FirstFence, SecondFence, RemoveStudent, Effect, Students, HoldKept
    <3>2. CASE student' = student
      BY <3>2 DEF HoldKept
    <3>3. QED
      BY <1>2, <3>1, <3>2 DEF DeletionStep, EnterMutations, VerifyHold, Unpark,
         ReadForDeletion, ConsultReceipt, ReuseReceipt, CountInventory, SweepRows, DeleteRows,
         RecordReceipt, RecheckReceipt, MarkNeedsRetry, CompleteReceipt, SweeperStep,
         BeginSweep, CheckOrphan, PrepareOrphan, SweepOrphan, CompleteOrphan, UpdateOrphan,
         RetryOrphan, FindCandidate, db
  <2>5. QED
    BY <1>0, <2>1, <2>2, <2>3, <2>4
<1>3. CASE Expire
  BY <1>0, <1>3 DEF Expire, HoldKept, Students
<1>4. QED
  BY <1>1, <1>2, <1>3, KindsAreRequests DEF Next

\* A transition that is not busy is at none of the steps the invariant speaks of, and only
\* the owner of the tail is busy.
LEMMA PurgeTransitions ==
    ASSUME Types, HoldInvariant, PurgeInvariant, NEW t \in Transitions, TransitionStep(t)
    PROVE  PurgeInvariant'
<1>0. /\ student \in Students /\ pc \in [Requests -> States] /\ t \in Requests
      /\ armed \in BOOLEAN /\ t # NoOp /\ Transitions \subseteq Requests
      /\ (t \in Places <=> t \notin Releases)
  BY KindsAreRequests, KindsAreApart, NoOpIsNoRequest
     DEF Types, DatabaseTypes, HandlerTypes, Transitions
<1>1. \A u \in Transitions \ {t} : ~Busy(u)
  <2>1. transition = NoOp \/ transition = t
    BY <1>0 DEF TransitionStep, BeginTransition, SuspendPurge, PlaceHold, ReleaseHold, Reread,
       SettleRelease, CatchTransition, CatchHeld, CatchSettle, HoldInvariant,
       TransitionIsAlone, Busy
  <2>2. NoOp \notin Transitions
    BY <1>0, NoOpIsNoRequest
  <2>3. QED
    BY <2>1, <2>2 DEF HoldInvariant, TransitionIsAlone
<1>2. \E where : pc' = [pc EXCEPT ![t] = where]
  BY DEF TransitionStep, BeginTransition, SuspendPurge, PlaceHold, ReleaseHold, Reread,
     SettleRelease, CatchTransition, CatchHeld, CatchSettle, Step, Settled
<1>3. \A u \in Transitions \ {t} : pc'[u] \in {"ready", "done"}
  BY <1>0, <1>1, <1>2 DEF Busy
<1>s. SUFFICES
        /\ HoldSuspendsPurge'
        /\ t \in Places /\ pc'[t] = "flip" => ~armed'
        /\ t \in Releases /\ pc'[t] = "reread" => NotHeld'
        /\ pc'[t] \in {"settle", "catch-settle"} => NotHeld'
  BY <1>3 DEF PurgeInvariant
<1>4. CASE BeginTransition(t)
  <2>1. /\ student' = student /\ armed' = armed
        /\ pc'[t] = (IF t \in Places THEN "suspend" ELSE "flip")
    BY <1>0, <1>4 DEF BeginTransition, db
  <2>2. QED
    BY <2>1 DEF PurgeInvariant, HoldSuspendsPurge
<1>5. CASE SuspendPurge(t)
  <2>1. PICK o \in Outcomes : /\ armed' = (armed /\ o = "lost")
                              /\ pc'[t] = (IF o = "ok" THEN "flip" ELSE "catch")
    BY <1>0, <1>5 DEF SuspendPurge, Step
  <2>2. student' = student
    BY <1>5 DEF SuspendPurge
  <2>3. pc'[t] = "flip" => ~armed'
    BY <2>1
  <2>4. HoldSuspendsPurge'
    BY <2>1, <2>2 DEF PurgeInvariant, HoldSuspendsPurge
  <2>5. QED
    BY <2>1, <2>3, <2>4
<1>6. CASE PlaceHold(t)
  <2>1. ~armed /\ armed' = armed
    BY <1>6 DEF PlaceHold, PurgeInvariant
  <2>2. pc'[t] \in {"done", "reread", "catch"}
    BY <1>0, <1>6 DEF PlaceHold, Settled, Step
  <2>3. QED
    BY <1>0, <1>6, <2>1, <2>2 DEF HoldSuspendsPurge, PlaceHold
<1>7. CASE ReleaseHold(t)
  <2>1. armed' = armed
    BY <1>7 DEF ReleaseHold
  <2>2. PICK o \in Outcomes :
          /\ student' = Effect(o, student.exists /\ student.hold,
                               [student EXCEPT !.hold = FALSE])
          /\ pc'[t] = (IF o # "ok" THEN "catch"
                       ELSE IF student.exists /\ student.hold THEN "settle" ELSE "reread")
    BY <1>0, <1>7 DEF ReleaseHold, Step
  <2>3. \/ student' = student
        \/ student'.hold = FALSE
    BY <1>0, <2>2 DEF Effect, Students
  <2>4. HoldSuspendsPurge'
    BY <2>1, <2>3 DEF PurgeInvariant, HoldSuspendsPurge
  <2>5. pc'[t] \in {"settle", "reread"} => NotHeld'
    <3>1. CASE o = "ok" /\ student.exists /\ student.hold
      BY <1>0, <2>2, <3>1 DEF Effect, Students, NotHeld
    <3>2. CASE o = "ok" /\ ~(student.exists /\ student.hold)
      BY <2>2, <3>2 DEF Effect, NotHeld
    <3>3. QED
      BY <2>2, <3>1, <3>2
  <2>6. pc'[t] \in {"catch", "settle", "reread"}
    BY <2>2
  <2>7. QED
    BY <2>4, <2>5, <2>6
<1>8. CASE Reread(t)
  <2>1. student' = student /\ armed' = armed
    BY <1>8 DEF Reread, db
  <2>2. pc'[t] \in {"catch", "done", "settle"} /\ (pc'[t] = "settle" => t \in Releases)
    BY <1>0, <1>8 DEF Reread, Step, Settled
  <2>3. t \in Releases => NotHeld'
    BY <1>8, <2>1 DEF Reread, PurgeInvariant, NotHeld
  <2>4. QED
    BY <2>1, <2>2, <2>3 DEF PurgeInvariant, HoldSuspendsPurge
<1>9. CASE SettleRelease(t) \/ CatchSettle(t)
  <2>1. student' = student /\ NotHeld
    BY <1>9 DEF SettleRelease, CatchSettle, PurgeInvariant
  <2>2. pc'[t] \in {"done", "catch"}
    BY <1>0, <1>9 DEF SettleRelease, CatchSettle, Settled, Step
  <2>3. QED
    BY <2>1, <2>2 DEF NotHeld, HoldSuspendsPurge
<1>10. CASE CatchTransition(t)
  <2>1. student' = student /\ armed' = armed
    BY <1>10 DEF CatchTransition, db
  <2>2. /\ pc'[t] \in {"done", "catch-held", "catch-settle"}
        /\ pc'[t] = "catch-settle" => ~HoldAfterError(t)
    BY <1>0, <1>10 DEF CatchTransition, Settled, Step
  <2>3. QED
    BY <2>1, <2>2 DEF PurgeInvariant, HoldSuspendsPurge, HoldAfterError, NotHeld
<1>11. CASE CatchHeld(t)
  <2>1. student' = student /\ pc'[t] = "done" /\ (armed' => armed)
    BY <1>0, <1>11 DEF CatchHeld, Settled
  <2>2. QED
    BY <2>1 DEF PurgeInvariant, HoldSuspendsPurge
<1>12. QED
  BY <1>4, <1>5, <1>6, <1>7, <1>8, <1>9, <1>10, <1>11 DEF TransitionStep

LEMMA PurgeNext ==
    Types /\ HoldInvariant /\ PurgeInvariant /\ [Next]_vars => PurgeInvariant'
<1> SUFFICES ASSUME Types, HoldInvariant, PurgeInvariant, [Next]_vars
             PROVE  PurgeInvariant'
    OBVIOUS
<1>k. ASSUME HoldKept, armed' = armed, \A t \in Transitions : pc'[t] = pc[t]
      PROVE  PurgeInvariant'
  BY <1>k DEF HoldKept, PurgeInvariant, HoldSuspendsPurge, NotHeld
<1>1. CASE UNCHANGED vars
  BY <1>1, <1>k DEF vars, db, HoldKept
<1>2. CASE Crash
  <2>1. \A t \in Transitions : pc'[t] \in {"ready", "done", "idle"}
    BY <1>2, KindsAreRequests DEF Crash, Rest
  <2>2. student' = student /\ armed' = armed
    BY <1>2 DEF Crash, db
  <2>3. QED
    BY <2>1, <2>2 DEF PurgeInvariant, HoldSuspendsPurge
<1>3. QED
  BY <1>1, <1>2, <1>k, PurgeTransitions, OthersKeepTheHold

\* The purge schedule's invariant holds in every reachable state.
THEOREM PurgeIsInvariant == Spec => []PurgeInvariant
<1>1. Init => PurgeInvariant
  <2> SUFFICES ASSUME Init PROVE PurgeInvariant
      OBVIOUS
  <2>1. \A t \in Transitions : pc[t] = "ready"
    BY KindsAreApart, KindsAreRequests DEF Init
  <2>2. QED
    BY <2>1 DEF Init, PurgeInvariant, HoldSuspendsPurge
<1>2. QED
  BY <1>1, PurgeNext, HoldIsInvariant, PTL DEF Spec

\* No tombstone of a held record has a purge deadline, for any number of transitions,
\* failed or not, and restarts (suspendPythonProjectTombstonePurge before the durable
\* flag, resumePythonProjectTombstonePurge only after it was seen to be clear).
THEOREM HoldsSuspendThePurge == Spec => []HoldSuspendsPurge
<1>1. PurgeInvariant => HoldSuspendsPurge
  BY DEF PurgeInvariant
<1>2. QED
  BY <1>1, PurgeIsInvariant, PTL

-----------------------------------------------------------------------------
(* The removal and what it leaves.                                         *)

LEMMA DeletionInit == Init => DeletionInvariant
<1> SUFFICES ASSUME Init PROVE DeletionInvariant
    OBVIOUS
<1>1. \A r \in Requests : pc[r] \in {"ready", "idle"}
  BY DEF Init
<1>2. WritesAreLeased /\ NoWriterOutlives /\ NoResurrection
  BY <1>1 DEF WritesAreLeased, NoWriterOutlives, NoResurrection, Storing, WriteLeased, Init
<1>3. DeletionsAreFenced
  BY <1>1, KindsAreRequests DEF DeletionsAreFenced, FenceHolds, SweepHolds, Fenced
<1>4. CompletedMeansGone
  BY DEF CompletedMeansGone, Init, NoReceipt
<1>5. QED
  BY <1>2, <1>3, <1>4 DEF DeletionInvariant

\* What one handler's move must keep to keep the invariant: it stores only under a write
\* lease, takes one only while the gate is open, opens the gate only when no deletion is
\* under way, and removes the document only when the gate is shut and everything is swept.
LEMMA DeletionMove ==
    ASSUME Types, HoldInvariant, DeletionInvariant, NEW r \in Requests, NEW where \in States,
           pc' = [pc EXCEPT ![r] = where],
           \A d \in Deleters \ {r} : work'[d] = work[d],
           WriteLeased(r, where) => r \in writeLeases',
           writeLeases \ {r} \subseteq writeLeases',
           writeLeases' \subseteq writeLeases \/ ~writesClosed,
           \/ writesClosed => writesClosed'
           \/ mutationLeases = {} /\ student'.exists /\ r \notin Deleters,
           r \in Deleters => FenceHolds(where)' /\ SweepHolds(r, where, work[r])',
           student'.exists => student.exists,
           student.exists /\ ~student'.exists =>
                writesClosed /\ writeLeases = {} /\ NoRows /\ rows' = rows,
           \/ \A c \in Collections : rows'[c] \subseteq rows[c]
           \/ student.exists /\ writeLeases # {},
           ~student.exists => where \notin Storing,
           student.exists /\ ~student'.exists => r \in Deleters,
           \A op \in Deleters : receipts'[op].status = "completed" =>
                receipts[op].status = "completed" \/ ~student'.exists
    PROVE  DeletionInvariant'
<1>0. /\ pc \in [Requests -> States] /\ Deleters \subseteq Requests
      /\ ProjectWrites \subseteq Requests /\ rows \in Inventories /\ student.exists \in BOOLEAN
  BY KindsAreRequests DEF Types, HandlerTypes, DatabaseTypes, Students
<1>1. pc'[r] = where /\ \A q \in Requests \ {r} : pc'[q] = pc[q]
  BY <1>0
<1>2. WritesAreLeased'
  BY <1>0, <1>1 DEF DeletionInvariant, WritesAreLeased, WriteLeased
<1>3. NoResurrection'
  BY <1>0 DEF DeletionInvariant, NoResurrection, NoRows
<1>4. CompletedMeansGone'
  BY <1>3 DEF DeletionInvariant, CompletedMeansGone, NoResurrection
<1>5. NoWriterOutlives'
  BY <1>0, <1>1, <1>2, KindsAreRequests
     DEF DeletionInvariant, WritesAreLeased, WriteLeased, NoWriterOutlives, Storing
<1>6. ASSUME NEW d \in Deleters \ {r}
      PROVE  FenceHolds(pc[d])' /\ SweepHolds(d, pc[d], work[d])'
  <2>1. FenceHolds(pc[d]) /\ SweepHolds(d, pc[d], work[d])
    BY DEF DeletionInvariant, DeletionsAreFenced
  <2>2. pc'[d] = pc[d] /\ work'[d] = work[d]
    BY <1>0, <1>1
  <2>3. mutationLeases = {} => pc[d] \notin Fenced \cup {"fence2"}
    BY <1>0, LeaseFree DEF HoldInvariant, MutationsAreLeased, Fenced, DeletionStates
  <2>4. FenceHolds(pc[d])'
    BY <2>1, <2>2, <2>3 DEF FenceHolds
  <2>5. SweepHolds(d, pc[d], work[d])'
    BY <2>1, <2>2 DEF FenceHolds, SweepHolds, Fenced, NoRows
  <2>6. QED
    BY <2>4, <2>5
<1>7. DeletionsAreFenced'
  BY <1>1, <1>6 DEF DeletionsAreFenced
<1>8. QED
  BY <1>2, <1>3, <1>4, <1>5, <1>7 DEF DeletionInvariant

\* A writer's move: no variable of the deletion changes.
LEMMA DeletionWriterMove ==
    ASSUME Types, HoldInvariant, DeletionInvariant, NEW r \in Leasers \cup SignIns,
           NEW where \in States, pc' = [pc EXCEPT ![r] = where],
           UNCHANGED <<work, receipts, writesClosed>>,
           student'.exists = student.exists,
           WriteLeased(r, where) => r \in writeLeases',
           writeLeases \ {r} \subseteq writeLeases',
           writeLeases' \subseteq writeLeases \/ ~writesClosed,
           rows' = rows \/ (\A c \in Collections : rows'[c] \subseteq rows[c])
             \/ (student.exists /\ writeLeases # {}),
           ~student.exists => where \notin Storing
    PROVE  DeletionInvariant'
<1>1. r \in Requests /\ r \notin Deleters
  BY KindsAreApart, KindsAreRequests
<1>2. student.exists \in BOOLEAN
  BY DEF Types, DatabaseTypes, Students
<1>3. QED
  BY <1>1, <1>2, DeletionMove

\* ... and its end.
LEMMA DeletionWriterEnd ==
    ASSUME Types, HoldInvariant, DeletionInvariant, NEW r \in Leasers \cup SignIns,
           Finish(r), UNCHANGED <<work, receipts, writesClosed>>,
           student'.exists = student.exists,
           rows' = rows \/ (\A c \in Collections : rows'[c] \subseteq rows[c])
             \/ (student.exists /\ writeLeases # {})
    PROVE  DeletionInvariant'
<1>1. Rest(r) \in States /\ Rest(r) \notin Storing /\ ~WriteLeased(r, Rest(r))
  BY RestType DEF Rest, Storing, WriteLeased
<1>2. QED
  BY <1>1, DeletionWriterMove DEF Finish

LEMMA DeletionWriters ==
    ASSUME Types, HoldInvariant, DeletionInvariant, NEW r \in Leasers \cup SignIns,
           WriterStep(r)
    PROVE  DeletionInvariant'
<1>0. /\ r \in Requests /\ student \in Students /\ rows \in Inventories
      /\ writeLeases \subseteq Requests
  BY KindsAreRequests DEF Types, DatabaseTypes, GateTypes
<1>a. {"authed", "load", "verify", "parked", "create", "rename", "attempt", "withdraw",
       "change", "signin", "read", "fence1"} \subseteq States
  BY DEF States
<1>b. pc[r] \in {"create", "attempt"} => r \in writeLeases /\ student.exists
  BY <1>0 DEF DeletionInvariant, WritesAreLeased, WriteLeased, NoWriterOutlives, Storing
<1>1. CASE Authenticate(r)
  <2>1. UNCHANGED <<student, rows, work, receipts, writesClosed, writeLeases>>
    BY <1>1 DEF Authenticate, db, gates
  <2>2. student.exists /\ ~WriteLeased(r, "authed") /\ pc' = [pc EXCEPT ![r] = "authed"]
    BY <1>1 DEF Authenticate, UsableBySession, WriteLeased
  <2>3. QED
    BY <1>a, <2>1, <2>2, DeletionWriterMove
<1>2. CASE EnterWrites(r)
  <2>1. UNCHANGED <<student, rows, work, receipts, writesClosed>>
    BY <1>2 DEF EnterWrites, db
  <2>2. CASE Finish(r)
    BY <2>1, <2>2, DeletionWriterEnd
  <2>3. CASE /\ ~writesClosed
             /\ writeLeases' = writeLeases \cup {r}
             /\ pc' = [pc EXCEPT ![r] = "load"]
    <3>1. "load" \notin Storing
      BY DEF Storing
    <3>2. QED
      BY <1>a, <2>1, <2>3, <3>1, DeletionWriterMove
  <2>4. QED
    BY <1>2, <2>2, <2>3 DEF EnterWrites
<1>3. CASE EnterBoth(r)
  <2>1. UNCHANGED <<student, rows, work, receipts, writesClosed>>
    BY <1>3 DEF EnterBoth, db
  <2>2. CASE Finish(r)
    BY <2>1, <2>2, DeletionWriterEnd
  <2>3. CASE /\ ~writesClosed
             /\ writeLeases' = writeLeases \cup {r}
             /\ pc' = [pc EXCEPT ![r] = "verify"]
    <3>1. "verify" \notin Storing
      BY DEF Storing
    <3>2. QED
      BY <1>a, <2>1, <2>3, <3>1, DeletionWriterMove
  <2>4. QED
    BY <1>3, <2>2, <2>3 DEF EnterBoth
<1>4. CASE r \in Protected /\ VerifyHold(r)
  <2>1. UNCHANGED <<student, rows, work, receipts, writesClosed>> /\ pc[r] = "verify"
    BY <1>4 DEF VerifyHold, db
  <2>2. CASE Finish(r)
    BY <2>1, <2>2, DeletionWriterEnd
  <2>3. CASE pc' = [pc EXCEPT ![r] = "parked"] /\ UNCHANGED writeLeases
    <3>1. "parked" \notin Storing /\ ~WriteLeased(r, "parked")
      BY DEF Storing, WriteLeased
    <3>2. QED
      BY <1>a, <2>1, <2>3, <3>1, DeletionWriterMove
  <2>4. CASE Go(r, AfterVerify(r))
    <3>1. AfterVerify(r) \in States /\ AfterVerify(r) \notin Storing
      BY DEF AfterVerify, States, Storing
    <3>2. r \in writeLeases
      BY <1>0, <1>4, <2>1 DEF DeletionInvariant, WritesAreLeased, WriteLeased
    <3>3. QED
      BY <2>1, <2>4, <3>1, <3>2, DeletionWriterMove DEF Go
  <2>5. QED
    BY <1>4, <2>2, <2>3, <2>4 DEF VerifyHold
<1>5. CASE Unpark(r)
  BY <1>5, DeletionWriterEnd DEF Unpark, db
<1>6. CASE CreateProject(r)
  BY <1>6, <1>b, DeletionWriterEnd DEF CreateProject
<1>7. CASE ReserveQuota(r) \/ LoadManagedStudent(r)
  <2>1. UNCHANGED <<student, rows, work, receipts, writesClosed>>
    BY <1>7 DEF ReserveQuota, LoadManagedStudent, db
  <2>2. CASE Finish(r)
    BY <2>1, <2>2, DeletionWriterEnd
  <2>3. CASE student.exists /\ Go(r, "create")
    <3>1. r \in writeLeases
      BY <1>7, <1>0 DEF ReserveQuota, LoadManagedStudent, DeletionInvariant, WritesAreLeased,
         WriteLeased
    <3>2. QED
      BY <1>a, <2>1, <2>3, <3>1, DeletionWriterMove DEF Go
  <2>4. QED
    BY <1>7, <2>2, <2>3 DEF ReserveQuota, LoadManagedStudent, GoIf
<1>8. CASE CreateReview(r)
  BY <1>8, <1>b, DeletionWriterEnd DEF CreateReview
<1>9. CASE CorrectUsername(r)
  <2>1. student'.exists = student.exists
    BY <1>0, <1>9 DEF CorrectUsername, Effect, Students
  <2>2. QED
    BY <1>9, <2>1, DeletionWriterEnd DEF CorrectUsername
<1>10. CASE LoadForConnect(r)
  <2>1. UNCHANGED <<student, rows, work, receipts, writesClosed>>
    BY <1>10 DEF LoadForConnect, db
  <2>2. CASE Finish(r)
    BY <2>1, <2>2, DeletionWriterEnd
  <2>3. CASE student.exists /\ Go(r, "attempt")
    <3>1. r \in writeLeases
      BY <1>10, <1>0 DEF LoadForConnect, DeletionInvariant, WritesAreLeased, WriteLeased
    <3>2. QED
      BY <1>a, <2>1, <2>3, <3>1, DeletionWriterMove DEF Go
  <2>4. QED
    BY <1>10, <2>2, <2>3 DEF LoadForConnect, GoIf, UsableBySession
<1>11. CASE CreateAttempt(r)
  <2>1. /\ UNCHANGED <<student, work, receipts, writesClosed>>
        /\ student.exists /\ writeLeases # {}
    BY <1>11, <1>b DEF CreateAttempt
  <2>2. CASE Finish(r)
    BY <2>1, <2>2, DeletionWriterEnd
  <2>3. CASE Go(r, "withdraw")
    <3>1. "withdraw" \notin Storing /\ ~WriteLeased(r, "withdraw")
      BY DEF Storing, WriteLeased
    <3>2. QED
      BY <1>a, <2>1, <2>3, <3>1, DeletionWriterMove DEF Go
  <2>4. QED
    BY <1>11, <2>2, <2>3 DEF CreateAttempt, GoIf
<1>12. CASE WithdrawAttempt(r)
  <2>1. UNCHANGED <<student, work, receipts, writesClosed>> /\ Finish(r)
    BY <1>12 DEF WithdrawAttempt
  <2>2. \A c \in Collections : rows'[c] \subseteq rows[c]
    BY <1>0, <1>12 DEF WithdrawAttempt, WithoutRow, Inventories
  <2>3. QED
    BY <2>1, <2>2, DeletionWriterEnd
<1>13. CASE LoadAccount(r)
  <2>1. UNCHANGED <<student, rows, work, receipts, writesClosed>>
    BY <1>13 DEF LoadAccount, db
  <2>2. CASE Finish(r)
    BY <2>1, <2>2, DeletionWriterEnd
  <2>3. CASE Go(r, "change")
    <3>1. "change" \notin Storing /\ ~WriteLeased(r, "change")
      BY DEF Storing, WriteLeased
    <3>2. QED
      BY <1>a, <2>1, <2>3, <3>1, DeletionWriterMove DEF Go
  <2>4. QED
    BY <1>13, <2>2, <2>3 DEF LoadAccount, GoIf
<1>14. CASE ChangeAccount(r)
  <2>1. student'.exists = student.exists
    BY <1>0, <1>14 DEF ChangeAccount, Effect, Students
  <2>2. QED
    BY <1>14, <2>1, DeletionWriterEnd DEF ChangeAccount
<1>15. CASE BeginSignIn(r)
  <2>1. UNCHANGED <<student, rows, work, receipts, writesClosed, writeLeases>>
    BY <1>15 DEF BeginSignIn, db, gates
  <2>2. "signin" \notin Storing /\ ~WriteLeased(r, "signin") /\ pc' = [pc EXCEPT ![r] = "signin"]
    BY <1>15 DEF BeginSignIn, Storing, WriteLeased
  <2>3. QED
    BY <1>a, <2>1, <2>2, DeletionWriterMove
<1>16. CASE FinishSignIn(r)
  <2>1. student'.exists = student.exists
    BY <1>0, <1>16 DEF FinishSignIn, Effect, Students
  <2>2. QED
    BY <1>16, <2>1, DeletionWriterEnd DEF FinishSignIn
<1>17. QED
  BY <1>1, <1>2, <1>3, <1>4, <1>5, <1>6, <1>7, <1>8, <1>9, <1>10, <1>11, <1>12, <1>13,
     <1>14, <1>15, <1>16 DEF WriterStep

\* A deletion's move: it takes no write lease and never opens the gate.
LEMMA DeletionDeleterMove ==
    ASSUME Types, HoldInvariant, DeletionInvariant, NEW d \in Deleters,
           NEW where \in States \ {"create", "attempt", "reserve", "load", "authed"},
           pc' = [pc EXCEPT ![d] = where],
           \A e \in Deleters \ {d} : work'[e] = work[e],
           writeLeases \ {d} \subseteq writeLeases', writeLeases' \subseteq writeLeases,
           writesClosed => writesClosed',
           FenceHolds(where)', SweepHolds(d, where, work[d])',
           student'.exists => student.exists,
           student.exists /\ ~student'.exists =>
                writesClosed /\ writeLeases = {} /\ NoRows /\ rows' = rows,
           \A c \in Collections : rows'[c] \subseteq rows[c],
           \A op \in Deleters : receipts'[op].status = "completed" =>
                receipts[op].status = "completed" \/ ~student'.exists
    PROVE  DeletionInvariant'
<1>1. /\ d \in Requests /\ d \notin Protected /\ d \notin ProjectWrites
  BY KindsAreApart, KindsAreRequests
<1>2. where \notin Storing /\ ~WriteLeased(d, where)
  BY <1>1 DEF Storing, WriteLeased
<1>3. QED
  BY <1>1, <1>2, DeletionMove

\* ... and its end.
LEMMA DeletionDeleterEnd ==
    ASSUME Types, HoldInvariant, DeletionInvariant, NEW d \in Deleters, Finish(d),
           \A e \in Deleters \ {d} : work'[e] = work[e],
           writesClosed => writesClosed',
           student'.exists = student.exists,
           \A c \in Collections : rows'[c] \subseteq rows[c],
           \A op \in Deleters : receipts'[op].status = "completed" =>
                receipts[op].status = "completed" \/ ~student'.exists
    PROVE  DeletionInvariant'
<1>1. Rest(d) \in States \ {"create", "attempt", "reserve", "load", "authed"}
  BY RestType DEF Rest
<1>2. FenceHolds(Rest(d))' /\ SweepHolds(d, Rest(d), work[d])'
  BY DEF FenceHolds, SweepHolds, Fenced, Rest
<1>3. QED
  BY <1>1, <1>2, DeletionDeleterMove DEF Finish

\* Only receipts' status counts, and only when it becomes completed.
LEMMA StatusKept ==
    ASSUME DatabaseTypes, NEW op \in Deleters, NEW status \in Statuses
    PROVE  \A other \in Deleters :
             WithStatus(op, status)[other].status
               = IF other = op THEN status ELSE receipts[other].status
BY DEF DatabaseTypes, Receipts, WithStatus

\* The deletion of one collection, for a deletion and for the sweeper's orphans.
LEMMA DeletionRows ==
    ASSUME Types, HoldInvariant, DeletionInvariant, NEW d \in Deleters, NEW c \in Collections,
           NEW from \in {"sweep", "orphan-sweep"},
           NEW allDone \in {"remove", "orphan-complete"},
           NEW someFailed \in {"retry", "orphan-retry"},
           from = "orphan-sweep" => allDone # "remove",
           DeleteRows(d, from, c, allDone, someFailed)
    PROVE  DeletionInvariant'
<1>0. /\ d \in Requests /\ rows \in Inventories /\ work \in [Deleters -> Works]
      /\ work[d] \in Works
  BY KindsAreRequests DEF Types, DatabaseTypes, HandlerTypes
<1>1. \A b \in Collections : rows'[b] \subseteq rows[b]
  BY <1>0 DEF DeleteRows, Inventories
<1>2. UNCHANGED <<student, receipts, writesClosed, writeLeases>> /\ pc[d] = from
  BY DEF DeleteRows, Go
<1>a. PICK o \in Outcomes :
        /\ rows' = IF o = "lost" THEN rows ELSE [rows EXCEPT ![c] = {}]
        /\ Go(d, IF work[d].todo \ {c} # {} THEN from
                 ELSE IF work[d].failed \/ o # "ok" THEN someFailed ELSE allDone)
        /\ work' = [work EXCEPT ![d] = [work[d] EXCEPT
                      !.todo = work[d].todo \ {c}, !.failed = work[d].failed \/ o # "ok"]]
  BY DEF DeleteRows, Set
<1>b. work'[d] = [work[d] EXCEPT !.todo = work[d].todo \ {c},
                                 !.failed = work[d].failed \/ o # "ok"]
  BY <1>0, <1>a
<1>c. /\ work'[d].todo = work[d].todo \ {c}
      /\ work'[d].failed = (work[d].failed \/ o # "ok")
  BY <1>0, <1>b DEF Works
<1>3. /\ \A e \in Deleters \ {d} : work'[e] = work[e]
      /\ ~work'[d].failed => ~work[d].failed /\ rows'[c] = {}
  BY <1>0, <1>a, <1>c DEF Inventories
<1>4. PICK where \in {from, allDone, someFailed} :
        /\ pc' = [pc EXCEPT ![d] = where]
        /\ where = allDone => work'[d].todo = {} /\ ~work'[d].failed
  <2>1. CASE work[d].todo \ {c} # {}
    BY <1>a, <2>1 DEF Go
  <2>2. CASE work[d].todo \ {c} = {} /\ (work[d].failed \/ o # "ok")
    BY <1>a, <2>2 DEF Go
  <2>3. CASE work[d].todo \ {c} = {} /\ ~(work[d].failed \/ o # "ok")
    BY <1>a, <1>c, <2>3 DEF Go
  <2>4. QED
    BY <2>1, <2>2, <2>3
<1>5. where \in States \ {"create", "attempt", "reserve", "load", "authed"}
  BY DEF States
<1>6. FenceHolds(from) /\ SweepHolds(d, from, work[d])
  BY <1>2 DEF DeletionInvariant, DeletionsAreFenced
<1>7. FenceHolds(where)'
  BY <1>2, <1>6 DEF FenceHolds, Fenced
<1>8. from = "sweep" /\ ~work'[d].failed =>
        \A b \in Collections \ work'[d].todo : rows'[b] = {}
  BY <1>0, <1>1, <1>3, <1>6, <1>c DEF SweepHolds
<1>9. SweepHolds(d, where, work[d])'
  BY <1>4, <1>8 DEF SweepHolds, NoRows
<1>10. QED
  BY <1>1, <1>2, <1>3, <1>4, <1>5, <1>7, <1>9, DeletionDeleterMove

LEMMA DeletionDeletions ==
    ASSUME Types, HoldInvariant, DeletionInvariant, NEW d \in Deleters, DeletionStep(d)
    PROVE  DeletionInvariant'
<1>0. /\ d \in Requests /\ student \in Students /\ rows \in Inventories
      /\ work \in [Deleters -> Works] /\ work[d] \in Works
      /\ receipts \in [Deleters -> Receipts]
      /\ student.exists \in BOOLEAN /\ work[d].op \in Deleters
  BY KindsAreRequests DEF Types, DatabaseTypes, HandlerTypes, Students, Works
<1>a. DeletionStates \cup {"verify", "parked"}
        \subseteq States \ {"create", "attempt", "reserve", "load", "authed"}
  BY DEF DeletionStates, States
<1>b. FenceHolds(pc[d]) /\ SweepHolds(d, pc[d], work[d])
  BY DEF DeletionInvariant, DeletionsAreFenced
<1>g. ASSUME NEW where \in DeletionStates \cup {"verify", "parked"},
             pc' = [pc EXCEPT ![d] = where],
             \A e \in Deleters \ {d} : work'[e] = work[e],
             UNCHANGED <<rows, writeLeases>>, student'.exists = student.exists,
             \A op \in Deleters : receipts'[op].status = "completed" =>
                receipts[op].status = "completed",
             writesClosed => writesClosed',
             FenceHolds(where)', SweepHolds(d, where, work[d])'
      PROVE  DeletionInvariant'
  BY <1>0, <1>a, <1>g, DeletionDeleterMove
<1>f. ASSUME FinishDeletion(d), UNCHANGED rows, student'.exists = student.exists,
             \A op \in Deleters : receipts'[op].status = "completed" =>
                receipts[op].status = "completed" \/ ~student.exists,
             writesClosed => writesClosed'
      PROVE  DeletionInvariant'
  <2>1. \A e \in Deleters \ {d} : work'[e] = work[e]
    BY <1>0, <1>f DEF FinishDeletion, Set
  <2>2. QED
    BY <1>0, <1>f, <2>1, DeletionDeleterEnd DEF FinishDeletion
<1>w. ASSUME NEW new, Set(d, new)
      PROVE  work'[d] = new /\ \A e \in Deleters \ {d} : work'[e] = work[e]
  BY <1>0, <1>w DEF Set
<1>1. CASE EnterMutations(d)
  <2>1. UNCHANGED <<student, rows, work, receipts, writesClosed>>
    BY <1>1 DEF EnterMutations, db
  <2>2. CASE Finish(d)
    BY <1>0, <2>1, <2>2, DeletionDeleterEnd
  <2>3. CASE pc' = [pc EXCEPT ![d] = "verify"] /\ UNCHANGED writeLeases
    <3>1. FenceHolds("verify")'
      BY DEF FenceHolds, Fenced
    <3>2. d = Sweeper => pc[d] = "gate"
      BY <1>1 DEF EnterMutations
    <3>a. d = Sweeper => work[d].todo = Collections
      BY <1>b, <3>2 DEF SweepHolds
    <3>3. SweepHolds(d, "verify", work[d])'
      BY <2>1, <3>a DEF SweepHolds
    <3>4. QED
      BY <1>0, <2>1, <2>3, <3>1, <3>3, <1>g
  <2>4. QED
    BY <1>1, <2>2, <2>3 DEF EnterMutations
<1>2. CASE VerifyHold(d)
  <2>1. UNCHANGED <<student, rows, work, receipts, writesClosed>> /\ pc[d] = "verify"
    BY <1>2 DEF VerifyHold, db
  <2>2. CASE Finish(d)
    BY <1>0, <2>1, <2>2, DeletionDeleterEnd
  <2>3. CASE pc' = [pc EXCEPT ![d] = "parked"] /\ UNCHANGED writeLeases
    <3>1. FenceHolds("parked")' /\ SweepHolds(d, "parked", work[d])'
      BY DEF FenceHolds, SweepHolds, Fenced
    <3>2. QED
      BY <1>0, <2>1, <2>3, <3>1, <1>g
  <2>4. CASE Go(d, AfterVerify(d))
    <3>1. /\ AfterVerify(d) \in {"read", "fence1"}
          /\ AfterVerify(d) = "fence1" => d = Sweeper
      BY KindsAreApart, KindsAreRequests DEF AfterVerify, Deleters
    <3>2. PICK where \in {"read", "fence1"} : where = AfterVerify(d)
      BY <3>1
    <3>3. FenceHolds(where)' /\ SweepHolds(d, where, work[d])'
      BY <1>b, <2>1, <3>1, <3>2 DEF FenceHolds, SweepHolds, Fenced
    <3>4. QED
      BY <1>0, <2>1, <2>4, <3>2, <3>3, <1>g DEF Go, DeletionStates
  <2>5. QED
    BY <1>2, <2>2, <2>3, <2>4 DEF VerifyHold
<1>3. CASE Unpark(d)
  BY <1>0, <1>3, DeletionDeleterEnd DEF Unpark, db
<1>4. CASE ReadForDeletion(d)
  <2>1. UNCHANGED <<student, rows, receipts, writesClosed>>
    BY <1>4 DEF ReadForDeletion, db
  <2> DEFINE new == [NoWork(d) EXCEPT
                      !.resume = student.op # NoOp,
                      !.op     = IF student.op # NoOp THEN student.op ELSE d,
                      !.reason = IF student.op # NoOp THEN student.reason
                                                      ELSE "julio-request"]
  <2>2. CASE Go(d, "fence1") /\ Set(d, new)
    <3>1. new.todo = Collections
      BY DEF NoWork
    <3>2. work'[d] = new /\ \A e \in Deleters \ {d} : work'[e] = work[e]
      BY <1>w, <2>2
    <3>3. FenceHolds("fence1")' /\ SweepHolds(d, "fence1", work[d])'
      BY <3>1, <3>2 DEF FenceHolds, SweepHolds, Fenced
    <3>4. QED
      BY <1>0, <2>1, <2>2, <3>2, <3>3, <1>g DEF Go, DeletionStates
  <2>3. (Go(d, "fence1") /\ Set(d, new)) \/ FinishDeletion(d)
    BY <1>4 DEF ReadForDeletion
  <2>4. QED
    BY <2>1, <2>2, <2>3, <1>f
<1>5. CASE FirstFence(d)
  <2>1. student'.exists = student.exists
    BY <1>0, <1>5 DEF FirstFence, Effect, Students
  <2>2. UNCHANGED <<rows, receipts>> /\ pc[d] = "fence1"
    BY <1>5 DEF FirstFence
  <2>3. CASE FinishDeletion(d) /\ UNCHANGED writesClosed
    BY <1>0, <2>1, <2>2, <2>3, <1>f
  <2>4. CASE /\ Go(d, IF work[d].resume THEN "consult" ELSE "fence2")
             /\ writesClosed' = (writesClosed \/ ~work[d].resume)
             /\ UNCHANGED work
    <3>a. work[d].todo = Collections
      BY <1>b, <2>2 DEF SweepHolds
    <3>1. work'[d].todo = Collections
      BY <2>4, <3>a
    <3>2. PICK where \in {"consult", "fence2"} :
            /\ pc' = [pc EXCEPT ![d] = where] /\ writeLeases' = writeLeases
            /\ where = "fence2" => writesClosed'
      BY <2>4 DEF Go
    <3>3. FenceHolds(where)' /\ SweepHolds(d, where, work[d])'
      BY <3>1, <3>2 DEF FenceHolds, SweepHolds, Fenced
    <3>4. writesClosed => writesClosed'
      BY <2>4
    <3>5. QED
      BY <1>0, <2>1, <2>2, <2>4, <3>2, <3>3, <3>4, <1>g DEF DeletionStates
  <2>5. QED
    BY <1>5, <2>3, <2>4 DEF FirstFence
<1>6. CASE ConsultReceipt(d)
  <2>1. UNCHANGED <<student, rows, receipts>> /\ pc[d] = "consult"
    BY <1>6 DEF ConsultReceipt, db
  <2>2. CASE FinishDeletion(d) /\ UNCHANGED writesClosed
    BY <1>0, <2>1, <2>2, <1>f
  <2> DEFINE receipt == receipts[work[d].op]
             new == [work[d] EXCEPT
                      !.receipt = receipt.status # "none",
                      !.reason  = IF receipt.status # "none" THEN receipt.reason ELSE @]
  <2>3. CASE Go(d, "fence2") /\ writesClosed' = TRUE /\ Set(d, new)
    <3>1. new.todo = work[d].todo
      BY <1>0 DEF Works
    <3>2. work'[d] = new /\ \A e \in Deleters \ {d} : work'[e] = work[e]
      BY <1>w, <2>3
    <3>3. work[d].todo = Collections
      BY <1>b, <2>1 DEF SweepHolds
    <3>4. FenceHolds("fence2")' /\ SweepHolds(d, "fence2", work[d])'
      BY <2>3, <3>1, <3>2, <3>3 DEF FenceHolds, SweepHolds, Fenced
    <3>5. QED
      BY <1>0, <2>1, <2>3, <3>2, <3>4, <1>g DEF Go, DeletionStates
  <2>4. \/ Go(d, "fence2") /\ writesClosed' = TRUE /\ Set(d, new)
        \/ FinishDeletion(d) /\ UNCHANGED writesClosed
    BY <1>6 DEF ConsultReceipt
  <2>5. QED
    BY <2>2, <2>3, <2>4
<1>7. CASE SecondFence(d)
  <2>1. student'.exists = student.exists
    BY <1>0, <1>7 DEF SecondFence, Effect, Students
  <2>2. /\ UNCHANGED <<rows, receipts, writesClosed>> /\ pc[d] = "fence2"
        /\ writeLeases = {} /\ writesClosed
    BY <1>7, <1>b DEF SecondFence, WritesDrained, FenceHolds
  <2>3. CASE FinishDeletion(d)
    BY <1>0, <2>1, <2>2, <2>3, <1>f
  <2>4. CASE Go(d, IF work[d].receipt THEN "reuse" ELSE "count") /\ UNCHANGED work
    <3>1. work[d].todo = Collections
      BY <1>b, <2>2 DEF SweepHolds
    <3>2. PICK where \in {"reuse", "count"} :
            pc' = [pc EXCEPT ![d] = where] /\ writeLeases' = writeLeases
      BY <2>4 DEF Go
    <3>3. FenceHolds(where)' /\ SweepHolds(d, where, work[d])'
      BY <2>2, <2>4, <3>1, <3>2 DEF FenceHolds, SweepHolds, Fenced
    <3>4. QED
      BY <1>0, <2>1, <2>2, <2>4, <3>2, <3>3, <1>g DEF DeletionStates
  <2>5. QED
    BY <1>7, <2>3, <2>4 DEF SecondFence
<1>8. CASE ReuseReceipt(d)
  <2>1. /\ UNCHANGED <<student, rows, writesClosed>> /\ pc[d] = "reuse"
        /\ writeLeases = {} /\ writesClosed /\ work[d].todo = Collections
    BY <1>8, <1>b DEF ReuseReceipt, FenceHolds, SweepHolds, Fenced
  <2>2. \A op \in Deleters : receipts'[op].status = "completed" =>
          receipts[op].status = "completed"
    BY <1>0, <1>8, StatusKept DEF ReuseReceipt, Statuses, Types
  <2>3. CASE FinishDeletion(d)
    BY <1>0, <2>1, <2>2, <2>3, <1>f
  <2>4. CASE Go(d, "sweep") /\ UNCHANGED work
    <3>1. FenceHolds("sweep")' /\ SweepHolds(d, "sweep", work[d])'
      BY <2>1, <2>4 DEF FenceHolds, SweepHolds, Fenced, Go
    <3>2. QED
      BY <1>0, <2>1, <2>2, <2>4, <3>1, <1>g DEF Go, DeletionStates
  <2>5. QED
    BY <1>8, <2>3, <2>4 DEF ReuseReceipt
<1>9. ASSUME NEW c \in Collections, CountInventory(d, c)
      PROVE  DeletionInvariant'
  <2>1. /\ UNCHANGED <<student, rows, receipts, writesClosed>> /\ pc[d] = "count"
        /\ writeLeases = {} /\ writesClosed
    BY <1>9, <1>b DEF CountInventory, FenceHolds, Fenced, db
  <2>2. CASE FinishDeletion(d)
    BY <1>0, <2>1, <2>2, <1>f
  <2> DEFINE left == work[d].todo \ {c}
             new  == [work[d] EXCEPT !.todo = IF left = {} THEN Collections ELSE left,
                                     !.counted[c] = rows[c]]
  <2>3. CASE Go(d, IF left = {} THEN "record" ELSE "count") /\ Set(d, new)
    <3>1. new.todo = IF left = {} THEN Collections ELSE left
      BY <1>0 DEF Works
    <3>2. work'[d] = new /\ \A e \in Deleters \ {d} : work'[e] = work[e]
      BY <1>w, <2>3
    <3>h HIDE DEF new
    <3>3. PICK where \in {"record", "count"} :
            /\ pc' = [pc EXCEPT ![d] = where] /\ writeLeases' = writeLeases
            /\ where = "record" => left = {}
      BY <2>3 DEF Go
    <3>4. FenceHolds(where)' /\ SweepHolds(d, where, work[d])'
      BY <2>1, <3>1, <3>2, <3>3 DEF FenceHolds, SweepHolds, Fenced
    <3>5. QED
      BY <1>0, <2>1, <3>2, <3>3, <3>4, <1>g DEF DeletionStates
  <2>4. (Go(d, IF left = {} THEN "record" ELSE "count") /\ Set(d, new)) \/ FinishDeletion(d)
    BY <1>9 DEF CountInventory
  <2>5. QED
    BY <2>2, <2>3, <2>4
<1>10. ASSUME NEW c \in Collections, SweepRows(d, c)
       PROVE  DeletionInvariant'
  BY <1>10, DeletionRows DEF SweepRows
<1>11. CASE RecordReceipt(d)
  <2>1. /\ UNCHANGED <<student, rows, work, writesClosed>> /\ pc[d] = "record"
        /\ writeLeases = {} /\ writesClosed /\ work[d].todo = Collections
    BY <1>11, <1>b DEF RecordReceipt, FenceHolds, SweepHolds, Fenced
  <2>2. \A op \in Deleters : receipts'[op].status = "completed" =>
          receipts[op].status = "completed"
    BY <1>0, <1>11 DEF RecordReceipt
  <2>3. PICK where \in {"sweep", "recheck"} :
          pc' = [pc EXCEPT ![d] = where] /\ writeLeases' = writeLeases
    BY <1>11 DEF RecordReceipt, Go
  <2>4. FenceHolds(where)' /\ SweepHolds(d, where, work[d])'
    BY <2>1, <2>3 DEF FenceHolds, SweepHolds, Fenced
  <2>5. QED
    BY <1>0, <2>1, <2>2, <2>3, <2>4, <1>g DEF DeletionStates
<1>12. CASE RecheckReceipt(d)
  <2>1. /\ UNCHANGED <<student, rows, receipts, writesClosed>> /\ pc[d] = "recheck"
        /\ writeLeases = {} /\ writesClosed /\ work[d].todo = Collections
    BY <1>12, <1>b DEF RecheckReceipt, FenceHolds, SweepHolds, Fenced, db
  <2>2. CASE FinishDeletion(d)
    BY <1>0, <2>1, <2>2, <1>f
  <2>3. CASE Go(d, "sweep") /\ UNCHANGED work
    <3>1. FenceHolds("sweep")' /\ SweepHolds(d, "sweep", work[d])'
      BY <2>1, <2>3 DEF FenceHolds, SweepHolds, Fenced, Go
    <3>2. QED
      BY <1>0, <2>1, <2>3, <3>1, <1>g DEF Go, DeletionStates
  <2>4. QED
    BY <1>12, <2>2, <2>3 DEF RecheckReceipt
<1>13. CASE RemoveStudent(d)
  <2>1. /\ UNCHANGED <<rows, receipts, work, writesClosed>> /\ pc[d] = "remove"
        /\ writeLeases = {} /\ writesClosed /\ NoRows
    BY <1>13, <1>b DEF RemoveStudent, FenceHolds, SweepHolds, Fenced
  <2>2. student'.exists => student.exists
    BY <1>0, <1>13 DEF RemoveStudent, Effect, Students
  <2>3. PICK where \in {"complete", "retry"} :
          /\ pc' = [pc EXCEPT ![d] = where] /\ writeLeases' = writeLeases
          /\ where = "complete" => ~student'.exists
    <3>1. CASE Go(d, "retry")
      BY <3>1 DEF Go
    <3>2. CASE Go(d, "complete") /\ ~student'.exists
      BY <3>2 DEF Go
    <3>3. Go(d, "retry") \/ (Go(d, "complete") /\ ~student'.exists)
      BY <1>0, <1>13 DEF RemoveStudent, Removed, Effect, Students
    <3>4. QED
      BY <3>1, <3>2, <3>3
  <2>4. FenceHolds(where)' /\ SweepHolds(d, where, work[d])'
    BY <2>3 DEF FenceHolds, SweepHolds, Fenced
  <2>5. QED
    BY <1>0, <1>a, <2>1, <2>2, <2>3, <2>4, DeletionDeleterMove DEF DeletionStates
<1>14. CASE MarkNeedsRetry(d)
  <2>1. \A op \in Deleters : receipts'[op].status = "completed" =>
          receipts[op].status = "completed"
    BY <1>0, <1>14, StatusKept DEF MarkNeedsRetry, Statuses, Types
  <2>2. QED
    BY <1>0, <1>14, <2>1, <1>f DEF MarkNeedsRetry
<1>15. CASE CompleteReceipt(d)
  <2>1. ~student.exists
    BY <1>15, <1>b DEF CompleteReceipt, FenceHolds
  <2>2. QED
    BY <1>0, <1>15, <2>1, <1>f DEF CompleteReceipt
<1>16. QED
  BY <1>1, <1>2, <1>3, <1>4, <1>5, <1>6, <1>7, <1>8, <1>9, <1>10, <1>11, <1>12, <1>13,
     <1>14, <1>15 DEF DeletionStep

LEMMA DeletionSweeper ==
    ASSUME Types, HoldInvariant, DeletionInvariant, SweeperStep(Sweeper)
    PROVE  DeletionInvariant'
<1>0. /\ Sweeper \in Deleters /\ Sweeper \in Requests
      /\ work \in [Deleters -> Works] /\ work[Sweeper].op \in Deleters
      /\ rows \in Inventories
  BY KindsAreRequests DEF Types, DatabaseTypes, HandlerTypes, Works, Deleters
<1>a. OrphanStates \cup {"orphan", "candidates"}
        \subseteq States \ {"create", "attempt", "reserve", "load", "authed"}
  BY DEF OrphanStates, States
<1>g. ASSUME NEW where \in OrphanStates \cup {"orphan", "candidates"},
             pc' = [pc EXCEPT ![Sweeper] = where],
             \A e \in Deleters \ {Sweeper} : work'[e] = work[e],
             UNCHANGED <<rows, writeLeases, writesClosed, student>>,
             \A op \in Deleters : receipts'[op].status = "completed" =>
                receipts[op].status = "completed" \/ ~student.exists
      PROVE  DeletionInvariant'
  <2>1. FenceHolds(where)' /\ SweepHolds(Sweeper, where, work[Sweeper])'
    BY <1>g DEF FenceHolds, SweepHolds, Fenced, OrphanStates
  <2>2. QED
    BY <1>0, <1>a, <1>g, <2>1, DeletionDeleterMove
<1>f. ASSUME FinishDeletion(Sweeper), UNCHANGED <<rows, student, receipts, writesClosed>>
      PROVE  DeletionInvariant'
  <2>1. \A e \in Deleters \ {Sweeper} : work'[e] = work[e]
    BY <1>0, <1>f DEF FinishDeletion, Set
  <2>2. QED
    BY <1>0, <1>f, <2>1, DeletionDeleterEnd DEF FinishDeletion
<1>w. ASSUME NEW new, Set(Sweeper, new)
      PROVE  work'[Sweeper] = new /\ \A e \in Deleters \ {Sweeper} : work'[e] = work[e]
  BY <1>0, <1>w DEF Set
<1>1. CASE BeginSweep(Sweeper)
  <2>1. UNCHANGED <<rows, student, receipts, writesClosed>>
    BY <1>1 DEF BeginSweep, db
  <2>2. CASE Finish(Sweeper) /\ UNCHANGED work
    BY <1>0, <2>1, <2>2, DeletionDeleterEnd
  <2>3. CASE Go(Sweeper, "candidates") /\ UNCHANGED work
    BY <1>0, <2>1, <2>3, <1>g DEF Go
  <2>4. ASSUME NEW op \in Deleters, Go(Sweeper, "orphan"),
               Set(Sweeper, [NoWork(Sweeper) EXCEPT !.op = op])
        PROVE  DeletionInvariant'
    BY <1>0, <1>w, <2>1, <2>4, <1>g DEF Go
  <2>5. QED
    BY <1>1, <2>2, <2>3, <2>4 DEF BeginSweep
<1>2. CASE CheckOrphan(Sweeper)
  <2>1. UNCHANGED <<rows, student, receipts, writesClosed>>
    BY <1>2 DEF CheckOrphan, db
  <2>2. CASE FinishDeletion(Sweeper)
    BY <2>1, <2>2, <1>f
  <2>3. CASE /\ Go(Sweeper, IF student.exists THEN "candidates" ELSE "prepare")
             /\ UNCHANGED work
    <3>1. PICK where \in {"candidates", "prepare"} :
            pc' = [pc EXCEPT ![Sweeper] = where] /\ writeLeases' = writeLeases
      BY <2>3 DEF Go
    <3>2. QED
      BY <1>0, <2>1, <2>3, <3>1, <1>g DEF OrphanStates
  <2>4. QED
    BY <1>2, <2>2, <2>3 DEF CheckOrphan
<1>u. ASSUME NEW from \in {"prepare", "orphan-complete"},
             NEW status \in {"in-progress", "completed"},
             NEW next \in {"orphan-sweep", "candidates"},
             UpdateOrphan(Sweeper, from, status, next)
      PROVE  DeletionInvariant'
  <2>1. UNCHANGED <<rows, student, work, writesClosed>> /\ pc[Sweeper] = from
    BY <1>u DEF UpdateOrphan
  <2>2. ~student.exists
    BY <2>1 DEF HoldInvariant, OrphansHaveNoStudent, OrphanStates
  <2>3. PICK where \in {"orphan-retry", "orphan-sweep", "candidates"} :
          pc' = [pc EXCEPT ![Sweeper] = where] /\ writeLeases' = writeLeases
    BY <1>u DEF UpdateOrphan, Go
  <2>4. QED
    BY <1>0, <2>1, <2>2, <2>3, <1>g DEF OrphanStates
<1>3. CASE PrepareOrphan(Sweeper)
  BY <1>3, <1>u DEF PrepareOrphan
<1>4. ASSUME NEW c \in Collections, SweepOrphan(Sweeper, c)
      PROVE  DeletionInvariant'
  BY <1>0, <1>4, DeletionRows DEF SweepOrphan
<1>5. CASE CompleteOrphan(Sweeper)
  BY <1>5, <1>u DEF CompleteOrphan
<1>6. CASE RetryOrphan(Sweeper)
  <2>1. UNCHANGED <<rows, student, work, writesClosed>>
    BY <1>6 DEF RetryOrphan
  <2>2. \A op \in Deleters : receipts'[op].status = "completed" =>
          receipts[op].status = "completed"
    BY <1>0, <1>6, StatusKept DEF RetryOrphan, Statuses, Types
  <2>3. Go(Sweeper, "candidates")
    BY <1>6 DEF RetryOrphan
  <2>4. QED
    BY <1>0, <2>1, <2>2, <2>3, <1>g DEF Go
<1>7. CASE FindCandidate(Sweeper)
  <2>1. UNCHANGED <<rows, student, receipts, writesClosed>>
    BY <1>7 DEF FindCandidate, db
  <2>2. CASE FinishDeletion(Sweeper)
    BY <2>1, <2>2, <1>f
  <2> DEFINE new == [NoWork(Sweeper) EXCEPT
                      !.resume = student.pending,
                      !.op     = IF student.op # NoOp THEN student.op ELSE Sweeper,
                      !.reason = IF student.pending THEN student.reason
                                                    ELSE "retention-expiry"]
  <2>3. CASE Go(Sweeper, "gate") /\ Set(Sweeper, new)
    <3>1. new.todo = Collections
      BY DEF NoWork
    <3>2. work'[Sweeper] = new /\ \A e \in Deleters \ {Sweeper} : work'[e] = work[e]
      BY <1>w, <2>3
    <3>3. FenceHolds("gate")' /\ SweepHolds(Sweeper, "gate", work[Sweeper])'
      BY <3>1, <3>2 DEF FenceHolds, SweepHolds, Fenced
    <3>4. "gate" \in States \ {"create", "attempt", "reserve", "load", "authed"}
      BY DEF States
    <3>5. QED
      BY <1>0, <2>1, <2>3, <3>2, <3>3, <3>4, DeletionDeleterMove DEF Go
  <2>4. (Go(Sweeper, "gate") /\ Set(Sweeper, new)) \/ FinishDeletion(Sweeper)
    BY <1>7 DEF FindCandidate
  <2>5. QED
    BY <2>2, <2>3, <2>4
<1>8. QED
  BY <1>1, <1>2, <1>3, <1>4, <1>5, <1>6, <1>7 DEF SweeperStep

\* A transition touches neither rows nor receipts nor write leases; it opens the write
\* gate only with every mutation drained, when no deletion can be past its first fence.
LEMMA DeletionTransition ==
    ASSUME Types, HoldInvariant, DeletionInvariant, NEW t \in Transitions,
           NEW where \in TransitionStates \cup {"done"}, pc' = [pc EXCEPT ![t] = where],
           UNCHANGED <<work, receipts, rows, writeLeases>>,
           student'.exists = student.exists,
           \/ writesClosed => writesClosed'
           \/ mutationLeases = {} /\ student.exists
    PROVE  DeletionInvariant'
<1>1. t \in Requests /\ t \notin Deleters
  BY KindsAreApart, KindsAreRequests
<1>2. /\ where \in States /\ where # "authed"
      /\ where \notin Storing /\ ~WriteLeased(t, where)
  BY DEF TransitionStates, States, Storing, WriteLeased
<1>3. rows \in Inventories /\ student.exists \in BOOLEAN
  BY DEF Types, DatabaseTypes, Students
<1>4. QED
  BY <1>1, <1>2, <1>3, DeletionMove

LEMMA DeletionTransitions ==
    ASSUME Types, HoldInvariant, DeletionInvariant, NEW t \in Transitions, TransitionStep(t)
    PROVE  DeletionInvariant'
<1>0. student \in Students
  BY DEF Types, DatabaseTypes
<1>a. t \in Places /\ pc[t] \in TransitionStates \ {"suspend"} => mutationLeases = {}
  BY DEF HoldInvariant, TransitionIsAlone, Busy, TransitionStates
<1>r. UNCHANGED <<work, receipts, rows, writeLeases>>
  BY DEF TransitionStep, BeginTransition, SuspendPurge, PlaceHold, ReleaseHold, Reread,
     SettleRelease, CatchTransition, CatchHeld, CatchSettle, db, gates
<1>e. student'.exists = student.exists
  <2>1. CASE PlaceHold(t)
    BY <1>0, <2>1 DEF PlaceHold, Effect, Students
  <2>2. CASE ReleaseHold(t)
    BY <1>0, <2>2 DEF ReleaseHold, Effect, Students
  <2>3. CASE student' = student
    BY <2>3
  <2>4. QED
    BY <2>1, <2>2, <2>3 DEF TransitionStep, BeginTransition, SuspendPurge, Reread,
       SettleRelease, CatchTransition, CatchHeld, CatchSettle, db
<1>w. PICK where \in TransitionStates \cup {"done"} : pc' = [pc EXCEPT ![t] = where]
  <2>1. {"suspend", "flip", "reread", "settle", "catch", "catch-held", "catch-settle",
         "done"} = TransitionStates \cup {"done"}
    BY DEF TransitionStates
  <2>2. CASE BeginTransition(t)
    BY <2>1, <2>2 DEF BeginTransition
  <2>3. CASE SuspendPurge(t)
    BY <2>1, <2>3 DEF SuspendPurge, Step
  <2>4. CASE PlaceHold(t)
    BY <2>1, <2>4 DEF PlaceHold, Step, Settled
  <2>5. CASE ReleaseHold(t)
    BY <2>1, <2>5 DEF ReleaseHold, Step
  <2>6. CASE Reread(t)
    BY <2>1, <2>6 DEF Reread, Step, Settled
  <2>7. CASE SettleRelease(t) \/ CatchTransition(t) \/ CatchHeld(t) \/ CatchSettle(t)
    BY <2>1, <2>7 DEF SettleRelease, CatchTransition, CatchHeld, CatchSettle, Step, Settled
  <2>8. QED
    BY <2>2, <2>3, <2>4, <2>5, <2>6, <2>7 DEF TransitionStep
<1>c. \/ writesClosed => writesClosed'
      \/ mutationLeases = {} /\ student.exists
  <2>1. CASE PlaceHold(t)
    BY <1>a, <2>1 DEF PlaceHold, ReopenIfPending, TransitionStates
  <2>2. CASE Reread(t)
    BY <1>a, <2>2 DEF Reread, TransitionStates
  <2>3. CASE CatchHeld(t)
    BY <1>a, <2>3 DEF CatchHeld, ReopenIfPending, TransitionStates
  <2>4. CASE ReleaseHold(t) \/ CatchTransition(t)
    BY <2>4 DEF ReleaseHold, CatchTransition
  <2>5. CASE BeginTransition(t) \/ SuspendPurge(t) \/ SettleRelease(t) \/ CatchSettle(t)
    BY <2>5 DEF BeginTransition, SuspendPurge, SettleRelease, CatchSettle, gates
  <2>6. QED
    BY <2>1, <2>2, <2>3, <2>4, <2>5 DEF TransitionStep
<1>q. QED
  BY <1>r, <1>e, <1>w, <1>c, DeletionTransition

LEMMA DeletionNext ==
    Types /\ HoldInvariant /\ DeletionInvariant /\ [Next]_vars => DeletionInvariant'
<1> SUFFICES ASSUME Types, HoldInvariant, DeletionInvariant, [Next]_vars
             PROVE  DeletionInvariant'
    OBVIOUS
<1>1. CASE UNCHANGED <<student, rows, receipts, pc, work, writesClosed, writeLeases>>
  BY <1>1 DEF DeletionInvariant, WritesAreLeased, DeletionsAreFenced, NoWriterOutlives,
     NoResurrection, CompletedMeansGone, WriteLeased, Storing, FenceHolds, SweepHolds, NoRows
<1>2. CASE Expire
  <2>1. student.exists /\ student'.exists
    BY <1>2 DEF Expire, Types, DatabaseTypes, Students
  <2>2. UNCHANGED <<rows, receipts, pc, work, writesClosed, writeLeases>>
    BY <1>2 DEF Expire, gates
  <2>3. QED
    BY <2>1, <2>2 DEF DeletionInvariant, WritesAreLeased, DeletionsAreFenced,
       NoWriterOutlives, NoResurrection, CompletedMeansGone, WriteLeased, Storing,
       FenceHolds, SweepHolds, NoRows
<1>3. CASE Crash
  <2>1. \A r \in Requests : pc'[r] \in {"ready", "idle", "done"}
    BY <1>3 DEF Crash, Rest
  <2>2. UNCHANGED <<student, rows, receipts>>
    BY <1>3 DEF Crash, db
  <2>3. (WritesAreLeased /\ NoWriterOutlives)'
    BY <2>1, KindsAreRequests DEF WritesAreLeased, NoWriterOutlives, WriteLeased, Storing
  <2>4. DeletionsAreFenced'
    BY <2>1, KindsAreRequests DEF DeletionsAreFenced, FenceHolds, SweepHolds, Fenced
  <2>5. (NoResurrection /\ CompletedMeansGone)'
    BY <2>2 DEF DeletionInvariant, NoResurrection, CompletedMeansGone, NoRows
  <2>6. QED
    BY <2>3, <2>4, <2>5 DEF DeletionInvariant
<1>4. CASE UNCHANGED vars
  BY <1>1, <1>4 DEF vars, db, gates
<1>5. QED
  BY <1>2, <1>3, <1>4, DeletionWriters, DeletionDeletions, DeletionSweeper,
     DeletionTransitions DEF Next

\* The whole invariant holds in every reachable state, whatever the numbers of requests,
\* database failures and crashes.
THEOREM DeletionIsInvariant == Spec => [](Types /\ HoldInvariant /\ DeletionInvariant)
<1>1. Init => Types /\ HoldInvariant /\ DeletionInvariant
  BY TypesInit, HoldInit, DeletionInit
<1>2. Types /\ HoldInvariant /\ DeletionInvariant /\ [Next]_vars
        => (Types /\ HoldInvariant /\ DeletionInvariant)'
  BY TypesNext, HoldNext, DeletionNext
<1>3. QED
  BY <1>1, <1>2, PTL DEF Spec

\* A removed student leaves no row in any collection, and no request that was
\* authenticated, or had loaded the student, before the removal stores one later.
THEOREM RemovedStudentsStayGone == Spec => []NoResurrection
<1>1. DeletionInvariant => NoResurrection
  BY DEF DeletionInvariant
<1>2. QED
  BY <1>1, DeletionIsInvariant, PTL

\* A completed receipt tells the truth: student and rows are gone, and stay gone.
THEOREM CompletedReceiptsAreTrue == Spec => []CompletedMeansGone
<1>1. DeletionInvariant => CompletedMeansGone
  BY DEF DeletionInvariant
<1>2. QED
  BY <1>1, DeletionIsInvariant, PTL

-----------------------------------------------------------------------------
(* The inventory.                                                          *)

\* What a step keeps of the receipt that was reported.
InventoryKept ==
    Reported' =>
        /\ Reported /\ student'.op = student.op
        /\ receipts'[student.op].inventory = receipts[student.op].inventory

\* One handler's step keeps the invariant if it stores only where it was about to, and
\* does not set out to store once the receipt is there.
LEMMA InventoryMove ==
    ASSUME Types, DeletionInvariant, InventoryInvariant, NEW r \in Requests,
           \A q \in Requests \ {r} : pc'[q] = pc[q],
           \A d \in Deleters \ {r} : work'[d] = work[d],
           \/ \A c \in Collections : rows'[c] \subseteq rows[c]
           \/ writeLeases # {} /\ pc[r] \in Storing,
           InventoryKept,
           Reported => pc'[r] \notin Storing,
           r \in Deleters => CountHolds(pc[r], work[r])'
    PROVE  InventoryInvariant'
<1>0. Deleters \subseteq Requests
  BY KindsAreRequests
<1>1. InventoryIsComplete'
  <2> SUFFICES ASSUME Reported', NEW c \in Collections
               PROVE  rows'[c] \subseteq receipts'[student'.op].inventory[c]
      BY DEF InventoryIsComplete, Reported, Recorded
  <2>1. Reported /\ student'.op = student.op
    BY DEF InventoryKept
  <2>2. rows[c] \subseteq receipts[student.op].inventory[c]
    BY <2>1 DEF InventoryInvariant, InventoryIsComplete, Reported, Recorded
  <2>3. pc[r] \notin Storing
    BY <2>1 DEF InventoryInvariant, NoWriterIsLeft
  <2>4. rows'[c] \subseteq rows[c]
    BY <2>3
  <2>5. QED
    BY <2>1, <2>2, <2>4 DEF InventoryKept
<1>2. NoWriterIsLeft'
  BY DEF InventoryKept, InventoryInvariant, NoWriterIsLeft
<1>3. ASSUME NEW d \in Deleters \ {r}
      PROVE  CountHolds(pc[d], work[d])'
  <2>1. pc'[d] = pc[d] /\ work'[d] = work[d] /\ CountHolds(pc[d], work[d])
    BY <1>0 DEF InventoryInvariant
  <2>2. pc[d] \in {"count", "record"} => writeLeases = {}
    BY DEF DeletionInvariant, DeletionsAreFenced, FenceHolds, Fenced
  <2>3. CASE \A c \in Collections : rows'[c] \subseteq rows[c]
    BY <2>1, <2>3 DEF CountHolds
  <2>4. CASE writeLeases # {}
    BY <2>1, <2>2, <2>4 DEF CountHolds
  <2>5. QED
    BY <2>3, <2>4
<1>4. QED
  BY <1>1, <1>2, <1>3 DEF InventoryInvariant

\* A step that records nothing new keeps the inventory that was reported: there is a receipt
\* for the account's operation only.
LEMMA NothingNewIsReported ==
    ASSUME Types', AccountInvariant, student'.exists => student.exists,
           \A op \in Deleters : Recorded(op)' =>
             Recorded(op) /\ receipts'[op].inventory = receipts[op].inventory
    PROVE  InventoryKept
<1> SUFFICES ASSUME Reported'
             PROVE  /\ Reported /\ student'.op = student.op
                    /\ receipts'[student.op].inventory = receipts[student.op].inventory
    BY DEF InventoryKept
<1>1. /\ student'.exists /\ student'.op # NoOp
      /\ receipts'[student'.op].status # "none"
  BY DEF Reported, Recorded
<1>2. student'.op \in Deleters
  BY <1>1 DEF Types, DatabaseTypes, Students
<1>3. PICK op \in Deleters : op = student'.op
  BY <1>2
<1>4. Recorded(op)'
  BY <1>1, <1>3 DEF Recorded
<1>5. Recorded(op) /\ receipts'[op].inventory = receipts[op].inventory
  BY <1>4
<1>6. student.op = op
  BY <1>5 DEF AccountInvariant, ReceiptsBelong
<1>7. QED
  BY <1>1, <1>3, <1>5, <1>6 DEF Reported

\* The writers leave the document and the receipts in place.
LEMMA WritersKeepReceipts ==
    ASSUME Types, AccountInvariant, NEW r \in Leasers \cup SignIns, WriterStep(r)
    PROVE  /\ student'.exists = student.exists /\ receipts' = receipts
           /\ work' = work /\ \E where : pc' = [pc EXCEPT ![r] = where]
<1>0. student \in Students
  BY DEF Types, DatabaseTypes
<1>1. work' = work /\ receipts' = receipts
  BY DEF WriterStep, Authenticate, EnterWrites, EnterBoth, VerifyHold, Unpark, CreateProject,
     ReserveQuota, LoadManagedStudent, CreateReview, CorrectUsername, LoadForConnect,
     CreateAttempt, WithdrawAttempt, LoadAccount, ChangeAccount, BeginSignIn, FinishSignIn, db
<1>2. student'.exists = student.exists
  <2>1. CASE CorrectUsername(r) \/ ChangeAccount(r) \/ FinishSignIn(r)
    BY <1>0, <2>1 DEF CorrectUsername, ChangeAccount, FinishSignIn, Effect, Students
  <2>2. CASE student' = student
    BY <2>2
  <2>3. QED
    BY <2>1, <2>2 DEF WriterStep, Authenticate, EnterWrites, EnterBoth, VerifyHold, Unpark,
       CreateProject, ReserveQuota, LoadManagedStudent, CreateReview, LoadForConnect,
       CreateAttempt, WithdrawAttempt, LoadAccount, BeginSignIn, db
<1>3. \E where : pc' = [pc EXCEPT ![r] = where]
  BY DEF WriterStep, Authenticate, EnterWrites, EnterBoth, VerifyHold, Unpark,
     CreateProject, ReserveQuota, LoadManagedStudent, CreateReview, CorrectUsername,
     LoadForConnect, CreateAttempt, WithdrawAttempt, LoadAccount, ChangeAccount, BeginSignIn,
     FinishSignIn, Go, GoIf, Finish
<1>4. QED
  BY <1>1, <1>2, <1>3

\* A row is stored at a step that stores, and under a write lease.
LEMMA WritersStoreLeased ==
    ASSUME Types, HoldInvariant, DeletionInvariant, NEW r \in Leasers \cup SignIns,
           WriterStep(r)
    PROVE  \/ \A c \in Collections : rows'[c] \subseteq rows[c]
           \/ writeLeases # {} /\ pc[r] \in Storing
<1>0. rows \in Inventories /\ r \in Requests
  BY KindsAreRequests DEF Types, DatabaseTypes
<1>1. CASE rows' = rows
  BY <1>1
<1>2. CASE CreateProject(r) \/ CreateReview(r) \/ CreateAttempt(r)
  <2>1. pc[r] \in Storing /\ WriteLeased(r, pc[r])
    BY <1>2 DEF CreateProject, CreateReview, CreateAttempt, Storing, WriteLeased
  <2>2. QED
    BY <1>0, <2>1 DEF DeletionInvariant, WritesAreLeased
<1>3. CASE WithdrawAttempt(r)
  <2>1. \A c \in Collections : WithoutRow("oauth", r)[c] \subseteq rows[c]
    BY <1>0 DEF WithoutRow, Inventories
  <2>2. QED
    BY <1>3, <2>1 DEF WithdrawAttempt
<1>4. QED
  BY <1>1, <1>2, <1>3 DEF WriterStep, Authenticate, EnterWrites, EnterBoth, VerifyHold,
     Unpark, CorrectUsername, ReserveQuota, LoadManagedStudent, LoadForConnect, LoadAccount,
     ChangeAccount, BeginSignIn, FinishSignIn, db

\* Nobody sets out to store once the receipt is there: the account is pending, so it is
\* disabled, and each handler looks at the account after it has its lease.
LEMMA WritersAreRefused ==
    ASSUME Types, AccountInvariant, InventoryInvariant, Reported,
           NEW r \in Leasers \cup SignIns, WriterStep(r)
    PROVE  pc'[r] \notin Storing
<1>0. /\ r \in Requests /\ pc \in [Requests -> States]
      /\ student.pending /\ ~student.active /\ ~UsableBySession
  BY KindsAreRequests
     DEF Types, HandlerTypes, Reported, AccountInvariant, PendingIsMarked, UsableBySession
<1>f. ASSUME Finish(r)
      PROVE  pc'[r] \notin Storing
  BY <1>0, <1>f DEF Finish, Rest, Storing
<1>g. ASSUME NEW where, where \notin Storing, pc' = [pc EXCEPT ![r] = where]
      PROVE  pc'[r] \notin Storing
  BY <1>0, <1>g
<1>h. {"authed", "verify", "load", "parked", "withdraw", "change", "signin"} \cap Storing = {}
  BY DEF Storing
<1>1. CASE Authenticate(r) \/ BeginSignIn(r)
  BY <1>1, <1>g, <1>h DEF Authenticate, BeginSignIn
<1>2. CASE EnterWrites(r) \/ EnterBoth(r)
  BY <1>2, <1>f, <1>g, <1>h DEF EnterWrites, EnterBoth
<1>3. CASE VerifyHold(r)
  <2>1. AfterVerify(r) \notin Storing
    BY DEF AfterVerify, Storing
  <2>2. QED
    BY <1>3, <1>f, <1>g, <1>h, <2>1 DEF VerifyHold, Go
<1>4. CASE Unpark(r) \/ CreateProject(r) \/ CreateReview(r) \/ CorrectUsername(r)
           \/ WithdrawAttempt(r) \/ ChangeAccount(r) \/ FinishSignIn(r)
  BY <1>4, <1>f DEF Unpark, CreateProject, CreateReview, CorrectUsername, WithdrawAttempt,
     ChangeAccount, FinishSignIn
<1>5. CASE ReserveQuota(r) \/ LoadManagedStudent(r) \/ LoadForConnect(r)
  BY <1>0, <1>5, <1>f DEF ReserveQuota, LoadManagedStudent, LoadForConnect, GoIf
<1>6. CASE CreateAttempt(r) \/ LoadAccount(r)
  BY <1>6, <1>f, <1>g, <1>h DEF CreateAttempt, LoadAccount, GoIf, Go
<1>7. QED
  BY <1>1, <1>2, <1>3, <1>4, <1>5, <1>6 DEF WriterStep

LEMMA InventoryWriters ==
    ASSUME Types, Types', HoldInvariant, DeletionInvariant, AccountInvariant,
           InventoryInvariant, NEW r \in Leasers \cup SignIns, WriterStep(r)
    PROVE  InventoryInvariant'
<1>1. r \in Requests /\ r \notin Deleters /\ pc \in [Requests -> States]
  BY KindsAreApart, KindsAreRequests DEF Types, HandlerTypes
<1>2. /\ student'.exists = student.exists /\ receipts' = receipts
      /\ work' = work /\ \A q \in Requests \ {r} : pc'[q] = pc[q]
  BY <1>1, WritersKeepReceipts
<1>3. InventoryKept
  BY <1>2, NothingNewIsReported DEF Recorded
<1>4. QED
  BY <1>1, <1>2, <1>3, WritersStoreLeased, WritersAreRefused, InventoryMove

\* Neither do deletions and the sweeper store anything; they may take the document away.
LEMMA DeletersStoreNothing ==
    ASSUME Types, NEW d \in Deleters, DeletionStep(d) \/ (d = Sweeper /\ SweeperStep(d))
    PROVE  /\ student'.exists => student.exists
           /\ \A c \in Collections : rows'[c] \subseteq rows[c]
           /\ \E where : pc' = [pc EXCEPT ![d] = where]
<1>0. student \in Students /\ rows \in Inventories
  BY DEF Types, DatabaseTypes
<1>1. student'.exists => student.exists
  <2>1. CASE FirstFence(d) \/ SecondFence(d) \/ RemoveStudent(d)
    BY <1>0, <2>1 DEF FirstFence, SecondFence, RemoveStudent, Effect, Students
  <2>2. CASE student' = student
    BY <2>2
  <2>3. QED
    BY <2>1, <2>2 DEF DeletionStep, EnterMutations, VerifyHold, Unpark,
       ReadForDeletion, ConsultReceipt, ReuseReceipt, CountInventory, SweepRows, DeleteRows,
       RecordReceipt, RecheckReceipt, MarkNeedsRetry, CompleteReceipt, SweeperStep,
       BeginSweep, CheckOrphan, PrepareOrphan, SweepOrphan, CompleteOrphan, UpdateOrphan,
       RetryOrphan, FindCandidate, db
<1>2. \A c \in Collections : rows'[c] \subseteq rows[c]
  <2>1. ASSUME NEW b \in Collections,
               rows' = rows \/ rows' = [rows EXCEPT ![b] = {}]
        PROVE  \A c \in Collections : rows'[c] \subseteq rows[c]
    BY <1>0, <2>1 DEF Inventories
  <2>2. CASE \E b \in Collections : SweepRows(d, b) \/ SweepOrphan(d, b)
    BY <2>1, <2>2 DEF SweepRows, SweepOrphan, DeleteRows
  <2>3. CASE rows' = rows
    BY <2>3
  <2>4. QED
    BY <2>2, <2>3 DEF DeletionStep, EnterMutations, VerifyHold, Unpark,
       ReadForDeletion, FirstFence, ConsultReceipt, SecondFence, ReuseReceipt,
       CountInventory, RecordReceipt, RecheckReceipt, RemoveStudent, MarkNeedsRetry,
       CompleteReceipt, SweeperStep, BeginSweep, CheckOrphan, PrepareOrphan, CompleteOrphan,
       UpdateOrphan, RetryOrphan, FindCandidate, db
<1>3. \E where : pc' = [pc EXCEPT ![d] = where]
  BY DEF DeletionStep, EnterMutations, VerifyHold, Unpark, ReadForDeletion, FirstFence,
     ConsultReceipt, SecondFence, ReuseReceipt, CountInventory, SweepRows, DeleteRows,
     RecordReceipt, RecheckReceipt, RemoveStudent, MarkNeedsRetry, CompleteReceipt,
     SweeperStep, BeginSweep, CheckOrphan, PrepareOrphan, SweepOrphan, CompleteOrphan,
     UpdateOrphan, RetryOrphan, FindCandidate, FinishDeletion, Go, Finish
<1>4. QED
  BY <1>1, <1>2, <1>3

\* Only RecordReceipt makes a receipt; every other step changes at most the status of one
\* that exists.
LEMMA ReceiptsKeepInventories ==
    ASSUME Types, AccountInvariant, NEW d \in Deleters,
           DeletionStep(d) \/ (d = Sweeper /\ SweeperStep(d)), ~RecordReceipt(d)
    PROVE  \A op \in Deleters : Recorded(op)' =>
             Recorded(op) /\ receipts'[op].inventory = receipts[op].inventory
<1>0. receipts \in [Deleters -> Receipts]
  BY DEF Types, DatabaseTypes
<1>1. CASE receipts' = receipts
  BY <1>1 DEF Recorded
<1>2. ASSUME NEW status, receipts' = WithStatus(work[d].op, status), pc[d] \in OnReceipt
      PROVE  \A op \in Deleters : Recorded(op)' =>
               Recorded(op) /\ receipts'[op].inventory = receipts[op].inventory
  <2>1. Recorded(work[d].op)
    BY <1>2 DEF AccountInvariant, WorksFor
  <2>2. QED
    BY <1>0, <1>2, <2>1 DEF WithStatus, Recorded, Receipts
<1>3. CASE ReuseReceipt(d) \/ MarkNeedsRetry(d) \/ CompleteReceipt(d)
  <2>1. pc[d] \in OnReceipt
    BY <1>3 DEF ReuseReceipt, MarkNeedsRetry, CompleteReceipt, OnReceipt
  <2>2. QED
    BY <1>1, <1>2, <1>3, <2>1 DEF ReuseReceipt, MarkNeedsRetry, CompleteReceipt
<1>4. CASE PrepareOrphan(d) \/ CompleteOrphan(d) \/ RetryOrphan(d)
  <2>1. pc[d] \in OnReceipt
    BY <1>4 DEF PrepareOrphan, CompleteOrphan, UpdateOrphan, RetryOrphan, OnReceipt,
       OrphanStates
  <2>2. QED
    BY <1>1, <1>2, <1>4, <2>1 DEF PrepareOrphan, CompleteOrphan, UpdateOrphan, RetryOrphan
<1>5. QED
  BY <1>1, <1>3, <1>4 DEF DeletionStep, EnterMutations, VerifyHold, Unpark, ReadForDeletion,
     FirstFence, ConsultReceipt, SecondFence, CountInventory, SweepRows, DeleteRows,
     RecheckReceipt, RemoveStudent, SweeperStep, BeginSweep, CheckOrphan, SweepOrphan,
     FindCandidate, db

\* A count adds what is there, and ends when every collection has been counted.
LEMMA CountsCover ==
    ASSUME Types, HoldInvariant, DeletionInvariant, InventoryInvariant, NEW d \in Deleters,
           DeletionStep(d) \/ (d = Sweeper /\ SweeperStep(d))
    PROVE  CountHolds(pc[d], work[d])'
<1>0. /\ d \in Requests /\ pc \in [Requests -> States] /\ work \in [Deleters -> Works]
      /\ work[d] \in Works /\ CountHolds(pc[d], work[d])
      /\ FenceHolds(pc[d]) /\ SweepHolds(d, pc[d], work[d])
  BY KindsAreRequests
     DEF Types, HandlerTypes, InventoryInvariant, DeletionInvariant, DeletionsAreFenced
<1>i. ASSUME pc'[d] \notin {"count", "record"}
      PROVE  CountHolds(pc[d], work[d])'
  BY <1>i DEF CountHolds
<1>f. ASSUME Finish(d)
      PROVE  pc'[d] \notin {"count", "record"}
  BY <1>0, <1>f DEF Finish, Rest
<1>1. CASE SecondFence(d)
  <2>1. CASE Go(d, IF work[d].receipt THEN "reuse" ELSE "count") /\ UNCHANGED work
    <3>1. work[d].todo = Collections
      BY <1>0, <1>1 DEF SecondFence, SweepHolds
    <3>2. pc'[d] # "record"
      BY <1>0, <2>1 DEF Go
    <3>3. QED
      BY <2>1, <3>1, <3>2 DEF CountHolds
  <2>2. QED
    BY <1>1, <1>f, <1>i, <2>1 DEF SecondFence, FinishDeletion
<1>2. ASSUME NEW c \in Collections, CountInventory(d, c)
      PROVE  CountHolds(pc[d], work[d])'
  <2> DEFINE left == work[d].todo \ {c}
             new  == [work[d] EXCEPT !.todo = IF left = {} THEN Collections ELSE left,
                                     !.counted[c] = rows[c]]
  <2>1. rows' = rows /\ pc[d] = "count"
    BY <1>2 DEF CountInventory, db
  <2>2. CASE Go(d, IF left = {} THEN "record" ELSE "count") /\ Set(d, new)
    <3>1. /\ new.todo = IF left = {} THEN Collections ELSE left
          /\ new.counted[c] = rows[c]
          /\ \A b \in Collections \ {c} : new.counted[b] = work[d].counted[b]
      BY <1>0 DEF Works, Inventories
    <3>2. work'[d] = new
      BY <1>0, <2>2 DEF Set
    <3>3. /\ pc'[d] = "record" => left = {}
          /\ pc'[d] = "count" => left # {}
      BY <1>0, <2>2 DEF Go
    <3>4. \A b \in Collections \ work[d].todo : rows[b] \subseteq work[d].counted[b]
      BY <1>0, <2>1 DEF CountHolds
    <3>h HIDE DEF new
    <3>5. \A b \in Collections \ left : rows[b] \subseteq new.counted[b]
      BY <3>1, <3>4
    <3>6. QED
      BY <2>1, <3>1, <3>2, <3>3, <3>5 DEF CountHolds
  <2>3. (Go(d, IF left = {} THEN "record" ELSE "count") /\ Set(d, new)) \/ FinishDeletion(d)
    BY <1>2 DEF CountInventory
  <2>4. QED
    BY <1>f, <1>i, <2>2, <2>3 DEF FinishDeletion
<1>g. ASSUME NEW where, where \notin {"count", "record"}, Go(d, where)
      PROVE  pc'[d] \notin {"count", "record"}
  BY <1>0, <1>g DEF Go
<1>3. CASE EnterMutations(d) \/ Unpark(d)
  BY <1>0, <1>3, <1>f, <1>i DEF EnterMutations, Unpark
<1>4. CASE VerifyHold(d)
  <2>1. AfterVerify(d) \notin {"count", "record"}
    BY DEF AfterVerify
  <2>2. QED
    BY <1>0, <1>4, <1>f, <1>g, <1>i, <2>1 DEF VerifyHold
<1>5. CASE ReadForDeletion(d) \/ FirstFence(d) \/ ConsultReceipt(d) \/ ReuseReceipt(d)
           \/ RecordReceipt(d) \/ RecheckReceipt(d) \/ RemoveStudent(d) \/ MarkNeedsRetry(d)
           \/ CompleteReceipt(d)
  <2>1. pc'[d] \notin {"count", "record"}
    BY <1>5, <1>f, <1>g DEF ReadForDeletion, FirstFence, ConsultReceipt, ReuseReceipt,
       RecordReceipt, RecheckReceipt, RemoveStudent, MarkNeedsRetry, CompleteReceipt,
       FinishDeletion
  <2>2. QED
    BY <1>i, <2>1
<1>6. ASSUME NEW c \in Collections, SweepRows(d, c) \/ SweepOrphan(d, c)
      PROVE  CountHolds(pc[d], work[d])'
  BY <1>6, <1>g, <1>i DEF SweepRows, SweepOrphan, DeleteRows
<1>7. CASE BeginSweep(d) \/ CheckOrphan(d) \/ PrepareOrphan(d) \/ CompleteOrphan(d)
           \/ RetryOrphan(d) \/ FindCandidate(d)
  <2>1. pc'[d] \notin {"count", "record"}
    BY <1>7, <1>f, <1>g DEF BeginSweep, CheckOrphan, PrepareOrphan, CompleteOrphan,
       UpdateOrphan, RetryOrphan, FindCandidate, FinishDeletion
  <2>2. QED
    BY <1>i, <2>1
<1>8. QED
  BY <1>1, <1>2, <1>3, <1>4, <1>5, <1>6, <1>7 DEF DeletionStep, SweeperStep
\* A receipt is made durable when every row has been counted and nobody is left to store one.
LEMMA RecordCovers ==
    ASSUME Types, Types', HoldInvariant', DeletionInvariant, DeletionInvariant',
           AccountInvariant, InventoryInvariant, NEW d \in Deleters, RecordReceipt(d)
    PROVE  InventoryInvariant'
<1> DEFINE op == work[d].op
           new == [status |-> "in-progress", reason |-> work[d].reason,
                   inventory |-> work[d].counted]
<1>0. /\ d \in Requests /\ op \in Deleters /\ receipts \in [Deleters -> Receipts]
      /\ pc[d] = "record" /\ op = student.op
      /\ writeLeases = {} /\ CountHolds(pc[d], work[d])
  BY KindsAreRequests
     DEF Types, DatabaseTypes, HandlerTypes, Works, RecordReceipt, InventoryInvariant,
         DeletionInvariant, DeletionsAreFenced, FenceHolds, Fenced, AccountInvariant,
         WorksFor, Claimed
<1>1. UNCHANGED <<student, rows, work, writeLeases>>
  BY DEF RecordReceipt, Go
<1>2. receipts' = receipts \/ (~Recorded(op) /\ receipts' = [receipts EXCEPT ![op] = new])
  BY DEF RecordReceipt, Recorded
<1>3. InventoryIsComplete'
  <2>1. CASE receipts' = receipts
    BY <1>1, <2>1 DEF InventoryInvariant, InventoryIsComplete
  <2>2. CASE receipts' = [receipts EXCEPT ![op] = new]
    <3>1. receipts'[op].inventory = work[d].counted
      BY <1>0, <2>2
    <3>2. \A c \in Collections : rows[c] \subseteq work[d].counted[c]
      BY <1>0 DEF CountHolds
    <3>3. QED
      BY <1>0, <1>1, <3>1, <3>2 DEF InventoryIsComplete
  <2>3. QED
    BY <1>2, <2>1, <2>2
<1>4. NoWriterIsLeft'
  <2> SUFFICES ASSUME NEW r \in Requests, pc'[r] \in Storing
               PROVE  FALSE
      BY DEF NoWriterIsLeft
  <2>1. r \in writeLeases'
    BY DEF DeletionInvariant, WritesAreLeased, WriteLeased, Storing
  <2>2. QED
    BY <1>0, <1>1, <2>1
<1>5. PICK where \in {"sweep", "recheck"} : pc' = [pc EXCEPT ![d] = where]
  BY DEF RecordReceipt, Go
<1>6. \A q \in Requests \ {d} : pc'[q] = pc[q]
  BY <1>5 DEF Types, HandlerTypes
<1>7. \A e \in Deleters : CountHolds(pc[e], work[e])'
  <2>1. CountHolds(pc[d], work[d])'
    BY <1>0, <1>5 DEF CountHolds, Types, HandlerTypes
  <2>2. \A e \in Deleters \ {d} : CountHolds(pc[e], work[e])'
    BY <1>1, <1>6, KindsAreRequests DEF InventoryInvariant, CountHolds
  <2>3. QED
    BY <2>1, <2>2
<1>8. QED
  BY <1>3, <1>4, <1>7 DEF InventoryInvariant

LEMMA InventoryDeleters ==
    ASSUME Types, Types', HoldInvariant, HoldInvariant', DeletionInvariant,
           DeletionInvariant', AccountInvariant, InventoryInvariant, NEW d \in Deleters,
           DeletionStep(d) \/ (d = Sweeper /\ SweeperStep(d))
    PROVE  InventoryInvariant'
<1>1. CASE RecordReceipt(d)
  BY <1>1, RecordCovers
<1>2. CASE ~RecordReceipt(d)
  <2>1. /\ d \in Requests /\ d \notin Creators /\ d \notin Connects
        /\ pc \in [Requests -> States]
    BY KindsAreApart, KindsAreRequests DEF Types, HandlerTypes, Leasers, Protected, Creators
  <2>2. /\ student'.exists => student.exists
        /\ \A c \in Collections : rows'[c] \subseteq rows[c]
        /\ \A q \in Requests \ {d} : pc'[q] = pc[q]
    BY <2>1, DeletersStoreNothing
  <2>3. \A e \in Deleters \ {d} : work'[e] = work[e]
    BY DeletionTouchesItself DEF Untouched
  <2>4. InventoryKept
    BY <1>2, <2>2, ReceiptsKeepInventories, NothingNewIsReported
  <2>5. pc'[d] \notin Storing
    BY <2>1 DEF HoldInvariant, HandlersKeepToTheirSteps, OwnStep, Storing
  <2>6. CountHolds(pc[d], work[d])'
    BY CountsCover
  <2>7. QED
    BY <2>1, <2>2, <2>3, <2>4, <2>5, <2>6, InventoryMove
<1>3. QED
  BY <1>1, <1>2

\* A transition touches neither rows nor receipts, and stores nothing.
LEMMA InventoryTransitions ==
    ASSUME Types, Types', DeletionInvariant, AccountInvariant, InventoryInvariant,
           NEW t \in Transitions, TransitionStep(t)
    PROVE  InventoryInvariant'
<1>1. /\ t \in Requests /\ t \notin Deleters /\ pc \in [Requests -> States]
      /\ student \in Students
  BY KindsAreApart, KindsAreRequests DEF Types, HandlerTypes, DatabaseTypes
<1>2. UNCHANGED <<work, receipts, rows>>
  BY DEF TransitionStep, BeginTransition, SuspendPurge, PlaceHold, ReleaseHold, Reread,
     SettleRelease, CatchTransition, CatchHeld, CatchSettle, db
<1>3. PICK where \in TransitionStates \cup {"done"} : pc' = [pc EXCEPT ![t] = where]
  <2>1. {"suspend", "flip", "reread", "settle", "catch", "catch-held", "catch-settle",
         "done"} = TransitionStates \cup {"done"}
    BY DEF TransitionStates
  <2>2. CASE BeginTransition(t)
    BY <2>1, <2>2 DEF BeginTransition
  <2>3. CASE SuspendPurge(t) \/ PlaceHold(t) \/ ReleaseHold(t)
    BY <2>1, <2>3 DEF SuspendPurge, PlaceHold, ReleaseHold, Step, Settled
  <2>4. CASE Reread(t) \/ SettleRelease(t)
    BY <2>1, <2>4 DEF Reread, SettleRelease, Step, Settled
  <2>5. CASE CatchTransition(t) \/ CatchHeld(t) \/ CatchSettle(t)
    BY <2>1, <2>5 DEF CatchTransition, CatchHeld, CatchSettle, Step, Settled
  <2>6. QED
    BY <2>2, <2>3, <2>4, <2>5 DEF TransitionStep
<1>4. pc'[t] = where /\ \A q \in Requests \ {t} : pc'[q] = pc[q]
  BY <1>1, <1>3
<1>5. student'.exists = student.exists
  <2>1. CASE PlaceHold(t) \/ ReleaseHold(t)
    BY <1>1, <2>1 DEF PlaceHold, ReleaseHold, Effect, Students
  <2>2. CASE student' = student
    BY <2>2
  <2>3. QED
    BY <2>1, <2>2 DEF TransitionStep, BeginTransition, SuspendPurge, Reread, SettleRelease,
       CatchTransition, CatchHeld, CatchSettle, db
<1>6. InventoryKept
  BY <1>2, <1>5, NothingNewIsReported DEF Recorded
<1>7. pc'[t] \notin Storing
  BY <1>4 DEF Storing, TransitionStates
<1>8. QED
  BY <1>1, <1>2, <1>4, <1>6, <1>7, InventoryMove

LEMMA InventoryNext ==
    ASSUME Types, Types', HoldInvariant, HoldInvariant', DeletionInvariant,
           DeletionInvariant', AccountInvariant, InventoryInvariant, [Next]_vars
    PROVE  InventoryInvariant'
<1> USE DEF InventoryInvariant, InventoryIsComplete, NoWriterIsLeft, Reported, Recorded
<1>1. CASE UNCHANGED vars
  BY <1>1 DEF vars, db, gates, CountHolds
<1>2. CASE Expire
  <2>1. student'.exists = student.exists /\ student'.op = student.op
    BY <1>2 DEF Expire, Types, DatabaseTypes, Students
  <2>2. UNCHANGED <<rows, receipts, pc, work>>
    BY <1>2 DEF Expire
  <2>3. QED
    BY <2>1, <2>2 DEF CountHolds
<1>3. CASE Crash
  <2>1. \A r \in Requests : pc'[r] \in {"ready", "idle", "done"}
    BY <1>3 DEF Crash, Rest
  <2>2. UNCHANGED <<student, rows, receipts>>
    BY <1>3 DEF Crash, db
  <2>3. NoWriterIsLeft'
    BY <2>1 DEF Storing
  <2>4. \A d \in Deleters : CountHolds(pc[d], work[d])'
    BY <2>1, KindsAreRequests DEF CountHolds
  <2>5. QED
    BY <2>2, <2>3, <2>4
<1> HIDE DEF InventoryInvariant, InventoryIsComplete, NoWriterIsLeft, Reported, Recorded
<1>4. QED
  BY <1>1, <1>2, <1>3, InventoryWriters, InventoryDeleters, InventoryTransitions,
     KindsAreRequests DEF Next

\* The receipt's inventory is complete, for any number of requests, deletions, sweeps, hold
\* transitions, failures and crashes: every row that is there once the receipt is durable is
\* one that was counted for it, although a placement or a release may have reopened the write
\* gate since.
THEOREM InventoryStaysComplete == Spec => []InventoryIsComplete
<1>1. Init => InventoryInvariant
  <2> SUFFICES ASSUME Init PROVE InventoryInvariant
      OBVIOUS
  <2>1. \A r \in Requests : pc[r] \in {"ready", "idle"}
    BY DEF Init
  <2>2. InventoryIsComplete /\ NoWriterIsLeft
    BY DEF Init, InventoryIsComplete, NoWriterIsLeft, Reported
  <2>3. \A d \in Deleters : CountHolds(pc[d], work[d])
    BY <2>1, KindsAreRequests DEF CountHolds
  <2>4. QED
    BY <2>2, <2>3 DEF InventoryInvariant
<1>2. InventoryInvariant => InventoryIsComplete
  BY DEF InventoryInvariant
<1>3. QED
  BY <1>1, <1>2, InventoryNext, DeletionIsInvariant, AccountIsInvariant, PTL DEF Spec

-----------------------------------------------------------------------------
(* The contract: every step is one of its actions, or nothing to it.       *)

ContractStep == Contract!Next \/ UNCHANGED Contract!vars

\* Nothing the contract speaks of has changed.
LEMMA ContractStutter ==
    ASSUME UNCHANGED db
    PROVE  ContractStep
<1>1. UNCHANGED <<student, alias, rows, receipts, armed>>
  BY DEF db
<1>2. UNCHANGED <<Phase, Held, Reports>>
  BY <1>1 DEF Phase, Held, Reports, Report
<1>3. UNCHANGED Contract!vars
  BY <1>1, <1>2 DEF Contract!vars, Contract!account, Contract!content
<1>4. QED
  BY <1>3 DEF ContractStep

LEMMA ContractInit == Init => Contract!Init
<1> SUFFICES ASSUME Init PROVE Contract!Init
    OBVIOUS
<1>1. Phase = "open" /\ Held = FALSE
  BY DEF Init, Phase, Held
<1>2. \A op \in Deleters : Reports[op].status = "none"
  BY DEF Init, Reports, Report, NoReceipt, Unfinished
<1>3. rows \in [Collections -> SUBSET RowIds] /\ alias \in RowIds
  BY DEF Init, RowIds
<1>4. QED
  BY <1>1, <1>2, <1>3 DEF Init, Contract!Init

\* What the contract sees of the document stays when the document does.
LEMMA SameStudent ==
    ASSUME student' = student
    PROVE  UNCHANGED <<Phase, Held, student.active, student.expired, student.op, student.reason>>
BY DEF Phase, Held

LEMMA SameReports ==
    ASSUME receipts' = receipts
    PROVE  UNCHANGED Reports
BY DEF Reports, Report

\* Two values of the reports are compared receipt by receipt.
LEMMA ReportsArePerOperation ==
    /\ Reports = [op \in Deleters |-> Reports[op]]
    /\ Reports' = [op \in Deleters |-> Reports'[op]]
BY DEF Reports

-----------------------------------------------------------------------------
(* Requests.                                                               *)

\* A row is stored for a student who is there.
LEMMA ContractStore ==
    ASSUME rows \in Inventories, NEW c, NEW r \in RowIds, student.exists, Held => c = "oauth",
           rows' = WithRow(c, r), UNCHANGED <<student, alias, receipts, armed>>
    PROVE  ContractStep
<1>1. CASE c \in Collections
  <2>1. Contract!Store(c, r)
    BY SameStudent, SameReports
       DEF Contract!Store, Contract!account, WithRow, Phase
  <2>2. QED
    BY <1>1, <2>1 DEF ContractStep, Contract!Next
<1>2. CASE c \notin Collections
  <2>1. rows' = rows
    BY <1>2 DEF WithRow, Inventories
  <2>2. QED
    BY <2>1, ContractStutter DEF db
<1>3. QED
  BY <1>1, <1>2

LEMMA ContractWriters ==
    ASSUME ContractInvariant, NEW r \in Leasers \cup SignIns, WriterStep(r)
    PROVE  ContractStep
<1>0. /\ Types /\ HoldInvariant /\ DeletionInvariant /\ student \in Students
      /\ rows \in Inventories /\ r \in Requests /\ r \in RowIds
  BY KindsAreRequests DEF ContractInvariant, Types, DatabaseTypes, RowIds
<1>1. CASE UNCHANGED db
  BY <1>1, ContractStutter
<1>2. ASSUME pc[r] \in {"create", "attempt"}
      PROVE  student.exists /\ (Held => pc[r] = "attempt")
  <2>1. student.exists
    BY <1>0, <1>2 DEF DeletionInvariant, NoWriterOutlives, Storing
  <2>2. Held => pc[r] = "attempt"
    BY <1>0, <1>2, LeasedStepsAreShut DEF Held
  <2>3. QED
    BY <2>1, <2>2
<1>3. CASE CreateProject(r) \/ CreateReview(r)
  <2>1. /\ pc[r] = "create" /\ UNCHANGED <<student, alias, receipts, armed>>
        /\ rows' = rows \/ (\E c \in {"projects", "reviews"} : rows' = WithRow(c, r))
    BY <1>3 DEF CreateProject, CreateReview
  <2>2. QED
    BY <1>0, <1>1, <1>2, <2>1, ContractStore DEF db
<1>4. CASE CreateAttempt(r)
  <2>1. /\ pc[r] = "attempt" /\ UNCHANGED <<student, alias, receipts, armed>>
        /\ rows' = rows \/ rows' = WithRow("oauth", r)
    BY <1>4 DEF CreateAttempt
  <2>2. QED
    BY <1>0, <1>1, <1>2, <2>1, ContractStore DEF db
<1>5. CASE WithdrawAttempt(r)
  <2>1. /\ UNCHANGED <<student, alias, receipts, armed>>
        /\ rows' = rows \/ rows' = WithoutRow("oauth", r)
    BY <1>5 DEF WithdrawAttempt
  <2>2. CASE rows' = rows
    BY <1>1, <2>1, <2>2 DEF db
  <2>3. CASE rows' # rows
    <3>1. rows' = [rows EXCEPT !["oauth"] = @ \ {r}]
      BY <2>1, <2>3 DEF WithoutRow
    <3>2. "oauth" \in Collections
      BY <1>0, <2>3, <3>1 DEF Inventories
    <3>3. student.exists
      <4>1. SUFFICES ASSUME ~student.exists PROVE FALSE
        OBVIOUS
      <4>2. \A c \in Collections : rows[c] = {}
        BY <1>0, <4>1 DEF DeletionInvariant, NoResurrection, NoRows
      <4>3. rows["oauth"] \ {r} = rows["oauth"]
        BY <3>2, <4>2
      <4>4. QED
        BY <1>0, <2>3, <3>1, <4>3 DEF Inventories
    <3>4. Contract!Withdraw("oauth", r)
      BY <2>1, <3>1, <3>3, SameStudent, SameReports
         DEF Contract!Withdraw, Contract!account, Phase
    <3>5. QED
      BY <1>0, <3>2, <3>4 DEF ContractStep, Contract!Next
  <2>4. QED
    BY <2>2, <2>3
<1>6. CASE CorrectUsername(r)
  <2>1. /\ pc[r] = "rename" /\ UNCHANGED <<rows, receipts, armed>>
        /\ \/ student' = student /\ alias' = alias
           \/ /\ student.exists /\ ~student.pending /\ alias' = r
              /\ student' = [student EXCEPT !.version = @ + 1]
    BY <1>6 DEF CorrectUsername, Effect
  <2>2. CASE student' = student /\ alias' = alias
    BY <1>1, <2>1, <2>2 DEF db
  <2>3. CASE /\ student.exists /\ ~student.pending /\ alias' = r
             /\ student' = [student EXCEPT !.version = @ + 1]
    <3>1. ~Held
      BY <1>0, <2>1, LeasedStepsAreShut DEF Held
    <3>2. UNCHANGED <<Phase, Held, student.active, student.expired, student.op,
                      student.reason>>
      BY <1>0, <2>3 DEF Students, Phase, Held
    <3>3. Contract!Rename(r)
      BY <2>1, <2>3, <3>1, <3>2, SameReports DEF Contract!Rename, Contract!account, Phase
    <3>4. QED
      BY <1>0, <3>3 DEF ContractStep, Contract!Next
  <2>4. QED
    BY <2>1, <2>2, <2>3
<1>7. CASE ChangeAccount(r)
  <2>1. PICK active \in BOOLEAN :
          \/ student' = student
          \/ /\ AccountStillCurrent(r, active)
             /\ student' = [student EXCEPT !.active = active, !.version = @ + 1]
    BY <1>7 DEF ChangeAccount, Effect
  <2>2. UNCHANGED <<alias, rows, receipts, armed>>
    BY <1>7 DEF ChangeAccount
  <2>3. CASE student' = student
    BY <1>1, <2>2, <2>3 DEF db
  <2>4. CASE /\ AccountStillCurrent(r, active)
             /\ student' = [student EXCEPT !.active = active, !.version = @ + 1]
    <3>1. UNCHANGED <<Phase, Held, student.expired, student.op, student.reason>>
      BY <1>0, <2>4 DEF Students, Phase, Held
    <3>2. student'.active = active /\ Phase = "open"
      BY <1>0, <2>4 DEF Students, AccountStillCurrent, Phase
    <3>3. student'.active => ~student.expired
      BY <2>4, <3>2 DEF AccountStillCurrent
    <3>4. Contract!ChangeAccess
      BY <2>2, <3>1, <3>2, <3>3, SameReports DEF Contract!ChangeAccess, Contract!content
    <3>5. QED
      BY <3>4 DEF ContractStep, Contract!Next
  <2>5. QED
    BY <2>1, <2>3, <2>4
<1>8. CASE FinishSignIn(r)
  <2>1. /\ UNCHANGED <<alias, rows, receipts, armed>>
        /\ \/ student' = student
           \/ /\ student.exists /\ student.active /\ ~student.pending
              /\ student' = [student EXCEPT !.expired = FALSE, !.version = @ + 1]
    BY <1>8 DEF FinishSignIn, Effect
  <2>2. CASE student' = student
    BY <1>1, <2>1, <2>2 DEF db
  <2>3. CASE /\ student.exists /\ student.active /\ ~student.pending
             /\ student' = [student EXCEPT !.expired = FALSE, !.version = @ + 1]
    <3>1. /\ UNCHANGED <<Phase, Held, student.active, student.op, student.reason>>
          /\ student'.expired = FALSE
      BY <1>0, <2>3 DEF Students, Phase, Held
    <3>2. Contract!Renew
      BY <2>1, <2>3, <3>1, SameReports DEF Contract!Renew, Contract!content, Phase
    <3>3. QED
      BY <3>2 DEF ContractStep, Contract!Next
  <2>4. QED
    BY <2>1, <2>2, <2>3
<1>9. CASE \/ Authenticate(r) \/ EnterWrites(r) \/ EnterBoth(r) \/ VerifyHold(r)
           \/ Unpark(r) \/ ReserveQuota(r) \/ LoadManagedStudent(r) \/ LoadForConnect(r)
           \/ LoadAccount(r) \/ BeginSignIn(r)
  <2>1. UNCHANGED db
    BY <1>9 DEF Authenticate, EnterWrites, EnterBoth, VerifyHold, Unpark,
                ReserveQuota, LoadManagedStudent, LoadForConnect, LoadAccount, BeginSignIn
  <2>2. QED
    BY <1>1, <2>1
<1>10. QED
  BY <1>3, <1>4, <1>5, <1>6, <1>7, <1>8, <1>9 DEF WriterStep

-----------------------------------------------------------------------------
(* Deletions.                                                              *)

\* With a deletion past its hold check there is no hold.
LEMMA DeletionIsNotHeld ==
    ASSUME ContractInvariant, NEW d \in Deleters, pc[d] \in DeletionStates
    PROVE  ~Held
BY KindsAreRequests, LeasedStepsAreShut DEF ContractInvariant, Held

\* The operation a deletion past its claim works for is the one the contract knows, and its
\* receipt, once recorded, is open while the student is there.
LEMMA DeletionAtWork ==
    ASSUME ContractInvariant, NEW d \in Deleters, pc[d] \in Claimed
    PROVE  /\ work[d].op \in Deleters
           /\ work[d].op = student.op /\ work[d].reason = student.reason
           /\ student.exists => Phase = "pending"
           /\ ~student.exists => Phase = "gone"
<1>1. work[d].op \in Deleters /\ work[d].op # NoOp
  BY KindsAreRequests, NoOpIsNoRequest DEF ContractInvariant, Types, HandlerTypes, Works
<1>2. work[d].op = student.op /\ work[d].reason = student.reason
  BY DEF ContractInvariant, AccountInvariant, WorksFor
<1>3. student.pending
  BY <1>1, <1>2 DEF ContractInvariant, AccountInvariant, PendingIsMarked
<1>4. QED
  BY <1>1, <1>2, <1>3 DEF Phase

LEMMA OpenReport ==
    ASSUME ContractInvariant, NEW op \in Deleters, Recorded(op), student.exists
    PROVE  Reports[op].status = "open"
<1>1. receipts[op] \in Receipts
  BY DEF ContractInvariant, Types, DatabaseTypes
<1>2. receipts[op].status \in Unfinished
  BY <1>1 DEF ContractInvariant, DeletionInvariant, CompletedMeansGone, Recorded, Receipts,
     Statuses, Unfinished
<1>3. QED
  BY <1>1, <1>2 DEF Reports, Report, Receipts

\* A new status of a receipt that exists: nothing while the student is there, unless it is
\* the completion, and a settlement afterwards.
LEMMA ContractStatus ==
    ASSUME ContractInvariant, NEW op \in Deleters, Recorded(op),
           NEW status \in Statuses \ {"none"}, status = "completed" => ~student.exists,
           UNCHANGED <<student, alias, rows, armed>>,
           receipts' = receipts \/ receipts' = WithStatus(op, status)
    PROVE  ContractStep
<1>0. receipts \in [Deleters -> Receipts] /\ op = student.op
  BY DEF ContractInvariant, Types, DatabaseTypes, AccountInvariant, ReceiptsBelong
<1>1. CASE receipts' = receipts
  BY <1>1, ContractStutter DEF db
<1>2. CASE receipts' = WithStatus(op, status)
  <2> DEFINE new == IF status = "completed" THEN "completed" ELSE "open"
  <2>1. status \in Unfinished \cup {"completed"} /\ "completed" \notin Unfinished
    BY DEF Statuses, Unfinished
  <2>2. \A e \in Deleters : receipts[e] \in [status : Statuses, reason : Reasons \cup {"none"},
                                             inventory : Inventories]
    BY <1>0 DEF Receipts
  <2>3. ASSUME NEW e \in Deleters
        PROVE  Reports'[e] = IF e = op THEN [Reports[e] EXCEPT !.status = new] ELSE Reports[e]
    <3>1. CASE e = op
      <4>1. receipts'[e] = [receipts[e] EXCEPT !.status = status]
        BY <1>0, <1>2, <3>1 DEF WithStatus
      <4>2. Reports'[e] = [[receipts[e] EXCEPT !.status = status] EXCEPT
                             !.status = IF @ \in Unfinished THEN "open" ELSE @]
        BY <4>1 DEF Reports, Report
      <4>3. Reports'[e] = [receipts[e] EXCEPT !.status = new]
        BY <2>1, <2>2, <4>2
      <4>4. [Reports[e] EXCEPT !.status = new] = [receipts[e] EXCEPT !.status = new]
        BY <2>2 DEF Reports, Report
      <4>5. QED
        BY <3>1, <4>3, <4>4
    <3>2. CASE e # op
      BY <1>0, <1>2, <3>2 DEF WithStatus, Reports, Report
    <3>3. QED
      BY <3>1, <3>2
  <2>4. Reports' = [Reports EXCEPT ![op].status = new]
    <3> DEFINE changed == [Reports[op] EXCEPT !.status = new]
    <3>1. Reports'[op] = changed /\ \A e \in Deleters \ {op} : Reports'[e] = Reports[e]
      BY <2>3
    <3> HIDE DEF changed
    <3>2. Reports' = [Reports EXCEPT ![op] = changed]
      BY <3>1, ReportsArePerOperation
    <3>3. QED
      BY <3>2 DEF changed
  <2>5. CASE student.exists
    <3>1. new = "open" /\ Reports[op].status = "open"
      BY <2>5, OpenReport
    <3>2. Reports[op] \in [status : {"open"}, reason : Reasons \cup {"none"},
                           inventory : Inventories]
      BY <2>2, <3>1 DEF Reports, Report
    <3>3. [Reports[op] EXCEPT !.status = new] = Reports[op]
      BY <3>1, <3>2
    <3>4. \A e \in Deleters : Reports'[e] = Reports[e]
      BY <2>3, <3>3
    <3>5. Reports' = Reports
      BY <3>4, ReportsArePerOperation
    <3>6. UNCHANGED Contract!vars
      BY <3>5, SameStudent DEF Contract!vars, Contract!account, Contract!content
    <3>7. QED
      BY <3>6 DEF ContractStep
  <2>6. CASE ~student.exists
    <3>1. Reports[op].status # "none"
      BY <2>2 DEF Reports, Report, Recorded
    <3>2. Contract!Settle(op)
      BY <1>0, <2>4, <2>6, <3>1, SameStudent
         DEF Contract!Settle, Contract!account, Contract!content, Phase
    <3>3. QED
      BY <3>2 DEF ContractStep, Contract!Next
  <2>7. QED
    BY <2>5, <2>6
<1>3. QED
  BY <1>1, <1>2

\* The claim.
LEMMA ContractFirstFence ==
    ASSUME ContractInvariant, NEW d \in Deleters, FirstFence(d)
    PROVE  ContractStep
<1>0. /\ work[d] \in Works /\ WorksFor(d) /\ WillClaim(d) /\ Chosen(d)
      /\ student \in Students
  BY DEF ContractInvariant, Types, HandlerTypes, DatabaseTypes, AccountInvariant, FirstFence,
     Chosen
<1>1. work[d].op \in Deleters /\ work[d].op # NoOp
  BY <1>0, KindsAreRequests, NoOpIsNoRequest DEF Works
<1>2. UNCHANGED <<alias, rows, receipts, armed>>
  BY DEF FirstFence
<1>3. CASE student' = student
  BY <1>2, <1>3, ContractStutter DEF db
<1>4. CASE /\ StillEligible(d)
           /\ student' = [student EXCEPT !.active = FALSE, !.pending = TRUE,
                            !.op = work[d].op, !.reason = work[d].reason, !.version = @ + 1]
  <2>1. /\ student'.active = FALSE /\ student'.op = work[d].op
        /\ student'.reason = work[d].reason /\ student'.expired = student.expired
        /\ Phase' = "pending" /\ Held' = Held /\ ~Held
    BY <1>0, <1>4 DEF Students, Phase, Held, StillEligible
  <2>2. student.pending <=> student.op # NoOp
    BY DEF ContractInvariant, AccountInvariant, PendingIsMarked
  <2>3. CASE work[d].resume
    <3>1. student.op = work[d].op /\ student.reason = work[d].reason
      BY <1>0, <2>3 DEF WillClaim
    <3>2. student.active = FALSE /\ Phase = "pending"
      BY <1>0, <1>1, <1>4, <2>2, <3>1 DEF ContractInvariant, AccountInvariant, PendingIsMarked,
         Students, StillEligible, Phase
    <3>3. UNCHANGED Contract!vars
      BY <1>2, <2>1, <3>1, <3>2, SameReports DEF Contract!vars, Contract!account, Contract!content
    <3>4. QED
      BY <3>3 DEF ContractStep
  <2>4. CASE ~work[d].resume
    <3>1. student.op = NoOp /\ work[d].reason \in Reasons
      BY <1>0, <1>4, <2>4 DEF WillClaim, StillEligible
    <3>2. Phase = "open"
      BY <1>4, <2>2, <3>1 DEF StillEligible, Phase
    <3>3. work[d].reason = "retention-expiry" => student.expired
      BY <1>0, <1>4, <2>4 DEF WillClaim, StillEligible
    <3>4. Contract!Claim(work[d].op, work[d].reason)
      BY <1>2, <2>1, <3>2, <3>3, SameReports DEF Contract!Claim, Contract!content
    <3>5. QED
      BY <1>1, <3>1, <3>4 DEF ContractStep, Contract!Next, Reasons
  <2>5. QED
    BY <2>3, <2>4
<1>5. QED
  BY <1>3, <1>4 DEF FirstFence, Effect

\* The second fence writes what is there already.
LEMMA ContractSecondFence ==
    ASSUME ContractInvariant, NEW d \in Deleters, SecondFence(d)
    PROVE  ContractStep
<1>0. student \in Students /\ pc[d] \in Claimed
  BY DEF ContractInvariant, Types, DatabaseTypes, SecondFence, Claimed
<1>1. UNCHANGED <<alias, rows, receipts, armed>>
  BY DEF SecondFence
<1>2. CASE student' = student
  BY <1>1, <1>2, ContractStutter DEF db
<1>3. CASE /\ student.exists
           /\ student' = [student EXCEPT !.active = FALSE, !.pending = TRUE,
                                 !.reason = work[d].reason, !.version = @ + 1]
  <2>1. student.pending = TRUE /\ student.active = FALSE /\ work[d].reason = student.reason
    BY <1>0, <1>3, DeletionAtWork DEF Phase, ContractInvariant, AccountInvariant,
       PendingIsMarked, Students
  <2>2. UNCHANGED <<Phase, Held, student.active, student.expired, student.op,
                    student.reason>>
    BY <1>0, <1>3, <2>1 DEF Students, Phase, Held
  <2>3. UNCHANGED Contract!vars
    BY <1>1, <2>2, SameReports DEF Contract!vars, Contract!account, Contract!content
  <2>4. QED
    BY <2>3 DEF ContractStep
<1>4. QED
  BY <1>2, <1>3 DEF SecondFence, Effect

\* The receipt is stored once, for the claim.
LEMMA ContractRecord ==
    ASSUME ContractInvariant, NEW d \in Deleters, RecordReceipt(d)
    PROVE  ContractStep
<1> DEFINE op == work[d].op
           new == [status |-> "in-progress", reason |-> work[d].reason,
                   inventory |-> work[d].counted]
<1>0. /\ receipts \in [Deleters -> Receipts] /\ pc[d] \in Claimed
      /\ pc[d] \in DeletionStates
  BY DEF ContractInvariant, Types, DatabaseTypes, RecordReceipt, Claimed, DeletionStates
<1>1. op \in Deleters /\ op = student.op /\ work[d].reason = student.reason
  BY <1>0, DeletionAtWork
<1>2. UNCHANGED <<student, alias, rows, armed>>
  BY DEF RecordReceipt
<1>3. CASE receipts' = receipts
  BY <1>2, <1>3, ContractStutter DEF db
<1>4. CASE ~Recorded(op) /\ receipts' = [receipts EXCEPT ![op] = new]
  <2>1. student.exists
    BY <1>1, <1>4 DEF ContractInvariant, GoneIsReported, AccountInvariant, ReceiptsBelong
  <2>2. Phase = "pending" /\ ~Held
    BY <1>0, <2>1, DeletionAtWork, DeletionIsNotHeld
  <2>3. receipts'[op] = new /\ \A e \in Deleters \ {op} : receipts'[e] = receipts[e]
    BY <1>0, <1>1, <1>4
  <2>4. /\ Reports'[op].status = "open" /\ Reports'[op].reason = student.reason
        /\ Reports' = [Reports EXCEPT ![op] = Reports'[op]]
    <3>1. Reports'[op] = [new EXCEPT !.status = "open"]
      BY <1>1, <2>3 DEF Reports, Report, Unfinished
    <3>2. \A e \in Deleters \ {op} : Reports'[e] = Reports[e]
      BY <2>3 DEF Reports, Report
    <3>3. Reports' = [Reports EXCEPT ![op] = Reports'[op]]
      BY <1>1, <3>2 DEF Reports
    <3>4. QED
      BY <1>1, <3>1, <3>3
  <2>5. Reports[op].status = "none"
    BY <1>0, <1>1, <1>4 DEF Reports, Report, Recorded, Receipts, Unfinished
  <2> HIDE DEF new
  <2>6. Contract!Report(op)
    BY <1>1, <1>2, <2>2, <2>4, <2>5, SameStudent
       DEF Contract!Report, Contract!account, Contract!content
  <2>7. QED
    BY <1>1, <2>6 DEF ContractStep, Contract!Next
<1>5. QED
  BY <1>3, <1>4 DEF RecordReceipt, Recorded

\* A collection is emptied under an open receipt; of a student who is gone there is nothing
\* left to delete.
LEMMA ContractSweep ==
    ASSUME ContractInvariant, NEW d \in Deleters, NEW c \in Collections, SweepRows(d, c)
    PROVE  ContractStep
<1>0. /\ rows \in Inventories
      /\ pc[d] \in Claimed /\ pc[d] \in DeletionStates /\ pc[d] \in OnReceipt
  BY DEF ContractInvariant, Types, DatabaseTypes, SweepRows, DeleteRows, Claimed,
     DeletionStates, OnReceipt
<1>1. UNCHANGED <<student, alias, receipts, armed>>
  BY DEF SweepRows, DeleteRows
<1>2. CASE rows' = rows
  BY <1>1, <1>2, ContractStutter DEF db
<1>3. CASE student.exists /\ rows' = [rows EXCEPT ![c] = {}]
  <2>1. Phase = "pending" /\ ~Held /\ work[d].op = student.op /\ student.op \in Deleters
    BY <1>0, <1>3, DeletionAtWork, DeletionIsNotHeld
  <2>2. Recorded(student.op)
    BY <1>0, <2>1 DEF ContractInvariant, AccountInvariant, WorksFor
  <2>3. Contract!Erase(c)
    BY <1>1, <1>3, <2>1, <2>2, OpenReport, SameStudent, SameReports
       DEF Contract!Erase, Contract!account
  <2>4. QED
    BY <2>3 DEF ContractStep, Contract!Next
<1>4. CASE ~student.exists /\ rows' = [rows EXCEPT ![c] = {}]
  BY <1>0, <1>2, <1>4 DEF ContractInvariant, DeletionInvariant, NoResurrection, NoRows,
     Inventories
<1>5. QED
  BY <1>2, <1>3, <1>4 DEF SweepRows, DeleteRows

\* The document goes when every collection is empty.
LEMMA ContractRemove ==
    ASSUME ContractInvariant, NEW d \in Deleters, RemoveStudent(d)
    PROVE  ContractStep
<1>0. /\ student \in Students
      /\ pc[d] \in Claimed /\ pc[d] \in DeletionStates /\ pc[d] \in OnReceipt
  BY DEF ContractInvariant, Types, DatabaseTypes, RemoveStudent, Claimed, DeletionStates,
     OnReceipt
<1>1. UNCHANGED <<alias, rows, receipts, armed>>
  BY DEF RemoveStudent
<1>2. CASE student' = student
  BY <1>1, <1>2, ContractStutter DEF db
<1>3. CASE student.exists /\ student' = [student EXCEPT !.exists = FALSE]
  <2>1. Phase = "pending" /\ ~Held /\ work[d].op = student.op /\ student.op \in Deleters
    BY <1>0, <1>3, DeletionAtWork, DeletionIsNotHeld
  <2>2. Recorded(student.op)
    BY <1>0, <2>1 DEF ContractInvariant, AccountInvariant, WorksFor
  <2>3. \A c \in Collections : rows[c] = {}
    BY DEF ContractInvariant, DeletionInvariant, DeletionsAreFenced, SweepHolds,
       RemoveStudent, NoRows
  <2>4. /\ Phase' = "gone" /\ Held' = FALSE
        /\ UNCHANGED <<student.active, student.expired, student.op, student.reason>>
    BY <1>0, <1>3 DEF Students, Phase, Held
  <2>5. Held' = Held
    BY <2>1, <2>4 DEF Held
  <2>6. Contract!Remove
    BY <1>1, <1>3, <2>1, <2>2, <2>3, <2>4, <2>5, OpenReport, SameReports
       DEF Contract!Remove, Contract!content
  <2>7. QED
    BY <2>6 DEF ContractStep, Contract!Next
<1>4. QED
  BY <1>2, <1>3 DEF RemoveStudent, Effect

LEMMA ContractDeletions ==
    ASSUME ContractInvariant, NEW d \in Deleters, DeletionStep(d)
    PROVE  ContractStep
<1>1. CASE \E c \in Collections : SweepRows(d, c)
  BY <1>1, ContractSweep
<1>2. CASE ReuseReceipt(d) \/ MarkNeedsRetry(d) \/ CompleteReceipt(d)
  <2>1. pc[d] \in Claimed /\ pc[d] \in OnReceipt
    BY <1>2 DEF ReuseReceipt, MarkNeedsRetry, CompleteReceipt, Claimed, OnReceipt
  <2>2. work[d].op \in Deleters /\ Recorded(work[d].op)
    BY <2>1, DeletionAtWork DEF ContractInvariant, AccountInvariant, WorksFor
  <2>3. UNCHANGED <<student, alias, rows, armed>>
    BY <1>2 DEF ReuseReceipt, MarkNeedsRetry, CompleteReceipt
  <2>4. CompleteReceipt(d) => ~student.exists
    BY DEF CompleteReceipt, ContractInvariant, DeletionInvariant, DeletionsAreFenced,
       FenceHolds
  <2>5. PICK status \in Statuses \ {"none"} :
          /\ status = "completed" => ~student.exists
          /\ receipts' = receipts \/ receipts' = WithStatus(work[d].op, status)
    BY <1>2, <2>4 DEF ReuseReceipt, MarkNeedsRetry, CompleteReceipt, Statuses
  <2>6. QED
    BY <2>2, <2>3, <2>5, ContractStatus
<1>3. CASE \/ EnterMutations(d) \/ VerifyHold(d) \/ Unpark(d) \/ ReadForDeletion(d)
           \/ ConsultReceipt(d) \/ RecheckReceipt(d)
           \/ \E c \in Collections : CountInventory(d, c)
  <2>1. UNCHANGED db
    BY <1>3 DEF EnterMutations, VerifyHold, Unpark, ReadForDeletion, ConsultReceipt,
       RecheckReceipt, CountInventory
  <2>2. QED
    BY <2>1, ContractStutter
<1>4. QED
  BY <1>1, <1>2, <1>3, ContractFirstFence, ContractSecondFence, ContractRecord, ContractRemove
     DEF DeletionStep

-----------------------------------------------------------------------------
(* The sweeper, and the hold.                                              *)

\* Of an orphan only the receipt moves.
LEMMA ContractSweeper ==
    ASSUME ContractInvariant, SweeperStep(Sweeper)
    PROVE  ContractStep
<1> DEFINE s == Sweeper
<1>0. s \in Deleters /\ work[s] \in Works /\ rows \in Inventories
  BY KindsAreRequests DEF ContractInvariant, Types, HandlerTypes, DatabaseTypes
<1>1. CASE PrepareOrphan(s) \/ CompleteOrphan(s) \/ RetryOrphan(s)
  <2>1. pc[s] \in OrphanStates /\ UNCHANGED <<student, alias, rows, armed>>
    BY <1>1 DEF PrepareOrphan, CompleteOrphan, UpdateOrphan, RetryOrphan, OrphanStates
  <2>2. work[s].op \in Deleters /\ Recorded(work[s].op)
    BY <1>0, <2>1 DEF ContractInvariant, AccountInvariant, WorksFor, OnReceipt, Works
  <2>3. ~student.exists
    BY <2>1 DEF ContractInvariant, HoldInvariant, OrphansHaveNoStudent
  <2>4. PICK status \in Statuses \ {"none"} :
          receipts' = receipts \/ receipts' = WithStatus(work[s].op, status)
    BY <1>1 DEF PrepareOrphan, CompleteOrphan, UpdateOrphan, RetryOrphan, Statuses
  <2>5. QED
    BY <2>1, <2>2, <2>3, <2>4, ContractStatus
<1>2. ASSUME NEW c \in Collections, SweepOrphan(s, c)
      PROVE  ContractStep
  <2>1. pc[s] \in OrphanStates /\ UNCHANGED <<student, alias, receipts, armed>>
    BY <1>2 DEF SweepOrphan, DeleteRows, OrphanStates
  <2>2. rows[c] = {}
    BY <2>1 DEF ContractInvariant, HoldInvariant, OrphansHaveNoStudent, DeletionInvariant,
       NoResurrection, NoRows
  <2>3. rows' = rows
    BY <1>0, <1>2, <2>2 DEF SweepOrphan, DeleteRows, Inventories
  <2>4. QED
    BY <2>1, <2>3, ContractStutter DEF db
<1>3. CASE BeginSweep(s) \/ CheckOrphan(s) \/ FindCandidate(s)
  <2>1. UNCHANGED db
    BY <1>3 DEF BeginSweep, CheckOrphan, FindCandidate
  <2>2. QED
    BY <2>1, ContractStutter
<1>4. QED
  BY <1>1, <1>2, <1>3 DEF SweeperStep

\* A deadline is given or taken.
LEMMA ContractSchedule ==
    ASSUME armed' \in BOOLEAN, armed' => ~Held, UNCHANGED <<student, alias, rows, receipts>>
    PROVE  ContractStep
<1>1. Contract!Schedule
  BY SameStudent, SameReports DEF Contract!Schedule, Contract!account, Contract!content
<1>2. QED
  BY <1>1 DEF ContractStep, Contract!Next

LEMMA ContractTransitions ==
    ASSUME ContractInvariant, NEW t \in Transitions, TransitionStep(t)
    PROVE  ContractStep
<1>0. /\ student \in Students /\ armed \in BOOLEAN /\ (Held => ~armed)
      /\ t \in Places /\ pc[t] = "flip" => ~armed
      /\ pc[t] \in {"settle", "catch-settle"} => ~Held
  BY DEF ContractInvariant, Types, DatabaseTypes, PurgeInvariant, HoldSuspendsPurge, Held,
     NotHeld
<1>1. CASE SuspendPurge(t) \/ CatchHeld(t)
  <2>1. /\ UNCHANGED <<student, alias, rows, receipts>>
        /\ armed' \in BOOLEAN /\ (armed' => armed)
    BY <1>1 DEF SuspendPurge, CatchHeld
  <2>2. QED
    BY <1>0, <2>1, ContractSchedule
<1>2. CASE SettleRelease(t) \/ CatchSettle(t)
  <2>1. /\ UNCHANGED <<student, alias, rows, receipts>>
        /\ armed' \in BOOLEAN /\ pc[t] \in {"settle", "catch-settle"}
    BY <1>0, <1>2 DEF SettleRelease, CatchSettle, SchedulePurge, Students
  <2>2. QED
    BY <1>0, <2>1, ContractSchedule
<1>3. CASE PlaceHold(t)
  <2>1. /\ pc[t] = "flip" /\ t \in Places /\ UNCHANGED <<alias, rows, receipts, armed>>
        /\ \/ student' = student
           \/ /\ student.exists /\ ~student.hold
              /\ student' = [student EXCEPT !.hold = TRUE]
    BY <1>3 DEF PlaceHold, Effect
  <2>2. CASE student' = student
    BY <2>1, <2>2, ContractStutter DEF db
  <2>3. CASE /\ student.exists /\ ~student.hold
             /\ student' = [student EXCEPT !.hold = TRUE]
    <3>1. /\ UNCHANGED <<Phase, student.active, student.expired, student.op, student.reason>>
          /\ Held' = TRUE /\ ~Held /\ Phase # "gone"
      BY <1>0, <2>3 DEF Students, Phase, Held
    <3>2. Contract!Hold
      BY <1>0, <2>1, <3>1, SameReports DEF Contract!Hold, Contract!account, Contract!content
    <3>3. QED
      BY <3>2 DEF ContractStep, Contract!Next
  <2>4. QED
    BY <2>1, <2>2, <2>3
<1>4. CASE ReleaseHold(t)
  <2>1. /\ UNCHANGED <<alias, rows, receipts, armed>>
        /\ \/ student' = student
           \/ /\ student.exists /\ student.hold
              /\ student' = [student EXCEPT !.hold = FALSE]
    BY <1>4 DEF ReleaseHold, Effect
  <2>2. CASE student' = student
    BY <2>1, <2>2, ContractStutter DEF db
  <2>3. CASE /\ student.exists /\ student.hold
             /\ student' = [student EXCEPT !.hold = FALSE]
    <3>1. /\ UNCHANGED <<Phase, student.active, student.expired, student.op, student.reason>>
          /\ Held' = FALSE /\ Held
      BY <1>0, <2>3 DEF Students, Phase, Held
    <3>2. Contract!Release
      BY <2>1, <3>1, SameReports DEF Contract!Release, Contract!account, Contract!content
    <3>3. QED
      BY <3>2 DEF ContractStep, Contract!Next
  <2>4. QED
    BY <2>1, <2>2, <2>3
<1>5. CASE BeginTransition(t) \/ Reread(t) \/ CatchTransition(t)
  <2>1. UNCHANGED db
    BY <1>5 DEF BeginTransition, Reread, CatchTransition
  <2>2. QED
    BY <2>1, ContractStutter
<1>6. QED
  BY <1>1, <1>2, <1>3, <1>4, <1>5 DEF TransitionStep

-----------------------------------------------------------------------------
(* The implementation.                                                     *)

\* Only a deletion under a receipt removes the student, and no receipt is lost.
LEMMA RemovalIsReported ==
    ASSUME Types, AccountInvariant, GoneIsReported, Next
    PROVE  GoneIsReported'
<1>0. student \in Students
  BY DEF Types, DatabaseTypes
<1>1. ASSUME NEW d \in Deleters, RemoveStudent(d), student'.exists # student.exists
      PROVE  GoneIsReported'
  <2>1. Recorded(work[d].op) /\ receipts' = receipts /\ work[d].op \in Deleters
    BY <1>1 DEF RemoveStudent, AccountInvariant, WorksFor, OnReceipt, Types, HandlerTypes, Works
  <2>2. QED
    BY <2>1 DEF GoneIsReported, Recorded
<1>2. CASE student'.exists = student.exists
  <2>1. ReceiptsKept
    <3>1. CASE receipts' = receipts
      BY <3>1 DEF ReceiptsKept, Recorded
    <3>2. CASE MarksKept
      BY <3>1, <3>2 DEF MarksKept
    <3>3. QED
      BY <3>2, OthersKeepMarks, DeletionAgrees, SweeperKeeps DEF Keeps
  <2>2. QED
    BY <1>2, <2>1 DEF GoneIsReported, ReceiptsKept
<1>3. CASE \E d \in Deleters : DeletionStep(d)
  <2>1. PICK d \in Deleters : DeletionStep(d)
    BY <1>3
  <2>2. CASE RemoveStudent(d)
    BY <1>1, <1>2, <2>2
  <2>3. CASE student' = student
    BY <1>2, <2>3
  <2>4. CASE FirstFence(d) \/ SecondFence(d)
    <3>1. student'.exists = student.exists
      BY <1>0, <2>4 DEF FirstFence, SecondFence, Effect, Students
    <3>2. QED
      BY <1>2, <3>1
  <2>5. QED
    BY <2>1, <2>2, <2>3, <2>4, ReadingChangesNothing DEF DeletionStep, Reading, ReuseReceipt,
       RecordReceipt, MarkNeedsRetry, CompleteReceipt
<1>4. CASE \E r \in Leasers \cup SignIns : WriterStep(r)
  <2>1. PICK r \in Leasers \cup SignIns : WriterStep(r)
    BY <1>4
  <2>2. CASE student' = student
    BY <1>2, <2>2
  <2>3. CASE CorrectUsername(r) \/ ChangeAccount(r) \/ FinishSignIn(r)
    <3>1. student'.exists = student.exists
      BY <1>0, <2>3 DEF CorrectUsername, ChangeAccount, FinishSignIn, Effect, Students
    <3>2. QED
      BY <1>2, <3>1
  <2>4. QED
    BY <2>1, <2>2, <2>3 DEF WriterStep, Authenticate, EnterWrites, EnterBoth, VerifyHold,
       Unpark, CreateProject, ReserveQuota, LoadManagedStudent, CreateReview, LoadForConnect,
       CreateAttempt, WithdrawAttempt, LoadAccount, BeginSignIn, db
<1>5. CASE \E t \in Transitions : TransitionStep(t)
  <2>1. PICK t \in Transitions : TransitionStep(t)
    BY <1>5
  <2>2. CASE student' = student
    BY <1>2, <2>2
  <2>3. CASE PlaceHold(t) \/ ReleaseHold(t)
    <3>1. student'.exists = student.exists
      BY <1>0, <2>3 DEF PlaceHold, ReleaseHold, Effect, Students
    <3>2. QED
      BY <1>2, <3>1
  <2>4. QED
    BY <2>1, <2>2, <2>3 DEF TransitionStep, BeginTransition, SuspendPurge, Reread,
       SettleRelease, CatchTransition, CatchHeld, CatchSettle, db
<1>6. CASE SweeperStep(Sweeper)
  <2>1. student' = student
    BY <1>6 DEF SweeperStep, BeginSweep, CheckOrphan, PrepareOrphan, SweepOrphan,
       CompleteOrphan, UpdateOrphan, DeleteRows, RetryOrphan, FindCandidate, db
  <2>2. QED
    BY <1>2, <2>1
<1>7. CASE Expire \/ Crash
  <2>1. student'.exists = student.exists
    BY <1>0, <1>7 DEF Expire, Crash, db, Students
  <2>2. QED
    BY <1>2, <2>1
<1>8. QED
  BY <1>3, <1>4, <1>5, <1>6, <1>7 DEF Next

LEMMA ContractNext ==
    ASSUME ContractInvariant, Next
    PROVE  ContractStep
<1>1. CASE Expire
  <2>1. student \in Students
    BY DEF ContractInvariant, Types, DatabaseTypes
  <2>2. /\ UNCHANGED <<Phase, Held, student.active, student.op, student.reason>>
        /\ student'.expired = TRUE /\ Phase # "gone"
    BY <1>1, <2>1 DEF Expire, Students, Phase, Held
  <2>3. Contract!Lapse
    BY <1>1, <2>2, SameReports DEF Expire, Contract!Lapse, Contract!content
  <2>4. QED
    BY <2>3 DEF ContractStep, Contract!Next
<1>2. CASE Crash
  BY <1>2, ContractStutter DEF Crash
<1>3. QED
  BY <1>1, <1>2, ContractWriters, ContractDeletions, ContractSweeper, ContractTransitions
     DEF Next

\* Handlers, gates, fences, retries, sweeps and restarts together implement the contract of
\* one student's records, for any requests, failures and crashes.
THEOREM RecordsKeepContract == Spec => KeepsContract
<1>1. Init => GoneIsReported
  BY DEF Init, GoneIsReported
<1>2. Types /\ AccountInvariant /\ GoneIsReported /\ [Next]_vars => GoneIsReported'
  <2>1. CASE UNCHANGED vars
    BY <2>1 DEF vars, db, GoneIsReported, Recorded
  <2>2. QED
    BY <2>1, RemovalIsReported
<1>3. Spec => []GoneIsReported
  BY <1>1, <1>2, AccountIsInvariant, PTL DEF Spec
<1>4. Spec => []ContractInvariant
  BY <1>3, AccountIsInvariant, DeletionIsInvariant, PurgeIsInvariant, PTL
     DEF ContractInvariant
<1>5. ContractInvariant /\ [Next]_vars => [Contract!Next]_(Contract!vars)
  <2>1. CASE UNCHANGED vars
    BY <2>1, ContractStutter DEF vars, ContractStep
  <2>2. QED
    BY <2>1, ContractNext DEF ContractStep
<1>6. QED
  BY <1>4, <1>5, ContractInit, PTL DEF Spec, KeepsContract, Contract!Spec
=============================================================================
