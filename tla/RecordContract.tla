--------------------------- MODULE RecordContract ---------------------------
(***************************************************************************)
(* What the API promises about one student's records, without saying who   *)
(* keeps the promise: no gates, leases, fences, retries or crashes.        *)
(*                                                                         *)
(*   - an account is open, pending deletion, or gone, in that order, and   *)
(*     is claimed once, for one operation and one reason;                  *)
(*   - rows are added while there is an account, and are deleted only when *)
(*     it is pending and its deletion has been reported;                   *)
(*   - it goes when nothing is left, and its report is completed after;    *)
(*   - while it is held only its access and its link attempts change.      *)
(*                                                                         *)
(* StudentRecords implements it.                                           *)
(***************************************************************************)
CONSTANTS
    Operations,    \* deletion operations, one for each request that may begin one
    NoOp,          \* no operation
    Collections,   \* the child collections
    RowIds         \* rows, and the writers of the username

VARIABLES
    phase,         \* "open", "pending" or "gone"
    enabled,       \* the account is active
    expired,       \* its retention deadline has passed
    operation,     \* the operation that claimed it
    reason,        \* why
    reports,       \* the receipt of each operation
    held,          \* the preservation hold is in place
    deadlines,     \* tombstones have a purge deadline
    alias,         \* who wrote the username
    rows           \* the child rows

account == <<phase, enabled, expired, operation, reason>>
content == <<alias, rows>>
vars    == <<account, reports, held, deadlines, content>>

Init ==
    /\ phase = "open" /\ enabled = TRUE /\ expired = FALSE
    /\ operation = NoOp /\ reason = "none"
    /\ \A op \in Operations : reports[op].status = "none"
    /\ held = FALSE /\ deadlines = TRUE
    /\ alias \in RowIds
    /\ rows \in [Collections -> SUBSET RowIds]

-----------------------------------------------------------------------------
(* The account and what it owns.                                           *)

\* A request stores a row.  One that entered before the deletion's fence may do so while the
\* account is pending; under a hold only a link attempt is stored.
Store(c, r) ==
    /\ phase # "gone"
    /\ held => c = "oauth"
    /\ rows' = [rows EXCEPT ![c] = @ \cup {r}]
    /\ UNCHANGED <<account, reports, held, deadlines, alias>>

\* A failed provider link takes its attempt back.
Withdraw(c, r) ==
    /\ phase # "gone"
    /\ c = "oauth"
    /\ rows' = [rows EXCEPT ![c] = @ \ {r}]
    /\ UNCHANGED <<account, reports, held, deadlines, alias>>

Rename(r) ==
    /\ phase = "open" /\ ~held
    /\ alias' = r
    /\ UNCHANGED <<account, reports, held, deadlines, rows>>

\* The account is enabled or disabled; an expired one is not enabled.
ChangeAccess ==
    /\ phase = "open"
    /\ enabled' \in BOOLEAN
    /\ enabled' => ~expired
    /\ UNCHANGED <<phase, expired, operation, reason, reports, held, deadlines, content>>

\* A sign-in renews the retention deadline, which passes otherwise.
Renew ==
    /\ phase = "open" /\ enabled
    /\ expired' = FALSE
    /\ UNCHANGED <<phase, enabled, operation, reason, reports, held, deadlines, content>>

Lapse ==
    /\ phase # "gone"
    /\ expired' = TRUE
    /\ UNCHANGED <<phase, enabled, operation, reason, reports, held, deadlines, content>>

-----------------------------------------------------------------------------
(* The deletion.                                                           *)

\* A deletion claims the account; the automatic one only if the deadline has passed.
Claim(op, why) ==
    /\ phase = "open" /\ ~held
    /\ why = "retention-expiry" => expired
    /\ phase' = "pending" /\ enabled' = FALSE
    /\ operation' = op /\ reason' = why
    /\ UNCHANGED <<expired, reports, held, deadlines, content>>

\* The receipt is stored once, with the reason of the claim and the inventory.
Report(op) ==
    /\ phase = "pending" /\ ~held
    /\ op = operation /\ reports[op].status = "none"
    /\ reports'[op].status = "open" /\ reports'[op].reason = reason
    /\ reports' = [reports EXCEPT ![op] = reports'[op]]
    /\ UNCHANGED <<account, held, deadlines, content>>

\* The rows of a collection are deleted, under a receipt that is open.
Erase(c) ==
    /\ phase = "pending" /\ ~held
    /\ reports[operation].status = "open"
    /\ rows' = [rows EXCEPT ![c] = {}]
    /\ UNCHANGED <<account, reports, held, deadlines, alias>>

\* The document goes when no row is left.
Remove ==
    /\ phase = "pending" /\ ~held
    /\ reports[operation].status = "open"
    /\ \A c \in Collections : rows[c] = {}
    /\ phase' = "gone"
    /\ UNCHANGED <<enabled, expired, operation, reason, reports, held, deadlines, content>>

\* The receipt is completed once the student is gone.  A late mark of an overtaken deletion
\* opens it again; reason and inventory stay.
Settle(op) ==
    /\ phase = "gone"
    /\ op = operation /\ reports[op].status # "none"
    /\ \E status \in {"open", "completed"} :
         reports' = [reports EXCEPT ![op].status = status]
    /\ UNCHANGED <<account, held, deadlines, content>>

-----------------------------------------------------------------------------
(* The hold.                                                               *)

\* A record is held only when its tombstones have no deadline, and gets none while it is.
Hold ==
    /\ phase # "gone" /\ ~held /\ ~deadlines
    /\ held' = TRUE
    /\ UNCHANGED <<account, reports, deadlines, content>>

Release ==
    /\ held
    /\ held' = FALSE
    /\ UNCHANGED <<account, reports, deadlines, content>>

Schedule ==
    /\ deadlines' \in BOOLEAN
    /\ deadlines' => ~held
    /\ UNCHANGED <<account, reports, held, content>>

Next ==
    \/ \E c \in Collections, r \in RowIds : Store(c, r) \/ Withdraw(c, r)
    \/ \E r \in RowIds : Rename(r)
    \/ ChangeAccess \/ Renew \/ Lapse
    \/ \E op \in Operations : Report(op) \/ Settle(op)
    \/ \E op \in Operations, why \in {"julio-request", "retention-expiry"} : Claim(op, why)
    \/ \E c \in Collections : Erase(c)
    \/ Remove
    \/ Hold \/ Release \/ Schedule

Spec == Init /\ [][Next]_vars
=============================================================================
