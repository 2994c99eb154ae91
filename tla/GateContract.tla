---------------------------- MODULE GateContract ----------------------------
(***************************************************************************)
(* What the two per-student barriers of back-end/src/security promise to   *)
(* the handlers behind them, without saying how:                           *)
(*                                                                         *)
(*   - a request enters only while the gate is open;                       *)
(*   - a closer shuts the gate, and goes on only once every request that   *)
(*     entered before it shut the gate has left;                           *)
(*   - the gate opens again only by an explicit reopening, which no closer *)
(*     is waiting through.                                                 *)
(*                                                                         *)
(* StudentRecords uses the gates at this level; LeaseGate implements it.   *)
(***************************************************************************)
CONSTANTS
    Requests,   \* calls that may hold a lease
    Closers     \* calls that shut the gate and wait for it to drain

VARIABLES
    open,       \* whether a new request may enter
    holders,    \* the requests inside
    pending,    \* the closers that shut the gate and have not gone on
    passed      \* the closers that went on since the gate was last opened

vars == <<open, holders, pending, passed>>

TypeOK ==
    /\ open \in BOOLEAN
    /\ holders \subseteq Requests
    /\ pending \subseteq Closers
    /\ passed \subseteq Closers

Init ==
    /\ open = TRUE
    /\ holders = {}
    /\ pending = {}
    /\ passed = {}

Enter(r) ==
    /\ open
    /\ r \notin holders
    /\ holders' = holders \cup {r}
    /\ UNCHANGED <<open, pending, passed>>

Leave(r) ==
    /\ r \in holders
    /\ holders' = holders \ {r}
    /\ UNCHANGED <<open, pending, passed>>

Shut(c) ==
    /\ c \notin pending \cup passed
    /\ open' = FALSE
    /\ pending' = pending \cup {c}
    /\ UNCHANGED <<holders, passed>>

Pass(c) ==
    /\ c \in pending
    /\ ~open
    /\ holders = {}
    /\ pending' = pending \ {c}
    /\ passed' = passed \cup {c}
    /\ UNCHANGED <<open, holders>>

Open ==
    /\ pending = {}
    /\ open' = TRUE
    /\ passed' = {}
    /\ UNCHANGED <<holders, pending>>

Next ==
    \/ \E r \in Requests : Enter(r) \/ Leave(r)
    \/ \E c \in Closers : Shut(c) \/ Pass(c)
    \/ Open

Spec == Init /\ [][Next]_vars
=============================================================================
