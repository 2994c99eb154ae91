---------------------------- MODULE ProjectPayload ----------------------------
(* The memory budget of project uploads (middleware/projectPayload.ts): a request passes
   the guard, is parsed, claims its reservation and reaches a handler that owns the slot to
   its end. Until the handler owns it, the end of the response or of the connection gives
   the slot back; both can happen between any two of those steps.

   Each upload is one HTTP request. The declared size decides once whether it is heavy. *)
EXTENDS Integers, FiniteSets
CONSTANTS
    Uploads, Callers,
    HeavyLimit, HeavyEach,      \* globalLimit, perIdentityLimit
    NormalLimit, NormalEach     \* normalGlobalLimit, normalPerIdentityLimit

ASSUME PayloadAssumption ==
    /\ IsFiniteSet(Uploads)
    /\ {HeavyLimit, HeavyEach, NormalLimit, NormalEach} \subseteq Nat

VARIABLES
    upload,     \* [Uploads -> the request, its reservation and its connection]
    total,      \* [kind -> slots taken]: activeHeavyTotal, activeNormalTotal
    taken       \* [Callers -> [kind -> slots taken]]: activeByIdentity
payloadVars == <<upload, total, taken>>

Kinds == {"heavy", "normal"}
NoSlots == [k \in Kinds |-> 0]

\* `closed` is the flag projectPayloadTransportClosed reads; `told` is that the listeners of
\* "aborted", "close" and "finish" have been called.
NewUpload == [at |-> "coming", identity |-> CHOOSE i \in Callers : TRUE, kind |-> "normal",
              reservation |-> "none", closed |-> FALSE, told |-> FALSE]

PayloadInit ==
    /\ upload = [u \in Uploads |-> NewUpload]
    /\ total = NoSlots
    /\ taken = [i \in Callers |-> NoSlots]

\* A request on its way from one step of the handler chain to another.
Move(u, from, to) == upload[u].at = from /\ upload' = [upload EXCEPT ![u].at = to]

\* The three conditions of the guard: the tier, the identity's other uploads, its own tier.
Admits(i, k) ==
    IF k = "heavy"
    THEN total["heavy"] < HeavyLimit /\ taken[i]["heavy"] + taken[i]["normal"] < HeavyEach
    ELSE /\ total["normal"] < NormalLimit
         /\ taken[i]["heavy"] = 0
         /\ taken[i]["normal"] < NormalEach

\* createProjectPayloadConcurrencyGuard; a rejected upload is answered and has no reservation.
Guard(u) == \E i \in Callers, k \in Kinds :
    /\ upload[u].at = "coming"
    /\ \/ /\ upload[u].closed
          /\ upload' = [upload EXCEPT ![u].at = "stopped"]
          /\ UNCHANGED <<total, taken>>
       \/ /\ ~upload[u].closed /\ ~Admits(i, k)
          /\ upload' = [upload EXCEPT ![u].at = "answered", ![u].closed = TRUE]
          /\ UNCHANGED <<total, taken>>
       \/ /\ ~upload[u].closed /\ Admits(i, k)
          /\ upload' = [upload EXCEPT ![u].at = "parsing", ![u].identity = i, ![u].kind = k,
                                      ![u].reservation = "available"]
          /\ total' = [total EXCEPT ![k] = @ + 1]
          /\ taken' = [taken EXCEPT ![i][k] = @ + 1]

\* releaseSlot: an identity without slots leaves the map.
ReleaseSlot(u) == LET k == upload[u].kind  i == upload[u].identity IN
    /\ total' = [total EXCEPT ![k] = @ - 1]
    /\ taken' = [taken EXCEPT ![i][k] = @ - 1]

\* Mutant: once claimed, nobody gives the slot back before the handler owns it.
FallbackBeforeClaim == {"available"}

\* releaseBeforeOwnership does nothing for an owned or a released reservation.
Fallback == {"available", "claimed"}
ReleaseBeforeOwnership(u, at, told) ==
    IF upload[u].reservation \in Fallback
    THEN /\ upload' = [upload EXCEPT ![u].at = at, ![u].told = told,
                                     ![u].reservation = "released"]
         /\ ReleaseSlot(u)
    ELSE /\ upload' = [upload EXCEPT ![u].at = at, ![u].told = told]
         /\ UNCHANGED <<total, taken>>

\* The body is read, too large, no JSON, or cut off: the error handler ends the response.
Parsed(u) == Move(u, "parsing", "parsed") /\ UNCHANGED <<total, taken>>
ParseFails(u) ==
    /\ upload[u].at = "parsing"
    /\ upload' = [upload EXCEPT ![u].at = "answered", ![u].closed = TRUE]
    /\ UNCHANGED <<total, taken>>

\* claimProjectPayloadReservation, in front of the routes.
ClaimReservation(u) ==
    /\ upload[u].at = "parsed"
    /\ \/ /\ upload[u].closed
          /\ ReleaseBeforeOwnership(u, "stopped", upload[u].told)
       \/ /\ ~upload[u].closed
          /\ IF upload[u].reservation = "available"
             THEN upload' = [upload EXCEPT ![u].at = "routed", ![u].reservation = "claimed"]
             ELSE upload' = [upload EXCEPT ![u].at = "stopped"]
          /\ UNCHANGED <<total, taken>>

\* No route matches, or a middleware between the claim and the handler ends the response.
AnswerBefore(u) ==
    /\ upload[u].at = "routed"
    /\ upload' = [upload EXCEPT ![u].at = "answered", ![u].closed = TRUE]
    /\ UNCHANGED <<total, taken>>

\* takeOwnership, in front of the handler.
TakeOwnership(u) ==
    /\ upload[u].at = "routed"
    /\ \/ /\ upload[u].closed
          /\ ReleaseBeforeOwnership(u, "stopped", upload[u].told)
       \/ /\ ~upload[u].closed
          /\ IF upload[u].reservation = "claimed"
             THEN upload' = [upload EXCEPT ![u].at = "handler", ![u].reservation = "owned"]
             ELSE upload' = [upload EXCEPT ![u].at = "stopped"]
          /\ UNCHANGED <<total, taken>>

\* The handler ends, with an answer or an exception, and its finally block gives the slot back.
HandlerEnds(u) ==
    /\ upload[u].at = "handler"
    /\ upload' = [upload EXCEPT ![u].at = "answered", ![u].closed = TRUE,
                                ![u].reservation = "released"]
    /\ ReleaseSlot(u)

\* The client goes away at any time; the events are delivered in a later step, once.
Disconnect(u) ==
    /\ ~upload[u].closed
    /\ upload' = [upload EXCEPT ![u].closed = TRUE]
    /\ UNCHANGED <<total, taken>>

Tell(u) ==
    /\ upload[u].closed /\ ~upload[u].told
    /\ ReleaseBeforeOwnership(u, upload[u].at, TRUE)

UploadStep(u) ==
    \/ Guard(u) \/ Parsed(u) \/ ParseFails(u) \/ ClaimReservation(u) \/ AnswerBefore(u)
    \/ TakeOwnership(u) \/ HandlerEnds(u) \/ Disconnect(u) \/ Tell(u)

PayloadNext == \E u \in Uploads : UploadStep(u)
PayloadSpec == PayloadInit /\ [][PayloadNext]_payloadVars

-----------------------------------------------------------------------------
Holding == {u \in Uploads : upload[u].reservation \in {"available", "claimed", "owned"}}
HoldingKind(k) == {u \in Holding : upload[u].kind = k}
HoldingOf(i, k) == {u \in HoldingKind(k) : upload[u].identity = i}

\* The counters say how many uploads hold a slot, in all and per identity; they stay within
\* the limits, also while a heavy upload shares its identity with normal ones; a project
\* handler runs only while its upload holds a slot, whatever became of the client; and an
\* upload that has gone and been heard to go holds none.
SlotsAreAccounted ==
    /\ \A k \in Kinds :
          /\ total[k] = Cardinality(HoldingKind(k))
          /\ \A i \in Callers : taken[i][k] = Cardinality(HoldingOf(i, k))
    /\ total["heavy"] <= HeavyLimit /\ total["normal"] <= NormalLimit
    /\ \A i \in Callers :
          IF taken[i]["heavy"] > 0
          THEN taken[i]["heavy"] + taken[i]["normal"] <= HeavyEach
          ELSE taken[i]["normal"] <= NormalEach
    /\ \A u \in Uploads :
          /\ upload[u].at = "handler" => u \in Holding
          /\ upload[u].told /\ upload[u].at # "handler" => u \notin Holding
=============================================================================
