------------------------------- MODULE PondRooms -------------------------------
(* The classroom races of Pond Paddlers (services/pondPaddlersRooms.ts and the routes of
   routes/pondPaddlersRoutes.ts): rooms in the memory of the process, seats known by a
   cookie, event streams of the seats' browser windows.

   A handler runs without a pause, so that it is one step; what interleaves is requests of
   several windows, also old and repeated ones, the clock, and streams that slow down or go.
   A handler that looks a room up first closes every room past its time. Seats and question
   ids are random tokens in the code and are never drawn twice. *)
EXTENDS Naturals, FiniteSets
CONSTANTS
    RoomCodes, Seats, Streams,
    FinishAt,           \* right answers that win
    MaxRooms,           \* MAX_ACTIVE_ROOMS
    MaxPlayers,         \* MAX_POND_PADDLERS_PLAYERS
    MaxStreams          \* MAX_STREAMS_PER_SEAT

ASSUME PondAssumption == FinishAt \in Nat \ {0}
ASSUME StreamsAreLimited == IsFiniteSet(Streams) /\ MaxStreams \in Nat

VARIABLES
    room,       \* [RoomCodes -> room]
    stream      \* [Streams -> event response]
pondVars == <<room, stream>>

\* A player holds the number of its question, 0 for a seat that is not in the room; `solved`
\* is history: the questions it answered correctly.
NoPlayer == [progress |-> 0, question |-> 0, solved |-> {}]
NewPlayer == [NoPlayer EXCEPT !.question = 1]
NoRoom == [status |-> "none", due |-> FALSE, players |-> [s \in Seats |-> NoPlayer]]
Players(r) == {s \in Seats : r.players[s].question # 0}

\* publicState
PublicState(r) == [status |-> r.status, progress |-> [s \in Players(r) |-> r.players[s].progress]]

\* `listed` is membership of the player's subscribers; `seen` is the last state written to an
\* open response.
NoStream == [response |-> "none", code |-> "none", seat |-> "none", listed |-> FALSE,
             seen |-> "nothing"]

PondInit ==
    /\ room = [c \in RoomCodes |-> NoRoom]
    /\ stream = [t \in Streams |-> NoStream]

-----------------------------------------------------------------------------
\* notifySubscribers and the subscriber of the events route: an ended response takes no more;
\* one that cannot take the write at once (slow) or takes the last state ends. After a last
\* state no subscriber stays listed.
Notify(streams, codes, state, last, slow) ==
    [t \in Streams |->
        IF ~streams[t].listed \/ streams[t].code \notin codes THEN streams[t]
        ELSE [streams[t] EXCEPT
                 !.listed = ~last,
                 !.response = IF last \/ t \in slow THEN "ended" ELSE @,
                 !.seen = IF last \/ t \in slow \/ streams[t].response = "ended"
                          THEN "nothing" ELSE state]]

\* closeRoom: a map entry less, and "closed" as the last state of its streams.
Close(codes) == [c \in RoomCodes |-> IF c \in codes THEN NoRoom ELSE room[c]]
CloseStreams(codes) == Notify(stream, codes, "closed", TRUE, {})

\* removeExpiredRooms, in front of every handler that looks rooms up.
Due == {c \in RoomCodes : room[c].due}
Rooms == Close(Due)
Listening == CloseStreams(Due)
Put(c, r) == room' = [Rooms EXCEPT ![c] = r]

\* Mutant: the streams of a finished race are kept.
BroadcastNeverLast(c, r) == \E slow \in SUBSET Streams :
    stream' = Notify(Listening, {c}, PublicState(r), FALSE, slow)

\* broadcast: only a finished race has a last state.
Broadcast(c, r) == \E slow \in SUBSET Streams :
    stream' = Notify(Listening, {c}, PublicState(r), r.status = "finished", slow)

-----------------------------------------------------------------------------
\* A room stays open for its duration; the timer or the next handler finds it due.
TimePasses(c) ==
    /\ room[c].status # "none" /\ ~room[c].due
    /\ room' = [room EXCEPT ![c].due = TRUE]
    /\ UNCHANGED stream

\* closeRoom by the teacher or by the room's timer.
CloseRoom(c) ==
    /\ room[c].status # "none"
    /\ room' = Close({c})
    /\ stream' = CloseStreams({c})

\* listRooms, resumeRoom, and every handler that throws: only due rooms go.
LookUp == room' = Rooms /\ stream' = Listening

CreateRoom(c) ==
    /\ Cardinality({d \in RoomCodes : Rooms[d].status # "none"}) < MaxRooms
    /\ Rooms[c].status = "none"
    /\ Put(c, [NoRoom EXCEPT !.status = "waiting"])
    /\ stream' = Listening

StartRoom(c) == LET r == [Rooms[c] EXCEPT !.status = "racing"] IN
    /\ Rooms[c].status = "waiting"
    /\ Players(Rooms[c]) # {}
    /\ Put(c, r)
    /\ Broadcast(c, r)

\* joinRoom without a seat in this room; with one it is LookUp.
JoinRoom(c, s) == LET r == [Rooms[c] EXCEPT !.players[s] = NewPlayer] IN
    /\ Rooms[c].status = "waiting"
    /\ Cardinality(Players(Rooms[c])) < MaxPlayers
    /\ \A d \in RoomCodes : s \notin Players(Rooms[d])
    /\ Put(c, r)
    /\ Broadcast(c, r)

\* Mutant: an answer to an earlier question of the player counts too.
CurrentOrOld(r, s, q) == q \in 1..r.players[s].question

\* The question must still be the player's: answers come from several windows and again.
Current(r, s, q) == r.players[s].question = q

\* A right answer: a step ahead, then the end of the race or another question.
Ahead(r, s, q) == LET p == r.players[s] IN
    IF p.progress + 1 >= FinishAt
    THEN [r EXCEPT !.status = "finished",
                   !.players[s] = [p EXCEPT !.progress = @ + 1, !.solved = @ \cup {q}]]
    ELSE [r EXCEPT !.players[s] = [progress |-> p.progress + 1, question |-> p.question + 1,
                                   solved |-> p.solved \cup {q}]]

\* answerQuestion with the right answer; a wrong one is LookUp.
AnswerQuestion(c, s, q) == LET r == Ahead(Rooms[c], s, q) IN
    /\ Rooms[c].status = "racing"
    /\ s \in Players(Rooms[c])
    /\ Current(Rooms[c], s, q)
    /\ Put(c, r)
    /\ Broadcast(c, r)

\* The events route. The first state may end the response (finished, or a slow client), and
\* then the route unsubscribes at once; the slot in Streams is free again.
Subscribe(t, c, s) ==
    /\ Listening[t].response = "none"
    /\ s \in Players(Rooms[c])
    /\ Rooms[c].status # "finished"
    /\ Cardinality({u \in Streams : /\ Listening[u].listed
                                    /\ Listening[u].code = c
                                    /\ Listening[u].seat = s}) < MaxStreams
    /\ room' = Rooms
    /\ stream' = [Listening EXCEPT ![t] = [response |-> "open", code |-> c, seat |-> s,
                                           listed |-> TRUE, seen |-> PublicState(Rooms[c])]]

\* A heartbeat meets a full buffer: the response ends, its listener stays until it closes.
HeartbeatEnds(t) ==
    /\ stream[t].response = "open"
    /\ stream' = [stream EXCEPT ![t].response = "ended", ![t].seen = "nothing"]
    /\ UNCHANGED room

\* "close" of the request or the response: cleanup unsubscribes.
StreamCloses(t) ==
    /\ stream[t].response # "none"
    /\ stream' = [stream EXCEPT ![t] = NoStream]
    /\ UNCHANGED room

RoomStep(c) ==
    \/ TimePasses(c) \/ CloseRoom(c) \/ CreateRoom(c) \/ StartRoom(c)
    \/ \E s \in Seats : JoinRoom(c, s) \/ \E q \in 1..FinishAt : AnswerQuestion(c, s, q)

StreamStep(t) ==
    \/ HeartbeatEnds(t) \/ StreamCloses(t)
    \/ \E c \in RoomCodes, s \in Seats : Subscribe(t, c, s)

PondNext == LookUp \/ (\E c \in RoomCodes : RoomStep(c)) \/ (\E t \in Streams : StreamStep(t))
PondSpec == PondInit /\ [][PondNext]_pondVars

-----------------------------------------------------------------------------
\* A player is as far ahead as the questions it answered correctly, each counted once however
\* often and from however many windows it was answered; the race is over when, and only when,
\* a player has all it needs, and then exactly one has (answerQuestion, joinRoom, startRoom).
FairRoom(r) ==
    /\ \A s \in Seats : /\ r.players[s].progress = Cardinality(r.players[s].solved)
                        /\ r.players[s].progress <= FinishAt
    /\ r.status = "finished" <=> \E s \in Seats : r.players[s].progress = FinishAt
    /\ \A s, o \in Seats :
          r.players[s].progress = FinishAt /\ r.players[o].progress = FinishAt => s = o
RaceIsFair == \A c \in RoomCodes : FairRoom(room[c])

\* An open event stream belongs to a player of a room that is still waiting or racing and has
\* been written the room's present state; none is left open, or listed, when its race is over
\* or its room is gone; a seat never has more windows listening than allowed.
StreamsAreCurrent ==
    /\ \A t \in Streams :
          /\ stream[t].response = "open" => /\ stream[t].listed
                                            /\ stream[t].seen = PublicState(room[stream[t].code])
          /\ stream[t].listed => /\ room[stream[t].code].status \in {"waiting", "racing"}
                                 /\ stream[t].seat \in Players(room[stream[t].code])
    /\ \A c \in RoomCodes, s \in Seats :
          Cardinality({t \in Streams : /\ stream[t].listed
                                       /\ stream[t].code = c
                                       /\ stream[t].seat = s}) <= MaxStreams
=============================================================================
