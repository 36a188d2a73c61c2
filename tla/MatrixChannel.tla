--------------------------- MODULE MatrixChannel ---------------------------
(***************************************************************************)
(* The Matrix listener (matrix/monitor.py, handler.py, inbound_dedupe.py,  *)
(* room_sessions.py): what becomes of each room event, and which session   *)
(* each room talks to, while rooms give commands, the process stops and    *)
(* starts, and the homeserver delivers old events again.  The same agent's *)
(* command-line session shares the registry of sessions (session/store.py) *)
(* with the rooms.                                                         *)
(***************************************************************************)
EXTENDS Naturals, Sequences, FiniteSets

CONSTANTS
    Events,      \* room events
    Rooms,
    CommandLine, \* the other one who talks to the agent
    MaxSessions, \* bound: session ids ever made
    MaxStops,    \* bound: crashes and shutdowns
    MaxReplays,  \* bound: syncs that go back
    Overlap      \* the client starts a callback before the last one has returned

MatrixAssumption == /\ {MaxSessions, MaxStops, MaxReplays} \subseteq Nat
                    /\ MaxSessions > 0
                    /\ Overlap \in BOOLEAN
                    /\ CommandLine \notin Rooms

Sessions  == 1..MaxSessions
Unbound == 0
\* ignored: the bot's own, from a sender or a room that is not allowed,
\* without the mention a room asks for, or over the rate limit.
Kinds     == {"chat", "new", "session", "ignored"}
InFlight  == {"admitted", "bound", "resolved", "rebinding", "running"}
NotPosted == [room |-> CommandLine, kind |-> "none"]

VARIABLES
    timeline,  \* the events of the rooms, in the order the homeserver has them
    event,     \* room and kind of each
    cursor,    \* how many of them this process has been given
    phase,     \* of the listener: "down" with its process, or "dead" before it
    wired,     \* minion.py has a session factory for the agent
    seen,      \* the table seen_events
    aged,      \* those older than a day
    rows,      \* the table room_sessions
    writes,    \* rebinds on their way to it, in order
    live,      \* the session of each room's AgentSession, once it is built
    repl,      \* the session of the command line
    stored,    \* sessions.json: the agent's session
    owner,     \* history: for whom each session was made
    at,        \* where the callback of each event is
    mine,      \* its local session_id
    runs,      \* history: turns and commands run for each event
    forgotten, \* history: times an event was pruned from seen_events
    renewed,   \* history: rooms that gave /new
    chosen,    \* history: rooms that gave /session
    stops,
    replays

server  == <<timeline, event>>
ids     == <<rows, writes, live, repl, stored, owner, renewed, chosen>>
bounds  == <<stops, replays>>
vars    == <<timeline, event, cursor, phase, wired, seen, aged, rows, writes, live, repl,
             stored, owner, at, mine, runs, forgotten, renewed, chosen, stops, replays>>

Init ==
    /\ timeline = <<>> /\ event = [e \in Events |-> NotPosted]
    /\ cursor = 0 /\ phase = "listening" /\ wired \in BOOLEAN
    /\ seen = {} /\ aged = {}
    /\ rows = [r \in Rooms |-> Unbound] /\ live = rows
    /\ writes = <<>>
    /\ owner = <<CommandLine>> /\ repl = 1 /\ stored = 1
    /\ at = [e \in Events |-> "none"]
    /\ mine = [e \in Events |-> Unbound]
    /\ runs = [e \in Events |-> 0] /\ forgotten = runs
    /\ renewed = {} /\ chosen = {}
    /\ stops = 0 /\ replays = 0

RoomOf(e) == event[e].room
KindOf(e) == event[e].kind
Move(e, place) == at' = [at EXCEPT ![e] = place]
made == Len(owner)
Fresh == made + 1
\* A new session id, made for a room or for the command line.
Make(who) == made < MaxSessions /\ owner' = Append(owner, who)

-----------------------------------------------------------------------------
\* Somebody writes in a room.
Post(e, r, kind) ==
    /\ KindOf(e) = "none"
    /\ event' = [event EXCEPT ![e] = [room |-> r, kind |-> kind]]
    /\ timeline' = Append(timeline, e)
    /\ UNCHANGED <<cursor, phase, wired, seen, aged, ids, at, mine, runs, forgotten, bounds>>

\* A sync that goes back: the events come again.
Replay ==
    /\ phase = "listening"
    /\ replays < MaxReplays /\ replays' = replays + 1
    /\ cursor' \in 0..cursor
    /\ UNCHANGED <<server, phase, wired, seen, aged, ids, at, mine, runs, forgotten, stops>>

\* is_seen inserts and tells; no await separates it from the checks after it,
\* so what they refuse stays recorded as seen.
Deliver ==
    /\ phase = "listening"
    /\ cursor < Len(timeline)
    /\ Overlap \/ \A e \in Events : at[e] \notin InFlight
    /\ cursor' = cursor + 1
    /\ LET e == timeline[cursor + 1] IN
       IF e \in seen
       THEN UNCHANGED <<seen, at>>
       ELSE seen' = seen \cup {e} /\ Move(e, IF KindOf(e) = "ignored" THEN "done" ELSE "admitted")
    /\ UNCHANGED <<server, phase, wired, aged, ids, mine, runs, forgotten, bounds>>

\* An image that cannot be fetched or staged is answered with an error.
RefuseImage(e) ==
    /\ at[e] = "admitted"
    /\ KindOf(e) = "chat"
    /\ Move(e, "done")
    /\ UNCHANGED <<server, cursor, phase, wired, seen, aged, ids, mine, runs, forgotten, bounds>>

\* INSERT ... ON CONFLICT DO NOTHING of an id of its own ...
BindRoom(e) ==
    /\ at[e] = "admitted"
    /\ Move(e, "bound")
    /\ IF rows[RoomOf(e)] = Unbound
       THEN Make(RoomOf(e)) /\ rows' = [rows EXCEPT ![RoomOf(e)] = Fresh]
       ELSE UNCHANGED <<owner, rows>>
    /\ UNCHANGED <<server, cursor, phase, wired, seen, aged, writes, live, repl, stored,
                   mine, runs, forgotten, renewed, chosen, bounds>>

\* ... and the SELECT of whichever row there is.
ResolveRoom(e) ==
    /\ at[e] = "bound"
    /\ mine' = [mine EXCEPT ![e] = rows[RoomOf(e)]]
    /\ Move(e, "resolved")
    /\ UNCHANGED <<server, cursor, phase, wired, seen, aged, ids, runs, forgotten, bounds>>

FailOpen(e) ==
    /\ at[e] = "resolved"
    /\ ~wired
    /\ Move(e, "running") /\ mine' = [mine EXCEPT ![e] = Unbound]
    /\ live' = [live EXCEPT ![RoomOf(e)] = repl]
    /\ UNCHANGED <<server, cursor, phase, wired, seen, aged, rows, writes, repl, stored, owner,
                   runs, forgotten, renewed, chosen, bounds>>

\* Without a factory the room gets an error, never a shared session.
FailClosed(e) ==
    /\ at[e] = "resolved"
    /\ ~wired
    /\ Move(e, "done") /\ mine' = [mine EXCEPT ![e] = Unbound]
    /\ UNCHANGED <<server, cursor, phase, wired, seen, aged, ids, runs, forgotten, bounds>>

\* The room's AgentSession, built when it is first needed.
SessionOf(e) == IF live[RoomOf(e)] = Unbound THEN mine[e] ELSE live[RoomOf(e)]

Run(e, kind) ==
    /\ at[e] = "resolved"
    /\ wired
    /\ KindOf(e) = kind
    /\ runs' = [runs EXCEPT ![e] = @ + 1]
    /\ UNCHANGED <<server, cursor, phase, wired, seen, aged, repl, forgotten, bounds>>

\* A turn, on a thread of the executor.
Dispatch(e) ==
    /\ Run(e, "chat")
    /\ live' = [live EXCEPT ![RoomOf(e)] = SessionOf(e)]
    /\ mine' = [mine EXCEPT ![e] = Unbound]
    /\ Move(e, "running")
    /\ UNCHANGED <<rows, writes, stored, owner, renewed, chosen>>

\* /new: AgentSession.reset makes a session and registers it as the agent's;
\* the row of the room stays as it is.
NewSession(e) ==
    /\ Run(e, "new")
    /\ Make(RoomOf(e))
    /\ live' = [live EXCEPT ![RoomOf(e)] = Fresh]
    /\ stored' = Fresh
    /\ renewed' = renewed \cup {RoomOf(e)}
    /\ mine' = [mine EXCEPT ![e] = Unbound]
    /\ Move(e, "done")
    /\ UNCHANGED <<rows, writes, chosen>>

\* /session: the same, with a session of the agent's that exists, and a rebind.
SwitchSession(e, s) ==
    /\ Run(e, "session")
    /\ s \in 1..made /\ s # SessionOf(e)
    /\ live' = [live EXCEPT ![RoomOf(e)] = s]
    /\ stored' = s
    /\ chosen' = chosen \cup {RoomOf(e)}
    /\ renewed' = renewed \ {RoomOf(e)}
    /\ mine' = [mine EXCEPT ![e] = s]
    /\ writes' = Append(writes, e)
    /\ Move(e, "rebinding")
    /\ UNCHANGED <<rows, owner>>

Rebind(e) ==
    /\ at[e] = "rebinding"
    /\ Head(writes) = e
    /\ writes' = Tail(writes)
    /\ rows' = [rows EXCEPT ![RoomOf(e)] = mine[e]]
    /\ mine' = [mine EXCEPT ![e] = Unbound]
    /\ Move(e, "done")
    /\ UNCHANGED <<server, cursor, phase, wired, seen, aged, live, repl, stored, owner, runs,
                   forgotten, renewed, chosen, bounds>>

\* The turn ends, with a reply, an error or nothing to say.
TurnEnds(e) ==
    /\ at[e] = "running"
    /\ Move(e, "done")
    /\ UNCHANGED <<server, cursor, phase, wired, seen, aged, ids, mine, runs, forgotten, bounds>>

-----------------------------------------------------------------------------
(* The command line, the clock and the process. *)

ReplNew ==
    /\ phase # "down"
    /\ Make(CommandLine) /\ repl' = Fresh /\ stored' = Fresh
    /\ UNCHANGED <<server, cursor, phase, wired, seen, aged, rows, writes, live, at, mine, runs,
                   forgotten, renewed, chosen, bounds>>

DayPasses ==
    /\ aged' = seen
    /\ UNCHANGED <<server, cursor, phase, wired, seen, ids, at, mine, runs, forgotten, bounds>>

\* The coroutines are cancelled, also by an orderly end, and with the handler go
\* the sessions it built; what is committed stays.
Drop ==
    /\ live' = [r \in Rooms |-> Unbound]
    /\ writes' = <<>>
    /\ at' = [e \in Events |-> IF at[e] \in InFlight THEN "lost" ELSE at[e]]
    /\ mine' = [e \in Events |-> Unbound]
    /\ UNCHANGED <<server, cursor, wired, rows, runs, forgotten, renewed, chosen, replays>>

\* A crash, or the end of the program.
Stop ==
    /\ phase # "down"
    /\ stops < MaxStops /\ stops' = stops + 1
    /\ phase' = "down"
    /\ Drop
    /\ UNCHANGED <<seen, aged, repl, stored, owner>>

\* A fatal error of the sync loop ends the listener; nothing starts it again
\* before the next start of the process.
SyncFails ==
    /\ phase = "listening"
    /\ stops < MaxStops
    /\ phase' = "dead"
    /\ Drop
    /\ UNCHANGED <<seen, aged, repl, stored, owner, stops>>

\* The command line resumes the registered session, or a new one when it is stale.
ResolveSession ==
    \/ repl' = stored /\ UNCHANGED <<stored, owner>>
    \/ Make(CommandLine) /\ repl' = Fresh /\ stored' = Fresh

StartProcess ==
    /\ phase = "down"
    /\ phase' = "starting"
    /\ ResolveSession
    /\ UNCHANGED <<server, cursor, wired, seen, aged, rows, writes, live, at, mine, runs,
                   forgotten, renewed, chosen, bounds>>

\* What is older than a day leaves the table when it is opened.
Prune ==
    /\ seen' = seen \ aged
    /\ aged' = {}
    /\ forgotten' = [e \in Events |-> forgotten[e] + IF e \in aged THEN 1 ELSE 0]

\* The first sync brings the latest events of every room, whatever their age.
Connect ==
    /\ phase = "starting"
    /\ phase' = "listening"
    /\ Prune
    /\ cursor' = 0
    /\ UNCHANGED <<server, wired, ids, at, mine, runs, bounds>>

ConnectFails ==
    /\ phase = "starting"
    /\ phase' = "dead"
    /\ UNCHANGED <<server, cursor, wired, seen, aged, ids, at, mine, runs, forgotten, bounds>>

Handle(e) ==
    \/ RefuseImage(e) \/ BindRoom(e) \/ ResolveRoom(e) \/ FailClosed(e)
    \/ Dispatch(e) \/ NewSession(e) \/ (\E s \in Sessions : SwitchSession(e, s)) \/ Rebind(e)
    \/ TurnEnds(e)

Next ==
    \/ \E e \in Events, r \in Rooms, kind \in Kinds : Post(e, r, kind)
    \/ Replay \/ Deliver
    \/ \E e \in Events : Handle(e)
    \/ ReplNew \/ DayPasses \/ Stop \/ SyncFails \/ StartProcess \/ Connect \/ ConnectFails

Spec == Init /\ [][Next]_vars

-----------------------------------------------------------------------------
\* Types of the tables, the callbacks' places and the histories.
TypeOK ==
    /\ timeline \in Seq(Events) /\ cursor \in 0..Len(timeline)
    /\ event \in [Events -> [room : Rooms \cup {CommandLine}, kind : Kinds \cup {"none"}]]
    /\ phase \in {"down", "starting", "listening", "dead"} /\ wired \in BOOLEAN
    /\ aged \subseteq seen /\ seen \subseteq Events
    /\ rows \in [Rooms -> Sessions \cup {Unbound}]
    /\ live \in [Rooms -> Sessions \cup {Unbound}]
    /\ writes \in Seq(Events)
    /\ {repl, stored} \subseteq 1..made
    /\ owner \in Seq(Rooms \cup {CommandLine}) /\ made <= MaxSessions
    /\ at \in [Events -> InFlight \cup {"none", "done", "lost"}]
    /\ mine \in [Events -> Sessions \cup {Unbound}]
    /\ runs \in [Events -> Nat] /\ forgotten \in [Events -> 0..MaxStops]
    /\ renewed \subseteq Rooms /\ chosen \subseteq Rooms
    /\ stops \in 0..MaxStops /\ replays \in 0..MaxReplays

\* However often an event is delivered, and whatever stops in between, it is
\* run once; it is run again only if it was pruned from seen_events while the
\* homeserver still had it among a room's latest.
RunsOncePerMemory == \A e \in Events : runs[e] <= 1 + forgotten[e]

\* "A room's conversation history is genuinely private to that room" (ADR 0006):
\* it talks to sessions that were made for it, unless it asked for another with
\* /session, however first messages, commands and restarts overlap.
RoomsAreIsolated ==
    \A r \in Rooms \ chosen : live[r] # Unbound => owner[live[r]] = r

Settled(r) == \A e \in Events : at[e] = "rebinding" => RoomOf(e) # r

\* The session a room talks to is the one it will talk to after a restart,
\* unless it gave /new.
LiveIsBound ==
    \A r \in Rooms \ renewed : live[r] # Unbound /\ Settled(r) => live[r] = rows[r]
=============================================================================
