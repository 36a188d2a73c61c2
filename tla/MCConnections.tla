--------------------------- MODULE MCConnections ---------------------------
(***************************************************************************)
(* What connects the program to others: the MCP servers and the Matrix     *)
(* rooms.  They share no state, so that one run explores them one at a     *)
(* time: part says which moves, and the other stays where it begins.       *)
(***************************************************************************)
EXTENDS McpClient, TLC

CONSTANTS CommandLine, MaxSessions, MaxStops, MaxReplays, Overlap

VARIABLES
  part,
  timeline, event, cursor, phase, wired, seen, aged, rows, writes, live, repl, stored,
  owner, at, mine, runs, forgotten, renewed, chosen, stops, replays

roomVars == <<timeline, event, cursor, phase, wired, seen, aged, rows, writes, live, repl,
              stored, owner, at, mine, runs, forgotten, renewed, chosen, stops, replays>>

\* The parts share their model values, so that four permutations serve them all.
Rooms == INSTANCE MatrixChannel WITH Events <- Callers, Rooms <- Commands

Symmetry == Permutations(Callers) \cup Permutations(Commands)

ASSUME Assumptions == Rooms!MatrixAssumption
-----------------------------------------------------------------------------
\* The parts' initial states differ only where they move.
MCInit ==
  /\ part \in {"mcp", "rooms"}
  /\ Init /\ Rooms!Init
  /\ part = "mcp" \/ session = Boot
  /\ part = "rooms" \/ wired

MCNext ==
  /\ UNCHANGED part
  /\ \/ part = "mcp" /\ Next /\ UNCHANGED roomVars
     \/ part = "rooms" /\ Rooms!Next /\ UNCHANGED vars

mcVars == <<part, vars, roomVars>>
MCSpec == MCInit /\ [][MCNext]_mcVars
-----------------------------------------------------------------------------
(* The properties of the parts, as their modules state them. *)

\* A session serves one call at a time, a call that hangs holds up nobody but the
\* callers of its session, and between commands what is shown as connected can
\* be called and has its tools registered.
ConnectionsAreSound ==
  OneCallAtATime /\ HungCallHoldsItsOwnSession /\ ConnectedHasSession /\ ToolsMatchTheServer

\* No two rooms talk in one session, and an event is answered once, as long as
\* the table of seen events knows it.
RoomsAreAnsweredApart ==
  Rooms!RoomsAreIsolated /\ Rooms!RunsOncePerMemory /\ Rooms!LiveIsBound
=============================================================================
