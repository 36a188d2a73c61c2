---------------------------- MODULE Supervision ----------------------------
(***************************************************************************)
(* minion.py's main: what it starts and in which order, what is left out   *)
(* when a part is missing, and how the process ends: /quit or the end of   *)
(* input, Ctrl+C, SIGTERM, a crash.  The parts are the MCP manager with    *)
(* its event loop, the database, the polling workers (capture, commitment, *)
(* embedding, caption), the file watcher, the reconciliation timer and the *)
(* Matrix listener, whose turns run on threads the interpreter waits for.  *)
(***************************************************************************)
EXTENDS Naturals, Sequences, FiniteSets

CONSTANTS
    WorkerOrder, \* the polling workers, in the order they are started and stopped
    MaxSignals,  \* bound: SIGTERM and Ctrl+C
    MaxStarts    \* bound: processes

Workers == {WorkerOrder[i] : i \in DOMAIN WorkerOrder}
Parts   == Workers \cup {"mcp", "watcher", "reconciliation", "matrix"}

SupervisionAssumption ==
    /\ WorkerOrder \in Seq(Workers) /\ {MaxSignals, MaxStarts} \subseteq Nat
    /\ Workers \cap {"mcp", "database", "watcher", "reconciliation", "matrix"} = {}

VARIABLES
    main,     \* "starting", "running", "closing" (the finally clause),
              \* "leaving" (the interpreter ends), "gone"
    next,     \* the next thing main starts or stops
    handler,  \* what the SIGTERM handler stops next; 0 outside it
    waiting,  \* in the join of what was told last
    have,     \* parts of this process
    told,     \* those told to stop
    work,     \* each worker's thread: "none", "polling", "busy", "ended", "dead"
    stranded, \* workers whose queue has a job marked running by a process that is gone
    database, \* main's _db is there
    listener, \* the Matrix thread: "none", "booting" (no loop yet), "listening",
              \* "closing" (the loop is closed, but still in _loop), "ended"
    asked,    \* the listener's stop event is set
    turn,     \* a Matrix turn is on its executor thread
    loop,     \* MCP's event loop runs
    cut,      \* history: what cut the stopping of this process short
    signals,
    starts

process == <<have, told, work, database, listener, asked, turn, loop>>
vars    == <<main, next, handler, waiting, have, told, work, stranded, database, listener,
             asked, turn, loop, cut, signals, starts>>

Init ==
    /\ main = "starting" /\ next = 1 /\ handler = 0 /\ waiting = FALSE
    /\ have = {} /\ told = {}
    /\ work = [w \in Workers |-> "none"]
    /\ stranded = {}
    /\ database = FALSE /\ listener = "none" /\ asked = FALSE /\ turn = FALSE /\ loop = FALSE
    /\ cut = FALSE /\ signals = 0 /\ starts = 1

-----------------------------------------------------------------------------
(* Starting.  Each part is there, or not configured, or failed and left out. *)

StartOrder == <<"mcp", "database">> \o WorkerOrder \o <<"watcher", "reconciliation", "matrix">>
Starting(part) == main = "starting" /\ next <= Len(StartOrder) /\ StartOrder[next] = part

StartMcp ==
    /\ Starting("mcp")
    /\ \/ loop' = TRUE /\ have' = have \cup {"mcp"}
          /\ UNCHANGED <<told, work, database, listener, asked, turn>>
       \/ UNCHANGED process
    /\ next' = next + 1
    /\ UNCHANGED <<main, handler, waiting, stranded, cut, signals, starts>>

\* Connecting, mirroring and reclaim_stale_running_jobs share one try: when
\* any fails there is no database for this process.
OpenDatabase ==
    /\ Starting("database")
    /\ \E opened \in BOOLEAN, reclaimed \in BOOLEAN :
           /\ reclaimed => opened
           /\ stranded' = IF reclaimed THEN {} ELSE stranded
           /\ database' = reclaimed
    /\ next' = next + 1
    /\ UNCHANGED <<main, handler, waiting, have, told, work, listener, asked, turn, loop, cut, signals, starts>>

\* A worker starts where there is a database (and, for some, where configured).
StartWorker(w) ==
    /\ Starting(w)
    /\ \/ database /\ have' = have \cup {w} /\ work' = [work EXCEPT ![w] = "polling"]
       \/ UNCHANGED <<have, work>>
    /\ next' = next + 1
    /\ UNCHANGED <<main, handler, waiting, told, stranded, database, listener, asked, turn, loop,
                   cut, signals, starts>>

\* The watcher also needs the index, which may be missing.
StartTimers ==
    /\ \E part \in {"watcher", "reconciliation"} :
           /\ Starting(part)
           /\ \/ database /\ have' = have \cup {part}
              \/ (part = "watcher" \/ ~database) /\ UNCHANGED have
    /\ next' = next + 1
    /\ UNCHANGED <<main, handler, waiting, told, work, stranded, database, listener, asked, turn,
                   loop, cut, signals, starts>>

\* With the listener main is complete; the handler of SIGTERM is installed.
StartMatrix ==
    /\ Starting("matrix")
    /\ main' = "running" /\ next' = 1
    /\ \/ have' = have \cup {"matrix"} /\ listener' = "booting"
       \/ UNCHANGED <<have, listener>>
    /\ UNCHANGED <<handler, waiting, told, work, stranded, database, asked, turn, loop, cut, signals, starts>>

-----------------------------------------------------------------------------
(* The threads meanwhile.                                                  *)

Set(w, state) ==
    /\ work' = [work EXCEPT ![w] = state]
    /\ UNCHANGED <<main, next, handler, waiting, have, told, stranded, database, listener, asked,
                   turn, loop, cut, signals, starts>>

\* A claim marks the job running in the database; its error ends the thread.
\* A worker told to stop between its test of the event and its claim claims.
Claim(w) == main # "gone" /\ work[w] = "polling" /\ Set(w, "busy")
Die(w)   == main # "gone" /\ work[w] = "polling" /\ Set(w, "dead")
JobEnds(w) == main # "gone" /\ work[w] = "busy" /\ Set(w, IF w \in told THEN "ended" ELSE "polling")
WorkerEnds(w) == main # "gone" /\ work[w] = "polling" /\ w \in told /\ Set(w, "ended")

Listen(state) ==
    /\ main # "gone"
    /\ listener' = state
    /\ UNCHANGED <<main, next, handler, waiting, have, told, work, stranded, database, asked, turn,
                   loop, cut, signals, starts>>

Boot       == listener = "booting" /\ Listen("listening")
\* The monitor returns when it is asked to, or crashes; the loop is closed ...
CloseLoop  == listener = "listening" /\ Listen("closing")
\* ... and then taken out of _loop.
ListenerEnds == listener = "closing" /\ Listen("ended")

Turn(begins) ==
    /\ main # "gone" /\ turn' = begins
    /\ UNCHANGED <<main, next, handler, waiting, have, told, work, stranded, database, listener,
                   asked, loop, cut, signals, starts>>
TurnBegins == listener = "listening" /\ ~asked /\ ~turn /\ main # "leaving" /\ Turn(TRUE)
TurnEnds   == turn /\ Turn(FALSE)

-----------------------------------------------------------------------------
(* Stopping: the finally clause, repeated for the command line, --voice    *)
(* and --tui, and the handler of SIGTERM, which leaves out the listener.    *)

StopOrder    == <<"matrix", "mcp">> \o WorkerOrder \o <<"watcher", "reconciliation">>
HandlerOrder == Tail(StopOrder)

\* /quit, the end of input, Ctrl+C at the prompt.
Quit ==
    /\ main = "running" /\ handler = 0
    /\ main' = "closing" /\ next' = 1
    /\ UNCHANGED <<handler, waiting, process, stranded, cut, signals, starts>>

\* Whether a join has nothing left to wait for.
Ended(part) ==
    CASE part \in Workers    -> work[part] \in {"none", "ended", "dead"}
      [] part = "matrix"     -> listener \in {"none", "ended"}
      [] OTHER               -> TRUE

\* Tell a part to stop, if it is there.
Tell(part) ==
    /\ told' = told \cup ({part} \cap have)
    /\ asked' = (asked \/ (part = "matrix" /\ listener = "listening"))
    /\ loop' = IF part = "mcp" THEN FALSE ELSE loop

\* A closed loop that is still in _loop refuses call_soon_threadsafe: the
\* exception leaves the finally clause, and main.
Refused(part) == part = "matrix" /\ listener = "closing"

CloseNext ==
    /\ main = "closing" /\ handler = 0 /\ ~waiting
    /\ IF next > Len(StopOrder)
       THEN main' = "leaving" /\ UNCHANGED <<next, waiting, told, asked, loop, cut>>
       ELSE IF Refused(StopOrder[next])
            THEN main' = "leaving" /\ cut' = TRUE /\ UNCHANGED <<next, waiting, told, asked, loop>>
            ELSE Tell(StopOrder[next]) /\ waiting' = TRUE /\ UNCHANGED <<main, next, cut>>
    /\ UNCHANGED <<handler, have, work, stranded, database, listener, turn, signals, starts>>

HandleNext ==
    /\ handler > 0 /\ ~waiting /\ handler <= Len(HandlerOrder)
    /\ Tell(HandlerOrder[handler]) /\ waiting' = TRUE
    /\ UNCHANGED <<main, next, handler, have, work, stranded, database, listener, turn, cut, signals, starts>>

Step ==
    /\ waiting' = FALSE
    /\ IF handler > 0 THEN handler' = handler + 1 /\ UNCHANGED next
                      ELSE next' = next + 1 /\ UNCHANGED handler
    /\ UNCHANGED <<main, process, stranded, cut, signals, starts>>

Awaited == IF handler > 0 THEN HandlerOrder[handler] ELSE StopOrder[next]

JoinForEver == waiting /\ Ended(Awaited) /\ Step

\* The thread has ended, or its time limit passes: 5 s, for MCP 10 s and 5 s.
Join == waiting /\ Step

\* sys.exit in the handler: from the loop of main into the finally clause,
\* from there out of it, the handler having done all but the listener.
HandlerExits ==
    /\ handler > Len(HandlerOrder) /\ ~waiting
    /\ handler' = 0
    /\ IF main = "running"
       THEN main' = "closing" /\ next' = 1 /\ UNCHANGED cut
       ELSE main' = "leaving" /\ cut' = (cut \/ ~(have \subseteq told)) /\ UNCHANGED next
    /\ UNCHANGED <<waiting, process, stranded, signals, starts>>

Sigterm ==
    /\ main \in {"running", "closing"} /\ signals < MaxSignals
    /\ signals' = signals + 1
    /\ handler' = 1 /\ waiting' = FALSE
    /\ UNCHANGED <<main, next, process, stranded, cut, starts>>

\* Ctrl+C while main stops the parts; out of the handler, it may be taken for
\* one at the prompt, which ends main's loop, or in a turn, which does not.
Interrupt ==
    /\ main = "closing" \/ handler > 0
    /\ signals < MaxSignals /\ signals' = signals + 1
    /\ waiting' = FALSE /\ handler' = 0
    /\ IF main = "running"
       THEN main' \in {"running", "closing"} /\ next' = 1 /\ UNCHANGED cut
       ELSE main' = "leaving" /\ cut' = TRUE /\ UNCHANGED next
    /\ UNCHANGED <<process, stranded, starts>>

\* Daemon threads vanish where they are; a claimed job stays marked running.
Vanish ==
    /\ main' = "gone"
    /\ stranded' = stranded \cup {w \in Workers : work[w] = "busy"}
    /\ work' = [w \in Workers |-> "none"]
    /\ listener' = "none" /\ turn' = FALSE /\ loop' = FALSE
    /\ UNCHANGED <<next, have, told, database, asked, cut, signals, starts>>

\* The interpreter first waits for the threads of executors.
Leave == main = "leaving" /\ ~turn /\ Vanish /\ UNCHANGED <<handler, waiting>>

\* A crash, a kill, SIGTERM before its handler is there, or an exception
\* while main starts (no matrix-nio): nobody is told anything.
Crash ==
    /\ main \in {"starting", "running", "closing", "leaving"} /\ signals < MaxSignals
    /\ main' = "gone" /\ signals' = signals + 1
    /\ stranded' = stranded \cup {w \in Workers : work[w] = "busy"}
    /\ work' = [w \in Workers |-> "none"]
    /\ listener' = "none" /\ turn' = FALSE /\ loop' = FALSE
    /\ handler' = 0 /\ waiting' = FALSE /\ cut' = TRUE
    /\ UNCHANGED <<next, have, told, database, asked, starts>>

Restart ==
    /\ main = "gone" /\ starts < MaxStarts
    /\ main' = "starting" /\ starts' = starts + 1
    /\ next' = 1 /\ handler' = 0 /\ waiting' = FALSE
    /\ have' = {} /\ told' = {}
    /\ work' = [w \in Workers |-> "none"]
    /\ database' = FALSE /\ listener' = "none" /\ asked' = FALSE /\ turn' = FALSE /\ loop' = FALSE
    /\ cut' = FALSE
    /\ UNCHANGED <<stranded, signals>>

Start == StartMcp \/ OpenDatabase \/ (\E w \in Workers : StartWorker(w)) \/ StartTimers \/ StartMatrix
WorkerStep(w) == Claim(w) \/ Die(w) \/ JobEnds(w) \/ WorkerEnds(w)
MainStep == Start \/ CloseNext \/ HandleNext \/ Join \/ HandlerExits \/ Leave

Next == \/ MainStep \/ Quit \/ Sigterm \/ Interrupt \/ Crash \/ Restart
        \/ \E w \in Workers : WorkerStep(w)
        \/ Boot \/ CloseLoop \/ ListenerEnds \/ TurnBegins \/ TurnEnds

Spec == Init /\ [][Next]_vars

\* main goes on, and a turn on the executor ends, its provider and its tools
\* having time limits; a worker's job may take for ever.
FairSpec == Spec /\ WF_vars(MainStep) /\ WF_vars(TurnEnds)
-----------------------------------------------------------------------------
TypeOK ==
    /\ main \in {"starting", "running", "closing", "leaving", "gone"}
    /\ next \in 1..(Len(StopOrder) + 1) /\ handler \in 0..(Len(HandlerOrder) + 1)
    /\ have \subseteq Parts /\ told \subseteq have
    /\ work \in [Workers -> {"none", "polling", "busy", "ended", "dead"}]
    /\ stranded \subseteq Workers
    /\ listener \in {"none", "booting", "listening", "closing", "ended"}
    /\ {waiting, database, asked, turn, loop, cut} \subseteq BOOLEAN

(* A process that ends in order has told every part it started to stop,     *)
(* however the signals fell; what cuts that short is a crash, Ctrl+C or a   *)
(* second SIGTERM meanwhile, or a listener that ends at that very moment    *)
(* (the finally clauses of main, _sigterm_handler, MatrixChannel.stop).     *)
EveryPartIsTold == main \in {"leaving", "gone"} => have \subseteq told \/ cut

(* Stopping ends, with workers hung in a provider call and signals falling  *)
(* anywhere: every join has a time limit.                                   *)
StoppingEnds == main = "closing" ~> main = "gone"

(* No worker looks for jobs while a job of its queue is still marked        *)
(* running by a process that is gone: nothing but a start reclaims it, so   *)
(* a process that cannot reclaim does without workers.                      *)
(* (reclaim_stale_running_jobs in main, R2-GAP-003.)                        *)
ReclaimedFirst == \A w \in Workers : work[w] \in {"polling", "busy"} => w \notin stranded
=============================================================================
