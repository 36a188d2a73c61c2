---------------------------- MODULE TerminalApp ----------------------------
(***************************************************************************)
(* The full-screen terminal (tui/app.py).  One thread runs the user        *)
(* interface; a turn runs in a thread of its own, holds its agent's lock,  *)
(* and hands everything it shows or asks to the interface's thread, which  *)
(* it waits for.  The composer is disabled while a turn runs; the sidebar  *)
(* and the command palette are not, and what they run goes the same way    *)
(* as what is typed, so that turns overlap.  A turn's sub-agent runs in a  *)
(* thread too and shows its events in the same place; the turn waits for   *)
(* it, but not for ever.  There is one widget for the answer that streams. *)
(***************************************************************************)
EXTENDS FiniteSets

CONSTANTS
    Agents,
    Prefixed, \* those with a route prefix, which the palette offers
    Threads   \* bound: turns and sub-agents that can be in flight

Nobody == "none"

TerminalAssumption ==
    /\ IsFiniteSet(Threads) /\ Prefixed \subseteq Agents
    /\ Nobody \notin Agents \union Threads

VARIABLES
    composer, \* it takes input
    active,   \* _active_agent_id
    turn,     \* per thread: the turn or the sub-agent it runs
    holder,   \* AgentSession._lock: the thread that holds it
    ui,       \* the agent whose lock the interface's thread waits for
    stream,   \* _streaming_widget: the thread whose answer it shows
    broken,   \* the threads whose streamed answer misses a token or has another's
    crossed,  \* history: those whose answer streams while another one does
    missed    \* history: those whose final answer is not on the screen in full

sceneVars == <<broken, crossed, missed>>
vars == <<composer, active, turn, holder, ui, stream, sceneVars>>

NoTurn ==
    [at |-> "none", agent |-> Nobody, asks |-> Nobody, streams |-> FALSE, answered |-> FALSE,
     child |-> Nobody]

Init ==
    /\ composer = TRUE
    /\ active \in Agents
    /\ turn = [t \in Threads |-> NoTurn]
    /\ holder = [a \in Agents |-> Nobody]
    /\ ui = Nobody /\ stream = Nobody
    /\ broken = {} /\ crossed = {} /\ missed = {}

InFlight(t) == turn[t].at # "none"

\* A sub-agent has a session of its own.
SubAgent(t) == InFlight(t) /\ turn[t].agent = Nobody

\* A thread that runs nothing, and that no turn waits for; a Textual worker
\* and a sub-agent have a new one each.
Free(t) == ~InFlight(t) /\ \A s \in Threads : turn[s].child # t

-----------------------------------------------------------------------------
(* What the person does, on the interface's thread. *)

Disabled == FALSE

\* What is typed, or a lone route prefix of the palette, becomes a turn.
Ask(t, a) ==
    /\ ui = Nobody /\ Free(t)
    /\ composer \/ a \in Prefixed
    /\ active' = a
    /\ composer' = Disabled
    /\ turn' = [turn EXCEPT ![t] = [NoTurn EXCEPT !.at = "start", !.agent = a]]
    /\ UNCHANGED <<holder, ui, stream, sceneVars>>

\* /switch, typed or clicked.
Switch(a) ==
    /\ ui = Nobody /\ a # active
    /\ active' = a
    /\ UNCHANGED <<composer, turn, holder, ui, stream, sceneVars>>

\* /session N, typed or clicked: the interface's thread takes the agent's lock.
SwitchSession ==
    /\ ui = Nobody
    /\ ui' = active
    /\ UNCHANGED <<composer, active, turn, holder, stream, sceneVars>>

SessionSwitched ==
    /\ ui # Nobody /\ holder[ui] = Nobody
    /\ ui' = Nobody
    /\ UNCHANGED <<composer, active, turn, holder, stream, sceneVars>>

-----------------------------------------------------------------------------
(* A turn's thread, and a sub-agent's. *)

TakeLock(t) ==
    LET a == turn[t].agent IN
    /\ turn[t].at = "start" /\ holder[a] = Nobody
    /\ holder' = [holder EXCEPT ![a] = t]
    /\ turn' = [turn EXCEPT ![t].at = "work"]
    /\ UNCHANGED <<composer, active, ui, stream, sceneVars>>

\* What there is to show: an answer is streamed before it is final, and only
\* the turn's summary comes after it; a sub-agent does not stream.
Shows(t) ==
    IF SubAgent(t) THEN {"event", "final"}
    ELSE IF turn[t].answered THEN {"event"}
    ELSE {"streaming", "event", "question", "call"}
           \union IF turn[t].streams THEN {"token", "final"} ELSE {}

\* call_from_thread: an event to show, or a question to put, is queued for the
\* interface's thread, and the turn waits until it is done.
Show(t, what) ==
    /\ turn[t].at = "work" /\ what \in Shows(t)
    /\ turn' = [turn EXCEPT ![t].at = "shows", ![t].asks = what]
    /\ UNCHANGED <<composer, active, holder, ui, stream, sceneVars>>

AfterSend(failed) == IF failed THEN "report" ELSE "finish"

\* send() returns or raises, and gives the lock back; its thread has no more
\* to show.
SendEnds(t, failed) ==
    LET sub == SubAgent(t) IN
    /\ turn[t].at = "work"
    /\ turn' = [turn EXCEPT ![t] =
                  IF sub THEN NoTurn
                  ELSE [NoTurn EXCEPT !.at = AfterSend(failed), !.agent = turn[t].agent]]
    /\ holder' = IF sub THEN holder ELSE [holder EXCEPT ![turn[t].agent] = Nobody]
    /\ broken' = broken \ {t} /\ crossed' = crossed \ {t} /\ missed' = missed \ {t}
    /\ UNCHANGED <<composer, active, ui, stream>>

-----------------------------------------------------------------------------
(* spawn_subagent, once its call has been shown. *)

Spawn(t, c) ==
    /\ turn[t].at = "calls" /\ Free(c)
    /\ turn' = [turn EXCEPT
                  ![t].at = "waits", ![t].child = c,
                  ![c] = [NoTurn EXCEPT !.at = "work"]]
    /\ crossed' = IF t \in crossed THEN crossed \union {c} ELSE crossed
    /\ UNCHANGED <<composer, active, holder, ui, stream, broken, missed>>

\* The limit of sub-agents is reached.
SpawnRefused(t) ==
    /\ turn[t].at = "calls"
    /\ turn' = [turn EXCEPT ![t].at = "work"]
    /\ UNCHANGED <<composer, active, holder, ui, stream, sceneVars>>

\* join returns, or gives up: the sub-agent goes on.
Joined(t) ==
    /\ turn[t].at = "waits" /\ ~InFlight(turn[t].child)
    /\ turn' = [turn EXCEPT ![t].at = "work", ![t].child = Nobody]
    /\ UNCHANGED <<composer, active, holder, ui, stream, sceneVars>>

JoinTimesOut(t) ==
    /\ turn[t].at = "waits" /\ InFlight(turn[t].child)
    /\ turn' = [turn EXCEPT ![t].at = "work", ![t].child = Nobody]
    /\ UNCHANGED <<composer, active, holder, ui, stream, sceneVars>>

-----------------------------------------------------------------------------
(* What the interface's thread does for a turn. *)

\* Mutant of Widget: only the final answer ends it.
WidgetKept(t, what) ==
    CASE what = "streaming" -> t
      [] what = "final" -> Nobody
      [] OTHER -> stream

\* The widget after an event: whatever is neither its start nor a token ends
\* the answer that is streamed, whoever's it is.
Widget(t, what) ==
    CASE what = "streaming" -> t
      [] what = "token" -> stream
      [] OTHER -> Nobody

\* A token goes to the widget there is: another's, or none.
Broken(t, what) ==
    CASE what = "streaming" -> broken \ {t}
      [] what = "token" /\ stream # t -> (broken \union {t, stream}) \ {Nobody}
      [] OTHER -> broken

\* Those whose answer streams, or who have a sub-agent at work or about to be.
Streaming(t) == {u \in Threads \ {t} : turn[u].streams}
Delegating(t) == {u \in Threads \ {t} : SubAgent(u) \/ turn[u].at = "calls"}

Crossed(t, what) ==
    CASE what = "streaming" /\ Streaming(t) = {} -> (crossed \ {t}) \union Delegating(t)
      [] what = "streaming" /\ Streaming(t) # {} ->
           crossed \union {t} \union Streaming(t) \union Delegating(t)
      [] what = "call" -> crossed \ {t}
      [] OTHER -> crossed

\* A final answer is put on the screen unless one was being streamed, which is
\* taken for it.
NotShown(t) == stream # Nobody /\ (turn[t].streams => t \in broken)

\* _apply_event
Apply(t) ==
    LET what == turn[t].asks IN
    /\ ui = Nobody /\ turn[t].at = "shows" /\ what # "question"
    /\ stream' = Widget(t, what)
    /\ broken' = Broken(t, what)
    /\ crossed' = Crossed(t, what)
    /\ missed' = IF what = "final" /\ NotShown(t) THEN missed \union {t} ELSE missed
    /\ turn' = [turn EXCEPT
                  ![t].at = IF what = "call" THEN "calls" ELSE "work",
                  ![t].asks = Nobody,
                  ![t].streams = what \in {"streaming", "token"},
                  ![t].answered = @ \/ what = "final"]
    /\ UNCHANGED <<composer, active, holder, ui>>

\* push_screen_wait: the question is on the screen, the interface goes on.
OpenModal(t) ==
    /\ ui = Nobody /\ turn[t].at = "shows" /\ turn[t].asks = "question"
    /\ turn' = [turn EXCEPT ![t].at = "modal"]
    /\ UNCHANGED <<composer, active, holder, ui, stream, sceneVars>>

AnswerModal(t) ==
    /\ ui = Nobody /\ turn[t].at = "modal"
    /\ turn' = [turn EXCEPT ![t].at = "work", ![t].asks = Nobody]
    /\ UNCHANGED <<composer, active, holder, ui, stream, sceneVars>>

ReportFailure(t) ==
    /\ ui = Nobody /\ turn[t].at = "report"
    /\ turn' = [turn EXCEPT ![t].at = "finish"]
    /\ UNCHANGED <<composer, active, holder, ui, stream, sceneVars>>

FinishTurn(t) ==
    /\ ui = Nobody /\ turn[t].at = "finish"
    /\ turn' = [turn EXCEPT ![t] = NoTurn]
    /\ composer' = TRUE
    /\ UNCHANGED <<active, holder, ui, stream, sceneVars>>

-----------------------------------------------------------------------------
Person ==
    \/ \E t \in Threads, a \in Agents : Ask(t, a)
    \/ \E a \in Agents : Switch(a)
    \/ SwitchSession

Events == {"streaming", "token", "final", "event", "question", "call"}

TurnStep(t) ==
    \/ TakeLock(t)
    \/ \E what \in Events : Show(t, what)
    \/ \E failed \in BOOLEAN : SendEnds(t, failed)
    \/ \E c \in Threads : Spawn(t, c)
    \/ SpawnRefused(t) \/ Joined(t) \/ JoinTimesOut(t)

UiStep(t) == Apply(t) \/ OpenModal(t) \/ ReportFailure(t) \/ FinishTurn(t)

Next ==
    \/ Person
    \/ SessionSwitched
    \/ \E t \in Threads : TurnStep(t) \/ UiStep(t) \/ AnswerModal(t)

\* The threads run, a turn has so many rounds and no more, the interface's loop
\* serves its queue in order, so whoever waits for it is served, and a person
\* answers what is asked.
Fairness ==
    /\ WF_vars(SessionSwitched)
    /\ \A t \in Threads :
        /\ WF_vars(TurnStep(t))
        /\ SF_vars(\E failed \in BOOLEAN : SendEnds(t, failed))
        /\ SF_vars(UiStep(t) \/ AnswerModal(t))

Spec == Init /\ [][Next]_vars
FairSpec == Spec /\ Fairness

-----------------------------------------------------------------------------
\* A final answer is on the screen in full, streamed or put there at its end,
\* however many events of a sub-agent that outran its time cut it short and
\* whatever a failed turn left in the widget; unless, while it streamed (or
\* while the sub-agent worked), another turn's answer did.
AnswersAreShown == missed \subseteq crossed

\* The interface's thread waits for the lock of an agent whose turn waits for
\* the interface: nothing moves again.
Embraced ==
    /\ ui # Nobody /\ holder[ui] # Nobody
    /\ turn[holder[ui]].at \in {"shows", "modal"}

\* The composer comes back, whether turns are answered or fail, and however many
\* of them run, wait for one agent or for sub-agents, or ask; unless a click on a
\* session made the interface wait for a turn that waits for it.
ComposerComesBack == []<>(composer \/ Embraced)

=============================================================================
