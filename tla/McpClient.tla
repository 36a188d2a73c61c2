----------------------------- MODULE McpClient -----------------------------
(***************************************************************************)
(* The connection to one MCP server (mcp/client.py): an asyncio loop in a  *)
(* daemon thread, turns that call its tools from threads of their own, and *)
(* the commands that reload, enable and disable it.  Every call crosses to *)
(* the loop with run_coroutine_threadsafe and a timeout: when the timeout  *)
(* strikes the thread goes on, but the coroutine stays on the loop.        *)
(***************************************************************************)
EXTENDS Naturals, Sequences

CONSTANTS
    Callers,   \* threads that run turns
    Commands,  \* commands given, each once, and the connection each one makes
    Boot,      \* the connection made at startup
    NoSession, \* no entry in the dictionary
    MaxCoros   \* bound: coroutines of calls on the loop at one time

Connections == Commands \cup {Boot}
Coros == 1..MaxCoros
NoCall == 0

ASSUME McpAssumption == /\ MaxCoros \in Nat
                        /\ Boot \notin Commands
                        /\ NoSession \notin Connections

States == {"pending", "connected", "failed", "disabled"}
Whats  == {"none", "reload", "enable", "disable", "shutdown"}

VARIABLES
    state,    \* _statuses[name].state
    session,  \* _sessions[name]
    stack,    \* _stacks[name]
    lock,     \* _locks[name], named after the connection that made it
    queue,    \* per lock, its holder and the coroutines waiting for it, in order
    coro,     \* the coroutines of calls: where each is and its session
    call,     \* per caller, the coroutine whose future it blocks on
    last,     \* callers whose attempt will not be repeated
    what,     \* what each command is
    pc,       \* where the thread of each command is
    closer,   \* the coroutine that closes the old connection for a command
    opener,   \* the coroutine that makes the new one
    listed,   \* what list_tools() gave a command: the server's tools are visible
    tools,    \* the adapters mcp__<server>__* are in the agent's registry
    loop,     \* the event loop runs
    overran,  \* history: a command's timeout struck, its coroutine stayed behind
    mingled   \* history: two commands overlapped

status == <<state, session, stack, lock>>
calls  == <<queue, coro, call, last>>
work   == <<what, pc, closer, opener, listed>>
past   == <<overran, mingled>>
vars   == <<state, session, stack, lock, queue, coro, call, last,
            what, pc, closer, opener, listed, tools, loop, overran, mingled>>

NoCoro == [at |-> "none", on |-> NoSession, outcome |-> "none"]

Init ==
    /\ \/ state = "connected" /\ session = Boot /\ tools = TRUE
       \/ state = "failed" /\ session = NoSession /\ tools = FALSE
    /\ stack = session
    /\ lock = session
    /\ queue = [x \in Connections |-> <<>>]
    /\ coro = [t \in Coros |-> NoCoro]
    /\ call = [c \in Callers |-> NoCall]
    /\ last = {}
    /\ what = [k \in Commands |-> "none"]
    /\ pc = [k \in Commands |-> "none"]
    /\ closer = [k \in Commands |-> "none"]
    /\ opener = [k \in Commands |-> "none"]
    /\ listed = [k \in Commands |-> FALSE]
    /\ loop = TRUE
    /\ overran = FALSE /\ mingled = FALSE

-----------------------------------------------------------------------------
(* A call: the thread that makes it, and its coroutine. *)

\* run_coroutine_threadsafe: the coroutine is queued, the thread blocks.
Free == {t \in Coros : coro[t].at = "none"}

Submitted == [NoCoro EXCEPT !.at = "submitted"]

Call(c) ==
    /\ call[c] = NoCall
    /\ state = "connected"
    /\ \E t \in Free :
         /\ \A u \in Free : t <= u
         /\ coro' = [coro EXCEPT ![t] = Submitted]
         /\ call' = [call EXCEPT ![c] = t]
    /\ UNCHANGED <<status, queue, work, tools, loop, past>>

\* An adapter of the registry; the other two have tools of their own, which
\* stay registered, and are tried once.
CallTool(c) == tools /\ Call(c) /\ UNCHANGED last

ReadResource(c) == Call(c) /\ last' = last \cup {c}

GetPrompt(c) == Call(c) /\ last' = last \cup {c}

\* The future has its result; nobody reads that of a caller that gave up.
Awaited(t) == \E c \in Callers : call[c] = t

Finished(t, outcome) ==
    coro' = [coro EXCEPT ![t] = IF Awaited(t)
                                THEN [@ EXCEPT !.at = "done", !.on = NoSession, !.outcome = outcome]
                                ELSE NoCoro]

\* The coroutine reads session and lock together and asks for the lock.
StartCall(t) ==
    /\ loop
    /\ coro[t].at = "submitted"
    /\ \/ /\ session = NoSession                              \* KeyError
          /\ Finished(t, "error")
          /\ UNCHANGED queue
       \/ /\ session # NoSession
          /\ coro' = [coro EXCEPT ![t].at = "locking", ![t].on = session]
          /\ queue' = [queue EXCEPT ![lock] = Append(@, t)]
    /\ UNCHANGED <<status, call, last, work, tools, loop, past>>

\* Whoever gets the lock sends its request without another await.
Calling(t, x) == queue[x] # <<>> /\ Head(queue[x]) = t

\* The server answers or refuses ("ok"), the transport breaks ("lost") or the
\* session raises something else; or the server never answers.
Answer(t, x, outcome) ==
    /\ loop
    /\ Calling(t, x)
    /\ Finished(t, outcome)
    /\ queue' = [queue EXCEPT ![x] = Tail(@)]
    /\ UNCHANGED <<status, call, last, work, tools, loop, past>>

Return(c) ==
    /\ call' = [call EXCEPT ![c] = NoCall]
    /\ last' = last \ {c}

\* Only a broken transport is retried, once, on whatever session there is now.
Retries(c) ==
    /\ coro[call[c]].outcome = "lost"
    /\ c \notin last

Resume(c) ==
    /\ call[c] # NoCall
    /\ coro[call[c]].at = "done"
    /\ \/ /\ Retries(c)
          /\ coro' = [coro EXCEPT ![call[c]] = Submitted]
          /\ last' = last \cup {c}
          /\ UNCHANGED call
       \/ /\ ~Retries(c)
          /\ coro' = [coro EXCEPT ![call[c]] = NoCoro]
          /\ Return(c)
    /\ UNCHANGED <<status, queue, work, tools, loop, past>>

\* future.result(timeout) raises; nobody cancels the coroutine.
Timeout(c) ==
    /\ call[c] # NoCall
    /\ coro[call[c]].at # "done"
    /\ Return(c)
    /\ UNCHANGED <<status, queue, coro, work, tools, loop, past>>

-----------------------------------------------------------------------------
(* A command: the thread that runs it, and its two coroutines. *)

Active(k) == pc[k] \notin {"none", "ended"}

\* A command starts to close the old connection.
Begin(k, w) ==
    /\ pc[k] = "none"
    /\ what' = [what EXCEPT ![k] = w]
    /\ pc' = [pc EXCEPT ![k] = "closing"]
    /\ closer' = [closer EXCEPT ![k] = "queued"]
    /\ mingled' = (mingled \/ \E j \in Commands : Active(j))
    /\ UNCHANGED <<session, stack, lock, calls, opener, listed, tools, loop, overran>>

Reload(k)   == Begin(k, "reload")   /\ UNCHANGED state
Enable(k)   == Begin(k, "enable")   /\ state' = "pending"
Disable(k)  == Begin(k, "disable")  /\ UNCHANGED state
Shutdown(k) == Begin(k, "shutdown") /\ UNCHANGED state

\* What a coroutine of a command leaves: a result, if the thread still waits.
Ends(k, place) == IF pc[k] = place THEN "done" ELSE "none"

ClosesAll(k) == what[k] \in {"reload", "shutdown"}

\* _disconnect_one_async takes the entry out before it awaits the exit of the
\* stack; _close_all_async leaves it in until every stack has exited.
CloseStart(k) ==
    /\ loop
    /\ closer[k] = "queued"
    /\ IF ClosesAll(k)
       THEN /\ IF stack = NoSession THEN session' = NoSession ELSE UNCHANGED session
            /\ UNCHANGED stack
       ELSE stack' = NoSession /\ session' = NoSession
    /\ closer' = [closer EXCEPT ![k] = IF stack # NoSession THEN "exiting" ELSE Ends(k, "closing")]
    /\ UNCHANGED <<state, lock, calls, what, pc, opener, listed, tools, loop, past>>

CloseEnd(k) ==
    /\ loop
    /\ closer[k] = "exiting"
    /\ closer' = [closer EXCEPT ![k] = Ends(k, "closing")]
    /\ IF ClosesAll(k) THEN stack' = NoSession /\ session' = NoSession
                       ELSE UNCHANGED <<stack, session>>
    /\ UNCHANGED <<state, lock, calls, what, pc, opener, listed, tools, loop, past>>

End(k) == pc' = [pc EXCEPT ![k] = "ended"]

\* The thread goes on when the close is done, has failed, or has timed out.
AfterClose(k, w) ==
    /\ pc[k] = "closing"
    /\ what[k] = w
    /\ overran' = (overran \/ closer[k] # "done")
    /\ closer' = [closer EXCEPT ![k] = IF @ = "done" THEN "none" ELSE @]
    /\ UNCHANGED <<session, stack, lock, calls, what, listed, tools, mingled>>

Connect(k) ==
    /\ opener' = [opener EXCEPT ![k] = "queued"]
    /\ pc' = [pc EXCEPT ![k] = "opening"]
    /\ UNCHANGED loop

ReconnectAll(k) == AfterClose(k, "reload") /\ state' = "pending" /\ Connect(k)

ConnectServer(k) == AfterClose(k, "enable") /\ UNCHANGED state /\ Connect(k)

MarkDisabled(k) ==
    /\ AfterClose(k, "disable")
    /\ state' = "disabled"
    /\ pc' = [pc EXCEPT ![k] = "refresh"]
    /\ UNCHANGED <<opener, loop>>

StopLoop(k) ==
    /\ AfterClose(k, "shutdown")
    /\ loop' = FALSE
    /\ End(k)
    /\ UNCHANGED <<state, opener>>

\* _connect_one_async up to its first await.
OpenStart(k) ==
    /\ loop
    /\ opener[k] = "queued"
    /\ state' = "pending"
    /\ opener' = [opener EXCEPT ![k] = "building"]
    /\ UNCHANGED <<session, stack, lock, calls, what, pc, closer, listed, tools, loop, past>>

OpenEndKeepingLock(k) ==
    /\ loop
    /\ opener[k] = "building"
    /\ opener' = [opener EXCEPT ![k] = Ends(k, "opening")]
    /\ state' = "connected" /\ session' = k /\ stack' = k
    /\ lock' = IF lock = NoSession THEN k ELSE lock
    /\ UNCHANGED <<calls, what, pc, closer, listed, tools, loop, past>>

\* Session, stack, a new lock and the state are set without an await between.
OpenEnd(k) ==
    /\ loop
    /\ opener[k] = "building"
    /\ opener' = [opener EXCEPT ![k] = Ends(k, "opening")]
    /\ \/ state' = "connected" /\ session' = k /\ stack' = k /\ lock' = k
       \/ state' = "failed" /\ UNCHANGED <<session, stack, lock>>
    /\ UNCHANGED <<calls, what, pc, closer, listed, tools, loop, past>>

\* A timeout of the connect ends the command before it refreshes the adapters.
AfterOpen(k) ==
    /\ pc[k] = "opening"
    /\ overran' = (overran \/ opener[k] # "done")
    /\ opener' = [opener EXCEPT ![k] = IF @ = "done" THEN "none" ELSE @]
    /\ \/ opener[k] = "done" /\ pc' = [pc EXCEPT ![k] = "refresh"]
       \/ opener[k] # "done" /\ End(k)
    /\ UNCHANGED <<status, calls, what, closer, listed, tools, loop, mingled>>

\* The adapters are taken out and list_tools() is read; then they are put in.
Unregister(k) ==
    /\ pc[k] = "refresh"
    /\ tools' = FALSE
    /\ IF what[k] = "disable"
       THEN End(k) /\ UNCHANGED listed
       ELSE /\ listed' = [listed EXCEPT ![k] = (state = "connected")]
            /\ pc' = [pc EXCEPT ![k] = "registering"]
    /\ UNCHANGED <<status, calls, what, closer, opener, loop, past>>

Register(k) ==
    /\ pc[k] = "registering"
    /\ tools' = (tools \/ listed[k])
    /\ listed' = [listed EXCEPT ![k] = FALSE]
    /\ End(k)
    /\ UNCHANGED <<status, calls, what, closer, opener, loop, past>>

-----------------------------------------------------------------------------
CallerStep(c) == CallTool(c) \/ ReadResource(c) \/ GetPrompt(c) \/ Resume(c) \/ Timeout(c)

CoroStep(t) ==
    \/ StartCall(t)
    \/ \E x \in Connections : \E o \in {"ok", "lost", "error"} : Answer(t, x, o)

CommandStep(k) ==
    \/ Reload(k) \/ Enable(k) \/ Disable(k) \/ Shutdown(k)
    \/ CloseStart(k) \/ CloseEnd(k)
    \/ ReconnectAll(k) \/ ConnectServer(k) \/ MarkDisabled(k) \/ StopLoop(k)
    \/ OpenStart(k) \/ OpenEnd(k) \/ AfterOpen(k)
    \/ Unregister(k) \/ Register(k)

Next == \/ \E c \in Callers : CallerStep(c)
        \/ \E t \in Coros : CoroStep(t)
        \/ \E k \in Commands : CommandStep(k)

Spec == Init /\ [][Next]_vars

-----------------------------------------------------------------------------
\* Types of the dictionaries, the coroutines and the places of the threads.
TypeOK ==
    /\ state \in States /\ {session, stack, lock} \subseteq Connections \cup {NoSession}
    /\ queue \in [Connections -> Seq(Coros)]
    /\ coro \in [Coros -> [at : {"none", "submitted", "locking", "done"},
                          on : Connections \cup {NoSession},
                          outcome : {"none", "ok", "lost", "error"}]]
    /\ call \in [Callers -> Coros \cup {NoCall}] /\ last \subseteq Callers
    /\ what \in [Commands -> Whats]
    /\ pc \in [Commands -> {"none", "closing", "opening", "refresh",
                            "registering", "ended"}]
    /\ closer \in [Commands -> {"none", "queued", "exiting", "done"}]
    /\ opener \in [Commands -> {"none", "queued", "building", "done"}]
    /\ listed \in [Commands -> BOOLEAN]
    /\ {tools, loop, overran, mingled} \subseteq BOOLEAN

\* "MCP sessions are not thread-safe for concurrent calls": a session has one
\* request in flight, also when callers time out and the connection is replaced
\* under them.
OneCallAtATime ==
    \A t, u \in Coros : \A x, y \in Connections :
        Calling(t, x) /\ Calling(u, y) /\ coro[t].on = coro[u].on => t = u

\* A call that hangs holds back calls on its own connection only: whoever waits
\* for a lock waits for calls on the session it has captured, so a reload frees
\* the callers that come after it.
HungCallHoldsItsOwnSession ==
    \A x \in Connections : \A i \in 1..Len(queue[x]) : coro[queue[x][i]].on = x

Quiet == \A k \in Commands : ~Active(k)

\* Between commands a server that is shown as connected has a session to call,
\* however commands overlapped; only a coroutine that outlived its command's
\* timeout may take it away later.
ConnectedHasSession == Quiet /\ ~overran /\ loop /\ state = "connected" => session # NoSession

\* Between commands the agent is offered the server's tools exactly when the
\* server is connected, if no command overlapped another or overran its timeout.
ToolsMatchTheServer ==
    Quiet /\ ~mingled /\ ~overran /\ loop => (tools <=> state = "connected")
=============================================================================
