------------------------ MODULE Connections_proofs -------------------------
(***************************************************************************)
(* Theorems about the connections to MCP servers and about the Matrix      *)
(* rooms, for any callers, servers, rooms, events and restarts.            *)
(***************************************************************************)
EXTENDS MCConnections, SequenceTheorems, TLAPS

(***************************************************************************)
(* The connection to an MCP server.                                        *)
(***************************************************************************)

\* A session and its lock come and go together.
LockFollowsSession == session # NoSession => lock = session

\* Whoever is in the queue of a lock captured that lock's session, and is there once.
QueuesAreSessions == \A x \in Connections : \A i \in 1..Len(queue[x]) :
  /\ coro[queue[x][i]].on = x /\ coro[queue[x][i]].at = "locking"
  /\ \A j \in 1..Len(queue[x]) : queue[x][i] = queue[x][j] => i = j

\* Until a timeout strikes, a coroutine of a command has a thread that waits for it.
Attended == ~overran => \A k \in Commands :
  /\ closer[k] # "none" => pc[k] = "closing"
  /\ opener[k] # "none" => pc[k] = "opening"

\* While the state reads "connected" without a session, a command that has closed one
\* has yet to set the state.
Unsettled(k) == pc[k] = "closing" \/ (pc[k] = "opening" /\ opener[k] = "queued")
SessionIsComing == ~overran /\ loop /\ state = "connected" /\ session = NoSession =>
  \E k \in Commands : Unsettled(k)

OneCommand == ~mingled => \A j, k \in Commands : Active(j) /\ Active(k) => j = k

\* The adapters agree with the state, between commands and as far as the one command
\* has come.
ToolsFollow == ~mingled /\ ~overran /\ loop =>
  /\ Quiet => (tools <=> state = "connected")
  /\ \A k \in Commands :
       /\ pc[k] = "opening" => what[k] # "disable"
       /\ pc[k] = "refresh" /\ what[k] = "disable" => state = "disabled"
       /\ pc[k] = "registering" => ~tools /\ (listed[k] <=> state = "connected")

McpIInv == /\ TypeOK /\ LockFollowsSession /\ QueuesAreSessions /\ Attended /\ SessionIsComing
           /\ OneCommand /\ ToolsFollow

\* The states of a coroutine.
CoroType == [at : {"none", "submitted", "locking", "done"},
             on : Connections \cup {NoSession}, outcome : {"none", "ok", "lost", "error"}]

\* Where a coroutine that begins, waits or ends stands.
LEMMA CoroFacts ==
  /\ NoCoro \in CoroType /\ NoCoro.at = "none"
  /\ Submitted \in CoroType /\ Submitted.at = "submitted"
  BY DEF NoCoro, Submitted, CoroType

\* A coroutine that has finished leaves the others alone.
LEMMA CoroFinished ==
  ASSUME coro \in [Coros -> CoroType], NEW t \in Coros, NEW o \in {"ok", "lost", "error"},
         Finished(t, o)
  PROVE  /\ coro' \in [Coros -> CoroType] /\ coro'[t].at \in {"none", "done"}
         /\ \A u \in Coros \ {t} : coro'[u] = coro[u]
<1>1. CASE Awaited(t)
  BY <1>1 DEF Finished, CoroType
<1>2. CASE ~Awaited(t)
  BY <1>2, CoroFacts DEF Finished
<1> QED
  BY <1>1, <1>2

\* No server is connected and no caller waits.
LEMMA McpInit == Init => McpIInv
<1> SUFFICES ASSUME Init PROVE McpIInv
  OBVIOUS
<1> USE McpAssumption DEF Init
<1>1. TypeOK
  <2>1. coro \in [Coros -> CoroType]
    BY CoroFacts
  <2>2. state \in States /\ {session, stack, lock} \subseteq Connections \cup {NoSession} /\ tools \in BOOLEAN
    BY DEF States, Connections
  <2>3. queue \in [Connections -> Seq(Coros)]
    OBVIOUS
  <2>4. {tools, loop, overran, mingled} \subseteq BOOLEAN
    BY <2>2
  <2>5. /\ call \in [Callers -> Coros \cup {NoCall}] /\ last \subseteq Callers
        /\ what \in [Commands -> Whats] /\ listed \in [Commands -> BOOLEAN]
        /\ closer \in [Commands -> {"none", "queued", "exiting", "done"}]
        /\ opener \in [Commands -> {"none", "queued", "building", "done"}]
        /\ pc \in [Commands -> {"none", "closing", "opening", "refresh", "registering", "ended"}]
    BY DEF Whats
  <2> HIDE DEF Init
  <2> QED
    BY <2>1, <2>2, <2>3, <2>4, <2>5 DEF TypeOK, CoroType
<1>2. LockFollowsSession /\ QueuesAreSessions
  BY DEF LockFollowsSession, QueuesAreSessions
<1>3. Attended /\ SessionIsComing /\ OneCommand /\ ToolsFollow
  BY DEF Attended, SessionIsComing, OneCommand, ToolsFollow, Active, Quiet, Connections
<1> QED
  BY <1>1, <1>2, <1>3 DEF McpIInv

\* Every step of callers, coroutines and commands keeps it.
LEMMA McpNext == McpIInv /\ [Next]_vars => McpIInv'
<1> SUFFICES ASSUME McpIInv, [Next]_vars PROVE McpIInv'
  OBVIOUS
<1> USE McpAssumption DEF McpIInv, Connections, States, Whats, NoCall, status, calls, work, past
<1>1. ASSUME NEW c \in Callers, CallTool(c) PROVE McpIInv'
  <2> USE <1>1, CoroFacts DEF CallTool, Call, Free, CoroType
  <2>1. TypeOK'
    BY DEF TypeOK
  <2>2. LockFollowsSession' /\ QueuesAreSessions'
    BY DEF LockFollowsSession, QueuesAreSessions, TypeOK
  <2>3. Attended' /\ SessionIsComing' /\ OneCommand' /\ ToolsFollow'
    BY DEF Attended, TypeOK, SessionIsComing, Unsettled, OneCommand, Active, ToolsFollow, Quiet
  <2> QED
    BY <2>1, <2>2, <2>3
<1>2. ASSUME NEW c \in Callers, ReadResource(c) PROVE McpIInv'
  <2> USE <1>2, CoroFacts DEF ReadResource, Call, Free, CoroType
  <2>1. TypeOK'
    BY DEF TypeOK
  <2>2. LockFollowsSession' /\ QueuesAreSessions'
    BY DEF LockFollowsSession, QueuesAreSessions, TypeOK
  <2>3. Attended' /\ SessionIsComing' /\ OneCommand' /\ ToolsFollow'
    BY DEF Attended, TypeOK, SessionIsComing, Unsettled, OneCommand, Active, ToolsFollow, Quiet
  <2> QED
    BY <2>1, <2>2, <2>3
<1>3. ASSUME NEW c \in Callers, GetPrompt(c) PROVE McpIInv'
  <2> USE <1>3, CoroFacts DEF GetPrompt, Call, Free, CoroType
  <2>1. TypeOK'
    BY DEF TypeOK
  <2>2. LockFollowsSession' /\ QueuesAreSessions'
    BY DEF LockFollowsSession, QueuesAreSessions, TypeOK
  <2>3. Attended' /\ SessionIsComing' /\ OneCommand' /\ ToolsFollow'
    BY DEF Attended, TypeOK, SessionIsComing, Unsettled, OneCommand, Active, ToolsFollow, Quiet
  <2> QED
    BY <2>1, <2>2, <2>3
<1>4. ASSUME NEW c \in Callers, Resume(c) PROVE McpIInv'
  <2> USE <1>4 DEF Resume, Retries, Return
  <2>0. /\ call[c] \in Coros /\ UNCHANGED <<queue, session, lock>>
        /\ coro[call[c]].at = "done"
        /\ \/ coro' = [coro EXCEPT ![call[c]] = Submitted]
           \/ coro' = [coro EXCEPT ![call[c]] = NoCoro]
    BY DEF TypeOK
  <2>1. TypeOK'
    <3>1. coro' \in [Coros -> CoroType]
      BY <2>0, CoroFacts DEF TypeOK, CoroType
    <3> QED
      BY <3>1 DEF TypeOK, CoroType
  <2>2. LockFollowsSession' /\ QueuesAreSessions'
    <3>1. \A u \in Coros \ {call[c]} : coro'[u] = coro[u]
      BY <2>0 DEF TypeOK
    <3>2. \A x \in Connections : \A i \in 1..Len(queue[x]) : queue[x][i] \in Coros \ {call[c]}
      BY <2>0 DEF QueuesAreSessions, TypeOK
    <3> QED
      BY <2>0, <3>1, <3>2 DEF LockFollowsSession, QueuesAreSessions
  <2>3. Attended' /\ SessionIsComing' /\ OneCommand' /\ ToolsFollow'
    BY DEF Attended, TypeOK, SessionIsComing, Unsettled, OneCommand, Active, ToolsFollow, Quiet
  <2> QED
    BY <2>1, <2>2, <2>3
<1>5. ASSUME NEW c \in Callers, Timeout(c) PROVE McpIInv'
  <2> USE <1>5 DEF Timeout, Return
  <2>1. TypeOK'
    BY DEF TypeOK
  <2>2. LockFollowsSession' /\ QueuesAreSessions'
    BY DEF LockFollowsSession, QueuesAreSessions, TypeOK
  <2>3. Attended' /\ SessionIsComing' /\ OneCommand' /\ ToolsFollow'
    BY DEF Attended, TypeOK, SessionIsComing, Unsettled, OneCommand, Active, ToolsFollow, Quiet
  <2> QED
    BY <2>1, <2>2, <2>3
<1>6. ASSUME NEW t \in Coros, StartCall(t) PROVE McpIInv'
  <2> USE <1>6 DEF StartCall
  <2>0. \/ session = NoSession /\ Finished(t, "error") /\ UNCHANGED queue
        \/ /\ session # NoSession /\ session \in Connections
           /\ coro' = [coro EXCEPT ![t].at = "locking", ![t].on = session]
           /\ queue' = [queue EXCEPT ![session] = Append(@, t)]
    BY DEF TypeOK, LockFollowsSession
  <2>1. TypeOK'
    <3>0. queue \in [Connections -> Seq(Coros)] /\ coro \in [Coros -> CoroType]
      BY DEF TypeOK, CoroType
    <3>1. coro' \in [Coros -> CoroType]
      <4>1. CASE session = NoSession
        BY <2>0, <3>0, <4>1, CoroFinished
      <4>2. CASE session # NoSession
        BY <2>0, <3>0, <4>2 DEF CoroType
      <4> QED
        BY <4>1, <4>2
    <3>2. queue' \in [Connections -> Seq(Coros)]
      <4>1. CASE session = NoSession
        BY <2>0, <3>0, <4>1
      <4>2. CASE session # NoSession
        <5>1. Append(queue[session], t) \in Seq(Coros)
          BY <2>0, <3>0, <4>2, AppendProperties
        <5> QED
          BY <2>0, <3>0, <4>2, <5>1
      <4> QED
        BY <4>1, <4>2
    <3> QED
      BY <3>1, <3>2 DEF TypeOK, CoroType
  <2>2. LockFollowsSession' /\ QueuesAreSessions'
    <3>1. \A x \in Connections : \A i \in 1..Len(queue[x]) : queue[x][i] # t
      BY DEF QueuesAreSessions
    <3>2. CASE session = NoSession
      BY <2>0, <3>1, <3>2, CoroFinished DEF QueuesAreSessions, LockFollowsSession, TypeOK,
             CoroType
    <3>3. CASE session # NoSession
      <4>1. \A u \in Coros \ {t} : coro'[u] = coro[u]
        BY <2>0, <3>3 DEF TypeOK
      <4>2. coro'[t].at = "locking" /\ coro'[t].on = session
        BY <2>0, <3>3 DEF TypeOK
      <4>3. \A x \in Connections \ {session} : queue'[x] = queue[x]
        BY <2>0, <3>3 DEF TypeOK
      <4>4. /\ Len(queue'[session]) = Len(queue[session]) + 1
            /\ \A i \in 1..Len(queue'[session]) : queue'[session][i] =
                 IF i = Len(queue[session]) + 1 THEN t ELSE queue[session][i]
        BY <2>0, <3>3 DEF TypeOK
      <4>5. \A x \in Connections : \A i \in 1..Len(queue[x]) : queue[x][i] \in Coros \ {t}
        BY <3>1 DEF TypeOK
      <4>6. \A x \in Connections : Len(queue[x]) \in Nat
        BY DEF TypeOK
      <4>7. QueuesAreSessions'
        BY <4>1, <4>2, <4>3, <4>4, <4>5, <4>6, SMTT(30) DEF QueuesAreSessions
      <4> QED
        BY <4>7 DEF LockFollowsSession
    <3> QED
      BY <3>2, <3>3
  <2>3. Attended' /\ SessionIsComing' /\ OneCommand' /\ ToolsFollow'
    BY DEF Attended, TypeOK, SessionIsComing, Unsettled, OneCommand, Active, ToolsFollow, Quiet
  <2> QED
    BY <2>1, <2>2, <2>3
<1>7. ASSUME NEW t \in Coros, NEW x \in Connections, NEW o \in {"ok", "lost", "error"}, Answer(t, x, o)
      PROVE  McpIInv'
  <2> USE <1>7 DEF Answer, Calling
  <2>0. /\ queue[x] \in Seq(Coros) /\ queue[x] # <<>> /\ queue[x][1] = t
        /\ queue'[x] = Tail(queue[x])
        /\ \A y \in Connections \ {x} : queue'[y] = queue[y]
    BY DEF TypeOK
  <2>1. TypeOK'
    <3>1. coro' \in [Coros -> CoroType]
      BY CoroFinished DEF TypeOK, CoroType
    <3>2. queue' \in [Connections -> Seq(Coros)]
      BY <2>0 DEF TypeOK
    <3> QED
      BY <3>1, <3>2 DEF TypeOK, CoroType
  <2>2. LockFollowsSession' /\ QueuesAreSessions'
    <3>1. /\ Len(queue[x]) \in Nat /\ Len(queue'[x]) = Len(queue[x]) - 1
          /\ \A i \in 1..Len(queue'[x]) : queue'[x][i] = queue[x][i + 1]
      <4> HIDE <1>7 DEF Answer, Calling
      <4> QED
        BY <2>0, HeadTailProperties, LenProperties
    <3>2. \A i \in 1..Len(queue'[x]) : i + 1 \in 1..Len(queue[x]) /\ i + 1 # 1
      BY <3>1
    <3>3. \A i \in 1..Len(queue'[x]) : queue'[x][i] # t
      BY <2>0, <3>1, <3>2 DEF QueuesAreSessions
    <3>4. \A y \in Connections \ {x} : \A i \in 1..Len(queue[y]) : queue[y][i] # t
      BY <2>0, <3>1 DEF QueuesAreSessions
    <3>5. \A y \in Connections : \A i \in 1..Len(queue[y]) : queue[y][i] \in Coros
      BY DEF TypeOK
    <3>6. \A u \in Coros \ {t} : coro'[u] = coro[u]
      BY CoroFinished DEF TypeOK, CoroType
    <3>7. ASSUME NEW i \in 1..Len(queue'[x])
          PROVE  /\ coro'[queue'[x][i]].on = x /\ coro'[queue'[x][i]].at = "locking"
                 /\ \A j \in 1..Len(queue'[x]) : queue'[x][i] = queue'[x][j] => i = j
      BY <3>1, <3>2, <3>3, <3>5, <3>6 DEF QueuesAreSessions
    <3>8. ASSUME NEW y \in Connections \ {x}, NEW i \in 1..Len(queue'[y])
          PROVE  /\ coro'[queue'[y][i]].on = y /\ coro'[queue'[y][i]].at = "locking"
                 /\ \A j \in 1..Len(queue'[y]) : queue'[y][i] = queue'[y][j] => i = j
      BY <2>0, <3>4, <3>5, <3>6 DEF QueuesAreSessions
    <3>9. QueuesAreSessions'
      BY <3>7, <3>8 DEF QueuesAreSessions
    <3> QED
      BY <3>9 DEF LockFollowsSession
  <2>3. Attended' /\ SessionIsComing' /\ OneCommand' /\ ToolsFollow'
    BY DEF Attended, TypeOK, SessionIsComing, Unsettled, OneCommand, Active, ToolsFollow, Quiet
  <2> QED
    BY <2>1, <2>2, <2>3
<1>8. ASSUME NEW k \in Commands, Reload(k) PROVE McpIInv'
  <2> USE <1>8 DEF Reload, Begin, Active
  <2>1. TypeOK'
    BY DEF TypeOK
  <2>2. LockFollowsSession' /\ QueuesAreSessions'
    BY DEF LockFollowsSession, QueuesAreSessions, TypeOK
  <2>3. Attended' /\ OneCommand'
    <3>1. Attended'
      BY DEF Attended, TypeOK, Active
    <3>2. OneCommand'
      BY DEF OneCommand, TypeOK, Active
    <3> QED
      BY <3>1, <3>2
  <2>4. SessionIsComing'
    BY DEF SessionIsComing, Unsettled, Attended, TypeOK
  <2>5. ToolsFollow'
    BY DEF ToolsFollow, OneCommand, Active, Quiet, Attended, TypeOK
  <2> QED
    BY <2>1, <2>2, <2>3, <2>4, <2>5
<1>9. ASSUME NEW k \in Commands, Enable(k) PROVE McpIInv'
  <2> USE <1>9 DEF Enable, Begin, Active
  <2>1. TypeOK'
    BY DEF TypeOK
  <2>2. LockFollowsSession' /\ QueuesAreSessions'
    BY DEF LockFollowsSession, QueuesAreSessions, TypeOK
  <2>3. Attended' /\ OneCommand'
    <3>1. Attended'
      BY DEF Attended, TypeOK, Active
    <3>2. OneCommand'
      BY DEF OneCommand, TypeOK, Active
    <3> QED
      BY <3>1, <3>2
  <2>4. SessionIsComing'
    BY DEF SessionIsComing, Unsettled, Attended, TypeOK
  <2>5. ToolsFollow'
    BY DEF ToolsFollow, OneCommand, Active, Quiet, Attended, TypeOK
  <2> QED
    BY <2>1, <2>2, <2>3, <2>4, <2>5
<1>10. ASSUME NEW k \in Commands, Disable(k) PROVE McpIInv'
  <2> USE <1>10 DEF Disable, Begin, Active
  <2>1. TypeOK'
    BY DEF TypeOK
  <2>2. LockFollowsSession' /\ QueuesAreSessions'
    BY DEF LockFollowsSession, QueuesAreSessions, TypeOK
  <2>3. Attended' /\ OneCommand'
    <3>1. Attended'
      BY DEF Attended, TypeOK, Active
    <3>2. OneCommand'
      BY DEF OneCommand, TypeOK, Active
    <3> QED
      BY <3>1, <3>2
  <2>4. SessionIsComing'
    BY DEF SessionIsComing, Unsettled, Attended, TypeOK
  <2>5. ToolsFollow'
    BY DEF ToolsFollow, OneCommand, Active, Quiet, Attended, TypeOK
  <2> QED
    BY <2>1, <2>2, <2>3, <2>4, <2>5
<1>11. ASSUME NEW k \in Commands, Shutdown(k) PROVE McpIInv'
  <2> USE <1>11 DEF Shutdown, Begin, Active
  <2>1. TypeOK'
    BY DEF TypeOK
  <2>2. LockFollowsSession' /\ QueuesAreSessions'
    BY DEF LockFollowsSession, QueuesAreSessions, TypeOK
  <2>3. Attended' /\ OneCommand'
    <3>1. Attended'
      BY DEF Attended, TypeOK, Active
    <3>2. OneCommand'
      BY DEF OneCommand, TypeOK, Active
    <3> QED
      BY <3>1, <3>2
  <2>4. SessionIsComing'
    BY DEF SessionIsComing, Unsettled, Attended, TypeOK
  <2>5. ToolsFollow'
    BY DEF ToolsFollow, OneCommand, Active, Quiet, Attended, TypeOK
  <2> QED
    BY <2>1, <2>2, <2>3, <2>4, <2>5
<1>12. ASSUME NEW k \in Commands, CloseStart(k) PROVE McpIInv'
  <2> USE <1>12 DEF CloseStart, ClosesAll, Ends
  <2>1. TypeOK'
    BY DEF TypeOK
  <2>2. LockFollowsSession' /\ QueuesAreSessions'
    BY DEF LockFollowsSession, QueuesAreSessions, TypeOK
  <2>3. Attended' /\ OneCommand'
    BY DEF Attended, TypeOK, OneCommand, Active
  <2>4. SessionIsComing'
    BY DEF SessionIsComing, Unsettled, Attended, TypeOK
  <2>5. ToolsFollow'
    BY DEF ToolsFollow, OneCommand, Active, Quiet, Attended, TypeOK
  <2> QED
    BY <2>1, <2>2, <2>3, <2>4, <2>5
<1>13. ASSUME NEW k \in Commands, CloseEnd(k) PROVE McpIInv'
  <2> USE <1>13 DEF CloseEnd, Ends, ClosesAll
  <2>1. TypeOK'
    BY DEF TypeOK
  <2>2. LockFollowsSession' /\ QueuesAreSessions'
    BY DEF LockFollowsSession, QueuesAreSessions, TypeOK
  <2>3. Attended' /\ OneCommand'
    BY DEF Attended, TypeOK, OneCommand, Active
  <2>4. SessionIsComing'
    BY DEF SessionIsComing, Unsettled, Attended, TypeOK
  <2>5. ToolsFollow'
    BY DEF ToolsFollow, OneCommand, Active, Quiet, Attended, TypeOK
  <2> QED
    BY <2>1, <2>2, <2>3, <2>4, <2>5
<1>14. ASSUME NEW k \in Commands, ReconnectAll(k) PROVE McpIInv'
  <2> USE <1>14 DEF ReconnectAll, AfterClose, Connect
  <2>1. TypeOK'
    BY DEF TypeOK
  <2>2. LockFollowsSession' /\ QueuesAreSessions'
    BY DEF LockFollowsSession, QueuesAreSessions, TypeOK
  <2>3. Attended' /\ OneCommand'
    BY DEF Attended, TypeOK, OneCommand, Active
  <2>4. SessionIsComing'
    BY DEF SessionIsComing, Unsettled, Attended, TypeOK
  <2>5. ToolsFollow'
    BY DEF ToolsFollow, OneCommand, Active, Quiet, Attended, TypeOK
  <2> QED
    BY <2>1, <2>2, <2>3, <2>4, <2>5
<1>15. ASSUME NEW k \in Commands, ConnectServer(k) PROVE McpIInv'
  <2> USE <1>15 DEF ConnectServer, AfterClose, Connect
  <2>1. TypeOK'
    BY DEF TypeOK
  <2>2. LockFollowsSession' /\ QueuesAreSessions'
    BY DEF LockFollowsSession, QueuesAreSessions, TypeOK
  <2>3. Attended' /\ OneCommand'
    BY DEF Attended, TypeOK, OneCommand, Active
  <2>4. SessionIsComing'
    BY DEF SessionIsComing, Unsettled, Attended, TypeOK
  <2>5. ToolsFollow'
    BY DEF ToolsFollow, OneCommand, Active, Quiet, Attended, TypeOK
  <2> QED
    BY <2>1, <2>2, <2>3, <2>4, <2>5
<1>16. ASSUME NEW k \in Commands, MarkDisabled(k) PROVE McpIInv'
  <2> USE <1>16 DEF MarkDisabled, AfterClose
  <2>1. TypeOK'
    BY DEF TypeOK
  <2>2. LockFollowsSession' /\ QueuesAreSessions'
    BY DEF LockFollowsSession, QueuesAreSessions, TypeOK
  <2>3. Attended' /\ OneCommand'
    BY DEF Attended, TypeOK, OneCommand, Active
  <2>4. SessionIsComing'
    BY DEF SessionIsComing, Unsettled, Attended, TypeOK
  <2>5. ToolsFollow'
    BY DEF ToolsFollow, OneCommand, Active, Quiet, Attended, TypeOK
  <2> QED
    BY <2>1, <2>2, <2>3, <2>4, <2>5
<1>17. ASSUME NEW k \in Commands, StopLoop(k) PROVE McpIInv'
  <2> USE <1>17 DEF StopLoop, AfterClose, End
  <2>1. TypeOK'
    BY DEF TypeOK
  <2>2. LockFollowsSession' /\ QueuesAreSessions'
    BY DEF LockFollowsSession, QueuesAreSessions, TypeOK
  <2>3. Attended' /\ OneCommand'
    <3>1. Attended'
      BY DEF Attended, TypeOK, Active
    <3>2. OneCommand'
      BY DEF OneCommand, TypeOK, Active
    <3> QED
      BY <3>1, <3>2
  <2>4. SessionIsComing'
    BY DEF SessionIsComing, Unsettled, Attended, TypeOK
  <2>5. ToolsFollow'
    BY DEF ToolsFollow, OneCommand, Active, Quiet, Attended, TypeOK
  <2> QED
    BY <2>1, <2>2, <2>3, <2>4, <2>5
<1>18. ASSUME NEW k \in Commands, OpenStart(k) PROVE McpIInv'
  <2> USE <1>18 DEF OpenStart
  <2>1. TypeOK'
    BY DEF TypeOK
  <2>2. LockFollowsSession' /\ QueuesAreSessions'
    BY DEF LockFollowsSession, QueuesAreSessions, TypeOK
  <2>3. Attended' /\ OneCommand'
    BY DEF Attended, TypeOK, OneCommand, Active
  <2>4. SessionIsComing'
    BY DEF SessionIsComing, Unsettled, Attended, TypeOK
  <2>5. ToolsFollow'
    <3>1. ~overran => Active(k)
      BY DEF Attended, Active
    <3>2. ~overran /\ ~mingled => \A j \in Commands : Active(j) => j = k
      BY <3>1 DEF OneCommand
    <3> QED
      BY <3>1, <3>2 DEF ToolsFollow, Active, Quiet, Attended, TypeOK
  <2> QED
    BY <2>1, <2>2, <2>3, <2>4, <2>5
<1>19. ASSUME NEW k \in Commands, OpenEnd(k) PROVE McpIInv'
  <2> USE <1>19 DEF OpenEnd, Ends
  <2>1. TypeOK'
    BY DEF TypeOK
  <2>2. LockFollowsSession' /\ QueuesAreSessions'
    BY DEF LockFollowsSession, QueuesAreSessions, TypeOK
  <2>3. Attended' /\ OneCommand'
    <3>1. Attended'
      BY DEF Attended, TypeOK
    <3> QED
      BY <3>1 DEF OneCommand, Active
  <2>4. SessionIsComing'
    BY DEF SessionIsComing, Unsettled, Attended, TypeOK
  <2>5. ToolsFollow'
    <3>1. ~overran => Active(k) /\ pc[k] = "opening"
      BY DEF Attended, Active
    <3>2. ~overran /\ ~mingled => \A j \in Commands : Active(j) => j = k
      BY <3>1 DEF OneCommand
    <3> QED
      BY <3>1, <3>2 DEF ToolsFollow, Active, Quiet
  <2> QED
    BY <2>1, <2>2, <2>3, <2>4, <2>5
<1>20. ASSUME NEW k \in Commands, AfterOpen(k) PROVE McpIInv'
  <2> USE <1>20 DEF AfterOpen, End
  <2>1. TypeOK'
    BY DEF TypeOK
  <2>2. LockFollowsSession' /\ QueuesAreSessions'
    BY DEF LockFollowsSession, QueuesAreSessions, TypeOK
  <2>3. Attended' /\ OneCommand'
    <3>1. \A j \in Commands \ {k} : pc'[j] = pc[j] /\ opener'[j] = opener[j]
      BY DEF TypeOK
    <3>2. \A j \in Commands : pc'[j] \notin {"none", "ended"} => pc[j] \notin {"none", "ended"}
      BY <3>1 DEF TypeOK
    <3>3. ~overran' => opener'[k] = "none" /\ closer'[k] = "none"
      BY DEF TypeOK, Attended
    <3>4. Attended'
      BY <3>1, <3>3 DEF Attended
    <3> QED
      BY <3>2, <3>4 DEF OneCommand, Active
  <2>4. SessionIsComing'
    BY DEF SessionIsComing, Unsettled, Attended, TypeOK
  <2>5. ToolsFollow'
    <3> SUFFICES ASSUME ~mingled, ~overran', loop PROVE ToolsFollow'
      BY DEF ToolsFollow
    <3>1. /\ ~overran /\ opener[k] = "done" /\ what[k] # "disable"
          /\ pc' = [pc EXCEPT ![k] = "refresh"] /\ UNCHANGED <<what, state, tools, listed>>
      BY DEF ToolsFollow, TypeOK
    <3>2. \A j \in Commands : Active(j) => j = k
      BY DEF OneCommand, Active
    <3>3. \A j \in Commands \ {k} : pc'[j] \in {"none", "ended"}
      BY <3>1, <3>2 DEF Active, TypeOK
    <3>4. pc'[k] = "refresh"
      BY <3>1 DEF TypeOK
    <3> QED
      BY <3>1, <3>3, <3>4 DEF ToolsFollow, Active, Quiet
  <2> QED
    BY <2>1, <2>2, <2>3, <2>4, <2>5
<1>21. ASSUME NEW k \in Commands, Unregister(k) PROVE McpIInv'
  <2> USE <1>21 DEF Unregister, End
  <2>1. TypeOK'
    BY DEF TypeOK
  <2>2. LockFollowsSession' /\ QueuesAreSessions'
    BY DEF LockFollowsSession, QueuesAreSessions, TypeOK
  <2>3. Attended' /\ OneCommand'
    <3>1. Attended'
      BY DEF Attended, TypeOK, Active
    <3>2. OneCommand'
      BY DEF OneCommand, TypeOK, Active
    <3> QED
      BY <3>1, <3>2
  <2>4. SessionIsComing'
    BY DEF SessionIsComing, Unsettled, Attended, TypeOK
  <2>5. ToolsFollow'
    <3>1. CASE what[k] = "disable"
      BY <3>1 DEF ToolsFollow, OneCommand, Active, Quiet, TypeOK
    <3>2. CASE what[k] # "disable"
      <4>1. ~tools' /\ (listed'[k] <=> state = "connected") /\ pc'[k] = "registering"
        BY <3>2 DEF TypeOK
      <4> QED
        BY <4>1, <3>2 DEF ToolsFollow, OneCommand, Active, Quiet, TypeOK
    <3> QED
      BY <3>1, <3>2
  <2> QED
    BY <2>1, <2>2, <2>3, <2>4, <2>5
<1>22. ASSUME NEW k \in Commands, Register(k) PROVE McpIInv'
  <2> USE <1>22 DEF Register, End
  <2>0. (tools' <=> tools \/ listed[k]) /\ pc' = [pc EXCEPT ![k] = "ended"] /\ pc[k] = "registering"
    OBVIOUS
  <2>1. TypeOK'
    BY DEF TypeOK
  <2>2. LockFollowsSession' /\ QueuesAreSessions'
    BY DEF LockFollowsSession, QueuesAreSessions, TypeOK
  <2>3. Attended' /\ OneCommand'
    BY DEF Attended, TypeOK, OneCommand, Active
  <2>4. SessionIsComing'
    BY DEF SessionIsComing, Unsettled, Attended, TypeOK
  <2>5. ToolsFollow'
    <3> SUFFICES ASSUME ~mingled, ~overran, loop
                 PROVE  ToolsFollow'
      BY DEF ToolsFollow
    <3>1. ~tools /\ (listed[k] <=> state = "connected") /\ \A j \in Commands : Active(j) => j = k
      BY <2>0 DEF ToolsFollow, OneCommand, Active
    <3>2. tools' <=> state' = "connected"
      BY <2>0, <3>1
    <3>3. \A j \in Commands : pc'[j] \notin {"refresh", "registering"}
      BY <2>0, <3>1 DEF Active, TypeOK
    <3> QED
      BY <3>2, <3>3 DEF ToolsFollow
  <2> QED
    BY <2>1, <2>2, <2>3, <2>4, <2>5
<1>23. ASSUME UNCHANGED vars PROVE McpIInv'
  BY <1>23 DEF vars, TypeOK, LockFollowsSession, QueuesAreSessions, Attended, SessionIsComing,
               Unsettled, OneCommand, Active, ToolsFollow, Quiet
<1> QED
  BY <1>1, <1>2, <1>3, <1>4, <1>5, <1>6, <1>7, <1>8, <1>9, <1>10, <1>11, <1>12, <1>13, <1>14,
         <1>15, <1>16, <1>17, <1>18, <1>19, <1>20, <1>21, <1>22, <1>23 DEF Next, CallerStep,
         CoroStep, CommandStep

\* Whatever the run does, the MCP client only moves as its module says.
LEMMA McpStep == [MCNext]_mcVars => [Next]_vars
  BY DEF MCNext, mcVars, vars, status, calls, work, past

\* A session serves one call at a time, a call that hangs holds up nobody but the callers
\* of its session, and between commands what is shown as connected can be called and has
\* its tools registered (_call_tool_async, _connect_one_async, _disconnect_one_async), for
\* any number of turns and commands.
THEOREM ConnectionsSound == MCSpec => []ConnectionsAreSound
<1>1. MCInit => McpIInv
  BY McpInit DEF MCInit
<1>2. McpIInv /\ [MCNext]_mcVars => McpIInv'
  BY McpNext, McpStep
<1>3. McpIInv => ConnectionsAreSound
  <2> SUFFICES ASSUME McpIInv PROVE ConnectionsAreSound
    OBVIOUS
  <2>1. HungCallHoldsItsOwnSession
    BY DEF McpIInv, QueuesAreSessions, HungCallHoldsItsOwnSession
  <2>2. ASSUME NEW t \in Coros, NEW x \in Connections, Calling(t, x)
        PROVE  coro[t].on = x
    BY <2>2 DEF McpIInv, TypeOK, QueuesAreSessions, Calling
  <2>3. OneCallAtATime
    BY <2>2 DEF OneCallAtATime, Calling
  <2>4. ConnectedHasSession /\ ToolsMatchTheServer
    BY DEF McpIInv, SessionIsComing, Unsettled, ToolsFollow, ConnectedHasSession,
           ToolsMatchTheServer, Quiet, Active
  <2> QED
    BY <2>1, <2>3, <2>4 DEF ConnectionsAreSound
<1> QED
  BY <1>1, <1>2, <1>3, PTL DEF MCSpec

-----------------------------------------------------------------------------
(***************************************************************************)
(* The Matrix rooms.                                                       *)
(***************************************************************************)

\* Every id in use is one that was made.
IdsAreMade ==
  /\ \A r \in Commands : rows[r] <= Rooms!made /\ live[r] <= Rooms!made
  /\ \A e \in Callers : mine[e] <= Rooms!made

\* What is delivered was posted, in a room.
DeliveredIsPosted ==
  /\ \A i \in 1..Len(timeline) : Rooms!KindOf(timeline[i]) # "none"
  /\ \A e \in Callers : /\ at[e] # "none" => Rooms!KindOf(e) # "none"
                        /\ mine[e] # Rooms!Unbound => Rooms!KindOf(e) # "none"
                        /\ Rooms!KindOf(e) # "none" => Rooms!RoomOf(e) \in Commands

\* A callback runs only under a listener, and its event is recorded as seen.
InFlightIsSeen ==
  \A e \in Callers : at[e] \in Rooms!InFlight => e \in seen /\ phase = "listening"

\* Each entry of seen_events, past ones included, pays for one run.
RunIsPaidFor == \A e \in Callers :
  runs[e] + (IF at[e] \in {"admitted", "bound", "resolved"} THEN 1 ELSE 0)
    <= forgotten[e] + (IF e \in seen THEN 1 ELSE 0)

\* The table is pruned once per start, and a start follows a stop.
PrunedPerStart == \A e \in Callers :
  forgotten[e] + (IF phase \in {"down", "starting"} THEN 1 ELSE 0) <= stops

\* A room that never chose has only sessions of its own, wherever their ids are kept.
IdsAreTheRooms ==
  /\ \A r \in Commands \ chosen : /\ rows[r] # Rooms!Unbound => owner[rows[r]] = r
                                  /\ live[r] # Rooms!Unbound => owner[live[r]] = r
  /\ \A e \in Callers : Rooms!RoomOf(e) \in Commands \ chosen /\ mine[e] # Rooms!Unbound =>
       owner[mine[e]] = Rooms!RoomOf(e)

\* A callback that has resolved its room holds the row, until the room has a session.
ResolvedIsRow == \A e \in Callers :
  /\ at[e] \in {"bound", "resolved"} => rows[Rooms!RoomOf(e)] # Rooms!Unbound
  /\ at[e] \in {"resolved", "rebinding"} => mine[e] # Rooms!Unbound
  /\ at[e] = "resolved" /\ live[Rooms!RoomOf(e)] = Rooms!Unbound =>
       mine[e] = rows[Rooms!RoomOf(e)]

\* The rebinds on their way are those of the callbacks that wait for them, each once.
WritesAreRebinds ==
  /\ \A i \in 1..Len(writes) :
       /\ at[writes[i]] = "rebinding"
       /\ \A j \in 1..Len(writes) : writes[i] = writes[j] => i = j
  /\ \A e \in Callers : at[e] = "rebinding" =>
       /\ \E i \in 1..Len(writes) : writes[i] = e
       /\ live[Rooms!RoomOf(e)] # Rooms!Unbound /\ Rooms!RoomOf(e) \in chosen

\* The last rebind of a room carries the session the room talks to; without one on its
\* way, the row does.
LastOfRoom(i) == \A j \in 1..Len(writes) : j > i => Rooms!RoomOf(writes[j]) # Rooms!RoomOf(writes[i])
LastWriteWins ==
  /\ \A i \in 1..Len(writes) :
       LastOfRoom(i) /\ Rooms!RoomOf(writes[i]) \notin renewed =>
         mine[writes[i]] = live[Rooms!RoomOf(writes[i])]
  /\ \A r \in Commands \ renewed :
       live[r] # Rooms!Unbound /\ (\A i \in 1..Len(writes) : Rooms!RoomOf(writes[i]) # r) =>
         live[r] = rows[r]

RoomsIInv == /\ Rooms!TypeOK /\ IdsAreMade /\ DeliveredIsPosted /\ InFlightIsSeen /\ RunIsPaidFor
             /\ PrunedPerStart /\ IdsAreTheRooms /\ ResolvedIsRow /\ WritesAreRebinds
             /\ LastWriteWins

\* No event has come and no room has a session.
LEMMA RoomsInit == Rooms!Init => RoomsIInv
<1> SUFFICES ASSUME Rooms!Init PROVE RoomsIInv
  OBVIOUS
<1> USE Assumptions DEF Rooms!MatrixAssumption, Rooms!Init, Rooms!NotPosted, Rooms!Unbound,
                        Rooms!Sessions, Rooms!InFlight, Rooms!Kinds, Rooms!made
<1>1. Rooms!TypeOK
  <2>1. owner \in Seq(Commands \cup {CommandLine}) /\ Len(owner) = 1
    OBVIOUS
  <2> QED
    BY <2>1 DEF Rooms!TypeOK
<1>2. IdsAreMade /\ InFlightIsSeen /\ RunIsPaidFor /\ PrunedPerStart
  BY DEF IdsAreMade, PrunedPerStart, InFlightIsSeen, RunIsPaidFor
<1>3. DeliveredIsPosted /\ IdsAreTheRooms /\ ResolvedIsRow
  BY DEF DeliveredIsPosted, IdsAreTheRooms, ResolvedIsRow, Rooms!KindOf, Rooms!RoomOf
<1>4. WritesAreRebinds /\ LastWriteWins
  BY DEF WritesAreRebinds, LastWriteWins
<1> QED
  BY <1>1, <1>2, <1>3, <1>4 DEF RoomsIInv

\* A session that is made is one more; the ones before it stay whose they are.
LEMMA OneMoreSession ==
  ASSUME Rooms!TypeOK, NEW who \in Commands \cup {CommandLine}, Rooms!Make(who)
  PROVE  /\ owner' \in Seq(Commands \cup {CommandLine})
         /\ Rooms!made \in Nat /\ Rooms!made' = Rooms!made + 1 /\ Rooms!made' <= MaxSessions
         /\ Rooms!Fresh = Rooms!made + 1 /\ Rooms!Fresh \in Rooms!Sessions
         /\ owner'[Rooms!Fresh] = who
         /\ \A i \in 1..Rooms!made : owner'[i] = owner[i]
<1>1. /\ owner \in Seq(Commands \cup {CommandLine}) /\ Len(owner) \in Nat
      /\ owner' = Append(owner, who) /\ Len(owner) < MaxSessions /\ MaxSessions \in Nat
  BY Assumptions DEF Rooms!TypeOK, Rooms!Make, Rooms!made, Rooms!MatrixAssumption
<1>2. /\ owner' \in Seq(Commands \cup {CommandLine}) /\ Len(owner') = Len(owner) + 1
      /\ owner'[Len(owner) + 1] = who /\ \A i \in 1..Len(owner) : owner'[i] = owner[i]
  BY <1>1, AppendProperties
<1> QED
  BY <1>1, <1>2 DEF Rooms!made, Rooms!Fresh, Rooms!Sessions

\* A step of a callback that is not a rebind leaves the rebinds as they are.
LEMMA WritesStay ==
  ASSUME Rooms!TypeOK, WritesAreRebinds, UNCHANGED <<writes, event, chosen>>, NEW e \in Callers,
         at[e] # "rebinding", at'[e] # "rebinding", \A f \in Callers \ {e} : at'[f] = at[f],
         \A r \in Commands : live[r] # Rooms!Unbound => live'[r] # Rooms!Unbound,
         DeliveredIsPosted
  PROVE  WritesAreRebinds'
<1>1. \A f \in Callers : at'[f] = "rebinding" <=> at[f] = "rebinding"
  OBVIOUS
<1>2. \A i \in 1..Len(writes) : writes[i] \in Callers
  BY DEF Rooms!TypeOK
<1>3. \A f \in Callers : Rooms!RoomOf(f)' = Rooms!RoomOf(f)
  BY DEF Rooms!RoomOf
<1>4. \A f \in Callers : at[f] = "rebinding" => Rooms!RoomOf(f) \in Commands
  BY DEF DeliveredIsPosted
<1> QED
  BY <1>1, <1>2, <1>3, <1>4 DEF WritesAreRebinds

\* The latest write of a room is the latest until another is made.
LEMMA LastWriteStays ==
  ASSUME Rooms!TypeOK, WritesAreRebinds, LastWriteWins, DeliveredIsPosted,
         UNCHANGED <<writes, event>>, NEW e \in Callers,
         at[e] # "rebinding", \A f \in Callers \ {e} : mine'[f] = mine[f],
         renewed \subseteq renewed',
         \A r \in Commands \ renewed' :
           /\ live[r] # Rooms!Unbound => live'[r] = live[r]
           /\ live[r] = Rooms!Unbound /\ live'[r] # Rooms!Unbound => live'[r] = rows'[r],
         \A r \in Commands : rows[r] # Rooms!Unbound => rows'[r] = rows[r]
  PROVE  LastWriteWins'
<1>1. ASSUME NEW i \in 1..Len(writes)
      PROVE  /\ writes[i] \in Callers \ {e} /\ Rooms!RoomOf(writes[i]) \in Commands
             /\ live[Rooms!RoomOf(writes[i])] # Rooms!Unbound
             /\ Rooms!RoomOf(writes[i])' = Rooms!RoomOf(writes[i])
  BY DEF Rooms!TypeOK, WritesAreRebinds, DeliveredIsPosted, Rooms!RoomOf
<1>2. ASSUME NEW i \in 1..Len(writes), LastOfRoom(i)', Rooms!RoomOf(writes[i]) \notin renewed'
      PROVE  mine'[writes[i]] = live'[Rooms!RoomOf(writes[i])]
  <2>1. LastOfRoom(i)
    BY <1>1, <1>2 DEF LastOfRoom
  <2>2. mine[writes[i]] = live[Rooms!RoomOf(writes[i])]
    BY <1>1, <1>2, <2>1 DEF LastWriteWins
  <2> QED
    BY <1>1, <1>2, <2>2
<1>3. ASSUME NEW r \in Commands \ renewed', live'[r] # Rooms!Unbound,
             \A i \in 1..Len(writes) : Rooms!RoomOf(writes[i]) # r
      PROVE  live'[r] = rows'[r]
  <2>1. CASE live[r] = Rooms!Unbound
    BY <1>3, <2>1
  <2>2. CASE live[r] # Rooms!Unbound
    BY <1>3, <2>2 DEF LastWriteWins
  <2> QED
    BY <2>1, <2>2
<1> QED
  <2>1. \A i \in 1..Len(writes') : i \in 1..Len(writes) /\ writes'[i] = writes[i]
    OBVIOUS
  <2>2. \A r : (\A i \in 1..Len(writes') : (Rooms!RoomOf(writes[i]))' # r) =>
                 \A i \in 1..Len(writes) : Rooms!RoomOf(writes[i]) # r
    BY <1>1
  <2> QED
    BY <1>1, <1>2, <1>3, <2>1, <2>2 DEF LastWriteWins, Rooms!Unbound

\* Making a session takes none away from its room.
LEMMA SessionsKeepRooms ==
  ASSUME Rooms!TypeOK, IdsAreMade, IdsAreTheRooms, NEW who \in Commands \cup {CommandLine},
         Rooms!Make(who), UNCHANGED <<event, chosen>>,
         \A r \in Commands : rows'[r] = rows[r] \/ (rows'[r] = Rooms!Fresh /\ who = r),
         \A r \in Commands : live'[r] = live[r] \/ (live'[r] = Rooms!Fresh /\ who = r),
         \A f \in Callers : mine'[f] = mine[f] \/ mine'[f] = Rooms!Unbound
  PROVE  IdsAreMade' /\ IdsAreTheRooms'
<1>1. /\ Rooms!made \in Nat /\ Rooms!made' = Rooms!made + 1
      /\ Rooms!Fresh = Rooms!made + 1 /\ owner'[Rooms!Fresh] = who
      /\ \A i \in 1..Rooms!made : owner'[i] = owner[i]
  BY OneMoreSession
<1>2. /\ \A r \in Commands : rows[r] \in 0..Rooms!made /\ live[r] \in 0..Rooms!made
      /\ \A f \in Callers : mine[f] \in 0..Rooms!made
  <2>1. Rooms!Sessions \cup {Rooms!Unbound} \subseteq Nat
    BY Assumptions DEF Rooms!Sessions, Rooms!Unbound, Rooms!MatrixAssumption
  <2>2. /\ \A r \in Commands : rows[r] \in Nat /\ live[r] \in Nat
        /\ \A f \in Callers : mine[f] \in Nat
    BY <2>1 DEF Rooms!TypeOK
  <2> QED
    BY <1>1, <2>2 DEF IdsAreMade
<1>3. IdsAreMade'
  BY <1>1, <1>2 DEF IdsAreMade, Rooms!Unbound
<1>4. ASSUME NEW r \in Commands \ chosen', rows'[r] # Rooms!Unbound PROVE owner'[rows'[r]] = r
  <2>1. CASE rows'[r] = rows[r]
    <3>1. rows[r] \in 1..Rooms!made
      BY <1>1, <1>2, <1>4, <2>1 DEF Rooms!Unbound
    <3> QED
      BY <1>1, <1>4, <2>1, <3>1 DEF IdsAreTheRooms
  <2>2. CASE rows'[r] # rows[r]
    BY <1>1, <2>2
  <2> QED
    BY <2>1, <2>2
<1>5. ASSUME NEW r \in Commands \ chosen', live'[r] # Rooms!Unbound PROVE owner'[live'[r]] = r
  <2>1. CASE live'[r] = live[r]
    <3>1. live[r] \in 1..Rooms!made
      BY <1>1, <1>2, <1>5, <2>1 DEF Rooms!Unbound
    <3> QED
      BY <1>1, <1>5, <2>1, <3>1 DEF IdsAreTheRooms
  <2>2. CASE live'[r] # live[r]
    BY <1>1, <2>2
  <2> QED
    BY <2>1, <2>2
<1>6. ASSUME NEW f \in Callers, Rooms!RoomOf(f)' \in Commands \ chosen', mine'[f] # Rooms!Unbound
      PROVE  owner'[mine'[f]] = Rooms!RoomOf(f)'
  <2>1. mine'[f] = mine[f] /\ mine[f] \in 1..Rooms!made /\ Rooms!RoomOf(f)' = Rooms!RoomOf(f)
    BY <1>1, <1>2, <1>6 DEF Rooms!Unbound, Rooms!RoomOf
  <2> QED
    BY <1>1, <1>6, <2>1 DEF IdsAreTheRooms
<1> QED
  BY <1>3, <1>4, <1>5, <1>6 DEF IdsAreTheRooms, Rooms!Unbound

\* Every step of a callback, a turn and a command keeps it.
LEMMA RoomsNext == RoomsIInv /\ [Rooms!Next]_(Rooms!vars) => RoomsIInv'
<1> SUFFICES ASSUME RoomsIInv, [Rooms!Next]_(Rooms!vars) PROVE RoomsIInv'
  OBVIOUS
<1> USE Assumptions DEF RoomsIInv, Rooms!MatrixAssumption, Rooms!InFlight, Rooms!Kinds, Rooms!Unbound,
            Rooms!Sessions, Rooms!server, Rooms!ids, Rooms!bounds
<1>1. ASSUME NEW e \in Callers, NEW r \in Commands, NEW kind \in Rooms!Kinds, Rooms!Post(e, r, kind)
      PROVE  RoomsIInv'
  <2> USE <1>1 DEF Rooms!Post
  <2>a. /\ timeline \in Seq(Callers) /\ Len(timeline) \in Nat /\ event[e].kind = "none"
        /\ timeline' \in Seq(Callers) /\ Len(timeline') = Len(timeline) + 1
        /\ timeline'[Len(timeline) + 1] = e
        /\ \A i \in 1..Len(timeline) : timeline'[i] = timeline[i]
    BY AppendProperties, LenProperties DEF Rooms!TypeOK, Rooms!KindOf
  <2>b. /\ \A f \in Callers \ {e} : event'[f] = event[f]
        /\ event'[e].room = r /\ event'[e].kind = kind /\ kind # "none"
    BY DEF Rooms!TypeOK
  <2>c. at[e] = "none" /\ mine[e] = Rooms!Unbound
    BY DEF DeliveredIsPosted
  <2>d. \A i \in 1..Len(writes) : writes[i] \in Callers \ {e}
    BY <2>c, SMTT(30) DEF WritesAreRebinds, Rooms!TypeOK
  <2>1. Rooms!TypeOK'
    BY SMTT(30) DEF Rooms!TypeOK, Rooms!RoomOf, Rooms!KindOf, Rooms!made, Rooms!Fresh
  <2>2. IdsAreMade'
    BY DEF IdsAreMade, Rooms!TypeOK, Rooms!RoomOf, Rooms!KindOf, Rooms!made, Rooms!Fresh
  <2>3. DeliveredIsPosted'
    <3>1. \A i \in 1..Len(timeline') : i \in 1..Len(timeline) \/ i = Len(timeline) + 1
      BY <2>a
    <3>2. \A i \in 1..Len(timeline') : timeline'[i] \in Callers /\ event'[timeline'[i]].kind # "none"
      BY <2>a, <2>b, <3>1 DEF DeliveredIsPosted, Rooms!KindOf
    <3> QED
      BY <2>b, <2>c, <3>2 DEF DeliveredIsPosted, Rooms!KindOf, Rooms!RoomOf
  <2>4. InFlightIsSeen'
    BY DEF InFlightIsSeen, Rooms!TypeOK
  <2>5. RunIsPaidFor'
    BY DEF RunIsPaidFor, InFlightIsSeen, Rooms!TypeOK
  <2>6. PrunedPerStart'
    BY DEF PrunedPerStart, Rooms!TypeOK
  <2>7. IdsAreTheRooms'
    BY <2>b, <2>c DEF IdsAreTheRooms, Rooms!RoomOf
  <2>8. ResolvedIsRow'
    BY DEF ResolvedIsRow, IdsAreMade, DeliveredIsPosted, WritesAreRebinds, Rooms!TypeOK,
           Rooms!RoomOf, Rooms!KindOf, Rooms!made, Rooms!Fresh
  <2>9. WritesAreRebinds'
    BY DEF WritesAreRebinds, DeliveredIsPosted, Rooms!TypeOK, Rooms!RoomOf, Rooms!KindOf,
           Rooms!made, Rooms!Fresh
  <2>10. LastWriteWins'
    <3>1. \A i \in 1..Len(writes) : Rooms!RoomOf(writes[i])' = Rooms!RoomOf(writes[i])
      BY <2>b, <2>d DEF Rooms!RoomOf
    <3>2. UNCHANGED <<writes, mine, live, rows, renewed>>
      OBVIOUS
    <3> HIDE <1>1 DEF Rooms!Post
    <3> QED
      BY <3>1, <3>2 DEF LastWriteWins, LastOfRoom
  <2> QED
    BY <2>1, <2>2, <2>3, <2>4, <2>5, <2>6, <2>7, <2>8, <2>9, <2>10
<1>2. ASSUME Rooms!Replay PROVE RoomsIInv'
  <2> USE <1>2 DEF Rooms!Replay
  <2>1. Rooms!TypeOK'
    BY SMTT(30) DEF Rooms!TypeOK, Rooms!RoomOf, Rooms!KindOf, Rooms!made, Rooms!Fresh
  <2>2. IdsAreMade'
    BY DEF IdsAreMade, Rooms!TypeOK, Rooms!RoomOf, Rooms!KindOf, Rooms!made, Rooms!Fresh
  <2>3. DeliveredIsPosted'
    BY DEF DeliveredIsPosted, Rooms!TypeOK, Rooms!RoomOf, Rooms!KindOf, Rooms!made, Rooms!Fresh
  <2>4. InFlightIsSeen'
    BY DEF InFlightIsSeen, Rooms!TypeOK
  <2>5. RunIsPaidFor'
    BY DEF RunIsPaidFor, InFlightIsSeen, Rooms!TypeOK
  <2>6. PrunedPerStart'
    BY DEF PrunedPerStart, Rooms!TypeOK
  <2>7. IdsAreTheRooms'
    BY SMTT(30) DEF IdsAreTheRooms, IdsAreMade, DeliveredIsPosted, WritesAreRebinds, Rooms!TypeOK,
           Rooms!RoomOf, Rooms!KindOf, Rooms!made, Rooms!Fresh
  <2>8. ResolvedIsRow'
    BY DEF ResolvedIsRow, IdsAreMade, DeliveredIsPosted, WritesAreRebinds, Rooms!TypeOK,
           Rooms!RoomOf, Rooms!KindOf, Rooms!made, Rooms!Fresh
  <2>9. WritesAreRebinds'
    BY DEF WritesAreRebinds, DeliveredIsPosted, Rooms!TypeOK, Rooms!RoomOf, Rooms!KindOf,
           Rooms!made, Rooms!Fresh
  <2>10. LastWriteWins'
    BY DEF LastWriteWins, LastOfRoom, WritesAreRebinds, DeliveredIsPosted, Rooms!TypeOK,
           Rooms!RoomOf, Rooms!KindOf, Rooms!made, Rooms!Fresh
  <2> QED
    BY <2>1, <2>2, <2>3, <2>4, <2>5, <2>6, <2>7, <2>8, <2>9, <2>10
<1>3. ASSUME Rooms!Deliver PROVE RoomsIInv'
  <2> USE <1>3 DEF Rooms!Deliver, Rooms!Move
  <2>a. cursor + 1 \in 1..Len(timeline) /\ timeline \in Seq(Callers)
    BY DEF Rooms!TypeOK
  <2>b. PICK e \in Callers :
          /\ e = timeline[cursor + 1] /\ Rooms!KindOf(e) # "none"
          /\ \/ UNCHANGED <<seen, at>>
             \/ /\ e \notin seen /\ seen' = seen \cup {e}
                /\ \E p \in {"admitted", "done"} : at' = [at EXCEPT ![e] = p]
    BY <2>a DEF DeliveredIsPosted
  <2>c. UNCHANGED <<timeline, event, phase, wired, aged, rows, writes, live, repl, stored,
                    owner, renewed, chosen, mine, runs, forgotten, stops, replays>>
    OBVIOUS
  <2>d. cursor' = cursor + 1 /\ phase = "listening"
    OBVIOUS
  <2> HIDE <1>3 DEF Rooms!Deliver, Rooms!Move, Rooms!InFlight
  <2>1. Rooms!TypeOK'
    <3>1. cursor' \in 0..Len(timeline')
      BY <2>a, <2>c, <2>d DEF Rooms!TypeOK
    <3>2. /\ at' \in [Callers -> Rooms!InFlight \cup {"none", "done", "lost"}]
          /\ seen' \subseteq Callers /\ aged' \subseteq seen'
      BY <2>b, <2>c DEF Rooms!TypeOK, Rooms!InFlight
    <3> QED
      BY <2>c, <3>1, <3>2 DEF Rooms!TypeOK, Rooms!made
  <2>2. IdsAreMade'
    BY <2>c DEF IdsAreMade, Rooms!made
  <2>3. DeliveredIsPosted'
    BY <2>b, <2>c DEF DeliveredIsPosted, Rooms!KindOf, Rooms!RoomOf, Rooms!TypeOK
  <2>4. InFlightIsSeen'
    BY <2>b, <2>c, <2>d DEF InFlightIsSeen, Rooms!TypeOK, Rooms!InFlight
  <2>5. RunIsPaidFor'
    <3>1. CASE UNCHANGED <<seen, at>>
      BY <2>c, <3>1 DEF RunIsPaidFor
    <3>2. ASSUME e \notin seen, seen' = seen \cup {e}, NEW p \in {"admitted", "done"},
                 at' = [at EXCEPT ![e] = p]
          PROVE  RunIsPaidFor'
      <4>1. ASSUME NEW f \in Callers \ {e}
            PROVE  at'[f] = at[f] /\ (f \in seen' <=> f \in seen)
        BY <3>2 DEF Rooms!TypeOK
      <4>2. /\ at[e] \notin {"admitted", "bound", "resolved"} /\ at'[e] = p
            /\ runs[e] \in Nat /\ forgotten[e] \in Nat
        BY <3>2 DEF Rooms!TypeOK, InFlightIsSeen, Rooms!InFlight
      <4>3. runs[e] <= forgotten[e]
        BY <3>2, <4>2 DEF RunIsPaidFor
      <4>4. runs[e] + 1 <= forgotten[e] + 1 /\ runs[e] + 0 <= forgotten[e] + 1 /\ e \in seen'
        BY <3>2, <4>2, <4>3
      <4> QED
        BY <2>c, <4>1, <4>4 DEF RunIsPaidFor
    <3> QED
      BY <2>b, <3>1, <3>2
  <2>6. PrunedPerStart'
    BY <2>c DEF PrunedPerStart
  <2>7. IdsAreTheRooms'
    BY <2>c DEF IdsAreTheRooms, Rooms!RoomOf
  <2>8. ResolvedIsRow'
    <3>1. \A f \in Callers : at'[f] \in {"bound", "resolved", "rebinding"} => at'[f] = at[f]
      BY <2>b DEF Rooms!TypeOK
    <3> QED
      BY <2>c, <3>1 DEF ResolvedIsRow, Rooms!RoomOf
  <2>9. WritesAreRebinds'
    <3>1. CASE UNCHANGED <<seen, at>>
      BY <2>c, <3>1 DEF WritesAreRebinds, Rooms!RoomOf
    <3>2. ASSUME e \notin seen, NEW p \in {"admitted", "done"}, at' = [at EXCEPT ![e] = p]
          PROVE  WritesAreRebinds'
      <4>1. at[e] # "rebinding" /\ at'[e] # "rebinding"
        BY <3>2 DEF Rooms!TypeOK, InFlightIsSeen, Rooms!InFlight
      <4>2. \A f \in Callers \ {e} : at'[f] = at[f]
        BY <3>2 DEF Rooms!TypeOK
      <4> QED
        BY <2>c, <4>1, <4>2, WritesStay
    <3> QED
      BY <2>b, <3>1, <3>2
  <2>10. LastWriteWins'
    <3>1. CASE UNCHANGED <<seen, at>>
      BY <2>c, <3>1 DEF LastWriteWins, LastOfRoom, Rooms!RoomOf
    <3>2. ASSUME e \notin seen, NEW p \in {"admitted", "done"}, at' = [at EXCEPT ![e] = p]
          PROVE  LastWriteWins'
      <4>1. at[e] # "rebinding" /\ at'[e] # "rebinding"
        BY <3>2 DEF Rooms!TypeOK, InFlightIsSeen, Rooms!InFlight
      <4>2. \A f \in Callers \ {e} : at'[f] = at[f]
        BY <3>2 DEF Rooms!TypeOK
      <4> QED
        BY <2>c, <4>1, <4>2, LastWriteStays
    <3> QED
      BY <2>b, <3>1, <3>2
  <2> QED
    BY <2>1, <2>2, <2>3, <2>4, <2>5, <2>6, <2>7, <2>8, <2>9, <2>10
<1>4. ASSUME NEW e \in Callers, Rooms!RefuseImage(e) PROVE RoomsIInv'
  <2> USE <1>4 DEF Rooms!RefuseImage, Rooms!Move
  <2>a. Rooms!RoomOf(e) \in Commands /\ Rooms!RoomOf(e)' = Rooms!RoomOf(e)
        /\ Rooms!RoomOf(e) = event[e].room
    BY DEF DeliveredIsPosted, Rooms!RoomOf
  <2> USE <2>a
  <2>1. Rooms!TypeOK'
    BY SMTT(30) DEF Rooms!TypeOK, Rooms!RoomOf, Rooms!KindOf, Rooms!made, Rooms!Fresh
  <2>2. IdsAreMade'
    BY DEF IdsAreMade, Rooms!TypeOK, Rooms!RoomOf, Rooms!KindOf, Rooms!made, Rooms!Fresh
  <2>3. DeliveredIsPosted'
    BY DEF DeliveredIsPosted, Rooms!TypeOK, Rooms!RoomOf, Rooms!KindOf, Rooms!made, Rooms!Fresh
  <2>4. InFlightIsSeen'
    BY DEF InFlightIsSeen, Rooms!TypeOK
  <2>5. RunIsPaidFor'
    BY DEF RunIsPaidFor, InFlightIsSeen, Rooms!TypeOK
  <2>6. PrunedPerStart'
    BY DEF PrunedPerStart, Rooms!TypeOK
  <2>7. IdsAreTheRooms'
    BY SMTT(30) DEF IdsAreTheRooms, IdsAreMade, DeliveredIsPosted, WritesAreRebinds, Rooms!TypeOK,
           Rooms!RoomOf, Rooms!KindOf, Rooms!made, Rooms!Fresh
  <2>8. ResolvedIsRow'
    BY DEF ResolvedIsRow, IdsAreMade, DeliveredIsPosted, WritesAreRebinds, Rooms!TypeOK,
           Rooms!RoomOf, Rooms!KindOf, Rooms!made, Rooms!Fresh
  <2>9. WritesAreRebinds'
    BY WritesStay DEF Rooms!TypeOK
  <2>10. LastWriteWins'
    BY LastWriteStays DEF Rooms!TypeOK, ResolvedIsRow
  <2> QED
    BY <2>1, <2>2, <2>3, <2>4, <2>5, <2>6, <2>7, <2>8, <2>9, <2>10
<1>5. ASSUME NEW e \in Callers, Rooms!BindRoom(e) PROVE RoomsIInv'
  <2> USE <1>5 DEF Rooms!BindRoom, Rooms!Move
  <2>a. Rooms!RoomOf(e) \in Commands /\ Rooms!RoomOf(e)' = Rooms!RoomOf(e)
        /\ Rooms!RoomOf(e) = event[e].room
    BY DEF DeliveredIsPosted, Rooms!RoomOf
  <2> USE <2>a
  <2>b. \/ UNCHANGED <<owner, rows>> /\ rows[Rooms!RoomOf(e)] # Rooms!Unbound
        \/ /\ rows[Rooms!RoomOf(e)] = Rooms!Unbound /\ Rooms!Make(Rooms!RoomOf(e))
           /\ rows' = [rows EXCEPT ![Rooms!RoomOf(e)] = Rooms!Fresh]
    OBVIOUS
  <2>1. Rooms!TypeOK'
    <3>1. CASE UNCHANGED <<owner, rows>>
      BY <3>1 DEF Rooms!TypeOK, Rooms!made
    <3>2. CASE Rooms!Make(Rooms!RoomOf(e)) /\ rows' = [rows EXCEPT ![Rooms!RoomOf(e)] = Rooms!Fresh]
      <4>1. /\ owner' \in Seq(Commands \cup {CommandLine}) /\ Rooms!made' <= MaxSessions
            /\ {repl', stored'} \subseteq 1..Rooms!made' /\ Rooms!Fresh \in Rooms!Sessions
        BY <3>2, OneMoreSession, SMTT(30) DEF Rooms!TypeOK
      <4> QED
        BY <3>2, <4>1 DEF Rooms!TypeOK
    <3> QED
      BY <2>b, <3>1, <3>2
  <2>2. IdsAreMade'
    <3>1. CASE UNCHANGED <<owner, rows>>
      BY <3>1 DEF IdsAreMade, Rooms!made
    <3>2. CASE Rooms!Make(Rooms!RoomOf(e)) /\ rows' = [rows EXCEPT ![Rooms!RoomOf(e)] = Rooms!Fresh]
      BY <3>2, SessionsKeepRooms DEF Rooms!TypeOK
    <3> QED
      BY <2>b, <3>1, <3>2
  <2>3. DeliveredIsPosted'
    BY DEF DeliveredIsPosted, Rooms!TypeOK, Rooms!RoomOf, Rooms!KindOf, Rooms!made, Rooms!Fresh
  <2>4. InFlightIsSeen'
    BY DEF InFlightIsSeen, Rooms!TypeOK
  <2>5. RunIsPaidFor'
    BY DEF RunIsPaidFor, InFlightIsSeen, Rooms!TypeOK
  <2>6. PrunedPerStart'
    BY DEF PrunedPerStart, Rooms!TypeOK
  <2>7. IdsAreTheRooms'
    <3>1. CASE UNCHANGED <<owner, rows>>
      BY <3>1 DEF IdsAreTheRooms, Rooms!RoomOf
    <3>2. CASE Rooms!Make(Rooms!RoomOf(e)) /\ rows' = [rows EXCEPT ![Rooms!RoomOf(e)] = Rooms!Fresh]
      BY <3>2, SessionsKeepRooms DEF Rooms!TypeOK
    <3> QED
      BY <2>b, <3>1, <3>2
  <2>8. ResolvedIsRow'
    <3>1. \A r \in Commands : rows[r] # Rooms!Unbound => rows'[r] = rows[r]
      BY <2>b DEF Rooms!TypeOK
    <3>2. rows'[Rooms!RoomOf(e)] # Rooms!Unbound
      <4>1. CASE Rooms!Make(Rooms!RoomOf(e)) /\ rows' = [rows EXCEPT ![Rooms!RoomOf(e)] = Rooms!Fresh]
        <5>1. Rooms!Fresh \in Rooms!Sessions
          BY <4>1, OneMoreSession
        <5>2. Rooms!Unbound \notin Rooms!Sessions
          OBVIOUS
        <5>3. rows'[Rooms!RoomOf(e)] = Rooms!Fresh
          BY <4>1 DEF Rooms!TypeOK
        <5> QED
          BY <5>1, <5>2, <5>3
      <4>2. CASE UNCHANGED <<owner, rows>> /\ rows[Rooms!RoomOf(e)] # Rooms!Unbound
        BY <4>2
      <4> QED
        BY <2>b, <4>1, <4>2
    <3>3. \A f \in Callers \ {e} : at'[f] = at[f]
      BY DEF Rooms!TypeOK
    <3>4. at'[e] = "bound"
      BY DEF Rooms!TypeOK
    <3>5. \A f \in Callers : at[f] \in {"bound", "resolved"} => Rooms!RoomOf(f) \in Commands
      BY DEF DeliveredIsPosted
    <3>6. \A f \in Callers : Rooms!RoomOf(f)' = Rooms!RoomOf(f)
      BY DEF Rooms!RoomOf
    <3> QED
      BY <3>1, <3>2, <3>3, <3>4, <3>5, <3>6 DEF ResolvedIsRow
  <2>9. WritesAreRebinds'
    BY WritesStay DEF Rooms!TypeOK
  <2>10. LastWriteWins'
    BY LastWriteStays DEF Rooms!TypeOK, ResolvedIsRow
  <2> QED
    BY <2>1, <2>2, <2>3, <2>4, <2>5, <2>6, <2>7, <2>8, <2>9, <2>10
<1>6. ASSUME NEW e \in Callers, Rooms!ResolveRoom(e) PROVE RoomsIInv'
  <2> USE <1>6 DEF Rooms!ResolveRoom, Rooms!Move
  <2>a. Rooms!RoomOf(e) \in Commands /\ Rooms!RoomOf(e)' = Rooms!RoomOf(e)
        /\ Rooms!RoomOf(e) = event[e].room
    BY DEF DeliveredIsPosted, Rooms!RoomOf
  <2> USE <2>a
  <2>1. Rooms!TypeOK'
    BY SMTT(30) DEF Rooms!TypeOK, Rooms!RoomOf, Rooms!KindOf, Rooms!made, Rooms!Fresh
  <2>2. IdsAreMade'
    BY DEF IdsAreMade, Rooms!TypeOK, Rooms!RoomOf, Rooms!KindOf, Rooms!made, Rooms!Fresh
  <2>3. DeliveredIsPosted'
    BY DEF DeliveredIsPosted, Rooms!TypeOK, Rooms!RoomOf, Rooms!KindOf, Rooms!made, Rooms!Fresh
  <2>4. InFlightIsSeen'
    BY DEF InFlightIsSeen, Rooms!TypeOK
  <2>5. RunIsPaidFor'
    BY DEF RunIsPaidFor, InFlightIsSeen, Rooms!TypeOK
  <2>6. PrunedPerStart'
    BY DEF PrunedPerStart, Rooms!TypeOK
  <2>7. IdsAreTheRooms'
    BY SMTT(30) DEF IdsAreTheRooms, IdsAreMade, DeliveredIsPosted, WritesAreRebinds, Rooms!TypeOK,
           Rooms!RoomOf, Rooms!KindOf, Rooms!made, Rooms!Fresh
  <2>8. ResolvedIsRow'
    BY DEF ResolvedIsRow, IdsAreMade, DeliveredIsPosted, WritesAreRebinds, Rooms!TypeOK,
           Rooms!RoomOf, Rooms!KindOf, Rooms!made, Rooms!Fresh
  <2>9. WritesAreRebinds'
    BY WritesStay DEF Rooms!TypeOK
  <2>10. LastWriteWins'
    BY LastWriteStays DEF Rooms!TypeOK, ResolvedIsRow
  <2> QED
    BY <2>1, <2>2, <2>3, <2>4, <2>5, <2>6, <2>7, <2>8, <2>9, <2>10
<1>7. ASSUME NEW e \in Callers, Rooms!FailClosed(e) PROVE RoomsIInv'
  <2> USE <1>7 DEF Rooms!FailClosed, Rooms!Move
  <2>a. Rooms!RoomOf(e) \in Commands /\ Rooms!RoomOf(e)' = Rooms!RoomOf(e)
        /\ Rooms!RoomOf(e) = event[e].room
    BY DEF DeliveredIsPosted, Rooms!RoomOf
  <2> USE <2>a
  <2>1. Rooms!TypeOK'
    BY SMTT(30) DEF Rooms!TypeOK, Rooms!RoomOf, Rooms!KindOf, Rooms!made, Rooms!Fresh
  <2>2. IdsAreMade'
    BY DEF IdsAreMade, Rooms!TypeOK, Rooms!RoomOf, Rooms!KindOf, Rooms!made, Rooms!Fresh
  <2>3. DeliveredIsPosted'
    BY DEF DeliveredIsPosted, Rooms!TypeOK, Rooms!RoomOf, Rooms!KindOf, Rooms!made, Rooms!Fresh
  <2>4. InFlightIsSeen'
    BY DEF InFlightIsSeen, Rooms!TypeOK
  <2>5. RunIsPaidFor'
    BY DEF RunIsPaidFor, InFlightIsSeen, Rooms!TypeOK
  <2>6. PrunedPerStart'
    BY DEF PrunedPerStart, Rooms!TypeOK
  <2>7. IdsAreTheRooms'
    BY SMTT(30) DEF IdsAreTheRooms, IdsAreMade, DeliveredIsPosted, WritesAreRebinds, Rooms!TypeOK,
           Rooms!RoomOf, Rooms!KindOf, Rooms!made, Rooms!Fresh
  <2>8. ResolvedIsRow'
    BY DEF ResolvedIsRow, IdsAreMade, DeliveredIsPosted, WritesAreRebinds, Rooms!TypeOK,
           Rooms!RoomOf, Rooms!KindOf, Rooms!made, Rooms!Fresh
  <2>9. WritesAreRebinds'
    BY WritesStay DEF Rooms!TypeOK
  <2>10. LastWriteWins'
    BY LastWriteStays DEF Rooms!TypeOK, ResolvedIsRow
  <2> QED
    BY <2>1, <2>2, <2>3, <2>4, <2>5, <2>6, <2>7, <2>8, <2>9, <2>10
<1>8. ASSUME NEW e \in Callers, Rooms!Dispatch(e) PROVE RoomsIInv'
  <2> USE <1>8 DEF Rooms!Dispatch, Rooms!Run, Rooms!SessionOf, Rooms!Move
  <2>a. Rooms!RoomOf(e) \in Commands /\ Rooms!RoomOf(e)' = Rooms!RoomOf(e)
        /\ Rooms!RoomOf(e) = event[e].room
    BY DEF DeliveredIsPosted, Rooms!RoomOf
  <2> USE <2>a
  <2>1. Rooms!TypeOK'
    BY SMTT(30) DEF Rooms!TypeOK, Rooms!RoomOf, Rooms!KindOf, Rooms!made, Rooms!Fresh
  <2>2. IdsAreMade'
    BY DEF IdsAreMade, Rooms!TypeOK, Rooms!RoomOf, Rooms!KindOf, Rooms!made, Rooms!Fresh
  <2>3. DeliveredIsPosted'
    BY DEF DeliveredIsPosted, Rooms!TypeOK, Rooms!RoomOf, Rooms!KindOf, Rooms!made, Rooms!Fresh
  <2>4. InFlightIsSeen'
    BY DEF InFlightIsSeen, Rooms!TypeOK
  <2>5. RunIsPaidFor'
    BY DEF RunIsPaidFor, InFlightIsSeen, Rooms!TypeOK
  <2>6. PrunedPerStart'
    BY DEF PrunedPerStart, Rooms!TypeOK
  <2>7. IdsAreTheRooms'
    BY SMTT(30) DEF IdsAreTheRooms, IdsAreMade, DeliveredIsPosted, WritesAreRebinds, Rooms!TypeOK,
           Rooms!RoomOf, Rooms!KindOf, Rooms!made, Rooms!Fresh
  <2>8. ResolvedIsRow'
    BY DEF ResolvedIsRow, IdsAreMade, DeliveredIsPosted, WritesAreRebinds, Rooms!TypeOK,
           Rooms!RoomOf, Rooms!KindOf, Rooms!made, Rooms!Fresh
  <2>9. WritesAreRebinds'
    BY WritesStay DEF Rooms!TypeOK
  <2>10. LastWriteWins'
    BY LastWriteStays DEF Rooms!TypeOK, ResolvedIsRow
  <2> QED
    BY <2>1, <2>2, <2>3, <2>4, <2>5, <2>6, <2>7, <2>8, <2>9, <2>10
<1>9. ASSUME NEW e \in Callers, Rooms!NewSession(e) PROVE RoomsIInv'
  <2> USE <1>9 DEF Rooms!NewSession, Rooms!Run, Rooms!Move
  <2>a. Rooms!RoomOf(e) \in Commands /\ Rooms!RoomOf(e)' = Rooms!RoomOf(e)
        /\ Rooms!RoomOf(e) = event[e].room
    BY DEF DeliveredIsPosted, Rooms!RoomOf
  <2> USE <2>a
  <2>b. /\ owner' \in Seq(Commands \cup {CommandLine})
        /\ Rooms!made \in Nat /\ Rooms!made' = Rooms!made + 1 /\ Rooms!made' <= MaxSessions
        /\ Rooms!Fresh = Rooms!made + 1 /\ Rooms!Fresh \in Rooms!Sessions
        /\ owner'[Rooms!Fresh] = Rooms!RoomOf(e)
        /\ \A i \in 1..Rooms!made : owner'[i] = owner[i]
    BY OneMoreSession
  <2> HIDE DEF Rooms!Make
  <2>1. Rooms!TypeOK'
    BY <2>b, SMTT(30) DEF Rooms!TypeOK, Rooms!KindOf, Rooms!RoomOf
  <2>2. IdsAreMade'
    BY SessionsKeepRooms DEF Rooms!TypeOK
  <2>3. DeliveredIsPosted'
    BY DEF DeliveredIsPosted, Rooms!TypeOK, Rooms!RoomOf, Rooms!KindOf, Rooms!made, Rooms!Fresh
  <2>4. InFlightIsSeen'
    BY DEF InFlightIsSeen, Rooms!TypeOK
  <2>5. RunIsPaidFor'
    BY DEF RunIsPaidFor, InFlightIsSeen, Rooms!TypeOK
  <2>6. PrunedPerStart'
    BY DEF PrunedPerStart, Rooms!TypeOK
  <2>7. IdsAreTheRooms'
    BY SessionsKeepRooms DEF Rooms!TypeOK
  <2>8. ResolvedIsRow'
    BY <2>b DEF ResolvedIsRow, IdsAreMade, DeliveredIsPosted, WritesAreRebinds, Rooms!TypeOK,
                Rooms!KindOf, Rooms!RoomOf
  <2>9. WritesAreRebinds'
    <3>1. \A r \in Commands : live[r] # Rooms!Unbound => live'[r] # Rooms!Unbound
      BY <2>b DEF Rooms!TypeOK
    <3> QED
      BY <3>1, WritesStay DEF Rooms!TypeOK
  <2>10. LastWriteWins'
    BY LastWriteStays DEF Rooms!TypeOK, ResolvedIsRow
  <2> QED
    BY <2>1, <2>2, <2>3, <2>4, <2>5, <2>6, <2>7, <2>8, <2>9, <2>10
<1>10. ASSUME NEW e \in Callers, NEW s \in Rooms!Sessions, Rooms!SwitchSession(e, s)
       PROVE  RoomsIInv'
  <2> USE <1>10 DEF Rooms!SwitchSession, Rooms!Run, Rooms!SessionOf, Rooms!Move
  <2>a. Rooms!RoomOf(e) \in Commands /\ Rooms!RoomOf(e)' = Rooms!RoomOf(e)
        /\ Rooms!RoomOf(e) = event[e].room
    BY DEF DeliveredIsPosted, Rooms!RoomOf
  <2> USE <2>a
  <2>b. /\ writes \in Seq(Callers) /\ Len(writes) \in Nat
        /\ writes' \in Seq(Callers) /\ Len(writes') = Len(writes) + 1
        /\ writes'[Len(writes) + 1] = e
        /\ \A i \in 1..Len(writes) : writes'[i] = writes[i]
    BY AppendProperties, LenProperties DEF Rooms!TypeOK
  <2>c. \A i \in 1..Len(writes') : i \in 1..Len(writes) \/ i = Len(writes) + 1
    BY <2>b
  <2>d. \A i \in 1..Len(writes) : writes[i] \in Callers \ {e}
    BY <2>b DEF WritesAreRebinds
  <2>e. /\ \A f \in Callers \ {e} : at'[f] = at[f] /\ mine'[f] = mine[f]
        /\ at'[e] = "rebinding" /\ mine'[e] = s /\ s # Rooms!Unbound
        /\ \A r \in Commands \ {Rooms!RoomOf(e)} : live'[r] = live[r]
        /\ live'[Rooms!RoomOf(e)] = s
        /\ chosen' = chosen \cup {Rooms!RoomOf(e)} /\ renewed' = renewed \ {Rooms!RoomOf(e)}
        /\ UNCHANGED <<event, rows>>
    BY DEF Rooms!TypeOK
  <2>f. \A f \in Callers : Rooms!RoomOf(f)' = Rooms!RoomOf(f)
    BY <2>e DEF Rooms!RoomOf
  <2>g. \A i \in 1..Len(writes) : Rooms!RoomOf(writes[i]) \in Commands
    BY <2>d DEF DeliveredIsPosted, WritesAreRebinds
  <2>1. Rooms!TypeOK'
    BY SMTT(30) DEF Rooms!TypeOK, Rooms!RoomOf, Rooms!KindOf, Rooms!made, Rooms!Fresh
  <2>2. IdsAreMade'
    BY DEF IdsAreMade, Rooms!TypeOK, Rooms!RoomOf, Rooms!KindOf, Rooms!made, Rooms!Fresh
  <2>3. DeliveredIsPosted'
    BY DEF DeliveredIsPosted, Rooms!TypeOK, Rooms!RoomOf, Rooms!KindOf, Rooms!made, Rooms!Fresh
  <2>4. InFlightIsSeen'
    BY DEF InFlightIsSeen, Rooms!TypeOK
  <2>5. RunIsPaidFor'
    <3>1. /\ runs'[e] = runs[e] + 1 /\ \A f \in Callers \ {e} : runs'[f] = runs[f]
          /\ at[e] = "resolved" /\ UNCHANGED <<forgotten, seen>> /\ runs[e] \in Nat
      BY DEF Rooms!TypeOK
    <3> HIDE <1>10 DEF Rooms!SwitchSession, Rooms!Run, Rooms!Move
    <3>2. runs'[e] + 0 <= forgotten'[e] + (IF e \in seen' THEN 1 ELSE 0)
      BY <3>1 DEF RunIsPaidFor
    <3> QED
      BY <2>e, <3>1, <3>2 DEF RunIsPaidFor
  <2>6. PrunedPerStart'
    BY DEF PrunedPerStart, Rooms!TypeOK
  <2>7. IdsAreTheRooms'
    BY SMTT(30) DEF IdsAreTheRooms, IdsAreMade, DeliveredIsPosted, WritesAreRebinds, Rooms!TypeOK,
           Rooms!RoomOf, Rooms!KindOf, Rooms!made, Rooms!Fresh
  <2>8. ResolvedIsRow'
    <3> HIDE <1>10 DEF Rooms!SwitchSession, Rooms!Run, Rooms!Move
    <3>1. \A f \in Callers : at[f] \in {"bound", "resolved"} => Rooms!RoomOf(f) \in Commands
      BY DEF DeliveredIsPosted
    <3> QED
      BY <2>e, <2>f, <3>1 DEF ResolvedIsRow, Rooms!Unbound
  <2>9. WritesAreRebinds'
    <3> HIDE <1>10 DEF Rooms!SwitchSession, Rooms!Run, Rooms!Move
    <3>1. ASSUME NEW i \in 1..Len(writes')
          PROVE  at'[writes'[i]] = "rebinding" /\ \A j \in 1..Len(writes') : writes'[i] = writes'[j] => i = j
      BY <2>b, <2>c, <2>d, <2>e, SMTT(30) DEF WritesAreRebinds
    <3>2. ASSUME NEW f \in Callers, at'[f] = "rebinding"
          PROVE  /\ \E i \in 1..Len(writes') : writes'[i] = f
                 /\ live'[Rooms!RoomOf(f)] # Rooms!Unbound /\ Rooms!RoomOf(f) \in chosen'
      <4>1. CASE f = e
        <5>1. Len(writes) + 1 \in 1..Len(writes')
          BY <2>b
        <5> QED
          BY <2>b, <2>e, <4>1, <5>1
      <4>2. CASE f # e
        <5>1. at[f] = "rebinding" /\ Rooms!RoomOf(f) \in Commands
          BY <2>e, <3>2, <4>2 DEF DeliveredIsPosted
        <5>2. PICK i \in 1..Len(writes) : writes[i] = f
          BY <5>1 DEF WritesAreRebinds
        <5>3. i \in 1..Len(writes') /\ writes'[i] = f
          BY <2>b, <5>2
        <5>4. live[Rooms!RoomOf(f)] # Rooms!Unbound /\ Rooms!RoomOf(f) \in chosen
          BY <5>1 DEF WritesAreRebinds
        <5> QED
          BY <2>e, <5>1, <5>3, <5>4
      <4> QED
        BY <4>1, <4>2
    <3> QED
      BY <2>f, <3>1, <3>2 DEF WritesAreRebinds, Rooms!Unbound
  <2>10. LastWriteWins'
    <3> HIDE <1>10 DEF Rooms!SwitchSession, Rooms!Run, Rooms!Move
    <3>1. ASSUME NEW i \in 1..Len(writes'), Rooms!RoomOf(writes'[i]) \notin renewed',
                 \A j \in 1..Len(writes') : j > i => Rooms!RoomOf(writes'[j]) # Rooms!RoomOf(writes'[i])
          PROVE  mine'[writes'[i]] = live'[Rooms!RoomOf(writes'[i])]
      <4>1. CASE i = Len(writes) + 1
        BY <2>b, <2>e, <4>1
      <4>2. CASE i \in 1..Len(writes)
        <5>1. Rooms!RoomOf(writes[i]) # Rooms!RoomOf(e)
          <6>1. Len(writes) + 1 \in 1..Len(writes') /\ Len(writes) + 1 > i
            BY <2>b, <4>2
          <6> QED
            BY <2>b, <3>1, <4>2, <6>1
        <5>2. \A j \in 1..Len(writes) : j \in 1..Len(writes') /\ writes'[j] = writes[j]
          BY <2>b
        <5>3. LastOfRoom(i)
          BY <3>1, <4>2, <5>2 DEF LastOfRoom
        <5>4. mine[writes[i]] = live[Rooms!RoomOf(writes[i])]
          BY <2>e, <3>1, <4>2, <5>1, <5>2, <5>3 DEF LastWriteWins
        <5> QED
          BY <2>d, <2>e, <2>g, <4>2, <5>1, <5>2, <5>4
      <4> QED
        BY <2>c, <4>1, <4>2
    <3>2. ASSUME NEW r \in Commands \ renewed', live'[r] # Rooms!Unbound,
                 \A i \in 1..Len(writes') : Rooms!RoomOf(writes'[i]) # r
          PROVE  live'[r] = rows'[r]
      <4>1. r # Rooms!RoomOf(e)
        <5>1. Len(writes) + 1 \in 1..Len(writes')
          BY <2>b
        <5> QED
          BY <2>b, <3>2, <5>1
      <4>2. \A i \in 1..Len(writes) : i \in 1..Len(writes') /\ writes'[i] = writes[i]
        BY <2>b
      <4> QED
        BY <2>e, <3>2, <4>1, <4>2 DEF LastWriteWins
    <3>3. \A i \in 1..Len(writes') : writes'[i] \in Callers
      BY <2>b
    <3>4. \A i \in 1..Len(writes') : (Rooms!RoomOf(writes[i]))' = Rooms!RoomOf(writes'[i])
      BY <2>e DEF Rooms!RoomOf
    <3> QED
      BY <3>1, <3>2, <3>4 DEF LastWriteWins, LastOfRoom, Rooms!Unbound
  <2> QED
    BY <2>1, <2>2, <2>3, <2>4, <2>5, <2>6, <2>7, <2>8, <2>9, <2>10
<1>11. ASSUME NEW e \in Callers, Rooms!Rebind(e) PROVE RoomsIInv'
  <2> USE <1>11 DEF Rooms!Rebind, Rooms!Move
  <2>a. Rooms!RoomOf(e) \in Commands /\ Rooms!RoomOf(e)' = Rooms!RoomOf(e)
        /\ Rooms!RoomOf(e) = event[e].room
    BY DEF DeliveredIsPosted, Rooms!RoomOf
  <2> USE <2>a
  <2>b. PICK k \in 1..Len(writes) : writes[k] = e
    BY DEF WritesAreRebinds
  <2>c. /\ writes \in Seq(Callers) /\ Len(writes) \in Nat /\ writes # <<>> /\ writes[1] = e
        /\ 1 \in 1..Len(writes)
    BY <2>b, LenProperties, EmptySeq DEF Rooms!TypeOK
  <2>d. /\ writes' \in Seq(Callers) /\ Len(writes') = Len(writes) - 1
        /\ \A i \in 1..Len(writes') : writes'[i] = writes[i + 1]
    BY <2>c, HeadTailProperties
  <2>e. \A i \in 1..Len(writes') : i + 1 \in 1..Len(writes) /\ i + 1 # 1
    BY <2>c, <2>d
  <2>f. \A i \in 1..Len(writes) : i # 1 => writes[i] \in Callers \ {e} /\ i - 1 \in 1..Len(writes') /\ i = (i - 1) + 1
    BY <2>c, <2>d DEF WritesAreRebinds
  <2>g. /\ \A f \in Callers \ {e} : at'[f] = at[f] /\ mine'[f] = mine[f]
        /\ at[e] = "rebinding" /\ at'[e] = "done" /\ mine'[e] = Rooms!Unbound
        /\ \A r \in Commands \ {Rooms!RoomOf(e)} : rows'[r] = rows[r]
        /\ rows'[Rooms!RoomOf(e)] = mine[e] /\ UNCHANGED <<event, live, chosen, renewed>>
    BY DEF Rooms!TypeOK
  <2>h. \A f \in Callers : Rooms!RoomOf(f)' = Rooms!RoomOf(f)
    BY <2>g DEF Rooms!RoomOf
  <2>i. \A i \in 1..Len(writes) : Rooms!RoomOf(writes[i]) \in Commands
    BY <2>c DEF DeliveredIsPosted, WritesAreRebinds
  <2>j. mine[e] # Rooms!Unbound
    BY <2>g DEF ResolvedIsRow
  <2>1. Rooms!TypeOK'
    <3>1. rows' \in [Commands -> Rooms!Sessions \cup {Rooms!Unbound}]
      BY DEF Rooms!TypeOK
    <3>2. mine' \in [Callers -> Rooms!Sessions \cup {Rooms!Unbound}]
      BY DEF Rooms!TypeOK
    <3> QED
      BY <2>d, <3>1, <3>2 DEF Rooms!TypeOK, Rooms!made
  <2>2. IdsAreMade'
    BY SMTT(30) DEF IdsAreMade, Rooms!TypeOK, Rooms!RoomOf, Rooms!KindOf, Rooms!made, Rooms!Fresh
  <2>3. DeliveredIsPosted'
    BY DEF DeliveredIsPosted, Rooms!TypeOK, Rooms!RoomOf, Rooms!KindOf, Rooms!made, Rooms!Fresh
  <2>4. InFlightIsSeen'
    BY DEF InFlightIsSeen, Rooms!TypeOK
  <2>5. RunIsPaidFor'
    BY DEF RunIsPaidFor, InFlightIsSeen, Rooms!TypeOK
  <2>6. PrunedPerStart'
    BY DEF PrunedPerStart, Rooms!TypeOK
  <2>7. IdsAreTheRooms'
    BY SMTT(30) DEF IdsAreTheRooms, IdsAreMade, DeliveredIsPosted, WritesAreRebinds, Rooms!TypeOK,
           Rooms!RoomOf, Rooms!KindOf, Rooms!made, Rooms!Fresh
  <2>8. ResolvedIsRow'
    <3> HIDE <1>11 DEF Rooms!Rebind, Rooms!Move
    <3>1. \A f \in Callers : at[f] \in {"bound", "resolved"} => Rooms!RoomOf(f) \in Commands
      BY DEF DeliveredIsPosted
    <3>2. live[Rooms!RoomOf(e)] # Rooms!Unbound
      BY <2>g DEF WritesAreRebinds
    <3> QED
      BY <2>g, <2>h, <2>j, <3>1, <3>2 DEF ResolvedIsRow, Rooms!Unbound
  <2>9. WritesAreRebinds'
    <3> HIDE <1>11 DEF Rooms!Rebind, Rooms!Move
    <3>1. ASSUME NEW i \in 1..Len(writes')
          PROVE  at'[writes'[i]] = "rebinding" /\ \A j \in 1..Len(writes') : writes'[i] = writes'[j] => i = j
      <4>1. i + 1 \in 1..Len(writes) /\ i + 1 # 1 /\ writes'[i] = writes[i + 1]
        BY <2>d, <2>e
      <4>2. at'[writes'[i]] = "rebinding"
        BY <2>f, <2>g, <4>1 DEF WritesAreRebinds
      <4>3. ASSUME NEW j \in 1..Len(writes'), writes'[i] = writes'[j] PROVE i = j
        <5>1. j + 1 \in 1..Len(writes) /\ writes'[j] = writes[j + 1]
          BY <2>d, <2>e
        <5>2. i + 1 = j + 1
          BY <4>1, <4>3, <5>1 DEF WritesAreRebinds
        <5> QED
          BY <5>2
      <4> QED
        BY <4>2, <4>3
    <3>2. ASSUME NEW f \in Callers, at'[f] = "rebinding"
          PROVE  /\ \E i \in 1..Len(writes') : writes'[i] = f
                 /\ live'[Rooms!RoomOf(f)] # Rooms!Unbound /\ Rooms!RoomOf(f) \in chosen'
      <4>1. f # e /\ at[f] = "rebinding"
        BY <2>g, <3>2
      <4>2. PICK i \in 1..Len(writes) : writes[i] = f
        BY <4>1 DEF WritesAreRebinds
      <4>3. i # 1 /\ i - 1 \in 1..Len(writes') /\ writes'[i - 1] = f
        BY <2>c, <2>d, <2>f, <4>1, <4>2
      <4> QED
        BY <2>g, <4>1, <4>3 DEF WritesAreRebinds
    <3> QED
      BY <2>h, <3>1, <3>2 DEF WritesAreRebinds, Rooms!Unbound
  <2>10. LastWriteWins'
    <3> HIDE <1>11 DEF Rooms!Rebind, Rooms!Move
    <3>1. ASSUME NEW i \in 1..Len(writes'), Rooms!RoomOf(writes'[i]) \notin renewed',
                 \A j \in 1..Len(writes') : j > i => Rooms!RoomOf(writes'[j]) # Rooms!RoomOf(writes'[i])
          PROVE  mine'[writes'[i]] = live'[Rooms!RoomOf(writes'[i])]
      <4>1. i + 1 \in 1..Len(writes) /\ i + 1 # 1 /\ writes'[i] = writes[i + 1]
        BY <2>d, <2>e
      <4>2. LastOfRoom(i + 1)
        <5> SUFFICES ASSUME NEW j \in 1..Len(writes), j > i + 1
                     PROVE  Rooms!RoomOf(writes[j]) # Rooms!RoomOf(writes[i + 1])
          BY DEF LastOfRoom
        <5>1. j - 1 \in 1..Len(writes') /\ j - 1 > i /\ writes'[j - 1] = writes[j]
          BY <2>c, <2>d, <2>f
        <5> QED
          BY <3>1, <4>1, <5>1
      <4>3. mine[writes[i + 1]] = live[Rooms!RoomOf(writes[i + 1])]
        BY <2>g, <3>1, <4>1, <4>2 DEF LastWriteWins
      <4> QED
        BY <2>f, <2>g, <4>1, <4>3
    <3>2. ASSUME NEW r \in Commands \ renewed', live'[r] # Rooms!Unbound,
                 \A i \in 1..Len(writes') : Rooms!RoomOf(writes'[i]) # r
          PROVE  live'[r] = rows'[r]
      <4>1. ASSUME NEW i \in 1..Len(writes), i # 1 PROVE Rooms!RoomOf(writes[i]) # r
        <5>1. i - 1 \in 1..Len(writes') /\ writes'[i - 1] = writes[i]
          BY <2>c, <2>d, <2>f, <4>1
        <5> QED
          BY <3>2, <5>1
      <4>2. CASE r = Rooms!RoomOf(e)
        <5>1. LastOfRoom(1)
          BY <2>c, <4>1, <4>2 DEF LastOfRoom
        <5>2. mine[e] = live[r]
          BY <2>c, <2>g, <3>2, <4>2, <5>1 DEF LastWriteWins
        <5> QED
          BY <2>g, <4>2, <5>2
      <4>3. CASE r # Rooms!RoomOf(e)
        <5>1. \A i \in 1..Len(writes) : Rooms!RoomOf(writes[i]) # r
          BY <2>c, <4>1, <4>3
        <5> QED
          BY <2>g, <3>2, <4>3, <5>1 DEF LastWriteWins
      <4> QED
        BY <4>2, <4>3
    <3>3. \A i \in 1..Len(writes') : (Rooms!RoomOf(writes[i]))' = Rooms!RoomOf(writes'[i])
      BY <2>g DEF Rooms!RoomOf
    <3> QED
      BY <3>1, <3>2, <3>3 DEF LastWriteWins, LastOfRoom, Rooms!Unbound
  <2> QED
    BY <2>1, <2>2, <2>3, <2>4, <2>5, <2>6, <2>7, <2>8, <2>9, <2>10
<1>12. ASSUME NEW e \in Callers, Rooms!TurnEnds(e) PROVE RoomsIInv'
  <2> USE <1>12 DEF Rooms!TurnEnds, Rooms!Move
  <2>a. Rooms!RoomOf(e) \in Commands /\ Rooms!RoomOf(e)' = Rooms!RoomOf(e)
        /\ Rooms!RoomOf(e) = event[e].room
    BY DEF DeliveredIsPosted, Rooms!RoomOf
  <2> USE <2>a
  <2>1. Rooms!TypeOK'
    BY SMTT(30) DEF Rooms!TypeOK, Rooms!RoomOf, Rooms!KindOf, Rooms!made, Rooms!Fresh
  <2>2. IdsAreMade'
    BY DEF IdsAreMade, Rooms!TypeOK, Rooms!RoomOf, Rooms!KindOf, Rooms!made, Rooms!Fresh
  <2>3. DeliveredIsPosted'
    BY DEF DeliveredIsPosted, Rooms!TypeOK, Rooms!RoomOf, Rooms!KindOf, Rooms!made, Rooms!Fresh
  <2>4. InFlightIsSeen'
    BY DEF InFlightIsSeen, Rooms!TypeOK
  <2>5. RunIsPaidFor'
    BY DEF RunIsPaidFor, InFlightIsSeen, Rooms!TypeOK
  <2>6. PrunedPerStart'
    BY DEF PrunedPerStart, Rooms!TypeOK
  <2>7. IdsAreTheRooms'
    BY SMTT(30) DEF IdsAreTheRooms, IdsAreMade, DeliveredIsPosted, WritesAreRebinds, Rooms!TypeOK,
           Rooms!RoomOf, Rooms!KindOf, Rooms!made, Rooms!Fresh
  <2>8. ResolvedIsRow'
    BY DEF ResolvedIsRow, IdsAreMade, DeliveredIsPosted, WritesAreRebinds, Rooms!TypeOK,
           Rooms!RoomOf, Rooms!KindOf, Rooms!made, Rooms!Fresh
  <2>9. WritesAreRebinds'
    BY WritesStay DEF Rooms!TypeOK
  <2>10. LastWriteWins'
    BY LastWriteStays DEF Rooms!TypeOK, ResolvedIsRow
  <2> QED
    BY <2>1, <2>2, <2>3, <2>4, <2>5, <2>6, <2>7, <2>8, <2>9, <2>10
<1>13. ASSUME Rooms!ReplNew PROVE RoomsIInv'
  <2> USE <1>13 DEF Rooms!ReplNew

  <2>b. /\ owner' \in Seq(Commands \cup {CommandLine})
        /\ Rooms!made \in Nat /\ Rooms!made' = Rooms!made + 1 /\ Rooms!made' <= MaxSessions
        /\ Rooms!Fresh = Rooms!made + 1 /\ Rooms!Fresh \in Rooms!Sessions
        /\ owner'[Rooms!Fresh] = CommandLine
        /\ \A i \in 1..Rooms!made : owner'[i] = owner[i]
    BY OneMoreSession
  <2> HIDE DEF Rooms!Make
  <2>1. Rooms!TypeOK'
    BY <2>b, SMTT(30) DEF Rooms!TypeOK, Rooms!KindOf, Rooms!RoomOf
  <2>2. IdsAreMade'
    BY SessionsKeepRooms DEF Rooms!TypeOK
  <2>3. DeliveredIsPosted'
    BY DEF DeliveredIsPosted, Rooms!TypeOK, Rooms!RoomOf, Rooms!KindOf, Rooms!made, Rooms!Fresh
  <2>4. InFlightIsSeen'
    BY DEF InFlightIsSeen, Rooms!TypeOK
  <2>5. RunIsPaidFor'
    BY DEF RunIsPaidFor, InFlightIsSeen, Rooms!TypeOK
  <2>6. PrunedPerStart'
    BY DEF PrunedPerStart, Rooms!TypeOK
  <2>7. IdsAreTheRooms'
    BY SessionsKeepRooms DEF Rooms!TypeOK
  <2>8. ResolvedIsRow'
    BY <2>b, SMTT(30)
    DEF ResolvedIsRow, IdsAreMade, DeliveredIsPosted, WritesAreRebinds, Rooms!TypeOK,
                Rooms!KindOf, Rooms!RoomOf
  <2>9. WritesAreRebinds'
    BY DEF WritesAreRebinds, DeliveredIsPosted, Rooms!TypeOK, Rooms!RoomOf, Rooms!KindOf,
           Rooms!made, Rooms!Fresh
  <2>10. LastWriteWins'
    BY DEF LastWriteWins, LastOfRoom, WritesAreRebinds, DeliveredIsPosted, Rooms!TypeOK,
           Rooms!RoomOf, Rooms!KindOf, Rooms!made, Rooms!Fresh
  <2> QED
    BY <2>1, <2>2, <2>3, <2>4, <2>5, <2>6, <2>7, <2>8, <2>9, <2>10
<1>14. ASSUME Rooms!DayPasses PROVE RoomsIInv'
  <2> USE <1>14 DEF Rooms!DayPasses
  <2>1. Rooms!TypeOK'
    BY SMTT(30) DEF Rooms!TypeOK, Rooms!RoomOf, Rooms!KindOf, Rooms!made, Rooms!Fresh
  <2>2. IdsAreMade'
    BY DEF IdsAreMade, Rooms!TypeOK, Rooms!RoomOf, Rooms!KindOf, Rooms!made, Rooms!Fresh
  <2>3. DeliveredIsPosted'
    BY DEF DeliveredIsPosted, Rooms!TypeOK, Rooms!RoomOf, Rooms!KindOf, Rooms!made, Rooms!Fresh
  <2>4. InFlightIsSeen'
    BY DEF InFlightIsSeen, Rooms!TypeOK
  <2>5. RunIsPaidFor'
    BY DEF RunIsPaidFor, InFlightIsSeen, Rooms!TypeOK
  <2>6. PrunedPerStart'
    BY DEF PrunedPerStart, Rooms!TypeOK
  <2>7. IdsAreTheRooms'
    BY SMTT(30) DEF IdsAreTheRooms, IdsAreMade, DeliveredIsPosted, WritesAreRebinds, Rooms!TypeOK,
           Rooms!RoomOf, Rooms!KindOf, Rooms!made, Rooms!Fresh
  <2>8. ResolvedIsRow'
    BY DEF ResolvedIsRow, IdsAreMade, DeliveredIsPosted, WritesAreRebinds, Rooms!TypeOK,
           Rooms!RoomOf, Rooms!KindOf, Rooms!made, Rooms!Fresh
  <2>9. WritesAreRebinds'
    BY DEF WritesAreRebinds, DeliveredIsPosted, Rooms!TypeOK, Rooms!RoomOf, Rooms!KindOf,
           Rooms!made, Rooms!Fresh
  <2>10. LastWriteWins'
    BY DEF LastWriteWins, LastOfRoom, WritesAreRebinds, DeliveredIsPosted, Rooms!TypeOK,
           Rooms!RoomOf, Rooms!KindOf, Rooms!made, Rooms!Fresh
  <2> QED
    BY <2>1, <2>2, <2>3, <2>4, <2>5, <2>6, <2>7, <2>8, <2>9, <2>10
<1>15. ASSUME Rooms!Stop PROVE RoomsIInv'
  <2> USE <1>15 DEF Rooms!Stop, Rooms!Drop
  <2>1. Rooms!TypeOK'
    BY SMTT(30) DEF Rooms!TypeOK, Rooms!RoomOf, Rooms!KindOf, Rooms!made, Rooms!Fresh
  <2>2. IdsAreMade'
    BY DEF IdsAreMade, Rooms!TypeOK, Rooms!RoomOf, Rooms!KindOf, Rooms!made, Rooms!Fresh
  <2>3. DeliveredIsPosted'
    BY DEF DeliveredIsPosted, Rooms!TypeOK, Rooms!RoomOf, Rooms!KindOf, Rooms!made, Rooms!Fresh
  <2>4. InFlightIsSeen'
    BY DEF InFlightIsSeen, Rooms!TypeOK
  <2>5. RunIsPaidFor'
    BY DEF RunIsPaidFor, InFlightIsSeen, Rooms!TypeOK
  <2>6. PrunedPerStart'
    BY DEF PrunedPerStart, Rooms!TypeOK
  <2>7. IdsAreTheRooms'
    BY SMTT(30) DEF IdsAreTheRooms, IdsAreMade, DeliveredIsPosted, WritesAreRebinds, Rooms!TypeOK,
           Rooms!RoomOf, Rooms!KindOf, Rooms!made, Rooms!Fresh
  <2>8. ResolvedIsRow'
    BY DEF ResolvedIsRow, IdsAreMade, DeliveredIsPosted, WritesAreRebinds, Rooms!TypeOK,
           Rooms!RoomOf, Rooms!KindOf, Rooms!made, Rooms!Fresh
  <2>9. WritesAreRebinds'
    BY DEF WritesAreRebinds, DeliveredIsPosted, Rooms!TypeOK, Rooms!RoomOf, Rooms!KindOf,
           Rooms!made, Rooms!Fresh
  <2>10. LastWriteWins'
    BY DEF LastWriteWins, LastOfRoom, WritesAreRebinds, DeliveredIsPosted, Rooms!TypeOK,
           Rooms!RoomOf, Rooms!KindOf, Rooms!made, Rooms!Fresh
  <2> QED
    BY <2>1, <2>2, <2>3, <2>4, <2>5, <2>6, <2>7, <2>8, <2>9, <2>10
<1>16. ASSUME Rooms!SyncFails PROVE RoomsIInv'
  <2> USE <1>16 DEF Rooms!SyncFails, Rooms!Drop
  <2>1. Rooms!TypeOK'
    BY SMTT(30) DEF Rooms!TypeOK, Rooms!RoomOf, Rooms!KindOf, Rooms!made, Rooms!Fresh
  <2>2. IdsAreMade'
    BY DEF IdsAreMade, Rooms!TypeOK, Rooms!RoomOf, Rooms!KindOf, Rooms!made, Rooms!Fresh
  <2>3. DeliveredIsPosted'
    BY DEF DeliveredIsPosted, Rooms!TypeOK, Rooms!RoomOf, Rooms!KindOf, Rooms!made, Rooms!Fresh
  <2>4. InFlightIsSeen'
    BY DEF InFlightIsSeen, Rooms!TypeOK
  <2>5. RunIsPaidFor'
    BY DEF RunIsPaidFor, InFlightIsSeen, Rooms!TypeOK
  <2>6. PrunedPerStart'
    BY DEF PrunedPerStart, Rooms!TypeOK
  <2>7. IdsAreTheRooms'
    BY SMTT(30) DEF IdsAreTheRooms, IdsAreMade, DeliveredIsPosted, WritesAreRebinds, Rooms!TypeOK,
           Rooms!RoomOf, Rooms!KindOf, Rooms!made, Rooms!Fresh
  <2>8. ResolvedIsRow'
    BY DEF ResolvedIsRow, IdsAreMade, DeliveredIsPosted, WritesAreRebinds, Rooms!TypeOK,
           Rooms!RoomOf, Rooms!KindOf, Rooms!made, Rooms!Fresh
  <2>9. WritesAreRebinds'
    BY DEF WritesAreRebinds, DeliveredIsPosted, Rooms!TypeOK, Rooms!RoomOf, Rooms!KindOf,
           Rooms!made, Rooms!Fresh
  <2>10. LastWriteWins'
    BY DEF LastWriteWins, LastOfRoom, WritesAreRebinds, DeliveredIsPosted, Rooms!TypeOK,
           Rooms!RoomOf, Rooms!KindOf, Rooms!made, Rooms!Fresh
  <2> QED
    BY <2>1, <2>2, <2>3, <2>4, <2>5, <2>6, <2>7, <2>8, <2>9, <2>10
<1>17. ASSUME Rooms!StartProcess PROVE RoomsIInv'
  <2> USE <1>17 DEF Rooms!StartProcess, Rooms!ResolveSession
  <2>b. \/ repl' = stored /\ UNCHANGED <<stored, owner>>
        \/ Rooms!Make(CommandLine) /\ repl' = Rooms!Fresh /\ stored' = Rooms!Fresh
    OBVIOUS
  <2>1. Rooms!TypeOK'
    <3>1. CASE repl' = stored /\ UNCHANGED <<stored, owner>>
      BY <3>1 DEF Rooms!TypeOK, Rooms!made
    <3>2. CASE Rooms!Make(CommandLine) /\ repl' = Rooms!Fresh /\ stored' = Rooms!Fresh
      <4>1. /\ owner' \in Seq(Commands \cup {CommandLine}) /\ Rooms!made' <= MaxSessions
            /\ {repl', stored'} \subseteq 1..Rooms!made'
        BY <3>2, OneMoreSession
      <4> QED
        BY <4>1 DEF Rooms!TypeOK
    <3> QED
      BY <2>b, <3>1, <3>2
  <2>2. IdsAreMade'
    <3>1. CASE UNCHANGED owner
      BY <3>1 DEF IdsAreMade, Rooms!made
    <3>2. CASE Rooms!Make(CommandLine)
      BY <3>2, SessionsKeepRooms
    <3> QED
      BY <2>b, <3>1, <3>2
  <2>3. DeliveredIsPosted'
    BY DEF DeliveredIsPosted, Rooms!TypeOK, Rooms!RoomOf, Rooms!KindOf, Rooms!made, Rooms!Fresh
  <2>4. InFlightIsSeen'
    BY DEF InFlightIsSeen, Rooms!TypeOK
  <2>5. RunIsPaidFor'
    BY DEF RunIsPaidFor, InFlightIsSeen, Rooms!TypeOK
  <2>6. PrunedPerStart'
    BY DEF PrunedPerStart, Rooms!TypeOK
  <2>7. IdsAreTheRooms'
    <3>1. CASE UNCHANGED owner
      BY <3>1 DEF IdsAreTheRooms, Rooms!RoomOf
    <3>2. CASE Rooms!Make(CommandLine)
      BY <3>2, SessionsKeepRooms
    <3> QED
      BY <2>b, <3>1, <3>2
  <2>8. ResolvedIsRow'
    BY DEF ResolvedIsRow, IdsAreMade, DeliveredIsPosted, WritesAreRebinds, Rooms!TypeOK,
           Rooms!RoomOf, Rooms!KindOf, Rooms!made, Rooms!Fresh
  <2>9. WritesAreRebinds'
    BY DEF WritesAreRebinds, DeliveredIsPosted, Rooms!TypeOK, Rooms!RoomOf, Rooms!KindOf,
           Rooms!made, Rooms!Fresh
  <2>10. LastWriteWins'
    BY DEF LastWriteWins, LastOfRoom, WritesAreRebinds, DeliveredIsPosted, Rooms!TypeOK,
           Rooms!RoomOf, Rooms!KindOf, Rooms!made, Rooms!Fresh
  <2> QED
    BY <2>1, <2>2, <2>3, <2>4, <2>5, <2>6, <2>7, <2>8, <2>9, <2>10
<1>18. ASSUME Rooms!Connect PROVE RoomsIInv'
  <2> USE <1>18 DEF Rooms!Connect, Rooms!Prune
  <2>1. Rooms!TypeOK'
    <3>1. ASSUME NEW e \in Callers PROVE forgotten'[e] \in 0..MaxStops
      <4>1. forgotten[e] \in Nat /\ stops \in Nat /\ stops <= MaxStops /\ MaxStops \in Nat
        BY DEF Rooms!TypeOK
      <4>2. forgotten[e] + 1 <= stops
        BY DEF PrunedPerStart
      <4>3. forgotten'[e] \in {forgotten[e] + 0, forgotten[e] + 1}
        BY <4>1 DEF Rooms!TypeOK
      <4> QED
        BY <4>1, <4>2, <4>3
    <3>2. forgotten' \in [Callers -> 0..MaxStops]
      BY <3>1
    <3> QED
      BY <3>2 DEF Rooms!TypeOK, Rooms!made
  <2>2. IdsAreMade'
    BY DEF IdsAreMade, Rooms!TypeOK, Rooms!RoomOf, Rooms!KindOf, Rooms!made, Rooms!Fresh
  <2>3. DeliveredIsPosted'
    BY DEF DeliveredIsPosted, Rooms!TypeOK, Rooms!RoomOf, Rooms!KindOf, Rooms!made, Rooms!Fresh
  <2>4. InFlightIsSeen'
    BY DEF InFlightIsSeen, Rooms!TypeOK
  <2>5. RunIsPaidFor'
    BY DEF RunIsPaidFor, InFlightIsSeen, Rooms!TypeOK
  <2>6. PrunedPerStart'
    BY DEF PrunedPerStart, Rooms!TypeOK
  <2>7. IdsAreTheRooms'
    BY SMTT(30) DEF IdsAreTheRooms, IdsAreMade, DeliveredIsPosted, WritesAreRebinds, Rooms!TypeOK,
           Rooms!RoomOf, Rooms!KindOf, Rooms!made, Rooms!Fresh
  <2>8. ResolvedIsRow'
    BY DEF ResolvedIsRow, IdsAreMade, DeliveredIsPosted, WritesAreRebinds, Rooms!TypeOK,
           Rooms!RoomOf, Rooms!KindOf, Rooms!made, Rooms!Fresh
  <2>9. WritesAreRebinds'
    BY DEF WritesAreRebinds, DeliveredIsPosted, Rooms!TypeOK, Rooms!RoomOf, Rooms!KindOf,
           Rooms!made, Rooms!Fresh
  <2>10. LastWriteWins'
    BY DEF LastWriteWins, LastOfRoom, WritesAreRebinds, DeliveredIsPosted, Rooms!TypeOK,
           Rooms!RoomOf, Rooms!KindOf, Rooms!made, Rooms!Fresh
  <2> QED
    BY <2>1, <2>2, <2>3, <2>4, <2>5, <2>6, <2>7, <2>8, <2>9, <2>10
<1>19. ASSUME Rooms!ConnectFails PROVE RoomsIInv'
  <2> USE <1>19 DEF Rooms!ConnectFails
  <2>1. Rooms!TypeOK'
    BY SMTT(30) DEF Rooms!TypeOK, Rooms!RoomOf, Rooms!KindOf, Rooms!made, Rooms!Fresh
  <2>2. IdsAreMade'
    BY DEF IdsAreMade, Rooms!TypeOK, Rooms!RoomOf, Rooms!KindOf, Rooms!made, Rooms!Fresh
  <2>3. DeliveredIsPosted'
    BY DEF DeliveredIsPosted, Rooms!TypeOK, Rooms!RoomOf, Rooms!KindOf, Rooms!made, Rooms!Fresh
  <2>4. InFlightIsSeen'
    BY DEF InFlightIsSeen, Rooms!TypeOK
  <2>5. RunIsPaidFor'
    BY DEF RunIsPaidFor, InFlightIsSeen, Rooms!TypeOK
  <2>6. PrunedPerStart'
    BY DEF PrunedPerStart, Rooms!TypeOK
  <2>7. IdsAreTheRooms'
    BY SMTT(30) DEF IdsAreTheRooms, IdsAreMade, DeliveredIsPosted, WritesAreRebinds, Rooms!TypeOK,
           Rooms!RoomOf, Rooms!KindOf, Rooms!made, Rooms!Fresh
  <2>8. ResolvedIsRow'
    BY DEF ResolvedIsRow, IdsAreMade, DeliveredIsPosted, WritesAreRebinds, Rooms!TypeOK,
           Rooms!RoomOf, Rooms!KindOf, Rooms!made, Rooms!Fresh
  <2>9. WritesAreRebinds'
    BY DEF WritesAreRebinds, DeliveredIsPosted, Rooms!TypeOK, Rooms!RoomOf, Rooms!KindOf,
           Rooms!made, Rooms!Fresh
  <2>10. LastWriteWins'
    BY DEF LastWriteWins, LastOfRoom, WritesAreRebinds, DeliveredIsPosted, Rooms!TypeOK,
           Rooms!RoomOf, Rooms!KindOf, Rooms!made, Rooms!Fresh
  <2> QED
    BY <2>1, <2>2, <2>3, <2>4, <2>5, <2>6, <2>7, <2>8, <2>9, <2>10
<1>20. ASSUME UNCHANGED Rooms!vars PROVE RoomsIInv'
  BY <1>20 DEF Rooms!vars, Rooms!KindOf, Rooms!RoomOf, LastOfRoom, Rooms!TypeOK, Rooms!made,
               Rooms!Fresh, IdsAreMade, DeliveredIsPosted, InFlightIsSeen, RunIsPaidFor,
               PrunedPerStart, IdsAreTheRooms, WritesAreRebinds, ResolvedIsRow, LastWriteWins
<1> QED
  BY <1>1, <1>2, <1>3, <1>4, <1>5, <1>6, <1>7, <1>8, <1>9, <1>10, <1>11, <1>12, <1>13, <1>14,
         <1>15, <1>16, <1>17, <1>18, <1>19, <1>20 DEF Rooms!Next, Rooms!Handle

\* Whatever the run does, the rooms only move as their module says.
LEMMA RoomsStep == [MCNext]_mcVars => [Rooms!Next]_(Rooms!vars)
  BY DEF MCNext, mcVars, Rooms!vars, roomVars

\* No two rooms talk in one session, an event is answered once for each time it enters
\* the table of seen events, and the session a room talks to is the one it will talk to
\* after a restart (matrix/handler.py, inbound_dedupe.py, room_sessions.py), for any
\* number of rooms, events, commands, crashes and replays.
THEOREM RoomsApart == MCSpec => []RoomsAreAnsweredApart
<1>1. MCInit => RoomsIInv
  BY RoomsInit DEF MCInit
<1>2. RoomsIInv /\ [MCNext]_mcVars => RoomsIInv'
  BY RoomsNext, RoomsStep
<1>3. RoomsIInv => RoomsAreAnsweredApart
  <2> SUFFICES ASSUME RoomsIInv PROVE RoomsAreAnsweredApart
    OBVIOUS
  <2>1. Rooms!RoomsAreIsolated
    BY DEF RoomsIInv, IdsAreTheRooms, Rooms!RoomsAreIsolated
  <2>2. ASSUME NEW e \in Callers PROVE runs[e] <= 1 + forgotten[e]
    <3>1. runs[e] \in Nat /\ forgotten[e] \in Nat
      BY Assumptions DEF RoomsIInv, Rooms!TypeOK, Rooms!MatrixAssumption
    <3>2. \/ runs[e] + 0 <= forgotten[e] + 1 \/ runs[e] + 0 <= forgotten[e] + 0
          \/ runs[e] + 1 <= forgotten[e] + 1 \/ runs[e] + 1 <= forgotten[e] + 0
      BY DEF RoomsIInv, RunIsPaidFor
    <3> QED
      BY <3>1, <3>2
  <2>3. ASSUME NEW r \in Commands, Rooms!Settled(r), NEW i \in 1..Len(writes)
        PROVE  Rooms!RoomOf(writes[i]) # r
    BY <2>3 DEF RoomsIInv, WritesAreRebinds, Rooms!TypeOK, Rooms!Settled
  <2>4. Rooms!LiveIsBound
    BY <2>3 DEF RoomsIInv, LastWriteWins, Rooms!LiveIsBound
  <2> QED
    BY <2>1, <2>2, <2>4 DEF RoomsAreAnsweredApart, Rooms!RunsOncePerMemory
<1> QED
  BY <1>1, <1>2, <1>3, PTL DEF MCSpec
=============================================================================
