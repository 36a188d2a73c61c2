--------------------------- MODULE CodexProvider ---------------------------
(***************************************************************************)
(* One CodexProvider (providers/codex.py): chat() turns a list of messages *)
(* into one turn of a Codex app-server process.  The conversation of the   *)
(* agent uses it, retried by the runner, and so do the memory workers,     *)
(* from threads of their own.  A reader thread deals out what the process  *)
(* writes, runs the tools it asks for on the way, and never looks at which *)
(* turn a notification belongs to.                                         *)
(***************************************************************************)
EXTENDS Naturals, SequencesExt, Functions

CONSTANTS
    Session,   \* the agent's conversation
    Workers,   \* workers that were given the agent's provider
    Nobody,    \* the owner of what a chat that gave up has left behind
    NoThread,  \* _thread_id is None
    MaxTries,  \* _MAX_RETRIES + 1
    MaxLen,    \* bound: messages of the conversation
    MaxTurns,  \* bound: turns in the process at one time, and requests left behind
    MaxOut     \* bound: lines of the process that wait to be read

Callers == Workers \cup {Session}
Owners  == Callers \cup {Nobody}

ASSUME CodexAssumption == /\ Session \notin Workers
                          /\ Nobody \notin Callers /\ NoThread \notin Callers
                          /\ MaxTries \in Nat \ {0} /\ {MaxLen, MaxTurns, MaxOut} \subseteq Nat

VARIABLES
    rpc,         \* _rpc: none, or launched
    alive,       \* the process runs
    initialised, \* the process has handled initialize
    thread,      \* _thread_id: whose instructions started the thread
    sent,        \* _sent_count
    history,     \* messages of the conversation
    tries,       \* attempts of the runner in this chat
    purpose,     \* what the conversation's chat is for
    pc,          \* where each caller is
    input,       \* what each caller's turn is given
    reply,       \* the response to the request each caller waits for
    heard,       \* turn_holder: a handler has taken a completed turn
    stdin,       \* requests the process has not read
    turns,       \* turns that run in the process, by owner
    stdout,      \* what the process wrote and the reader has not read
    reader,      \* the reader thread reads, or runs a tool or an approval
    passed,      \* history: the reader has read the completion of this chat's turn
    clean        \* history: since the last reset all chats were answered turns

process == <<alive, initialised, stdin, turns, stdout>>
memory  == <<thread, sent>>
talk    == <<history, tries, purpose>>
vars    == <<rpc, alive, initialised, thread, sent, history, tries, purpose, pc, input,
             reply, heard, stdin, turns, stdout, reader, passed, clean>>

Init ==
    /\ rpc = "none" /\ alive = FALSE /\ initialised = FALSE
    /\ thread = NoThread /\ sent = 0
    /\ history = 0 /\ tries = 0 /\ purpose = "turn"
    /\ pc = [c \in Callers |-> "idle"]
    /\ input = [c \in Callers |-> "nothing"]
    /\ reply = [c \in Callers |-> "none"]
    /\ heard = [c \in Callers |-> FALSE]
    /\ stdin = <<>> /\ turns = [o \in Owners |-> 0] /\ stdout = <<>>
    /\ reader = "reading"
    /\ passed = [c \in Callers |-> FALSE]
    /\ clean = TRUE

-----------------------------------------------------------------------------
(* Requests. *)

Requesting == {"initialize", "login", "thread", "start"}

\* A chat that gives up leaves its turn behind, and the request the process has
\* not read where that will still change something.  Its slot in _pending is
\* gone: the response will be for nobody.
Matters(r) == r.method \in {"initialize", "start"}

Left(r) == r.for = Nobody

Disown(c, r) == [r EXCEPT !.for = IF @ = c THEN Nobody ELSE @]

Leave(c) ==
    LET mine(r) == r.for = c
        keep(r) == ~mine(r) \/ (Matters(r) /\ Len(SelectSeq(stdin, Left)) < MaxTurns)
        rest == SelectSeq(stdin, keep)
    IN [i \in DOMAIN rest |-> Disown(c, rest[i])]

Unanswered(c) ==
    LET other(r) == ~(r.kind = "response" /\ r.for = c)
        rest == SelectSeq(stdout, other)
    IN [i \in DOMAIN rest |-> Disown(c, rest[i])]

Abandon(c) ==
    /\ stdin' = Leave(c) /\ stdout' = Unanswered(c)
    /\ turns' = [turns EXCEPT ![c] = 0, ![Nobody] = @ + turns[c]]
    /\ UNCHANGED <<alive, initialised>>

\* request: a slot in _pending and a line on stdin; to a process that is gone
\* the write raises.
Request(c, method) ==
    /\ alive
    /\ pc' = [pc EXCEPT ![c] = method]
    /\ reply' = [reply EXCEPT ![c] = "none"]
    /\ stdin' = Append(stdin, [method |-> method, for |-> c])

Answered(c, method, outcome) == pc[c] = method /\ reply[c] = outcome

-----------------------------------------------------------------------------
(* The conversation, and what becomes of a chat. *)

Chat(c) == pc' = [pc EXCEPT ![c] = "get"] /\ passed' = [passed EXCEPT ![c] = FALSE]

Rest(c) == pc' = [pc EXCEPT ![c] = "idle"] /\ passed' = [passed EXCEPT ![c] = FALSE]

\* A turn of the agent: the message is appended, a long history is summarised
\* first, by the same provider.
Say ==
    /\ pc[Session] = "idle" /\ history + 2 <= MaxLen
    /\ history' = history + 1
    /\ tries' = 1
    /\ \/ purpose' = "turn" /\ UNCHANGED clean
       \/ history > 2 /\ purpose' = "summary" /\ clean' = FALSE
    /\ Chat(Session)
    /\ UNCHANGED <<rpc, process, memory, input, reply, heard, reader>>

\* A memory worker asks for one completion.
Ask(w) ==
    /\ pc[w] = "idle"
    /\ clean' = FALSE
    /\ Chat(w)
    /\ UNCHANGED <<rpc, process, memory, talk, input, reply, heard, reader>>

\* The exception leaves chat.  The runner tries again what may be transient; a
\* summary is given up and the turn goes on; a failed turn is rolled back.
Fail(c, transient) ==
    /\ Abandon(c)
    /\ clean' = FALSE
    /\ \/ /\ c # Session
          /\ Rest(c) /\ UNCHANGED talk
       \/ /\ c = Session /\ purpose = "summary"
          /\ purpose' = "turn" /\ Chat(c) /\ UNCHANGED <<history, tries>>
       \/ /\ c = Session /\ purpose = "turn" /\ transient /\ tries < MaxTries
          /\ tries' = tries + 1 /\ Chat(c) /\ UNCHANGED <<history, purpose>>
       \/ /\ c = Session /\ purpose = "turn" /\ ~(transient /\ tries < MaxTries)
          /\ history' = history - 1 /\ tries' = 0
          /\ Rest(c) /\ UNCHANGED purpose
    /\ input' = [input EXCEPT ![c] = "nothing"]
    /\ reply' = [reply EXCEPT ![c] = "none"]
    /\ heard' = [heard EXCEPT ![c] = FALSE]
    /\ UNCHANGED <<rpc, memory, reader>>

\* chat returns the texts its handler collected, whosesoever they are.
Return(c) ==
    /\ pc[c] = "wait" /\ heard[c]
    /\ Abandon(c)
    /\ \/ c # Session /\ Rest(c) /\ UNCHANGED talk
       \/ /\ c = Session /\ purpose = "summary"      \* [summary, ack] and the tail
          /\ history' \in 3..history /\ purpose' = "turn" /\ Chat(c) /\ UNCHANGED tries
       \/ /\ c = Session /\ purpose = "turn"
          /\ history' = history + 1 /\ tries' = 0
          /\ Rest(c) /\ UNCHANGED purpose
    /\ input' = [input EXCEPT ![c] = "nothing"]
    /\ reply' = [reply EXCEPT ![c] = "none"]
    /\ heard' = [heard EXCEPT ![c] = FALSE]
    /\ UNCHANGED <<rpc, memory, reader, clean>>

\* Mutant: the count of the old conversation is kept.
ResetKeepsCount ==
    /\ pc[Session] = "idle"
    /\ history' = 0
    /\ thread' = NoThread
    /\ clean' = \A w \in Workers : pc[w] = "idle"
    /\ UNCHANGED <<rpc, process, sent, tries, purpose, pc, input, reply, heard, reader, passed>>

\* /new: the next chat starts a thread of its own.
ResetSession ==
    /\ pc[Session] = "idle"
    /\ history' = 0
    /\ thread' = NoThread /\ sent' = 0
    /\ clean' = \A w \in Workers : pc[w] = "idle"
    /\ UNCHANGED <<rpc, process, tries, purpose, pc, input, reply, heard, reader, passed>>

\* close: the room's channel goes down and takes the process with it.
Close ==
    /\ pc[Session] = "idle" /\ rpc = "launched"
    /\ pc' = [pc EXCEPT ![Session] = "closed"]
    /\ rpc' = "none" /\ alive' = FALSE /\ initialised' = FALSE
    /\ stdin' = <<>> /\ stdout' = <<>> /\ turns' = [o \in Owners |-> 0]
    /\ reader' = "reading"
    /\ UNCHANGED <<memory, talk, input, reply, heard, passed, clean>>

-----------------------------------------------------------------------------
(* chat. *)

\* _get_rpc: who finds none launches the process and remembers it at once;
\* who comes later takes it as it is.
GetRpc(c) ==
    /\ pc[c] = "get"
    /\ \/ /\ rpc = "none"
          /\ rpc' = "launched" /\ alive' = TRUE /\ initialised' = FALSE
          /\ pc' = [pc EXCEPT ![c] = "initialize"]
          /\ stdin' = <<[method |-> "initialize", for |-> c]>>
       \/ /\ rpc = "launched"
          /\ pc' = [pc EXCEPT ![c] = "slice"]
          /\ UNCHANGED <<rpc, alive, initialised, stdin>>
    /\ UNCHANGED <<memory, talk, input, reply, heard, turns, stdout, reader, passed, clean>>

\* _inject_auth after initialize; whatever comes of it is only printed.
Login(c) ==
    /\ Answered(c, "initialize", "ok")
    /\ Request(c, "login")
    /\ UNCHANGED <<rpc, alive, initialised, memory, talk, input, heard, turns, stdout,
                   reader, passed, clean>>

LoggedIn(c) ==
    /\ \/ Answered(c, "initialize", "ok")          \* no token is stored
       \/ pc[c] = "login"                          \* answered, refused or timed out
    /\ Abandon(c)
    /\ pc' = [pc EXCEPT ![c] = "slice"]
    /\ reply' = [reply EXCEPT ![c] = "none"]
    /\ UNCHANGED <<rpc, memory, talk, input, heard, reader, passed, clean>>

\* messages[_sent_count:]: the turn is given the latest user message of the
\* slice.  The last message of a list is always the one to be answered.
Length(c) == IF c = Session /\ purpose = "turn" THEN history ELSE 1

Slice(c) ==
    /\ pc[c] = "slice"
    /\ input' = [input EXCEPT ![c] = IF Length(c) > sent THEN "message" ELSE "nothing"]
    /\ sent' = Length(c)
    /\ pc' = [pc EXCEPT ![c] = "open"]
    /\ UNCHANGED <<rpc, process, thread, talk, reply, heard, reader, passed, clean>>

StartThread(c) ==
    /\ pc[c] = "open" /\ thread = NoThread
    /\ Request(c, "thread")
    /\ UNCHANGED <<rpc, alive, initialised, memory, talk, input, heard, turns, stdout,
                   reader, passed, clean>>

ThreadStarted(c) ==
    /\ Answered(c, "thread", "ok")
    /\ thread' = c
    /\ pc' = [pc EXCEPT ![c] = "ready"]
    /\ reply' = [reply EXCEPT ![c] = "none"]
    /\ UNCHANGED <<rpc, process, sent, talk, input, heard, reader, passed, clean>>

StartTurn(c) ==
    /\ pc[c] = "ready" \/ (pc[c] = "open" /\ thread # NoThread)
    /\ Request(c, "start")
    /\ UNCHANGED <<rpc, alive, initialised, memory, talk, input, heard, turns, stdout,
                   reader, passed, clean>>

Wait(c) ==
    /\ Answered(c, "start", "ok")
    /\ pc' = [pc EXCEPT ![c] = "wait"]
    /\ reply' = [reply EXCEPT ![c] = "none"]
    /\ UNCHANGED <<rpc, process, memory, talk, input, heard, reader, passed, clean>>

\* 30 seconds without a response.
RequestTimesOut(c) ==
    /\ pc[c] \in Requesting \ {"login"} /\ reply[c] = "none"
    /\ Fail(c, TRUE)

\* An error response: "Codex RPC ... failed" is none of the transient ones.
Refused(c) ==
    /\ pc[c] \in Requesting \ {"login"} /\ reply[c] = "error"
    /\ Fail(c, FALSE)

\* The write to a process that is gone raises BrokenPipeError.
BrokenPipe(c) ==
    /\ ~alive
    /\ pc[c] \in {"open", "ready"}
    /\ Fail(c, TRUE)

\* The deadline of the turn.
WaitTimesOut(c) ==
    /\ pc[c] = "wait" /\ ~heard[c]
    /\ Fail(c, TRUE)

-----------------------------------------------------------------------------
(* The process, as the client sees it. *)

Running == FoldFunction(+, 0, turns)

\* It answers a request; before initialize it refuses everything else.
Handle ==
    /\ alive /\ stdin # <<>> /\ Len(stdout) < MaxOut
    /\ LET r == Head(stdin)
           refused == r.method # "initialize" /\ ~initialised
       IN /\ r.method = "start" /\ ~refused => Running < MaxTurns
          /\ \E ok \in {"ok", "error"} :
                /\ refused => ok = "error"
                /\ ok = "error" => refused \/ r.method # "start"
                /\ stdout' = IF Left(r) THEN stdout
                             ELSE Append(stdout, [kind |-> "response", for |-> r.for, ok |-> ok])
                /\ initialised' = (initialised \/ (r.method = "initialize" /\ ok = "ok"))
                /\ turns' = IF r.method = "start" /\ ok = "ok"
                            THEN [turns EXCEPT ![r.for] = @ + 1] ELSE turns
    /\ stdin' = Tail(stdin)
    /\ UNCHANGED <<rpc, alive, memory, talk, pc, input, reply, heard, reader, passed, clean>>

\* turn/completed, whatever its status.
Complete(o) ==
    /\ alive /\ turns[o] > 0 /\ Len(stdout) < MaxOut
    /\ turns' = [turns EXCEPT ![o] = @ - 1]
    /\ stdout' = Append(stdout, [kind |-> "completed", for |-> o, ok |-> "ok"])
    /\ UNCHANGED <<rpc, alive, initialised, memory, talk, pc, input, reply, heard, stdin,
                   reader, passed, clean>>

\* item/tool/call and the approvals.
CallTool(o) ==
    /\ alive /\ turns[o] > 0 /\ Len(stdout) < MaxOut
    /\ stdout' = Append(stdout, [kind |-> "tool", for |-> Nobody, ok |-> "ok"])
    /\ UNCHANGED <<rpc, alive, initialised, memory, talk, pc, input, reply, heard, stdin,
                   turns, reader, passed, clean>>

\* The process dies; what it wrote can still be read.
Die ==
    /\ alive
    /\ alive' = FALSE /\ initialised' = FALSE
    /\ stdin' = <<>> /\ turns' = [o \in Owners |-> 0]
    /\ UNCHANGED <<rpc, memory, talk, pc, input, reply, heard, stdout, reader, passed, clean>>

-----------------------------------------------------------------------------
(* The reader thread. *)

Reading(kind) == reader = "reading" /\ stdout # <<>> /\ Head(stdout).kind = kind

ReadResponse ==
    /\ Reading("response")
    /\ stdout' = Tail(stdout)
    /\ LET r == Head(stdout)
       IN reply' = [reply EXCEPT ![r.for] = r.ok]
    /\ UNCHANGED <<rpc, alive, initialised, memory, talk, pc, input, heard, stdin, turns,
                   reader, passed, clean>>

\* Mutant: the handler is added after turn/start has been answered.
ListeningLate(c) == pc[c] = "wait"

\* A handler is there from before the first request of a chat until its end.
Listening(c) == pc[c] \in {"thread", "start", "wait"}

\* Every handler that has no turn yet takes this one.
ReadCompleted ==
    /\ Reading("completed")
    /\ stdout' = Tail(stdout)
    /\ heard' = [c \in Callers |-> Listening(c) \/ heard[c]]
    /\ LET o == Head(stdout).for
       IN passed' = IF o = Nobody THEN passed ELSE [passed EXCEPT ![o] = TRUE]
    /\ UNCHANGED <<rpc, alive, initialised, memory, talk, pc, input, reply, stdin, turns,
                   reader, clean>>

\* The tool runs on the reader thread, which reads nothing meanwhile.
RunTool ==
    /\ Reading("tool")
    /\ stdout' = Tail(stdout)
    /\ reader' = "tool"
    /\ UNCHANGED <<rpc, alive, initialised, memory, talk, pc, input, reply, heard, stdin,
                   turns, passed, clean>>

ToolReturns ==
    /\ reader = "tool"
    /\ reader' = "reading"
    /\ UNCHANGED <<rpc, process, memory, talk, pc, input, reply, heard, passed, clean>>

-----------------------------------------------------------------------------
Give(c) ==
    \/ Login(c) \/ LoggedIn(c) \/ Slice(c)
    \/ StartThread(c) \/ ThreadStarted(c) \/ StartTurn(c) \/ Wait(c)

Ends(c) == RequestTimesOut(c) \/ Refused(c) \/ BrokenPipe(c) \/ WaitTimesOut(c) \/ Return(c)

ChatStep(c) == GetRpc(c) \/ Give(c) \/ Ends(c)

Next ==
    \/ Say \/ ResetSession \/ Close
    \/ \E w \in Workers : Ask(w)
    \/ \E c \in Callers : ChatStep(c)
    \/ Handle \/ Die \/ \E o \in Owners : Complete(o) \/ CallTool(o)
    \/ ReadResponse \/ ReadCompleted \/ RunTool \/ ToolReturns

Spec == Init /\ [][Next]_vars

-----------------------------------------------------------------------------
\* Types of the provider's attributes, the process and the pipes.
TypeOK ==
    /\ rpc \in {"none", "launched"} /\ {alive, initialised, clean} \subseteq BOOLEAN
    /\ thread \in Callers \cup {NoThread} /\ sent \in 0..MaxLen /\ history \in 0..MaxLen
    /\ tries \in 0..MaxTries /\ purpose \in {"turn", "summary"}
    /\ pc \in [Callers -> Requesting \cup {"idle", "closed", "get", "slice", "open",
                                           "ready", "wait"}]
    /\ input \in [Callers -> {"message", "nothing"}]
    /\ reply \in [Callers -> {"none", "ok", "error"}]
    /\ {heard, passed} \subseteq [Callers -> BOOLEAN]
    /\ turns \in [Owners -> Nat] /\ reader \in {"reading", "tool"}
    /\ Len(stdout) <= MaxOut

\* "The latest user message becomes the turn input": while the conversation has
\* the provider to itself and every turn of it was answered, with /new at any
\* moment between, each of its messages reaches the model.
ConversationIsHeard ==
    clean /\ pc[Session] \in {"open", "thread", "ready", "start", "wait"} =>
        input[Session] = "message"

\* A turn is given up at its deadline only when the reader has not seen its
\* completion, however early that came and whatever else was waiting.
NoAnswerMissed == [][\A c \in Callers : WaitTimesOut(c) => ~passed[c]]_vars

=============================================================================
