----------------------------- MODULE AgentTurn -----------------------------
(***************************************************************************)
(* One agent's conversation: AgentSession.send (agents/session.py), which  *)
(* drives run_turn's think-act-observe loop (agents/runner.py) over the    *)
(* in-memory history and saves it, beside the slash commands that replace  *)
(* the same history without taking send()'s lock.                          *)
(*                                                                         *)
(* The history is a Python list that several names share, so lists are     *)
(* modelled as objects: `lists` maps a reference to its contents, and      *)
(* history, held and cmdHeld are references.  Replacing self._history      *)
(* leaves the runner appending to the list it was given.                   *)
(***************************************************************************)
EXTENDS Naturals, Sequences

CONSTANTS
    MaxTurns,       \* bound: messages sent to the agent
    MaxRounds,      \* max_tool_rounds
    MaxRetries,     \* _MAX_RETRIES
    MaxCalls,       \* bound: tool calls in one response
    Windows,        \* message windows a caller may ask for; 0 means none
    MaxDisturbances,\* bound: commands, interrupts, crashes and compactions
    MaxSessions     \* bound: session files one run may open with /new

AgentTurnConstants ==
    /\ MaxTurns \in Nat \ {0} /\ MaxRounds \in Nat \ {0} /\ MaxRetries \in Nat
    /\ MaxCalls \in Nat \ {0} /\ Windows \subseteq Nat
    /\ MaxDisturbances \in Nat /\ MaxSessions \in Nat \ {0}

Message == [role : {"user", "assistant", "tool"}, turn : 0 .. MaxTurns, n : 0 .. MaxCalls]

\* An assistant message carries n tool calls; a tool message answers call n.
\* Turn 0 marks the summary and the acknowledgement a compaction writes.
User(t)      == [role |-> "user", turn |-> t, n |-> 0]
Reply(t)     == [role |-> "assistant", turn |-> t, n |-> 0]
Calls(t, n)  == [role |-> "assistant", turn |-> t, n |-> n]
Result(t, k) == [role |-> "tool", turn |-> t, n |-> k]

Ref    == 1 .. 4        \* history, held, cmdHeld and the one being created
NoList == 0

VARIABLES
    file,         \* the JSONL file of every session
    session,      \* self._session_id
    lists,        \* the list objects
    history,      \* self._history
    turn,         \* where send() is
    count,        \* how many messages have been sent
    window,       \* max_history_turns * 2 of this call
    held,         \* the list compact() or run_turn() works on
    sliceLen,     \* _turn_slice_len
    snapshot,     \* snapshot_len
    round,        \* _round
    attempt,      \* attempt of _call_with_retry
    pending,      \* how many calls the response asked for
    parallel,     \* _all_read_only
    done,         \* the calls that have run, in completion order
    kept,         \* the tail compact() keeps, for send()
    cmd,          \* where /compact is
    cmdHeld,      \* the list /compact reads
    cmdKept,      \* the tail it keeps
    disturbances, \* how many of MaxDisturbances have happened
    outcome,      \* how the last turn ended
    raced,        \* history: a command read or replaced the list during this turn
    tainted       \* history: an interrupt or a race has ever happened

file_vars == <<file, session>>
run_vars  == <<sliceLen, snapshot, round, attempt, pending, parallel, done>>
cmd_vars  == <<cmd, cmdHeld, cmdKept>>
ghosts    == <<outcome, raced, tainted>>
vars == <<file, session, lists, history, turn, count, window, held, sliceLen, snapshot,
          round, attempt, pending, parallel, done, kept, cmd, cmdHeld, cmdKept,
          disturbances, outcome, raced, tainted>>

TurnStates == {"idle", "begun", "summarising", "prepared", "saved", "ask",
               "tools", "finishing", "closing"}

Running == turn \in {"ask", "tools", "finishing", "closing"}

Init ==
    /\ file = [s \in 1 .. MaxSessions |-> << >>]
    /\ session = 1
    /\ lists = [r \in Ref |-> << >>]
    /\ history = 1
    /\ turn = "idle" /\ count = 0 /\ window = 0 /\ held = NoList
    /\ sliceLen = 0 /\ snapshot = 0 /\ round = 0 /\ attempt = 0
    /\ pending = 0 /\ parallel = FALSE /\ done = << >> /\ kept = << >>
    /\ cmd = "idle" /\ cmdHeld = NoList /\ cmdKept = << >>
    /\ disturbances = 0
    /\ outcome = "none" /\ raced = FALSE /\ tainted = FALSE

----------------------------------------------------------------------------
(* List objects *)

Last(s) == s[Len(s)]

Fresh == CHOOSE r \in Ref : r \notin {history, held, cmdHeld}

\* ls with the contents of unreferenced lists dropped.
Collect(ls, live) == [r \in Ref |-> IF r \in live THEN ls[r] ELSE << >>]

Extend(r, msgs) == lists' = [lists EXCEPT ![r] = @ \o msgs]

\* self._history becomes a new list with these contents.
Replace(s, live) ==
    /\ history' = Fresh
    /\ lists' = Collect([lists EXCEPT ![Fresh] = s], live \cup {Fresh})

Save(s) == file' = [file EXCEPT ![session] = s]

Disturb == disturbances < MaxDisturbances /\ disturbances' = disturbances + 1

\* _select leaves the last message out of the head, and at least one in it.
Splits(s) == 1 .. Len(s) - 1

Tail_(s, i) == SubSeq(s, i + 1, Len(s))

Compacted(tail) == <<User(0), Reply(0)>> \o tail

ResetRun ==
    /\ sliceLen' = 0 /\ snapshot' = 0 /\ round' = 0 /\ attempt' = 0
    /\ pending' = 0 /\ parallel' = FALSE /\ done' = << >>

----------------------------------------------------------------------------
(* send(): before the loop *)

Send ==
    /\ turn = "idle" /\ count < MaxTurns
    /\ \E w \in Windows : window' = w
    /\ count' = count + 1
    /\ Extend(history, <<User(count + 1)>>)
    /\ turn' = "begun"
    /\ raced' = FALSE /\ outcome' = "none"
    /\ UNCHANGED <<file_vars, history, held, run_vars, kept, cmd_vars, disturbances, tainted>>

SkipCompaction ==
    /\ turn = "begun"
    /\ turn' = "prepared"
    /\ UNCHANGED <<file_vars, lists, history, count, window, held, run_vars, kept, cmd_vars,
                   disturbances, ghosts>>

\* compact() chooses its head and calls the model for a summary of it.
StartCompaction ==
    /\ turn = "begun" /\ Disturb
    /\ \E i \in Splits(lists[history]) : kept' = Tail_(lists[history], i)
    /\ held' = history
    /\ turn' = "summarising"
    /\ UNCHANGED <<file_vars, lists, history, count, window, run_vars, cmd_vars, ghosts>>

InstallCompaction ==
    /\ turn = "summarising"
    /\ Replace(Compacted(kept), {cmdHeld})
    /\ turn' = "prepared" /\ held' = NoList /\ kept' = << >>
    /\ UNCHANGED <<file_vars, count, window, run_vars, cmd_vars, disturbances, ghosts>>

\* The summary call failed: compact() returns the list it was given.
AbandonCompaction ==
    /\ turn = "summarising"
    /\ history' = held
    /\ lists' = Collect(lists, {held, cmdHeld})
    /\ turn' = "prepared" /\ held' = NoList /\ kept' = << >>
    /\ UNCHANGED <<file_vars, count, window, run_vars, cmd_vars, disturbances, ghosts>>

SaveUserMessage ==
    /\ turn = "prepared"
    /\ Save(lists[history])
    /\ turn' = "saved"
    /\ UNCHANGED <<session, lists, history, count, window, held, run_vars, kept, cmd_vars,
                   disturbances, ghosts>>

\* snapshot_len, then the list run_turn is given: the history itself, or a
\* copy of its last `window` messages.
BeginRun ==
    /\ turn = "saved"
    /\ snapshot' = Len(lists[history])
    /\ LET all == lists[history]
           skip == IF Len(all) > window THEN Len(all) - window ELSE 0
       IN IF window = 0
          THEN held' = history /\ sliceLen' = 0 /\ UNCHANGED lists
          ELSE /\ held' = Fresh /\ sliceLen' = Len(all) - skip
               /\ lists' = [lists EXCEPT ![Fresh] = Tail_(all, skip)]
    /\ round' = 0 /\ attempt' = 0
    /\ turn' = "ask"
    /\ UNCHANGED <<file_vars, history, count, window, pending, parallel, done, kept, cmd_vars,
                   disturbances, ghosts>>

----------------------------------------------------------------------------
(* run_turn *)

EndTurn(how) ==
    /\ turn' = "idle" /\ outcome' = how
    /\ window' = 0 /\ held' = NoList /\ kept' = << >>
    /\ ResetRun

FailWithoutRollback ==
    /\ LET s == Append(lists[history], Reply(count))
       IN /\ lists' = Collect([lists EXCEPT ![history] = s], {history, cmdHeld})
          /\ Save(s)
    /\ EndTurn("failed")
    /\ UNCHANGED <<session, history, count, cmd_vars, disturbances, raced, tainted>>
\* except Exception: the history is cut back to the snapshot, an error record
\* is appended, and finally saves it.
Fail ==
    /\ LET cut == SubSeq(lists[history], 1,
                         IF snapshot < Len(lists[history]) THEN snapshot ELSE Len(lists[history]))
           s == Append(cut, Reply(count))
       IN /\ lists' = Collect([lists EXCEPT ![history] = s], {history, cmdHeld})
          /\ Save(s)
    /\ EndTurn("failed")
    /\ UNCHANGED <<session, history, count, cmd_vars, disturbances, raced, tainted>>

Thinking == turn = "ask" /\ round < MaxRounds

TransientError ==
    /\ Thinking /\ attempt < MaxRetries
    /\ attempt' = attempt + 1
    /\ UNCHANGED <<file_vars, lists, history, turn, count, window, held, sliceLen, snapshot,
                   round, pending, parallel, done, kept, cmd_vars, disturbances, ghosts>>

\* A permanent error, or a transient one on the last attempt.
ProviderFails == Thinking /\ Fail

NextRound == round' = round + 1 /\ attempt' = 0 /\ turn' = "ask"

\* Recoveries A and B: an empty or a truncated response of a round that is
\* not the last is recorded and followed by a nudge.
Recover ==
    /\ Thinking /\ round < MaxRounds - 1
    /\ Extend(held, <<Reply(count), User(count)>>)
    /\ NextRound
    /\ UNCHANGED <<file_vars, history, count, window, held, sliceLen, snapshot, pending,
                   parallel, done, kept, cmd_vars, disturbances, ghosts>>

\* finish_reason "tool_calls" with no calls: recorded, and nothing to run.
CallNothing ==
    /\ Thinking
    /\ Extend(held, <<Reply(count)>>)
    /\ NextRound
    /\ UNCHANGED <<file_vars, history, count, window, held, sliceLen, snapshot, pending,
                   parallel, done, kept, cmd_vars, disturbances, ghosts>>

Answer ==
    /\ Thinking
    /\ Extend(held, <<Reply(count)>>)
    /\ turn' = "finishing" /\ outcome' = "answered"
    /\ UNCHANGED <<file_vars, history, count, window, held, run_vars, kept, cmd_vars,
                   disturbances, raced, tainted>>

\* Calls run one after the other, or, when there are several and all are
\* read-only and parsed, in threads of their own.
CallTools ==
    /\ Thinking
    /\ \E n \in 1 .. MaxCalls, p \in BOOLEAN :
          /\ p => n > 1
          /\ Extend(held, <<Calls(count, n)>>)
          /\ pending' = n /\ parallel' = p
    /\ turn' = "tools"
    /\ UNCHANGED <<file_vars, history, count, window, held, sliceLen, snapshot, round, attempt,
                   done, kept, cmd_vars, disturbances, ghosts>>

EndTools == NextRound /\ pending' = 0 /\ parallel' = FALSE /\ done' = << >>

\* The next tool runs and its result is appended before the one after it.
RunNextTool ==
    /\ turn = "tools" /\ ~parallel
    /\ LET k == Len(done) + 1
       IN /\ Extend(held, <<Result(count, k)>>)
          /\ IF k = pending
             THEN EndTools
             ELSE done' = Append(done, k) /\ UNCHANGED <<turn, round, attempt, pending, parallel>>
    /\ UNCHANGED <<file_vars, history, count, window, held, sliceLen, snapshot, kept, cmd_vars,
                   disturbances, ghosts>>

CompleteTool ==
    /\ turn = "tools" /\ parallel
    /\ \E k \in 1 .. pending :
          /\ \A i \in 1 .. Len(done) : done[i] # k
          /\ done' = Append(done, k)
    /\ UNCHANGED <<file_vars, lists, history, turn, count, window, held, sliceLen, snapshot,
                   round, attempt, pending, parallel, kept, cmd_vars, disturbances, ghosts>>

CollectAsCompleted ==
    /\ turn = "tools" /\ parallel /\ Len(done) = pending
    /\ Extend(held, [k \in 1 .. pending |-> Result(count, done[k])])
    /\ EndTools
    /\ UNCHANGED <<file_vars, history, count, window, held, sliceLen, snapshot, kept, cmd_vars,
                   disturbances, ghosts>>
\* _results is read in the order of the calls, not of their completion.
CollectResults ==
    /\ turn = "tools" /\ parallel /\ Len(done) = pending
    /\ Extend(held, [k \in 1 .. pending |-> Result(count, k)])
    /\ EndTools
    /\ UNCHANGED <<file_vars, history, count, window, held, sliceLen, snapshot, kept, cmd_vars,
                   disturbances, ghosts>>

RoundLimit ==
    /\ turn = "ask" /\ round = MaxRounds
    /\ Extend(held, <<Reply(count)>>)
    /\ turn' = "finishing" /\ outcome' = "limit"
    /\ UNCHANGED <<file_vars, history, count, window, held, run_vars, kept, cmd_vars,
                   disturbances, raced, tainted>>

----------------------------------------------------------------------------
(* send(): after the loop *)

ReplayForgotten ==
    /\ turn = "finishing"
    /\ turn' = "closing"
    /\ UNCHANGED <<file_vars, lists, history, count, window, held, run_vars, kept, cmd_vars,
                   disturbances, ghosts>>
\* What a windowed run added goes back into the full history.
Replay ==
    /\ turn = "finishing"
    /\ IF window = 0 THEN UNCHANGED lists ELSE Extend(history, Tail_(lists[held], sliceLen))
    /\ turn' = "closing"
    /\ UNCHANGED <<file_vars, history, count, window, held, run_vars, kept, cmd_vars,
                   disturbances, ghosts>>

\* The session store raised.
CloseFails == turn \in {"finishing", "closing"} /\ Fail

Close ==
    /\ turn = "closing"
    /\ Save(lists[history])
    /\ lists' = Collect(lists, {history, cmdHeld})
    /\ EndTurn(outcome)
    /\ UNCHANGED <<session, history, count, cmd_vars, disturbances, raced, tainted>>

\* Ctrl+C is no Exception: nothing is rolled back, and finally saves what the
\* history holds.  Before the try block nothing is saved either.
Interrupt ==
    /\ turn # "idle" /\ Disturb
    /\ IF Running THEN Save(lists[history]) ELSE UNCHANGED file
    /\ lists' = Collect(lists, {history, cmdHeld})
    /\ EndTurn("interrupted")
    /\ tainted' = TRUE
    /\ UNCHANGED <<session, history, count, cmd_vars, raced>>

----------------------------------------------------------------------------
(* Slash commands, from the REPL or the Matrix loop, without the lock *)

NoteRace ==
    /\ raced' = (raced \/ turn # "idle")
    /\ tainted' = (tainted \/ turn # "idle")
    /\ UNCHANGED outcome

\* reset(): a new session and an empty list.
ResetSession ==
    /\ session < MaxSessions /\ Disturb
    /\ session' = session + 1
    /\ Replace(<< >>, {held, cmdHeld})
    /\ NoteRace
    /\ UNCHANGED <<file, turn, count, window, held, run_vars, kept, cmd_vars>>

\* reload(): the file's contents.
Reload ==
    /\ Disturb
    /\ Replace(file[session], {held, cmdHeld})
    /\ NoteRace
    /\ UNCHANGED <<file_vars, turn, count, window, held, run_vars, kept, cmd_vars>>

\* compact_now(): the same compaction, forced.
StartCompactNow ==
    /\ cmd = "idle" /\ Disturb
    /\ \E i \in Splits(lists[history]) : cmdKept' = Tail_(lists[history], i)
    /\ cmd' = "summarising" /\ cmdHeld' = history
    /\ NoteRace
    /\ UNCHANGED <<file_vars, lists, history, turn, count, window, held, run_vars, kept>>

InstallCompactNow ==
    /\ cmd = "summarising"
    /\ Replace(Compacted(cmdKept), {held})
    /\ Save(Compacted(cmdKept))
    /\ cmd' = "idle" /\ cmdHeld' = NoList /\ cmdKept' = << >>
    /\ NoteRace
    /\ UNCHANGED <<session, turn, count, window, held, run_vars, kept, disturbances>>

AbandonCompactNow ==
    /\ cmd = "summarising"
    /\ history' = cmdHeld
    /\ lists' = Collect(lists, {held, cmdHeld})
    /\ cmd' = "idle" /\ cmdHeld' = NoList /\ cmdKept' = << >>
    /\ NoteRace
    /\ UNCHANGED <<file_vars, turn, count, window, held, run_vars, kept, disturbances>>

\* The process dies and starts again on the session it was in.
Crash ==
    /\ Disturb
    /\ history' = 1 /\ lists' = [r \in Ref |-> IF r = 1 THEN file[session] ELSE << >>]
    /\ IF turn = "idle" THEN UNCHANGED <<turn, outcome, window, held, kept, run_vars>>
                        ELSE EndTurn("crashed")
    /\ cmd' = "idle" /\ cmdHeld' = NoList /\ cmdKept' = << >>
    /\ UNCHANGED <<file_vars, count, raced, tainted>>

----------------------------------------------------------------------------
Turn ==
    \/ SkipCompaction \/ StartCompaction \/ InstallCompaction \/ AbandonCompaction
    \/ SaveUserMessage \/ BeginRun
    \/ TransientError \/ ProviderFails \/ Recover \/ CallNothing \/ Answer \/ CallTools
    \/ RunNextTool \/ CompleteTool \/ CollectResults \/ RoundLimit
    \/ Replay \/ CloseFails \/ Close

Commands ==
    \/ ResetSession \/ Reload
    \/ StartCompactNow \/ InstallCompactNow \/ AbandonCompactNow

Next == Send \/ Turn \/ Interrupt \/ Commands \/ Crash

Spec == Init /\ [][Next]_vars

\* send() runs in a thread of its own, model calls time out and tools return.
FairSpec == Spec /\ WF_vars(Turn)

----------------------------------------------------------------------------
(* Properties *)

TypeOK ==
    /\ file \in [1 .. MaxSessions -> Seq(Message)] /\ session \in 1 .. MaxSessions
    /\ lists \in [Ref -> Seq(Message)] /\ history \in Ref
    /\ turn \in TurnStates /\ count \in 0 .. MaxTurns /\ window \in Windows \cup {0}
    /\ held \in Ref \cup {NoList} /\ cmdHeld \in Ref \cup {NoList}
    /\ (Running => held # NoList) /\ (cmd # "idle" => cmdHeld # NoList)
    /\ sliceLen \in Nat /\ snapshot \in Nat
    /\ round \in 0 .. MaxRounds /\ attempt \in 0 .. MaxRetries
    /\ pending \in 0 .. MaxCalls /\ parallel \in BOOLEAN /\ Len(done) <= pending
    /\ kept \in Seq(Message) /\ cmdKept \in Seq(Message) /\ cmd \in {"idle", "summarising"}
    /\ disturbances \in 0 .. MaxDisturbances
    /\ outcome \in {"none", "answered", "limit", "failed", "interrupted", "crashed"}
    /\ raced \in BOOLEAN /\ tainted \in BOOLEAN

Request == lists[held]

\* Every tool call is followed by its results, one each, in call order.
Answered(s) ==
    \A i \in 1 .. Len(s) : \A k \in 1 .. (IF s[i].role = "assistant" THEN s[i].n ELSE 0) :
        /\ i + k <= Len(s)
        /\ s[i + k] = Result(s[i].turn, k)

\* A result without its call stands where a cut left it: after nothing but
\* other results and what a compaction wrote.
OrphansAtTheCut(s) ==
    \A i \in 1 .. Len(s) : s[i].role = "tool" =>
        \/ i > s[i].n /\ s[i - s[i].n].role = "assistant" /\ s[i - s[i].n].n >= s[i].n
        \/ \A j \in 1 .. i - 1 : s[j].turn = 0 \/ s[j].role = "tool"

\* What a provider is asked to continue pairs every tool call with its
\* results in call order, over retries, nudges, parallel tools, windows and
\* compactions, unless Ctrl+C or an unlocked command came in between; and
\* even then results lose their calls only where the history was cut.
RequestIsPaired ==
    Thinking => OrphansAtTheCut(Request) /\ (tainted \/ Answered(Request))

\* A turn no command raced with that ends with an answer (or at the round
\* limit) leaves both its message and its answer on file, whatever window it
\* was run with.
AnswerIsOnFile ==
    [][ Close /\ ~raced =>
        LET s == file'[session]
        IN Last(s) = Reply(count) /\ \E i \in 1 .. Len(s) : s[i] = User(count) ]_vars

\* A turn no command raced with that fails keeps exactly its message and the
\* error record: nothing of the rounds, results and nudges it had produced.
FailedTurnIsRolledBack ==
    [][ turn # "idle" /\ turn' = "idle" /\ outcome' = "failed" /\ ~raced =>
        LET s == file'[session]
            mine == {i \in 1 .. Len(s) : s[i].turn = count}
        IN /\ mine = {Len(s) - 1, Len(s)}
           /\ s[Len(s) - 1] = User(count) /\ s[Len(s)] = Reply(count) ]_vars

\* Retries, nudges and tool rounds cannot keep a turn going for ever.
TurnsEnd == []<>(turn = "idle")

\* Claimed by agents/session.py: an exception rolls back what run_turn had
\* appended, and the API wants every call answered.  Ctrl+C does neither.
CallsAreAnswered == Thinking => Answered(Request)

=============================================================================
