---------------------------- MODULE ProviderWire ----------------------------
(***************************************************************************)
(* What the chat providers do with a conversation                          *)
(* (providers/openai_compatible.py, providers/anthropic.py).  A streamed   *)
(* reply brings the calls of the model in pieces that interleave, and is   *)
(* begun again when the connection breaks; a history kept in one format is *)
(* sent in another, in which the results of one round of calls belong in   *)
(* one message.                                                            *)
(***************************************************************************)
EXTENDS Naturals, Sequences, SequencesExt

CONSTANTS
    MaxCalls,    \* bound: calls of one reply
    MaxPieces,   \* bound: pieces the arguments of a call come in
    MaxMessages, \* bound: length of the conversation
    MaxRetries   \* attempts after the first one

WireAssumption == {MaxCalls, MaxPieces, MaxMessages, MaxRetries} \subseteq Nat

VARIABLES
    history, \* the messages of the conversation, in the internal format
    reply,   \* external: how many calls the model makes, and what it has sent of each
    acc,     \* tool_accumulators, in the order in which the calls first appeared
    retries, \* attempts that broke
    stream   \* "idle", or "open"

vars == <<history, reply, acc, retries, stream>>

\* The arguments of a call are text the model writes in one go.
Arguments(i) == [k \in 1 .. MaxPieces |-> <<i, k>>]

Text(role) == [role |-> role, calls |-> <<>>, answers |-> 0, cut |-> FALSE]

Init ==
    /\ history = <<Text("user")>>
    /\ reply = <<>> /\ acc = <<>>
    /\ retries = 0 /\ stream = "idle"

LastReply(h) == SelectLastInSeq(h, LAMBDA m : m.role = "assistant")

\* The calls that wait for their result: those of the last reply that the tool
\* messages after it do not answer.
Unanswered(h) ==
    IF LastReply(h) = 0 THEN {}
    ELSE (1 .. Len(h[LastReply(h)].calls))
           \ {h[j].answers : j \in LastReply(h) + 1 .. Len(h)}

-----------------------------------------------------------------------------
(* Receiving a reply. *)

\* json.loads takes the whole of the arguments, or finds them malformed.
ParseToolArguments(call) ==
    IF \E i \in 1 .. MaxCalls : call.args = Arguments(i) THEN "ok" ELSE "malformed"

Assistant(accumulated, cut) ==
    [Text("assistant") EXCEPT
        !.calls = [i \in 1 .. Len(accumulated) |-> ParseToolArguments(accumulated[i])],
        !.cut = cut]

OpenStream(n) ==
    /\ stream = "idle" /\ Unanswered(history) = {} /\ Last(history).role # "assistant"
    /\ Len(history) < MaxMessages
    /\ stream' = "open"
    /\ reply' = [i \in 1 .. n |-> 0]
    /\ acc' = <<>>
    /\ UNCHANGED <<history, retries>>

\* The pieces are gathered by the position of their call.
Gathered(a, i, piece) ==
    LET at == SelectInSeq(a, LAMBDA c : c.index = i) IN
    IF at = 0 THEN Append(a, [index |-> i, args |-> <<piece>>])
    ELSE [a EXCEPT ![at].args = Append(@, piece)]

Chunk(i) ==
    /\ stream = "open" /\ i \in DOMAIN reply /\ reply[i] < MaxPieces
    /\ reply' = [reply EXCEPT ![i] = @ + 1]
    /\ acc' = Gathered(acc, i, <<i, reply[i] + 1>>)
    /\ UNCHANGED <<history, retries, stream>>

\* The stream ends when the model is done, or at max_tokens in mid-call.
StreamEnds ==
    /\ stream = "open"
    /\ stream' = "idle"
    /\ history' = Append(history,
                      Assistant(acc, \E i \in DOMAIN reply : reply[i] < MaxPieces))
    /\ reply' = <<>> /\ acc' = <<>>
    /\ retries' = 0

AfterTheBreakKept == acc
AfterTheBreak == <<>>

\* _call_with_retry calls chat() again: the accumulators are local to it, and
\* the model answers anew.
StreamBreaks(n) ==
    /\ stream = "open" /\ retries < MaxRetries
    /\ retries' = retries + 1
    /\ reply' = [i \in 1 .. n |-> 0]
    /\ acc' = AfterTheBreak
    /\ UNCHANGED <<history, stream>>

\* Anthropic's reply is read from the final message, also after a stream, and
\* the arguments of its calls are parsed already.
AnthropicReply(n) ==
    /\ stream = "idle" /\ Unanswered(history) = {} /\ Last(history).role # "assistant"
    /\ Len(history) < MaxMessages
    /\ history' = Append(history, [Text("assistant") EXCEPT !.calls = [i \in 1 .. n |-> "ok"]])
    /\ UNCHANGED <<reply, acc, retries, stream>>

\* Without on_token the reply is read whole.
BlockingReply(n) ==
    /\ stream = "idle" /\ Unanswered(history) = {} /\ Last(history).role # "assistant"
    /\ Len(history) < MaxMessages
    /\ history' = Append(history,
                      Assistant([i \in 1 .. n |-> [index |-> i, args |-> Arguments(i)]], FALSE))
    /\ UNCHANGED <<reply, acc, retries, stream>>

-----------------------------------------------------------------------------
(* The rest of the conversation (agents/runner.py). *)

UserMessage ==
    /\ stream = "idle" /\ Unanswered(history) = {} /\ Len(history) < MaxMessages
    /\ history' = Append(history, Text("user"))
    /\ UNCHANGED <<reply, acc, retries, stream>>

ToolResult ==
    /\ stream = "idle" /\ Unanswered(history) # {}
    /\ LET first == CHOOSE i \in Unanswered(history) : \A j \in Unanswered(history) : i <= j
       IN history' = Append(history, [Text("tool") EXCEPT !.answers = first])
    /\ UNCHANGED <<reply, acc, retries, stream>>

Next ==
    \/ \E n \in 0 .. MaxCalls : OpenStream(n) \/ StreamBreaks(n) \/ BlockingReply(n)
                             \/ AnthropicReply(n)
    \/ \E i \in 1 .. MaxCalls : Chunk(i)
    \/ StreamEnds \/ UserMessage \/ ToolResult

Spec == Init /\ [][Next]_vars

-----------------------------------------------------------------------------
(* _to_anthropic_messages *)

Wire(role, uses, results) == [role |-> role, uses |-> uses, results |-> results]

ToAnthropic(out, m) ==
    IF m.role # "tool" THEN Append(out, Wire(m.role, DOMAIN m.calls, {}))
    ELSE IF out = <<>> \/ Last(out).results = {}
         THEN Append(out, Wire("user", {}, {m.answers}))
         ELSE [out EXCEPT ![Len(out)].results = @ \union {m.answers}]

ToAnthropicMessages(h) == FoldLeft(ToAnthropic, <<>>, h)

\* A reply that came to its end brings every call whole, however its pieces
\* interleaved and however often it was begun.
CallsArriveWhole ==
    \A j \in DOMAIN history :
        ~history[j].cut => \A i \in DOMAIN history[j].calls : history[j].calls[i] = "ok"

\* In the request to Anthropic the message after a reply that calls tools
\* brings the results of all its calls and of no other, as that interface
\* demands (providers/anthropic.py:317-324).
ResultsFollowTheirCalls ==
    (stream = "idle" /\ Unanswered(history) = {}) =>
        LET sent == ToAnthropicMessages(history) IN
        \A j \in DOMAIN sent :
            /\ sent[j].uses # {} => j < Len(sent) /\ sent[j + 1].results = sent[j].uses
            /\ sent[j].results # {} => j > 1 /\ sent[j - 1].uses = sent[j].results
=============================================================================
