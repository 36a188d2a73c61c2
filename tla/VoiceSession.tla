---------------------------- MODULE VoiceSession ----------------------------
(***************************************************************************)
(* Speech to speech (voice/session.py, voice/vad.py): a capture thread     *)
(* cuts what the microphone hears into utterances, the main thread         *)
(* transcribes one, has it answered and plays the answer, and a thread per *)
(* answer synthesises it into a queue of two chunks.  The microphone hears *)
(* the loudspeaker, too: speech that begins while an answer is played      *)
(* interrupts it and is not transcribed.                                   *)
(***************************************************************************)
EXTENDS Naturals, Sequences

CONSTANTS
    MaxChunks,    \* bound: chunks of an answer
    MaxBlocks,    \* bound: blocks of 50 ms in a chunk
    MaxUtterances \* bound: utterances in the queue

Buffer == 2       \* Queue(maxsize=2)

VoiceAssumption == {MaxChunks, MaxBlocks} \subseteq Nat \ {0} /\ MaxUtterances \in Nat

VARIABLES
    main,      \* where the main thread is
    capturing, \* the capture thread has not been told to stop
    vad,       \* where the capture thread is
    tagged,    \* onset_during_tts
    started,   \* speech_started
    playing,   \* tts_playing
    utterances,\* _utterance_queue
    synth,     \* the thread of the answer that is spoken, and its audio_q
    stray,     \* the last such thread that was left behind
    blocks,    \* blocks of the chunk that are not written
    since,     \* history: blocks written since this utterance began
    spoken     \* history: the answer was being spoken at the onset

capture == <<capturing, vad, tagged, started, utterances, spoken>>
vars == <<main, capturing, vad, tagged, started, playing, utterances, synth, stray, blocks,
          since, spoken>>

NoSynth == [at |-> "none", left |-> 0, chunks |-> 0, last |-> FALSE, cancelled |-> FALSE]

Init ==
    /\ main = "poll"
    /\ capturing = TRUE /\ vad = "silence" /\ tagged = FALSE
    /\ started = FALSE /\ playing = FALSE
    /\ utterances = <<>>
    /\ synth = NoSynth /\ stray = NoSynth
    /\ blocks = 0 /\ since = 0 /\ spoken = FALSE

Speaking == main \in {"first", "open", "check", "write", "next", "wait", "drain"}

-----------------------------------------------------------------------------
(* The capture thread. *)

\* "start": the flag is read, speech_started is set one statement later.
Onset ==
    /\ vad = "silence" /\ capturing
    /\ vad' = "onset"
    /\ tagged' = playing
    /\ spoken' = Speaking
    /\ UNCHANGED <<main, capturing, started, playing, utterances, synth, stray, blocks, since>>

SignalSpeech ==
    /\ vad = "onset"
    /\ vad' = "speech"
    /\ started' = TRUE
    /\ since' = 0
    /\ UNCHANGED <<main, capturing, tagged, playing, utterances, synth, stray, blocks, spoken>>

\* "end": the utterance is queued with its tag, then the signal is taken back.
EndOfSpeech ==
    /\ vad = "speech" /\ capturing /\ Len(utterances) < MaxUtterances
    /\ vad' = "end"
    /\ utterances' = Append(utterances, [during |-> tagged, spoken |-> spoken])
    /\ tagged' = FALSE
    /\ spoken' = FALSE
    /\ UNCHANGED <<main, capturing, started, playing, synth, stray, blocks, since>>

ClearSignal ==
    /\ vad = "end"
    /\ vad' = "silence"
    /\ started' = FALSE
    /\ UNCHANGED <<main, capturing, tagged, playing, utterances, synth, stray, blocks, since,
                   spoken>>

\* The loop sees the stop event, or the microphone fails: nothing is taken back.
CaptureEnds ==
    /\ vad \in {"silence", "speech"}
    /\ vad' = "ended"
    /\ UNCHANGED <<main, capturing, tagged, started, playing, utterances, synth, stray, blocks,
                   since, spoken>>

-----------------------------------------------------------------------------
(* The main thread: from an utterance to its answer. *)

Take ==
    /\ main = "poll" /\ utterances # <<>>
    /\ utterances' = Tail(utterances)
    /\ main' = IF Head(utterances).during THEN "poll" ELSE "transcribe"
    /\ UNCHANGED <<capturing, vad, tagged, started, playing, synth, stray, blocks, since, spoken>>

\* An error or an empty text, of the transcription or of the answer, ends it.
Transcribe ==
    /\ main = "transcribe"
    /\ main' \in {"poll", "answer"}
    /\ UNCHANGED <<capture, playing, synth, stray, blocks, since>>

Answer ==
    /\ main = "answer"
    /\ main' \in {"poll", "speak"}
    /\ UNCHANGED <<capture, playing, synth, stray, blocks, since>>

-----------------------------------------------------------------------------
(* The main thread: _speak_streaming. *)

Speak ==
    /\ main = "speak"
    /\ playing' = TRUE
    /\ main' = "first"
    /\ \E n \in 0..MaxChunks :
          synth' = [NoSynth EXCEPT !.at = IF n = 0 THEN "finish" ELSE "make", !.left = n]
    /\ UNCHANGED <<capture, stray, blocks, since>>

\* The finally: whatever ended the answer, its thread is on its own now.
Silence(told) ==
    /\ playing' = FALSE
    /\ synth' = NoSynth
    /\ stray' = IF synth.at \in {"none", "done"} THEN stray
                ELSE [synth EXCEPT !.cancelled = @ \/ told]
    /\ blocks' = 0

\* Mutant: only a normal end clears tts_playing.
LeaveNoFinally(told) ==
    /\ main' = "poll"
    /\ playing' = ~told
    /\ synth' = NoSynth /\ UNCHANGED stray
    /\ blocks' = 0
    /\ UNCHANGED <<capture, since>>

Leave(told) ==
    /\ main' = "poll"
    /\ Silence(told)
    /\ UNCHANGED <<capture, since>>

Fetch(next) ==
    /\ synth.chunks > 0
    /\ synth' = [synth EXCEPT !.chunks = @ - 1]
    /\ blocks' \in 1..MaxBlocks
    /\ main' = next
    /\ UNCHANGED <<capture, playing, stray, since>>

FirstChunk == main = "first" /\ Fetch("open")

NothingToSay == main = "first" /\ synth.chunks = 0 /\ synth.last /\ Leave(FALSE)

\* 60 seconds without a chunk; the thread is not told.
FirstTimesOut == main = "first" /\ synth.chunks = 0 /\ ~synth.last /\ Leave(FALSE)

OpenStream ==
    /\ main = "open"
    /\ main' = "check"
    /\ UNCHANGED <<capture, playing, synth, stray, blocks, since>>

\* The device is busy: the exception is printed, the thread is not told.
OpenFails == main = "open" /\ Leave(FALSE)

\* _bargin before every block.
Check ==
    /\ main = "check" /\ ~started
    /\ main' = "write"
    /\ UNCHANGED <<capture, playing, synth, stray, blocks, since>>

BargeIn == main \in {"check", "next", "drain"} /\ started /\ Leave(TRUE)

AfterBlock == IF blocks > 1 THEN "check" ELSE "next"

Write ==
    /\ main = "write"
    /\ main' = AfterBlock
    /\ blocks' = blocks - 1
    /\ since' = IF started /\ since < 2 THEN since + 1 ELSE since
    /\ UNCHANGED <<capture, playing, synth, stray>>

NextChunk ==
    /\ main = "next" /\ ~started
    /\ main' = "wait"
    /\ UNCHANGED <<capture, playing, synth, stray, blocks, since>>

Continue == main = "wait" /\ Fetch("check")

\* The sentinel, or 60 seconds without anything.
LastChunk ==
    /\ main = "wait" /\ synth.chunks = 0
    /\ main' = "drain"
    /\ UNCHANGED <<capture, playing, synth, stray, blocks, since>>

\* The device plays what it has buffered.
Drain == main = "drain" /\ Leave(FALSE)

\* Ctrl+C; run stops the capture thread and waits three seconds for it.
Interrupt ==
    /\ main # "ended"
    /\ main' = "ended"
    /\ capturing' = FALSE
    /\ Silence(TRUE)                   \* _running is False
    /\ UNCHANGED <<vad, tagged, started, utterances, since, spoken>>

-----------------------------------------------------------------------------
(* A synthesis thread, also one that was left behind. *)

Full(t) == t.chunks + (IF t.last THEN 1 ELSE 0) = Buffer

\* An exception ends a streamed answer, and skips a sentence of a split one.
Synthesise(t) ==
    IF t.at # "make" THEN {}
    ELSE IF t.cancelled THEN {[t EXCEPT !.at = "finish"]}
    ELSE {[t EXCEPT !.at = "put"], [t EXCEPT !.at = "finish"],
          [t EXCEPT !.left = @ - 1, !.at = IF t.left = 1 THEN "finish" ELSE "make"]}

Put(t) ==
    IF t.at = "put" /\ ~Full(t)
    THEN {[t EXCEPT !.chunks = @ + 1, !.left = @ - 1,
                    !.at = IF t.left = 1 THEN "finish" ELSE "make"]}
    ELSE {}

Finish(t) == IF t.at = "finish" /\ ~Full(t)
             THEN {[t EXCEPT !.last = TRUE, !.at = "done"]} ELSE {}

Moves(t) == Synthesise(t) \cup Put(t) \cup Finish(t)

SynthStep ==
    /\ synth' \in Moves(synth)
    /\ UNCHANGED <<main, capture, playing, stray, blocks, since>>

StrayStep ==
    /\ stray' \in Moves(stray)
    /\ UNCHANGED <<main, capture, playing, synth, blocks, since>>

-----------------------------------------------------------------------------
SpeakStep ==
    \/ Speak \/ FirstChunk \/ NothingToSay \/ FirstTimesOut \/ OpenStream \/ OpenFails
    \/ Check \/ BargeIn \/ Write \/ NextChunk \/ Continue \/ LastChunk \/ Drain

Next ==
    \/ Onset \/ SignalSpeech \/ EndOfSpeech \/ ClearSignal \/ CaptureEnds
    \/ Take \/ Transcribe \/ Answer \/ SpeakStep \/ Interrupt
    \/ SynthStep \/ StrayStep

Spec == Init /\ [][Next]_vars

-----------------------------------------------------------------------------
\* Types of the flags, the threads and the queues.
TypeOK ==
    /\ main \in {"poll", "transcribe", "answer", "speak", "first", "open", "check", "write",
                 "next", "wait", "drain", "ended"}
    /\ vad \in {"silence", "onset", "speech", "end", "ended"}
    /\ {capturing, tagged, started, playing, spoken} \subseteq BOOLEAN
    /\ utterances \in Seq([during : BOOLEAN, spoken : BOOLEAN])
    /\ {synth, stray} \subseteq [at : {"none", "make", "put", "finish", "done"},
                                 left : 0..MaxChunks, chunks : 0..Buffer,
                                 last : BOOLEAN, cancelled : BOOLEAN]
    /\ blocks \in 0..MaxBlocks /\ since \in 0..2

\* "immediate barge-in on speech detection": from the moment speech is signalled
\* until that utterance has ended at most one more block of 50 ms is played.
BargeInIsPrompt == since <= 1

\* Only what began while an answer was spoken is thrown away: the flag never
\* outlives the answer, whichever way that ended.
OnlyOverlapsAreDropped ==
    \A i \in 1..Len(utterances) : utterances[i].during => utterances[i].spoken

=============================================================================
