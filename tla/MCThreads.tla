----------------------------- MODULE MCThreads -----------------------------
(***************************************************************************)
(* What several threads of the program work on at a time: the Codex        *)
(* process behind a provider, the voice session, a topic note and the file *)
(* with the Codex tokens.  They share no state with each other, so that    *)
(* one run explores them one at a time: part says which moves, and the     *)
(* others stay where they begin.                                           *)
(***************************************************************************)
EXTENDS CodexProvider

CONSTANTS MaxChunks, MaxBlocks, MaxUtterances,
          Writers, Proposals, Texts, MaxPreviews, MaxRevisions, MaxFaults,
          Refreshers, Logins, MaxRefresh

VARIABLES
  part,
  main, capturing, vad, tagged, started, playing, utterances, synth, stray, blocks,
  since, spoken,
  file, revs, previews, reviews, chunks, import, jobs, revisions, faults, overlap,
  tokens, server, aged, caller, losses

chatVars == <<rpc, process, memory, talk, pc, input, reply, heard, reader, passed, clean>>
voiceVars == <<main, capturing, vad, tagged, started, playing, utterances, synth, stray,
               blocks, since, spoken>>
noteVars == <<file, revs, previews, reviews, chunks, import, jobs, revisions, faults,
              overlap>>
tokenVars == <<tokens, server, aged, caller, losses>>

Voice == INSTANCE VoiceSession
Note == INSTANCE TopicNotes WITH status <- reviews, work <- jobs, rows <- revisions
Token == INSTANCE CodexAuth WITH Callers <- Refreshers, file <- tokens, faults <- losses

ASSUME Assumptions ==
  Voice!VoiceAssumption /\ Note!NotesAssumption /\ Token!AuthAssumption
-----------------------------------------------------------------------------
MCInit ==
  /\ part \in {"chat", "voice", "note", "token"}
  /\ Init /\ Voice!Init /\ Note!Init /\ Token!Init

MCNext ==
  /\ UNCHANGED part
  /\ \/ part = "chat" /\ Next /\ UNCHANGED <<voiceVars, noteVars, tokenVars>>
     \/ part = "voice" /\ Voice!Next /\ UNCHANGED <<chatVars, noteVars, tokenVars>>
     \/ part = "note" /\ Note!Next /\ UNCHANGED <<chatVars, voiceVars, tokenVars>>
     \/ part = "token" /\ Token!Next /\ UNCHANGED <<chatVars, voiceVars, noteVars>>

mcVars == <<part, chatVars, voiceVars, noteVars, tokenVars>>
MCSpec == MCInit /\ [][MCNext]_mcVars
-----------------------------------------------------------------------------
(* The properties of the parts, as their modules state them. *)

\* Only what began while an answer was spoken is thrown away, and at most one
\* more block of that answer is played.
VoiceIsHeard == Voice!OnlyOverlapsAreDropped /\ Voice!BargeInIsPrompt
\* A proposal that waits for its review can be found.
PendingIsSearchable == Note!PendingIsSearchable
\* Nobody has to log in again because two callers refreshed at once.
FileCanBeRefreshed == Token!FileCanBeRefreshed
\* The note is a text with its undo history, whenever operations do not overlap,
\* though any of them may stop half-way.
ImplementsVersionedNote == Note!ImplementsVersionedNote
=============================================================================
