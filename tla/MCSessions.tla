----------------------------- MODULE MCSessions -----------------------------
(***************************************************************************)
(* The life of a session's record: its deletion, the mirror of its         *)
(* transcript in the database, and the turns that write it.  The parts     *)
(* share no state, so that one run explores them one at a time: part says  *)
(* which moves, and the others stay where they begin.                      *)
(***************************************************************************)
EXTENDS SessionDeletion, Sequences

CONSTANTS MaxMessages, MaxMirrorFaults, Timers,
          MaxTurns, MaxRounds, MaxRetries, MaxCalls, Windows, MaxDisturbances, MaxSessions

VARIABLES
  part,
  made, events, jsonl, table, mirrors, db, saving, sweep, periodic, length, assigned,
  copy, todo, step, row, mirrorFaults,
  transcripts, current, lists, history, turn, count, window, held, sliceLen, snapshot,
  round, attempt, pending, parallel, ran, tail, cmd, cmdHeld, cmdKept, disturbances,
  outcome, raced, tainted

mirrorVars == <<made, events, jsonl, table, mirrors, db, saving, sweep, periodic, length,
                assigned, copy, todo, step, row, mirrorFaults>>
turnVars == <<transcripts, current, lists, history, turn, count, window, held, sliceLen,
              snapshot, round, attempt, pending, parallel, ran, tail, cmd, cmdHeld,
              cmdKept, disturbances, outcome, raced, tainted>>

Mirror == INSTANCE SessionMirror WITH
  file <- jsonl, rows <- table, turn <- saving, rec <- sweep, snapshot <- length,
  faults <- mirrorFaults, MaxFaults <- MaxMirrorFaults
Turns == INSTANCE AgentTurn WITH
  file <- transcripts, session <- current, done <- ran, kept <- tail

ASSUME Assumptions == Mirror!MirrorAssumption /\ Turns!AgentTurnConstants
-----------------------------------------------------------------------------
\* The parts' initial states differ only where they move.
MCInit ==
  /\ part \in {"deletion", "mirror", "turns"}
  /\ Init /\ Mirror!Init /\ Turns!Init
  /\ part = "deletion" \/ given = 0
  /\ part = "mirror" \/ (db /\ periodic)

MCNext ==
  /\ UNCHANGED part
  /\ \/ part = "deletion" /\ Next /\ UNCHANGED <<mirrorVars, turnVars>>
     \/ part = "mirror" /\ Mirror!Next /\ UNCHANGED <<vars, turnVars>>
     \/ part = "turns" /\ Turns!Next /\ UNCHANGED <<vars, mirrorVars>>

\* The fairness of each part, where it moves.
Fairness ==
  /\ WF_vars(part = "deletion" /\ Retry)
  /\ WF_vars(part = "deletion" /\ DeleteStep("command"))
  /\ WF_mirrorVars(part = "mirror" /\ Mirror!Reconciler)
  /\ WF_mirrorVars(part = "mirror" /\ Mirror!Restart)
  /\ WF_turnVars(part = "turns" /\ Turns!Turn)

mcVars == <<part, vars, mirrorVars, turnVars>>
MCSpec == MCInit /\ [][MCNext]_mcVars /\ Fairness
-----------------------------------------------------------------------------
(* The properties of the other parts, as their modules state them. *)

\* No two copies of a message disagree on its id and only faults make a second
\* row; a startup completes the mirror, and again and again everything in the
\* file is mirrored.
MirrorFollowsFile ==
  /\ [](Mirror!CopiesAgreeOnIds /\ Mirror!DuplicateRowsNeedFaults)
  /\ Mirror!StartupCompletesMirror /\ Mirror!EventuallyMirrored
\* Every request to the model answers each tool call it contains.
RequestIsPaired == Turns!RequestIsPaired
\* A turn ends, and one that answered has its answer on file.
TurnsAreAnswered == Turns!AnswerIsOnFile /\ Turns!TurnsEnd
\* A turn that failed leaves the history as it was.
FailedTurnIsRolledBack == Turns!FailedTurnIsRolledBack
=============================================================================
