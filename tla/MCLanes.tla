------------------------------ MODULE MCLanes ------------------------------
(***************************************************************************)
(* Two job lanes of the session database, captures and embeddings with     *)
(* image captions, and the process that starts and stops their workers.    *)
(* They are explored one at a time, the lanes sharing no row and the       *)
(* process having lanes of its own: part says which moves, and the others  *)
(* stay where they begin.                                                  *)
(***************************************************************************)
EXTENDS CaptureLane

CONSTANTS MaxFaults,
          Images, MaxFolds,
          WorkerOrder, MaxSignals, MaxStarts

VARIABLES
  part,
  content, vector, embedding, embedAttempts, old, embedder, seen, caption, tries,
  captioner, image, vision, turn, attached, mediaFaults, mediaCrashes, outrun, cutCaptions,
  main, next, handler, waiting, have, told, work, stranded, database, listener, asked,
  sending, loop, cut, signals, starts

mediaVars == <<content, vector, embedding, embedAttempts, old, embedder, seen, caption,
               tries, captioner, image, vision, turn, attached, mediaFaults, mediaCrashes,
               outrun, cutCaptions>>
processVars == <<main, next, handler, waiting, have, told, work, stranded, database,
                 listener, asked, sending, loop, cut, signals, starts>>

Media == INSTANCE MediaLanes WITH
  job <- embedding, attempts <- embedAttempts, faults <- mediaFaults,
  crashes <- mediaCrashes, cut <- cutCaptions
Process == INSTANCE Supervision WITH turn <- sending

\* Two of the four workers, which main treats alike.
MCWorkerOrder == <<"capture_worker", "image_caption_worker">>

ASSUME Assumptions == Media!MediaConstants /\ Process!SupervisionAssumption
-----------------------------------------------------------------------------
\* The initial states of the media differ only where they move.
MCInit ==
  /\ part \in {"captures", "media", "process"}
  /\ Init /\ Media!Init /\ Process!Init
  /\ part = "media" \/ (~content.text /\ attached = {1} /\ ~vision)

MCNext ==
  /\ UNCHANGED part
  /\ \/ part = "captures" /\ Next /\ UNCHANGED <<mediaVars, processVars>>
     \/ part = "media" /\ Media!Next /\ UNCHANGED <<vars, processVars>>
     \/ part = "process" /\ Process!Next /\ UNCHANGED <<vars, mediaVars>>

\* The fairness of each part, where it moves.
Fairness ==
  /\ WF_vars(part = "captures" /\ Worker) /\ WF_vars(part = "captures" /\ BackoffElapses)
  /\ WF_mediaVars(part = "media" /\ Media!Turn)
  /\ WF_mediaVars(part = "media" /\ Media!Embedder)
  /\ WF_mediaVars(part = "media" /\ Media!Captioner)
  /\ WF_mediaVars(part = "media" /\ Media!ReconcileEmbedding)
  /\ WF_processVars(part = "process" /\ Process!MainStep)
  /\ WF_processVars(part = "process" /\ Process!TurnEnds)

mcVars == <<part, vars, mediaVars, processVars>>
MCSpec == MCInit /\ [][MCNext]_mcVars /\ Fairness
-----------------------------------------------------------------------------
(* The properties of the parts, as their modules state them. *)

\* The queue drains; nothing of an unfinished job is indexed on the way, and no
\* pruning of jobs takes proposals with it.
CapturesArrive == []UnfinishedNeverIndexed /\ ProposalsSurvive /\ QueueDrains

\* A finished caption is in the message's searchable text unless its thread ended
\* before it was folded in; a vector of an older text is about to be deleted, or is
\* one whose deletion a race of the two workers, an error or a death prevented.
CaptionsAreSearchable == Media!DoneCaptionIsInContent /\ Media!StaleVectorIsARace
\* A message with text is embedded in the end.
TextIsEmbedded == Media!TextIsEmbedded
\* No worker looks for jobs before those of a dead process are reclaimed, a
\* process that ends in order has told every part to stop, and stopping ends.
WorkersAreSupervised ==
  [](Process!ReclaimedFirst /\ Process!EveryPartIsTold) /\ Process!StoppingEnds
=============================================================================
