--------------------------- MODULE Lanes_proofs ----------------------------
(***************************************************************************)
(* Theorems about the two job lanes, for any number of jobs, attempts,     *)
(* facts, rows, images, database errors and crashes; and about the process *)
(* that starts and stops their workers, for any workers, signals and       *)
(* restarts.                                                               *)
(***************************************************************************)
EXTENDS MCLanes, Sequences, TLAPS

(* The capture lane. *)

(* What the worker still has to insert never exceeds what it extracted.     *)
LeftBound == pc = "recording" => left <= facts[cur]

(* Between MarkDone and the end of _process_one the worker has a job.       *)
CurIsKey == pc = "indexing" => cur \in Keys

IInv == TypeOK /\ HeldJobUntouched /\ RetryLimit /\ LeftBound /\ CurIsKey

(* The initial state of the tables and of the worker satisfies IInv.        *)
LEMMA InitIInv == Init => IInv
  BY CaptureAssumption
  DEF Init, IInv, TypeOK, HeldJobUntouched, RetryLimit, LeftBound, CurIsKey,
      State, Age, Loc, Holding

(* Every statement of every actor preserves IInv. TypeOK alone is not       *)
(* inductive: the number a proposal gets is in range only because left      *)
(* stays below what was extracted; and RetryLimit needs HeldJobUntouched,   *)
(* since FailJob counts on a row it has not looked at since the claim.      *)
LEMMA NextIInv == IInv /\ [Next]_vars => IInv'
<1> SUFFICES ASSUME IInv, [Next]_vars PROVE IInv'
  OBVIOUS
<1> USE CaptureAssumption
<1> USE DEF IInv, TypeOK, HeldJobUntouched, RetryLimit, LeftBound, CurIsKey,
            State, Age, Loc, Holding
<1>1. ASSUME NEW k \in Keys, Enqueue(k) PROVE IInv'
  BY <1>1 DEF Enqueue, outVars, workerVars, bounds, history
<1>2. ASSUME NEW k \in Keys, ClaimNext(k) PROVE IInv'
  BY <1>2 DEF ClaimNext, Claimable, SetState, outVars, bounds
<1>3. CASE ClaimRaises
  BY <1>3 DEF ClaimRaises, Raise, Release, rowVars, outVars, history
<1>4. ASSUME NEW n \in 0..MaxFacts, Extract(n) PROVE IInv'
  BY <1>4 DEF Extract, rowVars, outVars, bounds
<1>5. CASE ExtractRaises
  BY <1>5 DEF ExtractRaises, rowVars, outVars, bounds, history
<1>6. CASE RecordProposal
  BY <1>6 DEF RecordProposal, rowVars, bounds, history
<1>7. CASE MarkDone
  BY <1>7 DEF MarkDone, AllRecorded, SetState, outVars, bounds, history
<1>8. CASE RecordingRaises
  BY <1>8 DEF RecordingRaises, Raise, rowVars, outVars, history
<1>9. ASSUME NEW S \in SUBSET proposals, IndexProposals(S) PROVE IInv'
  BY <1>9 DEF IndexProposals, Release, rowVars, bounds, history
<1>10. CASE FailJob
  BY <1>10 DEF FailJob, Exhausted, SetState, Release, outVars, bounds, history
<1>11. CASE FailRaises
  BY <1>11 DEF FailRaises, Raise, Release, rowVars, outVars, history
<1>12. CASE BackoffElapses
  BY <1>12 DEF BackoffElapses, outVars, workerVars, bounds, history
<1>13. ASSUME NEW a \in 1..2, TimePasses(a) PROVE IInv'
  BY <1>13 DEF TimePasses, outVars, workerVars, bounds, history
<1>14. CASE Crash
  BY <1>14 DEF Crash, Release, rowVars, outVars, history
<1>15. CASE Restart
  BY <1>15 DEF Restart, Stuck, outVars, bounds, history
<1>16. CASE PruneJobs
  BY <1>16 DEF PruneJobs, Prunable, OnJobDelete, Terminal, workerVars, bounds, history
<1>17. CASE UNCHANGED vars
  BY <1>17 DEF vars, rowVars, outVars, workerVars, bounds, history
<1> QED
  BY <1>1, <1>2, <1>3, <1>4, <1>5, <1>6, <1>7, <1>8, <1>9, <1>10, <1>11, <1>12,
     <1>13, <1>14, <1>15, <1>16, <1>17 DEF Next, Worker, Faults

\* The invariant holds in every reachable state.
LEMMA Invariant == Spec => []IInv
  BY InitIInv, NextIInv, PTL DEF Spec

(* Every reachable row, proposal and worker state is well typed.            *)
THEOREM TypeCorrect == Spec => []TypeOK
  BY Invariant, PTL DEF IInv

(* The worker's final UPDATE of a job never overwrites anybody else's.      *)
THEOREM HeldJobIsUntouched == Spec => []HeldJobUntouched
  BY Invariant, PTL DEF IInv

(* No job is retried past _MAX_ATTEMPTS, and none is given up before it.    *)
THEOREM RetriesAreBounded == Spec => []RetryLimit
  BY Invariant, PTL DEF IInv

------------------------------------------------------------------------------
(* What memory_proposals holds of the latest claim of the job at hand: the  *)
(* facts inserted so far. No proposal is numbered after a claim to come.    *)
RecordedSoFar ==
    /\ \A p \in proposals : p[2] <= try[p[1]]
    /\ pc = "claimed" => facts[cur] = 0 /\ left = 0
    /\ pc \in {"claimed", "recording"} =>
          \A n \in 1..MaxFacts :
              <<cur, try[cur], n>> \in proposals <=> n <= facts[cur] - left

DInv == IInv /\ RecordedSoFar /\ DoneRecordsAllFacts

(* A claim opens a try nothing has been recorded under; each insertion adds *)
(* the next fact; marking the job finds nothing left to insert.             *)
LEMMA NextDInv == DInv /\ IInv' /\ [Next]_vars => DInv'
<1> SUFFICES ASSUME DInv, IInv', [Next]_vars PROVE (RecordedSoFar /\ DoneRecordsAllFacts)'
  BY DEF DInv
<1> USE CaptureAssumption
<1> USE DEF DInv, IInv, TypeOK, HeldJobUntouched, LeftBound, CurIsKey,
            RecordedSoFar, DoneRecordsAllFacts, State, Loc, Holding
<1>1. ASSUME NEW k \in Keys, Enqueue(k) PROVE (RecordedSoFar /\ DoneRecordsAllFacts)'
  BY <1>1 DEF Enqueue, outVars, workerVars, bounds, history
<1>2. ASSUME NEW k \in Keys, ClaimNext(k) PROVE (RecordedSoFar /\ DoneRecordsAllFacts)'
  BY <1>2 DEF ClaimNext, Claimable, SetState, outVars, bounds
<1>4. ASSUME NEW n \in 0..MaxFacts, Extract(n) PROVE (RecordedSoFar /\ DoneRecordsAllFacts)'
  BY <1>4 DEF Extract, rowVars, outVars, bounds
<1>6. CASE RecordProposal
  BY <1>6 DEF RecordProposal, rowVars, bounds, history
<1>7. CASE MarkDone
  BY <1>7 DEF MarkDone, AllRecorded, SetState, outVars, bounds, history
<1>9. ASSUME NEW S \in SUBSET proposals, IndexProposals(S)
      PROVE (RecordedSoFar /\ DoneRecordsAllFacts)'
  BY <1>9 DEF IndexProposals, Release, rowVars, bounds, history
<1>10. CASE FailJob
  BY <1>10 DEF FailJob, Exhausted, SetState, Release, outVars, bounds, history
<1>12. CASE ClaimRaises \/ ExtractRaises \/ RecordingRaises \/ FailRaises \/ Crash
  BY <1>12 DEF ClaimRaises, ExtractRaises, RecordingRaises, FailRaises, Crash,
               Raise, Release, rowVars, outVars, history
<1>13. CASE BackoffElapses \/ \E a \in 1..2 : TimePasses(a)
  BY <1>13 DEF BackoffElapses, TimePasses, outVars, workerVars, bounds, history
<1>15. CASE Restart
  BY <1>15 DEF Restart, Stuck, outVars, bounds, history
<1>16. CASE PruneJobs
  BY <1>16 DEF PruneJobs, Prunable, OnJobDelete, Terminal, workerVars, bounds, history
<1>17. CASE UNCHANGED vars
  BY <1>17 DEF vars, rowVars, outVars, workerVars, bounds, history
<1> QED
  BY <1>1, <1>2, <1>4, <1>6, <1>7, <1>9, <1>10, <1>12, <1>13, <1>15, <1>16, <1>17
  DEF Next, Worker, Faults

(* A job that reads "done" has every fact of its extraction on record: the  *)
(* order of the statements in complete_capture_job is what guarantees it.   *)
THEOREM DoneJobsAreComplete == Spec => []DoneRecordsAllFacts
<1>1. Init => DInv
  BY InitIInv, CaptureAssumption
  DEF Init, DInv, RecordedSoFar, DoneRecordsAllFacts
<1> QED
  BY <1>1, Invariant, NextDInv, PTL DEF Spec, DInv

------------------------------------------------------------------------------
(* While the worker indexes what a finished job recorded, the job may be    *)
(* pruned and enqueued anew, but not be claimed again.                      *)
NotRunAgain == pc = "indexing" => state[cur] \notin {"running", "failed"}
IndexedOfClaims == \A p \in indexed : p[2] <= try[p[1]]

SInv == IInv /\ NotRunAgain /\ IndexedOfClaims /\ UnfinishedNeverIndexed

(* A claim opens a try nothing of which is indexed, and what is indexed     *)
(* belongs to a job that is done or gone.                                   *)
LEMMA NextSInv == SInv /\ IInv' /\ [Next]_vars => SInv'
<1> DEFINE S == NotRunAgain /\ IndexedOfClaims /\ UnfinishedNeverIndexed
<1> SUFFICES ASSUME SInv, IInv', [Next]_vars PROVE S'
  BY DEF SInv
<1> USE CaptureAssumption
<1> USE DEF SInv, IInv, TypeOK, HeldJobUntouched, CurIsKey, NotRunAgain, IndexedOfClaims,
            UnfinishedNeverIndexed, State, Loc, Holding
<1>1. ASSUME NEW k \in Keys, Enqueue(k) PROVE S'
  BY <1>1 DEF Enqueue, outVars, workerVars, bounds, history
<1>2. ASSUME NEW k \in Keys, ClaimNext(k) PROVE S'
  BY <1>2 DEF ClaimNext, Claimable, SetState, outVars, bounds
<1>3. CASE MarkDone
  BY <1>3 DEF MarkDone, AllRecorded, SetState, outVars, bounds, history
<1>4. ASSUME NEW T \in SUBSET proposals, IndexProposals(T) PROVE S'
  BY <1>4 DEF IndexProposals, Release, rowVars, bounds, history
<1>5. CASE FailJob
  BY <1>5 DEF FailJob, Exhausted, SetState, Release, outVars, bounds, history
<1>6. CASE \/ \E n \in 0..MaxFacts : Extract(n)
           \/ ExtractRaises \/ RecordProposal \/ Faults
  BY <1>6
  DEF Extract, ExtractRaises, RecordProposal, Faults, ClaimRaises, RecordingRaises, FailRaises,
      Crash, Raise, Release, rowVars, outVars, bounds, history
<1>7. CASE BackoffElapses \/ \E a \in 1..2 : TimePasses(a)
  BY <1>7 DEF BackoffElapses, TimePasses, outVars, workerVars, bounds, history
<1>8. CASE Restart
  BY <1>8 DEF Restart, Stuck, outVars, bounds, history
<1>9. CASE PruneJobs
  BY <1>9 DEF PruneJobs, Prunable, Terminal, workerVars, bounds, history
<1>10. CASE UNCHANGED vars
  BY <1>10 DEF vars, rowVars, outVars, workerVars, bounds, history
<1> QED
  BY <1>1, <1>2, <1>3, <1>4, <1>5, <1>6, <1>7, <1>8, <1>9, <1>10 DEF Next, Worker

(* What a failed or killed attempt left in memory_proposals is never        *)
(* searchable, and no proposal goes with the job it came from.              *)
THEOREM OnlyFinishedIsIndexed == Spec => []UnfinishedNeverIndexed /\ ProposalsSurvive
<1>1. Init => SInv
  BY InitIInv DEF Init, SInv, NotRunAgain, IndexedOfClaims, UnfinishedNeverIndexed
<1>2. [Next]_vars => [proposals \subseteq proposals']_vars
  BY
  DEF Next, Worker, Faults, Enqueue, ClaimNext, ClaimRaises, Extract, ExtractRaises,
      RecordProposal, MarkDone, RecordingRaises, IndexProposals, FailJob, FailRaises,
      BackoffElapses, TimePasses, Crash, Restart, PruneJobs, OnJobDelete, outVars, vars
<1> QED
  BY <1>1, <1>2, Invariant, NextSInv, PTL DEF Spec, SInv, ProposalsSurvive

------------------------------------------------------------------------------
(* Every statement that touches the job table is a step of the abstract     *)
(* queue and every other one a stutter.                                     *)
LEMMA LaneStep == IInv /\ [Next]_vars => [Lane!Next]_Lane!vars
<1> SUFFICES ASSUME IInv, [Next]_vars, ~UNCHANGED <<state, attempts>>
             PROVE  Lane!Next
  BY DEF Lane!vars
<1> USE CaptureAssumption DEF IInv, TypeOK, HeldJobUntouched, RetryLimit, CurIsKey
<1>1. ASSUME NEW k \in Keys, Enqueue(k) PROVE Lane!Enqueue(k)
  BY <1>1 DEF Enqueue, Lane!Enqueue
<1>2. ASSUME NEW k \in Keys, ClaimNext(k) PROVE Lane!Claim(k)
  BY <1>2 DEF ClaimNext, Claimable, SetState, Lane!Claim
<1>3. CASE MarkDone
  <2>1. cur \in Keys /\ Lane!Complete(cur)
    BY <1>3 DEF MarkDone, SetState, Holding, Lane!Complete
  <2> QED
    BY <2>1 DEF Lane!Next
<1>4. CASE FailJob
  <2>1. /\ cur \in Keys /\ state[cur] = "running"
        /\ attempts[cur] \in Nat /\ attempts[cur] < MaxAttempts
    BY <1>4 DEF FailJob, Holding
  <2>2. Exhausted(attempts[cur] + 1) <=> attempts[cur] + 1 = MaxAttempts
    BY <2>1 DEF Exhausted
  <2>3. Lane!Fail(cur)
    BY <1>4, <2>1, <2>2 DEF FailJob, SetState, Lane!Fail
  <2> QED
    BY <2>1, <2>3 DEF Lane!Next
<1>5. CASE Restart
  <2>1. Lane!Reclaim({k \in Keys : Stuck(k)})
    BY <1>5 DEF Restart, Stuck, Lane!Reclaim
  <2> QED
    BY <2>1 DEF Lane!Next
<1>6. CASE PruneJobs
  <2>1. Lane!Prune({k \in Keys : Prunable(k)})
    BY <1>6 DEF PruneJobs, Prunable, Terminal, Lane!Prune, Lane!Terminal
  <2> QED
    BY <2>1 DEF Lane!Next
<1>7. CASE \/ ExtractRaises \/ RecordProposal \/ Faults
           \/ \E n \in 0..MaxFacts : Extract(n)
           \/ \E S \in SUBSET proposals : IndexProposals(S)
           \/ BackoffElapses \/ \E a \in 1..2 : TimePasses(a)
           \/ UNCHANGED vars
  <2>1. UNCHANGED <<state, attempts>>
    BY <1>7 DEF Extract, ExtractRaises, RecordProposal, IndexProposals, Faults,
                ClaimRaises, RecordingRaises, FailRaises, Crash,
                BackoffElapses, TimePasses, vars, rowVars
  <2> QED
    BY <2>1
<1> QED
  BY <1>1, <1>2, <1>3, <1>4, <1>5, <1>6, <1>7 DEF Next, Worker, Lane!Next

(* The capture lane implements JobLane: under every interleaving, failure   *)
(* and crash, a finished job is not run again and a running one leaves that *)
(* state only by finishing, by a counted failure or by a restart.           *)
THEOREM CaptureImplementsJobLane == Spec => ImplementsJobLane
<1>1. Init => Lane!Init
  BY DEF Init, Lane!Init
<1> QED
  BY <1>1, Invariant, LaneStep, PTL DEF Spec, ImplementsJobLane, Lane!Spec

-----------------------------------------------------------------------------
(***************************************************************************)
(* Captions and embeddings.                                                *)
(***************************************************************************)
MediaTypes ==
  /\ content \in Media!Content
  /\ caption \in [Images -> Media!JobState \cup {"unsupported"}]
  /\ mediaFaults \in Nat /\ mediaCrashes \in Nat

\* A captioner at work holds an image, whose job runs until it is answered.
CaptionerHoldsImage ==
  /\ captioner \in {"idle", "claimed", "unsupported", "folding", "clearing", "failing", "dead"}
  /\ captioner \notin {"idle", "dead"} => image \in Images /\ caption[image] # "absent"
  /\ captioner \in {"claimed", "unsupported"} => caption[image] = "running"
  /\ attached \subseteq Images /\ \A i \in attached : caption[i] = "absent"

\* A job that is done has its caption in the content, but for the one being folded,
\* or given up, and those whose folding was cut.
DoneIsFolded == \A i \in Images :
  caption[i] = "done" /\ i \notin cutCaptions
    /\ (image = i => captioner \notin {"folding", "failing"}) =>
      content.captions[i] > 0

\* What the embedder reads and what is stored is the content, but for what a fold
\* outran and a vector that is about to be cleared.
VectorFollowsContent ==
  /\ embedder = "embedding" => seen = content \/ seen \in outrun
  /\ vector \in {Media!NoVector, content} \/ captioner = "clearing" \/ vector \in outrun

MediaIInv == MediaTypes /\ CaptionerHoldsImage /\ DoneIsFolded /\ VectorFollowsContent

\* Nothing is captioned, folded in or embedded to begin with.
LEMMA MediaInit == Media!MediaConstants /\ Media!Init => MediaIInv
<1> SUFFICES ASSUME Media!MediaConstants, Media!Init PROVE MediaIInv
  OBVIOUS
<1> USE DEF Media!MediaConstants, Media!Init
<1>1. content \in Media!Content
  BY DEF Media!Content
<1> QED
  BY <1>1 DEF MediaIInv, MediaTypes, CaptionerHoldsImage, DoneIsFolded, VectorFollowsContent,
              Media!JobState

\* Every step of the two lanes keeps it.
LEMMA MediaNext == Media!MediaConstants /\ MediaIInv /\ [Media!Next]_(Media!vars) => MediaIInv'
<1> SUFFICES ASSUME Media!MediaConstants, MediaIInv, [Media!Next]_(Media!vars) PROVE MediaIInv'
  OBVIOUS
<1> USE DEF MediaIInv, MediaTypes, CaptionerHoldsImage, DoneIsFolded, VectorFollowsContent,
            Media!Content, Media!MediaConstants, Media!JobState, Media!lane_vars,
            Media!emb_vars, Media!cap_vars, Media!turn_vars, Media!bounds
<1>1. ASSUME Media!EnqueueCaption PROVE MediaIInv'
  BY <1>1 DEF Media!EnqueueCaption
<1>2. ASSUME Media!RunTurn PROVE MediaIInv'
  BY <1>2 DEF Media!RunTurn
<1>3. ASSUME Media!EnqueueEmbedding PROVE MediaIInv'
  BY <1>3 DEF Media!EnqueueEmbedding, Media!InsertJob
<1>4. ASSUME Media!SkipEmbedding PROVE MediaIInv'
  BY <1>4 DEF Media!SkipEmbedding
<1>5. ASSUME Media!ClaimEmbedding PROVE MediaIInv'
  BY <1>5 DEF Media!ClaimEmbedding
<1>6. ASSUME Media!ReadContent PROVE MediaIInv'
  BY <1>6 DEF Media!ReadContent, Media!IsNull
<1>7. ASSUME Media!RefuseEmpty PROVE MediaIInv'
  BY <1>7 DEF Media!RefuseEmpty, Media!IsNull, Media!ReleaseEmbedder
<1>8. ASSUME Media!EmbeddingRaises PROVE MediaIInv'
  BY <1>8 DEF Media!EmbeddingRaises, Media!ReleaseEmbedder
<1>9. ASSUME Media!StoreVector PROVE MediaIInv'
  BY <1>9 DEF Media!StoreVector, Media!ReleaseEmbedder
<1>10. ASSUME Media!MarkEmbedded PROVE MediaIInv'
  BY <1>10 DEF Media!MarkEmbedded, Media!ReleaseEmbedder
<1>11. ASSUME Media!FailEmbedding PROVE MediaIInv'
  BY <1>11 DEF Media!FailEmbedding, Media!Exhausted, Media!ReleaseEmbedder
<1>12. ASSUME Media!ClaimCaption PROVE MediaIInv'
  BY <1>12 DEF Media!ClaimCaption
<1>13. ASSUME Media!MarkUnsupported PROVE MediaIInv'
  BY <1>13 DEF Media!MarkUnsupported, Media!SetCaption, Media!ReleaseCaptioner
<1>14. ASSUME Media!CaptionRaises PROVE MediaIInv'
  BY <1>14 DEF Media!CaptionRaises
<1>15. ASSUME Media!RefuseCaption PROVE MediaIInv'
  BY <1>15 DEF Media!RefuseCaption, Media!SetCaption, Media!ReleaseCaptioner
<1>16. ASSUME Media!MarkCaptioned PROVE MediaIInv'
  BY <1>16 DEF Media!MarkCaptioned, Media!SetCaption
<1>17. ASSUME Media!FoldCaption PROVE MediaIInv'
  <2> USE <1>17 DEF Media!FoldCaption, MediaIInv
  <2>1. image \in Images /\ content.captions[image] \in 0 .. MaxFolds
    BY DEF CaptionerHoldsImage, MediaTypes, Media!Content
  <2>2. /\ content'.text = content.text
        /\ content'.captions = [content.captions EXCEPT ![image] = @ + 1]
        /\ content' \in Media!Content
    BY <2>1 DEF MediaTypes, Media!Content
  <2>3. MediaTypes' /\ CaptionerHoldsImage'
    BY <2>2 DEF MediaTypes, CaptionerHoldsImage, Media!turn_vars
  <2>4. DoneIsFolded'
    BY <2>1, <2>2 DEF DoneIsFolded, MediaTypes, CaptionerHoldsImage, Media!Content
  <2>5. VectorFollowsContent'
    BY DEF VectorFollowsContent, Media!emb_vars
  <2> QED
    BY <2>3, <2>4, <2>5
<1>18. ASSUME Media!ClearVector PROVE MediaIInv'
  BY <1>18 DEF Media!ClearVector, Media!ReleaseCaptioner
<1>19. ASSUME Media!FailCaption PROVE MediaIInv'
  BY <1>19 DEF Media!FailCaption, Media!SetCaption, Media!Exhausted, Media!ReleaseCaptioner
<1>20. ASSUME Media!EnqueueCaptionRaises PROVE MediaIInv'
  BY <1>20 DEF Media!EnqueueCaptionRaises, Media!Raise
<1>21. ASSUME Media!MarkEmbeddedRaises PROVE MediaIInv'
  BY <1>21 DEF Media!MarkEmbeddedRaises, Media!Raise, Media!ReleaseEmbedder
<1>22. ASSUME Media!EmbedderDies PROVE MediaIInv'
  BY <1>22 DEF Media!EmbedderDies, Media!Raise, Media!ReleaseEmbedder
<1>23. ASSUME Media!CompletionRaises PROVE MediaIInv'
  BY <1>23 DEF Media!CompletionRaises, Media!Raise, Media!NotCleared
<1>24. ASSUME Media!CaptionerDies PROVE MediaIInv'
  BY <1>24 DEF Media!CaptionerDies, Media!Raise, Media!ReleaseCaptioner, Media!NotFolded
<1>25. ASSUME Media!Restart PROVE MediaIInv'
  BY <1>25
  DEF Media!Restart, Media!Reclaim, Media!ReleaseEmbedder, Media!ReleaseCaptioner,
      Media!NotCleared, Media!NotFolded
<1>26. ASSUME Media!ReconcileEmbedding PROVE MediaIInv'
  BY <1>26 DEF Media!ReconcileEmbedding, Media!Uncovered, Media!IsNull, Media!InsertJob
<1>27. ASSUME Media!TimePasses PROVE MediaIInv'
  BY <1>27 DEF Media!TimePasses
<1>28. ASSUME Media!PruneJob PROVE MediaIInv'
  BY <1>28 DEF Media!PruneJob
<1>29. ASSUME UNCHANGED Media!vars PROVE MediaIInv'
  BY <1>29 DEF Media!vars
<1> QED
  BY <1>1, <1>2, <1>3, <1>4, <1>5, <1>6, <1>7, <1>8, <1>9, <1>10, <1>11, <1>12, <1>13, <1>14,
         <1>15, <1>16, <1>17, <1>18, <1>19, <1>20, <1>21, <1>22, <1>23, <1>24, <1>25, <1>26,
         <1>27, <1>28, <1>29 DEF Media!Next, Media!Turn, Media!Embedder, Media!Captioner,
         Media!Faults

\* Whatever the run does, the media only move as their module says.
LEMMA MediaStep == [MCNext]_mcVars => [Media!Next]_(Media!vars)
  BY DEF MCNext, mcVars, Media!vars, mediaVars

\* For any number of images, attempts, faults and crashes: a finished caption is in
\* the message's searchable text, but that of an image whose thread ended between the
\* job's completion and the fold; and a vector of an older text is about to be deleted,
\* or of a text that was being embedded when a caption was folded in, or one whose
\* deletion raised or was cut off (ImageCaptionWorker._process_one,
\* complete_image_caption_job).
THEOREM CaptionsSearchable == MCSpec => []CaptionsAreSearchable
<1>1. MCInit => MediaIInv
  BY MediaInit, Assumptions DEF MCInit
<1>2. MediaIInv /\ [MCNext]_mcVars => MediaIInv'
  BY MediaNext, MediaStep, Assumptions
<1>3. MediaIInv => CaptionsAreSearchable
  BY DEF MediaIInv, CaptionsAreSearchable, DoneIsFolded, VectorFollowsContent,
         Media!DoneCaptionIsInContent, Media!StaleVectorIsARace
<1> QED
  BY <1>1, <1>2, <1>3, PTL DEF MCSpec

-----------------------------------------------------------------------------
(* The process and its workers. *)

\* Everybody is in the order main stops them in.
LEMMA StopOrderFacts ==
  ASSUME Process!SupervisionAssumption
  PROVE  /\ Len(Process!StopOrder) \in Nat /\ Len(Process!HandlerOrder) \in Nat
         /\ \A p \in Process!Parts : \E i \in 1..Len(Process!StopOrder) : Process!StopOrder[i] = p
<1> DEFINE n == Len(WorkerOrder)
           pair == <<"matrix", "mcp">>
           last == <<"watcher", "reconciliation">>
<1>1. WorkerOrder \in Seq(Process!Workers) /\ n \in Nat /\ DOMAIN WorkerOrder = 1..n
  BY DEF Process!SupervisionAssumption
<1> DEFINE All == Process!Workers \cup {"matrix", "mcp", "watcher", "reconciliation"}
<1>2. pair \in Seq(All) /\ last \in Seq(All) /\ WorkerOrder \in Seq(All)
  BY <1>1
<1>3. Process!StopOrder = (pair \o WorkerOrder) \o last
  BY DEF Process!StopOrder
<1>4. /\ pair \o WorkerOrder \in Seq(All) /\ Len(pair \o WorkerOrder) = n + 2
      /\ \A i \in 1..(n + 2) :
           (pair \o WorkerOrder)[i] = IF i <= 2 THEN pair[i] ELSE WorkerOrder[i - 2]
  BY <1>1, <1>2
<1> DEFINE front == pair \o WorkerOrder
<1> HIDE DEF front
<1>5. /\ Len(front \o last) = n + 4
      /\ \A i \in 1..(n + 4) :
           (front \o last)[i] = IF i <= n + 2 THEN front[i] ELSE last[i - (n + 2)]
  BY <1>1, <1>2, <1>4 DEF front
<1>6. /\ Len(Process!StopOrder) = n + 4
      /\ Process!StopOrder[1] = "matrix" /\ Process!StopOrder[2] = "mcp"
      /\ Process!StopOrder[n + 3] = "watcher" /\ Process!StopOrder[n + 4] = "reconciliation"
      /\ \A i \in 1..n : Process!StopOrder[i + 2] = WorkerOrder[i]
  <2>1. front[1] = "matrix" /\ front[2] = "mcp" /\ \A i \in 1..n : front[i + 2] = WorkerOrder[i]
    BY <1>1, <1>4 DEF front
  <2> QED
    BY <1>1, <1>3, <1>5, <2>1 DEF front
<1>7. ASSUME NEW p \in Process!Parts
      PROVE  \E i \in 1..(n + 4) : Process!StopOrder[i] = p
  <2>1. CASE p \in Process!Workers
    <3>1. PICK i \in 1..n : WorkerOrder[i] = p
      BY <1>1, <2>1 DEF Process!Workers
    <3>2. i + 2 \in 1..(n + 4) /\ Process!StopOrder[i + 2] = p
      BY <1>1, <1>6, <3>1
    <3> QED
      BY <3>2
  <2>2. CASE p \in {"mcp", "watcher", "reconciliation", "matrix"}
    BY <1>1, <1>6, <2>2
  <2> QED
    BY <2>1, <2>2 DEF Process!Parts
<1>8. Len(Process!HandlerOrder) \in Nat
  <2>1. Process!StopOrder \in Seq(All)
    BY <1>2, <1>3
  <2>2. Tail(Process!StopOrder) \in Seq(All)
    BY <1>1, <1>6, <2>1
  <2> QED
    BY <2>2 DEF Process!HandlerOrder
<1> QED
  BY <1>1, <1>6, <1>7, <1>8

\* The database comes second.
LEMMA DatabaseIsSecond ==
  ASSUME Process!SupervisionAssumption, next \in Nat \ {0}, Process!Starting("database")
  PROVE  next = 2
<1> DEFINE n == Len(WorkerOrder)
           pair == <<"mcp", "database">>
           last == <<"watcher", "reconciliation", "matrix">>
<1>1. WorkerOrder \in Seq(Process!Workers) /\ n \in Nat /\ DOMAIN WorkerOrder = 1..n
  BY DEF Process!SupervisionAssumption
<1> DEFINE All == Process!Workers \cup {"mcp", "database", "watcher", "reconciliation", "matrix"}
<1>2. pair \in Seq(All) /\ last \in Seq(All) /\ WorkerOrder \in Seq(All)
  BY <1>1
<1>3. Process!StartOrder = (pair \o WorkerOrder) \o last
  BY DEF Process!StartOrder
<1>4. /\ pair \o WorkerOrder \in Seq(All) /\ Len(pair \o WorkerOrder) = n + 2
      /\ \A i \in 1..(n + 2) :
           (pair \o WorkerOrder)[i] = IF i <= 2 THEN pair[i] ELSE WorkerOrder[i - 2]
  BY <1>1, <1>2
<1> DEFINE front == pair \o WorkerOrder
<1> HIDE DEF front
<1>5. /\ Len(front \o last) = n + 5
      /\ \A i \in 1..(n + 5) :
           (front \o last)[i] = IF i <= n + 2 THEN front[i] ELSE last[i - (n + 2)]
  BY <1>1, <1>2, <1>4 DEF front
<1>6. next \in 1..(n + 5) /\ (front \o last)[next] = "database"
  BY <1>1, <1>3, <1>5 DEF Process!Starting, front
<1>7. CASE next <= n + 2
  <2>1. (pair \o WorkerOrder)[next] = "database"
    BY <1>1, <1>5, <1>6, <1>7 DEF front
  <2>2. CASE next > 2
    <3>1. next - 2 \in 1..n /\ WorkerOrder[next - 2] = "database"
      BY <1>1, <1>4, <1>6, <1>7, <2>1, <2>2
    <3>2. "database" \in Process!Workers
      BY <1>1, <3>1 DEF Process!Workers
    <3> QED
      BY <3>2 DEF Process!SupervisionAssumption
  <2>3. CASE next = 1
    BY <1>1, <1>4, <2>1, <2>3
  <2> QED
    BY <1>6, <2>2, <2>3
<1>8. CASE next > n + 2
  <2>1. last[next - (n + 2)] = "database" /\ next - (n + 2) \in 1..3
    BY <1>1, <1>5, <1>6, <1>8
  <2> QED
    BY <2>1
<1> QED
  BY <1>1, <1>6, <1>7, <1>8

ProcessTypes ==
  /\ main \in {"starting", "running", "closing", "leaving", "gone"}
  /\ next \in Nat \ {0} /\ handler \in Nat
  /\ have \subseteq Process!Parts
  /\ work \in [Process!Workers -> {"none", "polling", "busy", "ended", "dead"}]

\* The handler runs on main's thread, between its steps.
HandlerInterrupts ==
  /\ handler > 0 => main \in {"running", "closing"}
  /\ waiting /\ handler = 0 => main = "closing" /\ next <= Len(Process!StopOrder)

\* While main stops the parts, those before the next one have been told.
ToldInOrder ==
  main = "closing" => \A i \in 1..Len(Process!StopOrder) :
    /\ Process!StopOrder[i] \in have
    /\ i < next \/ (i = next /\ waiting /\ handler = 0)
    => Process!StopOrder[i] \in told

\* Where there is a database the jobs of dead processes were reclaimed, and
\* where there is none there are no workers.
DatabaseFirst ==
  /\ database /\ main # "gone" => stranded = {}
  /\ main = "starting" /\ next <= 2 => ~database
  /\ \A w \in Process!Workers : work[w] # "none" => database /\ main # "gone"

ProcessIInv ==
  ProcessTypes /\ HandlerInterrupts /\ ToldInOrder /\ DatabaseFirst /\ Process!EveryPartIsTold

\* The first process starts with nothing.
LEMMA ProcessInit == Process!SupervisionAssumption /\ Process!Init => ProcessIInv
<1> SUFFICES ASSUME Process!SupervisionAssumption, Process!Init PROVE ProcessIInv
  OBVIOUS
<1>1. ProcessTypes
  BY DEF Process!Init, ProcessTypes
<1>2. HandlerInterrupts /\ DatabaseFirst
  BY DEF Process!Init, HandlerInterrupts, DatabaseFirst
<1>3. ToldInOrder /\ Process!EveryPartIsTold
  BY DEF Process!Init, ToldInOrder, Process!EveryPartIsTold
<1> QED
  BY <1>1, <1>2, <1>3 DEF ProcessIInv

\* Every step of main, of the handler, of the threads and of the world.
LEMMA ProcessNext ==
  Process!SupervisionAssumption /\ ProcessIInv /\ [Process!Next]_(Process!vars) => ProcessIInv'
<1> SUFFICES ASSUME Process!SupervisionAssumption, ProcessIInv, [Process!Next]_(Process!vars)
             PROVE  ProcessIInv'
  OBVIOUS
<1> DEFINE order == Process!StopOrder
           n == Len(order)
<1>0. /\ n \in Nat /\ Len(Process!HandlerOrder) \in Nat
      /\ \A p \in Process!Parts : \E i \in 1..n : order[i] = p
  BY StopOrderFacts
<1> USE DEF ProcessIInv, ProcessTypes, HandlerInterrupts, ToldInOrder, DatabaseFirst,
            Process!EveryPartIsTold, Process!process
<1>1. CASE Process!StartMcp
  BY <1>1 DEF Process!StartMcp, Process!Starting, Process!Parts
<1>2. CASE Process!OpenDatabase
  <2>1. next = 2 /\ main = "starting" /\ ~database
    BY <1>2, DatabaseIsSecond DEF Process!OpenDatabase, Process!Starting
  <2> QED
    BY <1>2, <2>1 DEF Process!OpenDatabase
<1>3. ASSUME NEW w \in Process!Workers, Process!StartWorker(w) PROVE ProcessIInv'
  BY <1>3 DEF Process!StartWorker, Process!Starting, Process!Parts
<1>4. CASE Process!StartTimers
  BY <1>4 DEF Process!StartTimers, Process!Starting, Process!Parts
<1>5. CASE Process!StartMatrix
  BY <1>5 DEF Process!StartMatrix, Process!Starting, Process!Parts
<1>6. CASE Process!Quit
  BY <1>6 DEF Process!Quit
<1>7. CASE Process!CloseNext
  <2>1. CASE next > n
    <3>1. have \subseteq told
      <4> SUFFICES ASSUME NEW p \in have PROVE p \in told
        OBVIOUS
      <4>1. PICK i \in 1..n : order[i] = p
        BY <1>0
      <4> QED
        BY <1>0, <1>7, <2>1, <4>1 DEF Process!CloseNext
    <3> QED
      BY <1>0, <1>7, <2>1, <3>1 DEF Process!CloseNext
  <2>2. CASE next <= n /\ Process!Refused(order[next])
    BY <1>7, <1>0, <2>2 DEF Process!CloseNext
  <2>3. CASE next <= n /\ ~Process!Refused(order[next])
    <3>1. /\ main = "closing" /\ handler = 0 /\ waiting' = TRUE
          /\ told' = told \cup ({order[next]} \cap have)
          /\ UNCHANGED <<main, next, cut, handler, have, work, stranded, database>>
      <4>1. /\ main = "closing" /\ handler = 0 /\ Process!Tell(order[next]) /\ waiting' = TRUE
            /\ UNCHANGED <<main, next, cut, handler, have, work, stranded, database>>
        BY <1>0, <1>7, <2>3 DEF Process!CloseNext
      <4> QED
        BY <4>1 DEF Process!Tell
    <3>2. ProcessTypes' /\ HandlerInterrupts'
      BY <2>3, <3>1
    <3>3. ToldInOrder'
      BY <1>0, <2>3, <3>1
    <3>4. DatabaseFirst' /\ Process!EveryPartIsTold'
      BY <3>1
    <3> QED
      BY <3>2, <3>3, <3>4
  <2> QED
    BY <1>0, <2>1, <2>2, <2>3
<1>8. CASE Process!HandleNext
  BY <1>8 DEF Process!HandleNext, Process!Tell
<1>9. CASE Process!Join
  <2>1. ProcessTypes'
    BY <1>0, <1>9 DEF Process!Join, Process!Step
  <2>2. HandlerInterrupts'
    BY <1>0, <1>9 DEF Process!Join, Process!Step
  <2>3. ToldInOrder'
    BY <1>0, <1>9 DEF Process!Join, Process!Step
  <2>4. DatabaseFirst'
    BY <1>0, <1>9 DEF Process!Join, Process!Step
  <2>5. Process!EveryPartIsTold'
    BY <1>0, <1>9 DEF Process!Join, Process!Step
  <2> QED
    BY <2>1, <2>2, <2>3, <2>4, <2>5
<1>10. CASE Process!HandlerExits
  <2>1. ProcessTypes'
    BY <1>0, <1>10 DEF Process!HandlerExits
  <2>2. HandlerInterrupts'
    BY <1>0, <1>10 DEF Process!HandlerExits
  <2>3. ToldInOrder'
    BY <1>0, <1>10 DEF Process!HandlerExits
  <2>4. DatabaseFirst'
    BY <1>0, <1>10 DEF Process!HandlerExits
  <2>5. Process!EveryPartIsTold'
    BY <1>0, <1>10 DEF Process!HandlerExits
  <2> QED
    BY <2>1, <2>2, <2>3, <2>4, <2>5
<1>11. CASE Process!Leave
  BY <1>11 DEF Process!Leave, Process!Vanish
<1>12. CASE Process!Sigterm
  BY <1>12 DEF Process!Sigterm
<1>13. CASE Process!Interrupt
  <2>1. ProcessTypes'
    BY <1>13 DEF Process!Interrupt
  <2>2. HandlerInterrupts'
    BY <1>13 DEF Process!Interrupt
  <2>3. ToldInOrder'
    BY <1>13 DEF Process!Interrupt
  <2>4. DatabaseFirst'
    BY <1>13 DEF Process!Interrupt
  <2>5. Process!EveryPartIsTold'
    BY <1>13 DEF Process!Interrupt
  <2> QED
    BY <2>1, <2>2, <2>3, <2>4, <2>5
<1>14. CASE Process!Crash
  <2>1. ProcessTypes'
    BY <1>14 DEF Process!Crash
  <2>2. HandlerInterrupts'
    BY <1>14 DEF Process!Crash
  <2>3. ToldInOrder'
    BY <1>14 DEF Process!Crash
  <2>4. DatabaseFirst'
    BY <1>14 DEF Process!Crash
  <2>5. Process!EveryPartIsTold'
    BY <1>14 DEF Process!Crash
  <2> QED
    BY <2>1, <2>2, <2>3, <2>4, <2>5
<1>15. CASE Process!Restart
  <2>1. ProcessTypes'
    BY <1>15 DEF Process!Restart
  <2>2. HandlerInterrupts'
    BY <1>15 DEF Process!Restart
  <2>3. ToldInOrder'
    BY <1>15 DEF Process!Restart
  <2>4. DatabaseFirst'
    BY <1>15 DEF Process!Restart
  <2>5. Process!EveryPartIsTold'
    BY <1>15 DEF Process!Restart
  <2> QED
    BY <2>1, <2>2, <2>3, <2>4, <2>5
<1>16. ASSUME NEW w \in Process!Workers, Process!WorkerStep(w) PROVE ProcessIInv'
  BY <1>16
  DEF Process!WorkerStep, Process!Claim, Process!Die, Process!JobEnds, Process!WorkerEnds,
      Process!Set
<1>17. CASE \/ Process!Boot \/ Process!CloseLoop \/ Process!ListenerEnds
            \/ Process!TurnBegins \/ Process!TurnEnds \/ UNCHANGED Process!vars
  <2>1. UNCHANGED <<main, next, handler, waiting, have, told, work, stranded, database, cut>>
    BY <1>17
    DEF Process!Boot, Process!CloseLoop, Process!ListenerEnds, Process!TurnBegins,
        Process!TurnEnds, Process!Listen, Process!Turn, Process!vars
  <2> QED
    BY <2>1
<1> QED
  BY <1>1, <1>2, <1>3, <1>4, <1>5, <1>6, <1>7, <1>8, <1>9, <1>10, <1>11, <1>12, <1>13, <1>14,
     <1>15, <1>16, <1>17
  DEF Process!Next, Process!MainStep, Process!Start

\* A step of the run is one of the process, or leaves it alone.
LEMMA ProcessStep == [MCNext]_mcVars => [Process!Next]_(Process!vars)
  BY DEF MCNext, mcVars, processVars, Process!vars, Process!process

(* For any workers, signals and processes: no worker looks for jobs while    *)
(* one of its queue is marked running by a process that is gone, and a       *)
(* process that ends in order has told every part it started to stop.        *)
THEOREM WorkersSupervised == MCSpec => [](Process!ReclaimedFirst /\ Process!EveryPartIsTold)
<1>1. MCInit => ProcessIInv
  BY ProcessInit, Assumptions DEF MCInit
<1>2. ProcessIInv /\ [MCNext]_mcVars => ProcessIInv'
  BY ProcessStep, ProcessNext, Assumptions
<1>3. ProcessIInv => Process!ReclaimedFirst /\ Process!EveryPartIsTold
  BY DEF ProcessIInv, ProcessTypes, DatabaseFirst, Process!ReclaimedFirst
<1> QED
  BY <1>1, <1>2, <1>3, PTL DEF MCSpec
=============================================================================
