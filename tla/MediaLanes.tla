----------------------------- MODULE MediaLanes -----------------------------
(***************************************************************************)
(* What happens to one user message with images once it is mirrored: the   *)
(* image_captions queue and its worker fold descriptions into              *)
(* messages.content, the message_embedding_jobs queue and its worker       *)
(* compute the vector searched by (session/db.py and the two workers in    *)
(* memory/), the reconciler looks for messages without one, and retention  *)
(* prunes finished embedding jobs.  Each SQL statement is a step.          *)
(***************************************************************************)
EXTENDS Naturals

CONSTANTS
    Images,       \* images that may be attached; their jobs' ids in order
    MaxAttempts,  \* _MAX_ATTEMPTS of both workers
    MaxFaults,    \* bound: statements that raise
    MaxCrashes,   \* bound: times the process dies
    MaxFolds      \* bound: times a caption may be folded in

MediaConstants == /\ Images \subseteq Nat
                  /\ MaxAttempts \in Nat \ {0}
                  /\ MaxFaults \in Nat /\ MaxCrashes \in Nat /\ MaxFolds \in Nat

\* Content is the typed text, or none, and how often each image's caption
\* was appended; NoVector is a missing row of message_embeddings.
Content  == [text : BOOLEAN, captions : [Images -> 0 .. MaxFolds]]
NoVector == [none |-> TRUE]
IsNull(c) == ~c.text /\ \A i \in Images : c.captions[i] = 0

JobState == {"absent", "pending", "running", "done", "failed"}
NoImage  == 0

VARIABLES
    content,     \* messages.content
    vector,      \* the content the row of message_embeddings was computed from
    job,         \* the message's row of message_embedding_jobs
    attempts,    \* its attempts
    old,         \* its updated_at is past reclaim's hour and past retention
    embedder,    \* where the MessageEmbeddingWorker is
    seen,        \* the content it is embedding
    caption,     \* image_captions.state
    tries,       \* image_captions.attempts
    captioner,   \* where the ImageCaptionWorker is
    image,       \* the image it holds
    vision,      \* the agent's model takes images
    turn,        \* where the turn that sent the message is
    attached,    \* its images without a caption job yet
    faults, crashes,
    outrun,      \* history: contents whose vector, there or to come, no deletion caught
    cut          \* history: images whose caption was being folded in when its thread ended

lane_vars  == <<job, attempts, old>>
emb_vars   == <<embedder, seen>>
cap_vars   == <<caption, tries, captioner, image>>
turn_vars  == <<turn, attached>>
bounds     == <<faults, crashes, outrun, cut>>
vars == <<content, vector, job, attempts, old, embedder, seen, caption, tries, captioner,
          image, vision, turn, attached, faults, crashes, outrun, cut>>

Init ==
    /\ content \in {[text |-> t, captions |-> [i \in Images |-> 0]] : t \in BOOLEAN}
    /\ vector = NoVector
    /\ job = "absent" /\ attempts = 0 /\ old = FALSE
    /\ embedder = "idle" /\ seen = NoVector
    /\ caption = [i \in Images |-> "absent"] /\ tries = [i \in Images |-> 0]
    /\ captioner = "idle" /\ image = NoImage
    /\ vision \in BOOLEAN
    /\ turn = "attaching" /\ attached \in SUBSET Images
    /\ (content.text = TRUE \/ attached # {})
    /\ faults = 0 /\ crashes = 0 /\ outrun = {} /\ cut = {}

Raise == faults < MaxFaults /\ faults' = faults + 1

----------------------------------------------------------------------------
(* The turn: one caption job per image when the message is mirrored, one   *)
(* embedding job when the turn ends.                                       *)

EnqueueCaption ==
    /\ turn = "attaching"
    /\ \E i \in attached :
          /\ \A j \in attached : i <= j
          /\ caption' = [caption EXCEPT ![i] = "pending"]
          /\ attached' = attached \ {i}
    /\ UNCHANGED <<content, vector, lane_vars, emb_vars, tries, captioner, image, vision, turn,
                   bounds>>

\* The try block around the whole loop: the images left get no job.
EnqueueCaptionRaises ==
    /\ turn = "attaching" /\ attached # {} /\ Raise
    /\ attached' = {} /\ turn' = "running"
    /\ UNCHANGED <<content, vector, lane_vars, emb_vars, cap_vars, vision, crashes, outrun, cut>>

RunTurn ==
    /\ turn = "attaching" /\ attached = {}
    /\ turn' = "running"
    /\ UNCHANGED <<content, vector, lane_vars, emb_vars, cap_vars, vision, attached, bounds>>

InsertJob == job' = "pending" /\ attempts' = 0 /\ old' = FALSE

EnqueueEmbedding ==
    /\ turn = "running"
    /\ IF job = "absent" THEN InsertJob ELSE UNCHANGED lane_vars
    /\ turn' = "over"
    /\ UNCHANGED <<content, vector, emb_vars, cap_vars, vision, attached, bounds>>

\* The turn failed, the statement raised, or a turn of several tool rounds
\* left the user message out of the last two.
SkipEmbedding ==
    /\ turn = "running"
    /\ turn' = "over"
    /\ UNCHANGED <<content, vector, lane_vars, emb_vars, cap_vars, vision, attached, bounds>>

\* The reconciler's anti-join, and ON CONFLICT DO NOTHING on a key that
\* names only the agent, the message and the model.
UncoveredSinceLastJob == job # "absent" /\ ~IsNull(content) /\ vector = NoVector
Uncovered == ~IsNull(content) /\ vector = NoVector

ReconcileEmbedding ==
    /\ turn = "over" /\ Uncovered /\ job = "absent"
    /\ InsertJob
    /\ UNCHANGED <<content, vector, emb_vars, cap_vars, vision, turn_vars, bounds>>

----------------------------------------------------------------------------
(* MessageEmbeddingWorker._process_one                                     *)

ReleaseEmbedder(at) == embedder' = at /\ seen' = NoVector

ClaimEmbedding ==
    /\ embedder = "idle" /\ job = "pending"
    /\ job' = "running" /\ old' = FALSE
    /\ embedder' = "claimed"
    /\ UNCHANGED <<content, vector, attempts, seen, cap_vars, vision, turn_vars, bounds>>

ReadContent ==
    /\ embedder = "claimed" /\ ~IsNull(content)
    /\ seen' = content /\ embedder' = "embedding"
    /\ UNCHANGED <<content, vector, lane_vars, cap_vars, vision, turn_vars, bounds>>

\* fail_message_embedding_job with max_attempts = 1.
RefuseEmpty ==
    /\ embedder = "claimed" /\ IsNull(content)
    /\ job' = "failed" /\ attempts' = attempts + 1 /\ old' = FALSE
    /\ ReleaseEmbedder("idle")
    /\ UNCHANGED <<content, vector, cap_vars, vision, turn_vars, bounds>>

EmbeddingRaises ==
    /\ embedder \in {"claimed", "embedding"}
    /\ ReleaseEmbedder("failing")
    /\ UNCHANGED <<content, vector, lane_vars, cap_vars, vision, turn_vars, bounds>>

StoreVector ==
    /\ embedder = "embedding"
    /\ vector' = seen /\ outrun' = outrun \intersect {seen}
    /\ ReleaseEmbedder("marking")
    /\ UNCHANGED <<content, lane_vars, cap_vars, vision, turn_vars, faults, crashes, cut>>

MarkEmbedded ==
    /\ embedder = "marking"
    /\ job' = "done" /\ old' = FALSE
    /\ ReleaseEmbedder("idle")
    /\ UNCHANGED <<content, vector, attempts, cap_vars, vision, turn_vars, bounds>>

MarkEmbeddedRaises ==
    /\ embedder = "marking" /\ Raise
    /\ ReleaseEmbedder("failing")
    /\ UNCHANGED <<content, vector, lane_vars, cap_vars, vision, turn_vars, crashes, outrun, cut>>

ExhaustedLate(n) == n > MaxAttempts
Exhausted(n) == n >= MaxAttempts

FailEmbedding ==
    /\ embedder = "failing"
    /\ attempts' = attempts + 1
    /\ job' = IF Exhausted(attempts + 1) THEN "failed" ELSE "pending"
    /\ old' = FALSE
    /\ ReleaseEmbedder("idle")
    /\ UNCHANGED <<content, vector, cap_vars, vision, turn_vars, bounds>>

\* The claim and the except clause are outside the try block.
EmbedderDies ==
    /\ embedder \in {"idle", "failing"} /\ Raise
    /\ ReleaseEmbedder("dead")
    /\ UNCHANGED <<content, vector, lane_vars, cap_vars, vision, turn_vars, crashes, outrun, cut>>

----------------------------------------------------------------------------
(* ImageCaptionWorker._process_one                                         *)

SetCaption(s) == caption' = [caption EXCEPT ![image] = s]
ReleaseCaptioner(at) == captioner' = at /\ image' = NoImage

ClaimCaption ==
    /\ captioner = "idle"
    /\ \E i \in Images :
          /\ caption[i] = "pending"
          /\ \A j \in Images : caption[j] = "pending" => i <= j
          /\ image' = i /\ caption' = [caption EXCEPT ![i] = "running"]
    /\ captioner' = IF vision THEN "claimed" ELSE "unsupported"
    /\ UNCHANGED <<content, vector, lane_vars, emb_vars, tries, vision, turn_vars, bounds>>

MarkUnsupported ==
    /\ captioner = "unsupported"
    /\ SetCaption("unsupported")
    /\ ReleaseCaptioner("idle")
    /\ UNCHANGED <<content, vector, lane_vars, emb_vars, tries, vision, turn_vars, bounds>>

CaptionRaises ==
    /\ captioner = "claimed"
    /\ captioner' = "failing"
    /\ UNCHANGED <<content, vector, lane_vars, emb_vars, caption, tries, image, vision,
                   turn_vars, bounds>>

\* An empty caption, or the file is gone: max_attempts = 1.
RefuseCaption ==
    /\ captioner = "claimed"
    /\ SetCaption("failed") /\ tries' = [tries EXCEPT ![image] = @ + 1]
    /\ ReleaseCaptioner("idle")
    /\ UNCHANGED <<content, vector, lane_vars, emb_vars, vision, turn_vars, bounds>>

MarkCaptioned ==
    /\ captioner = "claimed"
    /\ SetCaption("done")
    /\ captioner' = "folding"
    /\ UNCHANGED <<content, vector, lane_vars, emb_vars, tries, image, vision, turn_vars, bounds>>

FoldForgetting ==
    /\ captioner = "folding"
    /\ content' = [content EXCEPT !.captions = [i \in Images |-> IF i = image THEN 1 ELSE 0]]
    /\ captioner' = "clearing"
    /\ UNCHANGED <<vector, lane_vars, emb_vars, caption, tries, image, vision, turn_vars, bounds>>
\* SELECT and UPDATE of messages.content: nobody else writes it.
FoldCaption ==
    /\ captioner = "folding" /\ content.captions[image] < MaxFolds
    /\ content' = [content EXCEPT !.captions[image] = @ + 1]
    /\ captioner' = "clearing"
    /\ outrun' = outrun \union {c \in {seen} : embedder = "embedding"}
    /\ UNCHANGED <<vector, lane_vars, emb_vars, caption, tries, image, vision, turn_vars, faults,
                   crashes, cut>>

ClearVector ==
    /\ captioner = "clearing"
    /\ vector' = NoVector /\ outrun' = outrun \intersect {seen}
    /\ ReleaseCaptioner("idle")
    /\ UNCHANGED <<content, lane_vars, emb_vars, caption, tries, vision, turn_vars, faults, crashes,
                   cut>>

NotCleared == outrun' = outrun \union ({c \in {vector} : captioner = "clearing"} \ {NoVector})
NotFolded ==
    cut' = cut \union {i \in {image} : captioner \in {"folding", "failing"} /\ caption[i] = "done"}

CompletionRaises ==
    /\ captioner \in {"folding", "clearing"} /\ Raise
    /\ captioner' = "failing" /\ NotCleared
    /\ UNCHANGED <<content, vector, lane_vars, emb_vars, caption, tries, image, vision, turn_vars,
                   crashes, cut>>

FailCaption ==
    /\ captioner = "failing"
    /\ tries' = [tries EXCEPT ![image] = @ + 1]
    /\ SetCaption(IF Exhausted(tries[image] + 1) THEN "failed" ELSE "pending")
    /\ ReleaseCaptioner("idle")
    /\ UNCHANGED <<content, vector, lane_vars, emb_vars, vision, turn_vars, bounds>>

\* The claim, mark_image_caption_unsupported and the except clauses.
CaptionerDies ==
    /\ captioner \in {"idle", "unsupported", "failing"} /\ Raise
    /\ ReleaseCaptioner("dead") /\ NotFolded
    /\ UNCHANGED <<content, vector, lane_vars, emb_vars, caption, tries, vision, turn_vars, crashes,
                   outrun>>

----------------------------------------------------------------------------
(* Time, retention and the process                                         *)

TimePasses ==
    /\ embedder \in {"idle", "dead"} /\ job # "absent" /\ ~old
    /\ old' = TRUE
    /\ UNCHANGED <<content, vector, job, attempts, emb_vars, cap_vars, vision, turn_vars, bounds>>

\* prune_operational_tables knows message_embedding_jobs, not image_captions.
PruneJob ==
    /\ job \in {"done", "failed"} /\ old
    /\ job' = "absent" /\ attempts' = 0 /\ old' = FALSE
    /\ UNCHANGED <<content, vector, emb_vars, cap_vars, vision, turn_vars, bounds>>

\* Startup resets an embedding job that has been running for an hour; a
\* running caption stays as it is.
Reclaim(elapsed) == IF job = "running" /\ elapsed THEN "pending" ELSE job

Restart ==
    /\ crashes < MaxCrashes /\ crashes' = crashes + 1
    /\ \E elapsed \in BOOLEAN : (old => elapsed) /\ job' = Reclaim(elapsed)
    /\ ReleaseEmbedder("idle") /\ ReleaseCaptioner("idle")
    /\ turn' = "over" /\ attached' = {}
    /\ NotCleared /\ NotFolded
    /\ UNCHANGED <<content, vector, attempts, old, caption, tries, vision, faults>>

----------------------------------------------------------------------------
Turn       == EnqueueCaption \/ RunTurn \/ EnqueueEmbedding \/ SkipEmbedding
Embedder   == ClaimEmbedding \/ ReadContent \/ RefuseEmpty \/ EmbeddingRaises
              \/ StoreVector \/ MarkEmbedded \/ FailEmbedding
Captioner  == ClaimCaption \/ MarkUnsupported \/ CaptionRaises \/ RefuseCaption
              \/ MarkCaptioned \/ FoldCaption \/ ClearVector \/ FailCaption
Faults     == EnqueueCaptionRaises \/ MarkEmbeddedRaises \/ EmbedderDies
              \/ CompletionRaises \/ CaptionerDies \/ Restart

Next == Turn \/ Embedder \/ Captioner \/ ReconcileEmbedding \/ TimePasses \/ PruneJob \/ Faults

Spec == Init /\ [][Next]_vars

\* Both threads poll and the reconciler's timer fires; retention is off by
\* default, so nothing forces it.
FairSpec == Spec /\ WF_vars(Turn) /\ WF_vars(Embedder) /\ WF_vars(Captioner)
                 /\ WF_vars(ReconcileEmbedding)

----------------------------------------------------------------------------
(* Properties *)

TypeOK ==
    /\ content \in Content /\ vector \in Content \cup {NoVector}
    /\ job \in JobState /\ attempts \in 0 .. MaxAttempts /\ old \in BOOLEAN
    /\ embedder \in {"idle", "claimed", "embedding", "marking", "failing", "dead"}
    /\ seen \in Content \cup {NoVector}
    /\ caption \in [Images -> JobState \cup {"unsupported"}]
    /\ tries \in [Images -> 0 .. MaxAttempts]
    /\ captioner \in {"idle", "claimed", "unsupported", "folding", "clearing", "failing", "dead"}
    /\ image \in Images \cup {NoImage} /\ vision \in BOOLEAN
    /\ turn \in {"attaching", "running", "over"} /\ attached \subseteq Images
    /\ faults \in 0 .. MaxFaults /\ crashes \in 0 .. MaxCrashes
    /\ outrun \subseteq Content /\ cut \subseteq Images

\* Folding one image's caption in never loses another's, and a caption job
\* reads "done" only with its caption in the searchable content, whatever
\* statement raised and whenever the process died, but for the images whose own
\* caption was being folded in when their thread ended.
DoneCaptionIsInContent ==
    \A i \in Images : caption[i] = "done" /\ image # i /\ i \notin cut => content.captions[i] > 0

\* A vector of older content is either about to be deleted, or that of a content
\* that was being embedded when a caption was folded in, or that the deletion
\* after a fold should have caught and raised or died instead: whatever the lanes'
\* order, the deletion catches every other.
StaleVectorIsARace ==
    vector \in {NoVector, content} \/ captioner = "clearing" \/ vector \in outrun

\* Until a fault, every message with text and no images gets a vector or its
\* job runs out of attempts, whether or not its turn enqueued the job.
TextIsEmbedded ==
    (content.text = TRUE /\ attached = {}) ~>
        (vector # NoVector \/ job = "failed" \/ faults + crashes > 0
         \/ \E i \in Images : content.captions[i] > 0)

----------------------------------------------------------------------------
(* What the sources say and the code does not do.                          *)

\* "the existing reconciliation self-healing naturally re-embeds it with the
\* caption included on its next pass" (complete_image_caption_job).
CaptionedIsReembedded ==
    \A i \in Images : (content.captions[i] > 0) ~>
        ((vector # NoVector /\ vector = content) \/ faults + crashes > 0 \/ job = "failed")

=============================================================================
