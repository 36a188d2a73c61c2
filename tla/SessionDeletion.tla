--------------------------- MODULE SessionDeletion ---------------------------
(***************************************************************************)
(* The deletion of one session across its three stores: the JSONL file,    *)
(* the rows of SessionDB and the chunks its proposals have in the memory   *)
(* index. The /delete-session command (commands.py) records its progress   *)
(* in a tombstone; `memory verify-deletions --retry` (memory/cli.py), a    *)
(* process of its own, finishes what a failure left. The capture worker    *)
(* and the reconciler go on meanwhile. One step is one statement, or one   *)
(* group of them that touches nothing another thread reads.                *)
(***************************************************************************)
EXTENDS Naturals, FiniteSets

CONSTANTS MaxProposals,  \* bound: proposals ever recorded
          MaxFaults,     \* bound: statements that raise, and crashes
          MaxPasses,     \* bound: reconciler passes over the session
          MaxClaims      \* bound: claims by the capture worker

ASSUME DeletionAssumption ==
    MaxProposals \in Nat /\ MaxFaults \in Nat /\ MaxPasses \in Nat /\ MaxClaims \in Nat

VARIABLES file,       \* the JSONL file exists
          session,    \* the sessions row exists
          messages,   \* the session has rows in messages
          job,        \* its capture job, "none" if there is no row
          proposals,  \* its rows in memory_proposals
          indexed,    \* proposals with a chunk in the memory index
          given,      \* proposals recorded so far: the last id given
          tomb,       \* there is a tombstone
          done,       \* phases it records as done
          kept,       \* its proposal_ids
          pc,         \* where the command and the retry are
          found,      \* the proposal_ids each of them holds
          worker,     \* where the capture worker is with a job of the session
          fresh,      \* the proposal it has recorded and not yet indexed
          rec,        \* where the reconciler is
          revived,    \* history: a pass upserted the session without its file,
                      \*   or saved the file again
          spoiled,    \* history: something cut into, or went on beside, a
                      \*   deletion's database phase
          faults, passes, claims

rows    == <<session, messages, job, proposals>>
record  == <<tomb, done, kept>>
others  == <<worker, fresh, rec, given, passes, claims, revived>>
vars == <<file, rows, indexed, record, pc, found, others, spoiled, faults>>

Deleters == {"command", "retry"}
Phases   == {"jsonl", "db", "evidence"}
RowPhase == {"owned", "messages", "select", "proposals", "jobs", "session", "mark_db"}
InRowPhase == \E d \in Deleters : pc[d] \in RowPhase
Busy == worker # "idle" \/ rec # "idle"
Goto(d, l) == pc' = [pc EXCEPT ![d] = l]

Init == /\ file = TRUE /\ session = TRUE /\ messages = TRUE /\ job = "pending"
        /\ given \in 0..MaxProposals /\ proposals = 1..given /\ indexed = 1..given
        /\ tomb = FALSE /\ done = {} /\ kept = {}
        /\ pc = [d \in Deleters |-> "idle"] /\ found = [d \in Deleters |-> {}]
        /\ worker = "idle" /\ fresh = 0 /\ rec = "idle"
        /\ revived = FALSE /\ spoiled = FALSE
        /\ faults = 0 /\ passes = 0 /\ claims = 0

------------------------------------------------------------------------------
(* The command. It finds the session by its file.                          *)

StartDeletionUnrecorded ==
    /\ pc["command"] = "idle" /\ file
    /\ Goto("command", "unlink")
    /\ UNCHANGED <<file, rows, indexed, record, found, others, spoiled, faults>>
StartDeletion ==
    /\ pc["command"] = "idle" /\ file
    /\ tomb' = TRUE
    /\ Goto("command", "unlink")
    /\ UNCHANGED <<file, rows, indexed, done, kept, found, others, spoiled, faults>>

UnlinkFile ==
    /\ pc["command"] = "unlink"
    /\ file' = FALSE
    /\ Goto("command", "mark_jsonl")
    /\ UNCHANGED <<rows, indexed, record, found, others, spoiled, faults>>

MarkJsonlDone ==
    /\ pc["command"] = "mark_jsonl"
    /\ done' = done \cup {"jsonl"}
    /\ Goto("command", "owned")
    /\ UNCHANGED <<file, rows, indexed, tomb, kept, found, others, spoiled, faults>>

\* No MemoryService for the agent: the evidence is left to the retry.
LeaveEvidence ==
    /\ pc["command"] = "forget" /\ found["command"] # {}
    /\ Goto("command", "idle")
    /\ found' = [found EXCEPT !["command"] = {}]
    /\ UNCHANGED <<file, rows, indexed, record, others, spoiled, faults>>

------------------------------------------------------------------------------
(* The retry takes over where the tombstone says; a tombstone without      *)
(* "jsonl" is skipped.                                                     *)

StartRetryDbOnly ==
    /\ pc["retry"] = "idle" /\ tomb /\ "db" \notin done /\ "jsonl" \in done
    /\ found' = [found EXCEPT !["retry"] = kept]
    /\ Goto("retry", "owned")
    /\ spoiled' = (spoiled \/ InRowPhase)
    /\ UNCHANGED <<file, rows, indexed, record, others, faults>>
StartRetry ==
    /\ pc["retry"] = "idle" /\ tomb /\ "evidence" \notin done /\ "jsonl" \in done
    /\ found' = [found EXCEPT !["retry"] = kept]
    /\ Goto("retry", IF "db" \in done THEN "forget" ELSE "owned")
    /\ spoiled' = (spoiled \/ InRowPhase)
    /\ UNCHANGED <<file, rows, indexed, record, others, faults>>

------------------------------------------------------------------------------
(* delete_session, and what both callers do after it.                      *)

CheckOwned(d) ==
    /\ pc[d] = "owned"
    /\ Goto(d, IF session THEN "messages" ELSE "mark_db")
    /\ found' = [found EXCEPT ![d] = {}]
    /\ spoiled' = (spoiled \/ Busy \/ \E e \in Deleters \ {d} : pc[e] \in RowPhase)
    /\ UNCHANGED <<file, rows, indexed, record, others, faults>>

\* Embeddings, embedding jobs, captions, mirrors and messages.
DeleteMessages(d) ==
    /\ pc[d] = "messages"
    /\ messages' = FALSE
    /\ Goto(d, "select")
    /\ UNCHANGED <<file, session, job, proposals, indexed, record, found, others, spoiled, faults>>

SelectProposals(d) ==
    /\ pc[d] = "select"
    /\ found' = [found EXCEPT ![d] = proposals]
    /\ Goto(d, "proposals")
    /\ UNCHANGED <<file, rows, indexed, record, others, spoiled, faults>>

DeleteProposals(d) ==
    /\ pc[d] = "proposals"
    /\ proposals' = proposals \ found[d]
    /\ Goto(d, "jobs")
    /\ UNCHANGED <<file, session, messages, job, indexed, record, found, others, spoiled, faults>>

\* Capture and commitment jobs, coverage, commitments.
DeleteJobs(d) ==
    /\ pc[d] = "jobs"
    /\ job' = "none"
    /\ Goto(d, "session")
    /\ UNCHANGED <<file, session, messages, proposals, indexed, record, found, others, spoiled, faults>>

\* ON DELETE CASCADE takes what was inserted in between.
DeleteSessionRow(d) ==
    /\ pc[d] = "session"
    /\ session' = FALSE /\ messages' = FALSE /\ job' = "none" /\ proposals' = {}
    /\ Goto(d, "mark_db")
    /\ UNCHANGED <<file, indexed, record, found, others, spoiled, faults>>

MarkDbDone(d) ==
    /\ pc[d] = "mark_db"
    /\ done' = done \cup {"db"} /\ kept' = found[d]
    /\ Goto(d, "forget")
    /\ UNCHANGED <<file, rows, indexed, tomb, found, others, spoiled, faults>>

\* forget_proposals removes the chunks of one proposal after the other.
ForgetProposals(d) ==
    /\ pc[d] = "forget"
    /\ indexed' = indexed \ found[d]
    /\ Goto(d, "mark_evidence")
    /\ UNCHANGED <<file, rows, record, found, others, spoiled, faults>>

MarkEvidenceDone(d) ==
    /\ pc[d] = "mark_evidence"
    /\ done' = done \cup {"evidence"}
    /\ Goto(d, "idle")
    /\ found' = [found EXCEPT ![d] = {}]
    /\ UNCHANGED <<file, rows, indexed, tomb, kept, others, spoiled, faults>>

\* A statement raises, or the process dies: whatever is done is done.
Interrupt(d) ==
    /\ pc[d] # "idle" /\ faults < MaxFaults
    /\ faults' = faults + 1
    /\ Goto(d, "idle")
    /\ found' = [found EXCEPT ![d] = {}]
    /\ \/ UNCHANGED indexed
       \/ pc[d] = "forget" /\ \E S \in SUBSET found[d] : indexed' = indexed \ S
    /\ spoiled' = (spoiled \/ pc[d] \in RowPhase)
    /\ UNCHANGED <<file, rows, record, others>>

DeleteStep(d) ==
    \/ CheckOwned(d) \/ DeleteMessages(d) \/ SelectProposals(d) \/ DeleteProposals(d)
    \/ DeleteJobs(d) \/ DeleteSessionRow(d) \/ MarkDbDone(d)
    \/ ForgetProposals(d) \/ MarkEvidenceDone(d)

Command == StartDeletion \/ UnlinkFile \/ MarkJsonlDone \/ LeaveEvidence \/ DeleteStep("command")
Retry   == StartRetry \/ DeleteStep("retry")

------------------------------------------------------------------------------
(* The capture worker, as far as it touches the session. Foreign keys let  *)
(* a row in only while the rows it refers to are there.                    *)

Spoils == spoiled' = (spoiled \/ InRowPhase)

\* By a turn, or by the reconciler's catch-up.
EnqueueJob ==
    /\ session /\ messages /\ job = "none"
    /\ job' = "pending"
    /\ UNCHANGED <<file, session, messages, proposals, indexed, record, pc, found, others, spoiled, faults>>

ClaimJob ==
    /\ worker = "idle" /\ job = "pending" /\ claims < MaxClaims
    /\ claims' = claims + 1
    /\ job' = "running" /\ worker' = "extracting"
    /\ Spoils
    /\ UNCHANGED <<file, session, messages, proposals, indexed, record, pc, found, fresh, rec, given,
                   passes, revived, faults>>

InsertAllowedUnchecked == TRUE
\* fk_memory_proposals_job, fk_memory_proposals_session
InsertAllowed == job # "none" /\ session

RecordProposal ==
    /\ worker = "extracting" /\ InsertAllowed /\ given < MaxProposals
    /\ given' = given + 1 /\ fresh' = given'
    /\ proposals' = proposals \cup {given'}
    /\ worker' = "finishing"
    /\ Spoils
    /\ UNCHANGED <<file, session, messages, job, indexed, record, pc, found, rec, passes, claims, revived,
                   faults>>

\* Nothing to record, or the extraction or the insert raises; the job is
\* marked, if its row is still there.
NoProposal ==
    /\ worker = "extracting"
    /\ job' = IF job = "running" THEN "done" ELSE job
    /\ worker' = "idle"
    /\ UNCHANGED <<file, session, messages, proposals, indexed, record, pc, found, fresh, rec, given,
                   passes, claims, revived, spoiled, faults>>

\* MarkDone, and then reindex_proposal.
IndexProposal ==
    /\ worker = "finishing"
    /\ job' = IF job = "running" THEN "done" ELSE job
    /\ indexed' = indexed \cup {fresh}
    /\ worker' = "idle" /\ fresh' = 0
    /\ Spoils
    /\ UNCHANGED <<file, session, messages, proposals, record, pc, found, rec, given, passes, claims,
                   revived, faults>>

Worker == EnqueueJob \/ ClaimJob \/ RecordProposal \/ NoProposal \/ IndexProposal

------------------------------------------------------------------------------
(* The reconciler, as far as it touches the session.                       *)

LoadFile ==
    /\ rec = "idle" /\ file /\ passes < MaxPasses
    /\ passes' = passes + 1
    /\ rec' = "upsert"
    /\ Spoils
    /\ UNCHANGED <<file, rows, indexed, record, pc, found, worker, fresh, given, claims, revived, faults>>

UpsertSession ==
    /\ rec = "upsert"
    /\ session' = TRUE
    /\ revived' = (revived \/ ~file)
    /\ rec' = "mirror"
    /\ Spoils
    /\ UNCHANGED <<file, messages, job, proposals, indexed, record, pc, found, worker, fresh, given,
                   passes, claims, faults>>

\* Without the sessions row the foreign key stops the pass.
MirrorMessages ==
    /\ rec = "mirror"
    /\ messages' = session
    /\ rec' = IF session THEN "save" ELSE "idle"
    /\ Spoils
    /\ UNCHANGED <<file, session, job, proposals, indexed, record, pc, found, worker, fresh, given,
                   passes, claims, revived, faults>>

\* The file is saved if the pass gave some message its event id.
SavePass ==
    /\ rec = "save"
    /\ file' \in {file, TRUE}
    /\ revived' = (revived \/ file' # file)
    /\ rec' = "idle"
    /\ UNCHANGED <<rows, indexed, record, pc, found, worker, fresh, given, passes, claims, spoiled,
                   faults>>

Reconciler == LoadFile \/ UpsertSession \/ MirrorMessages \/ SavePass

------------------------------------------------------------------------------
Next == Command \/ Retry \/ Worker \/ Reconciler \/ \E d \in Deleters : Interrupt(d)

Spec == Init /\ [][Next]_vars

(* The operator runs the retry until nothing is left to retry; no command  *)
(* or job need be started, and what is started goes on.                    *)
FairSpec == Spec /\ WF_vars(Retry) /\ WF_vars(DeleteStep("command"))

------------------------------------------------------------------------------
TypeOK ==
    /\ {file, session, messages, tomb, revived, spoiled} \subseteq BOOLEAN
    /\ job \in {"none", "pending", "running", "done"}
    /\ given \in 0..MaxProposals
    /\ proposals \subseteq 1..given /\ indexed \subseteq 1..given /\ kept \subseteq 1..given
    /\ done \subseteq Phases
    /\ pc \in [Deleters -> {"idle", "unlink", "mark_jsonl", "forget", "mark_evidence"} \cup RowPhase]
    /\ found \in [Deleters -> SUBSET (1..given)]
    /\ worker \in {"idle", "extracting", "finishing"} /\ fresh \in 0..given
    /\ rec \in {"idle", "upsert", "mirror", "save"}
    /\ faults \in 0..MaxFaults /\ passes \in 0..MaxPasses /\ claims \in 0..MaxClaims

Completed == "evidence" \in done

(* Whatever is interrupted, retried or run twice at once, the record is     *)
(* ahead of what is gone and the phases are recorded in their order: the    *)
(* file never disappears without a tombstone ("records intent before        *)
(* anything is touched", commands.py), and a later phase is never on record *)
(* without the earlier ones.                                                *)
RecordIsDurable ==
    /\ ~file => tomb
    /\ "evidence" \in done => "db" \in done
    /\ "db" \in done => "jsonl" \in done

(* Once the database phase is on record, no row of the session is left and  *)
(* none comes back, not even from a capture job that was running meanwhile; *)
(* only a reconciler pass that loaded the file before it was unlinked can   *)
(* bring the session back.                                                  *)
DatabaseStaysClean ==
    "db" \in done /\ ~revived =>
        ~session /\ ~messages /\ job = "none" /\ proposals = {}

(* A completed deletion whose database phase ran undisturbed, of a session  *)
(* no pass has brought back, has left no chunk of it in the memory index,   *)
(* however the other phases were interrupted and retried.                   *)
EvidenceIsGone == Completed /\ ~spoiled /\ ~revived => indexed = {}

(* The two together: neither the database nor the index keeps anything of a *)
(* session that was deleted (session/db.py delete_session, then             *)
(* forget_proposals).                                                       *)
DeletedStaysDeleted == DatabaseStaysClean /\ EvidenceIsGone

(* With the retry, every deletion that got past its first phase is          *)
(* completed.                                                               *)
DeletionsFinish == ("jsonl" \in done) ~> Completed

------------------------------------------------------------------------------
(* What the sources say and the code does not do.                           *)

(* The proposal ids are "snapshotted here so a later evidence-cleanup retry *)
(* (which needs these ids) never has to re-derive them" (session/db.py):    *)
(* a retried deletion forgets all the evidence.                             *)
RetryForgetsEvidence ==
    [][MarkEvidenceDone("retry") /\ pc["command"] = "idle" => indexed = {}]_vars
==============================================================================
