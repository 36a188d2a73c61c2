---------------------------- MODULE TopicNotes ----------------------------
(***************************************************************************)
(* One topic note and everything that writes it: the agent's save and      *)
(* delete (memory/service.py), the review of drafted updates from captured *)
(* proposals (memory/consolidation.py) and from quarantined imports        *)
(* (memory/import_review.py), forgetting (memory/forgetting.py) and the    *)
(* user's editor.  They run in the live process, in the scheduler's timer  *)
(* and in minion-memory processes, without a common lock: each file access *)
(* and each SQL statement is a step of a writer.                           *)
(***************************************************************************)
EXTENDS Naturals, SequencesExt, FiniteSets

CONSTANTS
    Writers,      \* threads and processes that work on the note
    Proposals,    \* ids of the memory_proposals whose target it is
    Texts,        \* what a note may say
    MaxPreviews,  \* bound: drafts made for it
    MaxRevisions, \* bound: rows of memory_topic_revisions ever inserted
    MaxFaults     \* bound: operations that raise, or die with their process

Empty == 0        \* no file, or the "" that stands for none
Contents == Texts \cup {Empty}

NotesAssumption == /\ Proposals \subseteq Nat \ {0}
                   /\ {MaxPreviews, MaxRevisions, MaxFaults} \subseteq Nat
                   /\ Empty \notin Texts

NoProposal == 0                \* memory_topic_revisions.proposal_id IS NULL
NoRow == 0

VARIABLES
    file,      \* the text of memory/topics/{key}.md
    revs,      \* its memory_topic_revisions, by created_at
    previews,  \* drafts for it in the two preview tables; an import's has NoProposal
    status,    \* memory_proposals.status
    chunks,    \* proposals with a chunk in the index
    import,    \* there is a quarantined import to review
    work,      \* where each writer is, and its locals
    rows,      \* revision rows made so far
    faults,
    overlap    \* history: operations, or one and an edit, overlap, or did and have not
               \* all ended

store == <<file, revs, previews, status, chunks, import>>
vars  == <<file, revs, previews, status, chunks, import, work, rows, faults, overlap>>

Idle == [at |-> "idle", prior |-> Empty, new |-> Empty, proposal |-> NoProposal, row |-> NoRow]

Init ==
    /\ file = Empty /\ revs = <<>> /\ previews = {}
    /\ status = [p \in Proposals |-> "pending"] /\ chunks = Proposals
    /\ import = FALSE /\ work = [w \in Writers |-> Idle]
    /\ rows = 0 /\ faults = 0 /\ overlap = FALSE

Busy(w) == work[w].at \notin {"idle", "draft"}
At(w, label) == work[w].at = label

\* A writer begins an operation on the note having read it.
Begin(w, locals) ==
    /\ At(w, "idle")
    /\ work' = [work EXCEPT ![w] = locals]
    /\ overlap' = (overlap \/ \E v \in Writers : Busy(v))
Move(w, label) == work' = [work EXCEPT ![w].at = label]
\* It writes its text to the file; prior stays for the snapshot only.
Write(w, label) ==
    /\ file' = work[w].new
    /\ work' = [work EXCEPT ![w].at = label, ![w].new = Empty,
                            ![w].prior = IF label = "snapshot" THEN @ ELSE Empty]
\* It ends; the last to end leaves nothing half-way.
End(w) ==
    /\ work' = [work EXCEPT ![w] = Idle]
    /\ overlap' = (overlap /\ \E v \in Writers \ {w} : Busy(v))

Revision(proposal, prior) ==
    /\ rows < MaxRevisions /\ rows' = rows + 1
    /\ revs' = Append(revs, [id |-> rows', proposal |-> proposal, prior |-> prior])

----------------------------------------------------------------------------
(* MemoryService.remember and delete: the file first, its revision after.   *)

Remember(w, text) ==
    /\ Begin(w, [Idle EXCEPT !.at = "remember", !.prior = file, !.new = text])
    /\ UNCHANGED <<store, rows, faults>>

WriteNote(w) ==
    /\ At(w, "remember")
    /\ Write(w, "snapshot")
    /\ UNCHANGED <<revs, previews, status, chunks, import, rows, faults, overlap>>

Delete(w) ==
    /\ Begin(w, [Idle EXCEPT !.at = "delete", !.prior = file])
    /\ UNCHANGED <<store, rows, faults>>

\* Nothing was removed when the file was gone, and nothing is recorded.
Unlink(w) ==
    /\ At(w, "delete")
    /\ file' = Empty
    /\ IF file # Empty THEN Move(w, "snapshot") /\ UNCHANGED overlap ELSE End(w)
    /\ UNCHANGED <<revs, previews, status, chunks, import, rows, faults>>

RecordRevisionLate(w) ==
    /\ At(w, "snapshot")
    /\ Revision(NoProposal, file) /\ End(w)
    /\ UNCHANGED <<file, previews, status, chunks, import, faults>>
RecordRevision(w) ==
    /\ At(w, "snapshot")
    /\ Revision(NoProposal, work[w].prior) /\ End(w)
    /\ UNCHANGED <<file, previews, status, chunks, import, faults>>

----------------------------------------------------------------------------
(* MemoryConsolidator.preview and ImportReviewer.preview, run by hand or by *)
(* the consolidation scheduler: only a row of a preview table is written.   *)

\* find_merge_target: the search finds this note, or none: then the draft is of
\* a new note, based on none even when the model gives it this one's key.
MergeTargets == {file, Empty}

\* _draft: nothing is held while the model writes.
Draft(w, proposal) ==
    /\ At(w, "idle")
    /\ \E base \in MergeTargets :
         work' = [work EXCEPT ![w] = [Idle EXCEPT !.at = "draft", !.prior = base,
                                                  !.proposal = proposal]]

Preview(w, p) ==
    /\ Draft(w, p)
    /\ UNCHANGED <<store, rows, faults, overlap>>

PreviewImport(w) ==
    /\ import
    /\ Draft(w, NoProposal)
    /\ UNCHANGED <<store, rows, faults, overlap>>

\* What previews gets: a row more, never an update.
RecordPreview(w, text) ==
    /\ At(w, "draft") /\ Cardinality(previews) < MaxPreviews
    /\ previews' = previews \cup
         {[proposal |-> work[w].proposal, base |-> work[w].prior, draft |-> text]}
    /\ End(w)

RecordConsolidationPreview(w, text) ==
    /\ work[w].proposal # NoProposal
    /\ RecordPreview(w, text)
    /\ UNCHANGED <<file, revs, status, chunks, import, rows, faults>>

RecordImportPreview(w, text) ==
    /\ work[w].proposal = NoProposal
    /\ RecordPreview(w, text)
    /\ UNCHANGED <<file, revs, status, chunks, import, rows, faults>>

----------------------------------------------------------------------------
(* approve: refused unless the note is what the draft was based on.         *)

IsPreviewStale(preview) == file # preview.base

\* Either reviewer goes on with the text it compared and the draft.
Apply(w, label, preview) ==
    /\ ~IsPreviewStale(preview)
    /\ Begin(w, [Idle EXCEPT !.at = label, !.prior = file, !.new = preview.draft,
                             !.proposal = preview.proposal])

Approve(w, preview) ==
    /\ preview.proposal # NoProposal
    /\ Apply(w, "record", preview)
    /\ UNCHANGED <<store, rows, faults>>

ApproveImport(w, preview) ==
    /\ preview.proposal = NoProposal
    /\ Apply(w, "import", preview)
    /\ UNCHANGED <<store, rows, faults>>

\* The undo row first, the file after it.
RecordTopicRevision(w) ==
    /\ At(w, "record")
    /\ Revision(work[w].proposal, work[w].prior) /\ Move(w, "write")
    /\ UNCHANGED <<file, previews, status, chunks, import, faults, overlap>>

WriteDraft(w) ==
    /\ At(w, "write")
    /\ Write(w, "unindex")
    /\ UNCHANGED <<revs, previews, status, chunks, import, rows, faults, overlap>>

RemoveProposal(w) ==
    /\ At(w, "unindex")
    /\ chunks' = chunks \ {work[w].proposal} /\ Move(w, "promote")
    /\ UNCHANGED <<file, revs, previews, status, import, rows, faults, overlap>>

Promote(w) ==
    /\ At(w, "promote")
    /\ status' = [status EXCEPT ![work[w].proposal] = "promoted"] /\ End(w)
    /\ UNCHANGED <<file, revs, previews, chunks, import, rows, faults>>

\* Whatever its status is.
Reject(p) ==
    /\ status' = [status EXCEPT ![p] = "rejected"]
    /\ UNCHANGED <<file, revs, previews, chunks, import, work, rows, faults, overlap>>

\* A promoted import leaves no undo row.
WriteImported(w) ==
    /\ At(w, "import")
    /\ Write(w, "retire")
    /\ UNCHANGED <<revs, previews, status, chunks, import, rows, faults, overlap>>

RetireImport(w) ==
    /\ At(w, "retire")
    /\ import' = FALSE /\ End(w)
    /\ UNCHANGED <<file, revs, previews, status, chunks, rows, faults>>

RejectImport ==
    /\ import /\ import' = FALSE
    /\ UNCHANGED <<file, revs, previews, status, chunks, work, rows, faults, overlap>>

\* The background extractor rewrites its rolling note after a turn.
RememberImport ==
    /\ ~import /\ import' = TRUE
    /\ UNCHANGED <<file, revs, previews, status, chunks, work, rows, faults, overlap>>

----------------------------------------------------------------------------
(* rollback: the latest row's text is written back, its proposal reopened   *)
(* and the row consumed.                                                    *)

LatestTopicRevision == Last(revs)

Rollback(w) ==
    /\ revs # <<>>
    /\ LET row == LatestTopicRevision
       IN  Begin(w, [Idle EXCEPT !.at = "restore", !.row = row.id, !.new = row.prior,
                                 !.proposal = row.proposal])
    /\ UNCHANGED <<store, rows, faults>>

Restore(w) ==
    /\ At(w, "restore")
    /\ Write(w, IF work[w].proposal = NoProposal THEN "consume" ELSE "reopen")
    /\ UNCHANGED <<revs, previews, status, chunks, import, rows, faults, overlap>>

ReopenUnindexed(w) ==
    /\ At(w, "reopen")
    /\ status' = [status EXCEPT ![work[w].proposal] = "pending"] /\ Move(w, "consume")
    /\ UNCHANGED <<file, revs, previews, chunks, import, rows, faults, overlap>>
Reopen(w) ==
    /\ At(w, "reopen")
    /\ status' = [status EXCEPT ![work[w].proposal] = "pending"] /\ Move(w, "reindex")
    /\ UNCHANGED <<file, revs, previews, chunks, import, rows, faults, overlap>>

\* The old chunk is deleted and a new one inserted, in two statements.
DeleteChunk(w) ==
    /\ At(w, "reindex")
    /\ chunks' = chunks \ {work[w].proposal} /\ Move(w, "insert")
    /\ UNCHANGED <<file, revs, previews, status, import, rows, faults, overlap>>

InsertChunk(w) ==
    /\ At(w, "insert")
    /\ chunks' = chunks \cup {work[w].proposal} /\ Move(w, "consume")
    /\ UNCHANGED <<file, revs, previews, status, import, rows, faults, overlap>>

WithoutRow(s, id) == RemoveFirstMatch(s, LAMBDA r : r.id = id)
DeleteTopicRevision(w) ==
    /\ At(w, "consume")
    /\ revs' = WithoutRow(revs, work[w].row) /\ End(w)
    /\ UNCHANGED <<file, previews, status, chunks, import, rows, faults>>

----------------------------------------------------------------------------
(* forget_source: a citation is edited out of the text, without undo row.   *)

Forget(w, text) ==
    /\ Begin(w, [Idle EXCEPT !.at = "forget", !.new = IF file = Empty THEN Empty ELSE text])
    /\ UNCHANGED <<store, rows, faults>>

WriteForgotten(w) ==
    /\ At(w, "forget")
    /\ file' = work[w].new /\ End(w)
    /\ UNCHANGED <<revs, previews, status, chunks, import, rows, faults>>

----------------------------------------------------------------------------
(* The user's editor saves or removes the file at any time.                 *)
Edit ==
    /\ file' \in Contents \ {file}
    /\ overlap' = (overlap \/ \E v \in Writers : Busy(v))
    /\ UNCHANGED <<revs, previews, status, chunks, import, work, rows, faults>>

\* An operation raises or its process dies; what it had done stays.  The
\* service swallows a failed snapshot, which then is missing just the same.
Stop(w) ==
    /\ ~At(w, "idle") /\ faults < MaxFaults
    /\ faults' = faults + 1 /\ End(w)
    /\ UNCHANGED <<store, rows>>

Service(w)  == \/ \E text \in Texts : Remember(w, text)
               \/ WriteNote(w) \/ Delete(w) \/ Unlink(w) \/ RecordRevision(w)
Drafting(w) == \/ \E p \in Proposals : Preview(w, p)
               \/ PreviewImport(w)
               \/ \E text \in Texts : \/ RecordConsolidationPreview(w, text)
                                      \/ RecordImportPreview(w, text)
Approval(w) == \/ \E preview \in previews : Approve(w, preview) \/ ApproveImport(w, preview)
               \/ RecordTopicRevision(w) \/ WriteDraft(w) \/ RemoveProposal(w) \/ Promote(w)
               \/ WriteImported(w) \/ RetireImport(w)
Undoing(w)  == Rollback(w) \/ Restore(w) \/ Reopen(w) \/ DeleteChunk(w) \/ InsertChunk(w)
               \/ DeleteTopicRevision(w)

Forgetting(w) == (\E text \in Texts : Forget(w, text)) \/ WriteForgotten(w)

Next == \/ \E w \in Writers : Service(w) \/ Drafting(w) \/ Approval(w) \/ Undoing(w)
                              \/ Forgetting(w) \/ Stop(w)
        \/ \E p \in Proposals : Reject(p)
        \/ RejectImport \/ RememberImport \/ Edit

Spec == Init /\ [][Next]_vars

----------------------------------------------------------------------------
(* Properties *)

TypeOK ==
    /\ file \in Contents /\ import \in BOOLEAN
    /\ rows \in 0 .. MaxRevisions /\ faults \in 0 .. MaxFaults
    /\ revs \in Seq([id : 1 .. rows, proposal : Proposals \cup {NoProposal}, prior : Contents])
    /\ previews \subseteq [proposal : Proposals \cup {NoProposal}, base : Contents, draft : Contents]
    /\ status \in [Proposals -> {"pending", "promoted", "rejected"}] /\ chunks \subseteq Proposals
    /\ work \in [Writers -> [at : {"idle", "remember", "delete", "snapshot", "draft", "record",
                                   "write", "unindex", "promote", "import", "retire", "restore",
                                   "reopen", "reindex", "insert", "consume", "forget"},
                             prior : Contents, new : Contents,
                             proposal : Proposals \cup {NoProposal}, row : 0 .. rows]]
    /\ overlap \in BOOLEAN

(* However approvals, rejections and rollbacks of a proposal overlap, one   *)
(* that reads "pending" is in the index, where review finds it, unless an   *)
(* approval is about to promote it or a rollback about to index it.         *)
PendingIsSearchable ==
    faults = 0 => \A p \in Proposals : status[p] = "pending" =>
        p \in chunks \/ \E w \in Writers : work[w].proposal = p
                                           /\ work[w].at \in {"promote", "reindex", "insert"}

----------------------------------------------------------------------------
(* The note implements a register with an undo stack while operations do   *)
(* not overlap, and again once those that did have ended; one that is       *)
(* stopped half-way loses its own entry or leaves one more, of the text the *)
(* note holds.  Each operation takes effect where it writes the file: a row *)
(* is not counted before its write, and is counted from the write on, until *)
(* the restoring write.                                                     *)
Some(labels) == \E w \in Writers : work[w].at \in labels
Priors == [i \in 1 .. Len(revs) |-> revs[i].prior]
UndoStack ==
    IF Some({"write", "reopen", "reindex", "insert", "consume"}) /\ Priors # <<>>
    THEN Front(Priors)
    ELSE IF Some({"snapshot"})
         THEN Append(Priors, work[CHOOSE w \in Writers : At(w, "snapshot")].prior)
         ELSE Priors

Note == INSTANCE VersionedNote WITH value <- file, undo <- UndoStack, overlap <- overlap

(* "A proper undo stack: rolling back twice in a row steps back through two *)
(* prior applies" (memory/postgres_index.py), for explicit writes and       *)
(* applied drafts mixed, between edits made outside.                        *)
ImplementsVersionedNote == Note!Spec
============================================================================
