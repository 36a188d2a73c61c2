--------------------------- MODULE CaptureCoverage ---------------------------
(***************************************************************************)
(* The producer side of the capture lane, for one session: which ranges of *)
(* its mirrored messages get a capture job. A live turn                    *)
(* (agents/session.py, _send_locked) enqueues a job for its last exchange; *)
(* the reconciliation scheduler (memory/reconciliation_scheduler.py)       *)
(* enqueues catch-up jobs for the gaps it finds in                         *)
(* session_job_coverage_ranges, and so does the backfill command           *)
(* (memory/consolidation.py, backfill_agent), without its scan limit and   *)
(* without waiting for a quiet session. They run in different threads and  *)
(* processes and share only the database, one autocommitted statement at a *)
(* time.                                                                   *)
(***************************************************************************)
EXTENDS BackfillWindows, FiniteSets

CONSTANTS MaxMessages,  \* bound: rows ever inserted into messages
          MaxFaults,    \* bound: statements that raise, and crashes
          MaxFills,     \* bound: runs of the backfill command
          ScanLimit     \* _RECONCILIATION_SCAN_LIMIT

ASSUME CoverageAssumption == {MaxMessages, MaxFaults, MaxFills, ScanLimit} \subseteq Nat

VARIABLES kinds,       \* the messages table: kinds[id] is "dialogue" for a user or
                       \*   assistant row of the session with content, "tool"
                       \*   for its other rows, "other" for another session's
          unmirrored,  \* dialogue messages the JSONL file has and the table lacks
          jobs,        \* idempotency keys ever enqueued: <<from, to, source>>
          coverage,    \* session_job_coverage_ranges of the capture lane, each range
                       \*   with the source of the job it was recorded for
          quiet,       \* last_active is at least quiet_seconds old
          turn,        \* where the turn is
          todo,        \* kinds of its messages still to be mirrored
          exchange,    \* _mirrored_ua_ids
          rec,         \* where the reconciler is
          gaps,        \* windows it has still to enqueue
          fill,        \* where the backfill command is
          batch,       \* windows it has still to enqueue
          fills,
          faults

turnVars == <<turn, todo, exchange>>
recVars  == <<rec, gaps>>
fillVars == <<fill, batch, fills>>
vars == <<kinds, unmirrored, jobs, coverage, quiet, turnVars, recVars, fillVars, faults>>

Init == /\ kinds = <<>> /\ unmirrored = 0
        /\ jobs = {} /\ coverage = {} /\ quiet = TRUE
        /\ turn = "idle" /\ todo = <<>> /\ exchange = <<>>
        /\ rec = "idle" /\ gaps = <<>>
        /\ fill = "idle" /\ batch = <<>> /\ fills = 0
        /\ faults = 0

Room(n) == Len(kinds) + Len(todo) + unmirrored + n <= MaxMessages
Raise   == faults < MaxFaults /\ faults' = faults + 1

\* The idempotency key: the range and the model's id, for which a catch-up job
\* of the reconciler has the word reconcile.
SameKey(j, k) == j[1] = k[1] /\ j[2] = k[2] /\ (j[3] = "reconcile") = (k[3] = "reconcile")
Taken(key)    == \E j \in jobs : SameKey(j, key)
\* ON CONFLICT DO NOTHING: an existing key is not enqueued, nor covered.
InsertJob(key) == jobs' = IF Taken(key) THEN jobs ELSE jobs \cup {key}

------------------------------------------------------------------------------
(* A live turn.                                                            *)

\* What run_turn appends: an answer, possibly after rounds of tool calls,
\* whose assistant messages may or may not carry text.
TurnShapes == {<<"dialogue">>, <<"tool", "dialogue">>, <<"dialogue", "tool", "dialogue">>}

UserMessage ==
    /\ turn = "idle" /\ Room(1)
    /\ kinds' = Append(kinds, "dialogue")
    /\ exchange' = <<Len(kinds')>>
    /\ turn' = "running"
    /\ UNCHANGED <<unmirrored, jobs, coverage, quiet, todo, recVars, faults, fillVars>>

\* The mirror of the user message raises; the turn goes on without it.
UserMirrorRaises ==
    /\ turn = "idle" /\ Room(1) /\ Raise
    /\ unmirrored' = unmirrored + 1
    /\ exchange' = <<>>
    /\ turn' = "running"
    /\ UNCHANGED <<kinds, jobs, coverage, quiet, todo, recVars, fillVars>>

TurnAnswers(shape) ==
    /\ turn = "running" /\ Room(Len(shape))
    /\ todo' = shape
    /\ turn' = "mirroring"
    /\ UNCHANGED <<kinds, unmirrored, jobs, coverage, quiet, exchange, recVars, faults, fillVars>>

\* run_turn raises: the JSONL file gets an error message, the table nothing.
TurnFails ==
    /\ turn = "running" /\ Room(1)
    /\ unmirrored' = unmirrored + 1
    /\ turn' = "idle" /\ exchange' = <<>>
    /\ UNCHANGED <<kinds, jobs, coverage, quiet, todo, recVars, faults, fillVars>>

MirrorNext ==
    /\ turn = "mirroring" /\ todo # <<>>
    /\ kinds' = Append(kinds, Head(todo))
    /\ exchange' = IF Head(todo) = "dialogue" THEN Append(exchange, Len(kinds')) ELSE exchange
    /\ todo' = Tail(todo)
    /\ UNCHANGED <<unmirrored, jobs, coverage, quiet, turn, recVars, faults, fillVars>>

\* The mirror loop is abandoned where it raises; update_session is skipped.
MirrorRaises ==
    /\ turn = "mirroring" /\ todo # <<>> /\ Raise
    /\ unmirrored' = unmirrored + Len(SelectSeq(todo, LAMBDA k : k = "dialogue"))
    /\ todo' = <<>>
    /\ turn' = "enqueue"
    /\ UNCHANGED <<kinds, jobs, coverage, quiet, exchange, recVars, fillVars>>

UpdateSession ==
    /\ turn = "mirroring" /\ todo = <<>>
    /\ quiet' = FALSE
    /\ turn' = "enqueue"
    /\ UNCHANGED <<kinds, unmirrored, jobs, coverage, todo, exchange, recVars, faults, fillVars>>

\* _mirrored_ua_ids[-2:]
LastExchange ==
    LET n == Len(exchange)
    IN  IF n >= 2 THEN <<exchange[n - 1], exchange[n]>> ELSE <<exchange[n], exchange[n]>>
LiveKey == Append(LastExchange, "live")

LiveInsertJobForgotten ==
    /\ turn = "enqueue" /\ exchange # <<>>
    /\ jobs' = jobs
    /\ turn' = "cover"
    /\ UNCHANGED <<kinds, unmirrored, coverage, quiet, todo, exchange, recVars, faults, fillVars>>
\* The job row, and in a second statement its coverage.
LiveInsertJob ==
    /\ turn = "enqueue" /\ exchange # <<>>
    /\ InsertJob(LiveKey)
    /\ turn' = IF Taken(LiveKey) THEN "idle" ELSE "cover"
    /\ exchange' = IF turn' = "idle" THEN <<>> ELSE exchange
    /\ UNCHANGED <<kinds, unmirrored, coverage, quiet, todo, recVars, faults, fillVars>>

LiveInsertCoverage ==
    /\ turn = "cover"
    /\ coverage' = coverage \cup {LiveKey}
    /\ turn' = "idle" /\ exchange' = <<>>
    /\ UNCHANGED <<kinds, unmirrored, jobs, quiet, todo, recVars, faults, fillVars>>

\* Nothing was mirrored; or the enqueue raises and is swallowed.
LiveEnqueueSkipped ==
    /\ turn = "enqueue" /\ exchange = <<>>
    /\ turn' = "idle"
    /\ UNCHANGED <<kinds, unmirrored, jobs, coverage, quiet, todo, exchange, recVars, faults, fillVars>>

LiveEnqueueRaises ==
    /\ turn \in {"enqueue", "cover"} /\ exchange # <<>> /\ Raise
    /\ turn' = "idle" /\ exchange' = <<>>
    /\ UNCHANGED <<kinds, unmirrored, jobs, coverage, quiet, todo, recVars, fillVars>>

------------------------------------------------------------------------------
(* One pass of the reconciliation scheduler.                               *)

\* reconcile_all_sessions: what the file has and the table lacks.
ReconcileMirror ==
    /\ rec = "idle" /\ unmirrored > 0
    /\ kinds' = Append(kinds, "dialogue")
    /\ unmirrored' = unmirrored - 1
    /\ UNCHANGED <<jobs, coverage, quiet, turnVars, recVars, faults, fillVars>>

\* _run_pass skips a session that was active within quiet_seconds.
CheckQuiet ==
    /\ rec = "idle" /\ unmirrored = 0 /\ quiet
    /\ rec' = "scan"
    /\ UNCHANGED <<kinds, unmirrored, jobs, coverage, quiet, turnVars, gaps, faults, fillVars>>

\* The most recent ScanLimit dialogue messages, ascending.
Recent == LET all == {i \in DOMAIN kinds : kinds[i] = "dialogue"}
          IN  {i \in all : Cardinality({j \in all : j > i}) < ScanLimit}
EligibleMessageIds == Ascending(Recent)

ScanAboveHighWater == ComputeBackfillWindows(
    Ascending({i \in Recent : \A r \in coverage : r[2] < i}), {})
Scan == ComputeBackfillWindows(EligibleMessageIds, coverage)

FindUncoveredRanges ==
    /\ rec = "scan"
    /\ gaps' = Scan
    /\ rec' = IF gaps' = <<>> THEN "idle" ELSE "enqueue"
    /\ UNCHANGED <<kinds, unmirrored, jobs, coverage, quiet, turnVars, faults, fillVars>>

ReconcileKey == Append(Head(gaps), "reconcile")
Proceed      == gaps' = Tail(gaps) /\ rec' = IF Len(gaps) = 1 THEN "idle" ELSE "enqueue"

ReconcileInsertJob ==
    /\ rec = "enqueue"
    /\ InsertJob(ReconcileKey)
    /\ IF Taken(ReconcileKey) THEN Proceed ELSE rec' = "cover" /\ UNCHANGED gaps
    /\ UNCHANGED <<kinds, unmirrored, coverage, quiet, turnVars, faults, fillVars>>

ReconcileInsertCoverage ==
    /\ rec = "cover"
    /\ coverage' = coverage \cup {ReconcileKey}
    /\ Proceed
    /\ UNCHANGED <<kinds, unmirrored, jobs, quiet, turnVars, faults, fillVars>>

\* _fire reports the error, drops the rest of the pass and reschedules.
PassRaises ==
    /\ rec # "idle" /\ Raise
    /\ rec' = "idle" /\ gaps' = <<>>
    /\ UNCHANGED <<kinds, unmirrored, jobs, coverage, quiet, turnVars, fillVars>>

------------------------------------------------------------------------------
(* minion-assist memory consolidate backfill, in a process of its own.     *)

\* Every message of the session, its tool results too.
ListMessageIds == Ascending({i \in DOMAIN kinds : kinds[i] # "other"})

StartBackfill ==
    /\ fill = "idle" /\ fills < MaxFills
    /\ batch' = ComputeBackfillWindows(ListMessageIds, coverage)
    /\ fill' = IF batch' = <<>> THEN "idle" ELSE "enqueue"
    /\ fills' = fills + 1
    /\ UNCHANGED <<kinds, unmirrored, jobs, coverage, quiet, turnVars, recVars, faults>>

BackfillKey  == Append(Head(batch), "backfill")
NextOfBatch  == batch' = Tail(batch) /\ fill' = IF Len(batch) = 1 THEN "idle" ELSE "enqueue"

BackfillInsertJob ==
    /\ fill = "enqueue"
    /\ InsertJob(BackfillKey)
    /\ IF Taken(BackfillKey) THEN NextOfBatch ELSE fill' = "cover" /\ UNCHANGED batch
    /\ UNCHANGED <<kinds, unmirrored, coverage, quiet, turnVars, recVars, fills, faults>>

BackfillInsertCoverage ==
    /\ fill = "cover"
    /\ coverage' = coverage \cup {BackfillKey}
    /\ NextOfBatch
    /\ UNCHANGED <<kinds, unmirrored, jobs, quiet, turnVars, recVars, fills, faults>>

\* A statement raises, and the command ends there.
BackfillRaises ==
    /\ fill # "idle" /\ Raise
    /\ fill' = "idle" /\ batch' = <<>>
    /\ UNCHANGED <<kinds, unmirrored, jobs, coverage, quiet, turnVars, recVars, fills>>

------------------------------------------------------------------------------
\* quiet_seconds pass since the last completed turn, perhaps during this one.
QuietElapses ==
    /\ ~quiet
    /\ quiet' = TRUE
    /\ UNCHANGED <<kinds, unmirrored, jobs, coverage, turnVars, recVars, faults, fillVars>>

OtherSession ==
    /\ Room(1)
    /\ kinds' = Append(kinds, "other")
    /\ UNCHANGED <<unmirrored, jobs, coverage, quiet, turnVars, recVars, faults, fillVars>>

\* The process dies; the mirrored rows of the turn stay, its JSONL tail does
\* not, and a new process starts with a fresh scheduler.
Crash ==
    /\ turn # "idle" \/ rec # "idle"
    /\ Raise
    /\ turn' = "idle" /\ todo' = <<>> /\ exchange' = <<>>
    /\ rec' = "idle" /\ gaps' = <<>>
    /\ UNCHANGED <<kinds, unmirrored, jobs, coverage, quiet, fillVars>>

Turn == \/ TurnFails \/ MirrorNext \/ UpdateSession \/ LiveInsertJob
        \/ LiveInsertCoverage \/ LiveEnqueueSkipped
        \/ \E shape \in TurnShapes : TurnAnswers(shape)

Reconciler == \/ ReconcileMirror \/ CheckQuiet \/ FindUncoveredRanges
              \/ ReconcileInsertJob \/ ReconcileInsertCoverage

Backfill == StartBackfill \/ BackfillInsertJob \/ BackfillInsertCoverage

Faults == \/ UserMirrorRaises \/ MirrorRaises \/ LiveEnqueueRaises
          \/ PassRaises \/ BackfillRaises \/ Crash

Next == UserMessage \/ Turn \/ Reconciler \/ Backfill \/ Faults \/ QuietElapses \/ OtherSession

Spec == Init /\ [][Next]_vars

(* A turn ends, the timer keeps firing, time passes. The scheduler competes *)
(* with turns for a quiet moment, and users leave one in the end.           *)
FairSpec == Spec /\ WF_vars(Turn) /\ WF_vars(Reconciler) /\ WF_vars(QuietElapses)

------------------------------------------------------------------------------
Ids == 1..MaxMessages
TypeOK ==
    /\ kinds \in Seq({"dialogue", "tool", "other"}) /\ Len(kinds) <= MaxMessages
    /\ unmirrored \in 0..MaxMessages
    /\ jobs \subseteq Ids \X Ids \X {"live", "reconcile", "backfill"}
    /\ coverage \subseteq Ids \X Ids \X {"live", "reconcile", "backfill"}
    /\ quiet \in BOOLEAN
    /\ turn \in {"idle", "running", "mirroring", "enqueue", "cover"}
    /\ exchange \in Seq(Ids) /\ todo \in Seq({"dialogue", "tool"})
    /\ rec \in {"idle", "scan", "enqueue", "cover"} /\ gaps \in Seq(Ids \X Ids)
    /\ fill \in {"idle", "enqueue", "cover"} /\ batch \in Seq(Ids \X Ids) /\ fills \in 0..MaxFills
    /\ faults \in 0..MaxFaults

Dialogue(i) == i \in DOMAIN kinds /\ kinds[i] = "dialogue"
Share(j, k) == \E i \in DOMAIN kinds : Dialogue(i) /\ In(i, j) /\ In(i, k)

(* Coverage never claims a range no job was enqueued for: whatever raises   *)
(* or crashes, a message is not written off as captured when it is not.     *)
CoverageIsBackedByJobs == coverage \subseteq jobs

(* No producer repeats its own work: two live jobs, two catch-up jobs, or   *)
(* two of the backfill command, capture the same message only if a coverage *)
(* row was lost.                                                            *)
NoProducerRepeatsItself ==
    \A j, k \in jobs : j # k /\ j[3] = k[3] /\ Share(j, k) =>
        j \notin coverage \/ k \notin coverage

(* Every dialogue message that reaches the database is eventually in the    *)
(* range of a capture job, through failed mirrors, failed enqueues, failed  *)
(* passes and crashes (MEM-GAP-007), or is out of the scan's sight, with    *)
(* ScanLimit messages after it.                                             *)
Captured(i) == \/ \E j \in jobs : In(i, j)
               \/ Cardinality({n \in Ids : n > i /\ Dialogue(n)}) >= ScanLimit
EveryMessageIsCaptured == []<>(\A i \in Ids : Dialogue(i) => Captured(i))

==============================================================================
