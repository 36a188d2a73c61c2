---------------------------- MODULE Commitments ----------------------------
(***************************************************************************)
(* Inferred follow-ups of one agent: the memory_commitment_jobs queue and  *)
(* the CommitmentWorker that turns an exchange into rows of commitments,   *)
(* the HeartbeatScheduler that lists the due ones and lets the model       *)
(* respond to or dismiss each, and the command line that dismisses or      *)
(* deletes them from another process.  Each SQL statement is a step.       *)
(***************************************************************************)
EXTENDS Naturals, Sequences, FiniteSets

CONSTANTS
    Jobs,         \* exchanges, each with one extraction job
    Channels,     \* rooms
    Keys,         \* dedupe keys the extraction may name
    MaxPerDay,    \* max_per_day
    MaxPerBeat,   \* max_per_heartbeat
    MaxAttempts,  \* _MAX_ATTEMPTS
    MaxRows,      \* bound: rows of commitments
    MaxFaults,    \* bound: statements that raise and times the process dies
    MaxFailures,  \* bound: provider calls that fail
    MaxCli        \* bound: statements of the command line

ASSUME CommitmentConstants ==
    /\ Jobs \subseteq Nat \ {0} /\ Channels # {}
    /\ MaxPerDay \in Nat \ {0} /\ MaxPerBeat \in Nat \ {0} /\ MaxAttempts \in Nat \ {0}
    /\ MaxRows \in Nat /\ MaxFaults \in Nat /\ MaxFailures \in Nat /\ MaxCli \in Nat

NoJob == 0
NoKey == "no key"
NoRow == 0

\* A window is "early" before due_earliest, "due" until due_latest + 72 h and
\* "past" after that; told counts the check-ins delivered for the row, and
\* today says that sent_at lies within the trailing day.
Row == [job : Jobs, channel : Channels, key : Keys,
        status : {"pending", "sent", "dismissed", "expired", "deleted"},
        window : {"early", "due", "past"}, told : Nat, today : BOOLEAN]

VARIABLES
    state,      \* memory_commitment_jobs.state
    attempts,   \* memory_commitment_jobs.attempts
    channel,    \* memory_commitment_jobs.channel
    rows,       \* commitments, by id
    worker,     \* where the CommitmentWorker is
    held,       \* the job it holds
    todo,       \* candidates it has not written
    key,        \* the candidate it looked up
    found,      \* the row it found, or NoRow
    beat,       \* where the HeartbeatScheduler is
    limit,      \* rows it may list
    listed,     \* rows in the prompt of its turn
    target,     \* the row a tool call is working on
    chosen,     \* the row the command line has read as pending
    obedient,   \* the model answers no row but the listed ones
    faults, crashes, failures, cli

job_vars    == <<state, attempts, channel>>
worker_vars == <<worker, held, todo, key, found>>
beat_vars   == <<beat, limit, listed, target>>
bounds      == <<faults, crashes, failures, cli>>
vars == <<state, attempts, channel, rows, worker, held, todo, key, found, beat, limit,
          listed, target, chosen, obedient, faults, crashes, failures, cli>>

Init ==
    /\ state = [j \in Jobs |-> "absent"] /\ attempts = [j \in Jobs |-> 0]
    /\ channel \in [Jobs -> Channels]
    /\ rows = <<>>
    /\ worker = "idle" /\ held = NoJob /\ todo = {} /\ key = NoKey /\ found = NoRow
    /\ beat = "idle" /\ limit = 0 /\ listed = {} /\ target = NoRow
    /\ chosen = NoRow /\ obedient \in BOOLEAN
    /\ faults = 0 /\ crashes = 0 /\ failures = 0 /\ cli = 0

Raise == faults + crashes < MaxFaults /\ faults' = faults + 1 /\ UNCHANGED <<crashes, failures, cli>>

Ids == DOMAIN rows
Pending(r) == rows[r].status = "pending"

\* UPDATE ... WHERE id: a row that was deleted stays deleted.  Its window no
\* longer matters.
SetStatus(r, s) ==
    rows' = [rows EXCEPT ![r].status = IF @ = "deleted" THEN @ ELSE s,
                         ![r].today = s = "sent", ![r].window = "past"]

----------------------------------------------------------------------------
(* The queue and CommitmentWorker._process_one                             *)

Enqueue(j) ==
    /\ state[j] = "absent"
    /\ state' = [state EXCEPT ![j] = "pending"]
    /\ UNCHANGED <<attempts, channel, rows, worker_vars, beat_vars, chosen, obedient, bounds>>

Release(at) ==
    /\ worker' = at /\ todo' = {} /\ key' = NoKey /\ found' = NoRow
    /\ held' = IF at = "failing" THEN held ELSE NoJob

Claim(j) ==
    /\ worker = "idle" /\ state[j] = "pending"
    /\ state' = [state EXCEPT ![j] = "running"]
    /\ worker' = "claimed" /\ held' = j
    /\ UNCHANGED <<attempts, channel, rows, todo, key, found, beat_vars, chosen, obedient, bounds>>

\* The provider's answer, validated; nothing survives a malformed one.
Extract ==
    /\ worker = "claimed"
    /\ todo' \in SUBSET Keys
    /\ worker' = "recording"
    /\ UNCHANGED <<job_vars, rows, held, key, found, beat_vars, chosen, obedient, bounds>>

ExtractRaises ==
    /\ worker = "claimed" /\ failures < MaxFailures
    /\ failures' = failures + 1
    /\ Release("failing")
    /\ UNCHANGED <<job_vars, rows, beat_vars, chosen, obedient, faults, crashes, cli>>

MatchingSent(k) ==
    {r \in Ids : rows[r].status = "sent" /\ rows[r].channel = channel[held] /\ rows[r].key = k}
Matching(k) ==
    {r \in Ids : Pending(r) /\ rows[r].channel = channel[held] /\ rows[r].key = k}

Lookup ==
    /\ worker = "recording"
    /\ \E k \in todo :
          /\ key' = k /\ todo' = todo \ {k}
          /\ found' \in IF Matching(k) = {} THEN {NoRow} ELSE Matching(k)
    /\ worker' = "writing"
    /\ UNCHANGED <<job_vars, rows, held, beat_vars, chosen, obedient, bounds>>

\* min of the earliest times, max of the latest: the candidate's own window
\* opens in the future.  The status is not looked at again.
Widen(r) == rows' = [rows EXCEPT ![r].window = IF @ = "past" THEN "due" ELSE @]

Insert ==
    /\ Len(rows) < MaxRows
    /\ rows' = Append(rows, [job |-> held, channel |-> channel[held], key |-> key,
                             status |-> "pending", window |-> "early",
                             told |-> 0, today |-> FALSE])

Write ==
    /\ worker = "writing"
    /\ IF found = NoRow THEN Insert ELSE Widen(found)
    /\ worker' = "recording" /\ key' = NoKey /\ found' = NoRow
    /\ UNCHANGED <<job_vars, held, todo, beat_vars, chosen, obedient, bounds>>

MarkDone ==
    /\ worker = "recording" /\ todo = {}
    /\ state' = [state EXCEPT ![held] = "done"]
    /\ Release("idle")
    /\ UNCHANGED <<attempts, channel, rows, beat_vars, chosen, obedient, bounds>>

\* A statement of complete_commitment_job: what it wrote before stays.
CompleteRaises ==
    /\ worker \in {"recording", "writing"} /\ Raise
    /\ Release("failing")
    /\ UNCHANGED <<job_vars, rows, beat_vars, chosen, obedient>>

Exhausted(n) == n >= MaxAttempts

Fail ==
    /\ worker = "failing"
    /\ attempts' = [attempts EXCEPT ![held] = @ + 1]
    /\ state' = [state EXCEPT ![held] =
                    IF Exhausted(attempts[held] + 1) THEN "failed" ELSE "pending"]
    /\ Release("idle")
    /\ UNCHANGED <<channel, rows, beat_vars, chosen, obedient, bounds>>

\* The claim and the except clause are outside the try block.
WorkerDies ==
    /\ worker \in {"idle", "failing"} /\ Raise
    /\ Release("dead")
    /\ UNCHANGED <<job_vars, rows, beat_vars, chosen, obedient>>

----------------------------------------------------------------------------
(* HeartbeatScheduler._run_heartbeat                                       *)

ReleaseBeat == beat' = "idle" /\ limit' = 0 /\ listed' = {} /\ target' = NoRow

SweepNothing ==
    /\ beat = "idle"
    /\ beat' = "counting"
    /\ UNCHANGED <<job_vars, rows, worker_vars, limit, listed, target, chosen, obedient, bounds>>
\* expire_stale_commitments, at the top of list_due_commitments_for_agent.
Sweep ==
    /\ beat = "idle"
    /\ rows' = [r \in Ids |-> IF Pending(r) /\ rows[r].window = "past"
                              THEN [rows[r] EXCEPT !.status = "expired"] ELSE rows[r]]
    /\ beat' = "counting"
    /\ UNCHANGED <<job_vars, worker_vars, limit, listed, target, chosen, obedient, bounds>>

SentToday == Cardinality({r \in Ids : rows[r].status = "sent" /\ rows[r].today})
Smaller(a, b) == IF a < b THEN a ELSE b

CountPerBeat ==
    /\ beat = "counting"
    /\ IF SentToday >= MaxPerDay
       THEN ReleaseBeat
       ELSE beat' = "listing" /\ limit' = MaxPerBeat /\ UNCHANGED <<listed, target>>
    /\ UNCHANGED <<job_vars, rows, worker_vars, chosen, obedient, bounds>>
\* With the quota used up nothing is listed, and the turn gets no tools.
Count ==
    /\ beat = "counting"
    /\ IF SentToday >= MaxPerDay
       THEN ReleaseBeat
       ELSE beat' = "listing" /\ limit' = Smaller(MaxPerBeat, MaxPerDay - SentToday)
            /\ UNCHANGED <<listed, target>>
    /\ UNCHANGED <<job_vars, rows, worker_vars, chosen, obedient, bounds>>

Due == {r \in Ids : Pending(r) /\ rows[r].window \in {"due", "past"}}

List ==
    /\ beat = "listing"
    /\ IF Due = {} THEN ReleaseBeat
       ELSE /\ listed' \in {S \in SUBSET Due : Cardinality(S) = Smaller(limit, Cardinality(Due))}
            /\ beat' = "turn" /\ UNCHANGED <<limit, target>>
    /\ UNCHANGED <<job_vars, rows, worker_vars, chosen, obedient, bounds>>

\* _fetch_due_commitments swallows it; the turn gets no tools.
FetchRaises ==
    /\ beat \in {"idle", "counting", "listing"} /\ Raise
    /\ ReleaseBeat
    /\ UNCHANGED <<job_vars, rows, worker_vars, chosen, obedient>>

\* The tools take any id; an obedient model stays with the listed ones.
Answerable == IF obedient = TRUE THEN listed ELSE Ids

\* RespondToCommitmentTool.execute: read, deliver, mark.
Respond(r) ==
    /\ beat = "turn" /\ r \in Answerable /\ Pending(r)
    /\ beat' = "delivering" /\ target' = r
    /\ UNCHANGED <<job_vars, rows, worker_vars, limit, listed, chosen, obedient, bounds>>

\* To the room, or to the terminal when that fails: it never raises.
Deliver ==
    /\ beat = "delivering"
    /\ rows' = [rows EXCEPT ![target].told = @ + 1]
    /\ beat' = "marking"
    /\ UNCHANGED <<job_vars, worker_vars, limit, listed, target, chosen, obedient, bounds>>

BackToTurn == beat' = "turn" /\ target' = NoRow /\ UNCHANGED <<limit, listed>>

MarkSent ==
    /\ beat = "marking"
    /\ SetStatus(target, "sent")
    /\ BackToTurn
    /\ UNCHANGED <<job_vars, worker_vars, chosen, obedient, bounds>>

\* DismissCommitmentTool.execute: read, mark.
Dismiss(r) ==
    /\ beat = "turn" /\ r \in Answerable /\ Pending(r)
    /\ beat' = "dismissing" /\ target' = r
    /\ UNCHANGED <<job_vars, rows, worker_vars, limit, listed, chosen, obedient, bounds>>

MarkDismissed ==
    /\ beat = "dismissing"
    /\ SetStatus(target, "dismissed")
    /\ BackToTurn
    /\ UNCHANGED <<job_vars, worker_vars, chosen, obedient, bounds>>

\* The registry hands the error to the model, which may call again.
ToolRaises ==
    /\ beat \in {"marking", "dismissing"} /\ Raise
    /\ BackToTurn
    /\ UNCHANGED <<job_vars, rows, worker_vars, chosen, obedient>>

EndTurn ==
    /\ beat = "turn"
    /\ ReleaseBeat
    /\ UNCHANGED <<job_vars, rows, worker_vars, chosen, obedient, bounds>>

----------------------------------------------------------------------------
(* minion-assist memory commitments dismiss | delete                       *)

Command == cli < MaxCli /\ cli' = cli + 1 /\ UNCHANGED <<faults, crashes, failures>>

CliRead(r) ==
    /\ chosen = NoRow /\ Pending(r) /\ Command
    /\ chosen' = r
    /\ UNCHANGED <<job_vars, rows, worker_vars, beat_vars, obedient>>

CliDismiss ==
    /\ chosen # NoRow
    /\ SetStatus(chosen, "dismissed")
    /\ chosen' = NoRow
    /\ UNCHANGED <<job_vars, worker_vars, beat_vars, obedient, bounds>>

CliDelete(r) ==
    /\ rows[r].status # "deleted" /\ Command
    /\ SetStatus(r, "deleted")
    /\ UNCHANGED <<job_vars, worker_vars, beat_vars, chosen, obedient>>

----------------------------------------------------------------------------
(* Time and the process                                                    *)

\* Its window opens, or closed 72 hours ago.
Ripen(r) ==
    /\ Pending(r) /\ rows[r].window # "past"
    /\ rows' = [rows EXCEPT ![r].window = IF @ = "early" THEN "due" ELSE "past"]
    /\ UNCHANGED <<job_vars, worker_vars, beat_vars, chosen, obedient, bounds>>

DayPasses(r) ==
    /\ rows[r].today
    /\ rows' = [rows EXCEPT ![r].today = FALSE]
    /\ UNCHANGED <<job_vars, worker_vars, beat_vars, chosen, obedient, bounds>>

\* Startup resets jobs that have been running for an hour.
Restart ==
    /\ faults + crashes < MaxFaults /\ crashes' = crashes + 1
    /\ \E elapsed \in BOOLEAN :
          state' = [j \in Jobs |-> IF state[j] = "running" /\ elapsed THEN "pending" ELSE state[j]]
    /\ Release("idle") /\ ReleaseBeat
    /\ UNCHANGED <<attempts, channel, rows, chosen, obedient, faults, failures, cli>>

----------------------------------------------------------------------------
Worker    == (\E j \in Jobs : Claim(j)) \/ Extract \/ ExtractRaises \/ Lookup \/ Write
             \/ MarkDone \/ Fail
Tools     == (\E r \in Ids : Respond(r) \/ Dismiss(r)) \/ Deliver \/ MarkSent \/ MarkDismissed
Heartbeat == Sweep \/ Count \/ List \/ Tools \/ EndTurn
CLI       == (\E r \in Ids : CliRead(r) \/ CliDelete(r)) \/ CliDismiss
Faults    == CompleteRaises \/ WorkerDies \/ FetchRaises \/ ToolRaises \/ Restart

Next == (\E j \in Jobs : Enqueue(j)) \/ Worker \/ Heartbeat \/ CLI \/ Faults
        \/ (\E r \in Ids : Ripen(r) \/ DayPasses(r))

Spec == Init /\ [][Next]_vars

\* The heartbeat is enabled, its timer always rearms itself, and time passes.
Fairness == /\ WF_vars(Heartbeat)
            /\ \A r \in 1 .. MaxRows : WF_vars(r \in Ids /\ Ripen(r))
FairSpec == Spec /\ Fairness

----------------------------------------------------------------------------
(* Properties *)

TypeOK ==
    /\ state \in [Jobs -> {"absent", "pending", "running", "done", "failed"}]
    /\ attempts \in [Jobs -> 0 .. MaxAttempts] /\ channel \in [Jobs -> Channels]
    /\ rows \in Seq(Row) /\ Len(rows) <= MaxRows
    /\ worker \in {"idle", "claimed", "recording", "writing", "failing", "dead"}
    /\ held \in Jobs \cup {NoJob} /\ todo \subseteq Keys /\ key \in Keys \cup {NoKey}
    /\ found \in Ids \cup {NoRow}
    /\ beat \in {"idle", "counting", "listing", "turn", "delivering", "marking", "dismissing"}
    /\ limit \in 0 .. MaxPerBeat /\ listed \subseteq Ids /\ target \in Ids \cup {NoRow}
    /\ chosen \in Ids \cup {NoRow} /\ obedient \in BOOLEAN
    /\ faults \in 0 .. MaxFaults /\ crashes \in 0 .. MaxFaults /\ failures \in 0 .. MaxFailures
    /\ cli \in 0 .. MaxCli

\* One exchange yields at most one check-in per follow-up, whatever the order
\* of retries, merges, ticks and commands: a statement that raises costs one
\* more at most, and a process that dies two (a delivery that is not marked,
\* and a retry whose candidate no longer finds a pending row).
Told(j, k) ==
    Cardinality(UNION {{r} \X (1 .. rows[r].told) :
                       r \in {q \in Ids : rows[q].job = j /\ rows[q].key = k}})
OneCheckInPerExchange ==
    \A j \in Jobs, k \in Keys : Told(j, k) <= 1 + faults + 2 * crashes

\* No two pending rows of a room have the same dedupe key, although nothing in
\* the schema says so: one worker looks up and writes, and a retry finds what
\* the attempt before it wrote.
OnePendingPerKey ==
    \A q, r \in Ids : Pending(q) /\ Pending(r) /\ rows[q].channel = rows[r].channel
                      /\ rows[q].key = rows[r].key => q = r

\* A model that answers only what the tick listed never has more than
\* MaxPerDay rows sent in a day, although the tools themselves do not count.
QuotaHolds == obedient = TRUE => SentToday <= MaxPerDay

\* Without the command line, a check-in is only ever delivered for a row that
\* is still pending: neither a sent, a dismissed nor an expired one.
OnlyPendingIsTold ==
    [][\A r \in Ids : rows'[r].told > rows[r].told => Pending(r) \/ cli > 0]_vars

\* No follow-up stays pending for ever: what is neither sent nor dismissed has
\* its window closed, and the next tick that reaches the database expires it.
PendingIsSettled ==
    \A r \in 1 .. MaxRows : []<>(r \notin Ids \/ ~Pending(r))
============================================================================
