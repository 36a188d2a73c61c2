----------------------------- MODULE CaptureLane -----------------------------
(***************************************************************************)
(* The durable capture lane: the memory_capture_jobs and memory_proposals  *)
(* tables (session/db.py), the one CaptureWorker thread that drains them   *)
(* (memory/capture_worker.py), the process that owns the thread            *)
(* (minion.py) and the daily retention pass.                               *)
(*                                                                         *)
(* Every SQL statement is an action of its own: a SessionDB connection is  *)
(* in autocommit mode and no method opens a transaction, so enqueuers, the *)
(* worker and a crash may come between any two statements, and each        *)
(* statement of the worker may raise (a raised statement changed nothing). *)
(***************************************************************************)
EXTENDS Naturals, FiniteSets

CONSTANTS Keys,          \* idempotency keys of capture jobs
          NoKey,         \* the worker holds no job
          MaxAttempts,   \* _MAX_ATTEMPTS of capture_worker.py
          MaxFacts,      \* most facts one extraction yields (3 in the code)
          MaxRows,       \* bound: rows ever inserted into the job table
          MaxDbErrors,   \* bound: worker statements that raise
          MaxCrashes     \* bound: times the process stops

ASSUME CaptureAssumption == /\ NoKey \notin Keys
                            /\ MaxAttempts \in Nat \ {0}
                            /\ MaxFacts \in Nat
                            /\ MaxRows \in Nat
                            /\ MaxDbErrors \in Nat
                            /\ MaxCrashes \in Nat

VARIABLES state,      \* memory_capture_jobs.state, "absent" without a row
          attempts,   \* memory_capture_jobs.attempts
          due,        \* the keys whose run_after has passed
          age,        \* how old updated_at is, see Age
          id,         \* memory_capture_jobs.id
          nextId,     \* next value of the table's id sequence
          proposals,  \* rows of memory_proposals: <<key, try, n>>, the n-th
                      \*   fact recorded by the try-th claim of the key
          indexed,    \* the proposals that PostgresMemoryIndex has chunked
          pc,         \* where the worker thread is
          cur,        \* job["id"] of _process_one, as the key of that row
          snap,       \* job["attempts"] as the claim returned it
          left,       \* facts still to be inserted
          dbErrors,   \* worker statements that have raised
          crashes,    \* times the process has stopped
          try,        \* history: [Keys -> number of claims]
          facts       \* history: [Keys -> facts the latest claim extracted]

rowVars    == <<state, attempts, due, age, id, nextId>>
outVars    == <<proposals, indexed>>
workerVars == <<pc, cur, snap, left>>
bounds     == <<dbErrors, crashes>>
history    == <<try, facts>>
vars == <<rowVars, outVars, workerVars, bounds, history>>

State    == {"absent", "pending", "running", "done", "failed"}
Terminal == {"done", "failed"}

(* How old updated_at is, as far as any query can tell: 0, recent; 1, past *)
(* the hour of reclaim_stale_running_jobs; 2, past retention_days as well. *)
Age == 0..2

(* "off": no process; "dead": the process runs, its worker thread ended on *)
(* an exception nothing caught.                                            *)
Holding == {"claimed", "recording", "failing"}
Loc     == {"off", "idle", "indexing", "dead"} \cup Holding

Init == /\ state = [k \in Keys |-> "absent"]
        /\ attempts = [k \in Keys |-> 0]
        /\ due = {}
        /\ age = [k \in Keys |-> 0]
        /\ id = [k \in Keys |-> 0] /\ nextId = 1
        /\ proposals = {} /\ indexed = {}
        /\ pc = "idle" /\ cur = NoKey /\ snap = 0 /\ left = 0
        /\ dbErrors = 0 /\ crashes = 0
        /\ try = [k \in Keys |-> 0] /\ facts = [k \in Keys |-> 0]

------------------------------------------------------------------------------
(* Enqueuers: a live turn, the reconciler, the backfill command.           *)

\* ON CONFLICT (idempotency_key) DO NOTHING: only an absent key inserts.
Enqueue(k) ==
    /\ nextId <= MaxRows
    /\ state[k] = "absent"
    /\ state' = [state EXCEPT ![k] = "pending"]
    /\ attempts' = [attempts EXCEPT ![k] = 0]
    /\ due' = due \cup {k}
    /\ age' = [age EXCEPT ![k] = 0]
    /\ id' = [id EXCEPT ![k] = nextId] /\ nextId' = nextId + 1
    /\ UNCHANGED <<outVars, workerVars, bounds, history>>

------------------------------------------------------------------------------
(* The worker thread.                                                      *)

Raise == /\ dbErrors < MaxDbErrors
         /\ dbErrors' = dbErrors + 1

ClaimableFirstTry(k) == state[k] = "pending" /\ k \in due /\ attempts[k] = 0
Claimable(k) == state[k] = "pending" /\ k \in due

\* _process_one is over, one way or another: its locals are gone.
Release(loc) == pc' = loc /\ cur' = NoKey /\ snap' = 0 /\ left' = 0

\* The SET clause of an UPDATE of one row: state and updated_at.
SetStateOnlyTouch(k, s) == /\ age' = [age EXCEPT ![k] = 0]
                           /\ UNCHANGED state
SetState(k, s) == /\ state' = [state EXCEPT ![k] = s]
                  /\ age' = [age EXCEPT ![k] = 0]

ClaimNext(k) ==
    /\ pc = "idle"
    /\ Claimable(k)
    /\ \A j \in Keys : Claimable(j) => id[k] <= id[j]
    /\ SetState(k, "running")
    /\ pc' = "claimed" /\ cur' = k /\ snap' = attempts[k] /\ left' = 0
    /\ try' = [try EXCEPT ![k] = @ + 1]
    /\ facts' = [facts EXCEPT ![k] = 0]
    /\ UNCHANGED <<attempts, due, id, nextId, outVars, bounds>>

\* The claim is made outside the try block of _process_one.
ClaimRaises ==
    /\ pc = "idle"
    /\ Raise
    /\ Release("dead")
    /\ UNCHANGED <<rowVars, outVars, crashes, history>>

\* get_messages_in_range and extract_facts: 0..MaxFacts facts ...
Extract(n) ==
    /\ pc = "claimed"
    /\ pc' = "recording" /\ left' = n
    /\ facts' = [facts EXCEPT ![cur] = n]
    /\ UNCHANGED <<rowVars, outVars, cur, snap, bounds, try>>

\* ... or an exception: the provider's, the parser's or the database's.
ExtractRaises ==
    /\ pc = "claimed"
    /\ pc' = "failing"
    /\ UNCHANGED <<rowVars, outVars, cur, snap, left, bounds, history>>

RecordProposal ==
    /\ pc = "recording" /\ left > 0
    /\ proposals' = proposals \cup {<<cur, try[cur], facts[cur] - left + 1>>}
    /\ left' = left - 1
    /\ UNCHANGED <<rowVars, indexed, pc, cur, snap, bounds, history>>

AllButOneRecorded == left <= 1
AllRecorded == left = 0

MarkDone ==
    /\ pc = "recording" /\ AllRecorded
    /\ SetState(cur, "done")
    /\ pc' = "indexing"
    /\ UNCHANGED <<attempts, due, id, nextId, outVars, cur, snap, left, bounds, history>>

RecordingRaises ==
    /\ pc = "recording"
    /\ Raise
    /\ pc' = "failing"
    /\ UNCHANGED <<rowVars, outVars, cur, snap, left, crashes, history>>

\* Each reindex_proposal may fail and is swallowed: any subset is indexed.
IndexProposals(S) ==
    /\ pc = "indexing"
    /\ S \subseteq {p \in proposals : p[1] = cur /\ p[2] = try[cur]}
    /\ indexed' = indexed \cup S
    /\ Release("idle")
    /\ UNCHANGED <<rowVars, proposals, bounds, history>>

ExhaustedLate(failures) == failures > MaxAttempts
Exhausted(failures) == failures >= MaxAttempts

FailJob ==
    /\ pc = "failing"
    /\ attempts' = [attempts EXCEPT ![cur] = @ + 1]
    /\ SetState(cur, IF Exhausted(attempts[cur] + 1) THEN "failed" ELSE "pending")
    /\ due' = due \ {cur}
    /\ Release("idle")
    /\ UNCHANGED <<id, nextId, outVars, bounds, history>>

\* fail_capture_job runs in the except clause, outside the try block.
FailRaises ==
    /\ pc = "failing"
    /\ Raise
    /\ Release("dead")
    /\ UNCHANGED <<rowVars, outVars, crashes, history>>

------------------------------------------------------------------------------
(* Time, the process and retention.                                        *)

\* At most 32 seconds: far less than reclaim's hour.
BackoffElapses ==
    /\ ~(Keys \subseteq due)
    /\ due' = Keys
    /\ UNCHANGED <<state, attempts, age, id, nextId, outVars, workerVars, bounds, history>>

\* An hour, or retention_days, passes for every row. A job is never held
\* that long: the worker finishes with it within one method call.
TimePasses(a) ==
    /\ pc \notin Holding
    /\ \E k \in Keys : state[k] # "absent" /\ age[k] < a
    /\ age' = [k \in Keys |-> IF age[k] < a THEN a ELSE age[k]]
    /\ due' = Keys
    /\ UNCHANGED <<state, attempts, id, nextId, outVars, workerVars, bounds, history>>

\* A kill, a crash, or stop() giving up on its join after five seconds.
Crash ==
    /\ pc # "off" /\ crashes < MaxCrashes
    /\ crashes' = crashes + 1
    /\ Release("off")
    /\ UNCHANGED <<rowVars, outVars, dbErrors, history>>

\* Startup: reclaim_stale_running_jobs, and only then the worker starts.
Stuck(k) == state[k] = "running" /\ age[k] > 0

Restart ==
    /\ pc = "off"
    /\ state' = [k \in Keys |-> IF Stuck(k) THEN "pending" ELSE state[k]]
    /\ pc' = "idle"
    /\ UNCHANGED <<attempts, due, age, id, nextId, outVars, cur, snap, left, bounds, history>>

\* The foreign key of memory_proposals.job_id: ON DELETE SET NULL.
OnJobDelete(P, ks) == P

\* prune_operational_tables.
PrunableByAge(k) == age[k] = 2
Prunable(k) == state[k] \in Terminal /\ age[k] = 2

PruneJobs ==
    /\ pc # "off"
    /\ \E k \in Keys : Prunable(k)
    /\ state' = [k \in Keys |-> IF Prunable(k) THEN "absent" ELSE state[k]]
    /\ attempts' = [k \in Keys |-> IF Prunable(k) THEN 0 ELSE attempts[k]]
    /\ proposals' = OnJobDelete(proposals, {k \in Keys : Prunable(k)})
    /\ UNCHANGED <<due, age, id, nextId, indexed, workerVars, bounds, history>>

------------------------------------------------------------------------------
Worker == \/ \E k \in Keys : ClaimNext(k)
          \/ \E n \in 0..MaxFacts : Extract(n)
          \/ ExtractRaises
          \/ RecordProposal
          \/ MarkDone
          \/ \E S \in SUBSET proposals : IndexProposals(S)
          \/ FailJob

Faults == ClaimRaises \/ RecordingRaises \/ FailRaises \/ Crash

Next == \/ Worker
        \/ Faults
        \/ \E k \in Keys : Enqueue(k)
        \/ BackoffElapses
        \/ \E a \in 1..2 : TimePasses(a)
        \/ Restart
        \/ PruneJobs

Spec == Init /\ [][Next]_vars

(* The worker thread keeps running, and clocks advance.                    *)
FairSpec == Spec /\ WF_vars(Worker) /\ WF_vars(BackoffElapses)
------------------------------------------------------------------------------
TypeOK ==
    /\ state \in [Keys -> State] /\ attempts \in [Keys -> 0..MaxAttempts]
    /\ due \subseteq Keys /\ age \in [Keys -> Age]
    /\ id \in [Keys -> Nat] /\ nextId \in Nat
    /\ proposals \subseteq Keys \X Nat \X (1..MaxFacts)
    /\ indexed \subseteq Keys \X Nat \X (1..MaxFacts)
    /\ pc \in Loc /\ cur \in Keys \cup {NoKey} /\ snap \in Nat /\ left \in 0..MaxFacts
    /\ dbErrors \in 0..MaxDbErrors /\ crashes \in 0..MaxCrashes
    /\ try \in [Keys -> Nat] /\ facts \in [Keys -> 0..MaxFacts]

(* While the worker is on a job, nothing else has moved or re-counted its  *)
(* row: the backoff it computes from the claim's snapshot is the right one *)
(* and its final UPDATE ... WHERE id = ... cannot overwrite another        *)
(* outcome (capture_worker.py, _process_one).                              *)
HeldJobUntouched ==
    pc \in Holding => /\ cur \in Keys
                      /\ state[cur] = "running"
                      /\ attempts[cur] = snap

(* A job is retried while, and only while, it has failed fewer than        *)
(* MaxAttempts times, whatever crashes and reclaims come in between.       *)
RetryLimit ==
    \A k \in Keys : /\ state[k] \in {"pending", "running"} => attempts[k] < MaxAttempts
                    /\ state[k] = "failed" => attempts[k] = MaxAttempts

(* A job that reads "done" has every fact of its successful extraction in  *)
(* memory_proposals: complete_capture_job inserts before it marks.         *)
DoneRecordsAllFacts ==
    \A k \in Keys : state[k] = "done" =>
        \A n \in 1..MaxFacts : <<k, try[k], n>> \in proposals <=> n <= facts[k]

(* Only proposals of a claim that reached "done" become searchable: what a *)
(* failed or killed attempt left behind in memory_proposals never is.      *)
UnfinishedNeverIndexed ==
    \A k \in Keys : state[k] \in {"running", "failed"} =>
        ~\E p \in indexed : p[1] = k /\ p[2] = try[k]

(* Extracted memory outlives the queue: neither pruning a job nor retrying *)
(* it removes a proposal (ON DELETE SET NULL, R2-GAP-001).                 *)
ProposalsSurvive == [][proposals \subseteq proposals']_vars

(* Until the first crash or database error, every job in the queue comes   *)
(* to be done or failed, however often its extraction raises.              *)
QueueDrains == \A k \in Keys :
    state[k] = "pending" ~> (state[k] \in Terminal \/ dbErrors + crashes > 0)

------------------------------------------------------------------------------
(* The lane implements the abstract job life of JobLane.                   *)
Lane == INSTANCE JobLane  \* state and attempts are the columns themselves

(* Every statement of the code maps to a step of the abstract queue: a     *)
(* finished job is never run again while its row exists, a running job     *)
(* leaves that state only by finishing, failing (counted) or a restart.    *)
ImplementsJobLane == Lane!Spec

==============================================================================
