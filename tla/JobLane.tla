------------------------------- MODULE JobLane -------------------------------
(***************************************************************************)
(* The abstract life of a durable background job, the promise the four     *)
(* job tables of session/db.py (capture, commitment, message embedding,    *)
(* image caption) make to their users: a job, named by its idempotency     *)
(* key, is enqueued at most once while its row exists, is run one attempt  *)
(* at a time, is retried a bounded number of times, and leaves the queue   *)
(* only from a terminal state.                                             *)
(***************************************************************************)
EXTENDS Naturals

CONSTANTS Keys,         \* idempotency keys
          MaxAttempts   \* failed attempts after which a job is given up

VARIABLES state,        \* [Keys -> State]
          attempts      \* [Keys -> 0..MaxAttempts], failures recorded so far

vars == <<state, attempts>>

State    == {"absent", "pending", "running", "done", "failed"}
Terminal == {"done", "failed"}

TypeOK == /\ state \in [Keys -> State]
          /\ attempts \in [Keys -> 0..MaxAttempts]

Init == /\ state = [k \in Keys |-> "absent"]
        /\ attempts = [k \in Keys |-> 0]

Enqueue(k) == /\ state[k] = "absent"
              /\ state' = [state EXCEPT ![k] = "pending"]
              /\ attempts' = [attempts EXCEPT ![k] = 0]

Claim(k) == /\ state[k] = "pending"
            /\ state' = [state EXCEPT ![k] = "running"]
            /\ UNCHANGED attempts

Complete(k) == /\ state[k] = "running"
               /\ state' = [state EXCEPT ![k] = "done"]
               /\ UNCHANGED attempts

\* A failed attempt is counted, and the last one allowed ends the job.
Fail(k) == /\ state[k] = "running"
           /\ attempts[k] < MaxAttempts
           /\ attempts' = [attempts EXCEPT ![k] = @ + 1]
           /\ state' = [state EXCEPT ![k] = IF attempts[k] + 1 = MaxAttempts
                                            THEN "failed" ELSE "pending"]

\* A restart returns a set of abandoned jobs to the queue, uncounted.
Reclaim(S) == /\ \A k \in S : state[k] = "running"
              /\ state' = [k \in Keys |-> IF k \in S THEN "pending" ELSE state[k]]
              /\ UNCHANGED attempts

\* Retention forgets finished jobs only.
Prune(S) == /\ \A k \in S : state[k] \in Terminal
            /\ state' = [k \in Keys |-> IF k \in S THEN "absent" ELSE state[k]]
            /\ attempts' = [k \in Keys |-> IF k \in S THEN 0 ELSE attempts[k]]

Next == \/ \E k \in Keys : Enqueue(k) \/ Claim(k) \/ Complete(k) \/ Fail(k)
        \/ \E S \in SUBSET Keys : Reclaim(S) \/ Prune(S)

Spec == Init /\ [][Next]_vars
==============================================================================
