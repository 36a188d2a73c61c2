---------------------------- MODULE SchemaLedger ----------------------------
(***************************************************************************)
(* schema_migrations.run_migrations: bringing one component's PostgreSQL   *)
(* schema up to date at startup.  Several processes start at once, of      *)
(* several releases; every statement of a migration is committed on its    *)
(* own (the connection is in autocommit mode) and its ledger row is one    *)
(* more, so a process that dies leaves a migration half done, or done and  *)
(* not recorded, and the next one replays it from its first statement.     *)
(* The advisory lock belongs to the database session: it goes with it.     *)
(*                                                                         *)
(* Three of session_db's migrations stand for the nine: an additive one,   *)
(* 006, which copies rows out of a table and drops it, and 008, which      *)
(* drops a generated column and adds it again.  The other component,       *)
(* "memory_index", has a lock and ledger rows of its own.                  *)
(***************************************************************************)
EXTENDS Integers, Sequences

CONSTANTS Procs,       \* processes that open the database at startup
          MaxCrashes,  \* bound: deaths of a process, all together
          MaxStarts,   \* bound: starts of a process, all together
          None

(***************************************************************************)
(* A statement needs some objects, adds some, drops some.                  *)
(***************************************************************************)
Statement(needs, adds, drops) == [needs |-> needs, adds |-> adds, drops |-> drops]

\* CREATE TABLE IF NOT EXISTS, ADD COLUMN IF NOT EXISTS: can be repeated.
Additive == << Statement({}, {"coverage", "search_vector"}, {}) >>

\* 006: create the table of ranges, fill it from session_job_coverage, and
\* drop session_job_coverage (IF EXISTS).
RangeBasedCoverage == << Statement({}, {"ranges"}, {}),
                         Statement({"coverage", "ranges"}, {}, {}),
                         Statement({}, {}, {"coverage"}) >>

\* 008: DROP COLUMN search_vector (no IF EXISTS), ADD COLUMN search_vector.
LanguageNeutralFts == << Statement({"search_vector"}, {}, {"search_vector"}),
                         Statement({}, {"search_vector"}, {}) >>

Migrations == << Additive, RangeBasedCoverage, LanguageNeutralFts >>

Versions == DOMAIN Migrations
Newest == Len(Migrations)

\* _checksum: the source of version 1 as it was released, or edited since; the
\* other versions are never edited here.
Sources == {"released", "edited"}

\* None is neither a process nor the checksum of a source.
ASSUME LedgerAssumption ==
    /\ None \notin Procs \cup Sources
    /\ MaxCrashes \in Nat /\ MaxStarts \in Nat

VARIABLES lock,      \* the session that holds the advisory lock, or None
          ledger,    \* version |-> checksum recorded when it was applied
          objects,   \* what the schema contains
          ran,       \* version |-> statements of it executed, in order
          attempts,  \* version |-> times it was begun and not given up
          pc,        \* "off", "lock", "read", "run", "unlock"; then "up",
                     \* "refused" or "failed"
          release,   \* process |-> the newest version its release defines
          source,    \* process |-> the source its version 1 has
          seen,      \* process |-> the ledger as it read it
          at,        \* process |-> the version it is at
          line,      \* process |-> statements of it behind it
          outcome,   \* process |-> where it goes after the unlock
          crashes, starts

vars == <<lock, ledger, objects, ran, attempts, pc, release, source, seen,
          at, line, outcome, crashes, starts>>
procVars == <<release, source, seen, at, line, outcome>>

Outcomes == {"up", "refused", "failed"}

TypeOK == /\ lock \in Procs \cup {None}
          /\ ledger \in [Versions -> Sources \cup {None}]
          /\ objects \subseteq {"coverage", "ranges", "search_vector"}
          /\ ran \in [Versions -> Nat] /\ attempts \in [Versions -> Nat]
          /\ pc \in [Procs -> {"off", "lock", "read", "run", "unlock"} \cup Outcomes]
          /\ release \in [Procs -> Versions] /\ source \in [Procs -> Sources]
          /\ seen \in [Procs -> [Versions -> Sources \cup {None}]]
          /\ at \in [Procs -> 1..(Newest + 1)] /\ line \in [Procs -> Nat]
          /\ outcome \in [Procs -> Outcomes]
          /\ crashes \in 0..MaxCrashes /\ starts \in 0..MaxStarts

NoRows == [v \in Versions |-> None]

Init == /\ lock = None /\ ledger = NoRows /\ objects = {}
        /\ ran = [v \in Versions |-> 0] /\ attempts = [v \in Versions |-> 0]
        /\ pc = [p \in Procs |-> "off"]
        /\ release = [p \in Procs |-> 1] /\ source = [p \in Procs |-> "released"]
        /\ seen = [p \in Procs |-> NoRows]
        /\ at = [p \in Procs |-> 1] /\ line = [p \in Procs |-> 0]
        /\ outcome = [p \in Procs |-> "up"]
        /\ crashes = 0 /\ starts = 0

Goto(p, label) == pc' = [pc EXCEPT ![p] = label]

\* A process of any release opens the database.
Start(p) ==
    /\ pc[p] = "off" /\ starts < MaxStarts
    /\ starts' = starts + 1
    /\ \E r \in Versions : release' = [release EXCEPT ![p] = r]
    /\ \E s \in Sources : source' = [source EXCEPT ![p] = s]
    /\ seen' = [seen EXCEPT ![p] = NoRows] /\ at' = [at EXCEPT ![p] = 1]
    /\ line' = [line EXCEPT ![p] = 0] /\ outcome' = [outcome EXCEPT ![p] = "up"]
    /\ Goto(p, "lock")
    /\ UNCHANGED <<lock, ledger, objects, ran, attempts, crashes>>

\* pg_advisory_lock blocks while another session holds the lock.
MayLock(p) == pc[p] = "lock" /\ lock = None

Lock(p) ==
    /\ MayLock(p)
    /\ lock' = p
    /\ Goto(p, "read")
    /\ UNCHANGED <<ledger, objects, ran, attempts, procVars, crashes, starts>>

\* The component's ledger rows are read once, and a version this release does
\* not define makes it refuse to go on; the lock is released all the same.
ReadLedger(p) ==
    /\ pc[p] = "read"
    /\ seen' = [seen EXCEPT ![p] = ledger]
    /\ IF \E v \in Versions : v > release[p] /\ ledger[v] # None
         THEN Goto(p, "unlock") /\ outcome' = [outcome EXCEPT ![p] = "refused"]
         ELSE Goto(p, "run") /\ UNCHANGED outcome
    /\ UNCHANGED <<lock, ledger, objects, ran, attempts, release, source, at, line,
                   crashes, starts>>

\* The migrations of the release in version order; one that the ledger had
\* when it was read is passed over, unless its source has changed since.
Checksum(p, v) == IF v = 1 THEN source[p] ELSE "released"
Behind(p) == pc[p] = "run" /\ at[p] <= release[p] /\ seen[p][at[p]] # None

Skip(p) ==
    /\ Behind(p) /\ seen[p][at[p]] = Checksum(p, at[p])
    /\ at' = [at EXCEPT ![p] = @ + 1]
    /\ UNCHANGED <<lock, ledger, objects, ran, attempts, pc, release, source, seen,
                   line, outcome, crashes, starts>>

RefuseEdited(p) ==
    /\ Behind(p) /\ seen[p][at[p]] # Checksum(p, at[p])
    /\ Goto(p, "unlock") /\ outcome' = [outcome EXCEPT ![p] = "refused"]
    /\ UNCHANGED <<lock, ledger, objects, ran, attempts, release, source, seen, at,
                   line, crashes, starts>>

Pending(p) == pc[p] = "run" /\ at[p] <= release[p] /\ seen[p][at[p]] = None

\* The process leaves the migration it is at, done or half done, to others.
GiveUp(p) ==
    attempts' = IF Pending(p) /\ line[p] > 0
                  THEN [attempts EXCEPT ![at[p]] = @ - 1] ELSE attempts

\* One statement of migration.apply.
Execute(p) ==
    LET v == at[p]
        k == line[p] + 1
    IN /\ Pending(p) /\ line[p] < Len(Migrations[v])
       /\ Migrations[v][k].needs \subseteq objects
       /\ objects' = (objects \ Migrations[v][k].drops) \cup Migrations[v][k].adds
       /\ ran' = [ran EXCEPT ![v] = k]
       /\ attempts' = [attempts EXCEPT ![v] = @ + IF k = 1 THEN 1 ELSE 0]
       /\ line' = [line EXCEPT ![p] = k]
       /\ UNCHANGED <<lock, ledger, pc, release, source, seen, at, outcome, crashes,
                      starts>>

\* A statement whose table or column is not there raises: the exception leaves
\* run_migrations through its finally.
ExecuteRaises(p) ==
    /\ Pending(p) /\ line[p] < Len(Migrations[at[p]])
    /\ ~(Migrations[at[p]][line[p] + 1].needs \subseteq objects)
    /\ Goto(p, "unlock") /\ outcome' = [outcome EXCEPT ![p] = "failed"]
    /\ GiveUp(p)
    /\ UNCHANGED <<lock, ledger, objects, ran, release, source, seen, at, line,
                   crashes, starts>>

\* The ledger row, once every statement has been executed.
AppliedFirstStatement(p) == line[p] > 0
Applied(p) == line[p] = Len(Migrations[at[p]])

Record(p) ==
    /\ Pending(p) /\ Applied(p)
    /\ ledger' = [ledger EXCEPT ![at[p]] = Checksum(p, at[p])]
    /\ at' = [at EXCEPT ![p] = @ + 1] /\ line' = [line EXCEPT ![p] = 0]
    /\ UNCHANGED <<lock, objects, ran, attempts, pc, release, source, seen, outcome,
                   crashes, starts>>

Finish(p) ==
    /\ pc[p] = "run" /\ at[p] > release[p]
    /\ Goto(p, "unlock")
    /\ UNCHANGED <<lock, ledger, objects, ran, attempts, procVars, crashes, starts>>

Released(p) == lock' = IF lock = p THEN None ELSE lock

Unlock(p) ==
    /\ pc[p] = "unlock"
    /\ Released(p)
    /\ Goto(p, outcome[p])
    /\ UNCHANGED <<ledger, objects, ran, attempts, procVars, crashes, starts>>

\* The process dies, and its database session with it.
Crash(p) ==
    /\ pc[p] \notin {"off"} \cup Outcomes /\ crashes < MaxCrashes
    /\ crashes' = crashes + 1
    /\ Released(p) /\ GiveUp(p) /\ Goto(p, "off")
    /\ UNCHANGED <<ledger, objects, ran, procVars, starts>>

\* It ends its day's work and may be started again, of another release.
Exit(p) ==
    /\ pc[p] \in Outcomes
    /\ Goto(p, "off")
    /\ UNCHANGED <<lock, ledger, objects, ran, attempts, procVars, crashes, starts>>

Step(p) == \/ ReadLedger(p) \/ Skip(p) \/ RefuseEdited(p) \/ Execute(p) \/ ExecuteRaises(p)
           \/ Record(p) \/ Finish(p) \/ Unlock(p)

Next == \E p \in Procs : \/ Start(p) \/ Lock(p) \/ Step(p) \/ Crash(p) \/ Exit(p)

Spec == Init /\ [][Next]_vars

(***************************************************************************)
(* Properties                                                              *)
(***************************************************************************)

\* The ledger never claims more than the schema has: a recorded version had
\* every statement executed, and so had every version before it
\* (schema_migrations.run_migrations: apply, then the ledger row, in version
\* order).
LedgerVouchesForSchema ==
    \A v \in Versions : ledger[v] # None =>
        \A w \in 1..v : ledger[w] # None /\ ran[w] = Len(Migrations[w])

\* Processes that start together do not both apply a migration: it is begun
\* again only when whoever began it died or failed in the middle of it (the
\* advisory lock around the read of the ledger and the migrations).
OneAttempt == \A v \in Versions : attempts[v] <= 1

\* A process that comes up runs on the schema of its own release: at that
\* moment the ledger has exactly the versions it defines, whatever other
\* releases were starting (schema_migrations.run_migrations, lines 164-198).
UpOnItsOwnSchema ==
    [][\A p \in Procs : (pc[p] = "unlock" /\ pc'[p] = "up")
                         => {v \in Versions : ledger[v] # None} = 1..release[p]]_vars

=============================================================================
