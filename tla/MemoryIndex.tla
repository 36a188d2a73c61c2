---------------------------- MODULE MemoryIndex ----------------------------
(***************************************************************************)
(* The search index of one agent's memory files (memory/postgres_index.py) *)
(* and the threads that keep it up to date: startup's reconcile and the    *)
(* agent's own writes (minion.py, memory/service.py), the file watcher     *)
(* (memory/watcher.py) and the reindex, reindex --force and pin commands   *)
(* of another process.  Connections are autocommit: every statement on a   *)
(* table is a step.  Of a page the index has its chunks, its ledger row,   *)
(* its pin and the claims marked in it; one claim stands for all.          *)
(***************************************************************************)
EXTENDS Naturals, Sequences, FiniteSets

CONSTANTS
    Files,      \* paths of indexable files
    Texts,      \* what a file may say
    Marked,     \* the texts that carry the claim's marker
    MaxWrites,  \* bound: changes of a file
    MaxManual,  \* bound: commands given
    MaxFaults   \* bound: database errors and crashes

Gone     == "gone"       \* no file, or no row
Nowhere  == "nowhere"
Contents == Texts \cup {Gone}

IndexAssumption == /\ Marked \subseteq Texts /\ Gone \notin Texts /\ Nowhere \notin Files
                   /\ {MaxWrites, MaxManual, MaxFaults} \subseteq Nat

Threads == {"main", "watcher", "command"}

VARIABLES
    disk,     \* the files
    chunks,   \* memory_chunks of each
    ledger,   \* memory_files: the content hash of each
    claim,    \* kb_claims: the page of the claim
    pinned,   \* memory_pins
    shadow,   \* the scratch tables of a forced rebuild
    work,     \* where each thread is, and its locals
    phase,    \* of the program
    watching, \* the observer runs
    pending,  \* the watcher's debounce table has the agent
    writes, manual, faults,
    spoilt,   \* history: files last indexed by two threads at a time, or not to the end
    missed,   \* history: a change nobody was told of, or a reconcile that failed, and no
              \* reconcile begun since
    stray     \* history: files whose claims a forced rebuild left behind or ran ahead of

index   == <<chunks, ledger, claim, pinned, shadow>>
program == <<phase, watching, pending>>
bounds  == <<writes, manual, faults>>
history == <<spoilt, missed, stray>>
vars    == <<disk, index, work, program, bounds, history>>

Nothing == [f \in Files |-> Gone]
Idle == [at |-> "idle", op |-> "none", snap |-> Nothing, todo |-> {}, file |-> Nowhere]

Init ==
    /\ disk = Nothing /\ chunks = [f \in Files |-> <<>>] /\ ledger = Nothing
    /\ claim = Nowhere /\ pinned = {} /\ shadow = chunks
    /\ work = [t \in Threads |-> Idle]
    /\ phase = "starting" /\ watching = FALSE /\ pending = FALSE
    /\ writes = 0 /\ manual = 0 /\ faults = 0
    /\ spoilt = {} /\ missed = FALSE /\ stray = {}

At(t, label)   == work[t].at = label
Move(t, label) == work' = [work EXCEPT ![t].at = label]
Page(t) == work[t].file                 \* the file the thread is indexing
Text(t) == work[t].snap[Page(t)]        \* what it read in it
Alone(t, f) == \A u \in Threads \ {t} : Page(u) # f

\* The thread takes its next file, those that vanished first, or is done.
Take(t, locals) ==
    LET vanished == {f \in locals.todo : locals.snap[f] = Gone}
    IN  IF locals.todo = {}
        THEN work' = [work EXCEPT ![t] = Idle] /\ UNCHANGED <<spoilt, stray>>
        ELSE \E f \in IF vanished = {} THEN locals.todo ELSE vanished :
               /\ work' = [work EXCEPT ![t] = [locals EXCEPT !.at = "delete", !.file = f,
                                                             !.todo = @ \ {f}]]
               /\ spoilt' = IF Alone(t, f) THEN spoilt \ {f} ELSE spoilt \cup {f}
               /\ stray' = IF At("command", "build") THEN stray \cup {f} ELSE stray \ {f}

----------------------------------------------------------------------------
(* reindex_file and remove_file, statement by statement.                    *)

DeleteChunks(t) ==
    /\ At(t, "delete")
    /\ chunks' = [chunks EXCEPT ![Page(t)] = <<>>]
    /\ Move(t, IF Text(t) = Gone THEN "ledger" ELSE "insert")
    /\ UNCHANGED <<disk, ledger, claim, pinned, shadow, program, bounds, history>>

InsertChunks(t) ==
    /\ At(t, "insert")
    /\ chunks' = [chunks EXCEPT ![Page(t)] = Append(@, Text(t))]
    /\ Move(t, "ledger")
    /\ UNCHANGED <<disk, ledger, claim, pinned, shadow, program, bounds, history>>

\* The hash by which reconcile will skip the file.  A thread that read the file
\* before its last change puts the older one back.
WriteLedger(t) ==
    /\ At(t, "ledger")
    /\ ledger' = [ledger EXCEPT ![Page(t)] = Text(t)]
    /\ Move(t, IF Text(t) = Gone THEN "unpin" ELSE "claims")
    /\ missed' = (missed \/ (Text(t) # disk[Page(t)] /\ ~pending))
    /\ UNCHANGED <<disk, chunks, claim, pinned, shadow, program, bounds, spoilt, stray>>

Unpin(t) ==
    /\ At(t, "unpin")
    /\ pinned' = pinned \ {Page(t)}
    /\ Move(t, "claims")
    /\ UNCHANGED <<disk, chunks, ledger, claim, shadow, program, bounds, history>>

\* Claims no longer marked in the page leave the table with their evidence;
\* those marked in it are its own from now on, whichever page had them.
ClaimAfter(f, text) ==
    IF text \in Marked THEN f ELSE IF claim = f THEN Nowhere ELSE claim

\* The last thing done for a file; the statements of _sync_claims are one step.
SyncClaims(t) ==
    /\ At(t, "claims")
    /\ claim' = ClaimAfter(Page(t), Text(t))
    /\ Take(t, [work[t] EXCEPT !.file = Nowhere])
    /\ UNCHANGED <<disk, chunks, ledger, pinned, shadow, program, bounds, missed>>

----------------------------------------------------------------------------
(* reconcile_agent: the files are listed, then the ledger is read.          *)

List(t, op) ==
    /\ At(t, "idle")
    /\ work' = [work EXCEPT ![t] = [Idle EXCEPT !.at = "listed", !.op = op, !.snap = disk]]
    /\ missed' = FALSE

DiffersOnDisk(t) == {f \in Files : work[t].snap[f] \notin {ledger[f], Gone}}
Differs(t) == {f \in Files : work[t].snap[f] # ledger[f]}

\* What differs is indexed again, what vanished is removed, the rest skipped.
ReadLedger(t) ==
    /\ At(t, "listed")
    /\ work[t].op # "force"
    /\ Take(t, [work[t] EXCEPT !.todo = Differs(t)])
    /\ UNCHANGED <<disk, index, program, bounds, missed>>

Startup ==
    /\ phase = "starting"
    /\ List("main", "startup")
    /\ phase' = "reconciling"
    /\ UNCHANGED <<disk, index, watching, pending, bounds, spoilt, stray>>

\* The observer starts after the catch-up, if watchdog is installed.
StartWatcher ==
    /\ phase = "reconciling" /\ At("main", "idle")
    /\ phase' = "serving"
    /\ watching' \in BOOLEAN
    /\ UNCHANGED <<disk, index, work, pending, bounds, history>>

\* The debounce window elapsed: the agent leaves the table, then is reconciled.
WatcherReconcile ==
    /\ watching /\ pending
    /\ pending' = FALSE
    /\ List("watcher", "reconcile")
    /\ UNCHANGED <<disk, index, phase, watching, bounds, spoilt, stray>>

Command(op) ==
    /\ manual < MaxManual /\ manual' = manual + 1
    /\ List("command", op)
    /\ UNCHANGED <<disk, index, program, writes, faults, spoilt, stray>>

Reindex == Command("reindex")

----------------------------------------------------------------------------
(* force_rebuild_agent: the new index is built aside and swapped in.        *)

ForceReindex == Command("force")

ClearShadow ==
    /\ At("command", "listed") /\ work["command"].op = "force"
    /\ shadow' = [f \in Files |-> <<>>]
    /\ work' = [work EXCEPT !["command"].at = "build", !["command"].todo = Files]
    /\ stray' = stray \cup {f \in Files : ~Alone("command", f)}
    /\ UNCHANGED <<disk, chunks, ledger, claim, pinned, program, bounds, spoilt, missed>>

\* Claims are synced here, outside the transaction of the swap.
BuildShadow(f) ==
    LET text == work["command"].snap[f] IN
    /\ At("command", "build") /\ f \in work["command"].todo
    /\ work' = [work EXCEPT !["command"].todo = @ \ {f}]
    /\ IF text = Gone
       THEN UNCHANGED <<shadow, claim, stray>>
       ELSE /\ shadow' = [shadow EXCEPT ![f] = Append(@, text)]
            /\ claim' = ClaimAfter(f, text)
            /\ stray' = IF text = ledger[f] THEN stray ELSE stray \cup {f}
    /\ UNCHANGED <<disk, chunks, ledger, pinned, program, bounds, spoilt, missed>>

SwapOnto ==
    /\ chunks' = [f \in Files |-> chunks[f] \o shadow[f]]
    /\ ledger' = work["command"].snap
SwapInto ==
    /\ chunks' = shadow
    /\ ledger' = work["command"].snap

\* Who indexes a file at the time mixes its rows with the new ones.
Swap ==
    /\ At("command", "build") /\ work["command"].todo = {}
    /\ SwapInto
    /\ Move("command", "swapped")
    /\ spoilt' = {f \in Files : ~Alone("command", f)}
    /\ missed' = (missed \/ (work["command"].snap # disk /\ ~pending))
    /\ stray' = stray \cup spoilt \cup {f \in Files : work["command"].snap[f] = Gone /\ ledger[f] # Gone}
    /\ UNCHANGED <<disk, claim, pinned, shadow, program, bounds>>

EmptyShadow ==
    /\ At("command", "swapped")
    /\ shadow' = [f \in Files |-> <<>>]
    /\ work' = [work EXCEPT !["command"] = Idle]
    /\ UNCHANGED <<disk, chunks, ledger, claim, pinned, program, bounds, history>>

----------------------------------------------------------------------------
(* Changes of the files, and the pins.                                      *)

Change(f, text) ==
    /\ writes < MaxWrites /\ writes' = writes + 1
    /\ text # disk[f]
    /\ disk' = [disk EXCEPT ![f] = text]

\* The observer notices every change, the program's own included.
Notice == pending' = (pending \/ watching)

\* An editor, or another process.
Edit(f, text) ==
    /\ Change(f, text) /\ Notice
    /\ missed' = (missed \/ ~(watching \/ phase = "starting"))
    /\ UNCHANGED <<index, work, phase, watching, manual, faults, spoilt, stray>>

\* MemoryService.remember and delete: the file, then its place in the index.
AgentWrite(f, text) ==
    /\ phase = "serving" /\ At("main", "idle")
    /\ Change(f, text) /\ Notice
    /\ work' = [work EXCEPT !["main"] = [Idle EXCEPT !.at = "sync", !.op = "write",
                                                     !.snap[f] = text, !.todo = {f}]]
    /\ UNCHANGED <<index, phase, watching, manual, faults, history>>

SyncIndex ==
    /\ At("main", "sync")
    /\ Take("main", work["main"])
    /\ UNCHANGED <<disk, index, program, bounds, missed>>

\* The note is looked up in the files, then pinned in the index.
Pin(f) ==
    /\ At("command", "idle") /\ disk[f] # Gone
    /\ manual < MaxManual /\ manual' = manual + 1
    /\ work' = [work EXCEPT !["command"] = [Idle EXCEPT !.at = "pin", !.todo = {f}]]
    /\ UNCHANGED <<disk, index, program, writes, faults, history>>

PinRow ==
    /\ At("command", "pin")
    /\ pinned' = pinned \cup work["command"].todo
    /\ work' = [work EXCEPT !["command"] = Idle]
    /\ UNCHANGED <<disk, chunks, ledger, claim, shadow, program, bounds, history>>

----------------------------------------------------------------------------
(* Faults.                                                                  *)

\* The thread's file is left half indexed: in its chunks, or, once the ledger
\* has its hash, in its pin and claims.
LeftHalf(t) == {Page(t)} \ {Nowhere}

Fault == faults < MaxFaults /\ faults' = faults + 1

\* The database refuses a statement.  The write on disk stands; the watcher has
\* already forgotten the agent; nobody tries again.
Fail(t) ==
    /\ ~At(t, "idle") /\ phase # "reconciling"
    /\ Fault
    /\ spoilt' = spoilt \cup LeftHalf(t)
    /\ missed' = (missed \/ work[t].op = "reconcile" \/ (~pending /\ ledger # disk))
    /\ work' = [work EXCEPT ![t] = Idle]
    /\ UNCHANGED <<disk, index, program, writes, manual, stray>>

\* The program dies, as it also does of a failed catch-up, and is started again.
Crash ==
    /\ Fault
    /\ phase' = "starting" /\ watching' = FALSE /\ pending' = FALSE
    /\ spoilt' = spoilt \cup LeftHalf("main") \cup LeftHalf("watcher")
    /\ work' = [work EXCEPT !["main"] = Idle, !["watcher"] = Idle]
    /\ UNCHANGED <<disk, index, writes, manual, missed, stray>>

Work(t) ==
    \/ DeleteChunks(t) \/ InsertChunks(t) \/ WriteLedger(t) \/ Unpin(t) \/ SyncClaims(t)
    \/ ReadLedger(t)

Force == ClearShadow \/ (\E f \in Files : BuildShadow(f)) \/ Swap \/ EmptyShadow

Next ==
    \/ \E t \in Threads : Work(t) \/ Fail(t)
    \/ Startup \/ StartWatcher \/ WatcherReconcile
    \/ Reindex \/ ForceReindex \/ Force
    \/ \E f \in Files : Pin(f) \/ \E text \in Contents : Edit(f, text) \/ AgentWrite(f, text)
    \/ SyncIndex \/ PinRow \/ Crash

\* Every thread goes on; the debounce window elapses; the program is started.
Fairness ==
    /\ \A t \in Threads : WF_vars(Work(t))
    /\ WF_vars(Startup) /\ WF_vars(StartWatcher) /\ WF_vars(WatcherReconcile)
    /\ WF_vars(Force) /\ WF_vars(SyncIndex) /\ WF_vars(PinRow)

Spec == Init /\ [][Next]_vars /\ Fairness

----------------------------------------------------------------------------
\* Types of the tables and of the threads' locals.
TypeOK ==
    /\ {disk, ledger} \subseteq [Files -> Contents]
    /\ {chunks, shadow} \subseteq [Files -> Seq(Texts)]
    /\ claim \in Files \cup {Nowhere} /\ pinned \subseteq Files
    /\ \A t \in Threads :
         /\ work[t].snap \in [Files -> Contents] /\ work[t].todo \subseteq Files
         /\ Page(t) \in Files \cup {Nowhere}
         /\ At(t, "delete") \/ At(t, "insert") \/ At(t, "ledger") \/ At(t, "unpin")
              \/ At(t, "claims") <=> Page(t) # Nowhere
         /\ At(t, "insert") => Text(t) # Gone
    /\ phase \in {"starting", "reconciling", "serving"}
    /\ {watching, pending, missed} \subseteq BOOLEAN
    /\ writes \in 0..MaxWrites /\ manual \in 0..MaxManual /\ faults \in 0..MaxFaults
    /\ spoilt \subseteq Files /\ stray \subseteq Files

Untouched(f) == \A t \in Threads : Page(t) # f

\* The chunks a row of the ledger vouches for.
ChunksOf(text) == IF text = Gone THEN <<>> ELSE <<text>>

\* "a crash partway through can leave an agent with a genuinely incomplete
\* index" - not so here: what reconcile will skip because its hash is in the
\* ledger has exactly the chunks of that text, however writes, reconciles, a
\* forced rebuild, errors and crashes followed each other, unless two threads
\* indexed the file at a time or one stopped in it.
LedgerVouchesForChunks ==
    \A f \in Files \ spoilt : Untouched(f) => chunks[f] = ChunksOf(ledger[f])

\* A claim is on a page whose indexed text marks it, unless a forced rebuild
\* left the page out or its indexing was spoilt.
ClaimIsMarkedOnItsPage ==
    claim \in Files \ (spoilt \cup stray) /\ Untouched(claim) => ledger[claim] \in Marked

\* The index ends up as the files are, unless a change was missed for good.
EventuallyIndexed == <>[](missed \/ ledger = disk)
============================================================================
