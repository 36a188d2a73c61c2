--------------------------- MODULE NotesMigration ---------------------------
(***************************************************************************)
(* memory/migration.py: merging the legacy notes of an agent into its      *)
(* workspace, by the command "memory migrate [--apply | --rollback M]".    *)
(* The command is a process of its own, one at a time; the program may run *)
(* beside it and write the same files, and the command may be stopped      *)
(* between any two steps.  A copy is not atomic: a stop in the middle of   *)
(* one leaves a torn file.  The backup directory is named by the second in *)
(* which a run starts; two runs are assumed to be a second apart.          *)
(***************************************************************************)
EXTENDS Integers

CONSTANTS NumNotes,  \* the notes, numbered in the order of their keys
          Texts,     \* what a note or a file can hold
          Torn,      \* what a copy that was cut short leaves
          Absent,
          MaxRuns,   \* bound: runs of --apply
          MaxEdits   \* bound: writes of the program to a destination

MigrationAssumption ==
    /\ NumNotes \in Nat /\ MaxRuns \in Nat /\ MaxEdits \in Nat
    /\ Absent \notin Texts /\ Torn \notin Texts \cup {Absent}

Notes == 1..NumNotes
Runs == 1..MaxRuns
Files == Texts \cup {Torn, Absent}

VARIABLES legacy,    \* note |-> text under memory/{agent}/
          dest,      \* note |-> what its destination holds
          pc,        \* "idle", "look", "backup", "copy", "torn", "undo"
          plan,      \* note |-> classification in the plan being applied
          at,        \* the note the command is at
          run,       \* runs of --apply so far; the last one's backup directory
          existed,   \* existed_before of the note it is at
          backups,   \* run |-> note |-> copy of the destination
          entries,   \* the manifest entries gathered: note |-> entry
          manifests, \* run |-> the manifest on disk (no entries: none)
          undoing,   \* the run a rollback undoes
          before,    \* run |-> note |-> destination when the run got to it
          since,     \* run |-> notes written by others after it got to them
          edits
vars == <<legacy, dest, pc, plan, at, run, existed, backups, entries, manifests,
          undoing, before, since, edits>>

NoEntries == [n \in Notes |-> "none"]

TypeOK == /\ legacy \in [Notes -> Texts \cup {Absent}] /\ dest \in [Notes -> Files]
          /\ pc \in {"idle", "look", "copy", "torn", "undo"}
          /\ plan \in [Notes -> {"migrate", "unchanged", "conflict", "none"}]
          /\ at \in 1..(NumNotes + 1) /\ run \in 0..MaxRuns
          /\ existed \in BOOLEAN
          /\ backups \in [Runs -> [Notes -> Files]]
          /\ entries \in [Notes -> {"none", "created", "replaced"}]
          /\ undoing \in 0..MaxRuns
          /\ since \in [Runs -> SUBSET Notes] /\ edits \in 0..MaxEdits

Init == /\ legacy \in [Notes -> Texts \cup {Absent}]
        /\ dest \in [Notes -> Texts \cup {Absent}]
        /\ pc = "idle" /\ plan = NoEntries /\ at = 1 /\ run = 0
        /\ existed = FALSE
        /\ backups = [r \in Runs |-> [n \in Notes |-> Absent]]
        /\ entries = NoEntries
        /\ manifests = [r \in Runs |-> NoEntries]
        /\ undoing = 0
        /\ before = [r \in Runs |-> [n \in Notes |-> Absent]]
        /\ since = [r \in Runs |-> {}] /\ edits = 0

\* A note is classified by what its destination holds at planning time.
Classify(n) == IF legacy[n] = Absent         THEN "none"
               ELSE IF dest[n] = Absent      THEN "migrate"
               ELSE IF dest[n] = legacy[n]   THEN "unchanged"
               ELSE "conflict"

\* --apply: the plan is printed, then the run starts with its own directory.
Apply ==
    /\ pc = "idle" /\ run < MaxRuns
    /\ plan' = [n \in Notes |-> Classify(n)]
    /\ run' = run + 1 /\ at' = 1 /\ entries' = NoEntries
    /\ pc' = "look"
    /\ UNCHANGED <<legacy, dest, existed, backups, manifests, undoing, before,
                   since, edits>>

Done == at > NumNotes

\* Conflicts, unchanged notes (and absent ones) are passed over.
PassOver ==
    /\ pc = "look" /\ ~Done /\ plan[at] # "migrate"
    /\ at' = at + 1
    /\ UNCHANGED <<legacy, dest, pc, plan, run, existed, backups, entries,
                   manifests, undoing, before, since, edits>>

\* Whether the destination exists is looked at again, and a copy is kept of
\* one that has appeared since the plan.
Look(exists) ==
    /\ pc = "look" /\ ~Done /\ plan[at] = "migrate"
    /\ existed' = exists
    /\ backups' = IF exists THEN [backups EXCEPT ![run][at] = dest[at]]
                            ELSE backups
    /\ before' = [before EXCEPT ![run][at] = dest[at]]
    /\ pc' = "copy"
    /\ UNCHANGED <<legacy, dest, plan, at, run, entries, manifests, undoing,
                   since, edits>>

LookByPlan == Look(FALSE)
LookAgain == Look(dest[at] # Absent)

\* A file that these runs got to is written again.
Written(n, runs) ==
    [r \in Runs |-> IF r \in runs THEN since[r] \cup {n} ELSE since[r]]

\* shutil.copy2, which truncates the destination first.
CopyBegins ==
    /\ pc = "copy"
    /\ dest' = [dest EXCEPT ![at] = Torn]
    /\ since' = Written(at, 1..(run - 1))
    /\ pc' = "torn"
    /\ UNCHANGED <<legacy, plan, at, run, existed, backups, entries, manifests,
                   undoing, before, edits>>

CopyEnds ==
    /\ pc = "torn"
    /\ dest' = [dest EXCEPT ![at] = legacy[at]]
    /\ entries' = [entries EXCEPT ![at] = IF existed THEN "replaced" ELSE "created"]
    /\ at' = at + 1 /\ pc' = "look"
    /\ UNCHANGED <<legacy, plan, run, existed, backups, manifests, undoing,
                   before, since, edits>>

\* The manifest is written once, after the last copy, and only if it has an
\* entry.
WriteManifest ==
    /\ pc = "look" /\ Done
    /\ manifests' = [manifests EXCEPT ![run] = entries]
    /\ pc' = "idle" /\ at' = 1 /\ plan' = NoEntries /\ entries' = NoEntries
    /\ existed' = FALSE
    /\ UNCHANGED <<legacy, dest, run, backups, undoing, before, since, edits>>

\* --rollback of a manifest, entry by entry; the manifest stays on disk.
Rollback(r) ==
    /\ pc = "idle" /\ manifests[r] # NoEntries
    /\ undoing' = r /\ at' = 1 /\ pc' = "undo"
    /\ UNCHANGED <<legacy, dest, plan, run, existed, backups, entries, manifests,
                   before, since, edits>>

\* An entry with a backup is copied back, one without is unlinked.
Restored == CASE manifests[undoing][at] = "replaced" -> backups[undoing][at]
              [] manifests[undoing][at] = "created"  -> Absent
              [] manifests[undoing][at] = "none"     -> dest[at]

Undo ==
    /\ pc = "undo" /\ ~Done
    /\ dest' = [dest EXCEPT ![at] = Restored]
    /\ since' = Written(at, IF manifests[undoing][at] = "none" THEN {}
                                                             ELSE Runs \ {undoing})
    /\ at' = at + 1
    /\ UNCHANGED <<legacy, pc, plan, run, existed, backups, entries, manifests,
                   undoing, before, edits>>

Undone ==
    /\ pc = "undo" /\ Done
    /\ pc' = "idle" /\ at' = 1 /\ undoing' = 0
    /\ UNCHANGED <<legacy, dest, plan, run, existed, backups, entries, manifests,
                   before, since, edits>>

\* The command is stopped: what it had gathered in memory is gone.
Stopped ==
    /\ pc # "idle"
    /\ pc' = "idle" /\ at' = 1 /\ plan' = NoEntries /\ entries' = NoEntries
    /\ undoing' = 0 /\ existed' = FALSE
    /\ UNCHANGED <<legacy, dest, run, backups, manifests, before, since, edits>>

\* The program writes or removes a destination file, at any moment: for every
\* run that got to that file before, it is a later change.
GotTo(r, n) == r < run \/ (r = run /\ (pc \in {"idle", "undo"} \/ at > n
                                         \/ (at = n /\ pc # "look")))

Edit(n, text) ==
    /\ edits < MaxEdits /\ edits' = edits + 1
    /\ dest' = [dest EXCEPT ![n] = text]
    /\ since' = Written(n, {r \in Runs : GotTo(r, n)})
    /\ UNCHANGED <<legacy, pc, plan, at, run, existed, backups, entries,
                   manifests, undoing, before>>

Next == \/ Apply \/ PassOver \/ LookAgain \/ CopyBegins \/ CopyEnds
        \/ WriteManifest \/ Undo \/ Undone \/ Stopped
        \/ \E r \in Runs : Rollback(r)
        \/ \E n \in Notes, text \in Texts \cup {Absent} : Edit(n, text)

Spec == Init /\ [][Next]_vars

(***************************************************************************)
(* Properties                                                              *)
(***************************************************************************)

\* Undoing a run that was not stopped gives every file it touched back as the
\* run found it, also one that had appeared after the plan was made, unless
\* somebody, a later run included, wrote the file since (rollback_migration:
\* "restoring the exact pre-apply state").
RollbackIsExact ==
    [][\A n \in Notes :
         (pc = "undo" /\ Done /\ pc' = "idle" /\ n \notin since[undoing]
            /\ manifests[undoing][n] # "none")
           => dest[n] = before[undoing][n]]_vars
=============================================================================
