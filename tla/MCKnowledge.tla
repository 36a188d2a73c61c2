---------------------------- MODULE MCKnowledge ----------------------------
(***************************************************************************)
(* What an agent knows and what it may do: the gate before its tools, its  *)
(* claims, the search of its memory and the migration of its notes.  The   *)
(* parts share no state, so that one run explores them one at a time: part *)
(* says which moves, and the others stay where they begin.                 *)
(***************************************************************************)
EXTENDS ToolGate, TLC

CONSTANTS main, worker, list, fetch, note, memory, goal, quarantined, chat, paper,
          NotePages, Sources, Drafts, MaxMarkers, MaxDigest,
          Indexed, Kind, MaxResults, MaxTouched,
          NumNotes, Texts, Torn, Absent, MaxRuns, MaxEdits

MCAgents == {main, worker}
MCCommands == {list, fetch}

VARIABLES
  part,
  page, claims, pc, source, listed, todo, content, disturbed,
  chunk, ledger, job, pins, corpus, at, rows, pinned, result, wanted, touched, unchecked,
  legacy, dest, step, review, upto, run, existed, backups, entries, manifests,
  undoing, before, since, edits

claimVars == <<page, claims, pc, source, listed, todo, content, disturbed>>
searchVars == <<chunk, ledger, job, pins, corpus, at, rows, pinned, result, wanted,
                touched, unchecked>>
moveVars == <<legacy, dest, step, review, upto, run, existed, backups, entries,
               manifests, undoing, before, since, edits>>

Marker(id, state, evidence, contradicts, flagged) ==
  [id |-> id, status |-> state, evidence |-> evidence,
   contradicts |-> contradicts, flagged |-> flagged]

MCNotePages == {note}
MCSources == {chat, paper}
MCDrafts ==
  {Marker("c1", "supported", {chat, paper}, {}, TRUE),
   Marker("c2", "contested", {chat}, {"c1"}, FALSE),
   Marker("c1", "contested", {paper}, {}, FALSE)}

MCKind == note :> "durable" @@ goal :> "durable" @@ quarantined :> "import"
MCIndexed == DOMAIN MCKind

Claims == INSTANCE ClaimBook WITH
  Pages <- NotePages, MemoryPage <- memory, file <- page
Search == INSTANCE Recall WITH
  Pages <- Indexed, pc <- at, asked <- wanted
Migration == INSTANCE NotesMigration WITH pc <- step, plan <- review, at <- upto

ASSUME Assumptions ==
  Claims!ClaimAssumption /\ Search!RecallAssumption /\ Migration!MigrationAssumption
-----------------------------------------------------------------------------
\* The migration's and the search's initial states differ only where they move.
MCInit ==
  /\ part \in {"gate", "claims", "search", "migration"}
  /\ Init /\ Claims!Init /\ Search!Init /\ Migration!Init
  /\ part = "search" \/ (pins = {} /\ \A p \in DOMAIN ledger : ledger[p] = "open")
  /\ part = "migration" \/ (legacy = dest /\ \A n \in DOMAIN legacy : legacy[n] = Absent)

MCNext ==
  /\ UNCHANGED part
  /\ \/ /\ part = "gate" /\ Next
        /\ UNCHANGED <<claimVars, searchVars, moveVars>>
     \/ /\ part = "claims" /\ Claims!Next
        /\ UNCHANGED <<vars, searchVars, moveVars>>
     \/ /\ part = "search" /\ Search!Next
        /\ UNCHANGED <<vars, claimVars, moveVars>>
     \/ /\ part = "migration" /\ Migration!Next
        /\ UNCHANGED <<vars, claimVars, searchVars>>

mcVars == <<part, vars, claimVars, searchVars, moveVars>>
MCSpec == MCInit /\ [][MCNext]_mcVars
-----------------------------------------------------------------------------
(* The properties of the parts, as their modules state them. *)

\* What forget_source forgot is forgotten in the notes and in the tables, and no
\* claim in doubt is missing from both the digest and the dashboards.
ClaimsAreAccountedFor == Claims!ForgottenIsForgotten /\ Claims!NothingIsHidden
\* Search shows what has been reviewed and is in force, and the pins.
SearchIsSound == Search!ReviewedAndInForce /\ Search!PinsAreShown
\* A rollback restores what the run replaced.
RollbackIsExact == Migration!RollbackIsExact
=============================================================================
