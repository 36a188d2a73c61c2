-------------------------- MODULE Sessions_proofs --------------------------
(***************************************************************************)
(* Theorems about the deletion of a session, for any proposals, faults,    *)
(* passes and claims: what is recorded as gone is gone and stays so.  And  *)
(* about an agent's turns, for any turns, rounds, calls, windows, retries, *)
(* commands, interrupts and crashes: requests pair calls with results,     *)
(* answers are on file, failures are rolled back.  And about the mirror of *)
(* a transcript, for any messages, faults and crashes: copies agree on     *)
(* ids, second rows need faults, a startup completes the mirror.           *)
(***************************************************************************)
EXTENDS MCSessions, SequenceTheorems, FiniteSetTheorems, TLAPS

(* The deletion of a session. *)

AfterJsonl == RowPhase \cup {"forget", "mark_evidence"}
Undisturbed == ~spoiled /\ ~revived

\* Each phase has the earlier ones on record, and the first has a tombstone.
RecordInv ==
  /\ RecordIsDurable
  /\ pc["command"] \in {"unlink", "mark_jsonl"} => tomb
  /\ pc["retry"] \notin {"unlink", "mark_jsonl"}
  /\ \A d \in Deleters : pc[d] \in AfterJsonl => "jsonl" \in done
  /\ \A d \in Deleters : pc[d] \in {"forget", "mark_evidence"} => "db" \in done

\* Foreign keys and the cascade: without the session there are no rows.
RowsNeedSession == ~session => ~messages /\ job = "none" /\ proposals = {}

\* Unless a pass brought them back, the file is gone after the first phase and
\* the session at the end of the second.
GoneInOrder == ~revived =>
  /\ "jsonl" \in done \/ pc["command"] = "mark_jsonl" => ~file
  /\ pc["command"] \in {"unlink", "mark_jsonl"} => "jsonl" \notin done
  /\ "db" \in done \/ (\E d \in Deleters : pc[d] = "mark_db") => ~session

\* One deleter at a time is in an undisturbed database phase, which is then not
\* on record, finds the session, and has no worker beside it.
OneRowPhase == Undisturbed =>
  /\ ~(pc["command"] \in RowPhase /\ pc["retry"] \in RowPhase)
  /\ \A d \in Deleters : pc[d] \in RowPhase => "db" \notin done
  /\ ~session => "db" \in done \/ \E d \in Deleters : pc[d] = "mark_db"
  /\ "db" \in done \/ (\E d \in Deleters : pc[d] \in RowPhase \ {"owned"}) => worker = "idle"

\* Where the ids of what is still indexed are: with the rows, then with the
\* deleter, then on the tombstone as well.
Holding == {"proposals", "jobs", "session", "mark_db"}
IdsAreKept == Undisturbed =>
  /\ "db" \notin done /\ (\A d \in Deleters : pc[d] \notin Holding) =>
       indexed \subseteq proposals /\ (worker = "finishing" => fresh \in proposals)
  /\ \A d \in Deleters : pc[d] \in Holding \cup {"forget"} => indexed \subseteq found[d]
  /\ "db" \in done => indexed \subseteq kept
  /\ Completed \/ (\E d \in Deleters : pc[d] = "mark_evidence") => indexed = {}

\* A proposal about to be indexed has an id.
FreshIsGiven == worker = "finishing" => fresh # 0

IInv == /\ TypeOK /\ FreshIsGiven /\ RecordInv /\ RowsNeedSession /\ GoneInOrder
        /\ OneRowPhase /\ IdsAreKept

\* The session with its file, rows and chunks.
LEMMA InitIInv == Init => IInv
<1> SUFFICES ASSUME Init PROVE IInv
  OBVIOUS
<1>1. TypeOK
  <2>1. given \in Nat /\ given <= MaxProposals /\ proposals = 1..given /\ indexed = 1..given
    BY DeletionAssumption DEF Init
  <2>2. {file, session, messages, tomb, revived, spoiled} \subseteq BOOLEAN
    BY DEF Init
  <2> QED
    BY <2>1, <2>2, DeletionAssumption DEF Init, TypeOK, Deleters
<1>2. RecordInv /\ RowsNeedSession /\ GoneInOrder /\ FreshIsGiven
  BY
  DEF Init, RecordInv, RecordIsDurable, AfterJsonl, RowPhase, Deleters, RowsNeedSession,
      GoneInOrder,
     FreshIsGiven
<1>3. OneRowPhase /\ IdsAreKept
  BY DEF Init, OneRowPhase, IdsAreKept, Holding, Completed, RowPhase, Deleters
<1> QED
  BY <1>1, <1>2, <1>3 DEF IInv

\* The two callers and what they share.
LEMMA DeleterFacts ==
  Deleters = {"command", "retry"} /\ "command" \in Deleters /\ "retry" \in Deleters
  BY DEF Deleters

\* The statements of the command, the retry, the worker and the reconciler.
LEMMA NextIInv == IInv /\ [Next]_vars => IInv'
<1> SUFFICES ASSUME IInv, [Next]_vars PROVE IInv'
  OBVIOUS
<1> USE DeletionAssumption, DeleterFacts DEF IInv, rows, record, others
<1>1. CASE StartDeletion
  <2> USE <1>1 DEF StartDeletion, Goto
  <2>1. TypeOK'
    BY DEF TypeOK, RowPhase, Phases, FreshIsGiven
  <2> USE DEF TypeOK
  <2>2. RecordInv' /\ FreshIsGiven'
    BY DEF FreshIsGiven, RecordInv, RecordIsDurable, AfterJsonl, RowPhase
  <2>3. RowsNeedSession' /\ GoneInOrder'
    BY DEF RowsNeedSession, GoneInOrder, RecordInv, RecordIsDurable, AfterJsonl, RowPhase
  <2>4. OneRowPhase'
    BY
    DEF OneRowPhase, Undisturbed, GoneInOrder, RecordInv, RecordIsDurable, AfterJsonl, RowPhase,
        RowsNeedSession
  <2>5. IdsAreKept'
    BY
    DEF IdsAreKept, OneRowPhase, Undisturbed, Holding, RowPhase, Completed, RecordInv,
        RecordIsDurable, AfterJsonl, GoneInOrder
  <2> QED
    BY <2>1, <2>2, <2>3, <2>4, <2>5
<1>2. CASE UnlinkFile
  <2> USE <1>2 DEF UnlinkFile, Goto
  <2>1. TypeOK'
    BY DEF TypeOK, RowPhase, Phases, FreshIsGiven
  <2> USE DEF TypeOK
  <2>2. RecordInv' /\ FreshIsGiven'
    BY DEF FreshIsGiven, RecordInv, RecordIsDurable, AfterJsonl, RowPhase
  <2>3. RowsNeedSession' /\ GoneInOrder'
    BY DEF RowsNeedSession, GoneInOrder, RecordInv, RecordIsDurable, AfterJsonl, RowPhase
  <2>4. OneRowPhase'
    BY
    DEF OneRowPhase, Undisturbed, GoneInOrder, RecordInv, RecordIsDurable, AfterJsonl, RowPhase,
        RowsNeedSession
  <2>5. IdsAreKept'
    BY
    DEF IdsAreKept, OneRowPhase, Undisturbed, Holding, RowPhase, Completed, RecordInv,
        RecordIsDurable, AfterJsonl, GoneInOrder
  <2> QED
    BY <2>1, <2>2, <2>3, <2>4, <2>5
<1>3. CASE MarkJsonlDone
  <2> USE <1>3 DEF MarkJsonlDone, Goto
  <2>1. TypeOK'
    BY DEF TypeOK, RowPhase, Phases, FreshIsGiven
  <2> USE DEF TypeOK
  <2>2. RecordInv' /\ FreshIsGiven'
    BY DEF FreshIsGiven, RecordInv, RecordIsDurable, AfterJsonl, RowPhase
  <2>3. RowsNeedSession' /\ GoneInOrder'
    BY DEF RowsNeedSession, GoneInOrder, RecordInv, RecordIsDurable, AfterJsonl, RowPhase
  <2>4. OneRowPhase'
    BY
    DEF OneRowPhase, Undisturbed, GoneInOrder, RecordInv, RecordIsDurable, AfterJsonl, RowPhase,
        RowsNeedSession
  <2>5. IdsAreKept'
    BY
    DEF IdsAreKept, OneRowPhase, Undisturbed, Holding, RowPhase, Completed, RecordInv,
        RecordIsDurable, AfterJsonl, GoneInOrder
  <2> QED
    BY <2>1, <2>2, <2>3, <2>4, <2>5
<1>4. CASE LeaveEvidence
  <2> USE <1>4 DEF LeaveEvidence, Goto
  <2>1. TypeOK'
    BY DEF TypeOK, RowPhase, Phases, FreshIsGiven
  <2> USE DEF TypeOK
  <2>2. RecordInv' /\ FreshIsGiven'
    BY DEF FreshIsGiven, RecordInv, RecordIsDurable, AfterJsonl, RowPhase
  <2>3. RowsNeedSession' /\ GoneInOrder'
    BY DEF RowsNeedSession, GoneInOrder, RecordInv, RecordIsDurable, AfterJsonl, RowPhase
  <2>4. OneRowPhase'
    BY
    DEF OneRowPhase, Undisturbed, GoneInOrder, RecordInv, RecordIsDurable, AfterJsonl, RowPhase,
        RowsNeedSession
  <2>5. IdsAreKept'
    BY
    DEF IdsAreKept, OneRowPhase, Undisturbed, Holding, RowPhase, Completed, RecordInv,
        RecordIsDurable, AfterJsonl, GoneInOrder
  <2> QED
    BY <2>1, <2>2, <2>3, <2>4, <2>5
<1>5. CASE StartRetry
  <2> USE <1>5 DEF StartRetry, Goto, InRowPhase
  <2>1. TypeOK'
    BY DEF TypeOK, RowPhase, Phases, FreshIsGiven
  <2> USE DEF TypeOK
  <2>2. RecordInv' /\ FreshIsGiven'
    BY DEF FreshIsGiven, RecordInv, RecordIsDurable, AfterJsonl, RowPhase
  <2>3. RowsNeedSession' /\ GoneInOrder'
    BY DEF RowsNeedSession, GoneInOrder, RecordInv, RecordIsDurable, AfterJsonl, RowPhase
  <2>4. OneRowPhase'
    BY
    DEF OneRowPhase, Undisturbed, GoneInOrder, RecordInv, RecordIsDurable, AfterJsonl, RowPhase,
        RowsNeedSession
  <2>5. IdsAreKept'
    BY
    DEF IdsAreKept, OneRowPhase, Undisturbed, Holding, RowPhase, Completed, RecordInv,
        RecordIsDurable, AfterJsonl, GoneInOrder
  <2> QED
    BY <2>1, <2>2, <2>3, <2>4, <2>5
<1>6. ASSUME NEW d \in Deleters, CheckOwned(d) PROVE IInv'
  <2> USE <1>6 DEF CheckOwned, Goto, Busy
  <2>1. TypeOK'
    BY DEF TypeOK, RowPhase, Phases, FreshIsGiven
  <2> USE DEF TypeOK
  <2>2. RecordInv' /\ FreshIsGiven'
    BY DEF FreshIsGiven, RecordInv, RecordIsDurable, AfterJsonl, RowPhase
  <2>3. RowsNeedSession' /\ GoneInOrder'
    BY DEF RowsNeedSession, GoneInOrder, RecordInv, RecordIsDurable, AfterJsonl, RowPhase
  <2>4. OneRowPhase'
    BY
    DEF OneRowPhase, Undisturbed, GoneInOrder, RecordInv, RecordIsDurable, AfterJsonl, RowPhase,
        RowsNeedSession
  <2>5. IdsAreKept'
    BY
    DEF IdsAreKept, OneRowPhase, Undisturbed, Holding, RowPhase, Completed, RecordInv,
        RecordIsDurable, AfterJsonl, GoneInOrder
  <2> QED
    BY <2>1, <2>2, <2>3, <2>4, <2>5
<1>7. ASSUME NEW d \in Deleters, DeleteMessages(d) PROVE IInv'
  <2> USE <1>7 DEF DeleteMessages, Goto
  <2>1. TypeOK'
    BY DEF TypeOK, RowPhase, Phases, FreshIsGiven
  <2> USE DEF TypeOK
  <2>2. RecordInv' /\ FreshIsGiven'
    BY DEF FreshIsGiven, RecordInv, RecordIsDurable, AfterJsonl, RowPhase
  <2>3. RowsNeedSession' /\ GoneInOrder'
    BY DEF RowsNeedSession, GoneInOrder, RecordInv, RecordIsDurable, AfterJsonl, RowPhase
  <2>4. OneRowPhase'
    BY
    DEF OneRowPhase, Undisturbed, GoneInOrder, RecordInv, RecordIsDurable, AfterJsonl, RowPhase,
        RowsNeedSession
  <2>5. IdsAreKept'
    BY
    DEF IdsAreKept, OneRowPhase, Undisturbed, Holding, RowPhase, Completed, RecordInv,
        RecordIsDurable, AfterJsonl, GoneInOrder
  <2> QED
    BY <2>1, <2>2, <2>3, <2>4, <2>5
<1>8. ASSUME NEW d \in Deleters, SelectProposals(d) PROVE IInv'
  <2> USE <1>8 DEF SelectProposals, Goto
  <2>1. TypeOK'
    BY DEF TypeOK, RowPhase, Phases, FreshIsGiven
  <2> USE DEF TypeOK
  <2>2. RecordInv' /\ FreshIsGiven'
    BY DEF FreshIsGiven, RecordInv, RecordIsDurable, AfterJsonl, RowPhase
  <2>3. RowsNeedSession' /\ GoneInOrder'
    BY DEF RowsNeedSession, GoneInOrder, RecordInv, RecordIsDurable, AfterJsonl, RowPhase
  <2>4. OneRowPhase'
    BY
    DEF OneRowPhase, Undisturbed, GoneInOrder, RecordInv, RecordIsDurable, AfterJsonl, RowPhase,
        RowsNeedSession
  <2>5. IdsAreKept'
    BY
    DEF IdsAreKept, OneRowPhase, Undisturbed, Holding, RowPhase, Completed, RecordInv,
        RecordIsDurable, AfterJsonl, GoneInOrder
  <2> QED
    BY <2>1, <2>2, <2>3, <2>4, <2>5
<1>9. ASSUME NEW d \in Deleters, DeleteProposals(d) PROVE IInv'
  <2> USE <1>9 DEF DeleteProposals, Goto
  <2>1. TypeOK'
    BY DEF TypeOK, RowPhase, Phases, FreshIsGiven
  <2> USE DEF TypeOK
  <2>2. RecordInv' /\ FreshIsGiven'
    BY DEF FreshIsGiven, RecordInv, RecordIsDurable, AfterJsonl, RowPhase
  <2>3. RowsNeedSession' /\ GoneInOrder'
    BY DEF RowsNeedSession, GoneInOrder, RecordInv, RecordIsDurable, AfterJsonl, RowPhase
  <2>4. OneRowPhase'
    BY
    DEF OneRowPhase, Undisturbed, GoneInOrder, RecordInv, RecordIsDurable, AfterJsonl, RowPhase,
        RowsNeedSession
  <2>5. IdsAreKept'
    BY
    DEF IdsAreKept, OneRowPhase, Undisturbed, Holding, RowPhase, Completed, RecordInv,
        RecordIsDurable, AfterJsonl, GoneInOrder
  <2> QED
    BY <2>1, <2>2, <2>3, <2>4, <2>5
<1>10. ASSUME NEW d \in Deleters, DeleteJobs(d) PROVE IInv'
  <2> USE <1>10 DEF DeleteJobs, Goto
  <2>1. TypeOK'
    BY DEF TypeOK, RowPhase, Phases, FreshIsGiven
  <2> USE DEF TypeOK
  <2>2. RecordInv' /\ FreshIsGiven'
    BY DEF FreshIsGiven, RecordInv, RecordIsDurable, AfterJsonl, RowPhase
  <2>3. RowsNeedSession' /\ GoneInOrder'
    BY DEF RowsNeedSession, GoneInOrder, RecordInv, RecordIsDurable, AfterJsonl, RowPhase
  <2>4. OneRowPhase'
    BY
    DEF OneRowPhase, Undisturbed, GoneInOrder, RecordInv, RecordIsDurable, AfterJsonl, RowPhase,
        RowsNeedSession
  <2>5. IdsAreKept'
    BY
    DEF IdsAreKept, OneRowPhase, Undisturbed, Holding, RowPhase, Completed, RecordInv,
        RecordIsDurable, AfterJsonl, GoneInOrder
  <2> QED
    BY <2>1, <2>2, <2>3, <2>4, <2>5
<1>11. ASSUME NEW d \in Deleters, DeleteSessionRow(d) PROVE IInv'
  <2> USE <1>11 DEF DeleteSessionRow, Goto
  <2>1. TypeOK'
    BY DEF TypeOK, RowPhase, Phases, FreshIsGiven
  <2> USE DEF TypeOK
  <2>2. RecordInv' /\ FreshIsGiven'
    BY DEF FreshIsGiven, RecordInv, RecordIsDurable, AfterJsonl, RowPhase
  <2>3. RowsNeedSession' /\ GoneInOrder'
    BY DEF RowsNeedSession, GoneInOrder, RecordInv, RecordIsDurable, AfterJsonl, RowPhase
  <2>4. OneRowPhase'
    BY
    DEF OneRowPhase, Undisturbed, GoneInOrder, RecordInv, RecordIsDurable, AfterJsonl, RowPhase,
        RowsNeedSession
  <2>5. IdsAreKept'
    BY
    DEF IdsAreKept, OneRowPhase, Undisturbed, Holding, RowPhase, Completed, RecordInv,
        RecordIsDurable, AfterJsonl, GoneInOrder
  <2> QED
    BY <2>1, <2>2, <2>3, <2>4, <2>5
<1>12. ASSUME NEW d \in Deleters, MarkDbDone(d) PROVE IInv'
  <2> USE <1>12 DEF MarkDbDone, Goto
  <2>1. TypeOK'
    BY DEF TypeOK, RowPhase, Phases, FreshIsGiven
  <2> USE DEF TypeOK
  <2>2. RecordInv' /\ FreshIsGiven'
    BY DEF FreshIsGiven, RecordInv, RecordIsDurable, AfterJsonl, RowPhase
  <2>3. RowsNeedSession' /\ GoneInOrder'
    BY DEF RowsNeedSession, GoneInOrder, RecordInv, RecordIsDurable, AfterJsonl, RowPhase
  <2>4. OneRowPhase'
    BY
    DEF OneRowPhase, Undisturbed, GoneInOrder, RecordInv, RecordIsDurable, AfterJsonl, RowPhase,
        RowsNeedSession
  <2>5. IdsAreKept'
    BY
    DEF IdsAreKept, OneRowPhase, Undisturbed, Holding, RowPhase, Completed, RecordInv,
        RecordIsDurable, AfterJsonl, GoneInOrder
  <2> QED
    BY <2>1, <2>2, <2>3, <2>4, <2>5
<1>13. ASSUME NEW d \in Deleters, ForgetProposals(d) PROVE IInv'
  <2> USE <1>13 DEF ForgetProposals, Goto
  <2>1. TypeOK'
    BY DEF TypeOK, RowPhase, Phases, FreshIsGiven
  <2> USE DEF TypeOK
  <2>2. RecordInv' /\ FreshIsGiven'
    BY DEF FreshIsGiven, RecordInv, RecordIsDurable, AfterJsonl, RowPhase
  <2>3. RowsNeedSession' /\ GoneInOrder'
    BY DEF RowsNeedSession, GoneInOrder, RecordInv, RecordIsDurable, AfterJsonl, RowPhase
  <2>4. OneRowPhase'
    BY
    DEF OneRowPhase, Undisturbed, GoneInOrder, RecordInv, RecordIsDurable, AfterJsonl, RowPhase,
        RowsNeedSession
  <2>5. IdsAreKept'
    BY
    DEF IdsAreKept, OneRowPhase, Undisturbed, Holding, RowPhase, Completed, RecordInv,
        RecordIsDurable, AfterJsonl, GoneInOrder
  <2> QED
    BY <2>1, <2>2, <2>3, <2>4, <2>5
<1>14. ASSUME NEW d \in Deleters, MarkEvidenceDone(d) PROVE IInv'
  <2> USE <1>14 DEF MarkEvidenceDone, Goto
  <2>1. TypeOK'
    BY DEF TypeOK, RowPhase, Phases, FreshIsGiven
  <2> USE DEF TypeOK
  <2>2. RecordInv' /\ FreshIsGiven'
    BY DEF FreshIsGiven, RecordInv, RecordIsDurable, AfterJsonl, RowPhase
  <2>3. RowsNeedSession' /\ GoneInOrder'
    BY DEF RowsNeedSession, GoneInOrder, RecordInv, RecordIsDurable, AfterJsonl, RowPhase
  <2>4. OneRowPhase'
    BY
    DEF OneRowPhase, Undisturbed, GoneInOrder, RecordInv, RecordIsDurable, AfterJsonl, RowPhase,
        RowsNeedSession
  <2>5. IdsAreKept'
    BY
    DEF IdsAreKept, OneRowPhase, Undisturbed, Holding, RowPhase, Completed, RecordInv,
        RecordIsDurable, AfterJsonl, GoneInOrder
  <2> QED
    BY <2>1, <2>2, <2>3, <2>4, <2>5
<1>15. ASSUME NEW d \in Deleters, Interrupt(d) PROVE IInv'
  <2> USE <1>15 DEF Interrupt, Goto
  <2>1. TypeOK'
    <3>1. indexed' \subseteq indexed /\ faults' = faults + 1 /\ faults < MaxFaults
      OBVIOUS
    <3>2. spoiled' \in BOOLEAN
      BY DEF TypeOK
    <3>3. /\ found' \in [Deleters -> SUBSET (1..given)]
          /\ pc' \in [Deleters ->
                      {"idle", "unlink", "mark_jsonl", "forget", "mark_evidence"} \cup RowPhase]
      BY DEF TypeOK
    <3>4. indexed' \subseteq 1..given /\ faults' \in 0..MaxFaults
      BY <3>1 DEF TypeOK
    <3> QED
      BY <3>2, <3>3, <3>4 DEF TypeOK
  <2> USE DEF TypeOK
  <2>2. RecordInv' /\ FreshIsGiven'
    BY DEF FreshIsGiven, RecordInv, RecordIsDurable, AfterJsonl, RowPhase
  <2>3. RowsNeedSession' /\ GoneInOrder'
    BY DEF RowsNeedSession, GoneInOrder, RecordInv, RecordIsDurable, AfterJsonl, RowPhase
  <2>4. OneRowPhase'
    BY
    DEF OneRowPhase, Undisturbed, GoneInOrder, RecordInv, RecordIsDurable, AfterJsonl, RowPhase,
        RowsNeedSession
  <2>5. IdsAreKept'
    BY
    DEF IdsAreKept, OneRowPhase, Undisturbed, Holding, RowPhase, Completed, RecordInv,
        RecordIsDurable, AfterJsonl, GoneInOrder
  <2> QED
    BY <2>1, <2>2, <2>3, <2>4, <2>5
<1>16. CASE EnqueueJob
  <2> USE <1>16 DEF EnqueueJob, Goto
  <2>1. TypeOK'
    BY DEF TypeOK, RowPhase, Phases, FreshIsGiven
  <2> USE DEF TypeOK
  <2>2. RecordInv' /\ FreshIsGiven'
    BY DEF FreshIsGiven, RecordInv, RecordIsDurable, AfterJsonl, RowPhase
  <2>3. RowsNeedSession' /\ GoneInOrder'
    BY DEF RowsNeedSession, GoneInOrder, RecordInv, RecordIsDurable, AfterJsonl, RowPhase
  <2>4. OneRowPhase'
    BY
    DEF OneRowPhase, Undisturbed, GoneInOrder, RecordInv, RecordIsDurable, AfterJsonl, RowPhase,
        RowsNeedSession
  <2>5. IdsAreKept'
    BY
    DEF IdsAreKept, OneRowPhase, Undisturbed, Holding, RowPhase, Completed, RecordInv,
        RecordIsDurable, AfterJsonl, GoneInOrder
  <2> QED
    BY <2>1, <2>2, <2>3, <2>4, <2>5
<1>17. CASE ClaimJob
  <2> USE <1>17 DEF ClaimJob, Goto, Spoils, InRowPhase
  <2>1. TypeOK'
    BY DEF TypeOK, RowPhase, Phases, FreshIsGiven
  <2> USE DEF TypeOK
  <2>2. RecordInv' /\ FreshIsGiven'
    BY DEF FreshIsGiven, RecordInv, RecordIsDurable, AfterJsonl, RowPhase
  <2>3. RowsNeedSession' /\ GoneInOrder'
    BY DEF RowsNeedSession, GoneInOrder, RecordInv, RecordIsDurable, AfterJsonl, RowPhase
  <2>4. OneRowPhase'
    BY
    DEF OneRowPhase, Undisturbed, GoneInOrder, RecordInv, RecordIsDurable, AfterJsonl, RowPhase,
        RowsNeedSession
  <2>5. IdsAreKept'
    BY
    DEF IdsAreKept, OneRowPhase, Undisturbed, Holding, RowPhase, Completed, RecordInv,
        RecordIsDurable, AfterJsonl, GoneInOrder
  <2> QED
    BY <2>1, <2>2, <2>3, <2>4, <2>5
<1>18. CASE RecordProposal
  <2> USE <1>18 DEF RecordProposal, Goto, InsertAllowed, Spoils, InRowPhase
  <2>1. TypeOK'
    <3>1. given' = given + 1 /\ given' \in 1..MaxProposals /\ 1..given \subseteq 1..given'
      BY DEF TypeOK
    <3>2. /\ proposals' \subseteq 1..given' /\ indexed' \subseteq 1..given'
          /\ kept' \subseteq 1..given'
      <4>1. /\ proposals' = proposals \cup {given'} /\ indexed' = indexed /\ kept' = kept
            /\ given' \in 1..given'
        BY <3>1 DEF record
      <4>2. proposals \subseteq 1..given /\ indexed \subseteq 1..given /\ kept \subseteq 1..given
        BY DEF TypeOK
      <4> QED
        BY <3>1, <4>1, <4>2
    <3>3. found' \in [Deleters -> SUBSET (1..given')] /\ fresh' \in 0..given'
      BY <3>1 DEF TypeOK
    <3> QED
      BY <3>1, <3>2, <3>3 DEF TypeOK, RowPhase, Phases
  <2> USE DEF TypeOK
  <2>2. RecordInv' /\ FreshIsGiven'
    BY DEF FreshIsGiven, RecordInv, RecordIsDurable, AfterJsonl, RowPhase
  <2>3. RowsNeedSession' /\ GoneInOrder'
    BY DEF RowsNeedSession, GoneInOrder, RecordInv, RecordIsDurable, AfterJsonl, RowPhase
  <2>4. OneRowPhase'
    BY
    DEF OneRowPhase, Undisturbed, GoneInOrder, RecordInv, RecordIsDurable, AfterJsonl, RowPhase,
        RowsNeedSession
  <2>5. IdsAreKept'
    BY
    DEF IdsAreKept, OneRowPhase, Undisturbed, Holding, RowPhase, Completed, RecordInv,
        RecordIsDurable, AfterJsonl, GoneInOrder
  <2> QED
    BY <2>1, <2>2, <2>3, <2>4, <2>5
<1>19. CASE NoProposal
  <2> USE <1>19 DEF NoProposal, Goto
  <2>1. TypeOK'
    BY DEF TypeOK, RowPhase, Phases, FreshIsGiven
  <2> USE DEF TypeOK
  <2>2. RecordInv' /\ FreshIsGiven'
    BY DEF FreshIsGiven, RecordInv, RecordIsDurable, AfterJsonl, RowPhase
  <2>3. RowsNeedSession' /\ GoneInOrder'
    BY DEF RowsNeedSession, GoneInOrder, RecordInv, RecordIsDurable, AfterJsonl, RowPhase
  <2>4. OneRowPhase'
    BY
    DEF OneRowPhase, Undisturbed, GoneInOrder, RecordInv, RecordIsDurable, AfterJsonl, RowPhase,
        RowsNeedSession
  <2>5. IdsAreKept'
    BY
    DEF IdsAreKept, OneRowPhase, Undisturbed, Holding, RowPhase, Completed, RecordInv,
        RecordIsDurable, AfterJsonl, GoneInOrder
  <2> QED
    BY <2>1, <2>2, <2>3, <2>4, <2>5
<1>20. CASE IndexProposal
  <2> USE <1>20 DEF IndexProposal, Goto, Spoils, InRowPhase
  <2>1. TypeOK'
    <3>1. fresh \in 1..given
      BY DEF TypeOK, FreshIsGiven
    <3> QED
      BY <3>1 DEF TypeOK, RowPhase, Phases
  <2> USE DEF TypeOK
  <2>2. RecordInv' /\ FreshIsGiven'
    BY DEF FreshIsGiven, RecordInv, RecordIsDurable, AfterJsonl, RowPhase
  <2>3. RowsNeedSession' /\ GoneInOrder'
    BY DEF RowsNeedSession, GoneInOrder, RecordInv, RecordIsDurable, AfterJsonl, RowPhase
  <2>4. OneRowPhase'
    BY
    DEF OneRowPhase, Undisturbed, GoneInOrder, RecordInv, RecordIsDurable, AfterJsonl, RowPhase,
        RowsNeedSession
  <2>5. IdsAreKept'
    BY
    DEF IdsAreKept, OneRowPhase, Undisturbed, Holding, RowPhase, Completed, RecordInv,
        RecordIsDurable, AfterJsonl, GoneInOrder
  <2> QED
    BY <2>1, <2>2, <2>3, <2>4, <2>5
<1>21. CASE LoadFile
  <2> USE <1>21 DEF LoadFile, Goto, Spoils, InRowPhase
  <2>1. TypeOK'
    BY DEF TypeOK, RowPhase, Phases, FreshIsGiven
  <2> USE DEF TypeOK
  <2>2. RecordInv' /\ FreshIsGiven'
    BY DEF FreshIsGiven, RecordInv, RecordIsDurable, AfterJsonl, RowPhase
  <2>3. RowsNeedSession' /\ GoneInOrder'
    BY DEF RowsNeedSession, GoneInOrder, RecordInv, RecordIsDurable, AfterJsonl, RowPhase
  <2>4. OneRowPhase'
    BY
    DEF OneRowPhase, Undisturbed, GoneInOrder, RecordInv, RecordIsDurable, AfterJsonl, RowPhase,
        RowsNeedSession
  <2>5. IdsAreKept'
    BY
    DEF IdsAreKept, OneRowPhase, Undisturbed, Holding, RowPhase, Completed, RecordInv,
        RecordIsDurable, AfterJsonl, GoneInOrder
  <2> QED
    BY <2>1, <2>2, <2>3, <2>4, <2>5
<1>22. CASE UpsertSession
  <2> USE <1>22 DEF UpsertSession, Goto, Spoils, InRowPhase
  <2>1. TypeOK'
    BY DEF TypeOK, RowPhase, Phases, FreshIsGiven
  <2> USE DEF TypeOK
  <2>2. RecordInv' /\ FreshIsGiven'
    BY DEF FreshIsGiven, RecordInv, RecordIsDurable, AfterJsonl, RowPhase
  <2>3. RowsNeedSession' /\ GoneInOrder'
    BY DEF RowsNeedSession, GoneInOrder, RecordInv, RecordIsDurable, AfterJsonl, RowPhase
  <2>4. OneRowPhase'
    BY
    DEF OneRowPhase, Undisturbed, GoneInOrder, RecordInv, RecordIsDurable, AfterJsonl, RowPhase,
        RowsNeedSession
  <2>5. IdsAreKept'
    BY
    DEF IdsAreKept, OneRowPhase, Undisturbed, Holding, RowPhase, Completed, RecordInv,
        RecordIsDurable, AfterJsonl, GoneInOrder
  <2> QED
    BY <2>1, <2>2, <2>3, <2>4, <2>5
<1>23. CASE MirrorMessages
  <2> USE <1>23 DEF MirrorMessages, Goto, Spoils, InRowPhase
  <2>1. TypeOK'
    BY DEF TypeOK, RowPhase, Phases, FreshIsGiven
  <2> USE DEF TypeOK
  <2>2. RecordInv' /\ FreshIsGiven'
    BY DEF FreshIsGiven, RecordInv, RecordIsDurable, AfterJsonl, RowPhase
  <2>3. RowsNeedSession' /\ GoneInOrder'
    BY DEF RowsNeedSession, GoneInOrder, RecordInv, RecordIsDurable, AfterJsonl, RowPhase
  <2>4. OneRowPhase'
    BY
    DEF OneRowPhase, Undisturbed, GoneInOrder, RecordInv, RecordIsDurable, AfterJsonl, RowPhase,
        RowsNeedSession
  <2>5. IdsAreKept'
    BY
    DEF IdsAreKept, OneRowPhase, Undisturbed, Holding, RowPhase, Completed, RecordInv,
        RecordIsDurable, AfterJsonl, GoneInOrder
  <2> QED
    BY <2>1, <2>2, <2>3, <2>4, <2>5
<1>24. CASE SavePass
  <2> USE <1>24 DEF SavePass, Goto
  <2>1. TypeOK'
    BY DEF TypeOK, RowPhase, Phases, FreshIsGiven
  <2> USE DEF TypeOK
  <2>2. RecordInv' /\ FreshIsGiven'
    BY DEF FreshIsGiven, RecordInv, RecordIsDurable, AfterJsonl, RowPhase
  <2>3. RowsNeedSession' /\ GoneInOrder'
    BY DEF RowsNeedSession, GoneInOrder, RecordInv, RecordIsDurable, AfterJsonl, RowPhase
  <2>4. OneRowPhase'
    BY
    DEF OneRowPhase, Undisturbed, GoneInOrder, RecordInv, RecordIsDurable, AfterJsonl, RowPhase,
        RowsNeedSession
  <2>5. IdsAreKept'
    BY
    DEF IdsAreKept, OneRowPhase, Undisturbed, Holding, RowPhase, Completed, RecordInv,
        RecordIsDurable, AfterJsonl, GoneInOrder
  <2> QED
    BY <2>1, <2>2, <2>3, <2>4, <2>5
<1>25. CASE UNCHANGED vars
  BY <1>25
  DEF vars, TypeOK, FreshIsGiven, RecordInv, RecordIsDurable, RowsNeedSession, GoneInOrder,
      OneRowPhase,
     IdsAreKept, Undisturbed, Completed
<1> QED
  BY <1>1, <1>2, <1>3, <1>4, <1>5, <1>6, <1>7, <1>8, <1>9, <1>10, <1>11, <1>12, <1>13, <1>14,
     <1>15, <1>16, <1>17, <1>18, <1>19, <1>20, <1>21, <1>22, <1>23, <1>24, <1>25
  DEF Next, Command, Retry, Worker, Reconciler, DeleteStep

\* The invariant holds in every reachable state.
LEMMA Invariant == Spec => []IInv
  BY InitIInv, NextIInv, PTL DEF Spec

\* Every reachable record, row and process state is well typed.
THEOREM TypeCorrect == Spec => []TypeOK
  BY Invariant, PTL DEF IInv

\* The tombstone is ahead of the file, and the phases are recorded in order.
THEOREM RecordDurable == Spec => []RecordIsDurable
  BY Invariant, PTL DEF IInv, RecordInv

\* What is recorded as gone from the database and the index is gone.
THEOREM DeletedForGood == Spec => []DeletedStaysDeleted
<1>1. IInv => DeletedStaysDeleted
  BY
  DEF IInv, DeletedStaysDeleted, DatabaseStaysClean, EvidenceIsGone, RowsNeedSession,
      GoneInOrder,
     IdsAreKept, Undisturbed
<1> QED
  BY <1>1, Invariant, PTL

-----------------------------------------------------------------------------
\* A result stands behind its call, with nothing but results between them; or a
\* cut has taken the call away.
Linked(s, i) ==
  /\ i - s[i].n >= 1
  /\ s[i - s[i].n].role = "assistant" /\ s[i - s[i].n].n >= s[i].n
  /\ \A j \in i - s[i].n + 1 .. i : s[j].role = "tool"
CutOff(s, i) == \A j \in 1 .. i - 1 : s[j].turn = 0 \/ s[j].role = "tool"
ResultsHaveCalls(s) ==
  \A i \in 1 .. Len(s) : s[i].role = "tool" => Linked(s, i) \/ CutOff(s, i)

\* A list of messages of the turns up to c.
Transcript(s, c) ==
  /\ s \in Seq(Turns!Message) /\ ResultsHaveCalls(s)
  /\ \A i \in 1 .. Len(s) : s[i].turn <= c
ListsAreTranscripts ==
  /\ \A r \in Turns!Ref : Transcript(lists[r], count)
  /\ \A i \in 1 .. MaxSessions : Transcript(transcripts[i], count)
  /\ Transcript(tail, count) /\ Transcript(cmdKept, count)

TurnTypes ==
  /\ transcripts \in [1 .. MaxSessions -> Seq(Turns!Message)] /\ current \in 1 .. MaxSessions
  /\ lists \in [Turns!Ref -> Seq(Turns!Message)] /\ history \in Turns!Ref
  /\ turn \in Turns!TurnStates /\ count \in 0 .. MaxTurns /\ window \in Windows \cup {0}
  /\ held \in Turns!Ref \cup {Turns!NoList} /\ cmdHeld \in Turns!Ref \cup {Turns!NoList}
  /\ turn = "summarising" \/ Turns!Running => held \in Turns!Ref
  /\ cmd # "idle" => cmdHeld \in Turns!Ref
  /\ Turns!Running /\ window = 0 => sliceLen = 0
  /\ sliceLen \in Nat /\ snapshot \in Nat /\ pending \in 0 .. MaxCalls /\ ran \in Seq(Nat)
  /\ turn # "idle" => count # 0 /\ outcome \in {"none", "answered", "limit"}
  /\ IF turn = "tools" THEN pending # 0 ELSE ran = << >>

\* While tools run, the list they run for ends in the calls and the results that
\* are there.
Results == IF parallel THEN 0 ELSE Len(ran)
ToolsFollowTheirCall == turn = "tools" =>
  LET s == lists[held]
      p == Len(s) - Results
  IN /\ p >= 1 /\ s[p] = Turns!Calls(count, pending)
     /\ Results < pending
     /\ \A k \in 1 .. Results : s[p + k] = Turns!Result(count, k)

\* The calls among the first m messages are answered there.
AnsweredTo(s, m) ==
  \A i \in 1 .. m : \A k \in 1 .. (IF s[i].role = "assistant" THEN s[i].n ELSE 0) :
    i + k <= m /\ s[i + k] = Turns!Result(s[i].turn, k)

\* Before Ctrl+C and races, only the list that tools run for has open calls, and a
\* history that is cut back has none.
ListsAreAnswered == ~tainted =>
  /\ \A r \in Turns!Ref : (turn = "tools" /\ r = held) \/ Turns!Answered(lists[r])
  /\ \A i \in 1 .. MaxSessions : Turns!Answered(transcripts[i])
  /\ Turns!Answered(tail) /\ Turns!Answered(cmdKept)
  /\ Turns!Running => snapshot <= Len(lists[history]) /\ AnsweredTo(lists[history], snapshot)
  /\ turn = "tools" => AnsweredTo(lists[held], Len(lists[held]) - Results - 1)

\* What a windowed run has added has its calls there.
LinkedFrom(s, m) ==
  \A i \in m + 1 .. Len(s) : s[i].role = "tool" => i - s[i].n > m /\ Linked(s, i)
RunIsLinked == turn \in {"ask", "tools", "finishing"} /\ window # 0 =>
  /\ sliceLen <= Len(lists[held]) /\ LinkedFrom(lists[held], sliceLen)
  /\ turn = "tools" => Len(lists[held]) - Results > sliceLen

\* Message m is the turn's own, and there is nothing else of the turn before it.
Begins(s, m) ==
  m \in 1 .. Len(s) /\ s[m] = Turns!User(count) /\ \A i \in 1 .. m - 1 : s[i].turn # count
TurnKeepsItsMessage == ~raced =>
  /\ turn \in {"begun", "summarising", "prepared", "saved"} => Begins(lists[history], Len(lists[history]))
  /\ turn = "summarising" => held = history /\ Begins(tail, Len(tail))
  /\ Turns!Running => Begins(lists[history], snapshot) /\ (window = 0 => held = history)
  /\ turn = "finishing" => /\ Len(lists[held]) > sliceLen
                           /\ Turns!Last(lists[held]) = Turns!Reply(count)
  /\ turn = "closing" => Turns!Last(lists[history]) = Turns!Reply(count)

TurnIInv ==
  /\ TurnTypes /\ ListsAreTranscripts /\ ToolsFollowTheirCall /\ ListsAreAnswered
  /\ RunIsLinked /\ TurnKeepsItsMessage

\* What the lists of a conversation and their cuts come to.
LEMMA TurnConstants ==
  /\ MaxTurns \in Nat \ {0} /\ MaxRounds \in Nat \ {0} /\ MaxRetries \in Nat
  /\ MaxCalls \in Nat \ {0} /\ Windows \subseteq Nat
  /\ MaxDisturbances \in Nat /\ MaxSessions \in Nat \ {0}
  BY Assumptions DEF Turns!AgentTurnConstants

\* A message has a turn and a number.
LEMMA MessageFacts ==
  ASSUME NEW m \in Turns!Message
  PROVE  m.turn \in Nat /\ m.n \in Nat
  BY TurnConstants DEF Turns!Message

\* What the actions write are messages.
LEMMA MessagesAre ==
  ASSUME NEW t \in 0 .. MaxTurns, NEW k \in 0 .. MaxCalls
  PROVE  /\ Turns!User(t) \in Turns!Message /\ Turns!Reply(t) \in Turns!Message
         /\ Turns!Calls(t, k) \in Turns!Message /\ Turns!Result(t, k) \in Turns!Message
  BY TurnConstants DEF Turns!Message, Turns!User, Turns!Reply, Turns!Calls, Turns!Result

\* A part of a list,
LEMMA PartOf ==
  ASSUME NEW s \in Seq(Turns!Message), NEW a \in 1 .. Len(s) + 1, NEW b \in 0 .. Len(s), a <= b + 1
  PROVE  /\ SubSeq(s, a, b) \in Seq(Turns!Message) /\ Len(SubSeq(s, a, b)) = b - a + 1
         /\ \A i \in 1 .. b - a + 1 : SubSeq(s, a, b)[i] = s[i + (a - 1)]
<1>1. a \in Int /\ b \in Int /\ \A i \in a .. b : s[i] \in Turns!Message
  OBVIOUS
<1>2. /\ SubSeq(s, a, b) \in Seq(Turns!Message)
      /\ Len(SubSeq(s, a, b)) = IF a <= b THEN b - a + 1 ELSE 0
      /\ \A i \in 1 .. b - a + 1 : SubSeq(s, a, b)[i] = s[a + i - 1]
  BY <1>1, SubSeqProperties
<1> QED
  BY <1>1, <1>2

\* its end,
LEMMA TailIs ==
  ASSUME NEW s \in Seq(Turns!Message), NEW d \in 0 .. Len(s)
  PROVE  /\ Turns!Tail_(s, d) \in Seq(Turns!Message) /\ Len(Turns!Tail_(s, d)) = Len(s) - d
         /\ \A i \in 1 .. Len(s) - d : Turns!Tail_(s, d)[i] = s[i + d]
<1>1. Len(s) \in Nat /\ d + 1 \in 1 .. Len(s) + 1 /\ Len(s) \in 0 .. Len(s) /\ d + 1 <= Len(s) + 1
  OBVIOUS
<1>2. /\ SubSeq(s, d + 1, Len(s)) \in Seq(Turns!Message)
      /\ Len(SubSeq(s, d + 1, Len(s))) = Len(s) - (d + 1) + 1
      /\ \A i \in 1 .. Len(s) - (d + 1) + 1 : SubSeq(s, d + 1, Len(s))[i] = s[i + (d + 1 - 1)]
  BY <1>1, PartOf
<1>3. Len(s) - (d + 1) + 1 = Len(s) - d /\ d + 1 - 1 = d
  BY <1>1
<1> QED
  BY <1>2, <1>3 DEF Turns!Tail_

\* and its beginning.
LEMMA FrontIs ==
  ASSUME NEW s \in Seq(Turns!Message), NEW m \in 0 .. Len(s)
  PROVE  /\ SubSeq(s, 1, m) \in Seq(Turns!Message) /\ Len(SubSeq(s, 1, m)) = m
         /\ \A i \in 1 .. m : SubSeq(s, 1, m)[i] = s[i]
<1>1. Len(s) \in Nat /\ 1 \in 1 .. Len(s) + 1 /\ 1 <= m + 1
  OBVIOUS
<1>2. /\ SubSeq(s, 1, m) \in Seq(Turns!Message) /\ Len(SubSeq(s, 1, m)) = m - 1 + 1
      /\ \A i \in 1 .. m - 1 + 1 : SubSeq(s, 1, m)[i] = s[i + (1 - 1)]
  BY <1>1, PartOf
<1>3. m - 1 + 1 = m /\ \A i \in 1 .. m : i + (1 - 1) = i
  OBVIOUS
<1> QED
  BY <1>2, <1>3

\* A list and one appended to it.
LEMMA JoinIs ==
  ASSUME NEW s \in Seq(Turns!Message), NEW t \in Seq(Turns!Message)
  PROVE  /\ s \o t \in Seq(Turns!Message) /\ Len(s \o t) = Len(s) + Len(t)
         /\ \A i \in 1 .. Len(s) : (s \o t)[i] = s[i]
         /\ \A i \in Len(s) + 1 .. Len(s) + Len(t) : (s \o t)[i] = t[i - Len(s)]
         /\ \A i \in 1 .. Len(t) : (s \o t)[i + Len(s)] = t[i]
<1>1. Len(s) \in Nat /\ Len(t) \in Nat
  OBVIOUS
<1>2. /\ s \o t \in Seq(Turns!Message) /\ Len(s \o t) = Len(s) + Len(t)
      /\ \A i \in 1 .. Len(s) + Len(t) : (s \o t)[i] = IF i <= Len(s) THEN s[i] ELSE t[i - Len(s)]
  BY ConcatProperties
<1>3. \A i \in 1 .. Len(t) : (s \o t)[i + Len(s)] = t[i]
  <2>1. \A i \in 1 .. Len(t) : i + Len(s) \in 1 .. Len(s) + Len(t) /\ ~ (i + Len(s) <= Len(s)) /\ i + Len(s) - Len(s) = i
    BY <1>1
  <2> QED
    BY <1>2, <2>1
<1>4. \A i \in 1 .. Len(s) : i \in 1 .. Len(s) + Len(t) /\ i <= Len(s)
  BY <1>1
<1>5. \A i \in Len(s) + 1 .. Len(s) + Len(t) : i \in 1 .. Len(s) + Len(t) /\ ~ (i <= Len(s))
  BY <1>1
<1> QED
  BY <1>2, <1>3, <1>4, <1>5

\* Lists of one and of two messages.
LEMMA PairIs ==
  ASSUME NEW a \in Turns!Message, NEW b \in Turns!Message
  PROVE  /\ <<a>> \in Seq(Turns!Message) /\ Len(<<a>>) = 1 /\ <<a>>[1] = a
         /\ <<a, b>> \in Seq(Turns!Message) /\ Len(<<a, b>>) = 2
         /\ <<a, b>>[1] = a /\ <<a, b>>[2] = b
  OBVIOUS

\* A cut of a transcript at its front or at its end is one.
LEMMA CutIsTranscript ==
  ASSUME NEW s \in Seq(Turns!Message), NEW c, Transcript(s, c), NEW t \in Seq(Turns!Message),
         NEW d \in Nat, d + Len(t) <= Len(s), \A i \in 1 .. Len(t) : t[i] = s[i + d]
  PROVE  Transcript(t, c)
<1>1. Len(s) \in Nat /\ Len(t) \in Nat
  OBVIOUS
<1> DEFINE n == Len(s)
           m == Len(t)
<1>2. \A i \in 1 .. m : i + d \in 1 .. n /\ t[i] = s[i + d] /\ t[i].n \in Nat
  BY <1>1, MessageFacts
<1>3. \A i \in 1 .. m : t[i].turn <= c
  BY <1>2 DEF Transcript
<1>4. ASSUME NEW i \in 1 .. m, t[i].role = "tool" PROVE Linked(t, i) \/ CutOff(t, i)
  <2> DEFINE k == t[i].n
  <2>1. k \in Nat /\ s[i + d].n = k /\ s[i + d].role = "tool" /\ i + d \in 1 .. n
    BY <1>2, <1>4
  <2>2. n \in Nat /\ m \in Nat /\ d + m <= n
    BY <1>1
  <2>3. Linked(s, i + d) \/ CutOff(s, i + d)
    BY <2>1 DEF Transcript, ResultsHaveCalls
  <2>a. t[i].n = k
    OBVIOUS
  <2> HIDE DEF n, m, k
  <2>4. CASE CutOff(s, i + d)
    <3>1. \A j \in 1 .. i - 1 : j \in 1 .. m /\ j + d \in 1 .. i + d - 1
      BY <2>1, <2>2
    <3> QED
      BY <1>2, <2>4, <3>1 DEF CutOff
  <2>5. CASE Linked(s, i + d) /\ i - k >= 1
    <3>1. /\ i - k \in 1 .. m /\ i + d - k = i - k + d
          /\ \A j \in i - k + 1 .. i : j \in 1 .. m /\ j + d \in i + d - k + 1 .. i + d
      BY <2>1, <2>2, <2>5, SMTT(30)
    <3>2. /\ s[i + d - k].role = "assistant" /\ s[i + d - k].n >= k
          /\ \A j \in i + d - k + 1 .. i + d : s[j].role = "tool"
      BY <2>1, <2>5, <2>a DEF Linked
    <3>3. t[i - k] = s[i + d - k] /\ \A j \in i - k + 1 .. i : t[j].role = "tool"
      BY <1>2, <3>1, <3>2
    <3> QED
      BY <2>5, <2>a, <3>2, <3>3 DEF Linked
  <2>6. CASE Linked(s, i + d) /\ ~ (i - k >= 1)
    <3>1. \A j \in 1 .. i - 1 : j \in 1 .. m /\ j + d \in i + d - k + 1 .. i + d
      BY <2>1, <2>2, <2>6
    <3>2. \A j \in i + d - k + 1 .. i + d : s[j].role = "tool"
      BY <2>1, <2>6, <2>a DEF Linked
    <3> QED
      BY <1>2, <3>1, <3>2 DEF CutOff
  <2> QED
    BY <2>3, <2>4, <2>5, <2>6
<1> QED
  BY <1>3, <1>4 DEF Transcript, ResultsHaveCalls

\* Nothing said needs no answer.
LEMMA EmptyIsTranscript ==
  ASSUME NEW c
  PROVE  Transcript(<< >>, c) /\ Turns!Answered(<< >>)
  BY DEF Transcript, ResultsHaveCalls, Turns!Answered

\* The end of a transcript is one: what lost its call is at its start.
LEMMA TailIsTranscript ==
  ASSUME NEW s, NEW c, Transcript(s, c), NEW d \in 0 .. Len(s)
  PROVE  Transcript(Turns!Tail_(s, d), c)
<1>1. s \in Seq(Turns!Message) /\ Len(s) \in Nat
  BY DEF Transcript
<1>2. /\ Turns!Tail_(s, d) \in Seq(Turns!Message) /\ Len(Turns!Tail_(s, d)) = Len(s) - d
      /\ \A i \in 1 .. Len(s) - d : Turns!Tail_(s, d)[i] = s[i + d]
  BY <1>1, TailIs
<1>3. d \in Nat /\ d + (Len(s) - d) <= Len(s)
  BY <1>1
<1> QED
  BY <1>1, <1>2, <1>3, CutIsTranscript

\* So is its beginning.
LEMMA FrontIsTranscript ==
  ASSUME NEW s, NEW c, Transcript(s, c), NEW m \in 0 .. Len(s)
  PROVE  Transcript(SubSeq(s, 1, m), c)
<1>1. s \in Seq(Turns!Message) /\ Len(s) \in Nat
  BY DEF Transcript
<1>2. /\ SubSeq(s, 1, m) \in Seq(Turns!Message) /\ Len(SubSeq(s, 1, m)) = m
      /\ \A i \in 1 .. m : SubSeq(s, 1, m)[i] = s[i]
  BY <1>1, FrontIs
<1> DEFINE t == SubSeq(s, 1, m)
<1> HIDE DEF t
<1>3. 0 \in Nat /\ 0 + Len(t) <= Len(s) /\ \A i \in 1 .. Len(t) : t[i] = s[i + 0]
  BY <1>1, <1>2 DEF t
<1>4. Transcript(t, c)
  BY <1>1, <1>2, <1>3, CutIsTranscript DEF t
<1> QED
  BY <1>4 DEF t

\* What follows a transcript may be another whose results have their calls in it,
\* or the results its last message waits for.
LEMMA JoinIsTranscript ==
  ASSUME NEW s, NEW c, Transcript(s, c), NEW t \in Seq(Turns!Message),
         \A i \in 1 .. Len(t) : t[i].turn <= c /\ (t[i].role = "tool" => Linked(t, i))
  PROVE  Transcript(s \o t, c)
<1> DEFINE n == Len(s)
           m == Len(t)
           u == s \o t
<1>1. s \in Seq(Turns!Message) /\ n \in Nat /\ m \in Nat
  BY DEF Transcript
<1>2. /\ u \in Seq(Turns!Message) /\ Len(u) = n + m
      /\ \A i \in 1 .. n : u[i] = s[i]
      /\ \A i \in n + 1 .. n + m : u[i] = t[i - n]
  BY <1>1, JoinIs
<1>3. /\ \A i \in 1 .. n : s[i].turn <= c /\ (s[i].role = "tool" => Linked(s, i) \/ CutOff(s, i))
      /\ \A i \in 1 .. m : t[i].turn <= c /\ (t[i].role = "tool" => Linked(t, i))
      /\ \A i \in 1 .. n : s[i].n \in Nat
      /\ \A i \in 1 .. m : t[i].n \in Nat
  BY <1>1, MessageFacts DEF Transcript, ResultsHaveCalls
<1> HIDE DEF n, m, u
<1>4. ASSUME NEW i \in 1 .. n + m
      PROVE  u[i].turn <= c /\ (u[i].role = "tool" => Linked(u, i) \/ CutOff(u, i))
  <2>1. CASE i <= n
    <3>1. i \in 1 .. n /\ u[i] = s[i]
      BY <1>1, <1>2, <2>1
    <3>2. ASSUME Linked(s, i) PROVE Linked(u, i)
      <4> DEFINE k == s[i].n
      <4>1. k \in Nat /\ i - k >= 1 /\ s[i - k].role = "assistant" /\ s[i - k].n >= k
            /\ \A j \in i - k + 1 .. i : s[j].role = "tool"
        BY <1>3, <3>1, <3>2 DEF Linked
      <4> HIDE DEF k
      <4>2. i - k \in 1 .. n /\ \A j \in i - k + 1 .. i : j \in 1 .. n
        BY <1>1, <3>1, <4>1
      <4>3. u[i - k] = s[i - k] /\ \A j \in i - k + 1 .. i : u[j].role = "tool"
        BY <1>2, <4>1, <4>2
      <4> QED
        BY <3>1, <4>1, <4>3 DEF Linked, k
    <3>3. ASSUME CutOff(s, i) PROVE CutOff(u, i)
      <4>1. \A j \in 1 .. i - 1 : j \in 1 .. n
        BY <1>1, <3>1
      <4> QED
        BY <1>2, <3>3, <4>1 DEF CutOff
    <3> QED
      BY <1>3, <3>1, <3>2, <3>3
  <2>2. CASE ~ (i <= n)
    <3> DEFINE h == i - n
    <3>1. h \in 1 .. m /\ i \in n + 1 .. n + m /\ u[i] = t[h]
      BY <1>1, <1>2, <2>2
    <3>2. ASSUME Linked(t, h) PROVE Linked(u, i)
      <4> DEFINE k == t[h].n
      <4>1. k \in Nat /\ h - k >= 1 /\ t[h - k].role = "assistant" /\ t[h - k].n >= k
            /\ \A j \in h - k + 1 .. h : t[j].role = "tool"
        BY <1>3, <3>1, <3>2 DEF Linked
      <4> HIDE DEF k
      <4>2. /\ i - k \in n + 1 .. n + m /\ i - k - n = h - k
            /\ \A j \in i - k + 1 .. i : j \in n + 1 .. n + m /\ j - n \in h - k + 1 .. h
        BY <1>1, <3>1, <4>1, SMTT(30)
      <4>3. u[i - k] = t[h - k] /\ \A j \in i - k + 1 .. i : u[j].role = "tool"
        BY <1>2, <4>1, <4>2
      <4>4. i - k >= 1 /\ u[i].n = k
        BY <1>1, <3>1, <4>2 DEF k
      <4> QED
        BY <4>1, <4>3, <4>4 DEF Linked
    <3> QED
      BY <1>3, <3>1, <3>2
  <2> QED
    BY <2>1, <2>2
<1> QED
  BY <1>2, <1>4 DEF Transcript, ResultsHaveCalls, u

\* A transcript is one of any later turn.
LEMMA TranscriptGrows ==
  ASSUME NEW s, NEW c \in Nat, NEW e \in Nat, c <= e, Transcript(s, c)
  PROVE  Transcript(s, e)
<1>1. \A i \in 1 .. Len(s) : s[i].turn \in Nat
  BY MessageFacts DEF Transcript
<1> QED
  BY <1>1 DEF Transcript

\* What a turn says makes a transcript of a transcript.
LEMMA SaidIsTranscript ==
  ASSUME NEW s, NEW c \in 1 .. MaxTurns, Transcript(s, c)
  PROVE  /\ Transcript(s \o <<Turns!User(c)>>, c) /\ Transcript(s \o <<Turns!Reply(c)>>, c)
         /\ Transcript(s \o <<Turns!Reply(c), Turns!User(c)>>, c)
         /\ \A k \in 1 .. MaxCalls : Transcript(s \o <<Turns!Calls(c, k)>>, c)
<1>0. c \in 0 .. MaxTurns /\ c <= c
  BY TurnConstants
<1>1. ASSUME NEW t \in Seq(Turns!Message), \A i \in 1 .. Len(t) : t[i].turn <= c /\ t[i].role # "tool"
      PROVE  Transcript(s \o t, c)
  BY <1>1, JoinIsTranscript
<1>2. /\ Turns!User(c).turn = c /\ Turns!User(c).role = "user"
      /\ Turns!Reply(c).turn = c /\ Turns!Reply(c).role = "assistant"
      /\ \A k : Turns!Calls(c, k).turn = c /\ Turns!Calls(c, k).role = "assistant"
  BY DEF Turns!User, Turns!Reply, Turns!Calls
<1>3. /\ Turns!User(c) \in Turns!Message /\ Turns!Reply(c) \in Turns!Message
      /\ \A k \in 1 .. MaxCalls : Turns!Calls(c, k) \in Turns!Message
  BY <1>0, MessagesAre, TurnConstants
<1>4. ASSUME NEW a \in Turns!Message, a.turn = c, a.role # "tool" PROVE Transcript(s \o <<a>>, c)
  <2> DEFINE t == <<a>>
  <2>1. t \in Seq(Turns!Message) /\ Len(t) = 1 /\ t[1] = a
    OBVIOUS
  <2> HIDE DEF t
  <2>2. \A i \in 1 .. Len(t) : t[i].turn <= c /\ t[i].role # "tool"
    BY <1>0, <1>4, <2>1
  <2>3. Transcript(s \o t, c)
    BY <1>1, <2>1, <2>2
  <2> QED
    BY <2>3 DEF t
<1>5. Transcript(s \o <<Turns!Reply(c), Turns!User(c)>>, c)
  <2> DEFINE t == <<Turns!Reply(c), Turns!User(c)>>
  <2>1. t \in Seq(Turns!Message) /\ Len(t) = 2 /\ t[1] = Turns!Reply(c) /\ t[2] = Turns!User(c)
    BY <1>3
  <2> HIDE DEF t
  <2>2. \A i \in 1 .. Len(t) : t[i].turn <= c /\ t[i].role # "tool"
    BY <1>0, <1>2, <2>1
  <2>3. Transcript(s \o t, c)
    BY <1>1, <2>1, <2>2
  <2> QED
    BY <2>3 DEF t
<1> QED
  BY <1>2, <1>3, <1>4, <1>5

\* The summary and its acknowledgement stand where the cut was.
LEMMA CompactedIs ==
  ASSUME NEW s \in Seq(Turns!Message)
  PROVE  /\ Turns!Compacted(s) \in Seq(Turns!Message) /\ Len(Turns!Compacted(s)) = Len(s) + 2
         /\ Turns!Compacted(s)[1] = Turns!User(0) /\ Turns!Compacted(s)[2] = Turns!Reply(0)
         /\ \A i \in 3 .. Len(s) + 2 : Turns!Compacted(s)[i] = s[i - 2]
<1> DEFINE h == <<Turns!User(0), Turns!Reply(0)>>
<1>1. h \in Seq(Turns!Message) /\ Len(h) = 2 /\ h[1] = Turns!User(0) /\ h[2] = Turns!Reply(0)
  BY MessagesAre, TurnConstants
<1>2. Turns!Compacted(s) = h \o s
  BY DEF Turns!Compacted
<1> HIDE DEF h
<1>3. Len(s) \in Nat
  OBVIOUS
<1>4. /\ h \o s \in Seq(Turns!Message) /\ Len(h \o s) = Len(h) + Len(s)
      /\ \A i \in 1 .. Len(h) : (h \o s)[i] = h[i]
      /\ \A i \in Len(h) + 1 .. Len(h) + Len(s) : (h \o s)[i] = s[i - Len(h)]
  BY <1>1, JoinIs
<1>5. 1 \in 1 .. 2 /\ 2 \in 1 .. 2 /\ Len(s) + 2 = 2 + Len(s) /\ 2 + 1 = 3
  BY <1>3
<1> QED
  BY <1>1, <1>2, <1>4, <1>5

\* So does a compaction.
LEMMA CompactedIsTranscript ==
  ASSUME NEW s, NEW c \in Nat, Transcript(s, c)
  PROVE  Transcript(Turns!Compacted(s), c)
<1> DEFINE n == Len(s)
           u == Turns!Compacted(s)
<1>1. s \in Seq(Turns!Message) /\ n \in Nat
  BY DEF Transcript
<1>2. /\ u \in Seq(Turns!Message) /\ Len(u) = n + 2
      /\ u[1] = Turns!User(0) /\ u[2] = Turns!Reply(0) /\ \A i \in 3 .. n + 2 : u[i] = s[i - 2]
  BY <1>1, CompactedIs
<1>3. /\ \A i \in 1 .. n : s[i].turn <= c /\ (s[i].role = "tool" => Linked(s, i) \/ CutOff(s, i))
      /\ \A i \in 1 .. n : s[i].n \in Nat
  BY <1>1, MessageFacts DEF Transcript, ResultsHaveCalls
<1>4. u[1].turn = 0 /\ u[2].turn = 0 /\ u[1].role # "tool" /\ u[2].role # "tool"
  BY <1>2 DEF Turns!User, Turns!Reply
<1> HIDE DEF n, u
<1>5. ASSUME NEW i \in 3 .. n + 2
      PROVE  u[i].turn <= c /\ (u[i].role = "tool" => Linked(u, i) \/ CutOff(u, i))
  <2> DEFINE h == i - 2
  <2>1. h \in 1 .. n /\ u[i] = s[h]
    BY <1>1, <1>2
  <2>2. ASSUME CutOff(s, h) PROVE CutOff(u, i)
    <3>1. ASSUME NEW j \in 1 .. i - 1 PROVE u[j].turn = 0 \/ u[j].role = "tool"
      <4>1. j \in {1, 2} \/ (j \in 3 .. n + 2 /\ j - 2 \in 1 .. h - 1)
        BY <1>1, <2>1
      <4> QED
        BY <1>2, <1>4, <2>2, <4>1 DEF CutOff
    <3> QED
      BY <3>1 DEF CutOff
  <2>3. ASSUME Linked(s, h) PROVE Linked(u, i)
    <3> DEFINE k == s[h].n
    <3>1. k \in Nat /\ h - k >= 1 /\ s[h - k].role = "assistant" /\ s[h - k].n >= k
          /\ \A j \in h - k + 1 .. h : s[j].role = "tool"
      BY <1>3, <2>1, <2>3 DEF Linked
    <3>2. u[i].n = k
      BY <2>1
    <3> HIDE DEF k
    <3>3. /\ i - k \in 3 .. n + 2 /\ i - k - 2 = h - k
          /\ \A j \in i - k + 1 .. i : j \in 3 .. n + 2 /\ j - 2 \in h - k + 1 .. h
      BY <1>1, <2>1, <3>1
    <3>4. u[i - k] = s[h - k] /\ \A j \in i - k + 1 .. i : u[j].role = "tool"
      BY <1>2, <3>1, <3>3
    <3>5. i - k >= 1
      BY <1>1, <2>1, <3>1
    <3> QED
      BY <3>1, <3>2, <3>4, <3>5 DEF Linked
  <2> QED
    BY <1>3, <2>1, <2>2, <2>3
<1>6. \A i \in 1 .. n + 2 : i \in {1, 2} \/ i \in 3 .. n + 2
  BY <1>1
<1>7. \A i \in 1 .. n + 2 : u[i].turn <= c /\ (u[i].role = "tool" => Linked(u, i) \/ CutOff(u, i))
  BY <1>4, <1>5, <1>6
<1> QED
  BY <1>2, <1>7 DEF Transcript, ResultsHaveCalls, u

\* The results that are appended are the next ones of the call d messages back.
IsWaiting(s, c, n, d) ==
  /\ Len(s) - d >= 1 /\ s[Len(s) - d] = Turns!Calls(c, n)
  /\ \A k \in 1 .. d : s[Len(s) - d + k] = Turns!Result(c, k)
ComeLinked(s, t, d) ==
  \A i \in Len(s) + 1 .. Len(s) + Len(t) :
    Linked(s \o t, i) /\ i - (s \o t)[i].n = Len(s) - d

\* Results that come where they are awaited have their call.
LEMMA ResultsAreLinked ==
  ASSUME NEW s \in Seq(Turns!Message), NEW c, NEW n \in Nat, NEW d \in Nat, IsWaiting(s, c, n, d),
         NEW t \in Seq(Turns!Message), d + Len(t) <= n,
         \A k \in 1 .. Len(t) : t[k] = Turns!Result(c, d + k)
  PROVE  /\ IsWaiting(s \o t, c, n, d + Len(t))
         /\ ComeLinked(s, t, d)
<1> DEFINE q == Len(s)
           m == Len(t)
           u == s \o t
           p == q - d
<1>1. q \in Nat /\ m \in Nat
  OBVIOUS
<1>2. /\ u \in Seq(Turns!Message) /\ Len(u) = q + m
      /\ \A i \in 1 .. q : u[i] = s[i]
      /\ \A i \in q + 1 .. q + m : u[i] = t[i - q]
  BY JoinIs
<1>3. /\ p >= 1 /\ s[p] = Turns!Calls(c, n) /\ \A k \in 1 .. d : s[p + k] = Turns!Result(c, k)
  BY DEF IsWaiting
<1>4. d + m <= n /\ \A k \in 1 .. m : t[k] = Turns!Result(c, d + k)
  OBVIOUS
<1>5. p \in 1 .. q /\ q = p + d /\ p \in Nat
  BY <1>1, <1>3
<1> HIDE DEF q, m, u, p
<1>6. \A k \in 1 .. d + m : u[p + k] = Turns!Result(c, k)
  <2> SUFFICES ASSUME NEW k \in 1 .. d + m PROVE u[p + k] = Turns!Result(c, k)
    OBVIOUS
  <2>1. CASE k <= d
    <3>1. k \in 1 .. d /\ p + k \in 1 .. q
      BY <1>1, <1>5, <2>1
    <3> QED
      BY <1>2, <1>3, <3>1
  <2>2. CASE ~ (k <= d)
    <3>1. k - d \in 1 .. m /\ p + k \in q + 1 .. q + m /\ p + k - q = k - d /\ d + (k - d) = k
      BY <1>1, <1>5, <2>2
    <3>2. u[p + k] = t[k - d]
      <4> DEFINE h == p + k
      <4>1. h \in q + 1 .. q + m /\ h - q = k - d
        BY <1>1, <1>5, <3>1
      <4> HIDE DEF h
      <4>2. u[h] = t[h - q]
        BY <1>2, <4>1
      <4> QED
        BY <4>1, <4>2 DEF h
    <3>3. t[k - d] = Turns!Result(c, d + (k - d))
      BY <1>4, <3>1
    <3> QED
      BY <3>1, <3>2, <3>3
  <2> QED
    BY <2>1, <2>2
<1>7. u[p] = Turns!Calls(c, n)
  BY <1>2, <1>3, <1>5
<1>8. Len(u) - (d + m) = p
  BY <1>1, <1>2, <1>5
<1>9. IsWaiting(u, c, n, d + m)
  BY <1>5, <1>6, <1>7, <1>8 DEF IsWaiting
<1>10. ASSUME NEW i \in q + 1 .. q + m PROVE Linked(u, i) /\ i - u[i].n = p
  <2> DEFINE k == i - p
  <2>1. k \in 1 .. d + m /\ p + k = i
    BY <1>1, <1>5
  <2>2. u[i] = Turns!Result(c, k)
    BY <1>6, <2>1
  <2>3. u[i].n = k /\ i - k = p /\ k <= n
    <3>1. u[i].n = k
      BY <2>2 DEF Turns!Result
    <3> QED
      BY <1>1, <1>4, <1>5, <3>1
  <2>4. ASSUME NEW j \in p + 1 .. i PROVE u[j].role = "tool"
    <3>1. j - p \in 1 .. d + m /\ p + (j - p) = j
      BY <1>1, <1>5, <2>1
    <3>2. u[j] = Turns!Result(c, j - p)
      BY <1>6, <3>1
    <3> QED
      BY <3>2 DEF Turns!Result
  <2>5. u[p].role = "assistant" /\ u[p].n = n
    BY <1>7 DEF Turns!Calls
  <2> HIDE DEF k
  <2> QED
    BY <1>5, <2>3, <2>4, <2>5 DEF Linked
<1> QED
  BY <1>9, <1>10 DEF q, m, u, p, ComeLinked

\* And with them the list is a transcript.
LEMMA ResultsAreTranscript ==
  ASSUME NEW s, NEW c \in Nat, Transcript(s, c), NEW n \in Nat, NEW d \in Nat,
         IsWaiting(s, c, n, d), NEW t \in Seq(Turns!Message), d + Len(t) <= n,
         \A k \in 1 .. Len(t) : t[k] = Turns!Result(c, d + k)
  PROVE  Transcript(s \o t, c)
<1> DEFINE q == Len(s)
           m == Len(t)
           u == s \o t
<1>1. s \in Seq(Turns!Message) /\ q \in Nat /\ m \in Nat
  BY DEF Transcript
<1>2. /\ u \in Seq(Turns!Message) /\ Len(u) = q + m
      /\ \A i \in 1 .. q : u[i] = s[i]
      /\ \A i \in q + 1 .. q + m : u[i] = t[i - q]
  BY <1>1, JoinIs
<1>3. \A i \in q + 1 .. q + m : Linked(u, i)
  BY <1>1, ResultsAreLinked DEF ComeLinked
<1>4. ASSUME NEW i \in 1 .. m PROVE t[i].turn = c
  <2>1. t[i] = Turns!Result(c, d + i)
    OBVIOUS
  <2> HIDE DEF m
  <2> QED
    BY <2>1 DEF Turns!Result
<1>5. /\ \A i \in 1 .. q : s[i].turn <= c /\ (s[i].role = "tool" => Linked(s, i) \/ CutOff(s, i))
      /\ \A i \in 1 .. q : s[i].n \in Nat
  BY <1>1, MessageFacts DEF Transcript, ResultsHaveCalls
<1> HIDE DEF q, m, u
<1>6. ASSUME NEW i \in 1 .. q
      PROVE  u[i].turn <= c /\ (u[i].role = "tool" => Linked(u, i) \/ CutOff(u, i))
  <2>1. u[i] = s[i]
    BY <1>2
  <2>2. ASSUME Linked(s, i) PROVE Linked(u, i)
    <3> DEFINE k == s[i].n
    <3>1. k \in Nat /\ i - k >= 1 /\ s[i - k].role = "assistant" /\ s[i - k].n >= k
          /\ \A j \in i - k + 1 .. i : s[j].role = "tool"
      BY <1>5, <2>2 DEF Linked
    <3>2. u[i].n = k
      BY <2>1
    <3> HIDE DEF k
    <3>3. i - k \in 1 .. q /\ \A j \in i - k + 1 .. i : j \in 1 .. q
      BY <1>1, <3>1
    <3>4. u[i - k] = s[i - k] /\ \A j \in i - k + 1 .. i : u[j].role = "tool"
      BY <1>2, <3>1, <3>3
    <3> QED
      BY <3>1, <3>2, <3>4 DEF Linked
  <2>3. ASSUME CutOff(s, i) PROVE CutOff(u, i)
    <3>1. \A j \in 1 .. i - 1 : j \in 1 .. q
      BY <1>1
    <3> QED
      BY <1>2, <2>3, <3>1 DEF CutOff
  <2> QED
    BY <1>5, <2>1, <2>2, <2>3
<1>7. ASSUME NEW i \in q + 1 .. q + m PROVE u[i].turn <= c /\ Linked(u, i)
  <2>1. i - q \in 1 .. m
    BY <1>1
  <2> QED
    BY <1>2, <1>3, <1>4, <2>1
<1>8. \A i \in 1 .. q + m : i \in 1 .. q \/ i \in q + 1 .. q + m
  BY <1>1
<1>9. \A i \in 1 .. q + m : u[i].turn <= c /\ (u[i].role = "tool" => Linked(u, i) \/ CutOff(u, i))
  BY <1>6, <1>7, <1>8
<1> QED
  BY <1>2, <1>9 DEF Transcript, ResultsHaveCalls, u

\* What a run adds keeps its calls behind its results.
LEMMA LinkedFromJoin ==
  ASSUME NEW s \in Seq(Turns!Message), NEW m \in 0 .. Len(s), LinkedFrom(s, m),
         NEW t \in Seq(Turns!Message),
         \A i \in Len(s) + 1 .. Len(s) + Len(t) : (s \o t)[i].role = "tool" =>
           i - (s \o t)[i].n > m /\ Linked(s \o t, i)
  PROVE  LinkedFrom(s \o t, m)
<1> DEFINE q == Len(s)
           w == Len(t)
           u == s \o t
<1>1. q \in Nat /\ w \in Nat
  OBVIOUS
<1>2. u \in Seq(Turns!Message) /\ Len(u) = q + w /\ \A i \in 1 .. q : u[i] = s[i]
  BY JoinIs
<1>3. \A i \in q + 1 .. q + w : u[i].role = "tool" => i - u[i].n > m /\ Linked(u, i)
  OBVIOUS
<1>4. \A i \in m + 1 .. q : s[i].role = "tool" => i - s[i].n > m /\ Linked(s, i)
  BY DEF LinkedFrom
<1>5. \A i \in 1 .. q : s[i].n \in Nat
  BY MessageFacts
<1>6. m \in 0 .. q
  OBVIOUS
<1> HIDE DEF q, w, u
<1>7. ASSUME NEW i \in m + 1 .. q, u[i].role = "tool" PROVE i - u[i].n > m /\ Linked(u, i)
  <2>1. i \in 1 .. q
    BY <1>1, <1>6
  <2>2. u[i] = s[i]
    BY <1>2, <2>1
  <2> DEFINE k == s[i].n
  <2>3. k \in Nat /\ i - k > m /\ i - k >= 1 /\ s[i - k].role = "assistant" /\ s[i - k].n >= k
        /\ \A j \in i - k + 1 .. i : s[j].role = "tool"
    BY <1>4, <1>5, <1>7, <2>1, <2>2 DEF Linked
  <2>4. u[i].n = k
    BY <2>2
  <2> HIDE DEF k
  <2>5. i - k \in 1 .. q /\ \A j \in i - k + 1 .. i : j \in 1 .. q
    BY <1>1, <2>1, <2>3
  <2>6. u[i - k] = s[i - k] /\ \A j \in i - k + 1 .. i : u[j].role = "tool"
    BY <1>2, <2>3, <2>5
  <2> QED
    BY <2>3, <2>4, <2>6 DEF Linked
<1>8. \A i \in m + 1 .. q + w : i \in m + 1 .. q \/ i \in q + 1 .. q + w
  BY <1>1, <1>6
<1>9. \A i \in m + 1 .. q + w : u[i].role = "tool" => i - u[i].n > m /\ Linked(u, i)
  BY <1>3, <1>7, <1>8
<1> QED
  BY <1>2, <1>9 DEF LinkedFrom, u

\* So that its tail can follow another transcript.
LEMMA TailIsLinked ==
  ASSUME NEW s, NEW c, Transcript(s, c), NEW m \in 0 .. Len(s), LinkedFrom(s, m)
  PROVE  \A i \in 1 .. Len(Turns!Tail_(s, m)) :
           /\ Turns!Tail_(s, m)[i].turn <= c
           /\ Turns!Tail_(s, m)[i].role = "tool" => Linked(Turns!Tail_(s, m), i)
<1> DEFINE q == Len(s)
           t == Turns!Tail_(s, m)
<1>1. s \in Seq(Turns!Message) /\ q \in Nat /\ m \in 0 .. q
  BY DEF Transcript
<1>2. Len(t) = q - m /\ \A i \in 1 .. q - m : t[i] = s[i + m]
  BY <1>1, TailIs
<1>3. /\ \A i \in m + 1 .. q : s[i].role = "tool" => i - s[i].n > m /\ Linked(s, i)
      /\ \A i \in 1 .. q : s[i].n \in Nat /\ s[i].turn <= c
  BY <1>1, MessageFacts DEF LinkedFrom, Transcript
<1> HIDE DEF q, t
<1>4. ASSUME NEW i \in 1 .. q - m PROVE t[i].turn <= c /\ (t[i].role = "tool" => Linked(t, i))
  <2>1. i + m \in m + 1 .. q /\ i + m \in 1 .. q /\ t[i] = s[i + m]
    BY <1>1, <1>2
  <2>2. ASSUME t[i].role = "tool" PROVE Linked(t, i)
    <3> DEFINE k == t[i].n
    <3>1. k \in Nat /\ i + m - k > m /\ s[i + m - k].role = "assistant" /\ s[i + m - k].n >= k
          /\ \A j \in i + m - k + 1 .. i + m : s[j].role = "tool"
      BY <1>3, <2>1, <2>2, SMTT(30) DEF Linked
    <3>2. t[i].n = k
      OBVIOUS
    <3> HIDE DEF k
    <3>3. /\ i - k >= 1 /\ i - k \in 1 .. q - m /\ i - k + m = i + m - k
          /\ \A j \in i - k + 1 .. i : j \in 1 .. q - m /\ j + m \in i + m - k + 1 .. i + m
      BY <1>1, <2>1, <3>1, SMTT(30)
    <3>4. t[i - k] = s[i + m - k] /\ \A j \in i - k + 1 .. i : t[j].role = "tool"
      BY <1>2, <3>1, <3>3
    <3> QED
      BY <3>1, <3>2, <3>3, <3>4 DEF Linked
  <2> QED
    BY <1>3, <2>1, <2>2
<1> QED
  BY <1>2, <1>4 DEF t

\* The calls among the first messages of a list, when it is cut, joined and
\* continued.
CallsOf(m) == IF m.role = "assistant" THEN m.n ELSE 0

\* A message makes a number of calls.
LEMMA CallsAreNat ==
  ASSUME NEW s \in Seq(Turns!Message), NEW i \in 1 .. Len(s)
  PROVE  CallsOf(s[i]) \in Nat
  BY MessageFacts DEF CallsOf

\* Two ways to say that calls are answered.
LEMMA AnsweredIs ==
  ASSUME NEW s, NEW m
  PROVE  /\ AnsweredTo(s, m) <=> \A i \in 1 .. m : \A k \in 1 .. CallsOf(s[i]) :
                                   i + k <= m /\ s[i + k] = Turns!Result(s[i].turn, k)
         /\ Turns!Answered(s) <=> AnsweredTo(s, Len(s))
  BY DEF AnsweredTo, Turns!Answered, CallsOf

\* Every message and every result of the part t stands in s, d further on.
LEMMA CutIsAnswered ==
  ASSUME NEW s \in Seq(Turns!Message), NEW e \in 0 .. Len(s), AnsweredTo(s, e),
         NEW t \in Seq(Turns!Message), NEW d \in Nat, d + Len(t) = e,
         \A i \in 1 .. Len(t) : t[i] = s[i + d]
  PROVE  Turns!Answered(t)
<1> DEFINE m == Len(t)
<1>1. m \in Nat /\ Len(s) \in Nat /\ e = d + m
  OBVIOUS
<1>2. \A i \in 1 .. e : \A k \in 1 .. CallsOf(s[i]) :
        i + k <= e /\ s[i + k] = Turns!Result(s[i].turn, k)
  BY AnsweredIs
<1>3. \A i \in 1 .. m : t[i] = s[i + d] /\ CallsOf(t[i]) \in Nat
  BY CallsAreNat
<1> HIDE DEF m
<1>4. ASSUME NEW i \in 1 .. m, NEW k \in 1 .. CallsOf(t[i])
      PROVE  i + k <= m /\ t[i + k] = Turns!Result(t[i].turn, k)
  <2>1. i + d \in 1 .. e /\ t[i] = s[i + d] /\ CallsOf(t[i]) \in Nat
    BY <1>1, <1>3
  <2>2. k \in Nat /\ k >= 1
    BY <2>1
  <2>3. i + d + k <= e /\ s[i + d + k] = Turns!Result(t[i].turn, k)
    BY <1>2, <2>1
  <2>4. i + k \in 1 .. m /\ i + k + d = i + d + k
    BY <1>1, <2>2, <2>3
  <2>5. t[i + k] = s[i + k + d]
    BY <1>3, <2>4
  <2> QED
    BY <2>3, <2>4, <2>5
<1>5. AnsweredTo(t, m)
  BY <1>4, AnsweredIs
<1> QED
  BY <1>5, AnsweredIs DEF m

\* The end of an answered list is answered,
LEMMA TailIsAnswered ==
  ASSUME NEW s \in Seq(Turns!Message), Turns!Answered(s), NEW d \in 0 .. Len(s)
  PROVE  Turns!Answered(Turns!Tail_(s, d))
<1> DEFINE t == Turns!Tail_(s, d)
<1>1. t \in Seq(Turns!Message) /\ Len(t) = Len(s) - d /\ \A i \in 1 .. Len(s) - d : t[i] = s[i + d]
  BY TailIs
<1>2. AnsweredTo(s, Len(s)) /\ Len(s) \in Nat
  BY AnsweredIs
<1> HIDE DEF t
<1>3. d \in Nat /\ d + Len(t) = Len(s) /\ \A i \in 1 .. Len(t) : t[i] = s[i + d]
  BY <1>1, <1>2
<1>4. Len(s) \in 0 .. Len(s)
  BY <1>2
<1>5. Turns!Answered(t)
  BY <1>1, <1>2, <1>3, <1>4, CutIsAnswered
<1> QED
  BY <1>5 DEF t

\* and so is a beginning that has the answers to its calls.
LEMMA FrontIsAnswered ==
  ASSUME NEW s \in Seq(Turns!Message), NEW m \in 0 .. Len(s), AnsweredTo(s, m)
  PROVE  Turns!Answered(SubSeq(s, 1, m))
<1> DEFINE t == SubSeq(s, 1, m)
<1>1. t \in Seq(Turns!Message) /\ Len(t) = m /\ \A i \in 1 .. m : t[i] = s[i]
  BY FrontIs
<1> HIDE DEF t
<1>2. 0 \in Nat /\ 0 + Len(t) = m /\ \A i \in 1 .. Len(t) : t[i] = s[i + 0]
  BY <1>1
<1>3. Turns!Answered(t)
  BY <1>1, <1>2, CutIsAnswered
<1> QED
  BY <1>3 DEF t

\* What is answered stays so when the list grows.
LEMMA AnsweredGrows ==
  ASSUME NEW s \in Seq(Turns!Message), NEW m \in 0 .. Len(s), AnsweredTo(s, m),
         NEW t \in Seq(Turns!Message)
  PROVE  AnsweredTo(s \o t, m)
<1> DEFINE u == s \o t
<1>1. Len(s) \in Nat /\ \A i \in 1 .. Len(s) : u[i] = s[i]
  BY JoinIs
<1>2. \A i \in 1 .. m : \A k \in 1 .. CallsOf(s[i]) :
        i + k <= m /\ s[i + k] = Turns!Result(s[i].turn, k)
  BY AnsweredIs
<1>3. \A i \in 1 .. m : i \in 1 .. Len(s) /\ CallsOf(s[i]) \in Nat
  BY <1>1, CallsAreNat
<1> HIDE DEF u
<1>4. ASSUME NEW i \in 1 .. m, NEW k \in 1 .. CallsOf(u[i])
      PROVE  i + k <= m /\ u[i + k] = Turns!Result(u[i].turn, k)
  <2>1. u[i] = s[i] /\ i \in 1 .. Len(s) /\ k \in 1 .. CallsOf(s[i]) /\ k \in Nat
    BY <1>1, <1>3
  <2>2. i + k <= m /\ s[i + k] = Turns!Result(s[i].turn, k)
    BY <1>2, <2>1
  <2>3. i + k \in 1 .. Len(s)
    BY <1>1, <2>1, <2>2
  <2> QED
    BY <1>1, <2>1, <2>2, <2>3
<1>5. AnsweredTo(u, m)
  BY <1>4, AnsweredIs
<1> QED
  BY <1>5 DEF u

\* Two answered lists make one.
LEMMA JoinIsAnswered ==
  ASSUME NEW s \in Seq(Turns!Message), Turns!Answered(s),
         NEW t \in Seq(Turns!Message), Turns!Answered(t)
  PROVE  Turns!Answered(s \o t)
<1> DEFINE u == s \o t
           q == Len(s)
           w == Len(t)
<1>1. /\ q \in Nat /\ w \in Nat /\ u \in Seq(Turns!Message) /\ Len(u) = q + w
      /\ \A i \in 1 .. q : u[i] = s[i]
      /\ \A i \in 1 .. w : u[i + q] = t[i]
  BY JoinIs
<1>2. AnsweredTo(u, q)
  <2>1. AnsweredTo(s, q) /\ q \in 0 .. q
    BY <1>1, AnsweredIs
  <2> QED
    BY <2>1, AnsweredGrows
<1>3. \A i \in 1 .. w : \A k \in 1 .. CallsOf(t[i]) :
        i + k <= w /\ t[i + k] = Turns!Result(t[i].turn, k)
  BY AnsweredIs
<1>4. \A i \in 1 .. w : CallsOf(t[i]) \in Nat
  BY CallsAreNat
<1> HIDE DEF u, q, w
<1>5. \A i \in 1 .. q : \A k \in 1 .. CallsOf(u[i]) :
        i + k <= q /\ u[i + k] = Turns!Result(u[i].turn, k)
  BY <1>2, AnsweredIs
<1>6. \A i \in 1 .. q : CallsOf(u[i]) \in Nat
  <2>1. \A i \in 1 .. q : i \in 1 .. Len(u)
    BY <1>1
  <2> QED
    BY <1>1, <2>1, CallsAreNat
<1>7. ASSUME NEW i \in 1 .. q + w, NEW k \in 1 .. CallsOf(u[i])
      PROVE  i + k <= q + w /\ u[i + k] = Turns!Result(u[i].turn, k)
  <2>1. CASE i <= q
    <3>1. i \in 1 .. q
      BY <1>1, <2>1
    <3>2. i + k <= q /\ u[i + k] = Turns!Result(u[i].turn, k) /\ k \in Nat
      BY <1>5, <1>6, <3>1
    <3> QED
      BY <1>1, <3>1, <3>2
  <2>2. CASE ~ (i <= q)
    <3> DEFINE h == i - q
    <3>1. h \in 1 .. w /\ h + q = i /\ h \in Nat
      BY <1>1, <2>2
    <3> HIDE DEF h
    <3>2. u[i] = t[h]
      BY <1>1, <3>1
    <3>3. h + k <= w /\ t[h + k] = Turns!Result(t[h].turn, k) /\ k \in Nat /\ k >= 1
      BY <1>3, <1>4, <3>1, <3>2, SMTT(30)
    <3>4. h + k \in 1 .. w /\ h + k + q = i + k /\ i + k <= q + w
      BY <1>1, <3>1, <3>3
    <3>5. u[h + k + q] = t[h + k]
      BY <1>1, <3>4
    <3> QED
      BY <3>2, <3>3, <3>4, <3>5
  <2> QED
    BY <2>1, <2>2
<1>8. AnsweredTo(u, q + w)
  BY <1>7, AnsweredIs
<1> QED
  BY <1>1, <1>8, AnsweredIs DEF u

\* A message and a reply need no result.
LEMMA SaidIsAnswered ==
  ASSUME NEW s \in Seq(Turns!Message), Turns!Answered(s), NEW c \in 0 .. MaxTurns
  PROVE  /\ Turns!Answered(s \o <<Turns!User(c)>>) /\ Turns!Answered(s \o <<Turns!Reply(c)>>)
         /\ Turns!Answered(s \o <<Turns!Reply(c), Turns!User(c)>>)
         /\ Turns!Answered(<<Turns!User(c), Turns!Reply(c)>>)
<1>1. /\ Turns!User(c) \in Turns!Message /\ Turns!Reply(c) \in Turns!Message
  BY MessagesAre, TurnConstants
<1>2. CallsOf(Turns!User(c)) = 0 /\ CallsOf(Turns!Reply(c)) = 0
  BY DEF CallsOf, Turns!User, Turns!Reply
<1>3. ASSUME NEW t \in Seq(Turns!Message), \A i \in 1 .. Len(t) : CallsOf(t[i]) = 0
      PROVE  Turns!Answered(t)
  <2>1. \A i \in 1 .. Len(t) : 1 .. CallsOf(t[i]) = {}
    BY <1>3
  <2> QED
    BY <2>1, AnsweredIs
<1>4. ASSUME NEW a \in {Turns!User(c), Turns!Reply(c)}, NEW b \in {Turns!User(c), Turns!Reply(c)}
      PROVE  /\ <<a>> \in Seq(Turns!Message) /\ <<a, b>> \in Seq(Turns!Message)
             /\ Turns!Answered(<<a>>) /\ Turns!Answered(<<a, b>>)
  <2>1. a \in Turns!Message /\ b \in Turns!Message /\ CallsOf(a) = 0 /\ CallsOf(b) = 0
    BY <1>1, <1>2
  <2>2. <<a>> \in Seq(Turns!Message) /\ <<a, b>> \in Seq(Turns!Message)
    BY <2>1
  <2>3. \A i \in 1 .. Len(<<a>>) : CallsOf(<<a>>[i]) = 0
    BY <2>1
  <2>4. \A i \in 1 .. Len(<<a, b>>) : CallsOf(<<a, b>>[i]) = 0
    BY <2>1
  <2> QED
    BY <1>3, <2>2, <2>3, <2>4
<1> QED
  BY <1>4, JoinIsAnswered

\* Nor does the summary of a compaction.
LEMMA CompactedIsAnswered ==
  ASSUME NEW s \in Seq(Turns!Message), Turns!Answered(s)
  PROVE  Turns!Answered(Turns!Compacted(s))
<1>1. 0 \in 0 .. MaxTurns
  BY TurnConstants
<1>2. Turns!Answered(<<Turns!User(0), Turns!Reply(0)>>)
  BY <1>1, EmptyIsTranscript, SaidIsAnswered
<1>3. <<Turns!User(0), Turns!Reply(0)>> \in Seq(Turns!Message)
  BY <1>1, MessagesAre, TurnConstants
<1> QED
  BY <1>2, <1>3, JoinIsAnswered DEF Turns!Compacted

\* With the last result the call is answered.
LEMMA ResultsAnswer ==
  ASSUME NEW s \in Seq(Turns!Message), NEW c, NEW n \in Nat, IsWaiting(s, c, n, n),
         AnsweredTo(s, Len(s) - n - 1)
  PROVE  Turns!Answered(s)
<1> DEFINE q == Len(s)
           p == q - n
<1>1. q \in Nat
  OBVIOUS
<1>2. p >= 1 /\ s[p] = Turns!Calls(c, n) /\ \A k \in 1 .. n : s[p + k] = Turns!Result(c, k)
  BY DEF IsWaiting
<1>3. \A i \in 1 .. p - 1 : \A k \in 1 .. CallsOf(s[i]) :
        i + k <= p - 1 /\ s[i + k] = Turns!Result(s[i].turn, k)
  BY AnsweredIs
<1>4. p \in Nat /\ q = p + n
  BY <1>1, <1>2
<1>5. \A i \in 1 .. q : CallsOf(s[i]) \in Nat
  BY CallsAreNat
<1> HIDE DEF q, p
<1>6. ASSUME NEW i \in 1 .. q, NEW k \in 1 .. CallsOf(s[i])
      PROVE  i + k <= q /\ s[i + k] = Turns!Result(s[i].turn, k)
  <2>1. CASE i < p
    <3>1. i \in 1 .. p - 1 /\ k \in Nat
      BY <1>4, <1>5, <2>1
    <3>2. i + k <= p - 1 /\ s[i + k] = Turns!Result(s[i].turn, k)
      BY <1>3, <3>1
    <3> QED
      BY <1>4, <3>1, <3>2
  <2>2. CASE i = p
    <3>1. CallsOf(s[i]) = n /\ s[i].turn = c
      BY <1>2, <2>2 DEF CallsOf, Turns!Calls
    <3> QED
      BY <1>2, <1>4, <2>2, <3>1
  <2>3. CASE i > p
    <3> DEFINE h == i - p
    <3>1. h \in 1 .. n /\ i = p + h
      BY <1>4, <2>3
    <3>2. s[i] = Turns!Result(c, h)
      BY <1>2, <3>1
    <3>3. CallsOf(s[i]) = 0
      BY <3>2 DEF CallsOf, Turns!Result
    <3> QED
      BY <3>3
  <2> QED
    BY <1>4, <2>1, <2>2, <2>3
<1>7. AnsweredTo(s, q)
  BY <1>6, AnsweredIs
<1> QED
  BY <1>7, AnsweredIs DEF q

\* The steps of a turn and of the commands.
LEMMA FreshIs ==
  ASSUME TurnTypes
  PROVE  /\ Turns!Fresh \in Turns!Ref
         /\ Turns!Fresh # history /\ Turns!Fresh # held /\ Turns!Fresh # cmdHeld
<1>1. \E r \in Turns!Ref : r \notin {history, held, cmdHeld}
  <2>1. {1, 2, 3, 4} \subseteq Turns!Ref
    BY DEF Turns!Ref
  <2>2. \/ 1 \notin {history, held, cmdHeld} \/ 2 \notin {history, held, cmdHeld}
        \/ 3 \notin {history, held, cmdHeld} \/ 4 \notin {history, held, cmdHeld}
    OBVIOUS
  <2> QED
    BY <2>1, <2>2
<1> QED
  BY <1>1 DEF Turns!Fresh

\* The parts of what the turn keeps are as they were, or transcripts themselves.
LEMMA TranscriptsStay ==
  ASSUME ListsAreTranscripts, count \in Nat, count' \in Nat, count <= count',
         \A r \in Turns!Ref : lists'[r] = lists[r] \/ Transcript(lists'[r], count'),
         \A i \in 1 .. MaxSessions :
           transcripts'[i] = transcripts[i] \/ Transcript(transcripts'[i], count'),
         tail' = tail \/ Transcript(tail', count'),
         cmdKept' = cmdKept \/ Transcript(cmdKept', count')
  PROVE  ListsAreTranscripts'
<1>1. \A r \in Turns!Ref : Transcript(lists'[r], count')
  <2>1. \A r \in Turns!Ref : Transcript(lists[r], count')
    BY TranscriptGrows DEF ListsAreTranscripts
  <2> QED
    BY <2>1
<1>2. \A i \in 1 .. MaxSessions : Transcript(transcripts'[i], count')
  <2>1. \A i \in 1 .. MaxSessions : Transcript(transcripts[i], count')
    BY TranscriptGrows DEF ListsAreTranscripts
  <2> QED
    BY <2>1
<1>3. Transcript(tail', count') /\ Transcript(cmdKept', count')
  <2>1. Transcript(tail, count') /\ Transcript(cmdKept, count')
    BY TranscriptGrows DEF ListsAreTranscripts
  <2> QED
    BY <2>1
<1> QED
  BY <1>1, <1>2, <1>3 DEF ListsAreTranscripts

\* What a step finds.
LEMMA TurnFacts ==
  ASSUME TurnIInv
  PROVE  /\ \A r \in Turns!Ref : /\ lists[r] \in Seq(Turns!Message) /\ Len(lists[r]) \in Nat
                                 /\ Transcript(lists[r], count)
         /\ history \in Turns!Ref /\ lists[history] \in Seq(Turns!Message)
         /\ Len(lists[history]) \in Nat /\ Transcript(lists[history], count)
         /\ count \in Nat /\ count \in 0 .. MaxTurns /\ (turn # "idle" => count \in 1 .. MaxTurns)
         /\ tail \in Seq(Turns!Message) /\ cmdKept \in Seq(Turns!Message)
         /\ Transcript(tail, count) /\ Transcript(cmdKept, count)
<1>1. count \in 0 .. MaxTurns /\ count \in Nat /\ (turn # "idle" => count # 0)
  BY TurnConstants DEF TurnIInv, TurnTypes
<1>2. history \in Turns!Ref /\ lists \in [Turns!Ref -> Seq(Turns!Message)]
  BY DEF TurnIInv, TurnTypes
<1>3. /\ \A r \in Turns!Ref : Transcript(lists[r], count)
      /\ Transcript(tail, count) /\ Transcript(cmdKept, count)
  BY DEF TurnIInv, ListsAreTranscripts
<1>4. tail \in Seq(Turns!Message) /\ cmdKept \in Seq(Turns!Message)
  BY <1>3 DEF Transcript
<1>5. \A r \in Turns!Ref : lists[r] \in Seq(Turns!Message) /\ Len(lists[r]) \in Nat
  BY <1>2
<1>6. turn # "idle" => count \in 1 .. MaxTurns
  BY <1>1, TurnConstants
<1> QED
  BY <1>1, <1>2, <1>3, <1>4, <1>5, <1>6

\* A step that leaves the lists alone.
LEMMA OnlyTheTurnMoves ==
  ASSUME TurnIInv, UNCHANGED <<lists, transcripts, current, tail, cmdKept, count, history, cmd, cmdHeld,
                               tainted, raced, pending, parallel, sliceLen, snapshot, window, held>>,
         \/ turn = "begun" /\ turn' = "prepared" /\ UNCHANGED <<outcome, ran>>
         \/ turn = "ask" /\ turn' = "ask" /\ UNCHANGED <<outcome, ran>>
         \/ turn = "tools" /\ turn' = "tools" /\ parallel /\ UNCHANGED outcome /\ ran' \in Seq(Nat)
  PROVE  TurnIInv'
<1>1. TurnTypes'
  BY DEF TurnIInv, TurnTypes, Turns!Running, Turns!TurnStates
<1>2. ListsAreTranscripts'
  BY DEF TurnIInv, ListsAreTranscripts
<1>3. Results' = Results \/ turn' # "tools"
  BY DEF Results
<1>4. ToolsFollowTheirCall'
  BY <1>3 DEF TurnIInv, ToolsFollowTheirCall
<1>5. ListsAreAnswered'
  <2>1. Turns!Running' => Turns!Running
    BY DEF Turns!Running
  <2>2. turn' = "tools" <=> turn = "tools"
    OBVIOUS
  <2> QED
    BY <1>3, <2>1, <2>2 DEF TurnIInv, ListsAreAnswered
<1>6. RunIsLinked'
  BY <1>3 DEF TurnIInv, RunIsLinked
<1>7. TurnKeepsItsMessage'
  BY DEF TurnIInv, TurnKeepsItsMessage, Begins, Turns!Running
<1> QED
  BY <1>1, <1>2, <1>4, <1>5, <1>6, <1>7 DEF TurnIInv

\* A message is sent.
LEMMA SendStep ==
  ASSUME TurnIInv, Turns!Send
  PROVE  TurnIInv'
<1> DEFINE s == lists[history]
           m == Turns!User(count + 1)
           u == s \o <<m>>
<1>1. /\ turn = "idle" /\ turn' = "begun" /\ count' = count + 1 /\ count + 1 \in 1 .. MaxTurns
      /\ window' \in Windows /\ lists' = [lists EXCEPT ![history] = u] /\ raced' = FALSE /\ outcome' = "none"
      /\ UNCHANGED <<transcripts, current, history, held, sliceLen, snapshot, pending, parallel, ran,
                     tail, cmd, cmdHeld, cmdKept, tainted>>
  BY TurnFacts, TurnConstants
  DEF Turns!Send, Turns!Extend, Turns!file_vars, Turns!run_vars, Turns!cmd_vars
<1>2. m \in Turns!Message /\ Transcript(u, count + 1)
  <2>1. Transcript(s, count + 1)
    BY TurnFacts, TranscriptGrows
  <2>2. count + 1 \in 0 .. MaxTurns
    BY <1>1, TurnConstants
  <2>3. m \in Turns!Message
    BY <2>2, MessagesAre, TurnConstants
  <2> HIDE DEF s
  <2>4. Transcript(s \o <<Turns!User(count + 1)>>, count + 1)
    BY <1>1, <2>1, SaidIsTranscript
  <2> QED
    BY <2>3, <2>4
<1>3. /\ u \in Seq(Turns!Message) /\ Len(u) = Len(s) + 1 /\ u[Len(s) + 1] = m
      /\ \A i \in 1 .. Len(s) : u[i] = s[i]
  <2>1. s \in Seq(Turns!Message) /\ Len(s) \in Nat
    BY TurnFacts
  <2> HIDE DEF s, m
  <2>2. <<m>> \in Seq(Turns!Message) /\ Len(<<m>>) = 1 /\ <<m>>[1] = m
    BY <1>2
  <2>3. /\ u \in Seq(Turns!Message) /\ Len(u) = Len(s) + Len(<<m>>)
        /\ \A i \in 1 .. Len(s) : u[i] = s[i]
        /\ \A i \in 1 .. Len(<<m>>) : u[i + Len(s)] = <<m>>[i]
    BY <2>1, <2>2, JoinIs
  <2>4. u[1 + Len(s)] = m
    BY <2>2, <2>3
  <2> QED
    BY <2>1, <2>2, <2>3, <2>4
<1>4. history \in Turns!Ref /\ lists'[history] = u /\ \A r \in Turns!Ref \ {history} : lists'[r] = lists[r]
  BY <1>1, TurnFacts DEF TurnIInv, TurnTypes
<1> HIDE DEF u
<1>5. TurnTypes'
  BY <1>1, <1>3, TurnConstants DEF TurnIInv, TurnTypes, Turns!Running, Turns!TurnStates
<1>6. ListsAreTranscripts'
  BY <1>1, <1>2, <1>4, TurnFacts, TranscriptsStay DEF TurnIInv
<1>7. ToolsFollowTheirCall' /\ RunIsLinked'
  BY <1>1 DEF ToolsFollowTheirCall, RunIsLinked
<1>8. ListsAreAnswered'
  <2> SUFFICES ASSUME ~tainted PROVE ListsAreAnswered'
    BY <1>1 DEF ListsAreAnswered
  <2>1. Turns!Answered(u)
    <3>1. Turns!Answered(s) /\ s \in Seq(Turns!Message)
      BY <1>1, TurnFacts DEF TurnIInv, ListsAreAnswered
    <3>2. count + 1 \in 0 .. MaxTurns
      BY <1>1, TurnConstants
    <3> QED
      BY <3>1, <3>2, SaidIsAnswered DEF u
  <2> QED
    BY <1>1, <1>4, <2>1 DEF TurnIInv, ListsAreAnswered, Turns!Running
<1>9. TurnKeepsItsMessage'
  <2>1. \A i \in 1 .. Len(s) : s[i].turn \in Nat /\ s[i].turn <= count
    BY TurnFacts, MessageFacts DEF Transcript
  <2>2. Len(s) \in Nat /\ count \in Nat
    BY TurnFacts
  <2>3. \A i \in 1 .. Len(s) + 1 - 1 : i \in 1 .. Len(s)
    BY <2>2
  <2>4. \A i \in 1 .. Len(s) + 1 - 1 : u[i].turn # count + 1
    BY <1>3, <2>1, <2>2, <2>3
  <2>5. Len(u) \in 1 .. Len(u)
    BY <1>3, <2>2
  <2>6. lists'[history'] = u /\ count' = count + 1
    BY <1>1, <1>4
  <2>7. Begins(lists[history], Len(lists[history]))'
    BY <1>3, <2>4, <2>5, <2>6 DEF Begins
  <2> QED
    BY <1>1, <2>7 DEF TurnKeepsItsMessage, Turns!Running
<1> QED
  BY <1>5, <1>6, <1>7, <1>8, <1>9 DEF TurnIInv

\* The list a run works on grows, and so does the history when it is that list.
LEMMA HeldGrows ==
  ASSUME TurnIInv, turn \in {"ask", "tools"}, NEW t \in Seq(Turns!Message),
         lists' = [lists EXCEPT ![held] = lists[held] \o t],
         Transcript(lists[held] \o t, count),
         UNCHANGED <<transcripts, current, history, count, window, held, sliceLen, snapshot, tail,
                     cmd, cmdHeld, cmdKept, raced, tainted>>
  PROVE  /\ held \in Turns!Ref /\ lists[held] \in Seq(Turns!Message)
         /\ lists' \in [Turns!Ref -> Seq(Turns!Message)]
         /\ lists'[held] = lists[held] \o t /\ \A r \in Turns!Ref \ {held} : lists'[r] = lists[r]
         /\ Len(lists'[held]) = Len(lists[held]) + Len(t)
         /\ ListsAreTranscripts'
         /\ ~tainted => /\ \A r \in Turns!Ref \ {held} : Turns!Answered(lists'[r])
                        /\ \A i \in 1 .. MaxSessions : Turns!Answered(transcripts'[i])
                        /\ Turns!Answered(tail') /\ Turns!Answered(cmdKept')
                        /\ snapshot' <= Len(lists'[history'])
                        /\ AnsweredTo(lists'[history'], snapshot')
         /\ ~raced => Begins(lists[history], snapshot)' /\ (window' = 0 => held' = history')
<1>1. held \in Turns!Ref /\ history \in Turns!Ref /\ lists \in [Turns!Ref -> Seq(Turns!Message)]
      /\ snapshot \in Nat /\ Turns!Running
  BY DEF TurnIInv, TurnTypes, Turns!Running
<1> DEFINE s == lists[held]
           u == s \o t
<1>2. s \in Seq(Turns!Message) /\ Len(s) \in Nat /\ Len(t) \in Nat
  BY <1>1
<1>3. /\ u \in Seq(Turns!Message) /\ Len(u) = Len(s) + Len(t)
      /\ \A i \in 1 .. Len(s) : u[i] = s[i]
  BY <1>2, JoinIs
<1> HIDE DEF u
<1>4. /\ lists' \in [Turns!Ref -> Seq(Turns!Message)] /\ lists'[held] = u
      /\ \A r \in Turns!Ref \ {held} : lists'[r] = lists[r]
  BY <1>1, <1>3 DEF u
<1>5. ListsAreTranscripts'
  <2>1. \A r \in Turns!Ref : lists'[r] = lists[r] \/ Transcript(lists'[r], count')
    BY <1>4 DEF u
  <2> QED
    BY <2>1, TurnFacts, TranscriptsStay DEF TurnIInv
<1>6. ASSUME ~tainted
      PROVE  /\ \A r \in Turns!Ref \ {held} : Turns!Answered(lists'[r])
             /\ \A i \in 1 .. MaxSessions : Turns!Answered(transcripts'[i])
             /\ Turns!Answered(tail') /\ Turns!Answered(cmdKept')
             /\ snapshot' <= Len(lists'[history'])
             /\ AnsweredTo(lists'[history'], snapshot')
  <2>1. snapshot <= Len(lists[history]) /\ AnsweredTo(lists[history], snapshot)
    BY <1>1, <1>6 DEF TurnIInv, ListsAreAnswered
  <2>2. snapshot <= Len(lists'[history]) /\ AnsweredTo(lists'[history], snapshot)
    <3>1. CASE history = held
      <4>1. snapshot \in 0 .. Len(s) /\ AnsweredTo(s, snapshot)
        BY <1>1, <1>2, <2>1, <3>1
      <4> HIDE DEF s
      <4>2. AnsweredTo(u, snapshot)
        BY <1>2, <4>1, AnsweredGrows DEF u
      <4>3. snapshot <= Len(u)
        BY <1>2, <1>3, <4>1
      <4>4. lists'[history] = u
        BY <1>4, <3>1
      <4> QED
        BY <4>2, <4>3, <4>4
    <3>2. CASE history # held
      BY <1>1, <1>4, <2>1, <3>2
    <3> QED
      BY <3>1, <3>2
  <2> QED
    BY <1>4, <1>6, <2>2 DEF TurnIInv, ListsAreAnswered
<1>7. ASSUME ~raced PROVE Begins(lists[history], snapshot)' /\ (window' = 0 => held' = history')
  <2>1. Begins(lists[history], snapshot) /\ (window = 0 => held = history)
    BY <1>1, <1>7 DEF TurnIInv, TurnKeepsItsMessage
  <2>2. Begins(lists'[history], snapshot)
    <3>1. CASE history = held
      <4>1. \A i \in 1 .. Len(s) : i \in 1 .. Len(u) /\ u[i] = s[i]
        BY <1>2, <1>3
      <4>2. snapshot \in 1 .. Len(s) /\ \A i \in 1 .. snapshot - 1 : i \in 1 .. Len(s)
        BY <1>2, <2>1, <3>1 DEF Begins
      <4> QED
        BY <1>4, <2>1, <3>1, <4>1, <4>2 DEF Begins
    <3>2. CASE history # held
      BY <1>1, <1>4, <2>1, <3>2
    <3> QED
      BY <3>1, <3>2
  <2> QED
    BY <2>1, <2>2 DEF Begins
<1> QED
  BY <1>1, <1>2, <1>3, <1>4, <1>5, <1>6, <1>7 DEF u

\* What the model says.
LEMMA ModelSpeaks ==
  ASSUME TurnIInv, turn = "ask", NEW t \in Seq(Turns!Message), Len(t) # 0,
         lists' = [lists EXCEPT ![held] = lists[held] \o t],
         Transcript(lists[held] \o t, count), \A i \in 1 .. Len(t) : t[i].role # "tool",
         UNCHANGED <<transcripts, current, history, count, window, held, sliceLen, snapshot, tail,
                     cmd, cmdHeld, cmdKept, raced, tainted, ran>>,
         pending' \in 0 .. MaxCalls,
         \/ /\ turn' = "ask" /\ outcome' = outcome
            /\ Turns!Answered(lists[held]) => Turns!Answered(lists[held] \o t)
         \/ /\ turn' = "finishing" /\ outcome' \in {"answered", "limit"} /\ t[Len(t)] = Turns!Reply(count)
            /\ Turns!Answered(lists[held]) => Turns!Answered(lists[held] \o t)
         \/ /\ turn' = "tools" /\ outcome' = outcome /\ Len(t) = 1 /\ t[1] = Turns!Calls(count, pending')
            /\ pending' # 0
  PROVE  TurnIInv'
<1>1. held \in Turns!Ref /\ turn # "idle" /\ ran = << >> /\ Turns!Running /\ Turns!Running'
      /\ sliceLen \in Nat
  BY DEF TurnIInv, TurnTypes, Turns!Running
<1> DEFINE s == lists[held]
           u == s \o t
<1>2. s \in Seq(Turns!Message) /\ Len(s) \in Nat /\ Len(t) \in Nat
  BY <1>1, TurnFacts
<1>3. /\ u \in Seq(Turns!Message) /\ Len(u) = Len(s) + Len(t)
      /\ \A i \in 1 .. Len(s) : u[i] = s[i]
      /\ \A i \in Len(s) + 1 .. Len(s) + Len(t) : u[i] = t[i - Len(s)]
      /\ \A i \in 1 .. Len(t) : u[i + Len(s)] = t[i]
  BY <1>2, JoinIs
<1>4. /\ lists' \in [Turns!Ref -> Seq(Turns!Message)]
      /\ lists'[held] = u /\ \A r \in Turns!Ref \ {held} : lists'[r] = lists[r]
      /\ ListsAreTranscripts'
      /\ ~tainted => /\ \A r \in Turns!Ref \ {held} : Turns!Answered(lists'[r])
                     /\ \A i \in 1 .. MaxSessions : Turns!Answered(transcripts'[i])
                     /\ Turns!Answered(tail') /\ Turns!Answered(cmdKept')
                     /\ snapshot' <= Len(lists'[history'])
                     /\ AnsweredTo(lists'[history'], snapshot')
      /\ ~raced => Begins(lists[history], snapshot)' /\ (window' = 0 => held' = history')
  BY HeldGrows
<1>5. Turns!Answered(s) => Turns!Answered(u) \/ turn' = "tools"
  OBVIOUS
<1>6. TurnTypes'
  BY <1>1, <1>4 DEF TurnIInv, TurnTypes, Turns!Running, Turns!TurnStates
<1>a. u = s \o t
  OBVIOUS
<1>b. s = lists[held]
  OBVIOUS
<1> HIDE DEF s, u
<1>7. turn' = "tools" => Results' = 0 /\ Len(u) = Len(s) + 1
                         /\ u[Len(u)] = Turns!Calls(count, pending')
  <2>1. ran' = << >> /\ Len(<< >>) = 0
    BY <1>1
  <2>2. turn' = "tools" => Len(t) = 1 /\ t[1] = Turns!Calls(count, pending')
    OBVIOUS
  <2>3. turn' = "tools" => 1 \in 1 .. Len(t) /\ Len(u) = Len(s) + 1 /\ 1 + Len(s) = Len(s) + 1
    <3>1. turn' = "tools" => Len(t) = 1
      OBVIOUS
    <3>2. Len(t) = 1 => Len(u) = Len(s) + 1 /\ 1 + Len(s) = Len(s) + 1 /\ 1 \in 1 .. Len(t)
      BY <1>2, <1>3
    <3> QED
      BY <3>1, <3>2
  <2> QED
    BY <1>3, <2>1, <2>2, <2>3 DEF Results
<1>8. ToolsFollowTheirCall'
  <2> SUFFICES ASSUME turn' = "tools" PROVE ToolsFollowTheirCall'
    BY DEF ToolsFollowTheirCall
  <2>1. Results' = 0 /\ lists'[held'] = u /\ u[Len(u)] = Turns!Calls(count', pending') /\ Len(u) >= 1
        /\ Len(u) \in Nat /\ 0 < pending' /\ Len(u) - 0 = Len(u)
    BY <1>2, <1>3, <1>4, <1>6, <1>7, TurnConstants DEF TurnTypes
  <2>2. 1 .. 0 = {}
    OBVIOUS
  <2> QED
    BY <2>1, <2>2 DEF ToolsFollowTheirCall
<1>9. ListsAreAnswered'
  <2> SUFFICES ASSUME ~tainted PROVE ListsAreAnswered'
    BY DEF ListsAreAnswered
  <2>1. Turns!Answered(s)
    BY <1>1, <1>b DEF TurnIInv, ListsAreAnswered
  <2>2. turn' = "tools" => AnsweredTo(u, Len(u) - Results' - 1)
    <3>1. AnsweredTo(s, Len(s)) /\ Len(s) \in 0 .. Len(s)
      BY <1>2, <2>1, AnsweredIs
    <3>2. AnsweredTo(u, Len(s))
      BY <1>2, <1>a, <3>1, AnsweredGrows
    <3>3. turn' = "tools" => Len(u) - Results' - 1 = Len(s)
      BY <1>2, <1>7
    <3> QED
      BY <3>2, <3>3
  <2>3. (turn' = "tools") \/ Turns!Answered(lists'[held])
    BY <1>4, <1>5, <2>1
  <2>4. \A r \in Turns!Ref : (turn' = "tools" /\ r = held') \/ Turns!Answered(lists'[r])
    BY <1>4, <2>3
  <2> QED
    BY <1>4, <2>2, <2>4 DEF ListsAreAnswered
<1>10. RunIsLinked'
  <2> SUFFICES ASSUME window # 0 PROVE RunIsLinked'
    BY DEF RunIsLinked
  <2>1. sliceLen \in 0 .. Len(s) /\ LinkedFrom(s, sliceLen)
    BY <1>1, <1>2, <1>b DEF TurnIInv, RunIsLinked
  <2>2. \A i \in Len(s) + 1 .. Len(s) + Len(t) : u[i].role # "tool"
    <3>1. \A i \in Len(s) + 1 .. Len(s) + Len(t) : i - Len(s) \in 1 .. Len(t)
      BY <1>2
    <3> QED
      BY <1>3, <3>1
  <2>3. LinkedFrom(u, sliceLen)
    BY <1>2, <1>a, <2>1, <2>2, LinkedFromJoin
  <2>4. sliceLen <= Len(u) /\ (turn' = "tools" => Len(u) - Results' > sliceLen)
    BY <1>1, <1>2, <1>3, <1>7, <2>1
  <2> QED
    BY <1>4, <2>3, <2>4 DEF RunIsLinked
<1>11. TurnKeepsItsMessage'
  <2> SUFFICES ASSUME ~raced PROVE TurnKeepsItsMessage'
    BY DEF TurnKeepsItsMessage
  <2>1. turn' = "finishing" => Turns!Last(u) = Turns!Reply(count)
    <3>1. Len(t) \in 1 .. Len(t) /\ Len(u) = Len(t) + Len(s)
      BY <1>2, <1>3
    <3>2. u[Len(t) + Len(s)] = t[Len(t)]
      BY <1>3, <3>1
    <3> QED
      BY <3>1, <3>2 DEF Turns!Last
  <2>2. Len(u) > sliceLen
    <3>1. sliceLen <= Len(s)
      <4>1. CASE window = 0
        BY <1>1, <1>2, <4>1 DEF TurnIInv, TurnTypes
      <4>2. CASE window # 0
        BY <1>b, <4>2 DEF TurnIInv, RunIsLinked
      <4> QED
        BY <4>1, <4>2
    <3> QED
      BY <1>1, <1>2, <1>3, <3>1
  <2> QED
    BY <1>4, <2>1, <2>2 DEF TurnKeepsItsMessage
<1> QED
  BY <1>4, <1>6, <1>8, <1>9, <1>10, <1>11 DEF TurnIInv

\* Recoveries, answers, the round limit and the calls.
LEMMA ModelSteps ==
  ASSUME TurnIInv,
         Turns!Recover \/ Turns!CallNothing \/ Turns!Answer \/ Turns!RoundLimit \/ Turns!CallTools
  PROVE  TurnIInv'
<1> USE DEF Turns!file_vars, Turns!run_vars, Turns!cmd_vars, Turns!ghosts, Turns!Extend, Turns!NextRound,
            Turns!Thinking
<1>1. turn = "ask"
  BY DEF Turns!Recover, Turns!CallNothing, Turns!Answer, Turns!RoundLimit, Turns!CallTools
<1>2. /\ held \in Turns!Ref /\ lists[held] \in Seq(Turns!Message) /\ Transcript(lists[held], count)
      /\ count \in 1 .. MaxTurns /\ count \in 0 .. MaxTurns /\ pending \in 0 .. MaxCalls
  <2>1. held \in Turns!Ref /\ pending \in 0 .. MaxCalls
    BY <1>1 DEF TurnIInv, TurnTypes, Turns!Running
  <2> QED
    BY <1>1, <2>1, TurnFacts
<1>3. Turns!Reply(count) \in Turns!Message /\ Turns!User(count) \in Turns!Message
  BY <1>2, MessagesAre, TurnConstants
<1>4. /\ Transcript(lists[held] \o <<Turns!Reply(count)>>, count)
      /\ Transcript(lists[held] \o <<Turns!Reply(count), Turns!User(count)>>, count)
      /\ \A k \in 1 .. MaxCalls : Transcript(lists[held] \o <<Turns!Calls(count, k)>>, count)
  BY <1>2, SaidIsTranscript
<1>5. /\ Turns!Answered(lists[held]) => Turns!Answered(lists[held] \o <<Turns!Reply(count)>>)
      /\ Turns!Answered(lists[held]) =>
           Turns!Answered(lists[held] \o <<Turns!Reply(count), Turns!User(count)>>)
  BY <1>2, SaidIsAnswered
<1>6. CASE Turns!CallNothing \/ Turns!Answer \/ Turns!RoundLimit
  <2>1. PICK t : t = <<Turns!Reply(count)>>
    OBVIOUS
  <2>2. /\ t \in Seq(Turns!Message) /\ Len(t) = 1 /\ t[1] = Turns!Reply(count) /\ Len(t) # 0
        /\ t[Len(t)] = Turns!Reply(count)
    BY <1>3, <2>1
  <2>3. \A i \in 1 .. Len(t) : t[i].role # "tool"
    BY <2>2 DEF Turns!Reply
  <2>4. lists' = [lists EXCEPT ![held] = lists[held] \o t]
    BY <1>6, <2>1 DEF Turns!CallNothing, Turns!Answer, Turns!RoundLimit
  <2>5. /\ UNCHANGED <<transcripts, current, history, count, window, held, sliceLen, snapshot, tail,
                       cmd, cmdHeld, cmdKept, raced, tainted, ran, pending>>
        /\ \/ turn' = "ask" /\ outcome' = outcome
           \/ turn' = "finishing" /\ outcome' \in {"answered", "limit"}
    BY <1>6 DEF Turns!CallNothing, Turns!Answer, Turns!RoundLimit
  <2> QED
    BY <1>1, <1>2, <1>4, <1>5, <2>1, <2>2, <2>3, <2>4, <2>5, ModelSpeaks
<1>7. CASE Turns!Recover
  <2>1. PICK t : t = <<Turns!Reply(count), Turns!User(count)>>
    OBVIOUS
  <2>2. t \in Seq(Turns!Message) /\ Len(t) = 2 /\ t[1] = Turns!Reply(count) /\ t[2] = Turns!User(count)
        /\ Len(t) # 0
    BY <1>3, <2>1
  <2>3. \A i \in 1 .. Len(t) : t[i].role # "tool"
    <3>1. \A i \in 1 .. Len(t) : i = 1 \/ i = 2
      BY <2>2
    <3> QED
      BY <2>2, <3>1 DEF Turns!Reply, Turns!User
  <2>4. lists' = [lists EXCEPT ![held] = lists[held] \o t]
    BY <1>7, <2>1 DEF Turns!Recover
  <2>5. /\ UNCHANGED <<transcripts, current, history, count, window, held, sliceLen, snapshot, tail,
                       cmd, cmdHeld, cmdKept, raced, tainted, ran, pending>>
        /\ turn' = "ask" /\ outcome' = outcome
    BY <1>7 DEF Turns!Recover
  <2> QED
    BY <1>1, <1>2, <1>4, <1>5, <2>1, <2>2, <2>3, <2>4, <2>5, ModelSpeaks
<1>8. CASE Turns!CallTools
  <2>1. PICK n \in 1 .. MaxCalls : /\ pending' = n
                                   /\ lists' = [lists EXCEPT ![held] = lists[held] \o <<Turns!Calls(count, n)>>]
    BY <1>8 DEF Turns!CallTools
  <2>2. PICK t : t = <<Turns!Calls(count, n)>>
    OBVIOUS
  <2>3. t \in Seq(Turns!Message) /\ Len(t) = 1 /\ t[1] = Turns!Calls(count, n) /\ Len(t) # 0
        /\ n \in 0 .. MaxCalls /\ n # 0
    <3>1. n \in 0 .. MaxCalls /\ n # 0
      BY TurnConstants
    <3>2. Turns!Calls(count, n) \in Turns!Message
      BY <1>2, <3>1, MessagesAre
    <3> QED
      BY <2>2, <3>1, <3>2
  <2>4. \A i \in 1 .. Len(t) : t[i].role # "tool"
    BY <2>3 DEF Turns!Calls
  <2>5. /\ UNCHANGED <<transcripts, current, history, count, window, held, sliceLen, snapshot, tail,
                       cmd, cmdHeld, cmdKept, raced, tainted, ran>>
        /\ turn' = "tools" /\ outcome' = outcome
    BY <1>8 DEF Turns!CallTools
  <2>6. Transcript(lists[held] \o t, count) /\ lists' = [lists EXCEPT ![held] = lists[held] \o t]
    BY <1>4, <2>1, <2>2
  <2> QED
    BY <1>1, <2>1, <2>3, <2>4, <2>5, <2>6, ModelSpeaks
<1> QED
  BY <1>6, <1>7, <1>8

\* Results are appended: one after the other, or all of them when they are there.
LEMMA ResultsCome ==
  ASSUME TurnIInv, turn = "tools", NEW t \in Seq(Turns!Message), Results + Len(t) <= pending,
         \A k \in 1 .. Len(t) : t[k] = Turns!Result(count, Results + k),
         lists' = [lists EXCEPT ![held] = lists[held] \o t],
         UNCHANGED <<transcripts, current, history, count, window, held, sliceLen, snapshot, tail,
                     cmd, cmdHeld, cmdKept, raced, tainted, outcome>>,
         \/ /\ turn' = "ask" /\ pending' = 0 /\ ran' = << >> /\ Results + Len(t) = pending
         \/ /\ turn' = "tools" /\ UNCHANGED <<pending, parallel>> /\ ran' \in Seq(Nat)
            /\ Results' = Results + Len(t) /\ Results' < pending
  PROVE  TurnIInv'
<1>1. /\ held \in Turns!Ref /\ Turns!Running /\ Turns!Running' /\ sliceLen \in Nat
      /\ pending \in Nat /\ ran \in Seq(Nat) /\ count \in Nat
  BY TurnConstants, TurnFacts DEF TurnIInv, TurnTypes, Turns!Running
<1>2. Results \in Nat
  BY <1>1 DEF Results
<1> DEFINE s == lists[held]
           u == s \o t
           d == Results
<1>3. s \in Seq(Turns!Message) /\ Len(s) \in Nat /\ Len(t) \in Nat /\ Transcript(s, count)
  BY <1>1, TurnFacts
<1>4. IsWaiting(s, count, pending, d)
  BY <1>1 DEF TurnIInv, ToolsFollowTheirCall, IsWaiting
<1>a. /\ u = s \o t /\ s = lists[held] /\ d = Results
      /\ d + Len(t) <= pending /\ \A k \in 1 .. Len(t) : t[k] = Turns!Result(count, d + k)
  OBVIOUS
<1> HIDE DEF s, u, d
<1>5. Transcript(u, count)
  BY <1>1, <1>2, <1>3, <1>4, <1>a, ResultsAreTranscript
<1>6. /\ IsWaiting(u, count, pending, d + Len(t))
      /\ \A i \in Len(s) + 1 .. Len(s) + Len(t) : Linked(u, i) /\ i - u[i].n = Len(s) - d
  <2>0. /\ count \in Nat /\ pending \in Nat /\ d \in Nat /\ s \in Seq(Turns!Message)
        /\ IsWaiting(s, count, pending, d) /\ d + Len(t) <= pending
        /\ \A k \in 1 .. Len(t) : t[k] = Turns!Result(count, d + k)
    BY <1>1, <1>2, <1>3, <1>4, <1>a
  <2>1. IsWaiting(s \o t, count, pending, d + Len(t)) /\ ComeLinked(s, t, d)
    BY <2>0, ResultsAreLinked
  <2> QED
    BY <2>1, <1>a DEF ComeLinked
<1>7. u \in Seq(Turns!Message) /\ Len(u) = Len(s) + Len(t)
  BY <1>3, <1>a, JoinIs
<1>8. /\ lists' \in [Turns!Ref -> Seq(Turns!Message)]
      /\ lists'[held] = u /\ \A r \in Turns!Ref \ {held} : lists'[r] = lists[r]
      /\ ListsAreTranscripts'
      /\ ~tainted => /\ \A r \in Turns!Ref \ {held} : Turns!Answered(lists'[r])
                     /\ \A i \in 1 .. MaxSessions : Turns!Answered(transcripts'[i])
                     /\ Turns!Answered(tail') /\ Turns!Answered(cmdKept')
                     /\ snapshot' <= Len(lists'[history'])
                     /\ AnsweredTo(lists'[history'], snapshot')
      /\ ~raced => Begins(lists[history], snapshot)' /\ (window' = 0 => held' = history')
  BY <1>5, <1>a, HeldGrows
<1>9. TurnTypes'
  <2>1. CASE turn' = "ask"
    <3>1. pending' = 0 /\ 0 \in 0 .. MaxCalls /\ ran' = << >> /\ << >> \in Seq(Nat)
      BY <2>1, TurnConstants
    <3>2. turn' \in Turns!TurnStates
      BY <2>1 DEF Turns!TurnStates
    <3> QED
      BY <1>1, <1>8, <2>1, <3>1, <3>2 DEF TurnIInv, TurnTypes
  <2>2. CASE turn' = "tools"
    <3>1. pending' = pending /\ pending \in 0 .. MaxCalls /\ pending # 0 /\ ran' \in Seq(Nat)
      BY <2>2 DEF TurnIInv, TurnTypes
    <3>2. turn' \in Turns!TurnStates
      BY <2>2 DEF Turns!TurnStates
    <3> QED
      BY <1>1, <1>8, <2>2, <3>1, <3>2 DEF TurnIInv, TurnTypes
  <2> QED
    BY <2>1, <2>2
<1>10. ToolsFollowTheirCall'
  BY <1>6, <1>8, <1>a DEF ToolsFollowTheirCall, IsWaiting
<1>11. ListsAreAnswered'
  <2> SUFFICES ASSUME ~tainted PROVE ListsAreAnswered'
    BY DEF ListsAreAnswered
  <2>1. AnsweredTo(s, Len(s) - d - 1) /\ Len(s) - d >= 1
    BY <1>4, <1>a DEF TurnIInv, ListsAreAnswered, IsWaiting
  <2>2. Len(s) - d - 1 \in 0 .. Len(s)
    BY <1>2, <1>3, <1>a, <2>1
  <2>3. AnsweredTo(u, Len(s) - d - 1)
    BY <1>3, <1>a, <2>1, <2>2, AnsweredGrows
  <2>4. Len(u) - (d + Len(t)) - 1 = Len(s) - d - 1
    BY <1>2, <1>3, <1>7, <1>a
  <2>5. turn' = "ask" => Turns!Answered(u)
    <3>1. turn' = "ask" => d + Len(t) = pending
      BY <1>a
    <3> QED
      BY <1>1, <1>6, <1>7, <2>3, <2>4, <3>1, ResultsAnswer
  <2>6. turn' = "tools" => AnsweredTo(u, Len(u) - Results' - 1)
    BY <1>a, <2>3, <2>4
  <2> QED
    BY <1>8, <2>5, <2>6 DEF ListsAreAnswered
<1>12. RunIsLinked'
  <2> SUFFICES ASSUME window # 0 PROVE RunIsLinked'
    BY DEF RunIsLinked
  <2>1. sliceLen \in 0 .. Len(s) /\ LinkedFrom(s, sliceLen) /\ Len(s) - d > sliceLen
    BY <1>1, <1>3, <1>a DEF TurnIInv, RunIsLinked
  <2>2. LinkedFrom(u, sliceLen)
    BY <1>3, <1>6, <1>a, <2>1, LinkedFromJoin, ZenonT(30)
  <2>3. sliceLen <= Len(u) /\ Len(u) - (d + Len(t)) > sliceLen
    BY <1>1, <1>2, <1>3, <1>7, <1>a, <2>1
  <2> QED
    BY <1>8, <1>a, <2>2, <2>3 DEF RunIsLinked
<1>13. TurnKeepsItsMessage'
  BY <1>8 DEF TurnKeepsItsMessage
<1> QED
  BY <1>8, <1>9, <1>10, <1>11, <1>12, <1>13 DEF TurnIInv

\* Tools run one after the other, or their results are collected.
LEMMA ToolSteps ==
  ASSUME TurnIInv, Turns!RunNextTool \/ Turns!CollectResults
  PROVE  TurnIInv'
<1> USE DEF Turns!file_vars, Turns!run_vars, Turns!cmd_vars, Turns!ghosts, Turns!Extend, Turns!NextRound,
            Turns!EndTools
<1>1. /\ turn = "tools" /\ count \in 0 .. MaxTurns /\ pending \in Nat /\ pending <= MaxCalls
      /\ ran \in Seq(Nat) /\ Len(ran) \in Nat /\ Results < pending
  <2>1. turn = "tools"
    BY DEF Turns!RunNextTool, Turns!CollectResults
  <2>2. Results < pending
    BY <2>1 DEF TurnIInv, ToolsFollowTheirCall
  <2> QED
    BY <2>1, <2>2, TurnConstants DEF TurnIInv, TurnTypes
<1>2. UNCHANGED <<transcripts, current, history, count, window, held, sliceLen, snapshot, tail,
                  cmd, cmdHeld, cmdKept, raced, tainted, outcome>>
  BY DEF Turns!RunNextTool, Turns!CollectResults
<1>3. \A k \in 1 .. pending : Turns!Result(count, k) \in Turns!Message
  BY <1>1, MessagesAre, TurnConstants
<1>4. CASE Turns!RunNextTool
  <2>1. ~parallel /\ Results = Len(ran)
    BY <1>4 DEF Turns!RunNextTool, Results
  <2>2. PICK k : k = Len(ran) + 1
    OBVIOUS
  <2>3. k \in 1 .. pending /\ k \in Nat /\ k = Results + 1
    BY <1>1, <2>1, <2>2
  <2>4. PICK t : t = <<Turns!Result(count, k)>>
    OBVIOUS
  <2>5. /\ t \in Seq(Turns!Message) /\ Len(t) = 1 /\ t[1] = Turns!Result(count, k)
        /\ Results + Len(t) <= pending /\ \A i \in 1 .. Len(t) : t[i] = Turns!Result(count, Results + i)
    BY <1>3, <2>1, <2>3, <2>4
  <2>6. lists' = [lists EXCEPT ![held] = lists[held] \o t]
    BY <1>4, <2>2, <2>4 DEF Turns!RunNextTool
  <2>7. CASE k = pending
    <3>1. turn' = "ask" /\ pending' = 0 /\ ran' = << >> /\ Results + Len(t) = pending
      BY <1>4, <2>2, <2>3, <2>5, <2>7 DEF Turns!RunNextTool
    <3> QED
      BY <1>1, <1>2, <2>5, <2>6, <3>1, ResultsCome
  <2>8. CASE k # pending
    <3>1. ran' = Append(ran, k) /\ UNCHANGED <<turn, pending, parallel>>
      BY <1>4, <2>2, <2>8 DEF Turns!RunNextTool
    <3>2. ran' \in Seq(Nat) /\ Len(ran') = Len(ran) + 1
      BY <1>1, <2>3, <3>1
    <3>3. Results' = Results + Len(t) /\ Results' < pending
      <4>1. Results' = Len(ran')
        BY <2>1, <3>1 DEF Results
      <4> QED
        BY <1>1, <2>1, <2>2, <2>3, <2>5, <2>8, <3>2, <4>1
    <3> QED
      BY <1>1, <1>2, <2>5, <2>6, <3>1, <3>2, <3>3, ResultsCome
  <2> QED
    BY <2>7, <2>8
<1>5. CASE Turns!CollectResults
  <2>1. Results = 0
    BY <1>5 DEF Turns!CollectResults, Results
  <2>2. PICK t : t = [k \in 1 .. pending |-> Turns!Result(count, k)]
    OBVIOUS
  <2>3. t \in Seq(Turns!Message) /\ Len(t) = pending
    BY <1>1, <1>3, <2>2, IsASeq
  <2>4. \A k \in 1 .. Len(t) : t[k] = Turns!Result(count, Results + k)
    BY <1>1, <2>1, <2>2, <2>3
  <2>5. lists' = [lists EXCEPT ![held] = lists[held] \o t]
    BY <1>5, <2>2 DEF Turns!CollectResults
  <2>6. turn' = "ask" /\ pending' = 0 /\ ran' = << >> /\ Results + Len(t) = pending
        /\ Results + Len(t) <= pending
    BY <1>1, <1>5, <2>1, <2>3 DEF Turns!CollectResults
  <2> QED
    BY <1>1, <1>2, <2>3, <2>4, <2>5, <2>6, ResultsCome
<1> QED
  BY <1>4, <1>5

\* The compaction of a turn, and the save before the run.
LEMMA CompactionSteps ==
  ASSUME TurnIInv,
         Turns!StartCompaction \/ Turns!InstallCompaction \/ Turns!AbandonCompaction \/ Turns!SaveUserMessage
  PROVE  TurnIInv'
<1> USE DEF Turns!file_vars, Turns!run_vars, Turns!cmd_vars, Turns!ghosts
<1> DEFINE s == lists[history]
<1>0. /\ s \in Seq(Turns!Message) /\ Len(s) \in Nat /\ Transcript(s, count) /\ history \in Turns!Ref
      /\ count \in Nat /\ lists \in [Turns!Ref -> Seq(Turns!Message)]
      /\ held \in Turns!Ref \cup {Turns!NoList} /\ current \in 1 .. MaxSessions
  BY TurnFacts DEF TurnIInv, TurnTypes
<1>1. CASE Turns!StartCompaction
  <2>1. PICK i \in 1 .. Len(s) - 1 : tail' = Turns!Tail_(s, i)
    BY <1>1 DEF Turns!StartCompaction, Turns!Splits
  <2>2. /\ turn = "begun" /\ turn' = "summarising" /\ held' = history
        /\ UNCHANGED <<transcripts, current, lists, history, count, window, sliceLen, snapshot, pending,
                       parallel, ran, cmd, cmdHeld, cmdKept, outcome, raced, tainted>>
    BY <1>1 DEF Turns!StartCompaction
  <2>3. i \in 0 .. Len(s) /\ i \in Nat
    BY <1>0
  <2>4. Transcript(tail', count)
    BY <1>0, <2>1, <2>3, TailIsTranscript
  <2>5. TurnTypes'
    BY <1>0, <2>2 DEF TurnIInv, TurnTypes, Turns!Running, Turns!TurnStates
  <2>6. ListsAreTranscripts'
    BY <1>0, <2>2, <2>4, TranscriptsStay DEF TurnIInv
  <2>7. ToolsFollowTheirCall' /\ RunIsLinked'
    BY <2>2 DEF ToolsFollowTheirCall, RunIsLinked
  <2>8. ListsAreAnswered'
    <3> SUFFICES ASSUME ~tainted PROVE ListsAreAnswered'
      BY <2>2 DEF ListsAreAnswered
    <3>1. Turns!Answered(s)
      BY <1>0, <2>2 DEF TurnIInv, ListsAreAnswered
    <3>2. Turns!Answered(tail')
      BY <1>0, <2>1, <2>3, <3>1, TailIsAnswered
    <3> QED
      BY <2>2, <3>2 DEF TurnIInv, ListsAreAnswered, Turns!Running
  <2>9. TurnKeepsItsMessage'
    <3> SUFFICES ASSUME ~raced PROVE TurnKeepsItsMessage'
      BY <2>2 DEF TurnKeepsItsMessage
    <3>1. Begins(s, Len(s))
      BY <2>2 DEF TurnIInv, TurnKeepsItsMessage
    <3>2. Len(tail') = Len(s) - i /\ \A j \in 1 .. Len(s) - i : tail'[j] = s[j + i]
      BY <1>0, <2>1, <2>3, TailIs
    <3>a. s = lists[history]
      OBVIOUS
    <3> HIDE DEF s
    <3>3. /\ Len(s) - i \in 1 .. Len(s) - i /\ Len(s) - i + i = Len(s)
          /\ \A j \in 1 .. Len(s) - i - 1 : j \in 1 .. Len(s) - i /\ j + i \in 1 .. Len(s) - 1
      BY <1>0, <2>1, <2>3
    <3>4. Begins(tail, Len(tail))'
      BY <2>2, <3>1, <3>2, <3>3 DEF Begins
    <3>5. Begins(lists[history], Len(lists[history]))'
      BY <2>2, <3>1, <3>a DEF Begins
    <3> QED
      BY <2>2, <3>4, <3>5 DEF TurnKeepsItsMessage, Turns!Running
  <2> QED
    BY <2>5, <2>6, <2>7, <2>8, <2>9 DEF TurnIInv
<1>2. CASE Turns!InstallCompaction
  <2> DEFINE u == Turns!Compacted(tail)
  <2>1. /\ turn = "summarising" /\ turn' = "prepared" /\ held' = Turns!NoList /\ tail' = << >>
        /\ history' = Turns!Fresh
        /\ lists' = Turns!Collect([lists EXCEPT ![Turns!Fresh] = u], {cmdHeld} \cup {Turns!Fresh})
        /\ UNCHANGED <<transcripts, current, count, window, sliceLen, snapshot, pending,
                       parallel, ran, cmd, cmdHeld, cmdKept, outcome, raced, tainted>>
    BY <1>2 DEF Turns!InstallCompaction, Turns!Replace
  <2>2. /\ tail \in Seq(Turns!Message) /\ Transcript(tail, count)
        /\ u \in Seq(Turns!Message) /\ Transcript(u, count)
        /\ << >> \in Seq(Turns!Message)
        /\ Turns!Fresh \in Turns!Ref
    BY <1>0, TurnFacts, FreshIs, CompactedIs, CompactedIsTranscript DEF TurnIInv
  <2> HIDE DEF u
  <2>3. /\ lists' \in [Turns!Ref -> Seq(Turns!Message)] /\ lists'[history'] = u /\ history' \in Turns!Ref
        /\ \A r \in Turns!Ref \ {history'} : lists'[r] = lists[r] \/ lists'[r] = << >>
    BY <1>0, <2>1, <2>2 DEF Turns!Collect
  <2>4. TurnTypes'
    BY <1>0, <2>1, <2>3 DEF TurnIInv, TurnTypes, Turns!Running, Turns!TurnStates
  <2>5. ListsAreTranscripts'
    <3>0. \A c : Transcript(<< >>, c)
      BY EmptyIsTranscript
    <3>1. \A r \in Turns!Ref : lists'[r] = lists[r] \/ Transcript(lists'[r], count')
      <4>1. count' = count
        BY <2>1
      <4>2. Transcript(lists'[history'], count')
        BY <2>2, <2>3, <4>1
      <4> QED
        BY <2>3, <3>0, <4>2
    <3>2. /\ Transcript(tail', count') /\ count' \in Nat /\ count <= count'
          /\ cmdKept' = cmdKept /\ transcripts' = transcripts
      BY <1>0, <2>1, <3>0
    <3> QED
      BY <1>0, <3>1, <3>2, TranscriptsStay DEF TurnIInv
  <2>6. ToolsFollowTheirCall' /\ RunIsLinked'
    BY <2>1 DEF ToolsFollowTheirCall, RunIsLinked
  <2>7. ListsAreAnswered'
    <3> SUFFICES ASSUME ~tainted PROVE ListsAreAnswered'
      BY <2>1 DEF ListsAreAnswered
    <3>1. Turns!Answered(u) /\ Turns!Answered(<< >>)
      <4>1. Turns!Answered(tail)
        BY DEF TurnIInv, ListsAreAnswered
      <4> QED
        BY <2>2, <4>1, CompactedIsAnswered, EmptyIsTranscript DEF u
    <3> QED
      BY <2>1, <2>3, <3>1 DEF TurnIInv, ListsAreAnswered, Turns!Running
  <2>8. TurnKeepsItsMessage'
    <3> SUFFICES ASSUME ~raced PROVE TurnKeepsItsMessage'
      BY <2>1 DEF TurnKeepsItsMessage
    <3> DEFINE n == Len(tail)
    <3>1. Begins(tail, n) /\ count # 0
      BY <2>1 DEF TurnIInv, TurnKeepsItsMessage, TurnTypes
    <3>2. /\ Len(u) = n + 2 /\ u[1] = Turns!User(0) /\ u[2] = Turns!Reply(0)
          /\ \A i \in 3 .. n + 2 : u[i] = tail[i - 2]
      BY <2>2, CompactedIs DEF u
    <3>3. n \in Nat /\ n >= 1
      BY <2>2, <3>1 DEF Begins
    <3> HIDE DEF n
    <3>4. n + 2 \in 3 .. n + 2 /\ n + 2 - 2 = n /\ n + 2 \in 1 .. n + 2
      BY <3>3
    <3>5. u[n + 2] = Turns!User(count)
      BY <3>1, <3>2, <3>4 DEF Begins
    <3>6. ASSUME NEW i \in 1 .. n + 2 - 1 PROVE u[i].turn # count
      <4>1. i = 1 \/ i = 2 \/ (i \in 3 .. n + 2 /\ i - 2 \in 1 .. n - 1)
        BY <3>3
      <4>2. u[1].turn = 0 /\ u[2].turn = 0
        BY <3>2 DEF Turns!User, Turns!Reply
      <4> QED
        BY <3>1, <3>2, <4>1, <4>2 DEF Begins
    <3>7. Begins(lists[history], Len(lists[history]))'
      <4>1. lists'[history'] = u /\ count' = count /\ Len(u) = n + 2
        BY <2>1, <2>3, <3>2
      <4>2. Len(u) \in 1 .. Len(u) /\ u[Len(u)] = Turns!User(count)
            /\ \A i \in 1 .. Len(u) - 1 : u[i].turn # count
        <5>1. Len(u) = n + 2
          BY <4>1
        <5> QED
          BY <3>3, <3>4, <3>5, <3>6, <5>1
      <4> QED
        BY <4>1, <4>2 DEF Begins
    <3> QED
      BY <2>1, <3>7 DEF TurnKeepsItsMessage, Turns!Running
  <2> QED
    BY <2>4, <2>5, <2>6, <2>7, <2>8 DEF TurnIInv
<1>3. CASE Turns!AbandonCompaction
  <2>1. /\ turn = "summarising" /\ turn' = "prepared" /\ held' = Turns!NoList /\ tail' = << >>
        /\ history' = held /\ lists' = Turns!Collect(lists, {held, cmdHeld})
        /\ UNCHANGED <<transcripts, current, count, window, sliceLen, snapshot, pending,
                       parallel, ran, cmd, cmdHeld, cmdKept, outcome, raced, tainted>>
    BY <1>3 DEF Turns!AbandonCompaction
  <2>2. held \in Turns!Ref /\ << >> \in Seq(Turns!Message)
    BY <2>1 DEF TurnIInv, TurnTypes
  <2>3. /\ lists' \in [Turns!Ref -> Seq(Turns!Message)] /\ lists'[held] = lists[held]
        /\ \A r \in Turns!Ref : lists'[r] = lists[r] \/ lists'[r] = << >>
    BY <1>0, <2>1, <2>2 DEF Turns!Collect
  <2>4. TurnTypes'
    BY <1>0, <2>1, <2>2, <2>3 DEF TurnIInv, TurnTypes, Turns!Running, Turns!TurnStates
  <2>5. ListsAreTranscripts'
    <3>0. \A c : Transcript(<< >>, c)
      BY EmptyIsTranscript
    <3>1. \A r \in Turns!Ref : lists'[r] = lists[r] \/ Transcript(lists'[r], count')
      BY <2>3, <3>0
    <3>2. /\ Transcript(tail', count') /\ count' \in Nat /\ count <= count'
          /\ cmdKept' = cmdKept /\ transcripts' = transcripts
      BY <1>0, <2>1, <3>0
    <3> QED
      BY <1>0, <3>1, <3>2, TranscriptsStay DEF TurnIInv
  <2>6. ToolsFollowTheirCall' /\ RunIsLinked'
    BY <2>1 DEF ToolsFollowTheirCall, RunIsLinked
  <2>7. ListsAreAnswered'
    BY <2>1, <2>3, EmptyIsTranscript DEF TurnIInv, ListsAreAnswered, Turns!Running
  <2>8. TurnKeepsItsMessage'
    <3>1. ~raced => held = history /\ Begins(lists[history], Len(lists[history]))
      BY <2>1 DEF TurnIInv, TurnKeepsItsMessage
    <3>2. ~raced => Begins(lists[history], Len(lists[history]))'
      BY <2>1, <2>3, <3>1 DEF Begins
    <3> QED
      BY <2>1, <3>2 DEF TurnKeepsItsMessage, Turns!Running
  <2> QED
    BY <2>4, <2>5, <2>6, <2>7, <2>8 DEF TurnIInv
<1>4. CASE Turns!SaveUserMessage
  <2>1. /\ turn = "prepared" /\ turn' = "saved" /\ transcripts' = [transcripts EXCEPT ![current] = s]
        /\ UNCHANGED <<current, lists, history, held, tail, count, window, sliceLen, snapshot, pending,
                       parallel, ran, cmd, cmdHeld, cmdKept, outcome, raced, tainted>>
    BY <1>4 DEF Turns!SaveUserMessage, Turns!Save
  <2>2. /\ transcripts' \in [1 .. MaxSessions -> Seq(Turns!Message)]
        /\ \A i \in 1 .. MaxSessions : transcripts'[i] = transcripts[i] \/ transcripts'[i] = s
    BY <1>0, <2>1 DEF TurnIInv, TurnTypes
  <2>3. TurnTypes'
    BY <1>0, <2>1, <2>2 DEF TurnIInv, TurnTypes, Turns!Running, Turns!TurnStates
  <2>4. ListsAreTranscripts'
    <3>1. \A i \in 1 .. MaxSessions : transcripts'[i] = transcripts[i] \/ Transcript(transcripts'[i], count')
      BY <1>0, <2>1, <2>2
    <3> QED
      BY <1>0, <2>1, <3>1, TranscriptsStay DEF TurnIInv
  <2>5. ToolsFollowTheirCall' /\ RunIsLinked'
    BY <2>1 DEF ToolsFollowTheirCall, RunIsLinked
  <2>6. ListsAreAnswered'
    BY <1>0, <2>1, <2>2 DEF TurnIInv, ListsAreAnswered, Turns!Running
  <2>7. TurnKeepsItsMessage'
    BY <2>1 DEF TurnIInv, TurnKeepsItsMessage, Begins, Turns!Running
  <2> QED
    BY <2>3, <2>4, <2>5, <2>6, <2>7 DEF TurnIInv
<1> QED
  BY <1>1, <1>2, <1>3, <1>4

\* The turn ends, or the process does: what is left are transcripts.
LEMMA TurnEnds ==
  ASSUME TurnIInv, turn' = "idle", count' = count, ran' = << >>, tail' \in {tail, << >>},
         cmdKept' \in {cmdKept, << >>},
         lists' \in [Turns!Ref -> Seq(Turns!Message)], history' \in Turns!Ref,
         transcripts' \in [1 .. MaxSessions -> Seq(Turns!Message)], current' \in 1 .. MaxSessions,
         window' \in Windows \cup {0}, held' \in Turns!Ref \cup {Turns!NoList},
         cmdHeld' \in Turns!Ref \cup {Turns!NoList}, cmd' # "idle" => cmdHeld' \in Turns!Ref,
         sliceLen' \in Nat, snapshot' \in Nat, pending' \in 0 .. MaxCalls,
         \A r \in Turns!Ref : lists'[r] = lists[r] \/ Transcript(lists'[r], count),
         \A i \in 1 .. MaxSessions :
           transcripts'[i] = transcripts[i] \/ Transcript(transcripts'[i], count),
         ~tainted' => /\ ~tainted
                      /\ \A r \in Turns!Ref : Turns!Answered(lists'[r])
                      /\ \A i \in 1 .. MaxSessions : Turns!Answered(transcripts'[i])
  PROVE  TurnIInv'
<1>1. TurnTypes'
  BY SMTT(30) DEF TurnIInv, TurnTypes, Turns!Running, Turns!TurnStates
<1>2. ListsAreTranscripts'
  <2>1. \A c : Transcript(<< >>, c)
    BY EmptyIsTranscript
  <2>2. /\ tail' = tail \/ Transcript(tail', count')
        /\ cmdKept' = cmdKept \/ Transcript(cmdKept', count')
    BY <2>1
  <2>3. count \in Nat /\ count <= count /\ count' \in Nat /\ count <= count'
    BY TurnFacts
  <2> QED
    BY <2>2, <2>3, TranscriptsStay DEF TurnIInv
<1>3. ListsAreAnswered'
  <2>1. Turns!Answered(<< >>)
    BY EmptyIsTranscript
  <2> QED
    BY <2>1 DEF TurnIInv, ListsAreAnswered, Turns!Running
<1>4. ToolsFollowTheirCall' /\ RunIsLinked' /\ TurnKeepsItsMessage'
  BY DEF ToolsFollowTheirCall, RunIsLinked, TurnKeepsItsMessage, Turns!Running
<1> QED
  BY <1>1, <1>2, <1>3, <1>4 DEF TurnIInv

\* The history a failed turn leaves: what it was at the snapshot, and the record.
LEMMA CutBackIs ==
  ASSUME NEW l \in Seq(Turns!Message), NEW c \in 0 .. MaxTurns, NEW m \in 0 .. Len(l)
  PROVE  /\ Append(SubSeq(l, 1, m), Turns!Reply(c)) \in Seq(Turns!Message)
         /\ Append(SubSeq(l, 1, m), Turns!Reply(c)) = SubSeq(l, 1, m) \o <<Turns!Reply(c)>>
         /\ Len(Append(SubSeq(l, 1, m), Turns!Reply(c))) = m + 1
         /\ Append(SubSeq(l, 1, m), Turns!Reply(c))[m + 1] = Turns!Reply(c)
         /\ \A i \in 1 .. m : Append(SubSeq(l, 1, m), Turns!Reply(c))[i] = l[i]
<1>1. PICK a : a = SubSeq(l, 1, m)
  OBVIOUS
<1>2. a \in Seq(Turns!Message) /\ Len(a) = m /\ \A i \in 1 .. m : a[i] = l[i]
  BY <1>1, FrontIs
<1>3. PICK e : e = Turns!Reply(c)
  OBVIOUS
<1>4. e \in Turns!Message
  BY <1>3, MessagesAre, TurnConstants
<1>5. /\ Append(a, e) \in Seq(Turns!Message) /\ Append(a, e) = a \o <<e>>
      /\ Len(Append(a, e)) = m + 1 /\ Append(a, e)[m + 1] = e
      /\ \A i \in 1 .. m : Append(a, e)[i] = a[i]
  BY <1>2, <1>4
<1> QED
  BY <1>1, <1>2, <1>3, <1>5

\* A turn fails.
LEMMA FailStep ==
  ASSUME TurnIInv, turn \in {"ask", "finishing", "closing"}, Turns!Fail
  PROVE  /\ TurnIInv'
         /\ ~raced => LET s == transcripts'[current]
                      IN /\ {i \in 1 .. Len(s) : s[i].turn = count} = {Len(s) - 1, Len(s)}
                         /\ s[Len(s) - 1] = Turns!User(count) /\ s[Len(s)] = Turns!Reply(count)
<1> USE DEF Turns!file_vars, Turns!run_vars, Turns!cmd_vars, Turns!ghosts
<1>1. PICK l : l = lists[history]
  OBVIOUS
<1>2. PICK m : m = IF snapshot < Len(l) THEN snapshot ELSE Len(l)
  OBVIOUS
<1>3. PICK s : s = Append(SubSeq(l, 1, m), Turns!Reply(count))
  OBVIOUS
<1>4. /\ lists' = Turns!Collect([lists EXCEPT ![history] = s], {history, cmdHeld})
      /\ transcripts' = [transcripts EXCEPT ![current] = s]
      /\ turn' = "idle" /\ window' = 0 /\ held' = Turns!NoList /\ tail' = << >>
      /\ sliceLen' = 0 /\ snapshot' = 0 /\ pending' = 0 /\ ran' = << >>
      /\ UNCHANGED <<current, history, count, cmd, cmdHeld, cmdKept, raced, tainted>>
  BY <1>1, <1>2, <1>3 DEF Turns!Fail, Turns!Save, Turns!EndTurn, Turns!ResetRun
<1>5. /\ l \in Seq(Turns!Message) /\ Len(l) \in Nat /\ Transcript(l, count) /\ history \in Turns!Ref
      /\ count \in 1 .. MaxTurns /\ count \in 0 .. MaxTurns /\ count \in Nat
      /\ snapshot \in Nat /\ Turns!Running
      /\ lists \in [Turns!Ref -> Seq(Turns!Message)] /\ current \in 1 .. MaxSessions
      /\ transcripts \in [1 .. MaxSessions -> Seq(Turns!Message)]
  BY <1>1, TurnFacts DEF TurnIInv, TurnTypes, Turns!Running
<1>6. m \in 0 .. Len(l) /\ m \in Nat
  BY <1>2, <1>5
<1>7. /\ s \in Seq(Turns!Message) /\ s = SubSeq(l, 1, m) \o <<Turns!Reply(count)>>
      /\ Len(s) = m + 1 /\ s[m + 1] = Turns!Reply(count) /\ \A i \in 1 .. m : s[i] = l[i]
  BY <1>3, <1>5, <1>6, CutBackIs
<1>8. Transcript(s, count)
  BY <1>5, <1>6, <1>7, FrontIsTranscript, SaidIsTranscript
<1>9. /\ lists' \in [Turns!Ref -> Seq(Turns!Message)]
      /\ \A r \in Turns!Ref : lists'[r] \in {lists[r], << >>, s}
      /\ transcripts' \in [1 .. MaxSessions -> Seq(Turns!Message)] /\ transcripts'[current] = s
      /\ \A i \in 1 .. MaxSessions : transcripts'[i] \in {transcripts[i], s}
  <2>1. << >> \in Seq(Turns!Message)
    OBVIOUS
  <2> QED
    BY <1>4, <1>5, <1>7, <2>1 DEF Turns!Collect
<1>10. ASSUME ~tainted
       PROVE  /\ \A r \in Turns!Ref : Turns!Answered(lists'[r])
              /\ \A i \in 1 .. MaxSessions : Turns!Answered(transcripts'[i])
  <2>1. /\ snapshot <= Len(l) /\ AnsweredTo(l, snapshot)
        /\ \A r \in Turns!Ref : Turns!Answered(lists[r])
        /\ \A i \in 1 .. MaxSessions : Turns!Answered(transcripts[i])
    BY <1>1, <1>5, <1>10 DEF TurnIInv, ListsAreAnswered
  <2>2. m = snapshot
    BY <1>2, <1>5, <2>1
  <2>3. SubSeq(l, 1, m) \in Seq(Turns!Message) /\ Turns!Answered(SubSeq(l, 1, m))
    BY <1>5, <1>6, <2>1, <2>2, FrontIs, FrontIsAnswered
  <2>4. Turns!Answered(s) /\ Turns!Answered(<< >>)
    BY <1>5, <1>7, <2>3, SaidIsAnswered, EmptyIsTranscript
  <2> QED
    BY <1>9, <2>1, <2>4
<1>11. TurnIInv'
  <2>1. /\ \A r \in Turns!Ref : lists'[r] = lists[r] \/ Transcript(lists'[r], count)
        /\ \A i \in 1 .. MaxSessions :
             transcripts'[i] = transcripts[i] \/ Transcript(transcripts'[i], count)
    <3>1. Transcript(<< >>, count)
      BY EmptyIsTranscript
    <3> QED
      BY <1>8, <1>9, <3>1
  <2>2. /\ cmdHeld' \in Turns!Ref \cup {Turns!NoList} /\ (cmd' # "idle" => cmdHeld' \in Turns!Ref)
        /\ history' \in Turns!Ref /\ current' \in 1 .. MaxSessions
    BY <1>4, <1>5 DEF TurnIInv, TurnTypes
  <2>3. /\ sliceLen' \in Nat /\ snapshot' \in Nat /\ pending' \in 0 .. MaxCalls
        /\ window' \in Windows \cup {0} /\ held' \in Turns!Ref \cup {Turns!NoList}
    BY <1>4, TurnConstants
  <2>4. ~tainted' => /\ ~tainted /\ \A r \in Turns!Ref : Turns!Answered(lists'[r])
                     /\ \A i \in 1 .. MaxSessions : Turns!Answered(transcripts'[i])
    BY <1>4, <1>10
  <2> QED
    BY <1>4, <1>9, <2>1, <2>2, <2>3, <2>4, TurnEnds
<1>12. ASSUME ~raced
       PROVE  /\ {i \in 1 .. Len(s) : s[i].turn = count} = {Len(s) - 1, Len(s)}
              /\ s[Len(s) - 1] = Turns!User(count) /\ s[Len(s)] = Turns!Reply(count)
  <2>1. /\ snapshot \in 1 .. Len(l) /\ l[snapshot] = Turns!User(count)
        /\ \A i \in 1 .. snapshot - 1 : l[i].turn # count
    BY <1>1, <1>5, <1>12 DEF TurnIInv, TurnKeepsItsMessage, Begins
  <2>2. m = snapshot /\ m >= 1 /\ m \in 1 .. m
    BY <1>2, <1>5, <2>1
  <2>3. s[m] = Turns!User(count) /\ s[m + 1] = Turns!Reply(count)
        /\ \A i \in 1 .. m - 1 : s[i].turn # count
    BY <1>7, <2>1, <2>2
  <2>4. s[m].turn = count /\ s[m + 1].turn = count
    BY <2>3 DEF Turns!User, Turns!Reply
  <2>5. Len(s) - 1 = m
    BY <1>6, <1>7
  <2>6. ASSUME NEW i \in 1 .. m + 1 PROVE s[i].turn = count <=> i \in {m, m + 1}
    <3>1. i \in 1 .. m - 1 \/ i = m \/ i = m + 1
      BY <1>6, <2>2
    <3>2. i \in 1 .. m - 1 => i # m /\ i # m + 1
      BY <1>6
    <3> QED
      BY <2>3, <2>4, <3>1, <3>2
  <2>7. m \in 1 .. m + 1 /\ m + 1 \in 1 .. m + 1
    BY <1>6, <2>2
  <2> QED
    BY <1>7, <2>3, <2>5, <2>6, <2>7
<1> QED
  BY <1>9, <1>11, <1>12

\* The run gets the history, or a copy of its end.
LEMMA BeginStep ==
  ASSUME TurnIInv, Turns!BeginRun
  PROVE  TurnIInv'
<1> USE DEF Turns!file_vars, Turns!cmd_vars, Turns!ghosts
<1>1. PICK s : s = lists[history]
  OBVIOUS
<1>2. PICK skip : skip = IF Len(s) > window THEN Len(s) - window ELSE 0
  OBVIOUS
<1>3. PICK f : f = Turns!Fresh
  OBVIOUS
<1>4. /\ turn = "saved" /\ turn' = "ask" /\ snapshot' = Len(s)
      /\ IF window = 0
         THEN held' = history /\ sliceLen' = 0 /\ UNCHANGED lists
         ELSE /\ held' = f /\ sliceLen' = Len(s) - skip
              /\ lists' = [lists EXCEPT ![f] = Turns!Tail_(s, skip)]
      /\ UNCHANGED <<transcripts, current, history, count, window, pending, parallel, ran, tail,
                     cmd, cmdHeld, cmdKept, outcome, raced, tainted>>
  BY <1>1, <1>2, <1>3 DEF Turns!BeginRun
<1>5. /\ s \in Seq(Turns!Message) /\ Len(s) \in Nat /\ Transcript(s, count) /\ history \in Turns!Ref
      /\ count \in Nat /\ window \in Nat /\ lists \in [Turns!Ref -> Seq(Turns!Message)]
      /\ f \in Turns!Ref /\ f # history
  <2>1. window \in Nat
    BY TurnConstants DEF TurnIInv, TurnTypes
  <2>2. TurnTypes
    BY DEF TurnIInv
  <2> QED
    BY <1>1, <1>3, <2>1, <2>2, TurnFacts, FreshIs DEF TurnTypes
<1>6. skip \in 0 .. Len(s) /\ Len(s) - skip \in Nat
  BY <1>2, <1>5
<1>7. PICK u : u = Turns!Tail_(s, skip)
  OBVIOUS
<1>8. u \in Seq(Turns!Message) /\ Len(u) = Len(s) - skip /\ Transcript(u, count)
  BY <1>5, <1>6, <1>7, TailIs, TailIsTranscript
<1>9. /\ lists' \in [Turns!Ref -> Seq(Turns!Message)] /\ lists'[history] = s
      /\ \A r \in Turns!Ref : lists'[r] \in {lists[r], u}
      /\ held' \in Turns!Ref /\ sliceLen' \in Nat /\ (window = 0 => held' = history /\ sliceLen' = 0)
      /\ window # 0 => lists'[held'] = u /\ sliceLen' = Len(u)
  BY <1>1, <1>4, <1>5, <1>6, <1>7, <1>8
<1>10. TurnTypes'
  BY <1>4, <1>5, <1>9 DEF TurnIInv, TurnTypes, Turns!Running, Turns!TurnStates
<1>11. ListsAreTranscripts'
  <2>1. \A r \in Turns!Ref : lists'[r] = lists[r] \/ Transcript(lists'[r], count')
    BY <1>4, <1>8, <1>9
  <2> QED
    BY <1>4, <1>5, <2>1, TranscriptsStay DEF TurnIInv
<1>12. ToolsFollowTheirCall'
  BY <1>4 DEF ToolsFollowTheirCall
<1>13. ListsAreAnswered'
  <2> SUFFICES ASSUME ~tainted PROVE ListsAreAnswered'
    BY <1>4 DEF ListsAreAnswered
  <2>1. Turns!Answered(s) /\ \A r \in Turns!Ref : Turns!Answered(lists[r])
    BY <1>1, <1>4, <1>5 DEF TurnIInv, ListsAreAnswered
  <2>2. Turns!Answered(u)
    BY <1>5, <1>6, <1>7, <2>1, TailIsAnswered
  <2>3. \A r \in Turns!Ref : Turns!Answered(lists'[r])
    BY <1>9, <2>1, <2>2
  <2>4. AnsweredTo(s, Len(s)) /\ Len(s) <= Len(s)
    BY <1>5, <2>1, AnsweredIs
  <2> QED
    BY <1>4, <1>9, <2>3, <2>4 DEF TurnIInv, ListsAreAnswered
<1>14. RunIsLinked'
  <2> SUFFICES ASSUME window # 0 PROVE RunIsLinked'
    BY <1>4 DEF RunIsLinked
  <2>1. Len(u) <= Len(u) /\ Len(u) + 1 .. Len(u) = {}
    BY <1>8
  <2>2. LinkedFrom(u, Len(u))
    BY <2>1 DEF LinkedFrom
  <2> QED
    BY <1>4, <1>9, <2>1, <2>2 DEF RunIsLinked
<1>15. TurnKeepsItsMessage'
  <2>1. ~raced => Begins(s, Len(s))
    BY <1>1, <1>4 DEF TurnIInv, TurnKeepsItsMessage
  <2>2. ~raced => Begins(lists[history], snapshot)'
    BY <1>4, <1>9, <2>1 DEF Begins
  <2> QED
    BY <1>4, <1>9, <2>2 DEF TurnKeepsItsMessage, Turns!Running
<1> QED
  BY <1>10, <1>11, <1>12, <1>13, <1>14, <1>15 DEF TurnIInv

\* What a windowed run added comes into the history.
LEMMA ReplayStep ==
  ASSUME TurnIInv, Turns!Replay
  PROVE  TurnIInv'
<1> USE DEF Turns!file_vars, Turns!run_vars, Turns!cmd_vars, Turns!ghosts
<1>1. PICK l : l = lists[history]
  OBVIOUS
<1>2. PICK h : h = lists[held]
  OBVIOUS
<1>3. PICK u : u = Turns!Tail_(h, sliceLen)
  OBVIOUS
<1>4. PICK w : w = IF window = 0 THEN l ELSE l \o u
  OBVIOUS
<1>5. /\ turn = "finishing" /\ turn' = "closing"
      /\ UNCHANGED <<transcripts, current, history, count, window, held, sliceLen, snapshot, pending,
                     parallel, ran, tail, cmd, cmdHeld, cmdKept, outcome, raced, tainted>>
      /\ IF window = 0 THEN UNCHANGED lists ELSE lists' = [lists EXCEPT ![history] = l \o u]
  BY <1>1, <1>2, <1>3 DEF Turns!Replay, Turns!Extend
<1>6. /\ history \in Turns!Ref /\ held \in Turns!Ref /\ count \in Nat /\ snapshot \in Nat
      /\ sliceLen \in Nat /\ Turns!Running /\ Turns!Running'
      /\ lists \in [Turns!Ref -> Seq(Turns!Message)]
  BY <1>5, TurnFacts DEF TurnIInv, TurnTypes, Turns!Running
<1>7. /\ l \in Seq(Turns!Message) /\ Len(l) \in Nat /\ Transcript(l, count)
      /\ h \in Seq(Turns!Message) /\ Len(h) \in Nat /\ Transcript(h, count)
  BY <1>1, <1>2, <1>6, TurnFacts
<1>8. window # 0 =>
        /\ sliceLen \in 0 .. Len(h) /\ LinkedFrom(h, sliceLen)
        /\ u \in Seq(Turns!Message) /\ Len(u) = Len(h) - sliceLen
        /\ \A i \in 1 .. Len(h) - sliceLen : u[i] = h[i + sliceLen]
  <2>1. window # 0 => sliceLen \in 0 .. Len(h) /\ LinkedFrom(h, sliceLen)
    BY <1>2, <1>5, <1>6, <1>7 DEF TurnIInv, RunIsLinked
  <2> QED
    BY <1>3, <1>7, <2>1, TailIs
<1>9. /\ w \in Seq(Turns!Message) /\ Transcript(w, count)
      /\ Len(l) <= Len(w) /\ \A i \in 1 .. Len(l) : w[i] = l[i]
  <2>1. CASE window = 0
    BY <1>4, <1>7, <2>1
  <2>2. CASE window # 0
    <3>1. \A i \in 1 .. Len(u) : u[i].turn <= count /\ (u[i].role = "tool" => Linked(u, i))
      BY <1>3, <1>7, <1>8, <2>2, TailIsLinked
    <3>2. Transcript(l \o u, count)
      BY <1>7, <1>8, <2>2, <3>1, JoinIsTranscript
    <3>3. /\ l \o u \in Seq(Turns!Message) /\ Len(l \o u) = Len(l) + Len(u) /\ Len(u) \in Nat
          /\ \A i \in 1 .. Len(l) : (l \o u)[i] = l[i]
      BY <1>7, <1>8, <2>2, JoinIs
    <3>4. w = l \o u
      BY <1>4, <2>2
    <3> QED
      BY <1>7, <3>2, <3>3, <3>4
  <2> QED
    BY <2>1, <2>2
<1>10. /\ lists' \in [Turns!Ref -> Seq(Turns!Message)] /\ lists'[history] = w
       /\ \A r \in Turns!Ref : lists'[r] \in {lists[r], w}
  BY <1>1, <1>4, <1>5, <1>6, <1>9
<1>11. TurnTypes'
  BY <1>5, <1>6, <1>10 DEF TurnIInv, TurnTypes, Turns!TurnStates
<1>12. ListsAreTranscripts'
  <2>1. \A r \in Turns!Ref : lists'[r] = lists[r] \/ Transcript(lists'[r], count')
    BY <1>5, <1>9, <1>10
  <2> QED
    BY <1>5, <1>6, <2>1, TranscriptsStay DEF TurnIInv
<1>13. ToolsFollowTheirCall' /\ RunIsLinked'
  BY <1>5 DEF ToolsFollowTheirCall, RunIsLinked
<1>14. ListsAreAnswered'
  <2> SUFFICES ASSUME ~tainted PROVE ListsAreAnswered'
    BY <1>5 DEF ListsAreAnswered
  <2>1. /\ Turns!Answered(l) /\ Turns!Answered(h) /\ \A r \in Turns!Ref : Turns!Answered(lists[r])
        /\ snapshot <= Len(l) /\ AnsweredTo(l, snapshot)
    BY <1>1, <1>2, <1>5, <1>6 DEF TurnIInv, ListsAreAnswered
  <2>2. Turns!Answered(w) /\ AnsweredTo(w, snapshot) /\ snapshot <= Len(w)
    <3>1. CASE window = 0
      BY <1>4, <2>1, <3>1
    <3>2. CASE window # 0
      <4>1. Turns!Answered(u)
        BY <1>3, <1>7, <1>8, <2>1, <3>2, TailIsAnswered
      <4>2. Turns!Answered(l \o u)
        BY <1>7, <1>8, <2>1, <3>2, <4>1, JoinIsAnswered
      <4>3. snapshot \in 0 .. Len(l)
        BY <1>6, <1>7, <2>1
      <4>4. AnsweredTo(l \o u, snapshot)
        BY <1>7, <1>8, <2>1, <3>2, <4>3, AnsweredGrows
      <4>5. w = l \o u /\ Len(w) \in Nat
        BY <1>4, <1>9, <3>2
      <4> QED
        BY <1>6, <1>7, <1>9, <2>1, <4>2, <4>4, <4>5
    <3> QED
      BY <3>1, <3>2
  <2>3. \A r \in Turns!Ref : Turns!Answered(lists'[r])
    BY <1>10, <2>1, <2>2
  <2> QED
    BY <1>5, <1>10, <2>2, <2>3 DEF TurnIInv, ListsAreAnswered
<1>15. TurnKeepsItsMessage'
  <2> SUFFICES ASSUME ~raced PROVE TurnKeepsItsMessage'
    BY <1>5 DEF TurnKeepsItsMessage
  <2>1. /\ Begins(l, snapshot) /\ (window = 0 => held = history)
        /\ Len(h) > sliceLen /\ h[Len(h)] = Turns!Reply(count)
    BY <1>1, <1>2, <1>5, <1>6 DEF TurnIInv, TurnKeepsItsMessage, Turns!Last
  <2>2. Begins(w, snapshot)
    <3>1. /\ snapshot \in 1 .. Len(l) /\ l[snapshot] = Turns!User(count)
          /\ \A i \in 1 .. snapshot - 1 : l[i].turn # count
      BY <2>1 DEF Begins
    <3>2. /\ snapshot \in 1 .. Len(w) /\ \A i \in 1 .. snapshot - 1 : i \in 1 .. Len(l)
      BY <1>7, <1>9, <3>1
    <3>3. w[snapshot] = Turns!User(count) /\ \A i \in 1 .. snapshot - 1 : w[i].turn # count
      BY <1>9, <3>1, <3>2
    <3> QED
      BY <3>2, <3>3 DEF Begins
  <2>3. Begins(lists[history], snapshot)'
    BY <1>5, <1>10, <2>2 DEF Begins
  <2>4. w[Len(w)] = Turns!Reply(count)
    <3>1. CASE window = 0
      BY <1>1, <1>2, <1>4, <2>1, <3>1
    <3>2. CASE window # 0
      <4>1. /\ Len(u) = Len(h) - sliceLen /\ Len(u) \in 1 .. Len(u) /\ Len(u) + sliceLen = Len(h)
            /\ Len(u) \in Nat
        BY <1>6, <1>7, <1>8, <2>1, <3>2
      <4>2. u[Len(u)] = Turns!Reply(count)
        <5>1. u[Len(u)] = h[Len(u) + sliceLen]
          BY <1>8, <3>2, <4>1
        <5> QED
          BY <2>1, <4>1, <5>1
      <4>3. Len(l \o u) = Len(u) + Len(l) /\ (l \o u)[Len(u) + Len(l)] = u[Len(u)]
        <5>1. Len(l \o u) = Len(l) + Len(u) /\ \A i \in 1 .. Len(u) : (l \o u)[i + Len(l)] = u[i]
          BY <1>7, <1>8, <3>2, JoinIs
        <5>2. Len(l) + Len(u) = Len(u) + Len(l)
          BY <1>7, <4>1
        <5> QED
          BY <4>1, <5>1, <5>2
      <4> QED
        BY <1>4, <3>2, <4>2, <4>3
    <3> QED
      BY <3>1, <3>2
  <2>5. (Turns!Last(lists[history]) = Turns!Reply(count))'
    BY <1>5, <1>10, <2>4 DEF Turns!Last, Turns!Reply
  <2> QED
    BY <1>5, <2>1, <2>3, <2>5 DEF TurnKeepsItsMessage, Turns!Running
<1> QED
  BY <1>11, <1>12, <1>13, <1>14, <1>15 DEF TurnIInv

\* What the history holds is saved.
LEMMA CloseStep ==
  ASSUME TurnIInv, Turns!Close
  PROVE  /\ TurnIInv'
         /\ ~raced => LET s == transcripts'[current']
                      IN /\ Turns!Last(s) = Turns!Reply(count)
                         /\ \E i \in 1 .. Len(s) : s[i] = Turns!User(count)
<1> USE DEF Turns!file_vars, Turns!run_vars, Turns!cmd_vars, Turns!ghosts
<1>1. PICK l : l = lists[history]
  OBVIOUS
<1>2. /\ turn = "closing" /\ lists' = Turns!Collect(lists, {history, cmdHeld})
      /\ transcripts' = [transcripts EXCEPT ![current] = l]
      /\ turn' = "idle" /\ window' = 0 /\ held' = Turns!NoList /\ tail' = << >>
      /\ sliceLen' = 0 /\ snapshot' = 0 /\ pending' = 0 /\ ran' = << >>
      /\ UNCHANGED <<current, history, count, cmd, cmdHeld, cmdKept, raced, tainted>>
  BY <1>1 DEF Turns!Close, Turns!Save, Turns!EndTurn, Turns!ResetRun
<1>3. /\ l \in Seq(Turns!Message) /\ Transcript(l, count) /\ history \in Turns!Ref /\ Turns!Running
      /\ lists \in [Turns!Ref -> Seq(Turns!Message)] /\ current \in 1 .. MaxSessions
      /\ transcripts \in [1 .. MaxSessions -> Seq(Turns!Message)]
  BY <1>1, <1>2, TurnFacts DEF TurnIInv, TurnTypes, Turns!Running
<1>4. /\ lists' \in [Turns!Ref -> Seq(Turns!Message)]
      /\ \A r \in Turns!Ref : lists'[r] \in {lists[r], << >>}
      /\ transcripts' \in [1 .. MaxSessions -> Seq(Turns!Message)] /\ transcripts'[current] = l
      /\ \A i \in 1 .. MaxSessions : transcripts'[i] \in {transcripts[i], l}
  <2>1. << >> \in Seq(Turns!Message)
    OBVIOUS
  <2> QED
    BY <1>2, <1>3, <2>1 DEF Turns!Collect
<1>5. TurnIInv'
  <2>1. Transcript(<< >>, count) /\ Turns!Answered(<< >>)
    BY EmptyIsTranscript
  <2>2. /\ \A r \in Turns!Ref : lists'[r] = lists[r] \/ Transcript(lists'[r], count)
        /\ \A i \in 1 .. MaxSessions :
             transcripts'[i] = transcripts[i] \/ Transcript(transcripts'[i], count)
    BY <1>3, <1>4, <2>1
  <2>3. /\ cmdHeld' \in Turns!Ref \cup {Turns!NoList} /\ (cmd' # "idle" => cmdHeld' \in Turns!Ref)
        /\ history' \in Turns!Ref /\ current' \in 1 .. MaxSessions
    BY <1>2, <1>3 DEF TurnIInv, TurnTypes
  <2>4. /\ sliceLen' \in Nat /\ snapshot' \in Nat /\ pending' \in 0 .. MaxCalls
        /\ window' \in Windows \cup {0} /\ held' \in Turns!Ref \cup {Turns!NoList}
    BY <1>2, TurnConstants
  <2>5. ~tainted' => /\ ~tainted /\ \A r \in Turns!Ref : Turns!Answered(lists'[r])
                     /\ \A i \in 1 .. MaxSessions : Turns!Answered(transcripts'[i])
    <3>1. ~tainted => /\ \A r \in Turns!Ref : Turns!Answered(lists[r])
                      /\ \A i \in 1 .. MaxSessions : Turns!Answered(transcripts[i])
      BY <1>2 DEF TurnIInv, ListsAreAnswered
    <3> QED
      BY <1>1, <1>2, <1>3, <1>4, <2>1, <3>1
  <2> QED
    BY <1>2, <1>4, <2>2, <2>3, <2>4, <2>5, TurnEnds
<1>6. ASSUME ~raced
      PROVE  Turns!Last(l) = Turns!Reply(count) /\ \E i \in 1 .. Len(l) : l[i] = Turns!User(count)
  BY <1>1, <1>2, <1>3, <1>6 DEF TurnIInv, TurnKeepsItsMessage, Begins
<1> QED
  BY <1>2, <1>4, <1>5, <1>6

\* Ctrl+C, and a crash.
LEMMA StopSteps ==
  ASSUME TurnIInv, Turns!Interrupt \/ Turns!Crash
  PROVE  TurnIInv'
<1> USE DEF Turns!file_vars, Turns!run_vars, Turns!cmd_vars, Turns!ghosts
<1>1. PICK l : l = lists[history]
  OBVIOUS
<1>2. /\ l \in Seq(Turns!Message) /\ Transcript(l, count) /\ history \in Turns!Ref
      /\ lists \in [Turns!Ref -> Seq(Turns!Message)] /\ current \in 1 .. MaxSessions
      /\ transcripts \in [1 .. MaxSessions -> Seq(Turns!Message)]
      /\ \A i \in 1 .. MaxSessions : Transcript(transcripts[i], count)
      /\ Transcript(<< >>, count) /\ Turns!Answered(<< >>) /\ << >> \in Seq(Turns!Message)
  <2>1. Transcript(<< >>, count) /\ Turns!Answered(<< >>) /\ << >> \in Seq(Turns!Message)
    BY EmptyIsTranscript
  <2>2. l \in Seq(Turns!Message) /\ Transcript(l, count) /\ history \in Turns!Ref
    BY <1>1, TurnFacts
  <2> QED
    BY <2>1, <2>2 DEF TurnIInv, TurnTypes, ListsAreTranscripts
<1>3. /\ 0 \in Nat /\ 0 \in 0 .. MaxCalls /\ 0 \in Windows \cup {0} /\ 1 \in Turns!Ref
      /\ Turns!NoList \in Turns!Ref \cup {Turns!NoList}
  BY TurnConstants DEF Turns!Ref
<1>4. CASE Turns!Interrupt
  <2>1. /\ lists' = Turns!Collect(lists, {history, cmdHeld})
        /\ transcripts' = [transcripts EXCEPT ![current] = l] \/ transcripts' = transcripts
        /\ turn' = "idle" /\ window' = 0 /\ held' = Turns!NoList /\ tail' = << >>
        /\ sliceLen' = 0 /\ snapshot' = 0 /\ pending' = 0 /\ ran' = << >> /\ tainted' = TRUE
        /\ UNCHANGED <<current, history, count, cmd, cmdHeld, cmdKept>>
    BY <1>1, <1>4 DEF Turns!Interrupt, Turns!Save, Turns!EndTurn, Turns!ResetRun
  <2>2. /\ lists' \in [Turns!Ref -> Seq(Turns!Message)]
        /\ \A r \in Turns!Ref : lists'[r] \in {lists[r], << >>}
        /\ transcripts' \in [1 .. MaxSessions -> Seq(Turns!Message)]
        /\ \A i \in 1 .. MaxSessions : transcripts'[i] \in {transcripts[i], l}
    BY <1>2, <2>1 DEF Turns!Collect
  <2>3. /\ \A r \in Turns!Ref : lists'[r] = lists[r] \/ Transcript(lists'[r], count)
        /\ \A i \in 1 .. MaxSessions :
             transcripts'[i] = transcripts[i] \/ Transcript(transcripts'[i], count)
    BY <1>2, <2>2
  <2>4. /\ cmdHeld' \in Turns!Ref \cup {Turns!NoList} /\ (cmd' # "idle" => cmdHeld' \in Turns!Ref)
        /\ history' \in Turns!Ref /\ current' \in 1 .. MaxSessions
    BY <1>2, <2>1 DEF TurnIInv, TurnTypes
  <2>5. /\ sliceLen' \in Nat /\ snapshot' \in Nat /\ pending' \in 0 .. MaxCalls
        /\ window' \in Windows \cup {0} /\ held' \in Turns!Ref \cup {Turns!NoList}
    BY <1>3, <2>1
  <2> QED
    BY <2>1, <2>2, <2>3, <2>4, <2>5, TurnEnds
<1>5. CASE Turns!Crash
  <2>1. /\ history' = 1 /\ lists' = [r \in Turns!Ref |-> IF r = 1 THEN transcripts[current] ELSE << >>]
        /\ turn' = "idle" /\ cmd' = "idle" /\ cmdHeld' = Turns!NoList /\ cmdKept' = << >>
        /\ \/ turn = "idle" /\ UNCHANGED <<window, held, tail, sliceLen, snapshot, pending, ran>>
           \/ /\ window' = 0 /\ held' = Turns!NoList /\ tail' = << >>
              /\ sliceLen' = 0 /\ snapshot' = 0 /\ pending' = 0 /\ ran' = << >>
        /\ UNCHANGED <<transcripts, current, count, raced, tainted>>
    BY <1>5 DEF Turns!Crash, Turns!EndTurn, Turns!ResetRun
  <2>2. /\ lists' \in [Turns!Ref -> Seq(Turns!Message)]
        /\ \A r \in Turns!Ref : lists'[r] \in {transcripts[current], << >>}
    BY <1>2, <2>1
  <2>3. \A r \in Turns!Ref : lists'[r] = lists[r] \/ Transcript(lists'[r], count)
    BY <1>2, <2>2
  <2>4. /\ sliceLen' \in Nat /\ snapshot' \in Nat /\ pending' \in 0 .. MaxCalls /\ ran' = << >>
        /\ window' \in Windows \cup {0} /\ held' \in Turns!Ref \cup {Turns!NoList}
    BY <1>3, <2>1 DEF TurnIInv, TurnTypes
  <2>5. ~tainted' => /\ ~tainted /\ \A r \in Turns!Ref : Turns!Answered(lists'[r])
                     /\ \A i \in 1 .. MaxSessions : Turns!Answered(transcripts'[i])
    BY <1>2, <2>1, <2>2 DEF TurnIInv, ListsAreAnswered
  <2> QED
    BY <1>2, <1>3, <2>1, <2>2, <2>3, <2>4, <2>5, TurnEnds
<1> QED
  BY <1>4, <1>5

\* A new list becomes the history; the turn keeps the one it works on.
LEMMA ReplacedIs ==
  ASSUME TurnTypes, NEW s \in Seq(Turns!Message), NEW live,
         history' = Turns!Fresh,
         lists' = Turns!Collect([lists EXCEPT ![Turns!Fresh] = s], live \cup {Turns!Fresh})
  PROVE  /\ history' \in Turns!Ref /\ lists' \in [Turns!Ref -> Seq(Turns!Message)]
         /\ \A r \in Turns!Ref : lists'[r] = lists[r] \/ lists'[r] = << >> \/ lists'[r] = s
         /\ held \in Turns!Ref /\ held \in live => lists'[held] = lists[held]
<1>1. PICK f : f = Turns!Fresh
  OBVIOUS
<1>2. f \in Turns!Ref /\ f # held /\ lists \in [Turns!Ref -> Seq(Turns!Message)]
      /\ << >> \in Seq(Turns!Message)
  BY <1>1, FreshIs DEF TurnTypes
<1>3. /\ history' = f
      /\ lists' = [r \in Turns!Ref |->
                     IF r \in live \cup {f} THEN [lists EXCEPT ![f] = s][r] ELSE << >>]
  BY <1>1 DEF Turns!Collect
<1> QED
  BY <1>2, <1>3

\* A command: what the turn had is still there, and the step is on record.
LEMMA CommandStep ==
  ASSUME TurnIInv, Turns!NoteRace,
         UNCHANGED <<turn, count, window, held, sliceLen, snapshot, pending, parallel, ran, tail>>,
         lists' \in [Turns!Ref -> Seq(Turns!Message)], history' \in Turns!Ref,
         held \in Turns!Ref => lists'[held] = lists[held],
         transcripts' \in [1 .. MaxSessions -> Seq(Turns!Message)], current' \in 1 .. MaxSessions,
         cmdHeld' \in Turns!Ref \cup {Turns!NoList}, cmd' # "idle" => cmdHeld' \in Turns!Ref,
         NEW s, Transcript(s, count), ~tainted /\ turn = "idle" => Turns!Answered(s),
         \A r \in Turns!Ref : lists'[r] = lists[r] \/ lists'[r] = << >> \/ lists'[r] = s,
         \A i \in 1 .. MaxSessions : transcripts'[i] = transcripts[i] \/ transcripts'[i] = s,
         cmdKept' = cmdKept \/ cmdKept' = << >> \/ cmdKept' = s
  PROVE  TurnIInv'
<1>1. TurnTypes'
  BY DEF TurnIInv, TurnTypes, Turns!Running, Turns!NoteRace
<1>2. Transcript(<< >>, count) /\ Turns!Answered(<< >>)
  BY EmptyIsTranscript
<1>3. ListsAreTranscripts'
  <2>1. count \in Nat /\ count' = count /\ count <= count /\ count' \in Nat /\ count <= count'
    BY TurnFacts
  <2>2. /\ \A r \in Turns!Ref : lists'[r] = lists[r] \/ Transcript(lists'[r], count')
        /\ \A i \in 1 .. MaxSessions :
             transcripts'[i] = transcripts[i] \/ Transcript(transcripts'[i], count')
        /\ cmdKept' = cmdKept \/ Transcript(cmdKept', count')
    BY <1>2, <2>1
  <2> QED
    BY <2>1, <2>2, TranscriptsStay DEF TurnIInv
<1>4. turn \in {"ask", "tools", "finishing", "closing"} => held \in Turns!Ref
  BY DEF TurnIInv, TurnTypes, Turns!Running
<1>5. ToolsFollowTheirCall'
  BY <1>4 DEF TurnIInv, ToolsFollowTheirCall, Results
<1>6. RunIsLinked'
  BY <1>4 DEF TurnIInv, RunIsLinked, Results
<1>7. ListsAreAnswered'
  <2> SUFFICES ASSUME ~tainted' PROVE ListsAreAnswered'
    BY DEF ListsAreAnswered
  <2>1. ~tainted /\ turn = "idle" /\ Turns!Answered(s)
    BY DEF Turns!NoteRace
  <2> QED
    BY <1>2, <2>1 DEF TurnIInv, ListsAreAnswered, Turns!Running
<1>8. TurnKeepsItsMessage'
  BY DEF TurnKeepsItsMessage, Turns!NoteRace, Turns!Running
<1> QED
  BY <1>1, <1>3, <1>5, <1>6, <1>7, <1>8 DEF TurnIInv

\* /new, a reload and the steps of /compact.
LEMMA CommandSteps ==
  ASSUME TurnIInv, Turns!Commands
  PROVE  TurnIInv'
<1> USE DEF Turns!file_vars, Turns!run_vars, Turns!cmd_vars
<1>1. /\ TurnTypes /\ history \in Turns!Ref /\ lists \in [Turns!Ref -> Seq(Turns!Message)]
      /\ current \in 1 .. MaxSessions /\ transcripts \in [1 .. MaxSessions -> Seq(Turns!Message)]
      /\ cmdHeld \in Turns!Ref \cup {Turns!NoList} /\ (cmd # "idle" => cmdHeld \in Turns!Ref)
      /\ lists[history] \in Seq(Turns!Message) /\ Transcript(lists[history], count)
      /\ Len(lists[history]) \in Nat /\ count \in Nat
      /\ cmdKept \in Seq(Turns!Message) /\ Transcript(cmdKept, count)
      /\ Transcript(transcripts[current], count)
  <2>1. Transcript(transcripts[current], count)
    BY DEF TurnIInv, TurnTypes, ListsAreTranscripts
  <2> QED
    BY <2>1, TurnFacts DEF TurnIInv, TurnTypes
<1>2. << >> \in Seq(Turns!Message) /\ Transcript(<< >>, count) /\ Turns!Answered(<< >>)
  BY EmptyIsTranscript
<1>3. ~tainted /\ turn = "idle" =>
        /\ Turns!Answered(lists[history]) /\ Turns!Answered(cmdKept)
        /\ Turns!Answered(transcripts[current])
  BY <1>1 DEF TurnIInv, ListsAreAnswered
<1>4. CASE Turns!ResetSession
  <2>1. PICK live : live = {held, cmdHeld}
    OBVIOUS
  <2>2. /\ Turns!NoteRace /\ history' = Turns!Fresh
        /\ lists' = Turns!Collect([lists EXCEPT ![Turns!Fresh] = << >>], live \cup {Turns!Fresh})
        /\ current < MaxSessions /\ current' = current + 1 /\ held \in live
        /\ UNCHANGED <<transcripts, turn, count, window, held, sliceLen, snapshot, pending, parallel,
                       ran, tail, cmd, cmdHeld, cmdKept>>
    BY <1>4, <2>1 DEF Turns!ResetSession, Turns!Replace
  <2>3. current' \in 1 .. MaxSessions
    BY <1>1, <2>2, TurnConstants
  <2>4. /\ history' \in Turns!Ref /\ lists' \in [Turns!Ref -> Seq(Turns!Message)]
        /\ \A r \in Turns!Ref : lists'[r] = lists[r] \/ lists'[r] = << >> \/ lists'[r] = << >>
        /\ held \in Turns!Ref => lists'[held] = lists[held]
    BY <1>1, <1>2, <2>2, ReplacedIs
  <2> QED
    BY <1>1, <1>2, <2>2, <2>3, <2>4, CommandStep
<1>5. CASE Turns!Reload
  <2>1. PICK live : live = {held, cmdHeld}
    OBVIOUS
  <2>2. PICK s : s = transcripts[current]
    OBVIOUS
  <2>3. /\ Turns!NoteRace /\ history' = Turns!Fresh
        /\ lists' = Turns!Collect([lists EXCEPT ![Turns!Fresh] = s], live \cup {Turns!Fresh})
        /\ held \in live
        /\ UNCHANGED <<transcripts, current, turn, count, window, held, sliceLen, snapshot, pending,
                       parallel, ran, tail, cmd, cmdHeld, cmdKept>>
    BY <1>5, <2>1, <2>2 DEF Turns!Reload, Turns!Replace
  <2>4. /\ s \in Seq(Turns!Message) /\ Transcript(s, count)
        /\ ~tainted /\ turn = "idle" => Turns!Answered(s)
    BY <1>1, <1>3, <2>2
  <2>5. /\ history' \in Turns!Ref /\ lists' \in [Turns!Ref -> Seq(Turns!Message)]
        /\ \A r \in Turns!Ref : lists'[r] = lists[r] \/ lists'[r] = << >> \/ lists'[r] = s
        /\ held \in Turns!Ref => lists'[held] = lists[held]
    BY <1>1, <2>3, <2>4, ReplacedIs
  <2> QED
    BY <1>1, <2>3, <2>4, <2>5, CommandStep
<1>6. CASE Turns!StartCompactNow
  <2>1. PICK l : l = lists[history]
    OBVIOUS
  <2>2. PICK i \in 1 .. Len(l) - 1 : cmdKept' = Turns!Tail_(l, i)
    BY <1>6, <2>1 DEF Turns!StartCompactNow, Turns!Splits
  <2>3. PICK s : s = Turns!Tail_(l, i)
    OBVIOUS
  <2>4. /\ Turns!NoteRace /\ cmd' = "summarising" /\ cmdHeld' = history /\ cmdKept' = s
        /\ UNCHANGED <<transcripts, current, lists, history, turn, count, window, held, sliceLen,
                       snapshot, pending, parallel, ran, tail>>
    BY <1>6, <2>2, <2>3 DEF Turns!StartCompactNow
  <2>5. i \in 0 .. Len(l)
    BY <1>1, <2>1
  <2>6. /\ Transcript(s, count)
        /\ ~tainted /\ turn = "idle" => Turns!Answered(s)
    BY <1>1, <1>3, <2>1, <2>3, <2>5, TailIsTranscript, TailIsAnswered
  <2>7. /\ lists' \in [Turns!Ref -> Seq(Turns!Message)] /\ history' \in Turns!Ref
        /\ held \in Turns!Ref => lists'[held] = lists[held]
        /\ transcripts' \in [1 .. MaxSessions -> Seq(Turns!Message)] /\ current' \in 1 .. MaxSessions
        /\ cmdHeld' \in Turns!Ref \cup {Turns!NoList} /\ cmdHeld' \in Turns!Ref
        /\ \A r \in Turns!Ref : lists'[r] = lists[r] \/ lists'[r] = << >> \/ lists'[r] = s
        /\ \A j \in 1 .. MaxSessions : transcripts'[j] = transcripts[j] \/ transcripts'[j] = s
    BY <1>1, <2>4
  <2>8. /\ UNCHANGED <<turn, count, window, held, sliceLen, snapshot, pending, parallel, ran, tail>>
        /\ Turns!NoteRace /\ cmdKept' = s
    BY <2>4
  <2> QED
    BY <2>6, <2>7, <2>8, CommandStep
<1>7. CASE Turns!InstallCompactNow
  <2>1. PICK live : live = {held}
    OBVIOUS
  <2>2. PICK s : s = Turns!Compacted(cmdKept)
    OBVIOUS
  <2>3. /\ Turns!NoteRace /\ history' = Turns!Fresh
        /\ lists' = Turns!Collect([lists EXCEPT ![Turns!Fresh] = s], live \cup {Turns!Fresh})
        /\ held \in live /\ transcripts' = [transcripts EXCEPT ![current] = s]
        /\ cmd' = "idle" /\ cmdHeld' = Turns!NoList /\ cmdKept' = << >>
        /\ UNCHANGED <<current, turn, count, window, held, sliceLen, snapshot, pending,
                       parallel, ran, tail>>
    BY <1>7, <2>1, <2>2 DEF Turns!InstallCompactNow, Turns!Replace, Turns!Save
  <2>4. /\ s \in Seq(Turns!Message) /\ Transcript(s, count)
        /\ ~tainted /\ turn = "idle" => Turns!Answered(s)
    BY <1>1, <1>3, <2>2, CompactedIs, CompactedIsTranscript, CompactedIsAnswered
  <2>5. /\ history' \in Turns!Ref /\ lists' \in [Turns!Ref -> Seq(Turns!Message)]
        /\ \A r \in Turns!Ref : lists'[r] = lists[r] \/ lists'[r] = << >> \/ lists'[r] = s
        /\ held \in Turns!Ref => lists'[held] = lists[held]
    BY <1>1, <2>3, <2>4, ReplacedIs
  <2>6. /\ transcripts' \in [1 .. MaxSessions -> Seq(Turns!Message)]
        /\ \A i \in 1 .. MaxSessions : transcripts'[i] = transcripts[i] \/ transcripts'[i] = s
    BY <1>1, <2>3, <2>4
  <2> QED
    BY <1>1, <2>3, <2>4, <2>5, <2>6, CommandStep
<1>8. CASE Turns!AbandonCompactNow
  <2>1. /\ Turns!NoteRace /\ history' = cmdHeld /\ lists' = Turns!Collect(lists, {held, cmdHeld})
        /\ cmd = "summarising" /\ cmd' = "idle" /\ cmdHeld' = Turns!NoList /\ cmdKept' = << >>
        /\ UNCHANGED <<transcripts, current, turn, count, window, held, sliceLen, snapshot, pending,
                       parallel, ran, tail>>
    BY <1>8 DEF Turns!AbandonCompactNow
  <2>2. /\ lists' \in [Turns!Ref -> Seq(Turns!Message)]
        /\ \A r \in Turns!Ref : lists'[r] = lists[r] \/ lists'[r] = << >> \/ lists'[r] = << >>
        /\ held \in Turns!Ref => lists'[held] = lists[held]
    BY <1>1, <1>2, <2>1 DEF Turns!Collect
  <2> QED
    BY <1>1, <1>2, <2>1, <2>2, CommandStep
<1> QED
  BY <1>4, <1>5, <1>6, <1>7, <1>8 DEF Turns!Commands

\* Nothing has been said.
LEMMA TurnInit == Turns!Init => TurnIInv
<1> SUFFICES ASSUME Turns!Init PROVE TurnIInv
  OBVIOUS
<1> USE DEF Turns!Init
<1>1. << >> \in Seq(Turns!Message) /\ << >> \in Seq(Nat) /\ \A c : Transcript(<< >>, c)
      /\ Turns!Answered(<< >>)
  BY EmptyIsTranscript
<1>2. TurnTypes
  BY <1>1, TurnConstants DEF TurnTypes, Turns!Running, Turns!TurnStates, Turns!Ref
<1>3. ListsAreTranscripts /\ ListsAreAnswered
  BY <1>1 DEF ListsAreTranscripts, ListsAreAnswered, Turns!Running, Turns!Ref
<1>4. ToolsFollowTheirCall /\ RunIsLinked /\ TurnKeepsItsMessage
  BY DEF ToolsFollowTheirCall, RunIsLinked, TurnKeepsItsMessage, Turns!Running
<1> QED
  BY <1>2, <1>3, <1>4 DEF TurnIInv

\* Every step of the turn and beside it keeps the invariant.
LEMMA TurnNext == TurnIInv /\ [Turns!Next]_(Turns!vars) => TurnIInv'
<1> SUFFICES ASSUME TurnIInv, [Turns!Next]_(Turns!vars) PROVE TurnIInv'
  OBVIOUS
<1> USE DEF Turns!file_vars, Turns!run_vars, Turns!cmd_vars, Turns!ghosts
<1>1. CASE Turns!Turn
  <2>1. CASE Turns!SkipCompaction \/ Turns!TransientError \/ Turns!CompleteTool
    <3>1. UNCHANGED <<lists, transcripts, current, tail, cmdKept, count, history, cmd, cmdHeld,
                      tainted, raced, pending, parallel, sliceLen, snapshot, window, held>>
      BY <2>1 DEF Turns!SkipCompaction, Turns!TransientError, Turns!CompleteTool
    <3>2. Turns!CompleteTool => ran' \in Seq(Nat)
      <4>1. ran \in Seq(Nat)
        BY DEF TurnIInv, TurnTypes
      <4>2. Turns!CompleteTool => \E k \in 1 .. pending : ran' = Append(ran, k)
        BY DEF Turns!CompleteTool
      <4>3. \A k \in 1 .. pending : k \in Nat
        BY TurnConstants DEF TurnIInv, TurnTypes
      <4> QED
        BY <4>1, <4>2, <4>3
    <3>3. \/ turn = "begun" /\ turn' = "prepared" /\ UNCHANGED <<outcome, ran>>
          \/ turn = "ask" /\ turn' = "ask" /\ UNCHANGED <<outcome, ran>>
          \/ turn = "tools" /\ turn' = "tools" /\ parallel /\ UNCHANGED outcome /\ ran' \in Seq(Nat)
      BY <2>1, <3>2
      DEF Turns!SkipCompaction, Turns!TransientError, Turns!CompleteTool, Turns!Thinking
    <3> QED
      BY <3>1, <3>3, OnlyTheTurnMoves
  <2>2. CASE \/ Turns!StartCompaction \/ Turns!InstallCompaction \/ Turns!AbandonCompaction
             \/ Turns!SaveUserMessage
    BY <2>2, CompactionSteps
  <2>3. CASE Turns!BeginRun
    BY <2>3, BeginStep
  <2>4. CASE \/ Turns!Recover \/ Turns!CallNothing \/ Turns!Answer \/ Turns!RoundLimit
             \/ Turns!CallTools
    BY <2>4, ModelSteps
  <2>5. CASE Turns!RunNextTool \/ Turns!CollectResults
    BY <2>5, ToolSteps
  <2>6. CASE Turns!ProviderFails \/ Turns!CloseFails
    BY <2>6, FailStep DEF Turns!ProviderFails, Turns!CloseFails, Turns!Thinking
  <2>7. CASE Turns!Replay
    BY <2>7, ReplayStep
  <2>8. CASE Turns!Close
    BY <2>8, CloseStep
  <2> QED
    BY <1>1, <2>1, <2>2, <2>3, <2>4, <2>5, <2>6, <2>7, <2>8 DEF Turns!Turn
<1>2. CASE UNCHANGED Turns!vars
  <2>1. UNCHANGED <<transcripts, current, lists, history, turn, count, window, held, sliceLen,
                    snapshot, pending, parallel, ran, tail, cmd, cmdHeld, cmdKept, outcome, raced,
                    tainted>>
    BY <1>2 DEF Turns!vars
  <2>2. TurnTypes' /\ ListsAreTranscripts' /\ RunIsLinked'
    BY <2>1 DEF TurnIInv, TurnTypes, Turns!Running, ListsAreTranscripts, RunIsLinked, Results
  <2>3. ToolsFollowTheirCall'
    BY <2>1 DEF TurnIInv, ToolsFollowTheirCall, Results
  <2>4. ListsAreAnswered'
    BY <2>1 DEF TurnIInv, ListsAreAnswered, Results, Turns!Running
  <2>5. TurnKeepsItsMessage'
    BY <2>1 DEF TurnIInv, TurnKeepsItsMessage, Begins, Turns!Running
  <2> QED
    BY <2>2, <2>3, <2>4, <2>5 DEF TurnIInv
<1> QED
  BY <1>1, <1>2, SendStep, CommandSteps, StopSteps DEF Turns!Next

\* A step of the run is one of the turn or leaves it alone.
LEMMA TurnStep == [MCNext]_mcVars => [Turns!Next]_(Turns!vars)
  BY DEF MCNext, mcVars, Turns!vars, turnVars

\* The invariant holds in every reachable state.
LEMMA TurnInvariant == MCSpec => []TurnIInv
<1>1. MCInit => TurnIInv
  BY TurnInit DEF MCInit
<1>2. TurnIInv /\ [MCNext]_mcVars => TurnIInv'
  BY TurnNext, TurnStep
<1> QED
  BY <1>1, <1>2, PTL DEF MCSpec

\* Every request to the model answers each tool call it contains, in the order of
\* the calls, and has a result without its call only where a cut took that away
\* (run_turn, _call_with_retry, Compactor), for any turns, rounds, calls, windows,
\* retries and commands.
THEOREM RequestPaired == MCSpec => []RequestIsPaired
<1>1. TurnIInv => RequestIsPaired
  <2> SUFFICES ASSUME TurnIInv, Turns!Thinking
               PROVE  /\ Turns!OrphansAtTheCut(lists[held])
                      /\ tainted \/ Turns!Answered(lists[held])
    BY DEF RequestIsPaired, Turns!RequestIsPaired, Turns!Request
  <2>1. turn = "ask" /\ held \in Turns!Ref
    BY DEF Turns!Thinking, TurnIInv, TurnTypes, Turns!Running
  <2>2. tainted \/ Turns!Answered(lists[held])
    BY <2>1 DEF TurnIInv, ListsAreAnswered
  <2>3. PICK s : s = lists[held]
    OBVIOUS
  <2>4. s \in Seq(Turns!Message) /\ ResultsHaveCalls(s)
    BY <2>1, <2>3 DEF TurnIInv, ListsAreTranscripts, Transcript
  <2>5. ASSUME NEW i \in 1 .. Len(s), s[i].role = "tool"
        PROVE  \/ i > s[i].n /\ s[i - s[i].n].role = "assistant" /\ s[i - s[i].n].n >= s[i].n
               \/ \A j \in 1 .. i - 1 : s[j].turn = 0 \/ s[j].role = "tool"
    <3>1. Linked(s, i) \/ CutOff(s, i)
      BY <2>4, <2>5 DEF ResultsHaveCalls
    <3>2. s[i].n \in Nat /\ i \in Nat
      BY <2>4, MessageFacts
    <3>3. i - s[i].n >= 1 => i > s[i].n
      BY <3>2
    <3> QED
      BY <3>1, <3>3 DEF Linked, CutOff
  <2>6. Turns!OrphansAtTheCut(s)
    BY <2>5 DEF Turns!OrphansAtTheCut
  <2> QED
    BY <2>2, <2>3, <2>6
<1> QED
  BY <1>1, TurnInvariant, PTL

\* A turn that failed leaves its message and the error record, and nothing else it
\* had produced (the except clause of send), unless a command raced with it.
THEOREM FailureRolledBack == MCSpec => FailedTurnIsRolledBack
<1>1. TurnIInv /\ [MCNext]_mcVars =>
        [ turn # "idle" /\ turn' = "idle" /\ outcome' = "failed" /\ ~raced =>
            LET s == transcripts'[current]
                mine == {i \in 1 .. Len(s) : s[i].turn = count}
            IN /\ mine = {Len(s) - 1, Len(s)}
               /\ s[Len(s) - 1] = Turns!User(count) /\ s[Len(s)] = Turns!Reply(count) ]_(Turns!vars)
  <2> SUFFICES ASSUME TurnIInv, Turns!Next, turn # "idle", turn' = "idle", outcome' = "failed", ~raced
               PROVE  LET s == transcripts'[current]
                          mine == {i \in 1 .. Len(s) : s[i].turn = count}
                      IN /\ mine = {Len(s) - 1, Len(s)}
                         /\ s[Len(s) - 1] = Turns!User(count) /\ s[Len(s)] = Turns!Reply(count)
    BY TurnStep
  <2>1. turn \in {"ask", "finishing", "closing"} /\ Turns!Fail
    <3>1. Turns!Turn
      <4>1. ~Turns!Send /\ ~Turns!Commands
        BY DEF Turns!Send, Turns!Commands, Turns!ResetSession, Turns!Reload, Turns!StartCompactNow,
               Turns!InstallCompactNow, Turns!AbandonCompactNow
      <4>2. ~Turns!Interrupt /\ ~Turns!Crash
        BY DEF Turns!Interrupt, Turns!Crash, Turns!EndTurn
      <4> QED
        BY <4>1, <4>2 DEF Turns!Next
    <3>2. ~Turns!Close
      <4>1. turn = "closing" => outcome # "failed"
        BY DEF TurnIInv, TurnTypes
      <4> QED
        BY <4>1 DEF Turns!Close, Turns!EndTurn
    <3>3. Turns!ProviderFails \/ Turns!CloseFails
      BY <3>1, <3>2
      DEF Turns!Turn, Turns!SkipCompaction, Turns!StartCompaction, Turns!InstallCompaction,
          Turns!AbandonCompaction, Turns!SaveUserMessage, Turns!BeginRun, Turns!TransientError,
          Turns!Thinking, Turns!Recover, Turns!CallNothing, Turns!Answer, Turns!CallTools,
          Turns!RunNextTool, Turns!CompleteTool, Turns!CollectResults, Turns!RoundLimit,
          Turns!Replay, Turns!EndTools, Turns!NextRound
    <3> QED
      BY <3>3 DEF Turns!ProviderFails, Turns!CloseFails, Turns!Thinking
  <2> QED
    BY <2>1, FailStep
<1> QED
  BY <1>1, TurnInvariant, PTL DEF MCSpec, FailedTurnIsRolledBack, Turns!FailedTurnIsRolledBack

\* A turn that ended with an answer, or at the round limit, has its message and
\* its answer on file, whatever window it ran with, unless a command raced with it.
\* (That a turn ends is left to TLC.)
THEOREM AnswerOnFile == MCSpec => Turns!AnswerIsOnFile
<1>1. TurnIInv /\ [MCNext]_mcVars =>
        [ Turns!Close /\ ~raced =>
            LET s == transcripts'[current]
            IN Turns!Last(s) = Turns!Reply(count)
               /\ \E i \in 1 .. Len(s) : s[i] = Turns!User(count) ]_(Turns!vars)
  <2>1. Turns!Close => current' = current
    BY DEF Turns!Close
  <2> QED
    BY <2>1, CloseStep
<1> QED
  BY <1>1, TurnInvariant, PTL DEF MCSpec, Turns!AnswerIsOnFile

-----------------------------------------------------------------------------
(* The mirror of a transcript. *)

Sides == Mirror!Threads
Copy == [m : Nat, ev : Nat]

\* A list of messages made so far, each of them once.
Known(s, c) ==
  /\ s \in Seq(Copy)
  /\ \A i \in 1 .. Len(s) : s[i].m <= c /\ \A j \in 1 .. Len(s) : s[i].m = s[j].m => i = j

\* Whatever id a message has in t, it has in s.
Knows(s, t) ==
  \A i \in 1 .. Len(s), j \in 1 .. Len(t) : s[i].m = t[j].m => t[j].ev \in {0, s[i].ev}

MirrorTypes ==
  /\ made \in Nat /\ events \in Seq(Nat) /\ table \in Seq(Nat)
  /\ mirrors \subseteq Nat \X (1 .. Len(table))
  /\ Known(jsonl, made) /\ copy \in [Sides -> Seq(Copy)] /\ \A p \in Sides : Known(copy[p], made)
  /\ todo \in [Sides -> Seq(Nat)] /\ step \in [Sides -> {"check", "insert", "record"}]
  /\ row \in [Sides -> Nat] /\ length \in Nat /\ mirrorFaults \in Nat
  /\ saving \in {"idle", "mirror_user", "mirror_new", "down"} /\ sweep \in {"idle", "mirroring"}
  /\ assigned \in BOOLEAN

\* A pass knows the ids of the file it loaded, and the file those of the turn, though
\* the turn overwrites what a pass has saved.
IdsDescend ==
  Knows(copy["rec"], jsonl) /\ Knows(copy["rec"], copy["turn"]) /\ Knows(jsonl, copy["turn"])

\* No list but the turn's has the message.
Unsaved(m) ==
  /\ \A i \in 1 .. Len(jsonl) : jsonl[i].m # m
  /\ \A i \in 1 .. Len(copy["rec"]) : copy["rec"][i].m # m

\* What the turn has to mirror is the last message of its history, which has an id
\* or is nowhere else yet.
TurnMirrors ==
  LET h == copy["turn"]
  IN /\ saving = "mirror_user" => length = Len(h)
     /\ saving = "mirror_new" => length <= Len(h)
     /\ \/ todo["turn"] = << >>
        \/ /\ saving \in {"mirror_user", "mirror_new"} /\ todo["turn"] = <<Len(h)>> /\ Len(h) >= 1
           /\ h[Len(h)].ev # 0 \/ Unsaved(h[Len(h)].m)

\* A pass has what is left of its list to mirror; what it has done is mirrored.
PassMirrors ==
  LET h == copy["rec"]
      d == Len(h) - Len(todo["rec"])
  IN /\ d >= 0 /\ \A j \in 1 .. Len(todo["rec"]) : todo["rec"][j] = d + j
     /\ \A i \in 1 .. d : Mirror!Mirrored(h[i].ev)
     /\ sweep = "idle" => h = << >>
     /\ saving = "down" /\ sweep = "mirroring" /\ ~assigned => h = jsonl

\* Within mirror_message the message has an id, and then a row.
WithinMirror ==
  /\ ~Mirror!Mirrored(0)
  /\ \A p \in Sides :
       /\ step[p] # "check" => todo[p] # << >> /\ Mirror!Current(p).ev # 0
       /\ step[p] = "record" => row[p] \in 1 .. Len(table)

\* Ids come from one counter.
Given(s, n) == \A i \in 1 .. Len(s) : s[i].ev <= n
IdsGiven ==
  /\ Given(jsonl, Len(events)) /\ \A p \in Sides : Given(copy[p], Len(events))
  /\ \A x \in mirrors : x[1] <= Len(events)

CopiesIInv ==
  MirrorTypes /\ IdsDescend /\ TurnMirrors /\ PassMirrors /\ WithinMirror /\ IdsGiven

\* Without the timer a pass comes before the turns, and whatever is being mirrored
\* has not been.
OneSideAtATime == ~periodic =>
  /\ sweep = "mirroring" => saving = "down"
  /\ \A p \in Sides : step[p] # "check" => ~Mirror!Mirrored(Mirror!Current(p).ev)

\* Rows that came second, and ids that have a row, no mirror and nobody about to make it.
SecondRows == {r \in DOMAIN table : \E q \in 1 .. r - 1 : table[q] = table[r]}
LooseIds ==
  {e \in {table[r] : r \in DOMAIN table} :
     /\ ~Mirror!Mirrored(e)
     /\ \A p \in Sides : step[p] = "record" => Mirror!Current(p).ev # e}

\* Each costs a fault.
RowsCost == ~periodic => Cardinality(SecondRows) + Cardinality(LooseIds) <= mirrorFaults

\* Every message of a list is one of h, or later than c with no id or e.
From(s, h, c, e) ==
  \A i \in 1 .. Len(s) : \/ s[i].m > c /\ s[i].ev \in {0, e}
                        \/ \E j \in 1 .. Len(h) : s[i] = h[j]

\* What is in a list.
LEMMA KnownHas ==
  ASSUME NEW s, NEW c, Known(s, c)
  PROVE  /\ s \in Seq(Copy) /\ Len(s) \in Nat
         /\ \A i \in 1 .. Len(s) : s[i] \in Copy /\ s[i].m \in Nat /\ s[i].ev \in Nat /\ s[i].m <= c
<1>1. s \in Seq(Copy)
  BY DEF Known
<1>2. Len(s) \in Nat /\ \A i \in 1 .. Len(s) : s[i] \in Copy
  BY <1>1
<1>3. \A x \in Copy : x.m \in Nat /\ x.ev \in Nat
  BY DEF Copy
<1> QED
  BY <1>1, <1>2, <1>3 DEF Known

\* A part of a list.
LEMMA PartKnown ==
  ASSUME NEW c \in Nat, NEW h, Known(h, c), NEW a \in 1 .. Len(h) + 1, NEW b \in 0 .. Len(h),
         NEW e, a <= b + 1
  PROVE  /\ Known(SubSeq(h, a, b), c) /\ From(SubSeq(h, a, b), h, c, e)
         /\ Len(SubSeq(h, a, b)) = b - a + 1
         /\ \A i \in 1 .. b - a + 1 : SubSeq(h, a, b)[i] = h[i + (a - 1)]
<1>1. h \in Seq(Copy) /\ Len(h) \in Nat
  BY DEF Known
<1>2. a \in Int /\ b \in Int /\ \A i \in a .. b : h[i] \in Copy
  BY <1>1
<1> DEFINE s == SubSeq(h, a, b)
<1>3. s \in Seq(Copy) /\ Len(s) = b - a + 1 /\ \A i \in 1 .. b - a + 1 : s[i] = h[a + i - 1]
  BY <1>1, <1>2, SubSeqProperties
<1> HIDE DEF s
<1>4. \A i \in 1 .. b - a + 1 : s[i] = h[i + (a - 1)] /\ i + (a - 1) \in 1 .. Len(h)
  BY <1>1, <1>3
<1>5. Known(s, c)
  <2>1. \A i \in 1 .. Len(s) : s[i].m <= c
    BY <1>3, <1>4 DEF Known
  <2>2. ASSUME NEW i \in 1 .. Len(s), NEW j \in 1 .. Len(s), s[i].m = s[j].m PROVE i = j
    <3>1. /\ i + (a - 1) \in 1 .. Len(h) /\ j + (a - 1) \in 1 .. Len(h)
          /\ s[i] = h[i + (a - 1)] /\ s[j] = h[j + (a - 1)]
      BY <1>3, <1>4
    <3>2. i + (a - 1) = j + (a - 1)
      BY <2>2, <3>1 DEF Known
    <3> QED
      BY <1>1, <1>3, <3>2
  <2> QED
    BY <1>3, <2>1, <2>2 DEF Known
<1>6. From(s, h, c, e)
  BY <1>3, <1>4 DEF From
<1> QED
  BY <1>3, <1>4, <1>5, <1>6 DEF s

\* Two lists without a message in common, one after the other.
LEMMA JoinKnown ==
  ASSUME NEW c \in Nat, NEW n \in Nat, NEW e, NEW h, NEW s, NEW t, Known(s, n), Known(t, n),
         From(s, h, c, e), From(t, h, c, e),
         \A i \in 1 .. Len(s), j \in 1 .. Len(t) : s[i].m # t[j].m
  PROVE  /\ Known(s \o t, n) /\ From(s \o t, h, c, e) /\ Len(s \o t) = Len(s) + Len(t)
         /\ \A i \in 1 .. Len(t) : (s \o t)[i + Len(s)] = t[i]
         /\ \A i \in 1 .. Len(s) : (s \o t)[i] = s[i]
<1>1. s \in Seq(Copy) /\ t \in Seq(Copy) /\ Len(s) \in Nat /\ Len(t) \in Nat
  BY DEF Known
<1> DEFINE u == s \o t
<1>2. /\ u \in Seq(Copy) /\ Len(u) = Len(s) + Len(t)
      /\ \A i \in 1 .. Len(s) + Len(t) : u[i] = IF i <= Len(s) THEN s[i] ELSE t[i - Len(s)]
  BY <1>1, ConcatProperties
<1> HIDE DEF u
<1>3. \A i \in 1 .. Len(u) : \/ i \in 1 .. Len(s) /\ u[i] = s[i]
                             \/ i - Len(s) \in 1 .. Len(t) /\ u[i] = t[i - Len(s)]
  BY <1>1, <1>2
<1>4. \A i \in 1 .. Len(u) : u[i].m <= n
  BY <1>3 DEF Known
<1>5. ASSUME NEW i \in 1 .. Len(u), NEW j \in 1 .. Len(u), u[i].m = u[j].m
      PROVE  i = j
  <2>1. CASE i \in 1 .. Len(s) /\ u[i] = s[i]
    <3>1. j \in 1 .. Len(s) /\ u[j] = s[j]
      BY <1>3, <1>5, <2>1
    <3> QED
      BY <1>5, <2>1, <3>1 DEF Known
  <2>2. CASE i - Len(s) \in 1 .. Len(t) /\ u[i] = t[i - Len(s)]
    <3>1. j - Len(s) \in 1 .. Len(t) /\ u[j] = t[j - Len(s)]
      BY <1>3, <1>5, <2>2
    <3>2. i - Len(s) = j - Len(s)
      BY <1>5, <2>2, <3>1 DEF Known
    <3> QED
      BY <1>1, <1>2, <3>2
  <2> QED
    BY <1>3, <2>1, <2>2
<1>6. From(u, h, c, e)
  <2> SUFFICES ASSUME NEW i \in 1 .. Len(u)
               PROVE  \/ u[i].m > c /\ u[i].ev \in {0, e}
                      \/ \E j \in 1 .. Len(h) : u[i] = h[j]
    BY DEF From
  <2>1. CASE i \in 1 .. Len(s) /\ u[i] = s[i]
    BY <2>1 DEF From
  <2>2. CASE i - Len(s) \in 1 .. Len(t) /\ u[i] = t[i - Len(s)]
    BY <2>2 DEF From
  <2> QED
    BY <1>3, <2>1, <2>2
<1>7. \A i \in 1 .. Len(t) : i + Len(s) \in 1 .. Len(s) + Len(t) /\ ~(i + Len(s) <= Len(s))
                             /\ i + Len(s) - Len(s) = i
  BY <1>1
<1>8. /\ \A i \in 1 .. Len(t) : u[i + Len(s)] = t[i]
      /\ \A i \in 1 .. Len(s) : u[i] = s[i]
  <2>1. \A i \in 1 .. Len(s) : i \in 1 .. Len(s) + Len(t) /\ i <= Len(s)
    BY <1>1
  <2> QED
    BY <1>2, <1>7, <2>1
<1> QED
  BY <1>2, <1>4, <1>5, <1>6, <1>8 DEF Known, u

\* A new message,
LEMMA OneKnown ==
  ASSUME NEW c \in Nat, NEW h, NEW n \in Nat, n > c, NEW e \in Nat
  PROVE  /\ Mirror!Msg(n, e) \in Copy /\ Mirror!Msg(n, e).m = n /\ Mirror!Msg(n, e).ev = e
         /\ Known(<<Mirror!Msg(n, e)>>, n) /\ From(<<Mirror!Msg(n, e)>>, h, c, e)
         /\ Len(<<Mirror!Msg(n, e)>>) = 1
<1> DEFINE x == Mirror!Msg(n, e)
<1>1. x \in Copy /\ x.m = n /\ x.ev = e
  BY DEF Mirror!Msg, Copy
<1> HIDE DEF x
<1>2. <<x>> \in Seq(Copy) /\ Len(<<x>>) = 1 /\ <<x>>[1] = x
  BY <1>1
<1>3. Known(<<x>>, n) /\ From(<<x>>, h, c, e)
  BY <1>1, <1>2 DEF Known, From
<1> QED
  BY <1>1, <1>2, <1>3 DEF x

\* and two.
LEMMA TwoKnown ==
  ASSUME NEW c \in Nat, NEW h, NEW e, NEW n \in Nat, NEW k \in Nat, n > c, k > n
  PROVE  LET s == <<Mirror!Msg(n, 0), Mirror!Msg(k, 0)>>
         IN Known(s, k) /\ From(s, h, c, e) /\ Len(s) = 2 /\ s[1].m = n /\ s[2].m = k
<1> DEFINE y == Mirror!Msg(n, 0)
           z == Mirror!Msg(k, 0)
<1>1. y \in Copy /\ y.m = n /\ y.ev = 0 /\ z \in Copy /\ z.m = k /\ z.ev = 0
  BY DEF Mirror!Msg, Copy
<1> HIDE DEF y, z
<1>2. <<y, z>> \in Seq(Copy) /\ Len(<<y, z>>) = 2 /\ <<y, z>>[1] = y /\ <<y, z>>[2] = z
  BY <1>1
<1>3. Known(<<y, z>>, k) /\ From(<<y, z>>, h, c, e)
  BY <1>1, <1>2 DEF Known, From
<1> QED
  BY <1>1, <1>2, <1>3 DEF y, z

\* More messages are made.
LEMMA KnownGrows ==
  ASSUME NEW c \in Nat, NEW n \in Nat, c <= n, NEW s, NEW e, Known(s, c)
  PROVE  Known(s, n) /\ From(s, s, c, e)
<1>1. \A i \in 1 .. Len(s) : s[i].m <= n
  BY KnownHas
<1> QED
  BY <1>1 DEF Known, From

\* What is said next.
LEMMA SaidKnown ==
  ASSUME NEW c \in Nat, NEW n \in Nat, n > c, NEW e \in Nat,
         NEW h, NEW t, Known(t, c), From(t, h, c, e)
  PROVE  LET s == Append(t, Mirror!Msg(n, e))
         IN /\ Known(s, n) /\ From(s, h, c, e) /\ Len(s) = Len(t) + 1
            /\ s[Len(s)] = Mirror!Msg(n, e)
<1> DEFINE x == Mirror!Msg(n, e)
           s == t \o <<x>>
<1>1. /\ x \in Copy /\ x.m = n /\ Known(<<x>>, n) /\ From(<<x>>, h, c, e)
      /\ Len(<<x>>) = 1 /\ <<x>>[1] = x
  <2>2. <<x>>[1] = x
    OBVIOUS
  <2>3. /\ Mirror!Msg(n, e) \in Copy /\ Mirror!Msg(n, e).m = n
        /\ Known(<<Mirror!Msg(n, e)>>, n) /\ From(<<Mirror!Msg(n, e)>>, h, c, e)
        /\ Len(<<Mirror!Msg(n, e)>>) = 1
    BY OneKnown
  <2> QED
    BY <2>2, <2>3
<1>2. t \in Seq(Copy) /\ Len(t) \in Nat /\ \A i \in 1 .. Len(t) : t[i].m <= c /\ t[i].m \in Nat
  BY KnownHas
<1>3. Append(t, x) = s
  BY <1>1, <1>2, AppendIsConcat
<1> HIDE DEF x
<1>4. \A i \in 1 .. Len(t), j \in 1 .. Len(<<x>>) : t[i].m # <<x>>[j].m
  BY <1>1, <1>2
<1>5. Known(t, n)
  BY KnownGrows
<1> HIDE DEF s
<1>6. /\ Known(s, n) /\ From(s, h, c, e) /\ Len(s) = Len(t) + 1
      /\ s[1 + Len(t)] = <<x>>[1]
  <2>1. /\ Known(t \o <<x>>, n) /\ From(t \o <<x>>, h, c, e)
        /\ Len(t \o <<x>>) = Len(t) + Len(<<x>>)
        /\ \A i \in 1 .. Len(<<x>>) : (t \o <<x>>)[i + Len(t)] = <<x>>[i]
    BY <1>1, <1>4, <1>5, JoinKnown
  <2> QED
    BY <1>1, <2>1 DEF s
<1>7. s[Len(s)] = x
  BY <1>1, <1>2, <1>6
<1> QED
  BY <1>3, <1>6, <1>7 DEF x

\* A summary and its acknowledgement before the rest of a history.
LEMMA SummaryKnown ==
  ASSUME NEW c \in Nat, NEW e, NEW h, NEW t, Known(t, c + 1), From(t, h, c, e)
  PROVE  LET s == <<Mirror!Msg(c + 2, 0), Mirror!Msg(c + 3, 0)>> \o t
         IN /\ Known(s, c + 3) /\ From(s, h, c, e) /\ Len(s) = 2 + Len(t)
            /\ \A i \in 1 .. Len(t) : s[i + 2] = t[i]
<1> DEFINE first == <<Mirror!Msg(c + 2, 0), Mirror!Msg(c + 3, 0)>>
           w == c + 3
<1>1. /\ Known(first, w) /\ From(first, h, c, e) /\ Len(first) = 2
      /\ first[1].m = c + 2 /\ first[2].m = w
  <2>1. c + 2 \in Nat /\ c + 3 \in Nat /\ c + 2 > c /\ c + 3 > c + 2
    OBVIOUS
  <2> QED
    BY <2>1, TwoKnown
<1>2. w \in Nat /\ c + 1 \in Nat /\ c + 1 <= w
  OBVIOUS
<1>3. Known(t, w)
  BY <1>2, KnownGrows
<1>4. \A i \in 1 .. Len(t) : t[i].m <= c + 1 /\ t[i].m \in Nat
  BY KnownHas
<1> HIDE DEF first
<1>5. \A i \in 1 .. Len(first), j \in 1 .. Len(t) : first[i].m # t[j].m
  <2>1. \A i \in 1 .. Len(first) : first[i].m > c + 1
    BY <1>1
  <2> QED
    BY <1>2, <1>4, <2>1
<1> HIDE DEF w
<1>6. /\ Known(first \o t, w) /\ From(first \o t, h, c, e) /\ Len(first \o t) = Len(first) + Len(t)
      /\ \A i \in 1 .. Len(t) : (first \o t)[i + Len(first)] = t[i]
  <2>1. c \in Nat /\ w \in Nat /\ Known(first, w) /\ From(first, h, c, e)
    BY <1>1, <1>2
  <2> QED
    BY ONLY <2>1, <1>3, <1>5, From(t, h, c, e), JoinKnown
<1> QED
  BY <1>1, <1>6 DEF first, w

\* The user's message, and what a compaction makes of the history with it.
LEMMA CompactedKnown ==
  ASSUME NEW h, made \in Nat, Known(h, made), NEW e \in Nat, NEW k \in Nat, k < Len(h) + 1
  PROVE  LET s == Mirror!Compacted(Append(h, Mirror!Msg(made + 1, e)), k)
         IN /\ Known(s, made + (IF k = 0 THEN 1 ELSE 3)) /\ From(s, h, made, e) /\ Len(s) >= 1
            /\ Len(s) \in Nat /\ s[Len(s)] = Mirror!Msg(made + 1, e)
<1> DEFINE said == Append(h, Mirror!Msg(made + 1, e))
           n == Len(said)
           first == <<Mirror!Msg(made + 2, 0), Mirror!Msg(made + 3, 0)>>
           t == SubSeq(said, k + 1, n)
<1>1. /\ Known(said, made + 1) /\ From(said, h, made, e) /\ n = Len(h) + 1
      /\ said[n] = Mirror!Msg(made + 1, e)
  <2>1. made + 1 \in Nat /\ made + 1 > made
    OBVIOUS
  <2>2. From(h, h, made, e)
    BY DEF From
  <2> QED
    BY <2>1, <2>2, SaidKnown
<1>2. Len(h) \in Nat /\ n \in Nat
  BY <1>1 DEF Known
<1>3. CASE k = 0
  BY <1>1, <1>2, <1>3 DEF Mirror!Compacted
<1>4. CASE k # 0
  <2>2. /\ Known(t, made + 1) /\ From(t, said, made + 1, e) /\ Len(t) = n - (k + 1) + 1
        /\ \A i \in 1 .. n - (k + 1) + 1 : t[i] = said[i + (k + 1 - 1)]
    <3>1. k + 1 \in 1 .. n + 1 /\ n \in 0 .. n /\ k + 1 <= n + 1 /\ made + 1 \in Nat
      BY <1>1, <1>2
    <3> HIDE DEF said
    <3> QED
      BY <1>1, <3>1, PartKnown
  <2>3. Len(t) = n - k /\ Len(t) \in Nat /\ Len(t) >= 1 /\ t[n - k] = said[n]
    BY <1>1, <1>2, <2>2
  <2>4. From(t, h, made, e)
    <3>1. \A i \in 1 .. Len(t) : i + (k + 1 - 1) \in 1 .. n /\ t[i] = said[i + (k + 1 - 1)]
      BY <1>1, <1>2, <2>2, <2>3
    <3> HIDE DEF t, said
    <3> QED
      BY <1>1, <3>1 DEF From
  <2> DEFINE s == first \o t
  <2>7. /\ Known(s, made + 3) /\ From(s, h, made, e) /\ Len(s) = 2 + Len(t)
        /\ \A i \in 1 .. Len(t) : s[i + 2] = t[i]
    <3> HIDE DEF t
    <3> QED
      BY <2>2, <2>4, SummaryKnown
  <2> HIDE DEF first, t
  <2>8. Len(s) \in Nat /\ Len(s) >= 1 /\ s[Len(s)] = said[n]
    <3>1. n - k \in 1 .. Len(t) /\ Len(s) = n - k + 2
      BY <1>2, <2>3, <2>7
    <3>2. s[Len(s)] = t[n - k]
      <4>1. s[n - k + 2] = t[n - k]
        BY <2>7, <3>1
      <4> QED
        BY <3>1, <4>1
    <3> QED
      BY <1>2, <2>3, <3>1, <3>2
  <2>9. Mirror!Compacted(said, k) = s
    BY <1>4 DEF Mirror!Compacted, first, t
  <2> HIDE DEF s, said
  <2> QED
    BY <1>1, <1>4, <2>7, <2>8, <2>9 DEF said
<1> QED
  BY <1>3, <1>4

\* The messages of an answer.
LEMMA AnsweredKnown ==
  ASSUME NEW h, made \in Nat, Known(h, made), NEW bare \in BOOLEAN
  PROVE  LET new == IF bare THEN <<Mirror!Msg(made + 1, 0), Mirror!Msg(made + 2, 0)>>
                    ELSE <<Mirror!Msg(made + 1, 0)>>
         IN /\ Known(h \o new, made + Len(new)) /\ From(h \o new, h, made, 0)
            /\ Len(new) \in {1, 2} /\ Len(h \o new) = Len(h) + Len(new)
            /\ (h \o new)[Len(h) + Len(new)].m > made
<1> DEFINE new == IF bare THEN <<Mirror!Msg(made + 1, 0), Mirror!Msg(made + 2, 0)>>
                  ELSE <<Mirror!Msg(made + 1, 0)>>
           n == made + Len(new)
<1>1. Known(new, n) /\ From(new, h, made, 0) /\ Len(new) \in {1, 2}
  <2>1. CASE bare
    <3>1. /\ Known(<<Mirror!Msg(made + 1, 0), Mirror!Msg(made + 2, 0)>>, made + 2)
          /\ From(<<Mirror!Msg(made + 1, 0), Mirror!Msg(made + 2, 0)>>, h, made, 0)
          /\ Len(<<Mirror!Msg(made + 1, 0), Mirror!Msg(made + 2, 0)>>) = 2
      <4>1. /\ made + 1 \in Nat /\ made + 2 \in Nat /\ made + 1 > made /\ made + 2 > made + 1
            /\ 0 \in Nat
        OBVIOUS
      <4> QED
        BY <4>1, OneKnown, TwoKnown
    <3> QED
      BY <2>1, <3>1
  <2>2. CASE ~bare
    <3>1. /\ Known(<<Mirror!Msg(made + 1, 0)>>, made + 1) /\ Len(<<Mirror!Msg(made + 1, 0)>>) = 1
          /\ From(<<Mirror!Msg(made + 1, 0)>>, h, made, 0)
      <4>1. /\ made + 1 \in Nat /\ made + 2 \in Nat /\ made + 1 > made /\ made + 2 > made + 1
            /\ 0 \in Nat
        OBVIOUS
      <4> QED
        BY <4>1, OneKnown, TwoKnown
    <3> QED
      BY <2>2, <3>1
  <2> QED
    BY <2>1, <2>2
<1>2. \A j \in 1 .. Len(new) : new[j].m > made /\ new[j].m \in Nat
  BY DEF Mirror!Msg
<1> HIDE DEF new
<1>3. /\ \A i \in 1 .. Len(h) : h[i].m <= made /\ h[i].m \in Nat
      /\ Len(h) \in Nat /\ n \in Nat /\ made <= n
  BY <1>1, KnownHas
<1>4. Known(h, n) /\ From(h, h, made, 0)
  BY <1>3, KnownGrows
<1>5. \A i \in 1 .. Len(h), j \in 1 .. Len(new) : h[i].m # new[j].m
  BY <1>2, <1>3
<1> HIDE DEF n
<1>6. /\ Known(h \o new, n) /\ From(h \o new, h, made, 0) /\ Len(h \o new) = Len(h) + Len(new)
      /\ \A i \in 1 .. Len(new) : (h \o new)[i + Len(h)] = new[i]
  BY <1>1, <1>3, <1>4, <1>5, JoinKnown
<1>7. (h \o new)[Len(h) + Len(new)].m > made
  <2>1. Len(new) \in 1 .. Len(new) /\ Len(new) + Len(h) = Len(h) + Len(new)
    <3>1. Len(new) \in {1, 2} /\ Len(h) \in Nat
      BY <1>1, <1>3
    <3> QED
      BY ONLY <3>1
  <2> QED
    BY <1>2, <1>6, <2>1
<1> QED
  BY <1>1, <1>6, <1>7 DEF n, new

\* An id for one message.
LEMMA GivenKnown ==
  ASSUME NEW c \in Nat, NEW h, Known(h, c), NEW i \in 1 .. Len(h), NEW e \in Nat
  PROVE  LET s == [h EXCEPT ![i] = Mirror!Msg(h[i].m, e)]
         IN /\ Known(s, c) /\ Len(s) = Len(h) /\ \A j \in 1 .. Len(h) : s[j].m = h[j].m
            /\ \A j \in 1 .. Len(h) : s[j].ev = IF j = i THEN e ELSE h[j].ev
<1> DEFINE x == Mirror!Msg(h[i].m, e)
           s == [h EXCEPT ![i] = x]
<1>1. h \in Seq(Copy) /\ x \in Copy /\ x.m = h[i].m /\ x.ev = e
  BY KnownHas DEF Mirror!Msg, Copy
<1> HIDE DEF x
<1>2. /\ s \in Seq(Copy) /\ Len(s) = Len(h)
      /\ \A j \in 1 .. Len(h) : s[j] = IF j = i THEN x ELSE h[j]
  BY <1>1, ExceptSeq
<1> HIDE DEF s
<1>3. \A j \in 1 .. Len(h) : s[j].m = h[j].m /\ s[j].ev = IF j = i THEN e ELSE h[j].ev
  BY <1>1, <1>2
<1>4. Known(s, c)
  BY <1>2, <1>3 DEF Known
<1> QED
  BY <1>2, <1>3, <1>4 DEF s, x

\* Who knows the ids of a list knows those of what is made of it.
LEMMA FromKnows ==
  ASSUME NEW c \in Nat, NEW e, NEW s, NEW h, NEW t, Known(s, c), Known(h, c),
         From(t, h, c, e)
  PROVE  (Knows(s, h) => Knows(s, t)) /\ Knows(h, h)
<1>1. \A i \in 1 .. Len(s) : s[i].m <= c /\ s[i].m \in Nat
  BY KnownHas
<1>2. Knows(h, h)
  BY DEF Known, Knows
<1>3. ASSUME Knows(s, h) PROVE Knows(s, t)
  <2> SUFFICES ASSUME NEW i \in 1 .. Len(s), NEW j \in 1 .. Len(t), s[i].m = t[j].m
               PROVE  t[j].ev \in {0, s[i].ev}
    BY DEF Knows
  <2>1. PICK k \in 1 .. Len(h) : t[j] = h[k]
    BY <1>1 DEF From
  <2> QED
    BY <1>3, <2>1 DEF Knows
<1> QED
  BY <1>2, <1>3

\* The two threads and their lists.
LEMMA SideFacts ==
  /\ Sides = {"turn", "rec"} /\ "turn" \in Sides /\ "rec" \in Sides
  BY DEF Sides, Mirror!Threads

\* A mirror stays.
LEMMA MirrorsStay ==
  ASSUME MirrorTypes, mirrors \subseteq mirrors', table' \in Seq(Nat), Len(table) <= Len(table')
  PROVE  \A e \in Nat : Mirror!Mirrored(e) => \E r \in 1 .. Len(table') : <<e, r>> \in mirrors'
<1>1. Len(table) \in Nat /\ Len(table') \in Nat
  BY DEF MirrorTypes
<1>2. \A r \in 1 .. Len(table) : r \in 1 .. Len(table')
  BY <1>1
<1> QED
  BY <1>2 DEF Mirror!Mirrored

\* A pass is not disturbed.
LEMMA PassKept ==
  ASSUME MirrorTypes, PassMirrors, mirrors \subseteq mirrors', table' \in Seq(Nat),
         Len(table) <= Len(table'), copy'["rec"] = copy["rec"], todo'["rec"] = todo["rec"],
         sweep' = sweep, saving' = "down" => saving = "down" /\ UNCHANGED <<jsonl, assigned>>
  PROVE  PassMirrors'
<1>1. \A i \in 1 .. Len(copy["rec"]) : copy["rec"][i].ev \in Nat
  BY SideFacts, KnownHas DEF MirrorTypes
<1>2. \A i \in 1 .. Len(copy["rec"]) - Len(todo["rec"]) : i \in 1 .. Len(copy["rec"])
  BY SideFacts DEF MirrorTypes, PassMirrors
<1> QED
  BY <1>1, <1>2, MirrorsStay DEF PassMirrors, Mirror!Mirrored

\* Nor is the turn.
LEMMA TurnKept ==
  ASSUME TurnMirrors, UNCHANGED <<saving, length>>, copy'["turn"] = copy["turn"],
         todo'["turn"] = todo["turn"], \A m : Unsaved(m) => Unsaved(m)'
  PROVE  TurnMirrors'
  BY DEF TurnMirrors

\* Nor is who is within mirror_message.
LEMMA WithinKept ==
  ASSUME WithinMirror, UNCHANGED <<mirrors, table>>,
         \A p \in Sides : step'[p] # "check" =>
           /\ step'[p] = step[p] /\ row'[p] = row[p] /\ todo'[p] = todo[p] /\ copy'[p] = copy[p]
  PROVE  WithinMirror'
  BY DEF WithinMirror, Mirror!Mirrored, Mirror!Current

\* The turn writes its history, and perhaps the file.
LEMMA TurnWrites ==
  ASSUME MirrorTypes, IdsDescend, NEW s, NEW n \in Nat, NEW e, made <= n, made' = n,
         Known(s, n), From(s, copy["turn"], made, e), copy' = [copy EXCEPT !["turn"] = s],
         jsonl' \in {jsonl, s}
  PROVE  /\ copy'["turn"] = s /\ copy'["rec"] = copy["rec"] /\ copy' \in [Sides -> Seq(Copy)]
         /\ Known(jsonl', made') /\ \A p \in Sides : Known(copy'[p], made')
         /\ IdsDescend'
<1>1. s \in Seq(Copy) /\ made \in Nat
  BY DEF Known, MirrorTypes
<1>2. copy'["turn"] = s /\ copy'["rec"] = copy["rec"] /\ copy' \in [Sides -> Seq(Copy)]
  BY <1>1, SideFacts DEF MirrorTypes
<1>3. /\ Known(jsonl, made) /\ Known(copy["turn"], made) /\ Known(copy["rec"], made)
  BY SideFacts DEF MirrorTypes
<1>4. Known(jsonl, n) /\ Known(copy["rec"], n)
  BY <1>1, <1>3, KnownGrows
<1>5. Known(jsonl', made') /\ \A p \in Sides : Known(copy'[p], made')
  BY <1>2, <1>4, SideFacts
<1>6. Knows(jsonl, s) /\ Knows(copy["rec"], s)
  BY <1>1, <1>3, FromKnows DEF IdsDescend
<1>7. Knows(s, s)
  BY DEF Known, Knows
<1>8. IdsDescend'
  BY <1>2, <1>6, <1>7 DEF IdsDescend
<1> QED
  BY <1>2, <1>5, <1>8

\* The ids of what is made of a list, when e was the last to be given.
LEMMA FromGiven ==
  ASSUME NEW m \in Nat, NEW n \in Nat, m <= n, NEW c, NEW e \in Nat, e <= n, NEW h, Known(h, c),
         Given(h, m)
  PROVE  Given(h, n) /\ \A s, d : From(s, h, d, e) => Given(s, n)
<1>1. \A i \in 1 .. Len(h) : h[i].ev \in Nat /\ h[i].ev <= m
  BY KnownHas DEF Given
<1>2. \A i \in 1 .. Len(h) : h[i].ev <= n
  BY <1>1
<1> QED
  BY <1>2 DEF Given, From

\* Nothing has been said.
LEMMA CopiesInit == Mirror!MirrorAssumption /\ Mirror!Init => CopiesIInv
<1> SUFFICES ASSUME Mirror!MirrorAssumption, Mirror!Init PROVE CopiesIInv
  OBVIOUS
<1>1. /\ made = 0 /\ events = << >> /\ jsonl = << >> /\ table = << >> /\ mirrors = {}
      /\ saving = "idle" /\ sweep = "idle" /\ length = 0 /\ mirrorFaults = 0
      /\ assigned = FALSE
      /\ copy = [p \in Sides |-> << >>] /\ todo = [p \in Sides |-> << >>]
      /\ step = [p \in Sides |-> "check"] /\ row = [p \in Sides |-> 0]
  BY DEF Mirror!Init, Sides
<1>2. << >> \in Seq(Copy) /\ << >> \in Seq(Nat) /\ Len(<< >>) = 0 /\ Known(<< >>, 0)
  BY DEF Known
<1>3. MirrorTypes
  BY <1>1, <1>2 DEF MirrorTypes
<1>4. IdsDescend
  BY <1>1, <1>2, SideFacts DEF IdsDescend, Knows
<1>5. TurnMirrors
  BY <1>1, SideFacts DEF TurnMirrors
<1>6. PassMirrors /\ WithinMirror
  BY <1>1, <1>2, SideFacts DEF PassMirrors, WithinMirror, Mirror!Mirrored
<1>7. IdsGiven
  BY <1>1, SideFacts DEF IdsGiven, Given
<1> QED
  BY <1>3, <1>4, <1>5, <1>6, <1>7 DEF CopiesIInv

\* The message a thread is at is one of its list.
LEMMA AtMessage ==
  ASSUME CopiesIInv, NEW p \in Sides, todo[p] # << >>
  PROVE  /\ Head(todo[p]) \in 1 .. Len(copy[p]) /\ Tail(todo[p]) \in Seq(Nat)
         /\ p = "turn" => Head(todo[p]) = Len(copy[p]) /\ Tail(todo[p]) = << >>
         /\ p = "rec" => /\ Head(todo[p]) = Len(copy[p]) - Len(todo[p]) + 1
                         /\ Len(Tail(todo[p])) = Len(todo[p]) - 1
                         /\ \A j \in 1 .. Len(todo[p]) - 1 : Tail(todo[p])[j] = todo[p][j + 1]
<1>1. todo[p] \in Seq(Nat) /\ Known(copy[p], made)
  BY DEF CopiesIInv, MirrorTypes
<1>2. /\ Head(todo[p]) = todo[p][1] /\ Len(todo[p]) \in Nat /\ Len(todo[p]) >= 1
      /\ Tail(todo[p]) \in Seq(Nat) /\ Len(Tail(todo[p])) = Len(todo[p]) - 1
      /\ \A j \in 1 .. Len(todo[p]) - 1 : Tail(todo[p])[j] = todo[p][j + 1]
  BY <1>1
<1>3. Len(copy[p]) \in Nat
  BY <1>1, KnownHas
<1>4. CASE p = "turn"
  <2>1. todo[p] = <<Len(copy[p])>> /\ Len(copy[p]) >= 1
    BY <1>4 DEF CopiesIInv, TurnMirrors
  <2> QED
    BY <1>2, <1>3, <1>4, <2>1
<1>5. CASE p = "rec"
  <2>1. /\ Len(copy[p]) - Len(todo[p]) >= 0
        /\ \A j \in 1 .. Len(todo[p]) : todo[p][j] = Len(copy[p]) - Len(todo[p]) + j
    BY <1>5 DEF CopiesIInv, PassMirrors
  <2> DEFINE n == Len(copy[p])
             k == Len(todo[p])
  <2>2. n \in Nat /\ k \in Nat /\ k >= 1 /\ n - k >= 0 /\ \A j \in 1 .. k : todo[p][j] = n - k + j
    BY <1>2, <1>3, <2>1
  <2> HIDE DEF n, k
  <2>3. todo[p][1] = n - k + 1 /\ n - k + 1 \in 1 .. n
    <3>1. 1 \in 1 .. k
      BY <2>2
    <3> QED
      BY <2>2, <3>1
  <2> QED
    BY <1>2, <1>5, <2>3 DEF n, k
<1> QED
  BY <1>4, <1>5, SideFacts

\* ensure_event_id and is_mirrored.
LEMMA CheckKeeps ==
  ASSUME CopiesIInv, NEW p \in Sides, Mirror!CheckMirrored(p)
  PROVE  CopiesIInv'
<1> DEFINE i == Head(todo[p])
           h == copy[p]
<1>1. /\ todo[p] # << >> /\ step[p] = "check"
      /\ UNCHANGED <<made, jsonl, table, mirrors, saving, sweep, length, row, mirrorFaults>>
      /\ \/ Mirror!Mirrored(h[i].ev) /\ todo' = [todo EXCEPT ![p] = Tail(@)] /\ step' = step
         \/ ~Mirror!Mirrored(h[i].ev) /\ step' = [step EXCEPT ![p] = "insert"] /\ todo' = todo
  BY DEF Mirror!CheckMirrored, Mirror!Current, Mirror!database, Mirror!control
<1>2. \/ h[i].ev # 0 /\ UNCHANGED <<events, copy, assigned>>
      \/ /\ h[i].ev = 0 /\ events' = Append(events, h[i].m)
         /\ copy' = [copy EXCEPT ![p][i].ev = Len(events')]
         /\ assigned' = (assigned \/ p = "rec")
  BY DEF Mirror!CheckMirrored, Mirror!Current
<1>3. /\ MirrorTypes /\ IdsDescend /\ TurnMirrors /\ PassMirrors /\ WithinMirror
      /\ i \in 1 .. Len(h) /\ Known(h, made) /\ Len(h) \in Nat /\ IdsGiven
      /\ h \in Seq(Copy) /\ \A j \in 1 .. Len(h) : h[j].m \in Nat /\ h[j].ev \in Nat
  <2>1. i \in 1 .. Len(h) /\ Known(h, made)
    BY <1>1, AtMessage DEF CopiesIInv, MirrorTypes
  <2> QED
    BY <2>1, KnownHas DEF CopiesIInv
<1> DEFINE e == IF h[i].ev = 0 THEN Len(events') ELSE h[i].ev
           s == copy'[p]
<1>4. /\ copy' = [copy EXCEPT ![p] = s] /\ events' \in Seq(Nat) /\ e # 0
      /\ Known(s, made) /\ Len(s) = Len(h) /\ \A j \in 1 .. Len(h) : s[j].m = h[j].m
      /\ \A j \in 1 .. Len(h) : s[j].ev = IF j = i THEN e ELSE h[j].ev
      /\ \A q \in Sides : q # p => copy'[q] = copy[q]
  <2>1. CASE h[i].ev # 0 /\ UNCHANGED <<events, copy, assigned>>
    BY <1>3, <2>1 DEF MirrorTypes
  <2>2. CASE /\ h[i].ev = 0 /\ events' = Append(events, h[i].m)
             /\ copy' = [copy EXCEPT ![p][i].ev = Len(events')]
    <3>1. events \in Seq(Nat) /\ copy \in [Sides -> Seq(Copy)]
      BY <1>3 DEF MirrorTypes
    <3>2. events' \in Seq(Nat) /\ Len(events') \in Nat /\ Len(events') # 0
      BY <1>3, <2>2, <3>1
    <3>3. s = [h EXCEPT ![i] = Mirror!Msg(h[i].m, Len(events'))]
      <4> DEFINE t == [h EXCEPT ![i] = Mirror!Msg(h[i].m, Len(events'))]
      <4>1. copy' = [copy EXCEPT ![p] = t]
        <5>1. [h[i] EXCEPT !.ev = Len(events')] = Mirror!Msg(h[i].m, Len(events'))
          <6>1. h[i] \in Copy
            BY <1>3, KnownHas
          <6> QED
            BY <6>1 DEF Copy, Mirror!Msg
        <5>2. copy' = [copy EXCEPT ![p] = [h EXCEPT ![i] = [h[i] EXCEPT !.ev = Len(events')]]]
          BY <2>2
        <5> QED
          BY <5>1, <5>2
      <4> HIDE DEF t
      <4>2. copy'[p] = t
        BY <3>1, <4>1
      <4> QED
        BY <4>2 DEF t
    <3>4. e = Len(events') /\ e # 0
      BY <2>2, <3>2
    <3>5. /\ Known(s, made) /\ Len(s) = Len(h) /\ \A j \in 1 .. Len(h) : s[j].m = h[j].m
          /\ \A j \in 1 .. Len(h) : s[j].ev = IF j = i THEN Len(events') ELSE h[j].ev
      <4>1. made \in Nat
        BY <1>3 DEF MirrorTypes
      <4> HIDE DEF h, i
      <4> QED
        BY <1>3, <3>2, <3>3, <4>1, GivenKnown
    <3>6. /\ copy' = [copy EXCEPT ![p] = s] /\ \A q \in Sides : q # p => copy'[q] = copy[q]
      BY <2>2, <3>1
    <3> QED
      BY <3>2, <3>4, <3>5, <3>6
  <2> QED
    BY <1>2, <2>1, <2>2
<1>5. s \in Seq(Copy) /\ (h[i].ev # 0 => s = h)
  <2>1. s \in Seq(Copy)
    BY <1>4 DEF Known
  <2> QED
    BY <1>2, <2>1
<1>6. h[i].ev = 0 => ~Mirror!Mirrored(h[i].ev)
  BY <1>3 DEF WithinMirror
<1> HIDE DEF e, s
<1>7. MirrorTypes'
  <2>1. /\ copy' \in [Sides -> Seq(Copy)] /\ \A q \in Sides : Known(copy'[q], made)
    BY <1>3, <1>4, <1>5 DEF MirrorTypes, s
  <2>2. /\ todo' \in [Sides -> Seq(Nat)]
        /\ step' \in [Sides -> {"check", "insert", "record"}]
    BY <1>1, <1>3, AtMessage DEF MirrorTypes
  <2> QED
    BY <1>1, <1>2, <1>3, <1>4, <2>1, <2>2 DEF MirrorTypes
<1>8. IdsDescend'
  <2>1. CASE p = "rec"
    <3>1. copy'["rec"] = s /\ copy'["turn"] = copy["turn"]
      BY <1>4, <2>1, SideFacts DEF s
    <3>2. ASSUME NEW t, Knows(h, t) PROVE Knows(s, t)
      <4> SUFFICES ASSUME NEW k \in 1 .. Len(s), NEW j \in 1 .. Len(t), s[k].m = t[j].m
                   PROVE  t[j].ev \in {0, s[k].ev}
        BY DEF Knows
      <4>1. k \in 1 .. Len(h) /\ h[k].m = t[j].m
        BY <1>4
      <4>2. t[j].ev \in {0, h[k].ev}
        BY <3>2, <4>1 DEF Knows
      <4>3. h[k].ev = 0 \/ s[k].ev = h[k].ev
        BY <1>4, <4>1 DEF e
      <4> QED
        BY <4>2, <4>3
    <3> QED
      BY <1>1, <1>3, <2>1, <3>1, <3>2 DEF IdsDescend
  <2>2. CASE p = "turn"
    <3>1. copy'["turn"] = s /\ copy'["rec"] = copy["rec"]
      BY <1>4, <2>2, SideFacts DEF s
    <3>2. h[i].ev = 0 => Unsaved(h[i].m)
      BY <1>1, <1>3, <2>2, AtMessage DEF TurnMirrors
    <3>3. Knows(jsonl, s)
      <4> SUFFICES ASSUME NEW k \in 1 .. Len(jsonl), NEW j \in 1 .. Len(s), jsonl[k].m = s[j].m
                   PROVE  s[j].ev \in {0, jsonl[k].ev}
        BY DEF Knows
      <4>1. j \in 1 .. Len(h) /\ h[j].m = jsonl[k].m
        BY <1>4
      <4>2. h[j].ev \in {0, jsonl[k].ev}
        BY <1>3, <2>2, <4>1 DEF IdsDescend, Knows
      <4>3. s[j].ev = h[j].ev
        BY <1>4, <3>2, <4>1 DEF e, Unsaved
      <4> QED
        BY <4>2, <4>3
    <3>4. Knows(copy["rec"], s)
      <4> SUFFICES ASSUME NEW k \in 1 .. Len(copy["rec"]), NEW j \in 1 .. Len(s),
                          copy["rec"][k].m = s[j].m
                   PROVE  s[j].ev \in {0, copy["rec"][k].ev}
        BY DEF Knows
      <4>1. j \in 1 .. Len(h) /\ h[j].m = copy["rec"][k].m
        BY <1>4
      <4>2. h[j].ev \in {0, copy["rec"][k].ev}
        BY <1>3, <2>2, <4>1 DEF IdsDescend, Knows
      <4>3. s[j].ev = h[j].ev
        BY <1>4, <3>2, <4>1 DEF e, Unsaved
      <4> QED
        BY <4>2, <4>3
    <3> QED
      BY <1>1, <1>3, <3>1, <3>3, <3>4 DEF IdsDescend
  <2> QED
    BY <2>1, <2>2, SideFacts
<1>9. TurnMirrors'
  <2>1. CASE p = "rec"
    <3>1. copy'["turn"] = copy["turn"] /\ todo'["turn"] = todo["turn"] /\ copy'["rec"] = s
      BY <1>1, <1>3, <1>4, <2>1, SideFacts DEF MirrorTypes, s
    <3>2. \A m : Unsaved(m) => Unsaved(m)'
      BY <1>1, <1>4, <2>1, <3>1 DEF Unsaved
    <3> QED
      BY <1>1, <1>3, <3>1, <3>2, TurnKept
  <2>2. CASE p = "turn"
    <3>1. copy'["turn"] = s /\ copy'["rec"] = copy["rec"] /\ Len(s) = Len(h)
      BY <1>4, <2>2, SideFacts DEF s
    <3>2. i = Len(h) /\ Tail(todo["turn"]) = << >> /\ Len(h) >= 1 /\ s[Len(h)].ev # 0
      <4>1. i = Len(h) /\ Tail(todo["turn"]) = << >>
        BY <1>1, <2>2, AtMessage
      <4> QED
        BY <1>3, <1>4, <4>1
    <3>3. todo'["turn"] = << >> \/ todo'["turn"] = todo["turn"]
      BY <1>1, <1>3, <2>2, <3>2 DEF MirrorTypes
    <3> QED
      BY <1>1, <1>3, <2>2, <3>1, <3>2, <3>3 DEF TurnMirrors
  <2> QED
    BY <2>1, <2>2, SideFacts
<1>10. PassMirrors'
  <2>1. CASE p = "turn"
    <3>1. copy'["rec"] = copy["rec"] /\ todo'["rec"] = todo["rec"] /\ assigned' = assigned
      BY <1>1, <1>2, <1>3, <1>4, <2>1, SideFacts DEF MirrorTypes
    <3> QED
      BY <1>1, <1>3, <3>1, PassKept DEF MirrorTypes
  <2>2. CASE p = "rec"
    <3> DEFINE d == Len(h) - Len(todo["rec"])
    <3>1. /\ copy'["rec"] = s /\ i = d + 1 /\ d >= 0 /\ d \in Nat /\ Len(todo["rec"]) \in Nat
          /\ \A j \in 1 .. Len(todo["rec"]) : todo["rec"][j] = d + j
          /\ \A j \in 1 .. d : Mirror!Mirrored(h[j].ev)
      BY <1>1, <1>3, <2>2, AtMessage, SideFacts DEF MirrorTypes, PassMirrors, s
    <3>2. \A e_ : Mirror!Mirrored(e_)' <=> Mirror!Mirrored(e_)
      BY <1>1 DEF Mirror!Mirrored
    <3>3. saving' = "down" /\ sweep' = "mirroring" /\ ~assigned' => s = jsonl'
      BY <1>1, <1>2, <1>3, <1>5, <2>2 DEF PassMirrors
    <3>4. sweep = "mirroring"
      <4>1. h # << >>
        BY <1>3
      <4> QED
        BY <1>3, <2>2, <4>1 DEF PassMirrors, MirrorTypes
    <3> DEFINE n == Len(h)
               k == Len(todo["rec"])
    <3>n. n \in Nat /\ k \in Nat /\ d = n - k /\ d \in Nat /\ i = d + 1 /\ d < n
      <4>1. i \in 1 .. n /\ n \in Nat
        BY <1>3
      <4>2. i = d + 1 /\ d \in Nat /\ k \in Nat
        BY <3>1
      <4>3. d = n - k
        OBVIOUS
      <4> HIDE DEF d, n, k, i
      <4> QED
        BY <4>1, <4>2, <4>3
    <3>5. CASE Mirror!Mirrored(h[i].ev) /\ todo' = [todo EXCEPT ![p] = Tail(@)]
      <4>1. s = h
        BY <1>5, <1>6, <3>5
      <4>2. /\ todo'["rec"] = Tail(todo["rec"]) /\ Len(todo'["rec"]) = k - 1
            /\ \A j \in 1 .. k - 1 : todo'["rec"][j] = todo["rec"][j + 1]
        BY <1>1, <1>3, <2>2, <3>5, AtMessage, SideFacts DEF MirrorTypes
      <4>a. \A j \in 1 .. k : todo["rec"][j] = d + j
        BY <3>1
      <4>b. \A j \in 1 .. d : Mirror!Mirrored(h[j].ev)
        BY <3>1
      <4>c. Mirror!Mirrored(h[d + 1].ev)
        BY <3>5, <3>n
      <4> HIDE DEF d, n, k, i
      <4>d. \A j \in 1 .. k - 1 : j + 1 \in 1 .. k
        BY <3>n
      <4>e. n - (k - 1) = d + 1
        BY <3>n
      <4>3. n - Len(todo'["rec"]) = d + 1 /\ \A j \in 1 .. k - 1 : j + 1 \in 1 .. k
        BY <4>2, <4>d, <4>e
      <4>4. \A j \in 1 .. Len(todo'["rec"]) : todo'["rec"][j] = (d + 1) + j
        BY <3>n, <4>a, <4>2, <4>3
      <4>5. \A j \in 1 .. d + 1 : Mirror!Mirrored(h[j].ev)
        <5>1. \A j \in 1 .. d + 1 : j \in 1 .. d \/ j = d + 1
          BY <3>n
        <5> QED
          BY <4>b, <4>c, <5>1
      <4>6. /\ Len(copy'["rec"]) - Len(todo'["rec"]) = d + 1 /\ copy'["rec"] = h
        BY <3>1, <4>1, <4>3 DEF n
      <4> HIDE DEF h
      <4>7. d + 1 >= 0
        BY <3>n
      <4> QED
        BY <1>1, <3>2, <3>3, <3>4, <4>1, <4>4, <4>5, <4>6, <4>7 DEF PassMirrors
    <3>6. CASE todo' = todo
      <4>a. \A j \in 1 .. d : j \in 1 .. n /\ j # i
        <5> HIDE DEF d, n, k, i
        <5> QED
          BY <3>n
      <4>1. \A j \in 1 .. d : s[j].ev = h[j].ev
        <5> HIDE DEF d, i, h
        <5> QED
          BY <1>4, <4>a DEF n
      <4>2. Len(s) = Len(h)
        BY <1>4
      <4> HIDE DEF h, i
      <4> QED
        BY <1>1, <2>2, <3>1, <3>3, <3>4, <3>6, <4>1, <4>2 DEF PassMirrors, Mirror!Mirrored
    <3> QED
      BY <1>1, <3>5, <3>6
  <2> QED
    BY <2>1, <2>2, SideFacts
<1>11. WithinMirror'
  <2>1. \A q \in Sides : q # p => step'[q] = step[q] /\ todo'[q] = todo[q] /\ copy'[q] = copy[q]
    BY <1>1, <1>3, <1>4 DEF MirrorTypes
  <2>2. step'[p] # "check" => /\ step'[p] = "insert" /\ todo'[p] # << >>
                              /\ copy'[p][Head(todo'[p])].ev # 0
    BY <1>1, <1>3, <1>4 DEF MirrorTypes, s
  <2> HIDE DEF h, i
  <2> QED
    BY <1>1, <1>3, <2>1, <2>2 DEF WithinMirror, Mirror!Mirrored, Mirror!Current
<1>12. IdsGiven'
  <2> DEFINE m == Len(events)
             n == Len(events')
  <2>1. m \in Nat /\ n \in Nat /\ m <= n /\ 0 <= n /\ 0 \in Nat
    <3>1. events \in Seq(Nat)
      BY <1>3 DEF MirrorTypes
    <3>2. \/ events' = events
          \/ events' = Append(events, h[i].m) /\ h[i].m \in Nat
      BY <1>2, <1>3
    <3> HIDE DEF h, i
    <3> QED
      BY <3>1, <3>2
  <2>2. Given(jsonl, m) /\ (\A q \in Sides : Given(copy[q], m)) /\ \A x \in mirrors : x[1] <= m
    BY <1>3 DEF CopiesIInv, IdsGiven
  <2>3. Known(jsonl, made) /\ \A q \in Sides : Known(copy[q], made)
    BY <1>3 DEF MirrorTypes
  <2>e. e <= n
    BY <1>2, <1>3, <2>1, <2>2 DEF Given, e
  <2> HIDE DEF m, n
  <2>4. Given(jsonl, n) /\ \A q \in Sides : Given(copy[q], n)
    BY <2>1, <2>2, <2>3, FromGiven
  <2>5. Given(s, n)
    BY <1>4, <2>4, <2>e DEF Given
  <2>6. \A x \in mirrors : x[1] <= n
    <3>1. \A x \in mirrors : x[1] \in Nat
      BY <1>3 DEF MirrorTypes
    <3> QED
      BY <2>1, <2>2, <3>1
  <2>7. \A q \in Sides : Given(copy'[q], n)
    BY <1>4, <2>4, <2>5 DEF s
  <2> QED
    BY <1>1, <2>4, <2>6, <2>7 DEF IdsGiven, n
<1> QED
  BY <1>7, <1>8, <1>9, <1>10, <1>11, <1>12 DEF CopiesIInv

\* A pass goes on to the next message when the one it is at is mirrored.
LEMMA PassAdvances ==
  ASSUME CopiesIInv, todo["rec"] # << >>, todo'["rec"] = Tail(todo["rec"]),
         copy'["rec"] = copy["rec"], UNCHANGED <<sweep, saving, jsonl, assigned>>,
         mirrors \subseteq mirrors', table' \in Seq(Nat), Len(table) <= Len(table'),
         \E r \in 1 .. Len(table') : <<Mirror!Current("rec").ev, r>> \in mirrors'
  PROVE  PassMirrors'
<1> DEFINE h == copy["rec"]
           n == Len(h)
           k == Len(todo["rec"])
           d == n - k
           later == todo'["rec"]
           M(e) == \E r \in 1 .. Len(table') : <<e, r>> \in mirrors'
<1>1. /\ Head(todo["rec"]) \in 1 .. n /\ Head(todo["rec"]) = n - k + 1
      /\ Len(Tail(todo["rec"])) = k - 1
      /\ \A j \in 1 .. k - 1 : Tail(todo["rec"])[j] = todo["rec"][j + 1]
  BY AtMessage, SideFacts
<1>2. n \in Nat /\ k \in Nat /\ Known(h, made)
  <2>1. Known(h, made) /\ todo["rec"] \in Seq(Nat)
    BY SideFacts DEF CopiesIInv, MirrorTypes
  <2> QED
    BY <2>1, KnownHas
<1>3. /\ d >= 0 /\ \A j \in 1 .. k : todo["rec"][j] = d + j
      /\ sweep = "idle" => h = << >>
      /\ saving = "down" /\ sweep = "mirroring" /\ ~assigned => h = jsonl
  BY DEF CopiesIInv, PassMirrors
<1>4. \A i \in 1 .. d : M(h[i].ev)
  <2>1. \A i \in 1 .. d : i \in 1 .. n
    <3> HIDE DEF n, k
    <3> QED
      BY <1>2
  <2>2. \A i \in 1 .. n : h[i].ev \in Nat
    BY <1>2, KnownHas
  <2>3. \A i \in 1 .. d : Mirror!Mirrored(h[i].ev)
    BY DEF CopiesIInv, PassMirrors
  <2> HIDE DEF h, n, k, d
  <2> QED
    BY <2>1, <2>2, <2>3, MirrorsStay DEF CopiesIInv
<1>5. M(h[d + 1].ev)
  <2>1. Mirror!Current("rec") = h[d + 1]
    BY <1>1 DEF Mirror!Current
  <2> QED
    BY <2>1
<1> HIDE DEF M
<1>6. \A i \in 1 .. d + 1 : M(h[i].ev)
  <2> HIDE DEF h, n, k
  <2>1. \A i \in 1 .. d + 1 : i \in 1 .. d \/ i = d + 1
    BY <1>2, <1>3
  <2> QED
    BY <1>4, <1>5, <2>1
<1>7. Len(later) = k - 1 /\ \A j \in 1 .. k - 1 : later[j] = (d + 1) + j
  <2>1. Len(later) = k - 1 /\ \A j \in 1 .. k - 1 : later[j] = todo["rec"][j + 1]
    BY <1>1
  <2> HIDE DEF h, n, k, later
  <2>2. \A j \in 1 .. k - 1 : j + 1 \in 1 .. k /\ d + (j + 1) = (d + 1) + j
    BY <1>2
  <2> QED
    BY <1>3, <2>1, <2>2
<1>8. n - Len(later) = d + 1 /\ d + 1 >= 0
  <2> HIDE DEF h, n, k, later
  <2> QED
    BY <1>2, <1>3, <1>7
<1>9. \A j \in 1 .. Len(later) : later[j] = (d + 1) + j
  BY <1>7
<1> HIDE DEF d
<1> QED
  BY <1>3, <1>6, <1>8, <1>9 DEF PassMirrors, Mirror!Mirrored, M

\* Where a thread within mirror_message is, its message has an id.
LEMMA WithinHas ==
  ASSUME CopiesIInv, NEW p \in Sides, step[p] # "check"
  PROVE  /\ todo[p] # << >> /\ Mirror!Current(p).ev \in Nat /\ Mirror!Current(p).ev # 0
         /\ Mirror!Current(p) \in Copy /\ Head(todo[p]) \in 1 .. Len(copy[p])
         /\ Mirror!Current(p) = copy[p][Head(todo[p])]
<1>1. todo[p] # << >> /\ Mirror!Current(p).ev # 0
  BY DEF CopiesIInv, WithinMirror
<1>2. Head(todo[p]) \in 1 .. Len(copy[p]) /\ Known(copy[p], made)
  BY <1>1, AtMessage DEF CopiesIInv, MirrorTypes
<1> QED
  BY <1>1, <1>2, KnownHas DEF Mirror!Current

\* A new row has no mirror.
LEMMA RowAdded ==
  ASSUME MirrorTypes, NEW e \in Nat, table' = Append(table, e), mirrors' = mirrors
  PROVE  /\ table' \in Seq(Nat) /\ Len(table) \in Nat /\ Len(table') = Len(table) + 1
         /\ \A x : Mirror!Mirrored(x)' <=> Mirror!Mirrored(x)
         /\ table'[Len(table) + 1] = e /\ \A r \in 1 .. Len(table) : table'[r] = table[r]
<1>1. table \in Seq(Nat) /\ mirrors \subseteq Nat \X (1 .. Len(table))
  BY DEF MirrorTypes
<1>2. /\ table' \in Seq(Nat) /\ Len(table) \in Nat /\ Len(table') = Len(table) + 1
      /\ table'[Len(table) + 1] = e /\ \A r \in 1 .. Len(table) : table'[r] = table[r]
  BY <1>1
<1>3. ASSUME NEW x PROVE Mirror!Mirrored(x)' <=> Mirror!Mirrored(x)
  <2>1. \A r : <<x, r>> \in mirrors => r \in 1 .. Len(table)
    BY <1>1
  <2>2. \A r \in 1 .. Len(table) : r \in 1 .. Len(table')
    BY <1>2
  <2> QED
    BY <2>1, <2>2 DEF Mirror!Mirrored
<1> QED
  BY <1>2, <1>3

\* add_message.
LEMMA AddKeeps ==
  ASSUME CopiesIInv, NEW p \in Sides, Mirror!AddMessage(p)
  PROVE  CopiesIInv'
<1>1. /\ step[p] = "insert" /\ table' = Append(table, Mirror!Current(p).ev)
      /\ row' = [row EXCEPT ![p] = Len(table')] /\ step' = [step EXCEPT ![p] = "record"]
      /\ UNCHANGED <<made, jsonl, mirrors, saving, sweep, length, events, copy, todo, assigned,
                     mirrorFaults>>
  BY DEF Mirror!AddMessage, Mirror!control
<1>2. MirrorTypes /\ IdsDescend /\ TurnMirrors /\ PassMirrors /\ WithinMirror
  BY DEF CopiesIInv
<1>3. todo[p] # << >> /\ Mirror!Current(p).ev \in Nat /\ Mirror!Current(p).ev # 0
  BY <1>1, WithinHas
<1>4. /\ table' \in Seq(Nat) /\ Len(table) \in Nat /\ Len(table') = Len(table) + 1
      /\ \A x : Mirror!Mirrored(x)' <=> Mirror!Mirrored(x)
  BY <1>1, <1>2, <1>3, RowAdded
<1>5. Len(table) <= Len(table') /\ Len(table') \in 1 .. Len(table') /\ Len(table') \in Nat
  BY <1>4
<1>6. MirrorTypes'
  <2>1. mirrors' \subseteq Nat \X (1 .. Len(table'))
    <3>1. 1 .. Len(table) \subseteq 1 .. Len(table')
      BY <1>4
    <3> QED
      BY <1>1, <1>2, <3>1 DEF MirrorTypes
  <2> QED
    BY <1>1, <1>2, <1>4, <1>5, <2>1 DEF MirrorTypes
<1>7. IdsDescend' /\ TurnMirrors'
  BY <1>1, <1>2, TurnKept DEF IdsDescend, Unsaved
<1>8. PassMirrors'
  BY <1>1, <1>2, <1>4, <1>5, PassKept
<1>9. WithinMirror'
  <2> SUFFICES ASSUME NEW q \in Sides
               PROVE  /\ step'[q] # "check" => todo[q] # << >> /\ Mirror!Current(q).ev # 0
                      /\ step'[q] = "record" => row'[q] \in 1 .. Len(table')
    BY <1>1, <1>2, <1>4 DEF WithinMirror, Mirror!Current
  <2>1. CASE q = p
    BY <1>1, <1>2, <1>3, <1>5, <2>1 DEF MirrorTypes
  <2>2. CASE q # p
    <3>1. step'[q] = step[q] /\ row'[q] = row[q]
      BY <1>1, <1>2, <2>2 DEF MirrorTypes
    <3>2. \A r \in 1 .. Len(table) : r \in 1 .. Len(table')
      BY <1>4
    <3> QED
      BY <1>2, <3>1, <3>2 DEF WithinMirror
  <2> QED
    BY <2>1, <2>2
<1>10. IdsGiven'
  BY <1>1 DEF CopiesIInv, IdsGiven
<1> QED
  BY <1>6, <1>7, <1>8, <1>9, <1>10 DEF CopiesIInv

\* record_mirror leaves its message with a mirror.
LEMMA MirrorRecorded ==
  ASSUME CopiesIInv, NEW p \in Sides, Mirror!RecordMirror(p)
  PROVE  /\ mirrors' \subseteq Nat \X (1 .. Len(table)) /\ mirrors \subseteq mirrors'
         /\ \A x : Mirror!Mirrored(x)' <=> Mirror!Mirrored(x) \/ x = Mirror!Current(p).ev
         /\ \A x \in mirrors' : x \in mirrors \/ x[1] = Mirror!Current(p).ev
<1> DEFINE e == Mirror!Current(p).ev
<1>1. step[p] = "record" /\ mirrors' = mirrors \cup Mirror!NewMirror(e, row[p]) /\ table' = table
  BY DEF Mirror!RecordMirror
<1>2. e \in Nat /\ row[p] \in 1 .. Len(table) /\ mirrors \subseteq Nat \X (1 .. Len(table))
  <2>1. step[p] # "check"
    BY <1>1
  <2> QED
    BY <1>1, <2>1, WithinHas DEF CopiesIInv, WithinMirror, MirrorTypes
<1> HIDE DEF e
<1>3. CASE Mirror!Mirrored(e)
  BY <1>1, <1>2, <1>3 DEF Mirror!NewMirror, Mirror!Mirrored, e
<1>4. CASE ~Mirror!Mirrored(e)
  <2>1. mirrors' = mirrors \cup {<<e, row[p]>>}
    BY <1>1, <1>4 DEF Mirror!NewMirror
  <2>2. \A x : Mirror!Mirrored(x)' <=> Mirror!Mirrored(x) \/ x = e
    BY <1>1, <1>2, <2>1 DEF Mirror!Mirrored
  <2> QED
    BY <1>2, <2>1, <2>2 DEF e
<1> QED
  BY <1>3, <1>4

\* record_mirror.
LEMMA RecordKeeps ==
  ASSUME CopiesIInv, NEW p \in Sides, Mirror!RecordMirror(p)
  PROVE  CopiesIInv'
<1>1. /\ step[p] = "record" /\ todo' = [todo EXCEPT ![p] = Tail(@)]
      /\ row' = [row EXCEPT ![p] = 0] /\ step' = [step EXCEPT ![p] = "check"]
      /\ UNCHANGED <<made, jsonl, table, saving, sweep, length, events, copy, assigned,
                     mirrorFaults>>
  BY DEF Mirror!RecordMirror, Mirror!control
<1>2. MirrorTypes /\ IdsDescend /\ TurnMirrors /\ PassMirrors /\ WithinMirror
  BY DEF CopiesIInv
<1>3. /\ todo[p] # << >> /\ Mirror!Current(p).ev # 0
      /\ Tail(todo[p]) \in Seq(Nat) /\ (p = "turn" => Tail(todo[p]) = << >>)
  <2>1. step[p] # "check"
    BY <1>1
  <2> QED
    BY <2>1, WithinHas, AtMessage
<1>4. /\ mirrors' \subseteq Nat \X (1 .. Len(table)) /\ mirrors \subseteq mirrors'
      /\ \A x : Mirror!Mirrored(x)' <=> Mirror!Mirrored(x) \/ x = Mirror!Current(p).ev
  BY MirrorRecorded
<1>5. /\ todo'[p] = Tail(todo[p]) /\ step'[p] = "check"
      /\ \A q \in Sides : q # p => todo'[q] = todo[q] /\ step'[q] = step[q] /\ row'[q] = row[q]
  BY <1>1, <1>2 DEF MirrorTypes
<1>6. MirrorTypes'
  <2>1. /\ todo' \in [Sides -> Seq(Nat)] /\ row' \in [Sides -> Nat]
        /\ step' \in [Sides -> {"check", "insert", "record"}]
    BY <1>1, <1>2, <1>3 DEF MirrorTypes
  <2> QED
    BY <1>1, <1>2, <1>4, <2>1 DEF MirrorTypes
<1>7. IdsDescend'
  BY <1>1, <1>2 DEF IdsDescend
<1>t. table' \in Seq(Nat) /\ Len(table) <= Len(table')
  BY <1>1, <1>2 DEF MirrorTypes
<1>8. TurnMirrors' /\ PassMirrors'
  <2>1. CASE p = "turn"
    <3>1. todo'["turn"] = << >> /\ todo'["rec"] = todo["rec"]
      BY <1>3, <1>5, <2>1, SideFacts
    <3> QED
      BY <1>1, <1>2, <1>4, <1>t, <3>1, PassKept DEF TurnMirrors
  <2>2. CASE p = "rec"
    <3>1. todo'["turn"] = todo["turn"] /\ todo'["rec"] = Tail(todo["rec"]) /\ todo["rec"] # << >>
      BY <1>3, <1>5, <2>2, SideFacts
    <3>2. \E r \in 1 .. Len(table') : <<Mirror!Current("rec").ev, r>> \in mirrors'
      <4>2. \A x : x = Mirror!Current(p).ev => Mirror!Mirrored(x)'
        BY <1>4
      <4>3. \A x : Mirror!Mirrored(x)' => \E r \in 1 .. Len(table') : <<x, r>> \in mirrors'
        BY DEF Mirror!Mirrored
      <4> QED
        BY <2>2, <4>2, <4>3
    <3>3. PassMirrors'
      BY <1>1, <1>4, <1>t, <3>1, <3>2, PassAdvances
    <3> QED
      BY <1>1, <1>2, <3>1, <3>3, TurnKept DEF Unsaved
  <2> QED
    BY <2>1, <2>2, SideFacts
<1>9. WithinMirror'
  <2>1. ~Mirror!Mirrored(0)'
    BY <1>2, <1>3, <1>4 DEF WithinMirror
  <2>2. \A q \in Sides : step'[q] # "check" => q # p
    BY <1>5
  <2> QED
    BY <1>1, <1>2, <1>5, <2>1, <2>2 DEF WithinMirror, Mirror!Current
<1>10. IdsGiven'
  <2>1. Mirror!Current(p).ev <= Len(events)
    <3>1. step[p] # "check"
      BY <1>1
    <3> QED
      BY <3>1, WithinHas DEF CopiesIInv, IdsGiven, Given
  <2>2. \A x \in mirrors' : x \in mirrors \/ x[1] = Mirror!Current(p).ev
    BY MirrorRecorded
  <2> QED
    BY <1>1, <2>1, <2>2 DEF CopiesIInv, IdsGiven
<1> QED
  BY <1>6, <1>7, <1>8, <1>9, <1>10 DEF CopiesIInv

\* The turn goes on from where it has nothing to mirror.
LEMMA TurnMoves ==
  ASSUME CopiesIInv, todo["turn"] = << >>,
         NEW s, NEW n \in Nat, NEW e \in Nat, made <= n, made' = n,
         Known(s, n), From(s, copy["turn"], made, e), copy' = [copy EXCEPT !["turn"] = s],
         jsonl' \in {jsonl, s}, NEW t \in Seq(Nat), todo' = [todo EXCEPT !["turn"] = t],
         UNCHANGED <<table, mirrors, sweep, assigned, step, row, mirrorFaults>>,
         events' \in Seq(Nat), Len(events) <= Len(events'), e <= Len(events'),
         saving' \in {"idle", "mirror_user", "mirror_new"}, length' \in Nat, TurnMirrors'
  PROVE  CopiesIInv'
<1>1. MirrorTypes /\ IdsDescend /\ TurnMirrors /\ PassMirrors /\ WithinMirror
  BY DEF CopiesIInv
<1>2. /\ copy'["turn"] = s /\ copy'["rec"] = copy["rec"] /\ copy' \in [Sides -> Seq(Copy)]
      /\ Known(jsonl', made') /\ \A p \in Sides : Known(copy'[p], made')
      /\ IdsDescend'
  BY <1>1, TurnWrites
<1>3. todo' \in [Sides -> Seq(Nat)] /\ todo'["rec"] = todo["rec"]
  BY <1>1, SideFacts DEF MirrorTypes
<1>4. MirrorTypes'
  BY <1>1, <1>2, <1>3 DEF MirrorTypes
<1>5. PassMirrors'
  <2>1. table' \in Seq(Nat) /\ Len(table) <= Len(table') /\ saving' # "down"
    BY <1>1 DEF MirrorTypes
  <2>2. MirrorTypes /\ PassMirrors /\ mirrors \subseteq mirrors' /\ sweep' = sweep
    BY <1>1
  <2> QED
    BY <1>2, <1>3, <2>1, <2>2, PassKept
<1>6. WithinMirror'
  <2>1. step["turn"] = "check"
    BY <1>1, SideFacts DEF WithinMirror
  <2> QED
    BY <1>1, <1>2, <1>3, <2>1, SideFacts, WithinKept
<1>7. IdsGiven'
  <2> DEFINE k == Len(events)
             l == Len(events')
  <2>1. k \in Nat /\ l \in Nat /\ k <= l
    BY <1>1 DEF MirrorTypes
  <2>2. Given(jsonl, k) /\ (\A q \in Sides : Given(copy[q], k)) /\ \A x \in mirrors : x[1] <= k
    BY DEF CopiesIInv, IdsGiven
  <2>3. Known(jsonl, made) /\ \A q \in Sides : Known(copy[q], made)
    BY <1>1 DEF MirrorTypes
  <2>4. e <= l
    OBVIOUS
  <2> HIDE DEF k, l
  <2>5. Given(jsonl, l) /\ Given(copy["rec"], l) /\ Given(s, l)
    <3>1. Given(jsonl, l) /\ Given(copy["rec"], l)
      BY <2>1, <2>2, <2>3, <2>4, SideFacts, FromGiven
    <3>2. Given(copy["turn"], k) /\ Known(copy["turn"], made)
      BY <2>2, <2>3, SideFacts
    <3>3. Given(s, l)
      BY <2>1, <2>4, <3>2, FromGiven
    <3> QED
      BY <3>1, <3>3
  <2>6. \A x \in mirrors : x[1] <= l
    <3>1. \A x \in mirrors : x[1] \in Nat
      BY <1>1 DEF MirrorTypes
    <3> QED
      BY <2>1, <2>2, <3>1
  <2> QED
    BY <1>2, <2>5, <2>6, SideFacts DEF IdsGiven, l
<1> QED
  BY <1>2, <1>4, <1>5, <1>6, <1>7 DEF CopiesIInv

\* The user's message.
LEMMA UserKeeps ==
  ASSUME CopiesIInv, NEW k \in Nat, Mirror!UserMessage(k)
  PROVE  CopiesIInv'
<1> DEFINE h == copy["turn"]
           e == Mirror!UserId
           said == Append(h, Mirror!Msg(made + 1, e))
           s == Mirror!Compacted(said, k)
           n == made + (IF k = 0 THEN 1 ELSE 3)
           t == IF db THEN <<Len(s)>> ELSE << >>
<1>1. MirrorTypes /\ TurnMirrors /\ Known(h, made) /\ made \in Nat /\ Len(h) \in Nat
  <2>1. MirrorTypes /\ TurnMirrors /\ Known(h, made) /\ made \in Nat
    BY SideFacts DEF CopiesIInv, MirrorTypes
  <2> QED
    BY <2>1, KnownHas
<1>2. /\ saving = "idle" /\ k < Len(said) /\ made' = n
      /\ events' = IF db THEN Append(events, made + 1) ELSE events
      /\ copy' = [copy EXCEPT !["turn"] = s] /\ jsonl' = s /\ length' = Len(s)
      /\ todo' = [todo EXCEPT !["turn"] = t] /\ saving' = "mirror_user"
      /\ UNCHANGED <<table, mirrors, sweep, step, row, assigned, mirrorFaults>>
  BY DEF Mirror!UserMessage, Mirror!History, Mirror!database
<1>3. /\ e \in Nat /\ (db => e # 0) /\ events' \in Seq(Nat)
      /\ Len(events) <= Len(events') /\ e <= Len(events')
  <2>1. events \in Seq(Nat) /\ made + 1 \in Nat
    BY <1>1 DEF MirrorTypes
  <2> QED
    BY <1>2, <2>1 DEF Mirror!UserId
<1> HIDE DEF e
<1>4. k < Len(h) + 1
  <2>1. h \in Seq(Copy) /\ Mirror!Msg(made + 1, e) \in Copy
    BY <1>1, <1>3 DEF Known, Mirror!Msg, Copy
  <2>2. Len(said) = Len(h) + 1
    BY <2>1
  <2> QED
    BY <1>2, <2>2
<1>5. /\ Known(s, n) /\ From(s, h, made, e) /\ Len(s) >= 1 /\ Len(s) \in Nat
      /\ s[Len(s)] = Mirror!Msg(made + 1, e)
  <2> HIDE DEF h
  <2> QED
    BY <1>1, <1>3, <1>4, CompactedKnown
<1>6. n \in Nat /\ made <= n
  BY <1>1
<1>7. todo["turn"] = << >>
  BY <1>1, <1>2 DEF TurnMirrors
<1> HIDE DEF s, n
<1>8. t \in Seq(Nat)
  BY <1>5
<1>9. TurnMirrors'
  <2>1. copy'["turn"] = s /\ todo'["turn"] = t
    BY <1>1, <1>2, SideFacts DEF MirrorTypes
  <2>2. s[Len(s)].ev = e
    BY <1>5 DEF Mirror!Msg
  <2> QED
    BY <1>2, <1>3, <1>5, <2>1, <2>2 DEF TurnMirrors
<1> HIDE DEF t, h
<1> QED
  BY <1>2, <1>3, <1>5, <1>6, <1>7, <1>8, <1>9, TurnMoves DEF h

\* run_turn.
LEMMA AnswerKeeps ==
  ASSUME CopiesIInv, NEW bare \in BOOLEAN, Mirror!ProviderAnswers(bare)
  PROVE  CopiesIInv'
<1> DEFINE h == copy["turn"]
           new == IF bare THEN <<Mirror!Msg(made + 1, 0), Mirror!Msg(made + 2, 0)>>
                  ELSE <<Mirror!Msg(made + 1, 0)>>
           s == h \o new
           n == made + Len(new)
           t == IF db THEN <<length + Len(new)>> ELSE << >>
<1>1. MirrorTypes /\ TurnMirrors /\ Known(h, made) /\ made \in Nat /\ Len(h) \in Nat
  <2>1. MirrorTypes /\ TurnMirrors /\ Known(h, made) /\ made \in Nat
    BY SideFacts DEF CopiesIInv, MirrorTypes
  <2> QED
    BY <2>1, KnownHas
<1>2. /\ saving = "mirror_user" /\ todo["turn"] = << >> /\ made' = n
      /\ copy' = [copy EXCEPT !["turn"] = s] /\ todo' = [todo EXCEPT !["turn"] = t]
      /\ saving' = "mirror_new"
      /\ UNCHANGED <<jsonl, events, length, table, mirrors, sweep, step, row, assigned,
                     mirrorFaults>>
  BY DEF Mirror!ProviderAnswers, Mirror!Running, Mirror!database
<1>3. /\ Known(s, n) /\ From(s, h, made, 0) /\ Len(new) \in {1, 2}
      /\ Len(s) = Len(h) + Len(new) /\ s[Len(h) + Len(new)].m > made
  <2> HIDE DEF h
  <2> QED
    BY <1>1, AnsweredKnown
<1>4. length = Len(h)
  BY <1>1, <1>2 DEF TurnMirrors
<1> HIDE DEF s, new
<1>5. n \in Nat /\ made <= n
  BY <1>1, <1>3
<1>6. t \in Seq(Nat) /\ t \in {<< >>, <<Len(s)>>} /\ Len(s) >= 1 /\ length <= Len(s)
  BY <1>1, <1>3, <1>4
<1>7. TurnMirrors'
  <2>1. copy'["turn"] = s /\ todo'["turn"] = t /\ copy'["rec"] = copy["rec"]
    BY <1>1, <1>2, SideFacts DEF MirrorTypes
  <2>2. \A i \in 1 .. Len(jsonl) : jsonl[i].m # s[Len(s)].m
    <3>1. \A i \in 1 .. Len(jsonl) : jsonl[i].m <= made /\ jsonl[i].m \in Nat
      BY <1>1, KnownHas DEF MirrorTypes
    <3>2. s[Len(s)].m > made
      BY <1>3
    <3> QED
      BY <1>1, <3>1, <3>2
  <2>3. \A i \in 1 .. Len(copy["rec"]) : copy["rec"][i].m # s[Len(s)].m
    <3>1. \A i \in 1 .. Len(copy["rec"]) : copy["rec"][i].m <= made /\ copy["rec"][i].m \in Nat
      <4>1. Known(copy["rec"], made)
        BY <1>1, SideFacts DEF MirrorTypes
      <4> QED
        BY <4>1, KnownHas
    <3>2. s[Len(s)].m > made
      BY <1>3
    <3> QED
      BY <1>1, <3>1, <3>2
  <2> HIDE DEF t
  <2> QED
    BY <1>2, <1>6, <2>1, <2>2, <2>3 DEF TurnMirrors, Unsaved
<1>8. /\ events' \in Seq(Nat) /\ length' \in Nat /\ 0 \in Nat
      /\ Len(events) <= Len(events') /\ 0 <= Len(events')
  BY <1>1, <1>2 DEF MirrorTypes
<1> HIDE DEF t, h, n
<1> QED
  BY <1>2, <1>3, <1>5, <1>6, <1>7, <1>8, TurnMoves DEF h

\* A turn that ends saves its history.
LEMMA SaveKeeps ==
  ASSUME CopiesIInv, NEW s, NEW n \in Nat, made <= n, made' = n, Known(s, n),
         From(s, copy["turn"], made, 0), todo["turn"] = << >>, Mirror!SaveHistory(s)
  PROVE  CopiesIInv'
<1>1. /\ copy' = [copy EXCEPT !["turn"] = s] /\ jsonl' = s /\ saving' = "idle" /\ length' = 0
      /\ UNCHANGED <<table, mirrors, sweep, events, todo, step, row, assigned, mirrorFaults>>
  BY DEF Mirror!SaveHistory, Mirror!database
<1>2. MirrorTypes /\ TurnMirrors
  BY DEF CopiesIInv
<1>3. todo' = [todo EXCEPT !["turn"] = << >>]
  BY <1>1, <1>2, SideFacts DEF MirrorTypes
<1>4. TurnMirrors'
  BY <1>1 DEF TurnMirrors
<1>5. /\ events' \in Seq(Nat) /\ << >> \in Seq(Nat) /\ length' \in Nat /\ 0 \in Nat
      /\ Len(events) <= Len(events') /\ 0 <= Len(events')
  BY <1>1, <1>2 DEF MirrorTypes
<1> QED
  BY <1>1, <1>3, <1>4, <1>5, TurnMoves

\* A turn that raises.
LEMMA RaiseKeeps ==
  ASSUME CopiesIInv, Mirror!TurnRaises
  PROVE  CopiesIInv'
<1> DEFINE h == copy["turn"]
           part0 == SubSeq(h, 1, length)
           s == Append(part0, Mirror!Msg(made + 1, 0))
           n == made + 1
<1>1. /\ MirrorTypes /\ TurnMirrors /\ Known(h, made) /\ made \in Nat /\ Len(h) \in Nat
      /\ length \in Nat
  <2>1. MirrorTypes /\ TurnMirrors /\ Known(h, made) /\ made \in Nat /\ length \in Nat
    BY SideFacts DEF CopiesIInv, MirrorTypes
  <2> QED
    BY <2>1, KnownHas
<1>2. /\ saving \in {"mirror_user", "mirror_new"} /\ todo["turn"] = << >> /\ made' = n
      /\ Mirror!SaveHistory(s)
  BY DEF Mirror!TurnRaises, Mirror!RolledBack, Mirror!History
<1>3. length <= Len(h)
  BY <1>1, <1>2 DEF TurnMirrors
<1>4. Known(part0, made) /\ From(part0, h, made, 0)
  <2> HIDE DEF h
  <2>1. 1 \in 1 .. Len(h) + 1 /\ length \in 0 .. Len(h) /\ 1 <= length + 1
    BY <1>1, <1>3
  <2> QED
    BY <1>1, <2>1, PartKnown
<1> HIDE DEF part0
<1>5. Known(s, n) /\ From(s, h, made, 0)
  <2> HIDE DEF h
  <2>1. n \in Nat /\ n > made /\ 0 \in Nat
    BY <1>1
  <2> QED
    BY <1>1, <1>4, <2>1, SaidKnown
<1> HIDE DEF s
<1>6. n \in Nat /\ made <= n
  BY <1>1
<1> HIDE DEF n, h
<1> QED
  BY <1>2, <1>5, <1>6, SaveKeeps DEF h

\* A turn that returns.
LEMMA EndKeeps ==
  ASSUME CopiesIInv, Mirror!TurnEnds
  PROVE  CopiesIInv'
<1> DEFINE h == copy["turn"]
           s == Append(h, Mirror!Msg(made + 1, 0))
           n == made + 1
<1>1. Known(h, made) /\ made \in Nat
  BY SideFacts DEF CopiesIInv, MirrorTypes
<1>2. /\ todo["turn"] = << >>
      /\ \/ made' = made /\ Mirror!SaveHistory(h)
         \/ made' = n /\ Mirror!SaveHistory(s)
  BY DEF Mirror!TurnEnds, Mirror!History
<1>3. From(h, h, made, 0)
  BY DEF From
<1>4. n \in Nat /\ n > made /\ made <= n /\ made <= made /\ 0 \in Nat
  BY <1>1
<1> HIDE DEF n
<1>5. Known(s, n) /\ From(s, h, made, 0)
  <2> HIDE DEF h
  <2> QED
    BY <1>1, <1>3, <1>4, SaidKnown DEF n
<1> HIDE DEF s
<1>6. CASE made' = made /\ Mirror!SaveHistory(h)
  <2> HIDE DEF h
  <2> QED
    BY <1>1, <1>2, <1>3, <1>4, <1>6, SaveKeeps DEF h
<1>7. CASE made' = n /\ Mirror!SaveHistory(s)
  <2> HIDE DEF h
  <2> QED
    BY <1>2, <1>4, <1>5, <1>7, SaveKeeps DEF h
<1> QED
  BY <1>2, <1>6, <1>7

\* A statement of the turn's mirror loop raises.
LEMMA LiveRaiseKeeps ==
  ASSUME CopiesIInv, Mirror!LiveMirrorRaises
  PROVE  CopiesIInv'
<1>1. /\ todo' = [todo EXCEPT !["turn"] = << >>] /\ step' = [step EXCEPT !["turn"] = "check"]
      /\ row' = [row EXCEPT !["turn"] = 0] /\ mirrorFaults' = mirrorFaults + 1
      /\ UNCHANGED <<made, jsonl, table, mirrors, saving, sweep, length, events, copy, assigned>>
  BY DEF Mirror!LiveMirrorRaises, Mirror!Raise, Mirror!database, Mirror!control
<1>2. MirrorTypes /\ IdsDescend /\ TurnMirrors /\ PassMirrors /\ WithinMirror
  BY DEF CopiesIInv
<1>3. /\ todo'["turn"] = << >> /\ todo'["rec"] = todo["rec"] /\ step'["turn"] = "check"
      /\ step'["rec"] = step["rec"] /\ row'["rec"] = row["rec"]
  BY <1>1, <1>2, SideFacts DEF MirrorTypes
<1>4. MirrorTypes'
  <2>1. /\ todo \in [Sides -> Seq(Nat)] /\ row \in [Sides -> Nat] /\ mirrorFaults \in Nat
        /\ step \in [Sides -> {"check", "insert", "record"}]
    BY <1>2 DEF MirrorTypes
  <2>2. << >> \in Seq(Nat) /\ 0 \in Nat /\ mirrorFaults' \in Nat
    BY <1>1, <2>1
  <2>3. todo' \in [Sides -> Seq(Nat)]
    BY <1>1, <2>1, <2>2
  <2>4. row' \in [Sides -> Nat] /\ step' \in [Sides -> {"check", "insert", "record"}]
    BY <1>1, <2>1
  <2> QED
    BY <1>1, <1>2, <2>2, <2>3, <2>4 DEF MirrorTypes
<1>5. IdsDescend' /\ TurnMirrors'
  BY <1>1, <1>2, <1>3 DEF IdsDescend, TurnMirrors
<1>6. PassMirrors' /\ WithinMirror'
  BY <1>1, <1>2, <1>3, SideFacts, PassKept, WithinKept DEF MirrorTypes
<1>7. IdsGiven'
  BY <1>1 DEF CopiesIInv, IdsGiven
<1> QED
  BY <1>4, <1>5, <1>6, <1>7 DEF CopiesIInv

\* A pass that is not running has nothing, and is not within mirror_message.
LEMMA PassIdle ==
  ASSUME CopiesIInv, sweep = "idle"
  PROVE  copy["rec"] = << >> /\ todo["rec"] = << >> /\ step["rec"] = "check"
<1>1. copy["rec"] = << >> /\ Len(copy["rec"]) - Len(todo["rec"]) >= 0
  BY DEF CopiesIInv, PassMirrors
<1>2. todo["rec"] \in Seq(Nat)
  BY SideFacts DEF CopiesIInv, MirrorTypes
<1>3. todo["rec"] = << >>
  BY <1>1, <1>2
<1> QED
  BY <1>1, <1>3, SideFacts DEF CopiesIInv, WithinMirror

\* A pass loads the file.
LEMMA LoadKeeps ==
  ASSUME CopiesIInv, sweep = "idle", Mirror!LoadFile,
         UNCHANGED <<made, jsonl, table, mirrors, saving, length, events, step, row, mirrorFaults>>
  PROVE  CopiesIInv'
<1> DEFINE t == Mirror!Positions(1, Len(jsonl))
<1>1. /\ copy' = [copy EXCEPT !["rec"] = jsonl] /\ todo' = [todo EXCEPT !["rec"] = t]
      /\ sweep' = "mirroring" /\ assigned' = FALSE
  BY DEF Mirror!LoadFile
<1>2. MirrorTypes /\ IdsDescend /\ TurnMirrors /\ PassMirrors /\ WithinMirror
  BY DEF CopiesIInv
<1>3. /\ Known(jsonl, made) /\ jsonl \in Seq(Copy) /\ Len(jsonl) \in Nat
  BY <1>2, KnownHas DEF MirrorTypes
<1>4. t \in Seq(Nat) /\ Len(t) = Len(jsonl) /\ \A j \in 1 .. Len(t) : t[j] = 0 + j
  <2> DEFINE n == Len(jsonl)
  <2>1. n \in Nat /\ t = [i \in 1 .. (n - 1 + 1) |-> 1 + i - 1]
    BY <1>3 DEF Mirror!Positions
  <2> HIDE DEF n, t
  <2>2. t = [i \in 1 .. n |-> i]
    BY <2>1
  <2>3. t \in Seq(Nat) /\ Len(t) = n
    BY <2>1, <2>2
  <2>4. \A j \in 1 .. n : t[j] = 0 + j
    BY <2>1, <2>2
  <2> QED
    BY <2>3, <2>4 DEF n
<1> HIDE DEF t
<1>5. /\ copy'["rec"] = jsonl /\ copy'["turn"] = copy["turn"]
      /\ todo'["rec"] = t /\ todo'["turn"] = todo["turn"] /\ step'["rec"] = "check"
  BY <1>1, <1>2, SideFacts, PassIdle DEF MirrorTypes
<1>6. MirrorTypes'
  <2>1. /\ copy' \in [Sides -> Seq(Copy)] /\ todo' \in [Sides -> Seq(Nat)]
        /\ \A p \in Sides : Known(copy'[p], made)
    BY <1>1, <1>2, <1>3, <1>4, <1>5, SideFacts DEF MirrorTypes
  <2> QED
    BY <1>1, <1>2, <2>1 DEF MirrorTypes
<1>7. IdsDescend'
  <2>1. Knows(jsonl, jsonl)
    BY <1>3 DEF Known, Knows
  <2> QED
    BY <1>2, <1>5, <2>1 DEF IdsDescend
<1>8. TurnMirrors'
  BY <1>2, <1>5, TurnKept DEF Unsaved
<1>9. PassMirrors'
  <2> DEFINE d == Len(copy'["rec"]) - Len(todo'["rec"])
  <2>1. d = 0
    BY <1>3, <1>4, <1>5
  <2>2. \A j \in 1 .. Len(todo'["rec"]) : todo'["rec"][j] = d + j
    BY <1>4, <1>5, <2>1
  <2>3. d >= 0 /\ \A i \in 1 .. d : FALSE
    BY <2>1
  <2> HIDE DEF d
  <2> QED
    BY <1>1, <1>5, <2>2, <2>3 DEF PassMirrors, d
<1>10. WithinMirror'
  BY <1>2, <1>5, SideFacts, WithinKept
<1>11. IdsGiven'
  BY <1>5, SideFacts DEF CopiesIInv, IdsGiven
<1> QED
  BY <1>6, <1>7, <1>8, <1>9, <1>10, <1>11 DEF CopiesIInv

\* The timer's pass and the startup's.
LEMMA StartKeeps ==
  ASSUME CopiesIInv, Mirror!StartPass \/ Mirror!Restart
  PROVE  CopiesIInv'
<1>1. /\ sweep = "idle" /\ Mirror!LoadFile
      /\ UNCHANGED <<made, jsonl, table, mirrors, saving, length, events, step, row, mirrorFaults>>
  BY DEF Mirror!StartPass, Mirror!Restart, Mirror!Down, Mirror!database
<1> QED
  BY <1>1, LoadKeeps

\* A pass is over; at startup the history is what is then in the file.
LEMMA OverKeeps ==
  ASSUME CopiesIInv, NEW f \in {jsonl, copy["rec"]}, Mirror!PassOver(f),
         todo' = [todo EXCEPT !["rec"] = << >>], step' = [step EXCEPT !["rec"] = "check"],
         row' \in [Sides -> Nat], row'["turn"] = row["turn"], mirrorFaults' \in Nat,
         UNCHANGED <<made, table, mirrors, length, events>>
  PROVE  CopiesIInv'
<1>1. /\ sweep' = "idle" /\ assigned' = FALSE /\ jsonl' = f
      /\ saving' = IF saving = "down" THEN "idle" ELSE saving
      /\ copy' = [copy EXCEPT !["rec"] = << >>, !["turn"] = IF saving = "down" THEN f ELSE @]
  BY DEF Mirror!PassOver
<1>2. MirrorTypes /\ IdsDescend /\ TurnMirrors /\ PassMirrors /\ WithinMirror
  BY DEF CopiesIInv
<1>3. Known(f, made) /\ f \in Seq(Copy) /\ made \in Nat /\ Known(<< >>, made)
  BY <1>2, SideFacts DEF MirrorTypes, Known
<1>4. /\ copy'["rec"] = << >> /\ copy'["turn"] = IF saving = "down" THEN f ELSE copy["turn"]
      /\ todo'["rec"] = << >> /\ todo'["turn"] = todo["turn"]
      /\ step'["rec"] = "check" /\ step'["turn"] = step["turn"] /\ row'["turn"] = row["turn"]
  BY <1>1, <1>2, SideFacts DEF MirrorTypes
<1>5. MirrorTypes'
  <2>1. /\ todo' \in [Sides -> Seq(Nat)] /\ copy' \in [Sides -> Seq(Copy)]
        /\ step' \in [Sides -> {"check", "insert", "record"}]
    <3>1. /\ todo \in [Sides -> Seq(Nat)] /\ copy \in [Sides -> Seq(Copy)]
          /\ step \in [Sides -> {"check", "insert", "record"}]
      BY <1>2 DEF MirrorTypes
    <3>2. << >> \in Seq(Nat) /\ << >> \in Seq(Copy)
      OBVIOUS
    <3>3. todo' \in [Sides -> Seq(Nat)] /\ step' \in [Sides -> {"check", "insert", "record"}]
      BY <3>1, <3>2
    <3>4. copy' \in [Sides -> Seq(Copy)]
      <4>1. [copy EXCEPT !["rec"] = << >>] \in [Sides -> Seq(Copy)]
        BY <3>1, <3>2
      <4>2. (IF saving = "down" THEN f ELSE copy["turn"]) \in Seq(Copy)
        BY <1>3, <3>1, SideFacts
      <4>3. copy' = [[copy EXCEPT !["rec"] = << >>] EXCEPT
                       !["turn"] = IF saving = "down" THEN f ELSE copy["turn"]]
        BY <1>1, <3>1, SideFacts
      <4> QED
        BY <4>1, <4>2, <4>3
    <3> QED
      BY <3>3, <3>4
  <2>2. \A p \in Sides : Known(copy'[p], made)
    BY <1>2, <1>3, <1>4, SideFacts DEF MirrorTypes
  <2> QED
    BY <1>1, <1>2, <1>3, <2>1, <2>2 DEF MirrorTypes
<1>6. IdsDescend'
  <2>1. Knows(f, f)
    BY <1>3 DEF Known, Knows
  <2>2. \A x : Knows(<< >>, x)
    BY DEF Knows
  <2>3. Knows(f, copy["turn"])
    BY <1>2 DEF IdsDescend
  <2> QED
    BY <1>1, <1>4, <2>1, <2>2, <2>3 DEF IdsDescend
<1>7. TurnMirrors'
  <2>1. CASE saving = "down"
    BY <1>1, <1>2, <1>4, <2>1 DEF TurnMirrors
  <2>2. CASE saving # "down"
    <3>1. copy'["turn"] = copy["turn"] /\ saving' = saving /\ length' = length
      BY <1>1, <1>4, <2>2
    <3>2. \A m : Unsaved(m) => Unsaved(m)'
      BY <1>1, <1>4 DEF Unsaved
    <3> QED
      BY <1>2, <1>4, <3>1, <3>2, TurnKept
  <2> QED
    BY <2>1, <2>2
<1>8. PassMirrors'
  <2> DEFINE d == Len(copy'["rec"]) - Len(todo'["rec"])
  <2>1. d = 0 /\ Len(todo'["rec"]) = 0
    BY <1>4
  <2>2. d >= 0 /\ \A i \in 1 .. d : FALSE
    BY <2>1
  <2>3. \A j \in 1 .. Len(todo'["rec"]) : FALSE
    BY <2>1
  <2> HIDE DEF d
  <2> QED
    BY <1>1, <1>4, <2>2, <2>3 DEF PassMirrors, d
<1>9. WithinMirror'
  <2>1. step["turn"] # "check" => copy'["turn"] = copy["turn"]
    BY <1>2, <1>4, SideFacts DEF WithinMirror, TurnMirrors
  <2> QED
    BY <1>2, <1>4, <2>1, SideFacts, WithinKept
<1>10. IdsGiven'
  <2>1. Given(f, Len(events)) /\ Given(<< >>, Len(events))
    BY SideFacts DEF CopiesIInv, IdsGiven, Given
  <2>2. \A p \in Sides : Given(copy'[p], Len(events))
    BY <1>4, <2>1, SideFacts DEF CopiesIInv, IdsGiven
  <2> QED
    BY <1>1, <2>1, <2>2 DEF CopiesIInv, IdsGiven
<1> QED
  BY <1>5, <1>6, <1>7, <1>8, <1>9, <1>10 DEF CopiesIInv

\* A pass returns or raises.
LEMMA PassEndKeeps ==
  ASSUME CopiesIInv, Mirror!EndPass \/ Mirror!PassRaises
  PROVE  CopiesIInv'
<1>1. MirrorTypes /\ WithinMirror
  BY DEF CopiesIInv
<1>2. CASE Mirror!EndPass
  <2> DEFINE f == IF assigned THEN copy["rec"] ELSE jsonl
  <2>1. /\ todo["rec"] = << >> /\ Mirror!PassOver(f)
        /\ UNCHANGED <<made, table, mirrors, length, events, todo, step, row, mirrorFaults>>
    BY <1>2 DEF Mirror!EndPass, Mirror!database
  <2>2. step["rec"] = "check"
    BY <1>1, <2>1, SideFacts DEF WithinMirror
  <2>3. todo' = [todo EXCEPT !["rec"] = << >>] /\ step' = [step EXCEPT !["rec"] = "check"]
    BY <1>1, <2>1, <2>2, SideFacts DEF MirrorTypes
  <2>4. row' \in [Sides -> Nat] /\ row'["turn"] = row["turn"] /\ mirrorFaults' \in Nat
    BY <1>1, <2>1 DEF MirrorTypes
  <2>5. f \in {jsonl, copy["rec"]}
    OBVIOUS
  <2> HIDE DEF f
  <2> QED
    BY <2>1, <2>3, <2>4, <2>5, OverKeeps
<1>3. CASE Mirror!PassRaises
  <2>1. /\ Mirror!PassOver(jsonl) /\ mirrorFaults' = mirrorFaults + 1
        /\ todo' = [todo EXCEPT !["rec"] = << >>] /\ step' = [step EXCEPT !["rec"] = "check"]
        /\ row' = [row EXCEPT !["rec"] = 0]
        /\ UNCHANGED <<made, table, mirrors, length, events>>
    BY <1>3 DEF Mirror!PassRaises, Mirror!Raise, Mirror!database
  <2>2. row' \in [Sides -> Nat] /\ row'["turn"] = row["turn"] /\ mirrorFaults' \in Nat
    BY <1>1, <2>1, SideFacts DEF MirrorTypes
  <2> QED
    BY <2>1, <2>2, OverKeeps
<1> QED
  BY <1>2, <1>3

\* A crash loses both lists.
LEMMA CrashKeeps ==
  ASSUME CopiesIInv, Mirror!Crash
  PROVE  CopiesIInv'
<1>1. /\ saving' = "down" /\ sweep' = "idle" /\ length' = 0 /\ assigned' = FALSE
      /\ copy' = [p \in Sides |-> << >>] /\ todo' = [p \in Sides |-> << >>]
      /\ step' = [p \in Sides |-> "check"] /\ row' = [p \in Sides |-> 0]
      /\ mirrorFaults' = mirrorFaults + 1
      /\ UNCHANGED <<made, jsonl, table, mirrors, events>>
  BY DEF Mirror!Crash, Mirror!Raise, Mirror!database, Sides
<1>2. MirrorTypes /\ WithinMirror
  BY DEF CopiesIInv
<1>3. << >> \in Seq(Copy) /\ << >> \in Seq(Nat) /\ Len(<< >>) = 0 /\ Known(<< >>, made)
  BY <1>2 DEF Known, MirrorTypes
<1>4. MirrorTypes'
  <2>1. mirrorFaults' \in Nat
    BY <1>1, <1>2 DEF MirrorTypes
  <2>2. /\ copy' \in [Sides -> Seq(Copy)] /\ todo' \in [Sides -> Seq(Nat)]
        /\ row' \in [Sides -> Nat] /\ step' \in [Sides -> {"check", "insert", "record"}]
    BY <1>1, <1>3
  <2>3. \A p \in Sides : Known(copy'[p], made)
    BY <1>1, <1>3
  <2> QED
    BY <1>1, <1>2, <2>1, <2>2, <2>3 DEF MirrorTypes
<1>5. IdsDescend'
  BY <1>1, SideFacts DEF IdsDescend, Knows
<1>6. TurnMirrors' /\ PassMirrors'
  BY <1>1, <1>3, SideFacts DEF TurnMirrors, PassMirrors
<1>7. WithinMirror'
  BY <1>1, <1>2, WithinKept
<1>8. IdsGiven'
  BY <1>1 DEF CopiesIInv, IdsGiven, Given
<1> QED
  BY <1>4, <1>5, <1>6, <1>7, <1>8 DEF CopiesIInv

\* Nothing happens here.
LEMMA StutterKeeps ==
  ASSUME CopiesIInv, UNCHANGED mirrorVars
  PROVE  CopiesIInv'
<1>1. UNCHANGED <<made, jsonl, table, mirrors, saving, sweep, length, events, copy, todo, assigned,
                  step, row, mirrorFaults>>
  BY DEF mirrorVars
<1>2. /\ MirrorTypes' /\ IdsDescend' /\ WithinMirror'
  BY <1>1 DEF CopiesIInv, MirrorTypes, IdsDescend, WithinMirror, Mirror!Mirrored, Mirror!Current
<1>3. TurnMirrors' /\ PassMirrors'
  BY <1>1 DEF CopiesIInv, TurnMirrors, PassMirrors, Mirror!Mirrored, Unsaved
<1>4. IdsGiven'
  BY <1>1 DEF CopiesIInv, IdsGiven
<1> QED
  BY <1>2, <1>3, <1>4 DEF CopiesIInv

\* Every step of the mirror.
LEMMA CopiesStep ==
  ASSUME Mirror!MirrorAssumption, CopiesIInv, Mirror!Next
  PROVE  CopiesIInv'
<1>1. ASSUME NEW p \in Sides, Mirror!MirrorMessage(p) PROVE CopiesIInv'
  BY <1>1, CheckKeeps, AddKeeps, RecordKeeps DEF Mirror!MirrorMessage
<1>2. ASSUME NEW k \in 0 .. MaxMessages, Mirror!UserMessage(k) PROVE CopiesIInv'
  BY <1>2, UserKeeps DEF Mirror!MirrorAssumption
<1>3. CASE Mirror!Turn
  BY <1>1, <1>3, AnswerKeeps, EndKeeps, SideFacts DEF Mirror!Turn
<1>4. CASE Mirror!Reconciler
  BY <1>1, <1>4, StartKeeps, PassEndKeeps, SideFacts DEF Mirror!Reconciler
<1> QED
  BY <1>2, <1>3, <1>4, RaiseKeeps, StartKeeps, LiveRaiseKeeps, PassEndKeeps, CrashKeeps
  DEF Mirror!Next

\* The sets that are counted.
LEMMA CostFacts ==
  ASSUME MirrorTypes
  PROVE  /\ table \in Seq(Nat) /\ Len(table) \in Nat /\ DOMAIN table = 1 .. Len(table)
         /\ mirrorFaults \in Nat
         /\ IsFiniteSet(SecondRows) /\ Cardinality(SecondRows) \in Nat
         /\ IsFiniteSet(LooseIds) /\ Cardinality(LooseIds) \in Nat
<1>1. /\ table \in Seq(Nat) /\ Len(table) \in Nat /\ DOMAIN table = 1 .. Len(table)
      /\ mirrorFaults \in Nat
  BY DEF MirrorTypes
<1>2. IsFiniteSet(DOMAIN table)
  BY <1>1, FS_Interval
<1>3. IsFiniteSet(SecondRows) /\ Cardinality(SecondRows) \in Nat
  <2>1. SecondRows \subseteq DOMAIN table
    BY DEF SecondRows
  <2> QED
    BY <1>2, <2>1, FS_Subset, FS_CardinalityType
<1>4. IsFiniteSet(LooseIds) /\ Cardinality(LooseIds) \in Nat
  <2> DEFINE T == {table[r] : r \in DOMAIN table}
  <2>1. IsFiniteSet(T)
    <3>1. table \in [DOMAIN table -> T]
      BY <1>1
    <3>2. \A t \in T : \E r \in DOMAIN table : table[r] = t
      OBVIOUS
    <3> HIDE DEF T
    <3>3. table \in Surjection(DOMAIN table, T)
      BY <3>1, <3>2 DEF Surjection
    <3> QED
      BY <1>2, <3>3, FS_Surjection
  <2>2. LooseIds \subseteq T
    BY DEF LooseIds
  <2> HIDE DEF T
  <2> QED
    BY <2>1, <2>2, FS_Subset, FS_CardinalityType
<1> QED
  BY <1>1, <1>3, <1>4

\* Without the timer one thread at most is within mirror_message.
LEMMA OneActive ==
  ASSUME CopiesIInv, OneSideAtATime, ~periodic, NEW p \in Sides, step[p] # "check",
         NEW q \in Sides, step[q] # "check"
  PROVE  p = q
<1> SUFFICES ASSUME step["turn"] # "check", step["rec"] # "check" PROVE FALSE
  BY SideFacts
<1>1. todo["turn"] # << >> /\ todo["rec"] # << >>
  BY SideFacts, WithinHas
<1>2. saving \in {"mirror_user", "mirror_new"}
  BY <1>1 DEF CopiesIInv, TurnMirrors
<1>3. sweep # "idle"
  BY <1>1, PassIdle
<1>4. sweep = "mirroring"
  BY <1>3 DEF CopiesIInv, MirrorTypes
<1> QED
  BY <1>2, <1>4 DEF OneSideAtATime

\* No id gets loose, but for x when a fault is paid.
LEMMA CostKept ==
  ASSUME CopiesIInv, RowsCost, UNCHANGED <<table, mirrors, periodic>>,
         mirrorFaults' \in Nat, mirrorFaults <= mirrorFaults', NEW x,
         \A p \in Sides : step[p] = "record" =>
           \/ step'[p] = "record" /\ copy'[p] = copy[p] /\ todo'[p] = todo[p]
           \/ mirrorFaults' = mirrorFaults + 1 /\ Mirror!Current(p).ev = x
  PROVE  RowsCost'
<1> SUFFICES ASSUME ~periodic
             PROVE  Cardinality(SecondRows') + Cardinality(LooseIds') <= mirrorFaults'
  BY DEF RowsCost
<1>1. Cardinality(SecondRows) + Cardinality(LooseIds) <= mirrorFaults
  BY DEF RowsCost
<1>2. /\ IsFiniteSet(LooseIds) /\ Cardinality(LooseIds) \in Nat
      /\ Cardinality(SecondRows) \in Nat /\ mirrorFaults \in Nat
  BY CostFacts DEF CopiesIInv
<1>3. SecondRows' = SecondRows
  BY DEF SecondRows
<1>4. \A e \in LooseIds' : e \notin LooseIds => mirrorFaults' = mirrorFaults + 1 /\ e = x
  <2> SUFFICES ASSUME NEW e \in LooseIds', e \notin LooseIds
               PROVE  mirrorFaults' = mirrorFaults + 1 /\ e = x
    OBVIOUS
  <2>1. /\ e \in {table[r] : r \in DOMAIN table} /\ ~Mirror!Mirrored(e)
        /\ \A p \in Sides : step'[p] = "record" => copy'[p][Head(todo'[p])].ev # e
    BY DEF LooseIds, Mirror!Mirrored, Mirror!Current
  <2>2. PICK p \in Sides : step[p] = "record" /\ Mirror!Current(p).ev = e
    BY <2>1 DEF LooseIds
  <2> QED
    BY <2>1, <2>2 DEF Mirror!Current
<1>5. CASE LooseIds' \subseteq LooseIds
  <2>1. Cardinality(LooseIds') <= Cardinality(LooseIds) /\ Cardinality(LooseIds') \in Nat
    BY <1>2, <1>5, FS_Subset, FS_CardinalityType
  <2> QED
    BY <1>1, <1>2, <1>3, <2>1
<1>6. CASE ~(LooseIds' \subseteq LooseIds)
  <2>1. mirrorFaults' = mirrorFaults + 1 /\ LooseIds' \subseteq LooseIds \cup {x}
    BY <1>4, <1>6
  <2>2. /\ IsFiniteSet(LooseIds \cup {x}) /\ Cardinality(LooseIds \cup {x}) \in Nat
        /\ Cardinality(LooseIds \cup {x}) <= Cardinality(LooseIds) + 1
    <3>1. IsFiniteSet(LooseIds \cup {x})
      BY <1>2, FS_AddElement
    <3>2. \/ Cardinality(LooseIds \cup {x}) = Cardinality(LooseIds)
          \/ Cardinality(LooseIds \cup {x}) = Cardinality(LooseIds) + 1
      BY <1>2, FS_AddElement
    <3> QED
      BY <1>2, <3>1, <3>2, FS_CardinalityType
  <2>3. /\ Cardinality(LooseIds') <= Cardinality(LooseIds \cup {x})
        /\ Cardinality(LooseIds') \in Nat
    BY <2>1, <2>2, FS_Subset, FS_CardinalityType
  <2> QED
    BY <1>1, <1>2, <1>3, <2>1, <2>2, <2>3
<1> QED
  BY <1>5, <1>6

\* Nor does a second side start.
LEMMA SidesKept ==
  ASSUME OneSideAtATime, UNCHANGED <<table, mirrors, periodic>>,
         ~periodic /\ sweep' = "mirroring" => saving' = "down",
         \A p \in Sides : step'[p] # "check" =>
           step[p] # "check" /\ copy'[p] = copy[p] /\ todo'[p] = todo[p]
  PROVE  OneSideAtATime'
  BY DEF OneSideAtATime, Mirror!Mirrored, Mirror!Current

CostIInv == OneSideAtATime /\ RowsCost

\* An id that was just given has no mirror.
LEMMA CheckCosts ==
  ASSUME CopiesIInv, CostIInv, NEW p \in Sides, Mirror!CheckMirrored(p)
  PROVE  CostIInv'
<1> DEFINE h == copy[p]
           i == Head(todo[p])
<1>1. /\ todo[p] # << >> /\ step[p] = "check"
      /\ UNCHANGED <<table, mirrors, saving, sweep, mirrorFaults, periodic>>
      /\ \/ step' = step
         \/ /\ ~Mirror!Mirrored(h[i].ev) /\ step' = [step EXCEPT ![p] = "insert"]
            /\ todo' = todo
      /\ todo' = todo \/ todo' = [todo EXCEPT ![p] = Tail(@)]
      /\ \/ h[i].ev # 0 /\ copy' = copy
         \/ events' = Append(events, h[i].m) /\ copy' = [copy EXCEPT ![p][i].ev = Len(events')]
  BY DEF Mirror!CheckMirrored, Mirror!Current, Mirror!database, Mirror!control
<1>2. /\ MirrorTypes /\ IdsGiven /\ OneSideAtATime /\ RowsCost
      /\ i \in 1 .. Len(h) /\ h \in Seq(Copy) /\ h[i] \in Copy
  <2>1. i \in 1 .. Len(h) /\ Known(h, made)
    BY <1>1, AtMessage DEF CopiesIInv, MirrorTypes
  <2> QED
    BY <2>1, KnownHas DEF CopiesIInv, CostIInv
<1>3. \A q \in Sides : q # p => step'[q] = step[q] /\ todo'[q] = todo[q] /\ copy'[q] = copy[q]
  BY <1>1, <1>2 DEF MirrorTypes
<1>4. step'[p] # "check" => /\ todo'[p] = todo[p] /\ step'[p] = "insert"
                            /\ ~Mirror!Mirrored(copy'[p][i].ev)
  <2> SUFFICES ASSUME step'[p] # "check"
               PROVE  /\ todo'[p] = todo[p] /\ step'[p] = "insert"
                      /\ ~Mirror!Mirrored(copy'[p][i].ev)
    OBVIOUS
  <2>1. ~Mirror!Mirrored(h[i].ev) /\ step'[p] = "insert" /\ todo' = todo
    BY <1>1, <1>2 DEF MirrorTypes
  <2>2. CASE copy' = copy
    BY <2>1, <2>2
  <2>3. CASE events' = Append(events, h[i].m) /\ copy' = [copy EXCEPT ![p][i].ev = Len(events')]
    <3>1. events \in Seq(Nat) /\ Len(events') = Len(events) + 1 /\ Len(events) \in Nat
      BY <1>2, <2>3 DEF MirrorTypes, Copy
    <3>2. copy'[p][i].ev = Len(events')
      <4>1. copy' = [copy EXCEPT ![p] = [h EXCEPT ![i] = [h[i] EXCEPT !.ev = Len(events')]]]
        BY <2>3
      <4>2. copy'[p] = [h EXCEPT ![i] = [h[i] EXCEPT !.ev = Len(events')]]
        BY <1>2, <4>1 DEF MirrorTypes
      <4>3. copy'[p][i] = [h[i] EXCEPT !.ev = Len(events')]
        BY <1>2, <4>2
      <4> QED
        BY <1>2, <4>3 DEF Copy
    <3>3. \A r : <<Len(events'), r>> \notin mirrors
      BY <1>2, <3>1 DEF IdsGiven
    <3> QED
      BY <2>1, <3>2, <3>3 DEF Mirror!Mirrored
  <2> QED
    BY <1>1, <2>2, <2>3
<1> HIDE DEF h, i
<1>5. OneSideAtATime'
  <2> SUFFICES ASSUME ~periodic
               PROVE  /\ sweep = "mirroring" => saving = "down"
                      /\ \A q \in Sides : step'[q] # "check" =>
                           ~Mirror!Mirrored(copy'[q][Head(todo'[q])].ev)
    BY <1>1 DEF OneSideAtATime, Mirror!Mirrored, Mirror!Current
  <2>1. ASSUME NEW q \in Sides, step'[q] # "check"
        PROVE  ~Mirror!Mirrored(copy'[q][Head(todo'[q])].ev)
    <3>1. CASE q = p
      BY <1>4, <2>1, <3>1 DEF i
    <3>2. CASE q # p
      BY <1>2, <1>3, <2>1, <3>2 DEF OneSideAtATime, Mirror!Current
    <3> QED
      BY <3>1, <3>2
  <2> QED
    BY <1>2, <2>1 DEF OneSideAtATime
<1>6. RowsCost'
  <2>1. mirrorFaults' \in Nat /\ mirrorFaults <= mirrorFaults'
    BY <1>1, <1>2 DEF MirrorTypes
  <2>2. \A q \in Sides : step[q] = "record" =>
          step'[q] = "record" /\ copy'[q] = copy[q] /\ todo'[q] = todo[q]
    BY <1>1, <1>3
  <2> QED
    BY <1>1, <1>2, <2>1, <2>2, CostKept
<1> QED
  BY <1>5, <1>6 DEF CostIInv

\* A row added for a loose id is the second; the id is no longer loose.
LEMMA AddCosts ==
  ASSUME CopiesIInv, CostIInv, NEW p \in Sides, Mirror!AddMessage(p)
  PROVE  CostIInv'
<1> DEFINE e == Mirror!Current(p).ev
           n == Len(table) + 1
<1>1. /\ step[p] = "insert" /\ table' = Append(table, e)
      /\ step' = [step EXCEPT ![p] = "record"]
      /\ UNCHANGED <<mirrors, saving, sweep, copy, todo, mirrorFaults, periodic>>
  BY DEF Mirror!AddMessage, Mirror!control
<1>2. MirrorTypes /\ OneSideAtATime /\ RowsCost
  BY DEF CopiesIInv, CostIInv
<1>3. e \in Nat
  BY <1>1, WithinHas
<1> HIDE DEF e
<1>4. /\ table \in Seq(Nat) /\ table' \in Seq(Nat) /\ Len(table) \in Nat /\ Len(table') = n
      /\ \A x : Mirror!Mirrored(x)' <=> Mirror!Mirrored(x)
      /\ table'[n] = e /\ \A r \in 1 .. Len(table) : table'[r] = table[r]
  BY <1>1, <1>2, <1>3, RowAdded DEF MirrorTypes
<1>5. \A q \in Sides : step'[q] # "check" => step[q] # "check"
  BY <1>1, <1>2 DEF MirrorTypes
<1>6. OneSideAtATime'
  BY <1>1, <1>2, <1>4, <1>5 DEF OneSideAtATime, Mirror!Current
<1>7. RowsCost'
  <2> SUFFICES ASSUME ~periodic
               PROVE  Cardinality(SecondRows') + Cardinality(LooseIds') <= mirrorFaults
    BY <1>1 DEF RowsCost
  <2>1. /\ Cardinality(SecondRows) + Cardinality(LooseIds) <= mirrorFaults
        /\ IsFiniteSet(SecondRows) /\ Cardinality(SecondRows) \in Nat
        /\ IsFiniteSet(LooseIds) /\ Cardinality(LooseIds) \in Nat /\ mirrorFaults \in Nat
    BY <1>2, CostFacts DEF RowsCost
  <2>2. ~Mirror!Mirrored(e) /\ \A q \in Sides : step[q] # "check" => q = p
    <3>1. step[p] # "check"
      BY <1>1
    <3> QED
      BY <1>2, <3>1, OneActive DEF OneSideAtATime, e
  <2>3. DOMAIN table = 1 .. Len(table) /\ DOMAIN table' = 1 .. Len(table')
    BY <1>4
  <2>d. /\ DOMAIN table' = DOMAIN table \cup {n} /\ n \notin DOMAIN table
    BY <1>4, <2>3
  <2>4. LooseIds' \subseteq LooseIds \ {e}
    <3> SUFFICES ASSUME NEW x \in LooseIds' PROVE x \in LooseIds /\ x # e
      OBVIOUS
    <3>1. /\ ~Mirror!Mirrored(x) /\ x # e
          /\ x \in {table'[r] : r \in DOMAIN table'}
      <4>1. /\ ~Mirror!Mirrored(x)' /\ x \in {table'[r] : r \in DOMAIN table'}
            /\ step'[p] = "record" => copy'[p][Head(todo'[p])].ev # x
        BY DEF LooseIds, Mirror!Current
      <4>2. step'[p] = "record"
        BY <1>1, <1>2 DEF MirrorTypes
      <4> QED
        BY <1>1, <1>4, <4>1, <4>2 DEF e, Mirror!Current
    <3>2. PICK r \in DOMAIN table' : x = table'[r]
      BY <3>1
    <3>3. r \in DOMAIN table /\ x = table[r]
      BY <1>4, <2>3, <2>d, <3>1, <3>2
    <3>4. \A q \in Sides : step[q] # "record"
      BY <1>1, <2>2
    <3> QED
      BY <3>1, <3>3, <3>4 DEF LooseIds
  <2>5. \A r \in DOMAIN table : \A q \in 1 .. r - 1 : q \in DOMAIN table
    BY <1>4, <2>3
  <2>6. SecondRows' \subseteq SecondRows \cup {n}
    <3> SUFFICES ASSUME NEW r \in SecondRows', r # n PROVE r \in SecondRows
      OBVIOUS
    <3>1. r \in DOMAIN table /\ \E q \in 1 .. r - 1 : table'[q] = table'[r]
      BY <2>d DEF SecondRows
    <3> QED
      BY <1>4, <2>3, <2>5, <3>1 DEF SecondRows
  <2>7. CASE e \in LooseIds
    <3>1. /\ IsFiniteSet(LooseIds \ {e}) /\ Cardinality(LooseIds \ {e}) = Cardinality(LooseIds) - 1
      BY <2>1, <2>7, FS_RemoveElement
    <3>2. /\ Cardinality(LooseIds') <= Cardinality(LooseIds) - 1 /\ Cardinality(LooseIds') \in Nat
      BY <2>4, <3>1, FS_Subset, FS_CardinalityType
    <3>3. /\ IsFiniteSet(SecondRows \cup {n})
          /\ \/ Cardinality(SecondRows \cup {n}) = Cardinality(SecondRows)
             \/ Cardinality(SecondRows \cup {n}) = Cardinality(SecondRows) + 1
      BY <2>1, FS_AddElement
    <3>4. /\ Cardinality(SecondRows') <= Cardinality(SecondRows \cup {n})
          /\ Cardinality(SecondRows') \in Nat
      BY <2>6, <3>3, FS_Subset, FS_CardinalityType
    <3>5. Cardinality(SecondRows') <= Cardinality(SecondRows) + 1
      BY <2>1, <3>3, <3>4
    <3> QED
      BY <2>1, <3>2, <3>4, <3>5
  <2>8. CASE e \notin LooseIds
    <3>1. e \notin {table[r] : r \in DOMAIN table}
      <4>1. \A q \in Sides : step[q] # "record"
        BY <1>1, <2>2
      <4> QED
        BY <2>2, <2>8, <4>1 DEF LooseIds
    <3>2. n \notin SecondRows'
      <4> SUFFICES ASSUME NEW q \in 1 .. n - 1, table'[q] = table'[n] PROVE FALSE
        BY DEF SecondRows
      <4>1. q \in DOMAIN table /\ table'[q] = table[q]
        BY <1>4, <2>3
      <4> QED
        BY <1>4, <3>1, <4>1
    <3>3. SecondRows' \subseteq SecondRows /\ LooseIds' \subseteq LooseIds
      BY <2>4, <2>6, <3>2
    <3>4. /\ Cardinality(SecondRows') <= Cardinality(SecondRows)
          /\ Cardinality(LooseIds') <= Cardinality(LooseIds)
          /\ Cardinality(SecondRows') \in Nat /\ Cardinality(LooseIds') \in Nat
      BY <2>1, <3>3, FS_Subset, FS_CardinalityType
    <3> QED
      BY <2>1, <3>4
  <2> QED
    BY <2>7, <2>8
<1> QED
  BY <1>6, <1>7 DEF CostIInv

\* A mirror recorded for an id keeps it from being loose.
LEMMA RecordCosts ==
  ASSUME CopiesIInv, CostIInv, NEW p \in Sides, Mirror!RecordMirror(p)
  PROVE  CostIInv'
<1>1. /\ step[p] = "record" /\ step' = [step EXCEPT ![p] = "check"]
      /\ UNCHANGED <<table, saving, sweep, copy, mirrorFaults, periodic>>
      /\ todo' = [todo EXCEPT ![p] = Tail(@)]
  BY DEF Mirror!RecordMirror, Mirror!control
<1>2. MirrorTypes /\ OneSideAtATime /\ RowsCost
  BY DEF CopiesIInv, CostIInv
<1>3. \A x : Mirror!Mirrored(x)' <=> Mirror!Mirrored(x) \/ x = Mirror!Current(p).ev
  BY MirrorRecorded
<1>4. /\ step'[p] = "check"
      /\ \A q \in Sides : q # p => step'[q] = step[q] /\ todo'[q] = todo[q]
  BY <1>1, <1>2 DEF MirrorTypes
<1>5. OneSideAtATime'
  <2> SUFFICES ASSUME ~periodic
               PROVE  /\ sweep = "mirroring" => saving = "down"
                      /\ \A q \in Sides : step'[q] = "check"
    BY <1>1 DEF OneSideAtATime
  <2>1. step[p] # "check"
    BY <1>1
  <2> QED
    BY <1>2, <1>4, <2>1, OneActive DEF OneSideAtATime
<1>6. RowsCost'
  <2> SUFFICES ASSUME ~periodic
               PROVE  Cardinality(SecondRows') + Cardinality(LooseIds') <= mirrorFaults
    BY <1>1 DEF RowsCost
  <2>1. /\ Cardinality(SecondRows) + Cardinality(LooseIds) <= mirrorFaults
        /\ Cardinality(SecondRows) \in Nat
        /\ IsFiniteSet(LooseIds) /\ Cardinality(LooseIds) \in Nat /\ mirrorFaults \in Nat
    BY <1>2, CostFacts DEF RowsCost
  <2>2. SecondRows' = SecondRows
    BY <1>1 DEF SecondRows
  <2>3. LooseIds' \subseteq LooseIds
    <3> SUFFICES ASSUME NEW x \in LooseIds' PROVE x \in LooseIds
      OBVIOUS
    <3>1. /\ ~Mirror!Mirrored(x)' /\ x \in {table[r] : r \in DOMAIN table}
          /\ \A q \in Sides : step'[q] = "record" => copy'[q][Head(todo'[q])].ev # x
      BY <1>1 DEF LooseIds, Mirror!Current
    <3>2. ~Mirror!Mirrored(x) /\ x # Mirror!Current(p).ev
      BY <1>3, <3>1
    <3>3. \A q \in Sides : step[q] = "record" => Mirror!Current(q).ev # x
      BY <1>1, <1>4, <3>1, <3>2 DEF Mirror!Current
    <3> QED
      BY <3>1, <3>2, <3>3 DEF LooseIds
  <2>4. Cardinality(LooseIds') <= Cardinality(LooseIds) /\ Cardinality(LooseIds') \in Nat
    BY <2>1, <2>3, FS_Subset, FS_CardinalityType
  <2> QED
    BY <2>1, <2>2, <2>4
<1> QED
  BY <1>5, <1>6 DEF CostIInv

\* The turn's own steps.
LEMMA TurnCosts ==
  ASSUME CopiesIInv, CostIInv, todo["turn"] = << >>, saving # "down", saving' # "down",
         UNCHANGED <<table, mirrors, sweep, step, mirrorFaults, periodic>>,
         copy'["rec"] = copy["rec"], todo'["rec"] = todo["rec"]
  PROVE  CostIInv'
<1>1. MirrorTypes /\ OneSideAtATime /\ RowsCost
  BY DEF CopiesIInv, CostIInv
<1>2. step["turn"] = "check"
  BY SideFacts DEF CopiesIInv, WithinMirror
<1>3. \A p \in Sides : step[p] # "check" => copy'[p] = copy[p] /\ todo'[p] = todo[p]
  BY <1>2, SideFacts
<1>4. OneSideAtATime'
  <2>1. ~periodic /\ sweep' = "mirroring" => saving' = "down"
    BY <1>1 DEF OneSideAtATime
  <2> QED
    BY <1>1, <1>3, <2>1, SidesKept
<1>5. RowsCost'
  <2>1. mirrorFaults' \in Nat /\ mirrorFaults <= mirrorFaults'
    BY <1>1 DEF MirrorTypes
  <2> QED
    BY <1>1, <1>3, <2>1, CostKept
<1> QED
  BY <1>4, <1>5 DEF CostIInv

\* Each of them.
LEMMA TurnStepCosts ==
  ASSUME CopiesIInv, CostIInv,
         \/ \E k \in Nat : Mirror!UserMessage(k)
         \/ \E bare \in BOOLEAN : Mirror!ProviderAnswers(bare)
         \/ Mirror!TurnRaises
         \/ Mirror!TurnEnds
  PROVE  CostIInv'
<1>1. copy \in [Sides -> Seq(Copy)] /\ todo \in [Sides -> Seq(Nat)] /\ TurnMirrors
  BY DEF CopiesIInv, MirrorTypes
<1>2. ASSUME NEW k \in Nat, Mirror!UserMessage(k) PROVE CostIInv'
  <2>1. /\ saving = "idle" /\ saving' = "mirror_user"
        /\ UNCHANGED <<table, mirrors, sweep, step, mirrorFaults, periodic>>
        /\ copy' = [copy EXCEPT !["turn"] = copy'["turn"]]
        /\ todo' = [todo EXCEPT !["turn"] = todo'["turn"]]
    BY <1>1, <1>2, SideFacts DEF Mirror!UserMessage, Mirror!database
  <2>2. todo["turn"] = << >> /\ copy'["rec"] = copy["rec"] /\ todo'["rec"] = todo["rec"]
    BY <1>1, <2>1, SideFacts DEF TurnMirrors
  <2> QED
    BY <2>1, <2>2, TurnCosts
<1>3. ASSUME NEW bare \in BOOLEAN, Mirror!ProviderAnswers(bare) PROVE CostIInv'
  <2>1. /\ saving = "mirror_user" /\ saving' = "mirror_new" /\ todo["turn"] = << >>
        /\ UNCHANGED <<table, mirrors, sweep, step, mirrorFaults, periodic>>
        /\ copy' = [copy EXCEPT !["turn"] = copy'["turn"]]
        /\ todo' = [todo EXCEPT !["turn"] = todo'["turn"]]
    BY <1>1, <1>3, SideFacts DEF Mirror!ProviderAnswers, Mirror!Running, Mirror!database
  <2>2. copy'["rec"] = copy["rec"] /\ todo'["rec"] = todo["rec"]
    BY <1>1, <2>1, SideFacts
  <2> QED
    BY <2>1, <2>2, TurnCosts
<1>4. ASSUME NEW s, Mirror!SaveHistory(s), saving \in {"mirror_user", "mirror_new"},
             todo["turn"] = << >>
      PROVE  CostIInv'
  <2>1. /\ saving' = "idle" /\ copy' = [copy EXCEPT !["turn"] = s]
        /\ UNCHANGED <<table, mirrors, sweep, step, todo, mirrorFaults, periodic>>
    BY <1>4 DEF Mirror!SaveHistory, Mirror!database
  <2>2. copy'["rec"] = copy["rec"] /\ todo'["rec"] = todo["rec"]
    BY <1>1, <2>1, SideFacts
  <2> QED
    BY <1>4, <2>1, <2>2, TurnCosts
<1>5. CASE Mirror!TurnRaises
  <2>1. /\ saving \in {"mirror_user", "mirror_new"} /\ todo["turn"] = << >>
        /\ Mirror!SaveHistory(Mirror!RolledBack)
    BY <1>5 DEF Mirror!TurnRaises
  <2> QED
    BY <1>4, <2>1
<1>6. CASE Mirror!TurnEnds
  <2>1. /\ saving \in {"mirror_user", "mirror_new"} /\ todo["turn"] = << >>
        /\ \/ Mirror!SaveHistory(Mirror!History)
           \/ Mirror!SaveHistory(Append(Mirror!History, Mirror!Msg(made + 1, 0)))
    BY <1>6 DEF Mirror!TurnEnds
  <2> QED
    BY <1>4, <2>1
<1> QED
  BY <1>2, <1>3, <1>5, <1>6

\* Faults, and the beginning and end of a pass.
LEMMA OtherCosts ==
  ASSUME CopiesIInv, CostIInv,
         \/ Mirror!LiveMirrorRaises
         \/ Mirror!StartPass \/ Mirror!Restart
         \/ Mirror!EndPass \/ Mirror!PassRaises
         \/ Mirror!Crash
  PROVE  CostIInv'
<1>1. /\ MirrorTypes /\ OneSideAtATime /\ RowsCost
      /\ copy \in [Sides -> Seq(Copy)] /\ todo \in [Sides -> Seq(Nat)] /\ mirrorFaults \in Nat
      /\ step \in [Sides -> {"check", "insert", "record"}]
  BY DEF CopiesIInv, MirrorTypes, CostIInv
<1>2. mirrorFaults + 1 \in Nat /\ mirrorFaults <= mirrorFaults + 1 /\ mirrorFaults <= mirrorFaults
  BY <1>1
<1>3. CASE Mirror!LiveMirrorRaises
  <2>1. /\ UNCHANGED <<table, mirrors, periodic, saving, sweep, copy>>
        /\ mirrorFaults' = mirrorFaults + 1
        /\ step'["turn"] = "check" /\ step'["rec"] = step["rec"] /\ todo'["rec"] = todo["rec"]
    BY <1>1, <1>3, SideFacts DEF Mirror!LiveMirrorRaises, Mirror!Raise, Mirror!control,
       Mirror!database
  <2>2. OneSideAtATime'
    <3>1. \A p \in Sides : step'[p] # "check" =>
            step[p] # "check" /\ copy'[p] = copy[p] /\ todo'[p] = todo[p]
      BY <2>1, SideFacts
    <3>2. ~periodic /\ sweep' = "mirroring" => saving' = "down"
      BY <1>1, <2>1 DEF OneSideAtATime
    <3> QED
      BY <1>1, <2>1, <3>1, <3>2, SidesKept
  <2>3. RowsCost'
    <3> DEFINE x == Mirror!Current("turn").ev
    <3>1. \A p \in Sides : step[p] = "record" =>
            \/ step'[p] = "record" /\ copy'[p] = copy[p] /\ todo'[p] = todo[p]
            \/ mirrorFaults' = mirrorFaults + 1 /\ Mirror!Current(p).ev = x
      BY <2>1, SideFacts
    <3> HIDE DEF x
    <3> QED
      BY <1>1, <1>2, <2>1, <3>1, CostKept
  <2> QED
    BY <2>2, <2>3 DEF CostIInv
<1>4. CASE Mirror!StartPass \/ Mirror!Restart
  <2>1. /\ UNCHANGED <<table, mirrors, periodic, saving, step, mirrorFaults>>
        /\ sweep = "idle" /\ (periodic \/ saving = "down")
        /\ copy'["turn"] = copy["turn"] /\ todo'["turn"] = todo["turn"]
    BY <1>1, <1>4, SideFacts DEF Mirror!StartPass, Mirror!Restart, Mirror!LoadFile, Mirror!Down,
       Mirror!database
  <2>2. step["rec"] = "check"
    BY <2>1, PassIdle
  <2>3. \A p \in Sides : step[p] # "check" => copy'[p] = copy[p] /\ todo'[p] = todo[p]
    BY <2>1, <2>2, SideFacts
  <2>4. ~periodic /\ sweep' = "mirroring" => saving' = "down"
    BY <2>1
  <2>5. OneSideAtATime'
    BY <1>1, <2>1, <2>3, <2>4, SidesKept
  <2>6. RowsCost'
    BY <1>1, <1>2, <2>1, <2>3, CostKept
  <2> QED
    BY <2>5, <2>6 DEF CostIInv
<1>5. CASE Mirror!EndPass \/ Mirror!PassRaises
  <2>1. /\ UNCHANGED <<table, mirrors, periodic>> /\ sweep' = "idle"
        /\ saving # "down" => copy'["turn"] = copy["turn"]
        /\ todo'["turn"] = todo["turn"] /\ step'["turn"] = step["turn"]
        /\ \/ mirrorFaults' = mirrorFaults + 1 /\ step'["rec"] = "check"
           \/ mirrorFaults' = mirrorFaults /\ todo["rec"] = << >> /\ step' = step
    <3>1. CASE Mirror!EndPass
      BY <1>1, <3>1, SideFacts DEF Mirror!EndPass, Mirror!PassOver, Mirror!database
    <3>2. CASE Mirror!PassRaises
      BY <1>1, <3>2, SideFacts DEF Mirror!PassRaises, Mirror!PassOver, Mirror!Raise,
         Mirror!database
    <3> QED
      BY <1>5, <3>1, <3>2
  <2>2. step'["rec"] = "check" /\ (todo["rec"] = << >> => step["rec"] = "check")
    <3>1. todo["rec"] = << >> => step["rec"] = "check"
      BY SideFacts DEF CopiesIInv, WithinMirror
    <3> QED
      BY <2>1, <3>1
  <2>3. step["turn"] # "check" => saving # "down"
    BY SideFacts DEF CopiesIInv, WithinMirror, TurnMirrors
  <2>4. \A p \in Sides : step'[p] # "check" =>
          step[p] # "check" /\ copy'[p] = copy[p] /\ todo'[p] = todo[p]
    BY <2>1, <2>2, <2>3, SideFacts
  <2>5. OneSideAtATime'
    <3>1. sweep' # "mirroring"
      BY <2>1
    <3> QED
      BY <1>1, <2>1, <2>4, <3>1, SidesKept
  <2>6. RowsCost'
    <3> DEFINE x == Mirror!Current("rec").ev
    <3>1. \A p \in Sides : step[p] = "record" =>
            \/ step'[p] = "record" /\ copy'[p] = copy[p] /\ todo'[p] = todo[p]
            \/ mirrorFaults' = mirrorFaults + 1 /\ Mirror!Current(p).ev = x
      BY <2>1, <2>2, <2>3, SideFacts
    <3>f. mirrorFaults' \in {mirrorFaults, mirrorFaults + 1}
      BY <2>1
    <3>2. mirrorFaults' \in Nat /\ mirrorFaults <= mirrorFaults'
      BY ONLY <1>1, <1>2, <3>f
    <3> HIDE DEF x
    <3> QED
      BY <1>1, <2>1, <3>1, <3>2, CostKept
  <2> QED
    BY <2>5, <2>6 DEF CostIInv
<1>6. CASE Mirror!Crash
  <2>1. /\ UNCHANGED <<table, mirrors, periodic>> /\ sweep' = "idle"
        /\ mirrorFaults' = mirrorFaults + 1 /\ \A p \in Sides : step'[p] = "check"
    BY <1>6, SideFacts DEF Mirror!Crash, Mirror!Raise, Mirror!database, Mirror!Threads
  <2>2. OneSideAtATime'
    BY <2>1 DEF OneSideAtATime
  <2>3. CASE periodic
    BY <2>1, <2>2, <2>3 DEF RowsCost, CostIInv
  <2>4. CASE ~periodic
    <3>1. PICK x : \A p \in Sides : step[p] = "record" => Mirror!Current(p).ev = x
      <4>1. CASE \E q \in Sides : step[q] # "check"
        <5>1. PICK q \in Sides : step[q] # "check"
          BY <4>1
        <5>2. \A p \in Sides : step[p] = "record" => p = q
          BY <1>1, <2>4, <5>1, OneActive
        <5> QED
          BY <5>2
      <4>2. CASE ~(\E q \in Sides : step[q] # "check")
        BY <4>2
      <4> QED
        BY <4>1, <4>2
    <3>2. RowsCost'
      BY <1>1, <1>2, <2>1, <3>1, CostKept
    <3> QED
      BY <2>2, <3>2 DEF CostIInv
  <2> QED
    BY <2>3, <2>4
<1> QED
  BY <1>3, <1>4, <1>5, <1>6

\* Every step pays for what it costs.
LEMMA CostStep ==
  ASSUME Mirror!MirrorAssumption, CopiesIInv, CostIInv, Mirror!Next
  PROVE  CostIInv'
<1>1. ASSUME NEW p \in Sides, Mirror!MirrorMessage(p) PROVE CostIInv'
  BY <1>1, CheckCosts, AddCosts, RecordCosts DEF Mirror!MirrorMessage
<1>2. ASSUME NEW k \in 0 .. MaxMessages, Mirror!UserMessage(k) PROVE CostIInv'
  BY <1>2, TurnStepCosts DEF Mirror!MirrorAssumption
<1>3. CASE Mirror!Turn
  BY <1>1, <1>3, TurnStepCosts, SideFacts DEF Mirror!Turn
<1>4. CASE Mirror!Reconciler
  BY <1>1, <1>4, OtherCosts, SideFacts DEF Mirror!Reconciler
<1> QED
  BY <1>2, <1>3, <1>4, OtherCosts, TurnStepCosts DEF Mirror!Next

\* Nothing has been mirrored.
LEMMA CostInit == Mirror!MirrorAssumption /\ Mirror!Init => CostIInv
<1> SUFFICES ASSUME Mirror!MirrorAssumption, Mirror!Init PROVE CostIInv
  OBVIOUS
<1>1. /\ table = << >> /\ mirrorFaults = 0 /\ sweep = "idle"
      /\ step = [p \in Sides |-> "check"]
  BY DEF Mirror!Init, Sides
<1>2. SecondRows = {} /\ LooseIds = {}
  <2>1. DOMAIN table = {}
    BY <1>1
  <2> QED
    BY <2>1 DEF SecondRows, LooseIds
<1>3. RowsCost
  BY <1>1, <1>2, FS_EmptySet DEF RowsCost
<1>4. OneSideAtATime
  BY <1>1 DEF OneSideAtATime
<1> QED
  BY <1>3, <1>4 DEF CostIInv

\* A step of the program is one of the mirror or leaves it alone.
LEMMA MirrorStep ==
  ASSUME [MCNext]_mcVars
  PROVE  Mirror!Next \/ (UNCHANGED mirrorVars /\ UNCHANGED Mirror!vars)
<1>1. CASE Mirror!Next
  BY <1>1
<1>2. CASE UNCHANGED mirrorVars
  BY <1>2 DEF mirrorVars, Mirror!vars, Mirror!database, Mirror!control, Mirror!mirroring
<1> QED
  BY <1>1, <1>2 DEF MCNext, mcVars

\* Both hold in every reachable state.
LEMMA MirrorInvariant == MCSpec => [](CopiesIInv /\ CostIInv)
<1>1. MCInit => CopiesIInv /\ CostIInv
  BY Assumptions, CopiesInit, CostInit DEF MCInit
<1>2. CopiesIInv /\ CostIInv /\ [MCNext]_mcVars => (CopiesIInv /\ CostIInv)'
  <2> SUFFICES ASSUME CopiesIInv, CostIInv, [MCNext]_mcVars PROVE CopiesIInv' /\ CostIInv'
    OBVIOUS
  <2>1. CASE Mirror!Next
    BY <2>1, Assumptions, CopiesStep, CostStep
  <2>2. CASE UNCHANGED mirrorVars
    <3>1. CostIInv'
      BY <2>2
      DEF CostIInv, OneSideAtATime, RowsCost, SecondRows, LooseIds, Mirror!Mirrored,
          Mirror!Current, mirrorVars
    <3> QED
      BY <2>2, <3>1, StutterKeeps
  <2> QED
    BY <2>1, <2>2, MirrorStep
<1> QED
  BY <1>1, <1>2, PTL DEF MCSpec

\* Two lists of which one knows the other's ids, in either order.
LEMMA KnownAgree ==
  ASSUME NEW s, NEW t, s \in Seq(Copy), t \in Seq(Copy), Knows(s, t) \/ Knows(t, s)
  PROVE  \A i \in DOMAIN s, j \in DOMAIN t :
           s[i].m = t[j].m /\ s[i].ev # 0 /\ t[j].ev # 0 => s[i].ev = t[j].ev
<1>1. DOMAIN s = 1 .. Len(s) /\ DOMAIN t = 1 .. Len(t)
  OBVIOUS
<1> QED
  BY <1>1 DEF Knows

\* The instance counts as this module does.
LEMMA MirrorCardinality == \A S : Mirror!Cardinality(S) = Cardinality(S)
  BY DEF Mirror!Cardinality, Cardinality

\* The only end of a startup that keeps the database is that of its pass.
LEMMA StartupEnds ==
  ASSUME Mirror!Next, saving = "down", saving' = "idle", db'
  PROVE  Mirror!EndPass
<1>1. ASSUME NEW p, Mirror!MirrorMessage(p) PROVE FALSE
  BY <1>1 DEF Mirror!MirrorMessage, Mirror!CheckMirrored, Mirror!AddMessage, Mirror!RecordMirror,
     Mirror!control
<1>2. ~Mirror!Turn /\ ~Mirror!TurnRaises /\ \A k : ~Mirror!UserMessage(k)
  BY <1>1 DEF Mirror!Turn, Mirror!ProviderAnswers, Mirror!Running, Mirror!TurnEnds,
     Mirror!TurnRaises, Mirror!UserMessage
<1>3. ~Mirror!StartPass /\ ~Mirror!Restart /\ ~Mirror!LiveMirrorRaises /\ ~Mirror!Crash
  BY DEF Mirror!StartPass, Mirror!Restart, Mirror!LiveMirrorRaises, Mirror!Crash, Mirror!control
<1>4. ~Mirror!PassRaises
  BY DEF Mirror!PassRaises
<1> QED
  BY <1>1, <1>2, <1>3, <1>4 DEF Mirror!Next, Mirror!Reconciler

\* However turns and passes interleave, whatever raises or crashes, no two copies of
\* a message disagree on its id (ensure_event_id, replay_jsonl, save); without the
\* timer each second row of an id cost a fault (mirror_message); and a startup that
\* keeps its database has mirrored every message of the file
\* (reconcile_all_sessions).  For any number of messages and faults.  That
\* everything is mirrored again and again is left to TLC.
THEOREM MirrorKept ==
  MCSpec => /\ [](Mirror!CopiesAgreeOnIds /\ Mirror!DuplicateRowsNeedFaults)
            /\ Mirror!StartupCompletesMirror
<1>1. CopiesIInv /\ CostIInv => Mirror!CopiesAgreeOnIds /\ Mirror!DuplicateRowsNeedFaults
  <2> SUFFICES ASSUME CopiesIInv, CostIInv
               PROVE  Mirror!CopiesAgreeOnIds /\ Mirror!DuplicateRowsNeedFaults
    OBVIOUS
  <2>1. Mirror!CopiesAgreeOnIds
    <3> SUFFICES ASSUME NEW s \in {jsonl, copy["turn"], copy["rec"]},
                        NEW t \in {jsonl, copy["turn"], copy["rec"]}
                 PROVE  \A i \in DOMAIN s, j \in DOMAIN t :
                          s[i].m = t[j].m /\ s[i].ev # 0 /\ t[j].ev # 0 => s[i].ev = t[j].ev
      BY DEF Mirror!CopiesAgreeOnIds
    <3>1. /\ Known(jsonl, made) /\ Known(copy["turn"], made) /\ Known(copy["rec"], made)
      BY SideFacts DEF CopiesIInv, MirrorTypes
    <3>2. \A x : Known(x, made) => Knows(x, x)
      BY DEF Known, Knows
    <3>3. Knows(s, t) \/ Knows(t, s)
      BY <3>1, <3>2 DEF CopiesIInv, IdsDescend
    <3>4. s \in Seq(Copy) /\ t \in Seq(Copy)
      BY <3>1 DEF Known
    <3> QED
      BY <3>3, <3>4, KnownAgree
  <2>2. Mirror!DuplicateRowsNeedFaults
    <3> SUFFICES ASSUME ~periodic PROVE Cardinality(SecondRows) <= mirrorFaults
      BY MirrorCardinality DEF Mirror!DuplicateRowsNeedFaults, SecondRows
    <3>1. Cardinality(SecondRows) + Cardinality(LooseIds) <= mirrorFaults
      BY DEF CostIInv, RowsCost
    <3> QED
      BY <3>1, CostFacts DEF CopiesIInv
  <2> QED
    BY <2>1, <2>2
<1>2. CopiesIInv /\ [MCNext]_mcVars =>
        [ saving = "down" /\ saving' = "idle" /\ db' =>
            \A i \in DOMAIN jsonl' : Mirror!Mirrored(jsonl'[i].ev) ]_(Mirror!vars)
  <2> SUFFICES ASSUME CopiesIInv, Mirror!Next, saving = "down", saving' = "idle", db'
               PROVE  \A i \in DOMAIN jsonl' : Mirror!Mirrored(jsonl'[i].ev)
    BY MirrorStep
  <2> DEFINE h == copy["rec"]
  <2>1. /\ sweep = "mirroring" /\ todo["rec"] = << >>
        /\ jsonl' = IF assigned THEN h ELSE jsonl
    BY StartupEnds DEF Mirror!EndPass, Mirror!PassOver
  <2>2. h \in Seq(Copy) /\ Len(h) \in Nat
    BY SideFacts, KnownHas DEF CopiesIInv, MirrorTypes
  <2>3. jsonl' = h
    BY <2>1 DEF CopiesIInv, PassMirrors
  <2>4. \A i \in 1 .. Len(h) : Mirror!Mirrored(h[i].ev)
    <3>1. Len(h) - Len(todo["rec"]) = Len(h)
      BY <2>1, <2>2
    <3> QED
      BY <3>1 DEF CopiesIInv, PassMirrors
  <2> QED
    BY <2>2, <2>3, <2>4
<1> QED
  BY <1>1, <1>2, MirrorInvariant, PTL DEF MCSpec, Mirror!StartupCompletesMirror
=============================================================================
