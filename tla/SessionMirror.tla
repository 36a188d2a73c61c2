---------------------------- MODULE SessionMirror ----------------------------
(***************************************************************************)
(* One session's transcript and its mirror in PostgreSQL: the turn of      *)
(* AgentSession._send_locked (agents/session.py), which keeps the history  *)
(* in memory, saves it as a JSONL file and mirrors it message by message;  *)
(* and the reconciler (SessionDB.reconcile_all_sessions, session/db.py),   *)
(* which loads the file, mirrors what is missing and may save it again. It *)
(* runs at startup and, if periodic, on a timer beside the turns.        *)
(*                                                                         *)
(* A message is a number, in the order messages are made; a copy of it in  *)
(* a list is [m |-> number, ev |-> event id], with 0 for no id yet. Event  *)
(* ids are numbers too (uuid4 in the code): events[e] is the message that  *)
(* id e was given to.                                                      *)
(***************************************************************************)
EXTENDS Naturals, Sequences, FiniteSets

CONSTANTS MaxMessages,  \* bound: messages ever made
          MaxFaults,    \* bound: statements that raise, and crashes
          Timers        \* whether the scheduler's timer fires in a behaviour
                        \*   (its interval is 1 to 60 minutes): a set of BOOLEANs

MirrorAssumption ==
    MaxMessages \in Nat /\ MaxFaults \in Nat /\ Timers \subseteq BOOLEAN

VARIABLES made,      \* messages made so far
          events,    \* event ids given so far
          file,      \* the session's JSONL file
          rows,      \* messages table: rows[id] is the event id it was inserted for
          mirrors,   \* message_mirrors: pairs <<event id, row id>>
          db,        \* this process has a database
          turn,      \* where the turn is
          rec,       \* where the reconciler is
          periodic,  \* the ReconciliationScheduler's timer fires
          snapshot,  \* snapshot_len: the length of the history with the user message
          assigned,  \* the pass gave some message of its copy an id
          copy,      \* a thread's own list of messages; the turn's is _history
          todo,      \* positions in that list it has still to mirror
          step,      \* where in mirror_message it is
          row,       \* id of the row it has just inserted
          faults

database == <<rows, mirrors>>
control  == <<db, turn, rec, snapshot, periodic>>
mirroring == <<events, copy, todo, step, row, assigned>>
vars == <<made, file, database, control, mirroring, faults>>

Threads == {"turn", "rec"}
Msg(m, e) == [m |-> m, ev |-> e]
History == copy["turn"]

Init == /\ made = 0 /\ events = <<>>
        /\ file = <<>> /\ rows = <<>> /\ mirrors = {}
        /\ db \in BOOLEAN /\ turn = "idle" /\ rec = "idle"
        /\ snapshot = 0 /\ assigned = FALSE /\ periodic \in Timers
        /\ copy = [p \in Threads |-> <<>>] /\ todo = [p \in Threads |-> <<>>]
        /\ step = [p \in Threads |-> "check"] /\ row = [p \in Threads |-> 0]
        /\ faults = 0

Raise == faults < MaxFaults /\ faults' = faults + 1
Positions(a, b) == [i \in 1..(b - a + 1) |-> a + i - 1]

------------------------------------------------------------------------------
(* mirror_message, one statement at a time, in either thread.              *)

Mirrored(e) == \E r \in 1..Len(rows) : <<e, r>> \in mirrors
Current(p) == copy[p][Head(todo[p])]

\* ensure_event_id, then is_mirrored.
CheckMirrored(p) ==
    LET i == Head(todo[p]) IN
    /\ todo[p] # <<>> /\ step[p] = "check"
    /\ IF Current(p).ev = 0
       THEN /\ events' = Append(events, Current(p).m)
            /\ copy' = [copy EXCEPT ![p][i].ev = Len(events')]
            /\ assigned' = (assigned \/ p = "rec")
       ELSE UNCHANGED <<events, copy, assigned>>
    /\ IF Mirrored(Current(p).ev)
       THEN todo' = [todo EXCEPT ![p] = Tail(@)] /\ UNCHANGED step
       ELSE step' = [step EXCEPT ![p] = "insert"] /\ UNCHANGED todo
    /\ UNCHANGED <<made, file, database, control, row, faults>>

AddMessage(p) ==
    /\ step[p] = "insert"
    /\ rows' = Append(rows, Current(p).ev)
    /\ row' = [row EXCEPT ![p] = Len(rows')]
    /\ step' = [step EXCEPT ![p] = "record"]
    /\ UNCHANGED <<made, file, mirrors, control, events, copy, todo, assigned, faults>>

\* ON CONFLICT (session_id, event_id) DO NOTHING
NewMirror(e, r) == IF Mirrored(e) THEN {} ELSE {<<e, r>>}
RecordMirror(p) ==
    /\ step[p] = "record"
    /\ mirrors' = mirrors \cup NewMirror(Current(p).ev, row[p])
    /\ todo' = [todo EXCEPT ![p] = Tail(@)]
    /\ step' = [step EXCEPT ![p] = "check"]
    /\ row' = [row EXCEPT ![p] = 0]
    /\ UNCHANGED <<made, file, rows, control, events, copy, assigned, faults>>

MirrorMessage(p) == CheckMirrored(p) \/ AddMessage(p) \/ RecordMirror(p)

------------------------------------------------------------------------------
(* The turn.                                                               *)

\* Compaction replaces the first k messages by a summary and its
\* acknowledgement, neither of which has an event id.
Compacted(h, k) ==
    IF k = 0 THEN h
    ELSE <<Msg(made + 2, 0), Msg(made + 3, 0)>> \o SubSeq(h, k + 1, Len(h))

UserId == IF db THEN Len(events) + 1 ELSE 0

\* The user message is appended, the history perhaps compacted, and saved.
UserMessage(k) ==
    LET said == Append(History, Msg(made + 1, UserId)) IN
    /\ turn = "idle" /\ k < Len(said)
    /\ made' = made + (IF k = 0 THEN 1 ELSE 3) /\ made' <= MaxMessages
    /\ events' = IF db THEN Append(events, made + 1) ELSE events
    /\ copy' = [copy EXCEPT !["turn"] = Compacted(said, k)]
    /\ file' = Compacted(said, k)
    /\ snapshot' = Len(file')
    /\ todo' = [todo EXCEPT !["turn"] = IF db THEN <<Len(file')>> ELSE <<>>]
    /\ turn' = "mirror_user"
    /\ UNCHANGED <<database, db, rec, periodic, step, row, assigned, faults>>

\* The provider is called once the user message is mirrored, or could not be.
Running == turn = "mirror_user" /\ todo["turn"] = <<>>

\* run_turn returns: an answer, perhaps after a round of tool calls. The
\* assistant message that only carries the calls (bare) is not mirrored.
ProviderAnswers(bare) ==
    LET new == IF bare THEN <<Msg(made + 1, 0), Msg(made + 2, 0)>> ELSE <<Msg(made + 1, 0)>>
        last == snapshot + Len(new) IN
    /\ Running /\ made' = made + Len(new) /\ made' <= MaxMessages
    /\ copy' = [copy EXCEPT !["turn"] = @ \o new]
    /\ todo' = [todo EXCEPT !["turn"] = IF db THEN <<last>> ELSE <<>>]
    /\ turn' = "mirror_new"
    /\ UNCHANGED <<file, database, db, rec, snapshot, periodic, events, step, row, assigned, faults>>

\* The message that takes the place of a turn that raised.
RolledBack == Append(SubSeq(History, 1, snapshot), Msg(made + 1, 0))

SaveHistory(h) ==
    /\ copy' = [copy EXCEPT !["turn"] = h]
    /\ file' = h
    /\ turn' = "idle" /\ snapshot' = 0
    /\ UNCHANGED <<database, db, rec, periodic, events, todo, step, row, assigned, faults>>

\* run_turn, or what follows it, raises.
TurnRaises ==
    /\ turn \in {"mirror_user", "mirror_new"} /\ todo["turn"] = <<>>
    /\ made' = made + 1 /\ made' <= MaxMessages
    /\ SaveHistory(RolledBack)

\* The verification message, if there is one, comes after the mirror loop.
TurnEnds ==
    /\ turn = "mirror_new" /\ todo["turn"] = <<>>
    /\ \/ UNCHANGED made /\ SaveHistory(History)
       \/ /\ made' = made + 1 /\ made' <= MaxMessages
          /\ SaveHistory(Append(History, Msg(made + 1, 0)))

\* A statement raises: the rest of the loop is abandoned, the turn goes on.
LiveMirrorRaises ==
    /\ todo["turn"] # <<>> /\ Raise
    /\ todo' = [todo EXCEPT !["turn"] = <<>>]
    /\ step' = [step EXCEPT !["turn"] = "check"]
    /\ row' = [row EXCEPT !["turn"] = 0]
    /\ UNCHANGED <<made, file, database, control, events, copy, assigned>>

Turn == (\E bare \in BOOLEAN : ProviderAnswers(bare)) \/ TurnEnds
          \/ MirrorMessage("turn")

------------------------------------------------------------------------------
(* The reconciler.                                                         *)

\* The old replay_jsonl: a session with any row at all was skipped.
LoadFileOnce ==
    /\ copy' = [copy EXCEPT !["rec"] = file]
    /\ todo' = [todo EXCEPT !["rec"] = IF rows = <<>> THEN Positions(1, Len(file)) ELSE <<>>]
    /\ rec' = "mirroring" /\ assigned' = FALSE
LoadFile ==
    /\ copy' = [copy EXCEPT !["rec"] = file]
    /\ todo' = [todo EXCEPT !["rec"] = Positions(1, Len(file))]
    /\ rec' = "mirroring" /\ assigned' = FALSE

StartPass ==
    /\ periodic /\ db /\ turn # "down" /\ rec = "idle" /\ file # <<>>
    /\ LoadFile
    /\ UNCHANGED <<made, file, database, db, turn, snapshot, periodic, events, step, row, faults>>

\* The list of messages goes away with the pass; at startup the history is
\* then loaded from the file and the first turn may come.
PassOver(f) ==
    /\ rec' = "idle" /\ assigned' = FALSE
    /\ turn' = IF turn = "down" THEN "idle" ELSE turn
    /\ copy' = [copy EXCEPT !["rec"] = <<>>, !["turn"] = IF turn = "down" THEN f ELSE @]
    /\ file' = f

\* The file is saved only if some message got an id.
EndPass ==
    /\ rec = "mirroring" /\ todo["rec"] = <<>>
    /\ PassOver(IF assigned THEN copy["rec"] ELSE file)
    /\ UNCHANGED <<made, database, db, snapshot, periodic, events, todo, step, row, faults>>

\* A statement raises out of the pass, ids and all; at startup the process
\* goes on without a database.
PassRaises ==
    /\ rec = "mirroring" /\ Raise
    /\ PassOver(file)
    /\ db' = (turn # "down")
    /\ todo' = [todo EXCEPT !["rec"] = <<>>]
    /\ step' = [step EXCEPT !["rec"] = "check"]
    /\ row' = [row EXCEPT !["rec"] = 0]
    /\ UNCHANGED <<made, database, snapshot, periodic, events>>

Reconciler == StartPass \/ EndPass \/ MirrorMessage("rec")

------------------------------------------------------------------------------
(* Crashes and restarts.                                                   *)

Down == turn = "down" /\ rec = "idle"

Crash ==
    /\ ~Down /\ Raise
    /\ turn' = "down" /\ rec' = "idle"
    /\ copy' = [p \in Threads |-> <<>>] /\ todo' = [p \in Threads |-> <<>>]
    /\ step' = [p \in Threads |-> "check"] /\ row' = [p \in Threads |-> 0]
    /\ snapshot' = 0 /\ assigned' = FALSE
    /\ UNCHANGED <<made, file, database, db, periodic, events>>

\* minion.py reconciles before anything else runs.
Restart ==
    /\ Down /\ LoadFile
    /\ db' = TRUE
    /\ UNCHANGED <<made, file, database, turn, snapshot, periodic, events, step, row, faults>>

Next == \/ \E k \in 0..MaxMessages : UserMessage(k)
        \/ Turn \/ TurnRaises \/ Reconciler \/ Restart
        \/ LiveMirrorRaises \/ PassRaises \/ Crash

Spec == Init /\ [][Next]_vars

(* The timer keeps firing, a crashed program is started again.              *)
FairSpec == Spec /\ WF_vars(Reconciler) /\ WF_vars(Restart)

------------------------------------------------------------------------------
Messages == 1..MaxMessages
TypeOK ==
    /\ made \in 0..MaxMessages /\ faults \in 0..MaxFaults
    /\ events \in Seq(Messages)
    /\ LET Copies == Seq([m : Messages, ev : 0..Len(events)])
       IN  file \in Copies /\ copy \in [Threads -> Copies]
    /\ rows \in Seq(1..Len(events))
    /\ mirrors \subseteq (1..Len(events)) \X (1..Len(rows))
    /\ db \in BOOLEAN /\ periodic \in Timers /\ assigned \in BOOLEAN
    /\ turn \in {"idle", "mirror_user", "mirror_new", "down"}
    /\ rec \in {"idle", "mirroring"}
    /\ snapshot \in Nat /\ row \in [Threads -> 0..Len(rows)]
    /\ todo \in [Threads -> Seq(Nat)]
    /\ step \in [Threads -> {"check", "insert", "record"}]

InFile(m) == \E i \in DOMAIN file : file[i].m = m
HasRow(m) == \E r \in DOMAIN rows : events[rows[r]] = m
UserNumber == History[snapshot].m

(* Whatever is saved, loaded or overwritten in whatever order, two copies   *)
(* of a message that both have an id have the same one: no copy of it will  *)
(* ever be mirrored under a second id while the first is still in use.      *)
CopiesAgreeOnIds ==
    LET Copies == {file, copy["turn"], copy["rec"]} IN
    \A s, t \in Copies : \A i \in DOMAIN s, j \in DOMAIN t :
        s[i].m = t[j].m /\ s[i].ev # 0 /\ t[j].ev # 0 => s[i].ev = t[j].ev

(* A second row for an event id is the price of a fault: a crash or a       *)
(* raised statement between a row and its message_mirrors entry, as long as *)
(* passes do not overlap turns, which may both find a message unmirrored.   *)
DuplicateRowsNeedFaults == ~periodic =>
    Cardinality({r \in DOMAIN rows : \E q \in 1..(r - 1) : rows[q] = rows[r]}) <= faults

(* After a startup that kept its database every message of the transcript   *)
(* has its message_mirrors entry: "a partial mirror from any prior crash is *)
(* always completed rather than left behind" (session/db.py).               *)
StartupCompletesMirror ==
    [][turn = "down" /\ turn' = "idle" /\ db' =>
         \A i \in DOMAIN file' : Mirrored(file'[i].ev)]_vars

(* Whatever fails, crashes or restarts, while the timer fires there comes a *)
(* time again and again when everything in the file is mirrored, unless the *)
(* process lost its database at startup (MEM-GAP-007).                      *)
EventuallyMirrored ==
    []<>(periodic /\ db => \A i \in DOMAIN file : HasRow(file[i].m))

------------------------------------------------------------------------------
(* What the sources say and the code does not do.                           *)

(* "Persist the user message now -- safe on disk even if the provider       *)
(* crashes" (agents/session.py): once saved, it survives a crash.           *)
UserMessageSurvivesCrash ==
    [][Crash /\ turn = "mirror_user" => InFile(UserNumber)]_vars
==============================================================================
