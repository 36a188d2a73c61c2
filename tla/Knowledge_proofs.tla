------------------------- MODULE Knowledge_proofs --------------------------
(***************************************************************************)
(* Theorems about the gate before the tools, for any agents, commands and  *)
(* length of the audit log; about the migration of the notes, for any      *)
(* notes and runs; about the claims, for any pages, sources and markers:   *)
(* what was forgotten is forgotten, and no doubt is hidden; and about a    *)
(* search, for any pages, kinds and size of the answer.                    *)
(***************************************************************************)
EXTENDS MCKnowledge, FiniteSetTheorems, WellFoundedInduction, TLAPS

(* The gate. *)

Decisions == {"allowed", "denied"}
Entries == [what : Commands \cup {"write", "edit", "commit", "patch"}, decision : Decisions]

CommandCalls == [tool : {"bash"}, at : {"check", "ask", "allowed", "run"}, command : Commands]
FileCalls == [tool : {"write", "edit", "commit", "patch"},
              at : {"check", "read", "put", "confirm", "commit"}, seen : SUBSET Agents]

Calls == {Idle} \cup CommandCalls \cup FileCalls

TypeOK ==
  /\ plan \subseteq Agents
  /\ allowed \in [Agents -> SUBSET Commands] /\ denied \in [Agents -> SUBSET Commands]
  /\ audit \in [Agents -> Seq(Entries)]
  /\ call \in [Agents -> Calls]
  /\ file \subseteq Agents
  /\ standing \in [Agents -> [Commands -> {"nothing", "session", "never"}]]
  /\ asked \subseteq Agents /\ overtaken \subseteq Agents

\* The session's sets hold exactly what the user said for the session.
SetsAreAnswers == \A a \in Agents, c \in Commands :
  /\ c \in allowed[a] <=> standing[a][c] = "session"
  /\ c \in denied[a] <=> standing[a][c] = "never"

\* Past each stage of the gate, what the stage looked for is so.
PastCheck == \A a \in Agents :
  call[a].tool = "bash" /\ call[a].at # "check" => call[a].command \notin Blocked

PastPrompt == \A a \in Agents :
  call[a].tool = "bash" /\ call[a].at \in {"allowed", "run"} =>
    /\ call[a].command \notin denied[a]
    /\ a \in Asking => a \in asked \/ call[a].command \in allowed[a]

PastRecord == \A a \in Agents :
  call[a].tool = "bash" /\ call[a].at = "run" =>
    Last(audit[a]) = Entry(call[a].command, "allowed")

\* An edit about to write read what is still there, or was overtaken.
ReadIsCurrent == \A a \in Agents :
  call[a].tool = "edit" /\ call[a].at = "put" => file \subseteq call[a].seen \/ a \in overtaken

IInv == TypeOK /\ SetsAreAnswers /\ PastCheck /\ PastPrompt /\ PastRecord /\ ReadIsCurrent

\* The newest entry is the last, at the limit too.
LEMMA RecordedLast ==
  ASSUME NEW log \in Seq(Entries), NEW e \in Entries
  PROVE  Recorded(log, e) \in Seq(Entries) /\ Last(Recorded(log, e)) = e
<1>1. CASE Len(log) >= MaxAudit
  <2>1. Tail(log) \in Seq(Entries) /\ Recorded(log, e) = Tail(log) \o <<e>>
    BY <1>1, GateAssumption DEF Recorded
  <2> QED
    BY <2>1 DEF Last
<1>2. CASE ~(Len(log) >= MaxAudit)
  BY <1>2 DEF Recorded, Last
<1> QED
  BY <1>1, <1>2

\* The tool tells which kind of call it is.
LEMMA CallKinds ==
  /\ Idle \in Calls /\ Idle.tool = "none" /\ Idle.at = "idle"
  /\ \A r \in Calls : r.tool = "bash" => r \in CommandCalls /\ r.command \in Commands
  /\ \A r \in Calls : /\ r.tool \in {"write", "edit", "commit", "patch"} => r \in FileCalls
                      /\ r.at \in {"read", "put", "confirm", "commit"} => r \in FileCalls
                      /\ r.at \in {"ask", "allowed", "run"} => r \in CommandCalls
  /\ \A r \in FileCalls : r.tool # "bash" /\ r.seen \subseteq Agents
  /\ \A r \in CommandCalls : r.tool = "bash"
  /\ \A c \in Commands : /\ Bash(c) \in Calls /\ Bash(c).tool = "bash" /\ Bash(c).at = "check"
  /\ \A t \in {"write", "edit", "commit", "patch"} :
       Tool(t) \in Calls /\ Tool(t).tool = t /\ Tool(t).at = "check"
  BY DEF Calls, CommandCalls, FileCalls, Idle, Bash, Tool

\* What Goto leaves of a call.
LEMMA CommandGoesTo ==
  ASSUME NEW r \in CommandCalls, NEW x \in {"check", "ask", "allowed", "run"}
  PROVE  /\ [r EXCEPT !.at = x] \in Calls
         /\ [r EXCEPT !.at = x].tool = "bash"
         /\ [r EXCEPT !.at = x].at = x
         /\ [r EXCEPT !.at = x].command = r.command
  BY DEF Calls, CommandCalls

\* A call on a file goes from one stage to another.
LEMMA FileGoesTo ==
  ASSUME NEW r \in FileCalls, NEW x \in {"check", "read", "put", "confirm", "commit"}
  PROVE  /\ [r EXCEPT !.at = x] \in Calls
         /\ [r EXCEPT !.at = x].tool = r.tool
         /\ [r EXCEPT !.at = x].at = x
  BY DEF Calls, FileCalls

\* A call on a file takes what it read to its write.
LEMMA FileIsRead ==
  ASSUME NEW r \in FileCalls, NEW S \in SUBSET Agents
  PROVE  /\ [r EXCEPT !.at = "put", !.seen = S] \in Calls
         /\ [r EXCEPT !.at = "put", !.seen = S].tool = r.tool
         /\ [r EXCEPT !.at = "put", !.seen = S].seen = S
  BY DEF Calls, FileCalls

\* A command that goes on is still a well-typed call.
LEMMA GotoKeepsCalls ==
  ASSUME TypeOK, NEW a \in Agents, call[a] \in CommandCalls,
         NEW x \in {"ask", "allowed", "run"}, Goto(a, x)
  PROVE  call' \in [Agents -> Calls]
<1>1. [call[a] EXCEPT !.at = x] \in Calls
  BY CommandGoesTo
<1>2. call' = [call EXCEPT ![a] = [call[a] EXCEPT !.at = x]]
  BY DEF Goto, TypeOK
<1> QED
  BY <1>1, <1>2 DEF TypeOK

\* What an entry leaves of the logs.
LEMMA RecordKeeps ==
  ASSUME TypeOK, NEW a \in Agents, NEW e \in Entries, Record(a, e)
  PROVE  /\ audit' \in [Agents -> Seq(Entries)]
         /\ Last(audit'[a]) = e
         /\ \A b \in Agents \ {a} : audit'[b] = audit[b]
<1>1. audit[a] \in Seq(Entries) /\ audit' = [audit EXCEPT ![a] = Recorded(audit[a], e)]
  BY DEF TypeOK, Record
<1>2. Recorded(audit[a], e) \in Seq(Entries) /\ Last(Recorded(audit[a], e)) = e
  BY <1>1, RecordedLast
<1> QED
  BY <1>1, <1>2 DEF TypeOK

\* No call, nothing said, an empty file.
LEMMA InitIInv == Init => IInv
  BY GateAssumption, CallKinds DEF Init, IInv, TypeOK, SetsAreAnswers, PastCheck, PastPrompt,
     PastRecord, ReadIsCurrent

\* A step of one agent's call keeps the invariant when its new call and the
\* rest of its state satisfy it, and when it leaves the other agents theirs:
\* of a change of the file they learn through overtaken alone.
LEMMA StepKeeps ==
  ASSUME IInv, TypeOK', SetsAreAnswers', NEW a \in Agents, NEW n \in Calls,
         call' = [call EXCEPT ![a] = n],
         n.tool = "bash" /\ n.at # "check" => n.command \notin Blocked,
         n.tool = "bash" /\ n.at \in {"allowed", "run"} =>
           /\ n.command \notin denied'[a]
           /\ a \in Asking => a \in asked' \/ n.command \in allowed'[a],
         n.tool = "bash" /\ n.at = "run" => Last(audit'[a]) = Entry(n.command, "allowed"),
         n.tool = "edit" /\ n.at = "put" => file' \subseteq n.seen \/ a \in overtaken',
         \A b \in Agents \ {a} :
           /\ allowed'[b] = allowed[b] /\ denied'[b] = denied[b] /\ audit'[b] = audit[b]
           /\ b \in asked' <=> b \in asked
           /\ b \in overtaken => b \in overtaken'
           /\ call[b].at = "put" /\ file' # file => b \in overtaken'
  PROVE  IInv'
<1>1. call'[a] = n /\ \A b \in Agents \ {a} : call'[b] = call[b]
  BY DEF IInv, TypeOK
<1>2. PastCheck'
  BY <1>1 DEF IInv, PastCheck
<1>3. PastPrompt'
  BY <1>1 DEF IInv, PastPrompt
<1>4. PastRecord'
  BY <1>1 DEF IInv, PastRecord
<1>5. ReadIsCurrent'
  BY <1>1 DEF IInv, ReadIsCurrent
<1> QED
  BY <1>2, <1>3, <1>4, <1>5 DEF IInv

\* A call that returns, with or without an entry in the log.
LEMMA ReturnKeeps ==
  ASSUME IInv, NEW a \in Agents, Return(a),
         UNCHANGED <<plan, allowed, denied, file, standing>>,
         audit' = audit \/ \E e \in Entries : Record(a, e)
  PROVE  IInv'
<1>1. /\ audit' \in [Agents -> Seq(Entries)]
      /\ \A b \in Agents \ {a} : audit'[b] = audit[b]
  BY RecordKeeps DEF IInv, TypeOK
<1>2. TypeOK'
  BY <1>1, CallKinds DEF Return, IInv, TypeOK
<1>3. SetsAreAnswers'
  BY DEF IInv, SetsAreAnswers
<1> QED
  BY <1>1, <1>2, <1>3, StepKeeps, CallKinds DEF Return

\* A command goes on: what it has to have behind it at each stage.
LEMMA CommandKeeps ==
  ASSUME IInv, NEW a \in Agents, call[a] \in CommandCalls,
         NEW x \in {"ask", "allowed", "run"}, Goto(a, x), TypeOK', SetsAreAnswers',
         call[a].command \notin Blocked,
         x \in {"allowed", "run"} =>
           /\ call[a].command \notin denied'[a]
           /\ a \in Asking => a \in asked' \/ call[a].command \in allowed'[a],
         x = "run" => Last(audit'[a]) = Entry(call[a].command, "allowed"),
         \A b \in Agents \ {a} :
           /\ allowed'[b] = allowed[b] /\ denied'[b] = denied[b] /\ audit'[b] = audit[b]
           /\ b \in asked' <=> b \in asked,
         UNCHANGED <<file, overtaken>>
  PROVE  IInv'
<1> DEFINE n == [call[a] EXCEPT !.at = x]
<1>1. /\ n \in Calls /\ n.tool = "bash" /\ n.at = x /\ n.command = call[a].command
  BY CommandGoesTo, x \in {"check", "ask", "allowed", "run"}
<1>2. call' = [call EXCEPT ![a] = n]
  BY DEF Goto, IInv, TypeOK
<1> QED
  BY <1>1, <1>2, StepKeeps

\* Likewise a call that writes.
LEMMA FileKeeps ==
  ASSUME IInv, NEW a \in Agents, call[a] \in FileCalls,
         NEW x \in {"read", "put", "confirm", "commit"}, Goto(a, x),
         x = "put" => call[a].tool # "edit",
         UNCHANGED <<plan, allowed, denied, audit, file, standing, overtaken>>,
         asked' \in {asked, asked \cup {a}}
  PROVE  IInv'
<1> DEFINE n == [call[a] EXCEPT !.at = x]
<1>1. n \in Calls /\ n.tool = call[a].tool /\ n.tool # "bash" /\ n.at = x
  <2>1. x \in {"check", "read", "put", "confirm", "commit"}
    OBVIOUS
  <2>2. n \in Calls /\ n.tool = call[a].tool /\ n.at = x
    BY <2>1, FileGoesTo
  <2> QED
    BY <2>2, CallKinds
<1>2. call' = [call EXCEPT ![a] = n]
  BY DEF Goto, IInv, TypeOK
<1>3. TypeOK'
  BY <1>1, <1>2 DEF IInv, TypeOK
<1>4. SetsAreAnswers'
  BY DEF IInv, SetsAreAnswers
<1> QED
  BY <1>1, <1>2, <1>3, <1>4, StepKeeps

\* The statements of the user and of the tools preserve IInv.
LEMMA NextIInv == IInv /\ [Next]_vars => IInv'
<1> SUFFICES ASSUME IInv, [Next]_vars PROVE IInv'
  OBVIOUS
<1>1. ASSUME NEW a \in Agents, TogglePlan(a) PROVE IInv'
  BY <1>1 DEF TogglePlan, IInv, TypeOK, SetsAreAnswers, PastCheck, PastPrompt, PastRecord,
     ReadIsCurrent
<1>2. ASSUME NEW a \in Agents, Call(a) PROVE IInv'
  <2>1. PICK n \in Calls : n.at = "check" /\ call' = [call EXCEPT ![a] = n]
    BY <1>2, CallKinds DEF Call
  <2>2. TypeOK' /\ SetsAreAnswers'
    BY <1>2, <2>1 DEF Call, IInv, TypeOK, SetsAreAnswers
  <2> QED
    BY <1>2, <2>1, <2>2, StepKeeps DEF Call
<1>3. ASSUME NEW a \in Agents, CheckCommand(a) PROVE IInv'
  <2>1. call[a] \in CommandCalls /\ call[a].command \in Commands
    BY <1>3, CallKinds DEF CheckCommand, IInv, TypeOK
  <2>2. CASE Refused(a, call[a].command)
    <3>1. Entry(call[a].command, "denied") \in Entries
      BY <2>1 DEF Entry, Entries, Decisions
    <3> QED
      BY <1>3, <2>2, <3>1, ReturnKeeps DEF CheckCommand
  <2>3. CASE ~Refused(a, call[a].command)
    <3>1. /\ Goto(a, "ask")
          /\ UNCHANGED <<plan, allowed, denied, audit, file, standing, asked, overtaken>>
      BY <1>3, <2>3 DEF CheckCommand
    <3>2. call[a].command \notin Blocked
      BY <2>3 DEF Refused
    <3>3. TypeOK'
      BY <2>1, <3>1, GotoKeepsCalls DEF IInv, TypeOK
    <3>4. SetsAreAnswers'
      BY <3>1 DEF IInv, SetsAreAnswers
    <3> QED
      BY <2>1, <3>1, <3>2, <3>3, <3>4, CommandKeeps
  <2> QED
    BY <2>2, <2>3
<1>4. ASSUME NEW a \in Agents, BlockedForSession(a) PROVE IInv'
  <2>1. call[a] \in CommandCalls /\ call[a].command \in Commands
    BY <1>4, CallKinds DEF BlockedForSession, IInv, TypeOK
  <2>2. Entry(call[a].command, "denied") \in Entries
    BY <2>1 DEF Entry, Entries, Decisions
  <2> QED
    BY <1>4, <2>2, ReturnKeeps DEF BlockedForSession
<1>5. ASSUME NEW a \in Agents, NotAsked(a) PROVE IInv'
  <2>1. call[a] \in CommandCalls /\ call[a].command \notin Blocked
    BY <1>5, CallKinds DEF NotAsked, IInv, TypeOK, PastCheck
  <2>2. TypeOK' /\ SetsAreAnswers'
    BY <1>5, <2>1, GotoKeepsCalls DEF NotAsked, IInv, TypeOK, SetsAreAnswers
  <2> QED
    BY <1>5, <2>1, <2>2, CommandKeeps DEF NotAsked
<1>6. ASSUME NEW a \in Agents, Answer(a) PROVE IInv'
  <2>1. call[a] \in CommandCalls /\ call[a].command \in Commands /\ call[a].command \notin Blocked
    BY <1>6, CallKinds DEF Answer, IInv, TypeOK, PastCheck
  <2> DEFINE c == call[a].command
  <2>2. PICK answer \in {"once", "session", "no", "never"} :
          /\ allowed' = Remembered(allowed, a, c, answer, "session")
          /\ denied' = Remembered(denied, a, c, answer, "never")
          /\ standing' = IF answer \in {"session", "never"}
                         THEN [standing EXCEPT ![a][c] = answer] ELSE standing
          /\ IF answer \in {"no", "never"}
             THEN Record(a, Entry(c, "denied")) /\ Return(a)
             ELSE /\ Goto(a, "allowed") /\ asked' = asked \cup {a}
                  /\ UNCHANGED <<audit, overtaken>>
    BY <1>6 DEF Answer
  <2>3. c \notin allowed[a] /\ c \notin denied[a] /\ UNCHANGED <<plan, file>>
    BY <1>6 DEF Answer
  <2>4. SetsAreAnswers'
    BY <2>1, <2>2, <2>3 DEF Remembered, IInv, TypeOK, SetsAreAnswers
  <2>5. /\ allowed' \in [Agents -> SUBSET Commands] /\ denied' \in [Agents -> SUBSET Commands]
        /\ standing' \in [Agents -> [Commands -> {"nothing", "session", "never"}]]
    BY <2>1, <2>2 DEF Remembered, IInv, TypeOK
  <2>6. \A b \in Agents \ {a} : allowed'[b] = allowed[b] /\ denied'[b] = denied[b]
    BY <2>2 DEF Remembered, IInv, TypeOK
  <2>7. CASE answer \in {"no", "never"}
    <3>1. Entry(c, "denied") \in Entries
      BY <2>1 DEF Entry, Entries, Decisions
    <3>2. /\ audit' \in [Agents -> Seq(Entries)]
          /\ \A b \in Agents \ {a} : audit'[b] = audit[b]
      BY <2>2, <2>7, <3>1, RecordKeeps DEF IInv
    <3>3. call' \in [Agents -> Calls] /\ asked' \subseteq Agents /\ overtaken' \subseteq Agents
      BY <2>2, <2>7, CallKinds DEF Return, IInv, TypeOK
    <3>4. TypeOK'
      BY <2>3, <2>5, <3>2, <3>3 DEF IInv, TypeOK
    <3> QED
      BY <2>2, <2>3, <2>4, <2>6, <2>7, <3>2, <3>4, StepKeeps, CallKinds DEF Return
  <2>8. CASE answer \notin {"no", "never"}
    <3>1. TypeOK'
      BY <2>1, <2>2, <2>3, <2>5, <2>8, GotoKeepsCalls DEF IInv, TypeOK
    <3>2. c \notin denied'[a]
      BY <2>2, <2>3, <2>8 DEF Remembered
    <3> QED
      BY <2>1, <2>2, <2>3, <2>4, <2>6, <2>8, <3>1, <3>2, CommandKeeps
  <2> QED
    BY <2>7, <2>8
<1>7. ASSUME NEW a \in Agents, RecordAllowed(a) PROVE IInv'
  <2>1. /\ call[a] \in CommandCalls /\ call[a].command \in Commands
        /\ call[a].command \notin Blocked /\ call[a].command \notin denied[a]
        /\ a \in Asking => a \in asked \/ call[a].command \in allowed[a]
    BY <1>7, CallKinds DEF RecordAllowed, IInv, TypeOK, PastCheck, PastPrompt
  <2>2. Entry(call[a].command, "allowed") \in Entries
    BY <2>1 DEF Entry, Entries, Decisions
  <2>3. /\ audit' \in [Agents -> Seq(Entries)]
        /\ Last(audit'[a]) = Entry(call[a].command, "allowed")
        /\ \A b \in Agents \ {a} : audit'[b] = audit[b]
    BY <1>7, <2>2, RecordKeeps DEF RecordAllowed, IInv
  <2>4. TypeOK' /\ SetsAreAnswers'
    BY <1>7, <2>1, <2>3, GotoKeepsCalls DEF RecordAllowed, IInv, TypeOK, SetsAreAnswers
  <2> QED
    BY <1>7, <2>1, <2>3, <2>4, CommandKeeps DEF RecordAllowed
<1>8. ASSUME NEW a \in Agents, Run(a) PROVE IInv'
  <2>1. TypeOK' /\ SetsAreAnswers'
    BY <1>8, CallKinds DEF Run, IInv, TypeOK, SetsAreAnswers
  <2> QED
    BY <1>8, <2>1, StepKeeps, CallKinds DEF Run
<1>9. ASSUME NEW a \in Agents, CheckWrite(a) PROVE IInv'
  <2>1. call[a] \in FileCalls /\ call[a].tool \in {"write", "edit", "commit", "patch"}
    BY <1>9, CallKinds DEF CheckWrite, IInv, TypeOK
  <2>2. CASE Record(a, Entry(call[a].tool, "denied")) /\ Return(a)
    <3>1. Entry(call[a].tool, "denied") \in Entries
      BY <2>1 DEF Entry, Entries, Decisions
    <3> QED
      BY <1>9, <2>2, <3>1, ReturnKeeps DEF CheckWrite
  <2>3. CASE ~(Record(a, Entry(call[a].tool, "denied")) /\ Return(a))
    <3>1. PICK x \in {"read", "put", "confirm"} : Goto(a, x) /\ (x = "put" => call[a].tool # "edit")
      BY <1>9, <2>3 DEF CheckWrite
    <3> QED
      BY <1>9, <2>1, <2>3, <3>1, FileKeeps DEF CheckWrite
  <2> QED
    BY <2>2, <2>3
<1>10. ASSUME NEW a \in Agents, ReadFile(a) PROVE IInv'
  <2>1. call[a] \in FileCalls
    BY <1>10, CallKinds DEF ReadFile, IInv, TypeOK
  <2>2. CASE Return(a)
    BY <1>10, <2>2, ReturnKeeps DEF ReadFile
  <2>3. CASE /\ call' = [call EXCEPT ![a].at = "put", ![a].seen = file]
             /\ overtaken' = overtaken \ {a} /\ UNCHANGED asked
    <3> DEFINE n == [call[a] EXCEPT !.at = "put", !.seen = file]
    <3>1. n \in Calls /\ n.tool # "bash" /\ n.seen = file
      <4>1. file \in SUBSET Agents
        BY DEF IInv, TypeOK
      <4> QED
        BY <2>1, <4>1, FileIsRead, CallKinds
    <3>2. call' = [call EXCEPT ![a] = n]
      BY <2>3 DEF IInv, TypeOK
    <3>3. TypeOK' /\ SetsAreAnswers'
      BY <1>10, <2>3, <3>1, <3>2 DEF ReadFile, IInv, TypeOK, SetsAreAnswers
    <3> QED
      BY <1>10, <2>3, <3>1, <3>2, <3>3, StepKeeps DEF ReadFile
  <2> QED
    BY <1>10, <2>2, <2>3 DEF ReadFile
<1>11. ASSUME NEW a \in Agents, Put(a) PROVE IInv'
  <2>1. call[a] \in FileCalls /\ call[a].seen \subseteq Agents
    BY <1>11, CallKinds DEF Put, IInv, TypeOK
  <2>2. file' \subseteq Agents
    BY <1>11, <2>1 DEF Put, Replaced, IInv, TypeOK
  <2>3. call' = [call EXCEPT ![a] = Idle] /\ UNCHANGED <<plan, allowed, denied, audit, standing>>
    BY <1>11 DEF Put
  <2>4. asked' = asked \ {a}
        /\ overtaken' = {b \in Agents \ {a} : call[b].at = "put" /\ file' # file}
                        \cup (overtaken \ {a})
    BY <1>11 DEF Put
  <2>5. TypeOK' /\ SetsAreAnswers'
    BY <2>2, <2>3, <2>4, CallKinds DEF IInv, TypeOK, SetsAreAnswers
  <2> QED
    BY <2>3, <2>4, <2>5, StepKeeps, CallKinds
<1>12. ASSUME NEW a \in Agents, Confirm(a) PROVE IInv'
  <2>1. call[a] \in FileCalls
    BY <1>12, CallKinds DEF Confirm, IInv, TypeOK
  <2> QED
    BY <1>12, <2>1, ReturnKeeps, FileKeeps DEF Confirm
<1>13. ASSUME NEW a \in Agents, Commit(a) PROVE IInv'
  BY <1>13, ReturnKeeps DEF Commit
<1>14. ASSUME NEW a \in Agents, Raise(a) PROVE IInv'
  BY <1>14, ReturnKeeps DEF Raise
<1>15. CASE UNCHANGED vars
  BY <1>15
  DEF vars, IInv, TypeOK, SetsAreAnswers, PastCheck, PastPrompt, PastRecord, ReadIsCurrent
<1> QED
  BY <1>1, <1>2, <1>3, <1>4, <1>5, <1>6, <1>7, <1>8, <1>9, <1>10, <1>11, <1>12, <1>13, <1>14,
     <1>15 DEF Next

\* The invariant holds in every reachable state.
LEMMA Invariant == Spec => []IInv
  BY InitIInv, NextIInv, PTL DEF Spec

\* Every command that runs was approved, for any agents and commands.
THEOREM ApprovedRuns == Spec => []RunsAreApproved
<1>1. IInv => RunsAreApproved
  <2> SUFFICES ASSUME IInv, NEW a \in Agents, call[a].tool = "bash", call[a].at = "run"
               PROVE  LET c == call[a].command
                      IN  /\ c \notin Blocked /\ standing[a][c] # "never"
                          /\ a \in Asking => a \in asked \/ standing[a][c] = "session"
                          /\ Last(audit[a]) = Entry(c, "allowed")
    BY DEF RunsAreApproved
  <2>1. call[a].command \in Commands
    BY CallKinds DEF IInv, TypeOK
  <2> QED
    BY <2>1 DEF IInv, SetsAreAnswers, PastCheck, PastPrompt, PastRecord
<1> QED
  BY <1>1, Invariant, PTL

\* An edit loses nothing but what came between its read and its write.
THEOREM EditsKeep == Spec => EditsKeepTheRest
<1>1. IInv /\ [Next]_vars =>
        [\A a \in Agents : call[a].tool = "edit" /\ call[a].at = "put" /\ Put(a)
           => file \subseteq file' \/ a \in overtaken]_vars
  BY DEF IInv, ReadIsCurrent, Put, Replaced
<1> QED
  BY <1>1, Invariant, PTL DEF Spec, EditsKeepTheRest

-----------------------------------------------------------------------------
(***************************************************************************)
(* The migration of the notes.                                             *)
(***************************************************************************)
MoveTypes ==
  /\ upto \in 1..(NumNotes + 1) /\ run \in Nat /\ undoing \in Migration!Runs \cup {0}
  /\ step \in {"idle", "look", "copy", "torn", "undo"} /\ existed \in BOOLEAN
  /\ step = "undo" => undoing \in Migration!Runs
  /\ step \in {"look", "copy", "torn"} => run \in Migration!Runs
  /\ step \in {"copy", "torn"} => upto \in Migration!Notes
  /\ dest \in [Migration!Notes -> Migration!Files]
  /\ backups \in [Migration!Runs -> [Migration!Notes -> Migration!Files]]
  /\ before \in [Migration!Runs -> [Migration!Notes -> Migration!Files]]
  /\ since \in [Migration!Runs -> SUBSET Migration!Notes]
  /\ legacy \in [Migration!Notes -> Texts \cup {Absent}]
  /\ entries \in [Migration!Notes -> {"none", "created", "replaced"}]
  /\ manifests \in [Migration!Runs -> [Migration!Notes -> {"none", "created", "replaced"}]]

\* A run has no manifest before its last copy, and no entry for a note before its copy.
RunBegins ==
  /\ \A r \in Migration!Runs : manifests[r] # Migration!NoEntries =>
       r < run \/ (r = run /\ step \in {"idle", "undo"})
  /\ step \in {"look", "copy", "torn"} =>
       \A n \in Migration!Notes : n >= upto => entries[n] = "none"

\* What an entry says was there before is what the run found.
Exact(r, n, entry) ==
  /\ entry = "replaced" => backups[r][n] = before[r][n]
  /\ entry = "created" => before[r][n] = Absent

BackupsAreExact ==
  /\ \A r \in Migration!Runs, n \in Migration!Notes : Exact(r, n, manifests[r][n])
  /\ step \in {"look", "copy", "torn"} => \A n \in Migration!Notes : Exact(run, n, entries[n])
  /\ step \in {"copy", "torn"} =>
       Exact(run, upto, IF existed THEN "replaced" ELSE "created")

\* What a rollback has restored stays so until somebody writes the file.
UndoneIsBefore == step = "undo" => \A n \in Migration!Notes :
  n < upto /\ n \notin since[undoing] /\ manifests[undoing][n] # "none" =>
    dest[n] = before[undoing][n]

MoveIInv == MoveTypes /\ RunBegins /\ BackupsAreExact /\ UndoneIsBefore

\* No run has begun.
LEMMA MoveInit == Migration!MigrationAssumption /\ Migration!Init => MoveIInv
<1> SUFFICES ASSUME Migration!MigrationAssumption, Migration!Init PROVE MoveIInv
  OBVIOUS
<1> USE DEF Migration!MigrationAssumption, Migration!Init, Migration!NoEntries
<1>1. MoveTypes
  <2>1. upto \in 1..(NumNotes + 1)
    OBVIOUS
  <2> QED
    BY <2>1 DEF MoveTypes, Migration!Files
<1>2. RunBegins /\ BackupsAreExact /\ UndoneIsBefore
  BY DEF RunBegins, BackupsAreExact, Exact, UndoneIsBefore
<1> QED
  BY <1>1, <1>2 DEF MoveIInv

\* Every step of a run, a rollback and an edit keeps it.
LEMMA MoveNext == Migration!MigrationAssumption /\ MoveIInv /\ [Migration!Next]_(Migration!vars) => MoveIInv'
<1> SUFFICES ASSUME Migration!MigrationAssumption, MoveIInv, [Migration!Next]_(Migration!vars) PROVE MoveIInv'
  OBVIOUS
<1> USE DEF MoveIInv, MoveTypes, RunBegins, BackupsAreExact, Exact, UndoneIsBefore,
            Migration!MigrationAssumption, Migration!Notes, Migration!Runs, Migration!NoEntries,
            Migration!Files
<1>1. ASSUME Migration!Apply PROVE MoveIInv'
  BY <1>1 DEF Migration!Apply
<1>2. ASSUME Migration!PassOver PROVE MoveIInv'
  BY <1>2 DEF Migration!PassOver, Migration!Done
<1>3. ASSUME Migration!LookAgain PROVE MoveIInv'
  <2> USE <1>3 DEF Migration!LookAgain, Migration!Look, Migration!Done
  <2>0. /\ upto \in Migration!Notes /\ run \in Migration!Runs
        /\ existed' = (dest[upto] # Absent) /\ before' = [before EXCEPT ![run][upto] = dest[upto]]
        /\ backups' = IF existed' THEN [backups EXCEPT ![run][upto] = dest[upto]] ELSE backups
    <3>1. upto \in Migration!Notes /\ run \in Migration!Runs
      OBVIOUS
    <3> QED
      BY <3>1
  <2>1. MoveTypes'
    <3>1. before' \in [Migration!Runs -> [Migration!Notes -> Migration!Files]]
      BY <2>0
    <3>2. backups' \in [Migration!Runs -> [Migration!Notes -> Migration!Files]]
      BY <2>0
    <3> QED
      BY <2>0, <3>1, <3>2
  <2>2. RunBegins'
    OBVIOUS
  <2>3. BackupsAreExact'
    <3>1. ASSUME NEW r \in Migration!Runs, NEW n \in Migration!Notes, r # run \/ n # upto
          PROVE  backups'[r][n] = backups[r][n] /\ before'[r][n] = before[r][n]
      BY <2>0, <3>1
    <3>2. /\ before'[run][upto] = dest[upto]
          /\ existed' => backups'[run][upto] = dest[upto]
      BY <2>0
    <3>3. manifests[run] = Migration!NoEntries /\ entries[upto] = "none"
      BY <2>0
    <3>4. ASSUME NEW r \in Migration!Runs, NEW n \in Migration!Notes
          PROVE  Exact(r, n, manifests[r][n])'
      BY <3>1, <3>3
    <3>5. ASSUME NEW n \in Migration!Notes PROVE Exact(run, n, entries[n])'
      BY <2>0, <3>1, <3>3
    <3>6. Exact(run, upto, IF existed THEN "replaced" ELSE "created")'
      BY <2>0, <3>2
    <3> QED
      BY <3>4, <3>5, <3>6
  <2>4. UndoneIsBefore'
    OBVIOUS
  <2> QED
    BY <2>1, <2>2, <2>3, <2>4
<1>4. ASSUME Migration!CopyBegins PROVE MoveIInv'
  BY <1>4 DEF Migration!CopyBegins, Migration!Written
<1>5. ASSUME Migration!CopyEnds PROVE MoveIInv'
  BY <1>5 DEF Migration!CopyEnds
<1>6. ASSUME Migration!WriteManifest PROVE MoveIInv'
  <2> USE <1>6 DEF Migration!WriteManifest, Migration!Done
  <2>1. MoveTypes'
    <3>1. upto' \in 1..(NumNotes + 1) /\ entries' \in [Migration!Notes -> {"none", "created", "replaced"}]
      OBVIOUS
    <3> QED
      BY <3>1
  <2>2. RunBegins'
    OBVIOUS
  <2>3. BackupsAreExact'
    OBVIOUS
  <2>4. UndoneIsBefore'
    OBVIOUS
  <2> QED
    BY <2>1, <2>2, <2>3, <2>4
<1>7. ASSUME Migration!Undo PROVE MoveIInv'
  <2> USE <1>7 DEF Migration!Undo, Migration!Done, Migration!Restored, Migration!Written
  <2>0. upto \in Migration!Notes /\ undoing \in Migration!Runs
    OBVIOUS
  <2>r. Migration!Restored \in Migration!Files
    BY <2>0
  <2>1. MoveTypes'
    BY <2>0, <2>r
  <2>2. RunBegins'
    OBVIOUS
  <2>3. BackupsAreExact'
    OBVIOUS
  <2>4. UndoneIsBefore'
    OBVIOUS
  <2> QED
    BY <2>1, <2>2, <2>3, <2>4
<1>8. ASSUME Migration!Undone PROVE MoveIInv'
  <2> USE <1>8 DEF Migration!Undone, Migration!Done
  <2>1. MoveTypes'
    OBVIOUS
  <2>2. RunBegins'
    OBVIOUS
  <2>3. BackupsAreExact'
    OBVIOUS
  <2>4. UndoneIsBefore'
    OBVIOUS
  <2> QED
    BY <2>1, <2>2, <2>3, <2>4
<1>9. ASSUME Migration!Stopped PROVE MoveIInv'
  <2> USE <1>9 DEF Migration!Stopped
  <2>1. MoveTypes'
    <3>1. upto' \in 1..(NumNotes + 1) /\ entries' \in [Migration!Notes -> {"none", "created", "replaced"}]
      OBVIOUS
    <3> QED
      BY <3>1
  <2>2. RunBegins'
    OBVIOUS
  <2>3. BackupsAreExact'
    OBVIOUS
  <2>4. UndoneIsBefore'
    OBVIOUS
  <2> QED
    BY <2>1, <2>2, <2>3, <2>4
<1>10. ASSUME NEW r \in Migration!Runs, Migration!Rollback(r) PROVE MoveIInv'
  BY <1>10 DEF Migration!Rollback
<1>11. ASSUME NEW n \in Migration!Notes, NEW text \in Texts \cup {Absent}, Migration!Edit(n, text)
       PROVE  MoveIInv'
  BY <1>11, ZenonT(30) DEF Migration!Edit, Migration!Written, Migration!GotTo
<1>12. ASSUME UNCHANGED Migration!vars PROVE MoveIInv'
  BY <1>12 DEF Migration!vars
<1> QED
  BY <1>1, <1>2, <1>3, <1>4, <1>5, <1>6, <1>7, <1>8, <1>9, <1>10, <1>11, <1>12 DEF
         Migration!Next

\* Whatever the run does, the notes only move as their module says.
LEMMA MoveStep == [MCNext]_mcVars => [Migration!Next]_(Migration!vars)
  BY DEF MCNext, mcVars, Migration!vars, moveVars

\* A rollback gives every file of a run back as the run found it (rollback_migration), for
\* any number of notes, runs and edits, wherever an earlier command was stopped.
THEOREM RollbackRestores == MCSpec => RollbackIsExact
<1>1. MCInit => MoveIInv
  BY MoveInit, Assumptions DEF MCInit
<1>2. MoveIInv /\ [MCNext]_mcVars => MoveIInv'
  BY MoveNext, MoveStep, Assumptions
<1>3. MoveIInv => \A n \in Migration!Notes :
        (step = "undo" /\ Migration!Done /\ step' = "idle" /\ n \notin since[undoing]
           /\ manifests[undoing][n] # "none") => dest[n] = before[undoing][n]
  BY Assumptions DEF MoveIInv, MoveTypes, UndoneIsBefore, Migration!Done, Migration!Notes,
     Migration!MigrationAssumption
<1> QED
  BY <1>1, <1>2, <1>3, PTL DEF MCSpec, RollbackIsExact, Migration!RollbackIsExact

-----------------------------------------------------------------------------
(* The claims.  First what first and last markers of a text are. *)

\* A set of natural numbers that is not empty has a least member.
LEMMA LeastNatural ==
  ASSUME NEW T \in SUBSET Nat, T # {}
  PROVE  \E x \in T : \A y \in T : x <= y
<1>1. IsWellFoundedOn(OpToRel(<, Nat), Nat)
  BY NatLessThanWellFounded
<1>2. PICK x \in T : \A y \in T : ~ (<<y, x>> \in OpToRel(<, Nat))
  BY <1>1, WFMin
<1>3. ASSUME NEW y \in T PROVE x <= y
  <2>1. x \in Nat /\ y \in Nat
    OBVIOUS
  <2>2. ~ (y < x)
    BY <1>2, <2>1 DEF OpToRel
  <2> QED
    BY <2>1, <2>2
<1> QED
  BY <1>3

\* A set of positions of a text that is not empty has a last one.
LEMMA GreatestPosition ==
  ASSUME NEW n \in Nat, NEW I \in SUBSET (1..n), I # {}
  PROVE  Claims!Max(I) \in I /\ \A i \in I : i <= Claims!Max(I)
<1> DEFINE Behind == {n - i : i \in I}
<1>0. \A i \in I : i \in Nat /\ n - i \in Nat /\ i \in Int
  OBVIOUS
<1>1. Behind \subseteq Nat /\ Behind # {}
  BY <1>0
<1>2. PICK k \in Behind : \A j \in Behind : k <= j
  <2> HIDE DEF Behind
  <2> QED
    BY <1>1, LeastNatural
<1>3. PICK m \in I : k = n - m
  BY <1>2
<1>4. \A i \in I : m >= i
  <2>1. ASSUME NEW i \in I PROVE m >= i
    <3>1. n - i \in Behind
      OBVIOUS
    <3>2. n - m <= n - i /\ i \in Nat /\ m \in Nat
      BY <1>0, <1>2, <1>3, <3>1
    <3> QED
      BY <3>2
  <2> QED
    BY <2>1
<1>5. Claims!Max(I) \in I /\ \A i \in I : Claims!Max(I) >= i
  BY <1>4 DEF Claims!Max
<1> QED
  BY <1>5

\* The instance counts as FiniteSets does.
LEMMA ClaimsFinite == \A S : Claims!IsFiniteSet(S) = IsFiniteSet(S)
  BY DEF Claims!IsFiniteSet, IsFiniteSet
LEMMA ClaimsCardinality == \A S : Claims!Cardinality(S) = Cardinality(S)
  BY DEF Claims!Cardinality, Cardinality, Claims!IsFiniteSet, IsFiniteSet

\* Where a text marks a claim.
Places(t, c) == {i \in 1..Len(t) : t[i].id = c}

\* The last marker of a claim that a text marks is one of its markers.
LEMMA LastMarkIs ==
  ASSUME NEW t \in Seq(Claims!Markers), NEW c, NEW i \in DOMAIN t, t[i].id = c
  PROVE  Claims!LastMark(t, c) \in DOMAIN t /\ t[Claims!LastMark(t, c)].id = c
<1>1. Places(t, c) # {} /\ Places(t, c) \subseteq 1..Len(t) /\ Len(t) \in Nat
  BY DEF Places
<1>2. Claims!LastMark(t, c) = Claims!Max(Places(t, c))
  BY <1>1 DEF Claims!LastMark, Claims!SelectLastInSeq, Places
<1>3. Claims!LastMark(t, c) \in Places(t, c)
  BY <1>1, <1>2, GreatestPosition
<1> QED
  BY <1>3 DEF Places

\* A claim marked once in a text is marked there and nowhere else.
LEMMA OnlyMark ==
  ASSUME NEW t \in Seq(Claims!Markers), NEW c, Claims!Once(t, c)
  PROVE  /\ Claims!FirstMark(t, c) \in DOMAIN t /\ t[Claims!FirstMark(t, c)].id = c
         /\ \A i \in DOMAIN t : t[i].id = c => i = Claims!FirstMark(t, c)
         /\ Claims!LastMark(t, c) = Claims!FirstMark(t, c)
<1>1. Len(t) \in Nat /\ DOMAIN t = 1..Len(t)
  OBVIOUS
<1>2. IsFiniteSet(Places(t, c)) /\ Cardinality(Places(t, c)) = 1
  <2>1. IsFiniteSet(1..Len(t))
    BY <1>1, FS_Interval
  <2>2. Places(t, c) \subseteq 1..Len(t)
    BY DEF Places
  <2>3. Places(t, c) = {i \in DOMAIN t : t[i].id = c}
    BY <1>1 DEF Places
  <2> QED
    BY <2>1, <2>2, <2>3, FS_Subset, ClaimsCardinality DEF Claims!Once
<1>3. PICK k : Places(t, c) = {k}
  BY <1>2, FS_Singleton
<1>4. k \in 1..Len(t) /\ t[k].id = c /\ \A i \in DOMAIN t : t[i].id = c => i = k
  BY <1>1, <1>3 DEF Places
<1>5. Claims!Min({k}) = k /\ Claims!Max({k}) = k
  BY <1>1, <1>4 DEF Claims!Min, Claims!Max
<1>6. Claims!FirstMark(t, c) = k /\ Claims!LastMark(t, c) = k
  <2>1. Claims!FirstMark(t, c) = IF Places(t, c) # {} THEN Claims!Min(Places(t, c)) ELSE 0
    BY DEF Claims!FirstMark, Claims!SelectInSeq, Places
  <2>2. Claims!LastMark(t, c) = IF Places(t, c) # {} THEN Claims!Max(Places(t, c)) ELSE 0
    BY DEF Claims!LastMark, Claims!SelectLastInSeq, Places
  <2> QED
    BY <1>3, <1>5, <2>1, <2>2
<1> QED
  BY <1>1, <1>4, <1>6

(* The tables. *)

ClaimRow ==
  [page : Claims!AllPages, status : Claims!Statuses, evidence : SUBSET Sources,
   contradicts : SUBSET UNION {d.contradicts : d \in Drafts}, flagged : BOOLEAN]

\* Types of the pages, of the tables and of forget_source's locals.
ClaimTypes ==
  /\ page \in [Claims!AllPages -> Seq(Claims!Markers)]
  /\ claims \in [Claims!Ids -> ClaimRow \cup {Claims!NoRow}]
  /\ pc \in {"idle", "pages", "remember", "reindex", "done"}
  /\ todo \subseteq NotePages
  /\ pc \in {"remember", "reindex"} =>
       content.page \in NotePages \ todo /\ content.text \in Seq(Claims!Markers)
  /\ pc = "done" => todo = {}
  /\ IsFiniteSet(Claims!Rows)

\* What is about to be written or indexed is what the page says.
TextIsCurrent ==
  /\ pc = "remember" /\ content.page \notin disturbed =>
       content.text = Claims!RemoveEvidence(page[content.page],
                        {c \in Claims!Ids : <<c, content.page>> \in listed}, source)
  /\ pc = "reindex" /\ content.page \notin disturbed => content.text = page[content.page]

\* Pages whose text still has to be written.
Waiting(p) == p \in todo \/ (pc = "remember" /\ content.page = p)
MarkOf(c, p) == page[p][Claims!FirstMark(page[p], c)]

\* A claim of the list cites the source until its page has been written, and not
\* afterwards; its row is that of its marker, but for the time between the two.
Follows(c, p) ==
  /\ Waiting(p) => source \in MarkOf(c, p).evidence
  /\ ~Waiting(p) => /\ source \notin MarkOf(c, p).evidence
                    /\ MarkOf(c, p).evidence = {} => MarkOf(c, p).status = "unknown"
  /\ claims[c] # Claims!NoRow /\ claims[c].page = p /\ ~(pc = "reindex" /\ content.page = p) =>
       claims[c] = Claims!RowOf(p, MarkOf(c, p))

ListIsFollowed ==
  pc # "idle" =>
    \A c \in Claims!Ids, p \in NotePages \ disturbed :
      <<c, p>> \in listed /\ Claims!Once(page[p], c) => Follows(c, p)

ClaimIInv == ClaimTypes /\ TextIsCurrent /\ ListIsFollowed

\* A row made from a marker is a row, and says whose it is.
LEMMA RowIsTyped ==
  ASSUME NEW p \in Claims!AllPages, NEW m \in Claims!Markers
  PROVE  /\ Claims!RowOf(p, m) \in ClaimRow /\ Claims!RowOf(p, m) # Claims!NoRow
         /\ Claims!RowOf(p, m).page = p /\ Claims!RowOf(p, m).evidence = m.evidence
         /\ Claims!RowOf(p, m).status = m.status
<1>1. Claims!RowOf(p, m) \in ClaimRow
  BY DEF Claims!Markers, ClaimRow, Claims!RowOf
<1>2. /\ Claims!RowOf(p, m).page = p /\ Claims!RowOf(p, m).evidence = m.evidence
      /\ Claims!RowOf(p, m).status = m.status
  BY DEF Claims!RowOf
<1>3. m.status # "absent"
  BY DEF Claims!Markers, Claims!Statuses
<1>4. Claims!RowOf(p, m) # Claims!NoRow
  BY <1>2, <1>3 DEF Claims!NoRow
<1> QED
  BY <1>1, <1>2, <1>4

\* What indexing a page does to one claim.
LEMMA SyncedRow ==
  ASSUME NEW p \in Claims!AllPages, NEW t \in Seq(Claims!Markers), NEW c \in Claims!Ids
  PROVE  \/ \E i \in DOMAIN t :
              t[i].id = c /\ Claims!Synced(p, t)[c] = Claims!RowOf(p, t[Claims!LastMark(t, c)])
         \/ /\ \A i \in DOMAIN t : t[i].id # c
            /\ \/ Claims!Synced(p, t)[c] = Claims!NoRow
               \/ /\ Claims!Synced(p, t)[c] = claims[c]
                  /\ claims[c] # Claims!NoRow => claims[c].page # p
  BY DEF Claims!Synced

\* The tables stay well typed, and finite, when a page is indexed.
LEMMA SyncedIs ==
  ASSUME ClaimTypes, NEW p \in Claims!AllPages, NEW t \in Seq(Claims!Markers)
  PROVE  /\ Claims!Synced(p, t) \in [Claims!Ids -> ClaimRow \cup {Claims!NoRow}]
         /\ IsFiniteSet({c \in Claims!Ids : Claims!Synced(p, t)[c] # Claims!NoRow})
<1>1. Claims!Synced(p, t) \in [Claims!Ids -> ClaimRow \cup {Claims!NoRow}]
  <2>1. ASSUME NEW c \in Claims!Ids, NEW i \in DOMAIN t, t[i].id = c
        PROVE  Claims!RowOf(p, t[Claims!LastMark(t, c)]) \in ClaimRow
    <3>1. t[Claims!LastMark(t, c)] \in Claims!Markers
      BY <2>1, LastMarkIs
    <3> QED
      BY <3>1, RowIsTyped
  <2>2. ASSUME NEW c \in Claims!Ids
        PROVE  Claims!Synced(p, t)[c] \in ClaimRow \cup {Claims!NoRow}
    BY <2>1, SyncedRow DEF ClaimTypes
  <2> QED
    BY <2>2 DEF Claims!Synced
<1>2. IsFiniteSet({c \in Claims!Ids : Claims!Synced(p, t)[c] # Claims!NoRow})
  <2> DEFINE Named == {t[i].id : i \in DOMAIN t}
  <2>1. IsFiniteSet(Named)
    <3>1. IsFiniteSet(DOMAIN t)
      BY FS_Interval
    <3>2. [i \in DOMAIN t |-> t[i].id] \in Surjection(DOMAIN t, Named)
      BY DEF Surjection
    <3> QED
      BY <3>1, <3>2, FS_Surjection
  <2>2. IsFiniteSet(Named \cup Claims!Rows)
    BY <2>1, FS_Union DEF ClaimTypes
  <2>3. {c \in Claims!Ids : Claims!Synced(p, t)[c] # Claims!NoRow} \subseteq Named \cup Claims!Rows
    BY SyncedRow DEF Claims!Rows
  <2> QED
    BY <2>2, <2>3, FS_Subset
<1> QED
  BY <1>1, <1>2

\* Taking a source out changes neither a text's markers nor their order.
LEMMA Removed ==
  ASSUME NEW t \in Seq(Claims!Markers), NEW C, NEW s
  PROVE  /\ Claims!RemoveEvidence(t, C, s) \in Seq(Claims!Markers)
         /\ \A c : /\ Claims!Once(Claims!RemoveEvidence(t, C, s), c) <=> Claims!Once(t, c)
                   /\ Claims!FirstMark(Claims!RemoveEvidence(t, C, s), c) = Claims!FirstMark(t, c)
<1> DEFINE r == Claims!RemoveEvidence(t, C, s)
<1>1. \A m \in Claims!Markers :
        Claims!Without(m, s) \in Claims!Markers /\ Claims!Without(m, s).id = m.id
  BY DEF Claims!Markers, Claims!Without, Claims!Statuses
<1>2. /\ DOMAIN r = 1..Len(t) /\ Len(t) \in Nat
      /\ \A i \in 1..Len(t) : r[i] \in Claims!Markers /\ r[i].id = t[i].id
  BY <1>1 DEF Claims!RemoveEvidence
<1>3. r = [i \in 1..Len(t) |-> r[i]]
  BY DEF Claims!RemoveEvidence
<1> HIDE DEF r
<1>4. r \in Seq(Claims!Markers) /\ Len(r) = Len(t)
  BY <1>2, <1>3
<1>5. ASSUME NEW c
      PROVE  /\ Places(r, c) = Places(t, c)
             /\ {i \in DOMAIN r : r[i].id = c} = {i \in DOMAIN t : t[i].id = c}
  BY <1>2, <1>4 DEF Places
<1>6. ASSUME NEW c PROVE Claims!Once(r, c) <=> Claims!Once(t, c)
  BY <1>5 DEF Claims!Once
<1>7. ASSUME NEW c PROVE Claims!FirstMark(r, c) = Claims!FirstMark(t, c)
  <2>1. \A q : Claims!FirstMark(q, c) = IF Places(q, c) # {} THEN Claims!Min(Places(q, c)) ELSE 0
    BY DEF Claims!FirstMark, Claims!SelectInSeq, Places
  <2> QED
    BY <1>5, <2>1
<1> QED
  BY <1>4, <1>6, <1>7 DEF r

\* Where a claim of the list is marked once, the marker it has afterwards does not
\* cite the source, and is an open question if it had nothing else.
LEMMA RemovedMark ==
  ASSUME NEW t \in Seq(Claims!Markers), NEW C, NEW s, NEW c \in C, Claims!Once(t, c),
         s \in t[Claims!FirstMark(t, c)].evidence
  PROVE  LET m == Claims!RemoveEvidence(t, C, s)[Claims!FirstMark(t, c)]
         IN  s \notin m.evidence /\ (m.evidence = {} => m.status = "unknown")
<1> DEFINE i == Claims!FirstMark(t, c)
<1>1. i \in DOMAIN t /\ t[i].id = c /\ t[i] \in Claims!Markers
  BY OnlyMark
<1>2. Claims!RemoveEvidence(t, C, s)[i] = Claims!Without(t[i], s)
  BY <1>1 DEF Claims!RemoveEvidence
<1>3. \A m \in Claims!Markers : s \in m.evidence => 
        /\ s \notin Claims!Without(m, s).evidence
        /\ Claims!Without(m, s).evidence = {} => Claims!Without(m, s).status = "unknown"
  BY DEF Claims!Markers, Claims!Without
<1> QED
  BY <1>1, <1>2, <1>3

\* Indexing a page as it is brings its claims' rows in line with their markers, and
\* no other row comes to say that it is that page's.
LEMMA SyncedFollows ==
  ASSUME ClaimTypes, NEW q \in Claims!AllPages, NEW t \in Seq(Claims!Markers),
         NEW c \in Claims!Ids, NEW p \in NotePages, Claims!Once(page[p], c),
         p = q => t = page[p],
         Claims!Synced(q, t)[c] # Claims!NoRow, Claims!Synced(q, t)[c].page = p
  PROVE  \/ Claims!Synced(q, t)[c] = Claims!RowOf(p, MarkOf(c, p))
         \/ p # q /\ Claims!Synced(q, t)[c] = claims[c]
<1>1. CASE \E i \in DOMAIN t : /\ t[i].id = c
                               /\ Claims!Synced(q, t)[c] = Claims!RowOf(q, t[Claims!LastMark(t, c)])
  <2>1. t[Claims!LastMark(t, c)] \in Claims!Markers
    BY <1>1, LastMarkIs
  <2>2. p = q /\ t = page[p]
    BY <1>1, <2>1, RowIsTyped
  <2>3. Claims!LastMark(t, c) = Claims!FirstMark(t, c)
    BY <2>2, OnlyMark
  <2> QED
    BY <1>1, <2>2, <2>3 DEF MarkOf
<1>2. CASE \A i \in DOMAIN t : t[i].id # c
  <2>1. Claims!Synced(q, t)[c] = claims[c] /\ claims[c].page # q
    BY <1>2, SyncedRow
  <2> QED
    BY <2>1
<1> QED
  BY <1>1, <1>2, SyncedRow

\* No page, no row, nothing to forget.
LEMMA ClaimInit == Assumptions /\ Claims!Init => ClaimIInv
<1> SUFFICES ASSUME Claims!Init PROVE ClaimIInv
  OBVIOUS
<1>1. Claims!Rows = {}
  BY DEF Claims!Init, Claims!Rows
<1>2. ClaimTypes
  BY <1>1, FS_EmptySet DEF Claims!Init, ClaimTypes
<1> QED
  BY <1>2 DEF Claims!Init, ClaimIInv, TextIsCurrent, ListIsFollowed

\* Every step of an editor, of the index and of forget_source keeps the invariant.
LEMMA ClaimNext == Claims!ClaimAssumption /\ ClaimIInv /\ [Claims!Next]_(Claims!vars) => ClaimIInv'
<1> SUFFICES ASSUME Claims!ClaimAssumption, ClaimIInv, [Claims!Next]_(Claims!vars)
             PROVE  ClaimIInv'
  OBVIOUS
<1> USE DEF ClaimIInv, Claims!AllPages
<1>1. ASSUME NEW q \in Claims!AllPages, Claims!Edit(q) PROVE ClaimIInv'
  <2>1. PICK t \in Claims!PageTexts(q) : page' = [page EXCEPT ![q] = t]
    BY <1>1 DEF Claims!Edit
  <2>2. t \in Seq(Claims!Markers)
    <3>1. PICK n \in Nat : t \in [1..n -> Drafts]
      BY DEF Claims!PageTexts, Claims!BoundedSeq, Claims!SeqOf, Claims!ClaimAssumption
    <3> QED
      BY <3>1 DEF Claims!ClaimAssumption
  <2>3. ClaimTypes'
    BY <1>1, <2>1, <2>2 DEF Claims!Edit, ClaimTypes, Claims!Rows
  <2>4. TextIsCurrent'
    BY <1>1, <2>1 DEF Claims!Edit, ClaimTypes, TextIsCurrent
  <2>5. ListIsFollowed'
    <3> SUFFICES ASSUME pc # "idle", NEW c \in Claims!Ids, NEW p \in NotePages \ disturbed',
                        <<c, p>> \in listed, Claims!Once(page'[p], c)
                 PROVE  Follows(c, p)'
      BY <1>1 DEF Claims!Edit, ListIsFollowed
    <3>1. p # q /\ page'[p] = page[p] /\ p \notin disturbed
      BY <1>1, <2>1 DEF Claims!Edit, ClaimTypes
    <3> QED
      BY <1>1, <3>1 DEF Claims!Edit, ListIsFollowed, Follows, MarkOf, Waiting
  <2> QED
    BY <2>3, <2>4, <2>5
<1>2. ASSUME NEW q \in Claims!AllPages, Claims!Reindex(q) PROVE ClaimIInv'
  <2>1. page[q] \in Seq(Claims!Markers) /\ claims' = Claims!Synced(q, page[q])
    BY <1>2 DEF Claims!Reindex, ClaimTypes
  <2>2. ClaimTypes'
    <3>1. /\ claims' \in [Claims!Ids -> ClaimRow \cup {Claims!NoRow}]
          /\ IsFiniteSet({c \in Claims!Ids : claims'[c] # Claims!NoRow})
      BY <2>1, SyncedIs
    <3> QED
      BY <1>2, <3>1 DEF Claims!Reindex, ClaimTypes, Claims!Rows
  <2>3. TextIsCurrent'
    BY <1>2 DEF Claims!Reindex, TextIsCurrent
  <2>4. ListIsFollowed'
    <3> SUFFICES ASSUME pc # "idle", NEW c \in Claims!Ids, NEW p \in NotePages \ disturbed,
                        <<c, p>> \in listed, Claims!Once(page[p], c)
                 PROVE  Follows(c, p)'
      BY <1>2 DEF Claims!Reindex, ListIsFollowed
    <3>1. Follows(c, p)
      BY DEF ListIsFollowed
    <3>2. claims'[c] # Claims!NoRow /\ claims'[c].page = p =>
            claims'[c] = Claims!RowOf(p, MarkOf(c, p)) \/ claims'[c] = claims[c]
      BY <2>1, SyncedFollows
    <3> QED
      BY <1>2, <3>1, <3>2 DEF Claims!Reindex, Follows, MarkOf, Waiting
  <2> QED
    BY <2>2, <2>3, <2>4
<1>3. ASSUME NEW s \in Sources, Claims!List(s) PROVE ClaimIInv'
  <2>1. ClaimTypes'
    BY <1>3 DEF Claims!List, ClaimTypes, Claims!Rows, Claims!CitingEvidence, ClaimRow, Claims!NoRow
  <2>2. TextIsCurrent'
    BY <1>3 DEF Claims!List, TextIsCurrent
  <2>3. ListIsFollowed'
    <3> SUFFICES ASSUME NEW c \in Claims!Ids, NEW p \in NotePages \ disturbed',
                        <<c, p>> \in listed', Claims!Once(page[p], c)
                 PROVE  Follows(c, p)'
      BY <1>3 DEF Claims!List, ListIsFollowed
    <3>1. Claims!Synced(p, page[p]) = claims /\ page[p] \in Seq(Claims!Markers)
      BY <1>3 DEF Claims!List, Claims!NotIndexed, ClaimTypes
    <3>2. c \in Claims!CitingEvidence(s) /\ claims[c].page = p
      BY <1>3 DEF Claims!List
    <3>3. claims[c] # Claims!NoRow /\ s \in claims[c].evidence
      BY <3>2 DEF Claims!CitingEvidence, Claims!Rows
    <3>4. claims[c] = Claims!RowOf(p, MarkOf(c, p))
      <4>1. page[p][Claims!LastMark(page[p], c)] = MarkOf(c, p)
        BY <3>1, OnlyMark DEF MarkOf
      <4>2. \E i \in DOMAIN page[p] : page[p][i].id = c
        BY <3>1, OnlyMark
      <4> QED
        BY <3>1, <4>1, <4>2, SyncedRow
    <3>5. s \in MarkOf(c, p).evidence
      BY <3>3, <3>4 DEF Claims!RowOf
    <3>6. p \in todo' /\ source' = s /\ pc' = "pages" /\ UNCHANGED <<page, claims>>
      BY <1>3, <3>2 DEF Claims!List, Claims!ClaimAssumption
    <3> QED
      BY <3>4, <3>5, <3>6 DEF Follows, MarkOf, Waiting
  <2> QED
    BY <2>1, <2>2, <2>3
<1>4. ASSUME NEW q \in NotePages, Claims!Load(q) PROVE ClaimIInv'
  <2>1. /\ content'.page = q
        /\ content'.text =
             Claims!RemoveEvidence(page[q], {c \in Claims!Ids : <<c, q>> \in listed}, source)
    BY <1>4 DEF Claims!Load
  <2>2. content'.text \in Seq(Claims!Markers)
    <3>1. page[q] \in Seq(Claims!Markers)
      BY DEF ClaimTypes
    <3> QED
      BY <2>1, <3>1, Removed
  <2>3. ClaimTypes'
    BY <1>4, <2>1, <2>2 DEF Claims!Load, ClaimTypes, Claims!Rows
  <2>4. TextIsCurrent'
    BY <1>4, <2>1 DEF Claims!Load, TextIsCurrent
  <2>5. \A p \in NotePages : Waiting(p)' <=> Waiting(p)
    BY <1>4, <2>1 DEF Claims!Load, Waiting
  <2>6. ListIsFollowed'
    BY <1>4, <2>5 DEF Claims!Load, ListIsFollowed, Follows, MarkOf
  <2> QED
    BY <2>3, <2>4, <2>6
<1>5. ASSUME Claims!Remember PROVE ClaimIInv'
  <2> DEFINE q == content.page
  <2>1. /\ q \in NotePages \ todo /\ content.text \in Seq(Claims!Markers)
        /\ page[q] \in Seq(Claims!Markers)
    BY <1>5 DEF Claims!Remember, ClaimTypes
  <2>2. page' = [page EXCEPT ![q] = content.text]
    BY <1>5 DEF Claims!Remember
  <2>3. ClaimTypes'
    BY <1>5, <2>1, <2>2 DEF Claims!Remember, ClaimTypes, Claims!Rows
  <2>4. TextIsCurrent'
    BY <1>5, <2>1, <2>2 DEF Claims!Remember, TextIsCurrent, ClaimTypes
  <2>5. ListIsFollowed'
    <3> SUFFICES ASSUME NEW c \in Claims!Ids, NEW p \in NotePages \ disturbed,
                        <<c, p>> \in listed, Claims!Once(page'[p], c)
                 PROVE  Follows(c, p)'
      BY <1>5 DEF Claims!Remember, ListIsFollowed
    <3>1. CASE p # q
      <4>1. page'[p] = page[p]
        BY <2>1, <2>2, <3>1 DEF ClaimTypes
      <4> QED
        BY <1>5, <3>1, <4>1 DEF Claims!Remember, ListIsFollowed, Follows, MarkOf, Waiting
    <3>2. CASE p = q
      <4> DEFINE C == {d \in Claims!Ids : <<d, q>> \in listed}
      <4>1. /\ content.text = Claims!RemoveEvidence(page[q], C, source)
            /\ c \in C /\ page'[p] = content.text
        BY <1>5, <2>1, <2>2, <3>2 DEF Claims!Remember, TextIsCurrent, ClaimTypes
      <4> HIDE DEF C
      <4>2. Claims!Once(page[q], c) /\ Claims!FirstMark(page'[p], c) = Claims!FirstMark(page[q], c)
        BY <2>1, <4>1, Removed
      <4>3. source \in MarkOf(c, q).evidence
        BY <1>5, <3>2, <4>2 DEF Claims!Remember, ListIsFollowed, Follows, Waiting
      <4>4. /\ source \notin MarkOf(c, p)'.evidence
            /\ MarkOf(c, p)'.evidence = {} => MarkOf(c, p)'.status = "unknown"
        BY <1>5, <2>1, <4>1, <4>2, <4>3, RemovedMark DEF Claims!Remember, MarkOf
      <4>5. ~Waiting(p)' /\ pc' = "reindex" /\ content'.page = p /\ source' = source
        BY <1>5, <2>1, <3>2 DEF Claims!Remember, Waiting
      <4> QED
        BY <4>4, <4>5 DEF Follows
    <3> QED
      BY <3>1, <3>2
  <2> QED
    BY <2>3, <2>4, <2>5
<1>6. ASSUME Claims!ReindexAfter PROVE ClaimIInv'
  <2> DEFINE q == content.page
  <2>1. q \in NotePages \ todo /\ content.text \in Seq(Claims!Markers)
    BY <1>6 DEF Claims!ReindexAfter, ClaimTypes
  <2>2. claims' = Claims!Synced(q, content.text) /\ q \in Claims!AllPages
    BY <1>6, <2>1 DEF Claims!ReindexAfter
  <2>3. ClaimTypes'
    <3>1. /\ claims' \in [Claims!Ids -> ClaimRow \cup {Claims!NoRow}]
          /\ IsFiniteSet({c \in Claims!Ids : claims'[c] # Claims!NoRow})
      BY <2>1, <2>2, SyncedIs
    <3> QED
      BY <1>6, <3>1 DEF Claims!ReindexAfter, ClaimTypes, Claims!Rows
  <2>4. TextIsCurrent'
    BY <1>6 DEF Claims!ReindexAfter, TextIsCurrent
  <2>5. ListIsFollowed'
    <3> SUFFICES ASSUME NEW c \in Claims!Ids, NEW p \in NotePages \ disturbed,
                        <<c, p>> \in listed, Claims!Once(page[p], c)
                 PROVE  Follows(c, p)'
      BY <1>6 DEF Claims!ReindexAfter, ListIsFollowed
    <3>1. Follows(c, p)
      BY <1>6 DEF Claims!ReindexAfter, ListIsFollowed
    <3>2. p = q => content.text = page[p]
      BY <1>6 DEF Claims!ReindexAfter, TextIsCurrent
    <3>3. claims'[c] # Claims!NoRow /\ claims'[c].page = p =>
            claims'[c] = Claims!RowOf(p, MarkOf(c, p)) \/ (p # q /\ claims'[c] = claims[c])
      BY <2>1, <2>2, <3>2, SyncedFollows
    <3> QED
      BY <1>6, <3>1, <3>3 DEF Claims!ReindexAfter, Follows, MarkOf, Waiting
  <2> QED
    BY <2>3, <2>4, <2>5
<1>7. CASE Claims!Finish
  <2>1. ClaimTypes' /\ TextIsCurrent'
    BY <1>7 DEF Claims!Finish, ClaimTypes, TextIsCurrent, Claims!Rows
  <2>2. ListIsFollowed'
    BY <1>7 DEF Claims!Finish, ListIsFollowed, Follows, MarkOf, Waiting
  <2> QED
    BY <2>1, <2>2
<1>8. CASE Claims!Leave
  BY <1>8 DEF Claims!Leave, ClaimTypes, TextIsCurrent, ListIsFollowed, Claims!Rows
<1>9. CASE UNCHANGED Claims!vars
  BY <1>9 DEF Claims!vars, ClaimTypes, TextIsCurrent, ListIsFollowed, Follows, MarkOf, Waiting,
              Claims!Rows
<1> QED
  BY <1>1, <1>2, <1>3, <1>4, <1>5, <1>6, <1>7, <1>8, <1>9 DEF Claims!Next

\* A claim that is neither in the digest nor on a dashboard is superseded, supported
\* where the digest is full, or contested by nothing the tables name.
LEMMA NoneIsHidden == Claims!ClaimAssumption /\ ClaimIInv => Claims!NothingIsHidden
<1> SUFFICES ASSUME Claims!ClaimAssumption, ClaimIInv, NEW D \in Claims!Digests,
                    NEW c \in Claims!Rows \ (D \cup Claims!Dashboards)
             PROVE  \/ claims[c].status = "superseded"
                    \/ claims[c].status = "supported" /\ Claims!Cardinality(D) = MaxDigest
                    \/ claims[c].status = "contested" /\ claims[c].contradicts = {}
  BY DEF Claims!NothingIsHidden
<1>1. claims[c] \in ClaimRow
  BY DEF ClaimIInv, ClaimTypes, Claims!Rows
<1>2. claims[c].status \in {"supported", "contested", "superseded"}
  BY <1>1 DEF ClaimRow, Claims!Statuses, Claims!Dashboards, Claims!OpenQuestions
<1>3. claims[c].contradicts = {}
  BY DEF Claims!Dashboards, Claims!Contradictions
<1>4. ASSUME claims[c].status = "supported" PROVE Claims!Cardinality(D) = MaxDigest
  <2>1. c \in Claims!Supported \ D /\ D \subseteq Claims!Supported
    BY <1>4 DEF Claims!Supported, Claims!Digests
  <2>2. IsFiniteSet(Claims!Supported)
    BY FS_Subset DEF Claims!Supported, ClaimIInv, ClaimTypes
  <2>3. Cardinality(D) # Cardinality(Claims!Supported) /\ Cardinality(Claims!Supported) \in Nat
    BY <2>1, <2>2, FS_Subset, FS_CardinalityType
  <2>4. Cardinality(D) = Claims!Min({MaxDigest, Cardinality(Claims!Supported)})
    BY ClaimsCardinality DEF Claims!Digests
  <2>5. Claims!Min({MaxDigest, Cardinality(Claims!Supported)})
          \in {MaxDigest, Cardinality(Claims!Supported)}
    <3>1. \A a, b \in Nat : Claims!Min({a, b}) \in {a, b}
      <4>1. ASSUME NEW a \in Nat, NEW b \in Nat PROVE \E x \in {a, b} : \A y \in {a, b} : x <= y
        OBVIOUS
      <4> QED
        BY <4>1 DEF Claims!Min
    <3> QED
      BY <2>3, <3>1 DEF Claims!ClaimAssumption
  <2> QED
    BY <2>3, <2>4, <2>5, ClaimsCardinality
<1> QED
  BY <1>2, <1>3, <1>4

\* When it is done no page waits any more.
LEMMA ForgottenFollows == ClaimIInv => Claims!ForgottenIsForgotten
<1> SUFFICES ASSUME ClaimIInv, pc = "done", NEW c \in Claims!Ids, NEW p \in NotePages \ disturbed,
                    <<c, p>> \in listed, Claims!Once(page[p], c)
             PROVE  /\ source \notin MarkOf(c, p).evidence
                    /\ MarkOf(c, p).evidence = {} => MarkOf(c, p).status = "unknown"
                    /\ c \in Claims!Rows /\ claims[c].page = p =>
                         /\ claims[c].evidence = MarkOf(c, p).evidence
                         /\ claims[c].status = MarkOf(c, p).status
  BY DEF Claims!ForgottenIsForgotten, MarkOf
<1>1. Follows(c, p) /\ ~Waiting(p)
  BY DEF ClaimIInv, ListIsFollowed, ClaimTypes, Waiting
<1> QED
  BY <1>1 DEF Follows, Claims!Rows, Claims!RowOf

\* A step of the run is one of the claims, or leaves them alone.
LEMMA ClaimStep == [MCNext]_mcVars => [Claims!Next]_(Claims!vars)
  BY DEF MCNext, mcVars, claimVars, Claims!vars

(* For any pages, sources, markers and edits: when forget_source is done no  *)
(* claim it listed on a page cites the source, in the page or in the tables, *)
(* but for pages edited meanwhile; and no claim in doubt is missing from     *)
(* both the digest and the dashboards.                                       *)
THEOREM ClaimsAccountedFor == MCSpec => []ClaimsAreAccountedFor
<1>1. MCInit => ClaimIInv
  BY ClaimInit, Assumptions DEF MCInit
<1>2. ClaimIInv /\ [MCNext]_mcVars => ClaimIInv'
  BY ClaimStep, ClaimNext, Assumptions
<1>3. ClaimIInv => ClaimsAreAccountedFor
  BY NoneIsHidden, ForgottenFollows, Assumptions DEF ClaimsAreAccountedFor
<1> QED
  BY <1>1, <1>2, <1>3, PTL DEF MCSpec

-----------------------------------------------------------------------------
(* The search. *)

IndexRow(p) == [page : {p}, id : {0, 1}, text : Search!TextStates]
Found == UNION {IndexRow(p) : p \in Indexed}

SearchTypes ==
  /\ chunk \in [Indexed -> SUBSET Found]
  /\ \A p \in Indexed : \A r, r2 \in chunk[p] : r.page = p /\ r = r2
  /\ ledger \in [Indexed -> Search!TextStates]
  /\ job # Search!NoJob =>
       job.page \in Indexed /\ job.at \in {"insert", "ledger"} /\ job.text \in Search!TextStates
  /\ pins \subseteq Indexed /\ touched \subseteq Indexed
  /\ rows \subseteq Found /\ result \subseteq Found /\ pinned \subseteq Indexed
  /\ at \in {"idle", "lexical", "path", "vector", "recent", "pinlist", "pinrows", "bounds",
             "found", "scanned"}

Collecting == at \in {"lexical", "path", "vector", "recent", "pinlist", "pinrows"}

\* Whatever a lane has found is admitted, and says what the page's boundary says unless
\* the index is ahead or the page was rewritten since.
RowsAreAdmitted ==
  /\ at \in {"idle", "bounds", "found", "scanned"} => rows = {}
  /\ at \in {"idle"} \/ Collecting => result = {} /\ wanted = {} /\ unchecked = {}
  /\ \A r \in rows \cup result :
       /\ corpus = "any" => Kind[r.page] \notin Search!Unreviewed
       /\ at # "scanned" => r.text = ledger[r.page] \/ r.page \in touched \cup Search!Ahead
  /\ at = "scanned" => \A r \in result : r.text = "open"

\* A page that was asked about is in force, unless nobody could tell or it has changed.
AskedAreOpen == \A p \in wanted \ (unchecked \cup touched) : p \in Indexed /\ ledger[p] = "open"
FoundIsAsked == at = "found" => Search!PagesOf(result) \subseteq wanted

\* The pins the search took, and nobody touched since, are in the result.
PinsAreTaken ==
  at \in {"pinrows", "bounds", "found"} => pins \ touched \subseteq pinned
PinsAreKept ==
  at \in {"bounds", "found"} /\ Cardinality(pinned) <= MaxResults =>
    \A p \in pinned \ touched :
      Search!Admits(corpus, p) /\ chunk[p] # {} /\ ledger[p] = "open"
        => p \in Search!PagesOf(result)

SearchIInv == SearchTypes /\ RowsAreAdmitted /\ AskedAreOpen /\ FoundIsAsked /\ PinsAreTaken
              /\ PinsAreKept

\* The instance counts as FiniteSets does, and Min is the lesser of two.
LEMMA SearchCardinality == \A S : Search!Cardinality(S) = Cardinality(S)
  BY DEF Search!Cardinality, Cardinality, Search!IsFiniteSet, IsFiniteSet
LEMMA SearchFinite == \A S : Search!IsFiniteSet(S) = IsFiniteSet(S)
  BY DEF Search!IsFiniteSet, IsFiniteSet
LEMMA SearchMin ==
  ASSUME NEW a \in Nat, NEW b \in Nat
  PROVE  Search!Min({a, b}) = IF a <= b THEN a ELSE b
<1>1. \E x \in {a, b} : \A y \in {a, b} : x <= y
  OBVIOUS
<1>2. /\ Search!Min({a, b}) \in {a, b}
      /\ \A y \in {a, b} : Search!Min({a, b}) <= y
  BY <1>1 DEF Search!Min
<1> QED
  BY <1>2

\* There are finitely many rows: four of each page.
LEMMA FoundIsFinite == Search!RecallAssumption => IsFiniteSet(Found)
<1> SUFFICES ASSUME Search!RecallAssumption PROVE IsFiniteSet(Found)
  OBVIOUS
<1> DEFINE Of(i, t) == {[page |-> p, id |-> i, text |-> t] : p \in Indexed}
<1>1. ASSUME NEW i, NEW t PROVE IsFiniteSet(Of(i, t))
  <2> DEFINE f == [p \in Indexed |-> [page |-> p, id |-> i, text |-> t]]
  <2>1. f \in Surjection(Indexed, Of(i, t))
    BY DEF Surjection
  <2>2. IsFiniteSet(Indexed)
    BY SearchFinite DEF Search!RecallAssumption
  <2> QED
    BY <2>1, <2>2, FS_Surjection
<1>2. Found \subseteq (Of(0, "open") \cup Of(0, "embargoed"))
                        \cup (Of(1, "open") \cup Of(1, "embargoed"))
  BY DEF Found, IndexRow, Search!TextStates
<1> HIDE DEF Of
<1>3. IsFiniteSet(Of(0, "open") \cup Of(0, "embargoed"))
  BY <1>1, FS_Union
<1>4. IsFiniteSet(Of(1, "open") \cup Of(1, "embargoed"))
  BY <1>1, FS_Union
<1>5. IsFiniteSet((Of(0, "open") \cup Of(0, "embargoed"))
                     \cup (Of(1, "open") \cup Of(1, "embargoed")))
  BY <1>3, <1>4, FS_Union
<1> QED
  BY <1>2, <1>5, FS_Subset

\* What a lane returns of a set of pages: rows of theirs, admitted, and one at most of each.
LEMMA LaneIs ==
  ASSUME SearchTypes, NEW S \in SUBSET Indexed, NEW r \in Search!LaneRows(corpus, S)
  PROVE  /\ r \in Found /\ r.page \in S /\ r \in chunk[r.page]
         /\ Search!Admits(corpus, r.page)
<1>1. PICK q \in S : Search!Admits(corpus, q) /\ r \in chunk[q]
  BY DEF Search!LaneRows
<1>2. chunk[q] \subseteq Found /\ r.page = q
  BY <1>1 DEF SearchTypes
<1> QED
  BY <1>1, <1>2

\* The pinned rows are no more than the pins.
LEMMA PinnedRowsAreFew ==
  ASSUME SearchTypes, NEW S \in SUBSET Indexed, IsFiniteSet(S)
  PROVE  /\ IsFiniteSet(Search!LaneRows(corpus, S))
         /\ Cardinality(Search!LaneRows(corpus, S)) <= Cardinality(S)
<1> DEFINE P == Search!LaneRows(corpus, S)
           f == [r \in P |-> r.page]
<1>1. f \in [P -> S]
  BY LaneIs
<1>2. ASSUME NEW r \in P, NEW r2 \in P, f[r] = f[r2] PROVE r = r2
  <2>1. r.page = r2.page
    BY <1>2
  <2>2. r \in chunk[r.page] /\ r2 \in chunk[r2.page] /\ r.page \in Indexed
    BY LaneIs
  <2> QED
    BY <2>1, <2>2 DEF SearchTypes
<1>3. f \in Injection(P, S)
  BY <1>1, <1>2 DEF Injection, IsInjective
<1> HIDE DEF P, f
<1>4. IsFiniteSet(P) /\ Cardinality(P) <= Cardinality(S)
  BY <1>3, FS_Injection
<1> QED
  BY <1>4 DEF P

\* A cut of pins and others keeps every pin, when they fit.
LEMMA PinsFit ==
  ASSUME MaxResults \in Nat, NEW P, NEW F, IsFiniteSet(P), IsFiniteSet(F),
         Cardinality(P) <= MaxResults, NEW T \in Search!Combined(P, F)
  PROVE  P \subseteq T
<1> DEFINE S == P \cup F
<1>1. /\ IsFiniteSet(S) /\ Cardinality(S) \in Nat /\ Cardinality(P) \in Nat
      /\ Cardinality(P) <= Cardinality(S)
  <2>1. IsFiniteSet(S)
    BY FS_Union
  <2> QED
    BY <2>1, FS_CardinalityType, FS_Subset
<1>2. /\ T \subseteq S
      /\ Cardinality(T) = Search!Min({MaxResults, Cardinality(S)})
      /\ P \subseteq T \/ T \subseteq P
  BY SearchCardinality DEF Search!Combined, Search!Cuts
<1>3. Cardinality(P) <= Cardinality(T) /\ Cardinality(T) \in Nat
  BY <1>1, <1>2, SearchMin
<1>4. CASE T \subseteq P
  BY <1>1, <1>3, <1>4, FS_Subset
<1> QED
  BY <1>2, <1>4

LEMMA SearchInit == Search!RecallAssumption /\ Search!Init => SearchIInv
<1> SUFFICES ASSUME Search!RecallAssumption, Search!Init PROVE SearchIInv
  OBVIOUS
<1>1. \A p \in Indexed : Search!Row(p, 0, ledger[p]) \in Found
  BY DEF Search!Init, Found, IndexRow, Search!Row
<1>2. \A p \in Indexed : chunk[p] = {Search!Row(p, 0, ledger[p])}
  BY DEF Search!Init
<1>3. chunk \in [Indexed -> SUBSET Found]
  BY <1>1 DEF Search!Init
<1>4. \A p \in Indexed : \A r, r2 \in chunk[p] : r.page = p /\ r = r2
  BY <1>2 DEF Search!Row
<1>5. SearchTypes
  BY <1>3, <1>4 DEF Search!Init, SearchTypes
<1> QED
  BY <1>5 DEF Search!Init, SearchIInv, RowsAreAdmitted, AskedAreOpen, FoundIsAsked, PinsAreTaken,
              PinsAreKept, Collecting

\* What the index and the pins do meanwhile spares the pages it does not count as touched.
LEMMA MeanwhileKeeps ==
  ASSUME SearchIInv, SearchTypes', touched \subseteq touched', UNCHANGED Search!locals,
         \A p \in Indexed \ touched' :
           chunk'[p] = chunk[p] /\ ledger'[p] = ledger[p] /\ (p \in pins' <=> p \in pins)
  PROVE  SearchIInv'
<1> USE DEF SearchIInv, Search!locals
<1>1. Indexed \cap Search!Ahead \subseteq touched' \cup Search!Ahead'
  BY DEF Search!Ahead
<1>2. RowsAreAdmitted'
  <2>1. \A r \in rows \cup result : r.page \in Indexed
    BY DEF SearchTypes, Found, IndexRow
  <2>2. ASSUME NEW r \in rows \cup result,
               r.text = ledger[r.page] \/ r.page \in touched \cup Search!Ahead
        PROVE  r.text = ledger'[r.page] \/ r.page \in touched' \cup Search!Ahead'
    BY <1>1, <2>1, <2>2
  <2> QED
    BY <2>2 DEF RowsAreAdmitted, Collecting
<1>3. AskedAreOpen' /\ FoundIsAsked'
  BY DEF AskedAreOpen, FoundIsAsked, Search!PagesOf
<1>4. PinsAreTaken'
  BY DEF PinsAreTaken, SearchTypes
<1>5. PinsAreKept'
  BY DEF PinsAreKept, SearchTypes, Search!PagesOf, Search!Admits
<1> QED
  BY <1>2, <1>3, <1>4, <1>5

LEMMA IndexKeeps == SearchIInv /\ Search!Index => SearchIInv'
<1> SUFFICES ASSUME SearchIInv, Search!Index PROVE SearchIInv'
  OBVIOUS
<1> USE DEF SearchIInv, Search!Row
<1>1. ASSUME NEW q \in Indexed, Search!DropChunks(q) PROVE SearchIInv'
  <2>1. PICK t \in Search!TextStates : job' = [page |-> q, at |-> "insert", text |-> t]
    BY <1>1 DEF Search!DropChunks
  <2>2. SearchTypes'
    BY <1>1, <2>1 DEF Search!DropChunks, SearchTypes, Search!locals
  <2> QED
    BY <1>1, <2>2, MeanwhileKeeps DEF Search!DropChunks, SearchTypes
<1>2. CASE Search!InsertChunks
  <2>1. job.page \in Indexed /\ job.text \in Search!TextStates /\ job # Search!NoJob
    BY <1>2 DEF Search!InsertChunks, SearchTypes, Search!NoJob
  <2>2. Search!Row(job.page, 1, job.text) \in Found
    BY <2>1 DEF Found, IndexRow
  <2>3. /\ job' # Search!NoJob => job'.page \in Indexed /\ job'.at \in {"insert", "ledger"}
                                    /\ job'.text \in Search!TextStates
    BY <1>2, <2>1 DEF Search!InsertChunks
  <2>4. chunk' \in [Indexed -> SUBSET Found]
    BY <1>2, <2>1, <2>2 DEF Search!InsertChunks, SearchTypes
  <2>5. \A p \in Indexed : \A r, r2 \in chunk'[p] : r.page = p /\ r = r2
    BY <1>2, <2>1 DEF Search!InsertChunks, SearchTypes
  <2>6. SearchTypes'
    BY <1>2, <2>1, <2>3, <2>4, <2>5 DEF Search!InsertChunks, SearchTypes, Search!locals
  <2> QED
    BY <1>2, <2>1, <2>6, MeanwhileKeeps DEF Search!InsertChunks, SearchTypes
<1>3. CASE Search!WriteBoundary
  <2>1. job.page \in Indexed /\ job.text \in Search!TextStates
    BY <1>3 DEF Search!WriteBoundary, SearchTypes, Search!NoJob
  <2>2. SearchTypes'
    BY <1>3, <2>1 DEF Search!WriteBoundary, SearchTypes, Search!locals
  <2> QED
    BY <1>3, <2>1, <2>2, MeanwhileKeeps DEF Search!WriteBoundary, SearchTypes
<1>4. CASE Search!StopReindex
  <2>1. SearchTypes'
    BY <1>4 DEF Search!StopReindex, SearchTypes, Search!locals
  <2> QED
    BY <1>4, <2>1, MeanwhileKeeps DEF Search!StopReindex
<1>5. ASSUME NEW q \in Indexed, Search!Pin(q) PROVE SearchIInv'
  <2>1. SearchTypes'
    BY <1>5 DEF Search!Pin, SearchTypes, Search!locals
  <2> QED
    BY <1>5, <2>1, MeanwhileKeeps DEF Search!Pin
<1> QED
  BY <1>1, <1>2, <1>3, <1>4, <1>5 DEF Search!Index

\* A lane adds admitted rows of the index as it is.
LEMMA LaneKeeps == SearchIInv /\ Search!Lane => SearchIInv'
<1> SUFFICES ASSUME SearchIInv, Search!Lane PROVE SearchIInv'
  OBVIOUS
<1> USE DEF SearchIInv
<1>1. PICK S \in SUBSET Indexed : rows' = rows \cup Search!LaneRows(corpus, S)
  BY DEF Search!Lane, Search!LexicalLane, Search!PathLane, Search!VectorLane,
         Search!RecentLane, Search!Fused
<1>2. /\ at \in {"lexical", "path", "vector", "recent"}
      /\ at' \in {"path", "vector", "recent", "pinlist"}
      /\ UNCHANGED <<Search!index, corpus, pinned, result, wanted, unchecked>>
  BY DEF Search!Lane, Search!LexicalLane, Search!PathLane, Search!VectorLane,
         Search!RecentLane, Search!Next4
<1>3. SearchTypes'
  BY <1>1, <1>2, LaneIs DEF SearchTypes, Search!index
<1>4. ASSUME NEW r \in Search!LaneRows(corpus, S)
      PROVE  /\ corpus = "any" => Kind[r.page] \notin Search!Unreviewed
             /\ r.text = ledger[r.page] \/ r.page \in Search!Ahead
  BY LaneIs DEF Search!Ahead, Search!Admits
<1>5. RowsAreAdmitted'
  <2>1. Search!Ahead' = Search!Ahead
    BY <1>2 DEF Search!index, Search!Ahead
  <2> QED
    BY <1>1, <1>2, <1>4, <2>1 DEF RowsAreAdmitted, Collecting, Search!index
<1> QED
  BY <1>2, <1>3, <1>5 DEF AskedAreOpen, FoundIsAsked, PinsAreTaken, PinsAreKept, Search!index

\* What is combined is what was found and pinned; pins that fit are all there.
LEMMA CombineKeeps == Search!RecallAssumption /\ SearchIInv /\ Search!Combine => SearchIInv'
<1> SUFFICES ASSUME Search!RecallAssumption, SearchIInv, Search!Combine PROVE SearchIInv'
  OBVIOUS
<1> USE DEF SearchIInv
<1> DEFINE P == Search!LaneRows(corpus, pinned)
<1>1. PICK final \in Search!Cuts(rows) : result' \in Search!Combined(P, final)
  BY DEF Search!Combine, Search!PinnedRows
<1>2. final \subseteq rows /\ result' \subseteq P \cup final
  BY <1>1 DEF Search!Cuts, Search!Combined
<1>3. /\ at = "pinrows" /\ at' = "bounds" /\ rows' = {}
      /\ UNCHANGED <<Search!index, corpus, pinned, wanted, unchecked>>
  BY DEF Search!Combine
<1>4. P \subseteq Found /\ pinned \subseteq Indexed
  BY LaneIs DEF SearchTypes
<1>5. SearchTypes'
  BY <1>2, <1>3, <1>4 DEF SearchTypes, Search!index
<1>6. ASSUME NEW r \in P
      PROVE  /\ corpus = "any" => Kind[r.page] \notin Search!Unreviewed
             /\ r.text = ledger[r.page] \/ r.page \in Search!Ahead
  BY <1>4, LaneIs DEF Search!Ahead, Search!Admits
<1>7. Search!Ahead' = Search!Ahead
  BY <1>3 DEF Search!index, Search!Ahead
<1>8. RowsAreAdmitted'
  BY <1>2, <1>3, <1>6, <1>7 DEF RowsAreAdmitted, Collecting, Search!index
<1>9. PinsAreKept'
  <2> SUFFICES ASSUME Cardinality(pinned) <= MaxResults, NEW p \in pinned \ touched,
                      Search!Admits(corpus, p), chunk[p] # {}, ledger[p] = "open"
               PROVE  p \in Search!PagesOf(result')
    BY <1>3 DEF PinsAreKept, Search!index, Search!Admits, Search!PagesOf
  <2>1. IsFiniteSet(pinned) /\ Cardinality(pinned) \in Nat
    BY <1>4, FS_Subset, FS_CardinalityType, SearchFinite DEF Search!RecallAssumption
  <2>2. IsFiniteSet(P) /\ Cardinality(P) <= Cardinality(pinned) /\ Cardinality(P) \in Nat
    BY <1>4, <2>1, PinnedRowsAreFew, FS_CardinalityType
  <2>3. IsFiniteSet(final)
    BY <1>2, FoundIsFinite, FS_Subset DEF SearchTypes
  <2>4. MaxResults \in Nat /\ Cardinality(P) <= MaxResults
    BY <2>1, <2>2 DEF Search!RecallAssumption
  <2>5. P \subseteq result'
    <3> HIDE DEF P
    <3> QED
      BY <1>1, <2>2, <2>3, <2>4, PinsFit
  <2>6. PICK r \in chunk[p] : TRUE
    OBVIOUS
  <2>7. r \in P /\ r.page = p
    BY <1>4, <2>6 DEF Search!LaneRows, SearchTypes
  <2> QED
    BY <2>5, <2>7 DEF Search!PagesOf
<1> QED
  BY <1>3, <1>5, <1>8, <1>9 DEF AskedAreOpen, FoundIsAsked, PinsAreTaken, Search!index

\* The scan shows open texts of reviewed pages, whatever the files say by now.
LEMMA ScanIs ==
  ASSUME NEW S \in SUBSET Indexed, NEW texts \in [Indexed -> Search!TextStates],
         NEW T \in Search!Scanned(corpus, S, texts)
  PROVE  /\ T \subseteq Found
         /\ \A r \in T : /\ r.text = "open"
                         /\ corpus = "any" => Kind[r.page] \notin Search!Unreviewed
<1> DEFINE C == Search!ScanCandidates(corpus, S, texts)
<1>1. \A r \in T : \E p \in C : r = Search!Row(p, 0, texts[p])
  BY DEF Search!Scanned, Search!Cuts
<1>2. ASSUME NEW p \in C
      PROVE  /\ p \in Indexed /\ texts[p] = "open"
             /\ corpus = "any" => Kind[p] \notin Search!Unreviewed
  BY DEF Search!ScanCandidates, Search!OnFile, Search!Unreviewed
<1>3. ASSUME NEW p \in C PROVE Search!Row(p, 0, texts[p]) \in Found
  BY <1>2 DEF Search!Row, Found, IndexRow, Search!TextStates
<1> HIDE DEF C
<1> QED
  BY <1>1, <1>2, <1>3 DEF Search!Row

\* Every step of the search itself keeps the invariant.
LEMMA SearchKeeps == Search!RecallAssumption /\ SearchIInv /\ Search!Search => SearchIInv'
<1> SUFFICES ASSUME Search!RecallAssumption, SearchIInv, Search!Search PROVE SearchIInv'
  OBVIOUS
<1> USE DEF SearchIInv, Search!index
<1>1. CASE Search!Start
  <2>1. ASSUME NEW p \in Indexed, NEW r \in chunk[p]
        PROVE  [r EXCEPT !.id = 0] \in IndexRow(p) /\ [r EXCEPT !.id = 0].page = p
    BY DEF SearchTypes, Found, IndexRow
  <2>2. /\ chunk' = [p \in Indexed |-> {[r EXCEPT !.id = 0] : r \in chunk[p]}]
        /\ UNCHANGED <<ledger, job, pins, rows, pinned, result, wanted, unchecked>>
        /\ at = "idle" /\ at' = "lexical" /\ touched' = {}
    BY <1>1 DEF Search!Start
  <2>3. chunk' \in [Indexed -> SUBSET Found]
    BY <2>1, <2>2 DEF Found
  <2>4. \A p \in Indexed : \A r, r2 \in chunk'[p] : r.page = p /\ r = r2
    <3> SUFFICES ASSUME NEW p \in Indexed, NEW r \in chunk'[p], NEW r2 \in chunk'[p]
                 PROVE  r.page = p /\ r = r2
      OBVIOUS
    <3>1. PICK q \in chunk[p], q2 \in chunk[p] :
            r = [q EXCEPT !.id = 0] /\ r2 = [q2 EXCEPT !.id = 0]
      BY <2>2
    <3>2. q = q2
      BY DEF SearchTypes
    <3> QED
      BY <2>1, <3>1, <3>2
  <2>5. SearchTypes'
    BY <2>2, <2>3, <2>4 DEF SearchTypes
  <2> QED
    BY <2>2, <2>5 DEF RowsAreAdmitted, AskedAreOpen, FoundIsAsked, PinsAreTaken, PinsAreKept,
                      Collecting
<1>2. CASE Search!Lane
  BY <1>2, LaneKeeps
<1>3. CASE Search!ReadPins
  <2>1. SearchTypes'
    BY <1>3 DEF Search!ReadPins, SearchTypes
  <2>2. Search!Ahead' = Search!Ahead
    BY <1>3 DEF Search!ReadPins, Search!Ahead
  <2> QED
    BY <1>3, <2>1, <2>2 DEF Search!ReadPins, RowsAreAdmitted, AskedAreOpen, FoundIsAsked,
       PinsAreTaken, PinsAreKept, Collecting
<1>4. CASE Search!Combine
  BY <1>4, CombineKeeps
<1>5. CASE Search!Finish
  <2>1. SearchTypes'
    BY <1>5 DEF Search!Finish, SearchTypes
  <2>2. Search!Ahead' = Search!Ahead
    BY <1>5 DEF Search!Finish, Search!Ahead
  <2>3. RowsAreAdmitted' /\ AskedAreOpen'
    BY <1>5, <2>2 DEF Search!Finish, RowsAreAdmitted, AskedAreOpen, Collecting
  <2>4. FoundIsAsked' /\ PinsAreTaken' /\ PinsAreKept'
    BY <1>5 DEF Search!Finish, FoundIsAsked, PinsAreTaken, PinsAreKept, Search!PagesOf,
       Search!Admits
  <2> QED
    BY <2>1, <2>3, <2>4
<1>6. CASE Search!FallBack
  <2>1. PICK S \in SUBSET Indexed, texts \in [Indexed -> Search!TextStates] :
          result' \in Search!Scanned(corpus, S, texts)
    BY <1>6 DEF Search!FallBack
  <2>2. /\ result' \subseteq Found
        /\ \A r \in result' : /\ r.text = "open"
                              /\ corpus = "any" => Kind[r.page] \notin Search!Unreviewed
    BY <2>1, ScanIs
  <2>3. /\ Collecting /\ at' = "scanned" /\ rows' = {} /\ pinned' = {}
        /\ UNCHANGED <<Search!index, corpus, wanted, unchecked>>
    BY <1>6 DEF Search!FallBack, Collecting
  <2>4. SearchTypes'
    BY <2>2, <2>3 DEF SearchTypes
  <2> QED
    BY <2>2, <2>3, <2>4 DEF RowsAreAdmitted, AskedAreOpen, FoundIsAsked, PinsAreTaken,
       PinsAreKept, Collecting
<1>7. CASE Search!Done
  <2>1. SearchTypes'
    BY <1>7 DEF Search!Done, SearchTypes
  <2> QED
    BY <1>7, <2>1 DEF Search!Done, RowsAreAdmitted, AskedAreOpen, FoundIsAsked, PinsAreTaken,
       PinsAreKept, Collecting
<1>8. ASSUME NEW p \in Indexed, Search!LookUp(p) PROVE SearchIInv'
  <2>1. /\ at = "bounds" /\ UNCHANGED <<Search!index, corpus, at, rows, pinned>>
        /\ result' \subseteq result
        /\ \A r \in result \ result' : ledger[r.page] # "open"
    BY <1>8 DEF Search!LookUp
  <2>2. SearchTypes'
    BY <2>1 DEF SearchTypes
  <2>3. Search!Ahead' = Search!Ahead
    BY <2>1 DEF Search!Ahead
  <2>4. RowsAreAdmitted'
    BY <2>1, <2>3 DEF RowsAreAdmitted, Collecting
  <2>5. AskedAreOpen'
    BY <1>8, <2>1 DEF Search!LookUp, AskedAreOpen
  <2>6. PinsAreKept'
    BY <2>1 DEF PinsAreKept, Search!PagesOf, Search!Admits
  <2> QED
    BY <2>1, <2>2, <2>4, <2>5, <2>6 DEF FoundIsAsked, PinsAreTaken
<1> QED
  BY <1>1, <1>2, <1>3, <1>4, <1>5, <1>6, <1>7, <1>8 DEF Search!Search

LEMMA SearchNext ==
  Search!RecallAssumption /\ SearchIInv /\ [Search!Next]_(Search!vars) => SearchIInv'
<1>1. ASSUME SearchIInv, UNCHANGED Search!vars PROVE SearchIInv'
  <2>1. SearchTypes' /\ UNCHANGED Search!locals /\ UNCHANGED <<chunk, ledger, pins, touched>>
    BY <1>1 DEF Search!vars, Search!locals, SearchIInv, SearchTypes
  <2> QED
    BY <1>1, <2>1, MeanwhileKeeps
<1> QED
  BY <1>1, SearchKeeps, IndexKeeps DEF Search!Next

\* What a search shows was admitted, and a text it shows outside its window is one it
\* could not know about.
LEMMA ShownIsInForce == SearchIInv => Search!ReviewedAndInForce
<1> SUFFICES ASSUME SearchIInv, at \in {"found", "scanned"}, NEW r \in result
             PROVE  /\ corpus = "any" => Kind[r.page] \notin Search!Unreviewed
                    /\ r.text = "embargoed" =>
                         /\ at = "found"
                         /\ r.page \in touched \cup unchecked \cup Search!Ahead
  BY DEF Search!ReviewedAndInForce, Search!Shown
<1>1. r.page \in Indexed
  BY DEF SearchIInv, SearchTypes, Found, IndexRow
<1>2. at = "found" => r.page \in wanted
  BY DEF SearchIInv, FoundIsAsked, Search!PagesOf
<1> QED
  BY <1>1, <1>2 DEF SearchIInv, RowsAreAdmitted, AskedAreOpen

\* Every pin that was due is among those the search took.
LEMMA PinsFollow == Search!RecallAssumption /\ SearchIInv => Search!PinsAreShown
<1> SUFFICES ASSUME Search!RecallAssumption, SearchIInv, at = "found",
                    Search!Cardinality(pinned \cup pins) <= MaxResults,
                    NEW p \in pins \ (touched \cup Search!Ahead),
                    chunk[p] # {}, ledger[p] = "open", Search!Admits(corpus, p)
             PROVE  p \in Search!PagesOf(result)
  BY DEF Search!PinsAreShown, Search!Shown
<1>1. IsFiniteSet(pinned \cup pins)
  BY FS_Subset, SearchFinite DEF Search!RecallAssumption, SearchIInv, SearchTypes
<1>2. /\ Cardinality(pinned) <= Cardinality(pinned \cup pins)
      /\ Cardinality(pinned) \in Nat /\ Cardinality(pinned \cup pins) \in Nat
  BY <1>1, FS_Subset, FS_CardinalityType
<1>3. Cardinality(pinned) <= MaxResults
  BY <1>2, SearchCardinality DEF Search!RecallAssumption
<1>4. p \in pinned \ touched
  BY DEF SearchIInv, PinsAreTaken
<1> QED
  BY <1>3, <1>4 DEF SearchIInv, PinsAreKept

\* A step of the run is one of the search or of the index, or leaves them alone.
LEMMA SearchStep == [MCNext]_mcVars => [Search!Next]_(Search!vars)
  BY DEF MCNext, mcVars, searchVars, Search!vars

(* For any pages, kinds and size of the answer: a search that names no       *)
(* corpus shows nothing nobody has reviewed, by whichever lane, pin or scan; *)
(* it shows no text outside its window but one it could not know about; and  *)
(* every pin that is due, and fits, is in the answer.                        *)
THEOREM SearchSound == MCSpec => []SearchIsSound
<1>1. MCInit => SearchIInv
  BY SearchInit, Assumptions DEF MCInit
<1>2. SearchIInv /\ [MCNext]_mcVars => SearchIInv'
  BY SearchStep, SearchNext, Assumptions
<1>3. SearchIInv => SearchIsSound
  BY ShownIsInForce, PinsFollow, Assumptions DEF SearchIsSound
<1> QED
  BY <1>1, <1>2, <1>3, PTL DEF MCSpec
=============================================================================
