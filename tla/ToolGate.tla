------------------------------ MODULE ToolGate ------------------------------
(***************************************************************************)
(* What stands between a tool call of the model and its effect: the policy *)
(* of the agent, the user's answers that hold for the session, the audit   *)
(* log, and the files the agents share.  An agent makes one such call at a *)
(* time; agents work in the same directory, each with a policy of its own; *)
(* the user switches plan mode and answers the prompts.                    *)
(*                                                                         *)
(* A file is the set of marks written into it: a write leaves its own mark *)
(* alone, an edit adds its mark to what it read.                           *)
(***************************************************************************)
EXTENDS Naturals, FiniteSets, SequencesExt

CONSTANTS Agents,
          Asking,      \* agents built with the approval callbacks
          Commands,
          Blocked,     \* commands that name a metadata endpoint
          MaxAudit     \* AuditLog._MAX

ASSUME GateAssumption ==
  /\ Asking \subseteq Agents
  /\ Blocked \subseteq Commands
  /\ MaxAudit \in Nat \ {0}

VARIABLES
  plan,       \* agents whose policy is read-only
  allowed,    \* [Agents -> SUBSET Commands]: _session_allowed
  denied,     \* [Agents -> SUBSET Commands]: _session_denied
  audit,      \* [Agents -> Seq]: the entries, oldest first
  call,       \* [Agents -> the call under way]
  file,       \* the marks in the file
  standing,   \* history: [Agents -> [Commands -> what the user last said]]
  asked,      \* history: agents whose call the user has approved
  overtaken   \* history: agents whose file changed since their edit read it

vars == <<plan, allowed, denied, audit, call, file, standing, asked, overtaken>>

Idle == [tool |-> "none", at |-> "idle"]
Bash(c) == [tool |-> "bash", at |-> "check", command |-> c]
Tool(t) == [tool |-> t, at |-> "check", seen |-> {}]

Entry(what, decision) == [what |-> what, decision |-> decision]

Goto(a, at) == call' = [call EXCEPT ![a].at = at]
Return(a) == /\ call' = [call EXCEPT ![a] = Idle]
             /\ asked' = asked \ {a}
             /\ overtaken' = overtaken \ {a}

\* AuditLog.record: at the limit the oldest entry goes.
Recorded(log, e) == (IF Len(log) >= MaxAudit THEN Tail(log) ELSE log) \o <<e>>
Record(a, e) == audit' = [audit EXCEPT ![a] = Recorded(@, e)]
-----------------------------------------------------------------------------
(* The user. *)

\* /plan and /auto, whatever the agent is doing.
TogglePlan(a) ==
  /\ plan' = IF a \in plan THEN plan \ {a} ELSE plan \cup {a}
  /\ UNCHANGED <<allowed, denied, audit, call, file, standing, asked, overtaken>>
-----------------------------------------------------------------------------
(* ToolRegistry.execute and the tools. *)

Call(a) ==
  /\ call[a] = Idle
  /\ \/ \E c \in Commands : call' = [call EXCEPT ![a] = Bash(c)]
     \/ \E t \in {"write", "edit", "commit", "patch"} :
          call' = [call EXCEPT ![a] = Tool(t)]
  /\ UNCHANGED <<plan, allowed, denied, audit, file, standing, asked, overtaken>>

\* check_command: the endpoints first, then plan mode; a refusal is recorded.
Refused(a, c) == c \in Blocked \/ a \in plan

CheckCommand(a) ==
  /\ call[a].tool = "bash" /\ call[a].at = "check"
  /\ LET c == call[a].command
     IN  IF Refused(a, c)
         THEN Record(a, Entry(c, "denied")) /\ Return(a)
         ELSE Goto(a, "ask") /\ UNCHANGED <<audit, asked, overtaken>>
  /\ UNCHANGED <<plan, allowed, denied, file, standing>>

\* Denied for the session: blocked without asking.
BlockedForSession(a) ==
  /\ call[a].tool = "bash" /\ call[a].at = "ask"
  /\ call[a].command \in denied[a]
  /\ Record(a, Entry(call[a].command, "denied"))
  /\ Return(a)
  /\ UNCHANGED <<plan, allowed, denied, file, standing>>

\* Allowed for the session, or nobody to ask.
NotAsked(a) ==
  /\ call[a].tool = "bash" /\ call[a].at = "ask"
  /\ call[a].command \notin denied[a]
  /\ call[a].command \in allowed[a] \/ a \notin Asking
  /\ Goto(a, "allowed")
  /\ UNCHANGED <<plan, allowed, denied, audit, file, standing, asked, overtaken>>

\* What an answer changes for the rest of the session.
ForgottenAtOnce(set, a, c, answer, kind) == set

Remembered(set, a, c, answer, kind) ==
  IF answer = kind THEN [set EXCEPT ![a] = @ \cup {c}] ELSE set

\* The four-way menu.
Answer(a) ==
  /\ call[a].tool = "bash" /\ call[a].at = "ask"
  /\ a \in Asking
  /\ call[a].command \notin denied[a] \cup allowed[a]
  /\ \E answer \in {"once", "session", "no", "never"} :
       LET c == call[a].command
       IN  /\ allowed' = Remembered(allowed, a, c, answer, "session")
           /\ denied' = Remembered(denied, a, c, answer, "never")
           /\ standing' = IF answer \in {"session", "never"}
                          THEN [standing EXCEPT ![a][c] = answer]
                          ELSE standing
           /\ IF answer \in {"no", "never"}
              THEN Record(a, Entry(c, "denied")) /\ Return(a)
              ELSE /\ Goto(a, "allowed")
                   /\ asked' = asked \cup {a}
                   /\ UNCHANGED <<audit, overtaken>>
  /\ UNCHANGED <<plan, file>>

\* The decision is recorded, then the process is started.
RecordAllowed(a) ==
  /\ call[a].tool = "bash" /\ call[a].at = "allowed"
  /\ Record(a, Entry(call[a].command, "allowed"))
  /\ Goto(a, "run")
  /\ UNCHANGED <<plan, allowed, denied, file, standing, asked, overtaken>>

\* What the command does to the file nobody can say: it may write it anew.
\* It ends, fails, or its shell is killed at the timeout.
Run(a) ==
  /\ call[a].tool = "bash" /\ call[a].at = "run"
  /\ \/ file' = file
     \/ file' = {a}
  /\ call' = [call EXCEPT ![a] = Idle]
  /\ asked' = asked \ {a}
  /\ overtaken' = IF file' = file THEN overtaken \ {a}
                  ELSE {b \in Agents \ {a} : call[b].at = "put"} \cup overtaken
  /\ UNCHANGED <<plan, allowed, denied, audit, standing>>

\* check_write of write, edit, commit and apply_patch: a credential's path and
\* one outside the workspace are denied in any mode, every path in plan mode.
CheckWrite(a) ==
  /\ call[a].tool \in {"write", "edit", "commit", "patch"}
  /\ call[a].at = "check"
  /\ \/ Record(a, Entry(call[a].tool, "denied")) /\ Return(a)
     \/ /\ a \notin plan
        /\ Goto(a, CASE call[a].tool = "edit" -> "read"
                     [] call[a].tool = "commit" -> "confirm"
                     [] OTHER -> "put")
        /\ UNCHANGED <<audit, asked, overtaken>>
  /\ UNCHANGED <<plan, allowed, denied, file, standing>>

\* The edit reads the file; its string is there once, or it gives up.
ReadFile(a) ==
  /\ call[a].at = "read"
  /\ \/ call' = [call EXCEPT ![a].at = "put", ![a].seen = file]
        /\ overtaken' = overtaken \ {a}
        /\ UNCHANGED asked
     \/ Return(a)
  /\ UNCHANGED <<plan, allowed, denied, audit, file, standing>>

\* What the edit writes back: what it read with one string replaced.
ReplacedAll(a, seen) == {a}
Replaced(a, seen) == seen \cup {a}

\* A patch changes the file as it is, under git's own read and write.
Put(a) ==
  /\ call[a].tool \in {"write", "edit", "patch"} /\ call[a].at = "put"
  /\ file' = CASE call[a].tool = "write" -> {a}
               [] call[a].tool = "edit" -> Replaced(a, call[a].seen)
               [] OTHER -> file \cup {a}
  /\ call' = [call EXCEPT ![a] = Idle]
  /\ asked' = asked \ {a}
  /\ overtaken' = {b \in Agents \ {a} : call[b].at = "put" /\ file' # file}
                  \cup (overtaken \ {a})
  /\ UNCHANGED <<plan, allowed, denied, audit, standing>>

\* The git prompt; a commit that is cancelled leaves no entry.
Confirm(a) ==
  /\ call[a].at = "confirm"
  /\ \/ Goto(a, "commit") /\ asked' = asked \cup {a} /\ UNCHANGED overtaken
     \/ a \in Asking /\ Return(a)
  /\ UNCHANGED <<plan, allowed, denied, audit, file, standing>>

Commit(a) ==
  /\ call[a].at = "commit"
  /\ Return(a)
  /\ UNCHANGED <<plan, allowed, denied, audit, file, standing>>

\* The disk is full, the prompt's input ended: the registry catches it.
Raise(a) ==
  /\ \/ call[a].at \in {"put", "commit", "confirm"}
     \/ call[a].at = "ask" /\ a \in Asking
          /\ call[a].command \notin denied[a] \cup allowed[a]
  /\ Return(a)
  /\ UNCHANGED <<plan, allowed, denied, audit, file, standing>>
-----------------------------------------------------------------------------
Init ==
  /\ plan = {}
  /\ allowed = [a \in Agents |-> {}]
  /\ denied = [a \in Agents |-> {}]
  /\ audit = [a \in Agents |-> <<>>]
  /\ call = [a \in Agents |-> Idle]
  /\ file = {}
  /\ standing = [a \in Agents |-> [c \in Commands |-> "nothing"]]
  /\ asked = {} /\ overtaken = {}

Next ==
  \E a \in Agents :
    \/ TogglePlan(a) \/ Call(a)
    \/ CheckCommand(a) \/ BlockedForSession(a) \/ NotAsked(a) \/ Answer(a)
    \/ RecordAllowed(a) \/ Run(a)
    \/ CheckWrite(a) \/ ReadFile(a) \/ Put(a) \/ Confirm(a) \/ Commit(a)
    \/ Raise(a)

Spec == Init /\ [][Next]_vars
-----------------------------------------------------------------------------
(* What makes it correct. *)

\* SAFETY.  The command an agent runs names no metadata endpoint, was never
\* denied for the session to this agent, was approved by the user for this
\* call or, to this very agent, for the session (or the agent has nobody to
\* ask), and the newest entry of the agent's audit log says it was allowed.
RunsAreApproved ==
  \A a \in Agents : call[a].tool = "bash" /\ call[a].at = "run" =>
    LET c == call[a].command
    IN  /\ c \notin Blocked
        /\ standing[a][c] # "never"
        /\ a \in Asking => a \in asked \/ standing[a][c] = "session"
        /\ Last(audit[a]) = Entry(c, "allowed")

\* ACTION.  An edit leaves in the file everything that was in it, unless the
\* file was changed by somebody else after the edit had read it.
EditsKeepTheRest ==
  [][\A a \in Agents :
       call[a].tool = "edit" /\ call[a].at = "put" /\ Put(a)
         => file \subseteq file' \/ a \in overtaken]_vars
=============================================================================
