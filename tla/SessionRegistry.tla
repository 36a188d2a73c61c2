-------------------------- MODULE SessionRegistry --------------------------
(***************************************************************************)
(* sessions.json (session/store.py): which session each agent is in and    *)
(* which sub-agents it has spawned, kept in one dictionary that every      *)
(* thread of the process shares, without a lock, and saved whole after     *)
(* every change through one temporary file.  The callers are the threads   *)
(* that run turns of one agent (the command line, the Matrix executor, the *)
(* heartbeat's timer); a turn may spawn sub-agents, each on a thread of    *)
(* its own, under the limit of spawn_registry.py.                   *)
(***************************************************************************)
EXTENDS Naturals, FiniteSets

CONSTANTS
    Callers,
    Children,    \* the ids sub-agents may get
    NoFile,
    Torn,        \* a file that does not parse
    MaxChildren, \* multi_agent.max_children_per_agent
    MaxSessions, \* bound: session ids of the agent
    MaxTouches,  \* bound: turns of the callers
    MaxStops     \* bound: crashes and exits

NoChild   == "no child"
\* The agent's session id (0: no record of the agent) and the sub-agents
\* that have a record with the agent as their parent_id.
Registry  == [session : 0..MaxSessions, kids : SUBSET Children]

RegistryAssumption ==
    /\ {MaxChildren, MaxSessions, MaxTouches, MaxStops} \subseteq Nat
    /\ MaxSessions > 0
    /\ Callers \cap Children = {} /\ NoChild \notin Children
    /\ NoFile # Torn /\ {NoFile, Torn} \cap Registry = {}

AllThreads   == Callers \cup Children
Empty     == [session |-> 0, kids |-> {}]
Saving    == {"dumping", "dumped", "opened", "written"}

VARIABLES
    up,        \* the process runs
    cache,     \* SessionStore._cache
    path,      \* sessions.json
    tmp,       \* sessions.tmp
    at,        \* where each thread is
    why,       \* the operation whose save it is in
    snap,      \* the dictionary its json.dumps began with, then what it made
    fd,        \* which file its open handle is on: "tmp", "path", "gone" or "none"
    child,     \* the sub-agent a caller is spawning or waits for
    latest,    \* the last session id made
    ran,       \* history: sub-agents whose thread was started
    alone,     \* history: saves no other save has overlapped
    mixed,     \* history: overlapping saves, and none since that was alone
    lapsed,    \* history: how they left a start a file without a sub-agent that ran
    raced,     \* history: two spawns were between their check and their record
    touches,
    stops

files   == <<path, tmp>>
history == <<alone, mixed, lapsed, raced>>
vars    == <<up, cache, path, tmp, at, why, snap, fd, child, latest, ran,
             alone, mixed, lapsed, raced, touches, stops>>

Begun == [session |-> 1, kids |-> {}]

Init ==
    /\ up = TRUE
    /\ cache = Begun /\ path = Begun /\ tmp = NoFile
    /\ at = [t \in AllThreads |-> IF t \in Callers THEN "idle" ELSE "unborn"]
    /\ why = [t \in AllThreads |-> "none"]
    /\ snap = [t \in AllThreads |-> Empty]
    /\ fd = [t \in AllThreads |-> "none"]
    /\ child = [c \in Callers |-> NoChild]
    /\ latest = 1 /\ ran = {}
    /\ alone = {} /\ mixed = FALSE /\ lapsed = "never" /\ raced = FALSE
    /\ touches = 0 /\ stops = 0

Savers == {t \in AllThreads : at[t] \in Saving}

-----------------------------------------------------------------------------
\* An operation changes the shared dictionary and goes on to save it.
Change(t, operation, registry) ==
    /\ cache' = registry
    /\ snap' = [snap EXCEPT ![t] = registry]
    /\ at' = [at EXCEPT ![t] = "dumping"]
    /\ why' = [why EXCEPT ![t] = operation]
    /\ alone' = IF Savers = {} THEN {t} ELSE {}
    /\ mixed' = (mixed \/ Savers # {})

\* The end of a turn, a caller's or a sub-agent's: last_active and turn_count.
Touch(t) ==
    /\ up
    /\ \/ t \in Callers /\ at[t] = "idle" /\ touches < MaxTouches /\ touches' = touches + 1
       \/ t \in Children /\ at[t] = "running" /\ UNCHANGED touches
    /\ Change(t, "touch", cache)
    /\ UNCHANGED <<up, files, fd, child, latest, ran, lapsed, raced, stops>>

\* /new and /session: another session id for the agent.
NewSession(c) ==
    /\ up /\ at[c] = "idle" /\ latest < MaxSessions
    /\ latest' = latest + 1
    /\ Change(c, "new", [cache EXCEPT !.session = latest + 1])
    /\ UNCHANGED <<up, files, fd, child, ran, lapsed, raced, touches, stops>>

\* count_active_children: every record with this parent_id, ended or not.
CountChildren == Cardinality(cache.kids)

\* The limit is checked ...
AdmitSpawn(c) ==
    /\ up /\ at[c] = "idle"
    /\ CountChildren < MaxChildren
    /\ at' = [at EXCEPT ![c] = "admitted"]
    /\ raced' = (raced \/ \E d \in Callers \ {c} : at[d] = "admitted")
    /\ UNCHANGED <<up, cache, files, why, snap, fd, child, latest, ran, alone, mixed, lapsed, touches, stops>>

\* ... then the record is made under a new id ...
CreateChild(c) ==
    /\ up /\ at[c] = "admitted"
    /\ \E k \in Children :
           /\ at[k] = "unborn" /\ k \notin cache.kids /\ \A d \in Callers : child[d] # k
           /\ child' = [child EXCEPT ![c] = k]
           /\ Change(c, "create", [cache EXCEPT !.kids = @ \cup {k}])
    /\ UNCHANGED <<up, files, fd, latest, ran, lapsed, raced, touches, stops>>

\* ... and given a session of its own.
RenewChild(c) ==
    /\ up /\ at[c] = "created"
    /\ Change(c, "renew", cache)
    /\ UNCHANGED <<up, files, fd, child, latest, ran, lapsed, raced, touches, stops>>

\* The child's turn fails before its record is touched; its error is the answer.
ChildFails(k) ==
    /\ up /\ at[k] = "running"
    /\ at' = [at EXCEPT ![k] = "ended"]
    /\ UNCHANGED <<up, cache, files, why, snap, fd, child, latest, ran, history, touches, stops>>

Return(c) ==
    /\ up /\ at[c] = "joining"
    /\ at' = [at EXCEPT ![c] = "idle"]
    /\ child' = [child EXCEPT ![c] = NoChild]
    /\ UNCHANGED <<up, cache, files, why, snap, fd, latest, ran, history, touches, stops>>

Ended(c) == child[c] # NoChild /\ at[child[c]] = "ended"
Joined(c) == Ended(c) /\ Return(c)

JoinForEver(c) == FALSE /\ Return(c)

\* join(timeout): the child's thread goes on, and its answer reaches nobody.
\* A child may take any time, so that the limit may pass at any time.
JoinTimesOut(c) == ~Ended(c) /\ Return(c)

-----------------------------------------------------------------------------
(* _save, one step for each thing another thread can come between: first    *)
(* json.dumps, which runs through the dictionary from the change on.        *)

\* Where a thread goes when its operation raises.
Abandon(t) == [at EXCEPT ![t] = IF t \in Callers THEN "idle" ELSE "ended"]

\* A dictionary that grew under the iteration raises RuntimeError.
EndDump(t) ==
    /\ up /\ at[t] = "dumping"
    /\ IF cache.kids = snap[t].kids
       THEN /\ at' = [at EXCEPT ![t] = "dumped"]
            /\ \E s \in {snap[t].session, cache.session} : snap' = [snap EXCEPT ![t].session = s]
            /\ UNCHANGED <<why, child, alone>>
       ELSE /\ at' = Abandon(t)
            /\ snap' = [snap EXCEPT ![t] = Empty]
            /\ why' = [why EXCEPT ![t] = "none"]
            /\ child' = [c \in Callers |-> IF c = t THEN NoChild ELSE child[c]]
            /\ alone' = alone \ {t}
    /\ UNCHANGED <<up, cache, files, fd, latest, ran, mixed, lapsed, raced, touches, stops>>

\* write_text opens, truncating what is there under the shared name ...
OpenTmp(t) ==
    /\ up /\ at[t] = "dumped"
    /\ tmp' = Torn
    /\ at' = [at EXCEPT ![t] = "opened"]
    /\ fd' = [fd EXCEPT ![t] = "tmp"]
    /\ UNCHANGED <<up, cache, path, why, snap, child, latest, ran, history, touches, stops>>

\* A text written from the start over another one: a shorter text leaves the
\* other's end behind it.
Over(old, text) == IF old = Torn THEN {text} ELSE {text, Torn}

\* ... then writes to the file its handle is on, wherever that is by now.
WriteTmp(t) ==
    /\ up /\ at[t] = "opened"
    /\ at' = [at EXCEPT ![t] = "written"]
    /\ snap' = [snap EXCEPT ![t] = Empty]
    /\ fd' = [fd EXCEPT ![t] = "none"]
    /\ CASE fd[t] = "tmp"  -> tmp' \in Over(tmp, snap[t]) /\ UNCHANGED path
         [] fd[t] = "path" -> path' \in Over(path, snap[t]) /\ UNCHANGED tmp
         [] OTHER          -> UNCHANGED files
    /\ UNCHANGED <<up, cache, why, child, latest, ran, history, touches, stops>>

\* os.replace: handles on the temporary file are now on sessions.json, those
\* on the old sessions.json on no file.
Rename ==
    /\ path' = tmp /\ tmp' = NoFile
    /\ fd' = [t \in AllThreads |-> CASE fd[t] = "tmp"  -> "path"
                                  [] fd[t] = "path" -> "gone"
                                  [] OTHER          -> fd[t]]

\* Where the operation goes on after its save.
After(t) == IF why[t] = "create"     THEN "created"
            ELSE IF why[t] = "renew" THEN "joining"
            ELSE IF t \in Children   THEN "ended"
            ELSE "idle"

Started(t) == IF why[t] = "renew" THEN {child[t]} ELSE {}

\* With the temporary file renamed away by another save, os.replace raises
\* FileNotFoundError.
Replace(t) ==
    /\ up /\ at[t] = "written"
    /\ alone' = alone \ {t}
    /\ mixed' = (mixed /\ t \notin alone)
    /\ IF tmp # NoFile
       THEN /\ Rename
            /\ at' = [u \in AllThreads |-> IF u = t THEN After(t)
                                        ELSE IF u \in Started(t) THEN "running"
                                        ELSE at[u]]
            /\ ran' = ran \cup Started(t)
            /\ UNCHANGED child
       ELSE /\ at' = Abandon(t)
            /\ child' = [c \in Callers |-> IF c = t THEN NoChild ELSE child[c]]
            /\ UNCHANGED <<files, fd, ran>>
    /\ why' = [why EXCEPT ![t] = "none"]
    /\ UNCHANGED <<up, cache, snap, latest, lapsed, raced, touches, stops>>

-----------------------------------------------------------------------------
\* The process ends, orderly or not, wherever its threads are.
Stop ==
    /\ up /\ stops < MaxStops
    /\ up' = FALSE /\ stops' = stops + 1
    /\ cache' = Empty
    /\ at' = [t \in AllThreads |-> IF t \in Callers           THEN "idle"
                                   ELSE IF at[t] = "unborn" THEN "unborn"
                                   ELSE "ended"]
    /\ why' = [t \in AllThreads |-> "none"]
    /\ snap' = [t \in AllThreads |-> Empty]
    /\ fd' = [t \in AllThreads |-> "none"]
    /\ child' = [c \in Callers |-> NoChild]
    /\ alone' = {}
    /\ UNCHANGED <<files, latest, ran, mixed, lapsed, raced, touches>>

\* A file that does not parse is set aside and the registry begins empty.
Load == IF path \in {NoFile, Torn} THEN Empty ELSE path

\* main resolves the agent's session before any other thread runs: a record
\* that is missing, or stale by the reset rule, gets a new id; both save.
Start ==
    /\ ~up /\ up' = TRUE
    /\ LET loaded == Load
           rotate == latest < MaxSessions
       IN  /\ \/ loaded.session # 0 /\ cache' = loaded /\ UNCHANGED <<latest, tmp>>
                 /\ path' = path /\ UNCHANGED mixed
              \/ /\ rotate
                 /\ latest' = latest + 1
                 /\ cache' = [loaded EXCEPT !.session = latest + 1]
                 /\ path' = cache' /\ tmp' = NoFile /\ mixed' = FALSE
              \* at the bound, the id of a lost record stands for a new one
              \/ /\ ~rotate /\ loaded.session = 0
                 /\ cache' = [loaded EXCEPT !.session = latest]
                 /\ path' = cache' /\ tmp' = NoFile /\ mixed' = FALSE
                 /\ UNCHANGED latest
           /\ lapsed' = IF mixed /\ ~(ran \subseteq loaded.kids)
                        THEN IF path = Torn THEN "torn" ELSE "stale"
                        ELSE lapsed
    /\ UNCHANGED <<at, why, snap, fd, child, ran, alone, raced, touches, stops>>

CallerStep(c) == Touch(c) \/ NewSession(c) \/ AdmitSpawn(c) \/ CreateChild(c) \/ RenewChild(c)
                 \/ Joined(c) \/ JoinTimesOut(c)
Save(t) == EndDump(t) \/ OpenTmp(t) \/ WriteTmp(t) \/ Replace(t)

Next == \/ \E c \in Callers : CallerStep(c)
        \/ \E k \in Children : Touch(k) \/ ChildFails(k)
        \/ \E t \in AllThreads : Save(t)
        \/ Stop \/ Start

Spec == Init /\ [][Next]_vars

\* The limit of a join passes; nothing makes a sub-agent answer.
FairSpec == Spec /\ \A c \in Callers : WF_vars(Joined(c) \/ JoinTimesOut(c))
-----------------------------------------------------------------------------
TypeOK ==
    /\ up \in BOOLEAN /\ mixed \in BOOLEAN /\ lapsed \in {"never", "torn", "stale"} /\ raced \in BOOLEAN
    /\ cache \in Registry
    /\ path \in Registry \cup {NoFile, Torn} /\ tmp \in Registry \cup {NoFile, Torn}
    /\ at \in [AllThreads -> Saving \cup {"idle", "unborn", "admitted", "created", "joining",
                                       "running", "ended"}]
    /\ snap \in [AllThreads -> Registry]
    /\ fd \in [AllThreads -> {"none", "tmp", "path", "gone"}]
    /\ child \in [Callers -> Children \cup {NoChild}]
    /\ latest \in 0..MaxSessions /\ ran \subseteq Children /\ alone \subseteq AllThreads
    /\ touches \in 0..MaxTouches /\ stops \in 0..MaxStops

(* What a start would read is, while no save is under way, what the         *)
(* process knows, whatever stopped it before; only saves that overlapped,   *)
(* with none alone since, leave an older registry or one that does not      *)
(* parse, which a start answers by forgetting every agent's session.        *)
(* (SessionStore._save: a temporary file, replaced atomically.)             *)
FileFollowsCache ==
    /\ up /\ Savers = {} /\ ~mixed => path = cache
    /\ path = Torn => mixed

(* An agent never runs more sub-agents in its lifetime than the limit,      *)
(* over restarts too, unless two of its turns checked the limit at the same *)
(* time or overlapping saves lost the record of one before a start          *)
(* (spawn_registry.count_active_children, _make_spawn_fn).                  *)
ChildLimitHolds == Cardinality(ran) > MaxChildren => raced \/ lapsed # "never"

(* A turn that waits for a sub-agent goes on, answer or not, or ends with   *)
(* the process (join(timeout) in _make_spawn_fn).                           *)
SpawnReturns == \A c \in Callers : []<>(at[c] # "joining")

=============================================================================
