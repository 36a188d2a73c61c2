----------------------------- MODULE CodexAuth -----------------------------
(***************************************************************************)
(* The Codex token file (auth/codex_auth.py).  Every provider that starts  *)
(* loads the token and, near its expiry, exchanges the refresh token for a *)
(* new pair, which it writes over the old one.  The server takes a refresh *)
(* token once.  There is no lock: threads, processes and codex-login meet  *)
(* in the file and at the server.                                          *)
(***************************************************************************)
EXTENDS Integers, FiniteSets

CONSTANTS
    Callers,
    Logins,     \* bound: families of tokens, one per login
    MaxRefresh, \* bound: refreshes of a family
    MaxFaults   \* bound: answers lost and callers stopped

AuthAssumption == Callers # {} /\ {Logins, MaxRefresh, MaxFaults} \subseteq Nat

VARIABLES
    file,   \* codex-auth.json: a pair, TornPair while it is written, or Missing
    server, \* external, per family: the pair whose refresh token it takes
    aged,   \* external: the pairs that are near their expiry
    caller, \* per caller: where it is and the pair it holds
    faults  \* history: the families that lost an answer or a caller

vars == <<file, server, aged, caller, faults>>

NoPair == [family |-> 0, nth |-> 0]
Missing == NoPair
TornPair == [family |-> 0, nth |-> 1]
Families == 1 .. Logins
Pair == [family : Families, nth : 0 .. MaxRefresh]

Idle == [at |-> "idle", pair |-> NoPair]

Init ==
    /\ file = Missing
    /\ server = [f \in Families |-> -1]
    /\ aged = {}
    /\ caller = [c \in Callers |-> Idle]
    /\ faults = {}

-----------------------------------------------------------------------------
(* load_token: read, refresh when near expiry, save, return. *)

\* A file that is being written does not parse: the caller is not logged in.
LoadRaw(c) ==
    /\ caller[c].at = "idle"
    /\ file \in Pair
    /\ file \in aged
    /\ caller' = [caller EXCEPT ![c] = [at |-> "asks", pair |-> file]]
    /\ UNCHANGED <<file, server, aged, faults>>

Rotated(p) == [p EXCEPT !.nth = @ + 1]

\* The server takes a refresh token once: of two callers that read the same
\* pair the second is refused, and goes on with the pair it read.
RefreshAccepted(c) ==
    LET p == caller[c].pair IN
    /\ caller[c].at = "asks" /\ server[p.family] = p.nth /\ p.nth < MaxRefresh
    /\ server' = [server EXCEPT ![p.family] = p.nth + 1]
    /\ caller' = [caller EXCEPT ![c] = [at |-> "holds", pair |-> Rotated(p)]]
    /\ UNCHANGED <<file, aged, faults>>

RefreshRefused(c) ==
    /\ caller[c].at = "asks" /\ server[caller[c].pair.family] # caller[c].pair.nth
    /\ caller' = [caller EXCEPT ![c] = Idle]
    /\ UNCHANGED <<file, server, aged, faults>>

\* A request that fails on the way, and an answer that does, look alike.
Unanswered(c) ==
    LET p == caller[c].pair IN
    /\ caller[c].at = "asks"
    /\ caller' = [caller EXCEPT ![c] = Idle]
    /\ \/ UNCHANGED <<server, faults>>
       \/ /\ server[p.family] = p.nth /\ p.nth < MaxRefresh /\ Cardinality(faults) < MaxFaults
          /\ server' = [server EXCEPT ![p.family] = p.nth + 1]
          /\ faults' = faults \union {p.family}
    /\ UNCHANGED <<file, aged>>

\* Path.write_text truncates the file, then writes it.
SaveBegins(c) ==
    /\ caller[c].at = "holds"
    /\ file' = TornPair
    /\ caller' = [caller EXCEPT ![c].at = "writes"]
    /\ UNCHANGED <<server, aged, faults>>

SavedTheOld(p) == IF p.nth = 0 THEN p ELSE [p EXCEPT !.nth = @ - 1]
Saved(p) == p

SaveEnds(c) ==
    /\ caller[c].at = "writes"
    /\ file' = Saved(caller[c].pair)
    /\ caller' = [caller EXCEPT ![c] = Idle]
    /\ UNCHANGED <<server, aged, faults>>

Stopped(c) ==
    /\ caller[c].at \in {"holds", "writes"} /\ Cardinality(faults) < MaxFaults
    /\ faults' = faults \union {caller[c].pair.family}
    /\ caller' = [caller EXCEPT ![c] = Idle]
    /\ UNCHANGED <<file, server, aged>>

\* login: the code is exchanged for the first pair of a new family.
Login(c) ==
    /\ caller[c].at = "idle"
    /\ \E f \in Families :
        /\ server[f] = -1 /\ \A g \in Families : g < f => server[g] # -1
        /\ server' = [server EXCEPT ![f] = 0]
        /\ caller' = [caller EXCEPT ![c] = [at |-> "holds", pair |-> [family |-> f, nth |-> 0]]]
    /\ UNCHANGED <<file, aged, faults>>

\* Time brings a pair within five minutes of its expiry.
Ages ==
    /\ \E p \in Pair : server[p.family] >= p.nth /\ p \notin aged /\ aged' = aged \union {p}
    /\ UNCHANGED <<file, server, caller, faults>>

Next ==
    \/ \E c \in Callers :
        \/ LoadRaw(c)
        \/ RefreshAccepted(c) \/ RefreshRefused(c) \/ Unanswered(c)
        \/ SaveBegins(c) \/ SaveEnds(c) \/ Stopped(c)
        \/ Login(c)
    \/ Ages

Spec == Init /\ [][Next]_vars

-----------------------------------------------------------------------------
TypeOK ==
    /\ file \in Pair \union {Missing, TornPair}
    /\ server \in [Families -> -1 .. MaxRefresh]
    /\ aged \subseteq Pair
    /\ caller \in [Callers -> [at : {"idle", "asks", "holds", "writes"}, pair : Pair \union {NoPair}]]
    /\ faults \subseteq Families

\* Nobody has to log in again because two callers refreshed at once: unless an
\* answer or a caller was lost, the refresh token in the file is the one the
\* server takes, or whoever holds that one is about to save it.
FileCanBeRefreshed ==
    \/ file \notin Pair
    \/ file.family \in faults
    \/ server[file.family] = file.nth
    \/ \E c \in Callers : caller[c].at \in {"holds", "writes"}
                           /\ caller[c].pair = [file EXCEPT !.nth = server[file.family]]
=============================================================================
