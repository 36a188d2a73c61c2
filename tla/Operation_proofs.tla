------------------------- MODULE Operation_proofs --------------------------
(***************************************************************************)
(* Theorems about the schema ledger, for any number of processes, starts   *)
(* and deaths: the advisory lock and the order of statements and ledger    *)
(* row are enough for the ledger never to claim what the schema lacks.     *)
(* About the replies over the wire, for any calls, pieces, messages and    *)
(* broken attempts: calls arrive whole and results follow them.  About the *)
(* daily timer, for any changes of the clock and stops; the terminal, for  *)
(* any agents and threads; and the registry of sessions, for any threads,  *)
(* sub-agents, stops and limit.                                            *)
(***************************************************************************)
EXTENDS MCOperation, FiniteSetTheorems, WellFoundedInduction, TLAPS

(* The schema ledger. *)

Working(p) == pc[p] \in {"read", "run", "unlock"}
Underway(v) == lock # None /\ pc[lock] = "run" /\ line[lock] > 0 /\ at[lock] = v

\* Whoever is between the lock and the unlock holds the lock, alone.
LockIsHeld == \A p \in Procs : Working(p) <=> lock = p

\* Nothing is counted before the ledger was read.
BeginsAtOne == \A p \in Procs : pc[p] \in {"lock", "read"} => at[p] = 1 /\ line[p] = 0

\* What a process read of the ledger is still so from the version it is at on,
\* and everything before that version is recorded.
SeenIsCurrent == \A p \in Procs : pc[p] = "run" =>
    \A v \in Versions : IF v < at[p] THEN ledger[v] # None ELSE ledger[v] = seen[p][v]

\* A migration that is being applied is pending, and its statements have been
\* executed up to the line; between two migrations no line is counted.
LineTrue(p) ==
    /\ at[p] <= release[p] + 1
    /\ line[p] > 0 => /\ at[p] <= release[p] /\ seen[p][at[p]] = None
                      /\ ran[at[p]] = line[p]
LineIsTrue == \A p \in Procs : pc[p] = "run" => LineTrue(p)

\* An attempt that counts was recorded or is going on.
AttemptsCount == \A v \in Versions :
    attempts[v] = IF ledger[v] # None \/ Underway(v) THEN 1 ELSE 0

\* Nothing newer than a release is recorded while it works, and a process that
\* will come up left nothing of its release out.
ReleaseIsNewest == \A p \in Procs :
    \/ pc[p] = "run"
    \/ pc[p] = "unlock" /\ outcome[p] = "up"
    => \A v \in Versions : /\ v > release[p] => ledger[v] = None
                           /\ pc[p] = "unlock" /\ v <= release[p] => ledger[v] # None

IInv == /\ TypeOK /\ LockIsHeld /\ BeginsAtOne /\ SeenIsCurrent /\ LineIsTrue /\ AttemptsCount
        /\ ReleaseIsNewest /\ LedgerVouchesForSchema

\* The three migrations, their numbers, their lengths and what they add.
LEMMA VersionFacts == Versions = 1..3 /\ Newest = 3
  BY DEF Versions, Newest, Migrations

\* A migration has a statement, and its statements add known objects.
LEMMA MigrationFacts ==
  ASSUME NEW v \in Versions
  PROVE  /\ Len(Migrations[v]) \in Nat /\ Len(Migrations[v]) > 0
         /\ \A k \in 1..Len(Migrations[v]) :
              Migrations[v][k].adds \subseteq {"coverage", "ranges", "search_vector"}
<1>1. CASE v = 1
  <2>1. Migrations[v] = << Statement({}, {"coverage", "search_vector"}, {}) >>
    BY <1>1 DEF Migrations, Additive
  <2> QED
    BY <2>1 DEF Statement
<1>2. CASE v = 2
  <2>1. Migrations[v] = << Statement({}, {"ranges"}, {}), Statement({"coverage", "ranges"}, {}, {}),
                           Statement({}, {}, {"coverage"}) >>
    BY <1>2 DEF Migrations, RangeBasedCoverage
  <2> QED
    BY <2>1 DEF Statement
<1>3. CASE v = 3
  <2>1. Migrations[v] = << Statement({"search_vector"}, {}, {"search_vector"}),
                           Statement({}, {"search_vector"}, {}) >>
    BY <1>3 DEF Migrations, LanguageNeutralFts
  <2> QED
    BY <2>1 DEF Statement
<1> QED
  BY <1>1, <1>2, <1>3, VersionFacts

\* The counters of a process are numbers.
LEMMA Counters ==
  ASSUME TypeOK, NEW p \in Procs
  PROVE  at[p] \in 1..4 /\ release[p] \in 1..3 /\ line[p] \in Nat
  BY VersionFacts DEF TypeOK

\* The empty schema, no process started.
LEMMA InitIInv == Init => IInv
<1> SUFFICES ASSUME Init PROVE IInv
  OBVIOUS
<1> USE LedgerAssumption, VersionFacts
<1>1. TypeOK
  BY DEF Init, TypeOK, NoRows, Sources, Outcomes
<1>2. LockIsHeld /\ BeginsAtOne /\ SeenIsCurrent /\ LineIsTrue /\ ReleaseIsNewest
  BY
  DEF Init, LockIsHeld, Working, BeginsAtOne, SeenIsCurrent, LineIsTrue, LineTrue,
      ReleaseIsNewest
<1>3. AttemptsCount /\ LedgerVouchesForSchema
  BY DEF Init, AttemptsCount, Underway, LedgerVouchesForSchema, NoRows
<1> QED
  BY <1>1, <1>2, <1>3 DEF IInv

\* Every statement of every process preserves IInv.
LEMMA NextIInv == IInv /\ [Next]_vars => IInv'
<1> SUFFICES ASSUME IInv, [Next]_vars PROVE IInv'
  OBVIOUS
<1> USE LedgerAssumption, VersionFacts
<1> USE DEF IInv
<1>1. ASSUME NEW p \in Procs, Start(p) PROVE IInv'
  <2> USE <1>1, Counters DEF Start, Goto
  <2>1. TypeOK'
    BY DEF TypeOK, NoRows, Sources, Outcomes
  <2> USE DEF TypeOK
  <2>2. LockIsHeld' /\ BeginsAtOne'
    BY DEF LockIsHeld, Working, BeginsAtOne, Outcomes
  <2>3. SeenIsCurrent'
    BY DEF LockIsHeld, Working, BeginsAtOne, SeenIsCurrent, Outcomes
  <2>4. LineIsTrue'
    BY DEF LockIsHeld, Working, BeginsAtOne, LineIsTrue, LineTrue, Outcomes
  <2>5. ReleaseIsNewest'
    BY DEF LockIsHeld, Working, SeenIsCurrent, LineIsTrue, LineTrue, ReleaseIsNewest, Outcomes
  <2>6. AttemptsCount'
    BY
    DEF AttemptsCount, Underway, LockIsHeld, Working, SeenIsCurrent, LineIsTrue, LineTrue,
        BeginsAtOne, Outcomes
  <2>7. LedgerVouchesForSchema'
    BY
    DEF LedgerVouchesForSchema, LockIsHeld, Working, SeenIsCurrent, LineIsTrue, LineTrue,
        Outcomes
  <2> QED
    BY <2>1, <2>2, <2>3, <2>4, <2>5, <2>6, <2>7
<1>2. ASSUME NEW p \in Procs, Lock(p) PROVE IInv'
  <2> USE <1>2, Counters DEF Lock, MayLock, procVars, Goto
  <2>1. TypeOK'
    BY DEF TypeOK
  <2> USE DEF TypeOK
  <2>2. LockIsHeld' /\ BeginsAtOne'
    BY DEF LockIsHeld, Working, BeginsAtOne, Outcomes
  <2>3. SeenIsCurrent'
    BY DEF LockIsHeld, Working, BeginsAtOne, SeenIsCurrent, Outcomes
  <2>4. LineIsTrue'
    BY DEF LockIsHeld, Working, BeginsAtOne, LineIsTrue, LineTrue, Outcomes
  <2>5. ReleaseIsNewest'
    BY DEF LockIsHeld, Working, SeenIsCurrent, LineIsTrue, LineTrue, ReleaseIsNewest, Outcomes
  <2>6. AttemptsCount'
    BY
    DEF AttemptsCount, Underway, LockIsHeld, Working, SeenIsCurrent, LineIsTrue, LineTrue,
        BeginsAtOne, Outcomes
  <2>7. LedgerVouchesForSchema'
    BY
    DEF LedgerVouchesForSchema, LockIsHeld, Working, SeenIsCurrent, LineIsTrue, LineTrue,
        Outcomes
  <2> QED
    BY <2>1, <2>2, <2>3, <2>4, <2>5, <2>6, <2>7
<1>3. ASSUME NEW p \in Procs, ReadLedger(p) PROVE IInv'
  <2> USE <1>3, Counters DEF ReadLedger, Goto
  <2>1. TypeOK'
    BY DEF TypeOK, Outcomes
  <2> USE DEF TypeOK
  <2>2. LockIsHeld' /\ BeginsAtOne'
    BY DEF LockIsHeld, Working, BeginsAtOne, Outcomes
  <2>3. SeenIsCurrent'
    BY DEF LockIsHeld, Working, BeginsAtOne, SeenIsCurrent, Outcomes
  <2>4. LineIsTrue'
    <3> SUFFICES ASSUME NEW q \in Procs, pc'[q] = "run" PROVE LineTrue(q)'
      BY DEF LineIsTrue
    <3>1. q = p /\ at[p] = 1 /\ line[p] = 0
      BY DEF LockIsHeld, Working, BeginsAtOne
    <3> QED
      BY <3>1 DEF LineTrue
  <2>5. ReleaseIsNewest'
    BY DEF LockIsHeld, Working, SeenIsCurrent, LineIsTrue, LineTrue, ReleaseIsNewest, Outcomes
  <2>6. AttemptsCount'
    BY
    DEF AttemptsCount, Underway, LockIsHeld, Working, SeenIsCurrent, LineIsTrue, LineTrue,
        BeginsAtOne, Outcomes
  <2>7. LedgerVouchesForSchema'
    BY
    DEF LedgerVouchesForSchema, LockIsHeld, Working, SeenIsCurrent, LineIsTrue, LineTrue,
        Outcomes
  <2> QED
    BY <2>1, <2>2, <2>3, <2>4, <2>5, <2>6, <2>7
<1>4. ASSUME NEW p \in Procs, Skip(p) PROVE IInv'
  <2> USE <1>4, Counters DEF Skip, Behind, Goto
  <2>1. TypeOK'
    BY DEF TypeOK
  <2> USE DEF TypeOK
  <2>2. LockIsHeld' /\ BeginsAtOne'
    BY DEF LockIsHeld, Working, BeginsAtOne, Outcomes
  <2>3. SeenIsCurrent'
    BY DEF LockIsHeld, Working, BeginsAtOne, SeenIsCurrent, Outcomes
  <2>4. LineIsTrue'
    <3> SUFFICES ASSUME NEW q \in Procs, pc'[q] = "run" PROVE LineTrue(q)'
      BY DEF LineIsTrue
    <3>1. q = p /\ line[p] = 0 /\ at'[p] = at[p] + 1
      BY DEF LockIsHeld, Working, LineIsTrue, LineTrue
    <3> QED
      BY <3>1 DEF LineTrue
  <2>5. ReleaseIsNewest'
    BY DEF LockIsHeld, Working, SeenIsCurrent, LineIsTrue, LineTrue, ReleaseIsNewest, Outcomes
  <2>6. AttemptsCount'
    BY
    DEF AttemptsCount, Underway, LockIsHeld, Working, SeenIsCurrent, LineIsTrue, LineTrue,
        BeginsAtOne, Outcomes
  <2>7. LedgerVouchesForSchema'
    BY
    DEF LedgerVouchesForSchema, LockIsHeld, Working, SeenIsCurrent, LineIsTrue, LineTrue,
        Outcomes
  <2> QED
    BY <2>1, <2>2, <2>3, <2>4, <2>5, <2>6, <2>7
<1>5. ASSUME NEW p \in Procs, RefuseEdited(p) PROVE IInv'
  <2> USE <1>5, Counters DEF RefuseEdited, Behind, Goto
  <2>1. TypeOK'
    BY DEF TypeOK, Outcomes
  <2> USE DEF TypeOK
  <2>2. LockIsHeld' /\ BeginsAtOne'
    BY DEF LockIsHeld, Working, BeginsAtOne, Outcomes
  <2>3. SeenIsCurrent'
    BY DEF LockIsHeld, Working, BeginsAtOne, SeenIsCurrent, Outcomes
  <2>4. LineIsTrue'
    BY DEF LockIsHeld, Working, BeginsAtOne, LineIsTrue, LineTrue, Outcomes
  <2>5. ReleaseIsNewest'
    BY DEF LockIsHeld, Working, SeenIsCurrent, LineIsTrue, LineTrue, ReleaseIsNewest, Outcomes
  <2>6. AttemptsCount'
    BY
    DEF AttemptsCount, Underway, LockIsHeld, Working, SeenIsCurrent, LineIsTrue, LineTrue,
        BeginsAtOne, Outcomes
  <2>7. LedgerVouchesForSchema'
    BY
    DEF LedgerVouchesForSchema, LockIsHeld, Working, SeenIsCurrent, LineIsTrue, LineTrue,
        Outcomes
  <2> QED
    BY <2>1, <2>2, <2>3, <2>4, <2>5, <2>6, <2>7
<1>6. ASSUME NEW p \in Procs, Execute(p) PROVE IInv'
  <2> USE <1>6, Counters DEF Execute, Pending, Goto
  <2>0. at[p] \in Versions /\ line[p] + 1 \in 1..Len(Migrations[at[p]])
    BY MigrationFacts
  <2>1. TypeOK'
    <3>1. objects' \subseteq {"coverage", "ranges", "search_vector"}
      BY <2>0, MigrationFacts DEF TypeOK
    <3>2. /\ ran' \in [Versions -> Nat] /\ attempts' \in [Versions -> Nat]
          /\ line' \in [Procs -> Nat]
      BY <2>0 DEF TypeOK
    <3> QED
      BY <3>1, <3>2 DEF TypeOK
  <2> USE DEF TypeOK
  <2>2. LockIsHeld' /\ BeginsAtOne'
    BY DEF LockIsHeld, Working, BeginsAtOne, Outcomes
  <2>3. SeenIsCurrent'
    BY DEF LockIsHeld, Working, BeginsAtOne, SeenIsCurrent, Outcomes
  <2>4. LineIsTrue'
    <3> SUFFICES ASSUME NEW q \in Procs, pc'[q] = "run" PROVE LineTrue(q)'
      BY DEF LineIsTrue
    <3>1. q = p
      BY DEF LockIsHeld, Working
    <3>2. /\ line'[p] = line[p] + 1 /\ ran'[at[p]] = line[p] + 1
          /\ at' = at /\ release' = release /\ seen' = seen
          /\ at[p] <= release[p] /\ seen[p][at[p]] = None
      BY <2>0
    <3>3. at[p] \in Int /\ release[p] \in Int
      BY <2>0
    <3> QED
      BY <3>1, <3>2, <3>3 DEF LineTrue
  <2>5. ReleaseIsNewest'
    BY DEF LockIsHeld, Working, SeenIsCurrent, LineIsTrue, LineTrue, ReleaseIsNewest, Outcomes
  <2>6. AttemptsCount'
    BY
    DEF AttemptsCount, Underway, LockIsHeld, Working, SeenIsCurrent, LineIsTrue, LineTrue,
        BeginsAtOne, Outcomes
  <2>7. LedgerVouchesForSchema'
    BY
    DEF LedgerVouchesForSchema, LockIsHeld, Working, SeenIsCurrent, LineIsTrue, LineTrue,
        Outcomes
  <2> QED
    BY <2>1, <2>2, <2>3, <2>4, <2>5, <2>6, <2>7
<1>7. ASSUME NEW p \in Procs, ExecuteRaises(p) PROVE IInv'
  <2> USE <1>7, Counters DEF ExecuteRaises, Pending, GiveUp, Goto
  <2>1. TypeOK'
    <3>1. Pending(p) /\ line[p] > 0 => attempts[at[p]] = 1 /\ at[p] \in Versions
      BY DEF Pending, AttemptsCount, Underway, LockIsHeld, Working
    <3>2. attempts' \in [Versions -> Nat]
      BY <3>1 DEF TypeOK
    <3> QED
      BY <3>2 DEF TypeOK, Outcomes
  <2> USE DEF TypeOK
  <2>2. LockIsHeld' /\ BeginsAtOne'
    BY DEF LockIsHeld, Working, BeginsAtOne, Outcomes
  <2>3. SeenIsCurrent'
    BY DEF LockIsHeld, Working, BeginsAtOne, SeenIsCurrent, Outcomes
  <2>4. LineIsTrue'
    BY DEF LockIsHeld, Working, BeginsAtOne, LineIsTrue, LineTrue, Outcomes
  <2>5. ReleaseIsNewest'
    BY DEF LockIsHeld, Working, SeenIsCurrent, LineIsTrue, LineTrue, ReleaseIsNewest, Outcomes
  <2>6. AttemptsCount'
    BY
    DEF AttemptsCount, Underway, LockIsHeld, Working, SeenIsCurrent, LineIsTrue, LineTrue,
        BeginsAtOne, Outcomes
  <2>7. LedgerVouchesForSchema'
    BY
    DEF LedgerVouchesForSchema, LockIsHeld, Working, SeenIsCurrent, LineIsTrue, LineTrue,
        Outcomes
  <2> QED
    BY <2>1, <2>2, <2>3, <2>4, <2>5, <2>6, <2>7
<1>8. ASSUME NEW p \in Procs, Record(p) PROVE IInv'
  <2> USE <1>8, Counters DEF Record, Pending, Applied, Goto
  <2>0. /\ at[p] \in Versions /\ lock = p /\ Checksum(p, at[p]) \in Sources
        /\ line[p] > 0 /\ ran[at[p]] = Len(Migrations[at[p]])
    <3>1. at[p] \in Versions /\ lock = p
      BY DEF LockIsHeld, Working
    <3>2. Checksum(p, at[p]) \in Sources
      BY DEF TypeOK, Checksum, Sources
    <3>3. Len(Migrations[at[p]]) \in Nat /\ Len(Migrations[at[p]]) > 0
      BY <3>1, MigrationFacts
    <3> QED
      BY <3>1, <3>2, <3>3 DEF LineIsTrue, LineTrue
  <2>1. TypeOK'
    BY <2>0 DEF TypeOK
  <2> USE DEF TypeOK
  <2>2. LockIsHeld' /\ BeginsAtOne'
    BY DEF LockIsHeld, Working, BeginsAtOne, Outcomes
  <2>3. \A q \in Procs : pc'[q] = "run" => q = p
    BY <2>0 DEF LockIsHeld, Working
  <2>4. ledger'[at[p]] # None /\ \A v \in Versions : v # at[p] => ledger'[v] = ledger[v]
    BY <2>0
  <2>5. SeenIsCurrent'
    BY <2>0, <2>3, <2>4 DEF SeenIsCurrent
  <2>6. LineIsTrue'
    <3>1. at'[p] = at[p] + 1 /\ line'[p] = 0 /\ release' = release
      BY DEF TypeOK
    <3>2. at[p] <= release[p] /\ at[p] \in Int /\ release[p] \in Int
      OBVIOUS
    <3>3. LineTrue(p)'
      BY <3>1, <3>2 DEF LineTrue
    <3> QED
      BY <2>3, <3>3 DEF LineIsTrue
  <2>7. ReleaseIsNewest'
    <3>1. ASSUME NEW q \in Procs PROVE ~(pc'[q] = "unlock" /\ outcome'[q] = "up")
      BY <2>0, <2>2 DEF LockIsHeld, Working
    <3>2. \A v \in Versions : v > release[p] => ledger'[v] = None
      <4>1. at[p] <= release[p] /\ at[p] \in Int /\ release[p] \in Int
        OBVIOUS
      <4>2. \A v \in Versions : v > release[p] => ledger[v] = None
        BY DEF ReleaseIsNewest
      <4> QED
        BY <2>4, <4>1, <4>2
    <3>3. pc'[p] = "run"
      OBVIOUS
    <3> QED
      BY <2>3, <3>1, <3>2, <3>3 DEF ReleaseIsNewest
  <2>8. AttemptsCount'
    BY <2>0, <2>4 DEF AttemptsCount, Underway
  <2>9. LedgerVouchesForSchema'
    BY <2>0, <2>4 DEF LedgerVouchesForSchema, SeenIsCurrent
  <2> QED
    BY <2>1, <2>2, <2>5, <2>6, <2>7, <2>8, <2>9
<1>9. ASSUME NEW p \in Procs, Finish(p) PROVE IInv'
  <2> USE <1>9, Counters DEF Finish, procVars, Goto
  <2>1. TypeOK'
    BY DEF TypeOK
  <2> USE DEF TypeOK
  <2>2. LockIsHeld' /\ BeginsAtOne'
    BY DEF LockIsHeld, Working, BeginsAtOne, Outcomes
  <2>3. SeenIsCurrent'
    BY DEF LockIsHeld, Working, BeginsAtOne, SeenIsCurrent, Outcomes
  <2>4. LineIsTrue'
    BY DEF LockIsHeld, Working, BeginsAtOne, LineIsTrue, LineTrue, Outcomes
  <2>5. ReleaseIsNewest'
    BY DEF LockIsHeld, Working, SeenIsCurrent, LineIsTrue, LineTrue, ReleaseIsNewest, Outcomes
  <2>6. AttemptsCount'
    BY
    DEF AttemptsCount, Underway, LockIsHeld, Working, SeenIsCurrent, LineIsTrue, LineTrue,
        BeginsAtOne, Outcomes
  <2>7. LedgerVouchesForSchema'
    BY
    DEF LedgerVouchesForSchema, LockIsHeld, Working, SeenIsCurrent, LineIsTrue, LineTrue,
        Outcomes
  <2> QED
    BY <2>1, <2>2, <2>3, <2>4, <2>5, <2>6, <2>7
<1>10. ASSUME NEW p \in Procs, Unlock(p) PROVE IInv'
  <2> USE <1>10, Counters DEF Unlock, Released, procVars, Goto
  <2>1. TypeOK'
    BY DEF TypeOK, Outcomes
  <2> USE DEF TypeOK
  <2>2. LockIsHeld' /\ BeginsAtOne'
    BY DEF LockIsHeld, Working, BeginsAtOne, Outcomes
  <2>3. SeenIsCurrent'
    BY DEF LockIsHeld, Working, BeginsAtOne, SeenIsCurrent, Outcomes
  <2>4. LineIsTrue'
    BY DEF LockIsHeld, Working, BeginsAtOne, LineIsTrue, LineTrue, Outcomes
  <2>5. ReleaseIsNewest'
    BY DEF LockIsHeld, Working, SeenIsCurrent, LineIsTrue, LineTrue, ReleaseIsNewest, Outcomes
  <2>6. AttemptsCount'
    BY
    DEF AttemptsCount, Underway, LockIsHeld, Working, SeenIsCurrent, LineIsTrue, LineTrue,
        BeginsAtOne, Outcomes
  <2>7. LedgerVouchesForSchema'
    BY
    DEF LedgerVouchesForSchema, LockIsHeld, Working, SeenIsCurrent, LineIsTrue, LineTrue,
        Outcomes
  <2> QED
    BY <2>1, <2>2, <2>3, <2>4, <2>5, <2>6, <2>7
<1>11. ASSUME NEW p \in Procs, Crash(p) PROVE IInv'
  <2> USE <1>11, Counters DEF Crash, Released, GiveUp, Pending, procVars, Goto
  <2>1. TypeOK'
    <3>1. Pending(p) /\ line[p] > 0 => attempts[at[p]] = 1 /\ at[p] \in Versions
      BY DEF Pending, AttemptsCount, Underway, LockIsHeld, Working
    <3>2. attempts' \in [Versions -> Nat]
      BY <3>1 DEF TypeOK
    <3> QED
      BY <3>2 DEF TypeOK, Outcomes
  <2> USE DEF TypeOK
  <2>2. LockIsHeld' /\ BeginsAtOne'
    BY DEF LockIsHeld, Working, BeginsAtOne, Outcomes
  <2>3. SeenIsCurrent'
    BY DEF LockIsHeld, Working, BeginsAtOne, SeenIsCurrent, Outcomes
  <2>4. LineIsTrue'
    BY DEF LockIsHeld, Working, BeginsAtOne, LineIsTrue, LineTrue, Outcomes
  <2>5. ReleaseIsNewest'
    BY DEF LockIsHeld, Working, SeenIsCurrent, LineIsTrue, LineTrue, ReleaseIsNewest, Outcomes
  <2>6. AttemptsCount'
    BY
    DEF AttemptsCount, Underway, LockIsHeld, Working, SeenIsCurrent, LineIsTrue, LineTrue,
        BeginsAtOne, Outcomes
  <2>7. LedgerVouchesForSchema'
    BY
    DEF LedgerVouchesForSchema, LockIsHeld, Working, SeenIsCurrent, LineIsTrue, LineTrue,
        Outcomes
  <2> QED
    BY <2>1, <2>2, <2>3, <2>4, <2>5, <2>6, <2>7
<1>12. ASSUME NEW p \in Procs, Exit(p) PROVE IInv'
  <2> USE <1>12, Counters DEF Exit, procVars, Goto
  <2>1. TypeOK'
    BY DEF TypeOK, Outcomes
  <2> USE DEF TypeOK
  <2>2. LockIsHeld' /\ BeginsAtOne'
    BY DEF LockIsHeld, Working, BeginsAtOne, Outcomes
  <2>3. SeenIsCurrent'
    BY DEF LockIsHeld, Working, BeginsAtOne, SeenIsCurrent, Outcomes
  <2>4. LineIsTrue'
    BY DEF LockIsHeld, Working, BeginsAtOne, LineIsTrue, LineTrue, Outcomes
  <2>5. ReleaseIsNewest'
    BY DEF LockIsHeld, Working, SeenIsCurrent, LineIsTrue, LineTrue, ReleaseIsNewest, Outcomes
  <2>6. AttemptsCount'
    BY
    DEF AttemptsCount, Underway, LockIsHeld, Working, SeenIsCurrent, LineIsTrue, LineTrue,
        BeginsAtOne, Outcomes
  <2>7. LedgerVouchesForSchema'
    BY
    DEF LedgerVouchesForSchema, LockIsHeld, Working, SeenIsCurrent, LineIsTrue, LineTrue,
        Outcomes
  <2> QED
    BY <2>1, <2>2, <2>3, <2>4, <2>5, <2>6, <2>7
<1>13. CASE UNCHANGED vars
  BY <1>13 DEF vars, procVars, TypeOK, LockIsHeld, Working, BeginsAtOne, SeenIsCurrent,
     ReleaseIsNewest, LineIsTrue, LineTrue, AttemptsCount, Underway, LedgerVouchesForSchema
<1> QED
  BY <1>1, <1>2, <1>3, <1>4, <1>5, <1>6, <1>7, <1>8, <1>9, <1>10, <1>11, <1>12, <1>13
  DEF Next, Step

\* The invariant holds in every reachable state.
LEMMA Invariant == Spec => []IInv
  BY InitIInv, NextIInv, PTL DEF Spec

\* Every reachable ledger, lock and process state is well typed.
THEOREM TypeCorrect == Spec => []TypeOK
  BY Invariant, PTL DEF IInv

\* The ledger never claims what the schema lacks, wherever processes died.
THEOREM LedgerIsTrue == Spec => []LedgerVouchesForSchema
  BY Invariant, PTL DEF IInv

\* Two processes never have a migration under way or done both.
THEOREM NoSecondAttempt == Spec => []OneAttempt
<1>1. IInv => OneAttempt
  BY DEF IInv, AttemptsCount, OneAttempt
<1> QED
  BY <1>1, Invariant, PTL

\* A process that comes up found and left the schema of its own release.
THEOREM UpOnOwnSchema == Spec => UpOnItsOwnSchema
<1>1. IInv /\ IInv' /\ [Next]_vars =>
        [\A p \in Procs : (pc[p] = "unlock" /\ pc'[p] = "up")
                           => {v \in Versions : ledger[v] # None} = 1..release[p]]_vars
  <2> SUFFICES ASSUME IInv, [Next]_vars, NEW p \in Procs, pc[p] = "unlock", pc'[p] = "up"
               PROVE  {v \in Versions : ledger[v] # None} = 1..release[p]
    OBVIOUS
  <2>1. outcome[p] = "up"
    BY
    DEF IInv, TypeOK, Next, Step, Start, Lock, MayLock, ReadLedger, Skip, RefuseEdited, Behind,
       Execute, Pending, ExecuteRaises, Record, Finish, Unlock, Crash, Exit, Outcomes, Goto, vars,
       procVars
  <2>2. \A v \in Versions : ledger[v] # None <=> v <= release[p]
    BY <2>1, VersionFacts, Counters DEF IInv, ReleaseIsNewest
  <2>3. release[p] \in 1..3
    BY Counters DEF IInv
  <2> QED
    BY <2>2, <2>3, VersionFacts
<1> QED
  BY <1>1, Invariant, PTL DEF Spec, UpOnItsOwnSchema

-----------------------------------------------------------------------------
(* The replies over the wire.  First what the fold of ToAnthropicMessages comes to. *)

\* A set of natural numbers that is not empty has a least member.
LEMMA LeastNatural ==
  ASSUME NEW T \in SUBSET Nat, T # {}
  PROVE  \E x \in T : \A y \in T : x <= y
<1>1. IsWellFoundedOn(OpToRel(<, Nat), Nat)
  BY NatLessThanWellFounded
<1>2. PICK x \in T : \A y \in T : ~ (<<y, x>> \in OpToRel(<, Nat))
  BY <1>1, WFMin
<1>3. ASSUME NEW y \in T PROVE x <= y
  <2>1. x \in Nat /\ y \in Nat
    OBVIOUS
  <2>2. ~ (y < x)
    BY <1>2, <2>1 DEF OpToRel
  <2> QED
    BY <2>1, <2>2
<1> QED
  BY <1>3

\* A set of positions of a text that is not empty has a last one.
LEMMA GreatestPosition ==
  ASSUME NEW n \in Nat, NEW I \in SUBSET (1..n), I # {}
  PROVE  Wire!Max(I) \in I /\ \A i \in I : i <= Wire!Max(I)
<1> DEFINE Counted == {n - i : i \in I}
<1>0. \A i \in I : i \in Nat /\ n - i \in Nat /\ i \in Int
  OBVIOUS
<1>1. Counted \subseteq Nat /\ Counted # {}
  BY <1>0
<1>2. PICK k \in Counted : \A j \in Counted : k <= j
  <2> HIDE DEF Counted
  <2> QED
    BY <1>1, LeastNatural
<1>3. PICK m \in I : k = n - m
  BY <1>2
<1>4. \A i \in I : m >= i
  <2>1. ASSUME NEW i \in I PROVE m >= i
    <3>1. n - i \in Counted
      OBVIOUS
    <3>2. n - m <= n - i /\ i \in Nat /\ m \in Nat
      BY <1>0, <1>2, <1>3, <3>1
    <3> QED
      BY <3>2
  <2> QED
    BY <2>1
<1>5. Wire!Max(I) \in I /\ \A i \in I : Wire!Max(I) >= i
  BY <1>4 DEF Wire!Max
<1> QED
  BY <1>5

\* The fold of ToAnthropicMessages, as a recursive function of the sets of positions.
IsFold(h, g, n) ==
  g = [s \in SUBSET (1 .. n) |->
         IF s = {} THEN <<>>
         ELSE Wire!ToAnthropic(g[s \ {Wire!Max(s)}], h[Wire!Max(s)])]

LEMMA FoldIs ==
  ASSUME NEW h, DOMAIN h = 1 .. Len(h)
  PROVE  LET g == CHOOSE g : IsFold(h, g, Len(h))
         IN  Wire!ToAnthropicMessages(h) = g[1 .. Len(h)]
  BY DEF IsFold, Wire!ToAnthropicMessages, Wire!FoldLeft, Wire!MapThenFoldSet

LEMMA LastOf ==
  ASSUME NEW n \in Nat, NEW I \in SUBSET (1 .. n), NEW m \in I, \A i \in I : i <= m
  PROVE  Wire!Max(I) = m
<1>1. Wire!Max(I) \in I /\ \A i \in I : i <= Wire!Max(I)
  BY GreatestPosition
<1>2. \A x \in I : x \in Nat
  OBVIOUS
<1>3. ASSUME NEW x \in I, \A i \in I : i <= x PROVE x = m
  BY <1>2, <1>3
<1> QED
  BY <1>1, <1>3

LEMMA FoldStep ==
  ASSUME NEW h, NEW g, NEW n \in Nat, IsFold(h, g, n)
  PROVE  /\ g[1 .. 0] = <<>>
         /\ \A k \in 1 .. n : g[1 .. k] = Wire!ToAnthropic(g[1 .. (k - 1)], h[k])
<1>1. \A s \in SUBSET (1 .. n) :
        g[s] = IF s = {} THEN <<>>
               ELSE Wire!ToAnthropic(g[s \ {Wire!Max(s)}], h[Wire!Max(s)])
  BY Zenon DEF IsFold
<1>2. g[1 .. 0] = <<>>
  <2>1. 1 .. 0 = {}
    OBVIOUS
  <2> QED
    BY <1>1, <2>1
<1>3. ASSUME NEW k \in 1 .. n PROVE g[1 .. k] = Wire!ToAnthropic(g[1 .. (k - 1)], h[k])
  <2>1. Wire!Max(1 .. k) = k
    <3>1. k \in Nat /\ k \in 1 .. k /\ \A i \in 1 .. k : i <= k
      OBVIOUS
    <3> QED
      BY <3>1, LastOf
  <2>2. (1 .. k) \ {k} = 1 .. (k - 1) /\ (1 .. k) \in SUBSET (1 .. n) /\ 1 .. k # {}
    OBVIOUS
  <2>3. g[1 .. k] = Wire!ToAnthropic(g[(1 .. k) \ {Wire!Max(1 .. k)}], h[Wire!Max(1 .. k)])
    BY <1>1, <2>2
  <2> QED
    BY <2>1, <2>2, <2>3
<1> QED
  BY <1>2, <1>3

LEMMA FoldExtends ==
  ASSUME NEW h, NEW g, NEW n \in Nat, IsFold(h, g, n)
  PROVE  \E g2 : IsFold(h, g2, n + 1)
<1> DEFINE g2 == [s \in SUBSET (1 .. (n + 1)) |->
                    IF n + 1 \in s THEN Wire!ToAnthropic(g[s \ {n + 1}], h[n + 1]) ELSE g[s]]
           next(s) == IF s = {} THEN <<>>
                      ELSE Wire!ToAnthropic(g2[s \ {Wire!Max(s)}], h[Wire!Max(s)])
<1>1. ASSUME NEW s \in SUBSET (1 .. (n + 1)) PROVE g2[s] = next(s)
  <2>1. CASE n + 1 \in s
    <3>1. Wire!Max(s) = n + 1
      BY <2>1, LastOf
    <3>2. s \ {n + 1} \in SUBSET (1 .. (n + 1)) /\ n + 1 \notin s \ {n + 1}
      OBVIOUS
    <3>3. g2[s \ {n + 1}] = g[s \ {n + 1}]
      BY <3>2
    <3> QED
      BY <2>1, <3>1, <3>3
  <2>2. CASE n + 1 \notin s
    <3>1. s \in SUBSET (1 .. n)
      BY <2>2
    <3>2. g[s] = IF s = {} THEN <<>>
                 ELSE Wire!ToAnthropic(g[s \ {Wire!Max(s)}], h[Wire!Max(s)])
      BY <3>1, Zenon DEF IsFold
    <3>3. g2[s] = g[s] /\ g2[s \ {Wire!Max(s)}] = g[s \ {Wire!Max(s)}]
      BY <2>2
    <3> QED
      BY <3>2, <3>3
  <2> QED
    BY <2>1, <2>2
<1>2. g2 = [s \in SUBSET (1 .. (n + 1)) |-> g2[s]]
  OBVIOUS
<1> HIDE DEF g2
<1>3. g2 = [s \in SUBSET (1 .. (n + 1)) |-> next(s)]
  BY <1>1, <1>2
<1> QED
  BY <1>3 DEF IsFold

LEMMA FoldExists == \A h : \A n \in Nat : \E g : IsFold(h, g, n)
<1> SUFFICES ASSUME NEW h PROVE \A n \in Nat : \E g : IsFold(h, g, n)
  OBVIOUS
<1> DEFINE Without == {n \in Nat : ~ \E g : IsFold(h, g, n)}
<1>1. SUFFICES ASSUME Without # {} PROVE FALSE
  OBVIOUS
<1>2. PICK n \in Without : \A m \in Without : n <= m
  BY <1>1, LeastNatural
<1>3. CASE n = 0
  <2> DEFINE g == [s \in SUBSET (1 .. 0) |-> <<>>]
  <2>1. \A s \in SUBSET (1 .. 0) : s = {}
    OBVIOUS
  <2>2. IsFold(h, g, 0)
    BY <2>1 DEF IsFold
  <2> QED
    BY <1>2, <1>3, <2>2
<1>4. CASE n # 0
  <2>1. n - 1 \in Nat /\ n - 1 \notin Without /\ (n - 1) + 1 = n
    BY <1>2, <1>4
  <2>2. PICK g : IsFold(h, g, n - 1)
    BY <2>1
  <2>3. \E g2 : IsFold(h, g2, n)
    BY <2>1, <2>2, FoldExtends
  <2> QED
    BY <1>2, <2>3
<1> QED
  BY <1>3, <1>4

\* Two folds agree on what their sequences have in common.
LEMMA FoldsAgree ==
  ASSUME NEW h, NEW h2, NEW g, NEW g2, NEW n \in Nat, NEW m \in Nat, n <= m,
         IsFold(h, g, n), IsFold(h2, g2, m), \A i \in 1 .. n : h[i] = h2[i]
  PROVE  g[1 .. n] = g2[1 .. n]
<1> DEFINE Off == {k \in 0 .. n : g[1 .. k] # g2[1 .. k]}
<1>1. SUFFICES ASSUME Off # {} PROVE FALSE
  OBVIOUS
<1>2. PICK k \in Off : \A j \in Off : k <= j
  <2>1. Off \subseteq Nat
    OBVIOUS
  <2> HIDE DEF Off
  <2> QED
    BY <1>1, <2>1, LeastNatural
<1>3. k # 0
  BY FoldStep
<1>4. k - 1 \in 0 .. n /\ k - 1 \notin Off /\ k \in 1 .. n /\ k \in 1 .. m
  BY <1>2, <1>3
<1>5. g[1 .. (k - 1)] = g2[1 .. (k - 1)]
  BY <1>4
<1>6. /\ g[1 .. k] = Wire!ToAnthropic(g[1 .. (k - 1)], h[k])
      /\ g2[1 .. k] = Wire!ToAnthropic(g2[1 .. (k - 1)], h2[k])
  BY <1>4, FoldStep
<1> QED
  BY <1>4, <1>5, <1>6

\* A message more is one more step of the translation.
LEMMA SentAppend ==
  ASSUME NEW M, NEW h \in Seq(M), NEW m \in M
  PROVE  Wire!ToAnthropicMessages(Append(h, m)) =
           Wire!ToAnthropic(Wire!ToAnthropicMessages(h), m)
<1> DEFINE n == Len(h)  h2 == Append(h, m)
           g == CHOOSE f : IsFold(h, f, n)  g2 == CHOOSE f : IsFold(h2, f, n + 1)
<1>1. /\ n \in Nat /\ DOMAIN h = 1 .. n
      /\ DOMAIN h2 = 1 .. (n + 1) /\ Len(h2) = n + 1
      /\ h2[n + 1] = m /\ \A i \in 1 .. n : h[i] = h2[i]
  OBVIOUS
<1>2. IsFold(h, g, n) /\ IsFold(h2, g2, n + 1)
  <2>1. n \in Nat /\ n + 1 \in Nat
    BY <1>1
  <2>2. (\E f : IsFold(h, f, n)) /\ (\E f : IsFold(h2, f, n + 1))
    <3> HIDE DEF n, h2, g, g2
    <3> QED
      BY <2>1, FoldExists
  <2> HIDE DEF n, h2
  <2> QED
    BY <2>2
<1>3. /\ Wire!ToAnthropicMessages(h) = g[1 .. n]
      /\ Wire!ToAnthropicMessages(h2) = g2[1 .. (n + 1)]
  BY <1>1, FoldIs
<1> HIDE DEF n, h2, g, g2
<1>4. g[1 .. n] = g2[1 .. n]
  <2>1. n \in Nat
    BY <1>1
  <2>2. PICK k \in Nat : k = n + 1
    BY <2>1
  <2>3. n <= k
    BY <2>1, <2>2
  <2>4. IsFold(h, g, n)
    BY <1>2
  <2>5. IsFold(h2, g2, k)
    BY <1>2, <2>2
  <2>6. \A i \in 1 .. n : h[i] = h2[i]
    BY <1>1
  <2> HIDE DEF IsFold
  <2> QED
    BY <2>1, <2>3, <2>4, <2>5, <2>6, FoldsAgree
<1>5. g2[1 .. (n + 1)] = Wire!ToAnthropic(g2[1 .. n], h2[n + 1])
  <2>1. n + 1 \in 1 .. (n + 1) /\ (n + 1) - 1 = n /\ n + 1 \in Nat
    BY <1>1
  <2> QED
    BY <1>2, <2>1, FoldStep
<1>6. Wire!ToAnthropicMessages(h2) = Wire!ToAnthropic(Wire!ToAnthropicMessages(h), m)
  BY <1>1, <1>3, <1>4, <1>5
<1> QED
  BY <1>6 DEF h2

LEMMA SentOfOne ==
  ASSUME NEW M, NEW m \in M
  PROVE  Wire!ToAnthropicMessages(<<m>>) = Wire!ToAnthropic(<<>>, m)
<1> DEFINE g == CHOOSE f : IsFold(<<m>>, f, 1)
<1>1. DOMAIN <<m>> = 1 .. 1 /\ Len(<<m>>) = 1 /\ <<m>>[1] = m
  OBVIOUS
<1>2. IsFold(<<m>>, g, 1) /\ Wire!ToAnthropicMessages(<<m>>) = g[1 .. 1]
  BY <1>1, FoldExists, FoldIs
<1> HIDE DEF g
<1>3. g[1 .. 1] = Wire!ToAnthropic(g[1 .. 0], <<m>>[1]) /\ g[1 .. 0] = <<>>
  <2>1. 1 \in 1 .. 1 /\ 1 - 1 = 0 /\ 1 \in Nat
    OBVIOUS
  <2>2. /\ g[1 .. 0] = <<>>
        /\ \A k \in 1 .. 1 : g[1 .. k] = Wire!ToAnthropic(g[1 .. (k - 1)], <<m>>[k])
    BY <1>2, <2>1, FoldStep
  <2> QED
    BY <2>1, <2>2
<1> QED
  BY <1>1, <1>2, <1>3

(* The invariant. *)

Message == [role : {"user", "assistant", "tool"}, calls : Seq({"ok", "malformed"}),
            answers : Nat, cut : BOOLEAN]
Call == [index : Nat, args : Seq(Nat \X Nat)]
SentMessage == [role : {"user", "assistant", "tool"}, uses : SUBSET Nat, results : SUBSET Nat]

WireTypes ==
  /\ history \in Seq(Message)
  /\ \E n \in 0 .. MaxCalls : reply \in [1 .. n -> 0 .. MaxPieces]
  /\ acc \in Seq(Call)
  /\ stream \in {"idle", "open"}
  /\ stream = "open" => Wire!Unanswered(history) = {}

\* The accumulators have, of every call that has begun, the pieces it has sent, in order.
PiecesAreGathered ==
  /\ \A k \in DOMAIN acc :
       LET i == acc[k].index IN
       /\ i \in DOMAIN reply
       /\ acc[k].args = [p \in 1 .. reply[i] |-> <<i, p>>]
  /\ \A k, l \in DOMAIN acc : acc[k].index = acc[l].index => k = l
  /\ \A i \in DOMAIN reply : reply[i] > 0 => \E k \in DOMAIN acc : acc[k].index = i

\* What the request has of a reply's calls and of their results, while those in U wait.
Paired(sent, U) ==
  /\ sent \in Seq(SentMessage) /\ sent # <<>>
  /\ \A j \in DOMAIN sent : sent[j].uses = {} \/ sent[j].results = {}
  /\ sent[1].results = {}
  /\ \A j \in 1 .. Len(sent) - 1 :
       sent[j].uses # {} \/ sent[j + 1].results # {} =>
         /\ sent[j + 1].results # {}
         /\ sent[j].uses = sent[j + 1].results \cup (IF j + 1 = Len(sent) THEN U ELSE {})
  /\ LET last == sent[Len(sent)] IN
       /\ last.uses # {} => last.uses = U
       /\ U # {} => last.uses # {} \/ last.results # {}

WireIInv ==
  /\ WireTypes /\ PiecesAreGathered /\ Wire!CallsArriveWhole
  /\ Paired(Wire!ToAnthropicMessages(history), Wire!Unanswered(history))

\* The last reply of a conversation, and the calls that wait.
LEMMA LastReplyIs ==
  ASSUME NEW h \in Seq(Message), NEW x \in 1 .. Len(h), h[x].role = "assistant",
         \A i \in 1 .. Len(h) : h[i].role = "assistant" => i <= x
  PROVE  Wire!LastReply(h) = x
<1> DEFINE I == {i \in 1 .. Len(h) : h[i].role = "assistant"}
<1>1. Wire!LastReply(h) = IF I # {} THEN Wire!Max(I) ELSE 0
  BY DEF Wire!LastReply, Wire!SelectLastInSeq
<1>2. Len(h) \in Nat /\ I \in SUBSET (1 .. Len(h)) /\ x \in I /\ \A i \in I : i <= x
  OBVIOUS
<1> HIDE DEF I
<1> QED
  BY <1>1, <1>2, LastOf

LEMMA NoReply ==
  ASSUME NEW h \in Seq(Message), \A i \in 1 .. Len(h) : h[i].role # "assistant"
  PROVE  Wire!Unanswered(h) = {}
<1>1. Wire!LastReply(h) = 0
  BY DEF Wire!LastReply, Wire!SelectLastInSeq
<1> QED
  BY <1>1 DEF Wire!Unanswered

LEMMA UnansweredIs ==
  ASSUME NEW h \in Seq(Message), NEW x \in 1 .. Len(h), h[x].role = "assistant",
         \A i \in 1 .. Len(h) : h[i].role = "assistant" => i <= x,
         NEW a
  PROVE  a \in Wire!Unanswered(h) <=>
           a \in 1 .. Len(h[x].calls) /\ \A j \in x + 1 .. Len(h) : a # h[j].answers
<1>1. Wire!LastReply(h) = x /\ x # 0
  BY LastReplyIs
<1> QED
  BY <1>1 DEF Wire!Unanswered

\* A reply's calls wait; any other message answers one of those that waited.
LEMMA UnansweredAppend ==
  ASSUME NEW h \in Seq(Message), NEW m \in Message
  PROVE  Wire!Unanswered(Append(h, m)) =
           IF m.role = "assistant" THEN 1 .. Len(m.calls)
           ELSE Wire!Unanswered(h) \ {m.answers}
<1> DEFINE n == Len(h)  h2 == Append(h, m)
<1>1. /\ n \in Nat /\ h2 \in Seq(Message) /\ Len(h2) = n + 1 /\ h2[n + 1] = m
      /\ \A i \in 1 .. n : h2[i] = h[i]
  OBVIOUS
<1> HIDE DEF h2
<1>2. CASE m.role = "assistant"
  <2>1. \A a : a \in Wire!Unanswered(h2) <=>
          a \in 1 .. Len(h2[n + 1].calls) /\ \A j \in (n + 1) + 1 .. Len(h2) : a # h2[j].answers
    <3>1. n + 1 \in 1 .. Len(h2) /\ \A i \in 1 .. Len(h2) : i <= n + 1
      BY <1>1
    <3>2. PICK x \in 1 .. Len(h2) : x = n + 1
      BY <3>1
    <3>3. h2[x].role = "assistant" /\ \A i \in 1 .. Len(h2) : h2[i].role = "assistant" => i <= x
      BY <1>1, <1>2, <3>1, <3>2
    <3> QED
      BY <1>1, <3>2, <3>3, UnansweredIs
  <2>2. \A a : a \in Wire!Unanswered(h2) <=> a \in 1 .. Len(m.calls)
    <3>1. (n + 1) + 1 .. Len(h2) = {}
      BY <1>1
    <3> QED
      BY <1>1, <2>1, <3>1
  <2>3. \A S, T : (\A a : a \in S <=> a \in T) => S = T
    OBVIOUS
  <2>4. Wire!Unanswered(h2) = 1 .. Len(m.calls)
    BY <2>2, <2>3
  <2> QED
    BY <1>2, <2>4 DEF h2
<1>3. CASE m.role # "assistant" /\ \A i \in 1 .. n : h[i].role # "assistant"
  <2>1. \A i \in 1 .. Len(h2) : h2[i].role # "assistant"
    BY <1>1, <1>3
  <2> QED
    BY <1>1, <1>3, <2>1, NoReply DEF h2
<1>4. ASSUME m.role # "assistant", NEW i \in 1 .. n, h[i].role = "assistant"
      PROVE  Wire!Unanswered(h2) = Wire!Unanswered(h) \ {m.answers}
  <2>1. PICK x \in 1 .. n : h[x].role = "assistant"
                            /\ \A k \in 1 .. n : h[k].role = "assistant" => k <= x
    <3> DEFINE I == {k \in 1 .. n : h[k].role = "assistant"}
    <3>1. Wire!Max(I) \in I /\ \A k \in I : k <= Wire!Max(I)
      BY <1>1, <1>4, GreatestPosition
    <3> QED
      BY <3>1
  <2>2. /\ x \in 1 .. Len(h2) /\ h2[x].role = "assistant"
        /\ \A k \in 1 .. Len(h2) : h2[k].role = "assistant" => k <= x
    <3>1. x \in 1 .. Len(h2) /\ h2[x] = h[x]
      BY <1>1
    <3>2. \A k \in 1 .. Len(h2) : k \in 1 .. n \/ k = n + 1
      BY <1>1
    <3> QED
      BY <1>1, <1>4, <2>1, <3>1, <3>2
  <2>3. ASSUME NEW a
        PROVE  a \in Wire!Unanswered(h2) <=> a \in Wire!Unanswered(h) /\ a # m.answers
    <3>1. a \in Wire!Unanswered(h) <=>
            a \in 1 .. Len(h[x].calls) /\ \A j \in x + 1 .. n : a # h[j].answers
      BY <2>1, UnansweredIs
    <3>2. a \in Wire!Unanswered(h2) <=>
            a \in 1 .. Len(h2[x].calls) /\ \A j \in x + 1 .. Len(h2) : a # h2[j].answers
      BY <1>1, <2>2, UnansweredIs
    <3>3. h2[x] = h[x] /\ x \in Nat
      BY <1>1
    <3>4. (\A j \in x + 1 .. Len(h2) : a # h2[j].answers)
            <=> (\A j \in x + 1 .. n : a # h[j].answers) /\ a # m.answers
      BY <1>1, <3>3
    <3> QED
      BY <3>1, <3>2, <3>3, <3>4
  <2> QED
    BY <2>3
<1> QED
  BY <1>2, <1>3, <1>4 DEF h2

\* A result joins its round's message, or begins it.
LEMMA ResultJoins ==
  ASSUME NEW sent, NEW U \in SUBSET Nat, Paired(sent, U), NEW m \in Message,
         m.role = "tool", m.answers \in U
  PROVE  Paired(Wire!ToAnthropic(sent, m), U \ {m.answers})
<1> DEFINE n == Len(sent)
<1>1. /\ sent \in Seq(SentMessage) /\ n \in Nat \ {0} /\ sent # <<>>
      /\ \A j \in 1 .. n : sent[j] \in SentMessage
      /\ Wire!Last(sent) = sent[n]
  BY DEF Paired, Wire!Last
<1>2. CASE sent[n].results # {}
  <2> DEFINE t == [sent EXCEPT ![n].results = @ \cup {m.answers}]
  <2>1. Wire!ToAnthropic(sent, m) = t
    BY <1>1, <1>2 DEF Wire!ToAnthropic
  <2>2. /\ Len(t) = n /\ t \in Seq(SentMessage)
        /\ \A j \in 1 .. n : j # n => t[j] = sent[j]
        /\ t[n].uses = sent[n].uses /\ t[n].results = sent[n].results \cup {m.answers}
    BY <1>1 DEF SentMessage
  <2>3. sent[n].uses = {} /\ n # 1
    BY <1>1, <1>2 DEF Paired
  <2> HIDE DEF t
  <2>4. sent[n - 1].uses = sent[n].results \cup U
    BY <1>1, <1>2, <2>3 DEF Paired
  <2>5. \A j \in DOMAIN t : t[j].uses = {} \/ t[j].results = {}
    BY <1>1, <2>2, <2>3 DEF Paired
  <2>6. t[1].results = {} /\ t # <<>>
    BY <1>1, <2>2, <2>3 DEF Paired
  <2>7. ASSUME NEW j \in 1 .. n - 1, t[j].uses # {} \/ t[j + 1].results # {}
        PROVE  /\ t[j + 1].results # {}
               /\ t[j].uses = t[j + 1].results
                                \cup (IF j + 1 = n THEN U \ {m.answers} ELSE {})
    <3>1. CASE j + 1 = n
      <4>1. j = n - 1 /\ t[j] = sent[n - 1] /\ t[j + 1] = t[n]
        BY <1>1, <2>2, <3>1
      <4> QED
        BY <2>2, <2>4, <3>1, <4>1
    <3>2. CASE j + 1 # n
      <4>1. t[j] = sent[j] /\ t[j + 1] = sent[j + 1]
        BY <1>1, <2>2, <3>2
      <4> QED
        BY <2>7, <3>2, <4>1 DEF Paired
    <3> QED
      BY <3>1, <3>2
  <2>8. t[n].uses = {} /\ t[n].results # {}
    BY <2>2, <2>3
  <2> QED
    BY <2>1, <2>2, <2>5, <2>6, <2>7, <2>8 DEF Paired
<1>3. CASE sent[n].results = {}
  <2> DEFINE w == Wire!Wire("user", {}, {m.answers})  t == Append(sent, w)
  <2>1. Wire!ToAnthropic(sent, m) = t
    BY <1>1, <1>3 DEF Wire!ToAnthropic
  <2>2. w \in SentMessage /\ w.uses = {} /\ w.results = {m.answers}
    BY DEF SentMessage, Wire!Wire
  <2> HIDE DEF w
  <2>3. /\ Len(t) = n + 1 /\ t \in Seq(SentMessage) /\ t # <<>>
        /\ \A j \in 1 .. n : t[j] = sent[j]
        /\ t[n + 1] = w
    BY <1>1, <2>2
  <2>4. sent[n].uses = U
    BY <1>1, <1>3 DEF Paired
  <2>5. n > 1 => sent[n - 1].uses = {}
    BY <1>1, <1>3, <2>4 DEF Paired
  <2> HIDE DEF t
  <2>6. \A j \in DOMAIN t : t[j].uses = {} \/ t[j].results = {}
    BY <1>1, <2>2, <2>3 DEF Paired
  <2>7. t[1].results = {}
    BY <1>1, <2>3 DEF Paired
  <2>8. ASSUME NEW j \in 1 .. n, t[j].uses # {} \/ t[j + 1].results # {}
        PROVE  /\ t[j + 1].results # {}
               /\ t[j].uses = t[j + 1].results
                                \cup (IF j + 1 = n + 1 THEN U \ {m.answers} ELSE {})
    <3>1. CASE j = n
      BY <1>1, <2>2, <2>3, <2>4, <3>1
    <3>2. CASE j + 1 = n
      BY <1>1, <1>3, <2>3, <2>5, <2>8, <3>2
    <3>3. CASE j + 1 < n
      <4>1. t[j] = sent[j] /\ t[j + 1] = sent[j + 1] /\ j \in 1 .. n - 1
        BY <1>1, <2>3, <3>3
      <4> QED
        BY <2>8, <3>3, <4>1 DEF Paired
    <3> QED
      BY <1>1, <3>1, <3>2, <3>3
  <2>9. t[n + 1].uses = {} /\ t[n + 1].results # {}
    BY <2>2, <2>3
  <2> QED
    BY <1>1, <2>1, <2>3, <2>6, <2>7, <2>8, <2>9 DEF Paired
<1> QED
  BY <1>2, <1>3

\* Any other message is one of its own, once nothing waits.
LEMMA MessageFollows ==
  ASSUME NEW sent, Paired(sent, {}), NEW m \in Message, m.role # "tool"
  PROVE  Paired(Wire!ToAnthropic(sent, m), DOMAIN m.calls)
<1> DEFINE n == Len(sent)  w == Wire!Wire(m.role, DOMAIN m.calls, {})  t == Append(sent, w)
<1>1. Wire!ToAnthropic(sent, m) = t
  BY DEF Wire!ToAnthropic
<1>2. w \in SentMessage /\ w.uses = DOMAIN m.calls /\ w.results = {}
  BY DEF SentMessage, Wire!Wire, Message
<1> HIDE DEF w
<1>3. /\ sent \in Seq(SentMessage) /\ n \in Nat \ {0}
      /\ Len(t) = n + 1 /\ t \in Seq(SentMessage) /\ t # <<>>
      /\ \A j \in 1 .. n : t[j] = sent[j]
      /\ t[n + 1] = w
  BY <1>2 DEF Paired
<1>4. sent[n].uses = {}
  BY DEF Paired
<1>5. n > 1 => sent[n - 1].uses = sent[n].results
  <2> SUFFICES ASSUME n > 1 PROVE sent[n - 1].uses = sent[n].results
    OBVIOUS
  <2>1. n - 1 \in 1 .. n - 1 /\ (n - 1) + 1 = n
    BY <1>3
  <2>2. sent[n - 1].uses # {} \/ sent[n].results # {} => sent[n - 1].uses = sent[n].results \cup {}
    BY <2>1 DEF Paired
  <2> QED
    BY <2>2
<1> HIDE DEF t
<1>6. \A j \in DOMAIN t : t[j].uses = {} \/ t[j].results = {}
  BY <1>2, <1>3 DEF Paired
<1>7. t[1].results = {}
  BY <1>3 DEF Paired
<1>8. ASSUME NEW j \in 1 .. n, t[j].uses # {} \/ t[j + 1].results # {}
      PROVE  /\ t[j + 1].results # {}
             /\ t[j].uses = t[j + 1].results \cup (IF j + 1 = n + 1 THEN DOMAIN m.calls ELSE {})
  <2>1. j # n
    BY <1>2, <1>3, <1>4, <1>8
  <2>2. j \in 1 .. n - 1 /\ t[j] = sent[j] /\ t[j + 1] = sent[j + 1]
    BY <1>3, <2>1
  <2>3. sent[j].uses # {} \/ sent[j + 1].results # {} =>
          sent[j + 1].results # {} /\ sent[j].uses = sent[j + 1].results
    BY <2>2 DEF Paired
  <2>4. j + 1 # n + 1
    BY <2>1, <2>2, <1>3
  <2> QED
    BY <1>8, <2>2, <2>3, <2>4
<1>9. Len(t) - 1 = n
  BY <1>3
<1> QED
  BY <1>1, <1>2, <1>3, <1>6, <1>7, <1>8, <1>9 DEF Paired

LEMMA WaitingArePositions ==
  ASSUME NEW h \in Seq(Message)
  PROVE  Wire!Unanswered(h) \subseteq Nat
<1>1. CASE \A i \in 1 .. Len(h) : h[i].role # "assistant"
  BY <1>1, NoReply
<1>2. ASSUME NEW i \in 1 .. Len(h), h[i].role = "assistant" PROVE Wire!Unanswered(h) \subseteq Nat
  <2> DEFINE I == {k \in 1 .. Len(h) : h[k].role = "assistant"}
  <2>1. Wire!Max(I) \in I /\ \A k \in I : k <= Wire!Max(I)
    <3>1. Len(h) \in Nat /\ I \in SUBSET (1 .. Len(h)) /\ I # {}
      BY <1>2
    <3> HIDE DEF I
    <3> QED
      BY <3>1, GreatestPosition
  <2>2. PICK x \in 1 .. Len(h) : h[x].role = "assistant"
          /\ \A k \in 1 .. Len(h) : h[k].role = "assistant" => k <= x
    BY <2>1
  <2>3. \A a : a \in Wire!Unanswered(h) => a \in 1 .. Len(h[x].calls)
    BY <2>2, UnansweredIs
  <2> QED
    BY <2>3
<1> QED
  BY <1>1, <1>2

LEMMA WireInit == Wire!WireAssumption /\ Wire!Init => WireIInv
<1> SUFFICES ASSUME Wire!WireAssumption, Wire!Init PROVE WireIInv
  OBVIOUS
<1> DEFINE m == Wire!Text("user")  w == Wire!Wire("user", {}, {})
<1>1. m \in Message /\ history = <<m>> /\ m.role = "user" /\ m.calls = <<>>
  BY DEF Wire!Init, Wire!Text, Message
<1>2. Wire!Unanswered(history) = {}
  <2>1. history \in Seq(Message) /\ \A i \in 1 .. Len(history) : history[i].role # "assistant"
    BY <1>1
  <2> QED
    BY <2>1, NoReply
<1>3. WireTypes
  <2>1. 0 \in 0 .. MaxCalls /\ reply \in [1 .. 0 -> 0 .. MaxPieces]
    BY DEF Wire!Init, Wire!WireAssumption
  <2> QED
    BY <1>1, <1>2, <2>1 DEF Wire!Init, WireTypes
<1>4. PiecesAreGathered /\ Wire!CallsArriveWhole
  BY <1>1 DEF Wire!Init, PiecesAreGathered, Wire!CallsArriveWhole
<1>5. Wire!ToAnthropicMessages(history) = <<w>>
  <2>1. DOMAIN m.calls = {}
    BY <1>1
  <2>2. Wire!ToAnthropic(<<>>, m) = Append(<<>>, Wire!Wire("user", {}, {}))
    BY <1>1, <2>1 DEF Wire!ToAnthropic
  <2> QED
    BY <1>1, <2>2, SentOfOne
<1>6. Paired(<<w>>, {})
  <2>1. w \in SentMessage /\ w.uses = {} /\ w.results = {}
    BY DEF Wire!Wire, SentMessage
  <2> HIDE DEF w
  <2> QED
    BY <2>1 DEF Paired
<1> QED
  BY <1>2, <1>3, <1>4, <1>5, <1>6 DEF WireIInv

\* What a message more does to the conversation: a reply is whole, or was cut, and comes
\* when nothing waits; a result answers a call that waits.
LEMMA HistoryGrows ==
  ASSUME WireIInv, NEW m \in Message, history' = Append(history, m),
         ~m.cut => \A i \in DOMAIN m.calls : m.calls[i] = "ok",
         \/ Wire!Unanswered(history) = {} /\ m.role # "tool" /\ m.answers = 0
            /\ (m.role = "assistant" \/ m.calls = <<>>)
         \/ m.role = "tool" /\ m.answers \in Wire!Unanswered(history)
  PROVE  /\ history' \in Seq(Message)
         /\ Wire!CallsArriveWhole'
         /\ Paired(Wire!ToAnthropicMessages(history'), Wire!Unanswered(history'))
<1> DEFINE sent == Wire!ToAnthropicMessages(history)  U == Wire!Unanswered(history)
<1>1. history \in Seq(Message) /\ Paired(sent, U)
  BY DEF WireIInv, WireTypes
<1>2. history' \in Seq(Message)
  BY <1>1
<1>3. Wire!CallsArriveWhole'
  <2>1. \A j \in DOMAIN history' :
          (j \in DOMAIN history /\ history'[j] = history[j]) \/ history'[j] = m
    BY <1>1
  <2> QED
    BY <2>1 DEF WireIInv, Wire!CallsArriveWhole
<1>4. Wire!ToAnthropicMessages(history') = Wire!ToAnthropic(sent, m)
  BY <1>1, SentAppend
<1>5. Wire!Unanswered(history') = IF m.role = "assistant" THEN 1 .. Len(m.calls)
                                  ELSE U \ {m.answers}
  BY <1>1, UnansweredAppend
<1> HIDE DEF sent, U
<1>6. U \subseteq Nat
  BY <1>1, WaitingArePositions DEF U
<1>7. CASE m.role = "tool"
  <2>1. m.answers \in U /\ Wire!Unanswered(history') = U \ {m.answers}
    BY <1>5, <1>7 DEF U
  <2> QED
    BY <1>1, <1>2, <1>3, <1>4, <1>6, <1>7, <2>1, ResultJoins
<1>8. CASE m.role # "tool"
  <2>1. U = {} /\ m.calls \in Seq({"ok", "malformed"})
    BY <1>8 DEF U, Message
  <2>2. Wire!Unanswered(history') = DOMAIN m.calls
    BY <1>5, <1>8, <2>1
  <2> QED
    BY <1>1, <1>2, <1>3, <1>4, <1>8, <2>1, <2>2, MessageFollows
<1> QED
  BY <1>7, <1>8

\* Whatever a reply brings is a message of the conversation.
LEMMA AssistantIs ==
  ASSUME NEW a \in Seq(Call), NEW cut \in BOOLEAN
  PROVE  LET m == Wire!Assistant(a, cut) IN
         /\ m \in Message /\ m.role = "assistant" /\ m.answers = 0 /\ m.cut = cut
         /\ DOMAIN m.calls = 1 .. Len(a)
         /\ \A i \in 1 .. Len(a) : m.calls[i] = Wire!ParseToolArguments(a[i])
<1> DEFINE c == [i \in 1 .. Len(a) |-> Wire!ParseToolArguments(a[i])]
<1>1. c \in Seq({"ok", "malformed"})
  BY DEF Wire!ParseToolArguments
<1>2. Wire!Assistant(a, cut) =
        [role |-> "assistant", calls |-> c, answers |-> 0, cut |-> cut]
  <2>1. Wire!Assistant(a, cut) = [Wire!Text("assistant") EXCEPT !.calls = c, !.cut = cut]
    BY DEF Wire!Assistant
  <2> HIDE DEF c
  <2> QED
    BY <2>1 DEF Wire!Text
<1>3. DOMAIN c = 1 .. Len(a) /\ \A i \in 1 .. Len(a) : c[i] = Wire!ParseToolArguments(a[i])
  OBVIOUS
<1> HIDE DEF c
<1> QED
  BY <1>1, <1>2, <1>3 DEF Message

\* The pieces of a call join what is gathered of it, or begin it.
LEMMA PieceJoins ==
  ASSUME WireIInv, NEW i \in DOMAIN reply, Wire!Chunk(i), Wire!WireAssumption
  PROVE  acc' \in Seq(Call) /\ PiecesAreGathered'
<1> DEFINE I == {k \in 1 .. Len(acc) : acc[k].index = i}
           spot == IF I # {} THEN Wire!Min(I) ELSE 0
           piece == <<i, reply[i] + 1>>
<1>1. PICK n \in 0 .. MaxCalls : reply \in [1 .. n -> 0 .. MaxPieces]
  BY DEF WireIInv, WireTypes
<1>2. /\ acc \in Seq(Call) /\ i \in 1 .. n /\ i \in Nat /\ reply[i] \in Nat
      /\ reply' = [reply EXCEPT ![i] = @ + 1]
      /\ DOMAIN reply' = DOMAIN reply /\ reply'[i] = reply[i] + 1
      /\ \A j \in DOMAIN reply : j # i => reply'[j] = reply[j]
  BY <1>1 DEF WireIInv, WireTypes, Wire!Chunk, Wire!WireAssumption
<1>3. acc' = IF spot = 0 THEN Append(acc, [index |-> i, args |-> <<piece>>])
             ELSE [acc EXCEPT ![spot].args = Append(@, piece)]
  BY DEF Wire!Chunk, Wire!Gathered, Wire!SelectInSeq
<1>4. piece \in Nat \X Nat
  BY <1>2
<1>5. CASE I = {}
  <2> DEFINE c == [index |-> i, args |-> <<piece>>]
  <2>1. acc' = Append(acc, c)
    BY <1>3, <1>5
  <2>2. c \in Call /\ c.index = i /\ c.args = <<piece>>
    BY <1>2, <1>4 DEF Call
  <2>3. reply[i] = 0
    BY <1>2, <1>5 DEF WireIInv, PiecesAreGathered
  <2>4. c.args = [p \in 1 .. reply'[i] |-> <<i, p>>]
    <3>1. reply'[i] = 1 /\ piece = <<i, 1>>
      BY <1>2, <2>3
    <3> QED
      BY <2>2, <3>1
  <2> HIDE DEF c
  <2>5. /\ acc' \in Seq(Call) /\ DOMAIN acc' = 1 .. Len(acc) + 1 /\ acc'[Len(acc) + 1] = c
        /\ DOMAIN acc = 1 .. Len(acc) /\ Len(acc) \in Nat
        /\ \A k \in 1 .. Len(acc) : acc'[k] = acc[k] /\ acc[k].index # i
    BY <1>2, <1>5, <2>1, <2>2
  <2>6. \A k \in DOMAIN acc' : /\ acc'[k].index \in DOMAIN reply'
                               /\ acc'[k].args = [p \in 1 .. reply'[acc'[k].index]
                                                    |-> <<acc'[k].index, p>>]
    <3> SUFFICES ASSUME NEW k \in DOMAIN acc'
                 PROVE  /\ acc'[k].index \in DOMAIN reply'
                        /\ acc'[k].args = [p \in 1 .. reply'[acc'[k].index]
                                             |-> <<acc'[k].index, p>>]
      OBVIOUS
    <3>1. CASE k = Len(acc) + 1
      BY <1>2, <2>2, <2>4, <2>5, <3>1
    <3>2. CASE k \in 1 .. Len(acc)
      BY <1>2, <2>5, <3>2 DEF WireIInv, PiecesAreGathered
    <3> QED
      BY <2>5, <3>1, <3>2
  <2>7. \A k, l \in DOMAIN acc' : acc'[k].index = acc'[l].index => k = l
    BY <2>2, <2>5 DEF WireIInv, PiecesAreGathered
  <2>8. \A j \in DOMAIN reply' : reply'[j] > 0 => \E k \in DOMAIN acc' : acc'[k].index = j
    BY <1>2, <2>2, <2>5 DEF WireIInv, PiecesAreGathered
  <2> QED
    BY <2>5, <2>6, <2>7, <2>8 DEF PiecesAreGathered
<1>6. ASSUME NEW x \in I PROVE acc' \in Seq(Call) /\ PiecesAreGathered'
  <2>1. x \in DOMAIN acc /\ acc[x].index = i /\ I = {x} /\ x # 0
    BY <1>2, <1>6 DEF WireIInv, PiecesAreGathered
  <2>2. spot = x
    <3>1. Wire!Min({x}) = x
      BY <1>2, <1>6 DEF Wire!Min
    <3> QED
      BY <2>1, <3>1
  <2>3. /\ acc' = [acc EXCEPT ![x].args = Append(@, piece)]
        /\ acc[x] \in Call
    <3>1. spot # 0
      BY <2>1, <2>2
    <3> HIDE DEF spot, piece, I
    <3> QED
      BY <1>2, <1>3, <2>1, <2>2, <3>1
  <2>4. acc[x].args = [p \in 1 .. reply[i] |-> <<i, p>>]
    BY <2>1 DEF WireIInv, PiecesAreGathered
  <2>5. Append(acc[x].args, piece) = [p \in 1 .. reply'[i] |-> <<i, p>>]
    BY <1>2, <2>4
  <2>6. Append(acc[x].args, piece) \in Seq(Nat \X Nat)
    BY <1>4, <2>3 DEF Call
  <2> HIDE DEF piece, spot
  <2>7. /\ acc' \in Seq(Call) /\ DOMAIN acc' = DOMAIN acc
        /\ acc'[x].index = i /\ acc'[x].args = Append(acc[x].args, piece)
        /\ \A k \in DOMAIN acc : k # x => acc'[k] = acc[k] /\ acc[k].index # i
    <3> DEFINE c == [acc[x] EXCEPT !.args = Append(acc[x].args, piece)]
    <3>1. acc' = [acc EXCEPT ![x] = c]
      BY <2>3
    <3>2. c \in Call /\ c.index = i /\ c.args = Append(acc[x].args, piece)
      BY <2>1, <2>3, <2>6 DEF Call
    <3> HIDE DEF c, I
    <3>3. \A k \in DOMAIN acc : k # x => acc[k].index # i
      BY <2>1 DEF WireIInv, PiecesAreGathered
    <3> QED
      BY ONLY <1>2, <2>1, <3>1, <3>2, <3>3
  <2>8. \A k \in DOMAIN acc' : /\ acc'[k].index \in DOMAIN reply'
                               /\ acc'[k].args = [p \in 1 .. reply'[acc'[k].index]
                                                    |-> <<acc'[k].index, p>>]
    <3> SUFFICES ASSUME NEW k \in DOMAIN acc'
                 PROVE  /\ acc'[k].index \in DOMAIN reply'
                        /\ acc'[k].args = [p \in 1 .. reply'[acc'[k].index]
                                             |-> <<acc'[k].index, p>>]
      OBVIOUS
    <3>1. CASE k = x
      BY <1>2, <2>5, <2>7, <3>1
    <3>2. CASE k # x
      BY <1>2, <2>7, <3>2 DEF WireIInv, PiecesAreGathered
    <3> QED
      BY <3>1, <3>2
  <2>9. \A k, l \in DOMAIN acc' : acc'[k].index = acc'[l].index => k = l
    BY <2>1, <2>7 DEF WireIInv, PiecesAreGathered
  <2>10. \A j \in DOMAIN reply' : reply'[j] > 0 => \E k \in DOMAIN acc' : acc'[k].index = j
    BY <1>2, <2>1, <2>7 DEF WireIInv, PiecesAreGathered
  <2> QED
    BY <2>7, <2>8, <2>9, <2>10 DEF PiecesAreGathered
<1> QED
  BY <1>5, <1>6

\* A reply read whole brings every call whole.
LEMMA WholeIs ==
  ASSUME Wire!WireAssumption, NEW n \in 0 .. MaxCalls
  PROVE  LET a == [i \in 1 .. n |-> [index |-> i, args |-> Wire!Arguments(i)]] IN
         a \in Seq(Call) /\ Len(a) = n /\ \A i \in 1 .. n : Wire!ParseToolArguments(a[i]) = "ok"
<1> DEFINE a == [i \in 1 .. n |-> [index |-> i, args |-> Wire!Arguments(i)]]
<1>1. n \in Nat /\ MaxCalls \in Nat /\ MaxPieces \in Nat
  BY DEF Wire!WireAssumption
<1>2. ASSUME NEW i \in 1 .. n
      PROVE  /\ a[i] \in Call /\ a[i].args = Wire!Arguments(i) /\ i \in 1 .. MaxCalls
  <2>1. Wire!Arguments(i) \in Seq(Nat \X Nat)
    BY <1>1 DEF Wire!Arguments
  <2> QED
    BY <1>1, <2>1 DEF Call
<1>3. a \in Seq(Call) /\ Len(a) = n
  BY <1>1, <1>2
<1> HIDE DEF a
<1>4. \A i \in 1 .. n : Wire!ParseToolArguments(a[i]) = "ok"
  BY <1>2 DEF Wire!ParseToolArguments
<1> QED
  BY <1>3, <1>4 DEF a

LEMMA WireNext == Wire!WireAssumption /\ WireIInv /\ [Wire!Next]_(Wire!vars) => WireIInv'
<1> SUFFICES ASSUME Wire!WireAssumption, WireIInv, [Wire!Next]_(Wire!vars) PROVE WireIInv'
  OBVIOUS
<1>0. \A n \in 0 .. MaxCalls : [i \in 1 .. n |-> 0] \in [1 .. n -> 0 .. MaxPieces]
  BY DEF Wire!WireAssumption
\* The conversation does not change while a reply begins, or begins again.
<1>a. ASSUME NEW n \in 0 .. MaxCalls, reply' = [i \in 1 .. n |-> 0], acc' = <<>>,
             stream' \in {"idle", "open"}, stream' = "open" => Wire!Unanswered(history) = {},
             UNCHANGED history
      PROVE  WireIInv'
  <2>1. WireTypes'
    BY <1>0, <1>a DEF WireIInv, WireTypes
  <2>2. PiecesAreGathered'
    BY <1>a DEF PiecesAreGathered
  <2>3. Wire!CallsArriveWhole'
    BY <1>a DEF WireIInv, Wire!CallsArriveWhole
  <2> QED
    BY <1>a, <2>1, <2>2, <2>3 DEF WireIInv
\* A message comes while no reply is under way.
<1>b. ASSUME NEW m \in Message, history' = Append(history, m),
             ~m.cut => \A i \in DOMAIN m.calls : m.calls[i] = "ok",
             \/ Wire!Unanswered(history) = {} /\ m.role # "tool" /\ m.answers = 0
                /\ (m.role = "assistant" \/ m.calls = <<>>)
             \/ m.role = "tool" /\ m.answers \in Wire!Unanswered(history),
             stream' = "idle",
             UNCHANGED <<reply, acc>> \/ (reply' = <<>> /\ acc' = <<>>)
      PROVE  WireIInv'
  <2>1. /\ history' \in Seq(Message) /\ Wire!CallsArriveWhole'
        /\ Paired(Wire!ToAnthropicMessages(history'), Wire!Unanswered(history'))
    BY <1>b, HistoryGrows
  <2>2. WireTypes' /\ PiecesAreGathered'
    <3>1. CASE UNCHANGED <<reply, acc>>
      <4>1. WireTypes'
        BY <1>b, <2>1, <3>1 DEF WireIInv, WireTypes
      <4>2. PiecesAreGathered'
        BY <3>1 DEF WireIInv, PiecesAreGathered
      <4> QED
        BY <4>1, <4>2
    <3>2. CASE reply' = <<>> /\ acc' = <<>>
      <4>1. 0 \in 0 .. MaxCalls /\ reply' \in [1 .. 0 -> 0 .. MaxPieces]
        BY <3>2 DEF Wire!WireAssumption
      <4> QED
        BY <1>b, <2>1, <3>2, <4>1 DEF WireTypes, PiecesAreGathered
    <3> QED
      BY <1>b, <3>1, <3>2
  <2> QED
    BY <2>1, <2>2 DEF WireIInv
<1>1. ASSUME NEW n \in 0 .. MaxCalls, Wire!OpenStream(n) PROVE WireIInv'
  BY <1>1, <1>a DEF Wire!OpenStream
<1>2. ASSUME NEW n \in 0 .. MaxCalls, Wire!StreamBreaks(n) PROVE WireIInv'
  <2>1. stream = "open" /\ Wire!Unanswered(history) = {}
    BY <1>2 DEF Wire!StreamBreaks, WireIInv, WireTypes
  <2> QED
    BY <1>2, <1>a, <2>1 DEF Wire!StreamBreaks, Wire!AfterTheBreak
<1>3. ASSUME NEW n \in 0 .. MaxCalls, Wire!BlockingReply(n) PROVE WireIInv'
  <2> DEFINE a == [i \in 1 .. n |-> [index |-> i, args |-> Wire!Arguments(i)]]
             m == Wire!Assistant(a, FALSE)
  <2>1. a \in Seq(Call) /\ Len(a) = n /\ \A i \in 1 .. n : Wire!ParseToolArguments(a[i]) = "ok"
    BY WholeIs
  <2>2. history' = Append(history, m) /\ UNCHANGED <<reply, acc, stream>>
        /\ stream = "idle" /\ Wire!Unanswered(history) = {}
    BY <1>3 DEF Wire!BlockingReply
  <2> HIDE DEF a
  <2>3. /\ m \in Message /\ m.role = "assistant" /\ m.answers = 0
        /\ \A i \in DOMAIN m.calls : m.calls[i] = "ok"
    BY <2>1, AssistantIs
  <2> HIDE DEF m
  <2> QED
    BY <1>b, <2>2, <2>3
<1>4. ASSUME NEW n \in 0 .. MaxCalls, Wire!AnthropicReply(n) PROVE WireIInv'
  <2> DEFINE c == [i \in 1 .. n |-> "ok"]  m == [Wire!Text("assistant") EXCEPT !.calls = c]
  <2>1. history' = Append(history, m) /\ UNCHANGED <<reply, acc, stream>>
        /\ stream = "idle" /\ Wire!Unanswered(history) = {}
    BY <1>4 DEF Wire!AnthropicReply
  <2>2. c \in Seq({"ok", "malformed"}) /\ \A i \in DOMAIN c : c[i] = "ok"
    BY DEF Wire!WireAssumption
  <2> HIDE DEF c
  <2>3. m \in Message /\ m.role = "assistant" /\ m.answers = 0 /\ m.calls = c
    BY <2>2 DEF Wire!Text, Message
  <2> HIDE DEF m
  <2> QED
    BY <1>b, <2>1, <2>2, <2>3
<1>5. ASSUME NEW i \in 1 .. MaxCalls, Wire!Chunk(i) PROVE WireIInv'
  <2>1. i \in DOMAIN reply /\ reply[i] < MaxPieces /\ reply' = [reply EXCEPT ![i] = @ + 1]
        /\ UNCHANGED <<history, retries, stream>>
    BY <1>5 DEF Wire!Chunk
  <2>2. acc' \in Seq(Call) /\ PiecesAreGathered'
    BY <1>5, <2>1, PieceJoins
  <2>3. \E n \in 0 .. MaxCalls : reply' \in [1 .. n -> 0 .. MaxPieces]
    <3>1. PICK n \in 0 .. MaxCalls : reply \in [1 .. n -> 0 .. MaxPieces]
      BY DEF WireIInv, WireTypes
    <3>2. reply[i] + 1 \in 0 .. MaxPieces
      BY <2>1, <3>1 DEF Wire!WireAssumption
    <3>3. reply' \in [1 .. n -> 0 .. MaxPieces]
      BY <2>1, <3>1, <3>2
    <3> QED
      BY <3>3
  <2>4. WireTypes'
    BY <2>1, <2>2, <2>3 DEF WireIInv, WireTypes
  <2>5. Wire!CallsArriveWhole'
    BY <2>1 DEF WireIInv, Wire!CallsArriveWhole
  <2> QED
    BY <2>1, <2>2, <2>4, <2>5 DEF WireIInv
<1>6. CASE Wire!StreamEnds
  <2> DEFINE cut == \E i \in DOMAIN reply : reply[i] < MaxPieces
             m == Wire!Assistant(acc, cut)
  <2>1. history' = Append(history, m) /\ reply' = <<>> /\ acc' = <<>> /\ stream' = "idle"
        /\ stream = "open"
    BY <1>6 DEF Wire!StreamEnds
  <2>2. Wire!Unanswered(history) = {} /\ acc \in Seq(Call)
    BY <2>1 DEF WireIInv, WireTypes
  <2>3. ~cut => \A k \in 1 .. Len(acc) : Wire!ParseToolArguments(acc[k]) = "ok"
    <3> SUFFICES ASSUME ~cut, NEW k \in 1 .. Len(acc)
                 PROVE  Wire!ParseToolArguments(acc[k]) = "ok"
      OBVIOUS
    <3> DEFINE i == acc[k].index
    <3>1. i \in DOMAIN reply /\ acc[k].args = [p \in 1 .. reply[i] |-> <<i, p>>]
      BY <2>2 DEF WireIInv, PiecesAreGathered
    <3>2. reply[i] = MaxPieces /\ i \in 1 .. MaxCalls
      BY <3>1 DEF WireIInv, WireTypes, Wire!WireAssumption
    <3> QED
      BY <3>1, <3>2 DEF Wire!ParseToolArguments, Wire!Arguments
  <2>4. cut \in BOOLEAN
    OBVIOUS
  <2> HIDE DEF cut
  <2>5. /\ m \in Message /\ m.role = "assistant" /\ m.answers = 0 /\ m.cut = cut
        /\ DOMAIN m.calls = 1 .. Len(acc)
        /\ \A k \in 1 .. Len(acc) : m.calls[k] = Wire!ParseToolArguments(acc[k])
    BY <2>2, <2>4, AssistantIs
  <2> HIDE DEF m
  <2> QED
    BY <1>b, <2>1, <2>2, <2>3, <2>5
<1>7. CASE Wire!UserMessage
  <2> DEFINE m == Wire!Text("user")
  <2>1. history' = Append(history, m) /\ UNCHANGED <<reply, acc, stream>>
        /\ stream = "idle" /\ Wire!Unanswered(history) = {}
    BY <1>7 DEF Wire!UserMessage
  <2>2. m \in Message /\ m.role = "user" /\ m.answers = 0 /\ m.calls = <<>>
    BY DEF Wire!Text, Message
  <2> HIDE DEF m
  <2> QED
    BY <1>b, <2>1, <2>2
<1>8. CASE Wire!ToolResult
  <2> DEFINE U == Wire!Unanswered(history)
             first == CHOOSE i \in U : \A j \in U : i <= j
             m == [Wire!Text("tool") EXCEPT !.answers = first]
  <2>1. history' = Append(history, m) /\ UNCHANGED <<reply, acc, stream>>
        /\ stream = "idle" /\ U # {}
    BY <1>8 DEF Wire!ToolResult
  <2>2. U \subseteq Nat
    BY WaitingArePositions DEF WireIInv, WireTypes
  <2> HIDE DEF U
  <2>3. first \in U
    <3>1. \E i \in U : \A j \in U : i <= j
      BY <2>1, <2>2, LeastNatural
    <3> QED
      BY <3>1
  <2> HIDE DEF first
  <2>4. m \in Message /\ m.role = "tool" /\ m.answers = first /\ m.calls = <<>>
    <3>1. PICK f \in Nat : f = first
      BY <2>2, <2>3
    <3>2. PICK t : t = Wire!Text("tool")
      OBVIOUS
    <3>3. t \in [role : {"tool"}, calls : {<<>>}, answers : Nat, cut : BOOLEAN]
      BY <3>2 DEF Wire!Text
    <3>4. [t EXCEPT !.answers = f] \in [role : {"tool"}, calls : {<<>>},
                                         answers : Nat, cut : BOOLEAN]
          /\ [t EXCEPT !.answers = f].answers = f
      BY <3>3
    <3>5. <<>> \in Seq({"ok", "malformed"})
      OBVIOUS
    <3> QED
      BY <3>1, <3>2, <3>4, <3>5 DEF Message
  <2> HIDE DEF m
  <2> QED
    BY <1>b, <2>1, <2>3, <2>4 DEF U
<1>9. CASE UNCHANGED Wire!vars
  BY <1>9 DEF Wire!vars, WireIInv, WireTypes, PiecesAreGathered, Wire!CallsArriveWhole
<1> QED
  BY <1>1, <1>2, <1>3, <1>4, <1>5, <1>6, <1>7, <1>8, <1>9 DEF Wire!Next

\* Once nothing waits, the pairs in the request are complete.
LEMMA PairsAreComplete == WireIInv => Wire!ResultsFollowTheirCalls
<1> DEFINE sent == Wire!ToAnthropicMessages(history)
<1> SUFFICES ASSUME WireIInv, Wire!Unanswered(history) = {}, NEW j \in DOMAIN sent
             PROVE  /\ sent[j].uses # {} => j < Len(sent) /\ sent[j + 1].results = sent[j].uses
                    /\ sent[j].results # {} => j > 1 /\ sent[j - 1].uses = sent[j].results
  BY DEF Wire!ResultsFollowTheirCalls
<1>1. Paired(sent, {})
  BY DEF WireIInv
<1> HIDE DEF sent
<1>2. /\ sent \in Seq(SentMessage) /\ j \in 1 .. Len(sent) /\ Len(sent) \in Nat
      /\ sent[1].results = {} /\ sent[Len(sent)].uses = {}
  BY <1>1 DEF Paired
<1>3. \A k \in 1 .. Len(sent) - 1 :
        sent[k].uses # {} \/ sent[k + 1].results # {} => sent[k].uses = sent[k + 1].results
  BY <1>1 DEF Paired
<1>4. ASSUME sent[j].uses # {}
      PROVE  j < Len(sent) /\ sent[j + 1].results = sent[j].uses
  <2>1. j \in 1 .. Len(sent) - 1
    BY <1>2, <1>4
  <2> QED
    BY <1>3, <1>4, <2>1
<1>5. ASSUME sent[j].results # {}
      PROVE  j > 1 /\ sent[j - 1].uses = sent[j].results
  <2>1. j - 1 \in 1 .. Len(sent) - 1 /\ (j - 1) + 1 = j /\ j > 1
    BY <1>2, <1>5
  <2> QED
    BY <1>3, <1>5, <2>1
<1> QED
  BY <1>4, <1>5

\* A step of the run is one of the wire, or leaves it alone.
LEMMA WireStep == [MCNext]_mcVars => [Wire!Next]_(Wire!vars)
  BY DEF MCNext, mcVars, wireVars, Wire!vars

(* For any number of calls, pieces, messages and broken attempts: a reply    *)
(* that came to its end brings every call whole, however its pieces          *)
(* interleaved; and in the request to Anthropic the message after a reply    *)
(* that calls tools brings the results of all its calls and of no other.     *)
THEOREM CallsMatchResults == MCSpec => []CallsAndResultsMatch
<1>1. MCInit => WireIInv
  BY WireInit, Assumptions DEF MCInit
<1>2. WireIInv /\ [MCNext]_mcVars => WireIInv'
  BY WireStep, WireNext, Assumptions
<1>3. WireIInv => CallsAndResultsMatch
  BY PairsAreComplete DEF CallsAndResultsMatch, WireIInv
<1> QED
  BY <1>1, <1>2, <1>3, PTL DEF MCSpec

-----------------------------------------------------------------------------
(* The daily timer. *)

TimerRight == wall + left \in {Hour, Hour + Hours}

\* A timer that was set on a day without a change of the clock expires at the
\* configured hour; one that was not expires before the next day is over.
ArmedRight ==
  timer = "armed" =>
    \/ shifted = "today"
    \/ TimerRight
    \/ shifted = "yesterday" /\ wall + left < Hours

\* On a steady day the pass is behind an armed timer of tomorrow, and ahead of
\* one of today.
PassOfTheDay ==
  Timer!Steady =>
    /\ today <= 1
    /\ wall < Hour => today = 0
    /\ timer = "new" => today = 0
    /\ timer = "armed" /\ wall + left = Hour => today = 0
    /\ timer = "expired" => wall = Hour /\ today = 0

\* What became of the timer that was armed when the day began.
WholeDay ==
  Timer!Steady /\ whole =>
    /\ timer \in {"armed", "expired", "running", "rearming"}
    /\ timer = "armed" /\ wall + left = Hour + Hours => today = 1
    /\ timer \in {"running", "rearming"} => today = 1

TimerIInv ==
  /\ Timer!TypeOK
  /\ stops = 0 => stopping = "none" /\ timer # "none"
  /\ ArmedRight /\ PassOfTheDay /\ WholeDay

\* The hour after this one.
LEMMA NextHour ==
  ASSUME NEW n \in Nat, NEW h \in 0..(n - 1)
  PROVE  (h + 1) % n = IF h = n - 1 THEN 0 ELSE h + 1
<1>1. CASE h = n - 1
  BY <1>1
<1>2. CASE h # n - 1
  BY <1>2
<1> QED
  BY <1>1, <1>2

\* Nothing is armed, and no pass has begun.
LEMMA TimerInit == Timer!ScheduleAssumption /\ Timer!Init => TimerIInv
<1> SUFFICES ASSUME Timer!ScheduleAssumption, Timer!Init PROVE TimerIInv
  OBVIOUS
<1>1. Timer!TypeOK
  <2>1. Hours \in Nat /\ MaxShifts \in Nat /\ MaxStops \in Nat
    BY DEF Timer!ScheduleAssumption
  <2>2. left \in 0..Hours /\ shifts \in 0..MaxShifts /\ stops \in 0..MaxStops /\ today \in Nat
    BY <2>1 DEF Timer!Init
  <2>3. wall \in 0..(Hours - 1) /\ whole \in BOOLEAN
    BY DEF Timer!Init
  <2> QED
    BY <2>2, <2>3 DEF Timer!Init, Timer!TypeOK
<1>2. ArmedRight /\ PassOfTheDay /\ WholeDay
  BY DEF Timer!Init, ArmedRight, PassOfTheDay, WholeDay, Timer!Steady
<1> QED
  BY <1>1, <1>2 DEF Timer!Init, TimerIInv

\* The hours to the next time, as the timer needs them.
LEMMA ArmIsRight ==
  ASSUME Timer!ScheduleAssumption, Timer!TypeOK, Timer!Arm, wall' = wall
  PROVE  /\ left' \in 0..Hours /\ timer' = "armed" /\ TimerRight'
         /\ wall < Hour => wall' + left' = Hour
         /\ wall >= Hour => wall' + left' = Hour + Hours
  BY DEF Timer!ScheduleAssumption, Timer!TypeOK, Timer!Arm, Timer!SecondsUntilNext, TimerRight

\* Every step of the timer, of its thread, of stop and of the clock.
LEMMA TimerNext ==
  Timer!ScheduleAssumption /\ TimerIInv /\ [Timer!Next]_(Timer!vars) => TimerIInv'
<1> SUFFICES ASSUME Timer!ScheduleAssumption, TimerIInv, [Timer!Next]_(Timer!vars)
             PROVE  TimerIInv'
  OBVIOUS
<1> USE DEF Timer!ScheduleAssumption, TimerIInv, Timer!TypeOK, ArmedRight, PassOfTheDay, WholeDay,
            Timer!Steady, Timer!clock
<1>1. CASE Timer!Start
  BY <1>1, ArmIsRight DEF Timer!Start, TimerRight
<1>2. CASE Timer!Expire
  BY <1>2 DEF Timer!Expire, TimerRight
<1>3. CASE Timer!Fire
  BY <1>3 DEF Timer!Fire
<1>4. CASE Timer!PassEnds
  BY <1>4 DEF Timer!PassEnds
<1>5. CASE Timer!Rearm
  BY <1>5, ArmIsRight DEF Timer!Rearm, TimerRight
<1>6. CASE Timer!Flag
  BY <1>6 DEF Timer!Flag, TimerRight
<1>7. CASE Timer!Cancel
  BY <1>7 DEF Timer!Cancel, TimerRight
<1>8. CASE Timer!Restart
  BY <1>8 DEF Timer!Restart
<1>9. CASE Timer!Tick
  <2> USE DEF Timer!Tick, Timer!Prompt, Timer!Turn
  <2>1. wall' = IF wall = Hours - 1 THEN 0 ELSE wall + 1
    BY <1>9, NextHour
  <2>2. /\ left' = IF timer = "armed" THEN left - 1 ELSE left
        /\ timer = "armed" => left > 0
        /\ timer \in {"new", "armed", "none", "running"}
        /\ UNCHANGED <<timer, stopping, shifts, stops>>
    BY <1>9
  <2>3. CASE wall = Hours - 1
    <3>1. /\ wall' = 0 /\ today' = 0 /\ whole' = (timer = "armed")
          /\ shifted' = IF shifted = "today" THEN "yesterday" ELSE "no"
      BY <1>9, <2>1, <2>3
    <3>2. Timer!TypeOK'
      BY <2>2, <3>1
    <3>3. timer = "armed" =>
            /\ wall' + left' < Hours
            /\ TimerRight => wall' + left' = Hour
            /\ shifted # "today" => TimerRight
      BY <2>2, <2>3, <3>1 DEF TimerRight
    <3>4. ArmedRight'
      BY <2>2, <3>1, <3>3 DEF TimerRight
    <3>5. PassOfTheDay'
      BY <2>2, <3>1
    <3>6. WholeDay'
      <4>1. whole' => timer' = "armed" /\ wall' + left' < Hours
        BY <2>2, <3>1, <3>3
      <4>2. Hour + Hours >= Hours
        OBVIOUS
      <4>3. whole' => timer' = "armed" /\ wall' + left' # Hour + Hours
        BY <2>2, <3>1, <4>1, <4>2
      <4> QED
        BY <4>3
    <3> QED
      BY <2>2, <3>2, <3>4, <3>5, <3>6
  <2>4. CASE wall # Hours - 1
    <3>1. /\ wall' = wall + 1 /\ whole' = (whole /\ timer = "armed")
          /\ UNCHANGED <<today, shifted>>
      BY <1>9, <2>1, <2>4
    <3> QED
      BY <2>2, <2>4, <3>1 DEF TimerRight
  <2> QED
    BY <2>3, <2>4
<1>10. CASE Timer!Shift
  BY <1>10 DEF Timer!Shift, Timer!Prompt
<1>11. CASE UNCHANGED Timer!vars
  BY <1>11 DEF Timer!vars, TimerRight
<1> QED
  BY <1>1, <1>2, <1>3, <1>4, <1>5, <1>6, <1>7, <1>8, <1>9, <1>10, <1>11 DEF Timer!Next

\* A step of the run is one of the timer, or leaves it alone.
LEMMA TimerStep == [MCNext]_mcVars => [Timer!Next]_(Timer!vars)
  BY DEF MCNext, mcVars, timerVars, Timer!vars

(* For any length of the day, any hour, any changes of the clock and any     *)
(* stops: a day the clock is not changed on sees one pass and not two, and   *)
(* sees one if it began with a timer set; and none begins once stop has      *)
(* returned.                                                                 *)
THEOREM OnePassEachDay == MCSpec => []Timer!OnePassADay /\ Timer!NoPassAfterStop
<1>1. MCInit => TimerIInv
  BY TimerInit, Assumptions DEF MCInit
<1>2. TimerIInv /\ [MCNext]_mcVars => TimerIInv'
  BY TimerStep, TimerNext, Assumptions
<1>3. TimerIInv => Timer!OnePassADay
  BY Assumptions
  DEF Timer!ScheduleAssumption, TimerIInv, Timer!TypeOK, ArmedRight, PassOfTheDay, WholeDay,
      Timer!Steady, TimerRight, Timer!OnePassADay
<1>4. TimerIInv /\ [MCNext]_mcVars =>
        [stopping = "done" /\ timer' = "running" => timer = "running"]_(Timer!vars)
  <2> SUFFICES ASSUME [Timer!Next]_(Timer!vars), stopping = "done", timer' = "running"
               PROVE  timer = "running" \/ UNCHANGED Timer!vars
    BY TimerStep
  <2> QED
    BY
    DEF Timer!Next, Timer!Start, Timer!Expire, Timer!Fire, Timer!PassEnds, Timer!Rearm,
        Timer!Flag, Timer!Cancel, Timer!Restart, Timer!Tick, Timer!Shift, Timer!Arm
<1> QED
  BY <1>1, <1>2, <1>3, <1>4, PTL DEF MCSpec, Timer!NoPassAfterStop

-----------------------------------------------------------------------------
(* The terminal interface. *)

Turns == [at : {"none", "start", "work", "shows", "modal", "calls", "waits", "report", "finish"},
          agent : Agents \cup {Screen!Nobody}, asks : Screen!Events \cup {Screen!Nobody},
          streams : BOOLEAN, answered : BOOLEAN, child : Threads \cup {Screen!Nobody}]

ScreenTypes ==
  /\ turn \in [Threads -> Turns] /\ answer \in Threads \cup {Screen!Nobody}
  /\ broken \subseteq Threads /\ crossed \subseteq Threads /\ missed \subseteq Threads

\* What a thread runs: nothing is remembered of a turn that ended, only a turn
\* streams, before it has answered, and what waits to be shown may be shown.
TurnInOrder(t) ==
  /\ turn[t].at = "none" => turn[t] = Screen!NoTurn
  /\ turn[t].streams => turn[t].agent # Screen!Nobody /\ turn[t].at \in {"work", "shows", "modal"}
  /\ turn[t].answered => turn[t].at \in {"work", "shows"} /\ ~turn[t].streams
  /\ turn[t].at = "shows" => turn[t].asks \in Screen!Shows(t)

\* An answer nothing crossed streams alone, in the widget and whole, or its
\* widget is gone; beside a sub-agent nothing crossed there is no widget.
WidgetIsIts(t) ==
  /\ turn[t].streams =>
       /\ \A u \in Threads \ {t} : ~turn[u].streams
       /\ answer \in {t, Screen!Nobody}
       /\ answer = t => t \notin broken
  /\ Screen!SubAgent(t) \/ turn[t].at = "calls" => answer = Screen!Nobody

ScreenIInv ==
  /\ ScreenTypes
  /\ \A t \in Threads : TurnInOrder(t)
  /\ \A t \in Threads \ crossed : WidgetIsIts(t)
  /\ \A t \in missed : t \in crossed /\ turn[t].answered

\* Nothing is in flight.
LEMMA ScreenInit == Screen!TerminalAssumption /\ Screen!Init => ScreenIInv
  BY
  DEF Screen!TerminalAssumption, Screen!Init, ScreenIInv, ScreenTypes, Turns, TurnInOrder,
      WidgetIsIts, Screen!SubAgent, Screen!InFlight, Screen!NoTurn, Screen!Nobody, Screen!Shows,
      Screen!Events

\* A step of one thread that shows nothing, and begins no stream.
LEMMA ThreadGoesOn ==
  ASSUME Screen!TerminalAssumption, ScreenIInv, NEW t \in Threads, NEW r \in Turns,
         turn' = [turn EXCEPT ![t] = r],
         r.at = "none" => r = Screen!NoTurn,
         r.streams =>
           /\ turn[t].streams /\ r.agent = turn[t].agent
           /\ r.at \in {"work", "shows", "modal"},
         r.answered => turn[t].answered /\ r.at \in {"work", "shows"},
         r.at = "shows" => r.asks \in Screen!Shows(t)',
         r.at \notin {"none", "calls"} /\ r.agent = Screen!Nobody => Screen!SubAgent(t),
         r.at # "calls",
         answer' = answer, broken' \subseteq broken,
         crossed' = crossed \/ (crossed' = crossed \ {t} /\ r.at \in {"none", "report", "finish"}
                                  /\ ~r.streams /\ (r.at = "none" \/ r.agent # Screen!Nobody)),
         missed' \subseteq missed, t \in missed' => r.answered /\ t \in crossed'
  PROVE  ScreenIInv'
<1>1. \A s \in Threads : turn'[s] = IF s = t THEN r ELSE turn[s]
  BY DEF ScreenIInv, ScreenTypes
<1>2. ScreenTypes'
  BY DEF ScreenIInv, ScreenTypes
<1>3. ASSUME NEW s \in Threads PROVE TurnInOrder(s)'
  <2>1. CASE s = t
    BY <1>1, <2>1 DEF ScreenIInv, TurnInOrder
  <2>2. CASE s # t
    BY <1>1, <2>2 DEF ScreenIInv, TurnInOrder, Screen!Shows, Screen!SubAgent, Screen!InFlight
  <2> QED
    BY <2>1, <2>2
<1>4. ASSUME NEW s \in Threads \ crossed' PROVE WidgetIsIts(s)'
  <2>1. CASE s = t
    <3>1. CASE t \in crossed
      BY <1>1, <2>1, <3>1 DEF WidgetIsIts, Screen!SubAgent, Screen!InFlight
    <3>2. CASE t \notin crossed
      <4>1. WidgetIsIts(t)
        BY <3>2 DEF ScreenIInv
      <4>2. Screen!SubAgent(t)' => Screen!SubAgent(t)
        BY <1>1 DEF Screen!SubAgent, Screen!InFlight
      <4> QED
        BY <1>1, <2>1, <4>1, <4>2 DEF WidgetIsIts
    <3> QED
      BY <3>1, <3>2
  <2>2. CASE s # t
    <3>1. WidgetIsIts(s)
      BY <2>2 DEF ScreenIInv
    <3> QED
      BY <1>1, <2>2, <3>1 DEF WidgetIsIts, Screen!SubAgent, Screen!InFlight
  <2> QED
    BY <2>1, <2>2
<1>5. \A s \in missed' : s \in crossed' /\ turn'[s].answered
  BY <1>1 DEF ScreenIInv, ScreenTypes
<1> QED
  BY <1>2, <1>3, <1>4, <1>5 DEF ScreenIInv

\* A sub-agent starts: the widget ended when its call was shown.
LEMMA SpawnKeeps ==
  ASSUME Screen!TerminalAssumption, ScreenIInv, NEW t \in Threads, NEW c \in Threads,
         Screen!Spawn(t, c)
  PROVE  ScreenIInv'
<1> DEFINE r == [turn[t] EXCEPT !.at = "waits", !.child = c]
           k == [Screen!NoTurn EXCEPT !.at = "work"]
<1>1. /\ turn[t].at = "calls" /\ turn[c].at = "none" /\ turn[c] = Screen!NoTurn /\ c # t
      /\ ~turn[t].streams /\ ~turn[t].answered
  BY DEF Screen!Spawn, Screen!Free, Screen!InFlight, ScreenIInv, TurnInOrder
<1>2. \A s \in Threads : turn'[s] = IF s = c THEN k ELSE IF s = t THEN r ELSE turn[s]
  BY <1>1 DEF Screen!Spawn, ScreenIInv, ScreenTypes
<1>3. /\ r \in Turns /\ r.at = "waits" /\ r.agent = turn[t].agent /\ ~r.streams /\ ~r.answered
      /\ k \in Turns /\ k.at = "work" /\ ~k.streams /\ ~k.answered /\ k.agent = Screen!Nobody
  BY <1>1 DEF ScreenIInv, ScreenTypes, Turns, Screen!NoTurn, Screen!Nobody
<1>4. /\ UNCHANGED <<answer, broken, missed>>
      /\ crossed' = IF t \in crossed THEN crossed \cup {c} ELSE crossed
  BY DEF Screen!Spawn
<1>5. c \notin missed
  BY <1>1 DEF ScreenIInv, Screen!NoTurn
<1> HIDE DEF r, k
<1>6. ScreenTypes'
  <2>1. turn' \in [Threads -> Turns]
    BY <1>2, <1>3 DEF Screen!Spawn, ScreenIInv, ScreenTypes
  <2> QED
    BY <1>4, <2>1 DEF ScreenIInv, ScreenTypes
<1>7. ASSUME NEW s \in Threads PROVE TurnInOrder(s)'
  <2>1. CASE s \in {t, c}
    BY <1>1, <1>2, <1>3, <2>1 DEF TurnInOrder
  <2>2. CASE s \notin {t, c}
    BY <1>2, <2>2 DEF ScreenIInv, TurnInOrder, Screen!Shows, Screen!SubAgent, Screen!InFlight
  <2> QED
    BY <2>1, <2>2
<1>8. ASSUME NEW s \in Threads \ crossed' PROVE WidgetIsIts(s)'
  <2>1. CASE s \in {t, c}
    <3>1. t \notin crossed
      BY <1>4, <2>1
    <3>2. answer = Screen!Nobody
      BY <1>1, <3>1 DEF ScreenIInv, WidgetIsIts
    <3> QED
      BY <1>2, <1>3, <1>4, <2>1, <3>2 DEF WidgetIsIts
  <2>2. CASE s \notin {t, c}
    <3>1. WidgetIsIts(s)
      BY <1>4 DEF ScreenIInv
    <3> QED
      BY <1>2, <1>3, <1>4, <2>2, <3>1 DEF WidgetIsIts, Screen!SubAgent, Screen!InFlight
  <2> QED
    BY <2>1, <2>2
<1>9. \A s \in missed' : s \in crossed' /\ turn'[s].answered
  BY <1>1, <1>2, <1>4, <1>5 DEF ScreenIInv, ScreenTypes
<1> QED
  BY <1>6, <1>7, <1>8, <1>9 DEF ScreenIInv

\* An event is put on the screen.
LEMMA ApplyKeeps ==
  ASSUME Screen!TerminalAssumption, ScreenIInv, NEW t \in Threads, Screen!Apply(t)
  PROVE  ScreenIInv'
<1> DEFINE what == turn[t].asks
           r == [turn[t] EXCEPT !.at = IF what = "call" THEN "calls" ELSE "work",
                                !.asks = Screen!Nobody,
                                !.streams = what \in {"streaming", "token"},
                                !.answered = turn[t].answered \/ what = "final"]
<1>1. /\ turn[t] \in Turns /\ turn[t].at = "shows" /\ what \in Screen!Shows(t)
      /\ what # "question"
  BY DEF Screen!Apply, ScreenIInv, ScreenTypes, TurnInOrder
<1>2. /\ turn' = [turn EXCEPT ![t] = r]
      /\ answer' = Screen!Widget(t, what) /\ broken' = Screen!Broken(t, what)
      /\ crossed' = Screen!Crossed(t, what)
      /\ missed' = IF what = "final" /\ Screen!NotShown(t) THEN missed \cup {t} ELSE missed
  BY DEF Screen!Apply
<1>3. /\ r \in Turns /\ r.at = (IF what = "call" THEN "calls" ELSE "work")
      /\ r.agent = turn[t].agent
      /\ r.streams <=> what \in {"streaming", "token"}
      /\ r.answered <=> turn[t].answered \/ what = "final"
  <2> DEFINE a == IF what = "call" THEN "calls" ELSE "work"
             b == what \in {"streaming", "token"}
             c == turn[t].answered \/ what = "final"
  <2>1. /\ a \in {"calls", "work"} /\ b \in BOOLEAN /\ c \in BOOLEAN
        /\ r = [turn[t] EXCEPT !.at = a, !.asks = Screen!Nobody, !.streams = b, !.answered = c]
    OBVIOUS
  <2> HIDE DEF a, b, c, r
  <2>2. /\ r \in Turns /\ r.at = a /\ r.agent = turn[t].agent /\ r.streams = b
        /\ r.answered = c
    BY <1>1, <2>1 DEF Turns
  <2> QED
    BY <2>2 DEF a, b, c
<1>4. \A s \in Threads : turn'[s] = IF s = t THEN r ELSE turn[s]
  BY <1>2 DEF ScreenIInv, ScreenTypes
<1>5. what \in {"streaming", "token", "final", "event", "call"}
  BY <1>1 DEF Screen!Shows
<1>6. /\ what \in {"streaming", "token", "call"} => turn[t].agent # Screen!Nobody
                                                    /\ ~turn[t].answered
      /\ what = "token" => turn[t].streams
      /\ what = "final" => turn[t].streams \/ turn[t].agent = Screen!Nobody
  <2> HIDE DEF what
  <2>1. CASE turn[t].agent = Screen!Nobody
    <3>1. Screen!Shows(t) = {"event", "final"}
      BY <1>1, <2>1 DEF Screen!Shows, Screen!SubAgent, Screen!InFlight
    <3>2. what \in {"event", "final"}
      BY <1>1, <3>1
    <3> QED
      BY <2>1, <3>2
  <2>2. CASE turn[t].agent # Screen!Nobody /\ turn[t].answered
    <3>1. Screen!Shows(t) = {"event"}
      BY <2>2 DEF Screen!Shows, Screen!SubAgent
    <3>2. what = "event"
      BY <1>1, <3>1
    <3> QED
      BY <3>2
  <2>3. CASE turn[t].agent # Screen!Nobody /\ ~turn[t].answered
    BY <1>1, <2>3 DEF Screen!Shows, Screen!SubAgent
  <2> QED
    BY <2>1, <2>2, <2>3
<1> HIDE DEF r, what
<1>7. ScreenTypes'
  <2>1. turn' \in [Threads -> Turns]
    BY <1>2, <1>3 DEF ScreenIInv, ScreenTypes
  <2>2. answer' \in Threads \cup {Screen!Nobody}
    BY <1>2 DEF ScreenIInv, ScreenTypes, Screen!Widget
  <2>3. broken' \subseteq Threads
    BY <1>2 DEF ScreenIInv, ScreenTypes, Screen!Broken
  <2>4. crossed' \subseteq Threads
    BY <1>2 DEF ScreenIInv, ScreenTypes, Screen!Crossed, Screen!Streaming, Screen!Delegating
  <2>5. missed' \subseteq Threads
    BY <1>2 DEF ScreenIInv, ScreenTypes
  <2> QED
    BY <2>1, <2>2, <2>3, <2>4, <2>5 DEF ScreenTypes
<1>8. ASSUME NEW s \in Threads PROVE TurnInOrder(s)'
  <2>1. CASE s = t
    <3>1. turn[t].answered => ~r.streams /\ what # "call"
      BY <1>3, <1>6
    <3>2. what = "final" => ~r.streams
      BY <1>3
    <3>3. r.streams => r.agent # Screen!Nobody /\ r.at = "work"
      BY <1>3, <1>6
    <3> QED
      BY <1>3, <1>4, <2>1, <3>1, <3>2, <3>3 DEF TurnInOrder
  <2>2. CASE s # t
    BY <1>4, <2>2 DEF ScreenIInv, TurnInOrder, Screen!Shows, Screen!SubAgent, Screen!InFlight
  <2> QED
    BY <2>1, <2>2
<1>9. ASSUME NEW s \in Threads \ crossed' PROVE WidgetIsIts(s)'
  <2>1. CASE what = "streaming"
    <3>1. answer' = t /\ broken' = broken \ {t}
      BY <1>2, <2>1 DEF Screen!Widget, Screen!Broken
    <3>2. s = t => Screen!Streaming(t) = {}
      BY <1>2, <2>1 DEF Screen!Crossed
    <3>3. s # t => s \notin Screen!Streaming(t) \cup Screen!Delegating(t)
      BY <1>2, <2>1 DEF Screen!Crossed
    <3>4. CASE s = t
      BY <1>3, <1>4, <1>6, <2>1, <3>1, <3>2, <3>4
      DEF WidgetIsIts, Screen!Streaming, Screen!SubAgent
    <3>5. CASE s # t
      BY <1>4, <3>3, <3>5
      DEF WidgetIsIts, Screen!Streaming, Screen!Delegating, Screen!SubAgent, Screen!InFlight
    <3> QED
      BY <3>4, <3>5
  <2>2. CASE what = "token"
    <3>1. /\ answer' = answer /\ crossed' = crossed
          /\ broken' = IF answer # t THEN (broken \cup {t, answer}) \ {Screen!Nobody} ELSE broken
      BY <1>2, <2>2 DEF Screen!Widget, Screen!Broken, Screen!Crossed
    <3>2. WidgetIsIts(s)
      BY <3>1 DEF ScreenIInv
    <3>3. CASE s = t
      BY <1>3, <1>4, <1>6, <2>2, <3>1, <3>2, <3>3 DEF WidgetIsIts, Screen!SubAgent
    <3>4. CASE s # t
      BY <1>4, <1>6, <2>2, <3>1, <3>2, <3>4 DEF WidgetIsIts, Screen!SubAgent, Screen!InFlight
    <3> QED
      BY <3>3, <3>4
  <2>3. CASE what \in {"final", "event", "call"}
    <3>1. answer' = Screen!Nobody /\ broken' = broken
      BY <1>2, <2>3 DEF Screen!Widget, Screen!Broken
    <3>2. s # t => s \notin crossed
      BY <1>2, <2>3 DEF Screen!Crossed
    <3>3. CASE s = t
      BY <1>3, <1>4, <2>3, <3>1, <3>3 DEF WidgetIsIts
    <3>4. CASE s # t
      <4>1. WidgetIsIts(s)
        BY <3>2, <3>4 DEF ScreenIInv
      <4>2. answer' # s
        BY <3>1 DEF Screen!TerminalAssumption
      <4> QED
        BY <1>3, <1>4, <2>3, <3>1, <3>4, <4>1, <4>2 DEF WidgetIsIts
    <3> QED
      BY <3>3, <3>4
  <2> QED
    BY <1>5, <2>1, <2>2, <2>3
<1>10. ASSUME NEW s \in missed' PROVE s \in crossed' /\ turn'[s].answered
  <2>1. CASE s \in missed
    <3>1. s \in crossed /\ turn[s].answered /\ s \in Threads
      BY <2>1 DEF ScreenIInv, ScreenTypes
    <3>2. s = t => what \notin {"streaming", "call"}
      BY <1>6, <3>1
    <3>3. s \in crossed'
      BY <1>2, <3>1, <3>2 DEF Screen!Crossed
    <3> QED
      BY <1>3, <1>4, <3>1, <3>3
  <2>2. CASE s \notin missed
    <3>1. s = t /\ what = "final" /\ Screen!NotShown(t)
      BY <1>2, <2>2
    <3>2. t \in crossed
      <4> SUFFICES ASSUME t \notin crossed PROVE FALSE
        OBVIOUS
      <4>1. WidgetIsIts(t)
        BY DEF ScreenIInv
      <4>2. CASE turn[t].streams
        BY <3>1, <4>1, <4>2 DEF WidgetIsIts, Screen!NotShown
      <4>3. CASE turn[t].agent = Screen!Nobody
        BY <1>1, <3>1, <4>1, <4>3
        DEF WidgetIsIts, Screen!NotShown, Screen!SubAgent, Screen!InFlight
      <4> QED
        BY <1>6, <3>1, <4>2, <4>3
    <3> QED
      BY <1>2, <1>3, <1>4, <3>1, <3>2 DEF Screen!Crossed
  <2> QED
    BY <2>1, <2>2
<1> QED
  BY <1>7, <1>8, <1>9, <1>10 DEF ScreenIInv

\* Every step of the person, of a turn's thread and of the interface's.
LEMMA ScreenNext ==
  Screen!TerminalAssumption /\ ScreenIInv /\ [Screen!Next]_(Screen!vars) => ScreenIInv'
<1> SUFFICES ASSUME Screen!TerminalAssumption, ScreenIInv, [Screen!Next]_(Screen!vars)
             PROVE  ScreenIInv'
  OBVIOUS
<1>u. ASSUME UNCHANGED <<turn, answer, broken, crossed, missed>> PROVE ScreenIInv'
  BY <1>u
  DEF ScreenIInv, ScreenTypes, TurnInOrder, WidgetIsIts, Screen!SubAgent, Screen!InFlight,
      Screen!Shows
<1>a. ASSUME NEW t \in Threads, turn[t].at # "none" PROVE turn[t].agent = Screen!Nobody =>
                                                          Screen!SubAgent(t)
  BY <1>a DEF Screen!SubAgent, Screen!InFlight
<1>b. \A t \in Threads : /\ turn[t] \in Turns /\ TurnInOrder(t)
                         /\ t \in missed => t \in crossed /\ turn[t].answered
  BY DEF ScreenIInv, ScreenTypes
<1>1. ASSUME NEW t \in Threads, NEW a \in Agents, Screen!Ask(t, a) PROVE ScreenIInv'
  <2> DEFINE r == [Screen!NoTurn EXCEPT !.at = "start", !.agent = a]
  <2>1. /\ turn' = [turn EXCEPT ![t] = r] /\ turn[t].at = "none"
        /\ UNCHANGED <<answer, broken, crossed, missed>>
    BY <1>1 DEF Screen!Ask, Screen!Free, Screen!InFlight, Screen!sceneVars
  <2>2. /\ r \in Turns /\ r.at = "start" /\ ~r.streams /\ ~r.answered /\ r.agent = a
        /\ a # Screen!Nobody
    BY DEF Turns, Screen!NoTurn, Screen!TerminalAssumption
  <2>3. t \notin missed
    BY <1>b, <2>1 DEF TurnInOrder, Screen!NoTurn
  <2> HIDE DEF r
  <2> QED
    BY <2>1, <2>2, <2>3, ThreadGoesOn
<1>2. CASE \/ \E a \in Agents : Screen!Switch(a)
           \/ Screen!SwitchSession \/ Screen!SessionSwitched
  BY <1>2, <1>u DEF Screen!Switch, Screen!SwitchSession, Screen!SessionSwitched, Screen!sceneVars
<1>3. ASSUME NEW t \in Threads, Screen!TakeLock(t) PROVE ScreenIInv'
  <2> DEFINE r == [turn[t] EXCEPT !.at = "work"]
  <2>1. /\ turn' = [turn EXCEPT ![t] = r] /\ turn[t].at = "start"
        /\ UNCHANGED <<answer, broken, crossed, missed>>
    BY <1>3 DEF Screen!TakeLock, Screen!sceneVars
  <2>2. /\ r \in Turns /\ r.at = "work" /\ r.streams = turn[t].streams
        /\ r.answered = turn[t].answered /\ r.agent = turn[t].agent
    BY <1>b, <2>1 DEF Turns
  <2> HIDE DEF r
  <2> QED
    BY <1>a, <1>b, <2>1, <2>2, ThreadGoesOn DEF TurnInOrder
<1>4. ASSUME NEW t \in Threads, NEW what \in Screen!Events, Screen!Show(t, what) PROVE ScreenIInv'
  <2> DEFINE r == [turn[t] EXCEPT !.at = "shows", !.asks = what]
  <2>1. /\ turn' = [turn EXCEPT ![t] = r] /\ turn[t].at = "work" /\ what \in Screen!Shows(t)
        /\ UNCHANGED <<answer, broken, crossed, missed>>
    BY <1>4 DEF Screen!Show, Screen!sceneVars
  <2>2. /\ r \in Turns /\ r.at = "shows" /\ r.streams = turn[t].streams
        /\ r.answered = turn[t].answered /\ r.agent = turn[t].agent /\ r.asks = what
    BY <1>b, <2>1 DEF Turns
  <2> HIDE DEF r
  <2>3. turn'[t] = r
    BY <2>1 DEF ScreenIInv, ScreenTypes
  <2>4. r.asks \in Screen!Shows(t)'
    BY <2>1, <2>2, <2>3 DEF Screen!Shows, Screen!SubAgent, Screen!InFlight
  <2> QED
    BY <1>a, <1>b, <2>1, <2>2, <2>4, ThreadGoesOn DEF TurnInOrder
<1>5. ASSUME NEW t \in Threads, NEW failed \in BOOLEAN, Screen!SendEnds(t, failed)
      PROVE  ScreenIInv'
  <2> DEFINE r == IF Screen!SubAgent(t) THEN Screen!NoTurn
                  ELSE [Screen!NoTurn EXCEPT !.at = Screen!AfterSend(failed),
                                             !.agent = turn[t].agent]
  <2>1. /\ turn' = [turn EXCEPT ![t] = r] /\ turn[t].at = "work"
        /\ answer' = answer /\ broken' = broken \ {t} /\ crossed' = crossed \ {t}
        /\ missed' = missed \ {t}
    BY <1>5 DEF Screen!SendEnds
  <2>2. /\ r \in Turns /\ ~r.streams /\ ~r.answered
        /\ \/ r = Screen!NoTurn /\ r.at = "none"
           \/ r.at \in {"report", "finish"} /\ r.agent # Screen!Nobody
    <3>1. CASE Screen!SubAgent(t)
      BY <3>1 DEF Turns, Screen!NoTurn, Screen!Nobody
    <3>2. CASE ~Screen!SubAgent(t)
      <4>1. turn[t].agent \in Agents /\ turn[t].agent # Screen!Nobody
        BY <1>a, <1>b, <2>1, <3>2 DEF Turns
      <4> QED
        BY <3>2, <4>1 DEF Turns, Screen!NoTurn, Screen!AfterSend
    <3> QED
      BY <3>1, <3>2
  <2> HIDE DEF r
  <2> QED
    BY <2>1, <2>2, ThreadGoesOn
<1>6. ASSUME NEW t \in Threads, Screen!SpawnRefused(t) \/ Screen!Joined(t) \/ Screen!JoinTimesOut(t)
      PROVE  ScreenIInv'
  <2>1. PICK c \in Threads \cup {Screen!Nobody} :
          /\ turn' = [turn EXCEPT ![t] = [turn[t] EXCEPT !.at = "work", !.child = c]]
          /\ turn[t].at \in {"calls", "waits"} /\ UNCHANGED <<answer, broken, crossed, missed>>
    <3>1. CASE Screen!SpawnRefused(t)
      <4>1. turn' = [turn EXCEPT ![t] = [turn[t] EXCEPT !.at = "work"]]
        BY <3>1 DEF Screen!SpawnRefused
      <4>2. [turn[t] EXCEPT !.at = "work"] = [turn[t] EXCEPT !.at = "work", !.child = turn[t].child]
        BY <1>b DEF Turns
      <4>3. turn[t].child \in Threads \cup {Screen!Nobody}
        BY <1>b DEF Turns
      <4> QED
        BY <3>1, <4>1, <4>2, <4>3 DEF Screen!SpawnRefused, Screen!sceneVars
    <3>2. CASE Screen!Joined(t) \/ Screen!JoinTimesOut(t)
      BY <3>2 DEF Screen!Joined, Screen!JoinTimesOut, Screen!sceneVars
    <3> QED
      BY <1>6, <3>1, <3>2
  <2> DEFINE r == [turn[t] EXCEPT !.at = "work", !.child = c]
  <2>2. /\ r \in Turns /\ r.at = "work" /\ r.streams = turn[t].streams
        /\ r.answered = turn[t].answered /\ r.agent = turn[t].agent
    BY <1>b DEF Turns
  <2>3. turn' = [turn EXCEPT ![t] = r]
    BY <2>1
  <2> HIDE DEF r
  <2> QED
    BY <1>a, <1>b, <2>1, <2>2, <2>3, ThreadGoesOn DEF TurnInOrder
<1>7. ASSUME NEW t \in Threads, Screen!OpenModal(t) PROVE ScreenIInv'
  <2> DEFINE r == [turn[t] EXCEPT !.at = "modal"]
  <2>1. /\ turn' = [turn EXCEPT ![t] = r] /\ turn[t].at = "shows" /\ turn[t].asks = "question"
        /\ UNCHANGED <<answer, broken, crossed, missed>>
    BY <1>7 DEF Screen!OpenModal, Screen!sceneVars
  <2>2. /\ r \in Turns /\ r.at = "modal" /\ r.streams = turn[t].streams
        /\ r.answered = turn[t].answered /\ r.agent = turn[t].agent
    BY <1>b DEF Turns
  <2>3. ~turn[t].answered
    BY <1>b, <2>1 DEF TurnInOrder, Screen!Shows
  <2> HIDE DEF r
  <2> QED
    BY <1>a, <1>b, <2>1, <2>2, <2>3, ThreadGoesOn DEF TurnInOrder
<1>8. ASSUME NEW t \in Threads, Screen!AnswerModal(t) PROVE ScreenIInv'
  <2> DEFINE r == [turn[t] EXCEPT !.at = "work", !.asks = Screen!Nobody]
  <2>1. /\ turn' = [turn EXCEPT ![t] = r] /\ turn[t].at = "modal"
        /\ UNCHANGED <<answer, broken, crossed, missed>>
    BY <1>8 DEF Screen!AnswerModal, Screen!sceneVars
  <2>2. /\ r \in Turns /\ r.at = "work" /\ r.streams = turn[t].streams
        /\ r.answered = turn[t].answered /\ r.agent = turn[t].agent
    BY <1>b DEF Turns
  <2> HIDE DEF r
  <2> QED
    BY <1>a, <1>b, <2>1, <2>2, ThreadGoesOn DEF TurnInOrder
<1>9. ASSUME NEW t \in Threads, Screen!ReportFailure(t) PROVE ScreenIInv'
  <2> DEFINE r == [turn[t] EXCEPT !.at = "finish"]
  <2>1. /\ turn' = [turn EXCEPT ![t] = r] /\ turn[t].at = "report"
        /\ UNCHANGED <<answer, broken, crossed, missed>>
    BY <1>9 DEF Screen!ReportFailure, Screen!sceneVars
  <2>2. /\ r \in Turns /\ r.at = "finish" /\ r.streams = turn[t].streams
        /\ r.answered = turn[t].answered /\ r.agent = turn[t].agent
    BY <1>b DEF Turns
  <2> HIDE DEF r
  <2> QED
    BY <1>a, <1>b, <2>1, <2>2, ThreadGoesOn DEF TurnInOrder
<1>10. ASSUME NEW t \in Threads, Screen!FinishTurn(t) PROVE ScreenIInv'
  <2>1. /\ turn' = [turn EXCEPT ![t] = Screen!NoTurn] /\ turn[t].at = "finish"
        /\ UNCHANGED <<answer, broken, crossed, missed>>
    BY <1>10 DEF Screen!FinishTurn, Screen!sceneVars
  <2>2. /\ Screen!NoTurn \in Turns /\ Screen!NoTurn.at = "none" /\ ~Screen!NoTurn.streams
        /\ ~Screen!NoTurn.answered
    BY DEF Turns, Screen!NoTurn, Screen!Nobody
  <2> QED
    BY <1>b, <2>1, <2>2, ThreadGoesOn DEF TurnInOrder
<1>11. CASE UNCHANGED Screen!vars
  BY <1>11, <1>u DEF Screen!vars, Screen!sceneVars
<1> QED
  BY <1>1, <1>2, <1>3, <1>4, <1>5, <1>6, <1>7, <1>8, <1>9, <1>10, <1>11, SpawnKeeps, ApplyKeeps
  DEF Screen!Next, Screen!Person, Screen!TurnStep, Screen!UiStep

\* A step of the run is one of the interface, or leaves it alone.
LEMMA ScreenStep == [MCNext]_mcVars => [Screen!Next]_(Screen!vars)
  BY DEF MCNext, mcVars, screenVars, Screen!vars, Screen!sceneVars

(* For any agents, palette, turns, sub-agents and events, overlapping or not: *)
(* a final answer is on the screen in full, though a late sub-agent's events  *)
(* end the widget it streams into and a failed turn leaves its own behind;    *)
(* unless another turn's answer streamed while it did, or while the sub-agent *)
(* whose answer it is was at work.                                            *)
THEOREM AnswersReachTheScreen == MCSpec => []Screen!AnswersAreShown
<1>1. MCInit => ScreenIInv
  BY ScreenInit, Assumptions DEF MCInit
<1>2. ScreenIInv /\ [MCNext]_mcVars => ScreenIInv'
  BY ScreenStep, ScreenNext, Assumptions
<1>3. ScreenIInv => Screen!AnswersAreShown
  BY DEF ScreenIInv, Screen!AnswersAreShown
<1> QED
  BY <1>1, <1>2, <1>3, PTL DEF MCSpec

-----------------------------------------------------------------------------
(* The file of the sessions. *)

RegTypes ==
  /\ cache \in Registry!Registry /\ path \in Registry!Registry \cup {Torn}
  /\ tmp \in Registry!Registry \cup {NoFile, Torn}
  /\ place \in [Registry!AllThreads -> Registry!Saving \cup
                  {"idle", "unborn", "admitted", "created", "joining", "running", "ended"}]
  /\ why \in [Registry!AllThreads -> {"none", "touch", "new", "create", "renew"}]
  /\ snap \in [Registry!AllThreads -> Registry!Registry]
  /\ fd \in [Registry!AllThreads -> {"none", "tmp", "path", "gone"}]
  /\ child \in [Spawners -> Children \cup {Registry!NoChild}]
  /\ latest \in 0..MaxSessions /\ alone \subseteq Registry!AllThreads

Saves(t) == place[t] \in Registry!Saving

\* Who saves alone is the only one who saves, and unless saves were mixed it is
\* alone; without a process nobody saves.
SavesAlone ==
  /\ \A t \in alone : Saves(t) /\ \A u \in Registry!AllThreads : Saves(u) => u = t
  /\ ~mixed => \A t \in Registry!AllThreads : Saves(t) => t \in alone
  /\ ~up => \A t \in Registry!AllThreads : ~Saves(t)
  /\ \A t \in Registry!AllThreads : fd[t] # "none" => place[t] = "opened"

\* What it writes is what the process knows, and nobody writes over it.
AloneIsExact ==
  \A t \in alone :
    /\ place[t] \in {"dumping", "dumped", "opened"} => snap[t] = cache
    /\ place[t] = "opened" => fd[t] = "tmp" /\ tmp = Torn
    /\ place[t] = "written" => tmp = cache

FileIInv == RegTypes /\ SavesAlone /\ AloneIsExact /\ Registry!FileFollowsCache

\* A sub-agent that is being made has one maker, is on record and has not begun.
ChildInMaking ==
  /\ \A c, d \in Spawners : child[c] = child[d] /\ child[c] # Registry!NoChild => c = d
  /\ \A c \in Spawners : child[c] # Registry!NoChild => child[c] \in cache.kids
  /\ \A c \in Spawners : why[c] \in {"create", "renew"} \/ place[c] = "created" =>
       child[c] # Registry!NoChild /\ place[child[c]] = "unborn"
  /\ up \/ \A c \in Spawners : child[c] = Registry!NoChild
  /\ \A k \in Children : why[k] \notin {"create", "renew"}
  /\ \A t \in Registry!AllThreads : why[t] # "none" => Saves(t)

\* The process begins with the registry it read.
LEMMA FileInit == Registry!RegistryAssumption /\ Registry!Init => FileIInv
<1> SUFFICES ASSUME Registry!RegistryAssumption, Registry!Init PROVE FileIInv
  OBVIOUS
<1> USE DEF Registry!RegistryAssumption, Registry!Init
<1>1. Registry!Begun \in Registry!Registry /\ Registry!Empty \in Registry!Registry
  BY DEF Registry!Begun, Registry!Empty, Registry!Registry
<1>2. RegTypes
  BY <1>1 DEF RegTypes, Registry!AllThreads
<1>3. SavesAlone /\ AloneIsExact
  BY DEF SavesAlone, AloneIsExact, Saves, Registry!Saving
<1>4. Registry!FileFollowsCache
  BY <1>1 DEF Registry!FileFollowsCache
<1> QED
  BY <1>2, <1>3, <1>4 DEF FileIInv

\* An operation that changes the dictionary begins a save.
LEMMA ChangeBegins ==
  ASSUME Registry!RegistryAssumption, FileIInv, up, NEW t \in Registry!AllThreads, ~Saves(t),
         NEW op \in {"touch", "new", "create", "renew"}, NEW r \in Registry!Registry,
         Registry!Change(t, op, r), latest' \in 0..MaxSessions,
         child' \in [Spawners -> Children \cup {Registry!NoChild}],
         UNCHANGED <<up, path, tmp, fd>>
  PROVE  FileIInv'
<1> USE DEF Registry!Change, FileIInv
<1>1. RegTypes'
  BY DEF RegTypes, Registry!Saving
<1>2. \A u \in Registry!AllThreads :
        /\ place'[u] = IF u = t THEN "dumping" ELSE place[u]
        /\ snap'[u] = IF u = t THEN r ELSE snap[u]
  BY DEF RegTypes
<1>3. CASE Registry!Savers = {}
  <2>1. alone' = {t} /\ (mixed' <=> mixed) /\ \A u \in Registry!AllThreads : ~Saves(u)
    BY <1>3 DEF Registry!Savers, Saves
  <2>2. \A u \in Registry!AllThreads : Saves(u)' <=> u = t
    BY <1>2, <2>1 DEF Saves, Registry!Saving
  <2>3. SavesAlone'
    <3>1. \A u \in Registry!AllThreads : fd'[u] # "none" => place'[u] = "opened"
      BY <1>2 DEF SavesAlone, Saves, Registry!Saving
    <3> QED
      BY <2>1, <2>2, <3>1 DEF SavesAlone
  <2>4. AloneIsExact'
    BY <1>2, <2>1 DEF AloneIsExact
  <2>5. Registry!FileFollowsCache'
    BY <2>1, <2>2 DEF Registry!FileFollowsCache, Registry!Savers, Saves
  <2> QED
    BY <1>1, <2>3, <2>4, <2>5
<1>4. CASE Registry!Savers # {}
  <2>1. alone' = {} /\ mixed'
    BY <1>4
  <2>2. SavesAlone' /\ AloneIsExact'
    <3>1. \A u \in Registry!AllThreads : fd'[u] # "none" => place'[u] = "opened"
      BY <1>2 DEF SavesAlone, Saves, Registry!Saving
    <3> QED
      BY <2>1, <3>1 DEF SavesAlone, AloneIsExact
  <2>3. Registry!FileFollowsCache'
    BY <2>1 DEF Registry!FileFollowsCache
  <2> QED
    BY <1>1, <2>2, <2>3
<1> QED
  BY <1>3, <1>4

\* A thread that neither begins nor ends a save.
LEMMA OthersMove ==
  ASSUME FileIInv, place' \in [Registry!AllThreads -> Registry!Saving \cup
                  {"idle", "unborn", "admitted", "created", "joining", "running", "ended"}],
         \A t \in Registry!AllThreads : place'[t] = place[t] \/ (~Saves(t) /\ ~Saves(t)'),
         child' \in [Spawners -> Children \cup {Registry!NoChild}],
         UNCHANGED <<up, cache, path, tmp, why, snap, fd, latest, alone, mixed>>
  PROVE  FileIInv'
<1>1. \A t \in Registry!AllThreads :
        /\ Saves(t)' <=> Saves(t)
        /\ Saves(t) => place'[t] = place[t]
  BY DEF Saves
<1>2. RegTypes'
  BY DEF FileIInv, RegTypes
<1>3. SavesAlone'
  BY <1>1 DEF FileIInv, SavesAlone, RegTypes, Saves, Registry!Saving
<1>4. AloneIsExact'
  BY <1>1 DEF FileIInv, SavesAlone, AloneIsExact, RegTypes
<1>5. Registry!Savers' = Registry!Savers
  BY <1>1 DEF Registry!Savers, Saves
<1>6. Registry!FileFollowsCache'
  BY <1>5 DEF FileIInv, Registry!FileFollowsCache
<1> QED
  BY <1>2, <1>3, <1>4, <1>6 DEF FileIInv

\* A save that goes on, with the files as they are.
LEMMA StaysAlone ==
  ASSUME FileIInv, UNCHANGED <<up, alone, mixed>>,
         \A t \in Registry!AllThreads : Saves(t)' <=> Saves(t),
         \A t \in Registry!AllThreads : fd'[t] # "none" => place'[t] = "opened"
  PROVE  SavesAlone'
<1>1. alone \subseteq Registry!AllThreads
  BY DEF FileIInv, RegTypes
<1>2. \A t \in alone : Saves(t)' /\ \A u \in Registry!AllThreads : Saves(u)' => u = t
  BY <1>1 DEF FileIInv, SavesAlone
<1>3. ~mixed' => \A t \in Registry!AllThreads : Saves(t)' => t \in alone'
  BY DEF FileIInv, SavesAlone
<1>4. ~up' => \A t \in Registry!AllThreads : ~Saves(t)'
  BY DEF FileIInv, SavesAlone
<1> QED
  BY <1>2, <1>3, <1>4 DEF SavesAlone

\* Every step of the threads, of a save, of a stop and of a start.
LEMMA FileNext ==
  ASSUME Registry!RegistryAssumption, FileIInv, ChildInMaking, [Registry!Next]_(Registry!vars)
  PROVE  FileIInv'
<1>t. Spawners \subseteq Registry!AllThreads /\ Children \subseteq Registry!AllThreads
  BY DEF Registry!AllThreads
<1>u. RegTypes
  BY DEF FileIInv
<1>1. ASSUME NEW t \in Registry!AllThreads, Registry!Touch(t) PROVE FileIInv'
  <2>1. ~Saves(t) /\ cache \in Registry!Registry
    BY <1>1, <1>u DEF Registry!Touch, Saves, Registry!Saving, RegTypes
  <2>2. child' \in [Spawners -> Children \cup {Registry!NoChild}] /\ latest' \in 0..MaxSessions
    BY <1>1, <1>u DEF Registry!Touch, RegTypes
  <2> QED
    BY <1>1, <2>1, <2>2, ChangeBegins DEF Registry!Touch, Registry!files
<1>2. ASSUME NEW c \in Spawners, Registry!NewSession(c) PROVE FileIInv'
  <2> DEFINE r == [cache EXCEPT !.session = latest + 1]
  <2>1. ~Saves(c) /\ r \in Registry!Registry
    <3>1. latest + 1 \in 0..MaxSessions
      BY <1>2, <1>u DEF Registry!NewSession, RegTypes, Registry!RegistryAssumption
    <3> QED
      BY <1>2, <1>u, <3>1
      DEF Registry!NewSession, Saves, Registry!Saving, RegTypes, Registry!Registry
  <2>2. child' \in [Spawners -> Children \cup {Registry!NoChild}] /\ latest' \in 0..MaxSessions
    BY <1>2, <1>u DEF Registry!NewSession, RegTypes, Registry!RegistryAssumption
  <2>3. up /\ Registry!Change(c, "new", r) /\ UNCHANGED <<up, path, tmp, fd>>
    BY <1>2 DEF Registry!NewSession, Registry!files
  <2> HIDE DEF r
  <2> QED
    BY <1>t, <2>1, <2>2, <2>3, ChangeBegins
<1>3. ASSUME NEW c \in Spawners, Registry!CreateChild(c) PROVE FileIInv'
  <2>1. PICK k \in Children :
          /\ child' = [child EXCEPT ![c] = k]
          /\ Registry!Change(c, "create", [cache EXCEPT !.kids = @ \cup {k}])
    BY <1>3 DEF Registry!CreateChild
  <2> DEFINE r == [cache EXCEPT !.kids = @ \cup {k}]
  <2>2. ~Saves(c) /\ r \in Registry!Registry
    BY <1>3, <1>u DEF Registry!CreateChild, Saves, Registry!Saving, RegTypes, Registry!Registry
  <2>3. child' \in [Spawners -> Children \cup {Registry!NoChild}] /\ latest' \in 0..MaxSessions
    BY <1>3, <1>u, <2>1 DEF Registry!CreateChild, RegTypes
  <2>4. up /\ Registry!Change(c, "create", r) /\ UNCHANGED <<up, path, tmp, fd>>
    BY <1>3, <2>1 DEF Registry!CreateChild, Registry!files
  <2> HIDE DEF r
  <2> QED
    BY <1>t, <2>2, <2>3, <2>4, ChangeBegins
<1>4. ASSUME NEW c \in Spawners, Registry!RenewChild(c) PROVE FileIInv'
  <2>1. ~Saves(c) /\ cache \in Registry!Registry
    BY <1>4, <1>u DEF Registry!RenewChild, Saves, Registry!Saving, RegTypes
  <2>2. child' \in [Spawners -> Children \cup {Registry!NoChild}] /\ latest' \in 0..MaxSessions
    BY <1>4, <1>u DEF Registry!RenewChild, RegTypes
  <2> QED
    BY <1>t, <1>4, <2>1, <2>2, ChangeBegins DEF Registry!RenewChild, Registry!files
<1>5. ASSUME NEW c \in Spawners, Registry!AdmitSpawn(c) PROVE FileIInv'
  BY <1>5, <1>t, <1>u, OthersMove
  DEF Registry!AdmitSpawn, Registry!files, RegTypes, Saves, Registry!Saving
<1>6. ASSUME NEW k \in Children, Registry!ChildFails(k) PROVE FileIInv'
  BY <1>6, <1>t, <1>u, OthersMove
  DEF Registry!ChildFails, Registry!files, Registry!history, RegTypes, Saves, Registry!Saving
<1>7. ASSUME NEW c \in Spawners, Registry!Return(c) PROVE FileIInv'
  BY <1>7, <1>t, <1>u, OthersMove
  DEF Registry!Return, Registry!files, Registry!history, RegTypes, Saves, Registry!Saving
<1>8. ASSUME NEW t \in Registry!AllThreads, Registry!EndDump(t) PROVE FileIInv'
  <2> DEFINE same == cache.kids = snap[t].kids
  <2>1. CASE same
    <3>1. PICK s \in {snap[t].session, cache.session} :
            /\ snap' = [snap EXCEPT ![t].session = s] /\ place' = [place EXCEPT ![t] = "dumped"]
            /\ place[t] = "dumping" /\ UNCHANGED <<up, cache, path, tmp, why, fd, child, latest,
                                                 alone, mixed>>
      BY <1>8, <2>1 DEF Registry!EndDump, Registry!files
    <3>2. RegTypes'
      BY <1>u, <3>1 DEF RegTypes, Registry!Saving, Registry!Registry
    <3>3. SavesAlone'
      <4>1. \A u \in Registry!AllThreads :
              /\ Saves(u)' <=> Saves(u)
              /\ u # t => place'[u] = place[u]
        BY <1>u, <3>1 DEF Saves, Registry!Saving, RegTypes
      <4>2. fd[t] = "none"
        BY <3>1 DEF FileIInv, SavesAlone
      <4>3. \A u \in Registry!AllThreads : fd'[u] # "none" => place'[u] = "opened"
        BY <3>1, <4>1, <4>2 DEF FileIInv, SavesAlone
      <4> QED
        BY <3>1, <4>1, <4>3, StaysAlone
    <3>4. t \in alone => snap'[t] = cache
      <4>1. cache \in Registry!Registry /\ snap[t] \in Registry!Registry
        BY <1>u DEF RegTypes
      <4>2. t \in alone => s = cache.session
        BY <3>1 DEF FileIInv, AloneIsExact
      <4>3. snap'[t] = [snap[t] EXCEPT !.session = s]
        BY <1>u, <3>1 DEF RegTypes
      <4>4. PICK q \in Registry!Registry : q = snap[t]
        BY <4>1
      <4>5. s = q.session => [q EXCEPT !.session = s] = q
        BY <4>4 DEF Registry!Registry
      <4> QED
        BY <3>1, <4>2, <4>3, <4>4, <4>5 DEF FileIInv, AloneIsExact
    <3>5. AloneIsExact'
      BY <1>u, <3>1, <3>4 DEF FileIInv, SavesAlone, AloneIsExact, Saves, RegTypes, Registry!Saving
    <3>6. Registry!FileFollowsCache'
      BY <1>u, <3>1 DEF FileIInv, Registry!FileFollowsCache, Registry!Savers, RegTypes,
                        Registry!Saving
    <3> QED
      BY <3>2, <3>3, <3>5, <3>6 DEF FileIInv
  <2>2. CASE ~same
    <3>1. /\ place' = Registry!Abandon(t) /\ snap' = [snap EXCEPT ![t] = Registry!Empty]
          /\ why' = [why EXCEPT ![t] = "none"] /\ alone' = alone \ {t}
          /\ child' = [c \in Spawners |-> IF c = t THEN Registry!NoChild ELSE child[c]]
          /\ place[t] = "dumping" /\ UNCHANGED <<up, cache, path, tmp, fd, latest, mixed>>
      BY <1>8, <2>2 DEF Registry!EndDump, Registry!files
    <3>2. t \notin alone /\ mixed
      <4>1. t \notin alone
        BY <2>2, <3>1 DEF FileIInv, AloneIsExact
      <4> QED
        BY <3>1, <4>1 DEF FileIInv, SavesAlone, Saves, Registry!Saving
    <3>3. \A u \in Registry!AllThreads :
            /\ u # t => place'[u] = place[u] /\ snap'[u] = snap[u]
            /\ place'[t] \in {"idle", "ended"}
      BY <1>u, <3>1 DEF Registry!Abandon, RegTypes
    <3>4. RegTypes'
      <4>1. Registry!Empty \in Registry!Registry
        BY DEF Registry!Empty, Registry!Registry, Registry!RegistryAssumption
      <4> QED
        BY <1>u, <3>1, <4>1 DEF RegTypes, Registry!Abandon
    <3>5. SavesAlone'
      <4>1. fd[t] = "none"
        BY <1>u, <3>1 DEF FileIInv, SavesAlone
      <4> QED
        BY <3>1, <3>2, <3>3, <4>1 DEF FileIInv, SavesAlone, Saves, Registry!Saving
    <3>6. AloneIsExact' /\ Registry!FileFollowsCache'
      BY <1>u, <3>1, <3>2, <3>3 DEF FileIInv, AloneIsExact, Registry!FileFollowsCache, RegTypes
    <3> QED
      BY <3>4, <3>5, <3>6 DEF FileIInv
  <2> QED
    BY <2>1, <2>2
<1>9. ASSUME NEW t \in Registry!AllThreads, Registry!OpenTmp(t) PROVE FileIInv'
  <2>1. /\ place[t] = "dumped" /\ tmp' = Torn
        /\ place' = [place EXCEPT ![t] = "opened"] /\ fd' = [fd EXCEPT ![t] = "tmp"]
        /\ UNCHANGED <<up, cache, path, why, snap, child, latest, alone, mixed>>
    BY <1>9 DEF Registry!OpenTmp, Registry!history
  <2>2. RegTypes'
    BY <1>u, <2>1 DEF RegTypes, Registry!Saving
  <2>3. \A u \in Registry!AllThreads :
          /\ Saves(u)' <=> Saves(u)
          /\ place'[u] = IF u = t THEN "opened" ELSE place[u]
          /\ fd'[u] = IF u = t THEN "tmp" ELSE fd[u]
    BY <1>u, <2>1 DEF Saves, Registry!Saving, RegTypes
  <2>4. SavesAlone'
    <3>1. \A u \in Registry!AllThreads : fd'[u] # "none" => place'[u] = "opened"
      BY <2>3 DEF FileIInv, SavesAlone
    <3> QED
      BY <2>1, <2>3, <3>1, StaysAlone
  <2>5. AloneIsExact'
    <3>1. Saves(t) /\ \A u \in alone : u = t
      BY <2>1 DEF FileIInv, SavesAlone, Saves, Registry!Saving
    <3> QED
      BY <2>1, <2>3, <3>1 DEF FileIInv, AloneIsExact
  <2>6. Registry!FileFollowsCache'
    BY <2>1, <2>3 DEF FileIInv, Registry!FileFollowsCache, Registry!Savers, Saves
  <2> QED
    BY <2>2, <2>4, <2>5, <2>6 DEF FileIInv
<1>10. ASSUME NEW t \in Registry!AllThreads, Registry!WriteTmp(t) PROVE FileIInv'
  <2>1. /\ place[t] = "opened" /\ place' = [place EXCEPT ![t] = "written"]
        /\ snap' = [snap EXCEPT ![t] = Registry!Empty] /\ fd' = [fd EXCEPT ![t] = "none"]
        /\ UNCHANGED <<up, cache, why, child, latest, alone, mixed>>
    BY <1>10 DEF Registry!WriteTmp, Registry!history
  <2>2. \/ fd[t] = "tmp" /\ tmp' \in Registry!Over(tmp, snap[t]) /\ path' = path
        \/ fd[t] = "path" /\ path' \in Registry!Over(path, snap[t]) /\ tmp' = tmp
        \/ fd[t] \notin {"tmp", "path"} /\ path' = path /\ tmp' = tmp
    BY <1>10, <1>u DEF Registry!WriteTmp, Registry!files, RegTypes
  <2>3. RegTypes'
    <3>1. Registry!Empty \in Registry!Registry /\ snap[t] \in Registry!Registry
      BY <1>u DEF Registry!Empty, Registry!Registry, Registry!RegistryAssumption, RegTypes
    <3>2. path' \in Registry!Registry \cup {Torn} /\ tmp' \in Registry!Registry \cup {NoFile, Torn}
      BY <1>u, <2>2, <3>1 DEF Registry!Over, RegTypes
    <3> QED
      BY <1>u, <2>1, <3>1, <3>2 DEF RegTypes, Registry!Saving
  <2>4. \A u \in Registry!AllThreads :
          /\ Saves(u)' <=> Saves(u)
          /\ place'[u] = IF u = t THEN "written" ELSE place[u]
          /\ fd'[u] = IF u = t THEN "none" ELSE fd[u]
    BY <1>u, <2>1 DEF Saves, Registry!Saving, RegTypes
  <2>5. SavesAlone'
    <3>1. \A u \in Registry!AllThreads : fd'[u] # "none" => place'[u] = "opened"
      BY <2>4 DEF FileIInv, SavesAlone
    <3> QED
      BY <2>1, <2>4, <3>1, StaysAlone
  <2>6. Saves(t) /\ \A u \in alone : u = t
    BY <2>1 DEF FileIInv, SavesAlone, Saves, Registry!Saving
  <2>7. t \in alone => tmp' = cache /\ path' = path
    BY <2>1, <2>2 DEF FileIInv, AloneIsExact, Registry!Over
  <2>8. AloneIsExact'
    BY <2>1, <2>4, <2>6, <2>7 DEF AloneIsExact
  <2>9. Registry!FileFollowsCache'
    <3>1. ~mixed => t \in alone
      BY <2>6 DEF FileIInv, SavesAlone
    <3>2. t \in Registry!Savers'
      BY <2>4, <2>6 DEF Registry!Savers, Saves
    <3> QED
      BY <2>1, <2>7, <3>1, <3>2 DEF FileIInv, Registry!FileFollowsCache
  <2> QED
    BY <2>3, <2>5, <2>8, <2>9 DEF FileIInv
<1>11. ASSUME NEW t \in Registry!AllThreads, Registry!Replace(t) PROVE FileIInv'
  <2>1. /\ place[t] = "written" /\ alone' = alone \ {t}
        /\ mixed' <=> (mixed /\ t \notin alone)
        /\ why' = [why EXCEPT ![t] = "none"]
        /\ UNCHANGED <<up, cache, snap, latest>>
    BY <1>11 DEF Registry!Replace
  <2>2. \A u \in alone : u = t
    BY <2>1 DEF FileIInv, SavesAlone, Saves, Registry!Saving
  <2>3. ~mixed => t \in alone
    BY <2>1 DEF FileIInv, SavesAlone, Saves, Registry!Saving
  <2>4. t \in alone => tmp = cache /\ \A u \in Registry!AllThreads : Saves(u) => u = t
    BY <2>1 DEF FileIInv, SavesAlone, AloneIsExact
  <2>5. \A u \in Registry!Started(t) : u \in Children /\ place[u] = "unborn"
    BY <1>u DEF Registry!Started, ChildInMaking, RegTypes, Registry!AllThreads
  <2>6. /\ place'[t] \in {"created", "joining", "idle", "ended"}
        /\ \A u \in Registry!AllThreads : u # t =>
             place'[u] = place[u] \/ (place[u] = "unborn" /\ place'[u] = "running")
        /\ place' \in [Registry!AllThreads -> Registry!Saving \cup
                  {"idle", "unborn", "admitted", "created", "joining", "running", "ended"}]
        /\ child' \in [Spawners -> Children \cup {Registry!NoChild}]
    <3>1. CASE tmp # NoFile
      <4>1. /\ place' = [u \in Registry!AllThreads |->
                           IF u = t THEN Registry!After(t)
                           ELSE IF u \in Registry!Started(t) THEN "running" ELSE place[u]]
            /\ child' = child
        BY <1>11, <3>1 DEF Registry!Replace
      <4>2. Registry!After(t) \in {"created", "joining", "idle", "ended"}
        BY DEF Registry!After
      <4> HIDE DEF Registry!Started, Registry!After
      <4> QED
        BY <1>u, <2>5, <4>1, <4>2 DEF RegTypes
    <3>2. CASE tmp = NoFile
      <4>1. /\ place' = Registry!Abandon(t)
            /\ child' = [c \in Spawners |-> IF c = t THEN Registry!NoChild ELSE child[c]]
        BY <1>11, <3>2 DEF Registry!Replace
      <4> QED
        BY <1>u, <4>1 DEF RegTypes, Registry!Abandon
    <3> QED
      BY <3>1, <3>2
  <2>7. \/ /\ tmp # NoFile /\ path' = tmp /\ tmp' = NoFile
           /\ fd' \in [Registry!AllThreads -> {"none", "tmp", "path", "gone"}]
           /\ \A u \in Registry!AllThreads : fd'[u] # "none" => fd[u] # "none"
        \/ tmp = NoFile /\ UNCHANGED <<path, tmp, fd>>
    <3>1. CASE tmp # NoFile
      <4>1. path' = tmp /\ tmp' = NoFile
        BY <1>11, <3>1 DEF Registry!Replace, Registry!Rename
      <4>2. fd' = [u \in Registry!AllThreads |-> CASE fd[u] = "tmp"  -> "path"
                                                   [] fd[u] = "path" -> "gone"
                                                   [] OTHER          -> fd[u]]
        BY <1>11, <3>1 DEF Registry!Replace, Registry!Rename
      <4>3. ASSUME NEW u \in Registry!AllThreads
            PROVE  fd'[u] \in {"none", "tmp", "path", "gone"} /\ (fd'[u] # "none" => fd[u] # "none")
        <5>1. CASE fd[u] = "tmp"
          BY <4>2, <5>1
        <5>2. CASE fd[u] = "path"
          BY <4>2, <5>2
        <5>3. CASE fd[u] \notin {"tmp", "path"}
          BY <1>u, <4>2, <5>3 DEF RegTypes
        <5> QED
          BY <5>1, <5>2, <5>3
      <4> QED
        BY <3>1, <4>1, <4>2, <4>3
    <3>2. CASE tmp = NoFile
      BY <1>11, <3>2 DEF Registry!Replace, Registry!files
    <3> QED
      BY <3>1, <3>2
  <2>8. RegTypes'
    BY <1>u, <2>1, <2>6, <2>7 DEF RegTypes
  <2>9. \A u \in Registry!AllThreads :
          /\ Saves(u)' <=> Saves(u) /\ u # t
          /\ place[u] = "opened" => place'[u] = "opened"
    BY <2>1, <2>6 DEF Saves, Registry!Saving
  <2>10. alone' = {} /\ (~mixed' => \A u \in Registry!AllThreads : ~Saves(u)')
    BY <2>1, <2>2, <2>3, <2>4, <2>9
  <2>11. SavesAlone' /\ AloneIsExact'
    <3>1. \A u \in Registry!AllThreads : fd'[u] # "none" => place'[u] = "opened"
      BY <2>7, <2>9 DEF FileIInv, SavesAlone
    <3>2. up' = up /\ \A u \in Registry!AllThreads : Saves(u)' => Saves(u)
      BY <2>1, <2>9
    <3> QED
      BY <2>10, <3>1, <3>2 DEF FileIInv, SavesAlone, AloneIsExact
  <2>12. Registry!FileFollowsCache'
    <3>1. CASE t \in alone
      <4>1. cache \in Registry!Registry /\ tmp = cache /\ tmp # NoFile /\ cache # Torn
        BY <1>u, <2>4, <3>1 DEF RegTypes, Registry!RegistryAssumption
      <4> QED
        BY <2>1, <2>7, <4>1 DEF Registry!FileFollowsCache
    <3>2. CASE t \notin alone
      BY <2>1, <2>3, <3>2 DEF Registry!FileFollowsCache
    <3> QED
      BY <3>1, <3>2
  <2> QED
    BY <2>8, <2>11, <2>12 DEF FileIInv
<1>12. CASE Registry!Stop
  <2>1. /\ ~up' /\ alone' = {} /\ \A u \in Registry!AllThreads : ~Saves(u)' /\ fd'[u] = "none"
        /\ UNCHANGED <<path, tmp, latest, mixed>>
    BY <1>12 DEF Registry!Stop, Saves, Registry!Saving, Registry!files
  <2>2. RegTypes'
    <3>1. Registry!Empty \in Registry!Registry
      BY DEF Registry!Empty, Registry!Registry, Registry!RegistryAssumption
    <3> QED
      BY <1>12, <1>u, <3>1 DEF Registry!Stop, RegTypes, Registry!files
  <2> QED
    BY <2>1, <2>2 DEF FileIInv, SavesAlone, AloneIsExact, Registry!FileFollowsCache
<1>13. CASE Registry!Start
  <2>1. /\ ~up /\ UNCHANGED <<place, why, snap, fd, child, alone>>
        /\ \/ Registry!Load.session # 0 /\ cache' = Registry!Load
              /\ UNCHANGED <<latest, tmp, path, mixed>>
           \/ \E s \in 0..MaxSessions : /\ cache' = [Registry!Load EXCEPT !.session = s]
                                       /\ path' = cache' /\ tmp' = NoFile /\ mixed' = FALSE
                                       /\ latest' \in 0..MaxSessions
    BY <1>13, <1>u DEF Registry!Start, RegTypes, Registry!RegistryAssumption
  <2>2. Registry!Load \in Registry!Registry /\ Registry!Empty.session = 0
    BY <1>u DEF Registry!Load, RegTypes, Registry!Empty, Registry!Registry,
       Registry!RegistryAssumption
  <2>3. RegTypes'
    <3>1. cache' \in Registry!Registry
      BY <2>1, <2>2 DEF Registry!Registry
    <3> QED
      BY <1>u, <2>1, <3>1 DEF RegTypes
  <2>4. alone = {} /\ \A u \in Registry!AllThreads : ~Saves(u)
    BY <1>u, <2>1 DEF FileIInv, SavesAlone, RegTypes
  <2>5. SavesAlone' /\ AloneIsExact'
    BY <2>1, <2>4 DEF FileIInv, SavesAlone, AloneIsExact, Saves
  <2>6. Registry!FileFollowsCache'
    <3>1. CASE path' = cache'
      BY <2>3, <3>1 DEF Registry!FileFollowsCache, RegTypes, Registry!RegistryAssumption
    <3>2. CASE /\ Registry!Load.session # 0 /\ cache' = Registry!Load
               /\ UNCHANGED <<path, mixed>>
      BY <2>2, <3>2 DEF FileIInv, Registry!FileFollowsCache, Registry!Load
    <3> QED
      BY <2>1, <3>1, <3>2
  <2> QED
    BY <2>3, <2>5, <2>6 DEF FileIInv
<1>14. CASE UNCHANGED Registry!vars
  BY <1>14, <1>u, OthersMove DEF Registry!vars, Registry!files, Registry!history, RegTypes
<1> QED
  BY <1>1, <1>2, <1>3, <1>4, <1>5, <1>6, <1>7, <1>8, <1>9, <1>10, <1>11, <1>12, <1>13, <1>14,
     <1>t
  DEF Registry!Next, Registry!CallerStep, Registry!Joined, Registry!JoinTimesOut, Registry!Save

\* Nothing is in the making.
LEMMA ChildInit == Registry!RegistryAssumption /\ Registry!Init => ChildInMaking
  BY DEF Registry!RegistryAssumption, Registry!Init, ChildInMaking, Registry!AllThreads

\* Every step keeps who is in the making.
LEMMA ChildNext ==
  ASSUME Registry!RegistryAssumption, RegTypes, ChildInMaking, [Registry!Next]_(Registry!vars)
  PROVE  ChildInMaking'
<1> USE DEF Saves, Registry!Saving
<1>t. /\ Spawners \subseteq Registry!AllThreads /\ Children \subseteq Registry!AllThreads
      /\ Spawners \cap Children = {} /\ Registry!NoChild \notin Children
      /\ \A t \in Registry!AllThreads : t \notin Spawners => t \in Children
  BY DEF Registry!AllThreads, Registry!RegistryAssumption
<1>1. ASSUME NEW t \in Registry!AllThreads, Registry!Touch(t) PROVE ChildInMaking'
  BY <1>1, <1>t DEF Registry!Touch, Registry!Change, RegTypes, ChildInMaking
<1>2. ASSUME NEW c \in Spawners, Registry!NewSession(c) PROVE ChildInMaking'
  BY <1>2, <1>t DEF Registry!NewSession, Registry!Change, RegTypes, ChildInMaking, Registry!Registry
<1>3. ASSUME NEW c \in Spawners, Registry!CreateChild(c) PROVE ChildInMaking'
  BY <1>3, <1>t
  DEF Registry!CreateChild, Registry!Change, RegTypes, ChildInMaking, Registry!Registry
<1>4. ASSUME NEW c \in Spawners, Registry!RenewChild(c) PROVE ChildInMaking'
  BY <1>4, <1>t DEF Registry!RenewChild, Registry!Change, RegTypes, ChildInMaking
<1>5. ASSUME NEW c \in Spawners, Registry!AdmitSpawn(c) PROVE ChildInMaking'
  BY <1>5, <1>t DEF Registry!AdmitSpawn, RegTypes, ChildInMaking
<1>6. ASSUME NEW k \in Children, Registry!ChildFails(k) PROVE ChildInMaking'
  BY <1>6, <1>t DEF Registry!ChildFails, RegTypes, ChildInMaking
<1>7. ASSUME NEW c \in Spawners, Registry!Return(c) PROVE ChildInMaking'
  BY <1>7, <1>t DEF Registry!Return, RegTypes, ChildInMaking
<1>8. ASSUME NEW t \in Registry!AllThreads, Registry!EndDump(t) PROVE ChildInMaking'
  BY <1>8, <1>t DEF Registry!EndDump, Registry!Abandon, RegTypes, ChildInMaking
<1>9. ASSUME NEW t \in Registry!AllThreads, Registry!OpenTmp(t) PROVE ChildInMaking'
  BY <1>9, <1>t DEF Registry!OpenTmp, RegTypes, ChildInMaking
<1>10. ASSUME NEW t \in Registry!AllThreads, Registry!WriteTmp(t) PROVE ChildInMaking'
  BY <1>10, <1>t DEF Registry!WriteTmp, RegTypes, ChildInMaking
<1>11. ASSUME NEW t \in Registry!AllThreads, Registry!Replace(t) PROVE ChildInMaking'
  <2>1. /\ place[t] = "written" /\ up /\ why' = [why EXCEPT ![t] = "none"]
        /\ UNCHANGED <<up, cache>>
    BY <1>11 DEF Registry!Replace
  <2>2. CASE tmp # NoFile
    <3>1. /\ place' = [u \in Registry!AllThreads |->
                         IF u = t THEN Registry!After(t)
                         ELSE IF u \in Registry!Started(t) THEN "running" ELSE place[u]]
          /\ child' = child
      BY <1>11, <2>2 DEF Registry!Replace
    <3>2. /\ \A u \in Registry!Started(t) : t \in Spawners /\ u = child[t] /\ place[u] = "unborn"
          /\ Registry!After(t) = "created" => t \in Spawners /\ why[t] = "create"
          /\ Registry!After(t) # "unborn"
          /\ why[t] = "create" => Registry!Started(t) = {}
      BY <1>t DEF Registry!Started, Registry!After, ChildInMaking, RegTypes
    <3>3. ASSUME NEW c \in Spawners, why'[c] \in {"create", "renew"} \/ place'[c] = "created"
          PROVE  child'[c] # Registry!NoChild /\ place'[child'[c]] = "unborn"
      <4>1. /\ child[c] # Registry!NoChild /\ place[child[c]] = "unborn"
            /\ child[c] \in Children /\ child[c] # t
            /\ c = t => why[t] = "create"
        <5>1. CASE c = t
          <6>1. place'[t] = Registry!After(t) /\ why'[t] = "none"
            BY <1>t, <2>1, <3>1, <5>1 DEF RegTypes
          <6> QED
            BY <1>t, <2>1, <3>2, <3>3, <5>1, <6>1 DEF ChildInMaking, RegTypes
        <5>2. CASE c # t
          <6>1. why'[c] = why[c] /\ (place'[c] = "created" => place[c] = "created")
            BY <1>t, <2>1, <3>1, <5>2 DEF RegTypes
          <6> QED
            BY <1>t, <2>1, <3>3, <5>2, <6>1 DEF ChildInMaking, RegTypes
        <5> QED
          BY <5>1, <5>2
      <4>2. child[c] \notin Registry!Started(t)
        BY <3>2, <4>1 DEF ChildInMaking
      <4> QED
        BY <1>t, <3>1, <4>1, <4>2
    <3>4. ASSUME NEW u \in Registry!AllThreads, why'[u] # "none" PROVE Saves(u)'
      <4>1. u # t /\ why[u] # "none"
        BY <2>1, <3>4 DEF RegTypes
      <4>2. Saves(u) /\ u \notin Registry!Started(t)
        BY <3>2, <4>1 DEF ChildInMaking
      <4> QED
        BY <3>1, <4>1, <4>2
    <3> HIDE DEF Saves
    <3> QED
      BY <1>t, <2>1, <3>1, <3>3, <3>4 DEF ChildInMaking, RegTypes
  <2>3. CASE tmp = NoFile
    <3>1. /\ place' = Registry!Abandon(t)
          /\ child' = [c \in Spawners |-> IF c = t THEN Registry!NoChild ELSE child[c]]
      BY <1>11, <2>3 DEF Registry!Replace
    <3> QED
      BY <1>t, <2>1, <3>1 DEF Registry!Abandon, RegTypes, ChildInMaking
  <2> QED
    BY <2>2, <2>3
<1>12. CASE Registry!Stop
  BY <1>12, <1>t DEF Registry!Stop, RegTypes, ChildInMaking
<1>13. CASE Registry!Start
  BY <1>13, <1>t DEF Registry!Start, RegTypes, ChildInMaking
<1>14. CASE UNCHANGED Registry!vars
  BY <1>14 DEF Registry!vars, Registry!files, Registry!history, ChildInMaking
<1> QED
  BY <1>1, <1>2, <1>3, <1>4, <1>5, <1>6, <1>7, <1>8, <1>9, <1>10, <1>11, <1>12, <1>13, <1>14,
     <1>t
  DEF Registry!Next, Registry!CallerStep, Registry!Joined, Registry!JoinTimesOut, Registry!Save

\* The registry's Cardinality is the library's.
LEMMA RegistryCardinality == \A S : Registry!Cardinality(S) = Cardinality(S)
  BY DEF Registry!Cardinality, Cardinality, Registry!IsFiniteSet, IsFiniteSet

Small(S) == IsFiniteSet(S) /\ Cardinality(S) <= MaxChildren

\* Unless two spawns raced, no registry anywhere has more sub-agents than the
\* limit, and who was admitted is admitted alone, below it.
NoneTooMany ==
  ~raced =>
    /\ Small(cache.kids) /\ \A t \in Registry!AllThreads : Small(snap[t].kids)
    /\ \A r \in Registry!Registry : r \in {path, tmp} => Small(r.kids)
    /\ \A c \in Spawners : place[c] = "admitted" =>
         /\ Cardinality(cache.kids) < MaxChildren
         /\ \A d \in Spawners : place[d] = "admitted" => d = c
    /\ lapsed = "never" => Small(spawned)
    /\ ~up => \A c \in Spawners : place[c] # "admitted"

\* Unless a start lost one, who ran is on record, and on file.
WhoRanIsKnown ==
  lapsed = "never" =>
    /\ up => spawned \subseteq cache.kids
    /\ ~mixed => spawned \subseteq path.kids

LimitIInv == NoneTooMany /\ WhoRanIsKnown

\* No sub-agents to begin with.
LEMMA LimitInit == Registry!RegistryAssumption /\ Registry!Init => LimitIInv
<1> SUFFICES ASSUME Registry!RegistryAssumption, Registry!Init PROVE LimitIInv
  OBVIOUS
<1>1. Small({})
  BY FS_EmptySet DEF Small, Registry!RegistryAssumption
<1>2. NoneTooMany
  <2>1. /\ Registry!Begun.kids = {} /\ Registry!Empty.kids = {} /\ NoFile \notin Registry!Registry
        /\ Cardinality({}) = 0
    BY FS_EmptySet DEF Registry!Begun, Registry!Empty, Registry!RegistryAssumption
  <2>2. \A c \in Spawners : place[c] = "idle"
    BY DEF Registry!Init, Registry!AllThreads
  <2> QED
    BY <1>1, <2>1, <2>2 DEF Registry!Init, NoneTooMany
<1>3. WhoRanIsKnown
  BY DEF Registry!Init, WhoRanIsKnown
<1> QED
  BY <1>2, <1>3 DEF LimitIInv

\* A part of what is small enough is small enough.
LEMMA SmallPart ==
  ASSUME Registry!RegistryAssumption, NEW S, Small(S), NEW T \in SUBSET S
  PROVE  Small(T)
<1>1. IsFiniteSet(T) /\ Cardinality(T) <= Cardinality(S)
  BY FS_Subset DEF Small
<1>2. Cardinality(T) \in Nat /\ Cardinality(S) \in Nat /\ MaxChildren \in Nat
  BY <1>1, FS_CardinalityType DEF Small, Registry!RegistryAssumption
<1> QED
  BY <1>1, <1>2 DEF Small

\* A step that leaves the registries, the admissions and who ran alone.
LEMMA LimitKept ==
  ASSUME LimitIInv, UNCHANGED <<cache, path, tmp, up, raced, lapsed, spawned>>,
         mixed => mixed',
         \A t \in Registry!AllThreads : snap'[t].kids \in {snap[t].kids, cache.kids, {}},
         \A c \in Spawners : place'[c] = "admitted" => place[c] = "admitted",
         Small({})
  PROVE  LimitIInv'
  BY DEF LimitIInv, NoneTooMany, WhoRanIsKnown

\* Every step keeps the limit, unless it is said that it did not.
LEMMA LimitNext ==
  ASSUME Registry!RegistryAssumption, FileIInv, FileIInv', ChildInMaking, LimitIInv,
         [Registry!Next]_(Registry!vars)
  PROVE  LimitIInv'
<1>t. Spawners \subseteq Registry!AllThreads /\ Children \subseteq Registry!AllThreads
  BY DEF Registry!AllThreads
<1>u. RegTypes /\ RegTypes' /\ Small({}) /\ Registry!Empty.kids = {}
  BY FS_EmptySet DEF FileIInv, Small, Registry!RegistryAssumption, Registry!Empty
<1>1. ASSUME NEW t \in Registry!AllThreads, Registry!Touch(t) PROVE LimitIInv'
  <2>1. /\ UNCHANGED <<cache, path, tmp, up, raced, lapsed, spawned>>
        /\ snap' = [snap EXCEPT ![t] = cache] /\ place' = [place EXCEPT ![t] = "dumping"]
        /\ mixed => mixed'
    BY <1>1 DEF Registry!Touch, Registry!Change, Registry!files
  <2> QED
    BY <1>t, <1>u, <2>1, LimitKept DEF RegTypes
<1>2. ASSUME NEW c \in Spawners, Registry!NewSession(c) PROVE LimitIInv'
  <2>1. /\ UNCHANGED <<path, tmp, up, raced, lapsed, spawned>>
        /\ cache' = [cache EXCEPT !.session = latest + 1]
        /\ snap' = [snap EXCEPT ![c] = cache'] /\ place' = [place EXCEPT ![c] = "dumping"]
        /\ mixed => mixed'
    BY <1>2 DEF Registry!NewSession, Registry!Change, Registry!files
  <2>2. cache'.kids = cache.kids
    BY <1>u, <2>1 DEF RegTypes, Registry!Registry
  <2>3. /\ \A u \in Registry!AllThreads : snap'[u].kids \in {snap[u].kids, cache.kids}
        /\ \A d \in Spawners : place'[d] = "admitted" => place[d] = "admitted"
    BY <1>t, <1>u, <2>1, <2>2 DEF RegTypes
  <2> QED
    BY <2>1, <2>2, <2>3 DEF LimitIInv, NoneTooMany, WhoRanIsKnown
<1>3. ASSUME NEW c \in Spawners, Registry!CreateChild(c) PROVE LimitIInv'
  <2>1. PICK k \in Children :
          /\ k \notin cache.kids /\ cache' = [cache EXCEPT !.kids = @ \cup {k}]
          /\ snap' = [snap EXCEPT ![c] = cache'] /\ place' = [place EXCEPT ![c] = "dumping"]
          /\ mixed => mixed'
    BY <1>3 DEF Registry!CreateChild, Registry!Change
  <2>2. place[c] = "admitted" /\ UNCHANGED <<path, tmp, up, raced, lapsed, spawned>>
    BY <1>3 DEF Registry!CreateChild, Registry!files
  <2>3. cache'.kids = cache.kids \cup {k}
    BY <1>u, <2>1 DEF RegTypes, Registry!Registry
  <2>4. /\ \A u \in Registry!AllThreads : snap'[u].kids \in {snap[u].kids, cache'.kids}
        /\ \A d \in Spawners : place'[d] = "admitted" => place[d] = "admitted" /\ d # c
    BY <1>t, <1>u, <2>1 DEF RegTypes
  <2>5. ~raced => Small(cache'.kids)
    <3> SUFFICES ASSUME ~raced PROVE Small(cache'.kids)
      OBVIOUS
    <3>1. /\ IsFiniteSet(cache.kids) /\ Cardinality(cache.kids) < MaxChildren
          /\ Cardinality(cache.kids) \in Nat /\ MaxChildren \in Nat
      BY <2>2, FS_CardinalityType
      DEF LimitIInv, NoneTooMany, Small, Registry!RegistryAssumption
    <3>2. /\ IsFiniteSet(cache.kids \cup {k})
          /\ Cardinality(cache.kids \cup {k}) = Cardinality(cache.kids) + 1
      BY <2>1, <3>1, FS_AddElement
    <3> QED
      BY <2>3, <3>1, <3>2 DEF Small
  <2>6. ~raced => \A d \in Spawners : place'[d] # "admitted"
    BY <2>2, <2>4 DEF LimitIInv, NoneTooMany
  <2>7. NoneTooMany'
    BY <2>2, <2>4, <2>5, <2>6 DEF LimitIInv, NoneTooMany
  <2>8. WhoRanIsKnown'
    BY <2>1, <2>2, <2>3 DEF LimitIInv, WhoRanIsKnown
  <2> QED
    BY <2>7, <2>8 DEF LimitIInv
<1>4. ASSUME NEW c \in Spawners, Registry!RenewChild(c) PROVE LimitIInv'
  <2>1. /\ UNCHANGED <<cache, path, tmp, up, raced, lapsed, spawned>>
        /\ snap' = [snap EXCEPT ![c] = cache] /\ place' = [place EXCEPT ![c] = "dumping"]
        /\ mixed => mixed'
    BY <1>4 DEF Registry!RenewChild, Registry!Change, Registry!files
  <2> QED
    BY <1>t, <1>u, <2>1, LimitKept DEF RegTypes
<1>5. ASSUME NEW c \in Spawners, Registry!AdmitSpawn(c) PROVE LimitIInv'
  <2>1. /\ Cardinality(cache.kids) < MaxChildren /\ place' = [place EXCEPT ![c] = "admitted"]
        /\ raced' = (raced \/ \E d \in Spawners \ {c} : place[d] = "admitted") /\ up
        /\ UNCHANGED <<up, cache, path, tmp, snap, mixed, lapsed, spawned>>
    BY <1>5, RegistryCardinality
    DEF Registry!AdmitSpawn, Registry!CountChildren, Registry!files, Registry!history
  <2>2. ~raced' => ~raced /\ \A d \in Spawners : place'[d] = "admitted" => d = c
    BY <1>t, <1>u, <2>1 DEF RegTypes
  <2> QED
    BY <2>1, <2>2 DEF LimitIInv, NoneTooMany, WhoRanIsKnown
<1>6. ASSUME NEW k \in Children, Registry!ChildFails(k) PROVE LimitIInv'
  BY <1>6, <1>u, LimitKept DEF Registry!ChildFails, Registry!files, Registry!history, RegTypes
<1>7. ASSUME NEW c \in Spawners, Registry!Return(c) PROVE LimitIInv'
  BY <1>7, <1>u, LimitKept DEF Registry!Return, Registry!files, Registry!history, RegTypes
<1>8. ASSUME NEW t \in Registry!AllThreads, Registry!EndDump(t) PROVE LimitIInv'
  <2>1. /\ UNCHANGED <<cache, path, tmp, up, raced, lapsed, spawned, mixed>>
    BY <1>8 DEF Registry!EndDump, Registry!files
  <2>2. \A u \in Registry!AllThreads : snap'[u].kids \in {snap[u].kids, {}}
    <3>1. CASE \E s \in {snap[t].session, cache.session} : snap' = [snap EXCEPT ![t].session = s]
      BY <1>u, <3>1 DEF RegTypes, Registry!Registry
    <3>2. CASE snap' = [snap EXCEPT ![t] = Registry!Empty]
      BY <1>u, <3>2 DEF RegTypes
    <3> QED
      BY <1>8, <3>1, <3>2 DEF Registry!EndDump
  <2>3. \A c \in Spawners : place'[c] = "admitted" => place[c] = "admitted"
    BY <1>8, <1>t, <1>u DEF Registry!EndDump, Registry!Abandon, RegTypes
  <2> QED
    BY <1>u, <2>1, <2>2, <2>3, LimitKept
<1>9. ASSUME NEW t \in Registry!AllThreads, Registry!OpenTmp(t) PROVE LimitIInv'
  <2>1. /\ UNCHANGED <<cache, path, snap, up, raced, lapsed, spawned, mixed>> /\ tmp' = Torn
        /\ place' = [place EXCEPT ![t] = "opened"]
    BY <1>9 DEF Registry!OpenTmp, Registry!history
  <2>2. \A c \in Spawners : place'[c] = "admitted" => place[c] = "admitted"
    BY <1>t, <1>u, <2>1 DEF RegTypes
  <2>3. Torn \notin Registry!Registry
    BY DEF Registry!RegistryAssumption
  <2> QED
    BY <2>1, <2>2, <2>3 DEF LimitIInv, NoneTooMany, WhoRanIsKnown
<1>10. ASSUME NEW t \in Registry!AllThreads, Registry!WriteTmp(t) PROVE LimitIInv'
  <2>1. /\ place[t] = "opened" /\ place' = [place EXCEPT ![t] = "written"]
        /\ snap' = [snap EXCEPT ![t] = Registry!Empty]
        /\ UNCHANGED <<cache, up, raced, lapsed, spawned, mixed>>
    BY <1>10 DEF Registry!WriteTmp, Registry!history
  <2>2. \/ fd[t] = "tmp" /\ tmp' \in {snap[t], Torn} /\ path' = path
        \/ fd[t] = "path" /\ path' \in {snap[t], Torn} /\ tmp' = tmp
        \/ path' = path /\ tmp' = tmp
    BY <1>10, <1>u DEF Registry!WriteTmp, Registry!files, Registry!Over, RegTypes
  <2>3. ~mixed => path' = path
    <3>1. ~mixed => t \in alone
      BY <2>1 DEF FileIInv, SavesAlone, Saves, Registry!Saving
    <3>2. t \in alone => fd[t] = "tmp"
      BY <2>1 DEF FileIInv, AloneIsExact
    <3> QED
      BY <2>2, <3>1, <3>2
  <2>4. /\ \A c \in Spawners : place'[c] = "admitted" => place[c] = "admitted"
        /\ \A u \in Registry!AllThreads : snap'[u].kids \in {snap[u].kids, {}}
    BY <1>t, <1>u, <2>1 DEF RegTypes
  <2>5. Torn \notin Registry!Registry
    BY DEF Registry!RegistryAssumption
  <2>6. NoneTooMany'
    BY <1>u, <2>1, <2>2, <2>4, <2>5 DEF LimitIInv, NoneTooMany
  <2>7. WhoRanIsKnown'
    BY <2>1, <2>3 DEF LimitIInv, WhoRanIsKnown
  <2> QED
    BY <2>6, <2>7 DEF LimitIInv
<1>11. ASSUME NEW t \in Registry!AllThreads, Registry!Replace(t) PROVE LimitIInv'
  <2>1. /\ place[t] = "written" /\ mixed' = (mixed /\ t \notin alone) /\ up
        /\ UNCHANGED <<up, cache, snap, raced, lapsed>>
    BY <1>11 DEF Registry!Replace
  <2>a. ~mixed => t \in alone
    BY <2>1 DEF FileIInv, SavesAlone, Saves, Registry!Saving
  <2>b. t \in alone => tmp = cache
    BY <2>1 DEF FileIInv, AloneIsExact
  <2>2. ~mixed' => tmp = cache
    BY <2>1, <2>a, <2>b
  <2>3. \A c \in Spawners : place'[c] = "admitted" => place[c] = "admitted"
    <3>1. Registry!After(t) # "admitted"
      BY DEF Registry!After
    <3> QED
      BY <1>11, <1>t, <1>u, <3>1 DEF Registry!Replace, Registry!Abandon, RegTypes
  <2>4. NoFile \notin Registry!Registry
    BY DEF Registry!RegistryAssumption
  <2>5. CASE tmp # NoFile
    <3>1. path' = tmp /\ tmp' = NoFile /\ spawned' = spawned \cup Registry!Started(t)
      BY <1>11, <2>5 DEF Registry!Replace, Registry!Rename
    <3>2. Registry!Started(t) \subseteq cache.kids
      BY <1>u DEF Registry!Started, ChildInMaking, RegTypes, Registry!AllThreads
    <3>a. lapsed = "never" => spawned \subseteq cache.kids
      BY <2>1 DEF LimitIInv, WhoRanIsKnown
    <3>3. lapsed = "never" => spawned' \subseteq cache.kids
      BY <3>1, <3>2, <3>a
    <3>4. ~raced /\ lapsed = "never" => Small(spawned')
      BY <3>3, SmallPart DEF LimitIInv, NoneTooMany
    <3>5. NoneTooMany'
      BY <2>1, <2>3, <2>4, <3>1, <3>4 DEF LimitIInv, NoneTooMany
    <3>b. ~mixed' => path' = cache
      BY <2>2, <3>1
    <3>6. WhoRanIsKnown'
      BY <2>1, <3>3, <3>b DEF WhoRanIsKnown
    <3> QED
      BY <3>5, <3>6 DEF LimitIInv
  <2>6. CASE tmp = NoFile
    <3>1. UNCHANGED <<path, tmp, spawned>>
      BY <1>11, <2>6 DEF Registry!Replace, Registry!files
    <3>2. mixed' /\ mixed
      <4>1. cache # NoFile
        BY <1>u, <2>4 DEF RegTypes
      <4> QED
        BY <2>1, <2>2, <2>6, <4>1
    <3> QED
      BY <2>1, <2>3, <3>1, <3>2 DEF LimitIInv, NoneTooMany, WhoRanIsKnown
  <2> QED
    BY <2>5, <2>6
<1>12. CASE Registry!Stop
  <2>1. /\ ~up' /\ cache' = Registry!Empty /\ UNCHANGED <<path, tmp, spawned, mixed, lapsed, raced>>
        /\ \A t \in Registry!AllThreads : snap'[t] = Registry!Empty
        /\ \A c \in Spawners : place'[c] # "admitted"
    BY <1>12, <1>t DEF Registry!Stop, Registry!files
  <2> QED
    BY <1>u, <2>1 DEF LimitIInv, NoneTooMany, WhoRanIsKnown
<1>13. CASE Registry!Start
  <2> DEFINE loaded == Registry!Load
  <2>1. /\ ~up /\ UNCHANGED <<place, snap, spawned, raced>>
        /\ lapsed' = IF mixed /\ ~(spawned \subseteq loaded.kids)
                     THEN IF path = Torn THEN "torn" ELSE "stale"
                     ELSE lapsed
    BY <1>13 DEF Registry!Start
  <2>2. \/ cache' = loaded /\ loaded.session # 0 /\ UNCHANGED <<tmp, path, mixed>>
        \/ \E s \in Nat : /\ cache' = [loaded EXCEPT !.session = s]
                         /\ path' = cache' /\ tmp' = NoFile
    BY <1>13, <1>u DEF Registry!Start, RegTypes, Registry!RegistryAssumption
  <2>3. /\ loaded \in Registry!Registry /\ Registry!Empty.session = 0
        /\ path \in Registry!Registry => loaded = path
        /\ path \notin Registry!Registry =>
             loaded.kids = {} /\ loaded.session = 0 /\ path = Torn
    BY <1>u
    DEF Registry!Load, RegTypes, Registry!Empty, Registry!Registry, Registry!RegistryAssumption
  <2>4. cache'.kids = loaded.kids
    BY <2>2, <2>3 DEF Registry!Registry
  <2>5. \A c \in Spawners : place[c] # "admitted" \/ raced
    BY <2>1 DEF LimitIInv, NoneTooMany
  <2>6. ~raced => Small(loaded.kids)
    BY <1>u, <2>3 DEF LimitIInv, NoneTooMany
  <2>7. lapsed' = "never" => lapsed = "never" /\ spawned \subseteq loaded.kids
    <3>1. path = Torn => mixed
      BY DEF FileIInv, Registry!FileFollowsCache
    <3> QED
      BY <2>1, <2>3, <3>1 DEF LimitIInv, WhoRanIsKnown
  <2>8. WhoRanIsKnown'
    <3>1. path' = cache' \/ (path' = path /\ path \in Registry!Registry)
      BY <2>2, <2>3
    <3> QED
      BY <2>1, <2>3, <2>4, <2>7, <3>1 DEF WhoRanIsKnown
  <2>9. NoneTooMany'
    <3>1. NoFile \notin Registry!Registry
      BY DEF Registry!RegistryAssumption
    <3>2. ~raced => \A r \in Registry!Registry : r \in {path', tmp'} => Small(r.kids)
      BY <2>2, <2>4, <2>6, <3>1 DEF LimitIInv, NoneTooMany
    <3> QED
      BY <2>1, <2>4, <2>5, <2>6, <2>7, <3>2 DEF LimitIInv, NoneTooMany
  <2> QED
    BY <2>8, <2>9 DEF LimitIInv
<1>14. CASE UNCHANGED Registry!vars
  BY <1>14, <1>u, LimitKept DEF Registry!vars, Registry!files, Registry!history, RegTypes
<1> QED
  BY <1>1, <1>2, <1>3, <1>4, <1>5, <1>6, <1>7, <1>8, <1>9, <1>10, <1>11, <1>12, <1>13, <1>14,
     <1>t
  DEF Registry!Next, Registry!CallerStep, Registry!Joined, Registry!JoinTimesOut, Registry!Save

\* A step of the run is one of the registry, or leaves it alone.
LEMMA RegStep == [MCNext]_mcVars => [Registry!Next]_(Registry!vars)
  BY
  DEF MCNext, mcVars, registryVars, Registry!vars, Registry!files, Registry!history

(* For any threads, sub-agents, sessions, stops and limit: while no save is  *)
(* under way the file is what the process knows, and it can be read, unless  *)
(* saves overlapped; and an agent has no more sub-agents than the limit,     *)
(* over restarts too, unless two spawns raced or a start lost one.           *)
THEOREM RegistryKept == MCSpec => [](Registry!FileFollowsCache /\ Registry!ChildLimitHolds)
<1> DEFINE I == FileIInv /\ ChildInMaking /\ LimitIInv
<1>1. MCInit => I
  BY FileInit, ChildInit, LimitInit, Assumptions DEF MCInit
<1>2. I /\ [MCNext]_mcVars => I'
  BY RegStep, FileNext, ChildNext, LimitNext, Assumptions DEF FileIInv
<1>3. I => Registry!FileFollowsCache /\ Registry!ChildLimitHolds
  <2> SUFFICES ASSUME I PROVE Registry!FileFollowsCache /\ Registry!ChildLimitHolds
    OBVIOUS
  <2>1. ~raced /\ lapsed = "never" => Cardinality(spawned) \in Nat /\ MaxChildren \in Nat
                                      /\ Cardinality(spawned) <= MaxChildren
    BY FS_CardinalityType, RegistryCardinality, Assumptions
    DEF LimitIInv, NoneTooMany, Small, Registry!RegistryAssumption
  <2>2. Registry!Cardinality(spawned) > MaxChildren => raced \/ lapsed # "never"
    BY <2>1, RegistryCardinality
  <2> QED
    BY <2>2 DEF FileIInv, Registry!ChildLimitHolds
<1> QED
  BY <1>1, <1>2, <1>3, PTL DEF MCSpec
=============================================================================
