--------------------------- MODULE Memory_proofs ---------------------------
(***************************************************************************)
(* Theorems about what makes a memory complete: coverage is never recorded *)
(* for a job that was not enqueued, the windows computed from it are       *)
(* exactly what it leaves, and no producer covers a message twice, for any *)
(* history of a session, any scan limit and any number of faults; and the  *)
(* index of the files vouches only for what it holds, for any threads of   *)
(* work on it, errors and crashes.                                         *)
(***************************************************************************)
EXTENDS MCMemory, FiniteSetTheorems, WellFoundedInduction, TLAPS

(* Capture coverage. *)

\* Between the two statements of enqueue_capture_job the job is there, whichever
\* producer runs them.
LiveJobIsThere      == turn = "cover" => LiveKey \in jobs
ReconcileJobIsThere == rec = "cover" => ReconcileKey \in jobs
BackfillJobIsThere  == fill = "cover" => BackfillKey \in jobs

IInv == /\ CoverageIsBackedByJobs
        /\ LiveJobIsThere /\ ReconcileJobIsThere /\ BackfillJobIsThere

\* INSERT ... ON CONFLICT DO NOTHING forgets no job, and leaves the new one where
\* no other has its idempotency key.
LEMMA Inserted ==
  ASSUME NEW key, InsertJob(key)
  PROVE  jobs \subseteq jobs' /\ (~Taken(key) => key \in jobs')
BY DEF InsertJob

\* What each producer carries from the first statement to the second stays, as
\* long as it is not the one that moves.
LEMMA OthersWait ==
  ASSUME IInv, jobs \subseteq jobs', coverage' = coverage
  PROVE  /\ CoverageIsBackedByJobs'
         /\ UNCHANGED <<turn, exchange>> => LiveJobIsThere'
         /\ UNCHANGED recVars => ReconcileJobIsThere'
         /\ UNCHANGED <<fill, batch>> => BackfillJobIsThere'
<1>1. CoverageIsBackedByJobs'
  BY DEF IInv, CoverageIsBackedByJobs
<1>2. UNCHANGED <<turn, exchange>> => LiveJobIsThere'
  BY DEF IInv, LiveJobIsThere, LiveKey, LastExchange
<1>3. UNCHANGED recVars => ReconcileJobIsThere'
  BY DEF IInv, ReconcileJobIsThere, ReconcileKey, recVars
<1>4. UNCHANGED <<fill, batch>> => BackfillJobIsThere'
  BY DEF IInv, BackfillJobIsThere, BackfillKey
<1> QED
  BY <1>1, <1>2, <1>3, <1>4

\* Nothing is covered to begin with.
LEMMA StartsBacked == Init => IInv
BY DEF Init, IInv, CoverageIsBackedByJobs, LiveJobIsThere, ReconcileJobIsThere,
       BackfillJobIsThere

\* The steps of a turn,
LEMMA TurnStaysBacked == IInv /\ (UserMessage \/ Turn) => IInv'
<1> SUFFICES ASSUME IInv, UserMessage \/ Turn
             PROVE  IInv'
  OBVIOUS
<1> USE DEF turnVars, fillVars
<1>1. CASE LiveInsertJob
  <2>1. jobs \subseteq jobs' /\ (~Taken(LiveKey) => LiveKey \in jobs')
    BY <1>1, Inserted DEF LiveInsertJob
  <2>2. LiveJobIsThere'
    <3>1. CASE Taken(LiveKey)
      BY <1>1, <3>1 DEF LiveInsertJob, LiveJobIsThere
    <3>2. CASE ~Taken(LiveKey)
      <4>1. exchange' = exchange
        BY <1>1, <3>2 DEF LiveInsertJob
      <4> QED
        BY <2>1, <3>2, <4>1 DEF LiveJobIsThere, LiveKey, LastExchange
    <3> QED
      BY <3>1, <3>2
  <2> QED
    BY <1>1, <2>1, <2>2, OthersWait DEF LiveInsertJob, IInv
<1>2. CASE LiveInsertCoverage
  <2>1. CoverageIsBackedByJobs'
    BY <1>2 DEF LiveInsertCoverage, IInv, CoverageIsBackedByJobs, LiveJobIsThere
  <2>2. LiveJobIsThere'
    BY <1>2 DEF LiveInsertCoverage, LiveJobIsThere
  <2>3. ReconcileJobIsThere' /\ BackfillJobIsThere'
    BY <1>2 DEF LiveInsertCoverage, IInv, ReconcileJobIsThere, BackfillJobIsThere,
                ReconcileKey, BackfillKey, recVars
  <2> QED
    BY <2>1, <2>2, <2>3 DEF IInv
<1>3. ASSUME /\ UNCHANGED <<jobs, coverage, recVars, fillVars>>
             /\ turn' # "cover"
      PROVE  IInv'
  BY <1>3, OthersWait DEF IInv, LiveJobIsThere
<1>4. CASE UserMessage
  BY <1>3, <1>4 DEF UserMessage
<1>5. CASE TurnFails
  BY <1>3, <1>5 DEF TurnFails
<1>6. CASE MirrorNext
  BY <1>3, <1>6 DEF MirrorNext
<1>7. CASE UpdateSession
  BY <1>3, <1>7 DEF UpdateSession
<1>8. CASE LiveEnqueueSkipped
  BY <1>3, <1>8 DEF LiveEnqueueSkipped
<1>9. CASE \E shape \in TurnShapes : TurnAnswers(shape)
  BY <1>3, <1>9 DEF TurnAnswers
<1> QED
  BY <1>1, <1>2, <1>4, <1>5, <1>6, <1>7, <1>8, <1>9 DEF Turn

\* of the reconciler,
LEMMA ReconcilerStaysBacked == IInv /\ Reconciler => IInv'
<1> SUFFICES ASSUME IInv, Reconciler
             PROVE  IInv'
  OBVIOUS
<1> USE DEF turnVars, fillVars, recVars
<1>1. CASE ReconcileInsertJob
  <2>1. jobs \subseteq jobs' /\ (~Taken(ReconcileKey) => ReconcileKey \in jobs')
    BY <1>1, Inserted DEF ReconcileInsertJob
  <2>2. ReconcileJobIsThere'
    <3>1. CASE Taken(ReconcileKey)
      BY <1>1, <3>1 DEF ReconcileInsertJob, Proceed, ReconcileJobIsThere
    <3>2. CASE ~Taken(ReconcileKey)
      <4>1. gaps' = gaps
        BY <1>1, <3>2 DEF ReconcileInsertJob
      <4> QED
        BY <2>1, <3>2, <4>1 DEF ReconcileJobIsThere, ReconcileKey
    <3> QED
      BY <3>1, <3>2
  <2> QED
    BY <1>1, <2>1, <2>2, OthersWait DEF ReconcileInsertJob, IInv
<1>2. CASE ReconcileInsertCoverage
  <2>1. CoverageIsBackedByJobs'
    BY <1>2 DEF ReconcileInsertCoverage, IInv, CoverageIsBackedByJobs, ReconcileJobIsThere
  <2>2. ReconcileJobIsThere'
    BY <1>2 DEF ReconcileInsertCoverage, Proceed, ReconcileJobIsThere
  <2>3. LiveJobIsThere' /\ BackfillJobIsThere'
    BY <1>2 DEF ReconcileInsertCoverage, IInv, LiveJobIsThere, BackfillJobIsThere,
                LiveKey, LastExchange, BackfillKey
  <2> QED
    BY <2>1, <2>2, <2>3 DEF IInv
<1>3. ASSUME /\ UNCHANGED <<jobs, coverage, turnVars, fillVars>>
             /\ rec' # "cover" \/ UNCHANGED recVars
      PROVE  IInv'
  BY <1>3, OthersWait DEF IInv, ReconcileJobIsThere
<1>4. CASE ReconcileMirror
  BY <1>3, <1>4 DEF ReconcileMirror
<1>5. CASE CheckQuiet
  BY <1>3, <1>5 DEF CheckQuiet
<1>6. CASE FindUncoveredRanges
  BY <1>3, <1>6 DEF FindUncoveredRanges
<1> QED
  BY <1>1, <1>2, <1>4, <1>5, <1>6 DEF Reconciler

\* of the backfill command,
LEMMA BackfillStaysBacked == IInv /\ Backfill => IInv'
<1> SUFFICES ASSUME IInv, Backfill
             PROVE  IInv'
  OBVIOUS
<1> USE DEF turnVars, recVars
<1>1. CASE BackfillInsertJob
  <2>1. jobs \subseteq jobs' /\ (~Taken(BackfillKey) => BackfillKey \in jobs')
    BY <1>1, Inserted DEF BackfillInsertJob
  <2>2. BackfillJobIsThere'
    <3>1. CASE Taken(BackfillKey)
      BY <1>1, <3>1 DEF BackfillInsertJob, NextOfBatch, BackfillJobIsThere
    <3>2. CASE ~Taken(BackfillKey)
      <4>1. batch' = batch
        BY <1>1, <3>2 DEF BackfillInsertJob
      <4> QED
        BY <2>1, <3>2, <4>1 DEF BackfillJobIsThere, BackfillKey
    <3> QED
      BY <3>1, <3>2
  <2> QED
    BY <1>1, <2>1, <2>2, OthersWait DEF BackfillInsertJob, IInv
<1>2. CASE BackfillInsertCoverage
  <2>1. CoverageIsBackedByJobs'
    BY <1>2 DEF BackfillInsertCoverage, IInv, CoverageIsBackedByJobs, BackfillJobIsThere
  <2>2. BackfillJobIsThere'
    BY <1>2 DEF BackfillInsertCoverage, NextOfBatch, BackfillJobIsThere
  <2>3. LiveJobIsThere' /\ ReconcileJobIsThere'
    BY <1>2 DEF BackfillInsertCoverage, IInv, LiveJobIsThere, ReconcileJobIsThere,
                LiveKey, LastExchange, ReconcileKey
  <2> QED
    BY <2>1, <2>2, <2>3 DEF IInv
<1>3. CASE StartBackfill
  <2>1. UNCHANGED <<jobs, coverage, turnVars, recVars>> /\ fill' # "cover"
    BY <1>3 DEF StartBackfill
  <2> QED
    BY <2>1, OthersWait DEF IInv, BackfillJobIsThere
<1> QED
  BY <1>1, <1>2, <1>3 DEF Backfill

\* of faults and of quiet time keep it,
LEMMA FaultsStayBacked == IInv /\ (Faults \/ QuietElapses \/ OtherSession) => IInv'
<1> SUFFICES ASSUME IInv, Faults \/ QuietElapses \/ OtherSession
             PROVE  IInv'
  OBVIOUS
<1> USE DEF turnVars, recVars, fillVars
<1>1. /\ UNCHANGED <<jobs, coverage>>
      /\ turn' # "cover" \/ UNCHANGED <<turn, exchange>>
      /\ rec' # "cover" \/ UNCHANGED recVars
      /\ fill' # "cover" \/ UNCHANGED <<fill, batch>>
  BY DEF Faults, UserMirrorRaises, MirrorRaises, LiveEnqueueRaises, PassRaises,
         BackfillRaises, Crash, QuietElapses, OtherSession
<1> QED
  BY <1>1, OthersWait DEF IInv, LiveJobIsThere, ReconcileJobIsThere, BackfillJobIsThere

\* and so does a step of something else.
LEMMA StutterStaysBacked == IInv /\ UNCHANGED vars => IInv'
BY OthersWait DEF vars, turnVars, recVars, fillVars, IInv

\* What is covered is backed in every reachable state.
LEMMA StaysBacked == Spec => []IInv
<1>1. IInv /\ [Next]_vars => IInv'
  BY TurnStaysBacked, ReconcilerStaysBacked, BackfillStaysBacked, FaultsStayBacked,
     StutterStaysBacked DEF Next
<1> QED
  BY StartsBacked, <1>1, PTL DEF Spec

(* A range is in session_job_coverage_ranges only if a job was enqueued for *)
(* it: an enqueue that raised between its statements, or a process that     *)
(* died there, writes no message off (db.py, enqueue_capture_job).          *)
THEOREM CoverageIsBacked == Spec => []CoverageIsBackedByJobs
<1>1. IInv => CoverageIsBackedByJobs
  BY DEF IInv
<1> QED
  BY StaysBacked, <1>1, PTL

-----------------------------------------------------------------------------
(* The windows of uncovered messages.  First the rows of a query, ascending by id. *)

UpTo(S, i) == {j \in S : j <= i}

\* Each member of a finite set of ids is a row, and the rows are in order.
LEMMA AscendingIs ==
  ASSUME NEW S \in SUBSET Nat, IsFiniteSet(S)
  PROVE  /\ Cardinality(S) \in Nat
         /\ Ascending(S) \in [1..Cardinality(S) -> S]
         /\ \A i \in S : \E p \in 1..Cardinality(S) : Ascending(S)[p] = i
         /\ \A p, q \in 1..Cardinality(S) : p < q => Ascending(S)[p] < Ascending(S)[q]
<1> DEFINE n == Cardinality(S)
           rank == [i \in S |-> Cardinality(UpTo(S, i))]
<1>1. n \in Nat
  BY FS_CardinalityType
<1>2. ASSUME NEW i \in S
      PROVE  IsFiniteSet(UpTo(S, i)) /\ Cardinality(UpTo(S, i)) \in 1..n
  <2>1. UpTo(S, i) \in SUBSET S /\ i \in UpTo(S, i)
    BY DEF UpTo
  <2>2. IsFiniteSet(UpTo(S, i)) /\ Cardinality(UpTo(S, i)) <= n
    BY <2>1, FS_Subset
  <2>3. Cardinality(UpTo(S, i)) \in Nat /\ Cardinality(UpTo(S, i)) # 0
    BY <2>1, <2>2, FS_EmptySet, FS_CardinalityType
  <2> QED
    BY <1>1, <2>2, <2>3
<1>3. ASSUME NEW i \in S, NEW j \in S, i < j
      PROVE  Cardinality(UpTo(S, i)) < Cardinality(UpTo(S, j))
  <2>1. UpTo(S, i) \in SUBSET UpTo(S, j) /\ j \in UpTo(S, j) /\ j \notin UpTo(S, i)
    <3>1. i \in Nat /\ j \in Nat
      OBVIOUS
    <3>2. \A k \in UpTo(S, i) : k \in S /\ k \in Nat /\ k <= i
      BY DEF UpTo
    <3>3. \A k \in UpTo(S, i) : k \in UpTo(S, j)
      BY <1>3, <3>1, <3>2 DEF UpTo
    <3>4. j \in UpTo(S, j) /\ j \notin UpTo(S, i)
      BY <1>3, <3>1 DEF UpTo
    <3> QED
      BY <3>3, <3>4
  <2>2. /\ Cardinality(UpTo(S, i)) <= Cardinality(UpTo(S, j))
        /\ Cardinality(UpTo(S, j)) # Cardinality(UpTo(S, i))
    BY <1>2, <2>1, FS_Subset
  <2>3. Cardinality(UpTo(S, i)) \in 1..n /\ Cardinality(UpTo(S, j)) \in 1..n
    BY <1>2
  <2> QED
    BY <1>1, <2>2, <2>3
<1>4. rank \in [S -> 1..n] /\ \A i \in S : rank[i] = Cardinality(UpTo(S, i))
  BY <1>2
<1> HIDE DEF rank
<1>5. \A i, j \in S : (i < j => rank[i] < rank[j]) /\ (rank[i] = rank[j] => i = j)
  <2>1. \A i, j \in S : i < j => rank[i] < rank[j]
    BY <1>3, <1>4
  <2>2. ASSUME NEW i \in S, NEW j \in S, rank[i] = rank[j], i # j PROVE FALSE
    <3>1. i < j \/ j < i
      BY <2>2
    <3>2. rank[i] \in 1..n /\ rank[j] \in 1..n
      BY <1>4
    <3> QED
      BY <1>1, <2>1, <2>2, <3>1, <3>2
  <2> QED
    BY <2>1, <2>2
<1>6. rank \in Injection(S, 1..n)
  BY <1>4, <1>5 DEF Injection, IsInjective
<1>7. IsFiniteSet(1..n) /\ Cardinality(1..n) = n
  <2>1. IsFiniteSet(1..n) /\ Cardinality(1..n) = IF 1 > n THEN 0 ELSE n - 1 + 1
    BY <1>1, FS_Interval
  <2> QED
    BY <1>1, <2>1
<1>8. rank \in Surjection(S, 1..n)
  BY <1>6, <1>7, FS_Injection
<1>9. \A p \in 1..n : \E i \in S : rank[i] = p
  BY <1>8 DEF Surjection
<1>10. ASSUME NEW p \in 1..n
       PROVE  Ascending(S)[p] \in S /\ Cardinality(UpTo(S, Ascending(S)[p])) = p
  <2>1. \E i \in S : Cardinality({j \in S : j <= i}) = p
    BY <1>4, <1>9 DEF UpTo
  <2>2. Ascending(S)[p] = CHOOSE i \in S : Cardinality({j \in S : j <= i}) = p
    BY DEF Ascending
  <2> QED
    BY <2>1, <2>2 DEF UpTo
<1>11. \A p \in 1..n : Ascending(S)[p] \in S /\ rank[Ascending(S)[p]] = p
  BY <1>4, <1>10
<1>12. Ascending(S) \in [1..n -> S]
  <2> DEFINE at(p) == CHOOSE i \in S : Cardinality({j \in S : j <= i}) = p
  <2>1. Ascending(S) = [p \in 1..n |-> at(p)]
    BY Zenon DEF Ascending
  <2> HIDE DEF at, n
  <2>2. Ascending(S) = [p \in 1..n |-> Ascending(S)[p]]
    BY <2>1
  <2> QED
    BY <1>11, <2>2
<1>13. ASSUME NEW i \in S PROVE \E p \in 1..n : Ascending(S)[p] = i
  <2>1. rank[i] \in 1..n
    BY <1>4
  <2> QED
    BY <1>5, <1>11, <2>1
<1>14. ASSUME NEW p \in 1..n, NEW q \in 1..n, p < q PROVE Ascending(S)[p] < Ascending(S)[q]
  <2>1. PICK i \in S, j \in S : /\ i = Ascending(S)[p] /\ j = Ascending(S)[q]
                                /\ rank[i] = p /\ rank[j] = q
    BY <1>11
  <2>2. i < j \/ i = j \/ j < i
    BY <2>1
  <2>3. p \in Nat /\ q \in Nat
    BY <1>1
  <2> QED
    BY <1>5, <1>14, <2>1, <2>2, <2>3
<1> QED
  BY <1>1, <1>12, <1>13, <1>14

\* A set of natural numbers that is not empty has a least member.
LEMMA LeastNatural ==
  ASSUME NEW T \in SUBSET Nat, T # {}
  PROVE  \E x \in T : \A y \in T : x <= y
<1>1. IsWellFoundedOn(OpToRel(<, Nat), Nat)
  BY NatLessThanWellFounded
<1>2. PICK x \in T : \A y \in T : ~ (<<y, x>> \in OpToRel(<, Nat))
  BY <1>1, WFMin
<1>3. ASSUME NEW y \in T PROVE x <= y
  <2>1. x \in Nat /\ y \in Nat
    OBVIOUS
  <2>2. ~ (y < x)
    BY <1>2, <2>1 DEF OpToRel
  <2> QED
    BY <2>1, <2>2
<1> QED
  BY <1>3

\* The fold of compute_backfill_windows, as a recursive function of the sets of
\* positions.  It takes the last position of a set last.
NoWindows == [run |-> <<>>, windows |-> <<>>]
IsFold(ids, ranges, g, n) ==
  g = [s \in SUBSET (1..n) |->
         IF s = {} THEN NoWindows ELSE Visit(g[s \ {Max(s)}], ids[Max(s)], ranges)]

LEMMA FoldIs ==
  ASSUME NEW ids, NEW ranges, NEW n \in Nat, DOMAIN ids = 1..n
  PROVE  LET g == CHOOSE g : IsFold(ids, ranges, g, n)
         IN  ComputeBackfillWindows(ids, ranges) = Flush(g[1..n]).windows
  BY DEF IsFold, NoWindows, ComputeBackfillWindows, FoldLeft, MapThenFoldSet

LEMMA LastOf ==
  ASSUME NEW n \in Nat, NEW I \in SUBSET (1..n), NEW m \in I, \A i \in I : i <= m
  PROVE  Max(I) = m
<1>1. \A x \in I : x \in Nat
  OBVIOUS
<1>2. m \in I /\ \A i \in I : m >= i
  BY <1>1
<1>3. Max(I) \in I /\ \A i \in I : Max(I) >= i
  BY <1>2 DEF Max
<1>4. PICK x \in I : x = Max(I)
  BY <1>3
<1>5. x \in Nat /\ m \in Nat /\ x >= m /\ m >= x
  BY <1>1, <1>2, <1>3, <1>4
<1> QED
  BY <1>4, <1>5

LEMMA FoldStep ==
  ASSUME NEW ids, NEW ranges, NEW g, NEW n \in Nat, IsFold(ids, ranges, g, n)
  PROVE  /\ g[1..0] = NoWindows
         /\ \A k \in 1..n : g[1..k] = Visit(g[1..(k - 1)], ids[k], ranges)
<1>1. \A s \in SUBSET (1..n) :
        g[s] = IF s = {} THEN NoWindows ELSE Visit(g[s \ {Max(s)}], ids[Max(s)], ranges)
  BY Zenon DEF IsFold
<1>2. g[1..0] = NoWindows
  <2>1. 1..0 = {}
    OBVIOUS
  <2> QED
    BY <1>1, <2>1
<1>3. ASSUME NEW k \in 1..n PROVE g[1..k] = Visit(g[1..(k - 1)], ids[k], ranges)
  <2>1. Max(1..k) = k
    <3>1. k \in Nat /\ k \in 1..k /\ \A i \in 1..k : i <= k
      OBVIOUS
    <3> QED
      BY <3>1, LastOf
  <2>2. (1..k) \ {k} = 1..(k - 1) /\ (1..k) \in SUBSET (1..n) /\ 1..k # {}
    OBVIOUS
  <2>3. g[1..k] = Visit(g[(1..k) \ {Max(1..k)}], ids[Max(1..k)], ranges)
    BY <1>1, <2>2
  <2> QED
    BY <2>1, <2>2, <2>3
<1> QED
  BY <1>2, <1>3

\* It exists.
LEMMA FoldExtends ==
  ASSUME NEW ids, NEW ranges, NEW g, NEW n \in Nat, IsFold(ids, ranges, g, n)
  PROVE  \E g2 : IsFold(ids, ranges, g2, n + 1)
<1> DEFINE g2 == [s \in SUBSET (1..(n + 1)) |->
                    IF n + 1 \in s THEN Visit(g[s \ {n + 1}], ids[n + 1], ranges) ELSE g[s]]
           next(s) == IF s = {} THEN NoWindows
                      ELSE Visit(g2[s \ {Max(s)}], ids[Max(s)], ranges)
<1>1. ASSUME NEW s \in SUBSET (1..(n + 1)) PROVE g2[s] = next(s)
  <2>1. CASE n + 1 \in s
    <3>1. Max(s) = n + 1
      <4>1. PICK m \in Nat : m = n + 1
        OBVIOUS
      <4>2. s \in SUBSET (1..m) /\ m \in s /\ \A i \in s : i <= m
        BY <2>1, <4>1
      <4> QED
        BY <4>1, <4>2, LastOf
    <3>2. s \ {n + 1} \in SUBSET (1..(n + 1)) /\ n + 1 \notin s \ {n + 1}
      OBVIOUS
    <3>3. g2[s \ {n + 1}] = g[s \ {n + 1}]
      BY <3>2
    <3> QED
      BY <2>1, <3>1, <3>3
  <2>2. CASE n + 1 \notin s
    <3>1. s \in SUBSET (1..n)
      BY <2>2
    <3>2. g[s] = IF s = {} THEN NoWindows ELSE Visit(g[s \ {Max(s)}], ids[Max(s)], ranges)
      BY <3>1, Zenon DEF IsFold
    <3>3. g2[s] = g[s] /\ g2[s \ {Max(s)}] = g[s \ {Max(s)}]
      BY <2>2
    <3> QED
      BY <3>2, <3>3
  <2> QED
    BY <2>1, <2>2
<1>2. g2 = [s \in SUBSET (1..(n + 1)) |-> g2[s]]
  OBVIOUS
<1> HIDE DEF g2
<1>3. g2 = [s \in SUBSET (1..(n + 1)) |-> next(s)]
  BY <1>1, <1>2
<1> QED
  BY <1>3 DEF IsFold

LEMMA FoldExists == \A ids, ranges : \A n \in Nat : \E g : IsFold(ids, ranges, g, n)
<1> SUFFICES ASSUME NEW ids, NEW ranges PROVE \A n \in Nat : \E g : IsFold(ids, ranges, g, n)
  OBVIOUS
<1> DEFINE Without == {n \in Nat : ~ \E g : IsFold(ids, ranges, g, n)}
<1>1. SUFFICES ASSUME Without # {} PROVE FALSE
  OBVIOUS
<1>2. PICK n \in Without : \A m \in Without : n <= m
  BY <1>1, LeastNatural
<1>3. CASE n = 0
  <2> DEFINE g == [s \in SUBSET (1..0) |-> NoWindows]
  <2>1. \A s \in SUBSET (1..0) : s = {}
    OBVIOUS
  <2>2. IsFold(ids, ranges, g, 0)
    BY <2>1 DEF IsFold
  <2> QED
    BY <1>2, <1>3, <2>2
<1>4. CASE n # 0
  <2>1. n - 1 \in Nat /\ n - 1 \notin Without /\ (n - 1) + 1 = n
    BY <1>2, <1>4
  <2>2. PICK g : IsFold(ids, ranges, g, n - 1)
    BY <2>1
  <2>3. \E g2 : IsFold(ids, ranges, g2, n)
    BY <2>1, <2>2, FoldExtends
  <2> QED
    BY <1>2, <2>3
<1> QED
  BY <1>3, <1>4

\* The loop of compute_backfill_windows: what it has after each of the ids.
IsWalk(ids, ranges, acc, n) ==
  /\ acc[0] = NoWindows
  /\ \A k \in 1..n : acc[k] = Visit(acc[k - 1], ids[k], ranges)
  /\ ComputeBackfillWindows(ids, ranges) = Flush(acc[n]).windows

LEMMA WindowsAreAWalk ==
  ASSUME NEW ids, NEW ranges, NEW n \in Nat, DOMAIN ids = 1..n
  PROVE  \E acc : IsWalk(ids, ranges, acc, n)
<1> DEFINE g == CHOOSE f : IsFold(ids, ranges, f, n)
           acc == [k \in 0..n |-> g[1..k]]
<1>1. IsFold(ids, ranges, g, n)
  BY FoldExists
<1>2. ComputeBackfillWindows(ids, ranges) = Flush(g[1..n]).windows
  BY FoldIs
<1> HIDE DEF g
<1>3. /\ g[1..0] = NoWindows
      /\ \A k \in 1..n : g[1..k] = Visit(g[1..(k - 1)], ids[k], ranges)
  BY <1>1, FoldStep
<1>4. \A k \in 0..n : acc[k] = g[1..k]
  OBVIOUS
<1>5. 0 \in 0..n /\ n \in 0..n /\ \A k \in 1..n : k \in 0..n /\ k - 1 \in 0..n
  OBVIOUS
<1>6. IsWalk(ids, ranges, acc, n)
  <2> HIDE DEF acc
  <2> QED
    BY <1>2, <1>3, <1>4, <1>5 DEF IsWalk
<1> QED
  BY <1>6

\* What dividing by Window comes to.
LEMMA QuotientIs ==
  \A d, c, w \in Nat : w # 0 /\ c * w <= d /\ d < (c + 1) * w => d \div w = c
  OBVIOUS

LEMMA QuotientBounds ==
  \A d, w \in Nat : w # 0 =>
    d \div w \in Nat /\ (d \div w) * w <= d /\ d < (d \div w + 1) * w
  OBVIOUS

LEMMA Multiples ==
  \A a, b, w \in Nat :
    /\ a * w \in Nat
    /\ a <= b => a * w <= b * w
    /\ a * w < b * w => a < b
    /\ (a + 1) * w = a * w + w
  OBVIOUS

\* Where the c-th window of a run of so many messages begins and ends.
Opens(c)       == (c - 1) * Window + 1
Closes(c, len) == IF c * Window <= len THEN c * Window ELSE len

\* The windows of a run are within it and leave none of it out.
LEMMA ChunkRunIs ==
  ASSUME NEW run \in Seq(Nat)
  PROVE  \E m \in Nat :
           /\ DOMAIN ChunkRun(run) = 1..m /\ ChunkRun(run) \in Seq(Nat \X Nat)
           /\ \A c \in 1..m :
                /\ Opens(c) \in 1..Len(run) /\ Closes(c, Len(run)) \in Opens(c)..Len(run)
                /\ ChunkRun(run)[c] = <<run[Opens(c)], run[Closes(c, Len(run))]>>
           /\ \A x \in 1..Len(run) : \E c \in 1..m : x \in Opens(c)..Closes(c, Len(run))
<1> DEFINE n == Len(run)
           m == (n + Window - 1) \div Window
<1>0. n \in Nat /\ Window \in Nat /\ Window # 0 /\ n + Window - 1 \in Nat
  BY WindowAssumption
<1>1. m \in Nat /\ m * Window <= n + Window - 1 /\ n + Window - 1 < (m + 1) * Window
  BY <1>0, QuotientBounds
<1>2. DOMAIN ChunkRun(run) = 1..m
  BY DEF ChunkRun
<1>3. \A c \in 1..m : ChunkRun(run)[c] = <<run[Opens(c)], run[Closes(c, n)]>>
  BY DEF ChunkRun, Opens, Closes
<1> HIDE DEF m
<1>4. ASSUME NEW c \in 1..m
      PROVE  Opens(c) \in 1..n /\ Closes(c, n) \in Opens(c)..n
  <2>1. c \in Nat /\ c - 1 \in Nat /\ c - 1 <= m /\ m - 1 \in Nat /\ c - 1 <= m - 1
    BY <1>1
  <2>2. /\ (c - 1) * Window \in Nat /\ (c - 1) * Window <= (m - 1) * Window
        /\ m * Window = (m - 1) * Window + Window /\ (m - 1) * Window \in Nat
        /\ c * Window = (c - 1) * Window + Window
    <3>1. (m - 1) + 1 = m /\ (c - 1) + 1 = c
      BY <1>1, <2>1
    <3> QED
      BY <1>0, <2>1, <3>1, Multiples
  <2> QED
    BY <1>0, <1>1, <2>2 DEF Opens, Closes
<1>5. ASSUME NEW x \in 1..n PROVE \E c \in 1..m : x \in Opens(c)..Closes(c, n)
  <2> DEFINE q == (x - 1) \div Window
  <2>1. x - 1 \in Nat /\ x \in Nat
    OBVIOUS
  <2>2. q \in Nat /\ q * Window <= x - 1 /\ x - 1 < (q + 1) * Window
    BY <1>0, <2>1, QuotientBounds
  <2> HIDE DEF q
  <2>3. (q + 1) * Window = q * Window + Window /\ (m + 1) * Window = m * Window + Window
    BY <1>0, <1>1, <2>2, Multiples
  <2>4. q * Window < m * Window
    <3>1. m * Window \in Nat /\ q * Window \in Nat
      BY <1>0, <1>1, <2>2, Multiples
    <3> QED
      BY <1>0, <1>1, <2>1, <2>2, <2>3, <3>1
  <2>5. q < m
    BY <1>0, <1>1, <2>2, <2>4, Multiples
  <2>6. q + 1 \in 1..m /\ (q + 1) - 1 = q
    BY <1>1, <2>2, <2>5
  <2>7. x \in Opens(q + 1)..Closes(q + 1, n)
    <3>1. q * Window \in Nat
      BY <1>0, <2>2, Multiples
    <3> QED
      BY <1>0, <2>1, <2>2, <2>3, <2>6, <3>1 DEF Opens, Closes
  <2> QED
    BY <2>6, <2>7
<1>6. ChunkRun(run) \in Seq(Nat \X Nat)
  <2>1. ASSUME NEW c \in 1..m PROVE ChunkRun(run)[c] \in Nat \X Nat
    <3>1. PICK x \in 1..n, y \in 1..n : ChunkRun(run)[c] = <<run[x], run[y]>>
      <4>1. Opens(c) \in 1..n /\ Closes(c, n) \in Opens(c)..n
        BY <1>4
      <4>2. Closes(c, n) \in 1..n
        BY <1>0, <4>1
      <4> QED
        BY <1>3, <4>1, <4>2
    <3>2. run[x] \in Nat /\ run[y] \in Nat
      OBVIOUS
    <3> QED
      BY <3>1, <3>2
  <2>2. ChunkRun(run) = [c \in 1..m |-> ChunkRun(run)[c]]
    <3> DEFINE at(c) ==
                 LET last == c * Window
                 IN  <<run[(c - 1) * Window + 1],
                       run[IF last <= Len(run) THEN last ELSE Len(run)]>>
    <3>1. ChunkRun(run) = [c \in 1..m |-> at(c)]
      BY DEF ChunkRun, m
    <3> HIDE DEF at
    <3> QED
      BY <3>1
  <2>3. [c \in 1..m |-> ChunkRun(run)[c]] \in [1..m -> Nat \X Nat]
    BY <2>1
  <2>4. \A f \in [1..m -> Nat \X Nat] : f \in Seq(Nat \X Nat)
    BY <1>1
  <2> QED
    BY <2>2, <2>3, <2>4
<1> QED
  BY <1>1, <1>2, <1>3, <1>4, <1>5, <1>6

\* The rows a query returned, n of them.
AreRows(ids, n) ==
  n \in Nat /\ ids \in [1..n -> Nat] /\ \A p, q \in 1..n : p < q => ids[p] < ids[q]

\* No id from position x to y is covered; a run begins at position a.
Free(ids, ranges, x, y) == \A q \in x..y : ~ Covered(ids[q], ranges)
Begins(ids, ranges, a)  == a = 1 \/ Covered(ids[a - 1], ranges)

\* The positions x to y are a window: a whole number of windows into their run,
\* and full, or the last of it.
IsWindow(ids, ranges, n, x, y) ==
  /\ x \in 1..n /\ y \in x..n /\ y < x + Window
  /\ \E a \in 1..x, c \in Nat :
       Begins(ids, ranges, a) /\ Free(ids, ranges, a, y) /\ x = a + c * Window
  /\ y = x + Window - 1 \/ y = n \/ Covered(ids[y + 1], ranges)

\* The windows of the first s positions: all of them, in order.
AreWindows(ids, ranges, n, windows, s) ==
  /\ windows \in Seq(Nat \X Nat)
  /\ \A c \in 1..Len(windows) : \E x, y \in 1..s :
       IsWindow(ids, ranges, n, x, y) /\ windows[c] = <<ids[x], ids[y]>>
  /\ \A c, d \in 1..Len(windows) : c < d => windows[c][2] < windows[d][1]
  /\ \A p \in 1..s : ~ Covered(ids[p], ranges) =>
       \E c \in 1..Len(windows) : In(ids[p], windows[c])

\* After k ids the loop has the windows of the ids before its run, and the run is
\* of the last ids, none of them covered.
Accumulated(ids, ranges, n, acc, k) ==
  /\ acc \in [run : Seq(Nat), windows : Seq(Nat \X Nat)]
  /\ Len(acc.run) <= k
  /\ \A q \in 1..Len(acc.run) : /\ acc.run[q] = ids[k - Len(acc.run) + q]
                               /\ ~ Covered(acc.run[q], ranges)
  /\ Begins(ids, ranges, k - Len(acc.run) + 1)
  /\ AreWindows(ids, ranges, n, acc.windows, k - Len(acc.run))

\* Rows that are not later have ids that are not greater.
LEMMA RowsAscend ==
  ASSUME NEW ids, NEW n, AreRows(ids, n), NEW p \in 1..n, NEW q \in 1..n
  PROVE  /\ ids[p] \in Nat /\ ids[q] \in Nat
         /\ p <= q <=> ids[p] <= ids[q]
         /\ p < q <=> ids[p] < ids[q]
<1>1. n \in Nat /\ p \in Nat /\ q \in Nat
  BY DEF AreRows
<1>2. p < q \/ p = q \/ q < p
  BY <1>1
<1>3. ids[p] \in Nat /\ ids[q] \in Nat
  BY DEF AreRows
<1>4. (p < q => ids[p] < ids[q]) /\ (q < p => ids[q] < ids[p])
  BY DEF AreRows
<1> QED
  BY <1>1, <1>2, <1>3, <1>4

\* What joining two sequences comes to.
LEMMA Joined ==
  ASSUME NEW T, NEW w \in Seq(T), NEW v \in Seq(T)
  PROVE  /\ w \o v \in Seq(T) /\ Len(w \o v) = Len(w) + Len(v)
         /\ \A c \in 1..Len(w) : (w \o v)[c] = w[c]
         /\ \A c \in 1..Len(v) : (w \o v)[Len(w) + c] = v[c]
  OBVIOUS

\* Where a run ends, what is flushed are its windows.
LEMMA FlushIs ==
  ASSUME NEW ids, NEW ranges, NEW n, AreRows(ids, n), NEW k \in 0..n, NEW acc,
         Accumulated(ids, ranges, n, acc, k), k = n \/ Covered(ids[k + 1], ranges)
  PROVE  AreWindows(ids, ranges, n, Flush(acc).windows, k)
<1> DEFINE run == acc.run  w == acc.windows  r == Len(run)  s == k - r  l == Len(w)
           v == ChunkRun(run)  u == w \o v
<1>0. n \in Nat /\ k \in Nat /\ Window \in Nat /\ Window # 0
  BY WindowAssumption DEF AreRows
<1>1. run \in Seq(Nat) /\ w \in Seq(Nat \X Nat) /\ r \in Nat /\ l \in Nat /\ s \in Nat /\ s + r = k
  BY <1>0 DEF Accumulated
<1>2. PICK m \in Nat :
        /\ DOMAIN v = 1..m /\ v \in Seq(Nat \X Nat)
        /\ \A c \in 1..m : /\ Opens(c) \in 1..r /\ Closes(c, r) \in Opens(c)..r
                          /\ v[c] = <<run[Opens(c)], run[Closes(c, r)]>>
        /\ \A x \in 1..r : \E c \in 1..m : x \in Opens(c)..Closes(c, r)
  BY <1>1, ChunkRunIs
<1>3. Flush(acc).windows = u
  BY DEF Flush
<1>4. \A q \in 1..r : run[q] = ids[s + q] /\ ~ Covered(ids[s + q], ranges)
  BY DEF Accumulated
<1>5. Begins(ids, ranges, s + 1) /\ AreWindows(ids, ranges, n, w, s)
  BY DEF Accumulated
<1> HIDE DEF run, w, s, v
<1>6. Len(v) = m
  BY <1>2
<1>7. /\ u \in Seq(Nat \X Nat) /\ Len(u) = l + m
      /\ \A c \in 1..l : u[c] = w[c]
      /\ \A c \in 1..m : u[l + c] = v[c]
  <2>1. w \in Seq(Nat \X Nat) /\ v \in Seq(Nat \X Nat)
    BY <1>1, <1>2
  <2>2. /\ w \o v \in Seq(Nat \X Nat) /\ Len(w \o v) = Len(w) + Len(v)
        /\ \A c \in 1..Len(w) : (w \o v)[c] = w[c]
        /\ \A c \in 1..Len(v) : (w \o v)[Len(w) + c] = v[c]
    BY ONLY <2>1, Joined
  <2> QED
    BY <1>6, <2>2
<1> HIDE DEF r, l, u
<1>8. ASSUME NEW c \in 1..m
      PROVE  /\ s + Opens(c) \in 1..k /\ s + Closes(c, r) \in 1..k
             /\ IsWindow(ids, ranges, n, s + Opens(c), s + Closes(c, r))
             /\ v[c] = <<ids[s + Opens(c)], ids[s + Closes(c, r)]>>
  <2> DEFINE x == Opens(c)  y == Closes(c, r)
  <2>1. x \in 1..r /\ y \in x..r /\ v[c] = <<run[x], run[y]>>
    BY <1>2
  <2>2. y \in 1..r /\ x \in Nat /\ y \in Nat
    BY <1>1, <2>1
  <2>3. v[c] = <<ids[s + x], ids[s + y]>>
    BY <1>4, <2>1, <2>2
  <2>4. s + x \in 1..k /\ s + y \in 1..k /\ s + x \in 1..n /\ s + y \in (s + x)..n
    <3>1. x >= 1 /\ x <= r /\ y >= x /\ y <= r
      BY <1>1, <2>1, <2>2
    <3>2. s + x \in Nat /\ s + y \in Nat /\ s + x >= 1 /\ s + x <= s + y /\ s + y <= k
      BY <1>0, <1>1, <2>2, <3>1
    <3>3. k <= n
      BY <1>0
    <3> QED
      BY <1>0, <3>2, <3>3
  <2>5. c \in Nat /\ c - 1 \in Nat
    BY <1>2
  <2>6. (c - 1) * Window \in Nat /\ c * Window = (c - 1) * Window + Window
    <3>1. (c - 1) + 1 = c
      BY <2>5
    <3> QED
      BY <1>0, <2>5, <3>1, Multiples
  <2>7. x = (c - 1) * Window + 1
    BY DEF Opens
  <2>8. y = IF c * Window <= r THEN c * Window ELSE r
    BY DEF Closes
  <2> HIDE DEF x, y
  <2>9. s + y < (s + x) + Window
    BY <1>0, <1>1, <2>2, <2>6, <2>7, <2>8
  <2>10. s + y = (s + x) + Window - 1 \/ s + y = k
    BY <1>0, <1>1, <2>2, <2>6, <2>7, <2>8
  <2>11. Free(ids, ranges, s + 1, s + y)
    <3>1. ASSUME NEW q \in (s + 1)..(s + y) PROVE ~ Covered(ids[q], ranges)
      <4>1. q - s \in 1..r /\ s + (q - s) = q
        BY <1>1, <2>2, <3>1
      <4> QED
        BY <1>4, <4>1
    <3> QED
      BY <3>1 DEF Free
  <2>12. s + 1 \in 1..(s + x) /\ s + x = (s + 1) + (c - 1) * Window
    <3>1. x >= 1 /\ s \in Nat
      BY <1>1, <2>1
    <3> QED
      BY <2>2, <2>6, <2>7, <3>1
  <2>13. \E a \in 1..(s + x), b \in Nat :
           Begins(ids, ranges, a) /\ Free(ids, ranges, a, s + y) /\ s + x = a + b * Window
    BY <1>5, <2>5, <2>11, <2>12
  <2>14. s + y = (s + x) + Window - 1 \/ s + y = n \/ Covered(ids[(s + y) + 1], ranges)
    BY <2>10
  <2>15. IsWindow(ids, ranges, n, s + x, s + y)
    BY <2>4, <2>9, <2>13, <2>14 DEF IsWindow
  <2> QED
    BY <2>3, <2>4, <2>15 DEF x, y
<1>9. ASSUME NEW c \in 1..Len(u)
      PROVE  c \in 1..l \/ \E d \in 1..m : c = l + d
  <2>1. l \in Nat /\ m \in Nat /\ c \in 1..(l + m)
    BY <1>1, <1>7
  <2>2. c \in 1..l \/ (c - l \in 1..m /\ c = l + (c - l))
    BY <2>1
  <2> QED
    BY <2>2
<1>10. ASSUME NEW c \in 1..l
       PROVE  \E x, y \in 1..s : IsWindow(ids, ranges, n, x, y) /\ u[c] = <<ids[x], ids[y]>>
  BY <1>5, <1>7 DEF AreWindows, l
<1>11. 1..s \subseteq 1..k /\ 1..k \subseteq 1..n
  BY <1>0, <1>1
<1>12. ASSUME NEW c \in 1..Len(u)
       PROVE  \E x, y \in 1..k : IsWindow(ids, ranges, n, x, y) /\ u[c] = <<ids[x], ids[y]>>
  <2>1. CASE c \in 1..l
    BY <1>10, <1>11, <2>1
  <2>2. ASSUME NEW d \in 1..m, c = l + d
        PROVE  \E x, y \in 1..k : IsWindow(ids, ranges, n, x, y) /\ u[c] = <<ids[x], ids[y]>>
    <3>1. /\ s + Opens(d) \in 1..k /\ s + Closes(d, r) \in 1..k
          /\ IsWindow(ids, ranges, n, s + Opens(d), s + Closes(d, r))
      BY <1>8
    <3>2. u[c] = <<ids[s + Opens(d)], ids[s + Closes(d, r)]>>
      BY <1>7, <1>8, <2>2
    <3> QED
      BY <3>1, <3>2
  <2> QED
    BY <1>9, <2>1, <2>2
<1>13. ASSUME NEW c \in 1..Len(u), NEW d \in 1..Len(u), c < d
       PROVE  u[c][2] < u[d][1]
  <2>1. CASE c \in 1..l /\ d \in 1..l
    BY <1>5, <1>7, <1>13, <2>1 DEF AreWindows, l
  <2>2. ASSUME c \in 1..l, NEW e \in 1..m, d = l + e PROVE u[c][2] < u[d][1]
    <3>1. PICK x \in 1..s, y \in 1..s : u[c] = <<ids[x], ids[y]>>
      BY <1>10, <2>2
    <3>2. s + Opens(e) \in 1..n /\ u[d] = <<ids[s + Opens(e)], ids[s + Closes(e, r)]>>
      BY <1>7, <1>8, <1>11, <2>2
    <3>3. y \in 1..n /\ y < s + Opens(e)
      <4>1. Opens(e) \in 1..r
        BY <1>2
      <4> QED
        BY <1>1, <1>11, <3>1, <4>1
    <3>4. ids[y] < ids[s + Opens(e)]
      BY <3>2, <3>3, RowsAscend
    <3> QED
      BY <3>1, <3>2, <3>4
  <2>3. ASSUME NEW e \in 1..m, NEW f \in 1..m, c = l + e, d = l + f PROVE u[c][2] < u[d][1]
    <3>1. /\ u[c] = <<ids[s + Opens(e)], ids[s + Closes(e, r)]>>
          /\ u[d] = <<ids[s + Opens(f)], ids[s + Closes(f, r)]>>
          /\ s + Closes(e, r) \in 1..n /\ s + Opens(f) \in 1..n
      BY <1>7, <1>8, <1>11, <2>3
    <3>2. Closes(e, r) < Opens(f)
      <4>1. e \in Nat /\ f \in Nat /\ f - 1 \in Nat /\ e <= f - 1
        BY <1>1, <1>2, <1>13, <2>3
      <4>2. e * Window \in Nat /\ (f - 1) * Window \in Nat /\ e * Window <= (f - 1) * Window
        BY <1>0, <4>1, Multiples
      <4> QED
        BY <1>1, <4>2 DEF Opens, Closes
    <3>3. s + Closes(e, r) < s + Opens(f)
      <4>1. Closes(e, r) \in Nat /\ Opens(f) \in Nat
        <5>1. Opens(e) \in 1..r /\ Closes(e, r) \in Opens(e)..r /\ Opens(f) \in 1..r
          BY <1>2
        <5> QED
          BY <1>1, <5>1
      <4> QED
        BY <1>1, <3>2, <4>1
    <3>4. ids[s + Closes(e, r)] < ids[s + Opens(f)]
      BY <3>1, <3>3, RowsAscend
    <3> QED
      BY <3>1, <3>4
  <2>4. ASSUME NEW e \in 1..m, c = l + e, d \in 1..l PROVE FALSE
    BY <1>1, <1>2, <1>13, <2>4
  <2> QED
    BY <1>9, <2>1, <2>2, <2>3, <2>4
<1>14. ASSUME NEW p \in 1..k, ~ Covered(ids[p], ranges)
       PROVE  \E c \in 1..Len(u) : In(ids[p], u[c])
  <2>1. CASE p \in 1..s
    <3>1. PICK c \in 1..l : In(ids[p], w[c])
      BY <1>5, <1>14, <2>1 DEF AreWindows, l
    <3>2. u[c] = w[c]
      BY <1>7, <3>1
    <3>3. c \in 1..(l + m)
      BY <1>1, <3>1
    <3>4. c \in 1..Len(u)
      BY <1>7, <3>3
    <3> QED
      BY <3>1, <3>2, <3>4
  <2>2. CASE p \notin 1..s
    <3>1. p - s \in 1..r
      BY <1>0, <1>1, <2>2
    <3>2. PICK c \in 1..m : p - s \in Opens(c)..Closes(c, r)
      BY <1>2, <3>1
    <3>3. /\ u[l + c] = <<ids[s + Opens(c)], ids[s + Closes(c, r)]>>
          /\ s + Opens(c) \in 1..n /\ s + Closes(c, r) \in 1..n
      BY <1>7, <1>8, <1>11
    <3>4. s + Opens(c) <= p /\ p <= s + Closes(c, r)
      <4>1. Opens(c) \in Nat /\ Closes(c, r) \in Nat /\ p \in Nat
        BY <1>0, <1>1, <1>2
      <4> QED
        BY <1>1, <3>2, <4>1
    <3>5. p \in 1..n
      BY <1>11
    <3>6. ids[s + Opens(c)] <= ids[p] /\ ids[p] <= ids[s + Closes(c, r)]
      BY <3>3, <3>4, <3>5, RowsAscend
    <3>7. l + c \in 1..Len(u)
      <4>1. l \in Nat /\ m \in Nat /\ c \in 1..m
        BY <1>1
      <4>2. l + c \in 1..(l + m)
        BY <4>1
      <4> QED
        BY <1>7, <4>2
    <3>8. In(ids[p], u[l + c])
      BY <3>3, <3>6 DEF In
    <3> QED
      BY <3>7, <3>8
  <2> QED
    BY <2>1, <2>2
<1>15. AreWindows(ids, ranges, n, u, k)
  BY <1>7, <1>12, <1>13, <1>14 DEF AreWindows
<1> QED
  BY <1>3, <1>15

\* One id more.
LEMMA VisitIs ==
  ASSUME NEW ids, NEW ranges, NEW n, AreRows(ids, n), NEW k \in 1..n, NEW acc,
         Accumulated(ids, ranges, n, acc, k - 1)
  PROVE  Accumulated(ids, ranges, n, Visit(acc, ids[k], ranges), k)
<1> DEFINE new == Visit(acc, ids[k], ranges)  r == Len(acc.run)
<1>0. /\ n \in Nat /\ k \in Nat /\ k - 1 \in 0..n /\ (k - 1) + 1 = k /\ k + 1 - 0 = k + 1
      /\ ids[k] \in Nat /\ r \in Nat /\ r <= k - 1 /\ acc.run \in Seq(Nat)
      /\ acc \in [run : Seq(Nat), windows : Seq(Nat \X Nat)]
  BY DEF AreRows, Accumulated
<1>1. CASE Covered(ids[k], ranges)
  <2>1. AreWindows(ids, ranges, n, Flush(acc).windows, k - 1)
    BY <1>0, <1>1, FlushIs
  <2>2. new = [run |-> <<>>, windows |-> Flush(acc).windows]
    BY <1>1 DEF Visit, Flush
  <2>3. AreWindows(ids, ranges, n, Flush(acc).windows, k)
    <3> DEFINE w == Flush(acc).windows
    <3>1. w \in Seq(Nat \X Nat)
      BY <2>1 DEF AreWindows
    <3> HIDE DEF w
    <3>2. 1..(k - 1) \subseteq 1..k /\ \A p \in 1..k : p = k \/ p \in 1..(k - 1)
      BY <1>0
    <3>3. \A c \in 1..Len(w) : \E x, y \in 1..k :
            IsWindow(ids, ranges, n, x, y) /\ w[c] = <<ids[x], ids[y]>>
      BY <2>1, <3>2 DEF AreWindows, w
    <3>4. \A p \in 1..k : ~ Covered(ids[p], ranges) => \E c \in 1..Len(w) : In(ids[p], w[c])
      BY <1>1, <2>1, <3>2 DEF AreWindows, w
    <3> QED
      BY <2>1, <3>1, <3>3, <3>4 DEF AreWindows, w
  <2>4. Flush(acc).windows \in Seq(Nat \X Nat)
    BY <2>1 DEF AreWindows
  <2>5. new \in [run : Seq(Nat), windows : Seq(Nat \X Nat)] /\ Len(new.run) = 0
    BY <2>2, <2>4
  <2>6. new.windows = Flush(acc).windows /\ k - 0 = k
    BY <1>0, <2>2
  <2>7. Begins(ids, ranges, k + 1)
    <3>1. (k + 1) - 1 = k
      BY <1>0
    <3> QED
      BY <1>1, <3>1 DEF Begins
  <2> HIDE DEF new, r
  <2>8. Accumulated(ids, ranges, n, new, k)
    BY <1>0, <2>3, <2>5, <2>6, <2>7 DEF Accumulated
  <2> QED
    BY <2>8 DEF new
<1>2. CASE ~ Covered(ids[k], ranges)
  <2>1. new = [run |-> Append(acc.run, ids[k]), windows |-> acc.windows]
    BY <1>0, <1>2 DEF Visit
  <2>2. /\ Append(acc.run, ids[k]) \in Seq(Nat) /\ Len(Append(acc.run, ids[k])) = r + 1
        /\ \A q \in 1..(r + 1) :
             Append(acc.run, ids[k])[q] = IF q = r + 1 THEN ids[k] ELSE acc.run[q]
    BY <1>0
  <2>3. /\ new \in [run : Seq(Nat), windows : Seq(Nat \X Nat)] /\ Len(new.run) = r + 1
        /\ new.windows = acc.windows
        /\ \A q \in 1..(r + 1) : new.run[q] = IF q = r + 1 THEN ids[k] ELSE acc.run[q]
    BY <1>0, <2>1, <2>2
  <2>4. k - (r + 1) = (k - 1) - r /\ r + 1 <= k
    BY <1>0
  <2> HIDE DEF new
  <2>5. ASSUME NEW q \in 1..(r + 1)
        PROVE  new.run[q] = ids[((k - 1) - r) + q] /\ ~ Covered(new.run[q], ranges)
    <3>1. CASE q = r + 1
      <4>1. ((k - 1) - r) + q = k
        BY <1>0, <3>1
      <4> QED
        BY <1>2, <2>3, <3>1, <4>1
    <3>2. CASE q # r + 1
      <4>1. q \in 1..r
        BY <1>0, <3>2
      <4> QED
        BY <2>3, <3>2, <4>1 DEF Accumulated
    <3> QED
      BY <3>1, <3>2
  <2>6. /\ Begins(ids, ranges, ((k - 1) - r) + 1)
        /\ AreWindows(ids, ranges, n, acc.windows, (k - 1) - r)
    BY DEF Accumulated
  <2> HIDE DEF r
  <2>7. Accumulated(ids, ranges, n, new, k)
    BY <1>0, <2>3, <2>4, <2>5, <2>6 DEF Accumulated
  <2> QED
    BY <2>7 DEF new
<1> QED
  BY <1>1, <1>2

\* What compute_backfill_windows returns are the windows of all the rows.
LEMMA WindowsAre ==
  ASSUME NEW ids, NEW ranges, NEW n, AreRows(ids, n)
  PROVE  AreWindows(ids, ranges, n, ComputeBackfillWindows(ids, ranges), n)
<1>0. n \in Nat /\ DOMAIN ids = 1..n
  BY DEF AreRows
<1>1. PICK acc : IsWalk(ids, ranges, acc, n)
  BY <1>0, WindowsAreAWalk
<1> DEFINE Off == {k \in 0..n : ~ Accumulated(ids, ranges, n, acc[k], k)}
<1>2. Accumulated(ids, ranges, n, NoWindows, 0)
  <2>1. NoWindows.windows = <<>> /\ NoWindows.run = <<>> /\ Len(<<>>) = 0 /\ 0 - 0 = 0
        /\ <<>> \in Seq(Nat \X Nat) /\ <<>> \in Seq(Nat) /\ 1..0 = {} /\ 0 + 1 = 1
    BY DEF NoWindows
  <2>2. NoWindows \in [run : Seq(Nat), windows : Seq(Nat \X Nat)]
    BY <2>1 DEF NoWindows
  <2>3. AreWindows(ids, ranges, n, <<>>, 0)
    BY <2>1 DEF AreWindows
  <2>4. Begins(ids, ranges, 1)
    BY DEF Begins
  <2> HIDE DEF NoWindows
  <2> QED
    BY <2>1, <2>2, <2>3, <2>4 DEF Accumulated
<1>3. Off = {}
  <2>1. SUFFICES ASSUME Off # {} PROVE FALSE
    OBVIOUS
  <2>2. PICK k \in Off : \A j \in Off : k <= j
    <3>1. Off \subseteq Nat
      BY <1>0
    <3> HIDE DEF Off
    <3> QED
      BY <2>1, <3>1, LeastNatural
  <2>3. k # 0
    BY <1>1, <1>2, <2>2 DEF IsWalk
  <2>4. k \in 1..n /\ k - 1 \in 0..n /\ k - 1 \notin Off
    BY <1>0, <2>2, <2>3
  <2>5. Accumulated(ids, ranges, n, acc[k - 1], k - 1)
    BY <2>4
  <2>6. acc[k] = Visit(acc[k - 1], ids[k], ranges)
    BY <1>1, <2>4 DEF IsWalk
  <2>7. Accumulated(ids, ranges, n, acc[k], k)
    BY <2>4, <2>5, <2>6, VisitIs
  <2> QED
    BY <2>2, <2>7
<1>4. n \in 0..n /\ Accumulated(ids, ranges, n, acc[n], n)
  BY <1>0, <1>3
<1>5. AreWindows(ids, ranges, n, Flush(acc[n]).windows, n)
  BY <1>4, FlushIs
<1> QED
  BY <1>1, <1>5 DEF IsWalk

(* The declarative definition.  Its terms, by position. *)

LEMMA GapIs ==
  ASSUME NEW h, NEW n, AreRows(h.ids, n)
  PROVE  /\ Range(h.ids) = {h.ids[p] : p \in 1..n} /\ Gap(h) \subseteq Nat
         /\ \A i : i \in Gap(h) <=> \E p \in 1..n : i = h.ids[p] /\ ~ Covered(h.ids[p], h.ranges)
         /\ \A p \in 1..n : h.ids[p] \in Gap(h) <=> ~ Covered(h.ids[p], h.ranges)
<1>1. DOMAIN h.ids = 1..n /\ \A p \in 1..n : h.ids[p] \in Nat
  BY DEF AreRows
<1>2. Range(h.ids) = {h.ids[p] : p \in 1..n}
  BY <1>1 DEF Range
<1> QED
  BY <1>1, <1>2 DEF Gap

\* Two ids are in one run when no id between them is covered.
LEMMA SameRunIs ==
  ASSUME NEW h, NEW n, AreRows(h.ids, n), NEW p \in 1..n, NEW q \in 1..n, p <= q
  PROVE  /\ SameRun(h, h.ids[p], h.ids[q]) <=> Free(h.ids, h.ranges, p, q)
         /\ SameRun(h, h.ids[q], h.ids[p]) <=> Free(h.ids, h.ranges, p, q)
<1>0. n \in Nat /\ p \in Nat /\ q \in Nat
  BY DEF AreRows
<1>1. p..q \subseteq 1..n
  BY <1>0
<1>2. ASSUME NEW z \in 1..n
      PROVE  /\ z \in p..q <=> h.ids[p] <= h.ids[z] /\ h.ids[z] <= h.ids[q]
             /\ h.ids[q] <= h.ids[z] /\ h.ids[z] <= h.ids[p] => z \in p..q
  <2>1. z \in Nat
    BY <1>0
  <2>2. /\ p <= z <=> h.ids[p] <= h.ids[z]
        /\ z <= q <=> h.ids[z] <= h.ids[q]
        /\ q <= z <=> h.ids[q] <= h.ids[z]
        /\ z <= p <=> h.ids[z] <= h.ids[p]
    BY RowsAscend
  <2> QED
    BY <1>0, <2>1, <2>2
<1>3. /\ Range(h.ids) = {h.ids[z] : z \in 1..n}
      /\ \A z \in 1..n : h.ids[z] \in Gap(h) <=> ~ Covered(h.ids[z], h.ranges)
  BY GapIs
<1>4. ASSUME Free(h.ids, h.ranges, p, q)
      PROVE  SameRun(h, h.ids[p], h.ids[q]) /\ SameRun(h, h.ids[q], h.ids[p])
  BY <1>2, <1>3, <1>4 DEF Free, SameRun
<1>5. ASSUME SameRun(h, h.ids[p], h.ids[q]) \/ SameRun(h, h.ids[q], h.ids[p])
      PROVE  Free(h.ids, h.ranges, p, q)
  <2>1. ASSUME NEW z \in p..q PROVE ~ Covered(h.ids[z], h.ranges)
    <3>1. z \in 1..n
      BY <1>1
    <3>2. h.ids[z] \in Range(h.ids) /\ h.ids[p] <= h.ids[z] /\ h.ids[z] <= h.ids[q]
      BY <1>2, <1>3, <3>1
    <3> QED
      BY <1>3, <1>5, <3>1, <3>2 DEF SameRun
  <2> QED
    BY <2>1 DEF Free
<1> QED
  BY <1>4, <1>5

\* A run from a position on: nothing before it is in it.
LEMMA RunBegins ==
  ASSUME NEW h, NEW n, AreRows(h.ids, n), NEW a \in 1..n, Begins(h.ids, h.ranges, a),
         NEW z \in 1..n, NEW q \in a..n, z <= q, Free(h.ids, h.ranges, z, q)
  PROVE  a <= z
<1>1. n \in Nat /\ a \in Nat /\ z \in Nat /\ q \in Nat
  BY DEF AreRows
<1>2. SUFFICES ASSUME z < a PROVE FALSE
  BY <1>1
<1>3. a # 1 /\ a - 1 \in z..q
  BY <1>1, <1>2
<1> QED
  BY <1>3 DEF Begins, Free

\* The rank of an id is its place in its run.
LEMMA RankIs ==
  ASSUME NEW h, NEW n, AreRows(h.ids, n), NEW a \in 1..n, Begins(h.ids, h.ranges, a),
         NEW q \in a..n, Free(h.ids, h.ranges, a, q)
  PROVE  Rank(h, h.ids[q]) = q - a + 1
<1> DEFINE run == {j \in Gap(h) : j <= h.ids[q] /\ SameRun(h, j, h.ids[q])}
           at == [z \in a..q |-> h.ids[z]]
<1>0. n \in Nat /\ a \in Nat /\ q \in Nat /\ q \in 1..n /\ a..q \subseteq 1..n
  BY DEF AreRows
<1>1. ASSUME NEW z \in 1..n
      PROVE  h.ids[z] \in run <=> z \in a..q
  <2>1. z \in Nat /\ (z <= q <=> h.ids[z] <= h.ids[q])
    BY <1>0, RowsAscend
  <2>2. ASSUME h.ids[z] \in run PROVE z \in a..q
    <3>1. z <= q /\ SameRun(h, h.ids[z], h.ids[q])
      BY <2>1, <2>2
    <3>2. Free(h.ids, h.ranges, z, q)
      BY <1>0, <3>1, SameRunIs
    <3>3. a <= z
      BY <1>0, <3>1, <3>2, RunBegins
    <3> QED
      BY <1>0, <2>1, <3>1, <3>3
  <2>3. ASSUME z \in a..q PROVE h.ids[z] \in run
    <3>1. z <= q /\ \A y \in z..q : y \in a..q
      BY <1>0, <2>1, <2>3
    <3>2. Free(h.ids, h.ranges, z, q) /\ ~ Covered(h.ids[z], h.ranges)
      BY <2>3, <3>1 DEF Free
    <3>3. SameRun(h, h.ids[z], h.ids[q])
      BY <1>0, <3>1, <3>2, SameRunIs
    <3>4. h.ids[z] \in Gap(h)
      BY <3>2, GapIs
    <3> QED
      BY <2>1, <3>1, <3>3, <3>4
  <2> QED
    BY <2>2, <2>3
<1>2. \A i \in run : \E z \in a..q : i = h.ids[z]
  <2>1. \A i \in run : \E z \in 1..n : i = h.ids[z]
    BY GapIs
  <2> QED
    BY <1>1, <2>1
<1>3. \A z \in a..q : at[z] = h.ids[z] /\ at[z] \in run
  BY <1>0, <1>1
<1> HIDE DEF run
<1>4. at \in [a..q -> run] /\ DOMAIN at = a..q
  BY <1>3
<1> HIDE DEF at
<1>5. ASSUME NEW y \in a..q, NEW z \in a..q, at[y] = at[z] PROVE y = z
  <2>1. y \in 1..n /\ z \in 1..n /\ y \in Nat /\ z \in Nat /\ h.ids[y] = h.ids[z]
    BY <1>0, <1>3, <1>5
  <2>2. (y < z <=> h.ids[y] < h.ids[z]) /\ (z < y <=> h.ids[z] < h.ids[y]) /\ h.ids[y] \in Nat
    BY <2>1, RowsAscend
  <2> QED
    BY <2>1, <2>2
<1>6. \A i \in run : \E z \in a..q : at[z] = i
  BY <1>2, <1>3
<1>7. at \in Bijection(a..q, run)
  BY <1>4, <1>5, <1>6 DEF Bijection, Injection, Surjection, IsInjective
<1>8. IsFiniteSet(a..q) /\ Cardinality(a..q) = q - a + 1
  <2>1. a \in Int /\ q \in Int /\ ~ (a > q)
    BY <1>0
  <2>2. IsFiniteSet(a..q) /\ Cardinality(a..q) = IF a > q THEN 0 ELSE q - a + 1
    BY <2>1, FS_Interval
  <2> QED
    BY <2>1, <2>2
<1>9. Cardinality(run) = q - a + 1
  BY <1>7, <1>8, FS_Bijection DEF ExistsBijection
<1> QED
  BY <1>9 DEF Rank, run

\* The chunk of an id in a window are the ids of the window.
LEMMA ChunkIs ==
  ASSUME NEW h, NEW n, AreRows(h.ids, n), NEW x \in 1..n, NEW y \in 1..n,
         IsWindow(h.ids, h.ranges, n, x, y), NEW p \in x..y
  PROVE  /\ Chunk(h, h.ids[p]) = {h.ids[z] : z \in x..y}
         /\ h.ids[p] \in Gap(h)
<1>0. n \in Nat /\ x \in Nat /\ y \in Nat /\ p \in Nat /\ p \in 1..n /\ Window \in Nat /\ Window # 0
  BY WindowAssumption DEF AreRows
<1>1. PICK a \in 1..x, c \in Nat :
        Begins(h.ids, h.ranges, a) /\ Free(h.ids, h.ranges, a, y) /\ x = a + c * Window
  BY DEF IsWindow
<1>2. a \in 1..n /\ a \in Nat /\ c * Window \in Nat /\ (c + 1) * Window = c * Window + Window
  <2>1. a \in 1..n /\ a \in Nat
    BY <1>0
  <2> QED
    BY <1>0, <2>1, Multiples
<1>3. ASSUME NEW z \in a..y
      PROVE  /\ z \in 1..n /\ z \in Nat /\ h.ids[z] \in Gap(h)
             /\ Rank(h, h.ids[z]) - 1 = z - a /\ z - a \in Nat
  <2>1. z \in 1..n /\ z \in Nat /\ z \in a..n /\ z - a \in Nat /\ \A w \in a..z : w \in a..y
    BY <1>0, <1>2
  <2>2. Free(h.ids, h.ranges, a, z) /\ ~ Covered(h.ids[z], h.ranges)
    BY <1>1, <2>1 DEF Free
  <2>3. Rank(h, h.ids[z]) = z - a + 1
    BY <1>1, <1>2, <2>1, <2>2, RankIs
  <2>4. h.ids[z] \in Gap(h)
    BY <2>1, <2>2, GapIs
  <2> QED
    BY <1>2, <2>1, <2>3, <2>4
<1>4. ASSUME NEW z \in x..y
      PROVE  /\ z \in a..y /\ (Rank(h, h.ids[z]) - 1) \div Window = c
  <2>1. z \in a..y /\ z - a \in Nat /\ c * Window <= z - a /\ z - a < (c + 1) * Window
    <3>1. z \in Nat /\ x <= z /\ z <= y /\ y < x + Window
      BY <1>0 DEF IsWindow
    <3> QED
      BY <1>0, <1>1, <1>2, <3>1
  <2>2. (z - a) \div Window = c
    BY <1>0, <1>1, <2>1, QuotientIs
  <2> QED
    BY <1>3, <2>1, <2>2
<1>5. p \in a..y /\ h.ids[p] \in Gap(h)
  BY <1>3, <1>4
<1>6. ASSUME NEW z \in 1..n
      PROVE  h.ids[z] \in Chunk(h, h.ids[p]) <=> z \in x..y
  <2>0. z \in Nat
    BY <1>0
  <2>1. ASSUME z \in x..y PROVE h.ids[z] \in Chunk(h, h.ids[p])
    <3>1. h.ids[z] \in Gap(h)
      BY <1>3, <1>4, <2>1
    <3>2. (Rank(h, h.ids[z]) - 1) \div Window = (Rank(h, h.ids[p]) - 1) \div Window
      BY <1>4, <2>1
    <3>3. SameRun(h, h.ids[p], h.ids[z])
      <4>1. \A w : w \in p..z \/ w \in z..p => w \in a..y
        BY <1>0, <1>2, <2>0, <2>1
      <4>2. Free(h.ids, h.ranges, p, z) /\ Free(h.ids, h.ranges, z, p)
        BY <1>1, <4>1 DEF Free
      <4>3. p <= z \/ z <= p
        BY <1>0, <2>0
      <4> QED
        BY <1>0, <4>2, <4>3, SameRunIs
    <3> QED
      BY <3>1, <3>2, <3>3 DEF Chunk
  <2>2. ASSUME h.ids[z] \in Chunk(h, h.ids[p]) PROVE z \in x..y
    <3>1. /\ SameRun(h, h.ids[p], h.ids[z])
          /\ (Rank(h, h.ids[z]) - 1) \div Window = (Rank(h, h.ids[p]) - 1) \div Window
      BY <2>2 DEF Chunk
    <3>2. (Rank(h, h.ids[z]) - 1) \div Window = c
      BY <1>4, <3>1
    <3>3. CASE z <= p
      <4>1. Free(h.ids, h.ranges, z, p)
        BY <1>0, <3>1, <3>3, SameRunIs
      <4>2. a <= z
        <5>1. p \in a..n
          BY <1>0, <1>2, <1>5
        <5> QED
          BY <1>0, <1>1, <1>2, <3>3, <4>1, <5>1, RunBegins
      <4>3. z \in a..y
        BY <1>0, <1>2, <2>0, <3>3, <4>2
      <4>4. (z - a) \div Window = c /\ z - a \in Nat
        BY <1>3, <3>2, <4>3
      <4>5. c * Window <= z - a
        BY <1>0, <4>4, QuotientBounds
      <4>6. x <= z
        BY <1>0, <1>1, <1>2, <2>0, <4>5
      <4> QED
        BY <1>0, <2>0, <4>3, <4>6
    <3>4. CASE p < z
      <4>0. p <= z
        BY <1>0, <2>0, <3>4
      <4>1. Free(h.ids, h.ranges, p, z)
        BY <1>0, <3>1, <4>0, SameRunIs
      <4>2. ASSUME z > y PROVE FALSE
        <5>1. y # n /\ y + 1 \in p..z
          BY <1>0, <2>0, <4>2
        <5>2. ~ Covered(h.ids[y + 1], h.ranges)
          BY <4>1, <5>1 DEF Free
        <5>3. y = x + Window - 1
          BY <5>1, <5>2 DEF IsWindow
        <5>4. Free(h.ids, h.ranges, a, z)
          <6>1. \A w \in a..z : w \in a..y \/ w \in p..z
            BY <1>0, <1>2, <2>0
          <6> QED
            BY <1>1, <4>1, <6>1 DEF Free
        <5>5. z \in a..n
          BY <1>0, <1>2, <2>0, <3>4
        <5>6. Rank(h, h.ids[z]) = z - a + 1
          BY <1>1, <1>2, <5>4, <5>5, RankIs
        <5>7. z - a \in Nat /\ (z - a) \div Window = c
          <6>1. z - a \in Nat /\ (z - a + 1) - 1 = z - a
            BY <1>2, <2>0, <5>5
          <6> QED
            BY <3>2, <5>6, <6>1
        <5>8. z - a < (c + 1) * Window
          BY <1>0, <5>7, QuotientBounds
        <5> QED
          BY <1>0, <1>1, <1>2, <2>0, <4>2, <5>3, <5>8
      <4> QED
        BY <1>0, <2>0, <3>4, <4>2
    <3> QED
      BY <1>0, <2>0, <3>3, <3>4
  <2> QED
    BY <2>1, <2>2
<1>7. \A i \in Chunk(h, h.ids[p]) : \E z \in 1..n : i = h.ids[z]
  BY GapIs DEF Chunk
<1>8. x..y \subseteq 1..n
  BY <1>0
<1>9. Chunk(h, h.ids[p]) = {h.ids[z] : z \in x..y}
  BY <1>6, <1>7, <1>8
<1> QED
  BY <1>5, <1>9

\* What the declarative definition has for an id in a window is the window.
LEMMA WindowOfId ==
  ASSUME NEW h, NEW n, AreRows(h.ids, n), NEW x \in 1..n, NEW y \in 1..n,
         IsWindow(h.ids, h.ranges, n, x, y), NEW p \in x..y
  PROVE  /\ <<Min(Chunk(h, h.ids[p])), Max(Chunk(h, h.ids[p]))>> = <<h.ids[x], h.ids[y]>>
         /\ h.ids[p] \in Gap(h)
<1> DEFINE C == Chunk(h, h.ids[p])
<1>0. n \in Nat /\ x \in Nat /\ y \in Nat /\ x <= y /\ x \in x..y /\ y \in x..y
  BY DEF AreRows, IsWindow
<1>1. C = {h.ids[z] : z \in x..y} /\ h.ids[p] \in Gap(h)
  BY ChunkIs
<1>2. ASSUME NEW i \in C PROVE i \in Nat /\ h.ids[x] <= i /\ i <= h.ids[y]
  <2>1. PICK z \in x..y : i = h.ids[z]
    BY <1>1
  <2>2. z \in 1..n /\ x <= z /\ z <= y
    BY <1>0
  <2> QED
    BY <2>1, <2>2, RowsAscend
<1>3. h.ids[x] \in C /\ h.ids[y] \in C
  BY <1>0, <1>1
<1> HIDE DEF C
<1>4. Min(C) \in C /\ \A i \in C : Min(C) <= i
  <2>1. \E i \in C : \A j \in C : i <= j
    BY <1>2, <1>3
  <2> QED
    BY <2>1 DEF Min
<1>5. Max(C) \in C /\ \A i \in C : Max(C) >= i
  <2>1. \E i \in C : \A j \in C : i >= j
    BY <1>2, <1>3
  <2> QED
    BY <2>1 DEF Max
<1>6. Min(C) = h.ids[x]
  <2>1. PICK i \in C : i = Min(C)
    BY <1>4
  <2>2. i <= h.ids[x] /\ h.ids[x] <= i /\ i \in Nat /\ h.ids[x] \in Nat
    BY <1>2, <1>3, <1>4, <2>1
  <2> QED
    BY <2>1, <2>2
<1>7. Max(C) = h.ids[y]
  <2>1. PICK i \in C : i = Max(C)
    BY <1>5
  <2>2. i <= h.ids[y] /\ h.ids[y] <= i /\ i \in Nat /\ h.ids[y] \in Nat
    BY <1>2, <1>3, <1>5, <2>1
  <2> QED
    BY <2>1, <2>2
<1> QED
  BY <1>1, <1>6, <1>7 DEF C

\* Windows in order are the windows of the declarative definition, each once.
LEMMA ReferenceIs ==
  ASSUME NEW h, NEW n, AreRows(h.ids, n), NEW w, AreWindows(h.ids, h.ranges, n, w, n)
  PROVE  Range(w) = Reference(h) /\ Len(w) = Cardinality(Reference(h))
<1>0. n \in Nat /\ w \in Seq(Nat \X Nat) /\ Len(w) \in Nat /\ DOMAIN w = 1..Len(w)
  BY DEF AreRows, AreWindows
<1>1. ASSUME NEW c \in 1..Len(w)
      PROVE  /\ w[c] \in Reference(h)
             /\ w[c][1] \in Nat /\ w[c][2] \in Nat /\ w[c][1] <= w[c][2]
  <2>1. PICK x \in 1..n, y \in 1..n :
          IsWindow(h.ids, h.ranges, n, x, y) /\ w[c] = <<h.ids[x], h.ids[y]>>
    BY DEF AreWindows
  <2>2. x <= y /\ x \in x..y
    BY <1>0, <2>1 DEF IsWindow
  <2>3. w[c] \in Reference(h)
    <3>1. /\ <<Min(Chunk(h, h.ids[x])), Max(Chunk(h, h.ids[x]))>> = w[c]
          /\ h.ids[x] \in Gap(h)
      BY <2>1, <2>2, WindowOfId
    <3> QED
      BY <3>1 DEF Reference
  <2>4. h.ids[x] \in Nat /\ h.ids[y] \in Nat /\ h.ids[x] <= h.ids[y]
    BY <2>2, RowsAscend
  <2> QED
    BY <2>1, <2>3, <2>4
<1>2. ASSUME NEW i \in Gap(h)
      PROVE  \E c \in 1..Len(w) : w[c] = <<Min(Chunk(h, i)), Max(Chunk(h, i))>>
  <2>1. PICK p \in 1..n : i = h.ids[p] /\ ~ Covered(h.ids[p], h.ranges)
    BY GapIs
  <2>2. PICK c \in 1..Len(w) : In(h.ids[p], w[c])
    BY <2>1 DEF AreWindows
  <2>3. PICK x \in 1..n, y \in 1..n :
          IsWindow(h.ids, h.ranges, n, x, y) /\ w[c] = <<h.ids[x], h.ids[y]>>
    BY DEF AreWindows
  <2>4. h.ids[x] <= h.ids[p] /\ h.ids[p] <= h.ids[y]
    BY <2>2, <2>3 DEF In
  <2>5. x <= p /\ p <= y
    BY <2>4, RowsAscend
  <2>6. p \in x..y
    BY <1>0, <2>5
  <2> QED
    BY <2>1, <2>3, <2>6, WindowOfId
<1>3. \A r \in Reference(h) : \E c \in 1..Len(w) : w[c] = r
  BY <1>2 DEF Reference
<1>4. Range(w) = Reference(h)
  BY <1>0, <1>1, <1>3 DEF Range
<1>5. ASSUME NEW c \in 1..Len(w), NEW d \in 1..Len(w), w[c] = w[d] PROVE c = d
  <2>1. \A e, f \in 1..Len(w) : e < f => w[e][2] < w[f][1]
    BY DEF AreWindows
  <2>2. c < d \/ d < c \/ c = d
    BY <1>0
  <2>3. w[c][1] \in Nat /\ w[c][2] \in Nat /\ w[c][1] <= w[c][2]
    BY <1>1
  <2>4. ~ (w[c][2] < w[c][1])
    BY <2>3
  <2> QED
    BY <1>5, <2>1, <2>2, <2>4
<1>6. w \in [1..Len(w) -> Reference(h)]
  BY <1>0, <1>1
<1>7. w \in Bijection(1..Len(w), Reference(h))
  BY <1>0, <1>3, <1>5, <1>6 DEF Bijection, Injection, Surjection, IsInjective
<1>8. IsFiniteSet(1..Len(w)) /\ Cardinality(1..Len(w)) = Len(w)
  <2>1. PICK l \in Nat : l = Len(w)
    BY <1>0
  <2>2. 1 \in Int /\ l \in Int
    BY <2>1
  <2>3. IsFiniteSet(1..l) /\ Cardinality(1..l) = IF 1 > l THEN 0 ELSE l - 1 + 1
    BY <2>2, FS_Interval
  <2>4. IsFiniteSet(1..l) /\ Cardinality(1..l) = l
    BY <2>1, <2>3
  <2> QED
    BY <2>1, <2>4
<1>9. Cardinality(Reference(h)) = Len(w)
  BY <1>7, <1>8, FS_Bijection DEF ExistsBijection
<1> QED
  BY <1>4, <1>9

\* The rows of a query are its ids.
LEMMA AscendingAreRows ==
  ASSUME NEW S \in SUBSET Nat, IsFiniteSet(S)
  PROVE  /\ AreRows(Ascending(S), Cardinality(S))
         /\ \A i : i \in S <=> \E p \in 1..Cardinality(S) : Ascending(S)[p] = i
<1>1. /\ Cardinality(S) \in Nat /\ Ascending(S) \in [1..Cardinality(S) -> S]
      /\ \A i \in S : \E p \in 1..Cardinality(S) : Ascending(S)[p] = i
      /\ \A p, q \in 1..Cardinality(S) : p < q => Ascending(S)[p] < Ascending(S)[q]
  BY AscendingIs
<1>2. Ascending(S) \in [1..Cardinality(S) -> Nat]
  BY <1>1
<1> QED
  BY <1>1, <1>2 DEF AreRows

\* The windows are exactly the gaps, for every history and every size of a window.
LEMMA GapsAreExact == WindowsAreExactlyTheGaps
<1>1. ASSUME NEW h \in Histories
      PROVE  LET windows == ComputeBackfillWindows(h.ids, h.ranges)
                 exact   == Reference(h)
             IN  Range(windows) = exact /\ Len(windows) = Cardinality(exact)
  <2>1. PICK S \in SUBSET (1..MaxId) : h.ids = Ascending(S)
    BY DEF Histories
  <2>2. S \in SUBSET Nat /\ IsFiniteSet(S)
    <3>1. MaxId \in Nat /\ 1 \in Int /\ MaxId \in Int
      BY Assumptions
    <3>2. IsFiniteSet(1..MaxId)
      BY <3>1, FS_Interval
    <3>3. IsFiniteSet(S)
      BY <3>2, FS_Subset
    <3>4. \A s \in S : s \in 1..MaxId /\ s \in Nat
      BY <3>1
    <3> QED
      BY <3>3, <3>4
  <2>3. AreRows(h.ids, Cardinality(S))
    BY <2>1, <2>2, AscendingAreRows
  <2>4. AreWindows(h.ids, h.ranges, Cardinality(S), ComputeBackfillWindows(h.ids, h.ranges),
                   Cardinality(S))
    BY <2>3, WindowsAre
  <2> QED
    BY <2>3, <2>4, ReferenceIs
<1> QED
  BY <1>1 DEF WindowsAreExactlyTheGaps

(* That no producer repeats itself. *)

Kinds     == {"dialogue", "tool", "other"}
Producers == {"live", "reconcile", "backfill"}

\* The types that the ranges need; whoever has recorded a job has its range in hand.
RangeTypes ==
  /\ kinds \in Seq(Kinds) /\ todo \in Seq(Kinds) /\ exchange \in Seq(Nat)
  /\ gaps \in Seq(Nat \X Nat) /\ batch \in Seq(Nat \X Nat)
  /\ coverage \subseteq Nat \X Nat \X Producers
  /\ turn = "cover" => exchange # <<>>
  /\ rec \in {"enqueue", "cover"} => gaps # <<>>
  /\ fill \in {"enqueue", "cover"} => batch # <<>>

\* No range is ahead of the table, and the ranges one producer covered have no
\* message in common.
CoveredIsPast == \A j \in coverage : j[2] <= Len(kinds)
CoveredOnce   == \A j, k \in coverage : j # k /\ j[3] = k[3] => ~ Share(j, k)

\* The messages of the exchange are later than all that was captured live.
ExchangeIsNew ==
  /\ \A m \in 1..Len(exchange) : exchange[m] \in 1..Len(kinds)
  /\ \A l, m \in 1..Len(exchange) : l < m => exchange[l] < exchange[m]
  /\ \A j \in coverage : j[3] = "live" => \A m \in 1..Len(exchange) : j[2] < exchange[m]

\* The windows in a producer's hand are apart from each other and from what it
\* covered before.
AreNew(windows, source) ==
  /\ \A c \in 1..Len(windows) :
       /\ windows[c][2] <= Len(kinds)
       /\ \A j \in coverage : j[3] = source => ~ Share(j, windows[c])
  /\ \A c, d \in 1..Len(windows) : c < d => windows[c][2] < windows[d][1]
GapsAreNew  == AreNew(gaps, "reconcile")
BatchIsNew  == AreNew(batch, "backfill")

RangeIInv == RangeTypes /\ CoveredIsPast /\ CoveredOnce /\ ExchangeIsNew /\ GapsAreNew /\ BatchIsNew

\* The key of a range.
LEMMA KeyIs ==
  ASSUME NEW a \in Nat, NEW b \in Nat, NEW source \in Producers
  PROVE  /\ Append(<<a, b>>, source) = <<a, b, source>>
         /\ <<a, b, source>> \in Nat \X Nat \X Producers
<1> DEFINE T == Nat \cup Producers
<1>0. <<a, b>> \in Seq(T) /\ Len(<<a, b>>) = 2 /\ source \in T
  OBVIOUS
<1>1. /\ Append(<<a, b>>, source) \in Seq(T) /\ Len(Append(<<a, b>>, source)) = 3
      /\ Append(<<a, b>>, source)[1] = a /\ Append(<<a, b>>, source)[2] = b
      /\ Append(<<a, b>>, source)[3] = source
  BY <1>0
<1>2. /\ <<a, b, source>> \in Seq(T) /\ Len(<<a, b, source>>) = 3
  OBVIOUS
<1>3. \A s, t \in Seq(T) : /\ Len(s) = 3 /\ Len(t) = 3
                          /\ s[1] = t[1] /\ s[2] = t[2] /\ s[3] = t[3] => s = t
  OBVIOUS
<1>4. Append(<<a, b>>, source) = <<a, b, source>>
  BY <1>1, <1>2, <1>3
<1> QED
  BY <1>4

\* What appending a message to the table leaves as it was.
LEMMA TableGrows ==
  ASSUME kinds \in Seq(Kinds), kinds' = kinds \/ \E k \in Kinds : kinds' = Append(kinds, k)
  PROVE  /\ kinds' \in Seq(Kinds) /\ Len(kinds') \in Nat /\ Len(kinds) \in Nat
         /\ Len(kinds) <= Len(kinds')
         /\ DOMAIN kinds = 1..Len(kinds) /\ DOMAIN kinds' = 1..Len(kinds')
         /\ \A i \in 1..Len(kinds) : kinds'[i] = kinds[i]
<1>1. CASE kinds' = kinds
  BY <1>1
<1>2. CASE \E k \in Kinds : kinds' = Append(kinds, k)
  BY <1>2
<1> QED
  BY <1>1, <1>2

\* A message that comes later is in none of the ranges.
LEMMA StaysApart ==
  ASSUME kinds \in Seq(Kinds), kinds' = kinds \/ \E k \in Kinds : kinds' = Append(kinds, k),
         NEW j, NEW k, j[2] \in Nat, j[2] <= Len(kinds), ~ Share(j, k)
  PROVE  ~ Share(j, k)'
<1>1. /\ DOMAIN kinds = 1..Len(kinds) /\ DOMAIN kinds' = 1..Len(kinds')
      /\ Len(kinds) \in Nat /\ Len(kinds') \in Nat
      /\ \A i \in 1..Len(kinds) : kinds'[i] = kinds[i]
  BY TableGrows
<1>2. ASSUME NEW i \in DOMAIN kinds', kinds'[i] = "dialogue", In(i, j), In(i, k)
      PROVE  FALSE
  <2>1. i \in 1..Len(kinds)
    <3>1. PICK l \in Nat, m \in Nat : l = Len(kinds) /\ m = Len(kinds')
      BY <1>1
    <3>2. i \in 1..m /\ j[2] <= l
      BY <1>1, <1>2, <3>1
    <3>3. i <= j[2]
      BY <1>2 DEF In
    <3>4. i \in 1..l
      BY <3>2, <3>3
    <3> QED
      BY <3>1, <3>4
  <2> QED
    BY <1>1, <1>2, <2>1 DEF Share, Dialogue
<1> QED
  BY <1>2 DEF Share, Dialogue

\* While no range is covered, what the others have in hand stays new.
LEMMA OthersStayNew ==
  ASSUME RangeIInv, coverage' = coverage,
         kinds' = kinds \/ \E k \in Kinds : kinds' = Append(kinds, k)
  PROVE  /\ kinds' \in Seq(Kinds) /\ CoveredIsPast' /\ CoveredOnce'
         /\ exchange' = exchange => ExchangeIsNew'
         /\ gaps' = gaps => GapsAreNew'
         /\ batch' = batch => BatchIsNew'
<1>0. kinds \in Seq(Kinds) /\ coverage \subseteq Nat \X Nat \X Producers
  BY DEF RangeIInv, RangeTypes
<1>1. /\ kinds' \in Seq(Kinds) /\ Len(kinds') \in Nat /\ Len(kinds) \in Nat
      /\ Len(kinds) <= Len(kinds')
  BY <1>0, TableGrows
<1>2. \A j \in coverage : j[2] \in Nat /\ j[2] <= Len(kinds)
  BY <1>0 DEF RangeIInv, CoveredIsPast
<1>3. CoveredIsPast'
  BY <1>1, <1>2 DEF CoveredIsPast
<1>4. CoveredOnce'
  <2>1. ASSUME NEW j \in coverage, NEW k \in coverage, j # k, j[3] = k[3]
        PROVE  ~ Share(j, k)'
    <3>1. ~ Share(j, k)
      BY <2>1 DEF RangeIInv, CoveredOnce
    <3> QED
      BY <1>0, <1>2, <3>1, StaysApart
  <2> QED
    BY <2>1 DEF CoveredOnce
<1>5. ASSUME exchange' = exchange PROVE ExchangeIsNew'
  <2>1. 1..Len(kinds) \subseteq 1..Len(kinds')
    BY <1>1
  <2> QED
    BY <1>5, <2>1 DEF RangeIInv, ExchangeIsNew
<1>6. ASSUME NEW w \in Seq(Nat \X Nat), NEW source, AreNew(w, source)
      PROVE  /\ \A c \in 1..Len(w) :
                  /\ w[c][2] <= Len(kinds')
                  /\ \A j \in coverage : j[3] = source => ~ Share(j, w[c])'
             /\ \A c, d \in 1..Len(w) : c < d => w[c][2] < w[d][1]
  <2>1. ASSUME NEW c \in 1..Len(w)
        PROVE  /\ w[c][2] <= Len(kinds')
               /\ \A j \in coverage : j[3] = source => ~ Share(j, w[c])'
    <3>1. w[c] \in Nat \X Nat /\ w[c][2] <= Len(kinds)
      BY <1>6 DEF AreNew
    <3>2. w[c][2] <= Len(kinds')
      BY <1>1, <3>1
    <3>3. ASSUME NEW j \in coverage, j[3] = source PROVE ~ Share(j, w[c])'
      <4>1. ~ Share(j, w[c])
        BY <1>6, <3>3 DEF AreNew
      <4> QED
        BY <1>0, <1>2, <4>1, StaysApart
    <3> QED
      BY <3>2, <3>3
  <2> QED
    BY <1>6, <2>1 DEF AreNew
<1>7. ASSUME gaps' = gaps PROVE GapsAreNew'
  <2>1. gaps \in Seq(Nat \X Nat) /\ AreNew(gaps, "reconcile")
    BY DEF RangeIInv, RangeTypes, GapsAreNew
  <2> QED
    BY <1>6, <1>7, <2>1 DEF GapsAreNew, AreNew
<1>8. ASSUME batch' = batch PROVE BatchIsNew'
  <2>1. batch \in Seq(Nat \X Nat) /\ AreNew(batch, "backfill")
    BY DEF RangeIInv, RangeTypes, BatchIsNew
  <2> QED
    BY <1>6, <1>8, <2>1 DEF BatchIsNew, AreNew
<1> QED
  BY <1>1, <1>3, <1>4, <1>5, <1>7, <1>8

\* The windows of a query that returned every dialogue message from its first on are new.
LEMMA WindowsAreNew ==
  ASSUME RangeIInv, NEW S \in SUBSET (DOMAIN kinds), NEW source,
         \A i \in S : \A d \in DOMAIN kinds : i <= d /\ Dialogue(d) => d \in S
  PROVE  /\ ComputeBackfillWindows(Ascending(S), coverage) \in Seq(Nat \X Nat)
         /\ AreNew(ComputeBackfillWindows(Ascending(S), coverage), source)
<1> DEFINE w == ComputeBackfillWindows(Ascending(S), coverage)
           ids == Ascending(S)  n == Cardinality(S)
<1>0. DOMAIN kinds = 1..Len(kinds) /\ Len(kinds) \in Nat
  BY DEF RangeIInv, RangeTypes
<1>1. S \in SUBSET Nat /\ IsFiniteSet(S)
  <2>1. PICK l \in Nat : l = Len(kinds)
    BY <1>0
  <2>2. 1 \in Int /\ l \in Int
    BY <2>1
  <2>3. IsFiniteSet(1..l)
    BY <2>2, FS_Interval
  <2>4. S \in SUBSET (1..l)
    BY <1>0, <2>1
  <2>5. IsFiniteSet(S)
    BY <2>3, <2>4, FS_Subset
  <2> QED
    BY <2>4, <2>5
<1>2. AreRows(ids, n) /\ \A i : i \in S <=> \E p \in 1..n : ids[p] = i
  BY <1>1, AscendingAreRows
<1>3. AreWindows(ids, coverage, n, w, n)
  BY <1>2, WindowsAre
<1>4. w \in Seq(Nat \X Nat) /\ \A c, d \in 1..Len(w) : c < d => w[c][2] < w[d][1]
  BY <1>3 DEF AreWindows
<1> HIDE DEF w, ids, n
<1>5. ASSUME NEW c \in 1..Len(w)
      PROVE  w[c][2] <= Len(kinds) /\ \A j \in coverage : ~ Share(j, w[c])
  <2>1. PICK x \in 1..n, y \in 1..n :
          IsWindow(ids, coverage, n, x, y) /\ w[c] = <<ids[x], ids[y]>>
    BY <1>3 DEF AreWindows
  <2>2. ids[x] \in S /\ ids[y] \in S /\ ids[y] <= Len(kinds) /\ n \in Nat
    BY <1>0, <1>2 DEF AreRows
  <2>3. ASSUME NEW j \in coverage, Share(j, w[c]) PROVE FALSE
    <3>1. PICK i \in DOMAIN kinds : Dialogue(i) /\ In(i, j) /\ In(i, w[c])
      BY <2>3 DEF Share
    <3>2. ids[x] <= i /\ i <= ids[y]
      BY <2>1, <3>1 DEF In
    <3>3. i \in S
      BY <2>2, <3>1, <3>2
    <3>4. PICK p \in 1..n : ids[p] = i
      BY <1>2, <3>3
    <3>5. x <= p /\ p <= y
      BY <1>2, <3>2, <3>4, RowsAscend
    <3>6. PICK a \in 1..x : Free(ids, coverage, a, y)
      BY <2>1 DEF IsWindow
    <3>7. p \in a..y
      BY <2>2, <3>5
    <3>8. ~ Covered(i, coverage)
      BY <3>4, <3>6, <3>7 DEF Free
    <3> QED
      BY <3>1, <3>8 DEF Covered
  <2> QED
    BY <2>1, <2>2, <2>3
<1>6. AreNew(w, source)
  BY <1>4, <1>5 DEF AreNew
<1> QED
  BY <1>4, <1>6 DEF w, ids

\* A producer that covers a range it has in hand covers nothing it had covered.
LEMMA CoversOnce ==
  ASSUME RangeIInv, NEW key \in Nat \X Nat \X Producers,
         coverage' = coverage \cup {key}, kinds' = kinds,
         key[2] <= Len(kinds),
         \A j \in coverage : j[3] = key[3] => ~ Share(j, key)
  PROVE  /\ coverage' \subseteq Nat \X Nat \X Producers /\ CoveredIsPast' /\ CoveredOnce'
         /\ key[3] # "live" /\ exchange' = exchange => ExchangeIsNew'
         /\ key[3] # "reconcile" /\ gaps' = gaps => GapsAreNew'
         /\ key[3] # "backfill" /\ batch' = batch => BatchIsNew'
<1>0. coverage \subseteq Nat \X Nat \X Producers
  BY DEF RangeIInv, RangeTypes
<1>1. coverage' \subseteq Nat \X Nat \X Producers /\ CoveredIsPast'
  BY <1>0 DEF RangeIInv, CoveredIsPast
<1>2. \A j, k : Share(j, k)' <=> Share(j, k)
  BY DEF Share, Dialogue
<1>3. CoveredOnce'
  <2>1. ASSUME NEW j \in coverage', NEW k \in coverage', j # k, j[3] = k[3]
        PROVE  ~ Share(j, k)
    <3>1. CASE j \in coverage /\ k \in coverage
      BY <2>1, <3>1 DEF RangeIInv, CoveredOnce
    <3>2. CASE j = key /\ k \in coverage
      <4>1. ~ Share(k, j)
        BY <2>1, <3>2
      <4> QED
        BY <4>1 DEF Share
    <3>3. CASE k = key /\ j \in coverage
      BY <2>1, <3>3
    <3> QED
      BY <2>1, <3>1, <3>2, <3>3
  <2> QED
    BY <1>2, <2>1 DEF CoveredOnce
<1>4. ASSUME key[3] # "live", exchange' = exchange PROVE ExchangeIsNew'
  BY <1>4 DEF RangeIInv, ExchangeIsNew
<1>5. ASSUME key[3] # "reconcile", gaps' = gaps PROVE GapsAreNew'
  BY <1>2, <1>5 DEF RangeIInv, GapsAreNew, AreNew
<1>6. ASSUME key[3] # "backfill", batch' = batch PROVE BatchIsNew'
  BY <1>2, <1>6 DEF RangeIInv, BatchIsNew, AreNew
<1> QED
  BY <1>1, <1>3, <1>4, <1>5, <1>6

LEMMA RangesInit == Init => RangeIInv
<1> SUFFICES ASSUME Init PROVE RangeIInv
  OBVIOUS
<1>1. /\ kinds = <<>> /\ coverage = {} /\ todo = <<>> /\ exchange = <<>>
      /\ gaps = <<>> /\ batch = <<>>
      /\ turn = "idle" /\ rec = "idle" /\ fill = "idle"
  BY DEF Init
<1>2. RangeTypes
  BY <1>1 DEF RangeTypes
<1>3. Len(<<>>) = 0 /\ 1..0 = {}
  OBVIOUS
<1> QED
  BY <1>1, <1>2, <1>3 DEF RangeIInv, CoveredIsPast, CoveredOnce, ExchangeIsNew, GapsAreNew,
                          BatchIsNew, AreNew

\* What is left of the windows in hand when the first has been enqueued.
LEMMA RestIsNew ==
  ASSUME NEW w \in Seq(Nat \X Nat), w # <<>>, NEW source \in Producers, AreNew(w, source)
  PROVE  /\ Tail(w) \in Seq(Nat \X Nat) /\ AreNew(Tail(w), source)
         /\ Head(w) \in Nat \X Nat /\ Head(w)[2] <= Len(kinds)
         /\ \A j \in coverage : j[3] = source => ~ Share(j, Head(w))
         /\ \A c \in 1..Len(Tail(w)) : /\ Tail(w)[c] \in Nat \X Nat
                                       /\ Head(w)[2] < Tail(w)[c][1]
         /\ Len(w) # 1 => Tail(w) # <<>>
<1>1. /\ Tail(w) \in Seq(Nat \X Nat) /\ Len(w) \in Nat /\ Len(w) >= 1
      /\ Len(Tail(w)) = Len(w) - 1 /\ Head(w) = w[1] /\ w[1] \in Nat \X Nat
      /\ \A c \in 1..Len(Tail(w)) : Tail(w)[c] = w[c + 1] /\ c + 1 \in 1..Len(w) /\ c \in Nat
      /\ 1 \in 1..Len(w)
  OBVIOUS
<1>2. \A c \in 1..Len(Tail(w)) : Tail(w)[c] \in Nat \X Nat
  BY <1>1
<1>3. \A c, d \in 1..Len(Tail(w)) : c < d => c + 1 < d + 1
  BY <1>1
<1>4. \A c \in 1..Len(Tail(w)) : 1 < c + 1
  BY <1>1
<1>5. Len(w) # 1 => Tail(w) # <<>>
  <2>1. PICK n \in Nat : n = Len(w)
    BY <1>1
  <2>2. ASSUME n # 1, Tail(w) = <<>> PROVE FALSE
    <3>0. Len(<<>>) = 0
      OBVIOUS
    <3>1. Len(Tail(w)) = 0
      BY <2>2, <3>0
    <3>2. n - 1 = 0
      BY <1>1, <2>1, <3>1
    <3> QED
      BY <2>2, <3>2
  <2> QED
    BY <2>1, <2>2
<1> QED
  BY <1>1, <1>2, <1>3, <1>4, <1>5 DEF AreNew

\* A window that is now covered has no message of those still in hand.
LEMMA RestStaysNew ==
  ASSUME RangeIInv, NEW w \in Seq(Nat \X Nat), w # <<>>, NEW source \in Producers,
         AreNew(w, source), NEW key, key[1] = Head(w)[1], key[2] = Head(w)[2],
         coverage' = coverage \cup {key}, kinds' = kinds
  PROVE  /\ \A c \in 1..Len(Tail(w)) :
              /\ Tail(w)[c][2] <= Len(kinds)
              /\ \A j \in coverage' : j[3] = source => ~ Share(j, Tail(w)[c])'
         /\ \A c, d \in 1..Len(Tail(w)) : c < d => Tail(w)[c][2] < Tail(w)[d][1]
<1>1. /\ AreNew(Tail(w), source) /\ Head(w) \in Nat \X Nat
      /\ \A c \in 1..Len(Tail(w)) : /\ Tail(w)[c] \in Nat \X Nat
                                    /\ Head(w)[2] < Tail(w)[c][1]
  BY RestIsNew
<1>2. \A j, k : Share(j, k)' <=> Share(j, k)
  BY DEF Share, Dialogue
<1>3. ASSUME NEW c \in 1..Len(Tail(w)) PROVE ~ Share(key, Tail(w)[c])
  <2>1. Head(w)[2] < Tail(w)[c][1] /\ Head(w)[2] \in Nat /\ Tail(w)[c][1] \in Nat
    BY <1>1
  <2>0. kinds \in Seq(Kinds)
    BY DEF RangeIInv, RangeTypes
  <2>4. DOMAIN kinds = 1..Len(kinds) /\ Len(kinds) \in Nat
    BY <2>0
  <2>2. \A i \in DOMAIN kinds : i \in Nat
    BY <2>4
  <2>3. ASSUME NEW i \in DOMAIN kinds, In(i, key), In(i, Tail(w)[c]) PROVE FALSE
    BY <2>1, <2>2, <2>3 DEF In
  <2> QED
    BY <2>3 DEF Share
<1> QED
  BY <1>1, <1>2, <1>3 DEF AreNew

(* The steps.  Those that cover nothing, by what they leave in hand. *)

LEMMA NothingCovered ==
  ASSUME RangeIInv, coverage' = coverage,
         kinds' = kinds \/ \E k \in Kinds : kinds' = Append(kinds, k),
         todo' \in Seq(Kinds),
         exchange' = exchange \/ exchange' = <<>>,
         gaps' = gaps \/ gaps' = <<>>,
         batch' = batch \/ batch' = <<>>,
         turn' = "cover" => exchange' # <<>>,
         rec' \in {"enqueue", "cover"} => gaps' # <<>>,
         fill' \in {"enqueue", "cover"} => batch' # <<>>
  PROVE  RangeIInv'
<1>0. Len(<<>>) = 0 /\ 1..0 = {} /\ <<>> \in Seq(Nat) /\ <<>> \in Seq(Nat \X Nat)
  OBVIOUS
<1>1. RangeTypes'
  BY <1>0, OthersStayNew DEF RangeIInv, RangeTypes
<1>2. CoveredIsPast' /\ CoveredOnce'
  BY OthersStayNew
<1>3. ExchangeIsNew'
  <2>1. CASE exchange' = <<>>
    BY <1>0, <2>1 DEF ExchangeIsNew
  <2> QED
    BY <2>1, OthersStayNew
<1>4. GapsAreNew'
  <2>1. CASE gaps' = <<>>
    BY <1>0, <2>1 DEF GapsAreNew, AreNew
  <2> QED
    BY <2>1, OthersStayNew
<1>5. BatchIsNew'
  <2>1. CASE batch' = <<>>
    BY <1>0, <2>1 DEF BatchIsNew, AreNew
  <2> QED
    BY <2>1, OthersStayNew
<1> QED
  BY <1>1, <1>2, <1>3, <1>4, <1>5 DEF RangeIInv

\* The mirror adds a message to the table and, if it is dialogue, to the exchange.
LEMMA ExchangeGrows ==
  ASSUME RangeIInv, coverage' = coverage, NEW k \in Kinds, kinds' = Append(kinds, k),
         exchange' = Append(exchange, Len(kinds')) \/ exchange' = <<Len(kinds')>>
  PROVE  ExchangeIsNew' /\ exchange' \in Seq(Nat) /\ exchange' # <<>>
<1>0. /\ kinds \in Seq(Kinds) /\ exchange \in Seq(Nat) /\ coverage \subseteq Nat \X Nat \X Producers
      /\ CoveredIsPast /\ ExchangeIsNew
  BY DEF RangeIInv, RangeTypes
<1>1. Len(kinds) \in Nat /\ Len(kinds') = Len(kinds) + 1 /\ Len(exchange) \in Nat
  BY <1>0
<1>2. PICK l \in Nat : l = Len(kinds) /\ l + 1 = Len(kinds')
  BY <1>1
<1>3. \A j \in coverage : j[2] \in Nat /\ j[2] < l + 1
  BY <1>0, <1>2 DEF CoveredIsPast
<1>4. CASE exchange' = <<Len(kinds')>>
  <2>1. exchange' \in Seq(Nat) /\ Len(exchange') = 1 /\ exchange' # <<>> /\ exchange'[1] = l + 1
    BY <1>2, <1>4
  <2>2. \A m \in 1..1 : m = 1
    OBVIOUS
  <2>3. \A p, m \in 1..1 : ~ (p < m)
    OBVIOUS
  <2>4. l + 1 \in 1..(l + 1)
    BY <1>2
  <2> QED
    BY <1>2, <1>3, <2>1, <2>2, <2>3, <2>4 DEF ExchangeIsNew
<1>5. CASE exchange' = Append(exchange, Len(kinds'))
  <2>1. /\ exchange' \in Seq(Nat) /\ Len(exchange') = Len(exchange) + 1 /\ exchange' # <<>>
        /\ \A m \in 1..(Len(exchange) + 1) :
             exchange'[m] = IF m = Len(exchange) + 1 THEN l + 1 ELSE exchange[m]
    BY <1>0, <1>2, <1>5
  <2>2. PICK e \in Nat : e = Len(exchange)
    BY <1>1
  <2>3. \A m \in 1..(e + 1) : m = e + 1 \/ m \in 1..e
    BY <2>2
  <2>4. \A m \in 1..e : exchange[m] \in 1..l /\ exchange[m] \in Nat /\ exchange[m] < l + 1
    BY <1>0, <1>2, <2>2 DEF ExchangeIsNew
  <2>5. \A m \in 1..(e + 1) : exchange'[m] \in 1..(l + 1)
    BY <1>2, <2>1, <2>2, <2>3, <2>4
  <2>6. ASSUME NEW p \in 1..(e + 1), NEW m \in 1..(e + 1), p < m
        PROVE  exchange'[p] < exchange'[m]
    <3>1. p \in 1..e
      BY <2>2, <2>6
    <3>2. exchange'[p] = exchange[p]
      BY <2>1, <2>2, <2>3, <2>6, <3>1
    <3>3. CASE m = e + 1
      BY <2>1, <2>2, <2>4, <3>1, <3>2, <3>3
    <3>4. CASE m \in 1..e
      <4>1. exchange'[m] = exchange[m]
        BY <2>1, <2>2, <3>4
      <4>2. exchange[p] < exchange[m]
        BY <1>0, <2>2, <2>6, <3>1, <3>4 DEF ExchangeIsNew
      <4> QED
        BY <3>2, <4>1, <4>2
    <3> QED
      BY <2>3, <3>3, <3>4
  <2>7. ASSUME NEW j \in coverage, j[3] = "live", NEW m \in 1..(e + 1)
        PROVE  j[2] < exchange'[m]
    BY <1>0, <1>3, <2>1, <2>2, <2>3, <2>7 DEF ExchangeIsNew
  <2> QED
    BY <1>2, <2>1, <2>2, <2>5, <2>6, <2>7 DEF ExchangeIsNew
<1> QED
  BY <1>4, <1>5

\* The live job covers the last exchange.
LEMMA LiveKeyIsNew ==
  ASSUME RangeIInv, exchange # <<>>
  PROVE  /\ LiveKey \in Nat \X Nat \X Producers /\ LiveKey[3] = "live"
         /\ LiveKey[2] <= Len(kinds)
         /\ \A j \in coverage : j[3] = "live" => ~ Share(j, LiveKey)
<1>0. /\ kinds \in Seq(Kinds) /\ exchange \in Seq(Nat)
      /\ coverage \subseteq Nat \X Nat \X Producers /\ ExchangeIsNew
  BY DEF RangeIInv, RangeTypes
<1>1. PICK n \in Nat, l \in Nat : n = Len(exchange) /\ l = Len(kinds) /\ n >= 1
  BY <1>0
<1>2. PICK m \in 1..n : LastExchange = <<exchange[m], exchange[n]>>
  <2>1. CASE n >= 2
    <3>1. n - 1 \in 1..n
      BY <2>1
    <3> QED
      BY <1>1, <2>1, <3>1 DEF LastExchange
  <2>2. CASE ~ (n >= 2)
    <3>1. n \in 1..n
      BY <1>1
    <3> QED
      BY <1>1, <2>2, <3>1 DEF LastExchange
  <2> QED
    BY <2>1, <2>2
<1>3. /\ exchange[m] \in 1..l /\ exchange[n] \in 1..l
      /\ exchange[m] \in Nat /\ exchange[n] \in Nat
  BY <1>0, <1>1 DEF ExchangeIsNew
<1>4. LiveKey = <<exchange[m], exchange[n], "live">> /\ LiveKey \in Nat \X Nat \X Producers
  <2>1. LiveKey = Append(<<exchange[m], exchange[n]>>, "live")
    BY <1>2 DEF LiveKey
  <2>2. "live" \in Producers
    BY DEF Producers
  <2>3. PICK a \in Nat, b \in Nat : a = exchange[m] /\ b = exchange[n]
    BY <1>3
  <2>4. Append(<<a, b>>, "live") = <<a, b, "live">> /\ <<a, b, "live">> \in Nat \X Nat \X Producers
    BY <2>2, KeyIs
  <2> QED
    BY <2>1, <2>3, <2>4
<1>5. ASSUME NEW j \in coverage, j[3] = "live", Share(j, LiveKey) PROVE FALSE
  <2>1. PICK i \in DOMAIN kinds : In(i, j) /\ In(i, LiveKey)
    BY <1>5 DEF Share
  <2>2. DOMAIN kinds = 1..Len(kinds)
    BY <1>0
  <2>3. i \in Nat /\ j[2] \in Nat
    BY <1>0, <1>1, <2>2
  <2>4. j[2] < exchange[m]
    BY <1>0, <1>1, <1>5 DEF ExchangeIsNew
  <2>5. i <= j[2] /\ exchange[m] <= i
    BY <1>4, <2>1 DEF In
  <2> QED
    BY <1>3, <2>3, <2>4, <2>5
<1> QED
  BY <1>1, <1>3, <1>4, <1>5

\* The reconciler's and the backfill command's job covers the first window in hand.
LEMMA HeadIsNew ==
  ASSUME RangeIInv, NEW w \in Seq(Nat \X Nat), w # <<>>, NEW source \in Producers,
         AreNew(w, source), NEW key, key = Append(Head(w), source)
  PROVE  /\ key \in Nat \X Nat \X Producers /\ key[2] <= Len(kinds)
         /\ key[1] = Head(w)[1] /\ key[2] = Head(w)[2] /\ key[3] = source
         /\ \A j \in coverage : j[3] = source => ~ Share(j, key)
<1>1. /\ Head(w) \in Nat \X Nat /\ Head(w)[2] <= Len(kinds)
      /\ \A j \in coverage : j[3] = source => ~ Share(j, Head(w))
  BY RestIsNew
<1>2. PICK a \in Nat, b \in Nat : Head(w) = <<a, b>>
  BY <1>1
<1>3. key = <<a, b, source>> /\ key \in Nat \X Nat \X Producers
  <2>1. key = Append(<<a, b>>, source)
    BY <1>2
  <2>2. /\ Append(<<a, b>>, source) = <<a, b, source>>
        /\ <<a, b, source>> \in Nat \X Nat \X Producers
    BY KeyIs
  <2> QED
    BY <2>1, <2>2
<1>4. \A j : Share(j, key) <=> Share(j, Head(w))
  BY <1>2, <1>3 DEF Share, In
<1> QED
  BY <1>1, <1>2, <1>3, <1>4

\* A dialogue message that comes after a recent one is recent.
LEMMA RecentIsLast ==
  ASSUME RangeTypes
  PROVE  /\ Recent \in SUBSET (DOMAIN kinds)
         /\ \A i \in Recent : \A d \in DOMAIN kinds : i <= d /\ Dialogue(d) => d \in Recent
<1> DEFINE All == {i \in DOMAIN kinds : kinds[i] = "dialogue"}
           After(i) == {j \in All : j > i}
<1>0. kinds \in Seq(Kinds)
  BY DEF RangeTypes
<1>1. PICK l \in Nat : l = Len(kinds) /\ DOMAIN kinds = 1..l
  BY <1>0
<1>2. IsFiniteSet(All) /\ All \subseteq Nat
  <2>1. IsFiniteSet(1..l)
    BY FS_Interval
  <2> QED
    BY <1>1, <2>1, FS_Subset
<1>3. ASSUME NEW i \in All, NEW d \in All, i <= d, Cardinality(After(i)) < ScanLimit
      PROVE  Cardinality(After(d)) < ScanLimit
  <2>1. After(d) \subseteq After(i)
    BY <1>2, <1>3
  <2>2. After(i) \subseteq All
    OBVIOUS
  <2>3. IsFiniteSet(After(i))
    BY <1>2, <2>2, FS_Subset
  <2>4. IsFiniteSet(After(d)) /\ Cardinality(After(d)) <= Cardinality(After(i))
    BY <2>1, <2>3, FS_Subset
  <2>5. Cardinality(After(d)) \in Nat /\ Cardinality(After(i)) \in Nat /\ ScanLimit \in Nat
    BY <2>3, <2>4, FS_CardinalityType, CoverageAssumption
  <2> QED
    BY <1>3, <2>4, <2>5
<1>4. Recent = {i \in All : Cardinality(After(i)) < ScanLimit}
  BY DEF Recent
<1> HIDE DEF After
<1>5. ASSUME NEW i \in Recent, NEW d \in DOMAIN kinds, i <= d, Dialogue(d) PROVE d \in Recent
  BY <1>3, <1>4, <1>5 DEF Dialogue
<1> QED
  BY <1>4, <1>5

\* Shapes of a turn are what the mirror has still to add.
LEMMA ShapesAre == TurnShapes \subseteq Seq(Kinds)
<1>1. "dialogue" \in Kinds /\ "tool" \in Kinds
  BY DEF Kinds
<1>2. /\ <<"dialogue">> \in Seq(Kinds) /\ <<"tool", "dialogue">> \in Seq(Kinds)
      /\ <<"dialogue", "tool", "dialogue">> \in Seq(Kinds)
  BY <1>1
<1> QED
  BY <1>2 DEF TurnShapes

LEMMA TurnKeepsRanges == RangeIInv /\ Turn => RangeIInv'
<1> SUFFICES ASSUME RangeIInv, Turn PROVE RangeIInv'
  OBVIOUS
<1> USE DEF recVars, fillVars
<1>0. RangeTypes /\ <<>> \in Seq(Kinds) /\ <<>> \in Seq(Nat)
  BY DEF RangeIInv
<1>1. CASE TurnFails
  BY <1>0, <1>1, NothingCovered DEF TurnFails, RangeTypes
<1>2. CASE MirrorNext
  <2>0. /\ todo \in Seq(Kinds) /\ todo # <<>> /\ kinds' = Append(kinds, Head(todo))
        /\ todo' = Tail(todo) /\ turn = "mirroring" /\ turn' = turn
        /\ coverage' = coverage /\ rec' = rec /\ gaps' = gaps /\ fill' = fill /\ batch' = batch
    BY <1>0, <1>2 DEF MirrorNext, RangeTypes
  <2>1. Head(todo) \in Kinds /\ Tail(todo) \in Seq(Kinds)
    BY <2>0
  <2>2. CASE Head(todo) = "dialogue"
    <3>1. exchange' = Append(exchange, Len(kinds'))
      BY <1>2, <2>2 DEF MirrorNext
    <3>2. ExchangeIsNew' /\ exchange' \in Seq(Nat) /\ exchange' # <<>>
      BY <2>0, <2>1, <3>1, ExchangeGrows
    <3>3. kinds' \in Seq(Kinds) /\ CoveredIsPast' /\ CoveredOnce' /\ GapsAreNew' /\ BatchIsNew'
      BY <2>0, <2>1, OthersStayNew
    <3>4. RangeTypes'
      BY <1>0, <2>0, <2>1, <3>2, <3>3 DEF RangeTypes
    <3> QED
      BY <3>2, <3>3, <3>4 DEF RangeIInv
  <2>3. CASE Head(todo) # "dialogue"
    <3>1. exchange' = exchange
      BY <1>2, <2>3 DEF MirrorNext
    <3> QED
      BY <1>0, <2>0, <2>1, <3>1, NothingCovered DEF RangeTypes
  <2> QED
    BY <2>2, <2>3
<1>3. CASE UpdateSession
  BY <1>0, <1>3, NothingCovered DEF UpdateSession, RangeTypes
<1>4. CASE LiveInsertJob
  BY <1>0, <1>4, NothingCovered DEF LiveInsertJob, RangeTypes
<1>5. CASE LiveInsertCoverage
  <2>0. /\ exchange # <<>> /\ coverage' = coverage \cup {LiveKey} /\ kinds' = kinds
        /\ todo' = todo /\ exchange' = <<>> /\ turn' = "idle"
        /\ rec' = rec /\ gaps' = gaps /\ fill' = fill /\ batch' = batch
    BY <1>0, <1>5 DEF LiveInsertCoverage, RangeTypes
  <2>1. /\ LiveKey \in Nat \X Nat \X Producers /\ LiveKey[3] = "live"
        /\ LiveKey[2] <= Len(kinds)
        /\ \A j \in coverage : j[3] = LiveKey[3] => ~ Share(j, LiveKey)
    BY <2>0, LiveKeyIsNew
  <2>2. /\ coverage' \subseteq Nat \X Nat \X Producers /\ CoveredIsPast' /\ CoveredOnce'
        /\ GapsAreNew' /\ BatchIsNew'
    BY <2>0, <2>1, CoversOnce
  <2>3. ExchangeIsNew'
    <3>1. 1..Len(<<>>) = {}
      OBVIOUS
    <3> QED
      BY <2>0, <3>1 DEF ExchangeIsNew
  <2>4. RangeTypes'
    BY <1>0, <2>0, <2>2 DEF RangeTypes
  <2> QED
    BY <2>2, <2>3, <2>4 DEF RangeIInv
<1>6. CASE LiveEnqueueSkipped
  BY <1>0, <1>6, NothingCovered DEF LiveEnqueueSkipped, RangeTypes
<1>7. CASE \E shape \in TurnShapes : TurnAnswers(shape)
  <2>1. todo' \in Seq(Kinds)
    BY <1>7, ShapesAre DEF TurnAnswers
  <2> QED
    BY <1>0, <1>7, <2>1, NothingCovered DEF TurnAnswers, RangeTypes
<1> QED
  BY <1>1, <1>2, <1>3, <1>4, <1>5, <1>6, <1>7 DEF Turn

\* What a producer does with the first window in hand.
LEMMA ReconcilerKeepsRanges == RangeIInv /\ Reconciler => RangeIInv'
<1> SUFFICES ASSUME RangeIInv, Reconciler PROVE RangeIInv'
  OBVIOUS
<1> USE DEF turnVars, fillVars
<1>0. RangeTypes /\ GapsAreNew /\ "reconcile" \in Producers /\ "dialogue" \in Kinds
  BY DEF RangeIInv, Producers, Kinds
<1>1. CASE ReconcileMirror
  BY <1>0, <1>1, NothingCovered DEF ReconcileMirror, RangeTypes, recVars
<1>2. CASE CheckQuiet
  BY <1>0, <1>2, NothingCovered DEF CheckQuiet, RangeTypes
<1>3. CASE FindUncoveredRanges
  <2>0. /\ gaps' = ComputeBackfillWindows(Ascending(Recent), coverage)
        /\ rec' \in {"idle", "enqueue"} /\ (rec' = "enqueue" => gaps' # <<>>)
        /\ kinds' = kinds /\ coverage' = coverage /\ turn' = turn /\ todo' = todo
        /\ exchange' = exchange /\ fill' = fill /\ batch' = batch
    BY <1>3 DEF FindUncoveredRanges, Scan, EligibleMessageIds
  <2>1. /\ Recent \in SUBSET (DOMAIN kinds)
        /\ \A i \in Recent : \A d \in DOMAIN kinds : i <= d /\ Dialogue(d) => d \in Recent
    BY <1>0, RecentIsLast
  <2>2. gaps' \in Seq(Nat \X Nat) /\ AreNew(gaps', "reconcile")
    BY <2>0, <2>1, WindowsAreNew
  <2>3. GapsAreNew'
    <3>1. \A j, k : Share(j, k)' <=> Share(j, k)
      BY <2>0 DEF Share, Dialogue
    <3> QED
      BY <2>0, <2>2, <3>1 DEF GapsAreNew, AreNew
  <2>4. kinds' \in Seq(Kinds) /\ CoveredIsPast' /\ CoveredOnce' /\ ExchangeIsNew' /\ BatchIsNew'
    BY <2>0, OthersStayNew
  <2>5. RangeTypes'
    BY <1>0, <2>0, <2>2 DEF RangeTypes
  <2> QED
    BY <2>3, <2>4, <2>5 DEF RangeIInv
<1>4. ASSUME rec \in {"enqueue", "cover"}
      PROVE  /\ gaps # <<>> /\ gaps \in Seq(Nat \X Nat) /\ AreNew(gaps, "reconcile")
             /\ Tail(gaps) \in Seq(Nat \X Nat) /\ AreNew(Tail(gaps), "reconcile")
             /\ Len(gaps) # 1 => Tail(gaps) # <<>>
  <2>1. gaps # <<>> /\ gaps \in Seq(Nat \X Nat) /\ AreNew(gaps, "reconcile")
    BY <1>0, <1>4 DEF RangeTypes, GapsAreNew
  <2> QED
    BY <1>0, <2>1, RestIsNew
<1>5. CASE ReconcileInsertJob
  <2>0. /\ rec = "enqueue" /\ kinds' = kinds /\ coverage' = coverage /\ turn' = turn
        /\ todo' = todo /\ exchange' = exchange /\ fill' = fill /\ batch' = batch
    BY <1>5 DEF ReconcileInsertJob
  <2>1. CASE Proceed
    <3>1. gaps' = Tail(gaps) /\ rec' = IF Len(gaps) = 1 THEN "idle" ELSE "enqueue"
      BY <2>1 DEF Proceed
    <3>2. GapsAreNew'
      <4>1. \A j, k : Share(j, k)' <=> Share(j, k)
        BY <2>0 DEF Share, Dialogue
      <4>2. AreNew(Tail(gaps), "reconcile")
        BY <1>4, <2>0
      <4> QED
        BY <2>0, <3>1, <4>1, <4>2 DEF GapsAreNew, AreNew
    <3>3. kinds' \in Seq(Kinds) /\ CoveredIsPast' /\ CoveredOnce' /\ ExchangeIsNew' /\ BatchIsNew'
      BY <2>0, OthersStayNew
    <3>4. RangeTypes'
      BY <1>0, <1>4, <2>0, <3>1 DEF RangeTypes
    <3> QED
      BY <3>2, <3>3, <3>4 DEF RangeIInv
  <2>2. CASE rec' = "cover" /\ gaps' = gaps
    BY <1>0, <1>4, <2>0, <2>2, NothingCovered DEF RangeTypes
  <2> QED
    BY <1>5, <2>1, <2>2 DEF ReconcileInsertJob
<1>6. CASE ReconcileInsertCoverage
  <2>0. /\ rec = "cover" /\ kinds' = kinds /\ coverage' = coverage \cup {ReconcileKey}
        /\ turn' = turn /\ todo' = todo /\ exchange' = exchange /\ fill' = fill /\ batch' = batch
        /\ gaps' = Tail(gaps) /\ rec' = IF Len(gaps) = 1 THEN "idle" ELSE "enqueue"
    BY <1>6 DEF ReconcileInsertCoverage, Proceed
  <2>1. /\ ReconcileKey \in Nat \X Nat \X Producers /\ ReconcileKey[2] <= Len(kinds)
        /\ ReconcileKey[1] = Head(gaps)[1] /\ ReconcileKey[2] = Head(gaps)[2]
        /\ ReconcileKey[3] = "reconcile"
        /\ \A j \in coverage : j[3] = "reconcile" => ~ Share(j, ReconcileKey)
    <3>1. ReconcileKey = Append(Head(gaps), "reconcile")
      BY DEF ReconcileKey
    <3>2. /\ gaps # <<>> /\ gaps \in Seq(Nat \X Nat) /\ AreNew(gaps, "reconcile")
          /\ "reconcile" \in Producers
      BY <1>0, <1>4, <2>0
    <3>3. \A key : key = Append(Head(gaps), "reconcile") =>
            /\ key \in Nat \X Nat \X Producers /\ key[2] <= Len(kinds)
            /\ key[1] = Head(gaps)[1] /\ key[2] = Head(gaps)[2] /\ key[3] = "reconcile"
            /\ \A j \in coverage : j[3] = "reconcile" => ~ Share(j, key)
      BY <3>2, HeadIsNew
    <3> QED
      BY <3>1, <3>3
  <2>2. /\ coverage' \subseteq Nat \X Nat \X Producers /\ CoveredIsPast' /\ CoveredOnce'
        /\ ExchangeIsNew' /\ BatchIsNew'
    BY <2>0, <2>1, CoversOnce
  <2>3. GapsAreNew'
    BY <1>0, <1>4, <2>0, <2>1, RestStaysNew DEF GapsAreNew, AreNew
  <2>4. RangeTypes'
    BY <1>0, <1>4, <2>0, <2>2 DEF RangeTypes
  <2> QED
    BY <2>2, <2>3, <2>4 DEF RangeIInv
<1> QED
  BY <1>1, <1>2, <1>3, <1>5, <1>6 DEF Reconciler

LEMMA BackfillKeepsRanges == RangeIInv /\ Backfill => RangeIInv'
<1> SUFFICES ASSUME RangeIInv, Backfill PROVE RangeIInv'
  OBVIOUS
<1> USE DEF turnVars, recVars
<1>0. RangeTypes /\ BatchIsNew /\ "backfill" \in Producers
  BY DEF RangeIInv, Producers
<1>1. CASE StartBackfill
  <2> DEFINE Listed == {i \in DOMAIN kinds : kinds[i] # "other"}
  <2>0. /\ batch' = ComputeBackfillWindows(Ascending(Listed), coverage)
        /\ fill' \in {"idle", "enqueue"} /\ (fill' = "enqueue" => batch' # <<>>)
        /\ kinds' = kinds /\ coverage' = coverage /\ turn' = turn /\ todo' = todo
        /\ exchange' = exchange /\ rec' = rec /\ gaps' = gaps
    BY <1>1 DEF StartBackfill, ListMessageIds
  <2>1. /\ Listed \in SUBSET (DOMAIN kinds)
        /\ \A i \in Listed : \A d \in DOMAIN kinds : i <= d /\ Dialogue(d) => d \in Listed
    BY DEF Dialogue
  <2>2. batch' \in Seq(Nat \X Nat) /\ AreNew(batch', "backfill")
    <3> HIDE DEF Listed
    <3> QED
      BY <2>0, <2>1, WindowsAreNew
  <2>3. BatchIsNew'
    <3>1. \A j, k : Share(j, k)' <=> Share(j, k)
      BY <2>0 DEF Share, Dialogue
    <3> QED
      BY <2>0, <2>2, <3>1 DEF BatchIsNew, AreNew
  <2>4. kinds' \in Seq(Kinds) /\ CoveredIsPast' /\ CoveredOnce' /\ ExchangeIsNew' /\ GapsAreNew'
    BY <2>0, OthersStayNew
  <2>5. RangeTypes'
    BY <1>0, <2>0, <2>2 DEF RangeTypes
  <2> QED
    BY <2>3, <2>4, <2>5 DEF RangeIInv
<1>4. ASSUME fill \in {"enqueue", "cover"}
      PROVE  /\ batch # <<>> /\ batch \in Seq(Nat \X Nat) /\ AreNew(batch, "backfill")
             /\ Tail(batch) \in Seq(Nat \X Nat) /\ AreNew(Tail(batch), "backfill")
             /\ Len(batch) # 1 => Tail(batch) # <<>>
  <2>1. batch # <<>> /\ batch \in Seq(Nat \X Nat) /\ AreNew(batch, "backfill")
    BY <1>0, <1>4 DEF RangeTypes, BatchIsNew
  <2> QED
    BY <1>0, <2>1, RestIsNew
<1>5. CASE BackfillInsertJob
  <2>0. /\ fill = "enqueue" /\ kinds' = kinds /\ coverage' = coverage /\ turn' = turn
        /\ todo' = todo /\ exchange' = exchange /\ rec' = rec /\ gaps' = gaps
    BY <1>5 DEF BackfillInsertJob
  <2>1. CASE NextOfBatch
    <3>1. batch' = Tail(batch) /\ fill' = IF Len(batch) = 1 THEN "idle" ELSE "enqueue"
      BY <2>1 DEF NextOfBatch
    <3>2. BatchIsNew'
      <4>1. \A j, k : Share(j, k)' <=> Share(j, k)
        BY <2>0 DEF Share, Dialogue
      <4>2. AreNew(Tail(batch), "backfill")
        BY <1>4, <2>0
      <4> QED
        BY <2>0, <3>1, <4>1, <4>2 DEF BatchIsNew, AreNew
    <3>3. kinds' \in Seq(Kinds) /\ CoveredIsPast' /\ CoveredOnce' /\ ExchangeIsNew' /\ GapsAreNew'
      BY <2>0, OthersStayNew
    <3>4. RangeTypes'
      BY <1>0, <1>4, <2>0, <3>1 DEF RangeTypes
    <3> QED
      BY <3>2, <3>3, <3>4 DEF RangeIInv
  <2>2. CASE fill' = "cover" /\ batch' = batch
    BY <1>0, <1>4, <2>0, <2>2, NothingCovered DEF RangeTypes
  <2> QED
    BY <1>5, <2>1, <2>2 DEF BackfillInsertJob
<1>6. CASE BackfillInsertCoverage
  <2>0. /\ fill = "cover" /\ kinds' = kinds /\ coverage' = coverage \cup {BackfillKey}
        /\ turn' = turn /\ todo' = todo /\ exchange' = exchange /\ rec' = rec /\ gaps' = gaps
        /\ batch' = Tail(batch) /\ fill' = IF Len(batch) = 1 THEN "idle" ELSE "enqueue"
    BY <1>6 DEF BackfillInsertCoverage, NextOfBatch
  <2>1. /\ BackfillKey \in Nat \X Nat \X Producers /\ BackfillKey[2] <= Len(kinds)
        /\ BackfillKey[1] = Head(batch)[1] /\ BackfillKey[2] = Head(batch)[2]
        /\ BackfillKey[3] = "backfill"
        /\ \A j \in coverage : j[3] = "backfill" => ~ Share(j, BackfillKey)
    <3>1. BackfillKey = Append(Head(batch), "backfill")
      BY DEF BackfillKey
    <3>2. /\ batch # <<>> /\ batch \in Seq(Nat \X Nat) /\ AreNew(batch, "backfill")
          /\ "backfill" \in Producers
      BY <1>0, <1>4, <2>0
    <3>3. \A key : key = Append(Head(batch), "backfill") =>
            /\ key \in Nat \X Nat \X Producers /\ key[2] <= Len(kinds)
            /\ key[1] = Head(batch)[1] /\ key[2] = Head(batch)[2] /\ key[3] = "backfill"
            /\ \A j \in coverage : j[3] = "backfill" => ~ Share(j, key)
      BY <3>2, HeadIsNew
    <3> QED
      BY <3>1, <3>3
  <2>2. /\ coverage' \subseteq Nat \X Nat \X Producers /\ CoveredIsPast' /\ CoveredOnce'
        /\ ExchangeIsNew' /\ GapsAreNew'
    BY <2>0, <2>1, CoversOnce
  <2>3. BatchIsNew'
    BY <1>0, <1>4, <2>0, <2>1, RestStaysNew DEF BatchIsNew, AreNew
  <2>4. RangeTypes'
    BY <1>0, <1>4, <2>0, <2>2 DEF RangeTypes
  <2> QED
    BY <2>2, <2>3, <2>4 DEF RangeIInv
<1> QED
  BY <1>1, <1>5, <1>6 DEF Backfill

LEMMA FaultsKeepRanges == RangeIInv /\ Faults => RangeIInv'
<1> SUFFICES ASSUME RangeIInv, Faults PROVE RangeIInv'
  OBVIOUS
<1> USE DEF turnVars, recVars, fillVars
<1>0. RangeTypes /\ <<>> \in Seq(Kinds)
  BY DEF RangeIInv
<1>1. CASE UserMirrorRaises
  BY <1>0, <1>1, NothingCovered DEF UserMirrorRaises, RangeTypes
<1>2. CASE MirrorRaises
  BY <1>0, <1>2, NothingCovered DEF MirrorRaises, RangeTypes
<1>3. CASE LiveEnqueueRaises
  BY <1>0, <1>3, NothingCovered DEF LiveEnqueueRaises, RangeTypes
<1>4. CASE PassRaises
  BY <1>0, <1>4, NothingCovered DEF PassRaises, RangeTypes
<1>5. CASE BackfillRaises
  BY <1>0, <1>5, NothingCovered DEF BackfillRaises, RangeTypes
<1>6. CASE Crash
  BY <1>0, <1>6, NothingCovered DEF Crash, RangeTypes
<1> QED
  BY <1>1, <1>2, <1>3, <1>4, <1>5, <1>6 DEF Faults

LEMMA RangesNext == RangeIInv /\ [Next]_vars => RangeIInv'
<1> SUFFICES ASSUME RangeIInv, [Next]_vars PROVE RangeIInv'
  OBVIOUS
<1> USE DEF turnVars, recVars, fillVars
<1>0. RangeTypes /\ "dialogue" \in Kinds /\ "other" \in Kinds
  BY DEF RangeIInv, Kinds
<1>1. CASE UserMessage
  <2>0. /\ kinds' = Append(kinds, "dialogue") /\ exchange' = <<Len(kinds')>>
        /\ turn' = "running" /\ todo' = todo /\ coverage' = coverage
        /\ rec' = rec /\ gaps' = gaps /\ fill' = fill /\ batch' = batch
    BY <1>1 DEF UserMessage
  <2>1. ExchangeIsNew' /\ exchange' \in Seq(Nat) /\ exchange' # <<>>
    BY <1>0, <2>0, ExchangeGrows
  <2>2. kinds' \in Seq(Kinds) /\ CoveredIsPast' /\ CoveredOnce' /\ GapsAreNew' /\ BatchIsNew'
    BY <1>0, <2>0, OthersStayNew
  <2>3. RangeTypes'
    BY <1>0, <2>0, <2>1, <2>2 DEF RangeTypes
  <2> QED
    BY <2>1, <2>2, <2>3 DEF RangeIInv
<1>2. CASE QuietElapses
  BY <1>0, <1>2, NothingCovered DEF QuietElapses, RangeTypes
<1>3. CASE OtherSession
  BY <1>0, <1>3, NothingCovered DEF OtherSession, RangeTypes
<1>4. CASE UNCHANGED vars
  BY <1>0, <1>4, NothingCovered DEF vars, RangeTypes
<1> QED
  BY <1>1, <1>2, <1>3, <1>4, TurnKeepsRanges, ReconcilerKeepsRanges, BackfillKeepsRanges,
     FaultsKeepRanges DEF Next

\* No producer repeats itself, and whoever lists the messages that no range covers
\* misses none and repeats none (agents/session.py, session/db.py, and the two
\* callers of compute_backfill_windows).
THEOREM NothingTwice == MCSpec => []NothingTwiceNothingMissed
<1>1. MCSpec => MCInit /\ [][MCNext]_mcVars
  BY DEF MCSpec
<1>2. MCInit => RangeIInv
  BY RangesInit DEF MCInit
<1>3. RangeIInv /\ [MCNext]_mcVars => RangeIInv'
  <2>1. [MCNext]_mcVars => [Next]_vars
    BY DEF MCNext, mcVars, coverVars, vars, turnVars, recVars, fillVars
  <2> QED
    BY <2>1, RangesNext
<1>4. RangeIInv => NothingTwiceNothingMissed
  <2>1. RangeIInv => NoProducerRepeatsItself
    BY DEF RangeIInv, CoveredOnce, NoProducerRepeatsItself
  <2> QED
    BY <2>1, GapsAreExact DEF NothingTwiceNothingMissed
<1> QED
  BY <1>1, <1>2, <1>3, <1>4, PTL

-----------------------------------------------------------------------------
(* The index.  A thread that has a file is at one of the places Busy. *)

Busy == {"delete", "insert", "ledger", "unpin", "claims"}
Places == Busy \cup {"idle", "listed", "build", "swapped", "sync", "pin"}
\* What a thread is doing, and its locals.
Job == [at : Places, op : {"none", "startup", "reconcile", "reindex", "force", "write"},
        snap : [Files -> Index!Contents], todo : SUBSET Files, file : Files \cup {Index!Nowhere}]
\* The types of the tables and of the threads, and what the places mean.
IndexTypes ==
  /\ disk \in [Files -> Index!Contents] /\ ledger \in [Files -> Index!Contents]
  /\ chunks \in [Files -> Seq(Texts)] /\ shadow \in [Files -> Seq(Texts)]
  /\ claim \in Files \cup {Index!Nowhere} /\ pinned \subseteq Files
  /\ work \in [Index!Threads -> Job]
  /\ \A t \in Index!Threads :
       /\ work[t].at \in Busy <=> work[t].file # Index!Nowhere
       /\ work[t].at = "insert" => Index!Text(t) # Index!Gone
       /\ work[t].at \in {"build", "swapped"} => t = "command"
       /\ work[t].at \in Busy => (work[t].at = "unpin" => Index!Text(t) = Index!Gone)
  /\ spoilt \subseteq Files /\ stray \subseteq Files

\* Two threads in a file have spoilt it.
TogetherIsSpoilt == \A t, u \in Index!Threads :
  t # u /\ work[t].file = work[u].file /\ work[t].file # Index!Nowhere => work[t].file \in spoilt

\* A thread alone in a file has made the index what it says, as far as it has come.
Indexed(t) == 
  /\ work[t].at = "insert" => chunks[Index!Page(t)] = <<>>
  /\ work[t].at \in {"ledger", "unpin", "claims"} =>
       chunks[Index!Page(t)] = Index!ChunksOf(Index!Text(t))
  /\ work[t].at \in {"unpin", "claims"} => ledger[Index!Page(t)] = Index!Text(t)
IndexedSoFar == \A t \in Index!Threads : Index!Page(t) \in Files \ spoilt => Indexed(t)

\* The scratch tables hold the texts of the files the rebuild has come past.
Building == work["command"].at = "build"
Built(f) == work["command"].snap[f]
ShadowFollows == Building =>
  \A f \in Files : shadow[f] = IF f \in work["command"].todo THEN <<>> ELSE Index!ChunksOf(Built(f))

\* Files in whose index the rebuild is not alone are stray; the claims of the others are
\* those of the text the ledger has.
RebuildIsAlone == Building => \A f \in Files \ stray :
  /\ Index!Untouched(f)
  /\ f \notin work["command"].todo /\ Built(f) # Index!Gone => Built(f) = ledger[f]

IndexIInv == /\ IndexTypes /\ TogetherIsSpoilt /\ IndexedSoFar /\ ShadowFollows /\ RebuildIsAlone
             /\ IndexIsSound

\* A thread that takes its next file is on its own there or spoils it, and is a
\* stranger to a rebuild; one that has no file left is idle.
TakesNext(t) == \E r \in Job :
  /\ work' = [work EXCEPT ![t] = r]
  /\ \/ r.at = "idle" /\ r.file = Index!Nowhere /\ UNCHANGED <<spoilt, stray>>
     \/ /\ r.at = "delete" /\ r.file \in Files
        /\ spoilt' = IF Index!Alone(t, r.file) THEN spoilt \ {r.file} ELSE spoilt \cup {r.file}
        /\ stray' = IF Building THEN stray \cup {r.file} ELSE stray \ {r.file}

\* Then all but the claim's page is as it should be, and no file but the new one is
\* freed of its stain, nor any left but the old one.
LeftRight(t) ==
  /\ IndexTypes' /\ TogetherIsSpoilt' /\ IndexedSoFar' /\ ShadowFollows' /\ RebuildIsAlone'
  /\ Index!LedgerVouchesForChunks'
  /\ spoilt \subseteq spoilt' \cup {work'[t].file}
  /\ stray \subseteq stray' \cup {work'[t].file}
  /\ \A f \in Files : Index!Untouched(f)' => Index!Untouched(f) \/ f = work[t].file

\* A thread with nothing to do is well typed.
LEMMA IdleIsJob == Index!Idle \in Job /\ Index!Idle.at = "idle" /\ Index!Idle.file = Index!Nowhere
  BY DEF Job, Places, Busy, Index!Idle, Index!Nothing, Index!Contents

\* A thread that moves on keeps the rest of its locals.
LEMMA MoveKeeps ==
  ASSUME work \in [Index!Threads -> Job], NEW t \in Index!Threads, NEW lb \in Places,
         work' = [work EXCEPT ![t].at = lb]
  PROVE  /\ work' \in [Index!Threads -> Job]
         /\ \A u \in Index!Threads : work'[u].file = work[u].file /\ work'[u].snap = work[u].snap
         /\ \A u \in Index!Threads \ {t} : work'[u] = work[u]
         /\ work'[t].at = lb
<1>1. work[t] \in Job
  OBVIOUS
<1> DEFINE r == [work[t] EXCEPT !.at = lb]
<1>2. r \in Job /\ r.at = lb /\ r.file = work[t].file /\ r.snap = work[t].snap
  BY <1>1 DEF Job
<1>3. work' = [work EXCEPT ![t] = r]
  OBVIOUS
<1> HIDE DEF r
<1> QED
  BY <1>2, <1>3

\* A thread without a file is as well typed as what it does.
LEMMA JobKeeps ==
  ASSUME IndexTypes, NEW t \in Index!Threads, NEW r \in Job, work' = [work EXCEPT ![t] = r],
         r.file = Index!Nowhere, r.at \notin Busy, r.at \in {"build", "swapped"} => t = "command"
  PROVE  /\ work' \in [Index!Threads -> Job]
         /\ \A u \in Index!Threads :
              /\ work'[u].at \in Busy <=> work'[u].file # Index!Nowhere
              /\ work'[u].at = "insert" => Index!Text(u)' # Index!Gone
              /\ work'[u].at \in {"build", "swapped"} => u = "command"
              /\ work'[u].at \in Busy => (work'[u].at = "unpin" => Index!Text(u)' = Index!Gone)
<1>1. work'[t] = r /\ \A u \in Index!Threads \ {t} : work'[u] = work[u]
  BY DEF IndexTypes
<1> QED
  BY <1>1 DEF IndexTypes, Busy, Index!Text, Index!Page

\* A text added to a file's rows.
LEMMA AppendTyped ==
  ASSUME NEW q \in [Files -> Seq(Texts)], NEW f \in Files, NEW x \in Texts
  PROVE  [q EXCEPT ![f] = Append(@, x)] \in [Files -> Seq(Texts)]
<1>1. Append(q[f], x) \in Seq(Texts)
  OBVIOUS
<1> QED
  BY <1>1

\* What the thread does when it goes to its next file, without the choice.
LEMMA TakeIs ==
  ASSUME IndexTypes, NEW t \in Index!Threads, NEW l \in Job, Index!Take(t, l)
  PROVE  TakesNext(t)
<1>1. CASE l.todo = {}
  BY <1>1, IdleIsJob DEF Index!Take, TakesNext
<1>2. CASE l.todo # {}
  <2>1. PICK f \in Files :
          /\ work' = [work EXCEPT ![t] = [l EXCEPT !.at = "delete", !.file = f, !.todo = @ \ {f}]]
          /\ spoilt' = IF Index!Alone(t, f) THEN spoilt \ {f} ELSE spoilt \cup {f}
          /\ stray' = IF Building THEN stray \cup {f} ELSE stray \ {f}
    <3>1. l.todo \subseteq Files
      BY DEF Job
    <3> QED
      BY <1>2, <3>1 DEF Index!Take, Building, Index!At
  <2> DEFINE r == [l EXCEPT !.at = "delete", !.file = f, !.todo = @ \ {f}]
  <2>2. r \in Job /\ r.at = "delete" /\ r.file = f
    BY DEF Job, Places, Busy
  <2> HIDE DEF r
  <2> QED
    BY <2>1, <2>2 DEF TakesNext, r
<1> QED
  BY <1>1, <1>2

\* A thread that has finished a file, or has none yet, and goes to its next one leaves
\* everything but the claim's page right; where it was is now as the ledger says.
LEMMA TakeKeeps ==
  ASSUME Index!IndexAssumption, IndexIInv, NEW t \in Index!Threads, TakesNext(t), disk' = disk,
         work[t].at # "build",
         UNCHANGED <<chunks, ledger, shadow, pinned>>, claim' \in Files \cup {Index!Nowhere},
         Index!Page(t) \notin spoilt => Indexed(t),
         work[t].at \in Busy => work[t].at = "claims"
  PROVE  LeftRight(t)
<1> USE DEF IndexIInv
<1>1. PICK r \in Job : 
  /\ work' = [work EXCEPT ![t] = r]
  /\ \/ r.at = "idle" /\ r.file = Index!Nowhere /\ UNCHANGED <<spoilt, stray>>
     \/ /\ r.at = "delete" /\ r.file \in Files
        /\ spoilt' = IF Index!Alone(t, r.file) THEN spoilt \ {r.file} ELSE spoilt \cup {r.file}
        /\ stray' = IF Building THEN stray \cup {r.file} ELSE stray \ {r.file}
  BY DEF TakesNext
<1>2. /\ work' \in [Index!Threads -> Job] /\ work'[t] = r
      /\ \A u \in Index!Threads \ {t} : work'[u] = work[u]
  BY <1>1 DEF IndexTypes
<1>3. IndexTypes'
  <2>1. spoilt' \subseteq Files /\ stray' \subseteq Files
    BY <1>1 DEF IndexTypes
  <2>2. r.at \in Busy <=> r.file # Index!Nowhere
    BY <1>1 DEF Busy, Index!IndexAssumption
  <2>3. r.at \notin {"insert", "build", "swapped", "unpin"}
    BY <1>1
  <2>4. \A u \in Index!Threads :
          /\ work'[u].at \in Busy <=> work'[u].file # Index!Nowhere
          /\ work'[u].at = "insert" => Index!Text(u)' # Index!Gone
          /\ work'[u].at \in {"build", "swapped"} => u = "command"
          /\ work'[u].at \in Busy => (work'[u].at = "unpin" => Index!Text(u)' = Index!Gone)
    BY <1>2, <2>2, <2>3 DEF IndexTypes, Index!Page, Index!Text
  <2> QED
    BY <1>2, <2>1, <2>4 DEF IndexTypes
<1>4. TogetherIsSpoilt'
  BY <1>1, <1>2 DEF IndexTypes, Busy, TogetherIsSpoilt, Index!Alone, Index!Page
<1>5. IndexedSoFar'
  BY <1>1, <1>2
  DEF IndexTypes, IndexedSoFar, Indexed, Busy, TogetherIsSpoilt, Index!Page, Index!Alone, Index!Text
<1>6. ShadowFollows'
  BY <1>1, <1>2 DEF IndexTypes, ShadowFollows, Building, Built, Index!Threads
<1>7. RebuildIsAlone'
  <2> SUFFICES ASSUME Building' PROVE RebuildIsAlone'
    BY DEF RebuildIsAlone
  <2>1. t # "command" /\ work'["command"] = work["command"] /\ Building
    BY <1>1, <1>2 DEF Building, Index!Threads
  <2>2. ASSUME NEW f \in Files \ stray' PROVE f \notin stray /\ f # r.file
    BY <1>1, <2>1 DEF IndexTypes, Index!IndexAssumption
  <2>3. ASSUME NEW f \in Files \ stray' PROVE Index!Untouched(f)'
    BY <1>2, <2>1, <2>2, <2>3 DEF RebuildIsAlone, Index!Untouched, Index!Page
  <2> QED
    BY <2>1, <2>2, <2>3 DEF RebuildIsAlone, Built
<1>8. Index!LedgerVouchesForChunks'
  <2> SUFFICES ASSUME NEW f \in Files, f \notin spoilt', Index!Untouched(f)'
               PROVE  chunks[f] = Index!ChunksOf(ledger[f])
    BY DEF Index!LedgerVouchesForChunks, Index!ChunksOf
  <2>1. r.file # f /\ f \notin spoilt /\ \A u \in Index!Threads \ {t} : work[u].file # f
    BY <1>1, <1>2 DEF Index!Untouched, Index!Page
  <2>2. CASE f # work[t].file
    BY <2>1, <2>2 DEF IndexIsSound, Index!LedgerVouchesForChunks, Index!Untouched, Index!Page
  <2>3. CASE f = work[t].file
    <3>1. work[t].at = "claims"
      BY <2>3 DEF IndexTypes, Index!IndexAssumption
    <3> QED
      BY <2>1, <2>3, <3>1 DEF Indexed, Index!Page
  <2> QED
    BY <2>2, <2>3
<1>9. /\ spoilt \subseteq spoilt' \cup {work'[t].file}
      /\ stray \subseteq stray' \cup {work'[t].file}
      /\ \A f \in Files : Index!Untouched(f)' => Index!Untouched(f) \/ f = work[t].file
  BY <1>1, <1>2 DEF Index!Untouched, Index!Page
<1> QED
  BY <1>3, <1>4, <1>5, <1>6, <1>7, <1>8, <1>9 DEF LeftRight

\* An empty index vouches for nothing.
LEMMA IndexInit == Assumptions /\ Index!Init => IndexIInv
<1> SUFFICES ASSUME Index!IndexAssumption, Index!Init PROVE IndexIInv
  BY DEF Assumptions
<1> USE DEF Index!Init, Index!IndexAssumption
<1>1. /\ work \in [Index!Threads -> Job]
      /\ \A t \in Index!Threads : work[t].at = "idle" /\ work[t].file = Index!Nowhere
  BY IdleIsJob
<1>2. IndexTypes
  BY <1>1 DEF IndexTypes, Index!Nothing, Index!Contents, Busy
<1>3. TogetherIsSpoilt /\ IndexedSoFar /\ ShadowFollows /\ RebuildIsAlone
  BY <1>1
  DEF TogetherIsSpoilt, IndexedSoFar, ShadowFollows, RebuildIsAlone, Building, Index!Page,
     Index!Threads
<1>4. IndexIsSound
  BY <1>1
  DEF IndexIsSound, Index!LedgerVouchesForChunks, Index!ClaimIsMarkedOnItsPage, Index!ChunksOf,
     Index!Nothing
<1> QED
  BY <1>2, <1>3, <1>4 DEF IndexIInv

\* No step of the threads, of the program or of the files breaks the invariant.
LEMMA IndexNext == Index!IndexAssumption /\ IndexIInv /\ [Index!Next]_(Index!vars) => IndexIInv'
<1> SUFFICES ASSUME Index!IndexAssumption, IndexIInv, [Index!Next]_(Index!vars)
             PROVE  IndexIInv'
  OBVIOUS
<1> USE DEF IndexIInv, Index!At, Index!Move, Index!Page, Index!Text, Index!Threads,
            Index!IndexAssumption

<1>1. ASSUME NEW t \in Index!Threads, Index!DeleteChunks(t) PROVE IndexIInv'
  <2> USE <1>1
        DEF Index!DeleteChunks, Index!index, Index!program, Index!bounds, Index!history,
            Index!Idle, Index!Nothing
  <2>1. IndexTypes'
    <3>1. chunks' \in [Files -> Seq(Texts)]
      <4>1. <<>> \in Seq(Texts) /\ chunks \in [Files -> Seq(Texts)]
        BY DEF IndexTypes
      <4> QED
        BY <4>1
    <3>2. /\ work' \in [Index!Threads -> Job]
          /\ \A u \in Index!Threads :
               /\ work'[u].at \in Busy <=> work'[u].file # Index!Nowhere
               /\ work'[u].at = "insert" => Index!Text(u)' # Index!Gone
               /\ work'[u].at \in {"build", "swapped"} => u = "command"
               /\ work'[u].at \in Busy => (work'[u].at = "unpin" => Index!Text(u)' = Index!Gone)
      <4> DEFINE lb == IF Index!Text(t) = Index!Gone THEN "ledger" ELSE "insert"
      <4>1. /\ lb \in Places /\ work' = [work EXCEPT ![t].at = lb]
            /\ work[t].at \in Busy /\ lb \in Busy
            /\ lb = "insert" => Index!Text(t) # Index!Gone
            /\ lb = "unpin" => Index!Text(t) = Index!Gone
        BY DEF Busy, Places
      <4> HIDE DEF lb
      <4>2. work \in [Index!Threads -> Job]
        BY DEF IndexTypes
      <4>3. /\ work' \in [Index!Threads -> Job]
            /\ \A u \in Index!Threads : work'[u].file = work[u].file /\ work'[u].snap = work[u].snap
            /\ \A u \in Index!Threads \ {t} : work'[u] = work[u]
            /\ work'[t].at = lb
        BY <4>1, <4>2, MoveKeeps
      <4> QED
        BY <4>1, <4>3 DEF IndexTypes, Busy
    <3> QED
      BY <3>1, <3>2 DEF IndexTypes
  <2>2. TogetherIsSpoilt'
    BY DEF TogetherIsSpoilt, IndexTypes, Job, Busy, Places
  <2>3. IndexedSoFar'
    BY DEF IndexedSoFar, Indexed, TogetherIsSpoilt, IndexTypes, Job, Busy, Places, Index!ChunksOf
  <2>4. ShadowFollows'
    BY DEF ShadowFollows, Building, Built, IndexTypes, Job, Busy, Places, Index!ChunksOf
  <2>5. RebuildIsAlone'
    BY DEF RebuildIsAlone, Building, Built, Index!Untouched, IndexTypes, Job, Busy, Places
  <2>6. IndexIsSound'
    BY DEF IndexIsSound, Index!LedgerVouchesForChunks, Index!ClaimIsMarkedOnItsPage,
       Index!Untouched, IndexedSoFar, Indexed, TogetherIsSpoilt, IndexTypes, Job, Busy, Places
  <2> QED
    BY <2>1, <2>2, <2>3, <2>4, <2>5, <2>6
<1>2. ASSUME NEW t \in Index!Threads, Index!InsertChunks(t) PROVE IndexIInv'
  <2> USE <1>2
        DEF Index!InsertChunks, Index!index, Index!program, Index!bounds, Index!history,
            Index!Idle, Index!Nothing
  <2>1. IndexTypes'
    <3>1. chunks' \in [Files -> Seq(Texts)]
      BY DEF IndexTypes, Job, Busy, Index!Contents
    <3>2. /\ work' \in [Index!Threads -> Job]
          /\ \A u \in Index!Threads :
               /\ work'[u].at \in Busy <=> work'[u].file # Index!Nowhere
               /\ work'[u].at = "insert" => Index!Text(u)' # Index!Gone
               /\ work'[u].at \in {"build", "swapped"} => u = "command"
               /\ work'[u].at \in Busy => (work'[u].at = "unpin" => Index!Text(u)' = Index!Gone)
      <4> DEFINE lb == "ledger"
      <4>1. /\ lb \in Places /\ work' = [work EXCEPT ![t].at = lb]
            /\ work[t].at \in Busy /\ lb \in Busy
            /\ lb \notin {"insert", "unpin"}
        BY DEF Busy, Places
      <4> HIDE DEF lb
      <4>2. work \in [Index!Threads -> Job]
        BY DEF IndexTypes
      <4>3. /\ work' \in [Index!Threads -> Job]
            /\ \A u \in Index!Threads : work'[u].file = work[u].file /\ work'[u].snap = work[u].snap
            /\ \A u \in Index!Threads \ {t} : work'[u] = work[u]
            /\ work'[t].at = lb
        BY <4>1, <4>2, MoveKeeps
      <4> QED
        BY <4>1, <4>3 DEF IndexTypes, Busy
    <3> QED
      BY <3>1, <3>2 DEF IndexTypes
  <2>2. TogetherIsSpoilt'
    BY DEF TogetherIsSpoilt, IndexTypes, Job, Busy, Places
  <2>3. IndexedSoFar'
    <3>1. Index!Page(t) \in Files /\ Index!Text(t) # Index!Gone /\ Index!Text(t) \in Index!Contents
      BY DEF IndexTypes, Job, Busy
    <3>2. work'[t].at = "ledger" /\ Index!Page(t)' = Index!Page(t) /\ Index!Text(t)' = Index!Text(t)
      BY DEF IndexTypes, Job
    <3>3. Index!Page(t) \notin spoilt => Indexed(t)'
      <4>1. Index!Page(t) \notin spoilt => chunks[Index!Page(t)] = <<>>
        BY <3>1 DEF IndexedSoFar, Indexed
      <4>2. Append(<<>>, Index!Text(t)) = <<Index!Text(t)>>
        OBVIOUS
      <4>3. chunks'[Index!Page(t)] = Append(chunks[Index!Page(t)], Index!Text(t))
        BY <3>1 DEF IndexTypes
      <4> QED
        BY <3>1, <3>2, <4>1, <4>2, <4>3 DEF Indexed, Index!ChunksOf
    <3>4. ASSUME NEW u \in Index!Threads \ {t}, Index!Page(u)' \in Files \ spoilt'
          PROVE  Indexed(u)'
      BY <3>1, <3>4 DEF IndexedSoFar, Indexed, TogetherIsSpoilt, IndexTypes, Job, Busy
    <3> QED
      BY <3>2, <3>3, <3>4 DEF IndexedSoFar
  <2>4. ShadowFollows'
    BY DEF ShadowFollows, Building, Built, IndexTypes, Job, Busy, Places, Index!ChunksOf
  <2>5. RebuildIsAlone'
    BY DEF RebuildIsAlone, Building, Built, Index!Untouched, IndexTypes, Job, Busy, Places
  <2>6. IndexIsSound'
    BY DEF IndexIsSound, Index!LedgerVouchesForChunks, Index!ClaimIsMarkedOnItsPage,
       Index!Untouched, IndexedSoFar, Indexed, TogetherIsSpoilt, IndexTypes, Job, Busy, Places
  <2> QED
    BY <2>1, <2>2, <2>3, <2>4, <2>5, <2>6
<1>3. ASSUME NEW t \in Index!Threads, Index!WriteLedger(t) PROVE IndexIInv'
  <2> USE <1>3
        DEF Index!WriteLedger, Index!index, Index!program, Index!bounds, Index!history,
            Index!Idle, Index!Nothing
  <2>1. IndexTypes'
    <3>1. ledger' \in [Files -> Index!Contents]
      BY DEF IndexTypes, Job, Busy
    <3>2. /\ work' \in [Index!Threads -> Job]
          /\ \A u \in Index!Threads :
               /\ work'[u].at \in Busy <=> work'[u].file # Index!Nowhere
               /\ work'[u].at = "insert" => Index!Text(u)' # Index!Gone
               /\ work'[u].at \in {"build", "swapped"} => u = "command"
               /\ work'[u].at \in Busy => (work'[u].at = "unpin" => Index!Text(u)' = Index!Gone)
      <4> DEFINE lb == IF Index!Text(t) = Index!Gone THEN "unpin" ELSE "claims"
      <4>1. /\ lb \in Places /\ work' = [work EXCEPT ![t].at = lb]
            /\ work[t].at \in Busy /\ lb \in Busy
            /\ lb = "insert" => Index!Text(t) # Index!Gone
            /\ lb = "unpin" => Index!Text(t) = Index!Gone
        BY DEF Busy, Places
      <4> HIDE DEF lb
      <4>2. work \in [Index!Threads -> Job]
        BY DEF IndexTypes
      <4>3. /\ work' \in [Index!Threads -> Job]
            /\ \A u \in Index!Threads : work'[u].file = work[u].file /\ work'[u].snap = work[u].snap
            /\ \A u \in Index!Threads \ {t} : work'[u] = work[u]
            /\ work'[t].at = lb
        BY <4>1, <4>2, MoveKeeps
      <4> QED
        BY <4>1, <4>3 DEF IndexTypes, Busy
    <3> QED
      BY <3>1, <3>2 DEF IndexTypes
  <2>2. TogetherIsSpoilt'
    BY DEF TogetherIsSpoilt, IndexTypes, Job, Busy, Places
  <2>3. IndexedSoFar'
    BY DEF IndexedSoFar, Indexed, TogetherIsSpoilt, IndexTypes, Job, Busy, Places, Index!ChunksOf
  <2>4. ShadowFollows'
    BY DEF ShadowFollows, Building, Built, IndexTypes, Job, Busy, Places, Index!ChunksOf
  <2>5. RebuildIsAlone'
    BY DEF RebuildIsAlone, Building, Built, Index!Untouched, IndexTypes, Job, Busy, Places
  <2>6. IndexIsSound'
    BY DEF IndexIsSound, Index!LedgerVouchesForChunks, Index!ClaimIsMarkedOnItsPage,
       Index!Untouched, IndexedSoFar, Indexed, TogetherIsSpoilt, IndexTypes, Job, Busy, Places
  <2> QED
    BY <2>1, <2>2, <2>3, <2>4, <2>5, <2>6
<1>4. ASSUME NEW t \in Index!Threads, Index!Unpin(t) PROVE IndexIInv'
  <2> USE <1>4
        DEF Index!Unpin, Index!index, Index!program, Index!bounds, Index!history, Index!Idle,
            Index!Nothing
  <2>1. IndexTypes'
    <3>1. pinned' \subseteq Files
      BY DEF IndexTypes
    <3>2. /\ work' \in [Index!Threads -> Job]
          /\ \A u \in Index!Threads :
               /\ work'[u].at \in Busy <=> work'[u].file # Index!Nowhere
               /\ work'[u].at = "insert" => Index!Text(u)' # Index!Gone
               /\ work'[u].at \in {"build", "swapped"} => u = "command"
               /\ work'[u].at \in Busy => (work'[u].at = "unpin" => Index!Text(u)' = Index!Gone)
      <4> DEFINE lb == "claims"
      <4>1. /\ lb \in Places /\ work' = [work EXCEPT ![t].at = lb]
            /\ work[t].at \in Busy /\ lb \in Busy
            /\ lb \notin {"insert", "unpin"}
        BY DEF Busy, Places
      <4> HIDE DEF lb
      <4>2. work \in [Index!Threads -> Job]
        BY DEF IndexTypes
      <4>3. /\ work' \in [Index!Threads -> Job]
            /\ \A u \in Index!Threads : work'[u].file = work[u].file /\ work'[u].snap = work[u].snap
            /\ \A u \in Index!Threads \ {t} : work'[u] = work[u]
            /\ work'[t].at = lb
        BY <4>1, <4>2, MoveKeeps
      <4> QED
        BY <4>1, <4>3 DEF IndexTypes, Busy
    <3> QED
      BY <3>1, <3>2 DEF IndexTypes
  <2>2. TogetherIsSpoilt'
    BY DEF TogetherIsSpoilt, IndexTypes, Job, Busy, Places
  <2>3. IndexedSoFar'
    BY DEF IndexedSoFar, Indexed, TogetherIsSpoilt, IndexTypes, Job, Busy, Places, Index!ChunksOf
  <2>4. ShadowFollows'
    BY DEF ShadowFollows, Building, Built, IndexTypes, Job, Busy, Places, Index!ChunksOf
  <2>5. RebuildIsAlone'
    BY DEF RebuildIsAlone, Building, Built, Index!Untouched, IndexTypes, Job, Busy, Places
  <2>6. IndexIsSound'
    BY DEF IndexIsSound, Index!LedgerVouchesForChunks, Index!ClaimIsMarkedOnItsPage,
       Index!Untouched, IndexedSoFar, Indexed, TogetherIsSpoilt, IndexTypes, Job, Busy, Places
  <2> QED
    BY <2>1, <2>2, <2>3, <2>4, <2>5, <2>6
<1>5. ASSUME NEW t \in Index!Threads, Index!SyncClaims(t) PROVE IndexIInv'
  <2>1. TakesNext(t)
    <3>1. [work[t] EXCEPT !.file = Index!Nowhere] \in Job
      <4>1. work[t] \in Job
        BY DEF IndexTypes
      <4> QED
        BY <4>1 DEF Job
    <3> QED
      BY <1>5, <3>1, TakeIs DEF Index!SyncClaims
  <2>2. /\ UNCHANGED <<disk, chunks, ledger, shadow, pinned>>
        /\ claim' = Index!ClaimAfter(Index!Page(t), Index!Text(t))
        /\ work[t].at = "claims"
    BY <1>5 DEF Index!SyncClaims
  <2>3. Index!Page(t) \in Files /\ (Index!Page(t) \notin spoilt => Indexed(t))
    BY <2>2 DEF IndexTypes, Busy, IndexedSoFar, Job
  <2>4. claim' \in Files \cup {Index!Nowhere}
    BY <2>2, <2>3 DEF Index!ClaimAfter, IndexTypes
  <2>5. LeftRight(t)
    BY <2>1, <2>2, <2>3, <2>4, TakeKeeps DEF Busy
  <2>6. Index!ClaimIsMarkedOnItsPage'
    BY <2>2, <2>3, <2>5
    DEF LeftRight, Index!ClaimIsMarkedOnItsPage, Index!ClaimAfter, IndexIsSound, Index!Untouched,
       Indexed
  <2> QED
    BY <2>5, <2>6 DEF LeftRight, IndexIsSound

<1>6. ASSUME NEW t \in Index!Threads, Index!ReadLedger(t) PROVE IndexIInv'
  <2>1. TakesNext(t)
    <3>1. [work[t] EXCEPT !.todo = Index!Differs(t)] \in Job
      <4>1. work[t] \in Job /\ Index!Differs(t) \subseteq Files
        BY DEF IndexTypes, Index!Differs
      <4> QED
        BY <4>1 DEF Job
    <3> QED
      BY <1>6, <3>1, TakeIs DEF Index!ReadLedger
  <2>2. UNCHANGED <<disk, chunks, ledger, shadow, pinned, claim>> /\ work[t].at = "listed"
    BY <1>6 DEF Index!ReadLedger, Index!index
  <2>3. work[t].file = Index!Nowhere
    BY <2>2 DEF IndexTypes, Busy
  <2>5. LeftRight(t)
    BY <2>1, <2>2, <2>3, TakeKeeps DEF Busy, Indexed, IndexTypes
  <2>6. Index!ClaimIsMarkedOnItsPage'
    BY <2>2, <2>3, <2>5 DEF LeftRight, Index!ClaimIsMarkedOnItsPage, IndexIsSound, Index!Untouched
  <2> QED
    BY <2>5, <2>6 DEF LeftRight, IndexIsSound

<1>7. ASSUME NEW t \in Index!Threads, Index!Fail(t) PROVE IndexIInv'
  <2> USE <1>7
        DEF Index!Fail, Index!Fault, Index!LeftHalf, Index!index, Index!program, Index!bounds,
            Index!history, Index!Idle, Index!Nothing
  <2>1. IndexTypes'
    <3>1. work' \in [Index!Threads -> Job]
      BY IdleIsJob DEF IndexTypes
    <3>2. spoilt' \subseteq Files /\ stray' \subseteq Files
      BY DEF IndexTypes, Job
    <3> QED
      BY <3>1, <3>2 DEF IndexTypes, Busy
  <2>2. TogetherIsSpoilt'
    BY DEF TogetherIsSpoilt, IndexTypes, Job, Busy, Places
  <2>3. IndexedSoFar'
    BY DEF IndexedSoFar, Indexed, TogetherIsSpoilt, IndexTypes, Job, Busy, Places, Index!ChunksOf
  <2>4. ShadowFollows'
    BY DEF ShadowFollows, Building, Built, IndexTypes, Job, Busy, Places, Index!ChunksOf
  <2>5. RebuildIsAlone'
    BY DEF RebuildIsAlone, Building, Built, Index!Untouched, IndexTypes, Job, Busy, Places
  <2>6. IndexIsSound'
    BY DEF IndexIsSound, Index!LedgerVouchesForChunks, Index!ClaimIsMarkedOnItsPage,
       Index!Untouched, IndexedSoFar, Indexed, TogetherIsSpoilt, IndexTypes, Job, Busy, Places
  <2> QED
    BY <2>1, <2>2, <2>3, <2>4, <2>5, <2>6
<1>8. ASSUME Index!Startup PROVE IndexIInv'
  <2> USE <1>8
        DEF Index!Startup, Index!List, Index!index, Index!program, Index!bounds, Index!history,
            Index!Idle, Index!Nothing
  <2>1. IndexTypes'
    BY DEF IndexTypes, Job, Busy, Places, Index!Contents
  <2>2. TogetherIsSpoilt'
    BY DEF TogetherIsSpoilt, IndexTypes, Job, Busy, Places
  <2>3. IndexedSoFar'
    BY DEF IndexedSoFar, Indexed, TogetherIsSpoilt, IndexTypes, Job, Busy, Places, Index!ChunksOf
  <2>4. ShadowFollows'
    BY DEF ShadowFollows, Building, Built, IndexTypes, Job, Busy, Places, Index!ChunksOf
  <2>5. RebuildIsAlone'
    BY DEF RebuildIsAlone, Building, Built, Index!Untouched, IndexTypes, Job, Busy, Places
  <2>6. IndexIsSound'
    BY DEF IndexIsSound, Index!LedgerVouchesForChunks, Index!ClaimIsMarkedOnItsPage,
       Index!Untouched, IndexedSoFar, Indexed, TogetherIsSpoilt, IndexTypes, Job, Busy, Places
  <2> QED
    BY <2>1, <2>2, <2>3, <2>4, <2>5, <2>6
<1>9. ASSUME Index!StartWatcher PROVE IndexIInv'
  <2> USE <1>9
        DEF Index!StartWatcher, Index!index, Index!program, Index!bounds, Index!history,
            Index!Idle, Index!Nothing
  <2>1. IndexTypes'
    BY DEF IndexTypes, Job, Busy, Places, Index!Contents
  <2>2. TogetherIsSpoilt'
    BY DEF TogetherIsSpoilt, IndexTypes, Job, Busy, Places
  <2>3. IndexedSoFar'
    BY DEF IndexedSoFar, Indexed, TogetherIsSpoilt, IndexTypes, Job, Busy, Places, Index!ChunksOf
  <2>4. ShadowFollows'
    BY DEF ShadowFollows, Building, Built, IndexTypes, Job, Busy, Places, Index!ChunksOf
  <2>5. RebuildIsAlone'
    BY DEF RebuildIsAlone, Building, Built, Index!Untouched, IndexTypes, Job, Busy, Places
  <2>6. IndexIsSound'
    BY DEF IndexIsSound, Index!LedgerVouchesForChunks, Index!ClaimIsMarkedOnItsPage,
       Index!Untouched, IndexedSoFar, Indexed, TogetherIsSpoilt, IndexTypes, Job, Busy, Places
  <2> QED
    BY <2>1, <2>2, <2>3, <2>4, <2>5, <2>6
<1>10. ASSUME Index!WatcherReconcile PROVE IndexIInv'
  <2> USE <1>10
        DEF Index!WatcherReconcile, Index!List, Index!index, Index!program, Index!bounds,
            Index!history, Index!Idle, Index!Nothing
  <2>1. IndexTypes'
    BY DEF IndexTypes, Job, Busy, Places, Index!Contents
  <2>2. TogetherIsSpoilt'
    BY DEF TogetherIsSpoilt, IndexTypes, Job, Busy, Places
  <2>3. IndexedSoFar'
    BY DEF IndexedSoFar, Indexed, TogetherIsSpoilt, IndexTypes, Job, Busy, Places, Index!ChunksOf
  <2>4. ShadowFollows'
    BY DEF ShadowFollows, Building, Built, IndexTypes, Job, Busy, Places, Index!ChunksOf
  <2>5. RebuildIsAlone'
    BY DEF RebuildIsAlone, Building, Built, Index!Untouched, IndexTypes, Job, Busy, Places
  <2>6. IndexIsSound'
    BY DEF IndexIsSound, Index!LedgerVouchesForChunks, Index!ClaimIsMarkedOnItsPage,
       Index!Untouched, IndexedSoFar, Indexed, TogetherIsSpoilt, IndexTypes, Job, Busy, Places
  <2> QED
    BY <2>1, <2>2, <2>3, <2>4, <2>5, <2>6
<1>11. ASSUME Index!Reindex PROVE IndexIInv'
  <2> USE <1>11
        DEF Index!Reindex, Index!Command, Index!List, Index!index, Index!program, Index!bounds,
            Index!history, Index!Idle, Index!Nothing
  <2>1. IndexTypes'
    BY DEF IndexTypes, Job, Busy, Places, Index!Contents
  <2>2. TogetherIsSpoilt'
    BY DEF TogetherIsSpoilt, IndexTypes, Job, Busy, Places
  <2>3. IndexedSoFar'
    BY DEF IndexedSoFar, Indexed, TogetherIsSpoilt, IndexTypes, Job, Busy, Places, Index!ChunksOf
  <2>4. ShadowFollows'
    BY DEF ShadowFollows, Building, Built, IndexTypes, Job, Busy, Places, Index!ChunksOf
  <2>5. RebuildIsAlone'
    BY DEF RebuildIsAlone, Building, Built, Index!Untouched, IndexTypes, Job, Busy, Places
  <2>6. IndexIsSound'
    BY DEF IndexIsSound, Index!LedgerVouchesForChunks, Index!ClaimIsMarkedOnItsPage,
       Index!Untouched, IndexedSoFar, Indexed, TogetherIsSpoilt, IndexTypes, Job, Busy, Places
  <2> QED
    BY <2>1, <2>2, <2>3, <2>4, <2>5, <2>6
<1>12. ASSUME Index!ForceReindex PROVE IndexIInv'
  <2> USE <1>12
        DEF Index!ForceReindex, Index!Command, Index!List, Index!index, Index!program,
            Index!bounds, Index!history, Index!Idle, Index!Nothing
  <2>1. IndexTypes'
    BY DEF IndexTypes, Job, Busy, Places, Index!Contents
  <2>2. TogetherIsSpoilt'
    BY DEF TogetherIsSpoilt, IndexTypes, Job, Busy, Places
  <2>3. IndexedSoFar'
    BY DEF IndexedSoFar, Indexed, TogetherIsSpoilt, IndexTypes, Job, Busy, Places, Index!ChunksOf
  <2>4. ShadowFollows'
    BY DEF ShadowFollows, Building, Built, IndexTypes, Job, Busy, Places, Index!ChunksOf
  <2>5. RebuildIsAlone'
    BY DEF RebuildIsAlone, Building, Built, Index!Untouched, IndexTypes, Job, Busy, Places
  <2>6. IndexIsSound'
    BY DEF IndexIsSound, Index!LedgerVouchesForChunks, Index!ClaimIsMarkedOnItsPage,
       Index!Untouched, IndexedSoFar, Indexed, TogetherIsSpoilt, IndexTypes, Job, Busy, Places
  <2> QED
    BY <2>1, <2>2, <2>3, <2>4, <2>5, <2>6
<1>13. ASSUME Index!ClearShadow PROVE IndexIInv'
  <2> USE <1>13
        DEF Index!ClearShadow, Index!Alone, Index!index, Index!program, Index!bounds,
            Index!history, Index!Idle, Index!Nothing
  <2>1. IndexTypes'
    <3>1. shadow' \in [Files -> Seq(Texts)] /\ stray' \subseteq Files
      BY DEF IndexTypes
    <3>2. /\ work' \in [Index!Threads -> Job]
          /\ \A u \in Index!Threads :
               /\ work'[u].at \in Busy <=> work'[u].file # Index!Nowhere
               /\ work'[u].at = "insert" => Index!Text(u)' # Index!Gone
               /\ work'[u].at \in {"build", "swapped"} => u = "command"
               /\ work'[u].at \in Busy => (work'[u].at = "unpin" => Index!Text(u)' = Index!Gone)
      <4> DEFINE r == [work["command"] EXCEPT !.at = "build", !.todo = Files]
      <4>1. work["command"] \in Job /\ work["command"].file = Index!Nowhere
        BY DEF IndexTypes, Busy
      <4>2. /\ r \in Job /\ r.file = Index!Nowhere /\ r.at \notin Busy
            /\ work' = [work EXCEPT !["command"] = r]
        <5>1. r \in Job
          BY ONLY <4>1 DEF Job, Places
        <5>2. r.file = Index!Nowhere /\ r.at = "build"
          BY ONLY <4>1 DEF Job
        <5>3. work' = [work EXCEPT !["command"] = r]
          OBVIOUS
        <5> QED
          BY <5>1, <5>2, <5>3 DEF Busy
      <4> HIDE DEF r
      <4> QED
        BY <4>2, JobKeeps
    <3> QED
      BY <3>1, <3>2 DEF IndexTypes
  <2>2. TogetherIsSpoilt'
    BY DEF TogetherIsSpoilt, IndexTypes, Job, Busy, Places
  <2>3. IndexedSoFar'
    BY DEF IndexedSoFar, Indexed, TogetherIsSpoilt, IndexTypes, Job, Busy, Places, Index!ChunksOf
  <2>4. ShadowFollows'
    BY DEF ShadowFollows, Building, Built, IndexTypes, Job, Busy, Places, Index!ChunksOf
  <2>5. RebuildIsAlone'
    <3>1. work'["command"].todo = Files /\ work["command"].file = Index!Nowhere
      BY DEF IndexTypes, Job, Busy
    <3>2. \A u \in Index!Threads : work'[u].file = work[u].file
      BY DEF IndexTypes, Job
    <3>3. ASSUME NEW f \in Files \ stray' PROVE Index!Untouched(f)'
      BY <3>1, <3>2 DEF Index!Untouched
    <3> QED
      BY <3>1, <3>3 DEF RebuildIsAlone
  <2>6. IndexIsSound'
    BY DEF IndexIsSound, Index!LedgerVouchesForChunks, Index!ClaimIsMarkedOnItsPage,
       Index!Untouched, IndexedSoFar, Indexed, TogetherIsSpoilt, IndexTypes, Job, Busy, Places
  <2> QED
    BY <2>1, <2>2, <2>3, <2>4, <2>5, <2>6
<1>14. ASSUME NEW f \in Files, Index!BuildShadow(f) PROVE IndexIInv'
  <2> USE <1>14
        DEF Index!BuildShadow, Index!ClaimAfter, Index!index, Index!program, Index!bounds,
            Index!history, Index!Idle, Index!Nothing
  <2>1. IndexTypes'
    <3>1. /\ shadow' \in [Files -> Seq(Texts)] /\ stray' \subseteq Files
          /\ claim' \in Files \cup {Index!Nowhere}
      <4>1. Built(f) \in Index!Contents /\ f \in Files
        BY DEF IndexTypes, Job, Built
      <4>2. Built(f) = Index!Gone \/ Built(f) \in Texts
        BY <4>1 DEF Index!Contents
      <4>3. \/ shadow' = shadow
            \/ Built(f) \in Texts /\ shadow' = [shadow EXCEPT ![f] = Append(@, Built(f))]
        BY <4>2 DEF Built
      <4>4. shadow' \in [Files -> Seq(Texts)]
        <5>1. shadow \in [Files -> Seq(Texts)]
          BY DEF IndexTypes
        <5>2. CASE shadow' = shadow
          BY <5>1, <5>2
        <5>3. CASE shadow' # shadow
          <6> DEFINE x == Built(f)
          <6>1. f \in Files /\ x \in Texts /\ shadow' = [shadow EXCEPT ![f] = Append(@, x)]
            BY <4>1, <4>3, <5>3
          <6> HIDE DEF x
          <6> QED
            BY ONLY <5>1, <6>1, AppendTyped
        <5> QED
          BY <5>2, <5>3
      <4>5. stray' \subseteq Files /\ claim' \in Files \cup {Index!Nowhere}
        BY <4>1 DEF IndexTypes
      <4> QED
        BY <4>4, <4>5
    <3>2. /\ work' \in [Index!Threads -> Job]
          /\ \A u \in Index!Threads :
               /\ work'[u].at \in Busy <=> work'[u].file # Index!Nowhere
               /\ work'[u].at = "insert" => Index!Text(u)' # Index!Gone
               /\ work'[u].at \in {"build", "swapped"} => u = "command"
               /\ work'[u].at \in Busy => (work'[u].at = "unpin" => Index!Text(u)' = Index!Gone)
      <4> DEFINE r == [work["command"] EXCEPT !.todo = @ \ {f}]
      <4>1. work["command"] \in Job /\ work["command"].file = Index!Nowhere
        BY DEF IndexTypes, Busy
      <4>2. /\ r \in Job /\ r.file = Index!Nowhere /\ r.at \notin Busy
            /\ work' = [work EXCEPT !["command"] = r]
        BY <4>1 DEF Job, Busy, Places
      <4> HIDE DEF r
      <4> QED
        BY <4>2, JobKeeps
    <3> QED
      BY <3>1, <3>2 DEF IndexTypes
  <2>2. TogetherIsSpoilt'
    BY DEF TogetherIsSpoilt, IndexTypes, Job, Busy, Places
  <2>3. IndexedSoFar'
    BY DEF IndexedSoFar, Indexed, TogetherIsSpoilt, IndexTypes, Job, Busy, Places, Index!ChunksOf
  <2>4. ShadowFollows'
    BY DEF ShadowFollows, Building, Built, IndexTypes, Job, Busy, Places, Index!ChunksOf
  <2>5. RebuildIsAlone'
    BY DEF RebuildIsAlone, Building, Built, Index!Untouched, IndexTypes, Job, Busy, Places
  <2>6. IndexIsSound'
    BY DEF IndexIsSound, Index!LedgerVouchesForChunks, Index!ClaimIsMarkedOnItsPage,
       Index!Untouched, IndexedSoFar, Indexed, TogetherIsSpoilt, IndexTypes, Job, Busy, Places
  <2> QED
    BY <2>1, <2>2, <2>3, <2>4, <2>5, <2>6
<1>15. ASSUME Index!Swap PROVE IndexIInv'
  <2> USE <1>15
        DEF Index!Swap, Index!SwapInto, Index!Alone, Index!index, Index!program, Index!bounds,
            Index!history, Index!Idle, Index!Nothing
  <2>1. IndexTypes'
    BY DEF IndexTypes, Job, Busy, Places, Index!Contents
  <2>2. TogetherIsSpoilt'
    BY DEF TogetherIsSpoilt, IndexTypes, Job, Busy, Places
  <2>3. IndexedSoFar'
    BY DEF IndexedSoFar, Indexed, TogetherIsSpoilt, IndexTypes, Job, Busy, Places, Index!ChunksOf
  <2>4. ShadowFollows'
    BY DEF ShadowFollows, Building, Built, IndexTypes, Job, Busy, Places, Index!ChunksOf
  <2>5. RebuildIsAlone'
    BY DEF RebuildIsAlone, Building, Built, Index!Untouched, IndexTypes, Job, Busy, Places
  <2>6. IndexIsSound'
    <3>1. Index!LedgerVouchesForChunks'
      BY DEF Index!LedgerVouchesForChunks, Index!Untouched, ShadowFollows, Building, Built,
         IndexTypes, Job, Index!ChunksOf
    <3>2. Index!ClaimIsMarkedOnItsPage'
      BY DEF IndexIsSound, Index!ClaimIsMarkedOnItsPage, Index!Untouched, RebuildIsAlone, Building,
         Built, IndexTypes, Job, Busy
    <3> QED
      BY <3>1, <3>2 DEF IndexIsSound
  <2> QED
    BY <2>1, <2>2, <2>3, <2>4, <2>5, <2>6
<1>16. ASSUME Index!EmptyShadow PROVE IndexIInv'
  <2> USE <1>16
        DEF Index!EmptyShadow, Index!index, Index!program, Index!bounds, Index!history,
            Index!Idle, Index!Nothing
  <2>1. IndexTypes'
    BY DEF IndexTypes, Job, Busy, Places, Index!Contents
  <2>2. TogetherIsSpoilt'
    BY DEF TogetherIsSpoilt, IndexTypes, Job, Busy, Places
  <2>3. IndexedSoFar'
    BY DEF IndexedSoFar, Indexed, TogetherIsSpoilt, IndexTypes, Job, Busy, Places, Index!ChunksOf
  <2>4. ShadowFollows'
    BY DEF ShadowFollows, Building, Built, IndexTypes, Job, Busy, Places, Index!ChunksOf
  <2>5. RebuildIsAlone'
    BY DEF RebuildIsAlone, Building, Built, Index!Untouched, IndexTypes, Job, Busy, Places
  <2>6. IndexIsSound'
    BY DEF IndexIsSound, Index!LedgerVouchesForChunks, Index!ClaimIsMarkedOnItsPage,
       Index!Untouched, IndexedSoFar, Indexed, TogetherIsSpoilt, IndexTypes, Job, Busy, Places
  <2> QED
    BY <2>1, <2>2, <2>3, <2>4, <2>5, <2>6
<1>17. ASSUME NEW f \in Files, Index!Pin(f) PROVE IndexIInv'
  <2> USE <1>17
        DEF Index!Pin, Index!index, Index!program, Index!bounds, Index!history, Index!Idle,
            Index!Nothing
  <2>1. IndexTypes'
    BY DEF IndexTypes, Job, Busy, Places, Index!Contents
  <2>2. TogetherIsSpoilt'
    BY DEF TogetherIsSpoilt, IndexTypes, Job, Busy, Places
  <2>3. IndexedSoFar'
    BY DEF IndexedSoFar, Indexed, TogetherIsSpoilt, IndexTypes, Job, Busy, Places, Index!ChunksOf
  <2>4. ShadowFollows'
    BY DEF ShadowFollows, Building, Built, IndexTypes, Job, Busy, Places, Index!ChunksOf
  <2>5. RebuildIsAlone'
    BY DEF RebuildIsAlone, Building, Built, Index!Untouched, IndexTypes, Job, Busy, Places
  <2>6. IndexIsSound'
    BY DEF IndexIsSound, Index!LedgerVouchesForChunks, Index!ClaimIsMarkedOnItsPage,
       Index!Untouched, IndexedSoFar, Indexed, TogetherIsSpoilt, IndexTypes, Job, Busy, Places
  <2> QED
    BY <2>1, <2>2, <2>3, <2>4, <2>5, <2>6
<1>18. ASSUME NEW f \in Files, NEW text \in Index!Contents, Index!Edit(f, text) PROVE IndexIInv'
  <2> USE <1>18
        DEF Index!Edit, Index!Change, Index!Notice, Index!index, Index!program, Index!bounds,
            Index!history, Index!Idle, Index!Nothing
  <2>1. IndexTypes'
    BY DEF IndexTypes, Job, Busy, Places, Index!Contents
  <2>2. TogetherIsSpoilt'
    BY DEF TogetherIsSpoilt, IndexTypes, Job, Busy, Places
  <2>3. IndexedSoFar'
    BY DEF IndexedSoFar, Indexed, TogetherIsSpoilt, IndexTypes, Job, Busy, Places, Index!ChunksOf
  <2>4. ShadowFollows'
    BY DEF ShadowFollows, Building, Built, IndexTypes, Job, Busy, Places, Index!ChunksOf
  <2>5. RebuildIsAlone'
    BY DEF RebuildIsAlone, Building, Built, Index!Untouched, IndexTypes, Job, Busy, Places
  <2>6. IndexIsSound'
    BY DEF IndexIsSound, Index!LedgerVouchesForChunks, Index!ClaimIsMarkedOnItsPage,
       Index!Untouched, IndexedSoFar, Indexed, TogetherIsSpoilt, IndexTypes, Job, Busy, Places
  <2> QED
    BY <2>1, <2>2, <2>3, <2>4, <2>5, <2>6
<1>19. ASSUME NEW f \in Files, NEW text \in Index!Contents, Index!AgentWrite(f, text)
       PROVE  IndexIInv'
  <2> USE <1>19
        DEF Index!AgentWrite, Index!Change, Index!Notice, Index!index, Index!program,
            Index!bounds, Index!history, Index!Idle, Index!Nothing
  <2>1. IndexTypes'
    <3> DEFINE r == [Index!Idle EXCEPT !.at = "sync", !.op = "write",
                                       !.snap[f] = text, !.todo = {f}]
    <3>1. disk' \in [Files -> Index!Contents]
      BY DEF IndexTypes
    <3>2. r \in Job /\ r.file = Index!Nowhere /\ r.at = "sync"
      BY ONLY f \in Files, text \in Index!Contents
      DEF Job, Places, Index!Idle, Index!Nothing, Index!Contents
    <3>3. work' = [work EXCEPT !["main"] = r]
      OBVIOUS
    <3> HIDE DEF r
    <3> QED
      BY <3>1, <3>2, <3>3, JobKeeps DEF IndexTypes, Busy
  <2>2. TogetherIsSpoilt'
    BY DEF TogetherIsSpoilt, IndexTypes, Job, Busy, Places
  <2>3. IndexedSoFar'
    BY DEF IndexedSoFar, Indexed, TogetherIsSpoilt, IndexTypes, Job, Busy, Places, Index!ChunksOf
  <2>4. ShadowFollows'
    BY DEF ShadowFollows, Building, Built, IndexTypes, Job, Busy, Places, Index!ChunksOf
  <2>5. RebuildIsAlone'
    BY DEF RebuildIsAlone, Building, Built, Index!Untouched, IndexTypes, Job, Busy, Places
  <2>6. IndexIsSound'
    BY DEF IndexIsSound, Index!LedgerVouchesForChunks, Index!ClaimIsMarkedOnItsPage,
       Index!Untouched, IndexedSoFar, Indexed, TogetherIsSpoilt, IndexTypes, Job, Busy, Places
  <2> QED
    BY <2>1, <2>2, <2>3, <2>4, <2>5, <2>6
<1>20. ASSUME Index!SyncIndex PROVE IndexIInv'
  <2> DEFINE t == "main"
  <2>1. TakesNext(t)
    <3>1. work[t] \in Job
      BY DEF IndexTypes
    <3> QED
      BY <1>20, <3>1, TakeIs DEF Index!SyncIndex
  <2>2. UNCHANGED <<disk, chunks, ledger, shadow, pinned, claim>> /\ work[t].at = "sync"
    BY <1>20 DEF Index!SyncIndex, Index!index
  <2>3. work[t].file = Index!Nowhere
    BY <2>2 DEF IndexTypes, Busy
  <2>5. LeftRight(t)
    BY <2>1, <2>2, <2>3, TakeKeeps DEF Busy, Indexed, IndexTypes
  <2>6. Index!ClaimIsMarkedOnItsPage'
    BY <2>2, <2>3, <2>5 DEF LeftRight, Index!ClaimIsMarkedOnItsPage, IndexIsSound, Index!Untouched
  <2> QED
    BY <2>5, <2>6 DEF LeftRight, IndexIsSound

<1>21. ASSUME Index!PinRow PROVE IndexIInv'
  <2> USE <1>21
        DEF Index!PinRow, Index!index, Index!program, Index!bounds, Index!history, Index!Idle,
            Index!Nothing
  <2>1. IndexTypes'
    BY DEF IndexTypes, Job, Busy, Places, Index!Contents
  <2>2. TogetherIsSpoilt'
    BY DEF TogetherIsSpoilt, IndexTypes, Job, Busy, Places
  <2>3. IndexedSoFar'
    BY DEF IndexedSoFar, Indexed, TogetherIsSpoilt, IndexTypes, Job, Busy, Places, Index!ChunksOf
  <2>4. ShadowFollows'
    BY DEF ShadowFollows, Building, Built, IndexTypes, Job, Busy, Places, Index!ChunksOf
  <2>5. RebuildIsAlone'
    BY DEF RebuildIsAlone, Building, Built, Index!Untouched, IndexTypes, Job, Busy, Places
  <2>6. IndexIsSound'
    BY DEF IndexIsSound, Index!LedgerVouchesForChunks, Index!ClaimIsMarkedOnItsPage,
       Index!Untouched, IndexedSoFar, Indexed, TogetherIsSpoilt, IndexTypes, Job, Busy, Places
  <2> QED
    BY <2>1, <2>2, <2>3, <2>4, <2>5, <2>6
<1>22. ASSUME Index!Crash PROVE IndexIInv'
  <2> USE <1>22
        DEF Index!Crash, Index!Fault, Index!LeftHalf, Index!index, Index!program, Index!bounds,
            Index!history, Index!Idle, Index!Nothing
  <2>1. IndexTypes'
    BY DEF IndexTypes, Job, Busy, Places, Index!Contents
  <2>2. TogetherIsSpoilt'
    BY DEF TogetherIsSpoilt, IndexTypes, Job, Busy, Places
  <2>3. IndexedSoFar'
    BY DEF IndexedSoFar, Indexed, TogetherIsSpoilt, IndexTypes, Job, Busy, Places, Index!ChunksOf
  <2>4. ShadowFollows'
    BY DEF ShadowFollows, Building, Built, IndexTypes, Job, Busy, Places, Index!ChunksOf
  <2>5. RebuildIsAlone'
    BY DEF RebuildIsAlone, Building, Built, Index!Untouched, IndexTypes, Job, Busy, Places
  <2>6. IndexIsSound'
    BY DEF IndexIsSound, Index!LedgerVouchesForChunks, Index!ClaimIsMarkedOnItsPage,
       Index!Untouched, IndexedSoFar, Indexed, TogetherIsSpoilt, IndexTypes, Job, Busy, Places
  <2> QED
    BY <2>1, <2>2, <2>3, <2>4, <2>5, <2>6
<1>23. CASE UNCHANGED Index!vars
  <2> USE <1>23 DEF Index!vars, Index!index, Index!program, Index!bounds, Index!history
  <2>1. IndexTypes'
    BY DEF IndexTypes
  <2>2. TogetherIsSpoilt' /\ IndexedSoFar'
    BY DEF TogetherIsSpoilt, IndexedSoFar, Indexed
  <2>3. ShadowFollows' /\ RebuildIsAlone'
    BY DEF ShadowFollows, RebuildIsAlone, Building, Built, Index!Untouched
  <2>4. IndexIsSound'
    BY DEF IndexIsSound, Index!LedgerVouchesForChunks, Index!ClaimIsMarkedOnItsPage, Index!Untouched
  <2> QED
    BY <2>1, <2>2, <2>3, <2>4
<1> QED
  BY <1>1, <1>2, <1>3, <1>4, <1>5, <1>6, <1>7, <1>8, <1>9, <1>10, <1>11, <1>12, <1>13, <1>14,
     <1>15, <1>16, <1>17, <1>18, <1>19, <1>20, <1>21, <1>22, <1>23 DEF Index!Next, Index!Work,
     Index!Force
\* A step of the run is one of the index, or leaves it alone.
LEMMA IndexStep == [MCNext]_mcVars => [Index!Next]_(Index!vars)
  BY DEF MCNext, mcVars, indexVars, Index!vars, Index!index, Index!program, Index!bounds,
         Index!history

(* For any files, texts, writers, commands, errors and crashes: what a      *)
(* reconcile will skip because its hash is in the ledger has exactly the     *)
(* chunks of that text, and a claim is on a page that marks it, unless two   *)
(* threads indexed the file at a time or one stopped in it.                  *)
THEOREM IndexSound == MCSpec => []IndexIsSound
<1>1. MCInit => IndexIInv
  BY IndexInit, Assumptions DEF MCInit
<1>2. IndexIInv /\ [MCNext]_mcVars => IndexIInv'
  BY IndexStep, IndexNext, Assumptions
<1>3. IndexIInv => IndexIsSound
  BY DEF IndexIInv
<1> QED
  BY <1>1, <1>2, <1>3, PTL DEF MCSpec
=============================================================================
