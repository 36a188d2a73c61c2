------------------------ MODULE Commitments_proofs -------------------------
(***************************************************************************)
(* Theorems about the check-ins, for any exchanges, rooms, follow-ups and  *)
(* limits: what makes the lookup before the insert enough, why nobody is   *)
(* told of a row that is no longer pending, why the day's quota holds      *)
(* although only the listing counts, and why an exchange is followed up    *)
(* once but for faults and crashes.                                        *)
(***************************************************************************)
EXTENDS MCCommitments, FiniteSetTheorems, SequenceTheorems, TLAPS

Statuses == {"pending", "sent", "dismissed", "expired", "deleted"}
Holding == {"claimed", "recording", "writing", "failing"}
InTurn == {"turn", "delivering", "marking", "dismissing"}

\* The worker holds a running job, and a job that may run again has an attempt
\* left.
HeldIsRunning ==
  /\ worker \in Holding => held \in Jobs /\ state[held] = "running"
  /\ \A j \in Jobs : state[j] \in {"absent", "pending", "running"} => attempts[j] < MaxAttempts

\* What the worker looked up and has not written yet is still so.
LookupHolds == worker = "writing" =>
  /\ key \in Keys
  /\ found = NoRow => Matching(key) = {}

\* Only the command line takes a row away from the tool that works on it.
TargetIsPending ==
  /\ cli = 0 => chosen = NoRow
  /\ beat \in {"delivering", "marking", "dismissing"} => target \in Ids
  /\ beat = "delivering" => Pending(target) \/ cli > 0

\* The rows sent today, and those an obedient model may still send this tick.
Sent == {r \in Ids : rows[r].status = "sent" /\ rows[r].today}
QuotaIsKept == obedient = TRUE =>
  /\ Cardinality(Sent) <= MaxPerDay
  /\ beat = "listing" => Cardinality(Sent) + limit <= MaxPerDay
  /\ beat \in InTurn => Cardinality(Sent \cup listed) <= MaxPerDay
  /\ beat \in {"delivering", "marking", "dismissing"} => target \in listed

IInv == /\ TypeOK /\ HeldIsRunning /\ LookupHolds /\ OnePendingPerKey /\ TargetIsPending
        /\ QuotaIsKept

\* The parts of the type invariant.
JobsOK ==
  /\ state \in [Jobs -> {"absent", "pending", "running", "done", "failed"}]
  /\ attempts \in [Jobs -> 0 .. MaxAttempts] /\ channel \in [Jobs -> Channels]
RowsOK == rows \in Seq(Row) /\ Len(rows) <= MaxRows
WorkerOK ==
  /\ worker \in {"idle", "claimed", "recording", "writing", "failing", "dead"}
  /\ held \in Jobs \cup {NoJob} /\ todo \subseteq Keys /\ key \in Keys \cup {NoKey}
  /\ found \in Ids \cup {NoRow}
BeatOK ==
  /\ beat \in {"idle", "counting", "listing", "turn", "delivering", "marking", "dismissing"}
  /\ limit \in 0 .. MaxPerBeat /\ listed \subseteq Ids /\ target \in Ids \cup {NoRow}
RestOK ==
  /\ chosen \in Ids \cup {NoRow} /\ obedient \in BOOLEAN
  /\ faults \in 0 .. MaxFaults /\ crashes \in 0 .. MaxFaults /\ failures \in 0 .. MaxFailures
  /\ cli \in 0 .. MaxCli

\* Types, part by part.
LEMMA TypeParts ==
  /\ TypeOK <=> JobsOK /\ RowsOK /\ WorkerOK /\ BeatOK /\ RestOK
  /\ TypeOK' <=> JobsOK' /\ RowsOK' /\ WorkerOK' /\ BeatOK' /\ RestOK'
  BY DEF TypeOK, JobsOK, RowsOK, WorkerOK, BeatOK, RestOK

\* A change of the rows that makes none pending and moves none to another
\* exchange, room or follow-up.
Kept ==
  /\ rows' \in Seq(Row) /\ Len(rows') = Len(rows)
  /\ \A r \in Ids : /\ rows'[r].job = rows[r].job /\ rows'[r].channel = rows[r].channel
                    /\ rows'[r].key = rows[r].key
                    /\ rows'[r].status = "pending" => rows[r].status = "pending"

\* One row replaced.
LEMMA Replace ==
  ASSUME rows \in Seq(Row), NEW r \in Ids, NEW n \in Row, rows' = [rows EXCEPT ![r] = n],
         n.job = rows[r].job, n.channel = rows[r].channel, n.key = rows[r].key,
         n.status = "pending" => rows[r].status = "pending"
  PROVE  Kept /\ rows'[r] = n /\ \A q \in Ids \ {r} : rows'[q] = rows[q]
  BY DEF Kept, Ids

\* A row that leaves the pending state.
LEMMA SetStatusKeeps ==
  ASSUME rows \in Seq(Row), NEW r \in Ids, NEW x \in Statuses \ {"pending"}, SetStatus(r, x)
  PROVE  /\ Kept /\ \A q \in Ids \ {r} : rows'[q] = rows[q]
         /\ rows'[r].told = rows[r].told
         /\ rows'[r].status # "pending"
         /\ rows'[r].status = "sent" /\ rows'[r].today => x = "sent"
<1> DEFINE n == [rows[r] EXCEPT !.status = IF @ = "deleted" THEN @ ELSE x,
                                !.today = x = "sent", !.window = "past"]
<1>1. rows[r] \in Row
  BY DEF Ids
<1>2. /\ n \in Row /\ n.job = rows[r].job /\ n.channel = rows[r].channel /\ n.key = rows[r].key
      /\ n.told = rows[r].told /\ n.status # "pending" /\ (n.today <=> x = "sent")
  BY <1>1 DEF Row, Statuses
<1>3. rows' = [rows EXCEPT ![r] = n]
  BY <1>1 DEF SetStatus, Ids, Row
<1> QED
  BY <1>2, <1>3, Replace

\* What was looked up stays true while rows only leave the pending state.
LEMMA KeptKeeps ==
  ASSUME rows \in Seq(Row), LookupHolds, OnePendingPerKey, Kept, UNCHANGED <<channel, worker_vars>>
  PROVE  LookupHolds' /\ OnePendingPerKey' /\ Ids' = Ids
<1>1. Ids' = Ids
  BY DEF Kept, Ids
<1>2. LookupHolds'
  BY <1>1 DEF Kept, LookupHolds, Matching, Pending, worker_vars
<1>3. OnePendingPerKey'
  BY <1>1 DEF Kept, OnePendingPerKey, Pending
<1> QED
  BY <1>1, <1>2, <1>3

\* A union is not larger than its parts together.
LEMMA UnionBound ==
  ASSUME NEW S, IsFiniteSet(S), NEW T, IsFiniteSet(T)
  PROVE  Cardinality(S \cup T) <= Cardinality(S) + Cardinality(T)
<1>1. S \cap T \in SUBSET S
  OBVIOUS
<1>2. Cardinality(S \cap T) \in Nat /\ Cardinality(S) \in Nat /\ Cardinality(T) \in Nat
  BY <1>1, FS_Subset, FS_CardinalityType
<1>3. Cardinality(S \cup T) = Cardinality(S) + Cardinality(T) - Cardinality(S \cap T)
  BY FS_Union
<1> QED
  BY <1>2, <1>3

\* The placeholder is not the number of a row.
LEMMA NoRowIsNoId == rows \in Seq(Row) => NoRow \notin Ids
  BY DEF Ids, NoRow

\* Fewer rows sent today leave the quota as it was.
LEMMA SentIsFinite ==
  ASSUME rows \in Seq(Row), NEW S \in SUBSET Ids
  PROVE  IsFiniteSet(S) /\ IsFiniteSet(Sent) /\ IsFiniteSet(Sent \cup S)
<1>1. IsFiniteSet(1..Len(rows)) /\ Ids = 1..Len(rows)
  BY FS_Interval DEF Ids
<1>2. Sent \subseteq Ids /\ Sent \cup S \subseteq Ids
  BY DEF Sent
<1> QED
  BY <1>1, <1>2, FS_Subset

\* Fewer rows listed leave the quota as it was.
LEMMA QuotaShrinks ==
  ASSUME rows \in Seq(Row), rows' \in Seq(Row), Ids' = Ids, listed \subseteq Ids, QuotaIsKept,
         limit \in Nat, MaxPerDay \in Nat,
         Sent' \subseteq Sent \/ (beat \in InTurn /\ Sent' \subseteq Sent \cup listed),
         obedient' = obedient,
         \/ UNCHANGED <<beat, limit, listed>> /\ target' \in {target, NoRow}
              /\ (beat \in {"delivering", "marking", "dismissing"} => target' = target)
         \/ beat' \notin InTurn \cup {"listing"}
         \/ beat \in InTurn /\ beat' = "turn" /\ UNCHANGED listed
         \/ beat \in InTurn /\ beat' \in InTurn /\ UNCHANGED listed /\ target' \in listed
  PROVE  QuotaIsKept'
<1> SUFFICES ASSUME obedient = TRUE PROVE QuotaIsKept'
  BY DEF QuotaIsKept
<1>1. /\ IsFiniteSet(Sent) /\ IsFiniteSet(Sent \cup listed) /\ IsFiniteSet(Sent')
      /\ IsFiniteSet(Sent' \cup listed)
  <2>1. Sent' \subseteq Ids
    BY DEF Sent
  <2> QED
    BY <2>1, SentIsFinite, FS_Subset
<1>2. Cardinality(Sent') <= MaxPerDay
  <2>1. CASE Sent' \subseteq Sent
    BY <1>1, <2>1, FS_Subset, FS_CardinalityType DEF QuotaIsKept
  <2>2. CASE beat \in InTurn /\ Sent' \subseteq Sent \cup listed
    BY <1>1, <2>2, FS_Subset, FS_CardinalityType DEF QuotaIsKept
  <2> QED
    BY <2>1, <2>2
<1>3. beat \in InTurn => Cardinality(Sent' \cup listed) <= MaxPerDay
  <2>1. Sent' \cup listed \subseteq Sent \cup listed
    OBVIOUS
  <2> QED
    BY <1>1, <2>1, FS_Subset, FS_CardinalityType DEF QuotaIsKept
<1>4. beat = "listing" => Cardinality(Sent') + limit <= MaxPerDay
  <2>1. beat = "listing" => Sent' \subseteq Sent
    BY DEF InTurn
  <2> QED
    BY <1>1, <2>1, FS_Subset, FS_CardinalityType DEF QuotaIsKept
<1>5. beat' = "listing" => beat = "listing" /\ limit' = limit
  BY DEF InTurn
<1>6. beat' \in InTurn => beat \in InTurn /\ listed' = listed
  BY DEF InTurn
<1>7. beat' \in {"delivering", "marking", "dismissing"} => target' \in listed
  BY DEF QuotaIsKept, InTurn
<1>8. beat' \in {"delivering", "marking", "dismissing"} => beat' \in InTurn
  BY DEF InTurn
<1> QED
  BY <1>2, <1>3, <1>4, <1>5, <1>6, <1>7, <1>8 DEF QuotaIsKept

\* No job yet, nothing held, listed or told.
LEMMA InitIInv == Init => IInv
<1> SUFFICES ASSUME Init PROVE IInv
  OBVIOUS
<1> USE CommitmentConstants DEF Init
<1>1. rows = <<>> /\ Ids = {} /\ rows \in Seq(Row) /\ Sent = {}
  BY DEF Ids, Sent
<1>2. TypeOK
  <2>1. JobsOK /\ RowsOK
    BY <1>1 DEF JobsOK, RowsOK
  <2>2. WorkerOK
    BY DEF WorkerOK, NoJob, NoKey, NoRow
  <2>3. BeatOK
    BY DEF BeatOK, NoRow
  <2>4. RestOK
    BY DEF RestOK, NoRow
  <2> QED
    BY <2>1, <2>2, <2>3, <2>4, TypeParts
<1>3. HeldIsRunning /\ LookupHolds /\ OnePendingPerKey /\ TargetIsPending
  BY <1>1 DEF HeldIsRunning, LookupHolds, OnePendingPerKey, TargetIsPending, Holding
<1>4. QuotaIsKept
  BY <1>1, FS_EmptySet DEF QuotaIsKept, InTurn
<1> QED
  BY <1>2, <1>3, <1>4 DEF IInv

\* Every statement of the worker, the heartbeat and the command line.
LEMMA NextIInv == IInv /\ [Next]_vars => IInv'
<1> SUFFICES ASSUME IInv, [Next]_vars PROVE IInv'
  OBVIOUS
<1> USE CommitmentConstants DEF IInv, job_vars, worker_vars, beat_vars, bounds
<1>1. ASSUME NEW j \in Jobs, Enqueue(j) PROVE IInv'
  <2>1. rows' = rows /\ Ids' = Ids /\ Sent' = Sent
    BY <1>1 DEF Enqueue, Ids, Sent
  <2>2. TypeOK'
    <3>1. JobsOK' /\ RowsOK'
      BY <1>1, <2>1, TypeParts DEF Enqueue, JobsOK, RowsOK, HeldIsRunning, Holding
    <3>2. WorkerOK'
      BY <1>1, <2>1, TypeParts DEF Enqueue, WorkerOK, NoJob, NoKey, NoRow
    <3>3. BeatOK'
      BY <1>1, <2>1, TypeParts DEF Enqueue, BeatOK, NoRow
    <3>4. RestOK'
      BY <1>1, <2>1, TypeParts DEF Enqueue, RestOK, NoRow
    <3> QED
      BY <3>1, <3>2, <3>3, <3>4, TypeParts
  <2>3. HeldIsRunning'
    BY <1>1 DEF Enqueue, HeldIsRunning, Holding, TypeOK
  <2>4. LookupHolds' /\ OnePendingPerKey' /\ TargetIsPending'
    BY <1>1, <2>1
    DEF Enqueue, LookupHolds, OnePendingPerKey, TargetIsPending, Matching, Pending, TypeOK,
        NoRow
  <2>5. QuotaIsKept'
    BY <1>1, <2>1, <2>2 DEF Enqueue, QuotaIsKept, InTurn, TypeOK
  <2> QED
    BY <2>1, <2>2, <2>3, <2>4, <2>5
<1>2. ASSUME NEW j \in Jobs, Claim(j) PROVE IInv'
  <2>1. rows' = rows /\ Ids' = Ids /\ Sent' = Sent
    BY <1>2 DEF Claim, Ids, Sent
  <2>2. TypeOK'
    <3>1. JobsOK' /\ RowsOK'
      BY <1>2, <2>1, TypeParts DEF Claim, JobsOK, RowsOK, HeldIsRunning, Holding
    <3>2. WorkerOK'
      BY <1>2, <2>1, TypeParts DEF Claim, WorkerOK, NoJob, NoKey, NoRow
    <3>3. BeatOK'
      BY <1>2, <2>1, TypeParts DEF Claim, BeatOK, NoRow
    <3>4. RestOK'
      BY <1>2, <2>1, TypeParts DEF Claim, RestOK, NoRow
    <3> QED
      BY <3>1, <3>2, <3>3, <3>4, TypeParts
  <2>3. HeldIsRunning'
    BY <1>2 DEF Claim, HeldIsRunning, Holding, TypeOK
  <2>4. LookupHolds' /\ OnePendingPerKey' /\ TargetIsPending'
    BY <1>2, <2>1
    DEF Claim, LookupHolds, OnePendingPerKey, TargetIsPending, Matching, Pending, TypeOK, NoRow
  <2>5. QuotaIsKept'
    BY <1>2, <2>1, <2>2 DEF Claim, QuotaIsKept, InTurn, TypeOK
  <2> QED
    BY <2>1, <2>2, <2>3, <2>4, <2>5
<1>3. CASE Extract
  <2>1. rows' = rows /\ Ids' = Ids /\ Sent' = Sent
    BY <1>3 DEF Extract, Ids, Sent
  <2>2. TypeOK'
    <3>1. JobsOK' /\ RowsOK'
      BY <1>3, <2>1, TypeParts DEF Extract, JobsOK, RowsOK, HeldIsRunning, Holding
    <3>2. WorkerOK'
      BY <1>3, <2>1, TypeParts DEF Extract, WorkerOK, NoJob, NoKey, NoRow
    <3>3. BeatOK'
      BY <1>3, <2>1, TypeParts DEF Extract, BeatOK, NoRow
    <3>4. RestOK'
      BY <1>3, <2>1, TypeParts DEF Extract, RestOK, NoRow
    <3> QED
      BY <3>1, <3>2, <3>3, <3>4, TypeParts
  <2>3. HeldIsRunning'
    BY <1>3 DEF Extract, HeldIsRunning, Holding, TypeOK
  <2>4. LookupHolds' /\ OnePendingPerKey' /\ TargetIsPending'
    BY <1>3, <2>1
    DEF Extract, LookupHolds, OnePendingPerKey, TargetIsPending, Matching, Pending, TypeOK,
        NoRow
  <2>5. QuotaIsKept'
    BY <1>3, <2>1, <2>2 DEF Extract, QuotaIsKept, InTurn, TypeOK
  <2> QED
    BY <2>1, <2>2, <2>3, <2>4, <2>5
<1>4. CASE ExtractRaises
  <2>1. rows' = rows /\ Ids' = Ids /\ Sent' = Sent
    BY <1>4 DEF ExtractRaises, Release, Ids, Sent
  <2>2. TypeOK'
    <3>1. JobsOK' /\ RowsOK'
      BY <1>4, <2>1, TypeParts
      DEF ExtractRaises, Release, JobsOK, RowsOK, HeldIsRunning, Holding
    <3>2. WorkerOK'
      BY <1>4, <2>1, TypeParts DEF ExtractRaises, Release, WorkerOK, NoJob, NoKey, NoRow
    <3>3. BeatOK'
      BY <1>4, <2>1, TypeParts DEF ExtractRaises, Release, BeatOK, NoRow
    <3>4. RestOK'
      BY <1>4, <2>1, TypeParts DEF ExtractRaises, Release, RestOK, NoRow
    <3> QED
      BY <3>1, <3>2, <3>3, <3>4, TypeParts
  <2>3. HeldIsRunning'
    BY <1>4 DEF ExtractRaises, Release, HeldIsRunning, Holding, TypeOK
  <2>4. LookupHolds' /\ OnePendingPerKey' /\ TargetIsPending'
    BY <1>4, <2>1
    DEF ExtractRaises, Release, LookupHolds, OnePendingPerKey, TargetIsPending, Matching,
        Pending, TypeOK, NoRow
  <2>5. QuotaIsKept'
    BY <1>4, <2>1, <2>2 DEF ExtractRaises, Release, QuotaIsKept, InTurn, TypeOK
  <2> QED
    BY <2>1, <2>2, <2>3, <2>4, <2>5
<1>5. CASE Lookup
  <2>1. rows' = rows /\ Ids' = Ids /\ Sent' = Sent
    BY <1>5 DEF Lookup, Ids, Sent
  <2>2. TypeOK'
    <3>1. JobsOK' /\ RowsOK'
      BY <1>5, <2>1, TypeParts DEF Lookup, JobsOK, RowsOK, HeldIsRunning, Holding
    <3>2. WorkerOK'
      BY <1>5, <2>1, TypeParts DEF Lookup, WorkerOK, NoJob, NoKey, NoRow, Matching
    <3>3. BeatOK'
      BY <1>5, <2>1, TypeParts DEF Lookup, BeatOK, NoRow
    <3>4. RestOK'
      BY <1>5, <2>1, TypeParts DEF Lookup, RestOK, NoRow
    <3> QED
      BY <3>1, <3>2, <3>3, <3>4, TypeParts
  <2>3. HeldIsRunning'
    BY <1>5 DEF Lookup, HeldIsRunning, Holding, TypeOK
  <2>4. LookupHolds' /\ OnePendingPerKey' /\ TargetIsPending'
    <3>1. PICK k \in todo : key' = k /\ found' \in IF Matching(k) = {} THEN {NoRow} ELSE Matching(k)
      BY <1>5 DEF Lookup
    <3>2. k \in Keys /\ (found' = NoRow => Matching(k) = {})
      BY <3>1, NoRowIsNoId, TypeParts DEF RowsOK, WorkerOK, Matching
    <3>3. {r \in Ids : Pending(r) /\ rows[r].channel = channel[held] /\ rows[r].key = k}'
          = {r \in Ids : Pending(r) /\ rows[r].channel = channel[held] /\ rows[r].key = k}
      BY <1>5, <2>1 DEF Lookup, Pending
    <3>4. LookupHolds'
      BY <3>1, <3>2, <3>3 DEF LookupHolds, Matching
    <3> QED
      BY <1>5, <2>1, <3>4 DEF Lookup, OnePendingPerKey, TargetIsPending, Pending
  <2>5. QuotaIsKept'
    BY <1>5, <2>1, <2>2 DEF Lookup, QuotaIsKept, InTurn, TypeOK
  <2> QED
    BY <2>1, <2>2, <2>3, <2>4, <2>5
<1>6. CASE Write
  <2> DEFINE new == [job |-> held, channel |-> channel[held], key |-> key, status |-> "pending",
                     window |-> "early", told |-> 0, today |-> FALSE]
  <2>0. /\ worker' = "recording" /\ key' = NoKey /\ found' = NoRow
        /\ UNCHANGED <<job_vars, held, todo, beat_vars, chosen, obedient, bounds>>
    BY <1>6 DEF Write
  <2>1. /\ rows' \in Seq(Row) /\ Len(rows') <= MaxRows /\ Ids \subseteq Ids' /\ Sent' = Sent
        /\ \A r \in Ids : Pending(r) => Pending(r)'
        /\ OnePendingPerKey'
    <3>1. CASE found # NoRow
      <4> DEFINE n == [rows[found] EXCEPT !.window = IF @ = "past" THEN "due" ELSE @]
      <4>1. found \in Ids /\ rows[found] \in Row
        BY <3>1 DEF TypeOK, Ids
      <4>2. n \in Row /\ rows' = [rows EXCEPT ![found] = n]
        BY <1>6, <3>1, <4>1 DEF Write, Widen, Row, TypeOK, Ids
      <4>5. /\ n.job = rows[found].job /\ n.channel = rows[found].channel /\ n.key = rows[found].key
            /\ n.status = rows[found].status /\ n.today = rows[found].today
        BY <4>1 DEF Row
      <4>3. Kept /\ rows'[found] = n /\ \A q \in Ids \ {found} : rows'[q] = rows[q]
        BY <4>1, <4>2, <4>5, Replace, ZenonT(30) DEF TypeOK
      <4>4. Ids' = Ids /\ OnePendingPerKey'
        BY <4>3, SMTT(30) DEF Kept, Ids, OnePendingPerKey, Pending
      <4>6. Sent' = Sent /\ \A r \in Ids : Pending(r) => Pending(r)'
        <5>1. \A r \in Ids : /\ rows'[r].status = rows[r].status
                             /\ rows'[r].today = rows[r].today
          BY <4>1, <4>3, <4>5
        <5> QED
          BY <4>4, <5>1 DEF Sent, Pending
      <4> QED
        BY <4>3, <4>4, <4>6 DEF Kept, TypeOK
    <3>2. CASE found = NoRow
      <4>1. new \in Row /\ rows' = Append(rows, new) /\ Len(rows) < MaxRows
        BY <1>6, <3>2 DEF Write, Insert, Row, TypeOK, HeldIsRunning, Holding, LookupHolds
      <4>2. /\ rows' \in Seq(Row) /\ Len(rows') = Len(rows) + 1 /\ Ids' = Ids \cup {Len(rows) + 1}
            /\ rows'[Len(rows) + 1] = new /\ \A r \in Ids : rows'[r] = rows[r]
        BY <4>1 DEF TypeOK, Ids
      <4>3. Sent' = Sent /\ \A r \in Ids : Pending(r) => Pending(r)'
        BY <4>2 DEF Sent, Pending, Ids
      <4>4. OnePendingPerKey'
        <5>1. \A r \in Ids : ~(Pending(r) /\ rows[r].channel = new.channel /\ rows[r].key = new.key)
          BY <1>6, <3>2 DEF Write, LookupHolds, Matching
        <5> QED
          BY <4>2, <5>1 DEF OnePendingPerKey, Pending
      <4> QED
        BY <4>1, <4>2, <4>3, <4>4 DEF TypeOK
    <3> QED
      BY <3>1, <3>2
  <2>2. TypeOK'
    BY <2>0, <2>1 DEF TypeOK, NoKey, NoRow
  <2>3. HeldIsRunning' /\ LookupHolds'
    BY <1>6, <2>0 DEF Write, HeldIsRunning, LookupHolds, Holding
  <2>4. TargetIsPending'
    BY <2>0, <2>1 DEF TargetIsPending
  <2>5. QuotaIsKept'
    BY <2>0, <2>1 DEF QuotaIsKept
  <2> QED
    BY <2>1, <2>2, <2>3, <2>4, <2>5
<1>7. CASE MarkDone
  <2>1. rows' = rows /\ Ids' = Ids /\ Sent' = Sent
    BY <1>7 DEF MarkDone, Release, Ids, Sent
  <2>2. TypeOK'
    <3>1. JobsOK' /\ RowsOK'
      BY <1>7, <2>1, TypeParts DEF MarkDone, Release, JobsOK, RowsOK, HeldIsRunning, Holding
    <3>2. WorkerOK'
      BY <1>7, <2>1, TypeParts DEF MarkDone, Release, WorkerOK, NoJob, NoKey, NoRow
    <3>3. BeatOK'
      BY <1>7, <2>1, TypeParts DEF MarkDone, Release, BeatOK, NoRow
    <3>4. RestOK'
      BY <1>7, <2>1, TypeParts DEF MarkDone, Release, RestOK, NoRow
    <3> QED
      BY <3>1, <3>2, <3>3, <3>4, TypeParts
  <2>3. HeldIsRunning'
    BY <1>7 DEF MarkDone, Release, HeldIsRunning, Holding, TypeOK
  <2>4. LookupHolds' /\ OnePendingPerKey' /\ TargetIsPending'
    BY <1>7, <2>1
    DEF MarkDone, Release, LookupHolds, OnePendingPerKey, TargetIsPending, Matching, Pending,
        TypeOK, NoRow
  <2>5. QuotaIsKept'
    BY <1>7, <2>1, <2>2 DEF MarkDone, Release, QuotaIsKept, InTurn, TypeOK
  <2> QED
    BY <2>1, <2>2, <2>3, <2>4, <2>5
<1>8. CASE CompleteRaises
  <2>1. rows' = rows /\ Ids' = Ids /\ Sent' = Sent
    BY <1>8 DEF CompleteRaises, Raise, Release, Ids, Sent
  <2>2. TypeOK'
    <3>1. JobsOK' /\ RowsOK'
      BY <1>8, <2>1, TypeParts
      DEF CompleteRaises, Raise, Release, JobsOK, RowsOK, HeldIsRunning, Holding
    <3>2. WorkerOK'
      BY <1>8, <2>1, TypeParts DEF CompleteRaises, Raise, Release, WorkerOK, NoJob, NoKey, NoRow
    <3>3. BeatOK'
      BY <1>8, <2>1, TypeParts DEF CompleteRaises, Raise, Release, BeatOK, NoRow
    <3>4. RestOK'
      BY <1>8, <2>1, TypeParts DEF CompleteRaises, Raise, Release, RestOK, NoRow
    <3> QED
      BY <3>1, <3>2, <3>3, <3>4, TypeParts
  <2>3. HeldIsRunning'
    BY <1>8 DEF CompleteRaises, Raise, Release, HeldIsRunning, Holding, TypeOK
  <2>4. LookupHolds' /\ OnePendingPerKey' /\ TargetIsPending'
    BY <1>8, <2>1
    DEF CompleteRaises, Raise, Release, LookupHolds, OnePendingPerKey, TargetIsPending,
        Matching, Pending, TypeOK, NoRow
  <2>5. QuotaIsKept'
    BY <1>8, <2>1, <2>2 DEF CompleteRaises, Raise, Release, QuotaIsKept, InTurn, TypeOK
  <2> QED
    BY <2>1, <2>2, <2>3, <2>4, <2>5
<1>9. CASE Fail
  <2>1. rows' = rows /\ Ids' = Ids /\ Sent' = Sent
    BY <1>9 DEF Fail, Release, Exhausted, Ids, Sent
  <2>2. TypeOK'
    <3>1. JobsOK' /\ RowsOK'
      BY <1>9, <2>1, TypeParts, SMTT(30)
      DEF Fail, Release, Exhausted, JobsOK, RowsOK, HeldIsRunning, Holding
    <3>2. WorkerOK'
      BY <1>9, <2>1, TypeParts DEF Fail, Release, Exhausted, WorkerOK, NoJob, NoKey, NoRow
    <3>3. BeatOK'
      BY <1>9, <2>1, TypeParts DEF Fail, Release, Exhausted, BeatOK, NoRow
    <3>4. RestOK'
      BY <1>9, <2>1, TypeParts DEF Fail, Release, Exhausted, RestOK, NoRow
    <3> QED
      BY <3>1, <3>2, <3>3, <3>4, TypeParts
  <2>3. HeldIsRunning'
    BY <1>9 DEF Fail, Release, Exhausted, HeldIsRunning, Holding, TypeOK
  <2>4. LookupHolds' /\ OnePendingPerKey' /\ TargetIsPending'
    BY <1>9, <2>1
    DEF Fail, Release, Exhausted, LookupHolds, OnePendingPerKey, TargetIsPending, Matching,
        Pending, TypeOK, NoRow
  <2>5. QuotaIsKept'
    BY <1>9, <2>1, <2>2 DEF Fail, Release, Exhausted, QuotaIsKept, InTurn, TypeOK
  <2> QED
    BY <2>1, <2>2, <2>3, <2>4, <2>5
<1>10. CASE WorkerDies
  <2>1. rows' = rows /\ Ids' = Ids /\ Sent' = Sent
    BY <1>10 DEF WorkerDies, Raise, Release, Ids, Sent
  <2>2. TypeOK'
    <3>1. JobsOK' /\ RowsOK'
      BY <1>10, <2>1, TypeParts
      DEF WorkerDies, Raise, Release, JobsOK, RowsOK, HeldIsRunning, Holding
    <3>2. WorkerOK'
      BY <1>10, <2>1, TypeParts DEF WorkerDies, Raise, Release, WorkerOK, NoJob, NoKey, NoRow
    <3>3. BeatOK'
      BY <1>10, <2>1, TypeParts DEF WorkerDies, Raise, Release, BeatOK, NoRow
    <3>4. RestOK'
      BY <1>10, <2>1, TypeParts DEF WorkerDies, Raise, Release, RestOK, NoRow
    <3> QED
      BY <3>1, <3>2, <3>3, <3>4, TypeParts
  <2>3. HeldIsRunning'
    BY <1>10 DEF WorkerDies, Raise, Release, HeldIsRunning, Holding, TypeOK
  <2>4. LookupHolds' /\ OnePendingPerKey' /\ TargetIsPending'
    BY <1>10, <2>1
    DEF WorkerDies, Raise, Release, LookupHolds, OnePendingPerKey, TargetIsPending, Matching,
        Pending, TypeOK, NoRow
  <2>5. QuotaIsKept'
    BY <1>10, <2>1, <2>2 DEF WorkerDies, Raise, Release, QuotaIsKept, InTurn, TypeOK
  <2> QED
    BY <2>1, <2>2, <2>3, <2>4, <2>5
<1>11. CASE Sweep
  <2>0. Kept /\ Sent' \subseteq Sent /\ \A r \in Ids : rows'[r].told = rows[r].told
    <3>1. \A r \in Ids : rows[r] \in Row
      BY DEF TypeOK, Ids
    <3>2. \A r \in Ids : /\ [rows[r] EXCEPT !.status = "expired"] \in Row
                         /\ [rows[r] EXCEPT !.status = "expired"].job = rows[r].job
                         /\ [rows[r] EXCEPT !.status = "expired"].channel = rows[r].channel
                         /\ [rows[r] EXCEPT !.status = "expired"].key = rows[r].key
                         /\ [rows[r] EXCEPT !.status = "expired"].status = "expired"
                         /\ [rows[r] EXCEPT !.status = "expired"].told = rows[r].told
      BY <3>1 DEF Row
    <3>3. \A r \in Ids : rows'[r] \in {rows[r], [rows[r] EXCEPT !.status = "expired"]}
      BY <1>11 DEF Sweep
    <3>4. Ids = 1 .. Len(rows) /\ Len(rows) \in Nat
      BY DEF TypeOK, Ids
    <3>5. rows' \in [1 .. Len(rows) -> Row]
      BY <1>11, <3>1, <3>2, <3>4 DEF Sweep
    <3>6. rows' \in Seq(Row) /\ Len(rows') = Len(rows) /\ Ids' = Ids
      BY <3>4, <3>5, SeqDef DEF Ids
    <3>7. \A r \in Ids : /\ rows'[r].job = rows[r].job /\ rows'[r].channel = rows[r].channel
                         /\ rows'[r].key = rows[r].key /\ rows'[r].told = rows[r].told
                         /\ rows'[r] = rows[r] \/ rows'[r].status = "expired"
      BY <3>2, <3>3
    <3> QED
      BY <3>6, <3>7 DEF Kept, Sent
  <2>1. Ids' = Ids /\ LookupHolds' /\ OnePendingPerKey'
    BY <1>11, <2>0, KeptKeeps DEF Sweep, TypeOK
  <2>2. TypeOK'
    BY <1>11, <2>0, <2>1 DEF Sweep, Kept, TypeOK, Raise, NoRow
  <2>3. HeldIsRunning'
    BY <1>11 DEF Sweep, HeldIsRunning
  <2>4. TargetIsPending'
    BY <1>11, <2>0, <2>1 DEF Sweep, TargetIsPending, Pending, TypeOK, Ids
  <2>5. QuotaIsKept'
    BY <1>11, <2>0, <2>1, <2>2, QuotaShrinks DEF Sweep, TypeOK, InTurn, QuotaIsKept
  <2> QED
    BY <2>1, <2>2, <2>3, <2>4, <2>5
<1>12. CASE Count
  <2>0. SentToday \in Nat /\ SentToday = Cardinality(Sent) /\ Cardinality(Sent) \in Nat
    BY SentIsFinite, FS_CardinalityType, TypeParts DEF SentToday, Sent, RowsOK
  <2>1. rows' = rows /\ Ids' = Ids /\ Sent' = Sent
    BY <1>12 DEF Count, ReleaseBeat, Ids, Sent
  <2>2. TypeOK'
    <3>1. JobsOK' /\ RowsOK'
      BY <1>12, <2>1, TypeParts DEF Count, ReleaseBeat, JobsOK, RowsOK, HeldIsRunning, Holding
    <3>2. WorkerOK'
      BY <1>12, <2>1, TypeParts DEF Count, ReleaseBeat, WorkerOK, NoJob, NoKey, NoRow
    <3>3. BeatOK'
      BY <1>12, <2>1, <2>0, TypeParts DEF Count, ReleaseBeat, BeatOK, NoRow, Smaller, Due
    <3>4. RestOK'
      BY <1>12, <2>1, TypeParts DEF Count, ReleaseBeat, RestOK, NoRow
    <3> QED
      BY <3>1, <3>2, <3>3, <3>4, TypeParts
  <2>3. HeldIsRunning'
    BY <1>12 DEF Count, ReleaseBeat, HeldIsRunning, Holding, TypeOK
  <2>4. LookupHolds' /\ OnePendingPerKey' /\ TargetIsPending'
    BY <1>12, <2>1
    DEF Count, ReleaseBeat, LookupHolds, OnePendingPerKey, TargetIsPending, Matching, Pending,
        TypeOK, NoRow
  <2>5. QuotaIsKept'
    BY <1>12, <2>0, <2>1 DEF Count, ReleaseBeat, QuotaIsKept, InTurn, Smaller
  <2> QED
    BY <2>1, <2>2, <2>3, <2>4, <2>5
<1>13. CASE List
  <2>0. SentToday \in Nat /\ SentToday = Cardinality(Sent) /\ Cardinality(Sent) \in Nat
    BY SentIsFinite, FS_CardinalityType, TypeParts DEF SentToday, Sent, RowsOK
  <2>1. rows' = rows /\ Ids' = Ids /\ Sent' = Sent
    BY <1>13 DEF List, ReleaseBeat, Ids, Sent
  <2>2. TypeOK'
    <3>1. JobsOK' /\ RowsOK'
      BY <1>13, <2>1, TypeParts DEF List, ReleaseBeat, JobsOK, RowsOK, HeldIsRunning, Holding
    <3>2. WorkerOK'
      BY <1>13, <2>1, TypeParts DEF List, ReleaseBeat, WorkerOK, NoJob, NoKey, NoRow
    <3>3. BeatOK'
      BY <1>13, <2>1, <2>0, TypeParts DEF List, ReleaseBeat, BeatOK, NoRow, Smaller, Due
    <3>4. RestOK'
      BY <1>13, <2>1, TypeParts DEF List, ReleaseBeat, RestOK, NoRow
    <3> QED
      BY <3>1, <3>2, <3>3, <3>4, TypeParts
  <2>3. HeldIsRunning'
    BY <1>13 DEF List, ReleaseBeat, HeldIsRunning, Holding, TypeOK
  <2>4. LookupHolds' /\ OnePendingPerKey' /\ TargetIsPending'
    BY <1>13, <2>1
    DEF List, ReleaseBeat, LookupHolds, OnePendingPerKey, TargetIsPending, Matching, Pending,
        TypeOK, NoRow
  <2>5. QuotaIsKept'
    <3> SUFFICES ASSUME obedient = TRUE, listed' \subseteq Due, beat' = "turn",
                        Cardinality(listed') = Smaller(limit, Cardinality(Due))
                 PROVE  QuotaIsKept'
      BY <1>13, <2>1 DEF List, ReleaseBeat, QuotaIsKept, InTurn
    <3>1. limit \in Nat /\ Cardinality(Sent) + limit <= MaxPerDay
      BY <1>13, TypeParts DEF List, BeatOK, QuotaIsKept
    <3>2. Due \subseteq Ids /\ IsFiniteSet(Due) /\ IsFiniteSet(listed') /\ IsFiniteSet(Sent)
      BY SentIsFinite, FS_Subset, TypeParts DEF Due, RowsOK
    <3>3. Cardinality(listed') <= limit /\ Cardinality(listed') \in Nat
      BY <3>1, <3>2, FS_CardinalityType DEF Smaller
    <3>4. Cardinality(Sent \cup listed') <= Cardinality(Sent) + Cardinality(listed')
      BY <3>2, UnionBound
    <3>5. Cardinality(Sent' \cup listed') <= MaxPerDay /\ Cardinality(Sent') <= MaxPerDay
      <4>1. Cardinality(Sent \cup listed') \in Nat
        BY <3>2, FS_Union, FS_CardinalityType
      <4>2. Cardinality(Sent \cup listed') <= MaxPerDay /\ Cardinality(Sent) <= MaxPerDay
        BY <2>0, <3>1, <3>3, <3>4, <4>1
      <4> QED
        BY <2>1, <4>2
    <3> QED
      BY <3>5 DEF QuotaIsKept, InTurn
  <2> QED
    BY <2>1, <2>2, <2>3, <2>4, <2>5
<1>14. CASE FetchRaises
  <2>1. rows' = rows /\ Ids' = Ids /\ Sent' = Sent
    BY <1>14 DEF FetchRaises, Raise, ReleaseBeat, Ids, Sent
  <2>2. TypeOK'
    <3>1. JobsOK' /\ RowsOK'
      BY <1>14, <2>1, TypeParts
      DEF FetchRaises, Raise, ReleaseBeat, JobsOK, RowsOK, HeldIsRunning, Holding
    <3>2. WorkerOK'
      BY <1>14, <2>1, TypeParts
      DEF FetchRaises, Raise, ReleaseBeat, WorkerOK, NoJob, NoKey, NoRow
    <3>3. BeatOK'
      BY <1>14, <2>1, TypeParts DEF FetchRaises, Raise, ReleaseBeat, BeatOK, NoRow
    <3>4. RestOK'
      BY <1>14, <2>1, TypeParts DEF FetchRaises, Raise, ReleaseBeat, RestOK, NoRow
    <3> QED
      BY <3>1, <3>2, <3>3, <3>4, TypeParts
  <2>3. HeldIsRunning'
    BY <1>14 DEF FetchRaises, Raise, ReleaseBeat, HeldIsRunning, Holding, TypeOK
  <2>4. LookupHolds' /\ OnePendingPerKey' /\ TargetIsPending'
    BY <1>14, <2>1
    DEF FetchRaises, Raise, ReleaseBeat, LookupHolds, OnePendingPerKey, TargetIsPending,
        Matching, Pending, TypeOK, NoRow
  <2>5. QuotaIsKept'
    BY <1>14, <2>1, <2>2 DEF FetchRaises, Raise, ReleaseBeat, QuotaIsKept, InTurn, TypeOK
  <2> QED
    BY <2>1, <2>2, <2>3, <2>4, <2>5
<1>15. ASSUME NEW r \in Ids, Respond(r) PROVE IInv'
  <2>1. rows' = rows /\ Ids' = Ids /\ Sent' = Sent
    BY <1>15 DEF Respond, Ids, Sent
  <2>2. TypeOK'
    <3>1. JobsOK' /\ RowsOK'
      BY <1>15, <2>1, TypeParts DEF Respond, JobsOK, RowsOK, HeldIsRunning, Holding
    <3>2. WorkerOK'
      BY <1>15, <2>1, TypeParts DEF Respond, WorkerOK, NoJob, NoKey, NoRow
    <3>3. BeatOK'
      BY <1>15, <2>1, TypeParts DEF Respond, BeatOK, NoRow
    <3>4. RestOK'
      BY <1>15, <2>1, TypeParts DEF Respond, RestOK, NoRow
    <3> QED
      BY <3>1, <3>2, <3>3, <3>4, TypeParts
  <2>3. HeldIsRunning'
    BY <1>15 DEF Respond, HeldIsRunning, Holding, TypeOK
  <2>4. LookupHolds' /\ OnePendingPerKey' /\ TargetIsPending'
    BY <1>15, <2>1
    DEF Respond, LookupHolds, OnePendingPerKey, TargetIsPending, Matching, Pending, TypeOK,
        NoRow
  <2>5. QuotaIsKept'
    BY <1>15, <2>1, <2>2 DEF Respond, QuotaIsKept, InTurn, TypeOK, Answerable
  <2> QED
    BY <2>1, <2>2, <2>3, <2>4, <2>5
<1>16. CASE Deliver
  <2> DEFINE n == [rows[target] EXCEPT !.told = @ + 1]
  <2>0. Kept /\ Sent' \subseteq Sent
    <3>1. target \in Ids /\ rows[target] \in Row
      BY <1>16 DEF Deliver, TypeOK, TargetIsPending, Ids
    <3>2. n \in Row /\ rows' = [rows EXCEPT ![target] = n]
      <4>1. rows[target].told + 1 \in Nat
        BY <3>1 DEF Row
      <4>2. n \in Row
        BY <3>1, <4>1 DEF Row
      <4>3. rows' = [rows EXCEPT ![target] = n]
        BY <1>16, <3>1 DEF Deliver, TypeOK, Ids
      <4> QED
        BY <4>2, <4>3
    <3>3. /\ n.job = rows[target].job /\ n.channel = rows[target].channel
          /\ n.key = rows[target].key
          /\ n.status = rows[target].status /\ (n.today => rows[target].today)
      BY <3>1 DEF Row
    <3>4. Kept /\ rows'[target] = n /\ \A q \in Ids \ {target} : rows'[q] = rows[q]
      BY <3>1, <3>2, <3>3, Replace DEF TypeOK
    <3>5. Ids' = Ids
      BY <3>4 DEF Kept, Ids
    <3>6. \A q \in Ids : q \in Sent' => q \in Sent
      BY <3>1, <3>3, <3>4, <3>5 DEF Sent
    <3> QED
      BY <3>4, <3>5, <3>6 DEF Sent
  <2>1. Ids' = Ids /\ LookupHolds' /\ OnePendingPerKey'
    BY <1>16, <2>0, KeptKeeps DEF Deliver, TypeOK
  <2>2. TypeOK'
    BY <1>16, <2>0, <2>1 DEF Deliver, Kept, TypeOK, Raise, NoRow
  <2>3. HeldIsRunning'
    BY <1>16 DEF Deliver, HeldIsRunning
  <2>4. TargetIsPending'
    BY <1>16, <2>0, <2>1 DEF Deliver, TargetIsPending, Pending, TypeOK, Ids
  <2>5. QuotaIsKept'
    BY <1>16, <2>0, <2>1, <2>2, QuotaShrinks DEF Deliver, TypeOK, InTurn, QuotaIsKept
  <2> QED
    BY <2>1, <2>2, <2>3, <2>4, <2>5
<1>17. CASE MarkSent
  <2>0. Kept /\ Sent' \subseteq Sent \cup {target} /\ target \in Ids
    <3>1. target \in Ids
      BY <1>17 DEF MarkSent, TargetIsPending
    <3>2. Kept /\ \A q \in Ids \ {target} : rows'[q] = rows[q]
      BY <1>17, <3>1, SetStatusKeeps DEF MarkSent, TypeOK, Statuses
    <3> QED
      BY <3>1, <3>2 DEF Kept, Sent, Ids
  <2>1. Ids' = Ids /\ LookupHolds' /\ OnePendingPerKey'
    BY <1>17, <2>0, KeptKeeps DEF MarkSent, BackToTurn, TypeOK
  <2>2. TypeOK'
    BY <1>17, <2>0, <2>1 DEF MarkSent, BackToTurn, Kept, TypeOK, Raise, NoRow
  <2>3. HeldIsRunning'
    BY <1>17 DEF MarkSent, BackToTurn, HeldIsRunning
  <2>4. TargetIsPending'
    BY <1>17, <2>0, <2>1 DEF MarkSent, BackToTurn, TargetIsPending, Pending, TypeOK, Ids
  <2>5. QuotaIsKept'
    BY <1>17, <2>0, <2>1, <2>2, QuotaShrinks
    DEF MarkSent, BackToTurn, TypeOK, InTurn, QuotaIsKept
  <2> QED
    BY <2>1, <2>2, <2>3, <2>4, <2>5
<1>18. ASSUME NEW r \in Ids, Dismiss(r) PROVE IInv'
  <2>1. rows' = rows /\ Ids' = Ids /\ Sent' = Sent
    BY <1>18 DEF Dismiss, Ids, Sent
  <2>2. TypeOK'
    <3>1. JobsOK' /\ RowsOK'
      BY <1>18, <2>1, TypeParts DEF Dismiss, JobsOK, RowsOK, HeldIsRunning, Holding
    <3>2. WorkerOK'
      BY <1>18, <2>1, TypeParts DEF Dismiss, WorkerOK, NoJob, NoKey, NoRow
    <3>3. BeatOK'
      BY <1>18, <2>1, TypeParts DEF Dismiss, BeatOK, NoRow
    <3>4. RestOK'
      BY <1>18, <2>1, TypeParts DEF Dismiss, RestOK, NoRow
    <3> QED
      BY <3>1, <3>2, <3>3, <3>4, TypeParts
  <2>3. HeldIsRunning'
    BY <1>18 DEF Dismiss, HeldIsRunning, Holding, TypeOK
  <2>4. LookupHolds' /\ OnePendingPerKey' /\ TargetIsPending'
    BY <1>18, <2>1
    DEF Dismiss, LookupHolds, OnePendingPerKey, TargetIsPending, Matching, Pending, TypeOK,
        NoRow
  <2>5. QuotaIsKept'
    BY <1>18, <2>1, <2>2 DEF Dismiss, QuotaIsKept, InTurn, TypeOK, Answerable
  <2> QED
    BY <2>1, <2>2, <2>3, <2>4, <2>5
<1>19. CASE MarkDismissed
  <2>0. Kept /\ Sent' \subseteq Sent
    <3>1. target \in Ids
      BY <1>19 DEF MarkDismissed, TargetIsPending, TypeOK
    <3>2. /\ Kept /\ \A q \in Ids \ {target} : rows'[q] = rows[q]
          /\ ~(rows'[target].status = "sent" /\ rows'[target].today)
      BY <1>19, <3>1, SetStatusKeeps DEF MarkDismissed, TypeOK, Statuses
    <3> QED
      BY <3>1, <3>2 DEF Kept, Sent, Ids
  <2>1. Ids' = Ids /\ LookupHolds' /\ OnePendingPerKey'
    BY <1>19, <2>0, KeptKeeps DEF MarkDismissed, BackToTurn, TypeOK
  <2>2. TypeOK'
    BY <1>19, <2>0, <2>1 DEF MarkDismissed, BackToTurn, Kept, TypeOK, Raise, NoRow
  <2>3. HeldIsRunning'
    BY <1>19 DEF MarkDismissed, BackToTurn, HeldIsRunning
  <2>4. TargetIsPending'
    BY <1>19, <2>0, <2>1 DEF MarkDismissed, BackToTurn, TargetIsPending, Pending, TypeOK, Ids
  <2>5. QuotaIsKept'
    BY <1>19, <2>0, <2>1, <2>2, QuotaShrinks
    DEF MarkDismissed, BackToTurn, TypeOK, InTurn, QuotaIsKept
  <2> QED
    BY <2>1, <2>2, <2>3, <2>4, <2>5
<1>20. CASE ToolRaises
  <2>1. rows' = rows /\ Ids' = Ids /\ Sent' = Sent
    BY <1>20 DEF ToolRaises, Raise, BackToTurn, Ids, Sent
  <2>2. TypeOK'
    <3>1. JobsOK' /\ RowsOK'
      BY <1>20, <2>1, TypeParts
      DEF ToolRaises, Raise, BackToTurn, JobsOK, RowsOK, HeldIsRunning, Holding
    <3>2. WorkerOK'
      BY <1>20, <2>1, TypeParts DEF ToolRaises, Raise, BackToTurn, WorkerOK, NoJob, NoKey, NoRow
    <3>3. BeatOK'
      BY <1>20, <2>1, TypeParts DEF ToolRaises, Raise, BackToTurn, BeatOK, NoRow
    <3>4. RestOK'
      BY <1>20, <2>1, TypeParts DEF ToolRaises, Raise, BackToTurn, RestOK, NoRow
    <3> QED
      BY <3>1, <3>2, <3>3, <3>4, TypeParts
  <2>3. HeldIsRunning'
    BY <1>20 DEF ToolRaises, Raise, BackToTurn, HeldIsRunning, Holding, TypeOK
  <2>4. LookupHolds' /\ OnePendingPerKey' /\ TargetIsPending'
    BY <1>20, <2>1
    DEF ToolRaises, Raise, BackToTurn, LookupHolds, OnePendingPerKey, TargetIsPending, Matching,
        Pending, TypeOK, NoRow
  <2>5. QuotaIsKept'
    BY <1>20, <2>1, <2>2 DEF ToolRaises, Raise, BackToTurn, QuotaIsKept, InTurn, TypeOK
  <2> QED
    BY <2>1, <2>2, <2>3, <2>4, <2>5
<1>21. CASE EndTurn
  <2>1. rows' = rows /\ Ids' = Ids /\ Sent' = Sent
    BY <1>21 DEF EndTurn, ReleaseBeat, Ids, Sent
  <2>2. TypeOK'
    <3>1. JobsOK' /\ RowsOK'
      BY <1>21, <2>1, TypeParts DEF EndTurn, ReleaseBeat, JobsOK, RowsOK, HeldIsRunning, Holding
    <3>2. WorkerOK'
      BY <1>21, <2>1, TypeParts DEF EndTurn, ReleaseBeat, WorkerOK, NoJob, NoKey, NoRow
    <3>3. BeatOK'
      BY <1>21, <2>1, TypeParts DEF EndTurn, ReleaseBeat, BeatOK, NoRow
    <3>4. RestOK'
      BY <1>21, <2>1, TypeParts DEF EndTurn, ReleaseBeat, RestOK, NoRow
    <3> QED
      BY <3>1, <3>2, <3>3, <3>4, TypeParts
  <2>3. HeldIsRunning'
    BY <1>21 DEF EndTurn, ReleaseBeat, HeldIsRunning, Holding, TypeOK
  <2>4. LookupHolds' /\ OnePendingPerKey' /\ TargetIsPending'
    BY <1>21, <2>1
    DEF EndTurn, ReleaseBeat, LookupHolds, OnePendingPerKey, TargetIsPending, Matching, Pending,
        TypeOK, NoRow
  <2>5. QuotaIsKept'
    BY <1>21, <2>1, <2>2 DEF EndTurn, ReleaseBeat, QuotaIsKept, InTurn, TypeOK
  <2> QED
    BY <2>1, <2>2, <2>3, <2>4, <2>5
<1>22. ASSUME NEW r \in Ids, CliRead(r) PROVE IInv'
  <2>1. rows' = rows /\ Ids' = Ids /\ Sent' = Sent
    BY <1>22 DEF CliRead, Command, Ids, Sent
  <2>2. TypeOK'
    <3>1. JobsOK' /\ RowsOK'
      BY <1>22, <2>1, TypeParts DEF CliRead, Command, JobsOK, RowsOK, HeldIsRunning, Holding
    <3>2. WorkerOK'
      BY <1>22, <2>1, TypeParts DEF CliRead, Command, WorkerOK, NoJob, NoKey, NoRow
    <3>3. BeatOK'
      BY <1>22, <2>1, TypeParts DEF CliRead, Command, BeatOK, NoRow
    <3>4. RestOK'
      BY <1>22, <2>1, TypeParts DEF CliRead, Command, RestOK, NoRow
    <3> QED
      BY <3>1, <3>2, <3>3, <3>4, TypeParts
  <2>3. HeldIsRunning'
    BY <1>22 DEF CliRead, Command, HeldIsRunning, Holding, TypeOK
  <2>4. LookupHolds' /\ OnePendingPerKey' /\ TargetIsPending'
    BY <1>22, <2>1
    DEF CliRead, Command, LookupHolds, OnePendingPerKey, TargetIsPending, Matching, Pending,
        TypeOK, NoRow
  <2>5. QuotaIsKept'
    BY <1>22, <2>1, <2>2 DEF CliRead, Command, QuotaIsKept, InTurn, TypeOK
  <2> QED
    BY <2>1, <2>2, <2>3, <2>4, <2>5
<1>23. CASE CliDismiss
  <2>0. Kept /\ Sent' \subseteq Sent
    <3>1. chosen \in Ids
      BY <1>23 DEF CliDismiss, TargetIsPending, TypeOK
    <3>2. /\ Kept /\ \A q \in Ids \ {chosen} : rows'[q] = rows[q]
          /\ ~(rows'[chosen].status = "sent" /\ rows'[chosen].today)
      BY <1>23, <3>1, SetStatusKeeps DEF CliDismiss, TypeOK, Statuses
    <3> QED
      BY <3>1, <3>2 DEF Kept, Sent, Ids
  <2>1. Ids' = Ids /\ LookupHolds' /\ OnePendingPerKey'
    BY <1>23, <2>0, KeptKeeps DEF CliDismiss, TypeOK
  <2>2. TypeOK'
    BY <1>23, <2>0, <2>1 DEF CliDismiss, Kept, TypeOK, Raise, NoRow
  <2>3. HeldIsRunning'
    BY <1>23 DEF CliDismiss, HeldIsRunning
  <2>4. TargetIsPending'
    BY <1>23, <2>0, <2>1 DEF CliDismiss, TargetIsPending, Pending, TypeOK, Ids
  <2>5. QuotaIsKept'
    BY <1>23, <2>0, <2>1, <2>2, QuotaShrinks DEF CliDismiss, TypeOK, InTurn, QuotaIsKept
  <2> QED
    BY <2>1, <2>2, <2>3, <2>4, <2>5
<1>24. ASSUME NEW r \in Ids, CliDelete(r) PROVE IInv'
  <2>0. Kept /\ Sent' \subseteq Sent
    <3>1. r \in Ids
      BY <1>24 DEF CliDelete, TargetIsPending, TypeOK
    <3>2. /\ Kept /\ \A q \in Ids \ {r} : rows'[q] = rows[q]
          /\ ~(rows'[r].status = "sent" /\ rows'[r].today)
      BY <1>24, <3>1, SetStatusKeeps DEF CliDelete, TypeOK, Statuses
    <3> QED
      BY <3>1, <3>2 DEF Kept, Sent, Ids
  <2>1. Ids' = Ids /\ LookupHolds' /\ OnePendingPerKey'
    BY <1>24, <2>0, KeptKeeps DEF CliDelete, Command, TypeOK
  <2>2. TypeOK'
    BY <1>24, <2>0, <2>1 DEF CliDelete, Command, Kept, TypeOK, Raise, NoRow
  <2>3. HeldIsRunning'
    BY <1>24 DEF CliDelete, Command, HeldIsRunning
  <2>4. TargetIsPending'
    BY <1>24, <2>0, <2>1 DEF CliDelete, Command, TargetIsPending, Pending, TypeOK, Ids
  <2>5. QuotaIsKept'
    BY <1>24, <2>0, <2>1, <2>2, QuotaShrinks DEF CliDelete, Command, TypeOK, InTurn, QuotaIsKept
  <2> QED
    BY <2>1, <2>2, <2>3, <2>4, <2>5
<1>25. ASSUME NEW r \in Ids, Ripen(r) PROVE IInv'
  <2> DEFINE n == [rows[r] EXCEPT !.window = IF @ = "early" THEN "due" ELSE "past"]
  <2>0. Kept /\ Sent' \subseteq Sent
    <3>1. r \in Ids /\ rows[r] \in Row
      BY DEF TypeOK, Ids
    <3>2. n \in Row /\ rows' = [rows EXCEPT ![r] = n]
      BY <1>25, <3>1 DEF Ripen, Row, TypeOK, Ids
    <3>3. /\ n.job = rows[r].job /\ n.channel = rows[r].channel /\ n.key = rows[r].key
          /\ n.status = rows[r].status /\ (n.today => rows[r].today)
      BY <3>1 DEF Row
    <3>4. Kept /\ rows'[r] = n /\ \A q \in Ids \ {r} : rows'[q] = rows[q]
      BY <3>1, <3>2, <3>3, Replace, ZenonT(30) DEF TypeOK
    <3>5. Ids' = Ids
      BY <3>4 DEF Kept, Ids
    <3>6. \A q \in Ids : q \in Sent' => q \in Sent
      BY <3>1, <3>3, <3>4, <3>5 DEF Sent
    <3> QED
      BY <3>4, <3>5, <3>6 DEF Sent
  <2>1. Ids' = Ids /\ LookupHolds' /\ OnePendingPerKey'
    BY <1>25, <2>0, KeptKeeps DEF Ripen, TypeOK
  <2>2. TypeOK'
    BY <1>25, <2>0, <2>1 DEF Ripen, Kept, TypeOK, Raise, NoRow
  <2>3. HeldIsRunning'
    BY <1>25 DEF Ripen, HeldIsRunning
  <2>4. TargetIsPending'
    BY <1>25, <2>0, <2>1 DEF Ripen, TargetIsPending, Pending, TypeOK, Ids
  <2>5. QuotaIsKept'
    BY <1>25, <2>0, <2>1, <2>2, QuotaShrinks DEF Ripen, TypeOK, InTurn, QuotaIsKept
  <2> QED
    BY <2>1, <2>2, <2>3, <2>4, <2>5
<1>26. ASSUME NEW r \in Ids, DayPasses(r) PROVE IInv'
  <2> DEFINE n == [rows[r] EXCEPT !.today = FALSE]
  <2>0. Kept /\ Sent' \subseteq Sent
    <3>1. r \in Ids /\ rows[r] \in Row
      BY DEF TypeOK, Ids
    <3>2. n \in Row /\ rows' = [rows EXCEPT ![r] = n]
      BY <1>26, <3>1 DEF DayPasses, Row, TypeOK, Ids
    <3>3. /\ n.job = rows[r].job /\ n.channel = rows[r].channel /\ n.key = rows[r].key
          /\ n.status = rows[r].status /\ (n.today => rows[r].today)
      BY <3>1 DEF Row
    <3>4. Kept /\ rows'[r] = n /\ \A q \in Ids \ {r} : rows'[q] = rows[q]
      BY <3>1, <3>2, <3>3, Replace DEF TypeOK
    <3>5. Ids' = Ids
      BY <3>4 DEF Kept, Ids
    <3>6. \A q \in Ids : q \in Sent' => q \in Sent
      BY <3>1, <3>3, <3>4, <3>5 DEF Sent
    <3> QED
      BY <3>4, <3>5, <3>6 DEF Sent
  <2>1. Ids' = Ids /\ LookupHolds' /\ OnePendingPerKey'
    BY <1>26, <2>0, KeptKeeps DEF DayPasses, TypeOK
  <2>2. TypeOK'
    BY <1>26, <2>0, <2>1 DEF DayPasses, Kept, TypeOK, Raise, NoRow
  <2>3. HeldIsRunning'
    BY <1>26 DEF DayPasses, HeldIsRunning
  <2>4. TargetIsPending'
    BY <1>26, <2>0, <2>1 DEF DayPasses, TargetIsPending, Pending, TypeOK, Ids
  <2>5. QuotaIsKept'
    BY <1>26, <2>0, <2>1, <2>2, QuotaShrinks DEF DayPasses, TypeOK, InTurn, QuotaIsKept
  <2> QED
    BY <2>1, <2>2, <2>3, <2>4, <2>5
<1>27. CASE Restart
  <2>1. rows' = rows /\ Ids' = Ids /\ Sent' = Sent
    BY <1>27 DEF Restart, Release, ReleaseBeat, Ids, Sent
  <2>2. TypeOK'
    <3>1. JobsOK' /\ RowsOK'
      BY <1>27, <2>1, TypeParts
      DEF Restart, Release, ReleaseBeat, JobsOK, RowsOK, HeldIsRunning, Holding
    <3>2. WorkerOK'
      BY <1>27, <2>1, TypeParts DEF Restart, Release, ReleaseBeat, WorkerOK, NoJob, NoKey, NoRow
    <3>3. BeatOK'
      BY <1>27, <2>1, TypeParts DEF Restart, Release, ReleaseBeat, BeatOK, NoRow
    <3>4. RestOK'
      BY <1>27, <2>1, TypeParts DEF Restart, Release, ReleaseBeat, RestOK, NoRow
    <3> QED
      BY <3>1, <3>2, <3>3, <3>4, TypeParts
  <2>3. HeldIsRunning'
    BY <1>27 DEF Restart, Release, ReleaseBeat, HeldIsRunning, Holding, TypeOK
  <2>4. LookupHolds' /\ OnePendingPerKey' /\ TargetIsPending'
    BY <1>27, <2>1
    DEF Restart, Release, ReleaseBeat, LookupHolds, OnePendingPerKey, TargetIsPending, Matching,
        Pending, TypeOK, NoRow
  <2>5. QuotaIsKept'
    BY <1>27, <2>1, <2>2 DEF Restart, Release, ReleaseBeat, QuotaIsKept, InTurn, TypeOK
  <2> QED
    BY <2>1, <2>2, <2>3, <2>4, <2>5
<1>28. CASE UNCHANGED vars
  BY <1>28
  DEF vars, TypeOK, HeldIsRunning, LookupHolds, OnePendingPerKey, TargetIsPending, QuotaIsKept,
     Matching, Pending, Ids, Sent
<1> QED
  BY <1>1, <1>2, <1>3, <1>4, <1>5, <1>6, <1>7, <1>8, <1>9, <1>10, <1>11, <1>12, <1>13, <1>14,
     <1>15, <1>16, <1>17, <1>18, <1>19, <1>20, <1>21, <1>22, <1>23, <1>24, <1>25, <1>26, <1>27,
     <1>28
  DEF Next, Worker, Tools, Heartbeat, CLI, Faults

\* The invariant holds in every reachable state.
LEMMA Invariant == Spec => []IInv
<1>1. Init => IInv
  BY InitIInv
<1>2. IInv /\ [Next]_vars => IInv'
  BY NextIInv
<1> QED
  BY <1>1, <1>2, PTL DEF Spec

\* Every variable keeps its type: jobs are only tried MaxAttempts times, and the
\* ids the worker, the tools and the command line remember are rows.
THEOREM TypeCorrect == Spec => []TypeOK
<1>1. IInv => TypeOK
  BY DEF IInv
<1> QED
  BY <1>1, Invariant, PTL

\* However many attempts, ticks and commands cross, an agent never has two
\* pending rows for one follow-up of one room: the lookup and the insert are two
\* statements, but nothing between them makes a row pending.
THEOREM OnePending == Spec => []OnePendingPerKey
<1>1. IInv => OnePendingPerKey
  BY DEF IInv
<1> QED
  BY <1>1, Invariant, PTL

\* A model that answers only what the tick listed never sends more than
\* max_per_day check-ins within a day: the rows sent and the rows still listed
\* stay within the quota together.
THEOREM Quota == Spec => []QuotaHolds
<1>1. IInv => QuotaHolds
  BY DEF IInv, QuotaIsKept, QuotaHolds, SentToday, Sent
<1> QED
  BY <1>1, Invariant, PTL

\* Without the command line a check-in is only delivered for a pending row,
\* although the read, the delivery and the mark are three steps.
THEOREM OnlyPendingTold == Spec => OnlyPendingIsTold
<1>1. ASSUME IInv, Next, NEW r \in Ids PROVE rows'[r].told > rows[r].told => Pending(r) \/ cli > 0
  <2>1. rows \in Seq(Row) /\ rows[r] \in Row /\ Ids = 1 .. Len(rows) /\ Len(rows) \in Nat
    BY <1>1 DEF IInv, TypeOK, Ids
  <2>2. rows[r].told \in Nat
    BY <2>1 DEF Row
  <2> SUFFICES ASSUME ~Deliver \/ r # target PROVE rows'[r].told = rows[r].told
    BY <1>1, <2>2 DEF Deliver, IInv, TargetIsPending
  <2>3. CASE rows' = rows
    BY <2>3
  <2>4. CASE Write
    <3>1. CASE found = NoRow
      BY <2>1, <2>4, <3>1 DEF Write, Insert
    <3>2. CASE found # NoRow
      BY <1>1, <2>1, <2>4, <3>2 DEF Write, Widen, Row
    <3> QED
      BY <3>1, <3>2
  <2>5. CASE Sweep
    BY <2>1, <2>5 DEF Sweep, Row
  <2>6. CASE Deliver
    BY <2>1, <2>6 DEF Deliver
  <2>7. ASSUME NEW q \in Ids, NEW x \in Statuses \ {"pending"}, SetStatus(q, x)
        PROVE  rows'[r].told = rows[r].told
    BY <2>1, <2>7, SetStatusKeeps
  <2>8. CASE MarkSent \/ MarkDismissed \/ CliDismiss
    <3>1. CASE MarkSent
      BY <1>1, <2>7, <3>1 DEF MarkSent, IInv, TargetIsPending, Statuses
    <3>2. CASE MarkDismissed
      BY <1>1, <2>7, <3>2 DEF MarkDismissed, IInv, TargetIsPending, Statuses
    <3>3. CASE CliDismiss
      BY <1>1, <2>7, <3>3 DEF CliDismiss, IInv, TypeOK, Statuses
    <3> QED
      BY <2>8, <3>1, <3>2, <3>3
  <2>9. ASSUME NEW q \in Ids, CliDelete(q) \/ Ripen(q) \/ DayPasses(q)
        PROVE  rows'[r].told = rows[r].told
    <3>1. CASE CliDelete(q)
      BY <2>7, <3>1 DEF CliDelete, Statuses
    <3>2. CASE Ripen(q)
      BY <2>1, <3>2 DEF Ripen, Row
    <3>3. CASE DayPasses(q)
      BY <2>1, <3>3 DEF DayPasses, Row
    <3> QED
      BY <2>9, <3>1, <3>2, <3>3
  <2>10. \/ rows' = rows \/ Write \/ Sweep \/ Deliver \/ MarkSent \/ MarkDismissed \/ CliDismiss
         \/ \E q \in Ids : CliDelete(q) \/ Ripen(q) \/ DayPasses(q)
    BY <1>1
    DEF Next, Worker, Tools, Heartbeat, CLI, Faults, Enqueue, Claim, Extract, ExtractRaises,
       Lookup, MarkDone, Fail, CompleteRaises, WorkerDies, FetchRaises, ToolRaises, Restart, Count,
       List, EndTurn, Respond, Dismiss, CliRead
  <2> QED
    BY <2>3, <2>4, <2>5, <2>6, <2>8, <2>9, <2>10
<1>2. IInv /\ [Next]_vars =>
        [\A r \in Ids : rows'[r].told > rows[r].told => Pending(r) \/ cli > 0]_vars
  BY <1>1
<1> QED
  BY <1>2, Invariant, PTL DEF Spec, OnlyPendingIsTold

-----------------------------------------------------------------------------
(***************************************************************************)
(* One check-in per exchange.  What has been told of a follow-up, what may *)
(* still be told of it, and the row its job may still insert are within    *)
(* the budget together: only a fault and a crash add to them.              *)
(***************************************************************************)
Of(r, j, k) == rows[r].job = j /\ rows[r].key = k
Tells(j, k) == UNION {{r} \X (1 .. rows[r].told) : r \in {q \in Ids : Of(q, j, k)}}

\* A row is owed a telling while it is pending, but not when that was just done, and
\* while it is delivered, whatever becomes of it.
Owed(r) ==
  \/ Pending(r) /\ ~ (beat = "marking" /\ target = r)
  \/ beat = "delivering" /\ target = r
Owes(j, k) == {r \in Ids : Of(r, j, k) /\ Owed(r)}

\* The job may insert a row for the follow-up, without being tried again.
MayInsert(j, k) ==
  \/ state[j] \in {"absent", "pending"}
  \/ held = j /\ \/ worker \in {"claimed", "failing"}
                 \/ worker = "recording" /\ k \in todo
                 \/ worker = "writing" /\ (k \in todo \/ (key = k /\ found = NoRow))
Insertions(j, k) == IF MayInsert(j, k) THEN 1 ELSE 0

Budget == 1 + faults + 2 * crashes
IsCovered(j, k) ==
  /\ IsFiniteSet(Tells(j, k))
  /\ Cardinality(Tells(j, k)) + Cardinality(Owes(j, k)) + Insertions(j, k) <= Budget
TellingsAreCovered == \A j \in Jobs, k \in Keys : IsCovered(j, k)

\* A follow-up is looked up once in an attempt.
LookedUpOnce == worker = "writing" => key \notin todo

CapIInv == IInv /\ TellingsAreCovered /\ LookedUpOnce

\* What a row says of its exchange, its follow-up and its tellings.
SameStory(r) == rows'[r].job = rows[r].job /\ rows'[r].key = rows[r].key /\ rows'[r].told = rows[r].told

\* A telling is a number under a row of its exchange and follow-up.
LEMMA TellsAre ==
  ASSUME NEW j, NEW k
  PROVE  /\ \A p : p \in Tells(j, k) <=> \E r \in Ids : Of(r, j, k) /\ p \in {r} \X (1 .. rows[r].told)
         /\ \A p : p \in Tells(j, k)' <=> \E r \in Ids' : Of(r, j, k)' /\ p \in {r} \X (1 .. rows'[r].told)
  BY DEF Tells

\* A row that was never told of adds nothing.
LEMMA TellsStay ==
  ASSUME NEW j, NEW k, Ids \subseteq Ids', \A r \in Ids : SameStory(r),
         \A r \in Ids' \ Ids : rows'[r].told = 0
  PROVE  Tells(j, k)' = Tells(j, k)
<1>1. ASSUME NEW p PROVE p \in Tells(j, k)' <=> p \in Tells(j, k)
  <2>1. ASSUME NEW r \in Ids' \ Ids PROVE p \notin {r} \X (1 .. rows'[r].told)
    <3>1. 1 .. rows'[r].told = {}
      <4>1. rows'[r].told = 0
        OBVIOUS
      <4>2. 1 .. 0 = {}
        OBVIOUS
      <4> QED
        BY <4>1, <4>2
    <3> QED
      BY <3>1
  <2>2. ASSUME NEW r \in Ids PROVE (Of(r, j, k)' <=> Of(r, j, k)) /\ rows'[r].told = rows[r].told
    BY DEF Of, SameStory
  <2>3. p \in Tells(j, k)' <=> \E r \in Ids' : Of(r, j, k)' /\ p \in {r} \X (1 .. rows'[r].told)
    BY TellsAre
  <2>4. p \in Tells(j, k) <=> \E r \in Ids : Of(r, j, k) /\ p \in {r} \X (1 .. rows[r].told)
    BY TellsAre
  <2> QED
    BY <2>1, <2>2, <2>3, <2>4
<1> QED
  BY <1>1

\* The rows that are owed a telling, when one was added at most.
LEMMA OwesAreFinite ==
  ASSUME rows \in Seq(Row), rows' \in Seq(Row), NEW j, NEW k, NEW x, Owes(j, k)' \subseteq Owes(j, k) \cup {x}
  PROVE  /\ IsFiniteSet(Owes(j, k)) /\ Cardinality(Owes(j, k)) \in Nat
         /\ Cardinality(Owes(j, k)') \in Nat
         /\ Cardinality(Owes(j, k)') <= Cardinality(Owes(j, k)) + 1
         /\ Owes(j, k)' \subseteq Owes(j, k) => Cardinality(Owes(j, k)') <= Cardinality(Owes(j, k))
<1>1. IsFiniteSet(Owes(j, k))
  BY SentIsFinite DEF Owes
<1>2. IsFiniteSet(Owes(j, k) \cup {x}) /\ Cardinality(Owes(j, k) \cup {x}) <= Cardinality(Owes(j, k)) + 1
      /\ Cardinality(Owes(j, k)) \in Nat
  <2>1. Cardinality(Owes(j, k)) \in Nat
    BY <1>1, FS_CardinalityType
  <2>2. /\ IsFiniteSet(Owes(j, k) \cup {x})
        /\ Cardinality(Owes(j, k) \cup {x}) =
             IF x \in Owes(j, k) THEN Cardinality(Owes(j, k)) ELSE Cardinality(Owes(j, k)) + 1
    BY <1>1, FS_AddElement
  <2> QED
    BY <2>1, <2>2
<1>3. IsFiniteSet(Owes(j, k)') /\ Cardinality(Owes(j, k)') <= Cardinality(Owes(j, k) \cup {x})
  BY <1>2, FS_Subset
<1>4. Cardinality(Owes(j, k)') \in Nat /\ Cardinality(Owes(j, k) \cup {x}) \in Nat
  BY <1>2, <1>3, FS_CardinalityType
<1>5. Owes(j, k)' \subseteq Owes(j, k) => Cardinality(Owes(j, k)') <= Cardinality(Owes(j, k))
  BY <1>1, FS_Subset
<1> QED
  BY <1>1, <1>2, <1>3, <1>4, <1>5

\* A step that tells nothing: another row is owed a telling, or the job may
\* insert again, only at the expense of the other or of the budget.
LEMMA CoveredStays ==
  ASSUME rows \in Seq(Row), rows' \in Seq(Row), NEW j, NEW k, IsCovered(j, k),
         Tells(j, k)' = Tells(j, k), \E x : Owes(j, k)' \subseteq Owes(j, k) \cup {x},
         Budget \in Nat, Budget' \in Nat,
         \/ /\ Owes(j, k)' \subseteq Owes(j, k)
            /\ \/ (MayInsert(j, k)' => MayInsert(j, k)) /\ Budget' >= Budget
               \/ Budget' >= Budget + 1
         \/ /\ MayInsert(j, k)' => MayInsert(j, k)
            /\ Budget' >= Budget + 1
         \/ MayInsert(j, k) /\ ~MayInsert(j, k)' /\ Budget' >= Budget
         \/ Budget' >= Budget + 2
  PROVE  IsCovered(j, k)'
<1> DEFINE t == Cardinality(Tells(j, k))
           o == Cardinality(Owes(j, k))
           p == Cardinality(Owes(j, k)')
           m == Insertions(j, k)
           n == Insertions(j, k)'
<1>1. t \in Nat /\ IsFiniteSet(Tells(j, k))
  BY FS_CardinalityType DEF IsCovered
<1>2. o \in Nat /\ p \in Nat /\ p <= o + 1 /\ (Owes(j, k)' \subseteq Owes(j, k) => p <= o)
  BY OwesAreFinite
<1>3. m \in {0, 1} /\ n \in {0, 1} /\ (m = 1 <=> MayInsert(j, k)) /\ (n = 1 <=> MayInsert(j, k)')
  BY DEF Insertions
<1>4. t + o + m <= Budget
  BY DEF IsCovered
<1>5. t + p + n <= Budget'
  <2> HIDE DEF t, o, p, m, n
  <2> QED
    BY <1>1, <1>2, <1>3, <1>4
<1> QED
  BY <1>1, <1>5 DEF IsCovered

\* What faults may cost is a number.
LEMMA BudgetIsNat ==
  ASSUME IInv, IInv'
  PROVE  Budget \in Nat /\ Budget' \in Nat
<1>1. faults \in Nat /\ crashes \in Nat
  BY CommitmentConstants DEF IInv, TypeOK
<1>2. faults' \in Nat /\ crashes' \in Nat
  BY CommitmentConstants DEF IInv, TypeOK
<1>3. Budget \in Nat
  BY <1>1 DEF Budget
<1>4. Budget' \in Nat
  <2>1. \A m, n \in Nat : 1 + m + 2 * n \in Nat
    OBVIOUS
  <2>2. Budget' = 1 + faults' + 2 * crashes'
    BY DEF Budget
  <2> QED
    BY <1>2, <2>1, <2>2
<1> QED
  BY <1>3, <1>4

\* A step that leaves the rows and the heartbeat's call alone.
LEMMA RowsLeftAlone ==
  ASSUME rows' = rows, UNCHANGED <<beat, target>>, NEW j, NEW k
  PROVE  Tells(j, k)' = Tells(j, k) /\ Owes(j, k)' = Owes(j, k)
<1>1. Ids' = Ids
  BY DEF Ids
<1> QED
  BY <1>1 DEF Tells, Owes, Of, Owed, Pending

\* A step of the heartbeat that reads: what is owed was owed, for a tool only
\* takes up a row that is pending.
LEMMA HeartbeatReads ==
  ASSUME rows' = rows, NEW j, NEW k,
         beat \notin {"delivering", "marking"},
         \/ beat' \notin {"delivering", "marking"}
         \/ beat' = "delivering" /\ target' \in Ids /\ Pending(target')
  PROVE  Tells(j, k)' = Tells(j, k) /\ Owes(j, k)' \subseteq Owes(j, k)
<1>1. Ids' = Ids
  BY DEF Ids
<1>2. Tells(j, k)' = Tells(j, k)
  BY <1>1 DEF Tells, Of
<1>3. \A r \in Ids : (Of(r, j, k)' <=> Of(r, j, k)) /\ (Owed(r)' => Owed(r))
  BY DEF Of, Owed, Pending
<1> QED
  BY <1>1, <1>2, <1>3 DEF Owes

\* A step that makes no row pending.
LEMMA RowsKept ==
  ASSUME rows \in Seq(Row), Kept, NEW j, NEW k, \A r \in Ids : rows'[r].told = rows[r].told,
         \/ UNCHANGED <<beat, target>>
         \/ beat \notin {"delivering", "marking"} /\ beat' \notin {"delivering", "marking"}
         \/ beat = "marking" /\ rows'[target].status # "pending" /\ beat' = "turn"
  PROVE  Tells(j, k)' = Tells(j, k) /\ Owes(j, k)' \subseteq Owes(j, k)
<1>1. Ids' = Ids
  BY DEF Kept, Ids
<1>2. \A r \in Ids : SameStory(r)
  BY DEF Kept, SameStory
<1>3. Tells(j, k)' = Tells(j, k)
  BY <1>1, <1>2, TellsStay
<1>4. \A r \in Ids : Of(r, j, k)' <=> Of(r, j, k)
  BY <1>2 DEF Of, SameStory
<1>5. \A r \in Ids : Pending(r)' => Pending(r)
  BY DEF Kept, Pending
<1>6. \A r \in Ids : Owed(r)' => Owed(r)
  BY <1>1, <1>5 DEF Owed, Pending
<1> QED
  BY <1>1, <1>3, <1>4, <1>6 DEF Owes

\* The job may insert no more than before.
LEMMA MayInsertStays ==
  ASSUME NEW j, NEW k, UNCHANGED <<state, worker_vars>>
  PROVE  MayInsert(j, k)' <=> MayInsert(j, k)
  BY DEF MayInsert, worker_vars

\* Nothing told, nothing to insert.
LEMMA CapInit == Init => TellingsAreCovered /\ LookedUpOnce
<1> SUFFICES ASSUME Init, NEW j \in Jobs, NEW k \in Keys PROVE IsCovered(j, k)
  BY DEF Init, TellingsAreCovered, LookedUpOnce
<1>1. Ids = {}
  BY DEF Init, Ids
<1>2. Tells(j, k) = {} /\ Owes(j, k) = {}
  BY <1>1 DEF Tells, Owes
<1>3. Insertions(j, k) \in {0, 1} /\ Budget = 1
  BY DEF Init, Insertions, Budget
<1> QED
  BY <1>2, <1>3, FS_EmptySet DEF IsCovered

\* The delivery: the row was owed it, and is owed no more until it is marked.
LEMMA DeliverIsCovered ==
  ASSUME IInv, Deliver, NEW j, NEW k, IsCovered(j, k)
  PROVE  IsCovered(j, k)'
<1> USE DEF IInv
<1>1. /\ rows \in Seq(Row) /\ target \in Ids /\ beat = "delivering" /\ beat' = "marking" /\ target' = target
      /\ rows' = [rows EXCEPT ![target].told = @ + 1] /\ UNCHANGED <<state, worker_vars, faults, crashes>>
  BY DEF Deliver, TypeOK, TargetIsPending, job_vars, bounds
<1>2. /\ Ids' = Ids
      /\ \A r \in Ids : Of(r, j, k)' <=> Of(r, j, k)
      /\ \A r \in Ids : Pending(r)' <=> Pending(r)
      /\ \A r \in Ids \ {target} : rows'[r] = rows[r]
      /\ rows[target].told \in Nat /\ rows'[target].told = rows[target].told + 1
  <2>1. Ids = 1 .. Len(rows) /\ rows[target] \in Row
    BY <1>1 DEF Ids
  <2> QED
    BY <1>1, <2>1 DEF Ids, Of, Pending, Row
<1>3. Insertions(j, k)' = Insertions(j, k) /\ Budget' = Budget
  <2>1. MayInsert(j, k)' <=> MayInsert(j, k)
    BY <1>1, MayInsertStays
  <2> QED
    BY <1>1, <2>1 DEF Insertions, Budget
<1>4. CASE ~Of(target, j, k)
  <2>1. Tells(j, k)' = Tells(j, k)
    <3>1. ASSUME NEW p PROVE p \in Tells(j, k)' <=> p \in Tells(j, k)
      <4>1. \A r \in Ids : Of(r, j, k) => rows'[r] = rows[r]
        BY <1>2, <1>4
      <4> QED
        BY <1>2, <4>1, TellsAre
    <3> QED
      BY <3>1
  <2>2. Owes(j, k)' = Owes(j, k)
    BY <1>1, <1>2, <1>4 DEF Owes, Owed
  <2> QED
    BY <1>3, <2>1, <2>2 DEF IsCovered
<1>5. CASE Of(target, j, k)
  <2> DEFINE x == <<target, rows[target].told + 1>>
  <2>1. Tells(j, k)' = Tells(j, k) \cup {x}
    <3>1. ASSUME NEW p PROVE p \in Tells(j, k)' <=> p \in Tells(j, k) \cup {x}
      <4>1. 1 .. rows'[target].told = (1 .. rows[target].told) \cup {rows[target].told + 1}
        BY <1>2
      <4>2. {target} \X (1 .. rows'[target].told) = ({target} \X (1 .. rows[target].told)) \cup {x}
        BY <4>1
      <4>3. p \in Tells(j, k)' <=> \E r \in Ids : Of(r, j, k) /\ p \in {r} \X (1 .. rows'[r].told)
        BY <1>2, TellsAre
      <4>4. p \in Tells(j, k) <=> \E r \in Ids : Of(r, j, k) /\ p \in {r} \X (1 .. rows[r].told)
        BY TellsAre
      <4> HIDE DEF x
      <4>5. \A r \in Ids \ {target} : rows'[r].told = rows[r].told
        BY <1>2
      <4> QED
        BY <1>1, <1>5, <4>2, <4>3, <4>4, <4>5
    <3> QED
      BY <3>1
  <2>2. /\ target \in Owes(j, k) /\ Owes(j, k)' \subseteq Owes(j, k) \ {target}
    BY <1>1, <1>2, <1>5 DEF Owes, Owed
  <2>3. /\ IsFiniteSet(Owes(j, k)) /\ Cardinality(Owes(j, k)) \in Nat
        /\ Cardinality(Owes(j, k)')  \in Nat /\ Cardinality(Owes(j, k)') <= Cardinality(Owes(j, k)) - 1
    <3>1. IsFiniteSet(Owes(j, k))
      BY <1>1, SentIsFinite DEF Owes
    <3>2. /\ IsFiniteSet(Owes(j, k) \ {target})
          /\ Cardinality(Owes(j, k) \ {target}) = Cardinality(Owes(j, k)) - 1
      BY <2>2, <3>1, FS_RemoveElement
    <3>3. IsFiniteSet(Owes(j, k)') /\ Cardinality(Owes(j, k)') <= Cardinality(Owes(j, k) \ {target})
      BY <2>2, <3>2, FS_Subset
    <3> QED
      BY <3>1, <3>2, <3>3, FS_CardinalityType
  <2>4. /\ IsFiniteSet(Tells(j, k)') /\ Cardinality(Tells(j, k)) \in Nat
        /\ Cardinality(Tells(j, k)')  \in Nat /\ Cardinality(Tells(j, k)') <= Cardinality(Tells(j, k)) + 1
    <3> HIDE DEF x
    <3>1. IsFiniteSet(Tells(j, k))
      BY DEF IsCovered
    <3>2. /\ IsFiniteSet(Tells(j, k) \cup {x})
          /\ Cardinality(Tells(j, k) \cup {x}) =
               IF x \in Tells(j, k) THEN Cardinality(Tells(j, k)) ELSE Cardinality(Tells(j, k)) + 1
      BY <3>1, FS_AddElement
    <3>3. Cardinality(Tells(j, k)) \in Nat /\ Cardinality(Tells(j, k)') \in Nat
      BY <2>1, <3>1, <3>2, FS_CardinalityType
    <3> QED
      BY <2>1, <3>2, <3>3
  <2>5. Insertions(j, k) \in {0, 1} /\ Budget \in Nat
    <3>1. faults \in Nat /\ crashes \in Nat
      BY CommitmentConstants DEF TypeOK
    <3> QED
      BY <3>1 DEF Insertions, Budget
  <2>6. Cardinality(Tells(j, k)) + Cardinality(Owes(j, k)) + Insertions(j, k) <= Budget
    BY DEF IsCovered
  <2> DEFINE t == Cardinality(Tells(j, k))
             o == Cardinality(Owes(j, k))
             t1 == Cardinality(Tells(j, k)')
             o1 == Cardinality(Owes(j, k)')
             i == Insertions(j, k)
  <2>7. t1 + o1 + Insertions(j, k)' <= Budget'
    <3>1. t1 + o1 + i <= Budget
      <4> HIDE DEF t, o, t1, o1, i
      <4> QED
        BY <2>3, <2>4, <2>5, <2>6 DEF t, o, t1, o1, i
    <3> QED
      BY <1>3, <3>1
  <2> QED
    BY <2>4, <2>7 DEF IsCovered
<1> QED
  BY <1>4, <1>5

\* Every statement of the worker, the heartbeat and the command line.
LEMMA CapStep ==
  ASSUME CapIInv, IInv', Next, NEW j \in Jobs, NEW k \in Keys
  PROVE  IsCovered(j, k)'
<1> USE DEF CapIInv, IInv, job_vars, worker_vars, beat_vars, bounds, Raise, Command
<1>1. /\ IsCovered(j, k) /\ Budget \in Nat /\ Budget' \in Nat
      /\ rows \in Seq(Row) /\ rows' \in Seq(Row)
  BY BudgetIsNat DEF TellingsAreCovered, TypeOK
<1>2. faults \in Nat /\ crashes \in Nat
  BY CommitmentConstants DEF TypeOK
\* What a step does to the three parts decides.
<1>q. ASSUME Tells(j, k)' = Tells(j, k), Owes(j, k)' \subseteq Owes(j, k),
             MayInsert(j, k)' => MayInsert(j, k), UNCHANGED <<faults, crashes>>
      PROVE  IsCovered(j, k)'
  <2>1. Budget' = Budget
    BY <1>q DEF Budget
  <2> QED
    BY <1>1, <1>q, <2>1, CoveredStays
<1>r. ASSUME Tells(j, k)' = Tells(j, k), Owes(j, k)' \subseteq Owes(j, k), Raise
      PROVE  IsCovered(j, k)'
  <2>1. Budget' = Budget + 1
    BY <1>2, <1>r DEF Budget
  <2> QED
    BY <1>1, <1>r, <2>1, CoveredStays
\* The worker.
<1>3. ASSUME NEW i \in Jobs, Enqueue(i) \/ Claim(i) PROVE IsCovered(j, k)'
  <2>1. Tells(j, k)' = Tells(j, k) /\ Owes(j, k)' = Owes(j, k)
    BY <1>3, RowsLeftAlone DEF Enqueue, Claim
  <2>2. MayInsert(j, k)' => MayInsert(j, k)
    BY <1>3 DEF Enqueue, Claim, MayInsert, TypeOK
  <2> QED
    BY <1>3, <1>q, <2>1, <2>2 DEF Enqueue, Claim
<1>4. CASE Extract \/ ExtractRaises \/ Lookup \/ MarkDone \/ Fail
  <2>1. Tells(j, k)' = Tells(j, k) /\ Owes(j, k)' = Owes(j, k)
    BY <1>4, RowsLeftAlone DEF Extract, ExtractRaises, Lookup, MarkDone, Fail
  <2>2. CASE Extract \/ ExtractRaises \/ Lookup
    <3>1. MayInsert(j, k)' => MayInsert(j, k)
      BY <2>2 DEF Extract, ExtractRaises, Release, Lookup, MayInsert
    <3> QED
      BY <1>q, <2>1, <2>2, <3>1 DEF Extract, ExtractRaises, Lookup
  <2>3. CASE MarkDone \/ Fail
    <3>1. MayInsert(j, k)' => MayInsert(j, k)
      BY <2>3 DEF MarkDone, Fail, Release, MayInsert, TypeOK
    <3> QED
      BY <1>q, <2>1, <2>3, <3>1 DEF MarkDone, Fail
  <2> QED
    BY <1>4, <2>2, <2>3
<1>5. CASE Write
  <2>1. CASE found = NoRow
    <3>0. PICK n : n = Len(rows) + 1
      OBVIOUS
    <3> DEFINE new == [job |-> held, channel |-> channel[held], key |-> key,
                       status |-> "pending", window |-> "early", told |-> 0, today |-> FALSE]
    <3>1. rows' = Append(rows, new) /\ UNCHANGED <<beat, target, state, held, faults, crashes>>
      BY <1>5, <2>1 DEF Write, Insert
    <3>2. /\ Ids' = Ids \cup {n} /\ n \notin Ids /\ rows'[n] = new
          /\ \A r \in Ids : rows'[r] = rows[r]
      <4> HIDE DEF new
      <4> QED
        BY <1>1, <3>0, <3>1 DEF Ids
    <3>3. Tells(j, k)' = Tells(j, k)
      BY <3>2, TellsStay DEF SameStory
    <3>4. \A r \in Ids : (Of(r, j, k)' <=> Of(r, j, k)) /\ (Owed(r)' <=> Owed(r))
      BY <3>1, <3>2 DEF Of, Owed, Pending
    <3>5. Of(n, j, k)' <=> held = j /\ key = k
      <4>1. rows'[n].job = held /\ rows'[n].key = key
        BY <3>2
      <4> QED
        BY <4>1 DEF Of
    <3>6. CASE held = j /\ key = k
      <4>1. Owes(j, k)' \subseteq Owes(j, k) \cup {n}
        BY <3>2, <3>4 DEF Owes
      <4>2. MayInsert(j, k)
        BY <1>5, <2>1, <3>6 DEF MayInsert, Write
      <4>3. ~ MayInsert(j, k)'
        <5>1. state'[j] = "running"
          BY <1>5, <3>1, <3>6 DEF Write, HeldIsRunning, Holding
        <5>2. worker' = "recording" /\ k \notin todo'
          BY <1>5, <3>6 DEF Write, LookedUpOnce
        <5> QED
          BY <5>1, <5>2 DEF MayInsert
      <4>4. Budget' = Budget
        BY <3>1 DEF Budget
      <4> QED
        BY <1>1, <3>3, <4>1, <4>2, <4>3, <4>4, CoveredStays
    <3>7. CASE ~ (held = j /\ key = k)
      <4>1. Owes(j, k)' \subseteq Owes(j, k)
        BY <3>2, <3>4, <3>5, <3>7 DEF Owes
      <4>2. MayInsert(j, k)' => MayInsert(j, k)
        BY <1>5, <3>1 DEF MayInsert, Write
      <4> QED
        BY <1>q, <3>1, <3>3, <4>1, <4>2
    <3> QED
      BY <3>6, <3>7
  <2>2. CASE found # NoRow
    <3>1. found \in Ids /\ rows[found] \in Row /\ Widen(found) /\ UNCHANGED <<beat, target, state, held, faults, crashes>>
      BY <1>1, <1>5, <2>2 DEF Write, TypeOK, Ids
    <3>2. Kept /\ \A r \in Ids : rows'[r].told = rows[r].told
      BY <1>1, <3>1 DEF Kept, Widen, Ids, Row
    <3>3. Tells(j, k)' = Tells(j, k) /\ Owes(j, k)' \subseteq Owes(j, k)
      BY <1>1, <3>1, <3>2, RowsKept
    <3>4. MayInsert(j, k)' => MayInsert(j, k)
      BY <1>5, <3>1 DEF MayInsert, Write
    <3> QED
      BY <1>q, <3>1, <3>3, <3>4
  <2> QED
    BY <2>1, <2>2
<1>6. CASE CompleteRaises \/ WorkerDies
  <2>1. Tells(j, k)' = Tells(j, k) /\ Owes(j, k)' = Owes(j, k)
    BY <1>6, RowsLeftAlone DEF CompleteRaises, WorkerDies
  <2> QED
    BY <1>6, <1>r, <2>1 DEF CompleteRaises, WorkerDies
\* The heartbeat.
<1>7. CASE Sweep
  <2>1. Kept /\ \A r \in Ids : rows'[r].told = rows[r].told
    BY <1>1, <1>7 DEF Sweep, Kept, Ids, Row, Pending
  <2>2. Tells(j, k)' = Tells(j, k) /\ Owes(j, k)' \subseteq Owes(j, k)
    BY <1>1, <1>7, <2>1, RowsKept DEF Sweep
  <2>3. MayInsert(j, k)' => MayInsert(j, k)
    BY <1>7, MayInsertStays DEF Sweep
  <2> QED
    BY <1>7, <1>q, <2>2, <2>3 DEF Sweep
<1>8. CASE Count \/ List \/ FetchRaises \/ EndTurn \/ \E r \in Ids : Respond(r) \/ Dismiss(r)
  <2>1. rows' = rows /\ beat \notin {"delivering", "marking"}
    BY <1>8 DEF Count, List, FetchRaises, EndTurn, Respond, Dismiss
  <2>2. \/ beat' \notin {"delivering", "marking"}
        \/ beat' = "delivering" /\ target' \in Ids /\ Pending(target')
    BY <1>8 DEF Count, List, FetchRaises, EndTurn, ReleaseBeat, Respond, Dismiss
  <2>3. Tells(j, k)' = Tells(j, k) /\ Owes(j, k)' \subseteq Owes(j, k)
    BY <2>1, <2>2, HeartbeatReads
  <2>4. MayInsert(j, k)' => MayInsert(j, k)
    BY <1>8, MayInsertStays DEF Count, List, FetchRaises, EndTurn, Respond, Dismiss
  <2>5. UNCHANGED <<faults, crashes>> \/ Raise
    BY <1>8 DEF Count, List, FetchRaises, EndTurn, Respond, Dismiss
  <2> QED
    BY <1>q, <1>r, <2>3, <2>4, <2>5
<1>9. CASE Deliver
  BY <1>1, <1>9, DeliverIsCovered
<1>10. CASE MarkSent \/ MarkDismissed
  <2>1. PICK x \in {"sent", "dismissed"} : SetStatus(target, x)
    BY <1>10 DEF MarkSent, MarkDismissed
  <2>2. /\ target \in Ids /\ beat' = "turn" /\ beat \in {"marking", "dismissing"}
        /\ UNCHANGED <<state, worker_vars, faults, crashes>>
    BY <1>10 DEF MarkSent, MarkDismissed, BackToTurn, TargetIsPending
  <2>3. /\ Kept /\ \A r \in Ids : rows'[r].told = rows[r].told
        /\ rows'[target].status # "pending"
    BY <1>1, <2>1, <2>2, SetStatusKeeps DEF Statuses
  <2>4. Tells(j, k)' = Tells(j, k) /\ Owes(j, k)' \subseteq Owes(j, k)
    BY <1>1, <2>2, <2>3, RowsKept
  <2>5. MayInsert(j, k)' => MayInsert(j, k)
    BY <2>2, MayInsertStays
  <2> QED
    BY <1>q, <2>2, <2>4, <2>5
<1>11. CASE ToolRaises
  <2>1. Tells(j, k)' = Tells(j, k) /\ Owes(j, k)' \subseteq Owes(j, k) \cup {target}
    <3>1. Ids' = Ids /\ rows' = rows
      BY <1>11 DEF ToolRaises, Ids
    <3>2. beat \in {"marking", "dismissing"} /\ beat' = "turn"
      BY <1>11 DEF ToolRaises, BackToTurn
    <3> QED
      BY <3>1, <3>2 DEF Tells, Owes, Of, Owed, Pending
  <2>2. MayInsert(j, k)' => MayInsert(j, k)
    BY <1>11, MayInsertStays DEF ToolRaises
  <2>3. Budget' = Budget + 1
    BY <1>2, <1>11 DEF ToolRaises, Budget
  <2>4. \E x : Owes(j, k)' \subseteq Owes(j, k) \cup {x}
    BY <2>1
  <2> QED
    BY <1>1, <2>1, <2>2, <2>3, <2>4, CoveredStays
\* The command line and time.
<1>12. CASE CliDismiss
  <2>1. chosen \in Ids
    BY <1>12 DEF CliDismiss, TypeOK
  <2>2. Kept /\ \A r \in Ids : rows'[r].told = rows[r].told
    BY <1>1, <1>12, <2>1, SetStatusKeeps DEF CliDismiss, Statuses
  <2>3. Tells(j, k)' = Tells(j, k) /\ Owes(j, k)' \subseteq Owes(j, k)
    BY <1>1, <1>12, <2>2, RowsKept DEF CliDismiss
  <2>4. MayInsert(j, k)' => MayInsert(j, k)
    BY <1>12, MayInsertStays DEF CliDismiss
  <2> QED
    BY <1>12, <1>q, <2>3, <2>4 DEF CliDismiss
<1>13. ASSUME NEW q \in Ids, CliRead(q) \/ CliDelete(q) \/ Ripen(q) \/ DayPasses(q)
       PROVE  IsCovered(j, k)'
  <2>1. Kept /\ \A r \in Ids : rows'[r].told = rows[r].told
    <3>1. rows[q] \in Row
      BY <1>1 DEF Ids
    <3>2. CASE CliRead(q)
      BY <1>1, <3>2 DEF CliRead, Kept
    <3>3. CASE CliDelete(q)
      BY <1>1, <3>3, SetStatusKeeps DEF CliDelete, Statuses
    <3>4. CASE Ripen(q)
      BY <1>1, <3>1, <3>4 DEF Ripen, Kept, Ids, Row
    <3>5. CASE DayPasses(q)
      BY <1>1, <3>1, <3>5 DEF DayPasses, Kept, Ids, Row
    <3> QED
      BY <1>13, <3>2, <3>3, <3>4, <3>5
  <2>2. UNCHANGED <<state, worker_vars, beat, target, faults, crashes>>
    BY <1>13 DEF CliRead, CliDelete, Ripen, DayPasses
  <2>3. Tells(j, k)' = Tells(j, k) /\ Owes(j, k)' \subseteq Owes(j, k)
    BY <1>1, <2>1, <2>2, RowsKept
  <2>4. MayInsert(j, k)' => MayInsert(j, k)
    BY <2>2, MayInsertStays
  <2> QED
    BY <1>q, <2>2, <2>3, <2>4
\* The process dies: a delivery that is not marked, and a job that runs again.
<1>14. CASE Restart
  <2>1. Tells(j, k)' = Tells(j, k) /\ Owes(j, k)' \subseteq Owes(j, k) \cup {target}
    <3>1. Ids' = Ids /\ rows' = rows
      BY <1>14 DEF Restart, Ids
    <3>2. beat' = "idle"
      BY <1>14 DEF Restart, ReleaseBeat
    <3> QED
      BY <3>1, <3>2 DEF Tells, Owes, Of, Owed, Pending
  <2>2. \E x : Owes(j, k)' \subseteq Owes(j, k) \cup {x}
    BY <2>1
  <2>3. Budget' = Budget + 2
    BY <1>2, <1>14 DEF Restart, Budget
  <2> QED
    BY <1>1, <2>1, <2>2, <2>3, CoveredStays
<1> QED
  BY <1>3, <1>4, <1>5, <1>6, <1>7, <1>8, <1>9, <1>10, <1>11, <1>12, <1>13, <1>14
  DEF Next, Worker, Heartbeat, Tools, CLI, Faults

\* Every step keeps both.
LEMMA CapNext == CapIInv /\ IInv' /\ [Next]_vars => TellingsAreCovered' /\ LookedUpOnce'
<1>1. ASSUME CapIInv, IInv', Next PROVE TellingsAreCovered'
  BY <1>1, CapStep DEF TellingsAreCovered
<1>2. ASSUME CapIInv, Next PROVE LookedUpOnce'
  BY <1>2
  DEF CapIInv, LookedUpOnce, Next, Worker, Heartbeat, Tools, CLI, Faults, Enqueue, Claim, Extract,
      ExtractRaises, Release, Lookup, Write, MarkDone, CompleteRaises, Fail, WorkerDies, Sweep,
      Count, List, FetchRaises, Respond, Deliver, MarkSent, Dismiss, MarkDismissed, ToolRaises,
      EndTurn, CliRead, CliDismiss, CliDelete, Ripen, DayPasses, Restart, worker_vars
<1>3. ASSUME CapIInv, UNCHANGED vars PROVE TellingsAreCovered' /\ LookedUpOnce'
  <2>1. Ids' = Ids
    BY <1>3 DEF vars, Ids
  <2>2. LookedUpOnce'
    BY <1>3 DEF CapIInv, LookedUpOnce, vars
  <2>3. ASSUME NEW j \in Jobs, NEW k \in Keys PROVE IsCovered(j, k)'
    <3>1. Tells(j, k)' = Tells(j, k) /\ Owes(j, k)' = Owes(j, k)
      BY <1>3, RowsLeftAlone DEF vars
    <3>2. Insertions(j, k)' = Insertions(j, k) /\ Budget' = Budget
      BY <1>3 DEF vars, Insertions, MayInsert, Budget
    <3> QED
      BY <1>3, <3>1, <3>2 DEF CapIInv, TellingsAreCovered, IsCovered
  <2> QED
    BY <2>2, <2>3 DEF TellingsAreCovered
<1> QED
  BY <1>1, <1>2, <1>3

\* A day has at most MaxPerDay check-ins from a model that answers what it was
\* shown, and an exchange is followed up once for each of its follow-ups: a
\* statement that raises costs one telling more at most, a process that dies two.
THEOREM CapsAreKept == MCSpec => []CapsHold
<1>1. MCSpec => Spec
  BY DEF MCSpec, MCInit, Spec
<1>2. Init => TellingsAreCovered /\ LookedUpOnce
  BY CapInit
<1>3. MCSpec => [](TellingsAreCovered /\ LookedUpOnce)
  <2>1. MCInit => TellingsAreCovered /\ LookedUpOnce
    BY <1>2 DEF MCInit
  <2>2. (TellingsAreCovered /\ LookedUpOnce) /\ IInv /\ IInv' /\ [Next]_vars
          => (TellingsAreCovered /\ LookedUpOnce)'
    BY CapNext DEF CapIInv
  <2> QED
    BY <1>1, <2>1, <2>2, Invariant, PTL DEF MCSpec
<1>4. TellingsAreCovered /\ IInv => CapsHold
  <2>1. ASSUME IInv PROVE QuotaHolds
    BY <2>1 DEF IInv, QuotaIsKept, QuotaHolds, SentToday, Sent
  <2>2. ASSUME TellingsAreCovered, IInv, NEW j \in Jobs, NEW k \in Keys
        PROVE  Told(j, k) <= 1 + faults + 2 * crashes
    <3>1. Told(j, k) = Cardinality(Tells(j, k))
      BY DEF Told, Tells, Of
    <3>2. Cardinality(Tells(j, k)) \in Nat /\ Cardinality(Owes(j, k)) \in Nat
      <4>1. IsFiniteSet(Tells(j, k)) /\ rows \in Seq(Row)
        BY <2>2 DEF TellingsAreCovered, IsCovered, IInv, TypeOK
      <4>2. IsFiniteSet(Owes(j, k))
        BY <4>1, SentIsFinite DEF Owes
      <4> QED
        BY <4>1, <4>2, FS_CardinalityType
    <3>3. Insertions(j, k) \in {0, 1} /\ faults \in Nat /\ crashes \in Nat
      BY <2>2, CommitmentConstants DEF Insertions, IInv, TypeOK
    <3>4. Cardinality(Tells(j, k)) + Cardinality(Owes(j, k)) + Insertions(j, k) <= Budget
      BY <2>2 DEF TellingsAreCovered, IsCovered
    <3> DEFINE t == Cardinality(Tells(j, k))
               o == Cardinality(Owes(j, k))
    <3>5. t <= 1 + faults + 2 * crashes
      <4> HIDE DEF t, o
      <4> QED
        BY <3>2, <3>3, <3>4 DEF t, o, Budget
    <3> QED
      BY <3>1, <3>5
  <2> QED
    BY <2>1, <2>2 DEF CapsHold, OneCheckInPerExchange
<1> QED
  BY <1>1, <1>3, <1>4, Invariant, PTL
=============================================================================
