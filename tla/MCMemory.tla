------------------------------ MODULE MCMemory ------------------------------
(***************************************************************************)
(* What makes a memory complete: the capture jobs that cover a session's   *)
(* messages, and the index that follows the files.  The parts share no     *)
(* state, so that one run explores them one at a time: part says which     *)
(* moves, and the other stays where it begins.                             *)
(*                                                                         *)
(* compute_backfill_windows is compared with a declarative definition on   *)
(* every small history: the ids of a session's messages among 1..MaxId,    *)
(* the others being other sessions', and up to MaxRanges covered ranges.   *)
(* The comparison does not depend on the state, so that making it in the   *)
(* empty one, where every run begins, is making it everywhere.             *)
(***************************************************************************)
EXTENDS CaptureCoverage

CONSTANTS MaxId, MaxRanges,
          Files, Texts, Marked, MaxWrites, MaxManual

VARIABLES
  part,
  disk, chunks, ledger, claim, pinned, shadow, work, phase, watching, pending, writes,
  manual, indexFaults, spoilt, missed, stray

coverVars == <<kinds, unmirrored, jobs, coverage, quiet, turn, todo, exchange, rec, gaps,
               fill, batch, fills, faults>>
indexVars == <<disk, chunks, ledger, claim, pinned, shadow, work, phase, watching, pending,
               writes, manual, indexFaults, spoilt, missed, stray>>

Index == INSTANCE MemoryIndex WITH faults <- indexFaults, MaxFaults <- 1

ASSUME Assumptions == Index!IndexAssumption /\ {MaxId, MaxRanges} \subseteq Nat
-----------------------------------------------------------------------------
MCInit == part \in {"coverage", "index"} /\ Init /\ Index!Init

MCNext ==
  /\ UNCHANGED part
  /\ \/ part = "coverage" /\ Next /\ UNCHANGED indexVars
     \/ part = "index" /\ Index!Next /\ UNCHANGED coverVars

\* The fairness of each part, where it moves.
Fairness ==
  /\ WF_coverVars(part = "coverage" /\ Turn)
  /\ WF_coverVars(part = "coverage" /\ Reconciler)
  /\ WF_coverVars(part = "coverage" /\ QuietElapses)
  /\ \A t \in Index!Threads : WF_indexVars(part = "index" /\ Index!Work(t))
  /\ WF_indexVars(part = "index" /\ Index!Startup)
  /\ WF_indexVars(part = "index" /\ Index!StartWatcher)
  /\ WF_indexVars(part = "index" /\ Index!WatcherReconcile)
  /\ WF_indexVars(part = "index" /\ Index!Force)
  /\ WF_indexVars(part = "index" /\ Index!SyncIndex)
  /\ WF_indexVars(part = "index" /\ Index!PinRow)

mcVars == <<part, coverVars, indexVars>>
MCSpec == MCInit /\ [][MCNext]_mcVars /\ Fairness
-----------------------------------------------------------------------------
Histories ==
  LET Span == {r \in (1..MaxId) \X (1..MaxId) : r[1] <= r[2]}
  IN  {[ids |-> Ascending(S), ranges |-> R] :
           S \in SUBSET (1..MaxId), R \in UNION {kSubset(n, Span) : n \in 0..MaxRanges}}

AtTheStart == part = "coverage" /\ kinds = <<>> /\ faults = 0

Gap(h) == {i \in Range(h.ids) : ~Covered(i, h.ranges)}

\* Two uncovered ids are in one run when no covered id of the session lies
\* between them; windows cut a run every Window ids.
SameRun(h, i, j) ==
  \A m \in Range(h.ids) : (i <= m /\ m <= j) \/ (j <= m /\ m <= i) => m \in Gap(h)
Rank(h, i)  == Cardinality({j \in Gap(h) : j <= i /\ SameRun(h, j, i)})
Chunk(h, i) == {j \in Gap(h) : SameRun(h, i, j)
                             /\ (Rank(h, j) - 1) \div Window = (Rank(h, i) - 1) \div Window}
Reference(h) == {<<Min(Chunk(h, i)), Max(Chunk(h, i))>> : i \in Gap(h)}

(* The windows are exactly the runs of uncovered messages cut every Window *)
(* messages: nothing uncovered is missed, in the tail or in a sparse hole  *)
(* (R2-GAP-002), and nothing covered is captured again.                    *)
WindowsAreExactlyTheGaps == AtTheStart => \A h \in Histories :
  LET windows == ComputeBackfillWindows(h.ids, h.ranges)
      exact   == Reference(h)
  IN  Range(windows) = exact /\ Len(windows) = Cardinality(exact)

\* So a producer that computed them never captures a message twice, nor does the
\* live one, unless a coverage row was lost.
NothingTwiceNothingMissed == WindowsAreExactlyTheGaps /\ NoProducerRepeatsItself
-----------------------------------------------------------------------------
(* The properties of the index, as its module states them. *)

\* What the ledger vouches for is what the chunks hold, and a claim is on a page
\* that marks it.
IndexIsSound == Index!LedgerVouchesForChunks /\ Index!ClaimIsMarkedOnItsPage
\* The index ends up as the files are.
EventuallyIndexed == Index!EventuallyIndexed
=============================================================================
