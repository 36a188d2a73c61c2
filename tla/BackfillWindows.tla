--------------------------- MODULE BackfillWindows ---------------------------
(***************************************************************************)
(* compute_backfill_windows of session/db.py: which ranges of a session's  *)
(* messages no extraction job has ever covered, cut into bounded windows.  *)
(* The reconciler and the backfill command both enqueue one catch-up job   *)
(* per window it returns.                                                  *)
(***************************************************************************)
EXTENDS Naturals, Sequences, SequencesExt

CONSTANT Window   \* _BACKFILL_WINDOW_MESSAGES

ASSUME WindowAssumption == Window \in Nat \ {0}

\* Message ids are global: a session's ids are ascending, seldom adjacent.
In(id, range)     == range[1] <= id /\ id <= range[2]
Covered(id, ranges) == \E r \in ranges : In(id, r)

\* ORDER BY id: the n-th row is the one with n ids up to its own.
Ascending(ids) ==
    [n \in 1..Cardinality(ids) |-> CHOOSE i \in ids : Cardinality({j \in ids : j <= i}) = n]

\* One contiguous run of uncovered ids, as (from, to) windows.
ChunkRun(run) ==
    [c \in 1..((Len(run) + Window - 1) \div Window) |->
        LET last == c * Window
        IN  <<run[(c - 1) * Window + 1], run[IF last <= Len(run) THEN last ELSE Len(run)]>>]

Flush(acc) == [run |-> <<>>, windows |-> acc.windows \o ChunkRun(acc.run)]

\* The loop body: a covered id ends the current run, any other extends it.
VisitSkipping(acc, id, ranges) ==
    IF Covered(id, ranges) THEN acc ELSE [acc EXCEPT !.run = Append(@, id)]
Visit(acc, id, ranges) ==
    IF Covered(id, ranges) THEN Flush(acc) ELSE [acc EXCEPT !.run = Append(@, id)]

ComputeBackfillWindows(ids, ranges) ==
    Flush(FoldLeft(LAMBDA acc, id : Visit(acc, id, ranges),
                   [run |-> <<>>, windows |-> <<>>], ids)).windows
==============================================================================
