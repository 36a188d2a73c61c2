--------------------------- MODULE VersionedNote ---------------------------
(***************************************************************************)
(* What the undo history of a topic note promises: a register with a stack *)
(* of the values that tracked writes replaced.  Undo steps back one write  *)
(* at a time.  Writes made outside the history only change the value, and  *)
(* an operation that stops half-way may lose its entry, or leave one that  *)
(* undoes nothing.  While operations overlap, nothing is promised; once    *)
(* they have ended, it is a register again, with the entries there are.    *)
(***************************************************************************)
EXTENDS Naturals, SequencesExt

CONSTANTS Contents,  \* what a note may hold
          Empty      \* holding nothing

VARIABLES value,    \* what the note holds
          undo,     \* the values that Undo brings back, the last one first
          overlap   \* operations overlap

vars == <<value, undo, overlap>>

Init == value = Empty /\ undo = <<>> /\ overlap = FALSE

\* The entry of a write that changes nothing undoes nothing.
Write == /\ value' \in Contents
         /\ undo' = Append(undo, value)

Undo == /\ undo # <<>>
        /\ value' = Last(undo)
        /\ undo' = Front(undo)

Overwrite == value' \in Contents /\ UNCHANGED undo

Lose == /\ undo # <<>>
        /\ undo' = Front(undo)
        /\ UNCHANGED value

Next == ~overlap /\ ~overlap' => Write \/ Undo \/ Overwrite \/ Lose

Spec == Init /\ [][Next]_vars
============================================================================
