--------------------------- MODULE DailyScheduler ---------------------------
(***************************************************************************)
(* A daily schedule (dreaming.py, memory/consolidation_scheduler.py,       *)
(* memory/digest_scheduler.py, memory/retention_scheduler.py: one class    *)
(* written four times): a timer counts down real hours to the next         *)
(* configured hour of the wall clock, its thread runs one pass, and sets   *)
(* the next timer.  The wall clock may be changed for daylight saving.     *)
(* `stop' may come at any moment, from another thread.                     *)
(***************************************************************************)
EXTENDS Naturals

CONSTANTS
    Hours,     \* of a day
    Hour,      \* the configured one
    MaxShifts, \* bound: changes of the wall clock
    MaxStops   \* bound: calls of stop

ScheduleAssumption == /\ Hours \in Nat \ {0} /\ Hour \in 0..(Hours - 1)
                      /\ {MaxShifts, MaxStops} \subseteq Nat

VARIABLES
    wall,     \* the hour on the wall clock
    timer,    \* "new" (not started), "none", "armed", "expired" (its thread is about to call _fire),
              \* "running" or "rearming" (in _fire, before and after the test of _stopped)
    left,     \* hours until an armed timer expires
    stopping, \* what stop has done: "none", "flagged" (_stopped), "done"
    today,    \* history: passes begun on this day of the wall clock
    whole,    \* history: a timer was armed, and no pass running, since the day began
    shifts,
    shifted,  \* history: the clock was changed today or yesterday
    stops

clock == <<wall, whole, shifts, shifted>>
vars  == <<wall, timer, left, stopping, today, whole, shifts, shifted, stops>>

\* The difference of two wall-clock times in the same zone: Python leaves the
\* zone's offset out, and with it a change of the clock in between.
SecondsUntilNext      == IF Hour <= wall THEN Hour + Hours - wall ELSE Hour - wall

Init ==
    /\ wall \in 0..(Hours - 1)
    /\ timer = "new" /\ left = 0 /\ stopping = "none"
    /\ today = 0 /\ whole = FALSE /\ shifts = 0 /\ shifted = "no" /\ stops = 0

Arm == timer' = "armed" /\ left' = SecondsUntilNext

Start ==
    /\ timer = "new"
    /\ Arm
    /\ UNCHANGED <<clock, stopping, today, stops>>

Expire ==
    /\ timer = "armed" /\ left = 0
    /\ timer' = "expired"
    /\ UNCHANGED <<clock, left, stopping, today, stops>>

FireUnchecked ==
    /\ timer = "expired"
    /\ timer' = "running" /\ today' = today + 1
    /\ UNCHANGED <<clock, left, stopping, stops>>

Fire ==
    /\ timer = "expired"
    /\ IF stopping # "none"
       THEN timer' = "none" /\ UNCHANGED today
       ELSE timer' = "running" /\ today' = today + 1
    /\ UNCHANGED <<clock, left, stopping, stops>>

\* The pass returns or raises; either way the finally clause tests _stopped ...
PassEnds ==
    /\ timer = "running"
    /\ timer' = IF stopping = "none" THEN "rearming" ELSE "none"
    /\ UNCHANGED <<clock, left, stopping, today, stops>>

\* ... and sets the next timer, though stop may have come in between.
Rearm ==
    /\ timer = "rearming"
    /\ Arm
    /\ UNCHANGED <<clock, stopping, today, stops>>

Flag ==
    /\ stopping = "none" /\ timer # "new" /\ stops < MaxStops
    /\ stopping' = "flagged" /\ stops' = stops + 1
    /\ UNCHANGED <<clock, timer, left, today>>

\* Timer.cancel does nothing to a timer that has expired, or to the next one.
Cancel ==
    /\ stopping = "flagged"
    /\ stopping' = "done"
    /\ timer' = IF timer = "armed" THEN "none" ELSE timer
    /\ UNCHANGED <<clock, left, today, stops>>

\* Another process begins: a new object, nothing armed.
Restart ==
    /\ stopping = "done" /\ timer = "none"
    /\ stopping' = "none" /\ timer' = "new"
    /\ UNCHANGED <<clock, left, today, stops>>

-----------------------------------------------------------------------------
Prompt == timer \in {"new", "armed", "none", "running"} /\ (timer = "armed" => left > 0)

Turn(hour, midnight) ==
    /\ wall' = hour
    /\ IF midnight
       THEN /\ today' = 0
            /\ whole' = (timer = "armed")
            /\ shifted' = CASE shifted = "today" -> "yesterday" [] OTHER -> "no"
       ELSE /\ whole' = (whole /\ timer = "armed")
            /\ UNCHANGED <<today, shifted>>

\* An hour passes; what is due happens before.
Tick ==
    /\ Prompt
    /\ Turn((wall + 1) % Hours, wall = Hours - 1)
    /\ left' = IF timer = "armed" THEN left - 1 ELSE left
    /\ UNCHANGED <<timer, stopping, shifts, stops>>

\* The clock is put forward or back by an hour, within a day.
Shift ==
    /\ Prompt /\ shifts < MaxShifts
    /\ shifts' = shifts + 1
    /\ \/ wall + 1 < Hours /\ wall' = wall + 1
       \/ wall > 0 /\ wall' = wall - 1
    /\ shifted' = "today"
    /\ UNCHANGED <<timer, left, stopping, today, whole, stops>>

Next == \/ Start \/ Expire \/ Fire \/ PassEnds \/ Rearm \/ Flag \/ Cancel \/ Restart
        \/ Tick \/ Shift

Spec == Init /\ [][Next]_vars

\* Time passes, threads go on, and a pass ends: its provider calls have time limits.
TimerGoesOn == Start \/ Expire \/ Fire \/ PassEnds \/ Rearm
FairSpec == Spec /\ WF_vars(TimerGoesOn) /\ WF_vars(Tick)
-----------------------------------------------------------------------------
TypeOK ==
    /\ wall \in 0..(Hours - 1) /\ left \in 0..Hours
    /\ timer \in {"new", "none", "armed", "expired", "running", "rearming"}
    /\ stopping \in {"none", "flagged", "done"}
    /\ whole \in BOOLEAN /\ shifted \in {"no", "today", "yesterday"}
    /\ today \in Nat /\ shifts \in 0..MaxShifts /\ stops \in 0..MaxStops

(* One pass a day, no second one by a timer set in the hour it fired in,    *)
(* none missing on a day that began with a timer set; a day after a change  *)
(* of the clock is excused (_seconds_until_next, start, _fire).             *)
Steady == shifted = "no" /\ stops = 0
OnePassADay == /\ Steady => today <= 1
               /\ Steady /\ whole /\ wall > Hour => today = 1

(* No pass begins once stop has returned: neither a timer that had expired  *)
(* before it was cancelled, nor one set in between (stop, _fire).           *)
NoPassAfterStop ==
    [][stopping = "done" /\ timer' = "running" => timer = "running"]_vars

(* Passes go on for ever, failed ones no less, unless stopped (the finally  *)
(* clause of _fire).                                                        *)
AnotherPass == timer = "running" \/ stopping # "none"
PassesRecur == []<>AnotherPass

=============================================================================
