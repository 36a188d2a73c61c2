---------------------------- MODULE MCOperation ----------------------------
(***************************************************************************)
(* Small parts the program runs on: the schema ledger at startup, the      *)
(* daily timer, the terminal interface, the replies as they come over the  *)
(* wire, and the file that says which session and which sub-agents an      *)
(* agent has.  They share no state, so that one run explores them one at a *)
(* time: part says which moves, and the others stay where they begin.      *)
(***************************************************************************)
EXTENDS SchemaLedger

CONSTANTS Hours, Hour, MaxShifts, MaxStops,
          Agents, Prefixed, Threads,
          MaxCalls, MaxPieces, MaxMessages, MaxRetries,
          Spawners, Children, NoFile, Torn, MaxChildren, MaxSessions, MaxTouches

VARIABLES
  part,
  wall, timer, left, stopping, today, whole, shifts, shifted, stops,
  composer, active, turn, holder, ui, answer, broken, crossed, missed,
  history, reply, acc, retries, stream,
  up, cache, path, tmp, place, why, snap, fd, child, latest, spawned, alone, mixed, lapsed,
  raced, touches, ends

ledgerVars == <<lock, ledger, objects, ran, attempts, pc, procVars, crashes, starts>>
timerVars == <<wall, timer, left, stopping, today, whole, shifts, shifted, stops>>
screenVars == <<composer, active, turn, holder, ui, answer, broken, crossed, missed>>
wireVars == <<history, reply, acc, retries, stream>>
registryVars == <<up, cache, path, tmp, place, why, snap, fd, child, latest, spawned, alone,
                  mixed, lapsed, raced, touches, ends>>

Timer == INSTANCE DailyScheduler
Screen == INSTANCE TerminalApp WITH stream <- answer
Wire == INSTANCE ProviderWire
Registry == INSTANCE SessionRegistry WITH Callers <- Spawners, at <- place, ran <- spawned,
  stops <- ends

ASSUME Assumptions ==
  Timer!ScheduleAssumption /\ Screen!TerminalAssumption /\ Wire!WireAssumption
    /\ Registry!RegistryAssumption
-----------------------------------------------------------------------------
\* The parts' initial states differ only where they move.
MCInit ==
  /\ part \in {"ledger", "timer", "screen", "wire", "registry"}
  /\ Init /\ Timer!Init /\ Screen!Init /\ Wire!Init 
  /\ Registry!Init
  /\ part = "timer" \/ wall = 0
  /\ part = "screen" \/ active = CHOOSE a \in Agents : TRUE

MCNext ==
  /\ UNCHANGED part
  /\ \/ /\ part = "ledger" /\ Next
        /\ UNCHANGED <<timerVars, screenVars, wireVars, registryVars>>
     \/ /\ part = "timer" /\ Timer!Next
        /\ UNCHANGED <<ledgerVars, screenVars, wireVars, registryVars>>
     \/ /\ part = "screen" /\ Screen!Next
        /\ UNCHANGED <<ledgerVars, timerVars, wireVars, registryVars>>
     \/ /\ part = "wire" /\ Wire!Next
        /\ UNCHANGED <<ledgerVars, timerVars, screenVars, registryVars>>
     \/ /\ part = "registry" /\ Registry!Next
        /\ UNCHANGED <<ledgerVars, timerVars, screenVars, wireVars>>

\* The fairness of the timer, the interface and the registry, where they move.
Fairness ==
  /\ WF_timerVars(part = "timer" /\ Timer!TimerGoesOn)
  /\ WF_timerVars(part = "timer" /\ Timer!Tick)
  /\ WF_screenVars(part = "screen" /\ Screen!SessionSwitched)
  /\ \A t \in Threads :
       /\ WF_screenVars(part = "screen" /\ Screen!TurnStep(t))
       /\ SF_screenVars(part = "screen" /\ \E failed \in BOOLEAN : Screen!SendEnds(t, failed))
       /\ SF_screenVars(part = "screen" /\ (Screen!UiStep(t) \/ Screen!AnswerModal(t)))
  /\ \A c \in Spawners :
       WF_registryVars(part = "registry" /\ (Registry!Joined(c) \/ Registry!JoinTimesOut(c)))

mcVars == <<part, ledgerVars, timerVars, screenVars, wireVars, registryVars>>
MCSpec == MCInit /\ [][MCNext]_mcVars /\ Fairness
-----------------------------------------------------------------------------
(* The properties of the parts, as their modules state them. *)

\* One pass a day, none twice and none missing, none once stop has returned, and
\* there is always another.
PassesAreDaily ==
  /\ []Timer!OnePassADay /\ Timer!NoPassAfterStop
  /\ []<>(part = "timer" => Timer!AnotherPass)
\* A final answer is on the screen in full unless another turn's answer streamed
\* with it, late sub-agents and failed turns notwithstanding; and the composer
\* comes back, unless a click on a session made the interface and the turn wait
\* for each other.
ScreenFollowsTurns ==
  [](part = "screen" => Screen!AnswersAreShown) /\ Screen!ComposerComesBack
\* A reply that came to its end brings every call whole, and its results are in
\* the message after it.
CallsAndResultsMatch == Wire!CallsArriveWhole /\ Wire!ResultsFollowTheirCalls
\* The file is what the process knows, and an agent has no more sub-agents than
\* the limit, over restarts too, unless saves or spawns overlapped; a turn that
\* waits for a sub-agent goes on.
RegistryIsKept ==
  [](Registry!FileFollowsCache /\ Registry!ChildLimitHolds) /\ Registry!SpawnReturns
=============================================================================
