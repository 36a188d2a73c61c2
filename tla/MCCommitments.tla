--------------------------- MODULE MCCommitments ---------------------------
(* Commitments on a small instance for TLC.  The rooms are interchangeable: *)
(* the first exchange is in the first one.                                  *)
EXTENDS Commitments

MCInit == Init /\ channel[1] = "room"
MCSpec == MCInit /\ [][Next]_vars /\ Fairness
-----------------------------------------------------------------------------
\* A day has at most MaxPerDay check-ins, and an exchange is followed up once, but
\* for what a fault or a crash has repeated.
CapsHold == QuotaHolds /\ OneCheckInPerExchange

\* Only a pending check-in is told, and none stays pending for ever.
PendingIsToldAndSettled == OnlyPendingIsTold /\ PendingIsSettled

============================================================================
