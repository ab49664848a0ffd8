------------------------------ MODULE MCBackfill ------------------------------
(***************************************************************************)
(* Scheduler, with a record of the slots that fell due while their job was *)
(* paused.                                                                 *)
(***************************************************************************)
EXTENDS Scheduler

VARIABLE missed        \* <<j, t>>: t fell due while j was paused

HistoryInit == Init /\ missed = {}

HistoryNext ==
    /\ Next
    /\ missed' = IF clock' = clock THEN missed ELSE missed \union Due("paused")

HistorySpec == HistoryInit /\ [][HistoryNext]_<<vars, missed>>

\* README.md: "resuming does not backfill missed runs".
NoBackfill == slots \intersect missed = {}

=============================================================================
