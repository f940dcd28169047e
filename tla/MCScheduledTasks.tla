------------------------- MODULE MCScheduledTasks -------------------------
(* An instance of ScheduledTasks for TLC: two hours to the day, the slots  *)
(* of the two jobs in different hours, one ward.                           *)
EXTENDS ScheduledTasks

MCSlot == [j \in Jobs |-> IF j = "syncReminder" THEN 1 ELSE 0]
MCBackoff == [j \in Jobs |-> 2]
=============================================================================
