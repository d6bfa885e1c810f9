---------------------------- MODULE MCReminders ----------------------------
(* Reminders for TLC: the scheduler and the script, a follow-up and the       *)
(* heads-up of a deadline.                                                  *)
EXTENDS Reminders

CONSTANTS scheduler, followUp, headsUp

FairSpec == Spec /\ SchedulerFairness(scheduler)
=============================================================================
