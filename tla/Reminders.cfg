\* The scheduler and the script deliver a follow-up and a heads-up; three faults.
SPECIFICATION FairSpec
CONSTANTS
  scheduler = scheduler
  followUp = followUp
  headsUp = headsUp
  Reminder = {followUp, headsUp}
  HeadsUp = {headsUp}
  Loop = {scheduler, script}
  NoReminder = NoReminder
  MaxFaults = 3
CHECK_DEADLOCK FALSE
INVARIANT ShownAgainOnlyIfCut
  
