\* One posting, one refresh, one pass, and a job named in chat that covers it.
SPECIFICATION FairSpec
CONSTANTS
  p1 = p1
  p2 = p2
  sms = sms
  Posting = {p1}
  Job = {p1, sms}
  Covers <- CoversOne
  MaxApps = 1
  NoJob = NoJob
  Refresher = {r1}
  TodayN = 1
  NoDying = NoDying
  Ticker = {t1}
  Mode = "instant"
  MaxScored = 2
  AutoStage = FALSE
  NoCandidate = NoCandidate
INVARIANTS TypeOK FiledAgainOnlyIfLost AppliedIsBacked
PROPERTIES QueuedOnlyFromSnoozeOrDiscovery 
