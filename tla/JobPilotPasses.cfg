\* Two passes over two postings that cover each other.
SPECIFICATION PassesSpec
CONSTANTS
  p1 = p1
  p2 = p2
  sms = sms
  Posting = {p1, p2}
  Job = {p1, p2}
  Covers <- CoversTwo
  MaxApps = 1
  NoJob = NoJob
  Refresher = {}
  TodayN = 1
  NoDying = NoDying
  Ticker = {t1, t2}
  Mode = "digest"
  MaxScored = 2
  AutoStage = TRUE
  NoCandidate = NoCandidate
PROPERTY FeedRefined
