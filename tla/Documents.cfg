\* The loop, a download and the chat; two postings, two questions.
SPECIFICATION DocSpec
CONSTANTS
  loop = loop
  t1 = t1
  other = other
  chat = chat
  draft = draft
  h1 = h1
  h2 = h2
  p1 = p1
  p2 = p2
  Caller = {loop, t1, other}
  PoolThread = {t1}
  LoopHandler = {h1, h2}
  Posting = {p1, p2}
  Question = {1, 2}
  Text <- MCText
  Feature = {chat, draft}
  SliceCap <- MCSlices
  Cap = 2
  MaxRequests <- MCRequests
  NoFeature = NoFeature
SYMMETRY Handlers
INVARIANTS CapOvershootBounded ServedForItsJob ServedWhole
PROPERTY EditsKept
