\* Two applications, four changes, by chat and by phone; handlers stop half-way.
SPECIFICATION Spec
SYMMETRY AppSymmetry
CONSTANTS
  App = {a1, a2}
  Stage = {Applied, Rejected}
  Closed = {Rejected}
  Applied = Applied
  Interview = Interview
  Detail = {first, second}
  MaxTime = 4
INVARIANTS TypeOK StatusFollowsTimeline
PROPERTY PhoneEventsStay
