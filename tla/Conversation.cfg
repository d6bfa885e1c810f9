\* Two applications, two companies, two queued postings, one screen.
SPECIFICATION MCSpec
SYMMETRY AppSymmetry
CONSTANTS
  figma = figma
  stripe = stripe
  phone = phone
  settings = settings
  Company = {figma, stripe}
  Posting = {1, 2}
  Screen = {settings}
  Field = {phone}
  Nothing = Nothing
  App = {a1, a2}
  Message <- MCMessage
  Expiry = 0
INVARIANTS TypeOK MovesOnlyWhenAgreed ClearedMeansForgotten
PROPERTIES   CardTakenWasShown
