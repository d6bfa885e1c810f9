\* "no." in answer to "Apply to Stripe? (yes/no)".
SPECIFICATION MCSpec
SYMMETRY AppSymmetry
CONSTANTS
  figma = figma
  stripe = stripe
  phone = phone
  settings = settings
  Company = {figma, stripe}
  Posting = {}
  Screen = {settings}
  Field = {phone}
  Nothing = Nothing
  App = {a1, a2}
  Message <- MCMessage
  Expiry = 0
PROPERTIES RefusalLogsNothing
