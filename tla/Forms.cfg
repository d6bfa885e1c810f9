SPECIFICATION Spec
CONSTANTS
  Key <- MCKey
  NeverImported = {"sponsorship"}
  SearchKey = {"roles", "keywords", "seniority"}
  Value = {0, 1, 2, 3, 4, 5}
  Fact = {"a", "b", "c"}
  ThisYear = 4
  MaxEducation = 2
  MaxKnowledge = 2
  Text <- MCText
  Noise = {4}
  Edits <- MCEdits
  Lists <- MCLists
  Searches <- MCSearches
  Documents <- MCDocuments
  Accounts <- MCAccounts
  Links <- MCLinks
  Box <- MCBox
  Pages <- MCPages
  MaxRequests = 4
INVARIANTS
  ListSpeaksAlone
  
PROPERTIES
  ImportOnlyFillsGaps
CHECK_DEADLOCK FALSE
