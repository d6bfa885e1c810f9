SPECIFICATION FairSpec
CONSTANTS
  acme = acme
  bolt = bolt
  dash = dash
  Opening = {acme, bolt, dash}
  NoBoard = NoBoard
  Ad <- MCAd
  Holds <- MCHolds
  Home <- MCHome
  FileBoard <- MCFile
  SectorsOf <- MCSectors
  SlugBoard <- MCSlug
  Catalog <- MCCatalog
  Name <- MCName
  Trackable <- MCTrackable
  Feed <- MCFeed
  AtsLinks <- MCAtsLinks
  Elsewhere <- MCElsewhere
  Mortal = {dash}
  Unborn = {dash}
  Pasted = {acme}
  Industry = {"healthcare"}
  SectorWord <- MCSectorWord
  Profiles <- MCProfiles
  FirstProfile <- MCFirst
  Stopword = {"senior", "junior", "intern"}
  Generic = {"software", "engineer", "platform"}
  Synonyms <- MCSynonyms
  LevelOf <- MCLevel
  TechWord = {"software", "engineer", "platform"}
  OtherWord = {"nurse"}
  TitleNoise = {"senior", "junior", "staff"}
  BoardsPerTick = 1
  NamesPerTick = 1
  MaxScored = 2
  Threshold = 36000
  MaxStops = 1
INVARIANTS
  TypeOK
  OneRowPerListing
PROPERTIES
  NoSkillHurts
  EveryBoardPolled
  
CHECK_DEADLOCK FALSE
