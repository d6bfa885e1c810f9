SPECIFICATION BoundedSpec

CONSTANTS
  local = local
  a = a
  b = b
  ours = ours
  MaxRows = 2
  MaxCommands = 2
  Nobody = Nobody
  Id = {local, a, b}
  Legacy = local
  DevId = local
  Sub = {s1}
  Email = {e1}
  Password = {p1}
  Token = {t1}
  Audience = {ours}
  OurAudience = {ours}
  Invited = {e1}
  Claimable = {local}
  AllowDev = TRUE
  MaxAttempts = 2
  Window = 3
  Table = {"posting", "queue", "retired", "device"}
  Writer = {local, a}
  Phone = {d1}
  MayForce = FALSE
INVARIANTS
  TypeOK
  GuessesBounded
  DeadStaysDead
  LegacyToOneAccount
  TokenFollowsMerge
PROPERTIES
  NothingOverwritten
  BackupCoversDelete
CHECK_DEADLOCK FALSE
