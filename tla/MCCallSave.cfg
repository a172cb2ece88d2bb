SPECIFICATION CallSpec
CONSTANTS
  d1 = d1
  d2 = d2
  t1 = t1
  t2 = t2
  b1 = b1
  auto = auto
  i1 = i1
  a = a
  b = b
  None = None
  Keep = Keep
  StatusType <- MCStatusType
  Statuses <- AllStatuses
  Fold <- MCFold
  Details = {d1, d2}
  Texts = {t1, t2}
  Bodies = {b1}
  Projects = {}
  Labels = {auto}
  MilestoneNames <- NoNames
  RelationTypes = {}
  IdemKeys = {i1}
  NewIssues <- MCNewIssues
  Patches <- MCPatches
  MilestonePatches <- NoNames
  GroupSettings = {}
  MaxEvents = 10
  MaxDepth = 2
  Callers = {a, b}
  Requests <- SaveRequests
  First <- Written
  AgentLabel = auto
  MaxAttempts = 2
INVARIANTS ExpectedVersionHonoured
CHECK_DEADLOCK FALSE
