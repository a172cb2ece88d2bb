SPECIFICATION Spec
CONSTANTS
  d1 = d1
  d2 = d2
  t1 = t1
  t2 = t2
  b1 = b1
  b2 = b2
  p1 = p1
  p2 = p2
  ready = ready
  blocked = blocked
  bug = bug
  i1 = i1
  None = None
  Keep = Keep
  StatusType <- MCStatusType
  Statuses <- AllStatuses
  Fold <- MCFold
  Details = {d1, d2}
  Texts = {t1, t2}
  Bodies = {b1, b2}
  Projects = {p1}
  Labels = {}
  MilestoneNames = {"GA"}
  RelationTypes = {}
  IdemKeys = {i1}
  NewIssues <- TrailIssues
  Patches <- TrailPatches
  MilestonePatches <- PlaceMilestones
  GroupSettings = {}
  MaxEvents = 5
  MaxDepth = 3
INVARIANTS TypeOK IssueTrail VersionsNeverReused StampsFollowHistory
PROPERTIES RowsAudited
CHECK_DEADLOCK FALSE
