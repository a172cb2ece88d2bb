SPECIFICATION Spec
CONSTANTS
  d1 = d1
  d2 = d2
  t1 = t1
  t2 = t2
  b1 = b1
  b2 = b2
  p1 = p1
  p2 = p2
  ready = ready
  blocked = blocked
  bug = bug
  i1 = i1
  None = None
  Keep = Keep
  StatusType <- MCStatusType
  Statuses <- AllStatuses
  Fold <- MCFold
  Details = {d1}
  Texts = {}
  Bodies = {}
  Projects = {p1, p2}
  Labels = {ready, blocked, bug}
  MilestoneNames = {"GA"}
  RelationTypes = {"blocks"}
  IdemKeys = {}
  NewIssues <- PlaceIssues
  Patches <- PlaceAndLabels
  MilestonePatches <- PlaceMilestones
  GroupSettings <- LabelGroups
  MaxEvents = 5
  MaxDepth = 3
INVARIANTS HierarchyAcyclic MilestoneInProject ExclusiveLabels RelationsFollowTrail
CHECK_DEADLOCK FALSE
