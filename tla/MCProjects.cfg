SPECIFICATION ProjectSpec
CONSTANTS
  d1 = d1
  t1 = t1
  b1 = b1
  ready = ready
  blocked = blocked
  None = None
  Keep = Keep
  StatusType <- MCStatusType
  Statuses = {"Todo"}
  Fold <- MCFold
  Details = {d1}
  Texts = {t1}
  Bodies = {b1}
  Projects = {"site", "site-2", "site-3", "site-2-2", "project"}
  Labels = {ready, blocked}
  MilestoneNames = {"GA"}
  RelationTypes = {"relates"}
  IdemKeys = {}
  NewIssues <- MCNewIssues
  Patches <- MCPatches
  MilestonePatches <- MCMilestonePatches
  GroupSettings <- MCGroups
  MaxEvents = 4
  MaxDepth = 2
  ProjectNames = {"Site", "site", "Site 2"}
  FoldName <- MCFoldName
  SlugOf <- MCSlugOf
  NumberedSlug <- MCNumbered
  FallbackSlug = "project"
  ProjectStatuses <- MCProjectStatuses
  NewProjects <- MCNewProjects
  ProjectPatches <- MCProjectPatches
  LinearImports <- MCImports
INVARIANTS SlugMeansOne SharedNamesImported ExclusiveProjectLabels CompletedSince
PROPERTIES ProjectsAudited
CHECK_DEADLOCK FALSE
