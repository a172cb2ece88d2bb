SPECIFICATION ViewSpec
CONSTANTS
  own = own
  adm = adm
  oth = oth
  queue = queue
  inbox = inbox
  lab = lab
  stat = stat
  v1 = v1
  v2 = v2
  bad = bad
  go = go
  x1 = x1
  x2 = x2
  a = a
  b = b
  d = d
  None = None
  Keep = Keep
  Names = {queue, inbox}
  Tokens = {own, adm, oth}
  FilterFields = {lab, stat}
  Values = {v1, v2, bad}
  Known = {v1, v2}
  Buttons = {go}
  Effects = {x1, x2}
  MaxQuick = 1
  First <- MCFirst
  Admins = {adm}
  ActorFromToken = TRUE
  Callers = {a, b, d}
  Requests <- MCRequests
  MaxAttempts = 2
  Visitor = own
  Consumers = {own}
  PageSize = 2
INVARIANTS NamesUnique ViewsAudited
PROPERTIES  StrayOnlyByReuse WalkComplete
CHECK_DEADLOCK FALSE
SYMMETRY CallerSymmetry
