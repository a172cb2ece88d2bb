SPECIFICATION AccessSpec
CONSTANTS
  b1 = b1
  r1 = r1
  r2 = r2
  s1 = s1
  s2 = s2
  n1 = n1
  n2 = n2
  TokenNames = {n1, n2}
  SessionIds = {s1, s2}
  Browsers = {b1}
  Requests = {r1, r2}
  Jar <- OneJar
  TTL = 5
  RenewAfter = 2
  MaxWait = 1
  MaxTime = 5
  None = None
  Keep = Keep
INVARIANTS VisitsExtend
PROPERTIES EndedStaysEnded EndsOnlyAsAsked
SYMMETRY SessionSymmetry
CHECK_DEADLOCK FALSE
