SPECIFICATION DumpSpec
CONSTANTS
  d1 = d1
  d2 = d2
  e1 = e1
  e2 = e2
  TSKp = TSKp
  ENG = ENG
  Databases = {d1, d2}
  Exports = {e1, e2}
  KeyPrefixes = {TSKp, ENG}
  TSK = TSKp
  LinearExports <- MCLinear
  OtherDumps <- MCOld
  Schema = 5
  MaxWrites = 2
  Nothing = Nothing
INVARIANTS PublishedIsOneMoment ImportedIsExported KeysContinue
CONSTRAINT OneDump
SYMMETRY Alike
CHECK_DEADLOCK FALSE
