CONSTANTS
  pA = pA
  k1 = k1
  NoPrefix = NoPrefix
  Absent = Absent
  c1 = c1
  ConfPrefixes = {pA}
  Keys = {k1}
  Texts <- MCTexts
  ValidJSON <- MCValidJSON
  Callers = {c1}
  MaxEvents = 3
  MaxConfigurings = 2

SPECIFICATION Spec
INVARIANTS
  TypeOK
  CaughtUpConfigIsLatest
CHECK_DEADLOCK FALSE
