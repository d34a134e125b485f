CONSTANTS
  l1 = l1
  l2 = l2
  l3 = l3
  NoLease = NoLease
  c1 = c1
  Leases <- MCLeases
  Callers = {c1}
  RegSchemes = {"http", "grpc"}
  HookSet = TRUE
  MaxCalls = 4

SPECIFICATION Spec
INVARIANTS
  TypeOK
  OneLeasePerProcess
PROPERTIES
  DeregisterLeavesNoKey
  LostKeyEndsProcess
CHECK_DEADLOCK FALSE
