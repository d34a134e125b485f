CONSTANTS
  l1 = l1
  l2 = l2
  l3 = l3
  NoLease = NoLease
  c1 = c1
  c2 = c2
  Leases <- MCLeases
  Callers = {c1, c2}
  RegSchemes = {"http", "grpc"}
  HookSet = TRUE
  MaxCalls = 4
SPECIFICATION Spec
INVARIANT OneLeasePerProcess
CHECK_DEADLOCK FALSE
