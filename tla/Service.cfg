SPECIFICATION Spec
CONSTANTS
  Controllers = {c1, c2}
  MaxServices = 3
  MaxOperations = 4
INVARIANTS RecordIsKept StopIsEffective
CHECK_DEADLOCK FALSE
