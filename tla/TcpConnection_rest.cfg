SPECIFICATION Spec
CONSTANTS
  Capacity = 2
  Sizes = {1, 2, 3}
  RequestSize = 2
  InitSize = 1
  ExBuf = 1
  MaxRequests = 1
  GarbageOut = {FALSE}
INVARIANT WholeResponseArrives
CHECK_DEADLOCK FALSE
