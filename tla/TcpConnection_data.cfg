SPECIFICATION Spec
CONSTANTS
  Capacity = 2
  Sizes = {1, 2, 3}
  RequestSize = 2
  InitSize = 1
  ExBuf = 1
  MaxRequests = 2
  GarbageOut = {TRUE, FALSE}
INVARIANTS
  ReceivedInOrder
  NothingLostWhileOpen
  ClosedForAReason
  MessagesAreTheStream
  FailedReadIsTheLast
CHECK_DEADLOCK FALSE
