SPECIFICATION StartSpec
CONSTANTS
  MainLoop = main
  io1 = io1
  io2 = io2
  Pool <- TwoLoops
  Clients = {k1}
  MaxConns = 2
  GarbageOut = {TRUE, FALSE}
INVARIANTS
  NoDanglingChannel
  NameIsUnique
  FunctorsInOrder
  OwnLoops
PROPERTY ImplementsLifecycle
CHECK_DEADLOCK FALSE
