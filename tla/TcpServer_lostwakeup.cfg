SPECIFICATION FairStartSpec
CONSTANTS
  MainLoop = main
  io1 = io1
  io2 = io2
  Pool <- OneLoop
  Clients = {k1}
  MaxConns = 2
  GarbageOut = {FALSE}
PROPERTIES
  RequestIsServed
CHECK_DEADLOCK FALSE
