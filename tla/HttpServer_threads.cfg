SPECIFICATION Spec
CONSTANTS
  a = a
  b = b
  Threads = {a, b}
  Messages <- MCMessages
  MaxMessages = 3
SYMMETRY Symmetry
INVARIANTS
  TypeOK
  AnsweredOnce
  AnsweredAsAskedAlone
  ShutAsAskedAlone
CHECK_DEADLOCK FALSE
