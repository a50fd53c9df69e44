SPECIFICATION Spec
CONSTANTS
  a = a
  b = b
  Threads = {a, b}
  Messages <- MCMessages
  MaxMessages = 2
INVARIANTS
  AnsweredAsAsked
CHECK_DEADLOCK FALSE
