CONSTANTS
  a1 = a1
  a2 = a2
  b1 = b1
  c1 = c1
  c2 = c2
  c3 = c3
  p1 = p1
  Queue = {a1, a2, b1}
  Group <- MCGroup
  Consumer = {c1, c2, c3}
  NewId <- MCNewId
  Unreachable = {c1}
  Producer = {p1}
  MaxMessages = 3
  MAX_QUEUE_LENGTH = 2
  MaxChain = 2
  MaxChanges = 3
SPECIFICATION FairSpec
INVARIANTS
  TypeOK
  QueuesSound
  MessagesSound
PROPERTIES
  Served
CHECK_DEADLOCK FALSE
