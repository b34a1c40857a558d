\* Three packets of two backups through a window of two; p1 is queued up to
\* twice, one deletion at any moment; under the fairness of the reactor.
CONSTANTS
  p1 = p1
  p2 = p2
  p3 = p3
  Packet <- MCPacket
  Backups <- MCBackups
  MaxLength = 2
  SlowAfter = 1
  MaxCalls <- MCCalls
  MaxDeletes = 1
SPECIFICATION FairSpec
INVARIANTS
  TypeOK
  FilesAccounted
  LoopSound
PROPERTIES
  PromiseKept
CHECK_DEADLOCK FALSE
