SPECIFICATION HireSpec
CONSTANTS
  s1 = s1
  s2 = s2
  s3 = s3
  Node = {s1, s2, s3}
  Nobody = Nobody
  First <- MCFirst
  Number = {1, 2}
  MaxAttempts = 1
  MaxRequests = 2
  Late = {}
INVARIANTS HireTypeOK ListSound ErasedOnResize
PROPERTY WantedKept
CHECK_DEADLOCK FALSE
