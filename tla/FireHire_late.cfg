SPECIFICATION HireFairSpec
CONSTANTS
  s1 = s1
  s2 = s2
  s3 = s3
  Node = {s1, s2}
  Nobody = Nobody
  First <- MCOne
  Number = {1, 2}
  MaxAttempts = 2
  MaxRequests = 1
  Late = {"round", "search"}
INVARIANT RoundGoesOn
 
CHECK_DEADLOCK FALSE
