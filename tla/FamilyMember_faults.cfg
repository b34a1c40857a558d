SPECIFICATION FairSpec
CONSTANTS
  s1 = s1
  s2 = s2
  Supplier = {s1, s2}
  h1 = h1
  Holder = {h1}
  Nobody = Nobody
  OwnHolder <- MCOwnHolder
  Count = 2
  MaxRetries = 1
  MaxAttempts = 1
  MaxCustomer = 2
  Fault = {"read", "silent", "expired", "stop", "lost"}
  Patient = TRUE
  MaxFaults = 1
  MaxRevision = 2
  MaxRequests = 2
INVARIANTS TypeOK MemberRuns
PROPERTIES RequestsEnd FamilyConverges
CHECK_DEADLOCK FALSE
