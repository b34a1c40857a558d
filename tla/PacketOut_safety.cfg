\* A wide Data packet with a response timeout a Retrieve and an Ack, for two calls.
CONSTANTS
  d1 = d1
  r1 = r1
  a1 = a1
  tcp = tcp
  udp = udp
  k1 = k1
  k2 = k2
  Out <- MCOut
  Kind <- MCKind
  Wide <- MCWide
  response_timeout <- MCTimeout
  Contact <- MCContact
  Caller <- MCCaller
  StrayHosts = TRUE
SPECIFICATION FairSpec
INVARIANTS
  TypeOK
  
PROPERTY NothingLasts
