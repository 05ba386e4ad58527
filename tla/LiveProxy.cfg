SPECIFICATION Spec
CONSTANTS
  m = m
  f1 = f1
  f2 = f2
  c1 = c1
  c2 = c2
  c3 = c3
  u1 = u1
  u2 = u2
  u3 = u3
  r1 = r1
  r2 = r2
  r3 = r3
  r4 = r4
  q1 = q1
  q2 = q2
  q3 = q3
  same = same
  short = short
  hostless = hostless
  Torn = Torn
  Garbled = Garbled
  NULL = NULL
  Main = m
  Threads <- TwoThreads
  Clients <- TwoClients
  Urls <- ThreeUrls
  Records <- TwoRecords
  Requests <- OddRequests
  Reference <- References
  Long <- LongUrl
  TooShort <- ShortRequests
  Hostless <- HostlessRequests
  MAX_CACHE_SIZE = 1
  MAX_HITS = 2
  MAX_USERS_COUNT = 1
  MAX_FAILURES = 1
  MAX_SIGINTS = 2
INVARIANTS
  FindsItsResponse
PROPERTIES
  EveryClientReleased
  SigintExits
