SPECIFICATION Spec
CONSTANTS
  m = m
  f1 = f1
  f2 = f2
  c1 = c1
  c2 = c2
  c3 = c3
  u1 = u1
  u2 = u2
  u3 = u3
  r1 = r1
  r2 = r2
  r3 = r3
  r4 = r4
  q1 = q1
  q2 = q2
  q3 = q3
  same = same
  short = short
  hostless = hostless
  Torn = Torn
  Garbled = Garbled
  NULL = NULL
  Main = m
  Threads <- ThreeThreads
  Clients <- ThreeClients
  Urls <- ThreeUrls
  Records <- FourRecords
  Requests <- GoodRequests
  Reference <- References
  Long <- LongUrl
  TooShort <- ShortRequests
  Hostless <- HostlessRequests
  MAX_CACHE_SIZE = 2
  MAX_HITS = 2
  MAX_USERS_COUNT = 2
  MAX_FAILURES = 1
  MAX_SIGINTS = 0
SYMMETRY Symmetry
INVARIANTS
  RightAnswer
  SocketsNotShared
  PermitsAccounted
  EntriesSound
  RecordsOwned
  OneCopyPerUrl
PROPERTIES
  CacheSpec
