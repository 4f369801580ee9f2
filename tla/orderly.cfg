\* Orderly sessions, long ones, against their promise.  A session may stop,
\* since the user may.
CONSTANTS
  c1 = c1
  c2 = c2
  t1 = t1
  t2 = t2
  Channels <- TwoChannels
  MsgThreads <- Threads
  RESPONSE_BUFFER = 4
  ListSizes = {1, 4, 5}
  TextSizes = {1, 2, 3}
  MaxRequests = 6
  MaxPushes = 3
  Leftover = 1
SPECIFICATION OrderlySpec
CHECK_DEADLOCK FALSE
INVARIANTS
  OwnResponse
  OneTokenizer
  NoDamage
  NothingLost
  SameChannel
  HistoryInOrder
  OrderlyShape
PROPERTIES
  KeepsPromise
