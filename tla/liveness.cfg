\* Every thread runs and the server answers; texts fit or are cut.
CONSTANTS
  c1 = c1
  c2 = c2
  t1 = t1
  t2 = t2
  Channels <- OneChannel
  MsgThreads <- OneThread
  RESPONSE_BUFFER = 3
  ListSizes = {1, 4}
  TextSizes = {1}
  MaxRequests = 3
  MaxPushes = 1
  Leftover = 0
SPECIFICATION FairSpec
CHECK_DEADLOCK FALSE
INVARIANTS
  TakesTurns
PROPERTIES
  ResponseComes
  PushHandled
  ClientFollows
