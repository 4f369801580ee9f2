\* Every interleaving of short sessions, also with a semaphore an earlier
\* session left posted; texts fit, but are read together and cut.
CONSTANTS
  c1 = c1
  c2 = c2
  t1 = t1
  t2 = t2
  Channels <- OneChannel
  MsgThreads <- OneThread
  RESPONSE_BUFFER = 3
  ListSizes = {3}
  TextSizes = {1}
  MaxRequests = 3
  MaxPushes = 2
  Leftover = 1
SPECIFICATION Spec
CHECK_DEADLOCK FALSE
INVARIANTS
  TypeOK
  RecordedOnce
  AheadBounded
