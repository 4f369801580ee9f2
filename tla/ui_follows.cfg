\* UI/README.txt against the program: the client dies, the UI waits for the user.
CONSTANTS
  c1 = c1
  c2 = c2
  t1 = t1
  t2 = t2
  Channels <- OneChannel
  MsgThreads <- OneThread
  RESPONSE_BUFFER = 3
  ListSizes = {1}
  TextSizes = {1}
  MaxRequests = 3
  MaxPushes = 2
  Leftover = 0
SPECIFICATION FairSpec
CHECK_DEADLOCK FALSE
PROPERTY UIFollows
