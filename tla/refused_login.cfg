\* The UI's own text against the program: a second login, refused.
CONSTANTS
  c1 = c1
  c2 = c2
  t1 = t1
  t2 = t2
  Channels <- OneChannel
  MsgThreads <- Threads
  RESPONSE_BUFFER = 3
  ListSizes = {1}
  TextSizes = {1}
  MaxRequests = 3
  MaxPushes = 0
  Leftover = 0
SPECIFICATION Spec
CHECK_DEADLOCK FALSE
PROPERTY RefusedLoginRestarts
