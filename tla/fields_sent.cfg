\* Comments of handle_ui.c against the program: a message during a command.
CONSTANTS
  c1 = c1
  c2 = c2
  t1 = t1
  t2 = t2
  Channels <- OneChannel
  MsgThreads <- OneThread
  RESPONSE_BUFFER = 3
  ListSizes = {1}
  TextSizes = {1}
  MaxRequests = 3
  MaxPushes = 1
  Leftover = 0
SPECIFICATION Spec
CHECK_DEADLOCK FALSE
INVARIANT FieldsSent
