\* The main thread and two message threads on one history, up to the first
\* message that does not fit in the array.  The user may stop.
CONSTANTS
  t1 = t1
  t2 = t2
  MsgThreads <- Threads
  MAX_MESSAGES = 2
  Response <- ResponseText
  MAX_MESSAGE_LENGTH = 3
  Windows = {4, 5}
  TextLengths = {0, 2}
SPECIFICATION Spec
CHECK_DEADLOCK FALSE
SYMMETRY Alike
INVARIANTS
  TypeOK
  OneAtATime
  NoMoreThanAdded
  NoEmptyRows
  LineEnds
