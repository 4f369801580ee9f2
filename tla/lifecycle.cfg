\* Two programs on a machine, each started twice.  Their users may stop.
CONSTANTS
  p1 = p1
  p2 = p2
  Programs <- TwoPrograms
  MaxStarts = 2
  MaxTexts = 2
  MaxThreads = 1
SPECIFICATION FairSpec
CHECK_DEADLOCK FALSE
INVARIANTS
  TypeOK
  Counts
  TextsAwaited
PROPERTY StartsOrEnds
