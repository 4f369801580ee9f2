\* Lines of any words, display names of no, one and two words.  A line can end
\* the program.
CONSTANTS
  Words <- AllWords
  Lines <- SomeLines
  Users <- AllUsers
  Slashed <- SlashedWords
  MaxJoined = 3
SPECIFICATION Spec
CHECK_DEADLOCK FALSE
INVARIANTS
  TypeOK
  OnePerLine
  InChannel
  AsAsked
  EndsOnlyBy
