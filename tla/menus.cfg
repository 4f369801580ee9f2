\* The calls of the main thread.  The user may stop, and the bounds end the rest.
CONSTANTS
  MaxDepth = 5
  MaxSent = 4
SPECIFICATION Spec
CHECK_DEADLOCK FALSE
INVARIANTS
  TypeOK
  SignupFirst
  RightUser
  AfterRefusal
  StartLine
PROPERTY BaseGrows
