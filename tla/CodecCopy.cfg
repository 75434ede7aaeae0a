SPECIFICATION Spec
CONSTANTS
  Undefined = Undefined
  Above = Above
  Below = Below
  BadMessage = BadMessage
  Opaque = Opaque
  None = None
  Sources <- MCSources
  Followers <- MCFollowers
  Usual <- MCUsual
  Boundaries <- MCBoundaries
  MaxOdd = 1
  MaxMessages = 2
INVARIANT CopyIsComplete
CHECK_DEADLOCK FALSE
