SPECIFICATION Spec
CONSTANTS
  MaxMessages = 3
  MaxWaiting = 2
  EndOfInput = EndOfInput
  Malformed = Malformed
  Nothing = Nothing
INVARIANTS
  Accounted
  OneAfterSignal
  EndsForCause
PROPERTY
  SignalledEnds
CHECK_DEADLOCK FALSE
