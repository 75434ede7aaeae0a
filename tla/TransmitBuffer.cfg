\* Messages of no content, of some, and of more than the buffer holds.
SPECIFICATION FairSpec
CONSTANTS
  Size = 5
  HeaderSize = 2
  Contents = {0, 2, 3, 6}
  MaxSent = 10
  Foreign = Foreign
INVARIANTS
  Consistent
  InOrder
  FlushProgresses
  ContentWhole
  InStep
PROPERTY
  CallReturns
