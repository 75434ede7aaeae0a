\* A session whose client is silent once it asked for data.
SPECIFICATION FairSpec
CONSTANTS
  b = b
  p = p
  q = q
  Bits <- MCBits
  Passwords <- MCPasswords
  Empty = Empty
  Entries <- MCEntries
  MaxSent = 3
  Duplex = FALSE
INVARIANTS
  Consistent
  OpensWhatIsSent
  ReplayIsRefused
  Agreement
PROPERTY
  ServerReturns
\* Both sides closed: the session is over.
CHECK_DEADLOCK FALSE
