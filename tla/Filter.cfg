\* A client that may send a directive too late, or start again.
SPECIFICATION Spec
CONSTANTS
  None = None
  Limits <- MCLimits
  Reports <- MCReports
  Extras <- LateOrAgain
INVARIANTS
  Consistent
  Verdict
  SentFitsOptions
\* A client that is refused ends.
CHECK_DEADLOCK FALSE
