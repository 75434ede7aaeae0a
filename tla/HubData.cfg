\* Two days and more of a source that comes and goes.
SPECIFICATION DataSpec
CONSTANTS
  SourceIDs = {x}
  Day = 6
  TTL = 4
  Period = 2
  Throttle = 2
  Threshold = 2
  DegreeLength = 3
  Latitudes = {0, 1}
  Elevations = {0, 3}
  MaxDelay = 1
  Start = 6
  End = 22
  Undefined = Undefined
  NoEntry = NoEntry
INVARIANTS
  DataTypeOK
  LifetimeIsBounded
  SilenceIsBounded
PROPERTY
  KeptForItsLifetime
