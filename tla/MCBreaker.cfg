SPECIFICATION FairSpec
CONSTANTS
  Callers = {c1, c2}
  Checkers = {h1, h2, h3}
  Thresholds = {0, 1}
  RetryIntervals = {0, 10}
  MaxErrors = 1
INVARIANTS
  TypeOK
  OpenHasChecker
  TripNotMissed
  ZeroDisables
PROPERTIES
  NoRetryStaysOpen
  Recovers
