SPECIFICATION Spec
CONSTANTS
  Callers = {c1, c2}
  Checkers = {h1, h2, h3}
  Thresholds = {1}
  RetryIntervals = {10}
  MaxErrors = 0
SYMMETRY Tasks
PROPERTIES
  FailedCheckOnlyKeepsOpen
