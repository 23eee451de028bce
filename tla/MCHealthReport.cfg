SPECIFICATION FairSpec
CONSTANTS
  Checks = {c1} Stale = Stale Unchecked = Unchecked Nothing = Nothing
  Refreshers = {timer, operator} Timed = timer
  MaxManual = 2 MaxDeaths = 1 MaxOutages = 1
  c1 = c1 c2 = c2 timer = timer operator = operator
INVARIANTS TypeOK ReportIsWhole
PROPERTIES FailureStaysReported
CHECK_DEADLOCK FALSE
