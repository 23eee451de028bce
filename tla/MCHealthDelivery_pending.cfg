SPECIFICATION Spec
CONSTANTS
  Messages = {w1} Commands = {k1} Nothing = Nothing
  Deliverers = {timer} Timed = timer
  MaxDeaths = 1
  w1 = w1 k1 = k1 k2 = k2 timer = timer operator = operator
INVARIANTS NothingPendingIsTold
CHECK_DEADLOCK FALSE
