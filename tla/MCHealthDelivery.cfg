SPECIFICATION FairSpec
CONSTANTS
  Messages = {w1} Commands = {k1, k2} Nothing = Nothing
  Deliverers = {timer, operator} Timed = timer
  MaxDeaths = 1
  w1 = w1 k1 = k1 k2 = k2 timer = timer operator = operator
INVARIANTS TypeOK Deduplicated
PROPERTIES ReceiptIsAccepted WarningIsAcknowledged
CHECK_DEADLOCK FALSE
