CONSTANTS
  AgilQuery = {q1}
  GdsCount = 2
  GdsAtOnce = 2
  SlotLimit = 2
SPECIFICATION AgilSearchSpec
CHECK_DEADLOCK FALSE
INVARIANT ExpiredTokenIsRenewed
