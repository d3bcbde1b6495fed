CONSTANTS
  Job = {j1, j2}
  Offer = {o1}
  Followed = {j1}
  TTL = 0
  Grace = 1
  ResidentBudget = 2
  RestoreBudget = 2
  MaxNow = 1
SPECIFICATION Spec
CHECK_DEADLOCK FALSE
INVARIANTS StoreKnowsItsFile StopKeepsResults CrashKeepsCompleted
PROPERTIES NeverRevived
