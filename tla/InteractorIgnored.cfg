SPECIFICATION Spec
CONSTANTS
  Tests = 1
  Rounds = 1
  Attempts = 1
  Proc = {"g"}
INVARIANTS
  InteractorCounts
CHECK_DEADLOCK FALSE
