\* One payment the registry refuses.
SPECIFICATION Spec
CONSTANTS
  Payment = {p1, p2, p3}
  Doomed = {p3}
  MaxAttempts = 2
  MaxAge = 2
  MaxDeadLetters = 1
  MaxBoots = 0
  MaxTime = 2
INVARIANT
  TerminalFailureLeavesTheQueue
CHECK_DEADLOCK FALSE
