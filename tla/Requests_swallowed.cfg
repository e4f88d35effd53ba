\* One request, the locations of which are translated during an update.
SPECIFICATION Spec
CONSTANTS
  RequestIds = {r1}
  Threads = 3
  MaxChanges = 2
  MaxBackground = 0
INVARIANTS
  CancelledIsRetried
CHECK_DEADLOCK FALSE
