\* A request, two changes, and Bazel jobs that may take every thread they are
\* allowed; the shut down server stops.
SPECIFICATION FairSpec
CONSTANTS
  RequestIds = {r1}
  Threads = 3
  MaxChanges = 2
  MaxBackground = 3
INVARIANTS
  OneOwner
  RetriesBounded
  OnlyOpensSplitAnswers
PROPERTIES
  ServiceSafety
  ServiceLiveness
  TurnEnds
CHECK_DEADLOCK FALSE
