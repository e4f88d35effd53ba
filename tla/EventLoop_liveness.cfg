\* Two documents, two texts, a close and a fetch; the threads are fair.
CONSTANTS
  Files = {a, b}
  Jobs = {j1, j2}
  MaxEdits = 2
  MaxCloses = 1
  MaxFetches = 1
SPECIFICATION FairSpec
PROPERTIES
  EventuallyFresh
CHECK_DEADLOCK FALSE
