\* Two documents are opened one after the other; nothing else happens.
CONSTANTS
  Files = {a, b}
  Jobs = {j1, j2}
  MaxEdits = 2
  MaxCloses = 0
  MaxFetches = 0
SPECIFICATION Spec
INVARIANTS
  QuiescentFresh
CHECK_DEADLOCK FALSE
