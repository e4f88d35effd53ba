\* Two files and two repositories, a save and three edits.
SPECIFICATION FairSpec
CONSTANTS
  f1 = f1
  f2 = f2
  r1 = r1
  r2 = r2
  None = None
  Files = {f1, f2}
  Repos = {r1, r2}
  Mapping <- OneNameMoves
  MaxEdits = 3
  MaxSaves = 1
INVARIANTS
  FetchedOncePerSave
  OneFetch
  NoRequesterForgotten
PROPERTIES
  RequestersAreAnalysed
CHECK_DEADLOCK FALSE
