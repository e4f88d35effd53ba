\* Two documents, edits, closes and a fetch; jobs may send late.
CONSTANTS
  Files = {a, b}
  Jobs = {j1, j2}
  MaxEdits = 3
  MaxCloses = 1
  MaxFetches = 1
SPECIFICATION Spec
SYMMETRY Symmetry
INVARIANTS
  DatabaseFollowsDocuments
  NoAnalysisForgotten
  FreshDiagnosticsArePublished
CHECK_DEADLOCK FALSE
