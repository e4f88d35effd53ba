\* A file is opened again while a query for it waits.
SPECIFICATION Spec
CONSTANTS
  top = top
  lib = lib
  dep = dep
  build = build
  None = None
  Panic = Panic
  FileIds = {lib, dep}
  Loads <- LoadOne
  BuildFiles = {}
  Prelude = None
  Opened = {lib, dep}
  Jobs = {j1, j2}
  MaxChanges = 2
  MaxStack = 1
PROPERTIES
  DiagnosticsOfActiveFile
