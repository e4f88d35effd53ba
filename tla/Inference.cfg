\* A chain of loads that a text makes a circle, or that ends in a panic; a BUILD
\* file, whose prelude is the first of the chain.
SPECIFICATION FairSpec
CONSTANTS
  top = top
  lib = lib
  dep = dep
  build = build
  None = None
  Panic = Panic
  FileIds = {top, lib, dep, build}
  Loads <- ChainAndCircle
  BuildFiles = {build}
  Prelude = top
  Opened = {top, dep, build}
  Jobs = {j1, j2}
  MaxChanges = 2
  MaxStack = 1
INVARIANTS
  CacheIsFresh
  
PROPERTIES
  DiagnosticsOfOnlyFile
  ApplyEnds
