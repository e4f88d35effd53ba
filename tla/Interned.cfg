\* Three handles to three values in two shards; three addresses, used again.
SPECIFICATION Spec
CONSTANTS
  v1 = v1
  v2 = v2
  v3 = v3
  s1 = s1
  s2 = s2
  Handles = {h1, h2, h3}
  Arcs = {a1, a2, a3}
  Values = {v1, v2, v3}
  Shards = {s1, s2}
  ShardOf <- TwoShards
  None = None
INVARIANTS
  PointerEquality
  RemovesItsEntry
  UsedIsInterned
