\* Three handles to two values of one shard, dropped at the same time.
SPECIFICATION Spec
CONSTANTS
  v1 = v1
  v2 = v2
  v3 = v3
  s1 = s1
  s2 = s2
  Handles = {h1, h2, h3}
  Arcs = {a1, a2}
  Values = {v1, v2}
  Shards = {s1}
  ShardOf <- OneShard
  None = None
SYMMETRY Symmetry
INVARIANT
  LastDropRemoves
