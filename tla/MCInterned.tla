----------------------------- MODULE MCInterned -----------------------------
(***************************************************************************)
(* Interned on instances small enough for TLC.                             *)
(***************************************************************************)
EXTENDS Interned, TLC

CONSTANTS v1, v2, v3, s1, s2

\* Two values collide in a shard, the third has one of its own.
TwoShards == v1 :> s1 @@ v2 :> s1 @@ v3 :> s2

OneShard == v1 :> s1 @@ v2 :> s1

Symmetry == Permutations(Handles) \cup Permutations(Arcs)
=============================================================================
