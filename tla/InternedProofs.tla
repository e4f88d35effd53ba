--------------------------- MODULE InternedProofs ---------------------------
(***************************************************************************)
(* Interned: handles in use are compared rightly by address, and a drop    *)
(* only removes its own entry, for any number of handles, addresses,       *)
(* values and shards.                                                      *)
(***************************************************************************)
EXTENDS Interned, TLAPS

(***************************************************************************)
(* At first there are no handles and no entries.                           *)
(***************************************************************************)
LEMMA InitInvariant == Init => IInv
  BY NoneAssumption DEF Init, IInv, TypeOK, Phase, MapIsTrue, LockIsHeld, HoldsLock,
     Bound, RemovesAlone, RemovedAlone

(***************************************************************************)
(* An entry of the map belongs to the value at its address.                *)
(***************************************************************************)
LEMMA EntryOfObject ==
  ASSUME TypeOK, MapIsTrue, NEW a \in Arcs, InMap(a)
  PROVE  map[obj[a]] = a
  BY NoneAssumption DEF TypeOK, MapIsTrue, InMap

(***************************************************************************)
(* Interning a value that has an entry keeps the invariant: the shard is   *)
(* free, so nobody is about to remove the entry.                           *)
(***************************************************************************)
LEMMA NewOccupiedStep ==
  ASSUME IInv, NEW h \in Handles, NEW v \in Values, NewOccupied(h, v)
  PROVE  IInv'
<1> USE DEF IInv
<1>a. map[v] \in Arcs /\ obj[map[v]] = v /\ ShardOf[v] \in Shards
  BY ShardAssumption DEF TypeOK, MapIsTrue, NewOccupied
<1>1. TypeOK'
  BY <1>a DEF TypeOK, NewOccupied, Phase
<1>2. MapIsTrue'
  BY DEF MapIsTrue, NewOccupied
<1>3. \A g \in Handles : g # h => phase'[g] = phase[g] /\ arc'[g] = arc[g]
  BY DEF NewOccupied, TypeOK
<1>4. phase'[h] = "live" /\ arc'[h] = map[v] /\ ~HoldsLock(h)
  BY <1>a DEF NewOccupied, TypeOK, HoldsLock
<1>5. \A g \in Handles : g # h => (ValueOf(g))' = ValueOf(g)
  BY <1>3 DEF ValueOf, NewOccupied
<1>6. LockIsHeld'
  <2>1. ASSUME NEW g \in Handles, HoldsLock(g)'
        PROVE  lock'[ShardOf[ValueOf(g)']] = g
    BY <2>1, <1>3, <1>4, <1>5 DEF LockIsHeld, HoldsLock, NewOccupied
  <2>2. ASSUME NEW s \in Shards, lock'[s] # None
        PROVE  HoldsLock(lock[s])' /\ ShardOf[ValueOf(lock[s])'] = s
    <3>1. lock[s] \in Handles /\ HoldsLock(lock[s]) /\ ShardOf[ValueOf(lock[s])] = s
      BY <2>2 DEF LockIsHeld, NewOccupied, TypeOK
    <3>2. lock'[s] = lock[s] /\ lock[s] # h
      BY <3>1, <1>4 DEF NewOccupied
    <3> QED
      BY <3>1, <3>2, <1>3, <1>5 DEF HoldsLock, ValueOf, NewOccupied
  <2> QED
    BY <2>1, <2>2 DEF LockIsHeld, NewOccupied, HoldsLock, ValueOf
<1>7. Bound'
  <2>1. ASSUME NEW g \in Handles, phase'[g] \in {"live", "slow", "locked", "remove"}
        PROVE  map'[(ValueOf(g))'] = arc'[g]
    <3>1. CASE g = h
      BY <3>1, <1>4, <1>a DEF ValueOf, NewOccupied
    <3>2. CASE g # h
      BY <3>2, <2>1, <1>3, <1>5 DEF Bound, NewOccupied
    <3> QED
      BY <3>1, <3>2
  <2> QED
    BY <2>1 DEF Bound, ValueOf
<1>8. ASSUME NEW g \in Handles, g # h, arc[g] = map[v]
      PROVE  phase[g] # "remove"
  BY <1>8, <1>a, NoneAssumption DEF LockIsHeld, HoldsLock, ValueOf, NewOccupied, ShardFree
<1>9. ASSUME NEW g \in Handles, g # h, arc[g] # map[v]
      PROVE  Pointing(arc[g])' = Pointing(arc[g])
  BY <1>9, <1>3, <1>4 DEF Pointing, NewOccupied
<1>10. RemovesAlone'
  BY <1>3, <1>4, <1>8, <1>9 DEF RemovesAlone, Pointing
<1>11. RemovedAlone'
  <2>1. ASSUME NEW g \in Handles, phase'[g] \in {"unlock", "release"}
        PROVE  map'[(ValueOf(g))'] = arc'[g] \/ Pointing(arc[g])' = {g}
    <3>1. g # h /\ phase[g] \in {"unlock", "release"}
      BY <2>1, <1>3, <1>4
    <3>2. CASE arc[g] = map[v]
      BY <3>1, <3>2, <1>a, <1>3, <1>5 DEF ValueOf, NewOccupied
    <3>3. CASE arc[g] # map[v]
      BY <3>1, <3>3, <1>3, <1>5, <1>9 DEF RemovedAlone, NewOccupied
    <3> QED
      BY <3>2, <3>3
  <2> QED
    BY <2>1 DEF RemovedAlone, ValueOf, Pointing
<1> QED
  BY <1>1, <1>2, <1>6, <1>7, <1>10, <1>11

(***************************************************************************)
(* Interning a value that has no entry keeps the invariant: the address is *)
(* one that neither a handle nor an entry has.                             *)
(***************************************************************************)
LEMMA NewVacantStep ==
  ASSUME IInv, NEW h \in Handles, NEW v \in Values, NEW a \in Arcs, NewVacant(h, v, a)
  PROVE  IInv'
<1> USE DEF IInv
<1>1. TypeOK'
  BY DEF TypeOK, NewVacant, Phase
<1>2. \A g \in Handles : g # h => phase'[g] = phase[g] /\ arc'[g] = arc[g]
  BY DEF NewVacant, TypeOK
<1>3. phase'[h] = "live" /\ arc'[h] = a /\ ~HoldsLock(h) /\ map'[v] = a /\ obj'[a] = v
  BY DEF NewVacant, TypeOK, HoldsLock
<1>4. \A g \in Handles : g # h /\ phase[g] # "free" => arc[g] \in Arcs /\ arc[g] # a
  BY DEF NewVacant, Unused, Pointing, TypeOK
<1>5. \A g \in Handles : g # h /\ phase[g] # "free" => (ValueOf(g))' = ValueOf(g)
  BY <1>2, <1>4 DEF ValueOf, NewVacant, TypeOK
<1>6. MapIsTrue'
  <2>1. ASSUME NEW w \in Values, map'[w] # None
        PROVE  obj'[map'[w]] = w
    <3>1. CASE w = v
      BY <3>1, <1>3
    <3>2. CASE w # v
      BY <3>2, <2>1 DEF MapIsTrue, NewVacant, TypeOK, Unused, InMap
    <3> QED
      BY <3>1, <3>2
  <2> QED
    BY <2>1 DEF MapIsTrue
<1>7. LockIsHeld'
  <2>1. ASSUME NEW g \in Handles, HoldsLock(g)'
        PROVE  lock'[ShardOf[ValueOf(g)']] = g
    <3>1. g # h /\ phase[g] # "free" /\ HoldsLock(g)
      BY <2>1, <1>2, <1>3 DEF HoldsLock
    <3> QED
      BY <3>1, <1>5 DEF LockIsHeld, NewVacant
  <2>2. ASSUME NEW s \in Shards, lock'[s] # None
        PROVE  HoldsLock(lock[s])' /\ ShardOf[ValueOf(lock[s])'] = s
    <3>1. lock[s] \in Handles /\ HoldsLock(lock[s]) /\ ShardOf[ValueOf(lock[s])] = s
      BY <2>2 DEF LockIsHeld, NewVacant, TypeOK
    <3>2. lock'[s] = lock[s] /\ lock[s] # h /\ phase[lock[s]] # "free"
      BY <3>1, <1>3 DEF NewVacant, HoldsLock
    <3>3. phase'[lock'[s]] = phase[lock[s]] /\ (ValueOf(lock[s]))' = ValueOf(lock[s])
      BY <3>1, <3>2, <1>2, <1>4 DEF ValueOf, NewVacant, TypeOK
    <3> QED
      BY <3>1, <3>3 DEF HoldsLock
  <2> QED
    BY <2>1, <2>2 DEF LockIsHeld, NewVacant, HoldsLock, ValueOf
<1>8. Bound'
  <2>1. ASSUME NEW g \in Handles, phase'[g] \in {"live", "slow", "locked", "remove"}
        PROVE  map'[(ValueOf(g))'] = arc'[g]
    <3>1. CASE g = h
      BY <3>1, <1>3 DEF ValueOf
    <3>2. CASE g # h
      <4>1. phase[g] = phase'[g] /\ phase[g] # "free" /\ arc[g] \in Arcs
        BY <3>2, <2>1, <1>2 DEF TypeOK
      <4>2. map[ValueOf(g)] = arc[g] /\ ValueOf(g) \in Values
        BY <4>1, <2>1 DEF Bound, ValueOf, TypeOK
      <4>3. ValueOf(g) # v
        BY <4>1, <4>2, NoneAssumption DEF NewVacant
      <4> QED
        BY <4>1, <4>2, <4>3, <3>2, <1>2, <1>5 DEF NewVacant, TypeOK
    <3> QED
      BY <3>1, <3>2
  <2> QED
    BY <2>1 DEF Bound, ValueOf
<1>9. \A g \in Handles : g # h /\ phase[g] # "free" => Pointing(arc[g])' = Pointing(arc[g])
  BY <1>2, <1>3, <1>4 DEF Pointing, NewVacant
<1>10. RemovesAlone'
  <2>1. ASSUME NEW g \in Handles, phase'[g] = "remove"
        PROVE  Pointing(arc[g])' = {g}
    BY <2>1, <1>2, <1>3, <1>9 DEF RemovesAlone
  <2> QED
    BY <2>1 DEF RemovesAlone, Pointing
<1>11. RemovedAlone'
  <2>1. ASSUME NEW g \in Handles, phase'[g] \in {"unlock", "release"}
        PROVE  map'[(ValueOf(g))'] = arc'[g] \/ Pointing(arc[g])' = {g}
    <3>1. g # h /\ phase[g] \in {"unlock", "release"} /\ phase[g] # "free"
      BY <2>1, <1>2, <1>3
    <3>2. CASE Pointing(arc[g]) = {g}
      BY <3>1, <3>2, <1>9
    <3>3. CASE map[ValueOf(g)] = arc[g]
      <4>1. ValueOf(g) # v /\ ValueOf(g) \in Values
        BY <3>1, <3>3, <1>4, NoneAssumption DEF NewVacant, ValueOf, TypeOK
      <4> QED
        BY <4>1, <3>1, <3>3, <1>2, <1>5 DEF NewVacant, TypeOK
    <3> QED
      BY <3>1, <3>2, <3>3 DEF RemovedAlone
  <2> QED
    BY <2>1 DEF RemovedAlone, ValueOf, Pointing
<1> QED
  BY <1>1, <1>6, <1>7, <1>8, <1>10, <1>11

(***************************************************************************)
(* Cloning a handle in use keeps the invariant: a drop that is about to    *)
(* remove the entry is alone at its address, so it is another address.     *)
(***************************************************************************)
LEMMA CloneStep ==
  ASSUME IInv, NEW g \in Handles, NEW h \in Handles, Clone(g, h)
  PROVE  IInv'
<1> USE DEF IInv
<1>1. TypeOK'
  BY DEF TypeOK, Clone, Phase
<1>2. \A k \in Handles : k # h => phase'[k] = phase[k] /\ arc'[k] = arc[k]
  BY DEF Clone, TypeOK
<1>3. /\ phase[g] = "live" /\ g # h /\ map[ValueOf(g)] = arc[g]
      /\ phase'[h] = "live" /\ arc'[h] = arc[g] /\ ~HoldsLock(h)
  BY DEF Clone, TypeOK, HoldsLock, Bound
<1>4. \A k \in Handles : k # h => (ValueOf(k))' = ValueOf(k)
  BY <1>2 DEF ValueOf, Clone
<1>5. MapIsTrue'
  BY DEF MapIsTrue, Clone
<1>6. LockIsHeld'
  <2>1. ASSUME NEW k \in Handles, HoldsLock(k)'
        PROVE  lock'[ShardOf[ValueOf(k)']] = k
    BY <2>1, <1>2, <1>3, <1>4 DEF LockIsHeld, HoldsLock, Clone
  <2>2. ASSUME NEW s \in Shards, lock'[s] # None
        PROVE  HoldsLock(lock[s])' /\ ShardOf[ValueOf(lock[s])'] = s
    <3>1. lock[s] \in Handles /\ HoldsLock(lock[s]) /\ ShardOf[ValueOf(lock[s])] = s
      BY <2>2 DEF LockIsHeld, Clone, TypeOK
    <3>2. lock'[s] = lock[s] /\ lock[s] # h
      BY <3>1, <1>3 DEF Clone
    <3> QED
      BY <3>1, <3>2, <1>2, <1>4 DEF HoldsLock, ValueOf, Clone
  <2> QED
    BY <2>1, <2>2 DEF LockIsHeld, Clone, HoldsLock, ValueOf
<1>7. Bound'
  <2>1. ASSUME NEW k \in Handles, phase'[k] \in {"live", "slow", "locked", "remove"}
        PROVE  map'[(ValueOf(k))'] = arc'[k]
    <3>1. CASE k = h
      BY <3>1, <1>3 DEF ValueOf, Clone
    <3>2. CASE k # h
      BY <3>2, <2>1, <1>2, <1>4 DEF Bound, Clone
    <3> QED
      BY <3>1, <3>2
  <2> QED
    BY <2>1 DEF Bound, ValueOf
<1>8. ASSUME NEW k \in Handles, k # h, arc[k] # arc[g]
      PROVE  Pointing(arc[k])' = Pointing(arc[k])
  BY <1>8, <1>2, <1>3 DEF Pointing, Clone
<1>9. RemovesAlone'
  <2>1. ASSUME NEW k \in Handles, phase'[k] = "remove"
        PROVE  Pointing(arc[k])' = {k}
    <3>1. k # h /\ phase[k] = "remove" /\ k # g /\ Pointing(arc[k]) = {k}
      BY <2>1, <1>2, <1>3 DEF RemovesAlone
    <3>2. arc[k] # arc[g]
      BY <3>1, <1>3 DEF Pointing
    <3> QED
      BY <3>1, <3>2, <1>8
  <2> QED
    BY <2>1 DEF RemovesAlone, Pointing
<1>10. RemovedAlone'
  <2>1. ASSUME NEW k \in Handles, phase'[k] \in {"unlock", "release"}
        PROVE  map'[(ValueOf(k))'] = arc'[k] \/ Pointing(arc[k])' = {k}
    <3>1. k # h /\ phase[k] \in {"unlock", "release"}
      BY <2>1, <1>2, <1>3
    <3>2. CASE map[ValueOf(k)] = arc[k]
      BY <3>1, <3>2, <1>2, <1>4 DEF Clone
    <3>3. CASE Pointing(arc[k]) = {k}
      <4>1. arc[k] # arc[g]
        BY <3>1, <3>3, <1>3 DEF Pointing
      <4> QED
        BY <4>1, <3>1, <3>3, <1>8
    <3> QED
      BY <3>1, <3>2, <3>3 DEF RemovedAlone
  <2> QED
    BY <2>1 DEF RemovedAlone, ValueOf, Pointing
<1> QED
  BY <1>1, <1>5, <1>6, <1>7, <1>9, <1>10

(***************************************************************************)
(* A step that changes the phase of h alone, h holding a shard's lock      *)
(* after it just if it did before.                                         *)
(***************************************************************************)
LEMMA PhaseChanges ==
  ASSUME IInv, NEW h \in Handles, NEW p \in Phase \ {"free"},
         phase' = [phase EXCEPT ![h] = p],
         UNCHANGED <<arc, obj, map, lock>>,
         phase[h] # "free",
         HoldsLock(h) <=> p \in {"locked", "remove", "unlock"},
         p \in {"live", "slow", "locked", "remove"} => map[ValueOf(h)] = arc[h],
         p = "remove" => Pointing(arc[h]) = {h},
         p \in {"unlock", "release"} =>
           map[ValueOf(h)] = arc[h] \/ Pointing(arc[h]) = {h}
  PROVE  IInv'
<1> USE DEF IInv
<1>1. TypeOK'
  BY DEF TypeOK
<1>2. /\ \A g \in Handles : g # h => phase'[g] = phase[g]
      /\ phase'[h] = p
      /\ \A g \in Handles : (ValueOf(g))' = ValueOf(g) /\ arc'[g] = arc[g]
  BY DEF TypeOK, ValueOf
<1>3. \A g \in Handles : Pointing(arc[g])' = Pointing(arc[g])
  BY <1>2 DEF Pointing
<1>4. \A g \in Handles : HoldsLock(g)' <=> HoldsLock(g)
  BY <1>2 DEF HoldsLock
<1>5. MapIsTrue'
  BY DEF MapIsTrue
<1>6. LockIsHeld'
  <2>1. ASSUME NEW s \in Shards, lock'[s] # None
        PROVE  HoldsLock(lock[s])' /\ ShardOf[ValueOf(lock[s])'] = s
    <3>1. lock[s] \in Handles /\ HoldsLock(lock[s]) /\ ShardOf[ValueOf(lock[s])] = s
      BY <2>1 DEF LockIsHeld, TypeOK
    <3>2. HoldsLock(lock[s])' <=> phase'[lock[s]] \in {"locked", "remove", "unlock"}
      BY DEF HoldsLock
    <3> QED
      BY <3>1, <3>2, <1>2, <1>4 DEF HoldsLock, ValueOf
  <2> QED
    BY <2>1, <1>2, <1>4 DEF LockIsHeld, HoldsLock, ValueOf
<1>7. Bound'
  BY <1>2 DEF Bound
<1>8. RemovesAlone'
  BY <1>2, <1>3 DEF RemovesAlone
<1>9. RemovedAlone'
  BY <1>2, <1>3 DEF RemovedAlone
<1> QED
  BY <1>1, <1>5, <1>6, <1>7, <1>8, <1>9

(***************************************************************************)
(* A drop's looks at the count, without the lock and with it.              *)
(***************************************************************************)
LEMMA DropStep ==
  ASSUME IInv, NEW h \in Handles, Drop(h)
  PROVE  IInv'
<1>1. map[ValueOf(h)] = arc[h] /\ phase[h] # "free" /\ ~HoldsLock(h)
  BY DEF IInv, Bound, Drop, HoldsLock
<1>2. CASE OnlyMapAnd(h)
  BY <1>1, <1>2, PhaseChanges DEF Drop, Phase
<1>3. CASE ~OnlyMapAnd(h)
  BY <1>1, <1>3, PhaseChanges DEF Drop, Phase
<1> QED
  BY <1>2, <1>3

(***************************************************************************)
(* Under the lock no handle but the dropping one can be made, so one that  *)
(* is alone at its address stays alone.                                    *)
(***************************************************************************)
LEMMA RecheckStep ==
  ASSUME IInv, NEW h \in Handles, Recheck(h)
  PROVE  IInv'
<1>1. map[ValueOf(h)] = arc[h] /\ phase[h] # "free" /\ HoldsLock(h)
  BY DEF IInv, Bound, Recheck, HoldsLock
<1>2. CASE OnlyMapAnd(h)
  BY <1>1, <1>2, PhaseChanges DEF Recheck, Phase, OnlyMapAnd
<1>3. CASE ~OnlyMapAnd(h)
  BY <1>1, <1>3, PhaseChanges DEF Recheck, Phase
<1> QED
  BY <1>2, <1>3

(***************************************************************************)
(* drop_slow takes the lock of its shard, which nobody holds.              *)
(***************************************************************************)
LEMMA LockStep ==
  ASSUME IInv, NEW h \in Handles, Lock(h)
  PROVE  IInv'
<1> USE DEF IInv
<1> DEFINE mine == ShardOf[ValueOf(h)]
<1>1. TypeOK'
  BY DEF TypeOK, Lock, Phase
<1>2. /\ \A g \in Handles : g # h => phase'[g] = phase[g]
      /\ phase'[h] = "locked" /\ phase[h] = "slow"
      /\ \A g \in Handles : (ValueOf(g))' = ValueOf(g) /\ arc'[g] = arc[g]
      /\ map' = map
  BY DEF TypeOK, ValueOf, Lock
<1>3. mine \in Shards /\ lock[mine] = None /\ lock'[mine] = h /\ h # None
  BY ShardAssumption, NoneAssumption DEF TypeOK, ValueOf, Lock, ShardFree
<1>4. \A s \in Shards : s # mine => lock'[s] = lock[s]
  BY DEF Lock, TypeOK
<1>5. \A g \in Handles : Pointing(arc[g])' = Pointing(arc[g])
  BY <1>2 DEF Pointing
<1>6. MapIsTrue'
  BY DEF MapIsTrue, Lock
<1>7. LockIsHeld'
  <2>1. ASSUME NEW g \in Handles, HoldsLock(g)'
        PROVE  lock'[ShardOf[ValueOf(g)]] = g
    <3>1. CASE g = h
      BY <3>1, <1>3
    <3>2. CASE g # h
      <4>1. lock[ShardOf[ValueOf(g)]] = g /\ ShardOf[ValueOf(g)] \in Shards
        BY <3>2, <2>1, <1>2, ShardAssumption DEF LockIsHeld, HoldsLock, ValueOf, TypeOK
      <4>2. g # None
        BY NoneAssumption
      <4> QED
        BY <4>1, <4>2, <1>3, <1>4
    <3> QED
      BY <3>1, <3>2
  <2>2. ASSUME NEW s \in Shards, lock'[s] # None
        PROVE  phase'[lock'[s]] \in {"locked", "remove", "unlock"}
               /\ ShardOf[obj[arc[lock'[s]]]] = s
    <3>1. CASE s = mine
      BY <3>1, <1>3, <1>2 DEF ValueOf
    <3>2. CASE s # mine
      <4>1. lock'[s] = lock[s] /\ lock[s] # None
        BY <3>2, <2>2, <1>4
      <4>2. HoldsLock(lock[s]) /\ ShardOf[ValueOf(lock[s])] = s /\ lock[s] \in Handles
        BY <4>1 DEF LockIsHeld, TypeOK
      <4>3. lock[s] # h
        BY <4>2, <1>2 DEF HoldsLock
      <4> QED
        BY <4>1, <4>2, <4>3, <1>2 DEF HoldsLock, ValueOf
    <3> QED
      BY <3>1, <3>2
  <2> QED
    BY <2>1, <2>2, <1>2 DEF LockIsHeld, HoldsLock, ValueOf, Lock
<1>8. Bound'
  BY <1>2 DEF Bound
<1>9. RemovesAlone'
  BY <1>2, <1>5 DEF RemovesAlone
<1>10. RemovedAlone'
  BY <1>2, <1>5 DEF RemovedAlone
<1> QED
  BY <1>1, <1>6, <1>7, <1>8, <1>9, <1>10

(***************************************************************************)
(* The entry is removed: no other handle is at its address.                *)
(***************************************************************************)
LEMMA RemoveStep ==
  ASSUME IInv, NEW h \in Handles, Remove(h)
  PROVE  IInv'
<1> USE DEF IInv
<1>1. TypeOK'
  BY DEF TypeOK, Remove, Phase
<1>2. /\ \A g \in Handles : g # h => phase'[g] = phase[g]
      /\ phase'[h] = "unlock" /\ phase[h] = "remove"
      /\ \A g \in Handles : (ValueOf(g))' = ValueOf(g) /\ arc'[g] = arc[g]
      /\ \A g \in Handles : HoldsLock(g)' <=> HoldsLock(g)
      /\ lock' = lock
  BY DEF TypeOK, ValueOf, Remove, HoldsLock
<1>3. Pointing(arc[h]) = {h} /\ map[ValueOf(h)] = arc[h] /\ ValueOf(h) \in Values
  BY <1>2 DEF RemovesAlone, Bound, ValueOf, TypeOK
<1>4. \A g \in Handles : Pointing(arc[g])' = Pointing(arc[g])
  BY <1>2 DEF Pointing
<1>5. ASSUME NEW g \in Handles, g # h, phase[g] # "free", map[ValueOf(g)] = arc[g]
      PROVE  map'[ValueOf(g)] = arc[g]
  <2>1. arc[g] # arc[h]
    BY <1>3, <1>5 DEF Pointing
  <2>2. ValueOf(g) # ValueOf(h) /\ ValueOf(g) \in Values
    BY <2>1, <1>3, <1>5 DEF ValueOf, TypeOK
  <2> QED
    BY <2>2, <1>5 DEF Remove, TypeOK
<1>6. MapIsTrue'
  BY DEF MapIsTrue, Remove, TypeOK
<1>7. LockIsHeld'
  <2>1. ASSUME NEW s \in Shards, lock[s] # None
        PROVE  phase'[lock[s]] \in {"locked", "remove", "unlock"}
               /\ ShardOf[obj[arc[lock[s]]]] = s
    <3>1. lock[s] \in Handles /\ HoldsLock(lock[s]) /\ ShardOf[ValueOf(lock[s])] = s
      BY <2>1 DEF LockIsHeld, TypeOK
    <3> QED
      BY <3>1, <1>2 DEF HoldsLock, ValueOf
  <2> QED
    BY <2>1, <1>2 DEF LockIsHeld, HoldsLock, ValueOf, Remove
<1>8. Bound'
  BY <1>2, <1>5 DEF Bound
<1>9. RemovesAlone'
  BY <1>2, <1>4 DEF RemovesAlone
<1>10. RemovedAlone'
  <2>1. ASSUME NEW g \in Handles, phase'[g] \in {"unlock", "release"}
        PROVE  map'[ValueOf(g)] = arc[g] \/ Pointing(arc[g]) = {g}
    <3>1. CASE g = h
      BY <3>1, <1>3
    <3>2. CASE g # h
      BY <3>2, <2>1, <1>2, <1>5 DEF RemovedAlone
    <3> QED
      BY <3>1, <3>2
  <2> QED
    BY <2>1, <1>2, <1>4 DEF RemovedAlone
<1> QED
  BY <1>1, <1>6, <1>7, <1>8, <1>9, <1>10

(***************************************************************************)
(* The shard is unlocked: the lock was that of this drop.                  *)
(***************************************************************************)
LEMMA UnlockStep ==
  ASSUME IInv, NEW h \in Handles, Unlock(h)
  PROVE  IInv'
<1> USE DEF IInv
<1> DEFINE mine == ShardOf[ValueOf(h)]
<1>1. TypeOK'
  BY DEF TypeOK, Unlock, Phase
<1>2. /\ \A g \in Handles : g # h => phase'[g] = phase[g]
      /\ phase'[h] = "release" /\ phase[h] = "unlock"
      /\ \A g \in Handles : (ValueOf(g))' = ValueOf(g) /\ arc'[g] = arc[g]
      /\ map' = map
  BY DEF TypeOK, ValueOf, Unlock
<1>3. mine \in Shards /\ lock[mine] = h /\ lock'[mine] = None
  BY <1>2, ShardAssumption DEF TypeOK, ValueOf, Unlock, LockIsHeld, HoldsLock
<1>4. \A s \in Shards : s # mine => lock'[s] = lock[s]
  BY DEF Unlock, TypeOK
<1>5. \A g \in Handles : Pointing(arc[g])' = Pointing(arc[g])
  BY <1>2 DEF Pointing
<1>6. MapIsTrue'
  BY DEF MapIsTrue, Unlock
<1>7. LockIsHeld'
  <2>1. ASSUME NEW g \in Handles, HoldsLock(g)'
        PROVE  lock'[ShardOf[ValueOf(g)]] = g
    <3>1. g # h /\ HoldsLock(g)
      BY <2>1, <1>2 DEF HoldsLock
    <3>2. lock[ShardOf[ValueOf(g)]] = g /\ ShardOf[ValueOf(g)] \in Shards
      BY <3>1, ShardAssumption DEF LockIsHeld, ValueOf, TypeOK
    <3> QED
      BY <3>1, <3>2, <1>3, <1>4
  <2>2. ASSUME NEW s \in Shards, lock'[s] # None
        PROVE  phase'[lock'[s]] \in {"locked", "remove", "unlock"}
               /\ ShardOf[obj[arc[lock'[s]]]] = s
    <3>1. s # mine /\ lock'[s] = lock[s] /\ lock[s] # None
      BY <2>2, <1>3, <1>4
    <3>2. HoldsLock(lock[s]) /\ ShardOf[ValueOf(lock[s])] = s /\ lock[s] \in Handles
      BY <3>1 DEF LockIsHeld, TypeOK
    <3>3. lock[s] # h
      BY <3>1, <3>2
    <3> QED
      BY <3>1, <3>2, <3>3, <1>2 DEF HoldsLock, ValueOf
  <2> QED
    BY <2>1, <2>2, <1>2 DEF LockIsHeld, HoldsLock, ValueOf, Unlock
<1>8. Bound'
  BY <1>2 DEF Bound
<1>9. RemovesAlone'
  BY <1>2, <1>5 DEF RemovesAlone
<1>10. RemovedAlone'
  BY <1>2, <1>5 DEF RemovedAlone
<1> QED
  BY <1>1, <1>6, <1>7, <1>8, <1>9, <1>10

(***************************************************************************)
(* The handle is gone: the others at an address are no more than before.   *)
(***************************************************************************)
LEMMA ReleaseStep ==
  ASSUME IInv, NEW h \in Handles, Release(h)
  PROVE  IInv'
<1> USE DEF IInv
<1>1. TypeOK'
  BY DEF TypeOK, Release, Phase
<1>2. /\ \A g \in Handles : g # h => phase'[g] = phase[g]
      /\ phase'[h] = "free" /\ phase[h] = "release"
      /\ \A g \in Handles : (ValueOf(g))' = ValueOf(g) /\ arc'[g] = arc[g]
      /\ \A g \in Handles : HoldsLock(g)' <=> HoldsLock(g)
      /\ map' = map /\ lock' = lock
  BY DEF TypeOK, ValueOf, Release, HoldsLock
<1>3. \A g \in Handles : Pointing(arc[g]) = {g} /\ g # h => Pointing(arc[g])' = {g}
  BY <1>2 DEF Pointing
<1>4. MapIsTrue'
  BY DEF MapIsTrue, Release
<1>5. LockIsHeld'
  <2>1. ASSUME NEW s \in Shards, lock[s] # None
        PROVE  phase'[lock[s]] \in {"locked", "remove", "unlock"}
               /\ ShardOf[obj[arc[lock[s]]]] = s
    <3>1. lock[s] \in Handles /\ HoldsLock(lock[s]) /\ ShardOf[ValueOf(lock[s])] = s
      BY <2>1 DEF LockIsHeld, TypeOK
    <3> QED
      BY <3>1, <1>2 DEF HoldsLock, ValueOf
  <2> QED
    BY <2>1, <1>2 DEF LockIsHeld, HoldsLock, ValueOf, Release
<1>6. Bound'
  BY <1>2 DEF Bound
<1>7. RemovesAlone'
  BY <1>2, <1>3 DEF RemovesAlone
<1>8. RemovedAlone'
  BY <1>2, <1>3 DEF RemovedAlone
<1> QED
  BY <1>1, <1>4, <1>5, <1>6, <1>7, <1>8

(***************************************************************************)
(* Every step of every thread keeps the invariant.                         *)
(***************************************************************************)
LEMMA NextInvariant == IInv /\ [Next]_vars => IInv'
<1> SUFFICES ASSUME IInv, [Next]_vars
             PROVE  IInv'
  OBVIOUS
<1>1. ASSUME NEW h \in Handles, NEW v \in Values, NewOccupied(h, v)
      PROVE  IInv'
  BY <1>1, NewOccupiedStep
<1>2. ASSUME NEW h \in Handles, NEW v \in Values, NEW a \in Arcs, NewVacant(h, v, a)
      PROVE  IInv'
  BY <1>2, NewVacantStep
<1>3. ASSUME NEW h \in Handles, NEW g \in Handles, Clone(g, h)
      PROVE  IInv'
  BY <1>3, CloneStep
<1>4. ASSUME NEW h \in Handles, Drop(h)
      PROVE  IInv'
  BY <1>4, DropStep
<1>5. ASSUME NEW h \in Handles, Dropping(h)
      PROVE  IInv'
  BY <1>5, LockStep, RecheckStep, RemoveStep, UnlockStep, ReleaseStep DEF Dropping
<1>6. CASE UNCHANGED vars
  BY <1>6 DEF vars, IInv, TypeOK, MapIsTrue, LockIsHeld, HoldsLock, Bound,
     RemovesAlone, RemovedAlone, ValueOf, Pointing
<1> QED
  BY <1>1, <1>2, <1>3, <1>4, <1>5, <1>6 DEF Next

(***************************************************************************)
(* The inductive invariant holds in every state of every behaviour.        *)
(***************************************************************************)
THEOREM Invariance == Spec => []IInv
  BY InitInvariant, NextInvariant, PTL DEF Spec

(***************************************************************************)
(* Every variable of the interner has its type.                            *)
(***************************************************************************)
THEOREM TypeCorrect == Spec => []TypeOK
<1>1. IInv => TypeOK
  BY DEF IInv
<1> QED
  BY <1>1, Invariance, PTL

(***************************************************************************)
(* The comparison of interned objects by address (PartialEq) is that of    *)
(* the objects.                                                            *)
(***************************************************************************)
THEOREM PointerEqualityHolds == Spec => []PointerEquality
<1>1. IInv => PointerEquality
  BY DEF IInv, Bound, PointerEquality, InUse, ValueOf
<1> QED
  BY <1>1, Invariance, PTL

(***************************************************************************)
(* drop_slow never reaches its unreachable!().                             *)
(***************************************************************************)
THEOREM RemovesItsEntryHolds == Spec => []RemovesItsEntry
<1>1. IInv => RemovesItsEntry
  BY DEF IInv, Bound, RemovesItsEntry
<1> QED
  BY <1>1, Invariance, PTL

(***************************************************************************)
(* An object in use stays interned, whoever drops other handles of it.     *)
(***************************************************************************)
THEOREM UsedIsInternedHolds == Spec => []UsedIsInterned
<1>1. IInv => UsedIsInterned
  BY DEF IInv, Bound, UsedIsInterned, InUse
<1> QED
  BY <1>1, Invariance, PTL
=============================================================================
