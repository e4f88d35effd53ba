------------------------------ MODULE Interned ------------------------------
(***************************************************************************)
(* The interner of types and strings (starpls_intern): a global map of     *)
(* reference-counted objects, so that equal objects share one address and  *)
(* are compared by it.                                                     *)
(*                                                                         *)
(* A handle is an Interned<T>.  Handles are made, cloned and dropped by    *)
(* the threads of the pool; a drop takes several steps, of which only      *)
(* those of drop_slow hold the lock of the object's shard.                 *)
(***************************************************************************)
EXTENDS Naturals, FiniteSets

CONSTANTS
  Handles,    \* bound: handles that may exist at once
  Arcs,       \* addresses of objects; one is used again when it is free
  Values,     \* the objects, up to equality
  Shards, ShardOf,  \* the shard of the map a value hashes to
  None        \* neither an address nor a handle

ASSUME NoneAssumption == None \notin Arcs /\ None \notin Handles
ASSUME ShardAssumption == ShardOf \in [Values -> Shards]

VARIABLES
  phase,  \* "free", "live", or where its drop is
  arc,    \* the object a handle points to
  obj,    \* the value stored at an address
  map,    \* the storage: the address of each interned value
  lock    \* the handle whose drop_slow holds a shard

vars == <<phase, arc, obj, map, lock>>

-----------------------------------------------------------------------------
Phase == {"free", "live", "slow", "locked", "remove", "unlock", "release"}

Pointing(a) == {h \in Handles : phase[h] # "free" /\ arc[h] = a}
InMap(a)    == \E v \in Values : map[v] = a

\* Arc::count: the handles and the key in the map; 0 once the object is freed.
Count(a) == Cardinality(Pointing(a)) + (IF InMap(a) THEN 1 ELSE 0)
Unused(a) == Pointing(a) = {} /\ ~InMap(a)

\* Mutant: the threshold of the count is off by one.
OneMoreThanMapAnd(h) == Count(arc[h]) <= 3

\* Count(arc) = 2 for a handle that exists: only it and the map point there.
OnlyMapAnd(h) == Pointing(arc[h]) = {h} /\ InMap(arc[h])

ValueOf(h) == obj[arc[h]]
\* Mutant: the map is read and written without the shard's lock.
ShardUnlocked(v) == TRUE

ShardFree(v) == lock[ShardOf[v]] = None

Init ==
  /\ phase = [h \in Handles |-> "free"]
  /\ arc \in [Handles -> Arcs]
  /\ obj \in [Arcs -> Values]
  /\ map = [v \in Values |-> None]
  /\ lock = [s \in Shards |-> None]

-----------------------------------------------------------------------------
(***************************************************************************)
(* Interned::new and new_str, under the write lock of the value's shard.   *)
(***************************************************************************)
NewOccupied(h, v) ==
  /\ phase[h] = "free"
  /\ ShardFree(v)
  /\ map[v] # None
  /\ phase' = [phase EXCEPT ![h] = "live"]
  /\ arc' = [arc EXCEPT ![h] = map[v]]
  /\ UNCHANGED <<obj, map, lock>>

NewVacant(h, v, a) ==
  /\ phase[h] = "free"
  /\ ShardFree(v)
  /\ map[v] = None
  /\ Unused(a)
  /\ phase' = [phase EXCEPT ![h] = "live"]
  /\ arc' = [arc EXCEPT ![h] = a]
  /\ obj' = [obj EXCEPT ![a] = v]
  /\ map' = [map EXCEPT ![v] = a]
  /\ UNCHANGED lock

Clone(g, h) ==
  /\ phase[g] = "live"
  /\ phase[h] = "free"
  /\ phase' = [phase EXCEPT ![h] = "live"]
  /\ arc' = [arc EXCEPT ![h] = arc[g]]
  /\ UNCHANGED <<obj, map, lock>>

(***************************************************************************)
(* Drop::drop, up to its look at the count, which takes no lock.           *)
(***************************************************************************)
Drop(h) ==
  /\ phase[h] = "live"
  /\ phase' = [phase EXCEPT ![h] = IF OnlyMapAnd(h) THEN "slow" ELSE "release"]
  /\ UNCHANGED <<arc, obj, map, lock>>

\* drop_slow: the shard is locked and the count looked at again.
Lock(h) ==
  /\ phase[h] = "slow"
  /\ ShardFree(ValueOf(h))
  /\ lock' = [lock EXCEPT ![ShardOf[ValueOf(h)]] = h]
  /\ phase' = [phase EXCEPT ![h] = "locked"]
  /\ UNCHANGED <<arc, obj, map>>

\* Mutant: the count is not looked at again.
RecheckNothing(h) ==
  /\ phase[h] = "locked"
  /\ phase' = [phase EXCEPT ![h] = "remove"]
  /\ UNCHANGED <<arc, obj, map, lock>>

Recheck(h) ==
  /\ phase[h] = "locked"
  /\ phase' = [phase EXCEPT ![h] = IF OnlyMapAnd(h) THEN "remove" ELSE "unlock"]
  /\ UNCHANGED <<arc, obj, map, lock>>

\* Another entry, or none, would be the unreachable!() of the code.
Remove(h) ==
  /\ phase[h] = "remove"
  /\ map' = [map EXCEPT ![ValueOf(h)] = None]
  /\ phase' = [phase EXCEPT ![h] = "unlock"]
  /\ UNCHANGED <<arc, obj, lock>>

\* The guard is dropped at the end of drop_slow.
Unlock(h) ==
  /\ phase[h] = "unlock"
  /\ lock' = [lock EXCEPT ![ShardOf[ValueOf(h)]] = None]
  /\ phase' = [phase EXCEPT ![h] = "release"]
  /\ UNCHANGED <<arc, obj, map>>

\* Then the Arc itself is, and the object with the last one.
Release(h) ==
  /\ phase[h] = "release"
  /\ phase' = [phase EXCEPT ![h] = "free"]
  /\ UNCHANGED <<arc, obj, map, lock>>

Dropping(h) == Lock(h) \/ Recheck(h) \/ Remove(h) \/ Unlock(h) \/ Release(h)

Next == \E h \in Handles :
          \/ \E v \in Values : NewOccupied(h, v) \/ \E a \in Arcs : NewVacant(h, v, a)
          \/ \E g \in Handles : Clone(g, h)
          \/ Drop(h)
          \/ Dropping(h)

Spec == Init /\ [][Next]_vars

-----------------------------------------------------------------------------
(***************************************************************************)
(* Every variable has its type.                                            *)
(***************************************************************************)
TypeOK ==
  /\ phase \in [Handles -> Phase]
  /\ arc \in [Handles -> Arcs]
  /\ obj \in [Arcs -> Values]
  /\ map \in [Values -> Arcs \cup {None}]
  /\ lock \in [Shards -> Handles \cup {None}]

Exists(h) == phase[h] # "free"
InUse(h)  == phase[h] = "live"

(***************************************************************************)
(* "Compares interned `Ref's using pointer equality" is right: two handles *)
(* in use have the same address exactly when their objects are equal, in   *)
(* spite of drops that look at the count without the lock.                 *)
(***************************************************************************)
PointerEquality ==
  \A g, h \in Handles :
    InUse(g) /\ InUse(h) => (arc[g] = arc[h] <=> ValueOf(g) = ValueOf(h))

(***************************************************************************)
(* The unreachable!() in drop_slow is: the entry of the object it removes  *)
(* is in the map, and is the one for this very object.                     *)
(***************************************************************************)
RemovesItsEntry == \A h \in Handles : phase[h] = "remove" => map[ValueOf(h)] = arc[h]

(***************************************************************************)
(* No handle loses its object: what a handle in use points to is in the    *)
(* map, so nobody can intern an equal object at another address.           *)
(***************************************************************************)
UsedIsInterned == \A h \in Handles : InUse(h) => map[ValueOf(h)] = arc[h]

(***************************************************************************)
(* "When the last `Ref' is dropped, remove the object from the global map" *)
(* (starpls_intern/src/lib.rs:96): with no handle left the map is empty.   *)
(***************************************************************************)
LastDropRemoves ==
  (\A h \in Handles : phase[h] = "free") => \A v \in Values : map[v] = None

(***************************************************************************)
(* What makes the invariants above inductive.                              *)
(***************************************************************************)
MapIsTrue == \A v \in Values : map[v] # None => obj[map[v]] = v

HoldsLock(h) == phase[h] \in {"locked", "remove", "unlock"}

LockIsHeld ==
  /\ \A h \in Handles : HoldsLock(h) => lock[ShardOf[ValueOf(h)]] = h
  /\ \A s \in Shards : lock[s] # None => HoldsLock(lock[s]) /\ ShardOf[ValueOf(lock[s])] = s

\* Until it removes the entry, a handle that exists is of the interned object.
Bound == \A h \in Handles :
  phase[h] \in {"live", "slow", "locked", "remove"} => map[ValueOf(h)] = arc[h]

RemovesAlone == \A h \in Handles : phase[h] = "remove" => Pointing(arc[h]) = {h}

\* One that may have removed it is alone, or the entry is still there.
RemovedAlone == \A h \in Handles :
  phase[h] \in {"unlock", "release"} =>
    map[ValueOf(h)] = arc[h] \/ Pointing(arc[h]) = {h}

IInv == TypeOK /\ MapIsTrue /\ LockIsHeld /\ Bound /\ RemovesAlone /\ RemovedAlone
=============================================================================
