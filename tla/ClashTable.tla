----------------------------- MODULE ClashTable -----------------------------
(***************************************************************************)
(* The sharded table (src/table.rs, src/sharded.rs, src/tableref): shards, *)
(* each a hash table behind a lock, and the handles through which threads  *)
(* keep a shard locked: references, entries and iterators.                 *)
(*                                                                         *)
(* The locks are those that AbstractRwLock specifies.  A lock is held      *)
(* through the handles that own its guard, so what is locked is read off   *)
(* the handles; an iterator and the references that it yielded share one   *)
(* guard through an Arc, and keep it until the last of them is dropped.    *)
(*                                                                         *)
(* This module has the state and the operations on it; ClashMap has the    *)
(* calls that threads make.                                                *)
(***************************************************************************)
EXTENDS Integers, FiniteSets

CONSTANTS
  Threads, Keys, Values,
  None,        \* no key, no value
  ShardCount,
  ShardOf,     \* determine_shard of the hash of each key
  MaxHandles,  \* bound: handles that one thread has at a time
  MaxCalls     \* bound: calls that each thread makes

ASSUME NoneAssumption == None \notin Keys \cup Values
ASSUME KeysAssumption == IsFiniteSet(Keys)
ASSUME ShardAssumption ==
  /\ ShardCount \in Nat /\ ShardCount > 1
  /\ ShardOf \in [Keys -> 0..(ShardCount - 1)]
ASSUME BoundAssumption == MaxHandles \in Nat /\ MaxCalls \in [Threads -> Nat]

VARIABLES
  shards,   \* the hash tables: the value of each key, or None
  held,     \* the handles of each thread, in slots
  call,     \* the call that each thread is in
  holes,    \* keys whose value alter has moved out and not yet put back
  aborted,  \* the process was aborted
  calls     \* calls that each thread may still make

vars == <<shards, held, call, holes, aborted, calls>>

Shards == 0..(ShardCount - 1)
Slots == 1..MaxHandles

-----------------------------------------------------------------------------
(* Handles.  `shard` is the shard that the handle keeps locked, -1 if none; *)
(* `keys` are the keys that it gives access to: one key for a reference or  *)
(* an entry, those still to be yielded for an iterator.                     *)

SharedKinds == {"Ref", "RefMulti", "Iter"}
EntryKinds == {"Occupied", "Vacant"}
ExclusiveKinds == {"RefMut", "RefMutMulti", "IterMut"} \cup EntryKinds

Handle(kind, s, K) == [kind |-> kind, shard |-> s, keys |-> K]
NoHandle == Handle("none", -1, {})
Handles == [kind : SharedKinds \cup ExclusiveKinds \cup {"none"},
            shard : -1..(ShardCount - 1), keys : SUBSET Keys]

FreeSlots(t) == {i \in Slots : held[t][i] = NoHandle}
FreeSlot(t) == CHOOSE i \in FreeSlots(t) : TRUE
PutHandle(t, i, h) == held' = [held EXCEPT ![t][i] = h]
DropHandle(t, i) == PutHandle(t, i, NoHandle)

\* What the lock of a shard allows, by the guards on it.
ReadLockable(s) ==
  \A t \in Threads, i \in Slots :
    held[t][i].shard = s => held[t][i].kind \in SharedKinds
WriteLockable(s) ==
  \A t \in Threads, i \in Slots : held[t][i].shard # s

Present(s) == {k \in Keys : shards[s][k] # None}
Stored(k) == shards[ShardOf[k]][k]
Store(k, v) == shards' = [shards EXCEPT ![ShardOf[k]][k] = v]

-----------------------------------------------------------------------------
(* Lookups.  Each locks the shard of the key, looks the key up, and either  *)
(* makes a handle of the guard or drops it again.                           *)

\* try_map on the reference to the whole shard: its guard goes on to the
\* element, if there is one, and is dropped otherwise.
TryMap(t, i, k, kind) ==
  IF Stored(k) # None
  THEN PutHandle(t, i, Handle(kind, ShardOf[k], {k}))
  ELSE UNCHANGED held

Find(t, k, i) == ReadLockable(ShardOf[k]) /\ TryMap(t, i, k, "Ref")

\* (mutant) The shard is locked for reading only.
FindMutUnderReadLock(t, k, i) == ReadLockable(ShardOf[k]) /\ TryMap(t, i, k, "RefMut")

FindMut(t, k, i) == WriteLockable(ShardOf[k]) /\ TryMap(t, i, k, "RefMut")

\* An AbsentEntry is dropped by all its callers, at once.
FindEntry(t, k, i) ==
  /\ WriteLockable(ShardOf[k])
  /\ IF Stored(k) # None
     THEN PutHandle(t, i, Handle("Occupied", ShardOf[k], {k}))
     ELSE UNCHANGED held

\* (mutant) The shard is locked for reading only.
EntryUnderReadLock(t, k, i) ==
  /\ ReadLockable(ShardOf[k])
  /\ PutHandle(t, i, Handle(IF Stored(k) # None THEN "Occupied" ELSE "Vacant",
                            ShardOf[k], {k}))

\* (mutant) The entry has the data, and the guard is dropped.
EntryUnguarded(t, k, i) ==
  /\ WriteLockable(ShardOf[k])
  /\ PutHandle(t, i, Handle(IF Stored(k) # None THEN "Occupied" ELSE "Vacant", -1, {k}))

Entry(t, k, i) ==
  /\ WriteLockable(ShardOf[k])
  /\ PutHandle(t, i, Handle(IF Stored(k) # None THEN "Occupied" ELSE "Vacant",
                            ShardOf[k], {k}))

\* The lookups that do not wait are the same, or find the shard locked.  An
\* exclusive lock may be refused although nobody has the shard, if a writer is
\* still on its way (see RawRwLock).
LockedToReaders(k) == ~ReadLockable(ShardOf[k]) /\ UNCHANGED held
LockedToWriters == UNCHANGED held

TryFind(t, k, i) == Find(t, k, i) \/ LockedToReaders(k)
TryFindMut(t, k, i) == FindMut(t, k, i) \/ LockedToWriters
TryEntry(t, k, i) == Entry(t, k, i) \/ LockedToWriters

-----------------------------------------------------------------------------
(* Entries and references *)

\* VacantEntry::insert and insert_entry: the guard goes on to the result.
VacantInsert(t, i, kind) ==
  /\ held[t][i].kind = "Vacant"
  /\ \E k \in held[t][i].keys, v \in Values : Store(k, v)
  /\ PutHandle(t, i, [held[t][i] EXCEPT !.kind = kind])

\* Entry::insert and Entry::insert_entry of an occupied entry.
OccupiedInsert(t, i, kind) ==
  /\ held[t][i].kind = "Occupied"
  /\ \E k \in held[t][i].keys, v \in Values : Store(k, v)
  /\ PutHandle(t, i, [held[t][i] EXCEPT !.kind = kind])

\* OccupiedEntry::into_mut, and or_insert and its kin on an occupied entry.
OccupiedIntoMut(t, i) ==
  /\ held[t][i].kind = "Occupied"
  /\ PutHandle(t, i, [held[t][i] EXCEPT !.kind = "RefMut"])
  /\ UNCHANGED shards

\* OccupiedEntry::remove: the element is taken out, then the guard dropped.
OccupiedRemove(t, i) ==
  /\ held[t][i].kind = "Occupied"
  /\ \E k \in held[t][i].keys : Store(k, None)
  /\ DropHandle(t, i)

\* replace_entry drops the guard once the element is replaced.
OccupiedReplace(t, i) ==
  /\ held[t][i].kind = "Occupied"
  /\ \E k \in held[t][i].keys, v \in Values : Store(k, v)
  /\ DropHandle(t, i)

\* Writes through a RefMut or a RefMutMulti, and OccupiedEntry::get_mut and
\* insert.
WriteThrough(t, i) ==
  /\ held[t][i].kind \in {"RefMut", "RefMutMulti", "Occupied"}
  /\ \E k \in held[t][i].keys, v \in Values : Store(k, v)
  /\ UNCHANGED held

\* The exclusive guard becomes a shared one: other readers come in, and no
\* writer does.
Downgrade(t, i) ==
  /\ held[t][i].kind = "RefMut"
  /\ PutHandle(t, i, [held[t][i] EXCEPT !.kind = "Ref"])
  /\ UNCHANGED shards

\* RefMulti and Iter are Clone: the copy shares the Arc of the guard.
CloneHandle(t, i) ==
  /\ held[t][i].kind \in {"RefMulti", "Iter"} /\ FreeSlots(t) # {}
  /\ PutHandle(t, FreeSlot(t), held[t][i])
  /\ UNCHANGED shards

-----------------------------------------------------------------------------
(* Iterators *)

NewIterator(t, kind) == PutHandle(t, FreeSlot(t), Handle(kind, -1, {}))

\* (mutant) The reference that is yielded does not share the guard.
YieldUnguarded(t, i) ==
  \E k \in held[t][i].keys :
    held' = [held EXCEPT
      ![t][i].keys = @ \ {k},
      ![t][FreeSlot(t)] =
         Handle(IF held[t][i].kind = "Iter" THEN "RefMulti" ELSE "RefMutMulti",
                -1, {k})]

\* (mutant) The iterator does not move past the element.
YieldAgain(t, i) ==
  \E k \in held[t][i].keys :
    PutHandle(t, FreeSlot(t),
      Handle(IF held[t][i].kind = "Iter" THEN "RefMulti" ELSE "RefMutMulti",
             held[t][i].shard, {k}))

\* One element of the current shard, whose guard the reference shares.
Yield(t, i) ==
  \E k \in held[t][i].keys :
    held' = [held EXCEPT
      ![t][i].keys = @ \ {k},
      ![t][FreeSlot(t)] =
         Handle(IF held[t][i].kind = "Iter" THEN "RefMulti" ELSE "RefMutMulti",
                held[t][i].shard, {k})]

Exhausted(h) == h.keys = {}
LastShard(h) == h.shard = ShardCount - 1

\* (mutant) The shard is read without its lock.
NextShardUnlocked(t, i) ==
  /\ Exhausted(held[t][i]) /\ ~LastShard(held[t][i])
  /\ PutHandle(t, i, Handle(held[t][i].kind, held[t][i].shard + 1,
                            Present(held[t][i].shard + 1)))

\* The guard of the next shard is acquired first: until then the iterator
\* still has the guard of the current shard.
NextShard(t, i) ==
  LET s == held[t][i].shard + 1 IN
  /\ Exhausted(held[t][i]) /\ ~LastShard(held[t][i])
  /\ IF held[t][i].kind = "Iter" THEN ReadLockable(s) ELSE WriteLockable(s)
  /\ PutHandle(t, i, Handle(held[t][i].kind, s, Present(s)))

-----------------------------------------------------------------------------
(* One shard of the operations that go over all of them and hold one lock   *)
(* at a time.                                                               *)

\* The closure of retain keeps some of the elements and may change them.
RetainIn(s) ==
  /\ WriteLockable(s)
  /\ \E kept \in SUBSET Present(s) : \E value \in [kept -> Values] :
       shards' = [shards EXCEPT
         ![s] = [k \in Keys |-> IF k \in kept THEN value[k] ELSE None]]

ClearIn(s) ==
  /\ WriteLockable(s)
  /\ shards' = [shards EXCEPT ![s] = [k \in Keys |-> None]]

ShrinkIn(s) == WriteLockable(s) /\ UNCHANGED shards
=============================================================================
