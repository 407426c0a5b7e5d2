-------------------------- MODULE ClashTable_proofs --------------------------
(***************************************************************************)
(* The invariant of the sharded table, and a lemma for each operation on   *)
(* it: it keeps the invariant, for any number of threads, slots, keys and  *)
(* shards.  ClashMap_proofs builds the theorems about the map on these.    *)
(***************************************************************************)
EXTENDS ClashHandles, TLAPS

\* The handles that share an exclusive guard: an IterMut and what it yielded.
SharingKinds == {"IterMut", "RefMutMulti"}
IteratorKinds == {"Iter", "IterMut"}
OneKeyKinds == ExclusiveKinds \ IteratorKinds

\* The keys of a handle are keys of the shard that it keeps locked, and they are
\* in the map, or not if the handle is a vacant entry.  What changes an element,
\* other than an iterator, has just one.
Fits(h) ==
  /\ \A k \in h.keys :
       /\ ShardOf[k] = h.shard
       /\ h.kind # "Vacant" <=> Stored(k) # None
  /\ h.kind \in OneKeyKinds => \A k, l \in h.keys : k = l

\* Two handles of one shard, one of them exclusive, share a guard.
Compatible(t, h, u, g) ==
  /\ h.shard = g.shard /\ h.shard # -1
  /\ h.kind \in ExclusiveKinds \/ g.kind \in ExclusiveKinds
  => /\ t = u
     /\ h.kind \in SharingKinds /\ g.kind \in SharingKinds
     /\ h.keys \cap g.keys = {}

ShardTables == [Shards -> [Keys -> Values \cup {None}]]
TableTypeOK == shards \in ShardTables /\ held \in [Threads -> [Slots -> Handles]]
Placed == \A s \in Shards, k \in Keys : shards[s][k] # None => ShardOf[k] = s
HandlesFit == \A t \in Threads, i \in Slots : Fits(held[t][i])
GuardsExclude ==
  \A t, u \in Threads, i, j \in Slots :
    t # u \/ i # j => Compatible(t, held[t][i], u, held[u][j])

TableInv == TableTypeOK /\ Placed /\ HandlesFit /\ GuardsExclude

-----------------------------------------------------------------------------
(* One slot changes *)

LEMMA HandleFields ==
  ASSUME TableTypeOK, NEW t \in Threads, NEW i \in Slots
  PROVE  /\ held[t][i] \in Handles
         /\ held[t][i].kind \in SharedKinds \cup ExclusiveKinds \cup {"none"}
         /\ held[t][i].shard \in Int
         /\ held[t][i].keys \subseteq Keys
BY ShardAssumption DEF TableTypeOK, Handles

LEMMA HomeOfKey == ASSUME NEW k \in Keys PROVE ShardOf[k] \in Shards /\ ShardOf[k] # -1
BY ShardAssumption DEF Shards

\* A slot is given a handle that fits, and that goes with the others; what the
\* others refer to stays.
LEMMA Reslot ==
  ASSUME TableInv, NEW t \in Threads, NEW i \in Slots, NEW h \in Handles,
         PutHandle(t, i, h),
         shards' \in ShardTables, Placed', Fits(h)',
         \A u \in Threads, j \in Slots : t # u \/ i # j =>
           /\ Compatible(t, h, u, held[u][j])
           /\ \A k \in held[u][j].keys : Stored(k)' # None <=> Stored(k) # None
  PROVE  TableInv'
<1>1. /\ held' \in [Threads -> [Slots -> Handles]]
      /\ \A u \in Threads, j \in Slots :
           held'[u][j] = IF u = t /\ j = i THEN h ELSE held[u][j]
  BY DEF PutHandle, TableInv, TableTypeOK
<1>2. HandlesFit'
  <2>1. SUFFICES ASSUME NEW u \in Threads, NEW j \in Slots, NEW k \in held'[u][j].keys
                 PROVE  /\ ShardOf[k] = held'[u][j].shard
                        /\ held'[u][j].kind # "Vacant" <=> Stored(k)' # None
                        /\ held'[u][j].kind \in OneKeyKinds =>
                             \A l \in held'[u][j].keys : k = l
    BY DEF HandlesFit, Fits, Stored
  <2>2. CASE u = t /\ j = i
    BY <1>1, <2>2 DEF Fits, Stored
  <2>3. CASE ~(u = t /\ j = i)
    <3>1. held'[u][j] = held[u][j] /\ Fits(held[u][j])
      BY <1>1, <2>3 DEF TableInv, HandlesFit
    <3>. QED
      BY <3>1, <2>3 DEF Fits
  <2>. QED
    BY <2>2, <2>3
<1>3. GuardsExclude'
  <2>1. SUFFICES ASSUME NEW u1 \in Threads, NEW u2 \in Threads, NEW j1 \in Slots,
                        NEW j2 \in Slots, u1 # u2 \/ j1 # j2
                 PROVE  Compatible(u1, held'[u1][j1], u2, held'[u2][j2])
    BY DEF GuardsExclude, Compatible
  <2>2. CASE u1 = t /\ j1 = i
    BY <1>1, <2>1, <2>2
  <2>3. CASE u2 = t /\ j2 = i
    <3>1. held'[u2][j2] = h /\ held'[u1][j1] = held[u1][j1]
      BY <1>1, <2>1, <2>3
    <3>2. Compatible(t, h, u1, held[u1][j1])
      BY <2>1, <2>3
    <3>. QED
      BY <3>1, <3>2, <2>3 DEF Compatible
  <2>4. CASE ~(u1 = t /\ j1 = i) /\ ~(u2 = t /\ j2 = i)
    <3>1. held'[u2][j2] = held[u2][j2] /\ held'[u1][j1] = held[u1][j1]
      BY <1>1, <2>4
    <3>. QED
      BY <3>1, <2>1 DEF TableInv, GuardsExclude
  <2>. QED
    BY <2>2, <2>3, <2>4
<1>. QED
  BY <1>1, <1>2, <1>3 DEF TableInv, TableTypeOK

\* A handle that locks nothing: a new iterator, or none.
LEMMA Unguarded ==
  ASSUME TableInv, NEW t \in Threads, NEW i \in Slots, NEW h \in Handles,
         PutHandle(t, i, h), h.shard = -1, h.keys = {}, UNCHANGED shards
  PROVE  TableInv'
<1>1. shards' \in ShardTables /\ Placed'
  BY DEF TableInv, TableTypeOK, Placed
<1>2. Fits(h)'
  BY DEF Fits
<1>3. \A u \in Threads, j \in Slots :
        /\ Compatible(t, h, u, held[u][j])
        /\ \A k \in held[u][j].keys : Stored(k)' # None <=> Stored(k) # None
  BY DEF Compatible, Stored
<1>. QED
  BY <1>1, <1>2, <1>3, Reslot

LEMMA DropKeeps ==
  ASSUME TableInv, NEW t \in Threads, NEW i \in Slots, DropHandle(t, i), UNCHANGED shards
  PROVE  TableInv'
<1>1. NoHandle \in Handles /\ NoHandle.shard = -1 /\ NoHandle.keys = {}
  BY ShardAssumption DEF NoHandle, Handle, Handles
<1>. QED
  BY <1>1, Unguarded DEF DropHandle

\* A lock is acquired, and a handle of its shard takes the guard.
LEMMA Acquire ==
  ASSUME TableInv, NEW t \in Threads, NEW i \in Slots, NEW h \in Handles,
         PutHandle(t, i, h), Fits(h), UNCHANGED shards,
         (h.kind \in SharedKinds /\ ReadLockable(h.shard)) \/ WriteLockable(h.shard)
  PROVE  TableInv'
<1>1. shards' \in ShardTables /\ Placed'
  BY DEF TableInv, TableTypeOK, Placed
<1>2. Fits(h)'
  BY DEF Fits, Stored
<1>3. \A u \in Threads, j \in Slots :
        /\ Compatible(t, h, u, held[u][j])
        /\ \A k \in held[u][j].keys : Stored(k)' # None <=> Stored(k) # None
  BY DEF Compatible, Stored, ReadLockable, WriteLockable, SharedKinds, ExclusiveKinds, EntryKinds
<1>. QED
  BY <1>1, <1>2, <1>3, Reslot

\* A handle gives way to one that may do no more.
LEMMA Narrow ==
  ASSUME TableInv, NEW t \in Threads, NEW i \in Slots, NEW h \in Handles,
         PutHandle(t, i, h), UNCHANGED shards,
         h.shard = held[t][i].shard, h.keys \subseteq held[t][i].keys,
         h.kind = "Vacant" <=> held[t][i].kind = "Vacant",
         h.kind \in IteratorKinds <=> held[t][i].kind \in IteratorKinds,
         h.kind \in ExclusiveKinds => held[t][i].kind \in ExclusiveKinds,
         held[t][i].kind \in SharingKinds => h.kind = held[t][i].kind
  PROVE  TableInv'
<1>1. shards' \in ShardTables /\ Placed'
  BY DEF TableInv, TableTypeOK, Placed
<1>2. Fits(h)'
  BY DEF Fits, Stored, TableInv, HandlesFit, OneKeyKinds
<1>3. ASSUME NEW u \in Threads, NEW j \in Slots, t # u \/ i # j
      PROVE  /\ Compatible(t, h, u, held[u][j])
             /\ \A k \in held[u][j].keys : Stored(k)' # None <=> Stored(k) # None
  <2>1. Compatible(t, held[t][i], u, held[u][j])
    BY <1>3 DEF TableInv, GuardsExclude
  <2>. QED
    BY <2>1 DEF Compatible, Stored
<1>. QED
  BY <1>1, <1>2, <1>3, Reslot

-----------------------------------------------------------------------------
(* An element changes *)

\* Only the handle that is written through refers to the element.
LEMMA StoreLeavesOthers ==
  ASSUME TableInv, NEW t \in Threads, NEW i \in Slots,
         held[t][i].kind \in ExclusiveKinds,
         NEW k \in held[t][i].keys, NEW v \in Values \cup {None}, Store(k, v)
  PROVE  /\ shards' \in ShardTables /\ Placed'
         /\ \A x \in Keys : Stored(x)' = IF x = k THEN v ELSE Stored(x)
         /\ \A u \in Threads, j \in Slots : t # u \/ i # j =>
              \A x \in held[u][j].keys : Stored(x)' = Stored(x)
<1>1. k \in Keys /\ ShardOf[k] = held[t][i].shard /\ ShardOf[k] \in Shards /\ ShardOf[k] # -1
  BY HandleFields, HomeOfKey DEF TableInv, HandlesFit, Fits
<1>2. shards' \in ShardTables
  BY <1>1 DEF Store, TableInv, TableTypeOK, ShardTables
<1>3. \A s \in Shards, x \in Keys :
        shards'[s][x] = IF s = ShardOf[k] /\ x = k THEN v ELSE shards[s][x]
  BY <1>1 DEF Store, TableInv, TableTypeOK, ShardTables
<1>4. Placed'
  BY <1>1, <1>3 DEF Placed, TableInv
<1>5. \A x \in Keys : Stored(x)' = IF x = k THEN v ELSE Stored(x)
  BY <1>1, <1>3, HomeOfKey DEF Stored
<1>6. ASSUME NEW u \in Threads, NEW j \in Slots, t # u \/ i # j, NEW x \in held[u][j].keys
      PROVE  Stored(x)' = Stored(x)
  <2>1. x \in Keys /\ ShardOf[x] = held[u][j].shard
    BY HandleFields DEF TableInv, HandlesFit, Fits
  <2>2. Compatible(t, held[t][i], u, held[u][j])
    BY <1>6 DEF TableInv, GuardsExclude
  <2>3. x # k
    BY <1>1, <2>1, <2>2 DEF Compatible
  <2>. QED
    BY <1>5, <2>1, <2>3
<1>. QED
  BY <1>2, <1>4, <1>5, <1>6

\* A value is written, and the handle stays or gives way to another.
LEMMA StoreAndKeep ==
  ASSUME TableInv, NEW t \in Threads, NEW i \in Slots, NEW h \in Handles,
         held[t][i].kind \in ExclusiveKinds, PutHandle(t, i, h),
         NEW k \in held[t][i].keys, NEW v \in Values, Store(k, v),
         h.shard = held[t][i].shard, h.keys \subseteq held[t][i].keys,
         h.kind # "Vacant",
         h.kind \in IteratorKinds <=> held[t][i].kind \in IteratorKinds,
         held[t][i].kind = "Vacant" => h.keys \subseteq {k},
         held[t][i].kind \in SharingKinds => h.kind = held[t][i].kind
  PROVE  TableInv'
<1>. v \in Values \cup {None} /\ v # None
  BY NoneAssumption
<1>1. /\ shards' \in ShardTables /\ Placed'
      /\ \A x \in Keys : Stored(x)' = IF x = k THEN v ELSE Stored(x)
      /\ \A u \in Threads, j \in Slots : t # u \/ i # j =>
           \A x \in held[u][j].keys : Stored(x)' = Stored(x)
  BY StoreLeavesOthers
<1>2. Fits(h)'
  <2>1. \A x \in h.keys : x \in Keys /\ ShardOf[x] = h.shard /\ Stored(x)' # None
    BY <1>1, HandleFields DEF TableInv, HandlesFit, Fits
  <2>2. h.kind \in OneKeyKinds => \A x, l \in h.keys : x = l
    BY DEF TableInv, HandlesFit, Fits, OneKeyKinds
  <2>. QED
    BY <2>1, <2>2 DEF Fits, Stored
<1>3. ASSUME NEW u \in Threads, NEW j \in Slots, t # u \/ i # j
      PROVE  Compatible(t, h, u, held[u][j])
  <2>1. Compatible(t, held[t][i], u, held[u][j])
    BY <1>3 DEF TableInv, GuardsExclude
  <2>. QED
    BY <2>1 DEF Compatible
<1>. QED
  BY <1>1, <1>2, <1>3, Reslot

\* A value is written or taken out, and the handle dropped.
LEMMA StoreAndDrop ==
  ASSUME TableInv, NEW t \in Threads, NEW i \in Slots,
         held[t][i].kind \in ExclusiveKinds, DropHandle(t, i),
         NEW k \in held[t][i].keys, NEW v \in Values \cup {None}, Store(k, v)
  PROVE  TableInv'
<1>1. /\ shards' \in ShardTables /\ Placed'
      /\ \A u \in Threads, j \in Slots : t # u \/ i # j =>
           \A x \in held[u][j].keys : Stored(x)' = Stored(x)
  BY StoreLeavesOthers
<1>2. NoHandle \in Handles /\ Fits(NoHandle)'
  BY ShardAssumption DEF NoHandle, Handle, Handles, Fits
<1>3. \A u \in Threads, j \in Slots : Compatible(t, NoHandle, u, held[u][j])
  BY DEF Compatible, NoHandle, Handle
<1>. QED
  BY <1>1, <1>2, <1>3, Reslot DEF DropHandle

\* A shard is changed whose lock is held by no handle.
LEMMA ChangeShard ==
  ASSUME TableInv, NEW s \in Shards, WriteLockable(s), UNCHANGED held,
         NEW f \in [Keys -> Values \cup {None}],
         \A k \in Keys : f[k] # None => ShardOf[k] = s,
         shards' = [shards EXCEPT ![s] = f]
  PROVE  TableInv'
<1>1. /\ shards' \in ShardTables
      /\ \A x \in Shards : shards'[x] = IF x = s THEN f ELSE shards[x]
  BY DEF TableInv, TableTypeOK, ShardTables
<1>2. Placed'
  BY <1>1 DEF Placed, TableInv
<1>3. HandlesFit'
  <2>1. SUFFICES ASSUME NEW u \in Threads, NEW j \in Slots, NEW k \in held[u][j].keys
                 PROVE  /\ ShardOf[k] = held[u][j].shard
                        /\ held[u][j].kind # "Vacant" <=> Stored(k)' # None
                        /\ held[u][j].kind \in OneKeyKinds =>
                             \A l \in held[u][j].keys : k = l
    BY DEF HandlesFit, Fits, Stored
  <2>2. /\ ShardOf[k] = held[u][j].shard /\ ShardOf[k] \in Shards
        /\ held[u][j].kind # "Vacant" <=> Stored(k) # None
        /\ held[u][j].kind \in OneKeyKinds => \A l \in held[u][j].keys : k = l
    BY HandleFields, HomeOfKey DEF TableInv, HandlesFit, Fits
  <2>3. ShardOf[k] # s
    BY <2>2 DEF WriteLockable
  <2>. QED
    BY <1>1, <2>2, <2>3 DEF Stored
<1>4. GuardsExclude'
  BY DEF GuardsExclude, Compatible, TableInv
<1>. QED
  BY <1>1, <1>2, <1>3, <1>4 DEF TableInv, TableTypeOK
-----------------------------------------------------------------------------
(* The lookups *)

\* Only t's handles change.
Own(t) == \A u \in Threads \ {t} : held'[u] = held[u]

LEMMA PutIsOwn ==
  ASSUME TableInv, NEW t \in Threads, NEW i \in Slots, NEW h, PutHandle(t, i, h)
  PROVE  /\ Own(t)
         /\ held'[t][i] = h
         /\ \A j \in Slots \ {i} : held'[t][j] = held[t][j]
BY DEF PutHandle, Own, TableInv, TableTypeOK

LEMMA HandleOfKey ==
  ASSUME NEW k \in Keys, NEW kind \in SharedKinds \cup ExclusiveKinds,
         kind # "Vacant" <=> Stored(k) # None
  PROVE  /\ Handle(kind, ShardOf[k], {k}) \in Handles
         /\ Fits(Handle(kind, ShardOf[k], {k}))
BY HomeOfKey, ShardAssumption DEF Handle, Handles, Fits, Shards

LEMMA FindKeeps ==
  ASSUME TableInv, NEW t \in Threads, NEW k \in Keys, NEW i \in Slots,
         Find(t, k, i), UNCHANGED shards
  PROVE  TableInv' /\ Own(t)
<1>1. CASE Stored(k) # None
  <2>. DEFINE h == Handle("Ref", ShardOf[k], {k})
  <2>1. PutHandle(t, i, h) /\ h \in Handles /\ Fits(h)
    BY <1>1, HandleOfKey DEF Find, TryMap, SharedKinds
  <2>2. h.kind \in SharedKinds /\ ReadLockable(h.shard)
    BY DEF Find, Handle, SharedKinds
  <2>. HIDE DEF h
  <2>. QED
    BY <2>1, <2>2, Acquire, PutIsOwn
<1>2. CASE Stored(k) = None
  BY <1>2 DEF Find, TryMap, Own, TableInv, TableTypeOK, Placed, HandlesFit, Fits,
              Stored, GuardsExclude, Compatible
<1>. QED
  BY <1>1, <1>2

LEMMA ExclusiveLookup ==
  ASSUME TableInv, NEW t \in Threads, NEW k \in Keys, NEW i \in Slots,
         NEW kind \in ExclusiveKinds, kind # "Vacant" <=> Stored(k) # None,
         WriteLockable(ShardOf[k]), PutHandle(t, i, Handle(kind, ShardOf[k], {k})),
         UNCHANGED shards
  PROVE  TableInv' /\ Own(t)
<1>. DEFINE h == Handle(kind, ShardOf[k], {k})
<1>1. PutHandle(t, i, h) /\ h \in Handles /\ Fits(h)
  BY HandleOfKey
<1>2. WriteLockable(h.shard)
  BY DEF Handle
<1>. HIDE DEF h
<1>. QED
  BY <1>1, <1>2, Acquire, PutIsOwn

LEMMA FindMutKeeps ==
  ASSUME TableInv, NEW t \in Threads, NEW k \in Keys, NEW i \in Slots,
         FindMut(t, k, i), UNCHANGED shards
  PROVE  TableInv' /\ Own(t)
<1>1. CASE Stored(k) # None
  BY <1>1, ExclusiveLookup DEF FindMut, TryMap, ExclusiveKinds
<1>2. CASE Stored(k) = None
  BY <1>2 DEF FindMut, TryMap, Own, TableInv, TableTypeOK, Placed, HandlesFit, Fits,
              Stored, GuardsExclude, Compatible
<1>. QED
  BY <1>1, <1>2

LEMMA FindEntryKeeps ==
  ASSUME TableInv, NEW t \in Threads, NEW k \in Keys, NEW i \in Slots,
         FindEntry(t, k, i), UNCHANGED shards
  PROVE  TableInv' /\ Own(t)
<1>1. CASE Stored(k) # None
  BY <1>1, ExclusiveLookup DEF FindEntry, ExclusiveKinds, EntryKinds
<1>2. CASE Stored(k) = None
  BY <1>2 DEF FindEntry, Own, TableInv, TableTypeOK, Placed, HandlesFit, Fits,
              Stored, GuardsExclude, Compatible
<1>. QED
  BY <1>1, <1>2

LEMMA EntryKeeps ==
  ASSUME TableInv, NEW t \in Threads, NEW k \in Keys, NEW i \in Slots,
         Entry(t, k, i), UNCHANGED shards
  PROVE  TableInv' /\ Own(t)
<1>1. CASE Stored(k) # None
  BY <1>1, ExclusiveLookup DEF Entry, ExclusiveKinds, EntryKinds
<1>2. CASE Stored(k) = None
  BY <1>2, ExclusiveLookup DEF Entry, ExclusiveKinds, EntryKinds
<1>. QED
  BY <1>1, <1>2

\* A step that leaves shards and handles alone.
LEMMA NothingChanges ==
  ASSUME TableInv, UNCHANGED <<shards, held>>, NEW t
  PROVE  TableInv' /\ Own(t)
BY DEF Own, TableInv, TableTypeOK, Placed, HandlesFit, Fits, Stored, GuardsExclude, Compatible

-----------------------------------------------------------------------------
(* Entries and references *)

\* The handle of another kind that an entry or a reference gives way to.
LEMMA OtherKind ==
  ASSUME TableInv, NEW t \in Threads, NEW i \in Slots,
         NEW kind \in SharedKinds \cup ExclusiveKinds
  PROVE  LET h == [held[t][i] EXCEPT !.kind = kind] IN
         /\ h \in Handles /\ h.kind = kind
         /\ h.shard = held[t][i].shard /\ h.keys = held[t][i].keys
<1>1. held[t][i] \in Handles
  BY DEF TableInv, TableTypeOK
<1>. QED
  BY <1>1 DEF Handles

LEMMA InsertKeeps ==
  ASSUME TableInv, NEW t \in Threads, NEW i \in Slots, NEW kind \in {"RefMut", "Occupied"},
         VacantInsert(t, i, kind) \/ OccupiedInsert(t, i, kind)
  PROVE  TableInv' /\ Own(t)
<1>. DEFINE h == [held[t][i] EXCEPT !.kind = kind]
<1>1. PICK k \in held[t][i].keys, v \in Values : Store(k, v)
  BY DEF VacantInsert, OccupiedInsert
<1>2. PutHandle(t, i, h) /\ held[t][i].kind \in EntryKinds
  BY DEF VacantInsert, OccupiedInsert, EntryKinds
<1>3. kind \in SharedKinds \cup ExclusiveKinds /\ kind # "Vacant"
  BY DEF ExclusiveKinds, EntryKinds
<1>4. /\ h \in Handles /\ h.kind = kind
      /\ h.shard = held[t][i].shard /\ h.keys = held[t][i].keys
  BY <1>3, OtherKind
<1>5. held[t][i].kind = "Vacant" => held[t][i].keys \subseteq {k}
  BY <1>1, <1>2 DEF TableInv, HandlesFit, Fits, ExclusiveKinds, EntryKinds, OneKeyKinds, IteratorKinds
<1>6. held[t][i].kind \in ExclusiveKinds /\ held[t][i].kind \notin SharingKinds
  BY <1>2 DEF ExclusiveKinds, EntryKinds, SharingKinds
<1>7. kind \notin IteratorKinds /\ held[t][i].kind \notin IteratorKinds
  BY <1>2 DEF EntryKinds, IteratorKinds
<1>. HIDE DEF h
<1>. QED
  BY <1>1, <1>2, <1>3, <1>4, <1>5, <1>6, <1>7, StoreAndKeep, PutIsOwn

\* into_mut, and the downgrade of a RefMut.
LEMMA ChangeKindKeeps ==
  ASSUME TableInv, NEW t \in Threads, NEW i \in Slots,
         OccupiedIntoMut(t, i) \/ Downgrade(t, i)
  PROVE  TableInv' /\ Own(t)
<1>1. PICK kind \in {"RefMut", "Ref"} :
        /\ PutHandle(t, i, [held[t][i] EXCEPT !.kind = kind]) /\ UNCHANGED shards
        /\ held[t][i].kind \in {"Occupied", "RefMut"}
  BY DEF OccupiedIntoMut, Downgrade
<1>. DEFINE h == [held[t][i] EXCEPT !.kind = kind]
<1>2. kind \in SharedKinds \cup ExclusiveKinds
  BY DEF SharedKinds, ExclusiveKinds
<1>3. /\ h \in Handles /\ h.kind = kind
      /\ h.shard = held[t][i].shard /\ h.keys = held[t][i].keys
  BY <1>2, OtherKind
<1>4. /\ held[t][i].kind \in ExclusiveKinds /\ held[t][i].kind \notin SharingKinds
      /\ kind # "Vacant" /\ held[t][i].kind # "Vacant"
      /\ kind \notin IteratorKinds /\ held[t][i].kind \notin IteratorKinds
  BY <1>1 DEF ExclusiveKinds, EntryKinds, SharingKinds, IteratorKinds
<1>. HIDE DEF h
<1>. QED
  BY <1>1, <1>3, <1>4, Narrow, PutIsOwn DEF h

\* Whatever is written through the handle, it stays as it is, or is dropped.
LEMMA WriteKeeps ==
  ASSUME TableInv, NEW t \in Threads, NEW i \in Slots,
         held[t][i].kind \in {"RefMut", "RefMutMulti", "Occupied"},
         NEW k \in held[t][i].keys, NEW v \in Values, Store(k, v), UNCHANGED held
  PROVE  TableInv' /\ Own(t)
<1>1. PutHandle(t, i, held[t][i]) /\ held[t][i] \in Handles
  BY DEF PutHandle, TableInv, TableTypeOK
<1>2. held[t][i].kind \in ExclusiveKinds /\ held[t][i].kind # "Vacant"
  BY DEF ExclusiveKinds, EntryKinds
<1>. QED
  BY <1>1, <1>2, StoreAndKeep, PutIsOwn

LEMMA StoreDropKeeps ==
  ASSUME TableInv, NEW t \in Threads, NEW i \in Slots,
         held[t][i].kind \in {"RefMut", "RefMutMulti", "Occupied", "Vacant"},
         NEW k \in held[t][i].keys, NEW v \in Values \cup {None}, Store(k, v),
         DropHandle(t, i)
  PROVE  TableInv' /\ Own(t)
<1>1. held[t][i].kind \in ExclusiveKinds
  BY DEF ExclusiveKinds, EntryKinds
<1>. QED
  BY <1>1, StoreAndDrop, PutIsOwn DEF DropHandle

LEMMA OccupiedKeeps ==
  ASSUME TableInv, NEW t \in Threads, NEW i \in Slots,
         \/ OccupiedRemove(t, i) \/ OccupiedReplace(t, i) \/ WriteThrough(t, i)
  PROVE  TableInv' /\ Own(t)
<1>1. CASE OccupiedRemove(t, i)
  BY <1>1, StoreDropKeeps DEF OccupiedRemove
<1>2. CASE OccupiedReplace(t, i)
  BY <1>2, StoreDropKeeps DEF OccupiedReplace
<1>3. CASE WriteThrough(t, i)
  BY <1>3, WriteKeeps DEF WriteThrough
<1>. QED
  BY <1>1, <1>2, <1>3

LEMMA FreeSlotIsFree ==
  ASSUME NEW t \in Threads, FreeSlots(t) # {}
  PROVE  FreeSlot(t) \in Slots /\ held[t][FreeSlot(t)] = NoHandle
BY DEF FreeSlot, FreeSlots

LEMMA CloneKeeps ==
  ASSUME TableInv, NEW t \in Threads, NEW i \in Slots, CloneHandle(t, i)
  PROVE  TableInv' /\ Own(t)
<1>1. PICK f \in Slots, h \in Handles : h = held[t][i] /\ PutHandle(t, f, h)
  BY FreeSlotIsFree DEF CloneHandle, TableInv, TableTypeOK
<1>2. h.kind \in SharedKinds /\ Fits(h) /\ UNCHANGED shards
  BY <1>1 DEF CloneHandle, SharedKinds, TableInv, HandlesFit
<1>3. ASSUME NEW u \in Threads, NEW j \in Slots
      PROVE  Compatible(t, h, u, held[u][j])
  <2>1. CASE t # u \/ i # j
    BY <1>1, <2>1 DEF TableInv, GuardsExclude
  <2>2. CASE t = u /\ i = j
    BY <1>1, <1>2, <2>2 DEF Compatible, SharedKinds, ExclusiveKinds, EntryKinds
  <2>. QED
    BY <2>1, <2>2
<1>4. /\ shards' \in ShardTables /\ Placed' /\ Fits(h)'
      /\ \A u \in Threads, j \in Slots : \A x \in held[u][j].keys : Stored(x)' = Stored(x)
  BY <1>2 DEF TableInv, TableTypeOK, Placed, Fits, Stored
<1>. QED
  BY <1>1, <1>3, <1>4, Reslot, PutIsOwn

\* What the caller does with a handle.
LEMMA UseKeeps ==
  ASSUME TableInv, NEW t \in Threads, NEW i \in Slots, Use(t, i)
  PROVE  TableInv' /\ Own(t)
<1>1. ASSUME Ends(t, i)
      PROVE  TableInv' /\ Own(t)
  BY <1>1, DropKeeps, PutIsOwn DEF Ends, DropHandle
<1>2. CASE AndModify(t, i)
  BY <1>1, <1>2, OccupiedKeeps DEF AndModify
<1>3. CASE IntoKey(t, i)
  BY <1>1, <1>3 DEF IntoKey
<1>4. CASE OrInsert(t, i)
  BY <1>1, <1>4, InsertKeeps, ChangeKindKeeps DEF OrInsert
<1>5. CASE EntryInsert(t, i) \/ EntryInsertEntry(t, i)
  BY <1>5, InsertKeeps DEF EntryInsert, EntryInsertEntry
<1>6. CASE OccupiedOps(t, i)
  BY <1>6, OccupiedKeeps, ChangeKindKeeps DEF OccupiedOps
<1>7. CASE MapRef(t, i)
  BY <1>7, <1>1, NothingChanges DEF MapRef, Ends
<1>8. CASE MapRefMut(t, i)
  BY <1>8, WriteKeeps, StoreDropKeeps DEF MapRefMut
<1>9. CASE ValueMut(t, i) \/ MultiValueMut(t, i)
  BY <1>9, OccupiedKeeps DEF ValueMut, MultiValueMut
<1>10. CASE DowngradeRef(t, i)
  BY <1>10, ChangeKindKeeps DEF DowngradeRef
<1>11. CASE CloneMulti(t, i) \/ CloneIter(t, i)
  BY <1>11, CloneKeeps DEF CloneMulti, CloneIter
<1>. QED
  BY <1>2, <1>3, <1>4, <1>5, <1>6, <1>7, <1>8, <1>9, <1>10, <1>11 DEF Use

-----------------------------------------------------------------------------
(* Iterators and traversals *)

\* The element that is yielded leaves the iterator, and they share the guard.
LEMMA YieldKeeps ==
  ASSUME TableInv, NEW t \in Threads, NEW i \in Slots, Yield(t, i),
         held[t][i].kind \in IteratorKinds, FreeSlots(t) # {}, UNCHANGED shards
  PROVE  TableInv' /\ Own(t)
<1>1. PICK k \in held[t][i].keys, f \in Slots :
        /\ f # i
        /\ held' = [held EXCEPT
             ![t][i].keys = @ \ {k},
             ![t][f] = Handle(IF held[t][i].kind = "Iter" THEN "RefMulti" ELSE "RefMutMulti",
                              held[t][i].shard, {k})]
  <2>1. FreeSlot(t) \in Slots /\ FreeSlot(t) # i
    BY FreeSlotIsFree DEF NoHandle, Handle, IteratorKinds
  <2>. QED
    BY <2>1 DEF Yield
<1>2. PICK h1 \in Handles, h2 \in Handles :
        /\ h1 = [held[t][i] EXCEPT !.keys = @ \ {k}]
        /\ h2 = Handle(IF held[t][i].kind = "Iter" THEN "RefMulti" ELSE "RefMutMulti",
                       held[t][i].shard, {k})
  <2>1. held[t][i] \in Handles /\ k \in Keys
    BY HandleFields DEF TableInv, TableTypeOK
  <2>. QED
    BY <2>1 DEF Handles, Handle, SharedKinds, ExclusiveKinds
<1>3. /\ h1.kind = held[t][i].kind /\ h1.shard = held[t][i].shard
      /\ h1.keys = held[t][i].keys \ {k}
      /\ h2.shard = held[t][i].shard /\ h2.keys = {k}
      /\ h2.kind = IF held[t][i].kind = "Iter" THEN "RefMulti" ELSE "RefMutMulti"
  <2>1. held[t][i] \in Handles
    BY DEF TableInv, TableTypeOK
  <2>. QED
    BY <1>2, <2>1 DEF Handles, Handle
<1>4. /\ held' \in [Threads -> [Slots -> Handles]]
      /\ \A u \in Threads, j \in Slots :
           held'[u][j] = IF u = t /\ j = i THEN h1
                         ELSE IF u = t /\ j = f THEN h2 ELSE held[u][j]
  BY <1>1, <1>2 DEF TableInv, TableTypeOK
<1>5. HandlesFit'
  <2>1. Fits(h1) /\ Fits(h2)
    BY <1>3 DEF TableInv, HandlesFit, Fits, IteratorKinds
  <2>2. \A u \in Threads, j \in Slots : Fits(held'[u][j])
    BY <1>4, <2>1 DEF TableInv, HandlesFit
  <2>. QED
    BY <2>2 DEF HandlesFit, Fits, Stored
<1>6. GuardsExclude'
  <2>1. Compatible(t, h1, t, h2) /\ Compatible(t, h2, t, h1)
    BY <1>3 DEF Compatible, SharingKinds, ExclusiveKinds, EntryKinds, IteratorKinds
  <2>2. ASSUME NEW u \in Threads, NEW j \in Slots, u # t \/ (j # i /\ j # f)
        PROVE  /\ Compatible(t, h1, u, held[u][j]) /\ Compatible(u, held[u][j], t, h1)
               /\ Compatible(t, h2, u, held[u][j]) /\ Compatible(u, held[u][j], t, h2)
    <3>1. Compatible(t, held[t][i], u, held[u][j])
      BY <2>2 DEF TableInv, GuardsExclude
    <3>. QED
      BY <1>3, <3>1 DEF Compatible, SharingKinds, ExclusiveKinds, EntryKinds, IteratorKinds
  <2>3. /\ held'[t][i] = h1 /\ held'[t][f] = h2
        /\ \A u \in Threads, j \in Slots :
             u # t \/ (j # i /\ j # f) => held'[u][j] = held[u][j]
    BY <1>1, <1>4
  <2>4. ASSUME NEW u1 \in Threads, NEW u2 \in Threads, NEW j1 \in Slots,
               NEW j2 \in Slots, u1 # u2 \/ j1 # j2
        PROVE  Compatible(u1, held'[u1][j1], u2, held'[u2][j2])
    <3>1. CASE u1 = t /\ j1 = i
      <4>1. CASE u2 = t /\ j2 = f
        BY <2>1, <2>3, <3>1, <4>1
      <4>2. CASE ~(u2 = t /\ j2 = f)
        BY <2>2, <2>3, <2>4, <3>1, <4>2
      <4>. QED
        BY <4>1, <4>2
    <3>2. CASE u1 = t /\ j1 = f
      <4>1. CASE u2 = t /\ j2 = i
        BY <2>1, <2>3, <3>2, <4>1
      <4>2. CASE ~(u2 = t /\ j2 = i)
        BY <2>2, <2>3, <2>4, <3>2, <4>2
      <4>. QED
        BY <4>1, <4>2
    <3>3. CASE u1 # t \/ (j1 # i /\ j1 # f)
      <4>1. CASE u2 = t /\ j2 = i
        BY <2>2, <2>3, <3>3, <4>1
      <4>2. CASE u2 = t /\ j2 = f
        BY <2>2, <2>3, <3>3, <4>2
      <4>3. CASE u2 # t \/ (j2 # i /\ j2 # f)
        BY <2>3, <2>4, <3>3, <4>3 DEF TableInv, GuardsExclude
      <4>. QED
        BY <4>1, <4>2, <4>3
    <3>. QED
      BY <3>1, <3>2, <3>3
  <2>. QED
    BY <2>4 DEF GuardsExclude, Compatible
<1>7. Own(t)
  BY <1>1 DEF Own, TableInv, TableTypeOK
<1>. QED
  BY <1>4, <1>5, <1>6, <1>7 DEF TableInv, TableTypeOK, Placed

LEMMA NextShardKeeps ==
  ASSUME TableInv, NEW t \in Threads, NEW i \in Slots, NextShard(t, i),
         held[t][i].kind \in IteratorKinds, UNCHANGED shards
  PROVE  TableInv' /\ Own(t)
<1>1. PICK s \in Shards, kind \in IteratorKinds :
        /\ s = held[t][i].shard + 1 /\ kind = held[t][i].kind
        /\ IF kind = "Iter" THEN ReadLockable(s) ELSE WriteLockable(s)
        /\ PutHandle(t, i, Handle(kind, s, Present(s)))
  <2>1. held[t][i].shard \in -1..(ShardCount - 1) /\ held[t][i].shard # ShardCount - 1
    BY DEF NextShard, LastShard, TableInv, TableTypeOK, Handles
  <2>. QED
    BY <2>1, ShardAssumption DEF NextShard, Shards
<1>2. PICK h \in Handles : h = Handle(kind, s, Present(s))
  <2>1. kind \in SharedKinds \cup ExclusiveKinds /\ s \in -1..(ShardCount - 1)
    BY ShardAssumption DEF Shards, IteratorKinds, SharedKinds, ExclusiveKinds
  <2>2. Present(s) \in SUBSET Keys
    BY DEF Present
  <2>3. Handle(kind, s, Present(s)) \in Handles
    BY <2>1, <2>2 DEF Handle, Handles
  <2>. QED
    BY <2>3
<1>3. /\ h.kind = kind /\ h.shard = s /\ h.keys = Present(s)
      /\ \A k \in Present(s) : k \in Keys /\ ShardOf[k] = s /\ Stored(k) # None
  BY <1>2 DEF Handle, Present, Stored, TableInv, Placed
<1>4. Fits(h)
  BY <1>3 DEF Fits, OneKeyKinds, IteratorKinds
<1>5. (h.kind \in SharedKinds /\ ReadLockable(h.shard)) \/ WriteLockable(h.shard)
  BY <1>1, <1>3 DEF SharedKinds
<1>. QED
  BY <1>1, <1>2, <1>4, <1>5, Acquire, PutIsOwn

\* retain and clear change a shard that nobody has.
LEMMA SweepKeeps ==
  ASSUME TableInv, NEW s \in Shards, RetainIn(s) \/ ClearIn(s), UNCHANGED held
  PROVE  TableInv'
<1>1. PICK f \in [Keys -> Values \cup {None}] :
        /\ shards' = [shards EXCEPT ![s] = f] /\ WriteLockable(s)
        /\ \A k \in Keys : f[k] # None => k \in Present(s)
  <2>1. CASE RetainIn(s)
    <3>1. PICK kept \in SUBSET Present(s) : \E value \in [kept -> Values] :
            shards' = [shards EXCEPT
              ![s] = [k \in Keys |-> IF k \in kept THEN value[k] ELSE None]]
      BY <2>1 DEF RetainIn
    <3>2. PICK value \in [kept -> Values] :
            shards' = [shards EXCEPT
              ![s] = [k \in Keys |-> IF k \in kept THEN value[k] ELSE None]]
      BY <3>1
    <3>. DEFINE f == [k \in Keys |-> IF k \in kept THEN value[k] ELSE None]
    <3>3. f \in [Keys -> Values \cup {None}] /\ \A k \in Keys : f[k] # None => k \in Present(s)
      OBVIOUS
    <3>4. WriteLockable(s)
      BY <2>1 DEF RetainIn
    <3>. QED
      BY <3>2, <3>3, <3>4
  <2>2. CASE ClearIn(s)
    <3>. DEFINE f == [k \in Keys |-> None]
    <3>1. f \in [Keys -> Values \cup {None}] /\ \A k \in Keys : f[k] # None => k \in Present(s)
      OBVIOUS
    <3>. QED
      BY <2>2, <3>1 DEF ClearIn
  <2>. QED
    BY <2>1, <2>2
<1>2. \A k \in Keys : f[k] # None => ShardOf[k] = s
  BY <1>1 DEF Present, TableInv, Placed
<1>. QED
  BY <1>1, <1>2, ChangeShard
=============================================================================
