------------------------ MODULE ClashMapHistory_proofs ------------------------
(***************************************************************************)
(* Theorems about ClashMapHistory: what the traversals and the iterators   *)
(* of the map say of a map that other threads change meanwhile.            *)
(***************************************************************************)
EXTENDS ClashMapHistory, ClashMap_proofs

\* What the iterator h has yielded, given its history y: keys of shards that it
\* has come to, none of them still to come.
YieldsFit(h, y) ==
  /\ h.keys \cap y.yielded = {}
  /\ \A k \in y.yielded : ShardOf[k] <= h.shard
  /\ y.yielded \subseteq y.ever

\* Nothing that stayed in the map has been passed by.
NonePassed(h, y) == \A k \in y.always : ShardOf[k] <= h.shard => k \in h.keys \cup y.yielded

Before(K, s) == {k \in K : ShardOf[k] < s}
Copied(c) == {k \in Keys : c.gathered[k] # None}
CountBetween(n, K, L) == Cardinality(K) <= n /\ n <= Cardinality(L)

\* What a traversal has made of the shards that it has done.
TraversalFits(c, y) ==
  /\ c.op \in {"len", "serialize"}
       => CountBetween(c.count, Before(y.always, c.shard), Before(y.ever, c.shard))
  /\ c.op = "serialize_entries" => CountBetween(c.count, y.always, y.ever)
  /\ c.op \in {"fold", "serialize_entries"}
       => Before(y.always, c.shard) \subseteq Copied(c) /\ Copied(c) \subseteq y.ever
  /\ c.op = "clear" => Before(y.always, c.shard) = {}

HistoryTypeOK == hist \in [Threads -> [Slots -> Histories]]
PresenceFits ==
  \A t \in Threads, i \in Slots :
    InUse(t, i) => hist[t][i].always \subseteq AllPresent /\ AllPresent \subseteq hist[t][i].ever
\* alter_all does not yield what its iterator comes by.
IteratorsFit ==
  \A t \in Threads, i \in Slots :
    IsIterator(t, i) =>
      /\ YieldsFit(held[t][i], hist[t][i])
      /\ (AltersAll(call[t]) /\ Slot(t) = i) \/ NonePassed(held[t][i], hist[t][i])
TraversalsFit ==
  \A t \in Threads :
    GoesOver(t) => Slot(t) \in Slots /\ TraversalFits(call[t], hist[t][Slot(t)])

HInv == HistoryTypeOK /\ PresenceFits /\ IteratorsFit /\ TraversalsFit

-----------------------------------------------------------------------------
(* Keys that are present, and their numbers *)

LEMMA KeysPresent ==
  /\ TableInv => AllPresent = {k \in Keys : Stored(k) # None}
  /\ TableInv' => AllPresent' = {k \in Keys : Stored(k)' # None}
<1>1. ASSUME TableInv  PROVE AllPresent = {k \in Keys : Stored(k) # None}
  <2>1. \A k \in Keys, x \in Shards : k \in Present(x) => ShardOf[k] = x
    BY <1>1 DEF TableInv, Placed, Present
  <2>2. \A k \in Keys : ShardOf[k] \in Shards
    BY HomeOfKey
  <2>. QED
    BY <2>1, <2>2 DEF AllPresent, Present, Stored
<1>2. ASSUME TableInv'  PROVE AllPresent' = {k \in Keys : Stored(k)' # None}
  <2>1. \A k \in Keys, x \in Shards : k \in Present(x)' => ShardOf[k] = x
    BY <1>2 DEF TableInv, Placed, Present
  <2>2. \A k \in Keys : ShardOf[k] \in Shards
    BY HomeOfKey
  <2>. QED
    BY <2>1, <2>2 DEF AllPresent, Present, Stored
<1>. QED
  BY <1>1, <1>2

LEMMA PresentInShard ==
  ASSUME TableInv, NEW s \in Shards
  PROVE  Present(s) = {k \in AllPresent : ShardOf[k] = s}
<1>1. AllPresent = {k \in Keys : Stored(k) # None}
  BY KeysPresent
<1>2. \A k \in Present(s) : ShardOf[k] = s
  BY DEF TableInv, Placed, Present
<1>. QED
  BY <1>1, <1>2 DEF Present, Stored

LEMMA SamePresent == ASSUME UNCHANGED shards PROVE AllPresent' = AllPresent
BY DEF AllPresent, Present

LEMMA SizeIsNumber == Size \in Nat /\ Size' \in Nat
<1>1. ASSUME NEW S, S \subseteq Shards \X Keys  PROVE Cardinality(S) \in Nat
  <2>1. IsFiniteSet(Shards \X Keys)
    <3>1. IsFiniteSet(Shards)
      BY ShardAssumption, FS_Interval DEF Shards
    <3>. QED
      BY <3>1, KeysAssumption, FS_Product
  <2>. QED
    BY <1>1, <2>1, FS_Subset, FS_CardinalityType
<1>. QED
  BY <1>1 DEF Size, Present

LEMMA KeysAreFinite ==
  ASSUME NEW K \in SUBSET Keys
  PROVE  IsFiniteSet(K) /\ Cardinality(K) \in Nat
BY KeysAssumption, FS_Subset, FS_CardinalityType

LEMMA Fewer ==
  ASSUME NEW K \in SUBSET Keys, NEW L \in SUBSET K
  PROVE  Cardinality(L) <= Cardinality(K)
BY KeysAreFinite, FS_Subset

\* A count stays between the keys that always were and those that ever were:
\* the ones become fewer, the others more.
LEMMA CountNarrows ==
  ASSUME NEW n \in Nat, NEW K \in SUBSET Keys, NEW L \in SUBSET Keys, CountBetween(n, K, L),
         NEW K1 \in SUBSET K, NEW L1 \in SUBSET Keys, L \subseteq L1
  PROVE  CountBetween(n, K1, L1)
<1>1. Cardinality(K1) <= Cardinality(K) /\ Cardinality(L) <= Cardinality(L1)
  BY Fewer
<1>2. /\ Cardinality(K) \in Nat /\ Cardinality(K1) \in Nat
      /\ Cardinality(L) \in Nat /\ Cardinality(L1) \in Nat
  BY KeysAreFinite
<1>. QED
  BY <1>1, <1>2 DEF CountBetween

\* The keys before the next shard are those before this one, and its own.
LEMMA BeforeNext ==
  ASSUME NEW K \in SUBSET Keys, NEW s \in Shards
  PROVE  Cardinality(Before(K, s + 1))
           = Cardinality(Before(K, s)) + Cardinality({k \in K : ShardOf[k] = s})
<1>. DEFINE A == Before(K, s)
            B == {k \in K : ShardOf[k] = s}
<1>1. s \in Int /\ \A k \in Keys : ShardOf[k] \in Int
  BY HomeOfKey, ShardAssumption DEF Shards
<1>2. Before(K, s + 1) = A \cup B /\ A \cap B = {}
  BY <1>1 DEF Before
<1>3. IsFiniteSet(A) /\ IsFiniteSet(B)
  BY KeysAreFinite DEF Before
<1>. HIDE DEF A, B
<1>4. Cardinality(A \cup B) = Cardinality(A) + Cardinality(B) - Cardinality(A \cap B)
  BY <1>3, FS_Union
<1>5. Cardinality(A \cap B) = 0 /\ Cardinality(Before(K, s + 1)) = Cardinality(A \cup B)
  BY <1>2, FS_EmptySet, Zenon
<1>6. Cardinality(A) \in Nat /\ Cardinality(B) \in Nat
  BY <1>3, FS_CardinalityType
<1>7. Cardinality(Before(K, s + 1)) = Cardinality(A) + Cardinality(B)
  BY <1>4, <1>5, <1>6
<1>. QED
  BY <1>7 DEF A, B

LEMMA BeforeAll ==
  ASSUME NEW K \in SUBSET Keys
  PROVE  Before(K, 0) = {} /\ Before(K, ShardCount) = K
<1>1. \A k \in Keys : ShardOf[k] \in 0..(ShardCount - 1)
  BY ShardAssumption
<1>. QED
  BY <1>1, ShardAssumption DEF Before

\* Counting the shard that it is at, a traversal counts what stayed there, and
\* nothing that was never there.
LEMMA CountGoesOn ==
  ASSUME TableInv, NEW s \in Shards, NEW K \in SUBSET Keys, NEW L \in SUBSET Keys,
         K \subseteq AllPresent, AllPresent \subseteq L, NEW n \in Nat,
         CountBetween(n, Before(K, s), Before(L, s))
  PROVE  CountBetween(n + Cardinality(Present(s)), Before(K, s + 1), Before(L, s + 1))
<1>. DEFINE A == {k \in K : ShardOf[k] = s}
            B == {k \in L : ShardOf[k] = s}
<1>1. A \subseteq Present(s) /\ Present(s) \subseteq B /\ Present(s) \subseteq Keys
  BY PresentInShard DEF Present
<1>2. Cardinality(A) <= Cardinality(Present(s)) /\ Cardinality(Present(s)) <= Cardinality(B)
  BY <1>1, Fewer
<1>3. /\ Cardinality(Before(K, s + 1)) = Cardinality(Before(K, s)) + Cardinality(A)
      /\ Cardinality(Before(L, s + 1)) = Cardinality(Before(L, s)) + Cardinality(B)
  BY BeforeNext
<1>4. /\ Cardinality(A) \in Nat /\ Cardinality(B) \in Nat /\ Cardinality(Present(s)) \in Nat
      /\ Cardinality(Before(K, s)) \in Nat /\ Cardinality(Before(L, s)) \in Nat
  BY <1>1, KeysAreFinite DEF Before
<1>. HIDE DEF A, B
<1>. QED
  BY <1>2, <1>3, <1>4 DEF CountBetween
-----------------------------------------------------------------------------
(* How the iterators go on *)

\* What the iterator in slot i of t yields in this step.
Gets(t, i) == IF In(t, "next") /\ Slot(t) = i THEN Received(t) ELSE {}

\* The iterator stays as it is, goes on to the next shard or yields a key, or
\* alter_all alters one.
Slides(t, i) ==
  \/ held'[t][i] = held[t][i] /\ Gets(t, i) = {}
  \/ /\ held[t][i].keys = {} /\ held'[t][i].shard = held[t][i].shard + 1
     /\ held'[t][i].shard \in Shards /\ held'[t][i].keys = Present(held'[t][i].shard)
     /\ UNCHANGED shards /\ Gets(t, i) = {}
  \/ /\ \E k \in held[t][i].keys :
          held'[t][i].keys = held[t][i].keys \ {k} /\ Gets(t, i) = {k}
     /\ held'[t][i].shard = held[t][i].shard /\ UNCHANGED shards
  \/ /\ held'[t][i].keys \subseteq held[t][i].keys /\ held'[t][i].shard = held[t][i].shard
     /\ Gets(t, i) = {} /\ AltersAll(call'[t]) /\ call'[t].slot = i

GoesOnWith(t, i) ==
  /\ IsIterator(t, i) /\ Slides(t, i)
  /\ AltersAll(call[t]) /\ Slot(t) = i => AltersAll(call'[t]) /\ call'[t].slot = i

BeginsWith(t, i) ==
  /\ ~InUse(t, i)
  /\ held'[t][i].shard = -1 /\ held'[t][i].keys = {}

ClonesTo(t, i) ==
  /\ ~InUse(t, i) /\ call[t] = Idle /\ UNCHANGED shards
  /\ \E j \in Slots : IsIterator(t, j) /\ held[t][j] = held'[t][i]

\* An iterator goes on, is new, or is a clone.
IteratorStep(t, i) ==
  held'[t][i].kind \in Iterators => GoesOnWith(t, i) \/ BeginsWith(t, i) \/ ClonesTo(t, i)

KeepsAltering(t) ==
  AltersAll(call[t]) => AltersAll(call'[t]) /\ call'[t].slot = call[t].slot

LEMMA NothingReceived ==
  ASSUME NEW t \in Threads, \A j \in FreeSlots(t) : held'[t][j] = held[t][j]
  PROVE  Received(t) = {}
BY DEF Received, FreeSlots, NoHandle, Handle

LEMMA IdleUses ==
  ASSUME NEW t \in Threads, call[t] = Idle, NEW i \in Slots, held[t][i] = NoHandle
  PROVE  ~InUse(t, i) /\ ~AltersAll(call[t]) /\ ~In(t, "next") /\ ~GoesOver(t)
BY DEF InUse, IsIterator, Iterators, NoHandle, Handle, GoesOver, Idle, Call, Traversals,
       ReadTraversals, Serializing, AltersAll, In

LEMMA SlotsStay ==
  ASSUME NEW t \in Threads, held'[t] = held[t], KeepsAltering(t), NEW i \in Slots
  PROVE  IteratorStep(t, i)
<1>1. Gets(t, i) = {}
  BY NothingReceived DEF Gets
<1>. QED
  BY <1>1 DEF IteratorStep, GoesOnWith, Slides, IsIterator, KeepsAltering, Slot

\* A slot is given a handle that is no iterator.
LEMMA SlotGiven ==
  ASSUME IInv, NEW t \in Threads, NEW j \in Slots, NEW h, PutHandle(t, j, h),
         h.kind \notin Iterators, ~In(t, "next"),
         KeepsAltering(t) \/ j = Slot(t), NEW i \in Slots
  PROVE  IteratorStep(t, i)
<1>1. held'[t][j] = h /\ \A l \in Slots \ {j} : held'[t][l] = held[t][l]
  BY PutIsOwn DEF IInv
<1>2. Gets(t, i) = {}
  BY DEF Gets
<1>. QED
  BY <1>1, <1>2 DEF IteratorStep, GoesOnWith, Slides, IsIterator, KeepsAltering, Slot

\* A free slot of an idle thread is given an iterator, new or cloned.
LEMMA SlotBegins ==
  ASSUME IInv, NEW t \in Threads, call[t] = Idle, NEW j \in Slots, held[t][j] = NoHandle,
         NEW h, PutHandle(t, j, h),
         \/ h.shard = -1 /\ h.keys = {}
         \/ UNCHANGED shards /\ \E l \in Slots : IsIterator(t, l) /\ held[t][l] = h,
         NEW i \in Slots
  PROVE  IteratorStep(t, i)
<1>1. held'[t][j] = h /\ \A l \in Slots \ {j} : held'[t][l] = held[t][l]
  BY PutIsOwn DEF IInv
<1>2. ~InUse(t, j) /\ ~AltersAll(call[t]) /\ ~In(t, "next")
  BY IdleUses
<1>3. Gets(t, i) = {}
  BY <1>2 DEF Gets
<1>. QED
  BY <1>1, <1>2, <1>3
     DEF IteratorStep, GoesOnWith, BeginsWith, ClonesTo, Slides, IsIterator

LEMMA SlotMoves ==
  ASSUME IInv, NEW t \in Threads, NEW j \in Slots, held[t][j].kind \in Iterators,
         NextShard(t, j), UNCHANGED <<shards, call>>, NEW i \in Slots
  PROVE  IteratorStep(t, i)
<1>. DEFINE s == held[t][j].shard + 1
            h == Handle(held[t][j].kind, s, Present(s))
<1>1. PutHandle(t, j, h) /\ held[t][j].keys = {} /\ s \in Shards
  <2>1. held[t][j].shard \in -1..(ShardCount - 1) /\ held[t][j].shard # ShardCount - 1
    BY DEF NextShard, LastShard, IInv, TableInv, TableTypeOK, Handles
  <2>. QED
    BY <2>1, ShardAssumption DEF NextShard, Shards, Exhausted
<1>2. held'[t][j] = h /\ \A l \in Slots \ {j} : held'[t][l] = held[t][l]
  <2>. HIDE DEF h
  <2>. QED
    BY <1>1, PutIsOwn DEF IInv
<1>3. h.kind = held[t][j].kind /\ h.shard = s /\ h.keys = Present(s)
  BY DEF Handle
<1>4. Received(t) = {}
  BY <1>2, NothingReceived DEF FreeSlots, NoHandle, Handle, Iterators
<1>. HIDE DEF s, h
<1>5. CASE i = j
  BY <1>1, <1>2, <1>3, <1>4, <1>5
     DEF IteratorStep, GoesOnWith, Slides, IsIterator, Gets, Slot, s
<1>6. CASE i # j
  BY <1>2, <1>4, <1>6 DEF IteratorStep, GoesOnWith, Slides, IsIterator, Gets, Slot
<1>. QED
  BY <1>5, <1>6

LEMMA SlotYields ==
  ASSUME IInv, NEW t \in Threads, IterYield(t), NEW i \in Slots
  PROVE  IteratorStep(t, i) /\ call'[t] = Idle /\ held'[t] # held[t]
<1>. DEFINE j == call[t].slot
            f == FreeSlot(t)
<1>1. call[t].op = "next" /\ Yield(t, j) /\ Finish(t) /\ UNCHANGED shards
  BY DEF IterYield, In, Slot
<1>2. /\ j \in Slots /\ f \in Slots /\ f # j /\ held[t][f] = NoHandle
      /\ held[t][j].kind \in Iterators
  BY <1>1, Iterating, FreeSlotIsFree DEF Iterators, IteratorKinds, NoHandle, Handle
<1>3. PICK k \in held[t][j].keys :
        held' = [held EXCEPT
          ![t][j].keys = @ \ {k},
          ![t][f] = Handle(IF held[t][j].kind = "Iter" THEN "RefMulti" ELSE "RefMutMulti",
                           held[t][j].shard, {k})]
  BY <1>1 DEF Yield
<1>. DEFINE g == Handle(IF held[t][j].kind = "Iter" THEN "RefMulti" ELSE "RefMutMulti",
                        held[t][j].shard, {k})
<1>4. g.kind \notin Iterators /\ g.keys = {k}
  BY DEF Handle, Iterators
<1>5. held[t][j] \in Handles
  BY <1>2 DEF IInv, TableInv, TableTypeOK
<1>6. /\ held'[t][f] = g
      /\ held'[t][j] = [held[t][j] EXCEPT !.keys = @ \ {k}]
      /\ \A l \in Slots \ {j, f} : held'[t][l] = held[t][l]
  BY <1>2, <1>3 DEF IInv, TableInv, TableTypeOK
<1>7. /\ held'[t][j].keys = held[t][j].keys \ {k} /\ held'[t][j].shard = held[t][j].shard
      /\ held'[t][j].kind = held[t][j].kind
  BY <1>5, <1>6 DEF Handles
<1>. HIDE DEF j, f, g
<1>8. Received(t) = {k}
  <2>1. f \in FreeSlots(t) /\ FreeSlots(t) \subseteq Slots
    BY <1>2 DEF FreeSlots
  <2>2. \A l \in FreeSlots(t) \ {f} : held'[t][l].keys = {}
    BY <1>2, <1>6 DEF FreeSlots, NoHandle, Handle, Iterators
  <2>3. held'[t][f].keys = {k}
    BY <1>4, <1>6
  <2>. QED
    BY <2>1, <2>2, <2>3 DEF Received
<1>9. call'[t] = Idle
  BY <1>1 DEF Finish, Continue, IInv, RestTypeOK
<1>10. held'[t] # held[t]
  BY <1>2, <1>4, <1>6 DEF NoHandle, Handle
<1>11. IteratorStep(t, i)
  <2>1. CASE i = j
    <3>1. Gets(t, i) = {k} /\ ~AltersAll(call[t])
      BY <1>1, <1>8, <2>1 DEF Gets, In, Slot, AltersAll, j
    <3>. QED
      BY <1>1, <1>2, <1>7, <2>1, <3>1 DEF IteratorStep, GoesOnWith, Slides, IsIterator
  <2>2. CASE i = f
    BY <1>4, <1>6, <2>2 DEF IteratorStep
  <2>3. CASE i # j /\ i # f
    <3>1. Gets(t, i) = {} /\ ~AltersAll(call[t]) /\ held'[t][i] = held[t][i]
      BY <1>1, <1>6, <2>3 DEF Gets, In, Slot, AltersAll, j
    <3>. QED
      BY <3>1 DEF IteratorStep, GoesOnWith, Slides, IsIterator
  <2>. QED
    BY <2>1, <2>2, <2>3
<1>. QED
  BY <1>9, <1>10, <1>11

\* alter_all has altered the value of a key, which its iterator has done with.
LEMMA SlotAlters ==
  ASSUME IInv, NEW t \in Threads, AlterPut(t), In(t, "alter_all_closure"), NEW i \in Slots
  PROVE  IteratorStep(t, i)
<1>. DEFINE j == call[t].slot
            c == [call[t] EXCEPT !.op = "alter_all", !.key = None]
<1>1. /\ held' = [held EXCEPT ![t][j].keys = @ \ {Key(t)}]
      /\ call' = [call EXCEPT ![t] = c]
  BY DEF AlterPut, In, Continue, Slot
<1>2. j \in Slots /\ held[t][j].kind \in Iterators
  BY AlteringAll DEF In, Iterators
<1>3. held[t][j] \in Handles
  BY <1>2 DEF IInv, TableInv, TableTypeOK
<1>4. /\ held'[t][j].keys \subseteq held[t][j].keys /\ held'[t][j].shard = held[t][j].shard
      /\ \A l \in Slots \ {j} : held'[t][l] = held[t][l]
  BY <1>1, <1>2, <1>3 DEF IInv, TableInv, TableTypeOK, Handles
<1>5. call'[t].op = "alter_all" /\ call'[t].slot = j
  BY <1>1, CallFields DEF IInv, RestTypeOK, CallRecords
<1>6. Gets(t, i) = {}
  BY DEF Gets, In
<1>. HIDE DEF j, c
<1>. QED
  BY <1>2, <1>4, <1>5, <1>6
     DEF IteratorStep, GoesOnWith, Slides, IsIterator, AltersAll, Slot, j

LEMMA SlotsOfLookup ==
  ASSUME IInv, NEW t \in Threads, ~In(t, "next"), ~AltersAll(call[t]),
         NEW j \in Slots, NEW k,
         Find(t, k, j) \/ FindMut(t, k, j) \/ Entry(t, k, j) \/ FindEntry(t, k, j),
         NEW i \in Slots
  PROVE  IteratorStep(t, i)
<1>1. \/ UNCHANGED held
      \/ \E kind \in {"Ref", "RefMut"} \cup EntryKinds :
           PutHandle(t, j, Handle(kind, ShardOf[k], {k}))
  BY DEF Find, FindMut, Entry, FindEntry, TryMap, EntryKinds
<1>2. CASE UNCHANGED held
  BY <1>2, SlotsStay DEF KeepsAltering
<1>3. ASSUME NEW kind \in {"Ref", "RefMut"} \cup EntryKinds,
             PutHandle(t, j, Handle(kind, ShardOf[k], {k}))
      PROVE  IteratorStep(t, i)
  <2>1. Handle(kind, ShardOf[k], {k}).kind \notin Iterators
    BY DEF Handle, EntryKinds, Iterators
  <2>. QED
    BY <1>3, <2>1, SlotGiven DEF KeepsAltering
<1>. QED
  BY <1>1, <1>2, <1>3

LEMMA SlotDropped ==
  ASSUME IInv, NEW t \in Threads, NEW j \in Slots, DropHandle(t, j), ~In(t, "next"),
         ~AltersAll(call[t]) \/ j = Slot(t), NEW i \in Slots
  PROVE  IteratorStep(t, i)
<1>1. NoHandle.kind \notin Iterators
  BY DEF NoHandle, Handle, Iterators
<1>. QED
  BY <1>1, SlotGiven DEF DropHandle, KeepsAltering

LEMMA IsIdle ==
  ASSUME NEW t, call[t] = Idle
  PROVE  ~In(t, "next") /\ ~AltersAll(call[t]) /\ ~GoesOver(t)
BY DEF In, Idle, Call, AltersAll, GoesOver, Traversals, ReadTraversals, Serializing

LEMMA SlotsOfUse ==
  ASSUME IInv, NEW t \in Threads, call[t] = Idle, NEW j \in Slots, Use(t, j), NEW i \in Slots
  PROVE  IteratorStep(t, i)
<1>1. CASE UNCHANGED held
  BY <1>1, IsIdle, SlotsStay DEF KeepsAltering
<1>2. CASE DropHandle(t, j)
  BY <1>2, IsIdle, SlotDropped
<1>3. ASSUME NEW kind \in {"Ref", "RefMut", "Occupied"},
             PutHandle(t, j, [held[t][j] EXCEPT !.kind = kind])
      PROVE  IteratorStep(t, i)
  <2>1. [held[t][j] EXCEPT !.kind = kind].kind = kind
    BY OtherKind DEF IInv, SharedKinds, ExclusiveKinds, EntryKinds
  <2>2. kind \notin Iterators
    BY DEF Iterators
  <2>. QED
    BY <1>3, <2>1, <2>2, IsIdle, SlotGiven DEF KeepsAltering
<1>4. CASE CloneHandle(t, j)
  <2>1. /\ FreeSlot(t) \in Slots /\ held[t][FreeSlot(t)] = NoHandle
        /\ PutHandle(t, FreeSlot(t), held[t][j]) /\ UNCHANGED shards
    BY <1>4, FreeSlotIsFree DEF CloneHandle
  <2>2. CASE held[t][j].kind \in Iterators
    BY <2>1, <2>2, SlotBegins DEF IsIterator
  <2>3. CASE held[t][j].kind \notin Iterators
    BY <2>1, <2>3, IsIdle, SlotGiven DEF KeepsAltering
  <2>. QED
    BY <2>2, <2>3
<1>. QED
  BY <1>1, <1>2, <1>3, <1>4
     DEF Use, AndModify, WriteThrough, OccupiedReplace, Ends, IntoKey, OrInsert,
         OccupiedIntoMut, VacantInsert, OccupiedInsert, EntryInsert, EntryInsertEntry,
         OccupiedOps, OccupiedRemove, MapRef, MapRefMut, ValueMut, MultiValueMut,
         DowngradeRef, Downgrade, CloneMulti, CloneIter

\* The steps of an idle thread.
LEMMA SlotsOfIdle ==
  ASSUME IInv, NEW t \in Threads,
         \/ BeginKeyOp(t) \/ BeginOperator(t) \/ BeginTraversal(t) \/ TryCall(t) \/ AlterAll(t)
         \/ NewIter(t) \/ BeginNext(t) \/ UseHandle(t) \/ Drop(t),
         NEW i \in Slots
  PROVE  IteratorStep(t, i) /\ call[t] = Idle
<1>1. call[t] = Idle
  BY DEF BeginKeyOp, BeginOperator, BeginTraversal, TryCall, AlterAll, NewIter, BeginNext,
         UseHandle, Drop, Begin, BeginAs
<1>2. CASE UNCHANGED held
  BY <1>1, <1>2, IsIdle, SlotsStay DEF KeepsAltering
<1>3. CASE TryCall(t)
  <2>1. PICK k \in Keys : TryGet(t, k) \/ TryGetMut(t, k) \/ TryGetEntry(t, k)
    BY <1>3 DEF TryCall
  <2>2. \/ UNCHANGED held
        \/ Find(t, k, FreeSlot(t)) \/ FindMut(t, k, FreeSlot(t)) \/ Entry(t, k, FreeSlot(t))
    BY <2>1 DEF TryGet, TryGetMut, TryGetEntry, TryFind, TryFindMut, TryEntry,
                LockedToReaders, LockedToWriters
  <2>3. FreeSlot(t) \in Slots
    BY <1>3, FreeSlotIsFree DEF TryCall
  <2>. QED
    BY <1>1, <1>2, <2>2, <2>3, IsIdle, SlotsOfLookup
<1>4. CASE AlterAll(t) \/ NewIter(t)
  <2>1. PICK kind : PutHandle(t, FreeSlot(t), Handle(kind, -1, {}))
    BY <1>4 DEF AlterAll, NewIter, NewIterator
  <2>2. FreeSlot(t) \in Slots /\ held[t][FreeSlot(t)] = NoHandle
    BY <1>4, FreeSlotIsFree DEF AlterAll, NewIter
  <2>3. Handle(kind, -1, {}).shard = -1 /\ Handle(kind, -1, {}).keys = {}
    BY DEF Handle
  <2>. QED
    BY <1>1, <2>1, <2>2, <2>3, SlotBegins
<1>5. CASE UseHandle(t)
  BY <1>1, <1>5, SlotsOfUse DEF UseHandle
<1>6. CASE Drop(t)
  BY <1>1, <1>6, IsIdle, SlotDropped DEF Drop
<1>. QED
  BY <1>1, <1>2, <1>3, <1>4, <1>5, <1>6
     DEF BeginKeyOp, BeginOperator, BeginTraversal, BeginNext, Begin, BeginAs

\* The calls on one key.
LEMMA SlotsOfKeyOps ==
  ASSUME IInv, NEW t \in Threads,
         \/ Get(t) \/ GetMut(t) \/ GetEntry(t) \/ ContainsKey(t) \/ View(t) \/ InsertLookup(t)
         \/ RemoveLookup(t) \/ AlterLookup(t),
         NEW i \in Slots
  PROVE  IteratorStep(t, i)
<1>1. call[t].op \in KeyOps
  BY DEF Get, GetMut, GetEntry, ContainsKey, View, InsertLookup, RemoveLookup, AlterLookup, In,
         KeyOps
<1>2. call[t].slot \in Slots
  BY <1>1, FirstStage
<1>3. ~In(t, "next") /\ ~AltersAll(call[t])
  BY <1>1 DEF In, AltersAll, KeyOps
<1>4. \/ UNCHANGED held
      \/ \E k : \/ Find(t, k, call[t].slot) \/ FindMut(t, k, call[t].slot)
                \/ Entry(t, k, call[t].slot) \/ FindEntry(t, k, call[t].slot)
  BY DEF Get, GetMut, GetEntry, ContainsKey, View, InsertLookup, RemoveLookup, AlterLookup, Slot
<1>. QED
  BY <1>2, <1>3, <1>4, SlotsStay, SlotsOfLookup DEF KeepsAltering

LEMMA SlotsOfEnds ==
  ASSUME IInv, NEW t \in Threads,
         \/ ViewClosure(t) \/ Insert(t) \/ Remove(t) \/ RemoveIf(t) \/ RemoveIfMut(t)
         \/ ClosurePanics(t) \/ (AlterPut(t) /\ In(t, "alter_closure")) \/ AlterAllEnds(t),
         NEW i \in Slots
  PROVE  IteratorStep(t, i)
<1>1. DropHandle(t, Slot(t)) /\ ~In(t, "next")
  BY DEF ViewClosure, Insert, Remove, RemoveIf, RemoveIfMut, ClosurePanics, AlterPut,
         AlterAllEnds, In, OccupiedRemove, OccupiedReplace
<1>2. Slot(t) \in Slots
  <2>1. CallFits(call[t], held[t])
    BY DEF IInv, CallsFit
  <2>2. call[t].op \in {"view_closure", "inserting", "removing", "remove_if_closure",
                        "remove_if_mut_closure", "alter_closure", "alter_all"}
    BY DEF ViewClosure, Insert, Remove, RemoveIf, RemoveIfMut, ClosurePanics, AlterAllEnds, In
  <2>. QED
    BY <2>1, <2>2 DEF CallFits, HasOne, Slot
<1>. QED
  BY <1>1, <1>2, SlotDropped

\* What the table keeps locked does not change.
LEMMA SlotsOfTraversals ==
  ASSUME IInv, NEW t \in Threads,
         \/ AlterTake(t) \/ AlterPanics(t) \/ IterEnd(t)
         \/ LenIn(t) \/ FoldIn(t) \/ Announce(t) \/ SerializeEntries(t) \/ Retain(t) \/ Clear(t)
         \/ ShrinkToFit(t) \/ Return(t),
         NEW i \in Slots
  PROVE  IteratorStep(t, i)
<1>1. held' = held
  BY DEF AlterTake, AlterPanics, IterEnd, LenIn, FoldIn, Announce, SerializeEntries, Retain,
         Clear, ShrinkToFit, Return
<1>2. KeepsAltering(t)
  <2>1. CASE AlterTake(t)
    <3>1. PICK k : Continue(t, [call[t] EXCEPT
            !.op = IF In(t, "altering") THEN "alter_closure" ELSE "alter_all_closure", !.key = k])
      BY <2>1 DEF AlterTake
    <3>2. call[t] \in CallRecords
      BY CallFields DEF IInv
    <3>3. call'[t].op = (IF In(t, "altering") THEN "alter_closure" ELSE "alter_all_closure")
          /\ call'[t].slot = call[t].slot
      BY <3>1, <3>2 DEF Continue, IInv, RestTypeOK, CallRecords
    <3>. QED
      BY <3>3 DEF KeepsAltering, AltersAll, In
  <2>2. CASE AlterPanics(t)
    BY <2>2 DEF AlterPanics, KeepsAltering
  <2>3. CASE ~AlterTake(t) /\ ~AlterPanics(t)
    BY <2>3 DEF IterEnd, LenIn, FoldIn, Announce, SerializeEntries, Retain, Clear, ShrinkToFit,
                Return, In, KeepsAltering, AltersAll
  <2>. QED
    BY <2>1, <2>2, <2>3
<1>. QED
  BY <1>1, <1>2, SlotsStay

LEMMA IteratorSteps ==
  ASSUME IInv, NEW t \in Threads, Step(t), NEW i \in Slots
  PROVE  IteratorStep(t, i)
<1>1. CASE AlterPut(t)
  BY <1>1, SlotsOfEnds, SlotAlters DEF AlterPut, In
<1>2. CASE AlterAllNextShard(t)
  BY <1>2, AlteringAll, SlotMoves DEF AlterAllNextShard, In, Slot, Iterators
<1>3. CASE IterNextShard(t)
  BY <1>3, Iterating, SlotMoves DEF IterNextShard, In, Slot, Iterators, IteratorKinds
<1>. QED
  BY <1>1, <1>2, <1>3, SlotYields, SlotsOfIdle, SlotsOfKeyOps, SlotsOfEnds, SlotsOfTraversals
     DEF Step, Proceed

-----------------------------------------------------------------------------
(* How the traversals go on *)

OverOps == Traversals \cup Serializing

LEMMA NotOver ==
  ASSUME IInv, NEW t \in Threads,
         \/ Finish(t) \/ \E r : FinishWith(t, r)
         \/ \E op \in Closures \cup {"return"} : Become(t, op)
         \/ \E op \in KeyOps \cup {"next", "alter_all"} : \E k, i : Continue(t, Call(op, k, i))
  PROVE  call'[t].op \notin OverOps
<1>. USE DEF OverOps, Traversals, ReadTraversals, Serializing
<1>1. ASSUME NEW c, Continue(t, c)  PROVE call'[t] = c
  BY <1>1 DEF Continue, IInv, RestTypeOK
<1>2. CASE Finish(t)
  BY <1>1, <1>2 DEF Finish, Idle, Call
<1>3. ASSUME NEW r, FinishWith(t, r)  PROVE call'[t].op \notin OverOps
  BY <1>1, <1>3 DEF FinishWith, Idle, Call
<1>4. ASSUME NEW op \in Closures \cup {"return"}, Become(t, op)
      PROVE  call'[t].op \notin OverOps
  <2>1. call[t] \in CallRecords
    BY CallFields DEF IInv
  <2>2. call'[t] = [call[t] EXCEPT !.op = op]
    BY <1>1, <1>4 DEF Become
  <2>3. call'[t].op = op
    BY <2>1, <2>2 DEF CallRecords
  <2>. QED
    BY <2>3 DEF Closures
<1>5. ASSUME NEW op \in KeyOps \cup {"next", "alter_all"}, NEW k, NEW i, Continue(t, Call(op, k, i))
      PROVE  call'[t].op \notin OverOps
  BY <1>1, <1>5 DEF Call, KeyOps
<1>. QED
  BY <1>2, <1>3, <1>4, <1>5

Sweep(t) ==
  \/ LenIn(t) \/ FoldIn(t) \/ Announce(t) \/ SerializeEntries(t) \/ Retain(t) \/ Clear(t)
  \/ ShrinkToFit(t)

\* A call that goes over the map begins as one, and goes on by doing a shard.
LEMMA OverSteps ==
  ASSUME IInv, NEW t \in Threads, Step(t), GoesOver(t)'
  PROVE  BeginTraversal(t) \/ (Sweep(t) /\ GoesOver(t))
<1>. USE DEF OverOps
<1>1. ASSUME UNCHANGED call, call[t].op \notin OverOps  PROVE FALSE
  BY <1>1 DEF GoesOver
<1>2. Idle.op \notin OverOps
  BY DEF Idle, Call, Traversals, ReadTraversals, Serializing
<1>3. CASE BeginKeyOp(t) \/ BeginOperator(t)
  <2>1. PICK op \in KeyOps : \E k, i : Continue(t, Call(op, k, i))
    BY <1>3 DEF BeginKeyOp, BeginOperator, OperatorCall, Begin, BeginAs, KeyOps
  <2>. QED
    BY <2>1, NotOver DEF GoesOver
<1>4. CASE TryCall(t) \/ NewIter(t) \/ UseHandle(t) \/ Drop(t)
  BY <1>1, <1>2, <1>4 DEF TryCall, NewIter, UseHandle, Drop
<1>5. CASE AlterAll(t) \/ BeginNext(t)
  BY <1>5, NotOver DEF AlterAll, BeginNext, GoesOver
<1>6. CASE Get(t) \/ GetMut(t) \/ GetEntry(t) \/ ContainsKey(t) \/ View(t) \/ InsertLookup(t)
  BY <1>6, NotOver DEF Get, GetMut, GetEntry, ContainsKey, View, InsertLookup, Closures, GoesOver
<1>7. CASE RemoveLookup(t)
  <2>1. FinishWith(t, None) \/ \E op \in Closures : Become(t, op)
    BY <1>7 DEF RemoveLookup, In, Closures
  <2>. QED
    BY <2>1, NotOver DEF GoesOver
<1>8. CASE AlterLookup(t)
  BY <1>8, NotOver DEF AlterLookup, Closures, GoesOver
<1>9. CASE ViewClosure(t) \/ ClosurePanics(t) \/ Insert(t) \/ Remove(t) \/ RemoveIf(t)
           \/ RemoveIfMut(t) \/ AlterAllEnds(t) \/ IterYield(t) \/ IterEnd(t) \/ Return(t)
  BY <1>9, NotOver DEF ViewClosure, ClosurePanics, Insert, Remove, RemoveIf, RemoveIfMut,
     AlterAllEnds, IterYield, IterEnd, Return, GoesOver
<1>10. CASE AlterPanics(t) \/ AlterAllNextShard(t) \/ IterNextShard(t)
  BY <1>1, <1>10 DEF AlterPanics, AlterAllNextShard, IterNextShard, In, Traversals, ReadTraversals,
                     Serializing
<1>11. CASE AlterTake(t) \/ AlterPut(t)
  <2>1. Finish(t) \/ \E op \in Closures \cup {"alter_all"} : \E k :
          Continue(t, [call[t] EXCEPT !.op = op, !.key = k])
    <3>1. CASE AlterTake(t)
      BY <3>1 DEF AlterTake, In, Closures
    <3>2. CASE AlterPut(t)
      BY <3>2 DEF AlterPut, In
    <3>. QED
      BY <1>11, <3>1, <3>2
  <2>2. ASSUME NEW op \in Closures \cup {"alter_all"}, NEW k,
               Continue(t, [call[t] EXCEPT !.op = op, !.key = k])
        PROVE  call'[t].op = op
    BY <2>2, CallFields DEF Continue, IInv, RestTypeOK, CallRecords
  <2>3. \A op \in Closures \cup {"alter_all"} : op \notin OverOps
    BY DEF Closures, Traversals, ReadTraversals, Serializing
  <2>. QED
    BY <2>1, <2>2, <2>3, NotOver DEF GoesOver
<1>12. CASE Sweep(t)
  BY <1>12 DEF Sweep, LenIn, FoldIn, Announce, SerializeEntries, Retain, Clear, ShrinkToFit, In,
               GoesOver, Traversals, ReadTraversals, Serializing
<1>. QED
  BY <1>3, <1>4, <1>5, <1>6, <1>7, <1>8, <1>9, <1>10, <1>11, <1>12
     DEF Step, Proceed, Sweep

LEMMA BeginOver ==
  ASSUME IInv, NEW t \in Threads, BeginTraversal(t)
  PROVE  /\ \E op \in Traversals : call'[t] = Call(op, None, FreeSlot(t))
         /\ FreeSlot(t) \in Slots /\ held[t][FreeSlot(t)] = NoHandle
         /\ call[t] = Idle /\ UNCHANGED <<shards, held>>
<1>1. PICK op \in Traversals : BeginAs(t, op, None)
  BY DEF BeginTraversal, Begin
<1>2. call'[t] = Call(op, None, FreeSlot(t))
  BY <1>1 DEF BeginAs, Continue, IInv, RestTypeOK
<1>. QED
  BY <1>1, <1>2, FreeSlotIsFree DEF BeginAs

\* The records of a call that has done the shard that it is at.
LEMMA CountedFields ==
  ASSUME IInv, NEW t \in Threads
  PROVE  /\ Counted(t).count = call[t].count + Cardinality(Present(call[t].shard))
         /\ Counted(t).slot = call[t].slot
         /\ Copied(Counted(t)) = Copied(call[t])
BY CallFields DEF Counted, CallRecords, IInv, AtShard, Copied

LEMMA GatheredFields ==
  ASSUME IInv, NEW t \in Threads
  PROVE  /\ Gathered(t).count = call[t].count /\ Gathered(t).slot = call[t].slot
         /\ Copied(Gathered(t)) = Copied(call[t]) \cup Present(call[t].shard)
<1>1. Gathered(t).count = call[t].count /\ Gathered(t).slot = call[t].slot
  BY CallFields DEF Gathered, CallRecords, IInv
<1>2. \A k \in Keys : Gathered(t).gathered[k] # None
        <=> k \in Present(call[t].shard) \/ call[t].gathered[k] # None
  BY GatheredRecord DEF AtShard, Present
<1>. QED
  BY <1>1, <1>2 DEF Copied, Present

LEMMA NextOrReturnTo ==
  ASSUME IInv, NEW t \in Threads, NEW c \in CallRecords, NextOrReturn(t, c)
  PROVE  /\ call'[t].count = c.count /\ Copied(call'[t]) = Copied(c)
         /\ \/ call[t].shard = ShardCount - 1 /\ call'[t].op = "return"
            \/ /\ call[t].shard # ShardCount - 1 /\ call'[t].op = c.op
               /\ call'[t].shard = c.shard + 1 /\ call'[t].slot = c.slot
<1>1. \A d : Continue(t, d) => call'[t] = d
  BY DEF Continue, IInv, RestTypeOK
<1>2. CASE call[t].shard = ShardCount - 1
  <2>1. call'[t] = [c EXCEPT !.op = "return", !.shard = 0, !.slot = 0]
    BY <1>1, <1>2 DEF NextOrReturn, AtShard
  <2>. QED
    BY <1>2, <2>1 DEF CallRecords, Copied
<1>3. CASE call[t].shard # ShardCount - 1
  <2>1. call'[t] = [c EXCEPT !.shard = @ + 1]
    BY <1>1, <1>3 DEF NextOrReturn, AtShard
  <2>. QED
    BY <1>3, <2>1 DEF CallRecords, Copied
<1>. QED
  BY <1>2, <1>3

\* A traversal has done a shard.
DoesShard(t) ==
  \/ call[t].shard = ShardCount - 1 /\ call'[t].op = "return"
  \/ /\ call[t].shard # ShardCount - 1 /\ call'[t].op = call[t].op
     /\ call'[t].shard = call[t].shard + 1 /\ call'[t].slot = call[t].slot

CountsShard(t) == call'[t].count = call[t].count + Cardinality(Present(call[t].shard))

\* What the traversals do with a shard, unless they end there.
Counts(t) == call[t].op = "len" /\ UNCHANGED shards /\ DoesShard(t) /\ CountsShard(t)
Announces(t) ==
  /\ call[t].op = "serialize" /\ UNCHANGED shards /\ CountsShard(t)
  /\ Copied(call'[t]) = Copied(call[t]) /\ call'[t].slot = call[t].slot
  /\ \/ /\ call[t].shard # ShardCount - 1
        /\ call'[t].op = "serialize" /\ call'[t].shard = call[t].shard + 1
     \/ /\ call[t].shard = ShardCount - 1
        /\ call'[t].op = "serialize_entries" /\ call'[t].shard = 0
Folds(t) ==
  /\ call[t].op \in {"fold", "serialize_entries"} /\ UNCHANGED shards /\ DoesShard(t)
  /\ call'[t].count = call[t].count
  /\ Copied(call'[t]) = Copied(call[t]) \cup Present(call[t].shard)
Clears(t) == call[t].op = "clear" /\ ClearIn(call[t].shard) /\ DoesShard(t)
Sweeps(t) == call[t].op \in {"retain", "shrink_to_fit"} /\ DoesShard(t)

LEMMA SweepShape ==
  ASSUME IInv, NEW t \in Threads, Sweep(t)
  PROVE  /\ GoesOver(t) /\ call[t].shard \in Shards /\ UNCHANGED held
         /\ \/ Counts(t) \/ Announces(t) \/ Folds(t) \/ Clears(t) \/ Sweeps(t)
            \/ call'[t] = Idle
<1>. USE DEF AtShard, In
<1>1. GoesOver(t) /\ call[t].shard \in Shards /\ UNCHANGED held
  BY CallFields DEF Sweep, LenIn, FoldIn, Announce, SerializeEntries, Retain, Clear, ShrinkToFit,
     GoesOver, Traversals, ReadTraversals, Serializing, IInv
<1>2. \A d : Continue(t, d) => call'[t] = d
  BY DEF Continue, IInv, RestTypeOK
<1>3. Finish(t) => call'[t] = Idle
  BY <1>2 DEF Finish
<1>4. /\ Counted(t) \in CallRecords /\ Gathered(t) \in CallRecords /\ call[t] \in CallRecords
      /\ Counted(t).op = call[t].op /\ Gathered(t).op = call[t].op
      /\ Counted(t).shard = call[t].shard /\ Gathered(t).shard = call[t].shard
  BY CountedRecord, GatheredRecord, CallFields DEF IInv
<1>. DEFINE Goes(c) ==
       /\ call'[t].count = c.count /\ Copied(call'[t]) = Copied(c)
       /\ \/ call[t].shard = ShardCount - 1 /\ call'[t].op = "return"
          \/ /\ call[t].shard # ShardCount - 1 /\ call'[t].op = c.op
             /\ call'[t].shard = c.shard + 1 /\ call'[t].slot = c.slot
<1>5. \A c \in CallRecords : NextOrReturn(t, c) => Goes(c)
  BY NextOrReturnTo
<1>6. CASE LenIn(t)
  <2>1. NextOrReturn(t, Counted(t)) /\ call[t].op = "len" /\ UNCHANGED shards
    BY <1>6 DEF LenIn
  <2>2. Goes(Counted(t))
    BY <1>4, <1>5, <2>1
  <2>3. Counts(t)
    BY <1>4, <2>1, <2>2, CountedFields DEF Counts, CountsShard, DoesShard
  <2>. QED
    BY <1>1, <2>3
<1>7. CASE FoldIn(t) \/ SerializeEntries(t)
  <2>1. /\ NextOrReturn(t, Gathered(t)) \/ Finish(t)
        /\ call[t].op \in {"fold", "serialize_entries"} /\ UNCHANGED shards
    BY <1>7 DEF FoldIn, SerializeEntries
  <2>2. CASE NextOrReturn(t, Gathered(t))
    <3>1. Goes(Gathered(t))
      BY <1>4, <1>5, <2>2
    <3>2. Folds(t)
      BY <1>4, <2>1, <3>1, GatheredFields DEF Folds, DoesShard
    <3>. QED
      BY <1>1, <3>2
  <2>. QED
    BY <1>1, <1>3, <2>1, <2>2
<1>8. CASE Announce(t)
  <2>1. CASE Finish(t)
    BY <1>1, <1>3, <2>1
  <2>2. CASE /\ call[t].shard # ShardCount - 1
             /\ Continue(t, [Counted(t) EXCEPT !.shard = @ + 1])
    <3>1. call'[t] = [Counted(t) EXCEPT !.shard = @ + 1]
      BY <1>2, <2>2
    <3>2. /\ call'[t].op = Counted(t).op /\ call'[t].shard = Counted(t).shard + 1
          /\ call'[t].slot = Counted(t).slot /\ call'[t].count = Counted(t).count
          /\ Copied(call'[t]) = Copied(Counted(t))
      BY <1>4, <3>1 DEF CallRecords, Copied
    <3>3. Announces(t)
      BY <1>4, <1>8, <2>2, <3>2, CountedFields DEF Announce, Announces, CountsShard
    <3>. QED
      BY <1>1, <3>3
  <2>3. CASE /\ call[t].shard = ShardCount - 1
             /\ Continue(t, [Counted(t) EXCEPT !.op = "serialize_entries", !.shard = 0])
    <3>1. call'[t] = [Counted(t) EXCEPT !.op = "serialize_entries", !.shard = 0]
      BY <1>2, <2>3
    <3>2. /\ call'[t].op = "serialize_entries" /\ call'[t].shard = 0
          /\ call'[t].slot = Counted(t).slot /\ call'[t].count = Counted(t).count
          /\ Copied(call'[t]) = Copied(Counted(t))
      BY <1>4, <3>1 DEF CallRecords, Copied
    <3>3. Announces(t)
      BY <1>4, <1>8, <2>3, <3>2, CountedFields DEF Announce, Announces, CountsShard
    <3>. QED
      BY <1>1, <3>3
  <2>. QED
    BY <1>8, <2>1, <2>2, <2>3 DEF Announce
<1>9. CASE Clear(t) \/ Retain(t) \/ ShrinkToFit(t)
  <2>1. /\ NextOrReturn(t, call[t]) \/ Finish(t)
        /\ call[t].op = "clear" => ClearIn(call[t].shard) /\ NextOrReturn(t, call[t])
        /\ call[t].op \in {"clear", "retain", "shrink_to_fit"}
    BY <1>9 DEF Clear, Retain, ShrinkToFit
  <2>2. NextOrReturn(t, call[t]) => DoesShard(t)
    BY <1>4, <1>5 DEF DoesShard
  <2>3. Clears(t) \/ Sweeps(t) \/ call'[t] = Idle
    BY <1>3, <2>1, <2>2 DEF Clears, Sweeps
  <2>. QED
    BY <1>1, <2>3
<1>. QED
  BY <1>6, <1>7, <1>8, <1>9 DEF Sweep

\* The slot of a call that goes over the map stays the same.
LEMMA SweepSlot ==
  ASSUME IInv, NEW t \in Threads, Sweep(t), call'[t].op \in OverOps
  PROVE  call'[t].slot = call[t].slot
<1>1. Idle.op \notin OverOps /\ "return" \notin OverOps
  BY DEF Idle, Call, OverOps, Traversals, ReadTraversals, Serializing
<1>. QED
  BY <1>1, SweepShape DEF Counts, Announces, Folds, Clears, Sweeps, DoesShard

-----------------------------------------------------------------------------
(* What a step does to the slots of every thread *)

OverGoesOn(t) ==
  /\ GoesOver(t) /\ call'[t].slot = call[t].slot
  /\ call'[t] = call[t] \/ Sweep(t)

OverBegins(t) ==
  /\ ~InUse(t, call'[t].slot) /\ call'[t].slot \in Slots
  /\ held'[t][call'[t].slot].shard = -1
  /\ \E op \in Traversals, i \in Slots : call'[t] = Call(op, None, i)

ThreadStep(t) ==
  /\ \A i \in Slots : IteratorStep(t, i)
  /\ GoesOver(t)' => OverGoesOn(t) \/ OverBegins(t)

LEMMA ThreadSteps ==
  ASSUME IInv, NEW t \in Threads, Step(t)
  PROVE  ThreadStep(t)
<1>1. SUFFICES ASSUME GoesOver(t)'  PROVE OverGoesOn(t) \/ OverBegins(t)
  BY IteratorSteps DEF ThreadStep
<1>2. CASE Sweep(t)
  BY <1>1, <1>2, SweepSlot, SweepShape DEF OverGoesOn, GoesOver, OverOps
<1>3. CASE BeginTraversal(t)
  <2>1. /\ FreeSlot(t) \in Slots /\ held[t][FreeSlot(t)] = NoHandle /\ ~InUse(t, FreeSlot(t))
        /\ UNCHANGED held
    BY <1>3, BeginOver, IdleUses
  <2>2. PICK op \in Traversals : call'[t] = Call(op, None, FreeSlot(t))
    BY <1>3, BeginOver
  <2>3. call'[t].slot = FreeSlot(t)
    BY <2>2 DEF Call
  <2>. QED
    BY <2>1, <2>2, <2>3 DEF OverBegins, NoHandle, Handle
<1>. QED
  BY <1>1, <1>2, <1>3, OverSteps

LEMMA OthersStay ==
  ASSUME NEW t \in Threads, held'[t] = held[t], call'[t] = call[t]
  PROVE  ThreadStep(t)
<1>1. \A i \in Slots : IteratorStep(t, i)
  BY SlotsStay DEF KeepsAltering
<1>. QED
  BY <1>1 DEF ThreadStep, OverGoesOn, GoesOver

-----------------------------------------------------------------------------
(* The histories *)

HistoryStep == hist' = [t \in Threads |-> [i \in Slots |-> HistoryOf(t, i)]]

\* The keys that stayed become fewer, those that came more.
Narrows(y, y1) ==
  /\ y1.always = y.always \cap AllPresent' /\ y1.ever = y.ever \cup AllPresent'

\* A history is gone, goes on, is that of the iterator cloned, or begins.
LEMMA HistoryCases ==
  ASSUME IInv', HInv, HistoryStep, NEW t \in Threads, ThreadStep(t), NEW i \in Slots
  PROVE  /\ hist'[t][i] \in Histories
         /\ InUse(t, i) /\ InUse(t, i)' =>
              /\ Narrows(hist[t][i], hist'[t][i])
              /\ hist'[t][i].yielded = hist[t][i].yielded \cup Gets(t, i)
         /\ ~InUse(t, i) /\ InUse(t, i)' =>
              \/ /\ held'[t][i].shard = -1 /\ hist'[t][i].yielded = {}
                 /\ hist'[t][i].always = AllPresent' /\ hist'[t][i].ever = AllPresent'
              \/ /\ ClonesTo(t, i)
                 /\ \E j \in Slots : /\ IsIterator(t, j) /\ held[t][j] = held'[t][i]
                                     /\ hist'[t][i] = hist[t][j]
<1>1. hist'[t][i] = HistoryOf(t, i) /\ hist[t][i] \in Histories
  BY DEF HistoryStep, HInv, HistoryTypeOK
<1>2. Blank \in Histories /\ Blank.yielded = {}
  BY DEF Blank, Histories
<1>3. AllPresent' \in SUBSET Keys /\ Size' \in Nat
  BY SizeIsNumber DEF AllPresent, Present
<1>4. Received(t) \in SUBSET Keys
  <2>1. \A j \in Slots : held'[t][j] \in Handles
    BY DEF IInv, TableInv, TableTypeOK
  <2>. QED
    BY <2>1 DEF Received, FreeSlots, Handles
<1>5. CASE ~InUse(t, i)'
  BY <1>1, <1>2, <1>5 DEF HistoryOf
<1>6. CASE InUse(t, i) /\ InUse(t, i)'
  <2>. DEFINE A == hist[t][i].always \cap AllPresent'
              E == hist[t][i].ever \cup AllPresent'
              S == hist[t][i].sizes \cup {Size'}
              Y == hist[t][i].yielded \cup
                     (IF In(t, "next") /\ Slot(t) = i THEN Received(t) ELSE {})
  <2>1. hist'[t][i] = [always |-> A, ever |-> E, sizes |-> S, yielded |-> Y]
    BY <1>1, <1>6 DEF HistoryOf
  <2>2. A \in SUBSET Keys /\ E \in SUBSET Keys /\ S \in SUBSET Nat /\ Y \in SUBSET Keys
    BY <1>1, <1>3, <1>4 DEF Histories
  <2>3. Y = hist[t][i].yielded \cup Gets(t, i)
    BY DEF Gets
  <2>. HIDE DEF Y, S
  <2>. QED
    BY <1>6, <2>1, <2>2, <2>3 DEF Histories, Narrows
<1>7. CASE ~InUse(t, i) /\ InUse(t, i)' /\ held'[t][i].shard = -1
  <2>. DEFINE A == AllPresent'
              S == {Size'}
  <2>1. hist'[t][i] = [Blank EXCEPT !.always = A, !.ever = A, !.sizes = S]
    BY <1>1, <1>7 DEF HistoryOf
  <2>2. A \in SUBSET Keys /\ S \in SUBSET Nat
    BY <1>3
  <2>. HIDE DEF A, S
  <2>3. /\ hist'[t][i] \in Histories /\ hist'[t][i].yielded = {}
        /\ hist'[t][i].always = A /\ hist'[t][i].ever = A
    BY <1>2, <2>1, <2>2 DEF Histories
  <2>. QED
    BY <1>7, <2>3 DEF A
<1>8. CASE ~InUse(t, i) /\ InUse(t, i)' /\ held'[t][i].shard # -1
  <2>1. hist'[t][i] = hist[t][Source(t, i)]
    BY <1>1, <1>8 DEF HistoryOf
  <2>2. ClonesTo(t, i)
    <3>1. CASE held'[t][i].kind \in Iterators
      BY <1>8, <3>1 DEF ThreadStep, IteratorStep, GoesOnWith, BeginsWith, InUse
    <3>2. CASE held'[t][i].kind \notin Iterators
      <4>1. GoesOver(t)' /\ call'[t].slot = i
        BY <1>8, <3>2 DEF InUse, IsIterator, Slot
      <4>. QED
        BY <1>8, <4>1 DEF ThreadStep, OverGoesOn, OverBegins, InUse, Slot
    <3>. QED
      BY <3>1, <3>2
  <2>3. \E j \in Slots : IsIterator(t, j) /\ held[t][j] = held'[t][i]
    BY <2>2 DEF ClonesTo
  <2>4. /\ Source(t, i) \in Slots /\ IsIterator(t, Source(t, i))
        /\ held[t][Source(t, i)] = held'[t][i]
    BY <2>3 DEF Source
  <2>5. hist[t][Source(t, i)] \in Histories
    BY <2>4 DEF HInv, HistoryTypeOK
  <2>. QED
    BY <1>8, <2>1, <2>2, <2>4, <2>5
<1>. QED
  BY <1>5, <1>6, <1>7, <1>8

LEMMA KeepsPresence ==
  ASSUME IInv', HInv, HistoryStep, NEW t \in Threads, ThreadStep(t), NEW i \in Slots,
         InUse(t, i)'
  PROVE  hist'[t][i].always \subseteq AllPresent' /\ AllPresent' \subseteq hist'[t][i].ever
<1>1. CASE InUse(t, i)
  BY <1>1, HistoryCases DEF Narrows
<1>2. CASE ~InUse(t, i) /\ ClonesTo(t, i)
  <2>1. AllPresent' = AllPresent
    BY <1>2, SamePresent DEF ClonesTo
  <2>2. \A j \in Slots : IsIterator(t, j) =>
          hist[t][j].always \subseteq AllPresent /\ AllPresent \subseteq hist[t][j].ever
    BY DEF HInv, PresenceFits, InUse
  <2>. QED
    BY <1>2, <2>1, <2>2, HistoryCases
<1>3. CASE ~InUse(t, i) /\ ~ClonesTo(t, i)
  BY <1>3, HistoryCases
<1>. QED
  BY <1>1, <1>2, <1>3

\* An iterator has yielded what it should, whatever it does next.
LEMMA KeepsIterator ==
  ASSUME IInv, IInv', HInv, HistoryStep, NEW t \in Threads, ThreadStep(t), NEW i \in Slots,
         IsIterator(t, i)'
  PROVE  /\ YieldsFit(held'[t][i], hist'[t][i])
         /\ \/ AltersAll(call'[t]) /\ call'[t].slot = i
            \/ NonePassed(held'[t][i], hist'[t][i])
<1>. DEFINE h == held[t][i]
            g == held'[t][i]
            y == hist[t][i]
            z == hist'[t][i]
<1>0. /\ InUse(t, i)' /\ IteratorStep(t, i) /\ g.kind \in Iterators
      /\ g.shard \in Int /\ g.keys \subseteq Keys
      /\ \A k \in Keys : ShardOf[k] \in Int
  <2>1. g \in Handles
    BY DEF IInv, TableInv, TableTypeOK
  <2>. QED
    BY <2>1, ShardAssumption DEF InUse, ThreadStep, IsIterator, Handles
<1>1. z \in Histories /\ z.always \subseteq AllPresent' /\ AllPresent' \subseteq z.ever
  BY <1>0, HistoryCases, KeepsPresence
<1>2. CASE GoesOnWith(t, i)
  <2>1. /\ InUse(t, i) /\ Narrows(y, z) /\ z.yielded = y.yielded \cup Gets(t, i)
        /\ y \in Histories
    BY <1>0, <1>2, HistoryCases DEF GoesOnWith, InUse, HInv, HistoryTypeOK
  <2>2. /\ YieldsFit(h, y)
        /\ (AltersAll(call[t]) /\ Slot(t) = i) \/ NonePassed(h, y)
    BY <1>2 DEF GoesOnWith, HInv, IteratorsFit
  <2>3. /\ h.shard \in Int /\ h.keys \subseteq Keys
        /\ \A k \in h.keys : ShardOf[k] = h.shard
        /\ h.keys \subseteq AllPresent
    <3>1. h \in Handles /\ Fits(h) /\ h.kind \in Iterators
      BY <1>2 DEF IInv, TableInv, TableTypeOK, HandlesFit, GoesOnWith, IsIterator
    <3>2. AllPresent = {k \in Keys : Stored(k) # None}
      BY KeysPresent DEF IInv
    <3>. QED
      BY <3>1, <3>2, ShardAssumption DEF Handles, Fits, Iterators
  <2>4. /\ z.always \subseteq y.always /\ y.ever \subseteq z.ever
        /\ AltersAll(call[t]) /\ Slot(t) = i => AltersAll(call'[t]) /\ call'[t].slot = i
    BY <1>2, <2>1 DEF Narrows, GoesOnWith
  <2>5. y.always \subseteq Keys /\ y.yielded \subseteq Keys /\ z.always \subseteq Keys
    BY <1>1, <2>1 DEF Histories
  <2>. DEFINE Fit == /\ YieldsFit(g, z)
                     /\ (AltersAll(call'[t]) /\ call'[t].slot = i) \/ NonePassed(g, z)
  <2>. SUFFICES Fit
    OBVIOUS
  <2>. HIDE DEF h, g, y, z
  <2>6. CASE g = h /\ Gets(t, i) = {}
    BY <2>1, <2>2, <2>4, <2>6 DEF YieldsFit, NonePassed
  <2>7. CASE /\ h.keys = {} /\ g.shard = h.shard + 1 /\ g.shard \in Shards
             /\ g.keys = Present(g.shard) /\ UNCHANGED shards /\ Gets(t, i) = {}
    <3>1. g.keys = {k \in AllPresent : ShardOf[k] = g.shard} /\ AllPresent' = AllPresent
      BY <2>7, PresentInShard, SamePresent DEF IInv
    <3>2. z.yielded = y.yielded
      BY <2>1, <2>7
    <3>3. YieldsFit(g, z)
      BY <1>0, <2>2, <2>3, <2>4, <2>5, <2>7, <3>1, <3>2 DEF YieldsFit
    <3>4. NonePassed(h, y) => NonePassed(g, z)
      BY <1>0, <1>1, <2>3, <2>4, <2>5, <2>7, <3>1, <3>2 DEF NonePassed
    <3>. QED
      BY <2>2, <2>4, <3>3, <3>4
  <2>8. CASE /\ \E k \in h.keys : g.keys = h.keys \ {k} /\ Gets(t, i) = {k}
             /\ g.shard = h.shard /\ UNCHANGED shards
    <3>1. PICK k \in h.keys : g.keys = h.keys \ {k} /\ Gets(t, i) = {k}
      BY <2>8
    <3>2. z.yielded = y.yielded \cup {k} /\ k \in z.ever
      BY <1>1, <2>1, <2>3, <2>8, <3>1, SamePresent
    <3>3. YieldsFit(g, z)
      BY <2>2, <2>3, <2>4, <2>8, <3>1, <3>2 DEF YieldsFit
    <3>4. NonePassed(h, y) => NonePassed(g, z)
      BY <2>4, <2>8, <3>1, <3>2 DEF NonePassed
    <3>. QED
      BY <2>2, <2>4, <3>3, <3>4
  <2>9. CASE /\ g.keys \subseteq h.keys /\ g.shard = h.shard
             /\ Gets(t, i) = {} /\ AltersAll(call'[t]) /\ call'[t].slot = i
    BY <2>1, <2>2, <2>4, <2>9 DEF YieldsFit
  <2>. QED
    BY <1>2, <2>6, <2>7, <2>8, <2>9 DEF GoesOnWith, Slides, h, g, y, z
<1>3. CASE ~GoesOnWith(t, i)
  <2>1. ~InUse(t, i)
    BY <1>0, <1>3 DEF IteratorStep, BeginsWith, ClonesTo
  <2>2. CASE ClonesTo(t, i) /\ \E j \in Slots : IsIterator(t, j) /\ held[t][j] = g /\ z = hist[t][j]
    <3>1. PICK j \in Slots : IsIterator(t, j) /\ held[t][j] = g /\ z = hist[t][j]
      BY <2>2
    <3>2. ~AltersAll(call[t])
      BY <2>2, IsIdle DEF ClonesTo
    <3>. QED
      BY <3>1, <3>2 DEF HInv, IteratorsFit
  <2>3. CASE g.shard = -1 /\ z.yielded = {}
    <3>1. \A k \in Keys : ShardOf[k] >= 0
      BY ShardAssumption
    <3>2. z.always \subseteq Keys
      BY <1>1 DEF Histories
    <3>. QED
      BY <1>0, <2>3, <3>1, <3>2 DEF YieldsFit, NonePassed
  <2>. QED
    BY <1>0, <2>1, <2>2, <2>3, HistoryCases
<1>. QED
  BY <1>2, <1>3

-----------------------------------------------------------------------------
(* What the traversals have made *)

LEMMA TraversalNarrows ==
  ASSUME NEW c, c.count \in Nat, NEW y \in Histories, NEW z \in Histories,
         z.always \subseteq y.always, y.ever \subseteq z.ever, TraversalFits(c, y)
  PROVE  TraversalFits(c, z)
<1>1. /\ y.always \in SUBSET Keys /\ y.ever \in SUBSET Keys
      /\ z.always \in SUBSET y.always /\ z.ever \in SUBSET Keys
  BY DEF Histories
<1>2. /\ Before(y.always, c.shard) \in SUBSET Keys /\ Before(y.ever, c.shard) \in SUBSET Keys
      /\ Before(z.always, c.shard) \in SUBSET Before(y.always, c.shard)
      /\ Before(z.ever, c.shard) \in SUBSET Keys
      /\ Before(y.ever, c.shard) \subseteq Before(z.ever, c.shard)
  BY <1>1 DEF Before
<1>3. CountBetween(c.count, Before(y.always, c.shard), Before(y.ever, c.shard))
        => CountBetween(c.count, Before(z.always, c.shard), Before(z.ever, c.shard))
  BY <1>2, CountNarrows
<1>4. CountBetween(c.count, y.always, y.ever) => CountBetween(c.count, z.always, z.ever)
  BY <1>1, CountNarrows
<1>5. /\ Before(y.always, c.shard) = {} => Before(z.always, c.shard) = {}
      /\ Before(y.always, c.shard) \subseteq Copied(c) => Before(z.always, c.shard) \subseteq Copied(c)
      /\ Copied(c) \subseteq y.ever => Copied(c) \subseteq z.ever
  BY <1>2
<1>. QED
  BY <1>3, <1>4, <1>5, Zenon DEF TraversalFits

\* A traversal, or the announcement of one, that has done one more shard.
LEMMA SweepFits ==
  ASSUME IInv, IInv', HInv, NEW t \in Threads, Sweep(t),
         NEW y, y = hist[t][Slot(t)], NEW s, s = call[t].shard
  PROVE  /\ Slot(t) \in Slots /\ InUse(t, Slot(t)) /\ y \in Histories
         /\ y.always \subseteq AllPresent /\ AllPresent \subseteq y.ever
         /\ Counts(t) \/ Announces(t)
              => CountBetween(call'[t].count, Before(y.always, s + 1), Before(y.ever, s + 1))
         /\ Announces(t) => Copied(call'[t]) = {}
         /\ Folds(t) => /\ Before(y.always, s + 1) \subseteq Copied(call'[t])
                        /\ Copied(call'[t]) \subseteq y.ever
         /\ Folds(t) /\ call[t].op = "serialize_entries"
              => CountBetween(call'[t].count, y.always, y.ever)
         /\ Clears(t) => Before(y.always \cap AllPresent', s + 1) = {}
<1>1. GoesOver(t) /\ s \in Shards
  BY SweepShape
<1>2. /\ Slot(t) \in Slots /\ InUse(t, Slot(t)) /\ y \in Histories
      /\ y.always \subseteq AllPresent /\ AllPresent \subseteq y.ever
      /\ TraversalFits(call[t], y)
  BY <1>1 DEF HInv, TraversalsFit, InUse, HistoryTypeOK, PresenceFits
<1>3. /\ y.always \in SUBSET Keys /\ y.ever \in SUBSET Keys /\ TableInv /\ TableInv'
      /\ s \in Int /\ \A k \in Keys : ShardOf[k] \in Int
      /\ call[t].count \in Nat
  BY <1>1, <1>2, HomeOfKey, ShardAssumption, CallFields DEF Histories, IInv, Shards
<1>4. ASSUME Counts(t) \/ Announces(t)
      PROVE  CountBetween(call'[t].count, Before(y.always, s + 1), Before(y.ever, s + 1))
  <2>1. /\ CountBetween(call[t].count, Before(y.always, s), Before(y.ever, s))
        /\ call'[t].count = call[t].count + Cardinality(Present(s))
    BY <1>2, <1>4 DEF Counts, Announces, CountsShard, TraversalFits
  <2>2. CountBetween(call[t].count + Cardinality(Present(s)),
                     Before(y.always, s + 1), Before(y.ever, s + 1))
    BY <1>1, <1>2, <1>3, <2>1, CountGoesOn
  <2>. QED
    BY <2>1, <2>2
<1>5. ASSUME Announces(t)  PROVE Copied(call'[t]) = {}
  BY <1>1, <1>5, GatheringGoesOn DEF Announces, GatheredSoFar, Copied
<1>6. ASSUME Folds(t)
      PROVE  /\ Before(y.always, s + 1) \subseteq Copied(call'[t])
             /\ Copied(call'[t]) \subseteq y.ever
  <2>1. Present(s) = {k \in AllPresent : ShardOf[k] = s}
    BY <1>1, <1>3, PresentInShard
  <2>2. /\ Before(y.always, s) \subseteq Copied(call[t]) /\ Copied(call[t]) \subseteq y.ever
        /\ Copied(call'[t]) = Copied(call[t]) \cup Present(s)
    BY <1>2, <1>6 DEF Folds, TraversalFits
  <2>3. Before(y.always, s + 1) = Before(y.always, s) \cup {k \in y.always : ShardOf[k] = s}
    BY <1>3 DEF Before
  <2>. QED
    BY <1>2, <2>1, <2>2, <2>3
<1>7. ASSUME Folds(t), call[t].op = "serialize_entries"
      PROVE  CountBetween(call'[t].count, y.always, y.ever)
  BY <1>2, <1>7 DEF Folds, TraversalFits
<1>8. ASSUME Clears(t)  PROVE Before(y.always \cap AllPresent', s + 1) = {}
  <2>1. Before(y.always, s) = {}
    BY <1>2, <1>8 DEF Clears, TraversalFits
  <2>2. AllPresent' = {k \in Keys : Stored(k)' # None}
    BY <1>3, KeysPresent
  <2>3. \A k \in Keys : ShardOf[k] = s => Stored(k)' = None
    BY <1>1, <1>3, <1>8 DEF Clears, ClearIn, Stored, TableInv, TableTypeOK, ShardTables
  <2>4. \A k \in y.always \cap AllPresent' : ~(ShardOf[k] < s + 1)
    BY <1>3, <2>1, <2>2, <2>3 DEF Before
  <2>. QED
    BY <2>4 DEF Before
<1>. QED
  BY <1>2, <1>4, <1>5, <1>6, <1>7, <1>8

LEMMA OverSlot ==
  ASSUME HInv, NEW t \in Threads, ThreadStep(t), GoesOver(t)'
  PROVE  call'[t].slot \in Slots
BY DEF ThreadStep, OverGoesOn, OverBegins, HInv, TraversalsFit, Slot

LEMMA KeepsTraversal ==
  ASSUME IInv, IInv', HInv, HistoryStep, NEW t \in Threads, ThreadStep(t), GoesOver(t)',
         NEW i \in Slots, call'[t].slot = i
  PROVE  TraversalFits(call'[t], hist'[t][i])
<1>. DEFINE y == hist[t][i]
            z == hist'[t][i]
            c == call'[t]
<1>1. c.count \in Nat /\ InUse(t, i)'
  BY CallFields DEF IInv, RestTypeOK, CallRecords, InUse, Slot
<1>2. CASE OverGoesOn(t)
  <2>1. i = Slot(t) /\ i \in Slots /\ InUse(t, i) /\ TraversalFits(call[t], y)
    BY <1>2 DEF OverGoesOn, Slot, InUse, HInv, TraversalsFit
  <2>2. /\ y \in Histories /\ z \in Histories /\ Narrows(y, z)
    BY <1>1, <2>1, HistoryCases DEF HInv, HistoryTypeOK
  <2>3. z.always = y.always \cap AllPresent' /\ y.ever \subseteq z.ever
    BY <2>2 DEF Narrows
  <2>4. ASSUME TraversalFits(c, y)  PROVE TraversalFits(c, z)
    BY <1>1, <2>2, <2>3, <2>4, TraversalNarrows
  <2>5. CASE c = call[t]
    BY <2>1, <2>4, <2>5
  <2>6. CASE Sweep(t)
    <3>. DEFINE s == call[t].shard
    <3>1. c.op # "return" /\ c # Idle
      BY IsIdle DEF GoesOver, Traversals, ReadTraversals, Serializing, Idle, Call
    <3>2. /\ Counts(t) \/ Announces(t)
               => CountBetween(c.count, Before(y.always, s + 1), Before(y.ever, s + 1))
          /\ Announces(t) => Copied(c) = {}
          /\ Folds(t) => Before(y.always, s + 1) \subseteq Copied(c) /\ Copied(c) \subseteq y.ever
          /\ Folds(t) /\ call[t].op = "serialize_entries" => CountBetween(c.count, y.always, y.ever)
          /\ Clears(t) => Before(z.always, s + 1) = {}
      BY <2>1, <2>3, <2>6, SweepFits
    <3>3. CASE Counts(t)
      <4>1. c.op = "len" /\ c.shard = s + 1
        BY <3>1, <3>3 DEF Counts, DoesShard
      <4>. QED
        BY <2>1, <2>4, <3>2, <3>3, <4>1 DEF TraversalFits
    <3>4. CASE Announces(t)
      <4>1. CASE c.op = "serialize" /\ c.shard = s + 1
        BY <2>1, <2>4, <3>2, <3>4, <4>1 DEF TraversalFits
      <4>2. CASE c.op = "serialize_entries" /\ c.shard = 0 /\ s = ShardCount - 1
        <5>1. s + 1 = ShardCount
          BY <4>2, ShardAssumption
        <5>2. Before(y.always, s + 1) = y.always /\ Before(y.ever, s + 1) = y.ever
              /\ Before(y.always, 0) = {}
          BY <2>2, <5>1, BeforeAll DEF Histories
        <5>3. CountBetween(c.count, y.always, y.ever)
          BY <3>2, <3>4, <5>2
        <5>. QED
          BY <2>1, <2>4, <3>2, <3>4, <4>2, <5>2, <5>3 DEF TraversalFits
      <4>. QED
        BY <3>4, <4>1, <4>2 DEF Announces
    <3>5. CASE Folds(t)
      <4>1. c.op = call[t].op /\ c.shard = s + 1 /\ c.op \in {"fold", "serialize_entries"}
        BY <3>1, <3>5 DEF Folds, DoesShard
      <4>. QED
        BY <2>1, <2>4, <3>2, <3>5, <4>1 DEF TraversalFits
    <3>6. CASE Clears(t)
      <4>1. c.op = "clear" /\ c.shard = s + 1
        BY <3>1, <3>6 DEF Clears, DoesShard
      <4>. QED
        BY <2>1, <3>2, <3>6, <4>1 DEF TraversalFits
    <3>7. CASE Sweeps(t)
      <4>1. c.op \in {"retain", "shrink_to_fit"}
        BY <3>1, <3>7 DEF Sweeps, DoesShard
      <4>. QED
        BY <2>1, <4>1 DEF TraversalFits
    <3>. QED
      BY <2>6, <3>1, <3>3, <3>4, <3>5, <3>6, <3>7, SweepShape
  <2>. QED
    BY <1>2, <2>5, <2>6 DEF OverGoesOn
<1>3. CASE OverBegins(t)
  <2>1. PICK op \in Traversals, j \in Slots : c = Call(op, None, j)
    BY <1>3 DEF OverBegins
  <2>2. c.op = op /\ c.shard = 0 /\ c.count = 0 /\ Copied(c) = {} /\ c.op # "serialize_entries"
    BY <2>1 DEF Call, Nothing, Copied, Traversals, ReadTraversals
  <2>3. z \in Histories
    BY <1>3, HistoryCases DEF OverBegins
  <2>4. Before(z.always, 0) = {} /\ Before(z.ever, 0) = {}
    BY <2>3, BeforeAll DEF Histories
  <2>5. CountBetween(0, {}, {})
    BY FS_EmptySet DEF CountBetween
  <2>. QED
    BY <1>3, <2>2, <2>4, <2>5 DEF TraversalFits, OverBegins
<1>. QED
  BY <1>2, <1>3 DEF ThreadStep

-----------------------------------------------------------------------------
(* What a step makes of the slots of all threads *)

\* What a step does to the slots of every thread.
LEMMA EveryThreadSteps ==
  ASSUME IInv, Next
  PROVE  \A t \in Threads : ThreadStep(t)
<1>1. CASE Terminating
  BY <1>1, OthersStay DEF Terminating, vars
<1>2. ASSUME NEW u \in Threads, Step(u)  PROVE \A t \in Threads : ThreadStep(t)
  <2>1. \A t \in Threads \ {u} : ThreadStep(t)
    BY <1>2, StepIsOwn, OthersStay
  <2>2. ThreadStep(u)
    BY <1>2, ThreadSteps
  <2>. QED
    BY <2>1, <2>2
<1>. QED
  BY <1>1, <1>2 DEF Next

-----------------------------------------------------------------------------
(* The invariant *)

LEMMA HistoryInit == HInit => HInv
<1>. SUFFICES ASSUME HInit  PROVE HInv
  OBVIOUS
<1>1. \A t \in Threads, i \in Slots : held[t][i] = NoHandle /\ call[t] = Idle
  BY DEF HInit, Init
<1>2. \A t \in Threads, i \in Slots : ~IsIterator(t, i) /\ ~InUse(t, i) /\ ~GoesOver(t)
  BY <1>1, IsIdle DEF IsIterator, InUse, Iterators, NoHandle, Handle
<1>3. \A t \in Threads : ~GoesOver(t)
  BY IsIdle DEF HInit, Init
<1>4. HistoryTypeOK
  BY DEF HInit, HistoryTypeOK, Blank, Histories
<1>. QED
  BY <1>2, <1>3, <1>4 DEF HInv, PresenceFits, IteratorsFit, TraversalsFit

LEMMA HistoryKeeps ==
  ASSUME IInv, IInv', HInv, Next, HistoryStep
  PROVE  HInv'
<1>1. \A t \in Threads : ThreadStep(t)
  BY EveryThreadSteps
<1>2. HistoryTypeOK'
  <2>1. \A t \in Threads, i \in Slots : hist'[t][i] \in Histories
    BY <1>1, HistoryCases
  <2>2. \A t \in Threads, i \in Slots : hist'[t][i] = HistoryOf(t, i)
    BY DEF HistoryStep
  <2>3. \A t \in Threads, i \in Slots : HistoryOf(t, i) \in Histories
    BY <2>1, <2>2
  <2>. QED
    BY <2>3 DEF HistoryTypeOK, HistoryStep
<1>3. PresenceFits'
  BY <1>1, KeepsPresence DEF PresenceFits
<1>4. IteratorsFit'
  BY <1>1, KeepsIterator DEF IteratorsFit, Slot
<1>5. TraversalsFit'
  BY <1>1, OverSlot, KeepsTraversal DEF TraversalsFit, Slot
<1>. QED
  BY <1>2, <1>3, <1>4, <1>5 DEF HInv

LEMMA HistoryNext == IInv /\ HInv /\ [HNext]_hvars => IInv' /\ HInv'
<1>. SUFFICES ASSUME IInv, HInv, [HNext]_hvars  PROVE IInv' /\ HInv'
  OBVIOUS
<1>1. IInv'
  BY NextFits DEF HNext, hvars
<1>2. CASE HNext
  BY <1>1, <1>2, HistoryKeeps DEF HNext, HistoryStep
<1>3. CASE UNCHANGED hvars
  <2>1. AllPresent' = AllPresent
    BY <1>3, SamePresent DEF hvars, vars
  <2>. QED
    BY <1>1, <1>3, <2>1
       DEF HInv, HistoryTypeOK, PresenceFits, IteratorsFit, TraversalsFit, InUse, IsIterator,
           GoesOver, Slot, hvars, vars
<1>. QED
  BY <1>2, <1>3

LEMMA HistoryInvariance == HSpec => [](IInv /\ HInv)
<1>1. HInit => IInv /\ HInv
  BY InitFits, HistoryInit DEF HInit
<1>. QED
  BY <1>1, HistoryNext, PTL DEF HSpec

-----------------------------------------------------------------------------
(* What it says *)

\* An iterator never yields a key twice (Iter and IterMut, table.rs and iter.rs).
THEOREM IteratorsYieldOnceHolds == HSpec => []IteratorsYieldOnce
<1>1. HInv => IteratorsYieldOnce
  BY DEF HInv, IteratorsFit, YieldsFit, IteratorsYieldOnce
<1>. QED
  BY <1>1, HistoryInvariance, PTL

\* The steps that end a next or a traversal are those of the thread itself.
LEMMA EndsByItself ==
  ASSUME IInv, Next, NEW t \in Threads, call'[t] # call[t]
  PROVE  Step(t)
<1>1. ~UNCHANGED vars
  BY DEF vars
<1>2. PICK u \in Threads : Step(u)
  BY <1>1 DEF Next, Terminating
<1>. QED
  BY <1>2, StepIsOwn

LEMMA NextGoesOn ==
  ASSUME NEW t \in Threads, Step(t), In(t, "next")
  PROVE  IterNextShard(t) \/ IterYield(t) \/ IterEnd(t)
<1>1. call[t] # Idle
  BY IsIdle
<1>. QED
  BY <1>1
     DEF Step, Proceed, In, BeginKeyOp, BeginOperator, BeginTraversal, Begin, BeginAs, TryCall,
         AlterAll, NewIter, BeginNext, UseHandle, Drop, Get, ContainsKey, GetMut, View,
         ViewClosure, GetEntry, InsertLookup, Insert, RemoveLookup, Remove, RemoveIf,
         RemoveIfMut, ClosurePanics, AlterLookup, AlterTake, AlterPut, AlterPanics,
         AlterAllNextShard, AlterAllEnds, LenIn, FoldIn, Announce, SerializeEntries, Retain,
         Clear, ShrinkToFit, Return

LEMMA OverGoes ==
  ASSUME NEW t \in Threads, Step(t), GoesOver(t)
  PROVE  Sweep(t)
<1>1. call[t] # Idle
  BY IsIdle
<1>. QED
  BY <1>1
     DEF Sweep, GoesOver, Traversals, ReadTraversals, Serializing, Step, Proceed, In,
         BeginKeyOp, BeginOperator, BeginTraversal, Begin, BeginAs, TryCall, AlterAll, NewIter,
         BeginNext, UseHandle, Drop, Get, ContainsKey, GetMut, View, ViewClosure, GetEntry,
         InsertLookup, Insert, RemoveLookup, Remove, RemoveIf, RemoveIfMut, ClosurePanics,
         AlterLookup, AlterTake, AlterPut, AlterPanics, AlterAllNextShard, AlterAllEnds,
         IterNextShard, IterYield, IterEnd, Return

\* None is returned after the last shard, by an iterator that has passed nothing.
LEMMA NoneIsLast ==
  ASSUME IInv, HInv, Next, NEW t \in Threads, NextReturnsNone(t), NEW i \in Slots, i = Slot(t)
  PROVE  /\ hist[t][i].always \subseteq hist[t][i].yielded
         /\ hist[t][i].yielded \subseteq hist[t][i].ever
<1>1. In(t, "next") /\ call'[t] = Idle /\ held'[t] = held[t] /\ call[t] # Idle
  BY IsIdle DEF NextReturnsNone
<1>2. IterEnd(t)
  <2>1. Step(t)
    BY <1>1, EndsByItself
  <2>2. ~IterNextShard(t)
    BY <1>1 DEF IterNextShard
  <2>3. ~IterYield(t)
    BY <1>1, SlotYields
  <2>. QED
    BY <1>1, <2>1, <2>2, <2>3, NextGoesOn
<1>3. held[t][i].keys = {} /\ held[t][i].shard = ShardCount - 1 /\ IsIterator(t, i)
  BY <1>1, <1>2, Iterating DEF IterEnd, Exhausted, LastShard, In, Slot, IsIterator, Iterators, IteratorKinds
<1>4. YieldsFit(held[t][i], hist[t][i]) /\ NonePassed(held[t][i], hist[t][i])
  BY <1>1, <1>3 DEF HInv, IteratorsFit, In, AltersAll
<1>5. \A k \in hist[t][i].always : ShardOf[k] <= ShardCount - 1
  <2>1. hist[t][i].always \subseteq Keys
    BY DEF HInv, HistoryTypeOK, Histories
  <2>. QED
    BY <2>1, ShardAssumption
<1>. QED
  BY <1>3, <1>4, <1>5 DEF YieldsFit, NonePassed

\* When next returns None, the iterator has yielded every key that was in the
\* map all along, whatever other threads did, and none that never was.
THEOREM IteratorsYieldWhatStaysHolds == HSpec => IteratorsYieldWhatStays
<1>. DEFINE Good == \A t \in Threads : NextReturnsNone(t) =>
              LET h == hist[t][Slot(t)] IN
              h.always \subseteq h.yielded /\ h.yielded \subseteq h.ever
<1>1. IInv /\ HInv /\ [HNext]_hvars => [Good]_hvars
  <2>. SUFFICES ASSUME IInv, HInv, HNext, NEW t \in Threads, NextReturnsNone(t)
                PROVE  /\ hist[t][Slot(t)].always \subseteq hist[t][Slot(t)].yielded
                       /\ hist[t][Slot(t)].yielded \subseteq hist[t][Slot(t)].ever
    OBVIOUS
  <2>1. Slot(t) \in Slots
    BY Iterating DEF NextReturnsNone, In, Slot
  <2>. QED
    BY <2>1, NoneIsLast DEF HNext
<1>. QED
  BY <1>1, HistoryInvariance, PTL DEF HSpec, IteratorsYieldWhatStays

\* A traversal that returns has done the last shard.
LEMMA ReturnsAfterAll ==
  ASSUME IInv, HInv, HNext, NEW t \in Threads, NEW op \in OverOps, Returns(t, op)
  PROVE  /\ IInv' /\ Sweep(t) /\ call[t].op = op /\ call[t].shard + 1 = ShardCount
         /\ Counts(t) \/ Folds(t) \/ Clears(t) \/ Sweeps(t)
         /\ Slot(t) \in Slots /\ Since(t) \in Histories
         /\ Before(Since(t).always, ShardCount) = Since(t).always
         /\ Before(Since(t).ever, ShardCount) = Since(t).ever
<1>1. GoesOver(t) /\ call[t].op = op /\ call'[t].op = "return"
  BY DEF Returns, In, GoesOver, OverOps
<1>2. call[t].op # "return" /\ Idle.op # "return"
  BY <1>1 DEF OverOps, Traversals, ReadTraversals, Serializing, Idle, Call
<1>3. IInv'
  BY NextFits DEF HNext
<1>4. Sweep(t)
  BY <1>1, <1>2, EndsByItself, OverGoes DEF HNext
<1>5. Counts(t) \/ Folds(t) \/ Clears(t) \/ Sweeps(t)
  BY <1>1, <1>2, <1>4, SweepShape DEF Announces
<1>6. DoesShard(t) /\ call[t].shard = ShardCount - 1
  BY <1>1, <1>2, <1>5 DEF Counts, Folds, Clears, Sweeps, DoesShard
<1>7. call[t].shard + 1 = ShardCount
  BY <1>6, ShardAssumption
<1>8. Slot(t) \in Slots /\ Since(t) \in Histories
  BY <1>3, <1>4, SweepFits DEF Since
<1>9. Before(Since(t).always, ShardCount) = Since(t).always
      /\ Before(Since(t).ever, ShardCount) = Since(t).ever
  BY <1>8, BeforeAll DEF Histories
<1>. QED
  BY <1>1, <1>3, <1>4, <1>5, <1>7, <1>8, <1>9

\* len, which locks one shard after the other, is at least the number of keys
\* that were there all along, and at most that of those that ever were.
THEOREM LenIsBoundedHolds == HSpec => LenIsBounded
<1>. DEFINE Good == \A t \in Threads : Returns(t, "len") =>
              /\ call'[t].count >= Cardinality(Since(t).always)
              /\ call'[t].count <= Cardinality(Since(t).ever)
<1>1. IInv /\ HInv /\ [HNext]_hvars => [Good]_hvars
  <2>. SUFFICES ASSUME IInv, HInv, HNext, NEW t \in Threads, Returns(t, "len")
                PROVE  /\ call'[t].count >= Cardinality(Since(t).always)
                       /\ call'[t].count <= Cardinality(Since(t).ever)
    OBVIOUS
  <2>1. "len" \in OverOps
    BY DEF OverOps, Traversals, ReadTraversals
  <2>2. /\ IInv' /\ Sweep(t) /\ Counts(t) /\ call[t].shard + 1 = ShardCount
        /\ Since(t) \in Histories
        /\ Before(Since(t).always, ShardCount) = Since(t).always
        /\ Before(Since(t).ever, ShardCount) = Since(t).ever
    BY <2>1, ReturnsAfterAll DEF Folds, Clears, Sweeps
  <2>3. CountBetween(call'[t].count, Before(Since(t).always, call[t].shard + 1),
                     Before(Since(t).ever, call[t].shard + 1))
    BY <2>2, SweepFits DEF Since
  <2>4. CountBetween(call'[t].count, Since(t).always, Since(t).ever)
    BY <2>2, <2>3
  <2>5. /\ call'[t].count \in Nat /\ Cardinality(Since(t).always) \in Nat
        /\ Cardinality(Since(t).ever) \in Nat
    BY <2>2, KeysAreFinite DEF IInv, RestTypeOK, CallRecords, Histories
  <2>. QED
    BY <2>4, <2>5 DEF CountBetween
<1>. QED
  BY <1>1, HistoryInvariance, PTL DEF HSpec, LenIsBounded

\* What clone and Debug gather has every key that was there all along, and none
\* that never was.
THEOREM CopyHasWhatStaysHolds == HSpec => CopyHasWhatStays
<1>. DEFINE Good == \A t \in Threads : Returns(t, "fold") =>
              LET copied == {k \in Keys : call'[t].gathered[k] # None} IN
              Since(t).always \subseteq copied /\ copied \subseteq Since(t).ever
<1>1. IInv /\ HInv /\ [HNext]_hvars => [Good]_hvars
  <2>. SUFFICES ASSUME IInv, HInv, HNext, NEW t \in Threads, Returns(t, "fold")
                PROVE  /\ Since(t).always \subseteq Copied(call'[t])
                       /\ Copied(call'[t]) \subseteq Since(t).ever
    BY DEF Copied
  <2>1. "fold" \in OverOps
    BY DEF OverOps, Traversals, ReadTraversals
  <2>2. /\ IInv' /\ Sweep(t) /\ Folds(t) /\ call[t].shard + 1 = ShardCount
        /\ Before(Since(t).always, ShardCount) = Since(t).always
    BY <2>1, ReturnsAfterAll DEF Counts, Clears, Sweeps
  <2>. QED
    BY <2>2, SweepFits DEF Since
<1>. QED
  BY <1>1, HistoryInvariance, PTL DEF HSpec, CopyHasWhatStays

\* The length that serialize announces is that of what it hands over, if no key
\* came or went meanwhile.
THEOREM AnnouncedLenIsRightHolds == HSpec => AnnouncedLenIsRight
<1>. DEFINE Good == \A t \in Threads :
              Returns(t, "serialize_entries") /\ Since(t).always = Since(t).ever =>
                LET copied == {k \in Keys : call'[t].gathered[k] # None} IN
                /\ copied = Since(t).ever
                /\ call'[t].count = Cardinality(copied)
<1>1. IInv /\ HInv /\ [HNext]_hvars => [Good]_hvars
  <2>. SUFFICES ASSUME IInv, HInv, HNext, NEW t \in Threads,
                       Returns(t, "serialize_entries"), Since(t).always = Since(t).ever
                PROVE  /\ Copied(call'[t]) = Since(t).ever
                       /\ call'[t].count = Cardinality(Copied(call'[t]))
    BY DEF Copied
  <2>1. "serialize_entries" \in OverOps
    BY DEF OverOps, Serializing
  <2>2. /\ IInv' /\ Sweep(t) /\ Folds(t) /\ call[t].shard + 1 = ShardCount
        /\ call[t].op = "serialize_entries" /\ Since(t) \in Histories
        /\ Before(Since(t).always, ShardCount) = Since(t).always
    BY <2>1, ReturnsAfterAll DEF Counts, Clears, Sweeps
  <2>3. /\ Since(t).always \subseteq Copied(call'[t])
        /\ Copied(call'[t]) \subseteq Since(t).ever
        /\ CountBetween(call'[t].count, Since(t).always, Since(t).ever)
    <3>. DEFINE y == Since(t)
                s == call[t].shard
    <3>1. y = hist[t][Slot(t)]
      BY DEF Since
    <3>. HIDE DEF y
    <3>2. /\ Before(y.always, s + 1) \subseteq Copied(call'[t])
          /\ Copied(call'[t]) \subseteq y.ever
          /\ CountBetween(call'[t].count, y.always, y.ever)
      BY <2>2, <3>1, SweepFits
    <3>. QED
      BY <2>2, <3>2 DEF y
  <2>4. Copied(call'[t]) = Since(t).ever
    BY <2>3
  <2>5. call'[t].count \in Nat /\ Cardinality(Since(t).ever) \in Nat
    BY <2>2, KeysAreFinite DEF IInv, RestTypeOK, CallRecords, Histories
  <2>6. call'[t].count = Cardinality(Since(t).ever)
    BY <2>3, <2>5 DEF CountBetween
  <2>. QED
    BY <2>4, <2>6
<1>. QED
  BY <1>1, HistoryInvariance, PTL DEF HSpec, AnnouncedLenIsRight

\* When clear returns, what is in the map has come since it was called.
THEOREM ClearLeavesOnlyNewKeysHolds == HSpec => ClearLeavesOnlyNewKeys
<1>. DEFINE Good == \A t \in Threads :
              Returns(t, "clear") => Since(t).always \cap AllPresent' = {}
<1>1. IInv /\ HInv /\ [HNext]_hvars => [Good]_hvars
  <2>. SUFFICES ASSUME IInv, HInv, HNext, NEW t \in Threads, Returns(t, "clear")
                PROVE  Since(t).always \cap AllPresent' = {}
    OBVIOUS
  <2>1. "clear" \in OverOps
    BY DEF OverOps, Traversals
  <2>2. /\ IInv' /\ Sweep(t) /\ Clears(t) /\ call[t].shard + 1 = ShardCount
        /\ Since(t) \in Histories
    BY <2>1, ReturnsAfterAll DEF Counts, Folds, Sweeps
  <2>3. Before(Since(t).always \cap AllPresent', ShardCount) = {}
    BY <2>2, SweepFits DEF Since
  <2>4. Since(t).always \cap AllPresent' \in SUBSET Keys
    BY <2>2 DEF Histories
  <2>. QED
    BY <2>3, <2>4, BeforeAll
<1>. QED
  BY <1>1, HistoryInvariance, PTL DEF HSpec, ClearLeavesOnlyNewKeys
=============================================================================
