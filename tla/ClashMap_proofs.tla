--------------------------- MODULE ClashMap_proofs ---------------------------
(***************************************************************************)
(* Theorems about ClashMap, for any number of threads, slots, keys, values *)
(* and shards, and whatever calls the threads make.                        *)
(***************************************************************************)
EXTENDS ClashMap, ClashTable_proofs, FiniteSetTheorems

\* The stages of a call, with those that ParallelMap adds.
Stages == CallOps \cup {"par_iter", "par_collect", "par_iter_mut", "into_par_iter",
                        "view_par_iter", "par_extend", "par_shard", "par_items", "par_closure"}
CallRecords == [op : Stages, key : Keys \cup {None}, shard : Shards, slot : 0..MaxHandles,
                result : Values \cup {None}, count : Nat,
                gathered : [Keys -> Values \cup {None}]]

\* A call of a thread with handles H has in its slot the handle that the stage
\* which it is in needs.
HasOne(c, H, kinds) ==
  c.key \in Keys /\ c.slot \in Slots /\ H[c.slot].kind \in kinds /\ H[c.slot].keys = {c.key}

\* What a call that goes over the map has gathered is of the shards it has done.
GatheredSoFar(c) ==
  \A k \in Keys : c.gathered[k] # None =>
    c.op \in {"fold", "serialize_entries"} /\ ShardOf[k] < c.shard

CallFits(c, H) ==
  /\ c.op \in KeyOps => c.key \in Keys /\ c.slot \in Slots /\ H[c.slot] = NoHandle
  /\ c.op = "inserting" => HasOne(c, H, EntryKinds)
  /\ c.op \in {"removing", "remove_if_closure", "remove_if_mut_closure"}
       => HasOne(c, H, {"Occupied"})
  /\ c.op = "view_closure" => HasOne(c, H, {"Ref"})
  /\ c.op \in {"altering", "alter_closure"} => HasOne(c, H, {"RefMut"})
  /\ c.op \in {"alter_all", "alter_all_closure"}
       => c.slot \in Slots /\ H[c.slot].kind = "IterMut"
  /\ c.op = "alter_all" => c.key = None
  /\ c.op = "alter_all_closure" => c.key \in H[c.slot].keys
  /\ c.op = "next" =>
       /\ c.slot \in Slots /\ H[c.slot].kind \in IteratorKinds
       /\ \E i \in Slots : H[i] = NoHandle
  /\ c.op \in Traversals \cup Serializing => GatheredSoFar(c)

HasHole(c) == c.op \in {"alter_closure", "alter_all_closure"}

RestTypeOK ==
  /\ call \in [Threads -> CallRecords]
  /\ holes \subseteq Keys /\ aborted \in BOOLEAN /\ calls \in [Threads -> Nat]
CallsFit == \A t \in Threads : CallFits(call[t], held[t])
HolesFit == \A k \in holes : \E t \in Threads : HasHole(call[t]) /\ call[t].key = k

IInv == TableInv /\ RestTypeOK /\ CallsFit /\ HolesFit

-----------------------------------------------------------------------------
(* Records of calls *)

LEMMA BeginFits ==
  ASSUME NEW op \in KeyOps \cup Traversals, NEW k \in Keys \cup {None}, NEW i \in Slots,
         op \in KeyOps => k \in Keys, NEW H, H[i] = NoHandle
  PROVE  Call(op, k, i) \in CallRecords /\ CallFits(Call(op, k, i), H) /\ ~HasHole(Call(op, k, i))
BY ShardAssumption, BoundAssumption
   DEF Call, CallRecords, CallFits, HasHole, Nothing, Stages, CallOps, Shards, Slots, KeyOps,
       Traversals, ReadTraversals, Serializing, GatheredSoFar

LEMMA IdleFits ==
  ASSUME NEW H
  PROVE  Idle \in CallRecords /\ CallFits(Idle, H) /\ Idle.op = "idle"
BY ShardAssumption, BoundAssumption
   DEF Idle, Call, CallRecords, CallFits, Nothing, Stages, CallOps, Shards, KeyOps, Traversals,
       ReadTraversals, Serializing

LEMMA ReturnRecord ==
  ASSUME NEW r \in Values \cup {None}
  PROVE  LET c == [Idle EXCEPT !.op = "return", !.result = r]
         IN  c \in CallRecords /\ c.op = "return"
BY IdleFits DEF CallRecords, Stages, CallOps

\* In these stages a call has no handle.
FreeOps == Traversals \cup Serializing \cup {"idle", "return"}

LEMMA FreeFits ==
  ASSUME NEW c, c.op \in FreeOps, NEW H,
         c.op \in Traversals \cup Serializing => GatheredSoFar(c)
  PROVE  CallFits(c, H)
BY DEF FreeOps, Traversals, ReadTraversals, Serializing, KeyOps, CallFits

LEMMA NoHoleYet == ASSUME NEW c, c.op \in FreeOps PROVE ~HasHole(c)
BY DEF FreeOps, Traversals, ReadTraversals, Serializing, HasHole

LEMMA OtherOp ==
  ASSUME NEW c \in CallRecords, NEW op \in Stages
  PROVE  LET d == [c EXCEPT !.op = op] IN
         /\ d \in CallRecords /\ d.op = op /\ d.key = c.key /\ d.slot = c.slot
         /\ d.shard = c.shard
BY DEF CallRecords

LEMMA CallFields ==
  ASSUME RestTypeOK, NEW t \in Threads
  PROVE  /\ call[t] \in CallRecords
         /\ call[t].op \in Stages /\ call[t].key \in Keys \cup {None}
         /\ call[t].shard \in Shards /\ call[t].slot \in 0..MaxHandles
         /\ call[t].result \in Values \cup {None} /\ call[t].count \in Nat
         /\ call[t].gathered \in [Keys -> Values \cup {None}]
BY DEF RestTypeOK, CallRecords

-----------------------------------------------------------------------------
(* One thread goes on *)

\* t goes on as c, or stays where it is.
GoesOnAs(t, c) == Continue(t, c) \/ (UNCHANGED call /\ c = call[t])

LEMMA OneThreadSteps ==
  ASSUME IInv, NEW t \in Threads, NEW c \in CallRecords, GoesOnAs(t, c),
         CallFits(c, held'[t]), Own(t)
  PROVE  /\ call' \in [Threads -> CallRecords] /\ call'[t] = c
         /\ \A u \in Threads \ {t} : call'[u] = call[u]
         /\ CallsFit'
<1>1. /\ call' \in [Threads -> CallRecords] /\ call'[t] = c
      /\ \A u \in Threads \ {t} : call'[u] = call[u]
  BY DEF GoesOnAs, Continue, IInv, RestTypeOK
<1>2. ASSUME NEW u \in Threads
      PROVE  CallFits(call'[u], held'[u])
  <2>1. CASE u = t
    BY <1>1, <2>1
  <2>2. CASE u # t
    <3>1. call'[u] = call[u] /\ held'[u] = held[u]
      BY <1>1, <2>2 DEF Own
    <3>. QED
      BY <3>1 DEF IInv, CallsFit
  <2>. QED
    BY <2>1, <2>2
<1>3. CallsFit'
  BY <1>2 DEF CallsFit, CallFits, HasOne
<1>. QED
  BY <1>1, <1>3

\* A step in which no value is moved out or put back.
LEMMA PlainStep ==
  ASSUME IInv, NEW t \in Threads, NEW c \in CallRecords, GoesOnAs(t, c),
         CallFits(c, held'[t]), TableInv', Own(t),
         HasHole(call[t]) => UNCHANGED call,
         UNCHANGED holes, aborted' \in BOOLEAN, calls' \in [Threads -> Nat]
  PROVE  IInv'
<1>1. /\ call' \in [Threads -> CallRecords] /\ call'[t] = c /\ CallsFit'
      /\ \A u \in Threads \ {t} : call'[u] = call[u]
  BY OneThreadSteps
<1>2. HolesFit'
  <2>1. SUFFICES ASSUME NEW k \in holes
                 PROVE  \E u \in Threads : HasHole(call'[u]) /\ call'[u].key = k
    BY DEF HolesFit, HasHole
  <2>2. PICK u \in Threads : HasHole(call[u]) /\ call[u].key = k
    BY DEF IInv, HolesFit
  <2>3. call'[u] = call[u]
    BY <1>1, <2>2
  <2>. QED
    BY <2>2, <2>3
<1>. QED
  BY <1>1, <1>2 DEF IInv, RestTypeOK

LEMMA CountDown ==
  ASSUME RestTypeOK, NEW t \in Threads, calls[t] > 0,
         calls' = [calls EXCEPT ![t] = @ - 1]
  PROVE  calls' \in [Threads -> Nat]
BY DEF RestTypeOK

-----------------------------------------------------------------------------
(* Beginning a call *)

LEMMA BeginStep ==
  ASSUME IInv, NEW t \in Threads, NEW op \in KeyOps \cup Traversals,
         NEW k \in Keys \cup {None}, op \in KeyOps => k \in Keys, BeginAs(t, op, k)
  PROVE  IInv'
<1>1. PICK i \in Slots : Continue(t, Call(op, k, i)) /\ held'[t][i] = NoHandle
  BY FreeSlotIsFree DEF BeginAs
<1>2. /\ Call(op, k, i) \in CallRecords /\ CallFits(Call(op, k, i), held'[t])
  BY <1>1, BeginFits
<1>3. ~HasHole(call[t]) /\ GoesOnAs(t, Call(op, k, i))
  BY <1>1 DEF BeginAs, HasHole, Idle, Call, GoesOnAs
<1>4. calls' \in [Threads -> Nat] /\ aborted' \in BOOLEAN
  BY CountDown DEF BeginAs, IInv, RestTypeOK
<1>5. TableInv' /\ Own(t)
  BY NothingChanges DEF BeginAs, IInv
<1>. QED
  BY <1>2, <1>3, <1>4, <1>5, PlainStep DEF BeginAs

LEMMA BeginSteps ==
  ASSUME IInv, NEW t \in Threads,
         BeginKeyOp(t) \/ BeginOperator(t) \/ BeginTraversal(t)
  PROVE  IInv'
<1>1. CASE BeginKeyOp(t)
  BY <1>1, BeginStep DEF BeginKeyOp, Begin
<1>2. CASE BeginOperator(t)
  <2>1. PICK name \in DOMAIN OperatorCall, k \in Keys : BeginAs(t, OperatorCall[name], k)
    BY <1>2 DEF BeginOperator
  <2>2. OperatorCall[name] \in KeyOps
    BY DEF OperatorCall, KeyOps
  <2>. QED
    BY <2>1, <2>2, BeginStep
<1>3. CASE BeginTraversal(t)
  <2>1. PICK op \in Traversals : BeginAs(t, op, None)
    BY <1>3 DEF BeginTraversal, Begin
  <2>2. op \notin KeyOps
    BY DEF Traversals, ReadTraversals, KeyOps
  <2>. QED
    BY <2>1, <2>2, BeginStep
<1>. QED
  BY <1>1, <1>2, <1>3

\* What an idle thread does with its handles.
LEMMA IdleStep ==
  ASSUME IInv, NEW t \in Threads, call[t] = Idle, UNCHANGED <<call, holes, aborted>>,
         TableInv', Own(t), calls' \in [Threads -> Nat]
  PROVE  IInv'
<1>1. GoesOnAs(t, Idle) /\ Idle \in CallRecords /\ CallFits(Idle, held'[t])
  BY IdleFits DEF GoesOnAs
<1>. QED
  BY <1>1, PlainStep DEF IInv, RestTypeOK

LEMMA TryCallStep ==
  ASSUME IInv, NEW t \in Threads, TryCall(t)
  PROVE  IInv'
<1>1. FreeSlot(t) \in Slots
  BY FreeSlotIsFree DEF TryCall
<1>2. PICK k \in Keys : TryGet(t, k) \/ TryGetMut(t, k) \/ TryGetEntry(t, k)
  BY DEF TryCall
<1>3. UNCHANGED shards
  BY DEF TryCall
<1>4. CASE UNCHANGED held
  BY <1>3, <1>4, NothingChanges, IdleStep, CountDown DEF IInv, TryCall
<1>5. CASE Find(t, k, FreeSlot(t)) \/ FindMut(t, k, FreeSlot(t)) \/ Entry(t, k, FreeSlot(t))
  <2>1. TableInv' /\ Own(t)
    BY <1>1, <1>3, <1>5, FindKeeps, FindMutKeeps, EntryKeeps DEF IInv
  <2>. QED
    BY <2>1, IdleStep, CountDown DEF IInv, TryCall
<1>. QED
  BY <1>2, <1>4, <1>5
     DEF TryGet, TryGetMut, TryGetEntry, TryFind, TryFindMut, TryEntry, LockedToReaders,
         LockedToWriters

LEMMA NewIteratorKeeps ==
  ASSUME TableInv, NEW t \in Threads, NEW kind \in IteratorKinds, FreeSlots(t) # {},
         NewIterator(t, kind), UNCHANGED shards
  PROVE  /\ TableInv' /\ Own(t)
         /\ held'[t][FreeSlot(t)].kind = kind
<1>1. PICK h \in Handles : h = Handle(kind, -1, {})
  <2>1. kind \in SharedKinds \cup ExclusiveKinds
    BY DEF IteratorKinds, SharedKinds, ExclusiveKinds
  <2>2. -1 \in -1..(ShardCount - 1) /\ {} \in SUBSET Keys
    BY ShardAssumption
  <2>. QED
    BY <2>1, <2>2 DEF Handle, Handles
<1>2. FreeSlot(t) \in Slots /\ PutHandle(t, FreeSlot(t), h)
  BY <1>1, FreeSlotIsFree DEF NewIterator
<1>3. h.kind = kind /\ h.shard = -1 /\ h.keys = {}
  BY <1>1 DEF Handle
<1>. QED
  BY <1>2, <1>3, Unguarded, PutIsOwn

LEMMA IdleSteps ==
  ASSUME IInv, NEW t \in Threads, NewIter(t) \/ UseHandle(t) \/ Drop(t)
  PROVE  IInv'
<1>1. CASE NewIter(t)
  <2>1. TableInv' /\ Own(t)
    BY <1>1, NewIteratorKeeps DEF NewIter, IInv, IteratorKinds
  <2>. QED
    BY <1>1, <2>1, IdleStep, CountDown DEF NewIter, IInv
<1>2. CASE UseHandle(t)
  <2>1. TableInv' /\ Own(t)
    BY <1>2, UseKeeps DEF UseHandle, IInv
  <2>. QED
    BY <1>2, <2>1, IdleStep DEF UseHandle, IInv, RestTypeOK
<1>3. CASE Drop(t)
  <2>1. TableInv' /\ Own(t)
    BY <1>3, DropKeeps, PutIsOwn DEF Drop, IInv, DropHandle
  <2>. QED
    BY <1>3, <2>1, IdleStep DEF Drop, IInv, RestTypeOK
<1>. QED
  BY <1>1, <1>2, <1>3

-----------------------------------------------------------------------------
(* Returning, and going on to another stage *)

LEMMA FinishStep ==
  ASSUME IInv, NEW t \in Threads, ~HasHole(call[t]),
         Finish(t) \/ \E r \in Values \cup {None} : FinishWith(t, r),
         TableInv', Own(t), UNCHANGED <<holes, aborted, calls>>
  PROVE  IInv'
<1>1. PICK c \in CallRecords : Continue(t, c) /\ c.op \in {"idle", "return"}
  BY IdleFits, ReturnRecord DEF Finish, FinishWith
<1>2. GoesOnAs(t, c) /\ CallFits(c, held'[t])
  BY <1>1, FreeFits DEF GoesOnAs, FreeOps, Traversals, ReadTraversals, Serializing
<1>. QED
  BY <1>2, PlainStep DEF IInv, RestTypeOK

\* The call goes on to a stage in which it has a handle for its key.
LEMMA StageStep ==
  ASSUME IInv, NEW t \in Threads, ~HasHole(call[t]),
         NEW op \in {"inserting", "removing", "remove_if_closure", "remove_if_mut_closure",
                     "view_closure", "altering"},
         Become(t, op), call[t].key \in Keys, call[t].slot \in Slots,
         held'[t][call[t].slot].keys = {call[t].key},
         held'[t][call[t].slot].kind \in
           (CASE op = "inserting" -> EntryKinds
              [] op = "view_closure" -> {"Ref"}
              [] op = "altering" -> {"RefMut"}
              [] OTHER -> {"Occupied"}),
         TableInv', Own(t), UNCHANGED <<holes, aborted, calls>>
  PROVE  IInv'
<1>. DEFINE c == [call[t] EXCEPT !.op = op]
<1>1. op \in Stages
  BY DEF Stages, CallOps, Closures
<1>2. c \in CallRecords /\ c.op = op /\ c.key = call[t].key /\ c.slot = call[t].slot
  BY <1>1, CallFields, OtherOp DEF IInv
<1>3. GoesOnAs(t, c)
  BY DEF GoesOnAs, Become
<1>. HIDE DEF c
<1>4. CallFits(c, held'[t])
  BY <1>2 DEF CallFits, HasOne, KeyOps, Traversals, ReadTraversals, Serializing
<1>. QED
  BY <1>2, <1>3, <1>4, PlainStep DEF IInv, RestTypeOK

\* What a call on a key knows before it has its lock.
LEMMA FirstStage ==
  ASSUME IInv, NEW t \in Threads, call[t].op \in KeyOps
  PROVE  /\ call[t].key \in Keys /\ call[t].slot \in Slots /\ ~HasHole(call[t])
         /\ held[t][call[t].slot] = NoHandle
         /\ Stored(call[t].key) \in Values \cup {None}
<1>1. call[t].key \in Keys /\ call[t].slot \in Slots /\ held[t][call[t].slot] = NoHandle
  BY DEF IInv, CallsFit, CallFits
<1>2. Stored(call[t].key) \in Values \cup {None}
  BY <1>1, HomeOfKey DEF IInv, TableInv, TableTypeOK, ShardTables, Stored
<1>. QED
  BY <1>1, <1>2 DEF KeyOps, HasHole

LEMMA LookupSteps ==
  ASSUME IInv, NEW t \in Threads, Get(t) \/ GetMut(t) \/ GetEntry(t) \/ ContainsKey(t)
  PROVE  IInv'
<1>1. CASE Get(t) \/ GetMut(t) \/ GetEntry(t)
  <2>1. call[t].op \in KeyOps
    BY <1>1 DEF Get, GetMut, GetEntry, In, KeyOps
  <2>2. TableInv' /\ Own(t)
    BY <1>1, <2>1, FirstStage, FindKeeps, FindMutKeeps, EntryKeeps
       DEF Get, GetMut, GetEntry, Key, Slot, IInv
  <2>. QED
    BY <1>1, <2>1, <2>2, FirstStage, FinishStep DEF Get, GetMut, GetEntry
<1>2. CASE ContainsKey(t)
  <2>1. call[t].op \in KeyOps
    BY <1>2 DEF ContainsKey, In, KeyOps
  <2>2. TableInv' /\ Own(t)
    BY <1>2, NothingChanges DEF ContainsKey, IInv
  <2>. QED
    BY <1>2, <2>1, <2>2, FirstStage, FinishStep DEF ContainsKey, Key
<1>. QED
  BY <1>1, <1>2

\* The lookups of the calls that go on with a handle.
LEMMA StageLookups ==
  ASSUME IInv, NEW t \in Threads,
         View(t) \/ InsertLookup(t) \/ RemoveLookup(t) \/ AlterLookup(t)
  PROVE  IInv'
<1>. DEFINE k == call[t].key
            i == call[t].slot
<1>1. call[t].op \in KeyOps
  BY DEF View, InsertLookup, RemoveLookup, AlterLookup, In, KeyOps
<1>2. k \in Keys /\ i \in Slots /\ ~HasHole(call[t])
  BY <1>1, FirstStage
<1>3. TableInv' /\ Own(t) /\ UNCHANGED <<shards, holes, aborted, calls>>
  BY <1>2, FindKeeps, FindMutKeeps, EntryKeeps, FindEntryKeeps
     DEF View, InsertLookup, RemoveLookup, AlterLookup, Key, Slot, IInv
<1>4. ASSUME NEW kind, PutHandle(t, i, Handle(kind, ShardOf[k], {k}))
      PROVE  held'[t][i].kind = kind /\ held'[t][i].keys = {k}
  BY <1>2, <1>4, PutIsOwn DEF Handle, IInv
<1>5. CASE View(t)
  <2>1. CASE Stored(k) # None
    BY <1>2, <1>3, <1>4, <1>5, <2>1, StageStep DEF View, Find, TryMap, Key, Slot
  <2>2. CASE Stored(k) = None
    BY <1>2, <1>3, <1>5, <2>2, FinishStep DEF View, Key
  <2>. QED
    BY <2>1, <2>2
<1>6. CASE InsertLookup(t)
  <2>1. PICK kind \in EntryKinds : PutHandle(t, i, Handle(kind, ShardOf[k], {k}))
    BY <1>6 DEF InsertLookup, Entry, Key, Slot, EntryKinds
  <2>. QED
    BY <1>2, <1>3, <1>4, <1>6, <2>1, StageStep DEF InsertLookup
<1>7. CASE RemoveLookup(t)
  <2>1. CASE Stored(k) # None
    <3>1. PICK op \in {"removing", "remove_if_closure", "remove_if_mut_closure"} : Become(t, op)
      BY <1>7, <2>1 DEF RemoveLookup, In, Key
    <3>2. PutHandle(t, i, Handle("Occupied", ShardOf[k], {k}))
      BY <1>7, <2>1 DEF RemoveLookup, FindEntry, Key, Slot
    <3>. QED
      BY <1>2, <1>3, <1>4, <3>1, <3>2, StageStep
  <2>2. CASE Stored(k) = None
    BY <1>2, <1>3, <1>7, <2>2, FinishStep DEF RemoveLookup, Key
  <2>. QED
    BY <2>1, <2>2
<1>8. CASE AlterLookup(t)
  <2>1. CASE Stored(k) # None
    BY <1>2, <1>3, <1>4, <1>8, <2>1, StageStep DEF AlterLookup, FindMut, TryMap, Key, Slot
  <2>2. CASE Stored(k) = None
    BY <1>2, <1>3, <1>8, <2>2, FinishStep DEF AlterLookup, Key
  <2>. QED
    BY <2>1, <2>2
<1>. QED
  BY <1>5, <1>6, <1>7, <1>8

-----------------------------------------------------------------------------
(* The second step of a call on a key *)

\* The handle that a call on a key has in its second stage.
LEMMA SecondStage ==
  ASSUME IInv, NEW t \in Threads,
         call[t].op \in {"inserting", "removing", "remove_if_closure",
                         "remove_if_mut_closure", "view_closure"}
  PROVE  /\ call[t].key \in Keys /\ call[t].slot \in Slots /\ ~HasHole(call[t])
         /\ held[t][call[t].slot].keys = {call[t].key}
         /\ held[t][call[t].slot].kind \in EntryKinds \cup {"Ref"}
         /\ call[t].op # "view_closure" => held[t][call[t].slot].kind \in EntryKinds
         /\ Stored(call[t].key) \in Values \cup {None}
<1>1. CallFits(call[t], held[t])
  BY DEF IInv, CallsFit
<1>2. /\ call[t].key \in Keys /\ call[t].slot \in Slots
      /\ held[t][call[t].slot].keys = {call[t].key}
      /\ held[t][call[t].slot].kind \in EntryKinds \cup {"Ref"}
      /\ call[t].op # "view_closure" => held[t][call[t].slot].kind \in EntryKinds
  BY <1>1 DEF CallFits, HasOne, EntryKinds
<1>3. Stored(call[t].key) \in Values \cup {None}
  BY <1>2, HomeOfKey DEF IInv, TableInv, TableTypeOK, ShardTables, Stored
<1>. QED
  BY <1>2, <1>3 DEF HasHole

\* The element is written or taken out, and the call returns.
LEMMA StoreAndReturn ==
  ASSUME IInv, NEW t \in Threads,
         call[t].op \in {"inserting", "removing", "remove_if_closure",
                         "remove_if_mut_closure"},
         NEW v \in Values \cup {None}, Store(call[t].key, v), DropHandle(t, call[t].slot),
         NEW r \in Values \cup {None}, FinishWith(t, r), UNCHANGED <<holes, aborted, calls>>
  PROVE  IInv'
<1>1. TableInv' /\ Own(t)
  BY SecondStage, StoreDropKeeps DEF IInv, EntryKinds
<1>. QED
  BY <1>1, SecondStage, FinishStep

LEMMA ClosureSteps ==
  ASSUME IInv, NEW t \in Threads,
         \/ ViewClosure(t) \/ ClosurePanics(t) \/ Insert(t) \/ Remove(t)
         \/ RemoveIf(t) \/ RemoveIfMut(t)
  PROVE  IInv'
<1>1. ASSUME call[t].op \in {"view_closure", "remove_if_closure"},
             DropHandle(t, call[t].slot), UNCHANGED <<shards, holes, aborted, calls>>,
             Finish(t) \/ \E r \in Values \cup {None} : FinishWith(t, r)
      PROVE  IInv'
  <2>1. TableInv' /\ Own(t)
    BY <1>1, SecondStage, DropKeeps, PutIsOwn DEF IInv, DropHandle
  <2>. QED
    BY <1>1, <2>1, SecondStage, FinishStep
<1>2. CASE ViewClosure(t)
  BY <1>1, <1>2, SecondStage DEF ViewClosure, In, Slot, Key
<1>3. CASE ClosurePanics(t)
  BY <1>1, <1>3 DEF ClosurePanics, Slot
<1>4. CASE Insert(t)
  <2>1. PICK v \in Values : Store(call[t].key, v)
    BY <1>4 DEF Insert, Key
  <2>2. PICK r \in Values \cup {None} : FinishWith(t, r)
    BY <1>4, SecondStage DEF Insert, In, Key
  <2>. QED
    BY <1>4, <2>1, <2>2, StoreAndReturn DEF Insert, In, Slot
<1>5. ASSUME call[t].op \in {"removing", "remove_if_closure", "remove_if_mut_closure"},
             OccupiedRemove(t, call[t].slot), UNCHANGED <<holes, aborted, calls>>,
             \E r \in Values \cup {None} : FinishWith(t, r)
      PROVE  IInv'
  <2>1. Store(call[t].key, None) /\ DropHandle(t, call[t].slot)
    BY <1>5, SecondStage DEF OccupiedRemove
  <2>. QED
    BY <1>5, <2>1, StoreAndReturn
<1>6. CASE Remove(t)
  BY <1>5, <1>6, SecondStage DEF Remove, In, Slot, Key
<1>7. CASE RemoveIf(t)
  BY <1>1, <1>5, <1>7, SecondStage DEF RemoveIf, In, Slot, Key
<1>8. CASE RemoveIfMut(t)
  <2>1. CASE OccupiedRemove(t, call[t].slot) /\ \E v \in Values : FinishWith(t, v)
    BY <1>5, <1>8, <2>1 DEF RemoveIfMut, In
  <2>2. CASE OccupiedReplace(t, call[t].slot) /\ (FinishWith(t, None) \/ Finish(t))
    <3>1. PICK v \in Values : Store(call[t].key, v) /\ DropHandle(t, call[t].slot)
      BY <1>8, <2>2, SecondStage DEF OccupiedReplace, RemoveIfMut, In
    <3>2. TableInv' /\ Own(t)
      BY <1>8, <3>1, SecondStage, StoreDropKeeps DEF IInv, EntryKinds, RemoveIfMut, In
    <3>. QED
      BY <1>8, <2>2, <3>2, SecondStage, FinishStep DEF RemoveIfMut, In
  <2>. QED
    BY <1>8, <2>1, <2>2 DEF RemoveIfMut, Slot
<1>. QED
  BY <1>2, <1>3, <1>4, <1>6, <1>7, <1>8

-----------------------------------------------------------------------------
(* alter and alter_all *)

LEMMA AlterAllStep ==
  ASSUME IInv, NEW t \in Threads, AlterAll(t)
  PROVE  IInv'
<1>. DEFINE c == Call("alter_all", None, FreeSlot(t))
<1>1. TableInv' /\ Own(t) /\ held'[t][FreeSlot(t)].kind = "IterMut"
  BY NewIteratorKeeps DEF AlterAll, IInv, IteratorKinds
<1>2. FreeSlot(t) \in Slots
  BY FreeSlotIsFree DEF AlterAll
<1>3. c \in CallRecords /\ c.op = "alter_all" /\ c.slot = FreeSlot(t) /\ c.key = None
  BY <1>2, ShardAssumption
     DEF Call, CallRecords, Nothing, Stages, CallOps, Shards, Slots
<1>4. GoesOnAs(t, c) /\ ~HasHole(call[t])
  BY DEF AlterAll, GoesOnAs, HasHole, Idle, Call
<1>. HIDE DEF c
<1>5. CallFits(c, held'[t])
  BY <1>1, <1>2, <1>3 DEF CallFits, KeyOps, Traversals, ReadTraversals, Serializing
<1>. QED
  BY <1>1, <1>3, <1>4, <1>5, PlainStep, CountDown DEF AlterAll, IInv, RestTypeOK

\* The iterator of alter_all.
LEMMA AlteringAll ==
  ASSUME IInv, NEW t \in Threads, call[t].op \in {"alter_all", "alter_all_closure"}
  PROVE  /\ call[t].slot \in Slots
         /\ held[t][call[t].slot].kind = "IterMut"
         /\ call[t].op = "alter_all" => call[t].key = None
         /\ call[t].op = "alter_all_closure" => call[t].key \in held[t][call[t].slot].keys
BY DEF IInv, CallsFit, CallFits

LEMMA AlterAllNextShardStep ==
  ASSUME IInv, NEW t \in Threads, AlterAllNextShard(t)
  PROVE  IInv'
<1>1. call[t].op = "alter_all" /\ NextShard(t, call[t].slot) /\ UNCHANGED <<shards, call>>
  BY DEF AlterAllNextShard, In, Slot
<1>2. /\ call[t].slot \in Slots /\ held[t][call[t].slot].kind = "IterMut"
      /\ call[t].key = None
  BY <1>1, AlteringAll
<1>3. TableInv' /\ Own(t)
  BY <1>1, <1>2, NextShardKeeps DEF IInv, IteratorKinds
<1>4. held'[t][call[t].slot].kind = "IterMut"
  BY <1>1, <1>2, PutIsOwn DEF NextShard, Handle, IInv
<1>5. call[t] \in CallRecords /\ GoesOnAs(t, call[t]) /\ CallFits(call[t], held'[t])
  BY <1>1, <1>2, <1>4, CallFields DEF CallFits, KeyOps, GoesOnAs, IInv,
     Traversals, ReadTraversals, Serializing
<1>. QED
  BY <1>3, <1>5, PlainStep DEF AlterAllNextShard, IInv, RestTypeOK

LEMMA AlterAllEndsStep ==
  ASSUME IInv, NEW t \in Threads, AlterAllEnds(t)
  PROVE  IInv'
<1>1. call[t].op = "alter_all" /\ DropHandle(t, call[t].slot)
  BY DEF AlterAllEnds, In, Slot
<1>2. TableInv' /\ Own(t)
  BY <1>1, AlteringAll, DropKeeps, PutIsOwn DEF AlterAllEnds, IInv, DropHandle
<1>. QED
  BY <1>1, <1>2, FinishStep DEF AlterAllEnds, HasHole

\* The value that is taken out is one that the call has its handle on.
LEMMA AlterTakeStep ==
  ASSUME IInv, NEW t \in Threads, AlterTake(t)
  PROVE  IInv'
<1>1. PICK k \in held[t][call[t].slot].keys :
        /\ holes' = holes \cup {k}
        /\ Continue(t, [call[t] EXCEPT
             !.op = IF In(t, "altering") THEN "alter_closure" ELSE "alter_all_closure",
             !.key = k])
  BY DEF AlterTake, Slot
<1>2. /\ call[t].op \in {"altering", "alter_all"}
      /\ UNCHANGED <<shards, held, aborted, calls>>
  BY DEF AlterTake
<1>. DEFINE op == IF In(t, "altering") THEN "alter_closure" ELSE "alter_all_closure"
            c == [call[t] EXCEPT !.op = op, !.key = k]
<1>3. /\ call[t].slot \in Slots
      /\ call[t].op = "altering" => HasOne(call[t], held[t], {"RefMut"})
      /\ call[t].op = "alter_all" => held[t][call[t].slot].kind = "IterMut"
  BY <1>2 DEF IInv, CallsFit, CallFits, HasOne
<1>4. k \in Keys
  BY <1>1, <1>3, HandleFields DEF IInv, TableInv
<1>5. op \in Stages /\ HasHole(c)
  BY CallFields DEF Stages, CallOps, Closures, HasHole, CallRecords, IInv
<1>6. /\ c \in CallRecords /\ c.op = op /\ c.key = k /\ c.slot = call[t].slot
  BY <1>4, <1>5, CallFields DEF CallRecords, IInv
<1>7. GoesOnAs(t, c)
  BY <1>1 DEF GoesOnAs
<1>8. CallFits(c, held'[t])
  <2>1. held' = held
    BY <1>2
  <2>2. CASE call[t].op = "altering"
    <3>1. op = "alter_closure" /\ k = call[t].key
      BY <1>1, <1>3, <2>2 DEF In, HasOne
    <3>. HIDE DEF c, op
    <3>. QED
      BY <1>3, <1>4, <1>6, <2>1, <2>2, <3>1
         DEF CallFits, HasOne, KeyOps, Traversals, ReadTraversals, Serializing
  <2>3. CASE call[t].op = "alter_all"
    <3>1. op = "alter_all_closure"
      BY <2>3 DEF In
    <3>. HIDE DEF c, op
    <3>. QED
      BY <1>1, <1>3, <1>6, <2>1, <2>3, <3>1 DEF CallFits, KeyOps, Traversals, ReadTraversals, Serializing
  <2>. QED
    BY <1>2, <2>2, <2>3
<1>. HIDE DEF c, op
<1>9. TableInv' /\ Own(t)
  BY <1>2, NothingChanges DEF IInv
<1>10. /\ call' \in [Threads -> CallRecords] /\ call'[t] = c /\ CallsFit'
       /\ \A u \in Threads \ {t} : call'[u] = call[u]
  BY <1>6, <1>7, <1>8, <1>9, OneThreadSteps
<1>11. HolesFit'
  <2>1. SUFFICES ASSUME NEW x \in holes'
                 PROVE  \E u \in Threads : HasHole(call'[u]) /\ call'[u].key = x
    BY DEF HolesFit, HasHole
  <2>2. CASE x = k
    BY <1>5, <1>6, <1>10, <2>2
  <2>3. CASE x \in holes
    <3>1. PICK u \in Threads : HasHole(call[u]) /\ call[u].key = x
      BY <2>3 DEF IInv, HolesFit
    <3>2. u # t
      BY <1>2, <3>1 DEF HasHole
    <3>. QED
      BY <1>10, <3>1, <3>2
  <2>. QED
    BY <1>1, <2>2, <2>3
<1>. QED
  BY <1>1, <1>2, <1>4, <1>9, <1>10, <1>11 DEF IInv, RestTypeOK

LEMMA AlterPutStep ==
  ASSUME IInv, NEW t \in Threads, AlterPut(t)
  PROVE  IInv'
<1>. DEFINE k == call[t].key
            i == call[t].slot
<1>1. PICK v \in Values : Store(k, v)
  BY DEF AlterPut, Key
<1>2. /\ call[t].op \in {"alter_closure", "alter_all_closure"}
      /\ holes' = holes \ {k} /\ UNCHANGED <<aborted, calls>>
  BY DEF AlterPut, Key
<1>3. /\ i \in Slots /\ k \in held[t][i].keys /\ k \in Keys
      /\ call[t].op = "alter_closure" => held[t][i].kind = "RefMut"
      /\ call[t].op = "alter_all_closure" => held[t][i].kind = "IterMut"
  <2>1. CallFits(call[t], held[t])
    BY DEF IInv, CallsFit
  <2>2. i \in Slots /\ k \in held[t][i].keys
    BY <1>2, <2>1 DEF CallFits, HasOne
  <2>3. /\ call[t].op = "alter_closure" => held[t][i].kind = "RefMut"
        /\ call[t].op = "alter_all_closure" => held[t][i].kind = "IterMut"
    BY <1>2, <2>1 DEF CallFits, HasOne
  <2>. QED
    BY <2>2, <2>3, HandleFields DEF IInv, TableInv
<1>4. PICK c \in CallRecords :
        TableInv' /\ Own(t) /\ GoesOnAs(t, c) /\ CallFits(c, held'[t])
  <2>1. CASE call[t].op = "alter_closure"
    <3>1. DropHandle(t, i) /\ Continue(t, Idle)
      BY <2>1 DEF AlterPut, In, Slot, Finish
    <3>. QED
      BY <1>1, <1>3, <2>1, <3>1, StoreDropKeeps, IdleFits DEF IInv, GoesOnAs
  <2>2. CASE call[t].op = "alter_all_closure"
    <3>1. /\ held' = [held EXCEPT ![t][i].keys = @ \ {k}]
          /\ Continue(t, [call[t] EXCEPT !.op = "alter_all", !.key = None])
      BY <2>2 DEF AlterPut, In, Slot, Key
    <3>2. held[t][i] \in Handles
      BY <1>3 DEF IInv, TableInv, TableTypeOK
    <3>. DEFINE h == [held[t][i] EXCEPT !.keys = @ \ {k}]
                c == [call[t] EXCEPT !.op = "alter_all", !.key = None]
    <3>3. /\ h \in Handles /\ h.kind = held[t][i].kind /\ h.shard = held[t][i].shard
          /\ h.keys \subseteq held[t][i].keys
      BY <3>2 DEF Handles
    <3>4. PutHandle(t, i, h)
      BY <1>3, <3>1 DEF PutHandle, IInv, TableInv, TableTypeOK
    <3>5. c \in CallRecords /\ c.op = "alter_all" /\ c.slot = i /\ c.key = None
      BY CallFields DEF CallRecords, Stages, CallOps, IInv
    <3>6. GoesOnAs(t, c)
      BY <3>1 DEF GoesOnAs
    <3>. HIDE DEF h, c
    <3>7. TableInv' /\ Own(t) /\ held'[t][i] = h
      <4>1. held[t][i].kind = "IterMut" /\ held[t][i].kind \in ExclusiveKinds
        BY <1>3, <2>2 DEF ExclusiveKinds
      <4>. QED
        BY <1>1, <1>3, <3>3, <3>4, <4>1, StoreAndKeep, PutIsOwn DEF IInv
    <3>8. CallFits(c, held'[t])
      BY <1>3, <2>2, <3>3, <3>5, <3>7 DEF CallFits, KeyOps, Traversals, ReadTraversals, Serializing
    <3>. QED
      BY <3>5, <3>6, <3>7, <3>8
  <2>. QED
    BY <1>2, <2>1, <2>2
<1>5. /\ call' \in [Threads -> CallRecords] /\ CallsFit'
      /\ \A u \in Threads \ {t} : call'[u] = call[u]
  BY <1>4, OneThreadSteps
<1>6. HolesFit'
  <2>1. SUFFICES ASSUME NEW x \in holes'
                 PROVE  \E u \in Threads : HasHole(call'[u]) /\ call'[u].key = x
    BY DEF HolesFit, HasHole
  <2>2. PICK u \in Threads : HasHole(call[u]) /\ call[u].key = x
    BY <1>2, <2>1 DEF IInv, HolesFit
  <2>3. u # t
    BY <1>2, <2>1, <2>2
  <2>. QED
    BY <1>5, <2>2, <2>3
<1>. QED
  BY <1>2, <1>4, <1>5, <1>6 DEF IInv, RestTypeOK

LEMMA AlterPanicsStep ==
  ASSUME IInv, NEW t \in Threads, AlterPanics(t)
  PROVE  IInv'
<1>1. TableInv' /\ Own(t) /\ UNCHANGED <<held, call, holes, calls>> /\ aborted' \in BOOLEAN
  BY NothingChanges DEF AlterPanics, IInv
<1>2. call[t] \in CallRecords /\ GoesOnAs(t, call[t]) /\ CallFits(call[t], held'[t])
  BY <1>1, CallFields DEF GoesOnAs, IInv, CallsFit
<1>. QED
  BY <1>1, <1>2, PlainStep DEF IInv, RestTypeOK

-----------------------------------------------------------------------------
(* Iterators *)

LEMMA BeginNextStep ==
  ASSUME IInv, NEW t \in Threads, BeginNext(t)
  PROVE  IInv'
<1>1. PICK i \in Slots :
        held[t][i].kind \in IteratorKinds /\ Continue(t, Call("next", None, i))
  BY DEF BeginNext, IteratorKinds
<1>2. /\ call[t] = Idle /\ UNCHANGED <<shards, held, holes, aborted, calls>>
      /\ \E j \in Slots : held[t][j] = NoHandle
  BY DEF BeginNext, FreeSlots
<1>. DEFINE c == Call("next", None, i)
<1>3. c \in CallRecords /\ c.op = "next" /\ c.slot = i
  BY ShardAssumption
     DEF Call, CallRecords, Nothing, Stages, CallOps, Shards, Slots
<1>4. GoesOnAs(t, c) /\ ~HasHole(call[t])
  BY <1>1, <1>2 DEF GoesOnAs, HasHole, Idle, Call
<1>. HIDE DEF c
<1>5. CallFits(c, held'[t])
  <2>1. held' = held
    BY <1>2
  <2>. QED
    BY <1>1, <1>2, <1>3, <2>1 DEF CallFits, KeyOps, Traversals, ReadTraversals, Serializing
<1>6. TableInv' /\ Own(t)
  BY <1>2, NothingChanges DEF IInv
<1>. QED
  BY <1>2, <1>3, <1>4, <1>5, <1>6, PlainStep DEF IInv, RestTypeOK

\* The iterator of next, and the slot for what it yields.
LEMMA Iterating ==
  ASSUME IInv, NEW t \in Threads, call[t].op = "next"
  PROVE  /\ call[t].slot \in Slots /\ held[t][call[t].slot].kind \in IteratorKinds
         /\ FreeSlots(t) # {} /\ ~HasHole(call[t])
         /\ \E j \in Slots : j # call[t].slot /\ held[t][j] = NoHandle
<1>1. CallFits(call[t], held[t])
  BY DEF IInv, CallsFit
<1>2. /\ call[t].slot \in Slots /\ held[t][call[t].slot].kind \in IteratorKinds
      /\ \E i \in Slots : held[t][i] = NoHandle
  BY <1>1 DEF CallFits
<1>3. NoHandle.kind \notin IteratorKinds
  BY DEF NoHandle, Handle, IteratorKinds
<1>. QED
  BY <1>2, <1>3 DEF FreeSlots, HasHole

LEMMA NextSteps ==
  ASSUME IInv, NEW t \in Threads, IterNextShard(t) \/ IterYield(t) \/ IterEnd(t)
  PROVE  IInv'
<1>1. call[t].op = "next" /\ UNCHANGED <<shards, holes, aborted, calls>>
  BY DEF IterNextShard, IterYield, IterEnd, In
<1>2. CASE IterNextShard(t)
  <2>1. NextShard(t, call[t].slot) /\ UNCHANGED call
    BY <1>2 DEF IterNextShard, Slot
  <2>2. TableInv' /\ Own(t)
    BY <1>1, <2>1, Iterating, NextShardKeeps DEF IInv
  <2>3. /\ held'[t][call[t].slot].kind \in IteratorKinds
        /\ \E j \in Slots : held'[t][j] = NoHandle
    <3>1. PICK h : PutHandle(t, call[t].slot, h) /\ h.kind = held[t][call[t].slot].kind
      BY <2>1 DEF NextShard, Handle
    <3>. QED
      BY <1>1, <3>1, Iterating, PutIsOwn DEF IInv
  <2>4. call[t] \in CallRecords /\ GoesOnAs(t, call[t]) /\ CallFits(call[t], held'[t])
    BY <1>1, <2>1, <2>3, Iterating, CallFields DEF CallFits, KeyOps, GoesOnAs, IInv,
       Traversals, ReadTraversals, Serializing
  <2>. QED
    BY <1>1, <2>1, <2>2, <2>4, PlainStep DEF IInv, RestTypeOK
<1>3. CASE IterYield(t)
  <2>1. Yield(t, call[t].slot) /\ Finish(t)
    BY <1>3 DEF IterYield, Slot
  <2>2. TableInv' /\ Own(t)
    BY <1>1, <2>1, Iterating, YieldKeeps DEF IInv
  <2>. QED
    BY <1>1, <2>1, <2>2, Iterating, FinishStep
<1>4. CASE IterEnd(t)
  <2>1. TableInv' /\ Own(t)
    BY <1>4, NothingChanges DEF IterEnd, IInv
  <2>. QED
    BY <1>1, <1>4, <2>1, Iterating, FinishStep DEF IterEnd
<1>. QED
  BY <1>2, <1>3, <1>4

-----------------------------------------------------------------------------
(* Calls on the whole map *)

\* What it has gathered when it has done a shard, and goes on to the next.
GatheredHere(c) ==
  \A k \in Keys : c.gathered[k] # None =>
    c.op \in {"fold", "serialize_entries"} /\ ShardOf[k] <= c.shard

\* A call that goes over the map does a shard, and goes on as c or returns.
LEMMA ShardStep ==
  ASSUME IInv, NEW t \in Threads, GoesOver(t), NEW c \in CallRecords,
         c.op \in Traversals \cup Serializing, c.shard = call[t].shard,
         GatheredHere(c), NextOrReturn(t, c),
         TableInv', Own(t), UNCHANGED <<holes, aborted, calls>>
  PROVE  IInv'
<1>1. PICK d \in CallRecords :
        /\ Continue(t, d) /\ d.op \in FreeOps
        /\ d.op \in Traversals \cup Serializing => GatheredSoFar(d)
  <2>1. CASE call[t].shard = ShardCount - 1
    <3>. DEFINE d == [c EXCEPT !.op = "return", !.shard = 0, !.slot = 0]
    <3>1. "return" \in Stages /\ 0 \in Shards /\ 0 \in 0..MaxHandles
      BY ShardAssumption, BoundAssumption DEF Stages, CallOps, Shards
    <3>2. d \in CallRecords /\ d.op = "return"
      BY <3>1 DEF CallRecords
    <3>. QED
      BY <2>1, <3>2 DEF NextOrReturn, AtShard, FreeOps, Traversals, ReadTraversals, Serializing
  <2>2. CASE call[t].shard # ShardCount - 1
    <3>. DEFINE d == [c EXCEPT !.shard = @ + 1]
    <3>1. call[t].shard + 1 \in Shards
      BY <2>2, CallFields, ShardAssumption DEF Shards, IInv
    <3>2. d \in CallRecords /\ d.op = c.op /\ d.shard = c.shard + 1 /\ d.gathered = c.gathered
      BY <3>1 DEF CallRecords
    <3>3. c.shard \in Int /\ \A k \in Keys : ShardOf[k] \in Int
      BY CallFields, HomeOfKey, ShardAssumption DEF Shards, IInv
    <3>. HIDE DEF d
    <3>4. GatheredSoFar(d)
      BY <3>2, <3>3 DEF GatheredSoFar, GatheredHere
    <3>5. Continue(t, d)
      BY <2>2 DEF NextOrReturn, AtShard, d
    <3>. QED
      BY <3>2, <3>4, <3>5 DEF FreeOps
  <2>. QED
    BY <2>1, <2>2
<1>2. GoesOnAs(t, d) /\ CallFits(d, held'[t]) /\ ~HasHole(call[t])
  BY <1>1, FreeFits, NoHoleYet DEF GoesOnAs, GoesOver, FreeOps
<1>. QED
  BY <1>2, PlainStep DEF IInv, RestTypeOK

LEMMA CountedRecord ==
  ASSUME IInv, NEW t \in Threads
  PROVE  /\ Counted(t) \in CallRecords
         /\ Counted(t).op = call[t].op /\ Counted(t).shard = call[t].shard
         /\ Counted(t).gathered = call[t].gathered
<1>1. Cardinality(Present(AtShard(t))) \in Nat
  BY KeysAssumption, FS_Subset, FS_CardinalityType DEF Present
<1>2. call[t] \in CallRecords
  BY CallFields DEF IInv
<1>. QED
  BY <1>1, <1>2 DEF Counted, CallRecords

LEMMA GatheredRecord ==
  ASSUME IInv, NEW t \in Threads
  PROVE  /\ Gathered(t) \in CallRecords
         /\ Gathered(t).op = call[t].op /\ Gathered(t).shard = call[t].shard
         /\ \A k \in Keys : Gathered(t).gathered[k] =
              IF k \in Present(AtShard(t)) THEN shards[AtShard(t)][k] ELSE call[t].gathered[k]
<1>1. call[t] \in CallRecords /\ call[t].shard \in Shards
  BY CallFields DEF IInv
<1>2. shards[AtShard(t)] \in [Keys -> Values \cup {None}]
  BY <1>1 DEF IInv, TableInv, TableTypeOK, ShardTables, AtShard
<1>. DEFINE g == [k \in Keys |-> IF k \in Present(AtShard(t)) THEN shards[AtShard(t)][k]
                                 ELSE call[t].gathered[k]]
<1>3. /\ g \in [Keys -> Values \cup {None}]
      /\ \A k \in Keys : g[k] = IF k \in Present(AtShard(t)) THEN shards[AtShard(t)][k]
                                 ELSE call[t].gathered[k]
  BY <1>1, <1>2 DEF CallRecords
<1>4. Gathered(t) = [call[t] EXCEPT !.gathered = g]
  BY <1>1 DEF Gathered, CallRecords
<1>. HIDE DEF g
<1>. QED
  BY <1>1, <1>3, <1>4 DEF CallRecords

\* The call has gathered what it has, and then what is in the shard.
LEMMA GatheringGoesOn ==
  ASSUME IInv, NEW t \in Threads, GoesOver(t)
  PROVE  /\ GatheredSoFar(call[t]) /\ GatheredHere(call[t]) /\ GatheredHere(Counted(t))
         /\ call[t].op \in {"fold", "serialize_entries"} => GatheredHere(Gathered(t))
<1>1. GatheredSoFar(call[t])
  BY DEF IInv, CallsFit, CallFits, GoesOver
<1>2. /\ call[t].shard \in Int /\ AtShard(t) = call[t].shard /\ AtShard(t) \in Shards
      /\ \A k \in Keys : ShardOf[k] \in Int
  BY CallFields, HomeOfKey, ShardAssumption DEF Shards, IInv, AtShard
<1>3. GatheredHere(call[t]) /\ GatheredHere(Counted(t))
  BY <1>1, <1>2, CountedRecord DEF GatheredSoFar, GatheredHere
<1>4. \A k \in Present(AtShard(t)) : k \in Keys /\ ShardOf[k] = call[t].shard
  BY <1>2 DEF Present, IInv, TableInv, Placed
<1>5. ASSUME call[t].op \in {"fold", "serialize_entries"}
      PROVE  GatheredHere(Gathered(t))
  BY <1>1, <1>2, <1>4, <1>5, GatheredRecord DEF GatheredSoFar, GatheredHere
<1>. QED
  BY <1>1, <1>3, <1>5

LEMMA ReadSteps ==
  ASSUME IInv, NEW t \in Threads,
         LenIn(t) \/ FoldIn(t) \/ Announce(t) \/ SerializeEntries(t)
  PROVE  IInv'
<1>1. TableInv' /\ Own(t) /\ UNCHANGED <<holes, aborted, calls>>
  BY NothingChanges DEF LenIn, FoldIn, Announce, SerializeEntries, IInv
<1>2. GoesOver(t) /\ call[t].op \in FreeOps /\ ~HasHole(call[t])
  BY NoHoleYet DEF LenIn, FoldIn, Announce, SerializeEntries, In, GoesOver, Traversals,
            ReadTraversals, Serializing, FreeOps
<1>3. CASE LenIn(t)
  BY <1>1, <1>2, <1>3, CountedRecord, GatheringGoesOn, ShardStep DEF LenIn, GoesOver
<1>4. CASE FoldIn(t)
  BY <1>1, <1>2, <1>4, GatheredRecord, GatheringGoesOn, ShardStep DEF FoldIn, GoesOver, In
<1>5. CASE Announce(t)
  <2>. DEFINE Goes(d) == /\ Continue(t, d) /\ d.op \in FreeOps
                         /\ d.op \in Traversals \cup Serializing => GatheredSoFar(d)
  <2>0. \A k \in Keys : Counted(t).gathered[k] = None
    BY <1>2, <1>5, GatheringGoesOn, CountedRecord DEF GatheredSoFar, Announce, In
  <2>1. PICK d \in CallRecords : Goes(d)
    <3>1. CASE Finish(t)
      BY <3>1, IdleFits DEF Finish, FreeOps, Traversals, ReadTraversals, Serializing
    <3>2. CASE Continue(t, [Counted(t) EXCEPT !.op = "serialize_entries", !.shard = 0])
      <4>. DEFINE d == [Counted(t) EXCEPT !.op = "serialize_entries", !.shard = 0]
      <4>1. "serialize_entries" \in Stages /\ 0 \in Shards
        BY ShardAssumption DEF Stages, CallOps, Shards, Serializing
      <4>2. /\ d \in CallRecords /\ d.op = "serialize_entries"
            /\ d.gathered = Counted(t).gathered
        BY <4>1, CountedRecord DEF CallRecords
      <4>. QED
        BY <2>0, <3>2, <4>2 DEF FreeOps, Serializing, GatheredSoFar
    <3>3. CASE /\ AtShard(t) # ShardCount - 1
               /\ Continue(t, [Counted(t) EXCEPT !.shard = @ + 1])
      <4>. DEFINE d == [Counted(t) EXCEPT !.shard = @ + 1]
      <4>1. call[t].shard + 1 \in Shards
        BY <3>3, CallFields, ShardAssumption DEF Shards, IInv, AtShard
      <4>2. /\ d \in CallRecords /\ d.op = call[t].op
            /\ d.gathered = Counted(t).gathered
        BY <4>1, CountedRecord DEF CallRecords
      <4>. QED
        BY <1>2, <2>0, <3>3, <4>2 DEF GatheredSoFar
    <3>. QED
      BY <1>5, <3>1, <3>2, <3>3 DEF Announce
  <2>2. GoesOnAs(t, d) /\ CallFits(d, held'[t])
    BY <2>1, FreeFits DEF GoesOnAs
  <2>. QED
    BY <1>1, <1>2, <2>2, PlainStep DEF IInv, RestTypeOK
<1>6. CASE SerializeEntries(t)
  <2>1. CASE NextOrReturn(t, Gathered(t))
    BY <1>1, <1>2, <1>6, <2>1, GatheredRecord, GatheringGoesOn, ShardStep
       DEF GoesOver, SerializeEntries, In
  <2>2. CASE Finish(t)
    BY <1>1, <1>2, <2>2, FinishStep
  <2>. QED
    BY <1>6, <2>1, <2>2 DEF SerializeEntries
<1>. QED
  BY <1>3, <1>4, <1>5, <1>6

LEMMA SweepSteps ==
  ASSUME IInv, NEW t \in Threads, Retain(t) \/ Clear(t) \/ ShrinkToFit(t)
  PROVE  IInv'
<1>1. /\ GoesOver(t) /\ call[t].op \in Traversals /\ ~HasHole(call[t])
      /\ call[t] \in CallRecords /\ AtShard(t) \in Shards
      /\ UNCHANGED <<held, holes, aborted, calls>>
  BY CallFields DEF Retain, Clear, ShrinkToFit, In, GoesOver, Traversals, HasHole, IInv, AtShard
<1>2. TableInv' /\ Own(t)
  <2>1. CASE Retain(t) \/ Clear(t)
    BY <1>1, <2>1, SweepKeeps DEF Retain, Clear, IInv, Own
  <2>2. CASE ShrinkToFit(t)
    BY <1>1, <2>2, NothingChanges DEF ShrinkToFit, ShrinkIn, IInv
  <2>. QED
    BY <2>1, <2>2
<1>3. CASE NextOrReturn(t, call[t])
  BY <1>1, <1>2, <1>3, GatheringGoesOn, ShardStep
<1>4. CASE Finish(t)
  BY <1>1, <1>2, <1>4, FinishStep
<1>. QED
  BY <1>3, <1>4 DEF Retain, Clear, ShrinkToFit

LEMMA ReturnStep ==
  ASSUME IInv, NEW t \in Threads, Return(t)
  PROVE  IInv'
<1>1. TableInv' /\ Own(t)
  BY NothingChanges DEF Return, IInv
<1>. QED
  BY <1>1, FinishStep DEF Return, In, HasHole

-----------------------------------------------------------------------------
(* The invariant *)

LEMMA InitFits == Init => IInv
<1>. SUFFICES ASSUME Init PROVE IInv
  OBVIOUS
<1>1. NoHandle \in Handles /\ NoHandle.shard = -1 /\ NoHandle.keys = {} /\ NoHandle.kind = "none"
  BY ShardAssumption DEF NoHandle, Handle, Handles
<1>2. \A t \in Threads, i \in Slots : held[t][i] = NoHandle
  BY DEF Init
<1>3. TableTypeOK /\ Placed
  BY <1>1 DEF Init, TableTypeOK, ShardTables, Placed
<1>4. HandlesFit /\ GuardsExclude
  BY <1>1, <1>2 DEF HandlesFit, GuardsExclude, Fits, Compatible
<1>5. RestTypeOK /\ CallsFit /\ HolesFit
  BY IdleFits, BoundAssumption DEF Init, RestTypeOK, CallsFit, HolesFit
<1>. QED
  BY <1>3, <1>4, <1>5 DEF IInv, TableInv

LEMMA ProceedFits ==
  ASSUME IInv, NEW t \in Threads, Proceed(t)
  PROVE  IInv'
BY LookupSteps, StageLookups, ClosureSteps, AlterTakeStep, AlterPutStep, AlterPanicsStep,
   AlterAllNextShardStep, AlterAllEndsStep, NextSteps, ReadSteps, SweepSteps, ReturnStep
   DEF Proceed

LEMMA StutterFits == IInv /\ UNCHANGED vars => IInv'
BY DEF vars, IInv, TableInv, TableTypeOK, Placed, HandlesFit, Fits, Stored, GuardsExclude,
       Compatible, RestTypeOK, CallsFit, CallFits, HasOne, HolesFit, HasHole

LEMMA StepFits ==
  ASSUME IInv, NEW t \in Threads, Step(t)
  PROVE  IInv'
BY BeginSteps, TryCallStep, AlterAllStep, IdleSteps, BeginNextStep, ProceedFits DEF Step

LEMMA NextFits == IInv /\ [Next]_vars => IInv'
<1>. SUFFICES ASSUME IInv, [Next]_vars PROVE IInv'
  OBVIOUS
<1>1. CASE UNCHANGED vars
  BY <1>1, StutterFits
<1>2. CASE Terminating
  BY <1>2, StutterFits DEF Terminating
<1>3. CASE \E t \in Threads : Step(t)
  BY <1>3, StepFits
<1>. QED
  BY <1>1, <1>2, <1>3 DEF Next

LEMMA Invariance == Spec => []IInv
<1>. QED
  BY InitFits, NextFits, PTL DEF Spec

-----------------------------------------------------------------------------
(* A step is a thread's own *)

LEMMA StepIsOwn ==
  ASSUME IInv, NEW t \in Threads, Step(t)
  PROVE  \A u \in Threads \ {t} : held'[u] = held[u] /\ call'[u] = call[u]
<1>. DEFINE Moves == UNCHANGED call \/ \E c : Continue(t, c)
            Puts == UNCHANGED held \/ \E i, h : PutHandle(t, i, h)
<1>1. ASSUME Moves  PROVE \A u \in Threads \ {t} : call'[u] = call[u]
  BY <1>1 DEF Continue, IInv, RestTypeOK
<1>2. ASSUME Puts  PROVE Own(t)
  BY <1>2 DEF PutHandle, Own, IInv, TableInv, TableTypeOK
<1>3. \A c : Continue(t, c) => Moves
  OBVIOUS
<1>4. \A i, h : PutHandle(t, i, h) => Puts
  OBVIOUS
<1>5. UNCHANGED call => Moves
  OBVIOUS
<1>6. UNCHANGED held => Puts
  OBVIOUS
<1>. HIDE DEF Moves, Puts
<1>7. (Finish(t) => Moves) /\ (\A r : FinishWith(t, r) => Moves) /\ (\A op : Become(t, op) => Moves)
      /\ (\A c : NextOrReturn(t, c) => Moves)
  BY <1>3 DEF Finish, FinishWith, Become, NextOrReturn
<1>8. /\ \A i : DropHandle(t, i) => Puts
      /\ \A k, i : Find(t, k, i) \/ FindMut(t, k, i) \/ Entry(t, k, i) \/ FindEntry(t, k, i) => Puts
      /\ \A i : NextShard(t, i) => Puts
      /\ \A kind : NewIterator(t, kind) => Puts
      /\ \A i : OccupiedRemove(t, i) \/ OccupiedReplace(t, i) => Puts
  BY <1>4, <1>6 DEF DropHandle, Find, FindMut, Entry, FindEntry, TryMap, NextShard, NewIterator,
                    OccupiedRemove, OccupiedReplace
<1>9. CASE BeginKeyOp(t) \/ BeginOperator(t) \/ BeginTraversal(t) \/ AlterAll(t)
           \/ NewIter(t) \/ BeginNext(t) \/ Drop(t)
  <2>1. Moves /\ Puts
    BY <1>3, <1>5, <1>6, <1>8, <1>9
       DEF BeginKeyOp, BeginOperator, BeginTraversal, Begin, BeginAs, AlterAll, NewIter,
           BeginNext, Drop
  <2>. QED
    BY <1>1, <1>2, <2>1 DEF Own
<1>10. CASE TryCall(t)
  <2>1. Moves /\ Puts
    BY <1>5, <1>6, <1>8, <1>10
       DEF TryCall, TryGet, TryGetMut, TryGetEntry, TryFind, TryFindMut, TryEntry,
           LockedToReaders, LockedToWriters
  <2>. QED
    BY <1>1, <1>2, <2>1 DEF Own
<1>11. CASE UseHandle(t)
  <2>1. PICK i \in Slots : Use(t, i)
    BY <1>11 DEF UseHandle
  <2>2. Puts
    BY <1>4, <1>6, <1>8, <2>1
       DEF Use, AndModify, WriteThrough, OccupiedReplace, Ends, IntoKey, OrInsert,
           OccupiedIntoMut, VacantInsert, OccupiedInsert, EntryInsert, EntryInsertEntry,
           OccupiedOps, OccupiedRemove, MapRef, MapRefMut, ValueMut, MultiValueMut,
           DowngradeRef, Downgrade, CloneMulti, CloneIter, CloneHandle
  <2>. QED
    BY <1>1, <1>2, <1>5, <1>11, <2>2 DEF Own, UseHandle
<1>12. CASE Get(t) \/ ContainsKey(t) \/ GetMut(t) \/ View(t) \/ ViewClosure(t)
            \/ GetEntry(t) \/ InsertLookup(t) \/ Insert(t) \/ RemoveLookup(t) \/ Remove(t)
            \/ RemoveIf(t) \/ RemoveIfMut(t) \/ ClosurePanics(t) \/ AlterLookup(t)
  <2>1. Moves
    BY <1>7, <1>12
       DEF Get, ContainsKey, GetMut, View, ViewClosure, GetEntry, InsertLookup, Insert,
           RemoveLookup, Remove, RemoveIf, RemoveIfMut, ClosurePanics, AlterLookup
  <2>2. Puts
    BY <1>6, <1>8, <1>12
       DEF Get, ContainsKey, GetMut, View, ViewClosure, GetEntry, InsertLookup, Insert,
           RemoveLookup, Remove, RemoveIf, RemoveIfMut, ClosurePanics, AlterLookup
  <2>. QED
    BY <1>1, <1>2, <2>1, <2>2 DEF Own
<1>13. CASE AlterTake(t) \/ AlterPanics(t) \/ AlterAllNextShard(t) \/ AlterAllEnds(t)
            \/ IterNextShard(t) \/ IterEnd(t) \/ Return(t)
  <2>1. Moves /\ Puts
    BY <1>3, <1>5, <1>6, <1>7, <1>8, <1>13
       DEF AlterTake, AlterPanics, AlterAllNextShard, AlterAllEnds, IterNextShard, IterEnd, Return
  <2>. QED
    BY <1>1, <1>2, <2>1 DEF Own
<1>14. CASE LenIn(t) \/ FoldIn(t) \/ Announce(t) \/ SerializeEntries(t) \/ Retain(t)
            \/ Clear(t) \/ ShrinkToFit(t)
  <2>1. Moves /\ Puts
    BY <1>3, <1>6, <1>7, <1>14
       DEF LenIn, FoldIn, Announce, SerializeEntries, Retain, Clear, ShrinkToFit
  <2>. QED
    BY <1>1, <1>2, <2>1 DEF Own
<1>15. CASE AlterPut(t) \/ IterYield(t)
  <2>1. Moves
    BY <1>3, <1>7, <1>15 DEF AlterPut, IterYield
  <2>2. CASE AlterPut(t)
    <3>1. Puts \/ held' = [held EXCEPT ![t][Slot(t)].keys = @ \ {Key(t)}]
      BY <1>8, <2>2 DEF AlterPut
    <3>. QED
      BY <1>1, <1>2, <2>1, <3>1 DEF Own, IInv, TableInv, TableTypeOK
  <2>3. CASE IterYield(t)
    <3>1. PICK k \in held[t][Slot(t)].keys :
            held' = [held EXCEPT
              ![t][Slot(t)].keys = @ \ {k},
              ![t][FreeSlot(t)] =
                 Handle(IF held[t][Slot(t)].kind = "Iter" THEN "RefMulti" ELSE "RefMutMulti",
                        held[t][Slot(t)].shard, {k})]
      BY <2>3 DEF IterYield, Yield
    <3>. QED
      BY <1>1, <2>1, <3>1 DEF IInv, TableInv, TableTypeOK
  <2>. QED
    BY <1>15, <2>2, <2>3
<1>. QED
  BY <1>9, <1>10, <1>11, <1>12, <1>13, <1>14, <1>15 DEF Step, Proceed

-----------------------------------------------------------------------------
(* What it says *)

\* The stages that a call of the map goes through are those of CallOps.
KnownStages == \A t \in Threads : call[t].op \in CallOps

LEMMA StageIsKnown ==
  ASSUME IInv, NEW t \in Threads, Step(t)
  PROVE  UNCHANGED call \/ \E c : Continue(t, c) /\ c.op \in CallOps
<1>. DEFINE Moves == UNCHANGED call \/ \E c : Continue(t, c) /\ c.op \in CallOps
<1>. SUFFICES Moves
  OBVIOUS
<1>1. \A op \in CallOps : \A k, i : Call(op, k, i).op \in CallOps
  BY DEF Call
<1>2. ASSUME NEW op \in CallOps, Become(t, op)  PROVE Moves
  <2>1. call[t] \in CallRecords
    BY CallFields DEF IInv
  <2>2. [call[t] EXCEPT !.op = op].op = op
    BY <2>1 DEF CallRecords
  <2>. QED
    BY <1>2, <2>2 DEF Become
<1>3. Closures \subseteq CallOps /\ {"idle", "return", "next", "alter_all"} \subseteq CallOps
      /\ KeyOps \subseteq CallOps /\ Traversals \subseteq CallOps
  BY DEF CallOps
<1>4. Finish(t) => Moves
  BY <1>1, <1>3 DEF Finish, Idle
<1>5. ASSUME NEW r, FinishWith(t, r)  PROVE Moves
  <2>1. [Idle EXCEPT !.op = "return", !.result = r].op = "return"
    BY DEF Idle, Call
  <2>. QED
    BY <1>3, <1>5, <2>1 DEF FinishWith
<1>6. ASSUME NEW c \in CallRecords, c.op \in CallOps, NextOrReturn(t, c)  PROVE Moves
  <2>1. /\ [c EXCEPT !.op = "return", !.shard = 0, !.slot = 0].op = "return"
        /\ [c EXCEPT !.shard = @ + 1].op = c.op
    BY <1>6 DEF CallRecords
  <2>2. CASE Continue(t, [c EXCEPT !.op = "return", !.shard = 0, !.slot = 0])
    BY <1>3, <2>1, <2>2
  <2>3. CASE Continue(t, [c EXCEPT !.shard = @ + 1])
    BY <1>6, <2>1, <2>3
  <2>. QED
    BY <1>6, <2>2, <2>3 DEF NextOrReturn
<1>7. UNCHANGED call => Moves
  OBVIOUS
<1>8. \A op \in KeyOps \cup Traversals \cup {"next", "alter_all"} : \A k, i :
        Continue(t, Call(op, k, i)) => Moves
  BY <1>1, <1>3
<1>. HIDE DEF Moves
<1>9. CASE BeginKeyOp(t) \/ BeginOperator(t) \/ BeginTraversal(t)
  <2>1. ASSUME NEW op \in KeyOps \cup Traversals, NEW k, BeginAs(t, op, k)  PROVE Moves
    BY <1>8, <2>1 DEF BeginAs
  <2>2. CASE BeginKeyOp(t) \/ BeginTraversal(t)
    BY <2>1, <2>2 DEF BeginKeyOp, BeginTraversal, Begin
  <2>3. CASE BeginOperator(t)
    <3>1. PICK name \in DOMAIN OperatorCall, k \in Keys : BeginAs(t, OperatorCall[name], k)
      BY <2>3 DEF BeginOperator
    <3>2. OperatorCall[name] \in KeyOps
      BY DEF OperatorCall, KeyOps
    <3>. QED
      BY <2>1, <3>1, <3>2
  <2>. QED
    BY <1>9, <2>2, <2>3
<1>10. CASE TryCall(t) \/ NewIter(t) \/ UseHandle(t) \/ Drop(t) \/ AlterPanics(t)
            \/ AlterAllNextShard(t) \/ IterNextShard(t)
  BY <1>7, <1>10 DEF TryCall, NewIter, UseHandle, Drop, AlterPanics, AlterAllNextShard,
                     IterNextShard
<1>11. CASE AlterAll(t) \/ BeginNext(t)
  BY <1>8, <1>11 DEF AlterAll, BeginNext
<1>12. CASE Get(t) \/ GetMut(t) \/ GetEntry(t) \/ ContainsKey(t) \/ View(t) \/ InsertLookup(t)
            \/ AlterLookup(t)
  BY <1>2, <1>3, <1>4, <1>5, <1>12
     DEF Get, GetMut, GetEntry, ContainsKey, View, InsertLookup, AlterLookup, Closures
<1>13. CASE RemoveLookup(t)
  <2>1. FinishWith(t, None) \/ \E op \in Closures : Become(t, op)
    BY <1>13 DEF RemoveLookup, In, Closures
  <2>. QED
    BY <1>2, <1>3, <1>5, <2>1
<1>14. CASE ViewClosure(t) \/ ClosurePanics(t) \/ Insert(t) \/ Remove(t) \/ RemoveIf(t)
            \/ RemoveIfMut(t) \/ AlterAllEnds(t) \/ IterYield(t) \/ IterEnd(t) \/ Return(t)
  BY <1>4, <1>5, <1>14
     DEF ViewClosure, ClosurePanics, Insert, Remove, RemoveIf, RemoveIfMut, AlterAllEnds,
         IterYield, IterEnd, Return
<1>15. CASE AlterTake(t) \/ AlterPut(t)
  <2>1. Finish(t) \/ \E op \in Closures \cup {"alter_all"} : \E k :
          Continue(t, [call[t] EXCEPT !.op = op, !.key = k])
    <3>1. CASE AlterTake(t)
      BY <3>1 DEF AlterTake, In, Closures
    <3>2. CASE AlterPut(t)
      BY <3>2 DEF AlterPut, In
    <3>. QED
      BY <1>15, <3>1, <3>2
  <2>2. ASSUME NEW op \in Closures \cup {"alter_all"}, NEW k,
               Continue(t, [call[t] EXCEPT !.op = op, !.key = k])
        PROVE  Moves
    <3>1. [call[t] EXCEPT !.op = op, !.key = k].op = op
      BY CallFields DEF IInv, CallRecords
    <3>. QED
      BY <1>3, <2>2, <3>1 DEF Moves
  <2>. QED
    BY <1>4, <2>1, <2>2
<1>16. CASE LenIn(t) \/ FoldIn(t) \/ SerializeEntries(t) \/ Retain(t) \/ Clear(t)
            \/ ShrinkToFit(t)
  <2>1. call[t].op \in CallOps
    BY <1>16 DEF LenIn, FoldIn, SerializeEntries, Retain, Clear, ShrinkToFit, In, CallOps,
                Traversals, ReadTraversals, Serializing
  <2>2. /\ Counted(t) \in CallRecords /\ Gathered(t) \in CallRecords /\ call[t] \in CallRecords
        /\ Counted(t).op = call[t].op /\ Gathered(t).op = call[t].op
    BY CountedRecord, GatheredRecord, CallFields DEF IInv
  <2>. QED
    BY <1>4, <1>6, <1>16, <2>1, <2>2
       DEF LenIn, FoldIn, SerializeEntries, Retain, Clear, ShrinkToFit
<1>17. CASE Announce(t)
  <2>1. Counted(t) \in CallRecords /\ Counted(t).op = "serialize"
    BY <1>17, CountedRecord DEF Announce, In, IInv
  <2>2. /\ [Counted(t) EXCEPT !.op = "serialize_entries", !.shard = 0].op = "serialize_entries"
        /\ [Counted(t) EXCEPT !.shard = @ + 1].op = "serialize"
    BY <2>1 DEF CallRecords
  <2>3. "serialize" \in CallOps /\ "serialize_entries" \in CallOps
    BY DEF CallOps, Serializing
  <2>. QED
    BY <1>4, <1>17, <2>2, <2>3 DEF Announce, Moves
<1>. QED
  BY <1>9, <1>10, <1>11, <1>12, <1>13, <1>14, <1>15, <1>16, <1>17 DEF Step, Proceed

LEMMA StagesKnown == Spec => []KnownStages
<1>1. Init => KnownStages
  BY DEF Init, KnownStages, Idle, Call, CallOps
<1>2. IInv /\ KnownStages /\ [Next]_vars => KnownStages'
  <2>. SUFFICES ASSUME IInv, KnownStages, [Next]_vars  PROVE KnownStages'
    OBVIOUS
  <2>1. CASE UNCHANGED call
    BY <2>1 DEF KnownStages
  <2>2. ASSUME NEW t \in Threads, Step(t)  PROVE KnownStages'
    BY <2>1, <2>2, StageIsKnown DEF KnownStages, Continue, IInv, RestTypeOK
  <2>. QED
    BY <2>1, <2>2 DEF Next, Terminating, vars
<1>. QED
  BY <1>1, <1>2, Invariance, PTL DEF Spec

\* The type invariant.
THEOREM TypeCorrect == Spec => []TypeOK
<1>1. IInv /\ KnownStages => TypeOK
  <2>. SUFFICES ASSUME IInv, KnownStages  PROVE TypeOK
    OBVIOUS
  <2>1. call \in [Threads -> [op : CallOps, key : Keys \cup {None},
                             shard : Shards, slot : 0..MaxHandles,
                             result : Values \cup {None}, count : Nat,
                             gathered : [Keys -> Values \cup {None}]]]
    BY DEF IInv, RestTypeOK, CallRecords, KnownStages
  <2>. QED
    BY <2>1 DEF IInv, TableInv, TableTypeOK, ShardTables, RestTypeOK, TypeOK
<1>. QED
  BY <1>1, Invariance, StagesKnown, PTL

\* What a handle refers to stays where it is as long as the handle lives: the data
\* does not outlive the guard (sharded.rs).
THEOREM RefsStayValidHolds == Spec => []RefsStayValid
<1>1. IInv => RefsStayValid
  BY DEF IInv, TableInv, HandlesFit, Fits, RefsStayValid
<1>. QED
  BY <1>1, Invariance, PTL

LEMMA HandlesAreApart ==
  ASSUME TableInv, NEW t \in Threads, NEW u \in Threads, NEW i \in Slots, NEW j \in Slots,
         t # u \/ i # j, held[t][i].kind \in ExclusiveKinds
  PROVE  held[t][i].keys \cap held[u][j].keys = {}
<1>1. Compatible(t, held[t][i], u, held[u][j])
  BY DEF TableInv, GuardsExclude
<1>2. /\ \A k \in held[t][i].keys : k \in Keys /\ ShardOf[k] = held[t][i].shard
      /\ \A k \in held[u][j].keys : k \in Keys /\ ShardOf[k] = held[u][j].shard
  BY HandleFields DEF TableInv, HandlesFit, Fits
<1>. QED
  BY <1>1, <1>2, HomeOfKey DEF Compatible

\* No two handles, of whatever threads, give access to an element that one of
\* them may change: the promise of the lifetimes that detach_from makes up.
THEOREM AliasingXorMutabilityHolds == Spec => []AliasingXorMutability
<1>1. IInv => AliasingXorMutability
  BY HandlesAreApart DEF IInv, AliasingXorMutability
<1>. QED
  BY <1>1, Invariance, PTL

\* A value that alter or alter_all has moved out is out of everybody's reach.
THEOREM HolesAreHiddenHolds == Spec => []HolesAreHidden
<1>1. ASSUME IInv PROVE HolesAreHidden
  <2>1. SUFFICES ASSUME NEW k \in holes
                 PROVE  \E t \in Threads :
                          /\ call[t].op \in {"alter_closure", "alter_all_closure"} /\ Key(t) = k
                          /\ \A u \in Threads, i \in Slots :
                               k \in held[u][i].keys <=> u = t /\ i = Slot(t)
    BY DEF HolesAreHidden
  <2>2. PICK t \in Threads : HasHole(call[t]) /\ call[t].key = k
    BY <1>1 DEF IInv, HolesFit
  <2>3. CallFits(call[t], held[t])
    BY <1>1 DEF IInv, CallsFit
  <2>4. /\ call[t].slot \in Slots /\ k \in held[t][call[t].slot].keys
        /\ held[t][call[t].slot].kind \in {"RefMut", "IterMut"}
    BY <2>2, <2>3 DEF HasHole, CallFits, HasOne
  <2>5. held[t][call[t].slot].kind \in ExclusiveKinds
    BY <2>4 DEF ExclusiveKinds
  <2>6. ASSUME NEW u \in Threads, NEW i \in Slots
        PROVE  k \in held[u][i].keys <=> u = t /\ i = call[t].slot
    BY <1>1, <2>4, <2>5, HandlesAreApart DEF IInv
  <2>. QED
    BY <2>2, <2>6 DEF HasHole, Key, Slot
<1>. QED
  BY <1>1, Invariance, PTL

-----------------------------------------------------------------------------
(* Waiting in a circle *)

\* Threads that read the map with a reference held and threads that have an IterMut may
\* wait for each other in a circle: either may be, but not both.
DeadlockFreeCallers ==
  ~NestedReads \/ \A t \in Threads : Ops[t] \cap {"iter_mut", "alter_all"} = {}

\* A call that may come to wait, of a thread with handles H, holds no shard; or, if reads
\* nest, only shares some, to read; an iterator holds none after its own.
Reads == ReadOps \cup ReadTraversals \cup Serializing
HoldsNothing(H) == \A j \in Slots : H[j].shard = -1
AllShared(H) == \A j \in Slots : H[j].shard # -1 => H[j].kind \in SharedKinds
OnlyShares(H) == NestedReads /\ AllShared(H)
YieldedBy(H, i) ==
  \A j \in Slots \ {i} : H[j].shard # -1 =>
    /\ H[j].kind = IF H[i].kind = "Iter" THEN "RefMulti" ELSE "RefMutMulti"
    /\ H[j].shard <= H[i].shard

AltersAll(c) == c.op \in {"alter_all", "alter_all_closure"}
Patient(c, H) ==
  /\ c.op \in KeyOps \cup Traversals \cup Serializing
       => HoldsNothing(H) \/ (OnlyShares(H) /\ c.op \in Reads)
  /\ AltersAll(c) => \A j \in Slots \ {c.slot} : H[j].shard = -1
  /\ c.op = "next" => YieldedBy(H, c.slot) \/ (H[c.slot].kind = "Iter" /\ OnlyShares(H))

\* Only who calls iter_mut or alter_all has an IterMut.
MayIterMut(t) == Ops[t] \cap {"iter_mut", "alter_all"} # {}
IterMutsOf(t, H) == \A i \in Slots : H[i].kind = "IterMut" => MayIterMut(t)

IsPatient(t) == Patient(call[t], held[t]) /\ IterMutsOf(t, held[t])
CallersPatient == \A t \in Threads : IsPatient(t)

WaitInv == IInv /\ CallersPatient


LEMMA PatientStep ==
  ASSUME IInv, NEW t \in Threads, NEW c, GoesOnAs(t, c), Own(t),
         Patient(c, held'[t]), IterMutsOf(t, held'[t])
  PROVE  IsPatient(t)'
<1>1. call'[t] = c /\ \A u \in Threads \ {t} : call'[u] = call[u]
  BY DEF GoesOnAs, Continue, IInv, RestTypeOK
<1>2. Patient(call'[t], held'[t]) /\ IterMutsOf(t, held'[t])
  BY <1>1
<1>3. IsPatient(t)'
  BY <1>2 DEF IsPatient, Patient, AltersAll, HoldsNothing, OnlyShares, AllShared,
     YieldedBy, IterMutsOf, MayIterMut
<1>. QED
  BY <1>3

\* In the other stages a call does not wait.
NeverWaits(c) ==
  c.op \notin KeyOps \cup Traversals \cup Serializing
              \cup {"alter_all", "alter_all_closure", "next"}

LEMMA NoWait == ASSUME NEW c, NeverWaits(c), NEW H PROVE Patient(c, H)
BY DEF NeverWaits, Patient, AltersAll

LEMMA NoWaitYet ==
  /\ NeverWaits(Idle)
  /\ \A r : NeverWaits([Idle EXCEPT !.op = "return", !.result = r])
<1>1. Idle.op = "idle" /\ \A r : [Idle EXCEPT !.op = "return", !.result = r].op = "return"
  BY DEF Idle, Call
<1>. QED
  BY <1>1 DEF NeverWaits, KeyOps, Traversals, ReadTraversals, Serializing

LEMMA PatientPut ==
  ASSUME IInv, NEW t \in Threads, IsPatient(t), NEW i \in Slots, NEW h, PutHandle(t, i, h),
         h.kind = "IterMut" => held[t][i].kind = "IterMut" \/ MayIterMut(t)
  PROVE  /\ Own(t) /\ IterMutsOf(t, held'[t]) /\ held'[t][i] = h
         /\ \A j \in Slots \ {i} : held'[t][j] = held[t][j]
<1>1. /\ Own(t) /\ held'[t][i] = h /\ \A j \in Slots \ {i} : held'[t][j] = held[t][j]
  BY PutIsOwn DEF IInv
<1>2. IterMutsOf(t, held[t])
  BY DEF IsPatient
<1>. QED
  BY <1>1, <1>2 DEF IterMutsOf

LEMMA PatientSame ==
  ASSUME IInv, NEW t \in Threads, IsPatient(t), UNCHANGED held
  PROVE  Own(t) /\ IterMutsOf(t, held'[t]) /\ held'[t] = held[t]
BY DEF IsPatient, Own

-----------------------------------------------------------------------------
(* Why nobody waits in a circle *)

\* Of some threads that wait, one waits for the last shard.
LEMMA LastWaiter ==
  ASSUME NEW G, G # {}, NEW f \in [G -> Shards]
  PROVE  \E t \in G : \A u \in G : f[u] <= f[t]
<1>. DEFINE After(t) == (f[t] + 1) .. ShardCount
            R == StrictSubsetOrdering(0 .. ShardCount)
            T == {After(t) : t \in G}
<1>1. \A t \in G : f[t] \in Nat /\ f[t] < ShardCount
  BY ShardAssumption DEF Shards
<1>2. T \subseteq FiniteSubsetsOf(0 .. ShardCount) /\ T # {}
  <2>1. ASSUME NEW t \in G
        PROVE  After(t) \in SUBSET (0 .. ShardCount) /\ IsFiniteSet(After(t))
    <3>1. f[t] + 1 \in Nat /\ ShardCount \in Nat
      BY <1>1, ShardAssumption
    <3>2. IsFiniteSet(After(t))
      BY <3>1, FS_Interval
    <3>. QED
      BY <3>1, <3>2
  <2>. QED
    BY <2>1 DEF FiniteSubsetsOf
<1>3. IsWellFoundedOn(R, FiniteSubsetsOf(0 .. ShardCount))
  BY FS_StrictSubsetOrderingWellFounded
<1>4. PICK x \in T : \A y \in T : ~ (<<y, x>> \in R)
  <2>. HIDE DEF R, T
  <2>. QED
    BY <1>2, <1>3, WFMin
<1>5. PICK t \in G : x = After(t)
  OBVIOUS
<1>6. ASSUME NEW u \in G, f[u] > f[t]
      PROVE  FALSE
  <2>1. After(u) \in T
    OBVIOUS
  <2>2. /\ After(u) \subseteq After(t) /\ f[t] + 1 \in After(t) /\ f[t] + 1 \notin After(u)
        /\ After(t) \subseteq 0 .. ShardCount
    BY <1>1, <1>6, ShardAssumption
  <2>3. <<After(u), After(t)>> \in R
    BY <2>2 DEF StrictSubsetOrdering
  <2>. QED
    BY <1>4, <1>5, <2>1, <2>3
<1>. QED
  BY <1>1, <1>6

\* A thread that waits holds no shard from the one that it wants on, if reads do not nest;
\* and if it has no IterMut, it has no shard or waits to share one more.
LEMMA WaiterHolds ==
  ASSUME IInv, NEW t \in Threads, IsPatient(t), Wanted(t) # -1
  PROVE  /\ Wanted(t) \in Shards
         /\ ~NestedReads => \A i \in Slots : held[t][i].shard < Wanted(t)
         /\ ~MayIterMut(t)
              => HoldsNothing(held[t]) \/ (AllShared(held[t]) /\ ~WantsWrite(t))
<1>. DEFINE i == call[t].slot
<1>1. /\ call[t] \in CallRecords /\ CallFits(call[t], held[t]) /\ Patient(call[t], held[t])
      /\ IterMutsOf(t, held[t])
  BY CallFields DEF IInv, CallsFit, IsPatient
<1>2. \A j \in Slots : held[t][j].shard \in -1 .. (ShardCount - 1)
  BY HandleFields DEF IInv, TableInv, Handles
<1>3. CASE AtFirstLock(t) \/ (GoesOver(t) /\ ~AtFirstLock(t))
  <2>1. call[t].op \in KeyOps \cup Traversals \cup Serializing /\ Wanted(t) \in Shards
    BY <1>1, <1>3, HomeOfKey DEF AtFirstLock, GoesOver, Wanted, Key, AtShard, CallRecords,
       CallFits
  <2>2. HoldsNothing(held[t]) \/ (OnlyShares(held[t]) /\ call[t].op \in Reads)
    BY <1>1, <2>1 DEF Patient
  <2>3. ~IterLocks(t)
    BY <2>1 DEF IterLocks, In, KeyOps, Traversals, ReadTraversals, Serializing
  <2>. QED
    BY <2>1, <2>2, <2>3, ShardAssumption
       DEF HoldsNothing, OnlyShares, AllShared, WantsWrite, Reads, Shards
<1>4. CASE IterLocks(t) /\ ~AtFirstLock(t) /\ ~GoesOver(t)
  <2>1. /\ i \in Slots /\ held[t][i].kind \in IteratorKinds
        /\ call[t].op = "alter_all" => held[t][i].kind = "IterMut"
    BY <1>1, <1>4 DEF IterLocks, In, CallFits, IteratorKinds
  <2>2. Wanted(t) = held[t][i].shard + 1 /\ held[t][i].shard # ShardCount - 1
    BY <1>4 DEF Wanted, IterLocks, LastShard, Slot
  <2>3. Wanted(t) \in Shards /\ held[t][i].shard < Wanted(t)
    BY <1>2, <2>1, <2>2, ShardAssumption DEF Shards
  <2>4. YieldedBy(held[t], i) \/ (held[t][i].kind = "Iter" /\ OnlyShares(held[t]))
    BY <1>1, <1>4 DEF IterLocks, In, Patient, AltersAll, YieldedBy
  <2>5. ASSUME ~NestedReads, NEW j \in Slots
        PROVE  held[t][j].shard < Wanted(t)
    BY <1>2, <2>1, <2>2, <2>4, <2>5, ShardAssumption DEF YieldedBy, OnlyShares
  <2>6. ASSUME ~MayIterMut(t)
        PROVE  HoldsNothing(held[t]) \/ (AllShared(held[t]) /\ ~WantsWrite(t))
    <3>1. held[t][i].kind = "Iter"
      BY <1>1, <2>1, <2>6 DEF IterMutsOf, IteratorKinds
    <3>. QED
      BY <1>4, <2>4, <2>6, <3>1 DEF WantsWrite, Slot, YieldedBy, OnlyShares, AllShared, SharedKinds
  <2>. QED
    BY <2>3, <2>5, <2>6
<1>. QED
  BY <1>3, <1>4 DEF Wanted

\* If reads do not nest, a thread that waits wants a shard after all that it holds, and
\* the last shard that is wanted has a holder that does not wait.  If nobody has an
\* IterMut, who holds a shard and waits is a reader, and waits for no reader.
LEMMA NoCircle == ASSUME WaitInv, DeadlockFreeCallers PROVE NoCircularWait
<1>. SUFFICES ASSUME NEW group \in (SUBSET Threads) \ {{}},
                     \A t \in group : \E u \in group : WaitsFor(t, u)
              PROVE  FALSE
  BY DEF NoCircularWait
<1>1. /\ IInv
      /\ \A t \in group : t \in Threads /\ IsPatient(t) /\ Wanted(t) # -1
  BY DEF WaitsFor, WaitInv, CallersPatient
<1>2. CASE ~NestedReads
  <2>. DEFINE f == [t \in group |-> Wanted(t)]
  <2>1. f \in [group -> Shards] /\ \A t \in group : f[t] = Wanted(t)
    BY <1>1, WaiterHolds
  <2>. HIDE DEF f
  <2>2. PICK t \in group : \A u \in group : f[u] <= f[t]
    BY <2>1, LastWaiter
  <2>3. PICK u \in group : WaitsFor(t, u)
    OBVIOUS
  <2>4. Wanted(t) < Wanted(u)
    BY <1>1, <1>2, <2>3, WaiterHolds DEF WaitsFor
  <2>5. Wanted(t) \in Int /\ Wanted(u) \in Int
    BY <1>1, WaiterHolds, ShardAssumption DEF Shards
  <2>. QED
    BY <2>1, <2>2, <2>4, <2>5
<1>3. CASE \A t \in Threads : ~MayIterMut(t)
  <2>1. \A t \in group :
          HoldsNothing(held[t]) \/ (AllShared(held[t]) /\ ~WantsWrite(t))
    BY <1>1, <1>3, WaiterHolds
  <2>2. PICK t \in group, u \in group, v \in group : WaitsFor(t, u) /\ WaitsFor(u, v)
    OBVIOUS
  <2>3. ~HoldsNothing(held[u])
    BY <2>2 DEF WaitsFor, HoldsNothing
  <2>4. ~WantsWrite(u)
    BY <2>1, <2>3
  <2>5. PICK i \in Slots : held[v][i].shard # -1 /\ held[v][i].kind \in ExclusiveKinds
    BY <2>2, <2>4 DEF WaitsFor
  <2>. QED
    BY <2>1, <2>5 DEF HoldsNothing, OnlyShares, AllShared, SharedKinds, ExclusiveKinds, EntryKinds
<1>. QED
  BY <1>2, <1>3 DEF DeadlockFreeCallers, MayIterMut

-----------------------------------------------------------------------------
(* Beginning a call leaves the callers patient *)

LEMMA InitPatient == Init => CallersPatient
<1>. SUFFICES ASSUME Init PROVE CallersPatient
  OBVIOUS
<1>1. ASSUME NEW t \in Threads
      PROVE  Patient(call[t], held[t]) /\ IterMutsOf(t, held[t])
  <2>1. call[t] = Idle /\ \A i \in Slots : held[t][i].kind = "none"
    BY DEF Init, NoHandle, Handle
  <2>. QED
    BY <2>1, NoWait, NoWaitYet DEF IterMutsOf
<1>. QED
  BY <1>1 DEF CallersPatient, IsPatient

\* A call begins when the thread holds what the documentation of the call allows.
LEMMA BeginPatient ==
  ASSUME IInv, NEW t \in Threads, IsPatient(t), NEW op, NEW k, BeginAs(t, op, k),
         op \in KeyOps \cup Traversals \cup Serializing,
         IF op \in Reads THEN MayRead(t) ELSE MayWrite(t)
  PROVE  IsPatient(t)'
<1>. DEFINE c == Call(op, k, FreeSlot(t))
<1>1. GoesOnAs(t, c) /\ UNCHANGED held /\ c.op = op
  BY DEF BeginAs, GoesOnAs, Call
<1>2. HoldsNothing(held[t]) \/ (OnlyShares(held[t]) /\ op \in Reads)
  BY DEF MayRead, MayWrite, NoReference, NoMutable, HoldsNothing, OnlyShares, AllShared
<1>. HIDE DEF c
<1>3. Patient(c, held[t])
  BY <1>1, <1>2 DEF Patient, AltersAll, KeyOps, Traversals, ReadTraversals, Serializing
<1>. QED
  BY <1>1, <1>3, PatientSame, PatientStep

LEMMA BeginsPatient ==
  ASSUME IInv, NEW t \in Threads, IsPatient(t),
         BeginKeyOp(t) \/ BeginOperator(t) \/ BeginTraversal(t)
  PROVE  IsPatient(t)'
<1>1. CASE BeginKeyOp(t)
  <2>1. PICK op \in KeyOps, k \in Keys :
          BeginAs(t, op, k) /\ IF op \in ReadOps THEN MayRead(t) ELSE MayWrite(t)
    BY <1>1 DEF BeginKeyOp, Begin
  <2>2. op \in Reads <=> op \in ReadOps
    BY DEF Reads, KeyOps, ReadOps, ReadTraversals, Serializing
  <2>. QED
    BY <2>1, <2>2, BeginPatient
<1>2. CASE BeginOperator(t)
  <2>1. PICK name \in DOMAIN OperatorCall, k \in Keys :
          /\ BeginAs(t, OperatorCall[name], k)
          /\ IF OperatorCall[name] \in ReadOps THEN MayRead(t) ELSE MayWrite(t)
    BY <1>2 DEF BeginOperator
  <2>2. OperatorCall[name] \in KeyOps
    BY DEF OperatorCall, KeyOps
  <2>3. OperatorCall[name] \in Reads <=> OperatorCall[name] \in ReadOps
    BY <2>2 DEF Reads, KeyOps, ReadOps, ReadTraversals, Serializing
  <2>. QED
    BY <2>1, <2>2, <2>3, BeginPatient
<1>3. CASE BeginTraversal(t)
  <2>1. PICK op \in Traversals :
          BeginAs(t, op, None) /\ IF op \in ReadTraversals THEN MayRead(t) ELSE MayWrite(t)
    BY <1>3 DEF BeginTraversal, Begin
  <2>2. op \in Reads <=> op \in ReadTraversals
    BY DEF Reads, Traversals, ReadOps, ReadTraversals, Serializing
  <2>. QED
    BY <2>1, <2>2, BeginPatient
<1>. QED
  BY <1>1, <1>2, <1>3

\* Between its calls a thread does not wait, and no handle becomes an IterMut.
LEMMA IdlePatient ==
  ASSUME IInv, NEW t \in Threads, IsPatient(t), call[t] = Idle, UNCHANGED call, Own(t),
         IterMutsOf(t, held'[t])
  PROVE  IsPatient(t)'
BY NoWait, NoWaitYet, PatientStep DEF GoesOnAs

LEMMA LookupPatient ==
  ASSUME IInv, NEW t \in Threads, IsPatient(t), NEW i \in Slots, NEW k,
         Find(t, k, i) \/ FindMut(t, k, i) \/ Entry(t, k, i) \/ FindEntry(t, k, i)
  PROVE  Own(t) /\ IterMutsOf(t, held'[t])
<1>1. CASE UNCHANGED held
  BY <1>1, PatientSame
<1>2. CASE \E kind \in {"Ref", "RefMut", "Occupied", "Vacant"} :
             PutHandle(t, i, Handle(kind, ShardOf[k], {k}))
  BY <1>2, PatientPut DEF Handle
<1>. QED
  BY <1>1, <1>2 DEF Find, FindMut, Entry, FindEntry, TryMap

LEMMA DropPatient ==
  ASSUME IInv, NEW t \in Threads, IsPatient(t), NEW i \in Slots, DropHandle(t, i)
  PROVE  Own(t) /\ IterMutsOf(t, held'[t])
BY PatientPut DEF DropHandle, NoHandle, Handle

LEMMA UsePatient ==
  ASSUME IInv, NEW t \in Threads, IsPatient(t), NEW i \in Slots, Use(t, i)
  PROVE  Own(t) /\ IterMutsOf(t, held'[t])
<1>1. CASE UNCHANGED held
  BY <1>1, PatientSame
<1>2. CASE DropHandle(t, i)
  BY <1>2, DropPatient
<1>3. ASSUME NEW kind \in {"Ref", "RefMut", "Occupied"},
             PutHandle(t, i, [held[t][i] EXCEPT !.kind = kind])
      PROVE  Own(t) /\ IterMutsOf(t, held'[t])
  <2>1. [held[t][i] EXCEPT !.kind = kind].kind = kind
    BY OtherKind DEF IInv, SharedKinds, ExclusiveKinds, EntryKinds
  <2>. QED
    BY <1>3, <2>1, PatientPut
<1>4. CASE CloneHandle(t, i)
  BY <1>4, FreeSlotIsFree, PatientPut DEF CloneHandle
<1>. QED
  BY <1>1, <1>2, <1>3, <1>4
     DEF Use, AndModify, WriteThrough, OccupiedReplace, Ends, IntoKey, OrInsert,
         OccupiedIntoMut, VacantInsert, OccupiedInsert, EntryInsert, EntryInsertEntry,
         OccupiedOps, OccupiedRemove, MapRef, MapRefMut, ValueMut, MultiValueMut,
         DowngradeRef, Downgrade, CloneMulti, CloneIter

LEMMA TryCallPatient ==
  ASSUME IInv, NEW t \in Threads, IsPatient(t), TryCall(t)
  PROVE  IsPatient(t)'
<1>1. PICK k \in Keys : TryGet(t, k) \/ TryGetMut(t, k) \/ TryGetEntry(t, k)
  BY DEF TryCall
<1>2. FreeSlot(t) \in Slots /\ call[t] = Idle /\ UNCHANGED call
  BY FreeSlotIsFree DEF TryCall
<1>3. \/ UNCHANGED held
      \/ Find(t, k, FreeSlot(t)) \/ FindMut(t, k, FreeSlot(t)) \/ Entry(t, k, FreeSlot(t))
  BY <1>1 DEF TryGet, TryGetMut, TryGetEntry, TryFind, TryFindMut, TryEntry, LockedToReaders,
         LockedToWriters
<1>. QED
  BY <1>2, <1>3, PatientSame, LookupPatient, IdlePatient

LEMMA IdlesPatient ==
  ASSUME IInv, NEW t \in Threads, IsPatient(t), NewIter(t) \/ UseHandle(t) \/ Drop(t)
  PROVE  IsPatient(t)'
<1>1. CASE NewIter(t)
  <2>1. PICK kind : /\ PutHandle(t, FreeSlot(t), Handle(kind, -1, {}))
                    /\ kind = "IterMut" => MayIterMut(t)
    BY <1>1 DEF NewIter, NewIterator, MayIterMut
  <2>2. FreeSlot(t) \in Slots
    BY <1>1, FreeSlotIsFree DEF NewIter
  <2>. QED
    BY <1>1, <2>1, <2>2, PatientPut, IdlePatient DEF NewIter, Handle
<1>2. CASE UseHandle(t)
  BY <1>2, UsePatient, IdlePatient DEF UseHandle
<1>3. CASE Drop(t)
  BY <1>3, DropPatient, IdlePatient DEF Drop
<1>. QED
  BY <1>1, <1>2, <1>3

-----------------------------------------------------------------------------
(* Ending one, and the iterators *)

LEMMA FinishPatient ==
  ASSUME IInv, NEW t \in Threads, IsPatient(t),
         \/ Finish(t) \/ \E r : FinishWith(t, r)
         \/ \E op \in {"inserting", "removing", "remove_if_closure", "remove_if_mut_closure",
                       "view_closure", "altering"} : Become(t, op),
         Own(t), IterMutsOf(t, held'[t])
  PROVE  IsPatient(t)'
<1>1. PICK c : Continue(t, c) /\ NeverWaits(c)
  <2>1. CASE Finish(t) \/ \E r : FinishWith(t, r)
    BY <2>1, NoWaitYet DEF Finish, FinishWith
  <2>2. ASSUME NEW op \in {"inserting", "removing", "remove_if_closure",
                           "remove_if_mut_closure", "view_closure", "altering"}, Become(t, op)
        PROVE  \E c : Continue(t, c) /\ NeverWaits(c)
    <3>1. op \in Stages
      BY DEF Stages, CallOps, Closures
    <3>2. [call[t] EXCEPT !.op = op].op = op
      BY <3>1, CallFields, OtherOp DEF IInv
    <3>3. NeverWaits([call[t] EXCEPT !.op = op])
      BY <3>2 DEF NeverWaits, KeyOps, Traversals, ReadTraversals, Serializing
    <3>. QED
      BY <2>2, <3>3 DEF Become
  <2>. QED
    BY <2>1, <2>2
<1>. QED
  BY <1>1, NoWait, PatientStep DEF GoesOnAs

LEMMA KeyOpsPatient ==
  ASSUME IInv, NEW t \in Threads, IsPatient(t),
         \/ Get(t) \/ GetMut(t) \/ GetEntry(t) \/ ContainsKey(t) \/ View(t) \/ InsertLookup(t)
         \/ RemoveLookup(t) \/ AlterLookup(t)
  PROVE  IsPatient(t)'
<1>1. call[t].op \in KeyOps
  BY DEF Get, GetMut, GetEntry, ContainsKey, View, InsertLookup, RemoveLookup, AlterLookup, In,
         KeyOps
<1>2. call[t].slot \in Slots
  BY <1>1, FirstStage
<1>3. \/ UNCHANGED held
      \/ \E k : \/ Find(t, k, call[t].slot) \/ FindMut(t, k, call[t].slot)
                \/ Entry(t, k, call[t].slot) \/ FindEntry(t, k, call[t].slot)
  BY DEF Get, GetMut, GetEntry, ContainsKey, View, InsertLookup, RemoveLookup, AlterLookup, Slot
<1>4. Own(t) /\ IterMutsOf(t, held'[t])
  BY <1>2, <1>3, PatientSame, LookupPatient
<1>5. \/ Finish(t) \/ \E r : FinishWith(t, r)
      \/ \E op \in {"inserting", "removing", "remove_if_closure", "remove_if_mut_closure",
                    "view_closure", "altering"} : Become(t, op)
  BY DEF Get, GetMut, GetEntry, ContainsKey, View, InsertLookup, RemoveLookup, AlterLookup, In
<1>. QED
  BY <1>4, <1>5, FinishPatient

\* The other steps that end a call.
LEMMA EndsPatient ==
  ASSUME IInv, NEW t \in Threads, IsPatient(t),
         \/ ViewClosure(t) \/ ClosurePanics(t) \/ Insert(t) \/ Remove(t)
         \/ RemoveIf(t) \/ RemoveIfMut(t) \/ AlterAllEnds(t) \/ IterEnd(t) \/ Return(t)
  PROVE  IsPatient(t)'
<1>1. Finish(t) \/ \E r : FinishWith(t, r)
  BY DEF ViewClosure, ClosurePanics, Insert, Remove, RemoveIf, RemoveIfMut, AlterAllEnds, IterEnd,
         Return
<1>2. UNCHANGED held \/ (call[t].slot \in Slots /\ DropHandle(t, call[t].slot))
  <2>1. CASE IterEnd(t) \/ Return(t)
    BY <2>1 DEF IterEnd, Return
  <2>2. CASE AlterAllEnds(t)
    BY <2>2, AlteringAll DEF AlterAllEnds, In, Slot
  <2>3. CASE \/ ViewClosure(t) \/ ClosurePanics(t) \/ Insert(t) \/ Remove(t)
             \/ RemoveIf(t) \/ RemoveIfMut(t)
    BY <2>3, SecondStage
       DEF ViewClosure, ClosurePanics, Insert, Remove, RemoveIf, RemoveIfMut, OccupiedRemove,
           OccupiedReplace, In, Slot
  <2>. QED
    BY <2>1, <2>2, <2>3
<1>3. Own(t) /\ IterMutsOf(t, held'[t])
  BY <1>2, PatientSame, DropPatient
<1>. QED
  BY <1>1, <1>3, FinishPatient

LEMMA AlterAllPatient ==
  ASSUME IInv, NEW t \in Threads, IsPatient(t), AlterAll(t)
  PROVE  IsPatient(t)'
<1>. DEFINE c == Call("alter_all", None, FreeSlot(t))
<1>1. GoesOnAs(t, c) /\ c.op = "alter_all" /\ c.slot = FreeSlot(t)
  BY DEF AlterAll, GoesOnAs, Call
<1>. HIDE DEF c
<1>2. FreeSlot(t) \in Slots /\ MayIterMut(t)
  BY FreeSlotIsFree DEF AlterAll, MayIterMut
<1>3. /\ Own(t) /\ IterMutsOf(t, held'[t])
      /\ \A j \in Slots \ {FreeSlot(t)} : held'[t][j] = held[t][j]
  BY <1>2, PatientPut DEF AlterAll, NewIterator
<1>4. \A j \in Slots \ {FreeSlot(t)} : held'[t][j].shard = -1
  BY <1>3 DEF AlterAll, MayWrite, NoReference
<1>5. Patient(c, held'[t])
  BY <1>1, <1>4 DEF Patient, KeyOps, Traversals, ReadTraversals, Serializing
<1>. QED
  BY <1>1, <1>3, <1>5, PatientStep

\* An iterator that goes on to a shard keeps its kind, and no other guard is before it.
LEMMA NextShardPatient ==
  ASSUME IInv, NEW t \in Threads, IsPatient(t), AlterAllNextShard(t) \/ IterNextShard(t)
  PROVE  IsPatient(t)'
<1>. DEFINE i == call[t].slot
            s == held[t][i].shard + 1
            h == Handle(held[t][i].kind, s, Present(s))
<1>1. /\ call[t].op \in {"alter_all", "next"} /\ UNCHANGED call
      /\ PutHandle(t, i, h) /\ i \in Slots
  BY AlteringAll, Iterating DEF AlterAllNextShard, IterNextShard, In, Slot, NextShard
<1>2. h.kind = held[t][i].kind /\ h.shard = s
  BY DEF Handle
<1>. HIDE DEF h
<1>3. /\ Own(t) /\ IterMutsOf(t, held'[t]) /\ held'[t][i] = h
      /\ \A j \in Slots \ {i} : held'[t][j] = held[t][j]
  BY <1>1, <1>2, PatientPut
<1>4. Patient(call[t], held[t]) /\ \A j \in Slots : held[t][j].shard \in Int
  BY HandleFields DEF IsPatient, IInv, TableInv
<1>5. Patient(call[t], held'[t])
  <2>1. CASE call[t].op = "alter_all"
    BY <1>3, <1>4, <2>1 DEF Patient, AltersAll, KeyOps, Traversals, ReadTraversals, Serializing
  <2>2. CASE call[t].op = "next"
    <3>1. YieldedBy(held[t], i) \/ (held[t][i].kind = "Iter" /\ OnlyShares(held[t]))
      BY <1>4, <2>2 DEF Patient
    <3>2. YieldedBy(held[t], i) => YieldedBy(held'[t], i)
      BY <1>1, <1>2, <1>3, <1>4 DEF YieldedBy
    <3>3. held[t][i].kind = "Iter" /\ OnlyShares(held[t])
            => held'[t][i].kind = "Iter" /\ OnlyShares(held'[t])
      BY <1>1, <1>2, <1>3 DEF OnlyShares, AllShared, SharedKinds
    <3>. QED
      BY <2>2, <3>1, <3>2, <3>3 DEF Patient, AltersAll, KeyOps, Traversals, ReadTraversals,
         Serializing
  <2>. QED
    BY <1>1, <2>1, <2>2
<1>. QED
  BY <1>1, <1>3, <1>5, PatientStep DEF GoesOnAs

LEMMA BeginNextPatient ==
  ASSUME IInv, NEW t \in Threads, IsPatient(t), BeginNext(t)
  PROVE  IsPatient(t)'
<1>1. PICK i \in Slots : MayAdvance(t, i) /\ Continue(t, Call("next", None, i))
  BY DEF BeginNext
<1>. DEFINE c == Call("next", None, i)
<1>2. GoesOnAs(t, c) /\ c.op = "next" /\ c.slot = i
  BY <1>1 DEF GoesOnAs, Call
<1>. HIDE DEF c
<1>3. YieldedBy(held[t], i) \/ (held[t][i].kind = "Iter" /\ OnlyShares(held[t]))
  BY <1>1 DEF MayAdvance, YieldedBy, OnlyShares, AllShared, NoMutable
<1>4. Patient(c, held[t])
  BY <1>2, <1>3 DEF Patient, AltersAll, KeyOps, Traversals, ReadTraversals, Serializing
<1>. QED
  BY <1>2, <1>4, PatientSame, PatientStep DEF BeginNext

LEMMA YieldPatient ==
  ASSUME IInv, NEW t \in Threads, IsPatient(t), IterYield(t)
  PROVE  IsPatient(t)'
<1>. DEFINE i == call[t].slot
            f == FreeSlot(t)
            kind == IF held[t][i].kind = "Iter" THEN "RefMulti" ELSE "RefMutMulti"
<1>1. call[t].op = "next" /\ Finish(t)
  BY DEF IterYield, In
<1>2. i \in Slots /\ f \in Slots
  BY <1>1, Iterating, FreeSlotIsFree
<1>3. PICK k : held' = [held EXCEPT ![t][i].keys = @ \ {k},
                                    ![t][f] = Handle(kind, held[t][i].shard, {k})]
  BY DEF IterYield, Yield, Slot
<1>4. held \in [Threads -> [Slots -> Handles]]
  BY DEF IInv, TableInv, TableTypeOK
<1>5. Handle(kind, held[t][i].shard, {k}).kind # "IterMut"
  BY DEF Handle
<1>6. [held[t][i] EXCEPT !.keys = @ \ {k}].kind = held[t][i].kind
  BY <1>2, <1>4 DEF Handles
<1>7. /\ Own(t)
      /\ \A j \in Slots : \/ held'[t][j] = held[t][j]
                          \/ held'[t][j].kind # "IterMut" \/ held'[t][j].kind = held[t][j].kind
  <2>. HIDE DEF i, f, kind
  <2>. QED
    BY <1>2, <1>3, <1>4, <1>5, <1>6 DEF Own
<1>8. IterMutsOf(t, held'[t])
  BY <1>7 DEF IterMutsOf, IsPatient
<1>. QED
  BY <1>1, <1>7, <1>8, FinishPatient

-----------------------------------------------------------------------------
(* Going over the map *)

\* One value after another is moved out and put back: the handles keep their kinds, and
\* alter_all goes on.
LEMMA AlterPatient ==
  ASSUME IInv, NEW t \in Threads, IsPatient(t), AlterTake(t) \/ AlterPut(t) \/ AlterPanics(t)
  PROVE  IsPatient(t)'
<1>. DEFINE i == call[t].slot
<1>1. /\ call[t] \in CallRecords /\ CallFits(call[t], held[t]) /\ Patient(call[t], held[t])
      /\ held \in [Threads -> [Slots -> Handles]]
  BY CallFields DEF IInv, CallsFit, IsPatient, TableInv, TableTypeOK
<1>2. CASE AlterTake(t)
  <2>1. PICK k \in held[t][i].keys :
          Continue(t, [call[t] EXCEPT
            !.op = IF In(t, "altering") THEN "alter_closure" ELSE "alter_all_closure",
            !.key = k])
    BY <1>2 DEF AlterTake, Slot
  <2>. DEFINE c == [call[t] EXCEPT
                 !.op = IF In(t, "altering") THEN "alter_closure" ELSE "alter_all_closure",
                 !.key = k]
  <2>2. /\ c.op = "alter_all_closure" => AltersAll(call[t])
        /\ c.op \in {"alter_closure", "alter_all_closure"} /\ c.slot = i
    BY <1>1, <1>2 DEF CallRecords, In, AltersAll, AlterTake
  <2>3. GoesOnAs(t, c) /\ UNCHANGED held
    BY <1>2, <2>1 DEF GoesOnAs, AlterTake
  <2>. HIDE DEF c
  <2>4. Patient(c, held[t])
    BY <1>1, <2>2 DEF Patient, AltersAll, KeyOps, Traversals, ReadTraversals, Serializing
  <2>. QED
    BY <2>3, <2>4, PatientSame, PatientStep
<1>3. CASE AlterPut(t) /\ call[t].op = "alter_closure"
  <2>1. Finish(t) /\ DropHandle(t, i) /\ i \in Slots
    BY <1>1, <1>3 DEF AlterPut, In, Slot, CallFits, HasOne
  <2>. QED
    BY <2>1, DropPatient, FinishPatient
<1>4. CASE AlterPut(t) /\ call[t].op = "alter_all_closure"
  <2>. DEFINE c == [call[t] EXCEPT !.op = "alter_all", !.key = None]
              h == [held[t][i] EXCEPT !.keys = @ \ {call[t].key}]
  <2>1. i \in Slots /\ held' = [held EXCEPT ![t][i].keys = @ \ {call[t].key}]
    BY <1>1, <1>4 DEF AlterPut, In, Slot, Key, CallFits
  <2>2. PutHandle(t, i, h) /\ h.kind = held[t][i].kind
    BY <1>1, <2>1 DEF PutHandle, Handles
  <2>3. GoesOnAs(t, c) /\ c.op = "alter_all" /\ c.slot = i
    <3>1. Continue(t, c)
      BY <1>4 DEF AlterPut, In
    <3>. QED
      BY <1>1, <3>1 DEF GoesOnAs, CallRecords
  <2>. HIDE DEF c, h
  <2>4. /\ Own(t) /\ IterMutsOf(t, held'[t])
        /\ \A j \in Slots \ {i} : held'[t][j] = held[t][j]
    <3>1. i \in Slots /\ PutHandle(t, i, h) /\ (h.kind = "IterMut" => held[t][i].kind = "IterMut")
      BY <2>1, <2>2
    <3>. HIDE DEF i
    <3>. QED
      BY <3>1, PatientPut
  <2>5. Patient(c, held'[t])
    BY <1>1, <1>4, <2>3, <2>4
       DEF Patient, AltersAll, KeyOps, Traversals, ReadTraversals, Serializing
  <2>. QED
    BY <2>3, <2>4, <2>5, PatientStep
<1>5. CASE AlterPanics(t)
  BY <1>1, <1>5, PatientSame, PatientStep DEF AlterPanics, GoesOnAs
<1>. QED
  BY <1>2, <1>3, <1>4, <1>5 DEF AlterPut

\* A call that goes over the map does so as it began: a reader stays a reader.
LEMMA OverPatient ==
  ASSUME IInv, NEW t \in Threads, IsPatient(t), GoesOver(t), UNCHANGED held,
         NEW c, Continue(t, c),
         \/ c.op = call[t].op \/ NeverWaits(c)
         \/ c.op = "serialize_entries" /\ call[t].op = "serialize"
  PROVE  IsPatient(t)'
<1>1. Patient(call[t], held[t])
  BY DEF IsPatient
<1>2. HoldsNothing(held[t]) \/ (OnlyShares(held[t]) /\ call[t].op \in Reads)
  BY <1>1 DEF GoesOver, Patient
<1>3. CASE NeverWaits(c)
  BY <1>3, NoWait, PatientSame, PatientStep DEF GoesOnAs
<1>4. CASE ~NeverWaits(c)
  <2>1. c.op \in Traversals \cup Serializing /\ (call[t].op \in Reads => c.op \in Reads)
    BY <1>4 DEF GoesOver, Reads, Serializing
  <2>2. Patient(c, held[t])
    BY <1>2, <2>1 DEF Patient, AltersAll, KeyOps, Traversals, ReadTraversals, Serializing
  <2>. QED
    BY <2>2, PatientSame, PatientStep DEF GoesOnAs
<1>. QED
  BY <1>3, <1>4

LEMMA NextOrReturnPatient ==
  ASSUME IInv, NEW t \in Threads, IsPatient(t), GoesOver(t), UNCHANGED held,
         NEW c \in CallRecords, c.op = call[t].op, NextOrReturn(t, c)
  PROVE  IsPatient(t)'
<1>1. [c EXCEPT !.op = "return", !.shard = 0, !.slot = 0].op = "return"
  BY DEF CallRecords
<1>2. NeverWaits([c EXCEPT !.op = "return", !.shard = 0, !.slot = 0])
  BY <1>1 DEF NeverWaits, KeyOps, Traversals, ReadTraversals, Serializing
<1>3. [c EXCEPT !.shard = @ + 1].op = call[t].op
  BY DEF CallRecords
<1>. QED
  BY <1>2, <1>3, OverPatient DEF NextOrReturn

LEMMA TraversalsPatient ==
  ASSUME IInv, NEW t \in Threads, IsPatient(t),
         \/ LenIn(t) \/ FoldIn(t) \/ Announce(t) \/ SerializeEntries(t)
         \/ Retain(t) \/ Clear(t) \/ ShrinkToFit(t)
  PROVE  IsPatient(t)'
<1>1. GoesOver(t) /\ UNCHANGED held
  BY DEF LenIn, FoldIn, Announce, SerializeEntries, Retain, Clear, ShrinkToFit, In, GoesOver,
         Traversals, ReadTraversals, Serializing
<1>2. /\ Counted(t) \in CallRecords /\ Counted(t).op = call[t].op
      /\ Gathered(t) \in CallRecords /\ Gathered(t).op = call[t].op /\ call[t] \in CallRecords
  BY CountedRecord, GatheredRecord, CallFields DEF IInv
<1>3. ASSUME \E c \in {Counted(t), Gathered(t), call[t]} : NextOrReturn(t, c)
      PROVE  IsPatient(t)'
  BY <1>1, <1>2, <1>3, NextOrReturnPatient
<1>4. ASSUME Finish(t)
      PROVE  IsPatient(t)'
  BY <1>1, <1>4, NoWaitYet, OverPatient DEF Finish
<1>5. CASE Announce(t)
  <2>1. CASE Continue(t, [Counted(t) EXCEPT !.op = "serialize_entries", !.shard = 0])
    <3>1. [Counted(t) EXCEPT !.op = "serialize_entries", !.shard = 0].op = "serialize_entries"
      BY <1>2 DEF CallRecords
    <3>. QED
      BY <1>1, <1>5, <2>1, <3>1, OverPatient DEF Announce, In
  <2>2. CASE Continue(t, [Counted(t) EXCEPT !.shard = @ + 1])
    <3>1. [Counted(t) EXCEPT !.shard = @ + 1].op = call[t].op
      BY <1>2 DEF CallRecords
    <3>. QED
      BY <1>1, <2>2, <3>1, OverPatient
  <2>. QED
    BY <1>4, <1>5, <2>1, <2>2 DEF Announce
<1>. QED
  BY <1>3, <1>4, <1>5 DEF LenIn, FoldIn, SerializeEntries, Retain, Clear, ShrinkToFit

-----------------------------------------------------------------------------
(* No deadlock *)

LEMMA StepPatient ==
  ASSUME IInv, NEW t \in Threads, IsPatient(t), Step(t)
  PROVE  IsPatient(t)'
BY BeginsPatient, TryCallPatient, AlterAllPatient, IdlesPatient, BeginNextPatient, KeyOpsPatient,
   EndsPatient, AlterPatient, NextShardPatient, YieldPatient, TraversalsPatient
   DEF Step, Proceed

LEMMA StutterPatient ==
  ASSUME CallersPatient, UNCHANGED vars
  PROVE  CallersPatient'
BY DEF vars, CallersPatient, IsPatient, Patient, AltersAll, HoldsNothing, OnlyShares, AllShared,
       YieldedBy, IterMutsOf, MayIterMut

LEMMA WaitInvariance == Spec => []WaitInv
<1>1. Init => WaitInv
  BY InitFits, InitPatient DEF WaitInv
<1>2. ASSUME WaitInv, [Next]_vars PROVE WaitInv'
  <2>1. IInv'
    BY <1>2, NextFits DEF WaitInv
  <2>2. ASSUME UNCHANGED vars  PROVE CallersPatient'
    BY <1>2, <2>2, StutterPatient DEF WaitInv
  <2>3. ASSUME NEW t \in Threads, Step(t)  PROVE CallersPatient'
    <3>1. IsPatient(t)' /\ \A u \in Threads \ {t} : held'[u] = held[u] /\ call'[u] = call[u]
      BY <1>2, <2>3, StepPatient, StepIsOwn DEF WaitInv, CallersPatient
    <3>2. ASSUME NEW u \in Threads \ {t}  PROVE IsPatient(u)'
      <4>1. call'[u] = call[u] /\ held'[u] = held[u] /\ IsPatient(u)
        BY <1>2, <3>1 DEF WaitInv, CallersPatient
      <4>. QED
        BY <4>1 DEF IsPatient, Patient, AltersAll, HoldsNothing, OnlyShares, AllShared, YieldedBy,
           IterMutsOf, MayIterMut
    <3>. QED
      BY <3>1, <3>2 DEF CallersPatient
  <2>4. CallersPatient'
    BY <1>2, <2>2, <2>3 DEF Next, Terminating
  <2>. QED
    BY <2>1, <2>4 DEF WaitInv
<1>. QED
  BY <1>1, <1>2, PTL DEF Spec

\* The calls do not deadlock, for any number of threads and shards: next and alter_all hold
\* one shard while they wait for the next (tableref/iter.rs), and the documentation of
\* every other call says what its caller may hold.
THEOREM NoCircularWaitHolds ==
  ASSUME DeadlockFreeCallers
  PROVE  Spec => []NoCircularWait
<1>1. WaitInv => NoCircularWait
  BY NoCircle
<1>. QED
  BY <1>1, WaitInvariance, PTL
=============================================================================
