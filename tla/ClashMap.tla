------------------------------ MODULE ClashMap ------------------------------
(***************************************************************************)
(* The concurrent map (src/map.rs): the calls that threads make, each a    *)
(* few steps on the table.  A call steps where it acquires or releases a   *)
(* lock, runs a closure of the caller or returns; what it does in between  *)
(* it does alone, under its lock.                                          *)
(*                                                                         *)
(* The documentation says of each call whether it "may deadlock if called  *)
(* when holding" a mutable reference, or any reference, into the map.  The *)
(* threads here respect that.                                              *)
(***************************************************************************)
EXTENDS ClashHandles

CONSTANTS
  Ops,         \* bound: the calls that each thread makes
  NestedReads  \* threads read the map while they hold a shared reference

ASSUME NestedReadsAssumption == NestedReads \in BOOLEAN

-----------------------------------------------------------------------------
(* Calls.  `key` is the key of a call on one key, `shard` the next shard of *)
(* a traversal, `slot` where the call has its handle, `result` the value    *)
(* that it returns; len returns a number, a traversal that copies the       *)
(* elements what it gathered, and serialize hands both to the serializer.   *)

Nothing == [k \in Keys |-> None]
Call(op, k, i) ==
  [op |-> op, key |-> k, shard |-> 0, slot |-> i,
   result |-> None, count |-> 0, gathered |-> Nothing]
Idle == Call("idle", None, 0)

KeyOps == {"get", "view", "contains_key", "get_mut", "entry",
           "insert", "remove", "remove_if", "remove_if_mut", "alter"}
ReadOps == {"get", "view", "contains_key"}
ReadTraversals == {"len", "fold", "serialize"}
Traversals == ReadTraversals \cup {"retain", "clear", "shrink_to_fit"}
Serializing == {"serialize", "serialize_entries"}
Closures == {"inserting", "removing", "view_closure", "remove_if_closure",
             "remove_if_mut_closure", "altering", "alter_closure",
             "alter_all_closure"}

\* A call of t goes on as c; c = Idle: it is over.
Continue(t, c) == call' = [call EXCEPT ![t] = c]
Become(t, op) == Continue(t, [call[t] EXCEPT !.op = op])
Finish(t) == Continue(t, Idle)
FinishWith(t, result) == Continue(t, [Idle EXCEPT !.op = "return", !.result = result])

In(t, op) == call[t].op = op
Slot(t) == call[t].slot
Key(t) == call[t].key

GoesOver(t) == call[t].op \in Traversals \cup Serializing

\* What t holds, as the documentation of the calls distinguishes it.
NoReference(t) == \A i \in Slots : held[t][i].shard = -1
NoMutable(t) ==
  \A i \in Slots : held[t][i].shard # -1 => held[t][i].kind \in SharedKinds
MayRead(t) == IF NestedReads THEN NoMutable(t) ELSE NoReference(t)
MayWrite(t) == NoReference(t)

\* A thread goes on with an iterator if, of other guards, it has only those
\* of references that the iterator yielded (or reads, if reads may nest).
MayAdvance(t, i) ==
  \/ \A j \in Slots \ {i} :
       held[t][j].shard # -1 =>
         /\ held[t][j].kind = IF held[t][i].kind = "Iter" THEN "RefMulti" ELSE "RefMutMulti"
         /\ held[t][j].shard <= held[t][i].shard
  \/ held[t][i].kind = "Iter" /\ NestedReads /\ NoMutable(t)

BeginAs(t, op, k) ==
  /\ call[t] = Idle /\ calls[t] > 0 /\ FreeSlots(t) # {}
  /\ calls' = [calls EXCEPT ![t] = @ - 1]
  /\ Continue(t, Call(op, k, FreeSlot(t)))
  /\ UNCHANGED <<shards, held, holes, aborted>>

Begin(t, op, k) == op \in Ops[t] /\ BeginAs(t, op, k)

BeginKeyOp(t) ==
  \E op \in KeyOps, k \in Keys :
    /\ IF op \in ReadOps THEN MayRead(t) ELSE MayWrite(t)
    /\ Begin(t, op, k)

\* The operators of a map are calls: map << (k, v), map >> k, map | k,
\* map - k and map & k.  Those of >> and | unwrap the reference.
OperatorCall ==
  [shl |-> "insert", shr |-> "get", bitor |-> "get_mut", sub |-> "remove",
   bitand |-> "contains_key"]

BeginOperator(t) ==
  \E name \in DOMAIN OperatorCall, k \in Keys :
    /\ name \in Ops[t]
    /\ IF OperatorCall[name] \in ReadOps THEN MayRead(t) ELSE MayWrite(t)
    /\ BeginAs(t, OperatorCall[name], k)

BeginTraversal(t) ==
  \E op \in Traversals :
    /\ IF op \in ReadTraversals THEN MayRead(t) ELSE MayWrite(t)
    /\ Begin(t, op, None)

Return(t) ==
  /\ In(t, "return") /\ Finish(t)
  /\ UNCHANGED <<shards, held, holes, aborted, calls>>

-----------------------------------------------------------------------------
(* Calls on one key *)

Get(t) ==
  /\ In(t, "get") /\ Find(t, Key(t), Slot(t)) /\ Finish(t)
  /\ UNCHANGED <<shards, holes, aborted, calls>>

ContainsKey(t) ==
  /\ In(t, "contains_key") /\ ReadLockable(ShardOf[Key(t)])
  /\ FinishWith(t, Stored(Key(t)))
  /\ UNCHANGED <<shards, held, holes, aborted, calls>>

GetMut(t) ==
  /\ In(t, "get_mut") /\ FindMut(t, Key(t), Slot(t)) /\ Finish(t)
  /\ UNCHANGED <<shards, holes, aborted, calls>>

\* try_get, try_get_mut and try_entry do not wait, so a thread may call them
\* whatever it holds.
TryGet(t, k) == "try_get" \in Ops[t] /\ TryFind(t, k, FreeSlot(t))
TryGetMut(t, k) == "try_get_mut" \in Ops[t] /\ TryFindMut(t, k, FreeSlot(t))
TryGetEntry(t, k) == "try_entry" \in Ops[t] /\ TryEntry(t, k, FreeSlot(t))

TryCall(t) ==
  /\ call[t] = Idle /\ calls[t] > 0 /\ FreeSlots(t) # {}
  /\ calls' = [calls EXCEPT ![t] = @ - 1]
  /\ \E k \in Keys : TryGet(t, k) \/ TryGetMut(t, k) \/ TryGetEntry(t, k)
  /\ UNCHANGED <<shards, call, holes, aborted>>

View(t) ==
  /\ In(t, "view") /\ Find(t, Key(t), Slot(t))
  /\ IF Stored(Key(t)) # None THEN Become(t, "view_closure") ELSE FinishWith(t, None)
  /\ UNCHANGED <<shards, holes, aborted, calls>>

ViewClosure(t) ==
  /\ In(t, "view_closure") /\ DropHandle(t, Slot(t))
  /\ FinishWith(t, Stored(Key(t)))
  /\ UNCHANGED <<shards, holes, aborted, calls>>

\* The entry becomes the caller's.
GetEntry(t) ==
  /\ In(t, "entry") /\ Entry(t, Key(t), Slot(t)) /\ Finish(t)
  /\ UNCHANGED <<shards, holes, aborted, calls>>

\* The closure that the call runs under its lock panics: the thread unwinds,
\* which drops the handle of the call.
ClosurePanics(t) ==
  /\ call[t].op \in {"view_closure", "remove_if_closure"}
  /\ DropHandle(t, Slot(t)) /\ Finish(t)
  /\ UNCHANGED <<shards, holes, aborted, calls>>

\* (mutants) The guard of the lookup is not kept; the key is looked up with
\* get, and the Ref is still alive when the entry is asked for.
InsertLookupUnlocks(t) ==
  /\ In(t, "insert") /\ WriteLockable(ShardOf[Key(t)]) /\ Become(t, "inserting")
  /\ UNCHANGED <<shards, held, holes, aborted, calls>>

InsertLookupUnderRef(t) ==
  /\ In(t, "insert")
  /\ \/ Find(t, Key(t), Slot(t)) /\ UNCHANGED call
     \/ Entry(t, Key(t), Slot(t)) /\ Become(t, "inserting")
  /\ UNCHANGED <<shards, holes, aborted, calls>>

\* insert is entry(key) and then an insert into the entry.
InsertLookup(t) ==
  /\ In(t, "insert") /\ Entry(t, Key(t), Slot(t)) /\ Become(t, "inserting")
  /\ UNCHANGED <<shards, holes, aborted, calls>>

\* The entry says whether there is an old value; the guard is dropped with
\* the entry or the RefMut.
Insert(t) ==
  /\ In(t, "inserting")
  /\ \E v \in Values : Store(Key(t), v)
  /\ FinishWith(t, IF held[t][Slot(t)].kind = "Occupied" THEN Stored(Key(t)) ELSE None)
  /\ DropHandle(t, Slot(t))
  /\ UNCHANGED <<holes, aborted, calls>>

\* remove, remove_if and remove_if_mut look the entry up.
RemoveLookup(t) ==
  /\ call[t].op \in {"remove", "remove_if", "remove_if_mut"}
  /\ FindEntry(t, Key(t), Slot(t))
  /\ IF Stored(Key(t)) = None THEN FinishWith(t, None)
     ELSE Become(t, CASE In(t, "remove") -> "removing"
                      [] In(t, "remove_if") -> "remove_if_closure"
                      [] In(t, "remove_if_mut") -> "remove_if_mut_closure")
  /\ UNCHANGED <<shards, holes, aborted, calls>>

Remove(t) ==
  /\ In(t, "removing") /\ OccupiedRemove(t, Slot(t))
  /\ FinishWith(t, Stored(Key(t)))
  /\ UNCHANGED <<holes, aborted, calls>>

\* The closure decides; the entry is dropped unless it is removed.
RemoveIf(t) ==
  /\ In(t, "remove_if_closure")
  /\ \/ OccupiedRemove(t, Slot(t)) /\ FinishWith(t, Stored(Key(t)))
     \/ DropHandle(t, Slot(t)) /\ FinishWith(t, None) /\ UNCHANGED shards
  /\ UNCHANGED <<holes, aborted, calls>>

\* This closure may also change the value before it decides, or panics.
RemoveIfMut(t) ==
  /\ In(t, "remove_if_mut_closure")
  /\ \/ OccupiedRemove(t, Slot(t)) /\ \E v \in Values : FinishWith(t, v)
     \/ OccupiedReplace(t, Slot(t)) /\ (FinishWith(t, None) \/ Finish(t))
  /\ UNCHANGED <<holes, aborted, calls>>

-----------------------------------------------------------------------------
(* alter and alter_all: replace_with_or_abort moves a value out, runs the   *)
(* closure on it and puts the result back.                                  *)

AlterLookup(t) ==
  /\ In(t, "alter") /\ FindMut(t, Key(t), Slot(t))
  /\ IF Stored(Key(t)) # None THEN Become(t, "altering") ELSE Finish(t)
  /\ UNCHANGED <<shards, holes, aborted, calls>>

AlterAll(t) ==
  /\ MayWrite(t) /\ call[t] = Idle /\ calls[t] > 0 /\ FreeSlots(t) # {}
  /\ "alter_all" \in Ops[t]
  /\ calls' = [calls EXCEPT ![t] = @ - 1]
  /\ Continue(t, Call("alter_all", None, FreeSlot(t)))
  /\ NewIterator(t, "IterMut")
  /\ UNCHANGED <<shards, holes, aborted>>

AlterAllNextShard(t) ==
  /\ In(t, "alter_all") /\ NextShard(t, Slot(t))
  /\ UNCHANGED <<shards, call, holes, aborted, calls>>

AlterTake(t) ==
  /\ call[t].op \in {"altering", "alter_all"}
  /\ \E k \in held[t][Slot(t)].keys :
       /\ holes' = holes \cup {k}
       /\ Continue(t, [call[t] EXCEPT
            !.op = IF In(t, "altering") THEN "alter_closure" ELSE "alter_all_closure",
            !.key = k])
  /\ UNCHANGED <<shards, held, aborted, calls>>

AlterPut(t) ==
  /\ call[t].op \in {"alter_closure", "alter_all_closure"}
  /\ \E v \in Values : Store(Key(t), v)
  /\ holes' = holes \ {Key(t)}
  /\ IF In(t, "alter_closure")
     THEN DropHandle(t, Slot(t)) /\ Finish(t)
     ELSE /\ held' = [held EXCEPT ![t][Slot(t)].keys = @ \ {Key(t)}]
          /\ Continue(t, [call[t] EXCEPT !.op = "alter_all", !.key = None])
  /\ UNCHANGED <<aborted, calls>>

\* (mutant) The thread unwinds and drops what it holds.
AlterUnwinds(t) ==
  /\ call[t].op \in {"alter_closure", "alter_all_closure"}
  /\ DropHandle(t, Slot(t)) /\ Finish(t)
  /\ UNCHANGED <<shards, holes, aborted, calls>>

\* The closure panics: nobody may see the value that is gone.
AlterPanics(t) ==
  /\ call[t].op \in {"alter_closure", "alter_all_closure"}
  /\ aborted' = TRUE
  /\ UNCHANGED <<shards, held, call, holes, calls>>

AlterAllEnds(t) ==
  /\ In(t, "alter_all")
  /\ Exhausted(held[t][Slot(t)]) /\ LastShard(held[t][Slot(t)])
  /\ DropHandle(t, Slot(t)) /\ Finish(t)
  /\ UNCHANGED <<shards, holes, aborted, calls>>

-----------------------------------------------------------------------------
(* Iterators *)

\* iter and iter_mut lock nothing yet.
NewIter(t) ==
  /\ call[t] = Idle /\ calls[t] > 0 /\ FreeSlots(t) # {}
  /\ calls' = [calls EXCEPT ![t] = @ - 1]
  /\ \/ "iter" \in Ops[t] /\ MayRead(t) /\ NewIterator(t, "Iter")
     \/ "iter_mut" \in Ops[t] /\ MayWrite(t) /\ NewIterator(t, "IterMut")
  /\ UNCHANGED <<shards, call, holes, aborted>>

BeginNext(t) ==
  /\ call[t] = Idle /\ FreeSlots(t) # {}
  /\ \E i \in Slots :
       /\ held[t][i].kind \in {"Iter", "IterMut"} /\ MayAdvance(t, i)
       /\ Continue(t, Call("next", None, i))
  /\ UNCHANGED <<shards, held, holes, aborted, calls>>

IterNextShard(t) ==
  /\ In(t, "next") /\ NextShard(t, Slot(t))
  /\ UNCHANGED <<shards, call, holes, aborted, calls>>

IterYield(t) ==
  /\ In(t, "next") /\ Yield(t, Slot(t)) /\ Finish(t)
  /\ UNCHANGED <<shards, holes, aborted, calls>>

\* (mutant) A shard with no element ends the iteration.
IterEndEarly(t) ==
  /\ In(t, "next") /\ Exhausted(held[t][Slot(t)]) /\ held[t][Slot(t)].shard # -1
  /\ Finish(t)
  /\ UNCHANGED <<shards, held, holes, aborted, calls>>

\* The last shard stays locked until the iterator is dropped.
IterEnd(t) ==
  /\ In(t, "next")
  /\ Exhausted(held[t][Slot(t)]) /\ LastShard(held[t][Slot(t)])
  /\ Finish(t)
  /\ UNCHANGED <<shards, held, holes, aborted, calls>>

-----------------------------------------------------------------------------
(* Traversals that hold one lock at a time *)

AtShard(t) == call[t].shard
\* (mutant) One shard too far.
NextOrReturnLate(t, c) ==
  IF AtShard(t) = ShardCount
  THEN Continue(t, [c EXCEPT !.op = "return", !.shard = 0, !.slot = 0])
  ELSE Continue(t, [c EXCEPT !.shard = @ + 1])

\* (mutant) One shard too few.
NextOrReturnEarly(t, c) ==
  IF AtShard(t) + 1 >= ShardCount - 1
  THEN Continue(t, [c EXCEPT !.op = "return", !.shard = 0, !.slot = 0])
  ELSE Continue(t, [c EXCEPT !.shard = @ + 1])

NextOrReturn(t, c) ==
  IF AtShard(t) = ShardCount - 1
  THEN Continue(t, [c EXCEPT !.op = "return", !.shard = 0, !.slot = 0])
  ELSE Continue(t, [c EXCEPT !.shard = @ + 1])

Counted(t) == [call[t] EXCEPT !.count = @ + Cardinality(Present(AtShard(t)))]

\* (mutant) A shard that is locked exclusively is counted without waiting.
LenInUnlocked(t) ==
  /\ In(t, "len") /\ NextOrReturn(t, Counted(t))
  /\ UNCHANGED <<shards, held, holes, aborted, calls>>

\* len and capacity
LenIn(t) ==
  /\ In(t, "len") /\ ReadLockable(AtShard(t))
  /\ NextOrReturn(t, Counted(t))
  /\ UNCHANGED <<shards, held, holes, aborted, calls>>

\* (mutant) What the shards before this one had is lost.
GatheredAlone(t) == [call[t] EXCEPT !.gathered = shards[AtShard(t)]]

Gathered(t) ==
  [call[t] EXCEPT !.gathered =
     [k \in Keys |-> IF k \in Present(AtShard(t)) THEN shards[AtShard(t)][k] ELSE @[k]]]

\* for_each, fold (Debug) and clone
FoldIn(t) ==
  /\ In(t, "fold") /\ ReadLockable(AtShard(t))
  /\ NextOrReturn(t, Gathered(t))
  /\ UNCHANGED <<shards, held, holes, aborted, calls>>

\* (mutant) The last shard is left out of the number.
AnnounceEarly(t) ==
  /\ In(t, "serialize") /\ ReadLockable(AtShard(t))
  /\ IF AtShard(t) = ShardCount - 1
     THEN Continue(t, [call[t] EXCEPT !.op = "serialize_entries", !.shard = 0])
     ELSE Continue(t, [Counted(t) EXCEPT !.shard = @ + 1])
  /\ UNCHANGED <<shards, held, holes, aborted, calls>>

\* serialize: first len() is announced to the serializer, which may refuse it.
Announce(t) ==
  /\ In(t, "serialize") /\ ReadLockable(AtShard(t))
  /\ IF AtShard(t) = ShardCount - 1
     THEN \/ Continue(t, [Counted(t) EXCEPT !.op = "serialize_entries", !.shard = 0])
          \/ Finish(t)
     ELSE Continue(t, [Counted(t) EXCEPT !.shard = @ + 1])
  /\ UNCHANGED <<shards, held, holes, aborted, calls>>

\* Then try_for_each hands it the elements; an element that it refuses ends the
\* traversal.
SerializeEntries(t) ==
  /\ In(t, "serialize_entries") /\ ReadLockable(AtShard(t))
  /\ NextOrReturn(t, Gathered(t)) \/ (Present(AtShard(t)) # {} /\ Finish(t))
  /\ UNCHANGED <<shards, held, holes, aborted, calls>>

\* The closure of retain may panic: the elements that it has already judged
\* stay so, the guard is dropped, and the other shards are not visited.
Retain(t) ==
  /\ In(t, "retain") /\ RetainIn(AtShard(t))
  /\ NextOrReturn(t, call[t]) \/ Finish(t)
  /\ UNCHANGED <<held, holes, aborted, calls>>

\* (mutant) A shard that is empty ends the call.
ClearStops(t) ==
  /\ In(t, "clear") /\ ClearIn(AtShard(t))
  /\ IF Present(AtShard(t)) = {} THEN FinishWith(t, None) ELSE NextOrReturn(t, call[t])
  /\ UNCHANGED <<held, holes, aborted, calls>>

Clear(t) ==
  /\ In(t, "clear") /\ ClearIn(AtShard(t))
  /\ NextOrReturn(t, call[t])
  /\ UNCHANGED <<held, holes, aborted, calls>>

ShrinkToFit(t) ==
  /\ In(t, "shrink_to_fit") /\ ShrinkIn(AtShard(t))
  /\ NextOrReturn(t, call[t])
  /\ UNCHANGED <<held, holes, aborted, calls>>

-----------------------------------------------------------------------------
(* What the caller does with its handles between its calls *)

UseHandle(t) ==
  /\ call[t] = Idle
  /\ \E i \in Slots : Use(t, i)
  /\ UNCHANGED <<call, holes, aborted, calls>>

Drop(t) ==
  /\ call[t] = Idle
  /\ \E i \in Slots : held[t][i] # NoHandle /\ DropHandle(t, i)
  /\ UNCHANGED <<shards, call, holes, aborted, calls>>

-----------------------------------------------------------------------------
Init ==
  /\ shards \in [Shards -> [Keys -> Values \cup {None}]]
  /\ \A s \in Shards, k \in Keys : shards[s][k] # None => ShardOf[k] = s
  /\ held = [t \in Threads |-> [i \in Slots |-> NoHandle]]
  /\ call = [t \in Threads |-> Idle]
  /\ holes = {} /\ aborted = FALSE
  /\ calls = MaxCalls

Proceed(t) ==
  \/ Get(t) \/ ContainsKey(t) \/ GetMut(t) \/ View(t) \/ ViewClosure(t)
  \/ GetEntry(t) \/ InsertLookup(t) \/ Insert(t) \/ RemoveLookup(t) \/ Remove(t)
  \/ RemoveIf(t) \/ RemoveIfMut(t) \/ ClosurePanics(t)
  \/ AlterLookup(t) \/ AlterTake(t) \/ AlterPut(t) \/ AlterPanics(t)
  \/ AlterAllNextShard(t) \/ AlterAllEnds(t)
  \/ IterNextShard(t) \/ IterYield(t) \/ IterEnd(t)
  \/ LenIn(t) \/ FoldIn(t) \/ Announce(t) \/ SerializeEntries(t) \/ Retain(t) \/ Clear(t) \/ ShrinkToFit(t)
  \/ Return(t)

Quiet ==
  aborted \/ \A t \in Threads : call[t] = Idle /\ calls[t] = 0 /\ NoReference(t)

Terminating == Quiet /\ UNCHANGED vars

Step(t) ==
  \/ BeginKeyOp(t) \/ BeginOperator(t) \/ BeginTraversal(t) \/ TryCall(t) \/ AlterAll(t)
  \/ NewIter(t) \/ BeginNext(t) \/ UseHandle(t) \/ Drop(t) \/ Proceed(t)

Next == (~aborted /\ \E t \in Threads : Step(t)) \/ Terminating

Spec == Init /\ [][Next]_vars

\* A thread in a call keeps running, closures return, and a caller drops its
\* handles in the end, also if it keeps calling next between.
Fairness ==
  \A t \in Threads : WF_vars(~aborted /\ Proceed(t)) /\ SF_vars(~aborted /\ Drop(t))
FairSpec == Spec /\ Fairness
-----------------------------------------------------------------------------
(* Properties *)

Kinds == SharedKinds \cup ExclusiveKinds
CallOps == KeyOps \cup Traversals \cup Serializing \cup Closures
           \cup {"idle", "return", "next", "alter_all"}

TypeOK ==
  /\ shards \in [Shards -> [Keys -> Values \cup {None}]]
  /\ held \in [Threads -> [Slots -> Handles]]
  /\ call \in [Threads -> [op : CallOps, key : Keys \cup {None},
                           shard : Shards, slot : 0..MaxHandles,
                           result : Values \cup {None}, count : Nat,
                           gathered : [Keys -> Values \cup {None}]]]
  /\ holes \subseteq Keys
  /\ aborted \in BOOLEAN
  /\ calls \in [Threads -> Nat]

\* "The data will not outlive the guard" (sharded.rs): what a handle refers to
\* stays where it is as long as the handle lives.  The element of a reference
\* is in its shard, and so is what an iterator is still to yield; the key of
\* a vacant entry is still absent when the caller gets to insert it.
RefsStayValid ==
  \A t \in Threads, i \in Slots : \A k \in held[t][i].keys :
    /\ held[t][i].kind \in Kinds \ {"Vacant"} => Stored(k) # None
    /\ held[t][i].kind = "Vacant" => Stored(k) = None

\* Rust's rule for references, which the map keeps at run time by its locks:
\* what one handle may change, no other handle of any thread refers to.
AliasingXorMutability ==
  \A t, u \in Threads, i, j \in Slots :
    held[t][i].kind \in ExclusiveKinds /\ <<t, i>> # <<u, j>>
      => held[t][i].keys \cap held[u][j].keys = {}

\* The value that alter or alter_all has moved out of the map is seen by
\* nobody: the closure that has it is still running, and the one handle on the
\* key is the one of that call.
HolesAreHidden ==
  ~aborted =>
    \A k \in holes : \E t \in Threads :
      /\ call[t].op \in {"alter_closure", "alter_all_closure"} /\ Key(t) = k
      /\ \A u \in Threads, i \in Slots :
           k \in held[u][i].keys <=> u = t /\ i = Slot(t)

\* The shard that a call waits for, -1 if none, and whether to write to it.
AtFirstLock(t) == call[t].op \in KeyOps
IterLocks(t) ==
  /\ In(t, "next") \/ In(t, "alter_all")
  /\ Exhausted(held[t][Slot(t)]) /\ ~LastShard(held[t][Slot(t)])
Wanted(t) ==
  IF AtFirstLock(t) THEN ShardOf[Key(t)]
  ELSE IF GoesOver(t) THEN AtShard(t)
  ELSE IF IterLocks(t) THEN held[t][Slot(t)].shard + 1
  ELSE -1
WantsWrite(t) ==
  IF IterLocks(t) THEN held[t][Slot(t)].kind = "IterMut"
  ELSE call[t].op \notin ReadOps \cup ReadTraversals \cup Serializing

WaitsFor(t, u) ==
  \E i \in Slots :
    /\ held[u][i].shard = Wanted(t) /\ Wanted(t) # -1
    /\ WantsWrite(t) \/ held[u][i].kind \in ExclusiveKinds

\* No deadlock: in no group of threads does each wait for one of the group.
NoCircularWait ==
  \A group \in (SUBSET Threads) \ {{}} :
    \E t \in group : \A u \in group : ~WaitsFor(t, u)

\* A call returns, if the handles in its way are dropped.
EveryCallReturns ==
  \A t \in Threads : call[t] # Idle ~> call[t] = Idle \/ aborted

\* "If the given closure panics, then `view` will abort the process" (map.rs).
ViewPanicAborts ==
  [][\A t \in Threads : In(t, "view_closure") /\ ClosurePanics(t) => aborted']_vars

-----------------------------------------------------------------------------
(* Refinement *)

Mode(h) == IF h.kind \in ExclusiveKinds THEN "mut" ELSE "shared"
Outer(op) ==
  CASE op = "inserting" -> "insert"
    [] op = "removing" -> "remove"
    [] op = "view_closure" -> "view"
    [] op = "remove_if_closure" -> "remove_if"
    [] op = "remove_if_mut_closure" -> "remove_if_mut"
    [] op \in {"altering", "alter_closure"} -> "alter"
    [] op = "alter_all_closure" -> "alter_all"
    [] OTHER -> op

AbsMap == [k \in Keys |-> Stored(k)]

BorrowsOf(H) ==
  {b \in Threads \X Keys \X {"shared", "mut"} :
     \E i \in Slots : b[2] \in H[b[1]][i].keys /\ b[3] = Mode(H[b[1]][i])}
AbsBorrows == BorrowsOf(held)

ToVisit(c) ==
  IF c.op \in Traversals \cup Serializing THEN {k \in Keys : ShardOf[k] >= c.shard} ELSE {}
AbsCall(c) ==
  [op |-> Outer(c.op), key |-> IF c.op = "alter_all_closure" THEN None ELSE c.key,
   left |-> ToVisit(c), result |-> c.result, count |-> c.count, gathered |-> c.gathered]
AbsCalls == [t \in Threads |-> AbsCall(call[t])]

Abs == INSTANCE AtomicMap WITH map <- AbsMap, borrows <- AbsBorrows, call <- AbsCalls

\* The map does what AtomicMap promises.
ImplementsAtomicMap == Abs!Spec
=============================================================================
