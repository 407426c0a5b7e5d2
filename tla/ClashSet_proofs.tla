---------------------------- MODULE ClashSet_proofs ----------------------------
(***************************************************************************)
(* A theorem about ClashSet: the answers of the set add up, for any number *)
(* of callers, workers, shards and keys.                                   *)
(***************************************************************************)
EXTENDS ClashSet, ParallelMap_proofs

\* The stages of the calls of the set, and those in which a call has an entry.
EntryStages == {"inserting", "removing", "remove_if_closure"}
SetStages == SetOps \cup EntryStages \cup PoolStages
             \cup {"idle", "return", "next", "serialize_entries"}

\* Between its calls, a caller of the set has nothing with which it could change
\* an element.
OnlyReads(c, H) ==
  \A i \in Slots : H[i].kind \notin SharedKinds \cup {"none"} =>
    c.op \in EntryStages /\ i = c.slot

StagesOfSet == \A t \in Threads : call[t].op \in SetStages
CallersRead == \A t \in Threads \ Workers : OnlyReads(call[t], held[t])

SetInv == AnswersAddUp /\ StagesOfSet /\ CallersRead

-----------------------------------------------------------------------------
(* Counting the answers *)

\* The call of t answers in this step that k was new, or that it was there and is gone.
SaysNew(t, k) == Answers(t, k, {"insert"}) /\ Inserted(call'[t].result)
SaysGone(t, k) == Answers(t, k, {"remove", "remove_if"}) /\ Removed(call'[t].result)

AnswerStages == {"insert", "inserting", "remove", "removing", "remove_if", "remove_if_closure"}

LEMMA WhoAnswers ==
  ASSUME NEW t, NEW k, SaysNew(t, k) \/ SaysGone(t, k)
  PROVE  call[t].op \in AnswerStages /\ call[t].op # "return" /\ call'[t].op = "return"
BY DEF SaysNew, SaysGone, Answers, Outer, AnswerStages

LEMMA Counting ==
  ASSUME AnswersAddUp, NEW t \in Threads,
         \A u \in Threads \ {t} : call'[u] = call[u],
         answered' = [k \in Keys |-> AnsweredOf(k)],
         \A k \in Keys :
           \/ /\ ~SaysNew(t, k) /\ ~SaysGone(t, k)
              /\ \/ Stored(k)' # None <=> Stored(k) # None
                 \/ Sweeps(t) /\ (Stored(k)' # None => Stored(k) # None)
           \/ SaysNew(t, k) /\ Stored(k) = None /\ Stored(k)' # None
           \/ SaysGone(t, k) /\ ~SaysNew(t, k) /\ Stored(k) # None /\ Stored(k)' = None
  PROVE  AnswersAddUp'
<1>1. SUFFICES ASSUME NEW k \in Keys
               PROVE  answered'[k] = IF Stored(k)' # None THEN 1 ELSE 0
  BY DEF AnswersAddUp
<1>2. \A u \in Threads \ {t} : ~SaysNew(u, k) /\ ~SaysGone(u, k) /\ ~Sweeps(u)
  <2>1. SUFFICES ASSUME NEW u \in Threads \ {t}  PROVE ~SaysNew(u, k) /\ ~SaysGone(u, k) /\ ~Sweeps(u)
    OBVIOUS
  <2>2. call'[u] = call[u]
    OBVIOUS
  <2>. QED
    BY <2>2, WhoAnswers DEF Sweeps
<1>3. /\ (\E u \in Threads : SaysNew(u, k)) <=> SaysNew(t, k)
      /\ (\E u \in Threads : SaysGone(u, k)) <=> SaysGone(t, k)
      /\ (\E u \in Threads : Sweeps(u)) <=> Sweeps(t)
  BY <1>2
<1>4. answered'[k] = IF SaysNew(t, k) THEN answered[k] + 1
                     ELSE IF SaysGone(t, k) THEN answered[k] - 1
                     ELSE IF Sweeps(t) /\ Stored(k)' = None THEN 0 ELSE answered[k]
  <2>1. answered'[k] = AnsweredOf(k)
    OBVIOUS
  <2>. HIDE DEF SaysNew, SaysGone, Sweeps
  <2>2. AnsweredOf(k) = IF \E u \in Threads : SaysNew(u, k) THEN answered[k] + 1
                        ELSE IF \E u \in Threads : SaysGone(u, k) THEN answered[k] - 1
                        ELSE IF (\E u \in Threads : Sweeps(u)) /\ Stored(k)' = None THEN 0
                        ELSE answered[k]
    BY DEF AnsweredOf, SaysNew, SaysGone, Stored
  <2>. QED
    BY <2>1, <2>2, <1>3
<1>5. answered[k] = IF Stored(k) # None THEN 1 ELSE 0
  BY DEF AnswersAddUp
<1>. QED
  BY <1>4, <1>5

\* A step that changes no element, and does not answer for the call.
LEMMA NothingNew ==
  ASSUME AnswersAddUp, NEW t \in Threads,
         \A u \in Threads \ {t} : call'[u] = call[u],
         answered' = [k \in Keys |-> AnsweredOf(k)],
         call[t].op \notin AnswerStages \/ call'[t].op # "return",
         UNCHANGED shards
  PROVE  AnswersAddUp'
<1>1. \A k \in Keys : ~SaysNew(t, k) /\ ~SaysGone(t, k) /\ Stored(k)' = Stored(k)
  BY WhoAnswers DEF Stored
<1>. QED
  BY <1>1, Counting

\* The element of one key changes, and the call of t answers for that key.
LEMMA OneKeyChanges ==
  ASSUME PInv, AnswersAddUp, NEW t \in Threads, NEW k \in Keys, NEW v \in Values \cup {None},
         \A u \in Threads \ {t} : call'[u] = call[u],
         answered' = [l \in Keys |-> AnsweredOf(l)],
         call[t].op \in AnswerStages => Key(t) = k,
         Store(k, v),
         \/ ~SaysNew(t, k) /\ ~SaysGone(t, k) /\ (Stored(k) # None <=> v # None)
         \/ ~SaysNew(t, k) /\ ~SaysGone(t, k) /\ Sweeps(t) /\ v = None
         \/ SaysNew(t, k) /\ Stored(k) = None /\ v # None
         \/ SaysGone(t, k) /\ ~SaysNew(t, k) /\ Stored(k) # None /\ v = None
  PROVE  AnswersAddUp'
<1>1. Stored(k)' = v /\ \A l \in Keys \ {k} : Stored(l)' = Stored(l)
  BY HomeOfKey DEF Store, Stored, PInv, IInv, TableInv, TableTypeOK, ShardTables
<1>2. \A l \in Keys \ {k} : ~SaysNew(t, l) /\ ~SaysGone(t, l)
  BY WhoAnswers DEF SaysNew, SaysGone, Answers
<1>. QED
  BY <1>1, <1>2, Counting

\* The entry of a stage is of the key of the call, and says whether there is an element.
LEMMA EntryOfCall ==
  ASSUME PInv, NEW t \in Threads, call[t].op \in EntryStages
  PROVE  /\ Key(t) \in Keys /\ Slot(t) \in Slots
         /\ held[t][Slot(t)].keys = {Key(t)} /\ held[t][Slot(t)].kind \in EntryKinds
         /\ held[t][Slot(t)].kind = "Occupied" <=> Stored(Key(t)) # None
         /\ call[t].op # "inserting" => held[t][Slot(t)].kind = "Occupied"
<1>1. CallFits(call[t], held[t])
  BY DEF PInv, IInv, CallsFit
<1>2. /\ Key(t) \in Keys /\ Slot(t) \in Slots
      /\ held[t][Slot(t)].keys = {Key(t)} /\ held[t][Slot(t)].kind \in EntryKinds
      /\ call[t].op # "inserting" => held[t][Slot(t)].kind = "Occupied"
  BY <1>1 DEF CallFits, HasOne, EntryStages, EntryKinds, Key, Slot
<1>3. Fits(held[t][Slot(t)])
  BY <1>2 DEF PInv, IInv, TableInv, HandlesFit
<1>. QED
  BY <1>2, <1>3 DEF Fits, EntryKinds

LEMMA StoredValue ==
  ASSUME PInv, NEW k \in Keys
  PROVE  Stored(k) \in Values \cup {None}
BY HomeOfKey DEF Stored, PInv, IInv, TableInv, TableTypeOK, ShardTables

LEMMA FinishesWith ==
  ASSUME PInv, NEW t \in Threads, NEW r, FinishWith(t, r)
  PROVE  /\ call'[t].op = "return" /\ call'[t].result = r
         /\ \A u \in Threads \ {t} : call'[u] = call[u]
BY DEF FinishWith, Continue, Idle, Call, PInv, IInv, RestTypeOK

LEMMA Finishes ==
  ASSUME PInv, NEW t \in Threads, Finish(t)
  PROVE  /\ call'[t].op = "idle"
         /\ \A u \in Threads \ {t} : call'[u] = call[u]
BY IdleFits DEF Finish, Continue, PInv, IInv, RestTypeOK

LEMMA Becomes ==
  ASSUME PInv, NEW t \in Threads, NEW op, Become(t, op)
  PROVE  /\ call'[t].op = op /\ call'[t].slot = call[t].slot
         /\ \A u \in Threads \ {t} : call'[u] = call[u]
BY DEF Become, Continue, PInv, IInv, RestTypeOK, CallRecords

\* insert answers that the key was new just if there is no old value.
LEMMA InsertAddsUp ==
  ASSUME PInv, AnswersAddUp, NEW t \in Threads, Insert(t),
         answered' = [k \in Keys |-> AnsweredOf(k)]
  PROVE  AnswersAddUp'
<1>1. In(t, "inserting") /\ call[t].op \in EntryStages
  BY DEF Insert, In, EntryStages
<1>2. PICK v \in Values : Store(Key(t), v)
  BY DEF Insert
<1>3. /\ call'[t].op = "return"
      /\ call'[t].result = IF held[t][Slot(t)].kind = "Occupied" THEN Stored(Key(t)) ELSE None
      /\ \A u \in Threads \ {t} : call'[u] = call[u]
  BY FinishesWith DEF Insert
<1>4. call'[t].result = Stored(Key(t)) /\ v # None /\ Key(t) \in Keys
  BY <1>1, <1>3, EntryOfCall, NoneAssumption
<1>5. /\ SaysNew(t, Key(t)) <=> Stored(Key(t)) = None
      /\ ~SaysGone(t, Key(t))
  BY <1>1, <1>3, <1>4 DEF SaysNew, SaysGone, Answers, Outer, In, Inserted
<1>. QED
  BY <1>2, <1>3, <1>4, <1>5, OneKeyChanges

\* remove hands out the old value, just if there is one.
LEMMA RemoveAddsUp ==
  ASSUME PInv, AnswersAddUp, NEW t \in Threads,
         call[t].op \in {"removing", "remove_if_closure"}, OccupiedRemove(t, Slot(t)),
         FinishWith(t, Stored(Key(t))), answered' = [k \in Keys |-> AnsweredOf(k)]
  PROVE  AnswersAddUp'
<1>1. /\ Key(t) \in Keys /\ held[t][Slot(t)].keys = {Key(t)} /\ Stored(Key(t)) # None
  BY EntryOfCall DEF EntryStages
<1>2. Store(Key(t), None)
  BY <1>1 DEF OccupiedRemove
<1>3. /\ call'[t].op = "return" /\ call'[t].result = Stored(Key(t))
      /\ \A u \in Threads \ {t} : call'[u] = call[u]
  BY FinishesWith
<1>4. SaysGone(t, Key(t)) /\ ~SaysNew(t, Key(t))
  BY <1>1, <1>3 DEF SaysNew, SaysGone, Answers, Outer, Removed
<1>. QED
  BY <1>1, <1>2, <1>3, <1>4, OneKeyChanges

\* A call that answers with nothing to a removal.
LEMMA NothingRemoved ==
  ASSUME PInv, AnswersAddUp, NEW t \in Threads,
         call[t].op \in {"remove", "remove_if", "removing", "remove_if_closure"},
         FinishWith(t, None), UNCHANGED shards, answered' = [k \in Keys |-> AnsweredOf(k)]
  PROVE  AnswersAddUp'
<1>1. /\ call'[t].op = "return" /\ call'[t].result = None
      /\ \A u \in Threads \ {t} : call'[u] = call[u]
  BY FinishesWith
<1>2. \A k \in Keys : ~SaysNew(t, k) /\ ~SaysGone(t, k) /\ Stored(k)' = Stored(k)
  BY <1>1 DEF SaysNew, SaysGone, Answers, Outer, Removed, Stored
<1>. QED
  BY <1>1, <1>2, Counting

\* retain and clear, and the iterators that take the elements out, answer for none.
LEMMA SweepAddsUp ==
  ASSUME PInv, AnswersAddUp, NEW t \in Threads, Sweeps(t),
         \A u \in Threads \ {t} : call'[u] = call[u],
         \A k \in Keys : Stored(k)' # None => Stored(k) # None,
         answered' = [k \in Keys |-> AnsweredOf(k)]
  PROVE  AnswersAddUp'
<1>1. \A k \in Keys : ~SaysNew(t, k) /\ ~SaysGone(t, k)
  BY WhoAnswers DEF Sweeps, AnswerStages
<1>. QED
  BY <1>1, Counting

-----------------------------------------------------------------------------
(* The steps of a caller, and of a worker that inserts *)

Looks(t) ==
  Get(t) \/ ContainsKey(t) \/ InsertLookup(t) \/ RemoveLookup(t)
Answering(t) == Insert(t) \/ Remove(t) \/ RemoveIf(t) \/ ClosurePanics(t)
Going(t) ==
  \/ IterNextShard(t) \/ IterYield(t) \/ IterEnd(t)
  \/ LenIn(t) \/ FoldIn(t) \/ Announce(t) \/ SerializeEntries(t) \/ ShrinkToFit(t) \/ Return(t)
Sweeping(t) == Retain(t) \/ Clear(t)

LEMMA ProceedsInSet ==
  ASSUME StagesOfSet, NEW t \in Threads, Proceed(t)
  PROVE  Looks(t) \/ Answering(t) \/ Going(t) \/ Sweeping(t)
<1>1. call[t].op \in SetStages
  BY DEF StagesOfSet
<1>2. call[t].op \notin {"get_mut", "view", "view_closure", "entry", "remove_if_mut",
        "remove_if_mut_closure", "alter", "altering", "alter_closure", "alter_all",
        "alter_all_closure"}
  BY <1>1 DEF SetStages, SetOps, KeyCallsOfSet, WholeCallsOfSet, CopyOfSet, SerializeOfSet,
     IterOfSet, ParCallsOfSet, EntryStages, PoolStages
<1>. QED
  BY <1>2 DEF Proceed, GetMut, View, ViewClosure, GetEntry, RemoveIfMut, AlterLookup, AlterTake,
     AlterPut, AlterPanics, AlterAllNextShard, AlterAllEnds, In, Looks, Answering, Going, Sweeping

LEMMA StepsOfSet ==
  ASSUME PInv, StagesOfSet, NEW t \in Threads, Step(t)
  PROVE  \/ \E op \in SetOps : \E k : Begin(t, op, k)
         \/ NewIter(t) /\ NewIterator(t, "Iter")
         \/ BeginNext(t) \/ UseHandle(t) \/ Drop(t)
         \/ Looks(t) \/ Answering(t) \/ Going(t) \/ Sweeping(t)
<1>1. Ops[t] \subseteq SetOps
  BY SetAssumption
<1>. USE DEF SetOps, KeyCallsOfSet, WholeCallsOfSet, CopyOfSet, SerializeOfSet, IterOfSet,
             ParCallsOfSet
<1>2. CASE BeginKeyOp(t) \/ BeginTraversal(t)
  <2>1. PICK op, k : Begin(t, op, k)
    BY <1>2 DEF BeginKeyOp, BeginTraversal
  <2>. QED
    BY <1>1, <2>1 DEF Begin
<1>3. ~BeginOperator(t)
  <2>1. DOMAIN OperatorCall = {"shl", "shr", "bitor", "sub", "bitand"}
    BY DEF OperatorCall
  <2>. QED
    BY <1>1, <2>1 DEF BeginOperator
<1>4. ~TryCall(t) /\ ~AlterAll(t)
  BY <1>1 DEF TryCall, TryGet, TryGetMut, TryGetEntry, AlterAll
<1>5. NewIter(t) => NewIterator(t, "Iter")
  BY <1>1 DEF NewIter
<1>. QED
  BY <1>2, <1>3, <1>4, <1>5, ProceedsInSet DEF Step

LEMMA PutReads ==
  ASSUME PInv, NEW t \in Threads, OnlyReads(call[t], held[t]), NEW i \in Slots, NEW h,
         PutHandle(t, i, h), NEW c,
         h.kind \in SharedKinds \cup {"none"} \/ (c.op \in EntryStages /\ i = c.slot),
         call[t].op \in EntryStages => i = Slot(t)
  PROVE  OnlyReads(c, held'[t])
<1>1. /\ held'[t][i] = h
      /\ \A j \in Slots \ {i} : held'[t][j] = held[t][j]
  BY DEF PutHandle, PInv, IInv, TableInv, TableTypeOK
<1>. QED
  BY <1>1 DEF OnlyReads, Slot

LEMMA SameReads ==
  ASSUME NEW t \in Threads, OnlyReads(call[t], held[t]), UNCHANGED held, NEW c,
         call[t].op \notin EntryStages
  PROVE  OnlyReads(c, held'[t])
BY DEF OnlyReads

LEMMA NoHandleReads ==
  /\ NoHandle.kind = "none"
  /\ \A kind \in SharedKinds : \A s, K : Handle(kind, s, K).kind \in SharedKinds
BY DEF NoHandle, Handle, SharedKinds

\* What a caller of the set can do with its references changes nothing.
LEMMA UsesRead ==
  ASSUME PInv, NEW t \in Threads, OnlyReads(call[t], held[t]), UseHandle(t)
  PROVE  /\ UNCHANGED <<shards, call>> /\ OnlyReads(call'[t], held'[t])
<1>1. call[t].op = "idle" /\ UNCHANGED call
  BY IdleFits DEF UseHandle
<1>2. PICK i \in Slots : Use(t, i)
  BY DEF UseHandle
<1>3. held[t][i].kind \in SharedKinds \cup {"none"}
  BY <1>1 DEF OnlyReads, EntryStages
<1>4. MapRef(t, i) \/ CloneMulti(t, i) \/ CloneIter(t, i)
  BY <1>2, <1>3 DEF Use, AndModify, IntoKey, IsEntry, EntryKinds, SharedKinds, OrInsert, EntryInsert,
     EntryInsertEntry, OccupiedOps, MapRefMut, ValueMut, MultiValueMut, DowngradeRef,
     Downgrade, VacantInsert, OccupiedInsert, OccupiedIntoMut
<1>5. CASE MapRef(t, i)
  BY <1>1, <1>5, PutReads, SameReads, NoHandleReads DEF MapRef, DropHandle, EntryStages
<1>6. CASE CloneMulti(t, i) \/ CloneIter(t, i)
  <2>1. FreeSlot(t) \in Slots /\ PutHandle(t, FreeSlot(t), held[t][i]) /\ UNCHANGED shards
    BY <1>6, FreeSlotIsFree DEF CloneMulti, CloneIter, CloneHandle
  <2>. QED
    BY <1>1, <1>3, <2>1, PutReads DEF EntryStages
<1>. QED
  BY <1>1, <1>4, <1>5, <1>6

\* The next shard, the end, or an end before: the stage is one that goes over the map.
LEMMA ShardsGoOn ==
  ASSUME PInv, NEW t \in Threads, NEW c \in CallRecords, NextOrReturn(t, c)
  PROVE  /\ call'[t].op \in {c.op, "return"}
         /\ \A u \in Threads \ {t} : call'[u] = call[u]
         /\ c.shard = call[t].shard => call'[t] # call[t]
<1>1. CASE AtShard(t) = ShardCount - 1
  <2>1. Continue(t, [c EXCEPT !.op = "return", !.shard = 0, !.slot = 0])
    BY <1>1 DEF NextOrReturn
  <2>2. call[t].shard # 0
    BY <1>1, ShardAssumption DEF AtShard
  <2>3. /\ call'[t].op = "return" /\ call'[t].shard = 0
        /\ \A u \in Threads \ {t} : call'[u] = call[u]
    BY <2>1 DEF Continue, PInv, IInv, RestTypeOK, CallRecords
  <2>. QED
    BY <2>2, <2>3
<1>2. CASE AtShard(t) # ShardCount - 1
  <2>1. Continue(t, [c EXCEPT !.shard = @ + 1])
    BY <1>2 DEF NextOrReturn
  <2>2. /\ call'[t].op = c.op /\ call'[t].shard = c.shard + 1
        /\ \A u \in Threads \ {t} : call'[u] = call[u]
    BY <2>1 DEF Continue, PInv, IInv, RestTypeOK, CallRecords
  <2>3. c.shard \in Int
    BY DEF CallRecords, Shards
  <2>. QED
    BY <2>2, <2>3
<1>. QED
  BY <1>1, <1>2

LEMMA SweepsOn ==
  ASSUME PInv, NEW t \in Threads, Sweeping(t)
  PROVE  /\ call[t].op \in {"retain", "clear"} /\ call'[t].op \in {call[t].op, "idle", "return"}
         /\ Sweeps(t) /\ UNCHANGED held
         /\ \A u \in Threads \ {t} : call'[u] = call[u]
         /\ \A k \in Keys : Stored(k)' # None => Stored(k) # None
<1>1. /\ call[t].op \in {"retain", "clear"} /\ UNCHANGED held
      /\ NextOrReturn(t, call[t]) \/ Finish(t)
  BY DEF Sweeping, Retain, Clear, In
<1>2. call[t] \in CallRecords
  BY CallFields DEF PInv, IInv
<1>3. /\ call'[t].op \in {call[t].op, "idle", "return"} /\ call'[t] # call[t]
      /\ \A u \in Threads \ {t} : call'[u] = call[u]
  BY <1>1, <1>2, ShardsGoOn, Finishes
<1>4. AtShard(t) \in Shards /\ shards \in ShardTables
  BY <1>2 DEF AtShard, CallRecords, PInv, IInv, TableInv, TableTypeOK
<1>5. ASSUME NEW k \in Keys, Stored(k)' # None  PROVE Stored(k) # None
  <2>1. CASE Retain(t)
    <3>1. PICK kept \in SUBSET Present(AtShard(t)) : \E value \in [kept -> Values] :
            shards' = [shards EXCEPT ![AtShard(t)] =
                         [l \in Keys |-> IF l \in kept THEN value[l] ELSE None]]
      BY <2>1 DEF Retain, RetainIn
    <3>. QED
      BY <1>4, <1>5, <3>1, HomeOfKey DEF Stored, Present, ShardTables
  <2>2. CASE Clear(t)
    BY <1>4, <1>5, <2>2, HomeOfKey DEF Stored, Clear, ClearIn, ShardTables
  <2>. QED
    BY <2>1, <2>2 DEF Sweeping
<1>. QED
  BY <1>1, <1>3, <1>5 DEF Sweeps

\* A step that goes on reads, and its call has no answer that counts.
LEMMA GoesOnReading ==
  ASSUME PInv, NEW t \in Threads, Going(t)
  PROVE  /\ UNCHANGED shards /\ call[t].op \notin AnswerStages
         /\ call[t].op \in {"next", "len", "fold", "serialize", "serialize_entries",
                            "shrink_to_fit", "return"}
         /\ call'[t].op \in {call[t].op, "idle", "serialize_entries", "return"}
<1>. DEFINE Goal == call'[t].op \in {call[t].op, "idle", "serialize_entries", "return"}
<1>1. call[t] \in CallRecords
  BY CallFields DEF PInv, IInv
<1>2. UNCHANGED shards /\ call[t].op \in {"next", "len", "fold", "serialize", "serialize_entries",
                            "shrink_to_fit", "return"}
  BY DEF Going, IterNextShard, IterYield, IterEnd, LenIn, FoldIn, Announce, SerializeEntries,
     ShrinkToFit, ShrinkIn, Return, In
<1>3. /\ Counted(t) \in CallRecords /\ Counted(t).op = call[t].op
      /\ Gathered(t) \in CallRecords /\ Gathered(t).op = call[t].op
  BY <1>1, CountedRecord, GatheredRecord DEF PInv
<1>4. ASSUME LenIn(t) \/ FoldIn(t) \/ ShrinkToFit(t)  PROVE Goal
  BY <1>1, <1>3, <1>4, ShardsGoOn DEF LenIn, FoldIn, ShrinkToFit
<1>5. ASSUME SerializeEntries(t)  PROVE Goal
  BY <1>1, <1>3, <1>5, ShardsGoOn, Finishes DEF SerializeEntries
<1>6. ASSUME Announce(t)  PROVE Goal
  <2>1. \/ Finish(t)
        \/ Continue(t, [Counted(t) EXCEPT !.op = "serialize_entries", !.shard = 0])
        \/ Continue(t, [Counted(t) EXCEPT !.shard = @ + 1])
    BY <1>6 DEF Announce
  <2>. QED
    BY <1>3, <2>1, Finishes DEF Continue, PInv, IInv, RestTypeOK, CallRecords
<1>7. ASSUME IterNextShard(t)  PROVE Goal
  BY <1>7 DEF IterNextShard
<1>8. ASSUME IterYield(t) \/ IterEnd(t) \/ Return(t)  PROVE Goal
  BY <1>8, Finishes DEF IterYield, IterEnd, Return
<1>9. Goal
  BY <1>4, <1>5, <1>6, <1>7, <1>8 DEF Going
<1>. QED
  BY <1>2, <1>9 DEF AnswerStages

LEMMA IdleHandles ==
  ASSUME PInv, CallersRead, NEW t \in Threads, call[t].op = "idle"
  PROVE  OnlyReads(call[t], held[t])
<1>1. CASE t \in Workers
  BY <1>1, WorkerThread, NoHandleReads DEF WorkerFits, Empty, OnlyReads
<1>. QED
  BY <1>1 DEF CallersRead

LEMMA StepAddsUp ==
  ASSUME PInv, SetInv, NEW t \in Threads, Step(t), answered' = [k \in Keys |-> AnsweredOf(k)]
  PROVE  AnswersAddUp'
<1>1. AnswersAddUp /\ StagesOfSet /\ CallersRead
  BY DEF SetInv
<1>2. \A u \in Threads \ {t} : call'[u] = call[u]
  BY StepIsOwn DEF PInv
<1>3. ASSUME UNCHANGED shards, call[t].op \notin AnswerStages \/ call'[t].op # "return"
      PROVE  AnswersAddUp'
  BY <1>1, <1>2, <1>3, NothingNew
<1>4. ASSUME call[t].op = "idle", UNCHANGED shards  PROVE AnswersAddUp'
  BY <1>3, <1>4 DEF AnswerStages
<1>5. CASE \E op \in SetOps : \E k : Begin(t, op, k)
  BY <1>4, <1>5, IdleFits DEF Begin, BeginAs
<1>6. CASE NewIter(t) \/ BeginNext(t) \/ Drop(t)
  BY <1>4, <1>6, IdleFits DEF NewIter, BeginNext, Drop
<1>7. CASE UseHandle(t)
  <2>1. call[t].op = "idle"
    BY <1>7, IdleFits DEF UseHandle
  <2>. QED
    BY <1>1, <1>4, <1>7, <2>1, IdleHandles, UsesRead
<1>8. CASE Looks(t)
  <2>1. CASE Get(t) \/ ContainsKey(t)
    BY <1>3, <2>1 DEF Get, ContainsKey, In, AnswerStages
  <2>2. CASE InsertLookup(t)
    BY <1>3, <2>2, Becomes DEF InsertLookup
  <2>3. CASE RemoveLookup(t)
    <3>1. CASE FinishWith(t, None) /\ call[t].op \in {"remove", "remove_if"}
      BY <1>1, <2>3, <3>1, NothingRemoved DEF RemoveLookup
    <3>2. CASE FinishWith(t, None) /\ call[t].op = "remove_if_mut"
      BY <1>3, <2>3, <3>2 DEF RemoveLookup, AnswerStages
    <3>3. ASSUME NEW op, op # "return", Become(t, op)  PROVE AnswersAddUp'
      BY <1>3, <2>3, <3>3, Becomes DEF RemoveLookup
    <3>. QED
      BY <2>3, <3>1, <3>2, <3>3 DEF RemoveLookup, In
  <2>. QED
    BY <1>8, <2>1, <2>2, <2>3 DEF Looks
<1>9. CASE Answering(t)
  <2>1. CASE Insert(t)
    BY <1>1, <2>1, InsertAddsUp
  <2>2. CASE Remove(t)
    BY <1>1, <2>2, RemoveAddsUp DEF Remove, In
  <2>3. CASE RemoveIf(t)
    BY <1>1, <2>3, RemoveAddsUp, NothingRemoved DEF RemoveIf, In
  <2>4. CASE ClosurePanics(t)
    BY <1>3, <2>4, Finishes DEF ClosurePanics
  <2>. QED
    BY <1>9, <2>1, <2>2, <2>3, <2>4 DEF Answering
<1>10. CASE Going(t)
  BY <1>3, <1>10, GoesOnReading
<1>11. CASE Sweeping(t)
  BY <1>1, <1>11, SweepsOn, SweepAddsUp
<1>. QED
  BY <1>1, <1>5, <1>6, <1>7, <1>8, <1>9, <1>10, <1>11, StepsOfSet

LEMMA StepReads ==
  ASSUME PInv, SetInv, NEW t \in Threads \ Workers, Step(t)
  PROVE  call'[t].op \in SetStages /\ OnlyReads(call'[t], held'[t])
<1>1. StagesOfSet /\ OnlyReads(call[t], held[t]) /\ call[t].op \in SetStages
  BY DEF SetInv, CallersRead, StagesOfSet
<1>2. {"idle", "return", "inserting", "removing", "remove_if_closure", "next",
       "serialize_entries"} \cup SetOps \subseteq SetStages
  BY DEF SetStages, EntryStages
<1>3. ASSUME call[t].op \notin EntryStages, UNCHANGED held  PROVE OnlyReads(call'[t], held'[t])
  BY <1>1, <1>3, SameReads
<1>4. ASSUME NEW i \in Slots, NEW h, PutHandle(t, i, h),
             call[t].op \in EntryStages => i = Slot(t),
             h.kind \in SharedKinds \cup {"none"}
                \/ (call'[t].op \in EntryStages /\ i = call'[t].slot)
      PROVE  OnlyReads(call'[t], held'[t])
  BY <1>1, <1>4, PutReads DEF PInv
<1>5. CASE \E op \in SetOps : \E k : Begin(t, op, k)
  <2>1. PICK op \in SetOps : \E k : Begin(t, op, k)
    BY <1>5
  <2>2. call'[t].op = op /\ UNCHANGED held /\ call[t].op \notin EntryStages
    BY <2>1, IdleFits DEF Begin, BeginAs, Continue, Call, EntryStages, PInv, IInv, RestTypeOK
  <2>. QED
    BY <1>2, <1>3, <2>2
<1>6. CASE NewIter(t) /\ NewIterator(t, "Iter")
  <2>1. /\ UNCHANGED call /\ call[t].op = "idle"
        /\ FreeSlot(t) \in Slots /\ PutHandle(t, FreeSlot(t), Handle("Iter", -1, {}))
    BY <1>6, FreeSlotIsFree, IdleFits DEF NewIter, NewIterator
  <2>. QED
    BY <1>2, <1>4, <2>1, NoHandleReads DEF EntryStages, SharedKinds
<1>7. CASE BeginNext(t)
  <2>1. UNCHANGED held /\ call[t].op = "idle" /\ \E i : Continue(t, Call("next", None, i))
    BY <1>7, IdleFits DEF BeginNext
  <2>2. call'[t].op = "next"
    BY <2>1 DEF Continue, Call, PInv, IInv, RestTypeOK
  <2>. QED
    BY <1>2, <1>3, <2>1, <2>2 DEF EntryStages
<1>8. CASE UseHandle(t)
  BY <1>1, <1>8, UsesRead
<1>9. CASE Drop(t)
  <2>1. UNCHANGED call /\ call[t].op = "idle" /\ \E i \in Slots : DropHandle(t, i)
    BY <1>9, IdleFits DEF Drop
  <2>. QED
    BY <1>1, <1>4, <2>1, NoHandleReads DEF EntryStages, DropHandle
<1>10. CASE Going(t)
  <2>1. call[t].op \notin EntryStages /\ call'[t].op \in SetStages
    BY <1>1, <1>2, <1>10, GoesOnReading DEF EntryStages
  <2>2. CASE IterNextShard(t)
    <3>1. Slot(t) \in Slots /\ held[t][Slot(t)].kind \in IteratorKinds
      BY <2>2 DEF IterNextShard, In, PInv, IInv, CallsFit, CallFits, Slot
    <3>2. held[t][Slot(t)].kind = "Iter"
      BY <1>1, <2>1, <3>1 DEF OnlyReads, IteratorKinds, SharedKinds
    <3>3. \E s, K : PutHandle(t, Slot(t), Handle("Iter", s, K))
      BY <2>2, <3>2 DEF IterNextShard, NextShard
    <3>. QED
      BY <1>4, <2>1, <3>1, <3>3, NoHandleReads DEF SharedKinds
  <2>3. CASE IterYield(t)
    <3>1. Slot(t) \in Slots /\ held[t][Slot(t)].kind \in IteratorKinds
          /\ \E i \in Slots : held[t][i] = NoHandle
      BY <2>3 DEF IterYield, In, PInv, IInv, CallsFit, CallFits, Slot
    <3>2. held[t][Slot(t)].kind = "Iter" /\ FreeSlot(t) \in Slots
      BY <1>1, <2>1, <3>1, FreeSlotIsFree
         DEF OnlyReads, IteratorKinds, SharedKinds, FreeSlots
    <3>3. PICK k \in held[t][Slot(t)].keys :
            held' = [held EXCEPT
              ![t][Slot(t)].keys = @ \ {k},
              ![t][FreeSlot(t)] = Handle("RefMulti", held[t][Slot(t)].shard, {k})]
      BY <2>3, <3>2 DEF IterYield, Yield
    <3>4. held \in [Threads -> [Slots -> Handles]]
      BY DEF PInv, IInv, TableInv, TableTypeOK
    <3>5. \A i \in Slots : held'[t][i].kind = IF i = FreeSlot(t) THEN "RefMulti" ELSE held[t][i].kind
      BY <3>1, <3>2, <3>3, <3>4 DEF Handle, Handles
    <3>. QED
      BY <1>1, <2>1, <3>5 DEF OnlyReads, SharedKinds
  <2>4. CASE UNCHANGED held
    BY <1>3, <2>1, <2>4
  <2>. QED
    BY <1>10, <2>1, <2>2, <2>3, <2>4 DEF Going, IterEnd, LenIn, FoldIn, Announce, SerializeEntries,
       ShrinkToFit, Return
<1>11. CASE Sweeping(t)
  <2>1. call[t].op \notin EntryStages /\ call'[t].op \in SetStages /\ UNCHANGED held
    BY <1>1, <1>2, <1>11, SweepsOn DEF EntryStages
  <2>. QED
    BY <1>3, <2>1
<1>12. CASE Looks(t)
  <2>1. /\ Key(t) \in Keys /\ Slot(t) \in Slots /\ call[t].op \notin EntryStages
    BY <1>12 DEF Looks, Get, ContainsKey, InsertLookup, RemoveLookup, In, EntryStages, KeyOps,
       PInv, IInv, CallsFit, CallFits, Key, Slot
  <2>2. CASE Get(t)
    <3>1. call'[t].op = "idle" /\ TryMap(t, Slot(t), Key(t), "Ref")
      BY <2>2, Finishes DEF Get, Find
    <3>. QED
      BY <1>2, <1>3, <1>4, <2>1, <3>1, NoHandleReads DEF TryMap, SharedKinds
  <2>3. CASE ContainsKey(t)
    BY <1>2, <1>3, <2>1, <2>3, FinishesWith DEF ContainsKey
  <2>4. CASE InsertLookup(t)
    <3>1. call'[t].op = "inserting" /\ call'[t].slot = Slot(t)
      BY <2>4, Becomes DEF InsertLookup, Slot
    <3>2. \E h : PutHandle(t, Slot(t), h)
      BY <2>4 DEF InsertLookup, Entry
    <3>. QED
      BY <1>2, <1>4, <2>1, <3>1, <3>2 DEF EntryStages
  <2>5. CASE RemoveLookup(t)
    <3>1. call[t].op \in {"remove", "remove_if"}
      BY <1>1, <2>5 DEF RemoveLookup, SetStages, SetOps, KeyCallsOfSet, WholeCallsOfSet, CopyOfSet,
         SerializeOfSet, IterOfSet, ParCallsOfSet, EntryStages, PoolStages
    <3>2. CASE Stored(Key(t)) = None
      <4>1. UNCHANGED held /\ call'[t].op = "return"
        BY <2>5, <3>2, FinishesWith DEF RemoveLookup, FindEntry
      <4>. QED
        BY <1>2, <1>3, <2>1, <4>1
    <3>3. CASE Stored(Key(t)) # None
      <4>1. PICK op \in {"removing", "remove_if_closure"} : Become(t, op)
        BY <2>5, <3>1, <3>3 DEF RemoveLookup, In
      <4>2. call'[t].op = op /\ call'[t].slot = Slot(t) /\ op \in EntryStages
        BY <4>1, Becomes DEF Slot, EntryStages
      <4>3. \E h : PutHandle(t, Slot(t), h)
        BY <2>5, <3>3 DEF RemoveLookup, FindEntry
      <4>. QED
        BY <1>2, <1>4, <2>1, <4>2, <4>3
    <3>. QED
      BY <3>2, <3>3
  <2>. QED
    BY <1>12, <2>2, <2>3, <2>4, <2>5 DEF Looks
<1>13. CASE Answering(t)
  <2>1. call[t].op \in EntryStages
    BY <1>1, <1>13 DEF Answering, Insert, Remove, RemoveIf, ClosurePanics, In, SetStages, SetOps,
       KeyCallsOfSet, WholeCallsOfSet, CopyOfSet, SerializeOfSet, IterOfSet, ParCallsOfSet,
       EntryStages, PoolStages
  <2>2. Slot(t) \in Slots /\ PutHandle(t, Slot(t), NoHandle)
    BY <1>13, <2>1, EntryOfCall DEF Answering, Insert, Remove, RemoveIf, ClosurePanics, DropHandle,
       OccupiedRemove
  <2>3. call'[t].op \in {"idle", "return"}
    BY <1>13, Finishes, FinishesWith DEF Answering, Insert, Remove, RemoveIf, ClosurePanics
  <2>. QED
    BY <1>2, <1>4, <2>2, <2>3, NoHandleReads
<1>. QED
  BY <1>1, <1>5, <1>6, <1>7, <1>8, <1>9, <1>10, <1>11, <1>12, <1>13, StepsOfSet

-----------------------------------------------------------------------------
(* The steps of the pool *)

\* The answers add up, and the caller t, if any, that goes on has read-only handles.
LEMMA SetGoesOn ==
  ASSUME PInv', SetInv, AnswersAddUp', NEW t \in Threads,
         \A u \in Threads \ {t} : call'[u] = call[u] /\ held'[u] = held[u],
         t \notin Workers => call'[t].op \in SetStages /\ OnlyReads(call'[t], held'[t])
  PROVE  SetInv'
<1>1. StagesOfSet'
  <2>1. \A w \in Workers : call'[w].op \in {"idle", "return", "insert", "inserting"} \cup PoolStages
    BY DEF PInv, PoolInv, WorkersFit, WorkerFits
  <2>2. {"idle", "return", "insert", "inserting"} \cup PoolStages \subseteq SetStages
    BY DEF SetStages, EntryStages, SetOps, KeyCallsOfSet
  <2>. QED
    BY <2>1, <2>2 DEF SetInv, StagesOfSet
<1>2. CallersRead'
  <2>1. SUFFICES ASSUME NEW u \in Threads \ Workers  PROVE OnlyReads(call'[u], held'[u])
    BY DEF CallersRead, OnlyReads
  <2>2. CASE u = t
    BY <2>2
  <2>3. CASE u # t
    BY <2>3 DEF SetInv, CallersRead
  <2>. QED
    BY <2>2, <2>3
<1>. QED
  BY <1>1, <1>2 DEF SetInv

LEMMA BeginsInSet ==
  ASSUME PInv, PInv', SetInv, NEW t \in Threads, answered' = [k \in Keys |-> AnsweredOf(k)],
         BeginIteration(t) \/ BeginExtend(t) \/ BeginOwning(t) \/ BeginView(t)
  PROVE  SetInv'
<1>1. PICK op \in Ops[t] : \E i : /\ call[t] = Idle /\ Continue(t, Call(op, None, i))
                                  /\ UNCHANGED <<shards, held>>
  BY DEF BeginIteration, BeginExtend, Begin, BeginAs, BeginOwning, BeginView, BeginAlone
<1>2. op \in SetStages
  BY SetAssumption DEF SetStages
<1>3. /\ call[t].op = "idle" /\ call'[t].op = op
      /\ \A u \in Threads \ {t} : call'[u] = call[u] /\ held'[u] = held[u]
  BY <1>1, IdleFits DEF Continue, Call, PInv, IInv, RestTypeOK
<1>4. AnswersAddUp'
  BY <1>1, <1>3, NothingNew DEF SetInv, AnswerStages
<1>5. OnlyReads(call'[t], held'[t])
  BY <1>1, <1>3, IdleHandles, SameReads DEF SetInv, EntryStages
<1>. QED
  BY <1>2, <1>3, <1>4, <1>5, SetGoesOn

LEMMA ReturnsInSet ==
  ASSUME PInv, PInv', SetInv, NEW t \in Threads, answered' = [k \in Keys |-> AnsweredOf(k)],
         ParReturn(t)
  PROVE  SetInv'
<1>1. /\ call[t].op \in ParOps
      /\ \/ Finish(t) /\ held' = [held EXCEPT ![t] = [i \in Slots |-> NoHandle]]
         \/ FinishWith(t, None) /\ UNCHANGED held
  BY DEF ParReturn
<1>2. /\ call'[t].op \in {"idle", "return"}
      /\ \A u \in Threads \ {t} : call'[u] = call[u]
  BY <1>1, Finishes, FinishesWith
<1>3. /\ \A u \in Threads \ {t} : held'[u] = held[u]
      /\ held'[t] = held[t] \/ \A i \in Slots : held'[t][i] = NoHandle
  BY <1>1 DEF PInv, IInv, TableInv, TableTypeOK
<1>4. call[t].op \notin AnswerStages \cup EntryStages \cup {"idle", "return"}
  BY <1>1 DEF ParOps, Iterations, MutIterations, AnswerStages, EntryStages
<1>5. AnswersAddUp'
  <2>1. CASE UNCHANGED shards
    BY <1>2, <1>4, <2>1, NothingNew DEF SetInv
  <2>2. CASE In(t, "into_par_iter") /\ shards' = [s \in Shards |-> [k \in Keys |-> None]]
    <3>1. \A k \in Keys : Stored(k)' = None
      BY <2>2, HomeOfKey DEF Stored
    <3>2. Sweeps(t)
      BY <1>2, <1>4, <2>2 DEF Sweeps, In
    <3>. QED
      BY <1>2, <3>1, <3>2, SweepAddsUp DEF SetInv
  <2>. QED
    BY <2>1, <2>2 DEF ParReturn
<1>6. t \notin Workers => OnlyReads(call'[t], held'[t])
  BY <1>3, <1>4, NoHandleReads DEF SetInv, CallersRead, OnlyReads
<1>. QED
  BY <1>2, <1>3, <1>5, <1>6, SetGoesOn DEF SetStages

\* The closure of a consumer changes nothing, but for those that take elements out.
LEMMA ClosureTakes ==
  ASSUME PInv, SetInv, NEW w \in Workers, call[w].op = "par_closure", ClosureActs(w)
  PROVE  UNCHANGED shards \/ \E k \in Keys : Store(k, None)
<1>1. Owner(w) \in Threads /\ w \in Threads /\ Item(w) \in Slots
  BY AtWork, ItemIsThere DEF PoolStages
<1>2. ~In(Owner(w), "par_iter_mut")
  BY <1>1 DEF In, SetInv, StagesOfSet, SetStages, SetOps, KeyCallsOfSet, WholeCallsOfSet, CopyOfSet,
     SerializeOfSet, IterOfSet, ParCallsOfSet, EntryStages, PoolStages
<1>3. ItemKeys(w) \subseteq Keys
  BY <1>1, HandleFields DEF ItemKeys, PInv, IInv, TableInv
<1>. QED
  BY <1>2, <1>3 DEF ClosureActs

LEMMA ConsumesInSet ==
  ASSUME PInv, PInv', SetInv, NEW w \in Workers, answered' = [k \in Keys |-> AnsweredOf(k)],
         ForEach(w) \/ ParClosurePanics(w)
  PROVE  SetInv'
<1>1. call[w].op = "par_closure" /\ w \in Threads /\ Item(w) \in Slots
  BY WorkersAssumption, ItemIsThere DEF ForEach, ParClosurePanics, In
<1>2. /\ call'[w].op \in {"par_items", "idle"}
      /\ \A u \in Threads \ {w} : call'[u] = call[u]
  BY <1>1, Becomes, Finishes DEF ForEach, ParClosurePanics
<1>3. \A u \in Threads \ {w} : held'[u] = held[u]
  BY <1>1 DEF ForEach, ParClosurePanics, DropHandle, PutHandle, PInv, IInv, TableInv, TableTypeOK
<1>4. UNCHANGED shards \/ \E k \in Keys : Store(k, None)
  BY <1>1, ClosureTakes DEF ForEach, ParClosurePanics
<1>5. Sweeps(w) /\ call[w].op \notin AnswerStages
  BY <1>1, <1>2 DEF Sweeps, AnswerStages
<1>6. \A k \in Keys : ~SaysNew(w, k) /\ ~SaysGone(w, k)
  BY <1>5, WhoAnswers
<1>7. AnswersAddUp'
  BY <1>1, <1>2, <1>4, <1>5, <1>6, NothingNew, OneKeyChanges DEF SetInv
<1>. QED
  BY <1>1, <1>2, <1>3, <1>7, SetGoesOn

LEMMA WorksInSet ==
  ASSUME PInv, PInv', SetInv, NEW w \in Workers, answered' = [k \in Keys |-> AnsweredOf(k)],
         Take(w) \/ TakeNext(w) \/ LockShard(w) \/ GiveItem(w) \/ EndShard(w)
  PROVE  SetInv'
<1>1. w \in Threads /\ UNCHANGED shards /\ \E c : Continue(w, c)
  BY WorkersAssumption DEF Take, TakeNext, Start, LockShard, GiveItem, EndShard, Become, Finish
<1>2. call[w].op \in {"idle"} \cup PoolStages
  BY IdleFits DEF Take, TakeNext, Busy, LockShard, GiveItem, EndShard, In, PoolStages
<1>3. \A u \in Threads \ {w} : call'[u] = call[u]
  BY <1>1 DEF Continue, PInv, IInv, RestTypeOK
<1>4. \A u \in Threads \ {w} : held'[u] = held[u]
  BY <1>1 DEF Take, TakeNext, LockShard, GiveItem, EndShard, Yield, DropHandle, PutHandle,
     PInv, IInv, TableInv, TableTypeOK
<1>5. call[w].op \notin AnswerStages
  BY <1>2 DEF AnswerStages, PoolStages
<1>6. AnswersAddUp'
  BY <1>1, <1>3, <1>5, NothingNew DEF SetInv
<1>. QED
  BY <1>1, <1>3, <1>4, <1>6, SetGoesOn

LEMMA CollectsInSet ==
  ASSUME PInv, PInv', SetInv, NEW w \in Workers, answered' = [k \in Keys |-> AnsweredOf(k)],
         Collect(w)
  PROVE  SetInv'
<1>. DEFINE o == Owner(w)
<1>1. /\ call[w].op = "par_closure" /\ w \in Threads /\ o \in Threads \ Workers /\ w # o
      /\ Item(w) \in Slots /\ AtShard(w) + 1 \in Slots
  BY AtWork, ItemIsThere, PoolSlots DEF Collect, In, PoolStages
<1>2. /\ call'[w].op = "par_items" /\ UNCHANGED shards
      /\ \A u \in Threads \ {w} : call'[u] = call[u]
  BY <1>1, Becomes DEF Collect
<1>3. AnswersAddUp'
  BY <1>1, <1>2, NothingNew DEF SetInv, AnswerStages
<1>4. PICK h : /\ h.kind = "RefMulti"
               /\ held' = [held EXCEPT ![w][Item(w)] = NoHandle, ![o][AtShard(w) + 1] = h]
  <2>1. held' = [held EXCEPT ![w][Item(w)] = NoHandle,
                   ![o][AtShard(w) + 1] = Handle("RefMulti", AtShard(w),
                      held[o][AtShard(w) + 1].keys \cup ItemKeys(w))]
    BY <1>1 DEF Collect, PInv, IInv, TableInv, TableTypeOK
  <2>. QED
    BY <2>1 DEF Handle
<1>5. held \in [Threads -> [Slots -> Handles]]
  BY DEF PInv, IInv, TableInv, TableTypeOK
<1>6. /\ \A u \in Threads \ {w, o} : held'[u] = held[u]
      /\ held'[o][AtShard(w) + 1] = h
      /\ \A i \in Slots \ {AtShard(w) + 1} : held'[o][i] = held[o][i]
  BY <1>1, <1>4, <1>5
<1>. HIDE DEF o
<1>7. \A u \in Threads \ Workers : OnlyReads(call'[u], held'[u])
  <2>1. \A u \in Threads \ Workers : OnlyReads(call[u], held[u])
    BY DEF SetInv, CallersRead
  <2>2. OnlyReads(call'[o], held'[o])
    BY <1>1, <1>2, <1>4, <1>6, <2>1 DEF OnlyReads, SharedKinds
  <2>3. ASSUME NEW u \in Threads \ Workers, u # o  PROVE OnlyReads(call'[u], held'[u])
    <3>1. u # w /\ held'[u] = held[u] /\ call'[u] = call[u]
      BY <1>2, <1>6, <2>3
    <3>. QED
      BY <2>1, <3>1
  <2>. QED
    BY <2>2, <2>3
<1>8. StagesOfSet'
  BY <1>1, <1>2 DEF SetInv, StagesOfSet, SetStages, PoolStages
<1>9. CallersRead'
  BY <1>7 DEF CallersRead, OnlyReads
<1>. QED
  BY <1>3, <1>8, <1>9 DEF SetInv

LEMMA ParStepInSet ==
  ASSUME PInv, SetInv, NEW t \in Threads, ParStep(t), answered' = [k \in Keys |-> AnsweredOf(k)]
  PROVE  SetInv'
<1>1. PInv'
  BY PoolSteps
<1>2. CASE Step(t)
  <2>1. \A u \in Threads \ {t} : call'[u] = call[u] /\ held'[u] = held[u]
    BY <1>2, StepIsOwn DEF PInv
  <2>. QED
    BY <1>1, <1>2, <2>1, StepAddsUp, StepReads, SetGoesOn
<1>3. CASE BeginIteration(t) \/ BeginExtend(t) \/ BeginOwning(t) \/ BeginView(t)
  BY <1>1, <1>3, BeginsInSet
<1>4. CASE ParReturn(t)
  BY <1>1, <1>4, ReturnsInSet
<1>5. ASSUME t \in Workers, Take(t) \/ TakeNext(t) \/ LockShard(t) \/ GiveItem(t) \/ ForEach(t)
                            \/ Collect(t) \/ ParClosurePanics(t) \/ EndShard(t)
      PROVE  SetInv'
  BY <1>1, <1>5, WorksInSet, ConsumesInSet, CollectsInSet
<1>. QED
  BY <1>2, <1>3, <1>4, <1>5 DEF ParStep, ParProceed

LEMMA InitSet == SetInit => SetInv
<1>. SUFFICES ASSUME SetInit PROVE SetInv
  OBVIOUS
<1>1. AnswersAddUp
  BY DEF SetInit, AnswersAddUp
<1>2. \A t \in Threads : call[t].op = "idle" /\ \A i \in Slots : held[t][i] = NoHandle
  BY IdleFits DEF SetInit, PInit, Init
<1>3. StagesOfSet /\ CallersRead
  BY <1>2, NoHandleReads DEF StagesOfSet, SetStages, CallersRead, OnlyReads
<1>. QED
  BY <1>1, <1>3 DEF SetInv

\* A key is in the set just when one more insert has answered true than removals have
\* answered with the key: of those that insert it at once one is told that it was new, of
\* those that remove it one gets it, by a call or in the pool, for any number of them
\* (set.rs: insert and remove).
THEOREM AnswersAddUpHolds == SetSpec => []AnswersAddUp
<1>1. PInv /\ SetInv /\ [SetNext]_svars => PInv' /\ SetInv'
  <2>. SUFFICES ASSUME PInv, SetInv, [SetNext]_svars PROVE PInv' /\ SetInv'
    OBVIOUS
  <2>1. CASE UNCHANGED svars
    <3>1. PInv'
      BY <2>1, StutterPool DEF svars, pvars
    <3>2. UNCHANGED <<shards, held, call, answered>>
      BY <2>1 DEF svars, pvars, vars
    <3>. QED
      BY <3>1, <3>2 DEF SetInv, AnswersAddUp, StagesOfSet, CallersRead, OnlyReads, Stored
  <2>2. ASSUME NEW t \in Threads, ParStep(t), SetNext  PROVE PInv' /\ SetInv'
    BY <2>2, PoolSteps, ParStepInSet DEF SetNext
  <2>3. ASSUME SetNext, UNCHANGED <<vars, job, duty>>  PROVE PInv' /\ SetInv'
    <3>1. PInv'
      BY <2>3, StutterPool
    <3>2. PICK w \in Workers : w \in Threads
      BY WorkersAssumption
    <3>3. UNCHANGED <<shards, held, call>>
      BY <2>3 DEF vars
    <3>4. AnswersAddUp'
      <4>1. call[w].op \notin AnswerStages \/ call'[w].op # "return"
        BY <3>3 DEF AnswerStages
      <4>. QED
        BY <2>3, <3>2, <3>3, <4>1, NothingNew DEF SetNext, SetInv
    <3>5. w \notin Workers => call'[w].op \in SetStages /\ OnlyReads(call'[w], held'[w])
      OBVIOUS
    <3>. QED
      BY <3>1, <3>2, <3>3, <3>4, <3>5, SetGoesOn
  <2>. QED
    BY <2>1, <2>2, <2>3 DEF SetNext, PNext, Terminating
<1>2. SetInit => PInv
  BY InitPool DEF SetInit
<1>3. SetInv => AnswersAddUp
  BY DEF SetInv
<1>. QED
  BY InitSet, <1>1, <1>2, <1>3, PTL DEF SetSpec

\* The set is the map with keys only, and what holds of the map in the pool holds of it.
LEMMA SetIsMap == SetSpec => PSpec
<1>1. SetInit => PInit
  BY DEF SetInit
<1>2. [SetNext]_svars => [PNext]_pvars
  BY DEF SetNext, svars
<1>. QED
  BY <1>1, <1>2, PTL DEF SetSpec, PSpec

\* The parallel iterators of the set are those of the map without the values, and visit
\* exactly what they should (rayon/set.rs).
THEOREM SetVisitsExactlyHolds == SetSpec => ParallelVisitsExactly
  BY SetIsMap, ParallelVisitsExactlyHolds, PTL
=============================================================================
