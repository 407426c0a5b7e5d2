-------------------------- MODULE ParallelMap_proofs --------------------------
(***************************************************************************)
(* Theorems about ParallelMap, for any number of callers, workers, shards  *)
(* and keys, and however the pool splits the jobs: what handles refer to   *)
(* stays and is not shared, nobody waits in a circle, and an iteration     *)
(* visits what it should.                                                  *)
(***************************************************************************)
EXTENDS ParallelMap, ClashMap_proofs

PoolStages == {"par_shard", "par_items", "par_closure"}
AloneOps == {"into_par_iter", "view_par_iter"}

Empty(H) == \A i \in Slots : H[i] = NoHandle

\* The handles of a worker in stage c, of a job that was made by op: the iterator of its
\* shard in the first slot and at most one element in another, or the entry that it
\* inserts into.
IterKind(op) == IF op \in MutIterations THEN "IterMut" ELSE "Iter"
ItemKind(op) == IF op \in MutIterations THEN "RefMutMulti" ELSE "RefMulti"

HasItem(c, H, op, i) ==
  /\ H[i].kind = ItemKind(op) /\ H[i].shard = c.shard
  /\ \A j \in Slots \ {1, i} : H[j] = NoHandle

WorkerFits(c, H, op) ==
  /\ c.op \in {"idle", "return", "insert", "inserting"} \cup PoolStages
  /\ c.op \in {"return", "insert", "inserting"} => op = "par_extend"
  /\ c.op \in PoolStages => op \in Iterations
  /\ c.op \in {"idle", "return", "insert", "par_shard"} => Empty(H)
  /\ c.op = "inserting" => \A i \in Slots \ {c.slot} : H[i] = NoHandle
  /\ c.op \in {"par_items", "par_closure"} => H[1].kind = IterKind(op) /\ H[1].shard = c.shard
  /\ c.op = "par_items" => \A i \in Slots \ {1} : H[i] = NoHandle
  /\ c.op = "par_closure" => \E i \in Slots \ {1} : HasItem(c, H, op, i)

\* A caller that waits for the pool has what it collects, in the slot of each shard.
CallerFits(c, H) ==
  /\ c.op \notin PoolStages
  /\ c.op \in ParOps =>
       \A i \in Slots : H[i] # NoHandle =>
         c.op = "par_collect" /\ H[i].kind = "RefMulti" /\ H[i].shard = i - 1

TasksOf(op) == IF op = "par_extend" THEN Keys ELSE Shards

PoolTypeOK ==
  /\ job \in [Threads -> [todo : SUBSET (Shards \cup Keys), panicked : BOOLEAN]]
  /\ duty \in [Workers -> [owner : Threads \cup {None}, left : SUBSET (Shards \cup Keys)]]

\* Tasks are those of a call that waits.
JobsFit ==
  \A t \in Threads : job[t].todo # {} =>
    t \notin Workers /\ call[t].op \in ParOps /\ job[t].todo \subseteq TasksOf(call[t].op)
DutiesFit ==
  \A w \in Workers : Busy(w) =>
    /\ Owner(w) \in Threads \ Workers /\ call[Owner(w)].op \in ParOps
    /\ duty[w].left \subseteq TasksOf(call[Owner(w)].op)

WorkersFit ==
  \A w \in Workers : calls[w] = 0 /\ WorkerFits(call[w], held[w], call[Owner(w)].op)
CallersFit == \A t \in Threads \ Workers : CallerFits(call[t], held[t])

\* A call that has the map to itself leaves it to nobody else.
AloneFits ==
  \A t \in Threads \ Workers : call[t].op \in AloneOps =>
    /\ \A u \in Threads : calls[u] = 0
    /\ \A u \in Threads \ Workers : u # t => call[u] = Idle /\ Empty(held[u])

OpsFit == \A t \in Threads \ Workers : call[t].op \in ParOps => call[t].op \in Ops[t]

PoolInv ==
  PoolTypeOK /\ JobsFit /\ DutiesFit /\ WorkersFit /\ CallersFit /\ AloneFits /\ OpsFit
PInv == IInv /\ PoolInv


-----------------------------------------------------------------------------
(* A step of the map in the pool *)

LEMMA MapStage ==
  ASSUME IInv, NEW t \in Threads, Step(t)
  PROVE  call[t].op \in CallOps /\ call'[t].op \in CallOps
<1>1. call[t].op \in CallOps
  <2>. USE DEF CallOps, KeyOps, Traversals, ReadTraversals, Serializing, Closures
  <2>1. call[t] = Idle => call[t].op \in CallOps
    BY DEF Idle, Call
  <2>2. CASE BeginKeyOp(t) \/ BeginOperator(t) \/ BeginTraversal(t) \/ TryCall(t) \/ AlterAll(t)
             \/ NewIter(t) \/ BeginNext(t) \/ UseHandle(t) \/ Drop(t)
    BY <2>1, <2>2 DEF BeginKeyOp, BeginOperator, BeginTraversal, Begin, BeginAs, TryCall, AlterAll,
       NewIter, BeginNext, UseHandle, Drop
  <2>3. CASE Proceed(t)
    BY <2>3 DEF Proceed, In, Get, ContainsKey, GetMut, View, ViewClosure, GetEntry, InsertLookup,
       Insert, RemoveLookup, Remove, RemoveIf, RemoveIfMut, ClosurePanics, AlterLookup, AlterTake,
       AlterPut, AlterPanics, AlterAllNextShard, AlterAllEnds, IterNextShard, IterYield, IterEnd,
       LenIn, FoldIn, Announce, SerializeEntries, Retain, Clear, ShrinkToFit, Return
  <2>. QED
    BY <2>2, <2>3 DEF Step
<1>. QED
  BY <1>1, StageIsKnown DEF Continue, IInv, RestTypeOK

\* A thread that is in no call, has nothing and may call no more stays so.
LEMMA NoStep ==
  ASSUME NEW t \in Threads, call[t].op = "idle", Empty(held[t]), calls[t] = 0, Step(t)
  PROVE  FALSE
<1>1. \A i \in Slots : held[t][i] = NoHandle /\ held[t][i].kind = "none"
  BY DEF Empty, NoHandle, Handle
<1>2. CASE BeginKeyOp(t) \/ BeginOperator(t) \/ BeginTraversal(t) \/ TryCall(t) \/ AlterAll(t)
           \/ NewIter(t)
  BY <1>2 DEF BeginKeyOp, BeginOperator, BeginTraversal, Begin, BeginAs, TryCall, AlterAll, NewIter
<1>3. CASE BeginNext(t) \/ Drop(t)
  BY <1>1, <1>3 DEF BeginNext, Drop
<1>4. CASE UseHandle(t)
  BY <1>1, <1>4 DEF UseHandle, Use, AndModify, IntoKey, IsEntry, EntryKinds, OrInsert, EntryInsert,
     EntryInsertEntry, OccupiedOps, MapRef, MapRefMut, ValueMut, MultiValueMut, DowngradeRef,
     Downgrade, CloneMulti, CloneIter, VacantInsert, OccupiedInsert, OccupiedIntoMut
<1>5. CASE Proceed(t)
  BY <1>5 DEF Proceed, In, Get, ContainsKey, GetMut, View, ViewClosure, GetEntry, InsertLookup,
     Insert, RemoveLookup, Remove, RemoveIf, RemoveIfMut, ClosurePanics, AlterLookup, AlterTake,
     AlterPut, AlterPanics, AlterAllNextShard, AlterAllEnds, IterNextShard, IterYield, IterEnd,
     LenIn, FoldIn, Announce, SerializeEntries, Retain, Clear, ShrinkToFit, Return
<1>. QED
  BY <1>2, <1>3, <1>4, <1>5 DEF Step

LEMMA StepCalls ==
  ASSUME NEW t \in Threads, Step(t)
  PROVE  UNCHANGED calls \/ (calls[t] > 0 /\ calls' = [calls EXCEPT ![t] = @ - 1])
<1>1. CASE BeginKeyOp(t) \/ BeginOperator(t) \/ BeginTraversal(t) \/ TryCall(t) \/ AlterAll(t)
           \/ NewIter(t)
  BY <1>1 DEF BeginKeyOp, BeginOperator, BeginTraversal, Begin, BeginAs, TryCall, AlterAll, NewIter
<1>2. CASE BeginNext(t) \/ UseHandle(t) \/ Drop(t)
  BY <1>2 DEF BeginNext, UseHandle, Drop
<1>3. CASE Proceed(t)
  BY <1>3 DEF Proceed, Get, ContainsKey, GetMut, View, ViewClosure, GetEntry, InsertLookup,
     Insert, RemoveLookup, Remove, RemoveIf, RemoveIfMut, ClosurePanics, AlterLookup, AlterTake,
     AlterPut, AlterPanics, AlterAllNextShard, AlterAllEnds, IterNextShard, IterYield, IterEnd,
     LenIn, FoldIn, Announce, SerializeEntries, Retain, Clear, ShrinkToFit, Return
<1>. QED
  BY <1>1, <1>2, <1>3 DEF Step

LEMMA WorkerSteps ==
  ASSUME NEW w \in Threads, Step(w), call[w].op \in {"return", "insert", "inserting"}
  PROVE  \/ call[w].op = "insert" /\ InsertLookup(w)
         \/ call[w].op = "inserting" /\ Insert(w)
         \/ call[w].op = "return" /\ Return(w)
<1>1. call[w] # Idle
  BY DEF Idle, Call
<1>2. Proceed(w)
  BY <1>1 DEF Step, BeginKeyOp, BeginOperator, BeginTraversal, Begin, BeginAs, TryCall, AlterAll,
     NewIter, BeginNext, UseHandle, Drop
<1>. QED
  BY <1>2 DEF Proceed, In, Get, ContainsKey, GetMut, View, ViewClosure, GetEntry, InsertLookup,
     Insert, RemoveLookup, Remove, RemoveIf, RemoveIfMut, ClosurePanics, AlterLookup, AlterTake,
     AlterPut, AlterPanics, AlterAllNextShard, AlterAllEnds, IterNextShard, IterYield, IterEnd,
     LenIn, FoldIn, Announce, SerializeEntries, Retain, Clear, ShrinkToFit, Return

-----------------------------------------------------------------------------
(* Who changes what *)

LEMMA InitPool == PInit => PInv
<1>. SUFFICES ASSUME PInit PROVE PInv
  OBVIOUS
<1>1. IInv /\ Init
  BY InitFits DEF PInit
<1>2. /\ \A t \in Threads : call[t] = Idle /\ Idle.op = "idle" /\ job[t] = NoJob
      /\ \A t \in Threads, i \in Slots : held[t][i] = NoHandle
      /\ \A w \in Workers : duty[w] = NoDuty /\ w \in Threads /\ calls[w] = 0
  <2>1. Idle.op = "idle"
    BY DEF Idle, Call
  <2>2. \A w \in Workers : w \in Threads /\ calls[w] = 0
    BY <1>1, WorkersAssumption DEF Init
  <2>. QED
    BY <1>1, <2>1, <2>2 DEF PInit, Init
<1>3. NoJob.todo = {} /\ NoDuty.left = {}
  BY DEF NoJob, NoDuty
<1>4. PoolTypeOK
  BY DEF PInit, PoolTypeOK, NoJob, NoDuty
<1>5. JobsFit /\ DutiesFit
  BY <1>2, <1>3 DEF JobsFit, DutiesFit, Busy
<1>6. WorkersFit
  <2>1. ASSUME NEW w \in Workers, NEW op
        PROVE  calls[w] = 0 /\ WorkerFits(call[w], held[w], op)
    <3>1. call[w].op = "idle" /\ Empty(held[w]) /\ calls[w] = 0
      BY <1>2 DEF Empty
    <3>. QED
      BY <3>1 DEF WorkerFits, PoolStages
  <2>. QED
    BY <2>1 DEF WorkersFit
<1>7. CallersFit /\ AloneFits /\ OpsFit
  BY <1>2 DEF CallersFit, CallerFits, AloneFits, OpsFit, PoolStages, ParOps, Iterations, MutIterations,
     AloneOps
<1>. QED
  BY <1>1, <1>4, <1>5, <1>6, <1>7 DEF PInv, PoolInv

LEMMA StutterPool ==
  ASSUME PInv, UNCHANGED <<vars, job, duty>>
  PROVE  PInv'
<1>1. IInv'
  BY StutterFits DEF PInv
<1>2. PoolInv'
  BY DEF vars, PInv, PoolInv, PoolTypeOK, JobsFit, DutiesFit, WorkersFit, WorkerFits, CallersFit,
     CallerFits, AloneFits, OpsFit, Busy, Owner, Empty, HasItem
<1>. QED
  BY <1>1, <1>2 DEF PInv

\* A worker that has nothing to do has nothing.
LEMMA FreeWorker ==
  ASSUME NEW c, c.op = "idle", NEW H, NEW op, NEW other, WorkerFits(c, H, op)
  PROVE  WorkerFits(c, H, other)
BY DEF WorkerFits, PoolStages

LEMMA WorkerThread ==
  ASSUME PInv, NEW w \in Workers
  PROVE  /\ w \in Threads /\ calls[w] = 0 /\ WorkerFits(call[w], held[w], call[Owner(w)].op)
         /\ Busy(w) => /\ Owner(w) \in Threads \ Workers /\ call[Owner(w)].op \in ParOps
                       /\ duty[w].left \subseteq TasksOf(call[Owner(w)].op)
BY WorkersAssumption DEF PInv, PoolInv, WorkersFit, DutiesFit

\* A worker does something for the call of o; what it collects is given to o.
LEMMA WorkerMoves ==
  ASSUME PInv, NEW w \in Workers, NEW o \in Threads \ Workers, call[o].op \in ParOps,
         PoolTypeOK', UNCHANGED calls,
         duty'[w].owner = o, duty'[w].left \subseteq TasksOf(call[o].op),
         \A v \in Workers \ {w} : duty'[v] = duty[v],
         \A t \in Threads : job'[t].todo \subseteq job[t].todo,
         \A u \in Threads \ {w} : call'[u] = call[u],
         \A u \in Threads \ {w, o} : held'[u] = held[u],
         held'[o] = held[o] \/ (call[o].op = "par_collect" /\ CallerFits(call[o], held'[o])),
         WorkerFits(call'[w], held'[w], call[o].op)
  PROVE  PoolInv'
<1>. USE DEF PInv, PoolInv
<1>1. \A v \in Workers : v \in Threads
  BY WorkersAssumption
<1>2. JobsFit'
  <2>1. SUFFICES ASSUME NEW t \in Threads, job'[t].todo # {}
                 PROVE  /\ t \notin Workers /\ call'[t].op \in ParOps
                        /\ job'[t].todo \subseteq TasksOf(call'[t].op)
    BY DEF JobsFit, TasksOf
  <2>2. /\ t \notin Workers /\ call[t].op \in ParOps
        /\ job[t].todo \subseteq TasksOf(call[t].op)
    BY <2>1 DEF JobsFit
  <2>. QED
    BY <2>2
<1>3. DutiesFit'
  <2>1. SUFFICES ASSUME NEW v \in Workers, Busy(v)'
                 PROVE  /\ duty'[v].owner \in Threads \ Workers
                        /\ call'[duty'[v].owner].op \in ParOps
                        /\ duty'[v].left \subseteq TasksOf(call'[duty'[v].owner].op)
    BY DEF DutiesFit, Owner, TasksOf
  <2>2. CASE v = w
    BY <2>2
  <2>3. CASE v # w
    <3>1. Busy(v) /\ duty'[v] = duty[v]
      BY <1>1, <2>1, <2>3 DEF Busy
    <3>. QED
      BY <3>1 DEF DutiesFit, Owner
  <2>. QED
    BY <2>2, <2>3
<1>4. WorkersFit'
  <2>1. SUFFICES ASSUME NEW v \in Workers
                 PROVE  calls[v] = 0 /\ WorkerFits(call'[v], held'[v], call'[duty'[v].owner].op)
    BY DEF WorkersFit, Owner, WorkerFits, HasItem, Empty
  <2>2. CASE v = w
    BY <2>2 DEF WorkersFit
  <2>3. CASE v # w
    <3>1. calls[v] = 0 /\ WorkerFits(call[v], held[v], call[Owner(v)].op)
      BY DEF WorkersFit
    <3>2. call'[v] = call[v] /\ held'[v] = held[v] /\ duty'[v] = duty[v]
      BY <1>1, <2>3
    <3>3. CASE Busy(v)
      BY <3>1, <3>2, <3>3 DEF DutiesFit, Owner
    <3>4. CASE ~Busy(v)
      BY <3>1, <3>2, <3>4, FreeWorker, IdleFits DEF Busy
    <3>. QED
      BY <3>3, <3>4
  <2>. QED
    BY <2>2, <2>3
<1>5. CallersFit'
  <2>1. \A t \in Threads \ Workers : CallerFits(call'[t], held'[t])
    BY DEF CallersFit
  <2>. QED
    BY <2>1 DEF CallersFit, CallerFits
<1>6. AloneFits'
  <2>1. SUFFICES ASSUME NEW t \in Threads \ Workers, call[t].op \in AloneOps
                 PROVE  /\ \A u \in Threads : calls[u] = 0
                        /\ \A u \in Threads \ Workers :
                             u # t => call[u] = Idle /\ Empty(held'[u])
    BY DEF AloneFits, Empty
  <2>2. /\ \A u \in Threads : calls[u] = 0
        /\ \A u \in Threads \ Workers : u # t => call[u] = Idle /\ Empty(held[u])
    BY <2>1 DEF AloneFits
  <2>3. Idle.op \notin ParOps
    BY IdleFits DEF ParOps, Iterations, MutIterations
  <2>4. ASSUME NEW u \in Threads \ Workers, u # t  PROVE held'[u] = held[u]
    BY <2>2, <2>3, <2>4
  <2>. QED
    BY <2>2, <2>4
<1>7. OpsFit'
  BY DEF OpsFit
<1>. QED
  BY <1>2, <1>3, <1>4, <1>5, <1>6, <1>7

\* A caller does something while no worker has a task of it.
LEMMA CallerMoves ==
  ASSUME PInv, NEW t \in Threads \ Workers, UNCHANGED duty, PoolTypeOK', AloneFits',
         \A w \in Workers : Busy(w) => Owner(w) # t,
         \A u \in Threads \ {t} :
           call'[u] = call[u] /\ held'[u] = held[u] /\ job'[u].todo = job[u].todo,
         \A u \in Threads : calls[u] = 0 => calls'[u] = 0,
         job'[t].todo # {} =>
           call'[t].op \in ParOps /\ job'[t].todo \subseteq TasksOf(call'[t].op),
         call'[t].op \in ParOps => call'[t].op \in Ops[t],
         CallerFits(call'[t], held'[t])
  PROVE  PoolInv'
<1>. USE DEF PInv, PoolInv
<1>1. \A v \in Workers : v \in Threads \ {t}
  BY WorkersAssumption
<1>2. JobsFit'
  <2>1. SUFFICES ASSUME NEW u \in Threads, job'[u].todo # {}
                 PROVE  /\ u \notin Workers /\ call'[u].op \in ParOps
                        /\ job'[u].todo \subseteq TasksOf(call'[u].op)
    BY DEF JobsFit, TasksOf
  <2>2. CASE u = t
    BY <2>1, <2>2
  <2>3. CASE u # t
    BY <2>1, <2>3 DEF JobsFit
  <2>. QED
    BY <2>2, <2>3
<1>3. DutiesFit'
  <2>1. SUFFICES ASSUME NEW v \in Workers, Busy(v)
                 PROVE  /\ Owner(v) \in Threads \ Workers /\ call'[Owner(v)].op \in ParOps
                        /\ duty[v].left \subseteq TasksOf(call'[Owner(v)].op)
    BY <1>1 DEF DutiesFit, Owner, TasksOf, Busy
  <2>. QED
    BY <2>1 DEF DutiesFit
<1>4. WorkersFit'
  <2>1. SUFFICES ASSUME NEW v \in Workers
                 PROVE  calls'[v] = 0 /\ WorkerFits(call[v], held[v], call'[Owner(v)].op)
    BY <1>1 DEF WorkersFit, Owner, WorkerFits, HasItem, Empty
  <2>2. calls'[v] = 0 /\ WorkerFits(call[v], held[v], call[Owner(v)].op)
    BY <1>1 DEF WorkersFit
  <2>3. CASE Busy(v)
    BY <2>2, <2>3 DEF DutiesFit
  <2>4. CASE ~Busy(v)
    BY <2>2, <2>4, FreeWorker, IdleFits DEF Busy
  <2>. QED
    BY <2>3, <2>4
<1>5. CallersFit'
  <2>1. \A u \in Threads \ Workers : CallerFits(call'[u], held'[u])
    BY DEF CallersFit
  <2>. QED
    BY <2>1 DEF CallersFit, CallerFits
<1>6. OpsFit'
  BY DEF OpsFit
<1>. QED
  BY <1>2, <1>3, <1>4, <1>5, <1>6

-----------------------------------------------------------------------------
(* The calls of the map *)

LEMMA PoolSlots ==
  /\ 1 \in Slots /\ 2 \in Slots /\ 1 \in 0..MaxHandles /\ 0 \in Shards
  /\ \A s \in Shards : s + 1 \in Slots
BY ShardAssumption, BoundAssumption, RoomToCollectAssumption DEF Slots, Shards

LEMMA PoolOpsAreNot ==
  ASSUME NEW op \in ParOps \cup PoolStages
  PROVE  /\ op \in Stages
         /\ op \notin CallOps
BY DEF ParOps, Iterations, MutIterations, PoolStages, Stages, CallOps, KeyOps, Traversals,
       ReadTraversals, Serializing, Closures

LEMMA PoolCallFits ==
  ASSUME NEW c, c.op \in ParOps \cup PoolStages, NEW H
  PROVE  CallFits(c, H) /\ ~HasHole(c)
<1>1. c.op \notin CallOps
  BY PoolOpsAreNot
<1>. QED
  BY <1>1 DEF CallFits, HasHole, CallOps, Closures

\* A caller's own step while others wait for the pool, or not.
LEMMA CallerSteps ==
  ASSUME PInv, NEW t \in Threads \ Workers, Step(t), UNCHANGED <<job, duty>>
  PROVE  PoolInv'
<1>. USE DEF PInv, PoolInv
<1>1. call[t].op \notin ParOps \cup PoolStages /\ call'[t].op \notin ParOps \cup PoolStages
  BY MapStage, PoolOpsAreNot
<1>2. \A u \in Threads \ {t} : call'[u] = call[u] /\ held'[u] = held[u]
  BY StepIsOwn
<1>3. \A u \in Threads : calls[u] = 0 => calls'[u] = 0
  BY StepCalls DEF IInv, RestTypeOK
<1>4. AloneFits'
  <2>1. SUFFICES ASSUME NEW u \in Threads \ Workers, call'[u].op \in AloneOps  PROVE FALSE
    BY DEF AloneFits
  <2>2. u # t /\ call[u].op \in AloneOps
    BY <1>1, <1>2, <2>1 DEF AloneOps, ParOps, Iterations, MutIterations
  <2>3. calls[t] = 0 /\ call[t] = Idle /\ Empty(held[t])
    BY <2>2 DEF AloneFits
  <2>. QED
    BY <2>3, NoStep, IdleFits
<1>5. CallerFits(call'[t], held'[t])
  BY <1>1 DEF CallerFits
<1>6. job[t].todo = {} /\ \A w \in Workers : Busy(w) => Owner(w) # t
  BY <1>1 DEF JobsFit, DutiesFit
<1>7. PoolTypeOK'
  BY DEF PoolTypeOK
<1>. QED
  BY <1>1, <1>2, <1>3, <1>4, <1>5, <1>6, <1>7, CallerMoves

\* A worker inserts a pair of par_extend.
LEMMA WorkerInserts ==
  ASSUME PInv, NEW w \in Workers, Step(w), UNCHANGED <<job, duty>>
  PROVE  PoolInv'
<1>. DEFINE o == Owner(w)
<1>1. /\ w \in Threads /\ calls[w] = 0 /\ WorkerFits(call[w], held[w], call[o].op)
      /\ Busy(w) => /\ o \in Threads \ Workers /\ call[o].op \in ParOps
                    /\ duty[w].left \subseteq TasksOf(call[o].op)
  BY WorkerThread
<1>2. call[w].op \in {"return", "insert", "inserting"}
  <2>1. call[w].op \notin PoolStages
    BY <1>1, MapStage, PoolOpsAreNot DEF PInv
  <2>2. call[w].op = "idle" => Empty(held[w])
    BY <1>1 DEF WorkerFits
  <2>3. call[w].op # "idle"
    BY <1>1, <2>2, NoStep
  <2>. QED
    BY <1>1, <2>1, <2>3 DEF WorkerFits
<1>3. Busy(w)
  BY <1>2, IdleFits DEF Busy
<1>4. call[w] \in CallRecords /\ CallFits(call[w], held[w])
  BY <1>1, CallFields DEF PInv, IInv, CallsFit
<1>5. UNCHANGED calls /\ WorkerFits(call'[w], held'[w], call[o].op)
  <2>. USE DEF PInv, IInv, RestTypeOK, TableInv, TableTypeOK
  <2>1. CASE call[w].op = "insert" /\ InsertLookup(w)
    <3>1. call[w].slot \in Slots /\ Empty(held[w])
      BY <1>1, <1>4, <2>1 DEF CallFits, KeyOps, WorkerFits
    <3>2. \A i \in Slots \ {call[w].slot} : held'[w][i] = NoHandle
      BY <1>1, <2>1, <3>1 DEF InsertLookup, Entry, PutHandle, Slot, Empty
    <3>3. call'[w] = [call[w] EXCEPT !.op = "inserting"]
      BY <1>1, <2>1 DEF InsertLookup, Become, Continue
    <3>4. call'[w].op = "inserting" /\ call'[w].slot = call[w].slot
      BY <1>4, <3>3 DEF CallRecords
    <3>. QED
      BY <1>1, <2>1, <3>2, <3>4 DEF WorkerFits, InsertLookup, PoolStages
  <2>2. CASE call[w].op = "inserting" /\ Insert(w)
    <3>1. call[w].slot \in Slots /\ \A i \in Slots \ {call[w].slot} : held[w][i] = NoHandle
      BY <1>1, <1>4, <2>2 DEF CallFits, HasOne, WorkerFits
    <3>2. Empty(held'[w])
      BY <1>1, <2>2, <3>1 DEF Insert, DropHandle, PutHandle, Slot, Empty
    <3>3. PICK r : call'[w] = [Idle EXCEPT !.op = "return", !.result = r]
      BY <1>1, <2>2 DEF Insert, FinishWith, Continue
    <3>4. call'[w].op = "return"
      BY <3>3 DEF Idle, Call
    <3>. QED
      BY <1>1, <2>2, <3>2, <3>4 DEF WorkerFits, Insert, PoolStages
  <2>3. CASE call[w].op = "return" /\ Return(w)
    <3>1. Empty(held'[w]) /\ call'[w].op = "idle"
      BY <1>1, <2>3, IdleFits DEF Return, Finish, Continue, WorkerFits
    <3>. QED
      BY <2>3, <3>1 DEF WorkerFits, Return, PoolStages
  <2>. QED
    BY <1>1, <1>2, <2>1, <2>2, <2>3, WorkerSteps
<1>6. \A u \in Threads \ {w} : call'[u] = call[u] /\ held'[u] = held[u]
  BY <1>1, StepIsOwn DEF PInv
<1>7. /\ PoolTypeOK' /\ duty'[w].owner = o /\ \A v \in Workers \ {w} : duty'[v] = duty[v]
      /\ duty'[w].left = duty[w].left
  BY DEF PInv, PoolInv, PoolTypeOK, Owner
<1>8. held'[o] = held[o]
  BY <1>1, <1>3, <1>6
<1>. HIDE DEF o
<1>. QED
  BY <1>1, <1>3, <1>5, <1>6, <1>7, <1>8, WorkerMoves

LEMMA MapStepInPool ==
  ASSUME PInv, NEW t \in Threads, Step(t), UNCHANGED <<job, duty>>
  PROVE  PInv'
<1>1. IInv'
  BY StepFits DEF PInv
<1>2. PoolInv'
  BY CallerSteps, WorkerInserts
<1>. QED
  BY <1>1, <1>2 DEF PInv

-----------------------------------------------------------------------------
(* A parallel call begins *)

LEMMA CallRecord ==
  ASSUME NEW op \in ParOps \cup {"par_shard", "insert"}, NEW k \in Keys \cup {None},
         NEW i \in 0..MaxHandles
  PROVE  /\ Call(op, k, i) \in CallRecords /\ Call(op, k, i).op = op
         /\ Call(op, k, i).key = k /\ Call(op, k, i).slot = i
<1>1. op \in Stages
  BY DEF ParOps, Iterations, MutIterations, Stages, CallOps, KeyOps
<1>. QED
  BY <1>1, PoolSlots DEF Call, CallRecords, Nothing

LEMMA MayCall ==
  ASSUME PInv, NEW t \in Threads, calls[t] > 0
  PROVE  t \notin Workers
BY DEF PInv, PoolInv, WorkersFit

\* t begins a parallel call with the tasks X.
LEMMA CallBegins ==
  ASSUME PInv, NEW t \in Threads \ Workers, NEW op \in ParOps \cap Ops[t],
         NEW i \in 0..MaxHandles, call[t] = Idle, Continue(t, Call(op, None, i)), Empty(held[t]),
         NEW X \in SUBSET TasksOf(op), Submit(t, X),
         calls' \in [Threads -> Nat], \A u \in Threads : calls[u] = 0 => calls'[u] = 0,
         AloneFits', UNCHANGED <<shards, held, holes, aborted, duty>>
  PROVE  PInv'
<1>. DEFINE c == Call(op, None, i)
<1>1. c \in CallRecords /\ c.op = op /\ GoesOnAs(t, c)
  BY CallRecord DEF GoesOnAs
<1>. HIDE DEF c
<1>2. CallFits(c, held'[t]) /\ ~HasHole(call[t])
  BY <1>1, PoolCallFits, IdleFits DEF HasHole
<1>3. TableInv' /\ Own(t)
  BY NothingChanges DEF PInv, IInv
<1>4. IInv'
  BY <1>1, <1>2, <1>3, PlainStep DEF PInv, IInv, RestTypeOK
<1>5. call'[t] = c /\ \A u \in Threads \ {t} : call'[u] = call[u]
  BY <1>1 DEF GoesOnAs, Continue, PInv, IInv, RestTypeOK
<1>6. /\ PoolTypeOK' /\ job'[t].todo = X
      /\ \A u \in Threads \ {t} : job'[u] = job[u]
  BY DEF Submit, PInv, PoolInv, PoolTypeOK, TasksOf
<1>7. op \notin PoolStages /\ Idle.op \notin ParOps
  BY IdleFits DEF ParOps, Iterations, MutIterations, PoolStages
<1>8. \A w \in Workers : Busy(w) => Owner(w) # t
  BY <1>7 DEF PInv, PoolInv, DutiesFit
<1>9. CallerFits(call'[t], held'[t])
  BY <1>1, <1>5, <1>7 DEF CallerFits, Empty
<1>10. PoolInv'
  BY <1>1, <1>5, <1>6, <1>8, <1>9, CallerMoves
<1>. QED
  BY <1>4, <1>10 DEF PInv

LEMMA Beginnings ==
  ASSUME PInv, NEW t \in Threads, BeginIteration(t) \/ BeginExtend(t)
  PROVE  PInv'
<1>1. PICK op \in (ParOps \cap Ops[t]) \ AloneOps : \E X \in SUBSET TasksOf(op) :
        Begin(t, op, None) /\ Submit(t, X) /\ Untouched(t) /\ UNCHANGED duty
  <2>1. CASE BeginIteration(t)
    BY <2>1 DEF BeginIteration, Begin, ParOps, Iterations, MutIterations, AloneOps, TasksOf
  <2>2. CASE BeginExtend(t)
    <3>1. "par_extend" \in ParOps \ AloneOps /\ TasksOf("par_extend") = Keys
      BY DEF ParOps, AloneOps, TasksOf
    <3>. QED
      BY <2>2, <3>1 DEF BeginExtend, Begin
  <2>. QED
    BY <2>1, <2>2
<1>2. /\ call[t] = Idle /\ calls[t] > 0 /\ FreeSlots(t) # {}
      /\ calls' = [calls EXCEPT ![t] = @ - 1]
      /\ Continue(t, Call(op, None, FreeSlot(t)))
      /\ UNCHANGED <<shards, held, holes, aborted>>
  BY <1>1 DEF Begin, BeginAs
<1>3. t \notin Workers
  BY <1>2, MayCall
<1>4. FreeSlot(t) \in 0..MaxHandles
  BY <1>2, FreeSlotIsFree, BoundAssumption DEF Slots
<1>5. calls' \in [Threads -> Nat] /\ \A u \in Threads : calls[u] = 0 => calls'[u] = 0
  BY <1>2 DEF PInv, IInv, RestTypeOK
<1>6. AloneFits'
  <2>1. SUFFICES ASSUME NEW u \in Threads \ Workers, call'[u].op \in AloneOps  PROVE FALSE
    BY DEF AloneFits
  <2>2. call'[t].op = op /\ \A v \in Threads \ {t} : call'[v] = call[v]
    BY <1>2, <1>4, CallRecord DEF Continue, PInv, IInv, RestTypeOK
  <2>3. u # t /\ call[u].op \in AloneOps
    BY <2>1, <2>2
  <2>. QED
    BY <1>2, <2>3 DEF PInv, PoolInv, AloneFits
<1>. QED
  BY <1>1, <1>2, <1>3, <1>4, <1>5, <1>6, CallBegins DEF Untouched, Empty

LEMMA AloneBegins ==
  ASSUME PInv, NEW t \in Threads, BeginOwning(t) \/ BeginView(t)
  PROVE  PInv'
<1>1. PICK op \in AloneOps : BeginAlone(t, op)
  BY DEF BeginOwning, BeginView, AloneOps
<1>2. op \in ParOps \cap Ops[t] /\ TasksOf(op) = Shards
  BY <1>1 DEF BeginAlone, AloneOps, ParOps, Iterations, MutIterations, TasksOf
<1>3. /\ calls[t] > 0 /\ calls' = [u \in Threads |-> 0]
      /\ \A u \in Threads : call[u] = Idle /\ Untouched(u)
      /\ Continue(t, Call(op, None, 0)) /\ Submit(t, Shards)
      /\ UNCHANGED <<shards, held, holes, aborted, duty>>
  BY <1>1 DEF BeginAlone
<1>4. t \notin Workers /\ 0 \in 0..MaxHandles
  BY <1>3, MayCall, BoundAssumption
<1>5. AloneFits'
  <2>1. \A v \in Threads \ {t} : call'[v] = Idle /\ Empty(held'[v])
    BY <1>3 DEF Continue, PInv, IInv, RestTypeOK, Untouched, Empty
  <2>2. Idle.op \notin AloneOps
    BY IdleFits DEF AloneOps
  <2>. QED
    BY <1>3, <2>1, <2>2 DEF AloneFits
<1>. QED
  BY <1>2, <1>3, <1>4, <1>5, CallBegins DEF Untouched, Empty

-----------------------------------------------------------------------------
(* The workers *)

LEMMA StartFits ==
  ASSUME PInv, NEW w \in Workers, call[w] = Idle, NEW t \in Threads, call[t].op \in ParOps,
         NEW x \in TasksOf(call[t].op), Start(w, t, x)
  PROVE  \E c \in CallRecords : /\ Continue(w, c) /\ CallFits(c, held[w])
                                /\ WorkerFits(c, held[w], call[t].op)
<1>1. Empty(held[w])
  BY WorkerThread, IdleFits DEF WorkerFits
<1>2. CASE call[t].op = "par_extend"
  <2>. DEFINE c == Call("insert", x, 1)
  <2>1. x \in Keys
    BY <1>2 DEF TasksOf
  <2>. Continue(w, c)
    BY <1>2 DEF Start, In
  <2>. "insert" \in ParOps \cup {"par_shard", "insert"} /\ x \in Keys \cup {None}
    BY <2>1
  <2>2. c \in CallRecords /\ c.op = "insert" /\ c.key = x /\ c.slot = 1
    BY PoolSlots, CallRecord
  <2>. HIDE DEF c
  <2>3. CallFits(c, held[w]) /\ WorkerFits(c, held[w], call[t].op)
    BY <1>1, <1>2, <2>1, <2>2, PoolSlots
       DEF CallFits, KeyOps, Traversals, ReadTraversals, Serializing, WorkerFits, Empty, PoolStages
  <2>. QED
    BY <2>2, <2>3
<1>3. CASE call[t].op # "par_extend"
  <2>. call[t].op \in Iterations
    BY <1>3 DEF ParOps
  <2>1. x \in Shards
    BY <1>3 DEF TasksOf
  <2>2. Call("par_shard", None, 1) \in CallRecords /\ Call("par_shard", None, 1).op = "par_shard"
    BY PoolSlots DEF Call, CallRecords, Nothing, Stages
  <2>. DEFINE c == [Call("par_shard", None, 1) EXCEPT !.shard = x]
  <2>3. c \in CallRecords /\ c.op = "par_shard"
    BY <2>1, <2>2 DEF CallRecords
  <2>4. Continue(w, c)
    BY <1>3 DEF Start, In
  <2>. HIDE DEF c
  <2>5. CallFits(c, held[w]) /\ WorkerFits(c, held[w], call[t].op)
    BY <1>1, <2>3, PoolCallFits DEF WorkerFits, PoolStages
  <2>. QED
    BY <2>3, <2>4, <2>5
<1>. QED
  BY <1>2, <1>3

\* The worker's state changes as the invariant of the map allows.
LEMMA WorkerGoesOn ==
  ASSUME PInv, NEW w \in Workers, NEW c \in CallRecords, Continue(w, c), CallFits(c, held'[w]),
         call[w] = Idle \/ call[w].op \in PoolStages,
         TableInv', Own(w), UNCHANGED <<holes, aborted, calls>>
  PROVE  IInv' /\ call'[w] = c /\ \A u \in Threads \ {w} : call'[u] = call[u]
<1>1. w \in Threads /\ GoesOnAs(w, c) /\ ~HasHole(call[w])
  BY WorkerThread, PoolCallFits, IdleFits DEF GoesOnAs, HasHole
<1>2. IInv'
  BY <1>1, PlainStep DEF PInv, IInv, RestTypeOK
<1>. QED
  BY <1>1, <1>2 DEF Continue, PInv, IInv, RestTypeOK

LEMMA Takes ==
  ASSUME PInv, NEW w \in Workers, Take(w) \/ TakeNext(w)
  PROVE  PInv'
<1>. USE DEF PInv, PoolInv
<1>1. call[w] = Idle /\ w \in Threads
  BY WorkerThread DEF Take, TakeNext, Busy
<1>2. PICK o \in Threads \ Workers : \E X \in SUBSET TasksOf(call[o].op) : \E x \in X :
        /\ call[o].op \in ParOps /\ Start(w, o, x)
        /\ PoolTypeOK' /\ duty'[w].owner = o /\ duty'[w].left = X \ {x}
        /\ \A v \in Workers \ {w} : duty'[v] = duty[v]
        /\ \A t \in Threads : job'[t].todo \subseteq job[t].todo
  <2>1. CASE Take(w)
    <3>1. PICK t \in Threads, X \in SUBSET (Shards \cup Keys), x \in Shards \cup Keys :
            /\ x \in X /\ X \subseteq job[t].todo /\ Start(w, t, x)
            /\ duty' = [duty EXCEPT ![w] = [owner |-> t, left |-> X \ {x}]]
            /\ job' = [job EXCEPT ![t].todo = @ \ X]
      BY <2>1 DEF Take, PoolTypeOK
    <3>2. /\ t \notin Workers /\ call[t].op \in ParOps
          /\ job[t].todo \subseteq TasksOf(call[t].op)
      BY <3>1 DEF JobsFit
    <3>3. PoolTypeOK' /\ duty'[w].owner = t /\ duty'[w].left = X \ {x}
          /\ \A v \in Workers \ {w} : duty'[v] = duty[v]
      BY <3>1 DEF PoolTypeOK
    <3>4. \A u \in Threads : job'[u].todo \subseteq job[u].todo
      BY <3>1 DEF PoolTypeOK
    <3>5. t \in Threads \ Workers /\ X \in SUBSET TasksOf(call[t].op)
      BY <3>1, <3>2
    <3>. QED
      BY <3>1, <3>2, <3>3, <3>4, <3>5
  <2>2. CASE TakeNext(w)
    <3>. DEFINE t == Owner(w)
                X == duty[w].left
    <3>1. PICK x \in X : /\ Start(w, t, x) /\ UNCHANGED job
                         /\ duty' = [duty EXCEPT ![w].left = @ \ {x}]
      BY <2>2 DEF TakeNext
    <3>2. t \in Threads \ Workers /\ call[t].op \in ParOps /\ X \subseteq TasksOf(call[t].op)
      BY <3>1, WorkerThread DEF Busy
    <3>3. PoolTypeOK' /\ duty'[w].owner = t /\ duty'[w].left = X \ {x}
          /\ \A v \in Workers \ {w} : duty'[v] = duty[v]
      BY <3>1 DEF PoolTypeOK, Owner
    <3>. QED
      BY <3>1, <3>2, <3>3
  <2>. QED
    BY <2>1, <2>2
<1>3. PICK X \in SUBSET TasksOf(call[o].op), x \in TasksOf(call[o].op) :
        /\ x \in X /\ call[o].op \in ParOps /\ Start(w, o, x)
        /\ PoolTypeOK' /\ duty'[w].owner = o /\ duty'[w].left = X \ {x}
        /\ \A v \in Workers \ {w} : duty'[v] = duty[v]
        /\ \A t \in Threads : job'[t].todo \subseteq job[t].todo
  BY <1>2
<1>4. PICK c \in CallRecords : /\ Continue(w, c) /\ CallFits(c, held[w])
                               /\ WorkerFits(c, held[w], call[o].op)
  BY <1>1, <1>3, StartFits
<1>5. UNCHANGED <<shards, held, holes, aborted, calls>>
  BY DEF Take, TakeNext
<1>6. TableInv' /\ Own(w)
  BY <1>5, NothingChanges DEF IInv
<1>7. IInv' /\ call'[w] = c /\ \A u \in Threads \ {w} : call'[u] = call[u]
  BY <1>1, <1>4, <1>5, <1>6, WorkerGoesOn
<1>8. PoolInv'
  BY <1>1, <1>3, <1>4, <1>5, <1>7, WorkerMoves
<1>. QED
  BY <1>7, <1>8

-----------------------------------------------------------------------------
(* A worker at work on a shard *)

LEMMA AtWork ==
  ASSUME PInv, NEW w \in Workers, call[w].op \in PoolStages
  PROVE  /\ w \in Threads /\ Busy(w) /\ w # Owner(w)
         /\ Owner(w) \in Threads \ Workers /\ call[Owner(w)].op \in ParOps
         /\ duty[w].left \subseteq TasksOf(call[Owner(w)].op)
         /\ WorkerFits(call[w], held[w], call[Owner(w)].op) /\ call[Owner(w)].op \in Iterations
         /\ call[w] \in CallRecords /\ AtShard(w) \in Shards /\ AtShard(w) = call[w].shard
<1>1. w \in Threads
  BY WorkerThread
<1>2. call[w] \in CallRecords /\ call[w].shard \in Shards
  BY <1>1, CallFields DEF PInv, IInv
<1>3. Busy(w)
  BY IdleFits DEF Busy, PoolStages
<1>4. call[Owner(w)].op \in Iterations
  BY WorkerThread DEF WorkerFits
<1>. QED
  BY <1>1, <1>2, <1>3, <1>4, WorkerThread DEF AtShard

\* Of a worker that goes on with its task, only its stage and its handles change.
LEMMA WorkerStays ==
  ASSUME PInv, NEW w \in Workers, call[w].op \in PoolStages,
         NEW c \in CallRecords, Continue(w, c), CallFits(c, held'[w]),
         WorkerFits(c, held'[w], call[Owner(w)].op),
         TableInv', Own(w), UNCHANGED <<holes, aborted, calls, job, duty>>
  PROVE  PInv'
<1>1. /\ w \in Threads /\ Owner(w) \in Threads \ Workers /\ call[Owner(w)].op \in ParOps
      /\ duty[w].left \subseteq TasksOf(call[Owner(w)].op) /\ w # Owner(w)
  BY AtWork
<1>2. IInv' /\ call'[w] = c /\ \A u \in Threads \ {w} : call'[u] = call[u]
  BY WorkerGoesOn
<1>3. PoolTypeOK' /\ duty'[w].owner = Owner(w)
  BY DEF PInv, PoolInv, PoolTypeOK, Owner
<1>4. /\ \A u \in Threads \ {w, Owner(w)} : held'[u] = held[u]
      /\ held'[Owner(w)] = held[Owner(w)]
  BY <1>1 DEF Own
<1>5. PoolInv'
  BY <1>1, <1>2, <1>3, <1>4, WorkerMoves
<1>. QED
  BY <1>2, <1>5 DEF PInv

LEMMA NextStage ==
  ASSUME PInv, NEW w \in Workers, call[w].op \in PoolStages,
         NEW op \in PoolStages, Become(w, op), NEW H
  PROVE  \E c \in CallRecords :
           Continue(w, c) /\ c.op = op /\ c.shard = AtShard(w) /\ CallFits(c, H)
<1>. DEFINE c == [call[w] EXCEPT !.op = op]
<1>1. Continue(w, c) /\ op \in Stages
  BY PoolOpsAreNot DEF Become
<1>2. c \in CallRecords /\ c.op = op /\ c.shard = AtShard(w)
  BY <1>1, AtWork, OtherOp
<1>. HIDE DEF c
<1>3. CallFits(c, H)
  BY <1>2, PoolCallFits
<1>. QED
  BY <1>1, <1>2, <1>3

LEMMA LocksShard ==
  ASSUME PInv, NEW w \in Workers, LockShard(w)
  PROVE  PInv'
<1>. DEFINE op == call[Owner(w)].op
            s == AtShard(w)
<1>1. call[w].op = "par_shard" /\ call[w].op \in PoolStages
  BY DEF LockShard, In, PoolStages
<1>2. /\ w \in Threads /\ s \in Shards /\ Empty(held[w]) /\ op \in Iterations
  BY <1>1, AtWork DEF WorkerFits
<1>3. PICK h \in Handles : h = Handle(IterKind(op), s, Present(s))
  <2>1. IterKind(op) \in SharedKinds \cup ExclusiveKinds /\ s \in -1..(ShardCount - 1)
    BY <1>2, ShardAssumption DEF Shards, IterKind, SharedKinds, ExclusiveKinds
  <2>2. Present(s) \in SUBSET Keys
    BY DEF Present
  <2>3. Handle(IterKind(op), s, Present(s)) \in Handles
    BY <2>1, <2>2 DEF Handle, Handles
  <2>. QED
    BY <2>3
<1>4. /\ h.kind = IterKind(op) /\ h.shard = s /\ h.keys = Present(s)
      /\ \A k \in Present(s) : k \in Keys /\ ShardOf[k] = s /\ Stored(k) # None
  BY <1>2, <1>3 DEF Handle, Present, Stored, PInv, IInv, TableInv, Placed
<1>5. Fits(h)
  BY <1>4 DEF Fits, IterKind, OneKeyKinds, IteratorKinds
<1>6. PutHandle(w, 1, h)
  BY <1>3 DEF LockShard, Exclusive, IterKind
<1>7. (h.kind \in SharedKinds /\ ReadLockable(h.shard)) \/ WriteLockable(h.shard)
  BY <1>4 DEF LockShard, Exclusive, IterKind, SharedKinds
<1>8. TableInv' /\ Own(w) /\ held'[w][1] = h /\ \A j \in Slots \ {1} : held'[w][j] = NoHandle
  BY <1>2, <1>5, <1>6, <1>7, PoolSlots, Acquire, PutIsOwn DEF PInv, IInv, LockShard, Empty
<1>9. PICK c \in CallRecords :
        Continue(w, c) /\ c.op = "par_items" /\ c.shard = s /\ CallFits(c, held'[w])
  BY <1>1, NextStage DEF LockShard, PoolStages
<1>10. WorkerFits(c, held'[w], op)
  BY <1>2, <1>4, <1>8, <1>9 DEF WorkerFits, PoolStages
<1>. QED
  BY <1>1, <1>8, <1>9, <1>10, WorkerStays DEF LockShard

LEMMA GivesItem ==
  ASSUME PInv, NEW w \in Workers, GiveItem(w)
  PROVE  PInv'
<1>. DEFINE op == call[Owner(w)].op
            s == AtShard(w)
            f == FreeSlot(w)
<1>1. call[w].op = "par_items" /\ call[w].op \in PoolStages
  BY DEF GiveItem, In, PoolStages
<1>2. /\ w \in Threads /\ held[w][1].kind = IterKind(op) /\ held[w][1].shard = s
      /\ \A j \in Slots \ {1} : held[w][j] = NoHandle
      /\ op \in Iterations
  BY <1>1, AtWork DEF WorkerFits
<1>3. held[w][1].kind \in IteratorKinds /\ held[w][1] # NoHandle /\ FreeSlots(w) # {}
  BY <1>2, PoolSlots DEF IterKind, IteratorKinds, NoHandle, Handle, FreeSlots
<1>4. f \in Slots \ {1}
  BY <1>2, <1>3, FreeSlotIsFree
<1>5. TableInv' /\ Own(w)
  BY <1>2, <1>3, PoolSlots, YieldKeeps DEF PInv, IInv, GiveItem
<1>6. PICK k \in held[w][1].keys :
        held' = [held EXCEPT
          ![w][1].keys = @ \ {k},
          ![w][f] = Handle(IF held[w][1].kind = "Iter" THEN "RefMulti" ELSE "RefMutMulti",
                           held[w][1].shard, {k})]
  BY DEF GiveItem, Yield
<1>7. held[w][1] \in Handles
  BY <1>2, PoolSlots DEF PInv, IInv, TableInv, TableTypeOK
<1>. HIDE DEF f
<1>8. /\ held'[w][1] = [held[w][1] EXCEPT !.keys = @ \ {k}]
      /\ held'[w][f] = Handle(IF held[w][1].kind = "Iter" THEN "RefMulti" ELSE "RefMutMulti",
                              held[w][1].shard, {k})
      /\ \A j \in Slots \ {1, f} : held'[w][j] = held[w][j]
  BY <1>2, <1>4, <1>6, PoolSlots DEF PInv, IInv, TableInv, TableTypeOK
<1>9. held'[w][1].kind = IterKind(op) /\ held'[w][1].shard = s
  BY <1>2, <1>7, <1>8 DEF Handles
<1>10. held'[w][f].kind = ItemKind(op) /\ held'[w][f].shard = s
  BY <1>2, <1>8 DEF Handle, ItemKind, IterKind
<1>11. PICK c \in CallRecords :
        Continue(w, c) /\ c.op = "par_closure" /\ c.shard = s /\ CallFits(c, held'[w])
  BY <1>1, NextStage DEF GiveItem, PoolStages
<1>12. HasItem(c, held'[w], op, f)
  BY <1>2, <1>8, <1>10, <1>11 DEF HasItem
<1>13. WorkerFits(c, held'[w], op)
  BY <1>2, <1>4, <1>9, <1>11, <1>12 DEF WorkerFits, PoolStages
<1>. QED
  BY <1>1, <1>5, <1>11, <1>13, WorkerStays DEF GiveItem

\* The element that a worker gives to the consumer is in one slot of its own.
LEMMA ItemIsThere ==
  ASSUME PInv, NEW w \in Workers, call[w].op = "par_closure"
  PROVE  /\ Item(w) \in Slots \ {1}
         /\ HasItem(call[w], held[w], call[Owner(w)].op, Item(w))
         /\ held[w][1].kind = IterKind(call[Owner(w)].op) /\ held[w][1].shard = AtShard(w)
<1>. DEFINE op == call[Owner(w)].op
<1>1. WorkerFits(call[w], held[w], op) /\ AtShard(w) = call[w].shard
  BY AtWork DEF PoolStages
<1>2. PICK i \in Slots \ {1} : HasItem(call[w], held[w], op, i)
  BY <1>1 DEF WorkerFits
<1>3. held[w][1].kind = IterKind(op) /\ held[w][1].shard = AtShard(w)
  BY <1>1 DEF WorkerFits
<1>4. held[w][i].kind \in {"RefMulti", "RefMutMulti"}
  BY <1>2 DEF HasItem, ItemKind
<1>5. ASSUME NEW j \in Slots, held[w][j].kind \in {"RefMulti", "RefMutMulti"}
      PROVE  j = i
  BY <1>2, <1>3, <1>5 DEF HasItem, IterKind, NoHandle, Handle
<1>6. Item(w) = i
  BY <1>4, <1>5 DEF Item
<1>. QED
  BY <1>2, <1>3, <1>6

\* The closure writes through the element, or not at all.
LEMMA ClosureStores ==
  ASSUME PInv, NEW w \in Workers, call[w].op = "par_closure", ClosureActs(w)
  PROVE  \/ UNCHANGED shards
         \/ /\ held[w][Item(w)].kind \in ExclusiveKinds
            /\ \E k \in held[w][Item(w)].keys, v \in Values \cup {None} : Store(k, v)
<1>1. held[w][Item(w)].kind = ItemKind(call[Owner(w)].op)
  BY ItemIsThere DEF HasItem
<1>2. CASE In(Owner(w), "par_iter_mut") \/ In(Owner(w), "into_par_iter")
  <2>1. held[w][Item(w)].kind \in ExclusiveKinds
    BY <1>1, <1>2 DEF ItemKind, MutIterations, In, ExclusiveKinds
  <2>. QED
    BY <1>2, <2>1 DEF ClosureActs, ItemKeys, In
<1>3. CASE ~(In(Owner(w), "par_iter_mut") \/ In(Owner(w), "into_par_iter"))
  BY <1>3 DEF ClosureActs
<1>. QED
  BY <1>2, <1>3

LEMMA GoesOnWithItems ==
  ASSUME PInv, NEW w \in Workers, ForEach(w)
  PROVE  PInv'
<1>. DEFINE op == call[Owner(w)].op
            s == AtShard(w)
            i == Item(w)
<1>1. call[w].op = "par_closure" /\ call[w].op \in PoolStages
  BY DEF ForEach, In, PoolStages
<1>2. /\ w \in Threads /\ i \in Slots \ {1} /\ HasItem(call[w], held[w], op, i)
      /\ held[w][1].kind = IterKind(op) /\ held[w][1].shard = s /\ op \in Iterations
  BY <1>1, AtWork, ItemIsThere
<1>. HIDE DEF i
<1>3. DropHandle(w, i) /\ TableInv
  BY DEF ForEach, PInv, IInv, i
<1>4. TableInv'
  <2>1. \/ UNCHANGED shards
        \/ /\ held[w][i].kind \in ExclusiveKinds
           /\ \E k \in held[w][i].keys, v \in Values \cup {None} : Store(k, v)
    BY <1>1, ClosureStores DEF ForEach, i
  <2>. QED
    BY <1>2, <1>3, <2>1, DropKeeps, StoreAndDrop
<1>5. /\ Own(w) /\ held'[w][i] = NoHandle
      /\ \A j \in Slots \ {i} : held'[w][j] = held[w][j]
  BY <1>2, <1>3, PutIsOwn DEF DropHandle
<1>6. PICK c \in CallRecords :
        Continue(w, c) /\ c.op = "par_items" /\ c.shard = s /\ CallFits(c, held'[w])
  BY <1>1, NextStage DEF ForEach, PoolStages
<1>7. \A j \in Slots \ {1} : held'[w][j] = NoHandle
  BY <1>2, <1>5 DEF HasItem
<1>8. held'[w][1] = held[w][1]
  BY <1>2, <1>5, PoolSlots
<1>9. WorkerFits(c, held'[w], op)
  BY <1>2, <1>6, <1>7, <1>8 DEF WorkerFits, PoolStages
<1>. QED
  BY <1>1, <1>4, <1>5, <1>6, <1>9, WorkerStays DEF ForEach

LEMMA EndsShard ==
  ASSUME PInv, NEW w \in Workers, EndShard(w)
  PROVE  PInv'
<1>. DEFINE op == call[Owner(w)].op
<1>1. call[w].op = "par_items" /\ call[w].op \in PoolStages
  BY DEF EndShard, In, PoolStages
<1>2. w \in Threads /\ \A j \in Slots \ {1} : held[w][j] = NoHandle
  BY <1>1, AtWork DEF WorkerFits
<1>3. TableInv'
  BY <1>2, PoolSlots, DropKeeps DEF PInv, IInv, EndShard
<1>4. /\ Own(w) /\ held'[w][1] = NoHandle
      /\ \A j \in Slots \ {1} : held'[w][j] = held[w][j]
  BY <1>2, PoolSlots, PutIsOwn DEF PInv, IInv, EndShard, DropHandle
<1>5. Empty(held'[w])
  BY <1>2, <1>4 DEF Empty
<1>6. /\ Idle \in CallRecords /\ CallFits(Idle, held'[w]) /\ Continue(w, Idle)
      /\ Idle.op = "idle"
  BY IdleFits DEF EndShard, Finish
<1>7. WorkerFits(Idle, held'[w], op)
  BY <1>5, <1>6 DEF WorkerFits, PoolStages
<1>. QED
  BY <1>1, <1>3, <1>4, <1>6, <1>7, WorkerStays DEF EndShard

\* A thread drops all that it has, when what else is referred to has stayed.
LEMMA EmptyOut ==
  ASSUME TableInv, NEW t \in Threads,
         held' = [held EXCEPT ![t] = [i \in Slots |-> NoHandle]],
         shards' \in ShardTables, Placed',
         \A u \in Threads \ {t}, j \in Slots : \A k \in held[u][j].keys :
           Stored(k)' # None <=> Stored(k) # None
  PROVE  TableInv' /\ Own(t) /\ Empty(held'[t])
<1>1. NoHandle \in Handles /\ NoHandle.shard = -1 /\ NoHandle.keys = {}
      /\ NoHandle.kind = "none"
  BY ShardAssumption DEF NoHandle, Handle, Handles
<1>2. /\ held' \in [Threads -> [Slots -> Handles]]
      /\ \A j \in Slots : held'[t][j] = NoHandle
      /\ \A u \in Threads \ {t} : held'[u] = held[u]
  BY <1>1 DEF TableInv, TableTypeOK
<1>3. HandlesFit'
  <2>1. SUFFICES ASSUME NEW u \in Threads, NEW j \in Slots, NEW k \in held'[u][j].keys
                 PROVE  /\ ShardOf[k] = held'[u][j].shard
                        /\ held'[u][j].kind # "Vacant" <=> Stored(k)' # None
                        /\ held'[u][j].kind \in OneKeyKinds =>
                             \A l \in held'[u][j].keys : k = l
    BY DEF HandlesFit, Fits, Stored
  <2>2. u # t /\ held'[u] = held[u]
    BY <1>1, <1>2, <2>1
  <2>. QED
    BY <2>1, <2>2 DEF TableInv, HandlesFit, Fits
<1>4. GuardsExclude'
  <2>1. SUFFICES ASSUME NEW u1 \in Threads, NEW u2 \in Threads, NEW j1 \in Slots,
                        NEW j2 \in Slots, u1 # u2 \/ j1 # j2
                 PROVE  Compatible(u1, held'[u1][j1], u2, held'[u2][j2])
    BY DEF GuardsExclude, Compatible
  <2>2. CASE u1 = t \/ u2 = t
    BY <1>1, <1>2, <2>2 DEF Compatible
  <2>3. CASE u1 # t /\ u2 # t
    BY <1>2, <2>1, <2>3 DEF TableInv, GuardsExclude
  <2>. QED
    BY <2>2, <2>3
<1>. QED
  BY <1>2, <1>3, <1>4 DEF TableInv, TableTypeOK, Own, Empty

LEMMA ClosurePanicsInPool ==
  ASSUME PInv, NEW w \in Workers, ParClosurePanics(w)
  PROVE  PInv'
<1>. DEFINE o == Owner(w)
            i == Item(w)
<1>1. call[w].op = "par_closure" /\ call[w].op \in PoolStages
  BY DEF ParClosurePanics, In, PoolStages
<1>2. /\ w \in Threads /\ o \in Threads \ Workers /\ call[o].op \in ParOps
      /\ duty[w].left \subseteq TasksOf(call[o].op) /\ i \in Slots
  BY <1>1, AtWork, ItemIsThere
<1>3. /\ shards' \in ShardTables /\ Placed'
      /\ \A u \in Threads \ {w}, j \in Slots : \A k \in held[u][j].keys :
           Stored(k)' # None <=> Stored(k) # None
  <2>1. CASE UNCHANGED shards
    BY <2>1 DEF PInv, IInv, TableInv, TableTypeOK, Placed, Stored
  <2>2. CASE /\ held[w][i].kind \in ExclusiveKinds
             /\ \E k \in held[w][i].keys, v \in Values \cup {None} : Store(k, v)
    BY <1>2, <2>2, StoreLeavesOthers DEF PInv, IInv
  <2>. QED
    BY <1>1, <2>1, <2>2, ClosureStores DEF ParClosurePanics
<1>4. TableInv' /\ Own(w) /\ Empty(held'[w])
  BY <1>2, <1>3, EmptyOut DEF ParClosurePanics, PInv, IInv
<1>5. /\ Idle \in CallRecords /\ CallFits(Idle, held'[w]) /\ Continue(w, Idle)
      /\ Idle.op = "idle"
  BY IdleFits DEF ParClosurePanics, Finish
<1>6. IInv' /\ call'[w] = Idle /\ \A u \in Threads \ {w} : call'[u] = call[u]
  BY <1>1, <1>4, <1>5, WorkerGoesOn DEF ParClosurePanics
<1>7. PICK rest \in SUBSET duty[w].left : duty' = [duty EXCEPT ![w].left = rest]
  BY DEF ParClosurePanics
<1>8. /\ PoolTypeOK' /\ duty'[w].owner = o /\ duty'[w].left = rest
      /\ \A v \in Workers \ {w} : duty'[v] = duty[v]
      /\ \A t \in Threads : job'[t].todo \subseteq job[t].todo
  <2>1. /\ job' \in [Threads -> [todo : SUBSET (Shards \cup Keys), panicked : BOOLEAN]]
        /\ \A t \in Threads : job'[t].todo = job[t].todo
    <3>1. job' = [job EXCEPT ![o].panicked = TRUE]
      BY DEF ParClosurePanics
    <3>. QED
      BY <1>2, <3>1 DEF PInv, PoolInv, PoolTypeOK
  <2>2. /\ duty' \in [Workers -> [owner : Threads \cup {None}, left : SUBSET (Shards \cup Keys)]]
        /\ duty'[w].owner = o /\ duty'[w].left = rest
        /\ \A v \in Workers \ {w} : duty'[v] = duty[v]
    BY <1>7 DEF PInv, PoolInv, PoolTypeOK, Owner
  <2>. QED
    BY <2>1, <2>2 DEF PoolTypeOK
<1>9. WorkerFits(Idle, held'[w], call[o].op)
  BY <1>4, <1>5 DEF WorkerFits, PoolStages
<1>10. \A u \in Threads \ {w} : held'[u] = held[u]
  BY <1>4 DEF Own
<1>11. w # o
  BY <1>2
<1>. HIDE DEF o
<1>12. PoolInv'
  BY <1>2, <1>6, <1>7, <1>8, <1>9, <1>10, <1>11, WorkerMoves DEF ParClosurePanics
<1>. QED
  BY <1>6, <1>12 DEF PInv

\* A reference that a worker has is joined with those that its caller has into the same
\* shard.
GivesTo(w, i, o, j) ==
  held' = [held EXCEPT
    ![w][i] = NoHandle,
    ![o][j] = Handle("RefMulti", held[w][i].shard, @.keys \cup held[w][i].keys)]

LEMMA GivesAway ==
  ASSUME TableInv, NEW w \in Threads, NEW o \in Threads, w # o, NEW i \in Slots,
         NEW j \in Slots, held[w][i].kind = "RefMulti", held[w][i].shard \in Shards,
         held[o][j] # NoHandle =>
           held[o][j].kind = "RefMulti" /\ held[o][j].shard = held[w][i].shard,
         GivesTo(w, i, o, j), UNCHANGED shards
  PROVE  /\ TableInv'
         /\ held'[w][i] = NoHandle /\ \A n \in Slots \ {i} : held'[w][n] = held[w][n]
         /\ held'[o][j].kind = "RefMulti" /\ held'[o][j].shard = held[w][i].shard
         /\ \A n \in Slots \ {j} : held'[o][n] = held[o][n]
         /\ \A u \in Threads \ {w, o} : held'[u] = held[u]
<1>. DEFINE s == held[w][i].shard
            K == held[o][j].keys \cup held[w][i].keys
<1>1. /\ K \subseteq Keys /\ held[w][i].keys \subseteq Keys
      /\ \A k \in K : ShardOf[k] = s /\ Stored(k) # None
  <2>1. /\ held[w][i].keys \subseteq Keys /\ held[o][j].keys \subseteq Keys
        /\ Fits(held[w][i]) /\ Fits(held[o][j])
    BY HandleFields DEF TableInv, HandlesFit
  <2>2. held[o][j] = NoHandle => held[o][j].keys = {}
    BY DEF NoHandle, Handle
  <2>. QED
    BY <2>1, <2>2 DEF Fits
<1>2. PICK g \in Handles : g = Handle("RefMulti", s, K)
  <2>1. s \in -1..(ShardCount - 1) /\ "RefMulti" \in SharedKinds
    BY ShardAssumption DEF Shards, SharedKinds
  <2>2. Handle("RefMulti", s, K) \in Handles
    BY <1>1, <2>1 DEF Handle, Handles
  <2>. QED
    BY <2>2
<1>3. g.kind = "RefMulti" /\ g.shard = s /\ g.keys = K
  BY <1>2 DEF Handle
<1>4. /\ NoHandle \in Handles /\ NoHandle.shard = -1 /\ NoHandle.keys = {}
      /\ NoHandle.kind = "none"
  BY ShardAssumption DEF NoHandle, Handle, Handles
<1>5. held' = [held EXCEPT ![w][i] = NoHandle, ![o][j] = g]
  BY <1>2 DEF TableInv, TableTypeOK, GivesTo
<1>. HIDE DEF s, K
<1>6. /\ held' \in [Threads -> [Slots -> Handles]]
      /\ held'[w][i] = NoHandle /\ \A n \in Slots \ {i} : held'[w][n] = held[w][n]
      /\ held'[o][j] = g /\ \A n \in Slots \ {j} : held'[o][n] = held[o][n]
      /\ \A u \in Threads \ {w, o} : held'[u] = held[u]
  <2>1. held \in [Threads -> [Slots -> Handles]]
    BY DEF TableInv, TableTypeOK
  <2>2. /\ held'[w] = [held[w] EXCEPT ![i] = NoHandle]
        /\ held'[o] = [held[o] EXCEPT ![j] = g]
        /\ \A u \in Threads \ {w, o} : held'[u] = held[u]
        /\ held' = [u \in Threads |-> held'[u]]
    BY <1>5, <2>1
  <2>3. held'[w] \in [Slots -> Handles] /\ held'[o] \in [Slots -> Handles]
    BY <1>4, <2>1, <2>2
  <2>4. \A u \in Threads : held'[u] \in [Slots -> Handles]
    BY <2>1, <2>2, <2>3
  <2>5. held' \in [Threads -> [Slots -> Handles]]
    BY <2>2, <2>4
  <2>. QED
    BY <2>1, <2>2, <2>5
<1>7. HandlesFit'
  <2>1. Fits(g) /\ Fits(NoHandle)
    BY <1>1, <1>3, <1>4 DEF Fits, OneKeyKinds, ExclusiveKinds, EntryKinds
  <2>2. \A u \in Threads, n \in Slots : Fits(held'[u][n])
    BY <1>6, <2>1 DEF TableInv, HandlesFit
  <2>. QED
    BY <2>2 DEF HandlesFit, Fits, Stored
<1>8. GuardsExclude'
  <2>1. ASSUME NEW u \in Threads, NEW n \in Slots, ~(u = w /\ n = i)
        PROVE  Compatible(o, g, u, held[u][n]) /\ Compatible(u, held[u][n], o, g)
    <3>1. Compatible(w, held[w][i], u, held[u][n])
      BY <2>1 DEF TableInv, GuardsExclude
    <3>. QED
      BY <1>3, <3>1 DEF Compatible, SharingKinds, ExclusiveKinds, EntryKinds, s
  <2>2. \A u \in Threads, n \in Slots :
          Compatible(w, NoHandle, u, held'[u][n]) /\ Compatible(u, held'[u][n], w, NoHandle)
    BY <1>4 DEF Compatible
  <2>3. /\ \A u \in Threads, n \in Slots :
             ~(u = w /\ n = i) /\ ~(u = o /\ n = j) => held'[u][n] = held[u][n]
        /\ held'[w][i] = NoHandle /\ held'[o][j] = g
    BY <1>6
  <2>4. ASSUME NEW u1 \in Threads, NEW u2 \in Threads, NEW n1 \in Slots,
               NEW n2 \in Slots, u1 # u2 \/ n1 # n2
        PROVE  Compatible(u1, held'[u1][n1], u2, held'[u2][n2])
    <3>1. CASE (u1 = w /\ n1 = i) \/ (u2 = w /\ n2 = i)
      BY <2>2, <2>3, <2>4, <3>1
    <3>2. CASE u1 = o /\ n1 = j /\ ~(u2 = w /\ n2 = i)
      <4>1. held'[u1][n1] = g /\ held'[u2][n2] = held[u2][n2]
        BY <2>3, <2>4, <3>2
      <4>. QED
        BY <2>1, <3>2, <4>1
    <3>3. CASE u2 = o /\ n2 = j /\ ~(u1 = w /\ n1 = i)
      <4>1. held'[u2][n2] = g /\ held'[u1][n1] = held[u1][n1]
        BY <2>3, <2>4, <3>3
      <4>. QED
        BY <2>1, <3>3, <4>1
    <3>4. CASE ~(u1 = w /\ n1 = i) /\ ~(u2 = w /\ n2 = i)
               /\ ~(u1 = o /\ n1 = j) /\ ~(u2 = o /\ n2 = j)
      BY <2>3, <2>4, <3>4 DEF TableInv, GuardsExclude
    <3>. QED
      BY <3>1, <3>2, <3>3, <3>4
  <2>. QED
    BY <2>4 DEF GuardsExclude, Compatible
<1>9. TableInv'
  BY <1>6, <1>7, <1>8 DEF TableInv, TableTypeOK, Placed
<1>. QED
  BY <1>3, <1>6, <1>9 DEF s

LEMMA Collects ==
  ASSUME PInv, NEW w \in Workers, Collect(w)
  PROVE  PInv'
<1>. DEFINE o == Owner(w)
            s == AtShard(w)
            i == Item(w)
<1>1. /\ call[w].op = "par_closure" /\ call[w].op \in PoolStages
      /\ call[o].op = "par_collect"
  BY DEF Collect, In, PoolStages
<1>2. /\ w \in Threads /\ o \in Threads \ Workers /\ call[o].op \in ParOps /\ w # o
      /\ duty[w].left \subseteq TasksOf(call[o].op) /\ s \in Shards /\ s = call[w].shard
      /\ call[o].op \in Iterations
  BY <1>1, AtWork
<1>3. /\ i \in Slots \ {1} /\ held[w][i].kind = "RefMulti" /\ held[w][i].shard = s
      /\ \A n \in Slots \ {1, i} : held[w][n] = NoHandle
      /\ held[w][1].kind = IterKind(call[o].op) /\ held[w][1].shard = s
  BY <1>1, <1>2, ItemIsThere DEF HasItem, ItemKind, MutIterations
<1>4. s + 1 \in Slots /\ s \in Int
  BY <1>2, PoolSlots, ShardAssumption DEF Shards
<1>5. CallerFits(call[o], held[o])
  BY <1>2 DEF PInv, PoolInv, CallersFit
<1>6. held[o][s + 1] # NoHandle =>
        held[o][s + 1].kind = "RefMulti" /\ held[o][s + 1].shard = s
  BY <1>1, <1>2, <1>4, <1>5 DEF CallerFits
<1>7. held' = [held EXCEPT
        ![w][i] = NoHandle,
        ![o][s + 1] = Handle("RefMulti", s, @.keys \cup held[w][i].keys)]
  BY DEF Collect, ItemKeys
<1>8. UNCHANGED <<shards, holes, aborted, calls, job, duty>> /\ TableInv
  BY DEF Collect, PInv, IInv
<1>9. PICK c \in CallRecords :
        Continue(w, c) /\ c.op = "par_items" /\ c.shard = s /\ CallFits(c, held'[w])
  BY <1>1, NextStage DEF Collect, PoolStages
<1>. HIDE DEF o, s, i
<1>10. /\ TableInv'
       /\ held'[w][i] = NoHandle /\ \A n \in Slots \ {i} : held'[w][n] = held[w][n]
       /\ held'[o][s + 1].kind = "RefMulti" /\ held'[o][s + 1].shard = s
       /\ \A n \in Slots \ {s + 1} : held'[o][n] = held[o][n]
       /\ \A u \in Threads \ {w, o} : held'[u] = held[u]
  <2>. DEFINE j == s + 1
  <2>. j \in Slots
    BY <1>4
  <2>1. GivesTo(w, i, o, j)
    BY <1>3, <1>7 DEF GivesTo
  <2>2. held[o][j] # NoHandle =>
          held[o][j].kind = "RefMulti" /\ held[o][j].shard = held[w][i].shard
    BY <1>3, <1>6
  <2>3. held[w][i].shard \in Shards /\ o \in Threads
    BY <1>2, <1>3
  <2>. HIDE DEF j
  <2>4. /\ TableInv'
        /\ held'[w][i] = NoHandle /\ \A n \in Slots \ {i} : held'[w][n] = held[w][n]
        /\ held'[o][j].kind = "RefMulti" /\ held'[o][j].shard = held[w][i].shard
        /\ \A n \in Slots \ {j} : held'[o][n] = held[o][n]
        /\ \A u \in Threads \ {w, o} : held'[u] = held[u]
    BY <1>2, <1>3, <1>8, <2>1, <2>2, <2>3, GivesAway
  <2>. QED
    BY <1>3, <2>4 DEF j
<1>11. /\ call' \in [Threads -> CallRecords] /\ call'[w] = c
       /\ \A u \in Threads \ {w} : call'[u] = call[u]
  BY <1>2, <1>9 DEF Continue, PInv, IInv, RestTypeOK
<1>12. CallsFit'
  <2>1. \A u \in Threads : CallFits(call'[u], held'[u])
    <3>1. CallFits(call'[o], held'[o])
      BY <1>2, <1>11, PoolCallFits
    <3>2. \A u \in Threads \ {w, o} : CallFits(call'[u], held'[u])
      BY <1>10, <1>11 DEF PInv, IInv, CallsFit
    <3>. QED
      BY <1>2, <1>9, <1>11, <3>1, <3>2
  <2>. QED
    BY <2>1 DEF CallsFit, CallFits, HasOne
<1>13. HolesFit'
  <2>1. SUFFICES ASSUME NEW k \in holes
                 PROVE  \E u \in Threads : HasHole(call'[u]) /\ call'[u].key = k
    BY <1>8 DEF HolesFit, HasHole
  <2>2. PICK u \in Threads : HasHole(call[u]) /\ call[u].key = k
    BY DEF PInv, IInv, HolesFit
  <2>3. u # w
    BY <1>1, <2>2, PoolCallFits
  <2>. QED
    BY <1>11, <2>2, <2>3
<1>14. IInv'
  BY <1>8, <1>10, <1>11, <1>12, <1>13 DEF PInv, IInv, RestTypeOK
<1>15. CallerFits(call[o], held'[o])
  <2>1. ASSUME NEW n \in Slots, held'[o][n] # NoHandle
        PROVE  held'[o][n].kind = "RefMulti" /\ held'[o][n].shard = n - 1
    <3>1. CASE n = s + 1
      BY <1>4, <1>10, <3>1
    <3>2. CASE n # s + 1
      BY <1>1, <1>2, <1>5, <1>10, <2>1, <3>2 DEF CallerFits
    <3>. QED
      BY <3>1, <3>2
  <2>. QED
    BY <1>1, <1>5, <2>1 DEF CallerFits
<1>16. WorkerFits(c, held'[w], call[o].op)
  <2>1. held'[w][1] = held[w][1] /\ \A n \in Slots \ {1} : held'[w][n] = NoHandle
    BY <1>3, <1>10, PoolSlots
  <2>. QED
    BY <1>2, <1>3, <1>9, <2>1 DEF WorkerFits, PoolStages
<1>17. PoolTypeOK' /\ duty'[w].owner = o
  BY <1>8 DEF PInv, PoolInv, PoolTypeOK, o, Owner
<1>18. PoolInv'
  BY <1>1, <1>2, <1>8, <1>10, <1>11, <1>15, <1>16, <1>17, WorkerMoves
<1>. QED
  BY <1>14, <1>18 DEF PInv

-----------------------------------------------------------------------------
(* A parallel call returns *)

\* Nobody has anything when a map that is consumed goes.
LEMMA NobodyHas ==
  ASSUME PInv, NEW t \in Threads \ Workers, call[t].op = "into_par_iter",
         \A w \in Workers : Busy(w) => Owner(w) # t
  PROVE  \A u \in Threads : Empty(held[u])
<1>1. \A u \in Threads \ Workers : u # t => call[u] = Idle /\ Empty(held[u])
  BY DEF PInv, PoolInv, AloneFits, AloneOps
<1>2. ASSUME NEW w \in Workers  PROVE Empty(held[w])
  <2>1. Busy(w) => call[Owner(w)] = Idle /\ call[Owner(w)].op \in ParOps
    BY <1>1, WorkerThread
  <2>2. ~Busy(w)
    BY <2>1, IdleFits DEF ParOps, Iterations, MutIterations
  <2>. QED
    BY <2>2, WorkerThread, IdleFits DEF Busy, WorkerFits
<1>3. Empty(held[t])
  BY DEF PInv, PoolInv, CallersFit, CallerFits, ParOps, Iterations, MutIterations, Empty
<1>. QED
  BY <1>1, <1>2, <1>3

LEMMA ReturnKeepsTable ==
  ASSUME PInv, NEW t \in Threads \ Workers, ParReturn(t)
  PROVE  TableInv' /\ Own(t)
<1>1. /\ \A w \in Workers : Busy(w) => Owner(w) # t
      /\ UNCHANGED held \/ held' = [held EXCEPT ![t] = [i \in Slots |-> NoHandle]]
      /\ shards' = IF call[t].op = "into_par_iter"
                   THEN [s \in Shards |-> [k \in Keys |-> None]] ELSE shards
  BY DEF ParReturn, In
<1>2. CASE call[t].op = "into_par_iter"
  <2>1. /\ NoHandle \in Handles /\ NoHandle.shard = -1 /\ NoHandle.keys = {}
        /\ NoHandle.kind = "none"
    BY ShardAssumption DEF NoHandle, Handle, Handles
  <2>2. \A u \in Threads, i \in Slots : held[u][i] = NoHandle
    BY <1>1, <1>2, NobodyHas DEF Empty
  <2>3. /\ held' \in [Threads -> [Slots -> Handles]]
        /\ \A u \in Threads, i \in Slots : held'[u][i] = NoHandle
        /\ \A u \in Threads \ {t} : held'[u] = held[u]
    BY <1>1, <2>1, <2>2 DEF PInv, IInv, TableInv, TableTypeOK
  <2>4. /\ shards' \in ShardTables
        /\ \A s \in Shards, k \in Keys : shards'[s][k] = None
    BY <1>1, <1>2 DEF ShardTables
  <2>5. HandlesFit' /\ GuardsExclude'
    BY <2>1, <2>3 DEF HandlesFit, Fits, GuardsExclude, Compatible
  <2>. QED
    BY <2>3, <2>4, <2>5 DEF TableInv, TableTypeOK, Placed, Own
<1>3. CASE call[t].op # "into_par_iter"
  <2>1. UNCHANGED shards /\ TableInv
    BY <1>1, <1>3 DEF PInv, IInv
  <2>2. /\ shards' \in ShardTables /\ Placed'
        /\ \A u \in Threads, j \in Slots : \A k \in held[u][j].keys :
             Stored(k)' # None <=> Stored(k) # None
    BY <2>1 DEF TableInv, TableTypeOK, Placed, Stored
  <2>. QED
    BY <1>1, <2>1, <2>2, NothingChanges, EmptyOut
<1>. QED
  BY <1>2, <1>3

LEMMA Returns ==
  ASSUME PInv, NEW t \in Threads, ParReturn(t)
  PROVE  PInv'
<1>1. call[t].op \in ParOps /\ \A w \in Workers : Busy(w) => Owner(w) # t
  BY DEF ParReturn
<1>2. t \notin Workers
  BY <1>1, WorkerThread DEF WorkerFits, PoolStages, ParOps, Iterations, MutIterations
<1>3. PICK c \in CallRecords : Continue(t, c) /\ c.op \in {"idle", "return"}
  <2>1. CASE Finish(t)
    BY <2>1, IdleFits DEF Finish
  <2>2. CASE FinishWith(t, None)
    <3>. None \in Values \cup {None}
      OBVIOUS
    <3>. QED
      BY <2>2, ReturnRecord DEF FinishWith
  <2>. QED
    BY <2>1, <2>2 DEF ParReturn
<1>4. GoesOnAs(t, c) /\ CallFits(c, held'[t]) /\ ~HasHole(call[t])
  BY <1>1, <1>3, FreeFits, PoolCallFits
     DEF GoesOnAs, FreeOps, Traversals, ReadTraversals, Serializing
<1>5. TableInv' /\ Own(t)
  BY <1>2, ReturnKeepsTable
<1>6. IInv'
  BY <1>3, <1>4, <1>5, PlainStep DEF PInv, IInv, RestTypeOK, ParReturn
<1>7. /\ call'[t] = c /\ \A u \in Threads \ {t} : call'[u] = call[u]
      /\ \A u \in Threads \ {t} : held'[u] = held[u]
  BY <1>3, <1>5 DEF Continue, Own, PInv, IInv, RestTypeOK
<1>8. /\ PoolTypeOK' /\ job'[t].todo = {}
      /\ \A u \in Threads \ {t} : job'[u] = job[u]
  BY DEF ParReturn, NoJob, PInv, PoolInv, PoolTypeOK
<1>9. c.op \notin ParOps \cup PoolStages
  BY <1>3 DEF ParOps, Iterations, MutIterations, PoolStages
<1>10. CallerFits(call'[t], held'[t])
  BY <1>7, <1>9 DEF CallerFits
<1>11. AloneFits'
  <2>1. SUFFICES ASSUME NEW u \in Threads \ Workers, call'[u].op \in AloneOps  PROVE FALSE
    BY DEF AloneFits
  <2>2. u # t /\ call[u].op \in AloneOps
    BY <1>7, <1>9, <2>1 DEF AloneOps, ParOps, Iterations, MutIterations
  <2>3. call[t] = Idle
    BY <1>2, <2>2 DEF PInv, PoolInv, AloneFits
  <2>. QED
    BY <1>1, <2>3, IdleFits DEF ParOps, Iterations, MutIterations
<1>12. UNCHANGED <<calls, duty>>
  BY DEF ParReturn
<1>13. PoolInv'
  BY <1>1, <1>2, <1>7, <1>8, <1>9, <1>10, <1>11, <1>12, CallerMoves
<1>. QED
  BY <1>6, <1>13 DEF PInv

-----------------------------------------------------------------------------
(* The invariant, and what it says of handles *)

LEMMA PoolSteps ==
  ASSUME PInv, NEW t \in Threads, ParStep(t)
  PROVE  PInv'
<1>1. CASE Step(t) /\ UNCHANGED <<job, duty>>
  BY <1>1, MapStepInPool
<1>2. CASE BeginIteration(t) \/ BeginExtend(t)
  BY <1>2, Beginnings
<1>3. CASE BeginOwning(t) \/ BeginView(t)
  BY <1>3, AloneBegins
<1>4. CASE ParReturn(t)
  BY <1>4, Returns
<1>5. ASSUME t \in Workers, Take(t) \/ TakeNext(t) \/ LockShard(t) \/ GiveItem(t) \/ ForEach(t)
                            \/ Collect(t) \/ ParClosurePanics(t) \/ EndShard(t)
      PROVE  PInv'
  BY <1>5, Takes, LocksShard, GivesItem, GoesOnWithItems, Collects, ClosurePanicsInPool,
     EndsShard
<1>. QED
  BY <1>1, <1>2, <1>3, <1>4, <1>5 DEF ParStep, ParProceed

LEMMA PInvariance == PSpec => []PInv
<1>1. PInv /\ [PNext]_pvars => PInv'
  <2>. SUFFICES ASSUME PInv, [PNext]_pvars PROVE PInv'
    OBVIOUS
  <2>1. CASE UNCHANGED <<vars, job, duty>>
    BY <2>1, StutterPool
  <2>2. ASSUME NEW t \in Threads, ParStep(t)  PROVE PInv'
    BY <2>2, PoolSteps
  <2>. QED
    BY <2>1, <2>2 DEF PNext, Terminating, pvars
<1>. QED
  BY InitPool, <1>1, PTL DEF PSpec

\* What a handle refers to stays where it is also when workers iterate over the shards,
\* closures change or take the elements, and references are collected across threads
\* (rayon/map.rs: the Arc of the guard goes with each).
THEOREM RefsStayValidInPoolHolds == PSpec => []RefsStayValid
<1>1. PInv => RefsStayValid
  BY DEF PInv, IInv, TableInv, HandlesFit, Fits, RefsStayValid
<1>. QED
  BY <1>1, PInvariance, PTL

\* However the pool splits a parallel iteration, no two threads have access to an element
\* that one of them may change: not two workers of the same iteration, which share the
\* guard of no shard, and not a worker and a caller.
THEOREM AliasingInPoolHolds == PSpec => []AliasingXorMutability
<1>1. PInv => AliasingXorMutability
  BY HandlesAreApart DEF PInv, IInv, AliasingXorMutability
<1>. QED
  BY <1>1, PInvariance, PTL

-----------------------------------------------------------------------------
(* Waiting in a circle.  The callers wait as they do without the pool: what *)
(* they have when they come to wait for a shard is what ClashMap_proofs     *)
(* says.                                                                    *)

PoolPatient == \A t \in Threads \ Workers : IsPatient(t)

LEMMA StaysPatient ==
  ASSUME NEW t \in Threads, IsPatient(t), call'[t] = call[t], held'[t] = held[t]
  PROVE  IsPatient(t)'
<1>1. Patient(call'[t], held'[t]) /\ IterMutsOf(t, held'[t])
  BY DEF IsPatient
<1>. QED
  BY <1>1 DEF IsPatient, Patient, AltersAll, HoldsNothing, OnlyShares, AllShared, YieldedBy,
     IterMutsOf, MayIterMut

LEMMA BecomesPatient ==
  ASSUME NEW t \in Threads, NeverWaits(call'[t]), IterMutsOf(t, held'[t])
  PROVE  IsPatient(t)'
<1>1. Patient(call'[t], held'[t]) /\ IterMutsOf(t, held'[t])
  BY NoWait
<1>. QED
  BY <1>1 DEF IsPatient, Patient, AltersAll, HoldsNothing, OnlyShares, AllShared, YieldedBy,
     IterMutsOf, MayIterMut

\* A caller that waits for the pool waits for no shard.
LEMMA InParPatient ==
  ASSUME PInv', NEW t \in Threads \ Workers, call'[t].op \in ParOps
  PROVE  IsPatient(t)'
<1>1. \A i \in Slots : held'[t][i] # NoHandle => held'[t][i].kind = "RefMulti"
  BY DEF PInv, PoolInv, CallersFit, CallerFits
<1>2. IterMutsOf(t, held'[t])
  BY <1>1 DEF IterMutsOf, NoHandle, Handle
<1>3. NeverWaits(call'[t])
  BY DEF NeverWaits, ParOps, Iterations, MutIterations, KeyOps, Traversals, ReadTraversals,
     Serializing
<1>. QED
  BY <1>2, <1>3, BecomesPatient

\* What a worker does leaves a caller where it was, or in a call that waits for the pool.
LEMMA WorkerIsPatient ==
  ASSUME PInv, PInv', PoolPatient, NEW w \in Workers,
         Take(w) \/ TakeNext(w) \/ LockShard(w) \/ GiveItem(w) \/ ForEach(w)
         \/ Collect(w) \/ ParClosurePanics(w) \/ EndShard(w)
  PROVE  PoolPatient'
<1>1. SUFFICES ASSUME NEW t \in Threads \ Workers  PROVE IsPatient(t)'
  BY DEF PoolPatient
<1>2. w \in Threads /\ w # t
  BY WorkersAssumption
<1>3. PICK c : Continue(w, c)
  BY DEF Take, TakeNext, Start, LockShard, GiveItem, ForEach, Collect, ParClosurePanics,
     EndShard, Become, Finish
<1>4. call'[t] = call[t]
  BY <1>2, <1>3 DEF Continue, PInv, IInv, RestTypeOK
<1>5. CASE t = Owner(w) /\ call[t].op \in ParOps
  BY <1>4, <1>5, InParPatient
<1>6. ASSUME ~(t = Owner(w) /\ call[t].op \in ParOps)
      PROVE  held'[t] = held[t]
  <2>1. CASE Take(w) \/ TakeNext(w)
    BY <2>1 DEF Take, TakeNext
  <2>2. CASE LockShard(w) \/ GiveItem(w) \/ ForEach(w) \/ ParClosurePanics(w) \/ EndShard(w)
    BY <1>2, <2>2 DEF LockShard, GiveItem, Yield, ForEach, ParClosurePanics, EndShard, DropHandle,
       PutHandle, PInv, IInv, TableInv, TableTypeOK
  <2>3. CASE Collect(w)
    <3>1. call[w].op \in PoolStages
      BY <2>3 DEF Collect, In, PoolStages
    <3>2. t # Owner(w)
      BY <1>6, <3>1, AtWork
    <3>. QED
      BY <1>2, <2>3, <3>2 DEF Collect, PInv, IInv, TableInv, TableTypeOK
  <2>. QED
    BY <2>1, <2>2, <2>3
<1>. QED
  BY <1>4, <1>5, <1>6, StaysPatient DEF PoolPatient

LEMMA PoolStepPatient ==
  ASSUME PInv, PInv', PoolPatient, NEW t \in Threads, ParStep(t)
  PROVE  PoolPatient'
<1>1. CASE Step(t)
  <2>1. \A u \in Threads \ {t} : call'[u] = call[u] /\ held'[u] = held[u]
    BY <1>1, StepIsOwn DEF PInv
  <2>2. ASSUME NEW u \in Threads \ Workers  PROVE IsPatient(u)'
    <3>1. CASE u = t
      BY <1>1, <3>1, StepPatient DEF PoolPatient, PInv
    <3>2. CASE u # t
      BY <2>1, <3>2, StaysPatient DEF PoolPatient
    <3>. QED
      BY <3>1, <3>2
  <2>. QED
    BY <2>2 DEF PoolPatient
<1>2. ASSUME t \notin Workers, \A u \in Threads \ {t} : call'[u] = call[u] /\ held'[u] = held[u],
             IsPatient(t)'
      PROVE  PoolPatient'
  BY <1>2, StaysPatient DEF PoolPatient
<1>3. CASE BeginIteration(t) \/ BeginExtend(t) \/ BeginOwning(t) \/ BeginView(t)
  <2>1. PICK op \in ParOps : \E i : Continue(t, Call(op, None, i))
    BY <1>3 DEF BeginIteration, BeginExtend, BeginOwning, BeginView, BeginAlone, Begin, BeginAs,
       ParOps, Iterations, MutIterations
  <2>2. calls[t] > 0 /\ UNCHANGED held
    BY <1>3 DEF BeginIteration, BeginExtend, BeginOwning, BeginView, BeginAlone, Begin, BeginAs
  <2>3. t \notin Workers
    BY <2>2, MayCall
  <2>4. /\ call'[t].op \in ParOps
        /\ \A u \in Threads \ {t} : call'[u] = call[u] /\ held'[u] = held[u]
    BY <2>1, <2>2 DEF Continue, Call, PInv, IInv, RestTypeOK
  <2>. QED
    BY <1>2, <2>3, <2>4, InParPatient
<1>4. CASE ParReturn(t)
  <2>1. call[t].op \in ParOps
    BY <1>4 DEF ParReturn
  <2>2. t \notin Workers
    BY <2>1, WorkerThread DEF WorkerFits, PoolStages, ParOps, Iterations, MutIterations
  <2>3. PICK c : Continue(t, c) /\ NeverWaits(c)
    BY <1>4, NoWaitYet DEF ParReturn, Finish, FinishWith
  <2>4. call'[t] = c /\ \A u \in Threads \ {t} : call'[u] = call[u]
    BY <2>3 DEF Continue, PInv, IInv, RestTypeOK
  <2>5. /\ \A u \in Threads \ {t} : held'[u] = held[u]
        /\ \A i \in Slots : held'[t][i] = held[t][i] \/ held'[t][i] = NoHandle
    BY <1>4 DEF ParReturn, PInv, IInv, TableInv, TableTypeOK
  <2>6. IterMutsOf(t, held[t]) /\ NoHandle.kind = "none"
    BY <2>2 DEF PoolPatient, IsPatient, NoHandle, Handle
  <2>7. IterMutsOf(t, held'[t])
    BY <2>5, <2>6 DEF IterMutsOf
  <2>8. IsPatient(t)'
    BY <2>3, <2>4, <2>7, BecomesPatient
  <2>. QED
    BY <1>2, <2>2, <2>4, <2>5, <2>8
<1>5. ASSUME t \in Workers, Take(t) \/ TakeNext(t) \/ LockShard(t) \/ GiveItem(t) \/ ForEach(t)
                            \/ Collect(t) \/ ParClosurePanics(t) \/ EndShard(t)
      PROVE  PoolPatient'
  BY <1>5, WorkerIsPatient
<1>. QED
  BY <1>1, <1>3, <1>4, <1>5 DEF ParStep, ParProceed

LEMMA PatienceInPool == PSpec => [](PInv /\ PoolPatient)
<1>1. PInit => PoolPatient
  BY InitPatient DEF PInit, PoolPatient, CallersPatient
<1>2. PInv /\ PInv' /\ PoolPatient /\ [PNext]_pvars => PoolPatient'
  <2>. SUFFICES ASSUME PInv, PInv', PoolPatient, [PNext]_pvars  PROVE PoolPatient'
    OBVIOUS
  <2>1. CASE UNCHANGED <<call, held>>
    BY <2>1, StaysPatient DEF PoolPatient
  <2>2. ASSUME NEW t \in Threads, ParStep(t)  PROVE PoolPatient'
    BY <2>2, PoolStepPatient
  <2>. QED
    BY <2>1, <2>2 DEF PNext, Terminating, pvars, vars
<1>. QED
  BY <1>1, <1>2, PInvariance, PTL DEF PSpec

-----------------------------------------------------------------------------
(* Why nobody waits in a circle in the pool *)

\* Threads that collect references keep the shards that they have got while they wait for
\* the pool.  That goes together neither with threads that go from shard to shard with an
\* exclusive lock nor with tasks that wait for one, which may keep all workers from the
\* tasks of the collection.
NobodyCalls(ops) == \A t \in Threads : Ops[t] \cap ops = {}
PoolDeadlockFree ==
  \/ ~NestedReads /\ NobodyCalls({"par_collect"})
  \/ /\ NobodyCalls({"iter_mut", "alter_all"})
     /\ NobodyCalls({"par_collect"}) \/ NobodyCalls({"par_extend", "par_iter_mut"})

\* The shard that a thread waits for, workers included.
WantedInPool(t) == IF In(t, "par_shard") THEN AtShard(t) ELSE Wanted(t)
WritesInPool(t) == IF In(t, "par_shard") THEN Exclusive(t) ELSE WantsWrite(t)
WaitsForShard(t, u) ==
  /\ WantedInPool(t) \in Shards
  /\ \E i \in Slots :
       /\ held[u][i].shard = WantedInPool(t)
       /\ WritesInPool(t) \/ held[u][i].kind \in ExclusiveKinds

\* Threads that all wait for each other, or for all of the workers.
Stuck(G) == \A t \in G : t \in Threads /\ WaitsInGroup(t, G)

\* Of the workers only those wait that are about to lock a shard, and they have nothing.
LEMMA WorkerWaits ==
  ASSUME PInv, NEW w \in Workers, NEW G, WaitsInGroup(w, G)
  PROVE  /\ call[w].op \in {"insert", "par_shard"} /\ Empty(held[w])
         /\ \E u \in G : WaitsForShard(w, u)
<1>1. w \in Threads /\ WorkerFits(call[w], held[w], call[Owner(w)].op)
  BY WorkerThread
<1>2. /\ call[w] \in CallRecords /\ call[w].shard \in Shards
      /\ CallFits(call[w], held[w])
  BY <1>1, CallFields DEF PInv, IInv, CallsFit
<1>3. call[w].op \notin ParOps /\ job[w].todo = {}
  BY <1>1 DEF WorkerFits, PoolStages, ParOps, Iterations, MutIterations, PInv, PoolInv, JobsFit
<1>4. PICK u \in G : WaitsInPool(w, u) /\ (WaitsFor(w, u) \/ In(w, "par_shard"))
  BY <1>3 DEF WaitsInGroup, WaitsInPool
<1>5. CASE In(w, "par_shard")
  <2>1. Wanted(w) = -1
    BY <1>5 DEF In, Wanted, AtFirstLock, GoesOver, IterLocks, KeyOps, Traversals,
       ReadTraversals, Serializing
  <2>2. WaitsForShard(w, u)
    BY <1>2, <1>3, <1>4, <1>5, <2>1
       DEF WaitsInPool, WaitsFor, WaitsForShard, WantedInPool, WritesInPool, AtShard
  <2>. QED
    BY <1>1, <1>5, <2>2 DEF In, WorkerFits
<1>6. CASE ~In(w, "par_shard")
  <2>1. WaitsFor(w, u) /\ Wanted(w) # -1
    BY <1>4, <1>6 DEF WaitsFor
  <2>2. call[w].op = "insert"
    BY <1>1, <2>1 DEF Wanted, AtFirstLock, GoesOver, IterLocks, In, KeyOps, Traversals,
       ReadTraversals, Serializing, WorkerFits, PoolStages
  <2>3. Wanted(w) \in Shards
    BY <1>2, <2>2, HomeOfKey DEF Wanted, AtFirstLock, KeyOps, Key, CallFits
  <2>4. WaitsForShard(w, u)
    BY <1>6, <2>1, <2>3 DEF WaitsFor, WaitsForShard, WantedInPool, WritesInPool
  <2>. QED
    BY <1>1, <2>2, <2>4 DEF WorkerFits
<1>. QED
  BY <1>5, <1>6

LEMMA CallerWaits ==
  ASSUME PInv, PoolPatient, NEW t \in Threads \ Workers, NEW G, WaitsInGroup(t, G)
  PROVE  \/ call[t].op \in ParOps /\ \E w \in Workers : w \in G
         \/ /\ Wanted(t) \in Shards /\ Wanted(t) = WantedInPool(t)
            /\ WantsWrite(t) = WritesInPool(t)
            /\ \E u \in G : WaitsForShard(t, u)
<1>1. call[t].op \notin PoolStages /\ ~In(t, "par_shard")
  BY DEF PInv, PoolInv, CallersFit, CallerFits, PoolStages, In
<1>2. CASE job[t].todo # {} /\ Workers \subseteq G
  BY <1>2, WorkersAssumption DEF PInv, PoolInv, JobsFit
<1>3. CASE \E u \in G : WaitsInPool(t, u)
  <2>1. PICK u \in G : WaitsInPool(t, u)
    BY <1>3
  <2>2. CASE call[t].op \in ParOps /\ u \in Workers
    BY <2>2
  <2>3. CASE ~(call[t].op \in ParOps /\ u \in Workers)
    <3>1. WaitsFor(t, u) /\ Wanted(t) # -1
      BY <1>1, <2>1, <2>3 DEF WaitsInPool, WaitsFor
    <3>2. Wanted(t) \in Shards
      BY <3>1, WaiterHolds DEF PInv, PoolPatient
    <3>3. WaitsForShard(t, u)
      BY <1>1, <3>1, <3>2 DEF WaitsFor, WaitsForShard, WantedInPool, WritesInPool
    <3>. QED
      BY <1>1, <3>2, <3>3 DEF WantedInPool, WritesInPool
  <2>. QED
    BY <2>2, <2>3
<1>. QED
  BY <1>2, <1>3 DEF WaitsInGroup

\* Who has a shard and waits is a caller: one that collects and waits for the pool, or one
\* that waits for a shard itself.
LEMMA StuckHolder ==
  ASSUME PInv, PoolPatient, NEW G, Stuck(G), NEW u \in G, NEW i \in Slots,
         held[u][i].shard # -1
  PROVE  /\ u \in Threads \ Workers
         /\ \/ /\ call[u].op = "par_collect" /\ AllShared(held[u])
               /\ \E w \in Workers : w \in G
            \/ /\ Wanted(u) \in Shards /\ Wanted(u) = WantedInPool(u)
               /\ WantsWrite(u) = WritesInPool(u)
               /\ \E v \in G : WaitsForShard(u, v)
<1>1. u \in Threads /\ WaitsInGroup(u, G)
  BY DEF Stuck
<1>2. NoHandle.shard = -1
  BY DEF NoHandle, Handle
<1>3. u \notin Workers
  BY <1>1, <1>2, WorkerWaits DEF Empty
<1>4. CASE call[u].op \in ParOps /\ \E w \in Workers : w \in G
  <2>1. \A j \in Slots : held[u][j] # NoHandle =>
          call[u].op = "par_collect" /\ held[u][j].kind = "RefMulti"
    BY <1>1, <1>3, <1>4 DEF PInv, PoolInv, CallersFit, CallerFits
  <2>2. call[u].op = "par_collect"
    BY <1>2, <2>1
  <2>3. AllShared(held[u])
    BY <1>2, <2>1 DEF AllShared, SharedKinds
  <2>. QED
    BY <1>1, <1>3, <1>4, <2>2, <2>3
<1>. QED
  BY <1>1, <1>3, <1>4, CallerWaits

LEMMA SomeShardIsWanted ==
  ASSUME PInv, PoolPatient, NEW G, Stuck(G), NEW t \in G
  PROVE  \E a \in G : \E b \in G : WaitsForShard(a, b)
<1>1. \A a \in G : a \in Threads /\ WaitsInGroup(a, G)
  BY DEF Stuck
<1>2. \A w \in Workers : w \in G => \E b \in G : WaitsForShard(w, b)
  BY <1>1, WorkerWaits
<1>3. t \notin Workers => \/ \E w \in Workers : w \in G
                          \/ \E b \in G : WaitsForShard(t, b)
  BY <1>1, CallerWaits
<1>. QED
  BY <1>2, <1>3

\* Reads do not nest and nobody collects: who has a shard wants one after it, and the last
\* shard that is wanted has a holder that does not wait.
LEMMA NoneStuckInOrder ==
  ASSUME PInv, PoolPatient, ~NestedReads, NobodyCalls({"par_collect"}),
         NEW G, Stuck(G), NEW t0 \in G
  PROVE  FALSE
<1>. DEFINE S == {t \in G : \E u \in G : WaitsForShard(t, u)}
            f == [t \in S |-> WantedInPool(t)]
<1>1. S # {} /\ f \in [S -> Shards] /\ \A t \in S : f[t] = WantedInPool(t)
  BY SomeShardIsWanted DEF WaitsForShard
<1>. HIDE DEF f
<1>2. PICK t \in S : \A u \in S : f[u] <= f[t]
  <2>. HIDE DEF S
  <2>. QED
    BY <1>1, LastWaiter
<1>3. PICK u \in G : WaitsForShard(t, u)
  OBVIOUS
<1>4. PICK i \in Slots : held[u][i].shard = WantedInPool(t) /\ WantedInPool(t) \in Shards
  BY <1>3 DEF WaitsForShard
<1>5. held[u][i].shard # -1
  BY <1>4, ShardAssumption DEF Shards
<1>6. u \in Threads \ Workers /\ call[u].op # "par_collect"
  <2>1. u \in Threads \ Workers
    BY <1>5, StuckHolder
  <2>. QED
    BY <2>1 DEF PInv, PoolInv, OpsFit, ParOps, Iterations, NobodyCalls
<1>7. /\ Wanted(u) \in Shards /\ Wanted(u) = WantedInPool(u)
      /\ \E v \in G : WaitsForShard(u, v)
  BY <1>5, <1>6, StuckHolder
<1>8. held[u][i].shard < Wanted(u)
  <2>1. Wanted(u) # -1
    BY <1>7, ShardAssumption DEF Shards
  <2>. QED
    BY <1>6, <2>1, WaiterHolds DEF PInv, PoolPatient
<1>9. f[u] <= f[t] /\ f[u] = Wanted(u) /\ f[t] = held[u][i].shard
  BY <1>1, <1>2, <1>4, <1>7
<1>. QED
  BY <1>4, <1>7, <1>8, <1>9, ShardAssumption DEF Shards

\* Nobody has an IterMut: who has a shard and waits has only shares, so that who waits for
\* it wants to write; and who collects waits for a worker that wants to read.
LEMMA NoneStuckOnShares ==
  ASSUME PInv, PoolPatient, NobodyCalls({"iter_mut", "alter_all"}),
         NobodyCalls({"par_collect"}) \/ NobodyCalls({"par_extend", "par_iter_mut"}),
         NEW G, Stuck(G), NEW t0 \in G
  PROVE  FALSE
<1>1. \A t \in G : t \in Threads /\ WaitsInGroup(t, G)
  BY DEF Stuck
<1>2. ASSUME NEW u \in G, NEW i \in Slots, held[u][i].shard # -1
      PROVE  /\ u \in Threads \ Workers /\ held[u][i].kind \notin ExclusiveKinds
             /\ \/ /\ call[u].op = "par_collect" /\ \E w \in Workers : w \in G
                \/ /\ ~WritesInPool(u) /\ \E v \in G : WaitsForShard(u, v)
  <2>1. CASE call[u].op = "par_collect" /\ AllShared(held[u]) /\ \E w \in Workers : w \in G
    BY <1>2, <2>1, StuckHolder
       DEF AllShared, SharedKinds, ExclusiveKinds, EntryKinds
  <2>2. CASE /\ Wanted(u) \in Shards /\ WantsWrite(u) = WritesInPool(u)
             /\ \E v \in G : WaitsForShard(u, v)
    <3>1. u \in Threads \ Workers /\ ~MayIterMut(u)
      BY <1>2, StuckHolder DEF NobodyCalls, MayIterMut
    <3>2. Wanted(u) # -1
      BY <2>2, ShardAssumption DEF Shards
    <3>3. HoldsNothing(held[u]) \/ (AllShared(held[u]) /\ ~WantsWrite(u))
      BY <3>1, <3>2, WaiterHolds DEF PInv, PoolPatient
    <3>4. AllShared(held[u]) /\ ~WantsWrite(u)
      BY <1>2, <3>3 DEF HoldsNothing
    <3>. QED
      BY <1>2, <2>2, <3>1, <3>4 DEF AllShared, SharedKinds, ExclusiveKinds, EntryKinds
  <2>. QED
    BY <1>2, <2>1, <2>2, StuckHolder
<1>3. ASSUME NEW t \in G, NEW u \in G, WaitsForShard(t, u)
      PROVE  /\ WritesInPool(t) /\ u \in Threads \ Workers
             /\ call[u].op = "par_collect" /\ \E w \in Workers : w \in G
  <2>1. ASSUME NEW a \in G, NEW b \in G, WaitsForShard(a, b)
        PROVE  WritesInPool(a) /\ \E i \in Slots : held[b][i].shard # -1
    <3>1. PICK i \in Slots : /\ held[b][i].shard = WantedInPool(a) /\ WantedInPool(a) \in Shards
                             /\ WritesInPool(a) \/ held[b][i].kind \in ExclusiveKinds
      BY <2>1 DEF WaitsForShard
    <3>2. held[b][i].shard # -1
      BY <3>1, ShardAssumption DEF Shards
    <3>. QED
      BY <1>2, <3>1, <3>2
  <2>2. WritesInPool(t) /\ \E i \in Slots : held[u][i].shard # -1
    BY <1>3, <2>1
  <2>3. ~(~WritesInPool(u) /\ \E v \in G : WaitsForShard(u, v))
    BY <2>1
  <2>. QED
    BY <1>2, <2>2, <2>3
<1>4. PICK u \in Threads \ Workers, w \in Workers : call[u].op = "par_collect" /\ w \in G
  BY <1>3, SomeShardIsWanted
<1>5. /\ call[w].op \in {"insert", "par_shard"} /\ w \in Threads
      /\ \E v \in G : WaitsForShard(w, v)
  BY <1>1, <1>4, WorkerWaits, WorkersAssumption
<1>6. WritesInPool(w)
  BY <1>3, <1>4, <1>5
<1>7. /\ Owner(w) \in Threads \ Workers /\ call[Owner(w)].op \in ParOps
      /\ WorkerFits(call[w], held[w], call[Owner(w)].op)
  <2>1. Busy(w)
    BY <1>5, IdleFits DEF Busy
  <2>. QED
    BY <2>1, WorkerThread
<1>8. call[Owner(w)].op \in {"par_extend", "par_iter_mut", "into_par_iter"}
  BY <1>5, <1>6, <1>7 DEF WorkerFits, WritesInPool, In, Exclusive, MutIterations
<1>9. /\ call[u].op \in Ops[u] /\ call[Owner(w)].op \in Ops[Owner(w)]
      /\ NobodyCalls({"par_extend", "par_iter_mut"})
  BY <1>4, <1>7 DEF PInv, PoolInv, OpsFit, ParOps, Iterations, NobodyCalls
<1>10. call[Owner(w)].op = "into_par_iter"
  BY <1>7, <1>8, <1>9 DEF NobodyCalls
<1>11. call[u] = Idle
  BY <1>4, <1>7, <1>10 DEF PInv, PoolInv, AloneFits, AloneOps
<1>. QED
  BY <1>4, <1>11, IdleFits

\* No group of callers and workers waits in a circle, for shards, for the workers that
\* have a piece of a job, or for a worker to be free: with par_iter, par_iter_mut, par_extend
\* and the calls of the map, for any number of workers (rayon/map.rs, rayon/set.rs).
THEOREM NoCircularWaitInPoolHolds ==
  ASSUME PoolDeadlockFree
  PROVE  PSpec => []NoCircularWaitInPool
<1>1. PInv /\ PoolPatient => NoCircularWaitInPool
  <2>. SUFFICES ASSUME PInv, PoolPatient,
                       NEW group \in (SUBSET Threads) \ {{}},
                       \A t \in group : WaitsInGroup(t, group)
                PROVE  FALSE
    BY DEF NoCircularWaitInPool
  <2>1. Stuck(group)
    BY DEF Stuck
  <2>2. PICK t \in group : TRUE
    OBVIOUS
  <2>. QED
    BY <2>1, <2>2, NoneStuckInOrder, NoneStuckOnShares DEF PoolDeadlockFree
<1>. QED
  BY <1>1, PatienceInPool, PTL

-----------------------------------------------------------------------------
(* What a parallel iteration visits *)

\* The worker w has still to come to shard s for the call of t.
Comes(w, t, s) ==
  Owner(w) = t /\ (s \in duty[w].left \/ (In(w, "par_shard") /\ AtShard(w) = s))
Visits(w, t, k) ==
  /\ Owner(w) = t /\ call[w].op \in {"par_items", "par_closure"}
  /\ k \in held[w][1].keys

Waits(t, s) == s \in job[t].todo \/ \E w \in Workers : Comes(w, t, s)

\* A key that may yet be given to the consumer of t.
Pending(t, k) == Waits(t, ShardOf[k]) \/ \E w \in Workers : Visits(w, t, k)

\* What the caller has, or is about to get.
Collected(t, k) ==
  \/ \E i \in Slots : k \in held[t][i].keys
  \/ \E w \in Workers : Owner(w) = t /\ In(w, "par_closure") /\ k \in ItemKeys(w)

\* Every task is done by one worker at most, and once.
Tasks(w) == duty[w].left \cup (IF call[w].op \in PoolStages THEN {AtShard(w)} ELSE {})
TasksApart(t) ==
  \A w \in Workers : Owner(w) = t =>
    /\ Tasks(w) \cap job[t].todo = {}
    /\ call[w].op \in PoolStages => AtShard(w) \notin duty[w].left
    /\ \A v \in Workers \ {w} : Owner(v) = t => Tasks(w) \cap Tasks(v) = {}

\* Of a key that may yet be given nothing has been given; one that was there all along is
\* given in the end unless a closure panics, since it stays in the map until its shard is
\* locked; and a collection has what was given.
KeyFits(t, k) ==
  /\ seen[t].given[k] \in {0, 1}
  /\ seen[t].given[k] = 1 => k \in seen[t].ever
  /\ Pending(t, k) => seen[t].given[k] = 0
  /\ k \in seen[t].always =>
       /\ Waits(t, ShardOf[k]) => Stored(k) # None
       /\ Pending(t, k) \/ seen[t].given[k] = 1 \/ job[t].panicked
  /\ In(t, "par_collect") => (seen[t].given[k] = 1 <=> Collected(t, k))

SeenFits(t) == seen[t].always \subseteq Keys /\ \A k \in Keys : KeyFits(t, k)

VisitsOf(t) == call[t].op \in Iterations => TasksApart(t) /\ SeenFits(t)
VisitsFit == \A t \in Threads \ Workers : VisitsOf(t)
VInv == PInv /\ VisitsFit

\* What is recorded of each call goes on with every step.
SeenStep == seen' = [t \in Threads |-> SeenOf(t)]

\* Keys that were there all along can only become fewer, and keys that were there at any
\* time only more.
LEMMA SeenShrinks ==
  ASSUME SeenStep, NEW t \in Threads, call[t].op \in Iterations, call'[t] = call[t]
  PROVE  seen'[t].always \subseteq seen[t].always
<1>1. call[t].op \in ParOps
  BY DEF ParOps
<1>. QED
  BY <1>1 DEF SeenStep, SeenOf

LEMMA SeenGrows ==
  ASSUME PInv', SeenStep, NEW t \in Threads, call[t].op \in Iterations, call'[t] = call[t],
         NEW k \in Keys
  PROVE  /\ k \in seen[t].ever \/ Stored(k)' # None => k \in seen'[t].ever
         /\ k \in seen'[t].always => In(t, "into_par_iter") \/ Stored(k)' # None
         /\ seen'[t].given[k] = seen[t].given[k] + Cardinality({w \in Workers : Gives(w, t, k)})
<1>1. call[t].op \in ParOps
  BY DEF ParOps
<1>2. seen'[t] =
        [always |-> IF In(t, "into_par_iter") THEN seen[t].always
                    ELSE seen[t].always \cap AllKeys',
         ever |-> seen[t].ever \cup AllKeys',
         given |-> [x \in Keys |-> seen[t].given[x]
                                     + Cardinality({w \in Workers : Gives(w, t, x)})]]
  BY <1>1 DEF SeenStep, SeenOf
<1>3. Stored(k)' # None <=> k \in AllKeys'
  <2>1. k \in AllKeys' <=> \E s \in Shards : shards'[s][k] # None
    BY DEF AllKeys, Present
  <2>2. \A s \in Shards : shards'[s][k] # None => ShardOf[k] = s
    BY DEF PInv, IInv, TableInv, Placed
  <2>. QED
    BY <2>1, <2>2, HomeOfKey DEF Stored
<1>. QED
  BY <1>2, <1>3

\* Nothing happens to a key but that it may have been taken out of the map, or lost with
\* a closure that panics.
LEMMA KeyStays ==
  ASSUME PInv', SeenStep, NEW t \in Threads, call[t].op \in Iterations, call'[t] = call[t],
         NEW k \in Keys, KeyFits(t, k),
         \A w \in Workers : ~Gives(w, t, k),
         Waits(t, ShardOf[k])' =>
           Waits(t, ShardOf[k]) /\ (In(t, "into_par_iter") => Stored(k)' = Stored(k)),
         Pending(t, k)' => Pending(t, k),
         Pending(t, k) =>
           Pending(t, k)' \/ job'[t].panicked \/ k \notin seen[t].always,
         job[t].panicked => job'[t].panicked,
         In(t, "par_collect") => (Collected(t, k)' <=> Collected(t, k))
  PROVE  KeyFits(t, k)'
<1>1. seen'[t].given[k] = seen[t].given[k]
  <2>1. {w \in Workers : Gives(w, t, k)} = {}
    OBVIOUS
  <2>2. seen'[t].given[k] = seen[t].given[k] + 0
    BY <2>1, SeenGrows, FS_EmptySet
  <2>. QED
    BY <2>2 DEF KeyFits
<1>2. /\ seen'[t].always \subseteq seen[t].always
      /\ k \in seen[t].ever => k \in seen'[t].ever
      /\ k \in seen'[t].always => In(t, "into_par_iter") \/ Stored(k)' # None
  BY SeenGrows, SeenShrinks
<1>3. In(t, "par_collect")' <=> In(t, "par_collect")
  BY DEF In
<1>. DEFINE W == Waits(t, ShardOf[k])
            P == Pending(t, k)
            C == Collected(t, k)
            S == Stored(k)
<1>. HIDE DEF W, P, C, S
<1>4. KeyFits(t, k) <=>
        /\ seen[t].given[k] \in {0, 1}
        /\ seen[t].given[k] = 1 => k \in seen[t].ever
        /\ P => seen[t].given[k] = 0
        /\ k \in seen[t].always =>
             /\ W => S # None
             /\ P \/ seen[t].given[k] = 1 \/ job[t].panicked
        /\ In(t, "par_collect") => (seen[t].given[k] = 1 <=> C)
  BY DEF KeyFits, W, P, C, S
<1>5. KeyFits(t, k)' <=>
        /\ seen'[t].given[k] \in {0, 1}
        /\ seen'[t].given[k] = 1 => k \in seen'[t].ever
        /\ P' => seen'[t].given[k] = 0
        /\ k \in seen'[t].always =>
             /\ W' => S' # None
             /\ P' \/ seen'[t].given[k] = 1 \/ job'[t].panicked
        /\ In(t, "par_collect")' => (seen'[t].given[k] = 1 <=> C')
  BY DEF KeyFits, W, P, C, S
<1>6. /\ W' => W /\ (In(t, "into_par_iter") => S' = S)
      /\ P' => P
      /\ P => P' \/ job'[t].panicked \/ k \notin seen[t].always
      /\ In(t, "par_collect") => (C' <=> C)
      /\ k \in seen'[t].always => In(t, "into_par_iter") \/ S' # None
  BY <1>2 DEF W, P, C, S
<1>7. k \in seen'[t].always => (W' => S' # None)
  BY <1>2, <1>4, <1>6
<1>8. k \in seen'[t].always => P' \/ seen'[t].given[k] = 1 \/ job'[t].panicked
  BY <1>1, <1>2, <1>4, <1>6
<1>. QED
  BY <1>1, <1>2, <1>3, <1>4, <1>5, <1>6, <1>7, <1>8

\* A worker stays at its task, or ends it, or gives up what was to follow.
KeepsTo(w, t) ==
  \/ duty'[w].left = {} /\ call'[w].op \notin PoolStages
  \/ /\ Owner(w) = t
     /\ duty'[w].left \subseteq duty[w].left
     /\ call'[w].op \in PoolStages => call[w].op \in PoolStages /\ AtShard(w)' = AtShard(w)

\* Tasks that stay apart as long as nobody takes one.
LEMMA TasksStayApart ==
  ASSUME NEW t, TasksApart(t), job'[t].todo \subseteq job[t].todo,
         \A w \in Workers : Owner(w)' = t => KeepsTo(w, t)
  PROVE  TasksApart(t)'
<1>1. ASSUME NEW w \in Workers, Owner(w)' = t
      PROVE  \/ Tasks(w)' = {}
             \/ Owner(w) = t /\ Tasks(w)' \subseteq Tasks(w)
  BY <1>1 DEF KeepsTo, Tasks
<1>2. ASSUME NEW w \in Workers, Owner(w)' = t
      PROVE  /\ Tasks(w)' \cap job'[t].todo = {}
             /\ call'[w].op \in PoolStages => AtShard(w)' \notin duty'[w].left
  BY <1>1, <1>2 DEF TasksApart, KeepsTo
<1>3. ASSUME NEW w \in Workers, NEW v \in Workers \ {w}, Owner(w)' = t, Owner(v)' = t
      PROVE  Tasks(w)' \cap Tasks(v)' = {}
  <2>1. /\ Tasks(w)' = {} \/ (Owner(w) = t /\ Tasks(w)' \subseteq Tasks(w))
        /\ Tasks(v)' = {} \/ (Owner(v) = t /\ Tasks(v)' \subseteq Tasks(v))
    BY <1>1, <1>3
  <2>. QED
    BY <2>1 DEF TasksApart
<1>. QED
  BY <1>2, <1>3 DEF TasksApart

\* A worker that does nothing now and did nothing before for t, or goes on as it was.
NotFor(w, t) ==
  \/ duty'[w] = duty[w] /\ call'[w] = call[w] /\ held'[w] = held[w]
  \/ ~(Busy(w) /\ Owner(w) = t) /\ ~(Busy(w)' /\ Owner(w)' = t)

\* What others do leaves what t visits alone.
LEMMA OthersGoOn ==
  ASSUME PInv, PInv', SeenStep, NEW t \in Threads \ Workers, call[t].op \in Iterations,
         VisitsOf(t), call'[t] = call[t], held'[t] = held[t], job'[t] = job[t],
         \A w \in Workers : NotFor(w, t), In(t, "into_par_iter") => UNCHANGED shards
  PROVE  VisitsOf(t)'
<1>1. ASSUME NEW w \in Workers
      PROVE  \/ duty'[w] = duty[w] /\ call'[w] = call[w] /\ held'[w] = held[w]
             \/ /\ Owner(w) = t => duty[w].left = {} /\ call[w] = Idle /\ call[w].op = "idle"
                /\ Owner(w)' = t =>
                     duty'[w].left = {} /\ call'[w] = Idle /\ call'[w].op = "idle"
  BY IdleFits DEF NotFor, Busy
<1>2. TasksApart(t)'
  <2>1. ASSUME NEW w \in Workers, Owner(w)' = t  PROVE KeepsTo(w, t)
    BY <1>1, <2>1 DEF KeepsTo, PoolStages, Owner, AtShard
  <2>. QED
    BY <2>1, TasksStayApart DEF VisitsOf
<1>3. ASSUME NEW w \in Workers
      PROVE  /\ \A s : Comes(w, t, s)' <=> Comes(w, t, s)
             /\ \A k : Visits(w, t, k)' <=> Visits(w, t, k)
             /\ \A k : ~Gives(w, t, k)
             /\ \A k : (Owner(w) = t /\ In(w, "par_closure") /\ k \in ItemKeys(w))'
                         <=> (Owner(w) = t /\ In(w, "par_closure") /\ k \in ItemKeys(w))
  <2>1. CASE duty'[w] = duty[w] /\ call'[w] = call[w] /\ held'[w] = held[w]
    <3>1. Owner(w)' = Owner(w) /\ (\A o : In(w, o)' <=> In(w, o)) /\ AtShard(w)' = AtShard(w)
          /\ ItemKeys(w)' = ItemKeys(w)
      BY <2>1 DEF Owner, In, AtShard, ItemKeys, Item
    <3>. QED
      BY <2>1, <3>1 DEF Comes, Visits, Gives, In
  <2>2. CASE /\ Owner(w) = t => duty[w].left = {} /\ call[w] = Idle /\ call[w].op = "idle"
             /\ Owner(w)' = t => duty'[w].left = {} /\ call'[w] = Idle /\ call'[w].op = "idle"
    BY <2>2 DEF Comes, Visits, Gives, In
  <2>. QED
    BY <1>1, <2>1, <2>2
<1>4. ASSUME NEW k \in Keys  PROVE KeyFits(t, k)'
  <2>1. KeyFits(t, k)
    BY DEF VisitsOf, SeenFits
  <2>2. /\ Waits(t, ShardOf[k])' <=> Waits(t, ShardOf[k])
        /\ Pending(t, k)' <=> Pending(t, k)
    BY <1>3 DEF Waits, Pending
  <2>3. Collected(t, k)' <=> Collected(t, k)
    BY <1>3 DEF Collected
  <2>4. In(t, "into_par_iter") => Stored(k)' = Stored(k)
    BY DEF Stored
  <2>. QED
    BY <1>3, <2>1, <2>2, <2>3, <2>4, KeyStays
<1>5. seen'[t].always \subseteq Keys
  BY SeenShrinks DEF VisitsOf, SeenFits
<1>. QED
  BY <1>2, <1>4, <1>5 DEF VisitsOf, SeenFits

-----------------------------------------------------------------------------
(* Steps of others *)

\* Who has the map to himself has all the workers that are busy, and nobody else calls.
LEMMA AloneIs ==
  ASSUME PInv, NEW t \in Threads \ Workers, call[t].op \in AloneOps, NEW u \in Threads \ {t}
  PROVE  /\ calls[u] = 0
         /\ u \notin Workers => call[u] = Idle /\ call[u].op = "idle" /\ Empty(held[u])
         /\ u \in Workers /\ Busy(u) => Owner(u) = t
<1>1. calls[u] = 0
  BY DEF PInv, PoolInv, AloneFits
<1>2. ASSUME NEW v \in Threads \ Workers, v # t
      PROVE  call[v] = Idle /\ call[v].op = "idle" /\ Empty(held[v])
  BY <1>2, IdleFits DEF PInv, PoolInv, AloneFits
<1>3. ASSUME u \in Workers, Busy(u), Owner(u) # t  PROVE FALSE
  <2>1. Owner(u) \in Threads \ Workers /\ call[Owner(u)].op \in ParOps
    BY <1>3, WorkerThread
  <2>. QED
    BY <1>2, <1>3, <2>1 DEF ParOps, Iterations, MutIterations
<1>. QED
  BY <1>1, <1>2, <1>3

\* A call of the map, also an insert of a worker for par_extend.
LEMMA MapStepVisits ==
  ASSUME PInv, PInv', SeenStep, NEW t \in Threads \ Workers, call[t].op \in Iterations,
         VisitsOf(t), NEW u \in Threads \ {t}, Step(u), UNCHANGED <<job, duty>>
  PROVE  VisitsOf(t)'
<1>1. \A v \in Threads \ {u} : call'[v] = call[v] /\ held'[v] = held[v]
  BY StepIsOwn DEF PInv
<1>2. call[u].op \notin PoolStages
  BY MapStage, PoolOpsAreNot DEF PInv
<1>3. ASSUME call[u].op = "idle"  PROVE ~(calls[u] = 0 /\ Empty(held[u]))
  BY <1>3, NoStep
<1>4. ASSUME u \in Workers  PROVE Owner(u) # t /\ Busy(u)
  <2>1. calls[u] = 0 /\ WorkerFits(call[u], held[u], call[Owner(u)].op)
    BY <1>4, WorkerThread
  <2>2. call[u].op \in {"return", "insert", "inserting"} /\ call[Owner(u)].op = "par_extend"
    BY <1>2, <1>3, <2>1 DEF WorkerFits
  <2>. QED
    BY <2>2, IdleFits DEF Busy, Iterations, MutIterations
<1>5. ASSUME NEW w \in Workers  PROVE NotFor(w, t)
  <2>1. CASE w = u
    BY <1>4, <2>1 DEF NotFor, Owner
  <2>2. CASE w # u
    BY <1>1, <2>2, WorkersAssumption DEF NotFor
  <2>. QED
    BY <2>1, <2>2
<1>6. ~In(t, "into_par_iter")
  <2>1. SUFFICES ASSUME call[t].op \in AloneOps  PROVE FALSE
    BY DEF In, AloneOps
  <2>. QED
    BY <1>3, <1>4, <2>1, AloneIs
<1>. QED
  BY <1>1, <1>5, <1>6, OthersGoOn

\* Another call begins, or returns.
LEMMA BeginVisits ==
  ASSUME PInv, PInv', SeenStep, NEW t \in Threads \ Workers, call[t].op \in Iterations,
         VisitsOf(t), NEW u \in Threads \ {t},
         BeginIteration(u) \/ BeginExtend(u) \/ BeginOwning(u) \/ BeginView(u)
  PROVE  VisitsOf(t)'
<1>1. PICK c : Continue(u, c)
  BY DEF BeginIteration, BeginExtend, BeginOwning, BeginView, BeginAlone, Begin, BeginAs
<1>2. PICK X : Submit(u, X)
  BY DEF BeginIteration, BeginExtend, BeginOwning, BeginView, BeginAlone
<1>3. UNCHANGED <<shards, held, duty>> /\ calls[u] > 0
  BY DEF BeginIteration, BeginExtend, BeginOwning, BeginView, BeginAlone, Begin, BeginAs
<1>4. u \notin Workers
  BY <1>3, MayCall
<1>5. \A v \in Threads \ {u} : call'[v] = call[v] /\ held'[v] = held[v] /\ job'[v] = job[v]
  BY <1>1, <1>2, <1>3 DEF Continue, Submit, PInv, IInv, RestTypeOK, PoolInv, PoolTypeOK
<1>6. \A w \in Workers : NotFor(w, t)
  BY <1>3, <1>4, <1>5, WorkersAssumption DEF NotFor
<1>. QED
  BY <1>3, <1>5, <1>6, OthersGoOn

LEMMA ReturnVisits ==
  ASSUME PInv, PInv', SeenStep, NEW t \in Threads \ Workers, call[t].op \in Iterations,
         VisitsOf(t), NEW u \in Threads \ {t}, ParReturn(u)
  PROVE  VisitsOf(t)'
<1>1. call[u].op \in ParOps
  BY DEF ParReturn
<1>2. u \notin Workers
  BY <1>1, WorkerThread DEF WorkerFits, PoolStages, ParOps, Iterations, MutIterations
<1>3. PICK c : Continue(u, c)
  BY DEF ParReturn, Finish, FinishWith
<1>4. Own(u)
  BY <1>2, ReturnKeepsTable
<1>5. \A v \in Threads \ {u} : call'[v] = call[v] /\ held'[v] = held[v] /\ job'[v] = job[v]
  BY <1>3, <1>4 DEF Continue, ParReturn, PInv, IInv, RestTypeOK, PoolInv, PoolTypeOK, Own
<1>6. \A w \in Workers : NotFor(w, t)
  BY <1>2, <1>5, WorkersAssumption DEF NotFor, ParReturn
<1>7. ~In(t, "into_par_iter")
  <2>1. SUFFICES ASSUME call[t].op \in AloneOps  PROVE FALSE
    BY DEF In, AloneOps
  <2>. QED
    BY <1>1, <1>2, <2>1, AloneIs DEF ParOps, Iterations, MutIterations
<1>. QED
  BY <1>5, <1>6, <1>7, OthersGoOn

WorkerActs(w) ==
  LockShard(w) \/ GiveItem(w) \/ ForEach(w) \/ Collect(w) \/ ParClosurePanics(w) \/ EndShard(w)

\* What a worker that is at a shard changes besides the elements of the shard: what it has
\* itself, what its caller has collected, and whether the call panics.
LEMMA WorkerChanges ==
  ASSUME PInv, NEW w \in Workers, WorkerActs(w)
  PROVE  /\ call[w].op \in PoolStages /\ w \in Threads /\ w # Owner(w)
         /\ Busy(w) /\ Owner(w) \in Threads \ Workers /\ call[Owner(w)].op \in Iterations
         /\ \A u \in Threads \ {w} : call'[u] = call[u]
         /\ \A u \in Threads \ {w, Owner(w)} : held'[u] = held[u]
         /\ ~Collect(w) => held'[Owner(w)] = held[Owner(w)]
         /\ Owner(w)' = Owner(w) /\ duty'[w].left \subseteq duty[w].left
         /\ \A v \in Workers \ {w} : duty'[v] = duty[v] /\ v \in Threads
         /\ \A u \in Threads : job'[u].todo = job[u].todo
         /\ \A u \in Threads \ {Owner(w)} : job'[u] = job[u]
         /\ job[Owner(w)].panicked => job'[Owner(w)].panicked
<1>1. call[w].op \in PoolStages
  BY DEF WorkerActs, LockShard, GiveItem, ForEach, Collect, ParClosurePanics, EndShard, In,
     PoolStages
<1>2. /\ w \in Threads /\ w # Owner(w) /\ Busy(w) /\ Owner(w) \in Threads \ Workers
      /\ call[Owner(w)].op \in Iterations
  BY <1>1, AtWork
<1>3. PICK c : Continue(w, c)
  BY DEF WorkerActs, LockShard, GiveItem, ForEach, Collect, ParClosurePanics, EndShard, Become,
     Finish
<1>4. \A u \in Threads \ {w} : call'[u] = call[u]
  BY <1>3 DEF Continue, PInv, IInv, RestTypeOK
<1>5. CASE ParClosurePanics(w)
  <2>1. \A u \in Threads \ {w} : held'[u] = held[u]
    BY <1>5 DEF ParClosurePanics, PInv, IInv, TableInv, TableTypeOK
  <2>2. /\ Owner(w)' = Owner(w) /\ duty'[w].left \subseteq duty[w].left
        /\ \A v \in Workers \ {w} : duty'[v] = duty[v]
    BY <1>5 DEF ParClosurePanics, PInv, PoolInv, PoolTypeOK, Owner
  <2>3. /\ \A u \in Threads : job'[u].todo = job[u].todo
        /\ \A u \in Threads \ {Owner(w)} : job'[u] = job[u]
        /\ job'[Owner(w)].panicked
    BY <1>2, <1>5 DEF ParClosurePanics, PInv, PoolInv, PoolTypeOK
  <2>. QED
    BY <1>1, <1>2, <1>4, <2>1, <2>2, <2>3, WorkersAssumption
<1>6. CASE LockShard(w) \/ GiveItem(w) \/ ForEach(w) \/ Collect(w) \/ EndShard(w)
  <2>1. UNCHANGED <<job, duty>>
    BY <1>6 DEF LockShard, GiveItem, ForEach, Collect, EndShard
  <2>2. ASSUME ~Collect(w), NEW u \in Threads \ {w}  PROVE held'[u] = held[u]
    BY <1>6, <2>2 DEF LockShard, GiveItem, Yield, ForEach, EndShard, DropHandle, PutHandle,
       PInv, IInv, TableInv, TableTypeOK
  <2>3. ASSUME Collect(w), NEW u \in Threads \ {w, Owner(w)}  PROVE held'[u] = held[u]
    BY <2>3 DEF Collect, PInv, IInv, TableInv, TableTypeOK
  <2>. QED
    BY <1>1, <1>2, <1>4, <2>1, <2>2, <2>3, WorkersAssumption DEF Owner
<1>. QED
  BY <1>5, <1>6 DEF WorkerActs

\* A worker of another call.
LEMMA OthersWorkVisits ==
  ASSUME PInv, PInv', SeenStep, NEW t \in Threads \ Workers, call[t].op \in Iterations,
         VisitsOf(t), NEW w \in Workers, WorkerActs(w), Owner(w) # t
  PROVE  VisitsOf(t)'
<1>1. t # w /\ call'[t] = call[t] /\ held'[t] = held[t] /\ job'[t] = job[t]
  BY WorkerChanges
<1>2. ASSUME NEW v \in Workers  PROVE NotFor(v, t)
  <2>1. CASE v = w
    BY <2>1, WorkerChanges DEF NotFor
  <2>2. CASE v # w
    <3>1. v \in Threads \ {w, Owner(w)}
      BY <2>2, WorkerChanges
    <3>. QED
      BY <2>2, <3>1, WorkerChanges DEF NotFor
  <2>. QED
    BY <2>1, <2>2
<1>3. ~In(t, "into_par_iter")
  <2>1. SUFFICES ASSUME call[t].op \in AloneOps  PROVE FALSE
    BY DEF In, AloneOps
  <2>. QED
    BY <2>1, WorkerChanges, AloneIs
<1>. QED
  BY <1>1, <1>2, <1>3, OthersGoOn

-----------------------------------------------------------------------------
(* Steps of the workers of a call *)

\* A worker with the tasks X, x of them first.
Begins(w, t, X, x) ==
  /\ Owner(w)' = t /\ x \in X /\ duty'[w].left = X \ {x}
  /\ call'[w].op = "par_shard" /\ AtShard(w)' = x
  /\ \/ duty[w].left = {} /\ X \subseteq job[t].todo /\ job'[t].todo = job[t].todo \ X
     \/ duty[w].left = X /\ Owner(w) = t /\ job'[t].todo = job[t].todo

\* A worker that takes a task has nothing and changes only whose tasks are whose.
LEMMA TakesFor ==
  ASSUME PInv, NEW w \in Workers, Take(w) \/ TakeNext(w)
  PROVE  /\ call[w] = Idle /\ call[w].op = "idle" /\ UNCHANGED <<shards, held>>
         /\ \A v \in Workers \ {w} : duty'[v] = duty[v] /\ call'[v] = call[v]
         /\ \E t \in Threads \ Workers :
              /\ Owner(w)' = t /\ (Busy(w) => Owner(w) = t)
              /\ \A u \in Threads \ Workers : call'[u] = call[u]
              /\ \A u \in Threads \ {t} : job'[u] = job[u]
              /\ job'[t].panicked = job[t].panicked
              /\ call[t].op \in Iterations => \E X : \E x : Begins(w, t, X, x)
<1>1. call[w] = Idle /\ call[w].op = "idle" /\ w \in Threads
  BY IdleFits, WorkerThread DEF Take, TakeNext, Busy
<1>2. UNCHANGED <<shards, held>>
  BY DEF Take, TakeNext
<1>3. PICK c : Continue(w, c)
  BY DEF Take, TakeNext, Start
<1>4. \A u \in Threads \ {w} : call'[u] = call[u]
  BY <1>3 DEF Continue, PInv, IInv, RestTypeOK
<1>5. ASSUME NEW t \in Threads, call[t].op \in Iterations, NEW x, Start(w, t, x)
      PROVE  call'[w].op = "par_shard" /\ AtShard(w)' = x
  <2>1. call'[w] = [Call("par_shard", None, 1) EXCEPT !.shard = x]
    BY <1>1, <1>5
       DEF Start, Continue, In, Iterations, MutIterations, PInv, IInv, RestTypeOK
  <2>. QED
    BY <2>1 DEF Call, AtShard
<1>6. CASE Take(w)
  <2>1. PICK t \in Threads, X \in SUBSET (Shards \cup Keys), x \in Shards \cup Keys :
          /\ x \in X /\ X \subseteq job[t].todo /\ Start(w, t, x)
          /\ duty' = [duty EXCEPT ![w] = [owner |-> t, left |-> X \ {x}]]
          /\ job' = [job EXCEPT ![t].todo = @ \ X]
    BY <1>6 DEF Take, PInv, PoolInv, PoolTypeOK
  <2>2. t \notin Workers /\ ~Busy(w) /\ duty[w].left = {}
    BY <1>6, <2>1 DEF Take, Busy, PInv, PoolInv, JobsFit
  <2>3. /\ Owner(w)' = t /\ duty'[w].left = X \ {x}
        /\ \A v \in Workers \ {w} : duty'[v] = duty[v]
        /\ \A u \in Threads \ {t} : job'[u] = job[u]
        /\ job'[t].panicked = job[t].panicked /\ job'[t].todo = job[t].todo \ X
    BY <2>1 DEF PInv, PoolInv, PoolTypeOK, Owner
  <2>4. call[t].op \in Iterations => Begins(w, t, X, x)
    BY <1>5, <2>1, <2>2, <2>3 DEF Begins
  <2>. QED
    BY <1>1, <1>2, <1>4, <2>2, <2>3, <2>4, WorkersAssumption
<1>7. CASE TakeNext(w)
  <2>. DEFINE t == Owner(w)
              X == duty[w].left
  <2>1. PICK x \in X : /\ Start(w, t, x) /\ UNCHANGED job
                       /\ duty' = [duty EXCEPT ![w].left = @ \ {x}]
    BY <1>7 DEF TakeNext
  <2>2. t \in Threads \ Workers
    BY <2>1, WorkerThread DEF Busy
  <2>3. /\ Owner(w)' = t /\ duty'[w].left = X \ {x}
        /\ \A v \in Workers \ {w} : duty'[v] = duty[v]
    BY <2>1 DEF PInv, PoolInv, PoolTypeOK, Owner
  <2>4. call[t].op \in Iterations => Begins(w, t, X, x)
    BY <1>5, <2>1, <2>2, <2>3 DEF Begins
  <2>. QED
    BY <1>1, <1>2, <1>4, <2>1, <2>2, <2>3, <2>4, WorkersAssumption
<1>. QED
  BY <1>6, <1>7

\* A shard that is taken is still to be visited, by one worker.
LEMMA TakesVisits ==
  ASSUME PInv, PInv', SeenStep, NEW t \in Threads \ Workers, call[t].op \in Iterations,
         VisitsOf(t), NEW w \in Workers, Take(w) \/ TakeNext(w)
  PROVE  VisitsOf(t)'
<1>1. /\ call[w] = Idle /\ call[w].op = "idle" /\ UNCHANGED <<shards, held>>
      /\ \A v \in Workers \ {w} : duty'[v] = duty[v] /\ call'[v] = call[v]
  BY TakesFor
<1>2. PICK o \in Threads \ Workers :
        /\ Owner(w)' = o /\ (Busy(w) => Owner(w) = o)
        /\ \A u \in Threads \ Workers : call'[u] = call[u]
        /\ \A u \in Threads \ {o} : job'[u] = job[u]
        /\ job'[o].panicked = job[o].panicked
        /\ call[o].op \in Iterations => \E X : \E x : Begins(w, o, X, x)
  BY TakesFor
<1>3. CASE o # t
  <2>1. \A v \in Workers : NotFor(v, t)
    BY <1>1, <1>2, <1>3 DEF NotFor
  <2>. QED
    BY <1>1, <1>2, <1>3, <2>1, OthersGoOn
<1>4. CASE o = t
  <2>1. PICK X, x : Begins(w, t, X, x)
    BY <1>2, <1>4
  <2>2. /\ Owner(w)' = t /\ x \in X /\ duty'[w].left = X \ {x}
        /\ call'[w].op = "par_shard" /\ AtShard(w)' = x
        /\ \/ duty[w].left = {} /\ X \subseteq job[t].todo /\ job'[t].todo = job[t].todo \ X
           \/ duty[w].left = X /\ Owner(w) = t /\ job'[t].todo = job[t].todo
    BY <2>1 DEF Begins
  <2>3. Tasks(w)' = X /\ Tasks(w) = duty[w].left
    BY <1>1, <2>2 DEF Tasks, PoolStages
  <2>4. ASSUME NEW v \in Workers \ {w}
        PROVE  /\ Tasks(v)' = Tasks(v) /\ Owner(v)' = Owner(v)
               /\ AtShard(v)' = AtShard(v) /\ (\A op : In(v, op)' <=> In(v, op))
               /\ ItemKeys(v)' = ItemKeys(v)
    BY <1>1 DEF Tasks, Owner, AtShard, In, ItemKeys, Item
  <2>5. TasksApart(t)
    BY DEF VisitsOf
  <2>6. TasksApart(t)'
    <3>1. ASSUME NEW v \in Workers \ {w}, Owner(v) = t
          PROVE  Tasks(v) \cap X = {} /\ Tasks(v) \cap job'[t].todo = {}
      BY <2>2, <2>3, <2>5, <3>1 DEF TasksApart
    <3>2. /\ X \cap job'[t].todo = {}
          /\ AtShard(w)' \notin duty'[w].left
      BY <2>2, <2>3, <2>5 DEF TasksApart
    <3>3. ASSUME NEW v \in Workers, Owner(v)' = t
          PROVE  /\ Tasks(v)' \cap job'[t].todo = {}
                 /\ call'[v].op \in PoolStages => AtShard(v)' \notin duty'[v].left
      <4>1. CASE v = w
        BY <2>3, <3>2, <4>1
      <4>2. CASE v # w
        BY <1>1, <2>4, <2>5, <3>1, <3>3, <4>2 DEF TasksApart
      <4>. QED
        BY <4>1, <4>2
    <3>4. ASSUME NEW v \in Workers, Owner(v)' = t, NEW y \in Workers \ {v}, Owner(y)' = t
          PROVE  Tasks(v)' \cap Tasks(y)' = {}
      <4>1. CASE v = w
        BY <2>3, <2>4, <3>1, <3>4, <4>1
      <4>2. CASE y = w
        BY <2>3, <2>4, <3>1, <3>4, <4>2
      <4>3. CASE v # w /\ y # w
        BY <2>4, <2>5, <3>4, <4>3 DEF TasksApart
      <4>. QED
        BY <4>1, <4>2, <4>3
    <3>. QED
      BY <3>3, <3>4 DEF TasksApart
  <2>7. ASSUME NEW s  PROVE Waits(t, s)' <=> Waits(t, s)
    <3>1. Comes(w, t, s)' <=> s \in X
      BY <2>2 DEF Comes, In
    <3>2. Comes(w, t, s) <=> Owner(w) = t /\ s \in duty[w].left
      BY <1>1 DEF Comes, In
    <3>3. ASSUME NEW v \in Workers \ {w}  PROVE Comes(v, t, s)' <=> Comes(v, t, s)
      BY <1>1, <2>4 DEF Comes
    <3>4. s \in job'[t].todo \/ Comes(w, t, s)' <=> s \in job[t].todo \/ Comes(w, t, s)
      BY <2>2, <3>1, <3>2
    <3>. QED
      BY <3>3, <3>4 DEF Waits
  <2>8. ASSUME NEW k, NEW v \in Workers  PROVE Visits(v, t, k)' <=> Visits(v, t, k)
    <3>1. CASE v = w
      BY <1>1, <2>2, <3>1 DEF Visits
    <3>2. CASE v # w
      BY <1>1, <2>4, <3>2 DEF Visits
    <3>. QED
      BY <3>1, <3>2
  <2>9. ASSUME NEW k  PROVE Collected(t, k)' <=> Collected(t, k)
    <3>1. ~In(w, "par_closure") /\ ~In(w, "par_closure")'
      BY <1>1, <2>2 DEF In
    <3>2. ASSUME NEW v \in Workers \ {w}
          PROVE  (Owner(v) = t /\ In(v, "par_closure") /\ k \in ItemKeys(v))'
                   <=> (Owner(v) = t /\ In(v, "par_closure") /\ k \in ItemKeys(v))
      BY <2>4
    <3>. QED
      BY <1>1, <3>1, <3>2 DEF Collected
  <2>10. ASSUME NEW k \in Keys  PROVE KeyFits(t, k)'
    <3>1. KeyFits(t, k) /\ call'[t] = call[t]
      BY <1>2 DEF VisitsOf, SeenFits
    <3>2. Pending(t, k)' <=> Pending(t, k)
      BY <2>7, <2>8 DEF Pending
    <3>3. \A v \in Workers : ~Gives(v, t, k)
      BY <1>1 DEF Gives
    <3>4. Stored(k)' = Stored(k)
      BY <1>1 DEF Stored
    <3>. QED
      BY <1>2, <1>4, <2>7, <2>9, <3>1, <3>2, <3>3, <3>4, KeyStays
  <2>. QED
    BY <1>2, <2>6, <2>10, SeenShrinks DEF VisitsOf, SeenFits
<1>. QED
  BY <1>3, <1>4

-----------------------------------------------------------------------------
(* A worker at a shard of the call *)

\* What a worker has come to, nobody has still to come to.
LEMMA OneComes ==
  ASSUME NEW t, TasksApart(t), NEW w \in Workers, Owner(w) = t,
         call[w].op \in PoolStages \ {"par_shard"}
  PROVE  ~Waits(t, AtShard(w))
<1>1. AtShard(w) \in Tasks(w) /\ AtShard(w) \notin duty[w].left /\ ~In(w, "par_shard")
  BY DEF Tasks, TasksApart, In
<1>2. AtShard(w) \notin job[t].todo
  BY <1>1 DEF TasksApart
<1>3. ASSUME NEW v \in Workers, Comes(v, t, AtShard(w))  PROVE FALSE
  <2>1. v # w /\ Owner(v) = t
    BY <1>1, <1>3 DEF Comes
  <2>2. AtShard(w) \in Tasks(v)
    BY <1>3 DEF Comes, Tasks, In, PoolStages
  <2>. QED
    BY <1>1, <2>1, <2>2 DEF TasksApart
<1>. QED
  BY <1>2, <1>3 DEF Waits

\* What a worker is still to yield is in the map, in the shard that it has.
LEMMA VisitsThere ==
  ASSUME PInv, NEW w \in Workers, NEW t, NEW k, Visits(w, t, k)
  PROVE  k \in Keys /\ ShardOf[k] = AtShard(w) /\ Stored(k) # None
<1>1. call[w].op \in {"par_items", "par_closure"} /\ call[w].op \in PoolStages
  BY DEF Visits, PoolStages
<1>2. /\ w \in Threads /\ held[w][1].kind = IterKind(call[Owner(w)].op)
      /\ held[w][1].shard = AtShard(w)
  BY <1>1, AtWork DEF WorkerFits
<1>3. k \in held[w][1].keys /\ Fits(held[w][1]) /\ held[w][1].keys \subseteq Keys
  BY <1>2, PoolSlots, HandleFields DEF Visits, PInv, IInv, TableInv, HandlesFit
<1>. QED
  BY <1>2, <1>3 DEF Fits, IterKind

\* Only the elements of the shard change.
LEMMA ElsewhereStored ==
  ASSUME PInv, NEW w \in Workers, WorkerActs(w), NEW k \in Keys
  PROVE  Stored(k)' = Stored(k) \/ (call[w].op = "par_closure" /\ ShardOf[k] = AtShard(w))
<1>1. CASE LockShard(w) \/ GiveItem(w) \/ Collect(w) \/ EndShard(w)
  BY <1>1 DEF LockShard, GiveItem, Collect, EndShard, Stored
<1>2. CASE ForEach(w) \/ ParClosurePanics(w)
  <2>1. call[w].op = "par_closure" /\ ClosureActs(w) /\ w \in Threads
    BY <1>2, WorkerThread DEF ForEach, ParClosurePanics, In
  <2>2. Item(w) \in Slots /\ held[w][Item(w)].shard = AtShard(w)
    BY <2>1, ItemIsThere DEF HasItem, AtShard
  <2>3. CASE UNCHANGED shards
    BY <2>3 DEF Stored
  <2>4. ASSUME NEW x \in held[w][Item(w)].keys, NEW v \in Values \cup {None}, Store(x, v),
               held[w][Item(w)].kind \in ExclusiveKinds
        PROVE  Stored(k)' = Stored(k) \/ ShardOf[k] = AtShard(w)
    <3>1. ShardOf[x] = AtShard(w)
      BY <2>1, <2>2, <2>4 DEF PInv, IInv, TableInv, HandlesFit, Fits
    <3>2. Stored(k)' = IF k = x THEN v ELSE Stored(k)
      BY <2>1, <2>2, <2>4, StoreLeavesOthers DEF PInv, IInv
    <3>. QED
      BY <3>1, <3>2
  <2>. QED
    BY <2>1, <2>3, <2>4, ClosureStores
<1>. QED
  BY <1>1, <1>2 DEF WorkerActs

\* Where the worker is after the step, and what it has still to visit.
LEMMA WorkerGoesTo ==
  ASSUME PInv, NEW w \in Workers, WorkerActs(w)
  PROVE  /\ call'[w].op # "par_shard"
         /\ call'[w].op \in PoolStages => AtShard(w)' = AtShard(w)
         /\ In(w, "par_shard") =>
              /\ LockShard(w) /\ call'[w].op = "par_items"
              /\ held'[w][1].keys = Present(AtShard(w))
         /\ ~In(w, "par_shard") =>
              \/ /\ call[w].op \in {"par_items", "par_closure"}
                 /\ call'[w].op \in {"par_items", "par_closure"}
                 /\ held'[w][1].keys = held[w][1].keys \/ GiveItem(w)
              \/ call'[w].op = "idle" /\ held[w][1].keys = {}
              \/ call'[w].op = "idle" /\ job'[Owner(w)].panicked
         /\ ~GiveItem(w) => call'[w].op # "par_closure"
         /\ call[w].op = "par_closure" => ForEach(w) \/ Collect(w) \/ ParClosurePanics(w)
<1>. w \in Threads /\ Owner(w) \in Threads /\ w # Owner(w) /\ 1 \in Slots
  BY WorkerChanges, PoolSlots
<1>0. ASSUME NEW op \in PoolStages, Become(w, op)
      PROVE  call'[w].op = op /\ AtShard(w)' = AtShard(w)
  <2>1. PICK c \in CallRecords : Continue(w, c) /\ c.op = op /\ c.shard = AtShard(w)
    BY <1>0, WorkerChanges, NextStage
  <2>2. call'[w] = c
    BY <2>1 DEF Continue, PInv, IInv, RestTypeOK
  <2>. QED
    BY <2>1, <2>2 DEF AtShard
<1>00. ASSUME Finish(w)  PROVE call'[w].op = "idle"
  BY <1>00, IdleFits DEF Finish, Continue, PInv, IInv, RestTypeOK
<1>1. CASE LockShard(w)
  <2>1. In(w, "par_shard") /\ call'[w].op = "par_items" /\ AtShard(w)' = AtShard(w)
    BY <1>0, <1>1 DEF LockShard, PoolStages
  <2>2. held'[w][1].keys = Present(AtShard(w))
    BY <1>1 DEF LockShard, PutHandle, Handle, PInv, IInv, TableInv, TableTypeOK
  <2>. QED
    BY <1>1, <2>1, <2>2 DEF In
<1>2. CASE GiveItem(w)
  <2>1. In(w, "par_items") /\ call'[w].op = "par_closure" /\ AtShard(w)' = AtShard(w)
    BY <1>0, <1>2 DEF GiveItem, PoolStages
  <2>. QED
    BY <1>2, <2>1 DEF In
<1>3. CASE ForEach(w)
  <2>1. In(w, "par_closure") /\ call'[w].op = "par_items" /\ AtShard(w)' = AtShard(w)
    BY <1>0, <1>3 DEF ForEach, PoolStages
  <2>2. Item(w) # 1
    BY <2>1, ItemIsThere DEF In
  <2>3. held'[w][1] = held[w][1]
    BY <1>3, <2>2 DEF ForEach, DropHandle, PutHandle, PInv, IInv, TableInv, TableTypeOK
  <2>. QED
    BY <1>3, <2>1, <2>3 DEF In
<1>4. CASE Collect(w)
  <2>1. In(w, "par_closure") /\ call'[w].op = "par_items" /\ AtShard(w)' = AtShard(w)
    BY <1>0, <1>4 DEF Collect, PoolStages
  <2>2. Item(w) # 1
    BY <2>1, ItemIsThere DEF In
  <2>3. held'[w][1] = held[w][1]
    BY <1>4, <2>2 DEF Collect, PInv, IInv, TableInv, TableTypeOK
  <2>. QED
    BY <1>4, <2>1, <2>3 DEF In
<1>5. CASE ParClosurePanics(w)
  <2>1. In(w, "par_closure") /\ call'[w].op = "idle"
    BY <1>00, <1>5 DEF ParClosurePanics
  <2>2. job'[Owner(w)].panicked
    BY <1>5 DEF ParClosurePanics, PInv, PoolInv, PoolTypeOK
  <2>. QED
    BY <1>5, <2>1, <2>2 DEF In, PoolStages
<1>6. CASE EndShard(w)
  <2>1. In(w, "par_items") /\ call'[w].op = "idle" /\ held[w][1].keys = {}
    BY <1>00, <1>6 DEF EndShard, Exhausted
  <2>. QED
    BY <1>6, <2>1 DEF In, PoolStages
<1>. QED
  BY <1>1, <1>2, <1>3, <1>4, <1>5, <1>6 DEF WorkerActs

\* An element leaves the iterator and is what the closure gets.
LEMMA GivesOne ==
  ASSUME PInv, NEW w \in Workers, GiveItem(w)
  PROVE  /\ call[w].op = "par_items" /\ call'[w].op = "par_closure"
         /\ \E k \in held[w][1].keys :
              held'[w][1].keys = held[w][1].keys \ {k} /\ ItemKeys(w)' = {k}
<1>. DEFINE f == FreeSlot(w)
<1>1. call[w].op = "par_items" /\ call'[w].op = "par_closure"
  <2>1. call[w].op = "par_items" /\ call[w].op # "par_shard" /\ GiveItem(w) /\ WorkerActs(w)
    BY DEF GiveItem, In, WorkerActs
  <2>2. PICK c \in CallRecords : Continue(w, c) /\ c.op = "par_closure"
    BY <2>1, NextStage DEF GiveItem, PoolStages
  <2>. QED
    BY <2>1, <2>2, WorkerThread DEF Continue, PInv, IInv, RestTypeOK
<1>2. /\ w \in Threads /\ held[w][1].kind \in {"Iter", "IterMut"}
      /\ \A j \in Slots \ {1} : held[w][j] = NoHandle
  BY <1>1, AtWork DEF WorkerFits, PoolStages, IterKind
<1>3. f \in Slots \ {1}
  BY <1>2, FreeSlotIsFree, PoolSlots DEF FreeSlots, NoHandle, Handle
<1>4. PICK k \in held[w][1].keys :
        held' = [held EXCEPT
          ![w][1].keys = @ \ {k},
          ![w][f] = Handle(IF held[w][1].kind = "Iter" THEN "RefMulti" ELSE "RefMutMulti",
                           held[w][1].shard, {k})]
  BY DEF GiveItem, Yield
<1>5. held[w][1] \in Handles
  BY <1>2, PoolSlots DEF PInv, IInv, TableInv, TableTypeOK
<1>. HIDE DEF f
<1>6. /\ held'[w][1] = [held[w][1] EXCEPT !.keys = @ \ {k}]
      /\ held'[w][f] = Handle(IF held[w][1].kind = "Iter" THEN "RefMulti" ELSE "RefMutMulti",
                              held[w][1].shard, {k})
      /\ \A j \in Slots \ {1, f} : held'[w][j] = held[w][j]
  BY <1>2, <1>3, <1>4, PoolSlots DEF PInv, IInv, TableInv, TableTypeOK
<1>7. /\ held'[w][1].kind \in {"Iter", "IterMut"} /\ held'[w][1].keys = held[w][1].keys \ {k}
      /\ held'[w][f].kind \in {"RefMulti", "RefMutMulti"} /\ held'[w][f].keys = {k}
      /\ \A j \in Slots \ {1, f} : held'[w][j].kind = "none"
  BY <1>2, <1>5, <1>6 DEF Handles, Handle, NoHandle
<1>8. \A j \in Slots : held'[w][j].kind \in {"RefMulti", "RefMutMulti"} <=> j = f
  BY <1>3, <1>7
<1>9. Item(w)' = f
  BY <1>3, <1>8 DEF Item
<1>. QED
  BY <1>1, <1>7, <1>9 DEF ItemKeys

\* The element joins those that the caller has into its shard.
LEMMA CollectMoves ==
  ASSUME PInv, NEW w \in Workers, Collect(w)
  PROVE  \E j \in Slots :
           /\ held'[Owner(w)][j].keys = held[Owner(w)][j].keys \cup ItemKeys(w)
           /\ \A i \in Slots \ {j} : held'[Owner(w)][i] = held[Owner(w)][i]
<1>. DEFINE o == Owner(w)
            s == AtShard(w)
<1>1. call[w].op \in PoolStages
  BY DEF Collect, In, PoolStages
<1>2. o \in Threads /\ w # o /\ s + 1 \in Slots
  BY <1>1, AtWork, PoolSlots
<1>3. held' = [held EXCEPT
        ![w][Item(w)] = NoHandle,
        ![o][s + 1] = Handle("RefMulti", s, @.keys \cup ItemKeys(w))]
  BY DEF Collect
<1>. HIDE DEF o, s
<1>4. /\ held'[o][s + 1] = Handle("RefMulti", s, held[o][s + 1].keys \cup ItemKeys(w))
      /\ \A i \in Slots \ {s + 1} : held'[o][i] = held[o][i]
  BY <1>2, <1>3 DEF PInv, IInv, TableInv, TableTypeOK
<1>5. held'[o][s + 1].keys = held[o][s + 1].keys \cup ItemKeys(w)
  BY <1>4 DEF Handle
<1>6. \E j \in Slots :
           /\ held'[o][j].keys = held[o][j].keys \cup ItemKeys(w)
           /\ \A i \in Slots \ {j} : held'[o][i] = held[o][i]
  BY <1>2, <1>4, <1>5
<1>. QED
  BY <1>6 DEF o

\* What a worker has to give to a collection.
LEMMA CollectedStays ==
  ASSUME PInv, NEW w \in Workers, WorkerActs(w), In(Owner(w), "par_collect"), NEW k,
         ~Gives(w, Owner(w), k),
         \A v \in Workers \ {w} :
           (Owner(v) = Owner(w) /\ In(v, "par_closure") /\ k \in ItemKeys(v))'
             <=> (Owner(v) = Owner(w) /\ In(v, "par_closure") /\ k \in ItemKeys(v))
  PROVE  (\/ \E i \in Slots : k \in held'[Owner(w)][i].keys
          \/ \E v \in Workers : Owner(v)' = Owner(w) /\ In(v, "par_closure")' /\ k \in ItemKeys(v)')
           <=> Collected(Owner(w), k)
<1>. DEFINE o == Owner(w)
            Here(v) == Owner(v) = o /\ In(v, "par_closure") /\ k \in ItemKeys(v)
            After(v) == Owner(v)' = o /\ In(v, "par_closure")' /\ k \in ItemKeys(v)'
            Has == \E i \in Slots : k \in held[o][i].keys
            HasAfter == \E i \in Slots : k \in held'[o][i].keys
<1>1. \A v \in Workers \ {w} : After(v) <=> Here(v)
  <2>. SUFFICES ASSUME NEW v \in Workers \ {w}  PROVE After(v) <=> Here(v)
    OBVIOUS
  <2>1. Owner(w)' = Owner(w)
    BY WorkerChanges
  <2>. QED
    BY <2>1
<1>2. HasAfter \/ After(w) <=> Has \/ Here(w)
  <2>1. CASE Collect(w)
    <3>1. PICK j \in Slots :
           /\ held'[o][j].keys = held[o][j].keys \cup ItemKeys(w)
           /\ \A i \in Slots \ {j} : held'[o][i] = held[o][i]
      BY <2>1, CollectMoves
    <3>2. Here(w) <=> k \in ItemKeys(w)
      BY <2>1 DEF Collect
    <3>3. ~After(w)
      BY <2>1, WorkerGoesTo DEF In, Collect, GiveItem
    <3>4. HasAfter <=> Has \/ k \in ItemKeys(w)
      BY <3>1
    <3>. QED
      BY <3>2, <3>3, <3>4
  <2>2. CASE GiveItem(w)
    <3>1. PICK x \in held[w][1].keys :
            held'[w][1].keys = held[w][1].keys \ {x} /\ ItemKeys(w)' = {x}
      BY <2>2, GivesOne
    <3>2. call[w].op = "par_items" /\ call'[w].op = "par_closure"
      BY <2>2, GivesOne
    <3>3. k # x
      BY <3>1, <3>2 DEF Gives, In
    <3>4. ~Here(w) /\ ~After(w)
      BY <3>1, <3>2, <3>3 DEF In
    <3>5. held'[o] = held[o]
      BY <2>2, <3>2, WorkerChanges DEF Collect, In
    <3>. QED
      BY <3>4, <3>5
  <2>3. CASE ~Collect(w) /\ ~GiveItem(w)
    <3>1. call[w].op # "par_closure"
      BY <2>3, WorkerGoesTo DEF ForEach, ParClosurePanics, In
    <3>2. call'[w].op # "par_closure" /\ held'[o] = held[o]
      BY <2>3, WorkerGoesTo, WorkerChanges
    <3>. QED
      BY <3>1, <3>2 DEF In
  <2>. QED
    BY <2>1, <2>2, <2>3
<1>. HIDE DEF Here, After, Has, HasAfter
<1>3. (HasAfter \/ \E v \in Workers : After(v)) <=> (Has \/ \E v \in Workers : Here(v))
  BY <1>1, <1>2
<1>. QED
  BY <1>3 DEF Here, After, Has, HasAfter, Collected

\* The consumer is given an element of the map, for the first time.
LEMMA GivenOnce ==
  ASSUME PInv, PInv', SeenStep, NEW w \in Workers, NEW t \in Threads \ Workers, Owner(w) = t,
         VisitsOf(t), GiveItem(w), NEW k \in Keys, Gives(w, t, k),
         \A s : Waits(t, s)' => Waits(t, s),
         \A v \in Workers \ {w} : (Visits(v, t, k)' <=> Visits(v, t, k)) /\ ~Gives(v, t, k)
  PROVE  KeyFits(t, k)'
<1>1. /\ call[w].op = "par_items" /\ call'[w].op = "par_closure" /\ WorkerActs(w)
      /\ call[w].op \in PoolStages \ {"par_shard"}
  BY GivesOne DEF WorkerActs, PoolStages
<1>2. call[t].op \in Iterations /\ call'[t] = call[t]
  BY <1>1, WorkerChanges
<1>3. TasksApart(t) /\ KeyFits(t, k)
  BY <1>2 DEF VisitsOf, SeenFits
<1>4. PICK x \in held[w][1].keys :
        held'[w][1].keys = held[w][1].keys \ {x} /\ ItemKeys(w)' = {x}
  BY GivesOne
<1>5. k = x /\ Visits(w, t, k)
  BY <1>1, <1>4 DEF Gives, Visits
<1>6. ShardOf[k] = AtShard(w) /\ Stored(k) # None
  BY <1>5, VisitsThere
<1>7. seen[t].given[k] = 0
  BY <1>3, <1>5 DEF KeyFits, Pending
<1>8. seen'[t].given[k] = 1
  <2>1. {v \in Workers : Gives(v, t, k)} = {w}
    OBVIOUS
  <2>2. Cardinality({v \in Workers : Gives(v, t, k)}) = 1
    BY <2>1, FS_Singleton
  <2>3. seen'[t].given[k] = seen[t].given[k] + Cardinality({v \in Workers : Gives(v, t, k)})
    BY <1>2, SeenGrows
  <2>. QED
    BY <1>7, <2>2, <2>3
<1>9. k \in seen'[t].ever
  <2>1. Stored(k)' # None
    BY <1>6 DEF GiveItem, Stored
  <2>. QED
    BY <1>2, <2>1, SeenGrows
<1>10. ~Waits(t, ShardOf[k])'
  BY <1>1, <1>3, <1>6, OneComes
<1>11. ~Pending(t, k)'
  <2>1. ~Visits(w, t, k)'
    BY <1>4, <1>5 DEF Visits
  <2>2. ASSUME NEW v \in Workers \ {w}, Visits(v, t, k)  PROVE FALSE
    <3>1. ShardOf[k] = AtShard(v) /\ Owner(v) = t /\ call[v].op \in PoolStages
      BY <2>2, VisitsThere DEF Visits, PoolStages
    <3>2. AtShard(w) \in Tasks(v) /\ AtShard(w) \in Tasks(w)
      BY <1>1, <1>6, <3>1 DEF Tasks
    <3>. QED
      BY <1>3, <3>1, <3>2 DEF TasksApart
  <2>. QED
    BY <1>10, <2>1, <2>2 DEF Pending
<1>12. Collected(t, k)'
  <2>1. Owner(w)' = t
    BY <1>1, WorkerChanges
  <2>. QED
    BY <1>1, <1>4, <1>5, <2>1 DEF Collected, In
<1>. QED
  BY <1>8, <1>9, <1>10, <1>11, <1>12 DEF KeyFits

\* A worker of the call goes on: the shard that it locks has all the keys that were there
\* all along, and what it gives away nobody else has or comes to.
LEMMA OwnWorkVisits ==
  ASSUME PInv, PInv', SeenStep, NEW w \in Workers, NEW t \in Threads \ Workers, Owner(w) = t,
         VisitsOf(t), WorkerActs(w)
  PROVE  VisitsOf(t)'
<1>1. /\ call[t].op \in Iterations /\ call'[t] = call[t] /\ w \in Threads
      /\ Owner(w)' = t /\ duty'[w].left \subseteq duty[w].left
      /\ job'[t].todo = job[t].todo /\ (job[t].panicked => job'[t].panicked)
      /\ call[w].op \in PoolStages
  BY WorkerChanges
<1>2. TasksApart(t) /\ \A k \in Keys : KeyFits(t, k)
  BY <1>1 DEF VisitsOf, SeenFits
<1>3. ASSUME NEW v \in Workers \ {w}
      PROVE  /\ duty'[v] = duty[v] /\ call'[v] = call[v] /\ held'[v] = held[v]
  <2>1. v \in Threads \ {w, t}
    BY WorkerChanges
  <2>. QED
    BY <2>1, WorkerChanges
<1>4. ASSUME NEW v \in Workers \ {w}
      PROVE  /\ \A s : Comes(v, t, s)' <=> Comes(v, t, s)
             /\ \A k : Visits(v, t, k)' <=> Visits(v, t, k)
             /\ \A k : ~Gives(v, t, k)
             /\ \A k : (Owner(v) = t /\ In(v, "par_closure") /\ k \in ItemKeys(v))'
                         <=> (Owner(v) = t /\ In(v, "par_closure") /\ k \in ItemKeys(v))
  <2>1. Owner(v)' = Owner(v) /\ (\A o : In(v, o)' <=> In(v, o)) /\ AtShard(v)' = AtShard(v)
        /\ ItemKeys(v)' = ItemKeys(v)
    BY <1>3 DEF Owner, In, AtShard, ItemKeys, Item
  <2>. QED
    BY <1>3, <2>1 DEF Comes, Visits, Gives, In
<1>5. TasksApart(t)'
  <2>1. ASSUME NEW v \in Workers, Owner(v)' = t  PROVE KeepsTo(v, t)
    <3>1. CASE v = w
      BY <1>1, <3>1, WorkerGoesTo DEF KeepsTo
    <3>2. CASE v # w
      BY <1>3, <2>1, <3>2 DEF KeepsTo, Owner, AtShard
    <3>. QED
      BY <3>1, <3>2
  <2>. QED
    BY <1>1, <1>2, <2>1, TasksStayApart
<1>6. ASSUME NEW s  PROVE Waits(t, s)' => Waits(t, s)
  <2>1. Comes(w, t, s)' => Comes(w, t, s)
    BY <1>1, WorkerGoesTo DEF Comes, In
  <2>. QED
    BY <1>1, <1>4, <2>1 DEF Waits
<1>7. ASSUME NEW s, Waits(t, s)
      PROVE  Waits(t, s)' \/ job'[t].panicked \/ (In(w, "par_shard") /\ AtShard(w) = s)
  <2>1. duty'[w] = duty[w] \/ job'[t].panicked
    <3>1. CASE ParClosurePanics(w)
      <4>1. job'[Owner(w)].panicked
        BY <3>1 DEF ParClosurePanics, PInv, PoolInv, PoolTypeOK
      <4>. QED
        BY <4>1
    <3>2. CASE ~ParClosurePanics(w)
      BY <3>2 DEF WorkerActs, LockShard, GiveItem, ForEach, Collect, EndShard
    <3>. QED
      BY <3>1, <3>2
  <2>2. Comes(w, t, s) =>
          Comes(w, t, s)' \/ job'[t].panicked \/ (In(w, "par_shard") /\ AtShard(w) = s)
    BY <1>1, <2>1 DEF Comes
  <2>. QED
    BY <1>1, <1>4, <1>7, <2>2 DEF Waits
<1>8. ASSUME NEW k \in Keys, Waits(t, ShardOf[k])  PROVE Stored(k)' = Stored(k)
  <2>1. CASE call[w].op = "par_closure" /\ ShardOf[k] = AtShard(w)
    BY <1>1, <1>2, <1>8, <2>1, OneComes DEF PoolStages
  <2>. QED
    BY <2>1, ElsewhereStored
<1>9. ASSUME NEW k \in Keys, Gives(w, t, k)  PROVE KeyFits(t, k)'
  <2>1. GiveItem(w)
    BY <1>9, WorkerGoesTo DEF Gives
  <2>. QED
    BY <1>4, <1>6, <1>9, <2>1, GivenOnce
<1>10. ASSUME NEW k \in Keys, ~Gives(w, t, k)  PROVE KeyFits(t, k)'
  <2>1. CASE In(w, "par_shard")
    <3>1. /\ call'[w].op = "par_items" /\ held'[w][1].keys = Present(AtShard(w))
          /\ ~Visits(w, t, k)
      BY <2>1, WorkerGoesTo DEF Visits, In
    <3>2. Visits(w, t, k)' <=> shards[AtShard(w)][k] # None
      BY <1>1, <3>1 DEF Visits, Present
    <3>3. shards[AtShard(w)][k] # None => ShardOf[k] = AtShard(w)
      BY <1>1, AtWork DEF PInv, IInv, TableInv, Placed
    <3>4. Pending(t, k)' => Pending(t, k)
      <4>1. Visits(w, t, k)' => Waits(t, ShardOf[k])
        BY <1>1, <2>1, <3>2, <3>3 DEF Waits, Comes
      <4>. QED
        BY <1>4, <1>6, <4>1 DEF Pending
    <3>5. Pending(t, k) => Pending(t, k)' \/ job'[t].panicked \/ k \notin seen[t].always
      <4>1. ASSUME k \in seen[t].always, Waits(t, ShardOf[k]), ShardOf[k] = AtShard(w)
            PROVE  Visits(w, t, k)'
        BY <1>2, <3>2, <4>1 DEF KeyFits, Stored
      <4>. QED
        BY <1>4, <1>7, <3>1, <4>1 DEF Pending
    <3>6. In(t, "par_collect") => (Collected(t, k)' <=> Collected(t, k))
      BY <1>1, <1>4, <1>10, CollectedStays DEF Collected
    <3>. QED
      BY <1>1, <1>2, <1>4, <1>6, <1>8, <1>10, <3>4, <3>5, <3>6, KeyStays
  <2>2. CASE ~In(w, "par_shard")
    <3>1. Visits(w, t, k)' => Visits(w, t, k)
      <4>1. GiveItem(w) => held'[w][1].keys \subseteq held[w][1].keys
        BY GivesOne
      <4>. QED
        BY <1>1, <2>2, <4>1, WorkerGoesTo DEF Visits
    <3>2. Visits(w, t, k) => Visits(w, t, k)' \/ job'[t].panicked
      <4>1. GiveItem(w) /\ Visits(w, t, k) => Visits(w, t, k)'
        BY <1>1, <1>10, GivesOne DEF Visits, Gives, In
      <4>. QED
        BY <1>1, <2>2, <4>1, WorkerGoesTo DEF Visits
    <3>3. Pending(t, k)' => Pending(t, k)
      BY <1>4, <1>6, <3>1 DEF Pending
    <3>4. Pending(t, k) => Pending(t, k)' \/ job'[t].panicked
      BY <1>4, <1>7, <2>2, <3>2 DEF Pending
    <3>5. In(t, "par_collect") => (Collected(t, k)' <=> Collected(t, k))
      BY <1>1, <1>4, <1>10, CollectedStays DEF Collected
    <3>. QED
      BY <1>1, <1>2, <1>4, <1>6, <1>8, <1>10, <3>3, <3>4, <3>5, KeyStays
  <2>. QED
    BY <2>1, <2>2
<1>. QED
  BY <1>1, <1>5, <1>9, <1>10, SeenShrinks DEF VisitsOf, SeenFits

-----------------------------------------------------------------------------
(* The beginning and the end of a parallel iteration *)

\* Every shard is to be visited, and no worker has a task of the call.
LEMMA BeginsVisits ==
  ASSUME PInv, PInv', SeenStep, NEW t \in Threads \ Workers,
         BeginIteration(t) \/ BeginExtend(t) \/ BeginOwning(t) \/ BeginView(t),
         call'[t].op \in Iterations
  PROVE  VisitsOf(t)'
<1>1. call[t] = Idle /\ call[t].op \notin ParOps
  BY IdleFits DEF BeginIteration, BeginExtend, BeginOwning, BeginView, BeginAlone, Begin, BeginAs,
     ParOps, Iterations, MutIterations
<1>2. UNCHANGED <<held, duty>> /\ Untouched(t)
  BY DEF BeginIteration, BeginExtend, BeginOwning, BeginView, BeginAlone, Begin, BeginAs
<1>3. PICK c : Continue(t, c)
  BY DEF BeginIteration, BeginExtend, BeginOwning, BeginView, BeginAlone, Begin, BeginAs
<1>4. call'[t] = c /\ \A u \in Threads \ {t} : call'[u] = call[u]
  BY <1>3 DEF Continue, PInv, IInv, RestTypeOK
<1>5. job'[t].todo = Shards
  <2>1. ~BeginExtend(t)
    <3>1. SUFFICES ASSUME BeginExtend(t)  PROVE FALSE
      OBVIOUS
    <3>2. PICK i : Continue(t, Call("par_extend", None, i))
      BY <3>1 DEF BeginExtend, Begin, BeginAs
    <3>3. call'[t].op = "par_extend"
      BY <3>2 DEF Continue, Call, PInv, IInv, RestTypeOK
    <3>. QED
      BY <3>3 DEF Iterations, MutIterations
  <2>2. Submit(t, Shards)
    BY <2>1 DEF BeginIteration, BeginOwning, BeginView, BeginAlone
  <2>. QED
    BY <2>2 DEF Submit, PInv, PoolInv, PoolTypeOK
<1>6. ASSUME NEW w \in Workers, Owner(w)' = t
      PROVE  duty'[w].left = {} /\ call'[w].op = "idle"
  <2>1. Owner(w) = t
    BY <1>2, <1>6 DEF Owner
  <2>2. duty[w].left = {} /\ call[w] = Idle /\ call'[w] = call[w]
    BY <1>1, <1>4, <2>1, WorkersAssumption DEF PInv, PoolInv, DutiesFit, Busy
  <2>. QED
    BY <1>2, <2>2, IdleFits
<1>7. TasksApart(t)'
  BY <1>6 DEF TasksApart, Tasks, PoolStages
<1>8. seen'[t].always = AllKeys' /\ seen'[t].ever = AllKeys' /\ seen'[t].given = [k \in Keys |-> 0]
  <2>1. seen'[t] = [Unseen EXCEPT !.always = AllKeys', !.ever = AllKeys']
    BY <1>1 DEF SeenStep, SeenOf, ParOps
  <2>. QED
    BY <2>1 DEF Unseen
<1>9. ASSUME NEW k \in Keys  PROVE KeyFits(t, k)'
  <2>1. Waits(t, ShardOf[k])' /\ Pending(t, k)'
    BY <1>5, HomeOfKey DEF Waits, Pending
  <2>2. k \in AllKeys' => Stored(k)' # None
    <3>1. \A s \in Shards : shards'[s][k] # None => ShardOf[k] = s
      BY DEF PInv, IInv, TableInv, Placed
    <3>. QED
      BY <3>1 DEF AllKeys, Present, Stored
  <2>3. ~Collected(t, k)'
    <3>1. \A i \in Slots : held'[t][i].keys = {}
      BY <1>2 DEF Untouched, NoHandle, Handle
    <3>2. \A w \in Workers : ~(Owner(w)' = t /\ In(w, "par_closure")')
      BY <1>6 DEF In
    <3>. QED
      BY <3>1, <3>2 DEF Collected
  <2>4. seen'[t].given[k] = 0
    BY <1>8
  <2>. QED
    BY <1>8, <2>1, <2>2, <2>3, <2>4 DEF KeyFits
<1>10. AllKeys' \subseteq Keys
  BY DEF AllKeys, Present
<1>. QED
  BY <1>7, <1>8, <1>9, <1>10 DEF VisitsOf, SeenFits

\* When all tasks are done nothing is left to visit.
LEMMA NothingPends ==
  ASSUME NEW t, job[t].todo = {}, \A w \in Workers : Busy(w) => Owner(w) # t, NEW k
  PROVE  /\ ~Pending(t, k)
         /\ \A w \in Workers : ~(Owner(w) = t /\ In(w, "par_closure"))
<1>1. ASSUME NEW w \in Workers, Owner(w) = t
      PROVE  duty[w].left = {} /\ call[w].op = "idle"
  BY <1>1, IdleFits DEF Busy
<1>. QED
  BY <1>1 DEF Pending, Waits, Comes, Visits, In

VisitedExactly(t) ==
  LET given == {k \in Keys : seen[t].given[k] > 0} IN
  /\ seen[t].always \subseteq given /\ given \subseteq seen[t].ever
  /\ \A k \in given : seen[t].given[k] = 1
  /\ In(t, "par_collect") => given = UNION {held'[t][i].keys : i \in Slots}

\* Nothing is lost but by a closure that panics, and then the call does.
LEMMA ReturnsVisited ==
  ASSUME PInv, NEW t \in Threads \ Workers, call[t].op \in Iterations, VisitsOf(t),
         ParReturn(t), call'[t].op = "return"
  PROVE  VisitedExactly(t)
<1>. DEFINE given == {k \in Keys : seen[t].given[k] > 0}
<1>1. ~job[t].panicked /\ held' = held
  <2>1. ASSUME job[t].panicked  PROVE FALSE
    <3>1. call'[t].op = "idle"
      BY <2>1, IdleFits DEF ParReturn, Finish, Continue, PInv, IInv, RestTypeOK
    <3>. QED
      BY <3>1
  <2>. QED
    BY <2>1 DEF ParReturn
<1>2. ASSUME NEW k  PROVE ~Pending(t, k) /\ \A w \in Workers : ~(Owner(w) = t /\ In(w, "par_closure"))
  BY NothingPends DEF ParReturn
<1>3. /\ seen[t].always \subseteq Keys
      /\ \A k \in Keys : KeyFits(t, k)
  BY DEF VisitsOf, SeenFits
<1>4. ASSUME NEW k \in Keys
      PROVE  /\ seen[t].given[k] > 0 <=> seen[t].given[k] = 1
             /\ k \in seen[t].always => k \in given
             /\ k \in given => k \in seen[t].ever
             /\ In(t, "par_collect") => (k \in given <=> \E i \in Slots : k \in held[t][i].keys)
  <2>1. seen[t].given[k] \in {0, 1}
    BY <1>3 DEF KeyFits
  <2>2. seen[t].given[k] > 0 <=> seen[t].given[k] = 1
    BY <2>1
  <2>3. k \in given <=> seen[t].given[k] = 1
    BY <2>2
  <2>4. Collected(t, k) <=> \E i \in Slots : k \in held[t][i].keys
    BY <1>2 DEF Collected
  <2>. QED
    BY <1>1, <1>2, <1>3, <2>2, <2>3, <2>4 DEF KeyFits
<1>5. \A i \in Slots : held[t][i].keys \subseteq Keys
  BY HandleFields DEF PInv, IInv, TableInv
<1>6. In(t, "par_collect") => given = UNION {held'[t][i].keys : i \in Slots}
  <2>. HIDE DEF given
  <2>1. given \subseteq Keys
    BY DEF given
  <2>2. \A k : k \in UNION {held'[t][i].keys : i \in Slots} <=> \E i \in Slots : k \in held[t][i].keys
    BY <1>1
  <2>. QED
    BY <1>4, <1>5, <2>1, <2>2
<1>7. seen[t].always \subseteq given /\ given \subseteq seen[t].ever
  BY <1>3, <1>4
<1>8. \A k \in given : seen[t].given[k] = 1
  BY <1>4
<1>. QED
  BY <1>6, <1>7, <1>8 DEF VisitedExactly

-----------------------------------------------------------------------------
(* What a parallel iteration has visited when it returns *)

\* Only the caller ends its call.
LEMMA OthersStay ==
  ASSUME PInv, NEW t \in Threads \ Workers, NEW u \in Threads \ {t}, ParStep(u)
  PROVE  call'[t] = call[t]
<1>1. CASE Step(u)
  BY <1>1, StepIsOwn DEF PInv
<1>2. ASSUME NEW c, Continue(u, c)  PROVE call'[t] = call[t]
  BY <1>2 DEF Continue, PInv, IInv, RestTypeOK
<1>3. CASE BeginIteration(u) \/ BeginExtend(u) \/ BeginOwning(u) \/ BeginView(u)
  BY <1>2, <1>3
     DEF BeginIteration, BeginExtend, BeginOwning, BeginView, BeginAlone, Begin, BeginAs
<1>4. CASE ParProceed(u)
  BY <1>2, <1>4 DEF ParProceed, ParReturn, FinishWith, Take, TakeNext, Start, LockShard, GiveItem,
     ForEach, Collect, ParClosurePanics, EndShard, Become, Finish
<1>. QED
  BY <1>1, <1>3, <1>4 DEF ParStep

LEMMA VisitsStep ==
  ASSUME PInv, PInv', VisitsFit, SeenStep, NEW u \in Threads, ParStep(u)
  PROVE  VisitsFit'
<1>. SUFFICES ASSUME NEW t \in Threads \ Workers, call'[t].op \in Iterations  PROVE VisitsOf(t)'
  BY DEF VisitsFit, VisitsOf
<1>1. CASE t = u
  <2>1. ~Step(t)
    BY MapStage, PoolOpsAreNot DEF PInv, ParOps
  <2>2. ~ParReturn(t)
    <3>1. SUFFICES ASSUME ParReturn(t)  PROVE FALSE
      OBVIOUS
    <3>2. call'[t].op \in {"idle", "return"}
      <4>1. Finish(t) \/ FinishWith(t, None)
        BY <3>1 DEF ParReturn
      <4>2. Idle.op = "idle" /\ [Idle EXCEPT !.op = "return", !.result = None].op = "return"
        BY DEF Idle, Call
      <4>. QED
        BY <4>1, <4>2 DEF Finish, FinishWith, Continue, PInv, IInv, RestTypeOK
    <3>. QED
      BY <3>2 DEF Iterations, MutIterations
  <2>. QED
    BY <1>1, <2>1, <2>2, BeginsVisits DEF ParStep, ParProceed
<1>2. CASE t # u
  <2>1. call[t].op \in Iterations /\ VisitsOf(t) /\ u \in Threads \ {t}
    BY <1>2, OthersStay DEF VisitsFit
  <2>2. CASE Step(u) /\ UNCHANGED <<job, duty>>
    BY <2>1, <2>2, MapStepVisits
  <2>3. CASE BeginIteration(u) \/ BeginExtend(u) \/ BeginOwning(u) \/ BeginView(u)
    BY <2>1, <2>3, BeginVisits
  <2>4. CASE ParReturn(u)
    BY <2>1, <2>4, ReturnVisits
  <2>5. CASE u \in Workers /\ (Take(u) \/ TakeNext(u))
    BY <2>1, <2>5, TakesVisits
  <2>6. CASE u \in Workers /\ WorkerActs(u)
    BY <2>1, <2>6, OwnWorkVisits, OthersWorkVisits
  <2>. QED
    BY <2>2, <2>3, <2>4, <2>5, <2>6 DEF ParStep, ParProceed, WorkerActs
<1>. QED
  BY <1>1, <1>2

LEMMA VisitsInvariance == PSpec => []VInv
<1>1. PInit => VisitsFit
  BY IdleFits DEF PInit, Init, VisitsFit, VisitsOf, Iterations, MutIterations
<1>2. PInv /\ PInv' /\ VisitsFit /\ [PNext]_pvars => VisitsFit'
  <2>. SUFFICES ASSUME PInv, PInv', VisitsFit, [PNext]_pvars  PROVE VisitsFit'
    OBVIOUS
  <2>1. CASE UNCHANGED pvars
    BY <2>1 DEF pvars, vars, VisitsFit, VisitsOf, TasksApart, Tasks, SeenFits, KeyFits, Pending,
       Waits, Comes, Visits, Collected, Owner, In, AtShard, ItemKeys, Item, Stored
  <2>2. ASSUME NEW u \in Threads, ParStep(u), SeenStep  PROVE VisitsFit'
    BY <2>2, VisitsStep
  <2>3. CASE UNCHANGED <<vars, job, duty>> /\ SeenStep
    <3>1. SUFFICES ASSUME NEW t \in Threads \ Workers, call[t].op \in Iterations
                   PROVE  VisitsOf(t)'
      BY <2>3 DEF VisitsFit, VisitsOf, vars
    <3>2. \A w \in Workers : NotFor(w, t)
      BY <2>3 DEF NotFor, vars
    <3>. QED
      BY <2>3, <3>1, <3>2, OthersGoOn DEF VisitsFit, vars
  <2>. QED
    BY <2>1, <2>2, <2>3 DEF PNext, Terminating, SeenStep
<1>. QED
  BY <1>1, <1>2, PInvariance, PTL DEF PSpec, VInv

\* A parallel iteration that returns has given every key that was in the map all along to
\* its consumer, none that was never there and none twice, and a collection has what it was
\* given: for any number of workers, shards and keys, however the pool splits the job and
\* whatever other threads do between (rayon/map.rs: flat_map_iter over the shards).
THEOREM ParallelVisitsExactlyHolds == PSpec => ParallelVisitsExactly
<1>1. PInv /\ VisitsFit /\ [PNext]_pvars =>
        [\A t \in Threads : call[t].op \in Iterations /\ call'[t].op = "return" =>
           VisitedExactly(t)]_pvars
  <2>. SUFFICES ASSUME PInv, VisitsFit, [PNext]_pvars, NEW t \in Threads,
                       call[t].op \in Iterations, call'[t].op = "return"
                PROVE  VisitedExactly(t)
    OBVIOUS
  <2>1. t \notin Workers
    BY WorkerThread DEF WorkerFits, PoolStages, Iterations, MutIterations
  <2>2. call'[t] # call[t]
    BY DEF Iterations, MutIterations
  <2>3. PICK u \in Threads : ParStep(u)
    BY <2>2 DEF PNext, Terminating, pvars, vars
  <2>4. u = t
    BY <2>1, <2>2, <2>3, OthersStay
  <2>5. ~Step(t)
    BY MapStage, PoolOpsAreNot DEF PInv, ParOps
  <2>6. call[t] # Idle
    BY IdleFits DEF Iterations, MutIterations
  <2>7. ParReturn(t)
    BY <2>1, <2>3, <2>4, <2>5, <2>6 DEF ParStep, ParProceed, BeginIteration, BeginExtend,
       BeginOwning, BeginView, BeginAlone, Begin, BeginAs
  <2>. QED
    BY <2>1, <2>7, ReturnsVisited DEF VisitsFit
<1>2. (\A t \in Threads : call[t].op \in Iterations /\ call'[t].op = "return" => VisitedExactly(t))
        <=> (\A t \in Threads : call[t].op \in Iterations /\ call'[t].op = "return" =>
               LET given == {k \in Keys : seen[t].given[k] > 0} IN
               /\ seen[t].always \subseteq given /\ given \subseteq seen[t].ever
               /\ \A k \in given : seen[t].given[k] = 1
               /\ In(t, "par_collect") => given = UNION {held'[t][i].keys : i \in Slots})
  BY DEF VisitedExactly
<1>. QED
  BY <1>1, <1>2, VisitsInvariance, PTL DEF PSpec, VInv, ParallelVisitsExactly
=============================================================================
