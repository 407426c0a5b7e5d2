---------------------------- MODULE ParallelMap -----------------------------
(***************************************************************************)
(* The parallel operations (src/rayon): par_iter and par_iter_mut, for the *)
(* consumers for_each and collect, par_extend, and the iterators of a map  *)
(* or a view that is owned.  A call hands tasks to the threads of rayon's  *)
(* pool and waits for them: one task for each shard, or for each pair that *)
(* par_extend inserts.  Within a shard the elements are visited one after  *)
(* the other (flat_map_iter).                                              *)
(*                                                                         *)
(* The pool is external.  How it splits a job is its choice: a worker      *)
(* takes some of the tasks that nobody has taken, and does them in turn.   *)
(* A task waits for the lock of its shard on the worker that does it.      *)
(***************************************************************************)
EXTENDS ClashMap

CONSTANT Workers  \* the threads of the pool

ASSUME WorkersAssumption ==
  Workers # {} /\ Workers \subseteq Threads /\ \A w \in Workers : MaxCalls[w] = 0
ASSUME RoomToCollectAssumption == ShardCount <= MaxHandles

VARIABLES
  job,   \* of the call that each thread has made: tasks that nobody has taken,
         \* and whether a closure of it has panicked
  duty,  \* of each worker: whose job, and the tasks of it that are next
  seen   \* of each such call: the keys that were there all the time, those that
         \* were there at any time, and how often each was given to the consumer

pvars == <<vars, job, duty, seen>>

MutIterations == {"par_iter_mut", "into_par_iter"}
Iterations == MutIterations \cup {"par_iter", "par_collect", "view_par_iter"}
ParOps == Iterations \cup {"par_extend"}

NoJob == [todo |-> {}, panicked |-> FALSE]
NoDuty == [owner |-> None, left |-> {}]

Owner(w) == duty[w].owner
Busy(w) == call[w] # Idle \/ duty[w].left # {}
Untouched(t) == \A i \in Slots : held[t][i] = NoHandle

Submit(t, X) == job' = [job EXCEPT ![t] = [todo |-> X, panicked |-> FALSE]]

-----------------------------------------------------------------------------
(* The calls *)

\* par_iter, with for_each or with collect, and par_iter_mut lock nothing yet.
BeginIteration(t) ==
  /\ Untouched(t)
  /\ \E op \in {"par_iter", "par_collect", "par_iter_mut"} : Begin(t, op, None)
  /\ Submit(t, Shards)
  /\ UNCHANGED duty

\* par_extend, of a map or of a reference to one
BeginExtend(t) ==
  /\ Untouched(t)
  /\ Begin(t, "par_extend", None)
  /\ \E K \in (SUBSET Keys) \ {{}} : Submit(t, K)
  /\ UNCHANGED duty

\* The caller has the map, or the view, to itself, so that no shard is locked by
\* others; a map that is consumed is gone for them all.
BeginAlone(t, op) ==
  /\ \A u \in Threads : call[u] = Idle /\ Untouched(u)
  /\ op \in Ops[t] /\ calls[t] > 0
  /\ calls' = [u \in Threads |-> 0]
  /\ Continue(t, Call(op, None, 0)) /\ Submit(t, Shards)
  /\ UNCHANGED <<shards, held, holes, aborted, duty>>

\* into_par_iter of a map or a view, and par_iter of a view.
BeginOwning(t) == BeginAlone(t, "into_par_iter")
BeginView(t) == BeginAlone(t, "view_par_iter")

-----------------------------------------------------------------------------
(* The workers.  A worker has the iterator of its shard in one slot and the *)
(* element that it gives to the consumer in another.                        *)

Start(w, t, x) ==
  Continue(w, IF In(t, "par_extend") THEN Call("insert", x, 1)
              ELSE [Call("par_shard", None, 1) EXCEPT !.shard = x])

Take(w) ==
  /\ ~Busy(w)
  /\ \E t \in Threads : \E X \in SUBSET job[t].todo : \E x \in X :
       /\ Start(w, t, x)
       /\ duty' = [duty EXCEPT ![w] = [owner |-> t, left |-> X \ {x}]]
       /\ job' = [job EXCEPT ![t].todo = @ \ X]
  /\ UNCHANGED <<shards, held, holes, aborted, calls>>

TakeNext(w) ==
  /\ call[w] = Idle
  /\ \E x \in duty[w].left :
       /\ Start(w, Owner(w), x)
       /\ duty' = [duty EXCEPT ![w].left = @ \ {x}]
  /\ UNCHANGED <<shards, held, holes, aborted, calls, job>>

Exclusive(w) == call[Owner(w)].op \in MutIterations

\* (mutants) The guard of par_iter_mut is a shared one; a shard that is locked is
\* passed over.
LockShardShared(w) ==
  /\ In(w, "par_shard") /\ ReadLockable(AtShard(w))
  /\ PutHandle(w, 1, Handle(IF Exclusive(w) THEN "IterMut" ELSE "Iter",
                            AtShard(w), Present(AtShard(w))))
  /\ Become(w, "par_items")
  /\ UNCHANGED <<shards, holes, aborted, calls, job, duty>>

LockShardOrSkip(w) ==
  /\ In(w, "par_shard")
  /\ IF IF Exclusive(w) THEN WriteLockable(AtShard(w)) ELSE ReadLockable(AtShard(w))
     THEN /\ PutHandle(w, 1, Handle(IF Exclusive(w) THEN "IterMut" ELSE "Iter",
                                    AtShard(w), Present(AtShard(w))))
          /\ Become(w, "par_items")
     ELSE Finish(w) /\ UNCHANGED held
  /\ UNCHANGED <<shards, holes, aborted, calls, job, duty>>

LockShard(w) ==
  /\ In(w, "par_shard")
  /\ IF Exclusive(w) THEN WriteLockable(AtShard(w)) ELSE ReadLockable(AtShard(w))
  /\ PutHandle(w, 1, Handle(IF Exclusive(w) THEN "IterMut" ELSE "Iter",
                            AtShard(w), Present(AtShard(w))))
  /\ Become(w, "par_items")
  /\ UNCHANGED <<shards, holes, aborted, calls, job, duty>>

GiveItem(w) ==
  /\ In(w, "par_items") /\ Yield(w, 1) /\ Become(w, "par_closure")
  /\ UNCHANGED <<shards, holes, aborted, calls, job, duty>>

Item(w) == CHOOSE i \in Slots : held[w][i].kind \in {"RefMulti", "RefMutMulti"}
ItemKeys(w) == held[w][Item(w)].keys

\* What the closure of for_each does to its element: that of par_iter_mut may
\* change it, that of into_par_iter owns it.
ClosureActs(w) ==
  \E k \in ItemKeys(w) :
    CASE In(Owner(w), "par_iter_mut") -> \E v \in Values : Store(k, v)
      [] In(Owner(w), "into_par_iter") -> Store(k, None)
      [] OTHER -> UNCHANGED shards

ForEach(w) ==
  /\ In(w, "par_closure") /\ ~In(Owner(w), "par_collect")
  /\ ClosureActs(w) /\ DropHandle(w, Item(w)) /\ Become(w, "par_items")
  /\ UNCHANGED <<holes, aborted, calls, job, duty>>

\* The reference goes into the caller's vector, and keeps the shard locked.
\* References into one shard share a guard, and here a slot.
Collect(w) ==
  /\ In(w, "par_closure") /\ In(Owner(w), "par_collect")
  /\ held' = [held EXCEPT
       ![w][Item(w)] = NoHandle,
       ![Owner(w)][AtShard(w) + 1] =
          Handle("RefMulti", AtShard(w), @.keys \cup ItemKeys(w))]
  /\ Become(w, "par_items")
  /\ UNCHANGED <<shards, holes, aborted, calls, job, duty>>

\* The worker drops what it has.  The tasks that follow in the same piece of the
\* job are lost with it; the others are done all the same.
ParClosurePanics(w) ==
  /\ In(w, "par_closure") /\ ~In(Owner(w), "par_collect")
  /\ ClosureActs(w)
  /\ held' = [held EXCEPT ![w] = [i \in Slots |-> NoHandle]]
  /\ job' = [job EXCEPT ![Owner(w)].panicked = TRUE]
  /\ \E rest \in SUBSET duty[w].left : duty' = [duty EXCEPT ![w].left = rest]
  /\ Finish(w)
  /\ UNCHANGED <<holes, aborted, calls>>

\* (mutant) The worker goes on to its next shard with the guard of this one.
EndShardHolding(w) ==
  /\ In(w, "par_items") /\ Exhausted(held[w][1])
  /\ IF duty[w].left = {}
     THEN DropHandle(w, 1) /\ Finish(w) /\ UNCHANGED duty
     ELSE /\ \E x \in duty[w].left :
               /\ Continue(w, [Call("par_shard", None, 1) EXCEPT !.shard = x])
               /\ duty' = [duty EXCEPT ![w].left = @ \ {x}]
          /\ UNCHANGED held
  /\ UNCHANGED <<shards, holes, aborted, calls, job>>

EndShard(w) ==
  /\ In(w, "par_items") /\ Exhausted(held[w][1])
  /\ DropHandle(w, 1) /\ Finish(w)
  /\ UNCHANGED <<shards, holes, aborted, calls, job, duty>>

-----------------------------------------------------------------------------
\* The caller goes on when all tasks are done.  If a closure has panicked so does
\* the call, and what it has collected is dropped.  A map that it consumed is gone.
ParReturn(t) ==
  /\ call[t].op \in ParOps /\ job[t].todo = {}
  /\ \A w \in Workers : Busy(w) => Owner(w) # t
  /\ IF job[t].panicked
     THEN Finish(t) /\ held' = [held EXCEPT ![t] = [i \in Slots |-> NoHandle]]
     ELSE FinishWith(t, None) /\ UNCHANGED held
  /\ shards' = IF In(t, "into_par_iter")
               THEN [s \in Shards |-> [k \in Keys |-> None]] ELSE shards
  /\ job' = [job EXCEPT ![t] = NoJob]
  /\ UNCHANGED <<holes, aborted, calls, duty>>

-----------------------------------------------------------------------------
AllKeys == UNION {Present(s) : s \in Shards}
Unseen == [always |-> {}, ever |-> {}, given |-> [k \in Keys |-> 0]]

\* Worker w gives key k to the consumer of t in this step.
Gives(w, t, k) ==
  /\ Owner(w) = t /\ In(w, "par_items") /\ call'[w].op = "par_closure"
  /\ k \in held[w][1].keys \ held'[w][1].keys

SeenOf(t) ==
  IF call'[t].op \notin ParOps THEN Unseen
  ELSE IF call[t].op \notin ParOps
  THEN [Unseen EXCEPT !.always = AllKeys', !.ever = AllKeys']
  ELSE [always |-> IF In(t, "into_par_iter") THEN seen[t].always
                   ELSE seen[t].always \cap AllKeys',
        ever |-> seen[t].ever \cup AllKeys',
        given |-> [k \in Keys |-> seen[t].given[k]
                                    + Cardinality({w \in Workers : Gives(w, t, k)})]]

PInit ==
  /\ Init
  /\ job = [t \in Threads |-> NoJob]
  /\ duty = [w \in Workers |-> NoDuty]
  /\ seen = [t \in Threads |-> Unseen]

ParProceed(t) ==
  \/ ParReturn(t)
  \/ /\ t \in Workers
     /\ \/ Take(t) \/ TakeNext(t) \/ LockShard(t) \/ GiveItem(t) \/ ForEach(t)
        \/ Collect(t) \/ ParClosurePanics(t) \/ EndShard(t)

ParStep(t) ==
  \/ Step(t) /\ UNCHANGED <<job, duty>>
  \/ BeginIteration(t) \/ BeginExtend(t) \/ BeginOwning(t) \/ BeginView(t)
  \/ ParProceed(t)

PNext ==
  /\ \/ ~aborted /\ \E t \in Threads : ParStep(t)
     \/ Terminating /\ UNCHANGED <<job, duty>>
  /\ seen' = [t \in Threads |-> SeenOf(t)]

PSpec == PInit /\ [][PNext]_pvars

\* Besides what ClashMap says of threads: a worker goes on with its task, and
\* with one that is left when it is done.
PFairness ==
  \A t \in Threads :
    /\ WF_vars(~aborted /\ (Proceed(t) \/ ParProceed(t)))
    /\ SF_vars(~aborted /\ Drop(t))
PFairSpec == PSpec /\ PFairness
-----------------------------------------------------------------------------
\* A worker waits for a shard as a call does, and a caller for each worker that
\* has a piece of its job.
WaitsInPool(t, u) ==
  \/ WaitsFor(t, u)
  \/ /\ In(t, "par_shard")
     /\ \E i \in Slots :
          /\ held[u][i].shard = AtShard(t)
          /\ Exclusive(t) \/ held[u][i].kind \in ExclusiveKinds
  \/ call[t].op \in ParOps /\ u \in Workers /\ Busy(u) /\ Owner(u) = t

\* A task that nobody has taken waits until some worker is free.
WaitsInGroup(t, group) ==
  \/ \E u \in group : WaitsInPool(t, u)
  \/ job[t].todo # {} /\ Workers \subseteq group

\* No deadlock: in no group of callers and workers does each wait for one of the
\* group, or for all of the workers.  The workers lock shards in any order, but each
\* only one at a time.
NoCircularWaitInPool ==
  \A group \in (SUBSET Threads) \ {{}} : \E t \in group : ~WaitsInGroup(t, group)

\* A parallel iteration that returns has given every key that was in the map all
\* along to its consumer, none that was never there, and none twice, whichever
\* worker did which shard and whatever other threads did between; a collection
\* has a reference to each key that was given.
ParallelVisitsExactly ==
  [][\A t \in Threads : call[t].op \in Iterations /\ call'[t].op = "return" =>
       LET given == {k \in Keys : seen[t].given[k] > 0} IN
       /\ seen[t].always \subseteq given /\ given \subseteq seen[t].ever
       /\ \A k \in given : seen[t].given[k] = 1
       /\ In(t, "par_collect") => given = UNION {held'[t][i].keys : i \in Slots}]_pvars
=============================================================================
