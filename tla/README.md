# Clashmap, specified in TLA+

Clashmap is a concurrent hash map for Rust: an array of hash tables (shards),
each behind a readers-writer lock of the crate's own. This directory specifies
the lock, the sharded table, the handles that keep shards locked, the calls
of the map and of the set, the parallel iterators, and the map as its one owner sees
it. It checks them with TLC on small instances, and proves with TLAPS properties of
the lock for every number of threads, of the map, its traversals and its parallel
iterators for every number of threads, keys and shards, and of the owned map for
every word size, hash and shard amount.

`PROJECT.json` lists the runs, what each definition models (file, lines), the
mutants, the hazards and the theorems.

## The system

| component | source | state | operations |
|---|---|---|---|
| raw lock | `lock.rs` | one word (reader count, `ONE_WRITER`, two `PARKED` flags) and the two queues of parking_lot_core on its address | lock, try-lock and unlock, shared and exclusive; downgrade |
| detached guards | `util.rs` | the fact that a lock is held, apart from the data | drop, downgrade |
| sharded collection | `sharded.rs` | the shards, the shift of the shard index | lock the shard of a hash, go over the shards, clone |
| table | `table.rs` | none of its own | find, entry, iterate, retain, clear, len, reserve |
| handles | `tableref/{one,multiple,entry}.rs` | a guard (shared through an `Arc` by an iterator and what it yields) and a pointer into the shard | use, insert, remove, downgrade, clone, drop |
| iterators | `tableref/iter.rs`, `iter.rs` | the shards to come, the current guard and position | next, clone, drop |
| map | `map.rs` | none of its own | all calls by key, traversals, operators (`<<`, `>>`, `\|`, `-`, `&`); closures of the caller under the lock |
| entries and references | `mapref/{entry,one,multiple}.rs` | a handle of the table | or_insert, and_modify, insert, remove, replace, map, try_map, value_mut, ...; closures of the caller that panic or decline |
| entries by reference | `mapref/entry_ref.rs` | a vacant entry without its key | insert under a key |
| exclusive API | `entrymut.rs`, `entry_mut`, `insert_mut`, `try_reserve` | - | calls through `&mut` |
| set | `set.rs`, `iter_set.rs`, `setref/` | a map with unit values | as the map; the answers of insert and remove |
| read-only view | `read_only.rs` | shards without locks | lookups |
| parallel iterators | `rayon/` | the tasks of a call in rayon's pool | one task per shard, or per pair that is inserted; consumers of the caller |
| serialization | `serde.rs` | - | len, which is announced, then a traversal; a serializer that may refuse either |

How they interact: a call of the map hashes its key, asks the collection for the
shard, which locks it; guard and data are detached from each other and put
together again in a handle. The handle goes to the caller, who may keep it as
long as it likes; dropping it unlocks. Calls on the whole map lock one shard at a
time. An iterator locks the next shard *before* it lets the current one go, and
what it has yielded keeps its shard locked too. A parallel iterator locks each shard in the
thread of the pool that has its task, in any order. Closures of the caller (`view`,
`remove_if`, `alter`, `retain`, those of entries and of parallel consumers) run
under the lock and may panic.

What is hard, and what makes it correct:

- lock: no two writers, no writer beside readers; a parked thread is always
  somebody's to wake, whichever of the two flags are set when it parks; a thread
  that reads may read again; the assertions of `unlock_exclusive_slow` hold;
- table and map: a handle's data stays where it is while the handle lives; no
  two handles alias data that one may write; a call on a key is linearizable
  although it is a lookup and then a change; a panicking closure never shows
  a moved-out value; no threads wait in a circle;
- traversals and iterators: what they promise of a map that changes meanwhile;
- parallel iterators: each key is visited once, by whichever worker; workers that wait for
  shards and callers that wait for workers are no circle, also if a closure panics;
- the set: of all that insert or remove one key at once just one is told that it did;
- serialization: what the announced length has to do with the elements that follow;
- the owned map: the arithmetic of shard amounts, capacities and hashes on words
  of limited width; an element stays where its key is looked for through
  reallocations, failed reservations and changes of form; an owning iterator
  gives each pair once.

The list of hazards, each at its line, is in `PROJECT.json`.

## The modules

    AbstractRwLock            what callers may rely on of a readers-writer lock
      ^ refined by
    RawRwLock                 lock.rs, one action per atomic access
      RawRwLock_proofs        typing, mutual exclusion, assertions, refinement,
                              no wakeup is lost, nothing is left in the word
      MCRawRwLock             instances

    AtomicMap                 what the map promises: no shards, no locks
      ^ refined by
    ClashMap                  map.rs: the calls, EXTENDS
      ClashHandles            mapref: what callers do with entries and references, EXTENDS
      ClashTable              table.rs, sharded.rs, tableref: shards, handles
      ClashTable_proofs       what the operations of the table preserve
      ClashMap_proofs         typing, aliasing, validity, hidden holes
      ClashMapRefinement_proofs   the refinement of AtomicMap
      MCClashMap              instances
      ClashMapHistory         ClashMap and a history of its traversals
        ClashMapHistory_proofs    what traversals and iterators say of the map
        MCClashMapHistory     instances
      ParallelMap             ClashMap and the pool: rayon/map.rs
        ParallelMap_proofs    validity, aliasing, deadlock and visits with a pool
        MCParallelMap         instance
        ClashSet              ParallelMap with the calls and answers of the set
          ClashSet_proofs     the answers add up
          MCClashSet          instance

    PlainMap                  a function from keys to values
      ^ refined by
    OwnedMap                  the map of one owner, its view, its owning iterator
      OwnedMap_proofs         typing, index range, tag bits, placement, unique keys,
                              the refinement, the capacity asked for is there
      MCOwnedMap              instances

`ClashTable` takes a shard's lock to be what `AbstractRwLock` says: a guard is
acquired in one step when the other guards allow it. That is justified by the
refinement between the two lock modules, which is checked and proved.

### RawRwLock

The word is a record: reader count, writer, the two flags. Each thread has a
program counter over the operation it is in; an action is one atomic access
(load, compare-exchange, fetch-op, store) with the branch that follows it, or one
call of parking_lot_core. `parkedReaders` and `parkedWriters` are the queues of
address + 1 and of the address; `park` validates and enqueues in one step, as it
does under the bucket's lock. A weak compare-exchange may fail although the word
is as expected: `SharedFast`, `LockExclusive` and `LockSharedSlow` have that step. In the
loops that go on with the word that the failed exchange gives back
(`TryLockSharedSlow`, `LockExclusiveSlow`, `MarkReadersParked`, `MarkWritersParked`) such a failure
changes nothing, and is a stuttering step. Spinning is a nondeterministic choice to load again. A guard can be
dropped by a thread that did not acquire it (`GuardMarker = GuardSend`). The
memory orderings are not modelled: the steps are sequentially consistent, and that
`Acquire` and `Release` suffice for the data is outside the model.

Bounds: `OneWriter` is the reader count with all bits set, so `OneWriter - 1` readers
are the most; the runs set it to 3. `Slots` are the shared guards that
one thread can have, and so how deep reads nest. `MaxCalls` bounds the calls of each
thread.

### ClashTable, ClashHandles and ClashMap

`shards[s][k]` is the value of key `k` in shard `s`, or `None`. `held[t]` are the
handles of thread `t` in `MaxHandles` slots: a kind (`Ref`, `RefMut`, `RefMulti`,
`RefMutMulti`, `Occupied`, `Vacant`, `Iter`, `IterMut`), the shard that it keeps
locked and the keys that it gives access to. There is no variable for the locks:
a shard is locked by the handles that have it, exactly as in the code, where
the guard is a field of the handle (or an `Arc` that handles share). `call[t]` is
the call that `t` is in and how far it is; `holes` are the values that `alter` has
moved out; `calls[t]` counts down the calls that `t` may still make.

`ClashHandles` is what a caller does with an entry or a reference between its calls: each
operation of `mapref/entry.rs`, `mapref/one.rs` and `mapref/multiple.rs` as one
or two of the table's, with its closures, which may panic before or after they
have changed the value, or decline (`or_try_insert_with`, `try_map`). The guard must then be
in the result, or gone.

A call is one step per lock acquisition, release, closure of the caller and
return. What it does between these it does alone under an exclusive lock, or reads
under a shared one, so that no other step could tell the difference. Hash tables
are functions: rehashing, probing and capacity do not show.

`Ops` and `NestedReads` restrict what threads do to what a run is about.
`MayRead`, `MayWrite` and `MayAdvance` are the discipline that the docs ask of
callers ("May deadlock if called when holding ..."): `MayRead` is "no mutable
reference", `MayWrite` "no reference". For iterators the docs say nothing of
`next`; `MayAdvance` lets a thread go on with an iterator while it keeps what
that iterator yielded. With `NestedReads = FALSE` threads read only when they hold nothing,
which is stricter than the docs; the runs in which `IterMut` occurs need it
(finding 2).

A call that panics because of the caller's closure unwinds (`ClosurePanics`,
`RemoveIfMut`, whose closure may have changed the value by then, `Retain`) or aborts the process
(`AlterPanics`).

The operators are calls: `<<` is insert, `>>` is get, `|` get_mut, `-` remove and `&`
contains_key (`BeginOperator`). `serialize` goes over the map twice: `Announce` is `len`, whose
number goes to the serializer, which may refuse it; `SerializeEntries` is
`try_for_each`, which a refused element ends.

### AtomicMap

One function from keys to values, and a set of borrows. A call on one key takes effect
at one moment between call and return; a call on the whole map visits sets of keys,
each key once and only while nobody has it borrowed in a way that forbids it;
references borrow their key. `ClashMap` implements it under the mapping `Abs`: the
map is the union of the shards, the borrows are the keys of the handles, and the
keys that a traversal still has to visit are those of the shards that are left.

### ClashMapHistory

`ClashMap` and, for every traversal and iterator, which keys were in the map all
the time and at any time since it began, the sizes that the map had, and what
was yielded. The history is only read by properties.

### ParallelMap and ClashSet

`Workers` are threads that make no calls of their own: rayon's pool, which is
external. `job[t]` is what the call of `t` has still to hand out, and whether a closure
of it has panicked; `duty[w]` is the piece of a job that worker `w` has taken. How
a job is split is the pool's choice, so a worker takes any subset of the tasks that are
left. A task waits for the lock of its shard in the worker, as `par_iter` does
in the closure of its `flat_map_iter`. Elements are given to the consumer one by one: `for_each`, whose
closure may panic with the shard locked, or `collect`, which moves the references to
the caller, where they keep their shards locked after the call. A panic loses
the tasks that follow in the same piece, and is passed on by the call when the
others are done. `par_extend` has one task for each pair, which is a call of `insert`. The
calls that need the map or the view for themselves (`BeginAlone`) begin when no
thread has a handle or is in a call, and are the last of all. `seen` is a history, only read by a property.

`ClashSet` has the steps of `ParallelMap` for one value. Each call of the set is a
call of the map under the map's name; what the set adds is its choice of calls and what it makes of
the map's answer: `insert` returns true if the map had no value, `remove` the key if there
was one. `answered` counts these answers.

### OwnedMap and PlainMap

What `ClashTable` takes as given, that a key has one shard, which is there and in
which its elements are found, is worked out here, for a map that is owned or
borrowed mutably: nobody else sees it, and each call is one step. `unit` is
`2^shift`, so that a shift is a multiplication or a division. A shard is a hash
table: its elements, each with the hash that it was filed under, and its `room`.
A lookup sees elements that have the hash it asks for; rehashing files each
element under the hash of its key. `entry_mut` makes room for one more
element, whether it is needed or not; a table that cannot grow (`Rooms` is
finite) stops the process, or makes `try_reserve` return an error with the shards
before it already grown. `form` says whether the owner has a map, a `ReadOnlyView`
or an `OwningIter`; `_determine_shard` is in the source twice, and so in the
model (`ShardIndex`, `ViewIndex`). `checked` tells a build with overflow checks from
one without. `asked` is bookkeeping for `RoomIsAsAsked`.

`extend`, `from_iter` and `visit_map` are steps of `New` and `InsertMut`, one
for each pair. The chain `and_modify(..).or_insert(..)` is two steps, each of
which looks the key up. `PlainMap` has no shards, hashes or forms: what is
left of a map, of its view and of its iterator is one function.

A shard amount of 1 is refused (`sharded.rs:73`), although it is a power of two
"greater than 0", as the doc of `with_shard_amount` asks: the shift would be the
width of a word. Without overflow checks a capacity within one shard amount of
`usize::MAX` wraps around and gives a map without any; `RoomIsAsAsked` says so.

Hashes are 64 bits and indices `usize`; the model has one word size for both,
which is a 64-bit target. On others the cast cuts the hash off before `ShardIndex`, and
`IndexInRange` holds of what is left just the same.

## The runs

| run | question | instance |
|---|---|---|
| `lock_safety` | exclusion, the word agrees with the guards, assertions, reentrant reads, every parked thread is somebody's to wake, refinement of `AbstractRwLock` | 4 threads, two guards per thread |
| `lock_liveness` | does every call return | 3 threads, fair |
| `lock_try_write` | finding 1 | 4 threads, one guard per thread |
| `map_calls` | references valid and unaliased, linearizable, no circle | 2 threads, 2 calls each of any call on a key, one thread also of those that do not wait; 2 shards, 2 values |
| `map_traversals` | is each key visited once, under its lock; what `len`, a copy, `clear`, `serialize` and the iterators say of a map that changes; clones and what was yielded stay valid; linearizable | one traversal, iterator or `alter_all`, two other calls meanwhile, another iterator among them; 3 keys in 2 shards |
| `map_liveness` | circles of callers and workers, also through a pool all of whose workers wait; aliasing; does every call return; are parallel visits exact | a caller of the pool, which has two workers, and one that reads, views (with a closure that may panic), inserts or goes over the map; `iter_mut` and the calls that own the map among them; 3 keys in 2 shards, fair |
| `set_answers` | do the answers of insert and remove add up; are parallel visits exact | a caller of the pool (`par_extend`, `par_collect`) or of the set, two workers, and two other calls; 3 keys in 2 shards |
| `map_circular_wait` | finding 2 | |
| `map_is_empty` | finding 3 | |
| `map_view_panic` | finding 4 | |
| `owned_map` | index range, placement, unique keys, capacity, spread of the hashes, refinement of `PlainMap` | every call of the owner; words of 9 bits; 3 keys, two of which have the same hash |
| `owned_entry_ref` | finding 5 | the same, with foreign keys |

Why these bounds are enough to be of interest: two shards, one with two keys, tell
"same shard", "other shard" and "other key of the same shard" apart; two calls
give a lookup time to go stale and the other thread time to do and undo; two
handles hold an iterator beside its clone, or beside what it yielded, and let
either go first. In the lock, three threads are a holder, a parked thread and one that
barges in, and four are needed for two parked writers and a parked reader behind a
holder; `OneWriter = 3`, so that two readers are the most and the count does
overflow. In the pool, two workers and two shards are what it takes to lock the shards
in the order that another thread does not, or to have one worker wait for what the
other holds; three keys let one piece of a job have one shard, or both. In `set_answers` the workers
are alike and so are the two keys of one shard (`SYMMETRY`), which is sound since the run
checks an invariant and an action property, and no liveness. In the owned map, 9 bits are 7 for the tag of hashbrown and 2 for the
index, which is the least that can be got wrong: two or four shards, and amounts of 0, 1
and 3 to be refused. The capacities (`Capacities`) are nothing, one, one that does not divide
evenly and two near the end of the word, the last of which overflows; tables come in sizes 0, 1
and 3 (`Rooms`), so that three keys in a shard make it grow twice; of the reservations
(`Additionals`) one fits sometimes and one never. Deadlock checking is on in every run: the map stops only when all calls
are made and all guards dropped, or the process is aborted.

Every property has a mutant: a plausible mistake in the code (marked `(mutant)` in
the modules) with which TLC finds the property violated.

## Fairness

`RawRwLock`: a thread in a call keeps running and a guard is dropped in the end (weak
fairness of both), and the weak compare-exchange of `lock_shared_slow` does not fail for no reason
every time that it is tried (strong fairness of its success). `ClashMap`: a thread in a call keeps running whenever it can
(weak fairness), closures return, and a caller drops its handles in the end, also
if it calls `next` between (strong fairness of `Drop`: a handle is a value, dropped at
the end of its scope). `ParallelMap`: besides, a worker goes on with its task, and with one that is left
when it is done (`PFairness`); the pool has threads that do nothing else, so a job that has been
handed to it is taken. Nobody is made to call anything. The number of calls is
bounded, so that the starvation which an unfair lock permits with an endless
stream of other calls is not in question.

## What is proved

`RawRwLock_proofs`, for any set of threads, any number of guards and any
`OneWriter`:

- `TypeCorrect`, `MutualExclusionHolds`, `WordAgreesWithGuardsHolds`,
  `UnlockAssertionsHold`: one inductive invariant. Mutual exclusion alone is not
  inductive: an unlock subtracts from the word, so the word must be known to
  agree with the guards (their number is a cardinality), and
  the assertions need to know which flags can be set in which words and what the program counters
  say of the word (a thread in `unlock_exclusive_slow` still owns the word).
- `LockImplementsAbstractLock`: each step is a step of `AbstractRwLock` or stutters.

- `NoLostReaderWakeup`, `NoLostWriterWakeup`. The invariant
  says, for each queue, who is responsible for it: the flag in the word, an
  unlocker between its clearing of the flag and its unpark, or a woken writer that
  will put the flag back (`acquire_with`). The case in which both flags are set is the
  hard one: `unlock_exclusive_slow` leaves `WRITERS_PARKED` set and wakes only the readers.
- `QuietWordIsZeroHolds` needs more (`FlagHasFinder`): whenever `WRITERS_PARKED` is set, somebody
  is still to come upon it: a reader who holds the lock, the last one on its way to
  `unlock_shared_slow`, a reader who is coming or asleep, or the writer who owns the
  word.
- `ReentrantReadNeverParksHolds` says that who sleeps in `lock_shared` holds
  nothing (`SleepersHoldNothing`): a reader parks only if the word that it saw was write-locked,
  and it looked at the word while it had its other guard.

`ClashTable_proofs` and `ClashMap_proofs`, for any set of threads, any finite set of keys,
any number of shards and handles, whatever calls the threads make:

- `TypeCorrect`, `RefsStayValidHolds`, `AliasingXorMutabilityHolds`, `HolesAreHiddenHolds`.
  None is inductive. The invariant `IInv` has a part of the table's, `TableInv`: elements are in
  the shards of their keys (`Placed`); a handle has keys of the shard that it keeps
  locked, which are there, or absent if it is a vacant entry, and only an iterator has more than one
  (`HandlesFit`); a handle with an exclusive guard is the only one of its shard, but for an
  `IterMut` and what it has yielded, which share the guard and have different keys
  (`GuardsExclude`). `ClashTable_proofs` shows what each operation of the table needs to preserve it. The
  other part is the map's: `CallsFit` says which handle each stage of a call has in
  its slot (none before its lookup), without which an insertion could go through a handle that is not there any
  more, and that what a traversal has gathered is of the shards that it has done;
  `HolesFit`, that a hole is the key of the call that made it.
- `NoCircularWaitHolds`, of `DeadlockFreeCallers`: either no thread reads the map with a
  reference held, or none has an `IterMut`. Finding 2 shows that callers who do both can deadlock.
  It needs to be known what a thread may hold in each stage of a call (`CallersPatient`). If
  reads do not nest, a thread that waits wants a shard after all those that it
  holds, as iterators go through the shards in order; the thread that waits for the last one
  (`LastWaiter`) waits for somebody who does not wait. If nobody has an `IterMut`, a thread that
  holds a shard and waits is a reader and holds only shared guards, and readers do not wait
  for readers.

`ClashMapRefinement_proofs`: `ClashMapImplementsAtomicMap`, from `IInv`. The borrows of the
atomic map are the keys of the handles. A lock that a lookup acquires says that no borrow
is in its way (`NobodyBorrows`, `NobodyBorrowsMut`), one lemma for each way in which the
handles change says what becomes of the borrows (`Borrowing`, `Releasing`,
`Keeping`, `Dropping`, `Downgrading`, `Splitting`), and `HandlesAreApart` that the release
of an exclusive handle leaves none behind. The stages of a call are one call of the
atomic map (`AbsStays`, `AbsBecomes`): a lookup that finds its key is `Hold`, the step
that stores is the moment at which the call takes effect. A traversal visits the keys of one shard at a time
(`GoingOn`), and what it copies needs the part of `IInv` on what it has gathered.

`ClashMapHistory_proofs`, of `ClashMap` with the history of its traversals: `IteratorsYieldOnceHolds`,
`IteratorsYieldWhatStaysHolds`, `LenIsBoundedHolds`, `CopyHasWhatStaysHolds`, `AnnouncedLenIsRightHolds`,
`ClearLeavesOnlyNewKeysHolds`. All but the first are action properties: they say of the step in which a
traversal ends what it has seen, and follow from one invariant, `HInv`, which says the same of a traversal
under way, of the shards that it has done: what was there all along was seen in them, what was seen
was there once, and the number is between the two (`TraversalFits`). An iterator is at a shard, which
it keeps locked: what was there all along has been yielded or is still to come
(`NonePassed`), never both (`YieldsFit`). A key has one shard, so what is yielded of a shard that comes
later is new, although the keys of earlier shards may have come and gone.
`is_empty` gives no such answer (finding 3).

`ParallelMap_proofs`, for any number of callers and workers, of which there is at least one, as in
rayon's pool, and for every way to split the jobs:

- `RefsStayValidInPoolHolds`, `AliasingInPoolHolds`. A worker locks, yields and inserts with
  the operations of the table, so `ClashTable_proofs` serves again, and the steps of callers are those of
  `ClashMap`, of which `ClashMap_proofs` shows that `IInv` is kept. `PoolInv` is what the pool
  adds: tasks and duties are those of a caller that waits in a call of their kind (`JobsFit`, `DutiesFit`);
  which handles a worker has in each stage (`WorkersFit`); what a caller has collected is in
  the slot of its shard, so that the references of two workers never meet (`CallersFit`); a call that
  owns the map is in nobody's way (`AloneFits`).
- `NoCircularWaitInPoolHolds`, of `PoolDeadlockFree`. A group waits in a circle if each of it waits
  for one of the group to release a shard or to finish a piece of its job, or has tasks that nobody has
  taken while all workers are of the group. (The last case was found missing when the
  proof was written: a pool all of whose workers wait for shards that a caller of the pool holds is a deadlock in
  which the caller waits for none of them in particular.) As without a pool there are two reasons why there is
  no circle. If reads do not nest and nobody collects, who holds a shard and waits is a caller that waits for a later one:
  a worker waits only when it holds nothing, and so does a caller that waits for the pool. The
  holder of the last shard that is waited for then waits for nothing (`NoneStuckInOrder`). If nobody goes over the
  shards with exclusive locks, who holds a shard while it waits holds shared guards only, and nobody waits for
  those but writers, who hold nothing; a caller that collects waits for workers that only
  read, provided that the tasks in the pool all do (`NoneStuckOnShares`).
  Without these hypotheses there are deadlocks: beside `iter_mut` or `alter_all` a collection holds one shard and
  wants another, as in finding 2; beside `par_extend` all workers can come to wait for shards
  that the references of a collection keep locked, and none is left to finish the collection.
- `ParallelVisitsExactlyHolds`, an action property: it says of the step in which a call returns what the
  consumer was given since it began. `VInv` adds to `PInv`, of each call under way, that every shard is the task of
  one worker at most, or still to be taken (`TasksApart`), and what has become of each key (`KeyFits`). A key
  is `Pending` as long as its shard waits to be locked or a worker has it still to yield; it has
  not been given then, and no step makes it pending again, so it is given once. A key that was
  there all along is in its shard when that is locked, and from then on the iterator keeps it there, so that
  it is given before the worker leaves, unless a closure panics, and then the call does not return. `into_par_iter`
  takes the elements away while other shards wait; that it finds all of them there rests on `AloneFits`.
  What a collection has got, and is about to get from a worker, is what was given (`CollectedStays`).

`ClashSet_proofs`: `AnswersAddUpHolds`, with whatever calls of the set, in the pool or not. `SetInv` adds to
the invariant of the pool that the calls are those of the set (`StagesOfSet`) and that a caller has an entry only in the
stages of `insert` and `remove` that need one (`CallersRead`), so that nothing is stored without an answer; and
an entry says rightly whether there is an element (`EntryOfCall`), because it fits and excludes all others.
`SetVisitsExactlyHolds`: a behaviour of the set is one of the map, so its parallel iterators visit what those of the map do.

`OwnedMap_proofs`, for any word size, hash function, set of keys, shard amounts
and table sizes:

- `TypeCorrect`, `IndexInRangeHolds`: the type invariant says that `unit` divides the word and
  that there are `Word / unit` shards; an index is a number below the word
  divided by `unit`, so it is below that quotient (`QuotientBound`). This is the claim
  of the `SAFETY` comment in `_determine_shard`.
- `ElementsAreFiledHolds`, `KeysAreUniqueHolds`, when `entry_ref` is given no foreign key.
  They need each other's help: an insertion adds a key only if the lookup finds none, and the
  lookup finds all there are only because every element is filed. Rehashing leaves filed
  elements as they are (`RehashFiled`).
- `TagBitsAreLeftHolds`. It rests on `WordIsPowerOfTwo`, which says without an exponent that a word has at
  least the seven bits of the tag and nothing but powers of two for divisors: each
  divisor is a multiple of 128 or divides it. If the shards leave the seven bits, `unit` is therefore a
  multiple of 128 (`UnitIsOverTag`), and the hashes of a shard, short of their tags, are an interval of
  `unit / 128` (`HashesOfShard`).
- `OwnedMapImplementsPlainMap`. The elements that are left, in
  the shards or in the iterator, have different keys and so are a function; each call
  leaves them, or adds, replaces or removes one. The iterator needs an invariant of its own:
  what it has at hand comes from shards that it has begun, so that nothing is left twice.
- `RoomIsAsAskedHolds`, with foreign keys or without. The arithmetic is
  that `n * ((c + n - 1) / n) >= c` unless the sum wraps (`CapacityIsShared`); the
  rest is that no table ever holds more than it has room for, which needs the tables to be
  finite and every insertion to be prepared by `entry_mut`.

The proofs rest on the assumptions on the constants named in the modules. No theorem assumes
fairness or bounds the number of threads. `ElementsAreFiledHolds`, `KeysAreUniqueHolds` and
`OwnedMapImplementsPlainMap` have `~ForeignKeys` as a
hypothesis, without which they are false (finding 5), `NoCircularWaitHolds` has
`DeadlockFreeCallers` (finding 2), and `NoCircularWaitInPoolHolds` has `PoolDeadlockFree`.

Checked by TLC only: liveness, which is outside TLAPS (`EveryCallReturns` of the lock and of the
pool). Every other property that a passing run checks is proved.

## Findings

1. `try_lock_exclusive` requires the whole word to be 0 (`lock.rs:28`), so it
   also fails on a lock that nobody holds while `WRITERS_PARKED` is left in the
   word: for a moment between the last reader's `fetch_sub` (`lock.rs:70`) and the exchange that
   clears the flag (`lock.rs:313`), and, beyond any unlock, once `unlock_exclusive_slow` has stored
   the flag (`lock.rs:178`) and woken only the readers, until a reader has come and gone or
   a writer in `lock_exclusive` has taken the lock. `try_get_mut` and `try_entry` then say "The shard
   was locked". The run shows the second case; the property leaves out locks that somebody is
   still unlocking.
2. `IterMut::next` waits for the next shard with the guard of the current one held
   (`tableref/iter.rs:129`). A thread that holds one `Ref` and calls `get`, which the docs
   allow, can deadlock with it. The docs also say that locking behaviour may be ignored across
   threads.
3. `is_empty` can return true of a map that is never empty (`table.rs:229`).
4. `view` is documented to abort if its closure panics (`map.rs:761`); it unwinds (`map.rs:762`).
5. `VacantEntryRef::insert` and `insert_entry` are documented to use "the VacantEntry's key". A vacant entry
   by reference has none: they take a key, and file it under the hash of
   the key that was looked up (`mapref/entry_ref.rs:119`). If it is another key,
   no lookup finds it there until the table happens to be rehashed, and then only if it is
   in the right shard.

## What is not modelled

- Memory orderings; parking_lot_core beyond its contract (external).
- Probing, and allocation failure outside `try_reserve`, which aborts; drops of keys and
  values that panic. `capacity` locks as `len` does.
- A handle that is sent to another thread (only the lock's guards are, in `RawRwLock`).
- Elements whose key is changed through the entries of a raw `ClashTable`.
- `Deserialize`, `extend` and `from_iter` beyond what is said above: a new map and an
  `insert_mut` for each pair. `from_par_iter` is a new map and `par_extend`.
- Callers that are threads of the pool themselves, and closures that call the pool: a worker may
  then steal a task while it waits for another, with guards of its own further down its stack.
- A `par_extend` that is given one key twice: `BeginExtend` has a task for each key. Two inserts of
  one key at once are there all the same, when the other caller inserts a key of the `par_extend`.
- Collecting the references of `par_iter_mut`: the consumer holds one shard and waits for the next,
  so the circle is there by construction, as it is with `IterMut` (finding 2). No run has a collection beside a call
  that goes over the shards with exclusive locks, or beside another one in the pool that writes.
- `default_shard_amount` (the number of processors), `typesize`, `Debug` beyond
  being traversals, and the methods of `EntryRef` that are commented out in the source.

## What is done and what is left

Done: the lock with its proofs; the table, the handles, the calls, the traversals and the
proofs of what they keep, that they implement the atomic map and do not deadlock; the parallel iterators; the set; serialization; the owned map with its
proofs.

Left:

1. A pool whose threads call the map again.
