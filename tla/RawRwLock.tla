----------------------------- MODULE RawRwLock ------------------------------
(***************************************************************************)
(* The readers-writer lock of src/lock.rs, one action per atomic access to *)
(* the lock word or to the parking lot.                                    *)
(*                                                                         *)
(* The word of the code is a reader count in the high bits and two flags   *)
(* in the low bits; ONE_WRITER is the count with all its bits set.  Here a *)
(* word is a record of the three fields, and OneWriter is that count, so   *)
(* "checked_add(ONE_READER) overflows" is "count = OneWriter".             *)
(*                                                                         *)
(* The parking lot (parking_lot_core) is external: a queue of parked       *)
(* writers, a set of parked readers, and park / unpark_one / unpark_all,   *)
(* each atomic because it runs under the lock of its queue.                *)
(***************************************************************************)
EXTENDS Naturals, Sequences, FiniteSets

CONSTANTS
  Threads,
  Slots,      \* places for the shared guards that one thread holds at a time
  OneWriter,  \* the reader count with all its bits set
  MaxCalls    \* bound: how many calls each thread makes, releases not counted

\* OneWriter is all ones, at least two bits wide.
ASSUME OneWriterAssumption == OneWriter \in Nat /\ OneWriter > 1 /\ OneWriter % 2 = 1
ASSUME MaxCallsAssumption == MaxCalls \in [Threads -> Nat]

VARIABLES
  state,          \* the lock word
  readGuards,     \* shared guards alive: <<thread, slot>>
  writers,        \* threads with an exclusive guard
  pc,             \* where each thread is inside a lock operation
  seen,           \* the local variable `state`: the word last read
  acquireWith,    \* the local variable `acquire_with` of a writer
  parkedWriters,  \* the parking lot's queue at the address of the lock
  parkedReaders,  \* the threads parked at that address + 1
  calls           \* calls each thread may still make

vars == <<state, readGuards, writers, pc, seen, acquireWith, parkedWriters,
          parkedReaders, calls>>
guards == <<readGuards, writers>>
parked == <<parkedWriters, parkedReaders>>

Word(n, r, w) == [count |-> n, readersParked |-> r, writersParked |-> w]
Unlocked == Word(0, FALSE, FALSE)
WriteLocked(word) == word.count = OneWriter
Words == [count : 0..OneWriter, readersParked : BOOLEAN, writersParked : BOOLEAN]

PCs == { "idle",
         "sharedFast", "sharedLoad", "sharedLoop", "sharedParked",
         "tryFast", "tryLoad", "tryLoop",
         "exclusiveLoad", "exclusiveLoop", "exclusiveParked",
         "unlockLoad", "unlockRelease", "unlockLastReader",
         "wakeWriter", "wakeReaders" }

Init ==
  /\ state = Unlocked
  /\ readGuards = {} /\ writers = {}
  /\ pc = [t \in Threads |-> "idle"]
  /\ seen = [t \in Threads |-> Unlocked]
  /\ acquireWith = [t \in Threads |-> FALSE]
  /\ parkedWriters = << >> /\ parkedReaders = {}
  /\ calls = MaxCalls

-----------------------------------------------------------------------------
(* Steps that the operations share. *)

Goto(t, label) == pc' = [pc EXCEPT ![t] = label]
Read(t, word) == seen' = [seen EXCEPT ![t] = word]
Forget(t) == seen' = [seen EXCEPT ![t] = Unlocked]

HasShared(t) == \E i \in Slots : <<t, i>> \in readGuards
FreeSlot(t) == {i \in Slots : <<t, i>> \notin readGuards}

\* A call that a thread makes.
Call(t) ==
  /\ pc[t] = "idle" /\ calls[t] > 0
  /\ calls' = [calls EXCEPT ![t] = @ - 1]

\* The compare_exchange that adds ONE_READER succeeded.
AcquireShared(t) ==
  /\ state' = [state EXCEPT !.count = @ + 1]
  /\ \E i \in FreeSlot(t) : readGuards' = readGuards \cup {<<t, i>>}
  /\ Goto(t, "idle") /\ Forget(t)
  /\ UNCHANGED <<writers, acquireWith, parked, calls>>

-----------------------------------------------------------------------------
(* lock_shared and try_lock_shared *)

\* try_lock_shared_fast reads the word.  A thread calls lock_shared only
\* when it holds no mutable reference: that is the documented use.
LockShared(t) ==
  /\ Call(t) /\ t \notin writers /\ FreeSlot(t) # {}
  /\ Read(t, state) /\ Goto(t, "sharedFast")
  /\ UNCHANGED <<state, guards, acquireWith, parked>>

TryLockShared(t) ==
  /\ Call(t) /\ FreeSlot(t) # {}
  /\ Read(t, state) /\ Goto(t, "tryFast")
  /\ UNCHANGED <<state, guards, acquireWith, parked>>

\* try_lock_shared_fast: a weak compare_exchange, that may fail spuriously.
SharedFast(t) ==
  /\ pc[t] \in {"sharedFast", "tryFast"}
  /\ \/ /\ seen[t].count + 1 < OneWriter /\ state = seen[t]
        /\ AcquireShared(t)
     \/ /\ Goto(t, IF pc[t] = "tryFast" THEN "tryLoad" ELSE "sharedLoad")
        /\ Forget(t)
        /\ UNCHANGED <<state, guards, acquireWith, parked, calls>>

TryLockSharedLoad(t) ==
  /\ pc[t] = "tryLoad"
  /\ Read(t, state) /\ Goto(t, "tryLoop")
  /\ UNCHANGED <<state, guards, acquireWith, parked, calls>>

TryLockSharedSlow(t) ==
  /\ pc[t] = "tryLoop"
  /\ \/ /\ seen[t].count + 1 >= OneWriter             \* returns false
        /\ Goto(t, "idle") /\ Forget(t)
        /\ UNCHANGED <<state, guards, acquireWith, parked, calls>>
     \/ /\ seen[t].count + 1 < OneWriter /\ state = seen[t]
        /\ AcquireShared(t)
     \/ /\ seen[t].count + 1 < OneWriter /\ state # seen[t]
        /\ Read(t, state)
        /\ UNCHANGED <<state, guards, pc, acquireWith, parked, calls>>

LockSharedLoad(t) ==
  /\ pc[t] = "sharedLoad"
  /\ Read(t, state) /\ Goto(t, "sharedLoop")
  /\ UNCHANGED <<state, guards, acquireWith, parked, calls>>

\* (mutant) The word is not loaded again.
LockSharedSlowNoReload(t) ==
  /\ pc[t] = "sharedLoop" /\ seen[t].count + 1 < OneWriter
  /\ IF state = seen[t] THEN AcquireShared(t) ELSE UNCHANGED vars

\* The word read was not write-locked: add a reader, or load again if the weak
\* compare_exchange failed, for the word moved on or for no reason.
LockSharedSlow(t) ==
  /\ pc[t] = "sharedLoop" /\ seen[t].count + 1 < OneWriter
  /\ \/ state = seen[t] /\ AcquireShared(t)
     \/ /\ Goto(t, "sharedLoad") /\ Forget(t)
        /\ UNCHANGED <<state, guards, acquireWith, parked, calls>>

\* One more reader would look like a writer: the assertion "reader count
\* overflowed" panics.  The thread unwinds, so it drops its guards (by
\* UnlockShared) and calls nothing any more.
ReaderCountOverflowed(t) ==
  /\ pc[t] = "sharedLoop" /\ seen[t].count + 1 = OneWriter
  /\ calls' = [calls EXCEPT ![t] = 0]
  /\ Goto(t, "idle") /\ Forget(t)
  /\ UNCHANGED <<state, guards, acquireWith, parked>>

\* The word read was write-locked: spin, or set READERS_PARKED.
MarkReadersParked(t) ==
  /\ pc[t] = "sharedLoop" /\ WriteLocked(seen[t]) /\ ~seen[t].readersParked
  /\ \/ /\ Goto(t, "sharedLoad") /\ Forget(t)
        /\ UNCHANGED state
     \/ /\ state = seen[t]
        /\ state' = [state EXCEPT !.readersParked = TRUE]
        /\ Read(t, state') /\ UNCHANGED pc
     \/ /\ state # seen[t]
        /\ Read(t, state) /\ UNCHANGED <<state, pc>>
  /\ UNCHANGED <<guards, acquireWith, parked, calls>>

\* (mutant) A reader also parks if only a writer waits.
ParkReaderBehindWriters(t) ==
  /\ pc[t] = "sharedLoop" /\ seen[t].writersParked
  /\ parkedReaders' = parkedReaders \cup {t} /\ Goto(t, "sharedParked") /\ Forget(t)
  /\ UNCHANGED <<state, guards, acquireWith, parkedWriters, calls>>

\* park: it sleeps only if the word is still write-locked and marked.
ParkReader(t) ==
  /\ pc[t] = "sharedLoop" /\ WriteLocked(seen[t]) /\ seen[t].readersParked
  /\ Forget(t)
  /\ IF WriteLocked(state) /\ state.readersParked
     THEN parkedReaders' = parkedReaders \cup {t} /\ Goto(t, "sharedParked")
     ELSE UNCHANGED parkedReaders /\ Goto(t, "sharedLoad")
  /\ UNCHANGED <<state, guards, acquireWith, parkedWriters, calls>>

-----------------------------------------------------------------------------
(* lock_exclusive and try_lock_exclusive *)

AcquireExclusive(t, word) ==
  /\ state' = word
  /\ writers' = writers \cup {t}
  /\ UNCHANGED <<readGuards, parked>>

\* The first compare_exchange expects a word that is all zero, and is weak.
\* A thread calls lock_exclusive only when it holds no reference at all.
LockExclusive(t) ==
  /\ Call(t) /\ t \notin writers /\ ~HasShared(t)
  /\ \/ /\ state = Unlocked
        /\ AcquireExclusive(t, Word(OneWriter, FALSE, FALSE))
        /\ UNCHANGED pc
     \/ /\ Goto(t, "exclusiveLoad")
        /\ UNCHANGED <<state, guards, parked>>
  /\ UNCHANGED <<seen, acquireWith>>

\* (mutant) Only another writer keeps this one out.
TryLockExclusiveOverReaders(t) ==
  /\ Call(t)
  /\ IF ~WriteLocked(state)
     THEN AcquireExclusive(t, Word(OneWriter, FALSE, FALSE))
     ELSE UNCHANGED <<state, guards, parked>>
  /\ UNCHANGED <<pc, seen, acquireWith>>

TryLockExclusive(t) ==
  /\ Call(t)
  /\ IF state = Unlocked
     THEN AcquireExclusive(t, Word(OneWriter, FALSE, FALSE))
     ELSE UNCHANGED <<state, guards, parked>>
  /\ UNCHANGED <<pc, seen, acquireWith>>

LockExclusiveLoad(t) ==
  /\ pc[t] = "exclusiveLoad"
  /\ Read(t, state) /\ Goto(t, "exclusiveLoop")
  /\ UNCHANGED <<state, guards, acquireWith, parked, calls>>

\* No reader and no writer in the word read: take it, keeping its flags and
\* adding WRITERS_PARKED if this writer has been parked before.
LockExclusiveSlow(t) ==
  /\ pc[t] = "exclusiveLoop" /\ seen[t].count = 0
  /\ IF state = seen[t]
     THEN /\ AcquireExclusive(t, Word(OneWriter, state.readersParked,
                                      state.writersParked \/ acquireWith[t]))
          /\ acquireWith' = [acquireWith EXCEPT ![t] = FALSE]
          /\ Goto(t, "idle") /\ Forget(t)
     ELSE /\ Read(t, state)
          /\ UNCHANGED <<state, guards, acquireWith, parked, pc>>
  /\ UNCHANGED calls

MarkWritersParked(t) ==
  /\ pc[t] = "exclusiveLoop" /\ seen[t].count # 0 /\ ~seen[t].writersParked
  /\ \/ /\ Goto(t, "exclusiveLoad") /\ Forget(t)
        /\ UNCHANGED state
     \/ /\ state = seen[t]
        /\ state' = [state EXCEPT !.writersParked = TRUE]
        /\ Read(t, state') /\ UNCHANGED pc
     \/ /\ state # seen[t]
        /\ Read(t, state) /\ UNCHANGED <<state, pc>>
  /\ UNCHANGED <<guards, acquireWith, parked, calls>>

ParkWriter(t) ==
  /\ pc[t] = "exclusiveLoop" /\ seen[t].count # 0 /\ seen[t].writersParked
  /\ Forget(t)
  /\ IF state.count # 0 /\ state.writersParked
     THEN /\ parkedWriters' = Append(parkedWriters, t)
          /\ Goto(t, "exclusiveParked") /\ UNCHANGED acquireWith
     ELSE /\ acquireWith' = [acquireWith EXCEPT ![t] = TRUE]
          /\ Goto(t, "exclusiveLoad") /\ UNCHANGED parkedWriters
  /\ UNCHANGED <<state, guards, parkedReaders, calls>>

-----------------------------------------------------------------------------
(* unlock_shared, unlock_exclusive and downgrade *)

\* (mutant) The lock is released and the guard stays alive.
UnlockSharedTwice(t) ==
  /\ pc[t] = "idle" /\ HasShared(t)
  /\ state' = [state EXCEPT !.count = @ - 1]
  /\ UNCHANGED <<guards, pc, seen, acquireWith, parked, calls>>

\* fetch_sub; the last reader of a lock on which writers are parked goes on
\* to wake one.
UnlockShared(t) ==
  /\ pc[t] = "idle"
  /\ \E i \in Slots : /\ <<t, i>> \in readGuards
                      /\ readGuards' = readGuards \ {<<t, i>>}
  /\ state' = [state EXCEPT !.count = @ - 1]
  /\ IF state = Word(1, FALSE, TRUE)
     THEN Goto(t, "unlockLastReader")
     ELSE UNCHANGED pc
  /\ UNCHANGED <<writers, seen, acquireWith, parked, calls>>

\* (mutant) A writer is woken, but the flag is not cleared.
UnlockSharedSlowKeepsFlag(t) ==
  /\ pc[t] = "unlockLastReader"
  /\ Goto(t, IF state = Word(0, FALSE, TRUE) THEN "wakeWriter" ELSE "idle")
  /\ UNCHANGED <<state, guards, seen, acquireWith, parked, calls>>

UnlockSharedSlow(t) ==
  /\ pc[t] = "unlockLastReader"
  /\ IF state = Word(0, FALSE, TRUE)
     THEN state' = Unlocked /\ Goto(t, "wakeWriter")
     ELSE UNCHANGED state /\ Goto(t, "idle")
  /\ UNCHANGED <<guards, seen, acquireWith, parked, calls>>

\* (mutant) The compare_exchange is a weak one.
UnlockExclusiveWeak(t) ==
  /\ pc[t] = "idle" /\ t \in writers
  /\ Goto(t, "unlockLoad")
  /\ UNCHANGED <<state, guards, seen, acquireWith, parked, calls>>

UnlockExclusive(t) ==
  /\ pc[t] = "idle" /\ t \in writers
  /\ IF state = Word(OneWriter, FALSE, FALSE)
     THEN state' = Unlocked /\ writers' = writers \ {t} /\ UNCHANGED pc
     ELSE UNCHANGED <<state, writers>> /\ Goto(t, "unlockLoad")
  /\ UNCHANGED <<readGuards, seen, acquireWith, parked, calls>>

UnlockExclusiveLoad(t) ==
  /\ pc[t] = "unlockLoad"
  /\ Read(t, state) /\ Goto(t, "unlockRelease")
  /\ UNCHANGED <<state, guards, acquireWith, parked, calls>>

\* The release that unlock_exclusive_slow computes from the flags it saw:
\* with both, the readers are woken and WRITERS_PARKED stays set for them to
\* find; with one, the word is cleared, unless the other flag was set since.
UnlockExclusiveSlow(t) ==
  /\ pc[t] = "unlockRelease"
  /\ \/ /\ seen[t].readersParked /\ seen[t].writersParked
        /\ state' = Word(0, FALSE, TRUE)
        /\ writers' = writers \ {t}
        /\ Goto(t, "wakeReaders") /\ Forget(t)
     \/ /\ ~(seen[t].readersParked /\ seen[t].writersParked)
        /\ state = seen[t]
        /\ state' = Unlocked
        /\ writers' = writers \ {t}
        /\ Goto(t, IF seen[t].readersParked THEN "wakeReaders" ELSE "wakeWriter")
        /\ Forget(t)
     \/ /\ ~(seen[t].readersParked /\ seen[t].writersParked)
        /\ state # seen[t]
        /\ Read(t, Word(OneWriter, TRUE, TRUE))
        /\ UNCHANGED <<state, writers, pc>>
  /\ UNCHANGED <<readGuards, acquireWith, parked, calls>>

\* unpark_all
WakeReaders(t) ==
  /\ pc[t] = "wakeReaders"
  /\ pc' = [u \in Threads |-> IF u = t THEN "idle"
                              ELSE IF u \in parkedReaders THEN "sharedLoad"
                              ELSE pc[u]]
  /\ parkedReaders' = {}
  /\ UNCHANGED <<state, guards, seen, acquireWith, parkedWriters, calls>>

\* (mutant) The writer that is woken forgets those behind it.
WakeWriterAlone(t) ==
  /\ pc[t] = "wakeWriter" /\ parkedWriters # << >>
  /\ pc' = [pc EXCEPT ![t] = "idle", ![Head(parkedWriters)] = "exclusiveLoad"]
  /\ parkedWriters' = Tail(parkedWriters)
  /\ UNCHANGED <<state, guards, seen, acquireWith, parkedReaders, calls>>

\* unpark_one: the writer that has waited longest goes on, and will acquire
\* with WRITERS_PARKED set, as more writers may be parked behind it.
WakeWriter(t) ==
  /\ pc[t] = "wakeWriter"
  /\ IF parkedWriters = << >>
     THEN Goto(t, "idle") /\ UNCHANGED <<acquireWith, parkedWriters>>
     ELSE LET first == Head(parkedWriters) IN
          /\ pc' = [pc EXCEPT ![t] = "idle", ![first] = "exclusiveLoad"]
          /\ acquireWith' = [acquireWith EXCEPT ![first] = TRUE]
          /\ parkedWriters' = Tail(parkedWriters)
  /\ UNCHANGED <<state, guards, seen, parkedReaders, calls>>

\* (mutants) READERS_PARKED stays in the word; the readers are not woken; the
\* exclusive guard is not forgotten when the shared one is made.
DowngradeKeepsFlag(t) ==
  /\ Call(t) /\ t \in writers
  /\ state' = [state EXCEPT !.count = @ % 2]
  /\ writers' = writers \ {t}
  /\ \E i \in FreeSlot(t) : readGuards' = readGuards \cup {<<t, i>>}
  /\ IF state.readersParked THEN Goto(t, "wakeReaders") ELSE UNCHANGED pc
  /\ UNCHANGED <<seen, acquireWith, parked>>

DowngradeWakesNobody(t) ==
  /\ Call(t) /\ t \in writers
  /\ state' = Word(state.count % 2, FALSE, state.writersParked)
  /\ writers' = writers \ {t}
  /\ \E i \in FreeSlot(t) : readGuards' = readGuards \cup {<<t, i>>}
  /\ UNCHANGED <<pc, seen, acquireWith, parked>>

DowngradeKeepsGuard(t) ==
  /\ Call(t) /\ t \in writers
  /\ state' = Word(state.count % 2, FALSE, state.writersParked)
  /\ \E i \in FreeSlot(t) : readGuards' = readGuards \cup {<<t, i>>}
  /\ UNCHANGED <<writers, pc, seen, acquireWith, parked>>

\* fetch_and(ONE_READER | WRITERS_PARKED): of a count that is all ones, the
\* lowest bit stays, which is one reader.
Downgrade(t) ==
  /\ Call(t) /\ t \in writers
  /\ state' = Word(state.count % 2, FALSE, state.writersParked)
  /\ writers' = writers \ {t}
  /\ \E i \in FreeSlot(t) : readGuards' = readGuards \cup {<<t, i>>}
  /\ IF state.readersParked THEN Goto(t, "wakeReaders") ELSE UNCHANGED pc
  /\ UNCHANGED <<seen, acquireWith, parked>>

\* Guards are Send: thread t hands one of its guards to thread u.
SendGuard(t, u) ==
  /\ Call(t) /\ pc[u] = "idle" /\ u # t
  /\ \/ /\ t \in writers
        /\ writers' = (writers \ {t}) \cup {u}
        /\ UNCHANGED readGuards
     \/ /\ \E i \in Slots, j \in FreeSlot(u) :
             /\ <<t, i>> \in readGuards
             /\ readGuards' = (readGuards \ {<<t, i>>}) \cup {<<u, j>>}
        /\ UNCHANGED writers
  /\ UNCHANGED <<state, pc, seen, acquireWith, parked>>

-----------------------------------------------------------------------------
\* The code that runs once a call is made and does not return at once.
Proceed(t) ==
  \/ SharedFast(t) \/ TryLockSharedLoad(t) \/ TryLockSharedSlow(t)
  \/ LockSharedLoad(t) \/ LockSharedSlow(t) \/ ReaderCountOverflowed(t)
  \/ MarkReadersParked(t) \/ ParkReader(t)
  \/ LockExclusiveLoad(t) \/ LockExclusiveSlow(t)
  \/ MarkWritersParked(t) \/ ParkWriter(t)
  \/ UnlockSharedSlow(t) \/ UnlockExclusiveLoad(t) \/ UnlockExclusiveSlow(t)
  \/ WakeReaders(t) \/ WakeWriter(t)

Drop(t) == UnlockShared(t) \/ UnlockExclusive(t)

Finished ==
  /\ \A t \in Threads : pc[t] = "idle" /\ calls[t] = 0
  /\ readGuards = {} /\ writers = {}

\* Every thread has returned and dropped its guards: the program is over.
Terminating == Finished /\ UNCHANGED vars

Next ==
  \/ \E t \in Threads :
       \/ LockShared(t) \/ TryLockShared(t)
       \/ LockExclusive(t) \/ TryLockExclusive(t)
       \/ Downgrade(t) \/ Drop(t) \/ Proceed(t)
       \/ \E u \in Threads : SendGuard(t, u)
  \/ Terminating

Spec == Init /\ [][Next]_vars

\* A thread inside an operation keeps running, and a guard is dropped in the
\* end (it is a value of the caller, released when it goes out of scope).  A
\* weak compare_exchange that may succeed again and again does not fail each
\* time.  Nobody is made to call anything.
Fairness ==
  \A t \in Threads :
    /\ WF_vars(Proceed(t)) /\ WF_vars(Drop(t))
    /\ SF_vars(LockSharedSlow(t) /\ pc'[t] = "idle")
FairSpec == Spec /\ Fairness
-----------------------------------------------------------------------------
(* Properties *)

TypeOK ==
  /\ state \in Words
  /\ readGuards \subseteq Threads \X Slots
  /\ writers \subseteq Threads
  /\ pc \in [Threads -> PCs]
  /\ seen \in [Threads -> Words]
  /\ acquireWith \in [Threads -> BOOLEAN]
  /\ parkedWriters \in Seq(Threads)
  /\ parkedReaders \subseteq Threads
  /\ calls \in [Threads -> Nat]

\* What lock_api's guards rely on: one exclusive guard, or shared ones.
MutualExclusion ==
  \A t \in writers : writers = {t} /\ readGuards = {}

\* The word tells exactly who is inside: all ones for a writer and the number
\* of shared guards otherwise, which never reaches the value of a writer; and
\* READERS_PARKED is only ever seen beside a writer.
WordAgreesWithGuards ==
  /\ writers # {} => WriteLocked(state)
  /\ writers = {} => state.count = Cardinality(readGuards) /\ ~WriteLocked(state)
  /\ state.readersParked => WriteLocked(state)

\* The assertions of unlock_exclusive_slow: the word it loads is write-locked
\* and has a flag, and if its compare_exchange fails then the other flag was
\* set meanwhile and nothing else.
UnlockAssertions ==
  \A t \in Threads :
    /\ pc[t] = "unlockLoad" =>
         WriteLocked(state) /\ (state.readersParked \/ state.writersParked)
    /\ pc[t] = "unlockRelease" /\ state # seen[t] =>
         state = Word(OneWriter, TRUE, TRUE)

\* No lost wakeup of readers: while a reader is parked, the lock is held by a
\* writer that will see the flag, or somebody is about to unpark the readers.
ParkedReadersAreWoken ==
  parkedReaders # {} =>
    \/ WriteLocked(state) /\ state.readersParked
    \/ \E t \in Threads : pc[t] = "wakeReaders"

\* A reader is asleep, or is on its way to the lock and will get in: it has
\* not read a count to which no reader can be added.
ReaderComing ==
  \/ parkedReaders # {}
  \/ \E t \in Threads :
       \/ pc[t] = "sharedLoad"
       \/ pc[t] = "sharedLoop" /\ seen[t].count + 1 # OneWriter

\* No lost wakeup of writers: while a writer is parked, the flag is set for a
\* thread that will see it on its way out (a holder, the last reader, or a
\* reader that is coming in), or a wakeup is on its way, or a writer that was
\* woken carries the flag on.
ParkedWritersAreWoken ==
  parkedWriters # << >> =>
    \/ /\ state.writersParked
       /\ \/ state.count # 0
          \/ \E t \in Threads : pc[t] = "unlockLastReader"
          \/ ReaderComing
    \/ \E t \in Threads : pc[t] = "wakeWriter"
    \/ \E t \in Threads : pc[t] \in {"exclusiveLoad", "exclusiveLoop"} /\ acquireWith[t]

\* Nothing is left in the word once every guard is gone and every call is
\* over: a leftover flag would make every try_lock_exclusive fail.
QuietWordIsZero ==
  (\A t \in Threads : pc[t] = "idle") /\ readGuards = {} /\ writers = {}
    => state = Unlocked

\* A thread that holds a shared guard never sleeps in lock_shared, whatever
\* writers wait: the map is documented to be readable while the caller holds
\* a Ref into the same shard.
ReentrantReadNeverParks == \A t \in parkedReaders : ~HasShared(t)

\* What the crate builds on.
Abs == INSTANCE AbstractRwLock
ImplementsAbstractLock == Abs!Spec

\* A call that blocks returns, if the guards in its way are dropped.
EveryCallReturns == \A t \in Threads : pc[t] # "idle" ~> pc[t] = "idle"

\* "The shard was locked" (try_result.rs): a try_lock_exclusive that fails met
\* a lock that somebody held, or had not finished to unlock.
InUnlock == {"unlockLoad", "unlockRelease", "unlockLastReader", "wakeWriter", "wakeReaders"}
TryWriteFailedMeansHeld ==
  [][\A t \in Threads :
       TryLockExclusive(t) /\ writers' = writers
         => \/ readGuards # {} \/ writers # {}
            \/ \E u \in Threads : pc[u] \in InUnlock]_vars
=============================================================================
