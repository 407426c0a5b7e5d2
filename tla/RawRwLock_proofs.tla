-------------------------- MODULE RawRwLock_proofs --------------------------
(***************************************************************************)
(* Theorems about RawRwLock, for every set of threads and slots and every  *)
(* width of the reader count.                                              *)
(***************************************************************************)
EXTENDS RawRwLock, FiniteSetTheorems, SequenceTheorems, TLAPS

Unlocking(label) == label \in {"unlockLoad", "unlockRelease"}

(***************************************************************************)
(* A thread inside unlock_exclusive still holds the lock; the word has the *)
(* flags this thread has read, and it has read at least one.               *)
(***************************************************************************)
UnlockingWriter ==
  \A t \in Threads :
    /\ Unlocking(pc[t]) => t \in writers
    /\ pc[t] = "unlockLoad" => state.readersParked \/ state.writersParked
    /\ pc[t] = "unlockRelease" =>
         /\ seen[t].count = OneWriter
         /\ seen[t].readersParked \/ seen[t].writersParked
         /\ seen[t].readersParked => state.readersParked
         /\ seen[t].writersParked => state.writersParked

LockInv ==
  /\ TypeOK
  /\ IsFiniteSet(readGuards)
  /\ MutualExclusion
  /\ WordAgreesWithGuards
  /\ UnlockingWriter

LEMMA LockInvInit == Init => LockInv
<1> USE OneWriterAssumption, MaxCallsAssumption
<1> SUFFICES ASSUME Init PROVE LockInv
  OBVIOUS
<1>1. TypeOK
  BY DEF Init, TypeOK, Words, Word, Unlocked, PCs
<1>2. IsFiniteSet(readGuards) /\ Cardinality(readGuards) = 0
  BY FS_EmptySet DEF Init
<1>3. MutualExclusion /\ UnlockingWriter
  BY DEF Init, MutualExclusion, UnlockingWriter, Unlocking
<1>4. WordAgreesWithGuards
  BY <1>2 DEF Init, WordAgreesWithGuards, WriteLocked, Unlocked, Word
<1> QED BY <1>1, <1>2, <1>3, <1>4 DEF LockInv

-----------------------------------------------------------------------------
LEMMA WordTypes ==
  /\ Unlocked \in Words
  /\ Word(0, FALSE, TRUE) \in Words
  /\ \A r, w \in BOOLEAN : Word(OneWriter, r, w) \in Words
BY OneWriterAssumption DEF Words, Word, Unlocked

(* Steps that several actions share. *)

\* A step that leaves the word and the guards alone, and does not go into
\* unlock_exclusive.
LEMMA QuietStep ==
  ASSUME LockInv, TypeOK', UNCHANGED <<state, guards>>,
         \A u \in Threads : Unlocking(pc'[u]) => pc'[u] = pc[u] /\ seen'[u] = seen[u]
  PROVE  LockInv'
<1>1. IsFiniteSet(readGuards)' /\ MutualExclusion' /\ WordAgreesWithGuards'
  BY DEF LockInv, guards, MutualExclusion, WordAgreesWithGuards, WriteLocked
<1>2. UnlockingWriter'
  BY DEF LockInv, guards, UnlockingWriter, Unlocking
<1> QED BY <1>1, <1>2 DEF LockInv

\* A waiting thread sets a flag of a locked word: READERS_PARKED only beside
\* a writer.
LEMMA MarkStep ==
  ASSUME LockInv, TypeOK', UNCHANGED guards,
         state'.count = state.count,
         state'.readersParked => state.readersParked \/ WriteLocked(state),
         state.readersParked => state'.readersParked,
         state.writersParked => state'.writersParked,
         \A u \in Threads : Unlocking(pc'[u]) => pc'[u] = pc[u] /\ seen'[u] = seen[u]
  PROVE  LockInv'
<1>1. IsFiniteSet(readGuards)' /\ MutualExclusion' /\ WordAgreesWithGuards'
  BY DEF LockInv, guards, MutualExclusion, WordAgreesWithGuards, WriteLocked
<1>2. UnlockingWriter'
  BY DEF LockInv, guards, UnlockingWriter, Unlocking
<1> QED BY <1>1, <1>2 DEF LockInv

\* A shared guard comes into being: the word was not write-locked, so there
\* is no writer, and the count stays below ONE_WRITER.
LEMMA AcquireSharedStep ==
  ASSUME LockInv, NEW t \in Threads, AcquireShared(t), state.count + 1 < OneWriter
  PROVE  LockInv'
<1> USE OneWriterAssumption DEF LockInv
<1>1. PICK i \in Slots : /\ <<t, i>> \notin readGuards
                         /\ readGuards' = readGuards \cup {<<t, i>>}
  BY DEF AcquireShared, FreeSlot
<1>2. writers = {} /\ state.count = Cardinality(readGuards) /\ ~state.readersParked
  BY DEF WordAgreesWithGuards, WriteLocked, TypeOK, Words
<1>3. /\ IsFiniteSet(readGuards')
      /\ Cardinality(readGuards') = Cardinality(readGuards) + 1
  BY <1>1, FS_AddElement
<1>4. TypeOK'
  <2>1. state' \in Words
    <3>1. state' = [state EXCEPT !.count = state.count + 1] /\ state \in Words
      BY DEF AcquireShared, TypeOK
    <3>2. state.count + 1 \in 0..OneWriter
      BY <3>1 DEF Words
    <3> QED BY ONLY <3>1, <3>2 DEF Words
  <2>2. readGuards' \subseteq Threads \X Slots
    BY <1>1 DEF TypeOK
  <2>3. pc' \in [Threads -> PCs] /\ seen' \in [Threads -> Words]
    BY DEF AcquireShared, TypeOK, Goto, Forget, PCs, Words, Unlocked, Word
  <2> QED BY <2>1, <2>2, <2>3 DEF AcquireShared, TypeOK, parked
<1>5. state'.count = state.count + 1 /\ state'.readersParked = state.readersParked
  BY DEF AcquireShared, TypeOK, Words
<1>6. MutualExclusion' /\ WordAgreesWithGuards'
  BY <1>2, <1>3, <1>5
     DEF AcquireShared, MutualExclusion, WordAgreesWithGuards, WriteLocked, TypeOK, Words
<1>7. UnlockingWriter'
  BY <1>2 DEF AcquireShared, UnlockingWriter, Unlocking, Goto, TypeOK
<1> QED BY <1>3, <1>4, <1>6, <1>7

\* The exclusive guard comes into being on a word without readers or writer.
LEMMA AcquireExclusiveStep ==
  ASSUME LockInv, TypeOK', NEW t \in Threads, NEW word, AcquireExclusive(t, word),
         state.count = 0, word.count = OneWriter,
         pc'[t] = "idle", \A u \in Threads \ {t} : pc'[u] = pc[u]
  PROVE  LockInv'
<1> USE OneWriterAssumption DEF LockInv
<1>1. writers = {} /\ readGuards = {}
  BY FS_EmptySet DEF WordAgreesWithGuards, WriteLocked
<1>2. writers' = {t} /\ readGuards' = {} /\ IsFiniteSet(readGuards')
  BY <1>1 DEF AcquireExclusive
<1>3. MutualExclusion' /\ WordAgreesWithGuards'
  BY <1>2 DEF AcquireExclusive, MutualExclusion, WordAgreesWithGuards, WriteLocked
<1>4. UnlockingWriter'
  BY <1>1 DEF UnlockingWriter, Unlocking
<1> QED BY <1>2, <1>3, <1>4

\* The exclusive guard goes away and leaves no guard behind.
LEMMA ReleaseExclusiveStep ==
  ASSUME LockInv, TypeOK', NEW t \in writers,
         writers' = writers \ {t}, UNCHANGED readGuards,
         state'.count = 0, ~state'.readersParked,
         ~Unlocking(pc'[t]), \A u \in Threads \ {t} : pc'[u] = pc[u]
  PROVE  LockInv'
<1> USE OneWriterAssumption DEF LockInv
<1>1. writers = {t} /\ readGuards = {} /\ writers' = {} /\ readGuards' = {}
  BY DEF MutualExclusion
<1>2. IsFiniteSet(readGuards') /\ Cardinality(readGuards') = 0
  BY <1>1, FS_EmptySet
<1>3. MutualExclusion' /\ WordAgreesWithGuards'
  BY <1>1, <1>2 DEF MutualExclusion, WordAgreesWithGuards, WriteLocked
<1>4. UnlockingWriter'
  BY <1>1 DEF UnlockingWriter, Unlocking
<1> QED BY <1>2, <1>3, <1>4
LEMMA CallType ==
  ASSUME TypeOK, NEW t \in Threads, Call(t)
  PROVE  calls' \in [Threads -> Nat] /\ pc[t] = "idle"
BY DEF TypeOK, Call

-----------------------------------------------------------------------------
(* One lemma per action, in the order of RawRwLock. *)

LEMMA LockSharedInv ==
  ASSUME LockInv, NEW t \in Threads, LockShared(t) \/ TryLockShared(t)
  PROVE  LockInv'
<1>1. TypeOK'
  <2>1. Call(t) /\ calls' \in [Threads -> Nat]
    BY CallType DEF LockInv, LockShared, TryLockShared
  <2> QED
    BY <2>1 DEF LockInv, TypeOK, LockShared, TryLockShared, Read, Goto, PCs, guards, parked
<1>2. \A u \in Threads : Unlocking(pc'[u]) => pc'[u] = pc[u] /\ seen'[u] = seen[u]
  BY DEF LockInv, TypeOK, LockShared, TryLockShared, Read, Goto, Unlocking
<1>3. UNCHANGED <<state, guards>>
  BY DEF LockShared, TryLockShared, guards
<1> QED BY <1>1, <1>2, <1>3, QuietStep

LEMMA SharedFastInv ==
  ASSUME LockInv, NEW t \in Threads, SharedFast(t)
  PROVE  LockInv'
<1>1. CASE seen[t].count + 1 < OneWriter /\ state = seen[t] /\ AcquireShared(t)
  BY <1>1, AcquireSharedStep
<1>2. CASE /\ Goto(t, IF pc[t] = "tryFast" THEN "tryLoad" ELSE "sharedLoad")
           /\ Forget(t)
           /\ UNCHANGED <<state, guards, acquireWith, parked, calls>>
  <2>1. TypeOK'
    BY <1>2, WordTypes DEF LockInv, TypeOK, Goto, Forget, PCs, guards, parked
  <2>2. \A u \in Threads : Unlocking(pc'[u]) => pc'[u] = pc[u] /\ seen'[u] = seen[u]
    BY <1>2 DEF LockInv, TypeOK, Goto, Forget, Unlocking
  <2> QED BY <1>2, <2>1, <2>2, QuietStep
<1> QED BY <1>1, <1>2 DEF SharedFast

LEMMA LoadInv ==
  ASSUME LockInv, NEW t \in Threads,
         TryLockSharedLoad(t) \/ LockSharedLoad(t) \/ LockExclusiveLoad(t)
  PROVE  LockInv'
<1>1. TypeOK'
  BY WordTypes DEF LockInv, TypeOK, TryLockSharedLoad, LockSharedLoad, LockExclusiveLoad,
         Read, Goto, PCs, guards, parked
<1>2. \A u \in Threads : Unlocking(pc'[u]) => pc'[u] = pc[u] /\ seen'[u] = seen[u]
  BY DEF LockInv, TypeOK, TryLockSharedLoad, LockSharedLoad, LockExclusiveLoad,
         Read, Goto, Unlocking
<1>3. UNCHANGED <<state, guards>>
  BY DEF TryLockSharedLoad, LockSharedLoad, LockExclusiveLoad, guards
<1> QED BY <1>1, <1>2, <1>3, QuietStep

LEMMA TryLockSharedSlowInv ==
  ASSUME LockInv, NEW t \in Threads, TryLockSharedSlow(t)
  PROVE  LockInv'
<1>1. CASE seen[t].count + 1 < OneWriter /\ state = seen[t] /\ AcquireShared(t)
  BY <1>1, AcquireSharedStep
<1>2. CASE ~(seen[t].count + 1 < OneWriter /\ state = seen[t])
  <2>1. TypeOK'
    BY <1>2, WordTypes DEF LockInv, TypeOK, TryLockSharedSlow, Goto, Forget, Read, PCs,
                guards, parked
  <2>2. \A u \in Threads : Unlocking(pc'[u]) => pc'[u] = pc[u] /\ seen'[u] = seen[u]
    BY <1>2 DEF LockInv, TypeOK, TryLockSharedSlow, Goto, Forget, Read, Unlocking
  <2>3. UNCHANGED <<state, guards>>
    BY <1>2 DEF TryLockSharedSlow, guards
  <2> QED BY <2>1, <2>2, <2>3, QuietStep
<1>3. seen[t].count \in Nat
  BY DEF LockInv, TypeOK, Words
<1> QED BY <1>1, <1>2, <1>3, OneWriterAssumption DEF TryLockSharedSlow

LEMMA LockSharedSlowInv ==
  ASSUME LockInv, NEW t \in Threads, LockSharedSlow(t)
  PROVE  LockInv'
<1>1. CASE state = seen[t] /\ AcquireShared(t)
  <2>1. state.count + 1 < OneWriter
    BY <1>1 DEF LockSharedSlow
  <2> QED BY <1>1, <2>1, AcquireSharedStep
<1>2. CASE /\ Goto(t, "sharedLoad") /\ Forget(t)
           /\ UNCHANGED <<state, guards, acquireWith, parked, calls>>
  <2>1. TypeOK'
    BY <1>2, WordTypes DEF LockInv, TypeOK, Goto, Forget, PCs, guards, parked
  <2>2. \A u \in Threads : Unlocking(pc'[u]) => pc'[u] = pc[u] /\ seen'[u] = seen[u]
    BY <1>2 DEF LockInv, TypeOK, Goto, Forget, Unlocking
  <2>3. UNCHANGED <<state, guards>>
    BY <1>2 DEF guards
  <2> QED BY <2>1, <2>2, <2>3, QuietStep
<1> QED BY <1>1, <1>2 DEF LockSharedSlow

LEMMA ReaderCountOverflowedInv ==
  ASSUME LockInv, NEW t \in Threads, ReaderCountOverflowed(t)
  PROVE  LockInv'
<1>1. TypeOK'
  BY WordTypes DEF LockInv, TypeOK, ReaderCountOverflowed, Goto, Forget, PCs, guards, parked
<1>2. \A u \in Threads : Unlocking(pc'[u]) => pc'[u] = pc[u] /\ seen'[u] = seen[u]
  BY DEF LockInv, TypeOK, ReaderCountOverflowed, Goto, Forget, Unlocking
<1> QED BY <1>1, <1>2, QuietStep DEF ReaderCountOverflowed, guards

LEMMA MarkReadersParkedInv ==
  ASSUME LockInv, NEW t \in Threads, MarkReadersParked(t)
  PROVE  LockInv'
<1>1. TypeOK'
  <2>1. state' \in Words
    BY DEF LockInv, TypeOK, MarkReadersParked, Words
  <2> QED
    BY <2>1, WordTypes
       DEF LockInv, TypeOK, MarkReadersParked, Goto, Forget, Read, PCs, guards, parked
<1>2. \A u \in Threads : Unlocking(pc'[u]) => pc'[u] = pc[u] /\ seen'[u] = seen[u]
  BY DEF LockInv, TypeOK, MarkReadersParked, Goto, Forget, Read, Unlocking
<1>3. CASE UNCHANGED state
  BY <1>1, <1>2, <1>3, QuietStep DEF MarkReadersParked, guards
<1>4. CASE state = seen[t] /\ state' = [state EXCEPT !.readersParked = TRUE]
  <2>1. WriteLocked(state) /\ state \in Words
    BY <1>4 DEF MarkReadersParked, LockInv, TypeOK
  <2>2. /\ state'.count = state.count
        /\ state'.readersParked
        /\ state'.writersParked = state.writersParked
    BY <1>4, <2>1 DEF Words
  <2> QED BY <1>1, <1>2, <2>1, <2>2, MarkStep DEF MarkReadersParked
<1> QED BY <1>3, <1>4 DEF MarkReadersParked

LEMMA ParkReaderInv ==
  ASSUME LockInv, NEW t \in Threads, ParkReader(t)
  PROVE  LockInv'
<1>1. TypeOK'
  BY WordTypes DEF LockInv, TypeOK, ParkReader, Goto, Forget, PCs, guards
<1>2. \A u \in Threads : Unlocking(pc'[u]) => pc'[u] = pc[u] /\ seen'[u] = seen[u]
  BY DEF LockInv, TypeOK, ParkReader, Goto, Forget, Unlocking
<1> QED BY <1>1, <1>2, QuietStep DEF ParkReader, guards

LEMMA LockExclusiveInv ==
  ASSUME LockInv, NEW t \in Threads, LockExclusive(t) \/ TryLockExclusive(t)
  PROVE  LockInv'
<1> DEFINE word == Word(OneWriter, FALSE, FALSE)
<1>0. Call(t) /\ calls' \in [Threads -> Nat] /\ pc[t] = "idle"
  BY CallType DEF LockInv, LockExclusive, TryLockExclusive
<1>1. CASE state = Unlocked /\ AcquireExclusive(t, word) /\ UNCHANGED pc
  <2>1. TypeOK'
    BY <1>0, <1>1, WordTypes
       DEF LockInv, TypeOK, LockExclusive, TryLockExclusive, AcquireExclusive, parked
  <2>2. state.count = 0 /\ word.count = OneWriter
    BY <1>1 DEF Unlocked, Word
  <2>3. pc'[t] = "idle" /\ \A u \in Threads \ {t} : pc'[u] = pc[u]
    BY <1>0, <1>1
  <2> HIDE DEF word
  <2> QED BY <1>1, <2>1, <2>2, <2>3, AcquireExclusiveStep
<1>2. CASE /\ UNCHANGED <<state, guards, parked>>
           /\ UNCHANGED pc \/ Goto(t, "exclusiveLoad")
  <2>1. TypeOK'
    BY <1>0, <1>2
       DEF LockInv, TypeOK, LockExclusive, TryLockExclusive, Goto, PCs, guards, parked
  <2>2. \A u \in Threads : Unlocking(pc'[u]) => pc'[u] = pc[u] /\ seen'[u] = seen[u]
    BY <1>2 DEF LockInv, TypeOK, LockExclusive, TryLockExclusive, Goto, Unlocking
  <2> QED BY <1>2, <2>1, <2>2, QuietStep
<1> QED BY <1>1, <1>2 DEF LockExclusive, TryLockExclusive

LEMMA LockExclusiveSlowInv ==
  ASSUME LockInv, NEW t \in Threads, LockExclusiveSlow(t)
  PROVE  LockInv'
<1>1. CASE state = seen[t]
  <2> DEFINE parking == state.writersParked \/ acquireWith[t]
             word == Word(OneWriter, state.readersParked, parking)
  <2>1. word \in Words /\ word.count = OneWriter /\ state.count = 0
    <3>1. state \in Words /\ state.count = 0
      BY <1>1 DEF LockInv, TypeOK, LockExclusiveSlow
    <3>2. state.readersParked \in BOOLEAN /\ parking \in BOOLEAN
      BY <3>1 DEF Words
    <3> HIDE DEF parking
    <3>3. word \in Words
      BY <3>2, WordTypes
    <3> QED BY <3>1, <3>3 DEF Word
  <2>2. AcquireExclusive(t, word)
    BY <1>1 DEF LockExclusiveSlow
  <2>3. /\ acquireWith' = [acquireWith EXCEPT ![t] = FALSE]
        /\ Goto(t, "idle") /\ Forget(t) /\ UNCHANGED calls
    BY <1>1 DEF LockExclusiveSlow
  <2> HIDE DEF word
  <2>4. TypeOK'
    BY <2>1, <2>2, <2>3, WordTypes
       DEF LockInv, TypeOK, AcquireExclusive, Goto, Forget, PCs, parked
  <2>5. pc'[t] = "idle" /\ \A u \in Threads \ {t} : pc'[u] = pc[u]
    BY <2>3 DEF LockInv, TypeOK, Goto
  <2> QED BY <2>1, <2>2, <2>4, <2>5, AcquireExclusiveStep
<1>2. CASE state # seen[t]
  <2>1. TypeOK'
    BY <1>2 DEF LockInv, TypeOK, LockExclusiveSlow, Read, guards, parked
  <2>2. \A u \in Threads : Unlocking(pc'[u]) => pc'[u] = pc[u] /\ seen'[u] = seen[u]
    BY <1>2 DEF LockInv, TypeOK, LockExclusiveSlow, Read, Unlocking
  <2>3. UNCHANGED <<state, guards>>
    BY <1>2 DEF LockExclusiveSlow, guards
  <2> QED BY <2>1, <2>2, <2>3, QuietStep
<1> QED BY <1>1, <1>2

LEMMA MarkWritersParkedInv ==
  ASSUME LockInv, NEW t \in Threads, MarkWritersParked(t)
  PROVE  LockInv'
<1>1. TypeOK'
  <2>1. state' \in Words
    BY DEF LockInv, TypeOK, MarkWritersParked, Words
  <2>2. seen' \in [Threads -> Words]
    BY <2>1, WordTypes DEF LockInv, TypeOK, MarkWritersParked, Read, Forget
  <2>3. pc' \in [Threads -> PCs]
    BY DEF LockInv, TypeOK, MarkWritersParked, Goto, PCs
  <2> QED
    BY <2>1, <2>2, <2>3 DEF LockInv, TypeOK, MarkWritersParked, guards, parked
<1>2. \A u \in Threads : Unlocking(pc'[u]) => pc'[u] = pc[u] /\ seen'[u] = seen[u]
  BY DEF LockInv, TypeOK, MarkWritersParked, Goto, Forget, Read, Unlocking
<1>3. CASE UNCHANGED state
  BY <1>1, <1>2, <1>3, QuietStep DEF MarkWritersParked, guards
<1>4. CASE state = seen[t] /\ state' = [state EXCEPT !.writersParked = TRUE]
  <2>1. state \in Words
    BY DEF LockInv, TypeOK
  <2>2. /\ state'.count = state.count
        /\ state'.readersParked = state.readersParked
        /\ state'.writersParked
    BY <1>4, <2>1 DEF Words
  <2> QED BY <1>1, <1>2, <2>2, MarkStep DEF MarkWritersParked
<1> QED BY <1>3, <1>4 DEF MarkWritersParked

LEMMA ParkWriterInv ==
  ASSUME LockInv, NEW t \in Threads, ParkWriter(t)
  PROVE  LockInv'
<1>1. TypeOK'
  <2>1. parkedWriters' \in Seq(Threads)
    <3>1. parkedWriters \in Seq(Threads)
      BY DEF LockInv, TypeOK
    <3>2. Append(parkedWriters, t) \in Seq(Threads)
      BY <3>1, AppendProperties
    <3> QED BY <3>1, <3>2 DEF ParkWriter
  <2>2. pc' \in [Threads -> PCs] /\ seen' \in [Threads -> Words]
    BY WordTypes DEF LockInv, TypeOK, ParkWriter, Goto, Forget, PCs
  <2>3. acquireWith' \in [Threads -> BOOLEAN]
    BY DEF LockInv, TypeOK, ParkWriter
  <2> QED BY <2>1, <2>2, <2>3 DEF LockInv, TypeOK, ParkWriter, guards
<1>2. \A u \in Threads : Unlocking(pc'[u]) => pc'[u] = pc[u] /\ seen'[u] = seen[u]
  BY DEF LockInv, TypeOK, ParkWriter, Goto, Forget, Unlocking
<1> QED BY <1>1, <1>2, QuietStep DEF ParkWriter, guards

\* The guard that is dropped is one of the readers counted.
LEMMA UnlockSharedInv ==
  ASSUME LockInv, NEW t \in Threads, UnlockShared(t)
  PROVE  LockInv'
<1> USE OneWriterAssumption
<1>1. PICK i \in Slots : /\ <<t, i>> \in readGuards
                         /\ readGuards' = readGuards \ {<<t, i>>}
  BY DEF UnlockShared
<1>2. /\ writers = {} /\ state.count = Cardinality(readGuards)
      /\ ~state.readersParked /\ state.count # OneWriter
  BY <1>1 DEF LockInv, MutualExclusion, WordAgreesWithGuards, WriteLocked, TypeOK
<1>3. /\ IsFiniteSet(readGuards')
      /\ Cardinality(readGuards') = Cardinality(readGuards) - 1
      /\ Cardinality(readGuards) \in Nat /\ Cardinality(readGuards) # 0
  BY <1>1, FS_RemoveElement, FS_CardinalityType, FS_EmptySet DEF LockInv
<1>4. state' = [state EXCEPT !.count = state.count - 1] /\ state \in Words
  BY DEF UnlockShared, LockInv, TypeOK
<1>5. state'.count = state.count - 1 /\ ~state'.readersParked /\ state' \in Words
  BY <1>2, <1>3, <1>4 DEF Words
<1>6. state'.count # OneWriter
  BY <1>2, <1>3, <1>4, <1>5 DEF Words
<1>7. TypeOK'
  BY <1>1, <1>5 DEF LockInv, TypeOK, UnlockShared, Goto, PCs, parked
<1>8. MutualExclusion' /\ WordAgreesWithGuards'
  BY <1>2, <1>3, <1>5, <1>6
     DEF UnlockShared, MutualExclusion, WordAgreesWithGuards, WriteLocked
<1>9. UnlockingWriter'
  BY <1>2 DEF LockInv, TypeOK, UnlockShared, UnlockingWriter, Unlocking, Goto
<1> QED BY <1>3, <1>7, <1>8, <1>9 DEF LockInv

LEMMA UnlockSharedSlowInv ==
  ASSUME LockInv, NEW t \in Threads, UnlockSharedSlow(t)
  PROVE  LockInv'
<1>1. TypeOK'
  BY WordTypes DEF LockInv, TypeOK, UnlockSharedSlow, Goto, PCs, guards, parked
<1>2. \A u \in Threads : Unlocking(pc'[u]) => pc'[u] = pc[u] /\ seen'[u] = seen[u]
  BY DEF LockInv, TypeOK, UnlockSharedSlow, Goto, Unlocking
<1>3. CASE state = Word(0, FALSE, TRUE)
  <2>1. state.count = 0 /\ state'.count = 0 /\ ~state'.readersParked
    BY <1>3 DEF UnlockSharedSlow, Word, Unlocked
  <2>2. writers = {} /\ writers' = {} /\ readGuards' = readGuards
    BY <2>1, OneWriterAssumption
       DEF LockInv, WordAgreesWithGuards, WriteLocked, UnlockSharedSlow, guards
  <2>3. MutualExclusion' /\ WordAgreesWithGuards'
    BY <2>1, <2>2 DEF LockInv, MutualExclusion, WordAgreesWithGuards, WriteLocked
  <2>4. UnlockingWriter'
    BY <1>2, <2>2 DEF LockInv, UnlockingWriter, Unlocking
  <2> QED BY <1>1, <2>2, <2>3, <2>4 DEF LockInv
<1>4. CASE state # Word(0, FALSE, TRUE)
  BY <1>1, <1>2, <1>4, QuietStep DEF UnlockSharedSlow, guards
<1> QED BY <1>3, <1>4

\* unlock_exclusive goes the slow way only if a flag is set.
LEMMA UnlockExclusiveInv ==
  ASSUME LockInv, NEW t \in Threads, UnlockExclusive(t)
  PROVE  LockInv'
<1>1. t \in writers /\ WriteLocked(state) /\ state \in Words
  BY DEF UnlockExclusive, LockInv, WordAgreesWithGuards, TypeOK
<1>2. CASE state = Word(OneWriter, FALSE, FALSE)
  <2>1. TypeOK'
    BY <1>2, WordTypes DEF LockInv, TypeOK, UnlockExclusive, guards, parked
  <2>2. state'.count = 0 /\ ~state'.readersParked
    BY <1>2 DEF UnlockExclusive, Unlocked, Word
  <2>3. ~Unlocking(pc'[t]) /\ \A u \in Threads \ {t} : pc'[u] = pc[u]
    BY <1>2 DEF UnlockExclusive, Unlocking
  <2>4. writers' = writers \ {t} /\ UNCHANGED readGuards
    BY <1>2 DEF UnlockExclusive
  <2> QED BY <1>1, <2>1, <2>2, <2>3, <2>4, ReleaseExclusiveStep
<1>3. CASE state # Word(OneWriter, FALSE, FALSE)
  <2>1. TypeOK'
    BY <1>3 DEF LockInv, TypeOK, UnlockExclusive, Goto, PCs, guards, parked
  <2>2. state.readersParked \/ state.writersParked
    BY <1>1, <1>3 DEF Words, Word, WriteLocked
  <2>3. UnlockingWriter'
    BY <1>1, <1>3, <2>2 DEF LockInv, TypeOK, UnlockExclusive, UnlockingWriter, Unlocking, Goto
  <2> QED
    BY <1>3, <2>1, <2>3
       DEF UnlockExclusive, LockInv, MutualExclusion, WordAgreesWithGuards, WriteLocked
<1> QED BY <1>2, <1>3

LEMMA UnlockExclusiveLoadInv ==
  ASSUME LockInv, NEW t \in Threads, UnlockExclusiveLoad(t)
  PROVE  LockInv'
<1>1. TypeOK'
  BY DEF LockInv, TypeOK, UnlockExclusiveLoad, Read, Goto, PCs, guards, parked
<1>2. WriteLocked(state)
  BY DEF LockInv, UnlockingWriter, Unlocking, UnlockExclusiveLoad, WordAgreesWithGuards
<1>3. UnlockingWriter'
  BY <1>2 DEF LockInv, TypeOK, UnlockExclusiveLoad, UnlockingWriter, Unlocking, Read, Goto,
              WriteLocked, guards
<1> QED
  BY <1>1, <1>3
     DEF UnlockExclusiveLoad, guards, LockInv, MutualExclusion, WordAgreesWithGuards, WriteLocked

LEMMA UnlockExclusiveSlowInv ==
  ASSUME LockInv, NEW t \in Threads, UnlockExclusiveSlow(t)
  PROVE  LockInv'
<1>1. t \in writers /\ pc[t] = "unlockRelease"
  BY DEF LockInv, UnlockingWriter, Unlocking, UnlockExclusiveSlow
<1>2. CASE /\ writers' = writers \ {t}
           /\ state' \in {Unlocked, Word(0, FALSE, TRUE)}
           /\ Goto(t, "wakeReaders") \/ Goto(t, "wakeWriter")
           /\ Forget(t)
  <2>1. TypeOK'
    BY <1>2, WordTypes DEF LockInv, TypeOK, UnlockExclusiveSlow, Goto, Forget, PCs, parked
  <2>2. state'.count = 0 /\ ~state'.readersParked
    BY <1>2 DEF Unlocked, Word
  <2>3. ~Unlocking(pc'[t]) /\ \A u \in Threads \ {t} : pc'[u] = pc[u]
    BY <1>2 DEF LockInv, TypeOK, Goto, Unlocking
  <2> QED BY <1>1, <1>2, <2>1, <2>2, <2>3, ReleaseExclusiveStep DEF UnlockExclusiveSlow
<1>3. CASE /\ state # seen[t] /\ Read(t, Word(OneWriter, TRUE, TRUE))
           /\ UNCHANGED <<state, writers, pc>>
  <2>1. TypeOK'
    BY <1>3, WordTypes DEF LockInv, TypeOK, UnlockExclusiveSlow, Read, parked
  <2>2. state.readersParked /\ state.writersParked
    <3>1. state.count = OneWriter
      BY <1>1 DEF LockInv, WordAgreesWithGuards, WriteLocked
    <3>2. state \in Words /\ seen[t] \in Words
      BY DEF LockInv, TypeOK
    <3>3. /\ seen[t].count = OneWriter
          /\ seen[t].readersParked \/ seen[t].writersParked
          /\ seen[t].readersParked => state.readersParked
          /\ seen[t].writersParked => state.writersParked
      BY <1>1 DEF LockInv, UnlockingWriter
    <3> QED BY <1>3, <3>1, <3>2, <3>3 DEF Words
  <2>3. UnlockingWriter'
    BY <1>3, <2>2 DEF LockInv, TypeOK, UnlockExclusiveSlow, UnlockingWriter, Unlocking,
                      Read, Word
  <2> QED
    BY <1>3, <2>1, <2>3
       DEF UnlockExclusiveSlow, LockInv, MutualExclusion, WordAgreesWithGuards, WriteLocked
<1> QED BY <1>2, <1>3 DEF UnlockExclusiveSlow

LEMMA WakeReadersInv ==
  ASSUME LockInv, NEW t \in Threads, WakeReaders(t)
  PROVE  LockInv'
<1>1. TypeOK'
  BY DEF LockInv, TypeOK, WakeReaders, PCs, guards
<1>2. \A u \in Threads : Unlocking(pc'[u]) => pc'[u] = pc[u] /\ seen'[u] = seen[u]
  BY DEF WakeReaders, Unlocking
<1> QED BY <1>1, <1>2, QuietStep DEF WakeReaders, guards

LEMMA WakeWriterInv ==
  ASSUME LockInv, NEW t \in Threads, WakeWriter(t)
  PROVE  LockInv'
<1>1. parkedWriters # << >> =>
        Head(parkedWriters) \in Threads /\ Tail(parkedWriters) \in Seq(Threads)
  BY HeadTailProperties DEF LockInv, TypeOK
<1>2. TypeOK'
  <2>1. pc' \in [Threads -> PCs]
    BY <1>1 DEF LockInv, TypeOK, WakeWriter, Goto, PCs
  <2>2. acquireWith' \in [Threads -> BOOLEAN] /\ parkedWriters' \in Seq(Threads)
    BY <1>1 DEF LockInv, TypeOK, WakeWriter
  <2> QED BY <2>1, <2>2 DEF LockInv, TypeOK, WakeWriter, guards
<1>3. \A u \in Threads : Unlocking(pc'[u]) => pc'[u] = pc[u] /\ seen'[u] = seen[u]
  BY <1>1 DEF LockInv, TypeOK, WakeWriter, Goto, Unlocking
<1> QED BY <1>2, <1>3, QuietStep DEF WakeWriter, guards

\* The lowest bit of the count of a writer is one reader.
LEMMA DowngradeInv ==
  ASSUME LockInv, NEW t \in Threads, Downgrade(t)
  PROVE  LockInv'
<1> USE OneWriterAssumption
<1>1. /\ t \in writers /\ Call(t) /\ calls' \in [Threads -> Nat] /\ pc[t] = "idle"
      /\ state.count = OneWriter /\ state \in Words
  BY CallType DEF Downgrade, LockInv, TypeOK, WordAgreesWithGuards, WriteLocked
<1>2. writers = {t} /\ readGuards = {} /\ writers' = {}
  BY <1>1 DEF LockInv, MutualExclusion, Downgrade
<1>3. PICK i \in Slots : readGuards' = {<<t, i>>}
  BY <1>2 DEF Downgrade, FreeSlot
<1>4. IsFiniteSet(readGuards') /\ Cardinality(readGuards') = 1
  BY <1>3, FS_Singleton
<1>5. state'.count = 1 /\ ~state'.readersParked /\ state' \in Words
  <2>1. state' = Word(1, FALSE, state.writersParked)
    BY <1>1 DEF Downgrade
  <2>2. state.writersParked \in BOOLEAN
    BY <1>1 DEF Words
  <2> QED BY <2>1, <2>2 DEF Word, Words
<1>6. TypeOK'
  <2>1. pc' \in [Threads -> PCs]
    BY DEF LockInv, TypeOK, Downgrade, Goto, PCs
  <2>2. readGuards' \subseteq Threads \X Slots
    BY <1>3
  <2> QED BY <1>1, <1>2, <1>5, <2>1, <2>2 DEF LockInv, TypeOK, Downgrade, parked
<1>7. MutualExclusion' /\ WordAgreesWithGuards'
  BY <1>2, <1>4, <1>5 DEF MutualExclusion, WordAgreesWithGuards, WriteLocked
<1>8. UnlockingWriter'
  BY <1>1, <1>2 DEF LockInv, TypeOK, Downgrade, UnlockingWriter, Unlocking, Goto
<1> QED BY <1>4, <1>6, <1>7, <1>8 DEF LockInv

LEMMA SendGuardInv ==
  ASSUME LockInv, NEW t \in Threads, NEW u \in Threads, SendGuard(t, u)
  PROVE  LockInv'
<1>1. /\ Call(t) /\ calls' \in [Threads -> Nat] /\ pc[t] = "idle"
      /\ UNCHANGED <<state, pc, seen, acquireWith, parked>>
  BY CallType DEF SendGuard, LockInv
<1>2. CASE t \in writers /\ writers' = (writers \ {t}) \cup {u} /\ UNCHANGED readGuards
  <2>1. writers = {t} /\ readGuards = {} /\ writers' = {u}
    BY <1>2 DEF LockInv, MutualExclusion
  <2>2. TypeOK'
    BY <1>1, <1>2 DEF LockInv, TypeOK, parked
  <2>3. MutualExclusion' /\ WordAgreesWithGuards'
    BY <1>1, <1>2, <2>1 DEF LockInv, MutualExclusion, WordAgreesWithGuards, WriteLocked
  <2>4. UnlockingWriter'
    BY <1>1, <2>1 DEF LockInv, UnlockingWriter, Unlocking
  <2> QED BY <1>2, <2>2, <2>3, <2>4 DEF LockInv
<1>3. CASE /\ \E i \in Slots, j \in FreeSlot(u) :
                /\ <<t, i>> \in readGuards
                /\ readGuards' = (readGuards \ {<<t, i>>}) \cup {<<u, j>>}
           /\ UNCHANGED writers
  <2>1. PICK i \in Slots, j \in Slots :
          /\ <<t, i>> \in readGuards /\ <<u, j>> \notin readGuards
          /\ readGuards' = (readGuards \ {<<t, i>>}) \cup {<<u, j>>}
    BY <1>3 DEF FreeSlot
  <2> DEFINE rest == readGuards \ {<<t, i>>}
  <2>2. IsFiniteSet(rest) /\ Cardinality(rest) = Cardinality(readGuards) - 1
    BY <2>1, FS_RemoveElement DEF LockInv
  <2>3. <<u, j>> \notin rest /\ readGuards' = rest \cup {<<u, j>>}
    BY <2>1
  <2>4. Cardinality(readGuards) \in Nat
    BY FS_CardinalityType DEF LockInv
  <2> HIDE DEF rest
  <2>5. IsFiniteSet(readGuards') /\ Cardinality(readGuards') = Cardinality(readGuards)
    <3>1. /\ IsFiniteSet(rest \cup {<<u, j>>})
          /\ Cardinality(rest \cup {<<u, j>>}) = Cardinality(rest) + 1
      BY <2>2, <2>3, FS_AddElement
    <3> QED BY <2>2, <2>3, <2>4, <3>1
  <2>6. writers = {} /\ writers' = {}
    BY <1>3, <2>1 DEF LockInv, MutualExclusion
  <2>7. TypeOK'
    BY <1>1, <1>3, <2>1 DEF LockInv, TypeOK, parked
  <2>8. MutualExclusion' /\ WordAgreesWithGuards'
    BY <1>1, <2>5, <2>6 DEF LockInv, MutualExclusion, WordAgreesWithGuards, WriteLocked
  <2>9. UnlockingWriter'
    BY <1>1, <2>6 DEF LockInv, UnlockingWriter, Unlocking
  <2> QED BY <2>5, <2>7, <2>8, <2>9 DEF LockInv
<1> QED BY <1>2, <1>3 DEF SendGuard

-----------------------------------------------------------------------------
LEMMA LockInvNext == LockInv /\ [Next]_vars => LockInv'
<1> SUFFICES ASSUME LockInv, [Next]_vars PROVE LockInv'
  OBVIOUS
<1>1. ASSUME NEW t \in Threads, Proceed(t) PROVE LockInv'
  BY <1>1, SharedFastInv, LoadInv, TryLockSharedSlowInv, LockSharedSlowInv,
     ReaderCountOverflowedInv, MarkReadersParkedInv, ParkReaderInv, LockExclusiveSlowInv,
     MarkWritersParkedInv, ParkWriterInv, UnlockSharedSlowInv, UnlockExclusiveLoadInv,
     UnlockExclusiveSlowInv, WakeReadersInv, WakeWriterInv
     DEF Proceed
<1>2. ASSUME NEW t \in Threads, Drop(t) PROVE LockInv'
  BY <1>2, UnlockSharedInv, UnlockExclusiveInv DEF Drop
<1>3. CASE UNCHANGED vars
  <2>1. TypeOK'
    BY <1>3 DEF LockInv, TypeOK, vars
  <2> QED BY <1>3, <2>1, QuietStep DEF vars, guards
<1> QED
  BY <1>1, <1>2, <1>3, LockSharedInv, LockExclusiveInv, DowngradeInv, SendGuardInv
     DEF Next, Terminating

LEMMA LockInvariant == Spec => []LockInv
BY LockInvInit, LockInvNext, PTL DEF Spec

-----------------------------------------------------------------------------
(* The theorems. *)

\* No operation leaves the word, a local variable or a queue with a value
\* outside its type: in particular the reader count never goes below zero,
\* whoever drops a guard.
THEOREM TypeCorrect == Spec => []TypeOK
<1>1. LockInv => TypeOK
  BY DEF LockInv
<1> QED BY <1>1, LockInvariant, PTL

\* At any time there is one exclusive guard and nothing else, or there are
\* shared guards only (try_lock_*, lock_*, unlock_* and downgrade together).
THEOREM MutualExclusionHolds == Spec => []MutualExclusion
<1>1. LockInv => MutualExclusion
  BY DEF LockInv
<1> QED BY <1>1, LockInvariant, PTL

\* The reader count in the word is the number of shared guards, or all ones
\* for an exclusive guard, and READERS_PARKED is only set beside a writer.
THEOREM WordAgreesWithGuardsHolds == Spec => []WordAgreesWithGuards
<1>1. LockInv => WordAgreesWithGuards
  BY DEF LockInv
<1> QED BY <1>1, LockInvariant, PTL

\* The assertions of unlock_exclusive_slow never fail.
THEOREM UnlockAssertionsHold == Spec => []UnlockAssertions
<1>1. LockInv => UnlockAssertions
  <2> SUFFICES ASSUME LockInv, NEW t \in Threads
               PROVE  /\ pc[t] = "unlockLoad" =>
                           WriteLocked(state) /\ (state.readersParked \/ state.writersParked)
                      /\ pc[t] = "unlockRelease" /\ state # seen[t] =>
                           state = Word(OneWriter, TRUE, TRUE)
    BY DEF UnlockAssertions
  <2>1. ASSUME Unlocking(pc[t]) PROVE state.count = OneWriter
    BY <2>1 DEF LockInv, UnlockingWriter, WordAgreesWithGuards, WriteLocked
  <2>2. CASE pc[t] = "unlockLoad"
    BY <2>1, <2>2 DEF LockInv, UnlockingWriter, Unlocking, WriteLocked
  <2>3. CASE pc[t] = "unlockRelease" /\ state # seen[t]
    <3>1. state \in Words /\ seen[t] \in Words /\ state.count = OneWriter
      BY <2>1, <2>3 DEF LockInv, TypeOK, Unlocking
    <3>2. /\ seen[t].count = OneWriter
          /\ seen[t].readersParked \/ seen[t].writersParked
          /\ seen[t].readersParked => state.readersParked
          /\ seen[t].writersParked => state.writersParked
      BY <2>3 DEF LockInv, UnlockingWriter
    <3> QED BY <2>3, <3>1, <3>2 DEF Words, Word
  <2> QED BY <2>2, <2>3
<1> QED BY <1>1, LockInvariant, PTL

-----------------------------------------------------------------------------
(* Every step is a step of the abstract lock, or leaves the guards alone. *)

LEMMA AcquireSharedMaps ==
  ASSUME LockInv, NEW t \in Threads, AcquireShared(t), state.count + 1 < OneWriter
  PROVE  Abs!Next
<1>1. writers = {}
  BY OneWriterAssumption DEF LockInv, WordAgreesWithGuards, WriteLocked
<1>2. \E i \in Slots : Abs!AcquireShared(t, i)
  BY <1>1 DEF AcquireShared, FreeSlot, Abs!AcquireShared
<1> QED BY <1>2 DEF Abs!Next

LEMMA AcquireExclusiveMaps ==
  ASSUME LockInv, NEW t \in Threads, NEW word, AcquireExclusive(t, word), state.count = 0
  PROVE  Abs!Next
<1>1. writers = {} /\ readGuards = {}
  BY FS_EmptySet, OneWriterAssumption DEF LockInv, WordAgreesWithGuards, WriteLocked
<1> QED BY <1>1 DEF AcquireExclusive, Abs!AcquireExclusive, Abs!Next

LEMMA ProceedMaps ==
  ASSUME LockInv, NEW t \in Threads, Proceed(t)
  PROVE  Abs!Next \/ UNCHANGED Abs!vars
<1>1. CASE SharedFast(t) \/ TryLockSharedSlow(t) \/ LockSharedSlow(t)
  BY <1>1, AcquireSharedMaps
     DEF SharedFast, TryLockSharedSlow, LockSharedSlow, guards, Abs!vars
<1>2. CASE LockExclusiveSlow(t)
  BY <1>2, AcquireExclusiveMaps DEF LockExclusiveSlow, guards, Abs!vars
<1>3. CASE UnlockExclusiveSlow(t)
  <2>1. t \in writers
    BY <1>3 DEF LockInv, UnlockingWriter, Unlocking, UnlockExclusiveSlow
  <2> QED
    BY <1>3, <2>1 DEF UnlockExclusiveSlow, Abs!ReleaseExclusive, Abs!Next, Abs!vars
<1>4. CASE UNCHANGED guards
  BY <1>4 DEF guards, Abs!vars
<1> QED
  BY <1>1, <1>2, <1>3, <1>4
     DEF Proceed, TryLockSharedLoad, LockSharedLoad, ReaderCountOverflowed,
         MarkReadersParked, ParkReader, LockExclusiveLoad, MarkWritersParked, ParkWriter,
         UnlockSharedSlow, UnlockExclusiveLoad, WakeReaders, WakeWriter

LEMMA CallMaps ==
  ASSUME LockInv, NEW t \in Threads,
         \/ LockShared(t) \/ TryLockShared(t) \/ LockExclusive(t) \/ TryLockExclusive(t)
         \/ Downgrade(t) \/ Drop(t)
         \/ \E u \in Threads : SendGuard(t, u)
  PROVE  Abs!Next \/ UNCHANGED Abs!vars
<1>1. CASE LockShared(t) \/ TryLockShared(t)
  BY <1>1 DEF LockShared, TryLockShared, guards, Abs!vars
<1>2. CASE LockExclusive(t) \/ TryLockExclusive(t)
  <2>1. state = Unlocked => state.count = 0
    BY DEF Unlocked, Word
  <2> QED
    BY <1>2, <2>1, AcquireExclusiveMaps DEF LockExclusive, TryLockExclusive, guards, Abs!vars
<1>3. CASE Downgrade(t)
  <2>1. t \in writers /\ readGuards = {}
    BY <1>3 DEF Downgrade, LockInv, MutualExclusion
  <2>2. \E i \in Slots : Abs!Downgrade(t, i)
    BY <1>3, <2>1 DEF Downgrade, FreeSlot, Abs!Downgrade
  <2> QED BY <2>2 DEF Abs!Next
<1>4. CASE UnlockShared(t)
  <2>1. \E i \in Slots : Abs!ReleaseShared(t, i)
    BY <1>4 DEF UnlockShared, Abs!ReleaseShared
  <2> QED BY <2>1 DEF Abs!Next
<1>5. CASE UnlockExclusive(t)
  BY <1>5 DEF UnlockExclusive, Abs!ReleaseExclusive, Abs!Next, Abs!vars
<1>6. CASE \E u \in Threads : SendGuard(t, u)
  <2>1. PICK u \in Threads : SendGuard(t, u)
    BY <1>6
  <2>2. \/ Abs!SendExclusive(t, u)
        \/ \E i \in Slots, j \in Slots : Abs!SendShared(t, i, u, j)
    BY <2>1 DEF SendGuard, FreeSlot, Abs!SendExclusive, Abs!SendShared
  <2> QED BY <2>2 DEF Abs!Next
<1> QED BY <1>1, <1>2, <1>3, <1>4, <1>5, <1>6 DEF Drop

\* The lock does what the rest of the crate expects of a lock: to a caller
\* every call is one atomic step of AbstractRwLock.
THEOREM LockImplementsAbstractLock == Spec => ImplementsAbstractLock
<1>1. Init => Abs!Init
  BY DEF Init, Abs!Init
<1>2. LockInv /\ [Next]_vars => [Abs!Next]_(Abs!vars)
  <2> SUFFICES ASSUME LockInv, [Next]_vars PROVE Abs!Next \/ UNCHANGED Abs!vars
    OBVIOUS
  <2>1. CASE UNCHANGED vars
    BY <2>1 DEF vars, Abs!vars
  <2>2. CASE Next
    BY <2>1, <2>2, ProceedMaps, CallMaps DEF Next, Terminating
  <2> QED BY <2>1, <2>2
<1> QED BY <1>1, <1>2, LockInvariant, PTL DEF Spec, ImplementsAbstractLock, Abs!Spec

-----------------------------------------------------------------------------
(***************************************************************************)
(* No wakeup is lost: theorems about the threads that RawRwLock puts to    *)
(* sleep, and about the flags that they leave in the word, for every set   *)
(* of threads.                                                             *)
(***************************************************************************)

\* The queues of the parking lot hold exactly the threads that sleep, each
\* once: a wakeup is never spent on a thread that is not waiting for it.
QueuesHoldTheSleepers ==
  /\ parkedReaders = {t \in Threads : pc[t] = "sharedParked"}
  /\ {parkedWriters[k] : k \in DOMAIN parkedWriters}
       = {t \in Threads : pc[t] = "exclusiveParked"}
  /\ \A j, k \in DOMAIN parkedWriters : parkedWriters[j] = parkedWriters[k] => j = k

Asleep(label) == label \in {"sharedParked", "exclusiveParked"}

(***************************************************************************)
(* READERS_PARKED is set by a reader that then sleeps, or looks again: it  *)
(* is why unlock_exclusive_slow may wake the readers only, and leave the   *)
(* writers to them.                                                        *)
(***************************************************************************)
FlagMeansReader ==
  state.readersParked =>
    \/ parkedReaders # {}
    \/ \E t \in Threads : \/ pc[t] = "sharedLoad"
                          \/ pc[t] = "sharedLoop" /\ WriteLocked(seen[t])

WakeInv ==
  /\ LockInv
  /\ QueuesHoldTheSleepers
  /\ FlagMeansReader
  /\ ParkedReadersAreWoken
  /\ ParkedWritersAreWoken

-----------------------------------------------------------------------------
(* The queues. *)

\* A step of a thread that is awake and stays awake.
LEMMA AwakeStep ==
  ASSUME TypeOK, QueuesHoldTheSleepers, UNCHANGED parked, NEW t \in Threads,
         ~Asleep(pc[t]), ~Asleep(pc'[t]), \A u \in Threads \ {t} : pc'[u] = pc[u]
  PROVE  QueuesHoldTheSleepers'
<1>1. \A u \in Threads : pc'[u] = "sharedParked" <=> pc[u] = "sharedParked"
  BY DEF Asleep
<1>2. \A u \in Threads : pc'[u] = "exclusiveParked" <=> pc[u] = "exclusiveParked"
  BY DEF Asleep
<1>3. {u \in Threads : pc'[u] = "sharedParked"} = {u \in Threads : pc[u] = "sharedParked"}
  BY <1>1
<1>4. {u \in Threads : pc'[u] = "exclusiveParked"}
        = {u \in Threads : pc[u] = "exclusiveParked"}
  BY <1>2
<1> QED BY <1>3, <1>4 DEF QueuesHoldTheSleepers, parked

LEMMA ParkReaderQueues ==
  ASSUME TypeOK, QueuesHoldTheSleepers, NEW t \in Threads, ParkReader(t)
  PROVE  QueuesHoldTheSleepers'
<1>1. CASE WriteLocked(state) /\ state.readersParked
  <2>1. /\ parkedReaders' = parkedReaders \cup {t} /\ parkedWriters' = parkedWriters
        /\ pc' = [pc EXCEPT ![t] = "sharedParked"] /\ pc[t] = "sharedLoop"
    BY <1>1 DEF ParkReader, Goto
  <2>2. {u \in Threads : pc'[u] = "sharedParked"}
          = {u \in Threads : pc[u] = "sharedParked"} \cup {t}
    BY <2>1 DEF TypeOK
  <2>3. {u \in Threads : pc'[u] = "exclusiveParked"}
          = {u \in Threads : pc[u] = "exclusiveParked"}
    BY <2>1 DEF TypeOK
  <2> QED BY <2>1, <2>2, <2>3 DEF QueuesHoldTheSleepers
<1>2. CASE ~(WriteLocked(state) /\ state.readersParked)
  <2>1. /\ pc' = [pc EXCEPT ![t] = "sharedLoad"] /\ pc[t] = "sharedLoop"
        /\ UNCHANGED parked
    BY <1>2 DEF ParkReader, Goto, parked
  <2> QED BY <2>1, AwakeStep DEF Asleep, TypeOK
<1> QED BY <1>1, <1>2

LEMMA ParkWriterQueues ==
  ASSUME TypeOK, QueuesHoldTheSleepers, NEW t \in Threads, ParkWriter(t)
  PROVE  QueuesHoldTheSleepers'
<1>1. CASE state.count # 0 /\ state.writersParked
  <2> DEFINE n == Len(parkedWriters)
  <2>1. /\ parkedWriters' = Append(parkedWriters, t)
        /\ pc' = [pc EXCEPT ![t] = "exclusiveParked"]
        /\ pc[t] = "exclusiveLoop" /\ parkedReaders' = parkedReaders
    BY <1>1 DEF ParkWriter, Goto
  <2>2. /\ parkedWriters \in Seq(Threads) /\ n \in Nat /\ DOMAIN parkedWriters = 1..n
        /\ DOMAIN parkedWriters' = 1..(n + 1)
        /\ \A k \in 1..n : parkedWriters'[k] = parkedWriters[k]
        /\ parkedWriters'[n + 1] = t
    BY <2>1, LenProperties, AppendProperties DEF TypeOK
  <2> HIDE DEF n
  <2>3. \A k \in 1..n : parkedWriters[k] # t
    BY <2>1, <2>2 DEF QueuesHoldTheSleepers
  <2>4. 1..(n + 1) = (1..n) \cup {n + 1}
    BY <2>2
  <2>5. {parkedWriters'[k] : k \in DOMAIN parkedWriters'}
          = {parkedWriters[k] : k \in DOMAIN parkedWriters} \cup {t}
    BY <2>2, <2>4
  <2>6. {u \in Threads : pc'[u] = "exclusiveParked"}
          = {u \in Threads : pc[u] = "exclusiveParked"} \cup {t}
    BY <2>1 DEF TypeOK
  <2>7. parkedReaders' = {u \in Threads : pc'[u] = "sharedParked"}
    BY <2>1 DEF TypeOK, QueuesHoldTheSleepers
  <2>8. \A j, k \in DOMAIN parkedWriters' : parkedWriters'[j] = parkedWriters'[k] => j = k
    BY <2>2, <2>3, <2>4 DEF QueuesHoldTheSleepers
  <2> QED BY <2>5, <2>6, <2>7, <2>8 DEF QueuesHoldTheSleepers
<1>2. CASE ~(state.count # 0 /\ state.writersParked)
  <2>1. /\ pc' = [pc EXCEPT ![t] = "exclusiveLoad"] /\ pc[t] = "exclusiveLoop"
        /\ UNCHANGED parked
    BY <1>2 DEF ParkWriter, Goto, parked
  <2> QED BY <2>1, AwakeStep DEF Asleep, TypeOK
<1> QED BY <1>1, <1>2

LEMMA WakeReadersQueues ==
  ASSUME TypeOK, QueuesHoldTheSleepers, NEW t \in Threads, WakeReaders(t)
  PROVE  QueuesHoldTheSleepers'
<1>1. {u \in Threads : pc'[u] = "sharedParked"} = {}
  BY DEF TypeOK, QueuesHoldTheSleepers, WakeReaders
<1>2. \A u \in Threads : pc'[u] = "exclusiveParked" <=> pc[u] = "exclusiveParked"
  BY DEF TypeOK, QueuesHoldTheSleepers, WakeReaders
<1> QED BY <1>1, <1>2 DEF QueuesHoldTheSleepers, WakeReaders

LEMMA WakeWriterQueues ==
  ASSUME TypeOK, QueuesHoldTheSleepers, NEW t \in Threads, WakeWriter(t)
  PROVE  QueuesHoldTheSleepers'
<1>1. CASE parkedWriters = << >>
  <2>1. pc' = [pc EXCEPT ![t] = "idle"] /\ pc[t] = "wakeWriter" /\ UNCHANGED parked
    BY <1>1 DEF WakeWriter, Goto, parked
  <2> QED BY <2>1, AwakeStep DEF Asleep, TypeOK
<1>2. CASE parkedWriters # << >>
  <2> DEFINE n == Len(parkedWriters)
             first == Head(parkedWriters)
  <2>1. /\ parkedWriters' = Tail(parkedWriters)
        /\ pc' = [pc EXCEPT ![t] = "idle", ![first] = "exclusiveLoad"]
        /\ pc[t] = "wakeWriter" /\ parkedReaders' = parkedReaders
    BY <1>2 DEF WakeWriter
  <2>2. /\ n \in Nat /\ n >= 1 /\ DOMAIN parkedWriters = 1..n
        /\ DOMAIN parkedWriters' = 1..(n - 1)
        /\ \A k \in 1..(n - 1) : parkedWriters'[k] = parkedWriters[k + 1]
        /\ first = parkedWriters[1] /\ first \in Threads
    BY <1>2, <2>1, LenProperties, HeadTailProperties, EmptySeq DEF TypeOK
  <2> HIDE DEF n, first
  <2>3. pc[first] = "exclusiveParked"
    BY <2>2 DEF QueuesHoldTheSleepers
  <2>4. {u \in Threads : pc'[u] = "exclusiveParked"}
          = {u \in Threads : pc[u] = "exclusiveParked"} \ {first}
    BY <2>1, <2>2, <2>3 DEF TypeOK
  <2>5. {parkedWriters'[k] : k \in DOMAIN parkedWriters'}
          = {parkedWriters[k] : k \in DOMAIN parkedWriters} \ {first}
    <3>1. ASSUME NEW k \in 1..(n - 1)
          PROVE  /\ k + 1 \in 1..n /\ parkedWriters'[k] = parkedWriters[k + 1]
                 /\ parkedWriters[k + 1] # first
      BY <2>2 DEF QueuesHoldTheSleepers
    <3>2. ASSUME NEW k \in 1..n, parkedWriters[k] # first
          PROVE  k - 1 \in 1..(n - 1) /\ parkedWriters'[k - 1] = parkedWriters[k]
      BY <2>2, <3>2
    <3> QED BY <2>2, <3>1, <3>2
  <2>6. parkedReaders' = {u \in Threads : pc'[u] = "sharedParked"}
    BY <2>1, <2>2, <2>3 DEF TypeOK, QueuesHoldTheSleepers
  <2>7. \A j, k \in DOMAIN parkedWriters' : parkedWriters'[j] = parkedWriters'[k] => j = k
    BY <2>2 DEF QueuesHoldTheSleepers
  <2> QED BY <2>4, <2>5, <2>6, <2>7 DEF QueuesHoldTheSleepers
<1> QED BY <1>1, <1>2

LEMMA QueuesNext ==
  ASSUME TypeOK, QueuesHoldTheSleepers, [Next]_vars
  PROVE  QueuesHoldTheSleepers'
<1>1. ASSUME NEW t \in Threads, Proceed(t) PROVE QueuesHoldTheSleepers'
  <2>1. CASE ParkReader(t) \/ ParkWriter(t) \/ WakeReaders(t) \/ WakeWriter(t)
    BY <2>1, ParkReaderQueues, ParkWriterQueues, WakeReadersQueues, WakeWriterQueues
  <2>2. CASE \/ SharedFast(t) \/ TryLockSharedLoad(t) \/ TryLockSharedSlow(t)
             \/ LockSharedLoad(t) \/ LockSharedSlow(t) \/ ReaderCountOverflowed(t)
    <3>1. UNCHANGED parked /\ ~Asleep(pc[t]) /\ ~Asleep(pc'[t])
      BY <2>2 DEF SharedFast, TryLockSharedLoad, TryLockSharedSlow, LockSharedLoad,
             LockSharedSlow, ReaderCountOverflowed, AcquireShared, Goto, Asleep, TypeOK
    <3>2. \A u \in Threads \ {t} : pc'[u] = pc[u]
      BY <2>2 DEF SharedFast, TryLockSharedLoad, TryLockSharedSlow, LockSharedLoad,
             LockSharedSlow, ReaderCountOverflowed, AcquireShared, Goto, TypeOK
    <3> QED BY <3>1, <3>2, AwakeStep
  <2>3. CASE \/ MarkReadersParked(t) \/ LockExclusiveLoad(t) \/ LockExclusiveSlow(t)
             \/ MarkWritersParked(t) \/ UnlockSharedSlow(t) \/ UnlockExclusiveLoad(t)
             \/ UnlockExclusiveSlow(t)
    <3>1. UNCHANGED parked /\ ~Asleep(pc[t]) /\ ~Asleep(pc'[t])
      BY <2>3 DEF MarkReadersParked, LockExclusiveLoad, LockExclusiveSlow, AcquireExclusive,
             MarkWritersParked, UnlockSharedSlow, UnlockExclusiveLoad, UnlockExclusiveSlow,
             Goto, Asleep, TypeOK
    <3>2. \A u \in Threads \ {t} : pc'[u] = pc[u]
      BY <2>3 DEF MarkReadersParked, LockExclusiveLoad, LockExclusiveSlow, AcquireExclusive,
             MarkWritersParked, UnlockSharedSlow, UnlockExclusiveLoad, UnlockExclusiveSlow,
             Goto, TypeOK
    <3> QED BY <3>1, <3>2, AwakeStep
  <2> QED BY <1>1, <2>1, <2>2, <2>3 DEF Proceed
<1>2. ASSUME NEW t \in Threads,
             \/ LockShared(t) \/ TryLockShared(t) \/ LockExclusive(t) \/ TryLockExclusive(t)
             \/ Downgrade(t) \/ Drop(t) \/ \E u \in Threads : SendGuard(t, u)
      PROVE  QueuesHoldTheSleepers'
  <2>1. UNCHANGED parked /\ ~Asleep(pc[t]) /\ ~Asleep(pc'[t])
    BY <1>2 DEF LockShared, TryLockShared, LockExclusive, TryLockExclusive, Downgrade, Drop,
           UnlockShared, UnlockExclusive, SendGuard, AcquireExclusive, Call, Goto, Asleep, TypeOK
  <2>2. \A u \in Threads \ {t} : pc'[u] = pc[u]
    BY <1>2 DEF LockShared, TryLockShared, LockExclusive, TryLockExclusive, Downgrade, Drop,
           UnlockShared, UnlockExclusive, SendGuard, AcquireExclusive, Goto, TypeOK
  <2> QED BY <2>1, <2>2, AwakeStep
<1>3. CASE UNCHANGED vars
  BY <1>3 DEF vars, QueuesHoldTheSleepers
<1> QED BY <1>1, <1>2, <1>3 DEF Next, Terminating

-----------------------------------------------------------------------------
(* Parked readers. *)

\* A step that neither unlocks a word on which readers are parked, nor parks
\* a reader, nor wakes the readers.
LEMMA ReadersStillWoken ==
  ASSUME ParkedReadersAreWoken, UNCHANGED parkedReaders,
         WriteLocked(state) /\ state.readersParked =>
           WriteLocked(state') /\ state'.readersParked,
         \A u \in Threads : pc[u] = "wakeReaders" => pc'[u] = "wakeReaders"
  PROVE  ParkedReadersAreWoken'
BY DEF ParkedReadersAreWoken, WriteLocked

LEMMA AcquireSharedFacts ==
  ASSUME LockInv, NEW t \in Threads, AcquireShared(t), state.count + 1 < OneWriter
  PROVE  /\ ~WriteLocked(state) /\ ~state.readersParked
         /\ state'.count # 0 /\ ~state'.readersParked
         /\ state'.writersParked = state.writersParked
         /\ pc' = [pc EXCEPT ![t] = "idle"] /\ seen' = [seen EXCEPT ![t] = Unlocked]
         /\ UNCHANGED <<parkedReaders, parkedWriters, acquireWith>>
<1>1. state' = [state EXCEPT !.count = state.count + 1] /\ state \in Words
  BY DEF AcquireShared, LockInv, TypeOK
<1>2. ~WriteLocked(state) /\ ~state.readersParked
  BY OneWriterAssumption DEF LockInv, WordAgreesWithGuards, WriteLocked
<1> QED BY <1>1, <1>2 DEF AcquireShared, Goto, Forget, Words, parked

LEMMA ProceedReaders ==
  ASSUME WakeInv, NEW t \in Threads, Proceed(t)
  PROVE  ParkedReadersAreWoken'
<1> USE DEF WakeInv
<1>1. CASE ParkReader(t)
  BY <1>1 DEF LockInv, TypeOK, ParkReader, ParkedReadersAreWoken, Goto, WriteLocked
<1>2. CASE WakeReaders(t)
  BY <1>2 DEF WakeReaders, ParkedReadersAreWoken
<1>3. CASE UnlockExclusiveSlow(t)
  <2>1. pc[t] = "unlockRelease" /\ UNCHANGED parkedReaders
    BY <1>3 DEF UnlockExclusiveSlow, parked
  <2>2. CASE Goto(t, "wakeReaders")
    BY <2>2 DEF LockInv, TypeOK, Goto, ParkedReadersAreWoken
  <2>3. CASE Goto(t, "wakeWriter") /\ state = seen[t] /\ ~seen[t].readersParked
    <3>1. ~state.readersParked
      BY <2>3
    <3>2. \A u \in Threads : pc[u] = "wakeReaders" => pc'[u] = "wakeReaders"
      BY <2>1, <2>3 DEF LockInv, TypeOK, Goto
    <3> QED BY <2>1, <3>1, <3>2, ReadersStillWoken
  <2>4. CASE UNCHANGED <<state, pc>>
    BY <2>1, <2>4, ReadersStillWoken
  <2>5. seen[t].readersParked \in BOOLEAN /\ seen[t].writersParked \in BOOLEAN
    BY DEF LockInv, TypeOK, Words
  <2> QED BY <1>3, <2>2, <2>3, <2>4, <2>5 DEF UnlockExclusiveSlow
<1>4. CASE WakeWriter(t)
  <2>1. parkedWriters # << >> => pc[Head(parkedWriters)] = "exclusiveParked"
    BY HeadTailProperties, LenProperties, EmptySeq
       DEF LockInv, TypeOK, QueuesHoldTheSleepers
  <2>2. \A u \in Threads : pc[u] = "wakeReaders" => pc'[u] = "wakeReaders"
    BY <1>4, <2>1 DEF WakeWriter, LockInv, TypeOK, Goto
  <2> QED BY <1>4, <2>2, ReadersStillWoken DEF WakeWriter
<1>5. CASE SharedFast(t) \/ TryLockSharedSlow(t) \/ LockSharedSlow(t)
  <2>1. pc[t] # "wakeReaders"
    BY <1>5 DEF SharedFast, TryLockSharedSlow, LockSharedSlow
  <2>2. CASE AcquireShared(t) /\ state.count + 1 < OneWriter
    <3>1. \A u \in Threads : pc[u] = "wakeReaders" => pc'[u] = "wakeReaders"
      BY <2>1, <2>2, AcquireSharedFacts DEF LockInv, TypeOK
    <3> QED BY <2>2, <3>1, AcquireSharedFacts, ReadersStillWoken
  <2>3. CASE UNCHANGED <<state, parked>> /\ \A u \in Threads \ {t} : pc'[u] = pc[u]
    BY <2>1, <2>3, ReadersStillWoken DEF parked
  <2> QED
    BY <1>5, <2>2, <2>3
       DEF SharedFast, TryLockSharedSlow, LockSharedSlow, LockInv, TypeOK, Goto
<1>6. CASE LockExclusiveSlow(t)
  <2>1. ~WriteLocked(state) \/ UNCHANGED state
    BY <1>6, OneWriterAssumption DEF LockExclusiveSlow, WriteLocked
  <2>2. \A u \in Threads : pc[u] = "wakeReaders" => pc'[u] = "wakeReaders"
    BY <1>6 DEF LockExclusiveSlow, LockInv, TypeOK, Goto
  <2>3. UNCHANGED parkedReaders
    BY <1>6 DEF LockExclusiveSlow, AcquireExclusive, parked
  <2> QED BY <2>1, <2>2, <2>3, ReadersStillWoken
<1>7. CASE MarkReadersParked(t) \/ MarkWritersParked(t)
  <2>1. WriteLocked(state) /\ state.readersParked =>
          WriteLocked(state') /\ state'.readersParked
    BY <1>7 DEF MarkReadersParked, MarkWritersParked, LockInv, TypeOK, Words, WriteLocked
  <2>2. \A u \in Threads : pc[u] = "wakeReaders" => pc'[u] = "wakeReaders"
    BY <1>7 DEF MarkReadersParked, MarkWritersParked, LockInv, TypeOK, Goto
  <2> QED BY <1>7, <2>1, <2>2, ReadersStillWoken DEF MarkReadersParked, MarkWritersParked, parked
<1>8. CASE \/ TryLockSharedLoad(t) \/ LockSharedLoad(t) \/ LockExclusiveLoad(t)
           \/ ReaderCountOverflowed(t) \/ ParkWriter(t) \/ UnlockExclusiveLoad(t)
  <2>1. \A u \in Threads : pc[u] = "wakeReaders" => pc'[u] = "wakeReaders"
    BY <1>8 DEF TryLockSharedLoad, LockSharedLoad, LockExclusiveLoad, ReaderCountOverflowed,
           ParkWriter, UnlockExclusiveLoad, LockInv, TypeOK, Goto
  <2>2. UNCHANGED <<state, parkedReaders>>
    BY <1>8 DEF TryLockSharedLoad, LockSharedLoad, LockExclusiveLoad, ReaderCountOverflowed,
           ParkWriter, UnlockExclusiveLoad, parked
  <2> QED BY <2>1, <2>2, ReadersStillWoken
<1>9. CASE UnlockSharedSlow(t)
  <2>1. state = Word(0, FALSE, TRUE) \/ UNCHANGED state
    BY <1>9 DEF UnlockSharedSlow
  <2>2. \A u \in Threads : pc[u] = "wakeReaders" => pc'[u] = "wakeReaders"
    BY <1>9 DEF UnlockSharedSlow, LockInv, TypeOK, Goto
  <2> QED BY <1>9, <2>1, <2>2, ReadersStillWoken DEF UnlockSharedSlow, parked, Word
<1> QED BY <1>1, <1>2, <1>3, <1>4, <1>5, <1>6, <1>7, <1>8, <1>9 DEF Proceed

LEMMA CallReaders ==
  ASSUME WakeInv, NEW t \in Threads,
         \/ LockShared(t) \/ TryLockShared(t) \/ LockExclusive(t) \/ TryLockExclusive(t)
         \/ Downgrade(t) \/ Drop(t) \/ \E u \in Threads : SendGuard(t, u)
  PROVE  ParkedReadersAreWoken'
<1> USE DEF WakeInv
<1>1. pc[t] = "idle" /\ UNCHANGED parkedReaders
  BY DEF LockShared, TryLockShared, LockExclusive, TryLockExclusive, Downgrade, Drop,
         UnlockShared, UnlockExclusive, SendGuard, AcquireExclusive, Call, parked
<1>2. \A u \in Threads : pc[u] = "wakeReaders" => pc'[u] = "wakeReaders"
  BY <1>1 DEF LockShared, TryLockShared, LockExclusive, TryLockExclusive, Downgrade, Drop,
         UnlockShared, UnlockExclusive, SendGuard, LockInv, TypeOK, Goto
<1>3. CASE Downgrade(t) /\ state.readersParked
  BY <1>1, <1>3 DEF Downgrade, LockInv, TypeOK, Goto, ParkedReadersAreWoken
<1>4. CASE ~(WriteLocked(state) /\ state.readersParked) \/ UNCHANGED state
  BY <1>1, <1>2, <1>4, ReadersStillWoken
<1>5. CASE UnlockShared(t)
  <2>1. writers = {}
    BY <1>5 DEF UnlockShared, LockInv, MutualExclusion, TypeOK
  <2> QED BY <1>4, <2>1 DEF LockInv, WordAgreesWithGuards
<1>6. CASE LockExclusive(t) \/ TryLockExclusive(t) \/ UnlockExclusive(t)
  <2>1. ~state.readersParked \/ UNCHANGED state
    BY <1>6 DEF LockExclusive, TryLockExclusive, UnlockExclusive, Unlocked, Word
  <2> QED BY <1>4, <2>1
<1> QED BY <1>3, <1>4, <1>5, <1>6 DEF Drop, LockShared, TryLockShared, SendGuard

LEMMA ReadersNext ==
  ASSUME WakeInv, [Next]_vars
  PROVE  ParkedReadersAreWoken'
<1>1. CASE UNCHANGED vars
  BY <1>1, ReadersStillWoken DEF vars, WakeInv
<1> QED BY <1>1, ProceedReaders, CallReaders DEF Next, Terminating

-----------------------------------------------------------------------------
(* The reader behind READERS_PARKED. *)

LookingAgain(t) == \/ pc[t] = "sharedLoad"
                   \/ pc[t] = "sharedLoop" /\ WriteLocked(seen[t])

LEMMA FlagStillMeansReader ==
  ASSUME FlagMeansReader, state'.readersParked => state.readersParked,
         parkedReaders \subseteq parkedReaders',
         \A u \in Threads : LookingAgain(u) => LookingAgain(u)'
  PROVE  FlagMeansReader'
BY DEF FlagMeansReader, LookingAgain

LEMMA ProceedFlag ==
  ASSUME WakeInv, NEW t \in Threads, Proceed(t)
  PROVE  FlagMeansReader'
<1> USE DEF WakeInv
<1>0. state.readersParked => WriteLocked(state)
  BY DEF LockInv, WordAgreesWithGuards
<1>1. CASE ParkReader(t)
  <2>1. CASE WriteLocked(state) /\ state.readersParked
    BY <1>1, <2>1 DEF ParkReader, FlagMeansReader
  <2>2. CASE ~(WriteLocked(state) /\ state.readersParked)
    BY <1>1, <2>2 DEF ParkReader, FlagMeansReader, Goto, LockInv, TypeOK
  <2> QED BY <2>1, <2>2
<1>2. CASE WakeReaders(t)
  <2>1. CASE parkedReaders = {}
    <3>1. \A u \in Threads : LookingAgain(u) => LookingAgain(u)'
      BY <1>2 DEF WakeReaders, LookingAgain, WriteLocked
    <3> QED BY <1>2, <2>1, <3>1, FlagStillMeansReader DEF WakeReaders
  <2>2. CASE parkedReaders # {}
    <3>1. PICK u \in parkedReaders : u \in Threads /\ pc[u] = "sharedParked"
      BY <2>2 DEF QueuesHoldTheSleepers
    <3>2. pc'[u] = "sharedLoad"
      BY <1>2, <3>1 DEF WakeReaders
    <3> QED BY <3>1, <3>2 DEF FlagMeansReader
  <2> QED BY <2>1, <2>2
<1>3. CASE MarkReadersParked(t)
  <2>1. CASE Goto(t, "sharedLoad")
    BY <2>1 DEF Goto, LockInv, TypeOK, FlagMeansReader
  <2>2. CASE state = seen[t] /\ state' = [state EXCEPT !.readersParked = TRUE] /\ Read(t, state')
    <3>1. state'.count = OneWriter /\ pc'[t] = "sharedLoop" /\ seen'[t] = state'
      BY <1>3, <2>2 DEF MarkReadersParked, WriteLocked, Read, LockInv, TypeOK, Words, Goto
    <3> QED BY <3>1 DEF FlagMeansReader, WriteLocked
  <2>3. CASE UNCHANGED <<state, pc>> /\ Read(t, state)
    <3>1. pc'[t] = "sharedLoop" /\ seen'[t] = state
      BY <1>3, <2>3 DEF MarkReadersParked, Read, LockInv, TypeOK
    <3> QED BY <1>0, <2>3, <3>1 DEF FlagMeansReader, WriteLocked
  <2> QED BY <1>3, <2>1, <2>2, <2>3 DEF MarkReadersParked
<1>4. CASE LockSharedLoad(t)
  <2>1. pc'[t] = "sharedLoop" /\ seen'[t] = state /\ state' = state
    BY <1>4 DEF LockSharedLoad, Read, Goto, LockInv, TypeOK
  <2> QED BY <1>0, <2>1 DEF FlagMeansReader, WriteLocked
<1>5. CASE SharedFast(t) \/ TryLockSharedSlow(t) \/ LockSharedSlow(t)
  <2>1. CASE AcquireShared(t) /\ state.count + 1 < OneWriter
    BY <2>1, AcquireSharedFacts DEF FlagMeansReader
  <2>2. CASE LockSharedSlow(t) /\ state' = state /\ Goto(t, "sharedLoad")
    BY <2>2 DEF Goto, LockInv, TypeOK, FlagMeansReader
  <2>3. CASE SharedFast(t) \/ TryLockSharedSlow(t)
    <3>1. CASE UNCHANGED <<state, parked>>
      <4>1. \A u \in Threads \ {t} : LookingAgain(u) => LookingAgain(u)'
        BY <2>3, <3>1 DEF SharedFast, TryLockSharedSlow, AcquireShared, Goto, Read, Forget,
               LookingAgain, WriteLocked, LockInv, TypeOK
      <4>2. ~LookingAgain(t)
        BY <2>3 DEF SharedFast, TryLockSharedSlow, LookingAgain
      <4> QED BY <3>1, <4>1, <4>2, FlagStillMeansReader DEF parked
    <3> QED BY <2>1, <2>3, <3>1 DEF SharedFast, TryLockSharedSlow
  <2> QED BY <1>5, <2>1, <2>2, <2>3 DEF LockSharedSlow
<1>6. CASE ReaderCountOverflowed(t)
  <2>1. ~LookingAgain(t)
    BY <1>6, OneWriterAssumption
       DEF ReaderCountOverflowed, LookingAgain, WriteLocked
  <2>2. \A u \in Threads \ {t} : LookingAgain(u) => LookingAgain(u)'
    BY <1>6 DEF ReaderCountOverflowed, Goto, Forget, LookingAgain, WriteLocked, LockInv, TypeOK
  <2> QED BY <1>6, <2>1, <2>2, FlagStillMeansReader DEF ReaderCountOverflowed, parked
<1>7. CASE \/ TryLockSharedLoad(t) \/ LockExclusiveLoad(t) \/ LockExclusiveSlow(t)
           \/ MarkWritersParked(t) \/ ParkWriter(t)
           \/ UnlockSharedSlow(t) \/ UnlockExclusiveLoad(t) \/ UnlockExclusiveSlow(t)
  <2>1. ~LookingAgain(t)
    BY <1>7 DEF TryLockSharedLoad, LockExclusiveLoad, LockExclusiveSlow, MarkWritersParked,
           ParkWriter, UnlockSharedSlow, UnlockExclusiveLoad, UnlockExclusiveSlow, LookingAgain
  <2>2. \A u \in Threads \ {t} : pc'[u] = pc[u] /\ seen'[u] = seen[u]
    BY <1>7 DEF TryLockSharedLoad, LockExclusiveLoad, LockExclusiveSlow, MarkWritersParked,
           ParkWriter, UnlockSharedSlow, UnlockExclusiveLoad, UnlockExclusiveSlow,
           Goto, Read, Forget, LockInv, TypeOK
  <2>3. \A u \in Threads : LookingAgain(u) => LookingAgain(u)'
    BY <2>1, <2>2 DEF LookingAgain, WriteLocked
  <2>4. state'.readersParked => state.readersParked
    <3>1. CASE UNCHANGED state
      BY <3>1
    <3>2. CASE state' \in {Unlocked, Word(0, FALSE, TRUE)}
      BY <3>2 DEF Unlocked, Word
    <3>3. CASE MarkWritersParked(t)
      BY <3>3 DEF MarkWritersParked, LockInv, TypeOK, Words
    <3>4. CASE LockExclusiveSlow(t)
      BY <3>4 DEF LockExclusiveSlow, AcquireExclusive, Word
    <3> QED
      BY <1>7, <3>1, <3>2, <3>3, <3>4
         DEF TryLockSharedLoad, LockExclusiveLoad, ParkWriter,
             UnlockSharedSlow, UnlockExclusiveLoad, UnlockExclusiveSlow
  <2>5. UNCHANGED parkedReaders
    BY <1>7 DEF TryLockSharedLoad, LockExclusiveLoad, LockExclusiveSlow, MarkWritersParked,
           ParkWriter, UnlockSharedSlow, UnlockExclusiveLoad, UnlockExclusiveSlow,
           AcquireExclusive, parked
  <2> QED BY <2>3, <2>4, <2>5, FlagStillMeansReader
<1>8. CASE WakeWriter(t)
  <2>1. parkedWriters # << >> => pc[Head(parkedWriters)] = "exclusiveParked"
    BY HeadTailProperties, LenProperties, EmptySeq
       DEF LockInv, TypeOK, QueuesHoldTheSleepers
  <2>2. \A u \in Threads : LookingAgain(u) => LookingAgain(u)'
    BY <1>8, <2>1 DEF WakeWriter, LookingAgain, WriteLocked, LockInv, TypeOK, Goto
  <2> QED BY <1>8, <2>2, FlagStillMeansReader DEF WakeWriter
<1> QED BY <1>1, <1>2, <1>3, <1>4, <1>5, <1>6, <1>7, <1>8 DEF Proceed

LEMMA CallFlag ==
  ASSUME WakeInv, NEW t \in Threads,
         \/ LockShared(t) \/ TryLockShared(t) \/ LockExclusive(t) \/ TryLockExclusive(t)
         \/ Downgrade(t) \/ Drop(t) \/ \E u \in Threads : SendGuard(t, u)
  PROVE  FlagMeansReader'
<1> USE DEF WakeInv
<1>1. pc[t] = "idle" /\ UNCHANGED parkedReaders
  BY DEF LockShared, TryLockShared, LockExclusive, TryLockExclusive, Downgrade, Drop,
         UnlockShared, UnlockExclusive, SendGuard, AcquireExclusive, Call, parked
<1>2. \A u \in Threads \ {t} : pc'[u] = pc[u] /\ seen'[u] = seen[u]
  BY DEF LockShared, TryLockShared, LockExclusive, TryLockExclusive, Downgrade, Drop,
         UnlockShared, UnlockExclusive, SendGuard, LockInv, TypeOK, Goto, Read
<1>3. \A u \in Threads : LookingAgain(u) => LookingAgain(u)'
  BY <1>1, <1>2 DEF LookingAgain, WriteLocked
<1>4. state'.readersParked => state.readersParked
  <2>1. CASE UNCHANGED state
    BY <2>1
  <2>2. CASE state' \in {Unlocked, Word(OneWriter, FALSE, FALSE)}
    BY <2>2 DEF Unlocked, Word
  <2>3. CASE Downgrade(t)
    BY <2>3 DEF Downgrade, Word
  <2>4. CASE UnlockShared(t)
    BY <2>4 DEF UnlockShared, LockInv, TypeOK, Words
  <2> QED
    BY <2>1, <2>2, <2>3, <2>4
       DEF LockShared, TryLockShared, LockExclusive, TryLockExclusive, Drop,
           UnlockExclusive, SendGuard, AcquireExclusive
<1> QED BY <1>1, <1>3, <1>4, FlagStillMeansReader

LEMMA FlagNext ==
  ASSUME WakeInv, [Next]_vars
  PROVE  FlagMeansReader'
<1>1. CASE UNCHANGED vars
  BY <1>1 DEF vars, WakeInv, FlagMeansReader, WriteLocked
<1> QED BY <1>1, ProceedFlag, CallFlag DEF Next, Terminating

-----------------------------------------------------------------------------
(* Parked writers. *)

Carrying(t) == pc[t] \in {"exclusiveLoad", "exclusiveLoop"} /\ acquireWith[t]

Coming(t) == \/ pc[t] = "sharedLoad"
             \/ pc[t] = "sharedLoop" /\ seen[t].count + 1 # OneWriter

\* Somebody will see WRITERS_PARKED.
FlagIsSeen ==
  /\ state.writersParked
  /\ \/ state.count # 0
     \/ \E t \in Threads : pc[t] = "unlockLastReader"
     \/ parkedReaders # {}
     \/ \E t \in Threads : Coming(t)

LEMMA WritersWokenByParts ==
  ParkedWritersAreWoken <=>
    (parkedWriters # << >> =>
       \/ FlagIsSeen
       \/ \E t \in Threads : pc[t] = "wakeWriter"
       \/ \E t \in Threads : Carrying(t))
BY DEF ParkedWritersAreWoken, FlagIsSeen, ReaderComing, Coming, Carrying

LEMMA WritersStillWoken ==
  ASSUME ParkedWritersAreWoken, UNCHANGED parkedWriters,
         FlagIsSeen => FlagIsSeen',
         \A u \in Threads : pc[u] = "wakeWriter" => pc'[u] = "wakeWriter",
         \A u \in Threads : Carrying(u) => Carrying(u)' \/ FlagIsSeen'
  PROVE  ParkedWritersAreWoken'
BY DEF ParkedWritersAreWoken, FlagIsSeen, ReaderComing, Coming, Carrying

\* A step of a thread on which nobody relies, that leaves the word alone.
LEMMA WritersQuietStep ==
  ASSUME ParkedWritersAreWoken, NEW t \in Threads,
         UNCHANGED <<state, acquireWith, parked>>,
         \A u \in Threads \ {t} : pc'[u] = pc[u] /\ seen'[u] = seen[u],
         pc[t] \notin {"unlockLastReader", "wakeWriter"}, ~Coming(t), ~Carrying(t)
  PROVE  ParkedWritersAreWoken'
<1>1. \A u \in Threads : /\ Coming(u) => Coming(u)'
                         /\ Carrying(u) => Carrying(u)'
  BY DEF Coming, Carrying
<1>2. \A u \in Threads : pc[u] \in {"unlockLastReader", "wakeWriter"} => pc'[u] = pc[u]
  OBVIOUS
<1>3. UNCHANGED <<state, parkedWriters, parkedReaders>>
  BY DEF parked
<1>4. FlagIsSeen => FlagIsSeen'
  BY <1>1, <1>2, <1>3 DEF FlagIsSeen
<1>5. \A u \in Threads : pc[u] = "wakeWriter" => pc'[u] = "wakeWriter"
  BY <1>2
<1> QED BY <1>1, <1>3, <1>4, <1>5, WritersStillWoken

\* A step of one thread that leaves the flag to somebody.
LEMMA WritersFlagStep ==
  ASSUME ParkedWritersAreWoken, NEW t \in Threads,
         UNCHANGED <<acquireWith, parkedWriters>>,
         \A u \in Threads \ {t} : pc'[u] = pc[u],
         pc[t] # "wakeWriter", ~Carrying(t),
         FlagIsSeen => FlagIsSeen'
  PROVE  ParkedWritersAreWoken'
<1>1. \A u \in Threads : Carrying(u) => Carrying(u)'
  BY DEF Carrying
<1> QED BY <1>1, WritersStillWoken

LEMMA SharedWriters ==
  ASSUME WakeInv, NEW t \in Threads,
         \/ SharedFast(t) \/ TryLockSharedLoad(t) \/ TryLockSharedSlow(t)
         \/ LockSharedLoad(t) \/ LockSharedSlow(t) \/ ReaderCountOverflowed(t)
         \/ MarkReadersParked(t) \/ ParkReader(t)
  PROVE  ParkedWritersAreWoken'
<1> USE OneWriterAssumption DEF WakeInv
<1>0. /\ pc[t] \notin {"unlockLastReader", "wakeWriter"} /\ ~Carrying(t)
      /\ UNCHANGED <<acquireWith, parkedWriters>>
      /\ \A u \in Threads \ {t} : pc'[u] = pc[u] /\ seen'[u] = seen[u]
  <2>1. /\ pc[t] \notin {"unlockLastReader", "wakeWriter"} /\ ~Carrying(t)
        /\ UNCHANGED <<acquireWith, parkedWriters>>
    BY DEF SharedFast, TryLockSharedLoad, TryLockSharedSlow, LockSharedLoad, LockSharedSlow,
           ReaderCountOverflowed, MarkReadersParked, ParkReader, AcquireShared, parked, Carrying
  <2>2. \A u \in Threads \ {t} : pc'[u] = pc[u] /\ seen'[u] = seen[u]
    BY DEF SharedFast, TryLockSharedLoad, TryLockSharedSlow, LockSharedLoad, LockSharedSlow,
           ReaderCountOverflowed, MarkReadersParked, ParkReader, AcquireShared,
           Goto, Read, Forget, LockInv, TypeOK
  <2> QED BY <2>1, <2>2
<1>1. CASE AcquireShared(t) /\ state.count + 1 < OneWriter
  <2>1. FlagIsSeen => FlagIsSeen'
    BY <1>1, AcquireSharedFacts DEF FlagIsSeen
  <2> QED BY <1>0, <2>1, WritersFlagStep
<1>2. CASE Goto(t, "sharedLoad") /\ UNCHANGED state
  <2>1. FlagIsSeen => FlagIsSeen'
    BY <1>2 DEF Goto, LockInv, TypeOK, FlagIsSeen, Coming
  <2> QED BY <1>0, <2>1, WritersFlagStep
<1>3. CASE UNCHANGED state /\ pc'[t] = "sharedLoop" /\ seen'[t] = state
  <2>1. FlagIsSeen => FlagIsSeen'
    BY <1>3 DEF FlagIsSeen, Coming
  <2> QED BY <1>0, <2>1, WritersFlagStep
<1>4. CASE UNCHANGED <<state, parked>> /\ ~Coming(t)
  BY <1>0, <1>4, WritersQuietStep
<1>5. CASE SharedFast(t) \/ TryLockSharedSlow(t)
  <2>1. ~Coming(t)
    BY <1>5 DEF SharedFast, TryLockSharedSlow, Coming
  <2> QED BY <1>1, <1>4, <1>5, <2>1 DEF SharedFast, TryLockSharedSlow
<1>6. CASE TryLockSharedLoad(t) \/ ReaderCountOverflowed(t)
  <2>1. ~Coming(t)
    BY <1>6 DEF TryLockSharedLoad, ReaderCountOverflowed, Coming
  <2> QED BY <1>4, <1>6, <2>1 DEF TryLockSharedLoad, ReaderCountOverflowed
<1>7. CASE LockSharedLoad(t)
  BY <1>3, <1>7 DEF LockSharedLoad, Read, Goto, LockInv, TypeOK
<1>8. CASE LockSharedSlow(t)
  BY <1>1, <1>2, <1>8 DEF LockSharedSlow
<1>9. CASE MarkReadersParked(t)
  <2>1. CASE Goto(t, "sharedLoad") /\ UNCHANGED state
    BY <1>2, <2>1
  <2>2. CASE state = seen[t] /\ state' = [state EXCEPT !.readersParked = TRUE]
    <3>1. state'.count # 0 /\ state'.writersParked = state.writersParked
      BY <1>9, <2>2 DEF MarkReadersParked, WriteLocked, LockInv, TypeOK, Words
    <3>2. FlagIsSeen => FlagIsSeen'
      BY <3>1 DEF FlagIsSeen
    <3> QED BY <1>0, <3>2, WritersFlagStep
  <2>3. CASE Read(t, state) /\ UNCHANGED <<state, pc>>
    BY <1>3, <1>9, <2>3 DEF MarkReadersParked, Read, LockInv, TypeOK
  <2> QED BY <1>9, <2>1, <2>2, <2>3 DEF MarkReadersParked
<1>10. CASE ParkReader(t)
  <2>1. CASE WriteLocked(state) /\ state.readersParked
    <3>1. FlagIsSeen => FlagIsSeen'
      BY <1>10, <2>1 DEF ParkReader, FlagIsSeen
    <3> QED BY <1>0, <3>1, WritersFlagStep
  <2> QED BY <1>2, <1>10, <2>1 DEF ParkReader
<1> QED BY <1>5, <1>6, <1>7, <1>8, <1>9, <1>10

LEMMA ExclusiveWriters ==
  ASSUME WakeInv, NEW t \in Threads,
         \/ LockExclusiveLoad(t) \/ LockExclusiveSlow(t) \/ MarkWritersParked(t) \/ ParkWriter(t)
  PROVE  ParkedWritersAreWoken'
<1> USE OneWriterAssumption DEF WakeInv
<1>0. /\ pc[t] \in {"exclusiveLoad", "exclusiveLoop"} /\ UNCHANGED parkedReaders
      /\ \A u \in Threads \ {t} :
           pc'[u] = pc[u] /\ seen'[u] = seen[u] /\ acquireWith'[u] = acquireWith[u]
  <2>1. pc[t] \in {"exclusiveLoad", "exclusiveLoop"} /\ UNCHANGED parkedReaders
    BY DEF LockExclusiveLoad, LockExclusiveSlow, MarkWritersParked, ParkWriter,
           AcquireExclusive, parked
  <2>2. \A u \in Threads \ {t} :
          pc'[u] = pc[u] /\ seen'[u] = seen[u] /\ acquireWith'[u] = acquireWith[u]
    BY DEF LockExclusiveLoad, LockExclusiveSlow, MarkWritersParked, ParkWriter,
           Goto, Read, Forget, LockInv, TypeOK
  <2> QED BY <2>1, <2>2
<1>1. /\ \A u \in Threads : pc[u] \in {"unlockLastReader", "wakeWriter"} => pc'[u] = pc[u]
      /\ \A u \in Threads : Coming(u) => Coming(u)'
      /\ \A u \in Threads \ {t} : Carrying(u) => Carrying(u)'
  BY <1>0 DEF Coming, Carrying
<1>2. \A u \in Threads : pc[u] = "wakeWriter" => pc'[u] = "wakeWriter"
  BY <1>1
<1>3. CASE LockExclusiveSlow(t) /\ state = seen[t]
  <2>1. /\ state' = Word(OneWriter, state.readersParked, state.writersParked \/ acquireWith[t])
        /\ UNCHANGED parkedWriters
    BY <1>3 DEF LockExclusiveSlow, AcquireExclusive, parked
  <2> DEFINE parking == state.writersParked \/ acquireWith[t]
  <2>2. state'.count # 0 /\ (parking => state'.writersParked)
    <3>1. state' = Word(OneWriter, state.readersParked, parking)
      BY <2>1
    <3> HIDE DEF parking
    <3> QED BY <3>1 DEF Word
  <2>3. FlagIsSeen \/ acquireWith[t] => FlagIsSeen'
    BY <2>2 DEF FlagIsSeen
  <2>4. \A u \in Threads : Carrying(u) => Carrying(u)' \/ FlagIsSeen'
    BY <1>1, <2>3 DEF Carrying
  <2> QED BY <1>2, <2>1, <2>3, <2>4, WritersStillWoken
<1>4. CASE \/ LockExclusiveLoad(t)
           \/ LockExclusiveSlow(t) /\ state # seen[t]
           \/ MarkWritersParked(t)
  <2>1. Carrying(t) => Carrying(t)'
    BY <1>4 DEF LockExclusiveLoad, LockExclusiveSlow, MarkWritersParked, Carrying, Goto,
           LockInv, TypeOK
  <2>2. state'.count = state.count /\ (state.writersParked => state'.writersParked)
    BY <1>4 DEF LockExclusiveLoad, LockExclusiveSlow, MarkWritersParked, LockInv, TypeOK, Words
  <2>3. UNCHANGED parkedWriters
    BY <1>4 DEF LockExclusiveLoad, LockExclusiveSlow, MarkWritersParked, parked
  <2>4. FlagIsSeen => FlagIsSeen'
    BY <1>0, <1>1, <2>2 DEF FlagIsSeen
  <2>5. \A u \in Threads : Carrying(u) => Carrying(u)'
    BY <1>1, <2>1
  <2> QED BY <1>2, <2>3, <2>4, <2>5, WritersStillWoken
<1>5. CASE ParkWriter(t) /\ state.count # 0 /\ state.writersParked
  <2>1. FlagIsSeen'
    BY <1>5 DEF ParkWriter, FlagIsSeen
  <2> QED BY <2>1 DEF ParkedWritersAreWoken, FlagIsSeen, ReaderComing, Coming
<1>6. CASE ParkWriter(t) /\ ~(state.count # 0 /\ state.writersParked)
  <2>1. Carrying(t)'
    BY <1>6 DEF ParkWriter, Carrying, Goto, LockInv, TypeOK
  <2> QED BY <2>1 DEF ParkedWritersAreWoken, Carrying
<1> QED BY <1>3, <1>4, <1>5, <1>6

LEMMA UnlockWriters ==
  ASSUME WakeInv, NEW t \in Threads,
         UnlockSharedSlow(t) \/ UnlockExclusiveLoad(t) \/ UnlockExclusiveSlow(t)
  PROVE  ParkedWritersAreWoken'
<1> USE OneWriterAssumption DEF WakeInv
<1>0. /\ pc[t] \in {"unlockLastReader", "unlockLoad", "unlockRelease"}
      /\ UNCHANGED <<acquireWith, parkedWriters, parkedReaders>>
      /\ \A u \in Threads \ {t} : pc'[u] = pc[u] /\ seen'[u] = seen[u]
  <2>1. /\ pc[t] \in {"unlockLastReader", "unlockLoad", "unlockRelease"}
        /\ UNCHANGED <<acquireWith, parkedWriters, parkedReaders>>
    BY DEF UnlockSharedSlow, UnlockExclusiveLoad, UnlockExclusiveSlow, parked
  <2>2. \A u \in Threads \ {t} : pc'[u] = pc[u] /\ seen'[u] = seen[u]
    BY DEF UnlockSharedSlow, UnlockExclusiveLoad, UnlockExclusiveSlow, Goto, Read, Forget,
           LockInv, TypeOK
  <2> QED BY <2>1, <2>2
<1>1. /\ pc[t] # "wakeWriter" /\ ~Carrying(t) /\ ~Coming(t)
      /\ \A u \in Threads : Coming(u) => Coming(u)'
  BY <1>0 DEF Carrying, Coming
<1>2. CASE Goto(t, "wakeWriter")
  <2>1. pc'[t] = "wakeWriter"
    BY <1>2 DEF Goto, LockInv, TypeOK
  <2> QED BY <2>1 DEF ParkedWritersAreWoken
<1>3. CASE UnlockSharedSlow(t) /\ state # Word(0, FALSE, TRUE)
  <2>1. state \in Words /\ (state.readersParked => WriteLocked(state)) /\ UNCHANGED state
    BY <1>3 DEF LockInv, TypeOK, WordAgreesWithGuards, UnlockSharedSlow
  <2>2. state.writersParked => state.count # 0
    BY <1>3, <2>1 DEF Words, Word, WriteLocked
  <2>3. FlagIsSeen => FlagIsSeen'
    BY <2>1, <2>2 DEF FlagIsSeen
  <2> QED BY <1>0, <1>1, <2>3, WritersFlagStep
<1>4. CASE /\ UnlockExclusiveSlow(t)
           /\ seen[t].readersParked /\ seen[t].writersParked
           /\ state' = Word(0, FALSE, TRUE)
  <2>1. state.readersParked
    BY <1>4 DEF LockInv, UnlockingWriter, UnlockExclusiveSlow
  <2>2. parkedReaders # {} \/ \E u \in Threads : Coming(u)
    BY <2>1 DEF FlagMeansReader, Coming, WriteLocked
  <2>3. FlagIsSeen'
    BY <1>0, <1>1, <1>4, <2>2 DEF FlagIsSeen, Word
  <2> QED BY <1>0, <1>1, <2>3, WritersFlagStep
<1>5. CASE Goto(t, "wakeReaders") /\ state = seen[t] /\ ~seen[t].writersParked
  <2>1. ~FlagIsSeen
    BY <1>5 DEF FlagIsSeen
  <2> QED BY <1>0, <1>1, <2>1, WritersFlagStep
<1>6. CASE \/ UnlockExclusiveLoad(t)
           \/ UnlockExclusiveSlow(t) /\ UNCHANGED <<state, pc>>
  <2>1. UNCHANGED state /\ pc[t] # "unlockLastReader"
    BY <1>6 DEF UnlockExclusiveLoad, UnlockExclusiveSlow
  <2> QED BY <1>0, <1>1, <2>1, WritersQuietStep DEF parked
<1>7. seen[t].readersParked \in BOOLEAN /\ seen[t].writersParked \in BOOLEAN
  BY DEF LockInv, TypeOK, Words
<1>8. CASE UnlockSharedSlow(t)
  BY <1>2, <1>3, <1>8 DEF UnlockSharedSlow
<1>9. CASE UnlockExclusiveSlow(t)
  <2>1. CASE seen[t].readersParked
    BY <1>4, <1>5, <1>6, <1>7, <1>9, <2>1 DEF UnlockExclusiveSlow
  <2>2. CASE ~seen[t].readersParked
    BY <1>2, <1>6, <1>7, <1>9, <2>2 DEF UnlockExclusiveSlow
  <2> QED BY <2>1, <2>2
<1> QED BY <1>6, <1>8, <1>9

LEMMA WakeWriters ==
  ASSUME WakeInv, NEW t \in Threads, WakeReaders(t) \/ WakeWriter(t)
  PROVE  ParkedWritersAreWoken'
<1> USE DEF WakeInv
<1>1. CASE WakeReaders(t)
  <2>1. \A u \in Threads : u \in parkedReaders => pc'[u] = "sharedLoad"
    BY <1>1 DEF WakeReaders, QueuesHoldTheSleepers
  <2>2. \A u \in Threads : pc[u] \in {"unlockLastReader", "wakeWriter"} => pc'[u] = pc[u]
    BY <1>1 DEF WakeReaders, QueuesHoldTheSleepers
  <2>3. \A u \in Threads : Coming(u) => Coming(u)'
    BY <1>1 DEF WakeReaders, Coming, QueuesHoldTheSleepers
  <2>4. \A u \in Threads : Carrying(u) => Carrying(u)'
    BY <1>1 DEF WakeReaders, Carrying, QueuesHoldTheSleepers
  <2>5. parkedReaders # {} => \E u \in Threads : Coming(u)'
    BY <2>1 DEF Coming, LockInv, TypeOK
  <2>6. UNCHANGED <<state, parkedWriters>>
    BY <1>1 DEF WakeReaders
  <2>7. FlagIsSeen => FlagIsSeen'
    BY <2>2, <2>3, <2>5, <2>6 DEF FlagIsSeen
  <2>8. \A u \in Threads : pc[u] = "wakeWriter" => pc'[u] = "wakeWriter"
    BY <2>2
  <2> QED BY <2>4, <2>6, <2>7, <2>8, WritersStillWoken
<1>2. CASE WakeWriter(t) /\ parkedWriters = << >>
  BY <1>2 DEF WakeWriter, ParkedWritersAreWoken
<1>3. CASE WakeWriter(t) /\ parkedWriters # << >>
  <2> DEFINE first == Head(parkedWriters)
  <2>1. first \in Threads /\ first # t
    BY <1>3, HeadTailProperties, LenProperties, EmptySeq
       DEF LockInv, TypeOK, QueuesHoldTheSleepers, WakeWriter
  <2>2. pc'[first] = "exclusiveLoad" /\ acquireWith'[first]
    BY <1>3, <2>1 DEF WakeWriter, LockInv, TypeOK
  <2> QED BY <2>1, <2>2 DEF ParkedWritersAreWoken
<1> QED BY <1>1, <1>2, <1>3

LEMMA CallWriters ==
  ASSUME WakeInv, NEW t \in Threads,
         \/ LockShared(t) \/ TryLockShared(t) \/ LockExclusive(t) \/ TryLockExclusive(t)
         \/ Downgrade(t) \/ Drop(t) \/ \E u \in Threads : SendGuard(t, u)
  PROVE  ParkedWritersAreWoken'
<1> USE OneWriterAssumption DEF WakeInv
<1>0. /\ pc[t] = "idle" /\ UNCHANGED <<acquireWith, parkedWriters, parkedReaders>>
      /\ \A u \in Threads \ {t} : pc'[u] = pc[u] /\ seen'[u] = seen[u]
  <2>1. pc[t] = "idle" /\ UNCHANGED <<acquireWith, parkedWriters, parkedReaders>>
    BY DEF LockShared, TryLockShared, LockExclusive, TryLockExclusive, Downgrade, Drop,
           UnlockShared, UnlockExclusive, SendGuard, AcquireExclusive, Call, parked
  <2>2. \A u \in Threads \ {t} : pc'[u] = pc[u] /\ seen'[u] = seen[u]
    BY DEF LockShared, TryLockShared, LockExclusive, TryLockExclusive, Downgrade, Drop,
           UnlockShared, UnlockExclusive, SendGuard, LockInv, TypeOK, Goto, Read
  <2> QED BY <2>1, <2>2
<1>1. ~Coming(t) /\ ~Carrying(t)
  BY <1>0 DEF Coming, Carrying
<1>2. CASE UNCHANGED state
  BY <1>0, <1>1, <1>2, WritersQuietStep DEF parked
<1>3. CASE state \in {Unlocked, Word(OneWriter, FALSE, FALSE)}
  <2>1. ~FlagIsSeen
    BY <1>3 DEF FlagIsSeen, Unlocked, Word
  <2> QED BY <1>0, <1>1, <2>1, WritersFlagStep
<1>4. CASE Downgrade(t)
  <2>1. state.count = OneWriter
    BY <1>4 DEF Downgrade, LockInv, WordAgreesWithGuards, WriteLocked, TypeOK
  <2>2. state'.count # 0 /\ state'.writersParked = state.writersParked
    BY <1>4, <2>1 DEF Downgrade, Word
  <2>3. FlagIsSeen => FlagIsSeen'
    BY <2>2 DEF FlagIsSeen
  <2> QED BY <1>0, <1>1, <2>3, WritersFlagStep
<1>5. CASE UnlockShared(t)
  <2>1. writers = {}
    BY <1>5 DEF UnlockShared, LockInv, MutualExclusion, TypeOK
  <2>2. state \in Words /\ ~state.readersParked
    BY <2>1 DEF LockInv, WordAgreesWithGuards, TypeOK
  <2>3. state' = [state EXCEPT !.count = state.count - 1]
    BY <1>5 DEF UnlockShared
  <2>4. state'.writersParked = state.writersParked /\ state'.count = state.count - 1
    BY <2>2, <2>3 DEF Words
  <2>5. CASE state = Word(1, FALSE, TRUE)
    <3>1. pc'[t] = "unlockLastReader"
      BY <1>5, <2>5 DEF UnlockShared, Goto, LockInv, TypeOK
    <3>2. FlagIsSeen => FlagIsSeen'
      BY <2>4, <3>1 DEF FlagIsSeen
    <3> QED BY <1>0, <1>1, <3>2, WritersFlagStep
  <2>6. CASE state # Word(1, FALSE, TRUE)
    <3>1. state.writersParked => state.count # 1
      BY <2>2, <2>6 DEF Words, Word
    <3>2. FlagIsSeen => FlagIsSeen'
      BY <2>2, <2>4, <3>1 DEF FlagIsSeen, Words
    <3> QED BY <1>0, <1>1, <3>2, WritersFlagStep
  <2> QED BY <2>5, <2>6
<1> QED
  BY <1>2, <1>3, <1>4, <1>5
     DEF LockShared, TryLockShared, LockExclusive, TryLockExclusive, Drop, UnlockExclusive,
         SendGuard

LEMMA WritersNext ==
  ASSUME WakeInv, [Next]_vars
  PROVE  ParkedWritersAreWoken'
<1>1. CASE UNCHANGED vars
  BY <1>1 DEF vars, WakeInv, ParkedWritersAreWoken, ReaderComing
<1> QED
  BY <1>1, SharedWriters, ExclusiveWriters, UnlockWriters, WakeWriters, CallWriters
     DEF Next, Proceed, Terminating

-----------------------------------------------------------------------------
(* The theorems. *)

LEMMA WakeInvariant == Spec => []WakeInv
<1>1. Init => WakeInv
  <2> SUFFICES ASSUME Init PROVE WakeInv
    OBVIOUS
  <2>1. QueuesHoldTheSleepers
    BY DEF Init, QueuesHoldTheSleepers
  <2> QED
    BY <2>1, LockInvInit
       DEF WakeInv, Init, FlagMeansReader, ParkedReadersAreWoken, ParkedWritersAreWoken,
           Unlocked, Word
<1>2. WakeInv /\ [Next]_vars => WakeInv'
  BY LockInvNext, QueuesNext, FlagNext, ReadersNext, WritersNext DEF WakeInv, LockInv
<1> QED BY <1>1, <1>2, PTL DEF Spec

\* A reader that parked is woken: by the writer that holds the lock, or by
\* one that has released or downgraded it and is about to unpark.
THEOREM NoLostReaderWakeup == Spec => []ParkedReadersAreWoken
<1>1. WakeInv => ParkedReadersAreWoken
  BY DEF WakeInv
<1> QED BY <1>1, WakeInvariant, PTL

\* A writer that parked is never forgotten, although unlock_exclusive_slow
\* wakes only the readers when both wait, and the last reader clears the
\* word before it wakes one writer out of many.
THEOREM NoLostWriterWakeup == Spec => []ParkedWritersAreWoken
<1>1. WakeInv => ParkedWritersAreWoken
  BY DEF WakeInv
<1> QED BY <1>1, WakeInvariant, PTL

-----------------------------------------------------------------------------
(* What is left in the word.  WRITERS_PARKED may be set although no writer  *)
(* is parked any more, but then somebody comes who will clear it.           *)

FlagHasFinder == state.writersParked => FlagIsSeen

LEMMA FinderQuietStep ==
  ASSUME FlagHasFinder, NEW t \in Threads, UNCHANGED <<state, parkedReaders>>,
         \A u \in Threads \ {t} : pc'[u] = pc[u] /\ seen'[u] = seen[u],
         pc[t] # "unlockLastReader", ~Coming(t)
  PROVE  FlagHasFinder'
<1>1. \A u \in Threads : Coming(u) => Coming(u)'
  BY DEF Coming
<1>. QED
  BY <1>1 DEF FlagHasFinder, FlagIsSeen

LEMMA FinderComes ==
  ASSUME \/ ~state'.writersParked
         \/ state'.count # 0
         \/ parkedReaders' # {}
         \/ \E t \in Threads : Coming(t)' \/ pc'[t] = "unlockLastReader"
  PROVE  FlagHasFinder'
BY DEF FlagHasFinder, FlagIsSeen

LEMMA SharedFinder ==
  ASSUME WakeInv, FlagHasFinder, NEW t \in Threads,
         \/ SharedFast(t) \/ TryLockSharedLoad(t) \/ TryLockSharedSlow(t)
         \/ LockSharedLoad(t) \/ LockSharedSlow(t) \/ ReaderCountOverflowed(t)
         \/ MarkReadersParked(t) \/ ParkReader(t)
  PROVE  FlagHasFinder'
<1>. USE OneWriterAssumption DEF WakeInv
<1>1. CASE AcquireShared(t) /\ state.count + 1 < OneWriter
  BY <1>1, AcquireSharedFacts, FinderComes
<1>2. CASE Goto(t, "sharedLoad")
  BY <1>2, FinderComes DEF Goto, LockInv, TypeOK, Coming
<1>3. CASE UNCHANGED state /\ pc'[t] = "sharedLoop" /\ seen'[t] = state
  <2>1. state'.count # 0 \/ Coming(t)'
    BY <1>3 DEF Coming
  <2>. QED
    BY <2>1, FinderComes
<1>4. \A u \in Threads \ {t} : pc'[u] = pc[u] /\ seen'[u] = seen[u]
  BY DEF SharedFast, TryLockSharedLoad, TryLockSharedSlow, LockSharedLoad, LockSharedSlow,
         ReaderCountOverflowed, MarkReadersParked, ParkReader, AcquireShared,
         Goto, Read, Forget, LockInv, TypeOK
<1>5. CASE SharedFast(t) \/ TryLockSharedSlow(t)
  <2>1. ~Coming(t) /\ pc[t] # "unlockLastReader"
    BY <1>5 DEF SharedFast, TryLockSharedSlow, Coming
  <2>2. CASE UNCHANGED <<state, parkedReaders>>
    BY <1>4, <2>1, <2>2, FinderQuietStep
  <2>. QED
    BY <1>1, <1>5, <2>2 DEF SharedFast, TryLockSharedSlow, parked
<1>6. CASE TryLockSharedLoad(t) \/ ReaderCountOverflowed(t)
  <2>1. ~Coming(t) /\ pc[t] # "unlockLastReader" /\ UNCHANGED <<state, parkedReaders>>
    BY <1>6 DEF TryLockSharedLoad, ReaderCountOverflowed, Coming, parked
  <2>. QED
    BY <1>4, <2>1, FinderQuietStep
<1>7. CASE LockSharedLoad(t)
  BY <1>3, <1>7 DEF LockSharedLoad, Read, Goto, LockInv, TypeOK
<1>8. CASE LockSharedSlow(t)
  BY <1>1, <1>2, <1>8 DEF LockSharedSlow
<1>9. CASE MarkReadersParked(t)
  <2>1. CASE state = seen[t] /\ state' = [state EXCEPT !.readersParked = TRUE]
    <3>1. state'.count # 0
      BY <1>9, <2>1 DEF MarkReadersParked, WriteLocked, LockInv, TypeOK, Words
    <3>. QED
      BY <3>1, FinderComes
  <2>2. CASE Read(t, state) /\ UNCHANGED <<state, pc>>
    BY <1>3, <1>9, <2>2 DEF MarkReadersParked, Read, LockInv, TypeOK
  <2>. QED
    BY <1>2, <1>9, <2>1, <2>2 DEF MarkReadersParked
<1>10. CASE ParkReader(t)
  <2>1. CASE WriteLocked(state) /\ state.readersParked
    <3>1. parkedReaders' # {}
      BY <1>10, <2>1 DEF ParkReader
    <3>. QED
      BY <3>1, FinderComes
  <2>. QED
    BY <1>2, <1>10, <2>1 DEF ParkReader
<1>. QED
  BY <1>5, <1>6, <1>7, <1>8, <1>9, <1>10

LEMMA ExclusiveFinder ==
  ASSUME WakeInv, FlagHasFinder, NEW t \in Threads,
         \/ LockExclusiveLoad(t) \/ LockExclusiveSlow(t) \/ MarkWritersParked(t) \/ ParkWriter(t)
  PROVE  FlagHasFinder'
<1>. USE OneWriterAssumption DEF WakeInv
<1>1. /\ pc[t] # "unlockLastReader" /\ ~Coming(t) /\ UNCHANGED parkedReaders
  BY DEF LockExclusiveLoad, LockExclusiveSlow, MarkWritersParked, ParkWriter,
         AcquireExclusive, parked, Coming
<1>2. \A u \in Threads \ {t} : pc'[u] = pc[u] /\ seen'[u] = seen[u]
  BY DEF LockExclusiveLoad, LockExclusiveSlow, MarkWritersParked, ParkWriter,
         Goto, Read, Forget, LockInv, TypeOK
<1>3. CASE UNCHANGED state
  BY <1>1, <1>2, <1>3, FinderQuietStep
<1>4. CASE state' # state
  <2>1. state'.count # 0
    BY <1>4 DEF LockExclusiveLoad, LockExclusiveSlow, MarkWritersParked, ParkWriter,
           AcquireExclusive, Word, LockInv, TypeOK, Words
  <2>. QED
    BY <2>1, FinderComes
<1>. QED
  BY <1>3, <1>4

LEMMA UnlockFinder ==
  ASSUME WakeInv, FlagHasFinder, NEW t \in Threads,
         UnlockSharedSlow(t) \/ UnlockExclusiveLoad(t) \/ UnlockExclusiveSlow(t)
  PROVE  FlagHasFinder'
<1>. USE DEF WakeInv
<1>1. /\ pc[t] \in {"unlockLastReader", "unlockLoad", "unlockRelease"} /\ UNCHANGED parkedReaders
      /\ \A u \in Threads \ {t} : pc'[u] = pc[u] /\ seen'[u] = seen[u]
  <2>1. pc[t] \in {"unlockLastReader", "unlockLoad", "unlockRelease"} /\ UNCHANGED parkedReaders
    BY DEF UnlockSharedSlow, UnlockExclusiveLoad, UnlockExclusiveSlow, parked
  <2>2. \A u \in Threads \ {t} : pc'[u] = pc[u] /\ seen'[u] = seen[u]
    BY DEF UnlockSharedSlow, UnlockExclusiveLoad, UnlockExclusiveSlow, Goto, Read, Forget,
           LockInv, TypeOK
  <2>. QED
    BY <2>1, <2>2
<1>2. ~Coming(t)
  BY <1>1 DEF Coming
<1>3. CASE state' = Unlocked
  BY <1>3, FinderComes DEF Unlocked, Word
<1>4. CASE UnlockSharedSlow(t) /\ state # Word(0, FALSE, TRUE)
  <2>1. state \in Words /\ (state.readersParked => WriteLocked(state)) /\ UNCHANGED state
    BY <1>4 DEF LockInv, TypeOK, WordAgreesWithGuards, UnlockSharedSlow
  <2>2. ~state.writersParked \/ state.count # 0
    BY <1>4, <2>1, OneWriterAssumption DEF Words, Word, WriteLocked
  <2>. QED
    BY <2>1, <2>2, FinderComes
<1>5. CASE /\ UnlockExclusiveSlow(t)
           /\ seen[t].readersParked /\ seen[t].writersParked
  <2>1. state.readersParked
    BY <1>5 DEF LockInv, UnlockingWriter, UnlockExclusiveSlow
  <2>2. parkedReaders # {} \/ \E u \in Threads : Coming(u)
    BY <2>1, OneWriterAssumption DEF FlagMeansReader, Coming, WriteLocked
  <2>3. \A u \in Threads : Coming(u) => Coming(u)'
    BY <1>1, <1>2 DEF Coming
  <2>. QED
    BY <1>1, <2>2, <2>3, FinderComes
<1>6. CASE UNCHANGED state /\ pc[t] # "unlockLastReader"
  BY <1>1, <1>2, <1>6, FinderQuietStep
<1>. QED
  BY <1>3, <1>4, <1>5, <1>6 DEF UnlockSharedSlow, UnlockExclusiveLoad, UnlockExclusiveSlow

LEMMA WakeFinder ==
  ASSUME WakeInv, FlagHasFinder, NEW t \in Threads, WakeReaders(t) \/ WakeWriter(t)
  PROVE  FlagHasFinder'
<1>. USE DEF WakeInv
<1>1. CASE WakeReaders(t)
  <2>1. \A u \in Threads : u \in parkedReaders => pc'[u] = "sharedLoad"
    BY <1>1 DEF WakeReaders, QueuesHoldTheSleepers
  <2>2. \A u \in Threads : pc[u] = "unlockLastReader" => pc'[u] = pc[u]
    BY <1>1 DEF WakeReaders, QueuesHoldTheSleepers
  <2>3. \A u \in Threads : Coming(u) => Coming(u)'
    BY <1>1 DEF WakeReaders, Coming, QueuesHoldTheSleepers
  <2>4. parkedReaders # {} => \E u \in Threads : Coming(u)'
    BY <2>1 DEF Coming, LockInv, TypeOK
  <2>. QED
    BY <1>1, <2>2, <2>3, <2>4 DEF WakeReaders, FlagHasFinder, FlagIsSeen
<1>2. CASE WakeWriter(t)
  <2>1. parkedWriters # << >> => pc[Head(parkedWriters)] = "exclusiveParked"
    BY HeadTailProperties, LenProperties, EmptySeq
       DEF LockInv, TypeOK, QueuesHoldTheSleepers
  <2>2. \A u \in Threads : pc[u] = "unlockLastReader" => pc'[u] = pc[u]
    BY <1>2, <2>1 DEF WakeWriter, LockInv, TypeOK, Goto
  <2>3. \A u \in Threads : Coming(u) => Coming(u)'
    BY <1>2, <2>1 DEF WakeWriter, Coming, LockInv, TypeOK, Goto
  <2>. QED
    BY <1>2, <2>2, <2>3 DEF WakeWriter, FlagHasFinder, FlagIsSeen
<1>. QED
  BY <1>1, <1>2

LEMMA CallFinder ==
  ASSUME WakeInv, FlagHasFinder, NEW t \in Threads,
         \/ LockShared(t) \/ TryLockShared(t) \/ LockExclusive(t) \/ TryLockExclusive(t)
         \/ Downgrade(t) \/ Drop(t) \/ \E u \in Threads : SendGuard(t, u)
  PROVE  FlagHasFinder'
<1>. USE OneWriterAssumption DEF WakeInv
<1>1. /\ pc[t] = "idle" /\ UNCHANGED parkedReaders
      /\ \A u \in Threads \ {t} : pc'[u] = pc[u] /\ seen'[u] = seen[u]
  <2>1. pc[t] = "idle" /\ UNCHANGED parkedReaders
    BY DEF LockShared, TryLockShared, LockExclusive, TryLockExclusive, Downgrade, Drop,
           UnlockShared, UnlockExclusive, SendGuard, AcquireExclusive, Call, parked
  <2>2. \A u \in Threads \ {t} : pc'[u] = pc[u] /\ seen'[u] = seen[u]
    BY DEF LockShared, TryLockShared, LockExclusive, TryLockExclusive, Downgrade, Drop,
           UnlockShared, UnlockExclusive, SendGuard, LockInv, TypeOK, Goto, Read
  <2>. QED
    BY <2>1, <2>2
<1>2. CASE UNCHANGED state
  BY <1>1, <1>2, FinderQuietStep DEF Coming
<1>3. CASE state' \in {Unlocked, Word(OneWriter, FALSE, FALSE)}
  BY <1>3, FinderComes DEF Unlocked, Word
<1>4. CASE Downgrade(t)
  <2>1. state.count = OneWriter
    BY <1>4 DEF Downgrade, LockInv, WordAgreesWithGuards, WriteLocked, TypeOK
  <2>2. state'.count # 0
    BY <1>4, <2>1 DEF Downgrade, Word
  <2>. QED
    BY <2>2, FinderComes
<1>5. CASE UnlockShared(t)
  <2>1. writers = {}
    BY <1>5 DEF UnlockShared, LockInv, MutualExclusion, TypeOK
  <2>2. state \in Words /\ ~state.readersParked
    BY <2>1 DEF LockInv, WordAgreesWithGuards, TypeOK
  <2>3. state' = [state EXCEPT !.count = state.count - 1]
    BY <1>5 DEF UnlockShared
  <2>4. state'.writersParked = state.writersParked /\ state'.count = state.count - 1
    BY <2>2, <2>3 DEF Words
  <2>5. CASE state = Word(1, FALSE, TRUE)
    <3>1. pc'[t] = "unlockLastReader"
      BY <1>5, <2>5 DEF UnlockShared, Goto, LockInv, TypeOK
    <3>. QED
      BY <3>1, FinderComes
  <2>6. CASE state # Word(1, FALSE, TRUE)
    <3>1. ~state.writersParked \/ state.count # 1
      BY <2>2, <2>6 DEF Words, Word
    <3>2. ~state'.writersParked \/ state'.count # 0
      BY <2>2, <2>4, <3>1 DEF Words
    <3>. QED
      BY <3>2, FinderComes
  <2>. QED
    BY <2>5, <2>6
<1>. QED
  BY <1>2, <1>3, <1>4, <1>5
     DEF LockShared, TryLockShared, LockExclusive, TryLockExclusive, Drop, UnlockExclusive,
         SendGuard, AcquireExclusive

LEMMA FinderNext ==
  ASSUME WakeInv, FlagHasFinder, [Next]_vars
  PROVE  FlagHasFinder'
<1>1. CASE UNCHANGED vars
  BY <1>1 DEF vars, FlagHasFinder, FlagIsSeen, Coming
<1>. QED
  BY <1>1, SharedFinder, ExclusiveFinder, UnlockFinder, WakeFinder, CallFinder
     DEF Next, Proceed, Terminating

-----------------------------------------------------------------------------
(* Readers that sleep hold nothing.                                         *)

SleepersHoldNothing == \A t \in Threads : pc[t] = "sharedParked" => ~HasShared(t)

\* A thread that falls asleep has found a writer, and a thread that comes by a
\* shared guard is awake.
LEMMA SleepersStep ==
  ASSUME WakeInv, [Next]_vars, NEW u \in Threads, pc'[u] = "sharedParked"
  PROVE  /\ pc[u] = "sharedParked" \/ readGuards = {}
         /\ \A i \in Slots : <<u, i>> \in readGuards' => <<u, i>> \in readGuards
<1>. USE DEF WakeInv, LockInv
<1>1. CASE UNCHANGED vars
  BY <1>1 DEF vars
<1>2. ASSUME NEW t \in Threads,
             \/ LockShared(t) \/ TryLockShared(t) \/ LockExclusive(t) \/ TryLockExclusive(t)
             \/ Downgrade(t) \/ Drop(t) \/ \E w \in Threads : SendGuard(t, w)
      PROVE  /\ pc[u] = "sharedParked"
             /\ \A i \in Slots : <<u, i>> \in readGuards' => <<u, i>> \in readGuards
  <2>1. pc[u] = "sharedParked"
    BY <1>2 DEF LockShared, TryLockShared, LockExclusive, TryLockExclusive, Downgrade, Drop,
           UnlockShared, UnlockExclusive, SendGuard, Goto, TypeOK
  <2>2. pc[t] = "idle" /\ u # t
    BY <1>2, <2>1 DEF LockShared, TryLockShared, LockExclusive, TryLockExclusive, Downgrade, Drop,
           UnlockShared, UnlockExclusive, SendGuard, Call
  <2>3. \A w \in Threads : SendGuard(t, w) => u # w
    BY <2>1 DEF SendGuard
  <2>. QED
    BY <1>2, <2>1, <2>2, <2>3
       DEF LockShared, TryLockShared, LockExclusive, TryLockExclusive, Downgrade, Drop,
           UnlockShared, UnlockExclusive, SendGuard, AcquireExclusive, guards
<1>3. ASSUME NEW t \in Threads, Proceed(t)
      PROVE  /\ pc[u] = "sharedParked" \/ readGuards = {}
             /\ \A i \in Slots : <<u, i>> \in readGuards' => <<u, i>> \in readGuards
  <2>1. CASE SharedFast(t) \/ TryLockSharedSlow(t) \/ LockSharedSlow(t)
    BY <2>1 DEF SharedFast, TryLockSharedSlow, LockSharedSlow, AcquireShared, guards, Goto, TypeOK
  <2>2. CASE ParkReader(t)
    <3>1. UNCHANGED readGuards
      BY <2>2 DEF ParkReader, guards
    <3>2. CASE u = t
      <4>1. WriteLocked(state)
        BY <2>2, <3>2 DEF ParkReader, Goto, TypeOK
      <4>. QED
        BY <3>1, <4>1 DEF WordAgreesWithGuards, MutualExclusion
    <3>3. CASE u # t
      BY <2>2, <3>1, <3>3 DEF ParkReader, Goto, TypeOK
    <3>. QED
      BY <3>2, <3>3
  <2>3. CASE \/ TryLockSharedLoad(t) \/ LockSharedLoad(t) \/ ReaderCountOverflowed(t)
             \/ MarkReadersParked(t) \/ LockExclusiveLoad(t) \/ LockExclusiveSlow(t)
             \/ MarkWritersParked(t) \/ ParkWriter(t)
    BY <2>3 DEF TryLockSharedLoad, LockSharedLoad, ReaderCountOverflowed, MarkReadersParked,
           LockExclusiveLoad, LockExclusiveSlow, MarkWritersParked, ParkWriter,
           AcquireExclusive, guards, Goto, TypeOK
  <2>4. CASE \/ UnlockSharedSlow(t) \/ UnlockExclusiveLoad(t) \/ UnlockExclusiveSlow(t)
             \/ WakeReaders(t) \/ WakeWriter(t)
    BY <2>4 DEF UnlockSharedSlow, UnlockExclusiveLoad, UnlockExclusiveSlow, WakeReaders,
           WakeWriter, guards, Goto, TypeOK
  <2>. QED
    BY <1>3, <2>1, <2>2, <2>3, <2>4 DEF Proceed
<1>. QED
  BY <1>1, <1>2, <1>3 DEF Next, Terminating

LEMMA QuietInvariant == Spec => [](WakeInv /\ FlagHasFinder /\ SleepersHoldNothing)
<1>1. Init => FlagHasFinder /\ SleepersHoldNothing
  BY DEF Init, FlagHasFinder, SleepersHoldNothing, Unlocked, Word
<1>2. WakeInv /\ FlagHasFinder /\ [Next]_vars => FlagHasFinder'
  BY FinderNext
<1>3. WakeInv /\ SleepersHoldNothing /\ [Next]_vars => SleepersHoldNothing'
  <2>1. SUFFICES ASSUME WakeInv, SleepersHoldNothing, [Next]_vars,
                        NEW u \in Threads, pc'[u] = "sharedParked", NEW i \in Slots
                 PROVE  <<u, i>> \notin readGuards'
    BY DEF SleepersHoldNothing, HasShared
  <2>. QED
    BY <2>1, SleepersStep DEF SleepersHoldNothing, HasShared
<1>. QED
  BY <1>1, <1>2, <1>3, WakeInvariant, PTL DEF Spec

\* Once all guards are gone and all calls are over no flag is left in the word,
\* which would make every try_lock_exclusive fail for good.
THEOREM QuietWordIsZeroHolds == Spec => []QuietWordIsZero
<1>1. ASSUME WakeInv, FlagHasFinder, \A t \in Threads : pc[t] = "idle",
             readGuards = {}, writers = {}
      PROVE  state = Unlocked
  <2>1. state \in Words /\ state.count = 0 /\ ~state.readersParked
    BY <1>1, OneWriterAssumption, FS_EmptySet
       DEF WakeInv, LockInv, TypeOK, WordAgreesWithGuards, WriteLocked
  <2>2. parkedReaders = {}
    BY <1>1 DEF WakeInv, QueuesHoldTheSleepers
  <2>3. ~state.writersParked
    BY <1>1, <2>1, <2>2 DEF FlagHasFinder, FlagIsSeen, Coming
  <2>. QED
    BY <2>1, <2>3 DEF Words, Unlocked, Word
<1>2. WakeInv /\ FlagHasFinder => QuietWordIsZero
  BY <1>1 DEF QuietWordIsZero
<1>. QED
  BY <1>2, QuietInvariant, PTL

\* A thread that has a shared guard never sleeps for another one, whatever
\* writers wait: reads of the map may nest.
THEOREM ReentrantReadNeverParksHolds == Spec => []ReentrantReadNeverParks
<1>1. WakeInv /\ SleepersHoldNothing => ReentrantReadNeverParks
  BY DEF WakeInv, QueuesHoldTheSleepers, SleepersHoldNothing, ReentrantReadNeverParks
<1>. QED
  BY <1>1, QuietInvariant, PTL
=============================================================================
