---------------------- MODULE ClashMapRefinement_proofs ----------------------
(***************************************************************************)
(* ClashMap implements AtomicMap, for any number of threads, slots, keys,  *)
(* values and shards: each call on a key takes effect at one moment, each  *)
(* call on the whole map visits every key once, and the handles of the     *)
(* threads are borrows of their keys.                                      *)
(***************************************************************************)
EXTENDS ClashMap_proofs

Modes == {"shared", "mut"}

-----------------------------------------------------------------------------
(* Borrows *)

LEMMA Triple ==
  ASSUME NEW S, NEW T, NEW U, NEW b \in S \X T \X U
  PROVE  b = <<b[1], b[2], b[3]>> /\ b[1] \in S /\ b[2] \in T /\ b[3] \in U
OBVIOUS

LEMMA SameTriples ==
  ASSUME NEW S, NEW T, NEW U, NEW B \in SUBSET (S \X T \X U), NEW C \in SUBSET (S \X T \X U),
         \A s \in S, t \in T, u \in U : <<s, t, u>> \in B <=> <<s, t, u>> \in C
  PROVE  B = C
<1>1. ASSUME NEW b \in S \X T \X U
      PROVE  b \in B <=> b \in C
  BY Triple
<1>. QED
  BY <1>1

LEMMA AllBorrows ==
  ASSUME NEW H
  PROVE  /\ BorrowsOf(H) \in SUBSET (Threads \X Keys \X Modes)
         /\ \A t \in Threads, k \in Keys, m \in Modes :
              <<t, k, m>> \in BorrowsOf(H) <=>
                \E i \in Slots : k \in H[t][i].keys /\ m = Mode(H[t][i])
BY DEF BorrowsOf, Modes

\* The borrows after one handle is put in the place of another.
LEMMA PutBorrows ==
  ASSUME TableInv, NEW t \in Threads, NEW i \in Slots, NEW h, PutHandle(t, i, h)
  PROVE  \A u \in Threads, k \in Keys, m \in Modes :
           <<u, k, m>> \in AbsBorrows' <=>
             IF u = t
             THEN \/ k \in h.keys /\ m = Mode(h)
                  \/ \E j \in Slots \ {i} : k \in held[t][j].keys /\ m = Mode(held[t][j])
             ELSE <<u, k, m>> \in AbsBorrows
<1>1. /\ held'[t][i] = h /\ \A j \in Slots \ {i} : held'[t][j] = held[t][j]
      /\ \A u \in Threads \ {t} : held'[u] = held[u]
  BY PutIsOwn DEF Own
<1>2. SUFFICES ASSUME NEW u \in Threads, NEW k \in Keys, NEW m \in Modes
               PROVE  <<u, k, m>> \in BorrowsOf(held') <=>
                        IF u = t
                        THEN \/ k \in h.keys /\ m = Mode(h)
                             \/ \E j \in Slots \ {i} :
                                  k \in held[t][j].keys /\ m = Mode(held[t][j])
                        ELSE <<u, k, m>> \in BorrowsOf(held)
  BY DEF AbsBorrows
<1>3. /\ <<u, k, m>> \in BorrowsOf(held') <=>
           \E j \in Slots : k \in held'[u][j].keys /\ m = Mode(held'[u][j])
      /\ <<u, k, m>> \in BorrowsOf(held) <=>
           \E j \in Slots : k \in held[u][j].keys /\ m = Mode(held[u][j])
  BY AllBorrows
<1>. QED
  BY <1>1, <1>3

LEMMA BorrowsAre ==
  \A t \in Threads, k \in Keys, m \in Modes :
    <<t, k, m>> \in AbsBorrows <=>
      \E i \in Slots : k \in held[t][i].keys /\ m = Mode(held[t][i])
BY AllBorrows DEF AbsBorrows

LEMMA BorrowTypes ==
  /\ AbsBorrows \in SUBSET (Threads \X Keys \X Modes)
  /\ AbsBorrows' \in SUBSET (Threads \X Keys \X Modes)
BY AllBorrows DEF AbsBorrows

\* A handle in a slot that had no keys borrows its own.
LEMMA Borrowing ==
  ASSUME TableInv, NEW t \in Threads, NEW i \in Slots, NEW h \in Handles,
         PutHandle(t, i, h), held[t][i].keys = {}
  PROVE  AbsBorrows' = AbsBorrows \cup ({t} \X h.keys \X {Mode(h)})
<1>. DEFINE B == AbsBorrows \cup ({t} \X h.keys \X {Mode(h)})
<1>1. h.keys \subseteq Keys /\ Mode(h) \in Modes
  BY DEF Handles, Mode, Modes
<1>2. B \in SUBSET (Threads \X Keys \X Modes)
  BY <1>1, BorrowTypes
<1>3. ASSUME NEW u \in Threads, NEW k \in Keys, NEW m \in Modes
      PROVE  <<u, k, m>> \in AbsBorrows' <=> <<u, k, m>> \in B
  <2>1. <<u, k, m>> \in B <=>
          <<u, k, m>> \in AbsBorrows \/ (u = t /\ k \in h.keys /\ m = Mode(h))
    OBVIOUS
  <2>. QED
    BY <2>1, PutBorrows, BorrowsAre
<1>. QED
  BY <1>2, <1>3, BorrowTypes, SameTriples

\* An exclusive handle gives keys up.
LEMMA Releasing ==
  ASSUME TableInv, NEW t \in Threads, NEW i \in Slots, NEW h \in Handles,
         PutHandle(t, i, h), held[t][i].kind \in ExclusiveKinds,
         h.keys \subseteq held[t][i].keys, h.keys = {} \/ Mode(h) = "mut"
  PROVE  AbsBorrows' = AbsBorrows \ ({t} \X (held[t][i].keys \ h.keys) \X {"mut"})
<1>. DEFINE B == AbsBorrows \ ({t} \X (held[t][i].keys \ h.keys) \X {"mut"})
<1>1. B \in SUBSET (Threads \X Keys \X Modes)
  BY BorrowTypes
<1>2. Mode(held[t][i]) = "mut"
  BY DEF Mode, ExclusiveKinds, EntryKinds, SharedKinds
<1>3. \A j \in Slots \ {i} : held[t][i].keys \cap held[t][j].keys = {}
  BY HandlesAreApart
<1>4. ASSUME NEW u \in Threads, NEW k \in Keys, NEW m \in Modes
      PROVE  <<u, k, m>> \in AbsBorrows' <=> <<u, k, m>> \in B
  <2>1. <<u, k, m>> \in B <=>
          /\ <<u, k, m>> \in AbsBorrows
          /\ ~(u = t /\ k \in held[t][i].keys \ h.keys /\ m = "mut")
    OBVIOUS
  <2>. QED
    BY <1>2, <1>3, <2>1, PutBorrows, BorrowsAre
<1>. QED
  BY <1>1, <1>4, BorrowTypes, SameTriples

\* A handle gives way to one with the same keys and mode.
LEMMA Keeping ==
  ASSUME TableInv, NEW t \in Threads, NEW i \in Slots, NEW h,
         PutHandle(t, i, h), h.keys = held[t][i].keys,
         h.keys = {} \/ Mode(h) = Mode(held[t][i])
  PROVE  AbsBorrows' = AbsBorrows
<1>1. ASSUME NEW u \in Threads, NEW k \in Keys, NEW m \in Modes
      PROVE  <<u, k, m>> \in AbsBorrows' <=> <<u, k, m>> \in AbsBorrows
  BY PutBorrows, BorrowsAre
<1>. QED
  BY <1>1, BorrowTypes, SameTriples

\* A handle is dropped: some of the borrows of its thread are gone.
LEMMA Dropping ==
  ASSUME TableInv, NEW t \in Threads, NEW i \in Slots, DropHandle(t, i)
  PROVE  \E B \in SUBSET {b \in AbsBorrows : b[1] = t} : AbsBorrows' = AbsBorrows \ B
<1>. DEFINE B == AbsBorrows \ AbsBorrows'
<1>1. ASSUME NEW u \in Threads, NEW k \in Keys, NEW m \in Modes
      PROVE  /\ <<u, k, m>> \in AbsBorrows' => <<u, k, m>> \in AbsBorrows
             /\ u # t /\ <<u, k, m>> \in AbsBorrows => <<u, k, m>> \in AbsBorrows'
  BY PutBorrows, BorrowsAre DEF DropHandle, NoHandle, Handle
<1>2. AbsBorrows' \subseteq AbsBorrows /\ \A b \in B : b[1] = t
  BY <1>1, BorrowTypes, Triple
<1>. QED
  BY <1>2

\* A shared handle is dropped; its thread may have another one on the key.
LEMMA DroppingShared ==
  ASSUME TableInv, NEW t \in Threads, NEW i \in Slots, NEW k \in Keys, DropHandle(t, i),
         held[t][i].keys = {k}, held[t][i].kind \in SharedKinds
  PROVE  AbsBorrows' = AbsBorrows \/ AbsBorrows' = AbsBorrows \ ({t} \X {k} \X {"shared"})
<1>. DEFINE B == AbsBorrows \ ({t} \X {k} \X {"shared"})
<1>1. B \in SUBSET (Threads \X Keys \X Modes)
  BY BorrowTypes
<1>2. Mode(held[t][i]) = "shared" /\ NoHandle.keys = {} /\ PutHandle(t, i, NoHandle)
  BY DEF Mode, NoHandle, Handle, DropHandle, SharedKinds, ExclusiveKinds, EntryKinds
<1>3. CASE \E j \in Slots \ {i} : k \in held[t][j].keys /\ Mode(held[t][j]) = "shared"
  <2>1. ASSUME NEW u \in Threads, NEW x \in Keys, NEW m \in Modes
        PROVE  <<u, x, m>> \in AbsBorrows' <=> <<u, x, m>> \in AbsBorrows
    BY <1>2, <1>3, PutBorrows, BorrowsAre
  <2>. QED
    BY <2>1, BorrowTypes, SameTriples
<1>4. CASE ~\E j \in Slots \ {i} : k \in held[t][j].keys /\ Mode(held[t][j]) = "shared"
  <2>1. ASSUME NEW u \in Threads, NEW x \in Keys, NEW m \in Modes
        PROVE  <<u, x, m>> \in AbsBorrows' <=> <<u, x, m>> \in B
    <3>1. <<u, x, m>> \in B <=>
            <<u, x, m>> \in AbsBorrows /\ ~(u = t /\ x = k /\ m = "shared")
      OBVIOUS
    <3>. QED
      BY <1>2, <1>4, <3>1, PutBorrows, BorrowsAre
  <2>. QED
    BY <1>1, <2>1, BorrowTypes, SameTriples
<1>. QED
  BY <1>3, <1>4

\* The mutable borrow of a key becomes a shared one.
LEMMA Downgrading ==
  ASSUME TableInv, NEW t \in Threads, NEW i \in Slots, NEW k \in Keys, NEW h,
         PutHandle(t, i, h), h.keys = {k}, h.kind \in SharedKinds,
         held[t][i].keys = {k}, held[t][i].kind \in ExclusiveKinds
  PROVE  AbsBorrows' = (AbsBorrows \ {<<t, k, "mut">>}) \cup {<<t, k, "shared">>}
<1>. DEFINE B == (AbsBorrows \ {<<t, k, "mut">>}) \cup {<<t, k, "shared">>}
<1>1. B \in SUBSET (Threads \X Keys \X Modes)
  BY BorrowTypes DEF Modes
<1>2. Mode(held[t][i]) = "mut" /\ Mode(h) = "shared"
  BY DEF Mode, ExclusiveKinds, EntryKinds, SharedKinds
<1>3. \A j \in Slots \ {i} : k \notin held[t][j].keys
  BY HandlesAreApart
<1>4. ASSUME NEW u \in Threads, NEW x \in Keys, NEW m \in Modes
      PROVE  <<u, x, m>> \in AbsBorrows' <=> <<u, x, m>> \in B
  <2>1. <<u, x, m>> \in B <=>
          \/ <<u, x, m>> \in AbsBorrows /\ ~(u = t /\ x = k /\ m = "mut")
          \/ u = t /\ x = k /\ m = "shared"
    OBVIOUS
  <2>. QED
    BY <1>2, <1>3, <2>1, PutBorrows, BorrowsAre
<1>. QED
  BY <1>1, <1>4, BorrowTypes, SameTriples

\* What a handle gives access to is borrowed by its thread.
LEMMA HandleBorrows ==
  ASSUME TableInv, NEW t \in Threads, NEW i \in Slots, NEW k \in held[t][i].keys
  PROVE  /\ k \in Keys
         /\ held[t][i].kind \in ExclusiveKinds => <<t, k, "mut">> \in AbsBorrows
         /\ held[t][i].kind \in SharedKinds => <<t, k, "shared">> \in AbsBorrows
<1>1. k \in Keys
  BY HandleFields DEF TableInv
<1>. QED
  BY <1>1, BorrowsAre DEF Mode, Modes, ExclusiveKinds, SharedKinds, EntryKinds

-----------------------------------------------------------------------------
(* What the lock of a shard says of the borrows of its keys *)

LEMMA LockedKeys ==
  ASSUME TableInv, NEW t \in Threads, NEW k \in Keys, NEW m \in Modes,
         <<t, k, m>> \in AbsBorrows
  PROVE  \E i \in Slots : held[t][i].shard = ShardOf[k] /\ m = Mode(held[t][i])
BY BorrowsAre DEF TableInv, HandlesFit, Fits

LEMMA NobodyBorrows ==
  ASSUME TableInv, NEW s, WriteLockable(s), NEW K \in SUBSET Keys,
         \A k \in K : ShardOf[k] = s
  PROVE  ~Abs!Borrowed(K)
<1>. SUFFICES ASSUME NEW t \in Threads, NEW k \in K, NEW m \in Modes,
                     <<t, k, m>> \in AbsBorrows
              PROVE  FALSE
  BY DEF Abs!Borrowed, Modes
<1>. QED
  BY LockedKeys DEF WriteLockable

LEMMA NobodyBorrowsMut ==
  ASSUME TableInv, NEW s, ReadLockable(s), NEW K \in SUBSET Keys,
         \A k \in K : ShardOf[k] = s
  PROVE  ~Abs!BorrowedMut(K)
<1>. SUFFICES ASSUME NEW t \in Threads, NEW k \in K, <<t, k, "mut">> \in AbsBorrows
              PROVE  FALSE
  BY DEF Abs!BorrowedMut
<1>1. "mut" \in Modes /\ k \in Keys
  BY DEF Modes
<1>2. PICK i \in Slots : held[t][i].shard = s /\ "mut" = Mode(held[t][i])
  BY <1>1, LockedKeys
<1>3. held[t][i].kind \in ExclusiveKinds
  BY <1>2 DEF Mode
<1>. QED
  BY <1>2, <1>3 DEF ReadLockable, SharedKinds, ExclusiveKinds, EntryKinds

-----------------------------------------------------------------------------
(* Calls and values *)

LEMMA AbsCallFields ==
  ASSUME NEW t \in Threads
  PROVE  /\ AbsCalls[t] = AbsCall(call[t])
         /\ AbsCalls[t].op = Outer(call[t].op)
         /\ AbsCalls[t].key = IF call[t].op = "alter_all_closure" THEN None ELSE call[t].key
         /\ AbsCalls[t].left = ToVisit(call[t])
         /\ AbsCalls[t].result = call[t].result
BY DEF AbsCalls, AbsCall

LEMMA AbsContinue ==
  ASSUME RestTypeOK, NEW t \in Threads, NEW c, Continue(t, c)
  PROVE  Abs!Goto(t, AbsCall(c))
<1>1. \A u \in Threads : call'[u] = IF u = t THEN c ELSE call[u]
  BY DEF RestTypeOK, Continue
<1>2. AbsCalls' = [u \in Threads |-> IF u = t THEN AbsCall(c) ELSE AbsCalls[u]]
  BY <1>1 DEF AbsCalls
<1>. QED
  BY <1>2 DEF Abs!Goto, AbsCalls

LEMMA AbsIdle == AbsCall(Idle) = Abs!Idle
BY DEF AbsCall, Idle, Call, Outer, ToVisit, Traversals, ReadTraversals, Serializing,
       Abs!Idle, Abs!Call, Nothing, Abs!Nothing

LEMMA AbsReturn ==
  ASSUME NEW r
  PROVE  AbsCall([Idle EXCEPT !.op = "return", !.result = r]) = Abs!Call("return", None, {}, r)
BY DEF AbsCall, Idle, Call, Outer, ToVisit, Traversals, ReadTraversals, Serializing,
       Abs!Call, Nothing, Abs!Nothing

LEMMA AbsFinish ==
  ASSUME RestTypeOK, NEW t \in Threads
  PROVE  /\ Finish(t) => Abs!Goto(t, Abs!Idle)
         /\ \A r : FinishWith(t, r) => Abs!Return(t, r)
BY AbsContinue, AbsIdle, AbsReturn DEF Finish, FinishWith, Abs!Return

\* The stages of a call are one call to the abstract map.
LEMMA AbsStays ==
  ASSUME RestTypeOK, NEW t \in Threads, NEW c, Continue(t, c),
         AbsCall(c) = AbsCall(call[t])
  PROVE  UNCHANGED AbsCalls
<1>1. \A u \in Threads : call'[u] = IF u = t THEN c ELSE call[u]
  BY DEF RestTypeOK, Continue
<1>. QED
  BY <1>1 DEF AbsCalls

LEMMA AbsBecomes ==
  ASSUME RestTypeOK, NEW t \in Threads, NEW op \in Closures \ {"alter_all_closure"},
         Become(t, op), Outer(op) = Outer(call[t].op),
         call[t].op \notin Traversals \cup Serializing \cup {"alter_all_closure"}
  PROVE  UNCHANGED AbsCalls
<1>. DEFINE c == [call[t] EXCEPT !.op = op]
<1>1. /\ c.op = op /\ c.key = call[t].key /\ c.result = call[t].result
      /\ c.count = call[t].count /\ c.gathered = call[t].gathered
  BY CallFields DEF CallRecords
<1>2. op \notin Traversals \cup Serializing
  BY DEF Closures, Traversals, ReadTraversals, Serializing
<1>3. Continue(t, c)
  BY DEF Become
<1>. HIDE DEF c
<1>4. AbsCall(c) = AbsCall(call[t])
  BY <1>1, <1>2 DEF AbsCall, ToVisit
<1>. QED
  BY <1>3, <1>4, AbsStays

LEMMA AbsMapFields ==
  /\ \A k \in Keys : AbsMap[k] = Stored(k)
  /\ \A k \in Keys : AbsMap'[k] = Stored(k)'
  /\ AbsMap = [k \in Keys |-> AbsMap[k]]
BY DEF AbsMap

LEMMA AbsStore ==
  ASSUME TableInv, NEW k \in Keys, NEW v \in Values \cup {None}, Store(k, v)
  PROVE  AbsMap' = [AbsMap EXCEPT ![k] = v]
<1>1. \A s \in Shards, x \in Keys :
        shards'[s][x] = IF s = ShardOf[k] /\ x = k THEN v ELSE shards[s][x]
  BY HomeOfKey DEF Store, TableInv, TableTypeOK, ShardTables
<1>2. \A x \in Keys : Stored(x)' = IF x = k THEN v ELSE Stored(x)
  BY <1>1, HomeOfKey DEF Stored
<1>3. AbsMap' = [x \in Keys |-> IF x = k THEN v ELSE Stored(x)]
  BY <1>2 DEF AbsMap
<1>. QED
  BY <1>3 DEF AbsMap

LEMMA AbsUnchanged ==
  /\ UNCHANGED shards => UNCHANGED AbsMap
  /\ UNCHANGED held => UNCHANGED AbsBorrows
  /\ UNCHANGED call => UNCHANGED AbsCalls
BY DEF AbsMap, Stored, AbsBorrows, BorrowsOf, AbsCalls

-----------------------------------------------------------------------------
(* Steps of the abstract map *)

AbsStep == Abs!Next \/ UNCHANGED <<AbsMap, AbsBorrows, AbsCalls>>

LEMMA AbsActs ==
  ASSUME NEW t \in Threads,
         \/ Abs!Invoke(t) \/ Abs!GetReturns(t) \/ Abs!TryCall(t) \/ Abs!Hold(t) \/ Abs!Reads(t)
         \/ Abs!Inserts(t) \/ Abs!Removes(t) \/ Abs!RemovesNothing(t) \/ Abs!Alters(t)
         \/ Abs!Unwinds(t) \/ Abs!Advances(t) \/ Abs!Returns(t) \/ Abs!Uses(t)
         \/ \E K \in SUBSET AbsCalls[t].left : UNCHANGED AbsBorrows /\ Abs!Visits(t, K)
  PROVE  AbsStep
BY DEF AbsStep, Abs!Next

LEMMA Begins ==
  ASSUME IInv, NEW t \in Threads,
         BeginKeyOp(t) \/ BeginOperator(t) \/ BeginTraversal(t) \/ BeginNext(t)
  PROVE  Abs!Invoke(t)
<1>1. call[t] = Idle /\ UNCHANGED <<shards, held>>
  BY DEF BeginKeyOp, BeginOperator, BeginTraversal, BeginNext, Begin, BeginAs
<1>2. AbsCalls[t] = Abs!Idle /\ UNCHANGED <<AbsMap, AbsBorrows>>
  BY <1>1, AbsCallFields, AbsIdle, AbsUnchanged
<1>3. ASSUME NEW op \in KeyOps \cup Traversals \cup {"next"}, NEW k \in Keys \cup {None}, NEW i,
             Continue(t, Call(op, k, i))
      PROVE  Abs!Goto(t, Abs!Call(op, k, IF op \in Traversals THEN Keys ELSE {}, None))
  <2>1. {x \in Keys : ShardOf[x] >= 0} = Keys
    BY ShardAssumption
  <2>2. AbsCall(Call(op, k, i))
          = Abs!Call(op, k, IF op \in Traversals THEN Keys ELSE {}, None)
    BY <2>1 DEF AbsCall, Call, Outer, ToVisit, KeyOps, Traversals, ReadTraversals,
                Serializing, Abs!Call, Nothing, Abs!Nothing
  <2>. QED
    BY <1>3, <2>2, AbsContinue DEF IInv
<1>4. ASSUME NEW op \in KeyOps, NEW k \in Keys, BeginAs(t, op, k)
      PROVE  Abs!Invoke(t)
  <2>1. op \notin Traversals /\ op \in Abs!OneKey
    BY DEF KeyOps, Traversals, ReadTraversals, Abs!OneKey
  <2>. QED
    BY <1>2, <1>3, <1>4, <2>1 DEF BeginAs, Abs!Invoke
<1>5. CASE BeginKeyOp(t)
  BY <1>4, <1>5 DEF BeginKeyOp, Begin
<1>6. CASE BeginOperator(t)
  <2>1. PICK name \in DOMAIN OperatorCall, k \in Keys : BeginAs(t, OperatorCall[name], k)
    BY <1>6 DEF BeginOperator
  <2>2. OperatorCall[name] \in KeyOps
    BY DEF OperatorCall, KeyOps
  <2>. QED
    BY <1>4, <2>1, <2>2
<1>7. CASE BeginTraversal(t)
  <2>1. PICK op \in Traversals : BeginAs(t, op, None)
    BY <1>7 DEF BeginTraversal, Begin
  <2>2. op \in Abs!WholeMap
    BY DEF Traversals, ReadTraversals, Abs!WholeMap
  <2>. QED
    BY <1>2, <1>3, <2>1, <2>2 DEF BeginAs, Abs!Invoke
<1>8. CASE BeginNext(t)
  <2>1. PICK i \in Slots : Continue(t, Call("next", None, i))
    BY <1>8 DEF BeginNext
  <2>2. Abs!Goto(t, Abs!Call("next", None, {}, None))
    BY <1>3, <2>1 DEF Traversals, ReadTraversals
  <2>. QED
    BY <1>2, <2>2 DEF Abs!Invoke
<1>. QED
  BY <1>5, <1>6, <1>7, <1>8

-----------------------------------------------------------------------------
(* Lookups *)

LEMMA LockBorrows ==
  ASSUME TableInv, NEW t \in Threads, NEW i \in Slots, held[t][i].keys = {},
         NEW k \in Keys, NEW kind \in SharedKinds \cup ExclusiveKinds,
         kind # "Vacant" <=> Stored(k) # None,
         PutHandle(t, i, Handle(kind, ShardOf[k], {k})),
         (kind \in SharedKinds /\ ReadLockable(ShardOf[k])) \/ WriteLockable(ShardOf[k])
  PROVE  Abs!Borrow(t, {k}, IF kind \in SharedKinds THEN "shared" ELSE "mut")
<1>. DEFINE h == Handle(kind, ShardOf[k], {k})
<1>1. h \in Handles
  BY HandleOfKey
<1>2. h.keys = {k} /\ Mode(h) = IF kind \in SharedKinds THEN "shared" ELSE "mut"
  BY DEF Handle, Mode, SharedKinds, ExclusiveKinds, EntryKinds
<1>3. PutHandle(t, i, h)
  OBVIOUS
<1>. HIDE DEF h
<1>4. AbsBorrows' = AbsBorrows \cup ({t} \X {k} \X {IF kind \in SharedKinds THEN "shared" ELSE "mut"})
  BY <1>1, <1>2, <1>3, Borrowing
<1>5. {k} \in SUBSET Keys /\ \A x \in {k} : ShardOf[x] = ShardOf[k]
  OBVIOUS
<1>6. CASE kind \in SharedKinds
  <2>1. ReadLockable(ShardOf[k])
    BY <1>6 DEF ReadLockable, WriteLockable
  <2>. QED
    BY <1>4, <1>5, <1>6, <2>1, NobodyBorrowsMut DEF Abs!Borrow
<1>7. CASE kind \notin SharedKinds
  BY <1>4, <1>5, <1>7, NobodyBorrows DEF Abs!Borrow
<1>. QED
  BY <1>6, <1>7

LEMMA LookupBorrows ==
  ASSUME TableInv, NEW t \in Threads, NEW i \in Slots, held[t][i].keys = {}, NEW k \in Keys
  PROVE  /\ Find(t, k, i) => Abs!Lookup(t, k, "shared")
         /\ FindMut(t, k, i) \/ FindEntry(t, k, i) => Abs!Lookup(t, k, "mut")
         /\ Entry(t, k, i) => Abs!Borrow(t, {k}, "mut")
<1>1. AbsMap[k] = Stored(k) /\ (UNCHANGED held => UNCHANGED AbsBorrows)
  BY AbsMapFields, AbsUnchanged
<1>2. /\ "Ref" \in SharedKinds
      /\ \A kind \in {"RefMut", "Occupied", "Vacant"} :
           kind \in ExclusiveKinds /\ kind \notin SharedKinds
  BY DEF SharedKinds, ExclusiveKinds, EntryKinds
<1>3. ASSUME Find(t, k, i) PROVE Abs!Lookup(t, k, "shared")
  <2>1. CASE Stored(k) # None
    BY <1>1, <1>2, <1>3, <2>1, LockBorrows DEF Find, TryMap, Abs!Lookup
  <2>2. CASE Stored(k) = None
    BY <1>1, <1>3, <2>2 DEF Find, TryMap, Abs!Lookup
  <2>. QED
    BY <2>1, <2>2
<1>4. ASSUME FindMut(t, k, i) PROVE Abs!Lookup(t, k, "mut")
  <2>1. CASE Stored(k) # None
    BY <1>1, <1>2, <1>4, <2>1, LockBorrows DEF FindMut, TryMap, Abs!Lookup
  <2>2. CASE Stored(k) = None
    BY <1>1, <1>4, <2>2 DEF FindMut, TryMap, Abs!Lookup
  <2>. QED
    BY <2>1, <2>2
<1>5. ASSUME FindEntry(t, k, i) PROVE Abs!Lookup(t, k, "mut")
  <2>1. CASE Stored(k) # None
    BY <1>1, <1>2, <1>5, <2>1, LockBorrows DEF FindEntry, Abs!Lookup
  <2>2. CASE Stored(k) = None
    BY <1>1, <1>5, <2>2 DEF FindEntry, Abs!Lookup
  <2>. QED
    BY <2>1, <2>2
<1>6. ASSUME Entry(t, k, i) PROVE Abs!Borrow(t, {k}, "mut")
  <2>1. PICK kind \in {"Occupied", "Vacant"} :
          /\ kind # "Vacant" <=> Stored(k) # None
          /\ PutHandle(t, i, Handle(kind, ShardOf[k], {k})) /\ WriteLockable(ShardOf[k])
    BY <1>6 DEF Entry
  <2>2. kind \in SharedKinds \cup ExclusiveKinds /\ kind \notin SharedKinds
    BY <1>2
  <2>. QED
    BY <2>1, <2>2, LockBorrows
<1>. QED
  BY <1>3, <1>4, <1>5, <1>6

\* The key and the slot of a call that has no lock yet.
LEMMA Looking ==
  ASSUME IInv, NEW t \in Threads, call[t].op \in KeyOps
  PROVE  /\ call[t].key \in Keys /\ call[t].slot \in Slots
         /\ held[t][call[t].slot].keys = {}
         /\ AbsCalls[t].op = call[t].op /\ AbsCalls[t].key = call[t].key
         /\ AbsMap[call[t].key] = Stored(call[t].key)
<1>1. call[t].op # "alter_all_closure" /\ Outer(call[t].op) = call[t].op
  BY DEF KeyOps, Outer
<1>. QED
  BY <1>1, FirstStage, AbsCallFields, AbsMapFields DEF NoHandle, Handle

LEMMA GetsReturn ==
  ASSUME IInv, NEW t \in Threads, Get(t) \/ GetMut(t) \/ GetEntry(t)
  PROVE  Abs!GetReturns(t)
<1>1. call[t].op \in {"get", "get_mut", "entry"} /\ call[t].op \in KeyOps
  BY DEF Get, GetMut, GetEntry, In, KeyOps
<1>2. /\ call[t].op = "get" => Find(t, call[t].key, call[t].slot)
      /\ call[t].op = "get_mut" => FindMut(t, call[t].key, call[t].slot)
      /\ call[t].op = "entry" => Entry(t, call[t].key, call[t].slot)
      /\ Finish(t) /\ UNCHANGED shards
  BY DEF Get, GetMut, GetEntry, In, Key, Slot
<1>3. Abs!Goto(t, Abs!Idle) /\ UNCHANGED AbsMap
  BY <1>2, AbsFinish, AbsUnchanged DEF IInv
<1>. QED
  BY <1>1, <1>2, <1>3, Looking, LookupBorrows DEF IInv, Abs!GetReturns, Abs!In

LEMMA ContainsReads ==
  ASSUME IInv, NEW t \in Threads, ContainsKey(t)
  PROVE  Abs!Reads(t)
<1>. DEFINE k == call[t].key
<1>1. /\ call[t].op = "contains_key" /\ call[t].op \in KeyOps
      /\ ReadLockable(ShardOf[k]) /\ FinishWith(t, Stored(k)) /\ UNCHANGED <<shards, held>>
  BY DEF ContainsKey, In, KeyOps, Key
<1>2. Abs!Return(t, Stored(k)) /\ UNCHANGED <<AbsMap, AbsBorrows>>
  BY <1>1, AbsFinish, AbsUnchanged DEF IInv
<1>3. ~Abs!BorrowedMut({k})
  BY <1>1, Looking, NobodyBorrowsMut DEF IInv
<1>. QED
  BY <1>1, <1>2, <1>3, Looking DEF Abs!Reads, Abs!In

LEMMA TriesCall ==
  ASSUME IInv, NEW t \in Threads, TryCall(t)
  PROVE  AbsStep
<1>1. /\ FreeSlot(t) \in Slots /\ held[t][FreeSlot(t)].keys = {}
  BY FreeSlotIsFree DEF TryCall, NoHandle, Handle
<1>2. PICK k \in Keys : TryGet(t, k) \/ TryGetMut(t, k) \/ TryGetEntry(t, k)
  BY DEF TryCall
<1>3. AbsCalls[t] = Abs!Idle /\ UNCHANGED <<AbsMap, AbsCalls>>
  BY AbsCallFields, AbsIdle, AbsUnchanged DEF TryCall
<1>4. CASE UNCHANGED held
  BY <1>3, <1>4, AbsUnchanged DEF AbsStep
<1>5. CASE Find(t, k, FreeSlot(t)) \/ FindMut(t, k, FreeSlot(t)) \/ Entry(t, k, FreeSlot(t))
  <2>1. Abs!TryCall(t)
    BY <1>1, <1>3, <1>5, LookupBorrows DEF IInv, Abs!TryCall
  <2>. QED
    BY <2>1, AbsActs
<1>. QED
  BY <1>2, <1>4, <1>5
     DEF TryGet, TryGetMut, TryGetEntry, TryFind, TryFindMut, TryEntry, LockedToReaders,
         LockedToWriters

\* The lookups of the calls that go on under their lock.
LEMMA Holding ==
  ASSUME IInv, NEW t \in Threads,
         View(t) \/ InsertLookup(t) \/ RemoveLookup(t) \/ AlterLookup(t)
  PROVE  AbsStep
<1>. DEFINE k == call[t].key
            i == call[t].slot
<1>1. call[t].op \in KeyOps
  BY DEF View, InsertLookup, RemoveLookup, AlterLookup, In, KeyOps
<1>2. /\ k \in Keys /\ i \in Slots /\ held[t][i].keys = {}
      /\ AbsCalls[t].op = call[t].op /\ AbsCalls[t].key = k /\ AbsMap[k] = Stored(k)
  BY <1>1, Looking
<1>3. UNCHANGED AbsMap /\ (UNCHANGED held => UNCHANGED AbsBorrows)
  BY AbsUnchanged DEF View, InsertLookup, RemoveLookup, AlterLookup
<1>4. ASSUME NEW op \in Closures \ {"alter_all_closure"}, Become(t, op),
             Outer(op) = call[t].op
      PROVE  UNCHANGED AbsCalls
  <2>1. /\ Outer(call[t].op) = call[t].op
        /\ call[t].op \notin Traversals \cup Serializing \cup {"alter_all_closure"}
    BY <1>1 DEF KeyOps, Outer, Traversals, ReadTraversals, Serializing
  <2>. QED
    BY <1>4, <2>1, AbsBecomes DEF IInv
<1>5. CASE View(t)
  <2>1. call[t].op = "view" /\ Find(t, k, i) /\ Abs!Lookup(t, k, "shared")
    BY <1>2, <1>5, LookupBorrows DEF View, In, Key, Slot, IInv
  <2>2. CASE Stored(k) # None
    <3>1. Become(t, "view_closure")
      BY <1>5, <2>2 DEF View, Key
    <3>2. UNCHANGED AbsCalls
      BY <1>4, <2>1, <3>1 DEF Closures, Outer
    <3>3. Abs!Hold(t)
      BY <1>2, <1>3, <2>1, <2>2, <3>2 DEF Abs!Hold, Abs!Lookup, Abs!In
    <3>. QED
      BY <3>3, AbsActs
  <2>3. CASE Stored(k) = None
    <3>1. FinishWith(t, None) /\ ReadLockable(ShardOf[k]) /\ UNCHANGED held
      BY <1>5, <2>1, <2>3 DEF View, Key, Find, TryMap
    <3>2. Abs!Return(t, None) /\ ~Abs!BorrowedMut({k})
      BY <1>2, <3>1, AbsFinish, NobodyBorrowsMut DEF IInv
    <3>3. Abs!Reads(t)
      BY <1>2, <1>3, <2>1, <2>3, <3>1, <3>2 DEF Abs!Reads, Abs!In
    <3>. QED
      BY <3>3, AbsActs
  <2>. QED
    BY <2>2, <2>3
<1>6. CASE InsertLookup(t)
  <2>1. call[t].op = "insert" /\ Abs!Borrow(t, {k}, "mut") /\ Become(t, "inserting")
    BY <1>2, <1>6, LookupBorrows DEF InsertLookup, In, Key, Slot, IInv
  <2>2. UNCHANGED AbsCalls
    BY <1>4, <2>1 DEF Closures, Outer
  <2>3. Abs!Hold(t)
    BY <1>2, <1>3, <2>1, <2>2 DEF Abs!Hold
  <2>. QED
    BY <2>3, AbsActs
<1>7. CASE RemoveLookup(t)
  <2>1. /\ call[t].op \in {"remove", "remove_if", "remove_if_mut"}
        /\ FindEntry(t, k, i) /\ Abs!Lookup(t, k, "mut")
    BY <1>2, <1>7, LookupBorrows DEF RemoveLookup, Key, Slot, IInv
  <2>2. CASE Stored(k) # None
    <3>1. PICK op \in {"removing", "remove_if_closure", "remove_if_mut_closure"} :
            Become(t, op) /\ Outer(op) = call[t].op
      BY <1>7, <2>1, <2>2 DEF RemoveLookup, In, Key, Outer
    <3>2. UNCHANGED AbsCalls
      BY <1>4, <3>1 DEF Closures
    <3>3. Abs!Hold(t)
      BY <1>2, <1>3, <2>1, <2>2, <3>2 DEF Abs!Hold, Abs!Lookup
    <3>. QED
      BY <3>3, AbsActs
  <2>3. CASE Stored(k) = None
    <3>1. FinishWith(t, None) /\ UNCHANGED held
      BY <1>7, <2>1, <2>3 DEF RemoveLookup, Key, FindEntry
    <3>2. Abs!RemovesNothing(t)
      BY <1>2, <1>3, <2>1, <2>3, <3>1, AbsFinish DEF Abs!RemovesNothing, IInv
    <3>. QED
      BY <3>2, AbsActs
  <2>. QED
    BY <2>2, <2>3
<1>8. CASE AlterLookup(t)
  <2>1. call[t].op = "alter" /\ FindMut(t, k, i) /\ Abs!Lookup(t, k, "mut")
    BY <1>2, <1>8, LookupBorrows DEF AlterLookup, In, Key, Slot, IInv
  <2>2. CASE Stored(k) # None
    <3>1. Become(t, "altering")
      BY <1>8, <2>2 DEF AlterLookup, Key
    <3>2. UNCHANGED AbsCalls
      BY <1>4, <2>1, <3>1 DEF Closures, Outer
    <3>3. Abs!Hold(t)
      BY <1>2, <1>3, <2>1, <2>2, <3>2 DEF Abs!Hold, Abs!Lookup
    <3>. QED
      BY <3>3, AbsActs
  <2>3. CASE Stored(k) = None
    <3>1. Finish(t) /\ UNCHANGED held
      BY <1>8, <2>1, <2>3 DEF AlterLookup, Key, FindMut, TryMap
    <3>2. Abs!Alters(t)
      BY <1>2, <1>3, <2>1, <2>3, <3>1, AbsFinish DEF Abs!Alters, Abs!In, IInv
    <3>. QED
      BY <3>2, AbsActs
  <2>. QED
    BY <2>2, <2>3
<1>. QED
  BY <1>5, <1>6, <1>7, <1>8

-----------------------------------------------------------------------------
(* Calls take effect *)

LEMMA Giving ==
  ASSUME TableInv, NEW t \in Threads, NEW i \in Slots, NEW k \in Keys,
         held[t][i].keys = {k}, held[t][i].kind \in ExclusiveKinds, DropHandle(t, i)
  PROVE  <<t, k, "mut">> \in AbsBorrows /\ Abs!Release(t, {k}, "mut")
<1>1. NoHandle \in Handles /\ NoHandle.keys = {} /\ PutHandle(t, i, NoHandle)
  BY ShardAssumption DEF NoHandle, Handle, Handles, DropHandle
<1>2. AbsBorrows' = AbsBorrows \ ({t} \X ({k} \ {}) \X {"mut"})
  BY <1>1, Releasing
<1>3. {k} \ {} = {k}
  OBVIOUS
<1>. QED
  BY <1>2, <1>3, HandleBorrows DEF Abs!Release

\* The key, the handle and the abstract call of a call that has its handle.
LEMMA Acting ==
  ASSUME IInv, NEW t \in Threads,
         call[t].op \in {"inserting", "removing", "remove_if_closure",
                         "remove_if_mut_closure", "view_closure"}
  PROVE  /\ call[t].key \in Keys /\ call[t].slot \in Slots
         /\ held[t][call[t].slot].keys = {call[t].key}
         /\ AbsCalls[t].op = Outer(call[t].op) /\ AbsCalls[t].key = call[t].key
         /\ AbsMap[call[t].key] = Stored(call[t].key)
         /\ Stored(call[t].key) \in Values \cup {None}
         /\ call[t].op # "view_closure" => held[t][call[t].slot].kind \in ExclusiveKinds
         /\ call[t].op = "view_closure" => held[t][call[t].slot].kind = "Ref"
         /\ call[t].op # "inserting" => Stored(call[t].key) # None
         /\ held[t][call[t].slot].kind = "Occupied" <=> Stored(call[t].key) # None /\
                                                       call[t].op # "view_closure"
<1>1. CallFits(call[t], held[t])
  BY DEF IInv, CallsFit
<1>2. /\ call[t].key \in Keys /\ call[t].slot \in Slots
      /\ held[t][call[t].slot].keys = {call[t].key}
      /\ call[t].op = "inserting" => held[t][call[t].slot].kind \in EntryKinds
      /\ call[t].op = "view_closure" => held[t][call[t].slot].kind = "Ref"
      /\ call[t].op \notin {"inserting", "view_closure"}
           => held[t][call[t].slot].kind = "Occupied"
  BY <1>1 DEF CallFits, HasOne
<1>3. held[t][call[t].slot].kind # "Vacant" <=> Stored(call[t].key) # None
  BY <1>2 DEF IInv, TableInv, HandlesFit, Fits
<1>4. Stored(call[t].key) \in Values \cup {None}
  BY SecondStage
<1>. QED
  BY <1>2, <1>3, <1>4, AbsCallFields, AbsMapFields DEF EntryKinds, ExclusiveKinds

LEMMA ViewReads ==
  ASSUME IInv, NEW t \in Threads, ViewClosure(t)
  PROVE  Abs!Reads(t)
<1>. DEFINE k == call[t].key
            i == call[t].slot
<1>1. /\ call[t].op = "view_closure" /\ DropHandle(t, i) /\ FinishWith(t, Stored(k))
      /\ UNCHANGED shards
  BY DEF ViewClosure, In, Slot, Key
<1>2. /\ k \in Keys /\ i \in Slots /\ held[t][i].keys = {k} /\ held[t][i].kind = "Ref"
      /\ AbsCalls[t].op = "view" /\ AbsCalls[t].key = k /\ AbsMap[k] = Stored(k)
  BY <1>1, Acting DEF Outer
<1>3. UNCHANGED AbsBorrows \/ Abs!Release(t, {k}, "shared")
  BY <1>1, <1>2, DroppingShared DEF IInv, Abs!Release, SharedKinds
<1>4. ~Abs!BorrowedMut({k})
  <2>1. SUFFICES ASSUME NEW u \in Threads, <<u, k, "mut">> \in AbsBorrows
                 PROVE  FALSE
    BY DEF Abs!BorrowedMut
  <2>2. PICK j \in Slots : k \in held[u][j].keys /\ held[u][j].kind \in ExclusiveKinds
    BY <1>2, <2>1, BorrowsAre DEF Mode, Modes
  <2>3. u # t \/ j # i
    BY <1>2, <2>2 DEF ExclusiveKinds, EntryKinds
  <2>. QED
    BY <1>2, <2>2, <2>3, HandlesAreApart DEF IInv
<1>5. Abs!Return(t, Stored(k)) /\ UNCHANGED AbsMap
  BY <1>1, AbsFinish, AbsUnchanged DEF IInv
<1>. QED
  BY <1>2, <1>3, <1>4, <1>5 DEF Abs!Reads, Abs!In

LEMMA PanicUnwinds ==
  ASSUME IInv, NEW t \in Threads, ClosurePanics(t)
  PROVE  Abs!Unwinds(t)
<1>. DEFINE k == call[t].key
            i == call[t].slot
<1>1. /\ call[t].op \in {"view_closure", "remove_if_closure"}
      /\ DropHandle(t, i) /\ Finish(t) /\ UNCHANGED shards
  BY DEF ClosurePanics, Slot
<1>2. /\ k \in Keys /\ i \in Slots /\ held[t][i].keys = {k}
      /\ AbsCalls[t].op = Outer(call[t].op) /\ AbsCalls[t].key = k
  BY <1>1, Acting
<1>3. Abs!Goto(t, Abs!Idle) /\ UNCHANGED AbsMap
  BY <1>1, AbsFinish, AbsUnchanged DEF IInv
<1>4. CASE call[t].op = "view_closure"
  <2>1. held[t][i].kind \in SharedKinds /\ AbsCalls[t].op = "view"
    BY <1>2, <1>4, Acting DEF SharedKinds, Outer
  <2>2. UNCHANGED AbsBorrows \/ Abs!Release(t, {k}, "shared")
    BY <1>1, <1>2, <2>1, DroppingShared DEF IInv, Abs!Release
  <2>. QED
    BY <1>2, <1>3, <2>1, <2>2 DEF Abs!Unwinds, Abs!In
<1>5. CASE call[t].op # "view_closure"
  <2>1. held[t][i].kind \in ExclusiveKinds /\ AbsCalls[t].op = "remove_if"
    BY <1>1, <1>2, <1>5, Acting DEF Outer
  <2>2. <<t, k, "mut">> \in AbsBorrows /\ Abs!Release(t, {k}, "mut")
    BY <1>1, <1>2, <2>1, Giving DEF IInv
  <2>3. AbsMap' = [AbsMap EXCEPT ![k] = AbsMap[k]]
    BY <1>2, <1>3 DEF AbsMap
  <2>4. Abs!Change(t, AbsMap[k])
    BY <1>2, <2>2, <2>3 DEF Abs!Change, Abs!Holds
  <2>. QED
    BY <1>2, <1>3, <2>1, <2>4 DEF Abs!Unwinds, Abs!In
<1>. QED
  BY <1>4, <1>5

\* The element of the call is written or taken out.
LEMMA Changing ==
  ASSUME IInv, NEW t \in Threads,
         call[t].op \in {"inserting", "removing", "remove_if_closure", "remove_if_mut_closure"},
         DropHandle(t, call[t].slot),
         NEW v \in Values \cup {None}, Store(call[t].key, v)
  PROVE  Abs!Change(t, v)
<1>. DEFINE k == call[t].key
            i == call[t].slot
<1>1. /\ k \in Keys /\ i \in Slots /\ held[t][i].keys = {k}
      /\ held[t][i].kind \in ExclusiveKinds /\ AbsCalls[t].key = k
  BY Acting
<1>2. <<t, k, "mut">> \in AbsBorrows /\ Abs!Release(t, {k}, "mut")
  BY <1>1, Giving DEF IInv
<1>3. AbsMap' = [AbsMap EXCEPT ![k] = v]
  BY <1>1, AbsStore DEF IInv
<1>. QED
  BY <1>1, <1>2, <1>3 DEF Abs!Change, Abs!Holds

LEMMA InsertInserts ==
  ASSUME IInv, NEW t \in Threads, Insert(t)
  PROVE  Abs!Inserts(t)
<1>. DEFINE k == call[t].key
            i == call[t].slot
<1>1. /\ call[t].op = "inserting" /\ DropHandle(t, i)
      /\ FinishWith(t, IF held[t][i].kind = "Occupied" THEN Stored(k) ELSE None)
      /\ \E v \in Values : Store(k, v)
  BY DEF Insert, In, Slot, Key
<1>2. /\ AbsCalls[t].op = "insert" /\ AbsCalls[t].key = k /\ AbsMap[k] = Stored(k)
      /\ held[t][i].kind = "Occupied" <=> Stored(k) # None
  BY <1>1, Acting DEF Outer
<1>3. Abs!Return(t, AbsMap[k])
  BY <1>1, <1>2, AbsFinish DEF IInv
<1>4. \E v \in Values : Abs!Change(t, v)
  BY <1>1, Changing
<1>. QED
  BY <1>2, <1>3, <1>4 DEF Abs!Inserts, Abs!In

LEMMA RemoveRemoves ==
  ASSUME IInv, NEW t \in Threads, Remove(t) \/ RemoveIf(t) \/ RemoveIfMut(t)
  PROVE  Abs!Removes(t) \/ Abs!Unwinds(t)
<1>. DEFINE k == call[t].key
            i == call[t].slot
<1>1. call[t].op \in {"removing", "remove_if_closure", "remove_if_mut_closure"}
  BY DEF Remove, RemoveIf, RemoveIfMut, In
<1>2. /\ k \in Keys /\ i \in Slots /\ held[t][i].keys = {k}
      /\ held[t][i].kind \in ExclusiveKinds
      /\ AbsCalls[t].op = Outer(call[t].op) /\ AbsCalls[t].key = k
      /\ AbsMap[k] = Stored(k) /\ AbsMap[k] # None
  BY <1>1, Acting
<1>3. ASSUME OccupiedRemove(t, i) PROVE Abs!Change(t, None)
  BY <1>1, <1>2, <1>3, Changing DEF OccupiedRemove
<1>4. \A r : FinishWith(t, r) => Abs!Return(t, r)
  BY AbsFinish DEF IInv
<1>5. CASE Remove(t)
  BY <1>2, <1>3, <1>4, <1>5 DEF Remove, In, Slot, Key, Outer, Abs!Removes
<1>6. CASE RemoveIf(t)
  <2>1. AbsCalls[t].op = "remove_if"
    BY <1>2, <1>6 DEF RemoveIf, In, Outer
  <2>2. CASE OccupiedRemove(t, i) /\ FinishWith(t, Stored(k))
    BY <1>2, <1>3, <1>4, <2>1, <2>2 DEF Abs!Removes
  <2>3. CASE DropHandle(t, i) /\ FinishWith(t, None) /\ UNCHANGED shards
    <3>1. AbsMap' = [AbsMap EXCEPT ![k] = AbsMap[k]]
      BY <1>2, <2>3, AbsUnchanged DEF AbsMap
    <3>2. Abs!Change(t, AbsMap[k])
      BY <1>2, <2>3, <3>1, Giving DEF IInv, Abs!Change, Abs!Holds
    <3>. QED
      BY <1>2, <1>4, <2>1, <2>3, <3>2 DEF Abs!Removes, Abs!In
  <2>. QED
    BY <1>6, <2>2, <2>3 DEF RemoveIf, Slot, Key
<1>7. CASE RemoveIfMut(t)
  <2>1. AbsCalls[t].op = "remove_if_mut"
    BY <1>2, <1>7 DEF RemoveIfMut, In, Outer
  <2>2. CASE OccupiedRemove(t, i) /\ \E v \in Values : FinishWith(t, v)
    BY <1>2, <1>3, <1>4, <2>1, <2>2 DEF Abs!Removes, Abs!In
  <2>3. CASE OccupiedReplace(t, i) /\ (FinishWith(t, None) \/ Finish(t))
    <3>1. \E v \in Values : Abs!Change(t, v)
      BY <1>1, <1>2, <2>3, Changing DEF OccupiedReplace
    <3>2. CASE FinishWith(t, None)
      BY <1>2, <1>4, <2>1, <3>1, <3>2 DEF Abs!Removes, Abs!In
    <3>3. CASE Finish(t)
      <4>1. Abs!Goto(t, Abs!Idle)
        BY <3>3, AbsFinish DEF IInv
      <4>. QED
        BY <1>2, <2>1, <3>1, <4>1 DEF Abs!Unwinds, Abs!In
    <3>. QED
      BY <2>3, <3>2, <3>3
  <2>. QED
    BY <1>7, <2>2, <2>3 DEF RemoveIfMut, Slot
<1>. QED
  BY <1>5, <1>6, <1>7

LEMMA ReturnReturns ==
  ASSUME IInv, NEW t \in Threads, Return(t)
  PROVE  Abs!Returns(t)
<1>1. AbsCalls[t].op = "return" /\ Abs!Goto(t, Abs!Idle) /\ UNCHANGED <<AbsMap, AbsBorrows>>
  BY AbsCallFields, AbsFinish, AbsUnchanged DEF Return, In, IInv, Outer
<1>. QED
  BY <1>1 DEF Abs!Returns, Abs!In

-----------------------------------------------------------------------------
(* Iterators, and alter_all which uses one *)

\* The keys of a shard that are in the map.
LEMMA PresentKeys ==
  ASSUME TableInv, NEW s \in Shards
  PROVE  /\ Present(s) \in SUBSET {k \in Keys : AbsMap[k] # None}
         /\ \A k \in Keys : k \in Present(s) <=> ShardOf[k] = s /\ AbsMap[k] # None
BY AbsMapFields DEF Present, Stored, TableInv, Placed

\* An iterator that goes on to a shard borrows all that is in it.
LEMMA ShardIsBorrowed ==
  ASSUME TableInv, NEW t \in Threads, NEW i \in Slots, NextShard(t, i),
         held[t][i].kind \in IteratorKinds, UNCHANGED <<shards, call>>,
         AbsCalls[t].op \in {"next", "alter_all"}
  PROVE  Abs!Advances(t)
<1>1. PICK s \in Shards, kind \in IteratorKinds :
        /\ s = held[t][i].shard + 1 /\ kind = held[t][i].kind
        /\ IF kind = "Iter" THEN ReadLockable(s) ELSE WriteLockable(s)
        /\ PutHandle(t, i, Handle(kind, s, Present(s)))
  <2>1. held[t][i].shard \in -1..(ShardCount - 1) /\ held[t][i].shard # ShardCount - 1
    BY DEF NextShard, LastShard, TableInv, TableTypeOK, Handles
  <2>. QED
    BY <2>1, ShardAssumption DEF NextShard, Shards
<1>. DEFINE h == Handle(kind, s, Present(s))
            K == Present(s)
            m == IF kind = "Iter" THEN "shared" ELSE "mut"
<1>2. h \in Handles
  BY ShardAssumption DEF Handle, Handles, Present, Shards, IteratorKinds, SharedKinds, ExclusiveKinds
<1>3. h.keys = K /\ Mode(h) = m
  BY DEF Handle, Mode, IteratorKinds, ExclusiveKinds, EntryKinds
<1>4. PutHandle(t, i, h) /\ held[t][i].keys = {}
  BY <1>1 DEF NextShard, Exhausted
<1>5. AbsBorrows' = AbsBorrows \cup ({t} \X K \X {m})
  <2>. HIDE DEF h
  <2>. QED
    BY <1>2, <1>3, <1>4, Borrowing
<1>6. K \in SUBSET Keys /\ \A k \in K : ShardOf[k] = s
  BY PresentKeys
<1>7. IF m = "mut" THEN ~Abs!Borrowed(K) ELSE ~Abs!BorrowedMut(K)
  <2>1. CASE kind = "Iter"
    BY <1>1, <1>6, <2>1, NobodyBorrowsMut
  <2>2. CASE kind # "Iter"
    BY <1>1, <1>6, <2>2, NobodyBorrows
  <2>. QED
    BY <2>1, <2>2
<1>8. K \in SUBSET {k \in Keys : AbsMap[k] # None} /\ m \in {"shared", "mut"}
  BY PresentKeys
<1>. HIDE DEF K, m
<1>9. Abs!Borrow(t, K, m)
  BY <1>5, <1>7 DEF Abs!Borrow
<1>. QED
  BY <1>8, <1>9, AbsUnchanged DEF Abs!Advances, Abs!In

\* The keys of a handle that goes from one slot to two: the borrows stay.
LEMMA Splitting ==
  ASSUME TableInv, NEW t \in Threads, NEW i \in Slots, Yield(t, i),
         held[t][i].kind \in IteratorKinds, FreeSlots(t) # {}
  PROVE  AbsBorrows' = AbsBorrows
<1>1. PICK k \in held[t][i].keys, f \in Slots :
        /\ f # i /\ held[t][f] = NoHandle
        /\ held' = [held EXCEPT
             ![t][i].keys = @ \ {k},
             ![t][f] = Handle(IF held[t][i].kind = "Iter" THEN "RefMulti" ELSE "RefMutMulti",
                              held[t][i].shard, {k})]
  <2>1. FreeSlot(t) \in Slots /\ held[t][FreeSlot(t)] = NoHandle /\ FreeSlot(t) # i
    BY FreeSlotIsFree DEF NoHandle, Handle, IteratorKinds
  <2>. QED
    BY <2>1 DEF Yield
<1>2. /\ held'[t][i].keys = held[t][i].keys \ {k} /\ held'[t][i].kind = held[t][i].kind
      /\ held'[t][f].keys = {k}
      /\ held'[t][f].kind = IF held[t][i].kind = "Iter" THEN "RefMulti" ELSE "RefMutMulti"
      /\ \A j \in Slots \ {i, f} : held'[t][j] = held[t][j]
      /\ \A u \in Threads \ {t} : held'[u] = held[u]
  <2>1. held[t][i] \in Handles
    BY DEF TableInv, TableTypeOK
  <2>. QED
    BY <1>1, <2>1 DEF TableInv, TableTypeOK, Handles, Handle
<1>3. Mode(held'[t][i]) = Mode(held[t][i]) /\ Mode(held'[t][f]) = Mode(held[t][i])
  BY <1>2 DEF Mode, IteratorKinds, ExclusiveKinds, EntryKinds
<1>4. held[t][f].keys = {}
  BY <1>1 DEF NoHandle, Handle
<1>5. ASSUME NEW u \in Threads, NEW x \in Keys, NEW m \in Modes
      PROVE  <<u, x, m>> \in BorrowsOf(held') <=> <<u, x, m>> \in BorrowsOf(held)
  <2>1. /\ <<u, x, m>> \in BorrowsOf(held') <=>
             \E j \in Slots : x \in held'[u][j].keys /\ m = Mode(held'[u][j])
        /\ <<u, x, m>> \in BorrowsOf(held) <=>
             \E j \in Slots : x \in held[u][j].keys /\ m = Mode(held[u][j])
    BY AllBorrows
  <2>2. CASE u # t
    BY <1>2, <2>1, <2>2
  <2>3. CASE u = t
    <3>1. ASSUME NEW j \in Slots, x \in held'[t][j].keys, m = Mode(held'[t][j])
          PROVE  \E l \in Slots : x \in held[t][l].keys /\ m = Mode(held[t][l])
      BY <1>1, <1>2, <1>3, <3>1
    <3>2. ASSUME NEW j \in Slots, x \in held[t][j].keys, m = Mode(held[t][j])
          PROVE  \E l \in Slots : x \in held'[t][l].keys /\ m = Mode(held'[t][l])
      BY <1>1, <1>2, <1>3, <1>4, <3>2
    <3>. QED
      BY <2>1, <2>3, <3>1, <3>2
  <2>. QED
    BY <2>2, <2>3
<1>6. ASSUME NEW u \in Threads, NEW x \in Keys, NEW m \in Modes
      PROVE  <<u, x, m>> \in AbsBorrows' <=> <<u, x, m>> \in AbsBorrows
  BY <1>5 DEF AbsBorrows
<1>. QED
  BY <1>6, BorrowTypes, SameTriples

LEMMA NextAdvances ==
  ASSUME IInv, NEW t \in Threads, IterNextShard(t) \/ IterYield(t) \/ IterEnd(t)
  PROVE  Abs!Advances(t)
<1>1. /\ call[t].op = "next" /\ UNCHANGED shards /\ AbsCalls[t].op = "next"
      /\ call[t].slot \in Slots /\ held[t][call[t].slot].kind \in IteratorKinds
      /\ FreeSlots(t) # {}
  BY Iterating, AbsCallFields DEF IterNextShard, IterYield, IterEnd, In, Outer
<1>2. CASE IterNextShard(t)
  BY <1>1, <1>2, ShardIsBorrowed DEF IterNextShard, Slot, IInv
<1>3. ASSUME Finish(t), UNCHANGED AbsBorrows PROVE Abs!Advances(t)
  BY <1>1, <1>3, AbsFinish, AbsUnchanged DEF IInv, Abs!Advances, Abs!In
<1>4. CASE IterYield(t)
  BY <1>1, <1>3, <1>4, Splitting DEF IterYield, Slot, IInv
<1>5. CASE IterEnd(t)
  BY <1>3, <1>5, AbsUnchanged DEF IterEnd
<1>. QED
  BY <1>2, <1>4, <1>5

LEMMA AlterAllAdvances ==
  ASSUME IInv, NEW t \in Threads, AlterAllNextShard(t) \/ AlterAllEnds(t)
  PROVE  Abs!Advances(t)
<1>. DEFINE i == call[t].slot
<1>1. /\ call[t].op = "alter_all" /\ UNCHANGED shards /\ AbsCalls[t].op = "alter_all"
      /\ i \in Slots /\ held[t][i].kind = "IterMut"
  BY AlteringAll, AbsCallFields DEF AlterAllNextShard, AlterAllEnds, In, Outer
<1>2. CASE AlterAllNextShard(t)
  BY <1>1, <1>2, ShardIsBorrowed DEF AlterAllNextShard, Slot, IInv, IteratorKinds
<1>3. CASE AlterAllEnds(t)
  <2>1. held[t][i].keys = {} /\ PutHandle(t, i, NoHandle) /\ Finish(t)
    BY <1>3 DEF AlterAllEnds, Slot, Exhausted, DropHandle
  <2>2. AbsBorrows' = AbsBorrows
    BY <1>1, <2>1, Keeping DEF NoHandle, Handle, IInv
  <2>. QED
    BY <1>1, <2>1, <2>2, AbsFinish, AbsUnchanged DEF IInv, Abs!Advances, Abs!In
<1>. QED
  BY <1>2, <1>3

LEMMA NewIterators ==
  ASSUME IInv, NEW t \in Threads, NewIter(t) \/ AlterAll(t)
  PROVE  AbsStep
<1>1. PICK kind \in IteratorKinds : NewIterator(t, kind)
  BY DEF NewIter, AlterAll, IteratorKinds
<1>2. FreeSlot(t) \in Slots /\ held[t][FreeSlot(t)].keys = {}
  BY FreeSlotIsFree DEF NewIter, AlterAll, NoHandle, Handle
<1>3. UNCHANGED AbsBorrows
  BY <1>1, <1>2, Keeping DEF NewIterator, Handle, IInv
<1>4. UNCHANGED AbsMap
  BY AbsUnchanged DEF NewIter, AlterAll
<1>5. CASE NewIter(t)
  BY <1>3, <1>4, <1>5, AbsUnchanged DEF NewIter, AbsStep
<1>6. CASE AlterAll(t)
  <2>1. AbsCall(Call("alter_all", None, FreeSlot(t))) = Abs!Call("alter_all", None, {}, None)
    BY DEF AbsCall, Call, Outer, ToVisit, Traversals, ReadTraversals, Serializing,
           Abs!Call, Nothing, Abs!Nothing
  <2>2. AbsCalls[t] = Abs!Idle /\ Continue(t, Call("alter_all", None, FreeSlot(t)))
    BY <1>6, AbsCallFields, AbsIdle DEF AlterAll
  <2>3. Abs!Goto(t, Abs!Call("alter_all", None, {}, None))
    BY <2>1, <2>2, AbsContinue DEF IInv
  <2>4. Abs!Invoke(t)
    BY <1>3, <1>4, <2>2, <2>3 DEF Abs!Invoke
  <2>. QED
    BY <2>4, AbsActs
<1>. QED
  BY <1>5, <1>6

-----------------------------------------------------------------------------
(* alter: a value is taken out, changed and put back *)

\* Nobody sees that the value is gone.
LEMMA TakingOut ==
  ASSUME IInv, NEW t \in Threads, AlterTake(t)
  PROVE  AbsStep
<1>1. PICK k \in held[t][call[t].slot].keys :
        Continue(t, [call[t] EXCEPT
          !.op = IF In(t, "altering") THEN "alter_closure" ELSE "alter_all_closure",
          !.key = k])
  BY DEF AlterTake, Slot
<1>2. call[t].op \in {"altering", "alter_all"} /\ UNCHANGED <<shards, held>>
  BY DEF AlterTake
<1>. DEFINE op == IF In(t, "altering") THEN "alter_closure" ELSE "alter_all_closure"
            c == [call[t] EXCEPT !.op = op, !.key = k]
<1>3. /\ c.op = op /\ c.key = k /\ c.result = call[t].result
      /\ c.count = call[t].count /\ c.gathered = call[t].gathered
  BY CallFields DEF CallRecords, IInv
<1>4. /\ call[t].op = "altering" => held[t][call[t].slot].keys = {call[t].key}
      /\ call[t].op = "alter_all" => call[t].key = None
  BY <1>2, AlteringAll DEF IInv, CallsFit, CallFits, HasOne
<1>5. /\ call[t].op = "altering" => op = "alter_closure" /\ k = call[t].key
      /\ call[t].op = "alter_all" => op = "alter_all_closure"
  BY <1>1, <1>4 DEF In
<1>6. Continue(t, c)
  BY <1>1
<1>. HIDE DEF op, c
<1>7. AbsCall(c) = AbsCall(call[t])
  BY <1>2, <1>3, <1>4, <1>5 DEF AbsCall, Outer, ToVisit, Traversals, ReadTraversals, Serializing
<1>8. UNCHANGED AbsCalls
  BY <1>6, <1>7, AbsStays DEF IInv
<1>. QED
  BY <1>2, <1>8, AbsUnchanged DEF AbsStep

LEMMA PuttingBack ==
  ASSUME IInv, NEW t \in Threads, AlterPut(t)
  PROVE  AbsStep
<1>. DEFINE k == call[t].key
            i == call[t].slot
<1>1. PICK v \in Values : Store(k, v)
  BY DEF AlterPut, Key
<1>2. call[t].op \in {"alter_closure", "alter_all_closure"}
  BY DEF AlterPut
<1>3. /\ i \in Slots /\ k \in held[t][i].keys /\ k \in Keys
      /\ call[t].op = "alter_closure" => held[t][i].kind = "RefMut" /\ held[t][i].keys = {k}
      /\ call[t].op = "alter_all_closure" => held[t][i].kind = "IterMut"
  <2>1. CallFits(call[t], held[t])
    BY DEF IInv, CallsFit
  <2>2. i \in Slots /\ k \in held[t][i].keys
    BY <1>2, <2>1 DEF CallFits, HasOne
  <2>3. /\ call[t].op = "alter_closure" => held[t][i].kind = "RefMut" /\ held[t][i].keys = {k}
        /\ call[t].op = "alter_all_closure" => held[t][i].kind = "IterMut"
    BY <1>2, <2>1 DEF CallFits, HasOne
  <2>. QED
    BY <2>2, <2>3, HandleFields DEF IInv, TableInv
<1>4. AbsMap' = [AbsMap EXCEPT ![k] = v] /\ AbsMap[k] = Stored(k)
  BY <1>1, <1>3, AbsStore, AbsMapFields DEF IInv
<1>5. held[t][i].kind \in ExclusiveKinds /\ held[t][i].kind # "Vacant"
  BY <1>2, <1>3 DEF ExclusiveKinds
<1>6. AbsMap[k] # None /\ <<t, k, "mut">> \in AbsBorrows
  BY <1>3, <1>4, <1>5, HandleBorrows DEF IInv, TableInv, HandlesFit, Fits
<1>7. CASE call[t].op = "alter_closure"
  <2>1. DropHandle(t, i) /\ Finish(t)
    BY <1>7 DEF AlterPut, In, Slot
  <2>2. Abs!Release(t, {k}, "mut") /\ Abs!Goto(t, Abs!Idle)
    BY <1>3, <1>5, <1>7, <2>1, Giving, AbsFinish DEF IInv
  <2>3. AbsCalls[t].op = "alter" /\ AbsCalls[t].key = k
    BY <1>7, AbsCallFields DEF Outer
  <2>4. Abs!Change(t, v)
    BY <1>4, <1>6, <2>2, <2>3 DEF Abs!Change, Abs!Holds
  <2>5. Abs!Alters(t)
    BY <1>6, <2>2, <2>3, <2>4 DEF Abs!Alters, Abs!In
  <2>. QED
    BY <2>5, AbsActs
<1>8. CASE call[t].op = "alter_all_closure"
  <2>. DEFINE h == [held[t][i] EXCEPT !.keys = @ \ {k}]
              c == [call[t] EXCEPT !.op = "alter_all", !.key = None]
  <2>1. /\ held' = [held EXCEPT ![t][i].keys = @ \ {k}]
        /\ Continue(t, c)
    BY <1>8 DEF AlterPut, In, Slot, Key
  <2>2. held[t][i] \in Handles
    BY <1>3 DEF IInv, TableInv, TableTypeOK
  <2>3. h \in Handles /\ h.kind = "IterMut" /\ h.keys = held[t][i].keys \ {k}
    BY <1>3, <1>8, <2>2 DEF Handles
  <2>4. PutHandle(t, i, h)
    BY <1>3, <2>1 DEF PutHandle, IInv, TableInv, TableTypeOK
  <2>5. /\ c.op = "alter_all" /\ c.key = None /\ c.result = call[t].result
        /\ c.count = call[t].count /\ c.gathered = call[t].gathered
    BY CallFields DEF CallRecords, IInv
  <2>. HIDE DEF h, c
  <2>6. AbsCall(c) = AbsCall(call[t])
    BY <1>8, <2>5 DEF AbsCall, Outer, ToVisit, Traversals, ReadTraversals, Serializing
  <2>7. UNCHANGED AbsCalls
    BY <2>1, <2>6, AbsStays DEF IInv
  <2>8. Mode(h) = "mut"
    BY <2>3 DEF Mode, ExclusiveKinds
  <2>9. AbsBorrows' = AbsBorrows \ ({t} \X (held[t][i].keys \ h.keys) \X {"mut"})
    BY <1>3, <1>5, <2>3, <2>4, <2>8, Releasing DEF IInv
  <2>10. held[t][i].keys \ h.keys = {k}
    BY <1>3, <2>3
  <2>11. Abs!Release(t, {k}, "mut")
    BY <2>9, <2>10 DEF Abs!Release
  <2>12. AbsCalls[t].op = "alter_all"
    BY <1>8, AbsCallFields DEF Outer
  <2>13. Abs!Advances(t)
    BY <1>3, <1>4, <1>6, <2>7, <2>11, <2>12 DEF Abs!Advances, Abs!In
  <2>. QED
    BY <2>13, AbsActs
<1>. QED
  BY <1>2, <1>7, <1>8

LEMMA Aborting ==
  ASSUME NEW t \in Threads, AlterPanics(t)
  PROVE  AbsStep
BY AbsUnchanged DEF AlterPanics, AbsStep

-----------------------------------------------------------------------------
(* What the caller does with its handles *)

LEMMA OneKeyOnly ==
  ASSUME TableInv, NEW t \in Threads, NEW i \in Slots, NEW k \in held[t][i].keys,
         held[t][i].kind \in OneKeyKinds
  PROVE  held[t][i].keys = {k}
BY DEF TableInv, HandlesFit, Fits

\* The element of an exclusive handle is written, or taken out and the handle with
\* it.
LEMMA WritesKey ==
  ASSUME TableInv, NEW t \in Threads, NEW i \in Slots, NEW k \in held[t][i].keys,
         held[t][i].kind \in OneKeyKinds, call[t] = Idle, UNCHANGED call,
         NEW v \in Values \cup {None}, Store(k, v),
         (v # None /\ UNCHANGED AbsBorrows) \/ DropHandle(t, i)
  PROVE  Abs!Uses(t)
<1>1. k \in Keys /\ held[t][i].keys = {k} /\ <<t, k, "mut">> \in AbsBorrows
  BY OneKeyOnly, HandleBorrows DEF OneKeyKinds
<1>2. AbsMap' = [AbsMap EXCEPT ![k] = v]
  BY <1>1, AbsStore
<1>3. UNCHANGED AbsCalls /\ AbsCalls[t] = Abs!Idle
  BY AbsUnchanged, AbsCallFields, AbsIdle
<1>4. (v # None /\ UNCHANGED AbsBorrows) \/ Abs!Release(t, {k}, "mut")
  BY <1>1, Giving DEF OneKeyKinds
<1>5. Abs!Writes(t, k) \/ Abs!Takes(t, k)
  BY <1>1, <1>2, <1>3, <1>4 DEF Abs!Writes, Abs!Takes
<1>. QED
  BY <1>1, <1>3, <1>5 DEF Abs!Uses

LEMMA DropsBorrows ==
  ASSUME TableInv, NEW t \in Threads, NEW i \in Slots, call[t] = Idle,
         DropHandle(t, i), UNCHANGED <<shards, call>>
  PROVE  Abs!Uses(t)
<1>1. UNCHANGED <<AbsMap, AbsCalls>> /\ AbsCalls[t] = Abs!Idle
  BY AbsUnchanged, AbsCallFields, AbsIdle
<1>2. Abs!Drops(t)
  BY <1>1, Dropping DEF Abs!Drops
<1>. QED
  BY <1>1, <1>2 DEF Abs!Uses

\* A handle turns into one of another kind, with the same rights.
LEMMA KindsKeep ==
  ASSUME TableInv, NEW t \in Threads, NEW i \in Slots, NEW kind \in {"RefMut", "Occupied"},
         PutHandle(t, i, [held[t][i] EXCEPT !.kind = kind]),
         held[t][i].kind \in ExclusiveKinds
  PROVE  UNCHANGED AbsBorrows
<1>. DEFINE h == [held[t][i] EXCEPT !.kind = kind]
<1>1. h.keys = held[t][i].keys /\ h.kind = kind
  BY OtherKind DEF SharedKinds, ExclusiveKinds, EntryKinds
<1>2. Mode(h) = Mode(held[t][i])
  BY <1>1 DEF Mode, ExclusiveKinds, EntryKinds
<1>. HIDE DEF h
<1>. QED
  BY <1>1, <1>2, Keeping DEF h

LEMMA ClonesKeep ==
  ASSUME TableInv, NEW t \in Threads, NEW i \in Slots, CloneHandle(t, i)
  PROVE  UNCHANGED AbsBorrows
<1>1. PICK f \in Slots, h \in Handles :
        h = held[t][i] /\ PutHandle(t, f, h) /\ held[t][f].keys = {}
  BY FreeSlotIsFree DEF CloneHandle, TableInv, TableTypeOK, NoHandle, Handle
<1>2. AbsBorrows' = AbsBorrows \cup ({t} \X h.keys \X {Mode(h)})
  BY <1>1, Borrowing
<1>3. \A k \in h.keys : <<t, k, Mode(h)>> \in AbsBorrows
  BY <1>1, BorrowsAre, HandleFields DEF Mode, Modes, TableInv
<1>. QED
  BY <1>2, <1>3

LEMMA DowngradeUses ==
  ASSUME TableInv, NEW t \in Threads, NEW i \in Slots, Downgrade(t, i),
         call[t] = Idle, UNCHANGED call
  PROVE  AbsStep
<1>. DEFINE h == [held[t][i] EXCEPT !.kind = "Ref"]
<1>1. /\ held[t][i].kind = "RefMut" /\ PutHandle(t, i, h)
      /\ h.keys = held[t][i].keys /\ h.kind = "Ref"
  BY OtherKind DEF Downgrade, SharedKinds
<1>. HIDE DEF h
<1>2. UNCHANGED <<AbsMap, AbsCalls>> /\ AbsCalls[t] = Abs!Idle
  BY AbsUnchanged, AbsCallFields, AbsIdle DEF Downgrade
<1>3. CASE held[t][i].keys = {}
  <2>1. UNCHANGED AbsBorrows
    BY <1>1, <1>3, Keeping
  <2>. QED
    BY <1>2, <2>1 DEF AbsStep
<1>4. CASE held[t][i].keys # {}
  <2>1. PICK k \in held[t][i].keys : TRUE
    BY <1>4
  <2>2. held[t][i].kind \in OneKeyKinds /\ held[t][i].kind \in ExclusiveKinds
        /\ h.kind \in SharedKinds
    BY <1>1 DEF IteratorKinds, OneKeyKinds, ExclusiveKinds, SharedKinds
  <2>3. k \in Keys /\ held[t][i].keys = {k} /\ <<t, k, "mut">> \in AbsBorrows
    BY <2>1, <2>2, OneKeyOnly, HandleBorrows
  <2>4. Abs!Downgrades(t, k)
    BY <1>1, <1>2, <2>2, <2>3, Downgrading DEF Abs!Downgrades
  <2>5. Abs!Uses(t)
    BY <1>2, <2>3, <2>4 DEF Abs!Uses
  <2>. QED
    BY <2>5, AbsActs
<1>. QED
  BY <1>3, <1>4

\* Each thing that a caller does with a handle is one of these.
LEMMA UsesAre ==
  ASSUME NEW t \in Threads, NEW i \in Slots, Use(t, i)
  PROVE  \/ /\ held[t][i].kind \in {"RefMut", "RefMutMulti", "Occupied"}
            /\ \E k \in held[t][i].keys, v \in Values : Store(k, v)
            /\ UNCHANGED held \/ DropHandle(t, i)
         \/ OccupiedRemove(t, i)
         \/ (DropHandle(t, i) \/ UNCHANGED held) /\ UNCHANGED shards
         \/ OccupiedIntoMut(t, i) \/ Downgrade(t, i) \/ CloneHandle(t, i)
         \/ \E kind \in {"RefMut", "Occupied"} :
              VacantInsert(t, i, kind) \/ OccupiedInsert(t, i, kind)
<1>1. CASE AndModify(t, i) \/ OccupiedOps(t, i)
  BY <1>1 DEF AndModify, OccupiedOps, WriteThrough, OccupiedReplace, Ends
<1>2. CASE IntoKey(t, i) \/ OrInsert(t, i) \/ MapRef(t, i)
  BY <1>2 DEF IntoKey, OrInsert, MapRef, Ends
<1>3. CASE EntryInsert(t, i) \/ EntryInsertEntry(t, i)
  BY <1>3 DEF EntryInsert, EntryInsertEntry
<1>4. CASE MapRefMut(t, i) \/ ValueMut(t, i) \/ MultiValueMut(t, i)
  BY <1>4 DEF MapRefMut, ValueMut, MultiValueMut, WriteThrough
<1>5. CASE DowngradeRef(t, i) \/ CloneMulti(t, i) \/ CloneIter(t, i)
  BY <1>5 DEF DowngradeRef, CloneMulti, CloneIter
<1>. QED
  BY <1>1, <1>2, <1>3, <1>4, <1>5 DEF Use

LEMMA Using ==
  ASSUME IInv, NEW t \in Threads, UseHandle(t) \/ Drop(t)
  PROVE  AbsStep
<1>1. call[t] = Idle /\ UNCHANGED call /\ TableInv
  BY DEF UseHandle, Drop, IInv
<1>2. CASE Drop(t)
  BY <1>1, <1>2, DropsBorrows, AbsActs DEF Drop
<1>3. CASE UseHandle(t)
  <2>1. PICK i \in Slots : Use(t, i)
    BY <1>3 DEF UseHandle
  <2>2. CASE /\ held[t][i].kind \in {"RefMut", "RefMutMulti", "Occupied"}
             /\ \E k \in held[t][i].keys, v \in Values : Store(k, v)
             /\ UNCHANGED held \/ DropHandle(t, i)
    <3>1. held[t][i].kind \in OneKeyKinds
      BY <2>2 DEF ExclusiveKinds, EntryKinds, IteratorKinds, OneKeyKinds
    <3>2. PICK k \in held[t][i].keys, v \in Values : Store(k, v)
      BY <2>2
    <3>3. v # None /\ (UNCHANGED AbsBorrows \/ DropHandle(t, i))
      BY <2>2, NoneAssumption, AbsUnchanged
    <3>. QED
      BY <1>1, <3>1, <3>2, <3>3, WritesKey, AbsActs
  <2>3. CASE OccupiedRemove(t, i)
    <3>1. held[t][i].kind \in OneKeyKinds
      BY <2>3 DEF OccupiedRemove, ExclusiveKinds, EntryKinds, IteratorKinds, OneKeyKinds
    <3>. QED
      BY <1>1, <2>3, <3>1, WritesKey, AbsActs DEF OccupiedRemove
  <2>4. CASE (DropHandle(t, i) \/ UNCHANGED held) /\ UNCHANGED shards
    BY <1>1, <2>4, DropsBorrows, AbsActs, AbsUnchanged DEF AbsStep
  <2>5. CASE OccupiedIntoMut(t, i) \/ CloneHandle(t, i)
    <3>1. UNCHANGED AbsBorrows
      BY <1>1, <2>5, KindsKeep, ClonesKeep DEF OccupiedIntoMut, ExclusiveKinds, EntryKinds
    <3>. QED
      BY <1>1, <2>5, <3>1, AbsUnchanged DEF OccupiedIntoMut, CloneHandle, AbsStep
  <2>6. CASE Downgrade(t, i)
    BY <1>1, <2>6, DowngradeUses
  <2>7. CASE \E kind \in {"RefMut", "Occupied"} :
               VacantInsert(t, i, kind) \/ OccupiedInsert(t, i, kind)
    <3>1. PICK kind \in {"RefMut", "Occupied"} :
            VacantInsert(t, i, kind) \/ OccupiedInsert(t, i, kind)
      BY <2>7
    <3>2. held[t][i].kind \in ExclusiveKinds /\ held[t][i].kind \in OneKeyKinds
      BY <3>1 DEF VacantInsert, OccupiedInsert, ExclusiveKinds, EntryKinds, IteratorKinds, OneKeyKinds
    <3>3. PICK k \in held[t][i].keys, v \in Values : Store(k, v)
      BY <3>1 DEF VacantInsert, OccupiedInsert
    <3>4. UNCHANGED AbsBorrows /\ v # None
      BY <1>1, <3>1, <3>2, KindsKeep, NoneAssumption DEF VacantInsert, OccupiedInsert
    <3>. QED
      BY <1>1, <3>2, <3>3, <3>4, WritesKey, AbsActs
  <2>. QED
    BY <2>1, <2>2, <2>3, <2>4, <2>5, <2>6, <2>7, UsesAre
<1>. QED
  BY <1>2, <1>3

-----------------------------------------------------------------------------
(* Calls on the whole map visit the keys shard by shard *)

KeysAt(t) == {k \in Keys : ShardOf[k] = AtShard(t)}

LEMMA VisitKeys ==
  ASSUME IInv, NEW t \in Threads, GoesOver(t)
  PROVE  /\ AtShard(t) = call[t].shard /\ AtShard(t) \in Shards
         /\ AbsCalls[t] = AbsCall(call[t]) /\ AbsCalls[t].op = call[t].op
         /\ AbsCalls[t].left = {k \in Keys : ShardOf[k] >= AtShard(t)}
         /\ KeysAt(t) \in SUBSET AbsCalls[t].left /\ KeysAt(t) \in SUBSET Keys
         /\ \A k \in KeysAt(t) : ShardOf[k] = AtShard(t)
         /\ Present(AtShard(t)) = {k \in KeysAt(t) : AbsMap[k] # None}
<1>1. /\ AtShard(t) = call[t].shard /\ AtShard(t) \in Shards
      /\ call[t].op \in Traversals \cup Serializing
  BY CallFields DEF AtShard, IInv, GoesOver
<1>2. AbsCalls[t] = AbsCall(call[t]) /\ AbsCalls[t].op = call[t].op
  BY <1>1, AbsCallFields DEF Outer, Traversals, ReadTraversals, Serializing
<1>3. AbsCalls[t].left = {k \in Keys : ShardOf[k] >= AtShard(t)}
  BY <1>1, AbsCallFields DEF ToVisit
<1>4. KeysAt(t) \in SUBSET AbsCalls[t].left
  <2>1. \A k \in Keys : ShardOf[k] = AtShard(t) => ShardOf[k] >= AtShard(t)
    BY <1>1, ShardAssumption DEF Shards
  <2>. QED
    BY <1>3, <2>1 DEF KeysAt
<1>5. \A k \in Keys : k \in Present(AtShard(t)) <=> ShardOf[k] = AtShard(t) /\ AbsMap[k] # None
  BY <1>1, PresentKeys DEF IInv
<1>6. Present(AtShard(t)) \subseteq Keys
  BY DEF Present
<1>7. Present(AtShard(t)) = {k \in KeysAt(t) : AbsMap[k] # None}
  BY <1>5, <1>6 DEF KeysAt
<1>. QED
  BY <1>1, <1>2, <1>3, <1>4, <1>7 DEF KeysAt

LEMMA ShardsPassed ==
  ASSUME NEW s \in Shards
  PROVE  /\ {k \in Keys : ShardOf[k] >= s + 1}
              = {k \in Keys : ShardOf[k] >= s} \ {k \in Keys : ShardOf[k] = s}
         /\ s = ShardCount - 1 =>
              {k \in Keys : ShardOf[k] >= s} \subseteq {k \in Keys : ShardOf[k] = s}
         /\ {k \in Keys : ShardOf[k] >= 0} = Keys
<1>1. \A k \in Keys : ShardOf[k] \in 0..(ShardCount - 1)
  BY ShardAssumption
<1>2. s \in Int /\ ShardCount \in Int
  BY ShardAssumption DEF Shards
<1>3. \A k \in Keys : /\ ShardOf[k] >= s + 1 <=> ShardOf[k] >= s /\ ShardOf[k] # s
                      /\ s = ShardCount - 1 /\ ShardOf[k] >= s => ShardOf[k] = s
                      /\ ShardOf[k] >= 0
  BY <1>1, <1>2
<1>. QED
  BY <1>3

\* Calls to the abstract map.
AbsOps == {Outer(op) : op \in Stages}
AbsRecords == [op : AbsOps, key : Keys \cup {None}, left : SUBSET Keys,
               result : Values \cup {None}, count : Nat,
               gathered : [Keys -> Values \cup {None}]]

LEMMA AbsCallTypes == ASSUME NEW c \in CallRecords PROVE AbsCall(c) \in AbsRecords
<1>1. c.op \in Stages
  BY DEF CallRecords
<1>2. Outer(c.op) \in AbsOps
  BY <1>1 DEF AbsOps
<1>3. ToVisit(c) \in SUBSET Keys
  BY DEF ToVisit
<1>4. /\ c.key \in Keys \cup {None} /\ c.result \in Values \cup {None} /\ c.count \in Nat
      /\ c.gathered \in [Keys -> Values \cup {None}]
  BY DEF CallRecords
<1>5. (IF c.op = "alter_all_closure" THEN None ELSE c.key) \in Keys \cup {None}
  BY <1>4
<1>. QED
  BY <1>2, <1>3, <1>4, <1>5 DEF AbsCall, AbsRecords

LEMMA ReturnIsAbs == "return" \in AbsOps /\ "serialize_entries" \in AbsOps
<1>1. Outer("return") = "return" /\ Outer("serialize_entries") = "serialize_entries"
  BY DEF Outer
<1>2. "return" \in Stages /\ "serialize_entries" \in Stages
  BY DEF Stages, CallOps, Serializing
<1>. QED
  BY <1>1, <1>2 DEF AbsOps

LEMMA CallWith ==
  ASSUME NEW a \in AbsRecords, NEW p \in AbsOps, NEW m \in SUBSET Keys
  PROVE  [a EXCEPT !.op = p, !.left = m] =
           [op |-> p, key |-> a.key, left |-> m, result |-> a.result, count |-> a.count,
            gathered |-> a.gathered]
<1>. DEFINE d == [a EXCEPT !.op = p, !.left = m]
<1>1. /\ d \in AbsRecords /\ d.op = p /\ d.key = a.key /\ d.left = m
      /\ d.result = a.result /\ d.count = a.count /\ d.gathered = a.gathered
  BY DEF AbsRecords
<1>. HIDE DEF d
<1>2. d = [op |-> p, key |-> a.key, left |-> m, result |-> a.result, count |-> a.count,
           gathered |-> a.gathered]
  BY <1>1 DEF AbsRecords
<1>. QED
  BY <1>2 DEF d

LEMMA NextKeys ==
  ASSUME IInv, NEW t \in Threads, GoesOver(t), NEW c \in CallRecords,
         c.op = call[t].op, c.shard = call[t].shard,
         Continue(t, [c EXCEPT !.shard = @ + 1])
  PROVE  Abs!Goto(t, [AbsCall(c) EXCEPT !.left = @ \ KeysAt(t)])
<1>. DEFINE d == [c EXCEPT !.shard = @ + 1]
<1>1. c.op \in Traversals \cup Serializing
  BY DEF GoesOver
<1>2. AtShard(t) = c.shard /\ AtShard(t) \in Shards
  BY VisitKeys
<1>3. AbsCall(c).left = {k \in Keys : ShardOf[k] >= AtShard(t)}
  BY <1>1, <1>2 DEF AbsCall, ToVisit
<1>4. /\ d.op = c.op /\ d.key = c.key /\ d.result = c.result
      /\ d.count = c.count /\ d.gathered = c.gathered /\ d.shard = AtShard(t) + 1
  BY <1>2 DEF CallRecords
<1>5. Continue(t, d)
  OBVIOUS
<1>. HIDE DEF d
<1>6. ToVisit(d) = AbsCall(c).left \ KeysAt(t)
  BY <1>1, <1>2, <1>3, <1>4, ShardsPassed DEF ToVisit, KeysAt
<1>7. AbsCall(d) = [AbsCall(c) EXCEPT !.left = @ \ KeysAt(t)]
  BY <1>4, <1>6 DEF AbsCall
<1>. QED
  BY <1>5, <1>7, AbsContinue DEF IInv

\* A call that has done a shard has visited its keys.
LEMMA GoingOn ==
  ASSUME IInv, NEW t \in Threads, GoesOver(t), NEW c \in CallRecords,
         c.op = call[t].op, c.shard = call[t].shard, NextOrReturn(t, c)
  PROVE  Abs!Goes(t, KeysAt(t), AbsCall(c))
<1>1. c.op \in Traversals \cup Serializing /\ c.op # "alter_all_closure" /\ c.op # "return"
  BY DEF GoesOver, Traversals, ReadTraversals, Serializing
<1>2. AtShard(t) = c.shard /\ AtShard(t) \in Shards
  BY VisitKeys
<1>3. AbsCall(c).left = {k \in Keys : ShardOf[k] >= AtShard(t)}
  BY <1>1, <1>2 DEF AbsCall, ToVisit
<1>4. CASE AtShard(t) = ShardCount - 1
  <2>. DEFINE d == [c EXCEPT !.op = "return", !.shard = 0, !.slot = 0]
  <2>1. /\ d.op = "return" /\ d.key = c.key /\ d.result = c.result
        /\ d.count = c.count /\ d.gathered = c.gathered
    BY DEF CallRecords
  <2>2. Continue(t, d)
    BY <1>4 DEF NextOrReturn
  <2>. HIDE DEF d
  <2>6. Outer(d.op) = "return" /\ ToVisit(d) = {}
    BY <2>1 DEF Outer, ToVisit, Traversals, ReadTraversals, Serializing
  <2>3. AbsCall(d) = [AbsCall(c) EXCEPT !.op = "return", !.left = {}]
    <3>1. [AbsCall(c) EXCEPT !.op = "return", !.left = {}]
            = [op |-> "return", key |-> AbsCall(c).key, left |-> {},
               result |-> AbsCall(c).result, count |-> AbsCall(c).count,
               gathered |-> AbsCall(c).gathered]
      BY AbsCallTypes, ReturnIsAbs, CallWith
    <3>2. AbsCall(d) = [op |-> "return", key |-> c.key, left |-> {}, result |-> c.result,
                        count |-> c.count, gathered |-> c.gathered]
      BY <2>1, <2>6 DEF AbsCall
    <3>3. /\ AbsCall(c).key = c.key /\ AbsCall(c).result = c.result
          /\ AbsCall(c).count = c.count /\ AbsCall(c).gathered = c.gathered
      BY <1>1 DEF AbsCall
    <3>. QED
      BY <3>1, <3>2, <3>3
  <2>4. AbsCalls[t].left \subseteq KeysAt(t)
    BY <1>2, <1>4, VisitKeys, ShardsPassed DEF KeysAt
  <2>5. Abs!Goto(t, [AbsCall(c) EXCEPT !.op = "return", !.left = {}])
    BY <2>2, <2>3, AbsContinue DEF IInv
  <2>. QED
    BY <2>4, <2>5 DEF Abs!Goes
<1>5. CASE AtShard(t) # ShardCount - 1
  BY <1>5, NextKeys DEF NextOrReturn, Abs!Goes
<1>. QED
  BY <1>4, <1>5

LEMMA SameCardinality == \A S : Abs!Cardinality(S) = Cardinality(S)
BY DEF Abs!Cardinality, Cardinality

LEMMA CountsKeys ==
  ASSUME IInv, NEW t \in Threads, GoesOver(t)
  PROVE  AbsCall(Counted(t)) = Abs!Counted(t, KeysAt(t))
<1>1. Counted(t).op = call[t].op /\ Counted(t).shard = call[t].shard
      /\ Counted(t).key = call[t].key /\ Counted(t).result = call[t].result
      /\ Counted(t).gathered = call[t].gathered
      /\ Counted(t).count = call[t].count + Cardinality(Present(AtShard(t)))
  BY CallFields DEF Counted, CallRecords, IInv
<1>2. Present(AtShard(t)) = {k \in KeysAt(t) : AbsMap[k] # None}
  BY VisitKeys
<1>3. AbsCalls[t] = AbsCall(call[t])
  BY VisitKeys
<1>4. ToVisit(Counted(t)) = ToVisit(call[t])
  BY <1>1 DEF ToVisit
<1>5. Abs!Counted(t, KeysAt(t))
        = [AbsCall(call[t]) EXCEPT !.count = @ + Cardinality(Present(AtShard(t)))]
  BY <1>2, <1>3, SameCardinality DEF Abs!Counted
<1>. QED
  BY <1>1, <1>4, <1>5 DEF AbsCall

LEMMA GathersKeys ==
  ASSUME IInv, NEW t \in Threads, GoesOver(t)
  PROVE  AbsCall(Gathered(t)) =
           [AbsCalls[t] EXCEPT !.gathered =
              [k \in Keys |-> IF k \in KeysAt(t) THEN AbsMap[k] ELSE @[k]]]
<1>. DEFINE g == [k \in Keys |-> IF k \in Present(AtShard(t)) THEN shards[AtShard(t)][k]
                                 ELSE call[t].gathered[k]]
            a == [k \in Keys |-> IF k \in KeysAt(t) THEN AbsMap[k] ELSE call[t].gathered[k]]
<1>1. Gathered(t) = [call[t] EXCEPT !.gathered = g]
  BY CallFields DEF Gathered, CallRecords, IInv
<1>2. ASSUME NEW k \in Keys PROVE g[k] = a[k]
  <2>1. CASE k \in Present(AtShard(t))
    BY <2>1, VisitKeys, AbsMapFields DEF Stored
  <2>2. CASE k \in KeysAt(t) /\ k \notin Present(AtShard(t))
    <3>1. AbsMap[k] = None /\ ShardOf[k] = call[t].shard /\ ShardOf[k] \in Int
      BY <2>2, VisitKeys, HomeOfKey, ShardAssumption DEF Shards
    <3>2. call[t].gathered[k] = None
      BY <3>1, GatheringGoesOn DEF GatheredSoFar
    <3>. QED
      BY <2>2, <3>1, <3>2
  <2>3. CASE k \notin KeysAt(t)
    BY <2>3, VisitKeys
  <2>. QED
    BY <2>1, <2>2, <2>3
<1>3. g = a
  BY <1>2
<1>4. AbsCalls[t] = AbsCall(call[t]) /\ AbsCall(call[t]).gathered = call[t].gathered
  BY VisitKeys DEF AbsCall
<1>5. /\ Gathered(t).op = call[t].op /\ Gathered(t).shard = call[t].shard
      /\ Gathered(t).key = call[t].key /\ Gathered(t).result = call[t].result
      /\ Gathered(t).count = call[t].count /\ Gathered(t).gathered = g
  <2>. HIDE DEF g
  <2>. QED
    BY <1>1, CallFields DEF CallRecords, IInv
<1>6. [AbsCalls[t] EXCEPT !.gathered =
         [k \in Keys |-> IF k \in KeysAt(t) THEN AbsMap[k] ELSE @[k]]]
        = [AbsCall(call[t]) EXCEPT !.gathered = a]
  BY <1>4 DEF AbsCall
<1>. HIDE DEF g, a
<1>7. ToVisit(Gathered(t)) = ToVisit(call[t])
  BY <1>5 DEF ToVisit
<1>. QED
  BY <1>3, <1>5, <1>6, <1>7 DEF AbsCall

LEMMA Visiting ==
  ASSUME IInv, NEW t \in Threads, GoesOver(t), UNCHANGED held, Abs!Visits(t, KeysAt(t))
  PROVE  AbsStep
BY VisitKeys, AbsUnchanged, AbsActs

LEMMA Totalled ==
  ASSUME IInv, NEW t \in Threads, GoesOver(t),
         Continue(t, [Counted(t) EXCEPT !.op = "serialize_entries", !.shard = 0])
  PROVE  Abs!Goto(t, [Abs!Counted(t, KeysAt(t)) EXCEPT !.op = "serialize_entries", !.left = Keys])
<1>. DEFINE c == Counted(t)
            d == [c EXCEPT !.op = "serialize_entries", !.shard = 0]
<1>1. c \in CallRecords /\ c.op # "alter_all_closure"
  BY CountedRecord DEF GoesOver, Traversals, ReadTraversals, Serializing
<1>2. AbsCall(c) = Abs!Counted(t, KeysAt(t)) /\ Continue(t, d)
  BY CountsKeys
<1>. HIDE DEF c
<1>3. /\ d.op = "serialize_entries" /\ d.shard = 0 /\ d.key = c.key /\ d.result = c.result
      /\ d.count = c.count /\ d.gathered = c.gathered
  BY <1>1 DEF CallRecords
<1>. HIDE DEF d
<1>4. Outer(d.op) = "serialize_entries" /\ ToVisit(d) = Keys
  BY <1>3, ShardAssumption, ShardsPassed DEF Outer, ToVisit, Serializing, Shards
<1>5. [AbsCall(c) EXCEPT !.op = "serialize_entries", !.left = Keys]
        = [op |-> "serialize_entries", key |-> AbsCall(c).key, left |-> Keys,
           result |-> AbsCall(c).result, count |-> AbsCall(c).count,
           gathered |-> AbsCall(c).gathered]
  BY <1>1, AbsCallTypes, ReturnIsAbs, CallWith
<1>6. /\ AbsCall(c).key = c.key /\ AbsCall(c).result = c.result
      /\ AbsCall(c).count = c.count /\ AbsCall(c).gathered = c.gathered
  BY <1>1 DEF AbsCall
<1>7. AbsCall(d) = [op |-> "serialize_entries", key |-> c.key, left |-> Keys,
                    result |-> c.result, count |-> c.count, gathered |-> c.gathered]
  BY <1>3, <1>4 DEF AbsCall
<1>8. AbsCall(d) = [AbsCall(c) EXCEPT !.op = "serialize_entries", !.left = Keys]
  BY <1>5, <1>6, <1>7
<1>9. Abs!Goto(t, [AbsCall(c) EXCEPT !.op = "serialize_entries", !.left = Keys])
  BY <1>2, <1>8, AbsContinue DEF IInv
<1>. QED
  BY <1>2, <1>9

LEMMA ReadsVisit ==
  ASSUME IInv, NEW t \in Threads,
         LenIn(t) \/ FoldIn(t) \/ Announce(t) \/ SerializeEntries(t)
  PROVE  AbsStep
<1>. DEFINE K == KeysAt(t)
<1>1. /\ GoesOver(t) /\ ReadLockable(AtShard(t)) /\ UNCHANGED <<shards, held>>
  BY DEF LenIn, FoldIn, Announce, SerializeEntries, In, GoesOver, Traversals,
         ReadTraversals, Serializing
<1>2. ~Abs!BorrowedMut(K) /\ UNCHANGED AbsMap
  BY <1>1, VisitKeys, NobodyBorrowsMut, AbsUnchanged DEF IInv
<1>3. AbsCalls[t].op = call[t].op
  BY <1>1, VisitKeys
<1>4. NextOrReturn(t, Counted(t)) => Abs!Goes(t, K, Abs!Counted(t, K))
  BY <1>1, CountedRecord, CountsKeys, GoingOn
<1>5. NextOrReturn(t, Gathered(t)) =>
        Abs!Goes(t, K, [AbsCalls[t] EXCEPT !.gathered =
                          [k \in Keys |-> IF k \in K THEN AbsMap[k] ELSE @[k]]])
  BY <1>1, GatheredRecord, GathersKeys, GoingOn
<1>6. Finish(t) => Abs!Goto(t, Abs!Idle)
  BY AbsFinish DEF IInv
<1>7. CASE LenIn(t)
  <2>1. Abs!Visits(t, K)
    BY <1>2, <1>3, <1>4, <1>7 DEF LenIn, In, Abs!Visits, Abs!In
  <2>. QED
    BY <1>1, <2>1, Visiting
<1>8. CASE FoldIn(t)
  <2>1. Abs!Visits(t, K)
    BY <1>2, <1>3, <1>5, <1>8 DEF FoldIn, In, Abs!Visits, Abs!In
  <2>. QED
    BY <1>1, <2>1, Visiting
<1>9. CASE SerializeEntries(t)
  <2>1. Abs!Visits(t, K)
    BY <1>2, <1>3, <1>5, <1>6, <1>9 DEF SerializeEntries, In, Abs!Visits, Abs!In
  <2>. QED
    BY <1>1, <2>1, Visiting
<1>10. CASE Announce(t)
  <2>1. \/ Abs!Goto(t, [Abs!Counted(t, K) EXCEPT !.left = @ \ K])
        \/ /\ AbsCalls[t].left \subseteq K
           /\ \/ Abs!Goto(t, [Abs!Counted(t, K) EXCEPT !.op = "serialize_entries", !.left = Keys])
              \/ Abs!Goto(t, Abs!Idle)
    <3>1. CASE AtShard(t) = ShardCount - 1
      <4>1. AbsCalls[t].left \subseteq K
        BY <1>1, <3>1, VisitKeys, ShardsPassed DEF KeysAt
      <4>. QED
        BY <1>1, <1>6, <1>10, <3>1, <4>1, Totalled DEF Announce
    <3>2. CASE AtShard(t) # ShardCount - 1
      <4>1. Continue(t, [Counted(t) EXCEPT !.shard = @ + 1])
        BY <1>10, <3>2 DEF Announce
      <4>. QED
        BY <1>1, <4>1, CountedRecord, CountsKeys, NextKeys
    <3>. QED
      BY <3>1, <3>2
  <2>2. call[t].op = "serialize"
    BY <1>10 DEF Announce, In
  <2>3. Abs!Visits(t, K)
    BY <1>2, <1>3, <2>1, <2>2 DEF Abs!Visits, Abs!In
  <2>. QED
    BY <1>1, <2>3, Visiting
<1>. QED
  BY <1>7, <1>8, <1>9, <1>10

\* A shard gets another content.
LEMMA SweepMap ==
  ASSUME TableInv, NEW s \in Shards, NEW f \in [Keys -> Values \cup {None}],
         shards' = [shards EXCEPT ![s] = f]
  PROVE  AbsMap' = [k \in Keys |-> IF ShardOf[k] = s THEN f[k] ELSE AbsMap[k]]
<1>1. \A x \in Shards : shards'[x] = IF x = s THEN f ELSE shards[x]
  BY DEF TableInv, TableTypeOK, ShardTables
<1>2. \A k \in Keys : Stored(k)' = IF ShardOf[k] = s THEN f[k] ELSE AbsMap[k]
  BY <1>1, HomeOfKey, AbsMapFields DEF Stored
<1>. QED
  BY <1>2 DEF AbsMap

LEMMA MapType == TableInv => AbsMap \in [Keys -> Values \cup {None}]
BY HomeOfKey DEF AbsMap, Stored, TableInv, TableTypeOK, ShardTables

LEMMA SweepsVisit ==
  ASSUME IInv, NEW t \in Threads, Retain(t) \/ Clear(t) \/ ShrinkToFit(t)
  PROVE  AbsStep
<1>. DEFINE K == KeysAt(t)
            s == AtShard(t)
<1>1. /\ GoesOver(t) /\ WriteLockable(s) /\ UNCHANGED held
  BY DEF Retain, Clear, ShrinkToFit, RetainIn, ClearIn, ShrinkIn, In, GoesOver, Traversals
<1>2. ~Abs!Borrowed(K) /\ s \in Shards
  BY <1>1, VisitKeys, NobodyBorrows DEF IInv
<1>3. AbsCalls[t].op = call[t].op /\ AbsCalls[t] = AbsCall(call[t])
  BY <1>1, VisitKeys
<1>4. NextOrReturn(t, call[t]) => Abs!Goes(t, K, AbsCalls[t])
  BY <1>1, <1>3, CallFields, GoingOn DEF IInv
<1>5. CASE Retain(t)
  <2>1. PICK kept \in SUBSET Present(s) : \E value \in [kept -> Values] :
          shards' = [shards EXCEPT
            ![s] = [k \in Keys |-> IF k \in kept THEN value[k] ELSE None]]
    BY <1>5 DEF Retain, RetainIn
  <2>2. PICK value \in [kept -> Values] :
          shards' = [shards EXCEPT
            ![s] = [k \in Keys |-> IF k \in kept THEN value[k] ELSE None]]
    BY <2>1
  <2>. DEFINE f == [k \in Keys |-> IF k \in kept THEN value[k] ELSE None]
  <2>3. f \in [Keys -> Values \cup {None}] /\ \A k \in Keys : k \notin kept => f[k] = None
    OBVIOUS
  <2>4. shards' = [shards EXCEPT ![s] = f]
    BY <2>2
  <2>. HIDE DEF f
  <2>5. AbsMap' = [k \in Keys |-> IF ShardOf[k] = s THEN f[k] ELSE AbsMap[k]]
    BY <1>2, <2>3, <2>4, SweepMap DEF IInv
  <2>6. AbsMap' \in [Keys -> Values \cup {None}]
    BY <2>3, <2>5, MapType DEF IInv
  <2>7. ASSUME NEW k \in Keys, k \notin K \/ AbsMap[k] = None
        PROVE  AbsMap'[k] = AbsMap[k]
    <3>1. CASE ShardOf[k] = s
      <4>1. AbsMap[k] = None /\ k \notin kept
        BY <1>1, <2>1, <2>7, <3>1, VisitKeys DEF KeysAt
      <4>. QED
        BY <2>3, <2>5, <3>1, <4>1
    <3>2. CASE ShardOf[k] # s
      BY <2>5, <3>2
    <3>. QED
      BY <3>1, <3>2
  <2>8. call[t].op = "retain" /\ (Abs!Goes(t, K, AbsCalls[t]) \/ Abs!Goto(t, Abs!Idle))
    BY <1>4, <1>5, AbsFinish DEF Retain, In, IInv
  <2>9. Abs!Visits(t, K)
    BY <1>2, <1>3, <2>6, <2>7, <2>8 DEF Abs!Visits, Abs!In
  <2>. QED
    BY <1>1, <2>9, Visiting
<1>6. CASE Clear(t)
  <2>. DEFINE f == [k \in Keys |-> None]
  <2>1. f \in [Keys -> Values \cup {None}] /\ shards' = [shards EXCEPT ![s] = f]
    BY <1>6 DEF Clear, ClearIn
  <2>2. AbsMap' = [k \in Keys |-> IF ShardOf[k] = s THEN f[k] ELSE AbsMap[k]]
    BY <1>2, <2>1, SweepMap DEF IInv
  <2>3. AbsMap' = [k \in Keys |-> IF k \in K THEN None ELSE AbsMap[k]]
    BY <2>2 DEF KeysAt
  <2>4. call[t].op = "clear" /\ Abs!Goes(t, K, AbsCalls[t])
    BY <1>4, <1>6 DEF Clear, In
  <2>5. Abs!Visits(t, K)
    BY <1>2, <1>3, <2>3, <2>4 DEF Abs!Visits, Abs!In
  <2>. QED
    BY <1>1, <2>5, Visiting
<1>7. CASE ShrinkToFit(t)
  <2>1. call[t].op = "shrink_to_fit" /\ Abs!Goes(t, K, AbsCalls[t]) /\ UNCHANGED AbsMap
    BY <1>4, <1>7, AbsUnchanged DEF ShrinkToFit, ShrinkIn, In
  <2>2. Abs!Visits(t, K)
    BY <1>3, <2>1 DEF Abs!Visits, Abs!In
  <2>. QED
    BY <1>1, <2>2, Visiting
<1>. QED
  BY <1>5, <1>6, <1>7

-----------------------------------------------------------------------------
(* The refinement *)

LEMMA InitMaps == Init => Abs!Init
<1>. SUFFICES ASSUME Init PROVE Abs!Init
  OBVIOUS
<1>1. AbsMap \in [Keys -> Values \cup {None}]
  BY InitFits, MapType DEF IInv
<1>2. AbsBorrows = {}
  <2>1. \A t \in Threads, i \in Slots : held[t][i].keys = {}
    BY DEF Init, NoHandle, Handle
  <2>2. \A t \in Threads, k \in Keys, m \in Modes : <<t, k, m>> \notin AbsBorrows
    BY <2>1, BorrowsAre
  <2>. QED
    BY <2>2, BorrowTypes, Triple
<1>3. AbsCalls = [t \in Threads |-> Abs!Idle]
  BY AbsIdle DEF Init, AbsCalls
<1>. QED
  BY <1>1, <1>2, <1>3 DEF Abs!Init

LEMMA ProceedMaps ==
  ASSUME IInv, NEW t \in Threads, Proceed(t)
  PROVE  AbsStep
<1>1. CASE \/ Get(t) \/ GetMut(t) \/ GetEntry(t) \/ ContainsKey(t)
           \/ View(t) \/ InsertLookup(t) \/ RemoveLookup(t) \/ AlterLookup(t)
  BY <1>1, GetsReturn, ContainsReads, Holding, AbsActs
<1>2. CASE \/ ViewClosure(t) \/ ClosurePanics(t) \/ Insert(t) \/ Remove(t)
           \/ RemoveIf(t) \/ RemoveIfMut(t) \/ Return(t)
  BY <1>2, ViewReads, PanicUnwinds, InsertInserts, RemoveRemoves, ReturnReturns, AbsActs
<1>3. CASE \/ AlterTake(t) \/ AlterPut(t) \/ AlterPanics(t)
           \/ AlterAllNextShard(t) \/ AlterAllEnds(t)
  BY <1>3, TakingOut, PuttingBack, Aborting, AlterAllAdvances, AbsActs
<1>4. CASE IterNextShard(t) \/ IterYield(t) \/ IterEnd(t)
  BY <1>4, NextAdvances, AbsActs
<1>5. CASE \/ LenIn(t) \/ FoldIn(t) \/ Announce(t) \/ SerializeEntries(t)
           \/ Retain(t) \/ Clear(t) \/ ShrinkToFit(t)
  BY <1>5, ReadsVisit, SweepsVisit
<1>. QED
  BY <1>1, <1>2, <1>3, <1>4, <1>5 DEF Proceed

LEMMA StepMaps ==
  ASSUME IInv, NEW t \in Threads, Step(t)
  PROVE  AbsStep
BY Begins, TriesCall, NewIterators, Using, ProceedMaps, AbsActs DEF Step

LEMMA NextMaps == IInv /\ [Next]_vars => [Abs!Next]_Abs!vars
<1>. SUFFICES ASSUME IInv, [Next]_vars PROVE AbsStep
  BY DEF AbsStep, Abs!vars
<1>1. CASE UNCHANGED vars
  BY <1>1, AbsUnchanged DEF vars, AbsStep
<1>2. CASE Terminating
  BY <1>2, AbsUnchanged DEF Terminating, vars, AbsStep
<1>3. CASE \E t \in Threads : Step(t)
  BY <1>3, StepMaps
<1>. QED
  BY <1>1, <1>2, <1>3 DEF Next

\* The map does what AtomicMap promises: a call on a key takes effect at one moment
\* between its call and its return, a call on the whole map visits each key exactly
\* once, and what a thread has a reference to nobody else changes.
THEOREM ClashMapImplementsAtomicMap == Spec => ImplementsAtomicMap
<1>1. Init => Abs!Init
  BY InitMaps
<1>2. IInv /\ [Next]_vars => [Abs!Next]_Abs!vars
  BY NextMaps
<1>. QED
  BY <1>1, <1>2, Invariance, PTL DEF Spec, ImplementsAtomicMap, Abs!Spec
=============================================================================
