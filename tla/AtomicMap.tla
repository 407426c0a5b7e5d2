------------------------------ MODULE AtomicMap -----------------------------
(***************************************************************************)
(* What the concurrent map promises to its callers, with no shard and no   *)
(* lock in it:                                                             *)
(*                                                                         *)
(*   - a call on one key takes effect at one moment between its call and   *)
(*     its return;                                                         *)
(*   - a call on the whole map visits every key exactly once, each at some *)
(*     moment between its call and its return, but not all at one moment;  *)
(*   - a reference borrows its key: while there is a shared borrow nobody  *)
(*     changes the key, and a mutable borrow is the only one.              *)
(***************************************************************************)
EXTENDS Naturals, FiniteSets

CONSTANTS Threads, Keys, Values, None

VARIABLES
  map,      \* the value of each key, or None
  borrows,  \* <<t, k, m>>: a reference that thread t has to key k
  call      \* the call that each thread is in

vars == <<map, borrows, call>>

Nothing == [k \in Keys |-> None]
Call(op, k, left, result) ==
  [op |-> op, key |-> k, left |-> left, result |-> result,
   count |-> 0, gathered |-> Nothing]
Idle == Call("idle", None, {}, None)

Goto(t, c) == call' = [call EXCEPT ![t] = c]
Return(t, result) == Goto(t, Call("return", None, {}, result))
In(t, op) == call[t].op = op

Borrowed(K) == \E t \in Threads, k \in K, m \in {"shared", "mut"} : <<t, k, m>> \in borrows
BorrowedMut(K) == \E t \in Threads, k \in K : <<t, k, "mut">> \in borrows
Borrow(t, K, m) ==
  /\ IF m = "mut" THEN ~Borrowed(K) ELSE ~BorrowedMut(K)
  /\ borrows' = borrows \cup ({t} \X K \X {m})
Release(t, K, m) == borrows' = borrows \ ({t} \X K \X {m})

Init ==
  /\ map \in [Keys -> Values \cup {None}]
  /\ borrows = {}
  /\ call = [t \in Threads |-> Idle]

-----------------------------------------------------------------------------
OneKey == {"get", "get_mut", "entry", "view", "contains_key", "insert", "remove",
           "remove_if", "remove_if_mut", "alter"}
WholeMap == {"len", "fold", "serialize", "retain", "clear", "shrink_to_fit"}

Invoke(t) ==
  /\ call[t] = Idle
  /\ \/ \E op \in OneKey, k \in Keys : Goto(t, Call(op, k, {}, None))
     \/ \E op \in WholeMap : Goto(t, Call(op, None, Keys, None))
     \/ \E op \in {"next", "alter_all"} : Goto(t, Call(op, None, {}, None))
  /\ UNCHANGED <<map, borrows>>

\* A lookup of a key that is there hands out a reference.
Lookup(t, k, m) == IF map[k] # None THEN Borrow(t, {k}, m) ELSE UNCHANGED borrows

GetReturns(t) ==
  /\ \/ In(t, "get") /\ Lookup(t, call[t].key, "shared")
     \/ In(t, "get_mut") /\ Lookup(t, call[t].key, "mut")
     \/ In(t, "entry") /\ Borrow(t, {call[t].key}, "mut")
  /\ Goto(t, Idle)
  /\ UNCHANGED map

TryCall(t) ==
  /\ call[t] = Idle
  /\ \E k \in Keys : Lookup(t, k, "shared") \/ Lookup(t, k, "mut") \/ Borrow(t, {k}, "mut")
  /\ UNCHANGED <<map, call>>

\* A call may borrow its key for a while before it takes effect.
Hold(t) ==
  /\ \/ In(t, "view") /\ Borrow(t, {call[t].key}, "shared")
     \/ /\ call[t].op \in {"insert", "remove", "remove_if", "remove_if_mut", "alter"}
        /\ Borrow(t, {call[t].key}, "mut")
  /\ UNCHANGED <<map, call>>

Reads(t) ==
  /\ In(t, "view") \/ In(t, "contains_key")
  /\ ~BorrowedMut({call[t].key})
  /\ Return(t, map[call[t].key])
  /\ \/ UNCHANGED borrows
     \/ In(t, "view") /\ Release(t, {call[t].key}, "shared")
  /\ UNCHANGED map

\* The calls that change the key hold it when they do.
Holds(t) == <<t, call[t].key, "mut">> \in borrows
Change(t, v) ==
  /\ Holds(t) /\ Release(t, {call[t].key}, "mut")
  /\ map' = [map EXCEPT ![call[t].key] = v]

Inserts(t) ==
  /\ In(t, "insert")
  /\ \E v \in Values : Change(t, v)
  /\ Return(t, map[call[t].key])

Removes(t) ==
  /\ call[t].op \in {"remove", "remove_if", "remove_if_mut"} /\ map[call[t].key] # None
  /\ \/ Change(t, None) /\ Return(t, map[call[t].key])
     \/ In(t, "remove_if") /\ Change(t, map[call[t].key]) /\ Return(t, None)
     \/ In(t, "remove_if_mut") /\ Change(t, None) /\ \E v \in Values : Return(t, v)
     \/ In(t, "remove_if_mut") /\ Return(t, None) /\ \E v \in Values : Change(t, v)

RemovesNothing(t) ==
  /\ call[t].op \in {"remove", "remove_if", "remove_if_mut"} /\ map[call[t].key] = None
  /\ Return(t, None)
  /\ UNCHANGED <<map, borrows>>

Alters(t) ==
  /\ In(t, "alter") /\ Goto(t, Idle)
  /\ IF map[call[t].key] = None
     THEN UNCHANGED <<map, borrows>>
     ELSE \E v \in Values : Change(t, v)

\* A closure of the caller panicked: the call ends and has changed nothing but
\* the value, if the closure had that to change.
Unwinds(t) ==
  /\ Goto(t, Idle)
  /\ \/ /\ In(t, "view") /\ (UNCHANGED borrows \/ Release(t, {call[t].key}, "shared"))
        /\ UNCHANGED map
     \/ In(t, "remove_if") /\ Change(t, map[call[t].key])
     \/ In(t, "remove_if_mut") /\ map[call[t].key] # None /\ \E v \in Values : Change(t, v)

Counted(t, K) == [call[t] EXCEPT !.count = @ + Cardinality({k \in K : map[k] # None})]

\* A call on the whole map visits a set of keys that are left; the closure of
\* retain may panic, and then the other keys are not visited.  serialize visits
\* every key twice, to count and to copy it, unless the serializer fails.
Goes(t, K, c) ==
  \/ Goto(t, [c EXCEPT !.left = @ \ K])
  \/ call[t].left \subseteq K /\ Goto(t, [c EXCEPT !.op = "return", !.left = {}])

Visits(t, K) ==
  \/ /\ In(t, "len") /\ ~BorrowedMut(K)
     /\ Goes(t, K, Counted(t, K))
     /\ UNCHANGED map
  \/ /\ In(t, "fold") \/ In(t, "serialize_entries")
     /\ ~BorrowedMut(K)
     /\ Goes(t, K, [call[t] EXCEPT !.gathered =
                      [k \in Keys |-> IF k \in K THEN map[k] ELSE @[k]]])
     /\ UNCHANGED map
  \/ In(t, "serialize_entries") /\ Goto(t, Idle) /\ UNCHANGED map
  \/ /\ In(t, "serialize") /\ ~BorrowedMut(K)
     /\ LET totalled == Counted(t, K) IN
        \/ Goto(t, [totalled EXCEPT !.left = @ \ K])
        \/ /\ call[t].left \subseteq K
           /\ Goto(t, [totalled EXCEPT !.op = "serialize_entries", !.left = Keys]) \/ Goto(t, Idle)
     /\ UNCHANGED map
  \/ /\ In(t, "retain") /\ ~Borrowed(K)
     /\ map' \in [Keys -> Values \cup {None}]
     /\ \A k \in Keys : k \notin K \/ map[k] = None => map'[k] = map[k]
     /\ Goes(t, K, call[t]) \/ Goto(t, Idle)
  \/ /\ In(t, "clear") /\ ~Borrowed(K)
     /\ map' = [k \in Keys |-> IF k \in K THEN None ELSE map[k]]
     /\ Goes(t, K, call[t])
  \/ /\ In(t, "shrink_to_fit") /\ Goes(t, K, call[t])
     /\ UNCHANGED map

\* An iterator borrows some keys that are there, to yield them one by one;
\* alter_all changes them one by one.
Advances(t) ==
  \/ /\ In(t, "next") \/ In(t, "alter_all")
     /\ \E K \in SUBSET {k \in Keys : map[k] # None}, m \in {"shared", "mut"} :
          Borrow(t, K, m)
     /\ UNCHANGED <<map, call>>
  \/ /\ In(t, "next") \/ In(t, "alter_all")
     /\ Goto(t, Idle) /\ UNCHANGED <<map, borrows>>
  \/ /\ In(t, "alter_all")
     /\ \E k \in Keys, v \in Values :
          /\ <<t, k, "mut">> \in borrows /\ Release(t, {k}, "mut")
          /\ map' = [map EXCEPT ![k] = v]
     /\ UNCHANGED call

Returns(t) == In(t, "return") /\ Goto(t, Idle) /\ UNCHANGED <<map, borrows>>

\* Between its calls a thread drops references, changes keys that it has a
\* mutable borrow of, and turns a mutable borrow into a shared one.
Drops(t) ==
  /\ \E B \in SUBSET {b \in borrows : b[1] = t} : borrows' = borrows \ B
  /\ UNCHANGED <<map, call>>

Writes(t, k) ==
  /\ <<t, k, "mut">> \in borrows
  /\ \E v \in Values : map' = [map EXCEPT ![k] = v]
  /\ UNCHANGED borrows \/ Release(t, {k}, "mut")
  /\ UNCHANGED call

Takes(t, k) ==
  /\ <<t, k, "mut">> \in borrows /\ Release(t, {k}, "mut")
  /\ map' = [map EXCEPT ![k] = None]
  /\ UNCHANGED call

Downgrades(t, k) ==
  /\ <<t, k, "mut">> \in borrows
  /\ borrows' = (borrows \ {<<t, k, "mut">>}) \cup {<<t, k, "shared">>}
  /\ UNCHANGED <<map, call>>

Uses(t) ==
  /\ call[t] = Idle
  /\ Drops(t) \/ \E k \in Keys : Writes(t, k) \/ Takes(t, k) \/ Downgrades(t, k)

-----------------------------------------------------------------------------
Next ==
  \E t \in Threads :
    \/ Invoke(t) \/ GetReturns(t) \/ TryCall(t) \/ Hold(t) \/ Reads(t)
    \/ Inserts(t) \/ Removes(t) \/ RemovesNothing(t) \/ Alters(t) \/ Unwinds(t)
    \/ \E K \in SUBSET call[t].left : UNCHANGED borrows /\ Visits(t, K)
    \/ Advances(t) \/ Returns(t) \/ Uses(t)

Spec == Init /\ [][Next]_vars
=============================================================================
