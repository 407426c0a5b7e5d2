------------------------------ MODULE OwnedMap ------------------------------
(***************************************************************************)
(* A map that one owner has to himself: how it is made, the calls that     *)
(* take it by exclusive reference or by value, and the forms that it goes  *)
(* through, a ClashMap, a ReadOnlyView (src/read_only.rs) and an           *)
(* OwningIter (src/iter.rs).  Nothing runs beside these calls, so each is  *)
(* one step.                                                               *)
(*                                                                         *)
(* What ClashTable takes as given is worked out here: the arithmetic on    *)
(* the shard amount, the capacity and the hashes, and that an element is   *)
(* where its key will be looked for, through every reallocation and every  *)
(* change of form.  A hash table is a set of elements, each filed under    *)
(* the hash that it was inserted with; a lookup sees the elements under    *)
(* the hash that it asks for.                                              *)
(***************************************************************************)
EXTENDS Integers, FiniteSets

CONSTANTS
  Word,          \* 2^usize::BITS
  Keys, Values,
  None,          \* no key, no value
  Hash,          \* the hash of each key
  Rooms,         \* the capacities that a hash table comes in
  Capacities,    \* bound: the capacities that are asked for
  ShardAmounts,  \* bound: the shard amounts that are asked for
  Additionals,   \* bound: the reservations that are asked for
  ForeignKeys    \* entry_ref is also given keys other than the one looked up

ASSUME NoneAssumption == None \notin Keys \cup Values
ASSUME WordAssumption == Word \in Nat /\ Word > 1
\* Word is a power of two that holds a tag of 7 bits: so each of the powers of
\* two that divide it either divides 2^7 or is a multiple of it.
ASSUME WordIsPowerOfTwo ==
  /\ Word % 128 = 0
  /\ \A d \in 1..Word : Word % d = 0 => d % 128 = 0 \/ 128 % d = 0
ASSUME HashAssumption == Hash \in [Keys -> 0..(Word - 1)]
ASSUME RoomAssumption == Rooms \subseteq Nat /\ IsFiniteSet(Rooms)
ASSUME InputAssumption ==
  /\ Capacities \subseteq 0..(Word - 1) /\ ShardAmounts \subseteq 0..(Word - 1)
  /\ Additionals \subseteq Nat
ASSUME ForeignAssumption == ForeignKeys \in BOOLEAN

VARIABLES
  checked,  \* the build checks arithmetic for overflow (debug assertions)
  form,     \* what the owner has: nothing, a map, a view or an iterator
  unit,     \* 2^shift
  shards,   \* the hash tables: their elements and their capacity
  current,  \* OwningIter: the elements left of the shard it is in
  rest,     \* OwningIter: the first of the shards that it has not begun
  reply,    \* what the last call answered, as in PlainMap
  asked     \* the capacity asked for and not yet used: in all, and per shard

vars == <<checked, form, unit, shards, current, rest, reply, asked>>

-----------------------------------------------------------------------------
(* Shards.  A shift by n bits is a multiplication or a division by 2^n.     *)

Shards == DOMAIN shards
Element(k, v, h) == [key |-> k, value |-> v, hash |-> h]
Elements == [key : Keys, value : Values, hash : 0..(Word - 1)]
ShardCount == Word \div unit

\* Of the numbers that a word holds, the powers of two are those that divide
\* the number of its values.
IsPowerOfTwo(n) == n > 0 /\ Word % n = 0

\* (mutant) The bits that are shifted out of the word still count.
ShardIndexUnwrapped(h) == (h * 128) \div unit

\* (mutant) The bits of the tag are not shifted out.
ShardIndexOverTag(h) == h \div unit

ShardIndex(h) == ((h * 128) % Word) \div unit

\* (mutant) The view does not leave the tag alone.
ViewIndexOverTag(h) == h \div unit

ViewIndex(h) == ((h * 128) % Word) \div unit

\* HashTable::find: what a lookup of k sees among the elements E.
Match(E, k) == {e \in E : e.key = k /\ e.hash = Hash[k]}
ValueIn(E) == IF E = {} THEN None ELSE (CHOOSE e \in E : TRUE).value

\* The element that get finds, in a map and in a view.
Found(k) ==
  LET s == IF form = "view" THEN ViewIndex(Hash[k]) ELSE ShardIndex(Hash[k])
  IN  Match(shards[s].elems, k)

-----------------------------------------------------------------------------
(* The hash table (hashbrown).  Its capacity is what it holds and what it   *)
(* has room for before it reallocates.                                      *)

Table(E, r) == [elems |-> E, room |-> r]
Tables == [elems : SUBSET Elements, room : Int]
Rehash(E) == {Element(e.key, e.value, Hash[e.key]) : e \in E}
HasRoom(table, n) == Cardinality(table.elems) + n <= table.room

\* A table with room for n more elements: it stays, or is rehashed, in place
\* or in a larger allocation.
Reserve(table, n) ==
  IF HasRoom(table, n) THEN {table}
  ELSE {t \in {Table(Rehash(table.elems), r) : r \in Rooms} : HasRoom(t, n)}

-----------------------------------------------------------------------------
Answer(k, v) == reply' = <<k, v>>
NoAnswer == reply' = <<None, None>>
NothingAsked == [total |-> 0, each |-> 0]

Init ==
  /\ checked \in BOOLEAN
  /\ form = "none" /\ unit = 1 /\ shards = <<>>
  /\ current = {} /\ rest = 0
  /\ reply = <<None, None>> /\ asked = NothingAsked

\* (mutant) 1 is taken for a shard amount: shift is the width of a word.
AssertShardAmountIsPositive(n) == n > 0 /\ IsPowerOfTwo(n)

AssertShardAmount(n) == n > 1 /\ IsPowerOfTwo(n)

\* (c + (n - 1)) & !(n - 1) is the last multiple of n up to the sum, which
\* wraps around if nobody checks it.
CapacityPerShard(c, n) ==
  IF c = 0 THEN 0 ELSE ((c + (n - 1)) % Word) \div n

\* with_capacity_and_shard_amount.  It panics if an assertion fails, if the
\* sum overflows and that is checked, and if a table cannot be that large.
New(c, n) ==
  /\ form = "none" /\ form' = "map"
  /\ AssertShardAmount(n)
  /\ checked /\ c # 0 => c + (n - 1) < Word
  /\ unit' = Word \div n
  /\ \E r \in Rooms :
       /\ CapacityPerShard(c, n) <= r
       /\ \A q \in Rooms : CapacityPerShard(c, n) <= q => r <= q
       /\ shards' = [s \in 0..(n - 1) |-> Table({}, r)]
  /\ asked' = [total |-> c, each |-> 0]
  /\ NoAnswer
  /\ UNCHANGED <<checked, current, rest>>

DropAll ==
  /\ form # "none" /\ form' = "none"
  /\ unit' = 1 /\ shards' = <<>> /\ current' = {} /\ rest' = 0
  /\ asked' = NothingAsked
  /\ NoAnswer
  /\ UNCHANGED checked

\* A call on a map that stays one, and may use the room that was asked for.
MapCall ==
  /\ form = "map"
  /\ asked' = NothingAsked
  /\ UNCHANGED <<checked, form, unit, current, rest>>

-----------------------------------------------------------------------------
(* Entries of an exclusive map.  entry_mut makes room for an element, even  *)
(* if the key turns out to be there or nothing is inserted in the end;      *)
(* table is the shard of the key after that.                                *)

Home(k) == ShardIndex(Hash[k])
Prepared(k) == Reserve(shards[Home(k)], 1)
Vacant(table, k) == Match(table.elems, k) = {}

PutTable(k, table) == shards' = [shards EXCEPT ![Home(k)] = table]
InsertElement(k, table, e) == PutTable(k, Table(table.elems \cup {e}, table.room))
ReplaceValue(k, table, e, v) ==
  PutTable(k, Table((table.elems \ {e}) \cup {Element(e.key, v, e.hash)}, table.room))

\* The slot of an element that is removed may stay marked as deleted, and is
\* lost until the table is rehashed.
RemoveElement(k, table, e) ==
  \E r \in {table.room, table.room - 1} : PutTable(k, Table(table.elems \ {e}, r))

\* (mutant) The key is not looked for.
InsertMutUnique(k, v) ==
  /\ MapCall
  /\ \E table \in Prepared(k) :
       InsertElement(k, table, Element(k, v, Hash[k])) /\ Answer(k, None)

\* insert_mut, EntryMut::insert and insert_entry; extend, from_iter and
\* visit_map call it for one pair after the other.
InsertMut(k, v) ==
  /\ MapCall
  /\ \E table \in Prepared(k) :
       \/ /\ Vacant(table, k)
          /\ InsertElement(k, table, Element(k, v, Hash[k])) /\ Answer(k, None)
       \/ \E e \in Match(table.elems, k) :
            ReplaceValue(k, table, e, v) /\ Answer(k, e.value)

\* or_insert, or_default, or_insert_with, and or_try_insert_with if the
\* closure succeeds.
OrInsert(k, v) ==
  /\ MapCall
  /\ \E table \in Prepared(k) :
       \/ /\ Vacant(table, k)
          /\ InsertElement(k, table, Element(k, v, Hash[k])) /\ Answer(k, v)
       \/ \E e \in Match(table.elems, k) : PutTable(k, table) /\ Answer(k, e.value)

\* The closure of or_try_insert_with fails, or the entry is dropped.
OrNothing(k) ==
  /\ MapCall
  /\ \E table \in Prepared(k) :
       PutTable(k, table) /\ Answer(k, ValueIn(Match(table.elems, k)))

\* and_modify, and get_mut and insert of an occupied entry.
AndModify(k, v) ==
  /\ MapCall
  /\ \E table \in Prepared(k) :
       \/ Vacant(table, k) /\ PutTable(k, table) /\ Answer(k, None)
       \/ \E e \in Match(table.elems, k) : ReplaceValue(k, table, e, v) /\ Answer(k, v)

\* remove and remove_entry of an occupied entry.
RemoveMut(k) ==
  /\ MapCall
  /\ \E table \in Prepared(k) : \E e \in Match(table.elems, k) :
       RemoveElement(k, table, e) /\ Answer(k, e.value)

\* entry_ref with the key q, and insert or insert_entry of what it gives.  A
\* vacant entry has no key, and is given the key k.
InsertRef(q, k, v) ==
  /\ MapCall
  /\ k = q \/ ForeignKeys
  /\ \E table \in Prepared(q) :
       \/ /\ Vacant(table, q)
          /\ InsertElement(q, table, Element(k, v, Hash[q])) /\ Answer(q, None)
       \/ \E e \in Match(table.elems, q) :
            ReplaceValue(q, table, e, v) /\ Answer(q, e.value)

-----------------------------------------------------------------------------
(* The map as a whole *)

\* The shards of S that have to allocate for n more elements, and shards in
\* which those of them that room has a capacity for have done so.
Short(S, n) == {s \in S : ~HasRoom(shards[s], n)}
Grown(room) ==
  [s \in Shards |-> IF s \in DOMAIN room
                    THEN Table(Rehash(shards[s].elems), room[s]) ELSE shards[s]]

\* (mutant) The first shard that cannot be given room is not an error.
TryReserveGivesUp(n) ==
  /\ form = "map"
  /\ \E done \in 0..ShardCount : \E room \in [Short(0..(done - 1), n) -> Rooms] :
       /\ done # ShardCount => ~HasRoom(shards[done], n)
       /\ \A s \in DOMAIN room : HasRoom(Grown(room)[s], n)
       /\ shards' = Grown(room)
       /\ asked' = [total |-> 0, each |-> n]
  /\ NoAnswer
  /\ UNCHANGED <<checked, form, unit, current, rest>>

\* One shard after the other gets room for n more elements, up to the first
\* that has to allocate and cannot.
TryReserve(n) ==
  /\ form = "map"
  /\ \E done \in 0..ShardCount : \E room \in [Short(0..(done - 1), n) -> Rooms] :
       /\ done # ShardCount => ~HasRoom(shards[done], n)
       /\ \A s \in DOMAIN room : HasRoom(Grown(room)[s], n)
       /\ shards' = Grown(room)
       /\ asked' = [total |-> 0, each |-> IF done = ShardCount THEN n ELSE 0]
  /\ NoAnswer
  /\ UNCHANGED <<checked, form, unit, current, rest>>

\* get, contains_key and get_key_value.
Get(k) ==
  /\ form \in {"map", "view"}
  /\ Answer(k, ValueIn(Found(k)))
  /\ UNCHANGED <<checked, form, unit, shards, current, rest, asked>>

IntoReadOnly ==
  /\ form = "map" /\ form' = "view"
  /\ NoAnswer
  /\ UNCHANGED <<checked, unit, shards, current, rest, asked>>

IntoInner ==
  /\ form = "view" /\ form' = "map"
  /\ NoAnswer
  /\ UNCHANGED <<checked, unit, shards, current, rest, asked>>

IntoIter ==
  /\ form = "map" /\ form' = "iter"
  /\ asked' = NothingAsked
  /\ NoAnswer
  /\ UNCHANGED <<checked, unit, shards, current, rest>>

\* The shards that the iterator has not begun and that have elements.
Unread == {s \in Shards : s >= rest /\ shards[s].elems # {}}

\* (mutant) The iterator ends at a shard that has no elements.
OwningNextStops ==
  /\ form = "iter"
  /\ \/ \E e \in current :
          current' = current \ {e} /\ Answer(e.key, e.value) /\ UNCHANGED rest
     \/ /\ current = {} /\ rest \in Unread
        /\ \E e \in shards[rest].elems :
             /\ current' = shards[rest].elems \ {e} /\ rest' = rest + 1
             /\ Answer(e.key, e.value)
     \/ current = {} /\ rest \notin Unread /\ reply' = <<>> /\ UNCHANGED <<current, rest>>
  /\ UNCHANGED <<checked, form, unit, shards, asked>>

OwningNext ==
  /\ form = "iter"
  /\ \/ \E e \in current :
          current' = current \ {e} /\ Answer(e.key, e.value) /\ UNCHANGED rest
     \/ /\ current = {}
        /\ \E s \in Unread : \E e \in shards[s].elems :
             /\ \A other \in Unread : s <= other
             /\ current' = shards[s].elems \ {e} /\ rest' = s + 1
             /\ Answer(e.key, e.value)
     \/ current = {} /\ Unread = {} /\ reply' = <<>> /\ UNCHANGED <<current, rest>>
  /\ UNCHANGED <<checked, form, unit, shards, asked>>

-----------------------------------------------------------------------------
Next ==
  \/ \E c \in Capacities, n \in ShardAmounts : New(c, n)
  \/ \E k \in Keys, v \in Values : InsertMut(k, v) \/ OrInsert(k, v) \/ AndModify(k, v)
  \/ \E k \in Keys : OrNothing(k) \/ RemoveMut(k) \/ Get(k)
  \/ \E q \in Keys, k \in Keys, v \in Values : InsertRef(q, k, v)
  \/ \E n \in Additionals : TryReserve(n)
  \/ IntoReadOnly \/ IntoInner \/ IntoIter \/ OwningNext \/ DropAll

Spec == Init /\ [][Next]_vars

-----------------------------------------------------------------------------
(* Properties *)

\* The types; the shift is less than the width of a word, which is why
\* with_shard_amount refuses 1, and there are as many shards as it selects.
TypeOK ==
  /\ checked \in BOOLEAN
  /\ form \in {"none", "map", "view", "iter"}
  /\ unit \in 1..(Word - 1)
  /\ form = "none" => Shards = {}
  /\ form # "none" => Word % unit = 0 /\ Shards = 0..(ShardCount - 1)
  /\ shards \in [Shards -> Tables]
  /\ current \subseteq Elements /\ rest \in Nat
  /\ reply \in {<<>>} \cup (Keys \cup {None}) \X (Values \cup {None})
  /\ asked \in [total : Nat, each : Nat]

\* Every hash selects a shard that is there: otherwise _determine_shard is
\* undefined behaviour in a release build.
IndexInRange ==
  form # "none" => \A h \in 0..(Word - 1) : ShardIndex(h) \in Shards /\ ViewIndex(h) \in Shards

\* Every element is under the hash of its key, in the shard which the map,
\* and the view that it may have become, select for that key.
ElementsAreFiled ==
  \A s \in Shards : \A e \in shards[s].elems :
    e.hash = Hash[e.key] /\ ShardIndex(e.hash) = s /\ ViewIndex(e.hash) = s

\* No key is in the map twice, in one shard or in two.
KeysAreUnique ==
  \A s1, s2 \in Shards : \A e1 \in shards[s1].elems, e2 \in shards[s2].elems :
    e1.key = e2.key => e1 = e2

\* What was asked for is there: with_capacity gives each shard its share of
\* the capacity, rounded up, and try_reserve, when it returns Ok, each shard
\* room for so many more.  The first fails without overflow checks, for a
\* capacity that wraps around when it is rounded up.
RoomIsAsAsked ==
  \A s \in Shards :
    /\ HasRoom(shards[s], asked.each)
    /\ \/ asked.total <= ShardCount * shards[s].room
       \/ ~checked /\ asked.total > Word - ShardCount

\* Hashes whose high 7 bits agree, which is where hashbrown takes its tag
\* from, still go to all the shards in equal parts (of the empty map: it is
\* the arithmetic that matters).
TagBitsAreLeft ==
  (form = "map" /\ ShardCount * 128 <= Word /\ \A s \in Shards : shards[s].elems = {}) =>
    \A s \in Shards :
      Cardinality({h \in 0..(Word \div 128 - 1) : ShardIndex(h) = s}) * ShardCount
        = Word \div 128

\* What the calls answer, and leave behind, is as in a map without shards,
\* for which all the forms are one.
Left == current \cup UNION {shards[s].elems : s \in {r \in Shards : r >= rest}}
Contents ==
  [k \in Keys |-> CASE form = "none" -> None
                    [] form = "iter" -> ValueIn({e \in Left : e.key = k})
                    [] OTHER -> ValueIn(Found(k))]
Plain == INSTANCE PlainMap WITH contents <- Contents
ImplementsPlainMap == Plain!Spec

\* src/mapref/entry_ref.rs:124 of insert_entry: "Sets the value of the entry
\* with the VacantEntry's key".  Afterwards that key has the value.
VacantEntrySetsItsKey ==
  [][\A q, k \in Keys, v \in Values : InsertRef(q, k, v) => Contents'[q] = v]_vars
=============================================================================
