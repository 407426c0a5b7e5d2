-------------------------- MODULE OwnedMap_proofs --------------------------
(***************************************************************************)
(* Theorems about OwnedMap, for words, hashes and shard amounts of every   *)
(* size.                                                                   *)
(***************************************************************************)
EXTENDS OwnedMap, FiniteSetTheorems, TLAPS

-----------------------------------------------------------------------------
(* Arithmetic *)

\* What is below a multiple of d is, divided by d, below the factor.
LEMMA QuotientBound ==
  ASSUME NEW d \in Nat, d > 0, NEW q \in Nat, NEW x \in Nat, x < d * q
  PROVE  x \div d \in 0..(q - 1)
<1>1. x \div d \in Nat /\ d * (x \div d) <= x
  OBVIOUS
<1>2. CASE x \div d >= q
  <2>1. d * (x \div d) >= d * q
    BY <1>1, <1>2
  <2>. QED
    BY <1>1, <2>1
<1>. QED
  BY <1>1, <1>2

\* shift selects as many shards as there are: the index is in range.
LEMMA IndexBound ==
  ASSUME unit \in 1..(Word - 1), Word % unit = 0, NEW h \in Nat
  PROVE  ShardCount \in Nat /\ ShardIndex(h) \in 0..(ShardCount - 1)
<1>. USE WordAssumption
<1>1. ShardCount \in Nat /\ Word = unit * ShardCount
  BY DEF ShardCount
<1>2. (h * 128) % Word \in Nat /\ (h * 128) % Word < Word
  OBVIOUS
<1>. QED
  BY <1>1, <1>2, QuotientBound DEF ShardIndex

-----------------------------------------------------------------------------
(* Types *)

LEMMA HomeIsAShard ==
  ASSUME TypeOK, form # "none", NEW k \in Keys
  PROVE  Home(k) \in Shards
<1>1. Hash[k] \in Nat
  BY HashAssumption, WordAssumption
<1>. QED
  BY <1>1, IndexBound DEF TypeOK, Home

\* A table that has been given room holds the old elements, under the
\* hashes that they had or that their keys have.
LEMMA ReservedTable ==
  ASSUME NEW table \in Tables, NEW n, NEW t \in Reserve(table, n)
  PROVE  /\ t \in Tables
         /\ HasRoom(t, n)
         /\ t.elems = table.elems \/ t.elems = Rehash(table.elems)
<1>1. CASE HasRoom(table, n)
  BY <1>1 DEF Reserve
<1>2. CASE ~HasRoom(table, n)
  <2>1. PICK r \in Rooms : t = Table(Rehash(table.elems), r) /\ HasRoom(t, n)
    BY <1>2 DEF Reserve
  <2>2. r \in Int
    BY RoomAssumption
  <2>3. Rehash(table.elems) \subseteq Elements
    BY HashAssumption DEF Rehash, Element, Elements, Tables
  <2>. QED
    BY <2>1, <2>2, <2>3 DEF Table, Tables
<1>. QED
  BY <1>1, <1>2

LEMMA PreparedTable ==
  ASSUME TypeOK, form = "map", NEW k \in Keys, NEW t \in Prepared(k)
  PROVE  /\ t \in Tables
         /\ HasRoom(t, 1)
         /\ \/ t.elems = shards[Home(k)].elems
            \/ t.elems = Rehash(shards[Home(k)].elems)
<1>1. shards[Home(k)] \in Tables
  BY HomeIsAShard DEF TypeOK
<1>. QED
  BY <1>1, ReservedTable DEF Prepared

LEMMA ValueType ==
  ASSUME NEW E \in SUBSET Elements
  PROVE  ValueIn(E) \in Values \cup {None}
BY DEF ValueIn, Elements

\* What is common to the calls on one key.
LEMMA KeyCallType ==
  ASSUME TypeOK, MapCall, NEW k \in Keys, NEW t \in Tables, PutTable(k, t),
         NEW j \in Keys, NEW v \in Values \cup {None}, Answer(j, v)
  PROVE  TypeOK'
<1>1. shards' \in [Shards -> Tables] /\ Shards' = Shards
  <2>1. shards \in [Shards -> Tables] /\ Home(k) \in Shards
    BY HomeIsAShard DEF TypeOK, MapCall
  <2>2. shards' = [shards EXCEPT ![Home(k)] = t]
    BY DEF PutTable
  <2>. QED
    BY <2>1, <2>2 DEF Shards
<1>2. asked' \in [total : Nat, each : Nat]
  BY DEF MapCall, NothingAsked
<1>3. reply' \in (Keys \cup {None}) \X (Values \cup {None})
  BY DEF Answer
<1>4. ShardCount' = ShardCount
  BY DEF MapCall, ShardCount
<1>. QED
  BY <1>1, <1>2, <1>3, <1>4 DEF TypeOK, MapCall

LEMMA NewElement ==
  ASSUME NEW t \in Tables, NEW q \in Keys, NEW k \in Keys, NEW v \in Values
  PROVE  Table(t.elems \cup {Element(k, v, Hash[q])}, t.room) \in Tables
BY HashAssumption DEF Table, Tables, Element, Elements

LEMMA NewValue ==
  ASSUME NEW t \in Tables, NEW e \in t.elems, NEW v \in Values
  PROVE  /\ Table((t.elems \ {e}) \cup {Element(e.key, v, e.hash)}, t.room) \in Tables
         /\ e.value \in Values
BY DEF Table, Tables, Element, Elements

\* The calls on one key, each seen as a new table for the shard of the key:
\* the table that has room, with an element added, replaced, removed or
\* none of them.
KeyCall(k) ==
  \/ \E v \in Values : InsertMut(k, v)
  \/ \E v \in Values : OrInsert(k, v)
  \/ \E v \in Values : AndModify(k, v)
  \/ OrNothing(k)
  \/ RemoveMut(k)
  \/ \E j \in Keys, v \in Values : InsertRef(k, j, v)

LEMMA KeyCallShape ==
  ASSUME TypeOK, NEW k \in Keys, KeyCall(k)
  PROVE  /\ MapCall
         /\ \E t \in Prepared(k), new \in Tables, answer \in Values \cup {None} :
              /\ PutTable(k, new)
              /\ Answer(k, answer)
              /\ \/ /\ new = t
                    /\ \/ answer = ValueIn(Match(t.elems, k))
                       \/ \E e \in Match(t.elems, k) : answer = e.value
                 \/ \E e \in Match(t.elems, k) :
                      new.elems = t.elems \ {e} /\ answer = e.value
                 \/ \E e \in Match(t.elems, k), v \in Values :
                      /\ new.elems = (t.elems \ {e}) \cup {Element(e.key, v, e.hash)}
                      /\ answer \in {e.value, v}
                 \/ \E j \in Keys, v \in Values :
                      /\ j = k \/ ForeignKeys
                      /\ Match(t.elems, k) = {}
                      /\ new.elems = t.elems \cup {Element(j, v, Hash[k])}
                      /\ answer \in {None, v}
<1>1. MapCall
  BY DEF KeyCall, InsertMut, OrInsert, AndModify, OrNothing, RemoveMut, InsertRef
<1>2. form = "map"
  BY <1>1 DEF MapCall
<1>3. \A t \in Prepared(k) : t \in Tables /\ HasRoom(t, 1)
  BY <1>2, PreparedTable
<1>4. \A t : Match(t.elems, k) \subseteq t.elems
  BY DEF Match
<1>5. ASSUME NEW t \in Prepared(k), NEW e \in Match(t.elems, k), NEW v \in Values
      PROVE  Table((t.elems \ {e}) \cup {Element(e.key, v, e.hash)}, t.room) \in Tables
  BY <1>3, <1>4, <1>5, NewValue
<1>5a. ASSUME NEW t \in Prepared(k), NEW e \in Match(t.elems, k)
      PROVE  e \in t.elems /\ e.value \in Values
  BY <1>3, <1>4, <1>5a DEF Tables, Elements
<1>6. ASSUME NEW t \in Prepared(k), NEW j \in Keys, NEW v \in Values
      PROVE  Table(t.elems \cup {Element(j, v, Hash[k])}, t.room) \in Tables
  BY <1>3, <1>6, NewElement
<1>7. CASE \E v \in Values : InsertMut(k, v)
  <2>1. PICK v \in Values, t \in Prepared(k) :
          \/ /\ Vacant(t, k)
             /\ InsertElement(k, t, Element(k, v, Hash[k])) /\ Answer(k, None)
          \/ \E e \in Match(t.elems, k) :
               ReplaceValue(k, t, e, v) /\ Answer(k, e.value)
    BY <1>7 DEF InsertMut
  <2>2. CASE /\ Vacant(t, k)
             /\ InsertElement(k, t, Element(k, v, Hash[k])) /\ Answer(k, None)
    BY <1>1, <1>6, <2>2 DEF Vacant, InsertElement, Table
  <2>3. CASE \E e \in Match(t.elems, k) :
               ReplaceValue(k, t, e, v) /\ Answer(k, e.value)
    BY <1>1, <1>5, <1>5a, <2>3 DEF ReplaceValue, Table
  <2>. QED
    BY <2>1, <2>2, <2>3
<1>8. CASE \E v \in Values : OrInsert(k, v)
  <2>1. PICK v \in Values, t \in Prepared(k) :
          \/ /\ Vacant(t, k)
             /\ InsertElement(k, t, Element(k, v, Hash[k])) /\ Answer(k, v)
          \/ \E e \in Match(t.elems, k) : PutTable(k, t) /\ Answer(k, e.value)
    BY <1>8 DEF OrInsert
  <2>2. CASE /\ Vacant(t, k)
             /\ InsertElement(k, t, Element(k, v, Hash[k])) /\ Answer(k, v)
    BY <1>1, <1>6, <2>2 DEF Vacant, InsertElement, Table
  <2>3. CASE \E e \in Match(t.elems, k) : PutTable(k, t) /\ Answer(k, e.value)
    BY <1>1, <1>3, <1>5, <1>5a, <2>3
  <2>. QED
    BY <2>1, <2>2, <2>3
<1>9. CASE \E v \in Values : AndModify(k, v)
  <2>1. PICK v \in Values, t \in Prepared(k) :
          \/ Vacant(t, k) /\ PutTable(k, t) /\ Answer(k, None)
          \/ \E e \in Match(t.elems, k) : ReplaceValue(k, t, e, v) /\ Answer(k, v)
    BY <1>9 DEF AndModify
  <2>2. CASE Vacant(t, k) /\ PutTable(k, t) /\ Answer(k, None)
    BY <1>1, <1>3, <2>2 DEF Vacant, ValueIn
  <2>3. CASE \E e \in Match(t.elems, k) : ReplaceValue(k, t, e, v) /\ Answer(k, v)
    BY <1>1, <1>5, <1>5a, <2>3 DEF ReplaceValue, Table
  <2>. QED
    BY <2>1, <2>2, <2>3
<1>10. CASE OrNothing(k)
  <2>1. PICK t \in Prepared(k) :
          PutTable(k, t) /\ Answer(k, ValueIn(Match(t.elems, k)))
    BY <1>10 DEF OrNothing
  <2>2. ValueIn(Match(t.elems, k)) \in Values \cup {None}
    BY <1>3, <1>4, ValueType DEF Tables
  <2>. QED
    BY <1>1, <1>3, <2>1, <2>2
<1>11. CASE RemoveMut(k)
  <2>0. PICK t \in Prepared(k) :
          \E e \in Match(t.elems, k) : RemoveElement(k, t, e) /\ Answer(k, e.value)
    BY <1>11 DEF RemoveMut
  <2>1. PICK e \in Match(t.elems, k) : RemoveElement(k, t, e) /\ Answer(k, e.value)
    BY <2>0
  <2>2. PICK r \in {t.room, t.room - 1} : PutTable(k, Table(t.elems \ {e}, r))
    BY <2>1 DEF RemoveElement
  <2>3. Table(t.elems \ {e}, r) \in Tables
    BY <1>3 DEF Table, Tables
  <2>. QED
    BY <1>1, <1>5, <1>5a, <2>1, <2>2, <2>3 DEF Table
<1>12. CASE \E j \in Keys, v \in Values : InsertRef(k, j, v)
  <2>1. PICK j \in Keys, v \in Values : InsertRef(k, j, v)
    BY <1>12
  <2>2. PICK t \in Prepared(k) :
          \/ /\ Vacant(t, k)
             /\ InsertElement(k, t, Element(j, v, Hash[k])) /\ Answer(k, None)
          \/ \E e \in Match(t.elems, k) :
               ReplaceValue(k, t, e, v) /\ Answer(k, e.value)
    BY <2>1 DEF InsertRef
  <2>3. j = k \/ ForeignKeys
    BY <2>1 DEF InsertRef
  <2>4. CASE /\ Vacant(t, k)
             /\ InsertElement(k, t, Element(j, v, Hash[k])) /\ Answer(k, None)
    BY <1>1, <1>6, <2>3, <2>4 DEF Vacant, InsertElement, Table
  <2>5. CASE \E e \in Match(t.elems, k) :
               ReplaceValue(k, t, e, v) /\ Answer(k, e.value)
    BY <1>1, <1>5, <1>5a, <2>5 DEF ReplaceValue, Table
  <2>. QED
    BY <2>2, <2>4, <2>5
<1>. QED
  BY <1>7, <1>8, <1>9, <1>10, <1>11, <1>12 DEF KeyCall

LEMMA KeyCallKeepsTypes ==
  ASSUME TypeOK, NEW k \in Keys, KeyCall(k)
  PROVE  TypeOK'
<1>1. MapCall
  BY KeyCallShape
<1>2. PICK new \in Tables, answer \in Values \cup {None} :
        PutTable(k, new) /\ Answer(k, answer)
  BY KeyCallShape
<1>. QED
  BY <1>1, <1>2, KeyCallType

\* A divisor of the word and its quotient determine each other.
LEMMA UnitOfShardAmount ==
  ASSUME NEW n \in Nat, n > 1, Word % n = 0
  PROVE  /\ Word \div n \in 1..(Word - 1)
         /\ Word % (Word \div n) = 0
         /\ Word \div (Word \div n) = n
<1>. DEFINE u == Word \div n
<1>1. u \in Nat /\ Word = n * u
  BY WordAssumption
<1>. HIDE DEF u
<1>2. u > 0
  BY <1>1, WordAssumption
<1>3. u < Word
  <2>1. n * u >= 2 * u
    BY <1>1
  <2>. QED
    BY <1>1, <1>2, <2>1
<1>4. (u * n) % u = 0 /\ (u * n) \div u = n
  BY <1>1, <1>2
<1>5. Word % u = 0 /\ Word \div u = n
  BY <1>1, <1>4
<1>. QED
  BY <1>1, <1>2, <1>3, <1>5, WordAssumption DEF u

LEMMA NewKeepsTypes ==
  ASSUME TypeOK, NEW c \in Capacities, NEW n \in ShardAmounts, New(c, n)
  PROVE  /\ TypeOK'
         /\ Shards' = 0..(n - 1)
         /\ \E r \in Rooms : \A s \in 0..(n - 1) : shards'[s] = Table({}, r)
<1>1. n \in Nat /\ n > 1 /\ Word % n = 0
  BY InputAssumption, WordAssumption DEF New, AssertShardAmount, IsPowerOfTwo
<1>2. unit' = Word \div n
  BY DEF New
<1>3. unit' \in 1..(Word - 1) /\ Word % unit' = 0 /\ ShardCount' = n
  BY <1>1, <1>2, UnitOfShardAmount DEF ShardCount
<1>4. PICK r \in Rooms : shards' = [s \in 0..(n - 1) |-> Table({}, r)]
  BY DEF New
<1>5. Table({}, r) \in Tables
  BY RoomAssumption DEF Table, Tables
<1>6. Shards' = 0..(n - 1) /\ shards' \in [0..(n - 1) -> Tables]
  BY <1>4, <1>5 DEF Shards
<1>7. asked' \in [total : Nat, each : Nat]
  BY InputAssumption DEF New
<1>8. reply' \in (Keys \cup {None}) \X (Values \cup {None})
  BY DEF New, NoAnswer
<1>. QED
  BY <1>3, <1>4, <1>6, <1>7, <1>8 DEF TypeOK, New

\* What try_reserve makes of the shards.
LEMMA GrownShards ==
  ASSUME shards \in [Shards -> Tables], NEW room,
         \A s \in DOMAIN room : room[s] \in Rooms
  PROVE  /\ Grown(room) \in [Shards -> Tables]
         /\ \A s \in Shards : \/ Grown(room)[s].elems = shards[s].elems
                              \/ Grown(room)[s].elems = Rehash(shards[s].elems)
<1>1. ASSUME NEW s \in Shards
      PROVE  Rehash(shards[s].elems) \subseteq Elements
  BY <1>1, HashAssumption DEF Rehash, Element, Elements, Tables
<1>2. ASSUME NEW s \in Shards
      PROVE  /\ Grown(room)[s] \in Tables
             /\ \/ Grown(room)[s].elems = shards[s].elems
                \/ Grown(room)[s].elems = Rehash(shards[s].elems)
  <2>1. CASE s \in DOMAIN room
    <3>1. Grown(room)[s] = Table(Rehash(shards[s].elems), room[s])
      BY <1>2, <2>1 DEF Grown
    <3>2. room[s] \in Int
      <4>1. room[s] \in Rooms
        BY <2>1
      <4>2. \A r \in Rooms : r \in Int
        BY RoomAssumption
      <4>. QED
        BY <4>1, <4>2
    <3>. QED
      BY <1>1, <1>2, <3>1, <3>2 DEF Table, Tables
  <2>2. CASE s \notin DOMAIN room
    <3>1. Grown(room)[s] = shards[s]
      BY <1>2, <2>2 DEF Grown
    <3>. QED
      BY <1>2, <3>1
  <2>. QED
    BY <2>1, <2>2
<1>3. Grown(room) = [s \in Shards |-> Grown(room)[s]]
  BY DEF Grown
<1>. QED
  BY <1>2, <1>3

LEMMA TryReserveShape ==
  ASSUME TypeOK, NEW n \in Additionals, TryReserve(n)
  PROVE  /\ shards' \in [Shards -> Tables] /\ Shards' = Shards
         /\ \A s \in Shards : \/ shards'[s].elems = shards[s].elems
                              \/ shards'[s].elems = Rehash(shards[s].elems)
         /\ asked' \in [total : {0}, each : {0, n}]
<1>1. PICK done \in 0..ShardCount :
        \E room \in [Short(0..(done - 1), n) -> Rooms] :
          /\ shards' = Grown(room)
          /\ asked' = [total |-> 0, each |-> IF done = ShardCount THEN n ELSE 0]
  BY DEF TryReserve
<1>2. PICK room \in [Short(0..(done - 1), n) -> Rooms] :
        /\ shards' = Grown(room)
        /\ asked' = [total |-> 0, each |-> IF done = ShardCount THEN n ELSE 0]
  BY <1>1
<1>3. /\ Grown(room) \in [Shards -> Tables]
      /\ \A s \in Shards : \/ Grown(room)[s].elems = shards[s].elems
                           \/ Grown(room)[s].elems = Rehash(shards[s].elems)
  BY <1>2, GrownShards DEF TypeOK
<1>4. Shards' = Shards
  BY <1>2, <1>3 DEF Shards
<1>. QED
  BY <1>2, <1>3, <1>4

LEMMA OwningNextKeepsTypes ==
  ASSUME TypeOK, OwningNext
  PROVE  TypeOK'
<1>1. ShardCount' = ShardCount /\ Shards' = Shards
  BY DEF OwningNext, ShardCount, Shards
<1>2. ASSUME NEW e \in Elements, Answer(e.key, e.value)
      PROVE  reply' \in (Keys \cup {None}) \X (Values \cup {None})
  BY <1>2 DEF Answer, Elements
<1>3. CASE \E e \in current :
             current' = current \ {e} /\ Answer(e.key, e.value) /\ UNCHANGED rest
  BY <1>1, <1>2, <1>3 DEF OwningNext, TypeOK
<1>4. CASE \E s \in Unread : \E e \in shards[s].elems :
             /\ current' = shards[s].elems \ {e} /\ rest' = s + 1
             /\ Answer(e.key, e.value)
  <2>1. PICK s \in Unread : \E e \in shards[s].elems :
             /\ current' = shards[s].elems \ {e} /\ rest' = s + 1
             /\ Answer(e.key, e.value)
    BY <1>4
  <2>2. s \in Shards /\ s \in Nat
    BY DEF Unread, OwningNext, TypeOK
  <2>3. shards[s].elems \subseteq Elements
    BY <2>2 DEF TypeOK, Tables
  <2>. QED
    BY <1>1, <1>2, <2>1, <2>2, <2>3 DEF OwningNext, TypeOK
<1>5. CASE current = {} /\ Unread = {} /\ reply' = <<>> /\ UNCHANGED <<current, rest>>
  BY <1>1, <1>5 DEF OwningNext, TypeOK
<1>. QED
  BY <1>3, <1>4, <1>5 DEF OwningNext

LEMMA DropKeepsTypes ==
  ASSUME TypeOK, DropAll
  PROVE  TypeOK' /\ Shards' = {}
<1>1. Shards' = {} /\ shards' \in [{} -> Tables]
  BY DEF DropAll, Shards
<1>2. reply' \in (Keys \cup {None}) \X (Values \cup {None})
  BY DEF DropAll, NoAnswer
<1>3. unit' \in 1..(Word - 1)
  BY WordAssumption DEF DropAll
<1>. QED
  BY <1>1, <1>2, <1>3 DEF TypeOK, DropAll, NothingAsked

\* The calls that change nothing in the shards.
LEMMA QuietKeepsTypes ==
  ASSUME TypeOK,
         IntoReadOnly \/ IntoInner \/ IntoIter \/ (\E k \in Keys : Get(k)) \/ UNCHANGED vars
  PROVE  /\ TypeOK'
         /\ UNCHANGED shards
<1>1. ShardCount' = ShardCount /\ Shards' = Shards
  BY DEF IntoReadOnly, IntoInner, IntoIter, Get, vars, ShardCount, Shards
<1>2. CASE \E k \in Keys : Get(k)
  <2>1. PICK k \in Keys : Get(k)
    BY <1>2
  <2>2. ValueIn(Found(k)) \in Values \cup {None}
    <3>1. Home(k) \in Shards /\ ViewIndex(Hash[k]) \in Shards
      BY <2>1, HomeIsAShard DEF Get, Home, ViewIndex, ShardIndex
    <3>2. Found(k) \subseteq Elements
      BY <3>1 DEF Found, Match, Home, TypeOK, Tables
    <3>. QED
      BY <3>2, ValueType
  <2>. QED
    BY <1>1, <2>1, <2>2 DEF Get, Answer, TypeOK
<1>3. CASE IntoReadOnly \/ IntoInner \/ IntoIter
  BY <1>1, <1>3 DEF IntoReadOnly, IntoInner, IntoIter, NoAnswer, NothingAsked, TypeOK
<1>4. CASE UNCHANGED vars
  BY <1>1, <1>4 DEF vars, TypeOK
<1>. QED
  BY <1>2, <1>3, <1>4

LEMMA TryReserveKeepsTypes ==
  ASSUME TypeOK, NEW n \in Additionals, TryReserve(n)
  PROVE  TypeOK'
<1>1. shards' \in [Shards -> Tables] /\ Shards' = Shards
  BY TryReserveShape
<1>2. asked' \in [total : Nat, each : Nat]
  BY TryReserveShape, InputAssumption
<1>3. reply' \in (Keys \cup {None}) \X (Values \cup {None})
  BY DEF TryReserve, NoAnswer
<1>4. ShardCount' = ShardCount
  BY DEF TryReserve, ShardCount
<1>. QED
  BY <1>1, <1>2, <1>3, <1>4 DEF TypeOK, TryReserve

\* The steps, sorted by what they do to the shards.
LEMMA NextCases ==
  ASSUME [Next]_vars
  PROVE  \/ \E c \in Capacities, n \in ShardAmounts : New(c, n)
         \/ \E k \in Keys : KeyCall(k)
         \/ \E n \in Additionals : TryReserve(n)
         \/ OwningNext
         \/ DropAll
         \/ \/ IntoReadOnly \/ IntoInner \/ IntoIter
            \/ (\E k \in Keys : Get(k)) \/ UNCHANGED vars
BY DEF Next, KeyCall

LEMMA InitTypes ==
  ASSUME Init
  PROVE  TypeOK /\ Shards = {}
<1>1. Shards = {} /\ shards \in [{} -> Tables]
  BY DEF Init, Shards
<1>2. reply \in (Keys \cup {None}) \X (Values \cup {None})
  BY DEF Init
<1>. QED
  BY <1>1, <1>2, WordAssumption DEF TypeOK, Init, NothingAsked

LEMMA NextKeepsTypes ==
  ASSUME TypeOK, [Next]_vars
  PROVE  TypeOK'
BY NextCases, NewKeepsTypes, KeyCallKeepsTypes, TryReserveKeepsTypes,
   OwningNextKeepsTypes, DropKeepsTypes, QuietKeepsTypes

\* Every variable keeps its type: in particular the shift stays below the
\* width of a word, and the number of shards the one that it selects.
THEOREM TypeCorrect == Spec => []TypeOK
<1>1. Init => TypeOK
  BY InitTypes
<1>2. TypeOK /\ [Next]_vars => TypeOK'
  BY NextKeepsTypes
<1>. QED
  BY <1>1, <1>2, PTL DEF Spec

\* _determine_shard never gives an index that is out of range, whatever the
\* hash, the shard amount and the width of a word (src/sharded.rs:91,
\* src/read_only.rs:88).
THEOREM IndexInRangeHolds == Spec => []IndexInRange
<1>1. TypeOK => IndexInRange
  <2>. SUFFICES ASSUME TypeOK, form # "none", NEW h \in 0..(Word - 1)
                PROVE  ShardIndex(h) \in Shards /\ ViewIndex(h) \in Shards
    BY DEF IndexInRange
  <2>1. h \in Nat
    BY WordAssumption
  <2>. QED
    BY <2>1, IndexBound DEF TypeOK, ViewIndex, ShardIndex
<1>. QED
  BY <1>1, TypeCorrect, PTL

-----------------------------------------------------------------------------
(* The bits of the tag *)

\* What the quotient by d is says between which multiples of d a number is.
LEMMA QuotientIs ==
  ASSUME NEW d \in Nat, d > 0, NEW x \in Nat, NEW q \in Nat
  PROVE  x \div d = q <=> (q * d <= x /\ x < q * d + d)
<1>1. /\ x \div d \in Nat
      /\ (x \div d) * d <= x
      /\ x < (x \div d) * d + d
  OBVIOUS
<1>2. ASSUME q * d <= x, x < q * d + d, x \div d # q  PROVE FALSE
  <2>. DEFINE p == x \div d
  <2>1. p \in Nat /\ p * d <= x /\ x < p * d + d /\ p # q
    BY <1>1, <1>2
  <2>. HIDE DEF p
  <2>2. CASE p > q
    <3>1. PICK n \in Nat : p = q + 1 + n
      <4>1. p - q - 1 \in Nat /\ p = q + 1 + (p - q - 1)
        BY <2>1, <2>2
      <4>. QED
        BY <4>1
    <3>2. p * d = q * d + d + n * d /\ n * d >= 0
      BY <3>1
    <3>. QED
      BY <2>1, <3>2, <1>2
  <2>3. CASE p < q
    <3>1. PICK n \in Nat : q = p + 1 + n
      <4>1. q - p - 1 \in Nat /\ q = p + 1 + (q - p - 1)
        BY <2>1, <2>3
      <4>. QED
        BY <4>1
    <3>2. q * d = p * d + d + n * d /\ n * d >= 0
      BY <2>1, <3>1
    <3>. QED
      BY <2>1, <3>2, <1>2
  <2>. QED
    BY <2>1, <2>2, <2>3
<1>. QED
  BY <1>1, <1>2

\* Where there is a tag's worth of words for each shard, the unit of the
\* index is a multiple of 2^7: the tag is not among the bits of the index.
LEMMA UnitIsOverTag ==
  ASSUME unit \in 1..(Word - 1), Word % unit = 0, ShardCount * 128 <= Word
  PROVE  \E u \in Nat \ {0} :
           /\ unit = 128 * u
           /\ Word \div 128 = u * ShardCount
           /\ Word = 128 * (u * ShardCount)
<1>. USE WordAssumption
<1>1. ShardCount \in Nat /\ Word = unit * ShardCount /\ ShardCount > 0
  BY DEF ShardCount
<1>2. unit >= 128
  <2>1. SUFFICES ASSUME unit <= 127  PROVE FALSE
    OBVIOUS
  <2>2. unit * ShardCount + (127 - unit) * ShardCount = 127 * ShardCount
    BY <1>1
  <2>3. (127 - unit) * ShardCount >= 0
    BY <1>1, <2>1
  <2>. QED
    BY <1>1, <2>2, <2>3
<1>3. unit % 128 = 0
  <2>1. unit % 128 = 0 \/ 128 % unit = 0
    <3>1. unit \in 1..Word
      OBVIOUS
    <3>2. \A d \in 1..Word : Word % d = 0 => d % 128 = 0 \/ 128 % d = 0
      BY WordIsPowerOfTwo
    <3>. QED
      BY <3>1, <3>2, Zenon
  <2>2. ASSUME 128 % unit = 0  PROVE unit = 128
    BY <1>2, <2>2
  <2>. QED
    BY <2>1, <2>2
<1>. DEFINE u == unit \div 128
<1>4. u \in Nat \ {0} /\ unit = 128 * u
  BY <1>2, <1>3
<1>. HIDE DEF u
<1>5. Word = 128 * (u * ShardCount) /\ u * ShardCount \in Nat
  BY <1>1, <1>4
<1>6. Word \div 128 = u * ShardCount
  BY <1>5
<1>. QED
  BY <1>4, <1>5, <1>6

\* The hashes, short of their tags, that go to one shard.
LEMMA HashesOfShard ==
  ASSUME unit \in 1..(Word - 1), NEW u \in Nat \ {0}, unit = 128 * u,
         Word \div 128 = u * ShardCount, Word = 128 * (u * ShardCount),
         ShardCount \in Nat, NEW s \in 0..(ShardCount - 1)
  PROVE  {h \in 0..(Word \div 128 - 1) : ShardIndex(h) = s}
           = (s * u)..(s * u + u - 1)
<1>1. s * u \in Nat /\ s * u + u <= u * ShardCount
  <2>1. PICK n \in Nat : ShardCount = s + 1 + n
    <3>1. ShardCount - s - 1 \in Nat /\ ShardCount = s + 1 + (ShardCount - s - 1)
      OBVIOUS
    <3>. QED
      BY <3>1
  <2>2. u * ShardCount = s * u + u + u * n /\ u * n >= 0
    BY <2>1
  <2>. QED
    BY <2>2
<1>2. ASSUME NEW h \in Nat, h < u * ShardCount
      PROVE  ShardIndex(h) = s <=> h \in (s * u)..(s * u + u - 1)
  <2>1. u * ShardCount \in Nat
    OBVIOUS
  <2>2. (h * 128) % Word = h * 128
    BY <1>2, <2>1
  <2>3. ShardIndex(h) = s <=> (s * unit <= h * 128 /\ h * 128 < s * unit + unit)
    BY <2>2, QuotientIs DEF ShardIndex
  <2>4. s * unit = 128 * (s * u)
    OBVIOUS
  <2>. QED
    BY <1>1, <2>3, <2>4
<1>. QED
  BY <1>1, <1>2

\* A shard index is above the bits from which hashbrown takes its tag: hashes
\* with the same tag still go to all the shards in equal parts.
THEOREM TagBitsAreLeftHolds == Spec => []TagBitsAreLeft
<1>1. TypeOK => TagBitsAreLeft
  <2>1. SUFFICES ASSUME TypeOK, form = "map", ShardCount * 128 <= Word, NEW s \in Shards
                 PROVE  Cardinality({h \in 0..(Word \div 128 - 1) : ShardIndex(h) = s})
                          * ShardCount = Word \div 128
    BY DEF TagBitsAreLeft
  <2>2. /\ unit \in 1..(Word - 1) /\ Word % unit = 0
        /\ s \in 0..(ShardCount - 1)
    BY <2>1 DEF TypeOK
  <2>3. ShardCount \in Nat
    BY <2>2, WordAssumption DEF ShardCount
  <2>4. PICK u \in Nat \ {0} : /\ unit = 128 * u
                               /\ Word \div 128 = u * ShardCount
                               /\ Word = 128 * (u * ShardCount)
    BY <2>1, <2>2, UnitIsOverTag
  <2>5. {h \in 0..(Word \div 128 - 1) : ShardIndex(h) = s} = (s * u)..(s * u + u - 1)
    BY <2>2, <2>3, <2>4, HashesOfShard
  <2>6. Cardinality((s * u)..(s * u + u - 1)) = u
    <3>1. s * u \in Int /\ s * u + u - 1 \in Int /\ s * u <= s * u + u - 1
      BY <2>2, <2>3
    <3>2. Cardinality((s * u)..(s * u + u - 1)) = (s * u + u - 1) - s * u + 1
      BY <3>1, FS_Interval
    <3>. QED
      BY <3>1, <3>2
  <2>. QED
    BY <2>4, <2>5, <2>6
<1>. QED
  BY <1>1, TypeCorrect, PTL

-----------------------------------------------------------------------------
(* Placement.  What a key is looked for by is what it is inserted by, if    *)
(* entry_ref is given the key that it looked up.                            *)

\* Elements that are filed stay as they are when they are rehashed.
LEMMA RehashFiled ==
  ASSUME ElementsAreFiled, TypeOK, NEW s \in Shards
  PROVE  Rehash(shards[s].elems) = shards[s].elems
<1>1. ASSUME NEW e \in shards[s].elems
      PROVE  Element(e.key, e.value, Hash[e.key]) = e
  BY <1>1 DEF Element, Elements, ElementsAreFiled, TypeOK, Tables
<1>. QED
  BY <1>1 DEF Rehash

\* The invariant: one key's elements are together, in one shard and under
\* one hash, so that the lookup before an insertion sees them all.
Inv == TypeOK /\ ElementsAreFiled /\ KeysAreUnique

\* The calls on one key as they are where the invariant holds: they change
\* the elements of one shard.
LEMMA FiledKeyCall ==
  ASSUME Inv, ~ForeignKeys, NEW k \in Keys, KeyCall(k)
  PROVE  LET E == shards[Home(k)].elems IN
         \E E2 \in SUBSET Elements, answer \in Values \cup {None} :
           /\ Shards' = Shards
           /\ \A s \in Shards : shards'[s].elems = IF s = Home(k) THEN E2 ELSE shards[s].elems
           /\ Answer(k, answer)
           /\ \/ /\ E2 = E
                 /\ \/ answer = ValueIn(Match(E, k))
                    \/ \E e \in Match(E, k) : answer = e.value
              \/ \E e \in Match(E, k) : E2 = E \ {e} /\ answer = e.value
              \/ \E e \in Match(E, k), v \in Values :
                   /\ E2 = (E \ {e}) \cup {Element(e.key, v, e.hash)}
                   /\ answer \in {e.value, v}
              \/ \E v \in Values :
                   /\ Match(E, k) = {} /\ E2 = E \cup {Element(k, v, Hash[k])}
                   /\ answer \in {None, v}
<1>. DEFINE E == shards[Home(k)].elems
<1>1. TypeOK /\ ElementsAreFiled
  BY DEF Inv
<1>2. MapCall /\ form = "map"
  BY <1>1, KeyCallShape DEF MapCall
<1>3. PICK t \in Prepared(k), new \in Tables, answer \in Values \cup {None} :
        /\ PutTable(k, new)
        /\ Answer(k, answer)
        /\ \/ /\ new = t
              /\ \/ answer = ValueIn(Match(t.elems, k))
                 \/ \E e \in Match(t.elems, k) : answer = e.value
           \/ \E e \in Match(t.elems, k) :
                new.elems = t.elems \ {e} /\ answer = e.value
           \/ \E e \in Match(t.elems, k), v \in Values :
                /\ new.elems = (t.elems \ {e}) \cup {Element(e.key, v, e.hash)}
                /\ answer \in {e.value, v}
           \/ \E j \in Keys, v \in Values :
                /\ j = k \/ ForeignKeys
                /\ Match(t.elems, k) = {}
                /\ new.elems = t.elems \cup {Element(j, v, Hash[k])}
                /\ answer \in {None, v}
  BY <1>1, KeyCallShape
<1>4. Home(k) \in Shards
  BY <1>1, <1>2, HomeIsAShard
<1>5. t.elems = E
  BY <1>1, <1>2, <1>4, PreparedTable, RehashFiled
<1>6. /\ Shards' = Shards
      /\ \A s \in Shards :
           shards'[s].elems = IF s = Home(k) THEN new.elems ELSE shards[s].elems
  BY <1>1, <1>3, <1>4 DEF PutTable, Shards, TypeOK
<1>7. new.elems \in SUBSET Elements
  BY DEF Tables
<1>. HIDE DEF E
<1>8. \/ /\ new.elems = E
         /\ \/ answer = ValueIn(Match(E, k))
            \/ \E e \in Match(E, k) : answer = e.value
      \/ \E e \in Match(E, k) : new.elems = E \ {e} /\ answer = e.value
      \/ \E e \in Match(E, k), v \in Values :
           /\ new.elems = (E \ {e}) \cup {Element(e.key, v, e.hash)}
           /\ answer \in {e.value, v}
      \/ \E v \in Values :
           /\ Match(E, k) = {} /\ new.elems = E \cup {Element(k, v, Hash[k])}
           /\ answer \in {None, v}
  BY <1>3, <1>5
<1>. QED
  BY <1>3, <1>6, <1>7, <1>8 DEF E

\* The same, without what the call answers.
LEMMA FiledKeyCallElements ==
  ASSUME Inv, ~ForeignKeys, NEW k \in Keys, KeyCall(k)
  PROVE  LET E == shards[Home(k)].elems IN
         \E E2 \in SUBSET Elements :
           /\ Shards' = Shards
           /\ \A s \in Shards : shards'[s].elems = IF s = Home(k) THEN E2 ELSE shards[s].elems
           /\ \/ E2 = E
              \/ \E e \in E : E2 = E \ {e}
              \/ \E e \in E, v \in Values : E2 = (E \ {e}) \cup {Element(e.key, v, e.hash)}
              \/ \E v \in Values : Match(E, k) = {} /\ E2 = E \cup {Element(k, v, Hash[k])}
<1>. DEFINE E == shards[Home(k)].elems
<1>1. PICK E2 \in SUBSET Elements, answer \in Values \cup {None} :
        /\ Shards' = Shards
        /\ \A s \in Shards : shards'[s].elems = IF s = Home(k) THEN E2 ELSE shards[s].elems
        /\ Answer(k, answer)
        /\ \/ /\ E2 = E
              /\ \/ answer = ValueIn(Match(E, k))
                 \/ \E e \in Match(E, k) : answer = e.value
           \/ \E e \in Match(E, k) : E2 = E \ {e} /\ answer = e.value
           \/ \E e \in Match(E, k), v \in Values :
                /\ E2 = (E \ {e}) \cup {Element(e.key, v, e.hash)}
                /\ answer \in {e.value, v}
           \/ \E v \in Values :
                /\ Match(E, k) = {} /\ E2 = E \cup {Element(k, v, Hash[k])}
                /\ answer \in {None, v}
  BY FiledKeyCall
<1>2. Match(E, k) \subseteq E
  BY DEF Match
<1>. HIDE DEF E
<1>3. \/ E2 = E
      \/ \E e \in E : E2 = E \ {e}
      \/ \E e \in E, v \in Values : E2 = (E \ {e}) \cup {Element(e.key, v, e.hash)}
      \/ \E v \in Values : Match(E, k) = {} /\ E2 = E \cup {Element(k, v, Hash[k])}
  BY <1>1, <1>2
<1>. QED
  BY <1>1, <1>3 DEF E

\* In the shard of k, and in no other, elements with the key k are those
\* that a lookup of k matches.
LEMMA FiledMatch ==
  ASSUME Inv, NEW k \in Keys, NEW s \in Shards, NEW e \in shards[s].elems, e.key = k
  PROVE  s = Home(k) /\ e \in Match(shards[Home(k)].elems, k)
BY DEF Inv, ElementsAreFiled, Home, Match

LEMMA KeyCallKeepsFiled ==
  ASSUME Inv, ~ForeignKeys, NEW k \in Keys, KeyCall(k)
  PROVE  ElementsAreFiled'
<1>. DEFINE E == shards[Home(k)].elems
<1>1. PICK E2 \in SUBSET Elements :
        /\ Shards' = Shards
        /\ \A s \in Shards : shards'[s].elems = IF s = Home(k) THEN E2 ELSE shards[s].elems
        /\ \/ E2 = E
           \/ \E e \in E : E2 = E \ {e}
           \/ \E e \in E, v \in Values : E2 = (E \ {e}) \cup {Element(e.key, v, e.hash)}
           \/ \E v \in Values : Match(E, k) = {} /\ E2 = E \cup {Element(k, v, Hash[k])}
  BY FiledKeyCallElements
<1>2. MapCall /\ unit' = unit /\ form = "map"
  BY KeyCallShape DEF MapCall, Inv
<1>3. Home(k) \in Shards
  BY <1>2, HomeIsAShard DEF Inv
<1>4. ASSUME NEW e \in E2
      PROVE  /\ e.hash = Hash[e.key]
             /\ ShardIndex(e.hash) = Home(k) /\ ViewIndex(e.hash) = Home(k)
  <2>1. \A f \in E : /\ f.hash = Hash[f.key]
                     /\ ShardIndex(f.hash) = Home(k) /\ ViewIndex(f.hash) = Home(k)
    BY <1>3 DEF Inv, ElementsAreFiled
  <2>2. CASE e \in E
    BY <2>1, <2>2
  <2>3. CASE \E f \in E, v \in Values : e = Element(f.key, v, f.hash)
    BY <2>1, <2>3 DEF Element
  <2>4. CASE \E v \in Values : e = Element(k, v, Hash[k])
    BY <2>4 DEF Element, Home, ViewIndex, ShardIndex
  <2>. QED
    BY <1>1, <1>4, <2>2, <2>3, <2>4
<1>5. \A h : ShardIndex(h)' = ShardIndex(h) /\ ViewIndex(h)' = ViewIndex(h)
  BY <1>2 DEF ShardIndex, ViewIndex
<1>6. ASSUME NEW s \in Shards, NEW e \in shards'[s].elems
      PROVE  /\ e.hash = Hash[e.key]
             /\ ShardIndex(e.hash)' = s /\ ViewIndex(e.hash)' = s
  <2>1. CASE s = Home(k)
    BY <1>1, <1>4, <1>5, <1>6, <2>1
  <2>2. CASE s # Home(k)
    <3>1. e \in shards[s].elems
      BY <1>1, <1>6, <2>2
    <3>. QED
      BY <1>5, <3>1 DEF Inv, ElementsAreFiled
  <2>. QED
    BY <2>1, <2>2
<1>. QED
  BY <1>1, <1>6 DEF ElementsAreFiled

LEMMA KeyCallKeepsUnique ==
  ASSUME Inv, ~ForeignKeys, NEW k \in Keys, KeyCall(k)
  PROVE  KeysAreUnique'
<1>. DEFINE E == shards[Home(k)].elems
<1>1. PICK E2 \in SUBSET Elements :
        /\ Shards' = Shards
        /\ \A s \in Shards : shards'[s].elems = IF s = Home(k) THEN E2 ELSE shards[s].elems
        /\ \/ E2 = E
           \/ \E e \in E : E2 = E \ {e}
           \/ \E e \in E, v \in Values : E2 = (E \ {e}) \cup {Element(e.key, v, e.hash)}
           \/ \E v \in Values : Match(E, k) = {} /\ E2 = E \cup {Element(k, v, Hash[k])}
  BY FiledKeyCallElements
<1>2. TypeOK' /\ ElementsAreFiled'
  BY KeyCallKeepsFiled, KeyCallKeepsTypes DEF Inv
<1>3. Home(k) \in Shards
  BY KeyCallShape, HomeIsAShard DEF Inv, MapCall
<1>4. ASSUME NEW e1 \in E2, NEW e2 \in E2, e1.key = e2.key
      PROVE  e1 = e2
  <2>1. \A f1, f2 \in E : f1.key = f2.key => f1 = f2
    BY <1>3 DEF Inv, KeysAreUnique
  <2>2. CASE E2 = E \/ \E e \in E : E2 = E \ {e}
    BY <1>4, <2>1, <2>2
  <2>3. CASE \E e \in E, v \in Values : E2 = (E \ {e}) \cup {Element(e.key, v, e.hash)}
    BY <1>4, <2>1, <2>3 DEF Element
  <2>4. CASE \E v \in Values : Match(E, k) = {} /\ E2 = E \cup {Element(k, v, Hash[k])}
    <3>1. \A f \in E : f.key # k
      BY <1>3, <2>4, FiledMatch
    <3>. QED
      BY <1>4, <2>1, <2>4, <3>1 DEF Element
  <2>. QED
    BY <1>1, <2>2, <2>3, <2>4
<1>5. ASSUME NEW s1 \in Shards, NEW s2 \in Shards,
             NEW e1 \in shards'[s1].elems, NEW e2 \in shards'[s2].elems,
             e1.key = e2.key
      PROVE  e1 = e2
  <2>1. e1.hash = e2.hash /\ s1 = s2
    BY <1>1, <1>2, <1>5 DEF ElementsAreFiled
  <2>2. CASE s1 = Home(k)
    BY <1>1, <1>4, <1>5, <2>1, <2>2
  <2>3. CASE s1 # Home(k)
    <3>1. e1 \in shards[s1].elems /\ e2 \in shards[s1].elems
      BY <1>1, <1>5, <2>1, <2>3
    <3>. QED
      BY <1>5, <3>1 DEF Inv, KeysAreUnique
  <2>. QED
    BY <2>2, <2>3
<1>. QED
  BY <1>1, <1>5 DEF KeysAreUnique

\* A step that leaves the elements of all the shards, and the shift.
LEMMA SameElements ==
  ASSUME Inv, TypeOK', Shards' = Shards, unit' = unit,
         \A s \in Shards : shards'[s].elems = shards[s].elems
  PROVE  Inv'
<1>1. ElementsAreFiled'
  BY DEF Inv, ElementsAreFiled, ShardIndex, ViewIndex
<1>2. KeysAreUnique'
  BY DEF Inv, KeysAreUnique
<1>. QED
  BY <1>1, <1>2 DEF Inv

\* A step after which there is no element.
LEMMA NoElements ==
  ASSUME TypeOK', \A s \in Shards' : shards'[s].elems = {}
  PROVE  Inv'
BY DEF Inv, ElementsAreFiled, KeysAreUnique

LEMMA NextKeepsInv ==
  ASSUME Inv, ~ForeignKeys, [Next]_vars
  PROVE  Inv'
<1>1. TypeOK /\ TypeOK'
  BY NextKeepsTypes DEF Inv
<1>2. ASSUME NEW c \in Capacities, NEW n \in ShardAmounts, New(c, n)
      PROVE  Inv'
  <2>1. PICK r \in Rooms : \A s \in 0..(n - 1) : shards'[s] = Table({}, r)
    BY <1>1, <1>2, NewKeepsTypes
  <2>2. Shards' = 0..(n - 1)
    BY <1>1, <1>2, NewKeepsTypes
  <2>3. \A s \in Shards' : shards'[s].elems = {}
    BY <2>1, <2>2 DEF Table
  <2>. QED
    BY <1>1, <2>3, NoElements
<1>3. ASSUME NEW k \in Keys, KeyCall(k)
      PROVE  Inv'
  BY <1>1, <1>3, KeyCallKeepsFiled, KeyCallKeepsUnique DEF Inv
<1>4. ASSUME NEW n \in Additionals, TryReserve(n)
      PROVE  Inv'
  <2>1. /\ Shards' = Shards
        /\ \A s \in Shards : \/ shards'[s].elems = shards[s].elems
                             \/ shards'[s].elems = Rehash(shards[s].elems)
    BY <1>1, <1>4, TryReserveShape
  <2>2. \A s \in Shards : shards'[s].elems = shards[s].elems
    BY <1>1, <2>1, RehashFiled DEF Inv
  <2>3. unit' = unit
    BY <1>4 DEF TryReserve
  <2>. QED
    BY <1>1, <2>1, <2>2, <2>3, SameElements
<1>5. CASE OwningNext
  <2>1. Shards' = Shards /\ unit' = unit /\ shards' = shards
    BY <1>5 DEF OwningNext, Shards
  <2>. QED
    BY <1>1, <2>1, SameElements
<1>6. CASE DropAll
  BY <1>1, <1>6, DropKeepsTypes, NoElements
<1>7. CASE \/ IntoReadOnly \/ IntoInner \/ IntoIter
           \/ (\E k \in Keys : Get(k)) \/ UNCHANGED vars
  <2>1. Shards' = Shards /\ unit' = unit /\ shards' = shards
    BY <1>7 DEF IntoReadOnly, IntoInner, IntoIter, Get, vars, Shards
  <2>. QED
    BY <1>1, <2>1, SameElements
<1>. QED
  BY <1>2, <1>3, <1>4, <1>5, <1>6, <1>7, NextCases

LEMMA InitInv ==
  ASSUME Init
  PROVE  Inv
BY InitTypes DEF Inv, ElementsAreFiled, KeysAreUnique

THEOREM InvHolds == ~ForeignKeys => (Spec => []Inv)
<1>. SUFFICES ASSUME ~ForeignKeys
              PROVE  Spec => []Inv
  OBVIOUS
<1>1. Init => Inv
  BY InitInv
<1>2. Inv /\ [Next]_vars => Inv'
  BY NextKeepsInv
<1>. QED
  BY <1>1, <1>2, PTL DEF Spec

\* Through insertions, reallocations, partly failed reservations and changes
\* of form, every element stays where its key is looked for (src/table.rs:265,
\* src/read_only.rs:143).
THEOREM ElementsAreFiledHolds == ~ForeignKeys => (Spec => []ElementsAreFiled)
<1>1. Inv => ElementsAreFiled
  BY DEF Inv
<1>. QED
  BY <1>1, InvHolds, PTL

\* An insertion looks for the key where all its elements are, so that no key
\* is ever in the map twice (src/map.rs:375).
THEOREM KeysAreUniqueHolds == ~ForeignKeys => (Spec => []KeysAreUnique)
<1>1. Inv => KeysAreUnique
  BY DEF Inv
<1>. QED
  BY <1>1, InvHolds, PTL

-----------------------------------------------------------------------------
(***************************************************************************)
(* The capacity that is asked for is there, for every capacity, shard      *)
(* amount and reservation: the arithmetic of CapacityPerShard, and the     *)
(* room of the tables through the calls.                                   *)
(***************************************************************************)

-----------------------------------------------------------------------------
(* Tables *)

\* A table that holds no more than it has room for.
Roomy(t) == IsFiniteSet(t.elems) /\ HasRoom(t, 0)

LEMMA RehashIsFinite ==
  ASSUME NEW E, IsFiniteSet(E)
  PROVE  IsFiniteSet(Rehash(E))
<1>. DEFINE f == [e \in E |-> Element(e.key, e.value, Hash[e.key])]
<1>1. f \in Surjection(E, Rehash(E))
  BY DEF Rehash, Surjection
<1>. QED
  BY <1>1, FS_Surjection

LEMMA LessRoom ==
  ASSUME NEW t \in Tables, IsFiniteSet(t.elems), NEW n \in Nat, HasRoom(t, n)
  PROVE  Roomy(t)
<1>1. Cardinality(t.elems) \in Nat
  BY FS_CardinalityType
<1>. QED
  BY <1>1 DEF Roomy, HasRoom, Tables

LEMMA ReservedHasRoom ==
  ASSUME NEW table \in Tables, Roomy(table), NEW n \in Nat, NEW t \in Reserve(table, n)
  PROVE  t \in Tables /\ IsFiniteSet(t.elems) /\ HasRoom(t, n)
BY ReservedTable, RehashIsFinite DEF Roomy

LEMMA RoomToInsert ==
  ASSUME NEW t \in Tables, IsFiniteSet(t.elems), HasRoom(t, 1), NEW e
  PROVE  Roomy(Table(t.elems \cup {e}, t.room))
<1>1. Cardinality(t.elems) \in Nat
  BY FS_CardinalityType
<1>2. /\ IsFiniteSet(t.elems \cup {e})
      /\ Cardinality(t.elems \cup {e}) \in {Cardinality(t.elems), Cardinality(t.elems) + 1}
  BY FS_AddElement
<1>. QED
  BY <1>1, <1>2 DEF Roomy, HasRoom, Table, Tables

LEMMA RoomToRemove ==
  ASSUME NEW t \in Tables, IsFiniteSet(t.elems), HasRoom(t, 1), NEW e \in t.elems,
         NEW r \in {t.room, t.room - 1}
  PROVE  Roomy(Table(t.elems \ {e}, r))
<1>1. Cardinality(t.elems) \in Nat
  BY FS_CardinalityType
<1>2. /\ IsFiniteSet(t.elems \ {e})
      /\ Cardinality(t.elems \ {e}) = Cardinality(t.elems) - 1
  BY FS_RemoveElement
<1>. QED
  BY <1>1, <1>2 DEF Roomy, HasRoom, Table, Tables

LEMMA RoomToReplace ==
  ASSUME NEW t \in Tables, IsFiniteSet(t.elems), HasRoom(t, 1), NEW e \in t.elems, NEW f
  PROVE  Roomy(Table((t.elems \ {e}) \cup {f}, t.room))
<1>1. Cardinality(t.elems) \in Nat
  BY FS_CardinalityType
<1>2. /\ IsFiniteSet(t.elems \ {e})
      /\ Cardinality(t.elems \ {e}) = Cardinality(t.elems) - 1
  BY FS_RemoveElement
<1>3. /\ IsFiniteSet((t.elems \ {e}) \cup {f})
      /\ Cardinality((t.elems \ {e}) \cup {f}) \in
           {Cardinality(t.elems \ {e}), Cardinality(t.elems \ {e}) + 1}
  BY <1>2, FS_AddElement
<1>. QED
  BY <1>1, <1>2, <1>3 DEF Roomy, HasRoom, Table, Tables

-----------------------------------------------------------------------------
(* The invariant *)

FiniteShards == \A s \in Shards : IsFiniteSet(shards[s].elems)

RoomInv == TypeOK /\ FiniteShards /\ RoomIsAsAsked

LEMMA ShardsAreRoomy ==
  ASSUME RoomInv, NEW s \in Shards
  PROVE  shards[s] \in Tables /\ Roomy(shards[s])
<1>1. shards[s] \in Tables /\ IsFiniteSet(shards[s].elems)
  BY DEF RoomInv, TypeOK, FiniteShards
<1>2. HasRoom(shards[s], asked.each) /\ asked.each \in Nat
  BY DEF RoomInv, TypeOK, RoomIsAsAsked
<1>. QED
  BY <1>1, <1>2, LessRoom

\* A step after which the tables hold what they have room for, and nothing
\* is asked of them.
LEMMA RoomyShards ==
  ASSUME TypeOK', asked' = NothingAsked, form' # "none", \A s \in Shards' : Roomy(shards'[s])
  PROVE  RoomInv'
<1>1. ShardCount' \in Nat
  <2>1. unit' \in Nat /\ unit' > 0
    BY WordAssumption DEF TypeOK
  <2>2. \A d \in Nat : d > 0 => Word \div d \in Nat
    BY WordAssumption
  <2>3. ShardCount' = Word \div unit'
    BY DEF ShardCount
  <2>. QED
    BY <2>1, <2>2, <2>3
<1>2. ASSUME NEW s \in Shards'
      PROVE  /\ IsFiniteSet(shards'[s].elems)
             /\ HasRoom(shards'[s], 0)
             /\ 0 <= ShardCount' * shards'[s].room
  <2>1. IsFiniteSet(shards'[s].elems) /\ HasRoom(shards'[s], 0)
    BY <1>2 DEF Roomy
  <2>2. shards'[s].room \in Int
    BY <1>2 DEF TypeOK, Tables
  <2>3. Cardinality(shards'[s].elems) \in Nat
    BY <2>1, FS_CardinalityType
  <2>4. shards'[s].room \in Nat
    BY <2>1, <2>2, <2>3 DEF HasRoom
  <2>. QED
    BY <1>1, <2>1, <2>4
<1>3. asked'.each = 0 /\ asked'.total = 0
  BY DEF NothingAsked
<1>4. RoomIsAsAsked'
  BY <1>2, <1>3 DEF RoomIsAsAsked, HasRoom
<1>. QED
  BY <1>2, <1>4 DEF RoomInv, FiniteShards

LEMMA SameRoom ==
  ASSUME RoomInv, TypeOK', Shards' = Shards, UNCHANGED <<checked, unit, shards, asked>>
  PROVE  RoomInv'
<1>1. ShardCount' = ShardCount
  BY DEF ShardCount
<1>. QED
  BY <1>1 DEF RoomInv, FiniteShards, RoomIsAsAsked, HasRoom

LEMMA KeyCallRoom ==
  ASSUME RoomInv, NEW k \in Keys, KeyCall(k)
  PROVE  \E t : Roomy(t) /\ PutTable(k, t)
<1>1. form = "map"
  BY KeyCallShape DEF MapCall, RoomInv
<1>2. ASSUME NEW t \in Prepared(k)
      PROVE  t \in Tables /\ IsFiniteSet(t.elems) /\ HasRoom(t, 1)
  <2>1. Home(k) \in Shards
    BY <1>1, HomeIsAShard DEF RoomInv
  <2>. QED
    BY <2>1, ShardsAreRoomy, ReservedHasRoom DEF Prepared
<1>3. \A t \in Prepared(k) : Roomy(t)
  BY <1>2, LessRoom
<1>4. ASSUME NEW t \in Prepared(k), NEW e, InsertElement(k, t, e)
      PROVE  \E new : Roomy(new) /\ PutTable(k, new)
  BY <1>2, <1>4, RoomToInsert DEF InsertElement
<1>5. ASSUME NEW t \in Prepared(k), NEW e \in Match(t.elems, k), NEW v, ReplaceValue(k, t, e, v)
      PROVE  \E new : Roomy(new) /\ PutTable(k, new)
  <2>1. e \in t.elems
    BY DEF Match
  <2>. QED
    BY <1>2, <1>5, <2>1, RoomToReplace DEF ReplaceValue
<1>6. ASSUME NEW t \in Prepared(k), NEW e \in Match(t.elems, k), RemoveElement(k, t, e)
      PROVE  \E new : Roomy(new) /\ PutTable(k, new)
  <2>1. PICK r \in {t.room, t.room - 1} : PutTable(k, Table(t.elems \ {e}, r))
    BY <1>6 DEF RemoveElement
  <2>2. e \in t.elems
    BY DEF Match
  <2>. QED
    BY <1>2, <2>1, <2>2, RoomToRemove
<1>7. ASSUME NEW v \in Values, InsertMut(k, v) \/ OrInsert(k, v) \/ AndModify(k, v)
      PROVE  \E new : Roomy(new) /\ PutTable(k, new)
  BY <1>3, <1>4, <1>5, <1>7 DEF InsertMut, OrInsert, AndModify
<1>8. ASSUME OrNothing(k)
      PROVE  \E new : Roomy(new) /\ PutTable(k, new)
  BY <1>3, <1>8 DEF OrNothing
<1>9. ASSUME RemoveMut(k)
      PROVE  \E new : Roomy(new) /\ PutTable(k, new)
  BY <1>6, <1>9 DEF RemoveMut
<1>10. ASSUME NEW j \in Keys, NEW v \in Values, InsertRef(k, j, v)
      PROVE  \E new : Roomy(new) /\ PutTable(k, new)
  BY <1>4, <1>5, <1>10 DEF InsertRef
<1>. QED
  BY <1>7, <1>8, <1>9, <1>10 DEF KeyCall

LEMMA KeyCallKeepsRoom ==
  ASSUME RoomInv, NEW k \in Keys, KeyCall(k)
  PROVE  RoomInv'
<1>1. TypeOK /\ TypeOK'
  BY KeyCallKeepsTypes DEF RoomInv
<1>2. MapCall
  BY <1>1, KeyCallShape
<1>3. PICK t : Roomy(t) /\ PutTable(k, t)
  BY KeyCallRoom
<1>4. Shards' = Shards /\ \A s \in Shards : shards'[s] = t \/ shards'[s] = shards[s]
  BY <1>1, <1>3 DEF PutTable, Shards, TypeOK
<1>5. \A s \in Shards' : Roomy(shards'[s])
  BY <1>3, <1>4, ShardsAreRoomy
<1>. QED
  BY <1>1, <1>2, <1>5, RoomyShards DEF MapCall

\* Rounded up to a multiple of n, and divided among n shards, a capacity is
\* not less than it was, if the sum did not wrap around.
LEMMA CapacityIsShared ==
  ASSUME NEW c \in 0..(Word - 1), NEW n \in Nat, n > 1,
         NEW r \in Nat, CapacityPerShard(c, n) <= r
  PROVE  c <= n * r \/ c > Word - n
<1>. USE WordAssumption
<1>1. CASE c = 0
  <2>1. n * r >= 0
    OBVIOUS
  <2>. QED
    BY <1>1, <2>1
<1>2. CASE c # 0 /\ c + (n - 1) < Word
  <2>. DEFINE x == c + (n - 1)
              q == x \div n
  <2>1. x \in Nat /\ x % Word = x
    BY <1>2
  <2>2. q <= r
    BY <1>2, <2>1 DEF CapacityPerShard
  <2>3. q \in Nat /\ x < n * q + n
    BY <2>1
  <2>4. n * q <= n * r
    BY <2>2, <2>3
  <2>5. c <= n * q
    BY <2>3
  <2>6. n * q \in Nat /\ n * r \in Nat
    BY <2>3
  <2>. QED
    BY <2>4, <2>5, <2>6
<1>3. CASE c + (n - 1) >= Word
  BY <1>3
<1>. QED
  BY <1>1, <1>2, <1>3

LEMMA NewKeepsRoom ==
  ASSUME TypeOK, NEW c \in Capacities, NEW n \in ShardAmounts, New(c, n)
  PROVE  RoomInv'
<1>1. TypeOK' /\ Shards' = 0..(n - 1)
  BY NewKeepsTypes
<1>2. n \in Nat /\ n > 1 /\ Word % n = 0
  BY InputAssumption, WordAssumption DEF New, AssertShardAmount, IsPowerOfTwo
<1>3. ShardCount' = n
  BY <1>2, UnitOfShardAmount DEF New, ShardCount
<1>4. PICK r \in Rooms : /\ CapacityPerShard(c, n) <= r
                         /\ shards' = [s \in 0..(n - 1) |-> Table({}, r)]
  BY DEF New
<1>5. r \in Nat /\ c \in 0..(Word - 1)
  BY RoomAssumption, InputAssumption
<1>6. asked'.total = c /\ asked'.each = 0 /\ checked' = checked
  BY DEF New
<1>7. c <= n * r \/ (~checked /\ c > Word - n)
  <2>1. CASE checked /\ c # 0
    <3>1. c <= Word - n
      BY <1>2, <1>5, <2>1, WordAssumption DEF New
    <3>. QED
      BY <1>2, <1>4, <1>5, <3>1, CapacityIsShared, WordAssumption
  <2>2. CASE ~checked
    BY <1>2, <1>4, <1>5, <2>2, CapacityIsShared
  <2>3. CASE c = 0
    <3>1. n * r >= 0
      BY <1>2, <1>5
    <3>. QED
      BY <2>3, <3>1
  <2>. QED
    BY <2>1, <2>2, <2>3
<1>8. ASSUME NEW s \in Shards'
      PROVE  shards'[s].elems = {} /\ shards'[s].room = r
  BY <1>1, <1>4, <1>8 DEF Table
<1>9. IsFiniteSet({}) /\ Cardinality({}) = 0
  BY FS_EmptySet
<1>10. ASSUME NEW s \in Shards'
       PROVE  /\ Cardinality(shards'[s].elems) + asked'.each <= shards'[s].room
              /\ \/ asked'.total <= ShardCount' * shards'[s].room
                 \/ ~checked' /\ asked'.total > Word - ShardCount'
  <2>1. Cardinality(shards'[s].elems) + asked'.each <= shards'[s].room
    <3>1. Cardinality(shards'[s].elems) = 0 /\ shards'[s].room = r /\ asked'.each = 0
      BY <1>6, <1>8, <1>9
    <3>. QED
      BY <1>5, <3>1
  <2>2. CASE c <= n * r
    BY <1>3, <1>6, <1>8, <1>10, <2>1, <2>2
  <2>3. CASE ~checked /\ c > Word - n
    <3>1. ~checked' /\ asked'.total > Word - ShardCount'
      BY <1>3, <1>6, <2>3
    <3>. QED
      BY <2>1, <3>1
  <2>. QED
    BY <1>7, <2>2, <2>3
<1>11. RoomIsAsAsked'
  BY <1>10 DEF RoomIsAsAsked, HasRoom
<1>. QED
  BY <1>1, <1>8, <1>9, <1>11 DEF RoomInv, FiniteShards

LEMMA TryReserveKeepsRoom ==
  ASSUME RoomInv, NEW n \in Additionals, TryReserve(n)
  PROVE  RoomInv'
<1>1. TypeOK /\ TypeOK'
  BY TryReserveKeepsTypes DEF RoomInv
<1>2. n \in Nat /\ form = "map" /\ form' = "map" /\ unit' = unit
  BY InputAssumption DEF TryReserve
<1>3. ShardCount \in Nat /\ ShardCount' = ShardCount /\ Shards = 0..(ShardCount - 1)
  BY <1>1, <1>2, WordAssumption DEF TypeOK, ShardCount
<1>4. PICK done \in 0..ShardCount :
        \E room \in [Short(0..(done - 1), n) -> Rooms] :
          /\ \A s \in DOMAIN room : HasRoom(Grown(room)[s], n)
          /\ shards' = Grown(room)
          /\ asked' = [total |-> 0, each |-> IF done = ShardCount THEN n ELSE 0]
  BY DEF TryReserve
<1>5. PICK room \in [Short(0..(done - 1), n) -> Rooms] :
          /\ \A s \in DOMAIN room : HasRoom(Grown(room)[s], n)
          /\ shards' = Grown(room)
          /\ asked' = [total |-> 0, each |-> IF done = ShardCount THEN n ELSE 0]
  BY <1>4
<1>6. Shards' = Shards
  BY <1>1, TryReserveShape
<1>7. ASSUME NEW s \in Shards
      PROVE  Roomy(shards'[s]) /\ (done = ShardCount => HasRoom(shards'[s], n))
  <2>1. shards'[s] \in Tables /\ IsFiniteSet(shards'[s].elems)
    <3>1. \/ shards'[s].elems = shards[s].elems
          \/ shards'[s].elems = Rehash(shards[s].elems)
      BY <1>1, TryReserveShape
    <3>2. IsFiniteSet(shards[s].elems)
      BY DEF RoomInv, FiniteShards
    <3>. QED
      BY <1>1, <1>6, <3>1, <3>2, RehashIsFinite DEF TypeOK
  <2>2. CASE s \in DOMAIN room
    <3>1. HasRoom(shards'[s], n)
      BY <1>5, <2>2
    <3>. QED
      BY <1>2, <2>1, <3>1, LessRoom
  <2>3. CASE s \notin DOMAIN room
    <3>1. shards'[s] = shards[s]
      BY <1>5, <2>3 DEF Grown
    <3>2. done = ShardCount => HasRoom(shards[s], n)
      BY <1>3, <1>5, <2>3 DEF Short
    <3>. QED
      BY <3>1, <3>2, ShardsAreRoomy
  <2>. QED
    BY <2>2, <2>3
<1>8. CASE done # ShardCount
  <2>1. asked' = NothingAsked
    BY <1>5, <1>8 DEF NothingAsked
  <2>. QED
    BY <1>1, <1>2, <1>6, <1>7, <2>1, RoomyShards
<1>9. CASE done = ShardCount
  <2>1. asked'.total = 0 /\ asked'.each = n
    BY <1>5, <1>9
  <2>2. ASSUME NEW s \in Shards
        PROVE  /\ IsFiniteSet(shards'[s].elems)
               /\ HasRoom(shards'[s], n)
               /\ 0 <= ShardCount * shards'[s].room
    <3>1. Roomy(shards'[s]) /\ HasRoom(shards'[s], n)
      BY <1>7, <1>9
    <3>2. shards'[s].room \in Int
      BY <1>1, <1>6 DEF TypeOK, Tables
    <3>3. Cardinality(shards'[s].elems) \in Nat
      BY <3>1, FS_CardinalityType DEF Roomy
    <3>4. shards'[s].room \in Nat
      BY <3>1, <3>2, <3>3 DEF Roomy, HasRoom
    <3>. QED
      BY <1>3, <3>1, <3>4 DEF Roomy
  <2>3. RoomIsAsAsked'
    BY <1>3, <1>6, <2>1, <2>2 DEF RoomIsAsAsked, HasRoom
  <2>. QED
    BY <1>1, <1>6, <2>2, <2>3 DEF RoomInv, FiniteShards
<1>. QED
  BY <1>8, <1>9

LEMMA NextKeepsRoom ==
  ASSUME RoomInv, [Next]_vars
  PROVE  RoomInv'
<1>1. TypeOK /\ TypeOK'
  BY NextKeepsTypes DEF RoomInv
<1>2. ASSUME NEW c \in Capacities, NEW n \in ShardAmounts, New(c, n)
      PROVE  RoomInv'
  BY <1>1, <1>2, NewKeepsRoom
<1>3. ASSUME NEW k \in Keys, KeyCall(k)
      PROVE  RoomInv'
  BY <1>3, KeyCallKeepsRoom
<1>4. ASSUME NEW n \in Additionals, TryReserve(n)
      PROVE  RoomInv'
  BY <1>4, TryReserveKeepsRoom
<1>5. ASSUME OwningNext \/ IntoReadOnly \/ IntoInner \/ (\E k \in Keys : Get(k)) \/ UNCHANGED vars
      PROVE  RoomInv'
  <2>1. UNCHANGED <<checked, unit, shards, asked>>
    BY <1>5 DEF OwningNext, IntoReadOnly, IntoInner, Get, vars
  <2>2. Shards' = Shards
    BY <2>1 DEF Shards
  <2>. QED
    BY <1>1, <2>1, <2>2, SameRoom
<1>6. ASSUME IntoIter
      PROVE  RoomInv'
  <2>1. shards' = shards /\ asked' = NothingAsked /\ form' # "none"
    BY <1>6 DEF IntoIter
  <2>2. Shards' = Shards
    BY <2>1 DEF Shards
  <2>. QED
    BY <1>1, <2>1, <2>2, ShardsAreRoomy, RoomyShards
<1>7. ASSUME DropAll
      PROVE  RoomInv'
  <2>1. Shards' = {}
    BY <1>1, <1>7, DropKeepsTypes
  <2>. QED
    BY <1>1, <2>1 DEF RoomInv, FiniteShards, RoomIsAsAsked
<1>. QED
  BY <1>2, <1>3, <1>4, <1>5, <1>6, <1>7, NextCases

\* with_capacity gives the map the capacity that it is asked for, whatever
\* the shard amount, unless the sum wraps around unchecked (src/table.rs:112);
\* when try_reserve returns Ok, every shard has the room (src/table.rs:347).
THEOREM RoomIsAsAskedHolds == Spec => []RoomIsAsAsked
<1>1. Init => RoomInv
  BY InitTypes DEF RoomInv, FiniteShards, RoomIsAsAsked
<1>2. RoomInv /\ [Next]_vars => RoomInv'
  BY NextKeepsRoom
<1>3. RoomInv => RoomIsAsAsked
  BY DEF RoomInv
<1>. QED
  BY <1>1, <1>2, <1>3, PTL DEF Spec

-----------------------------------------------------------------------------
(***************************************************************************)
(* The map that one owner has to himself implements PlainMap: what its     *)
(* calls answer is what a function from keys to values would, whatever is  *)
(* done to the shards, and through every change of form.                   *)
(*                                                                         *)
(* The argument goes through Left, the elements that the map or its        *)
(* iterator still has: no two of them have the same key, so that they are  *)
(* a function; and each call leaves them, or adds, replaces or removes one. *)
(***************************************************************************)

-----------------------------------------------------------------------------
(* Sets of elements as functions *)

ValueOf(L, k) == ValueIn({e \in L : e.key = k})
AsMap(L) == [k \in Keys |-> ValueOf(L, k)]
UniqueKeys(L) == \A e1, e2 \in L : e1.key = e2.key => e1 = e2

LEMMA ValueOfPresent ==
  ASSUME NEW L \in SUBSET Elements, UniqueKeys(L), NEW e \in L
  PROVE  ValueOf(L, e.key) = e.value /\ e.key \in Keys /\ e.value \in Values /\ e.value # None
<1>1. {f \in L : f.key = e.key} = {e}
  BY DEF UniqueKeys
<1>2. ValueIn({e}) = e.value
  BY DEF ValueIn
<1>3. e.key \in Keys /\ e.value \in Values
  BY DEF Elements
<1>. QED
  BY <1>1, <1>2, <1>3, NoneAssumption DEF ValueOf

LEMMA ValueOfAbsent ==
  ASSUME NEW L, NEW k, \A e \in L : e.key # k
  PROVE  ValueOf(L, k) = None
BY DEF ValueOf, ValueIn

LEMMA RemoveFromMap ==
  ASSUME NEW L \in SUBSET Elements, UniqueKeys(L), NEW e \in L
  PROVE  AsMap(L \ {e}) = [AsMap(L) EXCEPT ![e.key] = None]
<1>1. ValueOf(L \ {e}, e.key) = None
  BY ValueOfAbsent DEF UniqueKeys
<1>2. ASSUME NEW k \in Keys, k # e.key
      PROVE  ValueOf(L \ {e}, k) = ValueOf(L, k)
  <2>1. {f \in L \ {e} : f.key = k} = {f \in L : f.key = k}
    BY <1>2
  <2>. QED
    BY <2>1 DEF ValueOf
<1>. QED
  BY <1>1, <1>2 DEF AsMap

LEMMA AddToMap ==
  ASSUME NEW L \in SUBSET Elements, UniqueKeys(L),
         NEW e \in Elements, \A f \in L : f.key # e.key
  PROVE  AsMap(L \cup {e}) = [AsMap(L) EXCEPT ![e.key] = e.value]
<1>1. ValueOf(L \cup {e}, e.key) = e.value
  <2>1. UniqueKeys(L \cup {e})
    BY DEF UniqueKeys
  <2>. QED
    BY <2>1, ValueOfPresent
<1>2. ASSUME NEW k \in Keys, k # e.key
      PROVE  ValueOf(L \cup {e}, k) = ValueOf(L, k)
  <2>1. {f \in L \cup {e} : f.key = k} = {f \in L : f.key = k}
    BY <1>2
  <2>. QED
    BY <2>1 DEF ValueOf
<1>. QED
  BY <1>1, <1>2 DEF AsMap

LEMMA ReplaceInMap ==
  ASSUME NEW L \in SUBSET Elements, UniqueKeys(L), NEW e \in L,
         NEW f \in Elements, f.key = e.key
  PROVE  AsMap((L \ {e}) \cup {f}) = [AsMap(L) EXCEPT ![e.key] = f.value]
<1>1. UniqueKeys(L \ {e})
  BY DEF UniqueKeys
<1>2. \A g \in L \ {e} : g.key # f.key
  BY DEF UniqueKeys
<1>3. AsMap((L \ {e}) \cup {f}) = [AsMap(L \ {e}) EXCEPT ![f.key] = f.value]
  BY <1>1, <1>2, AddToMap
<1>4. AsMap(L \ {e}) = [AsMap(L) EXCEPT ![e.key] = None]
  BY RemoveFromMap
<1>. QED
  BY <1>3, <1>4 DEF AsMap

-----------------------------------------------------------------------------
(* What the owner still has *)

\* Elements that the iterator has at hand are of shards that it has begun.
IterInv ==
  /\ form # "iter" => current = {} /\ rest = 0
  /\ \A e \in current : \E s \in Shards : s < rest /\ e \in shards[s].elems

RInv == Inv /\ IterInv

LEMMA ShardsAreNumbers ==
  ASSUME TypeOK
  PROVE  Shards \subseteq Nat /\ rest \in Nat
<1>1. form = "none" \/ ShardCount \in Nat
  BY WordAssumption DEF TypeOK, ShardCount
<1>. QED
  BY <1>1 DEF TypeOK

LEMMA LeftMembers ==
  \A e : e \in Left <=> \/ e \in current
                        \/ \E s \in Shards : s >= rest /\ e \in shards[s].elems
BY DEF Left

LEMMA LeftIsUnique ==
  ASSUME RInv
  PROVE  Left \in SUBSET Elements /\ UniqueKeys(Left)
<1>1. \A e \in Left : \E s \in Shards : e \in shards[s].elems
  BY LeftMembers DEF RInv, IterInv
<1>2. \A s \in Shards : shards[s].elems \subseteq Elements
  BY DEF RInv, Inv, TypeOK, Tables
<1>. QED
  BY <1>1, <1>2 DEF RInv, Inv, KeysAreUnique, UniqueKeys

\* Outside an iteration, everything in the shards is left.
LEMMA LeftIsAll ==
  ASSUME RInv, form # "iter"
  PROVE  \A e : e \in Left <=> \E s \in Shards : e \in shards[s].elems
BY LeftMembers, ShardsAreNumbers DEF RInv, Inv, IterInv

\* A lookup finds what is left under a key: in a map, and in a view.
LEMMA ContentsAreLeft ==
  ASSUME RInv
  PROVE  Contents = AsMap(Left)
<1>1. CASE form = "none"
  <2>1. Left = {}
    BY <1>1, LeftIsAll DEF RInv, Inv, TypeOK
  <2>2. \A k \in Keys : ValueOf(Left, k) = None
    BY <2>1, ValueOfAbsent
  <2>. QED
    BY <1>1, <2>2 DEF Contents, AsMap
<1>2. CASE form = "iter"
  BY <1>2 DEF Contents, AsMap, ValueOf
<1>3. CASE form \in {"map", "view"}
  <2>1. ASSUME NEW k \in Keys
        PROVE  Found(k) = {e \in Left : e.key = k}
    <3>1. Found(k) = Match(shards[Home(k)].elems, k)
      BY DEF Found, Home, ViewIndex, ShardIndex
    <3>2. Home(k) \in Shards
      BY <1>3, HomeIsAShard DEF RInv, Inv
    <3>3. \A e \in Left : e.key = k => e \in Match(shards[Home(k)].elems, k)
      BY <1>3, LeftIsAll, FiledMatch DEF RInv
    <3>4. \A e \in Match(shards[Home(k)].elems, k) : e \in Left /\ e.key = k
      BY <1>3, <3>2, LeftIsAll DEF Match
    <3>. QED
      BY <3>1, <3>3, <3>4
  <2>. QED
    BY <1>3, <2>1 DEF Contents, AsMap, ValueOf
<1>. QED
  BY <1>1, <1>2, <1>3 DEF RInv, Inv, TypeOK

-----------------------------------------------------------------------------
(* The steps, by what is left before and after *)

\* What a call on one key leaves, and answers.
LEMMA KeyCallLeft ==
  ASSUME RInv, RInv', ~ForeignKeys, NEW k \in Keys, KeyCall(k)
  PROVE  \E answer \in Values \cup {None} :
           /\ Answer(k, answer)
           /\ \/ Left' = Left /\ answer = ValueOf(Left, k)
              \/ \E e \in Left : e.key = k /\ Left' = Left \ {e} /\ answer = e.value
              \/ \E e \in Left, v \in Values :
                   /\ e.key = k /\ Left' = (Left \ {e}) \cup {Element(k, v, e.hash)}
                   /\ answer \in {e.value, v}
              \/ \E v \in Values :
                   /\ \A e \in Left : e.key # k
                   /\ Left' = Left \cup {Element(k, v, Hash[k])}
                   /\ answer \in {None, v}
<1>. DEFINE E == shards[Home(k)].elems
<1>1. PICK E2 \in SUBSET Elements, answer \in Values \cup {None} :
        /\ Shards' = Shards
        /\ \A s \in Shards : shards'[s].elems = IF s = Home(k) THEN E2 ELSE shards[s].elems
        /\ Answer(k, answer)
        /\ \/ /\ E2 = E
              /\ \/ answer = ValueIn(Match(E, k))
                 \/ \E e \in Match(E, k) : answer = e.value
           \/ \E e \in Match(E, k) : E2 = E \ {e} /\ answer = e.value
           \/ \E e \in Match(E, k), v \in Values :
                /\ E2 = (E \ {e}) \cup {Element(e.key, v, e.hash)}
                /\ answer \in {e.value, v}
           \/ \E v \in Values :
                /\ Match(E, k) = {} /\ E2 = E \cup {Element(k, v, Hash[k])}
                /\ answer \in {None, v}
  BY FiledKeyCall DEF RInv
<1>2. form = "map" /\ form' = "map"
  BY KeyCallShape DEF RInv, Inv, MapCall
<1>3. Home(k) \in Shards
  BY <1>2, HomeIsAShard DEF RInv, Inv
<1>4. \A e : e \in Left <=> \E s \in Shards : e \in shards[s].elems
  BY <1>2, LeftIsAll
<1>5. \A e : e \in Left' <=> \E s \in Shards : e \in shards'[s].elems
  <2>1. \A e : e \in Left' <=> \/ e \in current'
                               \/ \E s \in Shards' : s >= rest' /\ e \in shards'[s].elems
    BY DEF Left
  <2>2. current' = {} /\ rest' = 0
    BY <1>2 DEF RInv, IterInv
  <2>3. Shards \subseteq Nat
    BY ShardsAreNumbers DEF RInv, Inv
  <2>. QED
    BY <1>1, <2>1, <2>2, <2>3
<1>6. {e \in Left : e.key = k} = Match(E, k)
  <2>1. \A e \in Left : e.key = k => e \in Match(E, k)
    BY <1>4, FiledMatch DEF RInv
  <2>2. \A e \in Match(E, k) : e \in Left /\ e.key = k
    BY <1>3, <1>4 DEF Match
  <2>. QED
    BY <2>1, <2>2
<1>7. \A s \in Shards : \A e \in E : e \in shards[s].elems => s = Home(k)
  BY <1>3 DEF RInv, Inv, ElementsAreFiled
<1>8. Left' = (Left \ E) \cup E2
  BY <1>1, <1>3, <1>4, <1>5, <1>7
<1>9. E \subseteq Left
  BY <1>3, <1>4
<1>10. Left \in SUBSET Elements /\ UniqueKeys(Left)
  BY LeftIsUnique
<1>11. \A e \in Match(E, k) : e \in E /\ e \in Left /\ e.key = k /\ e.value = ValueOf(Left, k)
  BY <1>6, <1>10, ValueOfPresent DEF Match
<1>. HIDE DEF E
<1>12. CASE /\ E2 = E
            /\ \/ answer = ValueIn(Match(E, k))
               \/ \E e \in Match(E, k) : answer = e.value
  <2>1. Left' = Left
    BY <1>8, <1>9, <1>12
  <2>2. answer = ValueOf(Left, k)
    BY <1>6, <1>11, <1>12 DEF ValueOf
  <2>. QED
    BY <1>1, <2>1, <2>2
<1>13. CASE \E e \in Match(E, k) : E2 = E \ {e} /\ answer = e.value
  <2>1. PICK e \in Match(E, k) : E2 = E \ {e} /\ answer = e.value
    BY <1>13
  <2>2. Left' = Left \ {e}
    BY <1>8, <1>9, <1>11, <2>1
  <2>. QED
    BY <1>1, <1>11, <2>1, <2>2
<1>14. CASE \E e \in Match(E, k), v \in Values :
              /\ E2 = (E \ {e}) \cup {Element(e.key, v, e.hash)}
              /\ answer \in {e.value, v}
  <2>1. PICK e \in Match(E, k), v \in Values :
              /\ E2 = (E \ {e}) \cup {Element(e.key, v, e.hash)}
              /\ answer \in {e.value, v}
    BY <1>14
  <2>2. Left' = (Left \ {e}) \cup {Element(k, v, e.hash)}
    BY <1>8, <1>9, <1>11, <2>1
  <2>. QED
    BY <1>1, <1>11, <2>1, <2>2
<1>15. CASE \E v \in Values :
              /\ Match(E, k) = {} /\ E2 = E \cup {Element(k, v, Hash[k])}
              /\ answer \in {None, v}
  <2>1. PICK v \in Values :
              /\ Match(E, k) = {} /\ E2 = E \cup {Element(k, v, Hash[k])}
              /\ answer \in {None, v}
    BY <1>15
  <2>2. Left' = Left \cup {Element(k, v, Hash[k])}
    BY <1>8, <1>9, <2>1
  <2>3. \A e \in Left : e.key # k
    BY <1>6, <2>1
  <2>. QED
    BY <1>1, <2>1, <2>2, <2>3
<1>. QED
  BY <1>1, <1>12, <1>13, <1>14, <1>15

\* OwningIter::next takes out one of the elements, and ends when there is
\* none: no shard is left out, and none is begun twice.
LEMMA OwningNextLeft ==
  ASSUME RInv, OwningNext
  PROVE  \/ \E e \in Left : Left' = Left \ {e} /\ Answer(e.key, e.value)
         \/ Left = {} /\ Left' = {} /\ reply' = <<>>
<1>1. Shards \subseteq Nat /\ rest \in Nat
  BY ShardsAreNumbers DEF RInv, Inv
<1>2. Shards' = Shards /\ shards' = shards
  BY DEF OwningNext, Shards
<1>3. \A e : e \in Left' <=> \/ e \in current'
                             \/ \E s \in Shards : s >= rest' /\ e \in shards[s].elems
  BY <1>2 DEF Left
<1>4. \A e : \A r, s \in Shards : e \in shards[r].elems /\ e \in shards[s].elems => r = s
  BY DEF RInv, Inv, ElementsAreFiled
<1>5. CASE \E e \in current :
             current' = current \ {e} /\ Answer(e.key, e.value) /\ UNCHANGED rest
  <2>1. PICK e \in current :
             current' = current \ {e} /\ Answer(e.key, e.value) /\ rest' = rest
    BY <1>5
  <2>2. PICK r \in Shards : r < rest /\ e \in shards[r].elems
    BY DEF RInv, IterInv
  <2>3. \A s \in Shards : s >= rest => e \notin shards[s].elems
    BY <1>1, <1>4, <2>2
  <2>4. Left' = Left \ {e}
    BY <1>3, <2>1, <2>3, LeftMembers
  <2>5. e \in Left
    BY LeftMembers
  <2>. QED
    BY <2>1, <2>4, <2>5
<1>6. CASE /\ current = {}
           /\ \E s \in Unread : \E e \in shards[s].elems :
                /\ \A other \in Unread : s <= other
                /\ current' = shards[s].elems \ {e} /\ rest' = s + 1
                /\ Answer(e.key, e.value)
  <2>1. PICK s \in Unread : \E e \in shards[s].elems :
                /\ \A other \in Unread : s <= other
                /\ current' = shards[s].elems \ {e} /\ rest' = s + 1
                /\ Answer(e.key, e.value)
    BY <1>6
  <2>2. PICK e \in shards[s].elems :
                /\ \A other \in Unread : s <= other
                /\ current' = shards[s].elems \ {e} /\ rest' = s + 1
                /\ Answer(e.key, e.value)
    BY <2>1
  <2>3. s \in Shards /\ s >= rest /\ s \in Nat
    BY <1>1 DEF Unread
  <2>4. \A r \in Shards : r >= rest /\ r < s => shards[r].elems = {}
    BY <1>1, <2>2, <2>3 DEF Unread
  <2>5. \A x : x \in Left <=> \E r \in Shards : r >= s /\ x \in shards[r].elems
    <3>1. \A x : x \in Left <=> \E r \in Shards : r >= rest /\ x \in shards[r].elems
      BY <1>6, LeftMembers
    <3>. QED
      BY <1>1, <2>3, <2>4, <3>1
  <2>6. \A r \in Shards : r >= s + 1 => e \notin shards[r].elems
    BY <1>1, <1>4, <2>3
  <2>7. \A x : x \in Left' <=> x \in Left /\ x # e
    <3>1. \A r \in Shards : r >= s <=> r = s \/ r >= s + 1
      BY <1>1, <2>3
    <3>. QED
      BY <1>3, <2>2, <2>3, <2>5, <2>6, <3>1
  <2>8. e \in Left
    BY <2>3, <2>5
  <2>. QED
    BY <2>2, <2>7, <2>8
<1>7. CASE current = {} /\ Unread = {} /\ reply' = <<>> /\ UNCHANGED <<current, rest>>
  <2>1. \A s \in Shards : s >= rest => shards[s].elems = {}
    BY <1>7 DEF Unread
  <2>2. Left = {}
    BY <1>7, <2>1, LeftMembers
  <2>3. Left' = {}
    BY <1>3, <1>7, <2>1
  <2>. QED
    BY <1>7, <2>2, <2>3
<1>. QED
  BY <1>5, <1>6, <1>7 DEF OwningNext

-----------------------------------------------------------------------------
(* The invariant *)

LEMMA InitRInv ==
  ASSUME Init
  PROVE  RInv
BY InitInv DEF RInv, IterInv, Init

LEMMA NoIterInv ==
  ASSUME current' = {}, rest' = 0
  PROVE  IterInv'
BY DEF IterInv

LEMMA OwningNextKeepsIterInv ==
  ASSUME RInv, OwningNext
  PROVE  IterInv'
<1>1. Shards \subseteq Nat /\ rest \in Nat
  BY ShardsAreNumbers DEF RInv, Inv
<1>2. Shards' = Shards /\ shards' = shards /\ form' = "iter"
  BY DEF OwningNext, Shards
<1>3. CASE \E e \in current :
             current' = current \ {e} /\ Answer(e.key, e.value) /\ UNCHANGED rest
  BY <1>2, <1>3 DEF RInv, IterInv
<1>4. CASE \E s \in Unread : \E e \in shards[s].elems :
             /\ current' = shards[s].elems \ {e} /\ rest' = s + 1
             /\ Answer(e.key, e.value)
  <2>1. PICK s \in Unread : \E e \in shards[s].elems :
             /\ current' = shards[s].elems \ {e} /\ rest' = s + 1
             /\ Answer(e.key, e.value)
    BY <1>4
  <2>2. s \in Shards /\ s < rest'
    <3>1. rest' = s + 1
      BY <2>1
    <3>2. s \in Shards /\ s \in Nat
      BY <1>1 DEF Unread
    <3>. QED
      BY <3>1, <3>2
  <2>3. \A e \in current' : e \in shards'[s].elems
    BY <1>2, <2>1
  <2>. QED
    BY <1>2, <2>2, <2>3 DEF IterInv
<1>5. CASE UNCHANGED <<current, rest>>
  BY <1>2, <1>5 DEF RInv, IterInv
<1>. QED
  BY <1>3, <1>4, <1>5 DEF OwningNext

LEMMA NextKeepsRInv ==
  ASSUME RInv, ~ForeignKeys, [Next]_vars
  PROVE  RInv'
<1>1. Inv'
  BY NextKeepsInv DEF RInv
<1>2. ASSUME NEW c \in Capacities, NEW n \in ShardAmounts, New(c, n)
      PROVE  IterInv'
  BY <1>2, NoIterInv DEF RInv, IterInv, New
<1>3. ASSUME NEW k \in Keys, KeyCall(k)
      PROVE  IterInv'
  <2>1. MapCall
    BY <1>3, KeyCallShape DEF RInv, Inv
  <2>. QED
    BY <2>1, NoIterInv DEF RInv, IterInv, MapCall
<1>4. ASSUME NEW n \in Additionals, TryReserve(n)
      PROVE  IterInv'
  BY <1>4, NoIterInv DEF RInv, IterInv, TryReserve
<1>5. ASSUME OwningNext
      PROVE  IterInv'
  BY <1>5, OwningNextKeepsIterInv
<1>6. ASSUME DropAll \/ IntoReadOnly \/ IntoInner \/ IntoIter
      PROVE  IterInv'
  BY <1>6, NoIterInv DEF RInv, IterInv, DropAll, IntoReadOnly, IntoInner, IntoIter
<1>7. ASSUME (\E k \in Keys : Get(k)) \/ UNCHANGED vars
      PROVE  IterInv'
  BY <1>7 DEF RInv, IterInv, Get, vars, Shards
<1>8. IterInv'
  BY <1>2, <1>3, <1>4, <1>5, <1>6, <1>7, NextCases
<1>. QED
  BY <1>1, <1>8 DEF RInv

-----------------------------------------------------------------------------
(* Refinement *)

LEMMA KeyCallImplements ==
  ASSUME RInv, RInv', ~ForeignKeys, Contents = AsMap(Left), Contents' = AsMap(Left'),
         NEW k \in Keys, KeyCall(k)
  PROVE  Plain!Next
<1>1. PICK answer \in Values \cup {None} :
        /\ Answer(k, answer)
        /\ \/ Left' = Left /\ answer = ValueOf(Left, k)
           \/ \E e \in Left : e.key = k /\ Left' = Left \ {e} /\ answer = e.value
           \/ \E e \in Left, v \in Values :
                /\ e.key = k /\ Left' = (Left \ {e}) \cup {Element(k, v, e.hash)}
                /\ answer \in {e.value, v}
           \/ \E v \in Values :
                /\ \A e \in Left : e.key # k
                /\ Left' = Left \cup {Element(k, v, Hash[k])}
                /\ answer \in {None, v}
  BY KeyCallLeft
<1>2. reply' = <<k, answer>>
  BY <1>1 DEF Answer
<1>3. Left \in SUBSET Elements /\ UniqueKeys(Left)
  BY LeftIsUnique
<1>4. Contents[k] = ValueOf(Left, k)
  BY DEF AsMap
<1>5. CASE Left' = Left /\ answer = ValueOf(Left, k)
  <2>1. Plain!Look(k)
    BY <1>2, <1>4, <1>5 DEF Plain!Look, Plain!Answer
  <2>. QED
    BY <2>1 DEF Plain!Next
<1>6. CASE \E e \in Left : e.key = k /\ Left' = Left \ {e} /\ answer = e.value
  <2>1. PICK e \in Left : e.key = k /\ Left' = Left \ {e} /\ answer = e.value
    BY <1>6
  <2>2. Contents' = [Contents EXCEPT ![k] = None]
    BY <1>3, <2>1, RemoveFromMap
  <2>3. answer = Contents[k]
    BY <1>3, <1>4, <2>1, ValueOfPresent
  <2>4. Plain!Take(k)
    BY <1>2, <2>2, <2>3 DEF Plain!Take, Plain!Answer, Plain!Set
  <2>. QED
    BY <2>4 DEF Plain!Next
<1>7. CASE \E e \in Left, v \in Values :
             /\ e.key = k /\ Left' = (Left \ {e}) \cup {Element(k, v, e.hash)}
             /\ answer \in {e.value, v}
  <2>1. PICK e \in Left, v \in Values :
             /\ e.key = k /\ Left' = (Left \ {e}) \cup {Element(k, v, e.hash)}
             /\ answer \in {e.value, v}
    BY <1>7
  <2>2. e \in Elements /\ Element(k, v, e.hash) \in Elements
    BY <1>3 DEF Element, Elements
  <2>3. Element(k, v, e.hash).key = k /\ Element(k, v, e.hash).value = v
    BY DEF Element
  <2>4. Contents' = [Contents EXCEPT ![k] = v]
    BY <1>3, <2>1, <2>2, <2>3, ReplaceInMap
  <2>5. Contents[k] = e.value /\ Contents[k] # None
    BY <1>3, <1>4, <2>1, ValueOfPresent
  <2>6. Plain!Put(k, v) \/ Plain!Modify(k, v)
    BY <1>2, <2>1, <2>4, <2>5 DEF Plain!Put, Plain!Modify, Plain!Answer, Plain!Set
  <2>. QED
    BY <2>6 DEF Plain!Next
<1>8. CASE \E v \in Values :
             /\ \A e \in Left : e.key # k
             /\ Left' = Left \cup {Element(k, v, Hash[k])}
             /\ answer \in {None, v}
  <2>1. PICK v \in Values :
             /\ \A e \in Left : e.key # k
             /\ Left' = Left \cup {Element(k, v, Hash[k])}
             /\ answer \in {None, v}
    BY <1>8
  <2>2. Element(k, v, Hash[k]) \in Elements
    BY HashAssumption DEF Element, Elements
  <2>3. Element(k, v, Hash[k]).key = k /\ Element(k, v, Hash[k]).value = v
    BY DEF Element
  <2>4. Contents' = [Contents EXCEPT ![k] = v]
    BY <1>3, <2>1, <2>2, <2>3, AddToMap
  <2>5. Contents[k] = None
    BY <1>4, <2>1, ValueOfAbsent
  <2>6. Plain!Put(k, v) \/ Plain!PutIfAbsent(k, v)
    BY <1>2, <2>1, <2>4, <2>5 DEF Plain!Put, Plain!PutIfAbsent, Plain!Answer, Plain!Set
  <2>. QED
    BY <2>6 DEF Plain!Next
<1>. QED
  BY <1>1, <1>5, <1>6, <1>7, <1>8

LEMMA OwningNextImplements ==
  ASSUME RInv, Contents = AsMap(Left), Contents' = AsMap(Left'), OwningNext
  PROVE  Plain!Next
<1>1. Left \in SUBSET Elements /\ UniqueKeys(Left)
  BY LeftIsUnique
<1>2. CASE \E e \in Left : Left' = Left \ {e} /\ Answer(e.key, e.value)
  <2>1. PICK e \in Left : Left' = Left \ {e} /\ Answer(e.key, e.value)
    BY <1>2
  <2>2. Contents' = [Contents EXCEPT ![e.key] = None]
    BY <1>1, <2>1, RemoveFromMap
  <2>3. e.key \in Keys /\ Contents[e.key] = e.value
    BY <1>1, ValueOfPresent DEF AsMap
  <2>4. Plain!Take(e.key)
    BY <2>1, <2>2, <2>3 DEF Answer, Plain!Take, Plain!Answer, Plain!Set
  <2>. QED
    BY <2>3, <2>4 DEF Plain!Next
<1>3. CASE Left = {} /\ Left' = {} /\ reply' = <<>>
  <2>1. \A k \in Keys : ValueOf(Left, k) = None
    BY <1>3, ValueOfAbsent
  <2>2. Plain!End
    BY <1>3, <2>1 DEF AsMap, Plain!End, Plain!Empty
  <2>. QED
    BY <2>2 DEF Plain!Next
<1>. QED
  BY <1>2, <1>3, OwningNextLeft

\* A step that leaves no element.
LEMMA EmptyContents ==
  ASSUME RInv', Contents' = AsMap(Left'), form' # "iter",
         \A s \in Shards' : shards'[s].elems = {}
  PROVE  Contents' = Plain!Empty
<1>1. current' = {}
  BY DEF RInv, IterInv
<1>2. Left' = {}
  BY <1>1 DEF Left
<1>3. \A k \in Keys : ValueOf(Left', k) = None
  BY <1>2, ValueOfAbsent
<1>. QED
  BY <1>3 DEF AsMap, Plain!Empty

\* A step that leaves the elements.
LEMMA SameLeft ==
  ASSUME Shards' = Shards, UNCHANGED <<current, rest>>,
         \A s \in Shards : shards'[s].elems = shards[s].elems
  PROVE  Left' = Left
<1>1. \A e : e \in Left' <=> \/ e \in current'
                             \/ \E s \in Shards' : s >= rest' /\ e \in shards'[s].elems
  BY DEF Left
<1>. QED
  BY <1>1, LeftMembers

LEMMA NextImplements ==
  ASSUME RInv, RInv', ~ForeignKeys, Contents = AsMap(Left), Contents' = AsMap(Left'),
         [Next]_vars
  PROVE  [Plain!Next]_(Plain!vars)
<1>1. TypeOK /\ TypeOK'
  BY DEF RInv, Inv
<1>2. ASSUME NEW c \in Capacities, NEW n \in ShardAmounts, New(c, n)
      PROVE  Plain!Next
  <2>1. PICK r \in Rooms : \A s \in 0..(n - 1) : shards'[s] = Table({}, r)
    BY <1>1, <1>2, NewKeepsTypes
  <2>2. Shards' = 0..(n - 1)
    BY <1>1, <1>2, NewKeepsTypes
  <2>3. \A s \in Shards' : shards'[s].elems = {}
    BY <2>1, <2>2 DEF Table
  <2>4. form' = "map" /\ NoAnswer
    BY <1>2 DEF New
  <2>5. Contents' = Plain!Empty
    BY <2>3, <2>4, EmptyContents
  <2>. QED
    BY <2>4, <2>5 DEF NoAnswer, Plain!Next, Plain!Make, Plain!NoReply
<1>3. ASSUME NEW k \in Keys, KeyCall(k)
      PROVE  Plain!Next
  BY <1>3, KeyCallImplements
<1>4. ASSUME NEW n \in Additionals, TryReserve(n)
      PROVE  Plain!Next
  <2>1. /\ Shards' = Shards
        /\ \A s \in Shards : \/ shards'[s].elems = shards[s].elems
                             \/ shards'[s].elems = Rehash(shards[s].elems)
    BY <1>1, <1>4, TryReserveShape
  <2>2. \A s \in Shards : shards'[s].elems = shards[s].elems
    BY <1>1, <2>1, RehashFiled DEF RInv, Inv
  <2>3. UNCHANGED <<current, rest>> /\ NoAnswer
    BY <1>4 DEF TryReserve
  <2>4. Left' = Left
    BY <2>1, <2>2, <2>3, SameLeft
  <2>. QED
    BY <2>3, <2>4 DEF NoAnswer, Plain!Next, Plain!Keep, Plain!NoReply
<1>5. ASSUME OwningNext
      PROVE  Plain!Next
  BY <1>5, OwningNextImplements
<1>6. ASSUME DropAll
      PROVE  Plain!Next
  <2>1. form' = "none" /\ NoAnswer
    BY <1>6 DEF DropAll
  <2>2. Shards' = {}
    BY <1>1, <1>6, DropKeepsTypes
  <2>3. Contents' = Plain!Empty
    BY <2>1, <2>2, EmptyContents
  <2>. QED
    BY <2>1, <2>3 DEF NoAnswer, Plain!Next, Plain!Make, Plain!NoReply
<1>7. ASSUME IntoReadOnly \/ IntoInner \/ IntoIter
      PROVE  Plain!Next
  <2>1. Shards' = Shards /\ UNCHANGED <<shards, current, rest>> /\ NoAnswer
    BY <1>7 DEF IntoReadOnly, IntoInner, IntoIter, Shards
  <2>2. Left' = Left
    BY <2>1, SameLeft
  <2>. QED
    BY <2>1, <2>2 DEF NoAnswer, Plain!Next, Plain!Keep, Plain!NoReply
<1>8. ASSUME NEW k \in Keys, Get(k)
      PROVE  Plain!Next
  <2>1. Shards' = Shards /\ UNCHANGED <<shards, current, rest>>
    BY <1>8 DEF Get, Shards
  <2>2. Left' = Left
    BY <2>1, SameLeft
  <2>3. Contents[k] = ValueIn(Found(k))
    BY <1>8 DEF Get, Contents
  <2>4. Plain!Look(k)
    BY <1>8, <2>2, <2>3 DEF Get, Answer, Plain!Look, Plain!Answer
  <2>. QED
    BY <2>4 DEF Plain!Next
<1>9. ASSUME UNCHANGED vars
      PROVE  UNCHANGED Plain!vars
  <2>1. Shards' = Shards /\ UNCHANGED <<shards, current, rest, reply>>
    BY <1>9 DEF vars, Shards
  <2>2. Left' = Left
    BY <2>1, SameLeft
  <2>. QED
    BY <2>1, <2>2 DEF Plain!vars
<1>. QED
  BY <1>2, <1>3, <1>4, <1>5, <1>6, <1>7, <1>8, <1>9, NextCases

\* Whoever has a map to himself sees a function from keys to values: the
\* answers of every call, the contents of a view that the map becomes, and
\* the pairs that an owning iterator gives, each once (src/mapref/entrymut.rs,
\* src/read_only.rs:123, src/iter.rs:37).
THEOREM OwnedMapImplementsPlainMap == ~ForeignKeys => (Spec => ImplementsPlainMap)
<1>. SUFFICES ASSUME ~ForeignKeys
              PROVE  Spec => ImplementsPlainMap
  OBVIOUS
<1>1. Init => RInv
  BY InitRInv
<1>2. RInv /\ [Next]_vars => RInv'
  BY NextKeepsRInv
<1>3. RInv => Contents = AsMap(Left)
  BY ContentsAreLeft
<1>4. RInv' => (Contents = AsMap(Left))'
  BY <1>3, PTL
<1>5. Init => Plain!Init
  BY DEF Init, Contents, Plain!Init, Plain!Empty, Plain!NoReply
<1>6. RInv /\ RInv' /\ [Next]_vars => [Plain!Next]_(Plain!vars)
  BY <1>3, <1>4, NextImplements
<1>. QED
  BY <1>1, <1>2, <1>5, <1>6, PTL DEF Spec, ImplementsPlainMap, Plain!Spec
=============================================================================
