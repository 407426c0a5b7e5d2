-------------------------- MODULE ClashMapHistory ---------------------------
(***************************************************************************)
(* ClashMap with a history of every call on the whole map and of every     *)
(* iterator: what was in the map since it began, and what it yielded.  The *)
(* history changes nothing; it lets the properties say what a caller gets  *)
(* from an operation that goes over the shards one at a time while other   *)
(* threads change them.                                                    *)
(***************************************************************************)
EXTENDS ClashMap

VARIABLE hist   \* of the call or the iterator in each slot of each thread

hvars == <<vars, hist>>

Iterators == {"Iter", "IterMut"}
AllPresent == UNION {Present(s) : s \in Shards}
Size == Cardinality(UNION {{<<s, k>> : k \in Present(s)} : s \in Shards})

\* always and ever: the keys that were in the map all the time and at any
\* time; sizes: the sizes that it had; yielded: what the iterator yielded.
Blank == [always |-> {}, ever |-> {}, sizes |-> {}, yielded |-> {}]
Histories == [always : SUBSET Keys, ever : SUBSET Keys, sizes : SUBSET Nat,
              yielded : SUBSET Keys]

IsIterator(t, i) == held[t][i].kind \in Iterators
InUse(t, i) == IsIterator(t, i) \/ (GoesOver(t) /\ Slot(t) = i)

\* The iterator that a new one was cloned from.
Source(t, i) == CHOOSE j \in Slots : IsIterator(t, j) /\ held[t][j] = held[t][i]'

\* What the caller gets from next in this step.
Received(t) == UNION {held'[t][j].keys : j \in FreeSlots(t)}

HistoryOf(t, i) ==
  IF ~InUse(t, i)' THEN Blank
  ELSE IF InUse(t, i)
  THEN [always |-> hist[t][i].always \cap AllPresent',
        ever |-> hist[t][i].ever \cup AllPresent',
        sizes |-> hist[t][i].sizes \cup {Size'},
        yielded |-> hist[t][i].yielded \cup
          (IF In(t, "next") /\ Slot(t) = i THEN Received(t) ELSE {})]
  ELSE IF held'[t][i].shard # -1 THEN hist[t][Source(t, i)]
  ELSE [Blank EXCEPT !.always = AllPresent', !.ever = AllPresent', !.sizes = {Size'}]

HInit == Init /\ hist = [t \in Threads |-> [i \in Slots |-> Blank]]
HNext == Next /\ hist' = [t \in Threads |-> [i \in Slots |-> HistoryOf(t, i)]]
HSpec == HInit /\ [][HNext]_hvars

-----------------------------------------------------------------------------
\* An iterator (iter, iter_mut and its clones) does not yield a key that it
\* has yielded before, although its owner may have let the shard go since.
IteratorsYieldOnce ==
  \A t \in Threads, i \in Slots :
    IsIterator(t, i) => held[t][i].keys \cap hist[t][i].yielded = {}

\* When next returns None, the iterator has yielded every key that was in the
\* map all along, and none that was never in it.
NextReturnsNone(t) == In(t, "next") /\ call'[t] = Idle /\ held'[t] = held[t]
IteratorsYieldWhatStays ==
  [][\A t \in Threads : NextReturnsNone(t) =>
       LET h == hist[t][Slot(t)] IN
       h.always \subseteq h.yielded /\ h.yielded \subseteq h.ever]_hvars

\* A traversal of t returns in this step.
Returns(t, op) == In(t, op) /\ call'[t].op = "return"
Since(t) == hist[t][Slot(t)]

\* len is at least the number of keys that were there all along, and at most
\* the number of those that were ever there.
LenIsBounded ==
  [][\A t \in Threads : Returns(t, "len") =>
       /\ call'[t].count >= Cardinality(Since(t).always)
       /\ call'[t].count <= Cardinality(Since(t).ever)]_hvars

\* A copy (clone, and what Debug goes over) has what was there all
\* along, and nothing that was never there.
CopyHasWhatStays ==
  [][\A t \in Threads : Returns(t, "fold") =>
       LET copied == {k \in Keys : call'[t].gathered[k] # None} IN
       Since(t).always \subseteq copied /\ copied \subseteq Since(t).ever]_hvars

\* serialize announces len() elements before it hands over any: if no key came or
\* went since it began, that is how many it hands over, and they are all of them.
AnnouncedLenIsRight ==
  [][\A t \in Threads :
       Returns(t, "serialize_entries") /\ Since(t).always = Since(t).ever =>
         LET copied == {k \in Keys : call'[t].gathered[k] # None} IN
         /\ copied = Since(t).ever
         /\ call'[t].count = Cardinality(copied)]_hvars

\* When clear returns, what is in the map was inserted since clear was called.
ClearLeavesOnlyNewKeys ==
  [][\A t \in Threads : Returns(t, "clear") => Since(t).always \cap AllPresent' = {}]_hvars

\* "Checks if the map is empty or not" (is_empty, that is len = 0): if it says
\* that the map is empty then the map was empty at some moment of the call.
EmptyMeansWasEmpty ==
  [][\A t \in Threads : Returns(t, "len") /\ call'[t].count = 0
       => 0 \in Since(t).sizes]_hvars
=============================================================================
