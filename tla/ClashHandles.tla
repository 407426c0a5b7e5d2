---------------------------- MODULE ClashHandles ----------------------------
(***************************************************************************)
(* What callers do with the entries and references of the map (src/mapref) *)
(* between their calls.  Each handle of the map is one of the table with a *)
(* key beside it, and each operation one or two of the table's: what is    *)
(* added are the closures and the ways to fail, each of which must leave   *)
(* the guard in the result or drop it.                                     *)
(***************************************************************************)
EXTENDS ClashTable

IsEntry(t, i) == held[t][i].kind \in EntryKinds

\* The operation ends with the handle: the key or the value is given to the
\* caller, or a closure panics, or returns an error.
Ends(t, i) == DropHandle(t, i) /\ UNCHANGED shards

-----------------------------------------------------------------------------
(* Entries.  The closure of and_modify may panic, before or after it has    *)
(* changed the value.                                                       *)

AndModify(t, i) ==
  /\ held[t][i].kind = "Occupied"
  /\ WriteThrough(t, i) \/ OccupiedReplace(t, i) \/ Ends(t, i)

IntoKey(t, i) == IsEntry(t, i) /\ Ends(t, i)

\* or_default, or_insert, or_insert_with and or_try_insert_with.  A value that
\* cannot be made leaves the entry vacant.
OrInsert(t, i) ==
  \/ OccupiedIntoMut(t, i)
  \/ VacantInsert(t, i, "RefMut")
  \/ held[t][i].kind = "Vacant" /\ Ends(t, i)

EntryInsert(t, i) == OccupiedInsert(t, i, "RefMut") \/ VacantInsert(t, i, "RefMut")
EntryInsertEntry(t, i) == OccupiedInsert(t, i, "Occupied") \/ VacantInsert(t, i, "Occupied")

\* get_mut and insert; into_ref; remove and remove_entry; replace_entry, which
\* makes a RefMut of the entry for as long as it takes.
OccupiedOps(t, i) ==
  /\ held[t][i].kind = "Occupied"
  /\ \/ WriteThrough(t, i) \/ OccupiedIntoMut(t, i)
     \/ OccupiedRemove(t, i) \/ OccupiedReplace(t, i)

-----------------------------------------------------------------------------
(* References.  map and try_map give the reference to a closure, which may  *)
(* panic; the guard and the key go on to the result, or back to the caller  *)
(* if the closure of try_map declines.                                      *)

\* (mutant) The guard stays in the reference that map has taken apart.
MapRefUnguarded(t, i) ==
  /\ held[t][i].kind = "Ref"
  /\ PutHandle(t, i, Handle("Ref", -1, held[t][i].keys))
  /\ UNCHANGED shards

MapRef(t, i) ==
  /\ held[t][i].kind = "Ref"
  /\ UNCHANGED held \/ DropHandle(t, i)
  /\ UNCHANGED shards

\* This closure may change the value.
MapRefMut(t, i) ==
  /\ held[t][i].kind = "RefMut"
  /\ \E k \in held[t][i].keys, v \in Values : Store(k, v)
  /\ UNCHANGED held \/ DropHandle(t, i)

\* value_mut and pair_mut
ValueMut(t, i) == held[t][i].kind = "RefMut" /\ WriteThrough(t, i)
MultiValueMut(t, i) == held[t][i].kind = "RefMutMulti" /\ WriteThrough(t, i)

DowngradeRef(t, i) == Downgrade(t, i)

\* Clones of a RefMulti and of an Iter.
CloneMulti(t, i) == held[t][i].kind = "RefMulti" /\ CloneHandle(t, i)
CloneIter(t, i) == held[t][i].kind = "Iter" /\ CloneHandle(t, i)

-----------------------------------------------------------------------------
Use(t, i) ==
  \/ AndModify(t, i) \/ IntoKey(t, i) \/ OrInsert(t, i)
  \/ EntryInsert(t, i) \/ EntryInsertEntry(t, i) \/ OccupiedOps(t, i)
  \/ MapRef(t, i) \/ MapRefMut(t, i) \/ ValueMut(t, i) \/ MultiValueMut(t, i)
  \/ DowngradeRef(t, i) \/ CloneMulti(t, i) \/ CloneIter(t, i)
=============================================================================
