------------------------------ MODULE ClashSet ------------------------------
(***************************************************************************)
(* The set (src/set.rs, src/iter_set.rs, src/setref): a map from keys to   *)
(* one value that says nothing.  Each call is one of the map, so the set   *)
(* has the map's steps; what is its own is which calls there are and how   *)
(* the answers of the map are turned into those of the set.  All that a    *)
(* caller gets of an element is shared: there is no way to change a key.   *)
(***************************************************************************)
EXTENDS ParallelMap

VARIABLE
  answered  \* of each key: the inserts that answered true since it was last
            \* known to be absent, less the removals that answered with the key

svars == <<pvars, answered>>

-----------------------------------------------------------------------------
(* The calls of the set, by the names of those of the map.                  *)

KeyCallsOfSet == {"insert", "remove", "remove_if", "get", "contains_key"}

\* is_empty is len() = 0, and capacity locks as len does.
WholeCallsOfSet == {"shrink_to_fit", "retain", "len", "clear"}

\* Clone and Debug copy the elements one shard after the other.
CopyOfSet == {"fold"}
SerializeOfSet == {"serialize"}
IterOfSet == {"iter"}
ParCallsOfSet == {"par_iter", "par_collect", "into_par_iter", "par_extend"}

SetOps == KeyCallsOfSet \cup WholeCallsOfSet \cup CopyOfSet \cup SerializeOfSet
          \cup IterOfSet \cup ParCallsOfSet

ASSUME SetAssumption ==
  /\ \E unit \in Values : Values = {unit}
  /\ \A t \in Threads : Ops[t] \subseteq SetOps

-----------------------------------------------------------------------------
(* The answers.  A call of the map on a key answers with the old value.     *)

Inserted(old) == old = None
Removed(old) == old # None

\* The call of t on key k answers in this step.
Answers(t, k, ops) ==
  /\ Key(t) = k /\ Outer(call[t].op) \in ops /\ call'[t].op = "return"

\* t takes elements out without an answer for each of them.
Sweeps(t) ==
  /\ call[t] # call'[t]
  /\ call[t].op \in {"retain", "clear", "into_par_iter", "par_closure"}

AnsweredOf(k) ==
  IF \E t \in Threads : Answers(t, k, {"insert"}) /\ Inserted(call'[t].result)
  THEN answered[k] + 1
  ELSE IF \E t \in Threads :
            Answers(t, k, {"remove", "remove_if"}) /\ Removed(call'[t].result)
  THEN answered[k] - 1
  ELSE IF (\E t \in Threads : Sweeps(t)) /\ shards'[ShardOf[k]][k] = None
  THEN 0
  ELSE answered[k]

SetInit ==
  /\ PInit
  /\ answered = [k \in Keys |-> IF Stored(k) # None THEN 1 ELSE 0]

SetNext == PNext /\ answered' = [k \in Keys |-> AnsweredOf(k)]

SetSpec == SetInit /\ [][SetNext]_svars
SetFairSpec == SetSpec /\ PFairness
-----------------------------------------------------------------------------
\* The answers add up.  Of two threads that insert the same key one is told
\* that it was new, of two that remove it one gets it, whatever they do it
\* with: a key is in the set just when one more insert has answered true than
\* removals have answered with the key.
AnswersAddUp ==
  \A k \in Keys : answered[k] = IF Stored(k) # None THEN 1 ELSE 0
=============================================================================
