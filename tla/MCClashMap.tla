----------------------------- MODULE MCClashMap -----------------------------
(* The instances of ClashMap that TLC checks. *)
EXTENDS ClashMap, TLC

CONSTANTS t1, t2, a, c, v1, v2

\* Two threads and two shards, with one key in each.
TwoThreads == {t1, t2}
TwoKeys == {a, c}
OneKeyPerShard == [k \in {a, c} |-> IF k = c THEN 1 ELSE 0]
OneCallEach == [t \in {t1, t2} |-> 1]
TwoCallsEach == [t \in {t1, t2} |-> 2]
TwoCallsAndOne == [t \in {t1, t2} |-> IF t = t1 THEN 2 ELSE 1]

\* Any call on one key; t1 also those that do not wait.
KeyCalls ==
  [t \in {t1, t2} |-> KeyOps \cup IF t = t1 THEN {"try_get", "try_get_mut", "try_entry"} ELSE {}]

\* What it takes to see two threads wait for each other.
GetAndIterMut == [t \in {t1, t2} |-> {"get", "iter_mut"}]

\* A closure that panics.
Viewing == [t \in {t1, t2} |-> {"view"}]
=============================================================================
