----------------------------- MODULE MCClashSet -----------------------------
(* The instance of ClashSet that TLC checks: t1 calls the pool, which has two *)
(* workers, or inserts, while t2 inserts and removes.                         *)
EXTENDS ClashSet, TLC

CONSTANTS t1, t2, w1, w2, a, b, c, unit

FourThreads == {t1, t2, w1, w2}
ThreeKeys == {a, b, c}
TwoShards == [k \in {a, b, c} |-> IF k = c THEN 1 ELSE 0]
OneCallAndTwo ==
  [t \in {t1, t2, w1, w2} |-> CASE t = t1 -> 1 [] t = t2 -> 2 [] OTHER -> 0]
Calls ==
  [t \in {t1, t2, w1, w2} |->
     CASE t = t1 -> {"par_extend", "par_collect", "insert", "remove"}
       [] t = t2 -> {"insert", "remove", "remove_if", "retain", "len"}
       [] OTHER -> {}]

\* The workers are alike, and so are the two keys of the first shard.
Alike == Permutations({w1, w2}) \cup Permutations({a, b})
=============================================================================
