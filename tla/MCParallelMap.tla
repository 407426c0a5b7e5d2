---------------------------- MODULE MCParallelMap ---------------------------
(* The instance of ParallelMap that TLC checks: t1 calls the pool, which has *)
(* two workers, while t2 reads the map, changes it or goes over it.          *)
EXTENDS ParallelMap, TLC

CONSTANTS t1, t2, w1, w2, a, b, c, v1

FourThreads == {t1, t2, w1, w2}
ThreeKeys == {a, b, c}
TwoShards == [k \in {a, b, c} |-> IF k = c THEN 1 ELSE 0]
OneCallEach == [t \in {t1, t2, w1, w2} |-> IF t \in {t1, t2} THEN 1 ELSE 0]
Calls ==
  [t \in {t1, t2, w1, w2} |->
     CASE t = t1 -> {"par_iter", "par_iter_mut", "into_par_iter", "view_par_iter", "iter_mut"}
       [] t = t2 -> {"alter_all", "insert", "get", "view"}
       [] OTHER -> {}]
=============================================================================
