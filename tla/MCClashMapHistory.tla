-------------------------- MODULE MCClashMapHistory -------------------------
(* The instances of ClashMapHistory that TLC checks: t1 goes over the map   *)
(* once while t2 makes two calls.                                           *)
EXTENDS ClashMapHistory, TLC

CONSTANTS t1, t2, a, b, c, v1, v2

TwoThreads == {t1, t2}
ThreeKeys == {a, b, c}
TwoShards == [k \in {a, b, c} |-> IF k = c THEN 1 ELSE 0]
OneCallAndTwo == [t \in {t1, t2} |-> IF t = t1 THEN 1 ELSE 2]

\* Every call and every iterator that goes over the map.
GoingOver ==
  [t \in {t1, t2} |-> IF t = t1 THEN Traversals \cup {"alter_all", "iter", "iter_mut"}
                      ELSE {"shl", "remove", "iter_mut", "try_get"}]
IsEmpty ==
  [t \in {t1, t2} |-> IF t = t1 THEN {"len"} ELSE {"insert", "remove"}]
=============================================================================
