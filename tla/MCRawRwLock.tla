---------------------------- MODULE MCRawRwLock -----------------------------
(* The instances of RawRwLock that TLC checks. *)
EXTENDS RawRwLock, TLC

CONSTANTS t1, t2, t3, t4

\* Four threads, of which only t1 makes a second call.
OneEachTwoForFirst == [t \in Threads |-> IF t = t1 THEN 2 ELSE 1]

\* Three threads with one call each.
OneEach == [t \in Threads |-> 1]

OthersAlike == Permutations(Threads \ {t1}) \cup Permutations(Slots)
=============================================================================
