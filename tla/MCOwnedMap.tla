----------------------------- MODULE MCOwnedMap -----------------------------
(* OwnedMap with words of 9 bits: 7 for the tag and 2 that select a shard.  *)
EXTENDS OwnedMap, TLC

CONSTANTS a, b, c

\* a and c have the same hash, and are in one of four shards, b in another;
\* of two shards, each has one of a and b.
MCHash == (a :> 1) @@ (b :> 22) @@ (c :> 1)
MCRooms == {0, 1, 3}
MCCapacities == {0, 1, 5, 508, 510}
MCShardAmounts == 0..4
MCAdditionals == {2, 9}
=============================================================================
