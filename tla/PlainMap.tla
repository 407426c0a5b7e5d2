------------------------------ MODULE PlainMap ------------------------------
(***************************************************************************)
(* What a map promises to somebody who has it to himself: a function from  *)
(* keys to values, and for each call the pair that it answers.  There are  *)
(* no shards, no hashes and no capacity in it, and no difference between a *)
(* map, a read-only view of it and what an owning iterator still has.      *)
(***************************************************************************)
CONSTANTS Keys, Values, None

VARIABLES
  contents,  \* the value of each key, or None
  reply      \* what the last call answered: a key and its value, or None

vars == <<contents, reply>>

Empty == [k \in Keys |-> None]
NoReply == <<None, None>>
Answer(k, v) == reply' = <<k, v>>
Set(k, v) == contents' = [contents EXCEPT ![k] = v]

Init == contents = Empty /\ reply = NoReply

\* A map is made, or dropped.
Make == reply' = NoReply /\ contents' = Empty

\* The answer is the value of the key, and nothing changes.
Look(k) == Answer(k, contents[k]) /\ UNCHANGED contents

\* The old value is the answer.
Put(k, v) == Answer(k, contents[k]) /\ Set(k, v)

\* The value that the key has afterwards is the answer.
PutIfAbsent(k, v) ==
  \/ contents[k] = None /\ Answer(k, v) /\ Set(k, v)
  \/ contents[k] # None /\ Look(k)

Modify(k, v) ==
  \/ contents[k] = None /\ Look(k)
  \/ contents[k] # None /\ Answer(k, v) /\ Set(k, v)

\* A pair is taken out, by its key or by an iterator.
Take(k) == Answer(k, contents[k]) /\ Set(k, None)

\* A call that is about the map as a whole, and changes nothing in it.
Keep == reply' = NoReply /\ UNCHANGED contents

\* An iterator has nothing left.
End == reply' = <<>> /\ contents = Empty /\ UNCHANGED contents

Next ==
  \/ Make \/ Keep \/ End
  \/ \E k \in Keys : Take(k) \/ Look(k)
  \/ \E k \in Keys, v \in Values : Put(k, v) \/ PutIfAbsent(k, v) \/ Modify(k, v)

Spec == Init /\ [][Next]_vars
=============================================================================
