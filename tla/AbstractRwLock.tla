--------------------------- MODULE AbstractRwLock ---------------------------
(***************************************************************************)
(* What a readers-writer lock of the crate promises to the rest of it: any *)
(* number of shared guards or one exclusive guard, an exclusive guard that *)
(* becomes a shared one without a gap, and guards that another thread than *)
(* the one that acquired them may drop (they are Send).                    *)
(*                                                                         *)
(* The specification says nothing of how a thread waits.  RawRwLock is the *)
(* implementation, and the sharded table is built on this specification.   *)
(***************************************************************************)
CONSTANTS Threads, Slots

VARIABLES readGuards,   \* <<t, i>>: thread t owns a shared guard in slot i
          writers       \* the threads that own an exclusive guard

vars == <<readGuards, writers>>

Init == readGuards = {} /\ writers = {}

AcquireShared(t, i) ==
  /\ writers = {}
  /\ <<t, i>> \notin readGuards
  /\ readGuards' = readGuards \cup {<<t, i>>}
  /\ UNCHANGED writers

ReleaseShared(t, i) ==
  /\ <<t, i>> \in readGuards
  /\ readGuards' = readGuards \ {<<t, i>>}
  /\ UNCHANGED writers

AcquireExclusive(t) ==
  /\ writers = {} /\ readGuards = {}
  /\ writers' = {t}
  /\ UNCHANGED readGuards

ReleaseExclusive(t) ==
  /\ t \in writers
  /\ writers' = writers \ {t}
  /\ UNCHANGED readGuards

\* The exclusive guard becomes a shared guard in one step: no other writer
\* can change the data in between.
Downgrade(t, i) ==
  /\ t \in writers
  /\ writers' = writers \ {t}
  /\ readGuards' = readGuards \cup {<<t, i>>}

SendShared(t, i, u, j) ==
  /\ <<t, i>> \in readGuards /\ <<u, j>> \notin readGuards
  /\ readGuards' = (readGuards \ {<<t, i>>}) \cup {<<u, j>>}
  /\ UNCHANGED writers

SendExclusive(t, u) ==
  /\ t \in writers
  /\ writers' = (writers \ {t}) \cup {u}
  /\ UNCHANGED readGuards

Next ==
  \E t \in Threads :
    \/ AcquireExclusive(t) \/ ReleaseExclusive(t)
    \/ \E u \in Threads : SendExclusive(t, u)
    \/ \E i \in Slots :
         \/ AcquireShared(t, i) \/ ReleaseShared(t, i) \/ Downgrade(t, i)
         \/ \E u \in Threads, j \in Slots : SendShared(t, i, u, j)

Spec == Init /\ [][Next]_vars
=============================================================================
