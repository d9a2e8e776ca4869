------------------------- MODULE MCPartitionedList -------------------------
(***************************************************************************)
(* PartitionedList for TLC: keys are numbers and hash to themselves, so    *)
(* with two sublists keys 1 and 3 collide and key 2 does not; with one     *)
(* sublist they all do.                                                    *)
(***************************************************************************)
EXTENDS PartitionedList

CONSTANTS KeyChoices, UnlockedChoices  \* the keys given to elements 0, 1, ...

MCHash == [k \in Keys |-> k]

MCInit ==
  /\ Init
  /\ \E ks \in IF myLock = "NONE" THEN UnlockedChoices ELSE KeyChoices :
       key = [e \in Elms |-> ks[e + 1]]

MCSpec == MCInit /\ [][Next]_vars /\ Fairness

\* Elements 0 and 2 are thread 0's, 1 and 3 thread 1's.  All keys equal; the
\* same two keys on one list inserted in opposite orders; two lists visited in
\* opposite orders; one list with three elements beside another.
SyncChoices == { <<1, 1, 1, 1>>, <<3, 1, 1, 3>>, <<1, 2, 2, 1>>, <<3, 1, 2, 3>> }

\* Without --sync there are far more interleavings: two keys, each on a list of
\* its own, visited in opposite orders.
CrossedChoices == { <<1, 2, 2, 1>> }
=============================================================================
