----------------------------- MODULE MCWholeList -----------------------------
(***************************************************************************)
(* WholeList for TLC: with --sync every choice of keys, and without it,    *)
(* where there are far more interleavings, the choices of UnlockedKeys.    *)
(***************************************************************************)
EXTENDS WholeList

CONSTANT UnlockedKeys  \* the keys of elements 0, 1, ... without --sync

MCInit ==
  /\ Init
  /\ myLock = "NONE" => \E ks \in UnlockedKeys : key = [e \in Elms |-> ks[e + 1]]

MCSpec == MCInit /\ [][Next]_vars /\ Fairness

\* Elements 0 and 2 are thread 0's, 1 and 3 thread 1's: both threads have an
\* element of each key, inserted in opposite orders.
CrossedKeys == { <<1, 2, 2, 1>> }
==============================================================================
