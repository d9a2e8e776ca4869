--------------------------- MODULE AtomicCounter ---------------------------
(***************************************************************************)
(* What the protected variants of lab2a/lab2_add.c promise: a counter on   *)
(* which every addition takes effect in one indivisible step, each thread  *)
(* performing its additions in program order.                              *)
(***************************************************************************)
EXTENDS AddDefs

VARIABLES count,  \* the counter
          done    \* done[t]: how many additions of t have taken effect

Init ==
  /\ count = 0
  /\ done = [t \in Threads |-> 0]

Add(t) ==
  /\ done[t] < 2 * NumIters
  /\ count' = count + Value(done[t])
  /\ done' = [done EXCEPT ![t] = @ + 1]

Next == \E t \in Threads : Add(t)

Spec == Init /\ [][Next]_<<count, done>>
=============================================================================
