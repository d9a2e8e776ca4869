------------------------------ MODULE AddDefs ------------------------------
(***************************************************************************)
(* What lab2a/lab2_add.c is asked to compute: every one of numThreads      *)
(* threads adds 1 to the shared counter numIters times and then adds -1    *)
(* the same number of times.  The abstract counter and the program share   *)
(* these definitions.                                                      *)
(***************************************************************************)
EXTENDS Integers, FiniteSets

CONSTANTS NumThreads,  \* --threads, the global numThreads
          NumIters     \* --iterations, the global numIters

\* The counts given on the command line: a negative one is out of the model.
ASSUME ArgsAssumption == NumThreads \in Nat /\ NumIters \in Nat

\* The program keeps the number of operations in an int (lab2_add.c:138):
\* larger arguments overflow it.
ASSUME IntAssumption == NumThreads * NumIters * 2 <= 2147483647

Threads == 0 .. NumThreads - 1

\* A thread's operations are numbered 0 .. 2*NumIters-1 in program order.
Ops == 0 .. 2 * NumIters

\* A faulty first loop that runs once too often.
ValueOneMore(n) == IF n <= NumIters THEN 1 ELSE -1

\* The second argument of a thread's n-th call of add and of its variants.
Value(n) == IF n < NumIters THEN 1 ELSE -1

\* The increments that are in effect and not yet undone when thread t has
\* performed its first d[t] operations: <<t, k>> is the k-th increment of t,
\* undone by the (NumIters + 1 - k)-th decrement.
Outstanding(d) ==
  { a \in Threads \X (1 .. NumIters) :
      a[2] <= d[a[1]] /\ a[2] <= 2 * NumIters - d[a[1]] }
=============================================================================
