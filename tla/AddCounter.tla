----------------------------- MODULE AddCounter -----------------------------
(***************************************************************************)
(* The program lab2a/lab2_add.c: main creates the threads, each runs tFunc *)
(* on the shared counter, main joins them and prints the counter.          *)
(*                                                                         *)
(* A step is one access to shared memory or one synchronisation operation. *)
(* sched_yield (opt_yield) changes no state: the scheduler may switch      *)
(* threads between any two steps with and without it.  Loads and stores of *)
(* the 8-byte counter are single steps, as in the unoptimised x86-64 build *)
(* of the Makefile.                                                        *)
(***************************************************************************)
EXTENDS AddDefs

CONSTANT Syncs  \* the values of --sync the model starts the program with

ASSUME SyncsAssumption == Syncs \subseteq {"NONE", "MUTEX", "SPIN", "CandS"}

VARIABLES
  myLock,    \* how additions are protected
  count,     \* the shared counter
  addLock,   \* the owner of the mutex, NoThread when it is free
  spinLock,  \* the spin lock: 0 or 1, it does not know its owner
  pc,        \* pc[t]: what thread t does next
  done,      \* done[t]: how many calls of add or of its variants returned
  com,       \* com[t]: the counter as t last loaded it
  created,   \* how many threads main has created
  joined,    \* how many threads main has joined
  status     \* how the process ended, "running" while it has not

thread == <<pc, done, com>>
main == <<created, joined, status>>
vars == <<myLock, count, addLock, spinLock, thread, main>>

NoThread == -1

Locked == {"MUTEX", "SPIN"}

\* Where a thread that has completed n calls goes on: the loops of tFunc.
CallAfter(n) ==
  IF n = 2 * NumIters THEN "exited"
  ELSE IF myLock \in Locked THEN "lock" ELSE "load"

Init ==
  /\ myLock \in Syncs
  /\ count = 0
  /\ addLock = NoThread
  /\ spinLock = 0
  /\ pc = [t \in Threads |-> "none"]
  /\ done = [t \in Threads |-> 0]
  /\ com = [t \in Threads |-> 0]
  /\ created = 0
  /\ joined = 0
  /\ status = "running"

-----------------------------------------------------------------------------
(* Steps of a thread.  They stop when the process has ended.               *)

At(t, label) == status = "running" /\ pc[t] = label

\* A call returns: the next iteration of tFunc begins, or pthread_exit.
Return(t) ==
  /\ done' = [done EXCEPT ![t] = @ + 1]
  /\ pc' = [pc EXCEPT ![t] = CallAfter(done[t] + 1)]

MutexLock(t) ==
  /\ At(t, "lock") /\ myLock = "MUTEX"
  /\ addLock = NoThread
  /\ addLock' = t
  /\ pc' = [pc EXCEPT ![t] = "load"]
  /\ UNCHANGED <<myLock, count, spinLock, done, com, main>>

\* A faulty test-and-set: it does not test.
SpinLockNoTest(t) ==
  /\ At(t, "lock") /\ myLock = "SPIN"
  /\ spinLock' = 1
  /\ pc' = [pc EXCEPT ![t] = "load"]
  /\ UNCHANGED <<myLock, count, addLock, done, com, main>>

\* __sync_lock_test_and_set returned 0.  While it returns 1 the loop changes
\* nothing: that iteration is a stuttering step.
SpinLock(t) ==
  /\ At(t, "lock") /\ myLock = "SPIN"
  /\ spinLock = 0
  /\ spinLock' = 1
  /\ pc' = [pc EXCEPT ![t] = "load"]
  /\ UNCHANGED <<myLock, count, addLock, done, com, main>>

\* add: sum = *pointer + value, and compNswapAdd: com = *pointer.
Load(t) ==
  /\ At(t, "load")
  /\ com' = [com EXCEPT ![t] = count]
  /\ pc' = [pc EXCEPT ![t] = IF myLock = "CandS" THEN "cas" ELSE "store"]
  /\ UNCHANGED <<myLock, count, addLock, spinLock, done, main>>

\* add: *pointer = sum.  Without a lock the call returns here.
Store(t) ==
  /\ At(t, "store")
  /\ count' = com[t] + Value(done[t])
  /\ IF myLock \in Locked
       THEN pc' = [pc EXCEPT ![t] = "unlock"] /\ UNCHANGED done
       ELSE Return(t)
  /\ UNCHANGED <<myLock, addLock, spinLock, com, main>>

\* pthread_mutex_unlock or __sync_lock_release.
Unlock(t) ==
  /\ At(t, "unlock")
  /\ IF myLock = "MUTEX" THEN addLock' = NoThread /\ UNCHANGED spinLock
                         ELSE spinLock' = 0 /\ UNCHANGED addLock
  /\ Return(t)
  /\ UNCHANGED <<myLock, count, com, main>>

\* A faulty compare-and-swap that swaps without comparing.
CompareAndSwapBlind(t) ==
  /\ At(t, "cas")
  /\ count' = com[t] + Value(done[t]) /\ Return(t)
  /\ UNCHANGED <<myLock, addLock, spinLock, com, main>>

\* A faulty compare-and-swap loop that does not load the counter again.
CompareAndSwapNoReload(t) ==
  /\ At(t, "cas")
  /\ IF count = com[t]
       THEN count' = com[t] + Value(done[t]) /\ Return(t)
       ELSE UNCHANGED <<count, pc, done>>
  /\ UNCHANGED <<myLock, addLock, spinLock, com, main>>

\* The atomic condition of compNswapAdd's loop: the sum is stored when the
\* counter still holds com, otherwise the loop loads it again.
CompareAndSwap(t) ==
  /\ At(t, "cas")
  /\ IF count = com[t]
       THEN count' = com[t] + Value(done[t]) /\ Return(t)
       ELSE pc' = [pc EXCEPT ![t] = "load"] /\ UNCHANGED <<count, done>>
  /\ UNCHANGED <<myLock, addLock, spinLock, com, main>>

ThreadStep(t) ==
  \/ MutexLock(t) \/ SpinLock(t)
  \/ Load(t) \/ Store(t)
  \/ Unlock(t) \/ CompareAndSwap(t)

-----------------------------------------------------------------------------
(* Steps of main.                                                          *)

\* A faulty creation loop that runs once too often.
CreateOneMore ==
  /\ status = "running" /\ created <= NumThreads
  /\ pc' = [pc EXCEPT ![created] = CallAfter(0)]
  /\ created' = created + 1
  /\ UNCHANGED <<myLock, count, addLock, spinLock, done, com, joined, status>>

Create ==
  /\ status = "running" /\ created < NumThreads
  /\ pc' = [pc EXCEPT ![created] = CallAfter(0)]
  /\ created' = created + 1
  /\ UNCHANGED <<myLock, count, addLock, spinLock, done, com, joined, status>>

\* pthread_create reports an error: errorMe exits the process, whatever the
\* threads created so far are doing.
CreateFails ==
  /\ status = "running" /\ created < NumThreads
  /\ status' = "error"
  /\ UNCHANGED <<myLock, count, addLock, spinLock, thread, created, joined>>

\* A faulty join loop that does not wait for the thread.
JoinNoWait ==
  /\ status = "running" /\ created = NumThreads /\ joined < NumThreads
  /\ joined' = joined + 1
  /\ UNCHANGED <<myLock, count, addLock, spinLock, thread, created, status>>

Join ==
  /\ status = "running" /\ created = NumThreads /\ joined < NumThreads
  /\ pc[joined] = "exited"
  /\ joined' = joined + 1
  /\ UNCHANGED <<myLock, count, addLock, spinLock, thread, created, status>>

\* The average time per operation divides by the number of operations.
PrintOut ==
  /\ status = "running" /\ joined = NumThreads
  /\ status' = IF NumThreads * NumIters * 2 = 0 THEN "SIGFPE" ELSE "success"
  /\ UNCHANGED <<myLock, count, addLock, spinLock, thread, created, joined>>

MainStep == Create \/ CreateFails \/ Join \/ PrintOut

\* The process has ended.
Ended == status # "running" /\ UNCHANGED vars

Next == (\E t \in Threads : ThreadStep(t)) \/ MainStep \/ Ended

\* Every thread that can take a step is eventually scheduled.
Fairness ==
  /\ \A t \in Threads : WF_vars(ThreadStep(t))
  /\ WF_vars(MainStep)

Spec == Init /\ [][Next]_vars /\ Fairness

-----------------------------------------------------------------------------
(* Properties                                                              *)

Labels == {"none", "lock", "load", "store", "unlock", "cas", "exited"}

\* Every variable holds a value of its C type, and the loop counters of main
\* and of tFunc stay within their bounds.
TypeOK ==
  /\ myLock \in Syncs
  /\ count \in Int
  /\ addLock \in Threads \cup {NoThread}
  /\ spinLock \in {0, 1}
  /\ pc \in [Threads -> Labels]
  /\ done \in [Threads -> Ops]
  /\ com \in [Threads -> Int]
  /\ created \in 0 .. NumThreads
  /\ joined \in 0 .. NumThreads
  /\ status \in {"running", "success", "error", "SIGFPE"}

InAdd(t) == pc[t] \in {"load", "store", "unlock"}

\* With --sync=m and --sync=s at most one thread is between the acquisition
\* and the release in mutex_add and spin_add.
MutualExclusion ==
  myLock \in Locked => \A t, u \in Threads : InAdd(t) /\ InAdd(u) => t = u

\* The additions that have taken effect: a call that has stored its sum and
\* not yet released its lock counts.
Effective == [t \in Threads |-> done[t] + (IF pc[t] = "unlock" THEN 1 ELSE 0)]

\* No update is lost: in every protected mode the counter is, at every moment,
\* the number of increments in effect that are not yet undone.
CountIsOutstanding ==
  myLock # "NONE" => count = Cardinality(Outstanding(Effective))

\* In every protected mode the total printed after the joins is zero.
FinalCountZero == myLock # "NONE" /\ status = "success" => count = 0

\* Without protection updates are lost, but each stored value still derives
\* from a chain of additions that begins with an increment of the initial zero
\* and the last store is a decrement: the printed total is off by less than
\* the number of increments, in either direction.
ErrorBounded ==
  status = "success" =>
    /\ count <= NumThreads * NumIters - 1
    /\ -count <= NumThreads * NumIters - 1

\* mutex_add, spin_add and compNswapAdd implement an atomic addition: in a
\* protected mode every step is one addition by one thread, or changes nothing
\* the atomic counter knows of.
Atomic == INSTANCE AtomicCounter WITH done <- Effective
AddsAreAtomic ==
  /\ Atomic!Init
  /\ [][myLock # "NONE" => [Atomic!Next]_<<count, Effective>>]_vars

\* Every run of the program ends, in every mode: no thread waits forever for
\* a lock and no compare-and-swap fails forever.
Termination == <>(status # "running")
=============================================================================
