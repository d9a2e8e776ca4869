----------------------------- MODULE WholeList -----------------------------
(***************************************************************************)
(* The program lab2a/lab2_list.c: one sorted list, and one lock that a     *)
(* thread holds from its first insertion to its last deletion.             *)
(***************************************************************************)
EXTENDS Integers, FiniteSets

CONSTANTS
  NumThreads, NumIters,  \* --threads, --iterations
  Keys,                  \* the keys of the elements
  Syncs                  \* the values of --sync to start with

ASSUME ArgsAssumption ==
  /\ NumThreads \in Nat /\ NumIters \in Nat
  /\ Keys \subseteq Int
  /\ Syncs \subseteq {"NONE", "MUTEX", "SPIN"}

NumElms == NumThreads * NumIters
Threads == 0 .. NumThreads - 1
Elms == 0 .. NumElms - 1

\* The list header, a node of the heap after the elements.
list == NumElms

\* main calls SortedList_length too.
Main == NumThreads

VARIABLES
  key, next, prev, call,  \* the list and the calls on it
  myLock,   \* how the list is protected
  addLock,  \* the owner of the mutex
  spinLock, \* the spin lock
  pc,       \* pc[t]: "none", "lock", "insert", "length", "delete", "unlock", "exited"
  index,    \* index[t]: the loop variable of t
  created, joined, status  \* main's loops, and how the process ended

locks == <<myLock, addLock, spinLock>>
thread == <<pc, index>>
main == <<created, joined, status>>
vars == <<key, next, prev, call, locks, thread, main>>

List == INSTANCE SortedList WITH Callers <- Threads \cup {Main},
                                 Headers <- {list}

NoThread == -1

Init ==
  /\ List!HeapInit
  /\ myLock \in Syncs
  /\ addLock = NoThread
  /\ spinLock = 0
  /\ pc = [t \in Threads |-> "none"]
  /\ index = [t \in Threads |-> 0]
  /\ created = 0 /\ joined = 0
  /\ status = "running"

-----------------------------------------------------------------------------
(* Steps of a thread.                                                      *)

At(t, label) == status = "running" /\ pc[t] = label

\* Thread t goes on at a loop with loop variable i, or behind it when the
\* loop's condition is false.
Goto(t, label, i) ==
  /\ pc' = [pc EXCEPT ![t] =
       IF label \in {"insert", "delete"} /\ i >= NumElms
         THEN IF label = "insert" THEN "length" ELSE "unlock"
         ELSE label]
  /\ index' = [index EXCEPT ![t] = i]

\* A faulty acquisition that does not wait for the lock.
LockNoWait(t) ==
  /\ At(t, "lock")
  /\ addLock' = IF myLock = "MUTEX" THEN t ELSE addLock
  /\ spinLock' = IF myLock = "SPIN" THEN 1 ELSE spinLock
  /\ Goto(t, "insert", t)
  /\ UNCHANGED <<key, next, prev, call, myLock, main>>

Lock(t) ==
  /\ At(t, "lock")
  /\ myLock = "MUTEX" => addLock = NoThread
  /\ myLock = "SPIN" => spinLock = 0
  /\ addLock' = IF myLock = "MUTEX" THEN t ELSE addLock
  /\ spinLock' = IF myLock = "SPIN" THEN 1 ELSE spinLock
  /\ Goto(t, "insert", t)
  /\ UNCHANGED <<key, next, prev, call, myLock, main>>

Calling(t) ==
  status = "running" /\ pc[t] \in {"insert", "length", "delete"}

\* The thread calls insert, length or lookup.
Call(t) ==
  /\ Calling(t) /\ call[t] = List!Idle
  /\ CASE pc[t] = "insert" -> List!Begin(t, "insert", list, index[t])
       [] pc[t] = "length" -> List!Begin(t, "length", list, List!NULL)
       [] pc[t] = "delete" -> List!Begin(t, "lookup", list, index[t])
  /\ UNCHANGED <<key, next, prev, locks, thread, main>>

InCall(t) ==
  /\ Calling(t)
  /\ List!ListStep(t)
  /\ UNCHANGED <<locks, thread, main>>

Returned(t, op) == Calling(t) /\ call[t].op = op /\ call[t].at = "return"

\* The deletion begins with the element lookup returned.
Found(t) ==
  /\ Returned(t, "lookup") /\ call[t].temp # List!NULL
  /\ List!BeginDelete(t, call[t].temp)
  /\ UNCHANGED <<key, next, prev, locks, thread, main>>

\* exit(2), the lock still held.
Fails(t) ==
  /\ \/ Returned(t, "length") /\ call[t].rc = -1 /\ status' = "corrupted"
     \/ Returned(t, "lookup") /\ call[t].temp = List!NULL /\ status' = "lookup"
     \/ Returned(t, "delete") /\ call[t].rc # 0 /\ status' = "delete"
  /\ UNCHANGED <<key, next, prev, call, locks, thread, created, joined>>

\* The next iteration of a loop, or what follows the loop or the length check.
GoesOn(t) ==
  /\ Returned(t, pc[t])
  /\ pc[t] = "length" => call[t].rc # -1
  /\ pc[t] = "delete" => call[t].rc = 0
  /\ IF pc[t] = "length" THEN Goto(t, "delete", t)
                         ELSE Goto(t, pc[t], index[t] + NumThreads)
  /\ List!Finish(t)
  /\ UNCHANGED <<key, next, prev, locks, main>>

Unlock(t) ==
  /\ At(t, "unlock")
  /\ addLock' = IF myLock = "MUTEX" THEN NoThread ELSE addLock
  /\ spinLock' = IF myLock = "SPIN" THEN 0 ELSE spinLock
  /\ pc' = [pc EXCEPT ![t] = "exited"]
  /\ UNCHANGED <<key, next, prev, call, myLock, index, main>>

ThreadStep(t) ==
  \/ Lock(t) \/ Call(t) \/ InCall(t) \/ Found(t)
  \/ Fails(t) \/ GoesOn(t) \/ Unlock(t)

-----------------------------------------------------------------------------
(* Steps of main.                                                          *)

Create ==
  /\ status = "running" /\ created < NumThreads
  /\ pc' = [pc EXCEPT ![created] = "lock"]
  /\ created' = created + 1
  /\ UNCHANGED <<key, next, prev, call, locks, index, joined, status>>

\* pthread_create reports an error: exit(1) while the others run.
CreateFails ==
  /\ status = "running" /\ created < NumThreads
  /\ status' = "error"
  /\ UNCHANGED <<key, next, prev, call, locks, thread, created, joined>>

Join ==
  /\ status = "running" /\ created = NumThreads /\ joined < NumThreads
  /\ pc[joined] = "exited"
  /\ joined' = joined + 1
  /\ UNCHANGED <<key, next, prev, call, locks, thread, created, status>>

\* The length of the list at the end.
CheckBegins ==
  /\ status = "running" /\ joined = NumThreads
  /\ call[Main] = List!Idle
  /\ List!Begin(Main, "length", list, List!NULL)
  /\ UNCHANGED <<key, next, prev, locks, thread, main>>

CheckRuns ==
  /\ status = "running"
  /\ List!ListStep(Main)
  /\ UNCHANGED <<locks, thread, main>>

\* printOut divides by the number of operations.
CheckEnds ==
  /\ status = "running" /\ call[Main].at = "return"
  /\ status' = IF call[Main].rc # 0 THEN "notEmpty"
               ELSE IF NumThreads * NumIters * 3 = 0 THEN "SIGFPE"
               ELSE "success"
  /\ UNCHANGED <<key, next, prev, call, locks, thread, created, joined>>

MainStep ==
  \/ Create \/ CreateFails \/ Join
  \/ CheckBegins \/ CheckRuns \/ CheckEnds

Ended == status # "running" /\ UNCHANGED vars

Next == (\E t \in Threads : ThreadStep(t)) \/ MainStep \/ Ended

\* Every thread that can take a step is eventually scheduled.
Fairness ==
  /\ \A t \in Threads : WF_vars(ThreadStep(t))
  /\ WF_vars(MainStep)

Spec == Init /\ [][Next]_vars /\ Fairness

-----------------------------------------------------------------------------
(* Properties                                                              *)

TypeOK ==
  /\ List!HeapTypeOK
  /\ myLock \in Syncs
  /\ addLock \in Threads \cup {NoThread}
  /\ spinLock \in {0, 1}
  /\ pc \in [Threads -> {"none", "lock", "insert", "length", "delete",
                         "unlock", "exited"}]
  /\ index \in [Threads -> Nat]
  /\ created \in 0 .. NumThreads /\ joined \in 0 .. NumThreads
  /\ status \in {"running", "error", "lookup", "delete", "corrupted",
                 "notEmpty", "SIGFPE", "success"}

Inside == { t \in Threads : pc[t] \in {"insert", "length", "delete", "unlock"} }

\* With --sync the threads run one after another, and leave nothing behind:
\* the list only ever holds elements of the one thread inside, so it is empty
\* whenever the lock is free.
OnlyOwnElements ==
  myLock # "NONE" =>
    /\ Cardinality(Inside) <= 1
    /\ \A e \in List!Content(list) : e % NumThreads \in Inside

\* With --sync none of the checks the program makes on its list ever fails.
NoErrorExit == myLock # "NONE" => status \in {"running", "error", "success"}

\* SortedList.h:71 says of SortedList_length that it checks all prev/next
\* pointers and returns -1 for a corrupted list: the list main found empty
\* before it reports success is a sound one.
FinalListSound == status = "success" => List!Sound(list)

\* Every run ends: the lock is always released, and with and without it no
\* call goes round in a cycle of next pointers.
Termination == <>(status # "running")
=============================================================================
