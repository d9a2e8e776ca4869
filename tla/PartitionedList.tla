-------------------------- MODULE PartitionedList --------------------------
(***************************************************************************)
(* The program lab2b/lab2_list.c: numThreads threads insert their elements *)
(* into numLists sorted lists, each list with a lock of its own, add up    *)
(* the lengths of the lists, and delete an element for each of their keys; *)
(* main joins them and checks that every list is empty.                    *)
(***************************************************************************)
EXTENDS Integers, FiniteSets

CONSTANTS
  NumThreads, NumIters, NumLists,  \* --threads, --iterations, --lists
  Keys,                            \* the keys of the elements
  hash,                            \* hash[k]: the hash of key k
  Syncs                            \* the values of --sync to start with

ASSUME ArgsAssumption ==
  /\ NumThreads \in Nat /\ NumIters \in Nat /\ NumLists \in Nat \ {0}
  /\ Keys \subseteq Int /\ hash \in [Keys -> Nat]
  /\ Syncs \subseteq {"NONE", "MUTEX", "SPIN"}

NumElms == NumThreads * NumIters
Threads == 0 .. NumThreads - 1
Elms == 0 .. NumElms - 1
Sublists == 0 .. NumLists - 1

\* The header of sublist i, a node of the heap after the elements.
Header(i) == NumElms + i

\* main calls SortedList_length too.
Main == NumThreads

VARIABLES
  key, next, prev, call,  \* the lists and the calls on them
  myLock,     \* how the sublists are protected
  addLock,    \* addLock[i]: the owner of the mutex of sublist i
  spinLock,   \* spinLock[i]: its spin lock
  pc,         \* pc[t]: "none", "lock", "call" or "exited"
  phase,      \* phase[t]: which of the three loops of tFunc t is in
  index,      \* index[t]: its loop variable
  listLength, \* listLength[t]: the lengths t has summed up
  created, joined,  \* the loop variables of main
  checked,    \* how many sublists main has found empty
  status      \* how the process ended, "running" while it has not

locks == <<myLock, addLock, spinLock>>
thread == <<pc, phase, index, listLength>>
main == <<created, joined, checked, status>>
vars == <<key, next, prev, call, locks, thread, main>>

List == INSTANCE SortedList WITH Callers <- Threads \cup {Main},
          Headers <- { Header(i) : i \in Sublists }

NoThread == -1

Init ==
  /\ List!HeapInit
  /\ myLock \in Syncs
  /\ addLock = [i \in Sublists |-> NoThread]
  /\ spinLock = [i \in Sublists |-> 0]
  /\ pc = [t \in Threads |-> "none"]
  /\ phase = [t \in Threads |-> "none"]
  /\ index = [t \in Threads |-> 0]
  /\ listLength = [t \in Threads |-> 0]
  /\ created = 0 /\ joined = 0 /\ checked = 0
  /\ status = "running"

-----------------------------------------------------------------------------
(* Steps of a thread.                                                      *)

\* A faulty length loop that passes over the first sublist.
EnterSkipsFirst(t, p, i) ==
  LET more == IF p = "length" THEN i < NumLists ELSE i < NumElms
      place == CASE more                          -> <<"lock", p, i>>
                 [] p = "insert" /\ ~more         -> <<"lock", "length", 1>>
                 [] p = "length" /\ ~more /\ t < NumElms -> <<"lock", "delete", t>>
                 [] OTHER                         -> <<"exited", "none", 0>>
  IN  /\ pc' = [pc EXCEPT ![t] = place[1]]
      /\ phase' = [phase EXCEPT ![t] = place[2]]
      /\ index' = [index EXCEPT ![t] = place[3]]

\* Thread t enters the loop body p with loop variable i; a loop whose
\* condition is false is passed over.
Enter(t, p, i) ==
  LET more == IF p = "length" THEN i < NumLists ELSE i < NumElms
      place == CASE more                          -> <<"lock", p, i>>
                 [] p = "insert" /\ ~more         -> <<"lock", "length", 0>>
                 [] p = "length" /\ ~more /\ t < NumElms -> <<"lock", "delete", t>>
                 [] OTHER                         -> <<"exited", "none", 0>>
  IN  /\ pc' = [pc EXCEPT ![t] = place[1]]
      /\ phase' = [phase EXCEPT ![t] = place[2]]
      /\ index' = [index EXCEPT ![t] = place[3]]

\* A faulty loop that takes the elements of the other threads too.
NextIndexNoStride(t) == index[t] + 1

\* The loop variable of the next iteration.
NextIndex(t) == IF phase[t] = "length" THEN index[t] + 1
                                       ELSE index[t] + NumThreads

\* The sublist an iteration works on.
Sublist(t) == IF phase[t] = "length" THEN index[t]
                                     ELSE hash[key[index[t]]] % NumLists

At(t, label) == status = "running" /\ pc[t] = label

\* A faulty lockItUp that does not wait for the lock.
LockItUpNoWait(t) ==
  /\ At(t, "lock")
  /\ LET k == Sublist(t) IN
       /\ addLock' = IF myLock = "MUTEX" THEN [addLock EXCEPT ![k] = t]
                                         ELSE addLock
       /\ spinLock' = IF myLock = "SPIN" THEN [spinLock EXCEPT ![k] = 1]
                                         ELSE spinLock
       /\ CASE phase[t] = "insert" -> List!Begin(t, "insert", Header(k), index[t])
            [] phase[t] = "length" -> List!Begin(t, "length", Header(k), List!NULL)
            [] phase[t] = "delete" -> List!Begin(t, "lookup", Header(k), index[t])
  /\ pc' = [pc EXCEPT ![t] = "call"]
  /\ UNCHANGED <<key, next, prev, myLock, phase, index, listLength, main>>

\* lockItUp, then the call of insert, length or lookup begins.  A spinning
\* thread changes nothing while the lock is taken.
LockItUp(t) ==
  /\ At(t, "lock")
  /\ LET k == Sublist(t) IN
       /\ myLock = "MUTEX" => addLock[k] = NoThread
       /\ myLock = "SPIN" => spinLock[k] = 0
       /\ addLock' = IF myLock = "MUTEX" THEN [addLock EXCEPT ![k] = t]
                                         ELSE addLock
       /\ spinLock' = IF myLock = "SPIN" THEN [spinLock EXCEPT ![k] = 1]
                                         ELSE spinLock
       /\ CASE phase[t] = "insert" -> List!Begin(t, "insert", Header(k), index[t])
            [] phase[t] = "length" -> List!Begin(t, "length", Header(k), List!NULL)
            [] phase[t] = "delete" -> List!Begin(t, "lookup", Header(k), index[t])
  /\ pc' = [pc EXCEPT ![t] = "call"]
  /\ UNCHANGED <<key, next, prev, myLock, phase, index, listLength, main>>

InCall(t) ==
  /\ At(t, "call")
  /\ List!ListStep(t)
  /\ UNCHANGED <<locks, thread, main>>

Returned(t, op) == At(t, "call") /\ call[t].op = op /\ call[t].at = "return"

\* The deletion begins with the element lookup returned.
Found(t) ==
  /\ Returned(t, "lookup") /\ call[t].temp # List!NULL
  /\ List!BeginDelete(t, call[t].temp)
  /\ UNCHANGED <<key, next, prev, locks, thread, main>>

\* exit(2), the sublist still locked.
Fails(t) ==
  /\ \/ Returned(t, "lookup") /\ call[t].temp = List!NULL /\ status' = "lookup"
     \/ Returned(t, "delete") /\ call[t].rc # 0 /\ status' = "delete"
  /\ UNCHANGED <<key, next, prev, call, locks, thread, created, joined, checked>>

\* unlockItUp and the rest of the iteration.  exit(2) on a corrupted list
\* follows the release; nothing but the thread's own state comes between.
UnlockItUp(t) ==
  /\ Returned(t, phase[t]) /\ (phase[t] = "delete" => call[t].rc = 0)
  /\ LET k == Sublist(t) IN
       /\ addLock' = IF myLock = "MUTEX" THEN [addLock EXCEPT ![k] = NoThread]
                                         ELSE addLock
       /\ spinLock' = IF myLock = "SPIN" THEN [spinLock EXCEPT ![k] = 0]
                                         ELSE spinLock
  /\ IF phase[t] = "length" /\ call[t].rc = -1
       THEN /\ status' = "corrupted" /\ pc' = [pc EXCEPT ![t] = "exited"]
            /\ UNCHANGED <<phase, index, listLength, call>>
       ELSE /\ Enter(t, phase[t], NextIndex(t))
            /\ listLength' = IF phase[t] = "length"
                               THEN [listLength EXCEPT ![t] = @ + call[t].rc]
                               ELSE listLength
            /\ List!Finish(t)
            /\ UNCHANGED status
  /\ UNCHANGED <<key, next, prev, myLock, created, joined, checked>>

ThreadStep(t) ==
  LockItUp(t) \/ InCall(t) \/ Found(t) \/ Fails(t) \/ UnlockItUp(t)

-----------------------------------------------------------------------------
(* Steps of main.                                                          *)

Create ==
  /\ status = "running" /\ created < NumThreads
  /\ Enter(created, "insert", created)
  /\ created' = created + 1
  /\ UNCHANGED <<key, next, prev, call, locks, listLength, joined, checked, status>>

\* pthread_create reports an error: exit(1) while the others run.
CreateFails ==
  /\ status = "running" /\ created < NumThreads
  /\ status' = "error"
  /\ UNCHANGED <<key, next, prev, call, locks, thread, created, joined, checked>>

Join ==
  /\ status = "running" /\ created = NumThreads /\ joined < NumThreads
  /\ pc[joined] = "exited"
  /\ joined' = joined + 1
  /\ UNCHANGED <<key, next, prev, call, locks, thread, created, checked, status>>

\* The loop that confirms each list is empty.
CheckBegins ==
  /\ status = "running" /\ joined = NumThreads /\ checked < NumLists
  /\ call[Main] = List!Idle
  /\ List!Begin(Main, "length", Header(checked), List!NULL)
  /\ UNCHANGED <<key, next, prev, locks, thread, main>>

CheckRuns ==
  /\ status = "running"
  /\ List!ListStep(Main)
  /\ UNCHANGED <<locks, thread, main>>

CheckEnds ==
  /\ status = "running" /\ call[Main].at = "return"
  /\ IF call[Main].rc # 0 THEN status' = "notEmpty" /\ UNCHANGED checked
                          ELSE checked' = checked + 1 /\ UNCHANGED status
  /\ List!Finish(Main)
  /\ UNCHANGED <<key, next, prev, locks, thread, created, joined>>

\* The averages divide by the number of operations.
PrintOut ==
  /\ status = "running" /\ joined = NumThreads /\ checked = NumLists
  /\ status' = IF NumThreads * NumIters * 3 = 0 THEN "SIGFPE" ELSE "success"
  /\ UNCHANGED <<key, next, prev, call, locks, thread, created, joined, checked>>

MainStep ==
  \/ Create \/ CreateFails \/ Join
  \/ CheckBegins \/ CheckRuns \/ CheckEnds \/ PrintOut

Ended == status # "running" /\ UNCHANGED vars

Next == (\E t \in Threads : ThreadStep(t)) \/ MainStep \/ Ended

\* Every thread that can take a step is eventually scheduled.
Fairness ==
  /\ \A t \in Threads : WF_vars(ThreadStep(t))
  /\ WF_vars(MainStep)

Spec == Init /\ [][Next]_vars /\ Fairness

-----------------------------------------------------------------------------
(* Properties                                                              *)

TypeOK ==
  /\ List!HeapTypeOK
  /\ myLock \in Syncs
  /\ addLock \in [Sublists -> Threads \cup {NoThread}]
  /\ spinLock \in [Sublists -> {0, 1}]
  /\ pc \in [Threads -> {"none", "lock", "call", "exited"}]
  /\ phase \in [Threads -> {"none", "insert", "length", "delete"}]
  /\ index \in [Threads -> Nat]
  /\ listLength \in [Threads -> Nat]
  /\ created \in 0 .. NumThreads /\ joined \in 0 .. NumThreads
  /\ checked \in 0 .. NumLists
  /\ status \in {"running", "error", "lookup", "delete", "corrupted",
                 "notEmpty", "SIGFPE", "success"}

\* With --sync no two threads are inside a call on the same sublist.
MutualExclusion ==
  myLock # "NONE" =>
    \A t, u \in Threads :
      pc[t] = "call" /\ pc[u] = "call" /\ Sublist(t) = Sublist(u) => t = u

Quiet(i) == \A t \in Threads : pc[t] = "call" => Sublist(t) # i

\* With --sync a list nobody is working on is sound: sorted, and next and prev
\* are inverse around it.
QuietListsSound ==
  myLock # "NONE" =>
    \A i \in Sublists : Quiet(i) => List!Sound(Header(i))

\* With --sync none of the checks the program makes on its lists ever fails,
\* although threads delete each other's elements when keys are equal.
NoErrorExit == myLock # "NONE" => status \in {"running", "error", "success"}

\* With --sync the lengths a thread sums up, each taken at another moment,
\* cover at least its own elements and at most all of them.
LengthBounded ==
  myLock # "NONE" =>
    \A t \in Threads :
      phase[t] = "delete" => listLength[t] \in NumIters .. NumElms

\* With and without --sync the threads use the lists as SortedList allows:
\* each element is inserted once, and deleted after a lookup returned it.
UsesListLegally == List!Spec

\* The elements whose owner has linked them, and of these the ones for which
\* the owner has unlinked an element.
Inserted ==
  { e \in Elms :
      LET t == e % NumThreads IN
        \/ phase[t] = "insert" /\ e < index[t]
        \/ phase[t] = "insert" /\ e = index[t] /\ call[t].at \in {"linkBack", "return"}
        \/ phase[t] \in {"length", "delete"} \/ pc[t] = "exited" }

DeletedFor ==
  { e \in Elms :
      LET t == e % NumThreads IN
        \/ phase[t] = "delete" /\ e < index[t]
        \/ /\ phase[t] = "delete" /\ e = index[t] /\ call[t].op = "delete"
           /\ call[t].at \in {"unlinkBackSucc", "unlinkBackPred", "unlinkBack", "return"}
        \/ pc[t] = "exited" }

\* With --sync the program implements ListSet: each insert and each pair of
\* lookup and delete takes effect in one step.
Set == INSTANCE ListSet WITH
         content <- UNION { List!Content(Header(i)) : i \in Sublists },
         pending <- Inserted \ DeletedFor,
         fresh <- Elms \ Inserted
CallsAreAtomic ==
  /\ myLock # "NONE" => Set!Init
  /\ [][myLock # "NONE" => Set!Next]_(Set!vars)

\* Every run ends.
Termination == <>(status # "running")
=============================================================================
