-------------------------- MODULE WholeListProofs --------------------------
(***************************************************************************)
(* Proofs about WholeList, for any number of threads, iterations and keys: *)
(* the threads use the list as SortedList allows, with and without --sync; *)
(* with --sync one thread at a time is inside, the list is a ring that     *)
(* holds elements of this thread only, each call takes effect in one step, *)
(* and no check the program makes on its list fails.                       *)
(***************************************************************************)
EXTENDS WholeList, FiniteSetTheorems, TLAPS

\* The control state of the threads: a thread's loops go over its own elements.
ControlOK ==
  /\ key \in [Elms -> Keys]
  /\ myLock \in {"NONE", "MUTEX", "SPIN"}
  /\ addLock \in Threads \cup {NoThread}
  /\ spinLock \in {0, 1}
  /\ pc \in [Threads -> {"none", "lock", "insert", "length", "delete", "unlock", "exited"}]
  /\ index \in [Threads -> Nat]
  /\ \A t \in Threads :
       pc[t] \in {"insert", "delete"} => index[t] < NumElms /\ index[t] % NumThreads = t

\* A thread inside holds the lock: it owns the mutex, or the spin lock is taken
\* and no other thread is inside.
LockHeld ==
  \A t \in Inside :
    /\ myLock = "MUTEX" => addLock = t
    /\ myLock = "SPIN" => spinLock = 1 /\ \A u \in Inside : u = t

\* main creates the threads in order and joins them in order, all of them
\* created.
MainOrder ==
  /\ created \in 0 .. NumThreads /\ joined \in 0 .. NumThreads
  /\ joined > 0 => created = NumThreads
  /\ \A t \in Threads : created <= t => pc[t] = "none"
  /\ \A t \in Threads : t < joined => pc[t] = "exited"

IInv == ControlOK /\ LockHeld /\ MainOrder

\* The numbers that the program starts with.
LEMMA Numbers ==
  /\ NumThreads \in Nat /\ NumIters \in Nat /\ NumElms \in Nat
  /\ Threads \subseteq Nat /\ \A t \in Threads : t < NumThreads
  /\ \A i \in Nat : i < NumElms <=> i \in Elms
  /\ NoThread \notin Threads /\ Main \notin Threads /\ list \notin Elms
<1>1. NumElms \in Nat
  BY ArgsAssumption DEF NumElms
<1> QED BY <1>1, ArgsAssumption DEF Threads, Elms, NoThread, Main, list

\* What the lists of SortedList are proved to do.
ListP == INSTANCE SortedListProofs WITH Callers <- Threads \cup {Main},
                                        Headers <- {list}

\* The elements and the header are finitely many different nodes.
LEMMA NodesOK == ListP!NodesAssumption
<1>1. NumElms \in Nat /\ Elms \subseteq Nat /\ {list} \subseteq Nat /\ Elms \cap {list} = {}
  BY Numbers DEF Elms, list
<1>2. IsFiniteSet(Elms)
  BY <1>1, FS_Interval DEF Elms
<1>3. IsFiniteSet({list})
  BY FS_Singleton
<1> QED BY <1>1, <1>2, <1>3, ArgsAssumption
     DEF ListP!NodesAssumption, ListP!IsFiniteSet, IsFiniteSet

\* A thread goes on at a loop, or behind it.
LEMMA GotoIs ==
  ASSUME ControlOK, NEW t \in Threads, NEW p \in {"insert", "delete"}, NEW i \in Nat, Goto(t, p, i)
  PROVE  /\ index'[t] = i
         /\ \/ i < NumElms /\ pc'[t] = p
            \/ i >= NumElms /\ p = "insert" /\ pc'[t] = "length"
            \/ i >= NumElms /\ p = "delete" /\ pc'[t] = "unlock"
         /\ \A u \in Threads : u # t => pc'[u] = pc[u] /\ index'[u] = index[u]
         /\ pc' \in [Threads -> {"none", "lock", "insert", "length", "delete", "unlock", "exited"}]
         /\ index' \in [Threads -> Nat]
<1>1. PICK w : /\ w = IF i >= NumElms THEN IF p = "insert" THEN "length" ELSE "unlock" ELSE p
               /\ pc' = [pc EXCEPT ![t] = w] /\ index' = [index EXCEPT ![t] = i]
  BY DEF Goto
<1>2. w \in {"insert", "length", "delete", "unlock"}
  BY <1>1
<1> QED BY <1>1, <1>2, Numbers DEF ControlOK

\* Where a thread goes on when it has the lock, or when a call has returned.
LEMMA GoesOnIs ==
  ASSUME ControlOK, NEW t \in Threads, GoesOn(t)
  PROVE  \/ pc[t] = "length" /\ Goto(t, "delete", t) /\ t % NumThreads = t
         \/ /\ pc[t] \in {"insert", "delete"} /\ Goto(t, pc[t], index[t] + NumThreads)
            /\ index[t] + NumThreads \in Nat /\ (index[t] + NumThreads) % NumThreads = t
<1>1. t \in Nat /\ t < NumThreads /\ NumThreads \in Nat /\ index[t] \in Nat /\ NumThreads > 0
  BY Numbers DEF ControlOK
<1>2. CASE pc[t] = "length"
  BY <1>1, <1>2 DEF GoesOn
<1>3. CASE pc[t] \in {"insert", "delete"}
  <2>1. index[t] % NumThreads = t
    BY <1>3 DEF ControlOK
  <2>2. (index[t] + NumThreads) % NumThreads = t
    BY <1>1, <2>1, NodesOK, ListP!SameRemainder
  <2> QED BY <1>1, <1>3, <2>2 DEF GoesOn
<1> QED BY <1>2, <1>3 DEF GoesOn, Returned, Calling

\* A step that moves thread t only, and no thread in, keeps the control state.
LEMMA MovesKeep ==
  ASSUME IInv, NEW t \in Threads, pc[t] \notin {"none", "exited"},
         \A u \in Threads : u # t => pc'[u] = pc[u] /\ index'[u] = index[u],
         pc' \in [Threads -> {"none", "lock", "insert", "length", "delete", "unlock", "exited"}],
         index' \in [Threads -> Nat],
         pc'[t] \in {"insert", "delete"} => index'[t] < NumElms /\ index'[t] % NumThreads = t,
         UNCHANGED <<key, myLock, created, joined>>,
         t \in Inside, UNCHANGED <<addLock, spinLock>> \/ t \notin Inside',
         addLock' \in Threads \cup {NoThread}, spinLock' \in {0, 1}
  PROVE  IInv'
<1>1. ControlOK'
  BY DEF IInv, ControlOK, Threads, Elms, NumElms
<1>2. \A u \in Inside' : u \in Inside
  BY DEF Inside
<1>3. LockHeld'
  <2>1. CASE UNCHANGED <<addLock, spinLock>>
    BY <1>2, <2>1 DEF IInv, LockHeld
  <2>2. CASE t \notin Inside'
    BY <1>2, <2>2 DEF IInv, LockHeld, ControlOK
  <2> QED BY <2>1, <2>2
<1>4. MainOrder'
  BY Numbers DEF IInv, MainOrder, Threads
<1> QED BY <1>1, <1>3, <1>4 DEF IInv

\* A thread takes the lock: nobody is inside.
LEMMA LockKeeps ==
  ASSUME IInv, NEW t \in Threads, Lock(t)
  PROVE  /\ IInv' /\ pc[t] = "lock" /\ pc'[t] \in {"insert", "length"} /\ index'[t] = t
         /\ pc'[t] = "length" => t >= NumElms
         /\ myLock # "NONE" => Inside = {}
<1>1. /\ pc[t] = "lock" /\ Goto(t, "insert", t) /\ t \in Nat /\ t % NumThreads = t
      /\ UNCHANGED <<key, myLock, created, joined>>
      /\ myLock = "MUTEX" => addLock = NoThread /\ addLock' = t
      /\ myLock = "SPIN" => spinLock = 0 /\ spinLock' = 1
      /\ addLock' \in Threads \cup {NoThread} /\ spinLock' \in {0, 1}
  BY Numbers DEF Lock, At, main, IInv, ControlOK
<1>2. /\ index'[t] = t
      /\ \/ pc'[t] = "insert" /\ t < NumElms
         \/ pc'[t] = "length" /\ t >= NumElms
      /\ \A u \in Threads : u # t => pc'[u] = pc[u] /\ index'[u] = index[u]
      /\ pc' \in [Threads -> {"none", "lock", "insert", "length", "delete", "unlock", "exited"}]
      /\ index' \in [Threads -> Nat]
  BY <1>1, GotoIs DEF IInv
<1>3. myLock # "NONE" => Inside = {}
  <2> SUFFICES ASSUME myLock # "NONE", NEW u \in Inside  PROVE FALSE
    OBVIOUS
  <2>1. u \in Threads /\ myLock \in {"MUTEX", "SPIN"}
    BY DEF Inside, IInv, ControlOK
  <2> QED BY <1>1, <2>1, Numbers DEF IInv, LockHeld
<1>4. ControlOK'
  BY <1>1, <1>2 DEF IInv, ControlOK, Threads, Elms, NumElms
<1>5. \A u \in Inside' : u = t \/ u \in Inside
  BY <1>2 DEF Inside
<1>6. LockHeld'
  BY <1>1, <1>3, <1>5 DEF IInv, ControlOK, LockHeld
<1>7. MainOrder'
  BY <1>1, <1>2 DEF IInv, MainOrder, Threads
<1> QED BY <1>1, <1>2, <1>3, <1>4, <1>6, <1>7 DEF IInv

\* A call returns, and the thread goes on.
LEMMA GoesOnKeeps ==
  ASSUME IInv, NEW t \in Threads, GoesOn(t)  PROVE IInv'
<1>1. /\ pc[t] \in {"insert", "length", "delete"}
      /\ UNCHANGED <<key, myLock, addLock, spinLock, created, joined>> /\ ControlOK
  BY DEF GoesOn, Returned, Calling, locks, main, IInv
<1>2. PICK p \in {"insert", "delete"}, i \in Nat : Goto(t, p, i) /\ i % NumThreads = t
  BY <1>1, GoesOnIs, Numbers
<1>3. /\ index'[t] = i
      /\ \/ i < NumElms /\ pc'[t] = p
         \/ pc'[t] \in {"length", "unlock"}
      /\ \A u \in Threads : u # t => pc'[u] = pc[u] /\ index'[u] = index[u]
      /\ pc' \in [Threads -> {"none", "lock", "insert", "length", "delete", "unlock", "exited"}]
      /\ index' \in [Threads -> Nat]
  BY <1>1, <1>2, GotoIs
<1>4. t \in Inside /\ addLock' \in Threads \cup {NoThread} /\ spinLock' \in {0, 1}
  BY <1>1 DEF Inside, ControlOK
<1> QED BY <1>1, <1>2, <1>3, <1>4, MovesKeep

\* A thread releases the lock and leaves.
LEMMA UnlockKeeps ==
  ASSUME IInv, NEW t \in Threads, Unlock(t)  PROVE IInv'
<1>1. /\ pc[t] = "unlock" /\ pc' = [pc EXCEPT ![t] = "exited"]
      /\ UNCHANGED <<key, myLock, index, created, joined>>
      /\ addLock' \in {addLock, NoThread} /\ spinLock' \in {spinLock, 0}
  BY DEF Unlock, At, main
<1>2. /\ pc'[t] = "exited" /\ \A u \in Threads : u # t => pc'[u] = pc[u]
      /\ pc' \in [Threads -> {"none", "lock", "insert", "length", "delete", "unlock", "exited"}]
      /\ addLock' \in Threads \cup {NoThread} /\ spinLock' \in {0, 1} /\ index' \in [Threads -> Nat]
  BY <1>1 DEF IInv, ControlOK
<1>3. t \in Inside /\ t \notin Inside'
  BY <1>1, <1>2 DEF Inside
<1> QED BY <1>1, <1>2, <1>3, MovesKeep

\* The steps inside a call, and most of main's, leave locks and threads as they are.
LEMMA OthersKeep ==
  ASSUME IInv, UNCHANGED <<key, myLock, addLock, spinLock, pc, index, created, joined>>
  PROVE  IInv'
<1>1. ControlOK'
  BY DEF IInv, ControlOK, Threads, Elms, NumElms
<1>2. LockHeld'
  BY DEF IInv, LockHeld, Inside
<1>3. MainOrder'
  BY DEF IInv, MainOrder, Threads
<1> QED BY <1>1, <1>2, <1>3 DEF IInv

\* A thread is created, or joined: it is not inside.
LEMMA CreateKeeps ==
  ASSUME IInv, Create
  PROVE  /\ IInv' /\ created \in Threads /\ pc[created] = "none" /\ pc' = [pc EXCEPT ![created] = "lock"]
         /\ UNCHANGED <<key, next, prev, call, locks, index>>
         /\ \A t \in Threads : t # created => pc'[t] = pc[t]
<1>1. /\ created < NumThreads /\ created \in Threads /\ created \in Nat /\ joined = 0
      /\ pc' = [pc EXCEPT ![created] = "lock"] /\ created' = created + 1
      /\ UNCHANGED <<key, next, prev, call, locks, index, joined>>
  BY Numbers DEF Create, IInv, MainOrder, Threads
<1>2. pc[created] = "none"
  BY <1>1 DEF IInv, MainOrder
<1>3. /\ pc' \in [Threads -> {"none", "lock", "insert", "length", "delete", "unlock", "exited"}]
      /\ pc'[created] = "lock" /\ \A t \in Threads : t # created => pc'[t] = pc[t]
  BY <1>1 DEF IInv, ControlOK
<1>4. ControlOK'
  BY <1>1, <1>3 DEF IInv, ControlOK, locks, Threads, Elms, NumElms
<1>5. Inside' = Inside
  BY <1>1, <1>2, <1>3 DEF Inside
<1>6. LockHeld'
  BY <1>1, <1>5 DEF IInv, LockHeld, locks
<1>7. MainOrder'
  BY <1>1, <1>3, Numbers DEF IInv, MainOrder, Threads
<1> QED BY <1>1, <1>2, <1>3, <1>4, <1>6, <1>7 DEF IInv

\* main joins the next thread: one more of the threads that have exited.
LEMMA JoinKeeps ==
  ASSUME IInv, Join  PROVE IInv'
<1>1. /\ created = NumThreads /\ joined < NumThreads /\ joined \in Nat /\ pc[joined] = "exited"
      /\ joined' = joined + 1 /\ UNCHANGED <<key, myLock, addLock, spinLock, pc, index, created>>
  BY Numbers DEF Join, locks, thread, IInv, MainOrder
<1>2. ControlOK'
  BY <1>1 DEF IInv, ControlOK, Threads, Elms, NumElms
<1>3. LockHeld'
  BY <1>1 DEF IInv, LockHeld, Inside
<1>4. MainOrder'
  BY <1>1, Numbers DEF IInv, MainOrder, Threads
<1> QED BY <1>2, <1>3, <1>4 DEF IInv

\* No list operation changes a key.
LEMMA ListStepKeepsKeys ==
  ASSUME NEW c, List!ListStep(c)  PROVE UNCHANGED key
  BY DEF List!ListStep, List!First, List!Advance, List!SetNext, List!SetPrev,
         List!Link, List!LinkBack, List!LoadPred, List!LoadSucc, List!TestPrev,
         List!TestNext, List!Test, List!Unlink, List!UnlinkBack,
         List!LookupEnds, List!LengthScan, List!heap

\* Every step keeps the invariant.
LEMMA NextKeeps ==
  ASSUME IInv, [Next]_vars  PROVE IInv'
<1>1. ASSUME NEW t \in Threads, Call(t) \/ InCall(t) \/ Found(t) \/ Fails(t)  PROVE IInv'
  BY <1>1, ListStepKeepsKeys, OthersKeep DEF Call, InCall, Found, Fails, locks, thread, main
<1>2. CASE CreateFails \/ CheckBegins \/ CheckRuns \/ CheckEnds
  BY <1>2, ListStepKeepsKeys, OthersKeep
     DEF CreateFails, CheckBegins, CheckRuns, CheckEnds, locks, thread, main
<1>3. CASE UNCHANGED vars
  BY <1>3, OthersKeep DEF vars, locks, thread, main
<1> QED BY <1>1, <1>2, <1>3, LockKeeps, GoesOnKeeps, UnlockKeeps, CreateKeeps, JoinKeeps
     DEF Next, ThreadStep, MainStep, Ended

\* The invariant on threads and lock starts out true.
LEMMA InitKeeps ==
  ASSUME Init  PROVE IInv
<1>1. ControlOK
  BY ArgsAssumption DEF Init, List!HeapInit, ControlOK
<1>2. LockHeld
  BY DEF Init, LockHeld, Inside
<1>3. MainOrder
  BY Numbers DEF Init, MainOrder
<1> QED BY <1>1, <1>2, <1>3 DEF IInv

\* IInv is an inductive invariant of the program.
THEOREM Inductive == Spec => []IInv
  BY InitKeeps, NextKeeps, PTL DEF Spec

-----------------------------------------------------------------------------
(* The list the program works on.                                          *)

\* The two instances of SortedList have the same steps.
LEMMA SameSteps ==
  ASSUME NEW c
  PROVE  /\ List!ListStep(c) => ListP!ListStep(c)
         /\ List!ClientStep(c) => ListP!ClientStep(c)
<1>1. List!ListStep(c) => ListP!ListStep(c)
  BY DEF List!ListStep, List!First, List!Advance, List!SetNext, List!SetPrev,
         List!Link, List!LinkBack, List!LoadPred, List!LoadSucc, List!TestPrev,
         List!TestNext, List!Test, List!Unlink, List!UnlinkBack,
         List!LookupEnds, List!LengthScan, List!heap, List!KeyAhead, List!AtHeader,
         List!AfterPred, List!AfterSucc, List!NULL,
         ListP!ListStep, ListP!First, ListP!Advance, ListP!SetNext, ListP!SetPrev,
         ListP!Link, ListP!LinkBack, ListP!LoadPred, ListP!LoadSucc, ListP!TestPrev,
         ListP!TestNext, ListP!Test, ListP!Unlink, ListP!UnlinkBack,
         ListP!LookupEnds, ListP!LengthScan, ListP!heap, ListP!KeyAhead, ListP!AtHeader,
         ListP!AfterPred, ListP!AfterSucc, ListP!NULL
<1>2. List!ClientStep(c) => ListP!ClientStep(c)
  BY DEF List!ClientStep, List!BeginInsert, List!BeginLookup, List!BeginLength, List!DeleteFound,
         List!Begin, List!BeginDelete, List!Finish, List!Returns, List!Inserting, List!Idle, List!NULL, List!heap,
         ListP!ClientStep, ListP!BeginInsert, ListP!BeginLookup, ListP!BeginLength, ListP!DeleteFound,
         ListP!Begin, ListP!BeginDelete, ListP!Finish, ListP!Returns, ListP!Inserting, ListP!Idle, ListP!NULL, ListP!heap
<1> QED BY <1>1, <1>2

\* They start alike.
LEMMA SameInit == List!HeapInit => ListP!HeapInit
  BY DEF List!HeapInit, ListP!HeapInit, List!Nodes, ListP!Nodes, List!NULL, ListP!NULL,
       List!Idle, ListP!Idle

\* Their lists have the same contents.
LEMMA SameContent == \A l : ListP!Content(l) = List!Content(l)
  BY DEF ListP!Content, List!Content, ListP!Reaches, List!Reaches, ListP!Nodes, List!Nodes,
       ListP!Cardinality, List!Cardinality

\* The two instances of SortedList begin and end calls alike.
LEMMA SameUses ==
  ASSUME NEW c
  PROVE  /\ List!heap = ListP!heap /\ List!NULL = ListP!NULL /\ List!Idle = ListP!Idle
         /\ \A l, e : /\ List!BeginInsert(c, l, e) => ListP!BeginInsert(c, l, e)
                      /\ List!BeginLookup(c, l, e) => ListP!BeginLookup(c, l, e)
                      /\ List!BeginLength(c, l) => ListP!BeginLength(c, l)
         /\ List!DeleteFound(c) => ListP!DeleteFound(c)
         /\ List!Finish(c) => ListP!Finish(c)
         /\ List!Returns(c) => ListP!Returns(c)
  BY DEF List!BeginInsert, List!BeginLookup, List!BeginLength, List!DeleteFound,
       List!Begin, List!BeginDelete, List!Finish, List!Returns, List!Inserting, List!Idle, List!NULL, List!heap,
       ListP!BeginInsert, ListP!BeginLookup, ListP!BeginLength, ListP!DeleteFound,
       ListP!Begin, ListP!BeginDelete, ListP!Finish, ListP!Returns, ListP!Inserting, ListP!Idle, ListP!NULL, ListP!heap

\* main is no thread, and NULL no node.
LEMMA MainIsNoThread ==
  /\ Main \notin Threads
  /\ ListP!NULL \notin ListP!Nodes /\ Elms \subseteq ListP!Nodes /\ list \in ListP!Nodes
  BY Numbers, NodesOK, ListP!NullIsNoNode DEF ListP!Nodes


\* The element belongs to a thread.
LEMMA OwnerIs ==
  ASSUME NEW e \in Elms
  PROVE  e \in Nat /\ NumThreads \in Nat /\ NumThreads > 0 /\ e % NumThreads \in Threads
<1>1. NumElms \in Nat /\ NumThreads \in Nat /\ NumIters \in Nat
  BY ArgsAssumption DEF NumElms
<1>2. e \in Nat /\ 0 < NumElms
  BY <1>1 DEF Elms
<1>3. NumThreads # 0
  <2> SUFFICES ASSUME NumThreads = 0 PROVE FALSE
    OBVIOUS
  <2>1. 0 * NumIters = 0
    BY <1>1
  <2> QED BY <1>2, <2>1 DEF NumElms
<1> QED BY <1>1, <1>2, <1>3 DEF Threads

\* What the lists consist of, for the proofs about their callers.
LEMMA ListTypes ==
  ASSUME ListP!IInv
  PROVE  /\ DOMAIN call = Threads \cup {Main} /\ call = [c \in Threads \cup {Main} |-> call[c]]
         /\ next = [n \in ListP!Nodes |-> next[n]] /\ DOMAIN next = ListP!Nodes
         /\ key \in [Elms -> Keys]
  BY DEF ListP!IInv, ListP!HeapTypeOK

\* A caller that takes a step in a list operation is in one.
LEMMA StepIsOfCall ==
  ASSUME ListP!IInv, NEW c \in Threads \cup {Main}, ListP!ListStep(c)
  PROVE  /\ call[c] # ListP!Idle
         /\ \A d \in Threads \cup {Main} : d # c => call'[d] = call[d]
         /\ call'[c].op = call[c].op /\ UNCHANGED key
<1>1. ListP!Idle.at = "none"
  BY DEF ListP!Idle
<1>2. call[c].at # "none"
  BY DEF ListP!ListStep, ListP!First, ListP!Advance, ListP!SetNext, ListP!SetPrev,
         ListP!Link, ListP!LinkBack, ListP!LoadPred, ListP!LoadSucc, ListP!TestPrev,
         ListP!TestNext, ListP!Test, ListP!Unlink, ListP!UnlinkBack,
         ListP!LookupEnds, ListP!LengthScan, ListP!AfterPred, ListP!AfterSucc
<1> QED BY <1>1, <1>2, NodesOK, ListP!ListStepLeaves

\* The elements of a thread, and where a loop stands among them.
LEMMA OwnElements ==
  ASSUME NEW t \in Threads, NEW e \in Elms, e % NumThreads = t
  PROVE  /\ t \in Nat /\ e \in Nat /\ NumThreads \in Nat /\ NumThreads > 0
         /\ t <= e /\ t < NumElms /\ e < NumElms /\ NumElms \in Nat
         /\ \A i \in Nat : i % NumThreads = t => (e < i + NumThreads <=> e <= i)
<1>1. /\ t \in Nat /\ e \in Nat /\ NumThreads \in Nat /\ NumThreads > 0 /\ NumElms \in Nat
      /\ e < NumElms /\ t < NumThreads
  BY OwnerIs, ArgsAssumption DEF Threads, Elms, NumElms
<1>2. t % NumThreads = t
  BY <1>1
<1>3. t <= e
  BY <1>1, <1>2, NodesOK, ListP!NextOfClass
<1>4. ASSUME NEW i \in Nat, i % NumThreads = t  PROVE e < i + NumThreads <=> e <= i
  <2>1. i < e <=> i + NumThreads <= e
    BY <1>1, <1>4, NodesOK, ListP!NextOfClass
  <2>2. e < i <=> e + NumThreads <= i
    BY <1>1, <1>4, NodesOK, ListP!NextOfClass
  <2> QED BY <1>1, <2>1, <2>2
<1> QED BY <1>1, <1>3, <1>4

-----------------------------------------------------------------------------
(* How the threads use the list.                                           *)

\* Thread e % NumThreads has not begun to insert element e yet.
NotYet(e) ==
  LET t == e % NumThreads
  IN  \/ pc[t] \in {"none", "lock"}
      \/ pc[t] = "insert" /\ index[t] < e
      \/ pc[t] = "insert" /\ index[t] = e /\ call[t].op # "insert"

\* A thread makes the calls of the loop it is in, for the element it has come
\* to, and none outside of the loops.
ThreadLegal(t) ==
  /\ pc[t] \notin {"insert", "length", "delete"} => call[t] = ListP!Idle
  /\ pc[t] = "insert" => \/ call[t] = ListP!Idle
                         \/ call[t].op = "insert" /\ call[t].elm = index[t]
  /\ pc[t] = "length" => call[t] = ListP!Idle \/ call[t].op = "length"
  /\ pc[t] = "delete" => \/ call[t] = ListP!Idle
                         \/ call[t].op = "lookup" /\ call[t].elm = index[t]
                         \/ call[t].op = "delete"

\* main takes the length of the list when all threads are joined.
MainLegal ==
  call[Main] = ListP!Idle \/ (call[Main].op = "length" /\ joined = NumThreads)

Legal ==
  /\ \A t \in Threads : ThreadLegal(t)
  /\ MainLegal
  /\ \A e \in Elms : NotYet(e) => next[e] = ListP!NULL

LegalInv == IInv /\ ListP!IInv /\ Legal

\* A call that is idle has no operation.
LEMMA IdleIs == ListP!Idle.op = "none" /\ ListP!Idle.at = "none"
  BY DEF ListP!Idle

\* A step of one thread that changes no link, after which the others and main
\* stand where they stood: what is to be shown.
LEMMA LegalKeptBy ==
  ASSUME LegalInv, NEW t \in Threads,
         \A u \in Threads : u # t =>
           pc'[u] = pc[u] /\ index'[u] = index[u] /\ call'[u] = call[u],
         call'[Main] = call[Main], UNCHANGED <<next, joined>>, ThreadLegal(t)',
         \A e \in Elms : e % NumThreads = t /\ NotYet(e)' => NotYet(e)
  PROVE  Legal'
<1>1. ASSUME NEW u \in Threads  PROVE ThreadLegal(u)'
  BY <1>1 DEF LegalInv, Legal, ThreadLegal
<1>2. ASSUME NEW e \in Elms, NotYet(e)'  PROVE next'[e] = ListP!NULL
  <2>1. e % NumThreads \in Threads
    BY OwnerIs
  <2>2. NotYet(e)
    BY <1>2, <2>1 DEF NotYet
  <2> QED BY <2>2 DEF LegalInv, Legal
<1>3. MainLegal'
  BY DEF LegalInv, Legal, MainLegal, Main
<1> QED BY <1>1, <1>2, <1>3 DEF Legal

\* A thread begins a call as the list allows it: its element is not linked and
\* nobody else inserts it.
LEMMA CallUses ==
  ASSUME LegalInv, NEW t \in Threads, Call(t)
  PROVE  /\ pc[t] \in {"insert", "length", "delete"} /\ call[t] = ListP!Idle
         /\ UNCHANGED List!heap /\ UNCHANGED <<locks, thread, main>>
         /\ \A d \in Threads \cup {Main} : d # t => call'[d] = call[d]
         /\ call'[t].at = "first"
         /\ \/ /\ pc[t] = "insert" /\ index[t] \in Elms /\ List!BeginInsert(t, list, index[t])
               /\ call'[t].op = "insert" /\ call'[t].elm = index[t]
            \/ /\ pc[t] = "delete" /\ index[t] \in Elms /\ List!BeginLookup(t, list, index[t])
               /\ call'[t].op = "lookup" /\ call'[t].elm = index[t]
            \/ pc[t] = "length" /\ List!BeginLength(t, list) /\ call'[t].op = "length"
<1>1. /\ pc[t] \in {"insert", "length", "delete"} /\ call[t] = List!Idle
      /\ UNCHANGED List!heap /\ UNCHANGED <<locks, thread, main>> /\ ControlOK
  BY DEF Call, Calling, List!heap, LegalInv, IInv
<1>2. pc[t] # "length" => index[t] \in Elms /\ index[t] % NumThreads = t
  BY <1>1, Numbers DEF ControlOK
<1>3. PICK o, e :
        /\ \/ pc[t] = "insert" /\ o = "insert" /\ e = index[t]
           \/ pc[t] = "delete" /\ o = "lookup" /\ e = index[t]
           \/ pc[t] = "length" /\ o = "length" /\ e = List!NULL
        /\ List!Begin(t, o, list, e)
  <2>1. CASE pc[t] = "insert"
    <3>1. List!Begin(t, "insert", list, index[t])
      BY <2>1 DEF Call
    <3> QED BY <2>1, <3>1
  <2>2. CASE pc[t] = "length"
    <3>1. List!Begin(t, "length", list, List!NULL)
      BY <2>2 DEF Call
    <3> QED BY <2>2, <3>1
  <2>3. CASE pc[t] = "delete"
    <3>1. List!Begin(t, "lookup", list, index[t])
      BY <2>3 DEF Call
    <3> QED BY <2>3, <3>1
  <2> QED BY <1>1, <2>1, <2>2, <2>3
<1>4. PICK f : /\ f = [List!Idle EXCEPT !.op = o, !.at = "first", !.list = list, !.elm = e]
               /\ call' = [call EXCEPT ![t] = f]
  BY <1>3 DEF List!Begin
<1>5. f.op = o /\ f.elm = e /\ f.at = "first"
  BY <1>4 DEF List!Idle
<1>6. call'[t] = f /\ \A d \in Threads \cup {Main} : d # t => call'[d] = call[d]
  BY <1>4, ListTypes DEF LegalInv
<1>7. call[t] = ListP!Idle
  BY <1>1, SameUses
<1>8. CASE pc[t] = "insert"
  <2>1. next[index[t]] = List!NULL
    <3>1. NotYet(index[t])
      BY <1>2, <1>7, <1>8, IdleIs DEF NotYet
    <3> QED BY <1>2, <1>8, <3>1, SameUses DEF LegalInv, Legal
  <2>2. ASSUME NEW d \in Threads \cup {Main}, List!Inserting(d, index[t])  PROVE FALSE
    <3>1. call[d].op = "insert" /\ call[d].elm = index[t]
      BY <2>2 DEF List!Inserting
    <3>2. d \in Threads
      BY <3>1, IdleIs DEF LegalInv, Legal, MainLegal
    <3>3. pc[d] = "insert" /\ index[d] = index[t]
      BY <3>1, <3>2, IdleIs DEF LegalInv, Legal, ThreadLegal
    <3>4. d = t
      BY <1>1, <1>2, <1>8, <3>2, <3>3 DEF ControlOK
    <3> QED BY <1>7, <3>1, <3>4, IdleIs
  <2>3. List!BeginInsert(t, list, index[t])
    BY <1>1, <1>3, <1>8, <2>1, <2>2 DEF List!BeginInsert
  <2> QED BY <1>1, <1>2, <1>3, <1>5, <1>6, <1>7, <1>8, <2>3
<1>9. CASE pc[t] = "length"
  BY <1>1, <1>3, <1>5, <1>6, <1>7, <1>9 DEF List!BeginLength
<1>10. CASE pc[t] = "delete"
  BY <1>1, <1>2, <1>3, <1>5, <1>6, <1>7, <1>10 DEF List!BeginLookup
<1> QED BY <1>1, <1>8, <1>9, <1>10

\* A thread goes on to delete what it has found.
LEMMA FoundUses ==
  ASSUME LegalInv, NEW t \in Threads, Found(t)
  PROVE  /\ pc[t] = "delete" /\ call[t].op = "lookup" /\ call[t].elm = index[t]
         /\ UNCHANGED List!heap /\ UNCHANGED <<locks, thread, main>> /\ List!DeleteFound(t)
         /\ call'[t].op = "delete" /\ call'[t].at = "getNext" /\ call'[t].temp = call[t].temp
         /\ \A d \in Threads \cup {Main} : d # t => call'[d] = call[d]
<1>1. /\ call[t].op = "lookup" /\ UNCHANGED List!heap /\ UNCHANGED <<locks, thread, main>>
      /\ List!DeleteFound(t)
      /\ call' = [call EXCEPT ![t] =
           [List!Idle EXCEPT !.op = "delete", !.at = "getNext", !.temp = call[t].temp]]
  BY DEF Found, Returned, List!DeleteFound, List!Returns, List!BeginDelete, List!heap
<1>2. pc[t] = "delete" /\ call[t].elm = index[t]
  BY <1>1, IdleIs DEF LegalInv, Legal, ThreadLegal
<1>3. /\ call'[t].op = "delete" /\ call'[t].at = "getNext" /\ call'[t].temp = call[t].temp
      /\ \A d \in Threads \cup {Main} : d # t => call'[d] = call[d]
  BY <1>1, ListTypes DEF List!Idle, LegalInv
<1> QED BY <1>1, <1>2, <1>3

\* A call ends.
LEMMA GoesOnUses ==
  ASSUME LegalInv, NEW t \in Threads, GoesOn(t)
  PROVE  /\ pc[t] \in {"insert", "length", "delete"} /\ call[t].op = pc[t] /\ call[t].at = "return"
         /\ UNCHANGED List!heap /\ UNCHANGED <<locks, main>>
         /\ List!Returns(t) /\ List!Finish(t) /\ call'[t] = ListP!Idle
         /\ \A d \in Threads \cup {Main} : d # t => call'[d] = call[d]
<1>1. /\ pc[t] \in {"insert", "length", "delete"} /\ call[t].op = pc[t] /\ call[t].at = "return"
      /\ UNCHANGED List!heap /\ UNCHANGED <<locks, main>> /\ List!Returns(t) /\ List!Finish(t)
  BY DEF GoesOn, Returned, Calling, List!Returns, List!heap
<1>2. call' = [call EXCEPT ![t] = ListP!Idle]
  BY <1>1, SameUses DEF List!Finish
<1> QED BY <1>1, <1>2, ListTypes DEF LegalInv

\* Every step of the program is a step of a call, a use that SortedList
\* allows, or leaves the list as it is.
LEMMA StepIsLegal ==
  ASSUME LegalInv, [Next]_vars  PROVE [List!Next]_(List!vars)
<1>1. ASSUME NEW t \in Threads, ThreadStep(t)  PROVE [List!Next]_(List!vars)
  <2>1. CASE Call(t)
    <3>1. List!ClientStep(t)
      BY <2>1, CallUses DEF List!ClientStep
    <3> QED BY <3>1 DEF List!Next
  <2>2. CASE InCall(t)
    BY <2>2 DEF InCall, List!Next
  <2>3. CASE Found(t)
    <3>1. List!ClientStep(t)
      BY <2>3, FoundUses DEF List!ClientStep
    <3> QED BY <3>1 DEF List!Next
  <2>4. CASE GoesOn(t)
    <3>1. List!ClientStep(t)
      BY <2>4, GoesOnUses DEF List!ClientStep
    <3> QED BY <3>1 DEF List!Next
  <2>5. CASE Lock(t) \/ Fails(t) \/ Unlock(t)
    BY <2>5 DEF Lock, Fails, Unlock, List!vars
  <2> QED BY <1>1, <2>1, <2>2, <2>3, <2>4, <2>5 DEF ThreadStep
<1>2. CASE MainStep
  <2>1. CASE Create \/ CreateFails \/ Join \/ CheckEnds
    BY <2>1 DEF Create, CreateFails, Join, CheckEnds, List!vars
  <2>2. CASE CheckBegins
    <3>1. List!BeginLength(Main, list) /\ UNCHANGED List!heap
      BY <2>2 DEF CheckBegins, List!BeginLength, List!heap
    <3>2. List!ClientStep(Main)
      BY <3>1 DEF List!ClientStep
    <3> QED BY <3>2 DEF List!Next
  <2>3. CASE CheckRuns
    BY <2>3 DEF CheckRuns, List!Next
  <2> QED BY <1>2, <2>1, <2>2, <2>3 DEF MainStep
<1>3. CASE UNCHANGED vars
  BY <1>3 DEF vars, List!vars
<1> QED BY <1>1, <1>2, <1>3 DEF Next, Ended

\* What the program does to the list is what SortedList allows.
LEMMA SameNext ==
  ASSUME [List!Next]_(List!vars)  PROVE [ListP!Next]_(ListP!vars)
  BY SameSteps DEF List!Next, ListP!Next, List!vars, ListP!vars

\* No step changes a key.
LEMMA KeysKept ==
  ASSUME [List!Next]_(List!vars)  PROVE UNCHANGED key
  BY ListStepKeepsKeys DEF List!Next, List!ClientStep, List!heap, List!vars

\* A step of a call sets, of the links that are NULL, only that of the element
\* it inserts.
LEMMA CallLegal ==
  ASSUME LegalInv, NEW c \in Threads \cup {Main}, List!ListStep(c), UNCHANGED <<pc, index, joined>>
  PROVE  Legal'
<1>1. /\ \A u \in Threads \cup {Main} : /\ u # c => call'[u] = call[u]
                                        /\ call'[u].op = call[u].op
                                        /\ call'[u].elm = call[u].elm
      /\ \A n \in ListP!Nodes : \/ next[n] \in ListP!Nodes \/ next'[n] = next[n]
                                \/ call[c].op = "insert" /\ n = call[c].elm
      /\ call[c] # ListP!Idle
  BY NodesOK, SameSteps, StepIsOfCall, ListP!ListStepLeaves DEF LegalInv
<1>2. \A u \in Threads : ThreadLegal(u)'
  BY <1>1 DEF LegalInv, Legal, ThreadLegal
<1>3. MainLegal'
  BY <1>1 DEF LegalInv, Legal, MainLegal, Main
<1>4. ASSUME NEW e \in Elms, NotYet(e)'  PROVE next'[e] = ListP!NULL
  <2>1. NotYet(e)
    BY <1>1, <1>4, OwnerIs DEF NotYet
  <2>2. next[e] = ListP!NULL /\ next[e] \notin ListP!Nodes /\ e \in ListP!Nodes
    BY <2>1, MainIsNoThread DEF LegalInv, Legal
  <2>3. ASSUME call[c].op = "insert", e = call[c].elm  PROVE FALSE
    <3>1. c \in Threads
      BY <2>3, IdleIs DEF LegalInv, Legal, MainLegal
    <3>2. pc[c] = "insert" /\ index[c] = e
      BY <2>3, <3>1, IdleIs DEF LegalInv, Legal, ThreadLegal
    <3>3. e % NumThreads = c /\ e \in Nat
      BY <3>1, <3>2, OwnerIs DEF LegalInv, IInv, ControlOK
    <3> QED BY <2>1, <2>3, <3>2, <3>3 DEF NotYet
  <2> QED BY <1>1, <2>2, <2>3
<1> QED BY <1>2, <1>3, <1>4 DEF Legal

\* A thread takes the lock, goes on after a call, or leaves.
LEMMA LockLegal ==
  ASSUME LegalInv, NEW t \in Threads, Lock(t)  PROVE Legal'
<1>1. /\ pc[t] = "lock" /\ pc'[t] \in {"insert", "length"} /\ index'[t] = t
      /\ UNCHANGED <<next, call, joined>> /\ Goto(t, "insert", t) /\ t \in Nat
  BY LockKeeps, Numbers DEF Lock, main, LegalInv
<1>2. \A u \in Threads : u # t => pc'[u] = pc[u] /\ index'[u] = index[u]
  BY <1>1, GotoIs DEF LegalInv, IInv
<1>3. ThreadLegal(t)'
  BY <1>1 DEF LegalInv, Legal, ThreadLegal, ListP!Idle
<1>4. ASSUME NEW e \in Elms, e % NumThreads = t  PROVE NotYet(e)
  BY <1>1, <1>4 DEF NotYet
<1> QED BY <1>1, <1>2, <1>3, <1>4, LegalKeptBy

\* A thread leaves a call and goes to its next element or its next loop: what it
\* has inserted and deleted is what its place says.
LEMMA GoesOnLegal ==
  ASSUME LegalInv, NEW t \in Threads, GoesOn(t)  PROVE Legal'
<1>1. /\ pc[t] \in {"insert", "length", "delete"} /\ UNCHANGED <<next, joined>> /\ ControlOK
      /\ call[t].op = pc[t] /\ call'[t] = ListP!Idle
      /\ \A d \in Threads \cup {Main} : d # t => call'[d] = call[d]
  BY GoesOnUses DEF List!heap, main, LegalInv, IInv
<1>2. PICK p \in {"insert", "delete"}, i \in Nat :
        /\ Goto(t, p, i) /\ i % NumThreads = t
        /\ p = "insert" => pc[t] = "insert" /\ i = index[t] + NumThreads
  BY <1>1, GoesOnIs, Numbers
<1>3. /\ index'[t] = i /\ \A u \in Threads : u # t => pc'[u] = pc[u] /\ index'[u] = index[u]
      /\ \/ i < NumElms /\ pc'[t] = p
         \/ pc'[t] \in {"length", "unlock"}
  BY <1>1, <1>2, GotoIs
<1>4. ThreadLegal(t)'
  <2>1. call'[t] = ListP!Idle'
    BY <1>1 DEF ListP!Idle
  <2> QED BY <2>1 DEF ThreadLegal
<1>5. ASSUME NEW e \in Elms, e % NumThreads = t, NotYet(e)'  PROVE NotYet(e)
  <2>1. pc'[t] = "insert" /\ index'[t] <= e
    BY <1>3, <1>5, OwnerIs DEF NotYet
  <2>2. pc[t] = "insert" /\ index[t] + NumThreads <= e /\ index[t] \in Nat /\ e \in Nat
    BY <1>1, <1>2, <1>3, <2>1, OwnerIs DEF ControlOK
  <2>3. NumThreads \in Nat /\ NumThreads > 0
    BY OwnerIs
  <2>4. index[t] < e
    BY <2>2, <2>3
  <2> QED BY <1>5, <2>2, <2>4 DEF NotYet
<1>6. call'[Main] = call[Main]
  BY <1>1, MainIsNoThread
<1> QED BY <1>1, <1>3, <1>4, <1>5, <1>6, LegalKeptBy

\* Every step keeps the legal use of the list.
LEMMA LegalKept ==
  ASSUME LegalInv, [Next]_vars  PROVE Legal'
<1>0. Main \notin Threads
  BY Numbers
<1>1. ASSUME NEW t \in Threads, ThreadStep(t)  PROVE Legal'
  <2>1. CASE InCall(t)
    BY <2>1, CallLegal DEF InCall, thread, main
  <2>2. CASE Call(t)
    <3>1. /\ UNCHANGED <<next, pc, index, joined>>
          /\ \A d \in Threads \cup {Main} : d # t => call'[d] = call[d]
      BY <2>2, CallUses DEF List!heap, thread, main
    <3>2. ThreadLegal(t)'
      BY <2>2, <3>1, CallUses DEF ThreadLegal
    <3>3. \A e \in Elms : e % NumThreads = t /\ NotYet(e)' => NotYet(e)
      BY <2>2, <3>1, CallUses, IdleIs DEF NotYet
    <3> QED BY <1>0, <3>1, <3>2, <3>3, LegalKeptBy
  <2>3. CASE Found(t)
    <3>1. /\ UNCHANGED <<next, pc, index, joined>> /\ pc[t] = "delete" /\ call'[t].op = "delete"
          /\ \A d \in Threads \cup {Main} : d # t => call'[d] = call[d]
      BY <2>3, FoundUses DEF List!heap, thread, main
    <3>2. ThreadLegal(t)'
      BY <3>1 DEF ThreadLegal
    <3>3. \A e \in Elms : e % NumThreads = t /\ NotYet(e)' => NotYet(e)
      BY <3>1 DEF NotYet
    <3> QED BY <1>0, <3>1, <3>2, <3>3, LegalKeptBy
  <2>4. CASE Fails(t)
    <3>1. UNCHANGED <<next, call, pc, index, joined>>
      BY <2>4 DEF Fails, thread
    <3> QED BY <3>1 DEF LegalInv, Legal, ThreadLegal, MainLegal, NotYet
  <2>5. CASE Unlock(t)
    <3>1. /\ UNCHANGED <<next, call, index, joined>> /\ pc[t] = "unlock" /\ pc' = [pc EXCEPT ![t] = "exited"]
      BY <2>5 DEF Unlock, At, main
    <3>2. pc'[t] = "exited" /\ \A u \in Threads : u # t => pc'[u] = pc[u]
      BY <3>1 DEF LegalInv, IInv, ControlOK
    <3>3. ThreadLegal(t)'
      BY <3>1, <3>2 DEF LegalInv, Legal, ThreadLegal, ListP!Idle
    <3>4. \A e \in Elms : e % NumThreads = t => ~NotYet(e)'
      BY <3>2 DEF NotYet
    <3> QED BY <3>1, <3>2, <3>3, <3>4, LegalKeptBy
  <2> QED BY <1>1, <2>1, <2>2, <2>3, <2>4, <2>5, LockLegal, GoesOnLegal DEF ThreadStep
<1>2. CASE CreateFails \/ CheckEnds \/ UNCHANGED vars
  <2>1. UNCHANGED <<next, call, pc, index, joined>>
    BY <1>2 DEF CreateFails, CheckEnds, vars, thread, main
  <2> QED BY <2>1 DEF LegalInv, Legal, ThreadLegal, MainLegal, NotYet
<1>3. CASE Join
  <2>1. UNCHANGED <<next, call, pc, index>> /\ joined # NumThreads
    BY <1>3, Numbers DEF Join, thread, LegalInv, IInv, MainOrder
  <2> QED BY <2>1 DEF LegalInv, Legal, ThreadLegal, MainLegal, NotYet
<1>4. CASE Create
  <2>1. PICK t \in Threads : /\ t = created /\ pc[t] = "none" /\ pc'[t] = "lock"
                             /\ UNCHANGED <<next, call, index, joined>>
                             /\ \A u \in Threads : u # t => pc'[u] = pc[u]
    BY <1>4, CreateKeeps DEF Create, LegalInv, IInv, ControlOK
  <2>2. ThreadLegal(t)'
    BY <2>1 DEF LegalInv, Legal, ThreadLegal, ListP!Idle
  <2>3. \A e \in Elms : e % NumThreads = t => NotYet(e)
    BY <2>1 DEF NotYet
  <2> QED BY <2>1, <2>2, <2>3, LegalKeptBy
<1>5. CASE CheckBegins
  <2>1. /\ UNCHANGED <<next, pc, index, joined>> /\ joined = NumThreads
        /\ call'[Main].op = "length" /\ \A u \in Threads : call'[u] = call[u]
    BY <1>0, <1>5, ListTypes DEF CheckBegins, List!Begin, List!Idle, thread, main, LegalInv
  <2>2. \A u \in Threads : ThreadLegal(u)'
    BY <2>1 DEF LegalInv, Legal, ThreadLegal
  <2>3. MainLegal'
    BY <2>1 DEF MainLegal, Main
  <2>4. ASSUME NEW e \in Elms, NotYet(e)'  PROVE next'[e] = ListP!NULL
    <3>1. NotYet(e)
      BY <2>1, <2>4, OwnerIs DEF NotYet
    <3> QED BY <2>1, <3>1 DEF LegalInv, Legal
  <2> QED BY <2>2, <2>3, <2>4 DEF Legal
<1>6. CASE CheckRuns
  BY <1>6, CallLegal DEF CheckRuns, thread, main
<1> QED BY <1>1, <1>2, <1>3, <1>4, <1>5, <1>6 DEF Next, MainStep, Ended

\* The program starts with an empty list and no thread.
LEMMA InitLegal ==
  ASSUME Init  PROVE ListP!IInv /\ Legal
<1>1. ListP!HeapInit
  BY SameInit DEF Init
<1>2. ListP!IInv
  BY <1>1, NodesOK, ListP!InitKeeps
<1>3. \A e \in Elms : next[e] = ListP!NULL
  BY <1>1, NodesOK DEF ListP!HeapInit, ListP!Nodes, ListP!NodesAssumption
<1>4. \A c \in Threads \cup {Main} : call[c] = ListP!Idle
  BY <1>1 DEF ListP!HeapInit
<1> QED BY <1>2, <1>3, <1>4 DEF Init, Legal, ThreadLegal, MainLegal

\* The threads and main use the list legally in every state.
THEOREM LegalInductive == Spec => []LegalInv
<1>1. Init => LegalInv
  BY InitLegal, InitKeeps DEF LegalInv
<1>2. LegalInv /\ [Next]_vars => LegalInv'
  <2> SUFFICES ASSUME LegalInv, [Next]_vars  PROVE LegalInv'
    OBVIOUS
  <2>1. [ListP!Next]_(ListP!vars)
    BY StepIsLegal, SameNext
  <2>2. ListP!IInv'
    BY <2>1, NodesOK, ListP!NextKeeps DEF LegalInv
  <2> QED BY <2>2, LegalKept, NextKeeps DEF LegalInv
<1> QED BY <1>1, <1>2, PTL DEF Spec

\* With and without --sync the program uses its list as SortedList allows: each
\* element is inserted once, and deleted after a lookup returned it.
THEOREM LegalUse == Spec => List!Spec
<1>1. Init => List!HeapInit
  BY DEF Init
<1>2. LegalInv /\ [Next]_vars => [List!Next]_(List!vars)
  BY StepIsLegal
<1> QED BY <1>1, <1>2, LegalInductive, PTL DEF Spec, List!Spec

\* No list operation of lab2a dereferences NULL, with and without --sync.
THEOREM NeverNull == Spec => []List!NoNullDereference
<1>1. LegalInv => List!NoNullDereference
  <2> SUFFICES ASSUME LegalInv  PROVE List!NoNullDereference
    OBVIOUS
  <2>1. ListP!NoNullDereference
    BY NodesOK, ListP!ReadyIsNotNull DEF LegalInv
  <2> QED BY <2>1 DEF ListP!NoNullDereference, List!NoNullDereference, List!NULL, ListP!NULL,
     List!UsesTemp, List!UsesPred, List!UsesSucc, ListP!UsesTemp, ListP!UsesPred, ListP!UsesSucc,
     List!AfterPred, List!AfterSucc, ListP!AfterPred, ListP!AfterSucc
<1> QED BY <1>1, LegalInductive, PTL

\* With and without --sync the list of lab2a leads back to its header.
THEOREM AlwaysClosed == Spec => []List!NeverCut
<1>1. Init => ListP!HeapInit
  BY SameInit DEF Init
<1>2. LegalInv /\ [Next]_vars => [ListP!Next]_(ListP!vars)
  BY StepIsLegal, SameNext
<1>3. ListP!Spec => []ListP!NeverCut
  BY NodesOK, ListP!AlwaysClosed
<1>4. ListP!NeverCut => List!NeverCut
  BY SameContent DEF ListP!NeverCut, List!NeverCut, ListP!Closed, List!Closed
<1> QED BY <1>1, <1>2, <1>3, <1>4, LegalInductive, PTL DEF Spec, ListP!Spec

-----------------------------------------------------------------------------
(* With --sync the list is a ring on which one caller works.               *)

\* The list that a thread or main works on.
On == [c \in Threads \cup {Main} |-> IF call[c] = ListP!Idle THEN ListP!NULL ELSE list]

\* Who has a call works on the list.
LEMMA OnIs ==
  ASSUME NEW on, on = On, NEW c \in Threads \cup {Main}
  PROVE  /\ on[c] \in {list} <=> call[c] # ListP!Idle
         /\ on[c] \in {list} <=> on[c] = list
<1>1. list # ListP!NULL
  BY MainIsNoThread
<1> QED BY <1>1 DEF On

\* The same after a step.
LEMMA OnAfter ==
  ASSUME NEW on2, on2 = On'
  PROVE  /\ \A c \in Threads \cup {Main} :
              on2[c] = IF call'[c] = ListP!Idle THEN ListP!NULL ELSE list
         /\ \A c \in Threads \cup {Main} : on2[c] \in {list} <=> call'[c] # ListP!Idle
         /\ on2 = [c \in Threads \cup {Main} |-> on2[c]]
<1>1. list # ListP!NULL
  BY MainIsNoThread
<1>2. on2 = [c \in Threads \cup {Main} |-> IF call'[c] = ListP!Idle THEN ListP!NULL ELSE list]
  BY DEF On, Threads, Main, list, NumElms, ListP!Idle
<1> QED BY <1>1, <1>2

\* With --sync a thread inside is the only one that has a call in progress.
LEMMA Alone ==
  ASSUME LegalInv, myLock # "NONE"
  PROVE  /\ \A t, u \in Inside : t = u
         /\ \A t \in Threads : call[t] # ListP!Idle => t \in Inside
         /\ call[Main] # ListP!Idle => Inside = {} /\ joined = NumThreads /\ call[Main].op = "length"
         /\ \A on : on = On => ListP!OneAtATime(on)
<1>1. \A t, u \in Inside : t = u
  <2>1. myLock \in {"MUTEX", "SPIN"}
    BY DEF LegalInv, IInv, ControlOK
  <2> QED BY <2>1 DEF LegalInv, IInv, LockHeld
<1>2. \A t \in Threads : call[t] # ListP!Idle => t \in Inside
  BY DEF LegalInv, Legal, ThreadLegal, Inside
<1>3. ASSUME call[Main] # ListP!Idle
      PROVE  Inside = {} /\ joined = NumThreads /\ call[Main].op = "length"
  <2>1. joined = NumThreads /\ call[Main].op = "length"
    BY <1>3 DEF LegalInv, Legal, MainLegal
  <2>2. \A t \in Threads : pc[t] = "exited"
    BY <2>1, Numbers DEF LegalInv, IInv, MainOrder
  <2> QED BY <2>1, <2>2 DEF Inside
<1>4. ASSUME NEW on, on = On  PROVE ListP!OneAtATime(on)
  <2> SUFFICES ASSUME NEW c \in Threads \cup {Main}, NEW d \in Threads \cup {Main},
                      on[c] \in {list}, on[c] = on[d]
               PROVE  c = d
    BY DEF ListP!OneAtATime
  <2>1. call[c] # ListP!Idle /\ call[d] # ListP!Idle
    BY <1>4, OnIs
  <2> QED BY <1>1, <1>2, <1>3, <2>1
<1> QED BY <1>1, <1>2, <1>3, <1>4

\* A step after which the same callers have calls.
LEMMA OnSame ==
  ASSUME \A c \in Threads \cup {Main} : call'[c] = ListP!Idle <=> call[c] = ListP!Idle
  PROVE  On' = On
<1>1. PICK on2 : on2 = On'
  OBVIOUS
<1>2. \A c \in Threads \cup {Main} :
        on2[c] = IF call'[c] = ListP!Idle THEN ListP!NULL ELSE list
  BY <1>1, OnAfter
<1>3. on2 = [c \in Threads \cup {Main} |-> on2[c]]
  BY <1>1, OnAfter
<1> QED BY <1>1, <1>2, <1>3 DEF On

\* A call begins on the list that nobody works on.
LEMMA BeginRing ==
  ASSUME LegalInv, myLock # "NONE", NEW on, on = On, NEW path, NEW size, ListP!Kept(on, path, size),
         NEW c \in Threads \cup {Main}, \A d \in Threads \cup {Main} : call[d] = ListP!Idle,
         \/ \E e \in Elms : ListP!BeginInsert(c, list, e) \/ ListP!BeginLookup(c, list, e)
         \/ ListP!BeginLength(c, list),
         UNCHANGED ListP!heap, \A d \in Threads \cup {Main} : d # c => call'[d] = call[d],
         call'[c] # ListP!Idle, NEW on2, on2 = On'
  PROVE  ListP!Kept(on2, path, size)'
<1>1. /\ on[c] \notin {list}
      /\ \A d \in Threads \cup {Main} : on[d] # list
  BY OnIs
<1>2. on2[c] = list /\ \A d \in Threads \cup {Main} : d # c => on2[d] = on[d]
  BY OnAfter DEF On
<1>3. ListP!OneAtATime(on) /\ ListP!IInv
  BY Alone DEF LegalInv
<1> QED BY <1>1, <1>2, <1>3, NodesOK, ListP!BeginKept

\* A thread begins a call.
LEMMA CallKept ==
  ASSUME LegalInv, myLock # "NONE", NEW t \in Threads, Call(t),
         NEW on, on = On, NEW path, NEW size, ListP!Kept(on, path, size), NEW on2, on2 = On'
  PROVE  ListP!Kept(on2, path, size)'
<1>1. /\ pc[t] \in {"insert", "length", "delete"} /\ call[t] = ListP!Idle
      /\ UNCHANGED ListP!heap
      /\ \A d \in Threads \cup {Main} : d # t => call'[d] = call[d]
      /\ call'[t].at = "first"
  BY CallUses, SameUses DEF List!heap, ListP!heap
<1>2. \/ \E e \in Elms : ListP!BeginInsert(t, list, e) \/ ListP!BeginLookup(t, list, e)
      \/ ListP!BeginLength(t, list)
  BY CallUses, SameUses DEF List!heap, ListP!heap
<1>3. call'[t] # ListP!Idle
  BY <1>1, IdleIs
<1>4. \A d \in Threads \cup {Main} : call[d] = ListP!Idle
  <2>1. t \in Inside
    BY <1>1 DEF Inside
  <2> QED BY <1>1, <2>1, Alone
<1> QED BY <1>1, <1>2, <1>3, <1>4, BeginRing

\* main begins to take the length.
LEMMA CheckBeginsIs ==
  ASSUME LegalInv, CheckBegins
  PROVE  /\ List!BeginLength(Main, list) /\ UNCHANGED List!heap /\ call[Main] = ListP!Idle
         /\ call'[Main].op = "length" /\ call'[Main].at = "first"
         /\ \A u \in Threads : call'[u] = call[u] /\ call[u] = ListP!Idle
         /\ joined = NumThreads /\ UNCHANGED <<locks, thread, main>>
<1>1. /\ List!BeginLength(Main, list) /\ UNCHANGED List!heap /\ call[Main] = ListP!Idle
      /\ joined = NumThreads /\ UNCHANGED <<locks, thread, main>>
      /\ call' = [call EXCEPT ![Main] =
           [List!Idle EXCEPT !.op = "length", !.at = "first", !.list = list, !.elm = List!NULL]]
  BY SameUses DEF CheckBegins, List!BeginLength, List!Begin, List!heap
<1>2. /\ call'[Main].op = "length" /\ call'[Main].at = "first"
      /\ \A u \in Threads : call'[u] = call[u]
  BY <1>1, ListTypes, MainIsNoThread DEF List!Idle, LegalInv
<1>3. ASSUME NEW u \in Threads  PROVE call[u] = ListP!Idle
  <2>1. pc[u] = "exited"
    BY <1>1, Numbers DEF LegalInv, IInv, MainOrder
  <2> QED BY <2>1 DEF LegalInv, Legal, ThreadLegal
<1> QED BY <1>1, <1>2, <1>3

\* main begins the call of the final check on a list nobody else works on.
LEMMA CheckBeginsKept ==
  ASSUME LegalInv, myLock # "NONE", CheckBegins,
         NEW on, on = On, NEW path, NEW size, ListP!Kept(on, path, size), NEW on2, on2 = On'
  PROVE  ListP!Kept(on2, path, size)'
<1>1. UNCHANGED ListP!heap /\ ListP!BeginLength(Main, list)
  BY CheckBeginsIs, SameUses DEF List!heap, ListP!heap
<1>2. /\ call'[Main] # ListP!Idle
      /\ \A d \in Threads \cup {Main} : call[d] = ListP!Idle
      /\ \A d \in Threads \cup {Main} : d # Main => call'[d] = call[d]
  BY CheckBeginsIs, IdleIs
<1> QED BY <1>1, <1>2, BeginRing

\* A thread goes on to delete what it has found.
LEMMA FoundKept ==
  ASSUME LegalInv, myLock # "NONE", NEW t \in Threads, Found(t),
         NEW on, on = On, NEW path, NEW size, ListP!Kept(on, path, size), NEW on2, on2 = On'
  PROVE  /\ ListP!Kept(on2, path, size)'
         /\ call'[t].temp \in ListP!Inner(path[list], size[list])
         /\ call'[t].temp \in Elms /\ key[call'[t].temp] = key[index[t]]
<1>1. /\ call[t].op = "lookup" /\ call[t].elm = index[t] /\ UNCHANGED ListP!heap /\ ListP!DeleteFound(t)
      /\ call'[t].op = "delete" /\ call'[t].temp = call[t].temp
      /\ \A d \in Threads \cup {Main} : d # t => call'[d] = call[d]
  BY FoundUses, SameUses DEF List!heap, ListP!heap
<1>2. call[t] # ListP!Idle /\ call'[t] # ListP!Idle
  BY <1>1, IdleIs
<1>3. On' = On
  BY <1>1, <1>2, OnSame
<1>4. on[t] \in {list} /\ on[t] = list
  BY <1>2, OnIs
<1>5. ListP!OneAtATime(on) /\ ListP!IInv
  BY Alone DEF LegalInv
<1>6. ListP!Kept(on, path, size)'
  BY <1>1, <1>4, <1>5, NodesOK, ListP!FoundKept
<1>7. call[t].at = "return" /\ call[t].temp # ListP!NULL
  BY <1>1 DEF ListP!DeleteFound, ListP!Returns
<1>8. PICK p, n : p = path[list] /\ n = size[list]
  OBVIOUS
<1>9. call[t].temp \in ListP!Inner(p, n) /\ key[call[t].temp] = key[call[t].elm]
  BY <1>1, <1>4, <1>7, <1>8, NodesOK, ListP!ReturnIs
<1>10. ListP!Ring(list, p, n)
  BY <1>8 DEF ListP!Kept
<1>11. call[t].temp \in Elms
  BY <1>9, <1>10 DEF ListP!Ring, ListP!Inner
<1> QED BY <1>1, <1>3, <1>6, <1>8, <1>9, <1>11

\* A call ends.
LEMMA GoesOnKept ==
  ASSUME LegalInv, myLock # "NONE", NEW t \in Threads, GoesOn(t),
         NEW on, on = On, NEW path, NEW size, ListP!Kept(on, path, size), NEW on2, on2 = On'
  PROVE  ListP!Kept(on2, path, size)'
<1>1. /\ UNCHANGED ListP!heap /\ ListP!Returns(t) /\ ListP!Finish(t) /\ call'[t] = ListP!Idle
      /\ call[t].at = "return" /\ \A d \in Threads \cup {Main} : d # t => call'[d] = call[d]
  BY GoesOnUses, SameUses DEF List!heap, ListP!heap
<1>2. call[t] # ListP!Idle
  BY <1>1, IdleIs
<1>3. on[t] \in {list}
  BY <1>2, OnIs
<1>4. on2[t] \notin {list} /\ \A d \in Threads \cup {Main} : d # t => on2[d] = on[d]
  BY <1>1, OnAfter DEF On
<1>5. ListP!OneAtATime(on) /\ ListP!IInv
  BY Alone DEF LegalInv
<1> QED BY <1>1, <1>3, <1>4, <1>5, NodesOK, ListP!FinishKept

\* A step of a call: the store of link puts the element on the list, the store of
\* unlink takes one off, and all other steps leave the elements.
LEMMA StepKept ==
  ASSUME LegalInv, myLock # "NONE", NEW c \in Threads \cup {Main}, List!ListStep(c),
         NEW on, on = On, NEW path, NEW size, ListP!Kept(on, path, size), NEW on2, on2 = On'
  PROVE  /\ UNCHANGED key /\ \A d \in Threads \cup {Main} : d # c => call'[d] = call[d]
         /\ call[c] # ListP!Idle /\ call'[c].op = call[c].op /\ call'[c].elm = call[c].elm
         /\ call[c].op = "delete" => call'[c].temp = call[c].temp
         /\ ListP!Inserts(call'[c]) <=> ListP!Inserts(call[c]) \/ call[c].at = "link"
         /\ ListP!Deletes(call'[c]) <=> ListP!Deletes(call[c]) \/ call[c].at = "unlinkNow"
         /\ call[c].at = "link" => call[c].op = "insert"
         /\ call[c].at = "unlinkNow" => call[c].op = "delete"
         /\ \E path2, size2 :
              /\ ListP!Kept(on2, path2, size2)'
              /\ call[c].at = "link" =>
                   /\ call[c].elm \in Elms \ ListP!Inner(path[list], size[list])
                   /\ ListP!Inner(path2[list], size2[list]) =
                        ListP!Inner(path[list], size[list]) \cup {call[c].elm}
              /\ call[c].at = "unlinkNow" =>
                   /\ call[c].temp \in ListP!Inner(path[list], size[list])
                   /\ ListP!Inner(path2[list], size2[list]) =
                        ListP!Inner(path[list], size[list]) \ {call[c].temp}
              /\ call[c].at \notin {"link", "unlinkNow"} =>
                   ListP!Inner(path2[list], size2[list]) = ListP!Inner(path[list], size[list])
<1>1. ListP!ListStep(c) /\ ListP!IInv /\ ListP!OneAtATime(on)
  BY SameSteps, Alone DEF LegalInv
<1>2. /\ call[c] # ListP!Idle /\ UNCHANGED key /\ call'[c].op = call[c].op
      /\ \A d \in Threads \cup {Main} : d # c => call'[d] = call[d]
  BY <1>1, StepIsOfCall
<1>3. on[c] \in {list} /\ on[c] = list
  BY <1>2, OnIs
<1>4. on2 = on
  <2>1. call[c].op # "none"
    <3>1. CASE c \in Threads
      <4>1. ThreadLegal(c)
        BY <3>1 DEF LegalInv, Legal
      <4> QED BY <1>2, <4>1 DEF ThreadLegal
    <3>2. CASE c = Main
      BY <1>2, <3>2 DEF LegalInv, Legal, MainLegal
    <3> QED BY <3>1, <3>2
  <2>2. call'[c] # ListP!Idle
    BY <1>2, <2>1, IdleIs
  <2> QED BY <1>2, <2>2, OnSame
<1>5. PICK path2, size2 :
        /\ ListP!Kept(on, path2, size2)'
        /\ call[c].at = "link" =>
             /\ call[c].op = "insert" /\ call[c].elm \in Elms
             /\ call[c].elm \notin ListP!Inner(path[list], size[list])
             /\ ListP!Inner(path2[list], size2[list]) =
                  ListP!Inner(path[list], size[list]) \cup {call[c].elm}
        /\ call[c].at = "unlinkNow" =>
             /\ call[c].op = "delete" /\ call[c].temp \in ListP!Inner(path[list], size[list])
             /\ ListP!Inner(path2[list], size2[list]) =
                  ListP!Inner(path[list], size[list]) \ {call[c].temp}
        /\ call[c].at \notin {"link", "unlinkNow"} =>
             ListP!Inner(path2[list], size2[list]) = ListP!Inner(path[list], size[list])
  <2>1. PICK path2, size2 :
           /\ ListP!Kept(on, path2, size2)'
           /\ \A k \in {list} : k # on[c] =>
                ListP!Inner(path2[k], size2[k]) = ListP!Inner(path[k], size[k])
           /\ call[c].at = "link" =>
                /\ call[c].op = "insert" /\ call[c].elm \in Elms
                /\ \A k \in {list} : call[c].elm \notin ListP!Inner(path[k], size[k])
                /\ ListP!Inner(path2[on[c]], size2[on[c]]) =
                     ListP!Inner(path[on[c]], size[on[c]]) \cup {call[c].elm}
           /\ call[c].at = "unlinkNow" =>
                /\ call[c].op = "delete" /\ call[c].temp \in ListP!Inner(path[on[c]], size[on[c]])
                /\ ListP!Inner(path2[on[c]], size2[on[c]]) =
                     ListP!Inner(path[on[c]], size[on[c]]) \ {call[c].temp}
           /\ call[c].at \notin {"link", "unlinkNow"} =>
                ListP!Inner(path2[on[c]], size2[on[c]]) = ListP!Inner(path[on[c]], size[on[c]])
    BY ONLY c \in Threads \cup {Main}, ListP!Kept(on, path, size), <1>1, <1>3, NodesOK,
         ListP!StepEffect
  <2> QED BY <1>3, <2>1
<1>6. /\ call'[c].elm = call[c].elm
      /\ call[c].op = "delete" => call'[c].temp = call[c].temp
      /\ ListP!Inserts(call'[c]) <=> ListP!Inserts(call[c]) \/ call[c].at = "link"
      /\ ListP!Deletes(call'[c]) <=> ListP!Deletes(call[c]) \/ call[c].at = "unlinkNow"
  <2>1. PICK l, p, n, q, m :
          /\ l \in {list} /\ l = on[c] /\ p = path[l] /\ n = size[l] /\ q = path2[l] /\ m = size2[l]
    BY <1>3
  <2>2. ListP!Works(l, p, n, call[c])
    BY <2>1 DEF ListP!Kept
  <2>3. ListP!Works(l, q, m, call[c])'
    BY <1>5, <2>1 DEF ListP!Kept
  <2> QED BY <1>1, <2>1, <2>2, <2>3, NodesOK, ListP!StepLabels
<1> QED BY <1>2, <1>4, <1>5, <1>6

\* A step that leaves the list and the calls as they are.
LEMMA RestKept ==
  ASSUME UNCHANGED <<key, next, prev, call>>,
         NEW on, on = On, NEW path, NEW size, ListP!Kept(on, path, size), NEW on2, on2 = On'
  PROVE  ListP!Kept(on2, path, size)'
<1>1. On' = On
  BY OnSame
<1>2. ListP!Kept(on, path, size)'
  <2>1. UNCHANGED ListP!vars
    BY DEF ListP!vars
  <2> QED BY <2>1, NodesOK, ListP!KeptSame
<1> QED BY <1>1, <1>2

\* What a step is, for the list.
LEMMA StepIs ==
  ASSUME [Next]_vars
  PROVE  \/ \E t \in Threads : Call(t) \/ Found(t) \/ GoesOn(t)
         \/ CheckBegins
         \/ \E t \in Threads : InCall(t)
         \/ CheckRuns
         \/ UNCHANGED <<key, next, prev, call>>
<1>1. ASSUME NEW t \in Threads, Lock(t) \/ Fails(t) \/ Unlock(t)
      PROVE  UNCHANGED <<key, next, prev, call>>
  BY <1>1 DEF Lock, Fails, Unlock
<1>2. CASE Create \/ CreateFails \/ Join \/ CheckEnds
  BY <1>2 DEF Create, CreateFails, Join, CheckEnds
<1>3. CASE UNCHANGED vars
  BY <1>3 DEF vars
<1> QED BY <1>1, <1>2, <1>3 DEF Next, ThreadStep, MainStep, Ended

\* The list is a ring, and a thread or main works on it or its links are right.
Guarded == \E on, path, size : on = On /\ ListP!Kept(on, path, size)

\* What a thread deletes has the key of the element it has come to.
DeleteFits(t) ==
  call[t].op = "delete" => call[t].temp \in Elms /\ key[call[t].temp] = key[index[t]]

\* The invariant of the runs with --sync.
SafeInv ==
  /\ LegalInv
  /\ myLock # "NONE" => Guarded /\ \A t \in Threads : DeleteFits(t)

\* Every step keeps the list.
LEMMA GuardedKept ==
  ASSUME SafeInv, myLock # "NONE", [Next]_vars  PROVE Guarded'
<1>1. PICK on, path, size : on = On /\ ListP!Kept(on, path, size)
  BY DEF SafeInv, Guarded
<1>2. PICK on2 : on2 = On'
  OBVIOUS
<1>3. LegalInv
  BY DEF SafeInv
<1>4. \E path2, size2 : ListP!Kept(on2, path2, size2)'
  <2>1. ASSUME NEW t \in Threads, Call(t) \/ Found(t) \/ GoesOn(t)
        PROVE  ListP!Kept(on2, path, size)'
    BY <1>1, <1>2, <1>3, <2>1, CallKept, FoundKept, GoesOnKept
  <2>2. CASE CheckBegins
    BY <1>1, <1>2, <1>3, <2>2, CheckBeginsKept
  <2>3. ASSUME NEW c \in Threads \cup {Main}, List!ListStep(c)
        PROVE  \E path2, size2 : ListP!Kept(on2, path2, size2)'
    BY <1>1, <1>2, <1>3, <2>3, StepKept
  <2>4. CASE UNCHANGED <<key, next, prev, call>>
    BY <1>1, <1>2, <2>4, RestKept
  <2> QED BY <2>1, <2>2, <2>3, <2>4, StepIs DEF InCall, CheckRuns
<1> QED BY <1>2, <1>4 DEF Guarded

\* The other threads stay where they are.
LEMMA OthersStand ==
  ASSUME LegalInv, NEW t \in Threads, ThreadStep(t), NEW u \in Threads, u # t
  PROVE  pc'[u] = pc[u] /\ index'[u] = index[u] /\ call'[u] = call[u]
<1>1. CASE Lock(t)
  <2>1. Goto(t, "insert", t) /\ t \in Nat /\ UNCHANGED call /\ ControlOK
    BY <1>1, Numbers DEF Lock, LegalInv, IInv
  <2> QED BY <2>1, GotoIs
<1>2. CASE GoesOn(t)
  <2>1. PICK p \in {"insert", "delete"}, i \in Nat : Goto(t, p, i) /\ ControlOK
    BY <1>2, GoesOnIs, Numbers DEF LegalInv, IInv
  <2>2. call'[u] = call[u]
    BY <1>2, GoesOnUses
  <2> QED BY <2>1, <2>2, GotoIs
<1>3. CASE Call(t) \/ Found(t)
  <2>1. call'[u] = call[u] /\ UNCHANGED <<locks, thread, main>>
    BY <1>3, CallUses, FoundUses
  <2> QED BY <2>1 DEF thread
<1>4. CASE InCall(t)
  <2>1. call'[u] = call[u]
    BY <1>4, SameSteps, StepIsOfCall DEF InCall, LegalInv
  <2> QED BY <1>4, <2>1 DEF InCall, thread
<1>5. CASE Fails(t)
  BY <1>5 DEF Fails, thread
<1>6. CASE Unlock(t)
  BY <1>6 DEF Unlock, LegalInv, IInv, ControlOK
<1> QED BY <1>1, <1>2, <1>3, <1>4, <1>5, <1>6 DEF ThreadStep

\* main's calls are its own, and it moves no thread but the one it creates.
LEMMA MainMoves ==
  ASSUME LegalInv, MainStep, NEW t \in Threads
  PROVE  /\ call'[t] = call[t] /\ index'[t] = index[t]
         /\ pc'[t] = pc[t] \/ (pc[t] = "none" /\ pc'[t] = "lock" /\ Create)
<1>1. CASE Create
  <2>1. /\ created \in Threads /\ pc[created] = "none" /\ pc' = [pc EXCEPT ![created] = "lock"]
        /\ UNCHANGED <<call, index>>
    BY <1>1, CreateKeeps DEF LegalInv
  <2> QED BY <1>1, <2>1 DEF LegalInv, IInv, ControlOK
<1>2. CASE CheckRuns
  <2>1. call'[t] = call[t]
    BY <1>2, SameSteps, StepIsOfCall, MainIsNoThread DEF CheckRuns, LegalInv
  <2> QED BY <1>2, <2>1 DEF CheckRuns, thread
<1>3. CASE CheckBegins
  <2>1. call'[t] = call[t] /\ UNCHANGED <<locks, thread, main>>
    BY <1>3, CheckBeginsIs
  <2> QED BY <2>1 DEF thread
<1>4. CASE CreateFails \/ Join \/ CheckEnds
  BY <1>4 DEF CreateFails, Join, CheckEnds, thread
<1> QED BY <1>1, <1>2, <1>3, <1>4 DEF MainStep

\* What a thread deletes keeps the key it was looked up for.
LEMMA DeleteFitsKept ==
  ASSUME SafeInv, myLock # "NONE", [Next]_vars  PROVE \A t \in Threads : DeleteFits(t)'
<1>0. PICK on, path, size, on2 : on = On /\ ListP!Kept(on, path, size) /\ on2 = On'
  BY DEF SafeInv, Guarded
<1>1. UNCHANGED key /\ LegalInv
  BY StepIsLegal, KeysKept DEF SafeInv
<1>2. ASSUME NEW u \in Threads, index'[u] = index[u],
             call'[u] = call[u] \/ (call'[u].op = call[u].op /\ call'[u].temp = call[u].temp)
      PROVE  DeleteFits(u)'
  BY <1>1, <1>2 DEF DeleteFits, SafeInv
<1>3. ASSUME NEW u \in Threads, call'[u].op # "delete"  PROVE DeleteFits(u)'
  BY <1>3 DEF DeleteFits
<1>4. ASSUME NEW t \in Threads, ThreadStep(t)  PROVE \A u \in Threads : DeleteFits(u)'
  <2>1. \A u \in Threads : u # t => DeleteFits(u)'
    BY <1>1, <1>2, <1>4, OthersStand
  <2>2. CASE InCall(t)
    <3>1. /\ call'[t].op = call[t].op /\ UNCHANGED index
          /\ call[t].op = "delete" => call'[t].temp = call[t].temp
      BY <1>0, <1>1, <2>2, StepKept DEF InCall, thread
    <3>2. DeleteFits(t)'
      BY <1>2, <1>3, <3>1
    <3> QED BY <2>1, <3>2
  <2>3. CASE Found(t)
    <3>1. call'[t].temp \in Elms /\ key[call'[t].temp] = key[index[t]]
      BY <1>0, <1>1, <2>3, FoundKept
    <3>2. UNCHANGED index
      BY <1>1, <2>3, FoundUses DEF thread
    <3>3. DeleteFits(t)'
      BY <1>1, <3>1, <3>2 DEF DeleteFits, Elms, NumElms
    <3> QED BY <2>1, <3>3
  <2>4. CASE Call(t)
    <3>1. call'[t].op # "delete"
      BY <1>1, <2>4, CallUses
    <3> QED BY <1>3, <2>1, <3>1
  <2>5. CASE GoesOn(t)
    <3>1. call'[t].op # "delete"
      BY <1>1, <2>5, GoesOnUses, IdleIs
    <3> QED BY <1>3, <2>1, <3>1
  <2>6. CASE Lock(t) \/ Unlock(t)
    <3>1. call'[t] = call[t] /\ pc[t] \in {"lock", "unlock"}
      BY <2>6 DEF Lock, Unlock, At
    <3>2. call'[t].op # "delete"
      BY <1>1, <3>1, IdleIs DEF LegalInv, Legal, ThreadLegal
    <3> QED BY <1>3, <2>1, <3>2
  <2>7. CASE Fails(t)
    <3>1. DeleteFits(t)'
      BY <1>2, <2>7 DEF Fails, thread
    <3> QED BY <2>1, <3>1
  <2> QED BY <1>4, <2>2, <2>3, <2>4, <2>5, <2>6, <2>7 DEF ThreadStep
<1>5. CASE MainStep
  BY <1>1, <1>2, <1>5, MainMoves
<1>6. CASE UNCHANGED vars
  BY <1>2, <1>6 DEF vars, thread
<1> QED BY <1>4, <1>5, <1>6 DEF Next, Ended

\* The way to protect the list is chosen at the start.
LEMMA MyLockFixed ==
  ASSUME [Next]_vars  PROVE UNCHANGED myLock
<1>1. ASSUME NEW t \in Threads, ThreadStep(t)  PROVE UNCHANGED myLock
  BY <1>1 DEF ThreadStep, Lock, Call, InCall, Found, Fails, GoesOn, Unlock, locks
<1>2. CASE MainStep
  BY <1>2 DEF MainStep, Create, CreateFails, Join, CheckBegins, CheckRuns, CheckEnds, locks
<1> QED BY <1>1, <1>2 DEF Next, Ended, vars, locks

\* The program starts with an empty list and nobody working on it.
LEMMA InitSafe ==
  ASSUME Init  PROVE SafeInv
<1>1. LegalInv
  BY InitLegal, InitKeeps DEF LegalInv
<1>2. ListP!HeapInit
  BY SameInit DEF Init
<1>3. PICK on : on = On
  OBVIOUS
<1>4. \A c \in Threads \cup {Main} : call[c] = ListP!Idle
  BY <1>2 DEF ListP!HeapInit
<1>5. \A c \in Threads \cup {Main} : on[c] \notin {list}
  BY <1>3, <1>4, OnIs
<1>6. ListP!Protected(on)
  BY <1>2, <1>5, NodesOK, ListP!InitKept
<1>7. Guarded
  BY <1>3, <1>6 DEF Guarded, ListP!Protected
<1>8. \A t \in Threads : DeleteFits(t)
  BY <1>4, IdleIs DEF DeleteFits
<1> QED BY <1>1, <1>7, <1>8 DEF SafeInv

\* SafeInv is an inductive invariant: with --sync the list is a ring at every
\* moment, whatever point of an insertion or deletion a thread has reached.
THEOREM SafeInductive == Spec => []SafeInv
<1>1. Init => SafeInv
  BY InitSafe
<1>2. SafeInv /\ LegalInv' /\ [Next]_vars => SafeInv'
  BY GuardedKept, DeleteFitsKept, MyLockFixed DEF SafeInv
<1> QED BY <1>1, <1>2, LegalInductive, PTL DEF Spec

-----------------------------------------------------------------------------
(* With --sync a thread finds and deletes as many elements as it inserted. *)

\* Thread t has linked element e; it has unlinked one for element e.
HasInserted(t, e) ==
  \/ pc[t] = "insert" /\ e < index[t]
  \/ pc[t] = "insert" /\ e = index[t] /\ ListP!Inserts(call[t])
  \/ pc[t] \in {"length", "delete", "unlock", "exited"}

HasDeleted(t, e) ==
  \/ pc[t] = "delete" /\ e < index[t]
  \/ pc[t] = "delete" /\ e = index[t] /\ ListP!Deletes(call[t])
  \/ pc[t] \in {"unlock", "exited"}

Inserted == { e \in Elms : HasInserted(e % NumThreads, e) }
DeletedFor == { e \in Elms : HasDeleted(e % NumThreads, e) }

\* The elements for which their owner has still to delete one.
Pending == Inserted \ DeletedFor

\* The elements on the list.
Contents == List!Content(list)

\* They are the elements of the ring.
LEMMA ContentsAre ==
  /\ \A on, path, size : ListP!Kept(on, path, size) =>
       Contents = ListP!Inner(path[list], size[list])
  /\ (\A on, path, size : ListP!Kept(on, path, size) =>
       Contents = ListP!Inner(path[list], size[list]))'
<1>1. \A on, path, size : ListP!Kept(on, path, size) =>
        Contents = ListP!Inner(path[list], size[list])
  <2> SUFFICES ASSUME NEW on, NEW path, NEW size, ListP!Kept(on, path, size)
               PROVE  Contents = ListP!Inner(path[list], size[list])
    OBVIOUS
  <2>1. PICK p, n : p = path[list] /\ n = size[list]
    OBVIOUS
  <2>2. ListP!Ring(list, p, n) /\ \E S : ListP!Linked(p, n, S)
    BY <2>1, NodesOK, ListP!KeptLinked
  <2>3. ListP!Content(list) = ListP!Inner(p, n)
    BY <2>2, NodesOK, ListP!ContentIs
  <2> QED BY <2>1, <2>3, SameContent DEF Contents
<1> QED BY <1>1, PTL

\* The same after a step, for rings given before it.
LEMMA ContentsAfter ==
  ASSUME NEW on, NEW path, NEW size, ListP!Kept(on, path, size)'
  PROVE  Contents' = ListP!Inner(path[list], size[list])
<1>1. Contents' = ListP!Inner(path[list], size[list])'
  BY ContentsAre
<1> QED BY <1>1 DEF ListP!Inner, list, NumElms

\* An element counts as inserted, or deleted for, when its thread says so.
LEMMA InsertedBy ==
  ASSUME NEW e \in Elms
  PROVE  /\ e \in Inserted <=> HasInserted(e % NumThreads, e)
         /\ e \in DeletedFor <=> HasDeleted(e % NumThreads, e)
         /\ e \in Inserted' <=> HasInserted(e % NumThreads, e)'
         /\ e \in DeletedFor' <=> HasDeleted(e % NumThreads, e)'
  BY DEF Inserted, DeletedFor, HasInserted, HasDeleted, ListP!Deletes, ListP!Inserts, Elms, NumElms

\* A thread that stands still has done what it had done.
LEMMA StandsStill ==
  ASSUME NEW t, pc'[t] = pc[t] /\ index'[t] = index[t],
         ListP!Inserts(call'[t]) <=> ListP!Inserts(call[t]),
         ListP!Deletes(call'[t]) <=> ListP!Deletes(call[t]), NEW e
  PROVE  (HasInserted(t, e)' <=> HasInserted(t, e)) /\ (HasDeleted(t, e)' <=> HasDeleted(t, e))
  BY DEF HasInserted, HasDeleted, ListP!Deletes, ListP!Inserts

\* A call that does not stand at one of their last steps has done neither.
LEMMA NotYetDone ==
  ASSUME NEW f, f.op \in {"none", "lookup", "length"} \/ f.at \in {"first", "getNext"}
  PROVE  ~ListP!Inserts(f) /\ ~ListP!Deletes(f)
  BY DEF ListP!Inserts, ListP!Deletes

\* A step in a call is an insertion when it is the store of link, and a deletion
\* when it is that of unlink.
LEMMA CallProgress ==
  ASSUME SafeInv, myLock # "NONE", NEW t \in Threads, InCall(t), NEW e \in Elms, e % NumThreads = t
  PROVE  /\ HasInserted(t, e)' <=> HasInserted(t, e) \/ (call[t].at = "link" /\ e = index[t])
         /\ HasDeleted(t, e)' <=> HasDeleted(t, e) \/ (call[t].at = "unlinkNow" /\ e = index[t])
<1>1. PICK on, path, size, on2 : on = On /\ ListP!Kept(on, path, size) /\ on2 = On'
  BY DEF SafeInv, Guarded
<1>2. List!ListStep(t) /\ LegalInv /\ ThreadLegal(t) /\ pc' = pc /\ index' = index
  BY DEF InCall, SafeInv, LegalInv, Legal, thread
<1>3. /\ ListP!Inserts(call'[t]) <=> ListP!Inserts(call[t]) \/ call[t].at = "link"
      /\ ListP!Deletes(call'[t]) <=> ListP!Deletes(call[t]) \/ call[t].at = "unlinkNow"
      /\ call[t].at = "link" => call[t].op = "insert"
      /\ call[t].at = "unlinkNow" => call[t].op = "delete"
  BY <1>1, <1>2, StepKept
<1>4. /\ call[t].at = "link" => pc[t] = "insert"
      /\ call[t].at = "unlinkNow" => pc[t] = "delete"
  BY <1>2, <1>3, IdleIs DEF InCall, Calling, ThreadLegal
<1>5. HasInserted(t, e)' <=> \/ pc[t] = "insert" /\ e < index[t]
                             \/ pc[t] = "insert" /\ e = index[t] /\ ListP!Inserts(call'[t])
                             \/ pc[t] \in {"length", "delete", "unlock", "exited"}
  BY <1>2 DEF HasInserted, ListP!Inserts
<1>6. HasDeleted(t, e)' <=> \/ pc[t] = "delete" /\ e < index[t]
                            \/ pc[t] = "delete" /\ e = index[t] /\ ListP!Deletes(call'[t])
                            \/ pc[t] \in {"unlock", "exited"}
  BY <1>2 DEF HasDeleted, ListP!Deletes
<1> QED BY <1>3, <1>4, <1>5, <1>6 DEF HasInserted, HasDeleted

\* The steps between the calls neither insert nor delete.
LEMMA LoopProgress ==
  ASSUME SafeInv, myLock # "NONE", NEW t \in Threads, Lock(t) \/ GoesOn(t) \/ Unlock(t),
         NEW e \in Elms, e % NumThreads = t
  PROVE  (HasInserted(t, e)' <=> HasInserted(t, e)) /\ (HasDeleted(t, e)' <=> HasDeleted(t, e))
<1>0. LegalInv /\ ControlOK /\ ThreadLegal(t)
  BY DEF SafeInv, LegalInv, Legal, IInv
<1>1. /\ t \in Nat /\ e \in Nat /\ t <= e /\ t < NumElms /\ e < NumElms /\ NumElms \in Nat
      /\ \A i \in Nat : i % NumThreads = t => (e < i + NumThreads <=> e <= i)
  BY OwnElements
<1>2. CASE Lock(t)
  <2>1. pc[t] = "lock" /\ pc'[t] = "insert" /\ index'[t] = t /\ UNCHANGED call
    BY <1>0, <1>1, <1>2, LockKeeps DEF Lock, LegalInv
  <2>2. call'[t] = ListP!Idle
    BY <1>0, <2>1 DEF ThreadLegal
  <2>3. ~ListP!Inserts(call'[t])
    BY <2>2, IdleIs, NotYetDone
  <2>4. ~HasInserted(t, e)' /\ ~HasDeleted(t, e)'
    BY <1>1, <2>1, <2>3 DEF HasInserted, HasDeleted, ListP!Inserts
  <2> QED BY <2>1, <2>4 DEF HasInserted, HasDeleted
<1>3. CASE GoesOn(t)
  <2>1. /\ pc[t] \in {"insert", "length", "delete"} /\ call[t].op = pc[t] /\ call[t].at = "return"
        /\ call'[t] = ListP!Idle
    BY <1>0, <1>3, GoesOnUses
  <2>2. ~ListP!Inserts(call'[t]) /\ ~ListP!Deletes(call'[t])
    BY <2>1, IdleIs, NotYetDone
  <2>3. CASE pc[t] = "insert"
    <3>1. Goto(t, "insert", index[t] + NumThreads) /\ index[t] + NumThreads \in Nat
      BY <1>0, <1>3, <2>3, GoesOnIs
    <3>2. /\ index'[t] = index[t] + NumThreads
          /\ \/ index[t] + NumThreads < NumElms /\ pc'[t] = "insert"
             \/ index[t] + NumThreads >= NumElms /\ pc'[t] = "length"
      BY <1>0, <3>1, GotoIs
    <3>3. e < index[t] + NumThreads <=> e <= index[t]
      BY <1>0, <1>1, <2>3 DEF ControlOK
    <3>4. index[t] \in Nat /\ NumThreads \in Nat
      BY <1>0, Numbers DEF ControlOK
    <3>5. HasInserted(t, e) <=> e <= index[t]
      BY <1>1, <2>1, <2>3, <3>4 DEF HasInserted, ListP!Inserts
    <3>6. HasInserted(t, e)' <=> e <= index[t]
      <4>1. HasInserted(t, e)' <=> (pc'[t] = "insert" => e < index'[t])
        BY <1>1, <2>2, <3>2 DEF HasInserted, ListP!Inserts
      <4> QED BY <1>1, <3>2, <3>3, <3>4, <4>1
    <3>7. ~HasDeleted(t, e) /\ ~HasDeleted(t, e)'
      BY <2>3, <3>2 DEF HasDeleted
    <3> QED BY <3>5, <3>6, <3>7
  <2>4. CASE pc[t] = "length"
    <3>1. Goto(t, "delete", t)
      BY <1>0, <1>3, <2>4, GoesOnIs
    <3>2. pc'[t] = "delete" /\ index'[t] = t
      BY <1>0, <1>1, <3>1, GotoIs
    <3>3. HasInserted(t, e) /\ HasInserted(t, e)' /\ ~HasDeleted(t, e)
      BY <2>4, <3>2 DEF HasInserted, HasDeleted
    <3>4. ~HasDeleted(t, e)'
      BY <1>1, <2>2, <3>2 DEF HasDeleted, ListP!Deletes
    <3> QED BY <3>3, <3>4
  <2>5. CASE pc[t] = "delete"
    <3>1. Goto(t, "delete", index[t] + NumThreads) /\ index[t] + NumThreads \in Nat
      BY <1>0, <1>3, <2>5, GoesOnIs
    <3>2. /\ index'[t] = index[t] + NumThreads
          /\ \/ index[t] + NumThreads < NumElms /\ pc'[t] = "delete"
             \/ index[t] + NumThreads >= NumElms /\ pc'[t] = "unlock"
      BY <1>0, <3>1, GotoIs
    <3>3. e < index[t] + NumThreads <=> e <= index[t]
      BY <1>0, <1>1, <2>5 DEF ControlOK
    <3>4. index[t] \in Nat /\ NumThreads \in Nat
      BY <1>0, Numbers DEF ControlOK
    <3>5. HasDeleted(t, e) <=> e <= index[t]
      BY <1>1, <2>1, <2>5, <3>4 DEF HasDeleted, ListP!Deletes
    <3>6. HasDeleted(t, e)' <=> e <= index[t]
      <4>1. HasDeleted(t, e)' <=> (pc'[t] = "delete" => e < index'[t])
        BY <1>1, <2>2, <3>2 DEF HasDeleted, ListP!Deletes
      <4> QED BY <1>1, <3>2, <3>3, <3>4, <4>1
    <3>7. HasInserted(t, e) /\ HasInserted(t, e)'
      BY <2>5, <3>2 DEF HasInserted
    <3> QED BY <3>5, <3>6, <3>7
  <2> QED BY <2>1, <2>3, <2>4, <2>5
<1>4. CASE Unlock(t)
  <2>1. pc[t] = "unlock" /\ pc'[t] = "exited"
    BY <1>0, <1>4 DEF Unlock, At, ControlOK
  <2> QED BY <2>1 DEF HasInserted, HasDeleted
<1> QED BY <1>2, <1>3, <1>4

\* Outside of a call's steps no thread inserts or deletes.
LEMMA OutsideProgress ==
  ASSUME SafeInv, myLock # "NONE", NEW t \in Threads, ThreadStep(t), ~InCall(t),
         NEW e \in Elms, e % NumThreads = t
  PROVE  (HasInserted(t, e)' <=> HasInserted(t, e)) /\ (HasDeleted(t, e)' <=> HasDeleted(t, e))
<1>0. LegalInv
  BY DEF SafeInv
<1>1. CASE Lock(t) \/ GoesOn(t) \/ Unlock(t)
  BY <1>1, LoopProgress
<1>2. CASE Call(t) \/ Found(t)
  <2>1. /\ call[t] = ListP!Idle \/ call[t].op = "lookup"
        /\ call'[t].at \in {"first", "getNext"} /\ UNCHANGED <<locks, thread, main>>
    BY <1>0, <1>2, CallUses, FoundUses
  <2>2. /\ ~ListP!Inserts(call[t]) /\ ~ListP!Deletes(call[t])
        /\ ~ListP!Inserts(call'[t]) /\ ~ListP!Deletes(call'[t])
    BY <2>1, IdleIs, NotYetDone
  <2>3. pc'[t] = pc[t] /\ index'[t] = index[t]
    BY <2>1 DEF thread
  <2> QED BY <2>2, <2>3, StandsStill
<1>3. CASE Fails(t)
  <2>1. pc'[t] = pc[t] /\ index'[t] = index[t] /\ call'[t] = call[t]
    BY <1>3 DEF Fails, thread
  <2> QED BY <2>1, StandsStill
<1> QED BY <1>1, <1>2, <1>3 DEF ThreadStep

\* What a step does to the elements inserted and deleted for.
LEMMA ThreadSets ==
  ASSUME SafeInv, myLock # "NONE", NEW t \in Threads, ThreadStep(t)
  PROVE  /\ \A e : e \in Inserted' <=>
              \/ e \in Inserted
              \/ e \in Elms /\ e % NumThreads = t /\ InCall(t) /\ call[t].at = "link" /\ e = index[t]
         /\ \A e : e \in DeletedFor' <=>
              \/ e \in DeletedFor
              \/ e \in Elms /\ e % NumThreads = t /\ InCall(t) /\ call[t].at = "unlinkNow" /\ e = index[t]
<1>1. ASSUME NEW e \in Elms
      PROVE  /\ e \in Inserted' <=>
                  \/ e \in Inserted
                  \/ e % NumThreads = t /\ InCall(t) /\ call[t].at = "link" /\ e = index[t]
             /\ e \in DeletedFor' <=>
                  \/ e \in DeletedFor
                  \/ e % NumThreads = t /\ InCall(t) /\ call[t].at = "unlinkNow" /\ e = index[t]
  <2>1. PICK u \in Threads : u = e % NumThreads
    BY OwnerIs
  <2>2. CASE u = t /\ InCall(t)
    BY <2>1, <2>2, CallProgress, InsertedBy
  <2>3. CASE u = t /\ ~InCall(t)
    BY <2>1, <2>3, OutsideProgress, InsertedBy
  <2>4. CASE u # t
    <3>1. pc'[u] = pc[u] /\ index'[u] = index[u] /\ call'[u] = call[u]
      BY <2>4, OthersStand DEF SafeInv
    <3>2. (HasInserted(u, e)' <=> HasInserted(u, e)) /\ (HasDeleted(u, e)' <=> HasDeleted(u, e))
      BY <3>1, StandsStill
    <3> QED BY <2>1, <2>4, <3>2, InsertedBy
  <2> QED BY <2>2, <2>3, <2>4
<1>2. /\ Inserted \subseteq Elms /\ DeletedFor \subseteq Elms
      /\ \A e : e \in Inserted' => e \in Elms
      /\ \A e : e \in DeletedFor' => e \in Elms
  BY DEF Inserted, DeletedFor, Elms, NumElms
<1> QED BY <1>1, <1>2

\* main inserts and deletes nothing.
LEMMA MainSets ==
  ASSUME SafeInv, MainStep \/ UNCHANGED vars
  PROVE  Inserted' = Inserted /\ DeletedFor' = DeletedFor
<1>1. ASSUME NEW t \in Threads
      PROVE  /\ call'[t] = call[t] /\ index'[t] = index[t]
             /\ pc'[t] = pc[t] \/ (pc[t] = "none" /\ pc'[t] = "lock")
  BY MainMoves DEF SafeInv, vars, thread
<1>2. ASSUME NEW t \in Threads, NEW e
      PROVE  (HasInserted(t, e)' <=> HasInserted(t, e)) /\ (HasDeleted(t, e)' <=> HasDeleted(t, e))
  <2>1. CASE pc'[t] = pc[t]
    BY <1>1, <2>1, StandsStill
  <2>2. CASE pc[t] = "none" /\ pc'[t] = "lock"
    BY <2>2 DEF HasInserted, HasDeleted
  <2> QED BY <1>1, <2>1, <2>2
<1>3. ASSUME NEW e \in Elms
      PROVE  (e \in Inserted' <=> e \in Inserted) /\ (e \in DeletedFor' <=> e \in DeletedFor)
  BY <1>2, OwnerIs, InsertedBy
<1>4. /\ Inserted \subseteq Elms /\ DeletedFor \subseteq Elms
      /\ \A e : e \in Inserted' => e \in Elms
      /\ \A e : e \in DeletedFor' => e \in Elms
  BY DEF Inserted, DeletedFor, Elms, NumElms
<1> QED BY <1>3, <1>4

\* Element e is linked; element x is unlinked for e.
Puts(e) ==
  /\ e \in Elms \ Inserted /\ e \notin Contents /\ e % NumThreads \in Inside
  /\ Inserted' = Inserted \cup {e} /\ UNCHANGED DeletedFor
  /\ Contents' = Contents \cup {e}

Takes(e, x) ==
  /\ e \in Pending
  /\ x \in Contents /\ key[x] = key[e]
  /\ UNCHANGED Inserted /\ DeletedFor' = DeletedFor \cup {e}
  /\ Contents' = Contents \ {x}

Rests == UNCHANGED <<Inserted, DeletedFor, Contents>>

\* The steps outside of the calls leave the elements on the list.
LEMMA OutsideCalls ==
  ASSUME SafeInv, myLock # "NONE", [Next]_vars, \A t \in Threads : ~InCall(t)
  PROVE  Contents' = Contents
<1>0. LegalInv
  BY DEF SafeInv
<1>1. PICK on, path, size, on2 : on = On /\ ListP!Kept(on, path, size) /\ on2 = On'
  BY DEF SafeInv, Guarded
<1>2. CASE CheckRuns
  <2>1. List!ListStep(Main) /\ call[Main].op \notin {"insert", "delete"}
    BY <1>0, <1>2, IdleIs DEF CheckRuns, LegalInv, Legal, MainLegal
  <2>2. PICK path2, size2 :
          /\ ListP!Kept(on2, path2, size2)'
          /\ ListP!Inner(path2[list], size2[list]) = ListP!Inner(path[list], size[list])
    BY <1>0, <1>1, <2>1, StepKept
  <2> QED BY <1>1, <2>2, ContentsAre, ContentsAfter
<1>3. CASE ~CheckRuns
  <2>1. ListP!Kept(on2, path, size)'
    <3>1. ASSUME NEW t \in Threads, Call(t) \/ Found(t) \/ GoesOn(t)
          PROVE  ListP!Kept(on2, path, size)'
      BY <1>0, <1>1, <3>1, CallKept, FoundKept, GoesOnKept
    <3>2. CASE CheckBegins
      BY <1>0, <1>1, <3>2, CheckBeginsKept
    <3>3. CASE UNCHANGED <<key, next, prev, call>>
      BY <1>1, <3>3, RestKept
    <3> QED BY <1>3, <3>1, <3>2, <3>3, StepIs
  <2> QED BY <1>1, <2>1, ContentsAre, ContentsAfter
<1> QED BY <1>2, <1>3

\* A step inside a call.
LEMMA CallEffect ==
  ASSUME SafeInv, myLock # "NONE", NEW t \in Threads, InCall(t)
  PROVE  (\E e \in Elms : Puts(e)) \/ (\E e, x \in Elms : Takes(e, x)) \/ Rests
<1>0. LegalInv /\ ThreadLegal(t) /\ DeleteFits(t) /\ List!ListStep(t) /\ ControlOK
  BY DEF SafeInv, LegalInv, Legal, IInv, InCall
<1>1. PICK on, path, size, on2 : on = On /\ ListP!Kept(on, path, size) /\ on2 = On'
  BY DEF SafeInv, Guarded
<1>2. /\ call[t].at = "link" => call[t].op = "insert"
      /\ call[t].at = "unlinkNow" => call[t].op = "delete"
  BY <1>0, <1>1, StepKept
<1>3. PICK path2, size2 :
        /\ ListP!Kept(on2, path2, size2)'
        /\ call[t].at = "link" =>
             /\ call[t].elm \in Elms \ ListP!Inner(path[list], size[list])
             /\ ListP!Inner(path2[list], size2[list]) =
                  ListP!Inner(path[list], size[list]) \cup {call[t].elm}
        /\ call[t].at = "unlinkNow" =>
             /\ call[t].temp \in ListP!Inner(path[list], size[list])
             /\ ListP!Inner(path2[list], size2[list]) =
                  ListP!Inner(path[list], size[list]) \ {call[t].temp}
        /\ call[t].at \notin {"link", "unlinkNow"} =>
             ListP!Inner(path2[list], size2[list]) = ListP!Inner(path[list], size[list])
  BY <1>0, <1>1, StepKept
<1>4. /\ Contents = ListP!Inner(path[list], size[list])
      /\ Contents' = ListP!Inner(path2[list], size2[list])
  BY <1>1, <1>3, ContentsAre, ContentsAfter
<1>5. /\ \A d : d \in Inserted' <=>
           \/ d \in Inserted
           \/ d \in Elms /\ d % NumThreads = t /\ call[t].at = "link" /\ d = index[t]
      /\ \A d : d \in DeletedFor' <=>
           \/ d \in DeletedFor
           \/ d \in Elms /\ d % NumThreads = t /\ call[t].at = "unlinkNow" /\ d = index[t]
  BY ThreadSets DEF ThreadStep
<1>6. /\ call[t].op = "insert" => pc[t] = "insert" /\ call[t].elm = index[t]
      /\ call[t].op = "delete" => pc[t] = "delete"
  BY <1>0, IdleIs DEF ThreadLegal
<1>7. pc[t] \in {"insert", "delete"} =>
        index[t] \in Elms /\ index[t] % NumThreads = t /\ t \in Inside /\ index[t] \in Nat
  BY <1>0, Numbers DEF ControlOK, Inside
<1>8. PICK e, x : e = index[t] /\ x = call[t].temp
  OBVIOUS
<1>9. CASE call[t].at = "link"
  <2>1. e \in Elms /\ e % NumThreads = t /\ pc[t] = "insert" /\ e = call[t].elm /\ e \in Nat
    BY <1>2, <1>6, <1>7, <1>8, <1>9
  <2>2. e \notin Inserted
    <3>1. ~HasInserted(t, e)
      BY <1>8, <1>9, <2>1 DEF HasInserted, ListP!Inserts
    <3> QED BY <2>1, <3>1, InsertedBy
  <2>3. Inserted' = Inserted \cup {e} /\ DeletedFor' = DeletedFor
    BY <1>5, <1>8, <1>9, <2>1
  <2>4. Puts(e)
    BY <1>3, <1>4, <1>7, <1>9, <2>1, <2>2, <2>3 DEF Puts
  <2> QED BY <2>1, <2>4
<1>10. CASE call[t].at = "unlinkNow"
  <2>1. /\ e \in Elms /\ e % NumThreads = t /\ pc[t] = "delete" /\ e \in Nat
        /\ x \in Elms /\ key[x] = key[e]
    BY <1>0, <1>2, <1>6, <1>7, <1>8, <1>10 DEF DeleteFits
  <2>2. e \in Pending
    <3>1. HasInserted(t, e) /\ ~HasDeleted(t, e)
      BY <1>8, <1>10, <2>1 DEF HasInserted, HasDeleted, ListP!Deletes
    <3> QED BY <2>1, <3>1, InsertedBy DEF Pending
  <2>3. Inserted' = Inserted /\ DeletedFor' = DeletedFor \cup {e}
    BY <1>5, <1>8, <1>10, <2>1
  <2>4. Takes(e, x)
    BY <1>3, <1>4, <1>8, <1>10, <2>1, <2>2, <2>3 DEF Takes
  <2> QED BY <2>1, <2>4
<1>11. CASE call[t].at \notin {"link", "unlinkNow"}
  <2>1. Inserted' = Inserted /\ DeletedFor' = DeletedFor
    BY <1>5, <1>11
  <2> QED BY <1>3, <1>4, <1>11, <2>1 DEF Rests
<1> QED BY <1>9, <1>10, <1>11

\* What a step does to the list and to what the threads have done.
LEMMA Effect ==
  ASSUME SafeInv, myLock # "NONE", [Next]_vars
  PROVE  (\E e \in Elms : Puts(e)) \/ (\E e, x \in Elms : Takes(e, x)) \/ Rests
<1>1. CASE \E t \in Threads : InCall(t)
  BY <1>1, CallEffect
<1>2. CASE \A t \in Threads : ~InCall(t)
  <2>1. Contents' = Contents
    BY <1>2, OutsideCalls
  <2>2. ASSUME NEW t \in Threads, ThreadStep(t)
        PROVE  Inserted' = Inserted /\ DeletedFor' = DeletedFor
    BY <1>2, <2>2, ThreadSets
  <2>3. MainStep \/ UNCHANGED vars => Inserted' = Inserted /\ DeletedFor' = DeletedFor
    BY MainSets
  <2>4. Inserted' = Inserted /\ DeletedFor' = DeletedFor
    BY <2>2, <2>3 DEF Next, Ended
  <2> QED BY <2>1, <2>4 DEF Rests
<1> QED BY <1>1, <1>2

\* A thread is inside until it releases the lock.
LEMMA InsideKept ==
  ASSUME LegalInv, [Next]_vars, NEW u \in Inside, ~Unlock(u)  PROVE u \in Inside'
<1>0. u \in Threads /\ pc[u] \in {"insert", "length", "delete", "unlock"}
  BY DEF Inside
<1>1. ASSUME NEW t \in Threads, ThreadStep(t)  PROVE u \in Inside'
  <2>1. CASE u # t
    BY <1>0, <1>1, <2>1, OthersStand DEF Inside, Threads
  <2>2. CASE u = t /\ (Call(t) \/ InCall(t) \/ Found(t) \/ Fails(t))
    <3>1. UNCHANGED <<locks, thread, main>> \/ UNCHANGED thread
      BY <2>2, CallUses, FoundUses DEF InCall, Fails
    <3> QED BY <1>0, <3>1 DEF Inside, thread, Threads
  <2>3. CASE u = t /\ GoesOn(t)
    <3>1. PICK p \in {"insert", "delete"}, i \in Nat : Goto(t, p, i) /\ ControlOK
      BY <2>3, GoesOnIs, Numbers DEF LegalInv, IInv
    <3>2. pc'[t] \in {"insert", "length", "delete", "unlock"}
      BY <3>1, GotoIs
    <3> QED BY <1>0, <2>3, <3>2 DEF Inside, Threads
  <2>4. CASE u = t /\ Lock(t)
    BY <1>0, <2>4 DEF Lock, At
  <2> QED BY <1>1, <2>1, <2>2, <2>3, <2>4 DEF ThreadStep
<1>2. CASE MainStep
  <2>1. pc'[u] = pc[u]
    BY <1>0, <1>2, MainMoves
  <2> QED BY <1>0, <2>1 DEF Inside, Threads
<1>3. CASE UNCHANGED vars
  BY <1>0, <1>3 DEF vars, thread, Inside, Threads
<1> QED BY <1>1, <1>2, <1>3 DEF Next, Ended

\* The list holds elements of the thread inside only, and as many of each key as
\* there are elements for which that thread has still to delete one.
DataOK ==
  /\ \A e \in Contents : e \in Elms /\ e % NumThreads \in Inside
  /\ ListP!Balanced(Contents, Pending)

DataInv == SafeInv /\ (myLock # "NONE" => DataOK)

\* What Balanced speaks of are sets of elements.
LEMMA DataSets ==
  ASSUME SafeInv, DataOK
  PROVE  /\ Contents \in SUBSET Elms /\ Pending \in SUBSET Elms /\ Inserted \in SUBSET Elms
         /\ DeletedFor \subseteq Inserted /\ \A e \in Elms : key[e] \in Keys
<1>1. key \in [Elms -> Keys]
  BY DEF SafeInv, LegalInv, IInv, ControlOK
<1>2. DeletedFor \subseteq Inserted
  BY DEF DeletedFor, Inserted, HasDeleted, HasInserted
<1> QED BY <1>1, <1>2 DEF DataOK, Pending, Inserted

\* A thread that is about to release the lock has deleted all it inserted: the
\* list is empty, and so it is when no thread is inside.
LEMMA NothingLeft ==
  ASSUME SafeInv, myLock # "NONE", DataOK,
         \A u \in Inside : pc[u] = "unlock"
  PROVE  Contents = {}
<1> SUFFICES ASSUME NEW x \in Contents  PROVE FALSE
  OBVIOUS
<1>1. ASSUME NEW e \in Pending  PROVE FALSE
  <2>1. PICK u \in Threads : u = e % NumThreads
    BY <1>1, DataSets, OwnerIs
  <2>2. HasInserted(u, e) /\ ~HasDeleted(u, e)
    BY <1>1, <2>1, DataSets, InsertedBy DEF Pending
  <2>3. u \in Inside /\ pc[u] # "unlock"
    BY <2>2 DEF HasInserted, HasDeleted, Inside
  <2> QED BY <2>3
<1>2. PICK C, P : C = Contents /\ P = Pending
  OBVIOUS
<1>3. C \in SUBSET Elms /\ P \in SUBSET Elms /\ x \in C /\ key[x] \in Keys /\ ListP!Balanced(C, P)
  BY <1>2, DataSets DEF DataOK
<1>4. ListP!WithKey(P, key[x]) # {}
  BY <1>3, NodesOK, ListP!BalancedBack
<1> QED BY <1>1, <1>2, <1>4 DEF ListP!WithKey

\* Every step keeps this.
LEMMA DataKept ==
  ASSUME SafeInv, myLock # "NONE", DataOK, [Next]_vars  PROVE DataOK'
<1>0. LegalInv /\ UNCHANGED key
  BY StepIsLegal, KeysKept DEF SafeInv
<1>1. PICK C, P, C2, P2 : C = Contents /\ P = Pending /\ C2 = Contents' /\ P2 = Pending'
  OBVIOUS
<1>2. C \in SUBSET Elms /\ P \in SUBSET Elms /\ ListP!Balanced(C, P)
  BY <1>1, DataSets DEF DataOK
<1>3. /\ \A e \in C2 : e \in C \/ (e \in Elms /\ e % NumThreads \in Inside)
      /\ ListP!Balanced(C2, P2)
  <2>1. ASSUME NEW e \in Elms, Puts(e)  PROVE C2 = C \cup {e} /\ ListP!Balanced(C2, P2)
    <3>1. C2 = C \cup {e} /\ P2 = P \cup {e} /\ e \notin C /\ e \notin P
      <4>1. e \notin DeletedFor
        BY <2>1, DataSets DEF Puts
      <4> QED BY <1>1, <2>1, <4>1 DEF Puts, Pending
    <3> QED BY <1>2, <3>1, NodesOK, ListP!AddBalanced
  <2>2. ASSUME NEW e \in Elms, NEW x \in Elms, Takes(e, x)
        PROVE  C2 = C \ {x} /\ ListP!Balanced(C2, P2)
    <3>1. C2 = C \ {x} /\ P2 = P \ {e} /\ x \in C /\ e \in P /\ key[x] = key[e]
      BY <1>1, <2>2 DEF Takes, Pending
    <3> QED BY <1>2, <3>1, NodesOK, ListP!RemoveBalanced
  <2>3. CASE Rests
    <3>1. C2 = C /\ P2 = P
      BY <1>1, <2>3 DEF Rests, Pending
    <3> QED BY <1>2, <3>1
  <2>4. \A e \in Elms : Puts(e) => e % NumThreads \in Inside
    BY DEF Puts
  <2> QED BY <2>1, <2>2, <2>3, <2>4, Effect
<1>4. ASSUME NEW e \in C2  PROVE e \in Elms /\ e % NumThreads \in Inside'
  <2>1. e \in Elms /\ e % NumThreads \in Inside
    BY <1>1, <1>3, <1>4 DEF DataOK
  <2>2. PICK u \in Inside : u = e % NumThreads
    BY <2>1
  <2>3. CASE Unlock(u)
    <3>1. pc[u] = "unlock" /\ \A t \in Inside : t = u
      BY <1>0, <2>2, <2>3, Alone DEF Unlock, At
    <3>2. C = {}
      BY <1>1, <3>1, NothingLeft
    <3>3. \A t \in Threads : ~InCall(t)
      <4>1. SUFFICES ASSUME NEW t \in Threads, InCall(t)  PROVE FALSE
        OBVIOUS
      <4>2. t \in Inside /\ pc[t] # "unlock"
        BY <4>1 DEF InCall, Calling, Inside
      <4> QED BY <3>1, <4>2
    <3>4. C2 = C
      BY <1>1, <3>3, OutsideCalls
    <3> QED BY <1>4, <3>2, <3>4
  <2>4. CASE ~Unlock(u)
    BY <1>0, <2>1, <2>2, <2>4, InsideKept
  <2> QED BY <2>3, <2>4
<1>5. ListP!Balanced(Contents, Pending)'
  BY <1>0, <1>1, <1>3 DEF ListP!Balanced, ListP!WithKey
<1> QED BY <1>1, <1>4, <1>5 DEF DataOK, Elms, NumElms

\* At the start the list is empty and no thread has done anything.
LEMMA InitData ==
  ASSUME Init  PROVE DataOK /\ Contents = {} /\ Inserted = {} /\ DeletedFor = {}
<1>1. Contents = {}
  <2>1. PICK p : p = [n \in Nat |-> list]
    OBVIOUS
  <2>2. list \in ListP!Nodes /\ list \notin Elms /\ next[list] = list /\ prev[list] = list
    BY MainIsNoThread, Numbers, SameInit DEF Init, ListP!HeapInit
  <2>3. ListP!Ring(list, p, 1) /\ ListP!Linked(p, 1, {}) /\ ListP!Inner(p, 1) = {}
    BY <2>1, <2>2 DEF ListP!Ring, ListP!Linked, ListP!Inner
  <2> QED BY <2>3, NodesOK, ListP!ContentIs, SameContent DEF Contents
<1>2. \A e \in Elms : ~HasInserted(e % NumThreads, e) /\ ~HasDeleted(e % NumThreads, e)
  BY OwnerIs DEF HasInserted, HasDeleted, Init
<1>3. Inserted = {} /\ DeletedFor = {}
  BY <1>2, InsertedBy DEF Inserted, DeletedFor
<1> QED BY <1>1, <1>3 DEF DataOK, Pending, ListP!Balanced, ListP!WithKey

\* DataInv is an inductive invariant.
THEOREM DataInductive == Spec => []DataInv
<1>1. Init => DataInv
  BY InitSafe, InitData DEF DataInv
<1>2. DataInv /\ SafeInv' /\ [Next]_vars => DataInv'
  BY DataKept, MyLockFixed DEF DataInv
<1> QED BY <1>1, <1>2, SafeInductive, PTL DEF Spec

\* With --sync the threads run one after another and leave nothing behind: the
\* list only ever holds elements of the one thread inside.
THEOREM OnlyOwn == Spec => []OnlyOwnElements
<1>1. DataInv => OnlyOwnElements
  <2> SUFFICES ASSUME DataInv, myLock # "NONE"
               PROVE  /\ Cardinality(Inside) <= 1
                      /\ \A e \in List!Content(list) : e % NumThreads \in Inside
    BY DEF OnlyOwnElements
  <2>1. \A t, u \in Inside : t = u
    BY Alone DEF DataInv, SafeInv
  <2>2. Cardinality(Inside) <= 1
    <3>1. CASE Inside = {}
      BY <3>1, FS_EmptySet
    <3>2. CASE Inside # {}
      <4>1. PICK t \in Inside : Inside = {t}
        BY <2>1, <3>2
      <4> QED BY <4>1, FS_Singleton
    <3> QED BY <3>1, <3>2
  <2> QED BY <2>2 DEF DataInv, DataOK, Contents
<1> QED BY <1>1, DataInductive, PTL

-----------------------------------------------------------------------------
(* With --sync none of the checks the program makes on its list fails.     *)

\* The instances of FiniteSets count alike.
LEMMA SameCounting == \A S : ListP!Cardinality(S) = Cardinality(S)
  BY DEF ListP!Cardinality, Cardinality

\* What a returned call has found out about the list.
LEMMA FoundOut ==
  ASSUME SafeInv, myLock # "NONE", NEW c \in Threads \cup {Main},
         call[c].at = "return"
  PROVE  /\ call[c].op = "length" => call[c].rc = Cardinality(Contents) /\ call[c].rc \in Nat
         /\ call[c].op = "delete" => call[c].rc = 0
         /\ call[c].op = "lookup" /\ call[c].temp = ListP!NULL =>
              \A x \in Contents : key[x] # key[call[c].elm]
<1>1. PICK on, path, size : on = On /\ ListP!Kept(on, path, size)
  BY DEF SafeInv, Guarded
<1>2. on[c] \in {list} /\ on[c] = list
  BY <1>1, OnIs, IdleIs
<1>3. PICK p, n : p = path[list] /\ n = size[list]
  OBVIOUS
<1>4. ListP!Ring(list, p, n)
  BY <1>1, <1>3 DEF ListP!Kept
<1>5. Contents = ListP!Inner(p, n)
  BY <1>1, <1>3, ContentsAre
<1>6. ListP!Cardinality(ListP!Inner(p, n)) = n - 1 /\ n \in Nat \ {0}
  BY <1>4, NodesOK, ListP!RingSize DEF ListP!Ring
<1>7. /\ call[c].op = "length" => call[c].rc = n - 1
      /\ call[c].op = "delete" => call[c].rc = 0
      /\ call[c].op = "lookup" /\ call[c].temp = ListP!NULL =>
           \A x \in ListP!Inner(p, n) : key[x] # key[call[c].elm]
  BY <1>1, <1>2, <1>3, NodesOK, ListP!ReturnIs
<1> QED BY <1>5, <1>6, <1>7, SameCounting

\* length, lookup and delete return what the thread expects.
LEMMA NeverFails ==
  ASSUME DataInv, myLock # "NONE", NEW t \in Threads  PROVE ~Fails(t)
<1> SUFFICES ASSUME Fails(t)  PROVE FALSE
  OBVIOUS
<1>1. /\ call[t].at = "return" /\ SafeInv /\ DataOK /\ LegalInv /\ ThreadLegal(t) /\ ControlOK
      /\ \/ call[t].op = "length" /\ call[t].rc = -1
         \/ call[t].op = "lookup" /\ call[t].temp = ListP!NULL
         \/ call[t].op = "delete" /\ call[t].rc # 0
  BY SameUses DEF Fails, Returned, DataInv, SafeInv, LegalInv, Legal, IInv
<1>2. call[t].op = "lookup" /\ \A x \in Contents : key[x] # key[call[t].elm]
  <2>1. -1 \notin Nat
    OBVIOUS
  <2> QED BY <1>1, <2>1, FoundOut
<1>3. PICK e : e = index[t]
  OBVIOUS
<1>4. pc[t] = "delete" /\ call[t].elm = e
  BY <1>1, <1>2, <1>3, IdleIs DEF ThreadLegal
<1>5. e \in Elms /\ e % NumThreads = t /\ e \in Nat
  BY <1>1, <1>3, <1>4, Numbers DEF ControlOK
<1>6. e \in Pending
  <2>1. HasInserted(t, e) /\ ~HasDeleted(t, e)
    BY <1>2, <1>3, <1>4, <1>5 DEF HasInserted, HasDeleted, ListP!Deletes
  <2> QED BY <1>5, <2>1, InsertedBy DEF Pending
<1>7. PICK C, P : C = Contents /\ P = Pending
  OBVIOUS
<1>8. C \in SUBSET Elms /\ P \in SUBSET Elms /\ e \in P /\ key[e] \in Keys /\ ListP!Balanced(C, P)
  BY <1>1, <1>5, <1>6, <1>7, DataSets DEF DataOK
<1>9. ListP!WithKey(C, key[e]) # {}
  BY <1>8, NodesOK, ListP!BalancedFinds
<1> QED BY <1>2, <1>4, <1>7, <1>9 DEF ListP!WithKey

\* When the threads have exited main finds the list empty.
LEMMA FoundEmpty ==
  ASSUME DataInv, myLock # "NONE", CheckEnds  PROVE call[Main].rc = 0
<1>1. call[Main].at = "return" /\ SafeInv /\ DataOK /\ LegalInv
  BY DEF CheckEnds, DataInv, SafeInv
<1>2. Inside = {} /\ call[Main].op = "length"
  BY <1>1, Alone, IdleIs
<1>3. Contents = {}
  BY <1>1, <1>2, NothingLeft
<1> QED BY <1>1, <1>2, <1>3, FoundOut, FS_EmptySet

\* How the program may end with --sync; without elements the averages divide by zero.
EndsWell == status \in {"running", "error", "success"} \/ (status = "SIGFPE" /\ NumElms = 0)

\* No step ends the program in another way: by NeverFails no thread gives up, and by
\* FoundEmpty main finds the list empty.
LEMMA EndKept ==
  ASSUME DataInv, myLock # "NONE", EndsWell, [Next]_vars  PROVE EndsWell'
<1>1. ASSUME NEW t \in Threads, ThreadStep(t)  PROVE UNCHANGED status
  <2>1. CASE Lock(t) \/ Call(t) \/ InCall(t) \/ Found(t) \/ GoesOn(t) \/ Unlock(t)
    BY <2>1 DEF Lock, Call, InCall, Found, GoesOn, Unlock, main
  <2>2. CASE Fails(t)
    BY <2>2, NeverFails
  <2> QED BY <1>1, <2>1, <2>2 DEF ThreadStep
<1>2. CASE CheckEnds
  <2>1. status' = IF NumThreads * NumIters * 3 = 0 THEN "SIGFPE" ELSE "success"
    BY <1>2, FoundEmpty DEF CheckEnds
  <2>2. NumElms \in Nat /\ NumThreads * NumIters * 3 = NumElms * 3
    BY ArgsAssumption DEF NumElms
  <2>3. NumElms * 3 = 0 => NumElms = 0
    BY <2>2
  <2> QED BY <2>1, <2>2, <2>3 DEF EndsWell, NumElms
<1>3. CASE Create \/ CreateFails \/ Join \/ CheckBegins \/ CheckRuns \/ UNCHANGED vars
  BY <1>3 DEF Create, CreateFails, Join, CheckBegins, CheckRuns, vars, main, EndsWell, NumElms
<1> QED BY <1>1, <1>2, <1>3 DEF Next, MainStep, Ended, EndsWell, NumElms

\* With --sync no check the program makes on its list ever fails.
THEOREM EndsOnlyWell == Spec => [](myLock # "NONE" => EndsWell)
<1>1. Init => EndsWell
  BY DEF Init, EndsWell
<1>2. DataInv /\ (myLock # "NONE" => EndsWell) /\ [Next]_vars => (myLock # "NONE" => EndsWell)'
  BY EndKept, MyLockFixed
<1> QED BY <1>1, <1>2, DataInductive, PTL DEF Spec

\* So it ends with the error of pthread_create or with success, if it has
\* operations to divide the time by.
THEOREM NoFailure ==
  ASSUME NumElms # 0  PROVE Spec => []NoErrorExit
<1>1. (myLock # "NONE" => EndsWell) => NoErrorExit
  BY DEF EndsWell, NoErrorExit
<1> QED BY <1>1, EndsOnlyWell, PTL

-----------------------------------------------------------------------------
(* With --sync: the list between the calls, and the program as a whole.    *)

\* Nobody inserts or deletes.
Quiet == \A t \in Threads : call[t].op \notin {"insert", "delete"}

LEMMA QuietIsSound ==
  ASSUME SafeInv, myLock # "NONE", Quiet  PROVE List!Sound(list)
<1>1. PICK on, path, size : on = On /\ ListP!Kept(on, path, size)
  BY DEF SafeInv, Guarded
<1>2. PICK p, n : p = path[list] /\ n = size[list]
  OBVIOUS
<1>3. ListP!Ring(list, p, n)
  BY <1>1, <1>2 DEF ListP!Kept
<1>4. ListP!Linked(p, n, {})
  <2>1. CASE \E c \in Threads \cup {Main} : on[c] = list
    <3>1. PICK c \in Threads \cup {Main} : on[c] = list
      BY <2>1
    <3>2. call[c].op \notin {"insert", "delete"}
      BY <3>1, IdleIs DEF Quiet, SafeInv, LegalInv, Legal, MainLegal
    <3>3. ListP!Works(list, p, n, call[c])
      BY <1>1, <1>2, <3>1 DEF ListP!Kept
    <3>4. ListP!Behind(call[c]) = {}
      BY <3>2, <3>3 DEF ListP!Works, ListP!Stands, ListP!InsertAt, ListP!LookupAt,
         ListP!LengthAt, ListP!DeleteAt, ListP!Behind
    <3> QED BY <3>3, <3>4 DEF ListP!Works
  <2>2. CASE \A c \in Threads \cup {Main} : on[c] # list
    BY <1>1, <1>2, <2>2 DEF ListP!Kept
  <2> QED BY <2>1, <2>2
<1>5. ListP!Sound(list)
  BY <1>3, <1>4, NodesOK, ListP!RingIsSound DEF SafeInv, LegalInv
<1> QED BY <1>5, SameContent DEF ListP!Sound, List!Sound

\* With --sync the list is sorted and linked both ways whenever no thread is in
\* an insertion or a deletion.
THEOREM QuietSound == Spec => [](myLock # "NONE" /\ Quiet => List!Sound(list))
  BY QuietIsSound, SafeInductive, PTL

\* When the program has reported success all threads are joined.
Reported == status = "success" => joined = NumThreads

\* With --sync the list that main found empty is a sound one, as SortedList.h says
\* of SortedList_length; without --sync it need not be.
THEOREM FinalSound == Spec => [](myLock # "NONE" => FinalListSound)
<1>1. Init => Reported
  BY DEF Init, Reported
<1>2. LegalInv /\ Reported /\ [Next]_vars => Reported'
  <2> SUFFICES ASSUME LegalInv, Reported, [Next]_vars  PROVE Reported'
    OBVIOUS
  <2>1. ASSUME NEW t \in Threads, ThreadStep(t)  PROVE Reported'
    <3>1. CASE Fails(t)
      BY <3>1 DEF Fails, Reported
    <3>2. CASE Lock(t) \/ Call(t) \/ InCall(t) \/ Found(t) \/ GoesOn(t) \/ Unlock(t)
      BY <3>2 DEF Lock, Call, InCall, Found, GoesOn, Unlock, main, Reported
    <3> QED BY <2>1, <3>1, <3>2 DEF ThreadStep
  <2>2. CASE CheckEnds
    BY <2>2, IdleIs DEF CheckEnds, LegalInv, Legal, MainLegal, Reported
  <2>3. CASE Create \/ CreateFails \/ Join \/ CheckBegins \/ CheckRuns \/ UNCHANGED vars
    BY <2>3 DEF Create, CreateFails, Join, CheckBegins, CheckRuns, vars, main, Reported
  <2> QED BY <2>1, <2>2, <2>3 DEF Next, MainStep, Ended
<1>3. SafeInv /\ Reported => (myLock # "NONE" => FinalListSound)
  <2> SUFFICES ASSUME SafeInv, Reported, myLock # "NONE", status = "success"
               PROVE  List!Sound(list)
    BY DEF FinalListSound
  <2>1. \A t \in Threads : pc[t] = "exited"
    BY Numbers DEF Reported, SafeInv, LegalInv, IInv, MainOrder
  <2>2. Quiet
    BY <2>1, IdleIs DEF Quiet, SafeInv, LegalInv, Legal, ThreadLegal
  <2> QED BY <2>2, QuietIsSound
<1> QED BY <1>1, <1>2, <1>3, LegalInductive, SafeInductive, PTL DEF Spec

\* The list as the set of ListSet.
Set == INSTANCE ListSet WITH content <- Contents, pending <- Pending, fresh <- Elms \ Inserted

\* With --sync the program implements ListSet: every insertion, and every pair of a
\* lookup and a deletion, takes effect in one step, the store that links or unlinks.
THEOREM Atomic ==
  Spec => (myLock # "NONE" => Set!Init) /\ [][myLock # "NONE" => Set!Next]_(Set!vars)
<1>1. Init => (myLock # "NONE" => Set!Init)
  <2> SUFFICES ASSUME Init  PROVE Set!Init
    OBVIOUS
  <2>1. key \in [Elms -> Keys]
    BY InitSafe DEF SafeInv, LegalInv, IInv, ControlOK
  <2> QED BY <2>1, InitData DEF Set!Init, Pending
<1>2. DataInv /\ [Next]_vars => [myLock # "NONE" => Set!Next]_(Set!vars)
  <2> SUFFICES ASSUME DataInv, [Next]_vars, myLock # "NONE"
               PROVE  Set!Next \/ UNCHANGED Set!vars
    OBVIOUS
  <2>1. SafeInv /\ DataOK /\ UNCHANGED key
    BY StepIsLegal, KeysKept DEF DataInv, SafeInv
  <2>2. ASSUME NEW e \in Elms, Puts(e)  PROVE Set!Next
    <3>1. e \notin DeletedFor
      BY <2>1, <2>2, DataSets DEF Puts
    <3>2. /\ e \in Elms \ Inserted /\ Contents' = Contents \cup {e}
          /\ (Elms \ Inserted)' = (Elms \ Inserted) \ {e}
          /\ Pending' = Pending \cup {e}
      BY <2>2, <3>1 DEF Puts, Pending, Elms, NumElms
    <3> QED BY <2>1, <3>2 DEF Set!Next, Set!Insert
  <2>3. ASSUME NEW e \in Elms, NEW x \in Elms, Takes(e, x)  PROVE Set!Next
    <3>1. /\ e \in Pending /\ x \in Contents /\ key[x] = key[e] /\ Contents' = Contents \ {x}
          /\ (Elms \ Inserted)' = Elms \ Inserted
          /\ Pending' = Pending \ {e}
      BY <2>3 DEF Takes, Pending, Elms, NumElms
    <3> QED BY <2>1, <3>1 DEF Set!Next, Set!Delete, Set!WithKey
  <2>4. CASE Rests
    <3>1. Contents' = Contents /\ (Elms \ Inserted)' = Elms \ Inserted /\ Pending' = Pending
      BY <2>4 DEF Rests, Pending, Elms, NumElms
    <3> QED BY <2>1, <3>1 DEF Set!vars
  <2> QED BY <2>1, <2>2, <2>3, <2>4, Effect
<1> QED BY <1>1, <1>2, DataInductive, PTL DEF Spec
=============================================================================
