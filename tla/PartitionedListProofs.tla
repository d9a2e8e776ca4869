----------------------- MODULE PartitionedListProofs -----------------------
(***************************************************************************)
(* Proofs about PartitionedList, for any number of threads, iterations,    *)
(* sublists and keys and any hash function: no two threads are inside      *)
(* calls on the same sublist, the threads use the list library as it may   *)
(* be used, and with --sync every list nobody works on is sorted and       *)
(* doubly linked, each call takes effect in one step, no check the program *)
(* makes on its lists fails, and the lengths summed up are within bounds.  *)
(***************************************************************************)
EXTENDS PartitionedList, FiniteSetTheorems, TLAPS

\* The control state of the threads, and the loop variables in their bounds.
ControlOK ==
  /\ key \in [Elms -> Keys]
  /\ myLock \in {"NONE", "MUTEX", "SPIN"}
  /\ addLock \in [Sublists -> Threads \cup {NoThread}]
  /\ spinLock \in [Sublists -> {0, 1}]
  /\ pc \in [Threads -> {"none", "lock", "call", "exited"}]
  /\ phase \in [Threads -> {"none", "insert", "length", "delete"}]
  /\ index \in [Threads -> Nat]
  /\ created \in Nat
  /\ \A t \in Threads :
       pc[t] \in {"lock", "call"} =>
         /\ phase[t] # "none"
         /\ phase[t] = "length" => index[t] < NumLists
         /\ phase[t] # "length" => index[t] < NumElms

\* A thread inside a call holds the lock of its sublist: it owns the mutex,
\* or the spin lock is taken and no other thread is inside.
HoldsLock ==
  \A t \in Threads : pc[t] = "call" =>
    /\ myLock = "MUTEX" => addLock[Sublist(t)] = t
    /\ myLock = "SPIN" =>
         /\ spinLock[Sublist(t)] = 1
         /\ \A u \in Threads :
              pc[u] = "call" /\ Sublist(u) = Sublist(t) => u = t

IInv == ControlOK /\ HoldsLock

\* The sublist a thread works on exists.
LEMMA SublistExists ==
  ASSUME ControlOK, NEW t \in Threads, pc[t] \in {"lock", "call"}
  PROVE  Sublist(t) \in Sublists
<1>1. NumLists \in Nat \ {0} /\ NumElms \in Nat
  BY ArgsAssumption DEF NumElms
<1>2. CASE phase[t] = "length"
  BY <1>1, <1>2 DEF ControlOK, Sublist, Sublists
<1>3. CASE phase[t] # "length"
  <2>1. index[t] \in Elms
    BY <1>1, <1>3 DEF ControlOK, Elms
  <2>2. hash[key[index[t]]] \in Nat
    BY <2>1, ArgsAssumption DEF ControlOK
  <2> QED BY <1>1, <1>3, <2>2 DEF Sublist, Sublists
<1> QED BY <1>2, <1>3

\* No list operation changes a key.
LEMMA ListStepKeepsKeys ==
  ASSUME NEW c, List!ListStep(c)  PROVE UNCHANGED key
  BY DEF List!ListStep, List!First, List!Advance, List!SetNext, List!SetPrev,
         List!Link, List!LinkBack, List!LoadPred, List!LoadSucc, List!TestPrev,
         List!TestNext, List!Test, List!Unlink, List!UnlinkBack,
         List!LookupEnds, List!LengthScan, List!heap

\* Where a thread goes when a loop is entered: within bounds, or to the end.
LEMMA EnterControl ==
  ASSUME ControlOK, NEW t \in Threads, NEW p \in {"insert", "length", "delete"},
         NEW i \in Nat, Enter(t, p, i)
  PROVE  /\ pc' \in [Threads -> {"none", "lock", "call", "exited"}]
         /\ phase' \in [Threads -> {"none", "insert", "length", "delete"}]
         /\ index' \in [Threads -> Nat]
         /\ pc'[t] \in {"lock", "exited"}
         /\ pc'[t] = "lock" =>
              /\ phase'[t] # "none"
              /\ phase'[t] = "length" => index'[t] < NumLists
              /\ phase'[t] # "length" => index'[t] < NumElms
         /\ \A u \in Threads : u # t =>
              pc'[u] = pc[u] /\ phase'[u] = phase[u] /\ index'[u] = index[u]
<1> DEFINE more == IF p = "length" THEN i < NumLists ELSE i < NumElms
           place == CASE more -> <<"lock", p, i>>
                      [] p = "insert" /\ ~more -> <<"lock", "length", 0>>
                      [] p = "length" /\ ~more /\ t < NumElms -> <<"lock", "delete", t>>
                      [] OTHER -> <<"exited", "none", 0>>
<1>0. t \in Nat /\ NumLists \in Nat \ {0} /\ NumElms \in Nat
  BY ArgsAssumption DEF Threads, NumElms
<1>1. \/ more /\ place = <<"lock", p, i>>
      \/ p = "insert" /\ place = <<"lock", "length", 0>>
      \/ t < NumElms /\ place = <<"lock", "delete", t>>
      \/ place = <<"exited", "none", 0>>
  OBVIOUS
<1>2. /\ pc' = [pc EXCEPT ![t] = place[1]]
      /\ phase' = [phase EXCEPT ![t] = place[2]]
      /\ index' = [index EXCEPT ![t] = place[3]]
  BY DEF Enter
<1>3. /\ place[1] \in {"lock", "exited"}
      /\ place[2] \in {"none", "insert", "length", "delete"}
      /\ place[3] \in Nat
      /\ place[1] = "lock" =>
           /\ place[2] # "none"
           /\ place[2] = "length" => place[3] < NumLists
           /\ place[2] # "length" => place[3] < NumElms
  <2> HIDE DEF place
  <2> QED BY <1>0, <1>1
<1> HIDE DEF place
<1> QED BY <1>2, <1>3 DEF ControlOK

\* lockItUp: the lock was free, so nobody is inside, and now its taker is.
LEMMA LockItUpKeeps ==
  ASSUME IInv, NEW t \in Threads, LockItUp(t)  PROVE IInv'
<1> DEFINE k == Sublist(t)
<1>1. pc[t] = "lock" /\ k \in Sublists
  BY SublistExists DEF LockItUp, At, IInv
<1>2. /\ UNCHANGED <<key, myLock, phase, index, created>>
      /\ pc' = [pc EXCEPT ![t] = "call"]
      /\ myLock = "MUTEX" => addLock[k] = NoThread
      /\ myLock = "SPIN" => spinLock[k] = 0
      /\ addLock' = IF myLock = "MUTEX" THEN [addLock EXCEPT ![k] = t] ELSE addLock
      /\ spinLock' = IF myLock = "SPIN" THEN [spinLock EXCEPT ![k] = 1] ELSE spinLock
  BY DEF LockItUp, main
<1>3. ControlOK'
  BY <1>1, <1>2 DEF IInv, ControlOK
<1>4. \A u \in Threads : Sublist(u)' = Sublist(u)
  BY <1>2 DEF Sublist
<1>5. NoThread \notin Threads
  BY DEF NoThread, Threads
<1>6. \A u \in Threads : pc'[u] = IF u = t THEN "call" ELSE pc[u]
  BY <1>2 DEF IInv, ControlOK
<1>7. HoldsLock'
  <2>1. CASE myLock = "MUTEX"
    <3>1. addLock' = [addLock EXCEPT ![k] = t] /\ addLock[k] = NoThread
      BY <1>2, <2>1
    <3>2. ASSUME NEW u \in Threads, pc'[u] = "call"
          PROVE  addLock'[Sublist(u)] = u
      <4>1. CASE u = t
        BY <1>1, <3>1, <4>1 DEF IInv, ControlOK
      <4>2. CASE u # t
        <5>1. addLock[Sublist(u)] = u /\ Sublist(u) \in Sublists
          BY <1>6, <2>1, <3>2, <4>2, SublistExists DEF IInv, HoldsLock
        <5>2. Sublist(u) # k
          BY <1>5, <3>1, <5>1
        <5> QED BY <3>1, <5>1, <5>2 DEF IInv, ControlOK
      <4> QED BY <4>1, <4>2
    <3> QED BY <1>2, <1>4, <2>1, <3>2 DEF HoldsLock
  <2>2. CASE myLock = "SPIN"
    <3>1. spinLock' = [spinLock EXCEPT ![k] = 1] /\ spinLock[k] = 0
      BY <1>2, <2>2
    <3>2. ASSUME NEW u \in Threads, pc[u] = "call"
          PROVE  spinLock[Sublist(u)] = 1 /\ Sublist(u) \in Sublists /\ Sublist(u) # k
      BY <2>2, <3>1, <3>2, SublistExists DEF IInv, HoldsLock
    <3>3. ASSUME NEW u \in Threads, pc'[u] = "call"
          PROVE  spinLock'[Sublist(u)] = 1
      BY <1>1, <1>6, <3>1, <3>2, <3>3 DEF IInv, ControlOK
    <3>4. ASSUME NEW u \in Threads, NEW v \in Threads, pc'[u] = "call",
                 pc'[v] = "call", Sublist(u) = Sublist(v)
          PROVE  u = v
      BY <1>6, <2>2, <3>2, <3>4 DEF IInv, HoldsLock
    <3> QED BY <1>2, <1>4, <2>2, <3>3, <3>4 DEF HoldsLock
  <2>3. CASE myLock = "NONE"
    BY <1>2, <2>3 DEF HoldsLock
  <2> QED BY <2>1, <2>2, <2>3 DEF IInv, ControlOK
<1> QED BY <1>3, <1>7 DEF IInv

\* unlockItUp: only the thread that leaves was inside on that sublist.
LEMMA UnlockItUpKeeps ==
  ASSUME IInv, NEW t \in Threads, UnlockItUp(t)  PROVE IInv'
<1> DEFINE k == Sublist(t)
<1>1. pc[t] = "call" /\ k \in Sublists /\ phase[t] \in {"insert", "length", "delete"}
  BY SublistExists DEF UnlockItUp, Returned, At, IInv, ControlOK
<1>2. /\ UNCHANGED <<key, myLock, created>>
      /\ addLock' = IF myLock = "MUTEX" THEN [addLock EXCEPT ![k] = NoThread] ELSE addLock
      /\ spinLock' = IF myLock = "SPIN" THEN [spinLock EXCEPT ![k] = 0] ELSE spinLock
  BY DEF UnlockItUp
<1>3. \/ Enter(t, phase[t], NextIndex(t))
      \/ pc' = [pc EXCEPT ![t] = "exited"] /\ UNCHANGED <<phase, index>>
  BY DEF UnlockItUp
<1>4. NextIndex(t) \in Nat
  <2>1. index[t] \in Nat /\ NumThreads \in Nat
    BY ArgsAssumption DEF IInv, ControlOK
  <2> QED BY <2>1 DEF NextIndex
<1>5. /\ pc' \in [Threads -> {"none", "lock", "call", "exited"}]
      /\ phase' \in [Threads -> {"none", "insert", "length", "delete"}]
      /\ index' \in [Threads -> Nat]
      /\ pc'[t] \in {"lock", "exited"}
      /\ pc'[t] = "lock" =>
           /\ phase'[t] # "none"
           /\ phase'[t] = "length" => index'[t] < NumLists
           /\ phase'[t] # "length" => index'[t] < NumElms
      /\ \A u \in Threads : u # t =>
           pc'[u] = pc[u] /\ phase'[u] = phase[u] /\ index'[u] = index[u]
  <2>1. CASE Enter(t, phase[t], NextIndex(t))
    BY <1>1, <1>4, <2>1, EnterControl DEF IInv
  <2>2. CASE pc' = [pc EXCEPT ![t] = "exited"] /\ UNCHANGED <<phase, index>>
    BY <2>2 DEF IInv, ControlOK
  <2> QED BY <1>3, <2>1, <2>2
<1>6. ControlOK'
  BY <1>1, <1>2, <1>5 DEF IInv, ControlOK, NoThread
<1>7. \A u \in Threads : u # t => Sublist(u)' = Sublist(u)
  BY <1>2, <1>5 DEF Sublist
<1>8. ASSUME NEW u \in Threads, pc'[u] = "call"
      PROVE  /\ u # t /\ pc[u] = "call" /\ Sublist(u)' = Sublist(u)
             /\ Sublist(u) \in Sublists
             /\ myLock # "NONE" => Sublist(u) # k
  <2>1. u # t /\ pc[u] = "call" /\ Sublist(u)' = Sublist(u)
    BY <1>5, <1>7, <1>8
  <2>2. Sublist(u) \in Sublists
    BY <2>1, SublistExists DEF IInv
  <2>3. myLock # "NONE" => Sublist(u) # k
    BY <1>1, <2>1 DEF IInv, HoldsLock, ControlOK
  <2> QED BY <2>1, <2>2, <2>3
<1>9. HoldsLock'
  <2>1. ASSUME NEW u \in Threads, pc'[u] = "call", myLock = "MUTEX"
        PROVE  addLock'[Sublist(u)] = u
    <3>1. addLock[Sublist(u)] = u
      BY <1>8, <2>1 DEF IInv, HoldsLock
    <3> QED BY <1>1, <1>2, <1>8, <2>1, <3>1 DEF IInv, ControlOK
  <2>2. ASSUME NEW u \in Threads, pc'[u] = "call", myLock = "SPIN"
        PROVE  spinLock'[Sublist(u)] = 1
    <3>1. spinLock[Sublist(u)] = 1
      BY <1>8, <2>2 DEF IInv, HoldsLock
    <3> QED BY <1>1, <1>2, <1>8, <2>2, <3>1 DEF IInv, ControlOK
  <2>3. ASSUME NEW u \in Threads, NEW v \in Threads, pc'[u] = "call",
               pc'[v] = "call", Sublist(u) = Sublist(v), myLock = "SPIN"
        PROVE  u = v
    BY <1>8, <2>3 DEF IInv, HoldsLock
  <2>4. ASSUME NEW u \in Threads, pc'[u] = "call"
        PROVE  /\ myLock = "MUTEX" => addLock'[Sublist(u)'] = u
               /\ myLock = "SPIN" =>
                    /\ spinLock'[Sublist(u)'] = 1
                    /\ \A v \in Threads :
                         pc'[v] = "call" /\ Sublist(v)' = Sublist(u)' => v = u
    BY <1>8, <2>1, <2>2, <2>3, <2>4
  <2> QED BY <1>2, <2>4 DEF HoldsLock
<1> QED BY <1>6, <1>9 DEF IInv

\* The steps inside a call, and main's, leave locks and threads as they are;
\* a thread that is created starts outside every call.
LEMMA OthersKeep ==
  ASSUME IInv,
         UNCHANGED <<key, myLock, addLock, spinLock, phase, index, pc>>,
         created' \in Nat
  PROVE  IInv'
<1>1. ControlOK'
  BY DEF IInv, ControlOK
<1>2. \A u \in Threads : Sublist(u)' = Sublist(u)
  BY DEF Sublist
<1>3. HoldsLock'
  BY <1>2 DEF IInv, HoldsLock
<1> QED BY <1>1, <1>3 DEF IInv

\* Creating a thread preserves the invariant: the new thread holds no lock.
LEMMA CreateKeeps ==
  ASSUME IInv, Create  PROVE IInv'
<1>1. created \in Threads /\ created \in Nat
  BY ArgsAssumption DEF Create, IInv, ControlOK, Threads
<1>2. /\ Enter(created, "insert", created)
      /\ UNCHANGED <<key, myLock, addLock, spinLock>> /\ created' = created + 1
  BY DEF Create, locks
<1>3. /\ pc' \in [Threads -> {"none", "lock", "call", "exited"}]
      /\ phase' \in [Threads -> {"none", "insert", "length", "delete"}]
      /\ index' \in [Threads -> Nat]
      /\ pc'[created] \in {"lock", "exited"}
      /\ pc'[created] = "lock" =>
           /\ phase'[created] # "none"
           /\ phase'[created] = "length" => index'[created] < NumLists
           /\ phase'[created] # "length" => index'[created] < NumElms
      /\ \A u \in Threads : u # created =>
           pc'[u] = pc[u] /\ phase'[u] = phase[u] /\ index'[u] = index[u]
  BY <1>1, <1>2, EnterControl DEF IInv
<1>4. ControlOK'
  BY <1>1, <1>2, <1>3 DEF IInv, ControlOK
<1>5. \A u \in Threads : pc'[u] = "call" =>
        u # created /\ pc[u] = "call" /\ Sublist(u)' = Sublist(u)
  BY <1>2, <1>3 DEF Sublist
<1>6. HoldsLock'
  BY <1>2, <1>5 DEF IInv, HoldsLock
<1> QED BY <1>4, <1>6 DEF IInv

\* At first there are no threads in calls.
LEMMA InitKeeps ==
  ASSUME Init  PROVE IInv
<1>1. ControlOK
  BY ArgsAssumption DEF Init, List!HeapInit, ControlOK
<1>2. HoldsLock
  BY DEF Init, HoldsLock
<1> QED BY <1>1, <1>2 DEF IInv

\* Every step keeps the invariant.
LEMMA NextKeeps ==
  ASSUME IInv, [Next]_vars  PROVE IInv'
<1>0. created \in Nat
  BY DEF IInv, ControlOK
<1>1. ASSUME NEW t \in Threads, ThreadStep(t) PROVE IInv'
  <2>1. CASE InCall(t)
    BY <1>0, <2>1, ListStepKeepsKeys, OthersKeep DEF InCall, locks, thread, main
  <2>2. CASE Found(t) \/ Fails(t)
    BY <1>0, <2>2, OthersKeep DEF Found, Fails, locks, thread, main
  <2> QED BY <1>1, <2>1, <2>2, LockItUpKeeps, UnlockItUpKeeps DEF ThreadStep
<1>2. CASE MainStep
  <2>1. CASE CheckRuns
    BY <1>0, <2>1, ListStepKeepsKeys, OthersKeep DEF CheckRuns, locks, thread, main
  <2>2. CASE CreateFails \/ Join \/ CheckBegins \/ CheckEnds \/ PrintOut
    BY <1>0, <2>2, OthersKeep DEF CreateFails, Join, CheckBegins, CheckEnds,
                                  PrintOut, locks, thread, main
  <2> QED BY <1>2, <2>1, <2>2, CreateKeeps DEF MainStep
<1>3. CASE UNCHANGED vars
  BY <1>0, <1>3, OthersKeep DEF vars, locks, thread, main
<1> QED BY <1>1, <1>2, <1>3 DEF Next, Ended

\* IInv is an inductive invariant of the program.
THEOREM Inductive == Spec => []IInv
  BY InitKeeps, NextKeeps, PTL DEF Spec

\* With --sync=m and --sync=s at most one thread is inside a call on a sublist.
THEOREM Exclusion == Spec => []MutualExclusion
<1>1. IInv => MutualExclusion
  BY DEF IInv, ControlOK, HoldsLock, MutualExclusion
<1> QED BY <1>1, Inductive, PTL

-----------------------------------------------------------------------------
(* The lists the program works on.                                         *)

\* What SortedListProofs proves of the lists.
ListP == INSTANCE SortedListProofs WITH Callers <- Threads \cup {Main},
           Headers <- { Header(i) : i \in Sublists }

\* The two instances of SortedList have the same steps.
LEMMA SameSteps ==
  ASSUME NEW c
  PROVE  /\ List!ListStep(c) => ListP!ListStep(c)
         /\ List!ClientStep(c) => ListP!ClientStep(c)
<1>1. List!ListStep(c) => ListP!ListStep(c)
  BY DEF List!ListStep, List!First, List!Advance, List!SetNext, List!SetPrev,
         List!Link, List!LinkBack, List!LoadPred, List!LoadSucc, List!TestPrev,
         List!TestNext, List!Test, List!Unlink, List!UnlinkBack,
         List!LookupEnds, List!LengthScan, List!heap, List!KeyAhead, List!AtHeader,
         List!AfterPred, List!AfterSucc, List!NULL,
         ListP!ListStep, ListP!First, ListP!Advance, ListP!SetNext, ListP!SetPrev,
         ListP!Link, ListP!LinkBack, ListP!LoadPred, ListP!LoadSucc, ListP!TestPrev,
         ListP!TestNext, ListP!Test, ListP!Unlink, ListP!UnlinkBack,
         ListP!LookupEnds, ListP!LengthScan, ListP!heap, ListP!KeyAhead, ListP!AtHeader,
         ListP!AfterPred, ListP!AfterSucc, ListP!NULL
<1>2. List!ClientStep(c) => ListP!ClientStep(c)
  BY DEF List!ClientStep, List!BeginInsert, List!BeginLookup, List!BeginLength, List!DeleteFound,
         List!Begin, List!BeginDelete, List!Finish, List!Returns, List!Inserting, List!Idle, List!NULL, List!heap,
         ListP!ClientStep, ListP!BeginInsert, ListP!BeginLookup, ListP!BeginLength, ListP!DeleteFound,
         ListP!Begin, ListP!BeginDelete, ListP!Finish, ListP!Returns, ListP!Inserting, ListP!Idle, ListP!NULL, ListP!heap
<1> QED BY <1>1, <1>2

\* They start alike.
LEMMA SameInit == List!HeapInit => ListP!HeapInit
  BY DEF List!HeapInit, ListP!HeapInit, List!Nodes, ListP!Nodes, List!NULL, ListP!NULL,
       List!Idle, ListP!Idle

\* Their lists have the same contents.
LEMMA SameContent == \A l : ListP!Content(l) = List!Content(l)
  BY DEF ListP!Content, List!Content, ListP!Reaches, List!Reaches, ListP!Nodes, List!Nodes,
       ListP!Cardinality, List!Cardinality

\* The elements and the headers are finitely many different nodes.
LEMMA NodesOK == ListP!NodesAssumption
<1>1. NumElms \in Nat
  BY ArgsAssumption DEF NumElms
<1>2. /\ Elms \subseteq Nat /\ { Header(i) : i \in Sublists } \subseteq Nat
      /\ Elms \cap { Header(i) : i \in Sublists } = {}
  BY <1>1, ArgsAssumption DEF Elms, Header, Sublists
<1>3. IsFiniteSet(Elms)
  BY <1>1, FS_Interval DEF Elms
<1>4. IsFiniteSet({ Header(i) : i \in Sublists })
  <2>1. { Header(i) : i \in Sublists } = NumElms .. NumElms + NumLists - 1
    <3>1. \A n \in NumElms .. NumElms + NumLists - 1 :
            n - NumElms \in Sublists /\ Header(n - NumElms) = n
      BY <1>1, ArgsAssumption DEF Header, Sublists
    <3>2. \A i \in Sublists : Header(i) \in NumElms .. NumElms + NumLists - 1
      BY <1>1, ArgsAssumption DEF Header, Sublists
    <3> QED BY <3>1, <3>2
  <2>2. IsFiniteSet(NumElms .. NumElms + NumLists - 1)
    <3>1. NumElms + NumLists - 1 \in Int
      BY <1>1, ArgsAssumption
    <3> QED BY <1>1, <3>1, FS_Interval
  <2> QED BY <2>1, <2>2
<1> QED BY <1>2, <1>3, <1>4, ArgsAssumption DEF ListP!NodesAssumption, ListP!IsFiniteSet, IsFiniteSet


-----------------------------------------------------------------------------
(* How the threads use the lists.                                          *)

\* Thread e % NumThreads has not come to element e yet.
NotYet(e) ==
  LET t == e % NumThreads
  IN  \/ pc[t] = "none"
      \/ phase[t] = "insert" /\ pc[t] = "lock" /\ index[t] <= e
      \/ phase[t] = "insert" /\ pc[t] = "call" /\ index[t] < e

\* A thread is in no list operation while it waits for the lock, works on its
\* own elements and inserts the one it has come to.
ThreadLegal(t) ==
  /\ pc[t] \in {"none", "lock"} => call[t] = ListP!Idle
  /\ phase[t] \in {"insert", "delete"} => index[t] % NumThreads = t
  /\ call[t].op = "insert" =>
       pc[t] = "call" /\ phase[t] = "insert" /\ call[t].elm = index[t]
  /\ created <= t => pc[t] = "none"

Legal ==
  /\ \A t \in Threads : ThreadLegal(t)
  /\ call[Main].op # "insert" /\ checked \in Nat
  /\ \A e \in Elms : NotYet(e) => next[e] = ListP!NULL

LegalInv == IInv /\ ListP!IInv /\ Legal

\* The element belongs to a thread.
LEMMA OwnerIs ==
  ASSUME NEW e \in Elms
  PROVE  e \in Nat /\ NumThreads \in Nat /\ NumThreads > 0 /\ e % NumThreads \in Threads
<1>1. NumElms \in Nat /\ NumThreads \in Nat /\ NumIters \in Nat
  BY ArgsAssumption DEF NumElms
<1>2. e \in Nat /\ 0 < NumElms
  BY <1>1 DEF Elms
<1>3. NumThreads # 0
  <2> SUFFICES ASSUME NumThreads = 0 PROVE FALSE
    OBVIOUS
  <2>1. 0 * NumIters = 0
    BY <1>1
  <2> QED BY <1>2, <2>1 DEF NumElms
<1> QED BY <1>1, <1>2, <1>3 DEF Threads

\* What the lists consist of, for the proofs about their callers.
LEMMA ListTypes ==
  ASSUME ListP!IInv
  PROVE  /\ DOMAIN call = Threads \cup {Main} /\ call = [c \in Threads \cup {Main} |-> call[c]]
         /\ next = [n \in ListP!Nodes |-> next[n]] /\ DOMAIN next = ListP!Nodes
         /\ key \in [Elms -> Keys]
  BY DEF ListP!IInv, ListP!HeapTypeOK

\* A thread begins its call as the lists allow it: its element is in no list
\* yet and nobody else inserts it.
LEMMA LockItUpUses ==
  ASSUME LegalInv, NEW t \in Threads, LockItUp(t)
  PROVE  /\ UNCHANGED List!heap /\ Sublist(t) \in Sublists
         /\ \/ /\ phase[t] \in {"insert", "delete"} /\ index[t] \in Elms
               /\ IF phase[t] = "insert" THEN List!BeginInsert(t, Header(Sublist(t)), index[t])
                                         ELSE List!BeginLookup(t, Header(Sublist(t)), index[t])
            \/ phase[t] = "length" /\ List!BeginLength(t, Header(Sublist(t)))
<1> DEFINE k == Sublist(t)
<1>1. /\ pc[t] = "lock" /\ UNCHANGED <<key, next, prev>>
      /\ CASE phase[t] = "insert" -> List!Begin(t, "insert", Header(k), index[t])
           [] phase[t] = "length" -> List!Begin(t, "length", Header(k), List!NULL)
           [] phase[t] = "delete" -> List!Begin(t, "lookup", Header(k), index[t])
  BY DEF LockItUp, At
<1>2. /\ ControlOK /\ phase[t] \in {"insert", "length", "delete"}
      /\ phase[t] # "length" => index[t] \in Elms
  <2>1. NumElms \in Nat
    BY ArgsAssumption DEF NumElms
  <2> QED BY <1>1, <2>1 DEF LegalInv, IInv, ControlOK, Elms
<1>3. k \in Sublists /\ Header(k) \in { Header(i) : i \in Sublists }
  BY <1>1, <1>2, SublistExists
<1>4. call[t] = List!Idle
  BY <1>1 DEF LegalInv, Legal, ThreadLegal, List!Idle, ListP!Idle, List!NULL, ListP!NULL
<1> HIDE DEF k
<1>5. UNCHANGED List!heap /\ k \in Sublists
  BY <1>1, <1>3 DEF List!heap
<1>6. CASE phase[t] = "insert"
  <2>1. index[t] \in Elms /\ index[t] % NumThreads = t /\ List!Begin(t, "insert", Header(k), index[t])
    BY <1>1, <1>2, <1>6 DEF LegalInv, Legal, ThreadLegal
  <2>2. next[index[t]] = List!NULL
    <3>1. NotYet(index[t])
      BY <1>1, <1>6, <2>1, OwnerIs DEF NotYet
    <3> QED BY <2>1, <3>1 DEF LegalInv, Legal, List!NULL, ListP!NULL
  <2>3. ASSUME NEW d \in Threads \cup {Main}, List!Inserting(d, index[t])  PROVE FALSE
    <3>1. d \in Threads /\ call[d].op = "insert" /\ call[d].elm = index[t]
      BY <2>3 DEF LegalInv, Legal, List!Inserting
    <3>2. pc[d] = "call" /\ index[d] = index[t] /\ index[d] % NumThreads = d
      BY <3>1 DEF LegalInv, Legal, ThreadLegal
    <3> QED BY <1>1, <2>1, <3>2
  <2>4. List!BeginInsert(t, Header(k), index[t])
    BY <1>4, <2>1, <2>2, <2>3 DEF List!BeginInsert
  <2> QED BY <1>5, <1>6, <2>1, <2>4 DEF k
<1>7. CASE phase[t] = "length"
  BY <1>1, <1>4, <1>5, <1>7 DEF List!BeginLength, k
<1>8. CASE phase[t] = "delete"
  BY <1>1, <1>2, <1>4, <1>5, <1>8 DEF List!BeginLookup, k
<1> QED BY <1>2, <1>6, <1>7, <1>8

\* Every step of the program is a step of a call, a use that SortedList
\* allows, or leaves the lists as they are.
LEMMA StepIsLegal ==
  ASSUME LegalInv, [Next]_vars  PROVE [List!Next]_(List!vars)
<1>1. ASSUME NEW t \in Threads, ThreadStep(t)  PROVE [List!Next]_(List!vars)
  <2>1. CASE LockItUp(t)
    <3>1. List!ClientStep(t)
      BY <2>1, LockItUpUses DEF List!ClientStep
    <3> QED BY <3>1 DEF List!Next
  <2>2. CASE InCall(t)
    BY <2>2 DEF InCall, List!Next
  <2>3. CASE Found(t)
    <3>1. List!DeleteFound(t) /\ UNCHANGED List!heap
      BY <2>3 DEF Found, Returned, List!DeleteFound, List!Returns, List!heap
    <3>2. List!ClientStep(t)
      BY <3>1 DEF List!ClientStep
    <3> QED BY <3>2 DEF List!Next
  <2>4. CASE Fails(t)
    BY <2>4 DEF Fails, List!vars
  <2>5. CASE UnlockItUp(t)
    <3>1. CASE UNCHANGED call
      BY <2>5, <3>1 DEF UnlockItUp, List!vars
    <3>2. CASE List!Finish(t)
      <4>1. List!Returns(t) /\ UNCHANGED List!heap
        BY <2>5 DEF UnlockItUp, Returned, List!Returns, List!heap
      <4>2. List!ClientStep(t)
        BY <3>2, <4>1 DEF List!ClientStep
      <4> QED BY <4>2 DEF List!Next
    <3> QED BY <2>5, <3>1, <3>2 DEF UnlockItUp
  <2> QED BY <1>1, <2>1, <2>2, <2>3, <2>4, <2>5 DEF ThreadStep
<1>2. CASE MainStep
  <2>1. CASE Create \/ CreateFails \/ Join \/ PrintOut
    BY <2>1 DEF Create, CreateFails, Join, PrintOut, List!vars
  <2>2. CASE CheckBegins
    <3>1. checked \in Sublists
      BY <2>2, ArgsAssumption DEF CheckBegins, LegalInv, Legal, Sublists
    <3>2. List!BeginLength(Main, Header(checked)) /\ UNCHANGED List!heap
      BY <2>2 DEF CheckBegins, List!BeginLength, List!heap
    <3>3. List!ClientStep(Main)
      BY <3>1, <3>2 DEF List!ClientStep
    <3> QED BY <3>3 DEF List!Next
  <2>3. CASE CheckRuns
    BY <2>3 DEF CheckRuns, List!Next
  <2>4. CASE CheckEnds
    <3>1. List!Returns(Main) /\ List!Finish(Main) /\ UNCHANGED List!heap
      BY <2>4 DEF CheckEnds, List!Returns, List!heap
    <3>2. List!ClientStep(Main)
      BY <3>1 DEF List!ClientStep
    <3> QED BY <3>2 DEF List!Next
  <2> QED BY <1>2, <2>1, <2>2, <2>3, <2>4 DEF MainStep
<1>3. CASE UNCHANGED vars
  BY <1>3 DEF vars, List!vars
<1> QED BY <1>1, <1>2, <1>3 DEF Next, Ended

\* Where a thread stands after entering a loop.
LEMMA EnterPlaces ==
  ASSUME ControlOK, NEW t \in Threads, NEW p \in {"insert", "length", "delete"},
         NEW i \in Nat, Enter(t, p, i)
  PROVE  /\ pc'[t] \in {"lock", "exited"}
         /\ pc'[t] = "lock" => \/ phase'[t] = p /\ index'[t] = i
                               \/ phase'[t] = "length"
                               \/ phase'[t] = "delete" /\ index'[t] = t
         /\ pc'[t] = "exited" => phase'[t] = "none"
<1> DEFINE more == IF p = "length" THEN i < NumLists ELSE i < NumElms
           place == CASE more -> <<"lock", p, i>>
                      [] p = "insert" /\ ~more -> <<"lock", "length", 0>>
                      [] p = "length" /\ ~more /\ t < NumElms -> <<"lock", "delete", t>>
                      [] OTHER -> <<"exited", "none", 0>>
<1>1. \/ place = <<"lock", p, i>>
      \/ place = <<"lock", "length", 0>>
      \/ place = <<"lock", "delete", t>>
      \/ place = <<"exited", "none", 0>>
  OBVIOUS
<1>2. /\ pc' = [pc EXCEPT ![t] = place[1]]
      /\ phase' = [phase EXCEPT ![t] = place[2]]
      /\ index' = [index EXCEPT ![t] = place[3]]
  BY DEF Enter
<1> HIDE DEF place
<1>3. pc'[t] = place[1] /\ phase'[t] = place[2] /\ index'[t] = place[3]
  BY <1>2 DEF ControlOK
<1> QED BY <1>1, <1>3

\* A step of one thread, or of none, after which the others stand where they
\* stood: what is to be shown.
LEMMA LegalKeptBy ==
  ASSUME LegalInv, NEW t \in Threads \cup {Main},
         \A u \in Threads : u # t =>
           /\ pc'[u] = pc[u] /\ phase'[u] = phase[u] /\ index'[u] = index[u]
           /\ call'[u] = call[u],
         created' \in {created, created + 1}, checked' \in Nat,
         t \in Threads => ThreadLegal(t)',
         call'[Main].op # "insert",
         \A e \in Elms : next'[e] = next[e] \/ e % NumThreads = t,
         \A e \in Elms : e % NumThreads = t /\ NotYet(e)' => NotYet(e) /\ next'[e] = next[e]
  PROVE  Legal'
<1>1. ASSUME NEW u \in Threads, u # t  PROVE ThreadLegal(u)'
  BY <1>1 DEF LegalInv, Legal, ThreadLegal, IInv, ControlOK, Threads
<1>2. ASSUME NEW e \in Elms, NotYet(e)'  PROVE next'[e] = ListP!NULL
  <2>1. e % NumThreads \in Threads
    BY OwnerIs
  <2>2. CASE e % NumThreads = t
    BY <1>2, <2>2 DEF LegalInv, Legal
  <2>3. CASE e % NumThreads # t
    BY <1>2, <2>1, <2>3 DEF LegalInv, Legal, NotYet
  <2> QED BY <2>2, <2>3
<1> QED BY <1>1, <1>2 DEF Legal

\* main is no thread, and NULL no node.
LEMMA MainIsNoThread ==
  /\ Main \notin Threads
  /\ ListP!NULL \notin ListP!Nodes /\ Elms \subseteq ListP!Nodes
<1>1. Main \notin Threads
  BY ArgsAssumption DEF Main, Threads
<1> QED BY <1>1, NodesOK, ListP!NullIsNoNode DEF ListP!Nodes

\* A call begins.
LEMMA LockItUpLegal ==
  ASSUME LegalInv, NEW t \in Threads, LockItUp(t)  PROVE Legal'
<1>1. /\ pc[t] = "lock" /\ pc' = [pc EXCEPT ![t] = "call"]
      /\ UNCHANGED <<next, phase, index, created, checked>>
  BY DEF LockItUp, At, main
<1>2. PICK o, l, e :
        /\ call' = [call EXCEPT ![t] =
             [List!Idle EXCEPT !.op = o, !.at = "first", !.list = l, !.elm = e]]
        /\ o = "insert" => phase[t] = "insert" /\ e = index[t]
  <2>1. phase[t] \in {"insert", "length", "delete"}
    BY <1>1 DEF LegalInv, IInv, ControlOK
  <2>2. PICK o, l, e : List!Begin(t, o, l, e) /\ (o = "insert" => phase[t] = "insert" /\ e = index[t])
    <3> DEFINE k == Sublist(t)
    <3>1. CASE phase[t] = "insert"
      <4>1. List!Begin(t, "insert", Header(k), index[t])
        BY <3>1 DEF LockItUp
      <4> QED BY <3>1, <4>1
    <3>2. CASE phase[t] = "length"
      <4>1. List!Begin(t, "length", Header(k), List!NULL)
        BY <3>2 DEF LockItUp
      <4> QED BY <4>1
    <3>3. CASE phase[t] = "delete"
      <4>1. List!Begin(t, "lookup", Header(k), index[t])
        BY <3>3 DEF LockItUp
      <4> QED BY <4>1
    <3> QED BY <2>1, <3>1, <3>2, <3>3
  <2> QED BY <2>2 DEF List!Begin
<1>3. DOMAIN call = Threads \cup {Main} /\ DOMAIN pc = Threads
  BY ListTypes DEF LegalInv, IInv, ControlOK
<1>4. /\ pc'[t] = "call" /\ call'[t].op = o
      /\ o = "insert" => call'[t].elm = index[t] /\ phase[t] = "insert"
      /\ \A u \in Threads : u # t => pc'[u] = pc[u] /\ call'[u] = call[u]
      /\ call'[Main] = call[Main]
  BY <1>1, <1>2, <1>3, MainIsNoThread DEF List!Idle
<1>5. ThreadLegal(t)'
  BY <1>1, <1>4 DEF LegalInv, Legal, ThreadLegal
<1>6. ASSUME NEW e0 \in Elms, e0 % NumThreads = t, NotYet(e0)'  PROVE NotYet(e0)
  BY <1>1, <1>4, <1>6, OwnerIs DEF NotYet, LegalInv, IInv, ControlOK
<1> QED BY <1>1, <1>4, <1>5, <1>6, LegalKeptBy DEF LegalInv, Legal

\* A step of a call: of the links that are NULL it sets only that of the
\* element it inserts.
LEMMA CallLegal ==
  ASSUME LegalInv, NEW t \in Threads \cup {Main}, List!ListStep(t),
         t \in Threads => pc[t] = "call",
         UNCHANGED <<pc, phase, index, created, checked>>
  PROVE  Legal'
<1>1. /\ \A u \in Threads \cup {Main} : /\ u # t => call'[u] = call[u]
                                        /\ call'[u].op = call[u].op
                                        /\ call'[u].elm = call[u].elm
      /\ \A n \in ListP!Nodes : \/ next[n] \in ListP!Nodes \/ next'[n] = next[n]
                                \/ call[t].op = "insert" /\ n = call[t].elm
  BY NodesOK, SameSteps, ListP!ListStepLeaves DEF LegalInv
<1>2. t \in Threads => ThreadLegal(t)'
  BY <1>1 DEF LegalInv, Legal, ThreadLegal
<1>3. call'[Main].op # "insert"
  BY <1>1 DEF LegalInv, Legal
<1>4. ASSUME NEW e \in Elms, NotYet(e)'  PROVE NotYet(e) /\ next'[e] = next[e]
  <2>1. NotYet(e)
    BY <1>4 DEF NotYet
  <2>2. next[e] \notin ListP!Nodes /\ e \in ListP!Nodes
    BY <2>1, MainIsNoThread DEF LegalInv, Legal
  <2>3. ASSUME call[t].op = "insert", e = call[t].elm  PROVE FALSE
    <3>1. t \in Threads /\ pc[t] = "call" /\ phase[t] = "insert" /\ e = index[t]
      BY <2>3 DEF LegalInv, Legal, ThreadLegal
    <3>2. e % NumThreads = t /\ e \in Nat
      BY <3>1, OwnerIs DEF LegalInv, Legal, ThreadLegal
    <3> QED BY <2>1, <3>1, <3>2 DEF NotYet
  <2> QED BY <1>1, <2>1, <2>2, <2>3
<1>5. \A e \in Elms : NotYet(e)' => next'[e] = ListP!NULL
  BY <1>4 DEF LegalInv, Legal
<1>6. \A u \in Threads : ThreadLegal(u)'
  BY <1>1, <1>2 DEF LegalInv, Legal, ThreadLegal
<1> QED BY <1>3, <1>5, <1>6 DEF LegalInv, Legal

\* A call ends: the thread goes on to its next element, or to the next loop.
LEMMA UnlockItUpLegal ==
  ASSUME LegalInv, NEW t \in Threads, UnlockItUp(t)  PROVE Legal'
<1>1. /\ pc[t] = "call" /\ call[t].op = phase[t] /\ UNCHANGED <<next, created, checked>>
      /\ phase[t] \in {"insert", "length", "delete"} /\ index[t] \in Nat /\ ControlOK
  BY DEF UnlockItUp, Returned, At, LegalInv, IInv, ControlOK
<1>2. DOMAIN call = Threads \cup {Main} /\ DOMAIN pc = Threads
  BY ListTypes DEF LegalInv, IInv, ControlOK
<1>3. CASE phase[t] = "length" /\ call[t].rc = -1
  <2>1. pc' = [pc EXCEPT ![t] = "exited"] /\ UNCHANGED <<phase, index, call>>
    BY <1>3 DEF UnlockItUp
  <2>2. pc'[t] = "exited" /\ \A u \in Threads : u # t => pc'[u] = pc[u]
    BY <1>2, <2>1
  <2>3. ThreadLegal(t)'
    BY <1>1, <1>3, <2>1, <2>2 DEF LegalInv, Legal, ThreadLegal
  <2>4. \A e \in Elms : e % NumThreads = t => ~NotYet(e)'
    BY <2>2 DEF NotYet
  <2> QED BY <1>1, <2>1, <2>2, <2>3, <2>4, LegalKeptBy DEF LegalInv, Legal
<1>4. CASE ~(phase[t] = "length" /\ call[t].rc = -1)
  <2>1. Enter(t, phase[t], NextIndex(t)) /\ call' = [call EXCEPT ![t] = List!Idle]
    BY <1>4 DEF UnlockItUp, List!Finish
  <2>2. NextIndex(t) \in Nat /\ NumThreads \in Nat /\ NumThreads > 0
    BY <1>1, ArgsAssumption DEF NextIndex, Threads
  <2>3. /\ pc'[t] \in {"lock", "exited"}
        /\ pc'[t] = "lock" => \/ phase'[t] = phase[t] /\ index'[t] = NextIndex(t)
                              \/ phase'[t] = "length"
                              \/ phase'[t] = "delete" /\ index'[t] = t
        /\ pc'[t] = "exited" => phase'[t] = "none"
        /\ \A u \in Threads : u # t =>
             pc'[u] = pc[u] /\ phase'[u] = phase[u] /\ index'[u] = index[u]
    BY <1>1, <2>1, <2>2, EnterControl, EnterPlaces
  <2>4. /\ call'[t] = List!Idle /\ call'[Main] = call[Main]
        /\ \A u \in Threads : u # t => call'[u] = call[u]
    BY <1>2, <2>1, MainIsNoThread
  <2>5. phase[t] # "length" =>
          index[t] % NumThreads = t /\ NextIndex(t) = index[t] + NumThreads
             /\ NextIndex(t) % NumThreads = t
    BY <1>1, <2>2, NodesOK, ListP!SameRemainder DEF NextIndex, LegalInv, Legal, ThreadLegal
  <2>6. t % NumThreads = t
    BY <2>2 DEF Threads
  <2>7. ThreadLegal(t)'
    BY <1>1, <2>3, <2>4, <2>5, <2>6 DEF LegalInv, Legal, ThreadLegal, List!Idle, ListP!Idle,
       List!NULL, ListP!NULL
  <2>8. ASSUME NEW e \in Elms, e % NumThreads = t, NotYet(e)'  PROVE NotYet(e)
    <3>1. pc'[t] = "lock" /\ phase'[t] = "insert" /\ index'[t] <= e
      BY <2>3, <2>8 DEF NotYet
    <3>2. phase[t] = "insert" /\ index[t] + NumThreads <= e
      BY <2>3, <2>5, <3>1
    <3>3. index[t] < e
      BY <1>1, <2>2, <3>2, OwnerIs
    <3> QED BY <1>1, <2>8, <3>2, <3>3 DEF NotYet
  <2> QED BY <1>1, <2>3, <2>4, <2>7, <2>8, LegalKeptBy DEF LegalInv, Legal
<1> QED BY <1>3, <1>4

\* A thread is created.
LEMMA CreateLegal ==
  ASSUME LegalInv, Create  PROVE Legal'
<1>0. PICK t \in Threads : t = created
  BY ArgsAssumption DEF Create, LegalInv, IInv, ControlOK, Threads
<1>1. /\ t \in Nat /\ pc[t] = "none" /\ ControlOK /\ NumThreads \in Nat
      /\ Enter(t, "insert", t) /\ created' = created + 1 /\ UNCHANGED <<next, call, checked>>
  BY <1>0, ArgsAssumption DEF Create, LegalInv, Legal, ThreadLegal, IInv, ControlOK, Threads, main
<1>2. /\ pc'[t] \in {"lock", "exited"}
      /\ pc'[t] = "lock" => \/ phase'[t] = "insert" /\ index'[t] = t
                            \/ phase'[t] = "length"
                            \/ phase'[t] = "delete" /\ index'[t] = t
      /\ pc'[t] = "exited" => phase'[t] = "none"
      /\ \A u \in Threads : u # t =>
           pc'[u] = pc[u] /\ phase'[u] = phase[u] /\ index'[u] = index[u]
  BY <1>1, EnterControl, EnterPlaces
<1>3. t % NumThreads = t
  BY <1>1 DEF Threads
<1>4. call[t] = ListP!Idle
  BY <1>1 DEF LegalInv, Legal, ThreadLegal
<1>5. ThreadLegal(t)'
  BY <1>0, <1>1, <1>2, <1>3, <1>4 DEF ThreadLegal, ListP!Idle
<1>6. \A e \in Elms : e % NumThreads = t => NotYet(e)
  BY <1>1 DEF NotYet
<1> QED BY <1>0, <1>1, <1>2, <1>5, <1>6, LegalKeptBy DEF LegalInv, Legal

\* Every step keeps the invariant.
LEMMA LegalKept ==
  ASSUME LegalInv, [Next]_vars  PROVE Legal'
<1>1. ASSUME NEW t \in Threads, ThreadStep(t)  PROVE Legal'
  <2>1. CASE InCall(t)
    BY <2>1, CallLegal DEF InCall, At, thread, main
  <2>2. CASE Found(t)
    <3>1. /\ pc[t] = "call" /\ UNCHANGED <<next, pc, phase, index, created, checked>>
          /\ call' = [call EXCEPT ![t] =
               [List!Idle EXCEPT !.op = "delete", !.at = "getNext", !.temp = call[t].temp]]
      BY <2>2 DEF Found, Returned, At, List!BeginDelete, thread, main
    <3>2. /\ call'[t].op = "delete" /\ call'[Main] = call[Main]
          /\ \A u \in Threads : u # t => call'[u] = call[u]
      <4>1. DOMAIN call = Threads \cup {Main}
        BY ListTypes DEF LegalInv
      <4> QED BY <3>1, <4>1, MainIsNoThread DEF List!Idle
    <3>3. ThreadLegal(t)'
      BY <3>1, <3>2 DEF LegalInv, Legal, ThreadLegal
    <3>4. \A e \in Elms : NotYet(e)' => NotYet(e)
      BY <3>1 DEF NotYet
    <3> QED BY <3>1, <3>2, <3>3, <3>4, LegalKeptBy DEF LegalInv, Legal
  <2>3. CASE Fails(t)
    BY <2>3 DEF Fails, thread, LegalInv, Legal, ThreadLegal, NotYet
  <2> QED BY <1>1, <2>1, <2>2, <2>3, LockItUpLegal, UnlockItUpLegal DEF ThreadStep
<1>2. CASE MainStep
  <2>1. CASE CreateFails \/ Join \/ PrintOut
    BY <2>1 DEF CreateFails, Join, PrintOut, thread, LegalInv, Legal, ThreadLegal, NotYet
  <2>2. CASE CheckBegins \/ CheckEnds
    <3> DEFINE f == [List!Idle EXCEPT !.op = "length", !.at = "first",
                                      !.list = Header(checked), !.elm = List!NULL]
    <3>1. \/ call' = [call EXCEPT ![Main] = List!Idle]
          \/ call' = [call EXCEPT ![Main] = f]
      BY <2>2 DEF CheckBegins, CheckEnds, List!Begin, List!Finish
    <3>2. f.op # "insert" /\ List!Idle.op # "insert"
      BY DEF List!Idle
    <3> HIDE DEF f
    <3>4. call'[Main].op # "insert" /\ \A u \in Threads : call'[u] = call[u]
      BY <3>1, <3>2, ListTypes, MainIsNoThread DEF LegalInv
    <3>3. UNCHANGED <<next, pc, phase, index, created>> /\ checked' \in Nat
      BY <2>2 DEF CheckBegins, CheckEnds, thread, main, LegalInv, Legal
    <3> QED BY <3>3, <3>4 DEF LegalInv, Legal, ThreadLegal, NotYet
  <2>3. CASE CheckRuns
    BY <2>3, CallLegal, MainIsNoThread DEF CheckRuns, thread, main
  <2> QED BY <1>2, <2>1, <2>2, <2>3, CreateLegal DEF MainStep
<1>3. CASE UNCHANGED vars
  BY <1>3 DEF vars, thread, main, LegalInv, Legal, ThreadLegal, NotYet
<1> QED BY <1>1, <1>2, <1>3 DEF Next, Ended

\* The program starts with empty lists and no thread.
LEMMA InitLegal ==
  ASSUME Init  PROVE ListP!IInv /\ Legal
<1>1. ListP!HeapInit
  BY SameInit DEF Init
<1>2. ListP!IInv
  BY <1>1, NodesOK, ListP!InitKeeps
<1>3. \A e \in Elms : next[e] = ListP!NULL
  BY <1>1, NodesOK DEF ListP!HeapInit, ListP!Nodes, ListP!NodesAssumption
<1>4. \A c \in Threads \cup {Main} : call[c] = ListP!Idle
  BY <1>1 DEF ListP!HeapInit
<1>5. ListP!Idle.op # "insert"
  BY DEF ListP!Idle
<1> QED BY <1>2, <1>3, <1>4, <1>5 DEF Init, Legal, ThreadLegal

\* What the program does to the lists is what SortedList allows.
LEMMA SameNext ==
  ASSUME [List!Next]_(List!vars)  PROVE [ListP!Next]_(ListP!vars)
  BY SameSteps DEF List!Next, ListP!Next, List!vars, ListP!vars

\* The threads use the lists legally in every state.
THEOREM LegalInductive == Spec => []LegalInv
<1>1. Init => LegalInv
  BY InitLegal, InitKeeps DEF LegalInv
<1>2. LegalInv /\ [Next]_vars => LegalInv'
  <2> SUFFICES ASSUME LegalInv, [Next]_vars  PROVE LegalInv'
    OBVIOUS
  <2>1. [ListP!Next]_(ListP!vars)
    BY StepIsLegal, SameNext
  <2>2. ListP!IInv'
    BY <2>1, NodesOK, ListP!NextKeeps DEF LegalInv
  <2> QED BY <2>2, LegalKept, NextKeeps DEF LegalInv
<1> QED BY <1>1, <1>2, PTL DEF Spec

\* With and without --sync the program implements the unprotected use of the
\* lists: what is proved of them for any interleaving holds of it.
THEOREM LegalUse == Spec => UsesListLegally
<1>1. Init => List!HeapInit
  BY DEF Init
<1>2. LegalInv /\ [Next]_vars => [List!Next]_(List!vars)
  BY StepIsLegal
<1> QED BY <1>1, <1>2, LegalInductive, PTL DEF Spec, UsesListLegally, List!Spec

\* No list operation of lab2b dereferences NULL, with and without --sync.
THEOREM NeverNull == Spec => []List!NoNullDereference
<1>1. LegalInv => List!NoNullDereference
  <2> SUFFICES ASSUME LegalInv  PROVE List!NoNullDereference
    OBVIOUS
  <2>1. ListP!NoNullDereference
    BY NodesOK, ListP!ReadyIsNotNull DEF LegalInv
  <2> QED BY <2>1 DEF ListP!NoNullDereference, List!NoNullDereference, List!NULL, ListP!NULL,
     List!UsesTemp, List!UsesPred, List!UsesSucc, ListP!UsesTemp, ListP!UsesPred, ListP!UsesSucc,
     List!AfterPred, List!AfterSucc, ListP!AfterPred, ListP!AfterSucc
<1> QED BY <1>1, LegalInductive, PTL

\* With and without --sync the lists of lab2b lead back to their headers.
THEOREM AlwaysClosed == Spec => []List!NeverCut
<1>1. Init => ListP!HeapInit
  BY SameInit DEF Init
<1>2. LegalInv /\ [Next]_vars => [ListP!Next]_(ListP!vars)
  BY StepIsLegal, SameNext
<1>3. ListP!Spec => []ListP!NeverCut
  BY NodesOK, ListP!AlwaysClosed
<1>4. ListP!NeverCut => List!NeverCut
  BY SameContent DEF ListP!NeverCut, List!NeverCut, ListP!Closed, List!Closed
<1> QED BY <1>1, <1>2, <1>3, <1>4, LegalInductive, PTL DEF Spec, ListP!Spec

-----------------------------------------------------------------------------
(* With --sync: at most one call at a time works on a list.                *)

\* main works on a list only when every thread has exited.
MainLast ==
  /\ created \in 0 .. NumThreads /\ joined \in 0 .. NumThreads
  /\ joined > 0 => created = NumThreads
  /\ \A t \in Threads : t < joined => pc[t] = "exited"
  /\ checked \in 0 .. NumLists
  /\ call[Main] # ListP!Idle =>
       joined = NumThreads /\ checked < NumLists /\ call[Main].op = "length"

\* A caller that takes a step in a list operation is in one.
LEMMA StepIsOfCall ==
  ASSUME ListP!IInv, NEW c \in Threads \cup {Main}, ListP!ListStep(c)
  PROVE  /\ call[c] # ListP!Idle
         /\ \A d \in Threads \cup {Main} : d # c => call'[d] = call[d]
         /\ call'[c].op = call[c].op /\ UNCHANGED key
<1>1. ListP!Idle.at = "none"
  BY DEF ListP!Idle
<1>2. call[c].at # "none"
  BY DEF ListP!ListStep, ListP!First, ListP!Advance, ListP!SetNext, ListP!SetPrev,
         ListP!Link, ListP!LinkBack, ListP!LoadPred, ListP!LoadSucc, ListP!TestPrev,
         ListP!TestNext, ListP!Test, ListP!Unlink, ListP!UnlinkBack,
         ListP!LookupEnds, ListP!LengthScan, ListP!AfterPred, ListP!AfterSucc
<1> QED BY <1>1, <1>2, NodesOK, ListP!ListStepLeaves

\* A step of a thread changes the place and the call of no other caller, and
\* brings no thread that has exited back.
LEMMA ThreadChanges ==
  ASSUME LegalInv, NEW t \in Threads, ThreadStep(t)
  PROVE  /\ pc[t] \in {"lock", "call"} /\ UNCHANGED <<created, joined, checked>>
         /\ \A u \in Threads : u # t => pc'[u] = pc[u]
         /\ \A d \in Threads \cup {Main} : d # t => call'[d] = call[d]
<1>1. DOMAIN call = Threads \cup {Main} /\ DOMAIN pc = Threads
  BY ListTypes DEF LegalInv, IInv, ControlOK
<1>2. CASE LockItUp(t)
  <2>1. phase[t] \in {"insert", "length", "delete"}
    BY <1>2 DEF LockItUp, At, LegalInv, IInv, ControlOK
  <2>2. PICK f : call' = [call EXCEPT ![t] = f]
    BY <1>2, <2>1 DEF LockItUp, List!Begin
  <2> QED BY <1>1, <1>2, <2>2 DEF LockItUp, At, main
<1>3. CASE InCall(t)
  BY <1>3, SameSteps, StepIsOfCall DEF InCall, At, thread, main, LegalInv
<1>4. CASE Found(t)
  BY <1>1, <1>4 DEF Found, Returned, At, thread, main, List!BeginDelete
<1>5. CASE Fails(t)
  BY <1>5 DEF Fails, Returned, At, thread
<1>6. CASE UnlockItUp(t)
  BY <1>1, <1>6 DEF UnlockItUp, Returned, At, Enter, List!Finish
<1> QED BY <1>2, <1>3, <1>4, <1>5, <1>6 DEF ThreadStep

\* Every step keeps the order of main's work.
LEMMA MainLastKept ==
  ASSUME LegalInv, MainLast, [Next]_vars  PROVE MainLast'
<1>0. NumThreads \in Nat /\ NumLists \in Nat /\ Main \notin Threads
  BY ArgsAssumption, MainIsNoThread
<1>1. ASSUME NEW t \in Threads, ThreadStep(t)  PROVE MainLast'
  BY <1>0, <1>1, ThreadChanges DEF MainLast
<1>2. CASE Create
  <2>1. /\ created < NumThreads /\ created \in Threads /\ created \in Nat /\ joined = 0
        /\ Enter(created, "insert", created)
        /\ created' = created + 1 /\ UNCHANGED <<call, joined, checked>>
    BY <1>0, <1>2 DEF Create, MainLast, Threads
  <2> QED BY <1>0, <2>1 DEF MainLast, Threads
<1>3. CASE CreateFails \/ PrintOut
  BY <1>3 DEF CreateFails, PrintOut, thread, MainLast
<1>4. CASE Join
  BY <1>0, <1>4 DEF Join, thread, MainLast, Threads
<1>5. CASE CheckBegins
  <2>1. call'[Main].op = "length" /\ joined = NumThreads /\ checked < NumLists
    BY <1>5, ListTypes DEF CheckBegins, List!Begin, List!Idle, LegalInv
  <2> QED BY <1>5, <2>1 DEF CheckBegins, thread, main, MainLast
<1>6. CASE CheckRuns
  <2>1. ListP!ListStep(Main) /\ UNCHANGED <<pc, created, joined, checked>>
    BY <1>6, SameSteps DEF CheckRuns, thread, main
  <2>2. call[Main] # ListP!Idle /\ call'[Main].op = call[Main].op
    BY <2>1, StepIsOfCall DEF LegalInv
  <2> QED BY <2>1, <2>2 DEF MainLast
<1>7. CASE CheckEnds
  <2>1. call[Main] # ListP!Idle /\ call'[Main] = ListP!Idle
    BY <1>7, ListTypes DEF CheckEnds, List!Finish, List!Idle, List!NULL, ListP!Idle, ListP!NULL, LegalInv
  <2>2. checked' \in {checked, checked + 1} /\ UNCHANGED <<pc, created, joined>>
    BY <1>7 DEF CheckEnds, thread
  <2> QED BY <1>0, <2>1, <2>2 DEF MainLast
<1>8. CASE UNCHANGED vars
  BY <1>8 DEF vars, thread, main, MainLast
<1> QED BY <1>1, <1>2, <1>3, <1>4, <1>5, <1>6, <1>7, <1>8 DEF Next, MainStep, Ended

\* The list that a thread or main works on.
On == [c \in Threads \cup {Main} |->
         IF c = Main
           THEN IF call[Main] = ListP!Idle THEN ListP!NULL ELSE Header(checked)
           ELSE IF pc[c] = "call" THEN Header(Sublist(c)) ELSE ListP!NULL]

Lists == { Header(i) : i \in Sublists }

\* The headers of the sublists are different, and none is NULL.
LEMMA ListsAre ==
  /\ ListP!NULL \notin Lists
  /\ \A i, j \in Sublists : Header(i) = Header(j) => i = j
<1>1. NumElms \in Nat /\ NumLists \in Nat
  BY ArgsAssumption DEF NumElms
<1> QED BY <1>1 DEF Lists, Header, Sublists, ListP!NULL

\* Where a caller works.
LEMMA OnIs ==
  ASSUME LegalInv, MainLast
  PROVE  /\ \A t \in Threads : On[t] = IF pc[t] = "call" THEN Header(Sublist(t)) ELSE ListP!NULL
         /\ \A t \in Threads : On[t] \in Lists <=> pc[t] = "call"
         /\ On[Main] = IF call[Main] = ListP!Idle THEN ListP!NULL ELSE Header(checked)
         /\ On[Main] \in Lists <=> call[Main] # ListP!Idle
         /\ \A t \in Threads : On[Main] \in Lists => On[t] \notin Lists
<1>1. /\ \A t \in Threads : On[t] = IF pc[t] = "call" THEN Header(Sublist(t)) ELSE ListP!NULL
      /\ On[Main] = IF call[Main] = ListP!Idle THEN ListP!NULL ELSE Header(checked)
  BY MainIsNoThread DEF On
<1>2. \A t \in Threads : On[t] \in Lists <=> pc[t] = "call"
  BY <1>1, ListsAre, SublistExists DEF Lists, LegalInv, IInv
<1>3. On[Main] \in Lists <=> call[Main] # ListP!Idle
  <2>1. call[Main] # ListP!Idle => checked \in Sublists
    BY ArgsAssumption DEF MainLast, Sublists
  <2> QED BY <1>1, <2>1, ListsAre DEF Lists
<1>4. ASSUME NEW t \in Threads, call[Main] # ListP!Idle  PROVE pc[t] = "exited"
  BY <1>4, ArgsAssumption DEF MainLast, Threads
<1> QED BY <1>1, <1>2, <1>3, <1>4

\* With --sync no two callers work on the same list.
LEMMA Alone ==
  ASSUME LegalInv, MainLast, myLock # "NONE"  PROVE ListP!OneAtATime(On)
<1> SUFFICES ASSUME NEW c \in Threads \cup {Main}, NEW d \in Threads \cup {Main},
                    On[c] \in Lists, On[c] = On[d]
             PROVE  c = d
  BY DEF ListP!OneAtATime, Lists
<1>1. CASE c \in Threads /\ d \in Threads
  <2>1. pc[c] = "call" /\ pc[d] = "call" /\ Header(Sublist(c)) = Header(Sublist(d))
    BY <1>1, OnIs
  <2>2. Sublist(c) = Sublist(d)
    BY <1>1, <2>1, ListsAre, SublistExists DEF LegalInv, IInv
  <2>3. MutualExclusion
    BY DEF LegalInv, IInv, ControlOK, HoldsLock, MutualExclusion
  <2> QED BY <1>1, <2>1, <2>2, <2>3 DEF MutualExclusion
<1>2. CASE c = Main \/ d = Main
  BY <1>2, OnIs
<1> QED BY <1>1, <1>2

\* The two instances of SortedList begin and end calls alike.
LEMMA SameUses ==
  ASSUME NEW c
  PROVE  /\ List!heap = ListP!heap /\ List!NULL = ListP!NULL /\ List!Idle = ListP!Idle
         /\ \A l, e : /\ List!BeginInsert(c, l, e) => ListP!BeginInsert(c, l, e)
                      /\ List!BeginLookup(c, l, e) => ListP!BeginLookup(c, l, e)
                      /\ List!BeginLength(c, l) => ListP!BeginLength(c, l)
         /\ List!DeleteFound(c) => ListP!DeleteFound(c)
         /\ List!Finish(c) => ListP!Finish(c)
         /\ List!Returns(c) => ListP!Returns(c)
  BY DEF List!BeginInsert, List!BeginLookup, List!BeginLength, List!DeleteFound,
       List!Begin, List!BeginDelete, List!Finish, List!Returns, List!Inserting, List!Idle, List!NULL, List!heap,
       ListP!BeginInsert, ListP!BeginLookup, ListP!BeginLength, ListP!DeleteFound,
       ListP!Begin, ListP!BeginDelete, ListP!Finish, ListP!Returns, ListP!Inserting, ListP!Idle, ListP!NULL, ListP!heap

\* Where the callers work after a step.
LEMMA OnAfter ==
  ASSUME NEW on2, on2 = On'
  PROVE  /\ \A t \in Threads : on2[t] = IF pc'[t] = "call" THEN Header(Sublist(t)') ELSE ListP!NULL
         /\ on2[Main] = IF call'[Main] = ListP!Idle THEN ListP!NULL ELSE Header(checked')
  BY MainIsNoThread DEF On, Header, Main

\* A thread takes a lock: nobody works on that list.
LEMMA LockItUpKept ==
  ASSUME LegalInv, MainLast, myLock # "NONE", NEW t \in Threads, LockItUp(t),
         NEW on, on = On, NEW path, NEW size, ListP!Kept(on, path, size), NEW on2, on2 = On'
  PROVE  ListP!Kept(on2, path, size)'
<1>1. PICK l : l = Header(Sublist(t))
  OBVIOUS
<1>2. /\ pc[t] = "lock" /\ pc' = [pc EXCEPT ![t] = "call"] /\ ControlOK
      /\ UNCHANGED <<key, myLock, phase, index, checked>>
      /\ l \in Lists
  BY <1>1, SublistExists DEF LockItUp, At, main, LegalInv, IInv, Lists
<1>3. \A u \in Threads : pc'[u] = IF u = t THEN "call" ELSE pc[u]
  BY <1>2 DEF ControlOK
<1>4. \A u \in Threads : Sublist(u)' = Sublist(u)
  BY <1>2 DEF Sublist
<1>5. on[t] \notin Lists
  BY <1>2, OnIs
<1>6. ASSUME NEW d \in Threads \cup {Main}, on[d] = l  PROVE FALSE
  <2>1. CASE d \in Threads
    <3>1. pc[d] = "call" /\ Header(Sublist(d)) = l /\ d # t
      BY <1>2, <1>6, <2>1, OnIs
    <3>2. Sublist(d) = Sublist(t)
      BY <1>1, <1>2, <2>1, <3>1, ListsAre, SublistExists
    <3>3. IInv'
      BY LockItUpKeeps DEF LegalInv
    <3>4. pc'[d] = "call" /\ pc'[t] = "call" /\ Sublist(d)' = Sublist(t)'
      BY <1>3, <1>4, <2>1, <3>1, <3>2
    <3>5. myLock' \in {"MUTEX", "SPIN"}
      BY <1>2 DEF ControlOK
    <3> QED BY <2>1, <3>1, <3>3, <3>4, <3>5 DEF IInv, HoldsLock
  <2>2. CASE d = Main
    <3>1. call[Main] # ListP!Idle
      BY <1>2, <1>6, <2>2, OnIs
    <3>2. pc[t] = "exited"
      BY <3>1, ArgsAssumption DEF MainLast, Threads
    <3> QED BY <1>2, <3>2
  <2> QED BY <2>1, <2>2
<1>7. on2[t] = l /\ \A d \in Threads \cup {Main} : d # t => on2[d] = on[d]
  <2>1. \A d \in Threads \cup {Main} : d # t => call'[d] = call[d]
    BY ThreadChanges DEF ThreadStep
  <2>2. \A u \in Threads : on2[u] = IF pc'[u] = "call" THEN Header(Sublist(u)) ELSE ListP!NULL
    BY <1>4, OnAfter
  <2>3. on2[Main] = on[Main]
    BY <1>2, <2>1, MainIsNoThread, OnAfter, OnIs
  <2> QED BY <1>1, <1>3, <2>2, <2>3, OnIs
<1>8. /\ UNCHANGED ListP!heap
      /\ \/ \E e \in Elms : ListP!BeginInsert(t, l, e) \/ ListP!BeginLookup(t, l, e)
         \/ ListP!BeginLength(t, l)
  <2>1. UNCHANGED ListP!heap
    BY LockItUpUses DEF List!heap, ListP!heap
  <2>2. CASE phase[t] = "length" /\ List!BeginLength(t, l)
    BY <2>1, <2>2, SameUses
  <2>3. CASE index[t] \in Elms /\ (List!BeginInsert(t, l, index[t]) \/ List!BeginLookup(t, l, index[t]))
    BY <2>1, <2>3, SameUses
  <2> QED BY <1>1, <2>2, <2>3, LockItUpUses
<1>9. ListP!OneAtATime(on)
  BY Alone
<1>10. ListP!IInv
  BY DEF LegalInv
<1> HIDE DEF Lists
<1> QED BY <1>2, <1>5, <1>6, <1>7, <1>8, <1>9, <1>10, NodesOK, ListP!BeginKept DEF Lists

\* The length of a list that is a ring is counted right.
LEMMA LengthIsRight ==
  ASSUME NEW on, NEW path, NEW size, ListP!Kept(on, path, size),
         NEW c \in Threads \cup {Main}, on[c] \in Lists, call[c].at = "return", call[c].op = "length"
  PROVE  /\ call[c].rc = size[on[c]] - 1 /\ call[c].rc \in Nat
         /\ call[c].rc = ListP!Cardinality(ListP!Inner(path[on[c]], size[on[c]]))
<1>1. PICK l, p, n : l \in Lists /\ l = on[c] /\ p = path[l] /\ n = size[l]
  OBVIOUS
<1>2. call[c].rc = n - 1
  BY <1>1, NodesOK, ListP!ReturnIs DEF Lists
<1>3. ListP!Ring(l, p, n)
  BY <1>1 DEF ListP!Kept, Lists
<1>4. n \in Nat \ {0}
  BY <1>3 DEF ListP!Ring
<1>5. ListP!Cardinality(ListP!Inner(p, n)) = n - 1
  BY <1>1, <1>3, NodesOK, ListP!RingSize DEF Lists
<1> QED BY <1>1, <1>2, <1>4, <1>5

\* A thread leaves its list.  It has not found it corrupted.
LEMMA UnlockItUpKept ==
  ASSUME LegalInv, MainLast, myLock # "NONE", NEW t \in Threads, UnlockItUp(t),
         NEW on, on = On, NEW path, NEW size, ListP!Kept(on, path, size), NEW on2, on2 = On'
  PROVE  /\ ListP!Kept(on2, path, size)' /\ pc'[t] # "call"
         /\ Enter(t, phase[t], NextIndex(t)) /\ call' = [call EXCEPT ![t] = ListP!Idle]
         /\ UNCHANGED status
         /\ listLength' = IF phase[t] = "length" THEN [listLength EXCEPT ![t] = @ + call[t].rc]
                                                 ELSE listLength
<1>1. /\ pc[t] = "call" /\ call[t].op = phase[t] /\ call[t].at = "return" /\ ControlOK
      /\ UNCHANGED <<key, next, prev, myLock, checked>> /\ phase[t] # "none" /\ index[t] \in Nat
  BY DEF UnlockItUp, Returned, At, LegalInv, IInv, ControlOK
<1>2. on[t] \in Lists
  BY <1>1, OnIs
<1>3. ~(phase[t] = "length" /\ call[t].rc = -1)
  BY <1>1, <1>2, LengthIsRight
<1>4. /\ Enter(t, phase[t], NextIndex(t)) /\ List!Finish(t) /\ UNCHANGED status
      /\ listLength' = IF phase[t] = "length" THEN [listLength EXCEPT ![t] = @ + call[t].rc]
                                              ELSE listLength
  BY <1>3 DEF UnlockItUp
<1>5. NextIndex(t) \in Nat
  BY <1>1, ArgsAssumption DEF NextIndex
<1>6. /\ pc'[t] # "call"
      /\ \A u \in Threads : u # t => pc'[u] = pc[u] /\ phase'[u] = phase[u] /\ index'[u] = index[u]
  BY <1>1, <1>4, <1>5, EnterControl DEF ControlOK
<1>7. on2[t] \notin Lists /\ \A d \in Threads \cup {Main} : d # t => on2[d] = on[d]
  <2>1. \A d \in Threads \cup {Main} : d # t => call'[d] = call[d]
    BY ThreadChanges DEF ThreadStep
  <2>2. \A u \in Threads : u # t => Sublist(u)' = Sublist(u)
    BY <1>1, <1>6 DEF Sublist
  <2>3. on2[Main] = on[Main]
    BY <1>1, <2>1, MainIsNoThread, OnAfter, OnIs
  <2> QED BY <1>6, <2>2, <2>3, OnAfter, OnIs, ListsAre
<1>8. UNCHANGED ListP!heap
  BY <1>1 DEF ListP!heap
<1>9. ListP!Returns(t) /\ ListP!Finish(t)
  BY <1>1, <1>4, SameUses DEF ListP!Returns
<1>10. ListP!OneAtATime(on) /\ ListP!IInv
  BY Alone DEF LegalInv
<1>11. ListP!Kept(on2, path, size)'
  BY <1>2, <1>7, <1>8, <1>9, <1>10, NodesOK, ListP!FinishKept DEF Lists
<1> QED BY <1>4, <1>6, <1>9, <1>11 DEF ListP!Finish

\* A thread goes on to delete what it has found.
LEMMA DeleteKept ==
  ASSUME LegalInv, MainLast, myLock # "NONE", NEW t \in Threads, Found(t),
         NEW on, on = On, NEW path, NEW size, ListP!Kept(on, path, size), NEW on2, on2 = On'
  PROVE  ListP!Kept(on2, path, size)'
<1>1. /\ pc[t] = "call" /\ UNCHANGED <<key, next, prev, pc, phase, index, checked>>
      /\ List!DeleteFound(t)
  BY DEF Found, Returned, At, thread, main, List!DeleteFound, List!Returns
<1>2. ListP!DeleteFound(t) /\ on[t] \in Lists /\ UNCHANGED ListP!heap
  BY <1>1, SameUses, OnIs DEF ListP!heap
<1>3. ListP!OneAtATime(on) /\ ListP!IInv
  BY Alone DEF LegalInv
<1>4. ListP!Kept(on, path, size)'
  BY <1>2, <1>3, NodesOK, ListP!FoundKept DEF Lists
<1>5. on2 = on
  <2>1. call'[Main] = call[Main]
    BY ThreadChanges, MainIsNoThread DEF ThreadStep
  <2> QED BY <1>1, <2>1 DEF On, Sublist, Header, Main
<1> QED BY <1>4, <1>5

\* main begins to take the length of a list, and ends.
LEMMA CheckBeginsKept ==
  ASSUME LegalInv, MainLast, myLock # "NONE", CheckBegins,
         NEW on, on = On, NEW path, NEW size, ListP!Kept(on, path, size), NEW on2, on2 = On'
  PROVE  ListP!Kept(on2, path, size)'
<1>1. PICK l : l = Header(checked)
  OBVIOUS
<1>2. /\ UNCHANGED <<key, next, prev, pc, phase, index, checked>> /\ call[Main] = ListP!Idle
      /\ joined = NumThreads /\ List!BeginLength(Main, l) /\ List!Begin(Main, "length", l, List!NULL)
      /\ l \in Lists
  BY <1>1, SameUses, ArgsAssumption
     DEF CheckBegins, thread, main, List!BeginLength, MainLast, Lists, Sublists
<1>3. \A t \in Threads : pc[t] # "call"
  BY <1>2, ArgsAssumption DEF MainLast, Threads
<1>4. \A d \in Threads \cup {Main} : on[d] \notin Lists
  BY <1>2, <1>3, OnIs
<1>5. on2[Main] = l /\ \A d \in Threads \cup {Main} : d # Main => on2[d] = on[d]
  <2>1. call'[Main] # ListP!Idle
    <3>1. ListP!Idle.op = "none"
      BY DEF ListP!Idle
    <3>2. call'[Main].op = "length"
      BY <1>2, ListTypes DEF List!Begin, List!Idle, LegalInv
    <3> QED BY <3>1, <3>2
  <2>2. \A u \in Threads : Sublist(u)' = Sublist(u)
    BY <1>2 DEF Sublist
  <2> QED BY <1>1, <1>2, <2>1, <2>2, OnAfter, OnIs
<1>6. ListP!BeginLength(Main, l) /\ UNCHANGED ListP!heap
  BY <1>2, SameUses DEF ListP!heap
<1>7. ListP!OneAtATime(on) /\ ListP!IInv
  BY Alone DEF LegalInv
<1> QED BY <1>2, <1>4, <1>5, <1>6, <1>7, NodesOK, ListP!BeginKept DEF Lists

\* main leaves the list it has checked.
LEMMA CheckEndsKept ==
  ASSUME LegalInv, MainLast, myLock # "NONE", CheckEnds,
         NEW on, on = On, NEW path, NEW size, ListP!Kept(on, path, size), NEW on2, on2 = On'
  PROVE  ListP!Kept(on2, path, size)'
<1>1. /\ UNCHANGED <<key, next, prev, pc, phase, index>>
      /\ ListP!Returns(Main) /\ ListP!Finish(Main)
  BY SameUses DEF CheckEnds, thread, List!Returns
<1>2. call[Main] # ListP!Idle /\ call'[Main] = ListP!Idle /\ \A t \in Threads : call'[t] = call[t]
  BY <1>1, ListTypes, MainIsNoThread DEF ListP!Returns, ListP!Finish, ListP!Idle, LegalInv
<1>3. on[Main] \in Lists
  BY <1>2, OnIs
<1>4. on2[Main] \notin Lists /\ \A d \in Threads \cup {Main} : d # Main => on2[d] = on[d]
  <2>1. \A u \in Threads : Sublist(u)' = Sublist(u)
    BY <1>1 DEF Sublist
  <2> QED BY <1>1, <1>2, <2>1, OnAfter, OnIs, ListsAre
<1>5. UNCHANGED ListP!heap
  BY <1>1 DEF ListP!heap
<1>6. ListP!OneAtATime(on) /\ ListP!IInv
  BY Alone DEF LegalInv
<1> QED BY <1>1, <1>3, <1>4, <1>5, <1>6, NodesOK, ListP!FinishKept DEF Lists

\* A step inside a call: the store of link puts the call's element on the list,
\* that of unlink takes one off, and the others leave all lists as they are.
LEMMA CallKept ==
  ASSUME LegalInv, MainLast, myLock # "NONE", NEW c \in Threads \cup {Main}, List!ListStep(c),
         c \in Threads => pc[c] = "call", UNCHANGED <<pc, phase, index, checked>>,
         NEW on, on = On, NEW path, NEW size, ListP!Kept(on, path, size), NEW on2, on2 = On'
  PROVE  /\ on[c] \in Lists /\ UNCHANGED key
         /\ \A d \in Threads \cup {Main} : d # c => call'[d] = call[d]
         /\ call'[c].op = call[c].op /\ call'[c].elm = call[c].elm
         /\ call[c].op = "delete" => call'[c].temp = call[c].temp
         /\ ListP!Inserts(call'[c]) <=> ListP!Inserts(call[c]) \/ call[c].at = "link"
         /\ ListP!Deletes(call'[c]) <=> ListP!Deletes(call[c]) \/ call[c].at = "unlinkNow"
         /\ \E path2, size2 :
              /\ ListP!Kept(on2, path2, size2)'
              /\ \A k \in Lists : k # on[c] =>
                   ListP!Inner(path2[k], size2[k]) = ListP!Inner(path[k], size[k])
              /\ call[c].at = "link" =>
                   /\ call[c].op = "insert" /\ call[c].elm \in Elms
                   /\ \A k \in Lists : call[c].elm \notin ListP!Inner(path[k], size[k])
                   /\ ListP!Inner(path2[on[c]], size2[on[c]]) =
                        ListP!Inner(path[on[c]], size[on[c]]) \cup {call[c].elm}
              /\ call[c].at = "unlinkNow" =>
                   /\ call[c].op = "delete" /\ call[c].temp \in ListP!Inner(path[on[c]], size[on[c]])
                   /\ ListP!Inner(path2[on[c]], size2[on[c]]) =
                        ListP!Inner(path[on[c]], size[on[c]]) \ {call[c].temp}
              /\ call[c].at \notin {"link", "unlinkNow"} =>
                   ListP!Inner(path2[on[c]], size2[on[c]]) = ListP!Inner(path[on[c]], size[on[c]])
<1>1. ListP!ListStep(c) /\ ListP!IInv /\ ListP!OneAtATime(on)
  BY SameSteps, Alone DEF LegalInv
<1>2. /\ call[c] # ListP!Idle /\ UNCHANGED key /\ call'[c].op = call[c].op
      /\ \A d \in Threads \cup {Main} : d # c => call'[d] = call[d]
  BY <1>1, StepIsOfCall
<1>3. on[c] \in Lists
  BY <1>2, OnIs
<1>4. on2 = on
  <2>1. \A u \in Threads : Sublist(u)' = Sublist(u)
    BY <1>2 DEF Sublist
  <2>2. call'[Main] = ListP!Idle <=> call[Main] = ListP!Idle
    <3>1. CASE c = Main
      <4>1. call[Main].op = "length"
        BY <1>2, <3>1 DEF MainLast
      <4>2. ListP!Idle.op = "none"
        BY DEF ListP!Idle
      <4> QED BY <1>2, <3>1, <4>1, <4>2
    <3>2. CASE c # Main
      BY <1>2, <3>2
    <3> QED BY <3>1, <3>2
  <2>3. \A t \in Threads : on2[t] = on[t]
    BY <2>1, OnAfter, OnIs
  <2>4. on2[Main] = on[Main]
    BY <2>2, OnAfter, OnIs
  <2>5. on = [d \in Threads \cup {Main} |-> on[d]] /\ on2 = [d \in Threads \cup {Main} |-> on2[d]]
    BY DEF On
  <2> QED BY <2>3, <2>4, <2>5
<1>5. PICK path2, size2 :
        /\ ListP!Kept(on, path2, size2)'
        /\ \A k \in Lists : k # on[c] =>
             ListP!Inner(path2[k], size2[k]) = ListP!Inner(path[k], size[k])
        /\ call[c].at = "link" =>
             /\ call[c].op = "insert" /\ call[c].elm \in Elms
             /\ \A k \in Lists : call[c].elm \notin ListP!Inner(path[k], size[k])
             /\ ListP!Inner(path2[on[c]], size2[on[c]]) =
                  ListP!Inner(path[on[c]], size[on[c]]) \cup {call[c].elm}
        /\ call[c].at = "unlinkNow" =>
             /\ call[c].op = "delete" /\ call[c].temp \in ListP!Inner(path[on[c]], size[on[c]])
             /\ ListP!Inner(path2[on[c]], size2[on[c]]) =
                  ListP!Inner(path[on[c]], size[on[c]]) \ {call[c].temp}
        /\ call[c].at \notin {"link", "unlinkNow"} =>
             ListP!Inner(path2[on[c]], size2[on[c]]) = ListP!Inner(path[on[c]], size[on[c]])
  BY <1>1, <1>3, NodesOK, ListP!StepEffect DEF Lists
<1>6. /\ call'[c].elm = call[c].elm
      /\ call[c].op = "delete" => call'[c].temp = call[c].temp
      /\ ListP!Inserts(call'[c]) <=> ListP!Inserts(call[c]) \/ call[c].at = "link"
      /\ ListP!Deletes(call'[c]) <=> ListP!Deletes(call[c]) \/ call[c].at = "unlinkNow"
  <2>1. PICK l, p, n, q, m :
          /\ l \in Lists /\ l = on[c] /\ p = path[l] /\ n = size[l] /\ q = path2[l] /\ m = size2[l]
    BY <1>3
  <2>2. ListP!Works(l, p, n, call[c])
    BY <2>1 DEF ListP!Kept, Lists
  <2>3. ListP!Works(l, q, m, call[c])'
    BY <1>5, <2>1 DEF ListP!Kept, Lists
  <2> QED BY <1>1, <2>1, <2>2, <2>3, NodesOK, ListP!StepLabels DEF Lists
<1> QED BY <1>2, <1>3, <1>4, <1>5, <1>6

\* A step that leaves the lists and calls, and where the threads are.
LEMMA OtherKept ==
  ASSUME LegalInv, MainLast, UNCHANGED <<key, next, prev, call, checked>>,
         \A t \in Threads : \/ pc'[t] = pc[t] /\ phase'[t] = phase[t] /\ index'[t] = index[t]
                            \/ pc[t] # "call" /\ pc'[t] # "call",
         NEW on, on = On, NEW path, NEW size, ListP!Kept(on, path, size), NEW on2, on2 = On'
  PROVE  ListP!Kept(on2, path, size)'
<1>1. on2 = on
  <2>1. ASSUME NEW t \in Threads  PROVE on2[t] = on[t]
    <3>1. CASE pc'[t] = pc[t] /\ phase'[t] = phase[t] /\ index'[t] = index[t]
      <4>1. Sublist(t)' = Sublist(t)
        BY <3>1 DEF Sublist
      <4> QED BY <3>1, <4>1, OnAfter, OnIs
    <3>2. CASE pc[t] # "call" /\ pc'[t] # "call"
      BY <3>2, OnAfter, OnIs
    <3> QED BY <3>1, <3>2
  <2>2. on2[Main] = on[Main]
    BY OnAfter, OnIs
  <2>3. on = [d \in Threads \cup {Main} |-> on[d]] /\ on2 = [d \in Threads \cup {Main} |-> on2[d]]
    BY DEF On
  <2> QED BY <2>1, <2>2, <2>3
<1>2. ListP!Kept(on, path, size)'
  <2>1. UNCHANGED ListP!vars
    BY DEF ListP!vars
  <2> QED BY <2>1, NodesOK, ListP!KeptSame
<1> QED BY <1>1, <1>2

\* No step changes a key.
LEMMA ListKeysKept ==
  ASSUME LegalInv, [List!Next]_(List!vars)  PROVE UNCHANGED key
  BY ListStepKeepsKeys DEF List!Next, List!ClientStep, List!heap, List!vars

\* The other threads stay where they are.
LEMMA OthersStand ==
  ASSUME LegalInv, NEW t \in Threads, ThreadStep(t), NEW u \in Threads, u # t
  PROVE  phase'[u] = phase[u] /\ index'[u] = index[u]
<1>1. CASE LockItUp(t) \/ InCall(t) \/ Found(t) \/ Fails(t)
  BY <1>1 DEF LockItUp, InCall, Found, Fails, thread
<1>2. CASE UnlockItUp(t)
  BY <1>2 DEF UnlockItUp, Enter, LegalInv, IInv, ControlOK
<1> QED BY <1>1, <1>2 DEF ThreadStep

\* main's calls are its own.
LEMMA MainChanges ==
  ASSUME LegalInv, CheckRuns \/ CheckBegins \/ CheckEnds, NEW t \in Threads
  PROVE  call'[t] = call[t]
<1>1. CASE CheckRuns
  BY <1>1, SameSteps, StepIsOfCall, MainIsNoThread DEF CheckRuns, LegalInv
<1>2. CASE CheckBegins \/ CheckEnds
  BY <1>2, ListTypes, MainIsNoThread DEF CheckBegins, CheckEnds, List!Begin, List!Finish, LegalInv
<1> QED BY <1>1, <1>2

\* Every list is a ring, and a thread or main works on it or its links are right.
Guarded == \E on, path, size : on = On /\ ListP!Kept(on, path, size)

\* A thread in a loop body makes the calls of that loop, for its element.
CallFits(t) ==
  /\ pc[t] \in {"none", "exited"} => phase[t] = "none"
  /\ pc[t] = "call" =>
       /\ phase[t] = "insert" => call[t].op = "insert" /\ call[t].elm = index[t]
       /\ phase[t] = "length" => call[t].op = "length"
       /\ phase[t] = "delete" =>
            \/ call[t].op = "lookup" /\ call[t].elm = index[t]
            \/ /\ call[t].op = "delete" /\ call[t].temp \in Elms
               /\ key[call[t].temp] = key[index[t]]

\* The invariant of the runs with --sync.
SafeInv ==
  /\ LegalInv /\ MainLast
  /\ myLock # "NONE" => Guarded /\ \A t \in Threads : CallFits(t)

\* main's steps other than its calls, and a thread that ends the program.
LEMMA RestKept ==
  ASSUME LegalInv, MainLast,
         \/ Create \/ CreateFails \/ Join \/ PrintOut \/ UNCHANGED vars
         \/ \E t \in Threads : Fails(t),
         NEW on, on = On, NEW path, NEW size, ListP!Kept(on, path, size), NEW on2, on2 = On'
  PROVE  /\ ListP!Kept(on2, path, size)' /\ UNCHANGED <<key, next, prev, call, checked>>
         /\ \A t \in Threads : \/ pc'[t] = pc[t] /\ phase'[t] = phase[t] /\ index'[t] = index[t]
                               \/ pc[t] # "call" /\ pc'[t] # "call"
<1>1. CASE Create
  <2>1. created \in Threads /\ created \in Nat /\ pc[created] = "none" /\ ControlOK
    BY <1>1, ArgsAssumption DEF Create, MainLast, Threads, LegalInv, Legal, ThreadLegal, IInv
  <2>2. Enter(created, "insert", created) /\ UNCHANGED <<key, next, prev, call, checked>>
    BY <1>1 DEF Create
  <2>3. \A t \in Threads : \/ pc'[t] = pc[t] /\ phase'[t] = phase[t] /\ index'[t] = index[t]
                           \/ pc[t] # "call" /\ pc'[t] # "call"
    BY <2>1, <2>2, EnterControl
  <2> QED BY <2>2, <2>3, OtherKept
<1>2. CASE CreateFails \/ Join \/ PrintOut \/ UNCHANGED vars \/ \E t \in Threads : Fails(t)
  <2>1. UNCHANGED <<key, next, prev, call, checked, pc, phase, index>>
    BY <1>2 DEF CreateFails, Join, PrintOut, Fails, vars, thread, main
  <2> QED BY <2>1, OtherKept
<1> QED BY <1>1, <1>2

\* Every step keeps the lists.
LEMMA GuardedKept ==
  ASSUME SafeInv, myLock # "NONE", [Next]_vars  PROVE Guarded'
<1>1. PICK on, path, size : on = On /\ ListP!Kept(on, path, size)
  BY DEF SafeInv, Guarded
<1>2. PICK on2 : on2 = On'
  OBVIOUS
<1>3. \E path2, size2 : ListP!Kept(on2, path2, size2)'
  <2>1. ASSUME NEW t \in Threads, ThreadStep(t)
        PROVE  \E path2, size2 : ListP!Kept(on2, path2, size2)'
    <3>1. CASE InCall(t)
      BY <1>1, <1>2, <3>1, CallKept DEF InCall, At, thread, main, SafeInv
    <3>2. CASE LockItUp(t)
      BY <1>1, <1>2, <3>2, LockItUpKept DEF SafeInv
    <3>3. CASE UnlockItUp(t)
      BY <1>1, <1>2, <3>3, UnlockItUpKept DEF SafeInv
    <3>4. CASE Found(t)
      BY <1>1, <1>2, <3>4, DeleteKept DEF SafeInv
    <3>5. CASE Fails(t)
      BY <1>1, <1>2, <3>5, RestKept DEF SafeInv
    <3> QED BY <2>1, <3>1, <3>2, <3>3, <3>4, <3>5 DEF ThreadStep
  <2>2. CASE CheckRuns
    BY <1>1, <1>2, <2>2, CallKept, MainIsNoThread DEF CheckRuns, thread, main, SafeInv
  <2>3. CASE CheckBegins
    BY <1>1, <1>2, <2>3, CheckBeginsKept DEF SafeInv
  <2>4. CASE CheckEnds
    BY <1>1, <1>2, <2>4, CheckEndsKept DEF SafeInv
  <2>5. CASE Create \/ CreateFails \/ Join \/ PrintOut \/ UNCHANGED vars
    BY <1>1, <1>2, <2>5, RestKept DEF SafeInv
  <2> QED BY <2>1, <2>2, <2>3, <2>4, <2>5 DEF Next, MainStep, Ended
<1> QED BY <1>2, <1>3 DEF Guarded

\* Every step keeps what the threads' calls are for.
LEMMA CallsFitKept ==
  ASSUME SafeInv, myLock # "NONE", [Next]_vars  PROVE \A t \in Threads : CallFits(t)'
<1>0. PICK on, path, size : on = On /\ ListP!Kept(on, path, size)
  BY DEF SafeInv, Guarded
<1>1. PICK on2 : on2 = On'
  OBVIOUS
<1>2. UNCHANGED key
  BY StepIsLegal, ListKeysKept DEF SafeInv
<1>3. \A u \in Threads : pc'[u] = pc[u] /\ phase'[u] = phase[u] /\ index'[u] = index[u]
        /\ call'[u] = call[u] => CallFits(u)'
  BY <1>2 DEF CallFits, SafeInv
<1>5. ASSUME NEW t \in Threads, ThreadStep(t)  PROVE \A u \in Threads : CallFits(u)'
  <2>1. \A u \in Threads : u # t => CallFits(u)'
    <3>1. \A u \in Threads : u # t =>
            pc'[u] = pc[u] /\ phase'[u] = phase[u] /\ index'[u] = index[u] /\ call'[u] = call[u]
      BY <1>5, OthersStand, ThreadChanges DEF SafeInv
    <3> QED BY <1>3, <3>1
  <2>2. CASE InCall(t)
    <3>1. /\ call'[t].op = call[t].op /\ call'[t].elm = call[t].elm
          /\ call[t].op = "delete" => call'[t].temp = call[t].temp
          /\ UNCHANGED <<pc, phase, index>>
      BY <1>0, <1>1, <2>2, CallKept DEF InCall, At, thread, main, SafeInv
    <3>2. CallFits(t)'
      BY <1>2, <3>1 DEF CallFits, SafeInv
    <3> QED BY <2>1, <3>2
  <2>3. CASE LockItUp(t)
    <3>1. /\ phase[t] \in {"insert", "length", "delete"} /\ DOMAIN call = Threads \cup {Main}
          /\ UNCHANGED <<phase, index>> /\ pc'[t] = "call"
      BY <2>3, ListTypes DEF LockItUp, At, SafeInv, LegalInv, IInv, ControlOK
    <3>2. PICK o, l, e : /\ call'[t] = [List!Idle EXCEPT !.op = o, !.at = "first", !.list = l, !.elm = e]
                         /\ phase[t] = "insert" => o = "insert" /\ e = index[t]
                         /\ phase[t] = "length" => o = "length"
                         /\ phase[t] = "delete" => o = "lookup" /\ e = index[t]
      <4>1. PICK o, l, e : /\ List!Begin(t, o, l, e)
                           /\ phase[t] = "insert" => o = "insert" /\ e = index[t]
                           /\ phase[t] = "length" => o = "length"
                           /\ phase[t] = "delete" => o = "lookup" /\ e = index[t]
        BY <2>3, <3>1 DEF LockItUp
      <4>2. call'[t] = [List!Idle EXCEPT !.op = o, !.at = "first", !.list = l, !.elm = e]
        BY <3>1, <4>1 DEF List!Begin
      <4> QED BY <4>1, <4>2
    <3>3. call'[t].op = o /\ call'[t].elm = e
      BY <3>2 DEF List!Idle
    <3>4. CallFits(t)'
      BY <3>1, <3>2, <3>3 DEF CallFits
    <3> QED BY <2>1, <3>4
  <2>4. CASE UnlockItUp(t)
    <3>1. Enter(t, phase[t], NextIndex(t))
      BY <1>0, <1>1, <2>4, UnlockItUpKept DEF SafeInv
    <3>2. /\ ControlOK /\ NextIndex(t) \in Nat /\ phase[t] \in {"insert", "length", "delete"}
      BY <2>4, ArgsAssumption DEF UnlockItUp, Returned, At, NextIndex, SafeInv, LegalInv, IInv, ControlOK
    <3>3. CallFits(t)'
      BY <3>1, <3>2, EnterPlaces DEF CallFits
    <3> QED BY <2>1, <3>3
  <2>5. CASE Found(t)
    <3>1. /\ pc[t] = "call" /\ call[t].op = "lookup" /\ call[t].at = "return" /\ call[t].temp # ListP!NULL
          /\ UNCHANGED <<pc, phase, index>>
          /\ call' = [call EXCEPT ![t] =
               [List!Idle EXCEPT !.op = "delete", !.at = "getNext", !.temp = call[t].temp]]
      BY <2>5, SameUses DEF Found, Returned, At, thread, List!BeginDelete
    <3>2. phase[t] = "delete" /\ call[t].elm = index[t]
      BY <3>1 DEF SafeInv, CallFits, LegalInv, IInv, ControlOK
    <3>3. call[t].temp \in Elms /\ key[call[t].temp] = key[index[t]]
      <4>1. on[t] \in Lists
        BY <1>0, <3>1, OnIs DEF SafeInv
      <4>2. PICK l, p, n : l \in Lists /\ l = on[t] /\ p = path[l] /\ n = size[l]
        BY <4>1
      <4>3. call[t].temp \in ListP!Inner(p, n) /\ key[call[t].temp] = key[call[t].elm]
        BY <1>0, <3>1, <4>1, <4>2, NodesOK, ListP!ReturnIs DEF Lists
      <4>4. ListP!Ring(l, p, n)
        BY <1>0, <4>2 DEF ListP!Kept, Lists
      <4> QED BY <3>2, <4>3, <4>4 DEF ListP!Ring, ListP!Inner
    <3>4. call'[t].op = "delete" /\ call'[t].temp = call[t].temp
      BY <3>1, ListTypes DEF List!Idle, SafeInv, LegalInv
    <3>5. CallFits(t)'
      BY <1>2, <3>1, <3>2, <3>3, <3>4 DEF CallFits
    <3> QED BY <2>1, <3>5
  <2>6. CASE Fails(t)
    BY <1>3, <2>6 DEF Fails, thread
  <2> QED BY <1>5, <2>2, <2>3, <2>4, <2>5, <2>6 DEF ThreadStep
<1>6. CASE CheckRuns \/ CheckBegins \/ CheckEnds
  <2>1. \A t \in Threads : call'[t] = call[t]
    BY <1>6, MainChanges DEF SafeInv
  <2>2. UNCHANGED <<pc, phase, index>>
    BY <1>6 DEF CheckRuns, CheckBegins, CheckEnds, thread
  <2> QED BY <1>3, <2>1, <2>2
<1>7. CASE CreateFails \/ Join \/ PrintOut \/ UNCHANGED vars
  BY <1>3, <1>7 DEF CreateFails, Join, PrintOut, vars, thread
<1>8. CASE Create
  <2>1. PICK t \in Threads : t = created /\ t \in Nat /\ ControlOK
    BY <1>8, ArgsAssumption DEF Create, Threads, SafeInv, MainLast, LegalInv, IInv
  <2>2. Enter(t, "insert", t) /\ UNCHANGED call
    BY <1>8, <2>1 DEF Create
  <2>3. CallFits(t)'
    BY <2>1, <2>2, EnterPlaces DEF CallFits
  <2>4. \A u \in Threads : u # t => CallFits(u)'
    BY <1>3, <2>1, <2>2, EnterControl
  <2> QED BY <2>3, <2>4
<1> QED BY <1>5, <1>6, <1>7, <1>8 DEF Next, MainStep, Ended

\* The way to protect the lists is chosen at the start.
LEMMA MyLockFixed ==
  ASSUME [Next]_vars  PROVE UNCHANGED myLock
  BY DEF Next, ThreadStep, MainStep, Ended, LockItUp, InCall, Found, Fails, UnlockItUp, Create,
       CreateFails, Join, CheckBegins, CheckRuns, CheckEnds, PrintOut, vars, locks

\* The program starts with empty lists and nobody working on them.
LEMMA InitSafe ==
  ASSUME Init  PROVE SafeInv
<1>1. LegalInv
  BY InitLegal, InitKeeps DEF LegalInv
<1>2. ListP!HeapInit
  BY SameInit DEF Init
<1>3. MainLast
  BY <1>2, ArgsAssumption DEF Init, MainLast, ListP!HeapInit, Threads
<1>4. PICK on : on = On
  OBVIOUS
<1>5. \A c \in Threads \cup {Main} : on[c] \notin Lists
  BY <1>1, <1>2, <1>3, <1>4, OnIs DEF Init, ListP!HeapInit
<1>6. ListP!Protected(on)
  BY <1>2, <1>5, NodesOK, ListP!InitKept DEF Lists
<1>7. Guarded
  BY <1>4, <1>6 DEF Guarded, ListP!Protected
<1>8. \A t \in Threads : CallFits(t)
  BY DEF Init, CallFits
<1> QED BY <1>1, <1>3, <1>7, <1>8 DEF SafeInv

\* SafeInv is an inductive invariant.
THEOREM SafeInductive == Spec => []SafeInv
<1>1. Init => SafeInv
  BY InitSafe
<1>2. SafeInv /\ LegalInv' /\ [Next]_vars => SafeInv'
  BY MainLastKept, GuardedKept, CallsFitKept, MyLockFixed DEF SafeInv
<1> QED BY <1>1, <1>2, LegalInductive, PTL DEF Spec

\* What a list contains are the elements of its ring.
LEMMA ContentIsInner ==
  ASSUME NEW on, NEW path, NEW size, ListP!Kept(on, path, size), NEW i \in Sublists
  PROVE  List!Content(Header(i)) = ListP!Inner(path[Header(i)], size[Header(i)])
<1>1. PICK l, p, n : l \in Lists /\ l = Header(i) /\ p = path[l] /\ n = size[l]
  BY DEF Lists
<1>2. ListP!Ring(l, p, n) /\ \E S : ListP!Linked(p, n, S)
  BY <1>1, NodesOK, ListP!KeptLinked DEF Lists
<1>3. ListP!Content(l) = ListP!Inner(p, n)
  BY <1>1, <1>2, NodesOK, ListP!ContentIs DEF Lists
<1> QED BY <1>1, <1>3, SameContent

\* With --sync a list that no thread works on is sorted and linked both ways.
THEOREM QuietSound == Spec => []QuietListsSound
<1>1. SafeInv => QuietListsSound
  <2> SUFFICES ASSUME SafeInv, myLock # "NONE", NEW i \in Sublists, Quiet(i)
               PROVE  List!Sound(Header(i))
    BY DEF QuietListsSound
  <2>1. PICK on, path, size : on = On /\ ListP!Kept(on, path, size)
    BY DEF SafeInv, Guarded
  <2>2. PICK l, p, n : l \in Lists /\ l = Header(i) /\ p = path[l] /\ n = size[l]
    BY DEF Lists
  <2>3. ListP!Ring(l, p, n)
    BY <2>1, <2>2 DEF ListP!Kept, Lists
  <2>4. \A t \in Threads : on[t] # l
    BY <2>1, <2>2, OnIs, ListsAre, SublistExists DEF Quiet, SafeInv, LegalInv, IInv
  <2>5. ListP!Linked(p, n, {})
    <3>1. CASE on[Main] = l
      <4>1. call[Main].op = "length"
        BY <2>1, <2>2, <3>1, OnIs DEF MainLast, SafeInv
      <4>2. ListP!Works(l, p, n, call[Main])
        BY <2>1, <2>2, <3>1 DEF ListP!Kept, Lists
      <4>3. ListP!Behind(call[Main]) = {}
        BY <4>1, <4>2 DEF ListP!Works, ListP!Stands, ListP!InsertAt, ListP!LookupAt,
           ListP!LengthAt, ListP!DeleteAt, ListP!Behind
      <4> QED BY <4>2, <4>3 DEF ListP!Works
    <3>2. CASE on[Main] # l
      BY <2>1, <2>2, <2>4, <3>2 DEF ListP!Kept, Lists
    <3> QED BY <3>1, <3>2
  <2>6. ListP!Sound(l)
    BY <2>2, <2>3, <2>5, NodesOK, ListP!RingIsSound DEF Lists, SafeInv, LegalInv
  <2> QED BY <2>2, <2>6, SameContent DEF ListP!Sound, List!Sound
<1> QED BY <1>1, SafeInductive, PTL

-----------------------------------------------------------------------------
(* What the calls do to the lists, taken as one set.                       *)

\* The elements of a thread, and where a loop stands among them.
LEMMA OwnElements ==
  ASSUME NEW t \in Threads, NEW e \in Elms, e % NumThreads = t
  PROVE  /\ t \in Nat /\ e \in Nat /\ NumThreads \in Nat /\ NumThreads > 0
         /\ t <= e /\ t < NumElms /\ e < NumElms /\ NumElms \in Nat
         /\ \A i \in Nat : i % NumThreads = t => (e < i + NumThreads <=> e <= i)
<1>1. /\ t \in Nat /\ e \in Nat /\ NumThreads \in Nat /\ NumThreads > 0 /\ NumElms \in Nat
      /\ e < NumElms /\ t < NumThreads
  BY OwnerIs, ArgsAssumption DEF Threads, Elms, NumElms
<1>2. t % NumThreads = t
  BY <1>1
<1>3. t <= e
  BY <1>1, <1>2, NodesOK, ListP!NextOfClass
<1>4. ASSUME NEW i \in Nat, i % NumThreads = t  PROVE e < i + NumThreads <=> e <= i
  <2>1. i < e <=> i + NumThreads <= e
    BY <1>1, <1>4, NodesOK, ListP!NextOfClass
  <2>2. e < i <=> e + NumThreads <= i
    BY <1>1, <1>4, NodesOK, ListP!NextOfClass
  <2> QED BY <1>1, <2>1, <2>2
<1> QED BY <1>1, <1>3, <1>4

\* Which loop a thread goes on to, and when.
LEMMA EnterTo ==
  ASSUME ControlOK, NEW t \in Threads, NEW p \in {"insert", "length", "delete"},
         NEW i \in Nat, Enter(t, p, i)
  PROVE  \/ /\ IF p = "length" THEN i < NumLists ELSE i < NumElms
            /\ pc'[t] = "lock" /\ phase'[t] = p /\ index'[t] = i
         \/ /\ p = "insert" /\ i >= NumElms
            /\ pc'[t] = "lock" /\ phase'[t] = "length" /\ index'[t] = 0
         \/ /\ p = "length" /\ i >= NumLists /\ t < NumElms
            /\ pc'[t] = "lock" /\ phase'[t] = "delete" /\ index'[t] = t
         \/ /\ \/ p = "length" /\ i >= NumLists /\ t >= NumElms
               \/ p = "delete" /\ i >= NumElms
            /\ pc'[t] = "exited" /\ phase'[t] = "none" /\ index'[t] = 0
<1> DEFINE more == IF p = "length" THEN i < NumLists ELSE i < NumElms
           place == CASE more -> <<"lock", p, i>>
                      [] p = "insert" /\ ~more -> <<"lock", "length", 0>>
                      [] p = "length" /\ ~more /\ t < NumElms -> <<"lock", "delete", t>>
                      [] OTHER -> <<"exited", "none", 0>>
<1>0. t \in Nat /\ NumLists \in Nat /\ NumElms \in Nat
  BY ArgsAssumption DEF Threads, NumElms
<1>1. \/ more /\ place = <<"lock", p, i>>
      \/ ~more /\ p = "insert" /\ place = <<"lock", "length", 0>>
      \/ ~more /\ p = "length" /\ t < NumElms /\ place = <<"lock", "delete", t>>
      \/ ~more /\ (p = "length" => ~(t < NumElms)) /\ p # "insert" /\ place = <<"exited", "none", 0>>
  OBVIOUS
<1>2. /\ pc' = [pc EXCEPT ![t] = place[1]]
      /\ phase' = [phase EXCEPT ![t] = place[2]]
      /\ index' = [index EXCEPT ![t] = place[3]]
  BY DEF Enter
<1> HIDE DEF place
<1>3. pc'[t] = place[1] /\ phase'[t] = place[2] /\ index'[t] = place[3]
  BY <1>2 DEF ControlOK
<1>4. CASE more /\ place = <<"lock", p, i>>
  BY <1>3, <1>4
<1>5. CASE ~more /\ p = "insert" /\ place = <<"lock", "length", 0>>
  <2>1. i >= NumElms
    BY <1>0, <1>5
  <2> QED BY <1>3, <1>5, <2>1
<1>6. CASE ~more /\ p = "length" /\ t < NumElms /\ place = <<"lock", "delete", t>>
  <2>1. i >= NumLists
    BY <1>0, <1>6
  <2> QED BY <1>3, <1>6, <2>1
<1>7. CASE /\ ~more /\ (p = "length" => ~(t < NumElms)) /\ p # "insert"
           /\ place = <<"exited", "none", 0>>
  <2>1. \/ p = "length" /\ i >= NumLists /\ t >= NumElms
        \/ p = "delete" /\ i >= NumElms
    BY <1>0, <1>7
  <2> QED BY <1>3, <1>7, <2>1
<1> QED BY <1>1, <1>4, <1>5, <1>6, <1>7

\* Thread t has linked its element e; it has unlinked an element for e.
HasInserted(t, e) ==
  \/ phase[t] = "insert" /\ e < index[t]
  \/ phase[t] = "insert" /\ e = index[t] /\ call[t].at \in {"linkBack", "return"}
  \/ phase[t] \in {"length", "delete"} \/ pc[t] = "exited"

HasDeleted(t, e) ==
  \/ phase[t] = "delete" /\ e < index[t]
  \/ phase[t] = "delete" /\ e = index[t] /\ ListP!Deletes(call[t])
  \/ pc[t] = "exited"

\* An element is inserted, or deleted for, when its thread has done so.
LEMMA InsertedBy ==
  ASSUME NEW e \in Elms
  PROVE  /\ e \in Inserted <=> HasInserted(e % NumThreads, e)
         /\ e \in DeletedFor <=> HasDeleted(e % NumThreads, e)
         /\ e \in Inserted' <=> HasInserted(e % NumThreads, e)'
         /\ e \in DeletedFor' <=> HasDeleted(e % NumThreads, e)'
  BY DEF Inserted, DeletedFor, HasInserted, HasDeleted, ListP!Deletes

\* A thread that enters a loop has done what it had done when its last iteration
\* ended: everything up to its element.
LEMMA EnterProgress ==
  ASSUME ControlOK, NEW t \in Threads, NEW p \in {"insert", "length", "delete"},
         NEW i \in Nat, (i % NumThreads = t \/ p = "length"), Enter(t, p, i),
         call'[t] = ListP!Idle, NEW e \in Elms, e % NumThreads = t
  PROVE  /\ HasInserted(t, e)' <=> p # "insert" \/ e < i
         /\ HasDeleted(t, e)' <=> p = "delete" /\ e < i
<1>1. call'[t].at = "none" /\ ~ListP!Deletes(call[t])'
  BY DEF ListP!Idle, ListP!Deletes
<1>2. t <= e /\ t < NumElms /\ e < NumElms /\ t \in Nat /\ e \in Nat /\ NumElms \in Nat
  BY OwnElements
<1> QED BY <1>1, <1>2, EnterTo DEF HasInserted, HasDeleted

\* A step of thread t: with the store of link it has inserted the element it has
\* come to, with that of unlink it has deleted for it, and all other steps leave
\* what is done as it is.
LEMMA ThreadProgress ==
  ASSUME SafeInv, myLock # "NONE", NEW t \in Threads, ThreadStep(t),
         NEW e \in Elms, e % NumThreads = t
  PROVE  /\ HasInserted(t, e)' <=> HasInserted(t, e) \/ (call[t].at = "link" /\ e = index[t])
         /\ HasDeleted(t, e)' <=> HasDeleted(t, e) \/ (call[t].at = "unlinkNow" /\ e = index[t])
<1>0. PICK on, path, size : on = On /\ ListP!Kept(on, path, size)
  BY DEF SafeInv, Guarded
<1>1. PICK on2 : on2 = On'
  OBVIOUS
<1>2. /\ ControlOK /\ ThreadLegal(t) /\ CallFits(t) /\ DOMAIN call = Threads \cup {Main}
      /\ index[t] \in Nat /\ phase[t] \in {"none", "insert", "length", "delete"}
      /\ e \in Nat
  BY ListTypes, OwnElements DEF SafeInv, LegalInv, IInv, Legal, ControlOK
<1>3. CASE LockItUp(t)
  <2>1. /\ pc[t] = "lock" /\ pc'[t] = "call" /\ UNCHANGED <<phase, index>>
    BY <1>2, <1>3 DEF LockItUp, At, ControlOK
  <2>2. call[t] = ListP!Idle /\ phase[t] \in {"insert", "length", "delete"}
    BY <1>2, <2>1 DEF ThreadLegal, ControlOK
  <2>3. PICK o, l, x : List!Begin(t, o, l, x) /\ o # "delete"
    <3> DEFINE k == Sublist(t)
    <3>1. CASE phase[t] = "insert"
      <4>1. List!Begin(t, "insert", Header(k), index[t])
        BY <1>3, <3>1 DEF LockItUp
      <4> QED BY <4>1
    <3>2. CASE phase[t] = "length"
      <4>1. List!Begin(t, "length", Header(k), List!NULL)
        BY <1>3, <3>2 DEF LockItUp
      <4> QED BY <4>1
    <3>3. CASE phase[t] = "delete"
      <4>1. List!Begin(t, "lookup", Header(k), index[t])
        BY <1>3, <3>3 DEF LockItUp
      <4> QED BY <4>1
    <3> QED BY <2>2, <3>1, <3>2, <3>3
  <2>4. PICK f : /\ f = [List!Idle EXCEPT !.op = o, !.at = "first", !.list = l, !.elm = x]
                 /\ call'[t] = f
    BY <1>2, <2>3 DEF List!Begin
  <2>5. f.at = "first" /\ f.op # "delete"
    BY <2>3, <2>4 DEF List!Idle
  <2>6. call[t].at = "none" /\ call[t].op = "none"
    BY <2>2 DEF ListP!Idle
  <2> QED BY <2>1, <2>4, <2>5, <2>6 DEF HasInserted, HasDeleted, ListP!Deletes
<1>4. CASE InCall(t)
  <2>1. pc[t] = "call" /\ UNCHANGED <<pc, phase, index>>
    BY <1>4 DEF InCall, At, thread
  <2>2. /\ call'[t].op = call[t].op
        /\ ListP!Inserts(call'[t]) <=> ListP!Inserts(call[t]) \/ call[t].at = "link"
        /\ ListP!Deletes(call'[t]) <=> ListP!Deletes(call[t]) \/ call[t].at = "unlinkNow"
        /\ call[t].at = "link" => call[t].op = "insert"
        /\ call[t].at = "unlinkNow" => call[t].op = "delete"
    BY <1>0, <1>1, <1>4, CallKept DEF InCall, At, thread, main, SafeInv
  <2>3. /\ phase[t] = "insert" <=> call[t].op = "insert"
        /\ call[t].op = "delete" => phase[t] = "delete"
        /\ phase[t] = "delete" => call[t].op \in {"lookup", "delete"}
    BY <1>2, <2>1 DEF CallFits, ControlOK
  <2>4. HasInserted(t, e)' <=> HasInserted(t, e) \/ (call[t].at = "link" /\ e = index[t])
    BY <2>1, <2>2, <2>3 DEF HasInserted, ListP!Inserts
  <2>5. HasDeleted(t, e)' <=> HasDeleted(t, e) \/ (call[t].at = "unlinkNow" /\ e = index[t])
    BY <2>1, <2>2, <2>3 DEF HasDeleted
  <2> QED BY <2>4, <2>5
<1>5. CASE Found(t)
  <2>1. /\ pc[t] = "call" /\ call[t].op = "lookup" /\ call[t].at = "return"
        /\ UNCHANGED <<pc, phase, index>>
        /\ call' = [call EXCEPT ![t] =
             [List!Idle EXCEPT !.op = "delete", !.at = "getNext", !.temp = call[t].temp]]
    BY <1>5 DEF Found, Returned, At, thread, List!BeginDelete
  <2>2. call'[t].op = "delete" /\ call'[t].at = "getNext"
    BY <1>2, <2>1 DEF List!Idle
  <2>3. phase[t] = "delete"
    BY <1>2, <2>1 DEF CallFits, ControlOK
  <2> QED BY <2>1, <2>2, <2>3 DEF HasInserted, HasDeleted, ListP!Deletes
<1>6. CASE Fails(t)
  <2>1. UNCHANGED <<call, pc, phase, index>> /\ call[t].at = "return"
    BY <1>6 DEF Fails, Returned, thread
  <2> QED BY <2>1 DEF HasInserted, HasDeleted, ListP!Deletes
<1>7. CASE UnlockItUp(t)
  <2>1. /\ pc[t] = "call" /\ call[t].op = phase[t] /\ call[t].at = "return"
        /\ phase[t] = "delete" => call[t].rc = 0
    BY <1>7 DEF UnlockItUp, Returned, At
  <2>2. Enter(t, phase[t], NextIndex(t)) /\ call'[t] = ListP!Idle
    BY <1>0, <1>1, <1>2, <1>7, UnlockItUpKept DEF SafeInv
  <2>3. phase[t] \in {"insert", "length", "delete"}
    BY <1>2, <2>1 DEF ControlOK
  <2>4. /\ NumThreads \in Nat /\ NumThreads > 0
        /\ index[t] % NumThreads = t => (e < index[t] + NumThreads <=> e <= index[t])
    BY <1>2, OwnElements
  <2>5. /\ NextIndex(t) \in Nat /\ (NextIndex(t) % NumThreads = t \/ phase[t] = "length")
        /\ phase[t] # "length" => NextIndex(t) = index[t] + NumThreads /\ index[t] % NumThreads = t
    <3>1. CASE phase[t] = "length"
      BY <1>2, <3>1 DEF NextIndex
    <3>2. CASE phase[t] \in {"insert", "delete"}
      <4>1. NextIndex(t) = index[t] + NumThreads /\ index[t] % NumThreads = t
        BY <1>2, <3>2 DEF NextIndex, ThreadLegal
      <4>2. NextIndex(t) % NumThreads = t
        BY <1>2, <2>4, <4>1, NodesOK, ListP!SameRemainder
      <4>3. NextIndex(t) \in Nat
        BY <1>2, <2>4, <4>1
      <4> QED BY <4>1, <4>2, <4>3
    <3> QED BY <2>3, <3>1, <3>2
  <2>6. /\ HasInserted(t, e)' <=> phase[t] # "insert" \/ e < NextIndex(t)
        /\ HasDeleted(t, e)' <=> phase[t] = "delete" /\ e < NextIndex(t)
    BY <1>2, <2>2, <2>3, <2>5, EnterProgress
  <2>7. /\ HasInserted(t, e) <=> phase[t] # "insert" \/ e <= index[t]
        /\ HasDeleted(t, e) <=> phase[t] = "delete" /\ e <= index[t]
    BY <1>2, <2>1, <2>3 DEF HasInserted, HasDeleted, ListP!Deletes
  <2> QED BY <2>1, <2>4, <2>5, <2>6, <2>7
<1> QED BY <1>3, <1>4, <1>5, <1>6, <1>7 DEF ThreadStep

\* The elements on sublist i.
Contents(i) == List!Content(Header(i))

\* They are the elements of the ring, before a step and after it.
LEMMA ContentsAre ==
  /\ \A on, path, size : \A i \in Sublists : ListP!Kept(on, path, size) =>
       Contents(i) = ListP!Inner(path[Header(i)], size[Header(i)])
  /\ (\A on, path, size : \A i \in Sublists : ListP!Kept(on, path, size) =>
       Contents(i) = ListP!Inner(path[Header(i)], size[Header(i)]))'
<1>1. \A on, path, size : \A i \in Sublists : ListP!Kept(on, path, size) =>
         Contents(i) = ListP!Inner(path[Header(i)], size[Header(i)])
  BY ContentIsInner DEF Contents
<1> QED BY <1>1, PTL

\* The same after a step, for rings given before it.
LEMMA ContentsAfter ==
  ASSUME NEW on, NEW path, NEW size, ListP!Kept(on, path, size)', NEW i \in Sublists
  PROVE  Contents(i)' = ListP!Inner(path[Header(i)], size[Header(i)])
<1>1. Contents(i)' = ListP!Inner(path[Header(i)], size[Header(i)])'
  BY ContentsAre
<1> QED BY <1>1 DEF ListP!Inner, Header

\* A step that keeps the rings keeps the contents.
LEMMA SameRings ==
  ASSUME NEW on, NEW on2, NEW path, NEW size, ListP!Kept(on, path, size),
         ListP!Kept(on2, path, size)'
  PROVE  \A j \in Sublists : Contents(j)' = Contents(j)
<1> SUFFICES ASSUME NEW j \in Sublists  PROVE Contents(j)' = Contents(j)
  OBVIOUS
<1>1. PICK l, p, n : l = Header(j) /\ p = path[l] /\ n = size[l]
  OBVIOUS
<1>2. Contents(j) = ListP!Inner(p, n)
  BY <1>1, ContentsAre
<1>3. Contents(j)' = ListP!Inner(p, n)
  BY <1>1, ContentsAfter
<1> QED BY <1>2, <1>3

\* The steps that are not inside a call leave the contents as they are.
LEMMA OutsideCalls ==
  ASSUME SafeInv, myLock # "NONE",
         \/ \E t \in Threads : LockItUp(t) \/ UnlockItUp(t) \/ Found(t) \/ Fails(t)
         \/ MainStep \/ UNCHANGED vars
  PROVE  \A j \in Sublists : Contents(j)' = Contents(j)
<1>1. PICK on, path, size : on = On /\ ListP!Kept(on, path, size)
  BY DEF SafeInv, Guarded
<1>2. PICK on2 : on2 = On'
  OBVIOUS
<1>3. ASSUME NEW t \in Threads, LockItUp(t) \/ UnlockItUp(t) \/ Found(t) \/ Fails(t)
      PROVE  ListP!Kept(on2, path, size)'
  <2>1. CASE LockItUp(t)
    BY <1>1, <1>2, <2>1, LockItUpKept DEF SafeInv
  <2>2. CASE UnlockItUp(t)
    BY <1>1, <1>2, <2>2, UnlockItUpKept DEF SafeInv
  <2>3. CASE Found(t)
    BY <1>1, <1>2, <2>3, DeleteKept DEF SafeInv
  <2>4. CASE Fails(t)
    BY <1>1, <1>2, <2>4, RestKept DEF SafeInv
  <2> QED BY <1>3, <2>1, <2>2, <2>3, <2>4
<1>4. CASE CheckBegins
  BY <1>1, <1>2, <1>4, CheckBeginsKept, SameRings DEF SafeInv
<1>5. CASE CheckEnds
  BY <1>1, <1>2, <1>5, CheckEndsKept, SameRings DEF SafeInv
<1>6. CASE Create \/ CreateFails \/ Join \/ PrintOut \/ UNCHANGED vars
  BY <1>1, <1>2, <1>6, RestKept, SameRings DEF SafeInv
<1>7. CASE CheckRuns
  <2>1. /\ on[Main] \in Lists
        /\ call[Main].at \in {"link", "unlinkNow"} => call[Main].op \in {"insert", "delete"}
        /\ \E path2, size2 :
             /\ ListP!Kept(on2, path2, size2)'
             /\ \A k \in Lists : k # on[Main] =>
                  ListP!Inner(path2[k], size2[k]) = ListP!Inner(path[k], size[k])
             /\ call[Main].at \notin {"link", "unlinkNow"} =>
                  ListP!Inner(path2[on[Main]], size2[on[Main]]) = ListP!Inner(path[on[Main]], size[on[Main]])
    BY <1>1, <1>2, <1>7, CallKept, MainIsNoThread DEF CheckRuns, thread, main, SafeInv
  <2>2. call[Main].op = "length"
    BY <1>1, <2>1, OnIs DEF SafeInv, MainLast
  <2>3. PICK path2, size2 :
          /\ ListP!Kept(on2, path2, size2)'
          /\ \A k \in Lists : ListP!Inner(path2[k], size2[k]) = ListP!Inner(path[k], size[k])
    BY <2>1, <2>2
  <2>4. ASSUME NEW j \in Sublists  PROVE Contents(j)' = Contents(j)
    <3>1. PICK l, p, n, q, m : /\ l = Header(j) /\ l \in Lists /\ p = path[l] /\ n = size[l]
                               /\ q = path2[l] /\ m = size2[l]
      BY DEF Lists
    <3>2. Contents(j) = ListP!Inner(p, n)
      BY <1>1, <3>1, ContentsAre
    <3>3. Contents(j)' = ListP!Inner(q, m)
      BY <2>3, <3>1, ContentsAfter
    <3> QED BY <2>3, <3>1, <3>2, <3>3
  <2> QED BY <2>4
<1> QED BY <1>1, <1>3, <1>4, <1>5, <1>6, <1>7, SameRings DEF MainStep

\* Element e is linked on list i; element x of list i is unlinked for e.
Puts(e, i) ==
  /\ i = hash[key[e]] % NumLists
  /\ e \in Elms \ Inserted /\ \A j \in Sublists : e \notin Contents(j)
  /\ Inserted' = Inserted \cup {e} /\ UNCHANGED DeletedFor
  /\ Contents(i)' = Contents(i) \cup {e}
  /\ \A j \in Sublists : j # i => Contents(j)' = Contents(j)

Takes(e, x, i) ==
  /\ i = hash[key[e]] % NumLists
  /\ e \in Inserted \ DeletedFor
  /\ x \in Contents(i) /\ key[x] = key[e]
  /\ UNCHANGED Inserted /\ DeletedFor' = DeletedFor \cup {e}
  /\ Contents(i)' = Contents(i) \ {x}
  /\ \A j \in Sublists : j # i => x \notin Contents(j) /\ Contents(j)' = Contents(j)

Rests == UNCHANGED <<Inserted, DeletedFor>> /\ \A j \in Sublists : Contents(j)' = Contents(j)

\* A step inside a call.
LEMMA CallEffect ==
  ASSUME SafeInv, myLock # "NONE", NEW t \in Threads, InCall(t)
  PROVE  \E i \in Sublists :
    /\ i = Sublist(t) /\ UNCHANGED key
    /\ call[t].at = "link" =>
         /\ phase[t] = "insert" /\ index[t] \in Elms
         /\ \A j \in Sublists : index[t] \notin Contents(j)
         /\ Contents(i)' = Contents(i) \cup {index[t]}
    /\ call[t].at = "unlinkNow" =>
         /\ phase[t] = "delete" /\ index[t] \in Elms /\ call[t].temp \in Contents(i)
         /\ call[t].temp \in Elms /\ key[call[t].temp] = key[index[t]]
         /\ Contents(i)' = Contents(i) \ {call[t].temp}
         /\ \A j \in Sublists : j # i => call[t].temp \notin Contents(j)
    /\ call[t].at \notin {"link", "unlinkNow"} => Contents(i)' = Contents(i)
    /\ \A j \in Sublists : j # i => Contents(j)' = Contents(j)
<1>1. PICK on, path, size : on = On /\ ListP!Kept(on, path, size)
  BY DEF SafeInv, Guarded
<1>2. PICK on2 : on2 = On'
  OBVIOUS
<1>3. pc[t] = "call" /\ List!ListStep(t) /\ UNCHANGED <<pc, phase, index, checked>>
  BY DEF InCall, At, thread, main
<1>4. CallFits(t) /\ ControlOK /\ phase[t] \in {"insert", "length", "delete"}
  BY <1>3 DEF SafeInv, LegalInv, IInv, ControlOK
<1>5. PICK i, l, p, n : /\ i = Sublist(t) /\ i \in Sublists /\ l = Header(i) /\ l \in Lists /\ l = on[t]
                        /\ p = path[l] /\ n = size[l]
  BY <1>1, <1>3, <1>4, SublistExists, OnIs DEF Lists, SafeInv
<1>6. UNCHANGED key /\ \E path2, size2 :
        /\ ListP!Kept(on2, path2, size2)'
        /\ \A k \in Lists : k # on[t] =>
             ListP!Inner(path2[k], size2[k]) = ListP!Inner(path[k], size[k])
        /\ call[t].at = "link" =>
             /\ call[t].op = "insert" /\ call[t].elm \in Elms
             /\ \A k \in Lists : call[t].elm \notin ListP!Inner(path[k], size[k])
             /\ ListP!Inner(path2[on[t]], size2[on[t]]) =
                  ListP!Inner(path[on[t]], size[on[t]]) \cup {call[t].elm}
        /\ call[t].at = "unlinkNow" =>
             /\ call[t].op = "delete" /\ call[t].temp \in ListP!Inner(path[on[t]], size[on[t]])
             /\ ListP!Inner(path2[on[t]], size2[on[t]]) =
                  ListP!Inner(path[on[t]], size[on[t]]) \ {call[t].temp}
        /\ call[t].at \notin {"link", "unlinkNow"} =>
             ListP!Inner(path2[on[t]], size2[on[t]]) = ListP!Inner(path[on[t]], size[on[t]])
  BY <1>1, <1>2, <1>3, CallKept DEF SafeInv
<1>7. PICK path2, size2 :
        /\ ListP!Kept(on2, path2, size2)'
        /\ \A k \in Lists : k # l =>
             ListP!Inner(path2[k], size2[k]) = ListP!Inner(path[k], size[k])
        /\ call[t].at = "link" =>
             /\ call[t].op = "insert" /\ call[t].elm \in Elms
             /\ \A k \in Lists : call[t].elm \notin ListP!Inner(path[k], size[k])
             /\ ListP!Inner(path2[l], size2[l]) = ListP!Inner(p, n) \cup {call[t].elm}
        /\ call[t].at = "unlinkNow" =>
             /\ call[t].op = "delete" /\ call[t].temp \in ListP!Inner(p, n)
             /\ ListP!Inner(path2[l], size2[l]) = ListP!Inner(p, n) \ {call[t].temp}
        /\ call[t].at \notin {"link", "unlinkNow"} =>
             ListP!Inner(path2[l], size2[l]) = ListP!Inner(p, n)
  BY <1>5, <1>6
<1>8. ASSUME NEW j \in Sublists
      PROVE  /\ Header(j) \in Lists /\ (Header(j) = l <=> j = i)
             /\ Contents(j) = ListP!Inner(path[Header(j)], size[Header(j)])
             /\ Contents(j)' = ListP!Inner(path2[Header(j)], size2[Header(j)])
  <2>1. Header(j) \in Lists /\ (Header(j) = l <=> j = i)
    BY <1>5, ListsAre DEF Lists
  <2>2. PICK k, q, m, r, o : /\ k = Header(j) /\ q = path[k] /\ m = size[k]
                             /\ r = path2[k] /\ o = size2[k]
    OBVIOUS
  <2>3. Contents(j) = ListP!Inner(q, m)
    BY <1>1, <2>2, ContentsAre
  <2>4. Contents(j)' = ListP!Inner(r, o)
    BY <1>7, <2>2, ContentsAfter
  <2> QED BY <2>1, <2>2, <2>3, <2>4
<1>9. /\ phase[t] = "insert" <=> call[t].op = "insert"
      /\ call[t].op = "insert" => call[t].elm = index[t]
      /\ call[t].op = "delete" => /\ phase[t] = "delete" /\ call[t].temp \in Elms
                                  /\ key[call[t].temp] = key[index[t]]
  BY <1>3, <1>4 DEF CallFits
<1>10. phase[t] \in {"insert", "delete"} => index[t] \in Elms
  <2>1. NumElms \in Nat /\ index[t] \in Nat
    BY <1>4, ArgsAssumption DEF ControlOK, NumElms
  <2> QED BY <1>3, <1>4, <2>1 DEF ControlOK, Elms
<1>11. ASSUME call[t].at = "unlinkNow", NEW j \in Sublists, j # i  PROVE call[t].temp \notin Contents(j)
  <2>1. PICK k, q, m : k = Header(j) /\ q = path[k] /\ m = size[k] /\ k \in Lists /\ k # l
    BY <1>5, <1>8, <1>11
  <2>2. ListP!Inner(q, m) \cap ListP!Inner(p, n) = {}
    BY <1>1, <1>5, <2>1 DEF ListP!Kept, Lists
  <2> QED BY <1>7, <1>8, <1>11, <2>1, <2>2
<1> QED BY <1>5, <1>6, <1>7, <1>8, <1>9, <1>10, <1>11

\* A step of main changes nothing of what the threads have done.
LEMMA MainProgress ==
  ASSUME SafeInv, myLock # "NONE", MainStep \/ UNCHANGED vars
  PROVE  UNCHANGED <<Inserted, DeletedFor>>
<1>1. ASSUME NEW t \in Threads, pc'[t] = pc[t] /\ phase'[t] = phase[t] /\ index'[t] = index[t],
             call'[t] = call[t], NEW e
      PROVE  (HasInserted(t, e)' <=> HasInserted(t, e)) /\ (HasDeleted(t, e)' <=> HasDeleted(t, e))
  BY <1>1 DEF HasInserted, HasDeleted, ListP!Deletes
<1>2. CASE \A t \in Threads : /\ pc'[t] = pc[t] /\ phase'[t] = phase[t] /\ index'[t] = index[t]
                              /\ call'[t] = call[t]
  <2>1. ASSUME NEW e \in Elms
        PROVE  (e \in Inserted' <=> e \in Inserted) /\ (e \in DeletedFor' <=> e \in DeletedFor)
    BY <1>1, <1>2, OwnerIs, InsertedBy
  <2> QED BY <2>1 DEF Inserted, DeletedFor
<1>3. CASE Create
  <2>1. PICK t \in Threads : t = created /\ t \in Nat /\ ControlOK
    BY <1>3, ArgsAssumption DEF Create, Threads, SafeInv, MainLast, LegalInv, IInv
  <2>2. Enter(t, "insert", t) /\ UNCHANGED call
    BY <1>3, <2>1 DEF Create
  <2>3. pc[t] = "none" /\ call[t] = ListP!Idle /\ phase[t] = "none"
    BY <2>1 DEF SafeInv, LegalInv, Legal, ThreadLegal, CallFits
  <2>4. ASSUME NEW e \in Elms, e % NumThreads = t
        PROVE  (HasInserted(t, e)' <=> HasInserted(t, e)) /\ (HasDeleted(t, e)' <=> HasDeleted(t, e))
    <3>1. t % NumThreads = t /\ t <= e /\ e \in Nat
      <4>1. t \in Nat /\ e \in Nat /\ NumThreads \in Nat /\ t < NumThreads /\ t <= e
        BY <2>4, OwnElements DEF Threads
      <4> QED BY <4>1
    <3>2. ~HasInserted(t, e)' /\ ~HasDeleted(t, e)'
      BY <2>1, <2>2, <2>3, <2>4, <3>1, EnterProgress
    <3> QED BY <2>3, <3>2 DEF HasInserted, HasDeleted
  <2>5. ASSUME NEW e \in Elms
        PROVE  (e \in Inserted' <=> e \in Inserted) /\ (e \in DeletedFor' <=> e \in DeletedFor)
    <3>1. PICK u \in Threads : u = e % NumThreads
      BY OwnerIs
    <3>2. CASE u # t
      <4>1. pc'[u] = pc[u] /\ phase'[u] = phase[u] /\ index'[u] = index[u] /\ call'[u] = call[u]
        BY <2>1, <2>2, <3>2, EnterControl
      <4> QED BY <1>1, <3>1, <4>1, InsertedBy
    <3> QED BY <2>4, <3>1, <3>2, InsertedBy
  <2> QED BY <2>5 DEF Inserted, DeletedFor
<1>4. CASE CheckRuns \/ CheckBegins \/ CheckEnds
  <2>1. \A t \in Threads : call'[t] = call[t]
    BY <1>4, MainChanges DEF SafeInv
  <2>2. UNCHANGED <<pc, phase, index>>
    BY <1>4 DEF CheckRuns, CheckBegins, CheckEnds, thread
  <2> QED BY <1>2, <2>1, <2>2
<1>5. CASE CreateFails \/ Join \/ PrintOut \/ UNCHANGED vars
  BY <1>2, <1>5 DEF CreateFails, Join, PrintOut, vars, thread
<1> QED BY <1>3, <1>4, <1>5 DEF MainStep

\* What a step of thread t does to the elements inserted and deleted for.
LEMMA ThreadSets ==
  ASSUME SafeInv, myLock # "NONE", NEW t \in Threads, ThreadStep(t)
  PROVE  /\ \A e : e \in Inserted' <=>
              e \in Inserted \/ (e \in Elms /\ e % NumThreads = t /\ call[t].at = "link" /\ e = index[t])
         /\ \A e : e \in DeletedFor' <=>
              \/ e \in DeletedFor
              \/ e \in Elms /\ e % NumThreads = t /\ call[t].at = "unlinkNow" /\ e = index[t]
<1>1. ASSUME NEW e \in Elms
      PROVE  /\ e \in Inserted' <=>
                  e \in Inserted \/ (e % NumThreads = t /\ call[t].at = "link" /\ e = index[t])
             /\ e \in DeletedFor' <=>
                  e \in DeletedFor \/ (e % NumThreads = t /\ call[t].at = "unlinkNow" /\ e = index[t])
  <2>1. PICK u \in Threads : u = e % NumThreads
    BY OwnerIs
  <2>2. CASE u = t
    BY <2>1, <2>2, ThreadProgress, InsertedBy
  <2>3. CASE u # t
    <3>1. pc'[u] = pc[u] /\ phase'[u] = phase[u] /\ index'[u] = index[u] /\ call'[u] = call[u]
      BY <2>3, OthersStand, ThreadChanges DEF SafeInv
    <3>2. /\ HasInserted(u, e)' <=> HasInserted(u, e)
          /\ HasDeleted(u, e)' <=> HasDeleted(u, e)
      BY <3>1 DEF HasInserted, HasDeleted, ListP!Deletes
    <3> QED BY <2>1, <2>3, <3>2, InsertedBy
  <2> QED BY <2>2, <2>3
<1>2. /\ Inserted \subseteq Elms /\ DeletedFor \subseteq Elms
      /\ \A e : e \in Inserted' => e \in Elms
      /\ \A e : e \in DeletedFor' => e \in Elms
  BY DEF Inserted, DeletedFor
<1> QED BY <1>1, <1>2

\* What a step does to the lists and to what the threads have done.
LEMMA Effect ==
  ASSUME SafeInv, myLock # "NONE", [Next]_vars
  PROVE  \/ \E i \in Sublists, e \in Elms : Puts(e, i)
         \/ \E i \in Sublists, e, x \in Elms : Takes(e, x, i)
         \/ Rests
<1>1. ASSUME NEW t \in Threads, InCall(t)
      PROVE  \/ \E i \in Sublists, e \in Elms : Puts(e, i)
             \/ \E i \in Sublists, e, x \in Elms : Takes(e, x, i)
             \/ Rests
  <2>1. PICK i \in Sublists :
          /\ i = Sublist(t)
          /\ call[t].at = "link" =>
               /\ phase[t] = "insert" /\ index[t] \in Elms
               /\ \A j \in Sublists : index[t] \notin Contents(j)
               /\ Contents(i)' = Contents(i) \cup {index[t]}
          /\ call[t].at = "unlinkNow" =>
               /\ phase[t] = "delete" /\ index[t] \in Elms /\ call[t].temp \in Contents(i)
               /\ call[t].temp \in Elms /\ key[call[t].temp] = key[index[t]]
               /\ Contents(i)' = Contents(i) \ {call[t].temp}
               /\ \A j \in Sublists : j # i => call[t].temp \notin Contents(j)
          /\ call[t].at \notin {"link", "unlinkNow"} => Contents(i)' = Contents(i)
          /\ \A j \in Sublists : j # i => Contents(j)' = Contents(j)
    BY <1>1, CallEffect
  <2>2. PICK e, x : e = index[t] /\ x = call[t].temp
    OBVIOUS
  <2>3. pc[t] = "call" /\ ThreadLegal(t) /\ CallFits(t) /\ e \in Nat
    BY <1>1, <2>2 DEF InCall, At, SafeInv, LegalInv, Legal, IInv, ControlOK
  <2>4. phase[t] \in {"insert", "delete"} => i = hash[key[e]] % NumLists /\ e % NumThreads = t
    BY <2>1, <2>2, <2>3 DEF Sublist, ThreadLegal
  <2>5. /\ \A d : d \in Inserted' <=>
             d \in Inserted \/ (d \in Elms /\ d % NumThreads = t /\ call[t].at = "link" /\ d = index[t])
        /\ \A d : d \in DeletedFor' <=>
             \/ d \in DeletedFor
             \/ d \in Elms /\ d % NumThreads = t /\ call[t].at = "unlinkNow" /\ d = index[t]
    BY <1>1, ThreadSets DEF ThreadStep
  <2>6. CASE call[t].at = "link"
    <3>1. e \in Elms /\ e % NumThreads = t /\ phase[t] = "insert"
      BY <2>1, <2>2, <2>4, <2>6
    <3>2. e \notin Inserted
      <4>1. ~HasInserted(t, e)
        BY <2>2, <2>3, <2>6, <3>1 DEF HasInserted
      <4> QED BY <3>1, <4>1, InsertedBy
    <3>3. Inserted' = Inserted \cup {e} /\ DeletedFor' = DeletedFor
      BY <2>2, <2>5, <2>6, <3>1
    <3>4. Puts(e, i)
      BY <2>1, <2>2, <2>4, <2>6, <3>1, <3>2, <3>3 DEF Puts
    <3> QED BY <3>1, <3>4
  <2>7. CASE call[t].at = "unlinkNow"
    <3>1. e \in Elms /\ e % NumThreads = t /\ phase[t] = "delete" /\ x \in Elms
      BY <2>1, <2>2, <2>4, <2>7
    <3>2. e \in Inserted /\ e \notin DeletedFor
      <4>1. HasInserted(t, e) /\ ~HasDeleted(t, e)
        BY <2>2, <2>3, <2>7, <3>1 DEF HasInserted, HasDeleted, ListP!Deletes
      <4> QED BY <3>1, <4>1, InsertedBy
    <3>3. Inserted' = Inserted /\ DeletedFor' = DeletedFor \cup {e}
      BY <2>2, <2>5, <2>7, <3>1
    <3>4. Takes(e, x, i)
      BY <2>1, <2>2, <2>4, <2>7, <3>1, <3>2, <3>3 DEF Takes
    <3> QED BY <3>1, <3>4
  <2>8. CASE call[t].at \notin {"link", "unlinkNow"}
    <3>1. Inserted' = Inserted /\ DeletedFor' = DeletedFor
      BY <2>5, <2>8
    <3> QED BY <2>1, <2>8, <3>1 DEF Rests
  <2> QED BY <2>6, <2>7, <2>8
<1>2. ASSUME NEW t \in Threads, LockItUp(t) \/ UnlockItUp(t) \/ Found(t) \/ Fails(t)  PROVE Rests
  <2>1. call[t].at \notin {"link", "unlinkNow"}
    <3>1. CASE LockItUp(t)
      BY <3>1 DEF LockItUp, At, SafeInv, LegalInv, Legal, ThreadLegal, ListP!Idle
    <3>2. CASE UnlockItUp(t) \/ Found(t) \/ Fails(t)
      BY <3>2 DEF UnlockItUp, Found, Fails, Returned
    <3> QED BY <1>2, <3>1, <3>2
  <2>2. Inserted' = Inserted /\ DeletedFor' = DeletedFor
    BY <1>2, <2>1, ThreadSets DEF ThreadStep
  <2> QED BY <1>2, <2>2, OutsideCalls DEF Rests
<1>3. CASE MainStep \/ UNCHANGED vars
  BY <1>3, MainProgress, OutsideCalls DEF Rests
<1> QED BY <1>1, <1>2, <1>3 DEF Next, ThreadStep, Ended

\* An element is on the list of its key.
InPlace ==
  \A i \in Sublists : \A e \in Contents(i) : e \in Elms /\ hash[key[e]] % NumLists = i

\* The elements on the lists.
All == UNION { Contents(i) : i \in Sublists }

\* Linking an element on a list is an insertion into the set.
LEMMA PutsIsInsert ==
  ASSUME NEW i \in Sublists, NEW e \in Elms, Puts(e, i), UNCHANGED key,
         DeletedFor \subseteq Inserted
  PROVE  Set!Insert(e)
<1>1. All' = All \cup {e}
  <2>1. ASSUME NEW x, x \in All'  PROVE x \in All \cup {e}
    <3>1. PICK j \in Sublists : x \in Contents(j)'
      BY <2>1 DEF All, Sublists
    <3> QED BY <3>1 DEF Puts, All
  <2>2. ASSUME NEW x, x \in All \cup {e}  PROVE x \in All'
    <3>1. CASE x = e
      BY <3>1 DEF Puts, All, Sublists
    <3>2. CASE x # e
      <4>1. PICK j \in Sublists : x \in Contents(j)
        BY <2>2, <3>2 DEF All
      <4>2. x \in Contents(j)'
        BY <4>1 DEF Puts
      <4> QED BY <4>1, <4>2 DEF All, Sublists
    <3> QED BY <3>1, <3>2
  <2> QED BY <2>1, <2>2
<1>2. /\ e \in Elms \ Inserted /\ e \notin DeletedFor
      /\ (Elms \ Inserted)' = (Elms \ Inserted) \ {e}
      /\ (Inserted \ DeletedFor)' = (Inserted \ DeletedFor) \cup {e}
  BY DEF Puts, Elms, NumElms
<1> QED BY <1>1, <1>2 DEF Set!Insert, All, Contents

\* Unlinking an element of a list is a deletion from the set.
LEMMA TakesIsDelete ==
  ASSUME NEW i \in Sublists, NEW e \in Elms, NEW x \in Elms, Takes(e, x, i), UNCHANGED key
  PROVE  Set!Delete(e, x)
<1>1. All' = All \ {x}
  <2>1. ASSUME NEW y, y \in All'  PROVE y \in All \ {x}
    <3>1. PICK j \in Sublists : y \in Contents(j)'
      BY <2>1 DEF All, Sublists
    <3> QED BY <3>1 DEF Takes, All
  <2>2. ASSUME NEW y, y \in All \ {x}  PROVE y \in All'
    <3>1. PICK j \in Sublists : y \in Contents(j)
      BY <2>2 DEF All
    <3>2. y \in Contents(j)'
      BY <2>2, <3>1 DEF Takes
    <3> QED BY <3>1, <3>2 DEF All, Sublists
  <2> QED BY <2>1, <2>2
<1>2. /\ e \in Inserted \ DeletedFor /\ x \in All /\ key[x] = key[e]
      /\ (Elms \ Inserted)' = Elms \ Inserted
      /\ (Inserted \ DeletedFor)' = (Inserted \ DeletedFor) \ {e}
  BY DEF Takes, Elms, NumElms, All
<1> QED BY <1>1, <1>2 DEF Set!Delete, Set!WithKey, All, Contents

\* An element that is deleted for was inserted.
LEMMA DeletedAreInserted == DeletedFor \subseteq Inserted
  BY DEF DeletedFor, Inserted

\* At the start no list holds an element and no thread has done anything.
LEMMA InitContents ==
  ASSUME Init
  PROVE  /\ \A i \in Sublists : Contents(i) = {}
         /\ Inserted = {} /\ DeletedFor = {}
<1>1. ASSUME NEW i \in Sublists  PROVE Contents(i) = {}
  <2>1. PICK l, p : l = Header(i) /\ l \in Lists /\ l \in ListP!Nodes /\ p = [n \in Nat |-> l]
    BY DEF Lists, ListP!Nodes
  <2>2. l \notin Elms /\ next[l] = l /\ prev[l] = l
    BY <2>1, NodesOK, SameInit DEF Init, ListP!HeapInit, Lists, ListP!NodesAssumption
  <2>3. ListP!Ring(l, p, 1) /\ ListP!Linked(p, 1, {}) /\ ListP!Inner(p, 1) = {}
    BY <2>1, <2>2 DEF ListP!Ring, ListP!Linked, ListP!Inner
  <2> QED BY <2>1, <2>3, NodesOK, ListP!ContentIs, SameContent DEF Contents, Lists
<1>2. \A e \in Elms : ~HasInserted(e % NumThreads, e) /\ ~HasDeleted(e % NumThreads, e)
  BY OwnerIs DEF HasInserted, HasDeleted, Init
<1> QED BY <1>1, <1>2, InsertedBy DEF Inserted, DeletedFor

\* The program starts where ListSet does.
LEMMA InitAtomic ==
  ASSUME Init  PROVE Set!Init
<1>1. All = {}
  BY InitContents DEF All
<1>2. key \in [Elms -> Keys]
  BY InitSafe DEF SafeInv, LegalInv, IInv, ControlOK
<1> QED BY <1>1, <1>2, InitContents DEF Set!Init, All, Contents

\* With --sync every insertion, and every pair of a lookup and a deletion, takes
\* effect in one step: the store that links or unlinks the element.
THEOREM Atomic == Spec => CallsAreAtomic
<1>1. Init => (myLock # "NONE" => Set!Init)
  BY InitAtomic
<1>2. SafeInv /\ [Next]_vars => [myLock # "NONE" => Set!Next]_(Set!vars)
  <2> SUFFICES ASSUME SafeInv, [Next]_vars, myLock # "NONE"
               PROVE  Set!Next \/ UNCHANGED Set!vars
    OBVIOUS
  <2>1. UNCHANGED key
    BY StepIsLegal, ListKeysKept DEF SafeInv
  <2>2. ASSUME NEW i \in Sublists, NEW e \in Elms, Puts(e, i)  PROVE Set!Next
    BY <2>1, <2>2, PutsIsInsert, DeletedAreInserted DEF Set!Next
  <2>3. ASSUME NEW i \in Sublists, NEW e \in Elms, NEW x \in Elms, Takes(e, x, i)  PROVE Set!Next
    BY <2>1, <2>3, TakesIsDelete DEF Set!Next
  <2>4. CASE Rests
    <3>1. All' = All
      BY <2>4 DEF Rests, All, Sublists
    <3>2. (Elms \ Inserted)' = Elms \ Inserted /\ (Inserted \ DeletedFor)' = Inserted \ DeletedFor
      BY <2>4 DEF Rests, Elms, NumElms
    <3> QED BY <2>1, <3>1, <3>2 DEF Set!vars, All, Contents
  <2> QED BY <2>2, <2>3, <2>4, Effect
<1> QED BY <1>1, <1>2, SafeInductive, PTL DEF Spec, CallsAreAtomic

-----------------------------------------------------------------------------
(* With --sync none of the program's checks on its lists fails.            *)

\* Each list holds elements that hash to it, and the lists together as many
\* elements of each key as there are elements still to delete one for.
DataOK == InPlace /\ Set!TypeOK /\ Set!Balanced

DataInv == SafeInv /\ (myLock # "NONE" => DataOK)

\* The instances of FiniteSets count alike.
LEMMA SameCounting ==
  /\ \A S : ListP!IsFiniteSet(S) <=> IsFiniteSet(S)
  /\ \A S : Set!Cardinality(S) = Cardinality(S) /\ ListP!Cardinality(S) = Cardinality(S)
<1>1. \A S : ListP!IsFiniteSet(S) <=> IsFiniteSet(S)
  BY DEF ListP!IsFiniteSet, IsFiniteSet
<1>2. \A S : Set!Cardinality(S) = Cardinality(S) /\ ListP!Cardinality(S) = Cardinality(S)
  BY DEF Set!Cardinality, ListP!Cardinality, Cardinality
<1> QED BY <1>1, <1>2

\* There are finitely many elements.
LEMMA ElmsFinite == IsFiniteSet(Elms)
  BY NodesOK, SameCounting DEF ListP!NodesAssumption

\* The elements whose owner has still to delete one.
Pending == Inserted \ DeletedFor

\* Balanced means the same of the set and of the elements on the lists.
LEMMA BalancedIs == Set!Balanced <=> ListP!Balanced(All, Pending)
<1>1. \A S : Set!Cardinality(S) = ListP!Cardinality(S)
  BY SameCounting
<1>2. \A S, k : Set!WithKey(S, k) = ListP!WithKey(S, k)
  BY DEF Set!WithKey, ListP!WithKey
<1> QED BY <1>1, <1>2 DEF Set!Balanced, ListP!Balanced, All, Contents, Pending

\* The same after a step that keeps the keys.
LEMMA BalancedAfter ==
  ASSUME UNCHANGED key, NEW C, NEW P, C = All', P = Pending', ListP!Balanced(C, P)
  PROVE  Set!Balanced'
<1>1. (Set!Balanced <=> ListP!Balanced(All, Pending))'
  BY BalancedIs, PTL
<1>2. ListP!Balanced(All, Pending)'
  BY DEF ListP!Balanced, ListP!WithKey
<1> QED BY <1>1, <1>2

\* An insertion keeps the lists balanced: the element is there and its owner
\* has still to delete one.
LEMMA InsertBalanced ==
  ASSUME Set!TypeOK, Set!Balanced, NEW e \in Elms, Set!Insert(e)  PROVE Set!Balanced'
<1>1. PICK C, P : C = All /\ P = Pending
  OBVIOUS
<1>2. /\ C \in SUBSET Elms /\ P \in SUBSET Elms /\ e \notin C /\ e \notin P
      /\ All' = C \cup {e} /\ Pending' = P \cup {e} /\ UNCHANGED key
  BY <1>1 DEF Set!TypeOK, Set!Insert, All, Contents, Pending
<1>3. ListP!Balanced(C \cup {e}, P \cup {e})
  BY <1>1, <1>2, NodesOK, BalancedIs, ListP!AddBalanced
<1> QED BY <1>2, <1>3, BalancedAfter

\* A deletion keeps the lists balanced: the element deleted has the key of the
\* element its owner is done with.
LEMMA DeleteBalanced ==
  ASSUME Set!TypeOK, Set!Balanced, NEW e \in Elms, NEW x \in Elms, Set!Delete(e, x)
  PROVE  Set!Balanced'
<1>1. PICK C, P : C = All /\ P = Pending
  OBVIOUS
<1>2. /\ C \in SUBSET Elms /\ P \in SUBSET Elms /\ x \in C /\ e \in P /\ key[x] = key[e]
      /\ All' = C \ {x} /\ Pending' = P \ {e} /\ UNCHANGED key
  BY <1>1 DEF Set!TypeOK, Set!Delete, Set!WithKey, All, Contents, Pending
<1>3. ListP!Balanced(C \ {x}, P \ {e})
  BY <1>1, <1>2, NodesOK, BalancedIs, ListP!RemoveBalanced
<1> QED BY <1>2, <1>3, BalancedAfter

\* Whoever has still to delete for an element finds one of its key.
LEMMA BalancedMeansFound ==
  ASSUME Set!TypeOK, Set!Balanced  PROVE Set!NeverMissing
<1> SUFFICES ASSUME NEW e \in Pending  PROVE Set!WithKey(All, key[e]) # {}
  BY DEF Set!NeverMissing, All, Contents, Pending
<1>1. PICK C, P : C = All /\ P = Pending
  OBVIOUS
<1>2. C \in SUBSET Elms /\ P \in SUBSET Elms /\ e \in P /\ key[e] \in Keys
  BY <1>1 DEF Set!TypeOK, All, Contents, Pending
<1>3. ListP!WithKey(C, key[e]) # {}
  BY <1>1, <1>2, NodesOK, BalancedIs, ListP!BalancedFinds
<1> QED BY <1>1, <1>3 DEF ListP!WithKey, Set!WithKey

\* ListSet keeps its types.
THEOREM SetTypeCorrect == Set!Spec => []Set!TypeOK
<1>1. Set!Init => Set!TypeOK
  BY DEF Set!Init, Set!TypeOK
<1>2. Set!TypeOK /\ [Set!Next]_(Set!vars) => Set!TypeOK'
  BY DEF Set!TypeOK, Set!Next, Set!Insert, Set!Delete, Set!WithKey, Set!vars
<1> QED BY <1>1, <1>2, PTL DEF Set!Spec

\* In ListSet the set always holds as many elements of a key as there are owners
\* still to delete one of that key.
THEOREM SetAlwaysBalanced == Set!Spec => []Set!Balanced
<1>1. Set!Init => Set!Balanced
  BY DEF Set!Init, Set!Balanced, Set!WithKey
<1>2. Set!TypeOK /\ Set!Balanced /\ [Set!Next]_(Set!vars) => Set!Balanced'
  <2> SUFFICES ASSUME Set!TypeOK, Set!Balanced, [Set!Next]_(Set!vars)  PROVE Set!Balanced'
    OBVIOUS
  <2>1. CASE UNCHANGED Set!vars
    BY <2>1 DEF Set!vars, Set!Balanced, Set!WithKey
  <2>2. CASE Set!Next
    BY <2>2, InsertBalanced, DeleteBalanced DEF Set!Next
  <2> QED BY <2>1, <2>2
<1> QED BY <1>1, <1>2, SetTypeCorrect, PTL DEF Set!Spec

\* In ListSet the lookup of a thread that has still to delete for an element finds
\* an element of that key.
THEOREM SetNeverMisses == Set!Spec => []Set!NeverMissing
  BY SetTypeCorrect, SetAlwaysBalanced, BalancedMeansFound, PTL

\* Every step keeps this: it is an insertion, a deletion or neither.
LEMMA DataKept ==
  ASSUME SafeInv, DataOK, myLock # "NONE", [Next]_vars  PROVE DataOK'
<1>1. UNCHANGED key
  BY StepIsLegal, ListKeysKept DEF SafeInv
<1>2. ASSUME NEW i \in Sublists, NEW e \in Elms, Puts(e, i)  PROVE DataOK'
  <2>1. Set!Insert(e)
    BY <1>1, <1>2, PutsIsInsert, DeletedAreInserted
  <2>2. Set!Balanced'
    BY <2>1, InsertBalanced DEF DataOK
  <2>3. Set!TypeOK'
    BY <2>1 DEF DataOK, Set!TypeOK, Set!Insert
  <2>4. ASSUME NEW j \in Sublists, NEW x \in Contents(j)'
        PROVE  x \in Elms /\ hash[key'[x]] % NumLists = j
    BY <1>1, <1>2, <2>4 DEF Puts, DataOK, InPlace
  <2> QED BY <2>2, <2>3, <2>4 DEF DataOK, InPlace, Sublists, Elms, NumElms
<1>3. ASSUME NEW i \in Sublists, NEW e \in Elms, NEW x \in Elms, Takes(e, x, i)  PROVE DataOK'
  <2>1. Set!Delete(e, x)
    BY <1>1, <1>3, TakesIsDelete
  <2>2. Set!Balanced'
    BY <2>1, DeleteBalanced DEF DataOK
  <2>3. Set!TypeOK'
    BY <2>1 DEF DataOK, Set!TypeOK, Set!Delete
  <2>4. ASSUME NEW j \in Sublists, NEW y \in Contents(j)'
        PROVE  y \in Elms /\ hash[key'[y]] % NumLists = j
    BY <1>1, <1>3, <2>4 DEF Takes, DataOK, InPlace
  <2> QED BY <2>2, <2>3, <2>4 DEF DataOK, InPlace, Sublists, Elms, NumElms
<1>4. CASE Rests
  <2>1. All' = All
    BY <1>4 DEF Rests, All, Sublists
  <2>2. (Elms \ Inserted)' = Elms \ Inserted /\ (Inserted \ DeletedFor)' = Inserted \ DeletedFor
    BY <1>4 DEF Rests, Elms, NumElms
  <2>3. Set!TypeOK' /\ Set!Balanced'
    BY <1>1, <2>1, <2>2 DEF DataOK, Set!TypeOK, Set!Balanced, Set!WithKey, All, Contents
  <2>4. InPlace'
    BY <1>1, <1>4 DEF Rests, DataOK, InPlace, Sublists, Elms, NumElms
  <2> QED BY <2>3, <2>4 DEF DataOK
<1> QED BY <1>2, <1>3, <1>4, Effect

\* It holds of empty lists.
LEMMA InitData ==
  ASSUME Init  PROVE DataOK
<1>1. All = {}
  BY InitContents DEF All
<1>2. key \in [Elms -> Keys] /\ Inserted = {} /\ DeletedFor = {}
  BY InitSafe, InitContents DEF SafeInv, LegalInv, IInv, ControlOK
<1>3. Set!TypeOK /\ Set!Balanced
  BY <1>1, <1>2 DEF Set!TypeOK, Set!Balanced, Set!WithKey, All, Contents
<1> QED BY <1>3, InitContents DEF DataOK, InPlace

\* DataInv is an inductive invariant.
THEOREM DataInductive == Spec => []DataInv
<1>1. Init => DataInv
  BY InitSafe, InitData DEF DataInv
<1>2. DataInv /\ SafeInv' /\ [Next]_vars => DataInv'
  BY DataKept, MyLockFixed DEF DataInv
<1> QED BY <1>1, <1>2, SafeInductive, PTL DEF Spec

\* With --sync whoever has still to delete for an element finds one of its key
\* on the lists, although the threads delete each other's elements.
THEOREM LookupNeverMisses == Spec => [](myLock # "NONE" => Set!NeverMissing)
<1>1. DataInv => (myLock # "NONE" => Set!NeverMissing)
  BY BalancedMeansFound DEF DataInv, DataOK
<1> QED BY <1>1, DataInductive, PTL

\* As long as an element is to be deleted for, its list holds one with its key.
LEMMA SomethingFound ==
  ASSUME DataOK, NEW e \in Inserted \ DeletedFor, NEW i \in Sublists, i = hash[key[e]] % NumLists
  PROVE  \E x \in Contents(i) : key[x] = key[e]
<1>1. Set!NeverMissing
  BY BalancedMeansFound DEF DataOK
<1>2. PICK x \in All : key[x] = key[e]
  BY <1>1 DEF Set!NeverMissing, Set!WithKey, All, Contents
<1>3. PICK j \in Sublists : x \in Contents(j)
  BY DEF All
<1> QED BY <1>2, <1>3 DEF DataOK, InPlace

\* When every element is deleted for, every list is empty.
LEMMA NothingLeft ==
  ASSUME DataOK, Inserted \subseteq DeletedFor, NEW i \in Sublists  PROVE Contents(i) = {}
<1> SUFFICES ASSUME NEW x \in Contents(i)  PROVE FALSE
  OBVIOUS
<1>1. PICK C, P : C = All /\ P = Pending
  OBVIOUS
<1>2. C \in SUBSET Elms /\ P \in SUBSET Elms /\ x \in C /\ key[x] \in Keys /\ P = {}
  BY <1>1 DEF DataOK, Set!TypeOK, All, Contents, Pending
<1>3. ListP!WithKey(P, key[x]) # {}
  BY <1>1, <1>2, NodesOK, BalancedIs, ListP!BalancedBack DEF DataOK
<1> QED BY <1>2, <1>3 DEF ListP!WithKey

\* How the program may end with --sync; without elements the averages divide by zero.
EndsWell == status \in {"running", "error", "success"} \/ (status = "SIGFPE" /\ NumElms = 0)

\* lookup and delete do what the thread called them for.
LEMMA NeverFails ==
  ASSUME DataInv, myLock # "NONE", NEW t \in Threads  PROVE ~Fails(t)
<1> SUFFICES ASSUME Fails(t)  PROVE FALSE
  OBVIOUS
<1>1. PICK on, path, size : on = On /\ ListP!Kept(on, path, size)
  BY DEF DataInv, SafeInv, Guarded
<1>2. /\ pc[t] = "call" /\ call[t].at = "return" /\ DataOK
      /\ \/ call[t].op = "lookup" /\ call[t].temp = ListP!NULL
         \/ call[t].op = "delete" /\ call[t].rc # 0
  BY SameUses DEF Fails, Returned, At, DataInv
<1>3. /\ CallFits(t) /\ ControlOK /\ ThreadLegal(t)
      /\ phase[t] \in {"insert", "length", "delete"} /\ index[t] \in Nat
  BY <1>2 DEF DataInv, SafeInv, LegalInv, IInv, ControlOK, Legal
<1>4. phase[t] = "delete"
  BY <1>2, <1>3 DEF CallFits
<1>5. PICK i, l, p, n, e : /\ i = Sublist(t) /\ i \in Sublists /\ l = Header(i) /\ l \in Lists /\ l = on[t]
                           /\ p = path[l] /\ n = size[l] /\ e = index[t]
  BY <1>1, <1>2, <1>3, SublistExists, OnIs DEF Lists, DataInv, SafeInv
<1>6. /\ call[t].op = "delete" => call[t].rc = 0
      /\ call[t].op = "lookup" /\ call[t].temp = ListP!NULL =>
           \A x \in ListP!Inner(p, n) : key[x] # key[call[t].elm]
  BY <1>1, <1>2, <1>5, NodesOK, ListP!ReturnIs DEF Lists
<1>7. call[t].op = "lookup" /\ \A x \in ListP!Inner(p, n) : key[x] # key[e]
  BY <1>2, <1>3, <1>4, <1>5, <1>6 DEF CallFits
<1>8. e \in Inserted \ DeletedFor /\ i = hash[key[e]] % NumLists
  <2>1. NumElms \in Nat
    BY ArgsAssumption DEF NumElms
  <2>2. e \in Elms /\ e % NumThreads = t
    BY <1>2, <1>3, <1>4, <1>5, <2>1, SMTT(30) DEF ControlOK, Elms, ThreadLegal
  <2>3. HasInserted(t, e) /\ ~HasDeleted(t, e)
    BY <1>2, <1>3, <1>4, <1>5, <1>7 DEF HasInserted, HasDeleted, ListP!Deletes
  <2> QED BY <1>4, <1>5, <2>2, <2>3, InsertedBy DEF Sublist
<1>9. PICK x \in Contents(i) : key[x] = key[e]
  BY <1>2, <1>5, <1>8, SomethingFound
<1>10. Contents(i) = ListP!Inner(p, n)
  <2>1. Contents(i) = ListP!Inner(path[Header(i)], size[Header(i)])
    <3>1. i \in Sublists
      BY <1>5
    <3> QED BY <1>1, <3>1, ContentsAre
  <2> QED BY <1>5, <2>1
<1> QED BY <1>7, <1>9, <1>10

\* When the threads have exited, main finds every list empty.
LEMMA FoundEmpty ==
  ASSUME DataInv, myLock # "NONE", CheckEnds  PROVE call[Main].rc = 0
<1>1. PICK on, path, size : on = On /\ ListP!Kept(on, path, size)
  BY DEF DataInv, SafeInv, Guarded
<1>2. call[Main].at = "return" /\ call[Main] # ListP!Idle
  BY DEF CheckEnds, ListP!Idle
<1>3. on[Main] = Header(checked) /\ on[Main] \in Lists /\ call[Main].op = "length"
      /\ joined = NumThreads /\ checked \in Sublists
  BY <1>1, <1>2, OnIs, ArgsAssumption DEF DataInv, SafeInv, MainLast, Sublists
<1>4. PICK l, p, n : l = Header(checked) /\ p = path[l] /\ n = size[l]
  OBVIOUS
<1>5. call[Main].rc = ListP!Cardinality(ListP!Inner(p, n))
  BY <1>1, <1>2, <1>3, <1>4, LengthIsRight
<1>6. Inserted \subseteq DeletedFor
  <2>1. \A t \in Threads : pc[t] = "exited"
    BY <1>3, ArgsAssumption DEF DataInv, SafeInv, MainLast, Threads
  <2>2. \A e \in Elms : e \in DeletedFor
    BY <2>1, OwnerIs, InsertedBy DEF HasDeleted
  <2> QED BY <2>2 DEF Inserted
<1>7. Contents(checked) = ListP!Inner(p, n)
  BY <1>1, <1>3, <1>4, ContentsAre
<1>8. Contents(checked) = {}
  BY <1>3, <1>6, NothingLeft DEF DataInv
<1> QED BY <1>5, <1>7, <1>8, FS_EmptySet, SameCounting

\* With --sync the program ends as it should, but for the division by zero.
LEMMA EndKept ==
  ASSUME DataInv, myLock # "NONE", EndsWell, [Next]_vars  PROVE EndsWell'
<1>1. ASSUME NEW t \in Threads, ThreadStep(t)  PROVE UNCHANGED status
  <2>1. CASE LockItUp(t) \/ InCall(t) \/ Found(t)
    BY <2>1 DEF LockItUp, InCall, Found, main
  <2>2. CASE Fails(t)
    BY <2>2, NeverFails
  <2>3. CASE UnlockItUp(t)
    <3>1. PICK on, path, size : on = On /\ ListP!Kept(on, path, size)
      BY DEF DataInv, SafeInv, Guarded
    <3>2. pc[t] = "call" /\ call[t].at = "return" /\ call[t].op = phase[t]
      BY <2>3 DEF UnlockItUp, Returned, At
    <3>3. on[t] \in Lists
      BY <3>1, <3>2, OnIs DEF DataInv, SafeInv
    <3>4. phase[t] = "length" => call[t].rc \in Nat
      BY <3>1, <3>2, <3>3, LengthIsRight
    <3>5. ~(phase[t] = "length" /\ call[t].rc = -1)
      BY <3>4
    <3> QED BY <2>3, <3>5 DEF UnlockItUp
  <2> QED BY <1>1, <2>1, <2>2, <2>3 DEF ThreadStep
<1>2. CASE CheckEnds
  BY <1>2, FoundEmpty DEF CheckEnds, EndsWell, NumElms
<1>3. CASE PrintOut
  <2>1. NumElms \in Nat /\ NumThreads * NumIters * 3 = NumElms * 3
    BY ArgsAssumption DEF NumElms
  <2>2. NumElms * 3 = 0 => NumElms = 0
    BY <2>1
  <2> QED BY <1>3, <2>1, <2>2 DEF PrintOut, EndsWell, NumElms
<1>4. CASE Create \/ CreateFails \/ Join \/ CheckBegins \/ CheckRuns \/ UNCHANGED vars
  BY <1>4 DEF Create, CreateFails, Join, CheckBegins, CheckRuns, vars, main, EndsWell, NumElms
<1> QED BY <1>1, <1>2, <1>3, <1>4 DEF Next, MainStep, Ended, EndsWell, NumElms

\* With --sync no check the program makes on its lists ever fails.
THEOREM EndsOnlyWell == Spec => [](myLock # "NONE" => EndsWell)
<1>1. Init => EndsWell
  BY DEF Init, EndsWell
<1>2. DataInv /\ (myLock # "NONE" => EndsWell) /\ [Next]_vars => (myLock # "NONE" => EndsWell)'
  BY EndKept, MyLockFixed
<1> QED BY <1>1, <1>2, DataInductive, PTL DEF Spec

\* So it ends with the error of pthread_create or with success, if it has operations
\* to divide the time by.
THEOREM NoFailure ==
  ASSUME NumElms # 0  PROVE Spec => []NoErrorExit
<1>1. (myLock # "NONE" => EndsWell) => NoErrorExit
  BY DEF EndsWell, NoErrorExit
<1> QED BY <1>1, EndsOnlyWell, PTL

-----------------------------------------------------------------------------
(* With --sync: the lengths a thread sums up.                              *)

\* The list of element e, and the elements of list i and of the lists before it:
\* all, those of thread t, and those still to be deleted for.
ListOf(e) == hash[key[e]] % NumLists
OfList(i) == { e \in Elms : ListOf(e) = i }
Before(i) == { e \in Elms : ListOf(e) < i }
Own(t) == { e \in Elms : e % NumThreads = t }

\* A list holds as many elements as there are of it still to be deleted for.
LengthsMatch ==
  \A i \in Sublists :
    Cardinality(Contents(i)) = Cardinality(OfList(i) \cap (Inserted \ DeletedFor))

\* What t has summed up counts at least its own elements of the lists it has come
\* by and at most all elements of them.
SumFits(t) ==
  /\ phase[t] \in {"none", "insert"} => listLength[t] = 0 \/ pc[t] = "exited"
  /\ phase[t] = "length" =>
       /\ Cardinality(Before(index[t]) \cap Own(t)) <= listLength[t]
       /\ listLength[t] <= Cardinality(Before(index[t]))
  /\ phase[t] = "delete" => NumIters <= listLength[t] /\ listLength[t] <= NumElms

\* The sums of all threads.
SumsOK == listLength \in [Threads -> Nat] /\ \A t \in Threads : SumFits(t)

\* The numbers below m * n that leave r when divided by n are m.
LEMMA CountClass ==
  ASSUME NEW m \in Nat, NEW n \in Nat, NEW r \in 0 .. n - 1
  PROVE  Cardinality({ e \in 0 .. m * n - 1 : e % n = r }) = m
<1> DEFINE S == { e \in 0 .. m * n - 1 : e % n = r }
           f == [k \in 0 .. m - 1 |-> n * k + r]
<1>0. n > 0 /\ r \in Nat /\ r < n
  OBVIOUS
<1>1. ASSUME NEW k \in 0 .. m - 1  PROVE f[k] \in S
  <2>1. f[k] = n * k + r /\ k \in Nat /\ k + 1 <= m /\ n * k \in Nat
    BY <1>0
  <2>2. (n * k + r) % n = r
    BY <1>0, <2>1
  <2>3. n * (k + 1) <= n * m
    <3>1. m - (k + 1) \in Nat
      BY <2>1
    <3>2. n * m = n * (k + 1) + n * (m - (k + 1))
      BY <2>1
    <3>3. n * (m - (k + 1)) \in Nat /\ n * (k + 1) \in Nat /\ n * m \in Nat
      BY <2>1, <3>1
    <3> QED BY <3>2, <3>3
  <2>4. n * (k + 1) = n * k + n /\ n * m = m * n
    BY <2>1
  <2> QED BY <1>0, <2>1, <2>2, <2>3, <2>4
<1>2. ASSUME NEW e \in S  PROVE \E k \in 0 .. m - 1 : e = f[k]
  <2>1. PICK k \in Int : e = n * k + r
    <3>1. e \in Nat /\ e = n * (e \div n) + (e % n) /\ e \div n \in Int
      BY <1>0
    <3> QED BY <3>1
  <2>2. 0 <= n * k + r /\ n * k + r < n * m
    BY <2>1
  <2>3. k >= 0
    <3> SUFFICES ASSUME k <= -1  PROVE FALSE
      BY <2>1
    <3>1. n * k <= -n
      BY <1>0, <2>1
    <3> QED BY <1>0, <2>1, <2>2, <3>1
  <2>4. k < m
    <3> SUFFICES ASSUME k >= m  PROVE FALSE
      BY <2>1
    <3>1. k - m \in Nat /\ n * (k - m) \in Nat /\ n * k = n * m + n * (k - m)
      BY <1>0, <2>1
    <3> QED BY <1>0, <2>1, <2>2, <3>1
  <2> QED BY <2>1, <2>3, <2>4
<1>3. ASSUME NEW k \in 0 .. m - 1, NEW j \in 0 .. m - 1, f[k] = f[j]  PROVE k = j
  <2>1. n * (k - j) = 0
    BY <1>3
  <2> QED BY <1>0, <2>1
<1>4. f \in Bijection(0 .. m - 1, S)
  <2> HIDE DEF f, S
  <2>1. f \in [0 .. m - 1 -> S]
    BY <1>1 DEF f
  <2> QED BY <1>2, <1>3, <2>1 DEF Bijection, Injection, Surjection, IsInjective
<1>5. IsFiniteSet(0 .. m - 1) /\ Cardinality(0 .. m - 1) = m
  BY FS_Interval
<1> HIDE DEF f, S
<1>6. Cardinality(S) = Cardinality(0 .. m - 1)
  BY <1>4, <1>5, FS_Bijection DEF ExistsBijection
<1> QED BY <1>5, <1>6 DEF S

\* The sets counted are finite.
LEMMA PartFinite ==
  ASSUME NEW S \in SUBSET Elms
  PROVE  IsFiniteSet(S) /\ Cardinality(S) \in Nat
  BY ElmsFinite, FS_Subset, FS_CardinalityType

\* The element is on one of the lists.
LEMMA ListOfIs ==
  ASSUME ControlOK, NEW e \in Elms  PROVE ListOf(e) \in Sublists /\ ListOf(e) \in Nat
<1>1. hash[key[e]] \in Nat /\ NumLists \in Nat /\ NumLists > 0
  <2>1. key[e] \in Keys
    BY DEF ControlOK
  <2>2. hash[key[e]] \in Nat
    BY <2>1, ArgsAssumption
  <2>3. NumLists \in Nat /\ NumLists > 0
    BY ArgsAssumption
  <2> QED BY <2>2, <2>3
<1>2. hash[key[e]] % NumLists \in 0 .. NumLists - 1
  BY <1>1
<1> QED BY <1>1, <1>2 DEF ListOf, Sublists

\* The elements before list i + 1 are those before list i and those of list i.
LEMMA BeforeNext ==
  ASSUME ControlOK, NEW i \in Sublists, NEW S \in SUBSET Elms
  PROVE  Cardinality(Before(i + 1) \cap S) = Cardinality(Before(i) \cap S) + Cardinality(OfList(i) \cap S)
<1>1. \A e \in Elms : ListOf(e) < i + 1 <=> ListOf(e) < i \/ ListOf(e) = i
  BY ListOfIs DEF Sublists
<1>2. i \in Int
  BY DEF Sublists
<1>3. /\ Before(i + 1) \cap S = (Before(i) \cap S) \cup (OfList(i) \cap S)
      /\ (Before(i) \cap S) \cap (OfList(i) \cap S) = {}
  BY <1>1, <1>2, ListOfIs DEF Before, OfList
<1>4. /\ IsFiniteSet(Before(i) \cap S) /\ Cardinality(Before(i) \cap S) \in Nat
      /\ IsFiniteSet(OfList(i) \cap S) /\ Cardinality(OfList(i) \cap S) \in Nat
  BY PartFinite
<1>5. PICK A, B : A = Before(i) \cap S /\ B = OfList(i) \cap S
  OBVIOUS
<1>6. Cardinality(A \cup B) = Cardinality(A) + Cardinality(B) - Cardinality(A \cap B)
  BY <1>4, <1>5, FS_Union
<1>7. A \cap B = {} /\ Cardinality(A \cap B) = 0
  BY <1>3, <1>5, FS_EmptySet
<1>8. Cardinality(A \cup B) = Cardinality(A) + Cardinality(B)
  BY <1>4, <1>5, <1>6, <1>7
<1> QED BY <1>3, <1>5, <1>8

\* All elements come before the end of the lists, none before the first.
LEMMA BeforeEnds ==
  ASSUME ControlOK
  PROVE  Before(NumLists) = Elms /\ Before(0) = {}
<1>1. \A e \in Elms : ListOf(e) \in Nat /\ ListOf(e) < NumLists
  BY ListOfIs, ArgsAssumption DEF Sublists
<1> QED BY <1>1 DEF Before

\* There are NumElms elements, and NumIters of each thread.
LEMMA HowMany ==
  ASSUME NEW t \in Threads
  PROVE  /\ Cardinality(Elms) = NumElms /\ NumElms \in Nat
         /\ Cardinality(Own(t)) = NumIters /\ NumIters \in Nat /\ NumIters <= NumElms
<1>1. NumThreads \in Nat /\ NumIters \in Nat /\ t \in 0 .. NumThreads - 1
  BY ArgsAssumption DEF Threads
<1>2. NumElms = NumIters * NumThreads /\ NumElms \in Nat
  BY <1>1 DEF NumElms
<1>3. Cardinality(Own(t)) = NumIters
  BY <1>1, <1>2, CountClass DEF Own, Elms
<1>4. Cardinality(Elms) = NumElms
  BY <1>2, FS_Interval DEF Elms
<1>5. Own(t) \in SUBSET Elms
  BY DEF Own
<1>6. NumIters <= NumElms
  BY <1>3, <1>4, <1>5, ElmsFinite, FS_Subset
<1> QED BY <1>1, <1>2, <1>3, <1>4, <1>6

\* A step of a call keeps the numbers of elements equal.
LEMMA LengthsKept ==
  ASSUME DataInv, myLock # "NONE", LengthsMatch, [Next]_vars  PROVE LengthsMatch'
<1>0. /\ UNCHANGED key /\ \A i : OfList(i)' = OfList(i)
      /\ \A i \in Sublists : Contents(i) \in SUBSET Elms
      /\ DeletedFor \subseteq Inserted /\ Inserted \subseteq Elms
  <2>1. UNCHANGED key
    BY StepIsLegal, ListKeysKept DEF DataInv, SafeInv
  <2> QED BY <2>1, DeletedAreInserted DEF OfList, ListOf, Elms, NumElms, DataInv, DataOK, InPlace, Inserted
<1> SUFFICES ASSUME NEW j \in Sublists
             PROVE  Cardinality(Contents(j)') =
                      Cardinality(OfList(j) \cap (Inserted' \ DeletedFor'))
  BY <1>0 DEF LengthsMatch, Sublists
<1> DEFINE P == OfList(j) \cap (Inserted \ DeletedFor)
<1>1. /\ Cardinality(Contents(j)) = Cardinality(P)
      /\ IsFiniteSet(Contents(j)) /\ IsFiniteSet(P) /\ Cardinality(P) \in Nat
  BY <1>0, PartFinite DEF LengthsMatch, OfList
<1>2. ASSUME NEW i \in Sublists, NEW e \in Elms, Puts(e, i)
      PROVE  Cardinality(Contents(j)') = Cardinality(OfList(j) \cap (Inserted' \ DeletedFor'))
  <2>1. CASE j = i
    <3>1. Contents(j)' = Contents(j) \cup {e} /\ e \notin Contents(j)
      BY <1>2, <2>1 DEF Puts
    <3>2. OfList(j) \cap (Inserted' \ DeletedFor') = P \cup {e} /\ e \notin P
      BY <1>0, <1>2, <2>1 DEF Puts, OfList, ListOf
    <3> HIDE DEF P
    <3>3. /\ Cardinality(Contents(j) \cup {e}) = Cardinality(Contents(j)) + 1
          /\ Cardinality(P \cup {e}) = Cardinality(P) + 1
      BY <1>1, <3>1, <3>2, FS_AddElement
    <3> QED BY <1>1, <3>1, <3>2, <3>3
  <2>2. CASE j # i
    <3>1. Contents(j)' = Contents(j)
      BY <1>2, <2>2 DEF Puts
    <3>2. OfList(j) \cap (Inserted' \ DeletedFor') = P
      BY <1>0, <1>2, <2>2 DEF Puts, OfList, ListOf
    <3> QED BY <1>1, <3>1, <3>2
  <2> QED BY <2>1, <2>2
<1>3. ASSUME NEW i \in Sublists, NEW e \in Elms, NEW x \in Elms, Takes(e, x, i)
      PROVE  Cardinality(Contents(j)') = Cardinality(OfList(j) \cap (Inserted' \ DeletedFor'))
  <2>1. CASE j = i
    <3>1. Contents(j)' = Contents(j) \ {x} /\ x \in Contents(j)
      BY <1>3, <2>1 DEF Takes
    <3>2. OfList(j) \cap (Inserted' \ DeletedFor') = P \ {e} /\ e \in P
      BY <1>0, <1>3, <2>1 DEF Takes, OfList, ListOf
    <3> HIDE DEF P
    <3>3. /\ Cardinality(Contents(j) \ {x}) = Cardinality(Contents(j)) - 1
          /\ Cardinality(P \ {e}) = Cardinality(P) - 1
      BY <1>1, <3>1, <3>2, FS_RemoveElement
    <3> QED BY <1>1, <3>1, <3>2, <3>3
  <2>2. CASE j # i
    <3>1. Contents(j)' = Contents(j)
      BY <1>3, <2>2 DEF Takes
    <3>2. OfList(j) \cap (Inserted' \ DeletedFor') = P
      BY <1>0, <1>3, <2>2 DEF Takes, OfList, ListOf
    <3> QED BY <1>1, <3>1, <3>2
  <2> QED BY <2>1, <2>2
<1>4. CASE Rests
  BY <1>1, <1>4 DEF Rests
<1> QED BY <1>2, <1>3, <1>4, Effect DEF DataInv

\* The length a thread is given counts at least its own elements of the list, and
\* at most all elements of the list.
LEMMA LengthCounts ==
  ASSUME DataInv, myLock # "NONE", LengthsMatch, NEW t \in Threads,
         Returned(t, "length"), phase[t] = "length"
  PROVE  /\ call[t].rc \in Nat /\ index[t] \in Sublists
         /\ Cardinality(OfList(index[t]) \cap Own(t)) <= call[t].rc
         /\ call[t].rc <= Cardinality(OfList(index[t]))
<1>1. PICK on, path, size : on = On /\ ListP!Kept(on, path, size)
  BY DEF DataInv, SafeInv, Guarded
<1>2. pc[t] = "call" /\ call[t].at = "return" /\ call[t].op = "length"
  BY DEF Returned, At
<1>3. on[t] = Header(index[t]) /\ on[t] \in Lists /\ index[t] \in Sublists
  BY <1>1, <1>2, OnIs, SublistExists DEF Sublist, DataInv, SafeInv, LegalInv, IInv
<1>4. PICK l, p, n, i : l = Header(i) /\ p = path[l] /\ n = size[l] /\ i = index[t] /\ i \in Sublists
  BY <1>3
<1>5. call[t].rc = Cardinality(ListP!Inner(p, n)) /\ call[t].rc \in Nat
  BY <1>1, <1>2, <1>3, <1>4, LengthIsRight, SameCounting
<1>6. Contents(i) = ListP!Inner(p, n)
  <2>1. Contents(i) = ListP!Inner(path[Header(i)], size[Header(i)])
    <3>1. i \in Sublists
      BY <1>4
    <3> QED BY <1>1, <3>1, ContentsAre
  <2> QED BY <1>4, <2>1
<1> DEFINE P == OfList(i) \cap (Inserted \ DeletedFor)
<1>7. call[t].rc = Cardinality(P)
  BY <1>4, <1>5, <1>6 DEF LengthsMatch
<1>8. OfList(i) \cap Own(t) \subseteq P
  <2>1. \A e : HasInserted(t, e) /\ ~HasDeleted(t, e)
    BY <1>2 DEF HasInserted, HasDeleted
  <2> QED BY <2>1, InsertedBy DEF Own, OfList
<1>9. P \subseteq OfList(i) /\ OfList(i) \subseteq Elms
  BY DEF OfList
<1> QED BY <1>4, <1>3, <1>5, <1>7, <1>8, <1>9, PartFinite, FS_Subset

\* The sum after the length of another list.
LEMMA SumAdds ==
  ASSUME DataInv, myLock # "NONE", LengthsMatch, SumsOK, NEW t \in Threads,
         Returned(t, "length"), phase[t] = "length"
  PROVE  LET s == listLength[t] + call[t].rc IN
           /\ s \in Nat
           /\ Cardinality(Before(index[t] + 1) \cap Own(t)) <= s
           /\ s <= Cardinality(Before(index[t] + 1))
           /\ index[t] + 1 >= NumLists => NumIters <= s /\ s <= NumElms
<1>1. PICK i, s, r : i = index[t] /\ s = listLength[t] /\ r = call[t].rc
  OBVIOUS
<1>2. /\ r \in Nat /\ i \in Sublists
      /\ Cardinality(OfList(i) \cap Own(t)) <= r /\ r <= Cardinality(OfList(i))
  BY <1>1, LengthCounts
<1>3. /\ s \in Nat /\ Cardinality(Before(i) \cap Own(t)) <= s /\ s <= Cardinality(Before(i))
  BY <1>1 DEF SumsOK, SumFits
<1>4. ControlOK /\ Own(t) \in SUBSET Elms
  BY DEF DataInv, SafeInv, LegalInv, IInv, Own
<1>5. Cardinality(Before(i + 1) \cap Own(t)) =
        Cardinality(Before(i) \cap Own(t)) + Cardinality(OfList(i) \cap Own(t))
  BY <1>2, <1>4, BeforeNext
<1>6. Cardinality(Before(i + 1)) = Cardinality(Before(i)) + Cardinality(OfList(i))
  <2>1. \A k : Before(k) \cap Elms = Before(k) /\ OfList(k) \cap Elms = OfList(k)
    BY DEF Before, OfList
  <2> QED BY <1>2, <1>4, <2>1, BeforeNext
<1>7. /\ Cardinality(Before(i) \cap Own(t)) \in Nat /\ Cardinality(OfList(i) \cap Own(t)) \in Nat
      /\ Cardinality(Before(i)) \in Nat /\ Cardinality(OfList(i)) \in Nat
  <2>1. Before(i) \subseteq Elms /\ OfList(i) \subseteq Elms
    BY DEF Before, OfList
  <2> QED BY <2>1, PartFinite
<1>8. /\ s + r \in Nat /\ Cardinality(Before(i + 1) \cap Own(t)) <= s + r
      /\ s + r <= Cardinality(Before(i + 1))
  BY <1>2, <1>3, <1>5, <1>6, <1>7
<1>9. ASSUME i + 1 >= NumLists  PROVE NumIters <= s + r /\ s + r <= NumElms
  <2>1. i + 1 = NumLists
    BY <1>2, <1>9, ArgsAssumption DEF Sublists
  <2>2. Before(i + 1) = Elms /\ Before(i + 1) \cap Own(t) = Own(t)
    BY <1>4, <2>1, BeforeEnds
  <2> QED BY <1>8, <2>2, HowMany
<1> QED BY <1>1, <1>8, <1>9

\* Every step keeps the sums right.
LEMMA SumsKept ==
  ASSUME DataInv, myLock # "NONE", LengthsMatch, SumsOK, [Next]_vars  PROVE SumsOK'
<1>1. /\ UNCHANGED key /\ Before(0) = {} /\ ControlOK
      /\ \A t : Own(t)' = Own(t)
      /\ \A k : { e \in Elms : ListOf(e)' < k } = Before(k)
  <2>1. UNCHANGED key
    BY StepIsLegal, ListKeysKept DEF DataInv, SafeInv
  <2>2. ControlOK
    BY DEF DataInv, SafeInv, LegalInv, IInv
  <2> QED BY <2>1, <2>2, BeforeEnds DEF Before, ListOf, Own, Elms, NumElms
<1>2. ASSUME NEW u \in Threads, NEW i, i = index'[u]  PROVE Before(index[u])' = Before(i)
  BY <1>1, <1>2 DEF Before, Elms, NumElms
<1>3. ASSUME NEW u \in Threads, pc'[u] = pc[u], phase'[u] = phase[u], index'[u] = index[u],
             listLength'[u] = listLength[u]
      PROVE  SumFits(u)'
  BY <1>1, <1>2, <1>3 DEF SumFits, SumsOK, NumElms
<1>4. ASSUME NEW t \in Threads, NEW p \in {"insert", "length", "delete"}, NEW i \in Nat,
             Enter(t, p, i), listLength'[t] \in Nat,
             p = "insert" => listLength'[t] = 0,
             p = "length" =>
               /\ Cardinality(Before(i) \cap Own(t)) <= listLength'[t]
               /\ listLength'[t] <= Cardinality(Before(i))
               /\ i >= NumLists => NumIters <= listLength'[t] /\ listLength'[t] <= NumElms,
             p = "delete" => NumIters <= listLength'[t] /\ listLength'[t] <= NumElms
      PROVE  SumFits(t)'
  <2>1. PICK s, k : s = listLength'[t] /\ k = index'[t]
    OBVIOUS
  <2>2. SumFits(t)' <=>
          /\ phase'[t] \in {"none", "insert"} => s = 0 \/ pc'[t] = "exited"
          /\ phase'[t] = "length" =>
               Cardinality(Before(k) \cap Own(t)) <= s /\ s <= Cardinality(Before(k))
          /\ phase'[t] = "delete" => NumIters <= s /\ s <= NumElms
    BY <1>1, <1>2, <2>1 DEF SumFits, NumElms
  <2>3. Cardinality(Before(0) \cap Own(t)) = 0 /\ Cardinality(Before(0)) = 0
    BY <1>1, FS_EmptySet
  <2> QED BY <1>1, <1>4, <2>1, <2>2, <2>3, EnterTo
<1>5. ASSUME NEW t \in Threads, UnlockItUp(t)  PROVE SumsOK'
  <2>1. /\ pc[t] = "call" /\ Returned(t, phase[t])
        /\ phase[t] \in {"insert", "length", "delete"} /\ NextIndex(t) \in Nat
    BY <1>1, <1>5, ArgsAssumption DEF UnlockItUp, Returned, At, ControlOK, NextIndex
  <2>2. Enter(t, phase[t], NextIndex(t)) /\ ~(phase[t] = "length" /\ call[t].rc = -1)
    <3>1. PICK on, path, size, on2 : on = On /\ ListP!Kept(on, path, size) /\ on2 = On'
      BY DEF DataInv, SafeInv, Guarded
    <3>2. Enter(t, phase[t], NextIndex(t))
      BY <1>5, <3>1, UnlockItUpKept DEF DataInv, SafeInv
    <3>3. phase[t] = "length" => call[t].rc \in Nat
      BY <2>1, LengthCounts
    <3> QED BY <3>2, <3>3
  <2>3. listLength' = IF phase[t] = "length" THEN [listLength EXCEPT ![t] = @ + call[t].rc]
                                             ELSE listLength
    BY <1>5, <2>2 DEF UnlockItUp
  <2>4. \A u \in Threads : u # t => /\ pc'[u] = pc[u] /\ phase'[u] = phase[u] /\ index'[u] = index[u]
                                    /\ listLength'[u] = listLength[u]
    <3>1. \A u \in Threads : u # t => pc'[u] = pc[u] /\ phase'[u] = phase[u] /\ index'[u] = index[u]
      BY <1>1, <2>1, <2>2, EnterControl
    <3>2. \A u \in Threads : u # t => listLength'[u] = listLength[u]
      BY <2>3 DEF SumsOK
    <3> QED BY <3>1, <3>2
  <2>5. CASE phase[t] = "length"
    <3>1. PICK i, s : i = index[t] /\ s = listLength[t] + call[t].rc
      OBVIOUS
    <3>2. /\ s \in Nat
          /\ Cardinality(Before(i + 1) \cap Own(t)) <= s
          /\ s <= Cardinality(Before(i + 1))
          /\ i + 1 >= NumLists => NumIters <= s /\ s <= NumElms
      BY <2>1, <2>5, <3>1, SumAdds
    <3>3. listLength' = [listLength EXCEPT ![t] = s] /\ NextIndex(t) = i + 1
      BY <2>3, <2>5, <3>1 DEF NextIndex
    <3>4. listLength' \in [Threads -> Nat] /\ listLength'[t] = s
      BY <3>2, <3>3 DEF SumsOK
    <3>5. SumFits(t)'
      BY <1>4, <2>1, <2>2, <2>5, <3>2, <3>3, <3>4
    <3> QED BY <1>3, <2>4, <3>4, <3>5 DEF SumsOK, Threads
  <2>6. CASE phase[t] \in {"insert", "delete"}
    <3>1. listLength' = listLength /\ listLength[t] \in Nat
      BY <2>3, <2>6 DEF SumsOK
    <3>2. /\ phase[t] = "insert" => listLength[t] = 0
          /\ phase[t] = "delete" => NumIters <= listLength[t] /\ listLength[t] <= NumElms
      BY <2>1, <2>6 DEF SumsOK, SumFits
    <3>3. SumFits(t)'
      BY <1>4, <2>1, <2>2, <2>6, <3>1, <3>2
    <3> QED BY <1>3, <2>4, <3>1, <3>3 DEF SumsOK, Threads
  <2> QED BY <2>1, <2>5, <2>6
<1>6. ASSUME NEW t \in Threads, ThreadStep(t), ~UnlockItUp(t)  PROVE SumsOK'
  <2>1. UNCHANGED <<phase, index, listLength>>
    BY <1>6 DEF ThreadStep, LockItUp, InCall, Found, Fails, thread
  <2>2. \A u \in Threads : pc'[u] = pc[u] \/ (u = t /\ phase[t] # "none" /\ pc[t] # "exited")
    BY <1>1, <1>6, ThreadChanges DEF ControlOK, DataInv, SafeInv
  <2>3. \A u \in Threads : pc'[u] # pc[u] => SumFits(u)'
    <3> SUFFICES ASSUME pc'[t] # pc[t]  PROVE SumFits(t)'
      BY <2>2
    <3>1. phase[t] # "none" /\ pc[t] # "exited"
      BY <2>2
    <3> QED BY <1>1, <1>2, <2>1, <3>1 DEF SumFits, SumsOK, NumElms
  <2> QED BY <1>3, <2>1, <2>3 DEF SumsOK, Threads
<1>7. CASE Create
  <2>1. PICK t \in Threads : t = created /\ t \in Nat
    BY <1>7, ArgsAssumption DEF Create, Threads, DataInv, SafeInv, MainLast
  <2>2. Enter(t, "insert", t) /\ UNCHANGED listLength
    BY <1>7, <2>1 DEF Create
  <2>3. pc[t] = "none" /\ phase[t] = "none"
    BY <2>1 DEF DataInv, SafeInv, LegalInv, Legal, ThreadLegal, CallFits
  <2>4. listLength[t] = 0
    BY <2>3 DEF SumsOK, SumFits
  <2>5. SumFits(t)'
    BY <1>4, <2>1, <2>2, <2>4
  <2>6. \A u \in Threads : u # t => pc'[u] = pc[u] /\ phase'[u] = phase[u] /\ index'[u] = index[u]
    BY <1>1, <2>1, <2>2, EnterControl
  <2> QED BY <1>3, <2>2, <2>5, <2>6 DEF SumsOK, Threads
<1>8. CASE \/ CreateFails \/ Join \/ CheckBegins \/ CheckRuns \/ CheckEnds \/ PrintOut
           \/ UNCHANGED vars
  <2>1. UNCHANGED thread
    BY <1>8 DEF CreateFails, Join, CheckBegins, CheckRuns, CheckEnds, PrintOut, vars, thread
  <2> QED BY <1>3, <2>1 DEF thread, SumsOK, Threads
<1> QED BY <1>5, <1>6, <1>7, <1>8 DEF Next, MainStep, Ended

\* With --sync: the invariant behind the sums.
LengthInv == DataInv /\ (myLock # "NONE" => LengthsMatch /\ SumsOK)

\* LengthInv is an inductive invariant.
THEOREM LengthInductive == Spec => []LengthInv
<1>1. Init => LengthInv
  <2> SUFFICES ASSUME Init  PROVE LengthInv
    OBVIOUS
  <2>1. DataInv
    BY InitSafe, InitData DEF DataInv
  <2>2. LengthsMatch
    BY InitContents DEF LengthsMatch
  <2>3. SumsOK
    BY DEF SumsOK, SumFits, Init
  <2> QED BY <2>1, <2>2, <2>3 DEF LengthInv
<1>2. LengthInv /\ DataInv' /\ [Next]_vars => LengthInv'
  BY LengthsKept, SumsKept, MyLockFixed DEF LengthInv
<1> QED BY <1>1, <1>2, DataInductive, PTL DEF Spec

\* With --sync what a thread sums up is at least the number of its own elements
\* and at most the number of all.
THEOREM SumsBounded == Spec => []LengthBounded
<1>1. LengthInv => LengthBounded
  <2> SUFFICES ASSUME LengthInv, myLock # "NONE", NEW t \in Threads, phase[t] = "delete"
               PROVE  listLength[t] \in NumIters .. NumElms
    BY DEF LengthBounded
  <2>1. NumIters <= listLength[t] /\ listLength[t] <= NumElms /\ listLength[t] \in Nat
    BY DEF LengthInv, SumsOK, SumFits
  <2> QED BY <2>1, HowMany
<1> QED BY <1>1, LengthInductive, PTL
=============================================================================
