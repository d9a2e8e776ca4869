-------------------------- MODULE AddCounterProofs --------------------------
(***************************************************************************)
(* Proofs about AddCounter, for every number of threads and iterations:    *)
(* type correctness, mutual exclusion, the exactness of the counter in the *)
(* protected modes, the refinement of AtomicCounter, and how far off the   *)
(* total can be without protection.                                        *)
(***************************************************************************)
EXTENDS AddCounter, FiniteSetTheorems, TLAPS

-----------------------------------------------------------------------------
(* The arithmetic core.                                                    *)

\* Only finitely many increments are outstanding, whatever each thread has done:
\* Cardinality counts them.
LEMMA OutstandingFinite ==
  ASSUME NEW d
  PROVE  IsFiniteSet(Outstanding(d)) /\ Cardinality(Outstanding(d)) \in Nat
<1>1. IsFiniteSet(Threads) /\ IsFiniteSet(1 .. NumIters)
  BY FS_Interval, ArgsAssumption DEF Threads
<1>2. IsFiniteSet(Threads \X (1 .. NumIters))
  BY <1>1, FS_Product
<1>3. Outstanding(d) \in SUBSET (Threads \X (1 .. NumIters))
  BY DEF Outstanding
<1> QED
  BY <1>2, <1>3, FS_Subset, FS_CardinalityType

\* Performing one more operation adds its value to the number of outstanding
\* increments: an increment becomes outstanding, or a decrement undoes one.
LEMMA OneMoreOperation ==
  ASSUME NEW d \in [Threads -> Ops], NEW e \in [Threads -> Ops],
         NEW t \in Threads, d[t] < 2 * NumIters, e[t] = d[t] + 1,
         \A u \in Threads : u # t => e[u] = d[u]
  PROVE  Cardinality(Outstanding(e)) =
           Cardinality(Outstanding(d)) + Value(d[t])
<1> USE ArgsAssumption
<1>1. d[t] \in Nat /\ NumIters \in Nat
  BY DEF Ops
<1>2. CASE d[t] < NumIters
  <2> DEFINE a == <<t, d[t] + 1>>
  <2>1. a \notin Outstanding(d)
    BY <1>1 DEF Outstanding
  <2>2. Outstanding(e) = Outstanding(d) \cup {a}
    <3>1. a \in Outstanding(e)
      BY <1>1, <1>2 DEF Outstanding
    <3>2. ASSUME NEW b \in Threads \X (1 .. NumIters), b # a
          PROVE  b \in Outstanding(e) <=> b \in Outstanding(d)
      <4>1. PICK u \in Threads, k \in 1 .. NumIters : b = <<u, k>>
        OBVIOUS
      <4>2. CASE u = t
        BY <1>1, <1>2, <3>2, <4>1, <4>2 DEF Outstanding
      <4>3. CASE u # t
        BY <4>1, <4>3 DEF Outstanding
      <4> QED BY <4>2, <4>3
    <3> QED BY <3>1, <3>2 DEF Outstanding
  <2> QED
    BY <1>1, <1>2, <2>1, <2>2, OutstandingFinite, FS_AddElement DEF Value
<1>3. CASE ~(d[t] < NumIters)
  <2> DEFINE a == <<t, 2 * NumIters - d[t]>>
  <2>1. a \in Outstanding(d)
    BY <1>1, <1>3 DEF Outstanding
  <2>2. Outstanding(e) = Outstanding(d) \ {a}
    <3>1. a \notin Outstanding(e)
      BY <1>1, <1>3 DEF Outstanding
    <3>2. ASSUME NEW b \in Threads \X (1 .. NumIters), b # a
          PROVE  b \in Outstanding(e) <=> b \in Outstanding(d)
      <4>1. PICK u \in Threads, k \in 1 .. NumIters : b = <<u, k>>
        OBVIOUS
      <4>2. CASE u = t
        BY <1>1, <1>3, <3>2, <4>1, <4>2 DEF Outstanding
      <4>3. CASE u # t
        BY <4>1, <4>3 DEF Outstanding
      <4> QED BY <4>2, <4>3
    <3> QED BY <3>1, <3>2 DEF Outstanding
  <2>3. Value(d[t]) = -1
    BY <1>3 DEF Value
  <2>4. Cardinality(Outstanding(e)) = Cardinality(Outstanding(d)) - 1
    <3> HIDE DEF a
    <3> QED BY <2>1, <2>2, OutstandingFinite, FS_RemoveElement
  <2>5. Cardinality(Outstanding(d)) \in Int
    BY OutstandingFinite
  <2> QED
    BY <2>3, <2>4, <2>5
<1> QED BY <1>2, <1>3

\* When every thread has performed all its operations nothing is outstanding:
\* each increment of tFunc has been undone.
LEMMA NothingOutstanding ==
  ASSUME NEW d \in [Threads -> Ops],
         \A t \in Threads : d[t] = 0 \/ d[t] = 2 * NumIters
  PROVE  Cardinality(Outstanding(d)) = 0
<1>1. Outstanding(d) = {}
  BY ArgsAssumption DEF Outstanding, Ops
<1> QED BY <1>1, FS_EmptySet

-----------------------------------------------------------------------------
(* The inductive invariant.                                                *)

\* A thread's label and its loop counter agree with where main and it are.
Lifecycle ==
  /\ \A t \in Threads :
       /\ pc[t] = "none" <=> t >= created
       /\ pc[t] = "none" => done[t] = 0
       /\ pc[t] = "exited" => done[t] = 2 * NumIters
       /\ pc[t] \notin {"none", "exited"} => done[t] < 2 * NumIters
       /\ t < joined => pc[t] = "exited"
  /\ status = "success" => joined = NumThreads

\* Each mode passes through the labels of its own variant of add only.
LabelsOfMode ==
  \A t \in Threads :
    /\ pc[t] \in {"lock", "unlock"} => myLock \in Locked
    /\ pc[t] = "cas" => myLock = "CandS"
    /\ pc[t] = "store" => myLock # "CandS"

\* The mutex is held by the thread inside; the spin lock, which has no owner,
\* is taken while a thread is inside, and only one is.
LockHeld ==
  /\ myLock = "MUTEX" => \A t \in Threads : InAdd(t) => addLock = t
  /\ myLock = "SPIN" =>
       \A t \in Threads : InAdd(t) =>
         spinLock = 1 /\ \A u \in Threads : InAdd(u) => u = t

\* Under a lock, the counter is still what the thread loaded.
LoadIsFresh ==
  myLock \in Locked => \A t \in Threads : pc[t] = "store" => com[t] = count

Control == TypeOK /\ Lifecycle /\ LabelsOfMode /\ LockHeld /\ LoadIsFresh

IInv == Control /\ CountIsOutstanding

\* The control invariant holds when the process starts.
LEMMA ControlInit == Init => Control
<1> SUFFICES ASSUME Init PROVE Control
  OBVIOUS
<1> USE ArgsAssumption
<1>1. TypeOK
  BY DEF Init, TypeOK, Labels, Ops, NoThread
<1>2. Lifecycle
  BY DEF Init, Lifecycle, Threads
<1>3. LabelsOfMode /\ LockHeld /\ LoadIsFresh
  BY DEF Init, LabelsOfMode, LockHeld, LoadIsFresh, InAdd
<1> QED BY <1>1, <1>2, <1>3 DEF Control

\* pthread_mutex_lock preserves it.
LEMMA ControlMutexLock ==
  ASSUME Control, NEW t \in Threads, MutexLock(t)  PROVE Control'
<1> USE ArgsAssumption DEF Control, MutexLock, At, thread, main
<1>1. TypeOK'
  BY DEF TypeOK, Labels
<1>2. Lifecycle'
  BY DEF TypeOK, Lifecycle
<1>3. LabelsOfMode'
  BY DEF TypeOK, LabelsOfMode
<1>4. LockHeld' /\ LoadIsFresh'
  BY DEF TypeOK, LockHeld, LoadIsFresh, InAdd, Locked, Threads, NoThread
<1> QED BY <1>1, <1>2, <1>3, <1>4

\* The acquisition of the spin lock preserves it.
LEMMA ControlSpinLock ==
  ASSUME Control, NEW t \in Threads, SpinLock(t)  PROVE Control'
<1> USE ArgsAssumption DEF Control, SpinLock, At, thread, main
<1>1. TypeOK'
  BY DEF TypeOK, Labels
<1>2. Lifecycle'
  BY DEF TypeOK, Lifecycle
<1>3. LabelsOfMode'
  BY DEF TypeOK, LabelsOfMode
<1>4. LockHeld' /\ LoadIsFresh'
  BY DEF TypeOK, LockHeld, LoadIsFresh, InAdd, Locked
<1> QED BY <1>1, <1>2, <1>3, <1>4

\* Loading the counter preserves it.
LEMMA ControlLoad ==
  ASSUME Control, NEW t \in Threads, Load(t)  PROVE Control'
<1> USE ArgsAssumption DEF Control, Load, At, thread, main
<1>1. TypeOK'
  BY DEF TypeOK, Labels
<1>2. Lifecycle'
  BY DEF TypeOK, Lifecycle
<1>3. LabelsOfMode'
  BY DEF TypeOK, LabelsOfMode
<1>4. LockHeld'
  BY DEF TypeOK, LockHeld, InAdd, Locked
<1>5. LoadIsFresh'
  BY DEF TypeOK, LoadIsFresh
<1> QED BY <1>1, <1>2, <1>3, <1>4, <1>5

\* What a completed call leaves behind, whichever variant it ends.
LEMMA ReturnControl ==
  ASSUME Control, NEW t \in Threads, Return(t), UNCHANGED <<myLock, main>>,
         pc[t] \notin {"none", "exited"}
  PROVE  /\ done' \in [Threads -> Ops] /\ pc' \in [Threads -> Labels]
         /\ Lifecycle'
         /\ LabelsOfMode'
         /\ \A u \in Threads : u # t => pc'[u] = pc[u] /\ done'[u] = done[u]
         /\ pc'[t] \in {"exited", "lock", "load"}
         /\ pc'[t] = "load" => myLock \notin Locked
         /\ done'[t] = done[t] + 1
<1> USE ArgsAssumption DEF Control, Return, main
<1>1. done \in [Threads -> Ops] /\ pc \in [Threads -> Labels]
  BY DEF TypeOK
<1>2. done[t] \in Nat /\ done[t] < 2 * NumIters
  BY <1>1 DEF Lifecycle, Ops
<1>3. done' \in [Threads -> Ops] /\ done'[t] = done[t] + 1
  BY <1>1, <1>2 DEF Ops
<1>4. /\ CallAfter(done[t] + 1) \in {"exited", "lock", "load"}
      /\ CallAfter(done[t] + 1) = "exited" <=> done[t] + 1 = 2 * NumIters
      /\ CallAfter(done[t] + 1) = "lock" => myLock \in Locked
      /\ CallAfter(done[t] + 1) = "load" => myLock \notin Locked
  BY DEF CallAfter
<1>5. /\ pc' \in [Threads -> Labels] /\ pc'[t] = CallAfter(done[t] + 1)
      /\ \A u \in Threads : u # t => pc'[u] = pc[u] /\ done'[u] = done[u]
  BY <1>1, <1>4 DEF Labels
<1> HIDE DEF Return
<1>6. Lifecycle'
  BY <1>1, <1>2, <1>3, <1>4, <1>5 DEF Lifecycle
<1>7. LabelsOfMode'
  BY <1>4, <1>5 DEF LabelsOfMode
<1> QED BY <1>3, <1>4, <1>5, <1>6, <1>7

\* Storing the sum preserves it, whether or not a release follows.
LEMMA ControlStore ==
  ASSUME Control, NEW t \in Threads, Store(t)  PROVE Control'
<1> USE ArgsAssumption
<1>1. /\ pc[t] = "store" /\ UNCHANGED <<myLock, addLock, spinLock, com, main>>
      /\ TypeOK /\ LockHeld /\ LoadIsFresh /\ LabelsOfMode /\ Lifecycle
      /\ pc \in [Threads -> Labels] /\ done \in [Threads -> Ops]
  BY DEF Control, Store, At, TypeOK
<1>2. count' \in Int
  <2>1. com[t] \in Int /\ Value(done[t]) \in Int
    BY <1>1 DEF TypeOK, Value
  <2> QED BY <2>1 DEF Store
<1>3. CASE myLock \in Locked
  <2>1. UNCHANGED done /\ pc' = [pc EXCEPT ![t] = "unlock"]
    BY <1>3 DEF Store
  <2>2. TypeOK'
    BY <1>1, <1>2, <2>1 DEF TypeOK, Labels, main
  <2>3. Lifecycle'
    BY <1>1, <2>1 DEF Lifecycle, main
  <2>4. LabelsOfMode' /\ LockHeld'
    BY <1>1, <1>3, <2>1 DEF LabelsOfMode, LockHeld, InAdd
  <2>5. \A u \in Threads : pc[u] = "store" => u = t
    BY <1>1, <1>3 DEF LockHeld, InAdd, Locked
  <2>6. LoadIsFresh'
    BY <1>1, <2>1, <2>5 DEF LoadIsFresh
  <2> QED BY <2>2, <2>3, <2>4, <2>6 DEF Control
<1>4. CASE myLock \notin Locked
  <2>1. Return(t)
    BY <1>4 DEF Store
  <2>2. /\ done' \in [Threads -> Ops] /\ pc' \in [Threads -> Labels]
        /\ Lifecycle' /\ LabelsOfMode'
    BY <1>1, <2>1, ReturnControl
  <2>3. TypeOK'
    BY <1>1, <1>2, <2>2 DEF TypeOK, main
  <2>4. LockHeld' /\ LoadIsFresh'
    BY <1>1, <1>4 DEF LockHeld, LoadIsFresh, Locked
  <2> QED BY <2>2, <2>3, <2>4 DEF Control
<1> QED BY <1>3, <1>4

\* Both releases preserve it.
LEMMA ControlUnlock ==
  ASSUME Control, NEW t \in Threads, Unlock(t)  PROVE Control'
<1>1. /\ pc[t] = "unlock" /\ Return(t)
      /\ UNCHANGED <<myLock, count, com, main>>
      /\ TypeOK /\ LockHeld /\ LoadIsFresh
  BY DEF Control, Unlock, At
<1>2. /\ done' \in [Threads -> Ops] /\ pc' \in [Threads -> Labels]
      /\ Lifecycle' /\ LabelsOfMode'
      /\ \A u \in Threads : u # t => pc'[u] = pc[u]
      /\ pc'[t] \in {"exited", "lock", "load"}
      /\ pc'[t] = "load" => myLock \notin Locked
  BY <1>1, ReturnControl
<1>3. TypeOK'
  BY <1>1, <1>2 DEF Unlock, TypeOK, main
<1>4. myLock \in Locked
  BY <1>1 DEF Control, LabelsOfMode
<1>5. \A u \in Threads : ~InAdd(u)'
  <2>1. ~InAdd(t)'
    BY <1>2, <1>1, <1>4 DEF InAdd
  <2>2. ASSUME NEW u \in Threads, u # t  PROVE ~InAdd(u)
    BY <1>1, <1>4, <2>2 DEF LockHeld, InAdd, Locked
  <2> QED BY <1>2, <2>1, <2>2 DEF InAdd
<1>6. LockHeld' /\ LoadIsFresh'
  BY <1>5 DEF LockHeld, LoadIsFresh, InAdd
<1> QED BY <1>2, <1>3, <1>6 DEF Control

\* The compare-and-swap preserves it, successful or not.
LEMMA ControlCompareAndSwap ==
  ASSUME Control, NEW t \in Threads, CompareAndSwap(t)  PROVE Control'
<1>1. /\ pc[t] = "cas" /\ UNCHANGED <<myLock, addLock, spinLock, com, main>>
      /\ TypeOK /\ Lifecycle /\ LabelsOfMode
      /\ myLock = "CandS"
  BY DEF Control, CompareAndSwap, At, LabelsOfMode
<1>2. LockHeld' /\ LoadIsFresh'
  BY <1>1 DEF LockHeld, LoadIsFresh, Locked
<1>3. CASE count = com[t]
  <2>1. count' = com[t] + Value(done[t]) /\ Return(t)
    BY <1>3 DEF CompareAndSwap
  <2>2. count' \in Int
    BY <1>1, <2>1 DEF TypeOK, Value
  <2>3. /\ done' \in [Threads -> Ops] /\ pc' \in [Threads -> Labels]
        /\ Lifecycle' /\ LabelsOfMode'
    BY <1>1, <2>1, ReturnControl
  <2> QED BY <1>1, <1>2, <2>2, <2>3 DEF Control, TypeOK, main
<1>4. CASE count # com[t]
  <2>1. pc' = [pc EXCEPT ![t] = "load"] /\ UNCHANGED <<count, done>>
    BY <1>4 DEF CompareAndSwap
  <2>2. TypeOK'
    BY <1>1, <2>1 DEF TypeOK, Labels, main
  <2>3. Lifecycle' /\ LabelsOfMode'
    BY <1>1, <2>1 DEF TypeOK, Lifecycle, LabelsOfMode, main
  <2> QED BY <1>2, <2>2, <2>3 DEF Control
<1> QED BY <1>3, <1>4

\* So do the steps of main: creating a thread, failing to, joining and printing.
LEMMA ControlMainStep ==
  ASSUME Control, MainStep  PROVE Control'
<1> USE ArgsAssumption DEF Control
<1>1. CASE Create
  <2>1. /\ created \in Threads /\ pc[created] = "none"
        /\ done[created] = 0 /\ ~(created < joined)
    BY <1>1 DEF Create, TypeOK, Lifecycle, Threads
  <2>2. /\ CallAfter(0) \in {"exited", "lock", "load"}
        /\ CallAfter(0) = "exited" <=> 0 = 2 * NumIters
        /\ CallAfter(0) = "lock" => myLock \in Locked
        /\ CallAfter(0) = "load" => myLock \notin Locked
    BY DEF CallAfter
  <2>3. /\ pc' = [pc EXCEPT ![created] = CallAfter(0)]
        /\ created' = created + 1
        /\ UNCHANGED <<myLock, count, addLock, spinLock, done, com,
                       joined, status>>
    BY <1>1 DEF Create
  <2>4. TypeOK'
    BY <1>1, <2>1, <2>2, <2>3 DEF Create, TypeOK, Labels
  <2>5. Lifecycle'
    BY <2>1, <2>2, <2>3 DEF TypeOK, Lifecycle, Threads
  <2>6. LabelsOfMode'
    BY <2>1, <2>2, <2>3 DEF TypeOK, LabelsOfMode
  <2>7. LockHeld' /\ LoadIsFresh'
    BY <2>1, <2>2, <2>3 DEF TypeOK, LockHeld, LoadIsFresh, InAdd, Locked
  <2> QED BY <2>4, <2>5, <2>6, <2>7
<1>2. CASE CreateFails
  BY <1>2 DEF CreateFails, thread, TypeOK, Lifecycle, LabelsOfMode, LockHeld,
              LoadIsFresh, InAdd
<1>3. CASE Join
  <2>1. joined \in Threads /\ pc[joined] = "exited"
    BY <1>3 DEF Join, TypeOK, Threads
  <2>2. /\ joined' = joined + 1 /\ joined < NumThreads /\ status = "running"
        /\ UNCHANGED <<myLock, count, addLock, spinLock, pc, done, com,
                       created, status>>
    BY <1>3 DEF Join, thread
  <2>3. TypeOK' /\ Lifecycle'
    BY <2>1, <2>2 DEF TypeOK, Lifecycle, Threads
  <2>4. LabelsOfMode' /\ LockHeld' /\ LoadIsFresh'
    BY <2>2 DEF LabelsOfMode, LockHeld, LoadIsFresh, InAdd
  <2> QED BY <2>3, <2>4
<1>4. CASE PrintOut
  BY <1>4 DEF PrintOut, thread, TypeOK, Lifecycle, LabelsOfMode, LockHeld,
              LoadIsFresh, InAdd
<1> QED BY <1>1, <1>2, <1>3, <1>4 DEF MainStep

\* So the control invariant is inductive.
LEMMA ControlStep == Control /\ [Next]_vars => Control'
<1> SUFFICES ASSUME Control, [Next]_vars PROVE Control'
  OBVIOUS
<1>1. CASE \E t \in Threads : ThreadStep(t)
  BY <1>1, ControlMutexLock, ControlSpinLock, ControlLoad, ControlStore,
     ControlUnlock, ControlCompareAndSwap DEF ThreadStep
<1>2. CASE MainStep
  BY <1>2, ControlMainStep
<1>3. CASE UNCHANGED vars
  BY <1>3 DEF vars, thread, main, Control, TypeOK, Lifecycle, LabelsOfMode,
              LockHeld, LoadIsFresh, InAdd
<1> QED BY <1>1, <1>2, <1>3 DEF Next, Ended

-----------------------------------------------------------------------------
(* In a protected mode every step adds once, indivisibly, or not at all.   *)

\* What holds of the additions in effect before and after an addition of t.
EffectOfAdd(t) ==
  /\ Effective[t] < 2 * NumIters
  /\ count' = count + Value(Effective[t])
  /\ Effective' = [Effective EXCEPT ![t] = @ + 1]

\* The operations in effect of a thread are numbered like its operations.
LEMMA EffectiveType == Control => Effective \in [Threads -> Ops]
  BY ArgsAssumption DEF Control, TypeOK, Lifecycle, Effective, Ops

\* The steps that move pc and done without completing an addition.
LEMMA EffectiveUnchanged ==
  ASSUME Control, UNCHANGED count,
         \A u \in Threads :
           \/ done'[u] = done[u] /\ (pc'[u] = "unlock" <=> pc[u] = "unlock")
           \/ /\ done'[u] = done[u] + 1
              /\ pc[u] = "unlock" /\ pc'[u] # "unlock"
  PROVE  UNCHANGED <<count, Effective>>
<1>1. done \in [Threads -> Ops]
  BY DEF Control, TypeOK
<1>2. ASSUME NEW u \in Threads PROVE Effective'[u] = Effective[u]
  BY <1>1, <1>2 DEF Effective, Ops
<1> QED BY <1>2 DEF Effective

\* A store under a lock, or alone, takes effect as one addition of its thread:
\* the counter still is what the thread loaded.
LEMMA EffectOfStore ==
  ASSUME Control, NEW t \in Threads, Store(t), myLock # "NONE"
  PROVE  EffectOfAdd(t)
<1>1. myLock \in Locked /\ pc[t] = "store"
  BY SyncsAssumption DEF Control, TypeOK, LabelsOfMode, Store, At, Locked
<1>2. count' = count + Value(done[t])
  BY <1>1 DEF Store, Control, LoadIsFresh
<1>3. pc' = [pc EXCEPT ![t] = "unlock"] /\ UNCHANGED done
  BY <1>1 DEF Store
<1>4. /\ pc \in [Threads -> Labels] /\ done \in [Threads -> Ops]
      /\ done[t] < 2 * NumIters
  BY <1>1 DEF Control, TypeOK, Lifecycle
<1>5. Effective[t] = done[t]
  BY <1>1, <1>4 DEF Effective, Ops
<1>6. ASSUME NEW u \in Threads
      PROVE  Effective'[u] = IF u = t THEN Effective[u] + 1 ELSE Effective[u]
  BY <1>1, <1>3, <1>4, <1>6 DEF Effective, Ops
<1>7. Effective' = [Effective EXCEPT ![t] = @ + 1]
  BY <1>6 DEF Effective
<1> QED BY <1>2, <1>4, <1>5, <1>7 DEF EffectOfAdd

\* A successful compare-and-swap takes effect as one addition, a failed one
\* changes nothing.
LEMMA EffectOfSwap ==
  ASSUME Control, NEW t \in Threads, CompareAndSwap(t), count = com[t]
  PROVE  EffectOfAdd(t)
<1>1. pc[t] = "cas" /\ myLock = "CandS"
  BY DEF CompareAndSwap, At, Control, LabelsOfMode
<1>2. count' = count + Value(done[t]) /\ Return(t) /\ UNCHANGED <<myLock, main>>
  BY DEF CompareAndSwap
<1>3. /\ pc \in [Threads -> Labels] /\ done \in [Threads -> Ops]
      /\ done[t] < 2 * NumIters
  BY <1>1 DEF Control, TypeOK, Lifecycle
<1>4. /\ \A u \in Threads : u # t => pc'[u] = pc[u] /\ done'[u] = done[u]
      /\ pc'[t] # "unlock" /\ done'[t] = done[t] + 1
  BY <1>1, <1>2, ReturnControl
<1>5. Effective[t] = done[t]
  BY <1>1, <1>3 DEF Effective, Ops
<1>6. ASSUME NEW u \in Threads
      PROVE  Effective'[u] = IF u = t THEN Effective[u] + 1 ELSE Effective[u]
  BY <1>1, <1>3, <1>4, <1>6 DEF Effective, Ops
<1>7. Effective' = [Effective EXCEPT ![t] = @ + 1]
  BY <1>6 DEF Effective
<1> QED BY <1>2, <1>3, <1>5, <1>7 DEF EffectOfAdd

\* Every step of the program is one addition of one thread, or changes neither
\* the counter nor the operations in effect.
LEMMA StepEffect ==
  ASSUME Control, [Next]_vars, myLock # "NONE"
  PROVE  (\E t \in Threads : EffectOfAdd(t)) \/ UNCHANGED <<count, Effective>>
<1>0. pc \in [Threads -> Labels] /\ done \in [Threads -> Ops]
  BY DEF Control, TypeOK
<1>1. ASSUME NEW t \in Threads, MutexLock(t) \/ SpinLock(t) \/ Load(t)
      PROVE  UNCHANGED <<count, Effective>>
  <2>1. /\ UNCHANGED <<count, done>> /\ pc[t] # "unlock"
        /\ \/ pc' = [pc EXCEPT ![t] = "load"]
           \/ pc' = [pc EXCEPT ![t] = "cas"]
           \/ pc' = [pc EXCEPT ![t] = "store"]
    BY <1>1 DEF MutexLock, SpinLock, Load, At
  <2> QED BY <1>0, <2>1, EffectiveUnchanged
<1>2. ASSUME NEW t \in Threads, Unlock(t)
      PROVE  UNCHANGED <<count, Effective>>
  <2>1. /\ pc[t] = "unlock" /\ Return(t) /\ UNCHANGED <<myLock, main, count>>
    BY <1>2 DEF Unlock, At
  <2>2. /\ \A u \in Threads : u # t => pc'[u] = pc[u] /\ done'[u] = done[u]
        /\ pc'[t] # "unlock" /\ done'[t] = done[t] + 1
    BY <2>1, ReturnControl
  <2> QED BY <2>1, <2>2, EffectiveUnchanged
<1>3. ASSUME NEW t \in Threads, CompareAndSwap(t), count # com[t]
      PROVE  UNCHANGED <<count, Effective>>
  <2>1. /\ UNCHANGED <<count, done>> /\ pc[t] # "unlock"
        /\ pc' = [pc EXCEPT ![t] = "load"]
    BY <1>3 DEF CompareAndSwap, At
  <2> QED BY <1>0, <2>1, EffectiveUnchanged
<1>4. CASE \E t \in Threads : ThreadStep(t)
  BY <1>1, <1>2, <1>3, <1>4, EffectOfStore, EffectOfSwap DEF ThreadStep
<1>5. CASE Create
  <2>1. /\ UNCHANGED <<count, done>> /\ pc[created] = "none"
        /\ pc' = [pc EXCEPT ![created] = CallAfter(0)]
    BY <1>5, ArgsAssumption DEF Create, Control, TypeOK, Lifecycle, Threads
  <2>2. CallAfter(0) # "unlock"
    BY DEF CallAfter
  <2> QED BY <1>0, <2>1, <2>2, EffectiveUnchanged
<1>6. CASE CreateFails \/ Join \/ PrintOut \/ UNCHANGED vars
  BY <1>6 DEF CreateFails, Join, PrintOut, vars, thread, Effective
<1> QED BY <1>4, <1>5, <1>6 DEF Next, MainStep, Ended

\* So the counter remains the number of outstanding increments.
LEMMA CountStep == IInv /\ [Next]_vars => CountIsOutstanding'
<1> SUFFICES ASSUME Control, CountIsOutstanding, [Next]_vars,
                    (myLock # "NONE")'
             PROVE  (count = Cardinality(Outstanding(Effective)))'
  BY DEF IInv, CountIsOutstanding
<1>1. myLock # "NONE"
  BY DEF Next, ThreadStep, MainStep, Ended, vars, MutexLock, SpinLock, Load,
         Store, Unlock, CompareAndSwap, Create, CreateFails, Join, PrintOut
<1>2. Control' /\ count = Cardinality(Outstanding(Effective))
  BY <1>1, ControlStep DEF CountIsOutstanding
<1>3. Effective \in [Threads -> Ops] /\ Effective' \in [Threads -> Ops]
  <2>1. Effective \in [Threads -> Ops]
    BY EffectiveType
  <2>2. (Control => Effective \in [Threads -> Ops])'
    BY EffectiveType, PTL
  <2>3. Threads' = Threads /\ Ops' = Ops
    BY DEF Threads, Ops
  <2> QED BY <1>2, <2>1, <2>2, <2>3
<1>4. CASE \E t \in Threads : EffectOfAdd(t)
  <2>1. PICK t \in Threads : EffectOfAdd(t)
    BY <1>4
  <2>2. /\ Effective[t] < 2 * NumIters /\ Effective'[t] = Effective[t] + 1
        /\ \A u \in Threads : u # t => Effective'[u] = Effective[u]
    BY <1>3, <2>1 DEF EffectOfAdd
  <2>3. Cardinality(Outstanding(Effective')) =
          Cardinality(Outstanding(Effective)) + Value(Effective[t])
    BY <1>3, <2>2, OneMoreOperation
  <2>4. Outstanding(Effective)' = Outstanding(Effective')
    BY DEF Outstanding, Threads
  <2> QED BY <1>2, <2>1, <2>3, <2>4 DEF EffectOfAdd
<1>5. CASE UNCHANGED <<count, Effective>>
  BY <1>2, <1>5 DEF Outstanding, Threads
<1> QED BY <1>1, <1>4, <1>5, StepEffect

-----------------------------------------------------------------------------
(* Without protection: the counter is bounded by the operations begun.     *)

\* The increments and the decrements performed when thread t has completed its
\* first d[t] operations, undone or lost ones included.
Increments(d) == {a \in Threads \X (1 .. NumIters) : a[2] <= d[a[1]]}
Decrements(d) == {a \in Threads \X (1 .. NumIters) : a[2] + NumIters <= d[a[1]]}

Ups == Cardinality(Increments(done))
Downs == Cardinality(Decrements(done))

\* What a sum can be, the stored and those about to be: never more than the
\* increments performed; and less than the decrements performed below zero, for
\* a counter that was stored once was incremented first, and a thread that
\* decrements has stored it before it loads.  Once all is done the counter is
\* what a decrement stored.
Bounds ==
  /\ count <= Ups /\ -Downs <= count
  /\ (\E t \in Threads : done[t] > 0) => 1 - Downs <= count
  /\ \A t \in Threads : pc[t] = "store" =>
       /\ com[t] <= Ups /\ -Downs <= com[t]
       /\ done[t] > 0 => 1 - Downs <= com[t]
  /\ (Threads # {} /\ NumIters > 0 /\ \A t \in Threads : done[t] = 2 * NumIters)
       => count <= Ups - 1

\* A total is printed only when there was something to divide by.
Drift ==
  /\ Control
  /\ myLock = "NONE" => Bounds
  /\ status = "success" => NumThreads * NumIters # 0

\* A set of the threads' increments or decrements is counted.
LEMMA PerformedFinite ==
  ASSUME NEW A \in SUBSET (Threads \X (1 .. NumIters))
  PROVE  IsFiniteSet(A) /\ Cardinality(A) \in Nat
<1>1. IsFiniteSet(Threads) /\ IsFiniteSet(1 .. NumIters)
  BY FS_Interval, ArgsAssumption DEF Threads
<1>2. IsFiniteSet(Threads \X (1 .. NumIters))
  BY <1>1, FS_Product
<1> QED BY <1>2, FS_Subset, FS_CardinalityType

\* There are as many as there are threads times iterations.
LEMMA AllPerformed ==
  Cardinality(Threads \X (1 .. NumIters)) = NumThreads * NumIters
<1> USE ArgsAssumption
<1>1. IsFiniteSet(Threads) /\ Cardinality(Threads) = NumThreads
  <2>1. /\ IsFiniteSet(0 .. NumThreads - 1)
        /\ Cardinality(0 .. NumThreads - 1) =
             IF 0 > NumThreads - 1 THEN 0 ELSE (NumThreads - 1) - 0 + 1
    BY FS_Interval
  <2> QED BY <2>1 DEF Threads
<1>2. IsFiniteSet(1 .. NumIters) /\ Cardinality(1 .. NumIters) = NumIters
  <2>1. /\ IsFiniteSet(1 .. NumIters)
        /\ Cardinality(1 .. NumIters) = IF 1 > NumIters THEN 0 ELSE NumIters - 1 + 1
    BY FS_Interval
  <2> QED BY <2>1
<1> QED BY <1>1, <1>2, FS_Product

\* An operation performed is one increment more, or one decrement more.
LEMMA OnePerformed ==
  ASSUME NEW d \in [Threads -> Ops], NEW e \in [Threads -> Ops],
         NEW t \in Threads, d[t] < 2 * NumIters, e[t] = d[t] + 1,
         \A u \in Threads : u # t => e[u] = d[u]
  PROVE  /\ d[t] < NumIters =>
              /\ Cardinality(Increments(e)) = Cardinality(Increments(d)) + 1
              /\ Cardinality(Decrements(e)) = Cardinality(Decrements(d))
         /\ ~(d[t] < NumIters) =>
              /\ Cardinality(Increments(e)) = Cardinality(Increments(d))
              /\ Cardinality(Decrements(e)) = Cardinality(Decrements(d)) + 1
<1> USE ArgsAssumption
<1>1. d[t] \in Nat /\ NumIters \in Nat
  BY DEF Ops
<1>2. \A u \in Threads : d[u] \in Nat /\ e[u] \in Nat
  BY DEF Ops
<1>3. /\ IsFiniteSet(Increments(d)) /\ IsFiniteSet(Decrements(d))
  BY PerformedFinite DEF Increments, Decrements
<1>4. CASE d[t] < NumIters
  <2> DEFINE a == <<t, d[t] + 1>>
  <2>1. a \notin Increments(d) /\ a \in Increments(e)
    BY <1>1, <1>4 DEF Increments
  <2>2. ASSUME NEW b \in Threads \X (1 .. NumIters), b # a
        PROVE  b \in Increments(e) <=> b \in Increments(d)
    <3>1. PICK u \in Threads, k \in 1 .. NumIters : b = <<u, k>>
      OBVIOUS
    <3>2. CASE u = t
      BY <1>1, <2>2, <3>1, <3>2 DEF Increments
    <3> QED BY <1>2, <3>1, <3>2 DEF Increments
  <2>3. Increments(e) = Increments(d) \cup {a}
    BY <2>1, <2>2 DEF Increments
  <2>4. ASSUME NEW b \in Threads \X (1 .. NumIters)
        PROVE  b \in Decrements(e) <=> b \in Decrements(d)
    <3>1. PICK u \in Threads, k \in 1 .. NumIters : b = <<u, k>>
      OBVIOUS
    <3>2. CASE u = t
      BY <1>1, <1>4, <3>1, <3>2 DEF Decrements
    <3> QED BY <1>2, <3>1, <3>2 DEF Decrements
  <2>5. Decrements(e) = Decrements(d)
    BY <2>4 DEF Decrements
  <2> HIDE DEF a
  <2> QED BY <1>3, <1>4, <2>1, <2>3, <2>5, FS_AddElement
<1>5. CASE ~(d[t] < NumIters)
  <2> DEFINE a == <<t, d[t] + 1 - NumIters>>
  <2>1. a \notin Decrements(d) /\ a \in Decrements(e)
    BY <1>1, <1>5 DEF Decrements
  <2>2. ASSUME NEW b \in Threads \X (1 .. NumIters), b # a
        PROVE  b \in Decrements(e) <=> b \in Decrements(d)
    <3>1. PICK u \in Threads, k \in 1 .. NumIters : b = <<u, k>>
      OBVIOUS
    <3>2. CASE u = t
      BY <1>1, <2>2, <3>1, <3>2 DEF Decrements
    <3> QED BY <1>2, <3>1, <3>2 DEF Decrements
  <2>3. Decrements(e) = Decrements(d) \cup {a}
    BY <2>1, <2>2 DEF Decrements
  <2>4. ASSUME NEW b \in Threads \X (1 .. NumIters)
        PROVE  b \in Increments(e) <=> b \in Increments(d)
    <3>1. PICK u \in Threads, k \in 1 .. NumIters : b = <<u, k>>
      OBVIOUS
    <3>2. CASE u = t
      BY <1>1, <1>5, <3>1, <3>2 DEF Increments
    <3> QED BY <1>2, <3>1, <3>2 DEF Increments
  <2>5. Increments(e) = Increments(d)
    BY <2>4 DEF Increments
  <2> HIDE DEF a
  <2> QED BY <1>3, <1>5, <2>1, <2>3, <2>5, FS_AddElement
<1> QED BY <1>4, <1>5

\* The bounds are numbers.
LEMMA BoundsType == Ups \in Nat /\ Downs \in Nat
  BY PerformedFinite DEF Ups, Downs, Increments, Decrements

\* Loading the counter keeps the bounds: what is loaded is within them.
LEMMA BoundsLoad ==
  ASSUME Control, Bounds, NEW t \in Threads, Load(t)
  PROVE  Bounds'
<1>1. /\ UNCHANGED <<count, done>> /\ Ups' = Ups /\ Downs' = Downs
      /\ com' = [com EXCEPT ![t] = count]
      /\ pc \in [Threads -> Labels] /\ com \in [Threads -> Int]
      /\ \A u \in Threads : u # t => pc'[u] = pc[u]
      /\ Threads' = Threads
  BY DEF Load, Control, TypeOK, Ups, Downs, Increments, Decrements, Threads
<1>2. ASSUME NEW u \in Threads, pc'[u] = "store"
      PROVE  /\ com'[u] <= Ups /\ -Downs <= com'[u]
             /\ done[u] > 0 => 1 - Downs <= com'[u]
  <2>1. CASE u = t
    BY <1>1, <2>1 DEF Bounds
  <2>2. CASE u # t
    BY <1>1, <1>2, <2>2 DEF Bounds
  <2> QED BY <2>1, <2>2
<1> QED BY <1>1, <1>2 DEF Bounds

\* Storing a sum keeps them: the operation is now performed.
LEMMA BoundsStore ==
  ASSUME Control, Bounds, NEW t \in Threads, Store(t), myLock = "NONE"
  PROVE  Bounds'
<1> USE ArgsAssumption
<1>1. /\ pc[t] = "store" /\ Return(t) /\ UNCHANGED <<myLock, com, main>>
      /\ count' = com[t] + Value(done[t])
  BY DEF Store, At, Locked
<1>2. /\ done \in [Threads -> Ops] /\ done[t] < 2 * NumIters
      /\ com \in [Threads -> Int] /\ com[t] \in Int /\ done[t] \in Nat
  BY <1>1 DEF Control, TypeOK, Lifecycle, Ops
<1>3. /\ done' \in [Threads -> Ops] /\ done'[t] = done[t] + 1
      /\ \A u \in Threads : u # t => pc'[u] = pc[u] /\ done'[u] = done[u]
      /\ pc'[t] # "store"
  BY <1>1, ReturnControl
<1>4. /\ Ups \in Nat /\ Downs \in Nat
      /\ Ups' = Cardinality(Increments(done')) /\ Downs' = Cardinality(Decrements(done'))
  BY BoundsType DEF Ups, Downs, Increments, Decrements, Threads
<1>5. /\ done[t] < NumIters => Ups' = Ups + 1 /\ Downs' = Downs
      /\ ~(done[t] < NumIters) => Ups' = Ups /\ Downs' = Downs + 1
  BY <1>2, <1>3, <1>4, OnePerformed DEF Ups, Downs
<1>6. /\ com[t] <= Ups /\ -Downs <= com[t]
      /\ done[t] > 0 => 1 - Downs <= com[t]
  BY <1>1 DEF Bounds
<1>7. count' <= Ups' /\ 1 - Downs' <= count' /\ -Downs' <= count'
  <2>1. CASE done[t] < NumIters
    BY <1>1, <1>2, <1>4, <1>5, <1>6, <2>1 DEF Value
  <2>2. CASE ~(done[t] < NumIters)
    <3>1. done[t] > 0
      BY <1>2, <2>2
    <3> QED BY <1>1, <1>2, <1>4, <1>5, <1>6, <2>2, <3>1 DEF Value
  <2> QED BY <2>1, <2>2
<1>8. ASSUME NEW u \in Threads, pc'[u] = "store"
      PROVE  /\ com'[u] <= Ups' /\ -Downs' <= com'[u]
             /\ done'[u] > 0 => 1 - Downs' <= com'[u]
  <2>1. /\ u # t /\ pc[u] = "store" /\ done'[u] = done[u] /\ com'[u] = com[u]
        /\ com[u] \in Int
    BY <1>1, <1>2, <1>3, <1>8
  <2>2. Ups <= Ups' /\ -Downs' <= -Downs /\ 1 - Downs' <= 1 - Downs
        /\ Ups' \in Nat /\ Downs' \in Nat
    BY <1>4, <1>5
  <2> QED BY <1>4, <2>1, <2>2 DEF Bounds
<1>9. ASSUME \A u \in Threads : done'[u] = 2 * NumIters, NumIters > 0
      PROVE  count' <= Ups' - 1
  <2>1. ~(done[t] < NumIters)
    BY <1>2, <1>3, <1>9
  <2> QED BY <1>1, <1>2, <1>4, <1>5, <1>6, <2>1 DEF Value
<1>10. Threads' = Threads
  BY DEF Threads
<1> QED BY <1>7, <1>8, <1>9, <1>10 DEF Bounds

\* Every step keeps the bounds when there is no protection.
LEMMA DriftStep == Drift /\ [Next]_vars => Drift'
<1>0. ASSUME Drift, [Next]_vars
      PROVE  (status = "success" => NumThreads * NumIters # 0)'
  <2>1. CASE PrintOut
    BY ArgsAssumption, <2>1 DEF PrintOut
  <2>2. CASE ~PrintOut
    <3>1. status' = "success" => status = "success"
      BY <1>0, <2>2 DEF Next, ThreadStep, MainStep, Ended, vars, main, MutexLock, SpinLock,
           Load, Store, Unlock, CompareAndSwap, Create, CreateFails, Join
    <3> QED BY <1>0, <3>1 DEF Drift
  <2> QED BY <2>1, <2>2
<1> SUFFICES ASSUME Control, myLock = "NONE" => Bounds, [Next]_vars,
                    (myLock = "NONE")'
             PROVE  Bounds'
  BY <1>0, ControlStep DEF Drift
<1>1. myLock = "NONE"
  BY DEF Next, ThreadStep, MainStep, Ended, vars, MutexLock, SpinLock, Load,
         Store, Unlock, CompareAndSwap, Create, CreateFails, Join, PrintOut
<1>2. Bounds /\ LabelsOfMode /\ Lifecycle /\ TypeOK
  BY <1>1 DEF Control
<1>3. ASSUME UNCHANGED <<count, done, com>>,
             \A u \in Threads : pc'[u] = "store" => pc[u] = "store"
      PROVE  Bounds'
  BY <1>2, <1>3 DEF Bounds, Ups, Downs, Increments, Decrements, Threads
<1>4. ASSUME NEW t \in Threads, ThreadStep(t)
      PROVE  Bounds'
  <2>1. ~MutexLock(t) /\ ~SpinLock(t) /\ ~Unlock(t) /\ ~CompareAndSwap(t)
    BY <1>1, <1>2 DEF MutexLock, SpinLock, Unlock, CompareAndSwap, At,
                      LabelsOfMode, Locked
  <2> QED BY <1>1, <1>2, <1>4, <2>1, BoundsLoad, BoundsStore DEF ThreadStep
<1>5. CASE Create
  <2>1. /\ UNCHANGED <<count, done, com>> /\ pc \in [Threads -> Labels]
        /\ pc' = [pc EXCEPT ![created] = CallAfter(0)] /\ CallAfter(0) # "store"
    BY <1>2, <1>5 DEF Create, TypeOK, CallAfter
  <2> QED BY <1>3, <2>1
<1>6. CASE CreateFails \/ Join \/ PrintOut \/ UNCHANGED vars
  BY <1>3, <1>6 DEF CreateFails, Join, PrintOut, vars, thread
<1> QED BY <1>4, <1>5, <1>6 DEF Next, MainStep, Ended

-----------------------------------------------------------------------------
(* Theorems                                                                *)

\* IInv is an inductive invariant of the program.
THEOREM Inductive == Spec => []IInv
<1>1. Init => IInv
  <2> SUFFICES ASSUME Init PROVE IInv
    OBVIOUS
  <2>1. Effective \in [Threads -> Ops] /\ \A t \in Threads : Effective[t] = 0
    BY ArgsAssumption DEF Init, Effective, Ops
  <2>2. count = Cardinality(Outstanding(Effective))
    BY <2>1, NothingOutstanding DEF Init
  <2> QED BY <2>2, ControlInit DEF IInv, CountIsOutstanding
<1>2. IInv /\ [Next]_vars => IInv'
  BY ControlStep, CountStep DEF IInv
<1> QED BY <1>1, <1>2, PTL DEF Spec

\* Every variable keeps its type, for any number of threads and iterations.
THEOREM TypeCorrect == Spec => []TypeOK
<1>1. IInv => TypeOK
  BY DEF IInv, Control
<1> QED BY <1>1, Inductive, PTL

\* The mutex and the spin lock exclude: at most one thread is inside
\* mutex_add or spin_add between acquisition and release.
THEOREM Exclusion == Spec => []MutualExclusion
<1>1. IInv => MutualExclusion
  BY DEF IInv, Control, LockHeld, MutualExclusion, Locked
<1> QED BY <1>1, Inductive, PTL

\* No update is lost in a protected mode.
THEOREM NoLostUpdate == Spec => []CountIsOutstanding
<1>1. IInv => CountIsOutstanding
  BY DEF IInv
<1> QED BY <1>1, Inductive, PTL

\* The total a protected run prints is zero.
THEOREM ZeroAtEnd == Spec => []FinalCountZero
<1>1. IInv => FinalCountZero
  <2> SUFFICES ASSUME IInv, myLock # "NONE", status = "success"
               PROVE  count = 0
    BY DEF FinalCountZero
  <2>1. Effective \in [Threads -> Ops]
    BY EffectiveType DEF IInv
  <2>2. ASSUME NEW t \in Threads PROVE Effective[t] = 2 * NumIters
    <3>1. pc[t] = "exited" /\ done[t] = 2 * NumIters /\ done \in [Threads -> Ops]
      BY <2>2 DEF IInv, Control, TypeOK, Lifecycle, Threads
    <3> QED BY <3>1 DEF Effective, Ops
  <2> QED BY <2>1, <2>2, NothingOutstanding DEF IInv, CountIsOutstanding
<1> QED BY <1>1, Inductive, PTL

\* With no protection the bounds are an invariant of the program as well.
THEOREM DriftInductive == Spec => []Drift
<1>1. Init => Drift
  <2> SUFFICES ASSUME Init PROVE Drift
    OBVIOUS
  <2>1. Control /\ Ups \in Nat /\ Downs \in Nat
    BY ControlInit, BoundsType
  <2>2. /\ count = 0 /\ \A t \in Threads : done[t] = 0 /\ pc[t] = "none"
    BY DEF Init
  <2>3. Bounds
    BY ArgsAssumption, <2>1, <2>2 DEF Bounds
  <2>4. status # "success"
    BY DEF Init
  <2> QED BY <2>1, <2>3, <2>4 DEF Drift
<1>2. Drift /\ [Next]_vars => Drift'
  BY DriftStep
<1> QED BY <1>1, <1>2, PTL DEF Spec

\* Whatever updates are lost without protection, the printed total is off by
\* less than the number of increments, in either direction.
THEOREM DriftBounded == Spec => []ErrorBounded
<1>1. IInv /\ Drift => ErrorBounded
  <2> SUFFICES ASSUME IInv, Drift, status = "success"
               PROVE  /\ count <= NumThreads * NumIters - 1
                      /\ -count <= NumThreads * NumIters - 1
    BY DEF ErrorBounded
  <2> USE ArgsAssumption
  <2>1. Control /\ TypeOK /\ Lifecycle
    BY DEF IInv, Control
  <2>2. \A t \in Threads : done[t] = 2 * NumIters
    BY <2>1 DEF TypeOK, Lifecycle, Threads
  <2>3. NumThreads > 0 /\ NumIters > 0
    <3>1. NumThreads * NumIters # 0
      BY DEF Drift
    <3>2. NumThreads # 0 /\ NumIters # 0
      BY <3>1
    <3> QED BY <3>2
  <2>4. NumThreads * NumIters \in Nat /\ NumThreads * NumIters > 0
    BY <2>3
  <2>5. CASE myLock # "NONE"
    <3>1. count = 0
      <4>1. Effective \in [Threads -> Ops]
        BY <2>1, EffectiveType
      <4>2. ASSUME NEW t \in Threads PROVE Effective[t] = 2 * NumIters
        <5>1. pc[t] = "exited" /\ done[t] = 2 * NumIters
          BY <2>1, <2>2 DEF TypeOK, Lifecycle, Threads
        <5> QED BY <5>1 DEF Effective
      <4> QED BY <2>5, <4>1, <4>2, NothingOutstanding DEF IInv, CountIsOutstanding
    <3> QED BY <2>4, <3>1
  <2>6. CASE myLock = "NONE"
    <3>1. Increments(done) = Threads \X (1 .. NumIters)
      BY <2>2 DEF Increments
    <3>2. Decrements(done) = Threads \X (1 .. NumIters)
      BY <2>2 DEF Decrements
    <3>3. Ups = NumThreads * NumIters /\ Downs = NumThreads * NumIters
      BY <3>1, <3>2, AllPerformed DEF Ups, Downs
    <3>4. 0 \in Threads
      BY <2>3 DEF Threads
    <3>5. count <= Ups - 1 /\ 1 - Downs <= count /\ count \in Int
      <4>1. Bounds
        BY <2>6 DEF Drift
      <4>2. done[0] > 0
        BY <2>2, <2>3, <3>4
      <4> QED BY <2>1, <2>2, <2>3, <3>4, <4>1, <4>2 DEF Bounds, TypeOK
    <3> QED BY <2>4, <3>3, <3>5
  <2> QED BY <2>5, <2>6
<1> QED BY <1>1, Inductive, DriftInductive, PTL

\* In the protected modes every step of the program is an atomic addition of
\* one thread, or a step the atomic counter does not see.
THEOREM Atomicity == Spec => AddsAreAtomic
<1>1. Init => Atomic!Init
  <2> SUFFICES ASSUME Init PROVE Atomic!Init
    OBVIOUS
  <2>1. \A t \in Threads : Effective[t] = 0
    BY DEF Init, Effective
  <2>2. Atomic!Threads = Threads /\ Effective = [t \in Threads |-> 0]
    BY <2>1 DEF Effective, Atomic!Threads, Threads
  <2> QED BY <2>2 DEF Init, Atomic!Init
<1>2. IInv /\ [Next]_vars => (myLock # "NONE" => [Atomic!Next]_<<count, Effective>>)
  <2> SUFFICES ASSUME Control, [Next]_vars, myLock # "NONE"
               PROVE  Atomic!Next \/ UNCHANGED <<count, Effective>>
    BY DEF IInv
  <2>1. ASSUME NEW t \in Threads, EffectOfAdd(t) PROVE Atomic!Next
    BY <2>1 DEF EffectOfAdd, Atomic!Next, Atomic!Add, Atomic!Value,
                Atomic!Threads, Threads, Value
  <2> QED BY <2>1, StepEffect
<1>3. IInv /\ [Next]_vars =>
        [myLock # "NONE" => [Atomic!Next]_<<count, Effective>>]_vars
  BY <1>2
<1> QED BY <1>1, <1>3, Inductive, PTL DEF Spec, AddsAreAtomic

\* Started in protected modes only, the program implements the atomic counter.
THEOREM Refinement ==
  ASSUME "NONE" \notin Syncs  PROVE Spec => Atomic!Spec
<1>1. IInv /\ [myLock # "NONE" => [Atomic!Next]_<<count, Effective>>]_vars
        => [Atomic!Next]_<<count, Effective>>
  <2> SUFFICES ASSUME Control, UNCHANGED vars
               PROVE  UNCHANGED <<count, Effective>>
    BY DEF IInv, Control, TypeOK
  <2> QED BY DEF vars, thread, Effective
<1> QED BY <1>1, Atomicity, Inductive, PTL DEF AddsAreAtomic, Atomic!Spec
=============================================================================
