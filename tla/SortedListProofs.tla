-------------------------- MODULE SortedListProofs --------------------------
(***************************************************************************)
(* Proofs about SortedList, for any callers, elements, lists and keys, and *)
(* any interleaving of unprotected calls: no NULL pointer is dereferenced, *)
(* and every list leads back to its header.  A list that one call at a     *)
(* time works on is a sound ring, and lookups and lengths of it are exact. *)
(***************************************************************************)
EXTENDS SortedList, FiniteSetTheorems, WellFoundedInduction, TLAPS

\* Both links of the node are set.  They never become NULL again.
Ready(n) == n \in Nodes /\ next[n] \in Nodes /\ prev[n] \in Nodes

\* A link that is set leads to a node whose links are set.
LinksReady ==
  \A n \in Nodes :
    /\ n \in Headers => Ready(n)
    /\ next[n] # NULL => Ready(next[n])
    /\ prev[n] # NULL => Ready(prev[n])

\* The pointers a call holds, while it is going to use them.
CallReady(c) ==
  /\ call[c].at = "first" => call[c].list \in Headers
  /\ call[c].at \in UsesTemp \cup {"link", "testPrev", "testNext", "unlinkNow"}
       => Ready(call[c].temp)
  /\ call[c].op = "lookup" /\ call[c].temp # NULL => Ready(call[c].temp)
  /\ call[c].at \in UsesPred \cup {"unlinkSucc", "unlinkBack"}
       => Ready(call[c].pred)
  /\ call[c].at \in UsesSucc \cup {"unlinkNow", "unlinkBackPred"}
       => Ready(call[c].succ)
  /\ call[c].op = "insert" => call[c].elm \in Elms
  /\ call[c].at \in {"setPrev", "getPred", "link", "linkBack"} =>
       call[c].elm \in Elms /\ next[call[c].elm] \in Nodes
  /\ call[c].at \in {"getPred", "link", "linkBack"} => Ready(call[c].elm)

IInv == HeapTypeOK /\ LinksReady /\ \A c \in Callers : CallReady(c)

Frames == [op : {"none", "insert", "length", "lookup", "delete"}, at : Labels,
           list : Headers \cup {NULL}, elm : Elms \cup {NULL},
           temp : Nodes \cup {NULL}, pred : Nodes \cup {NULL},
           succ : Nodes \cup {NULL}, rc : Int]

\* NULL is not a node.
LEMMA NullIsNoNode == NULL \notin Nodes
  BY NodesAssumption DEF NULL, Nodes

\* What every step does: it sets links to ready nodes only, and gives its
\* caller a frame whose pointers are good.  Then the invariant is preserved.
LEMMA StepKeeps ==
  ASSUME IInv, NEW c \in Callers, UNCHANGED key,
         next' \in [Nodes -> Nodes \cup {NULL}],
         prev' \in [Nodes -> Nodes \cup {NULL}],
         \A n \in Nodes :
           /\ next'[n] = next[n] \/ Ready(next'[n])
           /\ prev'[n] = prev[n] \/ Ready(prev'[n]),
         NEW f \in Frames, call' = [call EXCEPT ![c] = f], CallReady(c)'
  PROVE  IInv'
<1>1. HeapTypeOK'
  BY DEF IInv, HeapTypeOK, Frames
<1>2. ASSUME NEW n, Ready(n) PROVE Ready(n)'
  BY <1>2 DEF Ready
<1>3. LinksReady'
  BY <1>2 DEF IInv, LinksReady
<1>4. ASSUME NEW d \in Callers, d # c PROVE CallReady(d)'
  <2>1. call'[d] = call[d] /\ call[d] \in Frames
    BY <1>4 DEF IInv, HeapTypeOK, Frames
  <2>2. CallReady(d)
    BY DEF IInv
  <2>3. \A n \in Nodes : next[n] \in Nodes => next'[n] \in Nodes
    BY DEF Ready
  <2>4. Elms \subseteq Nodes
    BY DEF Nodes
  <2> QED BY <1>2, <2>1, <2>2, <2>3, <2>4 DEF CallReady
<1> QED BY <1>1, <1>3, <1>4 DEF IInv

\* The same for the steps that only read the lists.
LEMMA ReadKeeps ==
  ASSUME IInv, NEW c \in Callers, UNCHANGED heap,
         NEW f \in Frames, call' = [call EXCEPT ![c] = f], CallReady(c)'
  PROVE  IInv'
<1>1. /\ next' = next /\ prev' = prev /\ key' = key
      /\ next \in [Nodes -> Nodes \cup {NULL}]
      /\ prev \in [Nodes -> Nodes \cup {NULL}]
  BY DEF heap, IInv, HeapTypeOK
<1> QED BY <1>1, StepKeeps

\* temp = list->next
LEMMA FirstKeeps ==
  ASSUME IInv, NEW c \in Callers, First(c)  PROVE IInv'
<1> DEFINE f == [call[c] EXCEPT !.at = "scan", !.temp = next[call[c].list]]
<1>1. call[c] \in Frames /\ call[c].list \in Headers /\ Ready(next[call[c].list])
  BY NullIsNoNode DEF IInv, HeapTypeOK, Frames, First, CallReady, LinksReady,
                      Ready, Nodes
<1>2. f \in Frames
  BY <1>1 DEF Frames, Labels, Ready
<1>3. UNCHANGED heap /\ call' = [call EXCEPT ![c] = f]
  BY DEF First, IInv, HeapTypeOK
<1>4. CallReady(c)'
  <2>1. call'[c] = f
    BY <1>3 DEF IInv, HeapTypeOK
  <2> QED BY <1>1, <1>3, <2>1 DEF IInv, CallReady, Ready, Frames, heap,
                                  UsesTemp, UsesPred, UsesSucc, AfterPred, AfterSucc
<1> QED BY <1>2, <1>3, <1>4, ReadKeeps

\* temp = temp->next
LEMMA AdvanceKeeps ==
  ASSUME IInv, NEW c \in Callers, Advance(c)  PROVE IInv'
<1> DEFINE f == [call[c] EXCEPT
                   !.at = "scan", !.temp = next[@],
                   !.rc = IF call[c].op = "length" THEN @ + 1 ELSE @]
<1>1. call[c] \in Frames /\ CallReady(c)
  BY DEF IInv, HeapTypeOK, Frames
<1>2. Ready(call[c].temp) /\ Ready(next[call[c].temp])
  BY <1>1, NullIsNoNode DEF IInv, Advance, CallReady, LinksReady, Ready, UsesTemp
<1>3. f \in Frames
  <2>1. call[c].rc \in Int
    BY <1>1 DEF Frames
  <2>2. (IF call[c].op = "length" THEN call[c].rc + 1 ELSE call[c].rc) \in Int
    BY <2>1
  <2> QED BY <1>1, <1>2, <2>2 DEF Frames, Labels, Ready
<1>4. UNCHANGED heap /\ call' = [call EXCEPT ![c] = f]
  BY DEF Advance, IInv, HeapTypeOK
<1>5. CallReady(c)'
  <2>1. call'[c] = f
    BY <1>4 DEF IInv, HeapTypeOK
  <2> QED BY <1>1, <1>2, <1>4, <2>1 DEF CallReady, Ready, Frames, heap,
                                  UsesTemp, UsesPred, UsesSucc, AfterPred, AfterSucc
<1> QED BY <1>3, <1>4, <1>5, ReadKeeps

\* element->next = temp
LEMMA SetNextKeeps ==
  ASSUME IInv, NEW c \in Callers, SetNext(c)  PROVE IInv'
<1> DEFINE f == [call[c] EXCEPT !.at = "setPrev"]
<1>1. call[c] \in Frames /\ CallReady(c) /\ f \in Frames
  BY DEF IInv, HeapTypeOK, Frames, Labels
<1>2. Ready(call[c].temp) /\ call[c].elm \in Elms
  BY <1>1 DEF SetNext, CallReady, UsesTemp
<1>3. /\ call' = [call EXCEPT ![c] = f] /\ UNCHANGED <<key, prev>>
      /\ next' = [next EXCEPT ![call[c].elm] = call[c].temp]
      /\ call'[c] = f
  BY DEF SetNext, IInv, HeapTypeOK
<1>4. /\ next' \in [Nodes -> Nodes \cup {NULL}]
      /\ prev' \in [Nodes -> Nodes \cup {NULL}]
      /\ \A n \in Nodes : next'[n] = next[n] \/ Ready(next'[n])
      /\ next'[call[c].elm] = call[c].temp
  BY <1>2, <1>3 DEF IInv, HeapTypeOK, Ready, Nodes
<1>5. CallReady(c)'
  BY <1>1, <1>2, <1>3, <1>4 DEF CallReady, Ready, Frames, Nodes,
                                UsesTemp, UsesPred, UsesSucc, AfterPred, AfterSucc
<1> QED BY <1>1, <1>3, <1>4, <1>5, StepKeeps

\* element->prev = temp->prev
LEMMA SetPrevKeeps ==
  ASSUME IInv, NEW c \in Callers, SetPrev(c)  PROVE IInv'
<1> DEFINE f == [call[c] EXCEPT !.at = "getPred"]
<1>1. call[c] \in Frames /\ CallReady(c) /\ f \in Frames
  BY DEF IInv, HeapTypeOK, Frames, Labels
<1>2. /\ Ready(call[c].temp) /\ Ready(prev[call[c].temp])
      /\ call[c].elm \in Elms /\ next[call[c].elm] \in Nodes
  BY <1>1, NullIsNoNode DEF IInv, SetPrev, CallReady, LinksReady, Ready, UsesTemp
<1>3. /\ call' = [call EXCEPT ![c] = f] /\ UNCHANGED <<key, next>>
      /\ prev' = [prev EXCEPT ![call[c].elm] = prev[call[c].temp]]
      /\ call'[c] = f
  BY DEF SetPrev, IInv, HeapTypeOK
<1>4. /\ next' \in [Nodes -> Nodes \cup {NULL}]
      /\ prev' \in [Nodes -> Nodes \cup {NULL}]
      /\ \A n \in Nodes : prev'[n] = prev[n] \/ Ready(prev'[n])
      /\ prev'[call[c].elm] = prev[call[c].temp]
  BY <1>2, <1>3 DEF IInv, HeapTypeOK, Ready, Nodes
<1>5. Ready(call[c].temp)' /\ Ready(call[c].elm)'
  BY <1>2, <1>3, <1>4 DEF Ready, Nodes
<1>6. CallReady(c)'
  BY <1>1, <1>2, <1>3, <1>5 DEF CallReady, Ready, Frames,
                                UsesTemp, UsesPred, UsesSucc, AfterPred, AfterSucc
<1> QED BY <1>1, <1>3, <1>4, <1>6, StepKeeps

\* temp->prev->next = element
LEMMA LinkKeeps ==
  ASSUME IInv, NEW c \in Callers, Link(c)  PROVE IInv'
<1> DEFINE f == [call[c] EXCEPT !.at = "linkBack"]
<1>1. call[c] \in Frames /\ CallReady(c) /\ f \in Frames
  BY DEF IInv, HeapTypeOK, Frames, Labels
<1>2. /\ Ready(call[c].pred) /\ Ready(call[c].elm) /\ call[c].elm \in Elms
      /\ call[c].at = "link"
  BY <1>1 DEF Link, CallReady, UsesPred
<1>3. /\ call' = [call EXCEPT ![c] = f] /\ UNCHANGED <<key, prev>>
      /\ next' = [next EXCEPT ![call[c].pred] = call[c].elm]
      /\ call'[c] = f
  BY DEF Link, IInv, HeapTypeOK
<1>4. /\ next' \in [Nodes -> Nodes \cup {NULL}]
      /\ prev' \in [Nodes -> Nodes \cup {NULL}]
      /\ \A n \in Nodes : next'[n] = next[n] \/ Ready(next'[n])
  BY <1>2, <1>3 DEF IInv, HeapTypeOK, Ready
<1>5. \A n \in Nodes : Ready(n) => Ready(n)'
  BY <1>3, <1>4 DEF Ready
<1>6. CallReady(c)'
  BY <1>1, <1>2, <1>3, <1>5 DEF CallReady, Ready, Frames, Link,
                                UsesTemp, UsesPred, UsesSucc, AfterPred, AfterSucc
<1> QED BY <1>1, <1>3, <1>4, <1>6, StepKeeps

\* temp->prev = element
LEMMA LinkBackKeeps ==
  ASSUME IInv, NEW c \in Callers, LinkBack(c)  PROVE IInv'
<1> DEFINE f == [call[c] EXCEPT !.at = "return"]
<1>1. call[c] \in Frames /\ CallReady(c) /\ f \in Frames
  BY DEF IInv, HeapTypeOK, Frames, Labels
<1>2. Ready(call[c].temp) /\ Ready(call[c].elm) /\ call[c].elm \in Elms
  BY <1>1 DEF LinkBack, CallReady, UsesTemp
<1>3. /\ call' = [call EXCEPT ![c] = f] /\ UNCHANGED <<key, next>>
      /\ prev' = [prev EXCEPT ![call[c].temp] = call[c].elm]
      /\ call'[c] = f
  BY DEF LinkBack, IInv, HeapTypeOK
<1>4. /\ next' \in [Nodes -> Nodes \cup {NULL}]
      /\ prev' \in [Nodes -> Nodes \cup {NULL}]
      /\ \A n \in Nodes : prev'[n] = prev[n] \/ Ready(prev'[n])
  BY <1>2, <1>3 DEF IInv, HeapTypeOK, Ready
<1>5. \A n \in Nodes : Ready(n) => Ready(n)'
  BY <1>3, <1>4 DEF Ready
<1>6. CallReady(c)'
  BY <1>1, <1>2, <1>3, <1>5 DEF CallReady, Ready, Frames,
                                UsesTemp, UsesPred, UsesSucc, AfterPred, AfterSucc
<1> QED BY <1>1, <1>3, <1>4, <1>6, StepKeeps

\* pred = temp->prev
LEMMA LoadPredKeeps ==
  ASSUME IInv, NEW c \in Callers, LoadPred(c)  PROVE IInv'
<1> DEFINE f == [call[c] EXCEPT !.at = AfterPred[@], !.pred = prev[call[c].temp]]
<1>1. call[c] \in Frames /\ CallReady(c)
  BY DEF IInv, HeapTypeOK, Frames
<1>2. Ready(call[c].temp) /\ Ready(prev[call[c].temp])
  BY <1>1, NullIsNoNode DEF IInv, LoadPred, CallReady, LinksReady, Ready, UsesTemp
<1>3. \/ call[c].at = "getPred" /\ AfterPred[call[c].at] = "link"
      \/ call[c].at = "getPrev" /\ AfterPred[call[c].at] = "testPrev"
      \/ call[c].at = "unlink" /\ AfterPred[call[c].at] = "unlinkSucc"
      \/ call[c].at = "unlinkBackPred" /\ AfterPred[call[c].at] = "unlinkBack"
  BY DEF LoadPred, AfterPred
<1>4. f \in Frames
  BY <1>1, <1>2, <1>3 DEF Frames, Labels, Ready
<1>5. UNCHANGED heap /\ call' = [call EXCEPT ![c] = f] /\ call'[c] = f
  BY DEF LoadPred, IInv, HeapTypeOK
<1>6. CallReady(c)'
  BY <1>1, <1>2, <1>3, <1>5 DEF CallReady, Ready, Frames, heap,
                                UsesTemp, UsesPred, UsesSucc, AfterPred, AfterSucc
<1> QED BY <1>4, <1>5, <1>6, ReadKeeps

\* succ = temp->next
LEMMA LoadSuccKeeps ==
  ASSUME IInv, NEW c \in Callers, LoadSucc(c)  PROVE IInv'
<1> DEFINE f == [call[c] EXCEPT !.at = AfterSucc[@], !.succ = next[call[c].temp]]
<1>1. call[c] \in Frames /\ CallReady(c)
  BY DEF IInv, HeapTypeOK, Frames
<1>2. Ready(call[c].temp) /\ Ready(next[call[c].temp])
  BY <1>1, NullIsNoNode DEF IInv, LoadSucc, CallReady, LinksReady, Ready, UsesTemp
<1>3. \/ call[c].at = "getNext" /\ AfterSucc[call[c].at] = "testNext"
      \/ call[c].at = "unlinkSucc" /\ AfterSucc[call[c].at] = "unlinkNow"
      \/ call[c].at = "unlinkBackSucc" /\ AfterSucc[call[c].at] = "unlinkBackPred"
  BY DEF LoadSucc, AfterSucc
<1>4. f \in Frames
  BY <1>1, <1>2, <1>3 DEF Frames, Labels, Ready
<1>5. UNCHANGED heap /\ call' = [call EXCEPT ![c] = f] /\ call'[c] = f
  BY DEF LoadSucc, IInv, HeapTypeOK
<1>6. CallReady(c)'
  BY <1>1, <1>2, <1>3, <1>5 DEF CallReady, Ready, Frames, heap,
                                UsesTemp, UsesPred, UsesSucc, AfterPred, AfterSucc
<1> QED BY <1>4, <1>5, <1>6, ReadKeeps

\* The tests prev->next # temp and next->prev # temp.
LEMMA TestKeeps ==
  ASSUME IInv, NEW c \in Callers, TestPrev(c) \/ TestNext(c)  PROVE IInv'
<1>1. call[c] \in Frames /\ CallReady(c)
  BY DEF IInv, HeapTypeOK, Frames
<1>2. call[c].at \in {"testPrev", "testNext"} /\ Ready(call[c].temp)
  BY <1>1 DEF TestPrev, TestNext, Test, CallReady
<1>3. UNCHANGED heap
  BY DEF TestPrev, TestNext, Test
<1>4. ASSUME NEW l \in {"getNext", "unlink", "consistent", "getPrev"},
             call' = [call EXCEPT ![c].at = l]
      PROVE  IInv'
  <2> DEFINE f == [call[c] EXCEPT !.at = l]
  <2>1. f \in Frames
    BY <1>1 DEF Frames, Labels
  <2>2. call' = [call EXCEPT ![c] = f] /\ call'[c] = f
    BY <1>4 DEF IInv, HeapTypeOK
  <2>3. CallReady(c)'
    BY <1>1, <1>2, <1>3, <2>2 DEF CallReady, Ready, Frames, heap,
                          UsesTemp, UsesPred, UsesSucc, AfterPred, AfterSucc
  <2> QED BY <1>3, <2>1, <2>2, <2>3, ReadKeeps
<1>5. ASSUME NEW r \in Int,
             call' = [call EXCEPT ![c].at = "return", ![c].rc = r]
      PROVE  IInv'
  <2> DEFINE f == [call[c] EXCEPT !.at = "return", !.rc = r]
  <2>1. f \in Frames
    BY <1>1 DEF Frames, Labels
  <2>2. call' = [call EXCEPT ![c] = f] /\ call'[c] = f
    BY <1>5 DEF IInv, HeapTypeOK
  <2>3. CallReady(c)'
    BY <1>1, <1>2, <1>3, <2>2 DEF CallReady, Ready, Frames, heap,
                          UsesTemp, UsesPred, UsesSucc, AfterPred, AfterSucc
  <2> QED BY <1>3, <2>1, <2>2, <2>3, ReadKeeps
<1> QED BY <1>4, <1>5 DEF TestPrev, TestNext, Test

\* element->prev->next = element->next
LEMMA UnlinkKeeps ==
  ASSUME IInv, NEW c \in Callers, Unlink(c)  PROVE IInv'
<1> DEFINE f == [call[c] EXCEPT !.at = "unlinkBackSucc"]
<1>1. call[c] \in Frames /\ CallReady(c) /\ f \in Frames
  BY DEF IInv, HeapTypeOK, Frames, Labels
<1>2. /\ Ready(call[c].temp) /\ Ready(call[c].pred) /\ Ready(call[c].succ)
      /\ call[c].at = "unlinkNow"
  BY <1>1 DEF Unlink, CallReady, UsesPred
<1>3. /\ call' = [call EXCEPT ![c] = f] /\ UNCHANGED <<key, prev>>
      /\ next' = [next EXCEPT ![call[c].pred] = call[c].succ]
      /\ call'[c] = f
  BY DEF Unlink, IInv, HeapTypeOK
<1>4. /\ next' \in [Nodes -> Nodes \cup {NULL}]
      /\ prev' \in [Nodes -> Nodes \cup {NULL}]
      /\ \A n \in Nodes : next'[n] = next[n] \/ Ready(next'[n])
  BY <1>2, <1>3 DEF IInv, HeapTypeOK, Ready
<1>5. \A n \in Nodes : Ready(n) => Ready(n)'
  BY <1>3, <1>4 DEF Ready
<1>6. CallReady(c)'
  <2>1. Ready(call[c].temp)'
    BY <1>1, <1>2, <1>3, <1>5 DEF Ready, Frames
  <2> QED BY <1>1, <1>2, <1>3, <1>5, <2>1 DEF CallReady, Frames,
                                UsesTemp, UsesPred, UsesSucc, AfterPred, AfterSucc
<1> QED BY <1>1, <1>3, <1>4, <1>6, StepKeeps

\* element->next->prev = element->prev
LEMMA UnlinkBackKeeps ==
  ASSUME IInv, NEW c \in Callers, UnlinkBack(c)  PROVE IInv'
<1> DEFINE f == [call[c] EXCEPT !.at = "return"]
<1>1. call[c] \in Frames /\ CallReady(c) /\ f \in Frames
  BY DEF IInv, HeapTypeOK, Frames, Labels
<1>2. Ready(call[c].pred) /\ Ready(call[c].succ) /\ call[c].at = "unlinkBack"
  BY <1>1 DEF UnlinkBack, CallReady, UsesSucc
<1>3. /\ call' = [call EXCEPT ![c] = f] /\ UNCHANGED <<key, next>>
      /\ prev' = [prev EXCEPT ![call[c].succ] = call[c].pred]
      /\ call'[c] = f
  BY DEF UnlinkBack, IInv, HeapTypeOK
<1>4. /\ next' \in [Nodes -> Nodes \cup {NULL}]
      /\ prev' \in [Nodes -> Nodes \cup {NULL}]
      /\ \A n \in Nodes : prev'[n] = prev[n] \/ Ready(prev'[n])
  BY <1>2, <1>3 DEF IInv, HeapTypeOK, Ready
<1>5. \A n \in Nodes : Ready(n) => Ready(n)'
  BY <1>3, <1>4 DEF Ready
<1>6. CallReady(c)'
  BY <1>1, <1>2, <1>3, <1>5 DEF CallReady, Ready, Frames,
                                UsesTemp, UsesPred, UsesSucc, AfterPred, AfterSucc
<1> QED BY <1>1, <1>3, <1>4, <1>6, StepKeeps

\* The end of lookup: temp is the element found or becomes NULL.
LEMMA LookupEndsKeeps ==
  ASSUME IInv, NEW c \in Callers, LookupEnds(c)  PROVE IInv'
<1>1. call[c] \in Frames /\ CallReady(c)
  BY DEF IInv, HeapTypeOK, Frames
<1>2. call[c].at = "scan" /\ Ready(call[c].temp)
  BY <1>1 DEF LookupEnds, CallReady, UsesTemp
<1> DEFINE m == IF ~AtHeader(c) /\ key[call[c].temp] = key[call[c].elm]
                  THEN call[c].temp ELSE NULL
<1>3. /\ call' = [call EXCEPT ![c].at = "return", ![c].temp = m]
      /\ m \in {call[c].temp, NULL}
  BY DEF LookupEnds
<1> HIDE DEF m
<1> DEFINE f == [call[c] EXCEPT !.at = "return", !.temp = m]
<1>4. f \in Frames
  BY <1>1, <1>2, <1>3 DEF Frames, Labels, Ready
<1>5. UNCHANGED heap /\ call' = [call EXCEPT ![c] = f] /\ call'[c] = f
  BY <1>3 DEF LookupEnds, IInv, HeapTypeOK
<1>6. CallReady(c)'
  BY <1>1, <1>2, <1>3, <1>5 DEF CallReady, Ready, Frames, heap,
                          UsesTemp, UsesPred, UsesSucc, AfterPred, AfterSucc
<1> QED BY <1>4, <1>5, <1>6, ReadKeeps

\* The condition of length's loop.
LEMMA LengthScanKeeps ==
  ASSUME IInv, NEW c \in Callers, LengthScan(c)  PROVE IInv'
<1>1. call[c] \in Frames /\ CallReady(c)
  BY DEF IInv, HeapTypeOK, Frames
<1>2. call[c].at = "scan" /\ Ready(call[c].temp)
  BY <1>1 DEF LengthScan, CallReady, UsesTemp
<1>3. PICK l \in {"return", "getPrev"} : call' = [call EXCEPT ![c].at = l]
  BY DEF LengthScan
<1> DEFINE f == [call[c] EXCEPT !.at = l]
<1>4. f \in Frames
  BY <1>1 DEF Frames, Labels
<1>5. UNCHANGED heap /\ call' = [call EXCEPT ![c] = f] /\ call'[c] = f
  BY <1>3 DEF LengthScan, IInv, HeapTypeOK
<1>6. CallReady(c)'
  BY <1>1, <1>2, <1>5 DEF CallReady, Ready, Frames, heap,
                          UsesTemp, UsesPred, UsesSucc, AfterPred, AfterSucc
<1> QED BY <1>4, <1>5, <1>6, ReadKeeps

\* A call begins, goes on from lookup to delete, or ends.
LEMMA ClientKeeps ==
  ASSUME IInv, NEW c \in Callers, ClientStep(c)  PROVE IInv'
<1>0. Idle \in Frames
  BY DEF Idle, Frames, Labels
<1>1. CASE \/ \E l \in Headers, e \in Elms : BeginInsert(c, l, e) \/ BeginLookup(c, l, e)
           \/ \E l \in Headers : BeginLength(c, l)
  <2>1. PICK o \in {"insert", "length", "lookup"}, l \in Headers,
             e \in Elms \cup {NULL} :
          /\ call' = [call EXCEPT ![c] =
               [Idle EXCEPT !.op = o, !.at = "first", !.list = l, !.elm = e]]
          /\ o = "insert" => e \in Elms
    BY <1>1 DEF BeginInsert, BeginLookup, BeginLength, Begin
  <2> DEFINE f == [Idle EXCEPT !.op = o, !.at = "first", !.list = l, !.elm = e]
  <2>2. f \in Frames
    BY <1>0 DEF Idle, Frames, Labels
  <2>3. UNCHANGED heap /\ call' = [call EXCEPT ![c] = f] /\ call'[c] = f
    BY <2>1 DEF ClientStep, IInv, HeapTypeOK
  <2>4. CallReady(c)'
    BY <2>1, <2>3 DEF CallReady, Idle, UsesTemp, UsesPred, UsesSucc,
                      AfterPred, AfterSucc
  <2> QED BY <2>2, <2>3, <2>4, ReadKeeps
<1>2. CASE DeleteFound(c)
  <2> DEFINE f == [Idle EXCEPT !.op = "delete", !.at = "getNext",
                               !.temp = call[c].temp]
  <2>1. Ready(call[c].temp)
    BY <1>2 DEF DeleteFound, IInv, CallReady
  <2>2. f \in Frames
    BY <1>0, <2>1 DEF Idle, Frames, Labels, Ready
  <2>3. UNCHANGED heap /\ call' = [call EXCEPT ![c] = f] /\ call'[c] = f
    BY <1>2 DEF ClientStep, DeleteFound, BeginDelete, IInv, HeapTypeOK
  <2>4. /\ call'[c].temp = call[c].temp
        /\ call'[c].op = "delete" /\ call'[c].at = "getNext"
    <3>1. f.temp = call[c].temp /\ f.op = "delete" /\ f.at = "getNext"
      BY DEF Idle
    <3> HIDE DEF f
    <3> QED BY <2>3, <3>1
  <2>5. CallReady(c)'
    BY <2>1, <2>3, <2>4 DEF heap, CallReady, Ready, UsesTemp, UsesPred, UsesSucc,
                      AfterPred, AfterSucc
  <2> QED BY <2>2, <2>3, <2>5, ReadKeeps
<1>3. CASE Finish(c)
  <2>1. UNCHANGED heap /\ call' = [call EXCEPT ![c] = Idle] /\ call'[c] = Idle
    BY <1>3 DEF ClientStep, Finish, IInv, HeapTypeOK
  <2>2. CallReady(c)'
    BY <2>1 DEF CallReady, Idle, UsesTemp, UsesPred, UsesSucc,
                      AfterPred, AfterSucc
  <2> QED BY <1>0, <2>1, <2>2, ReadKeeps
<1> QED BY <1>1, <1>2, <1>3 DEF ClientStep

-----------------------------------------------------------------------------

\* The empty lists satisfy the invariant.
LEMMA InitKeeps ==
  ASSUME HeapInit  PROVE IInv
<1>1. HeapTypeOK
  <2>1. Idle \in Frames
    BY DEF Idle, Frames, Labels
  <2>2. call \in [Callers -> Frames]
    BY <2>1 DEF HeapInit
  <2> QED BY <2>2 DEF HeapInit, HeapTypeOK, Frames, Nodes
<1>2. LinksReady
  BY DEF HeapInit, LinksReady, Ready, Nodes
<1>3. \A c \in Callers : CallReady(c)
  BY DEF HeapInit, CallReady, Idle, UsesTemp, UsesPred, UsesSucc,
         AfterPred, AfterSucc
<1> QED BY <1>1, <1>2, <1>3 DEF IInv

\* Every step keeps the invariant.
LEMMA NextKeeps ==
  ASSUME IInv, [Next]_vars  PROVE IInv'
<1>1. CASE \E c \in Callers : ListStep(c)
  BY <1>1, FirstKeeps, AdvanceKeeps, SetNextKeeps, SetPrevKeeps, LinkKeeps,
     LinkBackKeeps, LoadPredKeeps, LoadSuccKeeps, TestKeeps, UnlinkKeeps,
     UnlinkBackKeeps, LookupEndsKeeps, LengthScanKeeps DEF ListStep
<1>2. CASE \E c \in Callers : ClientStep(c)
  BY <1>2, ClientKeeps
<1>3. CASE UNCHANGED vars
  BY <1>3 DEF vars, IInv, HeapTypeOK, LinksReady, CallReady, Ready
<1> QED BY <1>1, <1>2, <1>3 DEF Next

\* What a step of a call leaves as it is: the keys, the other calls, what its
\* own call is asked to do, and, where next is NULL, everything but the element
\* it inserts.
LEMMA ListStepLeaves ==
  ASSUME IInv, NEW c \in Callers, ListStep(c)
  PROVE  /\ UNCHANGED key
         /\ \A d \in Callers : /\ d # c => call'[d] = call[d]
                               /\ call'[d].op = call[d].op /\ call'[d].elm = call[d].elm
         /\ \A n \in Nodes : \/ next[n] \in Nodes \/ next'[n] = next[n]
                             \/ call[c].op = "insert" /\ n = call[c].elm
<1>1. /\ call \in [Callers -> Frames] /\ next \in [Nodes -> Nodes \cup {NULL}]
      /\ CallReady(c)
  BY DEF IInv, HeapTypeOK, Frames
<1>2. UNCHANGED key
  BY DEF ListStep, First, Advance, SetNext, SetPrev, Link, LinkBack, LoadPred, LoadSucc,
         TestPrev, TestNext, Test, Unlink, UnlinkBack, LookupEnds, LengthScan, heap
<1>3. \A d \in Callers : d # c => call'[d] = call[d]
  BY <1>1 DEF ListStep, First, Advance, SetNext, SetPrev, Link, LinkBack, LoadPred, LoadSucc,
       TestPrev, TestNext, Test, Unlink, UnlinkBack, LookupEnds, LengthScan
<1>4. call'[c].op = call[c].op /\ call'[c].elm = call[c].elm
  <2>1. CASE First(c) \/ Advance(c) \/ SetNext(c) \/ SetPrev(c) \/ Link(c) \/ LinkBack(c)
    BY <1>1, <2>1 DEF First, Advance, SetNext, SetPrev, Link, LinkBack, Frames
  <2>2. CASE LoadPred(c) \/ LoadSucc(c) \/ TestPrev(c) \/ TestNext(c)
    BY <1>1, <2>2 DEF LoadPred, LoadSucc, TestPrev, TestNext, Test, Frames
  <2>3. CASE Unlink(c) \/ UnlinkBack(c) \/ LookupEnds(c) \/ LengthScan(c)
    BY <1>1, <2>3 DEF Unlink, UnlinkBack, LookupEnds, LengthScan, Frames
  <2> QED BY <2>1, <2>2, <2>3 DEF ListStep
<1>5. \A n \in Nodes : \/ next[n] \in Nodes \/ next'[n] = next[n]
                       \/ call[c].op = "insert" /\ n = call[c].elm
  <2>1. CASE SetNext(c)
    BY <1>1, <2>1 DEF SetNext
  <2>2. CASE Link(c) \/ Unlink(c)
    BY <1>1, <2>2 DEF Link, Unlink, CallReady, UsesPred, Ready
  <2>3. CASE ~(SetNext(c) \/ Link(c) \/ Unlink(c))
    BY <2>3 DEF ListStep, First, Advance, SetPrev, LinkBack, LoadPred, LoadSucc,
         TestPrev, TestNext, Test, UnlinkBack, LookupEnds, LengthScan, heap
  <2> QED BY <2>1, <2>2, <2>3
<1> QED BY <1>2, <1>3, <1>4, <1>5

\* IInv is an inductive invariant of every use of the lists.
THEOREM Inductive == Spec => []IInv
  BY InitKeeps, NextKeeps, PTL DEF Spec

\* Links lead to nodes or nowhere, and calls keep well-formed frames.
THEOREM TypeCorrect == Spec => []HeapTypeOK
<1>1. IInv => HeapTypeOK
  BY DEF IInv
<1> QED BY <1>1, Inductive, PTL

\* The pointers of the invariant are not NULL.
LEMMA ReadyIsNotNull ==
  ASSUME IInv  PROVE NoNullDereference
  BY NullIsNoNode DEF IInv, CallReady, NoNullDereference, Ready

\* Without any lock, no interleaving of calls dereferences NULL.
THEOREM NeverNull == Spec => []NoNullDereference
  BY ReadyIsNotNull, Inductive, PTL

-----------------------------------------------------------------------------
(* The order that no interleaving destroys.  Every element that some call  *)
(* can get hold of belongs to one list, and the elements of a list have an *)
(* order among themselves in which next goes up and prev goes down, also   *)
(* from elements that were deleted.  An insertion gives its element a      *)
(* place: right before the node its search ended at.  The place never      *)
(* changes again, so no circle of next pointers can close.                 *)
(* own[e] is the list of element e, NULL while it has no place; pos[e] is  *)
(* its place in the order.                                                 *)

Owners == [Elms -> Headers \cup {NULL}]
Positions == { pos \in [Elms -> Int] : \A e \in Elms : pos[e] < 0 }

ListOf(own, n) == IF n \in Headers THEN n ELSE own[n]
Placed(own, n) == n \in Nodes /\ ListOf(own, n) \in Headers

\* The header is both before and after the elements of its list.
Before(pos, m, n) == m \in Headers \/ n \in Headers \/ pos[m] < pos[n]

\* A pointer from m to n as next may be, or from n to m as prev may be.
Leads(own, pos, m, n) ==
  /\ Placed(own, m) /\ n \in Nodes /\ ListOf(own, n) = ListOf(own, m)
  /\ Before(pos, m, n)

LinksOrdered(own, pos) ==
  \A n \in Nodes : Placed(own, n) =>
    Leads(own, pos, n, next[n]) /\ Leads(own, pos, prev[n], n)

\* Which operations the accesses of a call belong to.
LabelFits(c) ==
  /\ call[c].at \in {"first", "scan"} => call[c].op # "delete"
  /\ call[c].at \in {"setPrev", "getPred", "link", "linkBack"} => call[c].op = "insert"
  /\ call[c].at \in {"getPrev", "testPrev", "getNext", "testNext"} =>
       call[c].op \in {"length", "delete"}
  /\ call[c].at = "consistent" => call[c].op = "length"
  /\ call[c].at \in {"unlink", "unlinkSucc", "unlinkNow", "unlinkBackSucc",
                     "unlinkBackPred", "unlinkBack"} => call[c].op = "delete"

\* What the pointers of a call are in the order while it is going to use them.
CallOrdered(own, pos, c) ==
  /\ LabelFits(c)
  /\ call[c].at = "first" => call[c].list \in Headers
  /\ call[c].at \in UsesTemp \cup {"link", "testPrev", "testNext", "unlinkNow"}
       => Placed(own, call[c].temp)
  /\ call[c].op = "lookup" /\ call[c].at = "scan" => ListOf(own, call[c].temp) = call[c].list
  /\ call[c].op = "lookup" /\ call[c].at = "return" /\ call[c].temp # NULL
       => call[c].temp \in Elms /\ Placed(own, call[c].temp)
  /\ call[c].op = "delete" => call[c].temp \in Elms /\ Placed(own, call[c].temp)
  /\ call[c].op = "insert" => call[c].elm \in Elms
  /\ call[c].op = "insert" /\ call[c].at \in {"first", "scan", "setPrev", "getPred"}
       => own[call[c].elm] = NULL
  /\ call[c].at \in {"setPrev", "getPred"} => next[call[c].elm] = call[c].temp
  /\ call[c].at = "getPred" => Leads(own, pos, prev[call[c].elm], call[c].temp)
  /\ call[c].at = "link" => Leads(own, pos, call[c].pred, call[c].elm)
  /\ call[c].at \in {"link", "linkBack"} => Leads(own, pos, call[c].elm, call[c].temp)
  /\ call[c].at \in {"unlinkSucc", "unlinkNow"} => Leads(own, pos, call[c].pred, call[c].temp)
  /\ call[c].at \in {"unlinkNow", "unlinkBackPred"} => Leads(own, pos, call[c].temp, call[c].succ)
  /\ call[c].at = "unlinkBack" => Leads(own, pos, call[c].pred, call[c].succ)

Arrangement(own, pos) ==
  /\ LinksOrdered(own, pos)
  /\ \A c \in Callers : CallOrdered(own, pos, c)

Arranged == \E own \in Owners, pos \in Positions : Arrangement(own, pos)

\* No two calls insert the same element.
OneInserter ==
  \A c, d \in Callers :
    call[c].op = "insert" /\ call[d].op = "insert" /\ call[c].elm = call[d].elm
      => c = d

\* What is in order and stays so.
ArrangedInv == IInv /\ OneInserter /\ Arranged

\* A step keeps the order if the links it sets lead on in it, it leaves alone
\* elements without a place other than its own, and its caller's pointers are
\* good afterwards.
LEMMA OrderKept ==
  ASSUME IInv, OneInserter, NEW own \in Owners, NEW pos \in Positions, Arrangement(own, pos),
         NEW c \in Callers, NEW f \in Frames, call' = [call EXCEPT ![c] = f],
         \A n \in Nodes : Placed(own, n) =>
           /\ next'[n] = next[n] \/ Leads(own, pos, n, next'[n])
           /\ prev'[n] = prev[n] \/ Leads(own, pos, prev'[n], n),
         \A n \in Elms : own[n] = NULL /\ (call[c].op = "insert" => call[c].elm # n) =>
           next'[n] = next[n] /\ prev'[n] = prev[n],
         CallOrdered(own, pos, c)'
  PROVE  Arrangement(own, pos)'
<1>1. LinksOrdered(own, pos)'
  <2> SUFFICES ASSUME NEW n \in Nodes, Placed(own, n)
               PROVE  Leads(own, pos, n, next'[n]) /\ Leads(own, pos, prev'[n], n)
    BY DEF LinksOrdered, Placed, Leads, Before, ListOf
  <2>1. Leads(own, pos, n, next[n]) /\ Leads(own, pos, prev[n], n)
    BY DEF Arrangement, LinksOrdered
  <2> QED BY <2>1
<1>2. ASSUME NEW d \in Callers, d # c PROVE CallOrdered(own, pos, d)'
  <2>1. call'[d] = call[d] /\ CallOrdered(own, pos, d)
    BY <1>2 DEF IInv, HeapTypeOK, Arrangement
  <2>2. call[d].at \in {"setPrev", "getPred"} =>
           /\ next'[call[d].elm] = next[call[d].elm]
           /\ prev'[call[d].elm] = prev[call[d].elm]
    <3> SUFFICES ASSUME call[d].at \in {"setPrev", "getPred"}
                 PROVE  /\ next'[call[d].elm] = next[call[d].elm]
                        /\ prev'[call[d].elm] = prev[call[d].elm]
      OBVIOUS
    <3>1. call[d].op = "insert" /\ call[d].elm \in Elms /\ own[call[d].elm] = NULL
      BY <2>1 DEF CallOrdered, LabelFits
    <3>2. call[c].op = "insert" => call[c].elm # call[d].elm
      BY <1>2, <3>1 DEF OneInserter
    <3> QED BY <3>1, <3>2
  <2> QED BY <2>1, <2>2 DEF CallOrdered, LabelFits, Leads, Placed, ListOf, Before
<1> QED BY <1>1, <1>2 DEF Arrangement

\* The same for the steps that only read the lists.
LEMMA ReadKeepsOrder ==
  ASSUME IInv, OneInserter, NEW own \in Owners, NEW pos \in Positions, Arrangement(own, pos),
         NEW c \in Callers, NEW f \in Frames, call' = [call EXCEPT ![c] = f], UNCHANGED heap,
         CallOrdered(own, pos, c)'
  PROVE  Arrangement(own, pos)'
  BY OrderKept DEF heap

\* An element without a list is not placed.
LEMMA PlacedElement ==
  ASSUME NEW own \in Owners, NEW e \in Elms
  PROVE  /\ e \in Nodes
         /\ Placed(own, e) <=> own[e] # NULL
<1>1. e \in Nodes /\ e \notin Headers
  BY NodesAssumption DEF Nodes
<1>2. NULL \notin Headers
  BY NodesAssumption DEF NULL
<1> QED BY <1>1, <1>2 DEF Placed, ListOf, Owners

\* The pointers a step loads from a placed node.
LEMMA PlacedLinks ==
  ASSUME NEW own \in Owners, NEW pos \in Positions, Arrangement(own, pos),
         NEW n, Placed(own, n)
  PROVE  /\ Leads(own, pos, n, next[n]) /\ Leads(own, pos, prev[n], n)
         /\ Placed(own, next[n]) /\ Placed(own, prev[n])
         /\ ListOf(own, next[n]) = ListOf(own, n)
         /\ ListOf(own, prev[n]) = ListOf(own, n)
  BY DEF Arrangement, LinksOrdered, Leads, Placed

\* Through an element the order goes on.
LEMMA LeadsOn ==
  ASSUME NEW own \in Owners, NEW pos \in Positions, NEW e \in Elms, NEW m, NEW n,
         Leads(own, pos, m, e), Leads(own, pos, e, n)
  PROVE  Leads(own, pos, m, n)
<1>1. e \notin Headers
  BY NodesAssumption
<1>2. Before(pos, m, n)
  BY <1>1 DEF Leads, Before, Positions, Placed, Nodes
<1> QED BY <1>2 DEF Leads

\* temp = list->next
LEMMA FirstOrdered ==
  ASSUME IInv, OneInserter, NEW own \in Owners, NEW pos \in Positions,
         Arrangement(own, pos), NEW c \in Callers, First(c)
  PROVE  Arrangement(own, pos)'
<1> DEFINE f == [call[c] EXCEPT !.at = "scan", !.temp = next[call[c].list]]
<1>1. call[c] \in Frames /\ call[c].list \in Headers /\ CallOrdered(own, pos, c)
  BY DEF IInv, HeapTypeOK, Frames, First, CallReady, Arrangement
<1>2. /\ next[call[c].list] \in Nodes /\ Placed(own, next[call[c].list])
      /\ ListOf(own, next[call[c].list]) = call[c].list
  <2>1. Placed(own, call[c].list) /\ ListOf(own, call[c].list) = call[c].list
    BY <1>1 DEF Placed, ListOf, Nodes
  <2> QED BY <2>1, PlacedLinks DEF Placed
<1>3. f \in Frames
  BY <1>1, <1>2 DEF Frames, Labels
<1>4. UNCHANGED heap /\ call' = [call EXCEPT ![c] = f] /\ call'[c] = f
  BY DEF First, IInv, HeapTypeOK
<1>5. CallOrdered(own, pos, c)'
  BY <1>1, <1>2, <1>4 DEF First, CallOrdered, LabelFits, Frames, Placed, ListOf, heap,
                   UsesTemp, AfterPred, AfterSucc
<1> QED BY <1>3, <1>4, <1>5, ReadKeepsOrder

\* temp = temp->next
LEMMA AdvanceOrdered ==
  ASSUME IInv, OneInserter, NEW own \in Owners, NEW pos \in Positions,
         Arrangement(own, pos), NEW c \in Callers, Advance(c)
  PROVE  Arrangement(own, pos)'
<1> DEFINE r == IF call[c].op = "length" THEN call[c].rc + 1 ELSE call[c].rc
           f == [call[c] EXCEPT !.at = "scan", !.temp = next[@], !.rc = r]
<1>1. call[c] \in Frames /\ CallOrdered(own, pos, c) /\ call[c].at \in {"scan", "consistent"}
  BY DEF IInv, HeapTypeOK, Frames, Arrangement, Advance
<1>2. /\ Placed(own, call[c].temp)
      /\ next[call[c].temp] \in Nodes /\ Placed(own, next[call[c].temp])
      /\ ListOf(own, next[call[c].temp]) = ListOf(own, call[c].temp)
  <2>1. Placed(own, call[c].temp)
    BY <1>1 DEF CallOrdered, UsesTemp
  <2> QED BY <2>1, PlacedLinks DEF Placed
<1>3. r \in Int
  BY <1>1 DEF Frames
<1>4. UNCHANGED heap /\ call' = [call EXCEPT ![c] = f] /\ call'[c] = f
  BY DEF Advance, IInv, HeapTypeOK
<1> HIDE DEF r
<1>6. f \in Frames
  BY <1>1, <1>2, <1>3 DEF Frames, Labels
<1>5. CallOrdered(own, pos, c)'
  <2>1. /\ call'[c].at = "scan" /\ call'[c].temp = next[call[c].temp]
        /\ call'[c].op = call[c].op /\ call'[c].list = call[c].list
        /\ call'[c].elm = call[c].elm
    <3>1. /\ f.at = "scan" /\ f.temp = next[call[c].temp]
          /\ f.op = call[c].op /\ f.list = call[c].list /\ f.elm = call[c].elm
      BY <1>1 DEF Frames
    <3> HIDE DEF f
    <3> QED BY <1>4, <3>1
  <2> HIDE DEF f
  <2> QED BY <1>1, <1>2, <1>4, <2>1, SMTT(30) DEF Advance, CallOrdered, LabelFits, Frames, Placed, ListOf, heap,
                   UsesTemp, AfterPred, AfterSucc
<1> QED BY <1>4, <1>5, <1>6, ReadKeepsOrder

\* element->next = temp, the element not yet placed
LEMMA SetNextOrdered ==
  ASSUME IInv, OneInserter, NEW own \in Owners, NEW pos \in Positions,
         Arrangement(own, pos), NEW c \in Callers, SetNext(c)
  PROVE  Arrangement(own, pos)'
<1> DEFINE f == [call[c] EXCEPT !.at = "setPrev"]
           e == call[c].elm
<1>1. call[c] \in Frames /\ CallOrdered(own, pos, c) /\ f \in Frames
      /\ call[c].at = "scan" /\ call[c].op = "insert"
  BY DEF IInv, HeapTypeOK, Frames, Labels, Arrangement, SetNext
<1>2. /\ Placed(own, call[c].temp) /\ e \in Elms /\ own[e] = NULL
      /\ e \in Nodes /\ ~Placed(own, e)
  <2>1. Placed(own, call[c].temp) /\ e \in Elms /\ own[e] = NULL
    BY <1>1 DEF CallOrdered, UsesTemp
  <2> QED BY <2>1, PlacedElement
<1>3. /\ call' = [call EXCEPT ![c] = f] /\ call'[c] = f
      /\ next' = [next EXCEPT ![e] = call[c].temp] /\ UNCHANGED <<key, prev>>
  BY DEF SetNext, IInv, HeapTypeOK
<1>4. /\ next'[e] = call[c].temp
      /\ \A n \in Nodes : n # e => next'[n] = next[n]
  BY <1>2, <1>3 DEF IInv, HeapTypeOK
<1>5. CallOrdered(own, pos, c)'
  BY <1>1, <1>2, <1>3, <1>4 DEF CallOrdered, LabelFits, Frames, Placed, ListOf,
                   UsesTemp, AfterPred, AfterSucc
<1>6. \A n \in Nodes : Placed(own, n) =>
           /\ next'[n] = next[n] \/ Leads(own, pos, n, next'[n])
           /\ prev'[n] = prev[n] \/ Leads(own, pos, prev'[n], n)
  BY <1>2, <1>3, <1>4
<1>7. \A n \in Elms : own[n] = NULL /\ (call[c].op = "insert" => call[c].elm # n) =>
           next'[n] = next[n] /\ prev'[n] = prev[n]
  BY <1>1, <1>3, <1>4 DEF Nodes
<1> HIDE DEF f
<1> QED BY <1>1, <1>3, <1>5, <1>6, <1>7, OrderKept

\* element->prev = temp->prev, the element not yet placed
LEMMA SetPrevOrdered ==
  ASSUME IInv, OneInserter, NEW own \in Owners, NEW pos \in Positions,
         Arrangement(own, pos), NEW c \in Callers, SetPrev(c)
  PROVE  Arrangement(own, pos)'
<1> DEFINE f == [call[c] EXCEPT !.at = "getPred"]
           e == call[c].elm
<1>1. call[c] \in Frames /\ CallOrdered(own, pos, c) /\ f \in Frames
      /\ call[c].at = "setPrev" /\ call[c].op = "insert"
  BY DEF IInv, HeapTypeOK, Frames, Labels, Arrangement, SetPrev, CallOrdered, LabelFits
<1>2. /\ Placed(own, call[c].temp) /\ e \in Elms /\ own[e] = NULL
      /\ e \in Nodes /\ ~Placed(own, e)
      /\ Leads(own, pos, prev[call[c].temp], call[c].temp)
      /\ next[e] = call[c].temp
  <2>1. Placed(own, call[c].temp) /\ e \in Elms /\ own[e] = NULL /\ next[e] = call[c].temp
    BY <1>1 DEF CallOrdered, UsesTemp
  <2> QED BY <2>1, PlacedElement, PlacedLinks
<1>3. /\ call' = [call EXCEPT ![c] = f] /\ call'[c] = f
      /\ prev' = [prev EXCEPT ![e] = prev[call[c].temp]] /\ UNCHANGED <<key, next>>
  BY DEF SetPrev, IInv, HeapTypeOK
<1>4. /\ prev'[e] = prev[call[c].temp]
      /\ \A n \in Nodes : n # e => prev'[n] = prev[n]
  BY <1>2, <1>3 DEF IInv, HeapTypeOK
<1>5. CallOrdered(own, pos, c)'
  BY <1>1, <1>2, <1>3, <1>4 DEF CallOrdered, LabelFits, Frames, Placed, ListOf, Leads, Before,
                   UsesTemp, AfterPred, AfterSucc
<1>6. \A n \in Nodes : Placed(own, n) =>
           /\ next'[n] = next[n] \/ Leads(own, pos, n, next'[n])
           /\ prev'[n] = prev[n] \/ Leads(own, pos, prev'[n], n)
  BY <1>2, <1>3, <1>4
<1>7. \A n \in Elms : own[n] = NULL /\ (call[c].op = "insert" => call[c].elm # n) =>
           next'[n] = next[n] /\ prev'[n] = prev[n]
  BY <1>1, <1>3, <1>4 DEF Nodes
<1> HIDE DEF f
<1> QED BY <1>1, <1>3, <1>5, <1>6, <1>7, OrderKept

\* temp->prev->next = element
LEMMA LinkOrdered ==
  ASSUME IInv, OneInserter, NEW own \in Owners, NEW pos \in Positions,
         Arrangement(own, pos), NEW c \in Callers, Link(c)
  PROVE  Arrangement(own, pos)'
<1> DEFINE f == [call[c] EXCEPT !.at = "linkBack"]
           p == call[c].pred
<1>1. call[c] \in Frames /\ CallOrdered(own, pos, c) /\ f \in Frames
      /\ call[c].at = "link" /\ call[c].op = "insert"
  BY DEF IInv, HeapTypeOK, Frames, Labels, Arrangement, Link, CallOrdered, LabelFits
<1>2. /\ Leads(own, pos, p, call[c].elm) /\ Placed(own, p) /\ p \in Nodes
      /\ p \in Elms => own[p] # NULL
  <2>1. Leads(own, pos, p, call[c].elm)
    BY <1>1 DEF CallOrdered
  <2> QED BY <2>1, PlacedElement DEF Leads, Placed, ListOf
<1>3. /\ call' = [call EXCEPT ![c] = f] /\ call'[c] = f
      /\ next' = [next EXCEPT ![p] = call[c].elm] /\ UNCHANGED <<key, prev>>
  BY DEF Link, IInv, HeapTypeOK
<1>4. /\ next'[p] = call[c].elm
      /\ \A n \in Nodes : n # p => next'[n] = next[n]
  BY <1>2, <1>3 DEF IInv, HeapTypeOK
<1>5. CallOrdered(own, pos, c)'
  BY <1>1, <1>3 DEF CallOrdered, LabelFits, Frames, Placed, ListOf, Leads, Before,
                   UsesTemp, AfterPred, AfterSucc
<1>6. \A n \in Nodes : Placed(own, n) =>
           /\ next'[n] = next[n] \/ Leads(own, pos, n, next'[n])
           /\ prev'[n] = prev[n] \/ Leads(own, pos, prev'[n], n)
  BY <1>2, <1>3, <1>4
<1>7. \A n \in Elms : own[n] = NULL /\ (call[c].op = "insert" => call[c].elm # n) =>
           next'[n] = next[n] /\ prev'[n] = prev[n]
  BY <1>2, <1>3, <1>4 DEF Nodes
<1> HIDE DEF f
<1> QED BY <1>1, <1>3, <1>5, <1>6, <1>7, OrderKept

\* temp->prev = element
LEMMA LinkBackOrdered ==
  ASSUME IInv, OneInserter, NEW own \in Owners, NEW pos \in Positions,
         Arrangement(own, pos), NEW c \in Callers, LinkBack(c)
  PROVE  Arrangement(own, pos)'
<1> DEFINE f == [call[c] EXCEPT !.at = "return"]
           p == call[c].temp
<1>1. call[c] \in Frames /\ CallOrdered(own, pos, c) /\ f \in Frames
      /\ call[c].at = "linkBack" /\ call[c].op = "insert"
  BY DEF IInv, HeapTypeOK, Frames, Labels, Arrangement, LinkBack, CallOrdered, LabelFits
<1>2. /\ Leads(own, pos, call[c].elm, p) /\ Placed(own, p) /\ p \in Nodes
      /\ p \in Elms => own[p] # NULL
  <2>1. Leads(own, pos, call[c].elm, p)
    BY <1>1 DEF CallOrdered
  <2> QED BY <2>1, PlacedElement DEF Leads, Placed, ListOf
<1>3. /\ call' = [call EXCEPT ![c] = f] /\ call'[c] = f
      /\ prev' = [prev EXCEPT ![p] = call[c].elm] /\ UNCHANGED <<key, next>>
  BY DEF LinkBack, IInv, HeapTypeOK
<1>4. /\ prev'[p] = call[c].elm
      /\ \A n \in Nodes : n # p => prev'[n] = prev[n]
  BY <1>2, <1>3 DEF IInv, HeapTypeOK
<1>5. CallOrdered(own, pos, c)'
  BY <1>1, <1>3 DEF CallOrdered, LabelFits, Frames, UsesTemp, AfterPred, AfterSucc
<1>6. \A n \in Nodes : Placed(own, n) =>
           /\ next'[n] = next[n] \/ Leads(own, pos, n, next'[n])
           /\ prev'[n] = prev[n] \/ Leads(own, pos, prev'[n], n)
  BY <1>2, <1>3, <1>4
<1>7. \A n \in Elms : own[n] = NULL /\ (call[c].op = "insert" => call[c].elm # n) =>
           next'[n] = next[n] /\ prev'[n] = prev[n]
  BY <1>2, <1>3, <1>4 DEF Nodes
<1> HIDE DEF f
<1> QED BY <1>1, <1>3, <1>5, <1>6, <1>7, OrderKept

\* pred = temp->prev, but for the load that ends the search of an insertion.
LEMMA LoadPredOrdered ==
  ASSUME IInv, OneInserter, NEW own \in Owners, NEW pos \in Positions,
         Arrangement(own, pos), NEW c \in Callers, LoadPred(c), call[c].at # "getPred"
  PROVE  Arrangement(own, pos)'
<1> DEFINE f == [call[c] EXCEPT !.at = AfterPred[@], !.pred = prev[call[c].temp]]
<1>1. call[c] \in Frames /\ CallOrdered(own, pos, c)
  BY DEF IInv, HeapTypeOK, Frames, Arrangement
<1>2. \/ call[c].at = "getPrev" /\ AfterPred[call[c].at] = "testPrev"
      \/ call[c].at = "unlink" /\ AfterPred[call[c].at] = "unlinkSucc"
      \/ call[c].at = "unlinkBackPred" /\ AfterPred[call[c].at] = "unlinkBack"
  BY DEF LoadPred, AfterPred
<1>3. /\ Placed(own, call[c].temp)
      /\ Leads(own, pos, prev[call[c].temp], call[c].temp)
      /\ prev[call[c].temp] \in Nodes
  <2>1. Placed(own, call[c].temp)
    BY <1>1, <1>2 DEF CallOrdered, UsesTemp, AfterPred
  <2> QED BY <2>1, PlacedLinks DEF Placed
<1>4. f \in Frames
  BY <1>1, <1>2, <1>3 DEF Frames, Labels
<1>5. UNCHANGED heap /\ call' = [call EXCEPT ![c] = f] /\ call'[c] = f
  BY DEF LoadPred, IInv, HeapTypeOK
<1>6. CallOrdered(own, pos, c)'
  <2>1. /\ f.at = AfterPred[call[c].at] /\ f.pred = prev[call[c].temp]
        /\ f.op = call[c].op /\ f.temp = call[c].temp /\ f.elm = call[c].elm
        /\ f.succ = call[c].succ
    BY <1>1 DEF Frames
  <2> HIDE DEF f
  <2>2. call[c].at \in {"unlink", "unlinkBackPred"} => call[c].op = "delete" /\ call[c].temp \in Elms
    BY <1>1 DEF CallOrdered, LabelFits
  <2>3. call[c].at = "unlinkBackPred" => Leads(own, pos, prev[call[c].temp], call[c].succ)
    <3> SUFFICES ASSUME call[c].at = "unlinkBackPred"
                 PROVE  Leads(own, pos, prev[call[c].temp], call[c].succ)
      OBVIOUS
    <3>1. Leads(own, pos, call[c].temp, call[c].succ)
      BY <1>1 DEF CallOrdered
    <3> QED BY <1>3, <2>2, <3>1, LeadsOn
  <2>4. /\ call'[c].at = AfterPred[call[c].at] /\ call'[c].pred = prev[call[c].temp]
        /\ call'[c].op = call[c].op /\ call'[c].temp = call[c].temp
        /\ call'[c].elm = call[c].elm /\ call'[c].succ = call[c].succ
    BY <1>5, <2>1
  <2> QED BY <1>1, <1>2, <1>3, <1>5, <2>2, <2>3, <2>4 DEF CallOrdered, LabelFits, heap,
                   Placed, Leads, ListOf, Before, UsesTemp, AfterPred, AfterSucc
<1> QED BY <1>4, <1>5, <1>6, ReadKeepsOrder

\* The load that ends the search of an insertion: the element gets its place,
\* right before the node it was stopped at.
LEMMA PlacedBefore ==
  ASSUME IInv, OneInserter, NEW own \in Owners, NEW pos \in Positions,
         Arrangement(own, pos), NEW c \in Callers, LoadPred(c), call[c].at = "getPred"
  PROVE  \E o \in Owners, p \in Positions : Arrangement(o, p)'
<1> DEFINE f == [call[c] EXCEPT !.at = AfterPred[@], !.pred = prev[call[c].temp]]
           t == call[c].temp
           e == call[c].elm
           h == ListOf(own, t)
           b == IF t \in Headers THEN 0 ELSE pos[t]
<1>1. call[c] \in Frames /\ CallOrdered(own, pos, c) /\ call[c].op = "insert"
  BY DEF IInv, HeapTypeOK, Frames, Arrangement, CallOrdered, LabelFits
<1>2. /\ Placed(own, t) /\ Leads(own, pos, prev[t], t) /\ prev[t] \in Nodes
      /\ e \in Elms /\ own[e] = NULL /\ next[e] = t /\ Leads(own, pos, prev[e], t)
  <2>1. /\ Placed(own, t) /\ e \in Elms /\ own[e] = NULL /\ next[e] = t
        /\ Leads(own, pos, prev[e], t)
    BY <1>1 DEF CallOrdered, UsesTemp, AfterPred
  <2> QED BY <2>1, PlacedLinks DEF Placed
<1>3. h \in Headers /\ b \in Int /\ e \notin Headers /\ e \in Nodes /\ ~Placed(own, e)
  <2>1. e \notin Headers /\ e \in Nodes /\ ~Placed(own, e)
    BY <1>2, PlacedElement, NodesAssumption
  <2> QED BY <1>2, <2>1 DEF Placed, Positions, Nodes
<1>4. PICK o \in Owners : o = [own EXCEPT ![e] = h]
  BY <1>3 DEF Owners
<1>5. PICK p \in Positions :
        p = [x \in Elms |-> IF x = e THEN 2 * b - 1 ELSE 2 * pos[x]]
  <2>1. b <= 0
    BY <1>2 DEF Positions, Placed, Nodes
  <2>2. \A x \in Elms : pos[x] \in Int /\ pos[x] < 0
    BY DEF Positions
  <2>3. \A x \in Elms : (IF x = e THEN 2 * b - 1 ELSE 2 * pos[x]) \in Int
                     /\ (IF x = e THEN 2 * b - 1 ELSE 2 * pos[x]) < 0
    BY <1>3, <2>1, <2>2
  <2> DEFINE q == [x \in Elms |-> IF x = e THEN 2 * b - 1 ELSE 2 * pos[x]]
  <2>4. q \in Positions
    BY <2>3 DEF Positions
  <2> QED BY <2>4
<1> HIDE DEF b, h
\* What was placed keeps its list and the order of what was placed.
<1>6. \A x \in Nodes : x # e => ListOf(o, x) = ListOf(own, x)
  BY <1>4, NodesAssumption DEF ListOf, Owners, Nodes
<1>7. ListOf(o, e) = h
  BY <1>2, <1>3, <1>4 DEF ListOf, Owners
<1>8. \A x, y : Leads(own, pos, x, y) => Leads(o, p, x, y)
  <2> SUFFICES ASSUME NEW x, NEW y, Leads(own, pos, x, y) PROVE Leads(o, p, x, y)
    OBVIOUS
  <2>1. x \in Nodes /\ y \in Nodes /\ Placed(own, x) /\ Placed(own, y)
    BY DEF Leads, Placed
  <2>2. x # e /\ y # e
    BY <1>3, <2>1
  <2>3. Before(p, x, y)
    <3> SUFFICES ASSUME x \in Elms, y \in Elms, pos[x] < pos[y]  PROVE p[x] < p[y]
      BY <2>1 DEF Leads, Before, Nodes
    <3>1. p[x] = 2 * pos[x] /\ p[y] = 2 * pos[y] /\ pos[x] \in Int /\ pos[y] \in Int
      BY <1>5, <2>2 DEF Positions
    <3> QED BY <3>1
  <2> QED BY <1>6, <2>1, <2>2, <2>3 DEF Leads, Placed
\* What leads to the node e is placed at also leads to e.
<1>9. \A x : Leads(own, pos, x, t) => Leads(o, p, x, e)
  <2> SUFFICES ASSUME NEW x, Leads(own, pos, x, t) PROVE Leads(o, p, x, e)
    OBVIOUS
  <2>1. x \in Nodes /\ Placed(own, x) /\ ListOf(own, x) = h /\ x # e
    BY <1>3 DEF Leads, Placed, h
  <2>2. Before(p, x, e)
    <3> SUFFICES ASSUME x \in Elms  PROVE p[x] < p[e]
      BY <2>1 DEF Before, Nodes
    <3>1. p[x] = 2 * pos[x] /\ p[e] = 2 * b - 1 /\ pos[x] \in Int /\ pos[x] < 0
      BY <1>2, <1>5, <2>1 DEF Positions
    <3>2. x \notin Headers
      BY NodesAssumption
    <3>3. pos[x] < b
      BY <3>1, <3>2 DEF Leads, Before, b
    <3> QED BY <1>3, <3>1, <3>3
  <2> QED BY <1>3, <1>6, <1>7, <2>1, <2>2 DEF Leads, Placed
<1>10. Leads(o, p, e, t)
  <2>1. t \in Nodes /\ t # e /\ ListOf(own, t) = h
    BY <1>2, <1>3 DEF Placed, h
  <2>2. Before(p, e, t)
    <3> SUFFICES ASSUME t \in Elms PROVE p[e] < p[t]
      BY <2>1 DEF Before, Nodes
    <3>1. p[t] = 2 * pos[t] /\ p[e] = 2 * pos[t] - 1 /\ pos[t] \in Int
      BY <1>2, <1>5, <2>1, NodesAssumption DEF Positions, b
    <3> QED BY <3>1
  <2> QED BY <1>3, <1>6, <1>7, <2>1, <2>2 DEF Leads, Placed
<1>11. UNCHANGED heap /\ call' = [call EXCEPT ![c] = f] /\ call'[c] = f
  BY DEF LoadPred, IInv, HeapTypeOK
<1>12. LinksOrdered(o, p)'
  <2> SUFFICES ASSUME NEW n \in Nodes, Placed(o, n)
               PROVE  Leads(o, p, n, next[n]) /\ Leads(o, p, prev[n], n)
    BY <1>11 DEF LinksOrdered, Leads, Placed, ListOf, Before, heap
  <2>1. CASE n = e
    BY <1>2, <1>9, <1>10, <2>1
  <2>2. CASE n # e
    <3>1. Placed(own, n)
      BY <1>6, <2>2 DEF Placed
    <3> QED BY <1>8, <3>1, PlacedLinks
  <2> QED BY <2>1, <2>2
<1>13. \A x : Placed(own, x) => Placed(o, x) /\ ListOf(o, x) = ListOf(own, x)
  BY <1>3, <1>6 DEF Placed
<1>14. CallOrdered(o, p, c)'
  <2>1. f.at = "link" /\ f.pred = prev[t] /\ f.op = "insert" /\ f.temp = t /\ f.elm = e
    BY <1>1 DEF Frames, AfterPred
  <2>2. /\ call'[c].at = "link" /\ call'[c].pred = prev[t] /\ call'[c].op = "insert"
        /\ call'[c].temp = t /\ call'[c].elm = e
    BY <1>11, <2>1
  <2>3. Leads(o, p, prev[t], e) /\ Placed(o, t)
    BY <1>2, <1>9, <1>13
  <2> QED BY <1>2, <1>10, <2>2, <2>3 DEF CallOrdered, LabelFits, Leads, Placed, ListOf, Before,
                                  UsesTemp, AfterPred, AfterSucc
<1>15. ASSUME NEW d \in Callers, d # c  PROVE CallOrdered(o, p, d)'
  <2>1. call'[d] = call[d] /\ CallOrdered(own, pos, d)
    BY <1>11, <1>15 DEF IInv, HeapTypeOK, Arrangement
  <2>2. call[d].op = "insert" => call[d].elm \in Elms /\ o[call[d].elm] = own[call[d].elm]
    <3> SUFFICES ASSUME call[d].op = "insert"
                 PROVE  call[d].elm \in Elms /\ o[call[d].elm] = own[call[d].elm]
      OBVIOUS
    <3>1. call[d].elm \in Elms /\ call[d].elm # e
      BY <1>1, <1>15, <2>1 DEF OneInserter, CallOrdered
    <3> QED BY <1>4, <3>1 DEF Owners
  <2>3. call[d].op = "lookup" /\ call[d].at = "scan" => ListOf(o, call[d].temp) = call[d].list
    <3> SUFFICES ASSUME call[d].op = "lookup", call[d].at = "scan"
                 PROVE  ListOf(o, call[d].temp) = call[d].list
      OBVIOUS
    <3>1. Placed(own, call[d].temp) /\ ListOf(own, call[d].temp) = call[d].list
      BY <2>1 DEF CallOrdered, UsesTemp
    <3> QED BY <1>13, <3>1
  <2>4. CallOrdered(o, p, d)
    BY <1>8, <1>13, <2>1, <2>2, <2>3 DEF CallOrdered
  <2>5. next' = next /\ prev' = prev
    BY <1>11 DEF heap
  <2> HIDE DEF f
  <2> QED BY <2>1, <2>4, <2>5 DEF CallOrdered, LabelFits, Leads, Placed, ListOf, Before
<1> QED BY <1>12, <1>14, <1>15 DEF Arrangement

\* succ = temp->next
LEMMA LoadSuccOrdered ==
  ASSUME IInv, OneInserter, NEW own \in Owners, NEW pos \in Positions,
         Arrangement(own, pos), NEW c \in Callers, LoadSucc(c)
  PROVE  Arrangement(own, pos)'
<1> DEFINE f == [call[c] EXCEPT !.at = AfterSucc[@], !.succ = next[call[c].temp]]
<1>1. call[c] \in Frames /\ CallOrdered(own, pos, c)
  BY DEF IInv, HeapTypeOK, Frames, Arrangement
<1>2. \/ call[c].at = "getNext" /\ AfterSucc[call[c].at] = "testNext"
      \/ call[c].at = "unlinkSucc" /\ AfterSucc[call[c].at] = "unlinkNow"
      \/ call[c].at = "unlinkBackSucc" /\ AfterSucc[call[c].at] = "unlinkBackPred"
  BY DEF LoadSucc, AfterSucc
<1>3. /\ Placed(own, call[c].temp)
      /\ Leads(own, pos, call[c].temp, next[call[c].temp])
      /\ next[call[c].temp] \in Nodes
  <2>1. Placed(own, call[c].temp)
    BY <1>1, <1>2 DEF CallOrdered, UsesTemp, AfterSucc
  <2> QED BY <2>1, PlacedLinks DEF Placed
<1>4. f \in Frames
  BY <1>1, <1>2, <1>3 DEF Frames, Labels
<1>5. UNCHANGED heap /\ call' = [call EXCEPT ![c] = f] /\ call'[c] = f
  BY DEF LoadSucc, IInv, HeapTypeOK
<1>6. CallOrdered(own, pos, c)'
  <2>1. /\ f.at = AfterSucc[call[c].at] /\ f.pred = call[c].pred
        /\ f.op = call[c].op /\ f.temp = call[c].temp /\ f.elm = call[c].elm
        /\ f.succ = next[call[c].temp]
    BY <1>1 DEF Frames
  <2> HIDE DEF f
  <2>2. /\ call'[c].at = AfterSucc[call[c].at] /\ call'[c].pred = call[c].pred
        /\ call'[c].op = call[c].op /\ call'[c].temp = call[c].temp
        /\ call'[c].elm = call[c].elm /\ call'[c].succ = next[call[c].temp]
    BY <1>5, <2>1
  <2> QED BY <1>1, <1>2, <1>3, <1>5, <2>2 DEF CallOrdered, LabelFits, heap,
                   Placed, Leads, ListOf, Before, UsesTemp, AfterPred, AfterSucc
<1> QED BY <1>4, <1>5, <1>6, ReadKeepsOrder

\* The tests prev->next # temp and next->prev # temp.
LEMMA TestOrdered ==
  ASSUME IInv, OneInserter, NEW own \in Owners, NEW pos \in Positions,
         Arrangement(own, pos), NEW c \in Callers, TestPrev(c) \/ TestNext(c)
  PROVE  Arrangement(own, pos)'
<1>1. call[c] \in Frames /\ CallOrdered(own, pos, c)
  BY DEF IInv, HeapTypeOK, Frames, Arrangement
<1>2. /\ call[c].at \in {"testPrev", "testNext"} /\ call[c].op \in {"length", "delete"}
      /\ Placed(own, call[c].temp) /\ UNCHANGED heap
  BY <1>1 DEF TestPrev, TestNext, Test, CallOrdered, LabelFits
<1>3. PICK l \in {"getNext", "unlink", "consistent", "getPrev", "return"}, r \in Int :
        /\ call' = [call EXCEPT ![c] = [call[c] EXCEPT !.at = l, !.rc = r]]
        /\ l = "unlink" => call[c].op = "delete"
        /\ l = "consistent" => call[c].op = "length"
  <2>1. ASSUME NEW l \in Labels, call' = [call EXCEPT ![c].at = l]
        PROVE  call' = [call EXCEPT ![c] = [call[c] EXCEPT !.at = l, !.rc = call[c].rc]]
    BY <1>1, <2>1 DEF Frames
  <2>2. call[c].rc \in Int
    BY <1>1 DEF Frames
  <2>3. CASE call' = [call EXCEPT ![c].at = "return",
                                  ![c].rc = IF call[c].op = "length" THEN -1 ELSE 1]
    <3> DEFINE v == IF call[c].op = "length" THEN -1 ELSE 1
    <3>1. v \in Int /\ call' = [call EXCEPT ![c].at = "return", ![c].rc = v]
      BY <2>3
    <3> HIDE DEF v
    <3>2. call' = [call EXCEPT ![c] = [call[c] EXCEPT !.at = "return", !.rc = v]]
      BY <3>1
    <3> QED BY <3>1, <3>2
  <2>4. CASE TestPrev(c) /\ next[call[c].pred] = call[c].temp
    <3>1. CASE call[c].op = "length"
      BY <2>1, <2>2, <2>4, <3>1 DEF TestPrev, Test, Labels
    <3>2. CASE call[c].op = "delete"
      BY <2>1, <2>2, <2>4, <3>2 DEF TestPrev, Test, Labels
    <3> QED BY <1>2, <3>1, <3>2
  <2>5. CASE TestNext(c) /\ prev[call[c].succ] = call[c].temp
    <3>1. CASE call[c].op = "length"
      BY <2>1, <2>2, <2>5, <3>1 DEF TestNext, Test, Labels
    <3>2. CASE call[c].op = "delete"
      BY <2>1, <2>2, <2>5, <3>2 DEF TestNext, Test, Labels
    <3> QED BY <1>2, <3>1, <3>2
  <2> QED BY <2>3, <2>4, <2>5 DEF TestPrev, TestNext, Test
<1> DEFINE f == [call[c] EXCEPT !.at = l, !.rc = r]
<1>4. f \in Frames
  BY <1>1 DEF Frames, Labels
<1>5. call' = [call EXCEPT ![c] = f] /\ call'[c] = f
  BY <1>3 DEF IInv, HeapTypeOK
<1>6. CallOrdered(own, pos, c)'
  <2>1. /\ f.at = l /\ f.op = call[c].op /\ f.temp = call[c].temp /\ f.elm = call[c].elm
        /\ f.list = call[c].list
    BY <1>1 DEF Frames
  <2> HIDE DEF f
  <2>2. /\ call'[c].at = l /\ call'[c].op = call[c].op
        /\ call'[c].temp = call[c].temp /\ call'[c].elm = call[c].elm
    BY <1>5, <2>1
  <2> QED BY <1>1, <1>2, <1>3, <2>2 DEF CallOrdered, LabelFits, heap,
                   Placed, ListOf, UsesTemp, AfterPred, AfterSucc
<1> QED BY <1>2, <1>4, <1>5, <1>6, ReadKeepsOrder

\* element->prev->next = element->next
LEMMA UnlinkOrdered ==
  ASSUME IInv, OneInserter, NEW own \in Owners, NEW pos \in Positions,
         Arrangement(own, pos), NEW c \in Callers, Unlink(c)
  PROVE  Arrangement(own, pos)'
<1> DEFINE f == [call[c] EXCEPT !.at = "unlinkBackSucc"]
           p == call[c].pred
<1>1. call[c] \in Frames /\ CallOrdered(own, pos, c) /\ f \in Frames
      /\ call[c].at = "unlinkNow" /\ call[c].op = "delete"
  BY DEF IInv, HeapTypeOK, Frames, Labels, Arrangement, Unlink, CallOrdered, LabelFits
<1>2. /\ Leads(own, pos, p, call[c].succ) /\ Placed(own, p) /\ p \in Nodes
      /\ p \in Elms => own[p] # NULL
  <2>1. Leads(own, pos, p, call[c].temp) /\ Leads(own, pos, call[c].temp, call[c].succ)
        /\ call[c].temp \in Elms
    BY <1>1 DEF CallOrdered
  <2>2. Leads(own, pos, p, call[c].succ)
    BY <2>1, LeadsOn
  <2> QED BY <2>2, PlacedElement DEF Leads, Placed, ListOf
<1>3. /\ call' = [call EXCEPT ![c] = f] /\ call'[c] = f
      /\ next' = [next EXCEPT ![p] = call[c].succ] /\ UNCHANGED <<key, prev>>
  BY DEF Unlink, IInv, HeapTypeOK
<1>4. /\ next'[p] = call[c].succ
      /\ \A n \in Nodes : n # p => next'[n] = next[n]
  BY <1>2, <1>3 DEF IInv, HeapTypeOK
<1>5. CallOrdered(own, pos, c)'
  BY <1>1, <1>3 DEF CallOrdered, LabelFits, Frames, Placed, ListOf, UsesTemp,
                    AfterPred, AfterSucc
<1>6. \A n \in Nodes : Placed(own, n) =>
           /\ next'[n] = next[n] \/ Leads(own, pos, n, next'[n])
           /\ prev'[n] = prev[n] \/ Leads(own, pos, prev'[n], n)
  BY <1>2, <1>3, <1>4
<1>7. \A n \in Elms : own[n] = NULL /\ (call[c].op = "insert" => call[c].elm # n) =>
           next'[n] = next[n] /\ prev'[n] = prev[n]
  BY <1>2, <1>3, <1>4 DEF Nodes
<1> HIDE DEF f
<1> QED BY <1>1, <1>3, <1>5, <1>6, <1>7, OrderKept

\* element->next->prev = element->prev
LEMMA UnlinkBackOrdered ==
  ASSUME IInv, OneInserter, NEW own \in Owners, NEW pos \in Positions,
         Arrangement(own, pos), NEW c \in Callers, UnlinkBack(c)
  PROVE  Arrangement(own, pos)'
<1> DEFINE f == [call[c] EXCEPT !.at = "return"]
           p == call[c].succ
<1>1. call[c] \in Frames /\ CallOrdered(own, pos, c) /\ f \in Frames
      /\ call[c].at = "unlinkBack" /\ call[c].op = "delete"
  BY DEF IInv, HeapTypeOK, Frames, Labels, Arrangement, UnlinkBack, CallOrdered, LabelFits
<1>2. /\ Leads(own, pos, call[c].pred, p) /\ Placed(own, p) /\ p \in Nodes
      /\ p \in Elms => own[p] # NULL
  <2>1. Leads(own, pos, call[c].pred, p)
    BY <1>1 DEF CallOrdered
  <2> QED BY <2>1, PlacedElement DEF Leads, Placed, ListOf
<1>3. /\ call' = [call EXCEPT ![c] = f] /\ call'[c] = f
      /\ prev' = [prev EXCEPT ![p] = call[c].pred] /\ UNCHANGED <<key, next>>
  BY DEF UnlinkBack, IInv, HeapTypeOK
<1>4. /\ prev'[p] = call[c].pred
      /\ \A n \in Nodes : n # p => prev'[n] = prev[n]
  BY <1>2, <1>3 DEF IInv, HeapTypeOK
<1>5. CallOrdered(own, pos, c)'
  BY <1>1, <1>3 DEF CallOrdered, LabelFits, Frames, Placed, ListOf, UsesTemp,
                    AfterPred, AfterSucc
<1>6. \A n \in Nodes : Placed(own, n) =>
           /\ next'[n] = next[n] \/ Leads(own, pos, n, next'[n])
           /\ prev'[n] = prev[n] \/ Leads(own, pos, prev'[n], n)
  BY <1>2, <1>3, <1>4
<1>7. \A n \in Elms : own[n] = NULL /\ (call[c].op = "insert" => call[c].elm # n) =>
           next'[n] = next[n] /\ prev'[n] = prev[n]
  BY <1>2, <1>3, <1>4 DEF Nodes
<1> HIDE DEF f
<1> QED BY <1>1, <1>3, <1>5, <1>6, <1>7, OrderKept

\* The end of lookup: an element of the list, or nothing.
LEMMA LookupEndsOrdered ==
  ASSUME IInv, OneInserter, NEW own \in Owners, NEW pos \in Positions,
         Arrangement(own, pos), NEW c \in Callers, LookupEnds(c)
  PROVE  Arrangement(own, pos)'
<1>1. call[c] \in Frames /\ CallOrdered(own, pos, c)
      /\ call[c].at = "scan" /\ call[c].op = "lookup"
  BY DEF IInv, HeapTypeOK, Frames, Arrangement, LookupEnds
<1> DEFINE m == IF ~AtHeader(c) /\ key[call[c].temp] = key[call[c].elm]
                  THEN call[c].temp ELSE NULL
<1>2. /\ call' = [call EXCEPT ![c].at = "return", ![c].temp = m]
      /\ m # NULL => m = call[c].temp /\ ~AtHeader(c)
      /\ m \in Nodes \cup {NULL}
  BY <1>1 DEF LookupEnds, CallOrdered, Placed, UsesTemp
<1>3. m # NULL => m \in Elms /\ Placed(own, m)
  <2>1. Placed(own, call[c].temp) /\ ListOf(own, call[c].temp) = call[c].list
    BY <1>1 DEF CallOrdered, UsesTemp
  <2>2. ~AtHeader(c) => call[c].temp \in Elms
    BY <2>1 DEF AtHeader, ListOf, Placed, Nodes
  <2> HIDE DEF m
  <2> QED BY <1>2, <2>1, <2>2
<1> HIDE DEF m
<1> DEFINE f == [call[c] EXCEPT !.at = "return", !.temp = m]
<1>4. f \in Frames
  BY <1>1, <1>2 DEF Frames, Labels
<1>5. UNCHANGED heap /\ call' = [call EXCEPT ![c] = f] /\ call'[c] = f
  BY <1>2 DEF LookupEnds, IInv, HeapTypeOK
<1>6. CallOrdered(own, pos, c)'
  BY <1>1, <1>3, <1>5 DEF CallOrdered, LabelFits, Frames, Placed, ListOf, UsesTemp,
                    AfterPred, AfterSucc
<1> QED BY <1>4, <1>5, <1>6, ReadKeepsOrder

\* The condition of length's loop.
LEMMA LengthScanOrdered ==
  ASSUME IInv, OneInserter, NEW own \in Owners, NEW pos \in Positions,
         Arrangement(own, pos), NEW c \in Callers, LengthScan(c)
  PROVE  Arrangement(own, pos)'
<1>1. call[c] \in Frames /\ CallOrdered(own, pos, c)
      /\ call[c].at = "scan" /\ call[c].op = "length"
  BY DEF IInv, HeapTypeOK, Frames, Arrangement, LengthScan
<1>2. Placed(own, call[c].temp)
  BY <1>1 DEF CallOrdered, UsesTemp
<1>3. PICK l \in {"return", "getPrev"} : call' = [call EXCEPT ![c].at = l]
  BY DEF LengthScan
<1> DEFINE f == [call[c] EXCEPT !.at = l]
<1>4. f \in Frames
  BY <1>1 DEF Frames, Labels
<1>5. UNCHANGED heap /\ call' = [call EXCEPT ![c] = f] /\ call'[c] = f
  BY <1>3 DEF LengthScan, IInv, HeapTypeOK
<1>6. CallOrdered(own, pos, c)'
  BY <1>1, <1>2, <1>5 DEF CallOrdered, LabelFits, Frames, Placed, ListOf, UsesTemp,
                    AfterPred, AfterSucc
<1> QED BY <1>4, <1>5, <1>6, ReadKeepsOrder

\* A call begins, goes on from lookup to delete, or ends.
LEMMA ClientOrdered ==
  ASSUME IInv, OneInserter, NEW own \in Owners, NEW pos \in Positions,
         Arrangement(own, pos), NEW c \in Callers, ClientStep(c)
  PROVE  Arrangement(own, pos)'
<1>0. Idle \in Frames /\ UNCHANGED heap
  BY DEF Idle, Frames, Labels, ClientStep
<1>1. CASE \/ \E l \in Headers, e \in Elms : BeginInsert(c, l, e) \/ BeginLookup(c, l, e)
           \/ \E l \in Headers : BeginLength(c, l)
  <2>1. PICK o \in {"insert", "length", "lookup"}, l \in Headers,
             e \in Elms \cup {NULL} :
          /\ call' = [call EXCEPT ![c] =
               [Idle EXCEPT !.op = o, !.at = "first", !.list = l, !.elm = e]]
          /\ o = "insert" => e \in Elms /\ next[e] = NULL
    BY <1>1 DEF BeginInsert, BeginLookup, BeginLength, Begin
  <2>2. o = "insert" => own[e] = NULL
    <3> SUFFICES ASSUME o = "insert", own[e] # NULL PROVE FALSE
      OBVIOUS
    <3>1. Placed(own, next[e])
      BY <2>1, PlacedElement, PlacedLinks
    <3> QED BY <2>1, <3>1, NullIsNoNode DEF Placed
  <2> DEFINE f == [Idle EXCEPT !.op = o, !.at = "first", !.list = l, !.elm = e]
  <2>3. f \in Frames
    BY <1>0 DEF Idle, Frames, Labels
  <2>4. call' = [call EXCEPT ![c] = f] /\ call'[c] = f
    BY <2>1 DEF IInv, HeapTypeOK
  <2>5. CallOrdered(own, pos, c)'
    BY <2>1, <2>2, <2>4 DEF CallOrdered, LabelFits, Idle, UsesTemp, AfterPred, AfterSucc
  <2> QED BY <1>0, <2>3, <2>4, <2>5, ReadKeepsOrder
<1>2. CASE DeleteFound(c)
  <2> DEFINE f == [Idle EXCEPT !.op = "delete", !.at = "getNext", !.temp = call[c].temp]
  <2>1. call[c].temp \in Elms /\ Placed(own, call[c].temp)
    BY <1>2 DEF DeleteFound, Returns, Arrangement, CallOrdered
  <2>2. f \in Frames
    BY <1>0, <2>1 DEF Idle, Frames, Labels, Nodes
  <2>3. call' = [call EXCEPT ![c] = f] /\ call'[c] = f
    BY <1>2 DEF DeleteFound, BeginDelete, IInv, HeapTypeOK
  <2>4. CallOrdered(own, pos, c)'
    <3>1. f.temp = call[c].temp /\ f.op = "delete" /\ f.at = "getNext"
      BY DEF Idle
    <3> HIDE DEF f
    <3>2. call'[c].temp = call[c].temp /\ call'[c].op = "delete" /\ call'[c].at = "getNext"
      BY <2>3, <3>1
    <3> QED BY <2>1, <3>2 DEF CallOrdered, LabelFits, Placed, ListOf, UsesTemp,
                              AfterPred, AfterSucc
  <2> QED BY <1>0, <2>2, <2>3, <2>4, ReadKeepsOrder
<1>3. CASE Finish(c)
  <2>1. call' = [call EXCEPT ![c] = Idle] /\ call'[c] = Idle
    BY <1>3 DEF Finish, IInv, HeapTypeOK
  <2>2. CallOrdered(own, pos, c)'
    BY <2>1 DEF CallOrdered, LabelFits, Idle, UsesTemp, AfterPred, AfterSucc
  <2> QED BY <1>0, <2>1, <2>2, ReadKeepsOrder
<1> QED BY <1>1, <1>2, <1>3 DEF ClientStep

-----------------------------------------------------------------------------
(* What is reached by following next.                                      *)

\* Induction over the natural numbers, for a set instead of a predicate: the
\* smallest number outside the set would have its predecessor inside.
LEMMA SetInduction ==
  ASSUME NEW T \in SUBSET Nat, 0 \in T, \A n \in T : n + 1 \in T
  PROVE  T = Nat
<1> SUFFICES ASSUME Nat \ T # {} PROVE FALSE
  OBVIOUS
<1>1. PICK m \in Nat \ T : \A n \in Nat \ T : ~(<<n, m>> \in OpToRel(<, Nat))
  BY NatLessThanWellFounded, WFMin
<1>2. \A n \in Nat \ T : ~(n < m)
  BY <1>1 DEF OpToRel
<1>3. m # 0 /\ m \in Nat
  BY <1>1
<1>6. m - 1 \in Nat /\ m - 1 < m /\ (m - 1) + 1 = m
  BY <1>3
<1>4. m - 1 \in T
  BY <1>2, <1>6
<1>5. m \in T
  BY <1>4, <1>6
<1> QED BY <1>1, <1>5

\* Reaches satisfies its recursive equations where next stays inside a set S:
\* the nodes at the ends of paths are a function that does.
LEMMA ReachesIs ==
  ASSUME NEW S, NEW l \in S, \A m \in S : next[m] \in S
  PROVE  /\ Reaches(l)[0] = {l}
         /\ \A n \in Nat : Reaches(l)[n + 1] = Reaches(l)[n] \cup { next[m] : m \in Reaches(l)[n] }
<1> DEFINE Path(n, m, p) == /\ p \in [0 .. n -> S] /\ p[0] = l /\ p[n] = m
                            /\ \A i \in 0 .. n - 1 : p[i + 1] = next[p[i]]
           g == [n \in Nat |-> { m \in S : \E k \in 0 .. n : \E p : Path(k, m, p) }]
           Step(X) == X \cup { next[m] : m \in X }
<1>0. \A n \in Nat : \A m : m \in g[n] <=> m \in S /\ \E k \in 0 .. n : \E p : Path(k, m, p)
  <2> HIDE DEF Path
  <2> QED OBVIOUS
<1>1. g[0] = {l}
  <2>1. Path(0, l, [i \in 0 .. 0 |-> l])
    OBVIOUS
  <2>2. \A m, p : Path(0, m, p) => m = l
    OBVIOUS
  <2> HIDE DEF g, Path
  <2>3. \A m : m \in g[0] <=> m = l
    <3>1. 0 .. 0 = {0} /\ 0 \in Nat
      OBVIOUS
    <3> QED BY <1>0, <2>1, <2>2, <3>1
  <2> QED BY <2>3
<1>2. ASSUME NEW n \in Nat  PROVE g[n + 1] = Step(g[n])
  <2>1. ASSUME NEW m \in g[n + 1] PROVE m \in Step(g[n])
    <3>0. m \in S /\ \E k \in 0 .. n + 1 : \E p : Path(k, m, p)
      <4> HIDE DEF Path, g
      <4> QED BY <1>0, <2>1
    <3>1. PICK k, p : k \in 0 .. n + 1 /\ Path(k, m, p)
      <4> HIDE DEF Path
      <4> QED BY <3>0
    <3>2. CASE k \in 0 .. n
      <4> HIDE DEF Path, g
      <4>1. m \in g[n]
        BY <1>0, <3>0, <3>1, <3>2
      <4> QED BY <4>1
    <3>3. CASE k = n + 1
      <4> DEFINE q == [i \in 0 .. n |-> p[i]]
      <4>1. Path(n, p[n], q) /\ p[n] \in S /\ m = next[p[n]]
        BY <3>1, <3>3
      <4> HIDE DEF Path, g, q
      <4>2. p[n] \in g[n]
        BY <1>0, <4>1
      <4> QED BY <4>1, <4>2
    <3>4. k \in 0 .. n \/ k = n + 1
      <4> HIDE DEF Path
      <4> QED BY <3>1
    <3> HIDE DEF Path, g, Step
    <3> QED BY <3>2, <3>3, <3>4
  <2>2. ASSUME NEW m \in Step(g[n]) PROVE m \in g[n + 1]
    <3>1. CASE m \in g[n]
      <4> HIDE DEF Path, g
      <4>1. m \in S /\ \E k \in 0 .. n : \E p : Path(k, m, p)
        BY <1>0, <3>1
      <4>2. 0 .. n \subseteq 0 .. n + 1 /\ n + 1 \in Nat
        OBVIOUS
      <4> QED BY <1>0, <4>1, <4>2
    <3>2. CASE \E x \in g[n] : m = next[x]
      <4>1. PICK x \in g[n] : m = next[x]
        BY <3>2
      <4>5. x \in S /\ \E k \in 0 .. n : \E p : Path(k, x, p)
        <5> HIDE DEF Path, g
        <5> QED BY <1>0, <4>1
      <4>2. PICK k, p : k \in 0 .. n /\ Path(k, x, p)
        <5> HIDE DEF Path
        <5> QED BY <4>5
      <4> DEFINE q == [i \in 0 .. k + 1 |-> IF i = k + 1 THEN m ELSE p[i]]
      <4>3. x \in S /\ m \in S /\ k + 1 \in 0 .. n + 1
        <5> HIDE DEF Path, g, q, Step
        <5>1. k + 1 \in 0 .. n + 1
          BY <4>2
        <5> QED BY <4>1, <4>5, <5>1
      <4>4. Path(k + 1, m, q)
        <5>1. k \in Nat
          <6> HIDE DEF Path, g, q, Step
          <6> QED BY <4>2
        <5> QED BY <4>1, <4>2, <4>3, <5>1
      <4> HIDE DEF q, Path, g
      <4> QED BY <1>0, <4>3, <4>4
    <3> QED BY <2>2, <3>1, <3>2
  <2> QED BY <2>1, <2>2
<1> HIDE DEF g
<1>3. g = [n \in Nat |-> IF n = 0 THEN {l} ELSE g[n - 1] \cup { next[m] : m \in g[n - 1] }]
  <2>1. g = [n \in Nat |-> g[n]]
    BY DEF g
  <2>2. ASSUME NEW n \in Nat, n # 0
        PROVE  g[n] = g[n - 1] \cup { next[m] : m \in g[n - 1] }
    <3>1. n - 1 \in Nat /\ (n - 1) + 1 = n
      BY <2>2
    <3> QED BY <1>2, <3>1
  <2>3. \A n \in Nat : g[n] = IF n = 0 THEN {l} ELSE g[n - 1] \cup { next[m] : m \in g[n - 1] }
    BY <1>1, <2>2
  <2> QED BY <2>1, <2>3
<1>4. Reaches(l) = [n \in Nat |-> IF n = 0 THEN {l}
                      ELSE Reaches(l)[n - 1] \cup { next[m] : m \in Reaches(l)[n - 1] }]
  BY <1>3, Zenon DEF Reaches
<1> DEFINE r == Reaches(l)
<1> HIDE DEF r
<1>5. r = [n \in Nat |-> IF n = 0 THEN {l} ELSE r[n - 1] \cup { next[m] : m \in r[n - 1] }]
  BY <1>4 DEF r
<1>6. r[0] = {l}
  BY <1>5
<1>7. ASSUME NEW n \in Nat  PROVE r[n + 1] = r[n] \cup { next[m] : m \in r[n] }
  <2>1. n + 1 \in Nat /\ n + 1 # 0 /\ (n + 1) - 1 = n
    OBVIOUS
  <2>2. r[n + 1] = r[(n + 1) - 1] \cup { next[m] : m \in r[(n + 1) - 1] }
    BY <1>5, <2>1
  <2> QED BY <2>1, <2>2
<1> QED BY <1>6, <1>7 DEF r

-----------------------------------------------------------------------------

\* Only BeginInsert makes a caller insert, an element nobody inserts.
LEMMA OneInserterKept ==
  ASSUME ArrangedInv, [Next]_vars  PROVE OneInserter'
<1>1. ASSUME NEW c \in Callers, ListStep(c)
      PROVE  \A d \in Callers : call'[d].op = call[d].op /\ call'[d].elm = call[d].elm
  BY <1>1, ListStepLeaves DEF ArrangedInv
<1>2. ASSUME NEW c \in Callers, ClientStep(c)  PROVE OneInserter'
  <2>1. \A d \in Callers : d # c => call'[d] = call[d]
    BY <1>2 DEF ClientStep, BeginInsert, BeginLookup, BeginLength, Begin, DeleteFound,
                BeginDelete, Finish, ArrangedInv, IInv, HeapTypeOK
  <2>2. call'[c].op = "insert" => \A d \in Callers \ {c} : ~Inserting(d, call'[c].elm)
    <3>1. CASE \E l \in Headers, e \in Elms : BeginInsert(c, l, e)
      BY <3>1 DEF BeginInsert, Begin, Idle, ArrangedInv, IInv, HeapTypeOK
    <3>2. CASE \/ \E l \in Headers, e \in Elms : BeginLookup(c, l, e)
               \/ \E l \in Headers : BeginLength(c, l)
      <4>1. PICK g : call' = [call EXCEPT ![c] = g] /\ g.op # "insert"
        <5>1. CASE \E l \in Headers, e \in Elms : BeginLookup(c, l, e)
          <6>1. PICK l \in Headers, e \in Elms : BeginLookup(c, l, e)
            BY <5>1
          <6>2. PICK g : g = [Idle EXCEPT !.op = "lookup", !.at = "first", !.list = l, !.elm = e]
            OBVIOUS
          <6>3. g.op = "lookup"
            BY <6>2 DEF Idle
          <6> QED BY <6>1, <6>2, <6>3 DEF BeginLookup, Begin
        <5>2. CASE \E l \in Headers : BeginLength(c, l)
          <6>1. PICK l \in Headers : BeginLength(c, l)
            BY <5>2
          <6>2. PICK g : g = [Idle EXCEPT !.op = "length", !.at = "first", !.list = l, !.elm = NULL]
            OBVIOUS
          <6>3. g.op = "length"
            BY <6>2 DEF Idle
          <6> QED BY <6>1, <6>2, <6>3 DEF BeginLength, Begin
        <5> QED BY <3>2, <5>1, <5>2
      <4> QED BY <4>1 DEF ArrangedInv, IInv, HeapTypeOK
    <3>3. CASE DeleteFound(c)
      BY <3>3 DEF DeleteFound, BeginDelete, Idle, ArrangedInv, IInv, HeapTypeOK
    <3>4. CASE Finish(c)
      BY <3>4 DEF Finish, Idle, ArrangedInv, IInv, HeapTypeOK
    <3> QED BY <1>2, <3>1, <3>2, <3>3, <3>4 DEF ClientStep
  <2> QED BY <2>1, <2>2 DEF ArrangedInv, OneInserter, Inserting
<1>3. CASE UNCHANGED vars
  BY <1>3 DEF vars, ArrangedInv, OneInserter
<1>4. ASSUME NEW c \in Callers, ListStep(c)  PROVE OneInserter'
  BY <1>1, <1>4 DEF ArrangedInv, OneInserter
<1> QED BY <1>2, <1>3, <1>4 DEF Next

\* Every step keeps the heap in order: the load that ends the search of an
\* insertion by placing its element, the others in the order there is.
LEMMA ArrangedKept ==
  ASSUME ArrangedInv, [Next]_vars  PROVE Arranged'
<1>1. PICK own \in Owners, pos \in Positions : Arrangement(own, pos)
  BY DEF ArrangedInv, Arranged
<1>2. IInv /\ OneInserter
  BY DEF ArrangedInv
<1>3. CASE \E c \in Callers : LoadPred(c) /\ call[c].at = "getPred"
  <2>1. \E o \in Owners, p \in Positions : Arrangement(o, p)'
    BY <1>1, <1>2, <1>3, PlacedBefore
  <2> QED BY <2>1 DEF Arranged
<1>4. CASE UNCHANGED vars
  <2>1. Arrangement(own, pos)'
    BY <1>1, <1>4 DEF vars, Arrangement, LinksOrdered, CallOrdered, LabelFits, Leads,
                      Placed, ListOf, Before
  <2> QED BY <2>1 DEF Arranged
<1>5. ASSUME NEW c \in Callers, ListStep(c) \/ ClientStep(c),
             ~(LoadPred(c) /\ call[c].at = "getPred")
      PROVE  Arranged'
  <2>1. Arrangement(own, pos)'
    BY <1>1, <1>2, <1>5, FirstOrdered, AdvanceOrdered, SetNextOrdered, SetPrevOrdered,
       LinkOrdered, LinkBackOrdered, LoadPredOrdered, LoadSuccOrdered, TestOrdered,
       UnlinkOrdered, UnlinkBackOrdered, LookupEndsOrdered, LengthScanOrdered,
       ClientOrdered DEF ListStep
  <2> QED BY <2>1 DEF Arranged
<1> QED BY <1>3, <1>4, <1>5 DEF Next

\* Empty lists are in order.
LEMMA InitArranged ==
  ASSUME HeapInit  PROVE OneInserter /\ Arranged
<1>1. OneInserter
  BY DEF HeapInit, OneInserter, Idle
<1>2. PICK own \in Owners : own = [e \in Elms |-> NULL]
  <2>1. [e \in Elms |-> NULL] \in Owners
    BY DEF Owners
  <2> QED BY <2>1
<1>3. PICK pos \in Positions : pos = [e \in Elms |-> -1]
  <2>1. [e \in Elms |-> -1] \in Positions
    BY DEF Positions
  <2> QED BY <2>1
<1>4. \A n : Placed(own, n) => n \in Headers
  BY <1>2, PlacedElement DEF Placed, Nodes
<1>5. LinksOrdered(own, pos)
  BY <1>4 DEF LinksOrdered, HeapInit, Leads, Placed, ListOf, Before, Nodes
<1>6. \A c \in Callers : CallOrdered(own, pos, c)
  BY DEF HeapInit, CallOrdered, LabelFits, Idle, UsesTemp, AfterPred, AfterSucc
<1>7. Arrangement(own, pos)
  BY <1>5, <1>6 DEF Arrangement
<1> QED BY <1>1, <1>7 DEF Arranged

\* In an ordered heap the nodes on list l lead to nodes on list l.
LEMMA FollowingStays ==
  ASSUME NEW own \in Owners, NEW pos \in Positions, Arrangement(own, pos),
         NEW l \in Headers
  PROVE  LET S == { n \in Nodes : ListOf(own, n) = l } IN
           /\ l \in S /\ \A n \in S : next[n] \in S
           /\ \A n \in S : next[n] # l => Before(pos, n, next[n]) /\ next[n] \in Elms
<1> DEFINE S == { n \in Nodes : ListOf(own, n) = l }
<1>1. l \in S
  BY DEF Nodes, ListOf
<1>2. ASSUME NEW n \in S
      PROVE  /\ next[n] \in S
             /\ next[n] # l => Before(pos, n, next[n]) /\ next[n] \in Elms
  <2>1. Placed(own, n)
    BY DEF Placed
  <2>2. Leads(own, pos, n, next[n]) /\ Placed(own, next[n]) /\ ListOf(own, next[n]) = l
    BY <2>1, PlacedLinks
  <2>3. next[n] \in S
    BY <2>2 DEF Placed
  <2>4. next[n] # l => next[n] \in Elms
    BY <2>2 DEF Placed, ListOf, Nodes
  <2> QED BY <2>2, <2>3, <2>4 DEF Leads
<1> QED BY <1>1, <1>2

\* In a set of nodes on list l that holds the header one leads out of the set,
\* or back to the header.
LEMMA LastLeadsOut ==
  ASSUME NEW own \in Owners, NEW pos \in Positions, Arrangement(own, pos),
         NEW l \in Headers, NEW X, l \in X,
         \A n \in X : n \in Nodes /\ ListOf(own, n) = l
  PROVE  \E n \in X : next[n] = l \/ next[n] \notin X
<1> SUFFICES ASSUME \A n \in X : next[n] # l /\ next[n] \in X  PROVE FALSE
  OBVIOUS
<1> DEFINE depths == { -pos[e] : e \in X \cap Elms }
<1>1. \A n \in X : Before(pos, n, next[n]) /\ next[n] \in X \cap Elms
  BY FollowingStays
<1>2. \A e \in Elms : -pos[e] \in Nat
  BY DEF Positions
<1>3. depths \subseteq Nat /\ depths # {}
  <2>1. next[l] \in X \cap Elms
    BY <1>1
  <2> QED BY <1>2, <2>1
<1>4. PICK d \in depths : \A x \in depths : ~(<<x, d>> \in OpToRel(<, Nat))
  <2> HIDE DEF depths
  <2> QED BY <1>3, NatLessThanWellFounded, WFMin
<1>5. PICK e \in X \cap Elms : d = -pos[e]
  BY <1>4
<1>6. next[e] \in X \cap Elms /\ pos[e] < pos[next[e]]
  <2>1. e \notin Headers /\ next[e] \notin Headers
    BY <1>1, <1>5, NodesAssumption
  <2> QED BY <1>1, <1>5, <2>1 DEF Before
<1>7. -pos[next[e]] \in depths /\ -pos[next[e]] \in Nat /\ d \in Nat /\ -pos[next[e]] < d
  BY <1>2, <1>5, <1>6 DEF Positions
<1> HIDE DEF depths
<1>8. <<-pos[next[e]], d>> \in OpToRel(<, Nat)
  BY <1>7 DEF OpToRel
<1> QED BY <1>4, <1>7, <1>8

\* In an ordered heap every list is closed.
LEMMA ArrangedIsClosed ==
  ASSUME Arranged, NEW l \in Headers  PROVE Closed(l)
<1>1. PICK own \in Owners, pos \in Positions : Arrangement(own, pos)
  BY DEF Arranged
<1> DEFINE S == { n \in Nodes : ListOf(own, n) = l }
           N == Cardinality(Nodes)
           R == Reaches(l)
<1>2. IsFiniteSet(Nodes) /\ N \in Nat
  BY NodesAssumption, FS_Union, FS_CardinalityType DEF Nodes
<1>3. l \in S /\ \A n \in S : next[n] \in S
  BY <1>1, FollowingStays
<1>4. R[0] = {l} /\ \A n \in Nat : R[n + 1] = R[n] \cup { next[m] : m \in R[n] }
  <2> HIDE DEF S
  <2> QED BY <1>3, ReachesIs
<1> SUFFICES ASSUME \A n \in Content(l) \cup {l} : next[n] # l  PROVE FALSE
  BY DEF Closed
<1> HIDE DEF R
<1>5. \A n \in R[N] : next[n] # l
  BY DEF Content, R
<1> HIDE DEF N, S
\* What is reached early is reached later.
<1>6. \A k \in 0 .. N : R[k] \subseteq R[N]
  <2> DEFINE T == { k \in Nat : k <= N => R[N - k] \subseteq R[N] }
  <2>1. 0 \in T
    BY <1>2
  <2>2. ASSUME NEW k \in T  PROVE k + 1 \in T
    <3> SUFFICES ASSUME k + 1 <= N PROVE R[N - (k + 1)] \subseteq R[N]
      BY <2>2
    <3>1. N - (k + 1) \in Nat /\ (N - (k + 1)) + 1 = N - k /\ k <= N
      BY <1>2
    <3>2. R[N - (k + 1)] \subseteq R[N - k]
      BY <1>4, <3>1
    <3> QED BY <2>2, <3>1, <3>2
  <2> HIDE DEF T
  <2>3. T = Nat
    <3>1. T \subseteq Nat
      BY DEF T
    <3> QED BY <2>1, <2>2, <3>1, SetInduction
  <2>4. ASSUME NEW k \in 0 .. N PROVE R[k] \subseteq R[N]
    <3>1. N - k \in T /\ N - k <= N /\ N - (N - k) = k
      BY <1>2, <2>3
    <3> QED BY <3>1 DEF T
  <2> QED BY <2>4
\* With every step another node is reached.
<1>7. \A k \in 0 .. N : l \in R[k] /\ R[k] \subseteq S /\ Cardinality(R[k]) >= k + 1
  <2> DEFINE P(k) == l \in R[k] /\ R[k] \subseteq S /\ Cardinality(R[k]) >= k + 1
             T == { k \in Nat : k <= N => P(k) }
  <2>1. 0 \in T
    <3>1. Cardinality({l}) = 1
      BY FS_Singleton
    <3>2. P(0)
      BY <1>3, <1>4, <3>1
    <3> QED BY <3>2
  <2>2. ASSUME NEW k \in T  PROVE k + 1 \in T
    <3> SUFFICES ASSUME k + 1 <= N PROVE P(k + 1)
      BY <2>2
    <3>1. k \in 0 .. N /\ P(k) /\ R[k + 1] = R[k] \cup { next[m] : m \in R[k] }
      BY <1>2, <1>4, <2>2
    <3>2. PICK n \in R[k] : next[n] = l \/ next[n] \notin R[k]
      <4>1. l \in R[k] /\ \A n \in R[k] : n \in Nodes /\ ListOf(own, n) = l
        BY <3>1 DEF S
      <4> QED BY <1>1, <4>1, LastLeadsOut
    <3>3. next[n] \notin R[k] /\ next[n] \in R[k + 1]
      BY <1>5, <1>6, <3>1, <3>2
    <3>4. l \in R[k + 1] /\ R[k + 1] \subseteq S
      BY <1>3, <3>1
    <3>5. IsFiniteSet(R[k]) /\ IsFiniteSet(R[k + 1])
      <4>1. R[k] \subseteq Nodes /\ R[k + 1] \subseteq Nodes
        BY <3>1, <3>4 DEF S
      <4> QED BY <1>2, <4>1, FS_Subset
    <3>6. Cardinality(R[k] \cup {next[n]}) = Cardinality(R[k]) + 1
      BY <3>3, <3>5, FS_AddElement
    <3>7. Cardinality(R[k] \cup {next[n]}) <= Cardinality(R[k + 1])
      <4>1. R[k] \cup {next[n]} \subseteq R[k + 1]
        BY <3>1, <3>3
      <4> QED BY <3>5, <4>1, FS_Subset
    <3>8. Cardinality(R[k]) \in Nat /\ Cardinality(R[k + 1]) \in Nat
      BY <3>5, FS_CardinalityType
    <3>9. Cardinality(R[k + 1]) >= (k + 1) + 1
      BY <3>1, <3>6, <3>7, <3>8
    <3> QED BY <3>4, <3>9
  <2> HIDE DEF T
  <2>3. T = Nat
    <3>1. T \subseteq Nat
      BY DEF T
    <3> QED BY <2>1, <2>2, <3>1, SetInduction
  <2>4. ASSUME NEW k \in 0 .. N PROVE P(k)
    <3>1. k \in T /\ k <= N
      BY <1>2, <2>3
    <3> QED BY <3>1 DEF T
  <2> QED BY <2>4
<1>8. Cardinality(R[N]) >= N + 1 /\ R[N] \subseteq Nodes
  BY <1>2, <1>7 DEF S
<1>9. Cardinality(R[N]) <= N /\ Cardinality(R[N]) \in Nat
  BY <1>2, <1>8, FS_Subset, FS_CardinalityType DEF N
<1> QED BY <1>2, <1>8, <1>9

\* Without any lock, no interleaving of calls makes a circle of next pointers
\* that misses the header, or cuts a list off.
THEOREM AlwaysClosed == Spec => []NeverCut
<1>1. HeapInit => OneInserter /\ Arranged
  BY InitArranged
<1>2. IInv /\ OneInserter /\ Arranged /\ [Next]_vars => OneInserter' /\ Arranged'
  BY OneInserterKept, ArrangedKept DEF ArrangedInv
<1>3. Arranged => NeverCut
  BY ArrangedIsClosed DEF NeverCut
<1> QED BY <1>1, <1>2, <1>3, Inductive, PTL DEF Spec
-----------------------------------------------------------------------------
(* Lists that are worked on by one call at a time.  The nodes of a list    *)
(* are then a path from its header round to the header.                    *)

\* p[0], p[1], .., p[n] are the nodes of list l: the header, the elements in the
\* order of their keys, and the header again.
Ring(l, p, n) ==
  /\ n \in Nat \ {0} /\ p \in [Nat -> Nodes] /\ p[0] = l /\ p[n] = l
  /\ \A i \in 1 .. n - 1 : p[i] \in Elms
  /\ \A i, j \in 1 .. n - 1 : i < j => p[i] # p[j] /\ key[p[i]] <= key[p[j]]

\* The links of these nodes, but for the prev of the nodes in S.
Linked(p, n, S) ==
  \A i \in 0 .. n - 1 : /\ next[p[i]] = p[i + 1]
                        /\ p[i + 1] \notin S => prev[p[i + 1]] = p[i]

\* The elements of the list.
Inner(p, n) == { p[i] : i \in 1 .. n - 1 }

\* The node whose prev is not up to date during a call with frame f.
Behind(f) ==
  { m \in Nodes :
      \/ f.at = "linkBack" /\ m = f.temp
      \/ f.at \in {"unlinkBackSucc", "unlinkBackPred", "unlinkBack"} /\ m = next[f.temp] }

\* The element that only the call with frame f works on: one that is not
\* linked yet, or not any more.
Private(f) ==
  { e \in Elms :
      \/ f.op = "insert" /\ f.at \in {"first", "scan", "setPrev", "getPred", "link"} /\ e = f.elm
      \/ f.op = "delete" /\ f.at \in {"unlinkBackSucc", "unlinkBackPred", "unlinkBack"}
           /\ e = f.temp }

\* Where a call with frame f stands on the list, at place i: for each operation.
InsertAt(l, p, n, f, i) ==
  /\ f.op = "insert" /\ f.list = l /\ f.elm \in Elms
  /\ f.at \in {"first", "scan", "setPrev", "getPred", "link", "linkBack", "return"}
  /\ f.at \in {"scan", "setPrev", "getPred", "link"} =>
       /\ i \in 1 .. n /\ f.temp = p[i]
       /\ \A j \in 1 .. i - 1 : key[p[j]] < key[f.elm]
  /\ f.at \in {"setPrev", "getPred", "link"} =>
       next[f.elm] = p[i] /\ (i < n => key[f.elm] <= key[p[i]])
  /\ f.at \in {"getPred", "link"} => prev[f.elm] = p[i - 1]
  /\ f.at = "link" => f.pred = p[i - 1]
  /\ f.at = "linkBack" => i \in 1 .. n - 1 /\ p[i] = f.elm /\ f.temp = p[i + 1]

LookupAt(l, p, n, f, i) ==
  /\ f.op = "lookup" /\ f.list = l /\ f.elm \in Elms
  /\ f.at \in {"first", "scan", "return"}
  /\ f.at = "scan" => /\ i \in 1 .. n /\ f.temp = p[i]
                      /\ \A j \in 1 .. i - 1 : key[p[j]] < key[f.elm]
  /\ f.at = "return" /\ f.temp = NULL => \A j \in 1 .. n - 1 : key[p[j]] # key[f.elm]
  /\ f.at = "return" /\ f.temp # NULL =>
       i \in 1 .. n - 1 /\ f.temp = p[i] /\ key[p[i]] = key[f.elm]

LengthAt(l, p, n, f, i) ==
  /\ f.op = "length" /\ f.list = l
  /\ f.at \in {"first", "scan", "getPrev", "testPrev", "getNext", "testNext", "consistent", "return"}
  /\ f.at = "first" => f.rc = 0
  /\ f.at = "scan" => i \in 1 .. n /\ f.temp = p[i] /\ f.rc = i - 1
  /\ f.at \in {"getPrev", "testPrev", "getNext", "testNext", "consistent"} =>
       i \in 1 .. n - 1 /\ f.temp = p[i] /\ f.rc = i - 1
  /\ f.at = "testPrev" => f.pred = p[i - 1]
  /\ f.at = "testNext" => f.succ = p[i + 1]
  /\ f.at = "return" => f.rc = n - 1

DeleteAt(l, p, n, f, i) ==
  /\ f.op = "delete" /\ f.rc = 0
  /\ f.at \in {"getNext", "testNext", "getPrev", "testPrev", "unlink", "unlinkSucc",
               "unlinkNow", "unlinkBackSucc", "unlinkBackPred", "unlinkBack", "return"}
  /\ f.at \in {"getNext", "testNext", "getPrev", "testPrev", "unlink", "unlinkSucc", "unlinkNow"} =>
       i \in 1 .. n - 1 /\ f.temp = p[i]
  /\ f.at = "testNext" => f.succ = p[i + 1]
  /\ f.at \in {"testPrev", "unlinkSucc", "unlinkNow"} => f.pred = p[i - 1]
  /\ f.at = "unlinkNow" => f.succ = p[i + 1]
  /\ f.at \in {"unlinkBackSucc", "unlinkBackPred", "unlinkBack"} =>
       /\ i \in 1 .. n /\ f.temp \in Elms /\ next[f.temp] = p[i] /\ prev[f.temp] = p[i - 1]
  /\ f.at \in {"unlinkBackPred", "unlinkBack"} => f.succ = p[i]
  /\ f.at = "unlinkBack" => f.pred = p[i - 1]

Stands(l, p, n, f, i) ==
  InsertAt(l, p, n, f, i) \/ LookupAt(l, p, n, f, i) \/ LengthAt(l, p, n, f, i) \/ DeleteAt(l, p, n, f, i)

\* List l is worked on by a call with frame f and by no other.
Works(l, p, n, f) ==
  /\ Ring(l, p, n) /\ Linked(p, n, Behind(f)) /\ Private(f) \cap Inner(p, n) = {}
  /\ \E i \in Nat : Stands(l, p, n, f, i)

\* What the nodes of a ring are.
LEMMA RingNodes ==
  ASSUME NEW l \in Headers, NEW p, NEW n, Ring(l, p, n), NEW i \in 0 .. n
  PROVE  /\ i \in Nat /\ n \in Nat /\ n > 0 /\ p[i] \in Nodes
         /\ p[i] \in Headers <=> i = 0 \/ i = n
         /\ p[i] = l <=> i = 0 \/ i = n
         /\ i # 0 /\ i # n => i \in 1 .. n - 1 /\ p[i] \in Elms /\ p[i] \in Inner(p, n)
         /\ \A j \in 0 .. n : p[i] = p[j] => i = j \/ {i, j} = {0, n}
<1>1. n \in Nat /\ n > 0 /\ p \in [Nat -> Nodes] /\ p[0] = l /\ p[n] = l /\ i \in Nat
  BY DEF Ring
<1>2. Elms \cap Headers = {}
  BY NodesAssumption
<1>3. i # 0 /\ i # n => i \in 1 .. n - 1 /\ p[i] \in Elms /\ p[i] \in Inner(p, n)
  BY <1>1 DEF Ring, Inner
<1>4. ASSUME NEW j \in 0 .. n, p[i] = p[j]  PROVE i = j \/ {i, j} = {0, n}
  <2>1. j # 0 /\ j # n => j \in 1 .. n - 1 /\ p[j] \in Elms
    BY <1>1 DEF Ring
  <2>2. CASE i \in 1 .. n - 1 /\ j \in 1 .. n - 1
    BY <1>1, <1>4, <2>2 DEF Ring
  <2> QED BY <1>1, <1>2, <1>3, <1>4, <2>1, <2>2
<1> QED BY <1>1, <1>2, <1>3, <1>4

\* A step that changes no link: it is enough that the call stands somewhere
\* afterwards, with the same private element and the same prev to put right.
LEMMA ReadWorks ==
  ASSUME UNCHANGED heap, NEW c \in Callers,
         NEW l, NEW p, NEW n, Works(l, p, n, call[c]),
         NEW g, call'[c] = g, Behind(g) = Behind(call[c]), Private(g) = Private(call[c]),
         NEW j \in Nat, Stands(l, p, n, g, j)
  PROVE  Works(l, p, n, call[c])' /\ Private(call[c])' \subseteq Private(call[c])
<1>1. UNCHANGED <<key, next, prev>>
  BY DEF heap
<1>2. Ring(l, p, n)' /\ Linked(p, n, Behind(g))'
  BY <1>1 DEF Works, Ring, Linked, Behind
<1>3. Stands(l, p, n, g, j)'
  BY <1>1 DEF Stands, InsertAt, LookupAt, LengthAt, DeleteAt
<1>4. Private(g) \cap Inner(p, n) = {}
  BY DEF Works
<1> QED BY <1>2, <1>3, <1>4 DEF Works, Behind, Private, Inner

\* temp = list->next
LEMMA FirstWorks ==
  ASSUME IInv, NEW c \in Callers, First(c),
         NEW l \in Headers, NEW p, NEW n, Works(l, p, n, call[c])
  PROVE  Works(l, p, n, call[c])' /\ Private(call[c])' \subseteq Private(call[c])
<1> DEFINE f == call[c]
<1>1. PICK g : /\ g = [f EXCEPT !.at = "scan", !.temp = next[f.list]]
               /\ call'[c] = g /\ f \in Frames /\ f.at = "first" /\ UNCHANGED heap
  BY DEF First, IInv, HeapTypeOK, Frames
<1>2. /\ g.at = "scan" /\ g.op = f.op /\ g.list = f.list /\ g.elm = f.elm
      /\ g.temp = next[f.list] /\ g.rc = f.rc
  BY <1>1 DEF Frames
<1>3. Ring(l, p, n) /\ Linked(p, n, Behind(f))
  BY DEF Works
<1>4. PICK i \in Nat : Stands(l, p, n, f, i)
  BY DEF Works
<1>5. n \in Nat /\ n > 0 /\ p[0] = l
  BY <1>3 DEF Ring
<1>6. f.list = l /\ g.temp = p[1] /\ f.op # "delete"
  BY <1>1, <1>2, <1>3, <1>4, <1>5 DEF Stands, InsertAt, LookupAt, LengthAt, DeleteAt, Linked
<1>7. Stands(l, p, n, g, 1)
  BY <1>1, <1>2, <1>4, <1>5, <1>6 DEF Stands, InsertAt, LookupAt, LengthAt, DeleteAt
<1>8. Behind(g) = Behind(f) /\ Private(g) = Private(f)
  BY <1>1, <1>2, <1>6 DEF Behind, Private
<1> QED BY <1>1, <1>7, <1>8, ReadWorks

\* temp = temp->next
LEMMA AdvanceWorks ==
  ASSUME IInv, NEW c \in Callers, Advance(c),
         NEW l \in Headers, NEW p, NEW n, Works(l, p, n, call[c])
  PROVE  Works(l, p, n, call[c])' /\ Private(call[c])' \subseteq Private(call[c])
<1> DEFINE f == call[c]
<1>1. PICK g : /\ g = [f EXCEPT !.at = "scan", !.temp = next[@],
                                !.rc = IF f.op = "length" THEN @ + 1 ELSE @]
               /\ call'[c] = g /\ f \in Frames /\ UNCHANGED heap
               /\ \/ f.at = "scan" /\ f.op \in {"insert", "lookup"} /\ KeyAhead(c)
                  \/ f.at = "consistent" /\ f.op = "length"
  BY DEF Advance, IInv, HeapTypeOK, Frames
<1>2. /\ g.at = "scan" /\ g.op = f.op /\ g.list = f.list /\ g.elm = f.elm
      /\ g.temp = next[f.temp] /\ g.rc = IF f.op = "length" THEN f.rc + 1 ELSE f.rc
  BY <1>1 DEF Frames
<1>3. Ring(l, p, n) /\ Linked(p, n, Behind(f))
  BY DEF Works
<1>4. PICK i \in Nat : Stands(l, p, n, f, i)
  BY DEF Works
<1>5. n \in Nat /\ p[n] = l
  BY <1>3 DEF Ring
<1>6. /\ i \in 1 .. n - 1 /\ f.temp = p[i] /\ f.op # "delete" /\ f.list = l
      /\ f.op # "length" => key[p[i]] < key[f.elm]
  BY <1>1, <1>4, <1>5 DEF Stands, InsertAt, LookupAt, LengthAt, DeleteAt, KeyAhead, AtHeader
<1>7. g.temp = p[i + 1] /\ i + 1 \in 1 .. n
  BY <1>2, <1>3, <1>5, <1>6 DEF Linked
<1>8. f.op # "length" => (\A j \in 1 .. (i + 1) - 1 : key[p[j]] < key[f.elm])
  <2>1. f.op # "length" => (\A j \in 1 .. i - 1 : key[p[j]] < key[f.elm])
    <3>1. f.op # "length" => f.at = "scan"
      BY <1>1
    <3> QED BY <1>4, <1>6, <3>1 DEF Stands, InsertAt, LookupAt, LengthAt, DeleteAt
  <2>2. \A j \in 1 .. (i + 1) - 1 : j \in 1 .. i - 1 \/ j = i
    BY <1>5, <1>6
  <2> QED BY <1>6, <2>1, <2>2
<1>9. f.op = "length" => f.rc = i - 1
  BY <1>1, <1>4 DEF Stands, InsertAt, LookupAt, LengthAt, DeleteAt
<1>10. Stands(l, p, n, g, i + 1)
  BY <1>1, <1>2, <1>4, <1>5, <1>6, <1>7, <1>8, <1>9 DEF Stands, InsertAt, LookupAt, LengthAt, DeleteAt
<1>11. Behind(g) = Behind(f) /\ Private(g) = Private(f)
  BY <1>1, <1>2, <1>6 DEF Behind, Private
<1>12. i + 1 \in Nat /\ call'[c] = g /\ UNCHANGED heap
  BY <1>1
<1> QED BY <1>10, <1>11, <1>12, ReadWorks

\* The loads of temp->prev: prev leads to the node before.
LEMMA LoadPredWorks ==
  ASSUME IInv, NEW c \in Callers, LoadPred(c),
         NEW l \in Headers, NEW p, NEW n, Works(l, p, n, call[c])
  PROVE  Works(l, p, n, call[c])' /\ Private(call[c])' \subseteq Private(call[c])
<1> DEFINE f == call[c]
<1>1. PICK g : /\ g = [f EXCEPT !.at = AfterPred[@], !.pred = prev[f.temp]]
               /\ call'[c] = g /\ f \in Frames /\ UNCHANGED heap
               /\ f.at \in DOMAIN AfterPred
  BY DEF LoadPred, IInv, HeapTypeOK, Frames
<1>2. /\ g.at = AfterPred[f.at] /\ g.op = f.op /\ g.list = f.list /\ g.elm = f.elm
      /\ g.temp = f.temp /\ g.rc = f.rc /\ g.pred = prev[f.temp] /\ g.succ = f.succ
  BY <1>1 DEF Frames
<1>3. Ring(l, p, n) /\ Linked(p, n, Behind(f))
  BY DEF Works
<1>4. PICK i \in Nat : Stands(l, p, n, f, i)
  BY DEF Works
<1>5. n \in Nat
  BY <1>3 DEF Ring
<1>6. \/ f.at = "getPred" /\ g.at = "link"
      \/ f.at = "getPrev" /\ g.at = "testPrev"
      \/ f.at = "unlink" /\ g.at = "unlinkSucc"
      \/ f.at = "unlinkBackPred" /\ g.at = "unlinkBack"
  BY <1>1, <1>2 DEF AfterPred
<1>7. g.pred = p[i - 1]
  <2>1. CASE f.at = "unlinkBackPred"
    BY <1>2, <1>4, <2>1 DEF Stands, InsertAt, LookupAt, LengthAt, DeleteAt
  <2>2. CASE f.at # "unlinkBackPred"
    <3>1. i \in 1 .. n /\ f.temp = p[i] /\ Behind(f) = {}
      BY <1>4, <1>5, <1>6, <2>2 DEF Stands, InsertAt, LookupAt, LengthAt, DeleteAt, Behind
    <3>2. i - 1 \in 0 .. n - 1 /\ (i - 1) + 1 = i
      BY <1>5, <3>1
    <3> QED BY <1>2, <1>3, <3>1, <3>2 DEF Linked
  <2> QED BY <2>1, <2>2
<1>8. Stands(l, p, n, g, i)
  BY <1>2, <1>4, <1>5, <1>6, <1>7 DEF Stands, InsertAt, LookupAt, LengthAt, DeleteAt
<1>9. Behind(g) = Behind(f) /\ Private(g) = Private(f)
  BY <1>2, <1>4, <1>6 DEF Behind, Private, Stands, InsertAt, LookupAt, LengthAt, DeleteAt
<1> QED BY <1>1, <1>8, <1>9, ReadWorks

\* The loads of temp->next other than Advance: next leads to the node after.
LEMMA LoadSuccWorks ==
  ASSUME IInv, NEW c \in Callers, LoadSucc(c),
         NEW l \in Headers, NEW p, NEW n, Works(l, p, n, call[c])
  PROVE  Works(l, p, n, call[c])' /\ Private(call[c])' \subseteq Private(call[c])
<1> DEFINE f == call[c]
<1>1. PICK g : /\ g = [f EXCEPT !.at = AfterSucc[@], !.succ = next[f.temp]]
               /\ call'[c] = g /\ f \in Frames /\ UNCHANGED heap
               /\ f.at \in DOMAIN AfterSucc
  BY DEF LoadSucc, IInv, HeapTypeOK, Frames
<1>2. /\ g.at = AfterSucc[f.at] /\ g.op = f.op /\ g.list = f.list /\ g.elm = f.elm
      /\ g.temp = f.temp /\ g.rc = f.rc /\ g.succ = next[f.temp] /\ g.pred = f.pred
  BY <1>1 DEF Frames
<1>3. Ring(l, p, n) /\ Linked(p, n, Behind(f))
  BY DEF Works
<1>4. PICK i \in Nat : Stands(l, p, n, f, i)
  BY DEF Works
<1>5. n \in Nat
  BY <1>3 DEF Ring
<1>6. \/ f.at = "getNext" /\ g.at = "testNext"
      \/ f.at = "unlinkSucc" /\ g.at = "unlinkNow"
      \/ f.at = "unlinkBackSucc" /\ g.at = "unlinkBackPred"
  BY <1>1, <1>2 DEF AfterSucc
<1>7. /\ f.at = "unlinkBackSucc" => g.succ = p[i]
      /\ f.at # "unlinkBackSucc" => g.succ = p[i + 1]
  <2>1. CASE f.at = "unlinkBackSucc"
    BY <1>2, <1>4, <2>1 DEF Stands, InsertAt, LookupAt, LengthAt, DeleteAt
  <2>2. CASE f.at # "unlinkBackSucc"
    <3>1. i \in 1 .. n - 1 /\ f.temp = p[i]
      BY <1>4, <1>5, <1>6, <2>2 DEF Stands, InsertAt, LookupAt, LengthAt, DeleteAt
    <3> QED BY <1>2, <1>3, <1>5, <2>2, <3>1 DEF Linked
  <2> QED BY <2>1, <2>2
<1>8. Stands(l, p, n, g, i)
  BY <1>2, <1>4, <1>5, <1>6, <1>7 DEF Stands, InsertAt, LookupAt, LengthAt, DeleteAt
<1>9. Behind(g) = Behind(f) /\ Private(g) = Private(f)
  BY <1>2, <1>4, <1>6 DEF Behind, Private, Stands, InsertAt, LookupAt, LengthAt, DeleteAt
<1> QED BY <1>1, <1>8, <1>9, ReadWorks

\* The tests of length and delete never fail: the links lead back.
LEMMA TestWorks ==
  ASSUME IInv, NEW c \in Callers, TestPrev(c) \/ TestNext(c),
         NEW l \in Headers, NEW p, NEW n, Works(l, p, n, call[c])
  PROVE  Works(l, p, n, call[c])' /\ Private(call[c])' \subseteq Private(call[c])
<1> DEFINE f == call[c]
<1>3. Ring(l, p, n) /\ Linked(p, n, Behind(f)) /\ f \in Frames
  BY DEF Works, IInv, HeapTypeOK, Frames
<1>4. PICK i \in Nat : Stands(l, p, n, f, i)
  BY DEF Works
<1>5. n \in Nat
  BY <1>3 DEF Ring
<1>6. f.at \in {"testPrev", "testNext"}
  BY DEF TestPrev, TestNext, Test
<1>7. i \in 1 .. n - 1 /\ f.temp = p[i] /\ Behind(f) = {}
  BY <1>4, <1>5, <1>6 DEF Stands, InsertAt, LookupAt, LengthAt, DeleteAt, Behind
<1>8. /\ f.at = "testPrev" => next[f.pred] = f.temp
      /\ f.at = "testNext" => prev[f.succ] = f.temp
  <2>1. CASE f.at = "testPrev"
    <3>1. f.pred = p[i - 1] /\ i - 1 \in 0 .. n - 1 /\ (i - 1) + 1 = i
      BY <1>4, <1>5, <1>7, <2>1 DEF Stands, InsertAt, LookupAt, LengthAt, DeleteAt
    <3> QED BY <1>3, <1>7, <2>1, <3>1 DEF Linked
  <2>2. CASE f.at = "testNext"
    <3>1. f.succ = p[i + 1] /\ i \in 0 .. n - 1
      BY <1>4, <1>5, <1>7, <2>2 DEF Stands, InsertAt, LookupAt, LengthAt, DeleteAt
    <3> QED BY <1>3, <1>7, <2>2, <3>1 DEF Linked
  <2> QED BY <1>6, <2>1, <2>2
<1>9. PICK to \in {"getNext", "unlink", "consistent", "getPrev"} :
        /\ call' = [call EXCEPT ![c].at = to] /\ UNCHANGED heap
        /\ f.at = "testPrev" => to = IF f.op = "length" THEN "getNext" ELSE "unlink"
        /\ f.at = "testNext" => to = IF f.op = "length" THEN "consistent" ELSE "getPrev"
  <2>1. CASE f.at = "testPrev"
    <3>1. TestPrev(c)
      BY <2>1 DEF TestPrev, TestNext, Test
    <3> QED BY <1>8, <2>1, <3>1 DEF TestPrev, Test
  <2>2. CASE f.at = "testNext"
    <3>1. TestNext(c)
      BY <2>2 DEF TestPrev, TestNext, Test
    <3> QED BY <1>8, <2>2, <3>1 DEF TestNext, Test
  <2> QED BY <1>6, <2>1, <2>2
<1>10. PICK g : call'[c] = g /\ g = [f EXCEPT !.at = to]
  BY <1>9 DEF IInv, HeapTypeOK
<1>11. /\ g.at = to /\ g.op = f.op /\ g.list = f.list /\ g.elm = f.elm
       /\ g.temp = f.temp /\ g.rc = f.rc
  BY <1>3, <1>10 DEF Frames
<1>12. Stands(l, p, n, g, i)
  BY <1>4, <1>5, <1>6, <1>7, <1>9, <1>11 DEF Stands, InsertAt, LookupAt, LengthAt, DeleteAt
<1>13. Behind(g) = Behind(f) /\ Private(g) = Private(f)
  BY <1>4, <1>6, <1>9, <1>11 DEF Behind, Private, Stands, InsertAt, LookupAt, LengthAt, DeleteAt
<1> QED BY <1>9, <1>10, <1>12, <1>13, ReadWorks

\* lookup ends: nothing with the key comes before or after the place it ends at.
LEMMA LookupEndsWorks ==
  ASSUME IInv, NEW c \in Callers, LookupEnds(c),
         NEW l \in Headers, NEW p, NEW n, Works(l, p, n, call[c])
  PROVE  Works(l, p, n, call[c])' /\ Private(call[c])' \subseteq Private(call[c])
<1> DEFINE f == call[c]
<1>1. PICK g : /\ g = [f EXCEPT !.at = "return",
                                !.temp = IF ~AtHeader(c) /\ key[@] = key[f.elm] THEN @ ELSE NULL]
               /\ call'[c] = g /\ f \in Frames /\ UNCHANGED heap
               /\ f.at = "scan" /\ f.op = "lookup" /\ ~KeyAhead(c)
  BY DEF LookupEnds, IInv, HeapTypeOK, Frames
<1>2. /\ g.at = "return" /\ g.op = f.op /\ g.list = f.list /\ g.elm = f.elm
      /\ g.temp = IF ~AtHeader(c) /\ key[f.temp] = key[f.elm] THEN f.temp ELSE NULL
  BY <1>1 DEF Frames
<1>3. Ring(l, p, n)
  BY DEF Works
<1>4. PICK i \in Nat : Stands(l, p, n, f, i)
  BY DEF Works
<1>5. n \in Nat /\ p[n] = l
  BY <1>3 DEF Ring
<1>6. /\ i \in 1 .. n /\ f.temp = p[i] /\ f.list = l /\ f.elm \in Elms
      /\ \A j \in 1 .. i - 1 : key[p[j]] < key[f.elm]
  BY <1>1, <1>4 DEF Stands, InsertAt, LookupAt, LengthAt, DeleteAt
<1>7. /\ AtHeader(c) <=> i = n
      /\ i \in 0 .. n /\ (i # n => i \in 1 .. n - 1 /\ p[i] \in Elms)
  BY <1>3, <1>5, <1>6, RingNodes DEF AtHeader
<1>8. /\ \A e \in Elms : key[e] \in Int
      /\ \A e \in Elms : e # NULL
  BY NodesAssumption, NullIsNoNode DEF IInv, HeapTypeOK, Nodes
<1>9. CASE i # n /\ key[p[i]] = key[f.elm]
  <2>1. Stands(l, p, n, g, i)
    BY <1>1, <1>2, <1>6, <1>7, <1>8, <1>9 DEF Stands, LookupAt
  <2>2. Behind(g) = Behind(f) /\ Private(g) = Private(f)
    BY <1>1, <1>2 DEF Behind, Private
  <2> QED BY <1>1, <2>1, <2>2, ReadWorks
<1>10. CASE ~(i # n /\ key[p[i]] = key[f.elm])
  <2>1. g.temp = NULL
    BY <1>2, <1>6, <1>7, <1>10
  <2>2. ASSUME NEW j \in 1 .. n - 1  PROVE key[p[j]] # key[f.elm]
    <3>1. p[j] \in Elms
      BY <1>3 DEF Ring
    <3>2. CASE j < i
      <4>1. j \in 1 .. i - 1
        BY <1>6, <3>2
      <4> QED BY <1>6, <1>8, <3>1, <4>1
    <3>3. CASE i <= j
      <4>1. i \in 1 .. n - 1 /\ p[i] \in Elms /\ key[p[i]] # key[f.elm]
        BY <1>5, <1>6, <1>7, <1>10, <3>3
      <4>2. key[p[i]] > key[f.elm]
        BY <1>1, <1>6, <1>7, <1>8, <4>1 DEF KeyAhead
      <4>3. key[p[i]] <= key[p[j]]
        BY <1>3, <1>8, <3>1, <3>3, <4>1 DEF Ring
      <4> QED BY <1>6, <1>8, <3>1, <4>1, <4>2, <4>3
    <3> QED BY <1>6, <3>2, <3>3
  <2>3. Stands(l, p, n, g, i)
    BY <1>1, <1>2, <1>6, <2>1, <2>2 DEF Stands, LookupAt
  <2>4. Behind(g) = Behind(f) /\ Private(g) = Private(f)
    BY <1>1, <1>2 DEF Behind, Private
  <2> QED BY <1>1, <2>3, <2>4, ReadWorks
<1> QED BY <1>9, <1>10

\* length ends when it has come round to the header, having counted all.
LEMMA LengthScanWorks ==
  ASSUME IInv, NEW c \in Callers, LengthScan(c),
         NEW l \in Headers, NEW p, NEW n, Works(l, p, n, call[c])
  PROVE  Works(l, p, n, call[c])' /\ Private(call[c])' \subseteq Private(call[c])
<1> DEFINE f == call[c]
<1>1. PICK g : /\ g = [f EXCEPT !.at = IF AtHeader(c) THEN "return" ELSE "getPrev"]
               /\ call'[c] = g /\ f \in Frames /\ UNCHANGED heap
               /\ f.at = "scan" /\ f.op = "length"
  BY DEF LengthScan, IInv, HeapTypeOK, Frames
<1>2. /\ g.at = (IF AtHeader(c) THEN "return" ELSE "getPrev") /\ g.op = f.op /\ g.list = f.list
      /\ g.temp = f.temp /\ g.rc = f.rc
  BY <1>1 DEF Frames
<1>3. Ring(l, p, n)
  BY DEF Works
<1>4. PICK i \in Nat : Stands(l, p, n, f, i)
  BY DEF Works
<1>5. n \in Nat
  BY <1>3 DEF Ring
<1>6. i \in 1 .. n /\ f.temp = p[i] /\ f.list = l /\ f.rc = i - 1
  BY <1>1, <1>4 DEF Stands, InsertAt, LookupAt, LengthAt, DeleteAt
<1>7. AtHeader(c) <=> i = n
  BY <1>3, <1>5, <1>6, RingNodes DEF AtHeader
<1>8. Stands(l, p, n, g, i)
  BY <1>1, <1>2, <1>5, <1>6, <1>7 DEF Stands, LengthAt
<1>9. Behind(g) = Behind(f) /\ Private(g) = Private(f)
  BY <1>1, <1>2 DEF Behind, Private
<1> QED BY <1>1, <1>8, <1>9, ReadWorks

\* A private element is none of the nodes of the list.
LEMMA PrivateOutside ==
  ASSUME NEW l \in Headers, NEW p, NEW n, NEW f, Works(l, p, n, f), NEW e \in Private(f)
  PROVE  \A i \in 0 .. n : p[i] # e
<1>1. Ring(l, p, n) /\ e \in Elms /\ e \notin Inner(p, n)
  BY DEF Works, Private
<1>2. e \notin Headers
  BY <1>1, NodesAssumption
<1> QED BY <1>1, <1>2, RingNodes

\* element->next = temp
LEMMA SetNextWorks ==
  ASSUME IInv, NEW c \in Callers, SetNext(c),
         NEW l \in Headers, NEW p, NEW n, Works(l, p, n, call[c])
  PROVE  Works(l, p, n, call[c])' /\ Private(call[c])' \subseteq Private(call[c])
<1> DEFINE f == call[c]
<1>1. PICK g : /\ g = [f EXCEPT !.at = "setPrev"] /\ call'[c] = g /\ f \in Frames
               /\ next' = [next EXCEPT ![f.elm] = f.temp] /\ UNCHANGED <<key, prev>>
               /\ next \in [Nodes -> Nodes \cup {NULL}]
               /\ f.at = "scan" /\ f.op = "insert" /\ ~KeyAhead(c)
  BY DEF SetNext, IInv, HeapTypeOK, Frames
<1>2. /\ g.at = "setPrev" /\ g.op = f.op /\ g.list = f.list /\ g.elm = f.elm /\ g.temp = f.temp
  BY <1>1 DEF Frames
<1>3. Ring(l, p, n) /\ Linked(p, n, Behind(f))
  BY DEF Works
<1>4. PICK i \in Nat : Stands(l, p, n, f, i)
  BY DEF Works
<1>5. n \in Nat
  BY <1>3 DEF Ring
<1>6. /\ i \in 1 .. n /\ f.temp = p[i] /\ f.list = l /\ f.elm \in Elms
      /\ \A j \in 1 .. i - 1 : key[p[j]] < key[f.elm]
  BY <1>1, <1>4 DEF Stands, InsertAt, LookupAt, LengthAt, DeleteAt
<1>7. /\ AtHeader(c) <=> i = n
      /\ i \in 0 .. n /\ (i # n => i \in 1 .. n - 1 /\ p[i] \in Elms)
  BY <1>3, <1>5, <1>6, RingNodes DEF AtHeader
<1>8. \A e \in Elms : key[e] \in Int
  BY NodesAssumption DEF IInv, HeapTypeOK
<1>9. i < n => key[f.elm] <= key[p[i]]
  BY <1>1, <1>5, <1>6, <1>7, <1>8 DEF KeyAhead
<1>10. f.elm \in Private(f) /\ f.elm \in Nodes
  BY <1>1, <1>6 DEF Private, Nodes
<1>11. \A j \in 0 .. n : p[j] # f.elm /\ p[j] \in Nodes
  BY <1>3, <1>10, PrivateOutside, RingNodes
<1>12. Behind(f) = {} /\ Behind(g)' = {} /\ Private(g) = Private(f)
  BY <1>1, <1>2 DEF Behind, Private
<1>13. Ring(l, p, n)' /\ Linked(p, n, Behind(g))'
  <2>1. \A j \in 0 .. n : next'[p[j]] = next[p[j]]
    BY <1>1, <1>10, <1>11
  <2>2. Linked(p, n, {})'
    BY <1>1, <1>3, <1>5, <1>12, <2>1 DEF Linked
  <2> QED BY <1>1, <1>3, <1>12, <2>2 DEF Ring
<1>14. Stands(l, p, n, g, i)'
  BY <1>1, <1>2, <1>6, <1>9, <1>10 DEF Stands, InsertAt
<1> QED BY <1>1, <1>12, <1>13, <1>14 DEF Works, Private

\* element->prev = temp->prev
LEMMA SetPrevWorks ==
  ASSUME IInv, NEW c \in Callers, SetPrev(c),
         NEW l \in Headers, NEW p, NEW n, Works(l, p, n, call[c])
  PROVE  Works(l, p, n, call[c])' /\ Private(call[c])' \subseteq Private(call[c])
<1> DEFINE f == call[c]
<1>1. PICK g : /\ g = [f EXCEPT !.at = "getPred"] /\ call'[c] = g /\ f \in Frames
               /\ prev' = [prev EXCEPT ![f.elm] = prev[f.temp]] /\ UNCHANGED <<key, next>>
               /\ prev \in [Nodes -> Nodes \cup {NULL}]
               /\ f.at = "setPrev"
  BY DEF SetPrev, IInv, HeapTypeOK, Frames
<1>2. /\ g.at = "getPred" /\ g.op = f.op /\ g.list = f.list /\ g.elm = f.elm /\ g.temp = f.temp
  BY <1>1 DEF Frames
<1>3. Ring(l, p, n) /\ Linked(p, n, Behind(f))
  BY DEF Works
<1>4. PICK i \in Nat : Stands(l, p, n, f, i)
  BY DEF Works
<1>5. n \in Nat
  BY <1>3 DEF Ring
<1>6. f.op = "insert" /\ InsertAt(l, p, n, f, i) /\ i \in 1 .. n /\ f.temp = p[i] /\ f.elm \in Elms
  BY <1>1, <1>4 DEF Stands, InsertAt, LookupAt, LengthAt, DeleteAt
<1>10. f.elm \in Private(f) /\ f.elm \in Nodes
  BY <1>1, <1>6 DEF Private, Nodes
<1>11. \A j \in 0 .. n : p[j] # f.elm /\ p[j] \in Nodes
  BY <1>3, <1>10, PrivateOutside, RingNodes
<1>12. Behind(f) = {} /\ Behind(g)' = {} /\ Private(g) = Private(f)
  BY <1>1, <1>2, <1>6 DEF Behind, Private
<1>13. Ring(l, p, n)' /\ Linked(p, n, Behind(g))'
  <2>1. \A j \in 0 .. n : prev'[p[j]] = prev[p[j]]
    BY <1>1, <1>10, <1>11
  <2>2. Linked(p, n, {})'
    BY <1>1, <1>3, <1>5, <1>12, <2>1 DEF Linked
  <2> QED BY <1>1, <1>3, <1>12, <2>2 DEF Ring
<1>14. prev'[f.elm] = p[i - 1]
  <2>1. i - 1 \in 0 .. n - 1 /\ (i - 1) + 1 = i
    BY <1>5, <1>6
  <2>2. prev[f.temp] = p[i - 1]
    BY <1>3, <1>6, <1>12, <2>1 DEF Linked
  <2> QED BY <1>1, <1>10, <2>2
<1>15. Stands(l, p, n, g, i)'
  BY <1>1, <1>2, <1>6, <1>14 DEF Stands, InsertAt
<1> QED BY <1>1, <1>12, <1>13, <1>15 DEF Works, Private

\* temp->prev = element: the links are complete.
LEMMA LinkBackWorks ==
  ASSUME IInv, NEW c \in Callers, LinkBack(c),
         NEW l \in Headers, NEW p, NEW n, Works(l, p, n, call[c])
  PROVE  Works(l, p, n, call[c])' /\ Private(call[c])' \subseteq Private(call[c])
<1> DEFINE f == call[c]
<1>1. PICK g : /\ g = [f EXCEPT !.at = "return"] /\ call'[c] = g /\ f \in Frames
               /\ prev' = [prev EXCEPT ![f.temp] = f.elm] /\ UNCHANGED <<key, next>>
               /\ prev \in [Nodes -> Nodes \cup {NULL}]
               /\ f.at = "linkBack"
  BY DEF LinkBack, IInv, HeapTypeOK, Frames
<1>2. /\ g.at = "return" /\ g.op = f.op /\ g.list = f.list /\ g.elm = f.elm
  BY <1>1 DEF Frames
<1>3. Ring(l, p, n) /\ Linked(p, n, Behind(f))
  BY DEF Works
<1>4. PICK i \in Nat : Stands(l, p, n, f, i)
  BY DEF Works
<1>5. n \in Nat
  BY <1>3 DEF Ring
<1>6. /\ f.op = "insert" /\ InsertAt(l, p, n, f, i)
      /\ i \in 1 .. n - 1 /\ f.temp = p[i + 1] /\ f.elm = p[i]
  BY <1>1, <1>4 DEF Stands, InsertAt, LookupAt, LengthAt, DeleteAt
<1>12. Behind(f) = {f.temp} /\ Behind(g)' = {} /\ Private(g) = {} /\ f.temp \in Nodes
  <2>1. f.temp \in Nodes
    BY <1>3, <1>5, <1>6, RingNodes
  <2> QED BY <1>1, <1>2, <1>6, <2>1 DEF Behind, Private
<1>13. Linked(p, n, {})'
  <2>1. ASSUME NEW k \in 0 .. n - 1  PROVE next[p[k]] = p[k + 1] /\ prev'[p[k + 1]] = p[k]
    <3>1. next[p[k]] = p[k + 1] /\ (p[k + 1] # f.temp => prev[p[k + 1]] = p[k])
      BY <1>3, <1>12 DEF Linked
    <3>2. p[k + 1] \in Nodes /\ (p[k + 1] = f.temp => k = i)
      <4>1. k + 1 \in 0 .. n /\ i + 1 \in 0 .. n /\ k + 1 # 0 /\ i + 1 # 0
        BY <1>5, <1>6
      <4>2. p[k + 1] \in Nodes /\ (p[k + 1] = p[i + 1] => k + 1 = i + 1 \/ {k + 1, i + 1} = {0, n})
        BY <1>3, <4>1, RingNodes
      <4> QED BY <1>5, <1>6, <4>1, <4>2
    <3> QED BY <1>1, <1>6, <1>12, <3>1, <3>2
  <2> QED BY <1>1, <2>1 DEF Linked
<1>14. Ring(l, p, n)'
  BY <1>1, <1>3 DEF Ring
<1>15. Stands(l, p, n, g, i)'
  BY <1>1, <1>2, <1>6 DEF Stands, InsertAt
<1> QED BY <1>1, <1>12, <1>13, <1>14, <1>15 DEF Works, Private

\* element->next->prev = element->prev: the links are complete again.
LEMMA UnlinkBackWorks ==
  ASSUME IInv, NEW c \in Callers, UnlinkBack(c),
         NEW l \in Headers, NEW p, NEW n, Works(l, p, n, call[c])
  PROVE  Works(l, p, n, call[c])' /\ Private(call[c])' \subseteq Private(call[c])
<1> DEFINE f == call[c]
<1>1. PICK g : /\ g = [f EXCEPT !.at = "return"] /\ call'[c] = g /\ f \in Frames
               /\ prev' = [prev EXCEPT ![f.succ] = f.pred] /\ UNCHANGED <<key, next>>
               /\ prev \in [Nodes -> Nodes \cup {NULL}]
               /\ f.at = "unlinkBack"
  BY DEF UnlinkBack, IInv, HeapTypeOK, Frames
<1>2. /\ g.at = "return" /\ g.op = f.op /\ g.rc = f.rc
  BY <1>1 DEF Frames
<1>3. Ring(l, p, n) /\ Linked(p, n, Behind(f))
  BY DEF Works
<1>4. PICK i \in Nat : Stands(l, p, n, f, i)
  BY DEF Works
<1>5. n \in Nat
  BY <1>3 DEF Ring
<1>6. /\ f.op = "delete" /\ f.rc = 0 /\ i \in 1 .. n /\ next[f.temp] = p[i]
      /\ f.succ = p[i] /\ f.pred = p[i - 1]
  BY <1>1, <1>4 DEF Stands, InsertAt, LookupAt, LengthAt, DeleteAt
<1>12. Behind(f) = {f.succ} /\ Behind(g)' = {} /\ Private(g) = {} /\ f.succ \in Nodes
  <2>1. f.succ \in Nodes
    BY <1>3, <1>5, <1>6, RingNodes
  <2> QED BY <1>1, <1>2, <1>6, <2>1 DEF Behind, Private
<1>13. Linked(p, n, {})'
  <2>1. ASSUME NEW k \in 0 .. n - 1  PROVE next[p[k]] = p[k + 1] /\ prev'[p[k + 1]] = p[k]
    <3>1. next[p[k]] = p[k + 1] /\ (p[k + 1] # f.succ => prev[p[k + 1]] = p[k])
      BY <1>3, <1>12 DEF Linked
    <3>2. p[k + 1] \in Nodes /\ (p[k + 1] = f.succ => k = i - 1)
      <4>1. k + 1 \in 0 .. n /\ i \in 0 .. n /\ k + 1 # 0 /\ i # 0
        BY <1>5, <1>6
      <4>2. p[k + 1] \in Nodes /\ (p[k + 1] = p[i] => k + 1 = i \/ {k + 1, i} = {0, n})
        BY <1>3, <4>1, RingNodes
      <4> QED BY <1>5, <1>6, <4>1, <4>2
    <3> QED BY <1>1, <1>6, <1>12, <3>1, <3>2
  <2> QED BY <1>1, <2>1 DEF Linked
<1>14. Ring(l, p, n)'
  BY <1>1, <1>3 DEF Ring
<1>15. Stands(l, p, n, g, i)'
  BY <1>1, <1>2, <1>6 DEF Stands, DeleteAt
<1> QED BY <1>1, <1>4, <1>12, <1>13, <1>14, <1>15 DEF Works, Private

\* temp->prev->next = element: the element has its place in the ring, right before
\* the node the search ended at.
LEMMA LinkWorks ==
  ASSUME IInv, NEW c \in Callers, Link(c),
         NEW l \in Headers, NEW p, NEW n, Works(l, p, n, call[c])
  PROVE  /\ call[c].elm \in Private(call[c])
         /\ \E q, m : Works(l, q, m, call[c])' /\ Inner(q, m) = Inner(p, n) \cup {call[c].elm}
<1> DEFINE f == call[c]
           e == f.elm
           m == n + 1
<1>1. PICK g : /\ g = [f EXCEPT !.at = "linkBack"] /\ call'[c] = g /\ f \in Frames
               /\ next' = [next EXCEPT ![f.pred] = e] /\ UNCHANGED <<key, prev>>
               /\ next \in [Nodes -> Nodes \cup {NULL}]
               /\ f.at = "link"
  BY DEF Link, IInv, HeapTypeOK, Frames
<1>2. /\ g.at = "linkBack" /\ g.op = f.op /\ g.list = f.list /\ g.elm = f.elm /\ g.temp = f.temp
  BY <1>1 DEF Frames
<1>3. Ring(l, p, n) /\ Linked(p, n, Behind(f))
  BY DEF Works
<1>4. PICK i \in Nat : Stands(l, p, n, f, i)
  BY DEF Works
<1>5. n \in Nat /\ n > 0 /\ p \in [Nat -> Nodes] /\ p[0] = l /\ p[n] = l /\ l \in Nodes
  BY <1>3 DEF Ring, Nodes
<1>6. /\ f.op = "insert" /\ f.list = l /\ e \in Elms /\ e \in Nodes
      /\ i \in 1 .. n /\ f.temp = p[i] /\ f.pred = p[i - 1]
      /\ next[e] = p[i] /\ prev[e] = p[i - 1]
      /\ i < n => key[e] <= key[p[i]]
      /\ \A j \in 1 .. i - 1 : key[p[j]] < key[e]
  BY <1>1, <1>4 DEF Stands, InsertAt, LookupAt, LengthAt, DeleteAt, Nodes
<1>7. e \in Private(f)
  BY <1>1, <1>6 DEF Private
<1>8. \A j \in 0 .. n : p[j] # e /\ p[j] \in Nodes
  BY <1>3, <1>7, PrivateOutside, RingNodes
<1>9. /\ \A x \in Elms : key[x] \in Int
      /\ \A j \in 1 .. n - 1 : p[j] \in Elms
  BY <1>3, NodesAssumption DEF IInv, HeapTypeOK, Ring
<1>10. PICK q : q = [j \in Nat |-> IF j < i THEN p[j] ELSE IF j = i THEN e ELSE p[j - 1]]
  OBVIOUS
<1>11. /\ \A j \in 0 .. i - 1 : q[j] = p[j]
       /\ q[i] = e
       /\ \A j \in i + 1 .. n + 1 : q[j] = p[j - 1]
       /\ q \in [Nat -> Nodes] /\ m \in Nat \ {0}
  <2>1. \A j \in Nat : (IF j < i THEN p[j] ELSE IF j = i THEN e ELSE p[j - 1]) \in Nodes
    <3>1. \A j \in Nat : ~(j < i) /\ j # i => j - 1 \in Nat
      OBVIOUS
    <3> QED BY <1>5, <1>6, <3>1
  <2> QED BY <1>5, <1>6, <1>10, <2>1
<1>12. Inner(q, m) = Inner(p, n) \cup {e}
  <2>1. ASSUME NEW k \in 1 .. m - 1  PROVE q[k] \in Inner(p, n) \cup {e}
    <3>0. n \in Nat /\ i \in Nat /\ 1 <= i /\ k \in Nat /\ 1 <= k /\ k <= n
      BY <1>5, <1>6
    <3>1. k \in 1 .. i - 1 \/ k = i \/ (k \in i + 1 .. n /\ k - 1 \in 1 .. n - 1)
      BY <3>0
    <3> QED BY <1>5, <1>6, <1>11, <3>1 DEF Inner
  <2>2. ASSUME NEW k \in 1 .. n - 1  PROVE p[k] \in Inner(q, m)
    <3>1. CASE k < i
      <4>1. k \in 0 .. i - 1 /\ k \in 1 .. m - 1
        BY <1>5, <3>1
      <4> QED BY <1>11, <4>1 DEF Inner
    <3>2. CASE i <= k
      <4>1. k + 1 \in i + 1 .. n + 1 /\ k + 1 \in 1 .. m - 1 /\ (k + 1) - 1 = k
        BY <1>5, <3>2
      <4> QED BY <1>11, <4>1 DEF Inner
    <3> QED BY <3>1, <3>2
  <2>3. e \in Inner(q, m)
    <3>1. i \in 1 .. m - 1
      BY <1>5, <1>6
    <3> QED BY <1>11, <3>1 DEF Inner
  <2> QED BY <2>1, <2>2, <2>3 DEF Inner
<1>13. Ring(l, q, m)'
  <2>1. q[0] = l /\ q[m] = l
    <3>1. 0 \in 0 .. i - 1 /\ n + 1 \in i + 1 .. n + 1 /\ (n + 1) - 1 = n
      BY <1>5, <1>6
    <3> QED BY <1>5, <1>11, <3>1
  <2>2. \A k \in 1 .. m - 1 : q[k] \in Elms
    <3>1. \A k \in 1 .. m - 1 : q[k] \in Inner(q, m)
      BY DEF Inner
    <3>2. Inner(p, n) \subseteq Elms
      BY <1>9 DEF Inner
    <3> QED BY <1>6, <1>12, <3>1, <3>2
  <2>3. ASSUME NEW j \in 1 .. m - 1, NEW k \in 1 .. m - 1, j < k
        PROVE  q[j] # q[k] /\ key[q[j]] <= key[q[k]]
    <3>0. \A a, b \in 1 .. n - 1 : a < b => p[a] # p[b] /\ key[p[a]] <= key[p[b]]
      BY <1>3 DEF Ring
    <3>1. CASE k < i
      <4>1. j \in 0 .. i - 1 /\ k \in 0 .. i - 1 /\ j \in 1 .. n - 1 /\ k \in 1 .. n - 1
        BY <1>5, <1>6, <2>3, <3>1
      <4> QED BY <1>11, <2>3, <3>0, <4>1
    <3>2. CASE k = i
      <4>1. j \in 0 .. i - 1 /\ j \in 1 .. i - 1 /\ j \in 1 .. n - 1 /\ j \in 0 .. n
        BY <1>5, <1>6, <2>3, <3>2
      <4> QED BY <1>6, <1>8, <1>9, <1>11, <3>2, <4>1
    <3>3. CASE k > i /\ j < i
      <4>1. k \in i + 1 .. n + 1 /\ k - 1 \in 1 .. n - 1 /\ j \in 0 .. i - 1 /\ j \in 1 .. n - 1 /\ j < k - 1
        BY <1>5, <1>6, <2>3, <3>3
      <4> QED BY <1>11, <3>0, <4>1
    <3>4. CASE k > i /\ j = i
      <4>1. /\ k \in i + 1 .. n + 1 /\ k - 1 \in 1 .. n - 1 /\ k - 1 \in 0 .. n
            /\ i \in 1 .. n - 1 /\ i <= k - 1
        BY <1>5, <1>6, <2>3, <3>4
      <4>2. key[p[i]] <= key[p[k - 1]] /\ p[i] \in Elms /\ p[k - 1] \in Elms
        BY <1>9, <3>0, <4>1
      <4>3. key[e] <= key[p[k - 1]]
        <5>1. key[e] \in Int /\ key[p[i]] \in Int /\ key[p[k - 1]] \in Int
          BY <1>6, <1>9, <4>2
        <5>2. key[e] <= key[p[i]]
          BY <1>5, <1>6, <4>1
        <5> QED BY <4>2, <5>1, <5>2
      <4> QED BY <1>8, <1>11, <3>4, <4>1, <4>3
    <3>5. CASE k > i /\ j > i
      <4>1. /\ k \in i + 1 .. n + 1 /\ k - 1 \in 1 .. n - 1
            /\ j \in i + 1 .. n + 1 /\ j - 1 \in 1 .. n - 1 /\ j - 1 < k - 1
        BY <1>5, <1>6, <2>3, <3>5
      <4> QED BY <1>11, <3>0, <4>1
    <3> QED BY <1>6, <3>1, <3>2, <3>3, <3>4, <3>5
  <2> QED BY <1>1, <1>11, <2>1, <2>2, <2>3 DEF Ring
<1>14. /\ Behind(f) = {} /\ Behind(g)' = {p[i]} /\ Private(g) = {}
  <2>1. p[i] \in Nodes
    BY <1>5
  <2> QED BY <1>1, <1>2, <1>6, <2>1 DEF Behind, Private
<1>15. Linked(q, m, {p[i]})'
  <2>1. ASSUME NEW k \in 0 .. n, p[k] = p[i - 1], k < n  PROVE k = i - 1
    <3>1. i - 1 \in 0 .. n /\ i - 1 < n
      BY <1>5, <1>6
    <3>2. k = i - 1 \/ {k, i - 1} = {0, n}
      BY <1>3, <2>1, <3>1, RingNodes
    <3> QED BY <1>5, <2>1, <3>1, <3>2
  <2>2. ASSUME NEW k \in 0 .. m - 1
        PROVE  next'[q[k]] = q[k + 1] /\ (q[k + 1] # p[i] => prev[q[k + 1]] = q[k])
    <3>1. CASE k < i - 1
      <4>1. /\ k \in 0 .. i - 1 /\ k + 1 \in 0 .. i - 1 /\ k \in 0 .. n - 1 /\ k \in 0 .. n
            /\ k < n /\ k # i - 1
        BY <1>5, <1>6, <3>1
      <4>2. next[p[k]] = p[k + 1] /\ prev[p[k + 1]] = p[k]
        BY <1>3, <1>14, <4>1 DEF Linked
      <4>3. p[k] # f.pred /\ p[k] \in Nodes
        BY <1>6, <1>8, <2>1, <4>1
      <4> QED BY <1>1, <1>11, <4>1, <4>2, <4>3
    <3>2. CASE k = i - 1
      <4>1. k \in 0 .. i - 1 /\ k + 1 = i /\ k \in 0 .. n
        BY <1>5, <1>6, <3>2
      <4> QED BY <1>1, <1>6, <1>8, <1>11, <3>2, <4>1
    <3>3. CASE k = i
      <4>1. k + 1 \in i + 1 .. n + 1 /\ (k + 1) - 1 = i /\ i - 1 \in 0 .. n
        BY <1>5, <1>6, <3>3
      <4> QED BY <1>1, <1>6, <1>8, <1>11, <3>3, <4>1
    <3>4. CASE k > i
      <4>1. /\ k \in i + 1 .. n + 1 /\ k + 1 \in i + 1 .. n + 1 /\ (k + 1) - 1 = (k - 1) + 1
            /\ k - 1 \in 0 .. n - 1 /\ k - 1 \in 0 .. n /\ k - 1 < n /\ k - 1 # i - 1
        BY <1>5, <1>6, <3>4
      <4>2. next[p[k - 1]] = p[(k - 1) + 1] /\ prev[p[(k - 1) + 1]] = p[k - 1]
        BY <1>3, <1>14, <4>1 DEF Linked
      <4>3. p[k - 1] # f.pred /\ p[k - 1] \in Nodes
        BY <1>6, <1>8, <2>1, <4>1
      <4> QED BY <1>1, <1>11, <4>1, <4>2, <4>3
    <3> QED BY <1>6, <3>1, <3>2, <3>3, <3>4
  <2> QED BY <1>1, <2>2 DEF Linked
<1>16. Stands(l, q, m, g, i)'
  <2>1. i \in 1 .. m - 1 /\ q[i + 1] = p[i]
    <3>1. i + 1 \in i + 1 .. n + 1 /\ (i + 1) - 1 = i
      BY <1>5, <1>6
    <3> QED BY <1>5, <1>6, <1>11, <3>1
  <2> QED BY <1>1, <1>2, <1>6, <1>11, <2>1 DEF Stands, InsertAt
<1>17. Works(l, q, m, call[c])'
  BY <1>1, <1>13, <1>14, <1>15, <1>16 DEF Works, Private
<1> QED BY <1>7, <1>12, <1>17

\* element->prev->next = element->next: the element has left the ring.
LEMMA UnlinkWorks ==
  ASSUME IInv, NEW c \in Callers, Unlink(c),
         NEW l \in Headers, NEW p, NEW n, Works(l, p, n, call[c])
  PROVE  /\ call[c].temp \in Inner(p, n) /\ Private(call[c])' = {call[c].temp}
         /\ \E q, m : Works(l, q, m, call[c])' /\ Inner(q, m) = Inner(p, n) \ {call[c].temp}
<1> DEFINE f == call[c]
           e == f.temp
           m == n - 1
<1>1. PICK g : /\ g = [f EXCEPT !.at = "unlinkBackSucc"] /\ call'[c] = g /\ f \in Frames
               /\ next' = [next EXCEPT ![f.pred] = f.succ] /\ UNCHANGED <<key, prev>>
               /\ next \in [Nodes -> Nodes \cup {NULL}]
               /\ f.at = "unlinkNow"
  BY DEF Unlink, IInv, HeapTypeOK, Frames
<1>2. /\ g.at = "unlinkBackSucc" /\ g.op = f.op /\ g.temp = f.temp /\ g.rc = f.rc
  BY <1>1 DEF Frames
<1>3. Ring(l, p, n) /\ Linked(p, n, Behind(f))
  BY DEF Works
<1>4. PICK i \in Nat : Stands(l, p, n, f, i)
  BY DEF Works
<1>5. n \in Nat /\ n > 0 /\ p \in [Nat -> Nodes] /\ p[0] = l /\ p[n] = l /\ l \in Nodes
  BY <1>3 DEF Ring, Nodes
<1>6. /\ f.op = "delete" /\ f.rc = 0
      /\ i \in 1 .. n - 1 /\ e = p[i] /\ f.pred = p[i - 1] /\ f.succ = p[i + 1]
  BY <1>1, <1>4 DEF Stands, InsertAt, LookupAt, LengthAt, DeleteAt
<1>7. /\ e \in Inner(p, n) /\ e \in Elms
      /\ \A j \in 1 .. n - 1 : p[j] \in Elms
      /\ \A j \in 0 .. n : p[j] \in Nodes
  BY <1>3, <1>6, RingNodes DEF Ring, Inner
<1>8. ASSUME NEW j \in 0 .. n, NEW k \in 1 .. n - 1, p[j] = p[k]  PROVE j = k
  <2>1. k \in 0 .. n /\ k # 0 /\ k # n
    BY <1>5
  <2>2. j = k \/ {j, k} = {0, n}
    BY <1>3, <1>8, <2>1, RingNodes
  <2> QED BY <2>1, <2>2
<1>10. PICK q : q = [j \in Nat |-> IF j < i THEN p[j] ELSE p[j + 1]]
  OBVIOUS
<1>11. /\ \A j \in 0 .. i - 1 : q[j] = p[j]
       /\ \A j \in i .. n - 1 : q[j] = p[j + 1]
       /\ q \in [Nat -> Nodes] /\ m \in Nat \ {0}
  <2>1. \A j \in Nat : (IF j < i THEN p[j] ELSE p[j + 1]) \in Nodes
    BY <1>5, <1>6
  <2> QED BY <1>5, <1>6, <1>10, <2>1
<1>12. Inner(q, m) = Inner(p, n) \ {e}
  <2>1. ASSUME NEW k \in 1 .. m - 1  PROVE q[k] \in Inner(p, n) \ {e}
    <3>1. CASE k < i
      <4>1. k \in 0 .. i - 1 /\ k \in 1 .. n - 1 /\ k \in 0 .. n /\ k # i
        BY <1>5, <3>1
      <4> QED BY <1>6, <1>8, <1>11, <4>1 DEF Inner
    <3>2. CASE i <= k
      <4>1. k \in i .. n - 1 /\ k + 1 \in 1 .. n - 1 /\ k + 1 \in 0 .. n /\ k + 1 # i
        BY <1>5, <3>2
      <4> QED BY <1>6, <1>8, <1>11, <4>1 DEF Inner
    <3> QED BY <3>1, <3>2
  <2>2. ASSUME NEW k \in 1 .. n - 1, k # i  PROVE p[k] \in Inner(q, m)
    <3>1. CASE k < i
      <4>1. k \in 0 .. i - 1 /\ k \in 1 .. m - 1
        BY <1>5, <1>6, <3>1
      <4> QED BY <1>11, <4>1 DEF Inner
    <3>2. CASE i < k
      <4>1. k - 1 \in i .. n - 1 /\ k - 1 \in 1 .. m - 1 /\ (k - 1) + 1 = k
        BY <1>5, <1>6, <3>2
      <4> QED BY <1>11, <4>1 DEF Inner
    <3> QED BY <2>2, <3>1, <3>2
  <2> QED BY <1>6, <2>1, <2>2 DEF Inner
<1>13. Ring(l, q, m)'
  <2>1. q[0] = l /\ q[m] = l
    <3>1. 0 \in 0 .. i - 1 /\ n - 1 \in i .. n - 1 /\ (n - 1) + 1 = n
      BY <1>5, <1>6
    <3> QED BY <1>5, <1>11, <3>1
  <2>2. \A k \in 1 .. m - 1 : q[k] \in Elms
    <3>1. \A k \in 1 .. m - 1 : q[k] \in Inner(q, m)
      BY DEF Inner
    <3>2. Inner(p, n) \subseteq Elms
      BY <1>7 DEF Inner
    <3> QED BY <1>12, <3>1, <3>2
  <2>3. ASSUME NEW j \in 1 .. m - 1, NEW k \in 1 .. m - 1, j < k
        PROVE  q[j] # q[k] /\ key[q[j]] <= key[q[k]]
    <3>0. \A a, b \in 1 .. n - 1 : a < b => p[a] # p[b] /\ key[p[a]] <= key[p[b]]
      BY <1>3 DEF Ring
    <3>1. CASE k < i
      <4>1. j \in 0 .. i - 1 /\ k \in 0 .. i - 1 /\ j \in 1 .. n - 1 /\ k \in 1 .. n - 1
        BY <1>5, <1>6, <2>3, <3>1
      <4> QED BY <1>11, <2>3, <3>0, <4>1
    <3>2. CASE k >= i /\ j < i
      <4>1. k \in i .. n - 1 /\ k + 1 \in 1 .. n - 1 /\ j \in 0 .. i - 1 /\ j \in 1 .. n - 1 /\ j < k + 1
        BY <1>5, <1>6, <2>3, <3>2
      <4> QED BY <1>11, <3>0, <4>1
    <3>3. CASE k >= i /\ j >= i
      <4>1. /\ k \in i .. n - 1 /\ k + 1 \in 1 .. n - 1
            /\ j \in i .. n - 1 /\ j + 1 \in 1 .. n - 1 /\ j + 1 < k + 1
        BY <1>5, <1>6, <2>3, <3>3
      <4> QED BY <1>11, <3>0, <4>1
    <3> QED BY <1>6, <3>1, <3>2, <3>3
  <2> QED BY <1>1, <1>11, <2>1, <2>2, <2>3 DEF Ring
<1>14. /\ next[e] = p[i + 1] /\ prev[e] = p[i - 1] /\ Behind(f) = {}
  <2>1. Behind(f) = {}
    BY <1>1 DEF Behind
  <2>2. i \in 0 .. n - 1 /\ i - 1 \in 0 .. n - 1 /\ (i - 1) + 1 = i
    BY <1>5, <1>6
  <2> QED BY <1>3, <1>6, <2>1, <2>2 DEF Linked
<1>15. next'[e] = p[i + 1]
  <2>1. i - 1 \in 0 .. n /\ i - 1 # i
    BY <1>5, <1>6
  <2>2. p[i - 1] # e
    BY <1>6, <1>8, <2>1
  <2>3. e \in Nodes
    BY <1>7 DEF Nodes
  <2> QED BY <1>1, <1>6, <1>14, <2>2, <2>3
<1>16. /\ Behind(g)' = {p[i + 1]} /\ Private(g) = {e} /\ p[i + 1] \in Nodes
  <2>1. p[i + 1] \in Nodes
    BY <1>5
  <2> QED BY <1>1, <1>2, <1>6, <1>7, <1>15, <2>1 DEF Behind, Private
<1>17. Linked(q, m, {p[i + 1]})'
  <2>1. ASSUME NEW k \in 0 .. n, p[k] = p[i - 1], k < n  PROVE k = i - 1
    <3>1. i - 1 \in 0 .. n /\ i - 1 < n
      BY <1>5, <1>6
    <3>2. k = i - 1 \/ {k, i - 1} = {0, n}
      BY <1>3, <2>1, <3>1, RingNodes
    <3> QED BY <1>5, <2>1, <3>1, <3>2
  <2>2. ASSUME NEW k \in 0 .. m - 1
        PROVE  next'[q[k]] = q[k + 1] /\ (q[k + 1] # p[i + 1] => prev[q[k + 1]] = q[k])
    <3>1. CASE k < i - 1
      <4>1. /\ k \in 0 .. i - 1 /\ k + 1 \in 0 .. i - 1 /\ k \in 0 .. n - 1 /\ k \in 0 .. n
            /\ k < n /\ k # i - 1
        BY <1>5, <1>6, <3>1
      <4>2. next[p[k]] = p[k + 1] /\ prev[p[k + 1]] = p[k]
        BY <1>3, <1>14, <4>1 DEF Linked
      <4>3. p[k] # f.pred /\ p[k] \in Nodes
        BY <1>6, <1>7, <2>1, <4>1
      <4> QED BY <1>1, <1>11, <4>1, <4>2, <4>3
    <3>2. CASE k = i - 1
      <4>1. k \in 0 .. i - 1 /\ k + 1 = i /\ k + 1 \in i .. n - 1 /\ k \in 0 .. n
        BY <1>5, <1>6, <3>2
      <4> QED BY <1>1, <1>6, <1>7, <1>11, <3>2, <4>1
    <3>3. CASE k >= i
      <4>1. /\ k \in i .. n - 1 /\ k + 1 \in i .. n - 1
            /\ k + 1 \in 0 .. n - 1 /\ k + 1 \in 0 .. n /\ k + 1 < n /\ k + 1 # i - 1
        BY <1>5, <1>6, <3>3
      <4>2. next[p[k + 1]] = p[(k + 1) + 1] /\ prev[p[(k + 1) + 1]] = p[k + 1]
        BY <1>3, <1>14, <4>1 DEF Linked
      <4>3. p[k + 1] # f.pred /\ p[k + 1] \in Nodes
        BY <1>6, <1>7, <2>1, <4>1
      <4> QED BY <1>1, <1>11, <4>1, <4>2, <4>3
    <3> QED BY <1>6, <3>1, <3>2, <3>3
  <2> QED BY <1>1, <2>2 DEF Linked
<1>18. Stands(l, q, m, g, i)'
  <2>1. i \in 1 .. m /\ q[i] = p[i + 1] /\ q[i - 1] = p[i - 1]
    <3>1. i \in i .. n - 1 /\ i - 1 \in 0 .. i - 1
      BY <1>5, <1>6
    <3> QED BY <1>5, <1>6, <1>11, <3>1
  <2> QED BY <1>1, <1>2, <1>6, <1>7, <1>14, <1>15, <2>1 DEF Stands, DeleteAt
<1>19. Works(l, q, m, call[c])'
  <2>1. Private(g) \cap Inner(q, m) = {}
    BY <1>12, <1>16
  <2> QED BY <1>1, <1>13, <1>16, <1>17, <1>18, <2>1 DEF Works, Private
<1> QED BY <1>1, <1>7, <1>12, <1>16, <1>19 DEF Private

\* A step takes its list to a ring again.  Its private element and those of the
\* ring are the same as before, together; link and unlink move one from the one to
\* the other.
LEMMA MoveWorks ==
  ASSUME IInv, NEW c \in Callers, ListStep(c),
         NEW l \in Headers, NEW p, NEW n, Works(l, p, n, call[c])
  PROVE  \E q, m :
           /\ Works(l, q, m, call[c])'
           /\ Private(call[c])' \cup Inner(q, m) \subseteq Private(call[c]) \cup Inner(p, n)
           /\ Link(c) => /\ call[c].elm \in Private(call[c])
                         /\ Inner(q, m) = Inner(p, n) \cup {call[c].elm}
           /\ Unlink(c) => /\ call[c].temp \in Inner(p, n)
                           /\ Inner(q, m) = Inner(p, n) \ {call[c].temp}
           /\ ~Link(c) /\ ~Unlink(c) => Inner(q, m) = Inner(p, n)
<1>1. CASE Link(c)
  <2>1. ~Unlink(c) /\ Private(call[c])' = {}
    <3>1. call'[c] = [call[c] EXCEPT !.at = "linkBack"] /\ call[c].at = "link" /\ call[c] \in Frames
      BY <1>1 DEF Link, IInv, HeapTypeOK, Frames
    <3>2. call'[c].at = "linkBack"
      BY <3>1 DEF Frames
    <3> QED BY <3>1, <3>2 DEF Unlink, Private
  <2> QED BY <1>1, <2>1, LinkWorks
<1>2. CASE Unlink(c)
  <2>1. ~Link(c)
    BY <1>2 DEF Link, Unlink
  <2> QED BY <1>2, <2>1, UnlinkWorks
<1>3. CASE ~Link(c) /\ ~Unlink(c)
  <2>1. Works(l, p, n, call[c])' /\ Private(call[c])' \subseteq Private(call[c])
    BY <1>3, FirstWorks, AdvanceWorks, SetNextWorks, SetPrevWorks, LinkBackWorks, LoadPredWorks,
       LoadSuccWorks, TestWorks, UnlinkBackWorks, LookupEndsWorks, LengthScanWorks DEF ListStep
  <2> QED BY <1>3, <2>1
<1> QED BY <1>1, <1>2, <1>3

\* A step writes to the nodes of its list and to its private element only.
LEMMA StepWrites ==
  ASSUME IInv, NEW c \in Callers, ListStep(c),
         NEW l \in Headers, NEW p, NEW n, Works(l, p, n, call[c])
  PROVE  \A x \in Nodes : x \notin Private(call[c]) /\ x \notin Inner(p, n) \cup {l} =>
           next'[x] = next[x] /\ prev'[x] = prev[x]
<1> SUFFICES ASSUME NEW x \in Nodes, x \notin Private(call[c]), x \notin Inner(p, n) \cup {l}
             PROVE  next'[x] = next[x] /\ prev'[x] = prev[x]
  OBVIOUS
<1>0. \A i \in 0 .. n : x # p[i]
  BY RingNodes DEF Works
<1>1. /\ next \in [Nodes -> Nodes \cup {NULL}] /\ prev \in [Nodes -> Nodes \cup {NULL}]
      /\ Ring(l, p, n)
  BY DEF IInv, HeapTypeOK, Works
<1>2. PICK i \in Nat : Stands(l, p, n, call[c], i)
  BY DEF Works
<1>3. n \in Nat
  BY <1>1 DEF Ring
<1>4. CASE SetNext(c) \/ SetPrev(c)
  <2>1. call[c].elm \in Private(call[c])
    BY <1>2, <1>4 DEF SetNext, SetPrev, Private, Stands, InsertAt, LookupAt, LengthAt, DeleteAt
  <2> QED BY <1>1, <1>4, <2>1 DEF SetNext, SetPrev
<1>5. CASE Link(c)
  <2>1. call[c].pred = p[i - 1] /\ i - 1 \in 0 .. n
    BY <1>2, <1>3, <1>5 DEF Link, Stands, InsertAt, LookupAt, LengthAt, DeleteAt
  <2> QED BY <1>0, <1>1, <1>5, <2>1 DEF Link
<1>6. CASE LinkBack(c)
  <2>1. call[c].temp = p[i + 1] /\ i + 1 \in 0 .. n
    BY <1>2, <1>3, <1>6 DEF LinkBack, Stands, InsertAt, LookupAt, LengthAt, DeleteAt
  <2> QED BY <1>0, <1>1, <1>6, <2>1 DEF LinkBack
<1>7. CASE Unlink(c)
  <2>1. call[c].pred = p[i - 1] /\ i - 1 \in 0 .. n
    BY <1>2, <1>3, <1>7 DEF Unlink, Stands, InsertAt, LookupAt, LengthAt, DeleteAt
  <2> QED BY <1>0, <1>1, <1>7, <2>1 DEF Unlink
<1>8. CASE UnlinkBack(c)
  <2>1. call[c].succ = p[i] /\ i \in 0 .. n
    BY <1>2, <1>3, <1>8 DEF UnlinkBack, Stands, InsertAt, LookupAt, LengthAt, DeleteAt
  <2> QED BY <1>0, <1>1, <1>8, <2>1 DEF UnlinkBack
<1>9. CASE UNCHANGED heap
  BY <1>9 DEF heap
<1>10. First(c) \/ Advance(c) \/ LoadPred(c) \/ LoadSucc(c) \/ TestPrev(c) \/ TestNext(c)
         \/ LookupEnds(c) \/ LengthScan(c) => UNCHANGED heap
  BY DEF First, Advance, LoadPred, LoadSucc, TestPrev, TestNext, Test, LookupEnds, LengthScan
<1> QED BY <1>4, <1>5, <1>6, <1>7, <1>8, <1>9, <1>10 DEF ListStep

\* A list none of whose nodes is written to.
LEMMA RingFrame ==
  ASSUME NEW l \in Headers, NEW p, NEW n, Ring(l, p, n), UNCHANGED key,
         \A x \in Inner(p, n) \cup {l} : next'[x] = next[x] /\ prev'[x] = prev[x]
  PROVE  /\ Ring(l, p, n)'
         /\ \A S : Linked(p, n, S) => Linked(p, n, S)'
<1>1. n \in Nat
  BY DEF Ring
<1>2. \A i \in 0 .. n - 1 : i \in 0 .. n /\ i + 1 \in 0 .. n
  BY <1>1
<1>3. \A i \in 0 .. n : next'[p[i]] = next[p[i]] /\ prev'[p[i]] = prev[p[i]]
  BY RingNodes
<1> QED BY <1>1, <1>2, <1>3 DEF Ring, Linked

\* A call that works on such a list, and whose private element is not written to
\* either, goes on as it was.
LEMMA WorksFrame ==
  ASSUME NEW l \in Headers, NEW p, NEW n, NEW d \in Callers, Works(l, p, n, call[d]),
         UNCHANGED key, call'[d] = call[d],
         \A x \in Inner(p, n) \cup {l} : next'[x] = next[x] /\ prev'[x] = prev[x],
         \A x \in Private(call[d]) : next'[x] = next[x] /\ prev'[x] = prev[x]
  PROVE  Works(l, p, n, call[d])'
<1>1. PICK g : call[d] = g /\ call'[d] = g
  OBVIOUS
<1>2. Ring(l, p, n) /\ Linked(p, n, Behind(g)) /\ Private(g) \cap Inner(p, n) = {}
  BY <1>1 DEF Works
<1>3. PICK i \in Nat : Stands(l, p, n, g, i)
  BY <1>1 DEF Works
<1>4. Ring(l, p, n)' /\ Linked(p, n, Behind(g))
  BY <1>2, RingFrame
<1>5. /\ g.at \in {"setPrev", "getPred", "link"} => next'[g.elm] = next[g.elm] /\ prev'[g.elm] = prev[g.elm]
      /\ g.at \in {"unlinkBackSucc", "unlinkBackPred", "unlinkBack"} =>
           next'[g.temp] = next[g.temp] /\ prev'[g.temp] = prev[g.temp]
  BY <1>1, <1>3 DEF Private, Stands, InsertAt, LookupAt, LengthAt, DeleteAt
<1>6. Behind(g)' = Behind(g)
  BY <1>5 DEF Behind
<1>7. Linked(p, n, Behind(g))'
  <2>1. PICK S : S = Behind(g)
    OBVIOUS
  <2>2. Linked(p, n, S)'
    BY <1>2, <2>1, RingFrame
  <2> QED BY <1>6, <2>1, <2>2 DEF Linked
<1>8. Stands(l, p, n, g, i)'
  BY <1>3, <1>5 DEF Stands, InsertAt, LookupAt, LengthAt, DeleteAt
<1> QED BY <1>1, <1>2, <1>4, <1>7, <1>8 DEF Works, Private

\* The lists and calls as a whole: on[c] is the list caller c works on, or NULL;
\* path[l] and size[l] are the ring of list l.  Whatever belongs to one list or one
\* call belongs to no other.
Kept(on, path, size) ==
  /\ \A l \in Headers : Ring(l, path[l], size[l])
  /\ \A c \in Callers : on[c] \in Headers => Works(on[c], path[on[c]], size[on[c]], call[c])
  /\ \A c \in Callers : on[c] \notin Headers => call[c] = Idle
  /\ \A l \in Headers : (\A c \in Callers : on[c] # l) => Linked(path[l], size[l], {})
  /\ \A l, m \in Headers : l # m => Inner(path[l], size[l]) \cap Inner(path[m], size[m]) = {}
  /\ \A c \in Callers, l \in Headers : Private(call[c]) \cap Inner(path[l], size[l]) = {}
  /\ \A c, d \in Callers : c # d => Private(call[c]) \cap Private(call[d]) = {}

\* No two callers work on the same list.
OneAtATime(on) ==
  \A c, d \in Callers : on[c] \in Headers /\ on[c] = on[d] => c = d

Protected(on) == \E path, size : Kept(on, path, size)

\* An idle call has nothing of its own.
LEMMA IdleIsPrivate == Private(Idle) = {} /\ Behind(Idle) = {}
  BY DEF Idle, Private, Behind

\* A step of a call keeps all lists, its own and the others.
LEMMA ListStepKept ==
  ASSUME IInv, NEW on, OneAtATime(on), NEW c \in Callers, ListStep(c), on[c] \in Headers,
         NEW path, NEW size, Kept(on, path, size),
         NEW q, NEW m, Works(on[c], q, m, call[c])',
         Private(call[c])' \cup Inner(q, m)
           \subseteq Private(call[c]) \cup Inner(path[on[c]], size[on[c]])
  PROVE  \E path2, size2 : Kept(on, path2, size2)' /\ path2[on[c]] = q /\ size2[on[c]] = m
            /\ \A k \in Headers : k # on[c] => path2[k] = path[k] /\ size2[k] = size[k]
<1> DEFINE l == on[c]
<1>1. PICK path2, size2 : /\ path2 = [k \in Headers |-> IF k = l THEN q ELSE path[k]]
                          /\ size2 = [k \in Headers |-> IF k = l THEN m ELSE size[k]]
  OBVIOUS
<1>2. /\ path2[l] = q /\ size2[l] = m
      /\ \A k \in Headers : k # l => path2[k] = path[k] /\ size2[k] = size[k]
  BY <1>1
<1>3. UNCHANGED key /\ \A d \in Callers : d # c => call'[d] = call[d]
  BY ListStepLeaves
<1>4. Works(l, path[l], size[l], call[c])
  BY DEF Kept
<1>5. \A x \in Nodes : x \notin Private(call[c]) /\ x \notin Inner(path[l], size[l]) \cup {l} =>
        next'[x] = next[x] /\ prev'[x] = prev[x]
  <2>1. PICK p, n : p = path[l] /\ n = size[l]
    OBVIOUS
  <2>2. Works(l, p, n, call[c])
    BY <1>4, <2>1
  <2>3. \A x \in Nodes : x \notin Private(call[c]) /\ x \notin Inner(p, n) \cup {l} =>
          next'[x] = next[x] /\ prev'[x] = prev[x]
    BY <2>2, StepWrites
  <2> QED BY <2>1, <2>3
<1>6. ASSUME NEW k \in Headers, k # l
      PROVE  \A x \in Inner(path[k], size[k]) \cup {k} : next'[x] = next[x] /\ prev'[x] = prev[x]
  <2>1. /\ Ring(k, path[k], size[k]) /\ Ring(l, path[l], size[l])
        /\ Inner(path[k], size[k]) \cap Inner(path[l], size[l]) = {}
        /\ Private(call[c]) \cap Inner(path[k], size[k]) = {}
    BY <1>6 DEF Kept
  <2>2. Inner(path[k], size[k]) \subseteq Elms /\ Inner(path[l], size[l]) \subseteq Elms
    BY <2>1 DEF Inner, Ring
  <2>3. k \notin Elms /\ l \notin Elms /\ Private(call[c]) \subseteq Elms
    BY NodesAssumption DEF Private
  <2> QED BY <1>5, <1>6, <2>1, <2>2, <2>3 DEF Nodes
<1>7. ASSUME NEW k \in Headers, k # l
      PROVE  /\ Ring(k, path[k], size[k])'
             /\ \A S : Linked(path[k], size[k], S) => Linked(path[k], size[k], S)'
  <2>1. Ring(k, path[k], size[k])
    BY DEF Kept
  <2>2. PICK p, n : p = path[k] /\ n = size[k]
    OBVIOUS
  <2>3. \A x \in Inner(p, n) \cup {k} : next'[x] = next[x] /\ prev'[x] = prev[x]
    BY <1>6, <1>7, <2>2
  <2> QED BY <1>3, <2>1, <2>2, <2>3, RingFrame
<1>8. ASSUME NEW d \in Callers, on[d] \in Headers, d # c
      PROVE  Works(on[d], path[on[d]], size[on[d]], call[d])'
  <2>1. on[d] # l
    BY <1>8 DEF OneAtATime
  <2>2. PICK k, p, n : k \in Headers /\ k = on[d] /\ p = path[k] /\ n = size[k]
    BY <1>8
  <2>3. Works(k, p, n, call[d])
    BY <1>8, <2>2 DEF Kept
  <2>4. ASSUME NEW x \in Private(call[d])  PROVE next'[x] = next[x] /\ prev'[x] = prev[x]
    <3>1. /\ x \in Elms /\ x \notin Private(call[c]) /\ x \notin Inner(path[l], size[l])
      BY <1>8, <2>4 DEF Kept, Private
    <3> QED BY <1>5, <3>1, NodesAssumption DEF Nodes
  <2>5. \A x \in Inner(p, n) \cup {k} : next'[x] = next[x] /\ prev'[x] = prev[x]
    BY <1>6, <2>1, <2>2
  <2>6. Works(k, p, n, call[d])'
    BY <1>3, <1>8, <2>2, <2>3, <2>4, <2>5, WorksFrame
  <2> QED BY <2>2, <2>6
<1>9. Private(call[c])' \cap Inner(q, m) = {}
  BY DEF Works
<1>10. \A d \in Callers : d # c => Private(call[d])' = Private(call[d])
  BY <1>3 DEF Private
<1>11. Kept(on, path2, size2)'
  <2>1. \A k \in Headers : Ring(k, path2[k], size2[k])'
    BY <1>2, <1>7 DEF Works
  <2>2. \A d \in Callers : on[d] \in Headers => Works(on[d], path2[on[d]], size2[on[d]], call[d])'
    <3>1. ASSUME NEW d \in Callers, on[d] \in Headers, d # c
          PROVE  Works(on[d], path2[on[d]], size2[on[d]], call[d])'
      <4>1. path2[on[d]] = path[on[d]] /\ size2[on[d]] = size[on[d]]
        BY <1>2, <3>1 DEF OneAtATime
      <4> QED BY <1>8, <3>1, <4>1
    <3> QED BY <1>2, <3>1
  <2>3. \A d \in Callers : on[d] \notin Headers => call'[d] = Idle
    BY <1>3 DEF Kept
  <2>4. ASSUME NEW k \in Headers, \A d \in Callers : on[d] # k
        PROVE  Linked(path2[k], size2[k], {})'
    <3>1. k # l /\ Linked(path[k], size[k], {})
      BY <2>4 DEF Kept
    <3> QED BY <1>2, <1>7, <3>1
  <2>5. \A j, k \in Headers : j # k => Inner(path2[j], size2[j]) \cap Inner(path2[k], size2[k]) = {}
    BY <1>2 DEF Kept
  <2>6. \A d \in Callers, k \in Headers : Private(call[d])' \cap Inner(path2[k], size2[k]) = {}
    BY <1>2, <1>9, <1>10 DEF Kept
  <2>7. \A d, e \in Callers : d # e => Private(call[d])' \cap Private(call[e])' = {}
    BY <1>10 DEF Kept
  <2> QED BY <2>1, <2>2, <2>3, <2>4, <2>5, <2>6, <2>7 DEF Kept, Inner, Private, Idle
<1> QED BY <1>2, <1>11

\* The elements of a ring have their links set, to nodes.
LEMMA InnerLinked ==
  ASSUME NEW l \in Headers, NEW p, NEW n, Ring(l, p, n), NEW S, Linked(p, n, S), NEW x \in Inner(p, n)
  PROVE  next[x] \in Nodes /\ x \in Elms
<1>1. PICK i \in 1 .. n - 1 : x = p[i]
  BY DEF Inner
<1>2. n \in Nat
  BY DEF Ring
<1>3. i \in 0 .. n - 1 /\ i + 1 \in 0 .. n
  BY <1>2
<1> QED BY <1>1, <1>3, RingNodes DEF Linked, Ring

\* Each list is the ring of some links.
LEMMA KeptLinked ==
  ASSUME NEW on, NEW path, NEW size, Kept(on, path, size), NEW l \in Headers
  PROVE  Ring(l, path[l], size[l]) /\ \E S : Linked(path[l], size[l], S)
<1>1. CASE \E c \in Callers : on[c] = l
  BY <1>1 DEF Kept, Works
<1>2. CASE \A c \in Callers : on[c] # l
  BY <1>2 DEF Kept
<1> QED BY <1>1, <1>2 DEF Kept

\* What a frame says of a list stays true as long as the links do.
LEMMA WorksSame ==
  ASSUME UNCHANGED <<key, next, prev>>, NEW l, NEW p, NEW n, NEW f, Works(l, p, n, f)
  PROVE  Works(l, p, n, f)'
<1>1. Ring(l, p, n)' /\ Linked(p, n, Behind(f))'
  BY DEF Works, Ring, Linked, Behind
<1>2. \E i \in Nat : Stands(l, p, n, f, i)'
  BY DEF Works, Stands, InsertAt, LookupAt, LengthAt, DeleteAt
<1> QED BY <1>1, <1>2 DEF Works, Private, Inner

\* A call begins on a list that nobody works on.
LEMMA BeginKept ==
  ASSUME IInv, NEW on, OneAtATime(on), NEW path, NEW size, Kept(on, path, size),
         NEW c \in Callers, on[c] \notin Headers, NEW l \in Headers, \A d \in Callers : on[d] # l,
         \/ \E e \in Elms : BeginInsert(c, l, e) \/ BeginLookup(c, l, e)
         \/ BeginLength(c, l),
         UNCHANGED heap, NEW on2, on2[c] = l, \A d \in Callers : d # c => on2[d] = on[d]
  PROVE  Kept(on2, path, size)' /\ OneAtATime(on2)
<1>1. /\ UNCHANGED <<key, next, prev>>
      /\ call \in [Callers -> Frames] /\ next \in [Nodes -> Nodes \cup {NULL}]
  BY DEF heap, IInv, HeapTypeOK, Frames
<1>2. PICK g : /\ call' = [call EXCEPT ![c] = g] /\ g.at = "first" /\ g.list = l /\ g.rc = 0
               /\ g.op \in {"insert", "lookup", "length"}
               /\ g.op # "length" => g.elm \in Elms
               /\ g.op = "insert" => next[g.elm] = NULL /\ \A d \in Callers : ~Inserting(d, g.elm)
  <2>1. PICK o, e :
          /\ o \in {"insert", "lookup", "length"}
          /\ Begin(c, o, l, e)
          /\ o # "length" => e \in Elms
          /\ o = "insert" => next[e] = NULL /\ \A d \in Callers : ~Inserting(d, e)
    BY DEF BeginInsert, BeginLookup, BeginLength
  <2>2. PICK g : g = [Idle EXCEPT !.op = o, !.at = "first", !.list = l, !.elm = e]
    OBVIOUS
  <2>3. g.op = o /\ g.at = "first" /\ g.list = l /\ g.elm = e /\ g.rc = 0
    BY <2>2 DEF Idle
  <2>4. call' = [call EXCEPT ![c] = g]
    BY <2>1, <2>2 DEF Begin
  <2> QED BY <2>1, <2>3, <2>4
<1>3. call'[c] = g /\ \A d \in Callers : d # c => call'[d] = call[d]
  BY <1>1, <1>2
<1>4. OneAtATime(on2)
  BY DEF OneAtATime
<1>5. Behind(g) = {} /\ (g.op # "insert" => Private(g) = {}) /\ (g.op = "insert" => Private(g) = {g.elm})
  BY <1>2 DEF Behind, Private
<1>6. ASSUME NEW k \in Headers  PROVE Private(g) \cap Inner(path[k], size[k]) = {}
  <2>1. PICK p, n, S : p = path[k] /\ n = size[k] /\ Ring(k, p, n) /\ Linked(p, n, S)
    BY KeptLinked
  <2>2. \A x \in Inner(p, n) : next[x] \in Nodes
    BY <2>1, InnerLinked
  <2> QED BY <1>2, <1>5, <2>1, <2>2, NullIsNoNode
<1>7. ASSUME NEW d \in Callers, d # c  PROVE Private(g) \cap Private(call[d]) = {}
  <2>1. CASE on[d] \notin Headers
    <3>1. call[d] = Idle
      BY <2>1 DEF Kept
    <3> QED BY <3>1, IdleIsPrivate
  <2>2. CASE on[d] \in Headers
    <3>1. PICK k, p, n, f : /\ k \in Headers /\ k = on[d] /\ p = path[k] /\ n = size[k] /\ f = call[d]
                                        /\ Works(k, p, n, f)
      BY <2>2 DEF Kept
    <3>2. PICK i \in Nat : Stands(k, p, n, f, i)
      BY <3>1 DEF Works
    <3>3. CASE f.op = "insert"
      BY <1>2, <1>5, <3>1, <3>3 DEF Private, Inserting
    <3>4. CASE f.op # "insert"
      <4>1. ASSUME NEW x \in Private(f)  PROVE next[x] \in Nodes
        <5>1. next[x] = p[i] /\ i \in 1 .. n
          BY <3>2, <3>4, <4>1 DEF Private, Stands, InsertAt, LookupAt, LengthAt, DeleteAt
        <5>2. p \in [Nat -> Nodes]
          BY <3>1 DEF Works, Ring
        <5> QED BY <5>1, <5>2
      <4> QED BY <1>2, <1>5, <3>1, <4>1, NullIsNoNode
    <3> QED BY <3>3, <3>4
  <2> QED BY <2>1, <2>2
<1>8. Works(l, path[l], size[l], g)
  <2>1. Ring(l, path[l], size[l]) /\ Linked(path[l], size[l], {})
    BY DEF Kept
  <2>2. Stands(l, path[l], size[l], g, 0)
    BY <1>2 DEF Stands, InsertAt, LookupAt, LengthAt
  <2> QED BY <1>5, <1>6, <2>1, <2>2 DEF Works
<1>9. Kept(on2, path, size)'
  <2>1. \A k \in Headers : Ring(k, path[k], size[k])'
    BY <1>1 DEF Kept, Ring
  <2>2. ASSUME NEW d \in Callers, on2[d] \in Headers
        PROVE  Works(on2[d], path[on2[d]], size[on2[d]], call[d])'
    <3>1. PICK k, p, n, f : k = on2[d] /\ p = path[k] /\ n = size[k] /\ f = call'[d]
      OBVIOUS
    <3>2. Works(k, p, n, f)
      <4>1. CASE d = c
        BY <1>3, <1>8, <3>1, <4>1
      <4>2. CASE d # c
        BY <1>3, <2>2, <3>1, <4>2 DEF Kept
      <4> QED BY <4>1, <4>2
    <3>3. Works(k, p, n, f)'
      BY <1>1, <3>2, WorksSame
    <3> QED BY <3>1, <3>3
  <2>3. \A d \in Callers : on2[d] \notin Headers => call'[d] = Idle
    BY <1>3 DEF Kept
  <2>4. \A k \in Headers : (\A d \in Callers : on2[d] # k) => Linked(path[k], size[k], {})'
    <3>1. \A k \in Headers : (\A d \in Callers : on2[d] # k) => Linked(path[k], size[k], {})
      BY DEF Kept
    <3> QED BY <1>1, <3>1 DEF Linked
  <2>5. \A j, k \in Headers : j # k => Inner(path[j], size[j]) \cap Inner(path[k], size[k]) = {}
    BY DEF Kept
  <2>6. \A d \in Callers, k \in Headers : Private(call'[d]) \cap Inner(path[k], size[k]) = {}
    BY <1>3, <1>6 DEF Kept
  <2>7. \A d, e \in Callers : d # e => Private(call'[d]) \cap Private(call'[e]) = {}
    BY <1>3, <1>7 DEF Kept
  <2>8. \A d \in Callers : Private(call[d])' = Private(call'[d])
    BY DEF Private
  <2> QED BY <2>1, <2>2, <2>3, <2>4, <2>5, <2>6, <2>7, <2>8 DEF Kept, Inner, Idle, NULL
<1> QED BY <1>4, <1>9

\* Changing only the frame of one call, of those on a list, to one that stands
\* somewhere on that list and has nothing of its own.
LEMMA FrameKept ==
  ASSUME IInv, NEW on, NEW path, NEW size, Kept(on, path, size), OneAtATime(on),
         NEW c \in Callers, on[c] \in Headers, UNCHANGED heap,
         NEW g, call' = [call EXCEPT ![c] = g], Behind(g) = {}, Private(g) = {}, Behind(call[c]) = {},
         NEW on2, \A d \in Callers : d # c => on2[d] = on[d],
         \/ on2[c] = on[c] /\ \E i \in Nat : Stands(on[c], path[on[c]], size[on[c]], g, i)
         \/ on2[c] \notin Headers /\ g = Idle
  PROVE  Kept(on2, path, size)' /\ OneAtATime(on2)
<1>1. UNCHANGED <<key, next, prev>> /\ call \in [Callers -> Frames]
  BY DEF heap, IInv, HeapTypeOK, Frames
<1>2. call'[c] = g /\ \A d \in Callers : d # c => call'[d] = call[d]
  BY <1>1
<1>3. OneAtATime(on2)
  BY DEF OneAtATime
<1>4. Ring(on[c], path[on[c]], size[on[c]]) /\ Linked(path[on[c]], size[on[c]], {})
  BY DEF Kept, Works
<1>5. \A k \in Headers : Ring(k, path[k], size[k])'
  BY <1>1 DEF Kept, Ring
<1>6. ASSUME NEW d \in Callers, on2[d] \in Headers
      PROVE  Works(on2[d], path[on2[d]], size[on2[d]], call[d])'
  <2>1. PICK k, p, n, f : k = on2[d] /\ p = path[k] /\ n = size[k] /\ f = call'[d]
    OBVIOUS
  <2>2. Works(k, p, n, f)
    <3>1. CASE d = c
      <4>1. k = on[c] /\ f = g /\ \E i \in Nat : Stands(k, p, n, g, i)
        BY <1>2, <1>6, <2>1, <3>1
      <4> QED BY <1>4, <2>1, <4>1 DEF Works
    <3>2. CASE d # c
      BY <1>2, <1>6, <2>1, <3>2 DEF Kept
    <3> QED BY <3>1, <3>2
  <2>3. Works(k, p, n, f)'
    BY <1>1, <2>2, WorksSame
  <2> QED BY <2>1, <2>3
<1>7. \A d \in Callers : on2[d] \notin Headers => call'[d] = Idle
  BY <1>2 DEF Kept
<1>8. \A k \in Headers : (\A d \in Callers : on2[d] # k) => Linked(path[k], size[k], {})'
  <2>1. \A k \in Headers : (\A d \in Callers : on2[d] # k) => Linked(path[k], size[k], {})
    BY <1>4 DEF Kept
  <2> QED BY <1>1, <2>1 DEF Linked
<1>9. \A j, k \in Headers : j # k => Inner(path[j], size[j]) \cap Inner(path[k], size[k]) = {}
  BY DEF Kept
<1>10. \A d \in Callers, k \in Headers : Private(call'[d]) \cap Inner(path[k], size[k]) = {}
  BY <1>2 DEF Kept
<1>11. \A d, e \in Callers : d # e => Private(call'[d]) \cap Private(call'[e]) = {}
  BY <1>2 DEF Kept
<1>12. \A d \in Callers : Private(call[d])' = Private(call'[d])
  BY DEF Private
<1> QED BY <1>3, <1>5, <1>6, <1>7, <1>8, <1>9, <1>10, <1>11, <1>12 DEF Kept, Inner, Idle, NULL

\* What a call has found out when it returns: a lookup an element with the key, if
\* there is one, a length the number of elements, and a deletion that it was done.
LEMMA ReturnIs ==
  ASSUME NEW on, NEW path, NEW size, Kept(on, path, size),
         NEW c \in Callers, on[c] \in Headers, call[c].at = "return"
  PROVE  /\ Behind(call[c]) = {}
         /\ call[c].op = "length" => call[c].rc = size[on[c]] - 1
         /\ call[c].op = "delete" => call[c].rc = 0
         /\ call[c].op = "lookup" /\ call[c].temp = NULL =>
              \A x \in Inner(path[on[c]], size[on[c]]) : key[x] # key[call[c].elm]
         /\ call[c].op = "lookup" /\ call[c].temp # NULL =>
              /\ call[c].temp \in Inner(path[on[c]], size[on[c]])
              /\ key[call[c].temp] = key[call[c].elm]
<1>1. PICK i \in Nat : Stands(on[c], path[on[c]], size[on[c]], call[c], i)
  BY DEF Kept, Works
<1> QED BY <1>1 DEF Stands, InsertAt, LookupAt, LengthAt, DeleteAt, Behind, Inner

\* A caller goes on to delete what its lookup has found.
LEMMA FoundKept ==
  ASSUME IInv, NEW on, NEW path, NEW size, Kept(on, path, size), OneAtATime(on),
         NEW c \in Callers, on[c] \in Headers, DeleteFound(c), UNCHANGED heap
  PROVE  Kept(on, path, size)'
<1>1. call[c].at = "return" /\ call[c].op = "lookup" /\ call[c].temp # NULL
  BY DEF DeleteFound, Returns
<1>2. PICK i \in 1 .. size[on[c]] - 1 : call[c].temp = path[on[c]][i]
  BY <1>1, ReturnIs DEF Inner
<1>3. PICK g : g = [Idle EXCEPT !.op = "delete", !.at = "getNext", !.temp = call[c].temp]
  OBVIOUS
<1>4. g.op = "delete" /\ g.at = "getNext" /\ g.temp = call[c].temp /\ g.rc = 0
  BY <1>3 DEF Idle
<1>5. call' = [call EXCEPT ![c] = g]
  BY <1>3 DEF DeleteFound, BeginDelete
<1>6. Behind(g) = {} /\ Private(g) = {} /\ Behind(call[c]) = {}
  BY <1>1, <1>4 DEF Behind, Private
<1>7. size[on[c]] \in Nat
  BY DEF Kept, Ring
<1>8. i \in Nat /\ Stands(on[c], path[on[c]], size[on[c]], g, i)
  BY <1>2, <1>4, <1>7 DEF Stands, DeleteAt
<1> QED BY <1>5, <1>6, <1>8, FrameKept

\* A call ends.
LEMMA FinishKept ==
  ASSUME IInv, NEW on, NEW path, NEW size, Kept(on, path, size), OneAtATime(on),
         NEW c \in Callers, on[c] \in Headers, Returns(c), Finish(c), UNCHANGED heap,
         NEW on2, on2[c] \notin Headers, \A d \in Callers : d # c => on2[d] = on[d]
  PROVE  Kept(on2, path, size)' /\ OneAtATime(on2)
<1>1. Behind(call[c]) = {}
  BY ReturnIs DEF Returns
<1>2. call' = [call EXCEPT ![c] = Idle]
  BY DEF Finish
<1>3. PICK g : g = Idle
  OBVIOUS
<1> QED BY <1>1, <1>2, <1>3, IdleIsPrivate, FrameKept

\* The empty lists.
LEMMA InitKept ==
  ASSUME HeapInit, NEW on, \A c \in Callers : on[c] \notin Headers
  PROVE  Protected(on) /\ OneAtATime(on)
<1>1. PICK path, size : /\ path = [l \in Headers |-> [i \in Nat |-> l]]
                        /\ size = [l \in Headers |-> 1]
  OBVIOUS
<1>2. ASSUME NEW l \in Headers
      PROVE  /\ Ring(l, path[l], size[l]) /\ Linked(path[l], size[l], {})
             /\ Inner(path[l], size[l]) = {}
  <2>1. path[l] = [i \in Nat |-> l] /\ size[l] = 1 /\ l \in Nodes
    BY <1>1 DEF Nodes
  <2>2. next[l] = l /\ prev[l] = l
    BY <2>1 DEF HeapInit
  <2> QED BY <2>1, <2>2 DEF Ring, Linked, Inner
<1>3. \A c \in Callers : call[c] = Idle /\ Private(call[c]) = {}
  BY IdleIsPrivate DEF HeapInit
<1>4. Kept(on, path, size)
  BY <1>2, <1>3 DEF Kept
<1> QED BY <1>4 DEF Protected, OneAtATime

\* What a step of a call does to the lists: the store of link puts the element on
\* the list, the store of unlink takes one off, all other steps change nothing.
LEMMA StepEffect ==
  ASSUME IInv, NEW on, OneAtATime(on), NEW c \in Callers, ListStep(c), on[c] \in Headers,
         NEW path, NEW size, Kept(on, path, size)
  PROVE  \E path2, size2 :
           /\ Kept(on, path2, size2)'
           /\ \A k \in Headers : k # on[c] => Inner(path2[k], size2[k]) = Inner(path[k], size[k])
           /\ call[c].at = "link" =>
                /\ call[c].op = "insert" /\ call[c].elm \in Elms
                /\ \A k \in Headers : call[c].elm \notin Inner(path[k], size[k])
                /\ Inner(path2[on[c]], size2[on[c]]) = Inner(path[on[c]], size[on[c]]) \cup {call[c].elm}
           /\ call[c].at = "unlinkNow" =>
                /\ call[c].op = "delete" /\ call[c].temp \in Inner(path[on[c]], size[on[c]])
                /\ Inner(path2[on[c]], size2[on[c]]) = Inner(path[on[c]], size[on[c]]) \ {call[c].temp}
           /\ call[c].at \notin {"link", "unlinkNow"} =>
                Inner(path2[on[c]], size2[on[c]]) = Inner(path[on[c]], size[on[c]])
<1>1. PICK l, p, n : l \in Headers /\ l = on[c] /\ p = path[l] /\ n = size[l]
  OBVIOUS
<1>2. Works(l, p, n, call[c])
  BY <1>1 DEF Kept
<1>3. PICK q, m :
        /\ Works(l, q, m, call[c])'
        /\ Private(call[c])' \cup Inner(q, m) \subseteq Private(call[c]) \cup Inner(p, n)
        /\ Link(c) => /\ call[c].elm \in Private(call[c])
                      /\ Inner(q, m) = Inner(p, n) \cup {call[c].elm}
        /\ Unlink(c) => /\ call[c].temp \in Inner(p, n)
                        /\ Inner(q, m) = Inner(p, n) \ {call[c].temp}
        /\ ~Link(c) /\ ~Unlink(c) => Inner(q, m) = Inner(p, n)
  BY ONLY IInv, c \in Callers, ListStep(c), <1>1, <1>2, MoveWorks
<1>4. PICK path2, size2 :
        /\ Kept(on, path2, size2)' /\ path2[l] = q /\ size2[l] = m
        /\ \A k \in Headers : k # l => path2[k] = path[k] /\ size2[k] = size[k]
  BY <1>1, <1>3, ListStepKept
<1>5. /\ call[c].at = "link" <=> Link(c)
      /\ call[c].at = "unlinkNow" <=> Unlink(c)
  BY DEF ListStep, First, Advance, SetNext, SetPrev, Link, LinkBack, LoadPred, LoadSucc,
         TestPrev, TestNext, Test, Unlink, UnlinkBack, LookupEnds, LengthScan, AfterPred, AfterSucc
<1>6. /\ call[c].at = "link" => call[c].op = "insert" /\ call[c].elm \in Elms
      /\ call[c].at = "unlinkNow" => call[c].op = "delete"
  <2>1. PICK i \in Nat : Stands(l, p, n, call[c], i)
    BY <1>2 DEF Works
  <2> QED BY <2>1 DEF Stands, InsertAt, LookupAt, LengthAt, DeleteAt
<1>7. \A k \in Headers : Private(call[c]) \cap Inner(path[k], size[k]) = {}
  BY DEF Kept
<1> QED BY <1>1, <1>3, <1>4, <1>5, <1>6, <1>7

\* The nodes p[0], .., p[n - 1] are different: as many as there are numbers.
LEMMA RingSize ==
  ASSUME NEW l \in Headers, NEW p, NEW n, Ring(l, p, n)
  PROVE  /\ IsFiniteSet(Inner(p, n)) /\ Cardinality(Inner(p, n)) = n - 1
         /\ Cardinality(Nodes) \in Nat /\ n <= Cardinality(Nodes)
<1>1. n \in Nat /\ n > 0 /\ l \in Nodes
  BY DEF Ring, Nodes
<1>2. Inner(p, n) \subseteq Elms
  BY DEF Ring, Inner
<1>3. IsFiniteSet(Elms) /\ IsFiniteSet(Nodes) /\ l \notin Elms
  BY NodesAssumption, FS_Union DEF Nodes
<1>4. IsFiniteSet(Inner(p, n))
  BY <1>2, <1>3, FS_Subset
<1>5. Cardinality(Inner(p, n)) = n - 1
  <2>1. PICK b : b = [i \in 1 .. n - 1 |-> p[i]]
    OBVIOUS
  <2>2. b \in Bijection(1 .. n - 1, Inner(p, n))
    <3>1. b \in [1 .. n - 1 -> Inner(p, n)]
      BY <2>1 DEF Inner
    <3>2. \A x \in Inner(p, n) : \E i \in 1 .. n - 1 : b[i] = x
      BY <2>1 DEF Inner
    <3>3. \A i, j \in 1 .. n - 1 : b[i] = b[j] => i = j
      <4> SUFFICES ASSUME NEW i \in 1 .. n - 1, NEW j \in 1 .. n - 1, b[i] = b[j], i # j
                   PROVE  FALSE
        OBVIOUS
      <4>1. i < j \/ j < i
        BY <1>1
      <4> QED BY <2>1, <4>1 DEF Ring
    <3> QED BY <3>1, <3>2, <3>3 DEF Bijection, Injection, Surjection, IsInjective
  <2>3. IsFiniteSet(1 .. n - 1) /\ Cardinality(1 .. n - 1) = n - 1
    <3>1. 1 \in Int /\ n - 1 \in Int /\ (n - 1) - 1 + 1 = n - 1
      BY <1>1
    <3> QED BY <1>1, <3>1, FS_Interval
  <2>4. ExistsBijection(1 .. n - 1, Inner(p, n))
    BY <2>2 DEF ExistsBijection
  <2> QED BY <2>3, <2>4, FS_Bijection
<1>6. Cardinality(Inner(p, n) \cup {l}) = n /\ Inner(p, n) \cup {l} \subseteq Nodes
  <2>1. l \notin Inner(p, n)
    BY <1>2, <1>3
  <2>2. Cardinality(Inner(p, n) \cup {l}) = Cardinality(Inner(p, n)) + 1
    BY <1>4, <2>1, FS_AddElement
  <2>3. (n - 1) + 1 = n
    BY <1>1
  <2>4. Inner(p, n) \cup {l} \subseteq Nodes
    BY <1>1, <1>2 DEF Nodes
  <2> QED BY <1>5, <2>2, <2>3, <2>4
<1> QED BY <1>3, <1>4, <1>5, <1>6, FS_Subset, FS_CardinalityType

\* What following next reaches is the ring.
LEMMA ContentIs ==
  ASSUME NEW l \in Headers, NEW p, NEW n, Ring(l, p, n), NEW S, Linked(p, n, S)
  PROVE  Content(l) = Inner(p, n)
<1>1. n \in Nat /\ n > 0 /\ p \in [Nat -> Nodes] /\ p[0] = l /\ p[n] = l
  BY DEF Ring
<1> DEFINE R == { p[i] : i \in 0 .. n }
           Upto(k) == { x \in R : \E i \in 0 .. n : i <= k /\ x = p[i] }
<1>2. l \in R /\ \A x \in R : next[x] \in R
  <2>1. ASSUME NEW i \in 0 .. n  PROVE next[p[i]] \in R
    <3>1. CASE i < n
      <4>1. next[p[i]] = p[i + 1] /\ i + 1 \in 0 .. n
        BY <1>1, <3>1 DEF Linked
      <4> QED BY <4>1
    <3>2. CASE i = n
      <4>1. next[p[n]] = p[1] /\ 1 \in 0 .. n
        BY <1>1 DEF Linked
      <4> QED BY <3>2, <4>1
    <3> QED BY <1>1, <3>1, <3>2
  <2> QED BY <1>1, <2>1
<1>3. /\ Reaches(l)[0] = {l}
      /\ \A k \in Nat : Reaches(l)[k + 1] = Reaches(l)[k] \cup { next[m] : m \in Reaches(l)[k] }
  <2> HIDE DEF R
  <2> QED BY <1>2, ReachesIs
<1>4. Upto(0) = {l}
  BY <1>1
<1>5. ASSUME NEW k \in Nat  PROVE Upto(k + 1) = Upto(k) \cup { next[m] : m \in Upto(k) }
  <2>1. ASSUME NEW x \in Upto(k + 1)  PROVE x \in Upto(k) \cup { next[m] : m \in Upto(k) }
    <3>1. PICK i \in 0 .. n : i <= k + 1 /\ x = p[i]
      OBVIOUS
    <3>2. CASE i <= k
      BY <3>1, <3>2
    <3>3. CASE i = k + 1
      <4>1. i - 1 \in 0 .. n /\ i - 1 <= k /\ next[p[i - 1]] = p[(i - 1) + 1] /\ (i - 1) + 1 = i
        BY <1>1, <3>3 DEF Linked
      <4>2. p[i - 1] \in Upto(k)
        BY <4>1
      <4> QED BY <3>1, <4>1, <4>2
    <3> QED BY <3>1, <3>2, <3>3
  <2>2. ASSUME NEW x \in Upto(k)  PROVE x \in Upto(k + 1)
    OBVIOUS
  <2>3. ASSUME NEW x \in Upto(k)  PROVE next[x] \in Upto(k + 1)
    <3>1. PICK i \in 0 .. n : i <= k /\ x = p[i]
      OBVIOUS
    <3>2. CASE i < n
      <4>1. next[x] = p[i + 1] /\ i + 1 \in 0 .. n /\ i + 1 <= k + 1
        BY <1>1, <3>1, <3>2 DEF Linked
      <4> QED BY <4>1
    <3>3. CASE i = n
      <4>1. next[x] = p[1] /\ 1 \in 0 .. n /\ 1 <= k + 1
        BY <1>1, <3>1, <3>3 DEF Linked
      <4> QED BY <4>1
    <3> QED BY <1>1, <3>1, <3>2, <3>3
  <2> QED BY <2>1, <2>2, <2>3
<1>6. PICK T : T = { k \in Nat : Reaches(l)[k] = Upto(k) }
  OBVIOUS
<1> HIDE DEF Upto
<1>7. T = Nat
  <2>1. 0 \in T
    BY <1>3, <1>4, <1>6
  <2>2. ASSUME NEW k \in T  PROVE k + 1 \in T
    <3>1. k \in Nat /\ k + 1 \in Nat /\ Reaches(l)[k] = Upto(k)
      BY <1>6
    <3>2. Upto(k + 1) = Upto(k) \cup { next[m] : m \in Upto(k) }
      BY <1>5, <3>1
    <3>3. Reaches(l)[k + 1] = Upto(k) \cup { next[m] : m \in Upto(k) }
      BY <1>3, <3>1
    <3> QED BY <1>6, <3>1, <3>2, <3>3
  <2>3. T \in SUBSET Nat
    BY <1>6
  <2> QED BY <2>1, <2>2, <2>3, SetInduction
<1>8. Cardinality(Nodes) \in Nat /\ n <= Cardinality(Nodes)
  BY RingSize
<1>9. Reaches(l)[Cardinality(Nodes)] = R
  <2>1. Reaches(l)[Cardinality(Nodes)] = Upto(Cardinality(Nodes))
    BY <1>6, <1>7, <1>8
  <2>2. \A i \in 0 .. n : i <= Cardinality(Nodes)
    BY <1>1, <1>8
  <2> QED BY <2>1, <2>2 DEF Upto
<1>10. R \ {l} = Inner(p, n)
  <2>1. ASSUME NEW i \in 0 .. n, p[i] # l  PROVE p[i] \in Inner(p, n)
    BY <2>1, RingNodes
  <2>2. ASSUME NEW i \in 1 .. n - 1  PROVE i \in 0 .. n /\ p[i] # l
    BY <1>1, RingNodes
  <2> QED BY <2>1, <2>2 DEF Inner
<1> QED BY <1>9, <1>10 DEF Content

\* A ring all of whose links are right is a sound list.
LEMMA RingIsSound ==
  ASSUME IInv, NEW l \in Headers, NEW p, NEW n, Ring(l, p, n), Linked(p, n, {})
  PROVE  Sound(l)
<1>1. n \in Nat /\ n > 0 /\ p \in [Nat -> Nodes] /\ p[0] = l /\ p[n] = l
  BY DEF Ring
<1>2. Content(l) = Inner(p, n)
  BY ContentIs
<1>3. ASSUME NEW x \in Inner(p, n) \cup {l}
      PROVE  \E i \in 0 .. n - 1, j \in 1 .. n : x = p[i] /\ x = p[j]
  <2>1. CASE x = l
    <3>1. 0 \in 0 .. n - 1 /\ n \in 1 .. n
      BY <1>1
    <3> QED BY <1>1, <2>1, <3>1
  <2>2. CASE x # l
    <3>1. PICK i \in 1 .. n - 1 : x = p[i]
      BY <1>3, <2>2 DEF Inner
    <3>2. i \in 0 .. n - 1 /\ i \in 1 .. n
      BY <1>1
    <3> QED BY <3>1, <3>2
  <2> QED BY <2>1, <2>2
<1>4. ASSUME NEW x \in Inner(p, n) \cup {l}  PROVE prev[next[x]] = x /\ next[prev[x]] = x
  <2>1. PICK i \in 0 .. n - 1, j \in 1 .. n : x = p[i] /\ x = p[j]
    BY <1>3
  <2>2. next[p[i]] = p[i + 1] /\ prev[p[i + 1]] = p[i]
    BY DEF Linked
  <2>3. j - 1 \in 0 .. n - 1 /\ (j - 1) + 1 = j
    BY <1>1
  <2>4. next[p[j - 1]] = p[j] /\ prev[p[j]] = p[j - 1]
    BY <2>3 DEF Linked
  <2> QED BY <2>1, <2>2, <2>4
<1>5. ASSUME NEW x \in Inner(p, n), next[x] \in Inner(p, n)  PROVE key[x] <= key[next[x]]
  <2>1. PICK i \in 1 .. n - 1 : x = p[i]
    BY DEF Inner
  <2>2. next[x] = p[i + 1] /\ i + 1 \in 0 .. n
    BY <1>1, <2>1 DEF Linked
  <2>3. next[x] # l
    <3>1. next[x] \in Elms
      BY <1>5 DEF Inner, Ring
    <3> QED BY <3>1, NodesAssumption
  <2>4. i + 1 \in 1 .. n - 1 /\ i < i + 1
    BY <1>1, <2>2, <2>3
  <2> QED BY <2>1, <2>2, <2>4 DEF Ring
<1> QED BY <1>2, <1>4, <1>5 DEF Sound

\* The call has put its element on the list; has taken its element off.
Inserts(f) == f.op = "insert" /\ f.at \in {"linkBack", "return"}
Deletes(f) ==
  f.op = "delete" /\ f.at \in {"unlinkBackSucc", "unlinkBackPred", "unlinkBack", "return"}

\* A call does its insertion with the store of link and its deletion with that of
\* unlink: at no other step does it get from before it to after it.
LEMMA StepLabels ==
  ASSUME IInv, NEW c \in Callers, ListStep(c),
         NEW l \in Headers, NEW p, NEW n, Works(l, p, n, call[c]),
         NEW q, NEW m, Works(l, q, m, call[c])'
  PROVE  /\ \A d \in Callers : d # c => call'[d] = call[d]
         /\ call'[c].op = call[c].op /\ call'[c].elm = call[c].elm
         /\ call[c].op = "delete" => call'[c].temp = call[c].temp
         /\ Inserts(call'[c]) <=> Inserts(call[c]) \/ call[c].at = "link"
         /\ Deletes(call'[c]) <=> Deletes(call[c]) \/ call[c].at = "unlinkNow"
<1>1. /\ \A d \in Callers : d # c => call'[d] = call[d]
      /\ call'[c].op = call[c].op /\ call'[c].elm = call[c].elm
  BY ListStepLeaves
<1>2. PICK i \in Nat : Stands(l, p, n, call[c], i)
  BY DEF Works
<1>3. PICK j \in Nat : Stands(l, q, m, call[c], j)'
  BY DEF Works
<1>4. call \in [Callers -> Frames]
  BY DEF IInv, HeapTypeOK, Frames
<1>5. CASE call[c].op = "insert"
  <2>1. InsertAt(l, p, n, call[c], i) /\ InsertAt(l, q, m, call[c], j)'
    BY <1>1, <1>2, <1>3, <1>5 DEF Stands, InsertAt, LookupAt, LengthAt, DeleteAt
  <2>2. /\ call[c].at \in {"first", "scan", "setPrev", "getPred", "link", "linkBack", "return"}
        /\ call'[c].at \in {"first", "scan", "setPrev", "getPred", "link", "linkBack", "return"}
    BY <2>1 DEF InsertAt
  <2>3. /\ call[c].at = "link" => call'[c].at = "linkBack"
        /\ call[c].at = "linkBack" => call'[c].at = "return"
        /\ call[c].at \in {"first", "scan", "setPrev", "getPred"} =>
             call'[c].at \notin {"linkBack", "return"}
        /\ call[c].at # "return"
    <3>1. CASE First(c) \/ Advance(c) \/ SetNext(c) \/ SetPrev(c) \/ Link(c) \/ LinkBack(c)
      BY <1>4, <1>5, <2>2, <3>1 DEF First, Advance, SetNext, SetPrev, Link, LinkBack, Frames
    <3>2. CASE LoadPred(c) \/ LoadSucc(c)
      BY <1>4, <1>5, <2>2, <3>2 DEF LoadPred, LoadSucc, AfterPred, AfterSucc, Frames
    <3>3. CASE TestPrev(c) \/ TestNext(c)
      BY <1>4, <1>5, <2>2, <3>3 DEF TestPrev, TestNext, Test, Frames
    <3>4. CASE Unlink(c) \/ UnlinkBack(c) \/ LookupEnds(c) \/ LengthScan(c)
      BY <1>4, <1>5, <2>2, <3>4 DEF Unlink, UnlinkBack, LookupEnds, LengthScan, Frames
    <3> QED BY <3>1, <3>2, <3>3, <3>4 DEF ListStep
  <2> QED BY <1>1, <1>5, <2>2, <2>3 DEF Inserts, Deletes, InsertAt
<1>6. CASE call[c].op = "delete"
  <2>1. DeleteAt(l, p, n, call[c], i) /\ DeleteAt(l, q, m, call[c], j)'
    BY <1>1, <1>2, <1>3, <1>6 DEF Stands, InsertAt, LookupAt, LengthAt, DeleteAt
  <2>2. /\ call[c].at \in {"getNext", "testNext", "getPrev", "testPrev", "unlink", "unlinkSucc",
                           "unlinkNow", "unlinkBackSucc", "unlinkBackPred", "unlinkBack", "return"}
        /\ call[c].rc = 0 /\ call'[c].rc = 0
    BY <2>1 DEF DeleteAt
  <2>3. /\ call[c].at = "unlinkNow" => call'[c].at = "unlinkBackSucc"
        /\ call[c].at = "unlinkBackSucc" => call'[c].at = "unlinkBackPred"
        /\ call[c].at = "unlinkBackPred" => call'[c].at = "unlinkBack"
        /\ call[c].at = "unlinkBack" => call'[c].at = "return"
        /\ call[c].at \in {"getNext", "testNext", "getPrev", "testPrev", "unlink", "unlinkSucc"} =>
             call'[c].at \notin {"unlinkBackSucc", "unlinkBackPred", "unlinkBack", "return"}
        /\ call[c].at # "return" /\ call'[c].temp = call[c].temp
    <3>1. CASE First(c) \/ Advance(c) \/ SetNext(c) \/ SetPrev(c) \/ Link(c) \/ LinkBack(c)
      BY <1>4, <1>6, <2>2, <3>1 DEF First, Advance, SetNext, SetPrev, Link, LinkBack, Frames
    <3>2. CASE LoadPred(c) \/ LoadSucc(c)
      BY <1>4, <1>6, <2>2, <3>2 DEF LoadPred, LoadSucc, AfterPred, AfterSucc, Frames
    <3>3. CASE TestPrev(c) \/ TestNext(c)
      BY <1>4, <1>6, <2>2, <3>3 DEF TestPrev, TestNext, Test, Frames
    <3>4. CASE Unlink(c) \/ UnlinkBack(c) \/ LookupEnds(c) \/ LengthScan(c)
      BY <1>4, <1>6, <2>2, <3>4 DEF Unlink, UnlinkBack, LookupEnds, LengthScan, Frames
    <3> QED BY <3>1, <3>2, <3>3, <3>4 DEF ListStep
  <2> QED BY <1>1, <1>6, <2>2, <2>3 DEF Inserts, Deletes
<1>7. CASE call[c].op \in {"lookup", "length"}
  <2>1. call[c].at \notin {"link", "unlinkNow"}
    BY <1>2, <1>7 DEF Stands, InsertAt, LookupAt, LengthAt, DeleteAt
  <2> QED BY <1>1, <1>7, <2>1 DEF Inserts, Deletes
<1> QED BY <1>2, <1>5, <1>6, <1>7 DEF Stands, InsertAt, LookupAt, LengthAt, DeleteAt

\* A step that leaves the lists and calls as they are.
LEMMA KeptSame ==
  ASSUME NEW on, NEW path, NEW size, Kept(on, path, size), UNCHANGED vars
  PROVE  Kept(on, path, size)'
<1>1. UNCHANGED key /\ UNCHANGED next /\ UNCHANGED prev /\ UNCHANGED call
  BY DEF vars
<1>2. ASSUME NEW l \in Headers
      PROVE  /\ Ring(l, path[l], size[l])'
             /\ \A S : Linked(path[l], size[l], S) => Linked(path[l], size[l], S)'
  <2>1. PICK p, n : p = path[l] /\ n = size[l]
    OBVIOUS
  <2>2. Ring(l, p, n)
    BY <2>1 DEF Kept
  <2>3. Ring(l, p, n)' /\ \A S : Linked(p, n, S) => Linked(p, n, S)'
    BY <1>1, <2>2, RingFrame
  <2> QED BY <2>1, <2>3
<1>3. ASSUME NEW c \in Callers, on[c] \in Headers
      PROVE  Works(on[c], path[on[c]], size[on[c]], call[c])'
  <2>1. PICK l, p, n : l \in Headers /\ l = on[c] /\ p = path[l] /\ n = size[l]
    BY <1>3
  <2>2. Works(l, p, n, call[c])
    BY <1>3, <2>1 DEF Kept
  <2>3. Works(l, p, n, call[c])'
    BY <1>1, <2>1, <2>2, WorksFrame
  <2> QED BY <2>1, <2>3
<1>4. \A c \in Callers : Private(call[c])' = Private(call[c])
  BY <1>1 DEF Private
<1>5. \A l \in Headers : Inner(path[l], size[l])' = Inner(path[l], size[l])
  BY DEF Inner
<1> QED BY <1>1, <1>2, <1>3, <1>4, <1>5 DEF Kept

-----------------------------------------------------------------------------
(* Elements counted by their keys: what programs that delete an element of *)
(* the same key for each one they have inserted can rely on.               *)

WithKey(S, k) == { e \in S : key[e] = k }

\* C holds as many elements of each key as P.
Balanced(C, P) ==
  \A k \in Keys : Cardinality(WithKey(C, k)) = Cardinality(WithKey(P, k))

\* Sets of elements are finite, so their parts with one key can be counted.
LEMMA WithKeyFinite ==
  ASSUME NEW S \in SUBSET Elms, NEW k
  PROVE  IsFiniteSet(WithKey(S, k)) /\ Cardinality(WithKey(S, k)) \in Nat
<1>1. WithKey(S, k) \in SUBSET Elms
  BY DEF WithKey
<1> QED BY <1>1, NodesAssumption, FS_Subset, FS_CardinalityType

\* A new element counts once, under its own key.
LEMMA WithKeyAdd ==
  ASSUME NEW S \in SUBSET Elms, NEW e \in Elms \ S, NEW k
  PROVE  Cardinality(WithKey(S \cup {e}, k)) =
           Cardinality(WithKey(S, k)) + (IF key[e] = k THEN 1 ELSE 0)
<1>0. Cardinality(WithKey(S, k)) \in Nat
  BY WithKeyFinite
<1>1. CASE key[e] = k
  <2>1. WithKey(S \cup {e}, k) = WithKey(S, k) \cup {e} /\ e \notin WithKey(S, k)
    BY <1>1 DEF WithKey
  <2>2. Cardinality(WithKey(S, k) \cup {e}) = Cardinality(WithKey(S, k)) + 1
    BY <2>1, WithKeyFinite, FS_AddElement
  <2> QED BY <1>1, <2>1, <2>2
<1>2. CASE key[e] # k
  <2>1. WithKey(S \cup {e}, k) = WithKey(S, k)
    BY <1>2 DEF WithKey
  <2> QED BY <1>0, <1>2, <2>1
<1> QED BY <1>1, <1>2

\* A removed element is missed once, under its own key.
LEMMA WithKeyRemove ==
  ASSUME NEW S \in SUBSET Elms, NEW e \in S, NEW k
  PROVE  Cardinality(WithKey(S \ {e}, k)) =
           Cardinality(WithKey(S, k)) - (IF key[e] = k THEN 1 ELSE 0)
<1>0. Cardinality(WithKey(S, k)) \in Nat
  BY WithKeyFinite
<1>1. CASE key[e] = k
  <2>1. WithKey(S \ {e}, k) = WithKey(S, k) \ {e} /\ e \in WithKey(S, k)
    BY <1>1 DEF WithKey
  <2>2. Cardinality(WithKey(S, k) \ {e}) = Cardinality(WithKey(S, k)) - 1
    BY <2>1, WithKeyFinite, FS_RemoveElement
  <2> QED BY <1>1, <2>1, <2>2
<1>2. CASE key[e] # k
  <2>1. WithKey(S \ {e}, k) = WithKey(S, k)
    BY <1>2 DEF WithKey
  <2> QED BY <1>0, <1>2, <2>1
<1> QED BY <1>1, <1>2

\* An insertion keeps two sets balanced that both gain the element.
LEMMA AddBalanced ==
  ASSUME NEW C \in SUBSET Elms, NEW P \in SUBSET Elms, Balanced(C, P),
         NEW e \in Elms, e \notin C, e \notin P
  PROVE  Balanced(C \cup {e}, P \cup {e})
<1> SUFFICES ASSUME NEW k \in Keys
             PROVE  Cardinality(WithKey(C \cup {e}, k)) = Cardinality(WithKey(P \cup {e}, k))
  BY DEF Balanced
<1>1. Cardinality(WithKey(C, k)) = Cardinality(WithKey(P, k))
  BY DEF Balanced
<1> QED BY <1>1, WithKeyAdd

\* A deletion keeps them balanced: what is deleted has the key of the element
\* its owner is done with, but need not be that element.
LEMMA RemoveBalanced ==
  ASSUME NEW C \in SUBSET Elms, NEW P \in SUBSET Elms, Balanced(C, P),
         NEW x \in C, NEW e \in P, key[x] = key[e]
  PROVE  Balanced(C \ {x}, P \ {e})
<1> SUFFICES ASSUME NEW k \in Keys
             PROVE  Cardinality(WithKey(C \ {x}, k)) = Cardinality(WithKey(P \ {e}, k))
  BY DEF Balanced
<1>1. Cardinality(WithKey(C, k)) = Cardinality(WithKey(P, k))
  BY DEF Balanced
<1> QED BY <1>1, WithKeyRemove

\* While P holds an element of a key, so does C.
LEMMA BalancedFinds ==
  ASSUME NEW C \in SUBSET Elms, NEW P \in SUBSET Elms, Balanced(C, P),
         NEW e \in P, key[e] \in Keys
  PROVE  WithKey(C, key[e]) # {}
<1> SUFFICES ASSUME WithKey(C, key[e]) = {}  PROVE FALSE
  OBVIOUS
<1>1. Cardinality(WithKey(P, key[e])) = 0
  BY FS_EmptySet DEF Balanced
<1>2. WithKey(P, key[e]) = {}
  BY <1>1, WithKeyFinite, FS_EmptySet
<1> QED BY <1>2 DEF WithKey

\* Every element of C has the key of an element of P.
LEMMA BalancedBack ==
  ASSUME NEW C \in SUBSET Elms, NEW P \in SUBSET Elms, Balanced(C, P),
         NEW x \in C, key[x] \in Keys
  PROVE  WithKey(P, key[x]) # {}
<1>1. Balanced(P, C)
  BY DEF Balanced
<1> QED BY <1>1, BalancedFinds

-----------------------------------------------------------------------------
(* The elements of one thread are those with one remainder.                *)

\* Adding n does not change what is left after dividing by n.
LEMMA SameRemainder ==
  ASSUME NEW a \in Nat, NEW n \in Nat, n > 0
  PROVE  (a + n) % n = a % n
<1>1. ASSUME NEW b \in Nat
      PROVE  b = n * (b \div n) + (b % n) /\ b % n \in 0 .. n - 1 /\ b \div n \in Int
  OBVIOUS
<1>2. ASSUME NEW d \in Int, n * d < n, -n < n * d  PROVE d = 0
  <2>1. CASE d >= 1
    BY <1>2, <2>1
  <2>2. CASE d <= -1
    BY <1>2, <2>2
  <2> QED BY <2>1, <2>2
<1>3. PICK q \in Int, r \in 0 .. n - 1 : a = n * q + r /\ r = a % n
  BY <1>1
<1>4. PICK p \in Int, s \in 0 .. n - 1 : a + n = n * p + s /\ s = (a + n) % n
  BY <1>1
<1>5. n * (p - q - 1) = r - s
  BY <1>3, <1>4
<1>6. p - q - 1 = 0
  <2>1. p - q - 1 \in Int /\ r - s < n /\ -n < r - s
    OBVIOUS
  <2> QED BY <1>2, <1>5, <2>1
<1>7. n * 0 = 0
  OBVIOUS
<1> QED BY <1>3, <1>4, <1>5, <1>6, <1>7

\* Different numbers with the same remainder are at least n apart.
LEMMA NextOfClass ==
  ASSUME NEW a \in Nat, NEW b \in Nat, NEW n \in Nat, n > 0, a % n = b % n
  PROVE  a < b <=> a + n <= b
<1>1. ASSUME NEW d \in Nat
      PROVE  d = n * (d \div n) + (d % n) /\ d % n \in 0 .. n - 1 /\ d \div n \in Int
  OBVIOUS
<1>2. ASSUME NEW d \in Int, n * d > 0  PROVE n * d >= n
  <2>1. CASE d >= 1
    BY <1>2, <2>1
  <2>2. CASE d <= 0
    BY <1>2, <2>2
  <2> QED BY <2>1, <2>2
<1>3. PICK q \in Int, r \in 0 .. n - 1 : a = n * q + r /\ r = a % n
  BY <1>1
<1>4. PICK p \in Int : b = n * p + r
  BY <1>1, <1>3
<1>5. n * (p - q) = b - a /\ p - q \in Int
  BY <1>3, <1>4
<1> QED BY <1>2, <1>5
=============================================================================
