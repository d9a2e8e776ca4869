----------------------------- MODULE SortedList -----------------------------
(***************************************************************************)
(* lab2a/SortedList.c and lab2b/SortedList.c (the same file): the sorted   *)
(* doubly linked lists in shared memory and the calls of the four          *)
(* operations that are in progress on them.                                *)
(*                                                                         *)
(* A step of a call is one access to a next or prev field, in program      *)
(* order, or a test of the caller's own variables.  A field of an element  *)
(* that is not linked yet is the caller's own.  sched_yield changes no     *)
(* state.  The keys are constant while the threads run.                    *)
(***************************************************************************)
EXTENDS Integers, FiniteSets

CONSTANTS
  Callers,  \* who calls the operations
  Elms,     \* the elements
  Headers,  \* the list headers
  Keys      \* the keys, numbers in the order of strcmp

NULL == -1
Nodes == Elms \cup Headers

ASSUME NodesAssumption ==
  /\ Elms \subseteq Nat /\ Headers \subseteq Nat
  /\ Elms \cap Headers = {}
  /\ IsFiniteSet(Elms) /\ IsFiniteSet(Headers)
  /\ Keys \subseteq Int

VARIABLES
  key,   \* key[e]: the key of element e
  next,  \* next[n], prev[n]: the links of node n
  prev,
  call   \* call[c]: the call c has in progress

heap == <<key, next, prev>>

\* op: the operation; at: its next access; list, elm: its arguments;
\* temp: its variable temp (or the element to delete); pred, succ: the
\* pointers it has loaded and not stored yet; rc: its int result so far.
Idle == [op |-> "none", at |-> "none", list |-> NULL, elm |-> NULL,
         temp |-> NULL, pred |-> NULL, succ |-> NULL, rc |-> 0]

HeapInit ==
  /\ key \in [Elms -> Keys]
  /\ next = [n \in Nodes |-> IF n \in Headers THEN n ELSE NULL]
  /\ prev = next
  /\ call = [c \in Callers |-> Idle]

-----------------------------------------------------------------------------
(* A caller begins a call, and takes its result when it is at "return".    *)

\* A faulty call that mixes up its two arguments.
BeginSwapped(c, operation, l, e) ==
  call' = [call EXCEPT ![c] =
             [Idle EXCEPT !.op = operation, !.at = "first",
                          !.list = e, !.elm = l]]

Begin(c, operation, l, e) ==
  call' = [call EXCEPT ![c] =
             [Idle EXCEPT !.op = operation, !.at = "first",
                          !.list = l, !.elm = e]]

BeginDelete(c, e) ==
  call' = [call EXCEPT ![c] =
             [Idle EXCEPT !.op = "delete", !.at = "getNext", !.temp = e]]

Finish(c) == call' = [call EXCEPT ![c] = Idle]

-----------------------------------------------------------------------------
(* The accesses.                                                           *)

\* temp = list->next
First(c) ==
  /\ call[c].at = "first"
  /\ call' = [call EXCEPT ![c].at = "scan", ![c].temp = next[call[c].list]]
  /\ UNCHANGED heap

AtHeader(c) == call[c].temp = call[c].list

\* insert and lookup look further down the list.
KeyAhead(c) == ~AtHeader(c) /\ key[call[c].temp] < key[call[c].elm]

\* A faulty loop that does not move on.
AdvanceStays(c) ==
  /\ \/ call[c].at = "scan" /\ call[c].op \in {"insert", "lookup"} /\ KeyAhead(c)
     \/ call[c].at = "consistent" /\ call[c].op = "length"
  /\ call' = [call EXCEPT ![c].at = "scan"]
  /\ UNCHANGED heap

\* temp = temp->next, after length has counted temp
Advance(c) ==
  /\ \/ call[c].at = "scan" /\ call[c].op \in {"insert", "lookup"} /\ KeyAhead(c)
     \/ call[c].at = "consistent" /\ call[c].op = "length"
  /\ call' = [call EXCEPT
       ![c].at = "scan",
       ![c].temp = next[@],
       ![c].rc = IF call[c].op = "length" THEN @ + 1 ELSE @]
  /\ UNCHANGED heap

\* A faulty insertion that may stop before it has reached its place.
SetNextAtFront(c) ==
  /\ call[c].at = "scan" /\ call[c].op = "insert"
  /\ next' = [next EXCEPT ![call[c].elm] = call[c].temp]
  /\ call' = [call EXCEPT ![c].at = "setPrev"]
  /\ UNCHANGED <<key, prev>>

\* A faulty insertion that forgets the first assignment.
SetNextForgotten(c) ==
  /\ call[c].at = "scan" /\ call[c].op = "insert" /\ ~KeyAhead(c)
  /\ call' = [call EXCEPT ![c].at = "setPrev"]
  /\ UNCHANGED heap

\* insert: element->next = temp
SetNext(c) ==
  /\ call[c].at = "scan" /\ call[c].op = "insert" /\ ~KeyAhead(c)
  /\ next' = [next EXCEPT ![call[c].elm] = call[c].temp]
  /\ call' = [call EXCEPT ![c].at = "setPrev"]
  /\ UNCHANGED <<key, prev>>

\* insert: element->prev = temp->prev
SetPrev(c) ==
  /\ call[c].at = "setPrev"
  /\ prev' = [prev EXCEPT ![call[c].elm] = prev[call[c].temp]]
  /\ call' = [call EXCEPT ![c].at = "getPred"]
  /\ UNCHANGED <<key, next>>

\* A faulty insertion that makes its element the first of the list.
LinkAtHeader(c) ==
  /\ call[c].at = "link"
  /\ next' = [next EXCEPT ![call[c].list] = call[c].elm]
  /\ call' = [call EXCEPT ![c].at = "linkBack"]
  /\ UNCHANGED <<key, prev>>

\* A faulty insertion that links its element first and then takes over the next
\* pointer of its predecessor.
LinkBeforeNext(c) ==
  /\ call[c].at = "link"
  /\ next' = [next EXCEPT ![call[c].pred] = call[c].elm,
                          ![call[c].elm] = call[c].elm]
  /\ call' = [call EXCEPT ![c].at = "linkBack"]
  /\ UNCHANGED <<key, prev>>

\* insert: temp->prev->next = element
Link(c) ==
  /\ call[c].at = "link"
  /\ next' = [next EXCEPT ![call[c].pred] = call[c].elm]
  /\ call' = [call EXCEPT ![c].at = "linkBack"]
  /\ UNCHANGED <<key, prev>>

\* insert: temp->prev = element
LinkBack(c) ==
  /\ call[c].at = "linkBack"
  /\ prev' = [prev EXCEPT ![call[c].temp] = call[c].elm]
  /\ call' = [call EXCEPT ![c].at = "return"]
  /\ UNCHANGED <<key, next>>

\* The loads of temp->prev and the accesses that follow them: in insert, in
\* the test prev->next != temp, and twice in the unlinking of delete.
AfterPred == [getPred |-> "link", getPrev |-> "testPrev",
              unlink |-> "unlinkSucc", unlinkBackPred |-> "unlinkBack"]

LoadPred(c) ==
  /\ call[c].at \in DOMAIN AfterPred
  /\ call' = [call EXCEPT ![c].at = AfterPred[@],
                          ![c].pred = prev[call[c].temp]]
  /\ UNCHANGED heap

\* The loads of temp->next other than Advance.
AfterSucc == [getNext |-> "testNext", unlinkSucc |-> "unlinkNow",
              unlinkBackSucc |-> "unlinkBackPred"]

LoadSucc(c) ==
  /\ call[c].at \in DOMAIN AfterSucc
  /\ call' = [call EXCEPT ![c].at = AfterSucc[@],
                          ![c].succ = next[call[c].temp]]
  /\ UNCHANGED heap

\* length tests prev->next before next->prev, delete the other way round; the
\* first pointer that does not lead back ends the call.
Test(c, label, back, consistent) ==
  /\ call[c].at = label
  /\ IF back = call[c].temp
       THEN call' = [call EXCEPT ![c].at = consistent]
       ELSE call' = [call EXCEPT
              ![c].at = "return",
              ![c].rc = IF call[c].op = "length" THEN -1 ELSE 1]
  /\ UNCHANGED heap

TestPrev(c) ==
  Test(c, "testPrev", next[call[c].pred],
       IF call[c].op = "length" THEN "getNext" ELSE "unlink")

TestNext(c) ==
  Test(c, "testNext", prev[call[c].succ],
       IF call[c].op = "length" THEN "consistent" ELSE "getPrev")

\* delete: element->prev->next = element->next
Unlink(c) ==
  /\ call[c].at = "unlinkNow"
  /\ next' = [next EXCEPT ![call[c].pred] = call[c].succ]
  /\ call' = [call EXCEPT ![c].at = "unlinkBackSucc"]
  /\ UNCHANGED <<key, prev>>

\* A faulty delete that forgets the second assignment.
UnlinkBackSkipped(c) ==
  /\ call[c].at = "unlinkBack"
  /\ call' = [call EXCEPT ![c].at = "return"]
  /\ UNCHANGED heap

\* delete: element->next->prev = element->prev
UnlinkBack(c) ==
  /\ call[c].at = "unlinkBack"
  /\ prev' = [prev EXCEPT ![call[c].succ] = call[c].pred]
  /\ call' = [call EXCEPT ![c].at = "return"]
  /\ UNCHANGED <<key, next>>

\* lookup: the key is found, or it cannot come any more.
LookupEnds(c) ==
  /\ call[c].at = "scan" /\ call[c].op = "lookup" /\ ~KeyAhead(c)
  /\ call' = [call EXCEPT
       ![c].at = "return",
       ![c].temp = IF ~AtHeader(c) /\ key[@] = key[call[c].elm]
                     THEN @ ELSE NULL]
  /\ UNCHANGED heap

\* length: the header is reached, or the next element is tested.
LengthScan(c) ==
  /\ call[c].at = "scan" /\ call[c].op = "length"
  /\ call' = [call EXCEPT ![c].at = IF AtHeader(c) THEN "return" ELSE "getPrev"]
  /\ UNCHANGED heap

ListStep(c) ==
  \/ First(c) \/ Advance(c)
  \/ SetNext(c) \/ SetPrev(c) \/ Link(c) \/ LinkBack(c)
  \/ LoadPred(c) \/ LoadSucc(c) \/ TestPrev(c) \/ TestNext(c)
  \/ Unlink(c) \/ UnlinkBack(c)
  \/ LookupEnds(c) \/ LengthScan(c)

-----------------------------------------------------------------------------
(* Any use of the lists SortedList.h allows, without any lock: callers     *)
(* begin calls as they like; an element is inserted once, by one caller,   *)
(* and an element is deleted when a lookup of the caller has returned it.  *)

Inserting(c, e) == call[c].op = "insert" /\ call[c].elm = e

BeginInsert(c, l, e) ==
  /\ call[c] = Idle
  /\ next[e] = NULL /\ \A d \in Callers : ~Inserting(d, e)
  /\ Begin(c, "insert", l, e)

BeginLookup(c, l, e) ==
  /\ call[c] = Idle
  /\ Begin(c, "lookup", l, e)

BeginLength(c, l) ==
  /\ call[c] = Idle
  /\ Begin(c, "length", l, NULL)

Returns(c) == call[c].at = "return"

DeleteFound(c) ==
  /\ Returns(c) /\ call[c].op = "lookup" /\ call[c].temp # NULL
  /\ BeginDelete(c, call[c].temp)

ClientStep(c) ==
  /\ \/ \E l \in Headers, e \in Elms : BeginInsert(c, l, e) \/ BeginLookup(c, l, e)
     \/ \E l \in Headers : BeginLength(c, l)
     \/ DeleteFound(c)
     \/ Returns(c) /\ Finish(c)
  /\ UNCHANGED heap

Next == \E c \in Callers : ListStep(c) \/ ClientStep(c)

vars == <<key, next, prev, call>>

Spec == HeapInit /\ [][Next]_vars

-----------------------------------------------------------------------------
(* What the lists contain.                                                 *)

\* Reaches(l)[n]: the nodes that following next at most n times from the header
\* of list l leads to.
Reaches(l) ==
  LET reach[n \in Nat] ==
        IF n = 0 THEN {l}
        ELSE reach[n - 1] \cup { next[m] : m \in reach[n - 1] }
  IN  reach

\* The elements that following next from the header of list l leads to.
Content(l) == Reaches(l)[Cardinality(Nodes)] \ {l}

\* Following next from the header leads back to it.
Closed(l) == \E n \in Content(l) \cup {l} : next[n] = l

\* Following next from the header leads through elements in the order of
\* their keys back to the header, and prev leads the same way back.
Sound(l) ==
  LET C == Content(l)
  IN  /\ \A n \in C \cup {l} : prev[next[n]] = n /\ next[prev[n]] = n
      /\ \A n \in C : next[n] \in C => key[n] <= key[next[n]]

-----------------------------------------------------------------------------
(* Properties                                                              *)

Labels == {"none", "first", "scan", "return", "setPrev", "getPred", "link",
           "linkBack", "consistent", "getPrev", "testPrev", "getNext",
           "testNext", "unlink", "unlinkSucc", "unlinkNow", "unlinkBackSucc",
           "unlinkBackPred", "unlinkBack"}

HeapTypeOK ==
  /\ key \in [Elms -> Keys]
  /\ next \in [Nodes -> Nodes \cup {NULL}]
  /\ prev \in [Nodes -> Nodes \cup {NULL}]
  /\ call \in [Callers ->
       [op : {"none", "insert", "length", "lookup", "delete"}, at : Labels,
        list : Headers \cup {NULL}, elm : Elms \cup {NULL},
        temp : Nodes \cup {NULL}, pred : Nodes \cup {NULL},
        succ : Nodes \cup {NULL}, rc : Int]]

\* Which of a call's pointers its next step dereferences.
UsesTemp == {"scan", "setPrev", "linkBack", "consistent"}
              \cup DOMAIN AfterPred \cup DOMAIN AfterSucc
UsesPred == {"link", "testPrev", "unlinkNow"}
UsesSucc == {"testNext", "unlinkBack"}

\* At every moment, following next from a header leads back to it, whatever
\* calls run concurrently and without any lock: an element may be lost or stay
\* behind, but none is cut off behind a NULL pointer, and no chain of next
\* pointers runs in a circle that a call could never leave.
NeverCut == \A l \in Headers : Closed(l)

\* A pointer that is dereferenced is never NULL, whatever calls run
\* concurrently and without any lock: an unprotected list may lose elements,
\* but the program needs no SIGSEGV handler for that.
NoNullDereference ==
  \A c \in Callers :
    /\ call[c].at \in UsesTemp => call[c].temp # NULL
    /\ call[c].at \in UsesPred => call[c].pred # NULL
    /\ call[c].at \in UsesSucc => call[c].succ # NULL
=============================================================================
