------------------------------ MODULE ListSet ------------------------------
(***************************************************************************)
(* What the threads of lab2_list.c do to the lists as a whole, each call   *)
(* taking effect in one step: a thread inserts its elements, and for each  *)
(* of them deletes one element that has the same key, which another thread *)
(* may have inserted.  The key decides the list, so one set stands for all *)
(* the lists.                                                              *)
(***************************************************************************)
EXTENDS Integers, FiniteSets

CONSTANTS Elms, Keys

VARIABLES
  key,      \* the key of each element, fixed
  content,  \* the elements on the lists
  pending,  \* the inserted elements whose owner has not deleted for them
  fresh     \* the elements not inserted yet

vars == <<key, content, pending, fresh>>

WithKey(S, k) == { e \in S : key[e] = k }

Init ==
  /\ key \in [Elms -> Keys]
  /\ content = {}
  /\ pending = {}
  /\ fresh = Elms

Insert(e) ==
  /\ e \in fresh
  /\ content' = content \cup {e}
  /\ pending' = pending \cup {e}
  /\ fresh' = fresh \ {e}
  /\ UNCHANGED key

\* The owner of e deletes the element x that lookup returned.
Delete(e, x) ==
  /\ e \in pending
  /\ x \in WithKey(content, key[e])
  /\ content' = content \ {x}
  /\ pending' = pending \ {e}
  /\ UNCHANGED <<key, fresh>>

Next ==
  \/ \E e \in Elms : Insert(e)
  \/ \E e, x \in Elms : Delete(e, x)

Spec == Init /\ [][Next]_vars

-----------------------------------------------------------------------------
(* Properties                                                              *)

TypeOK ==
  /\ key \in [Elms -> Keys]
  /\ content \subseteq Elms
  /\ pending \subseteq Elms
  /\ fresh \subseteq Elms
  /\ content \cap fresh = {}
  /\ pending \cap fresh = {}

\* The lists hold as many elements of each key as there are owners still to
\* delete one.
Balanced ==
  \A k \in Keys : Cardinality(WithKey(content, k)) =
                    Cardinality(WithKey(pending, k))

\* A lookup for an element whose owner has not deleted yet finds something.
NeverMissing == \A e \in pending : WithKey(content, key[e]) # {}
=============================================================================
