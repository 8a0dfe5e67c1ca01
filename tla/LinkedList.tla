----------------------------- MODULE LinkedList -----------------------------
(***************************************************************************)
(* container/list as pendingStateStore and requestLimiter use it.  Every   *)
(* element carries a distinct value, and a holder of an element can unlink *)
(* it wherever it stands.  A list is therefore the function that maps each *)
(* value to the set of values ahead of it: the front element is mapped to  *)
(* {}, and the back element to all the others.  Two lists are equal as     *)
(* functions exactly when they hold the same values in the same order.     *)
(***************************************************************************)
EXTENDS Integers, FiniteSets

\* list.New()
EmptyList == [x \in {} |-> {}]

\* l.Len()
Length(l) == Cardinality(DOMAIN l)

\* l.PushBack(x), for an x that the list does not hold
PushBack(l, x) ==
  [y \in DOMAIN l \cup {x} |-> IF y = x THEN DOMAIN l ELSE l[y]]

\* l.Remove of every element of X that the list holds
Unlink(l, X) == [y \in DOMAIN l \ X |-> l[y] \ X]

\* l.MoveToBack(x)
MoveToBack(l, x) == PushBack(Unlink(l, {x}), x)

\* The first n elements (all of them when n exceeds the length, none when
\* n is negative): the elements n repetitions of l.Remove(l.Front()) unlink.
FirstElements(l, n) == {x \in DOMAIN l : Cardinality(l[x]) < n}

\* What a value must satisfy to be a list: "ahead of" is a strict total order
\* on a finite set.
IsList(l) ==
  /\ IsFiniteSet(DOMAIN l)
  /\ l \in [DOMAIN l -> SUBSET DOMAIN l]
  /\ \A x \in DOMAIN l : x \notin l[x]
  /\ \A x, y \in DOMAIN l : x = y \/ x \in l[y] \/ y \in l[x]
  /\ \A x, y \in DOMAIN l : x \in l[y] => l[x] \subseteq l[y]
=============================================================================
