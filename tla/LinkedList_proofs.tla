-------------------------- MODULE LinkedList_proofs --------------------------
(***************************************************************************)
(* The facts about lists that the proofs about their users rest on.        *)
(***************************************************************************)
EXTENDS LinkedList, FiniteSetTheorems, TLAPS

\* list.New returns a list.
LEMMA EmptyListIsList == IsList(EmptyList)
  BY FS_EmptySet DEF IsList, EmptyList

\* Unlinking any elements leaves a list of the others, in the same order.
LEMMA UnlinkIsList ==
  ASSUME NEW l, IsList(l), NEW X
  PROVE  /\ IsList(Unlink(l, X))
         /\ DOMAIN Unlink(l, X) = DOMAIN l \ X
         /\ \A y \in DOMAIN l \ X : Unlink(l, X)[y] = l[y] \ X
<1>1. IsFiniteSet(DOMAIN l \ X)
  BY FS_Difference DEF IsList
<1>2. /\ DOMAIN Unlink(l, X) = DOMAIN l \ X
      /\ \A y \in DOMAIN l \ X : Unlink(l, X)[y] = l[y] \ X
  BY DEF Unlink
<1>3. Unlink(l, X) \in [DOMAIN l \ X -> SUBSET (DOMAIN l \ X)]
  BY DEF Unlink, IsList
<1> QED BY <1>1, <1>2, <1>3 DEF IsList

\* Unlinking what the list does not hold changes nothing.
LEMMA UnlinkNothing ==
  ASSUME NEW l, IsList(l), NEW X, DOMAIN l \cap X = {}
  PROVE  Unlink(l, X) = l
<1>1. l = [y \in DOMAIN l |-> l[y]]
  BY DEF IsList
<1>2. \A y \in DOMAIN l : l[y] \subseteq DOMAIN l
  BY DEF IsList
<1>3. \A y \in DOMAIN l : l[y] \ X = l[y]
  BY <1>2
<1>4. DOMAIN l \ X = DOMAIN l
  OBVIOUS
<1>5. Unlink(l, X) = [y \in DOMAIN l |-> l[y]]
  BY <1>3, <1>4 DEF Unlink
<1> QED BY <1>1, <1>5

\* A value pushed at the back has every other one ahead of it.
LEMMA PushBackIsList ==
  ASSUME NEW l, IsList(l), NEW x, x \notin DOMAIN l
  PROVE  /\ IsList(PushBack(l, x))
         /\ DOMAIN PushBack(l, x) = DOMAIN l \cup {x}
         /\ PushBack(l, x)[x] = DOMAIN l
         /\ \A y \in DOMAIN l : PushBack(l, x)[y] = l[y]
<1> DEFINE p == PushBack(l, x)
<1>1. IsFiniteSet(DOMAIN l \cup {x})
  BY FS_AddElement DEF IsList
<1>2. /\ DOMAIN p = DOMAIN l \cup {x}
      /\ p[x] = DOMAIN l
      /\ \A y \in DOMAIN l : p[y] = l[y]
  BY DEF PushBack
<1>3. \A y \in DOMAIN l : l[y] \subseteq DOMAIN l
  BY DEF IsList
<1>4. p \in [DOMAIN l \cup {x} -> SUBSET (DOMAIN l \cup {x})]
  BY <1>3 DEF PushBack
<1>5. \A y \in DOMAIN p : y \notin p[y]
  BY <1>2 DEF IsList
<1>6. \A y, z \in DOMAIN p : y = z \/ y \in p[z] \/ z \in p[y]
  BY <1>2 DEF IsList
<1>7. \A y, z \in DOMAIN p : y \in p[z] => p[y] \subseteq p[z]
  BY <1>2, <1>3 DEF IsList
<1> QED BY <1>1, <1>2, <1>4, <1>5, <1>6, <1>7 DEF IsList

\* A value moved to the back has every other one ahead of it, and no other value
\* gets one more ahead of it.
LEMMA MoveToBackIsList ==
  ASSUME NEW l, IsList(l), NEW x
  PROVE  /\ IsList(MoveToBack(l, x))
         /\ DOMAIN MoveToBack(l, x) = DOMAIN l \cup {x}
         /\ \A y \in DOMAIN l \ {x} : MoveToBack(l, x)[y] = l[y] \ {x}
<1> DEFINE u == Unlink(l, {x})
<1>1. /\ IsList(u) /\ DOMAIN u = DOMAIN l \ {x}
      /\ \A y \in DOMAIN l \ {x} : u[y] = l[y] \ {x}
  BY UnlinkIsList
<1> HIDE DEF u
<1>2. /\ IsList(PushBack(u, x)) /\ DOMAIN PushBack(u, x) = DOMAIN u \cup {x}
      /\ \A y \in DOMAIN u : PushBack(u, x)[y] = u[y]
  BY <1>1, PushBackIsList
<1>3. MoveToBack(l, x) = PushBack(u, x)
  BY DEF MoveToBack, u
<1> QED BY <1>1, <1>2, <1>3

\* Among any elements of a list one stands ahead of all the others.
LEMMA FrontOfElements ==
  ASSUME NEW l, IsList(l), NEW R, R \subseteq DOMAIN l, R # {}
  PROVE  \E f \in R : l[f] \cap R = {}
<1> DEFINE S == DOMAIN l
           T == {l[x] : x \in R}
<1>1. IsFiniteSet(S) /\ \A x \in S : l[x] \subseteq S
  BY DEF IsList
<1>2. T \subseteq FiniteSubsetsOf(S)
  BY <1>1, FS_FiniteSubsetsOfFinite
<1>3. IsWellFoundedOn(StrictSubsetOrdering(S), FiniteSubsetsOf(S))
  BY FS_StrictSubsetOrderingWellFounded
<1>4. T # {}
  OBVIOUS
<1>5. PICK m \in T : \A n \in T : ~ (<<n, m>> \in StrictSubsetOrdering(S))
  <2> HIDE DEF T, S
  <2> QED BY <1>2, <1>3, <1>4, WFMin
<1>6. PICK f \in R : m = l[f]
  OBVIOUS
<1>7. ASSUME NEW y \in R, y \in l[f]
      PROVE  FALSE
  <2>1. l[y] \subseteq l[f] /\ l[y] # l[f]
    BY <1>7 DEF IsList
  <2>2. <<l[y], l[f]>> \in StrictSubsetOrdering(S)
    BY <1>1, <2>1 DEF StrictSubsetOrdering
  <2> QED BY <1>5, <1>6, <2>2
<1> QED BY <1>7
=============================================================================
