------------------------ MODULE PendingStates_proofs ------------------------
(***************************************************************************)
(* What the store's operations do to a well-formed store: lemmas that say  *)
(* which entries each of them leaves and that the lists follow the map.    *)
(***************************************************************************)
EXTENDS PendingStates, LinkedList_proofs

\* The order of a session in a well-formed store.
LEMMA OrderOfSession ==
  ASSUME NEW store, WellFormed(store), NEW s
  PROVE  /\ DOMAIN store.sessionOrders = {SessionOf(k) : k \in DOMAIN store.entries}
         /\ DOMAIN SessionOrder(store, s) = OwnKeys(store, s)
         /\ \A k \in OwnKeys(store, s) :
              SessionOrder(store, s)[k] = store.globalOrder[k] \cap OwnKeys(store, s)
         /\ s \in DOMAIN store.sessionOrders <=> OwnKeys(store, s) # {}
<1>1. DOMAIN store.sessionOrders = {SessionOf(k) : k \in DOMAIN store.entries}
  BY DEF WellFormed
<1>2. s \in DOMAIN store.sessionOrders <=> OwnKeys(store, s) # {}
  BY <1>1 DEF OwnKeys
<1>3. CASE s \in DOMAIN store.sessionOrders
  <2>1. SessionOrder(store, s) =
          [k \in OwnKeys(store, s) |-> store.globalOrder[k] \cap OwnKeys(store, s)]
    BY <1>1, <1>3 DEF WellFormed, SessionOrder
  <2> QED BY <1>1, <1>2, <2>1
<1>4. CASE s \notin DOMAIN store.sessionOrders
  BY <1>1, <1>2, <1>4 DEF SessionOrder, EmptyList
<1> QED BY <1>3, <1>4

\* newPendingStateStore returns a well-formed, empty store.
LEMMA NewStoreWellFormed ==
  /\ WellFormed(newPendingStateStore)
  /\ DOMAIN newPendingStateStore.entries = {}
<1>1. DOMAIN newPendingStateStore.entries = {}
  BY DEF newPendingStateStore
<1>2. newPendingStateStore.globalOrder = EmptyList /\ DOMAIN EmptyList = {}
  BY DEF newPendingStateStore, EmptyList
<1>3. newPendingStateStore.sessionOrders = [s \in {} |-> EmptyList]
  BY DEF newPendingStateStore
<1>4. {SessionOf(k) : k \in {}} = {}
  OBVIOUS
<1>5. newPendingStateStore.entries = [k \in {} |-> newPendingStateStore.entries[k]]
  BY DEF newPendingStateStore
<1>6. newPendingStateStore =
        [entries |-> newPendingStateStore.entries,
         globalOrder |-> newPendingStateStore.globalOrder,
         sessionOrders |-> newPendingStateStore.sessionOrders]
  BY DEF newPendingStateStore
<1> QED BY <1>1, <1>2, <1>3, <1>4, <1>5, <1>6, EmptyListIsList DEF WellFormed

\* remove keeps the lists in step with the map: the entries left keep their
\* expiry and their order, and only the lists of sessions that still have one
\* remain.
LEMMA RemoveWellFormed ==
  ASSUME NEW store, WellFormed(store), NEW X
  PROVE  /\ WellFormed(Remove(store, X))
         /\ DOMAIN Remove(store, X).entries = DOMAIN store.entries \ X
         /\ \A k \in DOMAIN store.entries \ X :
              /\ Remove(store, X).entries[k] = store.entries[k]
              /\ Remove(store, X).globalOrder[k] = store.globalOrder[k] \ X
<1> DEFINE r == Remove(store, X)
           E == DOMAIN store.entries
           order(s) == store.sessionOrders[s]
           kept == {s \in DOMAIN store.sessionOrders :
                      DOMAIN order(s) \cap X # {} => ~(DOMAIN order(s) \subseteq X)}
<1>1. /\ r.entries = [k \in E \ X |-> store.entries[k]]
      /\ r.globalOrder = Unlink(store.globalOrder, X)
      /\ r.sessionOrders = [s \in kept |-> Unlink(order(s), X)]
      /\ r = [entries |-> r.entries, globalOrder |-> r.globalOrder,
              sessionOrders |-> r.sessionOrders]
  BY DEF Remove
<1>2. DOMAIN r.entries = E \ X /\ \A k \in E \ X : r.entries[k] = store.entries[k]
  BY <1>1
<1>3. r.entries = [k \in DOMAIN r.entries |-> r.entries[k]]
  BY <1>1
<1>4. /\ IsList(r.globalOrder)
      /\ DOMAIN r.globalOrder = E \ X
      /\ \A k \in E \ X : r.globalOrder[k] = store.globalOrder[k] \ X
  <2> DEFINE g == store.globalOrder
  <2>1. IsList(g) /\ DOMAIN g = E
    BY DEF WellFormed
  <2>2. r.globalOrder = Unlink(g, X)
    BY <1>1
  <2> HIDE DEF r, g
  <2>3. /\ IsList(Unlink(g, X))
        /\ DOMAIN Unlink(g, X) = DOMAIN g \ X
        /\ \A k \in DOMAIN g \ X : Unlink(g, X)[k] = g[k] \ X
    BY <2>1, UnlinkIsList
  <2> QED BY <2>1, <2>2, <2>3 DEF g
<1>5. \A s : OwnKeys(r, s) = OwnKeys(store, s) \ X
  BY <1>2 DEF OwnKeys
<1>6. \A s \in DOMAIN store.sessionOrders :
        /\ DOMAIN order(s) = OwnKeys(store, s)
        /\ OwnKeys(store, s) # {}
        /\ order(s) = [k \in OwnKeys(store, s) |-> store.globalOrder[k] \cap OwnKeys(store, s)]
  <2> TAKE s \in DOMAIN store.sessionOrders
  <2>1. s \in {SessionOf(k) : k \in E}
    BY DEF WellFormed
  <2>2. order(s) = [k \in OwnKeys(store, s) |-> store.globalOrder[k] \cap OwnKeys(store, s)]
    BY <2>1 DEF WellFormed
  <2> QED BY <2>1, <2>2 DEF OwnKeys
<1>7. kept = {SessionOf(k) : k \in E \ X}
  <2>1. ASSUME NEW s \in kept PROVE s \in {SessionOf(k) : k \in E \ X}
    <3>1. PICK k \in OwnKeys(store, s) : k \notin X
      BY <1>6
    <3> QED BY <3>1 DEF OwnKeys
  <2>2. ASSUME NEW k \in E \ X PROVE SessionOf(k) \in kept
    <3>1. SessionOf(k) \in DOMAIN store.sessionOrders /\ k \in OwnKeys(store, SessionOf(k))
      BY DEF WellFormed, OwnKeys
    <3> QED BY <1>6, <3>1
  <2> QED BY <2>1, <2>2
<1>8. ASSUME NEW s \in kept
      PROVE  Unlink(order(s), X) = [k \in OwnKeys(r, s) |-> r.globalOrder[k] \cap OwnKeys(r, s)]
  <2>1. DOMAIN order(s) \ X = OwnKeys(r, s)
    BY <1>5, <1>6
  <2>2. \A k \in OwnKeys(r, s) : order(s)[k] \ X = r.globalOrder[k] \cap OwnKeys(r, s)
    <3> TAKE k \in OwnKeys(r, s)
    <3>1. k \in E \ X /\ k \in OwnKeys(store, s)
      BY <1>5 DEF OwnKeys
    <3>2. order(s)[k] = store.globalOrder[k] \cap OwnKeys(store, s)
      BY <1>6, <3>1
    <3> QED BY <1>4, <1>5, <3>1, <3>2
  <2> QED BY <2>1, <2>2 DEF Unlink
<1>9. r.sessionOrders =
        [s \in {SessionOf(k) : k \in DOMAIN r.entries} |->
           [k \in OwnKeys(r, s) |-> r.globalOrder[k] \cap OwnKeys(r, s)]]
  <2> HIDE DEF r, kept, order
  <2> QED BY <1>1, <1>2, <1>7, <1>8
<1>10. WellFormed(r)
  <2> HIDE DEF r
  <2>1. r = [entries |-> [k \in DOMAIN r.entries |-> r.entries[k]],
             globalOrder |-> r.globalOrder, sessionOrders |-> r.sessionOrders]
    BY <1>1, <1>3
  <2> QED BY <2>1, <1>2, <1>4, <1>9 DEF WellFormed
<1> QED BY <1>2, <1>4, <1>10

\* Removing what is not pending changes nothing.
LEMMA RemoveNothing ==
  ASSUME NEW store, WellFormed(store), NEW X, DOMAIN store.entries \cap X = {}
  PROVE  Remove(store, X) = store
<1> DEFINE r == Remove(store, X)
           E == DOMAIN store.entries
<1>0. E \ X = E
  OBVIOUS
<1>1. WellFormed(r) /\ DOMAIN r.entries = E
  BY <1>0, RemoveWellFormed
<1>2. r.globalOrder = store.globalOrder
  BY UnlinkNothing DEF WellFormed, Remove
<1>3. \A s : OwnKeys(r, s) = OwnKeys(store, s)
  BY <1>1 DEF OwnKeys
<1>4. r.entries = store.entries
  <2>1. store.entries = [k \in E |-> store.entries[k]]
    BY DEF WellFormed
  <2>2. r.entries = [k \in E \ X |-> store.entries[k]]
    BY DEF Remove
  <2> QED BY <1>0, <2>1, <2>2
<1>5. r.sessionOrders = store.sessionOrders
  <2> HIDE DEF r
  <2> QED BY <1>1, <1>2, <1>3 DEF WellFormed
<1>6. store = [entries |-> store.entries, globalOrder |-> store.globalOrder,
               sessionOrders |-> store.sessionOrders]
  BY DEF WellFormed
<1>7. r = [entries |-> r.entries, globalOrder |-> r.globalOrder,
           sessionOrders |-> r.sessionOrders]
  BY DEF Remove
<1> QED BY <1>2, <1>4, <1>5, <1>6, <1>7

\* Making sure of a session's list leaves the map and the global list alone,
\* and gives the session a list of its own keys.
LEMMA OpenSessionFields ==
  ASSUME NEW store, WellFormed(store), NEW s
  PROVE  LET o == OpenSession(store, s)
         IN /\ o.entries = store.entries
            /\ o.globalOrder = store.globalOrder
            /\ o = [entries |-> store.entries, globalOrder |-> store.globalOrder,
                    sessionOrders |-> o.sessionOrders]
            /\ o.sessionOrders = [t \in DOMAIN store.sessionOrders \cup {s} |->
                                    IF t = s THEN SessionOrder(store, s)
                                             ELSE store.sessionOrders[t]]
<1> DEFINE so == [t \in DOMAIN store.sessionOrders \cup {s} |->
                    IF t = s THEN SessionOrder(store, s) ELSE store.sessionOrders[t]]
<1>2. OpenSession(store, s) =
        [entries |-> store.entries, globalOrder |-> store.globalOrder, sessionOrders |-> so]
  BY DEF OpenSession, SetSessionOrder
<1> HIDE DEF so
<1>3. OpenSession(store, s).sessionOrders = so
  BY <1>2
<1> QED BY <1>2, <1>3 DEF so

\* The refusal takes back exactly what OpenSession added.
LEMMA RefuseRestores ==
  ASSUME NEW store, WellFormed(store), NEW s
  PROVE  Refuse(OpenSession(store, s), s) = store
<1> DEFINE o == OpenSession(store, s)
<1>1. store = [entries |-> store.entries, globalOrder |-> store.globalOrder,
               sessionOrders |-> store.sessionOrders]
  BY DEF WellFormed
<1>2. /\ o.entries = store.entries
      /\ o.globalOrder = store.globalOrder
      /\ o = [entries |-> o.entries, globalOrder |-> o.globalOrder,
              sessionOrders |-> o.sessionOrders]
      /\ o.sessionOrders = [t \in DOMAIN store.sessionOrders \cup {s} |->
                              IF t = s THEN SessionOrder(store, s)
                                       ELSE store.sessionOrders[t]]
  BY OpenSessionFields
<1>3. /\ DOMAIN SessionOrder(store, s) = OwnKeys(store, s)
      /\ s \in DOMAIN store.sessionOrders <=> OwnKeys(store, s) # {}
  BY OrderOfSession
<1>4. DOMAIN o.sessionOrders[s] = OwnKeys(store, s)
  BY <1>2, <1>3
<1>5. store.sessionOrders =
        [t \in DOMAIN store.sessionOrders |-> store.sessionOrders[t]]
  <2>1. DOMAIN store.sessionOrders = {SessionOf(k) : k \in DOMAIN store.entries}
    BY DEF WellFormed
  <2> QED BY <2>1 DEF WellFormed
<1> HIDE DEF o
<1>6. CASE OwnKeys(store, s) = {}
  <2>1. Refuse(o, s) = [entries |-> o.entries, globalOrder |-> o.globalOrder,
                        sessionOrders |-> [t \in DOMAIN o.sessionOrders \ {s} |->
                                             o.sessionOrders[t]]]
    BY <1>4, <1>6 DEF Refuse
  <2>2. DOMAIN o.sessionOrders \ {s} = DOMAIN store.sessionOrders
    BY <1>2, <1>3, <1>6
  <2>3. [t \in DOMAIN o.sessionOrders \ {s} |-> o.sessionOrders[t]] = store.sessionOrders
    BY <1>2, <1>5, <2>2
  <2> QED BY <1>1, <1>2, <2>1, <2>3 DEF o
<1>7. CASE OwnKeys(store, s) # {}
  <2>1. Refuse(o, s) = o
    BY <1>4, <1>7 DEF Refuse
  <2>2. s \in DOMAIN store.sessionOrders
    BY <1>3, <1>7
  <2>3. o.sessionOrders = store.sessionOrders
    BY <1>2, <1>5, <2>2 DEF SessionOrder
  <2> QED BY <1>1, <1>2, <2>1, <2>3 DEF o
<1> QED BY <1>6, <1>7 DEF o

\* The store with one more entry, at the back of the global list and of its
\* session's.
Placed(store, key, expires) ==
  [entries |-> [k \in DOMAIN store.entries \cup {key} |->
                  IF k = key THEN expires ELSE store.entries[k]],
   globalOrder |-> PushBack(store.globalOrder, key),
   sessionOrders |-> [t \in DOMAIN store.sessionOrders \cup {SessionOf(key)} |->
                        IF t = SessionOf(key) THEN PushBack(SessionOrder(store, t), key)
                                              ELSE store.sessionOrders[t]]]

\* Placing a new key keeps a store well formed, and every other key keeps its
\* expiry and its place.
LEMMA PlacedWellFormed ==
  ASSUME NEW store, WellFormed(store), NEW key, key \notin DOMAIN store.entries, NEW expires
  PROVE  LET p == Placed(store, key, expires)
         IN /\ WellFormed(p)
            /\ DOMAIN p.entries = DOMAIN store.entries \cup {key}
            /\ p.entries[key] = expires
            /\ p.globalOrder[key] = DOMAIN store.entries
            /\ \A k \in DOMAIN store.entries :
                 /\ p.entries[k] = store.entries[k]
                 /\ p.globalOrder[k] = store.globalOrder[k]
<1> DEFINE p == Placed(store, key, expires)
           E == DOMAIN store.entries
           me == SessionOf(key)
<1>1. /\ p.entries = [k \in E \cup {key} |-> IF k = key THEN expires ELSE store.entries[k]]
      /\ p.globalOrder = PushBack(store.globalOrder, key)
      /\ p.sessionOrders = [t \in DOMAIN store.sessionOrders \cup {me} |->
                              IF t = me THEN PushBack(SessionOrder(store, t), key)
                                        ELSE store.sessionOrders[t]]
      /\ p = [entries |-> p.entries, globalOrder |-> p.globalOrder,
              sessionOrders |-> p.sessionOrders]
  BY DEF Placed
<1> HIDE DEF p
<1>2. /\ DOMAIN p.entries = E \cup {key}
      /\ p.entries[key] = expires
      /\ \A k \in E : p.entries[k] = store.entries[k]
      /\ p.entries = [k \in DOMAIN p.entries |-> p.entries[k]]
  BY <1>1
<1>3. /\ IsList(p.globalOrder)
      /\ DOMAIN p.globalOrder = E \cup {key}
      /\ p.globalOrder[key] = E
      /\ \A k \in E : p.globalOrder[k] = store.globalOrder[k]
  <2> DEFINE g == store.globalOrder
  <2>0. IsList(g)
    BY DEF WellFormed
  <2>1. DOMAIN g = E
    BY DEF WellFormed
  <2>2. key \notin DOMAIN g
    BY <2>1
  <2> HIDE DEF g
  <2>3. /\ IsList(PushBack(g, key))
        /\ DOMAIN PushBack(g, key) = DOMAIN g \cup {key}
        /\ PushBack(g, key)[key] = DOMAIN g
        /\ \A y \in DOMAIN g : PushBack(g, key)[y] = g[y]
    BY <2>0, <2>2, PushBackIsList
  <2> QED BY <1>1, <2>1, <2>3 DEF g
<1>4. /\ \A t : t # me => OwnKeys(p, t) = OwnKeys(store, t)
      /\ OwnKeys(p, me) = OwnKeys(store, me) \cup {key}
  BY <1>2 DEF OwnKeys
<1>5. DOMAIN store.sessionOrders \cup {me} = {SessionOf(k) : k \in E \cup {key}}
  BY OrderOfSession
<1>6. \A k \in E : store.globalOrder[k] \subseteq E
  BY DEF WellFormed, IsList
<1>7. ASSUME NEW t \in DOMAIN store.sessionOrders \cup {me}
      PROVE  p.sessionOrders[t] =
               [k \in OwnKeys(p, t) |-> p.globalOrder[k] \cap OwnKeys(p, t)]
  <2>1. CASE t = me
    <3> DEFINE o == SessionOrder(store, me)
    <3>1. DOMAIN o = OwnKeys(store, me)
          /\ \A k \in OwnKeys(store, me) : o[k] = store.globalOrder[k] \cap OwnKeys(store, me)
      BY OrderOfSession
    <3>2. p.sessionOrders[t] = PushBack(o, key)
      BY <1>1, <2>1
    <3> HIDE DEF o
    <3>3. OwnKeys(store, me) \subseteq E /\ key \notin OwnKeys(store, me)
      BY DEF OwnKeys
    <3>4. E \cap OwnKeys(p, me) = OwnKeys(store, me)
      BY <1>4, <3>3
    <3>5. \A k \in OwnKeys(p, me) :
            (IF k = key THEN DOMAIN o ELSE o[k]) = p.globalOrder[k] \cap OwnKeys(p, me)
      <4> TAKE k \in OwnKeys(p, me)
      <4>1. CASE k = key
        BY <1>3, <3>1, <3>4, <4>1
      <4>2. CASE k # key
        <5>1. k \in OwnKeys(store, me) /\ k \in E
          BY <1>4, <3>3, <4>2
        <5>2. p.globalOrder[k] \cap OwnKeys(p, me) = store.globalOrder[k] \cap OwnKeys(store, me)
          BY <1>3, <1>4, <1>6, <5>1
        <5> QED BY <3>1, <4>2, <5>1, <5>2
      <4> QED BY <4>1, <4>2
    <3>6. PushBack(o, key) = [k \in OwnKeys(p, me) |-> IF k = key THEN DOMAIN o ELSE o[k]]
      BY <1>4, <3>1 DEF PushBack
    <3>7. PushBack(o, key) = [k \in OwnKeys(p, me) |-> p.globalOrder[k] \cap OwnKeys(p, me)]
      BY <3>5, <3>6
    <3> QED BY <2>1, <3>2, <3>7
  <2>2. CASE t # me
    <3>1. p.sessionOrders[t] = SessionOrder(store, t)
      BY <1>1, <2>2 DEF SessionOrder
    <3>2. t \in {SessionOf(k) : k \in E}
      BY <2>2 DEF WellFormed
    <3>3. store.sessionOrders[t] =
            [k \in OwnKeys(store, t) |-> store.globalOrder[k] \cap OwnKeys(store, t)]
      BY <3>2 DEF WellFormed
    <3>4. p.sessionOrders[t] = store.sessionOrders[t]
      BY <1>1, <2>2
    <3>5. \A k \in OwnKeys(store, t) : p.globalOrder[k] = store.globalOrder[k]
      BY <1>3 DEF OwnKeys
    <3>6. OwnKeys(p, t) = OwnKeys(store, t)
      BY <1>4, <2>2
    <3> QED BY <3>3, <3>4, <3>5, <3>6
  <2> QED BY <2>1, <2>2
<1>8. p.sessionOrders =
        [t \in {SessionOf(k) : k \in DOMAIN p.entries} |->
           [k \in OwnKeys(p, t) |-> p.globalOrder[k] \cap OwnKeys(p, t)]]
  <2>1. p.sessionOrders = [t \in DOMAIN store.sessionOrders \cup {me} |-> p.sessionOrders[t]]
    BY <1>1
  <2>2. p.sessionOrders = [t \in DOMAIN store.sessionOrders \cup {me} |->
                             [k \in OwnKeys(p, t) |-> p.globalOrder[k] \cap OwnKeys(p, t)]]
    BY <1>7, <2>1
  <2> QED BY <1>2, <1>5, <2>2
<1>9. WellFormed(p)
  <2>1. p = [entries |-> [k \in DOMAIN p.entries |-> p.entries[k]],
             globalOrder |-> p.globalOrder, sessionOrders |-> p.sessionOrders]
    BY <1>1, <1>2
  <2> QED BY <1>2, <1>3, <1>8, <2>1 DEF WellFormed
<1> QED BY <1>2, <1>3, <1>9 DEF p

\* A successful add of a new key places it.
LEMMA InsertPlaces ==
  ASSUME NEW store, WellFormed(store), NEW key, NEW expires
  PROVE  Insert(OpenSession(store, SessionOf(key)), key, expires) = Placed(store, key, expires)
<1> DEFINE me == SessionOf(key)
           o == OpenSession(store, me)
           e == [k \in DOMAIN store.entries \cup {key} |->
                   IF k = key THEN expires ELSE store.entries[k]]
           so == [t \in DOMAIN store.sessionOrders \cup {me} |->
                    IF t = me THEN PushBack(SessionOrder(store, t), key)
                              ELSE store.sessionOrders[t]]
<1>1. /\ o.entries = store.entries
      /\ o.globalOrder = store.globalOrder
      /\ o = [entries |-> o.entries, globalOrder |-> o.globalOrder,
              sessionOrders |-> o.sessionOrders]
      /\ o.sessionOrders = [t \in DOMAIN store.sessionOrders \cup {me} |->
                              IF t = me THEN SessionOrder(store, me)
                                        ELSE store.sessionOrders[t]]
  BY OpenSessionFields
<1>2. o.sessionOrders[me] = SessionOrder(store, me)
  BY <1>1
<1>3. [t \in DOMAIN o.sessionOrders \cup {me} |->
         IF t = me THEN PushBack(o.sessionOrders[me], key) ELSE o.sessionOrders[t]] = so
  BY <1>1, <1>2
<1> HIDE DEF o
<1>4. Insert(o, key, expires) =
        [entries |-> [k \in DOMAIN o.entries \cup {key} |->
                        IF k = key THEN expires ELSE o.entries[k]],
         globalOrder |-> PushBack(o.globalOrder, key),
         sessionOrders |-> [t \in DOMAIN o.sessionOrders \cup {me} |->
                              IF t = me THEN PushBack(o.sessionOrders[me], key)
                                        ELSE o.sessionOrders[t]]]
  BY <1>1 DEF Insert, SetSessionOrder
<1> QED BY <1>1, <1>3, <1>4 DEF Placed, o

\* Refreshing a key is removing it and placing it again.
LEMMA RefreshPlaces ==
  ASSUME NEW store, WellFormed(store), NEW key \in DOMAIN store.entries, NEW expires
  PROVE  Refresh(store, key, expires) = Placed(Remove(store, {key}), key, expires)
<1> DEFINE r == Remove(store, {key})
           E == DOMAIN store.entries
           me == SessionOf(key)
           so == store.sessionOrders
           kept == {s \in DOMAIN so : DOMAIN so[s] \cap {key} # {} => ~(DOMAIN so[s] \subseteq {key})}
<1>1. /\ r.entries = [k \in E \ {key} |-> store.entries[k]]
      /\ r.globalOrder = Unlink(store.globalOrder, {key})
      /\ r.sessionOrders = [s \in kept |-> Unlink(so[s], {key})]
  BY DEF Remove
<1>2. \A s \in DOMAIN so : so[s] = [k \in OwnKeys(store, s) |-> store.globalOrder[k] \cap OwnKeys(store, s)]
  <2> TAKE s \in DOMAIN so
  <2>1. s \in {SessionOf(k) : k \in E}
    BY DEF WellFormed
  <2> QED BY <2>1 DEF WellFormed
<1>3. me \in DOMAIN so
  BY DEF WellFormed
<1>4. \A s \in DOMAIN so : s # me => key \notin OwnKeys(store, s)
  BY DEF OwnKeys
<1>5. kept \cup {me} = DOMAIN so \cup {me}
  BY <1>2, <1>4
<1>6. ASSUME NEW s \in DOMAIN so, s # me
      PROVE  s \in kept /\ r.sessionOrders[s] = so[s]
  <2>1. s \in kept
    BY <1>2, <1>4, <1>6
  <2>2. r.sessionOrders[s] = Unlink(so[s], {key})
    BY <1>1, <2>1
  <2>3. DOMAIN so[s] = OwnKeys(store, s) /\ key \notin OwnKeys(store, s)
    BY <1>2, <1>4, <1>6
  <2>4. \A k \in OwnKeys(store, s) : so[s][k] \ {key} = so[s][k]
    BY <1>2, <2>3
  <2>5. Unlink(so[s], {key}) = [k \in OwnKeys(store, s) |-> so[s][k]]
    BY <2>3, <2>4 DEF Unlink
  <2>6. so[s] = [k \in OwnKeys(store, s) |-> so[s][k]]
    BY <1>2
  <2> QED BY <2>1, <2>2, <2>5, <2>6
<1>7. SessionOrder(r, me) = Unlink(so[me], {key})
  <2>1. CASE me \in kept
    BY <1>1, <2>1 DEF SessionOrder
  <2>2. CASE me \notin kept
    <3>1. DOMAIN so[me] \ {key} = {}
      BY <1>3, <2>2
    <3>2. me \notin DOMAIN r.sessionOrders
      BY <1>1, <2>2
    <3> QED BY <3>1, <3>2 DEF SessionOrder, EmptyList, Unlink
  <2> QED BY <2>1, <2>2
<1>8. [t \in DOMAIN so \cup {me} |-> IF t = me THEN MoveToBack(so[me], key) ELSE so[t]] =
        [t \in DOMAIN r.sessionOrders \cup {me} |->
           IF t = me THEN PushBack(SessionOrder(r, t), key) ELSE r.sessionOrders[t]]
  <2>1. DOMAIN r.sessionOrders = kept
    BY <1>1
  <2>2. MoveToBack(so[me], key) = PushBack(SessionOrder(r, me), key)
    BY <1>7 DEF MoveToBack
  <2> HIDE DEF kept, r, so
  <2> QED BY <1>5, <1>6, <2>1, <2>2
<1>9. [store.entries EXCEPT ![key] = expires] =
        [k \in DOMAIN r.entries \cup {key} |-> IF k = key THEN expires ELSE r.entries[k]]
  <2>1. E = (E \ {key}) \cup {key}
    OBVIOUS
  <2>2. DOMAIN r.entries = E \ {key} /\ \A k \in E \ {key} : r.entries[k] = store.entries[k]
    BY <1>1
  <2>3. [store.entries EXCEPT ![key] = expires] =
          [k \in E |-> IF k = key THEN expires ELSE store.entries[k]]
    OBVIOUS
  <2> HIDE DEF r
  <2> QED BY <2>1, <2>2, <2>3
<1>10. MoveToBack(store.globalOrder, key) = PushBack(r.globalOrder, key)
  BY <1>1 DEF MoveToBack
<1>11. Refresh(store, key, expires) =
         [entries |-> [store.entries EXCEPT ![key] = expires],
          globalOrder |-> MoveToBack(store.globalOrder, key),
          sessionOrders |-> [t \in DOMAIN so \cup {me} |->
                               IF t = me THEN MoveToBack(so[me], key) ELSE so[t]]]
  BY DEF Refresh, SetSessionOrder
<1> HIDE DEF r, so, kept
<1> QED BY <1>8, <1>9, <1>10, <1>11 DEF Placed, r

\* cleanup removes only entries that have expired.
LEMMA CleanupRemovesExpired ==
  ASSUME NEW store, WellFormed(store), NEW now
  PROVE  /\ CleanupSet(store, now) \subseteq DOMAIN store.entries
         /\ \A k \in CleanupSet(store, now) : Expired(store, k, now)
  BY DEF CleanupSet, FirstElements, WellFormed

\* What cleanup leaves starts with an entry that has not expired, unless it
\* has removed a whole batch.
LEMMA CleanupStops ==
  ASSUME NEW store, WellFormed(store), NEW now,
         DOMAIN store.entries \ CleanupSet(store, now) # {},
         Cardinality(CleanupSet(store, now)) < CleanupBatch
  PROVE  \E f \in DOMAIN store.entries \ CleanupSet(store, now) :
           /\ ~ Expired(store, f, now)
           /\ \A k \in DOMAIN store.entries \ CleanupSet(store, now) :
                k = f \/ f \in store.globalOrder[k]
<1> DEFINE C == CleanupSet(store, now)
           g == store.globalOrder
           E == DOMAIN store.entries
<1>1. IsList(g) /\ DOMAIN g = E
  BY DEF WellFormed
<1>2. C \subseteq E /\ \A k \in C : Expired(store, k, now)
  BY CleanupRemovesExpired
<1>3. PICK f \in E \ C : g[f] \cap (E \ C) = {}
  <2> HIDE DEF C, g
  <2>1. E \ C \subseteq DOMAIN g /\ E \ C # {}
    BY <1>1 DEF C
  <2> QED BY <1>1, <2>1, FrontOfElements
<1>4. g[f] \subseteq C
  BY <1>1, <1>3 DEF IsList
<1>5. C \subseteq g[f]
  <2> SUFFICES ASSUME NEW c \in C, f \in g[c] PROVE FALSE
    BY <1>1, <1>2, <1>3 DEF IsList
  <2>1. g[f] \subseteq g[c] /\ IsFiniteSet(g[c])
    BY <1>1, <1>2, FS_Subset DEF IsList
  <2>2. /\ Cardinality(g[f]) \in Nat /\ Cardinality(g[c]) \in Nat
        /\ Cardinality(g[f]) <= Cardinality(g[c])
    BY <2>1, FS_Subset, FS_CardinalityType
  <2>3. Cardinality(g[c]) < CleanupBatch /\ \A j \in g[c] \cup {c} : Expired(store, j, now)
    BY DEF CleanupSet, FirstElements
  <2>4. f \in C
    BY <1>1, <1>3, <2>1, <2>2, <2>3, PendingStatesAssumption DEF CleanupSet, FirstElements
  <2> QED BY <1>3, <2>4
<1>6. ~ Expired(store, f, now)
  <2>1. g[f] = C
    BY <1>4, <1>5
  <2> QED BY <1>1, <1>2, <1>3, <2>1 DEF CleanupSet, FirstElements
<1>7. \A k \in E \ C : k = f \/ f \in g[k]
  BY <1>1, <1>3 DEF IsList
<1> QED BY <1>3, <1>6, <1>7

\* The eviction brings a session below its limit.  It removes nothing when the
\* session is below already, and just its front entry when it is at the limit.
LEMMA EvictionMakesRoom ==
  ASSUME NEW store, WellFormed(store), NEW s,
         Cardinality(OwnKeys(store, s)) <= MaxPerSession
  PROVE  LET X == SessionOverflow(store, s)
             own == OwnKeys(store, s)
         IN /\ X \subseteq own
            /\ IsFiniteSet(own \ X)
            /\ Cardinality(own \ X) < MaxPerSession
            /\ Cardinality(own) < MaxPerSession => X = {}
            /\ Cardinality(own) = MaxPerSession =>
                 \E f \in own : /\ X = {f}
                                /\ \A k \in own : k = f \/ f \in store.globalOrder[k]
<1> DEFINE X == SessionOverflow(store, s)
           own == OwnKeys(store, s)
           o == SessionOrder(store, s)
           g == store.globalOrder
           n == Cardinality(own)
<1>1. DOMAIN o = own /\ \A k \in own : o[k] = g[k] \cap own
  BY OrderOfSession
<1>2. X = {k \in own : Cardinality(o[k]) < n + 1 - MaxPerSession}
  BY <1>1 DEF SessionOverflow, FirstElements, Length
<1>3. IsList(g) /\ DOMAIN g = DOMAIN store.entries /\ own \subseteq DOMAIN g
  BY DEF WellFormed, OwnKeys
<1>4. IsFiniteSet(own) /\ n \in Nat
  BY <1>3, FS_Subset, FS_CardinalityType DEF IsList
<1>5. MaxPerSession \in Nat /\ MaxPerSession > 0
  BY PendingStatesAssumption
<1>6. \A k \in own : IsFiniteSet(o[k]) /\ Cardinality(o[k]) \in Nat
  BY <1>1, <1>4, FS_Subset, FS_CardinalityType
<1> HIDE DEF X, own, o, g
<1>7. CASE n < MaxPerSession
  <2>1. X = {}
    BY <1>2, <1>4, <1>5, <1>6, <1>7
  <2>2. own \ X = own
    BY <2>1
  <2> QED BY <1>4, <1>7, <2>1, <2>2 DEF X, own
<1>8. CASE n = MaxPerSession
  <2>1. X = {k \in own : o[k] = {}}
    <3>1. \A k \in own : Cardinality(o[k]) < n + 1 - MaxPerSession <=> o[k] = {}
      BY <1>4, <1>5, <1>6, <1>8, FS_EmptySet
    <3> QED BY <1>2, <3>1
  <2>2. own # {}
    BY <1>4, <1>5, <1>8, FS_EmptySet
  <2>3. PICK f \in own : g[f] \cap own = {}
    BY <1>3, <2>2, FrontOfElements
  <2>4. \A k \in own : k = f \/ f \in g[k]
    BY <1>3, <2>3 DEF IsList
  <2>5. X = {f}
    BY <1>1, <2>1, <2>3, <2>4
  <2>6. IsFiniteSet(own \ X) /\ Cardinality(own \ X) = n - 1
    BY <1>4, <2>3, <2>5, FS_RemoveElement
  <2> QED BY <1>4, <1>5, <1>8, <2>3, <2>4, <2>5, <2>6 DEF X, own, g
<1> QED BY <1>4, <1>5, <1>7, <1>8 DEF own
-----------------------------------------------------------------------------
(* Whole calls.                                                            *)

\* A store that holds some of another's entries, with their expiry and order.
Thins(new, old) ==
  /\ WellFormed(new)
  /\ DOMAIN new.entries \subseteq DOMAIN old.entries
  /\ \A k \in DOMAIN new.entries :
       /\ new.entries[k] = old.entries[k]
       /\ new.globalOrder[k] \subseteq old.globalOrder[k]

\* A list is finite, so the map is.
LEMMA FinitelyManyPending ==
  ASSUME NEW s, WellFormed(s)
  PROVE  IsFiniteSet(DOMAIN s.entries)
  BY DEF WellFormed, IsList

\* Arithmetic on cardinalities: an element more than below the limit.
LEMMA OneMoreFits ==
  ASSUME NEW S, IsFiniteSet(S), NEW n \in Nat, Cardinality(S) < n, NEW x
  PROVE  Cardinality(S \cup {x}) <= n
<1>1. Cardinality(S) \in Nat
  BY FS_CardinalityType
<1>2. Cardinality(S \cup {x}) = IF x \in S THEN Cardinality(S) ELSE Cardinality(S) + 1
  BY FS_AddElement
<1> QED BY <1>1, <1>2

\* Arithmetic on cardinalities: an element less than the limit.
LEMMA OneLessIsBelow ==
  ASSUME NEW S, IsFiniteSet(S), NEW n \in Nat, Cardinality(S) <= n, NEW x \in S
  PROVE  Cardinality(S \ {x}) < n
<1>1. Cardinality(S) \in Nat
  BY FS_CardinalityType
<1>2. Cardinality(S \ {x}) = Cardinality(S) - 1
  BY FS_RemoveElement
<1> QED BY <1>1, <1>2

\* remove only takes entries away.
LEMMA RemoveThins ==
  ASSUME NEW s, WellFormed(s), NEW X
  PROVE  Thins(Remove(s, X), s)
<1> DEFINE r == Remove(s, X)
<1>1. WellFormed(r)
  BY RemoveWellFormed
<1>2. DOMAIN r.entries = DOMAIN s.entries \ X
  BY RemoveWellFormed
<1>3. \A k \in DOMAIN s.entries \ X :
        /\ r.entries[k] = s.entries[k]
        /\ r.globalOrder[k] = s.globalOrder[k] \ X
  BY RemoveWellFormed
<1> HIDE DEF r
<1>4. Thins(r, s)
  BY <1>1, <1>2, <1>3 DEF Thins
<1> QED BY <1>4 DEF r

\* The three ways an add ends, in terms of removals and placements.
LEMMA AddOutcomes ==
  ASSUME NEW s, WellFormed(s), NEW key, NEW expires, NEW now
  PROVE  LET cleaned == Cleanup(s, now)
             overflow == SessionOverflow(cleaned, SessionOf(key))
             room == Remove(cleaned, overflow)
             a == Add(s, key, expires, now)
         IN /\ key \in DOMAIN cleaned.entries =>
                 /\ a.store = Placed(Remove(cleaned, {key}), key, expires)
                 /\ a.result = "added"
            /\ key \notin DOMAIN cleaned.entries /\ IsFull(room) =>
                 /\ a.store = room
                 /\ a.result = "atCapacity"
            /\ key \notin DOMAIN cleaned.entries /\ ~ IsFull(room) =>
                 /\ a.store = Placed(room, key, expires)
                 /\ a.result = IF overflow = {} THEN "added" ELSE "sessionEvicted"
<1> DEFINE me == SessionOf(key)
           cleaned == Cleanup(s, now)
           overflow == SessionOverflow(cleaned, me)
           room == Remove(cleaned, overflow)
           open == OpenSession(room, me)
           a == Add(s, key, expires, now)
<1>1. WellFormed(cleaned)
  BY RemoveWellFormed DEF Cleanup
<1>2. WellFormed(room)
  <2> HIDE DEF cleaned, overflow
  <2> QED BY <1>1, RemoveWellFormed
<1>3. IsFull(open) <=> IsFull(room)
  <2> HIDE DEF room
  <2>1. open.entries = room.entries
    BY <1>2, OpenSessionFields
  <2> QED BY <2>1 DEF IsFull
<1>4. a = IF key \in DOMAIN cleaned.entries
          THEN [store |-> Refresh(cleaned, key, expires), result |-> "added"]
          ELSE IF IsFull(open)
          THEN [store |-> Refuse(open, me), result |-> "atCapacity"]
          ELSE [store |-> Insert(open, key, expires),
                result |-> IF overflow = {} THEN "added" ELSE "sessionEvicted"]
  BY DEF Add
<1> HIDE DEF cleaned, overflow, a
<1>5. ASSUME key \in DOMAIN cleaned.entries
      PROVE  /\ a.store = Placed(Remove(cleaned, {key}), key, expires)
             /\ a.result = "added"
  <2>1. a = [store |-> Refresh(cleaned, key, expires), result |-> "added"]
    BY <1>4, <1>5
  <2>2. Refresh(cleaned, key, expires) = Placed(Remove(cleaned, {key}), key, expires)
    BY <1>1, <1>5, RefreshPlaces
  <2> QED BY <2>1, <2>2
<1> HIDE DEF room
<1>6. Refuse(open, me) = room
  BY <1>2, RefuseRestores
<1>7. Insert(open, key, expires) = Placed(room, key, expires)
  BY <1>2, InsertPlaces
<1> HIDE DEF open
<1>8. ASSUME key \notin DOMAIN cleaned.entries, IsFull(room)
      PROVE  a.store = room /\ a.result = "atCapacity"
  BY <1>3, <1>4, <1>6, <1>8
<1>9. ASSUME key \notin DOMAIN cleaned.entries, ~ IsFull(room)
      PROVE  /\ a.store = Placed(room, key, expires)
             /\ a.result = IF overflow = {} THEN "added" ELSE "sessionEvicted"
  BY <1>3, <1>4, <1>7, <1>9
<1> QED BY <1>5, <1>8, <1>9 DEF cleaned, overflow, room, a

\* cleanup takes its set away and leaves the rest as it was.
LEMMA CleanupFields ==
  ASSUME NEW s, WellFormed(s), NEW now
  PROVE  /\ WellFormed(Cleanup(s, now))
         /\ DOMAIN Cleanup(s, now).entries = DOMAIN s.entries \ CleanupSet(s, now)
         /\ \A k \in DOMAIN s.entries \ CleanupSet(s, now) :
              Cleanup(s, now).entries[k] = s.entries[k]
         /\ \A k \in CleanupSet(s, now) : k \in DOMAIN s.entries /\ s.entries[k] <= now
  BY RemoveWellFormed, CleanupRemovesExpired DEF Cleanup, Expired
=============================================================================
