---------------------- MODULE PendingStateStore_proofs ----------------------
(***************************************************************************)
(* The invariants, the action properties and the refinement of             *)
(* PendingStateStore, for every number of sessions, verifiers and entries, *)
(* every limit and every lag.                                              *)
(***************************************************************************)
EXTENDS PendingStateStore, PendingStates_proofs

\* The conjunction of the four invariants about a store value s at time c.
Good(s, c) ==
  /\ WellFormed(s)
  /\ DOMAIN s.entries \subseteq Keys
  /\ \A k \in DOMAIN s.entries : s.entries[k] \in TTL..(c + TTL)
  /\ Cardinality(DOMAIN s.entries) <= MaxEntries
  /\ \A x \in Sessions : Cardinality(OwnKeys(s, x)) <= MaxPerSession
  /\ \A k \in DOMAIN s.entries : \A j \in s.globalOrder[k] :
       s.entries[j] <= s.entries[k] + Lag

\* The inductive invariant.
StoreInv == TypeOK /\ OrdersAgree /\ Bounded /\ NearlySorted

StoreGood == Good(store, clock) /\ clock \in Nat /\ reply \in Replies

\* The four invariants, as facts about the store's value.
LEMMA StoreInvIsGood == StoreInv <=> StoreGood
<1>1. ASSUME OrdersAgree
      PROVE  store.entries = [k \in Pending |-> store.entries[k]]
  <2>1. store = [entries |-> [k \in DOMAIN store.entries |-> store.entries[k]],
                 globalOrder |-> store.globalOrder, sessionOrders |-> store.sessionOrders]
    BY <1>1 DEF OrdersAgree, WellFormed
  <2> QED BY <2>1 DEF Pending
<1> QED BY <1>1 DEF StoreInv, StoreGood, Good, TypeOK, OrdersAgree, Bounded, NearlySorted, Pending

\* Every part of the invariant survives the loss of entries.
LEMMA ThinnedIsGood ==
  ASSUME NEW c \in Nat, NEW old, Good(old, c), NEW new, Thins(new, old)
  PROVE  Good(new, c)
<1>1. /\ WellFormed(new)
      /\ DOMAIN new.entries \subseteq DOMAIN old.entries
      /\ \A k \in DOMAIN new.entries : new.entries[k] = old.entries[k]
      /\ \A k \in DOMAIN new.entries : new.globalOrder[k] \subseteq old.globalOrder[k]
  BY DEF Thins
<1>2. IsFiniteSet(DOMAIN old.entries)
  BY FinitelyManyPending DEF Good
<1>3. Cardinality(DOMAIN new.entries) <= MaxEntries
  <2>1. /\ Cardinality(DOMAIN new.entries) <= Cardinality(DOMAIN old.entries)
        /\ Cardinality(DOMAIN new.entries) \in Nat
        /\ Cardinality(DOMAIN old.entries) \in Nat
    BY <1>1, <1>2, FS_Subset, FS_CardinalityType
  <2> QED BY <2>1, PendingStatesAssumption DEF Good
<1>4. ASSUME NEW x \in Sessions
      PROVE  Cardinality(OwnKeys(new, x)) <= MaxPerSession
  <2>1. OwnKeys(new, x) \subseteq OwnKeys(old, x) /\ OwnKeys(old, x) \subseteq DOMAIN old.entries
    BY <1>1 DEF OwnKeys
  <2>2. IsFiniteSet(OwnKeys(old, x))
    BY <1>2, <2>1, FS_Subset
  <2>3. /\ Cardinality(OwnKeys(new, x)) <= Cardinality(OwnKeys(old, x))
        /\ Cardinality(OwnKeys(new, x)) \in Nat
        /\ Cardinality(OwnKeys(old, x)) \in Nat
    BY <2>1, <2>2, FS_Subset, FS_CardinalityType
  <2> QED BY <2>3, PendingStatesAssumption DEF Good
<1>5. \A k \in DOMAIN new.entries : new.globalOrder[k] \subseteq DOMAIN new.entries
  BY <1>1 DEF WellFormed, IsList
<1>6. ASSUME NEW k \in DOMAIN new.entries, NEW j \in new.globalOrder[k]
      PROVE  new.entries[j] <= new.entries[k] + Lag
  <2>1. j \in DOMAIN new.entries /\ j \in old.globalOrder[k] /\ k \in DOMAIN old.entries
    BY <1>1, <1>5, <1>6
  <2> QED BY <1>1, <2>1 DEF Good
<1> QED BY <1>1, <1>3, <1>4, <1>6 DEF Good

\* Placing a new key keeps the invariant where there is room for it.  The key
\* goes behind entries that a later reading of the clock may have dated, but
\* that reading is at most Lag after this one.
LEMMA PlacedIsGood ==
  ASSUME NEW c \in Nat, NEW s, Good(s, c),
         NEW key \in Keys, key \notin DOMAIN s.entries,
         NEW now \in Nat, now <= c, c <= now + Lag,
         Cardinality(DOMAIN s.entries) < MaxEntries,
         Cardinality(OwnKeys(s, SessionOf(key))) < MaxPerSession
  PROVE  Good(Placed(s, key, now + TTL), c)
<1> DEFINE p == Placed(s, key, now + TTL)
           E == DOMAIN s.entries
<1>0. WellFormed(s) /\ IsFiniteSet(E)
  BY FinitelyManyPending DEF Good
<1>1. /\ WellFormed(p)
      /\ DOMAIN p.entries = E \cup {key}
      /\ p.entries[key] = now + TTL
      /\ p.globalOrder[key] = E
      /\ \A k \in E : p.entries[k] = s.entries[k] /\ p.globalOrder[k] = s.globalOrder[k]
  BY <1>0, PlacedWellFormed
<1> HIDE DEF p
<1>2. TTL \in Nat /\ Lag \in Nat
  BY PendingStateStoreAssumption
<1>3. \A k \in DOMAIN p.entries : p.entries[k] \in TTL..(c + TTL)
  BY <1>1, <1>2 DEF Good
<1>4. Cardinality(DOMAIN p.entries) <= MaxEntries
  <2>1. Cardinality(E \cup {key}) <= MaxEntries
    BY <1>0, OneMoreFits, PendingStatesAssumption
  <2> QED BY <1>1, <2>1
<1>5. ASSUME NEW x \in Sessions
      PROVE  Cardinality(OwnKeys(p, x)) <= MaxPerSession
  <2>1. CASE x = SessionOf(key)
    <3>1. OwnKeys(p, x) = OwnKeys(s, x) \cup {key} /\ OwnKeys(s, x) \subseteq E
      BY <1>1, <2>1 DEF OwnKeys
    <3>2. IsFiniteSet(OwnKeys(s, x))
      BY <1>0, <3>1, FS_Subset
    <3>3. Cardinality(OwnKeys(s, x) \cup {key}) <= MaxPerSession
      BY <2>1, <3>2, OneMoreFits, PendingStatesAssumption
    <3> QED BY <3>1, <3>3
  <2>2. CASE x # SessionOf(key)
    <3>1. OwnKeys(p, x) = OwnKeys(s, x)
      BY <1>1, <2>2 DEF OwnKeys
    <3> QED BY <3>1 DEF Good
  <2> QED BY <2>1, <2>2
<1>6. ASSUME NEW k \in DOMAIN p.entries, NEW j \in p.globalOrder[k]
      PROVE  p.entries[j] <= p.entries[k] + Lag
  <2>1. CASE k = key
    <3>1. j \in E /\ p.entries[j] = s.entries[j] /\ s.entries[j] \in TTL..(c + TTL)
      BY <1>1, <1>6, <2>1 DEF Good
    <3> QED BY <1>1, <1>2, <2>1, <3>1
  <2>2. CASE k # key
    <3>1. k \in E /\ j \in s.globalOrder[k]
      BY <1>1, <1>6, <2>2
    <3>2. j \in E
      BY <3>1 DEF Good, WellFormed, IsList
    <3> QED BY <1>1, <3>1, <3>2 DEF Good
  <2> QED BY <2>1, <2>2
<1>7. DOMAIN p.entries \subseteq Keys
  BY <1>1 DEF Good
<1>8. Good(p, c)
  BY <1>1, <1>3, <1>4, <1>5, <1>6, <1>7 DEF Good
<1> QED BY <1>8 DEF p

\* A key's session is one of the sessions.
LEMMA SessionOfKey ==
  ASSUME NEW key \in Keys
  PROVE  SessionOf(key) \in Sessions
  BY DEF Keys, pendingStateKey, SessionOf

\* After the eviction of an add the session is below its limit, and the store
\* is still good.
LEMMA EvictedIsGood ==
  ASSUME NEW c \in Nat, NEW s, Good(s, c), NEW key \in Keys
  PROVE  LET room == Remove(s, SessionOverflow(s, SessionOf(key)))
         IN /\ Good(room, c)
            /\ Thins(room, s)
            /\ Cardinality(OwnKeys(room, SessionOf(key))) < MaxPerSession
<1> DEFINE me == SessionOf(key)
           X == SessionOverflow(s, me)
           room == Remove(s, X)
<1>1. WellFormed(s) /\ Cardinality(OwnKeys(s, me)) <= MaxPerSession
  BY SessionOfKey DEF Good
<1>2. Cardinality(OwnKeys(s, me) \ X) < MaxPerSession
  BY <1>1, EvictionMakesRoom
<1> HIDE DEF X
<1>3. Thins(room, s)
  BY <1>1, RemoveThins
<1>4. Good(room, c)
  BY <1>3, ThinnedIsGood
<1>5. DOMAIN room.entries = DOMAIN s.entries \ X
  BY <1>1, RemoveWellFormed
<1>6. OwnKeys(room, me) = OwnKeys(s, me) \ X
  BY <1>5 DEF OwnKeys
<1> QED BY <1>2, <1>3, <1>4, <1>6 DEF X

\* Without the key there is room to place it again.
LEMMA RemovedLeavesRoom ==
  ASSUME NEW c \in Nat, NEW s, Good(s, c), NEW key \in Keys, key \in DOMAIN s.entries
  PROVE  LET r == Remove(s, {key})
         IN /\ Good(r, c)
            /\ key \notin DOMAIN r.entries
            /\ Cardinality(DOMAIN r.entries) < MaxEntries
            /\ Cardinality(OwnKeys(r, SessionOf(key))) < MaxPerSession
<1> DEFINE r == Remove(s, {key})
           me == SessionOf(key)
<1>1. WellFormed(s) /\ IsFiniteSet(DOMAIN s.entries)
  BY FinitelyManyPending DEF Good
<1>2. Thins(r, s)
  BY <1>1, RemoveThins
<1>3. DOMAIN r.entries = DOMAIN s.entries \ {key}
  BY <1>1, RemoveWellFormed
<1> HIDE DEF r
<1>4. Good(r, c)
  BY <1>2, ThinnedIsGood
<1>5. Cardinality(DOMAIN r.entries) < MaxEntries
  <2>1. MaxEntries \in Nat /\ Cardinality(DOMAIN s.entries) <= MaxEntries
    BY PendingStatesAssumption DEF Good
  <2>2. Cardinality(DOMAIN s.entries \ {key}) < MaxEntries
    BY <1>1, <2>1, OneLessIsBelow
  <2> QED BY <1>3, <2>2
<1>6. Cardinality(OwnKeys(r, me)) < MaxPerSession
  <2>1. OwnKeys(r, me) = OwnKeys(s, me) \ {key} /\ key \in OwnKeys(s, me)
    BY <1>3 DEF OwnKeys
  <2>2. IsFiniteSet(OwnKeys(s, me))
    BY <1>1, FS_Subset DEF OwnKeys
  <2>3. Cardinality(OwnKeys(s, me)) <= MaxPerSession
    BY SessionOfKey DEF Good
  <2> HIDE DEF me
  <2>4. Cardinality(OwnKeys(s, me) \ {key}) < MaxPerSession
    BY <2>1, <2>2, <2>3, OneLessIsBelow, PendingStatesAssumption
  <2> QED BY <2>1, <2>4
<1> QED BY <1>3, <1>4, <1>5, <1>6 DEF r

\* cleanup keeps the invariants and only takes entries away.
LEMMA CleanupIsGood ==
  ASSUME NEW c \in Nat, NEW s, Good(s, c), NEW now
  PROVE  Good(Cleanup(s, now), c) /\ Thins(Cleanup(s, now), s)
  BY RemoveThins, ThinnedIsGood DEF Cleanup, Good

\* add keeps the invariants on each of its paths.
LEMMA AddKeepsGood ==
  ASSUME NEW c \in Nat, NEW s, Good(s, c), NEW key \in Keys,
         NEW now \in Nat, now <= c, c <= now + Lag
  PROVE  /\ Good(Add(s, key, now + TTL, now).store, c)
         /\ Add(s, key, now + TTL, now).result \in AddResults
<1> DEFINE cleaned == Cleanup(s, now)
           overflow == SessionOverflow(cleaned, SessionOf(key))
           room == Remove(cleaned, overflow)
           a == Add(s, key, now + TTL, now)
<1>1. Good(cleaned, c)
  BY CleanupIsGood
<1>2. /\ Good(room, c)
      /\ Thins(room, cleaned)
      /\ Cardinality(OwnKeys(room, SessionOf(key))) < MaxPerSession
  <2> HIDE DEF cleaned
  <2> QED BY <1>1, EvictedIsGood
<1>3. /\ key \in DOMAIN cleaned.entries =>
           a.store = Placed(Remove(cleaned, {key}), key, now + TTL) /\ a.result = "added"
      /\ key \notin DOMAIN cleaned.entries /\ IsFull(room) =>
           a.store = room /\ a.result = "atCapacity"
      /\ key \notin DOMAIN cleaned.entries /\ ~ IsFull(room) =>
           /\ a.store = Placed(room, key, now + TTL)
           /\ a.result = IF overflow = {} THEN "added" ELSE "sessionEvicted"
  BY AddOutcomes DEF Good
<1> HIDE DEF cleaned, overflow, room, a
<1>4. CASE key \in DOMAIN cleaned.entries
  <2> DEFINE r == Remove(cleaned, {key})
  <2>1. a.store = Placed(r, key, now + TTL) /\ a.result = "added"
    BY <1>3, <1>4
  <2>2. /\ Good(r, c)
        /\ key \notin DOMAIN r.entries
        /\ Cardinality(DOMAIN r.entries) < MaxEntries
        /\ Cardinality(OwnKeys(r, SessionOf(key))) < MaxPerSession
    BY <1>1, <1>4, RemovedLeavesRoom
  <2> HIDE DEF r
  <2>3. Good(Placed(r, key, now + TTL), c)
    BY <2>2, PlacedIsGood
  <2> QED BY <2>1, <2>3 DEF AddResults, a
<1>5. CASE key \notin DOMAIN cleaned.entries /\ IsFull(room)
  <2>1. a.store = room /\ a.result = "atCapacity"
    BY <1>3, <1>5
  <2> QED BY <1>2, <2>1 DEF AddResults, a
<1>6. CASE key \notin DOMAIN cleaned.entries /\ ~ IsFull(room)
  <2>1. /\ a.store = Placed(room, key, now + TTL)
        /\ a.result = IF overflow = {} THEN "added" ELSE "sessionEvicted"
    BY <1>3, <1>6
  <2>2. key \notin DOMAIN room.entries
    BY <1>2, <1>6 DEF Thins
  <2>3. Cardinality(DOMAIN room.entries) < MaxEntries
    <3>1. Cardinality(DOMAIN room.entries) \in Nat
      BY <1>2, FinitelyManyPending, FS_CardinalityType DEF Good
    <3> QED BY <1>6, <3>1, PendingStatesAssumption DEF IsFull
  <2>4. Good(Placed(room, key, now + TTL), c)
    BY <1>2, <2>2, <2>3, PlacedIsGood
  <2> QED BY <2>1, <2>4 DEF AddResults, a
<1> QED BY <1>4, <1>5, <1>6

\* consume keeps the invariants and only takes entries away.
LEMMA ConsumeKeepsGood ==
  ASSUME NEW c \in Nat, NEW s, Good(s, c), NEW key, NEW now
  PROVE  /\ Good(Consume(s, key, now).store, c)
         /\ Thins(Consume(s, key, now).store, s)
         /\ Consume(s, key, now).result \in BOOLEAN
<1> DEFINE cleaned == Cleanup(s, now)
<1>1. Good(cleaned, c) /\ Thins(cleaned, s)
  BY CleanupIsGood
<1>2. /\ Consume(s, key, now).store = IF key \in DOMAIN cleaned.entries
                                      THEN Remove(cleaned, {key}) ELSE cleaned
      /\ Consume(s, key, now).result \in BOOLEAN
  BY DEF Consume
<1> HIDE DEF cleaned
<1>3. Good(Remove(cleaned, {key}), c) /\ Thins(Remove(cleaned, {key}), cleaned)
  BY <1>1, RemoveThins, ThinnedIsGood DEF Good
<1>4. Thins(Remove(cleaned, {key}), s)
  <2> DEFINE r == Remove(cleaned, {key})
  <2> HIDE DEF r
  <2> QED BY <1>1, <1>3 DEF Thins, r
<1> QED BY <1>1, <1>2, <1>3, <1>4

\* TypeOK, OrdersAgree, Bounded and NearlySorted hold in every state.
THEOREM StoreInvariant == Spec => []StoreInv
<1>0. StoreInv' <=> Good(store', clock') /\ clock' \in Nat /\ reply' \in Replies
  <2>1. StoreInv' <=> StoreGood'
    BY StoreInvIsGood, PTL
  <2> QED BY <2>1 DEF StoreGood
<1>1. Init => StoreInv
  <2> SUFFICES ASSUME Init PROVE Good(store, clock) /\ clock \in Nat /\ reply \in Replies
    BY StoreInvIsGood DEF StoreGood
  <2>1. WellFormed(store) /\ DOMAIN store.entries = {}
    BY NewStoreWellFormed DEF Init
  <2>2. \A x \in Sessions : OwnKeys(store, x) = {}
    BY <2>1 DEF OwnKeys
  <2>3. Good(store, clock)
    BY <2>1, <2>2, FS_EmptySet, PendingStatesAssumption DEF Good
  <2> QED BY <2>3 DEF Init, Replies
<1>2. StoreInv /\ [Next]_vars => StoreInv'
  <2> SUFFICES ASSUME StoreInv, [Next]_vars
               PROVE  StoreInv'
    OBVIOUS
  <2>0. Good(store, clock) /\ clock \in Nat /\ reply \in Replies
    BY StoreInvIsGood DEF StoreGood
  <2>1. SUFFICES Good(store', clock') /\ clock' \in Nat /\ reply' \in Replies
    BY <1>0
  <2>2. CASE Tick
    <3>1. store' = store /\ reply' = reply /\ clock' = clock + 1
      BY <2>2 DEF Tick
    <3>2. \A k \in DOMAIN store.entries : store.entries[k] \in TTL..(clock + 1 + TTL)
      BY <2>0, PendingStateStoreAssumption DEF Good
    <3>3. Good(store, clock + 1)
      BY <2>0, <3>2 DEF Good
    <3> QED BY <2>0, <3>1, <3>3
  <2>3. ASSUME NEW key \in Keys, NEW now \in Readings, AddState(key, now)
        PROVE  Good(store', clock') /\ clock' \in Nat /\ reply' \in Replies
    <3>1. now \in Nat /\ now <= clock /\ clock <= now + Lag
      BY <2>0, PendingStateStoreAssumption DEF Readings
    <3>2. /\ store' = Add(store, key, now + TTL, now).store
          /\ reply' = [call |-> "add", key |-> key, now |-> now,
                       result |-> Add(store, key, now + TTL, now).result]
          /\ clock' = clock
      BY <2>3 DEF AddState, Return
    <3>3. /\ Good(Add(store, key, now + TTL, now).store, clock)
          /\ Add(store, key, now + TTL, now).result \in AddResults
      BY <2>0, <3>1, AddKeepsGood
    <3> QED BY <2>0, <3>1, <3>2, <3>3 DEF Replies
  <2>4. ASSUME NEW key \in Keys, NEW now \in Readings, ConsumeState(key, now)
        PROVE  Good(store', clock') /\ clock' \in Nat /\ reply' \in Replies
    <3>1. now \in Nat
      BY <2>0, PendingStateStoreAssumption DEF Readings
    <3>2. /\ store' = Consume(store, key, now).store
          /\ reply' = [call |-> "consume", key |-> key, now |-> now,
                       result |-> Consume(store, key, now).result]
          /\ clock' = clock
      BY <2>4 DEF ConsumeState, Return
    <3>3. /\ Good(Consume(store, key, now).store, clock)
          /\ Consume(store, key, now).result \in BOOLEAN
      BY <2>0, ConsumeKeepsGood
    <3> QED BY <2>0, <3>1, <3>2, <3>3 DEF Replies
  <2>5. CASE UNCHANGED vars
    BY <2>0, <2>5 DEF vars
  <2> QED BY <2>2, <2>3, <2>4, <2>5 DEF Next
<1> QED BY <1>1, <1>2, PTL DEF Spec

-----------------------------------------------------------------------------
(* The invariants, one by one.                                             *)

\* The variables have their types, for all constants.
THEOREM StoreTypes == Spec => []TypeOK
<1>1. StoreInv => TypeOK  BY DEF StoreInv
<1> QED  BY <1>1, StoreInvariant, PTL

\* The map and the lists agree after any sequence of calls.
THEOREM StoreOrdersAgree == Spec => []OrdersAgree
<1>1. StoreInv => OrdersAgree  BY DEF StoreInv
<1> QED  BY <1>1, StoreInvariant, PTL

\* The limits hold after any sequence of calls.
THEOREM StoreBounded == Spec => []Bounded
<1>1. StoreInv => Bounded  BY DEF StoreInv
<1> QED  BY <1>1, StoreInvariant, PTL

\* Expiry times are out of order by no more than the clock readings are.
THEOREM StoreNearlySorted == Spec => []NearlySorted
<1>1. StoreInv => NearlySorted  BY DEF StoreInv
<1> QED  BY <1>1, StoreInvariant, PTL

-----------------------------------------------------------------------------
(* What one call does to the entries.                                      *)

\* A call for key at the time now that turns the store old into new: entries are
\* lost to their expiry or to their own session, and those that remain are the
\* key's, with a new expiry, or were left by the cleanup.
Effect(new, old, key, now) ==
  /\ \A k \in DOMAIN old.entries \ DOMAIN new.entries :
       old.entries[k] <= now \/ SessionOf(k) = SessionOf(key)
  /\ \A k \in DOMAIN new.entries :
       \/ k = key /\ new.entries[k] = now + TTL
       \/ /\ k \in DOMAIN old.entries \ CleanupSet(old, now)
          /\ new.entries[k] = old.entries[k]

\* The effect of add.
LEMMA AddEffect ==
  ASSUME NEW c \in Nat, NEW s, Good(s, c), NEW key \in Keys, NEW now \in Nat
  PROVE  Effect(Add(s, key, now + TTL, now).store, s, key, now)
<1> DEFINE C == CleanupSet(s, now)
           E == DOMAIN s.entries
           cleaned == Cleanup(s, now)
           overflow == SessionOverflow(cleaned, SessionOf(key))
           room == Remove(cleaned, overflow)
           a == Add(s, key, now + TTL, now)
<1>1. /\ WellFormed(cleaned)
      /\ DOMAIN cleaned.entries = E \ C
      /\ \A k \in E \ C : cleaned.entries[k] = s.entries[k]
      /\ \A k \in C : k \in E /\ s.entries[k] <= now
  BY CleanupFields DEF Good
<1>2. overflow \subseteq OwnKeys(cleaned, SessionOf(key))
  <2>1. Good(cleaned, c)
    BY CleanupIsGood
  <2> HIDE DEF cleaned
  <2>2. Cardinality(OwnKeys(cleaned, SessionOf(key))) <= MaxPerSession
    BY <2>1, SessionOfKey DEF Good
  <2> QED BY <1>1, <2>2, EvictionMakesRoom
<1>3. /\ key \in DOMAIN cleaned.entries =>
           a.store = Placed(Remove(cleaned, {key}), key, now + TTL)
      /\ key \notin DOMAIN cleaned.entries /\ IsFull(room) => a.store = room
      /\ key \notin DOMAIN cleaned.entries /\ ~ IsFull(room) =>
           a.store = Placed(room, key, now + TTL)
  <2>1. WellFormed(s)
    BY DEF Good
  <2>2. /\ key \in DOMAIN cleaned.entries =>
             /\ a.store = Placed(Remove(cleaned, {key}), key, now + TTL)
             /\ a.result = "added"
        /\ key \notin DOMAIN cleaned.entries /\ IsFull(room) =>
             /\ a.store = room
             /\ a.result = "atCapacity"
        /\ key \notin DOMAIN cleaned.entries /\ ~ IsFull(room) =>
             /\ a.store = Placed(room, key, now + TTL)
             /\ a.result = IF overflow = {} THEN "added" ELSE "sessionEvicted"
    BY <2>1, AddOutcomes
  <2> HIDE DEF cleaned, overflow, room, a
  <2> QED BY <2>2
<1> HIDE DEF C, cleaned, overflow, a
<1>4. /\ WellFormed(room)
      /\ DOMAIN room.entries = (E \ C) \ overflow
      /\ \A k \in DOMAIN room.entries : room.entries[k] = s.entries[k]
      /\ \A k \in overflow : SessionOf(k) = SessionOf(key)
  <2>1. /\ WellFormed(room)
        /\ DOMAIN room.entries = DOMAIN cleaned.entries \ overflow
        /\ \A k \in DOMAIN cleaned.entries \ overflow : room.entries[k] = cleaned.entries[k]
    BY <1>1, RemoveWellFormed
  <2> HIDE DEF room
  <2> QED BY <1>1, <1>2, <2>1 DEF OwnKeys
<1> HIDE DEF room
<1>5. CASE key \in DOMAIN cleaned.entries
  <2> DEFINE r == Remove(cleaned, {key})
             p == Placed(r, key, now + TTL)
  <2>1. /\ WellFormed(r)
        /\ DOMAIN r.entries = DOMAIN cleaned.entries \ {key}
        /\ \A k \in DOMAIN cleaned.entries \ {key} : r.entries[k] = cleaned.entries[k]
    BY <1>1, RemoveWellFormed
  <2> HIDE DEF r
  <2>2. /\ DOMAIN p.entries = DOMAIN r.entries \cup {key}
        /\ p.entries[key] = now + TTL
        /\ \A k \in DOMAIN r.entries : p.entries[k] = r.entries[k]
    BY <2>1, PlacedWellFormed
  <2>3. a.store = p
    BY <1>3, <1>5 DEF r
  <2> HIDE DEF p
  <2>4. Effect(p, s, key, now)
    BY <1>1, <1>5, <2>1, <2>2 DEF Effect, C
  <2> QED BY <2>3, <2>4 DEF a
<1>6. CASE key \notin DOMAIN cleaned.entries /\ IsFull(room)
  <2>1. a.store = room
    BY <1>3, <1>6
  <2>2. Effect(room, s, key, now)
    BY <1>1, <1>4 DEF Effect, C
  <2> QED BY <2>1, <2>2 DEF a
<1>7. CASE key \notin DOMAIN cleaned.entries /\ ~ IsFull(room)
  <2> DEFINE p == Placed(room, key, now + TTL)
  <2>1. key \notin DOMAIN room.entries
    BY <1>1, <1>4, <1>7
  <2>2. /\ DOMAIN p.entries = DOMAIN room.entries \cup {key}
        /\ p.entries[key] = now + TTL
        /\ \A k \in DOMAIN room.entries : p.entries[k] = room.entries[k]
    BY <1>4, <2>1, PlacedWellFormed
  <2>3. a.store = p
    BY <1>3, <1>7
  <2> HIDE DEF p
  <2>4. Effect(p, s, key, now)
    BY <1>1, <1>4, <2>2 DEF Effect, C
  <2> QED BY <2>3, <2>4 DEF a
<1> QED BY <1>5, <1>6, <1>7

\* The effect of consume.
LEMMA ConsumeEffect ==
  ASSUME NEW c \in Nat, NEW s, Good(s, c), NEW key, NEW now
  PROVE  Effect(Consume(s, key, now).store, s, key, now)
<1> DEFINE C == CleanupSet(s, now)
           E == DOMAIN s.entries
           cleaned == Cleanup(s, now)
           r == Remove(cleaned, {key})
           a == Consume(s, key, now)
<1>1. /\ WellFormed(cleaned)
      /\ DOMAIN cleaned.entries = E \ C
      /\ \A k \in E \ C : cleaned.entries[k] = s.entries[k]
      /\ \A k \in C : k \in E /\ s.entries[k] <= now
  BY CleanupFields DEF Good
<1>2. a.store = cleaned \/ a.store = r
  BY DEF Consume
<1> HIDE DEF C, cleaned, a
<1>3. /\ DOMAIN r.entries = (E \ C) \ {key}
      /\ \A k \in DOMAIN r.entries : r.entries[k] = s.entries[k]
  <2>1. /\ DOMAIN r.entries = DOMAIN cleaned.entries \ {key}
        /\ \A k \in DOMAIN cleaned.entries \ {key} : r.entries[k] = cleaned.entries[k]
    BY <1>1, RemoveWellFormed
  <2> HIDE DEF r
  <2> QED BY <1>1, <2>1
<1> HIDE DEF r
<1>4. Effect(cleaned, s, key, now) /\ Effect(r, s, key, now)
  BY <1>1, <1>3 DEF Effect, C
<1> QED BY <1>2, <1>4 DEF a

-----------------------------------------------------------------------------
(* The action properties.                                                  *)

\* An add that is refused hands back the store it was given: a full store that
\* the cleanup or the eviction had touched would not be full any more.
LEMMA RefusedIsUnchanged ==
  ASSUME NEW c \in Nat, NEW s, Good(s, c), NEW key, NEW now, NEW expires,
         Add(s, key, expires, now).result = "atCapacity"
  PROVE  Add(s, key, expires, now).store = s
<1> DEFINE C == CleanupSet(s, now)
           E == DOMAIN s.entries
           cleaned == Cleanup(s, now)
           overflow == SessionOverflow(cleaned, SessionOf(key))
           room == Remove(cleaned, overflow)
           a == Add(s, key, expires, now)
<1>1. WellFormed(s) /\ IsFiniteSet(E) /\ Cardinality(E) <= MaxEntries
  BY FinitelyManyPending DEF Good
<1>2. IsFull(room) /\ a.store = room
  <2>1. /\ key \in DOMAIN cleaned.entries =>
             /\ a.store = Placed(Remove(cleaned, {key}), key, expires)
             /\ a.result = "added"
        /\ key \notin DOMAIN cleaned.entries /\ IsFull(room) =>
             /\ a.store = room
             /\ a.result = "atCapacity"
        /\ key \notin DOMAIN cleaned.entries /\ ~ IsFull(room) =>
             /\ a.store = Placed(room, key, expires)
             /\ a.result = IF overflow = {} THEN "added" ELSE "sessionEvicted"
    BY <1>1, AddOutcomes
  <2>2. a.result = "atCapacity"
    OBVIOUS
  <2> HIDE DEF cleaned, overflow, room, a
  <2> QED BY <2>1, <2>2
<1>3. WellFormed(cleaned) /\ DOMAIN cleaned.entries = E \ C
  BY <1>1, CleanupFields
<1>4. DOMAIN room.entries = (E \ C) \ overflow
  <2> HIDE DEF cleaned, overflow
  <2> QED BY <1>3, RemoveWellFormed
<1>5. (E \ C) \ overflow = E
  <2> DEFINE R == (E \ C) \ overflow
  <2>1. Cardinality(R) >= MaxEntries
    BY <1>2, <1>4 DEF IsFull
  <2> HIDE DEF C, overflow, E
  <2>2. R \subseteq E
    OBVIOUS
  <2> HIDE DEF R
  <2>3. /\ IsFiniteSet(R) /\ Cardinality(R) <= Cardinality(E)
        /\ Cardinality(R) = Cardinality(E) => R = E
        /\ Cardinality(R) \in Nat /\ Cardinality(E) \in Nat
    BY <1>1, <2>2, FS_Subset, FS_CardinalityType
  <2>4. R = E
    BY <1>1, <2>1, <2>3, PendingStatesAssumption
  <2> QED BY <2>4 DEF R
<1>6. cleaned = s
  <2>1. E \cap C = {}
    BY <1>5
  <2> QED BY <1>1, <2>1, RemoveNothing DEF Cleanup
<1> HIDE DEF cleaned, overflow
<1>7. room = s
  <2>1. E \cap overflow = {}
    BY <1>5
  <2> QED BY <1>1, <1>6, <2>1, RemoveNothing
<1> QED BY <1>2, <1>7

\* What a call leaves behind, when its cleanup did not use up its batch, has not
\* expired by more than Lag.
LEMMA LittleResidue ==
  ASSUME NEW c \in Nat, NEW s, Good(s, c), NEW key, NEW now \in Nat,
         NEW new, Effect(new, s, key, now)
  PROVE  LET removed == {k \in DOMAIN s.entries :
                           /\ s.entries[k] <= now
                           /\ k \in DOMAIN new.entries => new.entries[k] # s.entries[k]}
         IN \/ Cardinality(removed) >= CleanupBatch
            \/ \A k \in DOMAIN new.entries : new.entries[k] > now - Lag
<1> DEFINE C == CleanupSet(s, now)
           E == DOMAIN s.entries
           removed == {k \in E : /\ s.entries[k] <= now
                                 /\ k \in DOMAIN new.entries => new.entries[k] # s.entries[k]}
<1>1. WellFormed(s) /\ IsFiniteSet(E)
  BY FinitelyManyPending DEF Good
<1>2. \A k \in E : s.entries[k] \in Nat
  BY PendingStateStoreAssumption DEF Good
<1>3. TTL \in Nat \ {0} /\ Lag \in Nat /\ CleanupBatch \in Nat
  BY PendingStateStoreAssumption, PendingStatesAssumption
<1>4. \A k \in C : k \in E /\ s.entries[k] <= now
  BY <1>1, CleanupFields
<1>5. \A k \in DOMAIN new.entries :
        \/ k = key /\ new.entries[k] = now + TTL
        \/ k \in E \ C /\ new.entries[k] = s.entries[k]
  BY DEF Effect
<1>6. ASSUME Cardinality(C) < CleanupBatch, E \ C # {}
      PROVE  \E f \in E \ C : /\ ~ (s.entries[f] <= now)
                              /\ \A k \in E \ C : k = f \/ f \in s.globalOrder[k]
  BY <1>1, <1>6, CleanupStops DEF Expired
<1>7. \A k \in E : \A j \in s.globalOrder[k] : s.entries[j] <= s.entries[k] + Lag
  BY DEF Good
<1> HIDE DEF C
<1>8. C \subseteq removed
  BY <1>2, <1>3, <1>4, <1>5
<1>9. Cardinality(C) <= Cardinality(removed) /\ Cardinality(C) \in Nat /\ Cardinality(removed) \in Nat
  <2>1. removed \subseteq E
    OBVIOUS
  <2> HIDE DEF removed, E
  <2>2. IsFiniteSet(removed)
    BY <1>1, <2>1, FS_Subset
  <2> QED BY <1>8, <2>2, FS_Subset, FS_CardinalityType
<1>10. ASSUME Cardinality(C) < CleanupBatch, NEW k \in DOMAIN new.entries
       PROVE  new.entries[k] > now - Lag
  <2>1. CASE k = key /\ new.entries[k] = now + TTL
    BY <1>3, <2>1
  <2>2. CASE k \in E \ C /\ new.entries[k] = s.entries[k]
    <3>1. PICK f \in E \ C : /\ ~ (s.entries[f] <= now)
                             /\ \A i \in E \ C : i = f \/ f \in s.globalOrder[i]
      BY <1>6, <1>10, <2>2
    <3>2. s.entries[f] \in Nat /\ s.entries[k] \in Nat /\ s.entries[f] <= s.entries[k] + Lag
      BY <1>2, <1>3, <1>7, <2>2, <3>1
    <3> QED BY <1>3, <2>2, <3>1, <3>2
  <2> QED BY <1>5, <1>10, <2>1, <2>2
<1> HIDE DEF removed
<1>11. Cardinality(removed) >= CleanupBatch \/ \A k \in DOMAIN new.entries : new.entries[k] > now - Lag
  BY <1>3, <1>9, <1>10
<1> QED BY <1>11 DEF removed

\* Every step is one of the clock, or a call with the effect above.
LEMMA StepHasEffect ==
  ASSUME StoreInv, [Next]_vars
  PROVE  \/ clock' = clock + 1 /\ store' = store /\ reply' = reply
         \/ UNCHANGED vars
         \/ /\ Good(store, clock) /\ clock \in Nat
            /\ reply'.now \in Nat
            /\ Effect(store', store, reply'.key, reply'.now)
            /\ reply'.call = "add" /\ reply'.result = "atCapacity" => store' = store
<1>0. Good(store, clock) /\ clock \in Nat
  BY StoreInvIsGood DEF StoreGood
<1>1. CASE Tick
  BY <1>1 DEF Tick
<1>2. ASSUME NEW key \in Keys, NEW now \in Readings, AddState(key, now)
      PROVE  /\ reply'.now \in Nat
             /\ Effect(store', store, reply'.key, reply'.now)
             /\ reply'.call = "add" /\ reply'.result = "atCapacity" => store' = store
  <2>1. now \in Nat
    BY <1>0, PendingStateStoreAssumption DEF Readings
  <2> DEFINE a == Add(store, key, now + TTL, now)
  <2>2. store' = a.store /\ reply' = [call |-> "add", key |-> key, now |-> now, result |-> a.result]
    BY <1>2 DEF AddState, Return
  <2>3. Effect(a.store, store, key, now)
    BY <1>0, <2>1, AddEffect
  <2>4. a.result = "atCapacity" => a.store = store
    BY <1>0, RefusedIsUnchanged
  <2> HIDE DEF a
  <2>5. reply'.key = key /\ reply'.now = now /\ reply'.result = a.result
    BY <2>2
  <2> QED BY <2>1, <2>2, <2>3, <2>4, <2>5
<1>3. ASSUME NEW key \in Keys, NEW now \in Readings, ConsumeState(key, now)
      PROVE  /\ reply'.now \in Nat
             /\ Effect(store', store, reply'.key, reply'.now)
             /\ reply'.call # "add"
  <2>1. now \in Nat
    BY <1>0, PendingStateStoreAssumption DEF Readings
  <2> DEFINE a == Consume(store, key, now)
  <2>2. store' = a.store /\ reply' = [call |-> "consume", key |-> key, now |-> now, result |-> a.result]
    BY <1>3 DEF ConsumeState, Return
  <2>3. Effect(a.store, store, key, now)
    BY <1>0, ConsumeEffect
  <2> HIDE DEF a
  <2>4. reply'.key = key /\ reply'.now = now /\ reply'.call = "consume"
    BY <2>2
  <2> QED BY <2>1, <2>2, <2>3, <2>4
<1> QED BY <1>0, <1>1, <1>2, <1>3 DEF Next

\* A refusal at capacity changes nothing, whatever the call did on its way there.
THEOREM StoreRefusalsAreFree == Spec => RefusalIsFree
<1>1. StoreInv /\ [Next]_vars =>
        [reply'.call = "add" /\ reply'.result = "atCapacity" => UNCHANGED store]_vars
  BY StepHasEffect
<1> QED BY <1>1, StoreInvariant, PTL DEF Spec, RefusalIsFree

\* A call for one session loses another session only what has expired.
THEOREM StoreLeavesOthers == Spec => OthersUntouched
<1>1. StoreInv /\ [Next]_vars =>
        [\A k \in Pending \ Pending' :
           \/ store.entries[k] <= reply'.now
           \/ SessionOf(k) = SessionOf(reply'.key)]_vars
  BY StepHasEffect DEF Pending, Effect, vars
<1> QED BY <1>1, StoreInvariant, PTL DEF Spec, OthersUntouched

\* Expired entries do not pile up behind one that has not.
THEOREM StoreResidueIsRecent == Spec => ResidueIsRecent
<1>1. StoreInv /\ [Next]_vars =>
        [UNCHANGED clock =>
           LET removed == {k \in Pending : /\ store.entries[k] <= reply'.now
                                           /\ k \in Pending' => store'.entries[k] # store.entries[k]}
           IN \/ Cardinality(removed) >= CleanupBatch
              \/ \A k \in Pending' : store'.entries[k] > reply'.now - Lag]_vars
  <2> SUFFICES ASSUME StoreInv, [Next]_vars, UNCHANGED clock, ~ UNCHANGED vars
               PROVE  LET removed == {k \in Pending : /\ store.entries[k] <= reply'.now
                                                      /\ k \in Pending' => store'.entries[k] # store.entries[k]}
                      IN \/ Cardinality(removed) >= CleanupBatch
                         \/ \A k \in Pending' : store'.entries[k] > reply'.now - Lag
    OBVIOUS
  <2>1. clock \in Nat
    BY StoreInvIsGood DEF StoreGood
  <2>2. /\ Good(store, clock)
        /\ reply'.now \in Nat
        /\ Effect(store', store, reply'.key, reply'.now)
    BY <2>1, StepHasEffect
  <2> QED BY <2>1, <2>2, LittleResidue DEF Pending
<1> QED BY <1>1, StoreInvariant, PTL DEF Spec, ResidueIsRecent
-----------------------------------------------------------------------------
(* The store, with its lists, batches and evictions, implements the set of *)
(* tokens of PendingTokens.                                                *)

\* Two functions that agree on a common domain are equal.
LEMMA SameFunction ==
  ASSUME NEW f, NEW g, NEW S,
         f = [x \in S |-> f[x]], g = [x \in S |-> g[x]],
         \A x \in S : f[x] = g[x]
  PROVE  f = g
  OBVIOUS

\* The map of a well-formed store is a function.
LEMMA EntriesAreFunction ==
  ASSUME NEW s, WellFormed(s)
  PROVE  s.entries = [k \in DOMAIN s.entries |-> s.entries[k]]
<1> DEFINE e == [k \in DOMAIN s.entries |-> s.entries[k]]
<1>1. s = [entries |-> e, globalOrder |-> s.globalOrder, sessionOrders |-> s.sessionOrders]
  BY DEF WellFormed
<1> HIDE DEF e
<1>2. s.entries = e
  BY <1>1
<1> QED BY <1>2 DEF e

\* The keys of the store are the abstract tokens.
LEMMA KeysAreTokens == Keys = Abstract!Tokens
  BY DEF Keys, pendingStateKey, Abstract!Tokens

\* The abstract module's cardinalities are the store's.
LEMMA SameCardinality == \A S : Abstract!Cardinality(S) = Cardinality(S)
  BY DEF Cardinality, Abstract!Cardinality

\* What cleanup leaves is one of the sets that a call may see.
LEMMA CleanedRemains ==
  ASSUME Good(store, clock), NEW now
  PROVE  DOMAIN Cleanup(store, now).entries \in Abstract!Remaining(now)
<1> DEFINE C == CleanupSet(store, now)
<1>1. /\ DOMAIN Cleanup(store, now).entries = DOMAIN store.entries \ C
      /\ \A k \in C : k \in DOMAIN store.entries /\ store.entries[k] <= now
  BY CleanupFields DEF Good
<1> HIDE DEF C
<1>2. C \in SUBSET {t \in DOMAIN store.entries : store.entries[t] <= now}
  BY <1>1
<1> QED BY <1>1, <1>2 DEF Abstract!Remaining, Abstract!Expired

\* Placing a key where it is not yet is granting it.
LEMMA PlacedIsGranted ==
  ASSUME NEW s, WellFormed(s), NEW key, key \notin DOMAIN s.entries, NEW expires,
         NEW rest, rest \cup {key} = DOMAIN s.entries \cup {key},
         \A k \in DOMAIN s.entries : s.entries[k] = store.entries[k]
  PROVE  Placed(s, key, expires).entries = Abstract!Grant(rest, key, expires)
<1> DEFINE p == Placed(s, key, expires)
           g == Abstract!Grant(rest, key, expires)
           D == DOMAIN s.entries \cup {key}
<1>1. /\ WellFormed(p)
      /\ DOMAIN p.entries = D
      /\ p.entries[key] = expires
      /\ \A k \in DOMAIN s.entries : p.entries[k] = s.entries[k]
  BY PlacedWellFormed
<1>2. g = [t \in D |-> IF t = key THEN expires ELSE store.entries[t]]
  BY DEF Abstract!Grant
<1> HIDE DEF p, g
<1>3. p.entries = [t \in D |-> p.entries[t]]
  BY <1>1, EntriesAreFunction
<1>4. g = [t \in D |-> g[t]] /\ \A t \in D : p.entries[t] = g[t]
  BY <1>1, <1>2
<1>5. p.entries = g
  BY <1>3, <1>4
<1> QED BY <1>5 DEF p, g

\* An add is a renewal, an issue, a displacement or a refusal.
LEMMA AddRefines ==
  ASSUME StoreInv, NEW key \in Keys, NEW now \in Readings, AddState(key, now)
  PROVE  \/ Abstract!Renew(key, now) \/ Abstract!Issue(key, now)
         \/ Abstract!Displace(key, now) \/ Abstract!Refuse(key, now)
<1> DEFINE E == DOMAIN store.entries
           cleaned == Cleanup(store, now)
           rest == DOMAIN cleaned.entries
           me == SessionOf(key)
           overflow == SessionOverflow(cleaned, me)
           room == Remove(cleaned, overflow)
           a == Add(store, key, now + TTL, now)
<1>1. Good(store, clock) /\ clock \in Nat /\ now \in Nat
  BY StoreInvIsGood, PendingStateStoreAssumption DEF StoreGood, Readings
<1>2. /\ store' = a.store /\ clock' = clock
      /\ reply' = [call |-> "add", key |-> key, now |-> now, result |-> a.result]
  BY DEF AddState, Return
<1>3. /\ WellFormed(cleaned) /\ Good(cleaned, clock) /\ IsFiniteSet(rest)
      /\ rest \subseteq E
      /\ \A k \in rest : cleaned.entries[k] = store.entries[k]
      /\ rest \in Abstract!Remaining(now)
  BY <1>1, CleanupFields, CleanupIsGood, CleanedRemains, FinitelyManyPending DEF Good
<1>4. /\ key \in rest =>
           /\ a.store = Placed(Remove(cleaned, {key}), key, now + TTL)
           /\ a.result = "added"
      /\ key \notin rest /\ IsFull(room) =>
           /\ a.store = room
           /\ a.result = "atCapacity"
      /\ key \notin rest /\ ~ IsFull(room) =>
           /\ a.store = Placed(room, key, now + TTL)
           /\ a.result = IF overflow = {} THEN "added" ELSE "sessionEvicted"
  <2>1. WellFormed(store)
    BY <1>1 DEF Good
  <2> QED BY <2>1, AddOutcomes
<1>5. me \in Sessions
  BY SessionOfKey
<1> HIDE DEF cleaned, a
<1>6. OwnKeys(cleaned, me) = Abstract!Own(rest, key)
  BY DEF OwnKeys, Abstract!Own, SessionOf
<1>7. /\ overflow \subseteq OwnKeys(cleaned, me)
      /\ IsFiniteSet(OwnKeys(cleaned, me) \ overflow)
      /\ Cardinality(OwnKeys(cleaned, me) \ overflow) < MaxPerSession
      /\ Cardinality(OwnKeys(cleaned, me)) < MaxPerSession => overflow = {}
      /\ Cardinality(OwnKeys(cleaned, me)) = MaxPerSession =>
           \E f \in OwnKeys(cleaned, me) :
             /\ overflow = {f}
             /\ \A k \in OwnKeys(cleaned, me) : k = f \/ f \in cleaned.globalOrder[k]
  <2>1. Cardinality(OwnKeys(cleaned, me)) <= MaxPerSession
    BY <1>3, <1>5 DEF Good
  <2> QED BY <1>3, <2>1, EvictionMakesRoom
<1> HIDE DEF overflow
<1>8. /\ WellFormed(room)
      /\ DOMAIN room.entries = rest \ overflow
      /\ \A k \in rest \ overflow : room.entries[k] = store.entries[k]
  <2>1. /\ WellFormed(room)
        /\ DOMAIN room.entries = rest \ overflow
        /\ \A k \in rest \ overflow : room.entries[k] = cleaned.entries[k]
    BY <1>3, RemoveWellFormed
  <2> HIDE DEF room
  <2> QED BY <1>3, <2>1
<1>9. CASE key \in rest
  <2> DEFINE r == Remove(cleaned, {key})
  <2>1. /\ WellFormed(r)
        /\ DOMAIN r.entries = rest \ {key}
        /\ \A k \in rest \ {key} : r.entries[k] = cleaned.entries[k]
    BY <1>3, RemoveWellFormed
  <2>2. store' = Placed(r, key, now + TTL) /\ a.result = "added"
    BY <1>2, <1>4, <1>9
  <2> HIDE DEF r, rest
  <2>3. Placed(r, key, now + TTL).entries = Abstract!Grant(rest, key, now + TTL)
    <3>1. \A k \in DOMAIN r.entries : r.entries[k] = store.entries[k]
      BY <1>3, <2>1
    <3>2. key \notin DOMAIN r.entries /\ rest \cup {key} = DOMAIN r.entries \cup {key}
      BY <2>1
    <3> QED BY <2>1, <3>1, <3>2, PlacedIsGranted
  <2>4. store'.entries = Abstract!Grant(rest, key, now + TTL)
    BY <2>2, <2>3
  <2>5. reply' = [call |-> "add", key |-> key, now |-> now, result |-> "added"]
    BY <1>2, <2>2
  <2>6. Abstract!Renew(key, now)
    BY <1>2, <1>3, <1>9, <2>4, <2>5 DEF Abstract!Renew, Abstract!Answer
  <2> QED BY <2>6
<1>10. CASE key \notin rest /\ IsFull(room)
  <2>1. a.result = "atCapacity" /\ a.store = room
    BY <1>4, <1>10
  <2>2. store' = store
    BY <1>1, <1>2, <2>1, RefusedIsUnchanged DEF a
  <2>3. E = rest \ overflow /\ rest = E
    BY <1>2, <1>3, <1>8, <2>1, <2>2
  <2>4. overflow = {}
    BY <1>7, <2>3 DEF OwnKeys
  <2>5. Cardinality(Abstract!Own(E, key)) < MaxPerSession
    BY <1>6, <1>7, <2>3, <2>4
  <2>6. Cardinality(E) = MaxEntries
    <3>1. Cardinality(rest \ overflow) >= MaxEntries
      BY <1>8, <1>10 DEF IsFull
    <3>2. Cardinality(E) <= MaxEntries
      BY <1>1 DEF Good
    <3>3. Cardinality(E) \in Nat
      BY <1>3, <2>3, FS_CardinalityType
    <3>4. Cardinality(E) >= MaxEntries
      BY <2>3, <3>1
    <3> QED BY <3>2, <3>3, <3>4, PendingStatesAssumption
  <2>7. \A t \in E : store.entries[t] > now - Lag
    <3> DEFINE removed == {k \in E : /\ store.entries[k] <= now
                                     /\ k \in DOMAIN store'.entries => store'.entries[k] # store.entries[k]}
    <3>1. Effect(store', store, key, now)
      BY <1>1, <1>2, AddEffect DEF a
    <3>2. \/ Cardinality(removed) >= CleanupBatch
          \/ \A k \in DOMAIN store'.entries : store'.entries[k] > now - Lag
      BY <1>1, <3>1, LittleResidue
    <3>3. removed = {}
      BY <2>2
    <3>4. Cardinality(removed) = 0
      BY <3>3, FS_EmptySet
    <3> HIDE DEF removed
    <3> QED BY <2>2, <3>2, <3>4, PendingStatesAssumption
  <2>8. key \notin E
    BY <1>10, <2>3
  <2>9. reply' = [call |-> "add", key |-> key, now |-> now, result |-> "atCapacity"]
    BY <1>2, <2>1
  <2>10. Abstract!Refuse(key, now)
    BY <1>2, <2>2, <2>5, <2>6, <2>7, <2>8, <2>9, SameCardinality
      DEF Abstract!Refuse, Abstract!Answer
  <2> QED BY <2>10
<1>11. CASE key \notin rest /\ ~ IsFull(room)
  <2>1. /\ store' = Placed(room, key, now + TTL)
        /\ a.result = IF overflow = {} THEN "added" ELSE "sessionEvicted"
    BY <1>2, <1>4, <1>11
  <2>2. store'.entries = Abstract!Grant(rest \ overflow, key, now + TTL)
    <3> HIDE DEF room, rest
    <3>1. /\ key \notin DOMAIN room.entries
          /\ (rest \ overflow) \cup {key} = DOMAIN room.entries \cup {key}
          /\ \A k \in DOMAIN room.entries : room.entries[k] = store.entries[k]
      BY <1>8, <1>11
    <3>2. Placed(room, key, now + TTL).entries = Abstract!Grant(rest \ overflow, key, now + TTL)
      BY <1>8, <3>1, PlacedIsGranted
    <3> QED BY <2>1, <3>2
  <2>3. CASE overflow = {}
    <3>1. reply' = [call |-> "add", key |-> key, now |-> now, result |-> "added"]
      BY <1>2, <2>1, <2>3
    <3>2. Cardinality(Abstract!Own(rest, key)) < MaxPerSession
      BY <1>6, <1>7, <2>3
    <3>3. Cardinality(rest) < MaxEntries
      <4>1. Cardinality(rest) \in Nat
        BY <1>3, FS_CardinalityType
      <4>2. ~ (Cardinality(rest) >= MaxEntries)
        BY <1>8, <1>11, <2>3 DEF IsFull
      <4> QED BY <4>1, <4>2, PendingStatesAssumption
    <3>4. store'.entries = Abstract!Grant(rest, key, now + TTL)
      BY <2>2, <2>3
    <3> HIDE DEF rest
    <3>5. Abstract!Issue(key, now)
      BY <1>2, <1>3, <1>11, <3>1, <3>2, <3>3, <3>4, SameCardinality
      DEF Abstract!Issue, Abstract!Answer
    <3> QED BY <3>5
  <2>4. CASE overflow # {}
    <3>1. reply' = [call |-> "add", key |-> key, now |-> now, result |-> "sessionEvicted"]
      BY <1>2, <2>1, <2>4
    <3>2. Cardinality(OwnKeys(cleaned, me)) = MaxPerSession
      <4>1. IsFiniteSet(OwnKeys(cleaned, me))
        <5>1. OwnKeys(cleaned, me) \subseteq rest
          BY DEF OwnKeys
        <5> QED BY <1>3, <5>1, FS_Subset
      <4>2. Cardinality(OwnKeys(cleaned, me)) \in Nat /\ Cardinality(OwnKeys(cleaned, me)) <= MaxPerSession
        BY <1>3, <1>5, <4>1, FS_CardinalityType DEF Good
      <4> QED BY <1>7, <2>4, <4>2, PendingStatesAssumption
    <3>3. PICK f \in OwnKeys(cleaned, me) :
            /\ overflow = {f}
            /\ \A k \in OwnKeys(cleaned, me) : k = f \/ f \in cleaned.globalOrder[k]
      BY <1>7, <3>2
    <3>4. ASSUME NEW t \in Abstract!Own(rest, key)
          PROVE  store.entries[f] <= store.entries[t] + Lag
      <4>1. t \in OwnKeys(cleaned, me) /\ t \in rest /\ f \in rest
        BY <1>6, <3>3 DEF OwnKeys
      <4>2. cleaned.entries[t] = store.entries[t] /\ cleaned.entries[f] = store.entries[f]
        BY <1>3, <4>1
      <4>3. CASE t = f
        <5>1. store.entries[t] \in Nat
          BY <1>1, <1>3, <4>1, PendingStateStoreAssumption DEF Good
        <5> QED BY <4>3, <5>1, PendingStateStoreAssumption
      <4>4. CASE f \in cleaned.globalOrder[t]
        <5>1. \A k \in rest : \A j \in cleaned.globalOrder[k] :
                cleaned.entries[j] <= cleaned.entries[k] + Lag
          BY <1>3 DEF Good
        <5>2. cleaned.entries[f] <= cleaned.entries[t] + Lag
          BY <4>1, <4>4, <5>1
        <5> QED BY <4>2, <5>2
      <4> QED BY <3>3, <4>1, <4>3, <4>4
    <3>5. store'.entries = Abstract!Grant(rest \ {f}, key, now + TTL)
      BY <2>2, <3>3
    <3>6. f \in Abstract!Own(rest, key) /\ Cardinality(Abstract!Own(rest, key)) = MaxPerSession
      BY <1>6, <3>2, <3>3
    <3> HIDE DEF rest
    <3>7. Abstract!Displace(key, now)
      BY <1>2, <1>3, <1>11, <3>1, <3>4, <3>5, <3>6, SameCardinality
      DEF Abstract!Displace, Abstract!Answer
    <3> QED BY <3>7
  <2> QED BY <2>3, <2>4
<1> QED BY <1>9, <1>10, <1>11

\* A consume is a redemption, whether the key was pending or not.
LEMMA ConsumeRefines ==
  ASSUME StoreInv, NEW key \in Keys, NEW now \in Readings, ConsumeState(key, now)
  PROVE  Abstract!Redeem(key, now)
<1> DEFINE E == DOMAIN store.entries
           cleaned == Cleanup(store, now)
           rest == DOMAIN cleaned.entries
           a == Consume(store, key, now)
<1>1. Good(store, clock) /\ WellFormed(store)
  BY StoreInvIsGood DEF StoreGood, Good
<1>2. /\ store' = a.store /\ clock' = clock
      /\ reply' = [call |-> "consume", key |-> key, now |-> now, result |-> a.result]
  BY DEF ConsumeState, Return
<1>3. /\ WellFormed(cleaned)
      /\ rest \subseteq E
      /\ \A k \in rest : cleaned.entries[k] = store.entries[k]
      /\ \A k \in E \ rest : store.entries[k] <= now
      /\ rest \in Abstract!Remaining(now)
  BY <1>1, CleanupFields, CleanedRemains
<1>4. /\ a.store = IF key \in rest THEN Remove(cleaned, {key}) ELSE cleaned
      /\ a.result = (key \in rest /\ ~ (cleaned.entries[key] <= now))
  BY DEF Consume, Expired
<1> HIDE DEF cleaned, a
<1>5. /\ WellFormed(Remove(cleaned, {key}))
      /\ DOMAIN Remove(cleaned, {key}).entries = rest \ {key}
      /\ \A k \in rest \ {key} : Remove(cleaned, {key}).entries[k] = cleaned.entries[k]
  BY <1>3, RemoveWellFormed
<1>6. /\ WellFormed(store')
      /\ DOMAIN store'.entries = rest \ {key}
      /\ \A k \in rest \ {key} : store'.entries[k] = store.entries[k]
  <2>1. CASE key \in rest
    <3> DEFINE r == Remove(cleaned, {key})
    <3>1. store' = r
      BY <1>2, <1>4, <2>1
    <3> HIDE DEF r
    <3>2. WellFormed(r) /\ DOMAIN r.entries = rest \ {key}
          /\ \A k \in rest \ {key} : r.entries[k] = store.entries[k]
      BY <1>3, <1>5 DEF r
    <3> QED BY <3>1, <3>2
  <2>2. CASE key \notin rest
    <3>1. store' = cleaned /\ rest \ {key} = rest
      BY <1>2, <1>4, <2>2
    <3> QED BY <1>3, <3>1
  <2> QED BY <2>1, <2>2
<1>7. store'.entries = Abstract!Keep(rest \ {key})
  <2>1. store'.entries = [k \in rest \ {key} |-> store'.entries[k]]
    BY <1>6, EntriesAreFunction
  <2> QED BY <1>6, <2>1 DEF Abstract!Keep
<1>8. a.result = (key \in E /\ ~ (store.entries[key] <= now))
  BY <1>3, <1>4
<1>9. reply' = [call |-> "consume", key |-> key, now |-> now,
                result |-> key \in E /\ ~ (store.entries[key] <= now)]
  BY <1>2, <1>8
<1> HIDE DEF rest
<1>10. Abstract!Redeem(key, now)
  BY <1>2, <1>3, <1>7, <1>9 DEF Abstract!Redeem, Abstract!Answer, Abstract!Expired
<1> QED BY <1>10

\* The store implements PendingTokens: each call maps to one of its actions.
THEOREM StoreImplementsTokens == Spec => ImplementsTokens
<1>1. Init => Abstract!Init
  BY DEF Init, newPendingStateStore, NoReply, Abstract!Init, Abstract!NoReply
<1>2. StoreInv /\ [Next]_vars => [Abstract!Next]_Abstract!vars
  <2> SUFFICES ASSUME StoreInv, [Next]_vars
               PROVE  [Abstract!Next]_Abstract!vars
    OBVIOUS
  <2>1. CASE Tick
    BY <2>1 DEF Tick, Abstract!Next, Abstract!Tick
  <2>2. Readings = Abstract!Readings
    BY DEF Readings, Abstract!Readings
  <2>3. ASSUME NEW key \in Keys, NEW now \in Readings, AddState(key, now)
        PROVE  Abstract!Next
    BY <2>2, <2>3, AddRefines, KeysAreTokens DEF Abstract!Next
  <2>4. ASSUME NEW key \in Keys, NEW now \in Readings, ConsumeState(key, now)
        PROVE  Abstract!Next
    BY <2>2, <2>4, ConsumeRefines, KeysAreTokens DEF Abstract!Next
  <2>5. CASE UNCHANGED vars
    BY <2>5 DEF vars, Abstract!vars
  <2> QED BY <2>1, <2>3, <2>4, <2>5 DEF Next
<1> QED BY <1>1, <1>2, StoreInvariant, PTL DEF Spec, ImplementsTokens, Abstract!Spec
=============================================================================
