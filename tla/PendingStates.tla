---------------------------- MODULE PendingStates ----------------------------
(***************************************************************************)
(* The data structure of internal/app/pending_state.go, as operators on a  *)
(* store value.  A store is a record of the three fields that              *)
(* pendingStateStore guards with its mutex:                                *)
(*   entries        key -> expiry time                                     *)
(*   globalOrder    the list of all entries, by time of their last add     *)
(*   sessionOrders  session -> the list of that session's entries          *)
(* add and consume hold the mutex from their first line to their return,   *)
(* so each of them is one operator here.                                   *)
(***************************************************************************)
EXTENDS LinkedList

CONSTANTS
  MaxEntries,      \* maxEntries: entries the whole store may hold
  MaxPerSession,   \* maxPerSession: entries one session may hold
  CleanupBatch     \* maxPendingStateCleanupBatch: removals of one cleanup

ASSUME PendingStatesAssumption ==
  /\ MaxEntries \in Nat \ {0}
  /\ MaxPerSession \in Nat \ {0}
  /\ CleanupBatch \in Nat \ {0}

pendingStateKey(sessionID, verifier) == <<sessionID, verifier>>

SessionOf(key) == key[1]

newPendingStateStore ==
  [entries |-> [k \in {} |-> 0],
   globalOrder |-> EmptyList,
   sessionOrders |-> [s \in {} |-> EmptyList]]

\* ~now.Before(entry.expires)
Expired(store, key, now) == store.entries[key] <= now

\* Mutant: the session's list stays in the map when its last entry goes.
RemoveKeepingLists(store, Keys) ==
  [entries |-> [k \in DOMAIN store.entries \ Keys |-> store.entries[k]],
   globalOrder |-> Unlink(store.globalOrder, Keys),
   sessionOrders |-> [s \in DOMAIN store.sessionOrders |->
                        Unlink(store.sessionOrders[s], Keys)]]

\* remove, of every entry of Keys: a session's list that loses its last entry
\* leaves the map with it.
Remove(store, Keys) ==
  LET order(s) == store.sessionOrders[s]
      kept == {s \in DOMAIN store.sessionOrders :
                 DOMAIN order(s) \cap Keys # {} => ~(DOMAIN order(s) \subseteq Keys)}
  IN [entries |-> [k \in DOMAIN store.entries \ Keys |-> store.entries[k]],
      globalOrder |-> Unlink(store.globalOrder, Keys),
      sessionOrders |-> [s \in kept |-> Unlink(order(s), Keys)]]

\* Mutant: one removal for each call instead of a batch.
CleanupSetOfOne(store, now) ==
  {k \in FirstElements(store.globalOrder, 1) : Expired(store, k, now)}

\* What cleanup removes: from the front, up to CleanupBatch entries, stopping
\* at the first one that has not expired, whatever stands behind it.
CleanupSet(store, now) ==
  {k \in FirstElements(store.globalOrder, CleanupBatch) :
     \A j \in store.globalOrder[k] \cup {k} : Expired(store, j, now)}

Cleanup(store, now) == Remove(store, CleanupSet(store, now))

\* The session's list, or the new one add creates for it.
SessionOrder(store, s) ==
  IF s \in DOMAIN store.sessionOrders THEN store.sessionOrders[s] ELSE EmptyList

SetSessionOrder(store, s, order) ==
  [entries |-> store.entries,
   globalOrder |-> store.globalOrder,
   sessionOrders |-> [t \in DOMAIN store.sessionOrders \cup {s} |->
                        IF t = s THEN order ELSE store.sessionOrders[t]]]

\* Mutant: the entry keeps its place in both lists.
RefreshInPlace(store, key, expires) == [store EXCEPT !.entries[key] = expires]

\* add of a key that is already pending: a new expiry, and the back of both lists.
Refresh(store, key, expires) ==
  LET s == SessionOf(key)
  IN SetSessionOrder(
       [entries |-> [store.entries EXCEPT ![key] = expires],
        globalOrder |-> MoveToBack(store.globalOrder, key),
        sessionOrders |-> store.sessionOrders],
       s, MoveToBack(store.sessionOrders[s], key))

\* Mutant: > for >= in the loop's condition.
SessionOverflowByOne(store, s) ==
  LET order == SessionOrder(store, s)
  IN FirstElements(order, Length(order) - MaxPerSession)

\* Mutant: the oldest entries of the store go, whoever owns them.
GlobalOverflow(store, s) ==
  FirstElements(store.globalOrder, Length(SessionOrder(store, s)) + 1 - MaxPerSession)

\* The front entries add removes while the session holds maxPerSession or more.
SessionOverflow(store, s) ==
  LET order == SessionOrder(store, s)
  IN FirstElements(order, Length(order) + 1 - MaxPerSession)

\* The list add makes sure of after the eviction, which may have taken the
\* session's list with its last entry.
OpenSession(store, s) == SetSessionOrder(store, s, SessionOrder(store, s))

\* The three insertions that end a successful add of a new key.
Insert(store, key, expires) ==
  LET s == SessionOf(key)
  IN SetSessionOrder(
       [entries |-> [k \in DOMAIN store.entries \cup {key} |->
                       IF k = key THEN expires ELSE store.entries[k]],
        globalOrder |-> PushBack(store.globalOrder, key),
        sessionOrders |-> store.sessionOrders],
       s, PushBack(store.sessionOrders[s], key))

\* Mutant: the list that add has just created stays.
RefuseKeepingList(store, s) == store

\* The return at capacity, which takes back a list that add has just created.
Refuse(store, s) ==
  IF DOMAIN store.sessionOrders[s] = {}
  THEN [entries |-> store.entries,
        globalOrder |-> store.globalOrder,
        sessionOrders |-> [t \in DOMAIN store.sessionOrders \ {s} |->
                             store.sessionOrders[t]]]
  ELSE store

IsFull(store) == Cardinality(DOMAIN store.entries) >= MaxEntries

AddResults == {"added", "sessionEvicted", "atCapacity"}

\* add: the new store and the value returned.
Add(store, key, expires, now) ==
  LET s       == SessionOf(key)
      cleaned == Cleanup(store, now)
      evicted == SessionOverflow(cleaned, s)
      room    == OpenSession(Remove(cleaned, evicted), s)
  IN IF key \in DOMAIN cleaned.entries
     THEN [store |-> Refresh(cleaned, key, expires), result |-> "added"]
     ELSE IF IsFull(room)
     THEN [store |-> Refuse(room, s), result |-> "atCapacity"]
     ELSE [store |-> Insert(room, key, expires),
           result |-> IF evicted = {} THEN "added" ELSE "sessionEvicted"]

\* Mutant: the entry is looked up and stays.
ConsumeKeeping(store, key, now) ==
  LET cleaned == Cleanup(store, now)
  IN [store  |-> cleaned,
      result |-> key \in DOMAIN cleaned.entries /\ ~Expired(cleaned, key, now)]

\* consume: the new store and whether the key was pending and unexpired.
Consume(store, key, now) ==
  LET cleaned == Cleanup(store, now)
      found   == key \in DOMAIN cleaned.entries
  IN [store  |-> IF found THEN Remove(cleaned, {key}) ELSE cleaned,
      result |-> found /\ ~Expired(cleaned, key, now)]

-----------------------------------------------------------------------------
\* The pending keys of one session.
OwnKeys(store, s) == {k \in DOMAIN store.entries : SessionOf(k) = s}

\* What the map and the two kinds of list must satisfy together: every entry
\* stands once in the global list and once in its session's list, a session's
\* list is the global list restricted to the session, and no session keeps an
\* empty list.
WellFormed(store) ==
  /\ store = [entries |-> [k \in DOMAIN store.entries |-> store.entries[k]],
              globalOrder |-> store.globalOrder,
              sessionOrders |-> store.sessionOrders]
  /\ IsList(store.globalOrder)
  /\ DOMAIN store.globalOrder = DOMAIN store.entries
  /\ store.sessionOrders =
       [s \in {SessionOf(k) : k \in DOMAIN store.entries} |->
          [k \in OwnKeys(store, s) |-> store.globalOrder[k] \cap OwnKeys(store, s)]]
=============================================================================
