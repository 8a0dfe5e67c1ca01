-------------------------- MODULE PendingStateStore --------------------------
(***************************************************************************)
(* The pending-state store as its callers use it: handleLogin adds,        *)
(* handleTelegramAuth consumes, and handleLogin consumes what it added     *)
(* when the page cannot be rendered.  Handlers run concurrently and read   *)
(* the clock before they queue for the mutex (server.go:213 and 332), so   *)
(* the times that successive calls carry need not increase: a call carries *)
(* a reading up to Lag old.                                                *)
(***************************************************************************)
EXTENDS PendingStates

CONSTANTS
  Sessions,    \* login sessions: the value of the session cookie
  Verifiers,   \* state verifiers: one for each login page
  TTL,         \* Config.StateTTL
  Lag,         \* how old a caller's clock reading may be when it is used
  MaxClock     \* bound on the clock

ASSUME PendingStateStoreAssumption ==
  /\ TTL \in Nat \ {0}
  /\ Lag \in Nat
  /\ MaxClock \in Nat

VARIABLES
  store,   \* the value of Server.pendingStates
  clock,
  reply    \* the last call and what it returned

vars == <<store, clock, reply>>

Keys == {pendingStateKey(s, v) : s \in Sessions, v \in Verifiers}

\* The clock readings a caller may have taken by now.
Readings == {t \in (clock - Lag)..clock : t >= 0}

NoReply == [call |-> "none"]

Replies ==
  {NoReply}
    \cup [call : {"add"}, key : Keys, now : Nat, result : AddResults]
    \cup [call : {"consume"}, key : Keys, now : Nat, result : BOOLEAN]

Init ==
  /\ store = newPendingStateStore
  /\ clock = 0
  /\ reply = NoReply

Return(call, key, now, outcome) ==
  /\ store' = outcome.store
  /\ reply' = [call |-> call, key |-> key, now |-> now, result |-> outcome.result]
  /\ UNCHANGED clock

AddState(key, now) == Return("add", key, now, Add(store, key, now + TTL, now))

ConsumeState(key, now) == Return("consume", key, now, Consume(store, key, now))

Tick ==
  /\ clock < MaxClock
  /\ clock' = clock + 1
  /\ UNCHANGED <<store, reply>>

Next ==
  \/ Tick
  \/ \E key \in Keys, now \in Readings : AddState(key, now) \/ ConsumeState(key, now)

Spec == Init /\ [][Next]_vars

-----------------------------------------------------------------------------
Pending == DOMAIN store.entries

\* The fields have their types; every expiry is TTL after a reading of the clock.
TypeOK ==
  /\ store.entries \in [Pending -> TTL..(clock + TTL)]
  /\ Pending \subseteq Keys
  /\ clock \in Nat
  /\ reply \in Replies

\* The map and the two kinds of list always describe the same entries in the
\* same order.  Every path of add that removes a list and creates it again, and
\* every removal from the middle, must see to this (remove at lines 123-134, the
\* second look at the session's list at lines 72-77).
OrdersAgree == WellFormed(store)

\* Neither the store nor any session ever exceeds its limit, whatever mixture
\* of refreshes, evictions, expiries and refusals led here.
Bounded ==
  /\ Cardinality(Pending) <= MaxEntries
  /\ \A s \in Sessions : Cardinality(OwnKeys(store, s)) <= MaxPerSession

\* The lists are kept in order of insertion, not of expiry: with clock readings
\* out of order an entry can stand behind one that expires later, but never by
\* more than Lag.  cleanup, which looks only at the front, and the eviction of
\* a session's front both rest on this.
NearlySorted ==
  \A k \in Pending : \A j \in store.globalOrder[k] :
    store.entries[j] <= store.entries[k] + Lag

\* An entry that a call carrying the time now leaves behind although it had
\* expired is at most Lag past its expiry, unless cleanup had reached its batch
\* limit: expired entries do not pile up behind an unexpired front.
ResidueIsRecent ==
  [][ UNCHANGED clock =>
        LET removed == {k \in Pending : /\ store.entries[k] <= reply'.now
                                        /\ k \in Pending' => store'.entries[k] # store.entries[k]}
        IN \/ Cardinality(removed) >= CleanupBatch
           \/ \A k \in Pending' : store'.entries[k] > reply'.now - Lag ]_vars

\* A call made for one session never takes away another session's pending
\* state before that has expired: only expiry crosses sessions.
OthersUntouched ==
  [][ \A k \in Pending \ Pending' :
        \/ store.entries[k] <= reply'.now
        \/ SessionOf(k) = SessionOf(reply'.key) ]_vars

\* The refusal at capacity costs nobody anything: it leaves the store exactly
\* as it was, the evictions of the same call and the list it created included.
RefusalIsFree ==
  [][ reply'.call = "add" /\ reply'.result = "atCapacity" => UNCHANGED store ]_vars

\* The store implements the abstract one.
Abstract == INSTANCE PendingTokens WITH live <- store.entries

ImplementsTokens == Abstract!Spec
=============================================================================
