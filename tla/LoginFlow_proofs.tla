-------------------------- MODULE LoginFlow_proofs --------------------------
(***************************************************************************)
(* Proofs about LoginFlow for any number of logins, callbacks, browsers,   *)
(* bots and crashes, and all limits and lifetimes.                         *)
(***************************************************************************)
EXTENDS LoginFlow, PendingStates_proofs

LoginRecords ==
  [stage : LoginStages, browser : Browsers \cup {None}, bot : Bots \cup {None},
   session : Logins \cup {None}, now : Nat, arrived : Nat]

CallbackRecords ==
  [stage : CallbackStages, answer : Answers, bot : Bots \cup {None},
   session : Logins \cup {None}, state : Logins \cup {None}, nonce : Logins \cup {None},
   expires : Nat, now : Nat, issued : Nat, jwtExpires : Nat]

Types ==
  /\ login \in [Logins -> LoginRecords]
  /\ callback \in [Callbacks -> CallbackRecords]
  /\ jar \in [Browsers -> [session : Logins \cup {None}, until : Nat]]
  /\ clock \in Nat
-----------------------------------------------------------------------------
(* What the store's calls do to the set of pending keys.                   *)

\* Removing entries only removes entries.
LEMMA RemoveShrinks ==
  ASSUME NEW s, NEW K
  PROVE  DOMAIN Remove(s, K).entries = DOMAIN s.entries \ K
BY DEF Remove

\* consume takes its key away, and accepts it only if it was pending.
LEMMA ConsumeShrinks ==
  ASSUME NEW s, NEW key, NEW now
  PROVE  LET a == Consume(s, key, now)
         IN /\ DOMAIN a.store.entries \subseteq DOMAIN s.entries
            /\ key \notin DOMAIN a.store.entries
            /\ a.result => key \in DOMAIN s.entries
<1> DEFINE cleaned == Cleanup(s, now)
<1>1. DOMAIN cleaned.entries \subseteq DOMAIN s.entries
  BY RemoveShrinks DEF Cleanup
<1> HIDE DEF cleaned
<1>2. DOMAIN Remove(cleaned, {key}).entries = DOMAIN cleaned.entries \ {key}
  BY RemoveShrinks
<1> QED
  BY <1>1, <1>2 DEF Consume, cleaned

\* add makes no other key pending, and none at all when it refuses.
LEMMA AddGrows ==
  ASSUME NEW s, NEW key, NEW expires, NEW now
  PROVE  LET a == Add(s, key, expires, now)
         IN /\ DOMAIN a.store.entries \subseteq DOMAIN s.entries \cup {key}
            /\ a.result = "atCapacity" => DOMAIN a.store.entries \subseteq DOMAIN s.entries
<1> DEFINE x == SessionOf(key)
           cleaned == Cleanup(s, now)
           evicted == SessionOverflow(cleaned, x)
           room == OpenSession(Remove(cleaned, evicted), x)
           a == Add(s, key, expires, now)
<1>1. DOMAIN cleaned.entries \subseteq DOMAIN s.entries
  BY RemoveShrinks DEF Cleanup
<1>2. /\ key \in DOMAIN cleaned.entries =>
           a.store = Refresh(cleaned, key, expires) /\ a.result = "added"
      /\ key \notin DOMAIN cleaned.entries /\ IsFull(room) => a.store = Refuse(room, x)
      /\ key \notin DOMAIN cleaned.entries /\ ~IsFull(room) =>
           a.store = Insert(room, key, expires) /\ a.result \in {"added", "sessionEvicted"}
  BY DEF Add
<1> HIDE DEF cleaned, evicted, a
<1>3. DOMAIN room.entries \subseteq DOMAIN cleaned.entries
  <2>1. room.entries = Remove(cleaned, evicted).entries
    BY DEF OpenSession, SetSessionOrder
  <2> QED
    BY <2>1, RemoveShrinks
<1> HIDE DEF room
<1>4. DOMAIN Refresh(cleaned, key, expires).entries = DOMAIN cleaned.entries
  BY DEF Refresh, SetSessionOrder
<1>5. Refuse(room, x).entries = room.entries
  BY DEF Refuse
<1>6. DOMAIN Insert(room, key, expires).entries = DOMAIN room.entries \cup {key}
  BY DEF Insert, SetSessionOrder
<1> QED
  BY <1>1, <1>2, <1>3, <1>4, <1>5, <1>6 DEF a
-----------------------------------------------------------------------------
(* The records.                                                            *)

\* A login whose stage changes.
LEMMA LoginStageChanges ==
  ASSUME NEW f \in [Logins -> LoginRecords], NEW l \in Logins, NEW s \in LoginStages,
         NEW g, g = [f EXCEPT ![l].stage = s]
  PROVE  /\ g \in [Logins -> LoginRecords]
         /\ g[l].stage = s /\ g[l].browser = f[l].browser /\ g[l].bot = f[l].bot
         /\ g[l].session = f[l].session /\ g[l].now = f[l].now /\ g[l].arrived = f[l].arrived
         /\ \A m \in Logins \ {l} : g[m] = f[m]
<1>1. f[l] \in LoginRecords
  OBVIOUS
<1> DEFINE new == [f[l] EXCEPT !.stage = s]
<1>2. /\ new \in LoginRecords
      /\ new.stage = s /\ new.browser = f[l].browser /\ new.bot = f[l].bot
      /\ new.session = f[l].session /\ new.now = f[l].now /\ new.arrived = f[l].arrived
  BY <1>1, SMT DEF LoginRecords
<1>3. g = [f EXCEPT ![l] = new]
  OBVIOUS
<1> HIDE DEF new
<1> QED
  BY <1>2, <1>3

\* A callback whose stage changes.
LEMMA CallbackStageChanges ==
  ASSUME NEW f \in [Callbacks -> CallbackRecords], NEW c \in Callbacks,
         NEW s \in CallbackStages, NEW g, g = [f EXCEPT ![c].stage = s]
  PROVE  /\ g \in [Callbacks -> CallbackRecords]
         /\ g[c].stage = s /\ g[c].answer = f[c].answer /\ g[c].bot = f[c].bot
         /\ g[c].session = f[c].session /\ g[c].state = f[c].state
         /\ g[c].nonce = f[c].nonce /\ g[c].expires = f[c].expires /\ g[c].now = f[c].now
         /\ g[c].issued = f[c].issued /\ g[c].jwtExpires = f[c].jwtExpires
         /\ \A d \in Callbacks \ {c} : g[d] = f[d]
<1>1. f[c] \in CallbackRecords
  OBVIOUS
<1> DEFINE new == [f[c] EXCEPT !.stage = s]
<1>2. /\ new \in CallbackRecords
      /\ new.stage = s /\ new.answer = f[c].answer /\ new.bot = f[c].bot
      /\ new.session = f[c].session /\ new.state = f[c].state
      /\ new.nonce = f[c].nonce /\ new.expires = f[c].expires /\ new.now = f[c].now
      /\ new.issued = f[c].issued /\ new.jwtExpires = f[c].jwtExpires
  BY <1>1, SMT DEF CallbackRecords
<1>3. g = [f EXCEPT ![c] = new]
  OBVIOUS
<1> HIDE DEF new
<1> QED
  BY <1>2, <1>3
-----------------------------------------------------------------------------
(* The invariant of states, pages and callbacks.                           *)

LoginOK(r) ==
  /\ r.now <= clock /\ r.arrived <= clock
  /\ r.stage = "idle" => r.session = None
  /\ r.stage \in {"signed", "stored", "rendered", "delivered", "lost"} =>
       r.session \in Logins /\ r.browser \in Browsers

\* Before a callback is accepted nothing is known of it but that its page arrived.
CallbackOK(r) ==
  /\ r.stage # "idle" => r.state \in Logins /\ login[r.state].stage = "delivered"
  /\ r.stage # "idle" /\ r.answer = "none" => r.now <= clock
  /\ r.answer = "none" /\ r.stage \notin {"idle", "sent"} =>
       /\ login[r.state].session = r.session
       /\ login[r.state].bot = r.bot
       /\ r.now < login[r.state].now + StateTTL
  /\ r.answer = "none" /\ r.stage \in {"validated", "linked", "issued", "relayed"} =>
       r.nonce = r.state
  /\ r.answer = "none" /\ r.stage \in {"issued", "relayed"} =>
       r.issued + MinLifetime <= r.jwtExpires /\ r.jwtExpires <= r.expires

\* A pending key is that of a page on its way or delivered, which no callback has
\* used: this is why a state that is consumed never comes back.
KeyOK(k) ==
  \E l \in Logins :
    /\ k = Key(login[l].session, l)
    /\ login[l].stage \in {"stored", "rendered", "delivered", "lost"}
    /\ \A c \in Callbacks : callback[c].state = l => ~Accepted(c)

FlowInv ==
  /\ Types
  /\ \A l \in Logins : LoginOK(login[l])
  /\ \A c \in Callbacks : CallbackOK(callback[c])
  /\ \A k \in DOMAIN store.entries : KeyOK(k)
  /\ StateIsSingleUse

\* A step of a login's handler: the page was not delivered before it, so nothing that
\* holds of callbacks depends on it.
LEMMA LoginMoves ==
  ASSUME FlowInv, NEW l \in Logins, login[l].stage # "delivered",
         login' \in [Logins -> LoginRecords],
         \A m \in Logins \ {l} : login'[m] = login[m],
         LoginOK(login'[l]),
         UNCHANGED <<callback, clock>>,
         jar' \in [Browsers -> [session : Logins \cup {None}, until : Nat]],
         login[l].stage \in {"stored", "rendered"} => login'[l].session = login[l].session,
         \A k \in DOMAIN store'.entries :
           \/ k = Key(login'[l].session, l)
              /\ login'[l].stage \in {"stored", "rendered", "delivered", "lost"}
           \/ k \in DOMAIN store.entries /\ k # Key(login[l].session, l)
  PROVE  FlowInv'
<1>1. Types'
  BY DEF FlowInv, Types
<1>2. \A m \in Logins : LoginOK(login'[m])
  BY DEF FlowInv
<1>3. \A c \in Callbacks : callback[c].stage # "idle" =>
        callback[c].state \in Logins \ {l}
  BY DEF FlowInv, CallbackOK
<1>4. ASSUME NEW c \in Callbacks PROVE CallbackOK(callback[c])'
  <2>1. CallbackOK(callback[c])
    BY DEF FlowInv
  <2>2. callback[c].stage # "idle" => login'[callback[c].state] = login[callback[c].state]
    BY <1>3
  <2>3. callback[c].stage \in {"validated", "linked", "issued", "relayed"} =>
          callback[c].stage # "idle"
    OBVIOUS
  <2> QED
    BY <1>3, <2>1, <2>2, <2>3 DEF CallbackOK
<1>5. \A c \in Callbacks : callback[c].state = l => ~Accepted(c)
  BY <1>3 DEF Accepted
<1>6. ASSUME NEW k \in DOMAIN store'.entries PROVE KeyOK(k)'
  <2>1. CASE /\ k = Key(login'[l].session, l)
             /\ login'[l].stage \in {"stored", "rendered", "delivered", "lost"}
    BY <1>5, <2>1 DEF KeyOK, Accepted, Key
  <2>2. CASE k \in DOMAIN store.entries /\ k # Key(login[l].session, l)
    <3>1. PICK m \in Logins :
            /\ k = Key(login[m].session, m)
            /\ login[m].stage \in {"stored", "rendered", "delivered", "lost"}
            /\ \A c \in Callbacks : callback[c].state = m => ~Accepted(c)
      BY <2>2 DEF FlowInv, KeyOK
    <3>2. m # l
      BY <2>2, <3>1
    <3>3. login'[m] = login[m]
      BY <3>2
    <3> QED
      BY <3>1, <3>3 DEF KeyOK, Accepted, Key
  <2> QED
    BY <1>6, <2>1, <2>2
<1>7. StateIsSingleUse'
  BY DEF FlowInv, StateIsSingleUse, Accepted
<1>8. \A m \in Logins : LoginOK(login[m])'
  BY <1>2 DEF LoginOK
<1> QED
  BY <1>1, <1>4, <1>6, <1>7, <1>8 DEF FlowInv

\* A step of a callback's handler: it stays accepted, stays not accepted, or takes the
\* key that was pending.
LEMMA CallbackMoves ==
  ASSUME FlowInv, NEW c \in Callbacks,
         callback' \in [Callbacks -> CallbackRecords],
         \A d \in Callbacks \ {c} : callback'[d] = callback[d],
         CallbackOK(callback'[c]),
         UNCHANGED <<login, jar, clock>>,
         DOMAIN store'.entries \subseteq DOMAIN store.entries,
         \/ callback'[c].stage \in {"idle", "sent"}
         \/ Accepted(c) /\ callback'[c].state = callback[c].state
         \/ LET l == callback'[c].state
            IN /\ l \in Logins
               /\ Key(login[l].session, l) \in DOMAIN store.entries
               /\ Key(login[l].session, l) \notin DOMAIN store'.entries
  PROVE  FlowInv'
<1> DEFINE l == callback'[c].state
           key == Key(login[l].session, l)
           acc(r) == r.stage \notin {"idle", "sent"}
<1>1. Types'
  BY DEF FlowInv, Types
<1>2. \A m \in Logins : LoginOK(login[m])'
  BY DEF FlowInv, LoginOK
<1>3. \A d \in Callbacks : CallbackOK(callback[d])'
  BY DEF FlowInv, CallbackOK
<1>4. \A d \in Callbacks : Accepted(d) <=> acc(callback[d])
  BY DEF Accepted
<1>5. \A m \in Logins : Key(login[m].session, m) \in DOMAIN store.entries =>
        \A d \in Callbacks : callback[d].state = m => ~acc(callback[d])
  <2> SUFFICES ASSUME NEW m \in Logins, Key(login[m].session, m) \in DOMAIN store.entries,
                      NEW d \in Callbacks, callback[d].state = m
               PROVE  ~acc(callback[d])
    OBVIOUS
  <2>1. PICK n \in Logins :
          /\ Key(login[m].session, m) = Key(login[n].session, n)
          /\ \A e \in Callbacks : callback[e].state = n => ~Accepted(e)
    BY DEF FlowInv, KeyOK
  <2>2. m = n
    BY <2>1 DEF Key, pendingStateKey
  <2> QED
    BY <1>4, <2>1, <2>2
<1>6. acc(callback'[c]) =>
        \/ acc(callback[c]) /\ l = callback[c].state
        \/ l \in Logins /\ key \in DOMAIN store.entries /\ key \notin DOMAIN store'.entries
  BY <1>4
<1>7. ASSUME NEW k \in DOMAIN store'.entries PROVE KeyOK(k)'
  <2>1. PICK m \in Logins :
          /\ k = Key(login[m].session, m)
          /\ login[m].stage \in {"stored", "rendered", "delivered", "lost"}
          /\ \A d \in Callbacks : callback[d].state = m => ~Accepted(d)
    BY <1>7 DEF FlowInv, KeyOK
  <2>2. ASSUME NEW d \in Callbacks, callback'[d].state = m PROVE ~acc(callback'[d])
    <3>1. CASE d # c
      BY <1>4, <2>1, <2>2, <3>1
    <3>2. CASE d = c
      <4>1. l = m
        BY <2>2, <3>2
      <4>2. key = k
        BY <2>1, <4>1
      <4> QED
        BY <1>4, <1>6, <1>7, <2>1, <3>2, <4>1, <4>2
    <3> QED
      BY <3>1, <3>2
  <2> QED
    BY <2>1, <2>2 DEF KeyOK, Accepted, Key
<1>8. StateIsSingleUse'
  <2> SUFFICES ASSUME NEW d \in Callbacks, NEW e \in Callbacks, d # e,
                      acc(callback'[d]), acc(callback'[e]),
                      callback'[d].state = callback'[e].state
               PROVE  FALSE
    BY DEF StateIsSingleUse, Accepted
  <2>1. \A x, y \in Callbacks :
          acc(callback[x]) /\ acc(callback[y]) /\ callback[x].state = callback[y].state => x = y
    BY <1>4 DEF FlowInv, StateIsSingleUse
  <2>2. ASSUME NEW x \in Callbacks \ {c}, acc(callback'[x]), acc(callback'[c]),
               callback'[x].state = callback'[c].state
        PROVE  FALSE
    <3>1. callback'[x] = callback[x]
      OBVIOUS
    <3> QED
      BY <1>5, <1>6, <2>1, <2>2, <3>1
  <2>3. d = c \/ e = c
    BY <2>1
  <2> QED
    BY <2>2, <2>3
<1> QED
  BY <1>1, <1>2, <1>3, <1>7, <1>8 DEF FlowInv

\* The initial state satisfies the invariant.
LEMMA InitInv == Init => FlowInv
<1> SUFFICES ASSUME Init PROVE FlowInv
  OBVIOUS
<1>1. Types
  BY LoginFlowAssumption, SMT
  DEF Init, Types, LoginRecords, CallbackRecords, LoginStages, CallbackStages, Answers,
      NoLogin, NoCallback, NoCookie
<1>2. \A l \in Logins : LoginOK(login[l])
  BY DEF Init, LoginOK, NoLogin
<1>3. \A c \in Callbacks : CallbackOK(callback[c]) /\ ~Accepted(c)
  BY DEF Init, CallbackOK, NoCallback, Accepted
<1>4. DOMAIN store.entries = {}
  BY DEF Init, newPendingStateStore
<1> QED
  BY <1>1, <1>2, <1>3, <1>4 DEF FlowInv, StateIsSingleUse

\* A step that only changes the stage of a login, with the key of its state pending
\* before and after, or not after.
LEMMA StageMoves ==
  ASSUME FlowInv, NEW l \in Logins, login[l].stage # "delivered",
         NEW stage \in LoginStages \ {"idle"},
         login' = [login EXCEPT ![l].stage = stage],
         stage = "failed" \/ login[l].stage \in {"signed", "stored", "rendered"},
         UNCHANGED <<callback, jar, clock>>,
         \/ DOMAIN store'.entries \subseteq DOMAIN store.entries
            /\ (Key(login[l].session, l) \notin DOMAIN store'.entries
                \/ stage \in {"stored", "rendered", "delivered", "lost"})
         \/ DOMAIN store'.entries \subseteq DOMAIN store.entries \cup {Key(login[l].session, l)}
            /\ stage \in {"stored", "rendered", "delivered", "lost"}
  PROVE  FlowInv'
<1>1. login \in [Logins -> LoginRecords] /\ LoginOK(login[l])
  BY DEF FlowInv, Types
<1>2. /\ login' \in [Logins -> LoginRecords]
      /\ login'[l].stage = stage /\ login'[l].browser = login[l].browser
      /\ login'[l].session = login[l].session /\ login'[l].now = login[l].now
      /\ login'[l].arrived = login[l].arrived
      /\ \A m \in Logins \ {l} : login'[m] = login[m]
  <2> DEFINE g == [login EXCEPT ![l].stage = stage]
  <2>1. /\ g \in [Logins -> LoginRecords]
        /\ g[l].stage = stage /\ g[l].browser = login[l].browser
        /\ g[l].session = login[l].session /\ g[l].now = login[l].now
        /\ g[l].arrived = login[l].arrived
        /\ \A m \in Logins \ {l} : g[m] = login[m]
    <3>1. g = [login EXCEPT ![l].stage = stage]
      OBVIOUS
    <3> HIDE DEF g
    <3> QED
      BY <1>1, <3>1, LoginStageChanges
  <2> HIDE DEF g
  <2>2. login' = g
    BY DEF g
  <2> QED
    BY <2>1, <2>2
<1>3. LoginOK(login'[l])
  BY <1>1, <1>2 DEF LoginOK
<1>4. jar' \in [Browsers -> [session : Logins \cup {None}, until : Nat]]
  BY DEF FlowInv, Types
<1>5. \A k \in DOMAIN store'.entries :
        \/ k = Key(login'[l].session, l)
           /\ login'[l].stage \in {"stored", "rendered", "delivered", "lost"}
        \/ k \in DOMAIN store.entries /\ k # Key(login[l].session, l)
  BY <1>2
<1> QED
  BY <1>2, <1>3, <1>4, <1>5, LoginMoves

\* The key of a login whose state is not stored yet is not pending.
LEMMA NotYetPending ==
  ASSUME FlowInv, NEW l \in Logins,
         login[l].stage \notin {"stored", "rendered", "delivered", "lost"}, NEW x
  PROVE  Key(x, l) \notin DOMAIN store.entries
BY DEF FlowInv, KeyOK, Key, pendingStateKey

LEMMA SignInv ==
  ASSUME FlowInv, NEW l \in Logins, NEW b \in Browsers, NEW bot \in Bots,
         SignState(l, b, bot)
  PROVE  FlowInv'
<1> DEFINE cookie == loginSessionID(b)
           new == [stage |-> "signed", browser |-> b, bot |-> bot,
                   session |-> IF cookie = None THEN l ELSE cookie,
                   now |-> clock, arrived |-> 0]
<1>1. /\ login \in [Logins -> LoginRecords] /\ clock \in Nat
      /\ jar \in [Browsers -> [session : Logins \cup {None}, until : Nat]]
  BY DEF FlowInv, Types
<1>2. login' = [login EXCEPT ![l] = new] /\ login[l].stage = "idle"
      /\ UNCHANGED <<store, callback, jar, clock>>
  BY DEF SignState
<1>3. cookie \in Logins \cup {None}
  BY <1>1 DEF loginSessionID
<1>4. /\ new \in LoginRecords /\ new.stage = "signed" /\ new.session \in Logins
      /\ new.browser \in Browsers /\ new.now = clock /\ new.arrived = 0
  BY <1>1, <1>3, SMT DEF LoginRecords, LoginStages
<1> HIDE DEF new
<1>5. /\ login' \in [Logins -> LoginRecords] /\ login'[l] = new
      /\ \A m \in Logins \ {l} : login'[m] = login[m]
  BY <1>1, <1>2, <1>4
<1>6. LoginOK(login'[l])
  BY <1>1, <1>4, <1>5 DEF LoginOK
<1>7. Key(login[l].session, l) \notin DOMAIN store.entries
  BY <1>2, NotYetPending
<1> QED
  BY <1>1, <1>2, <1>5, <1>6, <1>7, LoginMoves

LEMMA StoreInv ==
  ASSUME FlowInv, NEW l \in Logins, StoreState(l)
  PROVE  FlowInv'
<1> DEFINE r == login[l]
           key == Key(r.session, l)
           a == Add(store, key, r.now + StateTTL, r.now)
<1>1. /\ r.stage = "signed" /\ store' = a.store
      /\ a.result = "atCapacity" => login' = [login EXCEPT ![l].stage = "failed"]
      /\ a.result # "atCapacity" => login' = [login EXCEPT ![l].stage = "stored"]
      /\ UNCHANGED <<callback, jar, clock>>
  BY DEF StoreState
<1>2. /\ DOMAIN store'.entries \subseteq DOMAIN store.entries \cup {key}
      /\ a.result = "atCapacity" => DOMAIN store'.entries \subseteq DOMAIN store.entries
  BY <1>1, AddGrows
<1>3. key \notin DOMAIN store.entries
  BY <1>1, NotYetPending
<1> HIDE DEF a
<1>4. CASE a.result = "atCapacity"
  <2>1. key \notin DOMAIN store'.entries /\ "failed" \in LoginStages \ {"idle"}
    BY <1>2, <1>3, <1>4 DEF LoginStages
  <2> QED
    BY <1>1, <1>2, <1>4, <2>1, StageMoves
<1>5. CASE a.result # "atCapacity"
  <2>1. "stored" \in LoginStages \ {"idle"}
    BY DEF LoginStages
  <2> QED
    BY <1>1, <1>2, <1>5, <2>1, StageMoves
<1> QED
  BY <1>4, <1>5

LEMMA DeliverInv ==
  ASSUME FlowInv, NEW l \in Logins, DeliverPage(l)
  PROVE  FlowInv'
<1> DEFINE r == login[l]
           new == Arrived(r)
           cookie == setLoginSessionCookie(r.session)
<1>1. /\ login \in [Logins -> LoginRecords] /\ clock \in Nat /\ LoginOK(r)
      /\ jar \in [Browsers -> [session : Logins \cup {None}, until : Nat]]
  BY DEF FlowInv, Types
<1>2. /\ r.stage = "rendered" /\ login' = [login EXCEPT ![l] = new]
      /\ jar' = [jar EXCEPT ![r.browser] = cookie]
      /\ UNCHANGED <<store, callback, clock>>
  BY DEF DeliverPage
<1>3. /\ new \in LoginRecords /\ new.stage = "delivered" /\ new.session = r.session
      /\ new.browser = r.browser /\ new.now = r.now /\ new.arrived = clock
  BY <1>1, SMT DEF Arrived, LoginRecords, LoginStages
<1>4. cookie \in [session : Logins \cup {None}, until : Nat]
  BY <1>1, LoginFlowAssumption, SMT DEF setLoginSessionCookie, LoginRecords
<1> HIDE DEF new, cookie
<1>5. /\ login' \in [Logins -> LoginRecords] /\ login'[l] = new
      /\ \A m \in Logins \ {l} : login'[m] = login[m]
  BY <1>1, <1>2, <1>3
<1>6. LoginOK(login'[l])
  BY <1>1, <1>2, <1>3, <1>5 DEF LoginOK
<1>7. jar' \in [Browsers -> [session : Logins \cup {None}, until : Nat]]
  BY <1>1, <1>2, <1>4
<1>8. /\ login'[l].stage \in {"stored", "rendered", "delivered", "lost"}
      /\ login'[l].session = login[l].session
  BY <1>3, <1>5
<1>9. \A k \in DOMAIN store'.entries :
        \/ k = Key(login'[l].session, l)
           /\ login'[l].stage \in {"stored", "rendered", "delivered", "lost"}
        \/ k \in DOMAIN store.entries /\ k # Key(login[l].session, l)
  BY <1>2, <1>8
<1>10. login[l].stage # "delivered" /\ UNCHANGED <<callback, clock>>
  BY <1>2
<1> QED
  BY <1>5, <1>6, <1>7, <1>8, <1>9, <1>10, LoginMoves

\* Every step of a login's handler keeps the invariant.
LEMMA HandleLoginInv ==
  ASSUME FlowInv, NEW l \in Logins, HandleLogin(l)
  PROVE  FlowInv'
<1>1. {"failed", "rendered", "lost"} \subseteq LoginStages \ {"idle"}
  BY DEF LoginStages
<1>2. CASE RefuseLogin(l)
  <2>1. /\ login[l].stage = "idle" /\ login' = [login EXCEPT ![l].stage = "failed"]
        /\ UNCHANGED <<store, callback, jar, clock>>
    BY <1>2 DEF RefuseLogin
  <2>2. Key(login[l].session, l) \notin DOMAIN store.entries
    BY <2>1, NotYetPending
  <2> QED
    BY <1>1, <2>1, <2>2, StageMoves
<1>3. CASE \E b \in Browsers, bot \in Bots : SignState(l, b, bot)
  BY <1>3, SignInv
<1>4. CASE StoreState(l)
  BY <1>4, StoreInv
<1>5. CASE RenderFails(l)
  <2> DEFINE key == Key(login[l].session, l)
             a == Consume(store, key, login[l].now)
  <2>1. /\ login[l].stage = "stored" /\ login' = [login EXCEPT ![l].stage = "failed"]
        /\ store' = a.store /\ UNCHANGED <<callback, jar, clock>>
    BY <1>5 DEF RenderFails
  <2>2. DOMAIN store'.entries \subseteq DOMAIN store.entries /\ key \notin DOMAIN store'.entries
    BY <2>1, ConsumeShrinks
  <2> HIDE DEF a
  <2> QED
    BY <1>1, <2>1, <2>2, StageMoves
<1>6. CASE RenderPage(l)
  BY <1>1, <1>6, StageMoves DEF RenderPage
<1>7. CASE DeliverPage(l)
  BY <1>7, DeliverInv
<1>8. CASE LosePage(l)
  BY <1>1, <1>8, StageMoves DEF LosePage
<1> QED
  BY <1>2, <1>3, <1>4, <1>5, <1>6, <1>7, <1>8 DEF HandleLogin

\* An answer leaves nothing of a callback but its state and whether it was accepted.
LEMMA AnswerMoves ==
  ASSUME FlowInv, NEW c \in Callbacks, Running(c),
         NEW answer \in Answers, answer # "none", Answer(c, answer),
         UNCHANGED <<login, jar, clock>>,
         DOMAIN store'.entries \subseteq DOMAIN store.entries
  PROVE  FlowInv'
<1> DEFINE new == Answered(c, answer)
<1>1. /\ callback \in [Callbacks -> CallbackRecords] /\ callback[c] \in CallbackRecords
      /\ CallbackOK(callback[c]) /\ callback[c].stage # "idle"
  BY DEF FlowInv, Types, Running
<1>2. /\ new \in CallbackRecords /\ new.state = callback[c].state /\ new.answer # "none"
      /\ new.stage # "idle" /\ (new.stage \notin {"idle", "sent"} => Accepted(c))
  BY <1>1, SMT DEF Answered, CallbackRecords, CallbackStages
<1>3. callback' = [callback EXCEPT ![c] = new]
  BY DEF Answer
<1> HIDE DEF new
<1>4. /\ callback' \in [Callbacks -> CallbackRecords] /\ callback'[c] = new
      /\ \A d \in Callbacks \ {c} : callback'[d] = callback[d]
  BY <1>1, <1>2, <1>3
<1>5. CallbackOK(callback'[c])
  BY <1>1, <1>2, <1>4 DEF CallbackOK
<1> QED
  BY <1>2, <1>4, <1>5, CallbackMoves

\* What a callback's record is when only its stage has changed.
LEMMA AdvanceFields ==
  ASSUME FlowInv, NEW c \in Callbacks, NEW stage \in CallbackStages, Advance(c, stage)
  PROVE  LET new == callback'[c]
             r   == callback[c]
         IN /\ callback' \in [Callbacks -> CallbackRecords]
            /\ \A d \in Callbacks \ {c} : callback'[d] = callback[d]
            /\ new.stage = stage /\ new.answer = r.answer /\ new.bot = r.bot
            /\ new.session = r.session /\ new.state = r.state /\ new.nonce = r.nonce
            /\ new.expires = r.expires /\ new.now = r.now /\ new.issued = r.issued
            /\ new.jwtExpires = r.jwtExpires
<1> DEFINE g == [callback EXCEPT ![c].stage = stage]
           r == callback[c]
<1>1. callback \in [Callbacks -> CallbackRecords]
  BY DEF FlowInv, Types
<1>2. /\ g \in [Callbacks -> CallbackRecords]
      /\ \A d \in Callbacks \ {c} : g[d] = callback[d]
      /\ g[c].stage = stage /\ g[c].answer = r.answer /\ g[c].bot = r.bot
      /\ g[c].session = r.session /\ g[c].state = r.state /\ g[c].nonce = r.nonce
      /\ g[c].expires = r.expires /\ g[c].now = r.now /\ g[c].issued = r.issued
      /\ g[c].jwtExpires = r.jwtExpires
  <2>1. g = [callback EXCEPT ![c].stage = stage]
    OBVIOUS
  <2> HIDE DEF g
  <2> QED
    BY <1>1, <2>1, CallbackStageChanges
<1> HIDE DEF g
<1>3. callback' = g
  BY DEF g, Advance
<1> QED
  BY <1>2, <1>3

\* A callback that was accepted goes on: everything that holds of it still does.
LEMMA AdvanceMoves ==
  ASSUME FlowInv, NEW c \in Callbacks, Accepted(c), callback[c].answer = "none",
         NEW stage \in {"validated", "linked", "relayed"}, Advance(c, stage),
         \/ callback[c].nonce = callback[c].state /\ stage = "validated"
         \/ callback[c].stage = "validated" /\ stage = "linked"
         \/ callback[c].stage = "issued" /\ stage = "relayed",
         UNCHANGED <<store, login, jar, clock>>
  PROVE  FlowInv'
<1> DEFINE new == callback'[c]
           r == callback[c]
<1>1. stage \in CallbackStages
  BY DEF CallbackStages
<1>2. /\ callback' \in [Callbacks -> CallbackRecords]
      /\ \A d \in Callbacks \ {c} : callback'[d] = callback[d]
      /\ new.stage = stage /\ new.answer = r.answer /\ new.bot = r.bot
      /\ new.session = r.session /\ new.state = r.state /\ new.nonce = r.nonce
      /\ new.expires = r.expires /\ new.now = r.now /\ new.issued = r.issued
      /\ new.jwtExpires = r.jwtExpires
  BY <1>1, AdvanceFields
<1>3. CallbackOK(r)
  BY DEF FlowInv
<1> HIDE DEF new
<1>4. CallbackOK(new)
  BY <1>2, <1>3 DEF CallbackOK, Accepted
<1> QED
  BY <1>2, <1>4, CallbackMoves DEF new

\* consume: whoever gets past it has taken the one pending key of its state, which was
\* issued to the same session.
LEMMA ConsumeInv ==
  ASSUME FlowInv, NEW c \in Callbacks, ConsumeState(c)
  PROVE  FlowInv'
<1> DEFINE r == callback[c]
           new == callback'[c]
           key == Key(r.session, r.state)
           a == Consume(store, key, r.now)
<1>1. /\ Running(c) /\ r.stage = "sent" /\ StateVerifies(r) /\ store' = a.store
      /\ a.result => Advance(c, "accepted")
      /\ ~a.result => Answer(c, "error")
      /\ UNCHANGED <<login, jar, clock>>
  BY DEF ConsumeState
<1>2. /\ DOMAIN store'.entries \subseteq DOMAIN store.entries /\ key \notin DOMAIN store'.entries
      /\ a.result => key \in DOMAIN store.entries
  BY <1>1, ConsumeShrinks
<1> HIDE DEF a
<1>3. CASE ~a.result
  <2>1. "error" \in Answers
    BY DEF Answers
  <2> QED
    BY <1>1, <1>2, <1>3, <2>1, AnswerMoves
<1>4. CASE a.result
  <2>1. "accepted" \in CallbackStages
    BY DEF CallbackStages
  <2>2. /\ callback' \in [Callbacks -> CallbackRecords]
        /\ \A d \in Callbacks \ {c} : callback'[d] = callback[d]
        /\ new.stage = "accepted" /\ new.answer = r.answer /\ new.bot = r.bot
        /\ new.session = r.session /\ new.state = r.state /\ new.now = r.now
    BY <1>1, <1>4, <2>1, AdvanceFields
  <2>3. CallbackOK(r) /\ r.answer = "none"
    BY <1>1 DEF FlowInv, Running
  <2>4. r.state \in Logins /\ login[r.state].stage = "delivered"
    BY <1>1, <2>3 DEF CallbackOK
  <2>5. PICK m \in Logins : key = Key(login[m].session, m)
    BY <1>2, <1>4 DEF FlowInv, KeyOK
  <2>6. login[r.state].session = r.session
    BY <2>5 DEF Key, pendingStateKey
  <2> HIDE DEF new
  <2>7. CallbackOK(new)
    BY <1>1, <2>2, <2>3, <2>4, <2>6 DEF CallbackOK, StateVerifies
  <2>8. LET l == new.state
        IN /\ l \in Logins
           /\ Key(login[l].session, l) \in DOMAIN store.entries
           /\ Key(login[l].session, l) \notin DOMAIN store'.entries
    BY <1>2, <1>4, <2>2, <2>4, <2>6
  <2> QED
    BY <1>1, <1>2, <2>2, <2>7, <2>8, CallbackMoves DEF new
<1> QED
  BY <1>3, <1>4

LEMMA PostInv ==
  ASSUME FlowInv, NEW c \in Callbacks, NEW b \in Browsers, NEW bot \in Bots,
         NEW l \in Logins, NEW n \in Logins, PostCallback(c, b, bot, l, n)
  PROVE  FlowInv'
<1> DEFINE session == loginSessionID(b)
           new == [stage |-> "sent", answer |-> "none", bot |-> bot, session |-> session,
                   state |-> l, nonce |-> n, expires |-> clock + TokenTTL, now |-> clock,
                   issued |-> 0, jwtExpires |-> 0]
<1>1. /\ callback \in [Callbacks -> CallbackRecords] /\ clock \in Nat
      /\ jar \in [Browsers -> [session : Logins \cup {None}, until : Nat]]
  BY DEF FlowInv, Types
<1>2. /\ callback' = [callback EXCEPT ![c] = new] /\ login[l].stage = "delivered"
      /\ UNCHANGED <<store, login, jar, clock>>
  BY DEF PostCallback
<1>3. session \in Logins \cup {None}
  BY <1>1 DEF loginSessionID
<1>4. new \in CallbackRecords /\ new.stage = "sent" /\ new.state = l /\ new.now = clock
  BY <1>1, <1>3, LoginFlowAssumption, SMT DEF CallbackRecords, CallbackStages, Answers
<1> HIDE DEF new
<1>5. /\ callback' \in [Callbacks -> CallbackRecords] /\ callback'[c] = new
      /\ \A d \in Callbacks \ {c} : callback'[d] = callback[d]
  BY <1>1, <1>2, <1>4
<1>6. CallbackOK(callback'[c])
  BY <1>1, <1>2, <1>4, <1>5 DEF CallbackOK
<1> QED
  BY <1>2, <1>4, <1>5, <1>6, CallbackMoves

LEMMA IssueInv ==
  ASSUME FlowInv, NEW c \in Callbacks, IssueJWT(c)
  PROVE  FlowInv'
<1> DEFINE r == callback[c]
           new == [stage |-> "issued", answer |-> "none", bot |-> r.bot,
                   session |-> r.session, state |-> r.state, nonce |-> r.nonce,
                   expires |-> r.expires, now |-> r.now,
                   issued |-> clock, jwtExpires |-> RelayExpiry(r)]
<1>1. /\ callback \in [Callbacks -> CallbackRecords] /\ clock \in Nat
      /\ r \in CallbackRecords /\ CallbackOK(r)
  BY DEF FlowInv, Types
<1>2. /\ callback' = [callback EXCEPT ![c] = new] /\ Running(c) /\ r.stage = "linked"
      /\ RelayExpiry(r) - clock >= MinLifetime /\ UNCHANGED <<store, login, jar, clock>>
  BY DEF IssueJWT
<1>3. r.expires \in Nat /\ RelayExpiry(r) \in Nat /\ RelayExpiry(r) <= r.expires
  BY <1>1, LoginFlowAssumption, SMT DEF RelayExpiry, CallbackRecords
<1>4. new \in CallbackRecords
  BY <1>1, <1>3, SMT DEF CallbackRecords, CallbackStages, Answers
<1>5. /\ new.stage = "issued" /\ new.session = r.session /\ new.bot = r.bot
      /\ new.state = r.state /\ new.nonce = r.nonce /\ new.now = r.now
      /\ new.expires = r.expires /\ new.issued = clock /\ new.jwtExpires = RelayExpiry(r)
  OBVIOUS
<1> HIDE DEF new
<1>6. new.issued + MinLifetime <= new.jwtExpires /\ new.jwtExpires <= new.expires
  BY <1>1, <1>2, <1>3, <1>5, LoginFlowAssumption
<1>7. CallbackOK(new)
  BY <1>1, <1>2, <1>5, <1>6 DEF CallbackOK, Running
<1>8. /\ callback' \in [Callbacks -> CallbackRecords] /\ callback'[c] = new
      /\ \A d \in Callbacks \ {c} : callback'[d] = callback[d]
  BY <1>1, <1>2, <1>4
<1>9. Accepted(c)
  BY <1>2 DEF Accepted
<1> QED
  BY <1>2, <1>5, <1>7, <1>8, <1>9, CallbackMoves

\* Every step of a callback's handler keeps the invariant.
LEMMA HandleTelegramAuthInv ==
  ASSUME FlowInv, NEW c \in Callbacks, HandleTelegramAuth(c)
  PROVE  FlowInv'
<1> DEFINE Ends == /\ Running(c) /\ UNCHANGED <<store, login, jar, clock>>
                   /\ \E answer \in {"error", "redirect"} : Answer(c, answer)
<1>1. ASSUME Ends PROVE FlowInv'
  <2>1. {"error", "redirect"} \subseteq Answers \ {"none"}
    BY DEF Answers
  <2> QED
    BY <1>1, <2>1, AnswerMoves
<1>2. Running(c) => callback[c].answer = "none"
  BY DEF Running
<1>3. CASE \E b \in Browsers, bot \in Bots, l, n \in Logins : PostCallback(c, b, bot, l, n)
  BY <1>3, PostInv
<1>4. CASE RefuseCallback(c)
  BY <1>1, <1>4 DEF RefuseCallback
<1>5. CASE RejectState(c)
  BY <1>1, <1>5 DEF RejectState
<1>6. CASE ConsumeState(c)
  BY <1>6, ConsumeInv
<1>7. CASE ValidateToken(c)
  BY <1>2, <1>7, AdvanceMoves DEF ValidateToken, TokenValid, Accepted
<1>8. CASE RejectToken(c)
  BY <1>1, <1>8 DEF RejectToken
<1>9. CASE LinkAccount(c)
  BY <1>2, <1>9, AdvanceMoves DEF LinkAccount, Accepted
<1>10. CASE LinkFails(c)
  BY <1>1, <1>10 DEF LinkFails
<1>11. CASE IssueJWT(c)
  BY <1>11, IssueInv
<1>12. CASE IssueFails(c)
  BY <1>1, <1>12 DEF IssueFails
<1>13. CASE Relay(c)
  BY <1>2, <1>13, AdvanceMoves DEF Relay, Accepted
<1>14. CASE AnswerRelay(c)
  BY <1>1, <1>14 DEF AnswerRelay
<1> QED
  BY <1>3, <1>4, <1>5, <1>6, <1>7, <1>8, <1>9, <1>10, <1>11, <1>12, <1>13, <1>14
  DEF HandleTelegramAuth
-----------------------------------------------------------------------------
LEMMA TickInv == FlowInv /\ Tick => FlowInv'
<1> SUFFICES ASSUME FlowInv, Tick PROVE FlowInv'
  OBVIOUS
<1>1. /\ clock \in Nat /\ clock' = clock + 1
      /\ UNCHANGED <<store, login, callback, jar>> /\ login \in [Logins -> LoginRecords]
  BY DEF Tick, FlowInv, Types
<1>2. Types'
  BY <1>1 DEF FlowInv, Types
<1>3. ASSUME NEW l \in Logins PROVE LoginOK(login[l])'
  <2>1. login[l].now \in Nat /\ login[l].arrived \in Nat
    BY <1>1, SMT DEF LoginRecords
  <2> QED
    BY <1>1, <2>1 DEF FlowInv, LoginOK
<1>4. ASSUME NEW c \in Callbacks PROVE CallbackOK(callback[c])'
  <2>1. callback[c].now \in Nat
    BY SMT DEF FlowInv, Types, CallbackRecords
  <2> QED
    BY <1>1, <2>1 DEF FlowInv, CallbackOK
<1>5. \A k \in DOMAIN store'.entries : KeyOK(k)'
  BY <1>1 DEF FlowInv, KeyOK, Accepted, Key
<1>6. StateIsSingleUse'
  BY <1>1 DEF FlowInv, StateIsSingleUse, Accepted
<1> QED
  BY <1>2, <1>3, <1>4, <1>5, <1>6 DEF FlowInv

\* A restart leaves the pages that arrived, and of every callback its state and
\* whether it was accepted.
LEMMA RestartInv == FlowInv /\ Restart => FlowInv'
<1> SUFFICES ASSUME FlowInv, Restart PROVE FlowInv'
  OBVIOUS
<1>1. /\ login \in [Logins -> LoginRecords] /\ callback \in [Callbacks -> CallbackRecords]
      /\ jar \in [Browsers -> [session : Logins \cup {None}, until : Nat]] /\ clock \in Nat
  BY DEF FlowInv, Types
<1>2. /\ login' = [l \in Logins |->
           IF login[l].stage \in {"signed", "stored"}
           THEN [login[l] EXCEPT !.stage = "failed"] ELSE login[l]]
      /\ callback' = [c \in Callbacks |->
           IF Running(c) THEN Answered(c, "killed") ELSE callback[c]]
      /\ store' = newPendingStateStore /\ UNCHANGED <<jar, clock>>
  BY DEF Restart
<1>3. ASSUME NEW l \in Logins
      PROVE  /\ login'[l] \in LoginRecords /\ LoginOK(login'[l])
             /\ login[l].stage = "delivered" => login'[l] = login[l]
  <2>1. login[l] \in LoginRecords /\ LoginOK(login[l])
    BY <1>1 DEF FlowInv
  <2>2. CASE login[l].stage \in {"signed", "stored"}
    <3> DEFINE new == [login[l] EXCEPT !.stage = "failed"]
    <3>1. /\ new \in LoginRecords /\ new.stage = "failed" /\ new.now = login[l].now
          /\ new.arrived = login[l].arrived
      BY <2>1, SMT DEF LoginRecords, LoginStages
    <3>2. login'[l] = new
      BY <1>2, <2>2
    <3> HIDE DEF new
    <3> QED
      BY <2>1, <2>2, <3>1, <3>2 DEF LoginOK
  <2>3. CASE login[l].stage \notin {"signed", "stored"}
    BY <1>2, <2>1, <2>3
  <2> QED
    BY <2>2, <2>3
<1>4. ASSUME NEW c \in Callbacks
      PROVE  /\ callback'[c] \in CallbackRecords /\ CallbackOK(callback[c])'
             /\ callback'[c].stage \notin {"idle", "sent"} =>
                  Accepted(c) /\ callback'[c].state = callback[c].state
  <2>1. callback[c] \in CallbackRecords /\ CallbackOK(callback[c])
    BY <1>1 DEF FlowInv
  <2>2. callback[c].stage # "idle" =>
          /\ callback[c].state \in Logins
          /\ login'[callback[c].state] = login[callback[c].state]
    BY <1>3, <2>1 DEF CallbackOK
  <2>3. CASE Running(c)
    <3> DEFINE new == Answered(c, "killed")
    <3>1. /\ new \in CallbackRecords /\ new.state = callback[c].state /\ new.answer = "killed"
          /\ new.stage # "idle" /\ (new.stage \notin {"idle", "sent"} => Accepted(c))
      BY <2>1, SMT DEF Answered, CallbackRecords, CallbackStages, Answers
    <3>2. callback'[c] = new /\ callback[c].stage # "idle"
      BY <1>2, <2>3 DEF Running
    <3> HIDE DEF new
    <3> QED
      BY <2>1, <2>2, <3>1, <3>2 DEF CallbackOK
  <2>4. CASE ~Running(c)
    <3>1. callback'[c] = callback[c]
      BY <1>2, <2>4
    <3>2. callback[c].stage = "idle" \/ callback[c].answer # "none"
      BY <2>4 DEF Running
    <3> QED
      BY <2>1, <2>2, <3>1, <3>2 DEF CallbackOK, Accepted
  <2> QED
    BY <2>3, <2>4
<1>5. Types'
  <2>1. login' \in [Logins -> LoginRecords]
    BY <1>2, <1>3
  <2>2. callback' \in [Callbacks -> CallbackRecords]
    BY <1>2, <1>4
  <2> QED
    BY <1>1, <1>2, <2>1, <2>2 DEF Types
<1>6. \A l \in Logins : LoginOK(login[l])'
  BY <1>2, <1>3 DEF LoginOK
<1>7. DOMAIN store'.entries = {}
  BY <1>2 DEF newPendingStateStore
<1>8. StateIsSingleUse'
  <2>1. \A c \in Callbacks : Accepted(c)' =>
          Accepted(c) /\ callback'[c].state = callback[c].state
    BY <1>4 DEF Accepted
  <2> QED
    BY <2>1 DEF FlowInv, StateIsSingleUse
<1>9. \A c \in Callbacks : CallbackOK(callback[c])'
  BY <1>4
<1> QED
  BY <1>5, <1>6, <1>7, <1>8, <1>9 DEF FlowInv

LEMMA StutterInv == FlowInv /\ UNCHANGED vars => FlowInv'
<1> SUFFICES ASSUME FlowInv, UNCHANGED vars PROVE FlowInv'
  OBVIOUS
<1>1. UNCHANGED <<store, login, callback, jar, clock>>
  BY DEF vars
<1>2. \A l \in Logins : LoginOK(login[l])'
  BY <1>1 DEF FlowInv, LoginOK
<1>3. \A c \in Callbacks : CallbackOK(callback[c])'
  BY <1>1 DEF FlowInv, CallbackOK
<1>4. \A k \in DOMAIN store'.entries : KeyOK(k)'
  BY <1>1 DEF FlowInv, KeyOK, Accepted, Key
<1> QED
  BY <1>1, <1>2, <1>3, <1>4 DEF FlowInv, Types, StateIsSingleUse, Accepted

\* The invariant holds of every behaviour.
THEOREM Invariant == Spec => []FlowInv
<1>1. FlowInv /\ [Next]_vars => FlowInv'
  <2> SUFFICES ASSUME FlowInv, [Next]_vars PROVE FlowInv'
    OBVIOUS
  <2>1. CASE \E l \in Logins : HandleLogin(l)
    BY <2>1, HandleLoginInv
  <2>2. CASE \E c \in Callbacks : HandleTelegramAuth(c)
    BY <2>2, HandleTelegramAuthInv
  <2>3. CASE Tick
    BY <2>3, TickInv
  <2>4. CASE Restart
    BY <2>4, RestartInv
  <2>5. CASE UNCHANGED vars
    BY <2>5, StutterInv
  <2> QED
    BY <2>1, <2>2, <2>3, <2>4, <2>5 DEF Next
<1> QED
  BY InitInv, <1>1, PTL DEF Spec

\* The variables have their types, and only states of logins are pending.
THEOREM FlowTypes == Spec => []TypeOK
<1> DEFINE Rest == /\ added \in Seq(Logins)
                   /\ clock \in 0..MaxClock /\ crashes \in 0..MaxCrashes
<1>1. Init => Rest
  BY LoginFlowAssumption DEF Init
<1>2. Rest /\ [Next]_vars => Rest'
  <2> SUFFICES ASSUME Rest, [Next]_vars PROVE Rest'
    OBVIOUS
  <2>1. CASE \E l \in Logins : HandleLogin(l)
    <3>1. PICK l \in Logins : HandleLogin(l)
      BY <2>1
    <3>2. CASE StoreState(l)
      <4>1. added' = added \/ added' = Append(added, l)
        BY <3>2 DEF StoreState
      <4> QED
        BY <3>2, <4>1 DEF StoreState
    <3>3. CASE ~StoreState(l)
      BY <3>1, <3>3 DEF HandleLogin, RefuseLogin, SignState, RenderFails, RenderPage,
        DeliverPage, LosePage
    <3> QED
      BY <3>2, <3>3
  <2>2. CASE \E c \in Callbacks : HandleTelegramAuth(c)
    BY <2>2 DEF HandleTelegramAuth, PostCallback, RefuseCallback, RejectState, ConsumeState,
      ValidateToken, RejectToken, LinkAccount, LinkFails, IssueJWT, IssueFails, Relay,
      AnswerRelay
  <2>3. CASE Tick
    BY <2>3, LoginFlowAssumption DEF Tick
  <2>4. CASE Restart
    BY <2>4, LoginFlowAssumption DEF Restart
  <2>5. CASE UNCHANGED vars
    BY <2>5 DEF vars
  <2> QED
    BY <2>1, <2>2, <2>3, <2>4, <2>5 DEF Next
<1>3. FlowInv /\ Rest => TypeOK
  <2> SUFFICES ASSUME FlowInv, Rest PROVE TypeOK
    OBVIOUS
  <2>1. ASSUME NEW k \in DOMAIN store.entries
        PROVE  k \in {Key(s, l) : s \in Logins, l \in Logins}
    <3>1. PICK l \in Logins :
            /\ k = Key(login[l].session, l)
            /\ login[l].stage \in {"stored", "rendered", "delivered", "lost"}
      BY <2>1 DEF FlowInv, KeyOK
    <3>2. login[l].session \in Logins
      BY <3>1 DEF FlowInv, LoginOK
    <3> QED
      BY <3>1, <3>2
  <2> QED
    BY <2>1 DEF FlowInv, Types, TypeOK, LoginRecords, CallbackRecords
<1> QED
  BY Invariant, <1>1, <1>2, <1>3, PTL DEF Spec

\* At most one callback ever gets past consume with the same state, whatever the
\* order of the handlers' steps and however often the service restarts.
THEOREM StateIsSingleUseHolds == Spec => []StateIsSingleUse
<1>1. FlowInv => StateIsSingleUse
  BY DEF FlowInv
<1> QED
  BY Invariant, <1>1, PTL

\* A callback gets past consume only with the session and for the bot its page was
\* issued to, after the page arrived and before its state expires.
THEOREM AcceptedFromItsPageHolds == Spec => []AcceptedFromItsPage
<1>1. FlowInv => AcceptedFromItsPage
  <2> SUFFICES ASSUME FlowInv, NEW c \in Callbacks, Running(c), Accepted(c)
               PROVE  LET l == login[callback[c].state]
                      IN /\ l.stage = "delivered"
                         /\ l.session = callback[c].session
                         /\ l.bot = callback[c].bot
                         /\ callback[c].now < l.now + StateTTL
    BY DEF AcceptedFromItsPage
  <2>1. CallbackOK(callback[c])
    BY DEF FlowInv
  <2> QED
    BY <2>1 DEF CallbackOK, Running, Accepted
<1> QED
  BY Invariant, <1>1, PTL

\* What is relayed stems from a token for the page of the state and does not outlive it.
THEOREM RelayWithinTokenHolds == Spec => []RelayWithinToken
<1>1. FlowInv => RelayWithinToken
  <2> SUFFICES ASSUME FlowInv, NEW c \in Callbacks, Running(c),
                      callback[c].stage \in {"issued", "relayed"}
               PROVE  LET r == callback[c]
                      IN /\ r.nonce = r.state
                         /\ r.issued + MinLifetime <= r.jwtExpires
                         /\ r.jwtExpires <= r.expires
    BY DEF RelayWithinToken
  <2>1. CallbackOK(callback[c])
    BY DEF FlowInv
  <2> QED
    BY <2>1 DEF CallbackOK, Running
<1> QED
  BY Invariant, <1>1, PTL

\* A login that was answered with an error holds no place in the store.
THEOREM FailedLoginHoldsNothingHolds == Spec => []FailedLoginHoldsNothing
<1>1. FlowInv => FailedLoginHoldsNothing
  <2> SUFFICES ASSUME FlowInv, NEW l \in Logins, login[l].stage = "failed", NEW s \in Logins
               PROVE  Key(s, l) \notin DOMAIN store.entries
    BY DEF FailedLoginHoldsNothing
  <2> QED
    BY NotYetPending
<1> QED
  BY Invariant, <1>1, PTL
-----------------------------------------------------------------------------
(* The browsers' sessions.                                                 *)

\* s is the session of l, or that of another page that the same browser had asked
\* for before l arrived.
Overlaps(l, s) ==
  \/ s = login[l].session
  \/ \E w \in Logins \ {l} : /\ login[w].browser = login[l].browser
                             /\ login[w].session = s
                             /\ login[w].now <= login[l].arrived

\* The cookie is at least as young as the page, and while the page has not expired
\* every request of the browser sends its session, which is why a request made then
\* brings no third one in.
BrowserOK(l) ==
  login[l].stage = "delivered" =>
    LET b == login[l].browser
    IN /\ jar[b].session \in Logins
       /\ login[l].now <= login[l].arrived
       /\ login[l].arrived + StateTTL <= jar[b].until
       /\ clock < login[l].now + StateTTL =>
            /\ Overlaps(l, jar[b].session)
            /\ \A m \in Logins : login[m].browser = b /\ login[m].session # None =>
                 Overlaps(l, login[m].session)

BrowserInv == FlowInv /\ \A l \in Logins : BrowserOK(l)

\* A step that delivers no page and leaves the browsers and sessions of the logins.
LEMMA JarKept ==
  ASSUME BrowserInv, UNCHANGED jar, clock' \in Nat, clock <= clock',
         \A l \in Logins :
           /\ login'[l].browser = login[l].browser /\ login'[l].session = login[l].session
           /\ login'[l].now = login[l].now /\ login'[l].arrived = login[l].arrived
           /\ login'[l].stage = "delivered" => login[l].stage = "delivered"
  PROVE  \A l \in Logins : BrowserOK(l)'
<1> SUFFICES ASSUME NEW l \in Logins, login'[l].stage = "delivered" PROVE BrowserOK(l)'
  BY DEF BrowserOK
<1>1. BrowserOK(l) /\ login[l].stage = "delivered"
  BY DEF BrowserInv
<1>2. clock \in Nat /\ login[l].now \in Nat
  BY SMT DEF BrowserInv, FlowInv, Types, LoginRecords
<1>3. clock' < login'[l].now + StateTTL => clock < login[l].now + StateTTL
  BY <1>2, LoginFlowAssumption
<1>4. ASSUME NEW s, Overlaps(l, s) PROVE Overlaps(l, s)'
  BY <1>4 DEF Overlaps
<1> QED
  BY <1>1, <1>3, <1>4 DEF BrowserOK

\* What a login's record is when only its stage has changed.
LEMMA StageFields ==
  ASSUME FlowInv, NEW l \in Logins, NEW stage \in LoginStages,
         login' = [login EXCEPT ![l].stage = stage]
  PROVE  \A m \in Logins :
           /\ login'[m].browser = login[m].browser /\ login'[m].session = login[m].session
           /\ login'[m].now = login[m].now /\ login'[m].arrived = login[m].arrived
           /\ login'[m].stage \in {login[m].stage, stage}
<1> DEFINE g == [login EXCEPT ![l].stage = stage]
<1>1. login \in [Logins -> LoginRecords]
  BY DEF FlowInv, Types
<1>2. /\ g[l].stage = stage /\ g[l].browser = login[l].browser
      /\ g[l].session = login[l].session /\ g[l].now = login[l].now
      /\ g[l].arrived = login[l].arrived
      /\ \A m \in Logins \ {l} : g[m] = login[m]
  <2>1. g = [login EXCEPT ![l].stage = stage]
    OBVIOUS
  <2> HIDE DEF g
  <2> QED
    BY <1>1, <2>1, LoginStageChanges
<1> HIDE DEF g
<1>3. login' = g
  BY DEF g
<1> QED
  BY <1>2, <1>3

\* The request that arrives sends the session of every page of its browser that has
\* not expired, or that which replaced it.
LEMMA SignBrowsers ==
  ASSUME BrowserInv, NEW k \in Logins, NEW b \in Browsers, NEW bot \in Bots,
         SignState(k, b, bot)
  PROVE  \A l \in Logins : BrowserOK(l)'
<1> DEFINE cookie == loginSessionID(b)
           new == [stage |-> "signed", browser |-> b, bot |-> bot,
                   session |-> IF cookie = None THEN k ELSE cookie,
                   now |-> clock, arrived |-> 0]
<1> USE DEF BrowserInv
<1>1. /\ login \in [Logins -> LoginRecords] /\ clock \in Nat
      /\ jar \in [Browsers -> [session : Logins \cup {None}, until : Nat]]
      /\ UNCHANGED <<jar, clock>> /\ login[k].stage = "idle"
      /\ login' = [login EXCEPT ![k] = new]
  BY DEF FlowInv, Types, SignState
<1>2. /\ login'[k] = new /\ new.stage # "delivered" /\ new.browser = b /\ new.now = clock
      /\ cookie # None => new.session = cookie
      /\ \A m \in Logins \ {k} : login'[m] = login[m]
  BY <1>1
<1> HIDE DEF new
<1> SUFFICES ASSUME NEW l \in Logins, login'[l].stage = "delivered" PROVE BrowserOK(l)'
  BY DEF BrowserOK
<1> DEFINE r == login[l]
<1>3. l # k /\ login'[l] = r /\ BrowserOK(l) /\ r.stage = "delivered"
  BY <1>2
<1>4. r.browser \in Browsers /\ r.now \in Nat /\ r.arrived \in Nat
  <2>1. r \in LoginRecords /\ LoginOK(r)
    BY <1>1 DEF FlowInv
  <2> QED
    BY <1>3, <2>1, SMT DEF LoginRecords, LoginOK
<1>5. /\ jar[r.browser].session \in Logins /\ r.now <= r.arrived
      /\ r.arrived + StateTTL <= jar[r.browser].until
  BY <1>3 DEF BrowserOK
<1>6. ASSUME clock < r.now + StateTTL
      PROVE  /\ Overlaps(l, jar[r.browser].session)'
             /\ \A m \in Logins : login'[m].browser = r.browser /\ login'[m].session # None =>
                  Overlaps(l, login[m].session)'
  <2>1. /\ Overlaps(l, jar[r.browser].session)
        /\ \A m \in Logins : login[m].browser = r.browser /\ login[m].session # None =>
             Overlaps(l, login[m].session)
    BY <1>3, <1>6 DEF BrowserOK
  <2>2. login[k].session = None
    BY <1>1 DEF FlowInv, LoginOK
  <2>3. jar[r.browser].session # None
    BY <1>5, LoginFlowAssumption
  <2>4. b = r.browser => cookie = jar[r.browser].session
    <3>1. jar[r.browser].until \in Nat
      BY <1>1, <1>4
    <3>2. clock < jar[r.browser].until
      BY <1>1, <1>4, <1>5, <1>6, <3>1, LoginFlowAssumption
    <3> QED
      BY <3>2 DEF loginSessionID
  <2>5. ASSUME NEW m \in Logins, login'[m].browser = r.browser, login'[m].session # None
        PROVE  Overlaps(l, login[m].session)'
    <3>1. CASE m = k
      <4>1. b = r.browser
        BY <1>2, <2>5, <3>1
      <4>2. new.session = jar[r.browser].session
        BY <1>2, <2>3, <2>4, <4>1
      <4>3. login'[m].session = jar[r.browser].session
        BY <1>2, <3>1, <4>2
      <4> QED
        BY <1>2, <1>3, <2>1, <2>2, <2>3, <4>3 DEF Overlaps
    <3>2. CASE m # k
      <4>1. login'[m] = login[m]
        BY <1>2, <3>2
      <4>2. Overlaps(l, login[m].session)
        BY <2>1, <2>5, <4>1
      <4> QED
        BY <1>2, <1>3, <2>2, <2>5, <4>1, <4>2 DEF Overlaps
    <3> QED
      BY <3>1, <3>2
  <2>6. Overlaps(l, jar[r.browser].session)'
    BY <1>1, <1>2, <1>3, <2>1, <2>2, <2>3 DEF Overlaps
  <2> QED
    BY <2>5, <2>6
<1> QED
  BY <1>1, <1>3, <1>5, <1>6 DEF BrowserOK

\* A page that arrives puts its own session into the cookie, which any page that was
\* there before already overlaps with.
LEMMA DeliverBrowsers ==
  ASSUME BrowserInv, NEW k \in Logins, DeliverPage(k)
  PROVE  \A l \in Logins : BrowserOK(l)'
<1> DEFINE r == login[k]
           new == Arrived(r)
           cookie == setLoginSessionCookie(r.session)
<1> USE DEF BrowserInv
<1>1. /\ login \in [Logins -> LoginRecords] /\ clock \in Nat /\ UNCHANGED clock
      /\ jar \in [Browsers -> [session : Logins \cup {None}, until : Nat]]
      /\ r.stage = "rendered"
      /\ login' = [login EXCEPT ![k] = new] /\ jar' = [jar EXCEPT ![r.browser] = cookie]
  BY DEF FlowInv, Types, DeliverPage
<1>2. /\ r \in LoginRecords /\ r.session \in Logins /\ r.browser \in Browsers
      /\ r.now \in Nat /\ r.now <= clock
  BY <1>1, SMT DEF FlowInv, LoginOK, LoginRecords
<1>3. /\ new.stage = "delivered" /\ new.session = r.session /\ new.browser = r.browser
      /\ new.now = r.now /\ new.arrived = clock
      /\ cookie.session = r.session /\ cookie.until = clock + StateTTL
  BY DEF Arrived, setLoginSessionCookie
<1> HIDE DEF new, cookie
<1>4. /\ login'[k] = new /\ \A m \in Logins \ {k} : login'[m] = login[m]
      /\ jar'[r.browser] = cookie /\ \A b \in Browsers \ {r.browser} : jar'[b] = jar[b]
  BY <1>1, <1>2
<1>5. \A m \in Logins :
        /\ login'[m].browser = login[m].browser /\ login'[m].session = login[m].session
        /\ login'[m].now = login[m].now
  BY <1>3, <1>4
<1>6. BrowserOK(k)'
  <2>1. ASSUME NEW m \in Logins, login'[m].browser = r.browser
        PROVE  Overlaps(k, login[m].session)'
    <3>1. login[m].now <= clock
      BY DEF FlowInv, LoginOK
    <3> QED
      BY <1>3, <1>4, <1>5, <2>1, <3>1 DEF Overlaps
  <2>2. Overlaps(k, jar[r.browser].session)'
    BY <1>3, <1>4 DEF Overlaps
  <2> QED
    BY <1>1, <1>2, <1>3, <1>4, <2>1, <2>2, LoginFlowAssumption DEF BrowserOK
<1>7. ASSUME NEW l \in Logins \ {k}, login'[l].stage = "delivered" PROVE BrowserOK(l)'
  <2> DEFINE x == login[l]
  <2>1. login'[l] = x /\ BrowserOK(l) /\ x.stage = "delivered"
    BY <1>4, <1>7
  <2>2. x.browser \in Browsers /\ x.now \in Nat /\ x.arrived \in Nat /\ x.arrived <= clock
    <3>1. x \in LoginRecords /\ LoginOK(x)
      BY <1>1 DEF FlowInv
    <3> QED
      BY <2>1, <3>1, SMT DEF LoginRecords, LoginOK
  <2>3. ASSUME NEW s, Overlaps(l, s) PROVE Overlaps(l, s)'
    BY <1>5, <2>1, <2>3 DEF Overlaps
  <2>4. r.session # None
    BY <1>2, LoginFlowAssumption
  <2>5. ASSUME clock < x.now + StateTTL
        PROVE  /\ Overlaps(l, jar[x.browser].session)'
               /\ \A m \in Logins :
                    login'[m].browser = x.browser /\ login'[m].session # None =>
                      Overlaps(l, login[m].session)'
    <3>1. /\ Overlaps(l, jar[x.browser].session)
          /\ \A m \in Logins : login[m].browser = x.browser /\ login[m].session # None =>
               Overlaps(l, login[m].session)
      BY <2>1, <2>5 DEF BrowserOK
    <3>2. ASSUME NEW m \in Logins, login'[m].browser = x.browser, login'[m].session # None
          PROVE  Overlaps(l, login[m].session)'
      <4>1. Overlaps(l, login[m].session)
        BY <1>5, <3>1, <3>2
      <4> QED
        BY <1>5, <2>1, <4>1 DEF Overlaps
    <3>3. CASE x.browser = r.browser
      <4>1. Overlaps(l, r.session)
        BY <2>4, <3>1, <3>3
      <4>2. jar'[x.browser].session = r.session
        BY <1>3, <1>4, <3>3
      <4>3. Overlaps(l, jar[x.browser].session)'
        BY <1>5, <2>1, <4>1, <4>2 DEF Overlaps
      <4> QED
        BY <3>2, <4>3
    <3>4. CASE x.browser # r.browser
      <4>1. jar'[x.browser] = jar[x.browser]
        BY <1>4, <2>2, <3>4
      <4>2. Overlaps(l, jar[x.browser].session)'
        BY <1>5, <2>1, <3>1, <4>1 DEF Overlaps
      <4> QED
        BY <3>2, <4>2
    <3> QED
      BY <3>3, <3>4
  <2>6. /\ jar'[x.browser].session \in Logins
        /\ x.arrived + StateTTL <= jar'[x.browser].until
    <3>1. /\ jar[x.browser].session \in Logins
          /\ x.arrived + StateTTL <= jar[x.browser].until
      BY <2>1 DEF BrowserOK
    <3> QED
      BY <1>1, <1>2, <1>3, <1>4, <2>2, <3>1, LoginFlowAssumption
  <2>7. x.now <= x.arrived
    BY <2>1 DEF BrowserOK
  <2> QED
    BY <1>1, <2>1, <2>5, <2>6, <2>7 DEF BrowserOK
<1> QED
  BY <1>6, <1>7 DEF BrowserOK

\* Every step keeps what holds of the browsers.
LEMMA BrowserStep == BrowserInv /\ [Next]_vars => \A l \in Logins : BrowserOK(l)'
<1> SUFFICES ASSUME BrowserInv, [Next]_vars PROVE \A l \in Logins : BrowserOK(l)'
  OBVIOUS
<1>1. FlowInv /\ clock \in Nat
  BY DEF BrowserInv, FlowInv, Types
<1>2. ASSUME UNCHANGED <<login, jar>>, clock' \in Nat, clock <= clock'
      PROVE  \A l \in Logins : BrowserOK(l)'
  BY <1>2, JarKept
<1>3. ASSUME NEW k \in Logins, NEW stage \in LoginStages \ {"delivered"},
             login' = [login EXCEPT ![k].stage = stage], UNCHANGED <<jar, clock>>
      PROVE  \A l \in Logins : BrowserOK(l)'
  <2>1. \A l \in Logins :
          /\ login'[l].browser = login[l].browser /\ login'[l].session = login[l].session
          /\ login'[l].now = login[l].now /\ login'[l].arrived = login[l].arrived
          /\ login'[l].stage = "delivered" => login[l].stage = "delivered"
    BY <1>1, <1>3, StageFields
  <2> QED
    BY <1>1, <1>3, <2>1, JarKept
<1>4. ASSUME NEW k \in Logins, HandleLogin(k) PROVE \A l \in Logins : BrowserOK(l)'
  <2>1. {"failed", "stored", "rendered", "lost"} \subseteq LoginStages \ {"delivered"}
    BY DEF LoginStages
  <2>2. CASE RefuseLogin(k)
    BY <1>3, <2>1, <2>2 DEF RefuseLogin
  <2>3. CASE \E b \in Browsers, bot \in Bots : SignState(k, b, bot)
    BY <2>3, SignBrowsers
  <2>4. CASE StoreState(k)
    <3>1. /\ \E stage \in {"failed", "stored"} : login' = [login EXCEPT ![k].stage = stage]
          /\ UNCHANGED <<jar, clock>>
      BY <2>4 DEF StoreState
    <3> QED
      BY <1>3, <2>1, <3>1
  <2>5. CASE RenderFails(k)
    BY <1>3, <2>1, <2>5 DEF RenderFails
  <2>6. CASE RenderPage(k)
    BY <1>3, <2>1, <2>6 DEF RenderPage
  <2>7. CASE DeliverPage(k)
    BY <2>7, DeliverBrowsers
  <2>8. CASE LosePage(k)
    BY <1>3, <2>1, <2>8 DEF LosePage
  <2> QED
    BY <1>4, <2>2, <2>3, <2>4, <2>5, <2>6, <2>7, <2>8 DEF HandleLogin
<1>5. ASSUME NEW c \in Callbacks, HandleTelegramAuth(c) PROVE \A l \in Logins : BrowserOK(l)'
  <2>1. UNCHANGED <<login, jar, clock>>
    BY <1>5 DEF HandleTelegramAuth, PostCallback, RefuseCallback, RejectState, ConsumeState,
         ValidateToken, RejectToken, LinkAccount, LinkFails, IssueJWT, IssueFails, Relay,
         AnswerRelay
  <2> QED
    BY <1>1, <1>2, <2>1
<1>6. CASE Tick
  BY <1>1, <1>2, <1>6 DEF Tick
<1>7. CASE Restart
  <2>1. /\ login' = [l \in Logins |->
             IF login[l].stage \in {"signed", "stored"}
             THEN [login[l] EXCEPT !.stage = "failed"] ELSE login[l]]
        /\ UNCHANGED <<jar, clock>>
    BY <1>7 DEF Restart
  <2>2. ASSUME NEW l \in Logins
        PROVE  /\ login'[l].browser = login[l].browser /\ login'[l].session = login[l].session
               /\ login'[l].now = login[l].now /\ login'[l].arrived = login[l].arrived
               /\ login'[l].stage = "delivered" => login[l].stage = "delivered"
    <3>1. login[l] \in LoginRecords
      BY <1>1 DEF FlowInv, Types
    <3>2. CASE login[l].stage \in {"signed", "stored"}
      <4>1. login'[l] = [login[l] EXCEPT !.stage = "failed"]
        BY <2>1, <3>2
      <4> QED
        BY <3>1, <4>1, SMT DEF LoginRecords
    <3>3. CASE login[l].stage \notin {"signed", "stored"}
      BY <2>1, <3>3
    <3> QED
      BY <3>2, <3>3
  <2> QED
    BY <1>1, <2>1, <2>2, JarKept
<1>8. CASE UNCHANGED vars
  BY <1>1, <1>2, <1>8 DEF vars
<1> QED
  BY <1>4, <1>5, <1>6, <1>7, <1>8 DEF Next

\* What holds of the browsers holds in every behaviour.
THEOREM BrowserInvariant == Spec => []BrowserInv
<1>1. Init => \A l \in Logins : BrowserOK(l)
  BY DEF Init, NoLogin, BrowserOK
<1>2. Init => BrowserInv
  BY <1>1, InitInv DEF BrowserInv
<1>3. BrowserInv /\ [Next]_vars /\ FlowInv' => BrowserInv'
  BY BrowserStep DEF BrowserInv
<1> QED
  BY Invariant, <1>2, <1>3, PTL DEF Spec

\* While a browser holds the session of a page that arrived, the cookie lives as long
\* as the page's state, in whatever order the responses arrive.
THEOREM CookieOutlivesPageHolds == Spec => []CookieOutlivesPage
<1>1. BrowserInv => CookieOutlivesPage
  <2> SUFFICES ASSUME BrowserInv, NEW l \in Logins, login[l].stage = "delivered"
               PROVE  login[l].now + StateTTL <= jar[login[l].browser].until
    BY DEF CookieOutlivesPage
  <2>1. BrowserOK(l) /\ LoginOK(login[l]) /\ login[l] \in LoginRecords
    BY DEF BrowserInv, FlowInv, Types
  <2>2. /\ login[l].browser \in Browsers /\ login[l].now \in Nat /\ login[l].arrived \in Nat
    BY <2>1, SMT DEF LoginOK, LoginRecords
  <2>3. jar[login[l].browser].until \in Nat
    BY <2>2 DEF BrowserInv, FlowInv, Types
  <2> QED
    BY <2>1, <2>2, <2>3, LoginFlowAssumption DEF BrowserOK
<1> QED
  BY BrowserInvariant, <1>1, PTL

\* The session of a page that has not expired is replaced only by that of a page its
\* browser had asked for before this one arrived.
THEOREM SessionLostOnlyByOverlapHolds == Spec => []SessionLostOnlyByOverlap
<1>1. BrowserInv => SessionLostOnlyByOverlap
  BY DEF BrowserInv, SessionLostOnlyByOverlap, BrowserOK, Overlaps
<1> QED
  BY BrowserInvariant, <1>1, PTL
-----------------------------------------------------------------------------
(* What was delivered is usable.                                           *)

\* The stages of a login whose state has been stored.
Late == {"stored", "rendered", "delivered", "lost"}

\* The state of l was stored before that of m.
Before(l, m) == \E i, j \in DOMAIN added : i < j /\ added[i] = l /\ added[j] = m

\* The store's lists are in the order in which the logins' states were stored, and
\* every state lives as long as was promised.
StoreGood(s) ==
  /\ WellFormed(s)
  /\ Cardinality(DOMAIN s.entries) <= MaxEntries
  /\ \A x \in Logins : Cardinality(OwnKeys(s, x)) <= MaxPerSession
  /\ \A k \in DOMAIN s.entries :
       /\ s.entries[k] = login[k[2]].now + StateTTL
       /\ Position(k[2]) # {}
       /\ \A j \in s.globalOrder[k] : Before(j[2], k[2])

\* The three ways in which a state stops being pending.
Gone(l) ==
  \/ login[l].now + StateTTL <= clock
  \/ \E c \in Callbacks : callback[c].state = l /\ Accepted(c)
  \/ MaxPerSession <= Cardinality(Later(l))

\* l's state is pending, if it was stored since the last start, or it is gone.
Usable(l) ==
  login[l].stage \in Late /\ Position(l) # {} =>
    Key(login[l].session, l) \in DOMAIN store.entries \/ Gone(l)

UsableInv ==
  /\ FlowInv
  /\ added \in Seq(Logins)
  /\ \A i \in DOMAIN added : login[added[i]].stage # "idle"
  /\ StoreGood(store)
  /\ \A l \in Logins : Usable(l)

\* A pending key tells its login.
LEMMA PendingKey ==
  ASSUME FlowInv, NEW k \in DOMAIN store.entries
  PROVE  /\ k[2] \in Logins /\ k[1] \in Logins /\ login[k[2]].session = k[1]
         /\ k = Key(login[k[2]].session, k[2]) /\ login[k[2]].stage \in Late
         /\ login[k[2]].now \in Nat
<1>1. PICK l \in Logins : k = Key(login[l].session, l) /\ login[l].stage \in Late
  BY DEF FlowInv, KeyOK, Late
<1>2. k[1] = login[l].session /\ k[2] = l
  BY <1>1 DEF Key, pendingStateKey
<1>3. login[l].session \in Logins
  BY <1>1 DEF FlowInv, LoginOK, Late
<1>4. login[l].now \in Nat
  BY SMT DEF FlowInv, Types, LoginRecords
<1> QED
  BY <1>1, <1>2, <1>3, <1>4

\* A sequence has finitely many elements.
LEMMA FewElements ==
  ASSUME NEW a \in Seq(Logins)
  PROVE  IsFiniteSet({a[i] : i \in DOMAIN a})
<1> DEFINE D == 1..Len(a)
           R == {a[i] : i \in D}
<1>1. DOMAIN a = D /\ Len(a) \in Nat /\ a \in [D -> R]
  <2>1. DOMAIN a = D /\ Len(a) \in Nat /\ a \in [D -> Logins]
    OBVIOUS
  <2>2. \A i \in D : a[i] \in R
    OBVIOUS
  <2>3. a = [i \in D |-> a[i]]
    BY <2>1
  <2> HIDE DEF D, R
  <2> QED
    BY <2>1, <2>2, <2>3
<1>2. IsFiniteSet(D)
  <2>1. 1 \in Int /\ Len(a) \in Int
    BY <1>1
  <2> QED
    BY <2>1, FS_Interval
<1>3. a \in Surjection(D, R)
  BY <1>1 DEF Surjection
<1>4. IsFiniteSet(R)
  <2> HIDE DEF D, R
  <2> QED
    BY <1>2, <1>3, FS_Surjection
<1> QED
  BY <1>1, <1>4

\* Only finitely many logins come later than one of them.
LEMMA FewLater ==
  ASSUME added \in Seq(Logins), NEW l
  PROVE  IsFiniteSet(Later(l)) /\ Cardinality(Later(l)) \in Nat
<1>1. IsFiniteSet({added[i] : i \in DOMAIN added})
  BY FewElements
<1>2. Later(l) \subseteq {added[i] : i \in DOMAIN added}
  BY DEF Later, Position
<1> QED
  BY <1>1, <1>2, FS_Subset, FS_CardinalityType

\* What a call takes away without anything else, it finds expired.
LEMMA ConsumeThins ==
  ASSUME NEW s, WellFormed(s), NEW key, NEW now
  PROVE  LET a == Consume(s, key, now)
         IN /\ Thins(a.store, s)
            /\ \A k \in DOMAIN s.entries \ DOMAIN a.store.entries :
                 s.entries[k] <= now \/ (k = key /\ a.result)
<1> DEFINE cleaned == Cleanup(s, now)
           a == Consume(s, key, now)
<1>1. Thins(cleaned, s)
  BY RemoveThins DEF Cleanup
<1>2. /\ DOMAIN cleaned.entries = DOMAIN s.entries \ CleanupSet(s, now)
      /\ \A k \in CleanupSet(s, now) : s.entries[k] <= now
      /\ \A k \in DOMAIN cleaned.entries : cleaned.entries[k] = s.entries[k]
  BY CleanupFields
<1>3. /\ a.store = IF key \in DOMAIN cleaned.entries THEN Remove(cleaned, {key}) ELSE cleaned
      /\ a.result <=> key \in DOMAIN cleaned.entries /\ ~Expired(cleaned, key, now)
  BY DEF Consume
<1> HIDE DEF cleaned, a
<1>4. WellFormed(cleaned)
  BY <1>1 DEF Thins
<1>5. CASE key \in DOMAIN cleaned.entries
  <2> DEFINE r == Remove(cleaned, {key})
  <2>1. Thins(r, cleaned) /\ DOMAIN r.entries = DOMAIN cleaned.entries \ {key}
    BY <1>4, RemoveThins, RemoveWellFormed
  <2>2. a.store = r
    BY <1>3, <1>5
  <2> HIDE DEF r
  <2>3. Thins(r, s)
    BY <1>1, <2>1 DEF Thins
  <2> QED
    BY <1>2, <1>3, <1>5, <2>1, <2>2, <2>3 DEF Expired, a
<1>6. CASE key \notin DOMAIN cleaned.entries
  BY <1>1, <1>2, <1>3, <1>6 DEF a
<1> QED
  BY <1>5, <1>6

\* What holds of the store still holds of what is left of it.
LEMMA ThinnedIsGood ==
  ASSUME FlowInv, StoreGood(store), NEW s, Thins(s, store)
  PROVE  StoreGood(s)
<1>1. /\ WellFormed(s) /\ DOMAIN s.entries \subseteq DOMAIN store.entries
      /\ \A k \in DOMAIN s.entries : /\ s.entries[k] = store.entries[k]
                                     /\ s.globalOrder[k] \subseteq store.globalOrder[k]
  BY DEF Thins
<1>2. IsFiniteSet(DOMAIN store.entries)
  BY FinitelyManyPending DEF StoreGood
<1>3. Cardinality(DOMAIN s.entries) <= MaxEntries
  <2>1. /\ Cardinality(DOMAIN s.entries) <= Cardinality(DOMAIN store.entries)
        /\ Cardinality(DOMAIN s.entries) \in Nat
        /\ Cardinality(DOMAIN store.entries) \in Nat
    BY <1>1, <1>2, FS_Subset, FS_CardinalityType
  <2> QED
    BY <2>1, PendingStatesAssumption DEF StoreGood
<1>4. ASSUME NEW x \in Logins PROVE Cardinality(OwnKeys(s, x)) <= MaxPerSession
  <2>1. OwnKeys(s, x) \subseteq OwnKeys(store, x) /\ OwnKeys(store, x) \subseteq DOMAIN store.entries
    BY <1>1 DEF OwnKeys
  <2>2. IsFiniteSet(OwnKeys(store, x))
    BY <1>2, <2>1, FS_Subset
  <2>3. /\ Cardinality(OwnKeys(s, x)) <= Cardinality(OwnKeys(store, x))
        /\ Cardinality(OwnKeys(s, x)) \in Nat
        /\ Cardinality(OwnKeys(store, x)) \in Nat
    BY <2>1, <2>2, FS_Subset, FS_CardinalityType
  <2> QED
    BY <2>3, PendingStatesAssumption DEF StoreGood
<1> QED
  BY <1>1, <1>3, <1>4 DEF StoreGood

\* A step that stores no state: what it takes from the store is excused.
LEMMA NothingStored ==
  ASSUME UsableInv, FlowInv', Thins(store', store), UNCHANGED added,
         clock \in Nat, clock' \in Nat, clock <= clock',
         \A l \in Logins :
           /\ login[l].stage # "idle" => /\ login'[l].session = login[l].session
                                         /\ login'[l].now = login[l].now
                                         /\ login'[l].stage # "idle"
           /\ login'[l].stage \in Late => login[l].stage \in Late,
         \A c \in Callbacks :
           Accepted(c) => Accepted(c)' /\ callback'[c].state = callback[c].state,
         \A k \in DOMAIN store.entries \ DOMAIN store'.entries :
           \/ login'[k[2]].stage \notin Late
           \/ store.entries[k] <= clock
           \/ \E c \in Callbacks : callback'[c].state = k[2] /\ Accepted(c)'
  PROVE  UsableInv'
<1>1. FlowInv /\ added \in Seq(Logins) /\ StoreGood(store)
  BY DEF UsableInv
<1>2. \A i \in DOMAIN added : added[i] \in Logins
  BY <1>1
<1>3. \A i \in DOMAIN added : login'[added[i]].stage # "idle"
  BY <1>2 DEF UsableInv
<1>4. StoreGood(store')
  BY <1>1, ThinnedIsGood
<1>5. StoreGood(store)'
  <2>1. ASSUME NEW k \in DOMAIN store'.entries
        PROVE  login'[k[2]].now = login[k[2]].now
    <3>1. k \in DOMAIN store.entries
      BY <2>1 DEF Thins
    <3>2. k[2] \in Logins /\ login[k[2]].stage # "idle"
      BY <1>1, <3>1, PendingKey DEF Late
    <3> QED
      BY <3>2
  <2>2. \A l : Position(l)' = Position(l)
    BY DEF Position
  <2>3. \A l, m : Before(l, m)' <=> Before(l, m)
    BY DEF Before
  <2> QED
    BY <1>4, <2>1, <2>2, <2>3 DEF StoreGood
<1>6. ASSUME NEW l \in Logins, login[l].stage # "idle" PROVE Later(l) \subseteq Later(l)'
  <2> SUFFICES ASSUME NEW m \in Later(l) PROVE m \in Later(l)'
    OBVIOUS
  <2>1. m \in Logins /\ login[m].session = login[l].session
        /\ \E i \in Position(l), j \in Position(m) : i < j
    BY DEF Later
  <2>2. login[m].stage # "idle"
    BY <2>1 DEF UsableInv, Position
  <2> QED
    BY <1>6, <2>1, <2>2 DEF Later, Position
<1>7. ASSUME NEW l \in Logins, login[l].stage # "idle", Gone(l) PROVE Gone(l)'
  <2>1. CASE login[l].now + StateTTL <= clock
    <3>1. login[l].now \in Nat
      BY <1>1, SMT DEF FlowInv, Types, LoginRecords
    <3> QED
      BY <1>7, <2>1, <3>1, LoginFlowAssumption DEF Gone
  <2>2. CASE \E c \in Callbacks : callback[c].state = l /\ Accepted(c)
    BY <2>2 DEF Gone
  <2>3. CASE MaxPerSession <= Cardinality(Later(l))
    <3>1. IsFiniteSet(Later(l)') /\ Cardinality(Later(l)') \in Nat
      <4>1. added' \in Seq(Logins)
        BY <1>1
      <4>2. IsFiniteSet({added'[i] : i \in DOMAIN added'})
        BY <4>1, FewElements
      <4>3. Later(l)' \subseteq {added'[i] : i \in DOMAIN added'}
        BY DEF Later, Position
      <4> QED
        BY <4>2, <4>3, FS_Subset, FS_CardinalityType
    <3>2. Cardinality(Later(l)) \in Nat /\ Cardinality(Later(l)) <= Cardinality(Later(l)')
      BY <1>1, <1>6, <1>7, <3>1, FewLater, FS_Subset
    <3> QED
      BY <2>3, <3>1, <3>2, PendingStatesAssumption DEF Gone
  <2> QED
    BY <1>7, <2>1, <2>2, <2>3 DEF Gone
<1>8. ASSUME NEW l \in Logins PROVE Usable(l)'
  <2> SUFFICES ASSUME login'[l].stage \in Late, Position(l)' # {}
               PROVE  Key(login'[l].session, l) \in DOMAIN store'.entries \/ Gone(l)'
    BY DEF Usable, Key
  <2>1. login[l].stage \in Late /\ login[l].stage # "idle" /\ Position(l) # {}
    BY DEF Late, Position
  <2>2. login'[l].session = login[l].session /\ login'[l].now = login[l].now
    BY <2>1
  <2>3. CASE Gone(l)
    BY <1>7, <2>1, <2>3
  <2>4. CASE ~Gone(l)
    <3> DEFINE k == Key(login[l].session, l)
    <3>1. k \in DOMAIN store.entries
      BY <2>1, <2>4 DEF UsableInv, Usable
    <3>2. k[2] = l
      BY DEF Key, pendingStateKey
    <3> HIDE DEF k
    <3>3. CASE k \in DOMAIN store'.entries
      BY <2>2, <3>3 DEF k
    <3>4. CASE k \notin DOMAIN store'.entries
      <4>1. CASE store.entries[k] <= clock
        <5>1. store.entries[k] = login[l].now + StateTTL
          BY <1>1, <3>1, <3>2 DEF StoreGood
        <5> QED
          BY <1>7, <2>1, <4>1, <5>1 DEF Gone
      <4>2. CASE \E c \in Callbacks : callback'[c].state = l /\ Accepted(c)'
        BY <4>2 DEF Gone
      <4> QED
        BY <3>1, <3>2, <3>4, <4>1, <4>2
    <3> QED
      BY <3>3, <3>4
  <2> QED
    BY <2>3, <2>4
<1> QED
  BY <1>1, <1>3, <1>5, <1>8 DEF UsableInv

\* The step that stores a state: what it takes from the store has expired, or is the
\* oldest of a session that then has as many later ones as it may hold.
LEMMA StorePromise ==
  ASSUME UsableInv, FlowInv', NEW l \in Logins, StoreState(l)
  PROVE  UsableInv'
<1> DEFINE r == login[l]
           x == r.session
           key == Key(x, l)
           expires == r.now + StateTTL
           cleaned == Cleanup(store, r.now)
           overflow == SessionOverflow(cleaned, x)
           room == Remove(cleaned, overflow)
           a == Add(store, key, expires, r.now)
           own == OwnKeys(cleaned, x)
<1>1. /\ FlowInv /\ added \in Seq(Logins) /\ StoreGood(store) /\ WellFormed(store)
      /\ login \in [Logins -> LoginRecords] /\ clock \in Nat
      /\ r.now \in Nat /\ r.now <= clock /\ x \in Logins /\ r.stage = "signed"
      /\ UNCHANGED <<callback, jar, clock>>
  <2>1. /\ FlowInv /\ added \in Seq(Logins) /\ StoreGood(store) /\ WellFormed(store)
        /\ r.stage = "signed" /\ UNCHANGED <<callback, jar, clock>>
    BY DEF UsableInv, StoreGood, StoreState
  <2>2. login \in [Logins -> LoginRecords] /\ clock \in Nat /\ LoginOK(r)
    BY <2>1 DEF FlowInv, Types
  <2>3. r.now \in Nat
    BY <2>2, SMT DEF LoginRecords
  <2> QED
    BY <2>1, <2>2, <2>3 DEF LoginOK
<1>2. key \notin DOMAIN store.entries /\ SessionOf(key) = x /\ key[1] = x /\ key[2] = l
  BY <1>1, NotYetPending DEF Key, pendingStateKey, SessionOf
<1>3. /\ store' = a.store
      /\ IF a.result = "atCapacity"
         THEN login' = [login EXCEPT ![l].stage = "failed"] /\ UNCHANGED added
         ELSE login' = [login EXCEPT ![l].stage = "stored"] /\ added' = Append(added, l)
  BY DEF StoreState
<1>4. /\ login'[l].stage = IF a.result = "atCapacity" THEN "failed" ELSE "stored"
      /\ login'[l].session = x /\ login'[l].now = r.now
      /\ \A m \in Logins \ {l} : login'[m] = login[m]
  <2> DEFINE stage == IF a.result = "atCapacity" THEN "failed" ELSE "stored"
             g == [login EXCEPT ![l].stage = stage]
  <2>1. stage \in LoginStages
    BY DEF LoginStages
  <2>2. login' = g
    BY <1>3
  <2> HIDE DEF a
  <2>3. /\ g[l].stage = stage /\ g[l].session = x /\ g[l].now = r.now
        /\ \A m \in Logins \ {l} : g[m] = login[m]
    <3>1. g = [login EXCEPT ![l].stage = stage]
      OBVIOUS
    <3> HIDE DEF g, stage
    <3> QED
      BY <1>1, <2>1, <3>1, LoginStageChanges
  <2> HIDE DEF g
  <2> QED
    BY <2>2, <2>3
<1>5. /\ Thins(cleaned, store) /\ WellFormed(cleaned)
      /\ \A k \in DOMAIN store.entries \ DOMAIN cleaned.entries : store.entries[k] <= r.now
      /\ \A k \in DOMAIN cleaned.entries : cleaned.entries[k] = store.entries[k]
  <2>1. Thins(cleaned, store)
    BY <1>1, RemoveThins DEF Cleanup
  <2>2. \A k \in DOMAIN store.entries \ DOMAIN cleaned.entries : store.entries[k] <= r.now
    BY <1>1, CleanupFields
  <2> QED
    BY <2>1, <2>2 DEF Thins
<1>6. /\ key \notin DOMAIN cleaned.entries /\ IsFull(room) =>
           a.store = room /\ a.result = "atCapacity"
      /\ key \notin DOMAIN cleaned.entries /\ ~IsFull(room) =>
           a.store = Placed(room, key, expires) /\ a.result # "atCapacity"
  <2> DEFINE overflow2 == SessionOverflow(cleaned, SessionOf(key))
             room2 == Remove(cleaned, overflow2)
  <2>1. /\ key \in DOMAIN cleaned.entries =>
             /\ a.store = Placed(Remove(cleaned, {key}), key, expires)
             /\ a.result = "added"
        /\ key \notin DOMAIN cleaned.entries /\ IsFull(room2) =>
             a.store = room2 /\ a.result = "atCapacity"
        /\ key \notin DOMAIN cleaned.entries /\ ~IsFull(room2) =>
             /\ a.store = Placed(room2, key, expires)
             /\ a.result = IF overflow2 = {} THEN "added" ELSE "sessionEvicted"
    <3>1. WellFormed(store)
      BY <1>1
    <3> HIDE DEF key, expires
    <3> QED
      BY <3>1, AddOutcomes
  <2>2. room2 = room
    BY <1>2
  <2> HIDE DEF room, room2, a, cleaned
  <2> QED
    BY <2>1, <2>2
<1> HIDE DEF cleaned, a
<1>7. StoreGood(cleaned)
  BY <1>1, <1>5, ThinnedIsGood
<1>8. /\ overflow \subseteq own
      /\ IsFiniteSet(own \ overflow) /\ Cardinality(own \ overflow) < MaxPerSession
      /\ overflow # {} =>
           \E f \in own : /\ overflow = {f}
                          /\ \A k \in own : k = f \/ f \in cleaned.globalOrder[k]
                          /\ Cardinality(own) = MaxPerSession
  <2>1. Cardinality(own) <= MaxPerSession
    BY <1>1, <1>7 DEF StoreGood
  <2>2. IsFiniteSet(own) /\ Cardinality(own) \in Nat
    <3>1. IsFiniteSet(DOMAIN cleaned.entries) /\ own \subseteq DOMAIN cleaned.entries
      BY <1>5, FinitelyManyPending DEF OwnKeys
    <3> QED
      BY <3>1, FS_Subset, FS_CardinalityType
  <2>3. /\ overflow \subseteq own
        /\ IsFiniteSet(own \ overflow) /\ Cardinality(own \ overflow) < MaxPerSession
        /\ Cardinality(own) < MaxPerSession => overflow = {}
        /\ Cardinality(own) = MaxPerSession =>
             \E f \in own : /\ overflow = {f}
                            /\ \A k \in own : k = f \/ f \in cleaned.globalOrder[k]
    BY <1>5, <2>1, EvictionMakesRoom
  <2> HIDE DEF own, overflow
  <2>4. overflow # {} => Cardinality(own) = MaxPerSession
    BY <2>1, <2>2, <2>3, PendingStatesAssumption
  <2> QED
    BY <2>3, <2>4
<1>9. /\ Thins(room, cleaned) /\ Thins(room, store) /\ WellFormed(room)
      /\ DOMAIN room.entries = DOMAIN cleaned.entries \ overflow
  <2> HIDE DEF overflow
  <2>1. Thins(room, cleaned) /\ DOMAIN room.entries = DOMAIN cleaned.entries \ overflow
    BY <1>5, RemoveThins, RemoveWellFormed
  <2> HIDE DEF room
  <2> QED
    BY <1>5, <2>1 DEF Thins
<1> HIDE DEF room, overflow
<1>10. key \notin DOMAIN cleaned.entries
  BY <1>2, <1>5 DEF Thins
<1>11. StoreGood(room)
  BY <1>1, <1>9, ThinnedIsGood
<1>12. CASE IsFull(room)
  <2>1. store' = room /\ UNCHANGED added /\ login'[l].stage = "failed"
    BY <1>3, <1>4, <1>6, <1>10, <1>12
  <2>2. overflow = {}
    <3> SUFFICES ASSUME overflow # {} PROVE FALSE
      OBVIOUS
    <3>1. PICK f : f \in own /\ overflow = {f}
      BY <1>8
    <3>2. /\ f \in DOMAIN cleaned.entries /\ IsFiniteSet(DOMAIN cleaned.entries)
          /\ Cardinality(DOMAIN cleaned.entries) <= MaxEntries
      BY <1>5, <1>7, <3>1, FinitelyManyPending DEF OwnKeys, StoreGood
    <3>3. Cardinality(DOMAIN cleaned.entries \ {f}) < MaxEntries
      BY <3>2, OneLessIsBelow, PendingStatesAssumption
    <3>4. Cardinality(DOMAIN room.entries) < MaxEntries
      BY <1>9, <3>1, <3>3
    <3>5. Cardinality(DOMAIN room.entries) \in Nat
      BY <1>9, FinitelyManyPending, FS_CardinalityType
    <3> QED
      BY <1>12, <3>4, <3>5, PendingStatesAssumption DEF IsFull
  <2>3. \A k \in DOMAIN store.entries \ DOMAIN store'.entries : store.entries[k] <= clock
    <3> SUFFICES ASSUME NEW k \in DOMAIN store.entries \ DOMAIN store'.entries
                 PROVE  store.entries[k] <= clock
      OBVIOUS
    <3>1. k \notin DOMAIN cleaned.entries
      BY <1>9, <2>1, <2>2
    <3>2. k[2] \in Logins /\ login[k[2]].now \in Nat
          /\ store.entries[k] = login[k[2]].now + StateTTL
      BY <1>1, PendingKey DEF StoreGood
    <3> QED
      BY <1>1, <1>5, <3>1, <3>2, LoginFlowAssumption
  <2>4. \A m \in Logins :
          /\ login[m].stage # "idle" => /\ login'[m].session = login[m].session
                                        /\ login'[m].now = login[m].now
                                        /\ login'[m].stage # "idle"
          /\ login'[m].stage \in Late => login[m].stage \in Late
    BY <1>4, <2>1 DEF Late
  <2>5. \A c \in Callbacks :
          Accepted(c) => Accepted(c)' /\ callback'[c].state = callback[c].state
    BY <1>1 DEF Accepted
  <2> QED
    BY <1>1, <1>9, <2>1, <2>3, <2>4, <2>5, NothingStored
<1>13. CASE ~IsFull(room)
  <2>1. /\ store' = Placed(room, key, expires) /\ added' = Append(added, l)
        /\ login'[l].stage = "stored"
    BY <1>3, <1>4, <1>6, <1>10, <1>13
  <2>2. /\ added' \in Seq(Logins)
        /\ DOMAIN added' = DOMAIN added \cup {Len(added) + 1}
        /\ added'[Len(added) + 1] = l
        /\ \A i \in DOMAIN added : added'[i] = added[i] /\ i < Len(added) + 1
        /\ \A i \in DOMAIN added : added[i] \in Logins
    BY <1>1, <2>1
  <2>3. \A m \in Logins : login[m].stage # "idle" =>
          /\ login'[m].session = login[m].session /\ login'[m].now = login[m].now
          /\ login'[m].stage # "idle"
    BY <1>4, <2>1
  <2>4. \A i \in DOMAIN added' : login'[added'[i]].stage # "idle"
    BY <2>1, <2>2, <2>3 DEF UsableInv
  <2>5. \A m : Position(m) \subseteq Position(m)'
    BY <2>2 DEF Position
  <2>6. \A m, n : Before(m, n) => Before(m, n)'
    BY <2>2 DEF Before
  <2>7. \A m : Position(m) # {} => Before(m, l)'
    BY <2>2 DEF Position, Before
  <2>8. /\ WellFormed(store') /\ DOMAIN store'.entries = DOMAIN room.entries \cup {key}
        /\ store'.entries[key] = expires
        /\ store'.globalOrder[key] = DOMAIN room.entries
        /\ \A k \in DOMAIN room.entries : /\ store'.entries[k] = room.entries[k]
                                          /\ store'.globalOrder[k] = room.globalOrder[k]
    <3>1. key \notin DOMAIN room.entries
      BY <1>9, <1>10
    <3> QED
      BY <1>9, <2>1, <3>1, PlacedWellFormed
  <2>9. StoreGood(store)'
    <3>1. Cardinality(DOMAIN store'.entries) <= MaxEntries
      <4>1. IsFiniteSet(DOMAIN room.entries) /\ Cardinality(DOMAIN room.entries) \in Nat
        BY <1>9, FinitelyManyPending, FS_CardinalityType
      <4>2. Cardinality(DOMAIN room.entries) < MaxEntries
        BY <1>13, <4>1, PendingStatesAssumption DEF IsFull
      <4> QED
        BY <2>8, <4>1, <4>2, OneMoreFits, PendingStatesAssumption
    <3>2. ASSUME NEW y \in Logins PROVE Cardinality(OwnKeys(store', y)) <= MaxPerSession
      <4>1. CASE y = x
        <5>1. OwnKeys(store', y) = (own \ overflow) \cup {key}
          BY <1>2, <1>9, <2>8, <4>1 DEF OwnKeys
        <5> HIDE DEF own
        <5> QED
          BY <1>8, <5>1, OneMoreFits, PendingStatesAssumption
      <4>2. CASE y # x
        <5>1. OwnKeys(store', y) = OwnKeys(room, y)
          BY <1>2, <2>8, <4>2 DEF OwnKeys
        <5> QED
          BY <1>11, <5>1 DEF StoreGood
      <4> QED
        BY <4>1, <4>2
    <3>3. ASSUME NEW k \in DOMAIN room.entries
          PROVE  k[2] \in Logins /\ login'[k[2]].now = login[k[2]].now
      <4>1. k \in DOMAIN store.entries
        BY <1>9 DEF Thins
      <4> QED
        BY <1>1, <2>3, <4>1, PendingKey DEF Late
    <3>4. ASSUME NEW k \in DOMAIN store'.entries
          PROVE  /\ store'.entries[k] = login'[k[2]].now + StateTTL
                 /\ Position(k[2])' # {}
                 /\ \A j \in store'.globalOrder[k] : Before(j[2], k[2])'
      <4>1. CASE k = key
        <5>1. store'.entries[k] = login'[k[2]].now + StateTTL
          BY <1>2, <1>4, <2>8, <4>1
        <5>2. Position(k[2])' # {}
          BY <1>2, <2>2, <4>1 DEF Position
        <5>3. \A j \in store'.globalOrder[k] : Before(j[2], k[2])'
          BY <1>2, <1>11, <2>7, <2>8, <4>1 DEF StoreGood
        <5> QED
          BY <5>1, <5>2, <5>3
      <4>2. CASE k \in DOMAIN room.entries
        <5>1. /\ room.entries[k] = login[k[2]].now + StateTTL
              /\ Position(k[2]) # {}
              /\ \A j \in room.globalOrder[k] : Before(j[2], k[2])
          BY <1>11, <4>2 DEF StoreGood
        <5>2. store'.entries[k] = login'[k[2]].now + StateTTL
          BY <2>8, <3>3, <4>2, <5>1
        <5>3. Position(k[2])' # {}
          BY <2>5, <5>1
        <5>4. \A j \in store'.globalOrder[k] : Before(j[2], k[2])'
          BY <2>6, <2>8, <4>2, <5>1
        <5> QED
          BY <5>2, <5>3, <5>4
      <4> QED
        BY <2>8, <4>1, <4>2
    <3> QED
      BY <2>8, <3>1, <3>2, <3>4 DEF StoreGood
  <2>10. IsFiniteSet({added'[i] : i \in DOMAIN added'})
    BY <2>2, FewElements
  <2>11. ASSUME NEW m \in Logins
         PROVE  IsFiniteSet(Later(m)') /\ Cardinality(Later(m)') \in Nat
    <3>1. Later(m)' \subseteq {added'[i] : i \in DOMAIN added'}
      BY DEF Later, Position
    <3> QED
      BY <2>10, <3>1, FS_Subset, FS_CardinalityType
  <2>12. ASSUME NEW m \in Logins, login[m].stage # "idle", Gone(m) PROVE Gone(m)'
    <3>1. CASE login[m].now + StateTTL <= clock
      BY <1>1, <2>3, <2>12, <3>1 DEF Gone
    <3>2. CASE \E c \in Callbacks : callback[c].state = m /\ Accepted(c)
      BY <1>1, <3>2 DEF Gone, Accepted
    <3>3. CASE MaxPerSession <= Cardinality(Later(m))
      <4>1. Later(m) \subseteq Later(m)'
        <5> SUFFICES ASSUME NEW n \in Later(m) PROVE n \in Later(m)'
          OBVIOUS
        <5>1. n \in Logins /\ login[n].session = login[m].session
              /\ \E i \in Position(m), j \in Position(n) : i < j
          BY DEF Later
        <5>2. login[n].stage # "idle"
          BY <5>1 DEF UsableInv, Position
        <5>3. login'[n].session = login'[m].session
          BY <2>3, <2>12, <5>1, <5>2
        <5> QED
          BY <2>5, <5>1, <5>3 DEF Later
      <4>2. Cardinality(Later(m)) \in Nat /\ Cardinality(Later(m)) <= Cardinality(Later(m)')
        BY <2>11, <4>1, FS_Subset, FS_CardinalityType
      <4> QED
        BY <2>11, <3>3, <4>2, PendingStatesAssumption DEF Gone
    <3> QED
      BY <2>12, <3>1, <3>2, <3>3 DEF Gone
  <2>13. ASSUME NEW f \in overflow PROVE f[2] \in Logins /\ Gone(f[2])'
    <3> DEFINE m == f[2]
               W == (own \ {f}) \cup {key}
               g == [k \in W |-> k[2]]
    <3>1. /\ overflow = {f} /\ f \in own
          /\ \A k \in own : k = f \/ f \in cleaned.globalOrder[k]
          /\ Cardinality(own) = MaxPerSession
      BY <1>8, <2>13
    <3>2. ASSUME NEW k \in own
          PROVE  /\ k \in DOMAIN cleaned.entries /\ k \in DOMAIN store.entries
                 /\ k[1] = x /\ k[2] \in Logins /\ login[k[2]].stage # "idle"
                 /\ login[k[2]].session = x /\ k = <<x, k[2]>>
      <4>1. k \in DOMAIN cleaned.entries /\ k \in DOMAIN store.entries /\ k[1] = x
        BY <1>5 DEF OwnKeys, SessionOf, Thins
      <4> QED
        BY <1>1, <4>1, PendingKey DEF Late, Key, pendingStateKey
    <3>3. m \in Logins /\ login'[m].session = x
      BY <2>3, <3>1, <3>2
    <3>4. ASSUME NEW k \in W PROVE k[2] \in Later(m)' /\ k = <<x, k[2]>>
      <4>1. CASE k = key
        <5>1. Before(m, l)'
          <6>1. Position(m) # {}
            BY <1>7, <3>1, <3>2 DEF StoreGood
          <6> QED
            BY <2>7, <6>1
        <5> QED
          BY <1>2, <1>4, <3>3, <4>1, <5>1 DEF Later, Position, Before, Key, pendingStateKey
      <4>2. CASE k \in own \ {f}
        <5>1. Before(m, k[2])
          BY <1>7, <3>1, <3>2, <4>2 DEF StoreGood
        <5>2. Before(m, k[2])'
          BY <2>6, <5>1
        <5>3. k[2] \in Logins /\ login'[k[2]].session = x /\ k = <<x, k[2]>>
          BY <2>3, <3>2, <4>2
        <5> QED
          BY <3>3, <5>2, <5>3 DEF Later, Position, Before
      <4> QED
        BY <4>1, <4>2
    <3>5. IsFiniteSet(W) /\ Cardinality(W) = MaxPerSession
      <4>1. own \ {f} = own \ overflow
        BY <3>1
      <4>2. IsFiniteSet(own) /\ key \notin own
        <5>1. IsFiniteSet(DOMAIN cleaned.entries) /\ own \subseteq DOMAIN cleaned.entries
          BY <1>5, FinitelyManyPending DEF OwnKeys
        <5> QED
          BY <1>10, <5>1, FS_Subset
      <4> HIDE DEF own
      <4>3. IsFiniteSet(own \ {f}) /\ Cardinality(own \ {f}) = MaxPerSession - 1
        BY <3>1, <4>2, FS_RemoveElement
      <4>4. IsFiniteSet(W) /\ Cardinality(W) = Cardinality(own \ {f}) + 1
        BY <4>2, <4>3, FS_AddElement
      <4> QED
        BY <4>3, <4>4, PendingStatesAssumption
    <3> HIDE DEF W
    <3>6. g \in Injection(W, Later(m)')
      <4>1. \A k \in W : k[2] \in Later(m)' /\ k = <<x, k[2]>>
        BY <3>4
      <4>2. \A j, k \in W : j[2] = k[2] => j = k
        BY <4>1
      <4>3. g \in [W -> Later(m)']
        BY <4>1
      <4>4. \A k \in W : g[k] = k[2]
        OBVIOUS
      <4> HIDE DEF g
      <4> QED
        BY <4>2, <4>3, <4>4 DEF Injection, IsInjective
    <3>7. MaxPerSession <= Cardinality(Later(m)')
      <4> HIDE DEF g
      <4> QED
        BY <2>11, <3>3, <3>5, <3>6, FS_Injection
    <3> QED
      BY <3>3, <3>7 DEF Gone
  <2>14. ASSUME NEW m \in Logins PROVE Usable(m)'
    <3> SUFFICES ASSUME login'[m].stage \in Late, Position(m)' # {}
                 PROVE  Key(login'[m].session, m) \in DOMAIN store'.entries \/ Gone(m)'
      BY DEF Usable, Key
    <3>1. CASE m = l
      BY <1>4, <2>8, <3>1
    <3>2. CASE m # l
      <4>1. login'[m] = login[m] /\ Position(m) # {} /\ login[m].stage # "idle"
        BY <1>4, <2>2, <3>2 DEF Position, Late
      <4>2. CASE Gone(m)
        BY <2>12, <4>1, <4>2
      <4>3. CASE ~Gone(m)
        <5> DEFINE k == Key(login[m].session, m)
        <5>1. k \in DOMAIN store.entries
          BY <4>1, <4>3 DEF UsableInv, Usable
        <5>2. k[2] = m
          BY DEF Key, pendingStateKey
        <5>3. login'[m].session = login[m].session
          BY <4>1
        <5> HIDE DEF k
        <5>4. CASE k \in DOMAIN room.entries
          BY <2>8, <5>3, <5>4 DEF k
        <5>5. CASE k \notin DOMAIN cleaned.entries
          <6>1. store.entries[k] = login[m].now + StateTTL /\ login[m].now \in Nat
            BY <1>1, <5>1, <5>2, PendingKey DEF StoreGood
          <6>2. login[m].now + StateTTL <= clock
            BY <1>1, <1>5, <5>1, <5>5, <6>1, LoginFlowAssumption
          <6> QED
            BY <4>3, <6>2 DEF Gone
        <5>6. CASE k \in overflow
          BY <2>13, <5>2, <5>6
        <5> QED
          BY <1>9, <5>4, <5>5, <5>6
      <4> QED
        BY <4>2, <4>3
    <3> QED
      BY <3>1, <3>2
  <2> QED
    BY <2>2, <2>4, <2>9, <2>14 DEF UsableInv
<1> QED
  BY <1>12, <1>13

\* A step that leaves the store and what a login promised as they are.
LEMMA StorageUntouched ==
  ASSUME UsableInv, FlowInv', UNCHANGED <<store, added>>, clock' >= clock, clock' \in Nat,
         \A l \in Logins :
           /\ login[l].stage # "idle" => /\ login'[l].session = login[l].session
                                         /\ login'[l].now = login[l].now
                                         /\ login'[l].stage # "idle"
           /\ login'[l].stage \in Late => login[l].stage \in Late,
         \A c \in Callbacks :
           Accepted(c) => Accepted(c)' /\ callback'[c].state = callback[c].state
  PROVE  UsableInv'
<1>1. clock \in Nat /\ WellFormed(store)
  BY DEF UsableInv, FlowInv, Types, StoreGood
<1>2. Thins(store', store)
  BY <1>1 DEF Thins
<1>3. clock <= clock'
  BY <1>1
<1> QED
  BY <1>1, <1>2, <1>3, NothingStored

\* A step that changes a login's stage, and neither its session nor its clock.
LEMMA OneStageChanges ==
  ASSUME FlowInv, NEW l \in Logins, NEW stage \in LoginStages,
         login' = [login EXCEPT ![l].stage = stage]
  PROVE  /\ login'[l].stage = stage /\ login'[l].session = login[l].session
         /\ login'[l].now = login[l].now
         /\ \A m \in Logins \ {l} : login'[m] = login[m]
<1> DEFINE g == [login EXCEPT ![l].stage = stage]
<1>1. login \in [Logins -> LoginRecords]
  BY DEF FlowInv, Types
<1>2. /\ g[l].stage = stage /\ g[l].session = login[l].session /\ g[l].now = login[l].now
      /\ \A m \in Logins \ {l} : g[m] = login[m]
  <2>1. g = [login EXCEPT ![l].stage = stage]
    OBVIOUS
  <2> HIDE DEF g
  <2> QED
    BY <1>1, <2>1, LoginStageChanges
<1> HIDE DEF g
<1>3. login' = g
  BY DEF g
<1> QED
  BY <1>2, <1>3

\* What a login's handler does apart from storing its state.
LEMMA HandleLoginPromise ==
  ASSUME UsableInv, FlowInv', NEW l \in Logins, HandleLogin(l)
  PROVE  UsableInv'
<1>1. FlowInv /\ clock \in Nat /\ login \in [Logins -> LoginRecords] /\ WellFormed(store)
  BY DEF UsableInv, FlowInv, Types, StoreGood
<1>2. {"failed", "rendered", "lost"} \subseteq LoginStages
  BY DEF LoginStages
<1>3. UNCHANGED callback =>
        \A c \in Callbacks :
          Accepted(c) => Accepted(c)' /\ callback'[c].state = callback[c].state
  BY DEF Accepted
<1>4. CASE RefuseLogin(l)
  <2>1. /\ login[l].stage = "idle" /\ login' = [login EXCEPT ![l].stage = "failed"]
        /\ UNCHANGED <<store, callback, clock, added>>
    BY <1>4 DEF RefuseLogin
  <2>2. login'[l].stage = "failed" /\ \A m \in Logins \ {l} : login'[m] = login[m]
    BY <1>1, <1>2, <2>1, OneStageChanges
  <2> QED
    BY <1>1, <1>3, <2>1, <2>2, StorageUntouched DEF Late
<1>5. CASE \E b \in Browsers, bot \in Bots : SignState(l, b, bot)
  <2>1. PICK b \in Browsers, bot \in Bots : SignState(l, b, bot)
    BY <1>5
  <2> DEFINE new == [stage |-> "signed", browser |-> b, bot |-> bot,
                     session |-> IF loginSessionID(b) = None THEN l ELSE loginSessionID(b),
                     now |-> clock, arrived |-> 0]
  <2>2. /\ login[l].stage = "idle" /\ login' = [login EXCEPT ![l] = new]
        /\ UNCHANGED <<store, callback, clock, added>>
    BY <2>1 DEF SignState
  <2>3. new.stage = "signed"
    OBVIOUS
  <2> HIDE DEF new
  <2>4. login'[l].stage = "signed" /\ \A m \in Logins \ {l} : login'[m] = login[m]
    BY <1>1, <2>2, <2>3
  <2> QED
    BY <1>1, <1>3, <2>2, <2>4, StorageUntouched DEF Late
<1>6. CASE StoreState(l)
  BY <1>6, StorePromise
<1>7. CASE RenderFails(l)
  <2> DEFINE key == Key(login[l].session, l)
             a == Consume(store, key, login[l].now)
  <2>1. /\ login[l].stage = "stored" /\ login' = [login EXCEPT ![l].stage = "failed"]
        /\ store' = a.store /\ UNCHANGED <<callback, clock, added>>
    BY <1>7 DEF RenderFails
  <2>2. /\ Thins(store', store)
        /\ \A k \in DOMAIN store.entries \ DOMAIN store'.entries :
             store.entries[k] <= login[l].now \/ k = key
    BY <1>1, <2>1, ConsumeThins
  <2> HIDE DEF a
  <2>3. /\ login'[l].stage = "failed" /\ login'[l].session = login[l].session
        /\ login'[l].now = login[l].now /\ \A m \in Logins \ {l} : login'[m] = login[m]
    BY <1>1, <1>2, <2>1, OneStageChanges
  <2>4. ASSUME NEW k \in DOMAIN store.entries \ DOMAIN store'.entries
        PROVE  login'[k[2]].stage \notin Late \/ store.entries[k] <= clock
    <3>1. CASE k = key
      BY <2>3, <3>1 DEF Key, pendingStateKey, Late
    <3>2. CASE store.entries[k] <= login[l].now
      <4>1. store.entries[k] = login[k[2]].now + StateTTL /\ login[k[2]].now \in Nat
        BY <1>1, PendingKey DEF UsableInv, StoreGood
      <4>2. login[l].now \in Nat /\ login[l].now <= clock
        BY <1>1, SMT DEF FlowInv, LoginOK, LoginRecords
      <4> QED
        BY <1>1, <3>2, <4>1, <4>2, LoginFlowAssumption
    <3> QED
      BY <2>2, <3>1, <3>2
  <2>5. \A m \in Logins :
          /\ login[m].stage # "idle" => /\ login'[m].session = login[m].session
                                        /\ login'[m].now = login[m].now
                                        /\ login'[m].stage # "idle"
          /\ login'[m].stage \in Late => login[m].stage \in Late
    BY <2>1, <2>3 DEF Late
  <2> QED
    BY <1>1, <1>3, <2>1, <2>2, <2>4, <2>5, NothingStored
<1>8. CASE RenderPage(l)
  <2>1. /\ login[l].stage = "stored" /\ login' = [login EXCEPT ![l].stage = "rendered"]
        /\ UNCHANGED <<store, callback, clock, added>>
    BY <1>8 DEF RenderPage
  <2>2. /\ login'[l].stage = "rendered" /\ login'[l].session = login[l].session
        /\ login'[l].now = login[l].now /\ \A m \in Logins \ {l} : login'[m] = login[m]
    BY <1>1, <1>2, <2>1, OneStageChanges
  <2> QED
    BY <1>1, <1>3, <2>1, <2>2, StorageUntouched DEF Late
<1>9. CASE DeliverPage(l)
  <2>1. /\ login[l].stage = "rendered" /\ login' = [login EXCEPT ![l] = Arrived(login[l])]
        /\ UNCHANGED <<store, callback, clock, added>>
    BY <1>9 DEF DeliverPage
  <2>2. login'[l] = Arrived(login[l]) /\ \A m \in Logins \ {l} : login'[m] = login[m]
    BY <1>1, <2>1
  <2>3. /\ login'[l].stage = "delivered" /\ login'[l].session = login[l].session
        /\ login'[l].now = login[l].now
    BY <2>2 DEF Arrived
  <2> QED
    BY <1>1, <1>3, <2>1, <2>2, <2>3, StorageUntouched DEF Late
<1>10. CASE LosePage(l)
  <2>1. /\ login[l].stage = "rendered" /\ login' = [login EXCEPT ![l].stage = "lost"]
        /\ UNCHANGED <<store, callback, clock, added>>
    BY <1>10 DEF LosePage
  <2>2. /\ login'[l].stage = "lost" /\ login'[l].session = login[l].session
        /\ login'[l].now = login[l].now /\ \A m \in Logins \ {l} : login'[m] = login[m]
    BY <1>1, <1>2, <2>1, OneStageChanges
  <2> QED
    BY <1>1, <1>3, <2>1, <2>2, StorageUntouched DEF Late
<1> QED
  BY <1>4, <1>5, <1>6, <1>7, <1>8, <1>9, <1>10 DEF HandleLogin

\* A callback stays accepted and keeps its state, whatever a handler does.
LEMMA AcceptedStays ==
  ASSUME FlowInv, NEW c \in Callbacks, HandleTelegramAuth(c)
  PROVE  \A d \in Callbacks :
           Accepted(d) => Accepted(d)' /\ callback'[d].state = callback[d].state
<1>1. callback \in [Callbacks -> CallbackRecords]
  BY DEF FlowInv, Types
<1>2. ASSUME NEW answer, Answer(c, answer)
      PROVE  \A d \in Callbacks :
               Accepted(d) => Accepted(d)' /\ callback'[d].state = callback[d].state
  <2>1. callback' = [callback EXCEPT ![c] = Answered(c, answer)]
    BY <1>2 DEF Answer
  <2>2. /\ callback'[c] = Answered(c, answer)
        /\ \A d \in Callbacks \ {c} : callback'[d] = callback[d]
    BY <1>1, <2>1
  <2>3. /\ Answered(c, answer).state = callback[c].state
        /\ Accepted(c) => Answered(c, answer).stage = "accepted"
    BY DEF Answered
  <2> QED
    BY <2>2, <2>3 DEF Accepted
<1>3. ASSUME NEW stage \in {"accepted", "validated", "linked", "relayed"}, Advance(c, stage)
      PROVE  \A d \in Callbacks :
               Accepted(d) => Accepted(d)' /\ callback'[d].state = callback[d].state
  <2>1. stage \in CallbackStages
    BY DEF CallbackStages
  <2>2. /\ \A d \in Callbacks \ {c} : callback'[d] = callback[d]
        /\ callback'[c].stage = stage /\ callback'[c].state = callback[c].state
    BY <1>3, <2>1, AdvanceFields
  <2> QED
    BY <2>2 DEF Accepted
<1>4. CASE \E b \in Browsers, bot \in Bots, l, n \in Logins : PostCallback(c, b, bot, l, n)
  <2>1. callback[c].stage = "idle" /\ \A d \in Callbacks \ {c} : callback'[d] = callback[d]
    BY <1>1, <1>4 DEF PostCallback
  <2> QED
    BY <2>1 DEF Accepted
<1>5. CASE ConsumeState(c)
  BY <1>2, <1>3, <1>5 DEF ConsumeState
<1>6. CASE IssueJWT(c)
  <2> DEFINE r == callback[c]
             new == [stage |-> "issued", answer |-> "none", bot |-> r.bot,
                     session |-> r.session, state |-> r.state, nonce |-> r.nonce,
                     expires |-> r.expires, now |-> r.now,
                     issued |-> clock, jwtExpires |-> RelayExpiry(r)]
  <2>1. callback' = [callback EXCEPT ![c] = new]
    BY <1>6 DEF IssueJWT
  <2>2. new.stage = "issued" /\ new.state = r.state
    OBVIOUS
  <2> HIDE DEF new
  <2>3. callback'[c] = new /\ \A d \in Callbacks \ {c} : callback'[d] = callback[d]
    BY <1>1, <2>1
  <2> QED
    BY <2>2, <2>3 DEF Accepted
<1>7. CASE \/ RefuseCallback(c) \/ RejectState(c) \/ RejectToken(c) \/ LinkFails(c)
           \/ IssueFails(c) \/ AnswerRelay(c)
  BY <1>2, <1>7
  DEF RefuseCallback, RejectState, RejectToken, LinkFails, IssueFails, AnswerRelay
<1>8. CASE ValidateToken(c) \/ LinkAccount(c) \/ Relay(c)
  BY <1>3, <1>8 DEF ValidateToken, LinkAccount, Relay
<1> QED
  BY <1>4, <1>5, <1>6, <1>7, <1>8 DEF HandleTelegramAuth

\* What consume takes is expired, or the caller's who is accepted with it.
LEMMA ConsumePromise ==
  ASSUME UsableInv, FlowInv', NEW c \in Callbacks, ConsumeState(c)
  PROVE  UsableInv'
<1> DEFINE r == callback[c]
           key == Key(r.session, r.state)
           a == Consume(store, key, r.now)
<1>1. FlowInv /\ clock \in Nat /\ WellFormed(store) /\ StoreGood(store)
      /\ r.now \in Nat /\ CallbackOK(r)
  <2>1. FlowInv /\ clock \in Nat /\ WellFormed(store) /\ StoreGood(store)
    BY DEF UsableInv, FlowInv, Types, StoreGood
  <2>2. r.now \in Nat
    BY <2>1, SMT DEF FlowInv, Types, CallbackRecords
  <2> QED
    BY <2>1, <2>2 DEF FlowInv
<1>2. /\ Running(c) /\ r.stage = "sent" /\ store' = a.store
      /\ a.result => Advance(c, "accepted")
      /\ UNCHANGED <<login, clock, added>>
  BY DEF ConsumeState
<1>3. /\ Thins(store', store)
      /\ \A k \in DOMAIN store.entries \ DOMAIN store'.entries :
           store.entries[k] <= r.now \/ (k = key /\ a.result)
  BY <1>1, <1>2, ConsumeThins
<1> HIDE DEF a
<1>4. r.now <= clock
  BY <1>1, <1>2 DEF CallbackOK, Running
<1>5. ASSUME NEW k \in DOMAIN store.entries \ DOMAIN store'.entries
      PROVE  \/ store.entries[k] <= clock
             \/ \E d \in Callbacks : callback'[d].state = k[2] /\ Accepted(d)'
  <2>1. CASE k = key /\ a.result
    <3>1. "accepted" \in CallbackStages
      BY DEF CallbackStages
    <3>2. callback'[c].stage = "accepted" /\ callback'[c].state = r.state
      BY <1>1, <1>2, <2>1, <3>1, AdvanceFields
    <3>3. k[2] = r.state
      BY <2>1 DEF Key, pendingStateKey
    <3> QED
      BY <3>2, <3>3 DEF Accepted
  <2>2. CASE store.entries[k] <= r.now
    <3>1. store.entries[k] = login[k[2]].now + StateTTL /\ login[k[2]].now \in Nat
      BY <1>1, PendingKey DEF StoreGood
    <3> QED
      BY <1>1, <1>4, <2>2, <3>1, LoginFlowAssumption
  <2> QED
    BY <1>3, <2>1, <2>2
<1>6. HandleTelegramAuth(c)
  BY DEF HandleTelegramAuth
<1>7. \A d \in Callbacks :
        Accepted(d) => Accepted(d)' /\ callback'[d].state = callback[d].state
  BY <1>1, <1>6, AcceptedStays
<1> QED
  BY <1>1, <1>2, <1>3, <1>5, <1>7, NothingStored

LEMMA HandleTelegramAuthPromise ==
  ASSUME UsableInv, FlowInv', NEW c \in Callbacks, HandleTelegramAuth(c)
  PROVE  UsableInv'
<1>1. FlowInv /\ clock \in Nat
  BY DEF UsableInv, FlowInv, Types
<1>2. CASE ConsumeState(c)
  BY <1>2, ConsumePromise
<1>3. CASE ~ConsumeState(c)
  <2>1. UNCHANGED <<store, login, clock, added>>
    BY <1>3
    DEF HandleTelegramAuth, PostCallback, RefuseCallback, RejectState, ValidateToken,
        RejectToken, LinkAccount, LinkFails, IssueJWT, IssueFails, Relay, AnswerRelay
  <2>2. \A d \in Callbacks :
          Accepted(d) => Accepted(d)' /\ callback'[d].state = callback[d].state
    BY <1>1, AcceptedStays
  <2> QED
    BY <1>1, <2>1, <2>2, StorageUntouched
<1> QED
  BY <1>2, <1>3

\* After a start nothing is pending and nothing was promised.
LEMMA EmptyPromise ==
  ASSUME FlowInv', store' = newPendingStateStore, added' = <<>>
  PROVE  UsableInv'
<1>1. DOMAIN added' = {} /\ added' \in Seq(Logins)
  OBVIOUS
<1>2. WellFormed(store') /\ DOMAIN store'.entries = {}
  BY NewStoreWellFormed
<1>3. Cardinality({}) = 0
  BY FS_EmptySet
<1>4. \A x \in Logins : OwnKeys(store', x) = {}
  BY <1>2 DEF OwnKeys
<1>5. StoreGood(store)'
  <2>1. 0 <= MaxEntries /\ 0 <= MaxPerSession
    BY PendingStatesAssumption
  <2>2. Cardinality(DOMAIN store'.entries) <= MaxEntries
    BY <1>2, <1>3, <2>1
  <2>3. \A x \in Logins : Cardinality(OwnKeys(store', x)) <= MaxPerSession
    BY <1>3, <1>4, <2>1
  <2> QED
    BY <1>2, <2>2, <2>3 DEF StoreGood
<1>6. \A l \in Logins : Usable(l)'
  BY <1>1 DEF Usable, Position
<1> QED
  BY <1>1, <1>5, <1>6 DEF UsableInv

\* What was delivered stays usable, whatever happens.
THEOREM UsableInvariant == Spec => []UsableInv
<1>1. Init => UsableInv
  <2> SUFFICES ASSUME Init PROVE UsableInv
    OBVIOUS
  <2>1. FlowInv /\ store = newPendingStateStore /\ added = <<>>
    BY InitInv DEF Init
  <2>2. DOMAIN added = {} /\ added \in Seq(Logins)
    BY <2>1
  <2>3. WellFormed(store) /\ DOMAIN store.entries = {}
    BY <2>1, NewStoreWellFormed
  <2>4. Cardinality({}) = 0
    BY FS_EmptySet
  <2>5. \A x \in Logins : OwnKeys(store, x) = {}
    BY <2>3 DEF OwnKeys
  <2>6. StoreGood(store)
    BY <2>3, <2>4, <2>5, PendingStatesAssumption DEF StoreGood
  <2>7. \A l \in Logins : Usable(l)
    BY <2>2 DEF Usable, Position
  <2> QED
    BY <2>1, <2>2, <2>6, <2>7 DEF UsableInv
<1>2. UsableInv /\ FlowInv' /\ [Next]_vars => UsableInv'
  <2> SUFFICES ASSUME UsableInv, FlowInv', [Next]_vars PROVE UsableInv'
    OBVIOUS
  <2>1. CASE \E l \in Logins : HandleLogin(l)
    BY <2>1, HandleLoginPromise
  <2>2. CASE \E c \in Callbacks : HandleTelegramAuth(c)
    BY <2>2, HandleTelegramAuthPromise
  <2>3. CASE Tick \/ UNCHANGED vars
    <3>1. clock \in Nat
      BY DEF UsableInv, FlowInv, Types
    <3>2. UNCHANGED <<store, login, callback, added>> /\ clock' >= clock /\ clock' \in Nat
      BY <2>3, <3>1 DEF Tick, vars
    <3>3. \A d \in Callbacks :
            Accepted(d) => Accepted(d)' /\ callback'[d].state = callback[d].state
      BY <3>2 DEF Accepted
    <3> QED
      BY <3>2, <3>3, StorageUntouched
  <2>4. CASE Restart
    BY <2>4, EmptyPromise DEF Restart
  <2> QED
    BY <2>1, <2>2, <2>3, <2>4 DEF Next
<1> QED
  BY Invariant, <1>1, <1>2, PTL DEF Spec

\* A page that was delivered can be used: as long as it has not expired or been used
\* and fewer than maxPerSession further pages were issued to its session, its state is
\* pending.
THEOREM PageIsUsableHolds == Spec => []PageIsUsable
<1>1. UsableInv => PageIsUsable
  <2> SUFFICES ASSUME UsableInv, NEW l \in Logins, login[l].stage = "delivered",
                      Position(l) # {}, clock < login[l].now + StateTTL,
                      Cardinality(Later(l)) < MaxPerSession,
                      \A c \in Callbacks : callback[c].state = l => ~Accepted(c)
               PROVE  Key(login[l].session, l) \in DOMAIN store.entries
    BY DEF PageIsUsable
  <2>1. Usable(l) /\ added \in Seq(Logins) /\ FlowInv
    BY DEF UsableInv
  <2>2. clock \in Nat /\ login[l].now \in Nat
    BY <2>1, SMT DEF FlowInv, Types, LoginRecords
  <2>3. Cardinality(Later(l)) \in Nat
    BY <2>1, FewLater
  <2>4. ~Gone(l)
    BY <2>2, <2>3, LoginFlowAssumption, PendingStatesAssumption DEF Gone
  <2> QED
    BY <2>1, <2>4 DEF Usable, Late
<1> QED
  BY UsableInvariant, <1>1, PTL
=============================================================================
