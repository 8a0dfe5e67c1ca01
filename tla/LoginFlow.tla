------------------------------ MODULE LoginFlow ------------------------------
(***************************************************************************)
(* handleLogin and handleTelegramAuth, run by concurrent request handlers  *)
(* that share the pending-state store, together with the browsers that     *)
(* hold the session cookie and the service's crashes.                      *)
(*                                                                         *)
(* A login is one GET of the login page.  Its nonce is fresh, so the login *)
(* itself stands for its nonce, for the signed state that carries it and   *)
(* for the verifier of that state; a session made by a login that came     *)
(* without a cookie is named after that login (newNonce again).  A state   *)
(* cannot be forged, so the states a callback may carry are those of pages *)
(* that were delivered.  A callback is one POST: several may carry the     *)
(* same state, because a browser repeats it or another tab or browser has  *)
(* it.                                                                     *)
(*                                                                         *)
(* A step is what a handler does between two points where others can run:  *)
(* the request with its cookie and its reading of the clock, the store's   *)
(* critical section, each call to Telegram, to the prelink backend and to  *)
(* ZITADEL, the arrival of the page.                                       *)
(***************************************************************************)
EXTENDS PendingStates, Sequences

CONSTANTS
  Logins,       \* GETs of the login page
  Callbacks,    \* POSTs to the callback
  Browsers,
  Bots,
  PrelinkBots,  \* the bots that have a prelink hook
  StateTTL,     \* Config.StateTTL
  TokenTTL,     \* lifetime of Telegram's ID token
  JWTTTL,       \* Config.JWT.TTL
  MinLifetime,  \* minimumRelayLifetime
  ClockSkew,    \* Config.ClockSkew: leeway for the token's expiry
  MaxClock,     \* bound on the clock
  MaxCrashes,   \* bound on the restarts of the service
  None          \* no session

ASSUME LoginFlowAssumption ==
  /\ PrelinkBots \subseteq Bots
  /\ StateTTL \in Nat \ {0} /\ TokenTTL \in Nat \ {0}
  /\ MinLifetime \in Nat \ {0} /\ JWTTTL \in Nat /\ JWTTTL >= MinLifetime
  /\ ClockSkew \in Nat /\ MaxClock \in Nat /\ MaxCrashes \in Nat
  /\ None \notin Logins

VARIABLES
  store,      \* Server.pendingStates
  login,      \* the handler of each login page request
  callback,   \* the handler of each callback request
  jar,        \* each browser's session cookie
  clock,
  crashes,
  added       \* history: the logins whose state was stored, oldest first

vars == <<store, login, callback, jar, clock, crashes, added>>

\* "failed" has been answered with an error; "lost" is a page that never arrived.
LoginStages == {"idle", "signed", "stored", "rendered", "delivered", "failed", "lost"}

\* How far a callback's handler has got: "accepted" is past consume,
\* "validated" past Validate, "linked" past prelinkTelegram, "issued" past
\* issueZitadelJWT and "relayed" past the request to ZITADEL.
CallbackStages ==
  {"idle", "sent", "accepted", "validated", "linked", "issued", "relayed"}

\* The redirect that ends a login, an error status, or nothing because the
\* service stopped under the handler.
Answers == {"none", "redirect", "error", "killed"}

NoLogin == [stage |-> "idle", browser |-> None, bot |-> None,
            session |-> None, now |-> 0, arrived |-> 0]

NoCallback == [stage |-> "idle", answer |-> "none", bot |-> None, session |-> None,
               state |-> None, nonce |-> None, expires |-> 0, now |-> 0,
               issued |-> 0, jwtExpires |-> 0]

NoCookie == [session |-> None, until |-> 0]

Key(session, l) == pendingStateKey(session, l)

Running(c) == callback[c].stage # "idle" /\ callback[c].answer = "none"

Init ==
  /\ store = newPendingStateStore
  /\ login = [l \in Logins |-> NoLogin]
  /\ callback = [c \in Callbacks |-> NoCallback]
  /\ jar = [b \in Browsers |-> NoCookie]
  /\ clock = 0
  /\ crashes = 0
  /\ added = <<>>

-----------------------------------------------------------------------------
(* The browser's cookie.                                                   *)

\* Mutant: every request makes a session of its own.
NoLoginSessionID(b) == None

\* loginSessionID, for the cookie that browser b sends now.
loginSessionID(b) == IF clock < jar[b].until THEN jar[b].session ELSE None

\* setLoginSessionCookie: Max-Age counts from the response's arrival.
setLoginSessionCookie(session) == [session |-> session, until |-> clock + StateTTL]

-----------------------------------------------------------------------------
(* handleLogin.                                                            *)

\* The rate limit, the query checks, a failing newNonce or signState.
RefuseLogin(l) ==
  /\ login[l].stage = "idle"
  /\ login' = [login EXCEPT ![l].stage = "failed"]
  /\ UNCHANGED <<store, callback, jar, clock, crashes, added>>

\* The request arrives with the cookie the browser holds now; the handler reads
\* the clock, signs a state and takes the cookie's session or makes one.
SignState(l, b, bot) ==
  /\ login[l].stage = "idle"
  /\ LET cookie == loginSessionID(b)
     IN login' = [login EXCEPT ![l] =
          [stage |-> "signed", browser |-> b, bot |-> bot,
           session |-> IF cookie = None THEN l ELSE cookie,
           now |-> clock, arrived |-> 0]]
  /\ UNCHANGED <<store, callback, jar, clock, crashes, added>>

\* pendingStates.add, with the clock as it was read before the lock.
StoreState(l) ==
  LET r == login[l]
      a == Add(store, Key(r.session, l), r.now + StateTTL, r.now)
  IN /\ r.stage = "signed"
     /\ store' = a.store
     /\ IF a.result = "atCapacity"
        THEN /\ login' = [login EXCEPT ![l].stage = "failed"]
             /\ UNCHANGED added
        ELSE /\ login' = [login EXCEPT ![l].stage = "stored"]
             /\ added' = Append(added, l)
     /\ UNCHANGED <<callback, jar, clock, crashes>>

\* Mutant: the state of a page that could not be rendered stays.
RenderFailsKeeping(l) ==
  /\ login[l].stage = "stored"
  /\ login' = [login EXCEPT ![l].stage = "failed"]
  /\ UNCHANGED <<store, callback, jar, clock, crashes, added>>

\* Mutant: all states of the session are taken back.
RenderFailsDropping(l) ==
  /\ login[l].stage = "stored"
  /\ store' = Remove(store, OwnKeys(store, login[l].session))
  /\ login' = [login EXCEPT ![l].stage = "failed"]
  /\ UNCHANGED <<callback, jar, clock, crashes, added>>

\* newCSPNonce or the template fails: the state is taken back.
RenderFails(l) ==
  LET r == login[l]
  IN /\ r.stage = "stored"
     /\ store' = Consume(store, Key(r.session, l), r.now).store
     /\ login' = [login EXCEPT ![l].stage = "failed"]
     /\ UNCHANGED <<callback, jar, clock, crashes, added>>

RenderPage(l) ==
  /\ login[l].stage = "stored"
  /\ login' = [login EXCEPT ![l].stage = "rendered"]
  /\ UNCHANGED <<store, callback, jar, clock, crashes, added>>

Arrived(r) ==
  [stage |-> "delivered", browser |-> r.browser, bot |-> r.bot, session |-> r.session,
   now |-> r.now, arrived |-> clock]

\* Mutant: the cookie is only set for a session that was just made.
DeliverPageKeepingCookie(l) ==
  LET r == login[l]
  IN /\ r.stage = "rendered"
     /\ login' = [login EXCEPT ![l] = Arrived(@)]
     /\ jar' = IF r.session = l
               THEN [jar EXCEPT ![r.browser] = setLoginSessionCookie(r.session)] ELSE jar
     /\ UNCHANGED <<store, callback, clock, crashes, added>>

\* The page and its cookie reach the browser, perhaps after those of a later
\* request of the same browser.
DeliverPage(l) ==
  LET r == login[l]
  IN /\ r.stage = "rendered"
     /\ login' = [login EXCEPT ![l] = Arrived(@)]
     /\ jar' = [jar EXCEPT ![r.browser] = setLoginSessionCookie(r.session)]
     /\ UNCHANGED <<store, callback, clock, crashes, added>>

LosePage(l) ==
  /\ login[l].stage = "rendered"
  /\ login' = [login EXCEPT ![l].stage = "lost"]
  /\ UNCHANGED <<store, callback, jar, clock, crashes, added>>

-----------------------------------------------------------------------------
(* handleTelegramAuth.                                                     *)

\* Browser b posts the state of l to bot's callback, with an ID token that
\* Telegram has just issued for the page of n.  The handler reads the clock
\* (line 332) before it looks at the state.
PostCallback(c, b, bot, l, n) ==
  /\ callback[c].stage = "idle"
  /\ login[l].stage = "delivered" /\ login[n].stage = "delivered"
  /\ callback' = [callback EXCEPT ![c] =
       [stage |-> "sent", answer |-> "none", bot |-> bot, session |-> loginSessionID(b),
        state |-> l, nonce |-> n, expires |-> clock + TokenTTL, now |-> clock,
        issued |-> 0, jwtExpires |-> 0]]
  /\ UNCHANGED <<store, login, jar, clock, crashes, added>>

Accepted(c) == callback[c].stage \notin {"idle", "sent"}

\* The handler returns; whether it got past consume is all that matters any more.
Answered(c, answer) ==
  [stage |-> IF Accepted(c) THEN "accepted" ELSE "sent", answer |-> answer,
   bot |-> None, session |-> None, state |-> callback[c].state, nonce |-> None,
   expires |-> 0, now |-> 0, issued |-> 0, jwtExpires |-> 0]

Answer(c, answer) == callback' = [callback EXCEPT ![c] = Answered(c, answer)]

Advance(c, stage) == callback' = [callback EXCEPT ![c].stage = stage]

\* Mutant: the bot of the state is not compared.
StateVerifiesForAnyBot(r) == r.now < login[r.state].now + StateTTL

\* verifyState, of a state whose signature is genuine.
StateVerifies(r) ==
  /\ login[r.state].bot = r.bot
  /\ r.now < login[r.state].now + StateTTL

\* The rate limit and the checks of the form, before the state is looked at.
RefuseCallback(c) ==
  /\ Running(c) /\ callback[c].stage = "sent"
  /\ Answer(c, "error")
  /\ UNCHANGED <<store, login, jar, clock, crashes, added>>

\* Mutant: whoever posts a state uses it up, whether the state is accepted or not.
RejectStateConsuming(c) ==
  LET r == callback[c]
  IN /\ Running(c) /\ r.stage = "sent"
     /\ ~StateVerifies(r) \/ r.session = None
     /\ store' = Remove(store, {Key(login[r.state].session, r.state)})
     /\ Answer(c, "error")
     /\ UNCHANGED <<login, jar, clock, crashes, added>>

\* The state does not verify, or the request has no session cookie.
RejectState(c) ==
  LET r == callback[c]
  IN /\ Running(c) /\ r.stage = "sent"
     /\ ~StateVerifies(r) \/ r.session = None
     /\ Answer(c, "error")
     /\ UNCHANGED <<store, login, jar, clock, crashes, added>>

\* pendingStates.consume, with the clock as it was read before the lock.
ConsumeState(c) ==
  LET r == callback[c]
      a == Consume(store, Key(r.session, r.state), r.now)
  IN /\ Running(c) /\ r.stage = "sent"
     /\ StateVerifies(r) /\ r.session # None
     /\ store' = a.store
     /\ IF a.result THEN Advance(c, "accepted") ELSE Answer(c, "error")
     /\ UNCHANGED <<login, jar, clock, crashes, added>>

\* telegram.Validate, as far as it depends on this flow.
TokenValid(r) == r.nonce = r.state /\ clock < r.expires + ClockSkew

ValidateToken(c) ==
  /\ Running(c) /\ callback[c].stage = "accepted"
  /\ TokenValid(callback[c])
  /\ Advance(c, "validated")
  /\ UNCHANGED <<store, login, jar, clock, crashes, added>>

\* A token that is not valid, or signing keys that cannot be fetched.
RejectToken(c) ==
  /\ Running(c) /\ callback[c].stage = "accepted"
  /\ Answer(c, "error")
  /\ UNCHANGED <<store, login, jar, clock, crashes, added>>

\* prelinkTelegram: returns at once for a bot without a hook.
LinkAccount(c) ==
  /\ Running(c) /\ callback[c].stage = "validated"
  /\ Advance(c, "linked")
  /\ UNCHANGED <<store, login, jar, clock, crashes, added>>

LinkFails(c) ==
  /\ Running(c) /\ callback[c].stage = "validated"
  /\ callback[c].bot \in PrelinkBots
  /\ Answer(c, "error")
  /\ UNCHANGED <<store, login, jar, clock, crashes, added>>

\* Mutant: the token's own expiry is not considered.
RelayExpiryOfConfig(r) == clock + JWTTTL

\* The expiry issueZitadelJWT gives the relay token.
RelayExpiry(r) == IF r.expires < clock + JWTTTL THEN r.expires ELSE clock + JWTTTL

IssueJWT(c) ==
  LET r == callback[c]
  IN /\ Running(c) /\ r.stage = "linked"
     /\ RelayExpiry(r) - clock >= MinLifetime
     /\ callback' = [callback EXCEPT ![c] =
          [stage |-> "issued", answer |-> "none", bot |-> r.bot, session |-> r.session,
           state |-> r.state, nonce |-> r.nonce, expires |-> r.expires, now |-> r.now,
           issued |-> clock, jwtExpires |-> RelayExpiry(r)]]
     /\ UNCHANGED <<store, login, jar, clock, crashes, added>>

\* Too short a lifetime, or a failure of the random source or the signer.
IssueFails(c) ==
  /\ Running(c) /\ callback[c].stage = "linked"
  /\ Answer(c, "error")
  /\ UNCHANGED <<store, login, jar, clock, crashes, added>>

\* proxyToZitadel up to the request to ZITADEL, which may arrive whatever
\* comes back.
Relay(c) ==
  /\ Running(c) /\ callback[c].stage = "issued"
  /\ Advance(c, "relayed")
  /\ UNCHANGED <<store, login, jar, clock, crashes, added>>

\* The rest of proxyToZitadel: a redirect, as such or as a page that navigates,
\* or the registration form is passed on, or the response is refused.  The
\* request may also have failed before it was sent.
AnswerRelay(c) ==
  /\ Running(c) /\ callback[c].stage \in {"issued", "relayed"}
  /\ \E answer \in {"redirect", "error"} :
       /\ answer = "redirect" => callback[c].stage = "relayed"
       /\ Answer(c, answer)
  /\ UNCHANGED <<store, login, jar, clock, crashes, added>>

-----------------------------------------------------------------------------
Tick ==
  /\ clock < MaxClock
  /\ clock' = clock + 1
  /\ UNCHANGED <<store, login, callback, jar, crashes, added>>

\* The process stops and starts again: its handlers are gone and the store is
\* empty, while the bots' secrets, and so the signed states, are the same.
Restart ==
  /\ crashes < MaxCrashes
  /\ crashes' = crashes + 1
  /\ store' = newPendingStateStore
  /\ login' = [l \in Logins |->
       IF login[l].stage \in {"signed", "stored"}
       THEN [login[l] EXCEPT !.stage = "failed"] ELSE login[l]]
  /\ callback' = [c \in Callbacks |->
       IF Running(c) THEN Answered(c, "killed") ELSE callback[c]]
  /\ added' = <<>>
  /\ UNCHANGED <<jar, clock>>

HandleLogin(l) ==
  \/ RefuseLogin(l)
  \/ \E b \in Browsers, bot \in Bots : SignState(l, b, bot)
  \/ StoreState(l)
  \/ RenderFails(l)
  \/ RenderPage(l)
  \/ DeliverPage(l)
  \/ LosePage(l)

HandleTelegramAuth(c) ==
  \/ \E b \in Browsers, bot \in Bots, l, n \in Logins :
       PostCallback(c, b, bot, l, n)
  \/ RefuseCallback(c)
  \/ RejectState(c)
  \/ ConsumeState(c)
  \/ ValidateToken(c)
  \/ RejectToken(c)
  \/ LinkAccount(c)
  \/ LinkFails(c)
  \/ IssueJWT(c)
  \/ IssueFails(c)
  \/ Relay(c)
  \/ AnswerRelay(c)

Next ==
  \/ \E l \in Logins : HandleLogin(l)
  \/ \E c \in Callbacks : HandleTelegramAuth(c)
  \/ Tick
  \/ Restart

Spec == Init /\ [][Next]_vars

-----------------------------------------------------------------------------
\* The variables have their types, and only states of logins are pending.
TypeOK ==
  /\ login \in [Logins -> [stage : LoginStages, browser : Browsers \cup {None},
                           bot : Bots \cup {None}, session : Logins \cup {None},
                           now : Nat, arrived : Nat]]
  /\ callback \in [Callbacks -> [stage : CallbackStages, answer : Answers,
                                 bot : Bots \cup {None}, session : Logins \cup {None},
                                 state : Logins \cup {None}, nonce : Logins \cup {None},
                                 expires : Nat, now : Nat, issued : Nat, jwtExpires : Nat]]
  /\ jar \in [Browsers -> [session : Logins \cup {None}, until : Nat]]
  /\ DOMAIN store.entries \subseteq {Key(s, l) : s \in Logins, l \in Logins}
  /\ added \in Seq(Logins)
  /\ clock \in 0..MaxClock /\ crashes \in 0..MaxCrashes

\* A state is single-use (README.md:284): of all the callbacks that carry it, at
\* the same time, one after another or after a restart, at most one gets past
\* consume, so at most one runs the prelink hook or reaches ZITADEL.
StateIsSingleUse ==
  \A c, d \in Callbacks :
    Accepted(c) /\ Accepted(d) /\ callback[c].state = callback[d].state => c = d

\* A state is accepted only from the session and for the bot it was issued to,
\* only after its page was delivered, and only before it expires.
AcceptedFromItsPage ==
  \A c \in Callbacks : Running(c) /\ Accepted(c) =>
    LET l == login[callback[c].state]
    IN /\ l.stage = "delivered"
       /\ l.session = callback[c].session
       /\ l.bot = callback[c].bot
       /\ callback[c].now < l.now + StateTTL

\* What is relayed stems from a token for the same page that had not expired
\* when the relay token was made (the clock skew that Validate tolerates
\* notwithstanding), and does not outlive it.
RelayWithinToken ==
  \A c \in Callbacks : Running(c) /\ callback[c].stage \in {"issued", "relayed"} =>
    LET r == callback[c]
    IN /\ r.nonce = r.state
       /\ r.issued + MinLifetime <= r.jwtExpires
       /\ r.jwtExpires <= r.expires

Position(l) == {i \in DOMAIN added : added[i] = l}

\* How many states the same session was issued after that of l.
Later(l) ==
  {m \in Logins : /\ login[m].session = login[l].session
                  /\ \E i \in Position(l), j \in Position(m) : i < j}

\* A page that was delivered can be used: as long as its browser still holds
\* its session, it has not expired or been used, and fewer than maxPerSession
\* further pages were issued to the session, its state is pending.  No refusal,
\* no failed rendering, no other session and no order of the handlers' store
\* accesses takes it away.
PageIsUsable ==
  \A l \in Logins :
    /\ login[l].stage = "delivered"
    /\ Position(l) # {}
    /\ clock < login[l].now + StateTTL
    /\ Cardinality(Later(l)) < MaxPerSession
    /\ \A c \in Callbacks : callback[c].state = l => ~Accepted(c)
    => Key(login[l].session, l) \in DOMAIN store.entries

\* As long as the browser holds the session of a page, the cookie lives at
\* least as long as the page's state, however the responses overtake each other.
CookieOutlivesPage ==
  \A l \in Logins :
    LET b == login[l].browser
    IN login[l].stage = "delivered" /\ jar[b].session = login[l].session
       => jar[b].until >= login[l].now + StateTTL

\* A browser loses the session of a page that has not expired in one way only:
\* it had asked for another page, without a cookie yet, before this one arrived
\* (both requests then make a session, and the later response wins).
SessionLostOnlyByOverlap ==
  \A l \in Logins :
    LET b == login[l].browser
    IN /\ login[l].stage = "delivered"
       /\ clock < login[l].now + StateTTL
       /\ jar[b].session # login[l].session
       => \E m \in Logins \ {l} : /\ login[m].browser = b
                                  /\ login[m].session = jar[b].session
                                  /\ login[m].now <= login[l].arrived

\* A login that was answered with an error leaves nothing pending.
FailedLoginHoldsNothing ==
  \A l \in Logins : login[l].stage = "failed" =>
    \A s \in Logins : Key(s, l) \notin DOMAIN store.entries

\* "Every callback attempt consumes its state" (README.md:286-287): once a
\* callback has been answered, the state it carried is no longer pending.
EveryAttemptConsumes ==
  \A c \in Callbacks : callback[c].answer \notin {"none", "killed"} =>
    LET l == callback[c].state
    IN Key(login[l].session, l) \notin DOMAIN store.entries
=============================================================================
