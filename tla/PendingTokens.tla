---------------------------- MODULE PendingTokens ----------------------------
(***************************************************************************)
(* What the pending-state store promises, without its lists: a set of live *)
(* tokens, each with an expiry.  A token is issued to a session, redeemed  *)
(* at most once and only before it expires.  It is lost only because it    *)
(* expired, or because its own session, being at its limit, was issued     *)
(* another one, and then it is one of the session's oldest.  Issuing is    *)
(* refused only when the store is full of tokens that are live, up to the  *)
(* Lag by which callers' clock readings may trail each other.              *)
(***************************************************************************)
EXTENDS Integers, FiniteSets

CONSTANTS
  Sessions, Verifiers,
  MaxEntries, MaxPerSession,
  TTL,        \* lifetime of a token
  Lag,        \* how old a caller's clock reading may be when it is used
  MaxClock    \* bound on the clock

VARIABLES
  live,    \* token -> expiry
  clock,
  reply    \* the last call and its answer

vars == <<live, clock, reply>>

Tokens == Sessions \X Verifiers

Readings == {t \in (clock - Lag)..clock : t >= 0}

NoReply == [call |-> "none"]

Expired(token, now) == live[token] <= now

Own(tokens, token) == {t \in tokens : t[1] = token[1]}

\* The tokens a call may still see: it may first forget any that have expired.
Remaining(now) ==
  {DOMAIN live \ gone : gone \in SUBSET {t \in DOMAIN live : Expired(t, now)}}

Keep(tokens) == [t \in tokens |-> live[t]]

Grant(tokens, token, expires) ==
  [t \in tokens \cup {token} |-> IF t = token THEN expires ELSE live[t]]

Answer(call, token, now, result) ==
  /\ reply' = [call |-> call, key |-> token, now |-> now, result |-> result]
  /\ UNCHANGED clock

Init ==
  /\ live = [t \in {} |-> 0]
  /\ clock = 0
  /\ reply = NoReply

Renew(token, now) == \E rest \in Remaining(now) :
  /\ token \in rest
  /\ live' = Grant(rest, token, now + TTL)
  /\ Answer("add", token, now, "added")

Issue(token, now) == \E rest \in Remaining(now) :
  /\ token \notin rest
  /\ Cardinality(Own(rest, token)) < MaxPerSession
  /\ Cardinality(rest) < MaxEntries
  /\ live' = Grant(rest, token, now + TTL)
  /\ Answer("add", token, now, "added")

Displace(token, now) == \E rest \in Remaining(now) : \E oldest \in Own(rest, token) :
  /\ token \notin rest
  /\ Cardinality(Own(rest, token)) = MaxPerSession
  /\ \A t \in Own(rest, token) : live[oldest] <= live[t] + Lag
  /\ live' = Grant(rest \ {oldest}, token, now + TTL)
  /\ Answer("add", token, now, "sessionEvicted")

Refuse(token, now) ==
  /\ token \notin DOMAIN live
  /\ Cardinality(Own(DOMAIN live, token)) < MaxPerSession
  /\ Cardinality(DOMAIN live) = MaxEntries
  /\ \A t \in DOMAIN live : live[t] > now - Lag
  /\ UNCHANGED live
  /\ Answer("add", token, now, "atCapacity")

Redeem(token, now) == \E rest \in Remaining(now) :
  /\ live' = Keep(rest \ {token})
  /\ Answer("consume", token, now, token \in DOMAIN live /\ ~Expired(token, now))

Tick ==
  /\ clock < MaxClock
  /\ clock' = clock + 1
  /\ UNCHANGED <<live, reply>>

Next ==
  \/ Tick
  \/ \E token \in Tokens, now \in Readings :
       \/ Renew(token, now)
       \/ Issue(token, now)
       \/ Displace(token, now)
       \/ Refuse(token, now)
       \/ Redeem(token, now)

Spec == Init /\ [][Next]_vars
=============================================================================
