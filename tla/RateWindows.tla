----------------------------- MODULE RateWindows -----------------------------
(***************************************************************************)
(* What a rate limit promises: a client's first request opens a window of  *)
(* length Window, in which up to Requests of its requests are allowed and  *)
(* all others refused; the first request at or after the window's end      *)
(* opens the next one.  A window that is open is never forgotten.  A       *)
(* client without a window is refused only when MaxEntries windows are     *)
(* kept, none of which is over by the Lag of clock readings.               *)
(***************************************************************************)
EXTENDS Integers, FiniteSets

CONSTANTS Clients, Requests, Window, MaxEntries, Lag, MaxClock

VARIABLES
  windows,   \* client -> the end of its window and the requests it was allowed
  clock,
  verdict    \* on the last request

vars == <<windows, clock, verdict>>

Readings == {t \in (clock - Lag)..clock : t >= 0}

Over(client, now) == windows[client].reset <= now

Init ==
  /\ windows = [c \in {} |-> 0]
  /\ clock = 0
  /\ verdict = "none"

Give(v) == verdict' = v /\ UNCHANGED clock

\* The clients whose windows are still kept: any that are over may be dropped.
Kept(now) ==
  {DOMAIN windows \ dropped : dropped \in SUBSET {c \in DOMAIN windows : Over(c, now)}}

Set(kept, client, w) ==
  [c \in kept \cup {client} |-> IF c = client THEN w ELSE windows[c]]

Open(client, now) == \E kept \in Kept(now) :
  /\ client \in DOMAIN windows => Over(client, now)
  /\ Cardinality(kept \cup {client}) <= MaxEntries
  /\ windows' = Set(kept, client, [reset |-> now + Window, count |-> 1])
  /\ Give("allowed")

Pass(client, now) == \E kept \in Kept(now) :
  /\ client \in kept /\ ~Over(client, now)
  /\ windows[client].count < Requests
  /\ windows' = Set(kept, client, [windows[client] EXCEPT !.count = @ + 1])
  /\ Give("allowed")

Limit(client, now) == \E kept \in Kept(now) :
  /\ client \in kept /\ ~Over(client, now)
  /\ windows[client].count = Requests
  /\ windows' = [c \in kept |-> windows[c]]
  /\ Give("limited")

Full(client, now) ==
  /\ client \notin DOMAIN windows
  /\ Cardinality(DOMAIN windows) = MaxEntries
  /\ \A c \in DOMAIN windows : windows[c].reset > now - Lag
  /\ UNCHANGED windows
  /\ Give("full")

Tick ==
  /\ clock < MaxClock
  /\ clock' = clock + 1
  /\ UNCHANGED <<windows, verdict>>

Next ==
  \/ Tick
  \/ \E client \in Clients, now \in Readings :
       \/ Open(client, now)
       \/ Pass(client, now)
       \/ Limit(client, now)
       \/ Full(client, now)

Spec == Init /\ [][Next]_vars
=============================================================================
