--------------------------- MODULE RequestLimiter ---------------------------
(***************************************************************************)
(* requestLimiter (internal/app/rate_limit.go): fixed windows counted per  *)
(* client in a bounded map, with one list in the order of use and one in   *)
(* the order of the windows' ends.  allow holds the mutex throughout, so   *)
(* it is one step; its caller has read the clock before it takes the       *)
(* mutex, so the readings of successive calls may be out of order.         *)
(***************************************************************************)
EXTENDS LinkedList

CONSTANTS
  Clients,       \* the keys: scope, bot and client address
  Requests,      \* requests allowed in one window
  Window,        \* the window's length
  MinStaleAge,   \* the five minutes after which an entry may be stale
  MinInterval,   \* the minute between two cleanups
  Second,        \* the clock's units in a second
  MaxEntries,    \* maxEntries
  CleanupBatch,  \* maxRateLimitCleanupBatch
  Lag,           \* how old a caller's clock reading may be when it is used
  MaxClock       \* bound on the clock

ASSUME RequestLimiterAssumption ==
  /\ Requests \in Nat \ {0} /\ Window \in Nat \ {0}
  /\ MinStaleAge \in Nat /\ MinInterval \in Nat /\ Second \in Nat \ {0}
  /\ MaxEntries \in Nat \ {0} /\ CleanupBatch \in Nat \ {0}
  /\ Lag \in Nat /\ MaxClock \in Nat

VARIABLES
  limiter,   \* the fields that the mutex guards
  clock,
  verdict    \* what the last call returned

vars == <<limiter, clock, verdict>>

Greater(a, b) == IF a > b THEN a ELSE b

StaleAge == Greater(2 * Window, MinStaleAge)

\* No caller holds a reading for so long that the entry it touches is already stale.
ASSUME LagAssumption == Window + Lag <= StaleAge

newRequestLimiter ==
  [entries |-> [c \in {} |-> 0], order |-> EmptyList, resetOrder |-> EmptyList,
   nextCleanup |-> 0]

\* removeEntry, of every client of C.
Remove(l, C, nextCleanup) ==
  [entries |-> [c \in DOMAIN l.entries \ C |-> l.entries[c]],
   order |-> Unlink(l.order, C),
   resetOrder |-> Unlink(l.resetOrder, C),
   nextCleanup |-> nextCleanup]

\* Up to CleanupBatch of the list's elements from its front, as far as they are
\* all in C.
Front(list, C) ==
  {c \in FirstElements(list, CleanupBatch) : list[c] \cup {c} \subseteq C}

Over(l, now) == {c \in DOMAIN l.entries : l.entries[c].reset <= now}

\* Mutant: an entry is stale as soon as it was not used for a window's length.
StaleAfterUse(l, now) ==
  {c \in DOMAIN l.entries : l.entries[c].lastSeen <= now - Window + 1}

Stale(l, now) ==
  {c \in DOMAIN l.entries : \/ l.entries[c].lastSeen < now - StaleAge
                            \/ l.entries[c].reset + Window <= now}

\* cleanup: cleanupExpired, at most once in an interval.
Cleanup(l, now) ==
  IF now < l.nextCleanup THEN l
  ELSE Remove(l, Front(l.order, Stale(l, now)), now + Greater(Window, MinInterval))

cleanupResetExpired(l, now) ==
  Remove(l, Front(l.resetOrder, Over(l, now)), l.nextCleanup)

\* The client's entry goes to the back of the order of use.
SetEntry(l, c, entry, resetOrder) ==
  [entries |-> [d \in DOMAIN l.entries \cup {c} |-> IF d = c THEN entry ELSE l.entries[d]],
   order |-> MoveToBack(l.order, c),
   resetOrder |-> resetOrder,
   nextCleanup |-> l.nextCleanup]

\* A window that starts now.
StartWindow(l, c, now, resetOrder) ==
  SetEntry(l, c, [count |-> 1, reset |-> now + Window, lastSeen |-> now], resetOrder)

\* Mutant: a renewed entry keeps its place in the order of the windows' ends.
OpenWindowInPlace(l, c, now) ==
  StartWindow(l, c, now, IF c \in DOMAIN l.resetOrder THEN l.resetOrder
                         ELSE PushBack(l.resetOrder, c))

\* Mutant: the order of the windows' ends forgets a renewed entry.
OpenWindowUnlinked(l, c, now) ==
  StartWindow(l, c, now, IF c \in DOMAIN l.resetOrder THEN Unlink(l.resetOrder, {c})
                         ELSE PushBack(l.resetOrder, c))

\* The window of a new entry, or of one whose window is over.
OpenWindow(l, c, now) == StartWindow(l, c, now, MoveToBack(l.resetOrder, c))

\* A request in a window that is open; the window's end stays.
Use(l, c, now) ==
  LET count == l.entries[c].count
  IN SetEntry(l, c, [count |-> IF count < Requests THEN count + 1 ELSE count,
                     reset |-> l.entries[c].reset, lastSeen |-> now], l.resetOrder)

IsFull(l) == Cardinality(DOMAIN l.entries) >= MaxEntries

\* Mutant: the rest of a second is not waited for.
WholeSeconds(reset, now) == IF reset <= now THEN 1 ELSE (reset - now) \div Second

\* The Retry-After of a refusal, in whole seconds.
retryAfterSeconds(reset, now) ==
  IF reset <= now THEN 1 ELSE (reset - now + Second - 1) \div Second

\* When a limiter at capacity expects room: the end of the first of its windows.
RoomAt(l) == l.entries[CHOOSE c \in DOMAIN l.resetOrder : l.resetOrder[c] = {}].reset

\* allow: the limiter it leaves and what it returns.
Allow(l, c, now) ==
  LET cleaned == Cleanup(l, now)
      known   == c \in DOMAIN cleaned.entries
      room    == IF ~known /\ IsFull(cleaned) THEN cleanupResetExpired(cleaned, now)
                 ELSE cleaned
  IN IF known /\ c \notin Over(cleaned, now)
     THEN IF cleaned.entries[c].count < Requests
          THEN [limiter |-> Use(cleaned, c, now), verdict |-> "allowed", retryAfter |-> 0]
          ELSE [limiter |-> Use(cleaned, c, now), verdict |-> "limited",
                retryAfter |-> retryAfterSeconds(cleaned.entries[c].reset, now)]
     ELSE IF ~known /\ IsFull(room)
     THEN [limiter |-> room, verdict |-> "full",
           retryAfter |-> retryAfterSeconds(RoomAt(room), now)]
     ELSE [limiter |-> OpenWindow(room, c, now), verdict |-> "allowed", retryAfter |-> 0]

-----------------------------------------------------------------------------
\* The clock readings a caller may have taken by now.
Readings == {t \in (clock - Lag)..clock : t >= 0}

Init ==
  /\ limiter = newRequestLimiter
  /\ clock = 0
  /\ verdict = "none"

Request(c, now) ==
  LET a == Allow(limiter, c, now)
  IN limiter' = a.limiter /\ verdict' = a.verdict /\ UNCHANGED clock

Tick ==
  /\ clock < MaxClock
  /\ clock' = clock + 1
  /\ UNCHANGED <<limiter, verdict>>

Next == Tick \/ \E c \in Clients, now \in Readings : Request(c, now)

Spec == Init /\ [][Next]_vars

-----------------------------------------------------------------------------
Known == DOMAIN limiter.entries

\* The fields have their types.
TypeOK ==
  /\ limiter.entries \in [Known -> [count : 1..Requests, reset : 0..(clock + Window),
                                    lastSeen : 0..clock]]
  /\ Known \subseteq Clients
  /\ limiter.nextCleanup \in Nat
  /\ clock \in 0..MaxClock
  /\ verdict \in {"none", "allowed", "limited", "full"}

\* Both lists always hold exactly the entries of the map, of which there are at
\* most MaxEntries, although every path through allow moves, removes and adds
\* elements of the two lists separately.
ListsAgree ==
  /\ IsList(limiter.order) /\ DOMAIN limiter.order = Known
  /\ IsList(limiter.resetOrder) /\ DOMAIN limiter.resetOrder = Known
  /\ Cardinality(Known) <= MaxEntries

\* A window that ends more than Lag after another one stands behind it in the order
\* of the ends, so that a full limiter finds an entry to drop at the front.
ResetsNearlySorted ==
  \A c \in Known : \A d \in limiter.resetOrder[c] :
    limiter.entries[d].reset <= limiter.entries[c].reset + Lag

\* Retry-After tells the truth, for both kinds of refusal: a client that comes
\* back that many seconds later is let through, if nobody came in between.  What
\* stood in its way, its own window or the limiter's first one, has ended by then
\* and one of the cleanups takes it away; and it is not told to wait a second
\* more than its own window takes.
RetryAfterSuffices ==
  \A c \in Clients, now \in Readings :
    LET refusal == Allow(limiter, c, now)
        later   == now + refusal.retryAfter * Second
    IN refusal.verdict # "allowed" =>
         /\ refusal.retryAfter >= 1
         /\ Allow(refusal.limiter, c, later).verdict = "allowed"
         /\ refusal.verdict = "limited" =>
              Allow(refusal.limiter, c, later - Second).verdict = "limited"

\* The limiter keeps the promise of RateWindows: neither of the two cleanups
\* lifts a limit that is in force, and a client is turned away for capacity only
\* when all entries are needed.
Abstract ==
  INSTANCE RateWindows
    WITH windows <- [c \in Known |-> [reset |-> limiter.entries[c].reset,
                                      count |-> limiter.entries[c].count]]

ImplementsWindows == Abstract!Spec
=============================================================================
