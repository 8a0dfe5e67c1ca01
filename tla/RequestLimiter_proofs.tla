----------------------- MODULE RequestLimiter_proofs -----------------------
(***************************************************************************)
(* Proofs about RequestLimiter for any number of clients and requests and  *)
(* all lengths: its lists agree with its map, a refusal's Retry-After is   *)
(* enough, and it implements RateWindows.                                  *)
(***************************************************************************)
EXTENDS RequestLimiter, LinkedList_proofs

Entries(t) == [count : 1..Requests, reset : 0..(t + Window), lastSeen : 0..t]

\* The invariant of a limiter's record when the clock stands at t.  An entry is
\* used when its window opens or later, by readings that lag by no more than Lag.
Good(l, t) ==
  /\ l.entries \in [DOMAIN l.entries -> Entries(t)]
  /\ DOMAIN l.entries \subseteq Clients
  /\ IsList(l.order) /\ DOMAIN l.order = DOMAIN l.entries
  /\ IsList(l.resetOrder) /\ DOMAIN l.resetOrder = DOMAIN l.entries
  /\ Cardinality(DOMAIN l.entries) <= MaxEntries
  /\ l.nextCleanup \in Nat
  /\ \A c \in DOMAIN l.entries : l.entries[c].reset <= l.entries[c].lastSeen + Window + Lag
  /\ \A c \in DOMAIN l.entries : \A d \in l.resetOrder[c] :
       l.entries[d].reset <= l.entries[c].reset + Lag

LimiterInv ==
  /\ clock \in 0..MaxClock
  /\ verdict \in {"none", "allowed", "limited", "full"}
  /\ Good(limiter, clock)

\* m is l without some of the entries whose windows are over.
Shrunk(l, m, now) ==
  /\ DOMAIN m.entries \subseteq DOMAIN l.entries
  /\ \A c \in DOMAIN m.entries : m.entries[c] = l.entries[c]
  /\ DOMAIN l.entries \ DOMAIN m.entries \subseteq Over(l, now)

\* A map's domain is finite and counted.
LEMMA GoodIsFinite ==
  ASSUME NEW l, NEW t, Good(l, t)
  PROVE  IsFiniteSet(DOMAIN l.entries) /\ Cardinality(DOMAIN l.entries) \in Nat
BY FS_CardinalityType DEF Good, IsList

\* Removing entries disturbs nothing about the others.
LEMMA RemoveGood ==
  ASSUME NEW l, NEW t \in Nat, Good(l, t), NEW C, NEW next \in Nat
  PROVE  LET m == Remove(l, C, next)
         IN /\ Good(m, t)
            /\ DOMAIN m.entries = DOMAIN l.entries \ C
            /\ \A c \in DOMAIN m.entries : m.entries[c] = l.entries[c]
<1> DEFINE m == Remove(l, C, next)
           D == DOMAIN l.entries \ C
<1>1. /\ m.entries = [c \in D |-> l.entries[c]]
      /\ m.order = Unlink(l.order, C) /\ m.resetOrder = Unlink(l.resetOrder, C)
      /\ m.nextCleanup = next
  BY DEF Remove
<1> HIDE DEF m
<1>2. DOMAIN m.entries = D /\ \A c \in D : m.entries[c] = l.entries[c]
  BY <1>1
<1>3. m.entries \in [D -> Entries(t)] /\ D \subseteq Clients
  BY <1>1 DEF Good
<1>4. /\ IsList(m.order) /\ DOMAIN m.order = D
      /\ IsList(m.resetOrder) /\ DOMAIN m.resetOrder = D
      /\ \A c \in D : m.resetOrder[c] = l.resetOrder[c] \ C
  <2>1. /\ IsList(l.order) /\ IsList(l.resetOrder)
        /\ DOMAIN l.order \ C = D /\ DOMAIN l.resetOrder \ C = D
    BY DEF Good
  <2> HIDE DEF D
  <2>2. IsList(Unlink(l.order, C)) /\ DOMAIN Unlink(l.order, C) = D
    BY <2>1, UnlinkIsList
  <2>3. /\ IsList(Unlink(l.resetOrder, C)) /\ DOMAIN Unlink(l.resetOrder, C) = D
        /\ \A c \in D : Unlink(l.resetOrder, C)[c] = l.resetOrder[c] \ C
    BY <2>1, UnlinkIsList
  <2> QED
    BY <1>1, <2>2, <2>3, Zenon
<1>5. Cardinality(D) <= MaxEntries
  <2>1. /\ Cardinality(DOMAIN l.entries) \in Nat /\ IsFiniteSet(DOMAIN l.entries)
        /\ Cardinality(DOMAIN l.entries) <= MaxEntries
    BY GoodIsFinite DEF Good
  <2>2. Cardinality(D) <= Cardinality(DOMAIN l.entries) /\ IsFiniteSet(D)
    BY <2>1, FS_Subset
  <2>3. Cardinality(D) \in Nat
    BY <2>2, FS_CardinalityType
  <2> QED
    BY <2>1, <2>2, <2>3, RequestLimiterAssumption
<1>6. \A c \in D : m.entries[c].reset <= m.entries[c].lastSeen + Window + Lag
  BY <1>2 DEF Good
<1>7. ASSUME NEW c \in D, NEW d \in m.resetOrder[c]
      PROVE  m.entries[d].reset <= m.entries[c].reset + Lag
  <2>1. d \in l.resetOrder[c] /\ d \in D
    BY <1>4, <1>7 DEF Good, IsList
  <2> QED
    BY <1>2, <2>1 DEF Good
<1>8. DOMAIN m.entries = D /\ \A c \in DOMAIN m.entries : m.entries[c] = l.entries[c]
  BY <1>2
<1> HIDE DEF D
<1>9. Good(m, t)
  BY <1>1, <1>2, <1>3, <1>4, <1>5, <1>6, <1>7 DEF Good
<1> USE DEF D
<1> QED
  BY <1>8, <1>9 DEF m

\* A stale entry's window is over: no cleanup lifts a limit that is in force.
LEMMA StaleIsOver ==
  ASSUME NEW l, NEW t \in Nat, Good(l, t), NEW now \in Nat
  PROVE  Stale(l, now) \subseteq Over(l, now)
<1> SUFFICES ASSUME NEW c \in Stale(l, now) PROVE c \in Over(l, now)
  OBVIOUS
<1>1. /\ c \in DOMAIN l.entries /\ l.entries[c].reset \in Nat /\ l.entries[c].lastSeen \in Nat
      /\ l.entries[c].reset <= l.entries[c].lastSeen + Window + Lag
  BY RequestLimiterAssumption, SMT DEF Good, Entries, Stale
<1>2. StaleAge \in Nat /\ Window + Lag <= StaleAge /\ Window \in Nat /\ Lag \in Nat
  BY LagAssumption, RequestLimiterAssumption DEF StaleAge, Greater
<1>3. \/ l.entries[c].lastSeen < now - StaleAge
      \/ l.entries[c].reset + Window <= now
  BY DEF Stale
<1>4. l.entries[c].reset <= now
  BY <1>1, <1>2, <1>3
<1> QED
  BY <1>1, <1>4 DEF Over

\* What either cleanup leaves.
LEMMA CleanupGood ==
  ASSUME NEW l, NEW t \in Nat, Good(l, t), NEW now \in Nat
  PROVE  Good(Cleanup(l, now), t) /\ Shrunk(l, Cleanup(l, now), now)
<1>1. CASE now < l.nextCleanup
  BY <1>1 DEF Cleanup, Shrunk
<1>2. CASE ~(now < l.nextCleanup)
  <2> DEFINE C == Front(l.order, Stale(l, now))
             next == now + Greater(Window, MinInterval)
             m == Remove(l, C, next)
  <2>1. next \in Nat
    BY RequestLimiterAssumption DEF Greater
  <2>2. C \subseteq Over(l, now)
    BY StaleIsOver DEF Front
  <2>3. Cleanup(l, now) = m
    BY <1>2 DEF Cleanup
  <2> HIDE DEF C, next
  <2>4. /\ Good(m, t) /\ DOMAIN m.entries = DOMAIN l.entries \ C
        /\ \A c \in DOMAIN m.entries : m.entries[c] = l.entries[c]
    BY <2>1, RemoveGood
  <2> HIDE DEF m
  <2> QED
    BY <2>2, <2>3, <2>4 DEF Shrunk
<1> QED
  BY <1>1, <1>2

LEMMA ResetExpiredGood ==
  ASSUME NEW l, NEW t \in Nat, Good(l, t), NEW now \in Nat
  PROVE  Good(cleanupResetExpired(l, now), t) /\ Shrunk(l, cleanupResetExpired(l, now), now)
<1> DEFINE C == Front(l.resetOrder, Over(l, now))
           m == Remove(l, C, l.nextCleanup)
<1>1. l.nextCleanup \in Nat
  BY DEF Good
<1>2. C \subseteq Over(l, now)
  BY DEF Front
<1>3. cleanupResetExpired(l, now) = m
  BY DEF cleanupResetExpired
<1> HIDE DEF C
<1>4. /\ Good(m, t) /\ DOMAIN m.entries = DOMAIN l.entries \ C
      /\ \A c \in DOMAIN m.entries : m.entries[c] = l.entries[c]
  BY <1>1, RemoveGood
<1> HIDE DEF m
<1> QED
  BY <1>2, <1>3, <1>4 DEF Shrunk

\* Writing an entry, whose place in the order of the windows' ends is the caller's
\* business.
LEMMA SetEntryGood ==
  ASSUME NEW l, NEW t \in Nat, Good(l, t), NEW c \in Clients, NEW e \in Entries(t),
         e.reset <= e.lastSeen + Window + Lag,
         Cardinality(DOMAIN l.entries \cup {c}) <= MaxEntries,
         NEW r, IsList(r), DOMAIN r = DOMAIN l.entries \cup {c},
         \A x \in DOMAIN r : \A d \in r[x] :
           (IF d = c THEN e ELSE l.entries[d]).reset
             <= (IF x = c THEN e ELSE l.entries[x]).reset + Lag
  PROVE  Good(SetEntry(l, c, e, r), t)
<1> DEFINE m == SetEntry(l, c, e, r)
           D == DOMAIN l.entries \cup {c}
<1>1. /\ m.entries = [d \in D |-> IF d = c THEN e ELSE l.entries[d]]
      /\ m.order = MoveToBack(l.order, c) /\ m.resetOrder = r
      /\ m.nextCleanup = l.nextCleanup
  BY DEF SetEntry
<1> HIDE DEF m
<1>2. IsList(m.order) /\ DOMAIN m.order = D
  <2>1. IsList(l.order) /\ DOMAIN l.order = DOMAIN l.entries
    BY DEF Good
  <2>2. IsList(MoveToBack(l.order, c)) /\ DOMAIN MoveToBack(l.order, c) = DOMAIN l.order \cup {c}
    BY <2>1, MoveToBackIsList
  <2> QED
    BY <1>1, <2>1, <2>2, Zenon
<1>3. m.entries \in [D -> Entries(t)] /\ D \subseteq Clients
  BY <1>1 DEF Good
<1>4. \A d \in D : m.entries[d].reset <= m.entries[d].lastSeen + Window + Lag
  BY <1>1 DEF Good
<1>5. \A x \in D : \A d \in m.resetOrder[x] : m.entries[d].reset <= m.entries[x].reset + Lag
  <2>1. \A x \in D : m.resetOrder[x] \subseteq D
    BY <1>1 DEF IsList
  <2> QED
    BY <1>1, <2>1
<1>6. DOMAIN m.entries = D /\ m.nextCleanup \in Nat /\ DOMAIN r = D
  BY <1>1 DEF Good
<1>7. Cardinality(D) <= MaxEntries
  OBVIOUS
<1> HIDE DEF D
<1>8. Good(m, t)
  BY <1>1, <1>2, <1>3, <1>4, <1>5, <1>6, <1>7 DEF Good
<1> QED
  BY <1>8 DEF m

\* A window that opens now ends no earlier than any other by more than Lag.
LEMMA OpenWindowGood ==
  ASSUME NEW l, NEW t \in Nat, Good(l, t), NEW c \in Clients, NEW now \in 0..t,
         t - now <= Lag,
         Cardinality(DOMAIN l.entries \cup {c}) <= MaxEntries
  PROVE  Good(OpenWindow(l, c, now), t)
<1> DEFINE e == [count |-> 1, reset |-> now + Window, lastSeen |-> now]
           r == MoveToBack(l.resetOrder, c)
<1>1. e \in Entries(t) /\ e.reset = now + Window /\ e.reset <= e.lastSeen + Window + Lag
  BY RequestLimiterAssumption, SMT DEF Entries
<1>2. IsList(l.resetOrder) /\ DOMAIN l.resetOrder = DOMAIN l.entries
  BY DEF Good
<1>3. /\ IsList(r) /\ DOMAIN r = DOMAIN l.entries \cup {c}
      /\ \A y \in DOMAIN l.entries \ {c} : r[y] = l.resetOrder[y] \ {c}
  BY <1>2, MoveToBackIsList
<1>4. OpenWindow(l, c, now) = SetEntry(l, c, e, r)
  BY DEF OpenWindow, StartWindow
<1> HIDE DEF e, r
<1>5. \A d \in DOMAIN l.entries : l.entries[d].reset \in 0..(t + Window)
  BY DEF Good, Entries
<1>6. ASSUME NEW x \in DOMAIN r, NEW d \in r[x]
      PROVE  (IF d = c THEN e ELSE l.entries[d]).reset
               <= (IF x = c THEN e ELSE l.entries[x]).reset + Lag
  <2>1. CASE x = c
    <3>1. d \in DOMAIN l.entries \cup {c}
      BY <1>3, <1>6 DEF IsList
    <3>2. CASE d = c
      BY <1>1, <2>1, <3>2, RequestLimiterAssumption
    <3>3. CASE d # c
      <4>1. l.entries[d].reset \in 0..(t + Window)
        BY <1>5, <3>1, <3>3
      <4> QED
        BY <1>1, <2>1, <3>3, <4>1, RequestLimiterAssumption
    <3> QED
      BY <3>2, <3>3
  <2>2. CASE x # c
    <3>1. x \in DOMAIN l.entries /\ d \in l.resetOrder[x] /\ d # c
      BY <1>3, <1>6, <2>2
    <3> QED
      BY <2>2, <3>1 DEF Good
  <2> QED
    BY <2>1, <2>2
<1>7. Good(SetEntry(l, c, e, r), t)
  BY <1>1, <1>3, <1>6, SetEntryGood
<1> QED
  BY <1>4, <1>7

\* A request in an open window leaves the window's end and the order of the ends.
LEMMA UseGood ==
  ASSUME NEW l, NEW t \in Nat, Good(l, t), NEW c \in DOMAIN l.entries, NEW now \in 0..t,
         t - now <= Lag
  PROVE  Good(Use(l, c, now), t)
<1> DEFINE count == l.entries[c].count
           e == [count |-> IF count < Requests THEN count + 1 ELSE count,
                 reset |-> l.entries[c].reset, lastSeen |-> now]
<1>1. l.entries[c] \in Entries(t) /\ c \in Clients
  BY DEF Good
<1>2. e \in Entries(t) /\ e.reset = l.entries[c].reset /\ e.lastSeen = now
  BY <1>1, RequestLimiterAssumption, SMT DEF Entries
<1>3. e.reset <= e.lastSeen + Window + Lag
  BY <1>1, <1>2, RequestLimiterAssumption, SMT DEF Entries
<1>4. Use(l, c, now) = SetEntry(l, c, e, l.resetOrder)
  BY DEF Use
<1> HIDE DEF e
<1>5. DOMAIN l.entries \cup {c} = DOMAIN l.entries
  OBVIOUS
<1>6. /\ IsList(l.resetOrder) /\ DOMAIN l.resetOrder = DOMAIN l.entries
      /\ Cardinality(DOMAIN l.entries) <= MaxEntries
  BY DEF Good
<1>7. ASSUME NEW x \in DOMAIN l.resetOrder, NEW d \in l.resetOrder[x]
      PROVE  (IF d = c THEN e ELSE l.entries[d]).reset
               <= (IF x = c THEN e ELSE l.entries[x]).reset + Lag
  <2>1. l.entries[d].reset <= l.entries[x].reset + Lag
    BY <1>6, <1>7 DEF Good
  <2> QED
    BY <1>2, <2>1
<1>8. Good(SetEntry(l, c, e, l.resetOrder), t)
  BY <1>1, <1>2, <1>3, <1>5, <1>6, <1>7, SetEntryGood
<1> QED
  BY <1>4, <1>8

\* The front of the order of the windows' ends, to which RoomAt refers: every cleanup
\* that finds its window over removes it.
FrontOf(l) == CHOOSE c \in DOMAIN l.resetOrder : l.resetOrder[c] = {}

LEMMA FrontClient ==
  ASSUME NEW l, NEW t \in Nat, Good(l, t), DOMAIN l.entries # {}
  PROVE  /\ FrontOf(l) \in DOMAIN l.entries
         /\ RoomAt(l) = l.entries[FrontOf(l)].reset
         /\ \A d \in DOMAIN l.entries : d = FrontOf(l) \/ FrontOf(l) \in l.resetOrder[d]
         /\ \A now : FrontOf(l) \in Over(l, now) => FrontOf(l) \in Front(l.resetOrder, Over(l, now))
<1> DEFINE r == l.resetOrder
           f == FrontOf(l)
<1>1. IsList(r) /\ DOMAIN r = DOMAIN l.entries
  BY DEF Good
<1>2. \E c \in DOMAIN r : r[c] = {}
  <2>1. PICK c \in DOMAIN r : r[c] \cap DOMAIN r = {}
    BY <1>1, FrontOfElements
  <2> QED
    BY <1>1, <2>1 DEF IsList
<1>3. f \in DOMAIN r /\ r[f] = {}
  BY <1>2 DEF FrontOf
<1>4. RoomAt(l) = l.entries[f].reset
  BY DEF RoomAt, FrontOf
<1> HIDE DEF f
<1>5. \A d \in DOMAIN r : d = f \/ f \in r[d]
  BY <1>1, <1>3 DEF IsList
<1>6. ASSUME NEW now, f \in Over(l, now) PROVE f \in Front(r, Over(l, now))
  <2>1. Cardinality(r[f]) = 0
    BY <1>3, FS_EmptySet
  <2>2. f \in FirstElements(r, CleanupBatch)
    BY <1>3, <2>1, RequestLimiterAssumption DEF FirstElements
  <2> QED
    BY <1>3, <1>6, <2>2 DEF Front
<1> QED
  BY <1>1, <1>3, <1>4, <1>5, <1>6 DEF f

\* Removing what is not there leaves the order of the windows' ends.
LEMMA RemoveNothing ==
  ASSUME NEW l, NEW t, Good(l, t), NEW C, NEW next,
         C \subseteq DOMAIN l.entries,
         DOMAIN Remove(l, C, next).entries = DOMAIN l.entries
  PROVE  Remove(l, C, next).resetOrder = l.resetOrder
<1>1. C = {}
  BY DEF Remove
<1>2. Remove(l, C, next).resetOrder = Unlink(l.resetOrder, {})
  BY <1>1 DEF Remove
<1> QED
  BY <1>2, UnlinkNothing DEF Good

\* A cleanup that leaves a full limiter full has removed nothing.
LEMMA StillFull ==
  ASSUME NEW l, NEW t \in Nat, Good(l, t), NEW m, Good(m, t),
         DOMAIN m.entries \subseteq DOMAIN l.entries, IsFull(m)
  PROVE  /\ DOMAIN m.entries = DOMAIN l.entries
         /\ Cardinality(DOMAIN m.entries) = MaxEntries
<1>1. /\ IsFiniteSet(DOMAIN l.entries) /\ Cardinality(DOMAIN l.entries) \in Nat
      /\ Cardinality(DOMAIN m.entries) \in Nat
      /\ Cardinality(DOMAIN l.entries) <= MaxEntries
      /\ Cardinality(DOMAIN m.entries) <= MaxEntries
  BY GoodIsFinite DEF Good
<1>2. Cardinality(DOMAIN m.entries) = MaxEntries
  BY <1>1, RequestLimiterAssumption DEF IsFull
<1>3. Cardinality(DOMAIN m.entries) <= Cardinality(DOMAIN l.entries)
  BY <1>1, FS_Subset
<1>4. Cardinality(DOMAIN l.entries) = Cardinality(DOMAIN m.entries)
  BY <1>1, <1>2, <1>3, RequestLimiterAssumption
<1> QED
  BY <1>1, <1>2, <1>4, FS_Subset

\* A limiter that is not full has room for one more.
LEMMA RoomForOne ==
  ASSUME NEW l, NEW t \in Nat, Good(l, t), NEW c, c \in DOMAIN l.entries \/ ~IsFull(l)
  PROVE  Cardinality(DOMAIN l.entries \cup {c}) <= MaxEntries
<1>1. /\ IsFiniteSet(DOMAIN l.entries) /\ Cardinality(DOMAIN l.entries) \in Nat
      /\ Cardinality(DOMAIN l.entries) <= MaxEntries
  BY GoodIsFinite DEF Good
<1>2. Cardinality(DOMAIN l.entries \cup {c}) =
        IF c \in DOMAIN l.entries THEN Cardinality(DOMAIN l.entries)
        ELSE Cardinality(DOMAIN l.entries) + 1
  BY <1>1, FS_AddElement
<1> QED
  BY <1>1, <1>2, RequestLimiterAssumption DEF IsFull

\* The four ways through allow, each from what the cleanups have left of l: within
\* an open window, beyond its requests, with a window that starts, without room.
Passed(m, c, now, a) ==
  /\ c \in DOMAIN m.entries /\ m.entries[c].reset > now /\ m.entries[c].count < Requests
  /\ a.limiter = Use(m, c, now) /\ a.verdict = "allowed"

Limited(m, c, now, a) ==
  /\ c \in DOMAIN m.entries /\ m.entries[c].reset > now /\ ~(m.entries[c].count < Requests)
  /\ a.limiter = Use(m, c, now) /\ a.verdict = "limited"
  /\ a.retryAfter = retryAfterSeconds(m.entries[c].reset, now)

Opened(m, c, now, a) ==
  /\ c \in DOMAIN m.entries => m.entries[c].reset <= now
  /\ Cardinality(DOMAIN m.entries \cup {c}) <= MaxEntries
  /\ a.limiter = OpenWindow(m, c, now) /\ a.verdict = "allowed"

Refused(l, m, c, now, a) ==
  /\ DOMAIN m.entries = DOMAIN l.entries /\ c \notin DOMAIN m.entries
  /\ m.resetOrder = l.resetOrder
  /\ Cardinality(DOMAIN m.entries) = MaxEntries
  /\ RoomAt(m) > now
  /\ a.limiter = m /\ a.verdict = "full"
  /\ a.retryAfter = retryAfterSeconds(RoomAt(m), now)

LEMMA AllowCases ==
  ASSUME NEW l, NEW t \in Nat, Good(l, t), NEW c \in Clients, NEW now \in Nat
  PROVE  \E m : /\ Good(m, t) /\ Shrunk(l, m, now)
                /\ \/ Passed(m, c, now, Allow(l, c, now))
                   \/ Limited(m, c, now, Allow(l, c, now))
                   \/ Opened(m, c, now, Allow(l, c, now))
                   \/ Refused(l, m, c, now, Allow(l, c, now))
<1> DEFINE a == Allow(l, c, now)
           m == Cleanup(l, now)
           room == cleanupResetExpired(m, now)
<1>1. Good(m, t) /\ Shrunk(l, m, now)
  BY CleanupGood
<1>2. /\ c \in DOMAIN m.entries /\ c \notin Over(m, now) /\ m.entries[c].count < Requests =>
           a.limiter = Use(m, c, now) /\ a.verdict = "allowed"
      /\ c \in DOMAIN m.entries /\ c \notin Over(m, now) /\ ~(m.entries[c].count < Requests) =>
           /\ a.limiter = Use(m, c, now) /\ a.verdict = "limited"
           /\ a.retryAfter = retryAfterSeconds(m.entries[c].reset, now)
      /\ c \in DOMAIN m.entries /\ c \in Over(m, now) =>
           a.limiter = OpenWindow(m, c, now) /\ a.verdict = "allowed"
      /\ c \notin DOMAIN m.entries /\ ~IsFull(m) =>
           a.limiter = OpenWindow(m, c, now) /\ a.verdict = "allowed"
      /\ c \notin DOMAIN m.entries /\ IsFull(m) /\ ~IsFull(room) =>
           a.limiter = OpenWindow(room, c, now) /\ a.verdict = "allowed"
      /\ c \notin DOMAIN m.entries /\ IsFull(m) /\ IsFull(room) =>
           /\ a.limiter = room /\ a.verdict = "full"
           /\ a.retryAfter = retryAfterSeconds(RoomAt(room), now)
  BY DEF Allow
<1> HIDE DEF a, m
<1>3. Good(room, t) /\ Shrunk(m, room, now)
  BY <1>1, ResetExpiredGood
<1>4. Shrunk(l, room, now)
  BY <1>1, <1>3 DEF Shrunk, Over
<1>5. \A d \in DOMAIN m.entries : m.entries[d].reset \in Nat
  BY <1>1, RequestLimiterAssumption, SMT DEF Good, Entries
<1>6. CASE c \in DOMAIN m.entries /\ c \notin Over(m, now)
  <2>1. m.entries[c].reset > now
    BY <1>5, <1>6 DEF Over
  <2> QED
    BY <1>1, <1>2, <1>6, <2>1 DEF Passed, Limited, a
<1>7. CASE c \in DOMAIN m.entries /\ c \in Over(m, now)
  <2>1. Cardinality(DOMAIN m.entries \cup {c}) <= MaxEntries
    BY <1>1, <1>7, RoomForOne
  <2>2. m.entries[c].reset <= now
    BY <1>7 DEF Over
  <2> QED
    BY <1>1, <1>2, <1>7, <2>1, <2>2 DEF Opened, a
<1>8. CASE c \notin DOMAIN m.entries /\ ~IsFull(m)
  <2>1. Cardinality(DOMAIN m.entries \cup {c}) <= MaxEntries
    BY <1>1, <1>8, RoomForOne
  <2> QED
    BY <1>1, <1>2, <1>8, <2>1 DEF Opened, a
<1>9. CASE c \notin DOMAIN m.entries /\ IsFull(m) /\ ~IsFull(room)
  <2>1. c \notin DOMAIN room.entries
    BY <1>3, <1>9 DEF Shrunk
  <2>2. Cardinality(DOMAIN room.entries \cup {c}) <= MaxEntries
    BY <1>3, <1>9, RoomForOne
  <2> QED
    BY <1>2, <1>3, <1>4, <1>9, <2>1, <2>2 DEF Opened, a
<1>10. CASE c \notin DOMAIN m.entries /\ IsFull(m) /\ IsFull(room)
  <2>1. DOMAIN room.entries = DOMAIN m.entries /\ Cardinality(DOMAIN room.entries) = MaxEntries
    BY <1>1, <1>3, <1>10, StillFull DEF Shrunk
  <2>2. DOMAIN m.entries = DOMAIN l.entries
    BY <1>1, <1>10, StillFull DEF Shrunk
  <2>3. room.resetOrder = m.resetOrder
    <3> DEFINE C == Front(m.resetOrder, Over(m, now))
    <3>1. C \subseteq DOMAIN m.entries
      BY DEF Front, Over
    <3>2. room = Remove(m, C, m.nextCleanup)
      BY DEF cleanupResetExpired
    <3> HIDE DEF C, room
    <3> QED
      BY <1>1, <2>1, <3>1, <3>2, RemoveNothing
  <2>4. m.resetOrder = l.resetOrder
    <3> DEFINE C == Front(l.order, Stale(l, now))
               next == now + Greater(Window, MinInterval)
    <3>1. C \subseteq DOMAIN l.entries
      BY DEF Front, Stale
    <3>2. m = l \/ m = Remove(l, C, next)
      BY DEF Cleanup, m
    <3> HIDE DEF C, next
    <3> QED
      BY <2>2, <3>1, <3>2, RemoveNothing
  <2>5. RoomAt(room) > now
    <3>1. DOMAIN m.entries # {}
      BY <2>1, FS_EmptySet, RequestLimiterAssumption
    <3> DEFINE C == Front(m.resetOrder, Over(m, now))
               f == FrontOf(m)
    <3>2. /\ f \in DOMAIN m.entries
          /\ f \in Over(m, now) => f \in C
      BY <1>1, <3>1, FrontClient
    <3>3. DOMAIN room.entries = DOMAIN m.entries \ C
      BY DEF cleanupResetExpired, Remove
    <3> HIDE DEF C
    <3>4. f \notin Over(m, now)
      BY <2>1, <3>2, <3>3
    <3>5. m.entries[f].reset > now
      BY <1>5, <3>2, <3>4 DEF Over
    <3>6. RoomAt(room) = room.entries[f].reset
      BY <2>3 DEF RoomAt, FrontOf
    <3> QED
      BY <1>3, <2>1, <3>2, <3>5, <3>6 DEF Shrunk
  <2> QED
    BY <1>2, <1>3, <1>4, <1>10, <2>1, <2>2, <2>3, <2>4, <2>5 DEF Refused, a
<1> QED
  BY <1>6, <1>7, <1>8, <1>9, <1>10

\* allow keeps the invariant of the limiter.
LEMMA AllowGood ==
  ASSUME NEW l, NEW t \in Nat, Good(l, t), NEW c \in Clients, NEW now \in 0..t,
         t - now <= Lag
  PROVE  /\ Good(Allow(l, c, now).limiter, t)
         /\ Allow(l, c, now).verdict \in {"allowed", "limited", "full"}
<1> DEFINE a == Allow(l, c, now)
<1> HIDE DEF a
<1>1. PICK m : /\ Good(m, t)
               /\ \/ Passed(m, c, now, a) \/ Limited(m, c, now, a)
                  \/ Opened(m, c, now, a) \/ Refused(l, m, c, now, a)
  BY AllowCases DEF a
<1>2. CASE Passed(m, c, now, a)
  BY <1>1, <1>2, UseGood DEF Passed, a
<1>3. CASE Limited(m, c, now, a)
  BY <1>1, <1>3, UseGood DEF Limited, a
<1>4. CASE Opened(m, c, now, a)
  BY <1>1, <1>4, OpenWindowGood DEF Opened, a
<1>5. CASE Refused(l, m, c, now, a)
  BY <1>1, <1>5 DEF Refused, a
<1> QED
  BY <1>1, <1>2, <1>3, <1>4, <1>5

\* The initial state satisfies the invariant.
LEMMA InitInv == Init => LimiterInv
<1> SUFFICES ASSUME Init PROVE LimiterInv
  OBVIOUS
<1>1. /\ DOMAIN limiter.entries = {} /\ limiter.order = EmptyList
      /\ limiter.entries = [c \in {} |-> 0]
      /\ limiter.resetOrder = EmptyList /\ limiter.nextCleanup = 0
  BY DEF Init, newRequestLimiter
<1>2. IsList(EmptyList) /\ DOMAIN EmptyList = {}
  BY EmptyListIsList DEF EmptyList
<1>3. Cardinality({}) <= MaxEntries
  BY FS_EmptySet, RequestLimiterAssumption
<1>4. limiter.entries \in [{} -> Entries(clock)]
  BY <1>1
<1>5. Good(limiter, clock)
  BY <1>1, <1>2, <1>3, <1>4 DEF Good
<1>6. clock \in 0..MaxClock /\ verdict = "none"
  BY RequestLimiterAssumption DEF Init
<1> QED
  BY <1>5, <1>6 DEF LimiterInv

\* Every step keeps the invariant.
LEMMA StepInv == LimiterInv /\ [Next]_vars => LimiterInv'
<1> SUFFICES ASSUME LimiterInv, [Next]_vars PROVE LimiterInv'
  OBVIOUS
<1>1. clock \in Nat /\ Good(limiter, clock) /\ clock \in 0..MaxClock
  BY RequestLimiterAssumption DEF LimiterInv
<1>2. CASE Tick
  <2>1. Entries(clock) \subseteq Entries(clock + 1)
    BY <1>1, RequestLimiterAssumption, SMT DEF Entries
  <2>2. Good(limiter, clock + 1)
    BY <1>1, <2>1 DEF Good
  <2>3. clock + 1 \in 0..MaxClock
    BY <1>1, <1>2, RequestLimiterAssumption DEF Tick
  <2> QED
    BY <1>2, <2>2, <2>3 DEF LimiterInv, Tick
<1>3. ASSUME NEW c \in Clients, NEW now \in Readings, Request(c, now)
      PROVE  LimiterInv'
  <2>1. now \in 0..clock /\ clock - now <= Lag
    BY <1>1, RequestLimiterAssumption DEF Readings
  <2>2. /\ limiter' = Allow(limiter, c, now).limiter
        /\ verdict' = Allow(limiter, c, now).verdict /\ clock' = clock
    BY <1>3 DEF Request
  <2>3. Good(limiter', clock) /\ verdict' \in {"allowed", "limited", "full"}
    BY <1>1, <2>1, <2>2, AllowGood
  <2> QED
    BY <1>1, <2>2, <2>3 DEF LimiterInv
<1>4. CASE UNCHANGED vars
  BY <1>4 DEF vars, LimiterInv
<1> QED
  BY <1>2, <1>3, <1>4 DEF Next

\* The invariant holds in every reachable state.
THEOREM Invariant == Spec => []LimiterInv
<1> QED
  BY InitInv, StepInv, PTL DEF Spec

\* requestLimiter: every field keeps its type.
THEOREM LimiterTypes == Spec => []TypeOK
<1>1. LimiterInv => TypeOK
  BY DEF LimiterInv, Good, Entries, TypeOK, Known
<1> QED
  BY <1>1, Invariant, PTL

\* allow and the two cleanups: the map and its two lists always hold the same
\* clients, and never more than MaxEntries.
THEOREM LimiterListsAgree == Spec => []ListsAgree
<1>1. LimiterInv => ListsAgree
  BY DEF LimiterInv, Good, ListsAgree, Known
<1> QED
  BY <1>1, Invariant, PTL

\* The order of the windows' ends is sorted but for the Lag of the clock readings.
THEOREM LimiterNearlySorted == Spec => []ResetsNearlySorted
<1>1. LimiterInv => ResetsNearlySorted
  BY DEF LimiterInv, Good, ResetsNearlySorted, Known
<1> QED
  BY <1>1, Invariant, PTL
-----------------------------------------------------------------------------
(* Retry-After.                                                            *)

\* Rounding up to whole seconds: enough, and not a second too many.
LEMMA RetryAfterRounds ==
  ASSUME NEW reset \in Nat, NEW now \in Nat, reset > now
  PROVE  LET n == retryAfterSeconds(reset, now)
         IN /\ n \in Nat /\ n >= 1
            /\ now + n * Second >= reset
            /\ (now + n * Second) - Second < reset
            /\ now + n * Second \in Nat /\ (now + n * Second) - Second \in Nat
<1> DEFINE n == retryAfterSeconds(reset, now)
           k == reset - now + Second - 1
<1>1. Second \in Nat \ {0} /\ k \in Nat /\ k >= Second
  BY RequestLimiterAssumption
<1>2. n = k \div Second
  BY DEF retryAfterSeconds
<1> HIDE DEF n
<1>3. n \in Int /\ n * Second \in Int
  BY <1>1, <1>2
<1>4. n * Second <= k /\ k < n * Second + Second
  <2> HIDE DEF k
  <2> QED
    BY <1>1, <1>2
<1>5. n >= 1
  <2> HIDE DEF k
  <2> QED
    BY <1>1, <1>3, <1>4
<1>6. n * Second >= Second
  BY <1>1, <1>3, <1>5
<1>7. /\ now + n * Second >= reset
      /\ (now + n * Second) - Second < reset
      /\ now + n * Second \in Nat /\ (now + n * Second) - Second \in Nat
  <2> DEFINE p == n * Second
  <2>1. p \in Int /\ p <= k /\ k < p + Second /\ p >= Second
    BY <1>3, <1>4, <1>6
  <2> HIDE DEF p
  <2>2. now + p >= reset /\ (now + p) - Second < reset /\ now + p \in Nat /\ (now + p) - Second \in Nat
    BY <1>1, <2>1
  <2> QED
    BY <2>2 DEF p
<1> QED
  BY <1>3, <1>5, <1>7 DEF n

\* What a request within an open window leaves of its entry.
LEMMA UseEntry ==
  ASSUME NEW m, NEW c \in DOMAIN m.entries, NEW now
  PROVE  /\ c \in DOMAIN Use(m, c, now).entries
         /\ Use(m, c, now).entries[c].reset = m.entries[c].reset
         /\ Use(m, c, now).entries[c].count =
              IF m.entries[c].count < Requests THEN m.entries[c].count + 1 ELSE m.entries[c].count
BY DEF Use, SetEntry

\* A client that is over its limit is let in when its window has ended, and not before.
LEMMA LimitedReturns ==
  ASSUME NEW l, NEW t \in Nat, Good(l, t), NEW c \in Clients, c \in DOMAIN l.entries,
         ~(l.entries[c].count < Requests), NEW later \in Nat
  PROVE  Allow(l, c, later).verdict =
           IF l.entries[c].reset <= later THEN "allowed" ELSE "limited"
<1> DEFINE a == Allow(l, c, later)
<1> HIDE DEF a
<1>1. PICK m : /\ Good(m, t) /\ Shrunk(l, m, later)
               /\ \/ Passed(m, c, later, a) \/ Limited(m, c, later, a)
                  \/ Opened(m, c, later, a) \/ Refused(l, m, c, later, a)
  BY AllowCases DEF a
<1>2. l.entries[c].reset \in Nat
  BY RequestLimiterAssumption, SMT DEF Good, Entries
<1>3. c \in DOMAIN m.entries => m.entries[c] = l.entries[c]
  BY <1>1 DEF Shrunk
<1>4. CASE l.entries[c].reset <= later
  <2>1. a.verdict = "allowed"
    BY <1>1, <1>2, <1>3, <1>4 DEF Passed, Limited, Opened, Refused
  <2> QED
    BY <1>4, <2>1 DEF a
<1>5. CASE ~(l.entries[c].reset <= later)
  <2>1. c \in DOMAIN m.entries
    BY <1>1, <1>5 DEF Shrunk, Over
  <2>2. a.verdict = "limited"
    BY <1>1, <1>3, <1>5, <2>1 DEF Passed, Limited, Opened, Refused
  <2> QED
    BY <1>5, <2>2 DEF a
<1> QED
  BY <1>4, <1>5

\* A client that was refused for capacity is let in when the first window has ended.
LEMMA RefusedReturns ==
  ASSUME NEW l, NEW t \in Nat, Good(l, t), NEW c \in Clients, c \notin DOMAIN l.entries,
         DOMAIN l.entries # {}, NEW later \in Nat, RoomAt(l) <= later
  PROVE  Allow(l, c, later).verdict = "allowed"
<1> DEFINE a == Allow(l, c, later)
           f == FrontOf(l)
<1> HIDE DEF a
<1>1. PICK m : /\ Good(m, t) /\ Shrunk(l, m, later)
               /\ \/ Passed(m, c, later, a) \/ Limited(m, c, later, a)
                  \/ Opened(m, c, later, a) \/ Refused(l, m, c, later, a)
  BY AllowCases DEF a
<1>2. c \notin DOMAIN m.entries
  BY <1>1 DEF Shrunk
<1>3. f \in DOMAIN l.entries /\ RoomAt(l) = l.entries[f].reset
  BY FrontClient
<1>4. RoomAt(l) \in Nat
  BY <1>3, RequestLimiterAssumption, SMT DEF Good, Entries
<1>5. ~Refused(l, m, c, later, a)
  <2> SUFFICES ASSUME Refused(l, m, c, later, a) PROVE FALSE
    OBVIOUS
  <2>1. RoomAt(m) = m.entries[f].reset
    BY DEF Refused, RoomAt, FrontOf
  <2>2. m.entries[f] = l.entries[f]
    BY <1>1, <1>3 DEF Shrunk, Refused
  <2> QED
    BY <1>3, <1>4, <2>1, <2>2 DEF Refused
<1> QED
  BY <1>1, <1>2, <1>5 DEF Passed, Limited, Opened, a

\* retryAfterSeconds and allow, for all lengths and every state of the limiter: whoever
\* is refused is let in after the time it was told, and one over its limit was not told
\* to wait a second more than it had to.
THEOREM LimiterRetryAfterSuffices == Spec => []RetryAfterSuffices
<1>1. ASSUME LimiterInv, NEW c \in Clients, NEW now \in Readings
      PROVE  LET refusal == Allow(limiter, c, now)
                 later   == now + refusal.retryAfter * Second
             IN refusal.verdict # "allowed" =>
                  /\ refusal.retryAfter >= 1
                  /\ Allow(refusal.limiter, c, later).verdict = "allowed"
                  /\ refusal.verdict = "limited" =>
                       Allow(refusal.limiter, c, later - Second).verdict = "limited"
  <2> DEFINE a == Allow(limiter, c, now)
             n == a.retryAfter
             l == a.limiter
  <2>1. /\ clock \in Nat /\ Good(limiter, clock)
        /\ now \in 0..clock /\ clock - now <= Lag
    BY <1>1, RequestLimiterAssumption DEF LimiterInv, Readings
  <2>2. Good(l, clock)
    BY <2>1, AllowGood
  <2>3. PICK m : /\ Good(m, clock)
                 /\ \/ Passed(m, c, now, a) \/ Limited(m, c, now, a)
                    \/ Opened(m, c, now, a) \/ Refused(limiter, m, c, now, a)
    BY <2>1, AllowCases
  <2> HIDE DEF a
  <2>4. CASE Limited(m, c, now, a)
    <3> DEFINE reset == m.entries[c].reset
    <3>1. /\ c \in DOMAIN m.entries /\ reset > now /\ ~(m.entries[c].count < Requests)
          /\ l = Use(m, c, now) /\ n = retryAfterSeconds(reset, now) /\ a.verdict = "limited"
      BY <2>4 DEF Limited
    <3>2. reset \in Nat
      BY <2>1, <2>3, <3>1, RequestLimiterAssumption, SMT DEF Good, Entries
    <3>3. /\ n >= 1 /\ now + n * Second >= reset /\ (now + n * Second) - Second < reset
          /\ now + n * Second \in Nat /\ (now + n * Second) - Second \in Nat
      BY <2>1, <3>1, <3>2, RetryAfterRounds
    <3>4. /\ c \in DOMAIN l.entries /\ l.entries[c].reset = reset
          /\ ~(l.entries[c].count < Requests)
      BY <3>1, UseEntry
    <3> DEFINE later == now + n * Second
               before == (now + n * Second) - Second
    <3>5. /\ later \in Nat /\ before \in Nat /\ reset <= later /\ ~(reset <= before)
      BY <3>2, <3>3
    <3> HIDE DEF later, before, reset
    <3>6. Allow(l, c, later).verdict = "allowed" /\ Allow(l, c, before).verdict = "limited"
      BY <2>1, <2>2, <3>4, <3>5, LimitedReturns
    <3>7. /\ a.retryAfter >= 1
          /\ Allow(a.limiter, c, now + a.retryAfter * Second).verdict = "allowed"
          /\ Allow(a.limiter, c, (now + a.retryAfter * Second) - Second).verdict = "limited"
      BY <3>3, <3>6, Zenon DEF later, before
    <3> QED
      BY <3>7, Zenon DEF a
  <2>5. CASE Refused(limiter, m, c, now, a)
    <3>1. /\ c \notin DOMAIN m.entries /\ RoomAt(m) > now /\ l = m
          /\ Cardinality(DOMAIN m.entries) = MaxEntries
          /\ n = retryAfterSeconds(RoomAt(m), now) /\ a.verdict = "full"
      BY <2>5 DEF Refused
    <3>2. DOMAIN m.entries # {}
      BY <3>1, FS_EmptySet, RequestLimiterAssumption
    <3>3. RoomAt(m) \in Nat
      <4>1. FrontOf(m) \in DOMAIN m.entries /\ RoomAt(m) = m.entries[FrontOf(m)].reset
        BY <2>1, <2>3, <3>2, FrontClient
      <4> QED
        BY <2>1, <2>3, <4>1, RequestLimiterAssumption, SMT DEF Good, Entries
    <3>4. n >= 1 /\ now + n * Second >= RoomAt(m) /\ now + n * Second \in Nat
      BY <2>1, <3>1, <3>3, RetryAfterRounds
    <3> DEFINE later == now + n * Second
    <3>5. later \in Nat /\ RoomAt(m) <= later
      BY <3>3, <3>4
    <3> HIDE DEF later
    <3>6. Allow(m, c, later).verdict = "allowed"
      BY <2>1, <2>3, <3>1, <3>2, <3>5, RefusedReturns
    <3> QED
      BY <3>1, <3>4, <3>6 DEF later, a
  <2>6. CASE Passed(m, c, now, a) \/ Opened(m, c, now, a)
    BY <2>6 DEF Passed, Opened, a
  <2> QED
    BY <2>3, <2>4, <2>5, <2>6
<1>2. LimiterInv => RetryAfterSuffices
  BY <1>1, Zenon DEF RetryAfterSuffices
<1> QED
  BY <1>2, Invariant, PTL
-----------------------------------------------------------------------------
(* The refinement.                                                         *)

\* What RateWindows sees of the entries.
Windows(e) == [c \in DOMAIN e |-> [reset |-> e[c].reset, count |-> e[c].count]]

AbstractWindows == Windows(limiter.entries)

\* The abstract module's cardinalities are the limiter's.
LEMMA SameCardinality == \A S : Abstract!Cardinality(S) = Cardinality(S)
  BY DEF Cardinality, Abstract!Cardinality

\* What the cleanups leave is one of the sets that the abstract limit may keep.
LEMMA ShrunkIsKept ==
  ASSUME NEW m, NEW now, Shrunk(limiter, m, now)
  PROVE  DOMAIN m.entries \in Abstract!Kept(now)
<1> DEFINE gone == DOMAIN limiter.entries \ DOMAIN m.entries
<1>1. gone \in SUBSET {c \in DOMAIN limiter.entries : limiter.entries[c].reset <= now}
  BY DEF Shrunk, Over
<1>2. DOMAIN m.entries = DOMAIN limiter.entries \ gone
  BY DEF Shrunk
<1> HIDE DEF gone
<1> QED
  BY <1>1, <1>2 DEF Abstract!Kept, Abstract!Over, Known

\* Writing an entry over what the cleanups have left is setting the client's window.
LEMMA SetEntryIsSet ==
  ASSUME NEW m, NEW now, Shrunk(limiter, m, now), NEW c, NEW e, NEW r
  PROVE  Windows(SetEntry(m, c, e, r).entries) =
           Abstract!Set(DOMAIN m.entries, c, [reset |-> e.reset, count |-> e.count])
<1> DEFINE D == DOMAIN m.entries \cup {c}
           w == [reset |-> e.reset, count |-> e.count]
           v(d) == [reset |-> limiter.entries[d].reset, count |-> limiter.entries[d].count]
           s == SetEntry(m, c, e, r).entries
<1>1. s = [d \in D |-> IF d = c THEN e ELSE m.entries[d]]
  BY DEF SetEntry
<1>2. Abstract!Set(DOMAIN m.entries, c, w) = [d \in D |-> IF d = c THEN w ELSE v(d)]
  <2>1. \A d \in DOMAIN m.entries : d \in Known
    BY DEF Shrunk, Known
  <2> QED
    BY <2>1 DEF Abstract!Set
<1>3. \A d \in DOMAIN m.entries : m.entries[d] = limiter.entries[d]
  BY DEF Shrunk
<1> HIDE DEF s
<1>4. DOMAIN s = D
  BY <1>1
<1>5. \A d \in D : [reset |-> s[d].reset, count |-> s[d].count] = IF d = c THEN w ELSE v(d)
  BY <1>1, <1>3
<1>6. Windows(s) = [d \in D |-> [reset |-> s[d].reset, count |-> s[d].count]]
  BY <1>4 DEF Windows
<1> QED
  BY <1>2, <1>5, <1>6 DEF s

\* The state is what the abstract module sees of it.
LEMMA SeenWindows ==
  ASSUME NEW c \in Known
  PROVE  AbstractWindows[c].reset = limiter.entries[c].reset
         /\ AbstractWindows[c].count = limiter.entries[c].count
BY DEF AbstractWindows, Windows, Known

\* Each way through allow is a step of the abstract limit.
LEMMA RequestStep ==
  ASSUME LimiterInv, NEW c \in Clients, NEW now \in Readings, Request(c, now)
  PROVE  Abstract!Next
<1> DEFINE a == Allow(limiter, c, now)
<1>1. /\ limiter' = a.limiter /\ verdict' = a.verdict /\ clock' = clock
  BY DEF Request
<1>2. /\ clock \in Nat /\ Good(limiter, clock) /\ now \in 0..clock /\ now \in Nat
  BY RequestLimiterAssumption DEF LimiterInv, Readings
<1>3. now \in Abstract!Readings
  BY DEF Readings, Abstract!Readings
<1>4. PICK m : /\ Good(m, clock) /\ Shrunk(limiter, m, now)
               /\ \/ Passed(m, c, now, a) \/ Limited(m, c, now, a)
                  \/ Opened(m, c, now, a) \/ Refused(limiter, m, c, now, a)
  BY <1>2, AllowCases
<1> HIDE DEF a
<1> DEFINE kept == DOMAIN m.entries
<1>5. kept \in Abstract!Kept(now)
  BY <1>4, ShrunkIsKept
<1>6. /\ kept \subseteq Known
      /\ \A d \in kept : m.entries[d] = limiter.entries[d]
      /\ \A d \in Known : d \notin kept => limiter.entries[d].reset <= now
  BY <1>4 DEF Shrunk, Known, Over
<1>7. \A d \in Known : limiter.entries[d].reset \in Nat /\ limiter.entries[d].count \in 1..Requests
  BY <1>2, RequestLimiterAssumption, SMT DEF Good, Entries, Known
<1>8. CASE Opened(m, c, now, a)
  <2>1. limiter' = OpenWindow(m, c, now) /\ verdict' = "allowed"
    BY <1>1, <1>8 DEF Opened
  <2>2. Cardinality(kept \cup {c}) <= MaxEntries
    BY <1>8 DEF Opened
  <2>3. c \in Known => limiter.entries[c].reset <= now
    BY <1>6, <1>8 DEF Opened
  <2> DEFINE e == [count |-> 1, reset |-> now + Window, lastSeen |-> now]
  <2>4. limiter'.entries = SetEntry(m, c, e, MoveToBack(m.resetOrder, c)).entries
    BY <2>1 DEF OpenWindow, StartWindow
  <2>5. AbstractWindows' = Abstract!Set(kept, c, [reset |-> now + Window, count |-> 1])
    BY <1>4, <2>4, SetEntryIsSet DEF AbstractWindows
  <2>6. Abstract!Open(c, now)
    BY <1>1, <1>5, <2>1, <2>2, <2>3, <2>5, SameCardinality
    DEF Abstract!Open, Abstract!Over, Abstract!Give, AbstractWindows, Windows, Known
  <2> QED
    BY <1>3, <2>6 DEF Abstract!Next
<1>9. CASE Passed(m, c, now, a) \/ Limited(m, c, now, a)
  <2> DEFINE old == m.entries[c]
             count == IF old.count < Requests THEN old.count + 1 ELSE old.count
             e == [count |-> count, reset |-> old.reset, lastSeen |-> now]
  <2>1. limiter' = Use(m, c, now) /\ c \in kept /\ old.reset > now
    BY <1>1, <1>9 DEF Passed, Limited
  <2>2. limiter'.entries = SetEntry(m, c, e, m.resetOrder).entries
    BY <2>1 DEF Use
  <2>3. AbstractWindows' = Abstract!Set(kept, c, [reset |-> e.reset, count |-> e.count])
    BY <1>4, <2>2, SetEntryIsSet DEF AbstractWindows
  <2>4. /\ c \in Known /\ old = limiter.entries[c]
        /\ old.reset \in Nat /\ old.count \in 1..Requests
    BY <1>6, <1>7, <2>1
  <2>5. /\ c \in kept /\ ~(limiter.entries[c].reset <= now)
    BY <1>2, <2>1, <2>4
  <2>6. CASE old.count < Requests
    <3>1. verdict' = "allowed"
      BY <1>1, <1>9, <2>6 DEF Passed, Limited
    <3>2. [[reset |-> old.reset, count |-> old.count] EXCEPT !.count = @ + 1] =
            [reset |-> e.reset, count |-> e.count]
      BY <2>6
    <3>3. Abstract!Pass(c, now)
      BY <1>1, <1>5, <2>3, <2>4, <2>5, <2>6, <3>1, <3>2
      DEF Abstract!Pass, Abstract!Over, Abstract!Give, AbstractWindows, Windows, Known
    <3> QED
      BY <1>3, <3>3 DEF Abstract!Next
  <2>7. CASE ~(old.count < Requests)
    <3>1. verdict' = "limited" /\ old.count = Requests
      BY <1>1, <1>9, <2>4, <2>7, RequestLimiterAssumption DEF Passed, Limited
    <3>2. e.reset = old.reset /\ e.count = old.count
      BY <2>7
    <3>3. AbstractWindows' = [d \in kept |-> AbstractWindows[d]]
      <4>1. kept \cup {c} = kept
        BY <2>1
      <4>2. AbstractWindows[c] = [reset |-> e.reset, count |-> e.count]
        BY <2>4, <3>2 DEF AbstractWindows, Windows, Known
      <4>3. Abstract!Set(kept, c, AbstractWindows[c]) =
              [d \in kept \cup {c} |-> IF d = c THEN AbstractWindows[c] ELSE AbstractWindows[d]]
        BY <1>6 DEF Abstract!Set, AbstractWindows, Windows, Known
      <4> QED
        BY <2>3, <4>1, <4>2, <4>3
    <3>4. Abstract!Limit(c, now)
      BY <1>1, <1>5, <2>4, <2>5, <3>1, <3>3
      DEF Abstract!Limit, Abstract!Over, Abstract!Give, AbstractWindows, Windows, Known
    <3> QED
      BY <1>3, <3>4 DEF Abstract!Next
  <2> QED
    BY <2>6, <2>7
<1>10. CASE Refused(limiter, m, c, now, a)
  <2>1. /\ kept = Known /\ c \notin Known /\ Cardinality(kept) = MaxEntries
        /\ RoomAt(m) > now /\ limiter' = m /\ verdict' = "full"
    BY <1>1, <1>10 DEF Refused, Known
  <2>2. AbstractWindows' = AbstractWindows
    BY <1>6, <2>1 DEF AbstractWindows, Windows, Known
  <2>3. ASSUME NEW d \in Known PROVE limiter.entries[d].reset > now - Lag
    <3>1. kept # {}
      BY <2>1, FS_EmptySet, RequestLimiterAssumption
    <3> DEFINE f == FrontOf(m)
    <3>2. f \in kept /\ RoomAt(m) = m.entries[f].reset /\ (d = f \/ f \in m.resetOrder[d])
      <4>1. d \in kept
        BY <2>1
      <4>2. Good(m, clock)
        BY <1>4
      <4> QED
        BY <1>2, <3>1, <4>1, <4>2, FrontClient
    <3> HIDE DEF f
    <3>3. limiter.entries[f].reset > now
      BY <1>6, <2>1, <3>2
    <3>4. d = f \/ m.entries[f].reset <= m.entries[d].reset + Lag
      BY <1>4, <2>1, <3>2 DEF Good
    <3>5. d = f \/ limiter.entries[f].reset <= limiter.entries[d].reset + Lag
      BY <1>6, <2>1, <3>2, <3>4
    <3> QED
      BY <1>2, <1>6, <1>7, <2>1, <3>2, <3>3, <3>5, RequestLimiterAssumption
  <2>4. Abstract!Full(c, now)
    BY <1>1, <2>1, <2>2, <2>3, SameCardinality
    DEF Abstract!Full, Abstract!Give, AbstractWindows, Windows, Known
  <2> QED
    BY <1>3, <2>4 DEF Abstract!Next
<1> QED
  BY <1>4, <1>8, <1>9, <1>10

\* requestLimiter.allow implements RateWindows, for all values of the constants: a
\* window that is open is never forgotten by a cleanup, and a client is turned away for
\* capacity only when no entry is over by the Lag of the clock readings.
THEOREM LimiterImplementsWindows == Spec => ImplementsWindows
<1>1. Init => Abstract!Init
  <2> SUFFICES ASSUME Init PROVE Abstract!Init
    OBVIOUS
  <2>1. Known = {} /\ clock = 0 /\ verdict = "none"
    BY DEF Init, newRequestLimiter, Known
  <2> QED
    BY <2>1 DEF Abstract!Init
<1>2. LimiterInv /\ [Next]_vars => [Abstract!Next]_(Abstract!vars)
  <2> SUFFICES ASSUME LimiterInv, [Next]_vars PROVE [Abstract!Next]_(Abstract!vars)
    OBVIOUS
  <2>1. CASE Tick
    BY <2>1 DEF Tick, Abstract!Tick, Abstract!Next, Known
  <2>2. CASE \E c \in Clients, now \in Readings : Request(c, now)
    BY <2>2, RequestStep
  <2>3. CASE UNCHANGED vars
    BY <2>3 DEF vars, Abstract!vars, Known
  <2> QED
    BY <2>1, <2>2, <2>3 DEF Next
<1> QED
  BY <1>1, <1>2, Invariant, PTL DEF Spec, ImplementsWindows, Abstract!Spec
=============================================================================
