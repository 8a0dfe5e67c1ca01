--------------------------- MODULE Prelink_proofs ---------------------------
(***************************************************************************)
(* Proofs about Prelink for every number of attempts, every set of         *)
(* timeouts and every token lifetime.                                      *)
(***************************************************************************)
EXTENDS Prelink, TLAPS

\* The requests that have left are those of the attempts before this one, and
\* this attempt's own when it is past its Send.
RequestsInOrder ==
  \A a \in 0..(Attempts - 1) :
    /\ a < attempt => request[a] # "unsent"
    /\ a > attempt => request[a] = "unsent"
    /\ stage \in {"idle", "sending"} /\ a = attempt => request[a] = "unsent"
    /\ stage \in {"inFlight", "waiting"} /\ a = attempt => request[a] # "unsent"

\* Each attempt starts when those before it, and the waits after them, have taken
\* no more than they may, and no timer is set for later than that adds up to.
TimersInTime ==
  /\ stage = "sending" => clock <= Spent(attempt)
  /\ stage = "inFlight" => clock <= timer /\ timer <= Spent(attempt) + RequestTimeout
  /\ stage = "waiting" => clock <= timer /\ timer <= Spent(attempt) + RequestTimeout + Delay

\* The call is within the deadlines of its context.
InDeadlines == Calling => clock <= Budget /\ clock <= expires

\* The inductive invariant, but for TimersInTime: the clock starts with the call, a
\* receipt on its way stems from a completed link, and a call that has not returned
\* has no result.
PrelinkInv ==
  /\ TypeOK
  /\ LinkedBeforeRelay
  /\ InDeadlines
  /\ GivesUpLate
  /\ answer = "completed" => linked
  /\ stage = "idle" => clock = 0 /\ attempt = 0
  /\ stage # "idle" => expires \in Nat \ {0} \/ stage = "returned"
  /\ stage # "returned" => result = "none"
  /\ stage = "waiting" => attempt + 1 < Attempts
  /\ RequestsInOrder

\* The initial state satisfies the invariant.
LEMMA InitInv == Init => PrelinkInv
BY PrelinkAssumption, SMT
DEF Init, PrelinkInv, TypeOK, Stages, Results, Requests, Replies, LinkedBeforeRelay,
    InDeadlines, GivesUpLate, Calling, over, linked, RequestsInOrder

\* Every step preserves the invariant.
LEMMA StepInv == PrelinkInv /\ [Next]_vars => PrelinkInv'
<1> SUFFICES ASSUME PrelinkInv, [Next]_vars PROVE PrelinkInv'
  OBVIOUS
<1> USE PrelinkAssumption
        DEF PrelinkInv, TypeOK, Stages, Results, Requests, Replies, LinkedBeforeRelay,
            InDeadlines, GivesUpLate, Calling, over, linked, RequestsInOrder
<1>1. ASSUME NEW source \in SourceExpiries, RefuseIntent(source) PROVE PrelinkInv'
  BY <1>1, SMT DEF RefuseIntent, Return
<1>2. ASSUME NEW source \in SourceExpiries, Start(source) PROVE PrelinkInv'
  BY <1>2, SMT DEF Start, Lesser
<1>3. CASE Send
  BY <1>3, SMT DEF Send, Return
<1>4. CASE RequestExpires \/ ConnectionBreaks
  BY <1>4, SMT DEF RequestExpires, RequestOver, ConnectionBreaks, Retry, Return
<1>5. CASE Receive
  BY <1>5, SMT DEF Receive, Retry, Return, Verdict
<1>6. CASE NextAttempt
  BY <1>6, SMT DEF NextAttempt, WaitOver
<1>7. CASE GiveUp
  BY <1>7, SMT DEF GiveUp, WaitCancelled, Return
<1>8. CASE DeadlinePasses \/ BrowserLeaves
  BY <1>8, SMT DEF DeadlinePasses, DeadlineDue, BrowserLeaves
<1>9. ASSUME NEW a \in DOMAIN request, BackendHandles(a) PROVE PrelinkInv'
  BY <1>9, SMT DEF BackendHandles, client
<1>10. ASSUME NEW a \in DOMAIN request, RequestIsLost(a) PROVE PrelinkInv'
  BY <1>10, SMT DEF RequestIsLost, client
<1>11. CASE Tick
  BY <1>11, SMT DEF Tick, RequestOver, WaitOver, WaitCancelled, DeadlineDue, Deadline, Lesser,
                    client, backend
<1>12. CASE UNCHANGED vars
  BY <1>12, SMT DEF vars
<1> QED
  BY <1>1, <1>2, <1>3, <1>4, <1>5, <1>6, <1>7, <1>8, <1>9, <1>10, <1>11, <1>12
  DEF Next, Step

\* The invariant holds throughout.
LEMMA AlwaysInv == Spec => []PrelinkInv
BY InitInv, StepInv, PTL DEF Spec

\* What attempts can take adds up to a number, from nothing, attempt by attempt.
LEMMA SpentAddsUp ==
  /\ Spent(0) = 0
  /\ \A a \in Nat : Spent(a) \in Nat /\ Spent(a + 1) = Spent(a) + RequestTimeout + Delay
<1> DEFINE X == RequestTimeout + Delay
<1>1. X \in Nat
  BY PrelinkAssumption
<1>2. \A a \in Nat : Spent(a) = a * X
  BY DEF Spent
<1> HIDE DEF X
<1>3. \A a \in Nat : a * X \in Nat /\ (a + 1) * X = a * X + X
  BY <1>1, SMT
<1>4. 0 * X = 0
  BY <1>1, SMT
<1>5. \A a \in Nat : a + 1 \in Nat
  OBVIOUS
<1>6. \A a \in Nat : Spent(a) \in Nat /\ Spent(a + 1) = Spent(a) + X
  BY <1>2, <1>3, <1>5
<1>7. \A n \in Nat : n + X = n + RequestTimeout + Delay
  BY PrelinkAssumption, SMT DEF X
<1> QED
  BY <1>2, <1>4, <1>6, <1>7

\* The same at the call's attempt.
LEMMA AttemptSpends ==
  ASSUME PrelinkInv
  PROVE  /\ attempt \in Nat /\ clock \in Nat /\ timer \in Nat
         /\ RequestTimeout \in Nat /\ Delay \in Nat
         /\ Spent(attempt) \in Nat
         /\ Spent(attempt + 1) = Spent(attempt) + RequestTimeout + Delay
<1>1. attempt \in Nat /\ clock \in Nat /\ timer \in Nat
  BY PrelinkAssumption, SMT DEF PrelinkInv, TypeOK
<1>2. RequestTimeout \in Nat /\ Delay \in Nat
  BY PrelinkAssumption
<1> QED
  BY <1>1, <1>2, SpentAddsUp, Zenon

\* Every step leaves the timers within what the attempts may take: each of the
\* call's waits ends when its timer is due, if not before.
LEMMA TimersStep == PrelinkInv /\ TimersInTime /\ [Next]_vars => TimersInTime'
<1> SUFFICES ASSUME PrelinkInv, TimersInTime, [Next]_vars PROVE TimersInTime'
  OBVIOUS
<1>1. /\ attempt \in Nat /\ clock \in Nat /\ timer \in Nat
      /\ Spent(attempt) \in Nat
      /\ Spent(attempt + 1) = Spent(attempt) + RequestTimeout + Delay
      /\ RequestTimeout \in Nat /\ Delay \in Nat
  BY AttemptSpends
<1>2. ASSUME NEW source \in SourceExpiries, RefuseIntent(source) \/ Start(source)
      PROVE  TimersInTime'
  <2>1. stage = "idle" /\ clock = 0 /\ attempt = 0
    BY <1>2 DEF RefuseIntent, Start, PrelinkInv
  <2>2. stage' \in {"sending", "returned"} /\ UNCHANGED <<clock, attempt>>
    BY <1>2 DEF RefuseIntent, Start, Return
  <2> QED
    BY <2>1, <2>2, SpentAddsUp, SMT DEF TimersInTime
<1>3. CASE Send
  BY <1>1, <1>3, SMT DEF Send, Return, TimersInTime
<1>4. CASE stage = "inFlight" /\ UNCHANGED <<attempt, clock>> /\ (Retry \/ stage' = "returned")
  BY <1>1, <1>4, SMT DEF Retry, Return, TimersInTime
<1>5. CASE NextAttempt
  <2>1. /\ stage' = "sending" /\ clock' = clock /\ attempt' = attempt + 1
        /\ stage = "waiting"
    BY <1>5 DEF NextAttempt, WaitOver
  <2>2. clock <= Spent(attempt) + RequestTimeout + Delay
    BY <1>1, <2>1, SMT DEF TimersInTime
  <2> QED
    BY <1>1, <2>1, <2>2 DEF TimersInTime
<1>6. CASE stage' = "returned"
  BY <1>6 DEF TimersInTime
<1>7. CASE Tick
  BY <1>1, <1>7, SMT DEF Tick, RequestOver, WaitOver, client, TimersInTime
<1>8. CASE UNCHANGED <<stage, timer, attempt, clock>>
  BY <1>8 DEF TimersInTime
<1> QED
  BY <1>2, <1>3, <1>4, <1>5, <1>6, <1>7, <1>8
  DEF Next, Step, RequestExpires, RequestOver, ConnectionBreaks, Receive, Return, GiveUp,
      DeadlinePasses, BrowserLeaves, BackendHandles, RequestIsLost, client, vars

\* The timers are within what the attempts may take throughout.
LEMMA AlwaysTimers == Spec => []TimersInTime
<1>1. Init => TimersInTime
  BY DEF Init, TimersInTime
<1> QED
  BY <1>1, TimersStep, AlwaysInv, PTL DEF Spec

\* The variables have their types, for all constants.
THEOREM PrelinkTypes == Spec => []TypeOK
<1>1. PrelinkInv => TypeOK  BY DEF PrelinkInv
<1> QED  BY <1>1, AlwaysInv, PTL

\* prelinkTelegram returns nil only when the backend has linked this assertion.
THEOREM PrelinkLinks == Spec => []LinkedBeforeRelay
<1>1. PrelinkInv => LinkedBeforeRelay  BY DEF PrelinkInv
<1> QED  BY <1>1, AlwaysInv, PTL

\* The call stays within its budget and its assertion's life, and each attempt
\* within the request's timeout, for every relation between that timeout, the
\* delay and the number of attempts: no request and no wait of prelinkTelegram
\* fails to watch what ends it.
THEOREM PrelinkEndsInTime == Spec => []WithinBudget
<1>1. PrelinkInv /\ TimersInTime => WithinBudget
  <2> SUFFICES ASSUME PrelinkInv, TimersInTime, Calling PROVE WithinBudget
    BY DEF WithinBudget
  <2>1. /\ clock \in Nat /\ timer \in Nat /\ Spent(attempt) \in Nat
        /\ RequestTimeout \in Nat /\ Delay \in Nat
    BY AttemptSpends
  <2>2. stage \in {"sending", "inFlight", "waiting"}
    BY DEF Calling, PrelinkInv, TypeOK, Stages
  <2> QED
    BY <2>1, <2>2, SMT DEF WithinBudget, PrelinkInv, InDeadlines, TimersInTime
<1> QED  BY <1>1, AlwaysInv, AlwaysTimers, PTL

\* The call gives up only when no attempt is left or its context is over.
THEOREM PrelinkPersists == Spec => []GivesUpLate
<1>1. PrelinkInv => GivesUpLate  BY DEF PrelinkInv
<1> QED  BY <1>1, AlwaysInv, PTL

\* Requests leave in the order of the attempts, each after the one before it has
\* been given up on, and never with an assertion that has expired.
THEOREM PrelinkKeepsOrder == Spec => OneAssertionInOrder
<1> DEFINE Ordered ==
      \A a \in DOMAIN request :
        request[a] = "unsent" /\ request'[a] # "unsent" =>
          /\ clock < expires /\ ~over
          /\ \A b \in DOMAIN request : (b < a) = (request[b] # "unsent")
<1>1. PrelinkInv /\ [Next]_vars => [Ordered]_vars
  <2> SUFFICES ASSUME PrelinkInv, Next PROVE Ordered
    OBVIOUS
  <2>1. CASE Send
    BY <2>1, PrelinkAssumption, SMT
    DEF Send, Return, over, PrelinkInv, TypeOK, RequestsInOrder, Requests
  <2>2. ASSUME NEW a \in DOMAIN request, BackendHandles(a) \/ RequestIsLost(a)
        PROVE Ordered
    <3>1. request[a] = "travelling" /\ request \in [0..(Attempts - 1) -> Requests]
      BY <2>2 DEF BackendHandles, RequestIsLost, PrelinkInv, TypeOK
    <3>2. \/ request' = [request EXCEPT ![a] = "handled"]
          \/ request' = [request EXCEPT ![a] = "lost"]
      BY <2>2, Zenon DEF BackendHandles, RequestIsLost
    <3>3. \A b \in DOMAIN request : request[b] = "unsent" => request'[b] = "unsent"
      BY <3>1, <3>2, Zenon
    <3> QED  BY <3>3
  <2>3. CASE UNCHANGED request
    BY <2>3
  <2> QED
    BY <2>1, <2>2, <2>3
    DEF Next, Step, RefuseIntent, Start, RequestExpires, ConnectionBreaks, Receive, NextAttempt, GiveUp,
        DeadlinePasses, BrowserLeaves, Tick, backend
<1> QED
  BY <1>1, AlwaysInv, PTL DEF Spec, OneAssertionInOrder
=============================================================================
