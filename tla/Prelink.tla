------------------------------- MODULE Prelink -------------------------------
(***************************************************************************)
(* prelinkTelegram: one call of the hook that asks a bot's backend to link *)
(* a Telegram account before the login is relayed, with its retries, its   *)
(* deadlines, the browser that may go away, a network that may lose or     *)
(* delay requests and answers, and the backend.                            *)
(*                                                                         *)
(* Times are counted from the call.  Timers fire in the unit of time they  *)
(* are set for, in either order when two are due together, and a goroutine *)
(* that can run does so within that unit.                                  *)
(***************************************************************************)
EXTENDS Integers, FiniteSets

CONSTANTS
  Attempts,        \* prelinkAttempts
  Lifetime,        \* prelinkLifetime
  MinLifetime,     \* minimumRelayLifetime
  Budget,          \* prelinkTimeout
  RequestTimeout,  \* Timeout of prelinkClient
  Delay,           \* prelinkRetryDelay
  SourceExpiries,  \* expiries that Telegram's token may have
  MaxClock         \* bound on the clock

ASSUME PrelinkAssumption ==
  /\ Attempts \in Nat \ {0}
  /\ Lifetime \in Nat /\ MinLifetime \in Nat \ {0}
  /\ Budget \in Nat \ {0} /\ RequestTimeout \in Nat \ {0} /\ Delay \in Nat \ {0}
  /\ SourceExpiries \subseteq Nat
  /\ MaxClock \in Nat /\ MaxClock > Budget

VARIABLES
  stage,    \* where the call is
  result,   \* what it returned
  attempt,  \* the loop's counter
  timer,    \* when the request times out, or the wait for the next one ends
  expires,  \* prelinkIntent.ExpiresAt
  ctx,      \* the context of the requests
  clock,
  request,  \* what became of the request of each attempt
  answer,   \* the answer that is on its way for the current request
  link      \* the backend's link for this assertion

client  == <<stage, result, attempt, timer, expires, ctx>>
backend == <<request, link>>
vars    == <<stage, result, attempt, timer, expires, ctx, clock, request, answer, link>>

Stages == {"idle", "sending", "inFlight", "waiting", "returned"}

\* nil, errPrelinkDenied, errPrelinkUnavailable and errPrelinkReceipt.
Results == {"none", "linked", "denied", "unavailable", "receipt"}

\* "completed" is a 200 with the receipt of this assertion; "other" a 200 with
\* anything else that can be read whole (a pending receipt, that of another
\* assertion, another format), "oversized" a body beyond the limit, "failure" a
\* 5xx and "refusal" any other status, redirects included.
Replies == {"completed", "other", "oversized", "failure", "refusal"}

Requests == {"unsent", "travelling", "handled", "lost"}

over   == ctx = "done"        \* ctx.Err() # nil
linked == link = "completed"

Lesser(a, b) == IF a < b THEN a ELSE b

\* The deadlines of the context: the shared budget and the assertion's expiry.
Deadline == Lesser(Budget, expires)

Init ==
  /\ stage = "idle" /\ result = "none"
  /\ attempt = 0 /\ timer = 0 /\ expires = 0 /\ ctx = "live"
  /\ clock = 0
  /\ request = [a \in 0..(Attempts - 1) |-> "unsent"]
  /\ answer = "none"
  /\ link = "open"

Return(r) == stage' = "returned" /\ result' = r

-----------------------------------------------------------------------------
(* The call.                                                               *)

\* prelinkIntent's refusals: identifiers or profile fields it will not sign, no
\* expiry (0) or one that is too near; or the random source or signer fails.
RefuseIntent(source) ==
  /\ stage = "idle"
  /\ \/ Return("denied")
     \/ source > 0 /\ Lesser(Lifetime, source) >= MinLifetime /\ Return("unavailable")
  /\ UNCHANGED <<attempt, timer, expires, ctx, clock, request, answer, link>>

\* The assertion is signed, once for all attempts, and the deadlines are set.
Start(source) ==
  /\ stage = "idle"
  /\ source > 0 /\ Lesser(Lifetime, source) >= MinLifetime
  /\ expires' = Lesser(Lifetime, source)
  /\ stage' = "sending"
  /\ UNCHANGED <<result, attempt, timer, ctx, clock, request, answer, link>>

\* Mutant: nothing is looked at between the wait and the next request.
SendAlways ==
  /\ stage = "sending"
  /\ stage' = "inFlight"
  /\ timer' = clock + RequestTimeout
  /\ request' = [request EXCEPT ![attempt] = "travelling"]
  /\ UNCHANGED <<result, attempt, expires, ctx, clock, answer, link>>

\* sendPrelink up to the request.
Send ==
  /\ stage = "sending"
  /\ IF over THEN Return("unavailable") /\ UNCHANGED <<timer, request>>
     ELSE IF expires <= clock THEN Return("denied") /\ UNCHANGED <<timer, request>>
     ELSE /\ stage' = "inFlight"
          /\ timer' = clock + RequestTimeout
          /\ request' = [request EXCEPT ![attempt] = "travelling"]
          /\ UNCHANGED result
  /\ UNCHANGED <<attempt, expires, ctx, clock, answer, link>>

\* Mutant: one attempt fewer.
RetryOnceLess ==
  /\ answer' = "none"
  /\ IF attempt + 2 >= Attempts
     THEN Return("unavailable") /\ UNCHANGED timer
     ELSE stage' = "waiting" /\ timer' = clock + Delay /\ UNCHANGED result

\* What the loop does with a retriable error.
Retry ==
  /\ answer' = "none"
  /\ IF attempt + 1 = Attempts
     THEN Return("unavailable") /\ UNCHANGED timer
     ELSE stage' = "waiting" /\ timer' = clock + Delay /\ UNCHANGED result

\* Mutant: no timeout of the client.
RequestOverByContext == stage = "inFlight" /\ over

\* Mutant: no timeout of the client, and a request that is built without the context.
RequestOverNever == FALSE

\* What ends a request that gets no answer, or one that never comes to its end:
\* the client's timeout and the context.
RequestOver == stage = "inFlight" /\ (clock >= timer \/ over)

RequestExpires ==
  /\ RequestOver
  /\ Retry
  /\ UNCHANGED <<attempt, expires, ctx, clock, request, link>>

\* The request or the reading of the answer fails before that.
ConnectionBreaks ==
  /\ stage = "inFlight"
  /\ Retry
  /\ UNCHANGED <<attempt, expires, ctx, clock, request, link>>

\* Mutant: any receipt is taken for that of this assertion.
VerdictUnmatched(reply) ==
  CASE reply # "oversized" /\ over -> "unavailable"
    [] reply = "refusal" /\ ~over -> "denied"
    [] reply \in {"completed", "other"} /\ ~over /\ clock < expires -> "linked"
    [] OTHER -> "receipt"

\* What sendPrelink makes of an answer that it does not retry.
Verdict(reply) ==
  CASE reply # "oversized" /\ over -> "unavailable"
    [] reply = "refusal" /\ ~over -> "denied"
    [] reply = "completed" /\ ~over /\ clock < expires -> "linked"
    [] OTHER -> "receipt"

\* An answer has been read whole.
Receive ==
  /\ stage = "inFlight" /\ answer # "none"
  /\ IF answer = "failure" /\ ~over THEN Retry
     ELSE Return(Verdict(answer)) /\ answer' = "none" /\ UNCHANGED timer
  /\ UNCHANGED <<attempt, expires, ctx, clock, request, link>>

\* The two cases of the select between two attempts, which takes either when both
\* are ready.
WaitOver == stage = "waiting" /\ clock >= timer

WaitCancelled == stage = "waiting" /\ over

NextAttempt ==
  /\ WaitOver
  /\ attempt' = attempt + 1
  /\ stage' = "sending"
  /\ UNCHANGED <<result, timer, expires, ctx, clock, request, answer, link>>

GiveUp ==
  /\ WaitCancelled
  /\ Return("unavailable")
  /\ UNCHANGED <<attempt, timer, expires, ctx, clock, request, answer, link>>

-----------------------------------------------------------------------------
(* What surrounds the call.                                                *)

Calling == stage \notin {"idle", "returned"}

\* The context's deadline.
DeadlineDue == Calling /\ ~over /\ clock >= Deadline

DeadlinePasses ==
  /\ DeadlineDue
  /\ ctx' = "done"
  /\ UNCHANGED <<stage, result, attempt, timer, expires, clock, request, answer, link>>

\* The browser goes away, which ends the request's context.
BrowserLeaves ==
  /\ Calling /\ ~over
  /\ ctx' = "done"
  /\ UNCHANGED <<stage, result, attempt, timer, expires, clock, request, answer, link>>

\* The backend handles a request, whenever it arrives: it may complete the link
\* or find it complete, and only then can it produce a receipt of this assertion.
\* Only the answer to the current request finds a reader.
BackendHandles(a) ==
  /\ request[a] = "travelling"
  /\ request' = [request EXCEPT ![a] = "handled"]
  /\ link' \in {link, "completed"}
  /\ IF stage = "inFlight" /\ a = attempt
     THEN \E reply \in Replies : (reply = "completed" => linked') /\ answer' = reply
     ELSE UNCHANGED answer
  /\ UNCHANGED <<client, clock>>

RequestIsLost(a) ==
  /\ request[a] = "travelling"
  /\ request' = [request EXCEPT ![a] = "lost"]
  /\ UNCHANGED <<client, clock, answer, link>>

\* Time stands still while the call, or the timer of its context, has a step to
\* take at once, and for no other reason: these are the very guards of the steps,
\* so that a step that fails to watch a condition lets time run past it.
Tick ==
  /\ clock < MaxClock
  /\ stage \notin {"idle", "sending"}
  /\ ~RequestOver /\ ~WaitOver /\ ~WaitCancelled /\ ~DeadlineDue
  /\ clock' = clock + 1
  /\ UNCHANGED <<client, backend, answer>>

\* What the call does of itself.
Step ==
  \/ Send
  \/ RequestExpires
  \/ NextAttempt
  \/ GiveUp

Next ==
  \/ \E source \in SourceExpiries : RefuseIntent(source) \/ Start(source)
  \/ Step
  \/ ConnectionBreaks
  \/ Receive
  \/ DeadlinePasses
  \/ BrowserLeaves
  \/ \E a \in DOMAIN request : BackendHandles(a) \/ RequestIsLost(a)
  \/ Tick

\* The goroutine of the call runs, timers fire and time passes; nothing is assumed
\* of the backend, the network and the browser: no request is ever answered, or
\* fails by itself, by fairness.
Fairness == WF_vars(Step) /\ WF_vars(DeadlinePasses) /\ WF_vars(Tick)

Spec == Init /\ [][Next]_vars /\ Fairness

-----------------------------------------------------------------------------
\* The variables have their types.
TypeOK ==
  /\ stage \in Stages /\ result \in Results
  /\ attempt \in 0..(Attempts - 1)
  /\ timer \in Nat /\ expires \in Nat /\ clock \in Nat
  /\ ctx \in {"live", "done"} /\ link \in {"open", "completed"}
  /\ request \in [0..(Attempts - 1) -> Requests]
  /\ answer \in Replies \cup {"none"}

\* The login goes on only when the backend has completed the link for this very
\* assertion, whichever attempt's request did it and whatever became of the
\* answers to the others.
LinkedBeforeRelay == result = "linked" => linked

\* The most that a number of attempts, each with the wait after it, can take.
Spent(attempts) == attempts * (RequestTimeout + Delay)

\* The call never outlasts its budget or its assertion, whatever the attempts and
\* the waits between them add up to; and a backend that hangs costs each attempt
\* no more than the request's timeout, so that the next one is made.
WithinBudget ==
  Calling =>
    /\ clock <= Budget /\ clock <= expires
    /\ clock <= Spent(attempt) + RequestTimeout + (IF stage = "waiting" THEN Delay ELSE 0)

\* Requests with the same assertion go out one after another and only while the
\* assertion is valid: a request is sent when those before it have been given up
\* on, and never once the assertion has expired.
OneAssertionInOrder ==
  [][\A a \in DOMAIN request :
       request[a] = "unsent" /\ request'[a] # "unsent" =>
         /\ clock < expires /\ ~over
         /\ \A b \in DOMAIN request : (b < a) = (request[b] # "unsent")]_vars

\* "unavailable" is not returned while another attempt could still be made: all
\* of them have been made, or the context is over, or none could be made at all.
GivesUpLate ==
  result = "unavailable" =>
    over \/ attempt + 1 = Attempts \/ \A a \in DOMAIN request : request[a] = "unsent"

\* The call returns, whatever the backend and the network do.
CallReturns == Calling ~> stage = "returned"
=============================================================================
