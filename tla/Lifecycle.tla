------------------------------ MODULE Lifecycle ------------------------------
(***************************************************************************)
(* The life of the process (cmd/zitadeltg/main.go) and the time one        *)
(* callback may take: the start, which needs Telegram's keys, the service  *)
(* under the HTTP server's time limits, the stop on a signal, which waits  *)
(* for the callbacks that run, and the exit that cuts off what is left.    *)
(*                                                                         *)
(* Time is counted in timers that run down together; a timer that is due   *)
(* is served before time goes on.  What Telegram, the prelink backend,     *)
(* ZITADEL and the browser do takes any time up to the caller's limit.     *)
(* The HTTP server itself (net/http) is external: it reads a request's     *)
(* headers within ReadHeaderTimeout and its body within ReadTimeout of the *)
(* same start, lets nothing be written when WriteTimeout has passed since  *)
(* the headers, and cancels a request whose browser has left.              *)
(***************************************************************************)
EXTENDS Integers

CONSTANTS
  Callbacks,
  ReadHeaderTimeout, ReadTimeout, WriteTimeout,  \* of http.Server
  ClientTimeout,    \* of the http.Client for the first JWKS and for ZITADEL
  KeyWait,          \* the longest that the keyfunc library looks for a key
  PrelinkTimeout,
  ShutdownTimeout

ASSUME LifecycleAssumption ==
  /\ ReadHeaderTimeout \in Nat \ {0} /\ ReadTimeout \in Nat
  /\ ReadHeaderTimeout <= ReadTimeout
  /\ WriteTimeout \in Nat \ {0} /\ ClientTimeout \in Nat \ {0}
  /\ KeyWait \in Nat \ {0} /\ PrelinkTimeout \in Nat \ {0}
  /\ ShutdownTimeout \in Nat \ {0}

\* The time that a stop gives is no shorter than the client's.
ASSUME StopAssumption == ClientTimeout <= ShutdownTimeout

VARIABLES
  process,   \* its phase, whether it was told to stop, its timer, its exit status
  call       \* each callback's stage and timers

vars == <<process, call>>

Phases == {"starting", "serving", "stopping", "exited"}

\* A callback is connected until its headers are read, then reading its form;
\* from validating on its state is used up.
Running == {"connected", "reading", "validating", "linking", "relaying"}

\* "dropped" was never a request, "gone" left; the answer is "lost" when the time
\* to write it is over; "cut" are those that a stop did not wait for, "killed"
\* those under which the listener failed.
Ended == {"answered", "lost", "dropped", "gone", "cut", "killed"}

\* The stage's timer, the time left to write, the time spent on form and key, and
\* of the moment when the process was told to stop, the stage and what the limits
\* allowed the callback still to take.
NoCall == [stage |-> "none", left |-> 0, write |-> 0, early |-> 0, at |-> "none", due |-> 0]

\* The process while it runs.
Main(phase, left, signal) ==
  [phase |-> phase, signal |-> signal, left |-> left, status |-> "none"]

Init ==
  /\ process = Main("starting", ClientTimeout, FALSE)
  /\ call = [c \in Callbacks |-> NoCall]

IsRunning(c) == call[c].stage \in Running

\* A callback's record with another stage and timer.
At(r, stage, left) ==
  [stage |-> stage, left |-> left, write |-> r.write, early |-> r.early, at |-> r.at,
   due |-> r.due]

-----------------------------------------------------------------------------
(* The limits.                                                             *)

\* Mutant: a client without a timeout (its timer never comes to zero).
LimitWithoutClient(stage) ==
  CASE stage = "connected"  -> ReadHeaderTimeout
    [] stage = "reading"    -> ReadTimeout
    [] stage = "validating" -> KeyWait
    [] stage = "linking"    -> PrelinkTimeout
    [] stage = "relaying"   -> -1

\* Mutant: every prelink attempt has the whole budget.
LimitPerAttempt(stage) ==
  CASE stage = "connected"  -> ReadHeaderTimeout
    [] stage = "reading"    -> ReadTimeout
    [] stage = "validating" -> KeyWait
    [] stage = "linking"    -> 3 * PrelinkTimeout
    [] stage = "relaying"   -> ClientTimeout

\* How long a stage may take.
Limit(stage) ==
  CASE stage = "connected"  -> ReadHeaderTimeout
    [] stage = "reading"    -> ReadTimeout
    [] stage = "validating" -> KeyWait
    [] stage = "linking"    -> PrelinkTimeout
    [] stage = "relaying"   -> ClientTimeout

\* Mutant: the context of Shutdown is derived from the one that the signal ended.
NoTimeToStop == 0

TimeToStop == ShutdownTimeout

\* The longest that a callback can still take.
Remaining(r) ==
  CASE r.stage = "connected"  -> r.left + (ReadTimeout - ReadHeaderTimeout)
                                   + KeyWait + PrelinkTimeout + ClientTimeout
    [] r.stage = "reading"    -> r.left + KeyWait + PrelinkTimeout + ClientTimeout
    [] r.stage = "validating" -> r.left + PrelinkTimeout + ClientTimeout
    [] r.stage = "linking"    -> r.left + ClientTimeout
    [] r.stage = "relaying"   -> r.left
    [] OTHER                  -> 0

-----------------------------------------------------------------------------
(* handleTelegramAuth, as far as it takes time.                            *)

Connect(c) ==
  /\ process.phase = "serving"
  /\ call[c].stage = "none"
  /\ call' = [call EXCEPT ![c] = At(@, "connected", Limit("connected"))]
  /\ UNCHANGED process

\* The headers are read: the form's time has run since the connection, the
\* answer's runs from now.
HeadersArrive(c) ==
  /\ call[c].stage = "connected"
  /\ call' = [call EXCEPT ![c] = [stage |-> "reading", left |-> @.left + (Limit("reading") - Limit("connected")),
                                  write |-> WriteTimeout, early |-> @.early, at |-> @.at,
                                  due |-> @.due]]
  /\ UNCHANGED process

Enter(c, stage) ==
  /\ call' = [call EXCEPT ![c] = At(@, stage, Limit(stage))]
  /\ UNCHANGED process

End(c, stage) ==
  /\ call' = [call EXCEPT ![c] = At(@, stage, 0)]
  /\ UNCHANGED process

\* The handler answers; nobody learns whether the answer can still be written.
Answer(c) == End(c, IF call[c].write > 0 THEN "answered" ELSE "lost")

\* After validation: prelinkTelegram returns at once for a bot without a hook.
AfterValidation(c) == Enter(c, "linking") \/ Enter(c, "relaying")

\* The form is complete and the state consumed; the token's key may be cached, or
\* the token is refused without one.
FormArrives(c) ==
  /\ call[c].stage = "reading"
  /\ Enter(c, "validating") \/ AfterValidation(c)

KeyFound(c) == call[c].stage = "validating" /\ AfterValidation(c)

Linked(c) == call[c].stage = "linking" /\ Enter(c, "relaying")

\* ZITADEL's response is passed on or refused; or an earlier stage fails: a form
\* or a state that is refused, no key or no valid token, no link.
Fails(c) ==
  /\ call[c].stage \in Running \ {"connected"}
  /\ Answer(c)

\* The stage's time is over: each of the waits then returns an error.
TimesOut(c) ==
  /\ IsRunning(c) /\ call[c].left = 0
  /\ IF call[c].stage = "connected" THEN End(c, "dropped") ELSE Answer(c)

\* Every wait also ends when the browser has gone.
BrowserLeaves(c) ==
  /\ IsRunning(c)
  /\ End(c, "gone")

-----------------------------------------------------------------------------
(* main.                                                                   *)

Exit(status, running) ==
  /\ process' = [phase |-> "exited", signal |-> process.signal, left |-> 0, status |-> status]
  /\ call' = [c \in Callbacks |-> IF IsRunning(c) THEN At(call[c], running, 0) ELSE call[c]]

\* NewServer fetches Telegram's keys, with the context that the signal cancels.
StartFails ==
  /\ process.phase = "starting"
  /\ Exit("failed", "killed")

\* Telegram's keys are there.  A signal that came at the last moment is seen by
\* the select that follows.
Serve ==
  /\ process.phase = "starting"
  /\ process' = IF process.signal THEN Main("stopping", TimeToStop, TRUE)
                                  ELSE Main("serving", 0, FALSE)
  /\ UNCHANGED call

ListenerFails ==
  /\ process.phase = "serving"
  /\ Exit("failed", "killed")

Interrupt ==
  /\ process.phase \in {"starting", "serving"} /\ ~process.signal
  /\ IF process.phase = "serving"
     THEN /\ process' = Main("stopping", TimeToStop, TRUE)
          /\ call' = [c \in Callbacks |-> [call[c] EXCEPT !.at = call[c].stage,
                                                           !.due = Remaining(call[c])]]
     ELSE process' = Main("starting", process.left, TRUE) /\ UNCHANGED call

\* Shutdown has found every connection idle.
ShutdownReturns ==
  /\ process.phase = "stopping"
  /\ \A c \in Callbacks : ~IsRunning(c)
  /\ Exit("ok", "cut")

\* Shutdown's context ends first: os.Exit, whatever still runs.
ShutdownExpires ==
  /\ process.phase = "stopping" /\ process.left = 0
  /\ Exit("failed", "cut")

-----------------------------------------------------------------------------
Down(n) == IF n > 0 THEN n - 1 ELSE n

\* A callback's record one unit of time later.
After(r) ==
  [stage |-> r.stage, left |-> Down(r.left), write |-> Down(r.write), at |-> r.at, due |-> r.due,
   early |-> IF r.stage \in {"reading", "validating"} THEN r.early + 1 ELSE r.early]

\* A timer of the process is due, or the signal has cancelled the start.
ProcessDue ==
  \/ process.phase = "starting" /\ (process.signal \/ process.left = 0)
  \/ process.phase = "stopping" /\ process.left = 0

Tick ==
  /\ process.phase # "exited"
  /\ ~ProcessDue
  /\ \A c \in Callbacks : IsRunning(c) => call[c].left # 0
  /\ process' = Main(process.phase, Down(process.left), process.signal)
  /\ call' = [c \in Callbacks |->
       IF IsRunning(c) THEN After(call[c]) ELSE call[c]]

Handle(c) ==
  \/ Connect(c)
  \/ HeadersArrive(c)
  \/ FormArrives(c)
  \/ KeyFound(c)
  \/ Linked(c)
  \/ Fails(c)
  \/ TimesOut(c)
  \/ BrowserLeaves(c)

Next ==
  \/ \E c \in Callbacks : Handle(c)
  \/ StartFails
  \/ Serve
  \/ ListenerFails
  \/ Interrupt
  \/ ShutdownReturns
  \/ ShutdownExpires
  \/ Tick

\* Timers fire, goroutines that can run do run, and time goes on.  Nothing is
\* assumed of the browser, of Telegram, of the backend and of ZITADEL.
Fairness ==
  /\ WF_vars(Tick)
  /\ \A c \in Callbacks : WF_vars(TimesOut(c))
  /\ WF_vars(StartFails /\ ProcessDue)
  /\ WF_vars(ShutdownReturns)
  /\ WF_vars(ShutdownExpires)

Spec == Init /\ [][Next]_vars /\ Fairness

-----------------------------------------------------------------------------
\* The variables have their types.
TypeOK ==
  /\ process \in [phase : Phases, signal : BOOLEAN, left : Nat,
                  status : {"none", "ok", "failed"}]
  /\ call \in [Callbacks -> [stage : Running \cup Ended \cup {"none"}, left : Nat,
                             write : 0..WriteTimeout, early : Nat,
                             at : Running \cup Ended \cup {"none"}, due : Nat]]

\* A stop that reports success has cut nobody off, and a stop that gives up cuts
\* off only callbacks that could have taken ShutdownTimeout or more when the signal
\* came.  Of those that were then waiting for ZITADEL it spares all whose wait had
\* taken any time: as main gives the client as long as the stop, one that had just
\* begun can end in the same unit of time as the stop does.
StopWaits ==
  \A c \in Callbacks : call[c].stage = "cut" =>
    /\ process.status = "failed" /\ call[c].due >= ShutdownTimeout
    /\ call[c].at = "relaying" => call[c].due = ClientTimeout

\* An answer is lost to the write timeout only if reading the form and looking for
\* the key of the token took all the time that the two calls after them leave
\* over; no hook and no ZITADEL, however slow, costs a callback its answer.
AnswerArrives ==
  \A c \in Callbacks : call[c].stage = "lost" =>
    call[c].early >= WriteTimeout - PrelinkTimeout - ClientTimeout

\* Every callback ends, and a process that is told to stop does.
EverythingEnds ==
  /\ \A c \in Callbacks : IsRunning(c) ~> ~IsRunning(c)
  /\ process.signal ~> process.phase = "exited"
=============================================================================
