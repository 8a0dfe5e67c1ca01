# zitadeltg: models, checks and proofs

zitadeltg lets people sign in to ZITADEL with Telegram. It serves a login page
for each bot, receives Telegram's ID token from that page, checks it, optionally
asks an application backend to link the account, and relays a token signed with
its own key to ZITADEL. This directory holds TLA+ modules of that service, the
TLC configurations that check them and proofs checked by TLAPS. File and line
numbers refer to `internal/app/` unless a path is given; `PROJECT.json` maps each
definition to its lines and lists the hazards that the properties are for.

## Inventory

| Part | State | Operations | Interacts with | What is hard | What makes it correct |
|---|---|---|---|---|---|
| Pending-state store (`pending_state.go`) | map key to expiry, global list, a list per session | `add`, `consume`, with `cleanup` and eviction inside | both handlers, under one mutex | clock readings older than the call; lists deleted and created again inside one call; two limits at once | lists agree with the map; limits; sessions do not disturb each other; a refusal costs nothing |
| Login handler (`handleLogin`) | none but the store and the cookie | sign a state, store it, render, set the cookie | store, browser | overlapping requests of one browser, responses in any order, failure after storing | what was delivered is usable; what failed leaves nothing |
| Callback handler (`handleTelegramAuth`) | none but the store | check, consume, validate, link, issue, relay | store, Telegram's keys, prelink, ZITADEL | racing callbacks with one state, restarts, time passing during the calls | single use; only from its page; a relay token within the ID token's life |
| Signed state (`state.go`) | none | sign, verify | handlers | | bound to bot, expiry, key |
| Telegram validator (`telegram.go`) | cached JWKS (library) | validate | callback | rotation and refresh of keys, the wait for an unknown one | nonce and expiry; the wait is bounded |
| Prelink hook (`prelink.go`) | one call's context | signed request, up to three attempts | backend | lost and late answers, five kinds of deadline | no relay without a link for this assertion; ends in time |
| Signing key file (`jwt.go`, `private_key_file_linux.go`) | a file on a volume shared by replicas | load or create | file system, other processes | concurrent first starts, crashes, power loss | one key for all, never torn, never replaced |
| Rate limiter (`rate_limit.go`) | map of windows, list by use, list by end of window | `allow` | every request | cleanup by batches, capacity, what Retry-After promises | an open window is never forgotten; no client refused for capacity needlessly; waiting as told suffices |
| ZITADEL relay (`proxyToZitadel`) | none | request, redirect, registration form | ZITADEL, browser | which documents, redirects, cookies and query go through | what is passed on works in the browser and stays inside |
| Login page (`login_template.go`) | the script's flags | callbacks of Telegram's script | Telegram, callback handler | any order of callbacks, exceptions, script errors | one submission; never stuck |
| Proxy trust (`proxy.go`) | none | `clientIP`, `isSecureRequest` | rate limiter (key), cookies (name, Secure), relay (cookies) | headers that some proxies append, others set, and clients forge | a forged element decides nothing |
| Configuration (`config.go`) | the settings in force | `ParseConfig` | everything | two places for one setting, defaults that depend on other settings | what is written is in force; audiences differ |
| Routing and query (`server.go`) | none | `serveHTTP`, `canonicalizeLoginQuery`, `mergeZitadelQuery` | handlers | mounts under any prefix, queries carried through the state | a login URL leads to ZITADEL whole |
| Process (`cmd/zitadeltg/main.go`) | its phase | start, serve, graceful stop | all | time limits that add up; a signal during the start | a stop cuts off only what it may; answers are not lost; it ends |
| Logging, response metrics, navigation page, integration environment | none | | | | |

## Modules

* `LinkedList` -- `container/list` as the code uses it: a list is the function
  from each value to the set of values ahead of it, so that unlinking and moving
  to the back are set operations, and two lists are equal exactly when they agree.
* `PendingStates` -- the store's data structure, as operators on a record of the
  three fields that the mutex guards. `add` and `consume` are one operator each
  because they hold the mutex throughout; their cleanup, eviction, second lookup
  of the session's list and refusal are all inside.
* `PendingStateStore` -- the store under its callers: any session, any verifier, a
  clock reading that may be up to `Lag` old. `PendingTokens` is the abstract
  specification it implements: a set of tokens with expiries, no lists.
* `LoginFlow` -- `handleLogin` and `handleTelegramAuth` as concurrent processes over
  `PendingStates`, with browsers and their cookie, lost and overtaken responses,
  rendering failures, and restarts that empty the store. A step is what a handler
  does between two points where others can run: the reading of the clock
  (`SignState`, `PostCallback`) comes before the store's critical section
  (`StoreState`, `ConsumeState`), and so does the arrival of cookies.
* `Prelink` -- one call of `prelinkTelegram`. `Send`, `Receive`, `NextAttempt` and
  `GiveUp` are the loop; `RequestExpires` ends a request by the client's timeout or
  the end of the context, `ConnectionBreaks` before that; `DeadlinePasses` and
  `BrowserLeaves` end the context; `BackendHandles` and `RequestIsLost` are the other
  side.
* `KeyFile` -- `NewSigner`'s file, one action per system call that others can see
  the effect of, with kills, failing steps, power losses and an operator who puts a
  key there. The volume follows POSIX: a name is visible at once and durable after
  a sync of its directory. The directory may be there durably (a mounted volume) or
  be made by the service (`MakeDirectory`, `jwt.go:152-158`): its own name is in a
  directory above that nothing syncs, so a power loss may take it with all it holds.
* `RequestLimiter` -- `allow`, with both cleanups, over a record of the fields under
  its mutex. `RateWindows` is the abstract specification it implements.
* `RegistrationForm` -- the decision to relay ZITADEL's registration form, and the
  browser's rules for owning, disabling and submitting controls, which are external
  to the repository (HTML standard). The code's recursive visits of the tree are
  quantifiers over the nodes below a node.
* `LoginPage` -- the script of the login page. Telegram's script is external: its
  functions may call back at once, later, or throw.
* `Lifecycle` -- `main` and the time that callbacks take. Each callback and the
  process have a timer; `Tick` lets all of them run down, and a timer that is due
  is served before time goes on. A callback records where it was when the signal
  came and the longest it could then still take. `FormArrives`, `KeyFound`, `Linked` and `Fails`
  end a wait early, `TimesOut` at its limit. `net/http` is external; what is taken
  from it are the limits that main sets, the cancellation of a request whose
  browser left, and that `Shutdown` returns when nothing runs.
* `Configuration`, `ForwardedHeaders`, `LoginRelay` -- pure code as operators:
  `ParseConfig`; `clientIP` and `isSecureRequest`; routing, the query, cookies and
  redirects. `Requests` composes them: a configuration file, a login request and a
  callback with their ways through proxies, and ZITADEL's redirect. Its states are
  *scenarios* and its actions change one of them; they do not stand for steps of
  the service.
* `MC...` -- values for TLC. `..._proofs` -- theorems; `Process_proofs` holds those of
  `KeyFile` and `Lifecycle`, `Browser_proofs` those of `LoginPage`, `RegistrationForm`
  and `Requests`.

`LoginFlow` composes the handlers with the store; `Prelink` and `proxyToZitadel`'s
outcomes appear in it as single steps whose result is not known in advance, and
`Lifecycle` gives the same calls their durations. `Requests` shows where the
session cookie that `LoginFlow` takes as given, and the client that
`RequestLimiter` counts, come from.

## Runs

| Run | Question | Bounds |
|---|---|---|
| `pending_state_store` | Do the store's invariants hold and does it implement `PendingTokens`? | three sessions with three verifiers, a store smaller than the sum of their limits, a cleanup batch smaller than the store, clock readings that trail |
| `login_pages` | Is what a browser was given usable, whatever overlaps? | three logins of two browsers, a store of two, four units of time, a restart |
| `login_callbacks` | Is a state redeemed once, where it was issued, with a token in time? | two logins, two callbacks, two browsers, two bots (one with prelink), one pending state per session, a restart |
| `callback_consumes` | Does every callback attempt consume its state? (No, see below.) | one login, one callback |
| `prelink` | Is the hook safe under lost and late messages, and does it return? | three attempts, as in the code, timeouts in proportion |
| `key_file` | Do concurrent starts agree on one whole key? | three processes, four keys, two power losses, one operator's key, a directory that is there or has to be made |
| `key_served` | Is a key that was in service kept? (No, see below.) | two processes |
| `request_limiter` | Do the lists agree, does the limiter implement `RateWindows`, and is Retry-After enough? | four clients for three entries, batch of two, a second of two units |
| `registration_form` | Does a relayed form reach ZITADEL however it is submitted? | three required fields, every document and request up to three changes from the ordinary one |
| `login_page` | One submission, and never stuck? | three popups, three results through `init` |
| `lifecycle` | Whom does a stop cut off, which answers come too late, does everything end? | two callbacks; limits 1 (headers), 2 (form), 5 (write), 3 (key), 1 (prelink), 2 (ZITADEL and first keys), 2 (shutdown) |
| `requests` | Is what is written in force, do forged headers decide nothing, does a login get through and stay inside? | ordinary scenarios and all up to two changes of the configuration, three of the traffic or one of each away |

The bounds are chosen so that each limit is exceeded: more sessions, clients and
verifiers than fit, more expired entries than a batch, more time than every
lifetime. Three sessions are needed for one to be disturbed by two others; three
logins for a cookie to be overtaken twice. `StateTTL`, `Window` and the timeouts are
small multiples of the clock's unit because the code only compares times.
`Lifecycle`'s limits keep the relations of main's that matter: the waits of a
callback together take longer than the write timeout, a key may take longer than
what the later calls leave of it, and the client's limit is that of the shutdown.
Two changes of a configuration are what a disagreement needs (two places for one
setting, a hook's audience and the relay's); three of the traffic a forged header, a
proxy that treats it differently and a second proxy. `Readings` gives a call any
reading of the clock up to `Lag` old: the handlers call `time.Now()` before they
queue for the mutex.

The store and the limiter take calls without end and are checked for deadlock. In
the other models every actor ends (a login, a callback, one prelink call, a page, a
process) or the effort does, so their configurations turn that check off. Symmetry
is used only where no temporal property beyond a refinement's steps is checked.

A module's type invariant (`TypeOK`, `KeyTypeOK`, `PageTypeOK`, `FormTypeOK`) is proved,
for all constants, in its `_proofs` module and not also run. The types of `Requests`
are part of `RequestsInv` in `Browser_proofs`.

### What the violations say

* `callback_consumes`: README.md:286-287 says that every callback attempt consumes
  its state. `handleTelegramAuth` consumes only at `server.go:345`; an attempt
  that is refused before that, by the rate limit, the form checks, `verifyState` or
  the session cookie, leaves the state pending. (An attempt whose *token* fails
  validation does consume it.)
* `key_served`: README.md:78-80 and 139-141 promise durable publication and reuse on
  later starts. Only the creator syncs the directory, after publishing; a process
  that finds the name earlier goes into service at once. A power loss then takes
  the key away that was already in service, although its directory is durable.

### What the other runs say besides "holds"

Some properties are as strong as they are only with a condition, and the condition is
what a reader should know:

* `StopWaits`: graceful shutdown waits less than one callback may take. The
  callbacks that it cuts off are those that could have taken the whole of
  `ShutdownTimeout` or more when the signal came. One that had been waiting for
  ZITADEL for any time is answered first; one whose wait had just begun is not sure
  to be, because the client's timeout and the stop's are the same ten seconds
  (`main.go:62`, `main.go:96`) and may end in either order.
* `OwnedKeyStays`: a creator's key survives every crash and power loss, except that
  it goes together with its whole directory if `MkdirAll` or the operator has made
  that since the last power loss. The sync at `jwt.go:184-187` is of the directory, and
  none is of the one above it. README.md:139-141 speaks of "directory durability
  guarantees"; they hold for a directory that is durable before the first start, as
  the mount `/data` of the image is. Without the exception the property fails after
  `Start`, `GenerateKey`, `MakeDirectory`, the steps up to `SyncDirectory`, and
  `PowerLoss`.
* `WithinBudget`: besides the budget and the assertion's expiry it bounds each attempt
  by the client's timeout, so that a backend that hangs does not use up the budget of
  the attempts after it.
* `AnswerArrives`: the write timeout is shorter than all waits together. An answer is
  lost only if reading the form and finding the token's key took all that prelink
  and ZITADEL leave; a slow backend or a slow ZITADEL alone never does that.
* `SessionLostOnlyByOverlap`: two login pages asked for at the same time by a browser
  without a cookie make two sessions, and the later response's stays.
* `NeverLockedOut` and `SubmittedOnce` hold also when a result reaches `init`'s
  callback as cancelled while a popup of `auth` is open. The page looks for `auth` and
  `init` separately (`login_template.go:171`, `199`): if a script had only the first,
  the load handler could report that Telegram is unavailable over a submission.
* `RelayedFormReachesZitadel` speaks of inputs: a submit button that bears the name of
  a required field is not examined by the form recogniser. This contradicts no text.
* `ClientIsOnItsWay` needs every trusted proxy to append to or set X-Forwarded-For,
  `SecureIfNearestSaysSo` the nearest one to maintain either header, as README.md:92-94
  asks for.

## Fairness

`Prelink` and `Lifecycle` have liveness properties.

`CallReturns` assumes weak fairness of the call's own goroutine (`Step`), of the
context's deadline timer (`DeadlinePasses`) and of the clock. In `Step` a request ends
only by `RequestExpires`, that is when the client's timeout is over or the context
is; `Receive` and `ConnectionBreaks` happen or not. With the request's timeout and
context dropped (`RequestOverNever`) the call may never return, and with the timeout
alone dropped an attempt takes too long.

`EverythingEnds` assumes weak fairness of the clock (`Tick`), of each callback's expired
wait (`TimesOut`), of the start when its context has ended or its client's time is
over, and of both ends of `Shutdown`. That is what the Go runtime gives: a goroutine
that can run does run, and timers fire. Nothing is assumed of the browser, of
Telegram, the backend, ZITADEL or the network: each of them may never answer.

Time stands still while something in the program can be done at once. In `Prelink`
the conditions for that are the very ones by which the call's steps are guarded
(`RequestOver`, `WaitOver`, `WaitCancelled`, `DeadlineDue`): a call that did not watch one
of them would let time run past it, and the bounds of `WithinBudget` would fail.
`Lifecycle` asks the same of its timers (`ProcessDue` and `TimesOut`'s).

## Proofs

All theorems hold for every value of the constants that satisfies the modules'
assumptions (limits at least one, lifetimes positive), which are weaker than what
`config.go` enforces. TLC evaluates the assumptions in the runs and checks the
properties on small instances first.

* `PendingStateStore_proofs`: the invariant is the conjunction of `TypeOK`,
  `OrdersAgree`, `Bounded` and `NearlySorted`. It is inductive as it stands but only
  as a whole: the limits need the lists (an eviction takes the front of a list, and
  the session is below its limit only if the list holds all its entries), and
  `NearlySorted` needs the type's bound on expiries (an entry goes to the back, and
  everything ahead of it expires by `clock + TTL`, at most `Lag` after it). The
  proof shows first that `Remove` and the two ways an entry enters, refresh and
  insert, all come down to *remove, then place at the back* (`RefreshPlaces`,
  `InsertPlaces` in `PendingStates_proofs`), so that every add is one of three
  combinations (`AddOutcomes`). The action properties follow from the invariant and
  a lemma on the effect of one call (`StepHasEffect`); `ResidueIsRecent` also needs
  that what cleanup leaves starts with an unexpired entry (`CleanupStops`), and
  `RefusalIsFree` that a store that is full after cleanup and eviction was not
  touched by them, by cardinality.

  Its second part is the refinement: under that invariant every call maps to one
  action of `PendingTokens` (`AddRefines`, `ConsumeRefines`): an add of a pending key
  to `Renew`, one with room to `Issue`, one that evicts to `Displace`, one refused to
  `Refuse`. `NearlySorted` is what makes the evicted front one of the session's
  oldest tokens, and `ResidueIsRecent`'s lemma what makes a refusal mean that the
  store was full of live tokens.
* `LinkedList_proofs` and `PendingStates_proofs` hold the lemmas about lists, about
  single operations and about whole calls. `FrontOfElements`, that any set of
  elements has a first one, uses the library's well-foundedness of strict inclusion
  on finite sets.
* `LoginFlow_proofs`: three invariants, each on top of the one before.
  `FlowInv` carries single use: `StateIsSingleUse` is not inductive, because nothing
  in it keeps a used state from being pending again. `KeyOK` adds that: a pending key
  is that of a page on its way or delivered which no callback has used. As a login
  stores its state once, a consumed one never comes back, through restarts too.
  `BrowserInv` adds that while a page has not expired, its browser's cookie is at least
  as young as the page, so that every later request sends the session it holds; hence
  every session that the browser can come to hold is the page's own or that of a page
  it had asked for before (`Overlaps`).
  `UsableInv` adds the order of the store's lists: it is that in which the logins' states were
  stored (`StoreGood`), so that the state an eviction takes is the oldest of its
  session, and the session's other states and the new one, `MaxPerSession` in all, are
  those of later logins (`StorePromise`, by an injection from keys to logins). Any
  other step takes a state away only if it has expired or was accepted
  (`NothingStored`, `ConsumeThins`).
* `RequestLimiter_proofs`: the invariant is `TypeOK`, `ListsAgree` and
  `ResetsNearlySorted`; both cleanups are removals (`RemoveGood`), and `allow` comes down to a few
  cases (`AllowCases`) that set one entry (`SetEntryGood`), at the back of the lists. For `RetryAfterSuffices` and the
  refinement the module assumes `Window + Lag <= StaleAge` (`LagAssumption`): a cleanup that
  goes by last use must not reach an entry whose window another reading of the clock
  still holds open. The code's stale age (`rate_limit.go:116`) is twice the window and
  at least five minutes, so that this holds for any lag up to a window.
* `Process_proofs`: for `Lifecycle`, the invariant relates each callback's timers to the process's
  (`CallInv`): the time to write plus what was spent adds up to the write timeout, and
  while the process stops, no callback can still take longer than it could when the
  signal came, less the time since. That a wait for ZITADEL that had begun before the
  signal is not cut needs that the client's limit is no longer than the stop's
  (`StopAssumption`, true of `main.go:62` and `96`).
  For `KeyFile`, it adds what a creator holds at each stage (`CreatorsHold`), that no
  two creators hold the same key (`KeysDiffer`), and that a generated key at the path is on the disk, its
  name too once its creator serves, and that a lost directory holds nothing
  (`FileHolds`).
* `Prelink_proofs`: the inductive invariant adds that an answer with the assertion's
  receipt stems from a completed link, that a call that has not returned has no
  result, and that the requests that have left are exactly those of the attempts so
  far (`RequestsInOrder`). `WithinBudget` needs that no timer of the call is overdue and
  each was set by its attempt in time (`TimersInTime`): time passes only while no step
  is due, and the attempts' timeouts and waits add up (`SpentAddsUp`, `AttemptSpends`).
* `Browser_proofs` has three parts.

  `LoginPage`, for any number of popups and results: `PageInv` holds both properties
  because neither is inductive alone. A page that has submitted stays busy and ignores
  every result; one that has not is busy only while a popup can still answer.

  `RegistrationForm`, for documents any number of changes away from the ordinary one: the
  invariant says that each element's parent comes before it (`FormTypeOK`), so that
  the recursion that collects an element's ancestors ends (`AncestorsDefinition`). The
  inputs that a browser submits for a field of a relayed form are then those that the
  recogniser's visit has found (`ControlsAreFound`), and what it has checked of them
  holds for the submission.

  `Requests`, for configurations, journeys, paths and queries of every length:
  `RequestsInv` says that what is in force is what the file comes to (`Configured`) and
  that the requests can be made. `SettingsInForce` and `RedirectsStayInside` follow from
  it by the cases of `ParseConfig` and of the comparison of origins.
  `SecureIfNearestSaysSo` needs only the last hop's element (`NearestDecides`).
  `ClientIsOnItsWay` needs the whole way: `clientIP` is the remote address, or the last
  element that is not a trusted proxy (`KnownByLastUntrusted`), or the first if all are, and by induction over
  the hops the elements that trusted proxies leave end with the way itself, behind
  whatever was forged (`WayIsWrittenDown`). `LoginReachesZitadel` needs the shape of
  the paths that are routed to a login page (`CleanPaths`, `LoginPaths`), that of the
  action made from them (`AuthPaths`), and that a query that is accepted at the login is
  one that the relay merges, whole.

  An element's ancestors, a journey and the cleaning of a path are recursive functions.
  The library's induction takes an operator as its parameter, so the module proves it
  for a *set* of numbers (`SetInduction`, from the least number of a set), which is
  enough: the set is that of the lengths for which a statement holds. The same
  induction shows that each recursive function satisfies its own definition
  (`AncestorsDefinition`, `OnItsWayDefinition`, `CleanedDefinition`).

  `RequestsAssumption` asks that neither of the mount's last two segments is `login`:
  under the mount `/login`, the path `/login/1` is a login page's whose action
  (`matchEndpoint`, `server.go:1163`) is outside the mount. The other conjuncts are the
  types of the inputs.

Only model-checked are `CallReturns` and `EverythingEnds`: liveness under fairness is outside
the prover's reach. Every invariant and action property that a run checks has its theorem,
and so have the two refinements.

## Not modelled

* Logging, response metrics, wording, page layout and the navigation page: output only.
* Cryptography and encodings: a signature is valid or not; a state or a token cannot be
  forged. Profile claims are values that no decision depends on.
* The JWKS cache: it belongs to the keyfunc library. `Lifecycle` has the wait for an
  unknown key, `LoginFlow` the failure.
* The syntax of single configuration values (durations, addresses, URLs): a text is
  valid or invalid. A key with no value leaves the default. The search for the
  configuration file has no state.
* Non-Linux key files: README.md:139-141 gives the guarantees for Linux only.
* A second signal during a stop: `signal.NotifyContext` stays registered until main
  returns, so it changes nothing. A kill at any moment is in `LoginFlow` and `KeyFile`.
* TLS connections to the service itself: main serves plain HTTP, so `r.TLS` is nil.
* The checks of the callback's form: they keep no state and are one outcome
  (`RefuseCallback`).

## Plan

What would add most from here:

1. The wait for Telegram's keys as a model of its own, with rotation, the cache's
   lifetime and the rate limit of refreshes, if the library's source becomes part of
   the repository.
2. An abstract specification of `LoginFlow`, in which a login is pending, redeemed or lost,
   and a proof that the handlers implement it.
3. The safety half of `EverythingEnds` as a theorem: a bound on the time from the signal
   to the end, in terms of the limits.
