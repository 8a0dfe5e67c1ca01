------------------------------ MODULE LoginPage ------------------------------
(***************************************************************************)
(* The controller of the login page: the script that the template in       *)
(* internal/app/login_template.go gives to the browser.  Its handlers run  *)
(* one at a time, in any order the browser, the user and Telegram's script *)
(* produce.  Telegram's script is external: auth opens a popup and calls   *)
(* back at most once for it, at once or later, and may throw; a callback   *)
(* given to init may be called at any time and any number of times.        *)
(***************************************************************************)
EXTENDS Naturals

CONSTANTS
  MaxPopups,   \* bound on the calls of Telegram.Login.auth
  MaxInit      \* bound on the results that reach init's callback

ASSUME LoginPageAssumption == MaxPopups \in Nat /\ MaxInit \in Nat

VARIABLES
  page,     \* the controller's variables and what the user sees
  sdk,      \* Telegram's script
  forms     \* the forms submitted

pageVars == <<page, sdk, forms>>

\* What a callback is given; "cancelled" is null, an error or no token at all.
Results == {"id_token", "cancelled"}

Statuses == {"none", "waiting", "completing", "error"}

PageInit ==
  /\ page = [loginPending |-> FALSE, loginSubmitted |-> FALSE,
             busy |-> FALSE, status |-> "none"]
  /\ sdk = [script |-> "loading", loaded |-> FALSE, init |-> 0,
            opened |-> 0, waiting |-> 0]
  /\ forms = 0

-----------------------------------------------------------------------------
(* The page, as functions of its state.                                    *)

allowLoginRetry(p) ==
  IF p.loginSubmitted THEN p ELSE [p EXCEPT !.loginPending = FALSE, !.busy = FALSE]

Fail(p) == [allowLoginRetry(p) EXCEPT !.status = "error"]

\* Mutant: a failed attempt is only reported.
ReportOnly(p, result) ==
  IF p.loginSubmitted THEN p
  ELSE IF result = "cancelled" THEN [p EXCEPT !.status = "error"]
  ELSE [loginPending |-> TRUE, loginSubmitted |-> TRUE, busy |-> TRUE, status |-> "completing"]

\* Mutant: loginSubmitted is left to the navigation.
SubmitEveryResult(p, result) ==
  IF result = "cancelled" THEN Fail(p)
  ELSE [p EXCEPT !.loginPending = TRUE, !.busy = TRUE, !.status = "completing"]

submitTelegramAuth(p, result) ==
  IF p.loginSubmitted THEN p
  ELSE IF result = "cancelled" THEN Fail(p)
  ELSE [loginPending |-> TRUE, loginSubmitted |-> TRUE, busy |-> TRUE, status |-> "completing"]

\* The form is submitted by the call that finds no earlier one.
Submitted(p, result) == ~p.loginSubmitted /\ result = "id_token"

\* A result reaches submitTelegramAuth.
Deliver(p, result) ==
  /\ page' = submitTelegramAuth(p, result)
  /\ forms' = IF Submitted(p, result) THEN forms + 1 ELSE forms

Opening(p) == [p EXCEPT !.loginPending = TRUE, !.busy = TRUE, !.status = "waiting"]

-----------------------------------------------------------------------------
(* The handlers.                                                           *)

CanOpen == ~page.loginPending /\ ~page.loginSubmitted

\* The functions that the page looks for in Telegram's script.
HasAuth == sdk.script \in {"ready", "authOnly"}
HasInit == sdk.script \in {"ready", "initOnly"}

\* openTelegramLogin without Telegram's auth function.
ClickUnavailable ==
  /\ CanOpen /\ ~HasAuth
  /\ page' = [page EXCEPT !.busy = FALSE, !.status = "error"]
  /\ UNCHANGED <<sdk, forms>>

\* openTelegramLogin, when auth returns and its callback is still to come.
ClickOpens ==
  /\ CanOpen /\ HasAuth /\ sdk.opened < MaxPopups
  /\ page' = Opening(page)
  /\ sdk' = [sdk EXCEPT !.opened = @ + 1, !.waiting = @ + 1]
  /\ UNCHANGED forms

\* openTelegramLogin, when auth calls back before it returns or throws.
ClickReturns(throws) ==
  /\ CanOpen /\ HasAuth /\ sdk.opened < MaxPopups
  /\ sdk' = [sdk EXCEPT !.opened = @ + 1]
  /\ \E result \in Results :
       LET answered == submitTelegramAuth(Opening(page), result)
       IN /\ page' = IF throws /\ ~answered.loginSubmitted THEN Fail(answered) ELSE answered
          /\ forms' = IF Submitted(page, result) THEN forms + 1 ELSE forms

\* openTelegramLogin, when auth throws without having called back; it may have
\* opened the popup nevertheless.
ClickThrows ==
  /\ CanOpen /\ HasAuth /\ sdk.opened < MaxPopups
  /\ page' = Fail(Opening(page))
  /\ \E popup \in {0, 1} :
       sdk' = [sdk EXCEPT !.opened = @ + 1, !.waiting = @ + popup]
  /\ UNCHANGED forms

\* The popup's one result.
PopupAnswers(result) ==
  /\ sdk.waiting > 0
  /\ sdk' = [sdk EXCEPT !.waiting = @ - 1]
  /\ Deliver(page, result)

\* A result reaches the callback that the load handler gave to init.
InitAnswers(result) ==
  /\ sdk.loaded /\ HasInit /\ sdk.init < MaxInit
  /\ sdk' = [sdk EXCEPT !.init = @ + 1]
  /\ Deliver(page, result)

\* The script element is async, but the page's load event waits for it.
\* A script may arrive without the functions the page calls.
ScriptArrives ==
  /\ sdk.script = "loading"
  /\ \E outcome \in {"ready", "authOnly", "initOnly", "unusable"} :
       sdk' = [sdk EXCEPT !.script = outcome]
  /\ UNCHANGED <<page, forms>>

ScriptError ==
  /\ sdk.script = "loading"
  /\ sdk' = [sdk EXCEPT !.script = "failed"]
  /\ page' = IF page.loginSubmitted THEN page ELSE Fail(page)
  /\ UNCHANGED forms

Load ==
  /\ ~sdk.loaded /\ sdk.script # "loading"
  /\ sdk' = [sdk EXCEPT !.loaded = TRUE]
  /\ page' = IF HasInit THEN page ELSE [page EXCEPT !.status = "error"]
  /\ UNCHANGED forms

PageNext ==
  \/ ClickUnavailable
  \/ ClickOpens
  \/ \E throws \in BOOLEAN : ClickReturns(throws)
  \/ ClickThrows
  \/ \E result \in Results : PopupAnswers(result) \/ InitAnswers(result)
  \/ ScriptArrives
  \/ ScriptError
  \/ Load

PageSpec == PageInit /\ [][PageNext]_pageVars

-----------------------------------------------------------------------------
\* The variables have their types.
PageTypeOK ==
  /\ page \in [loginPending : BOOLEAN, loginSubmitted : BOOLEAN,
               busy : BOOLEAN, status : Statuses]
  /\ sdk \in [script : {"loading", "ready", "authOnly", "initOnly", "unusable", "failed"},
              loaded : BOOLEAN, init : 0..MaxInit, opened : 0..MaxPopups, waiting : 0..MaxPopups]
  /\ forms \in Nat

\* Whatever order results, exceptions and script events come in, the page submits
\* at most one form, and once it has, it stays busy and reports nothing else (but
\* that Telegram's script is of no use, when it loads without an init function).
SubmittedOnce ==
  /\ forms = IF page.loginSubmitted THEN 1 ELSE 0
  /\ page.loginSubmitted => page.busy /\ (page.status = "completing" \/ ~HasInit)

\* The page never keeps the user waiting for nothing: until it has submitted, it
\* is busy only while a popup can still answer, and never forgets that it is.
NeverLockedOut ==
  ~page.loginSubmitted =>
    /\ page.busy => sdk.waiting > 0
    /\ page.busy = page.loginPending
=============================================================================
