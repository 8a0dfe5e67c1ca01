---------------------------- MODULE Browser_proofs ----------------------------
(***************************************************************************)
(* Proofs about what the browser meets in a login.                         *)
(***************************************************************************)
EXTENDS LoginPage, RegistrationForm, Requests, SequenceTheorems, FiniteSetTheorems,
        WellFoundedInduction, TLAPS

-----------------------------------------------------------------------------
(* Induction over the natural numbers, for a set of them.                  *)

\* A set of numbers that is not empty has a least one.
LEMMA LeastNumber ==
  ASSUME NEW S \in SUBSET Nat, S # {}
  PROVE  \E m \in S : \A k \in S : m <= k
<1> DEFINE less == OpToRel(<, Nat)
<1>1. IsWellFoundedOn(less, Nat)
  BY NatLessThanWellFounded
<1>2. PICK m \in S : \A k \in S : ~ (<<k, m>> \in less)
  <2> HIDE DEF less
  <2> QED  BY <1>1, WFMin
<1>3. less = {ss \in Nat \X Nat : ss[1] < ss[2]}
  BY DEF OpToRel
<1>4. ASSUME NEW k \in S PROVE m <= k
  <2>1. m \in Nat /\ k \in Nat /\ ~ (<<k, m>> \in less)
    BY <1>2
  <2> HIDE DEF less
  <2> QED  BY <1>3, <2>1
<1> QED  BY <1>4

\* A set that holds 0 and with each number the next holds them all.
LEMMA SetInduction ==
  ASSUME NEW S, 0 \in S, \A n \in Nat : n \in S => n + 1 \in S
  PROVE  \A n \in Nat : n \in S
<1> SUFFICES ASSUME NEW n \in Nat, n \notin S PROVE FALSE
  OBVIOUS
<1>1. PICK m \in Nat \ S : \A k \in Nat \ S : m <= k
  BY LeastNumber
<1>2. m - 1 \in Nat /\ m - 1 \in S /\ (m - 1) + 1 = m
  BY <1>1
<1> QED  BY <1>2

-----------------------------------------------------------------------------
(* The login page.                                                         *)

Pages == [loginPending : BOOLEAN, loginSubmitted : BOOLEAN, busy : BOOLEAN, status : Statuses]

\* What a page may show: with forms submitted and popups that can still answer.
PageAgrees(p, submitted, waiting) ==
  /\ p \in Pages
  /\ submitted = IF p.loginSubmitted THEN 1 ELSE 0
  /\ p.loginSubmitted => p.busy
  /\ ~p.loginSubmitted => (p.busy => waiting > 0) /\ p.busy = p.loginPending

Scripts == [script : {"loading", "ready", "authOnly", "initOnly", "unusable", "failed"},
            loaded : BOOLEAN, init : 0..MaxInit, opened : 0..MaxPopups, waiting : 0..MaxPopups]

\* The inductive invariant: the two properties hold each other up, as a result
\* is ignored exactly when a form has been submitted.
PageInv ==
  /\ sdk \in Scripts /\ sdk.waiting <= sdk.opened
  /\ PageAgrees(page, forms, sdk.waiting)
  /\ sdk.waiting > 0 => HasAuth
  /\ page.loginSubmitted => HasAuth \/ HasInit
  /\ page.loginSubmitted => page.status = "completing" \/ ~HasInit

\* A page that waits for the user.
Idle(status) ==
  [loginPending |-> FALSE, loginSubmitted |-> FALSE, busy |-> FALSE, status |-> status]

\* It agrees with no form, and any number of popups.
LEMMA IdleAgrees ==
  ASSUME NEW status \in Statuses, NEW waiting
  PROVE  Idle(status) \in Pages /\ PageAgrees(Idle(status), 0, waiting)
<1>1. Idle(status) \in Pages
  BY DEF Idle, Pages
<1>2. /\ Idle(status).loginSubmitted = FALSE /\ Idle(status).busy = FALSE
      /\ Idle(status).loginPending = FALSE
  BY DEF Idle
<1> QED  BY <1>1, <1>2, Zenon DEF PageAgrees

\* The initial state satisfies the invariant.
LEMMA PageInitInv == PageInit => PageInv
<1> SUFFICES ASSUME PageInit PROVE PageInv
  OBVIOUS
<1>1. sdk \in Scripts /\ sdk.waiting = 0 /\ sdk.opened = 0
  BY LoginPageAssumption DEF PageInit, Scripts
<1>2. page = Idle("none") /\ forms = 0
  BY DEF PageInit, Idle
<1>3. ~page.loginSubmitted /\ PageAgrees(page, 0, 0)
  <2>1. "none" \in Statuses
    BY DEF Statuses
  <2> QED  BY <1>2, <2>1, IdleAgrees DEF Idle
<1> QED
  BY <1>1, <1>2, <1>3 DEF PageInv

\* A failure makes a page usable again that has not submitted.
LEMMA FailIsIdle ==
  ASSUME NEW p \in Pages, ~p.loginSubmitted
  PROVE  Fail(p) = Idle("error")
<1>1. PICK ready : ready = allowLoginRetry(p)
  OBVIOUS
<1>2. ready = Idle(p.status) /\ ready \in Pages
  BY <1>1 DEF allowLoginRetry, Pages, Idle
<1>3. PICK failed : failed = [ready EXCEPT !.status = "error"]
  OBVIOUS
<1>4. failed = Idle("error")
  BY <1>2, <1>3 DEF Pages, Idle
<1> QED  BY <1>1, <1>3, <1>4 DEF Fail

\* A page that opens a popup waits for it.
Waiting ==
  [loginPending |-> TRUE, loginSubmitted |-> FALSE, busy |-> TRUE, status |-> "waiting"]

LEMMA OpeningWaits ==
  ASSUME NEW p \in Pages, ~p.loginSubmitted
  PROVE  /\ Opening(p) = Waiting /\ Waiting \in Pages
         /\ Waiting.loginSubmitted = FALSE /\ Waiting.busy = TRUE /\ Waiting.loginPending = TRUE
<1>1. PICK open : open = Opening(p)
  OBVIOUS
<1>2. open = Waiting
  BY <1>1 DEF Opening, Pages, Waiting
<1>3. Waiting \in Pages
  BY DEF Waiting, Pages, Statuses
<1> QED  BY <1>1, <1>2, <1>3 DEF Waiting

\* The script's record stays one when a popup opens or a result arrives.
LEMMA ScriptsStep ==
  ASSUME NEW s \in Scripts, NEW opened \in 0..MaxPopups, NEW waiting \in 0..MaxPopups,
         NEW init \in 0..MaxInit
  PROVE  [script |-> s.script, loaded |-> s.loaded, init |-> init, opened |-> opened,
          waiting |-> waiting] \in Scripts
BY DEF Scripts

\* Whatever result arrives, and however many popups are left, the page agrees
\* with the forms afterwards.
LEMMA ResultAgrees ==
  ASSUME NEW p \in Pages, NEW result \in Results, NEW submitted, NEW waiting,
         submitted = IF p.loginSubmitted THEN 1 ELSE 0,
         p.loginSubmitted => p.busy
  PROVE  PageAgrees(submitTelegramAuth(p, result),
                    IF Submitted(p, result) THEN submitted + 1 ELSE submitted, waiting)
<1>1. CASE p.loginSubmitted
  BY <1>1, Zenon DEF submitTelegramAuth, Submitted, PageAgrees
<1>2. CASE ~p.loginSubmitted /\ result = "cancelled"
  <2>1. submitTelegramAuth(p, result) = Idle("error") /\ "error" \in Statuses
    BY <1>2, FailIsIdle DEF submitTelegramAuth, Statuses
  <2>2. ~Submitted(p, result) /\ submitted = 0
    BY <1>2 DEF Submitted
  <2> QED  BY <2>1, <2>2, IdleAgrees
<1>3. CASE ~p.loginSubmitted /\ result = "id_token"
  <2> DEFINE done == [loginPending |-> TRUE, loginSubmitted |-> TRUE, busy |-> TRUE,
                      status |-> "completing"]
  <2>1. submitTelegramAuth(p, result) = done /\ Submitted(p, result) /\ submitted + 1 = 1
    BY <1>3 DEF submitTelegramAuth, Submitted
  <2>2. done \in Pages /\ done.loginSubmitted /\ done.busy
    BY DEF Pages, Statuses
  <2> HIDE DEF done
  <2> QED  BY <2>1, <2>2, Zenon DEF PageAgrees
<1> QED
  BY <1>1, <1>2, <1>3 DEF Results

\* The page that a result leads to shows that it submitted, if it had not before.
LEMMA ResultCompletes ==
  ASSUME NEW p \in Pages, NEW result \in Results, ~p.loginSubmitted,
         submitTelegramAuth(p, result).loginSubmitted
  PROVE  submitTelegramAuth(p, result).status = "completing"
<1>1. CASE result = "cancelled"
  <2>1. submitTelegramAuth(p, result) = Idle("error")
    BY <1>1, FailIsIdle DEF submitTelegramAuth
  <2> QED  BY <2>1 DEF Idle
<1>2. CASE result = "id_token"
  BY <1>2 DEF submitTelegramAuth
<1> QED  BY <1>1, <1>2 DEF Results

\* A page that shows a failure, with its forms unchanged, satisfies the invariant
\* whatever became of the popups.
LEMMA FailedPageInv ==
  ASSUME ~page.loginSubmitted, PageInv, page' = Idle("error"), forms' = forms,
         sdk' \in Scripts, sdk'.waiting <= sdk'.opened,
         sdk'.waiting > 0 => HasAuth'
  PROVE  PageInv'
<1>1. forms' = 0 /\ "error" \in Statuses
  BY DEF PageInv, PageAgrees, Statuses
<1>2. ~page'.loginSubmitted
  BY DEF Idle
<1>3. PageAgrees(page', forms', sdk'.waiting)
  BY <1>1, IdleAgrees
<1> QED  BY <1>2, <1>3 DEF PageInv

\* Every step preserves the invariant.
LEMMA PageStepInv == PageInv /\ [PageNext]_pageVars => PageInv'
<1> SUFFICES ASSUME PageInv, [PageNext]_pageVars PROVE PageInv'
  OBVIOUS
<1>1. /\ page \in Pages /\ forms = IF page.loginSubmitted THEN 1 ELSE 0
      /\ page.loginSubmitted => page.busy
      /\ sdk.waiting > 0 => HasAuth
      /\ page.loginSubmitted => HasAuth \/ HasInit
      /\ page.loginSubmitted => page.status = "completing" \/ ~HasInit
  BY DEF PageInv, PageAgrees
<1>2. /\ sdk.waiting \in Nat /\ sdk.opened \in Nat /\ sdk.waiting <= sdk.opened
      /\ sdk \in Scripts
  BY LoginPageAssumption DEF PageInv, Scripts
<1>3. CASE ClickUnavailable
  <2>1. page' = Idle("error") /\ ~page.loginSubmitted /\ forms' = forms /\ sdk' = sdk
    BY <1>1, <1>3 DEF ClickUnavailable, CanOpen, Pages, Idle
  <2> QED  BY <1>1, <1>2, <2>1, FailedPageInv DEF HasAuth
<1>4. CASE ClickOpens
  <2>1. page' = Waiting /\ ~page.loginSubmitted
    BY <1>1, <1>4, OpeningWaits DEF ClickOpens, CanOpen
  <2>2. /\ sdk.opened + 1 \in 0..MaxPopups /\ sdk.waiting + 1 \in 0..MaxPopups
        /\ sdk.init \in 0..MaxInit /\ HasAuth
    BY <1>2, <1>4, LoginPageAssumption DEF ClickOpens, Scripts
  <2>3. sdk' = [script |-> sdk.script, loaded |-> sdk.loaded, init |-> sdk.init,
                opened |-> sdk.opened + 1, waiting |-> sdk.waiting + 1]
    BY <1>2, <1>4 DEF ClickOpens, Scripts
  <2>4. sdk' \in Scripts
    BY <1>2, <2>2, <2>3, ScriptsStep
  <2>5. forms' = 0 /\ sdk'.waiting > 0 /\ sdk'.waiting <= sdk'.opened /\ HasAuth'
    BY <1>1, <1>2, <1>4, <2>1, <2>2, <2>3 DEF ClickOpens, HasAuth
  <2>6. ~page'.loginSubmitted /\ PageAgrees(page', forms', sdk'.waiting)
    BY <1>1, <2>1, <2>5, OpeningWaits, Zenon DEF PageAgrees
  <2> QED  BY <2>4, <2>5, <2>6 DEF PageInv
<1>5. ASSUME NEW throws \in BOOLEAN, ClickReturns(throws) PROVE PageInv'
  <2>1. ~page.loginSubmitted
    BY <1>5 DEF ClickReturns, CanOpen
  <2>2. Opening(page) \in Pages /\ ~Opening(page).loginSubmitted
    BY <1>1, <2>1, OpeningWaits
  <2>3. /\ sdk' \in Scripts /\ sdk'.waiting = sdk.waiting
        /\ sdk'.opened = sdk.opened + 1 /\ HasAuth'
    BY <1>2, <1>5, LoginPageAssumption, SMT DEF ClickReturns, Scripts, HasAuth
  <2>4. sdk'.waiting <= sdk'.opened
    BY <1>2, <2>3
  <2>5. PICK result \in Results :
          /\ page' = IF throws /\ ~submitTelegramAuth(Opening(page), result).loginSubmitted
                     THEN Fail(submitTelegramAuth(Opening(page), result))
                     ELSE submitTelegramAuth(Opening(page), result)
          /\ forms' = IF Submitted(page, result) THEN forms + 1 ELSE forms
    BY <1>5, Zenon DEF ClickReturns
  <2> DEFINE answered == submitTelegramAuth(Opening(page), result)
  <2>6. PageAgrees(answered, forms', sdk'.waiting)
    <3>1. PageAgrees(answered,
            IF Submitted(Opening(page), result) THEN forms + 1 ELSE forms, sdk'.waiting)
      BY <1>1, <2>1, <2>2, ResultAgrees
    <3>2. Submitted(Opening(page), result) = Submitted(page, result)
      BY <2>1, <2>2 DEF Submitted
    <3> QED  BY <2>5, <3>1, <3>2
  <2>7. CASE page' = answered
    <3>1. page'.loginSubmitted => page'.status = "completing"
      BY <2>2, <2>7, ResultCompletes
    <3> QED  BY <2>3, <2>4, <2>6, <2>7, <3>1 DEF PageInv
  <2>8. CASE ~answered.loginSubmitted /\ page' = Fail(answered)
    <3>1. page' = Idle("error") /\ forms' = 0
      BY <2>6, <2>8, FailIsIdle DEF PageAgrees
    <3>2. forms = 0
      BY <1>1, <2>1
    <3> QED  BY <1>1, <2>1, <2>3, <2>4, <3>1, <3>2, FailedPageInv
  <2> QED  BY <2>5, <2>7, <2>8
<1>6. CASE ClickThrows
  <2>1. ~page.loginSubmitted
    BY <1>6 DEF ClickThrows, CanOpen
  <2>2. Opening(page) \in Pages /\ ~Opening(page).loginSubmitted
    BY <1>1, <2>1, OpeningWaits
  <2>3. page' = Idle("error") /\ forms' = forms
    BY <1>6, <2>2, FailIsIdle DEF ClickThrows
  <2>4. sdk' \in Scripts /\ sdk'.waiting <= sdk'.opened /\ HasAuth'
    <3>1. PICK popup \in {0, 1} :
            sdk' = [sdk EXCEPT !.opened = @ + 1, !.waiting = @ + popup]
      BY <1>6 DEF ClickThrows
    <3>2. /\ sdk.opened + 1 \in 0..MaxPopups /\ sdk.waiting + popup \in 0..MaxPopups
          /\ sdk.init \in 0..MaxInit /\ HasAuth
      BY <1>2, <1>6, LoginPageAssumption DEF ClickThrows, Scripts
    <3>3. sdk' = [script |-> sdk.script, loaded |-> sdk.loaded, init |-> sdk.init,
                  opened |-> sdk.opened + 1, waiting |-> sdk.waiting + popup]
      BY <1>2, <3>1 DEF Scripts
    <3>4. sdk' \in Scripts
      BY <1>2, <3>2, <3>3, ScriptsStep
    <3> QED  BY <1>2, <3>2, <3>3, <3>4 DEF HasAuth
  <2> QED  BY <2>1, <2>3, <2>4, FailedPageInv
<1>7. ASSUME NEW result \in Results, PopupAnswers(result) \/ InitAnswers(result)
      PROVE PageInv'
  <2>1. /\ sdk' \in Scripts /\ sdk'.waiting <= sdk'.opened
        /\ sdk'.waiting <= sdk.waiting /\ sdk'.waiting \in Nat
    BY <1>1, <1>2, <1>7, LoginPageAssumption, SMT DEF PopupAnswers, InitAnswers, Scripts
  <2>2. PageAgrees(page', forms', sdk'.waiting)
    <3>1. Deliver(page, result)
      BY <1>7 DEF PopupAnswers, InitAnswers
    <3>2. PageAgrees(submitTelegramAuth(page, result),
            IF Submitted(page, result) THEN forms + 1 ELSE forms, sdk'.waiting)
      BY <1>1, ResultAgrees
    <3> QED  BY <3>1, <3>2 DEF Deliver
  <2>3. HasAuth' = HasAuth /\ HasInit' = HasInit /\ (HasAuth \/ HasInit)
    BY <1>1, <1>2, <1>7 DEF PopupAnswers, InitAnswers, HasAuth, HasInit, Scripts
  <2>4. page'.loginSubmitted => page'.status = "completing" \/ ~HasInit
    <3>1. page' = submitTelegramAuth(page, result)
      BY <1>7 DEF PopupAnswers, InitAnswers, Deliver
    <3>2. CASE page.loginSubmitted
      BY <1>1, <3>1, <3>2 DEF submitTelegramAuth
    <3>3. CASE ~page.loginSubmitted
      BY <1>1, <3>1, <3>3, ResultCompletes
    <3> QED  BY <3>2, <3>3
  <2> QED  BY <1>1, <1>2, <2>1, <2>2, <2>3, <2>4 DEF PageInv
<1>8. CASE ScriptArrives \/ ScriptError
  <2>1. ~HasAuth /\ ~HasInit /\ ~page.loginSubmitted /\ ~(sdk.waiting > 0)
    BY <1>1, <1>8 DEF ScriptArrives, ScriptError, HasAuth, HasInit
  <2>2. sdk' \in Scripts /\ sdk'.waiting = sdk.waiting /\ sdk'.opened = sdk.opened
    <3>1. CASE ScriptArrives
      BY <1>2, <3>1 DEF ScriptArrives, Scripts
    <3>2. CASE ScriptError
      BY <1>2, <3>2 DEF ScriptError, Scripts
    <3> QED  BY <1>8, <3>1, <3>2
  <2>3. CASE ScriptArrives
    <3>1. page' = page /\ forms' = forms
      BY <2>3 DEF ScriptArrives
    <3>2. PageAgrees(page', forms', sdk'.waiting) /\ sdk'.waiting <= sdk'.opened
      BY <1>2, <2>2, <3>1 DEF PageInv
    <3> QED  BY <2>1, <2>2, <3>1, <3>2 DEF PageInv
  <2>4. CASE ScriptError
    <3>1. forms' = forms /\ page' = Fail(page)
      BY <2>1, <2>4 DEF ScriptError
    <3> QED  BY <1>1, <1>2, <2>1, <2>2, <3>1, FailIsIdle, FailedPageInv
  <2> QED  BY <1>8, <2>3, <2>4
<1>9. CASE Load
  <2>1. /\ sdk' \in Scripts /\ sdk'.waiting = sdk.waiting /\ sdk'.opened = sdk.opened
        /\ HasAuth' = HasAuth /\ HasInit' = HasInit /\ forms' = forms
    BY <1>2, <1>9 DEF Load, Scripts, HasAuth, HasInit
  <2>2. CASE HasInit
    <3>1. page' = page
      BY <1>9, <2>2 DEF Load
    <3>2. PageAgrees(page', forms', sdk'.waiting)
      BY <2>1, <3>1 DEF PageInv
    <3> QED  BY <1>1, <1>2, <2>1, <3>1, <3>2 DEF PageInv
  <2>3. CASE ~HasInit
    <3>1. page' = [page EXCEPT !.status = "error"]
      BY <1>9, <2>3 DEF Load
    <3>2. /\ page' \in Pages /\ page'.loginSubmitted = page.loginSubmitted
          /\ page'.busy = page.busy /\ page'.loginPending = page.loginPending
      BY <1>1, <3>1 DEF Pages, Statuses
    <3>3. PageAgrees(page', forms', sdk'.waiting)
      BY <2>1, <3>2, Zenon DEF PageInv, PageAgrees
    <3> QED  BY <1>1, <1>2, <2>1, <2>3, <3>2, <3>3 DEF PageInv
  <2> QED  BY <2>2, <2>3
<1>10. CASE UNCHANGED pageVars
  BY <1>10 DEF pageVars, PageInv, PageAgrees, HasAuth, HasInit
<1> QED
  BY <1>3, <1>4, <1>5, <1>6, <1>7, <1>8, <1>9, <1>10 DEF PageNext

\* The invariant holds throughout.
LEMMA AlwaysPageInv == PageSpec => []PageInv
BY PageInitInv, PageStepInv, PTL DEF PageSpec

\* The page's variables have their types, for any number of popups and results.
THEOREM PageTypes == PageSpec => []PageTypeOK
<1>1. PageInv => PageTypeOK
  <2>1. ASSUME PageInv PROVE forms \in {0, 1}
    BY <2>1 DEF PageInv, PageAgrees
  <2> QED  BY <2>1 DEF PageInv, PageAgrees, Pages, Scripts, PageTypeOK
<1> QED  BY <1>1, AlwaysPageInv, PTL

\* One form at most is submitted, and nothing is reported after it, for any number
\* of popups and results through init's callback.
THEOREM SubmittedOnceHolds == PageSpec => []SubmittedOnce
<1>1. PageInv => SubmittedOnce  BY DEF PageInv, PageAgrees, SubmittedOnce
<1> QED  BY <1>1, AlwaysPageInv, PTL

\* Until the form is submitted, a page that keeps the user waiting has a popup that
\* can still answer.
THEOREM NeverLockedOutHolds == PageSpec => []NeverLockedOut
<1>1. PageInv => NeverLockedOut  BY DEF PageInv, PageAgrees, NeverLockedOut
<1> QED  BY <1>1, AlwaysPageInv, PTL

-----------------------------------------------------------------------------
(* The registration form.                                                  *)

\* The recursive definition of the elements around a node is one: it goes to
\* smaller nodes only.
LEMMA AncestorsDefinition ==
  ASSUME IsDocument(doc)
  PROVE  Ancestors = [n \in Nodes |->
           IF n = 1 THEN {} ELSE {doc[n].parent} \cup Ancestors[doc[n].parent]]
<1> DEFINE Defines(g, k) ==
             g = [n \in 1..k |->
                    IF n = 1 THEN {} ELSE {doc[n].parent} \cup g[doc[n].parent]]
           S == {k \in Nat : k <= Len(doc) => \E g : Defines(g, k)}
<1>1. Nodes = 1..Len(doc) /\ Len(doc) \in Nat
  BY DEF IsDocument, Nodes
<1>2. 0 \in S
  <2> DEFINE g == [n \in 1..0 |-> {}]
  <2>1. Defines(g, 0)
    OBVIOUS
  <2> QED  BY <2>1
<1>3. ASSUME NEW k \in Nat, k \in S PROVE k + 1 \in S
  <2> SUFFICES ASSUME k + 1 <= Len(doc) PROVE \E h : Defines(h, k + 1)
    OBVIOUS
  <2>1. PICK g : Defines(g, k)
    BY <1>1, <1>3
  <2> DEFINE p == doc[k + 1].parent
             h == [n \in 1..(k + 1) |-> IF n = k + 1
                     THEN IF n = 1 THEN {} ELSE {p} \cup g[p] ELSE g[n]]
  <2>2. \A n \in 1..(k + 1) : n # 1 => doc[n].parent \in 1..(n - 1)
    BY <1>1 DEF IsDocument
  <2>3. ASSUME NEW n \in 1..(k + 1)
        PROVE  h[n] = IF n = 1 THEN {} ELSE {doc[n].parent} \cup h[doc[n].parent]
    <3>1. CASE n = 1 /\ k + 1 = 1
      BY <3>1
    <3>2. CASE n # 1
      <4>1. doc[n].parent \in 1..(n - 1) /\ doc[n].parent \in 1..k
        BY <2>2, <3>2
      <4>2. h[doc[n].parent] = g[doc[n].parent]
        BY <4>1
      <4>3. n \in 1..k => g[n] = {doc[n].parent} \cup g[doc[n].parent]
        BY <2>1, <3>2
      <4>4. h[n] = IF n = k + 1 THEN {p} \cup g[p] ELSE g[n]
        BY <3>2
      <4> HIDE DEF h
      <4> QED  BY <3>2, <4>2, <4>3, <4>4
    <3>3. CASE n = 1 /\ k + 1 # 1
      BY <2>1, <3>3
    <3> QED  BY <3>1, <3>2, <3>3
  <2>4. h = [n \in 1..(k + 1) |-> h[n]]
    OBVIOUS
  <2>5. Defines(h, k + 1)
    <3> HIDE DEF h
    <3> QED  BY <2>3, <2>4
  <2> QED  BY <2>5
<1>4. \A k \in Nat : k \in S
  <2> HIDE DEF S
  <2> QED  BY <1>2, <1>3, SetInduction
<1>5. \E g : Defines(g, Len(doc))
  <2>1. Len(doc) \in S
    BY <1>1, <1>4
  <2> HIDE DEF Defines
  <2> QED  BY <1>1, <2>1
<1> QED  BY <1>1, <1>5 DEF Ancestors

\* The elements around a node are nodes.
LEMMA AncestorsAreNodes ==
  ASSUME IsDocument(doc)
  PROVE  \A n \in Nodes : Ancestors[n] \subseteq Nodes
<1> DEFINE S == {k \in Nat : \A n \in Nodes : n <= k => Ancestors[n] \subseteq Nodes}
<1>1. Nodes = 1..Len(doc) /\ Len(doc) \in Nat
  BY DEF IsDocument, Nodes
<1>2. \A n \in Nodes : n # 1 => doc[n].parent \in Nodes /\ doc[n].parent < n
  BY <1>1 DEF IsDocument, Nodes
<1>3. \A n \in Nodes : Ancestors[n] =
        IF n = 1 THEN {} ELSE {doc[n].parent} \cup Ancestors[doc[n].parent]
  BY AncestorsDefinition, Zenon
<1>4. 0 \in S
  BY <1>1
<1>5. ASSUME NEW k \in Nat, k \in S PROVE k + 1 \in S
  <2>1. ASSUME NEW n \in Nodes, n = k + 1 PROVE Ancestors[n] \subseteq Nodes
    <3>1. CASE n = 1
      BY <1>3, <3>1
    <3>2. CASE n # 1
      <4>1. doc[n].parent \in Nodes /\ doc[n].parent <= k
        BY <1>1, <1>2, <2>1, <3>2
      <4>2. Ancestors[doc[n].parent] \subseteq Nodes
        BY <1>5, <4>1
      <4>3. Ancestors[n] = {doc[n].parent} \cup Ancestors[doc[n].parent]
        BY <1>3, <3>2
      <4> QED  BY <4>1, <4>2, <4>3
    <3> QED  BY <3>1, <3>2
  <2>2. \A n \in Nodes : n <= k + 1 => n <= k \/ n = k + 1
    BY <1>1
  <2> QED  BY <1>5, <2>1, <2>2
<1>6. \A k \in Nat : k \in S
  <2> HIDE DEF S
  <2> QED  BY <1>4, <1>5, SetInduction
<1> QED  BY <1>1, <1>6

\* An element replaced by one with the same place leaves a document.
LEMMA ReplaceElement ==
  ASSUME NEW d, IsDocument(d), NEW n \in DOMAIN d, NEW e \in Elements,
         n # 1 => e.parent \in 1..(n - 1)
  PROVE  IsDocument([d EXCEPT ![n] = e])
<1> DEFINE c == [d EXCEPT ![n] = e]
<1>1. d \in Seq(Elements) /\ DOMAIN d = 1..Len(d) /\ n \in 1..Len(d)
  BY DEF IsDocument
<1>2. c \in Seq(Elements) /\ DOMAIN c = DOMAIN d
  BY <1>1, ExceptSeq
<1>3. \A j \in DOMAIN d : c[j] = IF j = n THEN e ELSE d[j]
  OBVIOUS
<1> HIDE DEF c
<1>4. \A j \in DOMAIN c \ {1} : c[j].parent \in 1..(j - 1)
  BY <1>2, <1>3 DEF IsDocument
<1> QED  BY <1>2, <1>4 DEF IsDocument, c

\* A new element at the end, inside any other, leaves a document.
LEMMA AppendElement ==
  ASSUME NEW d, IsDocument(d), NEW e \in Elements, e.parent \in DOMAIN d
  PROVE  IsDocument(Append(d, e))
<1> DEFINE c == Append(d, e)
<1>1. d \in Seq(Elements) /\ DOMAIN d = 1..Len(d) /\ 1 \in 1..Len(d) /\ Len(d) \in Nat
  BY DEF IsDocument
<1>2. /\ c \in Seq(Elements) /\ Len(c) = Len(d) + 1
      /\ \A j \in 1..Len(d) : c[j] = d[j]
      /\ c[Len(d) + 1] = e
  BY <1>1, AppendProperties
<1> HIDE DEF c
<1>3. DOMAIN c = 1..(Len(d) + 1)
  BY <1>2
<1>4. ASSUME NEW j \in DOMAIN c \ {1} PROVE c[j].parent \in 1..(j - 1)
  <2>1. CASE j \in 1..Len(d)
    BY <1>1, <1>2, <2>1 DEF IsDocument
  <2>2. CASE j = Len(d) + 1
    BY <1>1, <1>2, <2>2
  <2> QED  BY <1>1, <1>3, <2>1, <2>2
<1> QED  BY <1>1, <1>2, <1>3, <1>4 DEF IsDocument, c

\* The initial document has the required fields inside the form.
LEMMA OrdinaryIsDocument == IsDocument(OrdinaryDoc)
<1> DEFINE field(f) == [Element("input", 2) EXCEPT
                     !.name = f,
                     !.type = IF f \in HiddenFields THEN "hidden" ELSE "text",
                     !.attrs = IF f \in HiddenFields THEN {"value"} ELSE {"value", "required"}]
           n == Cardinality(Fields)
           order == CHOOSE s \in [1..n -> Fields] : \A f \in Fields : \E i \in DOMAIN s : s[i] = f
           form == [Element("form", 1) EXCEPT !.action = "registration", !.method = "post"]
           button == [Element("button", 2) EXCEPT !.type = "submit", !.action = "registration"]
           front == <<Element("div", 1), form, button>>
           back == [i \in DOMAIN order |-> field(order[i])]
<1>1. IsFiniteSet(Fields)
  BY RegistrationFormAssumption DEF Fields
<1>2. n \in Nat /\ order \in [1..n -> Fields]
  <2>1. PICK m \in Nat : ExistsBijection(1..m, Fields)
    BY <1>1, FS_NatBijection
  <2>2. n = m
    BY <2>1, FS_CountingElements
  <2>3. PICK s : s \in Bijection(1..m, Fields)
    BY <2>1 DEF ExistsBijection
  <2>4. s \in [1..n -> Fields] /\ \A f \in Fields : \E i \in DOMAIN s : s[i] = f
    BY <2>2, <2>3 DEF Bijection, Surjection
  <2> QED  BY <2>2, <2>4, Zenon
<1>3. \A tag \in Tags, parent \in Nat : Element(tag, parent) \in Elements
  BY DEF Element, Elements, Types, Actions, Methods
<1>4. ASSUME NEW f \in Fields PROVE field(f) \in Elements /\ field(f).parent = 2
  BY DEF Element, Elements, Tags, Types, Actions, Methods, Attributes
<1>5. form \in Elements /\ form.parent = 1 /\ button \in Elements /\ button.parent = 2
  BY DEF Element, Elements, Tags, Types, Actions, Methods
<1>6. Element("div", 1) \in Elements
  BY <1>3 DEF Tags
<1> HIDE DEF form, button, order, n
<1>7. front \in Seq(Elements) /\ Len(front) = 3
  BY <1>5, <1>6
<1>8. back \in Seq(Elements) /\ Len(back) = n /\ \A i \in 1..n : back[i].parent = 2
  <2>1. DOMAIN order = 1..n /\ \A i \in 1..n : order[i] \in Fields
    BY <1>2
  <2>2. \A i \in 1..n : back[i] \in Elements /\ back[i].parent = 2
    <3> HIDE DEF field
    <3> QED  BY <1>4, <2>1
  <2>3. back = [i \in 1..n |-> back[i]]
    BY <2>1
  <2> HIDE DEF back
  <2>4. back \in [1..n -> Elements]
    BY <2>2, <2>3
  <2>5. back \in Seq(Elements)
    BY <1>2, <2>4, SeqDef
  <2>6. Len(back) = n
    BY <1>2, <2>4, <2>5
  <2> QED  BY <2>2, <2>5, <2>6
<1>9. OrdinaryDoc = front \o back
  BY DEF OrdinaryDoc, front, back, order, form, button, n
<1>10. /\ OrdinaryDoc \in Seq(Elements) /\ Len(OrdinaryDoc) = 3 + n
       /\ \A i \in 1..(3 + n) : OrdinaryDoc[i] = IF i <= 3 THEN front[i] ELSE back[i - 3]
  <2> HIDE DEF front, back
  <2>1. /\ front \o back \in Seq(Elements)
        /\ Len(front \o back) = Len(front) + Len(back)
        /\ \A i \in 1..(Len(front) + Len(back)) :
             (front \o back)[i] = IF i <= Len(front) THEN front[i] ELSE back[i - Len(front)]
    BY <1>7, <1>8, ConcatProperties, Zenon
  <2> QED  BY <1>7, <1>8, <1>9, <2>1
<1>11. front[2].parent = 1 /\ front[3].parent = 2
  BY <1>5
<1> HIDE DEF front, back
<1>12. ASSUME NEW i \in 2..(3 + n) PROVE OrdinaryDoc[i].parent \in 1..(i - 1)
  <2>1. CASE i = 2
    BY <1>2, <1>10, <1>11, <2>1
  <2>2. CASE i = 3
    BY <1>2, <1>10, <1>11, <2>2
  <2>3. CASE i > 3
    <3>1. i - 3 \in 1..n /\ OrdinaryDoc[i] = back[i - 3]
      BY <1>2, <1>10, <2>3
    <3> QED  BY <1>2, <1>8, <2>3, <3>1
  <2> QED  BY <1>2, <2>1, <2>2, <2>3
<1>13. DOMAIN OrdinaryDoc = 1..(3 + n)
  BY <1>10
<1> QED  BY <1>2, <1>10, <1>12, <1>13 DEF IsDocument

Exchanges == [htmlOK : BOOLEAN, whole : BOOLEAN, secure : BOOLEAN,
              host : Origins, public : Origins, cookies : 0..2]

\* The document stays one, whatever is added, moved or changed.
LEMMA FormTypesStep == FormTypeOK /\ [FormNext]_formVars => FormTypeOK'
<1> SUFFICES ASSUME FormTypeOK, [FormNext]_formVars PROVE FormTypeOK'
  OBVIOUS
<1>1. IsDocument(doc) /\ exchange \in Exchanges /\ edits \in 0..MaxEdits
  BY DEF FormTypeOK, Exchanges
<1>2. /\ doc \in Seq(Elements) /\ DOMAIN doc = 1..Len(doc) /\ Nodes = DOMAIN doc
      /\ \A n \in Nodes : doc[n] \in Elements
      /\ \A n \in Nodes \ {1} : doc[n].parent \in 1..(n - 1)
  BY <1>1 DEF IsDocument, Nodes
<1>3. CASE UNCHANGED formVars
  BY <1>1, <1>3 DEF formVars, FormTypeOK, Exchanges
<1>4. CASE FormNext
  <2>1. edits' \in 0..MaxEdits
    BY <1>1, <1>4, RegistrationFormAssumption DEF FormNext
  <2>2. ASSUME NEW tag \in Tags, NEW parent \in Nodes, AddElement(tag, parent)
        PROVE  IsDocument(doc') /\ exchange' \in Exchanges
    <3>1. Element(tag, parent) \in Elements /\ Element(tag, parent).parent = parent
      BY <1>2 DEF Element, Elements, Types, Actions, Methods
    <3> QED  BY <1>1, <1>2, <2>2, <3>1, AppendElement DEF AddElement
  <2>3. ASSUME NEW n \in Nodes \ {1}, NEW parent \in Nodes, MoveInto(n, parent)
        PROVE  IsDocument(doc') /\ exchange' \in Exchanges
    <3> DEFINE e == [doc[n] EXCEPT !.parent = parent]
    <3>1. e \in Elements /\ e.parent = parent /\ parent \in 1..(n - 1)
      <4>1. doc[n] \in Elements /\ n \in 1..Len(doc) /\ parent \in 1..Len(doc)
        BY <1>2
      <4>2. parent < n /\ parent \in Nat
        BY <2>3, <4>1 DEF MoveInto
      <4>3. e \in Elements
        BY <4>1, <4>2 DEF Elements
      <4>4. e.parent = parent
        BY <4>1, <4>2 DEF Elements
      <4> QED  BY <4>1, <4>2, <4>3, <4>4
    <3>2. doc' = [doc EXCEPT ![n] = e]
      BY <2>3 DEF MoveInto
    <3> HIDE DEF e
    <3>3. IsDocument(doc')
      BY <1>1, <1>2, <3>1, <3>2, ReplaceElement
    <3> QED  BY <1>1, <2>3, <3>3 DEF MoveInto
  <2>4. ASSUME NEW n \in Nodes \ {1}, ChangeElement(n)
        PROVE  IsDocument(doc') /\ exchange' \in Exchanges
    <3>1. PICK e \in Elements : doc' = [doc EXCEPT ![n] = e] /\ e.parent = doc[n].parent
      <4>1. CASE \E a \in Attributes :
                   doc' = [doc EXCEPT ![n].attrs = (@ \ {a}) \cup ({a} \ @)]
        <5>1. PICK a \in Attributes :
                doc' = [doc EXCEPT ![n].attrs = (@ \ {a}) \cup ({a} \ @)]
          BY <4>1
        <5> DEFINE attrs == (doc[n].attrs \ {a}) \cup ({a} \ doc[n].attrs)
        <5>2. [doc[n] EXCEPT !.attrs = attrs] \in Elements
          BY <1>2 DEF Elements
        <5>3. [doc[n] EXCEPT !.attrs = attrs].parent = doc[n].parent
          BY <1>2 DEF Elements
        <5>4. doc' = [doc EXCEPT ![n] = [doc[n] EXCEPT !.attrs = attrs]]
          BY <5>1
        <5> QED  BY <5>2, <5>3, <5>4, Zenon
      <4>2. ASSUME NEW a \in Actions, doc' = [doc EXCEPT ![n].action = a]
            PROVE  \E e \in Elements : doc' = [doc EXCEPT ![n] = e] /\ e.parent = doc[n].parent
        <5>1. [doc[n] EXCEPT !.action = a] \in Elements
          BY <1>2 DEF Elements
        <5>2. [doc[n] EXCEPT !.action = a].parent = doc[n].parent
          BY <1>2 DEF Elements
        <5> QED  BY <4>2, <5>1, <5>2, Zenon
      <4>3. ASSUME NEW m \in Methods, doc' = [doc EXCEPT ![n].method = m]
            PROVE  \E e \in Elements : doc' = [doc EXCEPT ![n] = e] /\ e.parent = doc[n].parent
        <5>1. [doc[n] EXCEPT !.method = m] \in Elements
          BY <1>2 DEF Elements
        <5>2. [doc[n] EXCEPT !.method = m].parent = doc[n].parent
          BY <1>2 DEF Elements
        <5> QED  BY <4>3, <5>1, <5>2, Zenon
      <4>4. ASSUME NEW f \in Fields \cup {OtherName}, doc' = [doc EXCEPT ![n].name = f]
            PROVE  \E e \in Elements : doc' = [doc EXCEPT ![n] = e] /\ e.parent = doc[n].parent
        <5>1. [doc[n] EXCEPT !.name = f] \in Elements
          BY <1>2 DEF Elements
        <5>2. [doc[n] EXCEPT !.name = f].parent = doc[n].parent
          BY <1>2 DEF Elements
        <5> QED  BY <4>4, <5>1, <5>2, Zenon
      <4>5. ASSUME NEW t \in Types, doc' = [doc EXCEPT ![n].type = t]
            PROVE  \E e \in Elements : doc' = [doc EXCEPT ![n] = e] /\ e.parent = doc[n].parent
        <5>1. [doc[n] EXCEPT !.type = t] \in Elements
          BY <1>2 DEF Elements
        <5>2. [doc[n] EXCEPT !.type = t].parent = doc[n].parent
          BY <1>2 DEF Elements
        <5> QED  BY <4>5, <5>1, <5>2, Zenon
      <4> QED  BY <2>4, <4>1, <4>2, <4>3, <4>4, <4>5 DEF ChangeElement
    <3>2. IsDocument(doc')
      BY <1>1, <1>2, <3>1, ReplaceElement
    <3> QED  BY <1>1, <2>4, <3>2 DEF ChangeElement
  <2>5. ASSUME ChangeExchange PROVE IsDocument(doc') /\ exchange' \in Exchanges
    BY <1>1, <2>5 DEF ChangeExchange, Exchanges
  <2> QED
    BY <1>4, <2>1, <2>2, <2>3, <2>4, <2>5, Zenon DEF FormNext, FormTypeOK, Exchanges
<1> QED  BY <1>3, <1>4

\* The variables have their types, and the document is a tree, for any number of edits.
THEOREM FormTypes == FormSpec => []FormTypeOK
<1>1. FormInit => FormTypeOK
  BY OrdinaryIsDocument, RegistrationFormAssumption
  DEF FormInit, FormTypeOK, OrdinaryExchange, Origins, Zitadel
<1> QED  BY <1>1, FormTypesStep, PTL DEF FormSpec

\* The inputs that a submission of a relayed form carries for a field are those the
\* recogniser has found.
LEMMA ControlsAreFound ==
  ASSUME IsDocument(doc), FormRelayed, NEW form \in Forms,
         NEW s \in Submitters(form) \cup {form}, NEW f \in Fields
  PROVE  {n \in Submission(form, s).controls \cap Inputs : doc[n].name = f}
           = {n \in Within(form) \cap Inputs : doc[n].name = f}
<1> DEFINE found == {n \in Within(form) \cap Inputs : doc[n].name = f}
           controls == {n \in Inputs : OwnedBy(form, n) /\ ~Disabled(n) /\ doc[n].type # "submit"}
<1>1. Submission(form, s).controls = controls \cup ({s} \ {form})
  BY DEF Submission
<1>2. \A n \in Nodes : ~UnsafeOverride(n)
  BY DEF FormRelayed, isZitadelRegistrationForm
<1>3. isZitadelRegistrationFormNode(form)
  BY DEF FormRelayed, isZitadelRegistrationForm, hasZitadelRegistrationForm
<1>4. \A n \in found : FieldValid(n)
  BY <1>3 DEF isZitadelRegistrationFormNode
<1>5. controls \subseteq Within(form) /\ {s} \ {form} \subseteq Within(form)
  BY DEF Within, Submitters, OwnedBy, Inputs
<1>6. ASSUME NEW n \in found PROVE n \in controls
  <2>1. n \in Inputs /\ n \in Nodes /\ form \in Ancestors[n]
    BY DEF Within, Inputs
  <2>2. OwnedBy(form, n)
    BY <1>2, <2>1 DEF OwnedBy, UnsafeOverride
  <2>3. doc[n].type # "submit" /\ ~Has(n, "disabled")
    BY <1>4 DEF FieldValid
  <2>4. ASSUME NEW a \in Ancestors[n] PROVE ~(doc[a].tag = "fieldset" /\ Has(a, "disabled"))
    <3>1. a \in Nodes
      BY <2>1, AncestorsAreNodes
    <3> QED  BY <1>2, <3>1 DEF UnsafeOverride
  <2>5. ~Disabled(n)
    BY <2>3, <2>4 DEF Disabled
  <2> QED  BY <2>1, <2>2, <2>3, <2>5
<1> HIDE DEF controls
<1> QED  BY <1>1, <1>5, <1>6

\* However a relayed form is submitted, whatever the document, it reaches ZITADEL as
\* its own form would.
THEOREM RelayedFormReachesZitadelHolds == FormSpec => []RelayedFormReachesZitadel
<1>1. FormTypeOK => RelayedFormReachesZitadel
  <2> SUFFICES ASSUME FormTypeOK, FormRelayed, NEW t \in Submissions
               PROVE
                 /\ t.origin = Zitadel /\ t.action = "registration" /\ t.method = "post"
                 /\ t.cookie
                 /\ \A f \in Fields :
                      Cardinality({n \in t.controls \cap Inputs : doc[n].name = f}) = 1
                 /\ \A n \in t.controls \cap Inputs : doc[n].name \in HiddenFields =>
                      doc[n].type = "hidden" /\ Has(n, "value")
    BY Zenon DEF RelayedFormReachesZitadel
  <2>a. PICK form \in Forms : t \in {Submission(form, x) : x \in Submitters(form) \cup {form}}
    BY DEF Submissions
  <2>b. PICK b \in Submitters(form) \cup {form} : t = Submission(form, b)
    BY <2>a
  <2> DEFINE s == Submission(form, b)
  <2>1. IsDocument(doc)
    BY DEF FormTypeOK
  <2>2. /\ \A n \in Nodes : ~UnsafeOverride(n) /\ doc[n].tag # "base"
        /\ isZitadelRegistrationFormNode(form)
    BY DEF FormRelayed, isZitadelRegistrationForm, hasZitadelRegistrationForm
  <2>3. BaseOrigin = Zitadel /\ exchange.host = Zitadel /\ exchange.cookies = 1
    BY <2>2 DEF BaseOrigin, FormRelayed, registrationOriginAllowed, forwardUserAgent
  <2>4. s.origin = Zitadel /\ s.cookie
    BY <2>3 DEF Submission
  <2>5. doc[form].action = "registration" /\ doc[form].method = "post"
    BY <2>2 DEF isZitadelRegistrationFormNode
  <2>6. b # form => b \in Within(form) /\ b \in Nodes /\ doc[b].tag # "form"
    BY DEF Submitters, OwnedBy, Within
  <2>7. doc[b].action \in {"none", "registration"} /\ doc[b].method \in {"none", "post"}
    BY <2>2, <2>5, <2>6 DEF isZitadelRegistrationFormNode, UnsafeOverride
  <2>8. s.action = "registration" /\ s.method = "post"
    BY <2>5, <2>7 DEF Submission
  <2>9. \A f \in Fields : Cardinality({n \in s.controls \cap Inputs : doc[n].name = f}) = 1
    BY <2>1, <2>2, ControlsAreFound DEF isZitadelRegistrationFormNode
  <2>10. ASSUME NEW n \in s.controls \cap Inputs, doc[n].name \in HiddenFields
         PROVE  doc[n].type = "hidden" /\ Has(n, "value")
    <3> DEFINE f == doc[n].name
    <3>1. f \in Fields
      BY <2>10 DEF Fields
    <3>2. n \in {m \in s.controls \cap Inputs : doc[m].name = f}
      OBVIOUS
    <3>3. n \in {m \in Within(form) \cap Inputs : doc[m].name = f}
      <4> HIDE DEF f, s
      <4> QED  BY <2>1, <3>1, <3>2, ControlsAreFound DEF s
    <3>4. FieldValid(n)
      BY <2>2, <3>1, <3>3 DEF isZitadelRegistrationFormNode
    <3> QED  BY <2>10, <3>4 DEF FieldValid
  <2>11. t = s
    BY <2>b
  <2> HIDE DEF s
  <2> QED  BY <2>4, <2>8, <2>9, <2>10, <2>11
<1> QED  BY <1>1, FormTypes, PTL

\* Each editable field of a relayed form can be filled in by the user.
THEOREM RelayedFormCanBeCompletedHolds == FormSpec => []RelayedFormCanBeCompleted
<1>1. FormTypeOK => RelayedFormCanBeCompleted
  <2> SUFFICES ASSUME FormTypeOK, FormRelayed, NEW f \in EditableFields
               PROVE  \E n \in Inputs :
                 /\ doc[n].name = f /\ doc[n].type = "text"
                 /\ \E form \in Forms : OwnedBy(form, n)
                 /\ ~Disabled(n) /\ ~Has(n, "readonly") /\ ~Has(n, "hidden")
    BY DEF RelayedFormCanBeCompleted
  <2>1. IsDocument(doc) /\ f \in Fields /\ f \notin HiddenFields
    BY RegistrationFormAssumption DEF FormTypeOK, Fields
  <2>2. PICK form \in Forms : isZitadelRegistrationFormNode(form)
    <3>1. Cardinality(Forms) = 1
      BY DEF FormRelayed, isZitadelRegistrationForm, hasZitadelRegistrationForm
    <3>2. Forms # {}
      BY <3>1, FS_EmptySet
    <3> QED
      BY <3>2 DEF FormRelayed, isZitadelRegistrationForm, hasZitadelRegistrationForm
  <2> DEFINE found == {n \in Within(form) \cap Inputs : doc[n].name = f}
             controls == Submission(form, form).controls
  <2>3. Cardinality(found) = 1 /\ \A n \in found : FieldValid(n)
    BY <2>1, <2>2 DEF isZitadelRegistrationFormNode
  <2>4. PICK n \in found : TRUE
    <3>1. found # {}
      BY <2>3, FS_EmptySet
    <3> QED  BY <3>1
  <2>5. n \in controls
    BY <2>1, <2>4, ControlsAreFound
  <2>6. OwnedBy(form, n) /\ ~Disabled(n)
    BY <2>5 DEF Submission
  <2>7. n \in Inputs /\ n \in Nodes /\ doc[n].tag = "input" /\ doc[n].name = f
    BY <2>4 DEF Inputs
  <2>8. ~Has(n, "hidden")
    BY <2>7 DEF FormRelayed, isZitadelRegistrationForm, UnsafeOverride
  <2>9. doc[n].type = "text" /\ ~Has(n, "readonly")
    BY <2>1, <2>3, <2>4, <2>7 DEF FieldValid
  <2> QED  BY <2>2, <2>6, <2>7, <2>8, <2>9
<1> QED  BY <1>1, FormTypes, PTL

-----------------------------------------------------------------------------
(* Requests.                                                               *)

\* The inductive invariant: what is in force is what the file of the operator
\* comes to, and the requests are ones that can be made.
RequestsInv ==
  /\ config = Configured(raw)
  /\ login \in [path : Seq(Words), query : PossibleQueries, journey : PossibleJourneys]
  /\ callback \in [host : {"iam", "other"}, cookies : SUBSET {"default", "app"}, journey : PossibleJourneys]

\* A sequence with one element less.
LEMMA RemoveElement ==
  ASSUME NEW S, NEW s \in Seq(S), NEW i \in DOMAIN s
  PROVE  RemoveAt(s, i) \in Seq(S)
<1>1. DOMAIN s = 1..Len(s) /\ Len(s) \in Nat
  OBVIOUS
<1>2. SubSeq(s, 1, i - 1) \in Seq(S)
  BY <1>1, SubSeqProperties
<1>3. SubSeq(s, i + 1, Len(s)) \in Seq(S)
  BY <1>1, SubSeqProperties
<1> QED  BY <1>2, <1>3 DEF RemoveAt

\* A changed journey is one that can be made.
LEMMA JourneysArePossible ==
  ASSUME NEW j \in PossibleJourneys, NEW k \in Journeys(j)
  PROVE  k \in PossibleJourneys
<1>1. \A h \in Seq(PossibleHops) : [j EXCEPT !.hops = h] \in PossibleJourneys
  BY DEF PossibleJourneys
<1>2. j.forged \in PossibleHeaders /\ j.hops \in Seq(PossibleHops)
  BY DEF PossibleJourneys
<1>3. \A h \in PossibleHeaders : [j EXCEPT !.forged = h] \in PossibleJourneys
  BY DEF PossibleJourneys
<1>4. ASSUME NEW f \in Forgeries
      PROVE  /\ [j EXCEPT !.forged.for = f.for] \in PossibleJourneys
             /\ [j EXCEPT !.forged.proto = f.proto] \in PossibleJourneys
             /\ [j EXCEPT !.forged.forwarded = f.forwarded] \in PossibleJourneys
  <2>1. f \in PossibleHeaders
    BY RequestsAssumption
  <2>2. [j.forged EXCEPT !.for = f.for] \in PossibleHeaders
    BY <1>2, <2>1 DEF PossibleHeaders
  <2>3. [j.forged EXCEPT !.proto = f.proto] \in PossibleHeaders
    BY <1>2, <2>1 DEF PossibleHeaders
  <2>4. [j.forged EXCEPT !.forwarded = f.forwarded] \in PossibleHeaders
    BY <1>2, <2>1 DEF PossibleHeaders
  <2> QED  BY <1>3, <2>2, <2>3, <2>4
<1>5. ASSUME NEW hop \in Hops
      PROVE  /\ [j EXCEPT !.hops = <<hop>> \o @] \in PossibleJourneys
             /\ [j EXCEPT !.hops = Append(@, hop)] \in PossibleJourneys
  <2>1. hop \in PossibleHops
    BY RequestsAssumption
  <2>2. <<hop>> \o j.hops \in Seq(PossibleHops) /\ Append(j.hops, hop) \in Seq(PossibleHops)
    BY <1>2, <2>1
  <2> QED  BY <1>1, <2>2
<1>6. ASSUME NEW i \in DOMAIN j.hops, NEW m \in HeaderModes, NEW s \in {"http", "https"}
      PROVE  /\ [j EXCEPT !.hops = RemoveAt(@, i)] \in PossibleJourneys
             /\ [j EXCEPT !.hops[i].scheme = s] \in PossibleJourneys
             /\ [j EXCEPT !.hops[i].for = m] \in PossibleJourneys
             /\ [j EXCEPT !.hops[i].proto = m] \in PossibleJourneys
             /\ [j EXCEPT !.hops[i].forwarded = m] \in PossibleJourneys
  <2>1. RemoveAt(j.hops, i) \in Seq(PossibleHops)
    BY <1>2, RemoveElement
  <2>2. j.hops[i] \in PossibleHops
    BY <1>2
  <2>3. \A h \in PossibleHops : [j.hops EXCEPT ![i] = h] \in Seq(PossibleHops)
    BY <1>2
  <2>4. [j.hops[i] EXCEPT !.scheme = s] \in PossibleHops
    BY <2>2 DEF PossibleHops
  <2>5. [j.hops[i] EXCEPT !.for = m] \in PossibleHops
    BY <2>2 DEF PossibleHops
  <2>6. [j.hops[i] EXCEPT !.proto = m] \in PossibleHops
    BY <2>2 DEF PossibleHops
  <2>7. [j.hops[i] EXCEPT !.forwarded = m] \in PossibleHops
    BY <2>2 DEF PossibleHops
  <2> QED  BY <1>1, <2>1, <2>3, <2>4, <2>5, <2>6, <2>7
<1> DEFINE Around(i) ==
             {[j EXCEPT !.hops = RemoveAt(@, i)]}
               \cup {[j EXCEPT !.hops[i].scheme = s] : s \in {"http", "https"}}
               \cup {[j EXCEPT !.hops[i].for = m] : m \in {"append", "set", "pass"}}
               \cup {[j EXCEPT !.hops[i].proto = m] : m \in {"append", "set", "pass", "drop"}}
               \cup {[j EXCEPT !.hops[i].forwarded = m] : m \in {"append", "set", "pass", "drop"}}
<1>7. \/ k \in {[j EXCEPT !.forged.for = f.for] : f \in Forgeries}
      \/ k \in {[j EXCEPT !.forged.proto = f.proto] : f \in Forgeries}
      \/ k \in {[j EXCEPT !.forged.forwarded = f.forwarded] : f \in Forgeries}
      \/ k \in {[j EXCEPT !.hops = <<hop>> \o @] : hop \in Hops}
      \/ k \in {[j EXCEPT !.hops = Append(@, hop)] : hop \in Hops}
      \/ k \in UNION {Around(i) : i \in DOMAIN j.hops}
  BY Zenon DEF Journeys
<1>8. CASE k \in UNION {Around(i) : i \in DOMAIN j.hops}
  <2>1. PICK i \in DOMAIN j.hops : k \in Around(i)
    BY <1>8
  <2>2. \/ k = [j EXCEPT !.hops = RemoveAt(@, i)]
        \/ \E s \in {"http", "https"} : k = [j EXCEPT !.hops[i].scheme = s]
        \/ \E m \in HeaderModes : k = [j EXCEPT !.hops[i].for = m]
        \/ \E m \in HeaderModes : k = [j EXCEPT !.hops[i].proto = m]
        \/ \E m \in HeaderModes : k = [j EXCEPT !.hops[i].forwarded = m]
    <3>1. \A m : m \in {"append", "set", "pass"} => m \in HeaderModes
      BY DEF HeaderModes
    <3>2. {"append", "set", "pass", "drop"} = HeaderModes
      BY DEF HeaderModes
    <3> QED  BY <2>1, <3>1, <3>2, Zenon
  <2>3. "append" \in HeaderModes /\ "http" \in {"http", "https"}
    BY DEF HeaderModes
  <2> QED  BY <1>6, <2>2, <2>3, Zenon
<1> HIDE DEF Around
<1> QED  BY <1>4, <1>5, <1>7, <1>8, Zenon

LEMMA RequestsInitInv == Init => RequestsInv
<1> SUFFICES ASSUME Init PROVE RequestsInv
  OBVIOUS
<1>1. Mount \o <<"login", "1">> \in Seq(Words)
  <2>1. Mount \in Seq(Words)
    BY RequestsAssumption
  <2>2. <<"login", "1">> \in Seq(Words)
    <3>1. \A a, b \in Words : <<a, b>> \in Seq(Words)
      OBVIOUS
    <3>2. "login" \in Words /\ "1" \in Words
      BY RequestsAssumption
    <3> QED  BY <3>1, <3>2, Zenon
  <2> QED  BY <2>1, <2>2, ConcatProperties, Zenon
<1>2. <<>> \in PossibleQueries /\ OrdinaryJourney \in PossibleJourneys
  BY RequestsAssumption DEF PossibleQueries
<1>3. login \in [path : Seq(Words), query : PossibleQueries, journey : PossibleJourneys]
  BY <1>1, <1>2 DEF Init
<1>4. callback \in [host : {"iam", "other"}, cookies : SUBSET {"default", "app"}, journey : PossibleJourneys]
  BY <1>2 DEF Init
<1> QED  BY <1>3, <1>4 DEF Init, RequestsInv

LEMMA RequestsStepInv == RequestsInv /\ [Next]_vars => RequestsInv'
<1> SUFFICES ASSUME RequestsInv, [Next]_vars PROVE RequestsInv'
  OBVIOUS
<1> DEFINE Logins == [path : Seq(Words), query : PossibleQueries, journey : PossibleJourneys]
           Callbacks == [host : {"iam", "other"}, cookies : SUBSET {"default", "app"}, journey : PossibleJourneys]
<1>1. config = Configured(raw) /\ login \in Logins /\ callback \in Callbacks
  BY DEF RequestsInv
<1>2. CASE UNCHANGED vars
  BY <1>1, <1>2 DEF vars, RequestsInv
<1>3. CASE ChangeConfiguration
  BY <1>1, <1>3 DEF ChangeConfiguration, RequestsInv
<1>4. CASE ChangeTraffic
  <2>1. config' = Configured(raw')
    BY <1>1, <1>4 DEF ChangeTraffic
  <2>2. CASE ChangeLogin
    <3>1. login.path \in Seq(Words)
      BY <1>1
    <3>2. \A h \in Seq(Words) : [login EXCEPT !.path = h] \in Logins
      BY <1>1
    <3>3. ASSUME NEW i \in 0..Len(login.path), NEW s \in Segments
          PROVE  SubSeq(login.path, 1, i) \o <<s>> \o SubSeq(login.path, i + 1, Len(login.path))
                   \in Seq(Words)
      <4>1. s \in Words /\ Len(login.path) \in Nat
        BY <3>1, RequestsAssumption
      <4>2. SubSeq(login.path, 1, i) \in Seq(Words)
        BY <3>1, <4>1, SubSeqProperties
      <4>3. SubSeq(login.path, i + 1, Len(login.path)) \in Seq(Words)
        BY <3>1, <4>1, SubSeqProperties
      <4>4. <<s>> \in Seq(Words)
        BY <4>1
      <4>5. SubSeq(login.path, 1, i) \o <<s>> \in Seq(Words)
        BY <4>2, <4>4, ConcatProperties, Zenon
      <4> QED  BY <4>3, <4>5, ConcatProperties, Zenon
    <3>4. \A i \in DOMAIN login.path : RemoveAt(login.path, i) \in Seq(Words)
      BY <3>1, RemoveElement
    <3>5. ASSUME NEW query \in Queries PROVE [login EXCEPT !.query = query] \in Logins
      BY <1>1, RequestsAssumption
    <3>6. login' \in Logins
      BY <2>2, <3>2, <3>3, <3>4, <3>5 DEF ChangeLogin
    <3> QED  BY <1>1, <2>1, <2>2, <3>6 DEF ChangeLogin, RequestsInv
  <2>3. CASE ChangeCallback
    <3>1. \A host \in {"iam", "other"} : [callback EXCEPT !.host = host] \in Callbacks
      BY <1>1
    <3>2. \A c \in callback.cookies : [callback EXCEPT !.cookies = @ \ {c}] \in Callbacks
      BY <1>1
    <3>3. callback' \in Callbacks
      BY <2>3, <3>1, <3>2 DEF ChangeCallback
    <3> QED  BY <1>1, <2>1, <2>3, <3>3 DEF ChangeCallback, RequestsInv
  <2>4. CASE ChangeJourney
    <3>1. \A j \in PossibleJourneys : /\ [login EXCEPT !.journey = j] \in Logins
                                      /\ [callback EXCEPT !.journey = j] \in Callbacks
      BY <1>1
    <3>2. login.journey \in PossibleJourneys /\ callback.journey \in PossibleJourneys
      BY <1>1
    <3>3. /\ Journeys(login.journey) \subseteq PossibleJourneys
          /\ Journeys(callback.journey) \subseteq PossibleJourneys
      BY <3>2, JourneysArePossible
    <3>4. login' \in Logins /\ callback' \in Callbacks
      BY <1>1, <2>4, <3>1, <3>3 DEF ChangeJourney
    <3> QED  BY <2>1, <3>4 DEF RequestsInv
  <2>5. CASE ChangeResponse
    BY <1>1, <2>1, <2>5 DEF ChangeResponse, RequestsInv
  <2> QED  BY <1>4, <2>2, <2>3, <2>4, <2>5 DEF ChangeTraffic
<1> QED  BY <1>2, <1>3, <1>4 DEF Next

LEMMA AlwaysRequestsInv == Spec => []RequestsInv
  BY RequestsInitInv, RequestsStepInv, PTL DEF Spec

\* What the operator writes is in force, whatever the file.
THEOREM SettingsInForceHolds == Spec => []SettingsInForce
<1>1. RequestsInv => SettingsInForce
  <2> SUFFICES ASSUME config = Configured(raw), config.started PROVE SettingsInForce
    BY DEF RequestsInv, SettingsInForce
  <2> DEFINE given == [s \in Settings |-> TrimSpace(applyAliases(raw)[s])]
             noKey == given["private_key_file"] = "" /\ given["private_key"] = ""
             inForce == config.settings
  <2>1. inForce = finalizeConfig(raw)
    BY DEF Configured
  <2>2. ParseConfig(raw)
    BY DEF Configured
  <2>3. aliasesAllowed(raw) /\ settingsValid(raw) /\ botsValid(raw)
    BY <2>2 DEF ParseConfig
  <2>4. \A s \in Settings :
          inForce[s] = IF s = "private_key_file" /\ noKey THEN "default"
                       ELSE IF s = "issuer" /\ given[s] = "" THEN given["public_url"]
                       ELSE IF s = "audience" /\ given[s] = "" THEN given["jwt_endpoint"]
                       ELSE given[s]
    <3> DEFINE final == [given EXCEPT
                           !["private_key_file"] = IF noKey THEN "default" ELSE @,
                           !["issuer"] = IF @ = "" THEN given["public_url"] ELSE @,
                           !["audience"] = IF @ = "" THEN given["jwt_endpoint"] ELSE @]
    <3>1. inForce = final
      BY <2>1 DEF finalizeConfig
    <3>2. DOMAIN given = Settings
      OBVIOUS
    <3> HIDE DEF given, inForce
    <3>3. \A s \in Settings :
            final[s] = IF s = "private_key_file" /\ noKey THEN "default"
                       ELSE IF s = "issuer" /\ given[s] = "" THEN given["public_url"]
                       ELSE IF s = "audience" /\ given[s] = "" THEN given["jwt_endpoint"]
                       ELSE given[s]
      BY <3>2
    <3> HIDE DEF final
    <3> QED  BY <3>1, <3>3
  <2>5. \A s \in Settings : given[s] # "" => inForce[s] = given[s]
    BY <2>4
  <2>6. ASSUME NEW s \in Settings, TrimSpace(raw.file[s]) \notin {Absent, ""}
        PROVE  inForce[s] = TrimSpace(raw.file[s])
    <3>1. raw.file[s] # Absent
      BY <2>6 DEF TrimSpace, Absent
    <3>2. ~IsAliased(raw, s)
      BY <2>3, <3>1 DEF aliasesAllowed
    <3>3. given[s] = TrimSpace(raw.file[s])
      BY <3>1, <3>2 DEF applyAliases, Decoded
    <3> QED  BY <2>5, <2>6, <3>3
  <2>7. ASSUME NEW s \in Aliased, TrimSpace(raw.alias[s]) # ""
        PROVE  inForce[s] = TrimSpace(raw.alias[s])
    <3>1. IsAliased(raw, s) /\ s \in Settings
      BY <2>7 DEF IsAliased, TrimSpace, Settings
    <3>2. given[s] = TrimSpace(raw.alias[s])
      BY <3>1 DEF applyAliases
    <3> QED  BY <2>5, <2>7, <3>1, <3>2
  <2>8. {"private_key_file", "private_key", "audience", "jwt_endpoint", "issuer"} \subseteq Settings
    BY DEF Settings, Aliased
  <2>9. inForce["private_key_file"] = "" \/ inForce["private_key"] = ""
    BY <2>1, <2>3 DEF settingsValid
  <2>10. Cardinality({s \in {"private_key_file", "private_key"} : inForce[s] # ""}) = 1
    <3>1. inForce["private_key_file"] # "" \/ inForce["private_key"] # ""
      BY <2>4, <2>8
    <3>2. CASE inForce["private_key_file"] # ""
      <4>1. {s \in {"private_key_file", "private_key"} : inForce[s] # ""} = {"private_key_file"}
        BY <2>9, <3>2
      <4> QED  BY <4>1, FS_Singleton, Zenon
    <3>3. CASE inForce["private_key"] # ""
      <4>1. {s \in {"private_key_file", "private_key"} : inForce[s] # ""} = {"private_key"}
        BY <2>9, <3>3
      <4> QED  BY <4>1, FS_Singleton, Zenon
    <3> QED  BY <3>1, <3>2, <3>3
  <2>11. inForce["issuer"] # ""
    BY <2>1, <2>3 DEF settingsValid
  <2>12. inForce["audience"] # ""
    <3>1. inForce["jwt_endpoint"] # ""
      BY <2>1, <2>3, <2>8 DEF settingsValid, MayBeEmpty
    <3> QED  BY <2>4, <2>8, <3>1
  <2>13. ASSUME NEW i \in DOMAIN raw.bots, raw.bots[i].prelink # NoPrelink
         PROVE  raw.bots[i].prelink.audience # inForce["audience"]
    BY <2>1, <2>3, <2>13 DEF botsValid, validatePrelink, RelayAudience
  <2> HIDE DEF inForce, given
  <2> QED  BY <2>6, <2>7, <2>10, <2>11, <2>12, <2>13 DEF SettingsInForce, inForce
<1> QED  BY <1>1, AlwaysRequestsInv, PTL

\* Redirects are passed on to the listed origins, and to those only, whatever the
\* configuration and the redirect.
THEOREM RedirectsStayInsideHolds == Spec => []RedirectsStayInside
<1>1. RequestsInv => RedirectsStayInside
  <2> SUFFICES ASSUME config = Configured(raw) PROVE RedirectsStayInside
    BY DEF RequestsInv
  <2> DEFINE url == Destination(config, response.location)
             endpoint == Endpoint(config.settings["jwt_endpoint"])
             inside == {BrowserOrigin(endpoint)}
                         \cup {BrowserOrigin(raw.origins[i]) : i \in DOMAIN raw.origins}
  <2>1. \A u, v : canonicalHTTPSOrigin(u) = canonicalHTTPSOrigin(v)
                    <=> BrowserOrigin(u) = BrowserOrigin(v)
    BY DEF canonicalHTTPSOrigin, BrowserOrigin
  <2>2. /\ config.origins = {canonicalHTTPSOrigin(raw.origins[i]) : i \in DOMAIN raw.origins}
        /\ config.anyOrigin = raw.anyOrigin
    BY DEF Configured, normalizeRedirectOrigins
  <2>3. isAllowedRedirect(config, url) <=> raw.anyOrigin \/ BrowserOrigin(url) \in inside
    <3>1. canonicalHTTPSOrigin(url) \in config.origins
            <=> \E i \in DOMAIN raw.origins : BrowserOrigin(url) = BrowserOrigin(raw.origins[i])
      BY <2>1, <2>2
    <3>2. canonicalHTTPSOrigin(url) = canonicalHTTPSOrigin(endpoint)
            <=> BrowserOrigin(url) = BrowserOrigin(endpoint)
      BY <2>1
    <3>3. BrowserOrigin(url) \in inside
            <=> \/ BrowserOrigin(url) = BrowserOrigin(endpoint)
                \/ \E i \in DOMAIN raw.origins : BrowserOrigin(url) = BrowserOrigin(raw.origins[i])
      OBVIOUS
    <3> HIDE DEF inside, url
    <3> QED  BY <2>2, <3>1, <3>2, <3>3, Zenon DEF isAllowedRedirect
  <2>4. ValidDestination(url) <=> url.scheme = "https" /\ url.host # "" /\ ~url.user
    BY DEF ValidDestination
  <2>5. Relayed(config, response) <=>
          /\ response.status \in {301, 302, 303, 307, 308} /\ response.present
          /\ ValidDestination(url) /\ isAllowedRedirect(config, url)
    BY Zenon DEF Relayed, isRedirectStatus
  <2> HIDE DEF inside, url
  <2> DEFINE redirects == response.status \in {301, 302, 303, 307, 308}
             secure == url.scheme = "https"
             somewhere == url.host # ""
             allowed == raw.anyOrigin \/ BrowserOrigin(url) \in inside
  <2>6. /\ ValidDestination(url) <=> secure /\ somewhere /\ ~url.user
        /\ isAllowedRedirect(config, url) <=> allowed
        /\ Relayed(config, response) <=>
             /\ redirects /\ response.present
             /\ ValidDestination(url) /\ isAllowedRedirect(config, url)
    BY <2>3, <2>4, <2>5, Zenon
  <2>7. Relayed(config, response) <=>
          /\ redirects /\ response.present
          /\ secure /\ somewhere /\ ~url.user
          /\ allowed
    <3> HIDE DEF redirects, secure, somewhere, allowed
    <3> QED  BY <2>6, Zenon
  <2> QED  BY <2>7, Zenon DEF RedirectsStayInside, inside, url
<1> QED  BY <1>1, AlwaysRequestsInv, PTL

\* A request is on its way as each hop has made it of what the one before it made.
LEMMA OnItsWayDefinition ==
  ASSUME NEW j \in PossibleJourneys
  PROVE  OnItsWay(j) = [n \in 0..Len(j.hops) |->
           IF n = 0 THEN Sent(j) ELSE PassedOn(OnItsWay(j)[n - 1], j.hops[n])]
<1> DEFINE Defines(g, k) ==
             g = [n \in 0..k |-> IF n = 0 THEN Sent(j) ELSE PassedOn(g[n - 1], j.hops[n])]
           S == {k \in Nat : \E g : Defines(g, k)}
<1>1. Len(j.hops) \in Nat
  BY DEF PossibleJourneys
<1>2. 0 \in S
  <2> DEFINE g == [n \in 0..0 |-> Sent(j)]
  <2>1. g = [n \in 0..0 |-> IF n = 0 THEN Sent(j) ELSE PassedOn(g[n - 1], j.hops[n])]
    OBVIOUS
  <2> HIDE DEF g
  <2>2. Defines(g, 0)
    BY <2>1
  <2> QED  BY <2>2
<1>3. ASSUME NEW k \in Nat, k \in S PROVE k + 1 \in S
  <2>1. PICK g : Defines(g, k)
    BY <1>3
  <2> DEFINE h == [n \in 0..(k + 1) |->
                     IF n = k + 1 THEN PassedOn(g[k], j.hops[k + 1]) ELSE g[n]]
  <2>2. ASSUME NEW n \in 0..(k + 1)
        PROVE  h[n] = IF n = 0 THEN Sent(j) ELSE PassedOn(h[n - 1], j.hops[n])
    <3>1. CASE n = k + 1
      <4>1. h[k + 1] = PassedOn(g[k], j.hops[k + 1])
        OBVIOUS
      <4>2. h[k] = g[k]
        OBVIOUS
      <4>3. n # 0 /\ n - 1 = k
        BY <3>1
      <4> HIDE DEF h
      <4> QED  BY <3>1, <4>1, <4>2, <4>3
    <3>2. CASE n # k + 1
      <4>0. n \in 0..k
        BY <3>2
      <4>1. n \in 0..k /\ h[n] = g[n]
        BY <3>2, <4>0
      <4>2. n # 0 => h[n - 1] = g[n - 1]
        BY <4>1
      <4>3. g[n] = IF n = 0 THEN Sent(j) ELSE PassedOn(g[n - 1], j.hops[n])
        BY <2>1, <4>1
      <4> HIDE DEF h
      <4> QED  BY <4>1, <4>2, <4>3
    <3> QED  BY <3>1, <3>2
  <2>3. h = [n \in 0..(k + 1) |-> h[n]]
    OBVIOUS
  <2>4. Defines(h, k + 1)
    <3> HIDE DEF h
    <3> QED  BY <2>2, <2>3
  <2>5. k + 1 \in Nat
    OBVIOUS
  <2> HIDE DEF h, Defines
  <2> QED  BY <2>4, <2>5
<1>4. \A k \in Nat : k \in S
  <2> HIDE DEF S
  <2> QED  BY <1>2, <1>3, SetInduction
<1>5. \E g : Defines(g, Len(j.hops))
  <2>1. Len(j.hops) \in S
    BY <1>1, <1>4
  <2> HIDE DEF Defines
  <2> QED  BY <2>1
<1> QED  BY <1>5 DEF OnItsWay

\* What a hop makes of a header.
LEMMA Maintained ==
  ASSUME NEW S, NEW elements \in Seq(S), NEW own \in S, NEW mode \in HeaderModes
  PROVE  /\ Maintain(mode, elements, own) \in Seq(S)
         /\ Maintains(mode) => /\ Maintain(mode, elements, own) # <<>>
                               /\ Maintain(mode, elements, own)
                                    [Len(Maintain(mode, elements, own))] = own
<1>1. CASE mode = "append"
  <2>1. Maintain(mode, elements, own) = Append(elements, own)
    BY <1>1 DEF Maintain
  <2> QED  BY <2>1
<1>2. CASE mode = "set"
  <2>1. Maintain(mode, elements, own) = <<own>>
    BY <1>2 DEF Maintain
  <2> QED  BY <2>1
<1>3. CASE mode = "drop"
  <2>1. Maintain(mode, elements, own) = <<>> /\ ~Maintains(mode)
    BY <1>3 DEF Maintain, Maintains
  <2> QED  BY <2>1
<1>4. CASE mode = "pass"
  <2>1. Maintain(mode, elements, own) = elements /\ ~Maintains(mode)
    BY <1>4 DEF Maintain, Maintains
  <2> QED  BY <2>1
<1> QED  BY <1>1, <1>2, <1>3, <1>4 DEF HeaderModes

PossibleRequests ==
  [remote : Addresses, for : Seq(Addresses \cup {Garbage}), proto : Seq(Words),
   forwarded : Seq(Seq(Words))]

LEMMA PassedOnIsPossible ==
  ASSUME NEW r \in PossibleRequests, NEW hop \in PossibleHops
  PROVE  PassedOn(r, hop) \in PossibleRequests
<1>1. /\ r.remote \in Addresses \cup {Garbage} /\ r.for \in Seq(Addresses \cup {Garbage})
      /\ r.proto \in Seq(Words) /\ r.forwarded \in Seq(Seq(Words))
  BY DEF PossibleRequests
<1>2. /\ hop.address \in Addresses /\ hop.scheme \in Words
      /\ hop.for \in HeaderModes /\ hop.proto \in HeaderModes /\ hop.forwarded \in HeaderModes
  BY RequestsAssumption DEF PossibleHops
<1>3. <<"for", hop.scheme>> \in Seq(Words)
  <2>1. "for" \in Words
    BY RequestsAssumption
  <2>2. \A a, b \in Words : <<a, b>> \in Seq(Words)
    OBVIOUS
  <2> QED  BY <1>2, <2>1, <2>2, Zenon
<1>4. Maintain(hop.for, r.for, r.remote) \in Seq(Addresses \cup {Garbage})
  BY <1>1, <1>2, Maintained
<1>5. Maintain(hop.proto, r.proto, hop.scheme) \in Seq(Words)
  BY <1>1, <1>2, Maintained
<1>6. Maintain(hop.forwarded, r.forwarded, <<"for", hop.scheme>>) \in Seq(Seq(Words))
  BY <1>1, <1>2, <1>3, Maintained
<1> QED  BY <1>2, <1>4, <1>5, <1>6 DEF PassedOn, PossibleRequests

\* Every request on its way can be made, and is what the hop made of the one before.
LEMMA RequestsOnTheirWay ==
  ASSUME NEW j \in PossibleJourneys
  PROVE  /\ Len(j.hops) \in Nat /\ DOMAIN j.hops = 1..Len(j.hops)
         /\ \A n \in DOMAIN j.hops : j.hops[n] \in PossibleHops
         /\ OnItsWay(j)[0] = Sent(j)
         /\ \A n \in 0..Len(j.hops) : OnItsWay(j)[n] \in PossibleRequests
         /\ \A n \in DOMAIN j.hops : OnItsWay(j)[n] = PassedOn(OnItsWay(j)[n - 1], j.hops[n])
<1>1. j.hops \in Seq(PossibleHops)
  BY DEF PossibleJourneys
<1>2. Len(j.hops) \in Nat /\ DOMAIN j.hops = 1..Len(j.hops)
  BY <1>1
<1>3. \A n \in DOMAIN j.hops : j.hops[n] \in PossibleHops
  BY <1>1
<1>4. \A n \in 0..Len(j.hops) : OnItsWay(j)[n] =
        IF n = 0 THEN Sent(j) ELSE PassedOn(OnItsWay(j)[n - 1], j.hops[n])
  BY OnItsWayDefinition, Zenon
<1>5. OnItsWay(j)[0] = Sent(j)
  BY <1>2, <1>4
<1>6. \A n \in DOMAIN j.hops : OnItsWay(j)[n] = PassedOn(OnItsWay(j)[n - 1], j.hops[n])
  BY <1>2, <1>4
<1> DEFINE S == {n \in Nat : n <= Len(j.hops) => OnItsWay(j)[n] \in PossibleRequests}
<1>7. 0 \in S
  <2>1. Sent(j) \in PossibleRequests
    BY DEF Sent, PossibleRequests, PossibleJourneys, PossibleHeaders
  <2> QED  BY <1>5, <2>1
<1>8. ASSUME NEW n \in Nat, n \in S PROVE n + 1 \in S
  <2> SUFFICES ASSUME n + 1 <= Len(j.hops) PROVE OnItsWay(j)[n + 1] \in PossibleRequests
    OBVIOUS
  <2>1. OnItsWay(j)[n] \in PossibleRequests /\ n + 1 \in DOMAIN j.hops
    BY <1>2, <1>8
  <2>2. OnItsWay(j)[n + 1] = PassedOn(OnItsWay(j)[n], j.hops[n + 1])
    BY <1>6, <2>1
  <2> QED  BY <1>3, <2>1, <2>2, PassedOnIsPossible
<1>9. \A n \in Nat : n \in S
  <2> HIDE DEF S
  <2> QED  BY <1>7, <1>8, SetInduction
<1> QED  BY <1>2, <1>3, <1>5, <1>6, <1>9

\* What arrives is what the nearest proxy made of a request.
LEMMA ArrivingFromNearest ==
  ASSUME NEW j \in PossibleJourneys, j.hops # <<>>
  PROVE  /\ Nearest(j) \in PossibleHops
         /\ \E r \in PossibleRequests : Arriving(j) = PassedOn(r, Nearest(j))
<1>1. j.hops \in Seq(PossibleHops)
  BY DEF PossibleJourneys
<1>2. Len(j.hops) \in DOMAIN j.hops /\ Len(j.hops) - 1 \in 0..Len(j.hops)
  BY <1>1
<1>3. OnItsWay(j)[Len(j.hops) - 1] \in PossibleRequests
  BY <1>2, RequestsOnTheirWay
<1>4. Arriving(j) = PassedOn(OnItsWay(j)[Len(j.hops) - 1], Nearest(j))
  BY <1>2, RequestsOnTheirWay, Zenon DEF Arriving, Nearest
<1> QED  BY <1>2, <1>3, <1>4, RequestsOnTheirWay DEF Nearest

\* The element that a proxy writes says the scheme it was reached by.
LEMMA OwnElement ==
  ASSUME NEW scheme \in {"http", "https"}
  PROVE  parseForwardedProto(<<"for", scheme>>) = scheme /\ <<"for", scheme>> # <<>>
<1> DEFINE e == <<"for", scheme>>
<1>1. DOMAIN e = {1, 2} /\ e[1] = "for" /\ e[2] = scheme /\ e # <<>>
  OBVIOUS
<1> HIDE DEF e
<1>2. Protos(e) = {2}
  BY <1>1 DEF Protos
<1>3. (CHOOSE i \in Protos(e) : TRUE) = 2
  BY <1>2
<1>4. \E i \in DOMAIN e : Protos(e) = {i} /\ e[i] # ""
  BY <1>1, <1>2
<1>5. parseForwardedProto(e) = scheme
  BY <1>1, <1>3, <1>4, Zenon DEF parseForwardedProto
<1> QED  BY <1>1, <1>5 DEF e

\* What the service takes a request for, given its nearest proxy.
LEMMA NearestDecides ==
  ASSUME NEW j \in PossibleJourneys, j.hops # <<>>
  PROVE  /\ IsSecure(j) => Nearest(j).address \in config.trusted
         /\ IsSecure(j) /\ (Maintains(Nearest(j).proto) \/ Maintains(Nearest(j).forwarded))
              => Nearest(j).scheme = "https"
         /\ Nearest(j).address \in config.trusted /\ Nearest(j).scheme = "https"
              /\ Maintains(Nearest(j).proto) /\ Nearest(j).forwarded # "pass" => IsSecure(j)
<1> DEFINE hop == Nearest(j)
<1>1. PICK r \in PossibleRequests : Arriving(j) = PassedOn(r, hop)
  BY ArrivingFromNearest
<1>2. /\ hop.scheme \in {"http", "https"}
      /\ hop.proto \in HeaderModes /\ hop.forwarded \in HeaderModes
  BY ArrivingFromNearest DEF PossibleHops
<1> DEFINE protos == Maintain(hop.proto, r.proto, hop.scheme)
           elements == Maintain(hop.forwarded, r.forwarded, <<"for", hop.scheme>>)
           proto == lastHeaderValue(protos, "")
           element == lastHeaderValue(elements, <<>>)
<1>3. /\ Arriving(j).remote = hop.address
      /\ Arriving(j).proto = protos /\ Arriving(j).forwarded = elements
  BY <1>1 DEF PassedOn
<1>4. IsSecure(j) <=> hop.address \in config.trusted /\ AgreedScheme(proto, element) = "https"
  BY <1>3 DEF IsSecure, isSecureRequest
<1>5. hop.scheme \in Words /\ r.proto \in Seq(Words) /\ r.forwarded \in Seq(Seq(Words))
      /\ <<"for", hop.scheme>> \in Seq(Words)
  <2>1. "for" \in Words /\ hop.scheme \in Words
    BY <1>2, RequestsAssumption
  <2>2. \A a, b \in Words : <<a, b>> \in Seq(Words)
    OBVIOUS
  <2>3. r.proto \in Seq(Words) /\ r.forwarded \in Seq(Seq(Words))
    BY DEF PossibleRequests
  <2> QED  BY <2>1, <2>2, <2>3, Zenon
<1>6. Maintains(hop.proto) => proto = hop.scheme
  <2>1. Maintains(hop.proto) => protos # <<>> /\ protos[Len(protos)] = hop.scheme
    <3> HIDE DEF hop
    <3>1. hop.proto \in HeaderModes /\ r.proto \in Seq(Words) /\ hop.scheme \in Words
      BY <1>2, <1>5
    <3> QED  BY <3>1, Maintained
  <2> QED  BY <2>1, Zenon DEF lastHeaderValue
<1>7. Maintains(hop.forwarded) => element = <<"for", hop.scheme>>
  <2>1. Maintains(hop.forwarded) =>
          elements # <<>> /\ elements[Len(elements)] = <<"for", hop.scheme>>
    <3> HIDE DEF hop
    <3> DEFINE own == <<"for", hop.scheme>>
    <3>1. hop.forwarded \in HeaderModes /\ r.forwarded \in Seq(Seq(Words)) /\ own \in Seq(Words)
      BY <1>2, <1>5
    <3> HIDE DEF own
    <3>2. Maintains(hop.forwarded) =>
            LET m == Maintain(hop.forwarded, r.forwarded, own) IN m # <<>> /\ m[Len(m)] = own
      BY <3>1, Maintained
    <3> QED  BY <3>2 DEF own
  <2> QED  BY <2>1, Zenon DEF lastHeaderValue
<1>8. hop.forwarded = "drop" => element = <<>>
  <2>1. hop.forwarded = "drop" => elements = <<>>
    BY DEF Maintain
  <2> HIDE DEF elements
  <2> QED  BY <2>1 DEF lastHeaderValue
<1>9. /\ parseForwardedProto(<<"for", hop.scheme>>) = hop.scheme
      /\ <<"for", hop.scheme>> # <<>>
  BY <1>2, OwnElement
<1> HIDE DEF hop, protos, elements, proto, element
<1>10. ASSUME Maintains(hop.proto), AgreedScheme(proto, element) = "https"
       PROVE  hop.scheme = "https"
  BY <1>2, <1>6, <1>10 DEF AgreedScheme
<1>11. ASSUME Maintains(hop.forwarded), AgreedScheme(proto, element) = "https"
       PROVE  hop.scheme = "https"
  BY <1>2, <1>7, <1>9, <1>11 DEF AgreedScheme
<1>12. ASSUME Maintains(hop.proto), hop.scheme = "https", hop.forwarded # "pass"
       PROVE  AgreedScheme(proto, element) = "https"
  <2>1. CASE hop.forwarded = "drop"
    BY <1>6, <1>8, <1>12, <2>1 DEF AgreedScheme
  <2>2. CASE Maintains(hop.forwarded)
    BY <1>6, <1>7, <1>9, <1>12, <2>2 DEF AgreedScheme
  <2> QED  BY <1>2, <1>12, <2>1, <2>2 DEF HeaderModes, Maintains
<1> QED  BY <1>4, <1>10, <1>11, <1>12, Zenon DEF hop

\* Only the nearest proxy's word about the scheme counts, whatever the journey.
THEOREM SecureIfNearestSaysSoHolds == Spec => []SecureIfNearestSaysSo
<1>1. RequestsInv => SecureIfNearestSaysSo
  <2> SUFFICES ASSUME RequestsInv PROVE SecureIfNearestSaysSo
    OBVIOUS
  <2>1. \A j \in {login.journey, callback.journey} : j \in PossibleJourneys
    BY DEF RequestsInv
  <2> QED  BY <2>1, NearestDecides, Zenon DEF SecureIfNearestSaysSo
<1> QED  BY <1>1, AlwaysRequestsInv, PTL

\* A set of numbers that is bounded and not empty has a greatest one.
LEMMA GreatestNumber ==
  ASSUME NEW n \in Nat, NEW S \in SUBSET (0..n), S # {}
  PROVE  \E m \in S : \A k \in S : k <= m
<1> DEFINE T == {k \in Nat : n - k \in S}
<1>1. T # {}
  <2>1. PICK k \in S : TRUE
    OBVIOUS
  <2>2. n - k \in Nat /\ n - (n - k) = k
    BY <2>1
  <2> QED  BY <2>1, <2>2
<1>2. PICK t \in T : \A k \in T : t <= k
  BY <1>1, LeastNumber
<1>3. n - t \in S /\ t \in Nat
  BY <1>2
<1>4. ASSUME NEW k \in S PROVE k <= n - t
  <2>1. k \in 0..n /\ n - k \in Nat /\ n - (n - k) = k
    OBVIOUS
  <2>2. n - k \in T
    BY <2>1
  <2>3. t <= n - k
    BY <1>2, <2>2
  <2> QED  BY <1>3, <2>1, <2>3
<1> QED  BY <1>3, <1>4

\* The client is the last address that is no trusted proxy's.
LEMMA KnownByLastUntrusted ==
  ASSUME NEW r \in PossibleRequests, NEW trusted, r.remote \in trusted,
         NEW m \in DOMAIN r.for, r.for[m] \notin trusted, r.for[m] # Garbage,
         \A i \in DOMAIN r.for : i > m => r.for[i] \in trusted
  PROVE  clientIP(r, trusted) = r.for[m]
<1> DEFINE U == Untrusted(r.for, trusted)
<1>1. DOMAIN r.for \subseteq Nat
  BY DEF PossibleRequests
<1>2. m \in U /\ m \in Parsed(r.for)
  BY DEF Untrusted, Parsed
<1>3. \A y \in U : y \in Nat /\ m >= y
  BY <1>1 DEF Untrusted, Parsed
<1> HIDE DEF U
<1>4. Max(U) \in U /\ \A y \in U : Max(U) >= y
  BY <1>2, <1>3 DEF Max
<1>5. Max(U) = m
  BY <1>2, <1>3, <1>4
<1>6. U # {} /\ Parsed(r.for) # {}
  BY <1>2
<1> QED  BY <1>5, <1>6, Zenon DEF clientIP, NearestUntrusted, U

\* Without any, it is the first address.
LEMMA KnownByFirstAddress ==
  ASSUME NEW r \in PossibleRequests, NEW trusted, r.remote \in trusted, r.for # <<>>,
         \A i \in DOMAIN r.for : r.for[i] \in trusted /\ r.for[i] # Garbage
  PROVE  \E i \in DOMAIN r.for : clientIP(r, trusted) = r.for[i]
<1>1. DOMAIN r.for = 1..Len(r.for) /\ Len(r.for) \in Nat /\ Len(r.for) >= 1
  BY DEF PossibleRequests
<1>2. Parsed(r.for) = DOMAIN r.for /\ Untrusted(r.for, trusted) = {}
  BY DEF Untrusted, Parsed
<1>3. Min(DOMAIN r.for) \in DOMAIN r.for
  BY <1>1 DEF Min
<1>4. Parsed(r.for) # {}
  BY <1>1, <1>2
<1> QED  BY <1>2, <1>3, <1>4, Zenon DEF clientIP

\* The header holds an address, and after it none but trusted proxies'.
EndsWith(header, address, trusted) ==
  \E m \in DOMAIN header :
    header[m] = address /\ \A i \in DOMAIN header : i > m => header[i] \in trusted

\* It holds nothing but addresses of trusted proxies on the way.
OnlyTrusted(header, way, trusted) ==
  header # <<>> /\ \A i \in DOMAIN header : header[i] \in way /\ header[i] \in trusted

LEMMA EndsWithKept ==
  ASSUME NEW S, NEW header \in Seq(S), NEW address, NEW own \in S, NEW trusted
  PROVE  /\ EndsWith(Append(header, address), address, trusted)
         /\ EndsWith(<<address>>, address, trusted)
         /\ own \in trusted /\ EndsWith(header, address, trusted)
              => EndsWith(Append(header, own), address, trusted)
<1> DEFINE a == Append(header, address)
           o == Append(header, own)
<1>1. /\ Len(header) \in Nat /\ DOMAIN header = 1..Len(header)
      /\ DOMAIN a = 1..(Len(header) + 1) /\ a[Len(header) + 1] = address
      /\ DOMAIN o = 1..(Len(header) + 1) /\ o[Len(header) + 1] = own
      /\ \A i \in 1..Len(header) : o[i] = header[i]
  OBVIOUS
<1> HIDE DEF a, o
<1>2. EndsWith(a, address, trusted)
  BY <1>1 DEF EndsWith
<1>3. EndsWith(<<address>>, address, trusted)
  BY DEF EndsWith
<1>4. ASSUME own \in trusted, EndsWith(header, address, trusted)
      PROVE  EndsWith(o, address, trusted)
  <2>1. PICK m \in DOMAIN header :
          header[m] = address /\ \A i \in DOMAIN header : i > m => header[i] \in trusted
    BY <1>4 DEF EndsWith
  <2>2. m \in DOMAIN o /\ o[m] = address
    BY <1>1, <2>1
  <2>3. ASSUME NEW i \in DOMAIN o, i > m PROVE o[i] \in trusted
    BY <1>1, <1>4, <2>1, <2>3
  <2> QED  BY <2>2, <2>3 DEF EndsWith
<1> QED  BY <1>2, <1>3, <1>4 DEF a, o

LEMMA OnlyTrustedKept ==
  ASSUME NEW S, NEW header \in Seq(S), NEW way, NEW trusted,
         NEW own \in S, own \in way, own \in trusted
  PROVE  /\ OnlyTrusted(<<own>>, way, trusted)
         /\ OnlyTrusted(header, way, trusted) => OnlyTrusted(Append(header, own), way, trusted)
<1> DEFINE o == Append(header, own)
<1>1. /\ Len(header) \in Nat /\ DOMAIN header = 1..Len(header)
      /\ DOMAIN o = 1..(Len(header) + 1) /\ o[Len(header) + 1] = own
      /\ \A i \in 1..Len(header) : o[i] = header[i]
  OBVIOUS
<1>2. o # <<>>
  OBVIOUS
<1> HIDE DEF o
<1>3. OnlyTrusted(<<own>>, way, trusted)
  BY DEF OnlyTrusted
<1>4. OnlyTrusted(header, way, trusted) => OnlyTrusted(o, way, trusted)
  BY <1>1, <1>2 DEF OnlyTrusted
<1> QED  BY <1>3, <1>4 DEF o

\* From the last address that is no trusted proxy's on, the proxies write down the
\* way: what the client sent counts for nothing.
LEMMA WayIsWrittenDown ==
  ASSUME NEW j \in PossibleJourneys, NEW trusted, NEW p \in 0..Len(j.hops),
         \A n \in (p + 1)..Len(j.hops) : /\ OnItsWay(j)[n].remote \in trusted
                                         /\ Maintains(j.hops[n].for)
  PROVE  LET last == OnItsWay(j)[p].remote
             way == {OnItsWay(j)[k].remote : k \in 0..Len(j.hops)}
         IN \A n \in (p + 1)..Len(j.hops) :
              \/ EndsWith(OnItsWay(j)[n].for, last, trusted)
              \/ /\ OnlyTrusted(OnItsWay(j)[n].for, way, trusted)
                 /\ \E k \in (p + 1)..n : j.hops[k].for # "append"
<1> DEFINE R(n) == OnItsWay(j)[n]
           N == Len(j.hops)
           way == {R(k).remote : k \in 0..N}
           Address == Addresses \cup {Garbage}
           Written(n) == \/ EndsWith(R(n).for, R(p).remote, trusted)
                         \/ /\ OnlyTrusted(R(n).for, way, trusted)
                            /\ \E k \in (p + 1)..n : j.hops[k].for # "append"
           S == {n \in Nat : n \in (p + 1)..N => Written(n)}
<1>1. N \in Nat /\ DOMAIN j.hops = 1..N
  BY RequestsOnTheirWay
<1>2. \A n \in 0..N : R(n).remote \in Address /\ R(n).for \in Seq(Address)
  BY RequestsOnTheirWay DEF PossibleRequests
<1>3. \A n \in 1..N : R(n).for = Maintain(j.hops[n].for, R(n - 1).for, R(n - 1).remote)
  <2> SUFFICES ASSUME NEW n \in 1..N
               PROVE R(n).for = Maintain(j.hops[n].for, R(n - 1).for, R(n - 1).remote)
    OBVIOUS
  <2>1. R(n) = PassedOn(R(n - 1), j.hops[n])
    BY <1>1, RequestsOnTheirWay
  <2> QED  BY <2>1 DEF PassedOn
<1>4. \A n \in 0..N : R(n).remote \in way
  OBVIOUS
<1>5. 0 \in S
  BY <1>1
<1>6. ASSUME NEW m \in Nat, m \in S PROVE m + 1 \in S
  <2> DEFINE n == m + 1
             own == R(m).remote
             header == R(m).for
  <2> SUFFICES ASSUME n \in (p + 1)..N PROVE Written(n)
    OBVIOUS
  <2>1. m \in 0..N /\ n \in 1..N /\ n - 1 = m /\ p \in 0..N
    BY <1>1
  <2>2. R(n).for = Maintain(j.hops[n].for, header, own)
    BY <1>3, <2>1
  <2>3. own \in Address /\ header \in Seq(Address) /\ own \in way /\ R(p).remote \in Address
    BY <1>2, <1>4, <2>1
  <2>4. \/ j.hops[n].for = "append" /\ R(n).for = Append(header, own)
        \/ j.hops[n].for # "append" /\ R(n).for = <<own>>
    <3>1. j.hops[n].for \in {"append", "set"}
      BY DEF Maintains
    <3> HIDE DEF header, own, R
    <3> QED  BY <2>2, <3>1 DEF Maintain
  <2>5. n \in (p + 1)..n
    BY <1>1
  <2>6. CASE m = p
    <3>1. EndsWith(Append(header, own), own, trusted) /\ EndsWith(<<own>>, own, trusted)
      <4> HIDE DEF header, own, way
      <4> QED  BY <2>3, EndsWithKept
    <3> QED  BY <2>4, <2>6, <3>1
  <2>7. CASE m # p
    <3>1. m \in (p + 1)..N /\ m \in (p + 1)..n
      BY <1>1, <2>7
    <3>2. Written(m) /\ own \in trusted
      BY <1>6, <3>1
    <3>3. EndsWith(header, R(p).remote, trusted)
            => EndsWith(Append(header, own), R(p).remote, trusted)
      <4> HIDE DEF header, own, way, R
      <4> QED  BY <2>3, <3>2, EndsWithKept
    <3>4. /\ OnlyTrusted(<<own>>, way, trusted)
          /\ OnlyTrusted(header, way, trusted)
               => OnlyTrusted(Append(header, own), way, trusted)
      <4> HIDE DEF header, own, way, R
      <4> QED  BY <2>3, <3>2, OnlyTrustedKept
    <3>5. CASE j.hops[n].for # "append"
      BY <2>4, <2>5, <3>4, <3>5
    <3>6. CASE R(n).for = Append(header, own) /\ EndsWith(header, R(p).remote, trusted)
      BY <3>3, <3>6
    <3>7. CASE /\ R(n).for = Append(header, own) /\ OnlyTrusted(header, way, trusted)
               /\ \E k \in (p + 1)..m : j.hops[k].for # "append"
      <4>1. \E k \in (p + 1)..n : j.hops[k].for # "append"
        BY <1>1, <3>7
      <4> QED  BY <3>4, <3>7, <4>1
    <3> QED  BY <2>4, <3>2, <3>5, <3>6, <3>7
  <2> QED  BY <2>6, <2>7
<1>7. \A n \in Nat : n \in S
  <2> HIDE DEF S
  <2> QED  BY <1>5, <1>6, SetInduction
<1>8. ASSUME NEW n \in (p + 1)..N PROVE Written(n)
  <2>1. n \in Nat
    BY <1>1
  <2>2. n \in S
    BY <1>7, <2>1
  <2> HIDE DEF Written
  <2> QED  BY <2>2
<1> QED  BY <1>8, Zenon

\* Whom a request on its way comes from.
LEMMA RemotesOnTheWay ==
  ASSUME NEW j \in PossibleJourneys
  PROVE  /\ OnItsWay(j)[0].remote = j.client
         /\ \A n \in DOMAIN j.hops : OnItsWay(j)[n].remote = j.hops[n].address
<1>1. OnItsWay(j)[0].remote = j.client
  <2>1. OnItsWay(j)[0] = Sent(j)
    BY RequestsOnTheirWay
  <2> QED  BY <2>1 DEF Sent
<1>2. ASSUME NEW n \in DOMAIN j.hops PROVE OnItsWay(j)[n].remote = j.hops[n].address
  <2>1. OnItsWay(j)[n] = PassedOn(OnItsWay(j)[n - 1], j.hops[n])
    BY RequestsOnTheirWay
  <2> QED  BY <2>1 DEF PassedOn
<1> QED  BY <1>1, <1>2

\* The way, as the addresses of the client and the hops.
LEMMA AddressesOfTheWay ==
  ASSUME NEW j \in PossibleJourneys
  PROVE  LET addresses == <<j.client>> \o [i \in DOMAIN j.hops |-> j.hops[i].address]
         IN /\ Len(addresses) = Len(j.hops) + 1
            /\ DOMAIN addresses = 1..(Len(j.hops) + 1)
            /\ \A k \in 0..Len(j.hops) : addresses[k + 1] = OnItsWay(j)[k].remote
<1> DEFINE first == <<j.client>>
           rest == [i \in DOMAIN j.hops |-> j.hops[i].address]
           N == Len(j.hops)
<1>1. N \in Nat /\ DOMAIN j.hops = 1..N /\ \A i \in 1..N : j.hops[i] \in PossibleHops
  BY RequestsOnTheirWay
<1>2. first \in Seq(Addresses) /\ Len(first) = 1 /\ first[1] = j.client
  BY DEF PossibleJourneys
<1>3. rest \in Seq(Addresses) /\ Len(rest) = N /\ \A i \in 1..N : rest[i] = j.hops[i].address
  <2>1. rest \in [1..N -> Addresses]
    BY <1>1 DEF PossibleHops
  <2>2. \A i \in 1..N : rest[i] = j.hops[i].address
    BY <1>1
  <2> HIDE DEF rest
  <2>3. rest \in Seq(Addresses)
    BY <1>1, <2>1, SeqDef
  <2>4. DOMAIN rest = 1..N
    BY <2>1
  <2> QED  BY <1>1, <2>2, <2>3, <2>4
<1>4. OnItsWay(j)[0].remote = j.client
  BY RemotesOnTheWay
<1>5. \A k \in 1..N : OnItsWay(j)[k].remote = j.hops[k].address
  BY <1>1, RemotesOnTheWay
<1> HIDE DEF first, rest, N
<1>6. /\ first \o rest \in Seq(Addresses)
      /\ Len(first \o rest) = Len(first) + Len(rest)
      /\ \A i \in 1..(Len(first) + Len(rest)) :
           (first \o rest)[i] = IF i <= Len(first) THEN first[i] ELSE rest[i - Len(first)]
  BY <1>2, <1>3, ConcatProperties, Zenon
<1>7. Len(first \o rest) = N + 1 /\ DOMAIN (first \o rest) = 1..(N + 1)
  BY <1>1, <1>2, <1>3, <1>6
<1>8. ASSUME NEW k \in 0..N PROVE (first \o rest)[k + 1] = OnItsWay(j)[k].remote
  <2>1. CASE k = 0
    BY <1>1, <1>2, <1>3, <1>4, <1>6, <2>1
  <2>2. CASE k # 0
    <3>1. k \in 1..N /\ k + 1 \in 1..(1 + N) /\ ~(k + 1 <= 1) /\ (k + 1) - 1 = k
      BY <1>1, <2>2
    <3>2. (first \o rest)[k + 1] = rest[(k + 1) - 1]
      BY <1>2, <1>3, <1>6, <3>1
    <3> QED  BY <1>3, <1>5, <3>1, <3>2
  <2> QED  BY <2>1, <2>2
<1> QED  BY <1>7, <1>8 DEF first, rest, N

\* A client that is no trusted proxy is known by an address on its way, whatever it
\* sends, whatever the journey.
THEOREM ClientIsOnItsWayHolds == Spec => []ClientIsOnItsWay
<1>1. RequestsInv => ClientIsOnItsWay
  <2> SUFFICES ASSUME RequestsInv, NEW j \in {login.journey, callback.journey},
                      j.client \notin config.trusted
               PROVE
                 LET addresses == <<j.client>> \o [i \in DOMAIN j.hops |-> j.hops[i].address]
                     proxies == {i \in DOMAIN j.hops : j.hops[i].address \in config.trusted}
                     client == clientIP(Arriving(j), config.trusted)
                 IN /\ (\A i \in proxies : Maintains(j.hops[i].for)) => client \in ToSet(addresses)
                    /\ (\A i \in proxies : j.hops[i].for = "append") =>
                         \E n \in DOMAIN addresses :
                           /\ client = addresses[n] /\ client \notin config.trusted
                           /\ \A k \in (n + 1)..Len(addresses) : addresses[k] \in config.trusted
    BY Zenon DEF ClientIsOnItsWay
  <2>0. j \in PossibleJourneys
    BY DEF RequestsInv
  <2> DEFINE addresses == <<j.client>> \o [i \in DOMAIN j.hops |-> j.hops[i].address]
             proxies == {i \in DOMAIN j.hops : j.hops[i].address \in config.trusted}
             client == clientIP(Arriving(j), config.trusted)
             N == Len(j.hops)
             R(n) == OnItsWay(j)[n]
             U == {n \in 0..N : R(n).remote \notin config.trusted}
             way == {R(k).remote : k \in 0..N}
  <2>1. /\ N \in Nat /\ DOMAIN j.hops = 1..N
        /\ \A n \in 0..N : R(n) \in PossibleRequests
        /\ R(0).remote = j.client
        /\ \A n \in 1..N : R(n).remote = j.hops[n].address
    <3>1. N \in Nat /\ DOMAIN j.hops = 1..N /\ \A n \in 0..N : R(n) \in PossibleRequests
      BY <2>0, RequestsOnTheirWay
    <3>2. R(0).remote = j.client /\ \A n \in DOMAIN j.hops : R(n).remote = j.hops[n].address
      BY <2>0, RemotesOnTheWay
    <3> HIDE DEF N, R
    <3> QED  BY <3>1, <3>2
  <2>2. /\ Len(addresses) = N + 1 /\ DOMAIN addresses = 1..(N + 1)
        /\ \A k \in 0..N : addresses[k + 1] = R(k).remote
    BY <2>0, AddressesOfTheWay
  <2>3. Arriving(j) = R(N) /\ R(N) \in PossibleRequests
    BY <2>1 DEF Arriving
  <2>4. 0 \in U /\ U \in SUBSET (0..N)
    BY <2>1
  <2> HIDE DEF addresses, R, N
  <2>5. PICK p \in U : \A k \in U : k <= p
    <3> HIDE DEF U
    <3> QED  BY <2>1, <2>4, GreatestNumber
  <2>6. p \in 0..N /\ R(p).remote \notin config.trusted
    OBVIOUS
  <2>7. ASSUME NEW n \in (p + 1)..N
        PROVE  R(n).remote \in config.trusted /\ n \in proxies
    <3>1. n \in 0..N /\ n \in 1..N /\ ~(n <= p)
      BY <2>1, <2>6
    <3>2. R(n).remote \in config.trusted
      BY <2>5, <3>1
    <3> QED  BY <2>1, <3>1, <3>2
  <2>8. \A x \in way : x \in ToSet(addresses)
    <3> SUFFICES ASSUME NEW k \in 0..N PROVE R(k).remote \in ToSet(addresses)
      OBVIOUS
    <3>1. k + 1 \in DOMAIN addresses /\ addresses[k + 1] = R(k).remote
      BY <2>1, <2>2
    <3> QED  BY <3>1, Zenon DEF ToSet
  <2>9. \A k \in (p + 2)..Len(addresses) : addresses[k] \in config.trusted
    <3> SUFFICES ASSUME NEW k \in (p + 2)..Len(addresses) PROVE addresses[k] \in config.trusted
      OBVIOUS
    <3>1. k - 1 \in (p + 1)..N /\ k - 1 \in 0..N /\ (k - 1) + 1 = k
      BY <2>1, <2>2, <2>6
    <3>2. addresses[(k - 1) + 1] = R(k - 1).remote
      BY <2>2, <3>1
    <3> QED  BY <2>7, <3>1, <3>2
  <2>10. client = R(p).remote =>
           /\ client \in ToSet(addresses)
           /\ \E n \in DOMAIN addresses :
                /\ client = addresses[n] /\ client \notin config.trusted
                /\ \A k \in (n + 1)..Len(addresses) : addresses[k] \in config.trusted
    <3> HIDE DEF client
    <3>1. p + 1 \in DOMAIN addresses /\ addresses[p + 1] = R(p).remote
      BY <2>1, <2>2, <2>6
    <3>2. R(p).remote \in ToSet(addresses)
      BY <2>6, <2>8
    <3>3. (p + 1) + 1 = p + 2
      BY <2>1, <2>6
    <3> QED  BY <2>6, <2>9, <3>1, <3>2, <3>3
  <2>11. CASE p = N
    <3>1. client = R(N).remote
      BY <2>3, <2>6, <2>11 DEF clientIP
    <3> QED  BY <2>10, <2>11, <3>1, Zenon DEF addresses
  <2>12. CASE p # N /\ \A i \in proxies : Maintains(j.hops[i].for)
    <3>1. N \in (p + 1)..N
      BY <2>1, <2>6, <2>12
    <3>2. R(N).remote \in config.trusted
      BY <2>7, <3>1
    <3>3. \A n \in (p + 1)..N : R(n).remote \in config.trusted /\ Maintains(j.hops[n].for)
      BY <2>7, <2>12
    <3>4. \/ EndsWith(R(N).for, R(p).remote, config.trusted)
          \/ /\ OnlyTrusted(R(N).for, way, config.trusted)
             /\ \E k \in (p + 1)..N : j.hops[k].for # "append"
      BY <2>0, <2>6, <3>1, <3>3, WayIsWrittenDown DEF R, N
    <3>5. \A x \in way : x # Garbage
      BY <2>1, RequestsAssumption DEF PossibleRequests
    <3>6. R(p).remote # Garbage
      BY <2>6, <3>5
    <3>7. CASE EndsWith(R(N).for, R(p).remote, config.trusted)
      <4>1. PICK m \in DOMAIN R(N).for :
              /\ R(N).for[m] = R(p).remote
              /\ \A i \in DOMAIN R(N).for : i > m => R(N).for[i] \in config.trusted
        BY <3>7 DEF EndsWith
      <4>2. client = R(p).remote
        <5>1. clientIP(R(N), config.trusted) = R(N).for[m]
          BY <2>3, <2>6, <3>2, <3>6, <4>1, KnownByLastUntrusted
        <5> QED  BY <2>3, <4>1, <5>1
      <4> QED  BY <2>10, <4>2, Zenon DEF addresses
    <3>8. CASE /\ OnlyTrusted(R(N).for, way, config.trusted)
               /\ \E k \in (p + 1)..N : j.hops[k].for # "append"
      <4>1. \A i \in DOMAIN R(N).for : /\ R(N).for[i] \in way
                                       /\ R(N).for[i] \in config.trusted
                                       /\ R(N).for[i] # Garbage
        BY <3>5, <3>8 DEF OnlyTrusted
      <4>2. \E i \in DOMAIN R(N).for : clientIP(R(N), config.trusted) = R(N).for[i]
        BY <2>3, <3>2, <3>8, <4>1, KnownByFirstAddress DEF OnlyTrusted
      <4>3. client \in way
        BY <2>3, <4>1, <4>2
      <4>4. client \in ToSet(addresses)
        BY <2>8, <4>3
      <4>5. ~ \A i \in proxies : j.hops[i].for = "append"
        BY <2>7, <3>8
      <4> QED  BY <4>4, <4>5, Zenon DEF addresses
    <3> QED  BY <3>4, <3>7, <3>8
  <2>13. (\A i \in proxies : j.hops[i].for = "append")
           => \A i \in proxies : Maintains(j.hops[i].for)
    BY DEF Maintains
  <2> QED  BY <2>11, <2>12, <2>13, Zenon
<1> QED  BY <1>1, AlwaysRequestsInv, PTL

\* Cleaning takes one segment after the other.
LEMMA CleanedDefinition ==
  ASSUME NEW path, Len(path) \in Nat
  PROVE  Cleaned(path) = [n \in 0..Len(path) |->
           IF n = 0 THEN <<>> ELSE Descend(Cleaned(path)[n - 1], path[n])]
<1> DEFINE Defines(g, k) ==
             g = [n \in 0..k |-> IF n = 0 THEN <<>> ELSE Descend(g[n - 1], path[n])]
           S == {k \in Nat : \E g : Defines(g, k)}
<1>1. 0 \in S
  <2> DEFINE g == [n \in 0..0 |-> <<>>]
  <2>1. g = [n \in 0..0 |-> IF n = 0 THEN <<>> ELSE Descend(g[n - 1], path[n])]
    OBVIOUS
  <2> HIDE DEF g
  <2>2. Defines(g, 0)
    BY <2>1
  <2> QED  BY <2>2
<1>2. ASSUME NEW k \in Nat, k \in S PROVE k + 1 \in S
  <2>1. PICK g : Defines(g, k)
    BY <1>2
  <2> DEFINE h == [n \in 0..(k + 1) |->
                     IF n = k + 1 THEN Descend(g[k], path[k + 1]) ELSE g[n]]
  <2>2. ASSUME NEW n \in 0..(k + 1)
        PROVE  h[n] = IF n = 0 THEN <<>> ELSE Descend(h[n - 1], path[n])
    <3>1. CASE n = k + 1
      <4>1. h[k + 1] = Descend(g[k], path[k + 1])
        OBVIOUS
      <4>2. h[k] = g[k]
        OBVIOUS
      <4>3. n # 0 /\ n - 1 = k
        BY <3>1
      <4> HIDE DEF h
      <4> QED  BY <3>1, <4>1, <4>2, <4>3
    <3>2. CASE n # k + 1
      <4>0. n \in 0..k
        BY <3>2
      <4>1. n \in 0..k /\ h[n] = g[n]
        BY <3>2, <4>0
      <4>2. n # 0 => h[n - 1] = g[n - 1]
        BY <4>1
      <4>3. g[n] = IF n = 0 THEN <<>> ELSE Descend(g[n - 1], path[n])
        BY <2>1, <4>1
      <4> HIDE DEF h
      <4> QED  BY <4>1, <4>2, <4>3
    <3> QED  BY <3>1, <3>2
  <2>3. h = [n \in 0..(k + 1) |-> h[n]]
    OBVIOUS
  <2>4. Defines(h, k + 1)
    <3> HIDE DEF h
    <3> QED  BY <2>2, <2>3
  <2>5. k + 1 \in Nat
    OBVIOUS
  <2> HIDE DEF h, Defines
  <2> QED  BY <2>4, <2>5
<1>3. \A k \in Nat : k \in S
  <2> HIDE DEF S
  <2> QED  BY <1>1, <1>2, SetInduction
<1>4. \E g : Defines(g, Len(path))
  <2>1. Len(path) \in S
    BY <1>3
  <2> HIDE DEF Defines
  <2> QED  BY <2>1
<1> QED  BY <1>4 DEF Cleaned

Dots == {"", ".", ".."}

\* A clean path has no segment that stands for itself or for the one above.
LEMMA CleanPaths ==
  ASSUME NEW S, NEW path \in Seq(S)
  PROVE  /\ Clean(path) \in Seq(S \ Dots)
         /\ path \in Seq(S \ Dots) => Clean(path) = path
<1> DEFINE C(n) == Cleaned(path)[n]
           W == S \ Dots
<1>1. Len(path) \in Nat /\ DOMAIN path = 1..Len(path) /\ \A n \in 1..Len(path) : path[n] \in S
  OBVIOUS
<1>2. \A n \in 0..Len(path) : C(n) = IF n = 0 THEN <<>> ELSE Descend(C(n - 1), path[n])
  BY <1>1, CleanedDefinition, Zenon
<1>3. C(0) = <<>>
  BY <1>1, <1>2
<1>4. \A n \in Nat : n + 1 <= Len(path) => C(n + 1) = Descend(C(n), path[n + 1])
  <2> SUFFICES ASSUME NEW n \in Nat, n + 1 <= Len(path)
               PROVE  C(n + 1) = Descend(C(n), path[n + 1])
    OBVIOUS
  <2>1. n + 1 \in 0..Len(path) /\ n + 1 # 0 /\ (n + 1) - 1 = n
    BY <1>1
  <2> HIDE DEF C
  <2> QED  BY <1>2, <2>1
<1> HIDE DEF C
<1>5. ASSUME NEW done \in Seq(W), NEW s \in S PROVE Descend(done, s) \in Seq(W)
  <2>1. CASE s \in {"", "."}
    BY <2>1 DEF Descend
  <2>2. CASE s = ".."
    <3>1. Descend(done, s) = SubSeq(done, 1, Len(done) - 1)
      BY <2>2 DEF Descend
    <3>2. Len(done) - 1 \in Int /\ \A i \in 1..(Len(done) - 1) : done[i] \in W
      OBVIOUS
    <3> HIDE DEF W
    <3> QED  BY <3>1, <3>2, SubSeqProperties
  <2>3. CASE s \notin Dots
    <3>1. Descend(done, s) = Append(done, s) /\ s \in W
      BY <2>3 DEF Descend, Dots
    <3> HIDE DEF W
    <3> QED  BY <3>1
  <2> QED  BY <2>1, <2>2, <2>3 DEF Dots
<1>6. Clean(path) \in Seq(W)
  <2> DEFINE T == {n \in Nat : n <= Len(path) => C(n) \in Seq(W)}
  <2>1. 0 \in T
    <3>1. <<>> \in Seq(W)
      <4> HIDE DEF W
      <4> QED  BY EmptySeq
    <3> HIDE DEF W
    <3> QED  BY <1>3, <3>1
  <2>2. ASSUME NEW n \in Nat, n \in T PROVE n + 1 \in T
    <3> SUFFICES ASSUME n + 1 <= Len(path) PROVE C(n + 1) \in Seq(W)
      OBVIOUS
    <3>1. C(n) \in Seq(W) /\ path[n + 1] \in S
      BY <1>1, <2>2
    <3> HIDE DEF W
    <3> QED  BY <1>4, <1>5, <3>1
  <2>3. \A n \in Nat : n \in T
    <3> HIDE DEF T
    <3> QED  BY <2>1, <2>2, SetInduction
  <2> HIDE DEF W
  <2> QED  BY <1>1, <2>3 DEF Clean, C
<1>7. ASSUME path \in Seq(W) PROVE Clean(path) = path
  <2> DEFINE T == {n \in Nat : n <= Len(path) => C(n) = SubSeq(path, 1, n)}
  <2>1. 0 \in T
    <3>1. SubSeq(path, 1, 0) = <<>>
      BY SubSeqEmpty
    <3> QED  BY <1>3, <3>1
  <2>2. ASSUME NEW n \in Nat, n \in T PROVE n + 1 \in T
    <3> SUFFICES ASSUME n + 1 <= Len(path) PROVE C(n + 1) = SubSeq(path, 1, n + 1)
      OBVIOUS
    <3>1. C(n) = SubSeq(path, 1, n) /\ path[n + 1] \in W
      BY <1>1, <1>7, <2>2
    <3>2. C(n + 1) = Append(SubSeq(path, 1, n), path[n + 1])
      <4>1. C(n + 1) = Descend(SubSeq(path, 1, n), path[n + 1])
        BY <1>4, <3>1
      <4>2. path[n + 1] \notin {"", "."} /\ path[n + 1] # ".."
        BY <3>1 DEF Dots
      <4> QED  BY <4>1, <4>2, Zenon DEF Descend
    <3>3. SubSeq(path, 1, n + 1) = Append(SubSeq(path, 1, n), path[n + 1])
      <4>1. \A i \in 1..(n + 1) : path[i] \in S
        BY <1>1
      <4> QED  BY <4>1
    <3> QED  BY <3>2, <3>3
  <2>3. \A n \in Nat : n \in T
    <3> HIDE DEF T
    <3> QED  BY <2>1, <2>2, SetInduction
  <2>4. C(Len(path)) = SubSeq(path, 1, Len(path))
    BY <1>1, <2>3
  <2>5. SubSeq(path, 1, Len(path)) = path
    BY SubSeqFull
  <2> QED  BY <2>4, <2>5 DEF Clean, C
<1> QED  BY <1>6, <1>7

Endpoints == {"healthz", "keys", "jwks.json"}

\* The path of a login page: its last segment but one is "login".
LEMMA LoginPaths ==
  ASSUME NEW path \in Seq(Words), serveHTTP(path)[1] = "login"
  PROVE  LET c == Clean(path)
         IN /\ c \in Seq(Words \ Dots) /\ Len(c) - 2 \in Nat
            /\ c[Len(c) - 1] = "login" /\ c[Len(c)] \notin Endpoints
            /\ serveHTTP(path)[2] = c[Len(c)]
<1> DEFINE c == Clean(path)
           bot == c[Len(c)]
<1>1. c \in Seq(Words \ Dots)
  BY CleanPaths
<1>2. Len(c) \in Nat /\ (c # <<>> <=> Len(c) # 0)
  BY <1>1
<1>3. serveHTTP(path) =
        IF pathHasSuffix(path, "healthz") THEN <<"health">>
        ELSE IF pathHasSuffix(path, "keys") \/ pathHasSuffix(path, "jwks.json") THEN <<"keys">>
        ELSE IF matchEndpoint(path, LoginEndpoint) THEN <<"login", bot>>
        ELSE IF matchEndpoint(path, AuthEndpoint) THEN <<"auth", bot>>
        ELSE <<"not found">>
  BY Zenon DEF serveHTTP
<1> HIDE DEF c, bot
<1>4. /\ ~pathHasSuffix(path, "healthz")
      /\ ~pathHasSuffix(path, "keys") /\ ~pathHasSuffix(path, "jwks.json")
      /\ matchEndpoint(path, LoginEndpoint) /\ serveHTTP(path) = <<"login", bot>>
  <2>1. /\ <<"health">>[1] # "login" /\ <<"keys">>[1] # "login"
        /\ <<"auth", bot>>[1] # "login" /\ <<"not found">>[1] # "login"
    OBVIOUS
  <2> QED  BY <1>3, <2>1, Zenon
<1>5. PrefixLength(path, LoginEndpoint) = Len(c) - 2 /\ Len(LoginEndpoint) = 1
  <2>1. Len(LoginEndpoint) = 1
    BY DEF LoginEndpoint
  <2> QED  BY <1>2, <2>1 DEF PrefixLength, c
<1>6. Len(c) - 2 >= 0 /\ SubSeq(c, (Len(c) - 2) + 1, (Len(c) - 2) + 1) = LoginEndpoint
  BY <1>4, <1>5 DEF matchEndpoint, c
<1>7. Len(c) - 2 \in Nat /\ c # <<>> /\ (Len(c) - 2) + 1 = Len(c) - 1
  BY <1>2, <1>6
<1>8. c[Len(c) - 1] = "login"
  <2>1. SubSeq(c, Len(c) - 1, Len(c) - 1)[1] = c[Len(c) - 1]
    BY <1>1, <1>7
  <2>2. LoginEndpoint[1] = "login"
    BY DEF LoginEndpoint
  <2> QED  BY <1>6, <1>7, <2>1, <2>2
<1>9. bot \notin Endpoints
  BY <1>4, <1>7 DEF pathHasSuffix, Endpoints, c, bot
<1> QED  BY <1>1, <1>4, <1>7, <1>8, <1>9 DEF c, bot

\* The path beside a login page's that the form is posted to leads to the same bot.
LEMMA AuthPaths ==
  ASSUME NEW S, NEW c \in Seq(S \ Dots), Len(c) - 2 \in Nat, c[Len(c)] \notin Endpoints
  PROVE  LET n == Len(c) - 2
             action == SubSeq(c, 1, n) \o AuthEndpoint \o <<c[Len(c)]>>
         IN /\ serveHTTP(action) = <<"auth", c[Len(c)]>>
            /\ Len(action) = n + 3 /\ DOMAIN action = 1..(n + 3)
            /\ \A i \in 1..n : action[i] = c[i]
            /\ action \in Seq((S \cup {"auth", "telegram"}) \ Dots)
<1> DEFINE n == Len(c) - 2
           bot == c[Len(c)]
           T == S \cup {"auth", "telegram"}
           W == T \ Dots
           front == SubSeq(c, 1, n)
           middle == front \o AuthEndpoint
           action == middle \o <<bot>>
<1>1. n \in Nat /\ Len(c) = n + 2 /\ bot \in W /\ \A i \in 1..n : c[i] \in W
  <2>1. Len(c) \in Nat /\ n \in Nat /\ Len(c) = n + 2 /\ Len(c) \in 1..Len(c)
    OBVIOUS
  <2> DEFINE D == S \ Dots
  <2>2. \A i \in 1..Len(c) : c[i] \in D
    <3> HIDE DEF D
    <3> QED  BY ElementOfSeq DEF D
  <2>3. \A x : x \in D => x \in W
    OBVIOUS
  <2>4. \A i \in 1..n : i \in 1..Len(c)
    BY <2>1
  <2> HIDE DEF D, W, n
  <2> QED  BY <2>1, <2>2, <2>3, <2>4
<1>2. /\ AuthEndpoint \in Seq(W) /\ Len(AuthEndpoint) = 2
      /\ AuthEndpoint[1] = "auth" /\ AuthEndpoint[2] = "telegram"
  <2>1. "auth" \in W /\ "telegram" \in W
    BY DEF Dots
  <2> HIDE DEF W
  <2> QED  BY <2>1 DEF AuthEndpoint
<1> HIDE DEF n, W, bot
<1>3. front \in Seq(W) /\ Len(front) = n /\ \A i \in 1..n : front[i] = c[i]
  <2>1. front \in Seq(W)
    BY <1>1, SubSeqProperties
  <2>2. Len(front) = n
    BY <1>1, SubSeqProperties
  <2>3. \A i \in 1..n : front[i] = c[i]
    BY <1>1, SubSeqProperties
  <2> QED  BY <2>1, <2>2, <2>3
<1> HIDE DEF front
<1>4. /\ middle \in Seq(W) /\ Len(middle) = Len(front) + Len(AuthEndpoint)
      /\ \A i \in 1..(Len(front) + Len(AuthEndpoint)) :
           middle[i] = IF i <= Len(front) THEN front[i] ELSE AuthEndpoint[i - Len(front)]
  BY <1>2, <1>3, ConcatProperties, Zenon
<1>5. <<bot>> \in Seq(W) /\ Len(<<bot>>) = 1 /\ <<bot>>[1] = bot
  BY <1>1
<1> HIDE DEF middle
<1>6. /\ action \in Seq(W) /\ Len(action) = Len(middle) + Len(<<bot>>)
      /\ \A i \in 1..(Len(middle) + Len(<<bot>>)) :
           action[i] = IF i <= Len(middle) THEN middle[i] ELSE <<bot>>[i - Len(middle)]
  BY <1>4, <1>5, ConcatProperties, Zenon
<1> HIDE DEF action
<1>7. Len(middle) = n + 2 /\ Len(action) = n + 3 /\ DOMAIN action = 1..(n + 3)
  BY <1>1, <1>2, <1>3, <1>4, <1>5, <1>6
<1>8. ASSUME NEW i \in 1..n PROVE action[i] = c[i]
  <2>1. i \in 1..(n + 2) /\ i \in 1..(n + 3) /\ i <= n /\ i <= n + 2
    BY <1>1
  <2> QED  BY <1>2, <1>3, <1>4, <1>5, <1>6, <1>7, <2>1
<1>9. action[n + 1] = "auth"
  <2>1. n + 1 \in 1..(n + 3) /\ n + 1 \in 1..(n + 2) /\ n + 1 <= n + 2 /\ ~(n + 1 <= n)
        /\ (n + 1) - n = 1
    BY <1>1
  <2> QED  BY <1>2, <1>3, <1>4, <1>5, <1>6, <1>7, <2>1
<1>10. action[n + 2] = "telegram"
  <2>1. n + 2 \in 1..(n + 3) /\ n + 2 \in 1..(n + 2) /\ n + 2 <= n + 2 /\ ~(n + 2 <= n)
        /\ (n + 2) - n = 2
    BY <1>1
  <2> QED  BY <1>2, <1>3, <1>4, <1>5, <1>6, <1>7, <2>1
<1>11. action[n + 3] = bot
  <2>1. n + 3 \in 1..(n + 3) /\ ~(n + 3 <= n + 2) /\ (n + 3) - (n + 2) = 1
    BY <1>1
  <2> QED  BY <1>5, <1>6, <1>7, <2>1
<1>12. Clean(action) = action
  <2>1. action \in Seq(T \ Dots) /\ action \in Seq(T)
    <3>1. action \in Seq(T \ Dots)
      BY <1>6 DEF W
    <3>2. T \ Dots \subseteq T
      OBVIOUS
    <3> HIDE DEF T
    <3> QED  BY <3>1, <3>2, SeqMonotonic
  <2> HIDE DEF T
  <2> QED  BY <2>1, CleanPaths
<1>13. \A s \in Endpoints : ~pathHasSuffix(action, s)
  BY <1>7, <1>11, <1>12 DEF pathHasSuffix, bot
<1>14. ~matchEndpoint(action, LoginEndpoint)
  <2>1. PrefixLength(action, LoginEndpoint) = n + 1 /\ Len(LoginEndpoint) = 1
        /\ LoginEndpoint[1] = "login"
    <3>1. Len(LoginEndpoint) = 1 /\ LoginEndpoint[1] = "login"
      BY DEF LoginEndpoint
    <3> QED  BY <1>1, <1>7, <1>12, <3>1 DEF PrefixLength
  <2>2. SubSeq(action, (n + 1) + 1, (n + 1) + 1)[1] = "telegram"
    BY <1>1, <1>6, <1>7, <1>10
  <2> QED  BY <1>12, <2>1, <2>2 DEF matchEndpoint
<1>15. matchEndpoint(action, AuthEndpoint)
  <2>1. PrefixLength(action, AuthEndpoint) = n
    BY <1>1, <1>2, <1>7, <1>12 DEF PrefixLength
  <2> DEFINE part == SubSeq(action, n + 1, n + 2)
  <2>2. part \in Seq(W) /\ Len(part) = 2 /\ part[1] = action[n + 1] /\ part[2] = action[n + 2]
    <3>1. n + 1 \in Int /\ n + 2 \in Int /\ \A i \in (n + 1)..(n + 2) : action[i] \in W
      BY <1>1, <1>6, <1>7
    <3> QED  BY <1>1, <1>6, <1>7, <3>1
  <2>3. part = AuthEndpoint
    <3> HIDE DEF part
    <3>1. \A i \in 1..Len(part) : part[i] = AuthEndpoint[i]
      BY <1>2, <1>9, <1>10, <2>2
    <3> QED  BY <1>2, <2>2, <3>1, SeqEqual
  <2> QED  BY <1>1, <1>2, <1>12, <2>1, <2>3 DEF matchEndpoint
<1>16. serveHTTP(action) = <<"auth", bot>>
  BY <1>7, <1>11, <1>12, <1>13, <1>14, <1>15 DEF serveHTTP, Endpoints
<1> QED  BY <1>6, <1>7, <1>8, <1>16 DEF n, bot, W, front, middle, action

\* A login started through the proxies as the operator has them reaches ZITADEL with
\* what it was started with.
THEOREM LoginReachesZitadelHolds == Spec => []LoginReachesZitadel
<1>1. RequestsInv => LoginReachesZitadel
  <2> SUFFICES ASSUME RequestsInv, Rendered
               PROVE
                 /\ IsPrefix(Mount, Clean(login.path)) =>
                      /\ IsPrefix(Mount, AuthAction(login.path, Bot))
                      /\ serveHTTP(AuthAction(login.path, Bot)) = <<"auth", Bot>>
                 /\ mergeZitadelQuery(login.query) = [refused |-> FALSE, query |-> Parameters(login.query)]
                 /\ WellConfigured(login.journey) /\ WellConfigured(callback.journey) =>
                      /\ SessionFound
                      /\ callback.host = "iam" =>
                           Forwarded = callback.cookies \cap {config.settings["user_agent_cookie"]}
                 /\ Forwarded \cap SessionCookies = {}
    BY Zenon DEF LoginReachesZitadel
  <2>1. /\ login.path \in Seq(Words) /\ login.query \in PossibleQueries
        /\ login.journey \in PossibleJourneys /\ callback.journey \in PossibleJourneys
        /\ config = Configured(raw)
    BY DEF RequestsInv
  <2>2. IsPrefix(Mount, Clean(login.path)) =>
          /\ IsPrefix(Mount, AuthAction(login.path, Bot))
          /\ serveHTTP(AuthAction(login.path, Bot)) = <<"auth", Bot>>
    <3> DEFINE c == Clean(login.path)
               n == Len(c) - 2
               m == Len(Mount)
               action == SubSeq(c, 1, n) \o AuthEndpoint \o <<c[Len(c)]>>
    <3>1. /\ c \in Seq(Words \ Dots) /\ n \in Nat /\ c[Len(c) - 1] = "login"
          /\ c[Len(c)] \notin Endpoints /\ Bot = c[Len(c)]
      BY <2>1, LoginPaths DEF Rendered, Bot
    <3>2. AuthAction(login.path, Bot) = action
      <4>1. Len(LoginEndpoint) = 1
        BY DEF LoginEndpoint
      <4>2. PrefixLength(login.path, LoginEndpoint) = n
        BY <3>1, <4>1 DEF PrefixLength
      <4> QED  BY <3>1, <4>2, Zenon DEF AuthAction
    <3>3. /\ serveHTTP(action) = <<"auth", Bot>>
          /\ Len(action) = n + 3 /\ \A i \in 1..n : action[i] = c[i]
          /\ action \in Seq((Words \cup {"auth", "telegram"}) \ Dots)
      BY <3>1, AuthPaths
    <3>4. Mount \in Seq(Words) /\ \A i \in DOMAIN Mount : i >= m - 1 => Mount[i] # "login"
      BY RequestsAssumption
    <3>5. ASSUME IsPrefix(Mount, c) PROVE IsPrefix(Mount, action)
      <4>1. /\ m \in Nat /\ m <= Len(c) /\ Len(c) = n + 2
            /\ \A i \in 1..m : (i >= m - 1 => Mount[i] # "login") /\ Mount[i] \in Words
        BY <3>1, <3>4, <3>5 DEF IsPrefix
      <4>2. SubSeq(Mount, 1, m) = SubSeq(c, 1, m)
        BY <3>5 DEF IsPrefix
      <4>3. \A i \in 1..m : Mount[i] = c[i]
        <5>1. Mount \in Seq(Words) /\ Len(Mount) = m
          BY <3>4
        <5>2. SubSeq(Mount, 1, m) = Mount
          BY <5>1, SubSeqFull
        <5>3. \A i \in 1..m : SubSeq(c, 1, m)[i] = c[i]
          <6> HIDE DEF c, m
          <6> QED  BY <3>1, <4>1
        <5> HIDE DEF c, m
        <5> QED  BY <4>2, <5>2, <5>3
      <4>4. m <= n
        <5> SUFFICES ASSUME ~(m <= n) PROVE FALSE
          OBVIOUS
        <5>1. n + 1 \in 1..m /\ Len(c) - 1 = n + 1 /\ n + 1 >= m - 1
          BY <3>1, <4>1
        <5> HIDE DEF c, m, n
        <5> QED  BY <3>1, <4>1, <4>3, <5>1
      <4>5. \A i \in 1..m : action[i] = Mount[i]
        <5> HIDE DEF c, m, n, action
        <5> QED  BY <3>1, <3>3, <4>1, <4>3, <4>4
      <4>6. SubSeq(Mount, 1, m) = SubSeq(action, 1, m)
        <5> HIDE DEF c, n, action
        <5> DEFINE s == SubSeq(Mount, 1, m)
                   t == SubSeq(action, 1, m)
        <5>1. \A i \in 1..m : action[i] \in Words /\ Mount[i] \in Words
          BY <4>1, <4>5
        <5> HIDE DEF m
        <5>2. s \in Seq(Words) /\ Len(s) = m /\ \A i \in 1..m : s[i] = Mount[i]
          BY <4>1, <5>1
        <5>3. t \in Seq(Words) /\ Len(t) = m /\ \A i \in 1..m : t[i] = action[i]
          BY <4>1, <5>1
        <5> HIDE DEF s, t
        <5>4. s = t
          BY <4>5, <5>2, <5>3, SeqEqual
        <5> QED  BY <5>4 DEF s, t
      <4>7. m <= Len(action)
        <5> HIDE DEF c, m, n, action
        <5> QED  BY <3>1, <3>3, <4>1, <4>4
      <4> QED  BY <4>6, <4>7 DEF IsPrefix
    <3> QED  BY <3>2, <3>3, <3>5, Zenon
  <2>3. mergeZitadelQuery(login.query) = [refused |-> FALSE, query |-> Parameters(login.query)]
    BY <2>1 DEF Rendered, canonicalizeLoginQuery, mergeZitadelQuery
  <2>4. config.settings["user_agent_cookie"] \notin SessionCookies
    <3>1. config.settings = finalizeConfig(raw) /\ ParseConfig(raw)
      BY <2>1 DEF Rendered, Configured
    <3> QED  BY <3>1 DEF ParseConfig, settingsValid
  <2>5. \A secure : loginSessionCookieName(secure) \in SessionCookies
    BY DEF loginSessionCookieName, SessionCookies
  <2>6. \A x \in Forwarded : x = config.settings["user_agent_cookie"]
    BY DEF Forwarded, zitadelUserAgentCookie
  <2>7. ASSUME WellConfigured(login.journey), WellConfigured(callback.journey)
        PROVE  /\ SessionFound
               /\ callback.host = "iam" =>
                    Forwarded = callback.cookies \cap {config.settings["user_agent_cookie"]}
    <3>1. \A j \in PossibleJourneys : WellConfigured(j) =>
            IsSecure(j) /\ SecureCookies(j) /\ BrowserScheme(j) = "https"
      <4> SUFFICES ASSUME NEW j \in PossibleJourneys, WellConfigured(j)
                   PROVE  IsSecure(j) /\ SecureCookies(j) /\ BrowserScheme(j) = "https"
        OBVIOUS
      <4>1. j.hops # <<>> /\ \A i \in DOMAIN j.hops : j.hops[i].scheme = "https"
        BY DEF WellConfigured
      <4>2. DOMAIN j.hops = 1..Len(j.hops) /\ Len(j.hops) \in Nat /\ Len(j.hops) # 0
        BY <4>1 DEF PossibleJourneys
      <4>3. Nearest(j).scheme = "https" /\ BrowserScheme(j) = "https"
        BY <4>1, <4>2 DEF Nearest, BrowserScheme
      <4>4. IsSecure(j)
        BY <4>1, <4>3, NearestDecides DEF WellConfigured
      <4> QED  BY <4>3, <4>4 DEF SecureCookies, secureCookies
    <3>2. /\ IsSecure(callback.journey)
          /\ SecureCookies(login.journey) /\ SecureCookies(callback.journey)
          /\ BrowserScheme(login.journey) = "https" /\ BrowserScheme(callback.journey) = "https"
      BY <2>1, <2>7, <3>1
    <3>3. SessionFound
      BY <3>2 DEF SessionFound, loginSessionCookieName
    <3>4. Endpoint(config.settings["jwt_endpoint"]).host = "iam"
      BY DEF Endpoint, Url
    <3>5. ASSUME callback.host = "iam"
          PROVE  Forwarded = callback.cookies \cap {config.settings["user_agent_cookie"]}
      BY <2>4, <2>5, <3>2, <3>4, <3>5 DEF Forwarded, zitadelUserAgentCookie
    <3> QED  BY <3>3, <3>5
  <2>8. Forwarded \cap SessionCookies = {}
    BY <2>4, <2>6
  <2> QED  BY <2>2, <2>3, <2>7, <2>8
<1> QED  BY <1>1, AlwaysRequestsInv, PTL
=============================================================================
