--------------------------- MODULE RegistrationForm ---------------------------
(***************************************************************************)
(* When proxyToZitadel passes ZITADEL's registration form on to the        *)
(* browser instead of refusing the response, and what the browser can then *)
(* do with it.  The form is served by this service but works only if every *)
(* way of submitting it reaches ZITADEL: at the action ZITADEL expects, by *)
(* POST, with every field once, and with the user-agent cookie that bound  *)
(* the authentication request.                                             *)
(*                                                                         *)
(* A document is a function from node to record.  A node's parent is a     *)
(* smaller number, and node 1 is the root.  One record shape serves all    *)
(* elements: an action is a form's action or a control's formaction,       *)
(* likewise a method; "registration" is one of the actions                 *)
(* isZitadelRegistrationAction accepts, "elsewhere" any other.  The        *)
(* variables are the input of one call: the response and the request it is *)
(* answered with, an ordinary pair and what up to MaxEdits changes make of *)
(* them.                                                                   *)
(***************************************************************************)
EXTENDS Integers, FiniteSets, Sequences

CONSTANTS
  HiddenFields,    \* required fields that must be hidden inputs
  EditableFields,  \* required fields that the user must be able to change
  OtherName,       \* the name of any other control, or no name
  MaxEdits         \* bound on the differences from the ordinary case

ASSUME RegistrationFormAssumption ==
  /\ HiddenFields \cap EditableFields = {}
  /\ IsFiniteSet(HiddenFields \cup EditableFields)
  /\ OtherName \notin HiddenFields \cup EditableFields
  /\ MaxEdits \in Nat

VARIABLES
  doc,       \* the parsed body of ZITADEL's response
  exchange,  \* the rest of the response, and the browser's request
  edits      \* how far the two are from the ordinary case

formVars == <<doc, exchange, edits>>

Fields == HiddenFields \cup EditableFields

\* An origin is a host and a port.  ZITADEL's, another service of the same host,
\* and another host.
Zitadel == <<"iam", 443>>
Origins == {Zitadel, <<"iam", 8443>>, <<"other", 443>>}

Tags == {"div", "form", "fieldset", "base", "input", "button"}
Types == {"hidden", "text", "submit"}
Actions == {"none", "registration", "elsewhere"}
Methods == {"none", "post", "get"}
Attributes == {"value", "required", "readonly", "disabled", "hidden", "form"}

Element(tag, parent) ==
  [tag |-> tag, parent |-> parent, name |-> OtherName, type |-> "text",
   action |-> "none", method |-> "none", attrs |-> {}]

Nodes == DOMAIN doc

\* The elements around a node.
Ancestors[n \in Nodes] ==
  IF n = 1 THEN {} ELSE {doc[n].parent} \cup Ancestors[doc[n].parent]

Has(n, attribute) == attribute \in doc[n].attrs

Inputs == {n \in Nodes : doc[n].tag = "input"}
Forms == {n \in Nodes : doc[n].tag = "form"}
Within(form) == {n \in Nodes : form \in Ancestors[n]}

-----------------------------------------------------------------------------
(* The recogniser.                                                         *)

\* Mutant: a control may name the form it belongs to.
UnsafeOverrideIgnoringOwner(n) ==
  \/ doc[n].tag # "form" /\ doc[n].method \notin {"none", "post"}
  \/ doc[n].tag # "form" /\ doc[n].action \notin {"none", "registration"}
  \/ doc[n].tag = "fieldset" /\ Has(n, "disabled")
  \/ doc[n].tag = "input" /\ Has(n, "hidden") /\ doc[n].name \in EditableFields

\* Mutant: only what changes the destination counts.
UnsafeOverrideOfTarget(n) ==
  \/ Has(n, "form")
  \/ doc[n].tag # "form" /\ doc[n].method \notin {"none", "post"}
  \/ doc[n].tag # "form" /\ doc[n].action \notin {"none", "registration"}

\* hasUnsafeZitadelRegistrationOverride, at one node.
UnsafeOverride(n) ==
  \/ Has(n, "form")
  \/ doc[n].tag # "form" /\ doc[n].method \notin {"none", "post"}
  \/ doc[n].tag # "form" /\ doc[n].action \notin {"none", "registration"}
  \/ doc[n].tag = "fieldset" /\ Has(n, "disabled")
  \/ doc[n].tag = "input" /\ Has(n, "hidden") /\ doc[n].name \in EditableFields

\* The requirements on the input that stands for a required field.
FieldValid(n) ==
  /\ doc[n].type = IF doc[n].name \in HiddenFields THEN "hidden" ELSE "text"
  /\ Has(n, "value")
  /\ ~Has(n, "disabled")
  /\ doc[n].name \in EditableFields => ~Has(n, "readonly") /\ Has(n, "required")

\* isZitadelRegistrationFormNode: the second sight of a field ends the visit.
isZitadelRegistrationFormNode(form) ==
  /\ doc[form].method = "post" /\ doc[form].action = "registration"
  /\ \A f \in Fields :
       LET found == {n \in Within(form) \cap Inputs : doc[n].name = f}
       IN Cardinality(found) = 1 /\ \A n \in found : FieldValid(n)
  /\ \A n \in Within(form) : doc[n].action \in {"none", "registration"}

\* hasZitadelRegistrationForm: the only form of the document is the registration.
hasZitadelRegistrationForm ==
  Cardinality(Forms) = 1 /\ \A form \in Forms : isZitadelRegistrationFormNode(form)

isZitadelRegistrationForm ==
  /\ exchange.htmlOK
  /\ \A n \in Nodes : doc[n].tag # "base"
  /\ \A n \in Nodes : ~UnsafeOverride(n)
  /\ hasZitadelRegistrationForm

-----------------------------------------------------------------------------
(* The relay.                                                              *)

\* zitadelUserAgentCookie: compares the host names, without the ports.
forwardUserAgent ==
  /\ exchange.secure
  /\ exchange.host[1] = Zitadel[1]
  /\ exchange.cookies = 1

registrationOriginAllowed ==
  /\ exchange.secure
  /\ exchange.public = Zitadel
  /\ exchange.public = exchange.host

\* proxyToZitadel answers with the form.
FormRelayed ==
  /\ exchange.whole
  /\ isZitadelRegistrationForm
  /\ forwardUserAgent
  /\ registrationOriginAllowed

-----------------------------------------------------------------------------
(* The browser.                                                            *)

\* A control belongs to the nearest form around it, unless it names another.
\* (Forms are not nested: the parser ignores a form inside a form.)
OwnedBy(form, n) == form \in Ancestors[n] /\ ~Has(n, "form")

Disabled(n) ==
  Has(n, "disabled") \/ \E a \in Ancestors[n] : doc[a].tag = "fieldset" /\ Has(a, "disabled")

Submitters(form) ==
  {n \in Nodes : /\ OwnedBy(form, n) /\ ~Disabled(n)
                 /\ doc[n].tag = "button" \/ (doc[n].tag = "input" /\ doc[n].type = "submit")}

\* The page's address is the request's, unless a base element replaces it.
BaseOrigin ==
  IF \E n \in Nodes : doc[n].tag = "base" THEN <<"other", 443>> ELSE exchange.host

Submission(form, submitter) ==
  [origin |-> BaseOrigin,
   action |-> IF doc[submitter].action # "none" THEN doc[submitter].action
              ELSE doc[form].action,
   method |-> IF doc[submitter].method # "none" THEN doc[submitter].method
              ELSE doc[form].method,
   controls |-> {n \in Inputs : OwnedBy(form, n) /\ ~Disabled(n) /\ doc[n].type # "submit"}
                  \cup ({submitter} \ {form}),
   cookie |-> exchange.cookies = 1 /\ BaseOrigin[1] = exchange.host[1]]

\* With a submitter, or by the Enter key in a form that has none.
Submissions ==
  UNION {{Submission(form, s) : s \in Submitters(form) \cup {form}} : form \in Forms}

-----------------------------------------------------------------------------
(* The inputs.                                                             *)

OrdinaryDoc ==
  LET field(f) == [Element("input", 2) EXCEPT
                     !.name = f,
                     !.type = IF f \in HiddenFields THEN "hidden" ELSE "text",
                     !.attrs = IF f \in HiddenFields THEN {"value"} ELSE {"value", "required"}]
      order == CHOOSE s \in [1..Cardinality(Fields) -> Fields] :
                 \A f \in Fields : \E i \in DOMAIN s : s[i] = f
  IN <<Element("div", 1),
       [Element("form", 1) EXCEPT !.action = "registration", !.method = "post"],
       [Element("button", 2) EXCEPT !.type = "submit", !.action = "registration"]>>
     \o [i \in DOMAIN order |-> field(order[i])]

OrdinaryExchange ==
  [htmlOK |-> TRUE, whole |-> TRUE, secure |-> TRUE,
   host |-> Zitadel, public |-> Zitadel, cookies |-> 1]

FormInit ==
  /\ doc = OrdinaryDoc
  /\ exchange = OrdinaryExchange
  /\ edits = 0

CanContain(n) == doc[n].tag \in {"div", "form", "fieldset"}

\* An element more, anywhere a parser can put it.
AddElement(tag, parent) ==
  /\ CanContain(parent)
  /\ tag = "form" => Forms \cap (Ancestors[parent] \cup {parent}) = {}
  /\ doc' = Append(doc, Element(tag, parent))
  /\ UNCHANGED exchange

\* The element is inside another one, which is inside the element's parent.
MoveInto(n, parent) ==
  /\ parent # n /\ CanContain(parent) /\ parent < n
  /\ Forms \cap {n} = {}
  /\ doc' = [doc EXCEPT ![n].parent = parent]
  /\ UNCHANGED exchange

ChangeElement(n) ==
  /\ \/ \E a \in Attributes :
          doc' = [doc EXCEPT ![n].attrs = (@ \ {a}) \cup ({a} \ @)]
     \/ \E a \in Actions : doc' = [doc EXCEPT ![n].action = a]
     \/ \E m \in Methods : doc' = [doc EXCEPT ![n].method = m]
     \/ \E f \in Fields \cup {OtherName} : doc' = [doc EXCEPT ![n].name = f]
     \/ \E t \in Types : doc' = [doc EXCEPT ![n].type = t]
  /\ UNCHANGED exchange

ChangeExchange ==
  /\ \/ exchange' = [exchange EXCEPT !.htmlOK = FALSE]
     \/ exchange' = [exchange EXCEPT !.whole = FALSE]
     \/ exchange' = [exchange EXCEPT !.secure = FALSE]
     \/ \E o \in Origins : exchange' = [exchange EXCEPT !.host = o]
     \/ \E o \in Origins : exchange' = [exchange EXCEPT !.public = o]
     \/ \E i \in 0..2 : exchange' = [exchange EXCEPT !.cookies = i]
  /\ UNCHANGED doc

FormNext ==
  /\ edits < MaxEdits
  /\ edits' = edits + 1
  /\ \/ \E tag \in Tags, parent \in Nodes : AddElement(tag, parent)
     \/ \E n \in Nodes \ {1} :
          (\E parent \in Nodes : MoveInto(n, parent)) \/ ChangeElement(n)
     \/ ChangeExchange

FormSpec == FormInit /\ [][FormNext]_formVars

-----------------------------------------------------------------------------
Elements ==
  [tag : Tags, parent : Nat, name : Fields \cup {OtherName}, type : Types,
   action : Actions, method : Methods, attrs : SUBSET Attributes]

\* A tree of elements: each but the root is inside one that comes before it.
IsDocument(d) ==
  /\ d \in Seq(Elements) /\ 1 \in DOMAIN d
  /\ \A n \in DOMAIN d \ {1} : d[n].parent \in 1..(n - 1)

\* The variables have their types.
FormTypeOK ==
  /\ IsDocument(doc)
  /\ exchange \in [htmlOK : BOOLEAN, whole : BOOLEAN, secure : BOOLEAN,
                   host : Origins, public : Origins, cookies : 0..2]
  /\ edits \in 0..MaxEdits

\* However a relayed page is submitted, the submission goes to ZITADEL, at the
\* registration's action, by POST, with the user-agent cookie, and carries each
\* required field from exactly one input, the hidden ones with the value ZITADEL
\* gave them.  (A button that bears a field's name is not looked at: if it is
\* what submits the form, it adds a value of its own.)
RelayedFormReachesZitadel ==
  FormRelayed => \A s \in Submissions :
    /\ s.origin = Zitadel /\ s.action = "registration" /\ s.method = "post" /\ s.cookie
    /\ \A f \in Fields : Cardinality({n \in s.controls \cap Inputs : doc[n].name = f}) = 1
    /\ \A n \in s.controls \cap Inputs : doc[n].name \in HiddenFields =>
         doc[n].type = "hidden" /\ Has(n, "value")

\* The user of a relayed page can change each editable field, so a name that
\* ZITADEL would refuse does not leave the user stuck on the page.  (A field can
\* still be inside an element that is not displayed: only the field is looked at.)
RelayedFormCanBeCompleted ==
  FormRelayed => \A f \in EditableFields : \E n \in Inputs :
    /\ doc[n].name = f /\ doc[n].type = "text"
    /\ \E form \in Forms : OwnedBy(form, n)
    /\ ~Disabled(n) /\ ~Has(n, "readonly") /\ ~Has(n, "hidden")
=============================================================================
