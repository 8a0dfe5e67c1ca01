----------------------------- MODULE MCRequests -----------------------------
(* The ordinary scenarios: settings in their sections or at the top level, *)
(* one proxy that appends to every header, and inputs around them.         *)
EXTENDS Requests

MCAddressesIn(range) ==
  CASE range = "loopback" -> {"loopback"}
    [] range = "edge" -> {"edge", "inner"}
    [] OTHER -> {}

MCAddresses == {"browser", "edge", "inner", "outside", "victim"}

App == Url("https", "app", 0)

File(settings, aliases) ==
  [file |-> [s \in Settings |-> IF s \in DOMAIN settings THEN settings[s] ELSE Absent],
   alias |-> [s \in Aliased |-> IF s \in DOMAIN aliases THEN aliases[s] ELSE ""],
   bots |-> <<[id |-> "1", secret |-> "secret", prelink |-> NoPrelink],
              [id |-> "2", secret |-> "second",
               prelink |-> [exact |-> TRUE, audience |-> "second", key |-> "key"]]>>,
   cidrs |-> <<"edge">>, origins |-> <<App>>,
   limits |-> [name \in {"login", "auth"} |-> [requests |-> 20, window |-> "default"]],
   anyOrigin |-> FALSE, secureCookies |-> TRUE, verified |-> FALSE]

MCOrdinaryFiles ==
  {File([public_url |-> "first", jwt_endpoint |-> "first"], [key_id |-> "first"]),
   [File([issuer |-> "first", private_key |-> "first"], [jwt_endpoint |-> "first"])
      EXCEPT !.secureCookies = FALSE]}

Appending(address) ==
  [address |-> address, scheme |-> "https", for |-> "append", proto |-> "append",
   forwarded |-> "append"]

MCOrdinaryJourney ==
  [client |-> "browser", forged |-> [for |-> <<>>, proto |-> <<>>, forwarded |-> <<>>],
   hops |-> <<Appending("edge")>>]

MCMount == <<"tg">>
MCTexts == {"", " ", Unset, "invalid", "first", "second"}
MCRangeLists ==
  {<<>>, <<"loopback">>, <<" ", "edge", "loopback">>, <<"edge", "invalid">>, <<"edge", Unset>>}
MCOriginLists ==
  {<<>>, <<App, [App EXCEPT !.port = 443]>>, <<[App EXCEPT !.port = 443, !.capitals = TRUE]>>,
   <<[App EXCEPT !.port = 8443]>>, <<App, Url("https", "other", 0)>>,
   <<[App EXCEPT !.scheme = "http"]>>, <<[App EXCEPT !.more = TRUE]>>,
   <<[App EXCEPT !.host = Unset]>>}
MCPrelinkKeys == {"", "invalid", "second", Unset}
MCWords ==
  {"", "..", "1", "2", "a", "auth", "authRequestID", "b", "c", "for", "http", "https", "keys",
   "login", "other", "telegram", "tg"}
MCSegments == {"", "..", "login", "auth", "telegram", "keys", "2"}

Parameter(name, value) == [name |-> name, value |-> value, encoded |-> TRUE]
MCQueries ==
  {<<Parameter("authRequestID", "a")>>,
   <<Parameter("authRequestID", "a"), Parameter("other", "")>>,
   <<Parameter("authRequestID", "a"), Parameter("authRequestID", "b")>>,
   <<Parameter("", "a")>>,
   <<[Parameter("authRequestID", "a") EXCEPT !.encoded = FALSE]>>,
   <<Parameter("a", ""), Parameter("b", ""), Parameter("c", "")>>}

MCForgeries ==
  {[for |-> <<"victim", "edge">>, proto |-> <<"https">>, forwarded |-> <<<<"https">>>>],
   [for |-> <<"victim", Garbage>>, proto |-> <<"http">>, forwarded |-> <<<<"for", "http">>>>],
   [for |-> <<Garbage>>, proto |-> <<"">>, forwarded |-> <<<<"https", "https">>>>],
   [for |-> <<"edge", "victim">>, proto |-> <<"https", "http">>, forwarded |-> <<<<"">>>>]}

MCHops == {Appending("inner"), Appending("outside")}
=============================================================================
