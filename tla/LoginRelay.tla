----------------------------- MODULE LoginRelay -----------------------------
(***************************************************************************)
(* The way of one login through the service (server.go), apart from its    *)
(* state: the route of a request, the query that travels from the login    *)
(* URL to ZITADEL, the cookies of both requests and the answer to a        *)
(* redirect of ZITADEL's.                                                  *)
(*                                                                         *)
(* A path is the sequence of its segments, a query the sequence of its     *)
(* parameters [name, value, encoded], encoded being whether it can be      *)
(* decoded.                                                                *)
(***************************************************************************)
EXTENDS Configuration

CONSTANT MaxLoginQuery  \* parameters of a query that is not too large

-----------------------------------------------------------------------------
(* Routing.                                                                *)

\* What one more segment makes of a clean path.
Descend(done, segment) ==
  CASE segment \in {"", "."} -> done
    [] segment = ".."        -> SubSeq(done, 1, Len(done) - 1)
    [] OTHER                 -> Append(done, segment)

\* path.Clean of a rooted path, and of its beginnings.
Cleaned(path) ==
  LET done[n \in 0..Len(path)] == IF n = 0 THEN <<>> ELSE Descend(done[n - 1], path[n])
  IN done

Clean(path) == Cleaned(path)[Len(path)]

pathHasSuffix(path, segment) ==
  Clean(path) # <<>> /\ Clean(path)[Len(Clean(path))] = segment

\* How many segments come before the endpoint: the endpoint that counts is the
\* last one in the path, and exactly one segment follows it.
PrefixLength(path, endpoint) == Len(Clean(path)) - 1 - Len(endpoint)

matchEndpoint(path, endpoint) ==
  LET n == PrefixLength(path, endpoint)
  IN n >= 0 /\ SubSeq(Clean(path), n + 1, n + Len(endpoint)) = endpoint

LoginEndpoint == <<"login">>
AuthEndpoint == <<"auth", "telegram">>

serveHTTP(path) ==
  LET bot == Clean(path)[Len(Clean(path))]
  IN IF pathHasSuffix(path, "healthz") THEN <<"health">>
     ELSE IF pathHasSuffix(path, "keys") \/ pathHasSuffix(path, "jwks.json") THEN <<"keys">>
     ELSE IF matchEndpoint(path, LoginEndpoint) THEN <<"login", bot>>
     ELSE IF matchEndpoint(path, AuthEndpoint) THEN <<"auth", bot>>
     ELSE <<"not found">>

\* Mutant: the form is posted to the root.
ActionAtRoot(path, bot) == AuthEndpoint \o <<bot>>

\* The action of the login page's form: beside the path it was asked for.
AuthAction(path, bot) ==
  SubSeq(Clean(path), 1, PrefixLength(path, LoginEndpoint)) \o AuthEndpoint \o <<bot>>

-----------------------------------------------------------------------------
(* The query.                                                              *)

Parameters(query) == {<<query[i].name, query[i].value>> : i \in DOMAIN query}

\* Every parameter has a name of its own.
NamedOnce(query) ==
  /\ \A i \in DOMAIN query : query[i].name # ""
  /\ Cardinality({query[i].name : i \in DOMAIN query}) = Len(query)

\* The deterministic encoding is the sequence itself; the state carries it.
canonicalizeLoginQuery(query) ==
  /\ Len(query) <= MaxLoginQuery
  /\ \A i \in DOMAIN query : query[i].encoded
  /\ NamedOnce(query)

\* The query that goes to ZITADEL, unless what was signed is refused.  It cannot
\* conflict with a query of the endpoint's, as ParseConfig refuses one.
mergeZitadelQuery(signed) ==
  IF (\A i \in DOMAIN signed : signed[i].encoded) /\ NamedOnce(signed)
  THEN [refused |-> FALSE, query |-> Parameters(signed)]
  ELSE [refused |-> TRUE, query |-> {}]

-----------------------------------------------------------------------------
(* Cookies.                                                                *)

secureCookies(config, secure) == config.secureCookies \/ secure

loginSessionCookieName(secure) ==
  IF secure THEN "__Host-zitadeltg_session" ELSE "zitadeltg_session"

\* The cookies that go on to ZITADEL: the user agent's, to its own host.  (A browser
\* that sends two with this name is in RegistrationForm.)
zitadelUserAgentCookie(config, secure, host, cookies) ==
  {c \in cookies : /\ secure /\ host = Endpoint(config.settings["jwt_endpoint"]).host
                   /\ c = config.settings["user_agent_cookie"]}

-----------------------------------------------------------------------------
(* The answer to a redirect.                                               *)

isRedirectStatus(status) == status \in {301, 302, 303, 307, 308}

ResolveReference(base, ref) ==
  IF ref.scheme # "" THEN ref
  ELSE IF ref.host # "" \/ ref.user THEN [ref EXCEPT !.scheme = base.scheme]
  ELSE base

ValidDestination(url) == url.scheme = "https" /\ url.host # "" /\ ~url.user

isAllowedRedirect(config, url) ==
  \/ config.anyOrigin
  \/ canonicalHTTPSOrigin(url) = canonicalHTTPSOrigin(Endpoint(config.settings["jwt_endpoint"]))
  \/ canonicalHTTPSOrigin(url) \in config.origins

Destination(config, location) ==
  ResolveReference(Endpoint(config.settings["jwt_endpoint"]), location)

\* proxyToZitadel, for a response that is not a registration form: the browser
\* is sent to the destination, by a document or by 303.
Relayed(config, response) ==
  /\ isRedirectStatus(response.status)
  /\ response.present
  /\ ValidDestination(Destination(config, response.location))
  /\ isAllowedRedirect(config, Destination(config, response.location))
=============================================================================
