------------------------------ MODULE Requests ------------------------------
(***************************************************************************)
(* One login end to end, as far as it is a matter of configuration and of  *)
(* what requests carry: the configuration file the service is started      *)
(* with, the browser's request for the login page and its callback, each   *)
(* through the proxies on its way, and ZITADEL's redirect.                 *)
(*                                                                         *)
(* A state is a scenario: an ordinary one and what a few changes make of   *)
(* it.  A change of the configuration starts the service anew.  Changes    *)
(* cost effort, and MaxEffort bounds their sum.                            *)
(*                                                                         *)
(* A journey has a client, the headers it sends on its own, and hops, each *)
(* with the scheme of the connection it is reached by and what it does     *)
(* with each header: append its own value, set it to that, drop the        *)
(* header, or pass it on.                                                  *)
(***************************************************************************)
EXTENDS ForwardedHeaders, LoginRelay

CONSTANTS
  OrdinaryFiles,    \* configuration files, journey, and so on, of ordinary scenarios
  OrdinaryJourney,
  Mount,            \* the path under which the virtual host is this service's
  Addresses,        \* of clients and proxies
  Words,            \* what paths, queries and headers are made of
  AddressesIn(_),   \* the addresses in a range
  Texts, RangeLists, OriginLists, PrelinkKeys, Segments, Queries, Forgeries, Hops,
  ConfigurationEffort, TrafficEffort, MaxEffort

HeaderModes == {"append", "set", "drop", "pass"}

PossibleHops ==
  [address : Addresses, scheme : {"http", "https"},
   for : HeaderModes, proto : HeaderModes, forwarded : HeaderModes]

PossibleHeaders ==
  [for : Seq(Addresses \cup {Garbage}), proto : Seq(Words), forwarded : Seq(Seq(Words))]

PossibleJourneys ==
  [client : Addresses, forged : PossibleHeaders, hops : Seq(PossibleHops)]

PossibleQueries == Seq([name : Words, value : Words, encoded : BOOLEAN])

\* Neither of the mount's last two segments is "login": a path right under such a mount,
\* or the mount itself, would be that of a login page further up.
ASSUME RequestsAssumption ==
  /\ {"http", "https", "for", "login", "1"} \subseteq Words
  /\ Garbage \notin Addresses
  /\ OrdinaryJourney \in PossibleJourneys
  /\ Hops \subseteq PossibleHops /\ Forgeries \subseteq PossibleHeaders
  /\ Mount \in Seq(Words) /\ \A i \in DOMAIN Mount : i >= Len(Mount) - 1 => Mount[i] # "login"
  /\ Segments \subseteq Words
  /\ Queries \subseteq PossibleQueries

VARIABLES
  raw,       \* the configuration file
  config,    \* what is in force, if the service has started with it
  login,     \* the request for the login page
  callback,  \* the callback
  response,  \* ZITADEL's answer to the relay
  effort

vars == <<raw, config, login, callback, response, effort>>

-----------------------------------------------------------------------------
(* The service.                                                            *)

Configured(file) ==
  [started |-> ParseConfig(file),
   settings |-> finalizeConfig(file),
   trusted |-> UNION {AddressesIn(range) : range \in parseCIDRList(file.cidrs)},
   bots |-> {file.bots[i].id : i \in DOMAIN file.bots},
   origins |-> normalizeRedirectOrigins(file.origins),
   anyOrigin |-> file.anyOrigin,
   secureCookies |-> file.secureCookies]

\* The request that arrives.
Maintain(mode, elements, own) ==
  CASE mode = "append" -> Append(elements, own)
    [] mode = "set"    -> <<own>>
    [] mode = "drop"   -> <<>>
    [] mode = "pass"   -> elements

PassedOn(r, hop) ==
  [remote |-> hop.address,
   for |-> Maintain(hop.for, r.for, r.remote),
   proto |-> Maintain(hop.proto, r.proto, hop.scheme),
   forwarded |-> Maintain(hop.forwarded, r.forwarded, <<"for", hop.scheme>>)]

\* The request as the client sends it, and as each hop has passed it on.
Sent(journey) ==
  [remote |-> journey.client, for |-> journey.forged.for,
   proto |-> journey.forged.proto, forwarded |-> journey.forged.forwarded]

OnItsWay(journey) ==
  LET r[n \in 0..Len(journey.hops)] ==
        IF n = 0 THEN Sent(journey) ELSE PassedOn(r[n - 1], journey.hops[n])
  IN r

Arriving(journey) == OnItsWay(journey)[Len(journey.hops)]

IsSecure(journey) == isSecureRequest(Arriving(journey), config.trusted)
SecureCookies(journey) == secureCookies(config, IsSecure(journey))

\* handleLogin renders the page.
Bot == serveHTTP(login.path)[2]

Rendered ==
  /\ config.started
  /\ serveHTTP(login.path)[1] = "login" /\ Bot \in config.bots
  /\ canonicalizeLoginQuery(login.query)

\* The browser stores and returns a secure cookie over TLS only.
BrowserScheme(journey) == IF journey.hops = <<>> THEN "http" ELSE journey.hops[1].scheme

SessionFound ==
  /\ SecureCookies(login.journey) =>
       BrowserScheme(login.journey) = "https" /\ BrowserScheme(callback.journey) = "https"
  /\ loginSessionCookieName(SecureCookies(login.journey)) =
       loginSessionCookieName(SecureCookies(callback.journey))

\* The other cookies of the browser, and the session's, as ZITADEL gets them.
Forwarded ==
  zitadelUserAgentCookie(config, IsSecure(callback.journey), callback.host,
    callback.cookies \cup {loginSessionCookieName(SecureCookies(callback.journey))})

-----------------------------------------------------------------------------
(* The scenarios.                                                          *)

Init ==
  /\ raw \in OrdinaryFiles
  /\ config = Configured(raw)
  /\ login = [path |-> Mount \o <<"login", "1">>, query |-> <<>>, journey |-> OrdinaryJourney]
  /\ callback = [host |-> "iam", cookies |-> {"default", "app"},
                 journey |-> OrdinaryJourney]
  /\ response = [status |-> 302, present |-> TRUE, location |-> Url("https", "app", 0)]
  /\ effort = 0

WriteSetting ==
  \/ \E s \in Settings, text \in Texts \cup {Absent} : raw' = [raw EXCEPT !.file[s] = text]
  \/ \E s \in Aliased, text \in Texts : raw' = [raw EXCEPT !.alias[s] = text]
  \/ \E cookie \in SessionCookies : raw' = [raw EXCEPT !.file["user_agent_cookie"] = cookie]
  \/ \E b \in BOOLEAN : raw' = [raw EXCEPT !.verified = b]
  \/ \E b \in BOOLEAN : raw' = [raw EXCEPT !.secureCookies = b]
  \/ \E b \in BOOLEAN : raw' = [raw EXCEPT !.anyOrigin = b]

WriteList ==
  \/ \E ranges \in RangeLists : raw' = [raw EXCEPT !.cidrs = ranges]
  \/ \E urls \in OriginLists : raw' = [raw EXCEPT !.origins = urls]
  \/ \E name \in DOMAIN raw.limits :
       \/ \E n \in {-1, 0} : raw' = [raw EXCEPT !.limits[name].requests = n]
       \/ \E text \in Texts : raw' = [raw EXCEPT !.limits[name].window = text]

WriteBot ==
  \/ raw' = [raw EXCEPT !.bots = <<>>]
  \/ \E i \in DOMAIN raw.bots :
       \/ \E id \in {"1", "2", "3", "", "invalid", Unset} : raw' = [raw EXCEPT !.bots[i].id = id]
       \/ raw' = [raw EXCEPT !.bots[i].prelink = NoPrelink]
       \/ \E text \in Texts : raw' = [raw EXCEPT !.bots[i].prelink.audience = text]
       \/ \E key \in PrelinkKeys : raw' = [raw EXCEPT !.bots[i].prelink.key = key]
       \/ \E b \in BOOLEAN : raw' = [raw EXCEPT !.bots[i].prelink.exact = b]

ChangeConfiguration ==
  /\ effort + ConfigurationEffort <= MaxEffort
  /\ WriteSetting \/ WriteList \/ WriteBot
  /\ config' = Configured(raw')
  /\ effort' = effort + ConfigurationEffort
  /\ UNCHANGED <<login, callback, response>>

ChangeLogin ==
  /\ \/ \E i \in 0..Len(login.path), s \in Segments :
          login' = [login EXCEPT !.path = SubSeq(@, 1, i) \o <<s>> \o SubSeq(@, i + 1, Len(@))]
     \/ \E i \in DOMAIN login.path : login' = [login EXCEPT !.path = RemoveAt(@, i)]
     \/ \E query \in Queries : login' = [login EXCEPT !.query = query]
  /\ UNCHANGED <<callback, response>>

ChangeCallback ==
  /\ \/ \E host \in {"iam", "other"} : callback' = [callback EXCEPT !.host = host]
     \/ \E c \in callback.cookies : callback' = [callback EXCEPT !.cookies = @ \ {c}]
  /\ UNCHANGED <<login, response>>

Journeys(journey) ==
  {[journey EXCEPT !.forged.for = f.for] : f \in Forgeries} \cup
  {[journey EXCEPT !.forged.proto = f.proto] : f \in Forgeries} \cup
  {[journey EXCEPT !.forged.forwarded = f.forwarded] : f \in Forgeries} \cup
  {[journey EXCEPT !.hops = <<hop>> \o @] : hop \in Hops} \cup
  {[journey EXCEPT !.hops = Append(@, hop)] : hop \in Hops} \cup
  UNION {{[journey EXCEPT !.hops = RemoveAt(@, i)]}
           \cup {[journey EXCEPT !.hops[i].scheme = s] : s \in {"http", "https"}}
           \cup {[journey EXCEPT !.hops[i].for = m] : m \in {"append", "set", "pass"}}
           \cup {[journey EXCEPT !.hops[i].proto = m] : m \in {"append", "set", "pass", "drop"}}
           \cup {[journey EXCEPT !.hops[i].forwarded = m] : m \in {"append", "set", "pass", "drop"}}
         : i \in DOMAIN journey.hops}

\* The browser's way, for both requests or for the callback alone.
ChangeJourney ==
  /\ \/ \E j \in Journeys(login.journey) :
          /\ login' = [login EXCEPT !.journey = j]
          /\ callback' = [callback EXCEPT !.journey = j]
     \/ \E j \in Journeys(callback.journey) :
          callback' = [callback EXCEPT !.journey = j] /\ UNCHANGED login
  /\ UNCHANGED response

ChangeResponse ==
  /\ \/ \E status \in {200, 304, 307} : response' = [response EXCEPT !.status = status]
     \/ response' = [response EXCEPT !.present = FALSE]
     \/ \E s \in {"", "http", "https", "app"} : response' = [response EXCEPT !.location.scheme = s]
     \/ \E h \in {"", "iam", "app", "other"} : response' = [response EXCEPT !.location.host = h]
     \/ \E p \in {0, 443, 8443} : response' = [response EXCEPT !.location.port = p]
     \/ response' = [response EXCEPT !.location.user = TRUE]
     \/ response' = [response EXCEPT !.location.capitals = TRUE]
  /\ UNCHANGED <<login, callback>>

ChangeTraffic ==
  /\ effort + TrafficEffort <= MaxEffort
  /\ ChangeLogin \/ ChangeCallback \/ ChangeJourney \/ ChangeResponse
  /\ effort' = effort + TrafficEffort
  /\ UNCHANGED <<raw, config>>

Next == ChangeConfiguration \/ ChangeTraffic

Spec == Init /\ [][Next]_vars

-----------------------------------------------------------------------------
Nearest(journey) == journey.hops[Len(journey.hops)]

\* A proxy that sets or appends a header, as README.md:92-94 asks for.
Maintains(mode) == mode \in {"append", "set"}

\* What the operator writes is in force: a text written for a setting, in either
\* place, is the setting's value, so two places never disagree silently; there is
\* exactly one key; and the audience of a prelink hook is never that of the relay
\* token, also where that is left to its default.
SettingsInForce ==
  config.started =>
    /\ \A s \in Settings : TrimSpace(raw.file[s]) \notin {Absent, ""} =>
         config.settings[s] = TrimSpace(raw.file[s])
    /\ \A s \in Aliased : TrimSpace(raw.alias[s]) # "" =>
         config.settings[s] = TrimSpace(raw.alias[s])
    /\ Cardinality({s \in {"private_key_file", "private_key"} : config.settings[s] # ""}) = 1
    /\ config.settings["issuer"] # "" /\ config.settings["audience"] # ""
    /\ \A i \in DOMAIN raw.bots : raw.bots[i].prelink # NoPrelink =>
         raw.bots[i].prelink.audience # config.settings["audience"]

\* Whatever addresses a client sends, the one it is known by (and limited by) is on
\* its way to the service if the trusted proxies append or set theirs; if they
\* append, it is the last that is not a trusted proxy.
ClientIsOnItsWay ==
  \A j \in {login.journey, callback.journey} :
    LET addresses == <<j.client>> \o [i \in DOMAIN j.hops |-> j.hops[i].address]
        proxies == {i \in DOMAIN j.hops : j.hops[i].address \in config.trusted}
        client == clientIP(Arriving(j), config.trusted)
    IN j.client \notin config.trusted =>
         /\ (\A i \in proxies : Maintains(j.hops[i].for)) => client \in ToSet(addresses)
         /\ (\A i \in proxies : j.hops[i].for = "append") =>
              \E n \in DOMAIN addresses :
                /\ client = addresses[n] /\ client \notin config.trusted
                /\ \A k \in (n + 1)..Len(addresses) : addresses[k] \in config.trusted

\* If the nearest proxy is trusted and maintains either header about the scheme, a
\* request counts as secure only if that proxy was reached by TLS, whatever the
\* client sends in the other; and if it leaves the client neither, it then does.
SecureIfNearestSaysSo ==
  \A j \in {login.journey, callback.journey} :
    j.hops # <<>> =>
      /\ IsSecure(j) /\ (Maintains(Nearest(j).proto) \/ Maintains(Nearest(j).forwarded)) =>
           Nearest(j).address \in config.trusted /\ Nearest(j).scheme = "https"
      /\ Nearest(j).address \in config.trusted /\ Nearest(j).scheme = "https"
           /\ Maintains(Nearest(j).proto) /\ Nearest(j).forwarded # "pass" => IsSecure(j)

\* The proxies before the service, as README.md:86-97 has them configured.
WellConfigured(journey) ==
  /\ journey.hops # <<>>
  /\ Nearest(journey).address \in config.trusted
  /\ Maintains(Nearest(journey).proto) /\ Nearest(journey).forwarded # "pass"
  /\ \A i \in DOMAIN journey.hops : journey.hops[i].scheme = "https"

\* A rendered page's form comes back to the same bot under the same mount, finds its
\* session if both requests come through proxies that are well configured, and takes
\* each parameter of the login URL to ZITADEL, once, with the user agent's cookie and
\* no other.
LoginReachesZitadel ==
  Rendered =>
    /\ IsPrefix(Mount, Clean(login.path)) =>
         /\ IsPrefix(Mount, AuthAction(login.path, Bot))
         /\ serveHTTP(AuthAction(login.path, Bot)) = <<"auth", Bot>>
    /\ mergeZitadelQuery(login.query) = [refused |-> FALSE, query |-> Parameters(login.query)]
    /\ WellConfigured(login.journey) /\ WellConfigured(callback.journey) =>
         /\ SessionFound
         /\ callback.host = "iam" =>
              Forwarded = callback.cookies \cap {config.settings["user_agent_cookie"]}
    /\ Forwarded \cap SessionCookies = {}

\* A browser's idea of an origin.
BrowserOrigin(url) == <<url.host, IF url.port = 0 THEN 443 ELSE url.port>>

\* A redirect is passed on exactly if it leads, by HTTPS and without userinfo, to the
\* origin of the ZITADEL endpoint or to one that is listed, as a browser compares
\* origins, however either is written.
RedirectsStayInside ==
  config.started =>
    LET url == Destination(config, response.location)
        endpoint == Endpoint(config.settings["jwt_endpoint"])
        inside == {BrowserOrigin(endpoint)} \cup {BrowserOrigin(raw.origins[i]) : i \in DOMAIN raw.origins}
    IN Relayed(config, response) <=>
         /\ response.status \in {301, 302, 303, 307, 308} /\ response.present
         /\ url.scheme = "https" /\ url.host # "" /\ ~url.user
         /\ raw.anyOrigin \/ BrowserOrigin(url) \in inside
=============================================================================
