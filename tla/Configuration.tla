---------------------------- MODULE Configuration ----------------------------
(***************************************************************************)
(* ParseConfig (config.go, with validatePrelink of prelink.go): which      *)
(* files the service starts with, and what is then in force.               *)
(*                                                                         *)
(* A setting's text is Absent, "" or " " (which TrimSpace makes ""), Unset *)
(* (a placeholder for a variable that does not exist), "invalid" or one of *)
(* a few values that differ; "default" is what the code has for it.  A     *)
(* placeholder that is set, and a key with no value at all, which leaves   *)
(* the default, are written as what they come to.                          *)
(***************************************************************************)
EXTENDS Integers, FiniteSets, Sequences, SequencesExt

Absent == "absent"
Unset == "${UNSET}"

\* The settings that can be written in their section or at the top level.
Aliased ==
  {"jwt_endpoint", "jwt_header", "ttl", "key_id", "private_key_file", "private_key",
   "audience", "telegram_issuer", "jwks_url", "jwks_cache_ttl", "clock_skew"}

Settings == Aliased \cup
  {"listen", "log_level", "public_url", "issuer", "email_domain", "state_ttl",
   "user_agent_cookie"}

\* Empty until something else stands in for it, or for good.
MayBeEmpty == {"public_url", "issuer", "audience", "private_key_file", "private_key"}

Default(s) == IF s \in MayBeEmpty \cup {"jwt_endpoint"} THEN "" ELSE "default"

\* Any text that is not empty will do (a key is read later, by NewSigner).
FreeText == {"listen", "key_id", "audience", "private_key_file", "private_key"}

SessionCookies == {"__Host-zitadeltg_session", "zitadeltg_session"}
ReservedDomains == {"default", "second"}

NoPrelink == [exact |-> FALSE, audience |-> "", key |-> ""]

TrimSpace(text) == IF text = " " THEN "" ELSE text

-----------------------------------------------------------------------------
(* URLs, as far as origins go.  Port 0 is none; capitals says whether the  *)
(* host is spelled with capitals; more is a path, a query or a fragment.   *)

Url(scheme, host, port) ==
  [scheme |-> scheme, user |-> FALSE, host |-> host, capitals |-> FALSE,
   port |-> port, more |-> FALSE]

\* Mutant: the port is compared as it is written.
OriginAsWritten(url) == <<url.host, url.port>>

canonicalHTTPSOrigin(url) == <<url.host, IF url.port = 443 THEN 0 ELSE url.port>>

IsHTTPSOrigin(url) ==
  url.scheme = "https" /\ url.host # "" /\ ~url.user /\ ~url.more

\* The URLs of the ZITADEL endpoint's two values.
Endpoint(text) == IF text = "first" THEN Url("https", "iam", 0) ELSE Url("https", "iam", 8443)

-----------------------------------------------------------------------------
(* ParseConfig.                                                            *)

\* Every text with a placeholder, wherever it is written.  A bot's name and language
\* are left out; of a prelink hook's other texts, exact says whether they will do.
expandEnv(raw) ==
  /\ \A s \in Settings : raw.file[s] # Unset
  /\ \A s \in Aliased : raw.alias[s] # Unset
  /\ \A i \in DOMAIN raw.bots :
       Unset \notin {raw.bots[i].id, raw.bots[i].prelink.audience, raw.bots[i].prelink.key}
  /\ Unset \notin ToSet(raw.cidrs)
  /\ \A i \in DOMAIN raw.origins : raw.origins[i].host # Unset
  /\ \A name \in DOMAIN raw.limits : raw.limits[name].window # Unset

Decoded(raw, s) == IF raw.file[s] = Absent THEN Default(s) ELSE raw.file[s]

IsAliased(raw, s) == s \in Aliased /\ raw.alias[s] # ""

aliasesAllowed(raw) == \A s \in Settings : IsAliased(raw, s) => raw.file[s] = Absent

applyAliases(raw) ==
  [s \in Settings |-> IF IsAliased(raw, s) THEN raw.alias[s] ELSE Decoded(raw, s)]

\* The settings in force.
finalizeConfig(raw) ==
  LET given == [s \in Settings |-> TrimSpace(applyAliases(raw)[s])]
      noKey == given["private_key_file"] = "" /\ given["private_key"] = ""
  IN [given EXCEPT
       !["private_key_file"] = IF noKey THEN "default" ELSE @,
       !["issuer"] = IF @ = "" THEN given["public_url"] ELSE @,
       !["audience"] = IF @ = "" THEN given["jwt_endpoint"] ELSE @]

\* Blank entries are skipped; the ranges that a list of entries names.
parseCIDRList(cidrs) == ToSet(cidrs) \ {"", " "}

normalizeRedirectOrigins(urls) == {canonicalHTTPSOrigin(urls[i]) : i \in DOMAIN urls}

\* The window counts only where there is a limit.
parseRateLimitBucket(limit) ==
  limit.requests = 0 \/ (limit.requests > 0 /\ limit.window \notin {"", " ", "invalid"})

\* Mutant: compares with the audience as written, before it has its default.
AudienceAsWritten(raw) == TrimSpace(applyAliases(raw)["audience"])

RelayAudience(raw) == finalizeConfig(raw)["audience"]

validatePrelink(raw, bot) ==
  \/ bot.prelink = NoPrelink
  \/ /\ bot.prelink.exact
     /\ bot.prelink.audience \notin {"", " "}
     /\ bot.prelink.key \notin {"", " ", "invalid", bot.secret}
     /\ bot.prelink.audience # RelayAudience(raw)

settingsValid(raw) ==
  LET given == finalizeConfig(raw)
  IN /\ \A s \in Settings \ MayBeEmpty : given[s] # ""
     /\ \A s \in Settings \ FreeText : given[s] # "invalid"
     /\ given["private_key_file"] = "" \/ given["private_key"] = ""
     /\ given["issuer"] # ""
     /\ given["user_agent_cookie"] \notin SessionCookies
     /\ raw.verified => given["email_domain"] \in ReservedDomains

botsValid(raw) ==
  /\ raw.bots # <<>>
  /\ \A i \in DOMAIN raw.bots : raw.bots[i].id \notin {"", " ", "invalid"} /\ validatePrelink(raw, raw.bots[i])
  /\ \A i, j \in DOMAIN raw.bots : raw.bots[i].id = raw.bots[j].id => i = j

ParseConfig(raw) ==
  /\ expandEnv(raw) /\ aliasesAllowed(raw)
  /\ settingsValid(raw) /\ botsValid(raw)
  /\ "invalid" \notin ToSet(raw.cidrs)
  /\ \A name \in DOMAIN raw.limits : parseRateLimitBucket(raw.limits[name])
  /\ \A i \in DOMAIN raw.origins : IsHTTPSOrigin(raw.origins[i])
  /\ Cardinality(normalizeRedirectOrigins(raw.origins)) = Len(raw.origins)
=============================================================================
