-------------------------- MODULE ForwardedHeaders --------------------------
(***************************************************************************)
(* What the service takes from a request's forwarding headers (proxy.go):  *)
(* who the client is and whether the browser uses TLS.                     *)
(*                                                                         *)
(* A request has a remote address and three headers, each the sequence of  *)
(* the elements of all its lines: of X-Forwarded-For an address or         *)
(* Garbage, of X-Forwarded-Proto a scheme, of Forwarded the sequence of    *)
(* its parameters, where a proto parameter is its value and any other one  *)
(* is "for".  An address stands for itself in every spelling (Unmap), a    *)
(* scheme likewise (EqualFold).  The service is never reached by TLS       *)
(* itself: main serves plain HTTP, so r.TLS is nil.                        *)
(***************************************************************************)
EXTENDS Sequences, SequencesExt

CONSTANT Garbage  \* an element that is no address

\* Where X-Forwarded-For has an address, and where one that is no trusted proxy's.
Parsed(elements) == {i \in DOMAIN elements : elements[i] # Garbage}
Untrusted(elements, trusted) == {i \in Parsed(elements) : elements[i] \notin trusted}

\* Mutant: the leftmost of them, which the client may have sent.
LeftmostUntrusted(elements, trusted) == elements[Min(Untrusted(elements, trusted))]

\* The last proxy that is not trusted, or the client.
NearestUntrusted(elements, trusted) == elements[Max(Untrusted(elements, trusted))]

clientIP(r, trusted) ==
  IF r.remote \notin trusted \/ Parsed(r.for) = {} THEN r.remote
  ELSE IF Untrusted(r.for, trusted) = {} THEN r.for[Min(Parsed(r.for))]
  ELSE NearestUntrusted(r.for, trusted)

lastHeaderValue(elements, none) ==
  IF elements = <<>> THEN none ELSE elements[Len(elements)]

\* The proto parameters of an element, which is valid with exactly one.
Protos(element) == {i \in DOMAIN element : element[i] # "for"}

parseForwardedProto(element) ==
  IF \E i \in DOMAIN element : Protos(element) = {i} /\ element[i] # ""
  THEN element[CHOOSE i \in Protos(element) : TRUE] ELSE "invalid"

\* Mutant: X-Forwarded-Proto is enough.
SchemePreferringProto(proto, element) ==
  IF proto # "" THEN proto ELSE parseForwardedProto(element)

\* The scheme that the two headers agree on.
AgreedScheme(proto, element) ==
  LET scheme == parseForwardedProto(element)
  IN IF element = <<>> THEN proto
     ELSE IF proto \in {"", scheme} THEN scheme
     ELSE "invalid"

isSecureRequest(r, trusted) ==
  /\ r.remote \in trusted
  /\ AgreedScheme(lastHeaderValue(r.proto, ""), lastHeaderValue(r.forwarded, <<>>)) = "https"
=============================================================================
