------------------------------ MODULE PublicFetch ------------------------------
(***************************************************************************)
(* What PublicDocumentFetcher decides (documents/fetcher.py), with         *)
(* DownloadPolicy (policy.py) and the HTML classes of validation.py.       *)
(*                                                                         *)
(* A url is [scheme, host, user, path, noise]; a reply is [status, to,     *)
(* declared, chunks, html, words]: the Location of a redirect, the length  *)
(* announced and the one sent (in chunks of equal size), whether the body  *)
(* is HTML, and the words of an access page its first bytes show.          *)
(***************************************************************************)
EXTENDS Naturals, Sequences

CONSTANTS
  Nil,            \* no failure, no address, no host
  AllowedHosts,   \* document_download_allowed_hosts
  LocalHosts,     \* localhost and the metadata hosts
  OddPorts,       \* hosts written with a port that is not allowed
  Numerals,       \* hosts that are an ambiguous spelling of an address
  Inner,          \* hosts with an address that is not global
  MaxRedirects,
  MaxChunks       \* max_bytes

ASSUME FetchBounds == MaxRedirects \in Nat /\ MaxChunks \in Nat

\* What a fetch that fails may fail with (FailureKind), which is never "nothing".
Failures ==
  {"UNSAFE_URL", "TRANSIENT", "UNSUPPORTED", "OVERSIZED", "LOGIN_REQUIRED", "NOT_FOUND",
   "RESTRICTED", "CAPTCHA", "REGISTRATION_REQUIRED", "QUARANTINED"}
ASSUME NilIsNoFailure == Nil \notin Failures

Redirects == {301, 302, 303, 307, 308}
Transients == {408, 425, 429, 500, 502, 503, 504}

-----------------------------------------------------------------------------
(* DownloadPolicy.validate.  `first` is the host the request began with,   *)
(* Nil for the request itself; `previous` the scheme of the hop before.   *)

\* For comparison: the scheme of the hop before is not looked at.
AllowedWhateverBefore(url, first, previous) ==
  /\ url.scheme \in {"http", "https"} /\ url.host # Nil /\ ~url.user
  /\ url.host \notin LocalHosts \cup OddPorts \cup Numerals
  /\ first = Nil \/ url.host = first \/ url.host \in AllowedHosts
  /\ AllowedHosts = {} \/ url.host \in AllowedHosts

Allowed(url, first, previous) ==
  /\ url.scheme \in {"http", "https"} /\ url.host # Nil /\ ~url.user
  /\ url.host \notin LocalHosts \cup OddPorts \cup Numerals
  /\ ~(previous = "https" /\ url.scheme = "http")
  /\ first = Nil \/ url.host = first \/ url.host \in AllowedHosts
  /\ AllowedHosts = {} \/ url.host \in AllowedHosts

\* Nil, or the failure; `resolves` is whether the name service answers.
PolicyFailure(url, first, previous, resolves) ==
  IF ~Allowed(url, first, previous) THEN "UNSAFE_URL"
  ELSE IF ~resolves THEN "TRANSIENT"
  ELSE IF url.host \in Inner THEN "UNSAFE_URL"
  ELSE Nil

\* A redirect from the last url of a chain of requests.
RedirectFailure(chain, to, resolves) ==
  IF to = Nil THEN "UNSUPPORTED"
  ELSE IF \E i \in DOMAIN chain : chain[i] = to THEN "UNSAFE_URL"
  ELSE IF Len(chain) > MaxRedirects THEN "UNSAFE_URL"
  ELSE PolicyFailure(to, chain[1].host, chain[Len(chain)].scheme, resolves)

-----------------------------------------------------------------------------
(* _consume.  A status it answers by itself, without the body.             *)

StatusFailure(reply) ==
  IF reply.status \in Transients THEN "TRANSIENT"
  ELSE IF reply.status = 401 THEN "LOGIN_REQUIRED"
  ELSE IF reply.status \in {404, 410} THEN "NOT_FOUND"
  ELSE IF reply.status = 413 THEN "OVERSIZED"
  ELSE IF reply.status = 415 THEN "UNSUPPORTED"
  ELSE IF reply.status = 451 THEN "RESTRICTED"
  ELSE IF reply.status \notin {200, 403} THEN "UNSUPPORTED"
  ELSE IF reply.declared # Nil /\ reply.declared > MaxChunks THEN "OVERSIZED"
  ELSE Nil

HtmlClasses ==
  << <<"CAPTCHA", "captcha">>, <<"REGISTRATION_REQUIRED", "register">>,
     <<"LOGIN_REQUIRED", "login">>, <<"RESTRICTED", "denied">>,
     <<"NOT_FOUND", "missing">>, <<"TRANSIENT", "maintenance">> >>

\* classify_html: the first class, in this order, that a word of the page names.
HtmlKind(words) ==
  LET hits == {i \in DOMAIN HtmlClasses : HtmlClasses[i][2] \in words}
  IN IF hits = {} THEN Nil ELSE HtmlClasses[CHOOSE i \in hits : \A j \in hits : i <= j][1]

\* What the body read to its end makes of the answer.
BodyFailure(reply, allowHtml) ==
  LET kind == IF reply.html THEN HtmlKind(reply.words) ELSE Nil
  IN IF reply.chunks = 0 THEN "UNSUPPORTED"
     ELSE IF reply.status = 403 THEN IF kind # Nil THEN kind ELSE "RESTRICTED"
     ELSE IF kind # Nil THEN kind
     ELSE IF reply.html /\ ~allowHtml THEN "QUARANTINED"
     ELSE Nil
================================================================================
