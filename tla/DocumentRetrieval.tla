--------------------------- MODULE DocumentRetrieval ---------------------------
(***************************************************************************)
(* Processes of the document worker with one fetcher and one storage: from *)
(* the links of an opportunity's page to the files under their keys.  What *)
(* the worker does with its job and its rows is DownloadWorker; here are   *)
(* the requests, the temporary files and the storage, with all a server,   *)
(* a disk and the scheduler may do in between.                              *)
(***************************************************************************)
EXTENDS ConnectorDocuments, PublicFetch, ArtifactStorage

CONSTANTS
  Settings       \* what a behaviour is about: [family, links, running, fetches, replies]

ASSUME PagesOfConnectors ==
  \A s \in Settings : s.family \in DocumentFamilies /\ IsSequence(s.links)
\* A body has the key its digest gives it.
ASSUME BodiesHaveKeys == \A s \in Settings : \A reply \in s.replies : reply.body \in Key

VARIABLES
  setting,    \* the connector, its links, the processes that run and how many fetches
              \* each of them does, the server's replies
  fetch,      \* process -> the fetch in hand
  ended,      \* process -> how its fetches have ended, in order
  temporary,  \* temporary files: [by, nr], nr the number of the fetch among its process's
  asked       \* history: urls of the documents a fetch began with

vars == <<setting, fetch, ended, temporary, asked, commit, staging, object>>

\* `chain` are the urls requested, the last one is awaited or being read; `html`
\* is whether the document is declared to be HTML.
Free == [pc |-> "free", chain |-> <<>>, reply |-> Nil, read |-> 0, html |-> FALSE]

Documents == Eligible(setting.family, setting.links)

\* The temporary file of the fetch in hand.
File(p) == [by |-> p, nr |-> Len(ended[p]) + 1]
Kept == temporary' = temporary
Unlinked(p) == temporary' = temporary \ {File(p)}

Goes(p, pc) == fetch' = [fetch EXCEPT ![p].pc = pc]
Ends(p, how) ==
  /\ fetch' = [fetch EXCEPT ![p] = Free]
  /\ ended' = [ended EXCEPT ![p] = Append(@, how)]

Init ==
  /\ setting \in Settings
  /\ fetch = [p \in Process |-> Free]
  /\ ended = [p \in Process |-> <<>>]
  /\ temporary = {}
  /\ asked = {}
  /\ StorageInit

-----------------------------------------------------------------------------
(* The fetch.                                                               *)

Requested(p, url) ==
  /\ fetch' = [fetch EXCEPT ![p].pc = "asking", ![p].chain = Append(@, url)]
  /\ UNCHANGED <<setting, ended, temporary, asked, storageVars>>

\* _process calls fetch for an eligible document; validate may refuse it.
Start(p, document, html) ==
  /\ fetch[p].pc = "free" /\ Len(ended[p]) < setting.fetches /\ p \in setting.running
  /\ \E resolves \in BOOLEAN :
       LET failure == PolicyFailure(document.url, Nil, Nil, resolves)
       IN IF failure = Nil
          THEN /\ fetch' = [fetch EXCEPT ![p] =
                    [Free EXCEPT !.pc = "asking", !.chain = <<document.url>>, !.html = html]]
               /\ asked' = asked \cup {document.url}
               /\ UNCHANGED <<setting, ended, temporary, storageVars>>
          ELSE /\ Ends(p, failure)
               /\ UNCHANGED <<setting, temporary, asked, storageVars>>

\* The transport loses the request, or fails in a way the fetcher does not name.
Lose(p) ==
  /\ fetch[p].pc = "asking"
  /\ \E how \in {"TRANSIENT", "raised"} : Ends(p, how)
  /\ UNCHANGED <<setting, temporary, asked, storageVars>>

Follow(p, reply) ==
  /\ fetch[p].pc = "asking" /\ reply.status \in Redirects
  /\ \E resolves \in BOOLEAN :
       LET failure == RedirectFailure(fetch[p].chain, reply.to, resolves)
       IN IF failure = Nil THEN Requested(p, reply.to)
          ELSE /\ Ends(p, failure)
               /\ UNCHANGED <<setting, temporary, asked, storageVars>>

\* What the caller has is taken to be current, whether it asked on a condition or
\* not.
Unmodified(p, reply) ==
  /\ fetch[p].pc = "asking" /\ reply.status = 304
  /\ Ends(p, "unchanged")
  /\ UNCHANGED <<setting, temporary, asked, storageVars>>

Answer(p, reply) ==
  /\ fetch[p].pc = "asking" /\ reply.status \notin Redirects \cup {304}
  /\ IF StatusFailure(reply) # Nil
     THEN Ends(p, StatusFailure(reply)) /\ Kept
     ELSE /\ fetch' = [fetch EXCEPT ![p].pc = "reading", ![p].reply = reply]
          /\ temporary' = temporary \cup {File(p)}
          /\ UNCHANGED ended
  /\ UNCHANGED <<setting, asked, storageVars>>

\* For comparison: the size is checked, if at all, when the body is complete.
ReadUnbounded(p) ==
  /\ fetch[p].pc = "reading" /\ fetch[p].read < fetch[p].reply.chunks
  /\ fetch' = [fetch EXCEPT ![p].read = IF @ > MaxChunks THEN @ ELSE @ + 1]
  /\ UNCHANGED <<setting, ended, temporary, asked, storageVars>>

\* A chunk is counted before it is written.
Read(p) ==
  /\ fetch[p].pc = "reading" /\ fetch[p].read < fetch[p].reply.chunks
  /\ IF fetch[p].read + 1 > MaxChunks
     THEN Ends(p, "OVERSIZED") /\ Unlinked(p)
     ELSE fetch' = [fetch EXCEPT ![p].read = @ + 1] /\ Kept /\ UNCHANGED ended
  /\ UNCHANGED <<setting, asked, storageVars>>

\* The connection or the disk fails within the body: the error passes as it is.
Break(p) ==
  /\ fetch[p].pc = "reading"
  /\ Ends(p, "raised") /\ Unlinked(p)
  /\ UNCHANGED <<setting, asked, storageVars>>

\* For comparison: what was written stays when the body is refused.
CompleteLeaving(p) ==
  /\ fetch[p].pc = "reading" /\ fetch[p].read = fetch[p].reply.chunks
  /\ LET failure == BodyFailure(fetch[p].reply, fetch[p].html)
     IN IF failure # Nil THEN Ends(p, failure) ELSE Goes(p, "fetched") /\ UNCHANGED ended
  /\ UNCHANGED <<setting, temporary, asked, storageVars>>

Complete(p) ==
  /\ fetch[p].pc = "reading" /\ fetch[p].read = fetch[p].reply.chunks
  /\ LET failure == BodyFailure(fetch[p].reply, fetch[p].html)
     IN IF failure # Nil THEN Ends(p, failure) /\ Unlinked(p)
        ELSE Goes(p, "fetched") /\ Kept /\ UNCHANGED ended
  /\ UNCHANGED <<setting, asked, storageVars>>

-----------------------------------------------------------------------------
(* The worker with what was fetched.                                        *)

\* An error between the return of the fetch and the storage (the response is not
\* closed, the database fails, the key is refused): nothing takes the file away.
FailUnstored(p) ==
  /\ fetch[p].pc = "fetched"
  /\ Ends(p, "unstored") /\ Kept
  /\ UNCHANGED <<setting, asked, storageVars>>

\* The lease is no longer the worker's, with the same effect on the file.
LoseLease(p) ==
  /\ fetch[p].pc = "fetched"
  /\ Ends(p, "lease_lost") /\ Kept
  /\ UNCHANGED <<setting, asked, storageVars>>

StoreBegins(p) ==
  /\ fetch[p].pc = "fetched"
  /\ \/ BeginExisting(p, fetch[p].reply.body)
     \/ BeginFails(p, fetch[p].reply.body)
     \/ BeginCopy(p, fetch[p].reply.body)
  /\ Goes(p, "storing")
  /\ UNCHANGED <<setting, ended, temporary, asked>>

StoreContinues(p) ==
  /\ fetch[p].pc = "storing"
  /\ Copy(p) \/ Verify(p) \/ Publish(p) \/ CommitFails(p)
  /\ UNCHANGED <<setting, fetch, ended, temporary, asked>>

\* commit returns or raises.  An error before the copy, or a destination that is
\* not what it should be, raises before anything is removed.
StoreEnds(p) ==
  /\ fetch[p].pc = "storing" /\ commit[p].pc \in {"done", "failed", "damaged", "unprepared"}
  /\ Ends(p, IF commit[p].pc = "done" THEN "stored" ELSE commit[p].pc)
  /\ IF commit[p].pc \in {"damaged", "unprepared"} THEN Kept ELSE Unlinked(p)
  /\ Release(p)
  /\ UNCHANGED <<setting, asked>>

\* The process dies and is started again.
Crash(p) ==
  /\ fetch[p].pc # "free"
  /\ Ends(p, "crashed") /\ Kept
  /\ Release(p)
  /\ UNCHANGED <<setting, asked>>

Decay ==
  /\ \E k \in DOMAIN object : Damage(k)
  /\ UNCHANGED <<setting, fetch, ended, temporary, asked>>

Proceed(p) ==
  \/ \E reply \in setting.replies : Follow(p, reply) \/ Unmodified(p, reply) \/ Answer(p, reply)
  \/ Read(p) \/ Complete(p)
  \/ LoseLease(p) \/ StoreBegins(p) \/ StoreContinues(p) \/ StoreEnds(p)

Next ==
  \/ \E p \in Process :
       \/ \E document \in Documents, html \in BOOLEAN : Start(p, document, html)
       \/ Lose(p) \/ Break(p) \/ FailUnstored(p) \/ Crash(p)
       \/ Proceed(p)
  \/ Decay

\* A request is answered in time or times out, and a process that runs goes on.
Fairness == \A p \in Process : WF_vars(Lose(p) \/ Proceed(p))

Spec == Init /\ [][Next]_vars /\ Fairness

-----------------------------------------------------------------------------
(* What is checked, with ObjectsWhole and StoreSpec of the storage.         *)

\* The urls a request has gone through, each with those before it.
Checked(chain) ==
  /\ Len(chain) <= MaxRedirects + 1
  /\ \A i \in DOMAIN chain :
       /\ chain[i].host \in {chain[1].host} \cup AllowedHosts
       /\ chain[i].host \notin Inner
       /\ \A j \in 1..i - 1 :
            /\ chain[j] # chain[i]
            /\ chain[j].scheme = "https" => chain[i].scheme = "https"

\* Wherever a server sends the fetcher, one step at a time, no url is asked for
\* twice, the chain stays within its bound, never goes back to http once it was
\* on https, and never leaves the first host but for an allowed one.
HopsChecked == \A p \in Process : Checked(fetch[p].chain)

Leaving == {"crashed", "lease_lost", "unstored", "unprepared", "damaged"}

\* A body refused at any byte, a connection or a disk that fails within it, a copy
\* that fails, and a body stored leave no temporary file.  One outlives its fetch
\* only when the process died, or when the worker ended between the return of the
\* fetch and the copy: by an error there, by the loss of its lease, or at a
\* destination that is not the body.
TemporaryRemoved ==
  \A file \in temporary :
    LET done == ended[file.by]
    IN IF file.nr \in DOMAIN done
       THEN done[file.nr] \in Leaving
       ELSE fetch[file.by].pc \in {"reading", "fetched", "storing"}

\* What the page shows behind a login or a registration, in the access state it
\* declares and in the words beside the link, is not requested, but at a url the
\* page shows openly as well.  (Tyler and Pennsylvania do not read what stands
\* beside a link, Texas does not for links to its own host.)
Gated(link) ==
  /\ link.access \in {"login_required", "registration_required"}
  /\ link.words \cap {"login", "register"} # {} /\ "restricted" \in link.words
Open(links) == {i \in DOMAIN links : ~Gated(links[i])}
GatedNeverAsked ==
  LET links == setting.links
  IN setting.family \notin {"tyler", "pennsylvania", "texas"} =>
       \A i \in DOMAIN links : links[i].url \in asked => \E j \in Open(links) : links[j].url = links[i].url

\* A public link to a file of the portal that names a solicitation document is
\* among the documents to retrieve, whatever other documents the page shows.  Not
\* so where the documents stay in the payload (CGI, Jaggaer), where all of them
\* are said to need a login (OpenGov), where the connector gives no identifier,
\* so that the second one is a duplicate of the first (RIVIP, Pennsylvania, the
\* live pages of IonWave), beyond Oracle's first page of attachments, and where
\* one link of another kind refuses the whole page (Tyler).
Wanted(link) ==
  /\ link.access = "public" /\ link.id # None /\ link.direct
  /\ link.words \cap {"login", "register", "restricted", "superseded"} = {}
  /\ Https(link.url) /\ link.url.host = "portal" /\ link.text = "likely"

\* Another link to the same place, or under the same identifier in the same version.
Rivals(link, other) ==
  \/ Canonical(other.url) = Canonical(link.url)
  \/ other.round = link.round /\ link.id \in {other.id, other.url.path}

OfferedKept ==
  LET links == setting.links
      exempt == \/ setting.family \in PayloadOnly \cup {"opengov", "rivip", "pennsylvania", "ionwave_live"}
                \/ setting.family = "oracle" /\ Len(links) > PageSize
                \/ setting.family = "tyler" /\ \E i \in DOMAIN links : ~(TylerSafe(links[i].url) /\ links[i].direct)
      Alone(link) == \A i \in DOMAIN links : Rivals(link, links[i]) => links[i] = link
  IN ~exempt /\ Len(links) <= MaxDocuments => \A i \in DOMAIN links :
       Wanted(links[i]) /\ Alone(links[i]) => \E document \in Documents : document.url = links[i].url

\* Every fetch comes to an end, whatever the server sends: redirects without
\* end, a body without end, or nothing at all.
FetchEnds == \A p \in Process : fetch[p].pc # "free" ~> fetch[p].pc = "free"
================================================================================
