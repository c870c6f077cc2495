-------------------------- MODULE ConnectorDocuments ---------------------------
(***************************************************************************)
(* The way of a document from the page of a portal to the downloader: the  *)
(* connector offers the links it finds, DocumentOrchestrationService takes *)
(* the candidates into the manifest, and the worker asks for what is       *)
(* eligible.  One collection of one opportunity, as operators.             *)
(*                                                                         *)
(* A link is [id, url, access, words, round, direct, text]: the identifier *)
(* and access state the page declares, the words beside it, its version,   *)
(* whether it is a plain link to a file, and whether its name is that of a *)
(* solicitation document ("likely"), of none ("unlikely") or undecided.    *)
(***************************************************************************)
EXTENDS WebProcureConnector, StateConnectors, YieldingConnectors,
        OracleConnector, TylerConnector, CgiConnector, OpenGovConnector,
        CollectedConnectors, BoundedConnectors

CONSTANT MaxDocuments   \* document_max_per_opportunity

ASSUME DocumentsBounded == MaxDocuments \in Nat
ASSUME NoneIsNoHost == None # "portal"

DocumentFamilies ==
  {"eva", "texas", "peoplesoft", "oracle", "tyler", "rivip", "pennsylvania", "cgi", "jaggaer",
   "bonfire", "ionwave", "ionwave_live", "opengov", "bidnet", "public_purchase", "planetbids",
   "maryland", "georgia", "demandstar"}

-----------------------------------------------------------------------------
(* Pennsylvania keeps its links in the payload; candidates_from_payload    *)
(* reads them, without an identifier.                                       *)

PennsylvaniaAccess(url) ==
  CASE url.host = "supplier" -> "registration_required"
    [] url.host = "jaggaer" -> "registration_required"
    [] OTHER -> "public"

PennsylvaniaOffer(offered, link) ==
  LET access == PennsylvaniaAccess(link.url)
  IN IF link.url.scheme \notin {"http", "https"} \/ \E i \in DOMAIN offered : offered[i].url = link.url
     THEN offered
     ELSE Append(offered, Candidate(link, None, access, access = "public", link.round))

PennsylvaniaCandidates(links) == FoldLeft(PennsylvaniaOffer, <<>>, links)

-----------------------------------------------------------------------------
DetailPage == [scheme |-> "https", host |-> "portal", user |-> FALSE, path |-> "page", noise |-> None]

OffersOf(family, links) ==
  CASE family = "eva" -> EvaCandidates(links)
    [] family = "texas" -> TexasCandidates(links)
    [] family = "peoplesoft" -> PeopleSoftCandidates(links)
    [] family = "oracle" -> OracleCandidates(links)
    [] family = "tyler" -> TylerCandidates(links)
    [] family = "rivip" -> RivipCandidates(links)
    [] family = "pennsylvania" -> PennsylvaniaCandidates(links)
    [] family = "cgi" -> CgiCandidates(links)
    [] family = "jaggaer" -> JaggaerCandidates(links)
    [] family = "bonfire" -> BonfireCandidates(links)
    [] family = "ionwave" -> IonWaveCandidates(links)
    [] family = "ionwave_live" ->
         IonWaveCandidates([i \in DOMAIN links |-> IonWaveLive(links[i], DetailPage)])
    [] family = "opengov" -> OpenGovCandidates(links)
    [] family = "bidnet" -> BidNetCandidates(links)
    [] family = "public_purchase" -> PublicPurchaseCandidates(links)
    [] family = "planetbids" -> PlanetBidsCandidates(links)
    [] family = "maryland" -> MarylandCandidates(links)
    [] family = "georgia" -> GeorgiaCandidates(links)
    [] family = "demandstar" -> DemandStarCandidates(links)

\* Classes that leave their documents in the payload, where nobody looks for them.
PayloadOnly == {"cgi", "jaggaer"}
CandidatesOf(family, links) == IF family \in PayloadOnly THEN <<>> ELSE OffersOf(family, links)

-----------------------------------------------------------------------------
(* ingest: candidates with the key of an earlier one are duplicates.        *)

\* For comparison: a document found again in another version is a duplicate.
DuplicateKeyVersionless(candidate) == <<candidate.id>>

DuplicateKey(candidate) == <<candidate.id, candidate.round>>

Take(kept, candidate) ==
  IF \E i \in DOMAIN kept : DuplicateKey(kept[i]) = DuplicateKey(candidate) THEN kept
  ELSE Append(kept, candidate)
Ingested(candidates) ==
  FoldLeft(Take, <<>>, SubSeq(candidates, 1, Lesser(MaxDocuments, Len(candidates))))

\* canonicalize_document_url finds nothing wrong with it.
Canonicalizable(url) ==
  /\ url.scheme \in {"http", "https"} /\ url.host # None /\ ~url.user
  /\ url.host \notin {"local", "numeric"}

\* DocumentClassifier.classify: what is not public is not looked at.
Likely(candidate, text) == candidate.access = "public" /\ text = "likely"

\* publicly_retrievable of the row.
Retrievable(candidate) ==
  candidate.access = "public" /\ candidate.public /\ Canonicalizable(candidate.url)

\* The rows of the manifest that upsert queues and _eligible lets through.
Eligible(family, links) ==
  LET rows == Ingested(CandidatesOf(family, links))
      Text(url) == LET shown == {i \in DOMAIN links : links[i].url = url}
                   IN links[CHOOSE i \in shown : \A j \in shown : i <= j].text
  IN {rows[i] : i \in {i \in DOMAIN rows :
        Retrievable(rows[i]) /\ Likely(rows[i], Text(rows[i].url))}}
================================================================================
