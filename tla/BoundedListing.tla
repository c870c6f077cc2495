---------------------------- MODULE BoundedListing ----------------------------
(***************************************************************************)
(* The pattern six connectors share (bidnet_direct, public_purchase,       *)
(* planetbids, maryland_emma, georgia_gpr and the HTML side of             *)
(* euna_openbids_demandstar): walk the listing and collect records by      *)
(* identifier, stop at the bound, filter what was collected, then ask for  *)
(* the detail page of each record before it is yielded.  The circuit       *)
(* guards every request, and every failed attempt counts.                   *)
(*                                                                         *)
(* The order in which collected records are yielded is left out.            *)
(***************************************************************************)
EXTENDS ConnectorRun

ListingBound(run) == Lesser(run.limit, MaxResults)

ListingStart(query, profile, configured) ==
  IF profile.status \in {"migrated", "legacy"} THEN Refused(query, "migrated")
  ELSE IF profile.status = "unavailable" THEN Refused(query, "unavailable")
  ELSE IF configured THEN Asking(query, "page") ELSE Refused(query, "profile")

\* A status error is an httpx.HTTPError like a lost connection: counted, and
\* asked again at once.  Only a busy answer that can be retried is not counted.
ListingVerdict(answer, last) ==
  IF answer.status \in Busy /\ ~last THEN Again(Unchanged, FALSE)
  ELSE IF answer.status \in {401, 403} THEN Stop(Unchanged, "refused")
  ELSE IF answer.status # 200 THEN Counted(Again("transient_error", FALSE))
  ELSE Page("public")

\* The records that survive the filter wait for their detail pages.
ListingFiltered(run, criteria) ==
  LET kept == Meeting(run.held, run.wanted, criteria)
  IN IF kept = <<>> \/ ListingBound(run) = 0 THEN Done(run)
     ELSE [ToStage(run, "detail") EXCEPT !.queue = kept, !.held = <<>>]

ListingPage(run, page, boundary, criteria) ==
  LET next == [run EXCEPT !.marks = @ \cup {page.rows},
                          !.held = FoldLeft(KeepFirst, @, UsableRows(page.rows))]
  IN IF page.rows # <<>> /\ page.rows \in run.marks THEN ListingFiltered(run, criteria)
     ELSE IF boundary # "public" THEN Failed(run, "refused")
     ELSE IF page.rows = <<>> THEN IF run.page = 1 /\ ~page.none THEN Failed(run, "markup")
                              ELSE ListingFiltered(run, criteria)
     ELSE IF Len(next.held) >= ListingBound(run) \/ ~page.more \/ LastPage(run)
     THEN ListingFiltered(next, criteria)
     ELSE NextPage(next)

\* Whatever the detail page shows, the record is yielded; only a request that
\* fails ends the run.
ListingDetail(run, status) ==
  LET next == [Yield(run, Head(run.queue), status) EXCEPT !.queue = Tail(@)]
  IN IF next.queue = <<>> \/ Full(next, ListingBound(run)) THEN Done(next)
     ELSE ToStage(next, "detail")

\* _canonical_url: a URL without its tracking and session parameters.
Canonical(url) == [url EXCEPT !.noise = None]

ListingOffer(offered, link, safe, access) ==
  IF ~safe \/ \E i \in DOMAIN offered : Canonical(offered[i].url) = Canonical(link.url)
  THEN offered
  ELSE Append(offered, Candidate(link, link.id, access, access = "public" /\ link.direct, link.round))

\* _access_state: a declared state the domain does not know is unknown.
DeclaredAccess(access) ==
  IF access \in {"public", "login_required", "registration_required", "captcha"}
  THEN access ELSE "unknown"
================================================================================
