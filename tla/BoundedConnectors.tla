--------------------------- MODULE BoundedConnectors ---------------------------
(* The connectors of which a run bounds its pages, results and details alike. *)
EXTENDS BoundedListing

--------------------------------------------------------------------------------
(* connectors/bidnet_direct.py *)

BidNetSafe(url, document) ==
  Https(url) /\ url.host \in {"portal", "approved"} \cup IF document THEN {"files"} ELSE {}

BidNetConfigured(profile) == profile.key /\ BidNetSafe(profile.url, FALSE)

BidNetOpen(health, now) == OpenUntilCooldown(health, now)

BidNetStart(query, profile) == ListingStart(query, profile, BidNetConfigured(profile))

BidNetBoundary(words) ==
  FirstNamed(<< <<"robots_policy_blocked", {"robots"}>>,
                <<"automated_access_blocked", {"automated"}>>,
                <<"captcha_required", {"captcha"}>>,
                <<"premium_aggregation_required", {"premium"}>>,
                <<"subscription_required", {"subscription"}>>,
                <<"bid_participation_required", {"participation"}>>,
                <<"registration_required", {"register"}>>,
                <<"login_required", {"login"}>>, <<"restricted", {"restricted"}>>,
                <<"unavailable", {"maintenance"}>> >>,
             words, "public")

BidNetVerdict(answer, last) == ListingVerdict(answer, last)

\* The Retry-After replaces the exponential delay.
BidNetDelay(after) == IF after = None THEN 0 ELSE after

BidNetMatches ==
  {"keywords", "jurisdiction", "status", "number", "agency", "location", "type", "posted", "due"}

BidNetPage(run, page) == ListingPage(run, page, BidNetBoundary(page.words), BidNetMatches)

BidNetStatus(words) ==
  FirstNamed(<< <<"cancelled", {"cancel"}>>, <<"awarded", {"award"}>>,
                <<"closed", {"closed"}>>, <<"open", {"open"}>> >>, words, "unknown")

\* The status asked for is written over the row's own; without one the row
\* keeps its own, and is open if it has none.
BidNetShown(row, wanted) ==
  IF "status" \in wanted \/ row.says = {} THEN {"open"} ELSE row.says

BidNetDetail(run) ==
  ListingDetail(run, BidNetStatus(BidNetShown(Head(run.queue), run.wanted)))

BidNetOffer(offered, link) ==
  ListingOffer(offered, link, BidNetSafe(link.url, TRUE), DeclaredAccess(link.access))

BidNetCandidates(links) == FoldLeft(BidNetOffer, <<>>, links)

--------------------------------------------------------------------------------
(* connectors/public_purchase.py *)

PublicPurchaseSafe(url, document) ==
  Https(url) /\ url.host \in {"portal", "approved"} \cup IF document THEN {"files"} ELSE {}

PublicPurchaseConfigured(profile) == profile.key /\ PublicPurchaseSafe(profile.url, FALSE)

PublicPurchaseOpen(health, now) == OpenUntilCooldown(health, now)

PublicPurchaseStart(query, profile) == ListingStart(query, profile, PublicPurchaseConfigured(profile))

PublicPurchaseBoundary(words) ==
  FirstNamed(<< <<"login_required", {"form"}>>, <<"robots_policy_blocked", {"robots"}>>,
                <<"automated_access_blocked", {"automated"}>>,
                <<"captcha_required", {"captcha"}>>,
                <<"paid_syndication_required", {"premium"}>>,
                <<"subscription_required", {"subscription"}>>,
                <<"bid_participation_required", {"participation"}>>,
                <<"agency_enrollment_required", {"enrollment"}>>,
                <<"registration_required", {"register"}>>,
                <<"login_required", {"login"}>>, <<"restricted", {"restricted"}>>,
                <<"unavailable", {"maintenance"}>> >>,
             words, "public")

PublicPurchaseVerdict(answer, last) == ListingVerdict(answer, last)

\* The Retry-After replaces the exponential delay.
PublicPurchaseDelay(after) == IF after = None THEN 0 ELSE after

PublicPurchaseMatches ==
  {"keywords", "jurisdiction", "status", "number", "agency", "category", "location", "type", "posted",
   "due"}

PublicPurchasePage(run, page) == ListingPage(run, page, PublicPurchaseBoundary(page.words), PublicPurchaseMatches)

PublicPurchaseStatus(words) ==
  FirstNamed(<< <<"cancelled", {"cancel"}>>, <<"awarded", {"award", "final"}>>,
                <<"closed", {"closed"}>>, <<"open", {"open"}>> >>, words, "unknown")

PublicPurchaseDetail(run) == ListingDetail(run, PublicPurchaseStatus(Head(run.queue).says))

PublicPurchaseOffer(offered, link) ==
  ListingOffer(offered, link, PublicPurchaseSafe(link.url, TRUE), DeclaredAccess(link.access))

PublicPurchaseCandidates(links) == FoldLeft(PublicPurchaseOffer, <<>>, links)

--------------------------------------------------------------------------------
(* connectors/planetbids.py *)

PlanetBidsSafe(url, document) ==
  Https(url) /\ url.host \in {"portal", "approved"} \cup IF document THEN {"files"} ELSE {}

PlanetBidsConfigured(profile) == profile.key /\ PlanetBidsSafe(profile.url, FALSE)

PlanetBidsOpen(health, now) == OpenUntilCooldown(health, now)

PlanetBidsStart(query, profile) == ListingStart(query, profile, PlanetBidsConfigured(profile))

PlanetBidsBoundary(words) ==
  FirstNamed(<< <<"invitation_only", {"invitation"}>>,
                <<"prospective_bidder_required", {"participation"}>>,
                <<"registration_required", {"register"}>>,
                <<"login_required", {"login"}>>, <<"restricted", {"restricted"}>>,
                <<"unavailable", {"maintenance"}>> >>,
             words, "public")

PlanetBidsVerdict(answer, last) == ListingVerdict(answer, last)

\* The Retry-After replaces the exponential delay.
PlanetBidsDelay(after) == IF after = None THEN 0 ELSE after

PlanetBidsMatches ==
  {"keywords", "jurisdiction", "status", "posted", "due"}

PlanetBidsPage(run, page) == ListingPage(run, page, PlanetBidsBoundary(page.words), PlanetBidsMatches)

PlanetBidsStatus(words) ==
  FirstNamed(<< <<"cancelled", {"cancel"}>>, <<"awarded", {"award"}>>,
                <<"closed", {"closed"}>>, <<"open", {"open", "bidding", "planning"}>> >>, words, "unknown")

PlanetBidsDetail(run) == ListingDetail(run, PlanetBidsStatus(Head(run.queue).says))

PlanetBidsOffer(offered, link) ==
  ListingOffer(offered, link, PlanetBidsSafe(link.url, TRUE), DeclaredAccess(link.access))

PlanetBidsCandidates(links) == FoldLeft(PlanetBidsOffer, <<>>, links)

--------------------------------------------------------------------------------
(* connectors/maryland_emma.py *)

MarylandSafe(url, document) ==
  Https(url) /\ url.host \in {"portal", "approved"} \cup IF document THEN {"files"} ELSE {}

MarylandConfigured(profile) == profile.key /\ MarylandSafe(profile.url, FALSE)

MarylandOpen(health, now) == OpenUntilCooldown(health, now)

MarylandStart(query, profile) == ListingStart(query, profile, MarylandConfigured(profile))

MarylandBoundary(words) ==
  FirstNamed(<< <<"captcha_required", {"captcha"}>>,
                <<"vendor_profile_required", {"profile"}>>,
                <<"invitation_only", {"invitation"}>>,
                <<"vendor_profile_required", {"participation"}>>,
                <<"registration_required", {"register"}>>,
                <<"login_required", {"login"}>>, <<"restricted", {"restricted"}>>,
                <<"unavailable", {"maintenance"}>> >>,
             words, "public")

MarylandVerdict(answer, last) == ListingVerdict(answer, last)

\* The Retry-After replaces the exponential delay.
MarylandDelay(after) == IF after = None THEN 0 ELSE after

MarylandMatches ==
  {"keywords", "jurisdiction", "status", "number", "agency", "category", "posted", "due"}

MarylandPage(run, page) == ListingPage(run, page, MarylandBoundary(page.words), MarylandMatches)

MarylandStatus(words) ==
  FirstNamed(<< <<"cancelled", {"cancel"}>>, <<"awarded", {"award"}>>,
                <<"closed", {"closed"}>>, <<"open", {"open"}>> >>, words, "unknown")

MarylandDetail(run) == ListingDetail(run, MarylandStatus(Head(run.queue).says))

\* captcha and prospective_bidder_required are aliases of other states.
MarylandAccess(access) == IF access = "captcha" THEN "captcha_required" ELSE DeclaredAccess(access)

MarylandOffer(offered, link) ==
  ListingOffer(offered, link, MarylandSafe(link.url, TRUE), MarylandAccess(link.access))

MarylandCandidates(links) == FoldLeft(MarylandOffer, <<>>, links)

--------------------------------------------------------------------------------
(* connectors/georgia_gpr.py: a 404 is a boundary here *)

GeorgiaSafe(url, document) ==
  Https(url) /\ url.host \in {"portal", "approved"} \cup IF document THEN {"files"} ELSE {}

GeorgiaConfigured(profile) == profile.key /\ GeorgiaSafe(profile.url, FALSE)

GeorgiaOpen(health, now) == OpenUntilCooldown(health, now)

GeorgiaStart(query, profile) == ListingStart(query, profile, GeorgiaConfigured(profile))

GeorgiaBoundary(words) ==
  FirstNamed(<< <<"captcha_required", {"captcha"}>>,
                <<"vendor_profile_required", {"profile"}>>,
                <<"invitation_only", {"invitation"}>>,
                <<"vendor_profile_required", {"participation"}>>,
                <<"registration_required", {"register"}>>,
                <<"login_required", {"login"}>>, <<"migrated", {"migrated"}>>,
                <<"restricted", {"restricted"}>>, <<"unavailable", {"maintenance"}>> >>,
             words, "public")

GeorgiaVerdict(answer, last) ==
  IF answer.status = 404 THEN Stop(Unchanged, "refused") ELSE ListingVerdict(answer, last)

\* The Retry-After replaces the exponential delay.
GeorgiaDelay(after) == IF after = None THEN 0 ELSE after

GeorgiaMatches ==
  {"keywords", "jurisdiction", "status", "number", "agency", "category", "type", "posted", "due"}

GeorgiaPage(run, page) == ListingPage(run, page, GeorgiaBoundary(page.words), GeorgiaMatches)

GeorgiaStatus(words) ==
  FirstNamed(<< <<"cancelled", {"cancel"}>>, <<"awarded", {"award"}>>,
                <<"closed", {"evaluation", "closed"}>>, <<"open", {"open"}>> >>, words, "unknown")

GeorgiaDetail(run) == ListingDetail(run, GeorgiaStatus(Head(run.queue).says))

\* captcha and prospective_bidder_required are aliases of other states.
GeorgiaAccess(access) == IF access = "captcha" THEN "captcha_required" ELSE DeclaredAccess(access)

GeorgiaOffer(offered, link) ==
  ListingOffer(offered, link, GeorgiaSafe(link.url, TRUE), GeorgiaAccess(link.access))

GeorgiaCandidates(links) == FoldLeft(GeorgiaOffer, <<>>, links)

--------------------------------------------------------------------------------
(* connectors/euna_openbids_demandstar.py: a listing in HTML, or the JSON interface *)

DemandStarSafe(url, document) ==
  url.scheme = "https" /\ url.host \in {"portal", "approved"} \cup IF document THEN {"files"} ELSE {}

DemandStarConfigured(profile) == profile.key /\ DemandStarSafe(profile.url, FALSE)

DemandStarOpen(health, now) == OpenUntilCooldown(health, now)

DemandStarStart(query, profile) == ListingStart(query, profile, DemandStarConfigured(profile))

DemandStarBoundary(words) ==
  FirstNamed(<< <<"payment_required", {"payment"}>>,
                <<"subscription_required", {"subscription"}>>,
                <<"registration_required", {"register"}>>,
                <<"login_required", {"login"}>>, <<"restricted", {"restricted"}>>,
                <<"unavailable", {"maintenance"}>> >>,
             words, "public")

DemandStarVerdict(answer, last) == ListingVerdict(answer, last)

\* The Retry-After replaces the exponential delay.
DemandStarDelay(after) == IF after = None THEN 0 ELSE after

DemandStarMatches ==
  {"keywords", "jurisdiction", "status", "posted", "due"}

DemandStarPage(run, page) == ListingPage(run, page, DemandStarBoundary(page.words), DemandStarMatches)

DemandStarStatus(words) ==
  FirstNamed(<< <<"cancelled", {"cancel"}>>, <<"awarded", {"award"}>>,
                <<"closed", {"closed", "evaluation"}>>, <<"open", {"open", "active"}>> >>, words, "unknown")

DemandStarDetail(run) == ListingDetail(run, DemandStarStatus(Head(run.queue).says))

\* _discover_api: one search, then a fixed number of requests for each row,
\* made before its record is filtered.  The records are returned together, so a
\* request that fails, or an answer that is no JSON, loses them all.
DemandStarLost(run, why) == [Failed(run, why) EXCEPT !.out = <<>>]

DemandStarSearched(run, page) ==
  LET rows == UsableRows(page.rows)
  IN IF page.garbled \/ page.words # {} THEN DemandStarLost(run, "malformed")
     ELSE IF rows = <<>> THEN Done(run) ELSE [ToStage(run, "detail") EXCEPT !.queue = rows]

DemandStarPart(run, page, parts) ==
  LET row == Head(run.queue)
      rest == [run EXCEPT !.queue = Tail(@), !.details = 0]
      next == IF Meets(row, run.wanted, DemandStarMatches)
              THEN Yield(rest, row, DemandStarStatus(row.says)) ELSE rest
  IN IF page.garbled \/ page.words # {} THEN DemandStarLost(run, "malformed")
     ELSE IF run.details + 1 < parts THEN [ToStage(run, "detail") EXCEPT !.details = @ + 1]
     ELSE IF next.queue = <<>> \/ (next.out # rest.out /\ Full(next, ListingBound(run))) THEN Done(next)
     ELSE ToStage(next, "detail")

DemandStarOffer(offered, link) ==
  ListingOffer(offered, link, DemandStarSafe(link.url, TRUE), DeclaredAccess(link.access))

DemandStarCandidates(links) == FoldLeft(DemandStarOffer, <<>>, links)
================================================================================
