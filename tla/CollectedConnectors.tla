-------------------------- MODULE CollectedConnectors --------------------------
(* The connectors that collect a listing before they yield the first of it. *)
EXTENDS CollectedListing

--------------------------------------------------------------------------------
(* connectors/euna_bonfire.py *)

BonfireStart(query, profile, health, now) ==
  LET run == CollectStart(query, profile, health, now)
  IN IF Active(run) /\ profile.status = "unsearchable" /\ "keywords" \in query.wanted
     THEN Refused(query, "refused") ELSE run

\* Records on a page count for more than its calls to register.
BonfireBoundary(words) ==
  FirstNamed(<< <<"captcha", {"captcha"}>>, <<"login_required", {"login"}>>,
                <<"unavailable", {"maintenance"}>>, <<"migrated", {"migrated"}>>,
                <<"javascript_only", {"script"}>>, <<"public", {"records"}>>,
                <<"registration_required", {"register"}>> >>, words, "public")

BonfireVerdict(answer, last) == CollectVerdict(answer, BonfireBoundary(answer.words), last)

BonfireDelay(after) == CollectDelay(after)

BonfireStatus(words) == CollectStatus(words)

BonfireMatches == {"keywords", "number", "status", "department", "posted", "due"}

\* A first page without records has to say so.
BonfirePage(run, page, single) ==
  IF page.rows = <<>> /\ run.page = 1 /\ ~page.none THEN Failed(run, "malformed")
  ELSE CollectPage(run, page, BonfireMatches, single)

BonfireDetail(run, page) == CollectDetail(run, page, BonfireStatus(Head(run.queue).says))

BonfireSafe(url, document) ==
  Https(url) /\ url.host \in {"portal", "approved"} \cup IF document THEN {"files"} ELSE {}

BonfireAccess(link) ==
  IF link.access \in {"login_required", "registration_required", "captcha", "restricted"}
  THEN link.access ELSE "public"

BonfireOffer(offered, link) ==
  CollectOffer(offered, link, BonfireSafe(link.url, TRUE), BonfireAccess(link))

BonfireCandidates(links) == FoldLeft(BonfireOffer, <<>>, links)

--------------------------------------------------------------------------------
(* connectors/euna_ionwave.py *)

IonWaveStart(query, profile, health, now) ==
  LET run == CollectStart(query, profile, health, now)
  IN IF Active(run) /\ profile.status = "unsearchable" /\ "keywords" \in query.wanted
     THEN Refused(query, "refused") ELSE run

IonWaveBoundary(words) ==
  FirstNamed(<< <<"captcha", {"captcha"}>>, <<"login_required", {"login", "expired"}>>,
                <<"unavailable", {"maintenance"}>>, <<"migrated", {"migrated"}>>,
                <<"javascript_only", {"script"}>>, <<"public", {"records"}>>,
                <<"registration_required", {"register"}>> >>, words, "public")

\* A refusal to serve that shows a captcha is one, and is not asked again.
IonWaveVerdict(answer, last) ==
  IF answer.status = 429 /\ IonWaveBoundary(answer.words) = "captcha" THEN Stop("captcha", "refused")
  ELSE CollectVerdict(answer, IonWaveBoundary(answer.words), last)

IonWaveDelay(after) == CollectDelay(after)

IonWaveStatus(words) == CollectStatus(words)

IonWaveMatches == {"keywords", "number", "status", "department", "posted", "due"}

\* A first page without records has to say so.
IonWavePage(run, page) ==
  IF page.rows = <<>> /\ run.page = 1 /\ ~page.none THEN Failed(run, "malformed")
  ELSE CollectPage(run, page, IonWaveMatches, FALSE)

IonWaveDetail(run, page) == CollectDetail(run, page, IonWaveStatus(Head(run.queue).says))

IonWaveSafe(url, document) ==
  Https(url) /\ url.host \in {"portal", "approved"} \cup IF document THEN {"files"} ELSE {}

\* _parse_live_detail: a restricted attachment has no address of its own, and is
\* given the one of the page.
IonWaveLive(link, detail) ==
  IF "restricted" \in link.words
  THEN [link EXCEPT !.url = detail, !.access = "login_required", !.id = None]
  ELSE [link EXCEPT !.access = "public", !.id = None]

IonWaveAccess(link) ==
  IF link.access \in {"login_required", "registration_required", "captcha", "restricted"}
  THEN link.access ELSE "public"

IonWaveOffer(offered, link) ==
  CollectOffer(offered, link, IonWaveSafe(link.url, TRUE), IonWaveAccess(link))

IonWaveCandidates(links) == FoldLeft(IonWaveOffer, <<>>, links)

--------------------------------------------------------------------------------
(* connectors/jaggaer_sciquest.py *)

JaggaerStart(query, profile, health, now) == CollectStart(query, profile, health, now)

JaggaerBoundary(words) ==
  FirstNamed(<< <<"captcha", {"captcha"}>>, <<"login_required", {"login"}>>,
                <<"registration_required", {"register"}>>, <<"unavailable", {"maintenance"}>>,
                <<"unsupported", {"script"}>> >>, words, "public")

JaggaerVerdict(answer, last) == CollectVerdict(answer, JaggaerBoundary(answer.words), last)

JaggaerDelay(after) == CollectDelay(after)

JaggaerStatus(words) == CollectStatus(words)

\* A keyword the portal cannot search for is looked for in the record.
JaggaerMatches == {"keywords"}

JaggaerPage(run, page) == CollectPage(run, page, JaggaerMatches, FALSE)

JaggaerDetail(run, page) == CollectDetail(run, page, JaggaerStatus(Head(run.queue).says))

JaggaerSafe(url) == Https(url) /\ url.host \in {"portal", "approved"}

JaggaerOffer(offered, link) ==
  CollectOffer(offered, link, JaggaerSafe(link.url),
               IF link.access \in {"login_required", "restricted"} THEN "login_required" ELSE "public")

JaggaerCandidates(links) == FoldLeft(JaggaerOffer, <<>>, links)
================================================================================
