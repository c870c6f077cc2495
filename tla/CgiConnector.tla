----------------------------- MODULE CgiConnector -----------------------------
(* connectors/cgi_advantage_vss.py: vendor self service entered as a guest.     *)
(* The guest session outlives the run that opened it: health.ready.              *)
EXTENDS ConnectorRun

\* Asking whether the circuit is open also forgets the failures once it is not.
CgiOpen(health, now) == OpenUntilCooldown(health, now)
CgiLooked(health, now) ==
  IF health.failures >= Threshold /\ ~CgiOpen(health, now)
  THEN [health EXCEPT !.failures = 0] ELSE health

CgiStart(query, profile, health, now) ==
  IF query.limit < 1 THEN Refused(query, "query")
  ELSE IF ~query.here THEN Returned(query)
  ELSE IF ~profile.key THEN Refused(query, "refused")
  ELSE IF CgiOpen(health, now) THEN Refused(query, "circuit")
  ELSE Asking(query, IF profile.landing /\ ~health.ready THEN "session" ELSE "page")

CgiBoundary(words) ==
  FirstNamed(<< <<"captcha", {"captcha"}>>, <<"verification_required", {"mfa"}>>,
                <<"registration_required", {"register"}>>, <<"invited_vendor_only", {"invited"}>>,
                <<"maintenance", {"maintenance"}>>, <<"scheduled_unavailable", {"scheduled"}>>,
                <<"expired_session", {"expired"}>>, <<"restricted", {"restricted"}>>,
                <<"login_required", {"login"}>>, <<"malformed_response", {"script"}>> >>,
             words, "public")

CgiVerdict(answer) ==
  LET boundary == CgiBoundary(answer.words)
  IN IF answer.status = Lost THEN Again(Unchanged, FALSE)
     ELSE IF answer.status \in Busy THEN Again("unavailable", FALSE)
     ELSE IF answer.status = 403 THEN Stop("forbidden", "refused")
     ELSE IF answer.status # 200 THEN Stop(Unchanged, "malformed")
     ELSE IF boundary \notin {"public", "expired_session"} THEN Stop(boundary, "refused")
     ELSE Page(boundary)

CgiDelay(after) == LongerOf(after)

CgiStatus(words) ==
  FirstNamed(<< <<"cancelled", {"cancel"}>>, <<"awarded", {"award"}>>, <<"closed", {"closed"}>>,
                <<"open", {"open", "amended"}>> >>, words, "unknown")

\* _bootstrap_guest: the landing page, then the guest route it names.  Only the
\* first may show an expired session.
CgiSession(run, page) ==
  IF page.garbled THEN Failed(run, "malformed")
  ELSE IF run.stage = "session" THEN ToStage(run, "form")
  ELSE IF "expired" \in page.words THEN Failed(run, "refused")
  ELSE ToStage(run, "page")

CgiReady(before, run, health) ==
  CASE before.stage = "form" /\ run.stage = "page" -> [health EXCEPT !.ready = TRUE]
    [] before.stage = "page" /\ run.stage = "session" -> [health EXCEPT !.ready = FALSE]
    [] OTHER -> health

CgiRest(run) ==
  IF run.queue = <<>> \/ (run.out # <<>> /\ Full(run, Lesser(run.limit, MaxResults)))
  THEN Done(run) ELSE ToStage(run, "detail")

CgiListed(run) == CgiRest([run EXCEPT !.queue = run.held])

\* For comparison: a session is renewed as often as it has expired.
CgiPageRenewing(run, page) ==
  LET more == [run EXCEPT !.marks = @ \cup {page.rows}, !.held = FoldLeft(KeepLast, @, Known(page.rows))]
  IN IF "expired" \in page.words THEN [ToStage(run, "session") EXCEPT !.renewed = TRUE]
     ELSE IF page.garbled THEN Failed(run, "malformed")
     ELSE IF page.rows = <<>> \/ page.rows \in run.marks THEN CgiListed(run)
     ELSE IF Len(page.rows) < PageSize \/ LastPage(run) THEN CgiListed(more)
     ELSE NextPage(more)

\* The first expired session is renewed, and its page asked again.
CgiPage(run, page) ==
  LET more == [run EXCEPT !.marks = @ \cup {page.rows}, !.held = FoldLeft(KeepLast, @, Known(page.rows))]
  IN IF "expired" \in page.words /\ ~run.renewed THEN [ToStage(run, "session") EXCEPT !.renewed = TRUE]
     ELSE IF page.garbled THEN Failed(run, "malformed")
     ELSE IF page.rows = <<>> \/ page.rows \in run.marks THEN CgiListed(run)
     ELSE IF Len(page.rows) < PageSize \/ LastPage(run) THEN CgiListed(more)
     ELSE NextPage(more)

\* An error of the detail request, or of its page, drops the record.
CgiEmit(run, row) == IF Usable(row) THEN Yield(run, row, CgiStatus(row.says)) ELSE run
CgiDropped(run) == CgiRest([run EXCEPT !.queue = Tail(@)])
CgiDetail(run, page) == CgiDropped(IF page.garbled THEN run ELSE CgiEmit(run, Head(run.queue)))

\* _documents: metadata of the record, each address once.
CgiSafe(url) == url.scheme \in {"http", "https"} /\ ~url.user /\ url.host \in {"portal", "approved"}

CgiOffer(offered, link) ==
  IF ~CgiSafe(link.url) \/ \E i \in DOMAIN offered : offered[i].url = link.url THEN offered
  ELSE Append(offered, Candidate(link, link.id,
                 IF link.url.host = "portal" THEN "public" ELSE "external_public", TRUE, link.round))

CgiCandidates(links) == FoldLeft(CgiOffer, <<>>, links)
================================================================================
