--------------------------- MODULE OpenGovConnector ---------------------------
(* connectors/opengov_procurement.py: projects of a JSON interface; every new    *)
(* row is completed before the next is looked at.                                 *)
EXTENDS ConnectorRun

\* Asking whether the circuit is open also forgets the failures once it is not.
OpenGovOpen(health, now) == OpenUntilCooldown(health, now)
OpenGovLooked(health, now) ==
  IF health.failures >= Threshold /\ ~OpenGovOpen(health, now)
  THEN [health EXCEPT !.failures = 0] ELSE health

\* A search the interface was never seen to answer is refused, not approximated.
OpenGovStart(query, profile, health, now) ==
  IF ~query.here THEN Returned(query)
  ELSE IF ~profile.key THEN Refused(query, "refused")
  ELSE IF OpenGovOpen(health, now) THEN Refused(query, "circuit")
  ELSE IF query.wanted \cap {"number", "categories"} # {} THEN Refused(query, "refused")
  ELSE IF query.limit = 0 THEN Returned(query)
  ELSE Asking(query, "page")

OpenGovBoundary(words) ==
  FirstNamed(<< <<"captcha", {"captcha"}>>, <<"login_required", {"login"}>> >>, words,
             IF words = {} THEN "public_metadata_only" ELSE "malformed")

\* What a request succeeds in is recorded with the record it completes.
OpenGovVerdict(answer, last) ==
  LET boundary == OpenGovBoundary(answer.words)
  IN IF answer.status \in Busy \cup {Lost}
     THEN Again(IF last THEN "transient_error" ELSE Unchanged, FALSE)
     ELSE IF answer.status = 404 THEN Stop("not_found", "refused")
     ELSE IF answer.status \in {401, 403} THEN Stop("login_required", "refused")
     ELSE IF answer.status # 200 THEN Stop("restricted", "refused")
     ELSE IF boundary # "public_metadata_only" THEN Stop(boundary, "refused")
     ELSE Page(Unchanged)

OpenGovDelay(after) == IF after = None THEN 0 ELSE after

OpenGovStatus(words) ==
  FirstNamed(<< <<"cancelled", {"cancel"}>>, <<"awarded", {"award"}>>, <<"closed", {"closed"}>>,
                <<"open", {"open", "active", "posted"}>> >>, words, "unknown")

OpenGovSuccess(health) == [health EXCEPT !.failures = 0, !.access = "public_metadata_only"]
OpenGovFailure(health, run, now) ==
  [Failure(health, now) EXCEPT !.access = IF run.why = "malformed" THEN "malformed" ELSE @]

\* For comparison: pages counted from zero.
OpenGovRestShort(run, rows) ==
  LET new == Without(rows, Ids(run.held))
  IN IF new # <<>> THEN IF Head(new).id = None THEN Failed(run, "malformed")
                        ELSE [ToStage(run, "detail") EXCEPT !.queue = new]
     ELSE IF run.ends \/ run.page + 1 >= MaxPages THEN Done(run)
     ELSE [NextPage(ToStage(run, "page")) EXCEPT !.queue = <<>>]

\* The rows of the page that are still to be completed, then the next page.
\* An identity that was looked at once is not looked at again.
OpenGovRest(run, rows) ==
  LET new == Without(rows, Ids(run.held))
  IN IF new # <<>> THEN IF Head(new).id = None THEN Failed(run, "malformed")
                        ELSE [ToStage(run, "detail") EXCEPT !.queue = new]
     ELSE IF run.ends \/ LastPage(run) THEN Done(run)
     ELSE [NextPage(ToStage(run, "page")) EXCEPT !.queue = <<>>]

OpenGovPage(run, page) ==
  IF page.garbled THEN Failed(run, "malformed")
  ELSE OpenGovRest([run EXCEPT !.ends = page.rows = <<>> \/ ~page.more], page.rows)

OpenGovDetail(run, page) ==
  LET row == Head(run.queue)
      seen == [run EXCEPT !.held = Append(@, row)]
      next == Yield(seen, row, OpenGovStatus(row.says))
  IN IF page.garbled THEN Failed(run, "malformed")
     ELSE IF ~Meets(row, run.wanted, {"posted", "due"}) THEN OpenGovRest(seen, Tail(run.queue))
     ELSE IF ~Usable(row) THEN Failed(run, "malformed")
     ELSE IF Full(next, Lesser(run.limit, MaxResults)) THEN Done(next)
     ELSE OpenGovRest(next, Tail(run.queue))

\* _document_metadata: documents by identifier, the last entry for each; behind
\* the login of the portal, whatever they say.
OpenGovOffer(offered, link) ==
  IF link.id = None THEN offered
  ELSE Append(Without(offered, {link.id}), Candidate(link, link.id, "login_required", FALSE, link.round))

OpenGovCandidates(links) == FoldLeft(OpenGovOffer, <<>>, links)
================================================================================
