---------------------------- MODULE StateConnectors ----------------------------
(* The classes of portals that one state runs: connectors/eva.py (Virginia),    *)
(* texas_esbd.py, rhode_island_rivip.py and pennsylvania_emarketplace.py.       *)
EXTENDS ConnectorRun

-----------------------------------------------------------------------------
(* connectors/eva.py: lots of the eVA board, collected over all pages with   *)
(* every round they are listed under; details are then asked lot by lot.     *)

EvaOpen(health, now) == OpenUntilCooldown(health, now)

EvaStart(query, health, now) ==
  IF query.limit < 1 \/ ~query.here THEN Returned(query)
  ELSE IF EvaOpen(health, now) THEN Refused(query, "circuit") ELSE Asking(query, "page")

EvaBoundary(words) ==
  FirstNamed(<< <<"captcha_blocked", {"captcha"}>>, <<"session_expired", {"expired"}>>,
                <<"maintenance", {"maintenance"}>>, <<"free_account_required", {"register"}>>,
                <<"login_required", {"login"}>>, <<"restricted", {"restricted"}>>,
                <<"malformed_response", {"script"}>> >>, words, "public")

\* For comparison: the text of the page is not looked at.
EvaVerdictBlind(answer) ==
  IF answer.status = Lost THEN Again(Unchanged, FALSE)
  ELSE IF answer.status \in Busy THEN Again("unavailable", FALSE)
  ELSE IF answer.status = 403 THEN Stop("forbidden", "refused")
  ELSE IF answer.status # 200 THEN Stop(Unchanged, "malformed")
  ELSE Page("public")

EvaVerdict(answer) ==
  LET boundary == EvaBoundary(answer.words)
  IN IF answer.status = Lost THEN Again(Unchanged, FALSE)
     ELSE IF answer.status \in Busy THEN Again("unavailable", FALSE)
     ELSE IF answer.status = 403 THEN Stop("forbidden", "refused")
     ELSE IF answer.status # 200 THEN Stop(Unchanged, "malformed")
     ELSE IF boundary # "public" THEN Stop(boundary, "refused")
     ELSE Page(IF "garbled" \in answer.words THEN "malformed_response" ELSE "public")

EvaDelay(after) == LongerOf(after)

EvaStatus(words) ==
  FirstNamed(<< <<"cancelled", {"cancel"}>>, <<"awarded", {"award"}>>,
                <<"closed", {"closed", "expired"}>>, <<"open", {"open", "active"}>>,
                <<"forecast", {"forecast"}>> >>, words, "unknown")

\* A lot whose row cannot be normalized is skipped.
EvaEmit(run, row) ==
  IF Full(run, Lesser(run.limit, MaxResults)) \/ ~Usable(row) THEN run
  ELSE Yield(run, row, EvaStatus(row.says))

\* For comparison: one more detail request without a lot to ask for.
EvaRestOneMore(run) ==
  IF Full(run, Lesser(run.limit, MaxResults)) THEN Done(run)
  ELSE IF run.details < MaxDetails THEN ToStage(run, "detail")
  ELSE Done(FoldLeft(EvaEmit, run, run.queue))

\* The lots still queued: one detail request each while the run may make them.
EvaRest(run) ==
  IF run.queue = <<>> \/ Full(run, Lesser(run.limit, MaxResults)) THEN Done(run)
  ELSE IF run.details < MaxDetails THEN ToStage(run, "detail")
  ELSE Done(FoldLeft(EvaEmit, run, run.queue))

EvaListed(run) == EvaRest([run EXCEPT !.queue = run.held])

EvaPage(run, page) ==
  LET more == [run EXCEPT !.marks = @ \cup {page.rows}, !.held = FoldLeft(KeepNewest, @, Known(page.rows))]
  IN IF page.garbled THEN Failed(run, "malformed")
     ELSE IF page.rows = <<>> \/ page.rows \in run.marks THEN EvaListed(run)
     ELSE IF Len(page.rows) < PageSize \/ LastPage(run) THEN EvaListed(more)
     ELSE NextPage(more)

EvaDetail(run, page) ==
  IF page.garbled THEN Failed(run, "malformed")
  ELSE EvaRest(EvaEmit([run EXCEPT !.details = @ + 1, !.queue = Tail(@)], Head(run.queue)))

\* For comparison: only a registration is looked for.
EvaAccessRegistration(words) == FirstNamed(<< <<"registration_required", {"register"}>> >>, words, "public")

\* _documents and document_candidates: an attachment without identifier is
\* known by its path, and is offered once per round.
EvaAccess(words) ==
  FirstNamed(<< <<"registration_required", {"register"}>>, <<"login_required", {"login"}>> >>,
             words, "public")

EvaOffer(offered, link) ==
  LET id == IF link.id # None THEN link.id ELSE link.url.path
      access == EvaAccess(link.words)
  IN IF \/ link.url.scheme # "https" \/ link.url.host # "portal"
        \/ \E i \in DOMAIN offered : offered[i].id = id /\ offered[i].round = link.round
     THEN offered
     ELSE Append(offered, Candidate(link, id, access, access = "public", link.round))

EvaCandidates(links) == FoldLeft(EvaOffer, <<>>, links)

-----------------------------------------------------------------------------
(* connectors/texas_esbd.py: the Electronic State Business Daily, collected    *)
(* over all pages with the latest listing of a record, then asked record by    *)
(* record for details.                                                          *)

TexasOpen(health, now) == OpenUntilCooldown(health, now)

TexasStart(query, health, now) ==
  IF query.limit < 1 \/ ~query.here THEN Returned(query)
  ELSE IF TexasOpen(health, now) THEN Refused(query, "circuit") ELSE Asking(query, "page")

TexasBoundary(words) ==
  FirstNamed(<< <<"captcha", {"captcha"}>>, <<"maintenance", {"maintenance"}>>,
                <<"login_required", {"login"}>>, <<"restricted", {"restricted"}>>,
                <<"unknown", {"garbled"}>> >>, words, "public")

TexasVerdict(answer) ==
  LET boundary == TexasBoundary(answer.words)
  IN IF answer.status = Lost THEN Again(Unchanged, FALSE)
     ELSE IF answer.status \in Busy THEN Again("unavailable", FALSE)
     ELSE IF answer.status = 403 THEN Stop("forbidden", "refused")
     ELSE IF answer.status # 200 THEN Stop(Unchanged, "malformed")
     ELSE IF boundary # "public" THEN Stop(boundary, "refused")
     ELSE Page("public")

TexasDelay(after) == LongerOf(after)

TexasStatus(words) ==
  FirstNamed(<< <<"cancelled", {"cancel"}>>, <<"awarded", {"award"}>>, <<"closed", {"closed"}>>,
                <<"forecast", {"presolicitation"}>>, <<"open", {"posted"}>> >>, words, "unknown")

\* A page without records that does not say so is an unexpected shape.
TexasRecords(page) == IF page.rows = <<>> /\ ~page.none THEN None ELSE page.rows

\* A record that cannot be normalized is skipped.
TexasEmit(run, row) ==
  IF Full(run, Lesser(run.limit, MaxResults)) \/ ~Usable(row) THEN run
  ELSE Yield(run, row, TexasStatus(row.says))

\* The records still queued: one detail request each while the run may make them.
TexasRest(run) ==
  IF run.queue = <<>> \/ Full(run, Lesser(run.limit, MaxResults)) THEN Done(run)
  ELSE IF run.details < MaxDetails THEN ToStage(run, "detail")
  ELSE Done(FoldLeft(TexasEmit, run, run.queue))

TexasListed(run) == TexasRest([run EXCEPT !.queue = run.held])

TexasPage(run, page) ==
  LET more == [run EXCEPT !.marks = @ \cup {page.rows}, !.held = FoldLeft(KeepLast, @, Known(page.rows))]
  IN IF TexasRecords(page) = None THEN Failed(run, "markup")
     ELSE IF page.rows = <<>> \/ page.rows \in run.marks THEN TexasListed(run)
     ELSE IF Len(page.rows) < PageSize \/ LastPage(run) THEN TexasListed(more)
     ELSE NextPage(more)

TexasDetail(run, page) ==
  IF TexasRecords(page) = None THEN Failed(run, "markup")
  ELSE TexasRest(TexasEmit([run EXCEPT !.details = @ + 1, !.queue = Tail(@)], Head(run.queue)))

\* _documents and document_candidates: any web address is kept, and one outside
\* the portal is public unless its text asks for an account.
TexasAccess(link) ==
  IF link.url.host = "portal" THEN "public"
  ELSE IF link.words \cap {"login", "register"} # {} THEN "registration_required"
  ELSE "public"

TexasOffer(offered, link) ==
  IF link.url.scheme \notin {"http", "https"} \/ \E i \in DOMAIN offered : offered[i].url = link.url
  THEN offered
  ELSE Append(offered, Candidate(link, link.id, TexasAccess(link), TexasAccess(link) = "public", link.round))

TexasCandidates(links) == FoldLeft(TexasOffer, <<>>, links)

-----------------------------------------------------------------------------
(* connectors/rhode_island_rivip.py: an ASP.NET form navigated without retries  *)
(* and without a circuit.                                                        *)

RivipStart(query, profile) ==
  IF profile.status \in {"migrated", "unavailable"} THEN Refused(query, profile.status)
  ELSE Asking(query, "session")

RivipBoundary(words) ==
  FirstNamed(<< <<"captcha_required", {"captcha"}>>, <<"login_required", {"login"}>>,
                <<"registration_required", {"register"}>>, <<"migrated", {"migrated"}>>,
                <<"unavailable", {"expired", "maintenance"}>> >>, words, "public")

\* No status is looked at: an error page lacks the marker of the form.
RivipVerdict(answer) ==
  IF answer.status = Lost THEN Stop(Unchanged, "unavailable")
  ELSE IF RivipBoundary(answer.words) # "public" THEN Stop(Unchanged, "refused")
  ELSE IF answer.status # 200 \/ answer.words # {} THEN Stop(Unchanged, "markup")
  ELSE Page(Unchanged)

RivipStatus(words) ==
  FirstNamed(<< <<"open", {"active", "open"}>>, <<"awarded", {"award"}>>,
                <<"cancelled", {"cancel"}>>, <<"closed", {"closed"}>> >>, words, "unknown")

RivipSession(run) == ToStage(run, "form")

\* submit: an event may be raised once, and the pager is the only event there
\* is.  The page after the last of the bound is still posted.
RivipNext(run) ==
  IF run.ends THEN Done(run)
  ELSE IF run.page >= 2 THEN Failed(run, "cycle")
  ELSE NextPage(ToStage(run, "page"))

RivipRest(run, rows) ==
  IF rows = <<>> THEN RivipNext([run EXCEPT !.queue = <<>>])
  ELSE [ToStage(run, "detail") EXCEPT !.queue = rows]

RivipPage(run, page) ==
  LET rows == Without(FoldLeft(KeepFirst, <<>>, page.rows), {None} \cup Ids(run.out))
  IN IF page.garbled THEN Failed(run, "markup")
     ELSE IF run.page > MaxPages \/ page.rows \in run.marks THEN Done(run)
     ELSE RivipRest([run EXCEPT !.marks = @ \cup {page.rows}, !.ends = ~page.more], rows)

\* _normalize: a record without title or entity is a changed page.
RivipRecord(run, row) ==
  IF ~Usable(row) THEN Failed(run, "markup")
  ELSE LET more == Yield(run, row, RivipStatus(row.says))
       IN IF Full(more, Lesser(run.limit, MaxResults)) THEN Done(more) ELSE more

RivipDetail(run, page) ==
  LET next == RivipRecord(run, Head(run.queue))
  IN IF page.garbled THEN Failed(run, "markup")
     ELSE IF Active(next) THEN RivipRest(next, Tail(run.queue))
     ELSE next

\* Every document is offered; only those of an approved host, declared public,
\* are for retrieval.  The scheme of an address is not looked at.
RivipOffer(offered, link) ==
  LET eligible == link.url.host \in {"portal", "approved"} /\ link.access = "public" /\ link.direct
  IN IF \E i \in DOMAIN offered : offered[i].url = link.url THEN offered
     ELSE Append(offered, Candidate(link, None, IF eligible THEN "public" ELSE "external",
                                    eligible, link.round))

RivipCandidates(links) == FoldLeft(RivipOffer, <<>>, links)

-----------------------------------------------------------------------------
(* connectors/pennsylvania_emarketplace.py: web forms collected over a lane     *)
(* (the model has one), then asked record by record.                             *)

\* Asking whether the circuit is open also forgets the failures once it is not.
PennsylvaniaOpen(health, now) == OpenUntilCooldown(health, now)
PennsylvaniaLooked(health, now) ==
  IF health.failures >= Threshold /\ ~PennsylvaniaOpen(health, now)
  THEN [health EXCEPT !.failures = 0] ELSE health

PennsylvaniaStart(query, health, now) ==
  IF query.limit < 1 THEN Refused(query, "query")
  ELSE IF ~query.here THEN Returned(query)
  ELSE IF PennsylvaniaOpen(health, now) THEN Refused(query, "circuit")
  ELSE Asking(query, "session")

PennsylvaniaBoundary(words) ==
  FirstNamed(<< <<"captcha", {"captcha"}>>, <<"mfa_required", {"mfa"}>>,
                <<"registration_required", {"register"}>>, <<"login_required", {"login"}>>,
                <<"maintenance", {"maintenance"}>>, <<"expired_session", {"expired"}>>,
                <<"restricted", {"restricted"}>>, <<"malformed_response", {"garbled"}>> >>,
             words, "public")

PennsylvaniaVerdict(answer) ==
  LET boundary == PennsylvaniaBoundary(answer.words)
  IN IF answer.status = Lost THEN Again(Unchanged, FALSE)
     ELSE IF answer.status \in Busy THEN Again("unavailable", FALSE)
     ELSE IF answer.status = 403 THEN Stop("forbidden", "refused")
     ELSE IF answer.status # 200 THEN Stop(Unchanged, "malformed")
     ELSE IF boundary \notin {"public", "expired_session"} THEN Stop(boundary, "refused")
     ELSE Page(boundary)

PennsylvaniaDelay(after) == LongerOf(after)

PennsylvaniaStatus(words) ==
  FirstNamed(<< <<"cancelled", {"cancel"}>>, <<"awarded", {"award"}>>, <<"closed", {"closed"}>>,
                <<"open", {"open", "amended"}>> >>, words, "unknown")

\* A record that cannot be normalized is skipped, after its detail page was asked.
PennsylvaniaEmit(run, row) ==
  IF Usable(row) THEN Yield(run, row, PennsylvaniaStatus(row.says)) ELSE run

PennsylvaniaRest(run) ==
  IF run.queue = <<>> \/ (run.out # <<>> /\ Full(run, Lesser(run.limit, MaxResults)))
  THEN Done(run) ELSE ToStage(run, "detail")

PennsylvaniaListed(run) == PennsylvaniaRest([run EXCEPT !.queue = run.held])

PennsylvaniaSession(run) ==
  IF run.page > MaxPages THEN PennsylvaniaListed(run) ELSE ToStage(run, "page")

\* An expired session is renewed once, and costs the page it was met on.
PennsylvaniaPage(run, page) ==
  LET more == [run EXCEPT !.marks = @ \cup {page.rows}, !.held = FoldLeft(KeepLast, @, Known(page.rows))]
  IN IF "expired" \in page.words /\ ~run.renewed
     THEN [ToStage(NextPage(run), "session") EXCEPT !.renewed = TRUE]
     ELSE IF page.rows = <<>> \/ page.rows \in run.marks THEN PennsylvaniaListed(run)
     ELSE IF Len(page.rows) < PageSize \/ LastPage(run) THEN PennsylvaniaListed(more)
     ELSE NextPage(more)

\* An error of the detail request drops the record.
PennsylvaniaDropped(run) == PennsylvaniaRest([run EXCEPT !.queue = Tail(@)])
PennsylvaniaDetail(run) == PennsylvaniaDropped(PennsylvaniaEmit(run, Head(run.queue)))
================================================================================
