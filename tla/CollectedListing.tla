--------------------------- MODULE CollectedListing ---------------------------
(***************************************************************************)
(* The pattern of jaggaer_sciquest, euna_bonfire and euna_ionwave: collect *)
(* and merge the listing by identifier, then filter, complete and yield    *)
(* record by record.  A limit is looked at after a record is yielded, and  *)
(* an error at any point fails the run.                                    *)
(***************************************************************************)
EXTENDS ConnectorRun

\* For comparison: the circuit opens one failure late.
CollectOpenLate(health, now) ==
  /\ health.failures > Threshold
  /\ health.last # None
  /\ now < health.last + Cooldown

\* Asking whether the circuit is open also forgets the failures once it is not.
CollectOpen(health, now) == OpenUntilCooldown(health, now)
CollectLooked(health, now) ==
  IF health.failures >= Threshold /\ ~CollectOpen(health, now)
  THEN [health EXCEPT !.failures = 0] ELSE health

\* enabled and _configuration_valid are profile.key.
CollectStart(query, profile, health, now) ==
  IF ~query.here THEN Returned(query)
  ELSE IF ~profile.key THEN Refused(query, "refused")
  ELSE IF CollectOpen(health, now) THEN Refused(query, "circuit") ELSE Asking(query, "page")

CollectVerdict(answer, boundary, last) ==
  IF answer.status \in Busy \cup {Lost}
  THEN Again(IF last THEN "transient_error" ELSE Unchanged, FALSE)
  ELSE IF answer.status = 404 THEN Stop("not_found", "refused")
  ELSE IF answer.status # 200 THEN Stop("restricted", "refused")
  ELSE IF boundary # "public" THEN Stop(boundary, "refused")
  ELSE Page("public")

\* The Retry-After replaces the exponential delay.
CollectDelay(after) == IF after = None THEN 0 ELSE after

CollectFailure(health, run, now) ==
  [Failure(health, now) EXCEPT !.access = IF run.why = "malformed" THEN "malformed" ELSE @]

CollectListed(run, criteria) ==
  LET kept == Meeting(run.held, run.wanted, criteria)
  IN IF kept = <<>> THEN Done(run) ELSE [ToStage(run, "detail") EXCEPT !.queue = kept]

\* `single` says that the listing comes in one payload.
CollectPage(run, page, criteria, single) ==
  LET more == [run EXCEPT !.marks = @ \cup {page.rows}, !.held = FoldLeft(KeepLast, @, Known(page.rows))]
  IN IF page.garbled THEN Failed(run, "malformed")
     ELSE IF page.rows = <<>> \/ page.rows \in run.marks THEN CollectListed(run, criteria)
     ELSE IF Len(page.rows) < PageSize \/ LastPage(run) \/ single THEN CollectListed(more, criteria)
     ELSE NextPage(more)

CollectDetail(run, page, status) ==
  LET row == Head(run.queue)
      next == [Yield(run, row, status) EXCEPT !.queue = Tail(@)]
  IN IF page.garbled \/ ~Usable(row) THEN Failed(run, "malformed")
     ELSE IF next.queue = <<>> \/ Full(next, Lesser(run.limit, MaxResults)) THEN Done(next)
     ELSE ToStage(next, "detail")

CollectStatus(words) ==
  FirstNamed(<< <<"cancelled", {"cancel"}>>, <<"awarded", {"award"}>>,
                <<"closed", {"closed", "expired"}>>, <<"open", {"open", "posted", "active"}>> >>,
             words, "unknown")

\* _documents: each address once, whatever else is said of it.
CollectOffer(offered, link, safe, access) ==
  IF ~safe \/ \E i \in DOMAIN offered : offered[i].url = link.url THEN offered
  ELSE Append(offered, Candidate(link, link.id, access, access = "public", link.round))
================================================================================
