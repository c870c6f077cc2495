---------------------------- MODULE TylerConnector ----------------------------
(* connectors/tyler_munis_vss.py: the form of a vendor self-service portal: a   *)
(* first page, the search posted from it, then result pages posted one from     *)
(* another.                                                                      *)
EXTENDS ConnectorRun

TylerSafe(url) == Https(url) /\ url.host = "portal"

TylerOpen(health, now) == OpenUntilCooldown(health, now)

TylerStart(query) == Asking(query, "session")

\* An answer is a failure by its status alone; a connection lost on the last
\* attempt is raised as it is, and counted nowhere.
TylerVerdict(answer, last) ==
  IF answer.status \in Busy \cup {Lost} /\ ~last THEN Again(Unchanged, FALSE)
  ELSE IF answer.status = Lost THEN Stop(Unchanged, "unavailable")
  ELSE IF answer.status \in Busy THEN Counted(Stop(Unchanged, "unavailable"))
  ELSE IF answer.status # 200 THEN Counted(Stop(Unchanged, "malformed"))
  ELSE Page(Unchanged)

TylerDelay(after) == IF after = None THEN 0 ELSE after

TylerStatus(words) == IF "open" \in words THEN "open" ELSE "unknown"

\* _validate_response looks for a gate when the request has already succeeded.
TylerValid(page) == page.words \cap {"login", "register"} = {} /\ ~page.garbled

TylerForm(run, page) ==
  IF ~TylerValid(page) THEN Failed(run, "refused")
  ELSE IF run.stage = "session" THEN ToStage(run, "form") ELSE run

TylerRow(run, row) ==
  IF ~Active(run) \/ row.id \in Ids(run.out) THEN run
  ELSE IF ~Usable(row) THEN Failed(run, "malformed")
  ELSE LET more == Yield(run, row, TylerStatus(row.says))
       IN IF Full(more, Lesser(run.limit, MaxResults)) THEN Done(more) ELSE more

\* The page after the last of the bound is still posted, and thrown away.
TylerPage(run, page) ==
  LET next == FoldLeft(TylerRow, [run EXCEPT !.marks = @ \cup {page.rows}], page.rows)
  IN IF ~TylerValid(page) THEN Failed(run, "refused")
     ELSE IF run.page > MaxPages \/ page.rows \in run.marks THEN Done(run)
     ELSE IF ~Active(next) THEN next
     ELSE IF ~page.more THEN Done(next)
     ELSE NextPage(ToStage(next, "page"))

\* detail: one link outside the document route refuses them all.
TylerOffer(offered, link) == Append(offered, Candidate(link, link.id, "public", TRUE, link.round))

TylerCandidates(links) ==
  IF \E i \in DOMAIN links : ~(TylerSafe(links[i].url) /\ links[i].direct) THEN <<>>
  ELSE FoldLeft(TylerOffer, <<>>, links)
================================================================================
