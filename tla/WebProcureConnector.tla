------------------------- MODULE WebProcureConnector -------------------------
(* connectors/webprocure.py: a JSON search that yields each page as it      *)
(* arrives and stops at a short page.                                        *)
EXTENDS ConnectorRun

WebProcureOpen(health, now) == OpenUntilCooldown(health, now)

WebProcureStart(query, health, now) ==
  IF query.limit < 1 \/ ~query.here THEN Returned(query)
  ELSE IF WebProcureOpen(health, now) THEN Refused(query, "circuit")
  ELSE Asking(query, "page")

\* Only JSON is looked at, so no text of a boundary is ever recognised: whatever
\* is not JSON, or does not parse, stops the run.
WebProcureVerdict(answer) ==
  IF answer.status \in Busy \cup {Lost} THEN Again(Unchanged, FALSE)
  ELSE IF answer.status # 200 \/ answer.words # {} THEN Stop(Unchanged, "malformed")
  ELSE Page(Unchanged)

WebProcureDelay(after) == LongerOf(after)

WebProcureStatus(words) ==
  FirstNamed(<< <<"open", {"open", "active"}>>, <<"closed", {"closed", "expired"}>>,
                <<"awarded", {"award"}>>, <<"cancelled", {"cancel"}>>,
                <<"forecast", {"forecast"}>> >>, words, "unknown")

\* For comparison: a row that was yielded is taken again.
WebProcureRowAgain(run, row) ==
  IF ~Active(run) THEN run
  ELSE IF ~Usable(row) THEN Failed(run, "malformed")
  ELSE LET more == Yield(run, row, WebProcureStatus(row.says))
       IN IF Full(more, run.limit) THEN Done(more) ELSE more

\* A row without identifier or title ends the run after what it has yielded.
WebProcureRow(run, row) ==
  IF ~Active(run) \/ row.id \in Ids(run.out) THEN run
  ELSE IF ~Usable(row) THEN Failed(run, "malformed")
  ELSE LET more == Yield(run, row, WebProcureStatus(row.says))
       IN IF Full(more, run.limit) THEN Done(more) ELSE more

\* JSON without a list of records ends the run too.
WebProcurePage(run, page) ==
  LET next == FoldLeft(WebProcureRow, run, page.rows)
  IN IF page.garbled THEN Failed(run, "malformed")
     ELSE IF ~Active(next) THEN next
     ELSE IF Len(page.rows) < PageSize \/ LastPage(run) THEN Done(next)
     ELSE NextPage(next)
================================================================================
