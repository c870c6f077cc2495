---------------------------- MODULE OracleConnector ----------------------------
(* connectors/oracle_fusion_rest.py: negotiations of a REST resource, read by   *)
(* offset.  Only requests count as failures, never what a payload holds.        *)
EXTENDS ConnectorRun

OracleSafe(url) == Https(url) /\ url.host \in {"portal", "approved"}

OracleOpen(health, now) == OpenUntilCooldown(health, now)

OracleWanted(run) == Lesser(run.limit, MaxResults)

OracleStart(query) ==
  IF OracleWanted(query) = 0 THEN Returned(query)
  ELSE IF ~query.here THEN Refused(query, "query")
  ELSE Asking(query, "page")

\* A gate shows as a page that is not JSON, or as a text with its word in it.
OracleVerdict(answer, last) ==
  IF answer.status \in Busy \cup {Lost} /\ ~last THEN Again(Unchanged, FALSE)
  ELSE IF answer.status \in Busy \cup {Lost} THEN Counted(Stop(Unchanged, "unavailable"))
  ELSE IF answer.status \in {404, 410} THEN Counted(Stop("release-path-incompatible", "incompatible"))
  ELSE IF answer.status # 200 THEN Counted(Stop(Unchanged, "unavailable"))
  ELSE IF "captcha" \in answer.words THEN Counted(Stop("captcha", "refused"))
  ELSE IF "login" \in answer.words THEN Counted(Stop("login-or-non-json", "refused"))
  ELSE IF answer.words # {} THEN Counted(Stop("non-json", "malformed"))
  ELSE Page("public-anonymous-get")

OracleDelay(after) == IF after = None THEN 0 ELSE after

\* A code is looked up whole.
OracleStatus(words) ==
  FirstNamed(<< <<"open", {"active", "amended"}>>, <<"forecast", {"forecast"}>>,
                <<"awarded", {"award"}>>, <<"cancelled", {"cancel"}>>,
                <<"closed", {"closed"}>> >>, words, "unknown")

\* The offset moves by whole pages, though a request asks only for what is
\* still wanted.
OracleWindow(run, listing) ==
  LET offset == (run.page - 1) * PageSize
      size == Lesser(PageSize, OracleWanted(run) - Len(run.out))
      upto == Lesser(offset + size, Len(listing))
  IN [rows |-> SubSeq(listing, offset + 1, upto), more |-> upto < Len(listing)]

OracleRow(run, row) ==
  IF ~Active(run) \/ ~Usable(row) \/ row.id \in Ids(run.out) THEN run
  ELSE LET more == Yield(run, row, OracleStatus(row.says))
       IN IF Full(more, OracleWanted(run)) THEN Done(more) ELSE more

OraclePage(run, page) ==
  LET next == FoldLeft(OracleRow, [run EXCEPT !.marks = @ \cup {page.rows}], page.rows)
  IN IF page.garbled THEN Failed(run, "malformed")
     ELSE IF page.rows \in run.marks THEN Failed(run, "repeated")
     ELSE IF ~Active(next) THEN next
     ELSE IF ~page.more \/ next.out = run.out \/ LastPage(run) THEN Done(next)
     ELSE NextPage(next)

\* attachments: one request, of which only the first page is read; the address
\* is built from the identifier.
OracleOffer(offered, link) ==
  IF link.id = None \/ link.words \cap {"login", "register"} # {} THEN offered
  ELSE Append(offered, Candidate(link, link.id, "public", TRUE, link.round))

OracleCandidates(links) == FoldLeft(OracleOffer, <<>>, SubSeq(links, 1, Lesser(PageSize, Len(links))))
================================================================================
