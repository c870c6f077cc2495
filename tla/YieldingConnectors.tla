-------------------------- MODULE YieldingConnectors --------------------------
(* The connectors that yield a row when its own details are complete. *)
EXTENDS YieldingListing

--------------------------------------------------------------------------------
(* connectors/peoplesoft.py: sourcing events behind an anonymous session.       *)


PeopleSoftOpen(health, now) == OpenUntilCooldown(health, now)

\* The landing page, where there is one, opens the session first.
PeopleSoftStart(query, profile, health, now) ==
  IF query.limit < 1 \/ ~query.here THEN Returned(query)
  ELSE IF PeopleSoftOpen(health, now) THEN Refused(query, "circuit")
  ELSE Asking(query, IF profile.landing THEN "session" ELSE "page")

PeopleSoftBoundary(words) ==
  FirstNamed(<< <<"captcha_blocked", {"captcha"}>>, <<"session_expired", {"expired"}>>,
                <<"maintenance", {"maintenance"}>>, <<"registration_required", {"register"}>>,
                <<"login_required", {"login"}>>, <<"restricted", {"restricted"}>> >>,
             words, "public")

PeopleSoftVerdict(answer) ==
  LET boundary == PeopleSoftBoundary(answer.words)
  IN IF answer.status = Lost THEN Again(Unchanged, FALSE)
     ELSE IF answer.status \in Busy THEN Again("unavailable", FALSE)
     ELSE IF answer.status = 403 THEN Stop("forbidden", "refused")
     ELSE IF answer.status # 200 THEN Stop(Unchanged, "malformed")
     ELSE IF boundary # "public" THEN Stop(boundary, "refused")
     ELSE Page("public")

PeopleSoftDelay(after) == LongerOf(after)

PeopleSoftStatus(words) ==
  FirstNamed(<< <<"open", {"open", "posted", "active"}>>, <<"closed", {"closed"}>>,
                <<"awarded", {"award"}>>, <<"cancelled", {"cancel"}>>,
                <<"forecast", {"forecast"}>> >>, words, "unknown")

PeopleSoftSession(run) == ToStage(run, "page")

PeopleSoftStatuses(rows) == [row \in ToSet(rows) |-> PeopleSoftStatus(row.says)]

PeopleSoftPage(run, page) == YieldPage(run, page, PeopleSoftStatuses(page.rows))

\* A detail page that cannot be read drops its row like a failed request.
PeopleSoftDropped(run) == YieldDropped(run, PeopleSoftStatuses(run.queue))
PeopleSoftDetail(run, page) ==
  IF page.garbled THEN PeopleSoftDropped(run) ELSE YieldDetail(run, PeopleSoftStatuses(run.queue))

\* _documents and document_candidates: an attachment the portal calls
\* superseded is left out.
PeopleSoftAccess(link) ==
  IF link.words \cap {"login", "register", "restricted"} # {} THEN "restricted" ELSE "public"

PeopleSoftOffer(offered, link) ==
  LET id == IF link.id # None THEN link.id ELSE link.url.path
      access == PeopleSoftAccess(link)
  IN IF \/ "superseded" \in link.words
        \/ \E i \in DOMAIN offered : offered[i].id = id /\ offered[i].url = link.url
     THEN offered
     ELSE Append(offered, Candidate(link, id, access, access = "public", link.round))

PeopleSoftCandidates(links) == FoldLeft(PeopleSoftOffer, <<>>, links)

--------------------------------------------------------------------------------
(* connectors/infotech.py: Bid Express listings; a portal may be a mere link.   *)


InfotechOpen(health, now) == OpenUntilCooldown(health, now)

InfotechStart(query, profile, health, now) ==
  IF query.limit < 1 \/ ~query.here THEN Returned(query)
  ELSE IF InfotechOpen(health, now) THEN Refused(query, "circuit")
  ELSE IF ~profile.key THEN Returned(query)
  ELSE IF profile.landing THEN Asking(query, "session")
  ELSE Asking(query, "page")

InfotechBoundary(words) ==
  FirstNamed(<< <<"captcha_blocked", {"captcha"}>>, <<"payment_required", {"payment"}>>,
                <<"subscription_required", {"subscription"}>>,
                <<"registration_required", {"register"}>>,
                <<"login_required", {"login", "expired"}>>,
                <<"unavailable", {"maintenance"}>> >>, words, "public")

\* A lost or busy portal is reported unavailable once the attempts are spent.
InfotechVerdict(answer, last) ==
  LET boundary == InfotechBoundary(answer.words)
  IN IF answer.status \in Busy \cup {Lost}
     THEN Again(IF last THEN "unavailable" ELSE Unchanged, FALSE)
     ELSE IF answer.status = 403 THEN Stop("forbidden", "refused")
     ELSE IF answer.status # 200 THEN Stop(Unchanged, "malformed")
     ELSE IF boundary = "unavailable" THEN Stop(boundary, "unavailable")
     ELSE IF boundary # "public" THEN Stop(boundary, "refused")
     ELSE Page("public")

InfotechDelay(after) == LongerOf(after)

InfotechStatus(words) ==
  FirstNamed(<< <<"open", {"open", "active"}>>, <<"closed", {"closed", "expired"}>>,
                <<"awarded", {"award"}>>, <<"cancelled", {"cancel"}>>,
                <<"forecast", {"forecast"}>> >>, words, "unknown")

InfotechSession(run) == ToStage(run, "page")

InfotechStatuses(rows) == [row \in ToSet(rows) |-> InfotechStatus(row.says)]

InfotechPage(run, page) == YieldPage(run, page, InfotechStatuses(page.rows))

InfotechDropped(run) == YieldDropped(run, InfotechStatuses(run.queue))
InfotechDetail(run, page) ==
  IF page.garbled THEN InfotechDropped(run) ELSE YieldDetail(run, InfotechStatuses(run.queue))

--------------------------------------------------------------------------------
(* connectors/periscope.py: BuySpeed bid boards, and Illinois BidBuy, whose      *)
(* pages are posted forms behind the tokens of a first page.                      *)


PeriscopeOpen(health, now) == OpenUntilCooldown(health, now)

PeriscopeStart(query, profile, bidbuy, health, now) ==
  IF query.limit < 1 \/ ~query.here THEN Returned(query)
  ELSE IF PeriscopeOpen(health, now) THEN Refused(query, "circuit")
  ELSE IF bidbuy THEN Asking(query, "session")
  ELSE IF ~profile.key THEN Returned(query)
  ELSE Asking(query, IF profile.landing THEN "session" ELSE "page")

\* _validate_response
PeriscopeChecked(answer) ==
  IF answer.status = 403 THEN Stop("restricted", "refused")
  ELSE IF answer.status # 200 THEN Stop(Unchanged, "malformed")
  ELSE IF answer.words \cap {"captcha", "login", "expired"} # {} THEN Stop("restricted", "refused")
  ELSE Page("public")

PeriscopeVerdict(answer) ==
  IF answer.status \in Busy \cup {Lost} THEN Again(Unchanged, FALSE) ELSE PeriscopeChecked(answer)

\* A form that stays busy to the last attempt is judged like any answer.
BidBuyPosted(answer, last) ==
  IF answer.status = Lost THEN Again(Unchanged, FALSE)
  ELSE IF answer.status \in Busy /\ ~last THEN Again(Unchanged, FALSE)
  ELSE PeriscopeChecked(answer)

PeriscopeDelay(after) == LongerOf(after)

PeriscopeStatus(words) ==
  FirstNamed(<< <<"open", {"open", "active"}>>, <<"closed", {"closed", "expired"}>>,
                <<"awarded", {"award"}>>, <<"cancelled", {"cancel"}>>,
                <<"forecast", {"forecast"}>> >>, words, "unknown")

PeriscopeSession(run) == ToStage(run, "page")

PeriscopeStatuses(rows) == [row \in ToSet(rows) |-> PeriscopeStatus(row.says)]

PeriscopePage(run, page) == YieldPage(run, page, PeriscopeStatuses(page.rows))

PeriscopeDropped(run) == YieldDropped(run, PeriscopeStatuses(run.queue))
PeriscopeDetail(run, page) == YieldDetail(run, PeriscopeStatuses(run.queue))

-----------------------------------------------------------------------------
(* BidBuy *)

\* Without its tokens the first page cannot be searched from.
BidBuySession(run, page) ==
  IF page.garbled THEN Failed(run, "malformed") ELSE ToStage(run, "page")

\* After the last page of the bound one more is posted, and thrown away.
BidBuyNext(run) ==
  IF run.ends THEN Done(run) ELSE NextPage(ToStage(run, "page"))

BidBuyYield(run, row) ==
  LET more == Yield(run, row, PeriscopeStatus(row.says))
  IN IF Full(more, Lesser(run.limit, MaxResults)) THEN Done(more) ELSE more

\* Each new row is completed from its detail page before the next is looked at.
BidBuyRest(run, rows) ==
  IF rows = <<>> THEN BidBuyNext([run EXCEPT !.queue = <<>>])
  ELSE [ToStage(run, "detail") EXCEPT !.queue = rows]

\* Rows without identifier or title are gone before the page is measured.
BidBuyPage(run, page) ==
  LET records == UsableRows(page.rows)
      new == Without(FoldLeft(KeepFirst, <<>>, records), Ids(run.out))
  IN IF run.page > MaxPages THEN Done(run)
     ELSE IF page.garbled THEN Failed(run, "malformed")
     ELSE BidBuyRest([run EXCEPT !.ends = new = <<>> \/ Len(records) < PageSize], new)

BidBuyDetail(run) ==
  LET next == BidBuyYield(run, Head(run.queue))
  IN IF Active(next) THEN BidBuyRest(next, Tail(run.queue)) ELSE next
================================================================================
