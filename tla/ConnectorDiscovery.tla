-------------------------- MODULE ConnectorDiscovery --------------------------
(***************************************************************************)
(* One connector of sled_aggregator.connectors collecting from one portal: *)
(* runs of discover() one after another, the requests of a run with their  *)
(* retries, and the health the connector keeps.  The portal answers as it  *)
(* should, or with the fault of the day while the fault lasts.             *)
(***************************************************************************)
EXTENDS WebProcureConnector, StateConnectors, YieldingConnectors,
        OracleConnector, TylerConnector, CgiConnector, OpenGovConnector,
        CollectedConnectors, BoundedConnectors

CONSTANTS
  Settings,     \* what a behaviour is about: [family, profile, listing, fault, times]
  Queries,      \* [limit, wanted, here]
  MaxTime,      \* no run begins after it
  MaxRuns,      \* runs of a behaviour
  Lasting       \* the number of times of a fault that does not end

Families ==
  {"webprocure", "eva", "texas", "peoplesoft", "infotech", "periscope", "bidbuy", "oracle",
   "tyler", "rivip", "pennsylvania", "cgi", "jaggaer", "bonfire", "ionwave", "opengov",
   "bidnet", "public_purchase", "planetbids", "maryland", "georgia", "demandstar",
   "demandstar_api"}

\* A listing is a sequence of pages, a page a sequence of rows; a query has a
\* limit, a number of records.
ASSUME ListingsOfRows ==
  \A s \in Settings :
    /\ s.family \in Families
    /\ IsSequence(s.listing) /\ \A i \in DOMAIN s.listing : IsSequence(s.listing[i])
ASSUME QueriesLimited == \A query \in Queries : query.limit \in Nat

VARIABLES
  setting,      \* the connector, its profile, the portal's listing, its fault and how often
  health,       \* _failures, _last_failure, _access, _guest_ready
  run,          \* the run of discover()
  now,          \* the clock
  runs,         \* how many runs there were
  faults,       \* how many faulty answers
  met,          \* history: the kinds of answers the run has met
  outages       \* history: runs in a row that an outage ended, and the last one's time

vars == <<setting, health, run, now, runs, faults, met, outages>>

Family == setting.family

PerRequest ==   \* classes that ask the circuit before each request and count attempts
  {"bidnet", "public_purchase", "planetbids", "maryland", "georgia", "demandstar",
   "demandstar_api", "oracle", "tyler"}
Circuitless == {"rivip"}
Swallowing ==   \* classes that drop a row when its detail request fails
  {"peoplesoft", "infotech", "periscope", "pennsylvania", "cgi"}
KeepingRow ==   \* classes that keep what the listing shows when a detail page is of no use
  {"bidnet", "public_purchase", "planetbids", "maryland", "georgia", "demandstar"}
Forgetting ==   \* classes of CollectedListing: the circuit forgets its failures after a cooldown
  {"jaggaer", "bonfire", "ionwave"}

-----------------------------------------------------------------------------
(* Which class does what.                                                   *)

Started(query) ==
  LET profile == setting.profile
  IN CASE Family = "webprocure" -> WebProcureStart(query, health, now)
       [] Family = "eva" -> EvaStart(query, health, now)
       [] Family = "texas" -> TexasStart(query, health, now)
       [] Family = "peoplesoft" -> PeopleSoftStart(query, profile, health, now)
       [] Family = "infotech" -> InfotechStart(query, profile, health, now)
       [] Family = "periscope" -> PeriscopeStart(query, profile, FALSE, health, now)
       [] Family = "bidbuy" -> PeriscopeStart(query, profile, TRUE, health, now)
       [] Family = "oracle" -> OracleStart(query)
       [] Family = "tyler" -> TylerStart(query)
       [] Family = "rivip" -> RivipStart(query, profile)
       [] Family = "pennsylvania" -> PennsylvaniaStart(query, health, now)
       [] Family = "cgi" -> CgiStart(query, profile, health, now)
       [] Family = "jaggaer" -> JaggaerStart(query, profile, health, now)
       [] Family = "bonfire" -> BonfireStart(query, profile, health, now)
       [] Family = "ionwave" -> IonWaveStart(query, profile, health, now)
       [] Family = "opengov" -> OpenGovStart(query, profile, health, now)
       [] Family = "bidnet" -> BidNetStart(query, profile)
       [] Family = "public_purchase" -> PublicPurchaseStart(query, profile)
       [] Family = "planetbids" -> PlanetBidsStart(query, profile)
       [] Family = "maryland" -> MarylandStart(query, profile)
       [] Family = "georgia" -> GeorgiaStart(query, profile)
       [] Family \in {"demandstar", "demandstar_api"} -> DemandStarStart(query, profile)

\* The failures as a run's look at the circuit leaves them.
LookedAt ==
  CASE Family = "pennsylvania" -> PennsylvaniaLooked(health, now)
    [] Family = "cgi" -> CgiLooked(health, now)
    [] Family = "opengov" -> OpenGovLooked(health, now)
    [] Family \in Forgetting -> CollectLooked(health, now)
    [] OTHER -> health

Open ==
  CASE Family = "bidnet" -> BidNetOpen(health, now)
    [] Family = "public_purchase" -> PublicPurchaseOpen(health, now)
    [] Family = "planetbids" -> PlanetBidsOpen(health, now)
    [] Family = "maryland" -> MarylandOpen(health, now)
    [] Family = "georgia" -> GeorgiaOpen(health, now)
    [] Family \in {"demandstar", "demandstar_api"} -> DemandStarOpen(health, now)
    [] Family = "oracle" -> OracleOpen(health, now)
    [] Family = "tyler" -> TylerOpen(health, now)
    [] OTHER -> FALSE

VerdictOf(answer) ==
  LET last == run.attempt >= MaxRetries
  IN CASE Family = "webprocure" -> WebProcureVerdict(answer)
       [] Family = "eva" -> EvaVerdict(answer)
       [] Family = "texas" -> TexasVerdict(answer)
       [] Family = "peoplesoft" -> PeopleSoftVerdict(answer)
       [] Family = "infotech" -> InfotechVerdict(answer, last)
       [] Family = "bidbuy" -> IF run.stage = "page" THEN BidBuyPosted(answer, last) ELSE PeriscopeVerdict(answer)
       [] Family = "periscope" -> PeriscopeVerdict(answer)
       [] Family = "oracle" -> OracleVerdict(answer, last)
       [] Family = "tyler" -> TylerVerdict(answer, last)
       [] Family = "rivip" -> RivipVerdict(answer)
       [] Family = "pennsylvania" -> PennsylvaniaVerdict(answer)
       [] Family = "cgi" -> CgiVerdict(answer)
       [] Family = "jaggaer" -> JaggaerVerdict(answer, last)
       [] Family = "bonfire" -> BonfireVerdict(answer, last)
       [] Family = "ionwave" -> IonWaveVerdict(answer, last)
       [] Family = "opengov" -> OpenGovVerdict(answer, last)
       [] Family = "bidnet" -> BidNetVerdict(answer, last)
       [] Family = "public_purchase" -> PublicPurchaseVerdict(answer, last)
       [] Family = "planetbids" -> PlanetBidsVerdict(answer, last)
       [] Family = "maryland" -> MarylandVerdict(answer, last)
       [] Family = "georgia" -> GeorgiaVerdict(answer, last)
       [] Family \in {"demandstar", "demandstar_api"} -> DemandStarVerdict(answer, last)

DelayOf(after) ==
  CASE Family = "webprocure" -> WebProcureDelay(after)
    [] Family = "eva" -> EvaDelay(after)
    [] Family = "texas" -> TexasDelay(after)
    [] Family = "peoplesoft" -> PeopleSoftDelay(after)
    [] Family = "infotech" -> InfotechDelay(after)
    [] Family \in {"periscope", "bidbuy"} -> PeriscopeDelay(after)
    [] Family = "oracle" -> OracleDelay(after)
    [] Family = "tyler" -> TylerDelay(after)
    [] Family = "pennsylvania" -> PennsylvaniaDelay(after)
    [] Family = "cgi" -> CgiDelay(after)
    [] Family = "jaggaer" -> JaggaerDelay(after)
    [] Family = "bonfire" -> BonfireDelay(after)
    [] Family = "ionwave" -> IonWaveDelay(after)
    [] Family = "opengov" -> OpenGovDelay(after)
    [] Family = "bidnet" -> BidNetDelay(after)
    [] Family = "public_purchase" -> PublicPurchaseDelay(after)
    [] Family = "planetbids" -> PlanetBidsDelay(after)
    [] Family = "maryland" -> MarylandDelay(after)
    [] Family = "georgia" -> GeorgiaDelay(after)
    [] Family \in {"demandstar", "demandstar_api"} -> DemandStarDelay(after)

\* What a page that was let through does to the run.
BeforeListing(page) ==
  CASE Family = "peoplesoft" -> PeopleSoftSession(run)
    [] Family = "infotech" -> InfotechSession(run)
    [] Family = "periscope" -> PeriscopeSession(run)
    [] Family = "bidbuy" -> BidBuySession(run, page)
    [] Family = "pennsylvania" -> PennsylvaniaSession(run)
    [] Family = "cgi" -> CgiSession(run, page)
    [] Family = "rivip" -> IF run.stage = "session" THEN RivipSession(run) ELSE RivipPage(run, page)
    [] Family = "tyler" ->
         LET next == TylerForm(run, page)
         IN IF Active(next) /\ run.stage = "form" THEN TylerPage(next, page) ELSE next

Listing(page) ==
  CASE Family = "webprocure" -> WebProcurePage(run, page)
    [] Family = "eva" -> EvaPage(run, page)
    [] Family = "texas" -> TexasPage(run, page)
    [] Family = "peoplesoft" -> PeopleSoftPage(run, page)
    [] Family = "infotech" -> InfotechPage(run, page)
    [] Family = "periscope" -> PeriscopePage(run, page)
    [] Family = "bidbuy" -> BidBuyPage(run, page)
    [] Family = "oracle" -> OraclePage(run, page)
    [] Family = "tyler" -> TylerPage(run, page)
    [] Family = "rivip" -> RivipPage(run, page)
    [] Family = "pennsylvania" -> PennsylvaniaPage(run, page)
    [] Family = "cgi" -> CgiPage(run, page)
    [] Family = "jaggaer" -> JaggaerPage(run, page)
    [] Family = "bonfire" -> BonfirePage(run, page, setting.profile.landing)
    [] Family = "ionwave" -> IonWavePage(run, page)
    [] Family = "opengov" -> OpenGovPage(run, page)
    [] Family = "bidnet" -> BidNetPage(run, page)
    [] Family = "public_purchase" -> PublicPurchasePage(run, page)
    [] Family = "planetbids" -> PlanetBidsPage(run, page)
    [] Family = "maryland" -> MarylandPage(run, page)
    [] Family = "georgia" -> GeorgiaPage(run, page)
    [] Family = "demandstar" -> DemandStarPage(run, page)
    [] Family = "demandstar_api" -> DemandStarSearched(run, page)

Detail(page) ==
  CASE Family = "eva" -> EvaDetail(run, page)
    [] Family = "texas" -> TexasDetail(run, page)
    [] Family = "peoplesoft" -> PeopleSoftDetail(run, page)
    [] Family = "infotech" -> InfotechDetail(run, page)
    [] Family = "periscope" -> PeriscopeDetail(run, page)
    [] Family = "bidbuy" -> BidBuyDetail(run)
    [] Family = "rivip" -> RivipDetail(run, page)
    [] Family = "pennsylvania" -> PennsylvaniaDetail(run)
    [] Family = "cgi" -> CgiDetail(run, page)
    [] Family = "jaggaer" -> JaggaerDetail(run, page)
    [] Family = "bonfire" -> BonfireDetail(run, page)
    [] Family = "ionwave" -> IonWaveDetail(run, page)
    [] Family = "opengov" -> OpenGovDetail(run, page)
    [] Family = "bidnet" -> BidNetDetail(run)
    [] Family = "public_purchase" -> PublicPurchaseDetail(run)
    [] Family = "planetbids" -> PlanetBidsDetail(run)
    [] Family = "maryland" -> MarylandDetail(run)
    [] Family = "georgia" -> GeorgiaDetail(run)
    [] Family = "demandstar" -> DemandStarDetail(run)
    [] Family = "demandstar_api" -> DemandStarPart(run, page, IF setting.profile.landing THEN 5 ELSE 3)

Received(page) ==
  CASE run.stage \in {"session", "form"} -> BeforeListing(page)
    [] run.stage = "page" -> Listing(page)
    [] run.stage = "detail" -> Detail(page)

\* A request that has failed for good.
Stopped(why) ==
  IF run.stage = "detail" /\ Family = "peoplesoft" THEN PeopleSoftDropped(run)
  ELSE IF run.stage = "detail" /\ Family = "infotech" THEN InfotechDropped(run)
  ELSE IF run.stage = "detail" /\ Family = "periscope" THEN PeriscopeDropped(run)
  ELSE IF run.stage = "detail" /\ Family = "pennsylvania" THEN PennsylvaniaDropped(run)
  ELSE IF run.stage = "detail" /\ Family = "cgi" THEN CgiDropped(run)
  ELSE IF Family = "demandstar_api" THEN DemandStarLost(run, why)
  ELSE Failed(run, why)

-----------------------------------------------------------------------------
(* The portal.                                                              *)

Plain == [status |-> 200, words |-> {}, garbled |-> FALSE, after |-> None]
Answers == {Plain} \cup IF faults < setting.times THEN {setting.fault} ELSE {}

Whole == FlattenSeq(setting.listing)
InOnePayload ==
  Family = "demandstar_api" \/ (Family = "bonfire" /\ setting.profile.landing)

PageOf(answer) ==
  LET pages == IF InOnePayload THEN <<Whole>> ELSE setting.listing
      n == run.page
      rows == IF answer # Plain THEN <<>>
              ELSE IF Family = "oracle" THEN OracleWindow(run, Whole).rows
              ELSE IF n \in DOMAIN pages THEN pages[n] ELSE <<>>
      more == IF answer # Plain THEN FALSE
              ELSE IF Family = "oracle" THEN OracleWindow(run, Whole).more
              ELSE n < Len(pages)
  IN [rows |-> rows, more |-> more, none |-> answer = Plain /\ rows = <<>>,
      words |-> answer.words, garbled |-> answer.garbled]

-----------------------------------------------------------------------------
Init ==
  /\ setting \in Settings
  /\ health = Healthy
  /\ run = Idle
  /\ now = 0
  /\ runs = 0
  /\ faults = 0
  /\ met = {}
  /\ outages = [count |-> 0, last |-> None]

\* discover(), up to its first request.
Discover(query) ==
  /\ ~Active(run)
  /\ runs < MaxRuns /\ now <= MaxTime
  /\ run' = Started(query)
  /\ health' = IF Active(run') \/ (Family = "opengov" /\ query.here /\ setting.profile.key)
               THEN LookedAt ELSE health
  /\ runs' = runs + 1 /\ met' = {}
  /\ UNCHANGED <<setting, now, faults, outages>>

\* health() asks whether the circuit is open.
HealthCheck ==
  /\ LookedAt # health
  /\ health' = LookedAt
  /\ UNCHANGED <<setting, run, now, runs, faults, met, outages>>

\* _record_failure, _record_success and what a request records itself.
HealthAfter(verdict, next) ==
  LET seen == IF verdict.access = Unchanged THEN health ELSE [health EXCEPT !.access = verdict.access]
      counted ==
        IF Family \in Circuitless THEN seen
        ELSE IF Family = "opengov" THEN IF next.out # run.out \/ next.state = "done"
                                        THEN OpenGovSuccess(seen) ELSE seen
        ELSE IF verdict.what = "page" THEN Cleared(seen)
        ELSE IF verdict.counts THEN Failure(seen, now)
        ELSE seen
  IN IF next.state # "failed" \/ Family \in PerRequest \cup Circuitless
     THEN IF Family = "cgi" THEN CgiReady(run, next, counted) ELSE counted
     ELSE IF Family = "opengov" THEN OpenGovFailure(counted, next, now)
     ELSE IF Family \in Forgetting THEN CollectFailure(counted, next, now)
     ELSE Failure(counted, now)

Outage(answer) == answer.status \in Busy \cup {Lost}

\* What the run has met, for the properties.  An answer that is asked for again
\* is a fault and no more.
Met(answer, retried) ==
  LET kind == IF run.stage = "detail" THEN "gate" ELSE IF Outage(answer) THEN "outage" ELSE "refusal"
  IN IF answer = Plain THEN {} ELSE IF retried THEN {"fault"} ELSE {"fault", kind}

\* One attempt of a request and what becomes of its answer.
Answer(answer) ==
  /\ Active(run) /\ now >= run.wake
  /\ run.attempt = 0 => ~Open
  /\ LET verdict == VerdictOf(answer)
         retried == verdict.what = "again" /\ run.attempt < MaxRetries
         next == IF verdict.what = "page" THEN Received(PageOf(answer))
                 ELSE IF retried THEN [run EXCEPT !.attempt = @ + 1]
                 ELSE Stopped(verdict.why)
     IN /\ run' = [next EXCEPT !.wake = IF retried THEN now + DelayOf(answer.after) ELSE 0]
        /\ met' = met \cup Met(answer, retried)
        /\ health' = HealthAfter(verdict, next)
        /\ outages' = IF verdict.what = "page" THEN [count |-> 0, last |-> None]
                      ELSE IF next.state = "failed" /\ Outage(answer)
                      THEN [count |-> IF outages.last # None /\ now < outages.last + Cooldown
                                      THEN outages.count + 1 ELSE 1,
                            last |-> now]
                      ELSE outages
  /\ faults' = IF answer = Plain \/ setting.times = Lasting THEN faults ELSE faults + 1
  /\ UNCHANGED <<setting, now, runs>>

\* A request that the open circuit stops.
Refuse ==
  /\ Active(run) /\ run.attempt = 0 /\ Open
  /\ run' = Stopped("circuit")
  /\ UNCHANGED <<setting, health, now, runs, faults, met, outages>>

Tick ==
  /\ now < MaxTime \/ now < run.wake
  /\ now' = now + 1
  /\ UNCHANGED <<setting, health, run, runs, faults, met, outages>>

Answered == \E answer \in Answers : Answer(answer)

Next ==
  \/ \E query \in Queries : Discover(query)
  \/ HealthCheck
  \/ Answered
  \/ Refuse
  \/ Tick

\* A request is awaited until it is answered, lost or refused, and time passes.
\* The first conjunct is WF_vars(Answered \/ Refuse), with what ENABLED would
\* find written out.
Due == Active(run) /\ now >= run.wake
Fairness == ([]<>~Due \/ []<><<Due /\ run' # run>>_vars) /\ WF_vars(Tick)

Spec == Init /\ [][Next]_vars /\ Fairness

-----------------------------------------------------------------------------
(* What is checked.                                                         *)

TypeOK ==
  /\ setting \in Settings
  /\ health.failures \in Nat /\ health.last \in Nat \cup {None} /\ health.ready \in BOOLEAN
  /\ run.state \in {"idle", "asking", "done", "failed"}
  /\ run.stage \in {None, "session", "form", "page", "detail"}
  /\ run.attempt \in 0..MaxRetries /\ run.page \in 1..MaxPages + 1
  /\ run.stage = "detail" /\ Active(run) => run.queue # <<>>

\* A run yields no record twice, however the portal repeats, reorders or splits
\* its listing, and whatever was renewed or dropped in between.  (The DemandStar
\* interface is one search whose rows are taken as they are.)
YieldedOnce ==
  Family # "demandstar_api" => Cardinality(Ids(run.out)) = Len(run.out)

\* A run yields no more than was asked for.  Some classes look at the limit only
\* after a record: they yield one when none was asked for.
Most(family, limit) ==
  Greater(IF family = "webprocure" THEN limit ELSE Lesser(limit, MaxResults),
          IF family \in {"jaggaer", "bonfire", "ionwave", "tyler", "rivip", "demandstar_api"}
          THEN 1 ELSE 0)
LimitKept == Len(run.out) <= Most(Family, run.limit)

\* The listing comes in pages as a class can tell them: each but the last is full
\* and differs from those before it.  (BidBuy counts the usable rows of a page, and
\* takes one that shows nothing new for the last.)
InPages ==
  \A i \in 1..(Len(setting.listing) - 1) :
    LET page == setting.listing[i]
        earlier == {setting.listing[j] : j \in 1..(i - 1)}
    IN IF Family = "bidbuy"
       THEN /\ Len(UsableRows(page)) >= PageSize
            /\ ~(Ids(UsableRows(page)) \subseteq UNION {Ids(rows) : rows \in earlier})
       ELSE Len(page) >= PageSize /\ page \notin earlier

\* Oracle asks for as many rows as records are missing, and DemandStar's interface
\* counts rows: neither takes a listing with a record twice for what it is.
Readable ==
  LET rows == UsableRows(Whole)
      once == Cardinality(Ids(rows)) = Len(rows)
  IN CASE Family = "oracle" -> once /\ rows = Whole /\ Len(Whole) <= MaxPages * PageSize
       [] Family = "demandstar_api" -> once
       [] OTHER -> InPages /\ Len(setting.listing) <= MaxPages

\* A run whose every request was answered has found all there is, once the
\* bounds leave room for it: no row of a page, and no page, is skipped by the
\* way a class walks a listing that it can read.
CollectedAll ==
  LET all == Ids(UsableRows(Whole))
  IN run.state = "done" /\ run.stage # None /\ met = {} /\ Readable
       /\ Cardinality(all) <= Lesser(run.limit, MaxResults)
     => all \ Misses \subseteq Ids(run.out)

\* A run that met a captcha, a login page or a refusal, or lost the portal, does
\* not end as if it had seen all there is.  (PlanetBids, DemandStar and Tyler do
\* not look for a captcha, and CGI opens a new session when the login page says
\* that the old one has expired.)  Behind a detail page this holds of the classes
\* that do not drop a row for it; those that keep the listing's row when the
\* detail page is not what it should be answer there for an HTTP refusal only.
Shows(words) == setting.fault.words \cap words # {}
ShownGate == setting.fault.status # 200 \/ Shows({"captcha", "login"})
Blind ==
  setting.fault.status = 200 /\
    \/ Family \in {"planetbids", "demandstar", "tyler"} /\ Shows({"captcha"})
    \/ Family = "cgi" /\ Shows({"expired"}) /\ ~Shows({"captcha"})

GatesSeen ==
  /\ ShownGate /\ ~Blind => met \cap {"outage", "refusal"} = {}
  /\ (IF Family \in KeepingRow THEN setting.fault.status # 200 ELSE ShownGate)
     => "gate" \notin met \/ Family \in Swallowing
NoFalseEmpty == run.state = "done" => GatesSeen

\* After as many outages in a row as open the circuit, each within the cooldown
\* of the one before, the portal is left alone until the cooldown is over.
\* (RIVIP has no circuit; Tyler does not count a lost connection.)
LeftAlone ==
  [][ /\ outages.count >= Threshold /\ now < outages.last + Cooldown
      /\ Family \notin Circuitless
      /\ ~(Family = "tyler" /\ setting.fault.status = Lost)
      => ~(Active(run) /\ run' # run /\ run'.why # "circuit") ]_vars

\* Every run comes to its end, whatever the portal repeats or lets expire.
EveryRunEnds == Active(run) ~> ~Active(run)
================================================================================
