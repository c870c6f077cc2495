-------------------------- MODULE OpportunityIdentity --------------------------
(***************************************************************************)
(* What makes a notice of a portal the same opportunity when it is found   *)
(* again: the source identity that each connector family gives it, and the *)
(* canonical key that OpportunityNormalizer makes of that.                 *)
(*                                                                         *)
(* A text is [words, as]: its words in small letters, and how they are     *)
(* spelled: "plain" (rfp-1), "upper" (RFP-1), or in another way (RFP 1).   *)
(* A notice is [portal, id, number, agency, kind], its title and dates     *)
(* left out; what a page does not say is Unsaid.  A portal is [family, key,  *)
(* agency], its jurisdiction named by its key.                             *)
(***************************************************************************)
EXTENDS SequencesExt

CONSTANT Unsaid

Text(word) == [words |-> <<word>>, as |-> "plain"]

\* casefold, lower: other spellings are left as they are.
Folded(text) == IF text.as = "upper" THEN [text EXCEPT !.as = "plain"] ELSE text

\* re.sub("[^a-z0-9]+", "-", ...) of the text in small letters.
Slugged(text) == [text EXCEPT !.as = "plain"]

Either(a, b) == IF a # Unsaid THEN a ELSE b
Given(parts) == SelectSeq(parts, LAMBDA part : part # Unsaid)
When(known, identity) == IF known THEN identity ELSE Unsaid

EvaIdentity(n) == When(n.id # Unsaid, <<n.id>>)

TexasIdentity(n) ==
  IF n.id # Unsaid THEN <<Text("esbd"), n.id>>
  ELSE IF n.agency # Unsaid /\ n.number # Unsaid THEN <<Text("agency"), n.agency, n.number>>
  ELSE When(n.number # Unsaid, <<n.number>>)

\* `kind` tells the upcoming procurements from the solicitations.
PennsylvaniaIdentity(n) ==
  IF n.id # Unsaid THEN <<Text(n.kind), n.id>>
  ELSE When(n.number # Unsaid /\ n.agency # Unsaid,
            <<Text("solicitation"), Folded(n.agency), Folded(n.number)>>)

WebProcureIdentity(n) == When(n.id # Unsaid, <<n.id>>)

PeriscopeIdentity(n) == When(Either(n.id, n.number) # Unsaid, <<Either(n.id, n.number)>>)

InfotechIdentity(n) ==
  When(Either(n.id, n.number) # Unsaid,
       Given(<<Either(n.portal.agency, n.agency), Either(n.id, n.number)>>))

\* Jurisdiction code, business unit, event.
PeopleSoftIdentity(n) == When(n.id # Unsaid, Given(<<n.portal.key, n.agency, n.id>>))

\* Negotiations of another business unit are left out.
OracleIdentity(n) ==
  When(n.id # Unsaid /\ n.agency = n.portal.agency, <<Text("oracle"), n.portal.key, n.id>>)

TylerIdentity(n) == When(n.number # Unsaid, <<n.portal.key, n.number>>)

JaggaerIdentity(n) ==
  IF n.id # Unsaid THEN <<n.portal.key, Text("id"), n.id>>
  ELSE When(n.number # Unsaid, <<n.portal.key, Text("event"), n.number>>)

\* For comparison: two tenants that count their solicitations alike share them.
CgiIdentityUnscoped(n) ==
  When(n.number # Unsaid,
       IF n.id # Unsaid THEN <<Text("id"), n.id>> ELSE <<Text("solicitation"), n.number>>)

CgiIdentity(n) ==
  When(n.number # Unsaid,
       IF n.id # Unsaid THEN <<n.portal.key, Text("id"), n.id>>
       ELSE <<n.portal.key, Text("solicitation"), n.number>>)

BonfireIdentity(n) ==
  IF n.id # Unsaid THEN <<Text("bonfire"), n.portal.key, Text("opportunity"), n.id>>
  ELSE When(n.number # Unsaid,
            <<Text("bonfire"), n.portal.key, Text("solicitation"), Slugged(n.number)>>)

IonWaveIdentity(n) ==
  IF n.id # Unsaid THEN <<Text("ionwave"), n.portal.key, Text("bid"), n.id>>
  ELSE When(n.number # Unsaid,
            <<Text("ionwave"), n.portal.key, Text("solicitation"), Slugged(n.number)>>)

OpenGovIdentity(n) == When(n.id # Unsaid, <<n.portal.key, Text("project"), n.id>>)

BidNetIdentity(n) == When(n.id # Unsaid, <<Text("bidnet"), n.portal.key, Folded(n.id)>>)
DemandStarIdentity(n) == When(n.id # Unsaid, <<Text("demandstar"), n.portal.key, Folded(n.id)>>)
PlanetBidsIdentity(n) == When(n.id # Unsaid, <<Text("planetbids"), n.portal.key, Folded(n.id)>>)
PublicPurchaseIdentity(n) ==
  When(n.id # Unsaid, <<Text("public_purchase"), n.portal.key, Folded(n.id)>>)

\* A notice with a public number is qualified by its kind and its agency.
Qualifier(n) ==
  IF n.number = Unsaid THEN <<>>
  ELSE Given(<<Text(n.kind), IF Either(n.agency, n.portal.agency) = Unsaid THEN Unsaid
                             ELSE Folded(Either(n.agency, n.portal.agency))>>)
GeorgiaIdentity(n) ==
  When(n.id # Unsaid, <<Text("georgia"), n.portal.key, Folded(n.id)>> \o Qualifier(n))
MarylandIdentity(n) ==
  When(n.id # Unsaid, <<Text("maryland"), n.portal.key, Folded(n.id)>> \o Qualifier(n))

\* Entities publish on the one portal.
RivipIdentity(n) ==
  When(n.id # Unsaid /\ n.agency # Unsaid, <<Text("rivip"), Slugged(n.agency), n.id>>)

SourceIdentity(n) ==
  CASE n.portal.family = "eva" -> EvaIdentity(n)
    [] n.portal.family = "texas" -> TexasIdentity(n)
    [] n.portal.family = "pennsylvania" -> PennsylvaniaIdentity(n)
    [] n.portal.family = "webprocure" -> WebProcureIdentity(n)
    [] n.portal.family = "periscope" -> PeriscopeIdentity(n)
    [] n.portal.family = "infotech" -> InfotechIdentity(n)
    [] n.portal.family = "peoplesoft" -> PeopleSoftIdentity(n)
    [] n.portal.family = "oracle" -> OracleIdentity(n)
    [] n.portal.family = "tyler" -> TylerIdentity(n)
    [] n.portal.family = "jaggaer" -> JaggaerIdentity(n)
    [] n.portal.family = "cgi" -> CgiIdentity(n)
    [] n.portal.family = "bonfire" -> BonfireIdentity(n)
    [] n.portal.family = "ionwave" -> IonWaveIdentity(n)
    [] n.portal.family = "opengov" -> OpenGovIdentity(n)
    [] n.portal.family = "bidnet" -> BidNetIdentity(n)
    [] n.portal.family = "demandstar" -> DemandStarIdentity(n)
    [] n.portal.family = "planetbids" -> PlanetBidsIdentity(n)
    [] n.portal.family = "public_purchase" -> PublicPurchaseIdentity(n)
    [] n.portal.family = "georgia" -> GeorgiaIdentity(n)
    [] n.portal.family = "maryland" -> MarylandIdentity(n)
    [] n.portal.family = "rivip" -> RivipIdentity(n)

\* The row of a notice: uq_opportunities_source_portal_record.
Opportunity(n) == <<n.portal.family, SourceIdentity(n)>>

\* normalize: the hash of the slugs of family, jurisdiction and source_id.
CanonicalKey(n) ==
  <<n.portal.family, n.portal.key.words,
    FlattenSeq([i \in DOMAIN SourceIdentity(n) |-> SourceIdentity(n)[i].words])>>
================================================================================
