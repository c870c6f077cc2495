----------------------- MODULE MCOpportunityIngestion -----------------------
(* Two portals of every family, with the same numbers; and the versions of a  *)
(* document, ingested by one collector and, those without a number and one to *)
(* a transaction (so that no two wait for each other), by two.                *)
EXTENDS OpportunityIngestion

CONSTANTS p1, p2

Version(label, number) ==
  [source |-> "doc", url |-> "u1", category |-> "rfp", label |-> label,
   number |-> number, eligible |-> TRUE]

\* A document with two versions that have no number, and a numbered one.
Labelled == {Version(0, None), Version(1, None), Version(0, 3)}

Portal(family, place) == [family |-> family, key |-> Text(place), agency |-> Text(place)]
Notice(portal, id, number) ==
  [portal |-> portal, id |-> id, number |-> number, agency |-> portal.agency, kind |-> "notice"]

One == Text("1")
First == [words |-> <<"rfp", "1">>, as |-> "plain"]
Rfp(as) == [words |-> <<"rfp", "2">>, as |-> as]

Families ==
  {"webprocure", "periscope", "infotech", "peoplesoft", "oracle", "tyler", "jaggaer", "cgi",
   "bonfire", "ionwave", "opengov", "bidnet", "demandstar", "planetbids", "public_purchase",
   "georgia", "maryland"}
Alone == {"eva", "texas", "pennsylvania", "rivip"}

\* One with an identifier, one without in two spellings, and the first one of
\* another portal (on the only portal of the family, of another kind or agency).
NoticesOf(family) ==
  LET here == Portal(family, "north")
      there == Portal(family, "south")
      last == IF family \in Families THEN Notice(there, One, First)
              ELSE IF family = "pennsylvania" THEN [Notice(here, One, First) EXCEPT !.kind = "upcoming"]
              ELSE [Notice(here, Text("2"), First) EXCEPT !.agency = Text("south")]
  IN << Notice(here, One, First), Notice(here, Unsaid, Rfp("plain")),
        Notice(here, Unsaid, Rfp("spaced")), last >>

MCSettings ==
  {[notices |-> NoticesOf(f), running |-> {p1}, lists |-> {<<>>}] : f \in Families \cup Alone}
  \cup {[notices |-> NoticesOf("cgi"), running |-> {p1, p2}, lists |-> {<<>>}]}
  \cup {[notices |-> SubSeq(NoticesOf("bonfire"), 1, 1), running |-> {p1},
          lists |-> UNION {[1..n -> Candidate] : n \in 1..MaxOffered}],
         [notices |-> SubSeq(NoticesOf("bonfire"), 1, 1), running |-> {p1, p2},
          lists |-> {<<c>> : c \in {b \in Candidate : b.number = None}}]}
=============================================================================
