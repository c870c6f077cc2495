------------------------- MODULE MCConnectorDiscovery -------------------------
(* Every connector against small listings and one kind of fault at a time.   *)
EXTENDS ConnectorDiscovery

Row(id) == [id |-> id, round |-> 1, says |-> {"open"}]
Later(id) == [id |-> id, round |-> 2, says |-> {"award"}]

\* A record listed again with a later round, a listing that shows each once, a page
\* too many and rows that lack a title, an identifier or a description, a repeated
\* page, rows that all need their detail page, and a portal without records.
Listed == << <<Row("a"), Row("b")>>, <<Later("b"), Row("m")>>, <<Row("h")>> >>
Detailed == << <<Row("h"), Row("i")>> >>
Listings ==
  { Listed, Detailed,
    << <<Row("a"), Row("b")>>, <<Row("h"), Row("m")>>, <<Row("c")>> >>,
    << <<Row("u"), Row("a")>>, <<Row("h"), Row(None)>>, <<Row("b"), Row("c")>>, <<Row("d")>> >>,
    << <<Row("a"), Row("b")>>, <<Row("a"), Row("b")>> >>,
    << >> }

Fault(status, words, garbled, after) ==
  [status |-> status, words |-> words, garbled |-> garbled, after |-> after]

\* Outages that can open the circuit, and answers of another kind.
OutageKinds == {Fault(Lost, {}, FALSE, None), Fault(503, {}, FALSE, 1)}
RefusalKinds ==
  { Fault(403, {}, FALSE, None), Fault(200, {"expired"}, FALSE, None), Fault(200, {}, TRUE, None) }
BoundaryKinds ==
  { Fault(500, {}, FALSE, None), Fault(200, {"captcha"}, FALSE, None),
    Fault(200, {"login"}, FALSE, None), Fault(200, {"expired", "login"}, FALSE, None) }

Public == [scheme |-> "https", host |-> "portal", user |-> FALSE, path |-> "p", noise |-> None]
Ordinary == [status |-> "active", key |-> TRUE, url |-> Public, landing |-> FALSE]
Landing == [Ordinary EXCEPT !.landing = TRUE]
Broken == [Ordinary EXCEPT !.key = FALSE]
Unsearchable == [Ordinary EXCEPT !.status = "unsearchable"]
Migrated == [Ordinary EXCEPT !.status = "migrated"]

WithLanding == {"peoplesoft", "infotech", "periscope", "cgi", "bonfire"}

Of(families, profile, listings, kinds, times) ==
  [family : families, profile : {profile}, listing : listings, fault : kinds, times : {times}]

MCSettings ==
  Of(Families, Ordinary, Listings, RefusalKinds, 2)
  \cup Of(Families, Ordinary, {Listed, Detailed}, BoundaryKinds, 2)
  \cup Of(Families, Ordinary, {Listed}, OutageKinds, 4)
  \cup Of(WithLanding, Landing, {Listed, Detailed}, RefusalKinds \cup BoundaryKinds, 2)
  \cup Of(Families, Ordinary, {Listed}, {Fault(200, {"expired"}, FALSE, None)}, Lasting)
  \cup Of({"cgi"}, Landing, {Listed}, {Fault(200, {"expired"}, FALSE, None)}, Lasting)
  \cup UNION {Of(Families, p, {<< >>}, {Fault(403, {}, FALSE, None)}, 1) :
                p \in {Broken, Unsearchable, Migrated}}

MCQueries ==
  {[limit |-> 9, wanted |-> {"keywords"}, here |-> TRUE],
   [limit |-> 1, wanted |-> {}, here |-> TRUE],
   [limit |-> 0, wanted |-> {}, here |-> TRUE]}
================================================================================
