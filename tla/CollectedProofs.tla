--------------------------- MODULE CollectedProofs ---------------------------
(***************************************************************************)
(* For any portal, listing and bounds: a run whose every request was       *)
(* answered as it should has found, at its end, all that the portal lists. *)
(* The ways of walking a listing are those of ListingWalkProofs; Collects  *)
(* puts them together, class by class.                                     *)
(***************************************************************************)
EXTENDS ListingWalkProofs

-----------------------------------------------------------------------------
(* What the portal shows, page after page.                                   *)

LEMMA CountedDistinct ==
  ASSUME NEW rows, IsSequence(rows)
  PROVE  /\ IsFiniteSet(Ids(rows)) /\ Cardinality(Ids(rows)) <= Len(rows)
         /\ Cardinality(Ids(rows)) = Len(rows) => Distinct(rows)
<1> DEFINE n == Len(rows)
           f == [i \in 1..n |-> rows[i].id]
           T == Ids(rows)
<1>1. n \in Nat /\ DOMAIN rows = 1..n
  BY SequenceLength
<1>2. f \in [1..n -> T] /\ \A id \in T : \E i \in 1..n : f[i] = id
  BY <1>1 DEF Ids
<1>3. f \in Surjection(1..n, T)
  BY <1>2 DEF Surjection
<1>4. IsFiniteSet(1..n) /\ Cardinality(1..n) = n
  <2> HIDE DEF n
  <2> QED
    BY <1>1, FS_Interval
<1>5. /\ IsFiniteSet(T) /\ Cardinality(T) <= Cardinality(1..n)
      /\ Cardinality(T) = Cardinality(1..n) => f \in Injection(1..n, T)
  <2> HIDE DEF f, T, n
  <2> QED
    BY <1>3, <1>4, FS_Surjection
<1>6. f \in Injection(1..n, T) => Distinct(rows)
  BY <1>1 DEF Injection, IsInjective, Distinct
<1> HIDE DEF f
<1> QED
  BY <1>4, <1>5, <1>6

LEMMA BeforeGrows ==
  ASSUME NEW pages, NEW m \in Nat, NEW n \in Nat, m <= n
  PROVE  Before(pages, m) \subseteq Before(pages, n)
<1>1. 1..m \subseteq 1..n
  OBVIOUS
<1> QED
  BY <1>1 DEF Before

\* A listing that fits the bounds, and the identifiers it shows.
Walkable(pages, all) ==
  /\ IsSequence(pages) /\ \A i \in DOMAIN pages : IsSequence(pages[i])
  /\ Len(pages) <= MaxPages
  /\ all = Before(pages, Len(pages))

LEMMA WalkedAll ==
  ASSUME NEW pages, NEW all, Walkable(pages, all), NEW n \in Nat \ {0}
  PROVE  /\ Shown(At(pages, n)) \subseteq all
         /\ n >= Len(pages) => all \subseteq Before(pages, n)
         /\ n - 1 >= Len(pages) => all \subseteq Before(pages, n - 1)
         /\ n > MaxPages => all \subseteq Before(pages, n - 1)
         /\ n >= MaxPages => all \subseteq Before(pages, n)
<1> DEFINE k == Len(pages)
<1>1. k \in Nat /\ DOMAIN pages = 1..k /\ k <= MaxPages /\ all = Before(pages, k)
  BY SequenceLength DEF Walkable
<1>2. MaxPages \in Nat
  BY Numbers
<1> HIDE DEF k
<1>3. n >= k => all \subseteq Before(pages, n)
  BY <1>1, BeforeGrows
<1>4. n - 1 >= k => all \subseteq Before(pages, n - 1)
  <2>1. n - 1 \in Nat
    OBVIOUS
  <2> QED
    BY <1>1, <2>1, BeforeGrows
<1>5. Shown(At(pages, n)) \subseteq all
  <2>1. CASE n \in 1..k
    BY <1>1, <2>1 DEF Before
  <2>2. CASE n \notin 1..k
    <3>1. At(pages, n) = <<>>
      BY <1>1, <2>2 DEF At
    <3> QED
      BY <3>1, EmptySequence DEF Shown
  <2> QED
    BY <2>1, <2>2
<1> QED
  BY <1>1, <1>2, <1>3, <1>4, <1>5 DEF k

\* An answer as it should be.
Serves(page, pages, n) ==
  /\ IsSequence(page.rows) /\ page.rows = At(pages, n) /\ (page.more <=> n < Len(pages))
  /\ page.words = {} /\ ~page.garbled

LEMMA PageRead ==
  ASSUME NEW pages, NEW all, Walkable(pages, all), NEW n \in Nat \ {0},
         NEW page, Serves(page, pages, n),
         \A i \in 1..(Len(pages) - 1) :
           Len(pages[i]) >= PageSize /\ pages[i] \notin {pages[j] : j \in 1..(i - 1)}
  PROVE  Reading(page, pages, n, all)
<1> DEFINE k == Len(pages)
           rows == page.rows
<1>1. k \in Nat /\ DOMAIN pages = 1..k
  BY SequenceLength DEF Walkable
<1>2. /\ IsSequence(rows) /\ rows = At(pages, n) /\ (page.more <=> n < k)
      /\ page.words = {} /\ ~page.garbled
  BY DEF Serves
<1>3. /\ Shown(At(pages, n)) \subseteq all
      /\ n >= k => all \subseteq Before(pages, n)
      /\ n - 1 >= k => all \subseteq Before(pages, n - 1)
      /\ n > MaxPages => all \subseteq Before(pages, n - 1)
      /\ n >= MaxPages => all \subseteq Before(pages, n)
  BY WalkedAll
<1>4. /\ Before(pages, n) = Before(pages, n - 1) \cup Shown(At(pages, n))
      /\ \A ids \in Upto(pages, n - 1) : Shown(ids) \subseteq Before(pages, n - 1)
  BY BeforeNext
<1>5. n < k => n \in 1..k /\ rows = pages[n] /\ Len(rows) >= PageSize
  BY <1>1, <1>2 DEF At
<1>6. ASSUME n < k PROVE rows \notin Upto(pages, n - 1)
  <2>1. \A i \in 1..n - 1 : At(pages, i) = pages[i]
    BY <1>1, <1>6 DEF At
  <2>2. Upto(pages, n - 1) = {pages[i] : i \in 1..(n - 1)}
    BY <2>1 DEF Upto
  <2>3. n \in 1..(k - 1)
    BY <1>1, <1>6
  <2>4. pages[n] \notin {pages[j] : j \in 1..(n - 1)}
    BY <2>3
  <2> QED
    BY <1>5, <1>6, <2>2, <2>4
<1> HIDE DEF k, rows
<1>7. PageSize \in Nat \ {0} /\ Len(rows) \in Nat
  BY <1>2, SequenceLength, Numbers
<1>8. rows = <<>> => n >= k /\ Shown(rows) = {}
  <2>1. rows = <<>> => Len(rows) = 0 /\ Shown(rows) = {}
    BY EmptySequence DEF Shown
  <2> QED
    BY <1>1, <1>5, <1>7, <2>1
<1>9. Ids(rows) \subseteq all \cup Bad
  BY <1>2, <1>3 DEF Shown
<1>10. ~page.more \/ n >= MaxPages \/ Len(rows) < PageSize => all \subseteq Before(pages, n)
  <2>1. n < k \/ n >= k
    BY <1>1
  <2>2. ~page.more => n >= k
    BY <1>2, <2>1
  <2>3. Len(rows) < PageSize => n >= k
    BY <1>5, <1>7, <2>1
  <2> QED
    BY <1>3, <2>2, <2>3
<1>11. rows = <<>> \/ rows \in Upto(pages, n - 1) => all \subseteq Before(pages, n - 1)
  <2>1. rows = <<>> \/ rows \in Upto(pages, n - 1) => n >= k /\ Shown(rows) \subseteq Before(pages, n - 1)
    BY <1>1, <1>4, <1>6, <1>8
  <2> QED
    BY <1>2, <1>3, <1>4, <2>1
<1> QED
  BY <1>2, <1>3, <1>9, <1>10, <1>11 DEF Reading, rows

LEMMA PagePosted ==
  ASSUME NEW pages, NEW all, Walkable(pages, all), NEW n \in Nat \ {0},
         NEW page, Serves(page, pages, n),
         \A i \in 1..(Len(pages) - 1) :
           /\ Len(UsableRows(pages[i])) >= PageSize
           /\ ~(Ids(UsableRows(pages[i])) \subseteq UNION {Ids(pages[j]) : j \in 1..(i - 1)})
  PROVE  Posting(page, pages, n, all)
<1> DEFINE k == Len(pages)
           rows == page.rows
<1>1. k \in Nat /\ DOMAIN pages = 1..k
  BY SequenceLength DEF Walkable
<1>2. IsSequence(rows) /\ rows = At(pages, n) /\ ~page.garbled
  BY DEF Serves
<1>3. /\ Shown(At(pages, n)) \subseteq all
      /\ n >= k => all \subseteq Before(pages, n)
      /\ n > MaxPages => all \subseteq Before(pages, n - 1)
  BY WalkedAll
<1>4. n < k => n \in 1..(k - 1) /\ rows = pages[n]
  BY <1>1, <1>2 DEF At
<1>5. /\ IsSequence(UsableRows(rows)) /\ Ids(UsableRows(rows)) = Shown(rows)
  BY <1>2, UsableIds
<1>6. ASSUME n < k
      PROVE  Len(UsableRows(rows)) >= PageSize /\ ~(Shown(rows) \subseteq Before(pages, n - 1))
  <2>1. \A i \in 1..n - 1 : At(pages, i) = pages[i]
    BY <1>1, <1>6 DEF At
  <2>2. Before(pages, n - 1) \subseteq UNION {Ids(pages[j]) : j \in 1..(n - 1)}
    BY <2>1 DEF Before, Shown
  <2>3. /\ Len(UsableRows(pages[n])) >= PageSize
        /\ ~(Ids(UsableRows(pages[n])) \subseteq UNION {Ids(pages[j]) : j \in 1..(n - 1)})
    BY <1>4, <1>6
  <2> QED
    BY <1>4, <1>5, <1>6, <2>2, <2>3
<1>7. Len(UsableRows(rows)) \in Nat /\ PageSize \in Nat
  BY <1>5, SequenceLength, Numbers
<1>8. Ids(rows) \subseteq all \cup Bad
  BY <1>2, <1>3 DEF Shown
<1> HIDE DEF k, rows
<1>9. Len(UsableRows(rows)) < PageSize \/ Shown(rows) \subseteq Before(pages, n - 1)
      => all \subseteq Before(pages, n)
  BY <1>1, <1>3, <1>6, <1>7
<1> QED
  BY <1>2, <1>3, <1>8, <1>9 DEF Posting, rows

LEMMA WholeShown ==
  ASSUME setting \in Settings
  PROVE  LET pages == setting.listing
         IN Shown(Whole) = Before(pages, Len(pages))
<1> DEFINE listing == setting.listing
           n == Len(listing)
           S == UNION {ToSet(listing[i]) : i \in 1..n}
<1>1. IsSequence(listing) /\ \A i \in DOMAIN listing : IsSequence(listing[i])
  BY ListingsOfRows
<1>2. n \in Nat /\ DOMAIN listing = 1..n
  BY <1>1, SequenceLength
<1>3. listing \in [1..n -> ToSet(listing)]
  BY <1>1, <1>2 DEF IsSequence
<1>4. \A i \in 1..n : listing[i] \in Seq(S)
  <2> TAKE i \in 1..n
  <2>1. listing[i] \in Seq(ToSet(listing[i])) /\ ToSet(listing[i]) \subseteq S
    BY <1>1, <1>2 DEF IsSequence
  <2> HIDE DEF S
  <2> QED
    BY <2>1
<1> HIDE DEF S, n, listing
<1>5. listing \in [1..n -> Seq(S)]
  BY <1>3, <1>4
<1>6. ToSet(FlattenSeq(listing)) = UNION {ToSet(listing[i]) : i \in 1..n}
  BY <1>2, <1>5, OfPages
<1>7. \A rows : Ids(rows) = {row.id : row \in ToSet(rows)}
  BY DEF Ids, ToSet
<1>8. Ids(FlattenSeq(listing)) = UNION {Ids(listing[i]) : i \in 1..n}
  BY <1>6, <1>7
<1>9. \A i \in 1..n : At(listing, i) = listing[i]
  BY <1>2 DEF At
<1>10. Before(listing, n) = UNION {Shown(listing[i]) : i \in 1..n}
  BY <1>9 DEF Before
<1>11. Shown(FlattenSeq(listing)) = Before(listing, n)
  BY <1>8, <1>10 DEF Shown
<1> QED
  BY <1>11 DEF Whole, listing, n

Pages == IF InOnePayload THEN <<Whole>> ELSE setting.listing
All == Ids(UsableRows(Whole))

\* The bounds leave room for all that the portal lists.
Roominess(limit) == /\ Roomy(All, Lesser(limit, MaxResults)) /\ Roomy(All, limit)
                    /\ All \cap Bad = {} /\ All = Shown(Whole) /\ IsSequence(Whole)

LEMMA PortalRoom ==
  ASSUME setting \in Settings, NEW limit \in Nat, Cardinality(All) <= Lesser(limit, MaxResults)
  PROVE  Roominess(limit)
<1> DEFINE rows == UsableRows(Whole)
<1>1. IsSequence(Whole)
  BY WholeRows
<1>2. IsSequence(rows) /\ Ids(rows) = Shown(Whole)
  BY <1>1, UsableIds
<1>3. All = Ids(rows)
  BY DEF All
<1> HIDE DEF rows
<1>4. IsFiniteSet(All)
  BY <1>2, <1>3, CountedDistinct
<1>5. Cardinality(All) \in Nat
  BY <1>4, FS_CardinalityType
<1>6. Lesser(limit, MaxResults) \in Nat /\ Lesser(limit, MaxResults) <= limit
  BY LesserBound, Numbers DEF Lesser
<1>7. Cardinality(All) <= limit
  BY <1>5, <1>6
<1>8. All \cap Bad = {}
  BY <1>2, <1>3 DEF Shown
<1> QED
  BY <1>1, <1>2, <1>3, <1>4, <1>7, <1>8 DEF Roominess, Roomy

LEMMA PlainPage ==
  LET page == PageOf(Plain)
  IN /\ page.words = {} /\ ~page.garbled
     /\ Family # "oracle" => page.rows = At(Pages, run.page) /\ (page.more <=> run.page < Len(Pages))
     /\ Family = "oracle" => /\ page.rows = OracleWindow(run, Whole).rows
                             /\ (page.more <=> OracleWindow(run, Whole).more)
<1> DEFINE page == PageOf(Plain)
<1>1. Plain.words = {} /\ Plain.garbled = FALSE
  BY DEF Plain
<1>2. page.words = {} /\ page.garbled = FALSE
  BY <1>1 DEF PageOf
<1>3. Family # "oracle" => page.rows = At(Pages, run.page) /\ page.more = (run.page < Len(Pages))
  BY DEF PageOf, Pages, At
<1>4. Family = "oracle" => /\ page.rows = OracleWindow(run, Whole).rows
                           /\ page.more = OracleWindow(run, Whole).more
  BY DEF PageOf
<1> QED
  BY <1>2, <1>3, <1>4

\* All but the classes that read all at once, or by the row.
Walking == Families \ {"oracle", "demandstar_api"}

LEMMA PortalWalked ==
  ASSUME setting \in Settings, Readable, Family \in Walking
  PROVE  Walkable(Pages, All)
<1>1. IsSequence(Whole)
  BY WholeRows
<1>2. All = Shown(Whole)
  BY <1>1, UsableIds DEF All
<1>3. Len(setting.listing) <= MaxPages
  BY DEF Readable, Walking
<1>4. CASE ~InOnePayload
  <2> DEFINE pages == setting.listing
  <2>1. Pages = pages
    BY <1>4 DEF Pages
  <2>2. IsSequence(pages) /\ \A i \in DOMAIN pages : IsSequence(pages[i])
    BY ListingsOfRows
  <2>3. Shown(Whole) = Before(pages, Len(pages))
    BY WholeShown
  <2> HIDE DEF pages
  <2>4. Walkable(pages, All)
    BY <1>2, <1>3, <2>2, <2>3 DEF Walkable, pages
  <2> QED
    BY <2>1, <2>4
<1>5. CASE InOnePayload
  <2> DEFINE whole == Whole
             pages == <<whole>>
  <2>1. Pages = pages
    BY <1>5 DEF Pages
  <2>2. Len(pages) = 1 /\ DOMAIN pages = 1..1 /\ pages[1] = whole
    OBVIOUS
  <2>13. pages \in Seq({whole})
    OBVIOUS
  <2>3. IsSequence(pages)
    BY <2>13, SequenceOf
  <2> HIDE DEF pages, whole
  <2>4. At(pages, 1) = whole
    BY <2>2 DEF At
  <2>5. Before(pages, 1) = Before(pages, 1 - 1) \cup Shown(At(pages, 1)) /\ Before(pages, 0) = {}
    BY BeforeNext
  <2>6. Before(pages, 1) = Shown(whole)
    BY <2>4, <2>5
  <2>7. 1 <= MaxPages
    BY Numbers
  <2>8. \A i \in DOMAIN pages : IsSequence(pages[i])
    BY <1>1, <2>2 DEF whole
  <2>9. Walkable(pages, All)
    BY <1>2, <2>2, <2>3, <2>6, <2>7, <2>8 DEF Walkable, whole
  <2> QED
    BY <2>1, <2>9
<1> QED
  BY <1>4, <1>5

LEMMA PortalReads ==
  ASSUME setting \in Settings, Readable, Family \in Walking,
         run.page \in Nat \ {0}, run.limit \in Nat, IsSequence(run.out)
  PROVE  /\ Family # "bidbuy" => Reading(PageOf(Plain), Pages, run.page, All)
         /\ Family = "bidbuy" => Posting(PageOf(Plain), Pages, run.page, All)
<1> DEFINE page == PageOf(Plain)
           pages == Pages
           n == run.page
           all == All
<1>1. Walkable(pages, all)
  BY PortalWalked
<1>2. Serves(page, pages, n)
  <2>1. IsSequence(page.rows)
    BY PageRows
  <2>2. /\ page.words = {} /\ ~page.garbled
        /\ page.rows = At(pages, n) /\ (page.more <=> n < Len(pages))
    BY PlainPage DEF Walking
  <2> HIDE DEF page, pages, n
  <2> QED
    BY <2>1, <2>2 DEF Serves
<1>3. ~InOnePayload => InPages /\ pages = setting.listing
  BY DEF Readable, Walking, Pages
<1>4. InOnePayload => Family = "bonfire" /\ pages = <<Whole>>
  BY DEF Pages, InOnePayload, Walking
<1>5. InOnePayload => Len(pages) - 1 = 0
  BY <1>4
<1> HIDE DEF page, pages, n, all
<1>6. ASSUME Family # "bidbuy"
      PROVE  \A i \in 1..(Len(pages) - 1) :
               Len(pages[i]) >= PageSize /\ pages[i] \notin {pages[j] : j \in 1..(i - 1)}
  <2>1. ~InOnePayload => \A i \in 1..(Len(pages) - 1) :
               Len(pages[i]) >= PageSize /\ pages[i] \notin {pages[j] : j \in 1..(i - 1)}
    BY <1>3, <1>6 DEF InPages
  <2>2. ASSUME InOnePayload
        PROVE  1..(Len(pages) - 1) = {}
    <3>1. Len(pages) - 1 = 0
      BY <1>5, <2>2
    <3>2. 1..0 = {}
      OBVIOUS
    <3> QED
      BY <3>1, <3>2
  <2> QED
    BY <2>1, <2>2
<1>7. ASSUME Family = "bidbuy"
      PROVE  \A i \in 1..(Len(pages) - 1) :
               /\ Len(UsableRows(pages[i])) >= PageSize
               /\ ~(Ids(UsableRows(pages[i])) \subseteq UNION {Ids(pages[j]) : j \in 1..(i - 1)})
  <2>1. InPages /\ pages = setting.listing
    BY <1>3, <1>4, <1>7
  <2> QED
    BY <1>7, <2>1 DEF InPages
<1>8. n \in Nat \ {0}
  BY DEF n
<1>9. Family # "bidbuy" => Reading(page, pages, n, all)
  BY <1>1, <1>2, <1>6, <1>8, PageRead
<1>10. Family = "bidbuy" => Posting(page, pages, n, all)
  BY <1>1, <1>2, <1>7, <1>8, PagePosted
<1> QED
  BY <1>9, <1>10 DEF page, pages, n, all

\* A stage before the listing loses nothing.
LEMMA StreamsMoved ==
  ASSUME NEW r, DOMAIN r = DOMAIN Idle, Active(r), r.stage # "detail",
         NEW pages, NEW all, NEW stage, stage # "detail"
  PROVE  /\ Streams(r, pages, all) => Streams(ToStage(r, stage), pages, all)
         /\ Within(r, pages) => Within(ToStage(r, stage), pages)
         /\ Headed(ToStage(r, stage), all)
<1> DEFINE q == ToStage(r, stage)
<1>1. /\ q.stage = stage /\ q.state = r.state /\ q.page = r.page
      /\ q.out = r.out /\ q.queue = r.queue /\ q.marks = r.marks /\ q.ends = r.ends
  BY Moved
<1> HIDE DEF q
<1>2. Active(q)
  BY <1>1 DEF Active
<1>3. Streams(r, pages, all) => Streams(q, pages, all)
  BY <1>1, <1>2 DEF Streams, Active
<1>4. Within(r, pages) => Within(q, pages)
  BY <1>1, <1>2 DEF Within
<1>5. Headed(q, all)
  BY <1>1 DEF Headed
<1> QED
  BY <1>3, <1>4, <1>5 DEF q

Yielders == {"peoplesoft", "infotech", "periscope"}

\* What a page of a portal does to a run of a class that yields as it reads.
LEMMA StreamsReceived ==
  ASSUME NEW limit \in Nat, Family \in {"webprocure", "tyler"} \cup Yielders, Active(run),
         Single(run, limit, Most(Family, limit), StagesOf(Family)),
         NEW pages, NEW all, Roomy(all, Lesser(limit, MaxResults)), Roomy(all, limit),
         Streams(run, pages, all), Headed(run, all),
         run.page >= MaxPages => all \subseteq Before(pages, run.page),
         NEW page, Reading(page, pages, run.page, all)
  PROVE  /\ Streams(Received(page), pages, all)
         /\ Family \in Yielders => Headed(Received(page), all)
<1> DEFINE most == Most(Family, limit)
           stages == StagesOf(Family)
<1>1. most \in Nat /\ (Family = "webprocure" => limit <= most)
      /\ (Family # "webprocure" => Lesser(limit, MaxResults) <= most)
  BY MostBounds
<1>2. /\ Family = "webprocure" => stages = {"page"}
      /\ Family = "tyler" => stages = {"session", "form", "page"}
      /\ Family \in Yielders => stages = {"session", "page", "detail"}
  BY StagesKnown DEF Yielders
<1> HIDE DEF most, stages
<1>3. Single(run, limit, most, stages)
  BY DEF most, stages
<1>4. run.stage \in stages /\ DOMAIN run = DOMAIN Idle
  BY <1>3, SoundStage DEF Single, Loose
<1>5. page.words = {} /\ ~page.garbled /\ IsSequence(page.rows)
  BY DEF Reading
<1>6. ASSUME Family = "webprocure" PROVE Streams(Received(page), pages, all)
  <2>1. Received(page) = WebProcurePage(run, page)
    BY <1>2, <1>4, <1>6, ReceivedBy DEF Listing
  <2>2. "detail" \notin stages
    BY <1>2, <1>6
  <2>3. Streams(WebProcurePage(run, page), pages, all)
    BY <1>1, <1>3, <1>6, <2>2, WebProcurePageStreams
  <2> QED
    BY <2>1, <2>3
<1>7. ASSUME Family = "tyler" PROVE Streams(Received(page), pages, all)
  <2> DEFINE form == TylerForm(run, page)
  <2>1. "detail" \notin stages
    BY <1>2, <1>7
  <2>2. TylerValid(page)
    BY <1>5 DEF TylerValid
  <2>3. form = IF run.stage = "session" THEN ToStage(run, "form") ELSE run
    BY <2>2 DEF TylerForm
  <2>4. Streams(TylerPage(run, page), pages, all)
    BY <1>1, <1>3, <1>7, <2>1, TylerPageStreams
  <2>5. run.stage \in {"session", "form"} =>
          Received(page) = IF Active(form) /\ run.stage = "form" THEN TylerPage(form, page) ELSE form
    BY <1>7, ReceivedBy DEF BeforeListing
  <2>6. run.stage = "page" => Received(page) = TylerPage(run, page)
    BY <1>7, ReceivedBy DEF Listing
  <2> HIDE DEF form
  <2>7. CASE run.stage = "session"
    <3>1. Received(page) = form /\ form = ToStage(run, "form")
      BY <2>3, <2>5, <2>7
    <3>2. Streams(ToStage(run, "form"), pages, all)
      BY <1>4, <2>7, StreamsMoved
    <3> QED
      BY <3>1, <3>2
  <2>8. CASE run.stage = "form"
    BY <2>3, <2>4, <2>5, <2>8
  <2>9. CASE run.stage = "page"
    BY <2>4, <2>6, <2>9
  <2> QED
    BY <1>2, <1>4, <1>7, <2>7, <2>8, <2>9
<1>8. ASSUME Family \in Yielders
      PROVE  Streams(Received(page), pages, all) /\ Headed(Received(page), all)
  <2>1. run.stage = "session" => Received(page) = ToStage(run, "page")
    BY <1>8, ReceivedBy DEF BeforeListing, PeopleSoftSession, InfotechSession, PeriscopeSession, Yielders
  <2>2. run.stage = "page" => \E status : Received(page) = YieldPage(run, page, status)
    BY <1>8, ReceivedBy DEF Listing, PeopleSoftPage, InfotechPage, PeriscopePage, Yielders
  <2>3. run.stage = "detail" => \E status : Received(page) = YieldDetail(run, status)
    BY <1>5, <1>8, ReceivedBy DEF Detail, PeopleSoftDetail, InfotechDetail, PeriscopeDetail, Yielders
  <2>4. Family # "webprocure" /\ {"page", "detail"} \subseteq stages
    BY <1>2, <1>8 DEF Yielders
  <2>5. CASE run.stage = "session"
    BY <1>4, <2>1, <2>5, StreamsMoved
  <2>6. CASE run.stage = "page"
    <3>1. \A status : /\ Streams(YieldPage(run, page, status), pages, all)
                      /\ Headed(YieldPage(run, page, status), all)
      BY <1>1, <1>3, <2>4, <2>6, YieldPageStreams
    <3> QED
      BY <2>2, <2>6, <3>1
  <2>7. CASE run.stage = "detail"
    <3>1. Head(run.queue).id \in all
      BY <2>7 DEF Headed
    <3>2. \A status : Streams(YieldDetail(run, status), pages, all) /\ Headed(YieldDetail(run, status), all)
      BY <1>1, <1>3, <2>4, <2>7, <3>1, YieldDetailStreams
    <3> QED
      BY <2>3, <2>7, <3>2
  <2> QED
    BY <1>2, <1>4, <1>8, <2>5, <2>6, <2>7
<1> QED
  BY <1>6, <1>7, <1>8

\* The same for the classes that look up what is new on a page.
LEMMA BidBuyCollected ==
  ASSUME NEW limit \in Nat, Family = "bidbuy", Active(run),
         Fresh(run, limit, Most(Family, limit), StagesOf(Family)),
         NEW pages, NEW all, Roomy(all, Lesser(limit, MaxResults)),
         Streams(run, pages, all), Within(run, pages),
         NEW page, Posting(page, pages, run.page, all)
  PROVE  Streams(Received(page), pages, all) /\ Within(Received(page), pages)
<1> DEFINE most == Most(Family, limit)
           stages == StagesOf(Family)
<1>1. most \in Nat /\ Lesser(limit, MaxResults) <= most
  BY MostBounds
<1>2. stages = {"session", "page", "detail"}
  BY StagesKnown
<1> HIDE DEF most, stages
<1>3. Fresh(run, limit, most, stages)
  BY DEF most, stages
<1>4. run.stage \in stages /\ DOMAIN run = DOMAIN Idle
  BY <1>3, SoundStage DEF Fresh, Loose
<1>5. ~page.garbled
  BY DEF Posting
<1>6. run.stage = "session" => Received(page) = ToStage(run, "page")
  BY <1>5, ReceivedBy DEF BeforeListing, BidBuySession
<1>7. run.stage = "page" => Received(page) = BidBuyPage(run, page)
  BY ReceivedBy DEF Listing
<1>8. run.stage = "detail" => Received(page) = BidBuyDetail(run)
  BY ReceivedBy DEF Detail
<1>9. CASE run.stage = "session"
  BY <1>4, <1>6, <1>9, StreamsMoved
<1>10. CASE run.stage = "page"
  <2>1. Streams(BidBuyPage(run, page), pages, all) /\ Within(BidBuyPage(run, page), pages)
    BY <1>1, <1>3, <1>10, BidBuyPageStreams
  <2> QED
    BY <1>7, <1>10, <2>1
<1>11. CASE run.stage = "detail"
  <2>1. {"page", "detail"} \subseteq stages
    BY <1>2
  <2>2. Streams(BidBuyDetail(run), pages, all) /\ Within(BidBuyDetail(run), pages)
    BY <1>1, <1>3, <1>11, <2>1, BidBuyDetailStreams
  <2> QED
    BY <1>8, <1>11, <2>2
<1> QED
  BY <1>2, <1>4, <1>9, <1>10, <1>11

LEMMA RivipCollected ==
  ASSUME NEW limit \in Nat, Family = "rivip", Active(run),
         Fresh(run, limit, Most(Family, limit), StagesOf(Family)),
         NEW pages, NEW all, Roomy(all, Lesser(limit, MaxResults)),
         Streams(run, pages, all), NEW page, Reading(page, pages, run.page, all)
  PROVE  Streams(Received(page), pages, all)
<1> DEFINE most == Most(Family, limit)
           stages == StagesOf(Family)
<1>1. most \in Nat /\ Lesser(limit, MaxResults) <= most
  BY MostBounds
<1>2. stages = {"session", "form", "page", "detail"}
  BY StagesKnown
<1> HIDE DEF most, stages
<1>3. Fresh(run, limit, most, stages)
  BY DEF most, stages
<1>4. run.stage \in stages /\ DOMAIN run = DOMAIN Idle
  BY <1>3, SoundStage DEF Fresh, Loose
<1>5. ~page.garbled
  BY DEF Reading
<1>6. run.stage = "session" => Received(page) = ToStage(run, "form")
  BY ReceivedBy DEF BeforeListing, RivipSession
<1>7. run.stage \in {"form", "page"} => Received(page) = RivipPage(run, page)
  BY ReceivedBy DEF BeforeListing, Listing
<1>8. run.stage = "detail" => Received(page) = RivipDetail(run, page)
  BY ReceivedBy DEF Detail
<1>9. CASE run.stage = "session"
  <2>1. Streams(ToStage(run, "form"), pages, all)
    BY <1>4, <1>9, StreamsMoved
  <2> QED
    BY <1>6, <1>9, <2>1
<1>10. CASE run.stage \in {"form", "page"}
  <2>1. run.stage # "detail"
    BY <1>10
  <2>2. Streams(RivipPage(run, page), pages, all)
    BY <1>1, <1>3, <2>1, RivipPageStreams
  <2> QED
    BY <1>7, <1>10, <2>2
<1>11. CASE run.stage = "detail"
  <2>1. {"page", "detail"} \subseteq stages
    BY <1>2
  <2>2. Streams(RivipDetail(run, page), pages, all)
    BY <1>1, <1>3, <1>5, <1>11, <2>1, RivipDetailStreams
  <2> QED
    BY <1>8, <1>11, <2>2
<1> QED
  BY <1>2, <1>4, <1>9, <1>10, <1>11

LEMMA OpenGovCollected ==
  ASSUME NEW limit \in Nat, Family = "opengov", Active(run),
         Looking(run, limit, Most(Family, limit), StagesOf(Family)),
         NEW pages, NEW all, Roomy(all, Lesser(limit, MaxResults)), Completes(run, pages, all),
         run.page >= MaxPages => all \subseteq Before(pages, run.page),
         NEW page, Reading(page, pages, run.page, all)
  PROVE  Completes(Received(page), pages, all)
<1> DEFINE most == Most(Family, limit)
           stages == StagesOf(Family)
<1>1. most \in Nat /\ Lesser(limit, MaxResults) <= most
  BY MostBounds
<1>2. stages = {"page", "detail"}
  BY StagesKnown
<1> HIDE DEF most, stages
<1>3. Looking(run, limit, most, stages)
  BY DEF most, stages
<1>4. run.stage \in stages
  BY <1>3, SoundStage DEF Looking
<1>5. run.stage = "page" => Received(page) = OpenGovPage(run, page)
  BY ReceivedBy DEF Listing
<1>6. run.stage = "detail" => Received(page) = OpenGovDetail(run, page)
  BY ReceivedBy DEF Detail
<1>7. CASE run.stage = "page"
  <2>1. Completes(OpenGovPage(run, page), pages, all)
    BY <1>3, <1>7, OpenGovPageCompletes
  <2> QED
    BY <1>5, <1>7, <2>1
<1>8. CASE run.stage = "detail"
  <2>1. Completes(OpenGovDetail(run, page), pages, all)
    BY <1>1, <1>3, <1>8, OpenGovDetailCompletes
  <2> QED
    BY <1>6, <1>8, <2>1
<1> QED
  BY <1>2, <1>4, <1>7, <1>8

LEMMA KeepingCollected ==
  ASSUME NEW limit \in Nat, Family \in KeepingRow, Active(run),
         Listed(run, limit, Most(Family, limit), StagesOf(Family)),
         NEW pages, NEW all, Roomy(all, Lesser(limit, MaxResults)), Gathers(run, pages, all, all),
         NEW page, Reading(page, pages, run.page, all)
  PROVE  Gathers(Received(page), pages, all, all)
<1> DEFINE most == Most(Family, limit)
           stages == StagesOf(Family)
<1>1. most \in Nat /\ Lesser(limit, MaxResults) <= most
  BY MostBounds DEF KeepingRow
<1>2. stages = {"page", "detail"}
  BY StagesKnown
<1> HIDE DEF most, stages
<1>3. Listed(run, limit, most, stages)
  BY DEF most, stages
<1>4. run.stage \in stages
  BY <1>3, SoundStage DEF Listed, Queued
<1>5. ASSUME run.stage = "page" PROVE Gathers(Received(page), pages, all, all)
  <2>1. Queued(run, limit, 1, stages)
    BY <1>3, <1>5 DEF Listed
  <2>2. \E boundary, criteria : Received(page) = ListingPage(run, page, boundary, criteria)
    BY <1>5, ReceivedBy DEF Listing, KeepingRow, BidNetPage, PublicPurchasePage, PlanetBidsPage,
       MarylandPage, GeorgiaPage, DemandStarPage
  <2>3. 1 \in Nat /\ run.stage # "detail"
    BY <1>5
  <2>4. \A boundary, criteria : Gathers(ListingPage(run, page, boundary, criteria), pages, all, all)
    BY <2>1, <2>3, ListingPageGathers
  <2> QED
    BY <2>2, <2>4
<1>6. ASSUME run.stage = "detail" PROVE Gathers(Received(page), pages, all, all)
  <2>1. Queued(run, limit, most, stages)
    BY <1>3, <1>6 DEF Listed
  <2>2. \E status : Received(page) = ListingDetail(run, status)
    BY <1>6, ReceivedBy DEF Detail, KeepingRow, BidNetDetail, PublicPurchaseDetail, PlanetBidsDetail,
       MarylandDetail, GeorgiaDetail, DemandStarDetail
  <2>3. \A status : Gathers(ListingDetail(run, status), pages, all, all)
    BY <1>1, <1>6, <2>1, ListingDetailGathers
  <2> QED
    BY <2>2, <2>3
<1> QED
  BY <1>2, <1>4, <1>5, <1>6

LEMMA QueuedCollected ==
  ASSUME NEW limit \in Nat, Family \in QueuedFamilies, Active(run),
         Queued(run, limit, Most(Family, limit), StagesOf(Family)),
         NEW pages, NEW all, Roomy(all, Lesser(limit, MaxResults)), all \cap Bad = {},
         Gathers(run, pages, all, all \cup Bad),
         NEW page, Reading(page, pages, run.page, all),
         Family = "bonfire" /\ setting.profile.landing => ~page.more
  PROVE  Gathers(Received(page), pages, all, all \cup Bad)
<1> DEFINE most == Most(Family, limit)
           stages == StagesOf(Family)
           lot == all \cup Bad
<1>1. most \in Nat /\ Lesser(limit, MaxResults) <= most
  BY MostBounds DEF QueuedFamilies
<1>2. /\ Family \in {"eva", "texas", "jaggaer", "bonfire", "ionwave"} => stages = {"page", "detail"}
      /\ Family = "pennsylvania" => stages = {"session", "page", "detail"}
      /\ Family = "cgi" => stages = {"session", "form", "page", "detail"}
  BY StagesKnown
<1> HIDE DEF most, stages
<1>3. Queued(run, limit, most, stages)
  BY DEF most, stages
<1>4. run.stage \in stages /\ DOMAIN run = DOMAIN Idle
  BY <1>3, SoundStage DEF Queued, Loose
<1>5. ~page.garbled /\ page.words = {}
  BY DEF Reading
<1>6. \A why : Gathers(Failed(run, why), pages, all, lot)
  <2>1. Ids(run.out) \subseteq all
    BY DEF Gathers
  <2> QED
    BY <1>4, <2>1, GathersEnd
<1>7. ASSUME Family = "eva" PROVE Gathers(Received(page), pages, all, lot)
  <2>1. CASE run.stage = "page"
    <3>1. Received(page) = EvaPage(run, page)
      BY <1>7, <2>1, ReceivedBy DEF Listing
    <3>2. Gathers(EvaPage(run, page), pages, all, lot)
      BY <1>1, <1>3, <2>1, EvaPageGathers
    <3> QED
      BY <3>1, <3>2
  <2>2. CASE run.stage = "detail"
    <3>1. Received(page) = EvaDetail(run, page)
      BY <1>7, <2>2, ReceivedBy DEF Detail
    <3>2. Gathers(EvaDetail(run, page), pages, all, lot)
      BY <1>1, <1>3, <2>2, EvaDetailGathers
    <3> QED
      BY <3>1, <3>2
  <2> QED
    BY <1>2, <1>4, <1>7, <2>1, <2>2
<1>8. ASSUME Family = "texas" PROVE Gathers(Received(page), pages, all, lot)
  <2>1. CASE run.stage = "page"
    <3>1. Received(page) = TexasPage(run, page)
      BY <1>8, <2>1, ReceivedBy DEF Listing
    <3>2. Gathers(TexasPage(run, page), pages, all, lot)
      BY <1>1, <1>3, <2>1, TexasPageGathers
    <3> QED
      BY <3>1, <3>2
  <2>2. CASE run.stage = "detail"
    <3>1. Received(page) = TexasDetail(run, page)
      BY <1>8, <2>2, ReceivedBy DEF Detail
    <3>2. Gathers(TexasDetail(run, page), pages, all, lot)
      BY <1>1, <1>3, <2>2, TexasDetailGathers
    <3> QED
      BY <3>1, <3>2
  <2> QED
    BY <1>2, <1>4, <1>8, <2>1, <2>2
<1>9. ASSUME Family \in {"jaggaer", "bonfire", "ionwave"} PROVE Gathers(Received(page), pages, all, lot)
  <2>1. CASE run.stage = "page"
    <3>1. \E criteria, single :
            /\ single => ~page.more
            /\ Received(page) = Failed(run, "malformed") \/ Received(page) = CollectPage(run, page, criteria, single)
      <4>1. Family = "jaggaer" => Received(page) = CollectPage(run, page, JaggaerMatches, FALSE)
        BY <2>1, ReceivedBy DEF Listing, JaggaerPage
      <4>2. Family = "ionwave" => \/ Received(page) = Failed(run, "malformed")
                                  \/ Received(page) = CollectPage(run, page, IonWaveMatches, FALSE)
        BY <2>1, ReceivedBy DEF Listing, IonWavePage
      <4>3. Family = "bonfire" => \/ Received(page) = Failed(run, "malformed")
                                  \/ Received(page) = CollectPage(run, page, BonfireMatches, setting.profile.landing)
        BY <2>1, ReceivedBy DEF Listing, BonfirePage
      <4> QED
        BY <1>9, <4>1, <4>2, <4>3
    <3>2. ASSUME NEW criteria, NEW single, single => ~page.more
          PROVE  Gathers(CollectPage(run, page, criteria, single), pages, all, lot)
      BY <1>1, <1>3, <2>1, <3>2, CollectPageGathers
    <3> HIDE DEF lot
    <3> QED
      BY <1>6, <3>1, <3>2
  <2>2. CASE run.stage = "detail"
    <3>1. \E status : Received(page) = CollectDetail(run, page, status)
      BY <1>9, <2>2, ReceivedBy DEF Detail, JaggaerDetail, BonfireDetail, IonWaveDetail
    <3>2. \A status : Gathers(CollectDetail(run, page, status), pages, all, lot)
      BY <1>1, <1>3, <2>2, CollectDetailGathers
    <3> QED
      BY <3>1, <3>2
  <2> QED
    BY <1>2, <1>4, <1>9, <2>1, <2>2
<1>10. ASSUME Family = "pennsylvania" PROVE Gathers(Received(page), pages, all, lot)
  <2>1. CASE run.stage = "session"
    <3>1. Received(page) = PennsylvaniaSession(run)
      BY <1>10, <2>1, ReceivedBy DEF BeforeListing
    <3>2. run.page > MaxPages => all \subseteq Before(pages, run.page - 1)
      BY DEF Reading
    <3>3. Gathers(PennsylvaniaSession(run), pages, all, lot)
      BY <1>1, <1>3, <2>1, <3>2, PennsylvaniaSessionGathers
    <3> QED
      BY <3>1, <3>3
  <2>2. CASE run.stage = "page"
    <3>1. Received(page) = PennsylvaniaPage(run, page)
      BY <1>10, <2>2, ReceivedBy DEF Listing
    <3>2. Gathers(PennsylvaniaPage(run, page), pages, all, lot)
      BY <1>1, <1>3, <2>2, PennsylvaniaPageGathers
    <3> QED
      BY <3>1, <3>2
  <2>3. CASE run.stage = "detail"
    <3>1. Received(page) = PennsylvaniaDetail(run)
      BY <1>10, <2>3, ReceivedBy DEF Detail
    <3>2. Gathers(PennsylvaniaDetail(run), pages, all, lot)
      BY <1>1, <1>3, <2>3, PennsylvaniaDetailGathers
    <3> QED
      BY <3>1, <3>2
  <2> QED
    BY <1>2, <1>4, <1>10, <2>1, <2>2, <2>3
<1>11. ASSUME Family = "cgi" PROVE Gathers(Received(page), pages, all, lot)
  <2>1. CASE run.stage \in {"session", "form"}
    <3>1. Received(page) = CgiSession(run, page)
      BY <1>11, <2>1, ReceivedBy DEF BeforeListing
    <3>2. Gathers(CgiSession(run, page), pages, all, lot)
      BY <1>4, <2>1, CgiSessionGathers
    <3> QED
      BY <3>1, <3>2
  <2>2. CASE run.stage = "page"
    <3>1. Received(page) = CgiPage(run, page)
      BY <1>11, <2>2, ReceivedBy DEF Listing
    <3>2. Gathers(CgiPage(run, page), pages, all, lot)
      BY <1>1, <1>3, <2>2, CgiPageGathers
    <3> QED
      BY <3>1, <3>2
  <2>3. CASE run.stage = "detail"
    <3>1. Received(page) = CgiDetail(run, page)
      BY <1>11, <2>3, ReceivedBy DEF Detail
    <3>2. Gathers(CgiDetail(run, page), pages, all, lot)
      BY <1>1, <1>3, <1>5, <2>3, CgiDetailGathers
    <3> QED
      BY <3>1, <3>2
  <2> QED
    BY <1>2, <1>4, <1>11, <2>1, <2>2, <2>3
<1> QED
  BY <1>7, <1>8, <1>9, <1>10, <1>11 DEF QueuedFamilies

\* The identifiers of a stretch of rows.
LEMMA StretchIds ==
  ASSUME NEW rows, IsSequence(rows), NEW m \in Nat, NEW n \in Nat, m <= n, n <= Len(rows)
  PROVE  LET part == SubSeq(rows, m + 1, n)
         IN /\ IsSequence(part) /\ Len(part) = n - m
            /\ Ids(part) = {rows[i].id : i \in (m + 1)..n}
            /\ IdsTo(rows, n) = IdsTo(rows, m) \cup Ids(part)
            /\ Distinct(rows) => Distinct(part)
<1> DEFINE part == SubSeq(rows, m + 1, n)
<1>1. Len(rows) \in Nat /\ DOMAIN rows = 1..Len(rows) /\ rows \in Seq(ToSet(rows))
  BY SequenceLength DEF IsSequence
<1>2. Len(part) = n - m /\ \A i \in 1..(n - m) : part[i] = rows[m + i]
  BY <1>1
<1>3. IsSequence(part)
  BY SubSequence
<1>4. DOMAIN part = 1..(n - m)
  BY <1>2, <1>3, SequenceLength
<1> HIDE DEF part
<1>5. Ids(part) = {rows[i].id : i \in (m + 1)..n}
  <2>1. ASSUME NEW x \in Ids(part) PROVE x \in {rows[i].id : i \in (m + 1)..n}
    <3>1. PICK i \in 1..(n - m) : x = part[i].id
      BY <1>4 DEF Ids
    <3>2. x = rows[m + i].id /\ m + i \in (m + 1)..n
      BY <1>2, <3>1
    <3> QED
      BY <3>2
  <2>2. ASSUME NEW x \in {rows[i].id : i \in (m + 1)..n} PROVE x \in Ids(part)
    <3>1. PICK j \in (m + 1)..n : x = rows[j].id
      OBVIOUS
    <3>2. j - m \in 1..(n - m) /\ m + (j - m) = j
      OBVIOUS
    <3>3. x = part[j - m].id
      BY <1>2, <3>1, <3>2
    <3> QED
      BY <1>4, <3>2, <3>3 DEF Ids
  <2> QED
    BY <2>1, <2>2
<1>6. IdsTo(rows, n) = IdsTo(rows, m) \cup Ids(part)
  <2>1. 1..n = (1..m) \cup ((m + 1)..n)
    OBVIOUS
  <2> QED
    BY <1>5, <2>1 DEF IdsTo
<1>7. ASSUME Distinct(rows) PROVE Distinct(part)
  <2> SUFFICES ASSUME NEW i \in 1..(n - m), NEW j \in 1..(n - m), part[i].id = part[j].id
               PROVE  i = j
    BY <1>4 DEF Distinct
  <2>1. rows[m + i].id = rows[m + j].id
    BY <1>2
  <2>2. m + i \in DOMAIN rows /\ m + j \in DOMAIN rows
    BY <1>1
  <2>3. m + i = m + j
    BY <1>7, <2>1, <2>2 DEF Distinct
  <2> QED
    BY <2>3
<1> QED
  BY <1>2, <1>3, <1>5, <1>6, <1>7 DEF part

LEMMA CountedTo ==
  ASSUME NEW rows, IsSequence(rows), Distinct(rows), NEW n \in Nat, n <= Len(rows)
  PROVE  Cardinality(IdsTo(rows, n)) = n
<1> DEFINE part == SubSeq(rows, 0 + 1, n)
<1>1. 0 \in Nat /\ 0 <= n
  OBVIOUS
<1>2. IsSequence(part) /\ Len(part) = n - 0 /\ Distinct(part) /\ IdsTo(rows, n) = IdsTo(rows, 0) \cup Ids(part)
  BY <1>1, StretchIds
<1>3. IdsTo(rows, 0) = {}
  BY IdsStep
<1> HIDE DEF part
<1>4. Cardinality(Ids(part)) = n
  BY <1>2, DistinctCounted
<1> QED
  BY <1>2, <1>3, <1>4

\* Oracle reads by offset: a run has the rows before it and no others.
Windows(r, rows) ==
  /\ Ids(r.out) \subseteq Ids(rows)
  /\ r.state = "done" => Ids(rows) \subseteq Ids(r.out)
  /\ Active(r) => /\ (r.page - 1) * PageSize <= Len(rows)
                  /\ Ids(r.out) = IdsTo(rows, (r.page - 1) * PageSize)

\* What a window shows, from the offset on.
LEMMA WindowShown ==
  ASSUME NEW r, IsSequence(r.out), Distinct(r.out), NEW rows, IsSequence(rows), Distinct(rows),
         OracleWanted(r) \in Nat, Len(rows) <= OracleWanted(r),
         NEW offset \in Nat, offset = (r.page - 1) * PageSize, offset <= Len(rows),
         Ids(r.out) = IdsTo(rows, offset)
  PROVE  LET upto == Lesser(offset + PageSize, Len(rows))
             window == OracleWindow(r, rows)
         IN /\ IsSequence(window.rows) /\ Ids(window.rows) \subseteq Ids(rows)
            /\ IdsTo(rows, upto) = Ids(r.out) \cup Ids(window.rows)
            /\ (window.more <=> upto < Len(rows))
            /\ upto \in Nat /\ offset <= upto /\ upto <= Len(rows)
<1> DEFINE n == Len(rows)
           upto == Lesser(offset + PageSize, n)
           size == Lesser(PageSize, OracleWanted(r) - Len(r.out))
           window == OracleWindow(r, rows)
<1>1. n \in Nat /\ PageSize \in Nat \ {0}
  BY SequenceLength, Numbers
<1>2. Len(r.out) = offset
  <2>1. Cardinality(Ids(r.out)) = Len(r.out)
    BY DistinctCounted
  <2>2. Cardinality(IdsTo(rows, offset)) = offset
    BY CountedTo
  <2> QED
    BY <2>1, <2>2
<1>3. upto \in Nat /\ offset <= upto /\ upto <= n
  BY <1>1 DEF Lesser
<1>4. Lesser(offset + size, n) = upto
  BY <1>1, <1>2 DEF Lesser
<1>5. /\ window.rows = SubSeq(rows, offset + 1, Lesser(offset + size, n))
      /\ (window.more <=> Lesser(offset + size, n) < n)
  BY DEF OracleWindow
<1>6. /\ window.rows = SubSeq(rows, offset + 1, upto)
      /\ (window.more <=> upto < n)
  BY <1>4, <1>5
<1> HIDE DEF upto, size, window
<1>7. LET part == SubSeq(rows, offset + 1, upto)
      IN /\ IsSequence(part) /\ Ids(part) = {rows[i].id : i \in (offset + 1)..upto}
         /\ IdsTo(rows, upto) = IdsTo(rows, offset) \cup Ids(part)
  BY <1>3, StretchIds DEF n
<1>8. Ids(window.rows) \subseteq Ids(rows)
  <2>1. DOMAIN rows = 1..n
    BY SequenceLength DEF n
  <2>2. \A i \in (offset + 1)..upto : i \in DOMAIN rows
    BY <1>1, <1>3, <2>1
  <2>3. Ids(window.rows) = {rows[i].id : i \in (offset + 1)..upto}
    BY <1>6, <1>7
  <2> QED
    BY <2>2, <2>3 DEF Ids
<1>9. IsSequence(window.rows) /\ IdsTo(rows, upto) = Ids(r.out) \cup Ids(window.rows)
  BY <1>6, <1>7
<1> QED
  BY <1>3, <1>6, <1>8, <1>9 DEF upto, window, n

LEMMA WindowsEnd ==
  ASSUME NEW r, DOMAIN r = DOMAIN Idle, NEW rows, Ids(r.out) \subseteq Ids(rows)
  PROVE  /\ Ids(rows) \subseteq Ids(r.out) => Windows(Done(r), rows)
         /\ \A why : Windows(Failed(r, why), rows)
<1>1. Done(r).out = r.out /\ ~Active(Done(r))
  BY DoneFields DEF Active
<1>2. \A why : Failed(r, why).out = r.out /\ Failed(r, why).state = "failed"
  BY FailedFields
<1>3. Ids(rows) \subseteq Ids(r.out) => Windows(Done(r), rows)
  BY <1>1 DEF Windows
<1>4. \A why : Windows(Failed(r, why), rows)
  BY <1>2 DEF Windows, Active
<1> QED
  BY <1>3, <1>4

\* Pages of rows: as many as the bound hold all.
LEMMA PagesHold ==
  ASSUME NEW n \in 1..MaxPages + 1
  PROVE  /\ (n - 1) * PageSize \in Nat /\ (n - 1) * PageSize + PageSize = n * PageSize
         /\ n >= MaxPages => n * PageSize >= MaxPages * PageSize
<1>1. n \in Nat /\ n >= 1 /\ PageSize \in Nat /\ MaxPages \in Nat
  BY Numbers
<1>2. (n - 1) * PageSize \in Nat
  BY <1>1
<1>3. (n - 1) * PageSize + PageSize = n * PageSize
  BY <1>1
<1>4. (MaxPages + 1) * PageSize = MaxPages * PageSize + PageSize /\ MaxPages * PageSize \in Nat
  BY <1>1
<1>5. n >= MaxPages => n = MaxPages \/ n = MaxPages + 1
  BY <1>1
<1> QED
  BY <1>1, <1>2, <1>3, <1>4, <1>5

LEMMA OraclePageWindows ==
  ASSUME NEW limit \in Nat, NEW most \in Nat, Lesser(limit, MaxResults) <= most,
         NEW stages, "detail" \notin stages,
         NEW r, Single(r, limit, most, stages), Active(r), r.stage \in stages,
         NEW rows, IsSequence(rows), Distinct(rows), Ids(rows) \cap Bad = {},
         Roomy(Ids(rows), Lesser(limit, MaxResults)), Len(rows) <= Lesser(limit, MaxResults),
         Len(rows) <= MaxPages * PageSize, Windows(r, rows),
         NEW page, ~page.garbled,
         page.rows = OracleWindow(r, rows).rows, page.more <=> OracleWindow(r, rows).more
  PROVE  Windows(OraclePage(r, page), rows)
<1> DEFINE s == Marked(r, page)
           next == FoldLeft(OracleRow, s, page.rows)
           all == Ids(rows)
           n == Len(rows)
           offset == (r.page - 1) * PageSize
           upto == Lesser(offset + PageSize, n)
<1>1. DOMAIN r = DOMAIN Idle /\ r.page \in 1..MaxPages + 1 /\ r.limit = limit /\ IsSequence(r.out)
  BY DEF Single, Sound, Loose
<1>2. Distinct(r.out)
  BY DEF Single
<1>3. n \in Nat /\ PageSize \in Nat \ {0} /\ MaxPages \in Nat
  BY SequenceLength, Numbers
<1>4. /\ offset \in Nat /\ offset + PageSize = r.page * PageSize
      /\ r.page >= MaxPages => r.page * PageSize >= MaxPages * PageSize
  BY <1>1, PagesHold
<1>5. offset <= n /\ Ids(r.out) = IdsTo(rows, offset) /\ Ids(r.out) \subseteq all
  BY DEF Windows
<1>6. OracleWanted(r) = Lesser(limit, MaxResults) /\ OracleWanted(r) \in Nat
  BY <1>1, LesserBound, Numbers DEF OracleWanted, Lesser
<1>7. /\ IsSequence(page.rows) /\ Ids(page.rows) \subseteq all
      /\ IdsTo(rows, upto) = Ids(r.out) \cup Ids(page.rows)
      /\ (page.more <=> upto < n)
      /\ upto \in Nat /\ offset <= upto /\ upto <= n
  BY <1>1, <1>2, <1>4, <1>5, <1>6, WindowShown
<1>8. upto < n => upto = r.page * PageSize /\ offset < upto
  BY <1>3, <1>4 DEF Lesser
<1>9. r.page >= MaxPages => ~(upto < n)
  BY <1>3, <1>4, <1>8
<1>10. upto = n => IdsTo(rows, upto) = all
  BY IdsStep
<1>11. Single(s, limit, most, stages) /\ s.out = r.out /\ s.page = r.page /\ Active(s)
  BY <1>1, MarkedAlike, MarkedFields DEF Active
<1>12. \/ OraclePage(r, page) = Failed(r, "repeated")
       \/ OraclePage(r, page) = next /\ ~Active(next)
       \/ OraclePage(r, page) = Done(next) /\ Active(next) /\ (~page.more \/ next.out = r.out \/ r.page >= MaxPages)
       \/ OraclePage(r, page) = NextPage(next) /\ Active(next) /\ page.more
  BY DEF OraclePage, Marked, LastPage
<1> HIDE DEF s, offset, upto, n
<1>13. Gains(next, s, Ids(page.rows), all)
  BY <1>5, <1>7, <1>11, OracleRowsGain
<1>14. Walks(next, s, limit, most, stages)
  BY <1>7, <1>11, OracleRowsWalk DEF Single
<1>15. /\ DOMAIN next = DOMAIN Idle /\ next.page = r.page /\ next.page \in Nat
       /\ Active(next) => next.stage # "detail"
  BY <1>1, <1>11, <1>14 DEF Walks, Sound, Loose
<1>16. Ids(next.out) \subseteq all /\ (next.state = "done" => all \subseteq Ids(next.out))
  BY <1>13 DEF Gains
<1>17. Active(next) => Ids(next.out) = IdsTo(rows, upto)
  <2>1. Active(next) => Left(next) = {}
    BY <1>15 DEF Left
  <2>2. Ids(page.rows) \ Bad = Ids(page.rows)
    BY <1>7
  <2> QED
    BY <1>7, <1>11, <1>13, <2>1, <2>2 DEF Gains
<1> HIDE DEF next
<1>18. Windows(Failed(r, "repeated"), rows)
  BY <1>1, <1>5, WindowsEnd
<1>19. ~Active(next) => Windows(next, rows)
  BY <1>16 DEF Windows
<1>20. ASSUME Active(next), ~page.more \/ next.out = r.out \/ r.page >= MaxPages
       PROVE  Windows(Done(next), rows)
  <2>1. ~(upto < n)
    <3>1. CASE next.out = r.out
      <4>1. IdsTo(rows, upto) = IdsTo(rows, offset)
        BY <1>5, <1>17, <1>20, <3>1
      <4>2. Cardinality(IdsTo(rows, upto)) = upto /\ Cardinality(IdsTo(rows, offset)) = offset
        BY <1>4, <1>5, <1>7, CountedTo DEF n
      <4> QED
        BY <1>8, <4>1, <4>2, <1>4, <1>7
    <3> QED
      BY <1>7, <1>9, <1>20, <3>1
  <2>2. upto = n
    BY <1>3, <1>7, <2>1
  <2>3. all \subseteq Ids(next.out)
    BY <1>10, <1>17, <1>20, <2>2
  <2> QED
    BY <1>15, <1>16, <2>3, WindowsEnd
<1>21. ASSUME Active(next), page.more PROVE Windows(NextPage(next), rows)
  <2>1. upto = r.page * PageSize /\ upto <= n
    BY <1>7, <1>8, <1>21
  <2>2. /\ NextPage(next).page = r.page + 1 /\ NextPage(next).state = next.state
        /\ NextPage(next).out = next.out
    BY <1>15, Turned
  <2>3. NextPage(next).page - 1 = r.page
    BY <1>15, <2>2
  <2>4. (NextPage(next).page - 1) * PageSize = upto
    BY <2>1, <2>3, Zenon
  <2>5. NextPage(next).state = "asking"
    BY <1>21, <2>2 DEF Active
  <2> QED
    BY <1>16, <1>17, <1>21, <2>1, <2>2, <2>4, <2>5 DEF Windows, n
<1> QED
  BY <1>12, <1>18, <1>19, <1>20, <1>21

\* A text without words names nothing.
LEMMA NamedNone ==
  \A table, default : FirstNamed(table, {}, default) = default
<1> TAKE table, default
<1>1. {i \in DOMAIN table : table[i][2] \cap {} # {}} = {}
  OBVIOUS
<1> QED
  BY <1>1 DEF FirstNamed

LEMMA NoBoundary ==
  /\ EvaBoundary({}) = "public" /\ TexasBoundary({}) = "public"
  /\ PeopleSoftBoundary({}) = "public" /\ InfotechBoundary({}) = "public"
  /\ RivipBoundary({}) = "public" /\ PennsylvaniaBoundary({}) = "public" /\ CgiBoundary({}) = "public"
  /\ JaggaerBoundary({}) = "public" /\ BonfireBoundary({}) = "public" /\ IonWaveBoundary({}) = "public"
  /\ OpenGovBoundary({}) = "public_metadata_only"
<1>1. EvaBoundary({}) = "public" /\ TexasBoundary({}) = "public"
  BY NamedNone, Zenon DEF EvaBoundary, TexasBoundary
<1>2. PeopleSoftBoundary({}) = "public" /\ InfotechBoundary({}) = "public"
  BY NamedNone, Zenon DEF PeopleSoftBoundary, InfotechBoundary
<1>3. RivipBoundary({}) = "public" /\ PennsylvaniaBoundary({}) = "public"
  BY NamedNone, Zenon DEF RivipBoundary, PennsylvaniaBoundary
<1>4. CgiBoundary({}) = "public" /\ JaggaerBoundary({}) = "public"
  BY NamedNone, Zenon DEF CgiBoundary, JaggaerBoundary
<1>5. BonfireBoundary({}) = "public" /\ IonWaveBoundary({}) = "public"
  BY NamedNone, Zenon DEF BonfireBoundary, IonWaveBoundary
<1>6. OpenGovBoundary({}) = "public_metadata_only"
  <2>1. OpenGovBoundary({}) = IF {} = {} THEN "public_metadata_only" ELSE "malformed"
    BY NamedNone, Zenon DEF OpenGovBoundary
  <2> QED
    BY <2>1
<1> QED
  BY <1>1, <1>2, <1>3, <1>4, <1>5, <1>6

\* The answer the portal should give is a page to every class.
LEMMA PlainIsPage ==
  ASSUME Family \in Families
  PROVE  VerdictOf(Plain).what = "page"
<1>1. Plain.status = 200 /\ Plain.words = {}
  BY DEF Plain
<1>2. 200 \notin Busy \cup {Lost} /\ 200 \notin Busy /\ 200 # Lost
  BY DEF Busy, Lost
<1>3. \A access : Page(access).what = "page"
  BY DEF Page
<1>4. Family = "webprocure" => VerdictOf(Plain).what = "page"
  BY <1>1, <1>2, <1>3 DEF VerdictOf, WebProcureVerdict
<1>5. Family \in {"eva", "texas"} => VerdictOf(Plain).what = "page"
  BY <1>1, <1>2, <1>3, NoBoundary DEF VerdictOf, EvaVerdict, TexasVerdict
<1>6. Family \in {"peoplesoft", "infotech"} => VerdictOf(Plain).what = "page"
  BY <1>1, <1>2, <1>3, NoBoundary DEF VerdictOf, PeopleSoftVerdict, InfotechVerdict
<1>7. Family \in {"periscope", "bidbuy"} => VerdictOf(Plain).what = "page"
  BY <1>1, <1>2, <1>3 DEF VerdictOf, PeriscopeVerdict, BidBuyPosted, PeriscopeChecked
<1>8. Family \in {"oracle", "tyler"} => VerdictOf(Plain).what = "page"
  BY <1>1, <1>2, <1>3 DEF VerdictOf, OracleVerdict, TylerVerdict
<1>9. Family \in {"rivip", "pennsylvania", "cgi"} => VerdictOf(Plain).what = "page"
  BY <1>1, <1>2, <1>3, NoBoundary DEF VerdictOf, RivipVerdict, PennsylvaniaVerdict, CgiVerdict
<1>10. Family \in {"jaggaer", "bonfire", "ionwave"} => VerdictOf(Plain).what = "page"
  BY <1>1, <1>2, <1>3, NoBoundary DEF VerdictOf, JaggaerVerdict, BonfireVerdict, IonWaveVerdict, CollectVerdict
<1>11. Family = "opengov" => VerdictOf(Plain).what = "page"
  BY <1>1, <1>2, <1>3, NoBoundary DEF VerdictOf, OpenGovVerdict
<1>12. Family \in KeepingRow \cup {"demandstar_api"} => VerdictOf(Plain).what = "page"
  BY <1>1, <1>2, <1>3 DEF KeepingRow, VerdictOf, BidNetVerdict, PublicPurchaseVerdict, PlanetBidsVerdict,
     MarylandVerdict, GeorgiaVerdict, DemandStarVerdict, ListingVerdict
<1> QED
  BY <1>4, <1>5, <1>6, <1>7, <1>8, <1>9, <1>10, <1>11, <1>12 DEF Families, KeepingRow

\* The interface of DemandStar: one search, and then the parts of each row.
LEMMA DemandStarCollected ==
  ASSUME NEW limit \in Nat, Family = "demandstar_api", Active(run),
         Queued(run, limit, Most(Family, limit), StagesOf(Family)),
         NEW pages, NEW all, Roomy(all, Lesser(limit, MaxResults)), Gathers(run, pages, all, all),
         NEW page, IsSequence(page.rows), ~page.garbled, page.words = {},
         run.stage # "detail" => all = Ids(UsableRows(page.rows)) /\ Distinct(UsableRows(page.rows))
  PROVE  /\ Queued(Received(page), limit, Most(Family, limit), StagesOf(Family))
         /\ Gathers(Received(page), pages, all, all)
         /\ Active(Received(page)) => Received(page).stage = "detail"
<1> DEFINE most == Most(Family, limit)
           stages == StagesOf(Family)
<1>1. most \in Nat /\ Lesser(limit, MaxResults) <= most
  BY MostBounds
<1>2. stages = {"page", "detail"}
  BY StagesKnown
<1> HIDE DEF most, stages
<1>3. Queued(run, limit, most, stages)
  BY DEF most, stages
<1>4. run.stage \in stages /\ DOMAIN run = DOMAIN Idle
  BY <1>3, SoundStage DEF Queued, Loose
<1>5. CASE run.stage = "page"
  <2>1. Received(page) = DemandStarSearched(run, page)
    BY <1>5, ReceivedBy DEF Listing
  <2>2. "detail" \in stages
    BY <1>2
  <2>3. /\ Queued(DemandStarSearched(run, page), limit, most, stages)
        /\ Gathers(DemandStarSearched(run, page), pages, all, all)
    BY <1>1, <1>3, <1>5, <2>2, SearchedGathers
  <2>4. \/ DemandStarSearched(run, page) = Done(run)
        \/ DemandStarSearched(run, page) = Queueing(ToStage(run, "detail"), UsableRows(page.rows))
    BY DEF DemandStarSearched, Queueing
  <2>5. Active(DemandStarSearched(run, page)) => DemandStarSearched(run, page).stage = "detail"
    <3>1. ~Active(Done(run))
      BY <1>4, DoneFields DEF Active
    <3>2. Queueing(ToStage(run, "detail"), UsableRows(page.rows)).stage = "detail"
      BY <1>4, Fields DEF Queueing, ToStage
    <3> QED
      BY <2>4, <3>1, <3>2
  <2> QED
    BY <2>1, <2>3, <2>5 DEF most, stages
<1>6. CASE run.stage = "detail"
  <2>1. PICK parts : Received(page) = DemandStarPart(run, page, parts)
    BY <1>6, ReceivedBy DEF Detail
  <2>2. "detail" \in stages
    BY <1>2
  <2>3. /\ Queued(DemandStarPart(run, page, parts), limit, most, stages)
        /\ Gathers(DemandStarPart(run, page, parts), pages, all, all)
    BY <1>1, <1>3, <1>6, <2>2, PartGathers
  <2>4. Active(DemandStarPart(run, page, parts)) => DemandStarPart(run, page, parts).stage = "detail"
    <3> DEFINE row == Head(run.queue)
               rest == [run EXCEPT !.queue = Tail(@), !.details = 0]
               next == IF Meets(row, run.wanted, DemandStarMatches)
                       THEN Yield(rest, row, DemandStarStatus(row.says)) ELSE rest
               again == [ToStage(run, "detail") EXCEPT !.details = @ + 1]
    <3>1. DOMAIN next = DOMAIN Idle
      BY <1>4, Fields DEF Yield
    <3>2. again.stage = "detail"
      BY <1>4, Fields DEF ToStage
    <3>3. \/ DemandStarPart(run, page, parts) = again
          \/ DemandStarPart(run, page, parts) = Done(next)
          \/ DemandStarPart(run, page, parts) = ToStage(next, "detail")
      BY DEF DemandStarPart
    <3> HIDE DEF next, again
    <3>4. ~Active(Done(next)) /\ ToStage(next, "detail").stage = "detail"
      BY <3>1, DoneFields, Moved DEF Active
    <3> QED
      BY <3>2, <3>3, <3>4
  <2> QED
    BY <2>1, <2>3, <2>4 DEF most, stages
<1> QED
  BY <1>2, <1>4, <1>5, <1>6

-----------------------------------------------------------------------------
(* What a run of any class has found so far.                                 *)

\* The one search of DemandStar's interface comes before its rows.
Searches(r) == Apart(r) /\ (Active(r) /\ r.stage # "detail" => r.out = <<>> /\ r.page = 1)

Collects(family, r, pages, rows, all) ==
  /\ family \in {"webprocure", "tyler", "rivip", "bidbuy"} \cup Yielders => Streams(r, pages, all)
  /\ family \in Yielders => Headed(r, all)
  /\ family = "bidbuy" => Within(r, pages)
  /\ family \in QueuedFamilies => Gathers(r, pages, all, all \cup Bad)
  /\ family \in KeepingRow \cup {"demandstar_api"} => Gathers(r, pages, all, all)
  /\ family = "demandstar_api" => Searches(r)
  /\ family = "opengov" => Completes(r, pages, all)
  /\ family = "oracle" => Windows(r, rows)

\* However a class walks the listing: it yields what is there, and has it all at its end.
LEMMA CollectsFound ==
  ASSUME NEW family \in Families, NEW r, NEW pages, NEW rows, NEW all,
         Collects(family, r, pages, rows, all)
  PROVE  LET found == IF family = "oracle" THEN Ids(rows) ELSE all
         IN Ids(r.out) \subseteq found /\ (r.state = "done" => found \ Misses \subseteq Ids(r.out))
<1>1. CASE family \in {"webprocure", "tyler", "rivip", "bidbuy"} \cup Yielders
  <2>1. Streams(r, pages, all)
    BY <1>1 DEF Collects
  <2> QED
    BY <1>1, <2>1 DEF Streams, Yielders
<1>2. CASE family \in QueuedFamilies \cup KeepingRow \cup {"demandstar_api"}
  <2>1. \E lot : Gathers(r, pages, all, lot)
    BY <1>2 DEF Collects
  <2> QED
    BY <1>2, <2>1 DEF Gathers, QueuedFamilies, KeepingRow
<1>3. CASE family = "opengov"
  <2>1. Completes(r, pages, all)
    BY <1>3 DEF Collects
  <2> QED
    BY <1>3, <2>1 DEF Completes
<1>4. CASE family = "oracle"
  <2>1. Windows(r, rows)
    BY <1>4 DEF Collects
  <2> QED
    BY <1>4, <2>1 DEF Windows
<1> QED
  BY <1>1, <1>2, <1>3, <1>4 DEF Families, Yielders, QueuedFamilies, KeepingRow

LEMMA CollectsFailed ==
  ASSUME NEW family \in Families \ {"demandstar_api"}, NEW r, DOMAIN r = DOMAIN Idle,
         NEW pages, NEW rows, NEW all, Collects(family, r, pages, rows, all), NEW why
  PROVE  Collects(family, Failed(r, why), pages, rows, all)
<1> DEFINE f == Failed(r, why)
<1>1. /\ family # "oracle" => Ids(r.out) \subseteq all
      /\ family = "oracle" => Ids(r.out) \subseteq Ids(rows)
  BY CollectsFound, Zenon
<1>2. ~Active(f)
  BY FailedFields DEF Active
<1>3. Headed(f, all) /\ Within(f, pages)
  BY <1>2 DEF Headed, Within
<1>4. family # "oracle" => Streams(f, pages, all) /\ Completes(f, pages, all)
  BY <1>1, StreamsEnd, CompletesEnd
<1>5. family # "oracle" => Gathers(f, pages, all, all) /\ Gathers(f, pages, all, all \cup Bad)
  BY <1>1, GathersEnd
<1>6. family = "oracle" => Windows(f, rows)
  BY <1>1, WindowsEnd
<1> HIDE DEF f
<1>7. Collects(family, f, pages, rows, all)
  BY <1>3, <1>4, <1>5, <1>6 DEF Collects, Yielders, QueuedFamilies, KeepingRow
<1> QED
  BY <1>7 DEF f

\* The time of the next attempt is no part of it.
LEMMA CollectsDressed ==
  ASSUME NEW family, NEW r, DOMAIN r = DOMAIN Idle, NEW pages, NEW rows, NEW all,
         Collects(family, r, pages, rows, all), NEW wake
  PROVE  Collects(family, Dress(r, wake), pages, rows, all)
<1> DEFINE q == Dress(r, wake)
<1>1. /\ q.state = r.state /\ q.stage = r.stage /\ q.page = r.page /\ q.held = r.held
      /\ q.queue = r.queue /\ q.out = r.out /\ q.marks = r.marks /\ (q.ends <=> r.ends)
  BY Fields DEF Dress
<1> HIDE DEF q
<1>2. Active(q) <=> Active(r)
  BY <1>1 DEF Active
<1>3. Streams(r, pages, all) => Streams(q, pages, all)
  BY <1>1, <1>2 DEF Streams
<1>4. (Headed(r, all) => Headed(q, all)) /\ (Within(r, pages) => Within(q, pages))
  BY <1>1, <1>2 DEF Headed, Within
<1>5. \A lot : Gathers(r, pages, all, lot) => Gathers(q, pages, all, lot)
  BY <1>1, <1>2 DEF Gathers
<1>6. (Completes(r, pages, all) => Completes(q, pages, all)) /\ (Windows(r, rows) => Windows(q, rows))
  BY <1>1, <1>2 DEF Completes, Windows
<1>7. Searches(r) => Searches(q)
  BY <1>1, <1>2 DEF Searches, Apart
<1>8. Collects(family, q, pages, rows, all)
  BY <1>3, <1>4, <1>5, <1>6, <1>7 DEF Collects
<1> QED
  BY <1>8 DEF q

\* A run that asks for its first page has found nothing, and missed nothing.
LEMMA CollectsAsking ==
  ASSUME NEW query, NEW stage, stage # "detail",
         NEW family, NEW pages, NEW rows, IsSequence(rows), NEW all
  PROVE  Collects(family, Asking(query, stage), pages, rows, all)
<1> DEFINE r == Asking(query, stage)
<1>1. /\ r.state = "asking" /\ r.stage = stage /\ r.page = 1 /\ r.held = <<>> /\ r.queue = <<>>
      /\ r.out = <<>> /\ r.marks = {}
  BY Fields DEF Asking, Idle
<1> HIDE DEF r
<1>2. r.page - 1 = 0 /\ (r.page - 1) * PageSize = 0
  BY <1>1, Numbers
<1>3. Ids(r.out) = {} /\ Ids(r.held) = {} /\ Apart(r)
  BY <1>1, EmptySequence DEF Apart
<1>4. Before(pages, r.page - 1) = {}
  <2>1. Before(pages, 0) = {}
    BY BeforeNext
  <2> QED
    BY <1>2, <2>1
<1>5. IdsTo(rows, (r.page - 1) * PageSize) = {}
  <2>1. IdsTo(rows, 0) = {}
    BY DEF IdsTo
  <2> QED
    BY <1>2, <2>1
<1>6. Streams(r, pages, all)
  BY <1>1, <1>3, <1>4 DEF Streams
<1>7. Headed(r, all) /\ Within(r, pages)
  BY <1>1, <1>3 DEF Headed, Within
<1>8. \A lot : Gathers(r, pages, all, lot)
  BY <1>1, <1>3, <1>4 DEF Gathers
<1>9. Completes(r, pages, all)
  BY <1>1, <1>3, <1>4 DEF Completes
<1>10. Windows(r, rows)
  <2>1. Len(rows) \in Nat
    BY SequenceLength
  <2>2. (r.page - 1) * PageSize <= Len(rows)
    BY <1>2, <2>1
  <2> QED
    BY <1>1, <1>3, <1>5, <2>2 DEF Windows
<1>11. Searches(r)
  BY <1>1, <1>3 DEF Searches
<1>12. Collects(family, r, pages, rows, all)
  BY <1>6, <1>7, <1>8, <1>9, <1>10, <1>11 DEF Collects
<1> QED
  BY <1>12 DEF r

\* What the steps of a run have in common while every request is answered.
Going(limit) ==
  /\ setting \in Settings /\ limit \in Nat /\ run.limit = limit /\ Active(run)
  /\ Readable /\ Cardinality(All) <= Lesser(limit, MaxResults)
  /\ Keeps(Family, run, limit)
  /\ Collects(Family, run, Pages, Whole, All)

\* What is there to be read at the run's next request.
Served(page) ==
  /\ Family \in Walking \ {"bidbuy"} => Reading(page, Pages, run.page, All)
  /\ Family = "bidbuy" => Posting(page, Pages, run.page, All)
  /\ Family \in Walking => (run.page >= MaxPages => All \subseteq Before(Pages, run.page))
  /\ Family = "bonfire" /\ setting.profile.landing => ~page.more
  /\ IsSequence(page.rows) /\ ~page.garbled /\ page.words = {}

LEMMA GoingOn ==
  ASSUME NEW limit, Going(limit)
  PROVE  /\ Family \in Families /\ limit \in Nat /\ Roominess(limit)
         /\ DOMAIN run = DOMAIN Idle /\ run.page \in 1..MaxPages + 1 /\ run.page \in Nat \ {0}
         /\ IsSequence(run.out) /\ run.limit = limit
<1>1. Family \in Families /\ limit \in Nat /\ run.limit = limit
  BY SettingFamily DEF Going
<1>2. Loose(run, limit, Most(Family, limit), StagesOf(Family))
  BY <1>1, KeepsLoose DEF Going
<1>3. Roominess(limit)
  BY <1>1, PortalRoom DEF Going
<1>4. /\ DOMAIN run = DOMAIN Idle /\ run.page \in 1..MaxPages + 1
      /\ IsSequence(run.out)
  BY <1>2 DEF Loose
<1>5. run.page \in Nat \ {0}
  BY <1>4, Numbers
<1> QED
  BY <1>1, <1>3, <1>4, <1>5

LEMMA GoingServed ==
  ASSUME NEW limit, Going(limit)
  PROVE  Served(PageOf(Plain))
<1> DEFINE page == PageOf(Plain)
           pages == Pages
           all == All
           n == run.page
<1>1. /\ setting \in Settings /\ Readable /\ run.limit \in Nat /\ run.page \in Nat \ {0}
      /\ IsSequence(run.out)
  BY GoingOn DEF Going
<1>2. Family \in Walking => /\ Family # "bidbuy" => Reading(page, pages, n, all)
                            /\ Family = "bidbuy" => Posting(page, pages, n, all)
  BY <1>1, PortalReads
<1>3. Family \in Walking => (n >= MaxPages => all \subseteq Before(pages, n))
  <2> SUFFICES ASSUME Family \in Walking PROVE n >= MaxPages => all \subseteq Before(pages, n)
    OBVIOUS
  <2>1. Walkable(pages, all)
    BY <1>1, PortalWalked
  <2> HIDE DEF pages, all
  <2> QED
    BY <1>1, <2>1, WalkedAll
<1>4. IsSequence(page.rows)
  BY <1>1, PageRows
<1>5. page.words = {} /\ ~page.garbled
  BY PlainPage
<1>6. Family = "bonfire" /\ setting.profile.landing => ~page.more
  <2> SUFFICES ASSUME Family = "bonfire", setting.profile.landing PROVE ~page.more
    OBVIOUS
  <2>1. pages = <<Whole>>
    BY DEF InOnePayload, Pages
  <2>2. page.more <=> n < Len(pages)
    BY PlainPage
  <2>3. Len(pages) = 1
    BY <2>1
  <2> HIDE DEF page, pages
  <2> QED
    BY <1>1, <2>2, <2>3
<1>7. "bidbuy" \in Walking
  BY DEF Walking, Families
<1> HIDE DEF page, pages, all
<1>8. Served(page)
  BY <1>2, <1>3, <1>4, <1>5, <1>6, <1>7 DEF Served, pages, all
<1> QED
  BY <1>8 DEF page

LEMMA SinglesCollected ==
  ASSUME NEW limit, Going(limit), Family \in {"webprocure", "tyler"} \cup Yielders,
         NEW page, Served(page)
  PROVE  /\ Streams(Received(page), Pages, All)
         /\ Family \in Yielders => Headed(Received(page), All)
<1> DEFINE pages == Pages
           all == All
<1>1. /\ Family \in Walking \ {"bidbuy"} /\ Family \in SingleFamilies
      /\ Active(run) /\ Family \in Families
  BY GoingOn DEF Going, Walking, SingleFamilies, Yielders
<1>2. Single(run, limit, Most(Family, limit), StagesOf(Family))
  BY <1>1 DEF Going, Keeps
<1>3. limit \in Nat /\ Roomy(all, Lesser(limit, MaxResults)) /\ Roomy(all, limit)
  BY GoingOn DEF Roominess
<1>4. Streams(run, pages, all) /\ (Family \in Yielders => Headed(run, all))
  BY DEF Going, Collects
<1>5. Headed(run, all)
  <2> SUFFICES ASSUME Family \notin Yielders PROVE Headed(run, all)
    BY <1>4
  <2>1. Sound(run, limit, Most(Family, limit), StagesOf(Family))
    BY <1>2 DEF Single
  <2>2. run.stage \in StagesOf(Family)
    BY <1>1, <2>1, SoundStage
  <2>3. run.stage # "detail"
    BY <2>2, StagesKnown
  <2> QED
    BY <2>3 DEF Headed
<1>6. /\ Reading(page, pages, run.page, all)
      /\ run.page >= MaxPages => all \subseteq Before(pages, run.page)
  BY <1>1 DEF Served
<1> HIDE DEF pages, all
<1>7. /\ Streams(Received(page), pages, all)
      /\ Family \in Yielders => Headed(Received(page), all)
  BY <1>1, <1>2, <1>3, <1>4, <1>5, <1>6, StreamsReceived
<1> QED
  BY <1>7 DEF pages, all

LEMMA FreshCollected ==
  ASSUME NEW limit, Going(limit), Family \in {"bidbuy", "rivip"}, NEW page, Served(page)
  PROVE  /\ Streams(Received(page), Pages, All)
         /\ Family = "bidbuy" => Within(Received(page), Pages)
<1> DEFINE pages == Pages
           all == All
<1>1. /\ Family \in Walking /\ Family \in FreshFamilies /\ Active(run) /\ Family \in Families
  BY GoingOn DEF Going, Walking, FreshFamilies
<1>2. Fresh(run, limit, Most(Family, limit), StagesOf(Family))
  BY <1>1 DEF Going, Keeps
<1>3. limit \in Nat /\ Roomy(all, Lesser(limit, MaxResults))
  BY GoingOn DEF Roominess
<1>4. Streams(run, pages, all) /\ (Family = "bidbuy" => Within(run, pages))
  BY DEF Going, Collects
<1>5. /\ Family = "rivip" => Reading(page, pages, run.page, all)
      /\ Family = "bidbuy" => Posting(page, pages, run.page, all)
  BY <1>1 DEF Served
<1> HIDE DEF pages, all
<1>6. Family = "bidbuy" => Streams(Received(page), pages, all) /\ Within(Received(page), pages)
  BY <1>1, <1>2, <1>3, <1>4, <1>5, BidBuyCollected
<1>7. Family = "rivip" => Streams(Received(page), pages, all)
  BY <1>1, <1>2, <1>3, <1>4, <1>5, RivipCollected
<1> QED
  BY <1>6, <1>7 DEF pages, all

LEMMA GatheringCollected ==
  ASSUME NEW limit, Going(limit), NEW page, Served(page)
  PROVE  /\ Family \in QueuedFamilies => Gathers(Received(page), Pages, All, All \cup Bad)
         /\ Family \in KeepingRow => Gathers(Received(page), Pages, All, All)
         /\ Family = "opengov" => Completes(Received(page), Pages, All)
<1> DEFINE pages == Pages
           all == All
<1>1. Family \in QueuedFamilies \cup KeepingRow \cup {"opengov"}
      => Family \in Walking \ {"bidbuy"}
  BY GoingOn DEF Walking, QueuedFamilies, KeepingRow
<1>2. /\ Active(run) /\ limit \in Nat /\ Roomy(all, Lesser(limit, MaxResults)) /\ all \cap Bad = {}
  BY GoingOn DEF Roominess, Going
<1>3. Family \in QueuedFamilies \cup KeepingRow \cup {"opengov"} =>
        /\ Reading(page, pages, run.page, all)
        /\ run.page >= MaxPages => all \subseteq Before(pages, run.page)
  BY <1>1 DEF Served
<1>4. Family = "bonfire" /\ setting.profile.landing => ~page.more
  BY DEF Served
<1>5. ASSUME Family \in QueuedFamilies
      PROVE  /\ Queued(run, limit, Most(Family, limit), StagesOf(Family))
             /\ Gathers(run, pages, all, all \cup Bad)
  BY <1>5 DEF Going, Keeps, Collects
<1>6. ASSUME Family \in KeepingRow
      PROVE  /\ Listed(run, limit, Most(Family, limit), StagesOf(Family))
             /\ Gathers(run, pages, all, all)
  BY <1>6 DEF Going, Keeps, Collects
<1>7. ASSUME Family = "opengov"
      PROVE  /\ Looking(run, limit, Most(Family, limit), StagesOf(Family))
             /\ Completes(run, pages, all)
  BY <1>7 DEF Going, Keeps, Collects
<1> HIDE DEF pages, all
<1>8. Family \in QueuedFamilies => Gathers(Received(page), pages, all, all \cup Bad)
  BY <1>2, <1>3, <1>4, <1>5, QueuedCollected
<1>9. Family \in KeepingRow => Gathers(Received(page), pages, all, all)
  BY <1>2, <1>3, <1>6, KeepingCollected
<1>10. Family = "opengov" => Completes(Received(page), pages, all)
  BY <1>2, <1>3, <1>7, OpenGovCollected
<1> QED
  BY <1>8, <1>9, <1>10 DEF pages, all

LEMMA SearchCollected ==
  ASSUME NEW limit, Going(limit), Family = "demandstar_api"
  PROVE  /\ Gathers(Received(PageOf(Plain)), Pages, All, All)
         /\ Searches(Received(PageOf(Plain)))
<1> DEFINE page == PageOf(Plain)
           pages == Pages
           all == All
           most == Most(Family, limit)
           stages == StagesOf(Family)
           next == Received(page)
<1>1. limit \in Nat /\ Roomy(all, Lesser(limit, MaxResults)) /\ IsSequence(Whole) /\ Active(run)
  BY GoingOn DEF Roominess, Going
<1>2. Gathers(run, pages, all, all) /\ Searches(run)
  BY DEF Going, Collects
<1>3. Queued(run, limit, most, stages)
  <2>1. Sound(run, limit, most, stages)
    BY DEF Going, Keeps
  <2> HIDE DEF most, stages
  <2> QED
    BY <1>2, <2>1 DEF Searches, Queued
<1>4. IsSequence(page.rows) /\ ~page.garbled /\ page.words = {}
  BY GoingServed DEF Served
<1>5. run.stage # "detail" => all = Ids(UsableRows(page.rows)) /\ Distinct(UsableRows(page.rows))
  <2> SUFFICES ASSUME run.stage # "detail"
               PROVE  all = Ids(UsableRows(page.rows)) /\ Distinct(UsableRows(page.rows))
    OBVIOUS
  <2>1. run.page = 1
    BY <1>1, <1>2 DEF Searches
  <2>2. pages = <<Whole>>
    BY DEF InOnePayload, Pages
  <2>3. page.rows = At(pages, run.page)
    BY PlainPage
  <2>4. At(pages, 1) = Whole
    BY <2>2 DEF At
  <2>5. page.rows = Whole
    BY <2>1, <2>3, <2>4
  <2>6. Cardinality(Ids(UsableRows(Whole))) = Len(UsableRows(Whole))
    BY DEF Going, Readable
  <2>7. IsSequence(UsableRows(Whole))
    BY <1>1, UsableIds
  <2>8. Distinct(UsableRows(Whole))
    BY <2>6, <2>7, CountedDistinct
  <2> QED
    BY <2>5, <2>8 DEF All
<1> HIDE DEF page, pages, all
<1>6. /\ Queued(Received(page), limit, Most(Family, limit), StagesOf(Family))
      /\ Gathers(Received(page), pages, all, all)
      /\ Active(Received(page)) => Received(page).stage = "detail"
  BY <1>1, <1>2, <1>3, <1>4, <1>5, DemandStarCollected
<1>7. Searches(Received(page))
  BY <1>6 DEF Searches, Queued
<1> QED
  BY <1>6, <1>7 DEF page, pages, all

LEMMA WindowsCollected ==
  ASSUME NEW limit, Going(limit), Family = "oracle"
  PROVE  Windows(Received(PageOf(Plain)), Whole) /\ All = Ids(Whole)
<1> DEFINE page == PageOf(Plain)
           rows == Whole
           most == Most(Family, limit)
           stages == StagesOf(Family)
<1>1. /\ limit \in Nat /\ Roomy(All, Lesser(limit, MaxResults)) /\ All \cap Bad = {}
      /\ IsSequence(rows) /\ Active(run) /\ Cardinality(All) <= Lesser(limit, MaxResults)
  BY GoingOn DEF Roominess, Going
<1>2. /\ Cardinality(Ids(UsableRows(rows))) = Len(UsableRows(rows)) /\ UsableRows(rows) = rows
      /\ Len(rows) <= MaxPages * PageSize
  BY DEF Going, Readable
<1>3. All = Ids(rows) /\ Cardinality(Ids(rows)) = Len(rows)
  BY <1>2 DEF All
<1>4. Distinct(rows)
  BY <1>1, <1>3, CountedDistinct
<1>5. Len(rows) <= Lesser(limit, MaxResults)
  BY <1>1, <1>3
<1>6. Windows(run, rows)
  BY DEF Going, Collects
<1>7. Single(run, limit, most, stages)
  BY DEF Going, Keeps, SingleFamilies
<1>8. most \in Nat /\ Lesser(limit, MaxResults) <= most
  BY <1>1, MostBounds
<1>9. stages = {"page"}
  BY StagesKnown
<1>10. /\ ~page.garbled /\ page.rows = OracleWindow(run, rows).rows
       /\ (page.more <=> OracleWindow(run, rows).more)
  BY PlainPage
<1> HIDE DEF page, rows, most, stages
<1>11. run.stage \in stages
  <2>1. Sound(run, limit, most, stages)
    BY <1>7 DEF Single
  <2> QED
    BY <1>1, <2>1, SoundStage
<1>12. run.stage = "page" /\ "detail" \notin stages
  BY <1>9, <1>11
<1>13. Received(page) = OraclePage(run, page)
  <2>1. Received(page) = Listing(page)
    BY <1>12, ReceivedBy
  <2> QED
    BY <2>1 DEF Listing
<1>14. Ids(rows) \cap Bad = {} /\ Roomy(Ids(rows), Lesser(limit, MaxResults))
  BY <1>1, <1>3
<1>15. Windows(OraclePage(run, page), rows)
  BY <1>1, <1>2, <1>4, <1>5, <1>6, <1>7, <1>8, <1>10, <1>11, <1>12, <1>14, OraclePageWindows
<1> QED
  BY <1>3, <1>13, <1>15 DEF page, rows

LEMMA CollectsReceived ==
  ASSUME NEW limit, Going(limit)
  PROVE  Collects(Family, Received(PageOf(Plain)), Pages, Whole, All)
<1> DEFINE page == PageOf(Plain)
           next == Received(page)
           pages == Pages
           all == All
<1>1. Served(page)
  BY GoingServed
<1>2. Family \in {"webprocure", "tyler"} \cup Yielders =>
        /\ Streams(next, pages, all)
        /\ Family \in Yielders => Headed(next, all)
  BY <1>1, SinglesCollected
<1>3. Family \in {"bidbuy", "rivip"} =>
        /\ Streams(next, pages, all)
        /\ Family = "bidbuy" => Within(next, pages)
  BY <1>1, FreshCollected
<1>4. /\ Family \in QueuedFamilies => Gathers(next, pages, all, all \cup Bad)
      /\ Family \in KeepingRow => Gathers(next, pages, all, all)
      /\ Family = "opengov" => Completes(next, pages, all)
  BY <1>1, GatheringCollected
<1>5. Family = "demandstar_api" => Gathers(next, pages, all, all) /\ Searches(next)
  BY SearchCollected
<1>6. Family = "oracle" => Windows(next, Whole)
  BY WindowsCollected
<1> HIDE DEF next, pages, all
<1>7. Collects(Family, next, pages, Whole, all)
  BY <1>2, <1>3, <1>4, <1>5, <1>6 DEF Collects
<1> QED
  BY <1>7 DEF next, page, pages, all

\* A run that has sent a request, and what it has found while all were answered.
Begun(r) == Active(r) \/ r.stage # None

CollectInv ==
  /\ met = {} /\ Readable /\ Begun(run)
  /\ Cardinality(All) <= Lesser(run.limit, MaxResults)
  => Collects(Family, run, Pages, Whole, All)

LEMMA OpenAsked ==
  ASSUME Family \in Families, Open
  PROVE  Family \in PerRequest
BY DEF Open, PerRequest, Families

LEMMA CollectInit == Init => CollectInv
<1>1. ~Begun(Idle)
  BY DEF Begun, Active, Idle
<1> QED
  BY <1>1 DEF Init, CollectInv

LEMMA CollectsStarted ==
  ASSUME setting \in Settings, NEW query, query.limit \in Nat, Begun(Started(query))
  PROVE  Collects(Family, Started(query), Pages, Whole, All)
<1> DEFINE s == Started(query)
<1>1. Opened(query, s)
  BY SettingFamily, StartedOpened
<1>2. ~Begun(Returned(query)) /\ \A why : ~Begun(Refused(query, why))
  BY Fields DEF Begun, Active, Returned, Refused, Idle
<1> HIDE DEF s
<1>3. Begun(s)
  BY DEF s
<1>4. PICK stage \in StagesOf(Family) \ {"detail"} : s = Asking(query, stage)
  BY <1>1, <1>2, <1>3 DEF Opened
<1>5. IsSequence(Whole)
  BY WholeRows
<1> DEFINE pages == Pages
           all == All
<1> HIDE DEF pages, all
<1>6. Collects(Family, Asking(query, stage), pages, Whole, all)
  BY <1>4, <1>5, CollectsAsking
<1> QED
  BY <1>4, <1>6 DEF s, pages, all

LEMMA CollectsAnswered ==
  ASSUME RunsInv, CollectInv, NEW answer \in Answers, Answer(answer), met' = {},
         Readable, Cardinality(All) <= Lesser(run.limit, MaxResults)
  PROVE  Collects(Family, run', Pages, Whole, All)
<1> DEFINE retried == VerdictOf(answer).what = "again" /\ run.attempt < MaxRetries
           next == Received(PageOf(Plain))
<1>1. /\ Active(run) /\ met' = met \cup Met(answer, retried)
  BY DEF Answer
<1>2. met = {} /\ Met(answer, retried) = {}
  BY <1>1
<1>3. answer = Plain
  BY <1>2 DEF Met
<1>4. Family \in Families /\ run.limit \in Nat /\ Keeps(Family, run, run.limit) /\ setting \in Settings
  BY SettingFamily DEF RunsInv, RunInv
<1>5. Collects(Family, run, Pages, Whole, All)
  BY <1>1, <1>2 DEF CollectInv, Begun
<1>6. Going(run.limit)
  BY <1>1, <1>4, <1>5 DEF Going
<1>7. VerdictOf(answer).what = "page"
  BY <1>3, <1>4, PlainIsPage
<1>8. PICK after : Followed(after, answer) /\ \E wake : run' = Dress(after, wake)
  BY AnswerFollowed
<1>9. after = next
  BY <1>3, <1>7, <1>8 DEF Followed
<1>10. PICK wake : run' = Dress(next, wake)
  BY <1>8, <1>9
<1>11. Collects(Family, next, Pages, Whole, All)
  BY <1>6, CollectsReceived
<1>12. DOMAIN next = DOMAIN Idle
  <2>1. Keeps(Family, next, run.limit)
    BY <1>1, <1>8, <1>9, FollowedKept
  <2> HIDE DEF next
  <2> QED
    BY <1>4, <2>1, KeepsLoose DEF Loose
<1> DEFINE pages == Pages
           all == All
<1> HIDE DEF next, pages, all
<1>13. Collects(Family, next, pages, Whole, all)
  BY <1>11 DEF pages, all
<1>14. Collects(Family, Dress(next, wake), pages, Whole, all)
  BY <1>12, <1>13, CollectsDressed
<1> QED
  BY <1>10, <1>14 DEF pages, all

LEMMA CollectsRefused ==
  ASSUME RunsInv, Open, Collects(Family, run, Pages, Whole, All)
  PROVE  Collects(Family, Stopped("circuit"), Pages, Whole, All)
<1> DEFINE pages == Pages
           all == All
           most == Most(Family, run.limit)
           stages == StagesOf(Family)
<1>1. /\ Family \in Families /\ DOMAIN run = DOMAIN Idle
      /\ run.limit \in Nat /\ Keeps(Family, run, run.limit)
  BY RunFields DEF RunsInv, RunInv
<1>2. Family \in PerRequest
  BY <1>1, OpenAsked
<1>3. Loose(run, run.limit, most, stages) /\ most \in Nat
  BY <1>1, KeepsLoose, MostBounds
<1>4. Collects(Family, run, pages, Whole, all)
  OBVIOUS
<1> HIDE DEF pages, all, most, stages
<1>5. CASE Family # "demandstar_api"
  <2>1. Stopped("circuit") = Failed(run, "circuit")
    BY <1>2, <1>5 DEF Stopped, PerRequest
  <2>2. Collects(Family, Failed(run, "circuit"), pages, Whole, all)
    BY <1>1, <1>4, <1>5, CollectsFailed
  <2> QED
    BY <2>1, <2>2 DEF pages, all
<1>6. CASE Family = "demandstar_api"
  <2> DEFINE q == DemandStarLost(run, "circuit")
  <2>1. Stopped("circuit") = q
    BY <1>6 DEF Stopped
  <2>2. Queued(q, run.limit, most, stages) /\ Gathers(q, pages, all, all)
    BY <1>3, LostQueued
  <2>3. ~Active(q)
    BY <1>1, <1>2, StoppedEnds, <2>1
  <2> HIDE DEF q
  <2>4. Searches(q)
    BY <2>2, <2>3 DEF Queued, Searches
  <2>5. Collects(Family, q, pages, Whole, all)
    BY <1>6, <2>2, <2>4 DEF Collects, Yielders, QueuedFamilies, KeepingRow
  <2> QED
    BY <2>1, <2>5 DEF pages, all
<1> QED
  BY <1>5, <1>6

LEMMA CollectNext == RunsInv /\ CollectInv /\ [Next]_vars => CollectInv'
<1> SUFFICES ASSUME RunsInv, CollectInv, [Next]_vars PROVE CollectInv'
  OBVIOUS
<1>1. setting' = setting
  BY DEF Next, vars, Discover, HealthCheck, Answered, Answer, Refuse, Tick
<1>2. Family' = Family /\ Whole' = Whole
  BY <1>1 DEF Family, Whole
<1>3. InOnePayload' <=> InOnePayload
  BY <1>1, <1>2 DEF InOnePayload
<1>4. Pages' = Pages /\ All' = All
  BY <1>1, <1>2, <1>3 DEF Pages, All
<1>5. InPages' <=> InPages
  BY <1>1, <1>2 DEF InPages
<1>6. Readable' <=> Readable
  BY <1>1, <1>2, <1>5 DEF Readable
<1> SUFFICES ASSUME met' = {}, Readable, Begun(run)', Cardinality(All) <= Lesser(run'.limit, MaxResults)
             PROVE  Collects(Family, run', Pages, Whole, All)
  BY <1>2, <1>4, <1>6 DEF CollectInv
<1>7. RunsInv'
  BY RunsNext
<1>8. /\ setting \in Settings /\ Family \in Families /\ run.limit \in Nat
      /\ Keeps(Family, run, run.limit)
  BY SettingFamily DEF RunsInv, RunInv
<1>9. ASSUME NEW query \in Queries, Discover(query) PROVE Collects(Family, run', Pages, Whole, All)
  <2>1. run' = Started(query) /\ query.limit \in Nat
    BY <1>9, QueriesLimited DEF Discover
  <2>2. Begun(Started(query))
    BY <2>1 DEF Begun, Active
  <2> QED
    BY <1>8, <2>1, <2>2, CollectsStarted
<1>10. ASSUME run' = run, met' = met PROVE Collects(Family, run', Pages, Whole, All)
  <2>1. Begun(run)
    BY <1>10 DEF Begun, Active
  <2> QED
    BY <1>10, <2>1 DEF CollectInv
<1>11. ASSUME NEW answer \in Answers, Answer(answer)
       PROVE  Collects(Family, run', Pages, Whole, All)
  <2>1. Active(run)
    BY <1>11 DEF Answer
  <2>2. PICK next : Followed(next, answer) /\ \E wake : run' = Dress(next, wake)
    BY <1>11, AnswerFollowed
  <2>3. PICK wake : run' = Dress(next, wake)
    BY <2>2
  <2>4. Keeps(Family, next, run.limit)
    BY <2>1, <2>2, FollowedKept
  <2>5. Keeps(Family, Dress(next, wake), run.limit)
    BY <1>8, <2>4, Dressed
  <2>6. run'.limit = run.limit
    BY <1>8, <2>3, <2>5, KeepsLoose DEF Loose
  <2> QED
    BY <1>11, <2>6, CollectsAnswered
<1>12. ASSUME Refuse PROVE Collects(Family, run', Pages, Whole, All)
  <2>1. run' = Stopped("circuit") /\ Active(run) /\ Open /\ met' = met
    BY <1>12 DEF Refuse
  <2>2. Keeps(Family, Stopped("circuit"), run.limit)
    BY <1>8, <2>1, KeepsStopped
  <2>3. Stopped("circuit").limit = run.limit
    BY <1>8, <2>2, KeepsLoose DEF Loose
  <2>4. Collects(Family, run, Pages, Whole, All)
    BY <2>1, <2>3 DEF CollectInv, Begun
  <2> QED
    BY <2>1, <2>4, CollectsRefused
<1>13. HealthCheck \/ Tick \/ UNCHANGED vars => run' = run /\ met' = met
  BY DEF HealthCheck, Tick, vars
<1> QED
  BY <1>9, <1>10, <1>11, <1>12, <1>13 DEF Next, Answered

\* A run whose every request was answered as it should has found, at its end,
\* all that the portal lists, however the class walks the listing: no row of a
\* page, and no page, is skipped, whatever the rows, the pages and the bounds,
\* once these leave room for all there is and the class can read the listing.
THEOREM AllIsCollected == Spec => []CollectedAll
<1>1. RunsInv /\ CollectInv => CollectedAll
  <2> SUFFICES ASSUME RunsInv, CollectInv, run.state = "done", run.stage # None, met = {}, Readable,
                      Cardinality(All) <= Lesser(run.limit, MaxResults)
               PROVE  All \ Misses \subseteq Ids(run.out)
    BY DEF CollectedAll, All
  <2>1. Family \in Families
    BY RunFields
  <2> DEFINE pages == Pages
             rows == Whole
             all == All
  <2>2. Collects(Family, run, pages, rows, all)
    BY DEF CollectInv, Begun
  <2>3. Family = "oracle" => all = Ids(rows)
    BY DEF Readable, All
  <2> HIDE DEF pages, rows, all
  <2>4. (IF Family = "oracle" THEN Ids(rows) ELSE all) \ Misses \subseteq Ids(run.out)
    BY <2>1, <2>2, CollectsFound
  <2>5. all \ Misses \subseteq Ids(run.out)
    BY <2>3, <2>4
  <2> QED
    BY <2>5 DEF all
<1> QED
  BY <1>1, CollectInit, CollectNext, RunsAreKept, PTL DEF Spec
==============================================================================
