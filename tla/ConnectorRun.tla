----------------------------- MODULE ConnectorRun -----------------------------
(***************************************************************************)
(* What the connectors of sled_aggregator.connectors have in common: one   *)
(* run of discover() as a record, the rows a portal lists, the answers it  *)
(* gives, the health a connector keeps between runs, and the moves every   *)
(* discover() is built from.  There are no variables here: a connector     *)
(* module says, as operators over these records, what its class does, and  *)
(* ConnectorDiscovery lets them run.                                        *)
(***************************************************************************)
EXTENDS Naturals, Sequences, FiniteSets, SequencesExt

CONSTANTS
  None,
  MaxRetries,   \* further attempts of one request (max_retries, retries)
  MaxPages,     \* pages of one run (max_pages, maximum_pages)
  MaxDetails,   \* detail requests of one run, where the class has such a bound
  MaxResults,   \* records of one run, where the class has such a bound
  PageSize,     \* rows of a full page
  Threshold,    \* failures that open the circuit
  Cooldown,     \* how long it stays open
  Untitled,     \* identifiers of rows that lack a required field
  Misses,       \* identifiers of records that meet no criterion of any query
  Brief         \* identifiers of rows a listing shows without their description

ASSUME ConnectorBounds ==
  /\ {MaxRetries, Cooldown} \subseteq Nat
  /\ {MaxPages, MaxDetails, MaxResults, PageSize, Threshold} \subseteq Nat \ {0}
ASSUME NoneIsNoTime == None \notin Nat

-----------------------------------------------------------------------------
(* A run.  `held` are the rows collected so far, `queue` the ones whose     *)
(* detail page is still to be asked, `ends` says that no page follows the   *)
(* one in hand, `renewed` that the session was, `out` are the records       *)
(* yielded.                                                                  *)

Idle ==
  [state |-> "idle", stage |-> None, page |-> 1, attempt |-> 0, wake |-> 0,
   limit |-> 0, wanted |-> {}, held |-> <<>>, queue |-> <<>>, details |-> 0, marks |-> {},
   ends |-> FALSE, renewed |-> FALSE, out |-> <<>>, why |-> None]

\* A run of a query, about to send the first request of the given stage.
Asking(query, stage) ==
  [Idle EXCEPT !.state = "asking", !.stage = stage,
               !.limit = query.limit, !.wanted = query.wanted]

Returned(query) == [Idle EXCEPT !.state = "done", !.limit = query.limit, !.wanted = query.wanted]
Refused(query, why) == [Returned(query) EXCEPT !.state = "failed", !.why = why]

Active(run) == run.state = "asking"
Done(run) == [run EXCEPT !.state = "done", !.attempt = 0, !.held = <<>>, !.queue = <<>>, !.marks = {}]
Failed(run, why) == [Done(run) EXCEPT !.state = "failed", !.why = why]
NextPage(run) == [run EXCEPT !.page = @ + 1, !.attempt = 0]
ToStage(run, stage) == [run EXCEPT !.stage = stage, !.attempt = 0]
LastPage(run) == run.page >= MaxPages

-----------------------------------------------------------------------------
(* Rows and records.  A row is [id, round, says]: the round (version) of    *)
(* the record it shows and the words of its status text.                    *)

Ids(rows) == {rows[i].id : i \in DOMAIN rows}
Usable(row) == row.id # None /\ row.id \notin Untitled

IsSequence(s) == s \in Seq(ToSet(s))

\* The rows of other identifiers, in their order.
Without(rows, ids) ==
  FlattenSeq([i \in DOMAIN rows |-> IF rows[i].id \in ids THEN <<>> ELSE <<rows[i]>>])
Known(rows) == Without(rows, {None})
UsableRows(rows) == Without(rows, {None} \cup Untitled)

\* dict.setdefault, d[id] = row, and the list of rounds kept per id.
KeepFirst(held, row) == IF row.id \in Ids(held) THEN held ELSE Append(held, row)
KeepLast(held, row) ==
  IF row.id \notin Ids(held) THEN Append(held, row)
  ELSE [i \in DOMAIN held |-> IF held[i].id = row.id THEN row ELSE held[i]]
KeepNewest(held, row) ==
  IF row.id \notin Ids(held) THEN Append(held, row)
  ELSE [i \in DOMAIN held |->
          IF held[i].id = row.id /\ held[i].round < row.round THEN row ELSE held[i]]

\* The criteria a connector filters on itself; the others it leaves to the portal.
Meets(row, wanted, criteria) == (wanted \cap criteria) = {} \/ row.id \notin Misses
Meeting(rows, wanted, criteria) ==
  IF (wanted \cap criteria) = {} THEN rows ELSE Without(rows, Misses)

\* The value of the first entry of a table <<value, words>> with a word of the text.
FirstNamed(table, text, default) ==
  LET hits == {i \in DOMAIN table : table[i][2] \cap text # {}}
  IN IF hits = {} THEN default ELSE table[CHOOSE i \in hits : \A j \in hits : i <= j][1]

Yield(run, row, status) ==
  [run EXCEPT !.out = Append(@, [id |-> row.id, round |-> row.round, status |-> status])]
\* For comparison: one record too many.
FullLate(run, bound) == Len(run.out) > bound

Full(run, bound) == Len(run.out) >= bound
Lesser(m, n) == IF m <= n THEN m ELSE n
Greater(m, n) == IF m >= n THEN m ELSE n

-----------------------------------------------------------------------------
(* Answers.  An answer is [status, words, after]: an HTTP status (Lost      *)
(* when the transport raised), the markers of an access boundary its text   *)
(* shows, and the Retry-After it carries.  A page is what the parser finds  *)
(* in it.  A verdict is what a request method makes of an answer.           *)

Busy == {429, 502, 503, 504}
Lost == 0

Page(access) == [what |-> "page", access |-> access, counts |-> FALSE, why |-> None]
Again(access, counts) == [what |-> "again", access |-> access, counts |-> counts, why |-> "unavailable"]
Stop(access, why) == [what |-> "stop", access |-> access, counts |-> FALSE, why |-> why]
Counted(verdict) == [verdict EXCEPT !.counts = TRUE]
Unchanged == "unchanged"

-----------------------------------------------------------------------------
(* Health: the failures counted, the time of the last one, the access       *)
(* state reported, and whether a session is open.                            *)

Healthy == [failures |-> 0, last |-> None, access |-> "unknown", ready |-> FALSE]
Failure(health, now) == [health EXCEPT !.failures = @ + 1, !.last = now]
Cleared(health) == [health EXCEPT !.failures = 0, !.last = None]
OpenUntilCooldown(health, now) ==
  /\ health.failures >= Threshold
  /\ health.last # None
  /\ now < health.last + Cooldown

\* How long a request waits for its next attempt: the exponential delay is
\* below the model's unit of time, a Retry-After is not.
LongerOf(after) == IF after = None THEN 0 ELSE Greater(0, after)

-----------------------------------------------------------------------------
(* Documents.  A link is [id, url, access, words, round]; a url is          *)
(* [scheme, host, user, path, noise], noise being the query material that   *)
(* a canonical form drops.  A candidate is what a connector offers for it.  *)

Https(url) == url.scheme = "https" /\ ~url.user
Candidate(link, id, access, public, round) ==
  [id |-> id, url |-> link.url, access |-> access, public |-> public, round |-> round]
================================================================================
