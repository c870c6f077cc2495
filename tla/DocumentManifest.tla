--------------------------- MODULE DocumentManifest ---------------------------
(***************************************************************************)
(* DocumentManifestService.upsert (services/document_manifest.py): the     *)
(* rows of solicitation_documents of one opportunity, their identities,    *)
(* and what an upsert makes of a row and of its siblings.                  *)
(*                                                                         *)
(* A version text is a natural number: 0 is "no version" ("base"), and a   *)
(* label that spells a version number is that number.                      *)
(***************************************************************************)
EXTENDS Integers

CONSTANTS
  Candidate,  \* DocumentCandidates of the opportunity
  None        \* NULL

\* source: source_document_id; url: the canonical URL (or, where there is none,
\* the file name); eligible: likely a solicitation document, public, safe URL.
ASSUME ManifestAssumption ==
  \A c \in Candidate :
    /\ DOMAIN c = {"source", "url", "category", "label", "number", "eligible"}
    /\ c.label \in Nat
    /\ c.number \in Nat \cup {None}
    /\ c.eligible \in BOOLEAN

Stable(c) == IF c.source # None THEN c.source ELSE c.url

VersionText(c) == IF c.number # None THEN c.number ELSE c.label

\* identity_key: what makes a candidate the same row when it is found again.
Identity(c) == <<Stable(c), VersionText(c)>>

\* logical_document_key: what makes rows versions of one document.
Logical(c) == <<c.category, Stable(c)>>

\* version_number or 0
Rank(c) == IF c.number = None THEN 0 ELSE c.number

\* Candidates of one identity belong to the same document under the same number,
\* and a document has no two versions of the same number.
VersionsNumbered ==
  \A b, c \in Candidate :
    Identity(b) = Identity(c) <=> Logical(b) = Logical(c) /\ Rank(b) = Rank(c)

Document == {Identity(c) : c \in Candidate}

Row == [ found        : Candidate,   \* the columns copied from the candidate
         current      : BOOLEAN,
         supersededBy : Document \cup {None},
         supersedes   : Document \cup {None} ]

------------------------------------------------------------------------------

Inserted(c) ==
  [found |-> c, current |-> TRUE, supersededBy |-> None, supersedes |-> None]

\* Every rediscovery makes the row current; the siblings may revoke it.
Rediscovered(row, c) == [row EXCEPT !.found = c, !.current = TRUE]

Siblings(rows, id) ==
  {s \in DOMAIN rows \ {id} : Logical(rows[s].found) = Logical(rows[id].found)}

\* For comparison: whatever is found last is the newest.
OlderAlways(sibling, row) == TRUE

\* For comparison: of two equal versions neither is the older.
OlderStrict(sibling, row) == Rank(sibling.found) < Rank(row.found)

Older(sibling, row) == Rank(sibling.found) <= Rank(row.found)

Superseded(sibling, id) == [sibling EXCEPT !.current = FALSE, !.supersededBy = id]

\* For comparison: a newer sibling does not revoke the row.
PlacedRegardless(row, siblings, last) ==
  [row EXCEPT !.supersedes = IF last = None THEN @ ELSE last]

\* The row after its siblings have been looked at: `last` is the older sibling
\* that came last (the query has no order), None unless the row is new.
Placed(row, siblings, last) ==
  [row EXCEPT !.current = @ /\ \A s \in siblings : Older(s, row),
              !.supersedes = IF last = None THEN @ ELSE last]

\* The UPDATE of a row: the columns whose value in the session has changed
\* since it was read; every other column keeps what the database has.
Flushed(database, was, is) ==
  [ found        |-> IF is.found # was.found THEN is.found ELSE database.found,
    current      |-> IF is.current # was.current THEN is.current ELSE database.current,
    supersededBy |-> IF is.supersededBy # was.supersededBy
                       THEN is.supersededBy ELSE database.supersededBy,
    supersedes   |-> IF is.supersedes # was.supersedes
                       THEN is.supersedes ELSE database.supersedes ]
==============================================================================
