------------------------- MODULE OpportunityIngestion -------------------------
(***************************************************************************)
(* OpportunityService.ingest (services/opportunity_service.py): a notice   *)
(* of a portal is normalized and upserted by SqlAlchemyOpportunityRepository *)
(* (db/repositories.py), which commits it, and then its documents are      *)
(* ingested in a transaction that the caller commits.                      *)
(*                                                                         *)
(* The documents are those of one opportunity.  The columns that are       *)
(* copied from a notice are one value, the notice.                         *)
(***************************************************************************)
EXTENDS DocumentIngestion, OpportunityIdentity

CONSTANTS
  Settings,    \* what a behaviour is about: [notices, running, lists]
  MaxNotices,  \* a bound on the notices of a setting
  MaxFaults    \* a bound on failures

ASSUME FaultsAssumption == MaxFaults \in Nat

VARIABLES
  setting,      \* the notices, in a sequence; the collectors that run; the
                \* candidate lists that come with a notice
  opportunity,  \* committed rows of opportunities, by source identity
  call,         \* collector -> the call of ingest before its documents
  faults

callVars == <<setting, opportunity, call, faults>>
everything == <<vars, callVars>>

NoCall == [pc |-> "idle", notice |-> None, found |-> FALSE]

Inited ==
  /\ Init
  /\ setting \in Settings
  /\ opportunity = [o \in {} |-> None]
  /\ call = [p \in Collector |-> NoCall]
  /\ faults = 0

\* normalize, and the query of upsert.
Receive(p, i) ==
  /\ call[p].pc = "idle" /\ tx[p].pc = "idle"
  /\ i \in DOMAIN setting.notices
  /\ LET n == setting.notices[i] IN
       /\ SourceIdentity(n) # Unsaid
       /\ call' = [call EXCEPT ![p] =
            [pc |-> "upsert", notice |-> n, found |-> Opportunity(n) \in DOMAIN opportunity]]
  /\ UNCHANGED <<vars, setting, opportunity, faults>>

\* One of the two unique constraints is against the flush.
Collides(p) ==
  LET n == call[p].notice IN
  \/ ~call[p].found /\ Opportunity(n) \in DOMAIN opportunity
  \/ \E o \in DOMAIN opportunity \ {Opportunity(n)} : opportunity[o].key = CanonicalKey(n)

\* upsert's commit: the row is inserted or updated.
Upsert(p) ==
  LET n == call[p].notice IN
  /\ call[p].pc = "upsert" /\ ~Collides(p)
  /\ opportunity' = (Opportunity(n) :> [key |-> CanonicalKey(n), notice |-> n]) @@ opportunity
  /\ call' = [call EXCEPT ![p].pc = "documents"]
  /\ UNCHANGED <<vars, setting, faults>>

\* The commit raises: the caller has nothing to go on with.
UpsertFails(p) ==
  /\ call[p].pc = "upsert" /\ Collides(p)
  /\ call' = [call EXCEPT ![p] = NoCall]
  /\ UNCHANGED <<vars, setting, opportunity, faults>>

\* For comparison: the documents of new opportunities only.
BeginNew(p) ==
  /\ call[p].pc = "documents"
  /\ IF call[p].found THEN UNCHANGED vars
     ELSE \E list \in setting.lists : Offer(p, list)
  /\ call' = [call EXCEPT ![p] = NoCall]
  /\ UNCHANGED <<setting, opportunity, faults>>

\* document_ingestor.ingest, which finds the parent row.
Begin(p) ==
  /\ call[p].pc = "documents" /\ Opportunity(call[p].notice) \in DOMAIN opportunity
  /\ \E list \in setting.lists : Offer(p, list)
  /\ call' = [call EXCEPT ![p] = NoCall]
  /\ UNCHANGED <<setting, opportunity, faults>>

\* A step of the ingestion of documents.
Ingest(p) ==
  /\ Skip(p) \/ Lookup(p) \/ Write(p) \/ InsertConflicts(p) \/ Place(p) \/ Commit(p)
  /\ UNCHANGED callVars

\* The process dies or loses its connection, between two transactions or in one.
Fault(p) ==
  /\ faults < MaxFaults
  /\ faults' = faults + 1
  /\ \/ call[p].pc # "idle" /\ UNCHANGED vars
     \/ Rollback(p)
  /\ call' = [call EXCEPT ![p] = NoCall]
  /\ UNCHANGED <<setting, opportunity>>

Proceed(p) == Upsert(p) \/ UpsertFails(p) \/ Begin(p) \/ Ingest(p)

Collect ==
  \E p \in setting.running :
    \/ \E i \in 1..MaxNotices : Receive(p, i)
    \/ Proceed(p) \/ Fault(p)

\* A collector that runs comes to its end, and every notice that a portal goes
\* on showing is found again and again.
Collection ==
  /\ Inited /\ [][Collect]_everything
  /\ \A p \in Collector : WF_everything(p \in setting.running /\ Proceed(p))
  /\ \A i \in 1..MaxNotices : SF_everything(\E p \in setting.running : Receive(p, i))

-----------------------------------------------------------------------------
\* Portals whose family identifies a notice by its own number alone.
Unscoped == {"webprocure", "periscope"}

\* Two notices of one portal whose numbers differ in case or punctuation only.
Alike(n, m) ==
  LET Words(text) == IF text = Unsaid THEN <<>> ELSE text.words
  IN /\ n.portal = m.portal /\ n.kind = m.kind
     /\ IF n.id # Unsaid \/ m.id # Unsaid THEN Words(n.id) = Words(m.id)
        ELSE Words(n.agency) \o Words(n.number) = Words(m.agency) \o Words(m.number)

Apart(i) ==
  LET n == setting.notices[i] IN
  \A j \in DOMAIN setting.notices \ {i} :
    LET m == setting.notices[j] IN
    /\ ~Alike(n, m)
    /\ m.portal # n.portal /\ n.id # Unsaid /\ n.id = m.id => n.portal.family \notin Unscoped

\* The row of the notice shows it, and its documents are in the manifest.
Kept(i) ==
  LET n == setting.notices[i]
      o == Opportunity(n)
  IN /\ o \in DOMAIN opportunity /\ opportunity[o].notice = n
     /\ manifest # NoRows \/ setting.lists = {<<>>}

\* A notice that a portal goes on showing is at last kept for good, with its
\* documents, whatever else the portals of its family show: neither a notice
\* of another portal with the same number nor a failure between the two commits
\* takes its place in the table away.  It is not so, for notices told apart by
\* case or punctuation only (the canonical key of the second one is taken), and
\* for the families that do not qualify their identifiers by the portal.
EveryNoticeKept ==
  \A i \in 1..MaxNotices :
    <>[](i \in DOMAIN setting.notices
           => (SourceIdentity(setting.notices[i]) # Unsaid /\ Apart(i) => Kept(i)))
================================================================================
