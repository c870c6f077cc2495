-------------------------- MODULE IntelligenceWorker --------------------------
(***************************************************************************)
(* The intelligence worker (documents/intelligence_worker.py, run_once)    *)
(* and SolicitationIntelligenceService.extract, beside the extraction      *)
(* worker whose texts they read.                                           *)
(*                                                                         *)
(* A run selects the oldest current extractions, whether they have been    *)
(* understood or not, without a lock; it goes through them in one          *)
(* transaction and commits once, at the end.  Its insert of a row that     *)
(* another has inserted waits for the end of the other's transaction; if   *)
(* that commits, it fails, and with it the whole batch.                    *)
(*                                                                         *)
(* The documents are those of one opportunity.                             *)
(***************************************************************************)
EXTENDS ExtractionWorker, SolicitationFacts

CONSTANTS
  None,          \* that an artifact has no run
  TextOf,        \* artifact -> the blocks of its text
  Warned,        \* artifacts whose text was extracted with warnings
  Descriptions,  \* what the documents may be called: document -> words of its type, title...
  Reader,        \* processes that run the intelligence worker
  ReaderBatch    \* solicitation_intelligence_batch_size

ASSUME ReaderAssumption == ReaderBatch \in Nat \ {0}

\* A text is a sequence of blocks, which have values for fields of the table.
ASSUME TextsRead ==
  \A a \in Artifact :
    /\ TextOf[a] \in Seq(ToSet(TextOf[a]))
    /\ \A b \in DOMAIN TextOf[a] : DOMAIN TextOf[a][b].labels \subseteq ToSet(Labels)

VARIABLES
  order,       \* the extractions, by created_at
  run,         \* extraction -> its committed solicitation_extraction_run, or None
  reader       \* reader -> its run and transaction

readerVars == <<run, reader>>
all == <<vars, order, run, reader>>

Waiting == [pc |-> "idle", batch |-> <<>>, written |-> {}]

IntelligenceInit ==
  /\ Init
  /\ order = <<>>
  /\ run = [a \in Artifact |-> None]
  /\ reader = [r \in Reader |-> Waiting]

-----------------------------------------------------------------------------
(* The intelligence worker.                                                *)

InReading(r) == Head(reader[r].batch)
Read == {a \in Artifact : run[a] # None}

\* The current extractions in the order in which a run selects them.
InTurn == SelectSeq(order, LAMBDA a : a \in current)

\* For comparison: the newest extractions first.
SelectNewest(r) ==
  /\ reader[r].pc = "idle"
  /\ InTurn # <<>>
  /\ reader' = [reader EXCEPT ![r] =
       [Waiting EXCEPT !.pc = "next", !.batch = First(Reverse(InTurn), ReaderBatch)]]
  /\ UNCHANGED <<vars, order, run>>

Select(r) ==
  /\ reader[r].pc = "idle"
  /\ InTurn # <<>>
  /\ reader' = [reader EXCEPT ![r] =
       [Waiting EXCEPT !.pc = "next", !.batch = First(InTurn, ReaderBatch)]]
  /\ UNCHANGED <<vars, order, run>>

\* A successful run with the identity exists.
ReuseRun(r) ==
  /\ reader[r].pc = "next" /\ reader[r].batch # <<>>
  /\ InReading(r) \in Read
  /\ reader' = [reader EXCEPT ![r].batch = Tail(@)]
  /\ UNCHANGED <<vars, order, run>>

\* None is committed: the text is read.
ReadText(r) ==
  /\ reader[r].pc = "next" /\ reader[r].batch # <<>>
  /\ InReading(r) \notin Read
  /\ reader' = [reader EXCEPT ![r].pc = "insert"]
  /\ UNCHANGED <<vars, order, run>>

\* The insert meets no other's uncommitted row.
MayRecord(r) ==
  /\ reader[r].pc = "insert"
  /\ \A q \in Reader \ {r} : InReading(r) \notin reader[q].written

\* The row of the run and those that hang on it are flushed.
RecordRun(r) ==
  /\ MayRecord(r)
  /\ InReading(r) \notin Read
  /\ reader' = [reader EXCEPT ![r] =
       [pc |-> "next", batch |-> Tail(@.batch), written |-> @.written \cup {InReading(r)}]]
  /\ UNCHANGED <<vars, order, run>>

\* uq_intelligence_run_identity: another has committed the run since.  Nothing
\* catches the error: what the batch has flushed is rolled back.
CollideRun(r) ==
  /\ MayRecord(r)
  /\ InReading(r) \in Read
  /\ reader' = [reader EXCEPT ![r] = Waiting]
  /\ UNCHANGED <<vars, order, run>>

CommitBatch(r) ==
  LET written == reader[r].written IN
  /\ reader[r].pc = "next" /\ reader[r].batch = <<>>
  /\ run' = [a \in Artifact |-> IF a \in written THEN Understood(TextOf[a], a \in Warned) ELSE run[a]]
  /\ reader' = [reader EXCEPT ![r] = Waiting]
  /\ UNCHANGED <<vars, order>>

\* The process dies, or its connection does.
ReaderFault(r) ==
  /\ reader[r].pc # "idle"
  /\ faults < MaxFaults
  /\ faults' = faults + 1
  /\ reader' = [reader EXCEPT ![r] = Waiting]
  /\ UNCHANGED <<stored, extracted, current, described, worker, order, run>>

ReaderStep(r) ==
  ReuseRun(r) \/ ReadText(r) \/ RecordRun(r) \/ CollideRun(r) \/ CommitBatch(r)

-----------------------------------------------------------------------------
(* What SolicitationReconciler.reconcile makes of the results of every run *)
(* of the opportunity, oldest first.                                       *)

FactsOf(a) == run[a].facts

StatedIn(a, words) ==
  [i \in DOMAIN FactsOf(a) |->
     [of |-> a, field |-> FactsOf(a)[i].field, authority |-> Authority(words[DocumentOf[a]]),
      value |-> FactsOf(a)[i].value]]
Stated(words) ==
  FlattenSeq([i \in DOMAIN order |->
    IF order[i] \in Read THEN StatedIn(order[i], words) ELSE <<>>])

-----------------------------------------------------------------------------

\* A step of the extraction worker, or of what stores the bodies.
ExtractionStep ==
  /\ Next
  /\ order' = order \o SetToSeq(extracted' \ extracted)
  /\ UNCHANGED readerVars

IntelligenceNext ==
  \/ ExtractionStep
  \/ \E r \in Reader : Select(r) \/ ReaderStep(r) \/ ReaderFault(r)

IntelligenceSpec == IntelligenceInit /\ [][IntelligenceNext]_all

\* A scheduler runs the worker again and again, and a run goes on: a reader that
\* may select or may go on does not stay so for ever without a step of its own.
MayStep(r) ==
  \/ reader[r].pc = "idle" /\ InTurn # <<>>
  \/ reader[r].pc = "next"
  \/ MayRecord(r)
ReadersGoOn ==
  \A r \in Reader :
    []<>~MayStep(r) \/ []<><<reader'[r] # reader[r] /\ faults' = faults>>_all

-----------------------------------------------------------------------------
(* Properties.                                                             *)

\* A current extraction that has its turn, among the oldest that a batch can
\* hold, is understood or stops being current: batches that fail as a whole,
\* or run side by side, do not keep it from that.
EveryTextUnderstood ==
  \A a \in Artifact :
    (\E i \in DOMAIN InTurn : i <= ReaderBatch /\ InTurn[i] = a) ~> (a \in Read \/ a \notin current)

\* The facts of a run are what the labels of its text state: each of them is
\* in the text, each field and value of the text is recorded once, whatever its
\* spellings, and what is left out is what exceeds the limit.
TextRepresented ==
  \A a \in Read :
    LET labels == UNION {{<<f, b.labels[f]>> : f \in DOMAIN b.labels} : b \in ToSet(TextOf[a])}
        stated == {<<l[1], l[2][1]>> : l \in labels}
        facts == FactsOf(a)
        recorded == {<<facts[i].field, facts[i].value[1]>> : i \in DOMAIN facts}
    IN /\ \A i \in DOMAIN facts : <<facts[i].field, facts[i].value>> \in labels
       /\ Cardinality(recorded) = Len(facts)
       /\ recorded # stated => Len(facts) = MaxFields
       /\ run[a].fields = Cardinality(stated)

\* Whatever the order in which the texts were read, a field that is reconciled
\* has exactly one effective fact, of a document that has a say in it and that
\* none outranks, unless those that rank highest dispute its value: then none.
EffectiveRules == \A words \in Descriptions :
  LET stated == Stated(words)
      status == Reconciled(stated)
  IN \A f \in Reached(stated) :
       LET say == {i \in DOMAIN stated : stated[i].field = f /\ Controls(stated[i].authority, f)}
           effective == {i \in DOMAIN stated : stated[i].field = f /\ status[i] = "effective"}
           outranked == {i \in say : \E j \in say :
                           Precedence[stated[j].authority] > Precedence[stated[i].authority]}
           disputed == \E i, j \in say \ outranked : stated[i].value # stated[j].value
       IN /\ Cardinality(effective) = (IF say = {} \/ disputed THEN 0 ELSE 1)
          /\ effective \cap outranked = {}
          /\ effective \subseteq say
================================================================================
