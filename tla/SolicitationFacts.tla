--------------------------- MODULE SolicitationFacts ---------------------------
(***************************************************************************)
(* What DeterministicSolicitationExtractor reads from the text of one      *)
(* document, and what SolicitationReconciler makes of the facts of several *)
(* (documents/intelligence.py).                                             *)
(*                                                                         *)
(* A block of text is [heading, labels, words, codes, contact]: the kind   *)
(* of section it opens, if any; the fields it has a label for, each with   *)
(* the value that follows the first such label; the words that rules look  *)
(* for; the codes and the address it names.  A value is <<v, spelling>>.   *)
(* Fields are numbers in the order of their names.                         *)
(***************************************************************************)
EXTENDS Naturals, Sequences, SequencesExt, FiniteSets

CONSTANTS
  Labels,           \* the fields of the table of labels, in its order
  MaxFields,        \* solicitation_intelligence_max_fields
  MaxRequirements,  \* solicitation_intelligence_max_requirements
  MaxListed,        \* ..._max_deliverables, ..._evaluation_factors and ..._contacts: one bound
  AwardFields,      \* fields that begin with "award_"
  StatusField       \* the field "status"

ASSUME FactBounds == MaxFields \in Nat /\ MaxRequirements \in Nat /\ MaxListed \in Nat
ASSUME LabelTable == Labels \in Seq(Nat)

\* The first entry of a table <<value, words>> whose words meet the text.
NamedBy(table, text, default) ==
  LET hits == {i \in DOMAIN table : table[i][2] \cap text # {}}
  IN IF hits = {} THEN default ELSE table[CHOOSE i \in hits : \A j \in hits : i <= j][1]

-----------------------------------------------------------------------------
(* DocumentAuthorityResolver.resolve: the words of a document's type,      *)
(* category, title, name and relationship; "amendment number", "addendum   *)
(* number" and "supersedes" stand for the columns of these names.           *)

AuthorityWords ==
  << <<"award_notice", {"award"}>>, <<"official_questions_and_answers", {"question"}>>,
     <<"formal_amendment", {"amendment number", "amend"}>>,
     <<"formal_addendum", {"addendum number", "addend"}>>,
     <<"revised_primary", {"revised", "supersedes"}>>, <<"pricing_attachment", {"pricing"}>>,
     <<"bid_form", {"bid form"}>>, <<"primary_solicitation", {"solicitation", "rfp"}>>,
     <<"supplemental_attachment", {"attachment"}>>, <<"informational_notice", {"notice"}>> >>

Authority(words) ==
  IF "cancel" \in words THEN "cancellation_notice"
  ELSE IF {"intent", "award"} \subseteq words THEN "intent_to_award"
  ELSE NamedBy(AuthorityWords, words, "unofficial_or_unknown")

-----------------------------------------------------------------------------
(* extract.  Facts keep the order of the blocks and, within one, of the    *)
(* table of labels; a value found again in another spelling is the same.    *)

Found(block) ==
  FlattenSeq([i \in DOMAIN Labels |->
    IF Labels[i] \in DOMAIN block.labels
    THEN << [field |-> Labels[i], value |-> block.labels[Labels[i]]] >> ELSE <<>>])

\* For comparison: a field keeps the first value only.
SameFieldOnly(fact, other) == fact.field = other.field

Same(fact, other) == fact.field = other.field /\ fact.value[1] = other.value[1]

\* _dedupe
NewFact(facts, found) ==
  IF \E i \in DOMAIN facts : Same(facts[i], found) THEN facts ELSE Append(facts, found)
FactsIn(blocks) ==
  FoldLeft(NewFact, <<>>, FlattenSeq([b \in DOMAIN blocks |-> Found(blocks[b])]))

NewCode(codes, code) == IF Contains(codes, code) THEN codes ELSE Append(codes, code)
CodesIn(blocks) ==
  FoldLeft(LAMBDA codes, block : FoldLeft(NewCode, codes, SetToSeq(block.codes)), <<>>, blocks)

StrengthWords ==
  << <<"prohibited", {"must not", "prohibited"}>>, <<"conditional", {"if must"}>>,
     <<"mandatory", {"must", "required"}>>, <<"recommended", {"should"}>>, <<"optional", {"may"}>> >>
Strength(block) == NamedBy(StrengthWords, block.words, "none")

RequirementsIn(blocks) ==
  [i \in DOMAIN SelectSeq(blocks, LAMBDA b : Strength(b) # "none") |->
     Strength(SelectSeq(blocks, LAMBDA b : Strength(b) # "none")[i])]

Having(blocks, words) == SelectSeq(blocks, LAMBDA b : b.words \cap words # {})
DeliverablesIn(blocks) == Having(blocks, {"deliverable", "submit report"})
FactorsIn(blocks) == Having(blocks, {"points", "percent"})
ContactsIn(blocks) == SelectSeq(blocks, LAMBDA b : b.contact)
SectionsIn(blocks) == SelectSeq(blocks, LAMBDA b : b.heading)

First(sequence, n) == SubSeq(sequence, 1, IF n < Len(sequence) THEN n ELSE Len(sequence))

\* The row of the run and those that hang on it, the lists cut at their limits
\* (what no property is about by its number): the count of fields is taken
\* before the cut.
Understood(blocks, warned) ==
  [ facts        |-> First(FactsIn(blocks), MaxFields),
    fields       |-> Len(FactsIn(blocks)),
    codes        |-> CodesIn(blocks),
    requirements |-> First(RequirementsIn(blocks), MaxRequirements),
    deliverables |-> Len(First(DeliverablesIn(blocks), MaxListed)),
    factors      |-> Len(First(FactorsIn(blocks), MaxListed)),
    contacts     |-> Len(First(ContactsIn(blocks), MaxListed)),
    sections     |-> Len(SectionsIn(blocks)),
    state        |-> IF warned THEN "completed_with_warnings" ELSE "completed" ]

-----------------------------------------------------------------------------
(* ReconciliationPolicy.  A bid form has no precedence: looking it up is a *)
(* KeyError.                                                                *)

Precedence ==
  [cancellation_notice |-> 100, revised_primary |-> 90, formal_amendment |-> 80,
   formal_addendum |-> 80, official_questions_and_answers |-> 70, primary_solicitation |-> 60,
   pricing_attachment |-> 55, supplemental_attachment |-> 50, informational_notice |-> 30,
   intent_to_award |-> 20, award_notice |-> 20, unofficial_or_unknown |-> 10]

\* As reconcile asks: answers to questions control whatever they state.
Controls(authority, field) ==
  /\ authority \in {"award_notice", "intent_to_award"} => field \in AwardFields
  /\ authority = "cancellation_notice" => field = StatusField

-----------------------------------------------------------------------------
(* reconcile.  `stated` is the sequence of the facts of the results,       *)
(* [of, field, authority, value], all of them candidates; the outcome is   *)
(* the effective_status of each.                                            *)

MaySay(stated, field) ==
  {i \in DOMAIN stated : stated[i].field = field /\ Controls(stated[i].authority, field)}

Controlling(stated, field) ==
  LET say == MaySay(stated, field) IN
  {i \in say : \A j \in say : Precedence[stated[j].authority] <= Precedence[stated[i].authority]}

\* The fields are gone through by name; one in which an authority without a
\* precedence has a say ends it with a KeyError.
FieldsOf(stated) == {stated[i].field : i \in DOMAIN stated}
Unranked(stated, field) ==
  \E i \in MaySay(stated, field) : stated[i].authority \notin DOMAIN Precedence
Reached(stated) ==
  {f \in FieldsOf(stated) : \A g \in FieldsOf(stated) : g <= f => ~Unranked(stated, g)}

\* For comparison: the last of those that rank highest, whatever the others say.
OutcomeLast(stated, top, i) ==
  IF i \in top /\ \A j \in top : j <= i THEN "effective" ELSE "superseded"

\* The status of a candidate of a field in which those of `top` control.
Outcome(stated, top, i) ==
  LET conflict == \E j, k \in top : stated[j].value # stated[k].value
  IN IF conflict /\ i \in top THEN "conflicting"
     ELSE IF ~conflict /\ i \in top /\ \A j \in top : j <= i THEN "effective"
     ELSE "superseded"

Reconciled(stated) ==
  LET reached == Reached(stated)
      tops == [f \in reached |-> Controlling(stated, f)]
  IN [i \in DOMAIN stated |->
        LET f == stated[i].field
        IN IF f \in reached /\ tops[f] # {} THEN Outcome(stated, tops[f], i) ELSE "candidate"]
================================================================================
