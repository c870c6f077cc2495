------------------------- MODULE MCIntelligenceWorker -------------------------
(* Instances of IntelligenceWorker for TLC: fields are 1, 2, 3; artifacts 1   *)
(* and 2 are versions of one document.                                        *)
EXTENDS IntelligenceWorker

InOrder == [a \in Artifact |-> a]
Bodies == <<"d1", "d1", "d2", "d3">>

\* Of the documents' columns this run asks nothing.
Alike == [c \in Column |-> "false"]
Outcomes == [a \in Artifact |-> Alike]

\* The table of labels is not in the order of the names.
LabelOrder == <<2, 1, 3>>

Block(labels, about) ==
  [heading |-> "heading" \in about, labels |-> labels, words |-> about,
   codes |-> IF "code" \in about THEN {"c1"} ELSE {}, contact |-> FALSE]

Plain(v) == <<v, "plain">>
Upper(v) == <<v, "upper">>

\* A value in two spellings, a field with two values, a text with more than
\* can be kept, and documents that agree or disagree.
Texts ==
  << <<Block(1 :> Plain(1), {"heading", "must"}), Block((1 :> Upper(1)) @@ (2 :> Plain(1)), {"code"})>>,
     <<Block((1 :> Plain(1)) @@ (3 :> Plain(1)), {"may", "code"}), Block(2 :> Plain(2), {"points", "code"})>>,
     <<Block(1 :> Plain(2), {"deliverable"}), Block(2 :> Plain(2), {"should"}),
       Block((1 :> Plain(1)) @@ (3 :> Plain(1)), {"if must"})>>,
     <<Block(1 :> Plain(2), {}), Block(2 :> Plain(1), {"must not"})>> >>

Named(first, second, third) ==
  [d \in Document |-> IF d = "d1" THEN first ELSE IF d = "d2" THEN second ELSE third]

Titles ==
  { Named({"solicitation"}, {"addend"}, {"amend"}),
    Named({"rfp"}, {"question"}, {"intent", "award"}),
    Named({"revised", "rfp"}, {"cancel"}, {"bid form"}) }

\* Bound: the fourth text is stored after the third, the others in any order.
InTurnStored == 4 \in stored' => 3 \in stored'
StoredSpec == IntelligenceInit /\ [][IntelligenceNext /\ InTurnStored]_all /\ ReadersGoOn
================================================================================
