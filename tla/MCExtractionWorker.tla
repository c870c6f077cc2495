-------------------------- MODULE MCExtractionWorker --------------------------
(* Instances of ExtractionWorker for TLC: artifacts are numbered in the order *)
(* in which their bodies were retrieved.                                      *)
EXTENDS ExtractionWorker

CONSTANT None   \* NULL

InOrder == [a \in Artifact |-> a]

\* Artifacts 1, 2, 3 are of one document, the others of another.
Bodies == [a \in Artifact |-> IF a <= 3 THEN "d1" ELSE "d2"]

\* What extractions of them set: a text, none but in pictures, a text again.
Columns(text, state, ocr) == [text |-> text, state |-> state, ocr |-> ocr]
New == Columns("false", None, None)
Outcomes ==
  [a \in Artifact |->
     IF a = 2 THEN Columns("false", "completed_with_warnings", "unavailable")
     ELSE Columns("true", "completed", "not_needed")]
===============================================================================
