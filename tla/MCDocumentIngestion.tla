-------------------------- MODULE MCDocumentIngestion --------------------------
(* Instances of DocumentIngestion for TLC. *)
EXTENDS DocumentIngestion

Version(number, eligible) ==
  [source |-> "doc", url |-> "u1", category |-> "rfp", label |-> 0,
   number |-> number, eligible |-> eligible]

\* A document with versions 1, 2, 3, the second of them restricted.
Numbered == {Version(1, TRUE), Version(2, FALSE), Version(3, TRUE)}

\* Two documents of which the source gives no identifier.
Unidentified == {[Version(None, TRUE) EXCEPT !.source = None, !.url = u] : u \in {"u1", "u2"}}

\* What the theorems about versions assume holds of the instances.
ASSUME InstanceNumbered == VersionsNumbered
================================================================================
