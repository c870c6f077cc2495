----------------------------- MODULE ArtifactStore -----------------------------
(***************************************************************************)
(* What the document storage promises its users: a key holds nothing or    *)
(* the whole body it was named for, until the disk loses or damages it.    *)
(***************************************************************************)
CONSTANT Key
VARIABLE object

Init == object = [k \in Key |-> "absent"]

Publish(k) == object' = [object EXCEPT ![k] = "whole"]

\* Not the program's doing.
Decay(k) ==
  \E left \in {"absent", "damaged"} : object' = [object EXCEPT ![k] = left]

Next == \E k \in Key : Publish(k) \/ Decay(k)

Spec == Init /\ [][Next]_object
================================================================================
