------------------------------- MODULE MCRevisions -------------------------------
(* Instances of Revisions for TLC. *)
EXTENDS Revisions

CONSTANTS c1, c2

TwoCallers == {c1, c2}
OneCaller == {c1}
AllOps == {"supersede", "resolve", "feedback"}
Superseding == {"supersede"}

================================================================================
