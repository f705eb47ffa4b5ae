------------------------------ MODULE MCContextWatch ------------------------------
(* Instances of ContextWatch for TLC. *)
EXTENDS ContextWatch

CONSTANTS w1, w2, host, owner, a, b

TwoThreads == {w1, w2}
TwoCallers == {host, owner}
JustHost == {host}
JustOwner == {owner}
TwoSubjects == {a, b}
JustA == {a}
(* Messages 2 and 4 name a, message 3 names b; memories about a name b. *)
Mentions == [m \in Msgs |-> CASE m \in {2, 4} -> {a} [] m = 3 -> {b} [] OTHER -> {}]
AToB == [s \in Subjects |-> IF s = a THEN {b} ELSE {}]

===================================================================================
