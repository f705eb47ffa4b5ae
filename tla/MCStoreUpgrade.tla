------------------------------ MODULE MCStoreUpgrade ------------------------------
(* Instances of StoreUpgrade for TLC. *)
EXTENDS StoreUpgrade

CONSTANTS old1, new1, r1

OldServer == {old1}
OldAndNew == {old1, new1}
JustNew == {new1}
OneRestorer == {r1}
TwoBuilds == [p \in Procs |-> IF p = old1 THEN 1 ELSE 2]

===================================================================================
