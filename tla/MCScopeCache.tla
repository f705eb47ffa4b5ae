------------------------------ MODULE MCScopeCache ------------------------------
(* Instances of ScopeCache for TLC. *)
EXTENDS ScopeCache, TLC

CONSTANTS i1, p1, c1, c2

OneProc == [c \in Callers |-> p1]

Threads == Permutations({c1, c2})
================================================================================
