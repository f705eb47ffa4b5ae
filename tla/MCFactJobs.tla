------------------------------ MODULE MCFactJobs ------------------------------
(* Instances of FactJobs for TLC: who runs where.                                 *)
EXTENDS FactJobs, TLC

CONSTANTS p1, p2, h1, h2, s1, s2, t1, t2, t3, c1, c2

(* Two processes, each with one service and its background worker. *)
PairSvc == (t1 :> s1) @@ (t2 :> s2)
(* ... and a caller of drain() beside the first worker. *)
PairAndCaller == PairSvc @@ (t3 :> s1)
PairProc == (s1 :> p1) @@ (s2 :> p2)
SameHost == (p1 :> h1) @@ (p2 :> h1)
TwoHosts == (p1 :> h1) @@ (p2 :> h2)
================================================================================
