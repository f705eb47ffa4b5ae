----------------------------- MODULE MCMemoryBlocks -----------------------------
(* Instances of MemoryBlocks for TLC. *)
EXTENDS MemoryBlocks, TLC

CONSTANTS b1, b2, f1, f2, n1, c1, c2

(* Each block is sealed, quarantined and released by one caller; or one does it all. *)
OneEach == (b1 :> {c1}) @@ (b2 :> {c2})
OneForAll == [b \in Blocks |-> {c1}]
================================================================================
