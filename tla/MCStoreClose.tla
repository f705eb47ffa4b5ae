------------------------------ MODULE MCStoreClose ------------------------------
(* The instances of StoreClose that TLC checks. *)
EXTENDS StoreClose, TLC

CONSTANTS t1, t2, c1, c2, h1

(* Connections are opened in no particular order. *)
Interchangeable == Permutations(Conns)
================================================================================
