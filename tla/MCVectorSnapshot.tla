------------------------------ MODULE MCVectorSnapshot ------------------------------
(* Instances of VectorSnapshot for TLC. *)
EXTENDS VectorSnapshot

CONSTANTS m1, m2, server, other

TwoIds == {m1, m2}
OneId == {m1}
TwoProcs == {server, other}

===================================================================================
