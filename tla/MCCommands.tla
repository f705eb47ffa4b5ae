-------------------------------- MODULE MCCommands --------------------------------
(* Instances of Commands for TLC. *)
EXTENDS Commands

CONSTANTS s1, s2, c1, c2

TwoServers == {s1, s2}
TwoClients == {c1, c2}
SecondClient == {c2}
AnyAndStore == [c \in Clients |-> IF c = c2 THEN {"store"} ELSE Ops]

===================================================================================
