----------------------------- MODULE MCFactTimeline -----------------------------
(* Instances of FactTimeline for TLC: the number 4444 and the text "4444" render   *)
(* alike, another text does not.                                                    *)
EXTENDS FactTimeline, TLC

CONSTANTS number, text, other, r1, r2

Rendering == [v \in Values |-> IF v = other THEN r2 ELSE r1]

(* Two texts that render differently are interchangeable together with their       *)
(* renderings.                                                                      *)
Interchangeable ==
    {(text :> other) @@ (other :> text) @@ (r1 :> r2) @@ (r2 :> r1)}
================================================================================
