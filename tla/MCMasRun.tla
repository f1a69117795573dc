------------------------------- MODULE MCMasRun -------------------------------
(* Instances of MasRun for TLC. *)
EXTENDS MasRun

CONSTANTS i1, i2, i3, w1, w2

OneItem    == {i1}
ThreeItems == {i1, i2, i3}
OneRowEach == [i \in Items |-> 1]
TwoAndOne  == [i \in Items |-> IF i = i1 THEN 2 ELSE 1]
MCWorkers  == {w1, w2}
AllDuckDb  == {{}}
EitherFormat == {{}, Workers}
Symmetry   == Permutations(Items) \cup Permutations(Workers)
=============================================================================
