----------------------------- MODULE MCExtraction -----------------------------
(* Instances of Extraction for TLC. *)
EXTENDS Extraction, TLC

\* The empty text, the pool's texts of two instants, another text of the first
\* that sorts behind both, and a text that is no timestamp.
MCTexts   == {0, 1, 2, 3, 4}
MCInstant == 0 :> 0 @@ 1 :> 1 @@ 2 :> 2 @@ 3 :> 1 @@ 4 :> 0
MCSpelled == [t \in MCTexts |-> IF t = 3 THEN 1 ELSE t]

Plain(S, C) == [kind : {"plain"}, ts : S, count : C]
Odd(K)      == [kind : K \ {"plain"}, ts : {2}, count : {<<1, 0>>}]

\* Two heads: plain lines of any timestamp, and one line of each other kind.
MCLines ==
  [f \in Formats |->
     Plain({0, 4}, {<<1, 0>>}) \cup
     IF f = "csv" THEN Plain({1, 2, 3}, {<<0, 0>>, <<1, 0>>, <<1, 1>>, <<5, 1>>}) \cup Odd(AllKinds)
                  ELSE Plain({1, 2, 3}, {<<0, 0>>, <<1, 0>>}) \cup Odd(CellKinds)]

\* One head, CSV.
OneText == [t \in {1} |-> 1]
OneHead ==
  [f \in Formats |->
     [kind : IF f = "csv" THEN AllKinds ELSE {}, ts : {1}, count : [Heads -> Counts]]]
=============================================================================
