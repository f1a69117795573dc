----------------------------- MODULE MCCleanPrograms ---------------------------
(* Instances of CleanPrograms for TLC. *)
EXTENDS CleanPrograms

\* Day-files 1, 2 and 3; 4 is day 1 from another directory, as JSON.
MCStem == <<1, 2, 3, 1>>

Line(flags, n, list) == [program |-> "mas_monolith", flags |-> flags, threads |-> n, files |-> list]

Clean(flags, f) == [program |-> "mas_clean", flags |-> flags, threads |-> 1, files |-> <<f>>]

MCCommands ==
  {Line({}, 1, <<2, 3>>), Line({}, 2, <<1, 2>>), Line({}, 3, <<2, 3>>)}
  \cup {Line({"--format parquet"}, 1, <<1, 2>>), Line({"--format parquet"}, 2, <<4, 2>>),
        Line({"--format parquet"}, 2, <<2, 1, 4>>)}
  \cup {Line({"--engine=cuda"}, 1, <<1, 2>>), Line({"--engine=cuda"}, 1, <<3, 4>>),
        Line({"--engine=cuda"}, 2, <<1>>), Line({"--engine=cuda", "--no-store"}, 1, <<1, 2>>),
        Line({"--engine=cuda", "--format parquet"}, 1, <<2, 1>>)}
  \cup {Line({"--no-store"}, n, <<1, 4>>) : n \in 0 .. 2}
  \cup {Line({"--no-store", "--format parquet"}, 1, <<1>>),
        Clean({}, 1), Clean({"--format parquet"}, 4), Clean({"out.csv"}, 2), Clean({"out.csv"}, 4)}
=============================================================================
