------------------------------ MODULE StoreMerge ------------------------------
(***************************************************************************)
(* mas_merge: many per-worker stores into one destination.  First          *)
(* merge_all, one set-based pass (or merge_from per source when the        *)
(* destination holds rows or there is one source only); if that throws,    *)
(* merge_from per source, where a source that cannot be read is skipped.   *)
(* The process may be killed between two statements and started again.     *)
(***************************************************************************)
EXTENDS Integers, FiniteSets, FiniteSetsExt

CONSTANTS
  Files,     \* source store files
  N,         \* sources on the command line
  Rows,
  Priors,    \* what the destination may hold before the first run
  MaxKills   \* bound: kills

ASSUME NAssumption     == N \in Nat \ {0}
ASSUME PriorsAssumption == Priors \subseteq SUBSET Rows
ASSUME KillsAssumption == MaxKills \in Nat

\* good     readable; nobody asks a source for its identity
\* corrupt  ATTACH fails           bare  attaches but has no cap_events
Kinds == {"good", "corrupt", "bare"}

Src == 1 .. N

VARIABLES
  sources,   \* the command line; a file may be on it twice
  kind, has, \* the source files: what they are and the rows in them
  prior,     \* the rows of the destination before the first run
  rows,      \* cap_events of the destination
  attached,  \* the files attached to the connection, by alias
  pc,        \* the next statement
  i,         \* the source it is about
  bulk,      \* merge_all has not thrown yet
  merged, skipped, kills

vars == <<sources, kind, has, prior, rows, attached, pc, i, bulk, merged, skipped, kills>>
input == <<sources, kind, has, prior>>

Readable(f) == kind[f] = "good"
Src0(k)     == <<"msrc", k>>
Alias       == <<"src", 0>>
NoAlias     == [a \in {} |-> {}]

Init ==
  /\ sources \in [Src -> Files]
  /\ kind \in [Files -> Kinds]
  /\ has \in [Files -> SUBSET Rows] /\ \A f \in Files : ~Readable(f) => has[f] = {}
  /\ prior \in Priors
  /\ rows = prior
  /\ attached = NoAlias
  /\ pc = "open" /\ i = 1 /\ bulk = TRUE /\ merged = 0 /\ skipped = 0 /\ kills = 0

Goto(label, k) == pc' = label /\ i' = k

\* ATTACH fails on a file that is corrupt or attached already, and on an alias
\* that is in use.
CanAttach(alias, f) ==
  /\ kind[f] # "corrupt"
  /\ alias \notin DOMAIN attached
  /\ \A a \in DOMAIN attached : attached[a] # f

With(alias, f) == [a \in DOMAIN attached \cup {alias} |-> IF a = alias THEN f ELSE attached[a]]
Without(alias) == [a \in DOMAIN attached \ {alias} |-> attached[a]]

-----------------------------------------------------------------------------
\* The destination's constructor, and the choice at the top of merge_all.
Open ==
  /\ pc = "open"
  /\ IF N = 1 \/ rows # {} THEN Goto("attach", 1) ELSE Goto("attachAll", 1)
  /\ bulk' = TRUE /\ merged' = 0 /\ skipped' = 0
  /\ UNCHANGED <<input, rows, attached, kills>>

\* The end of merge_all or, when it is over, of the per-source loop.
AllMerged == Goto("exit", 1) /\ merged' = (IF bulk THEN N ELSE merged)

\* An exception of a source: it ends merge_all and starts the fallback from the
\* first source; in the fallback it skips the source.
Throw ==
  IF bulk THEN /\ bulk' = FALSE /\ Goto("attach", 1) /\ UNCHANGED skipped
          ELSE /\ skipped' = skipped + 1 /\ UNCHANGED bulk
               /\ Goto(IF i = N THEN "exit" ELSE "attach", i + 1)

(* merge_all on an empty destination *)

AttachAll ==
  /\ pc = "attachAll" /\ CanAttach(Src0(i), sources[i])
  /\ attached' = With(Src0(i), sources[i])
  /\ Goto(IF i = N THEN "insertAll" ELSE "attachAll", i + 1)
  /\ UNCHANGED <<input, rows, bulk, merged, skipped, kills>>

Fault_AttachedStay ==
  /\ \/ pc = "attachAll" /\ ~CanAttach(Src0(i), sources[i])
     \/ pc = "insertAll" /\ \E f \in Range(attached) : ~Readable(f)
  /\ Throw
  /\ UNCHANGED <<input, rows, attached, merged, kills>>

\* A source that does not attach or has no cap_events; detach_all.
BulkFails ==
  /\ \/ pc = "attachAll" /\ ~CanAttach(Src0(i), sources[i])
     \/ pc = "insertAll" /\ \E f \in Range(attached) : ~Readable(f)
  /\ attached' = NoAlias
  /\ Throw
  /\ UNCHANGED <<input, rows, merged, kills>>

\* INSERT of the DISTINCT union, then detach_all.
InsertAll ==
  /\ pc = "insertAll" /\ \A f \in Range(attached) : Readable(f)
  /\ rows' = rows \cup UNION {has[f] : f \in Range(attached)}
  /\ attached' = NoAlias
  /\ AllMerged
  /\ UNCHANGED <<input, bulk, skipped, kills>>

(* merge_from *)

Attach ==
  /\ pc = "attach" /\ CanAttach(Alias, sources[i])
  /\ attached' = With(Alias, sources[i])
  /\ Goto("insert", i)
  /\ UNCHANGED <<input, rows, bulk, merged, skipped, kills>>

AttachFails ==
  /\ pc = "attach" /\ ~CanAttach(Alias, sources[i])
  /\ Throw
  /\ UNCHANGED <<input, rows, attached, merged, kills>>

Insert ==
  /\ pc = "insert" /\ Readable(sources[i])
  /\ rows' = rows \cup has[sources[i]]
  /\ Goto("detach", i)
  /\ UNCHANGED <<input, attached, bulk, merged, skipped, kills>>

Fault_AliasStays ==
  /\ pc = "insert" /\ ~Readable(sources[i])
  /\ Throw
  /\ UNCHANGED <<input, rows, attached, merged, kills>>

InsertFails ==
  /\ pc = "insert" /\ ~Readable(sources[i])
  /\ attached' = Without(Alias)
  /\ Throw
  /\ UNCHANGED <<input, rows, merged, kills>>

Detach ==
  /\ pc = "detach"
  /\ attached' = Without(Alias)
  /\ \/ i < N /\ Goto("attach", i + 1) /\ merged' = (IF bulk THEN merged ELSE merged + 1)
     \/ i = N /\ bulk /\ AllMerged
     \/ i = N /\ ~bulk /\ Goto("exit", 1) /\ merged' = merged + 1
  /\ UNCHANGED <<input, rows, bulk, skipped, kills>>

\* The connection is gone, and its aliases; the command is run again.
Kill ==
  /\ pc # "exit" /\ kills < MaxKills
  /\ kills' = kills + 1
  /\ attached' = NoAlias
  /\ Goto("open", 1)
  /\ UNCHANGED <<input, rows, bulk, merged, skipped>>

Step ==
  \/ Open \/ AttachAll \/ BulkFails \/ InsertAll
  \/ Attach \/ AttachFails \/ Insert \/ InsertFails \/ Detach

Next == Step \/ Kill

Spec == Init /\ [][Next]_vars

-----------------------------------------------------------------------------
(* Properties *)

ExitStatus == IF merged = 0 THEN 1 ELSE 0
ReadableRows == UNION {has[f] : f \in {sources[k] : k \in Src}}

\* When mas_merge ends, the destination holds what it held and the rows of every
\* source that can be read, whatever unreadable sources stand between them on
\* the command line and however often it was killed; it holds nothing else.
MergeIsTheUnion ==
  /\ prior \subseteq rows /\ rows \subseteq prior \cup ReadableRows
  /\ pc = "exit" => rows = prior \cup ReadableRows

\* Every source is counted once, merged or skipped, and the skipped ones are
\* those that cannot be read; the exit status tells whether anything was merged.
EverySourceCounted ==
  pc = "exit" =>
    /\ merged + skipped = N
    /\ skipped = Cardinality({k \in Src : ~Readable(sources[k])})
    /\ ExitStatus = 0 <=> \E k \in Src : Readable(sources[k])

=============================================================================
