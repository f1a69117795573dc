--------------------------- MODULE MCParquetPublish ---------------------------
(* Instances of ParquetPublish for TLC. *)
EXTENDS ParquetPublish, TLC

CONSTANTS p1, p2, t1, t2

\* A monolith with two threads and a worker; each writer may be a mas_export.
MCThreads == (p1 :> {t1, t2}) @@ (p2 :> {t1})
=============================================================================
