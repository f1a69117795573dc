---------------------------- MODULE MCWorkerAlone ----------------------------
(* Instances of WorkerAlone for TLC. *)
EXTENDS WorkerAlone, TLC

CONSTANTS i1, i2, w1

MCItems   == {i1, i2}
MCBatches == (i1 :> 2) @@ (i2 :> 0)
EitherFormat == {{}, Workers}
=============================================================================
