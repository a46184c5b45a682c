------------------------------ MODULE MCJobRuntime ------------------------------
(* One job: no two jobs share a row, a worker or a target.                      *)
EXTENDS JobRuntime, TransferHandler
================================================================================
