----------------------------- MODULE TransferHandler ----------------------------
(* What the data stage of a transfer reports of what it did: run_data of          *)
(* DataTransferHandler over execute_bounded_table, to be compared with what a     *)
(* handler promises (Honest of JobRuntime).                                       *)
EXTENDS JobRuntime

\* A table cannot be started or read: failed_stage forgets the tables before it.
FailedStage ==
    [terminal |-> "failed", effect |-> "rolledBack", bounds |-> 0, lost |-> FALSE]

\* A cancelled table or a failed one ends the stage with all boundaries so far.
EffectOfStopped(f, ifNone) == IF Done(f) = 0 THEN ifNone ELSE "partiallyApplied"

Stopped(f, terminal, ifNone, lost) ==
    [terminal |-> terminal, effect |-> EffectOfStopped(f, ifNone), bounds |-> Done(f),
     lost |-> lost]

\* progress.unknown counts a lost commit, not a lost rollback.
Losses(f) == IF f.doubt THEN BOOLEAN ELSE {FALSE}

TransferReports(f, token) ==
    (IF f.here = 0 THEN {FailedStage} ELSE {})
    \cup {Stopped(f, "failed", "rolledBack", lost) : lost \in Losses(f)}
    \cup (IF token THEN {Stopped(f, "cancelled", "notStarted", lost) : lost \in Losses(f)}
          ELSE {})
    \cup (IF ~f.failed /\ Done(f) = Batches
            THEN {[terminal |-> "succeeded", effect |-> "completed", bounds |-> Batches,
                   lost |-> FALSE]}
            ELSE {})
================================================================================
