------------------------------- MODULE JobRuntime --------------------------------
(* The life of a job on the desktop: JobHost accepts it, JobRuntime dispatches    *)
(* it, a handler commits batches in a target database the repository knows        *)
(* nothing of, a user cancels it, the scan at the start of a process marks what   *)
(* a dead one left behind, and a verifier settles what nobody could tell.         *)
(*                                                                                *)
(* Sources: jobs/engine/runtime.rs, jobs/application/host.rs, and the caller      *)
(* commands/data_transfer/job_api/runtime.rs.  A job is dispatched once, by the   *)
(* call that accepted it; the pc of that call is its next await:                  *)
(*   queued reject recheck confirm reserve claim      before the handler          *)
(*   boundary start stage record broken               one stage                   *)
(*   checkpoint settle finish fail                    the end of dispatch         *)
(*   drive persist callerErr abandon flag done        the caller                  *)
EXTENDS JobRepository

CONSTANTS
    Job,
    Stages,         \* stages of a job
    Batches,        \* batches a stage commits in the target
    Reports(_, _),  \* what run_stage may return, of what it saw and its token
    Headless,       \* a second process opens the same data directory
    MaxFaults,      \* repository calls that fail
    MaxCrashes

StageTerminal == {"succeeded", "failed", "cancelled", "unknown"}

\* What a handler knows of its stage: batches acknowledged for the finished tables
\* and for this one, whether one is in flight, or was lost on its way, or failed.
Facts == {f \in [before : 0..Batches, here : 0..Batches, open : BOOLEAN, doubt : BOOLEAN,
                 failed : BOOLEAN] : f.before + f.here <= Batches}
NoFacts == [before |-> 0, here |-> 0, open |-> FALSE, doubt |-> FALSE, failed |-> FALSE]

\* StageOutcome; lost: its progress counts an unknown commit.
Report == [terminal : StageTerminal, effect : EffectOutcome \ {"none"}, bounds : 0..Batches,
           lost : BOOLEAN]
NoReport == [terminal |-> "succeeded", effect |-> "completed", bounds |-> 0, lost |-> FALSE]

\* The promise of a handler: what it saw committed is in the report, what it cannot
\* tell is reported unknown, and nothing is called undone that was not.
Honest(f, token, r) ==
    /\ r.bounds = f.before + f.here
    /\ r.lost = f.doubt
    /\ f.doubt <=> r.effect = "unknown"
    /\ f.doubt <=> r.terminal = "unknown"
    /\ r.terminal = "succeeded" <=> r.effect = "completed"
    /\ r.effect = "completed" => r.bounds = Batches
    /\ r.effect \in {"notStarted", "rolledBack"} => r.bounds = 0
    /\ r.effect = "partiallyApplied" => r.bounds > 0
    /\ r.terminal = "cancelled" => token
ContractReports(f, token) == {r \in Report : Honest(f, token, r)}

ASSUME RuntimeAssumption ==
    /\ Stages \in Nat \ {0} /\ Batches \in Nat \ {0}
    /\ Headless \in BOOLEAN /\ MaxFaults \in Nat /\ MaxCrashes \in Nat
    /\ \A f \in Facts, c \in BOOLEAN : Reports(f, c) \subseteq Report

VARIABLES
    row,        \* the repository
    world,      \* batches committed in the target of each job
    run,        \* the call that accepted and dispatches each job
    canceller,  \* JobHost::cancel, between its two transactions
    verifier,   \* JobHost::verify_recovery, between its awaits
    scan,       \* the scan of a starting process
    alive,      \* the process that serves jobs is up
    faults, crashes

vars == <<row, world, run, canceller, verifier, scan, alive, faults, crashes>>

Place == {"idle", "queued", "reject", "recheck", "confirm", "reserve", "claim", "boundary",
          "start", "stage", "record", "broken", "checkpoint", "settle", "finish", "fail",
          "drive", "persist", "callerErr", "abandon", "flag", "done"}

\* token, watching   the CancelToken and its watcher
\* left              boundaries of the report still to record; all: those recorded
\* effect            failure_effect, then the effect of the result
Run == [pc : Place, stage : 1..Stages, facts : Facts, token : BOOLEAN, watching : BOOLEAN,
        report : Report, left : 0..Batches, all : Nat, unknown : BOOLEAN, failed : BOOLEAN,
        cancelled : BOOLEAN, lost : BOOLEAN, effect : EffectOutcome, version : Nat,
        permit : BOOLEAN, verdict : Verdict]

At(pc) ==
    [pc |-> pc, stage |-> 1, facts |-> NoFacts, token |-> FALSE, watching |-> FALSE,
     report |-> NoReport, left |-> 0, all |-> 0, unknown |-> FALSE, failed |-> FALSE,
     cancelled |-> FALSE, lost |-> FALSE, effect |-> "notStarted", version |-> 0,
     permit |-> FALSE, verdict |-> "none"]

NoScan == [by |-> "none", todo |-> {}, seen |-> [j \in Job |-> "absent"]]
NoVerifier == [pc |-> "idle", version |-> 0, confirmed |-> 0]

Init ==
    /\ row = [j \in Job |-> NoRow]
    /\ world = [j \in Job |-> 0]
    /\ run = [j \in Job |-> At("idle")]
    /\ canceller = [j \in Job |-> "idle"]
    /\ verifier = [j \in Job |-> NoVerifier]
    /\ scan = NoScan
    /\ alive = TRUE
    /\ faults = 0 /\ crashes = 0

--------------------------------------------------------------------------------
(* JobRuntime::run before the claim.                                            *)

host == <<canceller, verifier, scan, alive, faults, crashes>>

Is(j, pc) == alive /\ run[j].pc = pc
Goto(j, pc) == run' = [run EXCEPT ![j].pc = pc]

Accept(j) ==
    /\ Is(j, "idle") /\ row[j].state = "absent"
    /\ row' = [row EXCEPT ![j] = Accepted]
    /\ Goto(j, "queued")
    /\ UNCHANGED <<world, host>>

\* The job must be queued, its plan, handler and stages valid.
RunBegins(j) ==
    /\ Is(j, "queued")
    /\ \E next \in IF row[j].state = "queued" THEN {"recheck", "reject"} ELSE {"callerErr"} :
          Goto(j, next)
    /\ UNCHANGED <<row, world, host>>

\* mark_failed_unstarted, then the error: for an invalid plan or a refused budget.
Reject(j) ==
    /\ Is(j, "reject")
    /\ row' = IF Unclaimed(row[j]) THEN [row EXCEPT ![j] = FailedUnstarted(@)] ELSE row
    /\ Goto(j, "callerErr")
    /\ UNCHANGED <<world, host>>

Recheck(j) ==
    /\ Is(j, "recheck")
    /\ Goto(j, IF row[j].cancel THEN "confirm" ELSE "reserve")
    /\ UNCHANGED <<row, world, host>>

Confirm(j) ==
    /\ Is(j, "confirm")
    /\ IF CanConfirmCancelled(row[j])
         THEN /\ row' = [row EXCEPT ![j] = ConfirmedCancelled(@)]
              /\ Goto(j, "drive")
         ELSE /\ Goto(j, "callerErr")
              /\ UNCHANGED row
    /\ UNCHANGED <<world, host>>

\* All endpoints get their permit, or none does and the job is refused.
Reserve(j) ==
    /\ Is(j, "reserve")
    /\ \/ run' = [run EXCEPT ![j].pc = "claim", ![j].permit = TRUE]
       \/ Goto(j, "reject")
    /\ UNCHANGED <<row, world, host>>

Claim(j) ==
    /\ Is(j, "claim")
    /\ IF CanClaim(row[j])
         THEN /\ row' = [row EXCEPT ![j] = Claimed(@)]
              /\ Goto(j, "boundary")
         ELSE /\ Goto(j, "fail")
              /\ UNCHANGED row
    /\ UNCHANGED <<world, host>>

--------------------------------------------------------------------------------
(* JobRuntime::dispatch: one stage.                                             *)

\* A write under the claim: through, or the dispatch fails.
Fenced(j, newRow, newRun) ==
    IF ClaimHolds(row[j])
      THEN /\ row' = [row EXCEPT ![j] = newRow]
           /\ run' = [run EXCEPT ![j] = newRun]
      ELSE /\ Goto(j, "fail")
           /\ UNCHANGED row

StageBoundary(j) ==
    /\ Is(j, "boundary")
    /\ IF run[j].token \/ row[j].cancel
         THEN run' = [run EXCEPT ![j].pc = "checkpoint", ![j].token = TRUE,
                                 ![j].cancelled = TRUE]
         ELSE Goto(j, "start")
    /\ UNCHANGED <<row, world, host>>

StageStarts(j) ==
    /\ Is(j, "start")
    /\ Fenced(j, row[j], [run[j] EXCEPT !.pc = "stage", !.facts = NoFacts, !.watching = TRUE])
    /\ UNCHANGED <<world, host>>

\* The watcher turns the cancel request into the token, and stops on a terminal row.
WatcherPolls(j) ==
    /\ Is(j, "stage") /\ run[j].watching
    /\ row[j].cancel \/ row[j].state \in Terminal
    /\ run' = [run EXCEPT ![j].watching = FALSE, ![j].token = @ \/ row[j].cancel]
    /\ UNCHANGED <<row, world, host>>

\* What the ledger of the dispatch keeps of an outcome.
Reported(u, r) ==
    [u EXCEPT !.pc = "record", !.watching = FALSE, !.report = r, !.left = r.bounds,
              !.facts = NoFacts,
              !.unknown = @ \/ r.terminal = "unknown" \/ r.effect = "unknown",
              !.failed = @ \/ r.terminal = "failed",
              !.cancelled = @ \/ r.terminal = "cancelled",
              !.lost = @ \/ r.lost,
              !.effect = IF r.terminal = "succeeded" THEN @ ELSE r.effect]

\* run_stage returned: the watcher is gone, the outcome goes to the ledger.
StageReturns(j) ==
    /\ Is(j, "stage") /\ ~run[j].facts.open
    /\ \E r \in Reports(run[j].facts, run[j].token) : run' = [run EXCEPT ![j] = Reported(@, r)]
    /\ UNCHANGED <<row, world, host>>

\* As if the boundary were inserted without check_claim.
RecordBoundary_Unfenced(j) ==
    /\ Is(j, "record") /\ run[j].left > 0
    /\ row' = [row EXCEPT ![j] = BoundaryRecorded(@)]
    /\ run' = [run EXCEPT ![j].left = @ - 1, ![j].all = @ + 1]
    /\ UNCHANGED <<world, host>>

RecordBoundary(j) ==
    /\ Is(j, "record") /\ run[j].left > 0
    /\ Fenced(j, BoundaryRecorded(row[j]),
              [run[j] EXCEPT !.left = @ - 1, !.all = @ + 1])
    /\ UNCHANGED <<world, host>>

\* The end of the stage, its artifacts, domain result and progress.
CloseStage(j) ==
    /\ Is(j, "record") /\ run[j].left = 0
    /\ Fenced(j, row[j],
              IF run[j].report.terminal = "succeeded" /\ run[j].stage < Stages
                THEN [run[j] EXCEPT !.pc = "boundary", !.stage = @ + 1, !.report = NoReport]
                ELSE [run[j] EXCEPT !.pc = "checkpoint", !.report = NoReport])
    /\ UNCHANGED <<world, host>>

\* The stage ended with an error or a panic.
CloseBroken(j) ==
    /\ Is(j, "broken")
    /\ Fenced(j, row[j], [run[j] EXCEPT !.pc = "checkpoint", !.failed = TRUE, !.unknown = TRUE,
                                        !.effect = "unknown"])
    /\ UNCHANGED <<world, host>>

--------------------------------------------------------------------------------
(* What a handler does in the target.                                           *)

Done(f) == f.before + f.here
Left(f) == Batches - Done(f) - IF f.doubt THEN 1 ELSE 0

BatchBegins(j) ==
    /\ Is(j, "stage") /\ ~run[j].facts.open /\ Left(run[j].facts) > 0
    /\ run' = [run EXCEPT ![j].facts.open = TRUE]
    /\ UNCHANGED <<row, world, host>>

BatchCommits(j) ==
    /\ Is(j, "stage") /\ run[j].facts.open
    /\ world' = [world EXCEPT ![j] = @ + 1]
    /\ run' = [run EXCEPT ![j].facts.open = FALSE, ![j].facts.here = @ + 1]
    /\ UNCHANGED <<row, host>>

BatchRollsBack(j) ==
    /\ Is(j, "stage") /\ run[j].facts.open
    /\ run' = [run EXCEPT ![j].facts = [@ EXCEPT !.open = FALSE, !.failed = TRUE]]
    /\ UNCHANGED <<row, world, host>>

\* The answer to a commit or a rollback is lost, once in a stage: either may have
\* happened.
Fate(j) == \/ world' = [world EXCEPT ![j] = @ + 1]
           \/ UNCHANGED world

BatchIsLost(j) ==
    /\ Is(j, "stage") /\ run[j].facts.open /\ ~run[j].facts.doubt
    /\ Fate(j)
    /\ run' = [run EXCEPT ![j].facts = [@ EXCEPT !.open = FALSE, !.failed = TRUE,
                                                 !.doubt = TRUE]]
    /\ UNCHANGED <<row, host>>

NextTable(j) ==
    /\ Is(j, "stage") /\ ~run[j].facts.open /\ run[j].facts.here > 0
    /\ run' = [run EXCEPT ![j].facts = [@ EXCEPT !.before = Done(run[j].facts), !.here = 0]]
    /\ UNCHANGED <<row, world, host>>

\* run_stage fails or panics, at any point.
StageBreaks(j) ==
    /\ Is(j, "stage")
    /\ IF run[j].facts.open THEN Fate(j) ELSE UNCHANGED world
    /\ run' = [run EXCEPT ![j].pc = "broken", ![j].watching = FALSE, ![j].facts = NoFacts]
    /\ UNCHANGED <<row, host>>

--------------------------------------------------------------------------------
(* The end of dispatch, and its caller.                                         *)

SaveCheckpoint(j) ==
    /\ Is(j, "checkpoint")
    /\ IF run[j].all = 0
         THEN Goto(j, "settle") /\ UNCHANGED row
         ELSE Fenced(j, CheckpointSaved(row[j]), [run[j] EXCEPT !.pc = "settle"])
    /\ UNCHANGED <<world, host>>

ReadVersion(j) ==
    /\ Is(j, "settle")
    /\ run' = [run EXCEPT ![j].pc = "finish", ![j].version = row[j].version]
    /\ UNCHANGED <<row, world, host>>

FinalState(u) ==
    IF u.unknown \/ u.failed THEN "failed" ELSE IF u.cancelled THEN "cancelled" ELSE "succeeded"

\* As if the last report stood for the whole job.
FinalEffect_LastReport(u) ==
    IF u.unknown THEN "unknown"
      ELSE IF u.failed \/ u.cancelled THEN u.effect
      ELSE "completed"

FinalEffect(u) ==
    IF u.unknown THEN "unknown"
      ELSE IF ~u.failed /\ ~u.cancelled THEN "completed"
      ELSE IF u.all > 0 THEN "partiallyApplied"
      ELSE u.effect

Finish(j) ==
    /\ Is(j, "finish")
    /\ IF CanFinish(row[j], run[j].version)
         THEN /\ row' = [row EXCEPT ![j] = Finished(@, FinalState(run[j]), FinalEffect(run[j]),
                                                    run[j].unknown)]
              /\ run' = [run EXCEPT ![j].pc = "drive", ![j].permit = FALSE,
                                    ![j].effect = FinalEffect(run[j])]
         ELSE /\ Goto(j, "fail")
              /\ UNCHANGED row
    /\ UNCHANGED <<world, host>>

\* The permits go back, and what became of the job is to be verified.
DispatchFails(j) ==
    /\ Is(j, "fail")
    /\ row' = [row EXCEPT ![j] = MarkedPending(@)]
    /\ run' = [run EXCEPT ![j].pc = "callerErr", ![j].permit = FALSE]
    /\ UNCHANGED <<world, host>>

\* As if no boundary meant no write.
Conclusions_OnBounds(j) ==
    IF row[j].bounds = 0 THEN {"notExecuted"}
      ELSE IF ~row[j].checkpoint THEN {"requireManualReview"}
      ELSE {"resumeAfterVerify", "reject", "requireManualReview"}

\* persist_recovery of the caller: what it concludes of the boundaries it reads.
Conclusions(j) ==
    IF row[j].bounds = 0 /\ ~run[j].lost /\ run[j].effect \in {"notStarted", "rolledBack"}
      THEN {"notExecuted"}
      ELSE IF ~row[j].checkpoint THEN {"requireManualReview"}
      ELSE {"resumeAfterVerify", "reject", "requireManualReview"}

Drive(j) ==
    /\ Is(j, "drive")
    /\ \E v \in Conclusions(j) : run' = [run EXCEPT ![j].pc = "persist", ![j].verdict = v]
    /\ UNCHANGED <<row, world, host>>

Persist(j) ==
    /\ Is(j, "persist")
    /\ row' = [row EXCEPT ![j] = RecoveryPersisted(@, run[j].verdict)]
    /\ run' = [run EXCEPT ![j] = At("done")]
    /\ UNCHANGED <<world, host>>

\* As if a running job were left to the runtime, which had its chance.
CallerReads_LeavesRunning(j) ==
    /\ Is(j, "callerErr")
    /\ run' = [run EXCEPT ![j] =
          CASE row[j].state = "queued" -> At("abandon")
            [] row[j].state = "cancelled" -> [At("drive") EXCEPT !.effect = row[j].effect]
            [] OTHER -> At("done")]
    /\ UNCHANGED <<row, world, host>>

CallerReads(j) ==
    /\ Is(j, "callerErr")
    /\ run' = [run EXCEPT ![j] =
          CASE row[j].state = "queued" -> At("abandon")
            [] row[j].state = "running" -> At("flag")
            [] row[j].state = "cancelled" -> [At("drive") EXCEPT !.effect = row[j].effect]
            [] OTHER -> At("done")]
    /\ UNCHANGED <<row, world, host>>

CallerMarks(j) ==
    \/ /\ Is(j, "abandon")
       /\ row' = IF Unclaimed(row[j]) THEN [row EXCEPT ![j] = FailedUnstarted(@)] ELSE row
       /\ run' = [run EXCEPT ![j] = At("done")]
       /\ UNCHANGED <<world, host>>
    \/ /\ Is(j, "flag")
       /\ row' = [row EXCEPT ![j] = MarkedPending(@)]
       /\ run' = [run EXCEPT ![j] = [At("persist") EXCEPT !.verdict = "pendingVerification"]]
       /\ UNCHANGED <<world, host>>

--------------------------------------------------------------------------------
(* Cancellation and verification.                                               *)

\* request_cancel, then confirm_cancelled_not_started if the job was still queued.
CancelBegins(j) ==
    /\ alive /\ canceller[j] = "idle" /\ CanCancel(row[j])
    /\ row' = [row EXCEPT ![j] = CancelRequested(@)]
    /\ canceller' = [canceller EXCEPT ![j] = IF row[j].state = "queued" THEN "confirm" ELSE @]
    /\ UNCHANGED <<world, run, verifier, scan, alive, faults, crashes>>

CancelConfirms(j) ==
    /\ alive /\ canceller[j] = "confirm"
    /\ row' = IF CanConfirmCancelled(row[j])
                THEN [row EXCEPT ![j] = ConfirmedCancelled(@)] ELSE row
    /\ canceller' = [canceller EXCEPT ![j] = "idle"]
    /\ UNCHANGED <<world, run, verifier, scan, alive, faults, crashes>>

VerifyBegins(j) ==
    /\ alive /\ verifier[j].pc = "idle" /\ Verifiable(row[j])
    /\ verifier' = [verifier EXCEPT ![j] = [NoVerifier EXCEPT !.pc = "look",
                                                             !.version = row[j].version]]
    /\ UNCHANGED <<row, world, run, canceller, scan, alive, faults, crashes>>

\* The verifier reads the target: it may find batches no boundary tells of.
VerifyLooks(j) ==
    /\ alive /\ verifier[j].pc = "look"
    /\ \E n \in 0..(world[j] - row[j].bounds) :
       verifier' = [verifier EXCEPT ![j].pc = "persist",
                                    ![j].confirmed = n]
    /\ UNCHANGED <<row, world, run, canceller, scan, alive, faults, crashes>>

VerifyPersists(j) ==
    /\ alive /\ verifier[j].pc = "persist"
    /\ \E v \in {"resumeAfterVerify", "reject", "requireManualReview"} :
          row' = IF CanPersistVerification(row[j], verifier[j].version)
                   THEN [row EXCEPT ![j] = VerificationPersisted(@, v,
                            IF v = "resumeAfterVerify" THEN verifier[j].confirmed ELSE 0)]
                   ELSE row
    /\ verifier' = [verifier EXCEPT ![j] = NoVerifier]
    /\ UNCHANGED <<world, run, canceller, scan, alive, faults, crashes>>

--------------------------------------------------------------------------------
(* Starting: recover_desktop_jobs_at_startup scans the rows, one at a time.     *)

Listed(by) == [by |-> by, todo |-> {j \in Job : Recoverable(row[j])},
               seen |-> [j \in Job |-> row[j].state]]

Start ==
    /\ ~alive /\ scan.by = "none"
    /\ scan' = Listed("main")
    /\ UNCHANGED <<row, world, run, canceller, verifier, alive, faults, crashes>>

\* run_mcp_stdio builds its state on the same data directory.
HeadlessStarts ==
    /\ Headless /\ alive /\ scan.by = "none"
    /\ scan' = Listed("other")
    /\ UNCHANGED <<row, world, run, canceller, verifier, alive, faults, crashes>>

\* mark_failed_unstarted fails, and the scan with it, if the job is queued no more.
ScanMarks(j) ==
    /\ j \in scan.todo
    /\ \/ /\ scan.seen[j] = "running"
          /\ row' = [row EXCEPT ![j] = MarkedPending(@)]
          /\ scan' = [scan EXCEPT !.seen[j] = "marked"]
       \/ /\ scan.seen[j] = "marked"
          /\ row' = [row EXCEPT ![j] = RecoveryPersisted(@, "pendingVerification")]
          /\ scan' = [scan EXCEPT !.todo = @ \ {j}]
       \/ /\ scan.seen[j] = "queued" /\ Unclaimed(row[j])
          /\ row' = [row EXCEPT ![j] = FailedUnstarted(@)]
          /\ scan' = [scan EXCEPT !.todo = @ \ {j}]
       \/ /\ scan.seen[j] = "queued" /\ ~Unclaimed(row[j])
          /\ scan' = NoScan
          /\ UNCHANGED row
       \/ /\ scan.seen[j] \in Terminal
          /\ scan' = [scan EXCEPT !.todo = @ \ {j}]
          /\ UNCHANGED row
    /\ UNCHANGED <<world, run, canceller, verifier, alive, faults, crashes>>

ScanEnds ==
    /\ scan.by # "none" /\ scan.todo = {}
    /\ alive' = (alive \/ scan.by = "main")
    /\ scan' = NoScan
    /\ UNCHANGED <<row, world, run, canceller, verifier, faults, crashes>>

--------------------------------------------------------------------------------
(* Time and trouble.                                                            *)

\* claim_ttl passes; nothing renews a claim.
LeaseLapses(j) ==
    /\ row[j].lease = "live"
    /\ row' = [row EXCEPT ![j].lease = "lapsed"]
    /\ UNCHANGED <<world, run, host>>

BeforeClaim == {"queued", "reject", "recheck", "confirm"}
InDispatch == {"claim", "boundary", "start", "record", "broken", "checkpoint", "settle", "finish"}
InCaller == {"drive", "persist", "callerErr", "abandon", "flag"}

\* A call of the repository fails: where the error goes.
RepositoryFails(j) ==
    /\ alive /\ faults < MaxFaults
    /\ faults' = faults + 1
    /\ \/ /\ run[j].pc \in BeforeClaim
          /\ Goto(j, "callerErr")
       \/ /\ run[j].pc \in InDispatch
          /\ run[j].pc = "checkpoint" => run[j].all > 0
          /\ Goto(j, "fail")
       \/ /\ run[j].pc = "fail"
          /\ run' = [run EXCEPT ![j].pc = "callerErr", ![j].permit = FALSE]
       \/ /\ run[j].pc = "stage" /\ run[j].watching
          /\ run' = [run EXCEPT ![j].watching = FALSE]
       \/ /\ run[j].pc \in InCaller
          /\ run' = [run EXCEPT ![j] = At("done")]
    /\ UNCHANGED <<row, world, canceller, verifier, scan, alive, crashes>>

ScanFails ==
    /\ faults < MaxFaults /\ scan.by # "none"
    /\ faults' = faults + 1
    /\ scan' = NoScan
    /\ UNCHANGED <<row, world, run, canceller, verifier, alive, crashes>>

\* The process dies; a batch in flight is committed or not.
Crash ==
    /\ alive /\ crashes < MaxCrashes
    /\ crashes' = crashes + 1
    /\ alive' = FALSE
    /\ \E fate \in [Job -> BOOLEAN] :
          world' = [j \in Job |-> IF run[j].facts.open /\ fate[j] THEN world[j] + 1 ELSE world[j]]
    /\ run' = [j \in Job |-> IF run[j].pc = "idle" THEN run[j] ELSE At("done")]
    /\ canceller' = [j \in Job |-> "idle"]
    /\ verifier' = [j \in Job |-> NoVerifier]
    /\ UNCHANGED <<row, scan, faults>>

--------------------------------------------------------------------------------
StageEnds(j) == StageReturns(j) \/ StageBreaks(j)

HandlerStep(j) ==
    \/ BatchBegins(j) \/ BatchCommits(j) \/ BatchRollsBack(j) \/ BatchIsLost(j) \/ NextTable(j)
    \/ StageEnds(j)

RunStep(j) ==
    \/ RunBegins(j) \/ Reject(j) \/ Recheck(j) \/ Confirm(j) \/ Reserve(j) \/ Claim(j)
    \/ StageBoundary(j) \/ StageStarts(j) \/ RecordBoundary(j) \/ CloseStage(j) \/ CloseBroken(j)
    \/ SaveCheckpoint(j) \/ ReadVersion(j) \/ Finish(j) \/ DispatchFails(j)
    \/ Drive(j) \/ Persist(j) \/ CallerReads(j) \/ CallerMarks(j)

Next ==
    \/ \E j \in Job :
          \/ Accept(j) \/ RunStep(j) \/ HandlerStep(j) \/ WatcherPolls(j)
          \/ CancelBegins(j) \/ CancelConfirms(j)
          \/ VerifyBegins(j) \/ VerifyLooks(j) \/ VerifyPersists(j)
          \/ ScanMarks(j) \/ LeaseLapses(j) \/ RepositoryFails(j)
    \/ Start \/ HeadlessStarts \/ ScanEnds \/ ScanFails \/ Crash

Spec == Init /\ [][Next]_vars

\* The runtime's tasks are scheduled, a handler returns or fails in the end, and a
\* process that died is started again.
FairSpec ==
    /\ Spec
    /\ \A j \in Job : WF_vars(RunStep(j)) /\ WF_vars(StageEnds(j)) /\ WF_vars(ScanMarks(j))
    /\ WF_vars(Start) /\ WF_vars(ScanEnds)

--------------------------------------------------------------------------------
(* Correctness.                                                                 *)

TypeOK ==
    /\ row \in [Job -> Row]
    /\ world \in [Job -> Nat]
    /\ run \in [Job -> Run]
    /\ canceller \in [Job -> {"idle", "confirm"}]
    /\ verifier \in [Job -> [pc : {"idle", "look", "persist"}, version : Nat, confirmed : Nat]]
    /\ scan \in [by : {"none", "main", "other"}, todo : SUBSET Job, seen : [Job -> JobState \cup {"marked"}]]
    /\ alive \in BOOLEAN /\ faults \in Nat /\ crashes \in Nat

Settled(j) == row[j].state \in Terminal

\* What a finished job says of the target is so: nothing is there if it says that
\* nothing was executed or all was rolled back, all of it if it says completed.
OutcomeCoversWorld ==
    \A j \in Job : Settled(j) =>
        /\ row[j].effect \in {"notStarted", "rolledBack"} => world[j] = 0
        /\ row[j].effect = "completed" => world[j] = Stages * Batches
        /\ row[j].effect = "partiallyApplied" => world[j] > 0

\* No commit boundary is recorded of a batch that was never committed, and none is
\* missing from a job that succeeded.
BoundariesAreReal ==
    \A j \in Job : /\ row[j].bounds <= world[j]
                   /\ row[j].state = "succeeded" => row[j].bounds = world[j]

\* What a finished job committed and has no boundary for is flagged: its effect is
\* unknown, and someone has to verify it or has.
UnrecordedWorkIsFlagged ==
    \A j \in Job : Settled(j) /\ world[j] > row[j].bounds =>
        /\ row[j].effect = "unknown"
        /\ row[j].pending \/ row[j].verdict = "resumeAfterVerify"

\* "Not executed" is never the verdict on a job that wrote to the target.
NotExecutedIsTrue ==
    \A j \in Job : row[j].verdict = "notExecuted" => world[j] = 0

\* The target changes only while the job is running in the repository: who reads a
\* finished job, verifies or repeats it, does so with no writer behind his back.
SettledWorldStands ==
    [][\A j \in Job : world'[j] # world[j] => row[j].state = "running"]_vars

\* A finished job stays finished the way it did; its version tells any change.
TerminalIsFinal ==
    [][\A j \in Job : Settled(j) => /\ row'[j].state = row[j].state
                                   /\ row'[j].effect = row[j].effect]_vars

\* A job that was accepted ends, whatever dies on the way, unless the repository
\* fails more than once.
EveryJobEnds ==
    \A j \in Job : row[j].state \in {"queued", "running"} ~> Settled(j) \/ faults > 1
================================================================================
