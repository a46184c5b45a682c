------------------------------ MODULE JobRepository ------------------------------
(* SqliteJobRepository: the durable row of a job and the transactions on it.  A   *)
(* transaction is one operator on the row, and a predicate that says when it      *)
(* succeeds; the runtime that calls them is JobRuntime.                           *)
(*                                                                                *)
(* Sources: store/app_db/jobs/*.rs of the desktop.  The worker and the generation *)
(* of a claim are in lease: a job is claimed once, by the call that accepted it,  *)
(* so what a claim may still lose is its lease and the running state.  Stages,    *)
(* progress, artifacts and domain results are written under the same fence and    *)
(* read by no transaction; they are left out.                                     *)
EXTENDS Naturals

JobState == {"absent", "queued", "running", "succeeded", "failed", "cancelled"}
Terminal == {"succeeded", "failed", "cancelled"}
EffectOutcome == {"none", "notStarted", "completed", "rolledBack", "partiallyApplied", "unknown"}
Verdict == {"none", "notExecuted", "pendingVerification", "resumeAfterVerify", "reject",
            "requireManualReview"}

\* lease     the claim's: live until claim_ttl has passed, then lapsed
\* cancel    cancel_requested
\* pending   a pending_verification_reason is recorded
\* bounds    commit boundaries recorded; checkpoint: whether one is saved
Row == [state : JobState, version : Nat, lease : {"none", "live", "lapsed"}, cancel : BOOLEAN,
        effect : EffectOutcome, pending : BOOLEAN, verdict : Verdict, bounds : Nat,
        checkpoint : BOOLEAN]

NoRow == [state |-> "absent", version |-> 0, lease |-> "none", cancel |-> FALSE,
          effect |-> "none", pending |-> FALSE, verdict |-> "none", bounds |-> 0,
          checkpoint |-> FALSE]

--------------------------------------------------------------------------------
(* Admission, claim and the writes under a claim.                               *)

Accepted == [NoRow EXCEPT !.state = "queued", !.version = 1]

\* check_claim, which every write of a worker passes first.
ClaimHolds(r) == r.state = "running" /\ r.lease = "live"

CanClaim(r) == r.state \in {"queued", "running"} /\ ~ClaimHolds(r)
Claimed(r) == [r EXCEPT !.state = "running", !.version = @ + 1, !.lease = "live"]

BoundaryRecorded(r) == [r EXCEPT !.bounds = @ + 1]
CheckpointSaved(r) == [r EXCEPT !.checkpoint = TRUE]

\* finish: the fence, and compare-and-set on the version.
CanFinish(r, version) == ClaimHolds(r) /\ r.version = version
Finished(r, state, effect, pending) ==
    [r EXCEPT !.state = state, !.effect = effect, !.pending = pending, !.lease = "none",
              !.version = @ + 1, !.verdict = IF pending THEN "pendingVerification" ELSE @]

--------------------------------------------------------------------------------
(* Transactions that need no claim.                                             *)

CanCancel(r) == r.state \in {"queued", "running"}
CancelRequested(r) == [r EXCEPT !.cancel = TRUE]

Unclaimed(r) == r.state = "queued" /\ r.lease = "none"

CanConfirmCancelled(r) == Unclaimed(r) /\ r.cancel
ConfirmedCancelled(r) ==
    [r EXCEPT !.state = "cancelled", !.effect = "notStarted", !.version = @ + 1]

FailedUnstarted(r) ==
    [r EXCEPT !.state = "failed", !.effect = "notStarted", !.pending = FALSE,
              !.version = @ + 1, !.verdict = "notExecuted"]

\* As if a claim that lapsed had never been.
EffectWhenMarked_LiveOnly(r) ==
    IF r.state \in Terminal /\ r.effect # "none" THEN r.effect
      ELSE IF r.state \in Terminal \/ r.lease = "live" THEN "unknown"
      ELSE "notStarted"

\* mark_pending_verification asks for no claim; a terminal row keeps its outcome.
EffectWhenMarked(r) ==
    IF r.state \in Terminal /\ r.effect # "none" THEN r.effect
      ELSE IF r.state \in Terminal \cup {"running"} \/ r.lease # "none" THEN "unknown"
      ELSE "notStarted"

\* As if whatever is marked had failed.
MarkedPending_Always(r) ==
    [r EXCEPT !.state = "failed", !.version = @ + 1, !.effect = EffectWhenMarked(r),
              !.lease = "none", !.pending = TRUE, !.verdict = "pendingVerification"]

MarkedPending(r) ==
    [r EXCEPT !.state = IF @ \in Terminal THEN @ ELSE "failed",
              !.version = IF r.state \in Terminal THEN @ ELSE @ + 1,
              !.effect = EffectWhenMarked(r), !.lease = "none", !.pending = TRUE,
              !.verdict = "pendingVerification"]

\* persist_recovery: what the caller concludes, whatever the row holds.
Doubtful == {"pendingVerification", "reject", "requireManualReview"}
RecoveryPersisted(r, verdict) ==
    [r EXCEPT !.verdict = verdict, !.pending = @ \/ verdict \in Doubtful]

--------------------------------------------------------------------------------
(* The verification of an interrupted job.                                      *)

Verifiable(r) == r.state = "failed" /\ r.pending /\ r.verdict = "pendingVerification"
CanPersistVerification(r, version) == Verifiable(r) /\ r.version = version

\* Confirmed boundaries may only come with ResumeAfterVerify.
VerificationPersisted(r, verdict, confirmed) ==
    [r EXCEPT !.verdict = verdict, !.bounds = @ + confirmed, !.version = @ + 1,
              !.pending = verdict # "resumeAfterVerify"]

\* What list_recoverable returns of them to the scan at start.
Recoverable(r) ==
    r.state \in {"queued", "running", "cancelled"} \/ r.pending \/ r.verdict # "none"
================================================================================
