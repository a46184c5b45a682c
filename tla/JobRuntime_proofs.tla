---------------------------- MODULE JobRuntime_proofs ----------------------------
(* What the jobs of JobRuntime guarantee for any number of jobs, stages, batches, *)
(* crashes and failures of the repository.                                        *)
EXTENDS JobRuntime, TLAPS


--------------------------------------------------------------------------------
(* Types.                                                                       *)

LEMMA RowTypes ==
    ASSUME NEW r \in Row
    PROVE  /\ Accepted \in Row /\ Claimed(r) \in Row /\ BoundaryRecorded(r) \in Row
           /\ CheckpointSaved(r) \in Row /\ CancelRequested(r) \in Row
           /\ ConfirmedCancelled(r) \in Row /\ FailedUnstarted(r) \in Row
           /\ MarkedPending(r) \in Row
           /\ [r EXCEPT !.lease = "lapsed"] \in Row
           /\ \A v \in Verdict : RecoveryPersisted(r, v) \in Row
           /\ \A v \in Verdict, n \in Nat : VerificationPersisted(r, v, n) \in Row
           /\ \A s \in JobState, e \in EffectOutcome, p \in BOOLEAN : Finished(r, s, e, p) \in Row
  <1>1. r.version + 1 \in Nat /\ r.bounds + 1 \in Nat /\ \A n \in Nat : r.bounds + n \in Nat
    BY DEF Row
  <1> USE <1>1 DEF Row, JobState, EffectOutcome, Verdict
  <1>2. Accepted \in Row  BY DEF Accepted, NoRow
  <1>3. Claimed(r) \in Row  BY DEF Claimed
  <1>4. BoundaryRecorded(r) \in Row  BY DEF BoundaryRecorded
  <1>5. CheckpointSaved(r) \in Row /\ CancelRequested(r) \in Row
    BY DEF CheckpointSaved, CancelRequested
  <1>6. ConfirmedCancelled(r) \in Row  BY DEF ConfirmedCancelled
  <1>7. FailedUnstarted(r) \in Row  BY DEF FailedUnstarted
  <1>8. MarkedPending(r) \in Row
    <2>1. EffectWhenMarked(r) \in EffectOutcome  BY DEF EffectWhenMarked
    <2>2. QED  BY <2>1, ZenonT(60) DEF MarkedPending
  <1>9. [r EXCEPT !.lease = "lapsed"] \in Row  OBVIOUS
  <1>10. \A v \in Verdict : RecoveryPersisted(r, v) \in Row  BY ZenonT(60) DEF RecoveryPersisted, Doubtful
  <1>11. \A v \in Verdict, n \in Nat : VerificationPersisted(r, v, n) \in Row
    BY ZenonT(60) DEF VerificationPersisted
  <1>12. \A s \in JobState, e \in EffectOutcome, p \in BOOLEAN : Finished(r, s, e, p) \in Row
    <2> TAKE s \in JobState, e \in EffectOutcome, p \in BOOLEAN
    <2> DEFINE v == IF p THEN "pendingVerification" ELSE r.verdict
    <2>1. v \in Verdict  OBVIOUS
    <2>2. Finished(r, s, e, p) = [r EXCEPT !.state = s, !.effect = e, !.pending = p,
                                          !.lease = "none", !.version = @ + 1, !.verdict = v]
      BY DEF Finished
    <2> HIDE DEF v
    <2>3. QED  BY <2>1, <2>2, ZenonT(60)
  <1>13. QED
    BY <1>2, <1>3, <1>4, <1>5, <1>6, <1>7, <1>8, <1>9, <1>10, <1>11, <1>12, ZenonT(60)

LEMMA Sizes == /\ Stages \in Nat /\ Batches \in Nat /\ 1 \in 1..Stages /\ 0 \in 0..Batches
               /\ MaxFaults \in Nat /\ MaxCrashes \in Nat
  BY RuntimeAssumption

LEMMA NoneTypes == NoFacts \in Facts /\ NoReport \in Report /\ NoRow \in Row
  <1>1. NoFacts \in Facts  BY Sizes DEF NoFacts, Facts
  <1>2. NoReport \in Report  BY Sizes DEF NoReport, Report, StageTerminal, EffectOutcome
  <1>3. NoRow \in Row  BY DEF NoRow, Row, JobState, EffectOutcome, Verdict
  <1>4. QED  BY <1>1, <1>2, <1>3

LEMMA AtType == ASSUME NEW p \in Place PROVE At(p) \in Run
  <1>1. "none" \in Verdict /\ "notStarted" \in EffectOutcome  BY DEF Verdict, EffectOutcome
  <1>2. QED  BY <1>1, Sizes, NoneTypes DEF At, Run

\* The writes to a run that several actions share.
LEMMA RunTypes ==
    ASSUME NEW u \in Run, NEW p \in Place
    PROVE  /\ [u EXCEPT !.pc = p] \in Run
           /\ \A b \in BOOLEAN : [u EXCEPT !.pc = p, !.permit = b] \in Run
           /\ \A b \in BOOLEAN : [u EXCEPT !.watching = b] \in Run
           /\ \A b \in BOOLEAN, c \in BOOLEAN : [u EXCEPT !.watching = b, !.token = c] \in Run
           /\ \A f \in Facts, b \in BOOLEAN :
                 [u EXCEPT !.pc = p, !.facts = f, !.watching = b] \in Run
           /\ \A f \in Facts : [u EXCEPT !.facts = f] \in Run
           /\ \A v \in Verdict : [u EXCEPT !.pc = p, !.verdict = v] \in Run
           /\ \A n \in Nat : [u EXCEPT !.pc = p, !.version = n] \in Run
           /\ \A e \in EffectOutcome : [u EXCEPT !.pc = p, !.permit = FALSE, !.effect = e] \in Run
  BY ZenonT(60) DEF Run

\* The handler's knowledge leaves room for the batch in flight.
Fitting(f) == Done(f) + (IF f.open THEN 1 ELSE 0) + (IF f.doubt THEN 1 ELSE 0) <= Batches

TypeInv == TypeOK /\ \A j \in Job : Fitting(run[j].facts)

LEMMA TypeInit == Init => TypeInv
  <1> SUFFICES ASSUME Init PROVE TypeInv
    OBVIOUS
  <1> USE DEF Init
  <1>1. At("idle") \in Run  BY AtType DEF Place
  <1>2. NoScan.seen \in [Job -> JobState \cup {"marked"}]
    BY DEF NoScan, JobState
  <1>3. TypeOK  BY <1>1, <1>2, NoneTypes DEF TypeOK, NoVerifier, NoScan
  <1>4. ASSUME NEW j \in Job PROVE Fitting(run[j].facts)
    <2>1. run[j].facts = NoFacts  BY DEF At
    <2>2. QED  BY <2>1, Sizes DEF Fitting, NoFacts, Done
  <1>5. QED  BY <1>3, <1>4 DEF TypeInv

\* What concerns the runtime, the handler and the row of one job.
JobStep(j) ==
    \/ Accept(j) \/ RunStep(j) \/ HandlerStep(j) \/ WatcherPolls(j)
    \/ CancelBegins(j) \/ CancelConfirms(j)
    \/ VerifyBegins(j) \/ VerifyLooks(j) \/ VerifyPersists(j)
    \/ ScanMarks(j) \/ LeaseLapses(j) \/ RepositoryFails(j)

LEMMA FactTypes ==
    ASSUME NEW f \in Facts
    PROVE  /\ f.before \in 0..Batches /\ f.here \in 0..Batches
           /\ f.open \in BOOLEAN /\ f.doubt \in BOOLEAN /\ f.failed \in BOOLEAN
           /\ f.before \in Nat /\ f.here \in Nat /\ Done(f) \in Nat /\ Done(f) <= Batches
  BY Sizes DEF Facts, Done

LEMMA BatchFacts ==
    ASSUME NEW f \in Facts, Fitting(f)
    PROVE  /\ ~f.open /\ Left(f) > 0 =>
                 LET g == [f EXCEPT !.open = TRUE] IN g \in Facts /\ Fitting(g)
           /\ f.open =>
                 LET g == [f EXCEPT !.open = FALSE, !.here = @ + 1] IN g \in Facts /\ Fitting(g)
           /\ f.open =>
                 LET g == [f EXCEPT !.open = FALSE, !.failed = TRUE]
                 IN  g \in Facts /\ Fitting(g)
           /\ f.open /\ ~f.doubt =>
                 LET g == [f EXCEPT !.open = FALSE, !.failed = TRUE, !.doubt = TRUE]
                 IN  g \in Facts /\ Fitting(g)
           /\ ~f.open =>
                 LET g == [f EXCEPT !.before = Done(f), !.here = 0] IN g \in Facts /\ Fitting(g)
  <1> DEFINE Space == [before : 0..Batches, here : 0..Batches, open : BOOLEAN, doubt : BOOLEAN,
                       failed : BOOLEAN]
             Weight(b, h, o, d) == b + h + (IF o THEN 1 ELSE 0) + (IF d THEN 1 ELSE 0)
  <1>a. /\ f \in Space /\ f.before \in Nat /\ f.here \in Nat
        /\ f.open \in BOOLEAN /\ f.doubt \in BOOLEAN
    BY FactTypes DEF Facts
  <1>b. Weight(f.before, f.here, f.open, f.doubt) <= Batches  BY DEF Fitting, Done
  <1>c. ASSUME NEW g \in Space, Weight(g.before, g.here, g.open, g.doubt) <= Batches
        PROVE  g \in Facts /\ Fitting(g)
    <2>1. g.before \in Nat /\ g.here \in Nat  BY Sizes
    <2>2. g.before + g.here <= Batches  BY <1>c, <2>1, Sizes
    <2>3. QED  BY <1>c, <2>2 DEF Facts, Fitting, Done
  <1>1. ASSUME ~f.open, Left(f) > 0
        PROVE  LET g == [f EXCEPT !.open = TRUE] IN g \in Facts /\ Fitting(g)
    <2> DEFINE g == [f EXCEPT !.open = TRUE]
    <2>1. Weight(f.before, f.here, TRUE, f.doubt) <= Batches
      BY <1>1, <1>a, <1>b, Sizes DEF Left, Done
    <2>2. f.before \in 0..Batches /\ f.here \in 0..Batches
      BY <1>a, <2>1, FactTypes, Sizes DEF Done
    <2>3. g \in Space  BY <1>a, <2>2
    <2>4. g.before = f.before /\ g.here = f.here /\ g.open = TRUE /\ g.doubt = f.doubt
      BY <1>1, <1>a
    <2> HIDE DEF g
    <2>5. QED  BY <1>c, <2>1, <2>3, <2>4 DEF g
  <1>2. ASSUME f.open
        PROVE  LET g == [f EXCEPT !.open = FALSE, !.here = @ + 1] IN g \in Facts /\ Fitting(g)
    <2> DEFINE g == [f EXCEPT !.open = FALSE, !.here = @ + 1]
    <2>1. Weight(f.before, f.here + 1, FALSE, f.doubt) <= Batches
      BY <1>2, <1>a, <1>b, Sizes DEF Left, Done
    <2>2. f.before \in 0..Batches /\ f.here + 1 \in 0..Batches
      BY <1>a, <2>1, FactTypes, Sizes DEF Done
    <2>3. g \in Space  BY <1>a, <2>2
    <2>4. g.before = f.before /\ g.here = f.here + 1 /\ g.open = FALSE /\ g.doubt = f.doubt
      BY <1>2, <1>a
    <2> HIDE DEF g
    <2>5. QED  BY <1>c, <2>1, <2>3, <2>4 DEF g
  <1>3. ASSUME f.open
        PROVE  LET g == [f EXCEPT !.open = FALSE, !.failed = TRUE] IN g \in Facts /\ Fitting(g)
    <2> DEFINE g == [f EXCEPT !.open = FALSE, !.failed = TRUE]
    <2>1. Weight(f.before, f.here, FALSE, f.doubt) <= Batches
      BY <1>3, <1>a, <1>b, Sizes DEF Left, Done
    <2>2. f.before \in 0..Batches /\ f.here \in 0..Batches
      BY <1>a, <2>1, FactTypes, Sizes DEF Done
    <2>3. g \in Space  BY <1>a, <2>2
    <2>4. g.before = f.before /\ g.here = f.here /\ g.open = FALSE /\ g.doubt = f.doubt
      BY <1>3, <1>a
    <2> HIDE DEF g
    <2>5. QED  BY <1>c, <2>1, <2>3, <2>4 DEF g
  <1>4. ASSUME f.open, ~f.doubt
        PROVE  LET g == [f EXCEPT !.open = FALSE, !.failed = TRUE, !.doubt = TRUE] IN g \in Facts /\ Fitting(g)
    <2> DEFINE g == [f EXCEPT !.open = FALSE, !.failed = TRUE, !.doubt = TRUE]
    <2>1. Weight(f.before, f.here, FALSE, TRUE) <= Batches
      BY <1>4, <1>a, <1>b, Sizes DEF Left, Done
    <2>2. f.before \in 0..Batches /\ f.here \in 0..Batches
      BY <1>a, <2>1, FactTypes, Sizes DEF Done
    <2>3. g \in Space  BY <1>a, <2>2
    <2>4. g.before = f.before /\ g.here = f.here /\ g.open = FALSE /\ g.doubt = TRUE
      BY <1>4, <1>a
    <2> HIDE DEF g
    <2>5. QED  BY <1>c, <2>1, <2>3, <2>4 DEF g
  <1>5. ASSUME ~f.open
        PROVE  LET g == [f EXCEPT !.before = Done(f), !.here = 0] IN g \in Facts /\ Fitting(g)
    <2> DEFINE g == [f EXCEPT !.before = Done(f), !.here = 0]
    <2>1. Weight(Done(f), 0, FALSE, f.doubt) <= Batches
      BY <1>5, <1>a, <1>b, Sizes DEF Left, Done
    <2>2. Done(f) \in 0..Batches /\ 0 \in 0..Batches
      BY <1>a, <2>1, FactTypes, Sizes DEF Done
    <2>3. g \in Space  BY <1>a, <2>2
    <2>4. g.before = Done(f) /\ g.here = 0 /\ g.open = FALSE /\ g.doubt = f.doubt
      BY <1>5, <1>a
    <2> HIDE DEF g
    <2>5. QED  BY <1>c, <2>1, <2>3, <2>4 DEF g
  <1>6. QED  BY <1>1, <1>2, <1>3, <1>4, <1>5

LEMMA RunWritten ==
    ASSUME TypeInv, NEW j \in Job, NEW u \in Run, run' = [run EXCEPT ![j] = u],
           u.facts = run[j].facts \/ u.facts = NoFacts \/ Fitting(u.facts)
    PROVE  run' \in [Job -> Run] /\ \A k \in Job : Fitting(run'[k].facts)
  <1>1. run' \in [Job -> Run]  BY DEF TypeInv, TypeOK
  <1>2. Fitting(NoFacts)  BY Sizes DEF Fitting, NoFacts, Done
  <1>3. ASSUME NEW k \in Job PROVE Fitting(run'[k].facts)
    BY <1>2 DEF TypeInv, TypeOK
  <1>4. QED  BY <1>1, <1>3

\* An action on the row and the run of one job.
LEMMA WrittenType ==
    ASSUME TypeInv, NEW j \in Job, NEW r \in Row, NEW u \in Run,
           row' = [row EXCEPT ![j] = r], run' = [run EXCEPT ![j] = u],
           u.facts = run[j].facts \/ u.facts = NoFacts \/ Fitting(u.facts),
           world' = world \/ world' = [world EXCEPT ![j] = @ + 1], UNCHANGED host
    PROVE  TypeInv'
  <1>1. run' \in [Job -> Run] /\ \A k \in Job : Fitting(run'[k].facts)  BY RunWritten
  <1>2. row' \in [Job -> Row]  BY DEF TypeInv, TypeOK
  <1>3. world' \in [Job -> Nat]  BY DEF TypeInv, TypeOK
  <1>4. QED  BY <1>1, <1>2, <1>3 DEF TypeInv, TypeOK, host

LEMMA FencedType ==
    ASSUME TypeInv, NEW j \in Job, NEW r \in Row, NEW u \in Run, Fenced(j, r, u),
           u.facts = run[j].facts \/ u.facts = NoFacts, UNCHANGED <<world, host>>
    PROVE  TypeInv'
  <1>1. row[j] \in Row /\ run[j] \in Run /\ row = [row EXCEPT ![j] = row[j]]
    BY DEF TypeInv, TypeOK
  <1>2. CASE ClaimHolds(row[j])
    BY <1>2, WrittenType DEF Fenced
  <1>3. CASE ~ClaimHolds(row[j])
    <2> DEFINE v == [run[j] EXCEPT !.pc = "fail"]
    <2>0. v \in Run  BY <1>1, RunTypes, Zenon DEF Place
    <2>1. v.facts = run[j].facts  BY <1>1 DEF Run
    <2>2. run' = [run EXCEPT ![j] = v] /\ row' = [row EXCEPT ![j] = row[j]]
      BY <1>1, <1>3 DEF Fenced, Goto
    <2> HIDE DEF v
    <2>3. QED  BY <1>1, <2>0, <2>1, <2>2, WrittenType, Zenon
  <1>4. QED  BY <1>2, <1>3

LEMMA GotoType ==
    ASSUME TypeInv, NEW j \in Job, NEW r \in Row, NEW p \in Place, Goto(j, p),
           row' = [row EXCEPT ![j] = r], UNCHANGED <<world, host>>
    PROVE  TypeInv'
  <1> DEFINE u == [run[j] EXCEPT !.pc = p]
  <1>1. run[j] \in Run  BY SMTT(60) DEF TypeInv, TypeOK
  <1>2. u \in Run  BY <1>1, RunTypes
  <1>4. u.facts = run[j].facts  BY <1>1 DEF Run
  <1>3. run' = [run EXCEPT ![j] = u]  BY DEF Goto
  <1> HIDE DEF u
  <1>5. QED  BY <1>2, <1>3, <1>4, WrittenType

LEMMA ReportedType ==
    ASSUME NEW u \in Run, NEW p \in Report
    PROVE  Reported(u, p) \in Run /\ Reported(u, p).facts = NoFacts
  <1> DEFINE a == u.unknown \/ p.terminal = "unknown" \/ p.effect = "unknown"
             b == u.failed \/ p.terminal = "failed"
             c == u.cancelled \/ p.terminal = "cancelled"
             d == u.lost \/ p.lost
             e == IF p.terminal = "succeeded" THEN u.effect ELSE p.effect
  <1>1. Reported(u, p) = [u EXCEPT !.pc = "record", !.watching = FALSE, !.report = p,
            !.left = p.bounds, !.facts = NoFacts, !.unknown = a, !.failed = b, !.cancelled = c,
            !.lost = d, !.effect = e]
    BY DEF Reported
  <1>2. p.bounds \in 0..Batches /\ e \in EffectOutcome  BY DEF Report, Run
  <1>3. /\ a \in BOOLEAN /\ b \in BOOLEAN /\ c \in BOOLEAN /\ d \in BOOLEAN
    OBVIOUS
  <1> HIDE DEF a, b, c, d, e
  <1>4. Reported(u, p).facts = NoFacts  BY <1>1 DEF Run
  <1>5. "record" \in Place  BY DEF Place
  <1>6. Reported(u, p) \in Run  BY <1>1, <1>2, <1>3, <1>5, NoneTypes, ZenonT(60) DEF Run
  <1>7. QED  BY <1>4, <1>6

LEMMA RunTypeStep ==
    ASSUME TypeInv, NEW j \in Job, Accept(j) \/ RunStep(j) \/ HandlerStep(j) \/ WatcherPolls(j)
    PROVE  TypeInv'
  <1> DEFINE u == run[j]
             r == row[j]
  <1>a. /\ u \in Run /\ r \in Row /\ row = [row EXCEPT ![j] = r] /\ Fitting(u.facts)
    BY DEF TypeInv, TypeOK
  <1>b. /\ Accepted \in Row /\ Claimed(r) \in Row /\ BoundaryRecorded(r) \in Row
        /\ CheckpointSaved(r) \in Row /\ ConfirmedCancelled(r) \in Row
        /\ FailedUnstarted(r) \in Row /\ MarkedPending(r) \in Row
        /\ \A v \in Verdict : RecoveryPersisted(r, v) \in Row
    BY <1>a, RowTypes
  <1>c. /\ u.token \in BOOLEAN /\ u.unknown \in BOOLEAN /\ u.failed \in BOOLEAN
        /\ u.cancelled \in BOOLEAN /\ u.lost \in BOOLEAN /\ u.stage \in 1..Stages
        /\ u.left \in 0..Batches /\ u.all \in Nat /\ u.facts \in Facts /\ u.report \in Report
        /\ u.effect \in EffectOutcome /\ u.verdict \in Verdict /\ u.permit \in BOOLEAN
        /\ u.left \in Nat /\ u.version \in Nat
    BY <1>a, Sizes DEF Run
  <1>d. /\ r.cancel \in BOOLEAN /\ r.version \in Nat /\ r.effect \in EffectOutcome
    BY <1>a DEF Row
  <1>1. CASE Accept(j)
    BY <1>1, <1>b, GotoType DEF Accept, Place
  <1>2. CASE RunBegins(j)
    <2>1. PICK p \in {"recheck", "reject", "callerErr"} : Goto(j, p)
      BY <1>2 DEF RunBegins
    <2>2. p \in Place  BY DEF Place
    <2>3. QED  BY <1>2, <1>a, <2>1, <2>2, GotoType DEF RunBegins
  <1>3. CASE Reject(j)
    BY <1>3, <1>a, <1>b, GotoType DEF Reject, Place
  <1>4. CASE Recheck(j)
    BY <1>4, <1>a, GotoType DEF Recheck, Place
  <1>5. CASE Confirm(j)
    BY <1>5, <1>a, <1>b, GotoType DEF Confirm, Place
  <1>6. CASE Reserve(j)
    <2>1. CASE Goto(j, "reject")
      BY <1>6, <2>1, <1>a, GotoType DEF Reserve, Place
    <2>2. CASE run' = [run EXCEPT ![j].pc = "claim", ![j].permit = TRUE]
      <3> DEFINE v == [u EXCEPT !.pc = "claim", !.permit = TRUE]
      <3>1. v \in Run  BY <1>a, RunTypes, Zenon DEF Place
      <3>2. v.facts = u.facts  BY <1>a DEF Run
      <3>3. run' = [run EXCEPT ![j] = v]  BY <2>2 DEF TypeInv, TypeOK
      <3> HIDE DEF v
      <3>4. QED  BY <1>6, <1>a, <3>1, <3>2, <3>3, WrittenType DEF Reserve
    <2>3. QED  BY <1>6, <2>1, <2>2 DEF Reserve
  <1>7. CASE Claim(j)
    BY <1>7, <1>a, <1>b, GotoType DEF Claim, Place
  <1>8. CASE StageBoundary(j)
    <2>1. CASE Goto(j, "start")
      BY <1>8, <2>1, <1>a, GotoType DEF StageBoundary, Place
    <2>2. CASE ~Goto(j, "start")
      <3> DEFINE v == [u EXCEPT !.pc = "checkpoint", !.token = TRUE, !.cancelled = TRUE]
      <3>1. v \in Run  BY <1>a DEF Run, Place
      <3>2. v.facts = u.facts  BY <1>a DEF Run
      <3>3. run' = [run EXCEPT ![j] = v]  BY <1>8, <2>2 DEF StageBoundary, TypeInv, TypeOK
      <3> HIDE DEF v
      <3>4. QED  BY <1>8, <1>a, <3>1, <3>2, <3>3, WrittenType DEF StageBoundary
    <2>3. QED  BY <2>1, <2>2
  <1>9. CASE StageStarts(j)
    <2> DEFINE v == [u EXCEPT !.pc = "stage", !.facts = NoFacts, !.watching = TRUE]
    <2>1. v \in Run  BY <1>a, NoneTypes, RunTypes, Zenon DEF Place
    <2>2. v.facts = NoFacts  BY <1>a DEF Run
    <2> HIDE DEF v
    <2>3. QED  BY <1>9, <1>a, <2>1, <2>2, FencedType, Zenon DEF StageStarts, v
  <1>10. CASE RecordBoundary(j)
    <2> DEFINE v == [u EXCEPT !.left = @ - 1, !.all = @ + 1]
    <2>1. u.left - 1 \in 0..Batches /\ u.all + 1 \in Nat  BY <1>10, <1>c, Sizes DEF RecordBoundary
    <2>2. v \in Run  BY <1>a, <2>1 DEF Run
    <2>3. v.facts = u.facts  BY <1>a DEF Run
    <2> HIDE DEF v
    <2>4. QED  BY <1>10, <1>a, <1>b, <2>2, <2>3, FencedType DEF RecordBoundary, v
  <1>11. CASE CloseStage(j)
    <2> DEFINE v == IF u.report.terminal = "succeeded" /\ u.stage < Stages
                      THEN [u EXCEPT !.pc = "boundary", !.stage = @ + 1, !.report = NoReport]
                      ELSE [u EXCEPT !.pc = "checkpoint", !.report = NoReport]
    <2>1. u.stage < Stages => u.stage + 1 \in 1..Stages  BY <1>c, Sizes
    <2>2. v \in Run  BY <1>a, <2>1, NoneTypes, ZenonT(60) DEF Run, Place
    <2>3. v.facts = u.facts  BY <1>a DEF Run
    <2> HIDE DEF v
    <2>4. QED  BY <1>11, <1>a, <2>2, <2>3, FencedType DEF CloseStage, v
  <1>12. CASE CloseBroken(j)
    <2> DEFINE v == [u EXCEPT !.pc = "checkpoint", !.failed = TRUE, !.unknown = TRUE,
                              !.effect = "unknown"]
    <2>1. v \in Run  BY <1>a, Zenon DEF Run, Place, EffectOutcome
    <2>2. v.facts = u.facts  BY <1>a DEF Run
    <2> HIDE DEF v
    <2>3. QED  BY <1>12, <1>a, <2>1, <2>2, FencedType DEF CloseBroken, v
  <1>13. CASE SaveCheckpoint(j)
    <2> DEFINE v == [u EXCEPT !.pc = "settle"]
    <2>1. v \in Run  BY <1>a, RunTypes, Zenon DEF Place
    <2>2. v.facts = u.facts  BY <1>a DEF Run
    <2> HIDE DEF v
    <2>3. CASE Fenced(j, CheckpointSaved(r), v)
      BY <1>13, <1>a, <1>b, <2>1, <2>2, <2>3, FencedType DEF SaveCheckpoint
    <2>4. CASE Goto(j, "settle") /\ UNCHANGED row
      BY <1>13, <1>a, <2>4, GotoType DEF SaveCheckpoint, Place
    <2>5. QED  BY <1>13, <2>3, <2>4 DEF SaveCheckpoint, v
  <1>14. CASE ReadVersion(j)
    <2> DEFINE v == [u EXCEPT !.pc = "finish", !.version = r.version]
    <2>1. v \in Run  BY <1>a, <1>d, RunTypes, Zenon DEF Place
    <2>2. v.facts = u.facts  BY <1>a DEF Run
    <2>3. run' = [run EXCEPT ![j] = v]  BY <1>14 DEF ReadVersion, TypeInv, TypeOK
    <2> HIDE DEF v
    <2>4. QED  BY <1>14, <1>a, <2>1, <2>2, <2>3, WrittenType, Zenon DEF ReadVersion
  <1>15. CASE Finish(j)
    <2> DEFINE e == FinalEffect(u)
               s == FinalState(u)
               v == [u EXCEPT !.pc = "drive", !.permit = FALSE, !.effect = e]
    <2>1. e \in EffectOutcome /\ s \in JobState
      BY <1>c DEF FinalEffect, FinalState, EffectOutcome, JobState
    <2>2. Finished(r, s, e, u.unknown) \in Row  BY <1>a, <1>c, <2>1, RowTypes, Zenon
    <2> HIDE DEF e, s
    <2>3. v \in Run  BY <1>a, <2>1, RunTypes, Zenon DEF Place
    <2>4. v.facts = u.facts  BY <1>a DEF Run
    <2>5. CASE CanFinish(r, u.version)
      <3>1. run' = [run EXCEPT ![j] = v]  BY <1>15, <2>5 DEF Finish, TypeInv, TypeOK, e
      <3>2. row' = [row EXCEPT ![j] = Finished(r, s, e, u.unknown)]
        BY <1>15, <2>5 DEF Finish, e, s
      <3> HIDE DEF v
      <3>3. QED  BY <1>15, <2>2, <2>3, <2>4, <3>1, <3>2, WrittenType DEF Finish
    <2>6. CASE ~CanFinish(r, u.version)
      BY <1>15, <1>a, <2>6, GotoType DEF Finish, Place
    <2>7. QED  BY <2>5, <2>6
  <1>16. CASE DispatchFails(j)
    <2> DEFINE v == [u EXCEPT !.pc = "callerErr", !.permit = FALSE]
    <2>1. v \in Run  BY <1>a, RunTypes, Zenon DEF Place
    <2>2. v.facts = u.facts  BY <1>a DEF Run
    <2>3. run' = [run EXCEPT ![j] = v]  BY <1>16 DEF DispatchFails, TypeInv, TypeOK
    <2> HIDE DEF v
    <2>4. QED  BY <1>16, <1>b, <2>1, <2>2, <2>3, WrittenType, Zenon DEF DispatchFails
  <1>17. CASE Drive(j)
    <2>1. PICK w \in Verdict : run' = [run EXCEPT ![j].pc = "persist", ![j].verdict = w]
      BY <1>17, Zenon DEF Drive, Conclusions, Verdict
    <2> DEFINE v == [u EXCEPT !.pc = "persist", !.verdict = w]
    <2>2. v \in Run  BY <1>a, RunTypes, Zenon DEF Place
    <2>3. v.facts = u.facts  BY <1>a DEF Run
    <2>4. run' = [run EXCEPT ![j] = v]  BY <2>1 DEF TypeInv, TypeOK
    <2> HIDE DEF v
    <2>5. QED  BY <1>17, <1>a, <2>2, <2>3, <2>4, WrittenType DEF Drive
  <1>18. CASE Persist(j)
    <2>1. At("done") \in Run /\ At("done").facts = NoFacts  BY AtType DEF Place, At
    <2>2. QED  BY <1>18, <1>b, <1>c, <2>1, WrittenType DEF Persist
  <1>19. CASE CallerReads(j)
    <2> DEFINE v == CASE r.state = "queued" -> At("abandon")
                      [] r.state = "running" -> At("flag")
                      [] r.state = "cancelled" -> [At("drive") EXCEPT !.effect = r.effect]
                      [] OTHER -> At("done")
    <2>1. \A p \in {"abandon", "flag", "drive", "done"} : At(p) \in Run /\ At(p).facts = NoFacts
      BY AtType, ZenonT(60) DEF Place, At
    <2>2. LET w == [At("drive") EXCEPT !.effect = r.effect] IN w \in Run /\ w.facts = NoFacts
      BY <1>d, <2>1 DEF Run
    <2>3. v \in Run /\ v.facts = NoFacts  BY <2>1, <2>2
    <2> HIDE DEF v
    <2>4. QED  BY <1>19, <1>a, <2>3, WrittenType DEF CallerReads, v
  <1>20. CASE CallerMarks(j)
    <2>1. At("done") \in Run /\ At("done").facts = NoFacts  BY AtType DEF Place, At
    <2> DEFINE v == [At("persist") EXCEPT !.verdict = "pendingVerification"]
    <2>2. At("persist") \in Run /\ At("persist").facts = NoFacts  BY AtType DEF Place, At
    <2>3. v \in Run /\ v.facts = NoFacts  BY <2>2 DEF Run, Verdict
    <2> HIDE DEF v
    <2>4. QED  BY <1>20, <1>a, <1>b, <2>1, <2>3, WrittenType DEF CallerMarks, v
  <1>21. CASE WatcherPolls(j)
    <2> DEFINE v == [u EXCEPT !.watching = FALSE, !.token = @ \/ r.cancel]
    <2>1. \A t \in BOOLEAN : [u EXCEPT !.watching = FALSE, !.token = t] \in Run
      BY <1>a DEF Run
    <2>2. v \in Run  BY <2>1, <1>c, <1>d
    <2>3. v.facts = u.facts  BY <1>a DEF Run
    <2>4. run' = [run EXCEPT ![j] = v]  BY <1>21 DEF WatcherPolls, TypeInv, TypeOK
    <2> HIDE DEF v
    <2>5. QED  BY <1>21, <1>a, <2>2, <2>3, <2>4, WrittenType DEF WatcherPolls
  <1>22. CASE HandlerStep(j)
    <2>1. CASE StageReturns(j)
      <3>1. PICK p \in Reports(u.facts, u.token) : run' = [run EXCEPT ![j] = Reported(u, p)]
        BY <2>1 DEF StageReturns
      <3>2. p \in Report  BY <1>c, RuntimeAssumption
      <3>3. Reported(u, p) \in Run /\ Reported(u, p).facts = NoFacts  BY <1>a, <3>2, ReportedType
      <3>4. QED  BY <2>1, <1>a, <3>1, <3>3, WrittenType DEF StageReturns
    <2>2. CASE StageBreaks(j)
      <3> DEFINE v == [u EXCEPT !.pc = "broken", !.watching = FALSE, !.facts = NoFacts]
      <3>1. v \in Run  BY <1>a, NoneTypes, RunTypes, Zenon DEF Place
      <3>2. v.facts = NoFacts  BY <1>a DEF Run
      <3>3. run' = [run EXCEPT ![j] = v]  BY <2>2 DEF StageBreaks, TypeInv, TypeOK
      <3> HIDE DEF v
      <3>4. QED  BY <2>2, <1>a, <3>1, <3>2, <3>3, WrittenType, Zenon DEF StageBreaks, Fate
    <2>3. ASSUME NEW g \in Facts, Fitting(g), run' = [run EXCEPT ![j].facts = g],
                 world' = world \/ world' = [world EXCEPT ![j] = @ + 1], UNCHANGED <<row, host>>
          PROVE  TypeInv'
      <3> DEFINE v == [u EXCEPT !.facts = g]
      <3>1. v \in Run  BY <1>a, <2>3 DEF Run
      <3>2. v.facts = g  BY <1>a DEF Run
      <3>3. run' = [run EXCEPT ![j] = v]  BY <2>3, SMTT(60) DEF TypeInv, TypeOK
      <3> HIDE DEF v
      <3>4. QED  BY <2>3, <1>a, <3>1, <3>2, <3>3, WrittenType, ZenonT(60)
    <2>4. CASE BatchBegins(j)
      <3>1. run' = [run EXCEPT ![j].facts = [u.facts EXCEPT !.open = TRUE]]
        BY <2>4 DEF BatchBegins
      <3>2. QED  BY <2>4, <1>a, <1>c, <2>3, <3>1, BatchFacts DEF BatchBegins
    <2>5. CASE BatchCommits(j)
      <3>1. run' = [run EXCEPT ![j].facts = [u.facts EXCEPT !.open = FALSE, !.here = @ + 1]]
        BY <2>5, <1>a, <1>c, SMTT(60) DEF BatchCommits, TypeInv, TypeOK, Run, Facts
      <3>2. QED  BY <2>5, <1>a, <1>c, <2>3, <3>1, BatchFacts DEF BatchCommits
    <2>6. CASE BatchRollsBack(j)
      <3>1. run' = [run EXCEPT ![j].facts = [u.facts EXCEPT !.open = FALSE, !.failed = TRUE]]
        BY <2>6, SMTT(60) DEF BatchRollsBack
      <3>2. QED  BY <2>6, <1>a, <1>c, <2>3, <3>1, BatchFacts DEF BatchRollsBack
    <2>7. CASE BatchIsLost(j)
      <3>1. run' = [run EXCEPT ![j].facts = [u.facts EXCEPT !.open = FALSE, !.failed = TRUE,
                                                            !.doubt = TRUE]]
        BY <2>7, SMTT(60) DEF BatchIsLost
      <3>2. QED  BY <2>7, <1>a, <1>c, <2>3, <3>1, BatchFacts, ZenonT(60) DEF BatchIsLost, Fate
    <2>8. CASE NextTable(j)
      <3>1. run' = [run EXCEPT ![j].facts = [u.facts EXCEPT !.before = Done(u.facts), !.here = 0]]
        BY <2>8 DEF NextTable
      <3>2. QED  BY <2>8, <1>a, <1>c, <2>3, <3>1, BatchFacts DEF NextTable
    <2>9. QED  BY <1>22, <2>1, <2>2, <2>4, <2>5, <2>6, <2>7, <2>8 DEF HandlerStep, StageEnds
  <1>23. QED
    BY <1>1, <1>2, <1>3, <1>4, <1>5, <1>6, <1>7, <1>8, <1>9, <1>10, <1>11, <1>12, <1>13, <1>14,
       <1>15, <1>16, <1>17, <1>18, <1>19, <1>20, <1>21, <1>22 DEF RunStep

LEMMA HostTypeStep ==
    ASSUME TypeInv, NEW j \in Job,
           \/ CancelBegins(j) \/ CancelConfirms(j) \/ VerifyBegins(j) \/ VerifyLooks(j)
           \/ VerifyPersists(j) \/ ScanMarks(j) \/ LeaseLapses(j) \/ RepositoryFails(j)
    PROVE  TypeInv'
  <1> DEFINE u == run[j]
             r == row[j]
  <1>a. /\ u \in Run /\ r \in Row /\ row = [row EXCEPT ![j] = r] /\ Fitting(u.facts)
        /\ world[j] \in Nat /\ verifier[j].confirmed \in Nat
        /\ r.version \in Nat /\ r.bounds \in Nat
    <2>1. r \in Row /\ world[j] \in Nat  BY DEF TypeInv, TypeOK
    <2>2. r.version \in Nat /\ r.bounds \in Nat  BY <2>1 DEF Row
    <2>3. QED  BY <2>1, <2>2 DEF TypeInv, TypeOK
  <1>b. /\ CancelRequested(r) \in Row /\ ConfirmedCancelled(r) \in Row
        /\ FailedUnstarted(r) \in Row /\ MarkedPending(r) \in Row
        /\ [r EXCEPT !.lease = "lapsed"] \in Row
        /\ \A v \in Verdict : RecoveryPersisted(r, v) \in Row
        /\ \A v \in Verdict, n \in Nat : VerificationPersisted(r, v, n) \in Row
    BY <1>a, RowTypes
  <1>c. ASSUME NEW s \in Row, row' = [row EXCEPT ![j] = s] \/ UNCHANGED row, UNCHANGED <<world, run>>
        PROVE  row' \in [Job -> Row] /\ world' \in [Job -> Nat] /\ run' \in [Job -> Run]
               /\ \A k \in Job : Fitting(run'[k].facts)
    BY <1>c DEF TypeInv, TypeOK
  <1>1. CASE CancelBegins(j)
    BY <1>1, <1>b, <1>c DEF CancelBegins, TypeInv, TypeOK
  <1>2. CASE CancelConfirms(j)
    BY <1>2, <1>b, <1>c DEF CancelConfirms, TypeInv, TypeOK
  <1>3. CASE VerifyBegins(j)
    BY <1>3, <1>a DEF VerifyBegins, NoVerifier, TypeInv, TypeOK
  <1>4. CASE VerifyLooks(j)
    <2>1. PICK n \in 0..(world[j] - r.bounds) :
             verifier' = [verifier EXCEPT ![j].pc = "persist", ![j].confirmed = n]
      BY <1>4 DEF VerifyLooks
    <2>2. n \in Nat  BY <1>a
    <2> DEFINE V == [pc : {"idle", "look", "persist"}, version : Nat, confirmed : Nat]
               v == [verifier[j] EXCEPT !.pc = "persist", !.confirmed = n]
    <2>3. verifier \in [Job -> V]  BY DEF TypeInv, TypeOK
    <2>4. v \in V  BY <2>2, <2>3
    <2>5. verifier' = [verifier EXCEPT ![j] = v]  BY <2>1, <2>3
    <2>6. verifier' \in [Job -> V]  BY <2>3, <2>4, <2>5
    <2>7. QED  BY <1>4, <2>6 DEF VerifyLooks, TypeInv, TypeOK
  <1>5. CASE VerifyPersists(j)
    <2>1. PICK v \in {"resumeAfterVerify", "reject", "requireManualReview"} :
             row' = IF CanPersistVerification(r, verifier[j].version)
                      THEN [row EXCEPT ![j] = VerificationPersisted(r, v,
                              IF v = "resumeAfterVerify" THEN verifier[j].confirmed ELSE 0)]
                      ELSE row
      BY <1>5 DEF VerifyPersists
    <2> DEFINE n == IF v = "resumeAfterVerify" THEN verifier[j].confirmed ELSE 0
    <2>2. v \in Verdict /\ n \in Nat  BY <1>a DEF Verdict
    <2>3. VerificationPersisted(r, v, n) \in Row  BY <1>b, <2>2
    <2>4. verifier' \in [Job -> [pc : {"idle", "look", "persist"}, version : Nat, confirmed : Nat]]
      BY <1>5 DEF VerifyPersists, NoVerifier, TypeInv, TypeOK
    <2>5. QED  BY <1>5, <1>c, <2>1, <2>3, <2>4 DEF VerifyPersists, TypeInv, TypeOK
  <1>6. CASE ScanMarks(j)
    <2>1. "pendingVerification" \in Verdict  BY DEF Verdict
    <2>2. \E s \in Row : (row' = [row EXCEPT ![j] = s] \/ UNCHANGED row)
      BY <1>6, <1>b, <2>1 DEF ScanMarks
    <2>3. scan' \in [by : {"none", "main", "other"}, todo : SUBSET Job,
                     seen : [Job -> JobState \cup {"marked"}]]
      <3>1. NoScan.seen \in [Job -> JobState \cup {"marked"}]  BY DEF NoScan, JobState
      <3>2. NoScan.by = "none" /\ NoScan.todo = {}  BY DEF NoScan
      <3>3. \/ scan' = NoScan
            \/ scan' = [scan EXCEPT !.seen[j] = "marked"]
            \/ scan' = [scan EXCEPT !.todo = @ \ {j}]
        BY <1>6 DEF ScanMarks
      <3>4. CASE scan' = NoScan  BY <3>1, <3>4 DEF NoScan
      <3>5. CASE scan' = [scan EXCEPT !.seen[j] = "marked"]  BY <3>5 DEF TypeInv, TypeOK
      <3>6. CASE scan' = [scan EXCEPT !.todo = @ \ {j}]  BY <3>6 DEF TypeInv, TypeOK
      <3>7. QED  BY <3>3, <3>4, <3>5, <3>6
    <2>4. QED  BY <1>6, <1>c, <2>2, <2>3 DEF ScanMarks, TypeInv, TypeOK
  <1>7. CASE LeaseLapses(j)
    BY <1>7, <1>b, <1>c DEF LeaseLapses, host, TypeInv, TypeOK
  <1>8. CASE RepositoryFails(j)
    <2> DEFINE Rewritten ==
                 \E v \in Run : /\ run' = [run EXCEPT ![j] = v]
                                /\ v.facts = u.facts \/ v.facts = NoFacts
    <2>1. Rewritten
      <3>1. ASSUME NEW p \in {"callerErr", "fail"}, Goto(j, p) PROVE Rewritten
        <4>1. [u EXCEPT !.pc = p] \in Run  BY <1>a, RunTypes, Zenon DEF Place
        <4>2. [u EXCEPT !.pc = p].facts = u.facts  BY <1>a DEF Run
        <4>3. QED  BY <3>1, <4>1, <4>2, Zenon DEF Goto
      <3>2. ASSUME run' = [run EXCEPT ![j].pc = "callerErr", ![j].permit = FALSE] PROVE Rewritten
        <4> DEFINE v == [u EXCEPT !.pc = "callerErr", !.permit = FALSE]
        <4>1. v \in Run  BY <1>a, RunTypes, Zenon DEF Place
        <4>2. v.facts = u.facts  BY <1>a DEF Run
        <4>3. run' = [run EXCEPT ![j] = v]  BY <3>2 DEF TypeInv, TypeOK
        <4>4. QED  BY <4>1, <4>2, <4>3, Zenon
      <3>3. ASSUME run' = [run EXCEPT ![j].watching = FALSE] PROVE Rewritten
        <4>1. [u EXCEPT !.watching = FALSE] \in Run  BY <1>a DEF Run
        <4>2. [u EXCEPT !.watching = FALSE].facts = u.facts  BY <1>a DEF Run
        <4>3. QED  BY <3>3, <4>1, <4>2
      <3>4. ASSUME run' = [run EXCEPT ![j] = At("done")] PROVE Rewritten
        BY <3>4, AtType DEF Place, At
      <3>5. QED  BY <1>8, <3>1, <3>2, <3>3, <3>4 DEF RepositoryFails
    <2>2. PICK v \in Run : /\ run' = [run EXCEPT ![j] = v]
                           /\ v.facts = u.facts \/ v.facts = NoFacts
      BY <2>1
    <2>3. run' \in [Job -> Run] /\ \A k \in Job : Fitting(run'[k].facts)  BY <2>2, RunWritten
    <2>4. QED  BY <1>8, <2>3 DEF RepositoryFails, TypeInv, TypeOK
  <1>9. QED  BY <1>1, <1>2, <1>3, <1>4, <1>5, <1>6, <1>7, <1>8

LEMMA TypeStep == TypeInv /\ [Next]_vars => TypeInv'
  <1> SUFFICES ASSUME TypeInv, [Next]_vars PROVE TypeInv'
    OBVIOUS
  <1>1. ASSUME NEW j \in Job, JobStep(j) PROVE TypeInv'
    BY <1>1, RunTypeStep, HostTypeStep DEF JobStep
  <1>2. ASSUME NEW by \in {"main", "other"}, scan' = Listed(by),
               UNCHANGED <<row, world, run, canceller, verifier, alive, faults, crashes>>
        PROVE  TypeInv'
    <2>1. \A j \in Job : row[j].state \in JobState  BY DEF TypeInv, TypeOK, Row
    <2>2. [j \in Job |-> row[j].state] \in [Job -> JobState \cup {"marked"}]  BY <2>1
    <2>3. QED  BY <1>2, <2>2 DEF Listed, TypeInv, TypeOK
  <1>3. CASE Start \/ HeadlessStarts
    BY <1>2, <1>3 DEF Start, HeadlessStarts
  <1>4. NoScan \in [by : {"none", "main", "other"}, todo : SUBSET Job,
                    seen : [Job -> JobState \cup {"marked"}]]
    BY DEF NoScan, JobState
  <1>5. CASE ScanEnds
    BY <1>4, <1>5 DEF ScanEnds, TypeInv, TypeOK
  <1>6. CASE ScanFails
    BY <1>4, <1>6 DEF ScanFails, TypeInv, TypeOK
  <1>7. CASE Crash
    <2>1. run' = [j \in Job |-> IF run[j].pc = "idle" THEN run[j] ELSE At("done")]
      BY <1>7 DEF Crash
    <2>2. At("done") \in Run /\ At("done").facts = NoFacts /\ Fitting(NoFacts)
      BY AtType, Sizes DEF Place, At, Fitting, NoFacts, Done
    <2>3. run' \in [Job -> Run] /\ \A j \in Job : Fitting(run'[j].facts)
      BY <2>1, <2>2 DEF TypeInv, TypeOK
    <2>4. world' \in [Job -> Nat]  BY <1>7 DEF Crash, TypeInv, TypeOK
    <2>5. /\ canceller' \in [Job -> {"idle", "confirm"}]
          /\ alive' \in BOOLEAN
          /\ crashes' \in Nat
      <3>1. crashes \in Nat  BY DEF TypeInv, TypeOK
      <3>2. /\ canceller' = [j \in Job |-> "idle"] /\ alive' = FALSE
            /\ crashes' = crashes + 1
        BY <1>7 DEF Crash
      <3>3. crashes' \in Nat  BY <3>1, <3>2
      <3>4. canceller' \in [Job -> {"idle", "confirm"}]  BY <3>2
      <3>5. QED  BY <3>2, <3>3, <3>4
    <2>6. verifier' \in [Job -> [pc : {"idle", "look", "persist"}, version : Nat, confirmed : Nat]]
      BY <1>7 DEF Crash, NoVerifier
    <2>7. UNCHANGED <<row, scan, faults>>  BY <1>7 DEF Crash
    <2>8. QED  BY <2>3, <2>4, <2>5, <2>6, <2>7 DEF TypeInv, TypeOK
  <1>8. CASE UNCHANGED vars
    BY <1>8 DEF vars, TypeInv, TypeOK
  <1>9. QED  BY <1>1, <1>3, <1>5, <1>6, <1>7, <1>8 DEF Next, JobStep

\* Type correctness: the rows, runs and targets stay what they are declared to be,
\* whatever the handlers report: a stage never goes past the last, a handler never
\* knows of more batches than its stage has, a report has no boundary too many.
THEOREM JobsTypeCorrect == Spec => []TypeOK
  <1>1. TypeInv => TypeOK  BY DEF TypeInv
  <1>2. QED  BY <1>1, TypeInit, TypeStep, PTL DEF Spec

--------------------------------------------------------------------------------
(* A finished job stays as it ended.                                            *)

\* A job is touched by its own steps only.
LEMMA OneJob ==
    ASSUME TypeInv, NEW j \in Job, JobStep(j), NEW k \in Job, k # j
    PROVE  row'[k] = row[k] /\ world'[k] = world[k] /\ run'[k] = run[k] /\ verifier'[k] = verifier[k]
  <1> USE DEF TypeInv, TypeOK, host
  <1>1. CASE Accept(j)  BY <1>1 DEF Accept, Goto
  <1>2. CASE RunStep(j)
    <2> USE DEF Goto, Fenced
    <2>1. CASE RunBegins(j) \/ Reject(j) \/ Recheck(j) \/ Confirm(j) \/ Reserve(j) \/ Claim(j)
      BY <2>1 DEF RunBegins, Reject, Recheck, Confirm, Reserve, Claim
    <2>2. CASE StageBoundary(j) \/ StageStarts(j) \/ RecordBoundary(j)
      BY <2>2 DEF StageBoundary, StageStarts, RecordBoundary
    <2>3. CASE CloseStage(j) \/ CloseBroken(j) \/ SaveCheckpoint(j) \/ ReadVersion(j)
      BY <2>3 DEF CloseStage, CloseBroken, SaveCheckpoint, ReadVersion
    <2>4. CASE Finish(j) \/ DispatchFails(j) \/ Drive(j)
      BY <2>4 DEF Finish, DispatchFails, Drive
    <2>5. CASE Persist(j) \/ CallerReads(j) \/ CallerMarks(j)
      BY <2>5 DEF Persist, CallerReads, CallerMarks
    <2>6. QED  BY <1>2, <2>1, <2>2, <2>3, <2>4, <2>5 DEF RunStep
  <1>3. CASE HandlerStep(j)
    BY <1>3 DEF HandlerStep, StageEnds, BatchBegins, BatchCommits, BatchRollsBack, BatchIsLost,
                NextTable, StageReturns, StageBreaks, Fate
  <1>4. CASE WatcherPolls(j)  BY <1>4 DEF WatcherPolls
  <1>5. CASE CancelBegins(j) \/ CancelConfirms(j)  BY <1>5 DEF CancelBegins, CancelConfirms
  <1>6. CASE VerifyBegins(j) \/ VerifyLooks(j) \/ VerifyPersists(j)
    BY <1>6 DEF VerifyBegins, VerifyLooks, VerifyPersists
  <1>7. CASE ScanMarks(j)  BY <1>7 DEF ScanMarks
  <1>8. CASE LeaseLapses(j) \/ RepositoryFails(j)  BY <1>8 DEF LeaseLapses, RepositoryFails, Goto
  <1>9. QED  BY <1>1, <1>2, <1>3, <1>4, <1>5, <1>6, <1>7, <1>8 DEF JobStep

\* How the row of a job changes, whoever writes it.
LEMMA RowChanges ==
    ASSUME TypeInv, NEW j \in Job, JobStep(j)
    PROVE  LET r == row[j]
               u == run[j]
           IN  \/ row'[j] = r
               \/ r.state = "absent" /\ row'[j] = Accepted
               \/ CanClaim(r) /\ row'[j] = Claimed(r)
               \/ row'[j] \in {BoundaryRecorded(r), CheckpointSaved(r), CancelRequested(r),
                               MarkedPending(r), [r EXCEPT !.lease = "lapsed"]}
               \/ /\ CanFinish(r, u.version)
                  /\ row'[j] = Finished(r, FinalState(u), FinalEffect(u), u.unknown)
               \/ CanConfirmCancelled(r) /\ row'[j] = ConfirmedCancelled(r)
               \/ Unclaimed(r) /\ row'[j] = FailedUnstarted(r)
               \/ \E v \in Verdict : row'[j] = RecoveryPersisted(r, v)
               \/ \E v \in Verdict, n \in Nat : row'[j] = VerificationPersisted(r, v, n)
  <1> USE DEF TypeInv, TypeOK, host
  <1>1. CASE Accept(j)  BY <1>1 DEF Accept
  <1>2. CASE RunStep(j)
    <2> USE DEF Goto, Fenced
    <2>1. CASE RunBegins(j) \/ Reject(j) \/ Recheck(j) \/ Confirm(j) \/ Reserve(j) \/ Claim(j)
      BY <2>1 DEF RunBegins, Reject, Recheck, Confirm, Reserve, Claim
    <2>2. CASE StageBoundary(j) \/ StageStarts(j) \/ RecordBoundary(j)
      BY <2>2 DEF StageBoundary, StageStarts, RecordBoundary
    <2>3. CASE CloseStage(j) \/ CloseBroken(j) \/ SaveCheckpoint(j) \/ ReadVersion(j)
      BY <2>3 DEF CloseStage, CloseBroken, SaveCheckpoint, ReadVersion
    <2>4. CASE Finish(j) \/ DispatchFails(j) \/ Drive(j)
      BY <2>4 DEF Finish, DispatchFails, Drive
    <2>5. CASE Persist(j)
      <3>1. run[j].verdict \in Verdict  BY DEF Run
      <3>2. QED  BY <2>5, <3>1 DEF Persist
    <2>6. CASE CallerReads(j) \/ CallerMarks(j)
      BY <2>6 DEF CallerReads, CallerMarks
    <2>7. QED  BY <1>2, <2>1, <2>2, <2>3, <2>4, <2>5, <2>6 DEF RunStep
  <1>3. CASE HandlerStep(j)
    BY <1>3 DEF HandlerStep, StageEnds, BatchBegins, BatchCommits, BatchRollsBack, BatchIsLost,
                NextTable, StageReturns, StageBreaks
  <1>4. CASE WatcherPolls(j)  BY <1>4 DEF WatcherPolls
  <1>5. CASE CancelBegins(j) \/ CancelConfirms(j)  BY <1>5 DEF CancelBegins, CancelConfirms
  <1>6. CASE VerifyBegins(j) \/ VerifyLooks(j)
    BY <1>6 DEF VerifyBegins, VerifyLooks
  <1>7. CASE VerifyPersists(j)
    <2>1. PICK v \in {"resumeAfterVerify", "reject", "requireManualReview"} :
             row' = IF CanPersistVerification(row[j], verifier[j].version)
                      THEN [row EXCEPT ![j] = VerificationPersisted(@, v,
                              IF v = "resumeAfterVerify" THEN verifier[j].confirmed ELSE 0)]
                      ELSE row
      BY <1>7 DEF VerifyPersists
    <2> DEFINE n == IF v = "resumeAfterVerify" THEN verifier[j].confirmed ELSE 0
    <2>2. v \in Verdict /\ n \in Nat  BY DEF Verdict
    <2>3. row'[j] = row[j] \/ row'[j] = VerificationPersisted(row[j], v, n)  BY <2>1
    <2> HIDE DEF n
    <2>4. QED  BY <2>2, <2>3
  <1>8. CASE ScanMarks(j)  BY <1>8 DEF ScanMarks, Verdict
  <1>9. CASE LeaseLapses(j) \/ RepositoryFails(j)  BY <1>9 DEF LeaseLapses, RepositoryFails
  <1>10. QED  BY <1>1, <1>2, <1>3, <1>4, <1>5, <1>6, <1>7, <1>8, <1>9 DEF JobStep

Effects == \A j \in Job : /\ row[j].state \in Terminal => row[j].effect # "none"
                          /\ run[j].effect # "none"

LEMMA RunEffects ==
    ASSUME TypeInv, Effects, NEW j \in Job, JobStep(j)
    PROVE  run'[j].effect # "none"
  <1> DEFINE u == run[j]
  <1>a. u \in Run /\ row[j] \in Row  BY DEF TypeInv, TypeOK
  <1>b. /\ u.effect # "none"
        /\ row[j].state = "cancelled" => row[j].effect # "none"
        /\ \A p : At(p).effect = "notStarted"
        /\ \A p : [u EXCEPT !.pc = p].effect # "none"
    BY <1>a DEF Effects, At, Run, Terminal
  <1>c. ASSUME NEW p, Goto(j, p) PROVE run'[j].effect # "none"
    BY <1>b, <1>c DEF Goto, TypeInv, TypeOK
  <1>d. ASSUME NEW s, NEW v, v.effect # "none", Fenced(j, s, v) PROVE run'[j].effect # "none"
    <2>1. CASE run' = [run EXCEPT ![j] = v]  BY <1>d, <2>1 DEF TypeInv, TypeOK
    <2>2. QED  BY <1>c, <1>d, <2>1 DEF Fenced
  <1> USE <1>a, <1>b DEF TypeInv, TypeOK, host
  <1>1. CASE Accept(j)  BY <1>1, <1>c DEF Accept
  <1>2. CASE RunStep(j)
    <2>1. CASE RunBegins(j) \/ Reject(j) \/ Recheck(j) \/ Confirm(j) \/ Claim(j)
      BY <2>1, <1>c DEF RunBegins, Reject, Recheck, Confirm, Claim
    <2>2. CASE Reserve(j) \/ StageBoundary(j)
      BY <2>2, <1>c DEF Reserve, StageBoundary, Run
    <2>3. CASE StageStarts(j) \/ RecordBoundary(j)
      <3>1. /\ [u EXCEPT !.pc = "stage", !.facts = NoFacts, !.watching = TRUE].effect # "none"
            /\ [u EXCEPT !.left = @ - 1, !.all = @ + 1].effect # "none"
        BY DEF Run
      <3>2. QED  BY <2>3, <1>d, <3>1 DEF StageStarts, RecordBoundary
    <2>4. CASE CloseStage(j)
      <3> DEFINE v == IF u.report.terminal = "succeeded" /\ u.stage < Stages
                        THEN [u EXCEPT !.pc = "boundary", !.stage = @ + 1, !.report = NoReport]
                        ELSE [u EXCEPT !.pc = "checkpoint", !.report = NoReport]
      <3>1. v.effect # "none"  BY DEF Run
      <3>2. Fenced(j, row[j], v)  BY <2>4 DEF CloseStage
      <3> HIDE DEF v
      <3>3. QED  BY <1>d, <3>1, <3>2
    <2>5. CASE CloseBroken(j)
      <3>1. [u EXCEPT !.pc = "checkpoint", !.failed = TRUE, !.unknown = TRUE,
                      !.effect = "unknown"].effect # "none"
        BY DEF Run
      <3>2. QED  BY <2>5, <1>d, <3>1 DEF CloseBroken
    <2>10. CASE SaveCheckpoint(j)
      BY <2>10, <1>c, <1>d DEF SaveCheckpoint
    <2>11. CASE ReadVersion(j)
      BY <2>11 DEF ReadVersion, Run
    <2>6. CASE Finish(j)
      <3>1. FinalEffect(u) # "none"  BY DEF FinalEffect
      <3>2. QED  BY <2>6, <1>c, <3>1 DEF Finish, Run
    <2>7. CASE DispatchFails(j) \/ Drive(j)
      BY <2>7 DEF DispatchFails, Drive, Run
    <2>8. CASE Persist(j) \/ CallerReads(j) \/ CallerMarks(j)
      BY <2>8 DEF Persist, CallerReads, CallerMarks, At
    <2>9. QED  BY <1>2, <2>1, <2>2, <2>3, <2>4, <2>5, <2>6, <2>7, <2>8, <2>10, <2>11
      DEF RunStep
  <1>3. CASE StageReturns(j)
    <2>1. PICK p \in Reports(u.facts, u.token) : run' = [run EXCEPT ![j] = Reported(u, p)]
      BY <1>3 DEF StageReturns
    <2>2. p.effect # "none"
      <3>1. u.facts \in Facts /\ u.token \in BOOLEAN  BY DEF Run
      <3>2. p \in Report  BY <3>1, RuntimeAssumption
      <3>3. QED  BY <3>2 DEF Report
    <2>3. Reported(u, p).effect # "none"  BY <2>2 DEF Reported, Run
    <2>4. QED  BY <2>1, <2>3
  <1>4. CASE HandlerStep(j) /\ ~StageReturns(j)
    BY <1>4 DEF HandlerStep, StageEnds, BatchBegins, BatchCommits, BatchRollsBack, BatchIsLost,
                NextTable, StageBreaks, Run
  <1>5. CASE WatcherPolls(j)  BY <1>5 DEF WatcherPolls, Run
  <1>6. CASE \/ CancelBegins(j) \/ CancelConfirms(j) \/ VerifyBegins(j) \/ VerifyLooks(j)
             \/ VerifyPersists(j) \/ ScanMarks(j) \/ LeaseLapses(j)
    BY <1>6 DEF CancelBegins, CancelConfirms, VerifyBegins, VerifyLooks, VerifyPersists, ScanMarks,
                LeaseLapses
  <1>7. CASE RepositoryFails(j)  BY <1>7, <1>c DEF RepositoryFails, Run
  <1>8. QED  BY <1>1, <1>2, <1>3, <1>4, <1>5, <1>6, <1>7 DEF JobStep

\* Nothing a job's steps write to a terminal row touches its state or its effect.
LEMMA RowEnds ==
    ASSUME TypeInv, Effects, NEW j \in Job, JobStep(j)
    PROVE  /\ row[j].state \in Terminal =>
                 row'[j].state = row[j].state /\ row'[j].effect = row[j].effect
           /\ row'[j].state \in Terminal => row'[j].effect # "none"
  <1> DEFINE r == row[j]
             u == run[j]
             s == row'[j]
  <1>a. r \in Row /\ u \in Run  BY DEF TypeInv, TypeOK
  <1>b. r.state \in Terminal => r.effect # "none"  BY DEF Effects
  <1>c. u.effect # "none"  BY DEF Effects
  <1> DEFINE Goal == /\ r.state \in Terminal => s.state = r.state /\ s.effect = r.effect
                     /\ s.state \in Terminal => s.effect # "none"
  <1> USE <1>a, <1>b DEF Row, Terminal
  <1>z. SUFFICES Goal  OBVIOUS
  <1> HIDE DEF r, u, s
  <1>1. CASE s = r  BY <1>1
  <1>2. CASE r.state = "absent" /\ s = Accepted  BY <1>2 DEF Accepted, NoRow
  <1>3. CASE CanClaim(r) /\ s = Claimed(r)  BY <1>3 DEF CanClaim, Claimed
  <1>4. CASE s \in {BoundaryRecorded(r), CheckpointSaved(r), CancelRequested(r),
                    [r EXCEPT !.lease = "lapsed"]}
    BY <1>4 DEF BoundaryRecorded, CheckpointSaved, CancelRequested
  <1>5. CASE s = MarkedPending(r)
    <2>1. EffectWhenMarked(r) # "none" /\ (r.state \in Terminal => EffectWhenMarked(r) = r.effect)
      <3> HIDE DEF Row, Terminal
      <3>1. CASE r.state \in Terminal  BY <1>b, <3>1 DEF EffectWhenMarked
      <3>2. CASE r.state \notin Terminal  BY <3>2 DEF EffectWhenMarked
      <3>3. QED  BY <3>1, <3>2
    <2>2. s.effect = EffectWhenMarked(r)  BY <1>5 DEF MarkedPending
    <2>3. r.state \in Terminal => s.state = r.state  BY <1>5 DEF MarkedPending
    <2> HIDE DEF Row, Terminal
    <2>4. QED  BY <2>1, <2>2, <2>3
  <1>6. CASE /\ CanFinish(r, u.version)
             /\ s = Finished(r, FinalState(u), FinalEffect(u), u.unknown)
    <2>1. FinalEffect(u) # "none"  BY <1>c DEF FinalEffect
    <2>2. QED  BY <1>6, <2>1 DEF CanFinish, ClaimHolds, Finished
  <1>7. CASE CanConfirmCancelled(r) /\ s = ConfirmedCancelled(r)
    BY <1>7 DEF CanConfirmCancelled, Unclaimed, ConfirmedCancelled
  <1>8. CASE Unclaimed(r) /\ s = FailedUnstarted(r)  BY <1>8 DEF Unclaimed, FailedUnstarted
  <1>9. CASE \E v \in Verdict : s = RecoveryPersisted(r, v)  BY <1>9 DEF RecoveryPersisted
  <1>10. CASE \E v \in Verdict, n \in Nat : s = VerificationPersisted(r, v, n)
    BY <1>10 DEF VerificationPersisted
  <1>11. \/ s = r
         \/ r.state = "absent" /\ s = Accepted
         \/ CanClaim(r) /\ s = Claimed(r)
         \/ s \in {BoundaryRecorded(r), CheckpointSaved(r), CancelRequested(r),
                   MarkedPending(r), [r EXCEPT !.lease = "lapsed"]}
         \/ /\ CanFinish(r, u.version)
            /\ s = Finished(r, FinalState(u), FinalEffect(u), u.unknown)
         \/ CanConfirmCancelled(r) /\ s = ConfirmedCancelled(r)
         \/ Unclaimed(r) /\ s = FailedUnstarted(r)
         \/ \E v \in Verdict : s = RecoveryPersisted(r, v)
         \/ \E v \in Verdict, n \in Nat : s = VerificationPersisted(r, v, n)
    BY RowChanges DEF r, u, s
  <1> HIDE DEF Goal, Row, Terminal
  <1>12. QED  BY <1>1, <1>2, <1>3, <1>4, <1>5, <1>6, <1>7, <1>8, <1>9, <1>10, <1>11

LEMMA EffectsStep ==
    TypeInv /\ Effects /\ [Next]_vars =>
      /\ Effects'
      /\ \A j \in Job : Settled(j) => row'[j].state = row[j].state /\ row'[j].effect = row[j].effect
  <1> SUFFICES ASSUME TypeInv, Effects, [Next]_vars
               PROVE  /\ Effects'
                      /\ \A j \in Job : Settled(j) => /\ row'[j].state = row[j].state
                                                     /\ row'[j].effect = row[j].effect
    OBVIOUS
  <1>1. CASE \E j \in Job : JobStep(j)
    <2>1. PICK j \in Job : JobStep(j)  BY <1>1
    <2>2. ASSUME NEW k \in Job
          PROVE  /\ row[k].state \in Terminal =>
                       row'[k].state = row[k].state /\ row'[k].effect = row[k].effect
                 /\ row'[k].state \in Terminal => row'[k].effect # "none"
                 /\ run'[k].effect # "none"
      <3>1. CASE k = j  BY <2>1, <3>1, RunEffects, RowEnds
      <3>2. CASE k # j  BY <2>1, <3>2, OneJob DEF Effects
      <3>3. QED  BY <3>1, <3>2
    <2>3. QED  BY <2>2 DEF Effects, Settled
  <1>2. CASE UNCHANGED row /\ UNCHANGED run
    BY <1>2 DEF Effects
  <1>3. CASE Crash
    <2>1. UNCHANGED row /\ run' = [j \in Job |-> IF run[j].pc = "idle" THEN run[j] ELSE At("done")]
      BY <1>3 DEF Crash
    <2>2. QED  BY <2>1 DEF Effects, At
  <1>4. QED
    BY <1>1, <1>2, <1>3 DEF Next, JobStep, Start, HeadlessStarts, ScanEnds, ScanFails, vars

\* A finished job keeps the state and the effect it finished with: no late writer, no
\* repeated cancellation, no verifier, no caller that concludes without a claim and no
\* scan of a starting process rewrites the outcome, in one process or in two, whatever
\* the handlers report.
THEOREM EndedJobsStayEnded == Spec => TerminalIsFinal
  <1>1. Init => Effects  BY DEF Init, NoRow, Terminal, Effects, At
  <1>2. TypeInv /\ Effects /\ [Next]_vars =>
          [\A j \in Job : Settled(j) => /\ row'[j].state = row[j].state
                                       /\ row'[j].effect = row[j].effect]_vars
    BY EffectsStep
  <1>3. QED
    BY <1>1, <1>2, TypeInit, TypeStep, EffectsStep, PTL DEF Spec, TerminalIsFinal

--------------------------------------------------------------------------------
(* What a job says of its target, if handlers keep their promise.               *)

HonestHandlers == \A f \in Facts, c \in BOOLEAN : \A p \in Reports(f, c) : Honest(f, c, p)

PreClaim == {"idle", "queued", "reject", "recheck", "confirm", "reserve", "claim"}
StageOpen == {"boundary", "start", "stage"}
Closing == {"checkpoint", "settle", "finish"}
PostClaim == StageOpen \cup Closing \cup {"record", "broken"}

Flagged(r) == r.effect = "unknown" /\ (r.pending \/ r.verdict = "resumeAfterVerify")
NoFlags(u) == ~u.unknown /\ ~u.failed /\ ~u.cancelled

\* What a row says of its target.
RowInv(r, w) ==
    /\ r.bounds <= w
    /\ r.state \in {"absent", "queued"} => w = 0
    /\ r.verdict = "notExecuted" => r.state \in Terminal /\ w = 0
    /\ r.state \in Terminal => /\ r.effect \in {"notStarted", "rolledBack"} => w = 0
                               /\ r.effect = "completed" => w = Stages * Batches
                               /\ r.effect = "partiallyApplied" => w > 0
                               /\ w > r.bounds => Flagged(r)
    /\ r.state = "succeeded" => r.bounds = w

\* What a run's place says of the row; a job marked behind the back of its runtime
\* is flagged already.
PlaceInv(r, w, u) ==
    /\ u.pc # "stage" => u.facts = NoFacts
    /\ u.pc \in PreClaim =>
         /\ r.state # "running" /\ NoFlags(u)
         /\ u.stage = 1 /\ u.all = 0 /\ u.effect = "notStarted"
    /\ u.pc \in PostClaim =>
         /\ r.verdict # "notExecuted"
         /\ r.state = "running" \/ (r.state = "failed" /\ Flagged(r))
    /\ u.pc \in {"drive", "persist"} => r.state \in Terminal
    /\ u.pc = "drive" /\ u.effect \in {"notStarted", "rolledBack"} => w = 0
    /\ u.pc = "persist" => u.verdict # "none" /\ (u.verdict = "notExecuted" => w = 0)

\* How far the ledger of a dispatch is behind the target.
DispatchInv(r, w, u) ==
    u.pc \in PostClaim /\ r.state = "running" =>
      /\ u.all = r.bounds
      /\ u.pc \in StageOpen => /\ NoFlags(u) /\ u.effect = "notStarted"
                               /\ u.all = (u.stage - 1) * Batches
      /\ u.pc \in {"boundary", "start"} => w = r.bounds
      /\ u.pc = "stage" => /\ r.bounds + Done(u.facts) <= w
                           /\ ~u.facts.doubt => w = r.bounds + Done(u.facts)
      /\ u.pc = "record" =>
           /\ r.bounds + u.left <= w
           /\ ~u.unknown => w = r.bounds + u.left
           /\ u.effect # "completed"
           /\ u.effect = "partiallyApplied" => u.all + u.left > 0
           /\ IF u.report.terminal = "succeeded"
                THEN /\ NoFlags(u) /\ u.effect = "notStarted"
                     /\ u.all + u.left = u.stage * Batches
                ELSE ~NoFlags(u)
      /\ u.pc \in Closing =>
           /\ ~u.unknown => w = r.bounds
           /\ u.effect # "completed"
           /\ u.effect = "partiallyApplied" => u.all > 0 \/ u.unknown
           /\ NoFlags(u) => u.all = Stages * Batches

VerifierInv(r, w, v) ==
    /\ v.pc # "idle" => r.state = "failed"
    /\ v.pc = "persist" => r.bounds + v.confirmed <= w

HonestInv(r, w, u, v) ==
    RowInv(r, w) /\ PlaceInv(r, w, u) /\ DispatchInv(r, w, u) /\ VerifierInv(r, w, v)

JobsInv == \A j \in Job : HonestInv(row[j], world[j], run[j], verifier[j])

LEMMA RowFields ==
    ASSUME NEW r \in Row
    PROVE  /\ r.state \in JobState /\ r.effect \in EffectOutcome /\ r.verdict \in Verdict
           /\ r.bounds \in Nat /\ r.version \in Nat
           /\ r.pending \in BOOLEAN /\ r.cancel \in BOOLEAN /\ r.checkpoint \in BOOLEAN
  BY DEF Row

LEMMA RunFields ==
    ASSUME NEW u \in Run
    PROVE  /\ u.pc \in Place /\ u.stage \in 1..Stages /\ u.facts \in Facts /\ u.report \in Report
           /\ u.left \in Nat /\ u.left <= Batches /\ u.all \in Nat /\ u.stage \in Nat
           /\ u.token \in BOOLEAN /\ u.unknown \in BOOLEAN /\ u.failed \in BOOLEAN
           /\ u.cancelled \in BOOLEAN /\ u.lost \in BOOLEAN
           /\ u.effect \in EffectOutcome /\ u.verdict \in Verdict
  BY Sizes DEF Run

\* Writes that leave state, outcome and boundaries alone.
LEMMA QuietWrite ==
    ASSUME NEW r \in Row, NEW w \in Nat, NEW u, NEW v, HonestInv(r, w, u, v), NEW s,
           s.state = r.state, s.effect = r.effect, s.bounds = r.bounds, s.verdict = r.verdict,
           s.pending = r.pending
    PROVE  HonestInv(s, w, u, v)
  BY DEF HonestInv, RowInv, PlaceInv, DispatchInv, VerifierInv, Flagged

\* mark_pending_verification, whoever calls it and whenever.
LEMMA MarkedKeeps ==
    ASSUME NEW r \in Row, NEW w \in Nat, NEW u, NEW v, HonestInv(r, w, u, v)
    PROVE  HonestInv(MarkedPending(r), w, u, v)
  <1> DEFINE s == MarkedPending(r)
  <1>1. /\ s.bounds = r.bounds /\ s.verdict = "pendingVerification" /\ s.pending = TRUE
        /\ s.state = IF r.state \in Terminal THEN r.state ELSE "failed"
        /\ s.effect = EffectWhenMarked(r)
    BY DEF MarkedPending, Row
  <1>2. s.state \in Terminal /\ r.state \in JobState /\ r.bounds \in Nat
    BY <1>1, RowFields DEF Terminal
  <1> HIDE DEF s
  <1>3. RowInv(s, w)
    BY <1>1, <1>2 DEF HonestInv, RowInv, EffectWhenMarked, Flagged, Terminal, JobState
  <1>4. PlaceInv(s, w, u)
    BY <1>1, <1>2 DEF HonestInv, PlaceInv, EffectWhenMarked, Flagged, Terminal
  <1>5. DispatchInv(s, w, u)  BY <1>2 DEF DispatchInv, Terminal
  <1>6. VerifierInv(s, w, v)  BY <1>1 DEF HonestInv, VerifierInv, Terminal
  <1>7. QED  BY <1>3, <1>4, <1>5, <1>6 DEF HonestInv, s

\* The two ways a queued job ends.
LEMMA UnstartedKeeps ==
    ASSUME NEW r \in Row, NEW w \in Nat, NEW u, NEW v, HonestInv(r, w, u, v), r.state = "queued"
    PROVE  HonestInv(ConfirmedCancelled(r), w, u, v) /\ HonestInv(FailedUnstarted(r), w, u, v)
  <1>0. r.state \notin Terminal /\ w = 0 /\ r.bounds \in Nat /\ u.pc \notin PostClaim
        /\ r.verdict # "notExecuted"
    BY RowFields DEF Terminal, HonestInv, RowInv, PlaceInv
  <1>1. ASSUME NEW s, s.bounds = r.bounds, s.state \in {"failed", "cancelled"},
               s.effect = "notStarted", s.verdict \in {r.verdict, "notExecuted"}
        PROVE  HonestInv(s, w, u, v)
    <2>1. RowInv(s, w)  BY <1>0, <1>1 DEF HonestInv, RowInv, Terminal
    <2>2. PlaceInv(s, w, u)  BY <1>0, <1>1 DEF HonestInv, PlaceInv, Terminal
    <2>3. DispatchInv(s, w, u)  BY <1>0 DEF DispatchInv
    <2>4. VerifierInv(s, w, v)  BY <1>1 DEF HonestInv, VerifierInv
    <2>5. QED  BY <2>1, <2>2, <2>3, <2>4 DEF HonestInv
  <1> DEFINE c == ConfirmedCancelled(r)
             f == FailedUnstarted(r)
  <1>2. /\ c.bounds = r.bounds /\ c.state = "cancelled" /\ c.effect = "notStarted"
        /\ c.verdict = r.verdict
    BY DEF ConfirmedCancelled, Row
  <1>3. /\ f.bounds = r.bounds /\ f.state = "failed" /\ f.effect = "notStarted"
        /\ f.verdict = "notExecuted"
    BY DEF FailedUnstarted, Row
  <1> HIDE DEF c, f
  <1>4. QED  BY <1>1, <1>2, <1>3 DEF c, f

\* persist_recovery of a scan, or of a caller that concludes rightly.
LEMMA RecoveryKeeps ==
    ASSUME NEW r \in Row, NEW w \in Nat, NEW u, NEW v, HonestInv(r, w, u, v),
           NEW x \in Verdict, x # "none",
           x = "notExecuted" => w = 0 /\ r.state \in Terminal /\ u.pc \notin PostClaim
    PROVE  HonestInv(RecoveryPersisted(r, x), w, u, v)
  <1> DEFINE s == RecoveryPersisted(r, x)
  <1>1. /\ s.bounds = r.bounds /\ s.verdict = x /\ s.state = r.state /\ s.effect = r.effect
        /\ s.pending = (r.pending \/ x \in Doubtful)
    BY DEF RecoveryPersisted, Row
  <1>2. r.bounds \in Nat  BY RowFields
  <1>3. x \in Doubtful \/ x = "resumeAfterVerify" \/ x = "notExecuted"  BY DEF Verdict, Doubtful
  <1>4. Flagged(r) => Flagged(s) \/ x = "notExecuted"  BY <1>1, <1>3 DEF Flagged
  <1> HIDE DEF s
  <1>5. RowInv(s, w)  BY <1>1, <1>2, <1>4 DEF HonestInv, RowInv
  <1>6. PlaceInv(s, w, u)  BY <1>1, <1>4 DEF HonestInv, PlaceInv
  <1>7. DispatchInv(s, w, u)  BY <1>1 DEF HonestInv, DispatchInv
  <1>8. VerifierInv(s, w, v)  BY <1>1 DEF HonestInv, VerifierInv
  <1>9. QED  BY <1>5, <1>6, <1>7, <1>8 DEF HonestInv, s

\* persist_verification: the boundaries it adds are batches that are there.
LEMMA VerificationKeeps ==
    ASSUME NEW r \in Row, NEW w \in Nat, NEW u, NEW v, HonestInv(r, w, u, v),
           v.pc = "persist", v.confirmed \in Nat,
           NEW x \in {"resumeAfterVerify", "reject", "requireManualReview"},
           NEW n \in {0, v.confirmed}
    PROVE  HonestInv(VerificationPersisted(r, x, n), w, u, NoVerifier)
  <1> DEFINE s == VerificationPersisted(r, x, n)
  <1>1. /\ s.bounds = r.bounds + n /\ s.verdict = x /\ s.state = r.state /\ s.effect = r.effect
        /\ s.pending = (x # "resumeAfterVerify")
    BY DEF VerificationPersisted, Row
  <1>2. r.bounds \in Nat /\ r.state = "failed"  BY RowFields DEF HonestInv, VerifierInv
  <1>3. r.bounds + n <= w /\ r.bounds <= r.bounds + n
    BY <1>2 DEF HonestInv, VerifierInv, RowInv
  <1>4. Flagged(r) => Flagged(s)  BY <1>1 DEF Flagged
  <1> HIDE DEF s
  <1>5. RowInv(s, w)
    BY <1>1, <1>2, <1>3, <1>4 DEF HonestInv, RowInv, Terminal
  <1>6. PlaceInv(s, w, u)  BY <1>1, <1>4 DEF HonestInv, PlaceInv
  <1>7. DispatchInv(s, w, u)  BY <1>1, <1>2 DEF DispatchInv
  <1>8. VerifierInv(s, w, NoVerifier)  BY DEF VerifierInv, NoVerifier
  <1>9. QED  BY <1>5, <1>6, <1>7, <1>8 DEF HonestInv, s

\* A run that left its dispatch, or never entered it, says nothing of the target.
LEMMA LeavingKeeps ==
    ASSUME NEW r \in Row, NEW w \in Nat, NEW u, NEW v, HonestInv(r, w, u, v), NEW x,
           x.pc \in {"fail", "callerErr", "abandon", "flag", "done"}, x.facts = NoFacts
    PROVE  HonestInv(r, w, x, v)
  <1>1. PlaceInv(r, w, x)
    BY DEF PlaceInv, PreClaim, PostClaim, StageOpen, Closing
  <1>2. DispatchInv(r, w, x)
    BY DEF DispatchInv, PostClaim, StageOpen, Closing
  <1>3. QED  BY <1>1, <1>2 DEF HonestInv

LEMMA BeforeClaimKeeps ==
    ASSUME NEW r \in Row, NEW w \in Nat, NEW u \in Run, NEW v, HonestInv(r, w, u, v),
           u.pc \in PreClaim, NEW x, x.pc \in PreClaim,
           x.facts = u.facts, x.unknown = u.unknown, x.failed = u.failed,
           x.cancelled = u.cancelled, x.stage = u.stage, x.all = u.all, x.effect = u.effect
    PROVE  HonestInv(r, w, x, v)
  <1>1. PlaceInv(r, w, x)
    BY DEF HonestInv, PlaceInv, NoFlags, PreClaim, PostClaim, StageOpen, Closing
  <1>2. DispatchInv(r, w, x)
    BY DEF DispatchInv, PreClaim, PostClaim, StageOpen, Closing
  <1>3. QED  BY <1>1, <1>2 DEF HonestInv

\* The invariant of a job after a step.
HonestNext(j) == HonestInv(row'[j], world'[j], run'[j], verifier'[j])

LEMMA JobValues ==
    ASSUME TypeInv, NEW j \in Job
    PROVE  /\ row[j] \in Row /\ world[j] \in Nat /\ run[j] \in Run
           /\ verifier[j] \in [pc : {"idle", "look", "persist"}, version : Nat, confirmed : Nat]
           /\ \A p : LET x == [run[j] EXCEPT !.pc = p]
                     IN  /\ x.pc = p /\ x.facts = run[j].facts /\ x.unknown = run[j].unknown
                         /\ x.failed = run[j].failed /\ x.cancelled = run[j].cancelled
                         /\ x.stage = run[j].stage /\ x.all = run[j].all
                         /\ x.effect = run[j].effect
           /\ \A p : Goto(j, p) => run'[j] = [run[j] EXCEPT !.pc = p]
           /\ \A x : row' = [row EXCEPT ![j] = x] => row'[j] = x
           /\ \A x : run' = [run EXCEPT ![j] = x] => run'[j] = x
           /\ \A p : At(p).pc = p /\ At(p).facts = NoFacts
  <1>1. row[j] \in Row /\ world[j] \in Nat /\ run[j] \in Run
        /\ verifier[j] \in [pc : {"idle", "look", "persist"}, version : Nat, confirmed : Nat]
    BY DEF TypeInv, TypeOK
  <1>2. \A p : LET x == [run[j] EXCEPT !.pc = p]
               IN  /\ x.pc = p /\ x.facts = run[j].facts /\ x.unknown = run[j].unknown
                   /\ x.failed = run[j].failed /\ x.cancelled = run[j].cancelled
                   /\ x.stage = run[j].stage /\ x.all = run[j].all
                   /\ x.effect = run[j].effect
    BY <1>1 DEF Run
  <1>3. \A p : Goto(j, p) => run'[j] = [run[j] EXCEPT !.pc = p]  BY DEF Goto, TypeInv, TypeOK
  <1>4. /\ \A x : row' = [row EXCEPT ![j] = x] => row'[j] = x
        /\ \A x : run' = [run EXCEPT ![j] = x] => run'[j] = x
    BY DEF TypeInv, TypeOK
  <1>5. \A p : At(p).pc = p /\ At(p).facts = NoFacts  BY DEF At
  <1>6. QED  BY <1>1, <1>2, <1>3, <1>4, <1>5

\* Up to the claim.
LEMMA HonestBeforeClaim ==
    ASSUME TypeInv, JobsInv, NEW j \in Job,
           Accept(j) \/ RunBegins(j) \/ Reject(j) \/ Recheck(j) \/ Confirm(j) \/ Reserve(j)
    PROVE  HonestNext(j)
  <1> DEFINE r == row[j]
             w == world[j]
             u == run[j]
             v == verifier[j]
  <1>a. /\ r \in Row /\ w \in Nat /\ u \in Run /\ HonestInv(r, w, u, v)
    BY JobValues DEF JobsInv
  <1>b. /\ \A p : Goto(j, p) => run'[j] = [u EXCEPT !.pc = p]
        /\ \A p : [u EXCEPT !.pc = p].pc = p
        /\ u.pc # "stage" => \A p : [u EXCEPT !.pc = p].facts = NoFacts
        /\ \A x : row' = [row EXCEPT ![j] = x] => row'[j] = x
    BY <1>a, JobValues DEF HonestInv, PlaceInv
  <1>c. ASSUME NEW s \in Row, HonestInv(s, w, u, v), row'[j] = s, Goto(j, "callerErr"),
               u.pc # "stage", UNCHANGED <<world, host>>
        PROVE  HonestNext(j)
    <2> DEFINE x == [u EXCEPT !.pc = "callerErr"]
    <2>1. run'[j] = x /\ x.pc = "callerErr" /\ x.facts = NoFacts  BY <1>b, <1>c
    <2> HIDE DEF x
    <2>2. HonestInv(s, w, x, v)  BY <1>a, <1>c, <2>1, LeavingKeeps
    <2>3. QED  BY <1>c, <2>1, <2>2 DEF HonestNext, host
  <1>d. ASSUME NEW p \in PreClaim, Goto(j, p), u.pc \in PreClaim, UNCHANGED <<row, world, host>>
        PROVE  HonestNext(j)
    <2> DEFINE x == [u EXCEPT !.pc = p]
    <2>1. run'[j] = x  BY <1>b, <1>d
    <2>2. /\ x.pc = p /\ x.facts = u.facts /\ x.unknown = u.unknown
          /\ x.failed = u.failed /\ x.cancelled = u.cancelled
          /\ x.stage = u.stage /\ x.all = u.all /\ x.effect = u.effect
      BY JobValues
    <2> HIDE DEF x
    <2>3. HonestInv(r, w, x, v)  BY <1>a, <1>d, <2>2, BeforeClaimKeeps
    <2>4. QED  BY <1>d, <2>1, <2>3 DEF HonestNext, host
  <1> HIDE DEF r, w, u, v
  <1>1. CASE Accept(j)
    <2>1. r.state = "absent" /\ u.pc = "idle" /\ row'[j] = Accepted /\ Goto(j, "queued")
          /\ UNCHANGED <<world, host>>
      BY <1>1, <1>b DEF Accept, Is, r, u
    <2>2. w = 0 /\ v.pc = "idle" /\ u.pc \in PreClaim /\ "queued" \in PreClaim
      BY <1>a, <2>1 DEF HonestInv, RowInv, VerifierInv, PreClaim
    <2>3. HonestInv(Accepted, w, u, v)
      BY <1>a, <2>1, <2>2 DEF HonestInv, RowInv, PlaceInv, DispatchInv, VerifierInv, Accepted, NoRow,
        Terminal, PreClaim, PostClaim, StageOpen, Closing
    <2> DEFINE x == [u EXCEPT !.pc = "queued"]
    <2>4. run'[j] = x  BY <1>b, <2>1
    <2>5. /\ x.pc = "queued" /\ x.facts = u.facts /\ x.unknown = u.unknown
          /\ x.failed = u.failed /\ x.cancelled = u.cancelled
          /\ x.stage = u.stage /\ x.all = u.all /\ x.effect = u.effect
      BY JobValues DEF u
    <2>6. Accepted \in Row  BY <1>a, RowTypes
    <2> HIDE DEF x
    <2>7. HonestInv(Accepted, w, x, v)  BY <1>a, <2>2, <2>3, <2>5, <2>6, BeforeClaimKeeps
    <2>8. QED  BY <2>1, <2>4, <2>7 DEF HonestNext, host, w, v
  <1>2. CASE RunBegins(j)
    <2>1. PICK p \in {"recheck", "reject", "callerErr"} : Goto(j, p)  BY <1>2 DEF RunBegins
    <2>2. u.pc \in PreClaim /\ u.pc # "stage" /\ UNCHANGED <<row, world, host>>
      BY <1>2 DEF RunBegins, Is, PreClaim, u
    <2>3. CASE p = "callerErr"  BY <1>a, <1>c, <2>1, <2>2, <2>3 DEF r
    <2>4. CASE p # "callerErr"  BY <1>d, <2>1, <2>2, <2>4 DEF PreClaim
    <2>5. QED  BY <2>3, <2>4
  <1>3. CASE Reject(j)
    <2>1. u.pc # "stage" /\ Goto(j, "callerErr") /\ UNCHANGED <<world, host>>
      BY <1>3 DEF Reject, Is, u
    <2>2. CASE Unclaimed(r)
      <3>1. row'[j] = FailedUnstarted(r)  BY <1>3, <1>b, <2>2 DEF Reject, r
      <3>2. FailedUnstarted(r) \in Row /\ HonestInv(FailedUnstarted(r), w, u, v)
        BY <1>a, <2>2, RowTypes, UnstartedKeeps DEF Unclaimed
      <3>3. QED  BY <1>c, <2>1, <3>1, <3>2
    <2>3. CASE ~Unclaimed(r)
      <3>1. row' = row  BY <1>3, <2>3 DEF Reject, r
      <3>2. QED  BY <1>a, <1>c, <2>1, <3>1 DEF r
    <2>4. QED  BY <2>2, <2>3
  <1>4. CASE Recheck(j)
    BY <1>4, <1>d DEF Recheck, Is, PreClaim, u
  <1>5. CASE Confirm(j)
    <2>1. u.pc = "confirm" /\ UNCHANGED <<world, host>>  BY <1>5 DEF Confirm, Is, u
    <2>2. CASE CanConfirmCancelled(r)
      <3> DEFINE s == ConfirmedCancelled(r)
                 x == [u EXCEPT !.pc = "drive"]
      <3>1. row'[j] = s /\ run'[j] = x  BY <1>5, <1>b, <2>2 DEF Confirm, r, u
      <3>2. s \in Row /\ HonestInv(s, w, u, v)
        BY <1>a, <2>2, RowTypes, UnstartedKeeps DEF CanConfirmCancelled, Unclaimed
      <3>3. w = 0  BY <1>a, <2>2 DEF HonestInv, RowInv, CanConfirmCancelled, Unclaimed
      <3>4. x.pc = "drive" /\ x.facts = NoFacts  BY <1>b, <2>1
      <3>5. s.state = "cancelled"  BY <1>a DEF ConfirmedCancelled, Row
      <3> HIDE DEF s, x
      <3>6. PlaceInv(s, w, x)
        BY <3>3, <3>4, <3>5 DEF PlaceInv, PreClaim, PostClaim, StageOpen, Closing, Terminal
      <3>7. DispatchInv(s, w, x)  BY <3>5 DEF DispatchInv
      <3>8. QED  BY <2>1, <3>1, <3>2, <3>6, <3>7 DEF HonestNext, HonestInv, host, w, v
    <2>3. CASE ~CanConfirmCancelled(r)
      BY <1>5, <1>a, <1>c, <2>1, <2>3 DEF Confirm, r
    <2>4. QED  BY <2>2, <2>3
  <1>6. CASE Reserve(j)
    <2>1. u.pc \in PreClaim /\ UNCHANGED <<row, world, host>>  BY <1>6 DEF Reserve, Is, PreClaim, u
    <2>2. CASE Goto(j, "reject")  BY <1>d, <2>1, <2>2 DEF PreClaim
    <2>3. CASE ~Goto(j, "reject")
      <3> DEFINE x == [u EXCEPT !.pc = "claim", !.permit = TRUE]
      <3>1. run'[j] = x  BY <1>6, <2>3 DEF Reserve, TypeInv, TypeOK, u
      <3>2. /\ x.pc = "claim" /\ x.facts = u.facts /\ x.unknown = u.unknown
            /\ x.failed = u.failed /\ x.cancelled = u.cancelled
            /\ x.stage = u.stage /\ x.all = u.all /\ x.effect = u.effect
        BY <1>a DEF Run
      <3> HIDE DEF x
      <3>3. "claim" \in PreClaim  BY DEF PreClaim
      <3>4. HonestInv(r, w, x, v)  BY <1>a, <2>1, <3>2, <3>3, BeforeClaimKeeps
      <3>5. QED  BY <2>1, <3>1, <3>4 DEF HonestNext, host, r, w, v
    <2>4. QED  BY <2>2, <2>3
  <1>7. QED  BY <1>1, <1>2, <1>3, <1>4, <1>5, <1>6

\* A dispatch that goes on under its claim.
LEMMA RunningKeeps ==
    ASSUME NEW r \in Row, NEW w \in Nat, NEW u, NEW v, HonestInv(r, w, u, v),
           r.state = "running", NEW s, NEW x,
           s.state = "running", s.verdict = r.verdict, s.bounds <= w,
           x.pc \in PostClaim, x.pc # "stage" => x.facts = NoFacts, DispatchInv(s, w, x)
    PROVE  HonestInv(s, w, x, v)
  <1>1. RowInv(s, w)  BY DEF HonestInv, RowInv, Terminal
  <1>2. r.verdict # "notExecuted"  BY DEF HonestInv, RowInv, Terminal
  <1>3. PlaceInv(s, w, x)
    BY <1>2 DEF PlaceInv, PostClaim, StageOpen, Closing, PreClaim
  <1>4. VerifierInv(s, w, v)  BY DEF HonestInv, VerifierInv
  <1>5. QED  BY <1>1, <1>3, <1>4 DEF HonestInv

\* A job that was marked behind its runtime's back: the run may go on.
LEMMA MarkedBehindKeeps ==
    ASSUME NEW r \in Row, NEW w \in Nat, NEW u, NEW v, HonestInv(r, w, u, v),
           u.pc \in PostClaim, r.state # "running", NEW x,
           x.pc \in PostClaim, x.pc # "stage" => x.facts = NoFacts
    PROVE  HonestInv(r, w, x, v)
  <1>1. PlaceInv(r, w, x)
    BY DEF HonestInv, PlaceInv, PostClaim, StageOpen, Closing, PreClaim
  <1>2. DispatchInv(r, w, x)  BY DEF DispatchInv
  <1>3. QED  BY <1>1, <1>2 DEF HonestInv

LEMMA GotoFail ==
    ASSUME TypeInv, JobsInv, NEW j \in Job, Goto(j, "fail"), run[j].pc # "stage",
           UNCHANGED <<row, world, host>>
    PROVE  HonestNext(j)
  <1> DEFINE x == [run[j] EXCEPT !.pc = "fail"]
  <1>1. run'[j] = x /\ x.pc = "fail" /\ x.facts = run[j].facts  BY JobValues
  <1>2. row[j] \in Row /\ world[j] \in Nat /\ HonestInv(row[j], world[j], run[j], verifier[j])
    BY JobValues DEF JobsInv
  <1>3. x.facts = NoFacts  BY <1>1, <1>2 DEF HonestInv, PlaceInv
  <1> HIDE DEF x
  <1>4. HonestInv(row[j], world[j], x, verifier[j])  BY <1>1, <1>2, <1>3, LeavingKeeps
  <1>5. QED  BY <1>1, <1>4 DEF HonestNext, host

LEMMA FencedKeeps ==
    ASSUME TypeInv, JobsInv, NEW j \in Job, NEW s, NEW x, Fenced(j, s, x), run[j].pc # "stage",
           ClaimHolds(row[j]) => HonestInv(s, world[j], x, verifier[j]),
           UNCHANGED <<world, host>>
    PROVE  HonestNext(j)
  <1>1. CASE ClaimHolds(row[j])
    <2>1. row'[j] = s /\ run'[j] = x  BY <1>1, JobValues DEF Fenced
    <2>2. QED  BY <1>1, <2>1 DEF HonestNext, host
  <1>2. CASE ~ClaimHolds(row[j])
    BY <1>2, GotoFail DEF Fenced
  <1>3. QED  BY <1>1, <1>2

LEMMA StageProducts ==
    ASSUME NEW s \in Nat
    PROVE  /\ (1 - 1) * Batches = 0
           /\ (s - 1) * Batches + Batches = s * Batches
           /\ ((s + 1) - 1) * Batches = s * Batches
           /\ s * Batches \in Nat
  BY Sizes

LEMMA HonestClaim ==
    ASSUME TypeInv, JobsInv, NEW j \in Job, Claim(j)
    PROVE  HonestNext(j)
  <1> DEFINE r == row[j]
             w == world[j]
             u == run[j]
             v == verifier[j]
             s == Claimed(r)
             x == [u EXCEPT !.pc = "boundary"]
  <1>a. r \in Row /\ w \in Nat /\ u \in Run /\ HonestInv(r, w, u, v)  BY JobValues DEF JobsInv
  <1>b. u.pc = "claim" /\ UNCHANGED <<world, host>>  BY DEF Claim, Is
  <1>1. CASE CanClaim(r)
    <2>1. row'[j] = s /\ run'[j] = x  BY <1>1, JobValues DEF Claim
    <2>2. /\ s.state = "running" /\ s.bounds = r.bounds /\ s.verdict = r.verdict
      BY <1>a DEF Claimed, Row
    <2>3. /\ x.pc = "boundary" /\ x.facts = NoFacts /\ x.unknown = u.unknown
          /\ x.failed = u.failed /\ x.cancelled = u.cancelled
          /\ x.stage = u.stage /\ x.all = u.all /\ x.effect = u.effect
      BY <1>a, <1>b, JobValues DEF HonestInv, PlaceInv
    <2> HIDE DEF r, w, u, v, s, x
    <2>4. u.pc \in PreClaim  BY <1>b DEF PreClaim, u
    <2>5. r.state = "queued"  BY <1>a, <1>1, <2>4 DEF CanClaim, HonestInv, PlaceInv
    <2>6. w = 0 /\ r.bounds = 0 /\ r.verdict # "notExecuted"
      BY <1>a, <2>5, RowFields DEF HonestInv, RowInv, Terminal
    <2>7. NoFlags(x) /\ x.stage = 1 /\ x.all = 0 /\ x.effect = "notStarted"
      BY <1>a, <2>3, <2>4 DEF HonestInv, PlaceInv, NoFlags
    <2>8. DispatchInv(s, w, x)
      BY <2>2, <2>3, <2>6, <2>7, StageProducts DEF DispatchInv, StageOpen, Closing
    <2>9. RowInv(s, w)  BY <2>2, <2>6 DEF RowInv, Terminal
    <2>10. PlaceInv(s, w, x)
      BY <2>2, <2>3, <2>6 DEF PlaceInv, PreClaim, PostClaim, StageOpen
    <2>11. VerifierInv(s, w, v)  BY <1>a, <2>5 DEF HonestInv, VerifierInv
    <2>12. QED  BY <1>b, <2>1, <2>8, <2>9, <2>10, <2>11 DEF HonestNext, HonestInv, host, w, v
  <1>2. CASE ~CanClaim(r)
    BY <1>2, <1>b, GotoFail DEF Claim
  <1>3. QED  BY <1>1, <1>2

LEMMA HonestStage ==
    ASSUME TypeInv, JobsInv, NEW j \in Job,
           \/ StageBoundary(j) \/ StageStarts(j) \/ RecordBoundary(j) \/ CloseStage(j)
           \/ CloseBroken(j)
    PROVE  HonestNext(j)
  <1> DEFINE r == row[j]
             w == world[j]
             u == run[j]
             v == verifier[j]
  <1>a. r \in Row /\ w \in Nat /\ u \in Run /\ HonestInv(r, w, u, v)  BY JobValues DEF JobsInv
  <1>b. /\ r.bounds \in Nat /\ u.left \in Nat /\ u.all \in Nat /\ u.stage \in Nat
        /\ r.bounds <= w /\ u.stage <= Stages
    <2>1. u.stage \in 1..Stages  BY <1>a, RunFields
    <2>2. QED  BY <1>a, <2>1, RowFields, RunFields, Sizes DEF HonestInv, RowInv
  <1>c. u.pc # "stage" => u.facts = NoFacts  BY <1>a DEF HonestInv, PlaceInv
  <1>d. ClaimHolds(r) => r.state = "running"  BY DEF ClaimHolds
  <1>1. CASE StageBoundary(j)
    <2>0. u.pc = "boundary" /\ UNCHANGED <<row, world, host>>  BY <1>1 DEF StageBoundary, Is
    <2>1. PICK x : /\ run'[j] = x
                   /\ x.facts = u.facts /\ x.all = u.all /\ x.unknown = u.unknown
                   /\ x.stage = u.stage /\ x.effect = u.effect /\ x.failed = u.failed
                   /\ \/ x.pc = "start" /\ x.cancelled = u.cancelled
                      \/ x.pc = "checkpoint" /\ x.cancelled
      <3>1. CASE Goto(j, "start")
        <4> DEFINE x == [u EXCEPT !.pc = "start"]
        <4>1. run'[j] = x  BY <3>1, JobValues
        <4>2. /\ x.facts = u.facts /\ x.all = u.all /\ x.unknown = u.unknown
              /\ x.stage = u.stage /\ x.effect = u.effect /\ x.failed = u.failed
              /\ x.pc = "start" /\ x.cancelled = u.cancelled
          BY <1>a DEF Run
        <4> HIDE DEF x
        <4>3. QED  BY <4>1, <4>2
      <3>2. CASE ~Goto(j, "start")
        <4> DEFINE x == [u EXCEPT !.pc = "checkpoint", !.token = TRUE, !.cancelled = TRUE]
        <4>1. run'[j] = x  BY <1>1, <3>2 DEF StageBoundary, TypeInv, TypeOK
        <4>2. /\ x.facts = u.facts /\ x.all = u.all /\ x.unknown = u.unknown
              /\ x.stage = u.stage /\ x.effect = u.effect /\ x.failed = u.failed
              /\ x.pc = "checkpoint" /\ x.cancelled
          BY <1>a DEF Run
        <4> HIDE DEF x
        <4>3. QED  BY <4>1, <4>2
      <3>3. QED  BY <3>1, <3>2
    <2> HIDE DEF r, w, u, v
    <2>2. u.pc \in PostClaim /\ x.pc \in PostClaim  BY <2>0, <2>1 DEF PostClaim, StageOpen, Closing
    <2>3. CASE r.state = "running"
      <3>1. /\ u.all = r.bounds /\ NoFlags(u) /\ u.effect = "notStarted" /\ w = r.bounds
            /\ u.all = (u.stage - 1) * Batches
        BY <1>a, <2>0, <2>2, <2>3 DEF HonestInv, DispatchInv, StageOpen
      <3>2. DispatchInv(r, w, x)
        BY <2>1, <3>1 DEF DispatchInv, NoFlags, StageOpen, Closing
      <3>3. HonestInv(r, w, x, v)
        BY <1>a, <1>b, <1>c, <2>0, <2>1, <2>2, <2>3, <3>2, RunningKeeps
      <3>4. QED  BY <2>0, <2>1, <3>3 DEF HonestNext, host, r, w, v
    <2>4. CASE r.state # "running"
      <3>1. HonestInv(r, w, x, v)
        BY <1>a, <1>c, <2>0, <2>1, <2>2, <2>4, MarkedBehindKeeps
      <3>2. QED  BY <2>0, <2>1, <3>1 DEF HonestNext, host, r, w, v
    <2>5. QED  BY <2>3, <2>4
  <1>2. CASE StageStarts(j)
    <2> DEFINE x == [u EXCEPT !.pc = "stage", !.facts = NoFacts, !.watching = TRUE]
    <2>0. u.pc = "start" /\ UNCHANGED <<world, host>> /\ Fenced(j, r, x)
      BY <1>2 DEF StageStarts, Is
    <2>1. /\ x.pc = "stage" /\ x.facts = NoFacts /\ x.all = u.all /\ x.unknown = u.unknown
          /\ x.stage = u.stage /\ x.effect = u.effect /\ x.failed = u.failed
          /\ x.cancelled = u.cancelled
      BY <1>a DEF Run
    <2> HIDE DEF r, w, u, v, x
    <2>2. u.pc \in PostClaim /\ x.pc \in PostClaim  BY <2>0, <2>1 DEF PostClaim, StageOpen
    <2>3. ASSUME r.state = "running" PROVE HonestInv(r, w, x, v)
      <3>1. /\ u.all = r.bounds /\ NoFlags(u) /\ u.effect = "notStarted" /\ w = r.bounds
            /\ u.all = (u.stage - 1) * Batches
        BY <1>a, <2>0, <2>2, <2>3 DEF HonestInv, DispatchInv, StageOpen
      <3>2. Done(x.facts) = 0 /\ ~x.facts.doubt  BY <2>1 DEF NoFacts, Done
      <3>3. DispatchInv(r, w, x)
        BY <1>b, <2>1, <3>1, <3>2 DEF DispatchInv, NoFlags, StageOpen, Closing
      <3>4. QED  BY <1>a, <1>b, <2>1, <2>2, <2>3, <3>3, RunningKeeps
    <2>4. QED  BY <1>d, <2>0, <2>3, FencedKeeps DEF r, w, u, v
  <1>3. CASE RecordBoundary(j)
    <2> DEFINE s == BoundaryRecorded(r)
               x == [u EXCEPT !.left = @ - 1, !.all = @ + 1]
    <2>0. u.pc = "record" /\ u.left > 0 /\ UNCHANGED <<world, host>> /\ Fenced(j, s, x)
      BY <1>3 DEF RecordBoundary, Is
    <2>1. /\ x.pc = "record" /\ x.facts = u.facts /\ x.all = u.all + 1 /\ x.unknown = u.unknown
          /\ x.stage = u.stage /\ x.effect = u.effect /\ x.failed = u.failed
          /\ x.cancelled = u.cancelled /\ x.left = u.left - 1 /\ x.report = u.report
      BY <1>a, <2>0 DEF Run
    <2>2. s.state = r.state /\ s.verdict = r.verdict /\ s.bounds = r.bounds + 1
      BY <1>a DEF BoundaryRecorded, Row
    <2> HIDE DEF r, w, u, v, x, s
    <2>3. u.pc \in PostClaim /\ x.pc \in PostClaim  BY <2>0, <2>1 DEF PostClaim
    <2>4. ASSUME r.state = "running" PROVE HonestInv(s, w, x, v)
      <3> DEFINE succeeded == u.report.terminal = "succeeded"
                 whole == u.stage * Batches
      <3>1. /\ u.all = r.bounds /\ r.bounds + u.left <= w /\ (~u.unknown => w = r.bounds + u.left)
            /\ u.effect # "completed"
            /\ u.effect = "partiallyApplied" => u.all + u.left > 0
            /\ IF succeeded THEN /\ NoFlags(u) /\ u.effect = "notStarted"
                                 /\ u.all + u.left = whole
                            ELSE ~NoFlags(u)
        BY <1>a, <2>0, <2>3, <2>4 DEF HonestInv, DispatchInv
      <3> HIDE DEF whole, succeeded
      <3>2. /\ x.all = s.bounds /\ s.bounds + x.left <= w /\ (~x.unknown => w = s.bounds + x.left)
            /\ x.effect # "completed" /\ s.bounds <= w
            /\ x.effect = "partiallyApplied" => x.all + x.left > 0
            /\ IF succeeded THEN /\ NoFlags(x) /\ x.effect = "notStarted"
                                 /\ x.all + x.left = whole
                            ELSE ~NoFlags(x)
        BY <1>a, <1>b, <2>0, <2>1, <2>2, <3>1 DEF NoFlags
      <3>3. DispatchInv(s, w, x)
        BY <2>1, <3>2 DEF DispatchInv, StageOpen, Closing, whole, succeeded
      <3>4. QED  BY <1>a, <1>c, <2>0, <2>1, <2>2, <2>3, <2>4, <3>2, <3>3, RunningKeeps
    <2>5. QED  BY <1>d, <2>0, <2>4, FencedKeeps DEF r, w, u, v
  <1>4. CASE CloseStage(j)
    <2> DEFINE next == u.report.terminal = "succeeded" /\ u.stage < Stages
               x == IF next
                      THEN [u EXCEPT !.pc = "boundary", !.stage = @ + 1, !.report = NoReport]
                      ELSE [u EXCEPT !.pc = "checkpoint", !.report = NoReport]
    <2>0. u.pc = "record" /\ u.left = 0 /\ UNCHANGED <<world, host>> /\ Fenced(j, r, x)
      BY <1>4 DEF CloseStage, Is
    <2>1. /\ x.facts = u.facts /\ x.all = u.all /\ x.unknown = u.unknown
          /\ x.effect = u.effect /\ x.failed = u.failed /\ x.cancelled = u.cancelled
          /\ next => x.pc = "boundary" /\ x.stage = u.stage + 1
          /\ ~next => x.pc = "checkpoint" /\ x.stage = u.stage
      BY <1>a DEF Run
    <2> HIDE DEF r, w, u, v, x
    <2>3. u.pc \in PostClaim /\ x.pc \in PostClaim
      BY <2>0, <2>1 DEF PostClaim, StageOpen, Closing
    <2>4. ASSUME r.state = "running" PROVE HonestInv(r, w, x, v)
      <3>1. /\ u.all = r.bounds /\ r.bounds <= w /\ (~u.unknown => w = r.bounds)
            /\ u.effect # "completed"
            /\ u.effect = "partiallyApplied" => u.all > 0
            /\ IF u.report.terminal = "succeeded"
                 THEN /\ NoFlags(u) /\ u.effect = "notStarted"
                      /\ u.all = u.stage * Batches
                 ELSE ~NoFlags(u)
        BY <1>a, <1>b, <2>0, <2>3, <2>4 DEF HonestInv, DispatchInv
      <3>2. CASE next
        <4>1. x.all = (x.stage - 1) * Batches  BY <1>b, <2>1, <3>1, <3>2, StageProducts
        <4>2. NoFlags(x) /\ x.effect = "notStarted" /\ w = r.bounds
          BY <2>1, <3>1, <3>2 DEF NoFlags
        <4>3. DispatchInv(r, w, x)
          BY <2>1, <3>1, <3>2, <4>1, <4>2 DEF DispatchInv, StageOpen, Closing
        <4>4. QED  BY <1>a, <1>b, <1>c, <2>0, <2>1, <2>3, <2>4, <4>3, RunningKeeps
      <3>3. CASE ~next
        <4>1. NoFlags(u) => u.stage = Stages  BY <1>b, <3>1, <3>3, Sizes
        <4>2. NoFlags(x) => x.all = Stages * Batches  BY <2>1, <3>1, <4>1 DEF NoFlags
        <4>3. DispatchInv(r, w, x)
          BY <2>1, <3>1, <3>3, <4>2 DEF DispatchInv, StageOpen, Closing
        <4>4. QED  BY <1>a, <1>b, <1>c, <2>0, <2>1, <2>3, <2>4, <4>3, RunningKeeps
      <3>4. QED  BY <3>2, <3>3
    <2>5. QED  BY <1>d, <2>0, <2>4, FencedKeeps DEF r, w, u, v
  <1>5. CASE CloseBroken(j)
    <2> DEFINE x == [u EXCEPT !.pc = "checkpoint", !.failed = TRUE, !.unknown = TRUE,
                              !.effect = "unknown"]
    <2>0. u.pc = "broken" /\ UNCHANGED <<world, host>> /\ Fenced(j, r, x)
      BY <1>5 DEF CloseBroken, Is
    <2>1. /\ x.pc = "checkpoint" /\ x.facts = u.facts /\ x.all = u.all /\ x.unknown = TRUE
          /\ x.effect = "unknown"
      BY <1>a DEF Run
    <2> HIDE DEF r, w, u, v, x
    <2>2. u.pc \in PostClaim /\ x.pc \in PostClaim  BY <2>0, <2>1 DEF PostClaim, Closing
    <2>3. ASSUME r.state = "running" PROVE HonestInv(r, w, x, v)
      <3>1. u.all = r.bounds  BY <1>a, <2>0, <2>2, <2>3 DEF HonestInv, DispatchInv
      <3>2. DispatchInv(r, w, x)
        BY <2>1, <3>1 DEF DispatchInv, NoFlags, StageOpen, Closing
      <3>3. QED  BY <1>a, <1>b, <1>c, <2>0, <2>1, <2>2, <2>3, <3>2, RunningKeeps
    <2>4. QED  BY <1>d, <2>0, <2>3, FencedKeeps DEF r, w, u, v
  <1>6. QED  BY <1>1, <1>2, <1>3, <1>4, <1>5

LEMMA HonestClosing ==
    ASSUME TypeInv, JobsInv, NEW j \in Job,
           SaveCheckpoint(j) \/ ReadVersion(j) \/ Finish(j) \/ DispatchFails(j)
    PROVE  HonestNext(j)
  <1> DEFINE r == row[j]
             w == world[j]
             u == run[j]
             v == verifier[j]
  <1>a. r \in Row /\ w \in Nat /\ u \in Run /\ HonestInv(r, w, u, v)  BY JobValues DEF JobsInv
  <1>b. /\ r.bounds \in Nat /\ u.all \in Nat /\ r.bounds <= w
        /\ u.unknown \in BOOLEAN /\ r.pending \in BOOLEAN
    BY <1>a, RowFields, RunFields DEF HonestInv, RowInv
  <1>c. u.pc # "stage" => u.facts = NoFacts  BY <1>a DEF HonestInv, PlaceInv
  \* Between checkpoint and finish only the place and the version of the run change.
  <1>d. ASSUME NEW s, NEW x, u.pc \in Closing, x.pc \in Closing, x.facts = u.facts, x.all = u.all,
               x.unknown = u.unknown, x.failed = u.failed, x.cancelled = u.cancelled,
               x.effect = u.effect, s.state = r.state, s.effect = r.effect,
               s.bounds = r.bounds, s.verdict = r.verdict, s.pending = r.pending
        PROVE  HonestInv(s, w, x, v)
    <2>1. HonestInv(r, w, x, v)
      <3> HIDE DEF r, w, u, v
      <3>1. u.pc \in PostClaim /\ x.pc \in PostClaim /\ x.pc # "stage" /\ u.pc # "stage"
        BY <1>d DEF PostClaim, Closing
      <3>2. CASE r.state = "running"
        <4>1. DispatchInv(r, w, x)
          BY <1>a, <1>d, <3>1, <3>2 DEF HonestInv, DispatchInv, NoFlags, StageOpen, Closing
        <4>2. QED  BY <1>a, <1>b, <1>c, <1>d, <3>1, <3>2, <4>1, RunningKeeps
      <3>3. CASE r.state # "running"
        BY <1>a, <1>c, <1>d, <3>1, <3>3, MarkedBehindKeeps
      <3>4. QED  BY <3>2, <3>3
    <2> HIDE DEF r, w, u, v
    <2>2. QED  BY <1>a, <1>d, <2>1, QuietWrite
  <1>1. CASE SaveCheckpoint(j)
    <2> DEFINE x == [u EXCEPT !.pc = "settle"]
               s == CheckpointSaved(r)
    <2>0. u.pc = "checkpoint" /\ UNCHANGED <<world, host>>  BY <1>1 DEF SaveCheckpoint, Is
    <2>1. /\ x.pc = "settle" /\ x.facts = u.facts /\ x.all = u.all /\ x.unknown = u.unknown
          /\ x.effect = u.effect /\ x.failed = u.failed /\ x.cancelled = u.cancelled
      BY JobValues
    <2>2. /\ s.state = r.state /\ s.effect = r.effect /\ s.bounds = r.bounds
          /\ s.verdict = r.verdict /\ s.pending = r.pending
      BY <1>a DEF CheckpointSaved, Row
    <2>3. (Goto(j, "settle") /\ UNCHANGED row) \/ Fenced(j, s, x)  BY <1>1 DEF SaveCheckpoint
    <2>4. Goto(j, "settle") => run'[j] = x  BY JobValues
    <2> HIDE DEF r, w, u, v, x, s
    <2>5. HonestInv(s, w, x, v) /\ HonestInv(r, w, x, v)
      BY <1>d, <2>0, <2>1, <2>2 DEF Closing
    <2>6. CASE Goto(j, "settle") /\ UNCHANGED row
      BY <2>0, <2>4, <2>5, <2>6 DEF HonestNext, host, r, w, v
    <2>7. CASE Fenced(j, s, x)  BY <2>0, <2>5, <2>7, FencedKeeps DEF u, w, v
    <2>8. QED  BY <2>3, <2>6, <2>7
  <1>2. CASE ReadVersion(j)
    <2> DEFINE x == [u EXCEPT !.pc = "finish", !.version = r.version]
    <2>0. u.pc = "settle" /\ UNCHANGED <<row, world, host>>  BY <1>2 DEF ReadVersion, Is
    <2>1. /\ x.pc = "finish" /\ x.facts = u.facts /\ x.all = u.all /\ x.unknown = u.unknown
          /\ x.effect = u.effect /\ x.failed = u.failed /\ x.cancelled = u.cancelled
      BY <1>a DEF Run
    <2>2. run'[j] = x  BY <1>2 DEF ReadVersion, TypeInv, TypeOK
    <2> HIDE DEF r, w, u, v, x
    <2>3. HonestInv(r, w, x, v)  BY <1>d, <2>0, <2>1 DEF Closing
    <2>4. QED  BY <2>0, <2>2, <2>3 DEF HonestNext, host, r, w, v
  <1>3. CASE Finish(j)
    <2> DEFINE e == FinalEffect(u)
               f == FinalState(u)
               s == Finished(r, f, e, u.unknown)
               x == [u EXCEPT !.pc = "drive", !.permit = FALSE, !.effect = e]
    <2>0. u.pc = "finish" /\ UNCHANGED <<world, host>>  BY <1>3 DEF Finish, Is
    <2>1. CASE CanFinish(r, u.version)
      <3>1. run'[j] = x /\ row'[j] = s  BY <1>3, <2>1 DEF Finish, TypeInv, TypeOK
      <3>2. x.pc = "drive" /\ x.facts = NoFacts /\ x.effect = e  BY <1>a, <1>c, <2>0 DEF Run
      <3>3. /\ s.state = f /\ s.effect = e /\ s.pending = u.unknown /\ s.bounds = r.bounds
            /\ s.verdict = IF u.unknown THEN "pendingVerification" ELSE r.verdict
        BY <1>a DEF Finished, Row
      <3>4. /\ u.unknown => e = "unknown" /\ f = "failed"
            /\ ~u.unknown /\ ~u.failed /\ ~u.cancelled => e = "completed" /\ f = "succeeded"
            /\ ~u.unknown /\ (u.failed \/ u.cancelled) =>
                 /\ e = IF u.all > 0 THEN "partiallyApplied" ELSE u.effect
                 /\ f \in {"failed", "cancelled"}
        BY DEF FinalEffect, FinalState
      <3> HIDE DEF r, w, u, v, x, s, e, f
      <3>5. r.state = "running" /\ u.pc \in PostClaim /\ u.pc \in Closing
        BY <2>0, <2>1 DEF CanFinish, ClaimHolds, PostClaim, Closing
      <3>6. /\ u.all = r.bounds
            /\ ~u.unknown => w = r.bounds
            /\ u.effect # "completed"
            /\ u.effect = "partiallyApplied" => u.all > 0 \/ u.unknown
            /\ NoFlags(u) => u.all = Stages * Batches
        BY <1>a, <2>0, <3>5 DEF HonestInv, DispatchInv
      <3>7. r.verdict # "notExecuted" /\ v.pc = "idle"
        BY <1>a, <3>5 DEF HonestInv, PlaceInv, VerifierInv
      <3>8. RowInv(s, w) /\ s.state \in Terminal
        <4>1. CASE u.unknown
          BY <1>b, <3>3, <3>4, <3>7, <4>1 DEF RowInv, Flagged, Terminal
        <4>2. CASE ~u.unknown /\ NoFlags(u)
          BY <1>b, <3>3, <3>4, <3>6, <3>7, <4>2 DEF RowInv, NoFlags, Terminal
        <4>3. CASE ~u.unknown /\ ~NoFlags(u)
          <5>1. e = IF u.all > 0 THEN "partiallyApplied" ELSE u.effect  BY <3>4, <4>3 DEF NoFlags
          <5>2. f \in {"failed", "cancelled"}  BY <3>4, <4>3 DEF NoFlags
          <5>3. w = r.bounds /\ w = u.all /\ u.effect # "completed"
                /\ (u.effect = "partiallyApplied" => u.all > 0)
            BY <3>6, <4>3
          <5>4. /\ e \in {"notStarted", "rolledBack"} => w = 0
                /\ e # "completed"
                /\ e = "partiallyApplied" => w > 0
            BY <1>b, <5>1, <5>3
          <5>5. QED  BY <1>b, <3>3, <3>7, <4>3, <5>2, <5>3, <5>4 DEF RowInv, Terminal
        <4>4. QED  BY <1>b, <4>1, <4>2, <4>3
      <3>9. PlaceInv(s, w, x)
        BY <3>2, <3>3, <3>8 DEF PlaceInv, RowInv, PreClaim, PostClaim, StageOpen, Closing
      <3>10. DispatchInv(s, w, x)  BY <3>2 DEF DispatchInv, PostClaim, StageOpen, Closing
      <3>11. VerifierInv(s, w, v)  BY <3>7 DEF VerifierInv
      <3>12. QED  BY <2>0, <3>1, <3>8, <3>9, <3>10, <3>11 DEF HonestNext, HonestInv, host, w, v
    <2>2. CASE ~CanFinish(r, u.version)
      BY <1>3, <2>0, <2>2, GotoFail DEF Finish
    <2>3. QED  BY <2>1, <2>2
  <1>4. CASE DispatchFails(j)
    <2> DEFINE x == [u EXCEPT !.pc = "callerErr", !.permit = FALSE]
               s == MarkedPending(r)
    <2>0. u.pc = "fail" /\ UNCHANGED <<world, host>> /\ row'[j] = s
      BY <1>4, JobValues DEF DispatchFails, Is
    <2>1. x.pc = "callerErr" /\ x.facts = NoFacts  BY <1>a, <1>c, <2>0 DEF Run
    <2>2. run'[j] = x  BY <1>4 DEF DispatchFails, TypeInv, TypeOK
    <2>3. s \in Row /\ HonestInv(s, w, u, v)  BY <1>a, RowTypes, MarkedKeeps
    <2> HIDE DEF r, w, u, v, x, s
    <2>4. HonestInv(s, w, x, v)  BY <1>a, <2>1, <2>3, LeavingKeeps
    <2>5. QED  BY <2>0, <2>2, <2>4 DEF HonestNext, host, w, v
  <1>5. QED  BY <1>1, <1>2, <1>3, <1>4

LEMMA HonestCaller ==
    ASSUME TypeInv, JobsInv, NEW j \in Job,
           Drive(j) \/ Persist(j) \/ CallerReads(j) \/ CallerMarks(j)
    PROVE  HonestNext(j)
  <1> DEFINE r == row[j]
             w == world[j]
             u == run[j]
             v == verifier[j]
  <1>a. r \in Row /\ w \in Nat /\ u \in Run /\ HonestInv(r, w, u, v)  BY JobValues DEF JobsInv
  <1>c. u.pc # "stage" => u.facts = NoFacts  BY <1>a DEF HonestInv, PlaceInv
  \* The places of a caller that has a terminal row before it.
  <1>d. ASSUME NEW s, HonestInv(s, w, u, v), NEW x, x.facts = NoFacts, s.state \in Terminal,
               \/ x.pc = "drive" /\ (x.effect \in {"notStarted", "rolledBack"} => w = 0)
               \/ x.pc = "persist" /\ x.verdict # "none" /\ (x.verdict = "notExecuted" => w = 0)
        PROVE  HonestInv(s, w, x, v)
    <2>1. PlaceInv(s, w, x)
      BY <1>d DEF PlaceInv, PreClaim, PostClaim, StageOpen, Closing
    <2>2. DispatchInv(s, w, x)  BY <1>d DEF DispatchInv, PostClaim, StageOpen, Closing
    <2>3. QED  BY <1>d, <2>1, <2>2 DEF HonestInv
  <1>1. CASE Drive(j)
    <2>0. u.pc = "drive" /\ UNCHANGED <<row, world, host>>  BY <1>1 DEF Drive, Is
    <2>1. PICK c \in Conclusions(j) : run' = [run EXCEPT ![j].pc = "persist", ![j].verdict = c]
      BY <1>1 DEF Drive
    <2> DEFINE x == [u EXCEPT !.pc = "persist", !.verdict = c]
    <2>2. run'[j] = x  BY <2>1 DEF TypeInv, TypeOK
    <2>3. x.pc = "persist" /\ x.verdict = c /\ x.facts = NoFacts  BY <1>a, <1>c, <2>0 DEF Run
    <2>4. c # "none" /\ (c = "notExecuted" => u.effect \in {"notStarted", "rolledBack"})
      BY DEF Conclusions
    <2> HIDE DEF r, w, u, v, x
    <2>5. r.state \in Terminal /\ (c = "notExecuted" => w = 0)
      BY <1>a, <2>0, <2>4 DEF HonestInv, PlaceInv
    <2>6. HonestInv(r, w, x, v)  BY <1>a, <1>d, <2>3, <2>4, <2>5
    <2>7. QED  BY <2>0, <2>2, <2>6 DEF HonestNext, host, r, w, v
  <1>2. CASE Persist(j)
    <2> DEFINE s == RecoveryPersisted(r, u.verdict)
    <2>0. u.pc = "persist" /\ UNCHANGED <<world, host>> /\ row'[j] = s /\ run'[j] = At("done")
      BY <1>2, JobValues DEF Persist, Is
    <2>1. /\ u.verdict \in Verdict /\ u.verdict # "none" /\ r.state \in Terminal
          /\ u.verdict = "notExecuted" => w = 0
          /\ u.pc \notin PostClaim
      BY <1>a, <2>0, RunFields DEF HonestInv, PlaceInv, PostClaim, StageOpen, Closing
    <2>2. At("done").pc = "done" /\ At("done").facts = NoFacts  BY DEF At
    <2>3. s \in Row  BY <1>a, <2>1, RowTypes
    <2> HIDE DEF r, w, u, v
    <2>4. HonestInv(s, w, u, v)  BY <1>a, <2>1, RecoveryKeeps
    <2> HIDE DEF s
    <2>5. HonestInv(s, w, At("done"), v)  BY <1>a, <2>2, <2>3, <2>4, LeavingKeeps
    <2>6. QED  BY <2>0, <2>5 DEF HonestNext, host, w, v
  <1>3. CASE CallerReads(j)
    <2>0. u.pc = "callerErr" /\ UNCHANGED <<row, world, host>>  BY <1>3 DEF CallerReads, Is
    <2>1. run'[j] = CASE r.state = "queued" -> At("abandon")
                      [] r.state = "running" -> At("flag")
                      [] r.state = "cancelled" -> [At("drive") EXCEPT !.effect = r.effect]
                      [] OTHER -> At("done")
      BY <1>3, JobValues DEF CallerReads
    <2> DEFINE x == [At("drive") EXCEPT !.effect = r.effect]
    <2>2. x.pc = "drive" /\ x.facts = NoFacts /\ x.effect = r.effect  BY DEF At
    <2>3. \A p : At(p).pc = p /\ At(p).facts = NoFacts  BY DEF At
    <2>4. run'[j] \in {At("abandon"), At("flag"), At("done")} \/ (r.state = "cancelled" /\ run'[j] = x)
      BY <2>1
    <2> HIDE DEF r, w, u, v, x
    <2>5. ASSUME NEW p \in {"abandon", "flag", "done"} PROVE HonestInv(r, w, At(p), v)
      BY <1>a, <2>3, LeavingKeeps
    <2>6. ASSUME r.state = "cancelled" PROVE HonestInv(r, w, x, v)
      <3>1. r.state \in Terminal /\ (r.effect \in {"notStarted", "rolledBack"} => w = 0)
        BY <1>a, <2>6 DEF HonestInv, RowInv, Terminal
      <3>2. QED  BY <1>a, <1>d, <2>2, <3>1
    <2>7. QED  BY <2>0, <2>4, <2>5, <2>6 DEF HonestNext, host, r, w, v
  <1>4. CASE CallerMarks(j)
    <2>0. UNCHANGED <<world, host>>  BY <1>4 DEF CallerMarks
    <2>1. \A p : At(p).pc = p /\ At(p).facts = NoFacts  BY DEF At
    <2>2. CASE u.pc = "abandon"
      <3>1. run'[j] = At("done") /\ (row'[j] = r \/ (Unclaimed(r) /\ row'[j] = FailedUnstarted(r)))
        <4>1. /\ row' = IF Unclaimed(row[j]) THEN [row EXCEPT ![j] = FailedUnstarted(@)] ELSE row
              /\ run' = [run EXCEPT ![j] = At("done")]
          BY <1>4, <2>2 DEF CallerMarks, Is
        <4>2. run'[j] = At("done")  BY <4>1 DEF TypeInv, TypeOK
        <4>3. row'[j] = IF Unclaimed(r) THEN FailedUnstarted(r) ELSE r
          BY <4>1 DEF TypeInv, TypeOK
        <4>4. QED  BY <4>2, <4>3
      <3>2. FailedUnstarted(r) \in Row  BY <1>a, RowTypes
      <3> HIDE DEF r, w, u, v
      <3>3. row'[j] \in Row /\ HonestInv(row'[j], w, u, v)
        BY <1>a, <3>1, <3>2, UnstartedKeeps DEF Unclaimed
      <3>4. HonestInv(row'[j], w, At("done"), v)  BY <1>a, <2>1, <3>3, LeavingKeeps
      <3>5. QED  BY <2>0, <3>1, <3>4 DEF HonestNext, host, w, v
    <2>3. CASE u.pc # "abandon"
      <3> DEFINE s == MarkedPending(r)
                 x == [At("persist") EXCEPT !.verdict = "pendingVerification"]
      <3>1. run'[j] = x /\ row'[j] = s
        BY <1>4, <2>3, JobValues, ZenonT(60) DEF CallerMarks, Is
      <3>2. x.pc = "persist" /\ x.facts = NoFacts /\ x.verdict = "pendingVerification"  BY DEF At
      <3>3. s \in Row /\ HonestInv(s, w, u, v)  BY <1>a, RowTypes, MarkedKeeps
      <3>4. s.state \in Terminal
        <4>1. s.state = IF r.state \in Terminal THEN r.state ELSE "failed"
          BY <1>a DEF MarkedPending, Row
        <4>2. QED  BY <4>1 DEF Terminal
      <3> HIDE DEF r, w, u, v, x, s
      <3>5. HonestInv(s, w, x, v)  BY <1>d, <3>2, <3>3, <3>4
      <3>6. QED  BY <2>0, <3>1, <3>5 DEF HonestNext, host, w, v
    <2>4. QED  BY <2>2, <2>3
  <1>5. QED  BY <1>1, <1>2, <1>3, <1>4

\* A stage that is running may commit whatever becomes of its row.
LEMMA StageKeeps ==
    ASSUME NEW r \in Row, NEW w \in Nat, NEW u, NEW v, HonestInv(r, w, u, v),
           v.confirmed \in Nat, u.pc = "stage", NEW z \in {w, w + 1}, NEW x,
           x.pc \in {"stage", "broken", "record"}, x.pc # "stage" => x.facts = NoFacts,
           r.state = "running" => DispatchInv(r, z, x)
    PROVE  HonestInv(r, z, x, v)
  <1>1. u.pc \in PostClaim /\ x.pc \in PostClaim  BY DEF PostClaim, StageOpen
  <1>2. /\ r.verdict # "notExecuted"
        /\ r.state = "running" \/ (r.state = "failed" /\ Flagged(r))
    BY <1>1 DEF HonestInv, PlaceInv
  <1>3. r.bounds \in Nat /\ r.bounds <= w  BY RowFields DEF HonestInv, RowInv
  <1>4. RowInv(r, z)  BY <1>2, <1>3 DEF RowInv, Terminal, Flagged
  <1>5. PlaceInv(r, z, x)
    BY <1>2 DEF PlaceInv, PreClaim, PostClaim, StageOpen, Closing
  <1>6. VerifierInv(r, z, v)  BY <1>3 DEF HonestInv, VerifierInv
  <1>7. DispatchInv(r, z, x)  BY DEF DispatchInv
  <1>8. QED  BY <1>4, <1>5, <1>6, <1>7 DEF HonestInv

\* What the dispatch of a running job knows while its stage runs.
LEMMA StageKnows ==
    ASSUME NEW r \in Row, NEW w \in Nat, NEW u \in Run, NEW v, HonestInv(r, w, u, v),
           u.pc = "stage", r.state = "running"
    PROVE  /\ NoFlags(u) /\ u.effect = "notStarted" /\ u.all = r.bounds
           /\ u.all = (u.stage - 1) * Batches
           /\ r.bounds + Done(u.facts) <= w
           /\ ~u.facts.doubt => w = r.bounds + Done(u.facts)
           /\ r.bounds \in Nat /\ Done(u.facts) \in Nat /\ u.stage \in Nat
           /\ u.facts.before \in Nat /\ u.facts.here \in Nat
  <1>1. u.pc \in PostClaim /\ u.pc \in StageOpen  BY DEF PostClaim, StageOpen
  <1>2. r.bounds \in Nat /\ u.facts \in Facts /\ u.stage \in Nat  BY RowFields, RunFields
  <1>3. QED  BY <1>1, <1>2, FactTypes DEF HonestInv, DispatchInv

\* The dispatch after a step of the handler within its stage.
LEMMA StageInv ==
    ASSUME NEW r \in Row, NEW u \in Run, NEW x, x.pc = "stage", NEW z \in Nat,
           x.unknown = u.unknown, x.failed = u.failed, x.cancelled = u.cancelled,
           x.effect = u.effect, x.all = u.all, x.stage = u.stage,
           NoFlags(u), u.effect = "notStarted", u.all = r.bounds,
           u.all = (u.stage - 1) * Batches,
           r.bounds + Done(x.facts) <= z, ~x.facts.doubt => z = r.bounds + Done(x.facts)
    PROVE  DispatchInv(r, z, x)
  BY DEF DispatchInv, NoFlags, StageOpen, Closing

\* The dispatch after an honest report.
LEMMA ReportedKeeps ==
    ASSUME NEW r \in Row, NEW w \in Nat, NEW u \in Run, NEW v, HonestInv(r, w, u, v),
           u.pc = "stage", r.state = "running", NEW p \in Report, Honest(u.facts, u.token, p)
    PROVE  DispatchInv(r, w, Reported(u, p))
  <1> DEFINE x == Reported(u, p)
             whole == u.stage * Batches
  <1>1. /\ x.pc = "record" /\ x.report = p /\ x.left = p.bounds /\ x.all = u.all
        /\ x.unknown = (u.unknown \/ p.terminal = "unknown" \/ p.effect = "unknown")
        /\ x.failed = (u.failed \/ p.terminal = "failed")
        /\ x.cancelled = (u.cancelled \/ p.terminal = "cancelled")
        /\ x.effect = (IF p.terminal = "succeeded" THEN u.effect ELSE p.effect)
        /\ x.stage = u.stage
    BY DEF Reported, Run
  <1>2. /\ NoFlags(u) /\ u.effect = "notStarted" /\ u.all = r.bounds
        /\ u.all = (u.stage - 1) * Batches
        /\ r.bounds + Done(u.facts) <= w
        /\ ~u.facts.doubt => w = r.bounds + Done(u.facts)
        /\ r.bounds \in Nat /\ Done(u.facts) \in Nat /\ u.stage \in Nat
    BY StageKnows
  <1>3. u.facts.doubt \in BOOLEAN /\ p.bounds = Done(u.facts)
    BY RunFields, FactTypes DEF Honest, Done
  <1>4. p.terminal \in StageTerminal /\ p.effect \in EffectOutcome  BY DEF Report
  <1>5. p.terminal = "succeeded" =>
          p.bounds = Batches /\ ~u.facts.doubt /\ p.effect = "completed"
    BY <1>3 DEF Honest
  <1>6. (u.stage - 1) * Batches + Batches = whole  BY <1>2, StageProducts
  <1> HIDE DEF x, whole
  <1>7. r.bounds + x.left <= w  BY <1>1, <1>2, <1>3
  <1>8. ~x.unknown => w = r.bounds + x.left
    <2>1. ~x.unknown => ~u.facts.doubt  BY <1>1, <1>3 DEF Honest
    <2>2. QED  BY <1>1, <1>2, <1>3, <2>1
  <1>9. x.effect # "completed"  BY <1>1, <1>2 DEF Honest
  <1>10. x.effect = "partiallyApplied" => x.all + x.left > 0
    <2>1. x.effect = "partiallyApplied" => p.effect = "partiallyApplied"  BY <1>1, <1>2
    <2>2. p.effect = "partiallyApplied" => p.bounds > 0  BY DEF Honest
    <2>3. QED  BY <1>1, <1>2, <1>3, <2>1, <2>2
  <1>11. CASE p.terminal = "succeeded"
    <2>1. NoFlags(x) /\ x.effect = "notStarted"
      BY <1>1, <1>2, <1>5, <1>11 DEF NoFlags
    <2>2. x.all + x.left = x.stage * Batches
      <3>1. x.all + x.left = whole  BY <1>1, <1>2, <1>5, <1>6, <1>11
      <3>2. QED  BY <1>1, <3>1 DEF whole
    <2>3. QED
      BY <1>1, <1>2, <1>7, <1>8, <1>10, <1>11, <2>1, <2>2
      DEF DispatchInv, StageOpen, Closing, x
  <1>12. CASE p.terminal # "succeeded"
    <2>1. ~NoFlags(x)  BY <1>1, <1>4, <1>12 DEF NoFlags, StageTerminal
    <2>2. QED
      BY <1>1, <1>2, <1>7, <1>8, <1>9, <1>10, <1>12, <2>1
      DEF DispatchInv, StageOpen, Closing, x
  <1>13. QED  BY <1>11, <1>12

LEMMA HonestHandlerStep ==
    ASSUME TypeInv, JobsInv, HonestHandlers, NEW j \in Job, HandlerStep(j) \/ WatcherPolls(j)
    PROVE  HonestNext(j)
  <1> DEFINE r == row[j]
             w == world[j]
             u == run[j]
             v == verifier[j]
             f == u.facts
  <1>a. /\ r \in Row /\ w \in Nat /\ u \in Run /\ HonestInv(r, w, u, v)
        /\ v.confirmed \in Nat /\ f \in Facts /\ u.token \in BOOLEAN
    BY JobValues, RunFields DEF JobsInv
  <1>b. u.pc = "stage" /\ UNCHANGED <<row, host>>
    BY DEF HandlerStep, StageEnds, WatcherPolls, BatchBegins, BatchCommits, BatchRollsBack,
           BatchIsLost, NextTable, StageReturns, StageBreaks, Is, host
  <1>c. /\ world' = [world EXCEPT ![j] = @ + 1] => world'[j] = w + 1
        /\ world' = world => world'[j] = w
    BY DEF TypeInv, TypeOK
  \* A step that stays in the stage and changes what the handler knows.
  <1>d. ASSUME NEW g \in Facts, run' = [run EXCEPT ![j].facts = g],
               \/ world'[j] = w /\ Done(g) = Done(f) /\ (f.doubt => g.doubt)
               \/ world'[j] = w + 1 /\ Done(g) = Done(f) + 1 /\ g.doubt = f.doubt
               \/ world'[j] \in {w, w + 1} /\ Done(g) = Done(f) /\ g.doubt
        PROVE  HonestNext(j)
    <2> DEFINE x == [u EXCEPT !.facts = g]
               z == world'[j]
    <2>1. run'[j] = x  BY <1>d DEF TypeInv, TypeOK
    <2>2. /\ x.pc = "stage" /\ x.facts = g
          /\ x.unknown = u.unknown /\ x.failed = u.failed /\ x.cancelled = u.cancelled
          /\ x.effect = u.effect /\ x.all = u.all /\ x.stage = u.stage
      BY <1>a, <1>b DEF Run
    <2>3. z \in {w, w + 1}  BY <1>d
    <2>4. /\ \/ z = w /\ Done(g) = Done(f) /\ (f.doubt => g.doubt)
             \/ z = w + 1 /\ Done(g) = Done(f) + 1 /\ g.doubt = f.doubt
             \/ z \in {w, w + 1} /\ Done(g) = Done(f) /\ g.doubt
          /\ g.doubt \in BOOLEAN /\ f.doubt \in BOOLEAN
      BY <1>a, <1>d, FactTypes
    <2>5. Done(g) \in Nat /\ Done(f) \in Nat  BY <1>a, FactTypes
    <2> HIDE DEF x, z, r, w, u, v
    <2>6. ASSUME r.state = "running" PROVE DispatchInv(r, z, x)
      <3>1. /\ NoFlags(u) /\ u.effect = "notStarted" /\ u.all = r.bounds
            /\ u.all = (u.stage - 1) * Batches
            /\ r.bounds + Done(f) <= w
            /\ ~f.doubt => w = r.bounds + Done(f)
            /\ r.bounds \in Nat
        BY <1>a, <1>b, <2>6, StageKnows, ZenonT(60) DEF u
      <3>2. r.bounds + Done(g) <= z /\ (~g.doubt => z = r.bounds + Done(g))
        BY <1>a, <2>3, <2>4, <2>5, <3>1
      <3>3. z \in Nat  BY <1>a, <2>3
      <3>4. QED  BY <1>a, <2>2, <3>1, <3>2, <3>3, StageInv
    <2>7. HonestInv(r, z, x, v)  BY <1>a, <1>b, <2>2, <2>3, <2>6, StageKeeps DEF u
    <2>8. QED  BY <1>b, <2>1, <2>7 DEF HonestNext, host, r, v, z
  <1>1. CASE BatchBegins(j)
    <2> DEFINE g == [f EXCEPT !.open = TRUE]
    <2>1. run' = [run EXCEPT ![j].facts = g] /\ world'[j] = w /\ ~f.open /\ Left(f) > 0
      BY <1>1, <1>c DEF BatchBegins
    <2>2. g \in Facts  BY <1>a, <2>1, BatchFacts, Zenon DEF TypeInv
    <2>3. Done(g) = Done(f) /\ g.doubt = f.doubt  BY <1>a DEF Facts, Done
    <2> HIDE DEF g
    <2>4. QED  BY <1>d, <2>1, <2>2, <2>3, Zenon
  <1>2. CASE BatchCommits(j)
    <2> DEFINE g == [f EXCEPT !.open = FALSE, !.here = @ + 1]
    <2>1. run' = [run EXCEPT ![j].facts = g] /\ world'[j] = w + 1 /\ f.open
      BY <1>2, <1>a, <1>c, SMTT(60) DEF BatchCommits, TypeInv, TypeOK, Run, Facts
    <2>2. g \in Facts  BY <1>a, <2>1, BatchFacts, Zenon DEF TypeInv
    <2>3. g.before = f.before /\ g.here = f.here + 1 /\ g.doubt = f.doubt  BY <1>a DEF Facts
    <2>4. Done(g) = Done(f) + 1  BY <1>a, <2>3, FactTypes DEF Done
    <2> HIDE DEF g
    <2>5. QED  BY <1>d, <2>1, <2>2, <2>3, <2>4
  <1>3. CASE BatchRollsBack(j)
    <2> DEFINE g == [f EXCEPT !.open = FALSE, !.failed = TRUE]
    <2>1. run' = [run EXCEPT ![j].facts = g] /\ world'[j] = w /\ f.open
      BY <1>3, <1>c DEF BatchRollsBack
    <2>2. g \in Facts  BY <1>a, <2>1, BatchFacts, Zenon DEF TypeInv
    <2>3. Done(g) = Done(f) /\ g.doubt = f.doubt  BY <1>a DEF Facts, Done
    <2> HIDE DEF g
    <2>4. QED  BY <1>d, <2>1, <2>2, <2>3, Zenon
  <1>4. CASE BatchIsLost(j)
    <2> DEFINE g == [f EXCEPT !.open = FALSE, !.failed = TRUE, !.doubt = TRUE]
    <2>1. /\ run' = [run EXCEPT ![j].facts = g] /\ world'[j] \in {w, w + 1}
          /\ f.open /\ ~f.doubt
      BY <1>4, <1>c DEF BatchIsLost, Fate
    <2>2. g \in Facts  BY <1>a, <2>1, BatchFacts, Zenon DEF TypeInv
    <2>3. Done(g) = Done(f) /\ g.doubt  BY <1>a DEF Facts, Done
    <2> HIDE DEF g
    <2>4. QED  BY <1>d, <2>1, <2>2, <2>3, Zenon
  <1>5. CASE NextTable(j)
    <2> DEFINE g == [f EXCEPT !.before = Done(f), !.here = 0]
    <2>1. run' = [run EXCEPT ![j].facts = g] /\ world'[j] = w /\ ~f.open
      BY <1>5, <1>c DEF NextTable
    <2>2. g \in Facts  BY <1>a, <2>1, BatchFacts, Zenon DEF TypeInv
    <2>3. g.before = Done(f) /\ g.here = 0 /\ g.doubt = f.doubt  BY <1>a DEF Facts
    <2>4. Done(g) = Done(f)  BY <1>a, <2>3, FactTypes DEF Done
    <2> HIDE DEF g
    <2>5. QED  BY <1>d, <2>1, <2>2, <2>3, <2>4, Zenon
  <1>6. CASE StageReturns(j)
    <2>1. PICK p \in Reports(f, u.token) : run' = [run EXCEPT ![j] = Reported(u, p)]
      BY <1>6 DEF StageReturns
    <2>2. p \in Report /\ Honest(f, u.token, p)
      BY <1>a, RuntimeAssumption DEF HonestHandlers
    <2> DEFINE x == Reported(u, p)
    <2>3. run'[j] = x /\ world'[j] = w
      BY <1>6, <1>c, <2>1, JobValues DEF StageReturns
    <2>4. x.pc = "record" /\ x.facts = NoFacts
      BY <1>a DEF Reported, Run
    <2>5. r.state = "running" => DispatchInv(r, w, x)
      BY <1>a, <1>b, <2>2, ReportedKeeps
    <2> HIDE DEF x, r, w, u, v
    <2>6. HonestInv(r, w, x, v)  BY <1>a, <1>b, <2>4, <2>5, StageKeeps DEF u
    <2>7. QED  BY <1>b, <2>3, <2>6 DEF HonestNext, host, r, v
  <1>7. CASE StageBreaks(j)
    <2> DEFINE x == [u EXCEPT !.pc = "broken", !.watching = FALSE, !.facts = NoFacts]
               z == world'[j]
    <2>1. run'[j] = x  BY <1>7 DEF StageBreaks, TypeInv, TypeOK
    <2>2. z \in {w, w + 1}  BY <1>7, <1>c DEF StageBreaks, Fate
    <2>3. x.pc = "broken" /\ x.facts = NoFacts /\ x.all = u.all  BY <1>a DEF Run
    <2> HIDE DEF x, z, r, w, u, v
    <2>4. ASSUME r.state = "running" PROVE DispatchInv(r, z, x)
      <3>1. u.all = r.bounds  BY <1>a, <1>b, <2>4, StageKnows DEF u
      <3>2. QED  BY <2>3, <3>1 DEF DispatchInv, StageOpen, Closing
    <2>5. HonestInv(r, z, x, v)  BY <1>a, <1>b, <2>2, <2>3, <2>4, StageKeeps DEF u
    <2>6. QED  BY <1>b, <2>1, <2>5 DEF HonestNext, host, r, v, z
  <1>8. CASE WatcherPolls(j)
    <2> DEFINE x == [u EXCEPT !.watching = FALSE, !.token = @ \/ r.cancel]
    <2>1. run'[j] = x /\ world'[j] = w  BY <1>8, <1>c DEF WatcherPolls, TypeInv, TypeOK
    <2>2. /\ x.pc = "stage" /\ x.facts = f
          /\ x.unknown = u.unknown /\ x.failed = u.failed /\ x.cancelled = u.cancelled
          /\ x.effect = u.effect /\ x.all = u.all /\ x.stage = u.stage
      BY <1>a, <1>b DEF Run
    <2> HIDE DEF x, r, w, u, v
    <2>3. r.state = "running" => DispatchInv(r, w, x)
      BY <1>a, <1>b, <2>2, StageKnows, StageInv DEF u
    <2>4. HonestInv(r, w, x, v)  BY <1>a, <1>b, <2>2, <2>3, StageKeeps DEF u
    <2>5. QED  BY <1>b, <2>1, <2>4 DEF HonestNext, host, r, v
  <1>9. QED
    BY <1>1, <1>2, <1>3, <1>4, <1>5, <1>6, <1>7, <1>8 DEF HandlerStep, StageEnds

LEMMA HonestHost ==
    ASSUME TypeInv, JobsInv, NEW j \in Job,
           \/ CancelBegins(j) \/ CancelConfirms(j) \/ VerifyBegins(j) \/ VerifyLooks(j)
           \/ VerifyPersists(j) \/ ScanMarks(j) \/ LeaseLapses(j) \/ RepositoryFails(j)
    PROVE  HonestNext(j)
  <1> DEFINE r == row[j]
             w == world[j]
             u == run[j]
             v == verifier[j]
  <1>a. /\ r \in Row /\ w \in Nat /\ u \in Run /\ HonestInv(r, w, u, v)
        /\ v.confirmed \in Nat /\ r.bounds \in Nat
    BY JobValues, RowFields DEF JobsInv
  <1>b. \A x : row' = [row EXCEPT ![j] = x] => row'[j] = x  BY JobValues
  <1>c. u.pc # "stage" => u.facts = NoFacts  BY <1>a DEF HonestInv, PlaceInv
  <1>d. ASSUME UNCHANGED <<world, run, verifier>>, HonestInv(row'[j], w, u, v)
        PROVE  HonestNext(j)
    BY <1>d DEF HonestNext
  <1>1. CASE CancelBegins(j) \/ LeaseLapses(j)
    <2>1. PICK s : /\ row'[j] = s
                   /\ s.state = r.state /\ s.effect = r.effect /\ s.bounds = r.bounds
                   /\ s.verdict = r.verdict /\ s.pending = r.pending
      <3>1. LET s == CancelRequested(r)
            IN  /\ s.state = r.state /\ s.effect = r.effect /\ s.bounds = r.bounds
                /\ s.verdict = r.verdict /\ s.pending = r.pending
        BY <1>a DEF CancelRequested, Row
      <3>2. LET s == [r EXCEPT !.lease = "lapsed"]
            IN  /\ s.state = r.state /\ s.effect = r.effect /\ s.bounds = r.bounds
                /\ s.verdict = r.verdict /\ s.pending = r.pending
        BY <1>a DEF Row
      <3>3. CASE CancelBegins(j)  BY <1>b, <3>1, <3>3 DEF CancelBegins
      <3>4. CASE LeaseLapses(j)  BY <1>b, <3>2, <3>4 DEF LeaseLapses
      <3>5. QED  BY <1>1, <3>3, <3>4
    <2>2. UNCHANGED <<world, run, verifier>>  BY <1>1 DEF CancelBegins, LeaseLapses, host
    <2> HIDE DEF r, w, u, v
    <2>3. HonestInv(s, w, u, v)  BY <1>a, <2>1, QuietWrite
    <2>4. QED  BY <1>d, <2>1, <2>2, <2>3
  <1>2. CASE CancelConfirms(j)
    <2>1. UNCHANGED <<world, run, verifier>>  BY <1>2 DEF CancelConfirms
    <2>2. row'[j] = r \/ (r.state = "queued" /\ row'[j] = ConfirmedCancelled(r))
      BY <1>2, <1>b DEF CancelConfirms, CanConfirmCancelled, Unclaimed
    <2> HIDE DEF r, w, u, v
    <2>3. HonestInv(row'[j], w, u, v)  BY <1>a, <2>2, UnstartedKeeps
    <2>4. QED  BY <1>d, <2>1, <2>3
  <1>3. CASE VerifyBegins(j)
    <2>1. UNCHANGED <<row, world, run>> /\ verifier'[j].pc = "look" /\ r.state = "failed"
      BY <1>3 DEF VerifyBegins, Verifiable, NoVerifier, TypeInv, TypeOK
    <2>2. VerifierInv(r, w, verifier'[j])  BY <2>1 DEF VerifierInv
    <2>3. QED  BY <1>a, <2>1, <2>2 DEF HonestNext, HonestInv
  <1>4. CASE VerifyLooks(j)
    <2>1. PICK n \in 0..(w - r.bounds) :
             verifier' = [verifier EXCEPT ![j].pc = "persist", ![j].confirmed = n]
      BY <1>4 DEF VerifyLooks
    <2> DEFINE x == [v EXCEPT !.pc = "persist", !.confirmed = n]
    <2>2. verifier'[j] = x  BY <2>1 DEF TypeInv, TypeOK
    <2>3. x.pc = "persist" /\ x.confirmed = n  BY JobValues
    <2>4. UNCHANGED <<row, world, run>> /\ v.pc # "idle"  BY <1>4 DEF VerifyLooks
    <2>5. r.bounds + n <= w  BY <1>a, <2>1
    <2> HIDE DEF x, r, w, u, v
    <2>6. VerifierInv(r, w, x)  BY <1>a, <2>3, <2>4, <2>5 DEF HonestInv, VerifierInv
    <2>7. QED  BY <1>a, <2>2, <2>4, <2>6 DEF HonestNext, HonestInv, r, w, u
  <1>5. CASE VerifyPersists(j)
    <2>1. PICK x \in {"resumeAfterVerify", "reject", "requireManualReview"} :
             row' = IF CanPersistVerification(r, v.version)
                      THEN [row EXCEPT ![j] = VerificationPersisted(r, x,
                              IF x = "resumeAfterVerify" THEN v.confirmed ELSE 0)]
                      ELSE row
      BY <1>5 DEF VerifyPersists
    <2> DEFINE n == IF x = "resumeAfterVerify" THEN v.confirmed ELSE 0
    <2>2. n \in {0, v.confirmed}  OBVIOUS
    <2>3. row'[j] = r \/ row'[j] = VerificationPersisted(r, x, n)  BY <1>b, <2>1
    <2>4. UNCHANGED <<world, run>> /\ verifier'[j] = NoVerifier /\ v.pc = "persist"
      BY <1>5 DEF VerifyPersists, TypeInv, TypeOK
    <2> HIDE DEF n, r, w, u, v
    <2>5. HonestInv(VerificationPersisted(r, x, n), w, u, NoVerifier)
      BY <1>a, <2>2, <2>4, VerificationKeeps
    <2>6. HonestInv(r, w, u, NoVerifier)  BY <1>a DEF HonestInv, VerifierInv, NoVerifier
    <2>7. QED  BY <2>3, <2>4, <2>5, <2>6 DEF HonestNext, w, u
  <1>6. CASE ScanMarks(j)
    <2>1. UNCHANGED <<world, run, verifier>>  BY <1>6 DEF ScanMarks
    <2>2. \/ row'[j] = r \/ row'[j] = MarkedPending(r)
          \/ row'[j] = RecoveryPersisted(r, "pendingVerification")
          \/ r.state = "queued" /\ row'[j] = FailedUnstarted(r)
      BY <1>6, <1>b DEF ScanMarks, Unclaimed
    <2> HIDE DEF r, w, u, v
    <2>3. "pendingVerification" \in Verdict  BY DEF Verdict
    <2>4. HonestInv(RecoveryPersisted(r, "pendingVerification"), w, u, v)
      BY <1>a, <2>3, RecoveryKeeps
    <2>5. HonestInv(row'[j], w, u, v)  BY <1>a, <2>2, <2>4, MarkedKeeps, UnstartedKeeps
    <2>6. QED  BY <1>d, <2>1, <2>5
  <1>7. CASE RepositoryFails(j)
    <2>1. UNCHANGED <<row, world, verifier>>  BY <1>7 DEF RepositoryFails
    <2>2. CASE u.pc = "stage"
      <3> DEFINE x == [u EXCEPT !.watching = FALSE]
      <3>1. run' = [run EXCEPT ![j].watching = FALSE]
        BY <1>7, <2>2 DEF RepositoryFails, BeforeClaim, InDispatch, InCaller
      <3>2. run'[j] = x  BY <3>1 DEF TypeInv, TypeOK
      <3>3. /\ x.pc = "stage" /\ x.facts = u.facts
            /\ x.unknown = u.unknown /\ x.failed = u.failed /\ x.cancelled = u.cancelled
            /\ x.effect = u.effect /\ x.all = u.all /\ x.stage = u.stage
        BY <1>a, <2>2 DEF Run
      <3> HIDE DEF x, r, w, u, v
      <3>4. r.state = "running" => DispatchInv(r, w, x)
        BY <1>a, <2>2, <3>3, StageKnows, StageInv
      <3>5. HonestInv(r, w, x, v)  BY <1>a, <2>2, <3>3, <3>4, StageKeeps
      <3>6. QED  BY <2>1, <3>2, <3>5 DEF HonestNext, r, w, v
    <2>3. CASE u.pc # "stage"
      <3>1. PICK x : run'[j] = x /\ x.pc \in {"callerErr", "fail", "done"} /\ x.facts = NoFacts
        <4>1. ASSUME NEW p \in {"callerErr", "fail"}, Goto(j, p)
              PROVE  run'[j].pc = p /\ run'[j].facts = NoFacts
          <5>1. run'[j] = [u EXCEPT !.pc = p]  BY <4>1, JobValues
          <5>2. QED  BY <1>a, <1>c, <2>3, <5>1 DEF Run
        <4>2. ASSUME run' = [run EXCEPT ![j].pc = "callerErr", ![j].permit = FALSE]
              PROVE  run'[j].pc = "callerErr" /\ run'[j].facts = NoFacts
          <5>1. run'[j] = [u EXCEPT !.pc = "callerErr", !.permit = FALSE]
            BY <4>2 DEF TypeInv, TypeOK
          <5>2. QED  BY <1>a, <1>c, <2>3, <5>1 DEF Run
        <4>3. ASSUME run' = [run EXCEPT ![j] = At("done")]
              PROVE  run'[j].pc = "done" /\ run'[j].facts = NoFacts
          <5>1. run'[j] = At("done")  BY <4>3, JobValues
          <5>2. QED  BY <5>1 DEF At
        <4>4. QED  BY <1>7, <2>3, <4>1, <4>2, <4>3 DEF RepositoryFails
      <3> HIDE DEF r, w, u, v
      <3>2. HonestInv(r, w, x, v)  BY <1>a, <3>1, LeavingKeeps
      <3>3. QED  BY <2>1, <3>1, <3>2 DEF HonestNext, r, w, v
    <2>4. QED  BY <2>2, <2>3
  <1>8. QED  BY <1>1, <1>2, <1>3, <1>4, <1>5, <1>6, <1>7

LEMMA JobsInit == Init => JobsInv
  <1> SUFFICES ASSUME Init, NEW j \in Job PROVE HonestInv(row[j], world[j], run[j], verifier[j])
    BY DEF JobsInv
  <1>1. row[j] = NoRow /\ world[j] = 0 /\ run[j] = At("idle") /\ verifier[j] = NoVerifier
    BY DEF Init
  <1>2. RowInv(NoRow, 0)  BY DEF RowInv, NoRow, Terminal
  <1>3. PlaceInv(NoRow, 0, At("idle"))
    BY DEF PlaceInv, NoRow, At, NoFlags, PostClaim, StageOpen, Closing
  <1>4. DispatchInv(NoRow, 0, At("idle"))  BY DEF DispatchInv, NoRow
  <1>5. VerifierInv(NoRow, 0, NoVerifier)  BY DEF VerifierInv, NoVerifier
  <1>6. QED  BY <1>1, <1>2, <1>3, <1>4, <1>5 DEF HonestInv

LEMMA HonestCrash ==
    ASSUME TypeInv, JobsInv, Crash, NEW j \in Job
    PROVE  HonestNext(j)
  <1> DEFINE r == row[j]
             w == world[j]
             u == run[j]
             v == verifier[j]
             z == world'[j]
  <1>a. /\ r \in Row /\ w \in Nat /\ HonestInv(r, w, u, v) /\ v.confirmed \in Nat
    BY JobValues DEF JobsInv
  <1>b. UNCHANGED row /\ verifier'[j] = NoVerifier  BY DEF Crash
  <1>c. run'[j] = IF u.pc = "idle" THEN u ELSE At("done")  BY DEF Crash
  <1>d. z = w \/ (u.facts.open /\ z = w + 1)  BY DEF Crash
  <1>e. At("done").pc = "done" /\ At("done").facts = NoFacts  BY DEF At
  <1> DEFINE x == [At("broken") EXCEPT !.all = r.bounds]
  <1>f. x.pc = "broken" /\ x.facts = NoFacts /\ x.all = r.bounds  BY DEF At
  <1> HIDE DEF r, w, u, v, z, x
  <1>1. \A y : VerifierInv(r, y, NoVerifier)  BY DEF VerifierInv, NoVerifier
  <1>2. CASE u.pc = "stage"
    <2>1. DispatchInv(r, z, x)  BY <1>f DEF DispatchInv, StageOpen, Closing
    <2>2. z \in Nat /\ z \in {w, w + 1}  BY <1>a, <1>d
    <2>3. HonestInv(r, z, x, v)  BY <1>a, <1>f, <1>2, <2>1, <2>2, StageKeeps
    <2>4. HonestInv(r, z, At("done"), v)  BY <1>a, <1>e, <2>2, <2>3, LeavingKeeps
    <2>5. run'[j] = At("done")  BY <1>c, <1>2
    <2>6. QED  BY <1>b, <1>1, <2>4, <2>5 DEF HonestNext, HonestInv, r, z
  <1>3. CASE u.pc # "stage"
    <2>1. z = w  BY <1>a, <1>d, <1>3 DEF HonestInv, PlaceInv, NoFacts
    <2>2. HonestInv(r, w, run'[j], v)  BY <1>a, <1>c, <1>e, LeavingKeeps
    <2>3. QED  BY <1>b, <1>1, <2>1, <2>2 DEF HonestNext, HonestInv, r, z, w
  <1>4. QED  BY <1>2, <1>3

LEMMA JobsStep == TypeInv /\ JobsInv /\ HonestHandlers /\ [Next]_vars => JobsInv'
  <1> SUFFICES ASSUME TypeInv, JobsInv, HonestHandlers, [Next]_vars, NEW k \in Job
               PROVE  HonestNext(k)
    BY DEF JobsInv, HonestNext
  <1>1. CASE \E j \in Job : JobStep(j)
    <2>1. PICK j \in Job : JobStep(j)  BY <1>1
    <2>2. CASE k = j
      <3>1. HonestNext(j)
        BY <2>1, HonestBeforeClaim, HonestClaim, HonestStage, HonestClosing, HonestCaller,
           HonestHandlerStep, HonestHost DEF JobStep, RunStep
      <3>2. QED  BY <2>2, <3>1
    <2>3. CASE k # j
      BY <2>1, <2>3, OneJob DEF JobsInv, HonestNext
    <2>4. QED  BY <2>2, <2>3
  <1>2. CASE UNCHANGED <<row, world, run, verifier>>
    BY <1>2 DEF JobsInv, HonestNext
  <1>3. CASE Crash  BY <1>3, HonestCrash
  <1>4. QED
    BY <1>1, <1>2, <1>3 DEF Next, JobStep, Start, HeadlessStarts, ScanEnds, ScanFails, vars

LEMMA JobsInvHolds == ASSUME HonestHandlers PROVE Spec => [](TypeInv /\ JobsInv)
  <1>1. TypeInv /\ JobsInv /\ [Next]_vars => JobsInv'  BY JobsStep
  <1>2. QED  BY <1>1, TypeInit, TypeStep, JobsInit, PTL DEF Spec

LEMMA JobsInvRows ==
    ASSUME JobsInv, NEW j \in Job
    PROVE  RowInv(row[j], world[j])
  BY DEF JobsInv, HonestInv

\* The outcome of a finished job is so in its target, if its handlers keep their
\* promise: for any number of jobs, stages and batches, of crashes at any point, of
\* failing calls of the repository, with a second process marking rows, and with
\* leases that lapse in the middle of a stage.
THEOREM FinishedJobsTellTheTruth ==
    ASSUME HonestHandlers PROVE Spec => []OutcomeCoversWorld
  <1>1. JobsInv => OutcomeCoversWorld
    BY JobsInvRows DEF RowInv, OutcomeCoversWorld, Settled
  <1>2. QED  BY <1>1, JobsInvHolds, PTL

\* With honest handlers no boundary is recorded of a batch that is not there, by the
\* dispatch or by a verifier, and a job that succeeded has one for each batch.
THEOREM BoundariesTellTheTruth ==
    ASSUME HonestHandlers PROVE Spec => []BoundariesAreReal
  <1>1. JobsInv => BoundariesAreReal
    BY JobsInvRows DEF RowInv, BoundariesAreReal
  <1>2. QED  BY <1>1, JobsInvHolds, PTL

\* With honest handlers a finished job that wrote more than its boundaries tell is of
\* unknown effect and waits to be verified, or has been.
THEOREM UnrecordedWorkIsNeverHidden ==
    ASSUME HonestHandlers PROVE Spec => []UnrecordedWorkIsFlagged
  <1>1. JobsInv => UnrecordedWorkIsFlagged
    BY JobsInvRows DEF RowInv, Flagged, UnrecordedWorkIsFlagged, Settled
  <1>2. QED  BY <1>1, JobsInvHolds, PTL

\* With honest handlers "not executed", which lets a job be run again, is never the
\* verdict on one that wrote to its target.
THEOREM NotExecutedMeansUntouched ==
    ASSUME HonestHandlers PROVE Spec => []NotExecutedIsTrue
  <1>1. JobsInv => NotExecutedIsTrue
    BY JobsInvRows DEF RowInv, NotExecutedIsTrue
  <1>2. QED  BY <1>1, JobsInvHolds, PTL

--------------------------------------------------------------------------------
(* One process: nobody writes behind a finished job.                            *)

\* A place the dispatch of a job is in, a stage that writes among them, is a running
\* job; a scan of the only process runs while nothing else does.
SoloInv ==
    /\ scan.todo # {} => scan.by # "none"
    /\ scan.by # "other"
    /\ scan.by = "main" => ~alive
    /\ ~alive => \A j \in Job : run[j].pc \in {"idle", "done"}
    /\ \A j \in Job : /\ run[j].pc \in PostClaim => row[j].state = "running"
                      /\ run[j].pc # "stage" => run[j].facts = NoFacts

LEMMA SoloInit == Init => SoloInv
  BY DEF Init, SoloInv, NoScan, At, PostClaim, StageOpen, Closing

\* A run enters its dispatch by a claim, and in it only Finish ends the running row.
LEMMA SoloJob ==
    ASSUME TypeInv, SoloInv, NEW j \in Job, JobStep(j)
    PROVE  /\ run'[j].pc \in PostClaim => row'[j].state = "running"
           /\ run'[j].pc # "stage" => run'[j].facts = NoFacts
           /\ world'[j] # world[j] => row[j].state = "running"
  <1> DEFINE r == row[j]
             u == run[j]
             Goal == /\ run'[j].pc \in PostClaim => row'[j].state = "running"
                     /\ run'[j].pc # "stage" => run'[j].facts = NoFacts
                     /\ world'[j] # world[j] => row[j].state = "running"
  <1>z. SUFFICES Goal  OBVIOUS
  <1>a. r \in Row /\ u \in Run  BY JobValues
  <1>b. /\ u.pc \in PostClaim => r.state = "running"
        /\ u.pc # "stage" => u.facts = NoFacts
    BY DEF SoloInv
  <1>c. \A p : /\ Goto(j, p) => run'[j].pc = p /\ run'[j].facts = u.facts
               /\ At(p).pc = p /\ At(p).facts = NoFacts
    <2>1. ASSUME NEW p, Goto(j, p) PROVE run'[j].pc = p /\ run'[j].facts = u.facts
      <3>1. run'[j] = [u EXCEPT !.pc = p]  BY <2>1 DEF Goto, TypeInv, TypeOK
      <3>2. QED  BY <1>a, <3>1 DEF Run
    <2>2. QED  BY <2>1 DEF At
  <1>d. /\ \A x : row' = [row EXCEPT ![j] = x] => row'[j] = x
        /\ \A x : run' = [run EXCEPT ![j] = x] => run'[j] = x
    BY JobValues
  <1>e. PostClaim = {"boundary", "start", "stage", "checkpoint", "settle", "finish", "record",
                     "broken"}
    BY DEF PostClaim, StageOpen, Closing
  \* Steps that leave the dispatch, or keep out of it.
  <1>f. ASSUME run'[j].pc \notin PostClaim, u.pc # "stage",
               run'[j].facts \in {u.facts, NoFacts}, UNCHANGED world
        PROVE  Goal
    BY <1>b, <1>e, <1>f
  \* Steps within the dispatch.
  <1>g. ASSUME u.pc \in PostClaim, UNCHANGED world, row'[j].state = r.state,
               run'[j].pc # "stage" => run'[j].facts = NoFacts
        PROVE  Goal
    BY <1>b, <1>g
  <1>h. ASSUME NEW s, NEW x, Fenced(j, s, x), u.pc \in PostClaim \ {"stage"}, UNCHANGED world,
               s.state = r.state, x.facts \in {u.facts, NoFacts}
        PROVE  Goal
    <2>1. CASE ClaimHolds(r)
      <3>1. row'[j] = s /\ run'[j] = x  BY <1>h, <1>d, <2>1 DEF Fenced
      <3>2. QED  BY <1>b, <1>g, <1>h, <3>1
    <2>2. CASE ~ClaimHolds(r)
      <3>1. Goto(j, "fail")  BY <1>h, <2>2 DEF Fenced
      <3>2. run'[j].pc \notin PostClaim /\ run'[j].facts = u.facts  BY <1>c, <1>e, <3>1
      <3>3. QED  BY <1>f, <1>h, <3>2
    <2>3. QED  BY <2>1, <2>2
  <1>1. CASE Accept(j) \/ RunBegins(j) \/ Reject(j) \/ Recheck(j) \/ Confirm(j)
    <2>1. /\ u.pc # "stage" /\ UNCHANGED world
          /\ \E p \in {"queued", "recheck", "reject", "callerErr", "confirm", "reserve", "drive"} :
                Goto(j, p)
      BY <1>1 DEF Accept, RunBegins, Reject, Recheck, Confirm, Is
    <2>2. run'[j].pc \notin PostClaim /\ run'[j].facts = u.facts  BY <1>c, <1>e, <2>1
    <2> HIDE DEF Goal, u
    <2>3. QED  BY <1>f, <2>1, <2>2
  <1>2. CASE Reserve(j)
    <2>1. u.pc # "stage" /\ UNCHANGED world  BY <1>2 DEF Reserve, Is
    <2>2. run'[j].pc \in {"claim", "reject"} /\ run'[j].facts = u.facts
      <3>1. CASE Goto(j, "reject")  BY <1>c, <3>1
      <3>2. CASE run' = [run EXCEPT ![j].pc = "claim", ![j].permit = TRUE]
        <4>1. run'[j] = [u EXCEPT !.pc = "claim", !.permit = TRUE]
          BY <3>2 DEF TypeInv, TypeOK
        <4>2. QED  BY <1>a, <4>1 DEF Run
      <3>3. QED  BY <1>2, <3>1, <3>2 DEF Reserve
    <2> HIDE DEF Goal, u
    <2>3. QED  BY <1>e, <1>f, <2>1, <2>2
  <1>3. CASE Claim(j)
    <2>1. u.pc = "claim" /\ UNCHANGED world  BY <1>3 DEF Claim, Is
    <2>2. CASE CanClaim(r)
      <3>1. row'[j] = Claimed(r) /\ Goto(j, "boundary")  BY <1>3, <1>d, <2>2 DEF Claim
      <3>2. Claimed(r).state = "running"  BY <1>a DEF Claimed, Row
      <3>3. QED  BY <1>b, <1>c, <2>1, <3>1, <3>2
    <2>3. CASE ~CanClaim(r)
      <3>1. Goto(j, "fail")  BY <1>3, <2>3 DEF Claim
      <3>2. QED  BY <1>c, <1>e, <1>f, <2>1, <3>1
    <2>4. QED  BY <2>2, <2>3
  <1>4. CASE StageBoundary(j)
    <2>1. u.pc = "boundary" /\ UNCHANGED <<row, world>>  BY <1>4 DEF StageBoundary, Is
    <2>2. run'[j].facts = u.facts /\ run'[j].pc # "stage"
      <3>1. CASE Goto(j, "start")  BY <1>c, <3>1
      <3>2. CASE ~Goto(j, "start")
        <4>1. run'[j] = [u EXCEPT !.pc = "checkpoint", !.token = TRUE, !.cancelled = TRUE]
          BY <1>4, <3>2 DEF StageBoundary, TypeInv, TypeOK
        <4>2. QED  BY <1>a, <4>1 DEF Run
      <3>3. QED  BY <3>1, <3>2
    <2>3. QED  BY <1>b, <1>e, <1>g, <2>1, <2>2
  <1>5. CASE StageStarts(j)
    <2> DEFINE x == [u EXCEPT !.pc = "stage", !.facts = NoFacts, !.watching = TRUE]
    <2>1. u.pc = "start" /\ UNCHANGED world /\ Fenced(j, r, x)  BY <1>5 DEF StageStarts, Is
    <2>2. x.facts = NoFacts  BY <1>a DEF Run
    <2> HIDE DEF x, Goal
    <2>3. QED  BY <1>e, <1>h, <2>1, <2>2
  <1>6. CASE RecordBoundary(j)
    <2> DEFINE x == [u EXCEPT !.left = @ - 1, !.all = @ + 1]
               s == BoundaryRecorded(r)
    <2>1. u.pc = "record" /\ UNCHANGED world /\ Fenced(j, s, x)  BY <1>6 DEF RecordBoundary, Is
    <2>2. x.facts = u.facts /\ s.state = r.state  BY <1>a DEF Run, BoundaryRecorded, Row
    <2> HIDE DEF x, s, Goal
    <2>3. QED  BY <1>e, <1>h, <2>1, <2>2
  <1>7. CASE CloseStage(j)
    <2> DEFINE x == IF u.report.terminal = "succeeded" /\ u.stage < Stages
                      THEN [u EXCEPT !.pc = "boundary", !.stage = @ + 1, !.report = NoReport]
                      ELSE [u EXCEPT !.pc = "checkpoint", !.report = NoReport]
    <2>1. u.pc = "record" /\ UNCHANGED world /\ Fenced(j, r, x)  BY <1>7 DEF CloseStage, Is
    <2>2. x.facts = u.facts  BY <1>a DEF Run
    <2> HIDE DEF x, Goal
    <2>3. QED  BY <1>e, <1>h, <2>1, <2>2
  <1>8. CASE CloseBroken(j)
    <2> DEFINE x == [u EXCEPT !.pc = "checkpoint", !.failed = TRUE, !.unknown = TRUE,
                              !.effect = "unknown"]
    <2>1. u.pc = "broken" /\ UNCHANGED world /\ Fenced(j, r, x)  BY <1>8 DEF CloseBroken, Is
    <2>2. x.facts = u.facts  BY <1>a DEF Run
    <2> HIDE DEF x, Goal
    <2>3. QED  BY <1>e, <1>h, <2>1, <2>2
  <1>9. CASE SaveCheckpoint(j)
    <2> DEFINE x == [u EXCEPT !.pc = "settle"]
               s == CheckpointSaved(r)
    <2>1. /\ u.pc = "checkpoint" /\ UNCHANGED world
          /\ Fenced(j, s, x) \/ (Goto(j, "settle") /\ UNCHANGED row)
      BY <1>9 DEF SaveCheckpoint, Is
    <2>2. x.facts = u.facts /\ s.state = r.state  BY <1>a DEF Run, CheckpointSaved, Row
    <2> HIDE DEF x, s
    <2>3. CASE Fenced(j, s, x)
      <3> HIDE DEF Goal
      <3>1. QED  BY <1>e, <1>h, <2>1, <2>2, <2>3
    <2>4. CASE Goto(j, "settle") /\ UNCHANGED row
      BY <1>b, <1>c, <1>e, <1>g, <2>1, <2>4
    <2>5. QED  BY <2>1, <2>3, <2>4
  <1>10. CASE ReadVersion(j)
    <2>1. u.pc = "settle" /\ UNCHANGED <<row, world>>  BY <1>10 DEF ReadVersion, Is
    <2>2. run'[j] = [u EXCEPT !.pc = "finish", !.version = r.version]
      BY <1>10 DEF ReadVersion, TypeInv, TypeOK
    <2>3. run'[j].facts = u.facts  BY <1>a, <2>2 DEF Run
    <2>4. QED  BY <1>b, <1>e, <1>g, <2>1, <2>3
  <1>11. CASE Finish(j)
    <2>1. u.pc = "finish" /\ UNCHANGED world  BY <1>11 DEF Finish, Is
    <2>2. run'[j].pc \in {"drive", "fail"} /\ run'[j].facts = u.facts
      <3>1. CASE CanFinish(r, u.version)
        <4>1. run'[j] = [u EXCEPT !.pc = "drive", !.permit = FALSE, !.effect = FinalEffect(u)]
          BY <1>11, <3>1 DEF Finish, TypeInv, TypeOK
        <4>2. QED  BY <1>a, <4>1 DEF Run
      <3>2. CASE ~CanFinish(r, u.version)
        <4>1. Goto(j, "fail")  BY <1>11, <3>2 DEF Finish
        <4>2. QED  BY <1>c, <4>1
      <3>3. QED  BY <3>1, <3>2
    <2> HIDE DEF Goal, u
    <2>3. QED  BY <1>e, <1>f, <2>1, <2>2
  <1>12. CASE DispatchFails(j)
    <2>1. u.pc = "fail" /\ UNCHANGED world  BY <1>12 DEF DispatchFails, Is
    <2>2. run'[j] = [u EXCEPT !.pc = "callerErr", !.permit = FALSE]
      BY <1>12 DEF DispatchFails, TypeInv, TypeOK
    <2>3. run'[j].pc = "callerErr" /\ run'[j].facts = u.facts  BY <1>a, <2>2 DEF Run
    <2> HIDE DEF Goal, u
    <2>4. QED  BY <1>e, <1>f, <2>1, <2>3
  <1>13. CASE Drive(j)
    <2>1. u.pc = "drive" /\ UNCHANGED world  BY <1>13 DEF Drive, Is
    <2>2. PICK c : run' = [run EXCEPT ![j].pc = "persist", ![j].verdict = c]
      BY <1>13 DEF Drive
    <2>3. run'[j] = [u EXCEPT !.pc = "persist", !.verdict = c]  BY <2>2 DEF TypeInv, TypeOK
    <2>4. run'[j].pc = "persist" /\ run'[j].facts = u.facts  BY <1>a, <2>3 DEF Run
    <2> HIDE DEF Goal, u
    <2>5. QED  BY <1>e, <1>f, <2>1, <2>4
  <1>14. CASE Persist(j) \/ CallerReads(j) \/ CallerMarks(j)
    <2>1. u.pc # "stage" /\ UNCHANGED world
      BY <1>14 DEF Persist, CallerReads, CallerMarks, Is
    <2> DEFINE After == {At("done"), At("abandon"), At("flag"),
                         [At("drive") EXCEPT !.effect = r.effect],
                         [At("persist") EXCEPT !.verdict = "pendingVerification"]}
    <2>2. ASSUME NEW x \in After
          PROVE  x.pc \in {"done", "abandon", "flag", "drive", "persist"} /\ x.facts = NoFacts
      BY DEF At
    <2>3. run'[j] \in After
      <3>1. CASE Persist(j)  BY <3>1, <1>d DEF Persist
      <3>2. CASE CallerReads(j)  BY <3>2, <1>d DEF CallerReads
      <3>3. CASE CallerMarks(j)  BY <3>3, <1>d DEF CallerMarks
      <3>4. QED  BY <1>14, <3>1, <3>2, <3>3
    <2> HIDE DEF After, Goal, u
    <2>4. run'[j].pc \notin PostClaim /\ run'[j].facts = NoFacts
      BY <1>e, <2>2, <2>3
    <2>5. QED  BY <1>f, <2>1, <2>4
  <1>15. CASE HandlerStep(j) \/ WatcherPolls(j)
    <2>1. u.pc = "stage" /\ UNCHANGED row
      BY <1>15 DEF HandlerStep, StageEnds, WatcherPolls, BatchBegins, BatchCommits, BatchRollsBack,
                   BatchIsLost, NextTable, StageReturns, StageBreaks, Is
    <2>2. r.state = "running"  BY <1>b, <1>e, <2>1
    <2>3. run'[j].pc # "stage" => run'[j].facts = NoFacts
      <3>1. CASE StageReturns(j)
        <4>1. PICK p : run' = [run EXCEPT ![j] = Reported(u, p)]  BY <3>1 DEF StageReturns
        <4>2. run'[j] = Reported(u, p)  BY <1>d, <4>1
        <4>3. QED  BY <1>a, <4>2 DEF Reported, Run
      <3>2. CASE StageBreaks(j)
        <4>1. run'[j] = [u EXCEPT !.pc = "broken", !.watching = FALSE, !.facts = NoFacts]
          BY <3>2 DEF StageBreaks, TypeInv, TypeOK
        <4>2. QED  BY <1>a, <4>1 DEF Run
      <3>3. CASE ~StageReturns(j) /\ ~StageBreaks(j)
        <4>1. run'[j].pc = "stage"
          BY <1>15, <1>a, <2>1, <3>3
          DEF HandlerStep, StageEnds, WatcherPolls, BatchBegins, BatchCommits, BatchRollsBack,
              BatchIsLost, NextTable, TypeInv, TypeOK, Run
        <4>2. QED  BY <4>1
      <3>4. QED  BY <3>1, <3>2, <3>3
    <2>4. QED  BY <2>1, <2>2, <2>3
  <1>16. CASE CancelBegins(j) \/ CancelConfirms(j) \/ VerifyBegins(j) \/ VerifyLooks(j)
              \/ VerifyPersists(j) \/ ScanMarks(j) \/ LeaseLapses(j)
    <2>1. UNCHANGED <<world, run>>
      BY <1>16 DEF CancelBegins, CancelConfirms, VerifyBegins, VerifyLooks, VerifyPersists, ScanMarks,
                   LeaseLapses, host
    <2>2. u.pc \in PostClaim => row'[j].state = "running"
      <3>1. CASE ScanMarks(j)
        <4>1. u.pc \in {"idle", "done"}
          BY <3>1 DEF ScanMarks, SoloInv, TypeInv, TypeOK
        <4>2. QED  BY <1>e, <4>1
      <3>2. CASE ~ScanMarks(j)
        <4>1. \/ row'[j] = r \/ row'[j] = CancelRequested(r)
              \/ row'[j] = [r EXCEPT !.lease = "lapsed"]
              \/ r.state = "queued"
              \/ \E x, n : row'[j] = VerificationPersisted(r, x, n)
          <5>1. CASE CancelBegins(j) \/ CancelConfirms(j)
            BY <1>d, <5>1 DEF CancelBegins, CancelConfirms, CanConfirmCancelled, Unclaimed
          <5>2. CASE VerifyBegins(j) \/ VerifyLooks(j)
            BY <5>2 DEF VerifyBegins, VerifyLooks
          <5>3. CASE VerifyPersists(j)
            BY <1>d, <5>3 DEF VerifyPersists
          <5>4. CASE LeaseLapses(j)
            <6>1. row' = [row EXCEPT ![j] = [r EXCEPT !.lease = "lapsed"]]
              BY <5>4 DEF LeaseLapses
            <6>2. QED  BY <1>d, <6>1
          <5>5. QED  BY <1>16, <3>2, <5>1, <5>2, <5>3, <5>4
        <4>2. row'[j].state = r.state \/ r.state = "queued"
          BY <1>a, <4>1 DEF CancelRequested, VerificationPersisted, Row
        <4>3. QED  BY <1>b, <4>2
      <3>3. QED  BY <3>1, <3>2
    <2>3. QED  BY <1>b, <2>1, <2>2
  <1>17. CASE RepositoryFails(j)
    <2>1. UNCHANGED <<row, world>>  BY <1>17 DEF RepositoryFails
    <2>2. CASE u.pc = "stage"
      <3>1. run' = [run EXCEPT ![j].watching = FALSE]
        BY <1>17, <2>2 DEF RepositoryFails, BeforeClaim, InDispatch, InCaller
      <3>2. run'[j] = [u EXCEPT !.watching = FALSE]  BY <3>1 DEF TypeInv, TypeOK
      <3>3. run'[j].pc = "stage"  BY <1>a, <2>2, <3>2 DEF Run
      <3>4. QED  BY <1>b, <1>e, <2>1, <2>2, <3>3
    <2>3. CASE u.pc # "stage"
      <3>1. run'[j].pc \in {"callerErr", "fail", "done"} /\ run'[j].facts \in {u.facts, NoFacts}
        <4>1. ASSUME run' = [run EXCEPT ![j].pc = "callerErr", ![j].permit = FALSE]
              PROVE  run'[j].pc = "callerErr" /\ run'[j].facts = u.facts
          <5>1. run'[j] = [u EXCEPT !.pc = "callerErr", !.permit = FALSE]
            BY <4>1 DEF TypeInv, TypeOK
          <5>2. QED  BY <1>a, <5>1 DEF Run
        <4>2. QED  BY <1>17, <1>c, <1>d, <2>3, <4>1 DEF RepositoryFails
      <3> HIDE DEF Goal, u
      <3>2. QED  BY <1>e, <1>f, <2>1, <2>3, <3>1
    <2>4. QED  BY <2>2, <2>3
  <1> HIDE DEF Goal
  <1>18. QED
    BY <1>1, <1>2, <1>3, <1>4, <1>5, <1>6, <1>7, <1>8, <1>9, <1>10, <1>11, <1>12, <1>13, <1>14,
       <1>15, <1>16, <1>17 DEF JobStep, RunStep

\* A step of the process: of one job, or of a process that starts, ends its scan or dies.
LEMMA SoloStep ==
    ASSUME TypeInv, SoloInv, Headless = FALSE, Next
    PROVE  SoloInv' /\ \A j \in Job : world'[j] # world[j] => row[j].state = "running"
  <1> DEFINE Rows == \A j \in Job : /\ run[j].pc \in PostClaim => row[j].state = "running"
                                    /\ run[j].pc # "stage" => run[j].facts = NoFacts
             Idle == ~alive => \A j \in Job : run[j].pc \in {"idle", "done"}
             Goal == \A j \in Job : world'[j] # world[j] => row[j].state = "running"
  <1>1. ASSUME NEW j \in Job, JobStep(j) PROVE SoloInv' /\ Goal
    <2>1. /\ run'[j].pc \in PostClaim => row'[j].state = "running"
          /\ run'[j].pc # "stage" => run'[j].facts = NoFacts
          /\ world'[j] # world[j] => row[j].state = "running"
      BY <1>1, SoloJob
    <2>2. \A k \in Job \ {j} : row'[k] = row[k] /\ run'[k] = run[k] /\ world'[k] = world[k]
      BY <1>1, OneJob
    <2>3. Rows' /\ Goal  BY <2>1, <2>2, SMTT(60) DEF SoloInv
    <2>4. alive' = alive
      BY <1>1
      DEF JobStep, RunStep, HandlerStep, StageEnds, Accept, RunBegins, Reject, Recheck, Confirm, Reserve,
          Claim, StageBoundary, StageStarts, RecordBoundary, CloseStage, CloseBroken, SaveCheckpoint,
          ReadVersion, Finish, DispatchFails, Drive, Persist, CallerReads, CallerMarks, BatchBegins,
          BatchCommits, BatchRollsBack, BatchIsLost, NextTable, StageReturns, StageBreaks, WatcherPolls,
          CancelBegins, CancelConfirms, VerifyBegins, VerifyLooks, VerifyPersists, ScanMarks, LeaseLapses,
          RepositoryFails, host
    <2>5. /\ scan'.todo # {} => scan'.by # "none"
          /\ scan'.by # "other"
          /\ scan'.by = "main" => ~alive'
      <3>1. CASE ScanMarks(j)
        <4>1. \/ scan' = NoScan
              \/ scan' = [scan EXCEPT !.seen[j] = "marked"]
              \/ scan' = [scan EXCEPT !.todo = @ \ {j}]
          BY <3>1 DEF ScanMarks
        <4>2. scan.todo # {}  BY <3>1 DEF ScanMarks
        <4>3. scan' = NoScan \/ scan'.by = scan.by
          BY <4>1 DEF TypeInv, TypeOK
        <4>4. QED  BY <2>4, <4>2, <4>3 DEF SoloInv, NoScan
      <3>2. CASE ~ScanMarks(j)
        <4>1. scan' = scan
          BY <1>1, <3>2
          DEF JobStep, RunStep, HandlerStep, StageEnds, Accept, RunBegins, Reject, Recheck, Confirm,
              Reserve, Claim, StageBoundary, StageStarts, RecordBoundary, CloseStage, CloseBroken,
              SaveCheckpoint, ReadVersion, Finish, DispatchFails, Drive, Persist, CallerReads,
              CallerMarks, BatchBegins, BatchCommits, BatchRollsBack, BatchIsLost, NextTable,
              StageReturns, StageBreaks, WatcherPolls, CancelBegins, CancelConfirms, VerifyBegins,
              VerifyLooks, VerifyPersists, LeaseLapses, RepositoryFails, host
        <4>2. QED  BY <2>4, <4>1, SMTT(60) DEF SoloInv
      <3>3. QED  BY <3>1, <3>2
    <2>6. Idle'
      <3>1. ASSUME ~alive PROVE run' = run
        BY <1>1, <3>1
        DEF JobStep, RunStep, HandlerStep, StageEnds, Accept, RunBegins, Reject, Recheck, Confirm, Reserve,
            Claim, StageBoundary, StageStarts, RecordBoundary, CloseStage, CloseBroken, SaveCheckpoint,
            ReadVersion, Finish, DispatchFails, Drive, Persist, CallerReads, CallerMarks, BatchBegins,
            BatchCommits, BatchRollsBack, BatchIsLost, NextTable, StageReturns, StageBreaks,
            WatcherPolls, CancelBegins, CancelConfirms, VerifyBegins, VerifyLooks, VerifyPersists,
            ScanMarks, LeaseLapses, RepositoryFails, Is
      <3>2. QED  BY <2>4, <3>1, SMTT(60) DEF SoloInv
    <2>7. QED  BY <2>3, <2>5, <2>6 DEF SoloInv
  <1>2. CASE Start
    <2>1. ~alive /\ scan'.by = "main" /\ UNCHANGED <<row, world, run, alive>>
      BY <1>2 DEF Start, Listed
    <2>2. QED  BY <2>1 DEF SoloInv
  <1>3. CASE ScanEnds \/ ScanFails
    <2>1. scan'.by = "none" /\ scan'.todo = {} /\ UNCHANGED <<row, world, run>>
      BY <1>3 DEF ScanEnds, ScanFails, NoScan
    <2>2. ~alive' => ~alive  BY <1>3 DEF ScanEnds, ScanFails, TypeInv, TypeOK
    <2>3. QED  BY <2>1, <2>2 DEF SoloInv
  <1>4. CASE Crash
    <2>1. alive /\ ~alive' /\ scan' = scan /\ row' = row  BY <1>4 DEF Crash
    <2>2. ASSUME NEW j \in Job
          PROVE  /\ run'[j].pc \in {"idle", "done"} /\ run'[j].facts = NoFacts
                 /\ world'[j] # world[j] => row[j].state = "running"
      <3>1. run'[j] = IF run[j].pc = "idle" THEN run[j] ELSE At("done")  BY <1>4 DEF Crash
      <3>2. run'[j].pc \in {"idle", "done"} /\ run'[j].facts = NoFacts
        BY <3>1 DEF At, SoloInv
      <3>3. world'[j] # world[j] => run[j].facts.open
        BY <1>4 DEF Crash
      <3>4. run[j].facts.open => run[j].pc = "stage"  BY DEF SoloInv, NoFacts
      <3>5. QED  BY <3>2, <3>3, <3>4 DEF SoloInv, PostClaim, StageOpen, Closing
    <2>3. Rows' /\ Idle' /\ Goal  BY <2>2 DEF PostClaim, StageOpen, Closing
    <2>4. QED  BY <2>1, <2>3 DEF SoloInv
  <1>5. QED
    BY <1>1, <1>2, <1>3, <1>4 DEF Next, JobStep, HeadlessStarts

\* With one process on the data directory, the target of a job changes only while the
\* repository says that the job runs: finished is finished.
THEOREM OnlyRunningJobsWrite ==
    ASSUME Headless = FALSE PROVE Spec => SettledWorldStands
  <1>1. TypeInv /\ SoloInv /\ [Next]_vars => SoloInv'
    <2>1. CASE UNCHANGED vars
      BY <2>1 DEF vars, SoloInv
    <2>2. QED  BY <2>1, SoloStep
  <1>2. TypeInv /\ SoloInv /\ [Next]_vars =>
           [\A j \in Job : world'[j] # world[j] => row[j].state = "running"]_vars
    BY SoloStep
  <1>3. Spec => []TypeInv
    BY TypeInit, TypeStep, PTL DEF Spec
  <1>4. QED
    BY <1>1, <1>2, <1>3, SoloInit, PTL DEF Spec, SettledWorldStands
================================================================================
