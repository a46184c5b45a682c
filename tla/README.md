# Datazen execution core and jobs: TLA+ models, checks and proofs

Datazen is a database workspace (a Tauri desktop application and a server) around
one Rust core crate.  Everything a user runs against a database goes through the
*execution core*, `src/crates/datazen/src/execution`: it admits a request against a
budget of connections, finds or opens a physical connection, runs the command on it,
and gets rid of the connection again, without ever sharing it between two users,
losing it, or pretending it is gone.  Above it the *job engine*,
`src/crates/datazen/src/jobs`, runs what lasts longer than a request (data transfers,
comparisons, script runs) as durable jobs: what such a job says of the database it
wrote to has to be true after any crash.  This directory holds the models of both.

The chapters to read beside them are
`src/docs/architecture/platform/connection-management.md` and
`data-migration-jobs.md` in the same directory.  The invariants the first numbers
INV-01 to INV-12 (section 3), its budget rules (9.2 and 9.5), its acceptance cases
(CM-25 to CM-31), and what both say of effects, boundaries and recovery are the
requirements most of the properties here make precise.  The models themselves are
translated from the Rust source; `PROJECT.json` names the lines of every definition.

Contents: 1 the system, 2 the modules, 3 the properties, 4 the runs and their bounds,
5 fairness, 6 the proofs, 7 observations, 8 what is not modelled, 9 the plan.

To run: `tlc -config MCBudgetLedger.cfg MCBudgetLedger.tla`, and likewise for the
other configurations; `tlapm ProductionLeases_proofs.tla` and likewise for the other
proof modules.  Names of configurations are `<module>.cfg` or `<module>_<what>.cfg`.

## 1. The system

Paths are relative to `src/crates/datazen/src/execution/` unless they start with
`src/`.

### 1.1 Components, their state and their operations

| Component | Source | State | Operations | Model |
|---|---|---|---|---|
| Production lease ledger | `runtime/resource/production.rs`, `pool.rs`, `transition.rs` | one row per physical lease (state, pool key, purpose, idle since, verify after), one policy per pool key | `opened`, `executing`, `returning`, `closed`, `claim_idle`, `idle_to_retire`, `quarantine_to_verify` | `ProductionLeases` |
| Desktop session backend | `src/crates/datazen-desktop/src/platform/session_backend*` | the tables `resources` and `by_session`, logical permits, the tasks at work on a connection | open, reuse, execute, park, close, retire, verify | `DesktopSessions`, `LeaseCustody` |
| Budget ledger | `runtime/budget/{ledger,dispatch,queues,classes,records}.rs` | permits, reserved and shared slots per class, a queue per class, the credit of the weighted rotation, drains | `try_admit`, `try_admit_many`, `enqueue`, `cancel`, `expire`, `pump`, `release`, `drain` | `BudgetLedger`, `RoundRobin` |
| Budget coordinator | `runtime/budget/coordinator.rs` | the calls in flight: a guard each, one `Notify`, one mutex around the ledger | `acquire`, `try_acquire`, `acquire_cost_now`, `reserve_many`, `release_permit`, `drain` | `BudgetCoordinator` |
| Session quotas | `runtime/budget/sessions.rs`, `LogicalSessionPermit` of `runtime/resource/production.rs` | sessions by ticket, counts of users, organizations, services and editors | `open_session`, `connect_editor`, `attach_physical`, `transition`, `close_session` | `BudgetSessions` |
| Desktop resource budget | `src/crates/datazen-desktop/src/platform/resource_budget.rs` | permits by scope and connection | acquire, release, quarantine | planned |
| Resource manager | `runtime/resource/{manager,rotation,cleanup,table,generation}.rs` | leases by id, idle buckets by pool key, generations, retiring connections | `acquire`, `begin_execution`, `end_execution`, `release`, `retire`, `force_close`, `rotate`, `disable`, `drain_queue` | planned |
| Physical lease manager | `runtime/resource/lease_manager.rs` | permits by lease, outstanding handles, tunnel wiring | `acquire`, `release`, `retire`, `rotate`, handles | planned |
| Session actor | `runtime/registry/actor*`, `handles.rs` | one session: its resource, the execution that flies, what was put off, handles, reported transaction, idle deadline, gate | `open`, `start_execution`, `cancel`, `release`, `evict_idle`, `hold`, `resume`, `invalidate_worker`, `finish` | `SessionActor` |
| Session registry | `runtime/registry/{registry,candidate}.rs`, `registry/evict.rs` | the table of sessions, the quota and the slots held stale | register, submit, cancel, deadline, close, evict, invalidate and confirm a worker | `SessionRegistry` |
| Replacement of a session | `runtime/registry/context.rs` | a candidate beside the old session; the directory's commit | `replace` | `SessionRegistry` (partly) |
| Session directory | `runtime/directory/` | session entries, attachments, time to live | attach, detach, close, expire | planned |
| Gateway | `runtime/gateway/` | idempotency records, tokens, cancellation and retention tables | admit, start, cancel, publish, expire | planned |
| Tunnel ledger | `runtime/tunnel/` | shared tunnels and the leases that ride on them | wire, share, release, reap | planned |
| Deployment budget | `application/budget/` | counters of several nodes in a shared store | reserve, renew, return | planned |
| Orchestration | `application/orchestration/` | idle activity, live results, transactions, waits | sweep, watch, finalize | the idle sweep is the reclaimer of `DesktopSessions`; the rest planned |
| Job repository (desktop) | `src/crates/datazen-desktop/src/store/app_db/jobs/*` | a row per job: state, version, claim, cancel request, effect, pending reason, recovery verdict, commit boundaries, checkpoint | `admit_job`, `claim`, `record_boundary`, `save_checkpoint`, `finish`, `request_cancel`, `confirm_cancelled`, `mark_failed_unstarted`, `mark_pending_verification`, `persist_recovery`, `persist_verification` | `JobRepository` |
| Job engine | `src/crates/datazen/src/jobs/{engine/runtime,application/host}.rs`, its caller `src/crates/datazen-desktop/src/commands/data_transfer/job_api/runtime.rs`, the scan at start in `bootstrap/app_state.rs` | the call that dispatches a job (stage, token, watcher, what its stages reported), the calls that cancel and verify, the scan | accept, run, dispatch, cancel, verify, scan | `JobRuntime` |
| Transfer handler | `src/crates/datazen/src/migration/data_transfer/job/{handler,outcome,pipeline}.rs` | per stage: tables done, batches acknowledged | `run_stage` | `TransferHandler` (what it reports) |
| Workflow engine | `src/crates/datazen/src/workflow` | runs and schedules | advance, retry, recover | planned |

`PROJECT.json` lists these and every other part of the repository (server, CLI,
drivers, migration, user interface, assistant) with the reason it has no model.

### 1.2 How they interact

    user command
       |  gateway: idempotency, token, cancellation        (planned)
       v
    session registry: table, quota, replacement            (SessionRegistry)
       |  a queue and a control mailbox per session
       v
    session actor, one per session: serialises its calls   (SessionActor)
       |
       v
    desktop session backend ----- logical permit ---------> session quotas
       |        |                                           (BudgetSessions)
       |        +-- opened / claim / returning / closed --> production lease ledger
       |                                                    (ProductionLeases)
       +-- acquire_resource --> driver's provider
                                   |
                                   +-- permit ------------> budget coordinator
                                                            (BudgetCoordinator)
                                                               | mutex
                                                               v
                                                            budget ledger
                                                            (BudgetLedger, RoundRobin)
    idle reclaimer: one periodic task, sweeps and verifies what the backend holds

    user command for a job          scan at start     cancel    verify
       |  accept, then drive             |               |         |
       v                                 v               v         v
    job runtime --- claim, boundaries, checkpoint, finish ---> job repository
       |   (JobRuntime)                                        (JobRepository)
       +-- run_stage --> handler (Reports; TransferHandler)
                            +-- batches ---> target database (`world`)

Five kinds of state are shared: the table of sessions with its quota, behind locks that
no call holds while it awaits an actor; the job repository, a transaction per call, which the
runtime, the user's calls and a starting process write to without knowing of each
other; the lease ledger and the budget ledger, each behind a
`std::sync::Mutex` that is never held across an await; the tables of the desktop
backend, behind tokio locks taken and given back within one statement; and the
`Notify` that all waiting calls of a coordinator sleep on.  An action of a module is
therefore the code between two awaits, or one critical section, whichever is shorter.

### 1.3 What is hard, and what makes each component correct

* *Production lease ledger.*  Sessions, opens and the reclaimer report to it in any
  order and with any answer of the driver.  It is correct if a lease whose close has
  begun is never handed out again, if an uncertain close is never forgotten, if a pool
  never grows beyond its policy, and if the policy it grew under is still there.
* *Desktop session backend.*  Between an answer of the ledger and what the task does
  with it lie awaits: an idle lease that was listed for closing may be claimed, a
  claimed one may have left the table, a close may time out and take effect later,
  `observe_session` may fail after registration.  It is correct if no connection has
  two users (INV-02, INV-06), none is dropped while it may be open (INV-08, INV-09), a
  closed session holds nothing, and open sessions keep a usable connection.
* *Budget ledger.*  Five limits meet in one place: reserved slots, shared slots,
  connections of a service, waiters of a class, waiters of a user.  A batch takes
  several slots or none, an expiry empties lanes in the middle of a rotation, a drain
  arrives while others wait.  It is correct if its counters are the permits there are,
  if no limit is passed, if the queues lose and invent nobody, and if the pump leaves
  no one waiting for a slot that is free.
* *Budget coordinator.*  A call is four or more critical sections with awaits between
  them, and its future may be dropped at any await; another task's pump may grant it a
  permit at any of these points.  It is correct if a permit always has an owner, if no
  wakeup is lost, and if a call that has a deadline ends.
* *Job engine.*  The repository and the target database commit separately, so between
  a batch and its boundary, and between the last boundary and the end of the job, the
  process may die, the claim may lapse, the repository may fail, and somebody else may
  mark, cancel or verify the same row; what several stages report is folded into one
  outcome, and the verdict on recovery is written last, by the caller, without a
  claim.  It is correct if what the row says of the target in the end is so, if
  whatever is in doubt is flagged, if "not executed" is only said of an untouched
  target, if an ended job stays as it ended, and if every job ends.
* *Session actor and registry.*  An actor takes messages while an execution flies: some
  are answered, some put off, some (cancel, invalidate) act at once and may take the
  resource away under the execution.  The calls on the other side find a row, let the
  lock go, and await an actor that another call may close, evict or replace meanwhile;
  their futures may be dropped, and a driver's panic takes an actor with all that waits
  for it.  They are correct if one execution flies at a time, if every message is
  answered, if an accepted cancellation is passed on, if no polite close ends a
  transaction, if the slots taken are the sessions there are, and if nobody finds the
  successor of a session that is still at work.
* *Session quotas.*  The record of a session counts in up to four counters, and parking,
  reopening, refusal and closing each touch some of them.  It is correct if what is
  counted is what there is, in every order of calls.

The hazards are listed line by line in `PROJECT.json` under `hazards`, each with the
properties that would notice it going wrong.

## 2. The modules

| Module | What it models | State | Actions |
|---|---|---|---|
| `LeaseStates` | `LeaseState` and `LEASE_TRANSITIONS` | none | the relation `CanMove` |
| `ProductionLeases` | the lease ledger of an asynchronous host | `rows` (`State::rows`), `pools` (`State::pools`) | one per method, plus the passing of the two clocks |
| `LeaseCustody` | abstract: who has a connection, for any host | `owner` | open, refuse, park, claim, surrender, retire, settle |
| `DesktopSessions` | the desktop host over `ProductionLeases` | the ledger; `phys` (the driver's side), `mapped` (`resources`), `bound` (`by_session`), `quota`; `pc`, `batch`, `lease`, `request` of each task | one per stretch of code between awaits |
| `RoundRobin` | `SharedRoundRobin` of `queues.rs` | none: `Chosen`, `AfterPick` are functions of the credit | - |
| `SharedRoundRobin` | abstract: that rotation on its own, with arbitrary demand | `balance` (`SharedRoundRobin::credit`), and `skipped`, how often in a row each class was passed over | `Pick` |
| `BudgetLedger` | admission, queues, pump, release and drains | permits and counters, `queue`, `late`, `credit`, drains, `pump` | one per operation; the pump is a start, one step per grant and one per service it leaves |
| `LedgerRotation` | `BudgetLedger` with a history of its rotations, which every step writes and none reads | the ledger; `passed`, how often in a row the shared slots of each service passed over each class | those of the ledger |
| `BudgetCoordinator` | calls over `BudgetLedger` | the ledger; `stage`, `want`, `hold` of each task, `woken`, `owner` (the mutex), `served`, `alarm` | one per critical section and per await |
| `BudgetSessions` | the session half of the ledger, and the permits the product takes | `sessions` and four counters | one per operation |
| `SessionActor` | the actor of each session: its loop, its handlers and the execution that flies | `actor` (the actor's state), `execQ` and `ctrlQ` (its mailboxes), `task` (executions), `unfinished` (what is left on a resource), `call` (each client's call) | one per handler, split by where it returns |
| `SessionRegistry` | the calls through the table to the actors, replacement included | `rows`, `quota`, `stale`, `begun`; the actors | one per stretch of code between awaits |
| `SessionLife` | abstract: what the sessions of a process promise, whoever keeps them | `resource` of each session (None, Open, Closed, or Leaked in a crash), `table`, `work` (the executions) | connect, depart, enter, leave; ask, start, end, lose |
| `JobRepository` | the transactions of the desktop's job repository | none: an operator on the row for each, and a predicate where one may refuse | - |
| `JobRuntime` | the life of jobs over `JobRepository`: host, runtime, handler, caller, user, verifier, scan, crash | `row`, `world` (the target), `run` (pc and ledger of the dispatch), `canceller`, `verifier`, `scan`, `alive` | one per stretch of code between awaits |
| `TransferHandler` | what the data stage of a transfer may report | none: a value for `Reports` | - |

`MC*` modules give the constants their values for TLC.  `*_proofs` modules hold the
theorems.  Definitions whose name contains an underscore and whose comment begins
with "Fault:" or "As if" are not used by any specification: each is a plausible
mistake in the definition it is named after, and `PROJECT.json` (`mutants`) says which
property notices it.

### 2.1 Correspondence of state and actions

*Time.*  Clocks are reduced to what the code compares.  In `ProductionLeases` an idle
mark is `fresh` or `expired` (60 s), a verification date `pending` or `due` (300 s); in
the budget a waiter's deadline has passed (`late`) or not.  In `DesktopSessions` no
clock runs out for a lease a task is working on: those tasks are waiting for a table
lock or one driver call with a 10 s limit, and the two periods are 60 s and 300 s.

*Identifiers.*  Resource ids, permit ids, waiter ids and tickets are fresh (a uuid or a
growing counter) in the code.  In the models an id is fresh when nothing refers to it,
which gives the same behaviours with finitely many ids.

*The driver.*  `acquire_resource`, `reset_resource`, `observe_session` and
`close_resource` answer what the host's code distinguishes: success, failure, and for a
close *confirmed* or not.  An unconfirmed close leaves the connection `unsure`: it may
be open.  Nothing else of a driver is modelled.

*Pump.*  The Rust pump is one critical section with a loop.  In the model it is a
sequence of steps during which `pump.service` names the service at hand, and every
other operation requires `Unlocked`.  What other tasks can see is the same; the steps
make the order of grants visible to the properties.  `now_ms` is read before the lock
is taken, so a pump may or may not see a deadline that passed meanwhile: `PumpStart`
takes any subset of the late waiters.  `Without`, which cancels and expires, names the
positions that stay and numbers them (`Selected`) in place of a loop.

*Awaiting.*  `stage` in `BudgetCoordinator` and `pc` in `DesktopSessions` are the
points where a task is suspended or between two critical sections.  A future that is
dropped runs its guards, so dropping is an action (`Abandon`, then `DropGuard`).

*Jobs.*  A job is dispatched once, by the call that accepted it: nothing in the desktop
dispatches a job again.  `run[j].pc` is the next await of that call, in
`JobRuntime::run`, then `dispatch`, then the caller's `drive` and `persist_recovery`;
the fields of `run[j]` are the locals of `dispatch` (`all` is `committed_all`,
`unknown`, `failed` and `cancelled` the three `saw_` flags, `effect` is
`failure_effect`).  `Fenced` is a write that `check_claim` guards: it goes through, or
the error ends the dispatch in `DispatchFails`.  It stands for every such write;
those that no transaction reads again (records of stages, progress, artifacts, domain
results) change nothing else.  `world[j]` counts the batches committed in the target
of job `j`: no code of the program can read it but a verifier.  A handler is what it
does there (`BatchBegins`, then `BatchCommits`, `BatchRollsBack` or `BatchIsLost`;
`NextTable`) and what it returns: any element of `Reports(facts, token)`, where `facts`
is what it saw.  `ContractReports` are the reports `JobHandler::run_stage` promises,
`TransferReports` those of the transfer.  A claim is `live` until `LeaseLapses`.

*Sessions.*  A message is the record of its caller in `call`: `op` and `on` are the
message and its session, `plan` what the client asked for, and a queue holds the
clients in the order of their messages.  A caller that is dropped (`GiveUp`) leaves its
message where it is.  An actor awaits the backend inside a handler, but nobody else
touches its state, so a handler is one step; what can happen between is what others do
to the table, and they have no step in the actor's.  `Offered`, `Draining`,
`ControlDue`, `Due`, `TakesInFlight` and `Lands` are the biased `select!` of
`run_actor` and `drain_deferred`, in their order.  The `select!` polls its branches one
after the other, while the execution that flies runs in a task of its own, so that its
later looks may find what is younger than what its earlier ones missed.  For a message
that makes no difference: a step of the actor that missed it is the step before it came.
For the cancel handle it does when the execution also ends, because `Step::Joined` drops
the channel unread: `Unread` lets an execution that is `Silent` when it lands have
published its handle unseen (`Missed`), which is noted where a cancellation waited for
it.  Publication, return and the end the actor finds are one step there: no other step
reads the handle in between.  `unfinished` is what the program
cannot see: whether work is left on the resource; `tx` and `handles` are what it was
told.  `task[e].handle` is where the cancel handle of an execution is (`Offered` in the
channel, `Bound` in `InFlight`), `asked` is `cancel_requested`, `told` that the backend
was called.  `Held` is that some sender of the actor lives: in the table, or in a call
that is not over.  While none does, `run_actor` never polls the execution that flies
(7), which is the guard of `Ended`.

*Composition.*  `SessionRegistry` extends `SessionActor`: its calls send the messages
the actors take.  `DesktopSessions` extends `ProductionLeases` and uses its operations
inside its own actions, so the ledger's state machine is exactly the one that is
checked alone; `BudgetCoordinator` extends `BudgetLedger` in the same way, and `JobRuntime`
calls the transactions of `JobRepository`.
`DesktopSessions` implements `LeaseCustody` under the mapping `OwnerOf`: a session has
a connection from the moment it claims or registers it until it parks it or begins to
close it; the pool has the idle ones; any other connection that may be open is the
host's, to be closed.

## 3. The properties

Properties are stated next to the module they are about, with a comment each.

| Property | Kind | What it says |
|---|---|---|
| `PoolWithinCap` | invariant | a pool never keeps more idle leases than its policy allows |
| `PolicyDeclaredWhileLeased` | invariant | a pool key has a policy exactly while a lease of it lives |
| `QuarantineIsArmed` | invariant | a lease is quarantined exactly when it has a date for its verification |
| `NoReissueAfterDoubt` | action | a lease that is closing or quarantined never goes back to anyone |
| `LeaseHeldByOneTask` | invariant | no two tasks work on one connection (INV-02, INV-06) |
| `OpenSessionIsUsable` | invariant | an open session's connection is live, in the table and not idle or closing |
| `IdleLeaseIsReady` | invariant | what `claim_idle` may hand out is mapped, open and nobody's |
| `NoOrphanConnection` | invariant | a connection that may be open is in the table or in a task's hands (INV-09) |
| `ClosedSessionHoldsNothing` | invariant | a closed session keeps neither quota nor binding nor lease |
| `RowOutlivesConnection` | action | the ledger drops a row only with a confirmed close (INV-08) |
| `ImplementsCustody` | refinement | the host keeps the discipline of `LeaseCustody` |
| `BindingNeverDangles`, `OpenSessionStaysBound` | invariants | for drivers that do not park connections: what `by_session` names is open and in the table, and an open session stays bound until its own close |
| `CallsReturn`, `QuarantineIsVerified`, `ExpiredIdleIsRetired` | liveness | calls end; the reclaimer comes back to what it must |
| `NoStarvation` | invariant | how often in a row the rotation may pass a waiting class over, and how far its credit may run |
| `AccountsMatchPermits` | invariant | slot counters are the permits in hand |
| `WithinQuota` | invariant | reserves, shared slots and the connection limit |
| `QueuesWellFormed`, `QueuesWithinCaps` | invariants | one lane per principal, none empty, each waiter once; the two limits |
| `PumpLeavesNoOneBehind` | action | a pump that leaves a service has granted whatever could be granted |
| `PrincipalsTakeTurns` | action | a waiting principal never loses its place, and gains one with every grant to another |
| `DrainedServiceGrantsNothing` | action | once a service drains it grants nothing, to newcomers or to those who waited |
| `NoPermitLeak`, `OneHolder` | invariants | a permit is somebody's, and one task's only |
| `NoLostWakeup` | invariant | if a sleeper could have a permit somebody is still going to notify or to look |
| `DeadlineEndsTheCall` | liveness | a call with a deadline ends |
| `CountersMatchSessions`, `EditorsCounted`, `SessionsWithinQuota` | invariants | the quotas of sessions, editors and attached connections |
| `OneExecutionAtATime` | invariant | two executions never run on one session |
| `QuotaCountsSessions` | invariant | the slots taken are the sessions in the table, in quarantine or in a call's hands |
| `RowsHaveResources` | invariant | a row names a resource, but for a closing call in progress, a crash, and the case in 7 |
| `OfferedHandleTakesCancel` | action | an execution whose handle is bound, or was on offer when its actor last looked for it, does not end with an accepted cancellation undelivered |
| `PublishedHandleTakesCancel` | action | nor does one that published its handle after that look: refuted (7) |
| `PoliteCloseEndsNothing` | action | a close that asked for no transaction ends none, unless a failed execution hid it |
| `OldIsClosedBeforeNewIsFound` | action | a candidate enters the table when the old session's resource is closed |
| `EveryMessageIsAnswered` | liveness | every message is answered, or its caller has gone |
| `UnreachableIsClosed` | liveness | a session nobody can reach closes its resource |
| `OutcomeCoversWorld` | invariant | what a finished job says of its target (not started, rolled back, partial, completed) is so there |
| `BoundariesAreReal` | invariant | no boundary without a committed batch, and none missing from a job that succeeded |
| `UnrecordedWorkIsFlagged` | invariant | a finished job that committed more than its boundaries tell is of unknown effect and is to be verified, or was |
| `NotExecutedIsTrue` | invariant | "not executed" is never the verdict on a job that wrote to its target |
| `TerminalIsFinal` | action | an ended job keeps its state and effect, whoever writes to its row afterwards |
| `SettledWorldStands` | action | the target of a job changes only while its row says running |
| `EveryJobEnds` | liveness | a job that was accepted ends, whatever dies on the way, unless the repository fails more than once |

`SettledWorldStands` is refuted where a second process starts (7) and proved where none
does (6.4).

`EditorsMatchSessions` (the count of editors is exact) holds only for the calls
`LogicalSessionPermit` makes and is proved for `PermitSpec`; see 6.2.

## 4. The runs

Distinct states and the depth of the graph are those of a complete search.

| Run | Configuration | Question | Distinct states, depth |
|---|---|---|---|
| `desktop` | `MCDesktopSessions.cfg` | two sessions and the reclaimer with the connections of two drivers, one whose connections are reusable and one, like those the repository ships, whose are not: does the host keep its own promises, the ledger's under it, and the custody above? | 536 401, 47 |
| `desktop_live` | `MCDesktopSessions_live.cfg` | does everything that must happen happen? | 32 028, 34 |
| `budget_ledger` | `MCBudgetLedger.cfg` | accounts, limits, queues, pump and drains together | 746 944, 40 |
| `coordinator` | `MCBudgetCoordinator.cfg` | permits and wakeups of tasks of two classes, one of which may give up, with drains and an attached connection: does a deadline end a call, and does every change wake those who wait? | 105 945, 39 |
| `session_registry` | `MCSessionRegistry.cfg` | calls that open, run, cancel, close, evict, invalidate and replace sessions, in every interleaving, with failures, a panic and a dropped caller: executions, quota, cancellations, transactions and answers | 170 247, 26 |
| `cancel_is_missed` | `MCSessionRegistry_PublishedHandleTakesCancel.cfg` | finding: an accepted cancellation is lost with the handle it waited for | violated |
| `budget_parts` | `MCBudgetParts.cfg` | two parts that share no state: how long may a class be passed over, and do the counters and limits of sessions hold under every use of the ledger? | 15 704, 12 |
| `drained_node_grants` | `MCBudgetCoordinator_DrainedClaimGrantsNothing.cfg` | finding: a drained node's waiter is granted a permit | violated |
| `waiter_is_starved` | `MCBudgetCoordinator_WaiterIsServed.cfg` | finding: a waiter may sleep for ever | violated |
| `jobs` | `MCJobRuntime.cfg` | is what a job says of its target true, and does every job end, with an honest handler, a user, a verifier, lapsing claims, a failing repository, a dying process and a second one? | 831 662, 54 |
| `transfer_hides_commits` | `MCJobRuntime_OutcomeCoversWorld.cfg` | finding: a transfer that committed rows ends as rolled back | violated |
| `second_process_settles` | `MCJobRuntime_SettledWorldStands.cfg` | finding: a second process ends a job that goes on writing | violated |

### 4.1 Bounds, and why they are enough

* `desktop`: two sessions, two resources, `MaxIdle = 1`, and three keys: two of a
  connection whose driver declares `ReusableAfterReset`, so that opening under one key
  retires the other's idle leases, and one of a connection whose driver does not.  The
  races are between a claim, a park and a sweep on one connection: two sessions and the
  reclaimer are three parties, and the second resource lets a session open a new
  connection while its old one is still being closed.  A session that has closed may
  open again, so long histories occur although there are two sessions.  The ledger is
  the one the host drives: a pool is full, meets another policy, loses its last lease.
  The theorems of 6.1 and 6.3 remove the bounds.
* `desktop_live`: one session and the reclaimer; liveness needs no second session, and
  every action of the module still fires.
* `budget_parts`, the rotation: unbounded in demand, at each pick any non-empty set of
  classes has somebody waiting, and the invariant itself bounds the state.  That the
  ledger's rotations are this one is proved in 6.5.
* `budget_ledger`: one service (services share no state, only the loop over them), two
  principals, three waiters, two permits, reserves for two classes, one shared slot, a
  connection limit of two and queue caps of three and two.  The shared slots and the
  connection limit bind at different moments, a lane can hold two waiters of one
  principal while another waits, and either cap can be reached.
* `coordinator`: two tasks of different classes, two permits (one reserved, one shared), a
  batch of two; one task is impatient, an operator drains and a session may attach a
  connection.  The theorems of 6.6 hold the safety properties for any number of tasks.
* `session_registry`: two sessions, so that one can replace the other; three clients,
  the first of which opens and executes, the second does everything that disturbs, and
  the third replaces and may be dropped; two executions, one handle, revisions up to 2,
  and four calls in all (`MaxCalls`), a scan or a replacement counting as one although
  it sends up to five messages.  Four calls are an execution with another put off behind
  it and two that disturb them, or a replacement against three others.  With five the
  graph has 1.7 million states; the invariants and action properties were searched
  there once, without the liveness properties, and hold.  One session's driver cannot
  cancel and the other's may panic.  The theorems of 6.7 and 6.8 hold the invariants and
  action properties for any number of each, and any number of calls.
* `budget_parts`, the sessions: three tickets, two users, two organizations, two
  services, with limits of two and one, so that each limit is reached by some and
  passed by none.
* `jobs`: one job, because jobs share no row, no worker and no target (the scan, which
  goes over the rows one by one, is the only step that sees several, and what it does
  to one does not depend on another); two stages of two batches, so that a stage may
  fail after one batch, after its last one, or after a stage that succeeded; one failed
  call of the repository, one crash, and a second process that may start whenever none
  is scanning.  `MaxFaults` and `MaxCrashes` bound counters that only the guards of
  trouble read.  A second fault adds nothing that `EveryJobEnds` would still ask for,
  and the theorems of 6.4 hold for any number of both.
* The finding about cancellations uses the constants of `session_registry`.
* The two findings about jobs need no trouble at all: `MaxFaults = MaxCrashes = 0`.

Symmetry sets are permutations of ids that nothing orders (resources, sessions, keys,
permits, waiters, tickets); no run with a liveness property uses one.  `jobs` and its
findings allow deadlock: when every job has ended there is nothing left to do; and so
do `session_registry` and its finding, whose calls are finitely many.

## 5. Fairness

* `DesktopSessions!FairSpec`: weak fairness of each task's own steps and of the passing
  of clocks.  tokio polls every task, a driver call answers or meets its 10 s limit, and
  time advances.  Nothing obliges a user to open, execute or close; the liveness
  properties start where a call has begun.
* `BudgetCoordinator!FairSpec`: weak fairness of what a task can do alone (`RunsOn`), of
  the pump in progress and of a pending notification; strong fairness of the steps that
  take the mutex (`Locks`), because a task that keeps asking for a `std::sync::Mutex`
  held for short critical sections gets it in the end.  `GiveBack` is among them:
  permits are returned in the end.  That is what the finding `waiter_is_starved` grants
  the system, and it starves a waiter all the same.
* `TimedSpec` adds that every deadline passes (`Overdue`): a timer that is set fires.
  Tasks outside `Impatient` have none.
* `SessionRegistry!FairSpec`: weak fairness of `Proceeds`, which is everything the
  runtime does by itself: take a message, bind a handle, end an execution, go on with an
  answered call.  tokio polls every task, and a driver answers in the end.  One
  condition on all of it is enough, because calls are finitely many and every step of
  `Proceeds` brings some message, execution or call nearer to its end: nothing can go
  on for ever beside it.  Nobody has to call, be dropped, panic, or publish a handle.
* `JobRuntime!FairSpec`: weak fairness of the steps of the dispatching call (`RunStep`),
  of the end of a stage (`StageEnds`: a handler returns, or fails, in the end), of the
  scan's steps, its end, and of `Start`: a process that died is started again.  Nobody
  has to cancel, verify or start a second process, and batches need not go on.
  `EveryJobEnds` starts where a job was accepted and excuses runs in which the
  repository fails twice: a failure to record that a dispatch failed leaves the row
  running until the next start, and a scan that fails as well until the one after.

## 6. The proofs

All theorems are proved for every value of the constants that satisfies the `ASSUME`s
of their modules, by tlapm with Z3, Zenon and LS4.

### 6.1 `ProductionLeases_proofs`

Assumptions: `LedgerAssumption` (finitely many resources, a positive cap).  The module
proves type correctness (`LedgerTypeCorrect`) and on it:

* `PolicyStaysDeclared`.  The invariant is inductive with types.  The point of the proof
  is `ClosedConfirmed`: the last row of a key and its policy go together.
* `PoolStaysWithinCap`.  The bound alone is not inductive: a key could change to the
  stateless policy, whose cap is 0, while leases are parked.  The strengthening is
  `PolicyDeclaredWhileLeased`: while leases of a key live its policy is declared, so
  `declare` cannot change it, and when the policy goes no lease of the key is left.
  `StepShape` reduces the operations to four kinds of step, by what they do to the set
  of idle leases.
* `QuarantineStaysArmed` and `DoubtIsFinal`, the latter an action property: `EveryRowStep`
  states for each operation which moves of one row it can make.

### 6.2 `BudgetSessions_proofs`

Assumptions: `SessionsAssumption` (positive limits, finitely many tickets) and that "no
session" is not a session.  The module proves:

* `SessionsTypeCorrect`, with natural-number counters: saturating subtraction never has
  to saturate.
* `CountersAreSessions`: for every user, organization and service the counter is the
  cardinality of a set of records.  Each operation adds one ticket to at most one set
  of each kind, removes one, or leaves it; the proof has a step per operation and per
  counter, and `FS_AddElement`/`FS_RemoveElement` do the counting.
* `QuotasHold`: from the counters, each operation compares the counter it adds to.
* `EditorsAreCounted` (for `AnySpec`): no editor goes uncounted, in any order of calls.
* `ProductCountsEditors` (for `PermitSpec`): with the calls the product makes the count
  is exact.  `AnySpec` does not satisfy that: see 7.

### 6.3 `DesktopSessions_proofs`

Assumptions: those of the ledger and `DesktopAssumption` (the reclaimer is not a
session, and the names of the other owners are not sessions); any number of sessions,
connections and pool keys.

None of the host's invariants is inductive alone.  `Inv` has these parts:

* `HandsMatch(t)`: what each label of a task says of the connection in its hands.  From
  the claim to the close it is registered, live and not idle; on the closing paths its
  row is `Closing`; once its removal from the table is all that is left it is gone.
* `BatchMatches(t)`: what is on a task's list to retire is `Closing` and in the table,
  what is on the list to verify is `Quarantined`, and none of it is in the task's hands.
* `Exclusive`: a connection is in the hands or on the list of at most one task
  (`Claims`).  This is stronger than `LeaseHeldByOneTask`, because a list is a promise
  to work on a connection after further awaits.
* `ResourceMatches(r)`: an idle connection is live, in the table and claimed by nobody;
  a row has a connection; a connection has a place in the table or a task.

`Frame` carries the argument: a step of task `t` that changes only connections no other
task claims preserves what `Inv` says of everybody else, so that for each action only
`t` and the connections it touches remain to be looked at.  The steps fall into those
that only move a task on (`LocalStep`), those on the connection in its hands
(`AnswerStep`, `RemoveStep`, `OwnStep`) and those that change what it claims.  Two of
the last kind show why the ledger works as it does: listed leases start closing under
the lock that lists them (`RetirePlanStep`), and a quarantined lease that is due cannot
be in anybody's hands, since its 300 s do not run out while the session whose close was
not confirmed still has it (`VerifyPlanStep`).

`Inv` says which connection a session works on, but not that the session asked for it, and
the two invariants about drivers that do not park rest on that: another session's close
drops the bindings of the connection it parked, whoever has it by then.  `Bindings` relates
`by_session` to the labels, and `Pooled` closes the gap:

* `Poolable`: only keys whose connections may be parked have a stateful pool, so only
  their rows reach `parked` or are claimed again;
* `Keyed(s)`: from the lookup to the reset the row in a session's hands has the key the
  session asked for; a session whose driver does not park never reaches `parked`; the
  connection it is about to unbind is still open (`UnboundStaysOpen`: nobody else touches
  it); and while it is open and its driver does not park, it is bound.

`OwnOrUndisturbed` splits the steps: all but the session's own leave it as it was
(`Undisturbed`), except that a close elsewhere may drop a binding to the connection it
parked, and the rows of the two then have different keys.

From `Inv` follow `LeaseHeldByOneTask`, `OpenSessionIsUsable`, `NoOrphanConnection` and
the action property `RowOutlivesConnection` (`RowLeaves`: of all steps only a confirmed
answer removes a row); with `Bindings`, `ClosedSessionHoldsNothing`; with `Pooled`,
`BindingNeverDangles` and `OpenSessionStaysBound`; and two refinements:

* `HostKeepsLedger`: the host drives the ledger by its operations only, so the theorems
  of 6.1 hold of the running host;
* `HostKeepsCustody`: the host implements `LeaseCustody`.  `OwnersAre` gives the mapping
  without its `CHOOSE`: the user of a connection is unique, so it is the owner.  A step
  then passes nothing on (`QuietStep`), settles, parks or surrenders one connection,
  obtains one, or retires a list.

### 6.4 `JobRuntime_proofs`

Assumptions: `RuntimeAssumption` (positive numbers of stages and batches; handlers
report what is a report), any number of jobs, faults and crashes.  Two theorems hold
whatever the handlers report, and with a second process:

* `JobsTypeCorrect`.  Types alone are not inductive: that `facts` stays within the
  batches of a stage needs room for the batch in flight and the one in doubt
  (`Fitting`).
* `EndedJobsStayEnded`, an action property.  Eight kinds of write reach a row
  (`RowChanges`), and none changes the state or the effect of an ended one.
  `mark_pending_verification`, which asks for no claim, keeps an effect only if there
  is one, so the invariant (`Effects`) is that an ended row has one.

Four are proved under `HonestHandlers`: every element of `Reports` keeps the contract
of `run_stage` (`Honest`).  They are the invariants of the run `jobs`:
`FinishedJobsTellTheTruth`, `BoundariesTellTheTruth`, `UnrecordedWorkIsNeverHidden` and
`NotExecutedMeansUntouched`.  None is inductive; `JobsInv`, which TLC checked first on
the instance of the run, says for every job

* `RowInv`: the four properties themselves, of its row and its target;
* `PlaceInv`: what the place of its dispatch says of the row.  Before the claim nothing
  is in the target; after it the row is running, or somebody has marked it behind the
  runtime's back and it is flagged for verification already;
* `DispatchInv`: how far the ledger of the dispatch is behind the target.  In a stage
  the target has what the finished stages committed and what the handler saw, or one
  more if it is in doubt; between the report and the last of its boundaries the
  difference is what is left to record, or the dispatch knows that it does not know;
* `VerifierInv`: what a verifier found between its look and its write is still there.

The argument goes by the dispatch's places, `HonestBeforeClaim`, `HonestClaim`,
`HonestStage`, `HonestHandlerStep`, `HonestClosing` and `HonestCaller`, then by whoever
else writes to the row (`HonestHost`), and the crash.  The step that needs most is
`Finish`: the version it compares makes sure that nobody marked the row meanwhile, so
that its outcome is the whole dispatch's.

`OnlyRunningJobsWrite` proves `SettledWorldStands` under `Headless = FALSE`, for any
handlers.  `SoloInv`: a dispatch after its claim has a running row, since in the only
process that serves jobs no scan is at work while a dispatch is (`alive`), and neither
a canceller nor a verifier ends a running row.  With a second process the property is
false (7).

### 6.5 `BudgetLedger_proofs`

Assumption: `BudgetAssumption` (the limits are natural numbers, there are finitely many
permits, and the names for "none" name nobody); any number of services, classes,
principals, waiters and permits, and any limits.  All eight properties of the run
`budget_ledger` are theorems of `LedgerSpec`, and `NoStarvation` is one of `SharedSpec`.

`LedgerInv` is the inductive invariant; besides the types it has three parts:

* `AccountsInv`: the counters are the permits in hand, and the limits hold.  The two need
  each other: a release finds in the counter what it takes out, because the counter is
  the permits.
* `QueuesInv`: every queue is in order (`QueuesInOrder`: no lane is empty, no principal
  has two, all claims in it are for its service and class), a waiter is in one place
  over all queues (`Once`), and a waiter with a permit is in none and has only one
  (`PermitWaiters`).
* `QueuesWithinCaps`.

`StepKinds` reduces the operations to seven kinds of step: nothing that counts, an
attachment, an admission, a grant to the head of a queue, joining a queue, leaving one,
and a release.  The accounts are counted by `GrantsAdd`, `GrantsBalance` and
`ReleaseTakesBack`.  What a queue looks like after a push, a pop, a cancellation or an
expiry is in `PushedIs`, `PoppedIs` and `WithoutIs`; the last rests on `Numbering`,
`NthIs` and `SelectedIs`, which say that the elements of a sequence at some positions,
numbered in order, are a sequence with the same elements in the same order.  From
these follow the shape of the queues, and for `TurnsAreFair` where each lane goes:
`PoppedMovesUp`, `WithoutKeepsOrder`, `PushedKeepsPlaces`.  `PumpServesEveryone` and
`DrainHolds` need only the types and what the guards of the pump's last step say.

*The rotation.*  That no class starves is about the arithmetic of many picks.  Its
inductive invariant (`Rotating`) has two parts:

* `Balanced`: the credits of the three classes add up to zero and lie in -5..4, -4..4
  and -4..4, and when the job class has -4 the metadata class has neither 1 nor 3.  The
  bounds alone are not inductive; the last condition excludes the combinations from
  which one more pick would leave them.  `InteractivePays`, `MetadataPays` and `JobPays`
  are the three cases of a pick, by the class that pays for it (`PickKeepsBalance`).
* `Paced`: a class passed over `n` times in a row has earned its weight each time, from
  the lowest credit it can have: `4n - 5`, `2n - 4` and `n - 4` are at most its credit.
  With the upper bound 4 that gives the 2, 4 and 8 of `NoStarvation` (`RotatingIsFair`).

`RotationIsFair` says it of `SharedRoundRobin`, `CreditsStayBalanced` of the credits of
the ledger.  `LedgerRotates` shows that the ledger implements the abstract rotation: for
every service, with `balance` the credit the ledger keeps and `skipped` the history of
`LedgerRotation`, each step of `RotationSpec` is a pick or a stutter.  What has to be
shown is that nothing but a shared grant writes the credit (`OnlyPumpSharedPays`), not
even a grant of a reserved slot, and that a grant at one service leaves the others'
rotations alone (`RotationStep`).  `NoClassStarves` follows: however waiters arrive,
time out, are cancelled and are drained in between, no shared grants pass over a class
that keeps somebody waiting more often than that.

### 6.6 `BudgetCoordinator_proofs`

Assumptions: `BudgetAssumption` and `CoordinatorAssumption` (which tasks may ask for
what, time out, and what may be drained or attached); any number of tasks and any
limits.  The three safety properties of the run `coordinator` are theorems of
`Spec`, with no fairness assumed, and so are the promises of the ledger below it.

`Steps` groups the actions by what they do to the ledger: nothing (`MovesOn`), nothing
that counts (`Notes`), permits at once (`Gets`), a pump begun or going on (`PumpBegins`,
`PumpOn`), joining a queue (`Joins`), a permit or a waiter that goes (`GivesBack`), a
change from outside (`Outside`).  `CoInv` is the inductive invariant:

* `LedgerInv` of 6.5, kept because most groups are operations of the ledger, and the
  others are one or two of its kinds of step at once;
* `MutexInv`: who has the mutex is pumping and nobody else is; when the pump is done it
  has no service left to visit;
* `KnownInv`: waiters are queued only at services the ledger knows, which the pump
  visits;
* `HoldInv`: a held permit is in the ledger, was granted to nobody else's waiter and has
  one holder; a permit for no waiter is held; and where a task is says whether it may
  hold, be queued or be granted something (`TaskPlace`).  A dropped guard takes back the
  one permit granted to its waiter, which nobody can hold: `NothingLeaks`,
  `PermitsHaveOneHolder`;
* `PumpInv`: what a running pump has visited it has left with no free slot that is
  waited for;
* `WakeInv`: either a call that will notify is on its way (`Calling`), or whoever sleeps
  unwoken has nothing granted and no slot it could have (`Calm`).

`WakeupsAreNotLost` is the last of them.  Three of its steps are not obvious.  A pump
that ends with nobody served leaves its own task asleep (`SettledFindsNothing`): by
`PumpInv` there is nothing for it.  A pump run by `try_acquire` tells nobody, but
`GrantWake` finds that it cannot grant to a quiet sleeper either: the slot would have
been free for it before.  And a grant or an admission never makes a slot
(`GrantsLess`), so that what was nothing stays nothing.

*The ledger while tasks use it.*  `Spec` does not implement `LedgerSpec` step by step:
dropping a guard cancels a waiter and releases its permit in one critical section, and a
deadline may pass for a waiter that is in no queue.  What `LedgerSpec` promises is
therefore proved again for the tasks, from the kinds of step of 6.5 (`TaskSteps`):
`TasksKeepTheLedger` (accounts, limits, queues and their caps), `TasksTakeTurns`
(`PrincipalsTakeTurns`), `TasksFindDrained` (`DrainedServiceGrantsNothing`) and
`TasksPumpForAll` (`PumpLeavesNoOneBehind`).  `TasksAreNotPassedOver` carries the
refinement of the rotation over: with the same history variable the coordinator's steps
are picks or stutters of `SharedRoundRobin`.  The finding `waiter_is_starved` is
therefore not the rotation's doing.

### 6.7 `SessionRegistry_proofs`

Assumptions: `ActorAssumption` (the names for "none" name nobody, a positive bound on
revisions), `RegistryAssumption` (which calls each client makes, who may be dropped) and
`FiniteAssumption` (a process opens finitely many sessions); any number of sessions,
clients and executions, any limits, any place where actors panic.  All theorems are of
`Spec`, with no fairness assumed.

None of the properties is inductive.  `Inv` says how the parts of the model agree:

* `QueuesOK` and `MessagesOK`: a caller waits in one place of one queue, it is one whose
  message was sent to that session, and nobody waits for an actor that has gone.  An
  answer can therefore reach nobody twice, and a step of an actor touches no call but
  those it has in its queues (`Touches`, `TouchesInv`);
* `PostedOK`: a message that is to execute carries an execution that is posted, to this
  session and in no other message;
* `FlightsOK`: what flies is running on that session; what runs flies, or its actor
  crashed over it; and a bound execution that was asked to stop has been told;
* `ShapesOK`: how the fields of a call go together, by its plan and its stage;
* `OneExecutionAtATime` itself.

Every step is one of an actor or a backend (`Works`, `WorksInv`) or of a call
(`GoesOn`, `Begins`, `GiveUp`), and each kind is gone through action by action.  From
`Inv` follow `OneExecution` and `HandleTakesCancel`: the second needs that an execution
on offer does not land (`Lands`), and that a bound one was told.  It says nothing of a
handle that is published between the actor's look for it and the end (`Missed`).

`Count` is on top of `Inv` and carries `SlotsAreSessions`: the quota is the cardinality
of the set of slots.  For that the places of a slot have to be apart (`ApartOK`), a
session that is being opened has to be known to its opener alone (`PrivateOK`), and a
session somebody knows of must have been opened (`BornOK`), so that a fresh actor is in
none of the places.  `TypesHold` comes last: that the quota is a natural number, which
no subtraction in the code checks, follows from its being a cardinality.

### 6.8 `SessionResources_proofs`

Same assumptions.  The three properties about the resources behind the sessions rest on
one more invariant, `Resources` (`ResourcesHold`), which is kept on top of `Inv` and
`Count`:

* `EndedOK`: an actor that never ran, or has ended, has no resource;
* `LeftOK`: unfinished work was left by an execution, and while the actor has its
  resource it knows of the work, as a transaction or a handle, unless an execution
  failed;
* `RetiredOK`: what a call was told is closed is closed; a replacement that has got past
  its close, or whose old session has left the table by somebody else's hand, replaces a
  session without a resource;
* `RowsOK`: a session that is opened and not yet in the table has its resource, and a
  row has it, or has lost it to an execution, or is one that a call has closed and has
  yet to take out, or never will.

Sessions do not come back: `ShutStays` and `OpenedStays` say that a resource is gone for
good, which is what lets one call rely on what another one was told.  For the actors,
`Effects` sums up what any of their steps does to its resource and what its callers may
conclude from their answers (`WorksEffects`: one lemma per kind of step); the four parts
are kept by everything that has such effects (`EffectsLeft`, `EffectsRetired`,
`EffectsRows`).  For the calls, `CallResources` states once what a call must have made
sure of before it goes on: that what it takes out of the table is closed, that what it
puts there is open, and that it does not forget what it has closed; each continuation is
shown to.

From `Resources` follow `RowsHaveThem`, `OldFirst` (`PublishesClosed`: only the
replacement itself publishes its candidate, by `PrivateOK`) and `PoliteEndsNothing`
(`ClosesPolitely`: the actor that answered found neither a transaction nor a handle, and
`LeftOK` says what that means).

The module ends with what the registry promises as a whole.  `SessionLife` says it
without actors, mailboxes or calls: a connection is opened once, within the limit, and
never again; a session is in the table from some time after its connection has opened,
and leaves it only after that has closed; an execution that was asked for of a session
in the table starts only while its connection is open and nobody else executes on it.
`SessionsKeepThePromise` says that `SessionRegistry` implements it (`Promise`): the
resource of a session is `None` while its `Open` waits to be served, `Leaked` when its
actor crashed over it, and otherwise what `physical` says (`ResourceOf`); the table is
`rows`; the stage of an execution is that of its `task`, with all its ends as one
(`Phase`).

The step simulation needs what no earlier invariant says, `Lives` (`LivesHold`):

* `CrashedOK`: an actor crashes over an open resource only;
* `SecretOK`: before the answer to its `Open`, a session has no resource, so that the
  resource opens in the step that answers;
* `ToldOK`: whoever was told that a session is closed was told so of a resource that is
  closed, and not of one a crash has leaked; an `Open` that failed left none; and the
  candidate a replacement has undone is closed, because that close is always one that
  rolls back;
* `ConnectedOK`: a session in the hands of the quarantine has no connection at work (one
  that is open under a living actor), every connection at work has a slot, and the slots
  are within the limit.

With `ConnectedOK` the count of `Count` becomes a bound on connections: the registry
gives slots back on paths that never look at the connection (a candidate undone, an
`Open` that failed, a lost worker's quarantine confirmed), and `ConnectionsStayBounded`
says that in none of them a living actor still has its connection open.  A connection
that a crash has leaked is not counted: its actor is gone, and `Resource` calls it
`Leaked`.

The proof goes by who moves.  A step of an actor (`Turns`, `Advances`: again one lemma
per kind of step) moves one execution at most and does one thing to one resource, and
`TurnsPromise` matches it with a step of `SessionLife`.  A step of a call touches no
actor but one it starts (`Brings`), so it can only ask, enter or leave; `CallLives`
states once what it must have made sure of, in terms of the record it goes on with, and
each call is shown to.  No run checks this refinement: that is the theorem's alone.

### 6.9 What stays with TLC

* Liveness and everything with `ENABLED`: that every message is answered, that what
  nobody can reach is closed, that jobs end, that waiters and tasks are woken.

Some leaves name the prover that finds them and allow it a longer time than the default,
so that the proofs also go through on a slower machine.

## 7. Observations

Five disagreements between the code and what the repository says of it are findings,
with a run each (`PROJECT.json`, `findings`): `drained_node_grants`,
`waiter_is_starved`, `transfer_hides_commits`, `second_process_settles` and
`cancel_is_missed`.  Others were met while modelling.  They are recorded here because
a reader of the code would want to know; no run carries them.

On sessions and budgets:

* The key of a pool leaves out the purpose of a lease (`opening.rs:172-184`) and the
  policy depends on it (`190-195`).  A fixed session opened while a metadata lease of
  the same key lives is refused with `PoolPolicyConflict`, after its connection was
  opened; acceptance case CM-30 expects the two to wait for each other at most.
* With a driver that declares `ReusableAfterReset`, which none shipped does, a closing
  session parks its lease before it drops its binding.  In that window an open under
  another key may retire the lease and close the connection under the binding, or
  another session may claim and bind the lease, whose binding the late
  `unbind_live_resource_by_resource` then drops.  `BindingNeverDangles` and
  `OpenSessionStaysBound` leave such drivers out and say nothing of the window.
* A connection refused by `opened` whose close is not confirmed stays in `resources`
  without a row, so that nothing ever verifies it (`opening.rs:274-294`).
* The logical quota is given back when a close begins, also when the close is not
  confirmed; section 9.2 wants it held until the release is confirmed.
* The comment on the rotation bounds the rounds a class waits by the total weight over
  its own.  With demand that comes and goes credit carries over, and the bounds are 3, 5
  and 9 picks (`NoStarvation`).
* `drain(Organization)` stops every service known at that moment, whoever uses it, and
  none that is registered later; requests of that organization are refused by their own
  check.
* Editors are limited per connection of a user, not per user in all.
* `attach_physical` followed by `connect_editor` counts an editor twice.  Nothing in the
  product calls `attach_physical`.
* `validate` accepts a connection limit below the sum of the slots; reserved grants can
  then keep the shared classes waiting.
* The cap on a user's waiters is counted per service.
* The table of returned permits keeps 4096 entries: a repeated return after that is
  answered `Unknown` instead of `AlreadyReleased`.  No caller acts on the difference.

On the session actor and registry:

* `registry.rs:766-769` removes a row whose close was answered `SessionLost`, so that
  no slot is stuck.  When an *execution* loses the resource, the actor releases it and
  becomes a tombstone; a later close is answered `SessionClosed` and an eviction with
  nothing, and neither removes the row: it and its slot stay until the process ends.
  The same is left by a close or an eviction whose caller is dropped after the actor
  has released (the idle task is aborted at shutdown, `orchestration/idle.rs:175`),
  and by a crashed actor, where `evict.rs` says so.  `RowsHaveResources` names these
  cases, and `QuotaCountsSessions` counts such a row as one: neither catches them.
* `gate` (`actor/context.rs:57-84`) promises that a gated session refuses every new
  execution, and lets `ExecuteBound` pass.
* When every sender of an actor is dropped while an execution flies, both closed
  mailboxes are always ready in the biased `select!`, and the execution is never polled:
  the actor spins and its resource stays open.  The registry's calls hold a sender for
  as long as they await, so it takes a dropped caller.
* An `InvalidateWorker` that meets a flying execution releases the resource; when the
  execution lands its report still overwrites the tombstone's transaction and handles.
* A replacement that loses a race undoes itself by lowering the gate, also when another
  replacement has raised it; a dropped one leaves the gate raised.
* An execution that fails leaves the reported transaction as it was, so that a polite
  close may pass over what it left (`PoliteCloseEndsNothing` excuses it).
* A cancellation accepted before the handle is published is never delivered if the
  backend ends without publishing one; nor if it publishes one and returns between two
  looks of the actor, for the handle and for the end (`actor.rs:392-411`, `447-452`):
  the channel is dropped with the handle in it (finding `cancel_is_missed`).
* A dropped registration leaves its slot taken and its id in `opening`; a session being
  opened while its worker is invalidated escapes the invalidation.
* `port.rs` calls a close idempotent; a second one is answered `UnknownSession`.
* `ContextReplacer::replace` and `invalidate_worker` have no caller in production yet.

On jobs:

* `renew` is called by no production code, and a claim lives 300 s.  A stage that takes
  longer cannot record what it committed: its next write is answered `StaleClaim` and
  the job ends `Failed` with effect `Unknown`.  The properties hold; the job is lost.
* `list_recoverable` returns the 500 oldest rows, and cancelled and verified rows stay
  recoverable for ever.  Behind 500 of them an interrupted job is no more scanned, and
  stays `Running`.
* If the user's cancellation is confirmed between the runtime's look at
  `cancel_requested` and its claim, the claim fails and `mark_pending_verification`
  leaves a pending reason on the cancelled row, which nothing clears.
* `persist_recovery` of the caller has neither claim nor version: it may overwrite the
  verdict of a verifier that was quicker.
* A job that succeeded without a boundary (there was nothing to copy) has no
  checkpoint; its caller records `RequireManualReview`, `missingCheckpoint`, and with it
  a pending reason.
* `derive_evidence` counts an unknown commit as verified in the target if all the
  *known* boundaries have evidence.
* The server has a job repository and nothing that scans it at start.
* `MultiEndpointPermits` gives its permits back by a call, not when it is dropped; a
  dispatch that is dropped between the two keeps them.

## 8. What is not modelled, and why

* Counters that nothing decides on: totals of grants and consumption, latencies,
  snapshots, and the expiry of node leases, which is recorded and never read.
* What commands do on a connection, the finalisation of transactions and the routing of
  cancellations; `DesktopSessions` lets a closing session find any of them unresolved.
* Poisoned locks: the code recovers the guard and goes on, so they are the same steps.
  Of panics, only a driver's in the close of a resource, which takes a session's actor.
* Of sessions: the cap on the ended executions an actor remembers (`SETTLED_CAP`), past
  which a late cancellation is answered differently; the directory and its operation
  keys, the idempotent replay of a replacement and its attachment tokens; audit entries;
  `RegisterHandles`, which nobody sends; ids that repeat and epochs, which are fresh.
* The parts of the repository listed as `not_modelled` in `PROJECT.json`: protocol
  adapters, drivers and tunnels (network input and output), mappings and parsers
  (functions of their input), SQL repositories (their isolation is the database's), and
  the user interface.
* Of jobs: idempotent admission and who owns a job; records of stages, progress,
  artifacts, domain results and lists, which no transition reads; the headless
  process's own jobs (it scans, and runs none); more than one call of `cancel` and of
  `verify_recovery` at a time for a job; more than one lost answer in a stage.  A
  starting process waits for another's scan to end.  A verifier is a choice among the
  verdicts its callers may pass and the batches it may find.  The job repository in
  memory serves tests, and the server's has no runtime beside it that recovers.
* Of the transfer: which rows a batch has and how they are read, the structure stages,
  and two rare exits of its data stage (a batch that outgrew the buffer's bound, a cursor
  without a table), so that `TransferReports` has fewer reports than the code: enough
  for the finding, and too few to check the handler for anything else.
* The components marked planned, which come next.

## 9. The plan

In this order, the most important behaviour first.

1. `ResourceManager` and `LeaseManager`: the second ledger of leases, with generations,
   rotation and draining, over the budget coordinator's permits; refinement of
   `LeaseCustody` by it.  Questions: does a rotation retire every idle lease of the old
   generation, what does disabling do to a lease in use, are handles and permits
   returned on every failing path.
2. `TunnelLedger`: a tunnel lives exactly as long as the leases that ride on it.
3. `SessionDirectory`, under the registry: epochs after a restart, attachments and
   their time to live, the replay of a replacement.  Abstract specification: a session's
   calls are answered once, in order, and none after its release.
4. `Gateway`: idempotency, tokens and retention; a request is executed at most once for
   each key, and a repeated one gets the first one's answer.
5. `ResourceBudget`: the scopes in which the desktop host takes and keeps permits for a
   driver's connections; a scope gives back exactly what it took, also when a close is
   not confirmed.
6. `DeploymentBudget` and the server's execution host; then the server's job
   repository against `JobRepository`, and the workflow engine.
7. Of jobs: the handlers of comparisons and script runs as values of `Reports`, each
   against `Honest`.

As the project grows, runs whose questions a theorem answers for every instance give
way to runs of the new modules.
