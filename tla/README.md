# Multi-agent orchestrator: verification models

TLA+ models of the control plane in `src/src/orchestrator`, the TLC runs that
check them on small instances, and theorems checked by the TLA+ proof system.
`PROJECT.json` maps every definition to the lines it stands for and lists runs,
mutants, hazards, findings and theorems.

## 1. The system

An event-sourced control plane on one SQLite event store. Every component keeps
its state as a stream of events, reads it by replay, and changes it by
`append_checked(stream, key, decide)`: one locked transaction reads the stream,
lets `decide` validate the call, and appends the events it returns. A call whose
idempotency key is in the stream is compared with what was recorded and appends
nothing. A `decide` may call other components: their appends nest in the same
transaction and commit or roll back with it. Around the store are parts that
change the world outside it, and can therefore stop half-way: a provider call, a
systemd unit, the files of a workspace, the blobs of artifacts.

| Component | State it keeps | Operations | What is hard about it | What makes it correct |
|---|---|---|---|---|
| Event store (`persistence/`, `recovery/bootstrap.py`) | the streams, idempotency records, checkpoints | append, append_checked, save_snapshot, recover | expected versions, repeated keys, nested calls that raise, crashes | streams only grow, a key appends once, recovery is replay |
| Budget ledger (`budget/`) | reservations of a Run, pinned RunLimit | estimate, reserve, mark_unknown, commit_usage, reconcile_unknown, release, reopen | concurrent processes, retries with other figures, unknown results, overruns | charges plus holds fit the envelope; answers to retries are true; unknown holds stay |
| Run lifecycle (`lifecycle/`) | Run status, node graph, attempts | append_nodes, start, pause, resume, await_user, user response, cancel, attempt accepted / completed / reconciled / cancelled | late and stale results, graph growth while running, two-step cancellation | fencing, dependency order, quiet terminal states, no stuck Run |
| Agent registry (`agents/`) | agent instance per attempt | register, complete, reconcile, cancel | cumulative against concurrent limits | agrees with the lifecycle |
| Scheduler (`scheduler/`) | global slots of all Runs | accept_routing, finish_attempt, finish_verified_attempt, acknowledge_cancellation, reconcile_attempt, expiry sweep, plan recovery | transactions over four streams, sweeps over a stale read | streams agree; concurrency limits; no success after a cancellation |
| Run recovery (`recovery/run.py`) | none: a check of all streams of a Run | recover | one Run it refuses blocks the whole startup | accepts every state the operations can reach |
| Health circuits (`routing/health.py`) | circuit per provider and per model, probe leases | record_outcome, acquire / finish / expire lease | caller-supplied times, a lease over several aggregates | leases and half-open circuits agree; only probes close a circuit |
| Provider calls, reconciliation, startup (`models/`, `provider_reconciliation.py`, `application.py`) | intent, outcome, proof and settlement of each call | record_intent, record_outcome, reconcile, bootstrap | crash between intent and outcome, proof and settlement | no call sent twice, every proof applied once |
| Tool gateway and approvals (`tools/gateway.py`, `tools/authority.py`, `approvals/`) | tool events, approval requests, grants, effects | execute; request, approve, deny, revoke, bind, consume, receipt | expiry, revocation, fencing and policy changes between check and use | a refusal holds, a start has authority, receipts are true |
| Workspace publication (`isolation/workspace_publish.py`, `workspace_lease.py`) | journal directory, lease, live tree | publish, recover, acknowledge | crash between two file operations, edits by others | all or nothing; a rollback can go on |
| Workspace operations (`tools/workspace_write.py`, `runtime/workspace_execution.py`) | operation, trace, shared and approval streams | execute, reconcile_publication | four streams and a disk that disagree after a crash | every stream tells the truth; a commit is reported |
| Artifact store (`artifacts/`) | intents, blobs, metadata, read grants | publish, read, inspect | crash and power cut between file and event; locks taken in two orders | metadata has its bytes; a grant serves one read |
| General worker and its verification (`runtime/general_worker_*`, `verification_journal.py`) | registration, turns, call, response, proposal | execute, recover | host death between launch, acknowledgement and stop; releases meanwhile | nothing runs after a release; the startup audit passes |
| Isolation launchers (`isolation/launcher.py`) | a systemd unit and its staged files | launch, wait, cancel, stop | two sources read one after the other while the unit goes on | a termination receipt is final |
| Recovery planning (`routing/recovery.py`, `runtime/recovery_*`) | classification and plan of a failed attempt | plan, continue, admit | an authorisation spent twice | spent once |
| Routing engine, configuration, policy, pricing, task planning | none (pure functions) | rank, merge, evaluate, price | | agree with their definition |
| Secret broker, worker pipes, observability, benchmarks | processes, sockets, files | | | |

Calls between the modelled components: the scheduler calls recovery (a check),
then ledger, lifecycle and registry, and appends its own event last; the
lifecycle cancels a Run in a second transaction after the first committed; the
expiry sweep calls `finish_attempt` once for each attempt of a read it made
earlier; the application recovers every Run before it is ready. The model
gateway writes the journal of provider calls; reconciliation reads it, asks two
verifiers, and calls the scheduler; the application repeats unfinished
settlements inside its startup transaction. The general worker launches units
through the launcher, sends its one provider call through the gateway, publishes
into the artifact store, and is accepted by the scheduler. The write gateway
decides as the read gateway does, then runs a candidate and publishes it under
the writer lease.

## 2. Modules

| Module | Models |
|---|---|
| `EventLog` | what the store promises, abstractly: streams that grow, a key that appends once |
| `EventStore` | `sqlite_event_store.py`, `snapshots.py` and `bootstrap.py`: transactions, savepoints, checkpoints, crashes |
| `UnitTotals` | sums of weights over a finite set as cardinalities |
| `BudgetEnvelope` | what a budget promises, abstractly: take, exchange once, fit |
| `BudgetLedger` | `budget/ledger.py` for one Run: one action per operation and per recognised retry |
| `LifecycleEvents` | `apply_lifecycle_event` and `validate_graph_append` as operators on a record |
| `RunLifecycle` | `lifecycle/controller.py` for one Run |
| `ControlPlane` | the scheduler's transactions over lifecycle, slots, agents and budget status of several Runs, the external effects of their attempts, the two-step cancellation and the sweep |
| `HealthCircuit` | `routing/health.py` for one provider and its models |
| `ProviderCalls` | the gateway's invocation, the journal of calls, their reconciliation and the startup transaction |
| `ToolCalls` | the read-only tool gateway with the approval service behind it |
| `WorkspacePublish` | the journaled publisher, one disk change per step |
| `WorkspaceWrite` | the write gateway and the operation service around the publisher |
| `ArtifactStore` | publications, inspections and reads of one content-addressed store |
| `SandboxUnit` | one systemd unit, the thread that launched it and the calls that stop it |
| `GeneralWorker` | one attempt run by a general worker beside the scheduler |
| `*Proofs` | the theorems (section 5); `LifecycleEventsProofs` holds the lemmas on the reducer that two of them use, `ToolCallsProofs` also proves the workspace, `EventStoreProofs` the circuits and the artifacts, `GeneralWorkerProofs` the units |
| `MC*` | the instances TLC checks |

How they compose: `ControlPlane` and `RunLifecycle` use the same operators of
`LifecycleEvents`, so the scheduler composes the lifecycle that `RunLifecycle`
checks on its own. `WorkspaceWrite` extends `WorkspacePublish` and shares its disk,
lease and faults. The other modules meet at an interface that one of them checks
and the other relies on:

- every module takes `append_checked` as one step on a stream; `EventStore` shows
  that it is one (`ImplementsLog`, `RecordsAreExact`);
- `GeneralWorker` lets a turn be recorded as stopped only when its unit has ended;
  `SandboxUnit` shows that of the receipts it records (`ReceiptsAreFinal`), and its
  units start and end as those of `GeneralWorker` do (`UnitsBehave`,
  `ReceiptsMeanStopped`);
- `ProviderCalls` with `Owned` relies on the release rules that `GeneralWorker`
  models whole, and `GeneralWorker` on a call being sent once (`DispatchedOnce`);
- `ControlPlane` sees of a budget the status of a reservation; `BudgetLedger` has
  its amounts.

**EventStore.** `db` is the committed database, `work` what the open write
transaction sees, `writer` who holds SQLite's write lock, `stack` the
`append_checked` calls that transaction is in. A frame remembers the database at
its savepoint, and a callback that raises goes back to it; the caller may catch
the error and continue. A crash drops `work`. `basis` in an event is the version
its author decided on: with it the log can say that no event was decided on a
stale read. Reads take one snapshot and are states of `db`.

**BudgetLedger.** `ledger[r]` is what `_replay_states` makes of the stream for
reservation `r`; `booking[k]` is the reservation first reserved under key `k`;
`envelope` is the limit of the first `BudgetReserved` event; `configured[p]` is
the `run_limits` a process was constructed with. `answer` is the last call that
returned without an error; it exists so that a retry's answer can be compared
with the ledger. The six limited quantities are members of `Dim`.

**RunLifecycle.** `life` is the `RunLifecycleState`; `pausedFor`, `resumed` and
`asked` are the idempotency keys the stream has seen, where a key decides
whether a call appends; `result` is a history variable, the last result
recorded with the generation that sent it. Fencing generations are positions
in a node's sequence of attempts, as `record_attempt_accepted` numbers them.

**ControlPlane.** One action is one committed transaction. `slot[r][a].finish`
is the payload under the `finish:` key, which completions and sweeps share;
`hold` is a reservation's status: amounts are the business of `BudgetLedger`, so a
refusal for lack of budget is a call that does not happen. `effect[r]` holds the
attempts of `r` whose external effect has an intent and no receipt: an intent needs
the authority of a current attempt, a receipt only the intent, and the scheduler looks
at neither. `Recovers` is the check of `RunRecoveryCoordinator`: the four streams agree
(`StreamsAgree`), no attempt that ended has such an effect (`LeftUnresolved`), and no
route is one the replay of the scheduler stream refuses (`Probed`); an acceptance and
a verified completion need it. `completing` holds Runs
between the two transactions of `request_cancel`, `sweep` the remaining work of an
expiry sweep. Event times are chosen by callers: any active lease may look expired
to a sweep, and a result may carry a time before the expiry although it arrives
after. `Graph` lists the graphs a Run may start with, which stay as they are
(verification binds the graph version); growth is checked in `RunLifecycle`.

**HealthCircuit.** `circuit[a]` is the replay of aggregate `a`; `replays` says
whether it can be replayed at all, `atGrant` whether its version still is the
one a lease names (versions only grow, so equality with the recorded one is all
that is kept of them). `failures` keeps the newest `OpenAfter` times, since only
thresholds up to `OpenAfter` are asked. `Recent` is the filter of the reducer: its
result is the rest of the sequence after the times beyond the window, which come first
because times never decrease in a stream that replays (`FailuresInOrder`). `swept` records at which times a
caller's `expire_probe_leases` has returned, which `acquire_probe_lease` needs
first.

**ProviderCalls.** `stream[c]` is the event stream of call `c`, a call scope
being an attempt and a request id; `Status` is `_project_call`. Every journal
operation reads a stream and appends under its version, so it is one step, and
anything may happen between two of them: `gateway[i]` and `recon[r]` hold what a
task or a host call took along across an `await` or between two transactions,
and each may die at any stage. `wire[c]` is the request outside: not sent, under
way, lost, arrived while its sender still waits, or arrived and its sender gone;
`sent[c]` and `said[i]` are history. An attempt is seen through the scheduler:
its status and the figures `reconcile_attempt` compares a repetition with.
`Owned` says whether calls are made under `SchedulerProviderDispatchAuthority`:
then an intent is recorded only for an accepted attempt without another call,
and an attempt is released or reconciled only as its call allows
(`_validate_general_release_authority`). When it is false the host ends attempts
as it likes, which is all the code asks of it. Taken from outside: evidence is
authoritative and final and a termination witness is truthful (the contract of
the two verifiers), every attempt belongs to a Run of its own, and a reserved
call of a general worker is present as the task that invokes it.

**ToolCalls.** A call of `execute` is a process with a step: record the request,
ask for approval, check again, bind, consume, start, launch, wait, record.
`tool[q]` is the security stream of the request, `approval[q]` and `effect[q]` are
the streams of the approval service, `ran[q]` is what really happened. Between any
two steps the attempt may be fenced, the policy may change, an approver may deny or
revoke, a grant may expire and the process may die. All requests ask for the same
command, so any grant is in scope of any request: the worst case for sharing one.

**WorkspacePublish.** `tree[e]` is the workspace at entry `e` of the change set
relative to it: as before, half-made, as after, or edited by somebody else.
`journal` is the transaction directory, `place` the record an apply or a rollback
is at. Whoever holds the lease is the only one to act, so one variable `phase` is
its place in the code. The check of an entry against its backup and its
installation are one step; schema-1 journals are not written by this code any
more; a damaged backup is not modelled.

**WorkspaceWrite.** `trace[o]` is what the Run's security and budget streams say of
operation `o`, `shared[o]` what the two streams of the workspace say, `stream[o]`
and `result[o]` are the operation's own stream, `unit[o]` is the isolated candidate.
Every append is a step of its own and may fail; the thread may die between two. What a
failing append leads to differs: an audit failure ends the call and leaves the
operation as it is (`AuditFails`), a failing effect receipt is an `ApprovalError`, which
the gateway and the service take for an unknown execution (`ReceiptFails`), and the
terminal of such an execution is written at best effort (`UnknownFails`).
`Reconcile` gathers the evidence of `_publication_reconciliation_evidence` and
either completes, aborts or leaves the operation as it is. The code reads the streams
before it takes the lease and reads the resolutions and the journal again under it
(`runtime/workspace_execution.py:369`, `:399`); in the model this is one step.

**ArtifactStore.** `blob[d]` is `linked` when the file is in the directory and
`synced` when the directory is on disk; a power cut loses what is only linked.
`flock[d]` is the lock of a digest and `storeLock` the write lock of the event store:
the recovery of a Run takes the second and then the first, a publisher the other
way round, and only SQLite's busy timeout (`AppendTimesOut`,
`sqlite_event_store.py:94`) ends the embrace.

**SandboxUnit.** `state`, `populated` and `transport` are systemd's view, the
cgroup and the `systemd-run` client. A wait and a stop read them in several steps,
and the unit goes on in between. `prepared` distinguishes launches from a prepared
identity from others, `acked` is the launch receipt, `proved` a termination receipt
that somebody was given. A `systemctl` that fails or times out gives no receipt
(`ReadFails`), and a `wait` interrupted anywhere before it has stored its result kills and
raises (`Interrupted`). A `systemd-run` killed from outside while its D-Bus request
is queued is not modelled.

**GeneralWorker.** `op` is what the journal's stream replays to, `unit[l]` the
unit of turn `l`, `host[c]` the place of an `execute()` or `recover()` call with the
operation it read, `owner` the flock of the operation, `permit` the process-local
dispatch permission. A call holds its event loop between two awaits (`Scheduled`,
`Free`), but each transaction is a step, since the process may die between two and
other processes do not share the loop. The scheduler fails, cancels, expires,
reconciles or accepts the same attempt whenever its own checks allow it, the host
may be rebooted, and the graph may grow. The sender of an abandoned or crashed call
goes on, so the provider may receive the request later (`ReceivedLate`), until the
proof, which needs the sender's termination (`ProviderCalls`).

## 3. Runs

| Run | Shows | Bounds and why they are enough |
|---|---|---|
| `event_store` | database exact, recovery is replay, refinement of `EventLog` | 2 processes, 2 streams of one id, 3 keys, 2 bodies of which one is admitted once, streams to 3, nesting to 2: a key in both streams, a conflict inside a savepoint whose caller goes on |
| `budget_ledger` | truthful answers, unknown stays held, refinement of `BudgetEnvelope` | 3 reservations, 3 reserve keys, 2 settlement keys, 2 processes, 2 dimensions; two estimates of 1 and one of 2 against a limit of 3, a usage that overruns: a hold, a charge and an unknown result compete for the last unit |
| `run_lifecycle` | work remains, one active attempt, results hit their attempt, outcomes are final | 3 nodes, depth 2, 2 attempts, 1 request: chains, forks and joins, a retry and an exhausted node |
| `health_circuit` | leases against circuits, state against window, only probes close | provider and 2 models, 2 leases with two durations, clock to 2, window 1, event times up to 1 old: a lease can cover provider and model, then another model, and a stream can be poisoned in every state |
| `control_plane` | the streams agree while sweeps race, concurrency limits, no success after a cancellation | 2 Runs of 2 nodes, either independent and tried once or a chain whose first node is tried twice; the first node uses the tool with its effects; Run limit 1, tool limit 1, system and provider limit 2, 2 agents in all: two nodes compete for their Run's slot, two Runs for the tool, the third attempt of a chain meets the cumulative limit. The system's and the provider's limit bind no earlier than the Runs' here; the theorem has every value. 1 sweeper with 1 time: a completion, a cancellation or a declared unknown result wins between the read of a sweep and each of its transactions. `health_probe` routes and rival sweeps with different times are left to the theorem, which has every value |
| `provider_calls` | sent once, true records, settled as proved, no sender after release, startable, proofs settled | 2 calls of one attempt under the dispatch authority, 2 tasks, 2 host calls, 2 charges, 2 times: rival claims, rival proofs, late outcomes |
| `tool_calls` | refusals hold, records are true, starts have authority | 3 requests of which 2 execute at once, 2 attempts, 2 policy versions of which one denies, both rules: a grant shared, bound twice, revoked, outdated and fenced in between |
| `workspace_write` | whole tree, rollback never stuck, records match the tree, candidates alone, commits reported | 2 operations, one approved; 5 entries (a new directory with a file, a changed file, a deleted directory with its file), 2 faults out of failing calls, failing appends, crashes and edits by others: a rollback that is itself killed, a commit whose receipt and whose terminal both fail |
| `artifact_store` | bytes survive, reports are over, one read per grant, recovery ends | 2 publications of one digest, a recovery and an inventory, 2 readers of 1 grant, 2 faults and 1 power cut |
| `general_worker` | startup audit passes, nothing runs after a release, no effect is true, acknowledged turns stop | 2 calls of one process, 3 turns (the code's `MAX_TURNS`), 2 faults: a repeated first turn, a crash during the recovery from a crash, a request received after its call was abandoned |
| `sandbox_unit` | receipts are final, stops get proved | a waiter and 2 stops: a wait, a stop through the session and one without it |
| `run_resume` | the disagreement of section 6, a counterexample | 1 node, 2 pause reasons |

Bounds named in the modules: `MaxNodes`, `MaxDepth`, `MaxAttempts`, `MaxAgents` and
`MaxTurns` are frozen limits of the program itself; `MaxTime`, `MaxLen`, the
`MaxDepth` of `EventStore`, `MaxAttempt`, `MaxPolicy`, `MaxCalls`, `MaxFaults` and
`MaxCuts` bound the exploration only. Symmetry is over identities that no
definition distinguishes and is used with invariants and action properties only.

Deadlock is checked in `budget_ledger` and `general_worker`. The others stop
legitimately: a Run that has ended takes no more events, with late event times every
circuit may be poisoned with the clock at its bound, streams may be full, calls,
publications and units may all be over.

Fairness. No liveness is claimed of the scheduler, the ledger, the circuits or the
approvals: nothing in the package calls a sweep, a reconciliation or a second
`request_cancel` by itself; every one is a call of the embedding program. Where
liveness is claimed, the fairness is this:

- `ProviderCalls`: weak fairness of `Startup`, the host that opens the control plane
  again after a failure (`ControlPlaneApplication` settles in its constructor). No
  task, host call or provider is fair.
- `WorkspaceWrite` and `ArtifactStore`: weak fairness of one action, `Progress`:
  threads that are alive go on, units end by their time limit, the operator repeats
  `reconcile_publication`, the busy timeout of SQLite fires. Faults are never fair
  and are bounded.
- `GeneralWorker`: weak fairness of each call (the host repeats `recover`) and of
  `UnitEnds` (`RuntimeMaxSec` in the unit's properties).
- `SandboxUnit`: systemd completes what it was asked, stops are repeated until one
  returns a receipt, and from some time on `systemctl` answers: one that fails for ever
  can prove nothing.

## 4. Properties

*Event store.* `ImplementsLog` and `RecordsAreExact` are what every other module
assumes: that a nested call which raises takes back its own events and no others,
with its version counters and idempotency records. `RecoveryIsReplay` is about
checkpoints taken inside transactions.

*Ledger.* `AnswersAreTrue` is about retries; `UnknownStaysHeld` about races
between release, settlement and reconciliation; `ImplementsEnvelope` says that all
of it fits what the first reservation pinned, and that nothing is settled twice.

*Lifecycle.* `RunningHasWork` (no Run is left running with nothing to do) rests
on acyclic graphs and on the trailing conclusion check; `OneActiveAttempt`,
`ResultsHitTheirAttempt` and `OutcomesAreFinal` are about late results.
`DependenciesFirst`, `TerminalIsQuiet` and `TerminalForever` are proved and no
longer run.

*Control plane.* `RunsAgree` says that the four streams agree after any
interleaving in the sense of `RunRecoveryCoordinator`; startup, acceptance and
verified completion depend on it. It leaves the coordinator two causes to refuse a Run,
an effect that an ended attempt left without a receipt and the route of a health probe;
that there is no such Run is false (section 6). `WithinConcurrency` counts by the budget's
holds, not by the slots the code counts. `NoSuccessAfterCancel` is what the
startup audit of success proofs assumes.

*Health.* `LeasesCoverHalfOpen` relates the coordinator stream to the
aggregates; `OnlyProbesClose` excludes that a late success of an ordinary call
closes an open circuit; `StateFitsWindow` ties a state to its window.

*Provider calls.* `DispatchedOnce` and `RecordsAreTrue` relate the journal to the
outside; `SettledAsProved`, `AlwaysStartable` and `ProofsGetSettled` are about a
crash between proof, settlement and marker; `NoSenderAfterRelease` is about slots.

*Tools.* `RefusalsHold`: a denial or revocation that reported success is never
followed by a start under that approval, whatever call was between its checks and its
reservation. `RecordsAreTrue`: a receipt or an end in a stream is true of the command,
and a grant starts one command. `StartsHaveAuthority`: a fence or a new policy that
committed first wins over a start decided before it. A grant that was consumed and
executed may later be recorded as expired or revoked, by a second use of it
(`approvals/service.py:432`): the property does not forbid that.

*Workspace.* `TreeIsWhole` and `RollbackIsNeverStuck` are about the disk alone,
`RecordsMatchTree` about what four streams say of it, `CandidatesRunAlone` about
candidates that outlive their controller, `CommitsGetReported` about crashes and
failing appends after the commit marker: the commit is published in the end, or its
outcome is on record as unknown, in a terminal or, for an approved operation, at least
in the operation's result.

*Artifacts.* `PublishedSurvive` is restricted to the publisher that linked the
file (section 6); `ReportedAreOver` is what makes it safe to clean up what recovery
reports; `ReadsAreServedOnce` and `RecoveryEnds` are about two users of one lock.

*General worker.* `StartupAuditPasses` is the check of `_validate_success_proofs`
and of the operations' journals at startup, against every interleaving of releases,
graph growth and crashes. `NothingRunsAfterRelease` and `NoEffectIsTrue` compare the
scheduler's release with the units and the provider. `AckedTurnsStop` is the promise
of recovery.

*Units.* `ReceiptsAreFinal` has to hold against a `systemd-run` that submits late
and a unit seen stopped before it starts; `StopsGetProved` says that the checks are
not so strict that a stop fails for ever.

## 5. Proofs

Assumptions: `DomainAssumption` of the ledger (finitely many reservations, natural
amounts), `BoundAssumption` of the lifecycle (natural bounds, `None` is no
request), `ControlAssumption` of the control plane, `CallAssumption` of provider calls
(each call has an attempt, charges are natural numbers), `StoreAssumption` of the
event store (drafts are not empty, `None` is no process, record or checkpoint),
`PolicyAssumption` of the circuits (positive thresholds, `open_after` above
`degrade_after`, natural durations, the provider is no model),
`ToolAssumption` (`None` is no request, attempt or outcome), `ArtifactAssumption`
(publications and grants name a digest, `Nobody` and the inspections are no
publication), `PublishAssumption` (`Nothing` is no operation, lease or word; an entry in
an added directory comes after it and one in a deleted directory before it, the order
of `_record_order`, and changes as the directory does), `WriteAssumption` (what is
approved are operations) and `WaiterIsNoStopper` of units. Nothing else: the theorems
hold for every set of processes, keys, dimensions, amounts and limits, for every change
set, and for every graph, finite or not.

`BudgetLedgerProofs` proves `TypeCorrect`, `EnvelopeKept`, `UnknownHeld`, `ClosedStays`,
`AnswersTrue`, `OneCharge` and `LedgerRefinesEnvelope`. The inductive invariant is `TypeOK /\
WithinEnvelope`: a reservation is checked against what is left of the limit
*truncated at zero*, so a step preserves the envelope only when it held before,
and the type invariant's last conjunct (no reservation without an envelope)
starts the induction when the first reservation pins the limit. The arithmetic is
on `Total`, the cardinality of a union of disjoint unit sets; its lemmas come first: a total is a natural number, a pointwise sum adds, a change at
one member changes the total by the difference. Refinement: a step maps to
`Hold`, `Close` or a stutter, and `Within` of the abstract module is
`WithinEnvelope` after the step. For the answers, `KeyInv` adds that a reservation has a
settlement key exactly when it is committed and that a booked reservation exists.

`RunLifecycleProofs` proves every property the `run_lifecycle` run checks, and three
more. `LifecycleEventsProofs` describes the reducer: one lemma per event
(`AppendFacts`, `AcceptFacts`, `EndFacts`, `CancelFacts`, ...) says what the event does
to the fields of a projection, and `ConcludedFacts` what the trailing check may do to
the status. None of the later steps opens the reducer again.

- `IInv` is inductive: the types, `Ordered` (`DependenciesFirst`), `Accounted`,
  `Stands` and `TerminalIsQuiet`. `OneActiveAttempt` alone is not inductive: nothing
  in it says that a blocked node has never been tried or that all attempts of a
  ready node have failed, so releasing or retrying one could break it. `Accounted`
  adds both. `ResultsHitTheirAttempt` needs the recorded generation to be one the
  node has had, or an acceptance could move it.
- `TerminalForever` uses `TerminalIsQuiet`: `record_attempt_completed` does not look
  at the Run's status, and it is the absence of an active attempt that keeps a late
  result from touching a Run that ended.
- `RunningHasWork` needs more (`WInv`): the graph is closed under dependencies and
  can be ranked (`Rooted`, kept by `validate_graph_append`), a started Run has a node
  and only a cancelled one has cancelled nodes (`Peopled`), and the trailing check
  lets a Run run on only with something left to do (`Unfinished`). The argument is
  `NothingBlocked`: of the blocked nodes, one of least rank has an unfinished
  dependency, which can be neither blocked (its rank is lower), live, failed,
  cancelled nor absent.

`EventStoreProofs` proves every property the `event_store` run checks, for any number
of connections, streams and keys, any length and any depth of nested calls. A database
is `Sound` when its records are exact and each checkpoint is the fold of the events up
to its version. That `db` is sound is not inductive: a nested call that raises goes
back to the database its frame saved, and the outermost one commits what is left. The
invariant therefore says of `work`, and of the database saved in each frame of the
stack, that it is `Reached`: sound and grown from `db` (`Grew`: every stream of `db` is
a prefix, and what follows has keys for which `db` has no record). `AddedExact` is the central
lemma: an append that passed the version and the key check leaves exact records
exact, the old ones because their range ends before the new events and the new one
because it names them. `StoreImplementsLog` takes a commit to one step of `EventLog`
and everything else to a stutter; that a commit only adds, and only under keys
the log has not seen, follows from `Grew` and exactness.

The same module proves every property the `health_circuit` run checks, for any number
of models, leases and callers whose event times lag by any `Skew`, and every policy
that `PolicyAssumption` admits. `LeasesCoverHalfOpen` is inductive once the types are known: a grant takes
open circuits, which have no lease, and the compare-and-swap of a result touches
exactly the circuits of its lease. `RecordedSound` is where a time that runs backwards
is dealt with: such a circuit keeps its state and replays no more. That the reducer's
filter keeps the newest failures needs their order (`InOrder`), from which
`StaleFirst` derives, by counting, that the ones beyond the window are the first
ones; `StateFits` then needs no more than that a filter never adds. `ProbesAlone`
follows step by step: an ordinary outcome leaves an open or half-open circuit in these
two states (`Outcome`), and only a probe result in time closes it.

`ProviderCallsProofs` proves every invariant the `provider_calls` run checks. The type
invariant needs `StagesFilled` (a task or host call past its first stage knows its
call, and the outcome or proof it will record), or an append could leave the set of
events. `DispatchedOnce` is not inductive: a task about to send says nothing about the
counter. `ClaimInv` ties stream, claim and counter together: a call without a
stream has no owner and was not sent, an owner has not sent its call, and a call
has one owner. Only `RecordIntent` makes an owner and only `Transmit` sends; every
other step only has to leave streams non-empty and owners fewer (`NothingSent`).

The other invariants rest on `CallInv`. `History` lists the streams the journal can
write. `Truthful` extends `RecordsAreTrue` to what is not yet recorded: an outcome a
task is about to record and a proof a host call has verified are true when they are
made and stay true (`SaysStays`), which is why it does no harm that the append comes
later or not at all. `Settling` says what a reconciliation rests on at each stage: its
attempt is unknown or reconciled for good, its proof is in the journal before the
attempt is settled, and the attempt has the proof's figures before the marker is
written. `Held` is about the dispatch authority (`Owned`): an attempt has one call
(`OneCall`), so the call by which it is released or reconciled is the one that
might still have a sender (`LetGo`), and its figures come from that call's proof, which
makes every repeated settlement the same one (`FiguresAreProved`). The proof has two
halves: each action is reduced to its `Effects` on the gateway, the wire, the
journal, the attempts and the reconciliations, and each part of the invariant is
shown to survive those effects. `JournalIsTrue` and `ChargedAsProved` hold with and
without the authority. `ReleasedIsQuiet` and `StartupAccepts` have `Owned` as their
premise, and the second one that no charge exceeds the envelope; without them they
are false (section 6).

`GeneralWorkerProofs` proves every invariant the `general_worker` run checks, for any
number of calls, turns and faults. The invariant `IInv` has five parts without a
premise. `Recorded`: every turn but the one being launched has ended on record
(`Shape`), a unit recorded as stopped has stopped, and a unit beyond the recorded turns
was never asked for. `Placed`: a call between two of its steps holds an operation of
the phase its place in the code needs; without it an append could go anywhere.
`Provided`: a call on its way is `dispatching` and has one sender, an operation points
to a call, a response and a proposal that are there, and a proof says what the provider
received. `Settling`: what a release and an acceptance leave behind. From these follow
`NoEffectTrue` and `SuccessesProved` for any number of processes. The others need
`Fenced`: a call between its second check and the intent of its turn finds the slot
active, so no attempt is released over an open turn. That is kept by the event loop
alone, and only when one process runs all calls and releases; `AuditPasses` and
`NothingRuns` have `SoleProcess` as their premise, and with two processes they are false
(section 6). An action is reduced to what it does to the operation (`OpMoves`), to each
call (`Settles`) and to the evidence, and `Kept` shows once that this is enough.

The same module proves `UnitTypeCorrect` and `ReceiptsFinal` of `SandboxUnit`, for any
number of stops. There the invariant is `Established`: what a thread has read stays true.
Only threads that know the unit to be submitted (`Submitted`) look for its end; one that
has seen it over knows that it is over for good (`Gone`); one that has then read the
empty cgroup knows that nothing is left of it (`Final`), which a receipt and the deletion
of the files need. Each step of systemd is shown to keep what a thread may have
established. `UnitsBehave` and `ReceiptsMeanStopped` join the two: `Stage` maps the
state of a sandboxed unit to what a turn of the general worker sees of it, every step
maps to `UnitStarts`, `UnitEnds` or a stutter, and a unit with a receipt maps to a
stopped one.

`ControlPlaneProofs` proves `TypeCorrect`, `StreamsAlwaysAgree`, `LimitsHold` and
`SuccessNeverLate`, from `ControlAssumption` and `BoundAssumption`. The invariant `CInv`
has three parts. Each lifecycle is sound (`States`, `Ordered`, `Accounted`, and idle
once final), which the reducer lemmas of `LifecycleEventsProofs` give for every event.
For every attempt the four streams agree (`AgreedAt`); a transaction touches one attempt
and moves its four records together, and an attempt that is not touched keeps its
agreement because the events of other nodes leave it alone. What callers hold between
two transactions is still true when they go on, or harmless (`AsideOK`). The limits
(`Fits`) are about finite sets: opening an attempt adds one member to each set it
belongs to after the code compared their sizes, closing removes one, a move between
statuses adds none; that the code counts slots while the property counts holds is
bridged by `OccupiedIsActive`. None of them has a premise: `StreamsAlwaysAgree` holds with
and without health probes and whatever effects are left open, since an acceptance or a
verified completion that the coordinator refuses does not happen and nothing else asks it.

`ToolCallsProofs` proves, in its first half, `TypeCorrect` and all three properties of
the `tool_calls` run from `ToolAssumption`. A property such as `RefusalsHold` relates a start to an approval, so
the invariant `Kept` says what each call between its steps may rely on: `Placed` (one
call of a request is between decision and end, and it has not started or has started
as itself), `Decided` (the decision it goes by and the version of its grant) and, for
grants, `Granted` (one that was consumed was given and is not withdrawn) and `Sole`: a
request that executes under a grant, *or is about to*, consumed it and is the only one.
Without the second half nothing keeps two calls apart between reservation and start.
`Frame` is the lemma every action goes through: whoever does not move keeps what it
relies on because grants only grow (`Grows`), and a step of one call can take a grant
only when nobody has consumed it.

The second half proves the four invariants of the `workspace_write` run, for every set
of operations, every change set and any number of faults, except that one of them takes
another form (below). `WriteInv` is the inductive invariant; TLC checked each part of it on
the run's instance first. None of the properties is inductive. `TreeIsWhole` says nothing
of a tree while the journal says `prepared`, so `TreeFits` describes it there: while an
apply is at record `place` the entries before it are as after, the one at it may be
half-made and the rest are as before (`AppliedSoFar`); a rollback undoes from the other
end (`RestoredSoFar`); and an entry somebody edited stays edited. `JournalFits` ties
the state of the journal to the place in the code of whoever holds the lease, `Leased`
that place to the lease, and `JournalProves` what a committed or rolled-back journal
left behind says of its operation to what happened to the tree. `RecordsMatchTree`
relates a record to a change that may lie many steps back, made by a thread that died;
`Spoken` adds what is not yet recorded: before an operation's commit nothing in the
four streams claims a publication, and what a thread is about to append is true when it
reads it and stays true, so it does no harm that the append fails or that
`Reconcile` makes it later. `Alone` gives each candidate one place in the shared streams:
as long as its stop is not recorded it occupies the workspace (`Occupied`), whatever
happened to its controller. There is a lemma for each action, and frames
(`TreeStays`, `JournalStays`, `SpokenStays`, `RecordsStay`, `AloneStays`) for the parts it
does not touch.

`RollbackIsNeverStuck` is stated with `ENABLED`. `RollbacksGoOn` proves the same with the
guard of each step written out (`RollbackGoesOn`): unless somebody edited an entry, a
rollback finds a file or directory it can restore, an added directory is empty when its
turn comes, and a deleted one is there again before its entries are put back. This
is where the order of the records is used.

The last part of `EventStoreProofs` proves the three invariants of the `artifact_store` run, for any
number of publications, digests, inspections, readers and grants, through any faults
and power cuts. In `ArtifactInv`, `DigestsLocked` says that the lock of a digest belongs to
its one busy publisher or to an inspection (`DigestsExclude`), and `PublishersLeave` what a publisher
has left on disk and in its stream at each place. The reason that published
bytes survive is there: a failing publisher removes a file it installed only while it has no
intent, and before its intent it has installed none. `ReportedAreGone` strengthens
`ReportedAreOver`: an inspection looks under the lock, so whoever it reports is past its
last append. `ReadsAreGranted` says what a reader may still rely on without a lock.

Model-checked only: the liveness properties, and `RollbackIsNeverStuck` in the form with
`ENABLED`. Every other property of a passing run is a theorem. Type invariants are
proved where there is a proof module, and are then not run. Out of the prover's reach:
liveness under fairness (`ProofsGetSettled`, `CommitsGetReported`, `RecoveryEnds`,
`AckedTurnsStop`, `StopsGetProved`), `ENABLED` (`PausedCanResume`, `RollbackIsNeverStuck`,
`DueLeaseCanExpire`), and what a recursive definition computes for every input.

## 6. Findings

`run_resume` is kept as a run: `PausedCanResume` fails, because the idempotency key of
`resume_run` has no reason and a Run resumes once (`lifecycle/controller.py:354`).

Nine further disagreements have their property in the modules and are reproduced with
the instance given here; they are not kept as runs of their own.

| Property | Instance | What happens |
|---|---|---|
| `HealthCircuit!DueLeaseCanExpire` | `MCHealthCircuit` as it is | An outcome recorded on a half-open circuit makes its lease unfinishable (`routing/health.py:671`), and every later probe acquisition fails with it, since it runs the sweep first (`:443`). The design returns an expired lease's circuit to `open` (`2026-09-11-presets-routing-design.md:330`). |
| `ControlPlane!SweepSurvivesRaces` | `MCControlPlane` as it is | A completion that wins raises `SchedulerError` (`scheduler/core.py:1340`), which the sweep does not pass over; the comment at `:1591` says that it does for such a race. |
| `ControlPlane!EffectsHoldSlots` | `MCControlPlane` as it is | `finish_attempt` and `finish_verified_attempt` do not look at the attempt's effects, so one whose effect has no receipt gives up its slot and reservation (`scheduler/core.py:1392`); the design says that they "remain held" (`docs/superpowers/specs/2026-10-05-p3-cross-process-crash-matrix-design.md:74`). The coordinator then refuses the Run (`recovery/run.py:188`), and with it every startup (`application.py:217`), until the receipt is recorded. That it refuses such a Run is documented (`docs/security/run-recovery.md:24`). |
| `ControlPlane!EveryRunRecovers` | `MCControlPlane` with `ProbesRouted = TRUE` (fails for the effects above without it) | Acceptance exempts the action `health_probe` (`scheduler/core.py:386`) that recovery refuses (`recovery/run.py:549`). |
| `ProviderCalls!ProofsGetSettled` | `Envelope = 1` | A proof with a charge above the envelope is persisted first and then refused by the ledger (`provider_reconciliation.py:436`), and every startup fails on it (`application.py:169`). |
| `WorkspaceWrite!AbortsGetReleased` | `MCWorkspaceWrite` as it is | A rolled-back journal is acknowledged by neither the gateway (`retain_publication`) nor the service (`runtime/workspace_execution.py:313`), and blocks every later write (`tools/workspace_write.py:285`); `workspace_publish.py:502` says that such evidence is released. |
| `WorkspaceWrite!CommitsStayReconcilable` | `MCWorkspaceWrite` with `MaxFaults = 1` | An effect receipt that fails after the commit marker is an `ApprovalError` (`approvals/service.py:773`), which the gateway takes for an unknown execution (`tools/workspace_write.py:386`); the service finishes the operation as `outcome_unknown` (`runtime/workspace_execution.py:293`), and from then on `reconcile_publication` only repeats that (`:902`), while the journal blocks every later write. A comment says that after an audit failure the committed journal is available for reconciliation (`tools/workspace_write.py:653`). |
| `ArtifactStore!RecordsHaveBlobs` | `MCArtifactStore` as it is | A publisher that adopts the file of one that died does not sync the directory (`artifacts/store.py:681`); after a power cut the metadata has no bytes, against `store.py:3`. |
| `GeneralWorker!StartupAuditPasses` | `Calls = {c1}`, `Processes = {p1, p2}`, `ProcessOf <- TwoProcesses`, `MaxFaults = 0` | The second check of eligibility and `prepare_turn` are two transactions (`runtime/general_worker_execution.py:334`); a release by another process in between leaves a released attempt with an open turn. Within one process the event loop excludes it. |

The models contain more that a reader of the documents would not expect. `pause_run`
and `await_user` commit while an attempt is running (`lifecycle/controller.py:356`).
Event times of circuits are not compared when they are written, so two callers that
commit in the other order than they read the clock leave a stream that no longer
replays (`routing/health.py:390`; `replays` in `HealthCircuit`). Outside the dispatch
authority an attempt may have several calls, and settling one of them releases what the
others still hold, after which startup refuses (`application.py:263`); under the
authority an attempt has one call, and `provider_calls` shows that this is enough.
`_publication_committed` is true as soon as the intent is recorded, so
`_remove_new_object` never runs with a readable store (`artifacts/store.py:1043`). By
design some states wait for a person for ever: a launch that was not acknowledged, a
reserved call without an intent, a success that arrives after its attempt expired, a
gateway outcome `unknown`.

## 7. Not modelled, and the plan

Inside the modelled components: estimate arithmetic, legacy payloads, currency
and approval checks of the ledger; policy manifests and planning contracts of
the lifecycle; agent parents and depth; plan_attempt_recovery and authorised
retries; artifacts in recovery, and of an external effect more than whether it has
its receipt; several providers and a
policy that changes between events in the circuits; preflight checks, encoding
and credentials of the gateway; row hashes, schema migrations and the read-only
connection of the event store; verifier proposals at startup; command lines, limits
and captured output of units, and the overlay launcher; frames and hashes of the
general worker's protocol.

Whole components without a module: the snapshot of a workspace and its views
(directory walking), the worker runtime and the secret broker (pipes and sockets),
the routing engine, configuration, policy, pricing and task planning (sequential
pure functions), observability and benchmarks, identifiers. They keep no state that
several actors change, so a model would repeat them line by line.

Next, in order:

1. `RecoveryPlan`: classification, an authorisation consumed once, continuation; the
   agreement of acceptance and recovery on retries (`scheduler/core.py:380`, `:649`).
2. Routing, policy merge and pricing as operators against reference definitions.
3. An abstract atomic write that `WorkspaceWrite` implements up to a commit marker, and
   an abstract approval that `ToolCalls` implements; both invariants are there.
