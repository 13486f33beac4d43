# Models of the LOTO forecast platform

TLA+ models of the parts of the platform that coordinate: processes, threads and
services that share a database, a GPU, a directory or a lock. Each model is
translated from the Python source under `src/src/loto/` (and, for the grid search,
`src/components/loto_forecast_engine/`); TLC checks small instances, and every
safety property that a run checks is also proved for instances of any size. Paths below are relative to
`src/src/loto/` unless they begin with `docs/` or `components/`.

## The system

The platform trains and compares forecast models (statistical, neural,
foundation models) on lottery series and keeps evidence of every run. Most of
its 1.3 million lines are adapters, certification matrices, numeric code,
configuration and archived evidence. What remains is a handful of coordinating
components:

| Component | State | Operations | Interacts with |
|---|---|---|---|
| Run lifecycle (`run_lifecycle/`) | aggregate, event log, idempotency records, leases and a fencing counter per run | `execute` with an effect handler; `acquire`, `renew` of a lease; replay | several services and lease keepers over one repository |
| Resource scheduler (`orchestration/resource_scheduler_impl.py`) | a CPU semaphore, a semaphore per device, an exclusive gate, counters | `acquire`, `release` | the threads of the broad campaign |
| GPU supervisors (`gpu_exclusive/`) | a lock file; local progress of one run | `run` of the exclusive and of the adaptive supervisor | request gate, LLM runtime, `nvidia-smi`, the forecast process |
| Webhook store (`github_webhooks/store.py`) | deliveries, outbox, dead letters, status history in SQLite | `store_delivery`, `claim_ready`, `complete_claim`, `recover_processing` | the dispatcher's workers |
| Downstream commit (`orchestration/pipeline_downstream_*.py`) | journal, receipt and lock files; six downstream systems | `prepare_downstream_commit`, `execute_downstream_commit` | registries, MLflow, artifact store, event log |
| Broad campaign (`orchestration/resource_aware_broad_campaign_impl.py`) | a thread pool, `FINAL.json` of each task, `SUMMARY.json` | plan, block, run a task, time out, summarise, resume | resource scheduler, child processes, the checked out revision |
| Registry transactions (`autogluon_campaign/`, `sktime_campaign/`) | a JSON document behind an `flock`, evidence directories | bootstrap, commit or activate, verify, retry | approval artifacts, operators |
| KPI lab (`kpi_lab/`) | a hash chained ledger, a report, the state of one search | `run` to a terminal state | proposers (grid, LLM), labs of the same second |
| Grid search (`components/loto_forecast_engine/`) | task rows, run rows, an event log in PostgreSQL | `grid-create`, `grid-run` | model adapters, other runs of the grid |
| Weighted scheduler, probabilistic and harness leases | semaphores, lease tables | acquire, release | trial processes |
| Governance (`promotion_governance/`, `evaluation/prediction_seal.py`) | one record | transitions | command lines |
| Ledgers (`data_access_ledger/`, `pipeline_ledger_*`) | records of data access | record, validate | pipelines |
| API, telemetry, clock health, dashboards | metrics, buffers | handlers | operators |
| Models, adapters, statistics | none that outlives a call | numeric functions | third-party libraries |

`PROJECT.json` lists every component with its sources and status.

The hard behaviour, and so what the properties are for:

* **Reads that are old when used.** `execute` decides on an aggregate, runs a
  handler of any length, and commits what it decided; a lease is checked and
  saved in separate calls; the saga looks for its receipt before it has the lock.
* **Death between two writes.** A webhook worker dies with its claims, the saga
  between an effect and the journal, a supervisor with its forecast running.
* **Late and lost answers.** A POST that takes effect and fails for its caller,
  an LLM that stops after the deadline, a worker that answers a claim it lost.
* **Partial acquisition.** An exclusive task that drains some slots and times out.
* **Old processes beside new ones.** A killed campaign's children, two labs of one
  second, a grid that is created again under a run of it, a request that is retried
  after others have moved the registry.
* **Claims in files.** Evidence directories, `FINAL.json`, `report.json` and receipts
  say what happened; they must still be true after whatever happens next.

## Modules

| Module | What it is |
|---|---|
| `RunTransitions` | the transition matrix and `decide` (`transitions.py`), for any number of phases |
| `RunLifecycle` | service, repository and lease manager |
| `RunLifecycleProofs` | theorems about `RunLifecycle` |
| `SlotAdmission` | what an admission controller promises: grants are all or nothing, exclusive means alone |
| `ResourceScheduler` | `acquire`/`release`; implements `SlotAdmission` under a refinement mapping |
| `AdmissionProofs` | theorems about the scheduler, that refinement among them, and about `BroadCampaign` |
| `GpuSupervisor` | both supervisors and the services they drive |
| `GpuSupervisorProofs` | theorems about them |
| `WebhookStore` | the delivery store and its workers |
| `WebhookStoreProofs` | theorems about it |
| `DownstreamCommit` | the saga, its files and what its steps leave behind |
| `DownstreamCommitProofs` | theorems about it |
| `CasRegister` | what a compare-and-swap registry promises: requests are appended to the state their author saw, each once, and only ledger entries are certified |
| `RegistryTransaction` | the three file registries (P8, P9, P19); implements `CasRegister` |
| `RegistryTransactionProofs` | theorems about it, the refinement among them |
| `KpiLab` | `KpiLab.run`, the proposers and the chained ledger |
| `KpiLabProofs` | theorems about the chain, the report and the limits |
| `BroadCampaign` | the campaign process, its pool and its children, over `SlotAdmission` |
| `GridSearch` | `grid-create` and `grid-run` over the metadata tables |
| `GridSearchProofs` | theorems about the task rows and about what a run returns |
| `MC*` | constants of the instances TLC checks |

`SlotAdmission` is the joint between two of them: `ResourceScheduler` implements
it step by step, and `BroadCampaign` takes its leases from it, so that the campaign
is checked against what the scheduler was shown to promise.

### Run lifecycle

A worker is a process with two threads: one in `LifecycleService.execute` (`pc`,
`job`), one in `LeaseManager` (`keeper`). The repository locks every call, so
each is one step; `execute` holds the lock of its service (`serviceLock`) over
the whole call, and `acquire` and `renew` hold nothing between their repository
calls. The steps of `execute` are its calls of the repository: `Lookup` of the key,
`Read` of the aggregate, for a command under a lease `AssertLease` and `AssertToken`,
`HandlerReturns`/`HandlerRaises`/`SkipEffect`, and `Commit`. The transition is decided
(`Decide`) where the last of these reads is, on the aggregate read first; a command without a lease is
decided as it is read, since nothing but the clock is looked at in between. `ReturnDuplicate`
is the path of a known key. An owner and its lease identifier are one thing, the worker. `Commit` re-checks revision, key and fencing token as
`commit_command` does. Two services over one repository are two elements of
`Services`.

Clients (`ClientCommands`) address a state of the run they have read (the phase it
had at the revision they expect) or, before they have the answer to an earlier
command, any phase at a revision still to come; with or without a declared key,
under the token of their lease or with none. A hash is the content hashed; an event
hash is the position and key of the event.

### Resource scheduler

One thread per task, each acquiring, working and releasing. A scan over devices
visits them one at a time from the round-robin start (`scan`); a slot is taken and
counted in two steps, as in the code; an exclusive task takes the gate, drains slot by slot and device by device (`DrainSlot`), gives back what
it has if it times out, and keeps the gate until its release.
Time is left out: any timed wait may time out while the resource is missing.

`ImplementsAdmission` maps the slots a task holds to `SlotAdmission`'s `holding`,
except that an exclusive task still draining holds nothing yet.

### GPU supervisors

One process per supervisor configuration: `handoff` is `ExclusiveGpuSupervisor`,
`auto` and `coexist` are the adaptive one. `pc` follows `run` from the lock to
the release of the lock; `local` holds the flags `run` keeps for its `finally`
block. Every POST (quiesce, close, unload, load, open) may be answered, take effect and
fail, or fail without effect (`Posts`). The runtime answers while it stops; a client
can go around the gate, and the runtime can fail, at any moment (`Disturbance`).

What may happen to a supervisor and need not is `Mishap`: its forecast runs into its
limit, its monitor raises past the forecast (`MonitorRaises`: a connection error the
probe does not catch, an interrupt), an nvidia-smi never returns (`ProbeHangs`), it is killed (`Crash`).
`Terminates` is `_terminate_process`, whose second wait may time out too. A
forecast that its own supervisor has stopped watching in one of these ways is `"left"`: it runs
on, and its memory may or may not show in a sample (`Clear`). A quiesce or a close
whose answer is lost leaves a gate shut that nobody opens again, since `run` does not know
that it closed it. An interrupt elsewhere than in the monitor loop does what a failure there or a
kill does.

`GateReopenedHealthy` speaks of supervisors that know that they stopped the LLM, or kept
it resident, and of an LLM that nobody disturbed since it was last seen up: `checked`
is the value of `reloads` then. Without the first condition the lost answer of an
unload breaks it (`GateReopenedOnlyHealthy`, listed below).

### Webhook store

Every method is a `BEGIN IMMEDIATE` transaction and so one action. Times are
kept relative to the shared clock. `claims` holds the `HandlerClaim`s that
workers have in hand; a crash drops them, a late answer uses one the sweep has
taken back (`RefuseClaim` when the store refuses it).

### Downstream commit

Processes that call `execute_downstream_commit` on one output directory. Each
write of the journal, the receipt or the lock file is a step, and so are the
look-up and the creation inside an effect (`Look`, `Create`, `Complete`).
`evidence[k][c]` is what step k has left of commit c as the look-up can tell:
absent, torn (half written, refused), partial (repaired or accepted), whole, or
foreign. A process may die (`Crash`, leaves the lock), be interrupted (releases
it), or have a step fail; artifacts may be restaged at any moment; an operator
removes the lock of a dead process.

### Registry transactions

Three registries are the same algorithm with different ledgers, and are one module:
`backend` says which. An operator runs one request, again and again, with its own
evidence directory; another operator may be handed the same request (`Prepare`).
`Decide` is everything done with the copy of the document read under the lock:
find an exact retry, refuse, or accept, in the order of that backend's code.
`Replace` is `os.replace`, `Confirm` the read after it. P19 reads once more without
the lock (`Compare`). `Publish` is the evidence directory up to its last file; a
directory is of one operator and one invocation (`operator`, `try`), as the output must
be new or empty, so that two directories that say the same are two.
`Verify` is the verification of the directory against the request. `IsRetry` and
`RefusedFirst`/`RefusedLater` hold the differences: P19 compares the whole request
and looks at the authorization's window before the comparison of states, P8
compares authorization and nonce and looks at the window after it, P9 has one
active canary and looks at the clock before it takes the lock. Bootstrapping takes
no lock (`FindNoDocument`, `CreateDocument`). The hash of a document is its history.

### KPI lab

A lab is one process that walks through `run`; every ledger entry is a step. Two
labs of one second share the directory, the ledger and the report: `head` is the
`_last_hash` of a lab's ledger object, `tail` what the file ends with. `chained`
is what `verify` would answer. The terminal entry and the reading of the chain are two
steps (`Terminate`, `Verify`): a lab of the same second may open the ledger and write in between, and
its entries then follow correctly. Numbers are choices: a delta out of `Deltas`, a
verdict of the controls, an e-process that rejects or not, the tickets the packing
bound wants for the coverage reached. `Proposals` are those of the LLM or of the
grid; `Fallback` turns from one to the other for good. `TooLittleData` and the
first branch of `Confirm` are the exceptions that leave no report. `alone` and `later`
are history variables: whether nobody else has written since a lab opened its ledger, and which labs opened it
after another one's terminal entry. Those alone may have written before
`verify` without a trace, and `alone` does not count them.

### Broad campaign

`main` is the campaign process, `at[t]` the thread of task t. A process plans
(`Block` settles GPU tasks where there is no GPU), opens one pool, and summarises;
it can be killed at any moment and started again in the same directory, after the
source has moved (`Commit`) and with or without a GPU. GPU leases are taken with
`SlotAdmission`'s grants. A child is a root process and at most one helper in its
group; `Drained` is when `communicate` returns. A child that runs into its limit gets
SIGTERM, after a grace period SIGKILL (`KillTree`), which need not end it at once, and
after a second grace period is given up (`KillWaitFails`): the exception leaves
`_run_process`, the lease is released, and the task is a SCHEDULER_ERROR. `givenUp` are
these children until they end. When the process dies its children
leave the model: the code does not look for them, and `RootsUnderLeases` says nothing
of them.

### Grid search

Every call of `meta_store.py` is a transaction and a step of `run_grid`. A run lists
the pending tasks once and works through the list; a second run, or a creation of
the grid, may come between any two steps; any call may raise (`Raise`), inside or
outside the `try`. `train` contributes its writes to `model_run`. `todo` holds what is left
of the list as a set, since it is worked through in order. `UpdatesRow` is
the `WHERE task_id`: ids are serial, so a run holding an old list updates nothing.

## Runs

| Run | Instance | Question |
|---|---|---|
| `lifecycle_leases` | 2 workers, 1 service, 2 leases, 2 phases, 3 times, 2 tokens | do leases and fencing keep the log ordered, and duplicates away from handlers? |
| `lifecycle_services` | 2 workers on 2 services, START, MARK_SUCCEEDED, CANCEL, a declared key, an output with 2 hashes, a tick of the clock | do two services keep one consistent history? |
| `lifecycle_lease_takeover` | as `lifecycle_leases` | can an unexpired lease be replaced? (it can) |
| `resource_scheduler` | 3 GPU, 2 exclusive, 1 CPU tasks; devices of 1, 0 and 1 slots; 1 CPU lane | are slots conserved, exclusive tasks alone, and does everybody end? |
| `gpu_supervisor` | 3 supervisors, 1 may be killed, 1 request, 1 disturbance, 2 stable samples | one forecast at a time, behind a closed gate, a gate opened over a healthy LLM, an orderly return? |
| `gpu_restored_over_forecast` | the same without disturbance or kill | is the forecast over when the LLM is restored? (it need not be) |
| `webhook_store` | 1 delivery, 2 handlers, 2 workers, 3 attempts, batches of 2, 2 sweeps | do the four tables agree whoever dies and however late answers are? |
| `downstream_commit` | 2 processes, 2 snapshots, a step of each kind of effect, 2 faults | exactly once, one snapshot, through in the end? |
| `registry_transaction` | 3 backends, 2 operators, 2 authorizations for 2 models, 2 nonces, 2 invocations each, 1 bootstrap | is the file a register, does evidence stay true, does every invocation return? |
| `kpi_lab` | 2 labs of one directory, 4 definitions, 3 experiments, 2 barren turns, 2 grid combinations | is a chain that verifies one lab's, a verified report earned, a limit hard? |
| `broad_campaign` | 3 tasks of 3 classes, 2 workers, 1 lane, 1 slot, 2 processes, 2 revisions | do children stay under leases, do files and summary agree, does the pool end? |
| `grid_search` | 2 runs, 2 tasks, 2 creations, 2 seconds, both values of `stop_on_error` | is success earned, is what a run returns so? |

**Why the bounds are enough.** Two workers are the smallest number that race;
the third supervisor is needed because the three modes behave differently and a
lock left by the dead one must stop both others. One disturbance undoes what a
supervisor has just seen: it brings an LLM back, ends one or replaces it; one request is enough
to keep a drain waiting and to load an LLM through the gate. Two events of a run show a
takeover between commits, an end and a command after it, and an output sealed
twice. Two tokens show one takeover. Three attempts and two sweeps exhaust a
handler by answers, by sweeps and by a mixture. A device of zero slots is where
an off-by-one of the scan shows; two shared slots with three shared tasks make
tasks wait. Two faults let a process die in the recovery of another one's death.
The four steps of `downstream_commit` are one of each kind of evidence: refused
when torn, accepted when partial, repaired, appended. Two operators with two
invocations each give a commit, another on top of it and a retry of the first; two
authorizations for two models tell a retry from a replay with a changed model. The
second lab of `kpi_lab` is infeasible and so writes six entries, enough to slip in
anywhere; three experiments and two barren turns let a best one be followed by a
failure and a tie. Two workers for three tasks make one queue, with an exclusive
task first; two processes are a campaign and its resumption. Two tasks give
one before and one after a failure; two runs and two creations an old list and a new one,
and two seconds run identifiers that collide and that do not.

Revisions, times, tokens, duplicates (`RunLifecycle`), requests and reloads
(`GpuSupervisor`), sweeps (`WebhookStore`), faults (`DownstreamCommit`), invocations
(`MaxTries` of `RegistryTransaction`), processes and revisions (`MaxSessions`,
`MaxHead` of `BroadCampaign`), creations and seconds (`GridSearch`) are bounded in the
guards, by the constants whose names begin with `Max`; `MaxExperiments` and
`MaxFailures` of `KpiLab` are the code's own. Symmetry is used in lifecycle runs,
which have no liveness properties.
Deadlock is not checked where the system may stop: supervisors that have
returned, deliveries that are processed. `lifecycle_*` runs check it, a client
can always come back; in `resource_scheduler` the state where all tasks have
ended stutters explicitly (`AllEnded`), so that any other stop is a deadlock.

### Fairness

* `ResourceScheduler`: a thread that can go on does (weak fairness of each task's
  steps; the code's waits are semaphores and polls). Timeouts are never relied
  upon: tasks end although nobody gives up. A child process is assumed to end, as
  its own timeout makes it.
* `GpuSupervisor`: a started supervisor runs on, and the deadlines of its waits pass
  (`WaitFails`, `RecoverFails`): `wait_running`, `wait_free`, `wait_for_baseline` and the
  drain each have one. What has none is a single call of `nvidia-smi`
  (`adapters.py:151`, `:178`): it may hang (`ProbeHangs`), and no fairness
  speaks of it. An LLM that is up for good is seen in the end, by one of the monitor's
  endless probes; the runtime ends a load or a stop it began. No fairness for
  clients, the forecast, the mishaps or crashes. `SupervisorReturns` names the two things
  that may keep a supervisor: a forecast without a configured
  timeout, and a probe that hangs. `ReloadStopsForecast` is met as well by a supervisor that gives
  a forecast up which outlived the kill.
* `WebhookStore`: workers keep claiming, answer what they claimed or lose it, the
  sweep is called again and again, time passes. Nothing of crashes.
  `DeliverySettles` is stated up to the bound on sweeps.
* `DownstreamCommit`: somebody calls again, a process that is neither dead nor
  interrupted runs on, an operator removes a dead lock.
* `RegistryTransaction`: an operator inside the transaction takes its next step, and
  `flock` wakes its waiters in turn (strong fairness of `Acquire`). Nobody is obliged
  to start or to retry.
* `BroadCampaign`: the process and its threads go on, and the four limits (lease,
  wall clock, grace period, the second one after SIGKILL) expire. Nothing is assumed of children: `PoolEnds` holds
  although none of them ever ends by itself or by SIGKILL, and names the one case it does not
  cover, a helper that outlives its root and keeps the pipes open.
* `RunLifecycle`, `KpiLab` and `GridSearch` have safety properties only: the first
  promises no progress, the other two are loops over a bounded list whose steps a
  call into a model library may delay without limit.

## What the proofs show

For all values of the constants (any sets of workers, services, runs, keys, operators,
labs and so on, finite where an assumption says so, and any bounds):

| Module | Theorem | Says |
|---|---|---|
| `RunLifecycleProofs` | `TypeCorrect` | `Spec => []TypeOK` |
| | `TokensAreUnique` | `Spec => []TokensUnique` |
| | `LogIsFenced` | `Spec => []FencedLog` |
| | `TakeoverFences` | `Spec => NoMutationAfterTakeover` |
| | `KeysAreCommittedOnce` | `Spec => []KeyCommittedOnce` |
| | `NoHandlerRunsAfterCommit` | with one service, `Spec => []NoHandlerAfterCommit` |
| | `EndedRunsStay` | `Spec => TerminalIsFinal` |
| | `SealedOutputsStay` | `Spec => SealedIsImmutable` |
| | `LogReplays` | `Spec => []ReplayMatchesAggregate` |
| `AdmissionProofs` | `SlotsAreConserved` | `Spec => []SlotsConserved` |
| | `StatusIsWithinSlots` | `Spec => []StatusWithinSlots` |
| | `SchedulerImplementsAdmission` | `Spec => ImplementsAdmission` |
| | `ChildrenAreUnderLeases` | `CampaignSpec => []RootsUnderLeases` |
| | `SummaryAgrees` | `CampaignSpec => []SummaryIsTrue` |
| | `SourceIsRecent` | `CampaignSpec => []ReportsThisSource` |
| `GpuSupervisorProofs` | `OneForecastAtATime` | `Spec => []OneForecast` |
| | `GateStaysShut` | `Spec => []GateShutDuringForecast` |
| | `ReopenedHealthy` | `Spec => GateReopenedHealthy` |
| `WebhookStoreProofs` | `DeliveriesMatch` | `Spec => []DeliveryMatchesOutbox` |
| | `HistoriesAreChains` | `Spec => []HistoryIsAChain` |
| | `AttemptsHandedOutOnce` | `Spec => []AttemptsAreDistinct` |
| | `FinishedForGood` | `Spec => FinishedRowsStay` |
| `DownstreamCommitProofs` | `NothingCreatedTwice` | `Spec => []CreatedOnce` |
| | `OneSnapshotEver` | `Spec => []OneSnapshotPublished` |
| | `ReceiptsAreEarned` | `Spec => []ReceiptIsEarned` |
| | `NoRegress` | `Spec => JournalNeverRegresses` |
| `RegistryTransactionProofs` | `RegistryTyped` | `Safety => []TypeOK` |
| | `RegistryImplementsRegister` | with one bootstrapper, `Safety => ImplementsRegister` |
| | `EvidenceTrue` | with one bootstrapper, `Safety => []EvidenceIsTrue` |
| | `StaleForGood` | with one bootstrapper, `Safety => []StaleStaysOut` |
| `KpiLabProofs` | `IntactAlone` | `Spec => []IntactMeansAlone` |
| | `ClaimsAreEarned` | `Spec => []VerifiedIsEarned` |
| | `LimitsHold` | `Spec => []HardLimits` |
| `GridSearchProofs` | `RowsUntouched` | `Spec => []NewRowsAreUntouched` |
| | `SuccessEarned` | `Spec => []SuccessIsEarned` |
| | `SummaryTrue` | `Spec => []SummaryIsTrue` |

Assumptions are those the modules name (`...Assumption`); TLC evaluates them in every
run. They are the ranges of configuration values, the finiteness of the scheduler's tasks and
of the webhook handlers, and that a value standing for "nothing" (`None`, `NoFile`, `NotStored`, `Nobody`, ...) is
not one of the things it is told from. `AdmissionProofs` extends both
`ResourceScheduler` and `BroadCampaign`, each with tasks and lanes of its own (hence
`Matrix`, `ResourceClass`, `Lanes` and `CampaignSpec` in the latter).
`NoHandlerRunsAfterCommit` assumes in
addition that all workers call one service instance: the lock of `execute` is
what makes looking a key up and committing it one operation. With two services
a handler can run for a key the other service has just committed; the commit is
then refused, which `KeyCommittedOnce` shows.

The argument for `RunLifecycle`, by invariant:

* `TokenInv` strengthens `TokensUnique`, which is not inductive: a heartbeat puts
  the token of the stored lease into its worker's hands, so nobody but the owner
  may hold it or be about to. A new token is the counter plus one, so it differs
  from everything in flight; that is why the race of two acquirers (`lifecycle_lease_takeover`)
  costs the lease but not the fence.
* `LogInv` adds to `FencedLog` that every token in the log is at most the counter:
  a commit demands that its token *is* the counter, so it is at least what the log
  has. `TakeoverFences` follows from the same bound on held tokens.
* `KeyCommittedOnce` is inductive with `TypeOK`: a commit checks that its key has
  no record and writes the record with the event.
* `LockInv` (one service): a worker inside `execute` holds the lock, and its key
  has no record; nobody else can commit until it leaves.
* `TimeInv`, for `ReplayMatchesAggregate`: the log ends no later than the clock, and
  a decision on the present aggregate is no older than the end of the log, so the event it
  appends is a successor. The replay takes the first hash of each output; `SealsOnce`
  says it is the only one, so that appending an event replays to merging its outputs.
* `SnapshotInv`: what a worker has read, from `Read` on, is not newer than the stored aggregate,
  is the stored one if the revisions agree, and contradicts nothing it is about to
  seal. A commit checks the revision, so it acts
  on the stored aggregate: a run that has ended offers no rule, and a merge keeps
  what was sealed. `UnsealedInv` says that what a handler seals is fixed only
  after the decision.

`RegistryTransactionProofs` assumes `OneBootstrapper`: bootstrapping takes no lock, so
a second bootstrapping process could replace a document that already has a history.
`Safety` is `Spec` without fairness. The invariant has a part per hand-over:

* `LockInv`: who is between `Acquire` and `Unlock` is the holder of the lock. So the
  document cannot change between `Decide` and `Replace`, which is `AcceptInv`: the
  copy is still the history, the request names it, and its authorization and nonce
  are fresh. From this a step of the file is a step of `CasRegister`.
* `LedgerInv`: no authorization and no nonce is in the history twice, which makes an
  exact retry find one record only.
* `WrittenInv`: after the lock is gone the post state of an invocation is a beginning
  of the history, which only grows (`HistoryGrows`): evidence published late is old,
  but true.
* `EvidenceInv` and `OnceInv` are the two halves of `EvidenceIsTrue`. An invocation
  appends its record when it is in the history nowhere (`LedgerInv`), and from then on it is
  the only one whose `wrote` is true for that record: a later one finds an exact retry. Its
  directory carries its operator and its number, so no other directory makes that claim.
* `StaleInv`: the state a stale request names is a *proper* beginning of the history.
  An entry records the length of what it was appended to, so the request's entry
  could only stand at a place that another one already has.

`KpiLabProofs`: `IntactMeansAlone` is not inductive. `HashesOld` says that no hash a
lab or a file holds is of an entry still to be written; `Detected` that a lab that is
no longer alone finds its own end different from the end of the file, or the chain
broken for good. A write by another lab puts a new hash at the end, which by
`HashesOld` is not the one this lab knows; its own next write then breaks the chain. This
goes on until the terminal entry. Between that and `Verify` this lab writes no more, so it
is the others that show themselves (`Outdated`): whoever opened the ledger before the terminal
entry knows an end that this entry has replaced, and breaks the chain with its own next one;
whoever opened it after is in `later`. A lab that is not constructed yet is alone (`NewIsAlone`).

`GridSearchProofs`: `RowsTaken` says that a run at work on a task of the present
creation has taken its row out of "pending", and `TypeInv` that no list is of a
creation to come, so that `CreateGrid` makes every running list an old one, whose
updates hit no row. `FinishedIsCompleted` is what leads from the adapter's return to
the row that says success. Steps are grouped by what they do to the rows (`Starts`,
`Ends`, `Moves`, `Completes`), and `Kinds` shows that these are all.

`SummaryIsTrue` of `GridSearch` rests on four more parts: `WorkInv` (what a run has
counted, has in hand and has still to do are apart), `StartsInv` (what a run has
started is in hand or done with), `AtHandInv` (what the
tables say of the task in hand, by the step the run is at) and `CountedInv` (a task
that was counted and that no other run touched is told so by all three tables).

`KpiLabProofs`, the other two theorems: `LabOk` says what one lab knows and has written
at its step, as a predicate of values: the report lists the journal (`JournalOk`), the
counters of the search are those of its batches (`SearchOk`), the limits hold of the
journal (`HardOk`), the best experiment is the first of the best (`BestOk`) and a
verdict rests on the controls and the confirmation journaled (`VerdictOk`). A step is
proved about once, for the lab that takes it.

`GpuSupervisorProofs`: `LockInv` says that the lock file is of the one supervisor that is
past its creation, dead, hung or alive; `ForecastIsWatched` that a forecast that counts as running is under its
monitor or under nobody (killed or hung); `GateInv` follows the gate to its closing and to the
end of the forecast. A monitor that raises makes its forecast a `"left"` one in the same step,
so that what `run` does then is outside these two theorems and inside
`ReopenedHealthy`, which speaks of the LLM and not of forecasts. `ModeInv` ties places in `run` to the mode they are for. For the
healthy reopening `NotesInv` says what the flags of the `finally` block have at each
place, `UpInv` where the LLM is known to be up as long as nobody has disturbed it, and
with which process.

`WebhookStoreProofs`: `SumInv` and `LetterInv` are the two halves of
`DeliveryMatchesOutbox` in a form a single row's step can keep; `AttemptInv` says that
nobody holds an attempt its row has not reached, so that a claim's new attempt is in
nobody's hands. Steps are sorted into those that move an unfinished row (`Quiet...`),
that finish one (`Finish...`) and that store a delivery.

`DownstreamCommitProofs`: `LockInv` makes journal, evidence and receipt those of the
holder, and `WorkInv` says its memory *is* the journal and its place in a step what the
step has left; so a look-up is still true when it is used. `JournalInv` has the
successes as an initial segment, each with evidence; `EvidenceInv` has all evidence of
the journal's commit; `CopiesInv` and `ReceiptInv` are the two claims in inductive form.

`AdmissionProofs`: `SlotInv` adds free slots and held slots, `CountInv` the counters and
what tasks between their counting and uncounting hold, `GateInv` says whose the gate
is, `HeldInv` what a task holds where it is. Counters and free slots change at different
steps, and only their sums are invariant. For the campaign, `LanesInv` and `Holds` say
that lanes and slots are out for exactly the threads between `Lease` and `Release`,
and that a root lives only while its thread waits for it; `GivenUpInv` that a child given
up is of a thread on its way from `KillWaitFails` to its SCHEDULER_ERROR row; `AloneInv`, that an exclusive
thread is the only one with slots, comes from the sum `SlotAdmission` bounds. `Shown`
is what an idle task has to show, `Recent` that fingerprints and rows are of revisions
since the start.

**How data is reasoned about.** The induction theorems of the library are of no use here
(they take an operator as a parameter, which no prover
at hand can instantiate), so facts about sums, selections and replays are proved by a minimal
counterexample: the set of prefixes (or subsets) that violate the claim has a least
element under a well-founded ordering (`WFMin`), and that element's predecessor gives
the contradiction. Sums over finite sets are derived from what the folds of the community
modules are defined to be: that a function of that recursion exists, that it is
unique, and so that a sum changes by what one term changes.

**What the proofs changed in the models.** `Find` of `DownstreamCommit` had two cases
that overlapped (an MLflow run that is absent or torn), and TLC had always taken the first;
they are exclusive now. `todo` of `GridSearch` became a set, `ExperimentsOf` of `KpiLab` a
recursive function; neither changes what is reachable. Assumptions on the values
standing for "nothing", and that there are finitely many handlers, were made explicit.

**Only checked by TLC**: all liveness properties (`EveryTaskEnds`,
`SupervisorReturns`, `ReloadStopsForecast`, `DeliverySettles`, `CommitGetsThrough`,
`InvocationsReturn`, `PoolEnds`: liveness under fairness and `ENABLED` are out of the
prover's reach), the two runs that
end in a counterexample, and type invariants other than those above, which are parts of
the invariants. What a recursive definition computes for *every* input is proved only
where the argument above applies.

## Where code and documents differ

Two differences are runs that TLC answers with a counterexample:

1. `lifecycle_lease_takeover`: two acquirers read before either saves, and an
   unexpired lease is replaced. `docs/run_lifecycle/SPECIFICATION.md:78`.
2. `gpu_restored_over_forecast`: the monitor raises past its forecast, or the forecast
   outlives the kill, and `run` restores the LLM and opens the gate beside it.
   `docs/GPU_EXCLUSIVE_SUPERVISOR.md:15`.

The others were met while modelling. Those that name a property were seen with TLC
and the property is kept in its module; no run is kept for them. A
passing run checks none of them.

| Where | The code | The document | Property |
|---|---|---|---|
| `run_lifecycle/service.py:95` | a handler that has returned runs again if its commit was refused | `docs/run_lifecycle/REQUIREMENTS.md:14` | |
| `gpu_exclusive/supervisor.py:162` | an unload that takes effect and whose answer is lost, or that comes after its deadline: the gate is opened without restoring the LLM | `docs/GPU_EXCLUSIVE_SUPERVISOR.md:17` | `GateReopenedOnlyHealthy` |
| `kpi_lab/state_machine.py:582` | an arm that beats the reference and misses the target is KPI_MET_VERIFIED: the branch does not look at `target_met` | `kpi_lab/state_machine.py:30`, "Target reached" | `VerifiedMeansReached` |
| `kpi_lab/state_machine.py:597` | an arm that does neither is KPI_MET_NO_MODEL_VALUE: nor does this branch | `kpi_lab/state_machine.py:26`, `specs/003-kpi-lab/spec.md:123` | `NoModelValueMeansReached` |
| `orchestration/resource_aware_broad_campaign_impl.py:295` | a child that outlives SIGKILL and the second grace period: its lease is released, and an exclusive child runs beside it | `docs/runtime_audit/RESOURCE_AWARE_RUNTIME_AUDIT.md:177` | `ExclusiveIsAlone` |
| `github_webhooks/store.py:447` | a row whose worker died with the last attempt is made ready again | `docs/github_webhooks/ARCHITECTURE.md:62` | `ExhaustionIsDeadLetter` |
| `orchestration/pipeline_downstream_commit.py:147` | after a death between receipt and journal every later call raises a conflict | `docs/data_access_ledger/PIPELINE_DOWNSTREAM_COMMIT.md:58` | `ReceiptIsReplayed` |
| `autogluon_campaign/registry_transaction.py:435` | an exact retry after another commit publishes evidence that fails its verification | `docs/autogluon/P19_REGISTRY_TRANSACTION.md:96` | `RetryRecreatesEvidence` |
| `orchestration/resource_aware_broad_campaign_impl.py:703` | one pool: tasks that wait for a GPU keep CPU tasks from a worker | `docs/runtime_audit/RESOURCE_AWARE_RUNTIME_AUDIT.md:177` | `CpuNotBehindGpu` |
| `orchestration/resource_aware_broad_campaign_impl.py:275` | a helper that outlives its root is not looked for; the lease goes back while it lives | its own docstring, line 267 | `TreeGoneAtRelease` |
| `components/loto_forecast_engine/src/loto_forecast/orchestration/grid_runner.py:206` | the success event fails after the row says success: success becomes failed; a second run takes a finished row to running | `components/loto_forecast_engine/docs/09_detailed_table_design.md:33` | `StatusOrder` |

## Not modelled, and why

* Numeric code, model adapters, provider certification, pipelines, dashboards, one-shot
  scripts: functions of data frames and files around third-party libraries. This is
  most of the repository by lines; it keeps no state that two actors share.
* Wording, logging, canonical JSON and hashing: abstracted to their content.
  Normalisation and signature checks of webhooks and of approvals change no state.
* `resolve_resource_plan` and `_limit_gpu_device_slots`: pure functions of a
  configuration, without a reference to compare them with.
* State and event records the GPU supervisor writes: reports nobody reads back.
* The statistic `duplicate_count` is modelled, but nothing is claimed of it: two
  services may lose a count.
* Untagged MLflow runs: `copies` counts what the look-up can tell. An MLflow run that
  died before its artifacts were logged is the evidence `partial`.
* A PostgreSQL registry whose driver returns tuples: the look-up of the commit
  audit (`pipeline_downstream_effects_platform.py:191-204`) understands mappings
  only. The model takes the default SQLite rows.
* A lock of the saga that an operator removes under a living process
  (`pipeline_downstream_journal.py:145`): the model's operator removes those of dead
  processes only.
* Children of a killed campaign: they go on, unknown to the next one. In the same way a
  task's fingerprint is read before it waits for its lease
  (`resource_aware_broad_campaign_impl.py:403`), and its child may run a later revision.
* A last ledger line torn by a crash (`kpi_lab/ledger.py:103`): the next lab of that
  second raises when it opens it.
* Rows a dead `grid-run` leaves `running` (never listed again), and the grid definition
  that is read apart from the task list: nothing in the code decides on them.

## Plan

1. `WeightedScheduler`, several permits of one semaphore per trial, as a second
   implementation of `SlotAdmission`; the sums of `AdmissionProofs` are what its proof
   needs.
2. `RunLedger`, an abstract specification of a run (committed commands, one live
   writer), implemented by `RunLifecycle`, and the proof of the refinement from
   `ReplayMatchesAggregate`, `FencedLog` and `KeyCommittedOnce`.
3. The task runner and the resumable provider campaigns of `auto_campaign`, where they
   keep state between processes.
