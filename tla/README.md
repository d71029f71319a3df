# A verification project for mini-control-action

`mini-control-action` serves GitHub Actions jobs with ephemeral macOS VMs. It
polls GitHub for queued jobs, creates one VM per job through the Mini Control
API, starts a just-in-time runner in it, watches runner and job, and deletes the
VM. The process may be killed at any moment; a JSON state file and the VM
service's idempotency keys are what it recovers from, and a reconciler cleans up
behind everything else.

The modules here model that life cycle in TLA+, TLC checks them on small
instances, and TLAPS proves every safety property the runs check, and that the
scaler, the monitoring worker and the service as a whole keep the contract below,
for every instance (section 4 has the hypotheses). What the service owes its VM
provider, VMs that are rented for open jobs only and one at a time, is a contract
of its own (`VMLease`), and the detailed models are shown to keep it.
Paths below are relative to `src/` (`job.go` is `internal/scaler/job.go`,
`client.go` is `internal/githubapp/client.go` unless it says otherwise).

## 1. Inventory

| component | state it keeps | operations | interacts with |
|---|---|---|---|
| state store (`internal/state/store.go`) | records in memory, one JSON file | Open, Upsert, Get, List, Delete, HasVM | scaler and reconciler write it, a restart reads it |
| submission and workers (`internal/scaler/scaler.go`) | the active set, the semaphore | Submit, Resume, ResumeRecord, spawn, Active, Wait | called by the poller, the start and the reconciler; one goroutine per job |
| job FSM (`internal/scaler/job.go`) | the worker's copy of its record | runJob, attempt, createVM, waitReady, bootstrapRunner, monitor, deleteVM | store, VM service, VMs (exec), GitHub |
| reconciler (`internal/reconciler`) | firstSeen (orphan candidates) | Sweep: orphans, stuck deletions, adoption, pruning, stale runner registrations | store, scaler, VM service, GitHub, all concurrently with the workers |
| job discovery (`poller.go`, `client.go`) | updated_at gate per run, repository cache | poll, ListAccessibleRepos, ListQueuedJobs | GitHub; hands jobs to Submit |
| runner registrations (`client.go`) | at GitHub: runners, busy or not | GenerateJITConfig, ListRunners, RemoveRunner, GetJobStatus | workers and the reconciler |
| in-VM bootstrap (`internal/bootstrap`) | the marker file in the VM | stage, launch, status | exec from the worker |
| VM service (`internal/minicontrol`, its `fake`) | VMs, replies by idempotency key | create, get, list, delete, exec | workers and the reconciler |
| process life cycle (`cmd/minicontrol-runner/main.go`) | the root context | start with Resume, SIGTERM, drain, crash | everything |
| create rate limiter (`internal/minicontrol/client.go:25`) | token bucket, shared by all workers | waitCreateToken | delays the creates of createVM; the service has a limiter of its own |
| deadlines (`job.go` waitReady, monitor, runJob) | locals of the worker, lost with it | provision, pickup and job deadline, ticker, retry pauses | end what workers wait for |
| configuration, status server, logging, `--smoke`, `--dry-run` | none that outlives a call | | |

What is hard here, and what the properties are for (the list with its lines is
`hazards` in `PROJECT.json`):

* **crashes** between minting a key, the request reaching the server, the answer
  and the record; also a lost or corrupt state file and failing writes, where
  memory runs ahead of the file and a later write of *another* change makes the
  earlier one durable;
* **stale reads**: the reconciler compares listings taken at different times with
  records that workers go on changing; a worker decides to release a VM on an
  answer from GitHub that may be outdated;
* **ordering**: GitHub hands a queued job to any runner with its labels, so the
  runner created for one job may serve a sibling's, and marker file, job status
  and runner listing tell three stories;
* **partial failure**: a create or a registration whose answer is lost, a delete
  that fails three times, a poll that fails half way through a repository, a VM
  that vanishes under its worker, a launch the caller does not wait for;
* **time**: deadlines that are looked at only between calls which take time
  themselves, that busy answers extend and restarts renew; sleeps in the rate
  limiter computed before others took the tokens;
* **liveness**: slots, capacity waits, retries, restarts.

Correct means: no VM is lost track of, doubled or kept; no VM is taken from a
running job that GitHub still knows to be running; no queued job is dropped; every
worker ends, and within a bounded time; creates keep the API's rate.

## 2. Modules

```
VMLease ── VMLeaseProofs                                (contract; TLAPS)
   ▲ refined by Scaler, Reconciler, Monitor
JobRecord ── Scaler ──┬── ScalerInv ── ScalerProofs     (TLAPS)
                      ├── MCScaler                      (TLC)
                      └── Reconciler ──┬── MCReconciler (TLC)
                                       └── ReconcilerInv ── ReconcilerProofs (TLAPS,
                                             over ScalerInv and ScalerProofs)
Monitor ── MonitorProofs                                (TLC, TLAPS)
RunnerSweep ── RunnerSweepProofs                        (TLC, TLAPS)
Discovery ── DiscoveryProofs                            (TLC, TLAPS)
TokenBucket ── CreateLimit ── CreateLimitProofs         (TLC, TLAPS)
Deadlines ── DeadlinesProofs                            (TLC, TLAPS)
```

The MC modules define the symmetry sets of the safety runs; a module without one
is instantiated by its `.cfg` alone. `ScalerInv` and `ReconcilerInv` have the
inductive invariants, which workers, sweep and their proofs share; the smaller
ones are in the proof modules.

### VMLease: the contract

A job is opened, rents VMs one after the other and is closed for good; a VM is
rented for an open job that holds none, once, and never again after it is gone.
What a failing call hides is `lost` rather than held, and only a restart finds it
again (`Find`). Losing the state file (`MayForget`) makes jobs new and their VMs
lost.

| implementation | mapping | property |
|---|---|---|
| `Scaler` | life: the record on *disk*; a VM is held while live and not a stray | `KeepsContract` (proved) |
| `Reconciler` | the same, but a pruned job stays closed | `ServiceKeepsContract`, as long as `stale = 0` (proved for a state file that is not lost) |
| `Monitor` | life: the record; a VM is named by the attempt that made it | `KeepsContract` (proved) |

That life follows the file and not memory is the point: a crash must not reopen a
job whose VM is gone, or rent beside one that is held. `VMLeaseProofs` says what
follows from the contract (`HeldByOpenJobs`).

### JobRecord, Scaler: records, workers, the process

`JobRecord` is the record of one job and what it means that a record still
*leads to* a VM (`Refers`): in `creating` the idempotency key does, because a
replayed create is answered with the same VM; afterwards the VM id does. A VM is
therefore named by the pair (job, key).

`Scaler` has one action per handler step:

| code | model |
|---|---|
| `Store.recs`, the file | `recs`, `disk`; `Upsert` changes memory first, and the write of the whole map may fail |
| `Scaler.active`, the semaphore | `pc[k] # "idle"`, `HoldsSlot` |
| `rec` in `runJob` | `loc` |
| `Submit` | `SubmitNew`, `SubmitLeftover`, `SubmitIgnored`, then `SubmitSpawns` (the store is read before the worker is spawned) |
| `runJob` | `Acquire`, `StopsHere`, `GiveUpJob`, `JobAlreadyFinished`, `Retry`, `PaceEnds` |
| `attempt`: create | `BeginCreate` (key durable first), `ServerCreate`, `CreateReturns`, `CapacityReply` (409), `RateLimited` (429), `CreateFails`, `BackoffEnds`, `DropsRequest` |
| `attempt`: the VM | `Ready`, `Launched`, `MarkRunning`, `MonitorEnds`, `StepFails`, `CleanupDelete`, `EnterDeleting`, `FinalDelete`, `Complete` |
| process | `Crash`, `Sigterm`, `ShutdownDone`, `Restart`, `RestartWithoutState` |
| VM service | `vm`: each (job, key) unused, rejected, live or gone |

Abstractions worth knowing when reading it:

* a request that reaches the server after the worker has crashed or timed out is
  ordered before the failure; keys make that equivalent;
* `strays` is a history variable: live VMs whose fate a failing call hid from the
  service (a create of unknown outcome, a delete that failed three times, a state
  write that failed while a key was replaced, a lost file). The safety net for
  those is the reconciler's. On a restart a VM the file still leads to is tracked
  again. `Owned` are the live VMs that are not strays;
* `rest` are the jobs a poll under way at a SIGTERM still submits; a worker
  spawned after `Wait` has returned, as the process exits, ends as in a `Crash`;
* 429 is only answered for keys the server has not seen: a replay is answered before
  the limiter here, and retried with the same key otherwise, which changes nothing;
* waitReady, bootstrapRunner and monitor are steps that succeed or fail here;
  `Monitor` has them call by call.

### Reconciler: the service as a whole

`Reconciler` extends `Scaler` and interleaves the steps of `Sweep` with
everything there. The VM listing (`listed`), the candidates (`seen`) and the
records as listed (`snap`) are snapshots; decisions are made on them, exactly as
in the code. `GraceOver` is the reading of `orphan_grace` its documentation gives
("must exceed the create->persist window"): a worker that holds a slot, or can
take one, has persisted its VM's id by then. Terminal records are pruned after a
day, when nothing else touches the job any more.

A worker can be started from a record that has changed since it was read, by
the sweep (`Adopt` on an old `snap`) or by a `Submit` that a sweep overtook.
`stale` counts that, `MaxStale` bounds it, and the properties say what holds
without and with it: at the bound a start from an old record is left out, so SweepEnds
(`MaxStale` 0) shows nothing about such starts, and SweepCrash about one.

### Monitor: what happens in the VM

`bootstrapRunner`, `monitor`, `runnerBusy`, `removeRunnerRegistration` and the
reconciler's `cleanRunners`, call by call, against VMs (`up`, `marker`, `proc`)
and GitHub (`job`, `claimant`, `reg`). Any listening registered runner may claim
any queued job. Creating and deleting a VM and writing a record always succeed
here (Scaler and Reconciler have those failures), but a VM may vanish at any time
(`Vanishes`; it shares the bound `MaxFaults` with the crashes).

* The launch is detached (`bootstrap.go:71`): `Launch`, the script's `FirstPhase`
  and the worker's next step are three actions. `ScriptMayLag` says whether the
  first phase may come after a restart of the process has looked for it. An exec may
  fail with or without its effect (`Stage`, `Launch`).
* A registration may lose its id: GitHub has made it, the answer or the process is
  lost before the id is in the record. It is number 0 of its VM (`NoId`).
* A sweep's VM listing (`listed`) is older than its runner listing, by any number of
  steps: in the code the deletes and the records are in between
  (reconciler.go:59, 134).
* A runner may be handed a job that no record is about (`ClaimUnlisted`, if
  `UnlistedMayCome`): one the poller has not listed yet, or whose record is closed.
  With it one job is enough to see a runner serve another job than its record's.
* The busy-check before a release and the one at the pickup deadline are requests
  of their own (`Release` and `StaysUp`, then `KeepWaiting`), with a step for others
  in between.
* Ticks, deadlines and the three-tick interval are choices: a deadline may be over
  at any tick. `Deadlines` has them as clocks.
* The webhook event channel has no producer in this program and is not modelled.

### RunnerSweep: which registrations a sweep sees

`cleanRunners` with what `Monitor` takes as one answer: the scopes of
`runnerScopes`, and `ListRunners` page by page, with a short last page, a page cap,
failing calls, and registrations that come and go between two pages. `stayed` and
`shifts` are history: the runners registered all through the listing, and how many
left. A runner is offline as soon as its VM is gone here; `Monitor` has those that
are only starting. A repository in `Broken` can be read (its jobs are found and get
records) but not administered.

### Deadlines: how long a job takes

The same worker with clocks instead of answers: the wait for a slot, provision
timeout, pickup timeout with its extensions, job duration, ticker, retry pauses.
`left` is the time left of the current call or wait; calls take up to their timeout
and answer anything, and a deadline that is over is noticed only where the code looks
at it. A stop of the process loses every deadline, and the process that resumes the
job waits for a slot first, whatever VM the record names (`queue`, at most `MaxWait`:
the jobs that hold the slots end).

| history variable | counts |
|---|---|
| `spent` | ticks the job held a VM, in a worker's hands or waiting for a slot |
| `astray` | deletions given up after three tries; the worker goes on as if the VM were gone |
| `idle` | ticks since the runner was launched or last *found* busy |
| `unknown` | busy-checks without an answer since then, which the code takes for busy |

A VM that `astray` counts is the reconciler's from then on (`EveryVMDeleted`); nothing
in the program bounds its time.
What the answers mean is in `Monitor`, the waits of createVM in `CreateLimit`.

### TokenBucket, CreateLimit: how fast VMs are created

`waitCreateToken` under the loop of `createVM`: callers share a bucket that is
refilled when somebody looks, sleep outside the lock for a time computed inside it,
compete again, and get a VM, a 409 (back off, fresh key) or a 429 (the service's
bucket refuses; `Retry-After` and a second more) until `Budget` is over. `TokenBucket`
is the service's own limiter, refilled by the clock. `debt` is history: the creates
sent, less what the clock has refilled since, never below zero. That makes it the
largest excess of creates over refill of all stretches of time that end now, so a
bound on it is one on every stretch (`KeepsTheRate`). A request may be late, or be
given up by its caller and arrive later (`strays`); a restart starts with a full
bucket.

### Discovery: which jobs are found

One poll, call by call, over the configured repositories (`scope` "org" or repo)
or the recently pushed ones with the cache in between ("all"), with the
`updated_at` gate (`gate`), jobs changing between any two calls, failing calls
and restarts. A listing is one atomic answer; labels are matched where it is
read. A repository discovery that fails ends the poll without effect. A run has one
status that sums up its jobs' (`RunStatus`), as GitHub's do, where `ghfake` lists it
under each. `faults` counts failing calls and restarts together.

## 3. Runs

| run | instance | properties | shows |
|---|---|---|---|
| ScalerCrash | 1 job, 1 retry, 2 stops, 6 keys, failing writes, deletes, creates, lost state file | TypeOK, KeyDurable, NoLeak, OneVMPerJob, TerminalIsFinal, KeepsContract | recovery from every combination of faults and two stops, as the contract says |
| ScalerQueue | 2 jobs, 1 slot, 1 rejection each, 1 stop | FleetBoundUnlessStopped, RetryBudget, WorkersSettle | the semaphore, capacity waits, and every worker ends |
| SweepCrash | 1 job, 1 stop, 1 stale start, state file may be lost, failing writes and creates | SweepTypeOK, NoLeakUnlessStale, OneVMUnlessStopped, OnlyOrphansReaped | the sweep does no harm beside a worker |
| SweepEnds | 1 job, 1 stop, failing writes, deletes, creates | EveryVMDeleted, JobsSettle, ServiceKeepsContract | nothing stays behind, and the service as a whole keeps the contract |
| MonitorSafe | 1 job, 1 retry, 2 runners per VM, 2 faults (crash or vanishing VM), failing execs, lagging scripts, dying runners, unlisted jobs | TypeOK, KeepsContract, GivesUpNoRegistered | bootstraps that are started again leave no busy runner that GitHub knows behind |
| MonitorEnds | 1 job, 1 retry, 2 runners per VM, 1 fault, failing GitHub, dying runners, unlisted jobs | CompleteMeansClaimed, VMsGo, LeftoversRemoved, JobsServed | monitoring ends and cleans up; what befalls runners costs retries, never the job |
| DiscoveryServes | 2 repositories with 1 run of 1 job, 1 failing call or restart, both scopes | TypeOK, GateHidesNoJob, HealthyReposServed | the gate hides no job, and one broken repository costs the others nothing |
| RunnersSwept | 3 runners, one a page, cap of 2 pages; a second repository that cannot be listed; 1 fault | TypeOK, MissesAreShifts, LeftoversSwept | what a listing may lack, and that leftovers are found all the same |
| CreateLimit | 2 callers, burst 2, 3 ticks of delay on the wire, 1 restart | TypeOK, KeepsTheRate, RefusalsAreExplained, NobodyOversleeps, EveryCallEnds | the creates keep the rate and every create ends |
| Deadlines | 1 job, 1 retry, 1 stop, every call and the wait for a slot up to 1 tick, job duration 5 | TypeOK, CostIsCapped, IdleIsCapped, JobEnds | the time a job costs is bounded |

Two runs end in a violation, each of a sentence of the repository about itself:

| run | sentence | what TLC finds |
|---|---|---|
| LostRefs | README.md:55 "jobs are picked up within one poll interval" | a call fails after the gate of an earlier run of the repository was recorded: the jobs found in it are dropped and the gate hides them until the run changes |
| WaitingOrphan | config.example.yaml:121 orphan_grace | a create interrupted by a crash waits for a slot longer than the grace period, and its VM is deleted as an orphan although its key is in the state file |

### Bounds

`MaxRetries`, `MaxConcurrentVMs`, `MaxRepos` are configuration; `MaxKeys`,
`MaxRejects`, `MaxStops`, `MaxStale`, `MaxStagings`, `MaxFaults`, `MaxRuns`,
`MaxJobs`, `MaxRunners`, `MaxLate` and `MaxRestarts` bound the exploration. `MaxKeys` is
large enough that no behaviour of its run lacks a key: each retry, rejection, stop
and stale start costs at most one more, and TLC would report a deadlock, or the
liveness runs a worker that stays, if it were not. Two stops cover a crash during
recovery from a crash. Jobs interact
only through the semaphore and the state file (ScalerQueue), for which two jobs are
the smallest and, as no code counts jobs otherwise, the interesting number, and
through sibling runners; safety runs with two jobs or repositories use symmetry,
liveness runs do not. Two runners per VM cover a bootstrap started again after a crash. Two
repositories cover a failing one next to a healthy one; that a run's jobs and
several runs of a repository do not hide each other is proved (`GateIsSafe`).

The faults of `Monitor` are constants, because all of them at once are more states
than TLC finishes in minutes; each is on in one run, and the theorems have all of
them but where section 4 names a hypothesis. A sweep's old VM listing is no option: it
is in every run. `GitHubMayFail` is off in MonitorSafe because GivesUpNoRegistered takes
a GitHub that removes the registration it is asked to remove; failing execs and lagging
scripts are off in MonitorEnds for its running time (they are what makes a second runner
beside the first possible, which is MonitorSafe's subject). Both runs have one job: a
sibling's job is a job that no record is about (`UnlistedMayCome`), a sibling's runner is
a stranger (`Elsewhere`); the theorems have any number of jobs.

`MaxRepos` is the number of repositories, so `Discovery` never exceeds its cap.

Pages of one runner and a cap of two stand for 100 and 20: with three runners a
listing may be short, full, shifted or past its cap.

Durations are small numbers in the order the defaults have: in `Deadlines` the job
duration (5) leaves room for more than one pickup round (1, tick interval 2) and its
calls; the bounds the properties state are formulas over the constants, not numbers
found for this instance. In `CreateLimit` a token is two ticks, so that a sleep can
be overtaken half way, and the budget is long enough for two backoffs.

Deadlock is checked except in CreateLimit and Deadlines, whose calls and jobs are
over once and for all (the properties `EveryCallEnds`, `JobEnds` say that they get
there). The scaler alone stops when every job is handled; `AllHandled` says so.

### Fairness

* Workers (`WF` on `Worker(k)`): goroutines whose every blocking call has a
  timeout (HTTP client, `provision_timeout`, `pickup_timeout`,
  `max_job_duration`, the capacity deadline).
* `SF` on giving up a capacity wait, and on `TooLong`: these deadlines are fixed
  once (job.go:187, job.go:366) and checked in every round, so a worker that is
  asked again and again eventually finds them over.
* `Restart`: the container is run with `restart: always` (`compose.yml:7`).
* `Sweep`, the poller, `ListVMs`/`ListRunners`: tickers. `SF` on `Reap` and on a
  CleanRunner that succeeds: a DELETE retried at every sweep succeeds in the end.
  `SF` on `Reaps`: a VM that stays an orphan is past `orphan_grace` at some
  sweep. `SF` on `PollDiscovered`: the cache expires (`repoCacheTTL`).
* GitHub owes nothing in `Discovery`. In `Monitor` a running job ends, and, while
  any runner can go on (`RunnerGoesOn`), some runner does: nothing more is asked of
  GitHub and the VMs, not even that a particular job is handed out. No runner is
  bound to die, nor to be handed a job that no record is about.
* `Deadlines`: `WF` on worker or clock together: the clock runs, timers fire and
  calls end at their timeout, since time cannot pass a timer that is due. The wait for
  a slot ends because every job that holds one does, and a channel serves in turn.
* `RunnerSweep`: only the sweep itself, on its ticker.
* `CreateLimit`: the clock, each caller's next step (its request is answered or
  times out, its timer fires, it gets the lock), and requests on the wire.

Crashes, failures and vanishing VMs are never fair.

## 4. Proofs

| module | theorem | statement |
|---|---|---|
| ScalerProofs | Typing | `Spec => []TypeOK` |
| | KeysAreDurable | `Spec => []KeyDurable` |
| | NothingLeaks | `Spec => []NoLeak` |
| | OneVM | `Spec => []OneVMPerJob` |
| | TerminalStays | `Spec => TerminalIsFinal` |
| | FleetIsBounded | `Spec => []FleetBoundUnlessStopped` |
| | ScalerKeepsContract | `Spec => KeepsContract`, the refinement of `VMLease` |
| | BudgetIsKept | `Spec => []RetryBudget` |
| ReconcilerProofs | SweepTypeCorrect | `ServiceSpec => [](TypeOK /\ SweepTypeOK)` |
| | NothingLeaksUnlessStale | `ServiceSpec => []NoLeakUnlessStale` |
| | OneVMUnlessStaleAndStopped | `ServiceSpec => []OneVMUnlessStopped` |
| | OrphansOnly | `ServiceSpec => OnlyOrphansReaped`, if there is a slot for every job |
| | OrphansOnlyUntilStopped | `ServiceSpec => OnlyOrphansReapedUnlessStopped`, the same until the first stop |
| | ServiceImplementsLease | `ServiceSpec => ServiceKeepsContract`, if the state file is not lost |
| MonitorProofs | MonitorTypeCorrect | `Spec => []TypeOK` |
| | MonitorKeepsContract | `Spec => KeepsContract`, the refinement of `VMLease` |
| | GivenUpNoneRegistered | `Spec => GivesUpNoRegistered`, if GitHub answers |
| | NoJobIsDropped | `Spec => CompleteMeansClaimed` |
| VMLeaseProofs | OpenJobsHoldOneVM | `Spec => []HeldByOpenJobs`, of the contract |
| DiscoveryProofs | GateIsSafe | `Spec => []GateHidesNoJob` |
| | PollerTypes | `Spec => []TypeOK` |
| RunnerSweepProofs | MissesAreBounded | `Spec => []MissesAreShifts` |
| | RunnerTypes | `Spec => []TypeOK` |
| CreateLimitProofs | RefusalsExplained | `Spec => []RefusalsAreExplained` |
| | LimiterKeepsTheRate | `Spec => []KeepsTheRate` |
| | NobodySleepsOn | `Spec => []NobodyOversleeps` |
| | LimitTypeCorrect | `Spec => []TypeOK` |
| DeadlinesProofs | CostIsBounded | `Spec => []CostIsCapped` |
| | IdleIsBounded | `Spec => []IdleIsCapped` |
| | Typing | `Spec => []TypeOK` |

They hold for any finite set of jobs (repositories, callers), any bounds, page
sizes, rates and timeouts, and any choice of faults; the named assumptions of the
modules are all they use. Three theorems have a hypothesis besides. Each is needed:
without it TLC has a counterexample, which the subsections below name, and each is
met by the run that checks the property.

### The scaler

None of these is inductive. `NoLeak`, for one, says nothing about a worker whose
copy of the record disagrees with the store, and such a worker could write a
record that forgets the VM. `ScalerInv` has the strengthening, per job:

* `WorkersCopy`: a worker's copy and the store hold the same record, in flight;
* `PlaceFitsState`: what a worker's place says about its record; in particular
  from the moment a create may be sent its record *is* the one on disk;
* `NothingOwned`: a worker that is about to drop key or id owns no VM;
* `TerminalKept`, `DownIsEmpty`: memory does not contradict a terminal record on
  disk, and a stopped process has none;
* `Tracked`: every owned VM is within reach of disk and memory.

With `TypeOK` these are `CoreInv`, which the workers preserve whoever else writes
records, so that the proofs about the sweep use the same lemmas. When nobody but the
poller does, it also works on the record the store holds (`PollersCopy`), and memory
never lags behind a terminal record (`TerminalInMemory`): `IInv`.

`FleetInv` is the bookkeeping of slots on top of it. The proof that a step
preserves `IInv` has one lemma per action; it uses that all jobs but one are left
alone, that a write of the whole map changes a job on disk only to its value in
memory, and per action the few conjuncts it can disturb. `OneVMPerJob` follows
from `Tracked`, because a record leads to at most one VM. `FleetIsBounded`
compares the owners with the slot holders by cardinality. `TerminalIsFinal` is an
action property: from `IInv`, a write to the file finds a terminal record in
memory too, and no step changes that.

### The contract

The second half of `ScalerProofs` rests on what a step of a worker can do to its job
(`WorkerHasShape`): write its record, or leave the file alone and change the fate of
one VM. From `LInv`, which adds to `IInv` that only VMs that were created are lost
or named by a record (`LeaseFits`) and that a record memory does not have is not in
the file either (`MemoryCovers`), each shape maps to a step of `VMLease` or to a
stutter. A write of the file is `Write` (it may make several jobs' records durable
at once; by `Tracked` none of them closes a job that holds a VM), the server's
create is `Rent` (the durable record is open, its key unused, and by `Tracked` the
job holds nothing else), a failing call is `Lose`, a restart `Find` or `Forget`.

`RetryBudget` counts VMs over a job's history. For `BudgetIsKept` a record answers
for one VM per retry before it and for one more when it is past its create
(`Answers`); the VMs ever created are covered by what the record in the file and,
while the process runs, the record in memory answer for (`Covered`).

### The service as a whole

With the sweep, records have more writers, and most of what a worker knows is true
only as long as nobody was started from a record that had changed since it was read.
`ServiceInv` is therefore the types and, for `stale = 0`, `Undamaged`: the scaler's
`JobInv` for every job, and how far the sweep's snapshots can still be trusted. The
parts that matter most are about time passing between a look and an act:

* `SnapFits`: a record listed in deletion has stayed there or is complete, because
  no worker ever leaves deletion but by completing;
* `ListedFits`: such a record's VM is in the listing if it lives and no worker has
  it, so that completing the record without deleting anything is right;
* `HasWorker`, `PrunedOnly`, `EndFits`: while the service is up a job that may have a
  VM has a worker, and only pruning makes memory forget a terminal record.

Adoption, completion and pruning write one record each; the workers' steps are the
scaler's, so their lemmas apply. `NothingLeaksUnlessStale` follows from `Tracked`.

`OneVMUnlessStaleAndStopped` says something for `stale > 0` too: until the first stop
`UnstoppedInv` holds without any trust in the store. The worker's own copy leads to
every VM of its job, and a job without a worker owns none (`CopyLeads`).

`OrphansOnly` needs that the VM in the sweep's hand cannot come back into use between
the look at the records and the DELETE. Keys are minted once (`KeysMinted`) and the
VM exists (`ListedExist`), so the only way back is a worker that holds its key in
`creating` and waits for a slot. With a slot for every job `GraceOver` excludes it;
without, the run WaitingOrphan is the counterexample. It takes a crash:
`OrphansOnlyUntilStopped` has no hypothesis on the slots, because until the first stop
no worker that waits has begun (`WaitFits`; workers start from queued records, since
by `HasWorker` those beyond have one). Its invariant, `EarlyInv`, has been checked
with TLC for two jobs, one slot and failing writes and creates (4,258,328 states)
but is in no run, for its size.

For `ServiceImplementsLease` a pruned job stays closed (`PrunedFits`). A lost state
file breaks that: a record pruned in memory whose write failed is in flight again
after a restart, and if the file is lost then, its job still counts as pruned, so as
closed, while its VM lives (`StateFileMayBeLost` in SweepEnds, with two stops).
Beyond that the mapping is the scaler's: a settled or pruned record is a `Write` of a
job that holds nothing, a reaped VM an `End`.

### The monitoring worker

`BaseInv` ties a worker's place to its record, and says that a job's only VM is the
one of its current attempt, and gone once the attempt has ended (`VMsFit`); a
finished job is finished at GitHub (`DoneIsOver`). This is enough for the contract:
`MonitorKeepsContract` has no hypothesis.

`NoJobIsDropped` follows from it and from what the worker has just been told: it
enters `job_done` by an answer about its job, or when its runner is gone and GitHub
answers that the job is no longer queued. If GitHub does not answer, exit code 0
completes the record: the property names this exception, so the theorem has no
hypothesis.

`GivenUpNoneRegistered` is about VMs in which several runners may be alive: a failing
exec or a late script starts a second one beside the first. The worker asks GitHub
about one of them only, so it must be the only one that GitHub knows: `SoleInv`. Of the
registrations made for the record's VM there is at most the one the record names, and
none while the next is being made (`OnlyNamed`); one whose id was lost never runs
(`NeverRun`); none belongs to an attempt to come (`NotAhead`). `RemoveOld` keeps this,
if GitHub does not refuse the removal, which is the hypothesis. Nothing is assumed of
execs, scripts, crashes, runners or the sweep. That the VM has no busy runner at all
(`GivesUpOnlyIdle`) is false (section 5).

### The rate limiter

`Covered` compares the two buckets: what the client may still send, what its
requests on the wire cost, and the 429s so far, are together never more than the
service's bucket holds, plus one for each tick requests were late and a full bucket
for each restart. A create moves its cost from the client's bucket to the wire; its
arrival takes it from the service's bucket or, if that has too little, is a 429; a
tick fills the client's bucket without the service's only when the latter is full,
and then either nothing is on the wire or the tick counts as late. With it
`RefusalsAreExplained` is inductive. For
`LimiterKeepsTheRate`, `OneBurst` adds what the client's bucket would hold if it were
refilled now (`Level`) to `debt`: the sum is never less than a full bucket and never
more than one for each process. A create moves its cost from one to the other, looking
at the bucket changes neither, and a tick takes from `debt` what it adds to `Level`
unless one of them is at its end. For
`NobodySleepsOn` a timer is never set further than the token it waits for, and no
step makes that token come later.

### The runner listing

Between two pages a runner that leaves moves everything behind it up by one. As
newcomers are listed last (`NewcomersLast`), the runners that were there all along
are a prefix of the listing, and only the departure of one of *them* moves another
one to a page already fetched, and one at most: the number of such runners the sweep
was not told of is at most `shifts` (`ListingFits`). Behind a short page there is
nobody, so the same holds of the whole listing.

### The gate

`updated_at` is the number of changes a run's jobs have been through, so it only
grows, and strictly when a job moves. `GateInv` says that neither a gate nor a stamp
in the poll's hands is ever ahead of it (`GatesBehind`, `PageFits`), and that the
queued jobs of a run whose gate has caught up are among those the poll holds or has
handed on, unless a call failed for the repository (`NoJobHidden`). A job that moves
leaves its run's gate behind; a call of the poll moves jobs one place further.

### The deadlines

What a job has spent says nothing of what it may still spend, so `CostIsCapped` is
not inductive. `InHand` is the most that the worker can still hold its VM from where
it is: the rest of the deadline and then of the wait or of the round in which it
will be looked at (`RestOfWaiting`, `RestOfMonitoring`, `RestOfRound`), and what
comes after it; `Rest` adds the wait for a slot and a life to come for a job that is
queued. The worker's own steps never make it larger, a tick takes from it what it adds
to `spent`, and only a retry or a stop adds a life, a stop also a wait
(`WithinAllowance`). `WithinDeletions` counts the deletions given up: each is followed
by a retry or the end. `IdleIsCapped` is the same argument about the pickup deadline
(`WithinPickup`): a launch or a busy answer starts `idle` anew, while a stop and a
busy-check without an answer leave it and add to what is allowed. All need
`Following`, that the record tells where the worker can be, and `Bounded`, how long
each call takes.

### Only model-checked

Liveness: WorkersSettle, EveryVMDeleted, JobsSettle, VMsGo, LeftoversRemoved,
JobsServed, HealthyReposServed, EveryCallEnds, JobEnds, LeftoversSwept. Fairness,
`ENABLED` and the well-founded orders these would need are out of the prover's reach.
ServiceKeepsContract and OnlyOrphansReaped are checked by TLC beyond the hypotheses
of their theorems only as far as section 3 says. All invariants and action properties
of passing runs are proved.

## 5. What the code does that its documents do not say

Besides the two violations above, the following are true of the model and the
code, and are why some properties are stated the way they are. Each can be seen by
checking the formula named under the constants named.

* The fleet bound (README.md:68) does not survive a stop: a resumed job that waits
  for a slot already has a VM. `FleetBound`, ScalerQueue with 1 stop.
* deleteVM's comment (job.go:536) says a record whose VM cannot be deleted stays
  in `deleting`. deleteVM returns nothing and the record completes; the orphan
  collection deletes the VM. `DeleteMayFail`.
* `failed` is documented as "VM already deleted" (store.go:32); with
  `CreateMayFail` a create of unknown outcome can leave one.
* A resumed create whose state write fails forgets the key of a VM that exists
  (job.go:88). `DiskMayFail` and one stop; the VM becomes a stray.
* The sweep adopts the record it listed, even if the worker has finished or has
  stopped for a SIGTERM since (reconciler.go:121). `NoLeak` in `Reconciler` with
  `MaxStale = 1`, `MaxStops = 1`.
* A runner that was idle when asked may claim a job before its VM is deleted
  (job.go:483).
* The sweep compares the runner listing with the VMs it listed at its start
  (reconciler.go:59), so the registration of a runner whose VM was created in between,
  and that is not online yet, is removed, although reconciler.go:149 says "keep it if its
  VM is alive". If the runner has come online and claimed a job before the removal,
  runnerBusy finds no registration and answers "already exited" (job.go:525), and the
  worker gives the VM up with a job in it; job.go:481 says "Release the VM only when our
  runner is provably idle". `GivesUpOnlyIdle` in `Monitor`, one job and no fault at all.
  `GivesUpNoRegistered` is what holds.
* When GitHub cannot be asked for the job after its runner exited, exit code 0 completes
  the record (job.go:411), although the runner may have served another job;
  scaler_test.go:387 says that such an exit "must not mark this record complete while its
  own job never ran". `CompleteMeansClaimed` without its exception, `GitHubMayFail`.
* README.md:41 says "a job record only completes when GitHub says its job completed".
  After the runner's exit a job that is in progress on another runner completes it too
  (job.go:422). `CompleteMeansOver`, no fault.
* max_job_duration is a "hard cap; VM is deleted afterwards" (config.example.yaml:102) for
  one process only: the one that resumes the job starts the deadline anew (job.go:366).
  `DurationIsHardCap` in `Deadlines`, 1 stop.
* "Deletion-only resumes skip the queue wait" (job.go:27), but every worker waits for a
  slot before it looks at its record. `DeletionsDoNotWait` in `Deadlines`, 1 stop.
* After a crash one failing exec makes bootstrapRunner start a second runner and
  remove the first one's registration unasked (job.go:295), against client.go:301.
  If that one is at work, GitHub knows nothing of it any more, and the VM is given up
  when the second is idle.
* With `github.scope: all` a job of a repository that is not pushed to is never
  found; poller.go:28 refers to a webhook the program does not have.
* A runner listing of several pages can be short without an error: when a runner of
  an earlier page leaves between two calls, the next one moves up and is on no page
  that is fetched. client.go:278 says "never as a short list", because absence counts
  as "exited". It takes more than 100 runners in a scope. `MissesAreShifts` is what
  holds; `stayed \subseteq got` at the same place does not.
* With scope all only repositories of current records are swept, "exactly the repos
  in the state file" (reconciler.go:187). After a lost state file a leftover's
  repository is not swept until a job comes from there: in `RunnerSweep` a leftover
  outside `Watched`.
* The launch does not wait for the script's first phase. A process that stops
  right after it and comes back before the phase is written finds no marker, takes
  the runner for not launched, removes its registration and stages a second one in
  the same VM (job.go:279 calls the status file "the truth"). If the first runner
  has come online in between, it may be at work when the VM is given up.
* A busy-check without an answer moves the pickup deadline as a busy answer does
  (job.go:515), so pickup_timeout (config.example.yaml:100) bounds nothing while GitHub
  does not answer: only max_job_duration does. `IdleIsCapped` counts such checks.
* A record whose runners keep serving other jobs uses its retries up and fails with its
  job still queued; it is not submitted again. `JobsServed` excepts it.
* With as many registrations in a scope as the page cap allows (2000), ListRunners
  fails for good: nothing is cleaned, and every runner counts as busy until its job
  deadline. `LeftoversSwept` excludes it (`TooMany`).
* A create passes the client's bucket before it is sent, so the service may still
  refuse it: once per tick that requests were late, and up to a full bucket after a
  restart. `RefusalsAreExplained` is that bound, and client.go:26's "rarely".

## 6. Not modelled

* `--smoke` and `--dry-run`: one-shot commands. The VM of a smoke test has no
  record, so a service running with the same API key reaps it as an orphan once
  `orphan_grace` is over.
* The HTTP status server, logging and configuration: no state that changes.
* The webhook events of the scaler: nothing in the program produces them.
* Quoting and rendering of the bootstrap script, tags and placement, credentials.
* Pages of the listings of repositories, runs and jobs (each is one atomic answer in
  `Discovery`), which end silently at their caps of 10, 5 and 3 pages.
* The one-second resolution of `updated_at`: two changes within a second look like
  none to the gate; the model's stamp moves with every change, as the fake's does.
* A VM listing that fails: it ends the sweep before it has changed anything.

## 7. Plan

Done: the models of every component with state, the contract and its three
refinements, and a proof of every safety property the runs check. What is left is
a weaker hypothesis: `ServiceImplementsLease` with a state file that may be lost, under
a mapping that forgets that a job was pruned when the file is lost.
