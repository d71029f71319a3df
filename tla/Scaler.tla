------------------------------- MODULE Scaler -------------------------------
(***************************************************************************)
(* The scaler: one worker goroutine per workflow job drives that job's     *)
(* record through                                                          *)
(*                                                                         *)
(*   queued -> creating -> wait_ready -> bootstrapping -> runner_up ->     *)
(*   job_running -> job_done -> deleting -> complete        (or failed)    *)
(*                                                                         *)
(* against the VM service, persisting every state in the store, while the  *)
(* process may crash, be told to stop, and start again.                    *)
(*                                                                         *)
(* What is here: the store (internal/state), Submit / Resume / spawn and   *)
(* the semaphore (internal/scaler/scaler.go), runJob / attempt / createVM  *)
(* / deleteVM (internal/scaler/job.go), the process lifecycle (cmd), and   *)
(* the create and delete handlers of the VM service as the repository's    *)
(* own fake defines them (internal/minicontrol/fake).                      *)
(***************************************************************************)
EXTENDS JobRecord, FiniteSets

CONSTANTS
  Jobs,                \* job keys (job id, run attempt)
  NoJob,               \* "no pending submission"
  MaxConcurrentVMs,    \* limits.max_concurrent_vms
  MaxRejects,          \* bound: capacity rejections per job
  MaxStops,            \* bound: crashes plus SIGTERMs
  DiskMayFail,         \* may writing the state file fail?
  DeleteMayFail,       \* may all three tries of deleteVM fail?
  CreateMayFail,       \* may a create end in an error that is neither 409 nor 429?
  StateFileMayBeLost   \* may the state file be found corrupt or missing?

ASSUME JobsAssumption    == IsFiniteSet(Jobs) /\ NoJob \notin Jobs
ASSUME FleetAssumption   == MaxConcurrentVMs \in Nat \ {0}
ASSUME BoundsAssumption  == MaxRejects \in Nat /\ MaxStops \in Nat
ASSUME FaultsAssumption  == {DiskMayFail, DeleteMayFail, CreateMayFail,
                             StateFileMayBeLost} \subseteq BOOLEAN

VARIABLES
  svc,       \* the process: "up", "stopping" (context cancelled), "down"
  recs,      \* Store.recs: the records in memory
  disk,      \* the state file
  pc,        \* where the worker of a job is; "idle": no worker, not in Scaler.active
  loc,       \* the worker's own copy of the record (rec in runJob)
  sub,       \* the poller inside Submit, between reading the store and spawn
  rest,      \* jobs the poll under way at a SIGTERM has still to submit
  minted,    \* idempotency keys minted so far for a job
  vm,        \* the VM service: what happened to each (job, key)
  finished,  \* GitHub says the job completed
  strays,    \* history: live VMs whose fate the service could not learn
  stops      \* history: crashes and SIGTERMs so far

vars == <<svc, recs, disk, pc, loc, sub, rest, minted, vm, finished, strays,
          stops>>

\* Steps of a worker leave these alone.
env == <<svc, sub, rest, finished, stops>>

WorkerPlaces ==
  {"idle", "sem", "attempt", "create", "response", "backoff", "cleanup",
   "failed", "gaveup", "pace", "delete", "deleted"}

VMStatus == {"unused", "rejected", "live", "gone"}

NoSub == [job |-> NoJob, rec |-> NoRecord]

TypeOK ==
  /\ svc \in {"up", "stopping", "down"}
  /\ recs \in [Jobs -> Records]
  /\ disk \in [Jobs -> Records]
  /\ pc \in [Jobs -> WorkerPlaces]
  /\ loc \in [Jobs -> Records]
  /\ sub \in [job : Jobs \cup {NoJob}, rec : Records]
  /\ rest \in SUBSET Jobs
  /\ minted \in [Jobs -> 0..MaxKeys]
  /\ vm \in [Jobs -> [Keys -> VMStatus]]
  /\ finished \in [Jobs -> BOOLEAN]
  /\ strays \in [Jobs -> SUBSET Keys]
  /\ stops \in 0..MaxStops

----------------------------------------------------------------------------
(* The store: Upsert changes memory first, then writes the whole map.      *)

WriteOutcomes == IF DiskMayFail THEN BOOLEAN ELSE {TRUE}

\* Bug for Upsert: the file is written before memory is updated.
UpsertWritesFirst(k, r, ok) ==
  /\ recs' = [recs EXCEPT ![k] = r]
  /\ disk' = IF ok THEN recs ELSE disk

Upsert(k, r, ok) ==
  /\ recs' = [recs EXCEPT ![k] = r]
  /\ disk' = IF ok THEN recs' ELSE disk

\* persist(): a failed write is only logged.
Persist(k, r) == \E ok \in WriteOutcomes : Upsert(k, r, ok)

----------------------------------------------------------------------------
(* Ownership of VMs and of concurrency slots.                              *)

Live(k)  == {n \in Keys : vm[k][n] = "live"}
Owned(k) == Live(k) \ strays[k]

\* Bug for HoldsSlot: the slot is free again before the VM is deleted.
HoldsSlotUntilDelete(k) == pc[k] \notin {"idle", "sem", "delete", "deleted"}

HoldsSlot(k) == pc[k] \notin {"idle", "sem"}
SlotFree     == Cardinality({k \in Jobs : HoldsSlot(k)}) < MaxConcurrentVMs

Goto(k, p)     == pc' = [pc EXCEPT ![k] = p]
SetLoc(k, r)   == loc' = [loc EXCEPT ![k] = r]
SetVM(k, n, s) == vm' = [vm EXCEPT ![k] = [@ EXCEPT ![n] = s]]

\* The service stops tracking VMs it may still have.
LoseTrack(k) == strays' = [strays EXCEPT ![k] = @ \cup Live(k)]

\* Write r as the worker's record and move to p.
Record(k, r, p) == SetLoc(k, r) /\ Persist(k, r) /\ Goto(k, p)

\* runJob returns: the slot is released, the job leaves Scaler.active.
Return(k)    == Goto(k, "idle") /\ SetLoc(k, NoRecord)
Finish(k, s) == Persist(k, [loc[k] EXCEPT !.state = s]) /\ Return(k)

Init ==
  /\ svc = "up"
  /\ recs = [k \in Jobs |-> NoRecord]
  /\ disk = recs
  /\ pc = [k \in Jobs |-> "idle"]
  /\ loc = recs
  /\ sub = NoSub
  /\ rest = {}
  /\ minted = [k \in Jobs |-> 0]
  /\ vm = [k \in Jobs |-> [n \in Keys |-> "unused"]]
  /\ finished = [k \in Jobs |-> FALSE]
  /\ strays = [k \in Jobs |-> {}]
  /\ stops = 0

----------------------------------------------------------------------------
(* Submit, called by the poller for every job GitHub lists as queued.      *)

\* While the service is up a poll may list any job; a poll under way when
\* the context is cancelled goes through the rest of its list.
Polls(k) ==
  /\ sub = NoSub
  /\ \/ svc = "up" /\ UNCHANGED rest
     \/ svc = "stopping" /\ k \in rest /\ rest' = rest \ {k}

\* Bug for Unseen: a terminal record does not stop a redelivered event.
UnseenOrDone(k) == ~InFlight(recs[k])

Unseen(k) == recs[k].state = "none"

\* First sighting: the record must be durable before a worker exists.
SubmitNew(k) ==
  /\ Polls(k) /\ pc[k] = "idle" /\ Unseen(k)
  /\ \E ok \in WriteOutcomes :
       /\ Upsert(k, NewRecord, ok)
       /\ sub' = IF ok THEN [job |-> k, rec |-> NewRecord] ELSE NoSub
  /\ UNCHANGED <<svc, pc, loc, minted, vm, finished, strays, stops>>

\* A record without a worker (a write that failed, a crash leftover).
SubmitLeftover(k) ==
  /\ Polls(k) /\ pc[k] = "idle" /\ InFlight(recs[k])
  /\ sub' = [job |-> k, rec |-> recs[k]]
  /\ UNCHANGED <<svc, recs, disk, pc, loc, minted, vm, finished, strays, stops>>

\* The job has a worker, or its record is terminal.
SubmitIgnored(k) ==
  /\ Polls(k) /\ (pc[k] # "idle" \/ Terminal(recs[k]))
  /\ UNCHANGED <<svc, recs, disk, pc, loc, sub, minted, vm, finished, strays, stops>>

\* Bug for Spawn: a job that has a worker is given another one.
SpawnAnyway(k, r) == Goto(k, "sem") /\ SetLoc(k, r)

\* spawn: at most one worker per job.
Spawn(k, r) ==
  IF pc[k] = "idle" THEN Goto(k, "sem") /\ SetLoc(k, r) ELSE UNCHANGED <<pc, loc>>

SubmitSpawns ==
  /\ sub.job \in Jobs
  /\ Spawn(sub.job, sub.rec)
  /\ sub' = NoSub
  /\ UNCHANGED <<svc, recs, disk, rest, minted, vm, finished, strays, stops>>

----------------------------------------------------------------------------
(* runJob: wait for a slot, run attempts until one ends the job.           *)

Acquire(k) ==
  /\ pc[k] = "sem" /\ SlotFree
  /\ Goto(k, "attempt")
  /\ UNCHANGED <<recs, disk, loc, minted, vm, strays, env>>

\* The places where a worker notices that the context is cancelled and
\* returns, leaving record and VM for the next start.
StopPlaces(k) ==
  IF pc[k] = "attempt"
    THEN loc[k].state \in {"wait_ready", "bootstrapping", "runner_up", "job_running"}
    ELSE pc[k] \in {"sem", "create", "response", "backoff", "failed", "gaveup", "pace"}

StopsHere(k) ==
  /\ svc = "stopping" /\ StopPlaces(k)
  /\ Return(k)
  /\ UNCHANGED <<recs, disk, minted, vm, strays, env>>

(***************************************************************************)
(* CREATING: a fresh attempt mints a key, a resumed create keeps the one   *)
(* on disk.  The key is durable before the request is sent.  If that write *)
(* fails the attempt fails, and with it the handle on a VM which an        *)
(* earlier incarnation may have created under the key.                     *)
(***************************************************************************)
\* Bug for NeedsKey: a resumed create gets a fresh key too.
NeedsKeyAlways(r) == TRUE

NeedsKey(r) == r.key = 0 \/ r.state = "queued"

BeginCreate(k) ==
  /\ pc[k] = "attempt" /\ loc[k].state \in {"queued", "creating"}
  /\ NeedsKey(loc[k]) => minted[k] < MaxKeys
  /\ LET n == IF NeedsKey(loc[k]) THEN minted[k] + 1 ELSE loc[k].key
         r == [loc[k] EXCEPT !.key = n, !.state = "creating"]
     IN /\ SetLoc(k, r)
        /\ minted' = [minted EXCEPT ![k] = IF NeedsKey(loc[k]) THEN n ELSE @]
        /\ \E ok \in WriteOutcomes :
             /\ Upsert(k, r, ok)
             /\ Goto(k, IF ok THEN "create" ELSE "failed")
             /\ IF ok THEN UNCHANGED strays ELSE LoseTrack(k)
  /\ UNCHANGED <<vm, env>>

\* The VM service handles the request: a key it has seen is answered as
\* before, a new one gets a VM or a capacity rejection that sticks to it.
RejectedKeys(k) == {n \in Keys : vm[k][n] = "rejected"}

ServerCreate(k) ==
  /\ pc[k] = "create"
  /\ \/ vm[k][loc[k].key] # "unused" /\ UNCHANGED vm
     \/ vm[k][loc[k].key] = "unused" /\ SetVM(k, loc[k].key, "live")
     \/ /\ vm[k][loc[k].key] = "unused"
        /\ Cardinality(RejectedKeys(k)) < MaxRejects
        /\ SetVM(k, loc[k].key, "rejected")
  /\ Goto(k, "response")
  /\ UNCHANGED <<recs, disk, loc, minted, strays, env>>

CreateReturns(k) ==
  /\ pc[k] = "response" /\ vm[k][loc[k].key] \in {"live", "gone"}
  /\ Record(k, [loc[k] EXCEPT !.vm = loc[k].key, !.state = "wait_ready"], "attempt")
  /\ UNCHANGED <<minted, vm, strays, env>>

\* 409: every further try needs a fresh, durable key.  Waiting on is only
\* allowed within the deadline fixed when createVM was entered.
CapacityReply(k) ==
  /\ pc[k] = "response" /\ vm[k][loc[k].key] = "rejected"
  /\ minted[k] < MaxKeys
  /\ LET r == [loc[k] EXCEPT !.key = minted[k] + 1]
     IN /\ SetLoc(k, r)
        /\ minted' = [minted EXCEPT ![k] = @ + 1]
        /\ \E ok \in WriteOutcomes :
             /\ Upsert(k, r, ok)
             /\ IF ok THEN Goto(k, "backoff") \/ Goto(k, "gaveup") ELSE Goto(k, "failed")
  /\ UNCHANGED <<vm, strays, env>>

\* 429 is answered before the key is looked at only if the key is new.
RateLimited(k) ==
  /\ pc[k] = "create" /\ vm[k][loc[k].key] = "unused"
  /\ Goto(k, "backoff") \/ Goto(k, "gaveup")
  /\ UNCHANGED <<recs, disk, loc, minted, vm, strays, env>>

\* Any other error, a lost answer included: the attempt fails, and what the
\* server did with the key stays unknown.
CreateFails(k) ==
  /\ CreateMayFail /\ svc = "up"
  /\ pc[k] \in {"create", "response"}
  /\ Goto(k, "failed") /\ LoseTrack(k)
  /\ UNCHANGED <<recs, disk, loc, minted, vm, env>>

\* The wait is over; the request is dropped if the job got handled meanwhile
\* (a GetJobStatus error counts as not handled).
BackoffEnds(k) ==
  /\ pc[k] = "backoff"
  /\ Goto(k, "create")
  /\ UNCHANGED <<recs, disk, loc, minted, vm, strays, env>>

DropsRequest(k) ==
  /\ pc[k] = "backoff" /\ finished[k]
  /\ Finish(k, "complete")
  /\ UNCHANGED <<minted, vm, strays, env>>

----------------------------------------------------------------------------
(* The attempt once the VM exists.                                         *)

VMAnswers(k) == loc[k].vm \in Live(k)

Advance(k, from, to) ==
  /\ pc[k] = "attempt" /\ loc[k].state = from
  /\ Record(k, [loc[k] EXCEPT !.state = to], "attempt")
  /\ UNCHANGED <<minted, vm, strays, env>>

Ready(k)       == VMAnswers(k) /\ Advance(k, "wait_ready", "bootstrapping")
Launched(k)    == VMAnswers(k) /\ Advance(k, "bootstrapping", "runner_up")
MarkRunning(k) == Advance(k, "runner_up", "job_running")
MonitorEnds(k) == \/ Advance(k, "runner_up", "job_done")
                  \/ Advance(k, "job_running", "job_done")

\* waitReady, bootstrapRunner or monitor return an error; unless the service
\* is stopping, failCleanup deletes the VM.
StepFails(k) ==
  /\ svc = "up" /\ pc[k] = "attempt"
  /\ loc[k].state \in {"wait_ready", "bootstrapping", "runner_up", "job_running"}
  /\ Goto(k, "cleanup")
  /\ UNCHANGED <<recs, disk, loc, minted, vm, strays, env>>

\* deleteVM: it returns nothing, so the caller goes on the same way whether
\* the VM is gone (404 counts) or all three tries failed.
DeleteVM(k) ==
  \/ SetVM(k, loc[k].vm, "gone") /\ UNCHANGED strays
  \/ DeleteMayFail /\ LoseTrack(k) /\ UNCHANGED vm

\* Bug for CleanupDelete: the failed attempt's VM is not deleted.
CleanupForgotten(k) ==
  /\ pc[k] = "cleanup" /\ Goto(k, "failed")
  /\ UNCHANGED <<recs, disk, loc, minted, vm, strays, env>>

CleanupDelete(k) ==
  /\ pc[k] = "cleanup"
  /\ DeleteVM(k) /\ Goto(k, "failed")
  /\ UNCHANGED <<recs, disk, loc, minted, env>>

\* Bug for EnterDeleting: the record completes first, the VM is left behind.
CompletesUndeleted(k) ==
  /\ pc[k] = "attempt" /\ loc[k].state \in {"job_done", "deleting"}
  /\ Finish(k, "complete")
  /\ UNCHANGED <<minted, vm, strays, env>>

EnterDeleting(k) ==
  /\ pc[k] = "attempt" /\ loc[k].state \in {"job_done", "deleting"}
  /\ Record(k, [loc[k] EXCEPT !.state = "deleting"], "delete")
  /\ UNCHANGED <<minted, vm, strays, env>>

FinalDelete(k) ==
  /\ pc[k] = "delete"
  /\ DeleteVM(k) /\ Goto(k, "deleted")
  /\ UNCHANGED <<recs, disk, loc, minted, env>>

Complete(k) ==
  /\ pc[k] = "deleted"
  /\ Finish(k, "complete")
  /\ UNCHANGED <<minted, vm, strays, env>>

----------------------------------------------------------------------------
(* runJob after a failed attempt.                                          *)

\* Bug for MayRetry: one retry too many.
MayRetryOnceMore(k) == pc[k] = "failed" /\ loc[k].retry <= MaxRetries

MayRetry(k) == pc[k] = "failed" /\ loc[k].retry < MaxRetries

GiveUpJob(k) ==
  /\ svc = "up" /\ pc[k] \in {"failed", "gaveup"} /\ ~MayRetry(k)
  /\ Finish(k, "failed")
  /\ UNCHANGED <<minted, vm, strays, env>>

JobAlreadyFinished(k) ==
  /\ svc = "up" /\ MayRetry(k) /\ finished[k]
  /\ Finish(k, "complete")
  /\ UNCHANGED <<minted, vm, strays, env>>

Retry(k) ==
  /\ svc = "up" /\ MayRetry(k)
  /\ Record(k, [NewRecord EXCEPT !.retry = loc[k].retry + 1], "pace")
  /\ UNCHANGED <<minted, vm, strays, env>>

PaceEnds(k) ==
  /\ pc[k] = "pace"
  /\ Goto(k, "attempt")
  /\ UNCHANGED <<recs, disk, loc, minted, vm, strays, env>>

----------------------------------------------------------------------------
(* The process and the world around it.                                    *)

LoseMemory ==
  /\ svc' = "down"
  /\ recs' = [k \in Jobs |-> NoRecord] /\ loc' = recs'
  /\ pc' = [k \in Jobs |-> "idle"]
  /\ sub' = NoSub /\ rest' = {}

Crash ==
  /\ svc # "down" /\ stops < MaxStops
  /\ LoseMemory
  /\ stops' = stops + 1
  /\ UNCHANGED <<disk, minted, vm, finished, strays>>

Sigterm ==
  /\ svc = "up" /\ stops < MaxStops
  /\ svc' = "stopping" /\ stops' = stops + 1
  /\ rest' \in SUBSET Jobs
  /\ UNCHANGED <<recs, disk, pc, loc, sub, minted, vm, finished, strays>>

ShutdownDone ==
  /\ svc = "stopping"
  /\ sub = NoSub /\ rest = {} /\ \A k \in Jobs : pc[k] = "idle"
  /\ LoseMemory
  /\ UNCHANGED <<disk, minted, vm, finished, strays, stops>>

\* Bug for Resumes: records that name no VM yet are not resumed.
ResumesAttached(r) == r.state \in Attached

Resumes(r) == InFlight(r)

\* Open, then Resume before anything else runs.  A VM the file still leads
\* to is tracked again.
Restart ==
  /\ svc = "down" /\ svc' = "up"
  /\ recs' = disk
  /\ pc' = [k \in Jobs |-> IF Resumes(disk[k]) THEN "sem" ELSE "idle"]
  /\ loc' = [k \in Jobs |-> IF Resumes(disk[k]) THEN disk[k] ELSE NoRecord]
  /\ strays' = [k \in Jobs |-> {n \in strays[k] : ~Refers(disk[k], n)}]
  /\ UNCHANGED <<disk, sub, rest, minted, vm, finished, stops>>

\* Open finds the file missing, or corrupt and moves it aside.
RestartWithoutState ==
  /\ StateFileMayBeLost
  /\ svc = "down" /\ svc' = "up"
  /\ disk' = recs
  /\ strays' = [k \in Jobs |-> Live(k)]
  /\ UNCHANGED <<recs, pc, loc, sub, rest, minted, vm, finished, stops>>

\* A VM dies on its own (host lost, operator).
VMVanishes(k) ==
  /\ \E n \in Live(k) : SetVM(k, n, "gone")
  /\ UNCHANGED <<svc, recs, disk, pc, loc, sub, rest, minted, finished, strays, stops>>

\* The job ran on some runner, or was cancelled.
JobFinishes(k) ==
  /\ ~finished[k] /\ finished' = [finished EXCEPT ![k] = TRUE]
  /\ UNCHANGED <<svc, recs, disk, pc, loc, sub, rest, minted, vm, strays, stops>>

\* Nothing left to do.
AllHandled ==
  /\ svc = "up" /\ sub = NoSub
  /\ \A k \in Jobs : pc[k] = "idle" /\ Terminal(recs[k])
  /\ UNCHANGED vars

----------------------------------------------------------------------------
Submit(k) == SubmitNew(k) \/ SubmitLeftover(k) \/ SubmitIgnored(k)

CreateStep(k) ==
  \/ BeginCreate(k) \/ ServerCreate(k) \/ CreateReturns(k) \/ CapacityReply(k)
  \/ RateLimited(k) \/ CreateFails(k) \/ BackoffEnds(k) \/ DropsRequest(k)

VMStep(k) ==
  \/ Ready(k) \/ Launched(k) \/ MarkRunning(k) \/ MonitorEnds(k) \/ StepFails(k)
  \/ CleanupDelete(k) \/ EnterDeleting(k) \/ FinalDelete(k) \/ Complete(k)

RetryStep(k) ==
  \/ GiveUpJob(k) \/ JobAlreadyFinished(k) \/ Retry(k) \/ PaceEnds(k)

Worker(k) ==
  Acquire(k) \/ StopsHere(k) \/ CreateStep(k) \/ VMStep(k) \/ RetryStep(k)

Process == Crash \/ Sigterm \/ ShutdownDone \/ Restart \/ RestartWithoutState

Next ==
  \/ \E k \in Jobs : Submit(k) \/ Worker(k) \/ VMVanishes(k) \/ JobFinishes(k)
  \/ SubmitSpawns
  \/ Process
  \/ AllHandled

Spec == Init /\ [][Next]_vars

(***************************************************************************)
(* Fairness.  Workers are goroutines whose blocking steps all have a       *)
(* timeout (HTTP client timeout, provision_timeout, pickup_timeout,        *)
(* max_job_duration, capacity backoff), so a worker that can step steps.   *)
(* Giving up is weakly fair only where it is permanently possible; a       *)
(* worker that keeps being told to wait for capacity gives up because the  *)
(* deadline of createVM is fixed when it is entered: strong fairness.      *)
(* The container runtime restarts the process (compose.yml: restart:       *)
(* always).                                                                *)
(***************************************************************************)
GivesUpWaiting(k) == (RateLimited(k) \/ CapacityReply(k)) /\ pc'[k] = "gaveup"

Fairness ==
  /\ \A k \in Jobs : WF_vars(Worker(k)) /\ SF_vars(GivesUpWaiting(k))
                         /\ WF_vars(svc = "stopping" /\ Submit(k))
  /\ WF_vars(SubmitSpawns)
  /\ WF_vars(ShutdownDone)
  /\ WF_vars(Restart \/ RestartWithoutState)

FairSpec == Spec /\ Fairness

----------------------------------------------------------------------------
(***************************************************************************)
(* The contract: a job's life is that of its durable record, and of its    *)
(* VMs it holds those that are not strays.                                 *)
(***************************************************************************)
LifeOf(r) ==
  IF r.state = "none" THEN "new" ELSE IF Terminal(r) THEN "closed" ELSE "open"

StageOf(k, n) ==
  IF vm[k][n] = "live"
    THEN IF n \in strays[k] THEN "lost" ELSE "held"
    ELSE IF vm[k][n] = "gone" THEN "gone" ELSE "unused"

Lives  == [k \in Jobs |-> LifeOf(disk[k])]
Stages == [k \in Jobs |-> [n \in Keys |-> StageOf(k, n)]]

Contract == INSTANCE VMLease WITH
  Ids <- Keys, MayForget <- StateFileMayBeLost, life <- Lives, lease <- Stages

----------------------------------------------------------------------------
(* Properties.                                                             *)

\* The scaler keeps the contract of VMLease: a VM is created only for a job
\* whose durable record is open and that holds none, every VM once; a record
\* is closed only when the job holds no VM, and then for good.
KeepsContract == Contract!Spec

\* While a create may reach the VM service, the state file already holds the
\* key it is made under (job.go:86: "the key MUST be durable before the
\* server sees it"), so a crash at any of these points can replay it.
KeyDurable ==
  \A k \in Jobs : pc[k] \in {"create", "response"} =>
    /\ disk[k].state = "creating" /\ disk[k].key = loc[k].key
    /\ loc[k].key \in Keys

\* No VM leaks: every live VM is either one whose fate a failed call hid from
\* the service (strays), or the state file leads back to it, and so does the
\* store in memory while the process runs.  Whatever the order of crashes,
\* failed writes, replays, retries and late answers.
NoLeak ==
  \A k \in Jobs : \A n \in Owned(k) :
    /\ Refers(disk[k], n)
    /\ svc # "down" => Refers(recs[k], n)

\* A retry, a replayed create or a restart never gives a job a second VM
\* while the first is still tracked.
OneVMPerJob == \A k \in Jobs : Cardinality(Owned(k)) <= 1

\* A job costs at most MaxRetries + 1 VMs, crashes and replays included, as
\* long as the state file survives (TestBootstrapFailureRetriesThenFails).
RetryBudget ==
  ~StateFileMayBeLost => \A k \in Jobs :
    Cardinality({n \in Keys : vm[k][n] \in {"live", "gone"}}) <= MaxRetries + 1

\* The fleet bound (config.example.yaml, limits.max_concurrent_vms): the jobs
\* with a tracked VM never outnumber it, that is, no worker gives its slot
\* back while its VM lives.
FleetBound == Cardinality({k \in Jobs : Owned(k) # {}}) <= MaxConcurrentVMs

\* What the code guarantees: the fleet bound until the first crash or SIGTERM.
FleetBoundUnlessStopped == stops = 0 => FleetBound

\* A terminal record in the state file is final: no crash, restart, late
\* write or redelivered event brings the job back
\* (scaler_test.go: "Late redelivery of queued must not resurrect the job").
TerminalIsFinal ==
  [][\A k \in Jobs : Terminal(disk[k]) => disk'[k] = disk[k] \/ disk'[k] = NoRecord]_vars

\* Work is finished with: every job with a worker ends in a terminal record,
\* through retries, capacity waits, crashes and restarts.
WorkersSettle ==
  \A k \in Jobs : (pc[k] # "idle") ~> Terminal(recs[k])
=============================================================================
