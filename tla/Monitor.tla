------------------------------- MODULE Monitor -------------------------------
(***************************************************************************)
(* The part of a job's life that Scaler keeps abstract: the runner is      *)
(* bootstrapped in the VM (bootstrapRunner), claims a job, and the worker  *)
(* monitors it (monitor, runnerBusy) until the VM may be deleted.          *)
(*                                                                         *)
(* Runners claim jobs by label, not by name: the runner created for one    *)
(* job may run a sibling's.  The worker learns what happens from three     *)
(* sources that change between its calls: the marker file in the VM, the   *)
(* job's status and the runner listing, both at GitHub.  The sweep of      *)
(* stale runner registrations (reconciler, cleanRunners) runs beside it.   *)
(*                                                                         *)
(* Here creating and deleting a VM and writing a record always succeed     *)
(* (Scaler has their failures); a crash loses the worker, never the VM,    *)
(* but a VM may vanish on its own.                                         *)
(***************************************************************************)
EXTENDS Naturals, FiniteSets

CONSTANTS
  Jobs,
  MaxRetries,      \* limits.max_retries_per_job
  MaxStagings,     \* bound: runners registered for one VM
  MaxFaults,       \* bound: crashes of the process and VMs that vanish, together
  GitHubMayFail,   \* may a call to GitHub fail?
  ExecMayFail,     \* may an exec in the VM fail, or its answer be lost?
  RunnerMayFail,   \* may the script or the runner die on its own?
  ScriptMayLag,    \* may the script's first phase come after a restart?
  UnlistedMayCome  \* may a runner be handed a job that no record is about?

ASSUME BoundsAssumption == {MaxRetries, MaxFaults} \subseteq Nat /\ MaxStagings \in Nat \ {0}
ASSUME FaultsAssumption ==
  {GitHubMayFail, ExecMayFail, RunnerMayFail, ScriptMayLag, UnlistedMayCome} \subseteq BOOLEAN

VMs     == Jobs \X (0..MaxRetries)          \* one per attempt of a job
\* The registrations for one VM.  Number 0 is one whose id never reached the
\* record: the answer, or the process, was lost just after GitHub made it.
Runners == {<<v, i>> : v \in VMs, i \in 0..MaxStagings}
Nobody   == <<>>                            \* job not claimed
Stranger == <<"stranger">>                  \* claimed by a runner of another fleet

VARIABLES
  job,       \* GitHub: status of each job
  claimant,  \* GitHub: the runner that claimed it
  reg,       \* GitHub: registered runners
  proc,      \* the runner processes
  up,        \* the VMs that exist
  marker,    \* status file in each VM; "done" is EXIT=0, "died" another exit
  rec,       \* the record: state, retry, and which runner RunnerID names
  at,        \* where the worker is
  jobDone,   \* monitor's jobDone
  listed,    \* VMs as the sweep under way listed them; before that, all of them
  doomed,    \* registrations it found stale and has still to remove
  faults     \* history: crashes and vanished VMs so far

github == <<job, claimant>>
machines == <<proc, up, marker>>
sweep == <<listed, doomed>>
vars == <<github, reg, machines, rec, at, jobDone, sweep, faults>>

Places == {"none", "create", "attempt", "removeold", "register", "stage", "launch", "launched", "tick",
           "exited", "poll", "decide", "deadlines", "pickup", "cleanup", "delete",
           "unregister", "failed", "retry", "end"}

RecStates == {"none", "queued", "bootstrapping", "runner_up", "job_running", "job_done",
              "complete", "failed"}

\* What ParseStatus makes of the status file, as far as the worker tells it
\* apart.
Phases == {"", "run", "failed", "done", "died"}

TypeOK ==
  /\ job \in [Jobs -> {"queued", "in_progress", "completed"}]
  /\ claimant \in [Jobs -> Runners \cup {Nobody, Stranger}]
  /\ reg \subseteq Runners
  /\ proc \in [Runners -> {"unused", "started", "setup", "listening", "busy", "leaving", "exited"}]
  /\ up \subseteq VMs
  /\ marker \in [VMs -> Phases]
  /\ rec \in [Jobs -> [state : RecStates, retry : 0..MaxRetries, runner : 0..MaxStagings]]
  /\ at \in [Jobs -> Places]
  /\ jobDone \in [Jobs -> BOOLEAN]
  /\ listed \subseteq VMs /\ doomed \subseteq Runners
  /\ faults \in 0..MaxFaults

Init ==
  /\ job = [k \in Jobs |-> "queued"] /\ claimant = [k \in Jobs |-> Nobody]
  /\ reg = {} /\ proc = [r \in Runners |-> "unused"]
  /\ up = {} /\ marker = [v \in VMs |-> ""]
  /\ rec = [k \in Jobs |-> [state |-> "none", retry |-> 0, runner |-> 0]]
  /\ at = [k \in Jobs |-> "none"] /\ jobDone = [k \in Jobs |-> FALSE]
  /\ listed = VMs /\ doomed = {} /\ faults = 0

----------------------------------------------------------------------------
VM(k)   == <<k, rec[k].retry>>
Mine(k) == <<VM(k), rec[k].runner>>        \* the runner rec.RunnerID names
NoId(k) == <<VM(k), 0>>
On(v)   == {r \in Runners : r[1] = v}      \* the runners that ran on a VM

BootStarted(v) == marker[v] # ""
BootFailed(v)  == marker[v] = "failed"
RunnerDone(v)  == marker[v] \in {"done", "died"}

Goto(k, p)  == at' = [at EXCEPT ![k] = p]
Mark(v, m)  == marker' = [marker EXCEPT ![v] = m]
State(k, s) == rec' = [rec EXCEPT ![k].state = s]

\* A call to GitHub, or an exec, ends in an error.
GitHubFails == GitHubMayFail
ExecFails   == ExecMayFail

\* The job is found queued.
Submit(k) ==
  /\ rec[k].state = "none"
  /\ State(k, "queued") /\ Goto(k, "create")
  /\ UNCHANGED <<github, reg, machines, jobDone, sweep, faults>>

\* A fresh VM for the job, up to the state BOOTSTRAPPING.
Provision(k) ==
  /\ at[k] = "create"
  /\ up' = up \cup {VM(k)}
  /\ State(k, "bootstrapping") /\ Goto(k, "attempt")
  /\ UNCHANGED <<github, reg, proc, marker, jobDone, sweep, faults>>

----------------------------------------------------------------------------
(* bootstrapRunner.                                                        *)

\* The marker shows that an earlier incarnation launched the runner.
Reattach(k) ==
  /\ at[k] = "attempt" /\ rec[k].state = "bootstrapping"
  /\ VM(k) \in up /\ BootStarted(VM(k))
  /\ State(k, "runner_up") /\ Goto(k, "tick")
  /\ UNCHANGED <<github, reg, machines, jobDone, sweep, faults>>

\* No marker, or no answer: as if nothing had been launched.
StartsAfresh(k) ==
  /\ at[k] = "attempt" /\ rec[k].state = "bootstrapping"
  /\ \/ ExecFails \/ VM(k) \notin up
     \/ ~BootStarted(VM(k)) /\ (ScriptMayLag \/ \A r \in On(VM(k)) : proc[r] # "started")
  /\ Goto(k, IF rec[k].runner = 0 THEN "register" ELSE "removeold")
  /\ UNCHANGED <<github, reg, machines, rec, jobDone, sweep, faults>>

\* Bug for RemoveOld: the old registration is left to the sweep.
LeavesOld(k) ==
  /\ at[k] = "removeold" /\ Goto(k, "register")
  /\ UNCHANGED <<github, reg, machines, rec, jobDone, sweep, faults>>

\* Best effort, and without looking whether that runner is idle.
RemoveOld(k) ==
  /\ at[k] = "removeold"
  /\ reg' = reg \ {Mine(k)} \/ (GitHubFails /\ UNCHANGED reg)
  /\ Goto(k, "register")
  /\ UNCHANGED <<github, machines, rec, jobDone, sweep, faults>>

\* generate-jitconfig registers at once; the id is persisted.
Register(k) ==
  /\ at[k] = "register" /\ rec[k].runner < MaxStagings
  /\ \/ /\ rec' = [rec EXCEPT ![k].runner = @ + 1]
        /\ reg' = reg \cup {<<VM(k), rec'[k].runner>>}
        /\ Goto(k, "stage")
     \/ /\ GitHubFails /\ Goto(k, "cleanup") /\ UNCHANGED rec
        /\ reg' = reg \cup {NoId(k)} \/ UNCHANGED reg
  /\ UNCHANGED <<github, machines, jobDone, sweep, faults>>

\* Staging removes the status file of an earlier launch.
Stage(k) ==
  /\ at[k] = "stage"
  /\ \/ VM(k) \in up /\ Mark(VM(k), "") /\ (Goto(k, "launch") \/ (ExecFails /\ Goto(k, "cleanup")))
     \/ (ExecFails \/ VM(k) \notin up) /\ Goto(k, "cleanup") /\ UNCHANGED marker
  /\ UNCHANGED <<github, reg, proc, up, rec, jobDone, sweep, faults>>

\* The script runs detached: the exec does not wait for its first phase.
Launch(k) ==
  /\ at[k] = "launch"
  /\ \/ /\ VM(k) \in up /\ proc' = [proc EXCEPT ![Mine(k)] = "started"]
        /\ Goto(k, "launched") \/ (ExecFails /\ Goto(k, "cleanup"))
     \/ (ExecFails \/ VM(k) \notin up) /\ Goto(k, "cleanup") /\ UNCHANGED proc
  /\ UNCHANGED <<github, reg, up, marker, rec, jobDone, sweep, faults>>

Launched(k) ==
  /\ at[k] = "launched"
  /\ State(k, "runner_up") /\ Goto(k, "tick")
  /\ UNCHANGED <<github, reg, machines, jobDone, sweep, faults>>

----------------------------------------------------------------------------
(* monitor.                                                                *)

Monitors(k, p) == at[k] = p /\ rec[k].state \in {"runner_up", "job_running"}

Resumed(k) ==
  /\ Monitors(k, "attempt") /\ Goto(k, "tick")
  /\ UNCHANGED <<github, reg, machines, rec, jobDone, sweep, faults>>

ReadMarker(k) ==
  /\ Monitors(k, "tick")
  /\ \/ VM(k) \notin up /\ Goto(k, "cleanup")
     \/ /\ VM(k) \in up
        /\ \/ BootFailed(VM(k)) /\ Goto(k, "cleanup")
           \/ RunnerDone(VM(k)) /\ Goto(k, "exited")
           \/ ~BootFailed(VM(k)) /\ ~RunnerDone(VM(k)) /\ Goto(k, "poll")
           \/ ExecFails /\ Goto(k, "poll")
  /\ UNCHANGED <<github, reg, machines, rec, jobDone, sweep, faults>>

\* Our runner exited: the job's status decides, or, if GitHub cannot be
\* asked, the exit code does.
Completed(k) == State(k, "job_done") /\ Goto(k, "delete")

\* Bug for StillQueued: the job is taken for served.
QueuedCountsAsServed(k) == job[k] = "queued" /\ Completed(k)

StillQueued(k) == job[k] = "queued" /\ Goto(k, "cleanup") /\ UNCHANGED rec

RunnerExited(k) ==
  /\ Monitors(k, "exited")
  /\ \/ job[k] # "queued" /\ Completed(k)
     \/ StillQueued(k)
     \/ GitHubFails /\ marker[VM(k)] = "done" /\ Completed(k)
     \/ GitHubFails /\ marker[VM(k)] = "died" /\ Goto(k, "cleanup") /\ UNCHANGED rec
  /\ UNCHANGED <<github, reg, machines, jobDone, sweep, faults>>

\* Every third tick GitHub is asked for the job.
PollJob(k) ==
  /\ Monitors(k, "poll")
  /\ \/ UNCHANGED <<rec, jobDone>>
     \/ job[k] = "completed" /\ jobDone' = [jobDone EXCEPT ![k] = TRUE] /\ UNCHANGED rec
     \/ /\ job[k] = "in_progress" /\ claimant[k] = Mine(k)
        /\ State(k, "job_running") /\ UNCHANGED jobDone
  /\ Goto(k, "decide")
  /\ UNCHANGED <<github, reg, machines, sweep, faults>>

\* runnerBusy may answer busy: no registration means the runner is gone.
RunnerBusy(k, busy) ==
  \/ GitHubFails /\ busy
  \/ busy = (Mine(k) \in reg /\ proc[Mine(k)] = "busy")

\* The job is over and the runner idle: release the VM.
Release(k) ==
  /\ Monitors(k, "decide") /\ jobDone[k] /\ RunnerBusy(k, FALSE)
  /\ Completed(k)
  /\ UNCHANGED <<github, reg, machines, jobDone, sweep, faults>>

\* The job is not over, or the runner is busy: the deadlines are looked at.
StaysUp(k) ==
  /\ Monitors(k, "decide") /\ (jobDone[k] => RunnerBusy(k, TRUE))
  /\ Goto(k, "deadlines")
  /\ UNCHANGED <<github, reg, machines, rec, jobDone, sweep, faults>>

\* The pickup deadline, a request of its own: a busy runner gets more time,
\* for an idle one the job's status is asked.
KeepWaiting(k) ==
  /\ Monitors(k, "deadlines")
  /\ \/ Goto(k, "tick")
     \/ rec[k].state = "runner_up" /\ RunnerBusy(k, FALSE) /\ Goto(k, "pickup")
  /\ UNCHANGED <<github, reg, machines, rec, jobDone, sweep, faults>>

\* Bug for PickupOver: an idle runner's job is taken for handled.
PickupOverUnasked(k) ==
  /\ Monitors(k, "pickup") /\ Completed(k)
  /\ UNCHANGED <<github, reg, machines, jobDone, sweep, faults>>

PickupOver(k) ==
  /\ Monitors(k, "pickup")
  /\ \/ job[k] = "completed" /\ Completed(k)
     \/ (job[k] # "completed" \/ GitHubFails) /\ Goto(k, "cleanup") /\ UNCHANGED rec
  /\ UNCHANGED <<github, reg, machines, jobDone, sweep, faults>>

\* Bug for TooLong: the deadline is not looked at once the job is done.
TooLongUnlessDone(k) ==
  /\ Monitors(k, "deadlines") /\ ~jobDone[k]
  /\ Goto(k, "cleanup")
  /\ UNCHANGED <<github, reg, machines, rec, jobDone, sweep, faults>>

\* max_job_duration is over.
TooLong(k) ==
  /\ Monitors(k, "deadlines")
  /\ Goto(k, "cleanup")
  /\ UNCHANGED <<github, reg, machines, rec, jobDone, sweep, faults>>

----------------------------------------------------------------------------
(* The end of an attempt.                                                  *)

Kill(v) ==
  /\ up' = up \ {v}
  /\ proc' = [r \in Runners |-> IF r \in On(v) /\ proc[r] # "unused" THEN "exited" ELSE proc[r]]
  /\ UNCHANGED marker

\* Bug for MayRetry: one retry too many.
MayRetryOnceMore(k) == rec[k].retry <= MaxRetries

MayRetry(k) == rec[k].retry < MaxRetries

\* Bug for Cleanup: the failed attempt's VM is left to the sweep.
CleanupLeavesVM(k) ==
  /\ at[k] = "cleanup" /\ Goto(k, "failed")
  /\ UNCHANGED <<github, reg, machines, rec, jobDone, sweep, faults>>

Cleanup(k) ==
  /\ at[k] = "cleanup"
  /\ Kill(VM(k)) /\ Goto(k, "failed")
  /\ UNCHANGED <<github, reg, rec, jobDone, sweep, faults>>

\* runJob's loop: another attempt, if one is left and the job still needs it.
AttemptFailed(k) ==
  /\ at[k] = "failed" /\ jobDone' = [jobDone EXCEPT ![k] = FALSE]
  /\ \/ ~MayRetry(k) /\ State(k, "failed") /\ Goto(k, "end")
     \/ /\ MayRetry(k)
        /\ \/ job[k] = "completed" /\ State(k, "complete") /\ Goto(k, "end")
           \/ (job[k] # "completed" \/ GitHubFails) /\ Goto(k, "retry") /\ UNCHANGED rec
  /\ UNCHANGED <<github, reg, machines, sweep, faults>>

Retry(k) ==
  /\ at[k] = "retry"
  /\ rec' = [rec EXCEPT ![k] = [state |-> "queued", retry |-> @.retry + 1, runner |-> 0]]
  /\ Goto(k, "create")
  /\ UNCHANGED <<github, reg, machines, jobDone, sweep, faults>>

Delete(k) ==
  /\ at[k] = "delete"
  /\ Kill(VM(k)) /\ Goto(k, "unregister")
  /\ UNCHANGED <<github, reg, rec, jobDone, sweep, faults>>

\* Best effort: a registration that still shows as online stays.
Unregister(k) ==
  /\ at[k] = "unregister"
  /\ reg' = reg \ {Mine(k)} \/ UNCHANGED reg
  /\ State(k, "complete") /\ Goto(k, "end")
  /\ UNCHANGED <<github, machines, jobDone, sweep, faults>>

----------------------------------------------------------------------------
(* Runners and GitHub.                                                     *)

\* The script writes its first phase.
FirstPhase(r) ==
  /\ proc[r] = "started"
  /\ proc' = [proc EXCEPT ![r] = "setup"] /\ Mark(r[1], "run")
  /\ UNCHANGED <<github, reg, up, rec, at, jobDone, sweep, faults>>

\* A registered runner comes online; without a registration it exits.
Listens(r) ==
  /\ proc[r] = "setup"
  /\ \/ r \in reg /\ proc' = [proc EXCEPT ![r] = "listening"] /\ UNCHANGED marker
     \/ r \notin reg /\ proc' = [proc EXCEPT ![r] = "exited"] /\ Mark(r[1], "died")
  /\ UNCHANGED <<github, reg, up, rec, at, jobDone, sweep, faults>>

\* The bootstrap fails, or the runner dies before it has a job.
Dies(r) ==
  /\ \/ RunnerMayFail /\ proc[r] \in {"setup", "listening"}
     \/ proc[r] = "listening" /\ r \notin reg
  /\ \/ proc[r] = "setup" /\ Mark(r[1], "failed")
     \/ proc[r] = "listening" /\ Mark(r[1], "died")
  /\ proc' = [proc EXCEPT ![r] = "exited"]
  /\ UNCHANGED <<github, reg, up, rec, at, jobDone, sweep, faults>>

\* GitHub hands any queued job to any idle runner with its labels.
Claim(r, k) ==
  /\ proc[r] = "listening" /\ r \in reg /\ job[k] = "queued"
  /\ proc' = [proc EXCEPT ![r] = "busy"]
  /\ job' = [job EXCEPT ![k] = "in_progress"]
  /\ claimant' = [claimant EXCEPT ![k] = r]
  /\ UNCHANGED <<reg, up, marker, rec, at, jobDone, sweep, faults>>

\* It may as well be a job that no record is about: one the poller has not
\* listed yet, or whose record is closed.
ClaimUnlisted(r) ==
  /\ UnlistedMayCome /\ proc[r] = "listening" /\ r \in reg
  /\ proc' = [proc EXCEPT ![r] = "busy"]
  /\ UNCHANGED <<github, reg, up, marker, rec, at, jobDone, sweep, faults>>

UnlistedEnds(r) ==
  /\ proc[r] = "busy" /\ \A k \in Jobs : claimant[k] # r
  /\ proc' = [proc EXCEPT ![r] = "leaving"]
  /\ UNCHANGED <<github, reg, up, marker, rec, at, jobDone, sweep, faults>>

\* The job ends (GitHub notices a runner that was lost, too).
JobEnds(k) ==
  /\ job[k] = "in_progress"
  /\ job' = [job EXCEPT ![k] = "completed"]
  /\ proc' = [r \in Runners |-> IF r = claimant[k] /\ proc[r] = "busy" THEN "leaving" ELSE proc[r]]
  /\ UNCHANGED <<claimant, reg, up, marker, rec, at, jobDone, sweep, faults>>

\* An ephemeral runner exits after its job and is deregistered.
Leaves(r) ==
  /\ proc[r] = "leaving"
  /\ proc' = [proc EXCEPT ![r] = "exited"] /\ reg' = reg \ {r}
  /\ \/ Mark(r[1], "done")
     \/ RunnerMayFail /\ Mark(r[1], "died")
  /\ UNCHANGED <<github, up, rec, at, jobDone, sweep, faults>>

\* Cancelled, or claimed by another fleet's runner.
Elsewhere(k) ==
  /\ job[k] = "queued"
  /\ \/ job' = [job EXCEPT ![k] = "completed"] /\ UNCHANGED claimant
     \/ /\ job' = [job EXCEPT ![k] = "in_progress"]
        /\ claimant' = [claimant EXCEPT ![k] = Stranger]
  /\ UNCHANGED <<reg, machines, rec, at, jobDone, sweep, faults>>

\* A VM vanishes on its own.
Vanishes(v) ==
  /\ faults < MaxFaults /\ faults' = faults + 1
  /\ v \in up /\ Kill(v)
  /\ UNCHANGED <<github, reg, rec, at, jobDone, sweep>>

----------------------------------------------------------------------------
(* The process crashes and restarts; the reconciler sweeps registrations.  *)

\* Bug for ResumesAt: only records with a VM are taken up again.
ResumesVMs(state) ==
  CASE state \in {"none", "queued"} -> "none"
    [] state \in {"bootstrapping", "runner_up", "job_running"} -> "attempt"
    [] state = "job_done" -> "delete"
    [] OTHER -> "end"

\* Where a restart puts the worker of a record in this state.
ResumesAt(state) ==
  CASE state = "none" -> "none"
    [] state = "queued" -> "create"
    [] state \in {"bootstrapping", "runner_up", "job_running"} -> "attempt"
    [] state = "job_done" -> "delete"
    [] OTHER -> "end"

Crash ==
  /\ faults < MaxFaults /\ faults' = faults + 1
  /\ at' = [k \in Jobs |-> ResumesAt(rec[k].state)]
  /\ jobDone' = [k \in Jobs |-> FALSE]
  /\ listed' = VMs /\ doomed' = {}
  /\ \E lost \in SUBSET {k \in Jobs : at[k] = "register"} : reg' = reg \cup {NoId(k) : k \in lost}
  /\ UNCHANGED <<github, machines, rec>>

ListVMs ==
  /\ doomed = {} /\ listed' = up
  /\ UNCHANGED <<github, reg, machines, rec, at, jobDone, doomed, faults>>

\* Bug for Offline: a runner that never came online is left alone.
OfflineAfterRun(r) == proc[r] = "exited"

Offline(r) == proc[r] \in {"unused", "started", "setup", "exited"}

\* Stale: offline, not busy, and its VM was not in the listing.
Stale(r, alive) == Offline(r) /\ r[1] \notin alive

ListRunners ==
  /\ doomed = {}
  /\ doomed' = {r \in reg : Stale(r, listed)}
  /\ listed' = VMs
  /\ UNCHANGED <<github, reg, machines, rec, at, jobDone, faults>>

CleanRunner(r) ==
  /\ r \in doomed /\ doomed' = doomed \ {r}
  /\ reg' = reg \ {r} \/ (GitHubFails /\ UNCHANGED reg)
  /\ UNCHANGED <<github, machines, rec, at, jobDone, listed, faults>>

----------------------------------------------------------------------------
Bootstraps(k) ==
  Reattach(k) \/ StartsAfresh(k) \/ RemoveOld(k) \/ Register(k) \/ Stage(k) \/ Launch(k)
  \/ Launched(k)

Watches(k) ==
  \/ Resumed(k) \/ ReadMarker(k) \/ RunnerExited(k) \/ PollJob(k)
  \/ Release(k) \/ StaysUp(k) \/ KeepWaiting(k) \/ PickupOver(k) \/ TooLong(k)

Worker(k) ==
  \/ Submit(k) \/ Provision(k) \/ Bootstraps(k) \/ Watches(k)
  \/ Cleanup(k) \/ AttemptFailed(k) \/ Retry(k) \/ Delete(k) \/ Unregister(k)

Runner(r) ==
  \/ FirstPhase(r) \/ Listens(r) \/ Dies(r) \/ Leaves(r)
  \/ ClaimUnlisted(r) \/ UnlistedEnds(r) \/ \E k \in Jobs : Claim(r, k)

Next ==
  \/ \E k \in Jobs : Worker(k) \/ JobEnds(k) \/ Elsewhere(k)
  \/ \E r \in Runners : Runner(r) \/ CleanRunner(r)
  \/ \E v \in VMs : Vanishes(v)
  \/ ListVMs \/ ListRunners
  \/ Crash

Spec == Init /\ [][Next]_vars

\* What a runner does in the end: it is not bound to die, nor to be handed a
\* job that no record is about.
RunnerGoesOn(r) ==
  \/ FirstPhase(r) \/ Listens(r) \/ (r \notin reg /\ Dies(r)) \/ Leaves(r)
  \/ UnlistedEnds(r) \/ \E k \in Jobs : Claim(r, k)

(***************************************************************************)
(* Fairness: every call of a worker has a timeout, its ticks and deadlines *)
(* come from the clock; runners start, run and leave; GitHub hands jobs    *)
(* out and lets them end; the sweep runs on a ticker.                      *)
(***************************************************************************)
Fairness ==
  /\ \A k \in Jobs : WF_vars(Worker(k)) /\ SF_vars(TooLong(k)) /\ WF_vars(JobEnds(k))
  /\ WF_vars(\E r \in Runners : RunnerGoesOn(r))
  /\ WF_vars(ListVMs \/ ListRunners)
  /\ SF_vars(\E r \in Runners : CleanRunner(r) /\ r \notin reg')

FairSpec == Spec /\ Fairness

----------------------------------------------------------------------------
(* The contract of VMLease, which knows neither runners nor GitHub.        *)

LifeOf(state) ==
  IF state = "none" THEN "new"
  ELSE IF state \in {"complete", "failed"} THEN "closed" ELSE "open"

\* A VM is named by the attempt that made it; the latest is `rec.retry`.
StageOf(k, n) ==
  IF <<k, n>> \in up THEN "held"
  ELSE IF n < rec[k].retry \/ (n = rec[k].retry /\ rec[k].state \notin {"none", "queued"})
       THEN "gone" ELSE "unused"

Lives  == [k \in Jobs |-> LifeOf(rec[k].state)]
Stages == [k \in Jobs |-> [n \in 0..MaxRetries |-> StageOf(k, n)]]

Contract == INSTANCE VMLease WITH
  Ids <- 0..MaxRetries, MayForget <- FALSE, life <- Lives, lease <- Stages

----------------------------------------------------------------------------
(* Properties.                                                             *)

\* The worker that monitors and retries keeps the contract of VMLease: a VM is
\* made for an open record that holds none, and a record is closed when its VM
\* is gone, in whatever order runners, GitHub and crashes get in between.
KeepsContract == Contract!Spec

Busy(v) == \E r \in On(v) : proc[r] = "busy"

\* The moment a worker finds its runner idle and turns to ending the attempt.
GivesUp(k) ==
  \/ at[k] = "decide" /\ at'[k] = "delete"
  \/ at[k] = "deadlines" /\ at'[k] = "pickup"

\* job.go:481: "Release the VM only when our runner is provably idle": at the
\* moment a worker gives a VM up as idle, nothing runs in that VM.  The code
\* does not keep this: the sweep removes the registration of
\* a runner that was still coming up when it looked (reconciler.go:149), and
\* a runner without a registration counts as idle (job.go:525).
GivesUpOnlyIdle ==
  [][\A k \in Jobs : GivesUp(k) => ~Busy(VM(k))]_vars

\* What it does keep, across crashes in the middle of a bootstrap, execs that
\* fail and scripts that come late: no VM is given up as idle while a runner in
\* it that GitHub still knows is busy, whichever launch that runner is of and
\* whosever job it has.  The worker asks for one runner only, by the id it
\* remembers, so this rests on RemoveOld: GitHub must not refuse the removal.
GivesUpNoRegistered ==
  [][\A k \in Jobs :
       GivesUp(k) => \A r \in On(VM(k)) \cap reg : proc[r] # "busy"]_vars

Served == {"job_done", "complete"}

\* A record completes only for a job that some runner has claimed or that was
\* cancelled: no job is dropped because its runner served another one
\* (scaler_test.go:386, TestMarkerExitWhileJobStillPending).  Only where a call
\* to GitHub fails does the runner's exit code decide instead (job.go:411), and
\* then a queued job may be dropped.
CompleteMeansClaimed ==
  [][\A k \in Jobs :
       rec[k].state \notin Served /\ rec'[k].state \in Served
       => job[k] # "queued" \/ (GitHubMayFail /\ marker[VM(k)] = "done")]_vars

\* README.md:41: "a job record only completes when GitHub says its job
\* completed".  It also does when GitHub says that another runner has it
\* (job.go:422).
CompleteMeansOver ==
  \A k \in Jobs : rec[k].state \in Served => job[k] = "completed"

\* Every queued job is claimed or cancelled in the end, unless its record uses
\* up its retries: a crash, a VM that vanishes, a failing call, a runner that
\* dies, loses its registration to the sweep or serves a job that no record is
\* about costs a retry, never the job.  With a GitHub that may fail, the record
\* may also have been completed by an exit code (see CompleteMeansClaimed).
JobsServed ==
  \A k \in Jobs :
    []<>(\/ job[k] # "queued" \/ rec[k].state = "failed"
         \/ GitHubMayFail /\ rec[k].state = "complete")

\* Monitoring ends and the VM is deleted, whatever GitHub and the VM answer,
\* and however often its runner is found busy: the deadlines see to it.
VMsGo == \A k \in Jobs : []<>(\A v \in up : v[1] # k)

\* The registration of a runner whose VM is gone is removed in the end, by
\* the worker, by GitHub or by the sweep.
LeftoversRemoved ==
  \A k \in Jobs : []<>(\A r \in reg : r[1][1] = k => r[1] \in up)
==============================================================================
