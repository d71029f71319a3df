---------------------------- MODULE MonitorProofs ----------------------------
(***************************************************************************)
(* The worker that bootstraps a runner and monitors it, for any number of  *)
(* jobs, retries, runners per VM and faults: it keeps the contract of      *)
(* VMLease whatever fails, and completes no job that nobody claimed unless *)
(* GitHub fails; with GitHub answering, it gives no VM up as idle in which *)
(* a registered runner is busy, although execs fail and scripts lag.       *)
(***************************************************************************)
EXTENDS Monitor, TLAPS

\* Where a worker can be with a record in this state.
FitsAt(p, s) ==
  /\ p = "none" => s = "none"
  /\ p = "create" => s = "queued"
  /\ p \in {"removeold", "register", "stage", "launch", "launched"} => s = "bootstrapping"
  /\ p \in {"attempt", "cleanup", "failed", "retry"}
       => s \in {"bootstrapping", "runner_up", "job_running"}
  /\ p \in {"tick", "exited", "poll", "decide", "deadlines", "pickup"}
       => s \in {"runner_up", "job_running"}
  /\ p \in {"delete", "unregister"} => s = "job_done"
  /\ p = "end" => s \in {"complete", "failed"}

Provided == {"bootstrapping", "runner_up", "job_running", "job_done"}

PlaceFits(k) == FitsAt(at[k], rec[k].state)

\* The only VM of a job is the one of its current attempt, which is there
\* until the attempt has ended.
VMsFit(k) ==
  /\ \A n \in 0..MaxRetries :
       <<k, n>> \in up => n = rec[k].retry /\ rec[k].state \in Provided
  /\ at[k] \in {"failed", "retry", "unregister"} => VM(k) \notin up

RetryLeft(k)  == at[k] = "retry" => MayRetry(k)
DoneIsOver(k) == jobDone[k] => job[k] = "completed"

JobFits(k) == PlaceFits(k) /\ VMsFit(k) /\ RetryLeft(k) /\ DoneIsOver(k)
BaseInv    == TypeOK /\ \A k \in Jobs : JobFits(k)

\* What "no registered runner is busy in a VM given up as idle" rests on.  A
\* registration whose id was lost is never started.
NeverRun == \A v \in VMs : proc[<<v, 0>>] = "unused"

\* A launch is of a runner the record names.
HasRunner(k) == at[k] \in {"stage", "launch"} => rec[k].runner # 0

\* Of the others made for the record's VM, GitHub knows the one the record
\* names, or none while the next is being registered.
OnlyNamed(k) ==
  \A r \in reg : r[1] = VM(k) /\ r[2] # 0 => r = Mine(k) /\ at[k] # "register"

\* No registration is for an attempt to come.
NotAhead == \A r \in reg : r[1][2] <= rec[r[1][1]].retry

SoleInv == NeverRun /\ NotAhead /\ \A k \in Jobs : HasRunner(k) /\ OnlyNamed(k)

-----------------------------------------------------------------------------
(* Names.                                                                  *)

LEMMA Bounds ==
  MaxRetries \in Nat /\ MaxFaults \in Nat /\ MaxStagings \in Nat /\ MaxStagings > 0
BY BoundsAssumption

LEMMA VMIs == ASSUME NEW v \in VMs PROVE v = <<v[1], v[2]>> /\ v[1] \in Jobs /\ v[2] \in 0..MaxRetries
BY DEF VMs

LEMMA RunnerIs ==
  ASSUME NEW r \in Runners
  PROVE  r = <<r[1], r[2]>> /\ r[1] \in VMs /\ r[2] \in 0..MaxStagings
BY DEF Runners

\* The parts of TypeOK that name a record.
LEMMA RecordIs ==
  ASSUME TypeOK, NEW k \in Jobs
  PROVE  /\ rec[k] \in [state : RecStates, retry : 0..MaxRetries, runner : 0..MaxStagings]
         /\ rec[k].state \in RecStates /\ rec[k].retry \in 0..MaxRetries
         /\ rec[k].runner \in 0..MaxStagings
         /\ VM(k) \in VMs /\ Mine(k) \in Runners /\ NoId(k) \in Runners
<1>1. /\ rec[k].state \in RecStates /\ rec[k].retry \in 0..MaxRetries
      /\ rec[k].runner \in 0..MaxStagings
      /\ rec[k] \in [state : RecStates, retry : 0..MaxRetries, runner : 0..MaxStagings]
  BY DEF TypeOK
<1>2. VM(k) \in VMs
  BY <1>1 DEF VM, VMs
<1>3. 0 \in 0..MaxStagings
  BY Bounds
<1> QED
  BY <1>1, <1>2, <1>3 DEF Mine, NoId, Runners

-----------------------------------------------------------------------------
(* Types.                                                                  *)

LEMMA InitTypes == Init => TypeOK
<1> SUFFICES ASSUME Init PROVE TypeOK
  OBVIOUS
<1>1. /\ job \in [Jobs -> {"queued", "in_progress", "completed"}]
      /\ claimant \in [Jobs -> Runners \cup {Nobody, Stranger}]
  BY DEF Init
<1>2. rec \in [Jobs -> [state : RecStates, retry : 0..MaxRetries, runner : 0..MaxStagings]]
  <2>1. 0 \in 0..MaxRetries /\ 0 \in 0..MaxStagings
    BY Bounds
  <2>2. rec = [k \in Jobs |-> [state |-> "none", retry |-> 0, runner |-> 0]]
    BY DEF Init
  <2> QED
    BY <2>1, <2>2 DEF RecStates
<1>3. at \in [Jobs -> Places] /\ jobDone \in [Jobs -> BOOLEAN]
  BY DEF Init, Places
<1>4. /\ proc \in [Runners -> {"unused", "started", "setup", "listening", "busy", "leaving", "exited"}]
      /\ marker \in [VMs -> Phases]
  BY DEF Init, Phases
<1>5. reg \subseteq Runners /\ up \subseteq VMs /\ listed \subseteq VMs /\ doomed \subseteq Runners
  BY DEF Init
<1>6. faults \in 0..MaxFaults
  <2>1. faults = 0
    BY DEF Init
  <2> QED
    BY <2>1, Bounds
<1> QED
  BY <1>1, <1>2, <1>3, <1>4, <1>5, <1>6 DEF TypeOK

RecType == [Jobs -> [state : RecStates, retry : 0..MaxRetries, runner : 0..MaxStagings]]

LEMMA RecTypeStep ==
  ASSUME BaseInv, [Next]_vars
  PROVE  rec' \in RecType
<1>0. rec \in RecType
  BY DEF BaseInv, TypeOK, RecType
<1>1. ASSUME NEW k \in Jobs, NEW s \in RecStates, State(k, s)
      PROVE  rec' \in RecType
  BY <1>0, <1>1 DEF State, RecType
<1>2. ASSUME NEW k \in Jobs, Bootstraps(k)
      PROVE  rec' \in RecType
  <2>1. CASE Register(k) /\ rec' = [rec EXCEPT ![k].runner = @ + 1]
    BY <1>0, <2>1, Bounds DEF Register, RecType
  <2>2. CASE UNCHANGED rec
    BY <1>0, <2>2
  <2>3. CASE State(k, "runner_up")
    BY <1>1, <2>3 DEF RecStates
  <2> QED
    BY <1>2, <2>1, <2>2, <2>3
       DEF Bootstraps, Reattach, StartsAfresh, RemoveOld, Register, Stage, Launch, Launched
<1>3. ASSUME NEW k \in Jobs, Watches(k)
      PROVE  rec' \in RecType
  <2>1. UNCHANGED rec \/ \E s \in RecStates : State(k, s)
    BY <1>3 DEF Watches, Resumed, ReadMarker, RunnerExited, StillQueued, PollJob, Release,
                StaysUp, KeepWaiting, PickupOver, TooLong, Completed, RecStates
  <2> QED
    BY <1>0, <1>1, <2>1
<1>4. ASSUME NEW k \in Jobs, Retry(k)
      PROVE  rec' \in RecType
  <2>1. rec[k].retry < MaxRetries /\ rec[k].retry \in 0..MaxRetries
    BY <1>4, RecordIs DEF Retry, BaseInv, JobFits, RetryLeft, MayRetry
  <2>2. rec[k].retry + 1 \in 0..MaxRetries
    BY <2>1, Bounds
  <2> QED
    BY <1>0, <1>4, <2>2, Bounds DEF Retry, RecType, RecStates
<1>5. ASSUME NEW k \in Jobs,
             Submit(k) \/ Provision(k) \/ Cleanup(k) \/ AttemptFailed(k) \/ Delete(k) \/ Unregister(k)
      PROVE  rec' \in RecType
  <2>1. UNCHANGED rec \/ \E s \in RecStates : State(k, s)
    BY <1>5 DEF Submit, Provision, Cleanup, AttemptFailed, Delete, Unregister, RecStates
  <2> QED
    BY <1>0, <1>1, <2>1
<1>6. CASE UNCHANGED rec
  BY <1>0, <1>6
<1> QED
  BY <1>2, <1>3, <1>4, <1>5, <1>6
     DEF Next, Worker, Runner, JobEnds, Elsewhere, FirstPhase, Listens, Dies, Leaves, Claim,
         ClaimUnlisted, UnlistedEnds,
         CleanRunner, Vanishes, ListVMs, ListRunners, Crash, vars

LEMMA AtTypeStep ==
  ASSUME BaseInv, [Next]_vars
  PROVE  at' \in [Jobs -> Places]
<1>0. at \in [Jobs -> Places] /\ rec \in RecType
  BY DEF BaseInv, TypeOK, RecType
<1>1. ASSUME NEW k \in Jobs, NEW p \in Places, Goto(k, p)
      PROVE  at' \in [Jobs -> Places]
  BY <1>0, <1>1 DEF Goto
<1>2. ASSUME NEW k \in Jobs, Bootstraps(k)
      PROVE  \E p \in Places : Goto(k, p)
  BY <1>2 DEF Bootstraps, Reattach, StartsAfresh, RemoveOld, Register, Stage, Launch, Launched,
              Places
<1>3. ASSUME NEW k \in Jobs, Watches(k)
      PROVE  \E p \in Places : Goto(k, p)
  BY <1>3 DEF Watches, Resumed, ReadMarker, RunnerExited, StillQueued, PollJob, Release,
              StaysUp, KeepWaiting, PickupOver, TooLong, Completed, Places
<1>4. ASSUME NEW k \in Jobs,
             Submit(k) \/ Provision(k) \/ Cleanup(k) \/ AttemptFailed(k) \/ Retry(k)
             \/ Delete(k) \/ Unregister(k)
      PROVE  \E p \in Places : Goto(k, p)
  BY <1>4 DEF Submit, Provision, Cleanup, AttemptFailed, Retry, Delete, Unregister, Places
<1>5. CASE Crash
  BY <1>0, <1>5 DEF Crash, ResumesAt, Places
<1>6. CASE UNCHANGED at
  BY <1>0, <1>6
<1> QED
  BY <1>1, <1>2, <1>3, <1>4, <1>5, <1>6
     DEF Next, Worker, Runner, JobEnds, Elsewhere, FirstPhase, Listens, Dies, Leaves, Claim,
         ClaimUnlisted, UnlistedEnds,
         CleanRunner, Vanishes, ListVMs, ListRunners, vars

Processes == {"unused", "started", "setup", "listening", "busy", "leaving", "exited"}

LEMMA MachineTypeStep ==
  ASSUME BaseInv, [Next]_vars
  PROVE  proc' \in [Runners -> Processes] /\ marker' \in [VMs -> Phases] /\ up' \subseteq VMs
<1> DEFINE ok == /\ proc' \in [Runners -> Processes]
                 /\ marker' \in [VMs -> Phases] /\ up' \subseteq VMs
<1>0. TypeOK /\ proc \in [Runners -> Processes] /\ marker \in [VMs -> Phases] /\ up \subseteq VMs
  BY DEF BaseInv, TypeOK, Processes
<1>1. ASSUME NEW v \in VMs, Kill(v) PROVE ok
  BY <1>0, <1>1 DEF Kill, Processes
<1>2. ASSUME NEW r \in Runners, Runner(r) PROVE ok
  <2>1. r[1] \in VMs
    BY RunnerIs
  <2>2. UNCHANGED marker \/ \E m \in Phases : Mark(r[1], m)
    BY <1>2 DEF Runner, FirstPhase, Listens, Dies, Leaves, Claim, ClaimUnlisted, UnlistedEnds,
                Phases
  <2>3. \E p \in Processes : proc' = [proc EXCEPT ![r] = p]
    BY <1>2 DEF Runner, FirstPhase, Listens, Dies, Leaves, Claim, ClaimUnlisted, UnlistedEnds,
                Processes
  <2>4. UNCHANGED up
    BY <1>2 DEF Runner, FirstPhase, Listens, Dies, Leaves, Claim, ClaimUnlisted, UnlistedEnds
  <2> QED
    BY <1>0, <2>1, <2>2, <2>3, <2>4 DEF Mark
<1>3. ASSUME NEW k \in Jobs, Stage(k) \/ Launch(k) PROVE ok
  <2>1. VM(k) \in VMs /\ Mine(k) \in Runners
    BY <1>0, RecordIs
  <2>2. CASE Stage(k)
    BY <1>0, <2>1, <2>2 DEF Stage, Mark, Phases
  <2>3. CASE Launch(k)
    BY <1>0, <2>1, <2>3 DEF Launch, Processes
  <2> QED
    BY <1>3, <2>2, <2>3
<1>4. ASSUME NEW k \in Jobs, Provision(k) PROVE ok
  BY <1>0, <1>4, RecordIs DEF Provision
<1>5. ASSUME NEW k \in Jobs, Cleanup(k) \/ Delete(k) PROVE ok
  <2>1. VM(k) \in VMs /\ Kill(VM(k))
    BY <1>0, <1>5, RecordIs DEF Cleanup, Delete
  <2> QED
    BY <1>1, <2>1
<1>6. ASSUME NEW k \in Jobs, JobEnds(k) PROVE ok
  BY <1>0, <1>6 DEF JobEnds, Processes
<1>7. ASSUME NEW v \in VMs, Vanishes(v) PROVE ok
  BY <1>1, <1>7 DEF Vanishes
<1>8. ASSUME UNCHANGED machines PROVE ok
  BY <1>0, <1>8 DEF machines
<1>9. ASSUME NEW k \in Jobs, Worker(k) PROVE ok
  <2>1. CASE UNCHANGED machines
    BY <1>8, <2>1
  <2>2. CASE ~UNCHANGED machines
    <3>1. Stage(k) \/ Launch(k) \/ Provision(k) \/ Cleanup(k) \/ Delete(k)
      BY <1>9, <2>2
         DEF Worker, Bootstraps, Watches, Submit, Reattach, StartsAfresh, RemoveOld, Register,
             Launched, Resumed, ReadMarker, RunnerExited, PollJob, Release, StaysUp, KeepWaiting,
             PickupOver, TooLong, AttemptFailed, Retry, Unregister
    <3> QED
      BY <1>3, <1>4, <1>5, <3>1
  <2> QED
    BY <2>1, <2>2
<1> HIDE DEF ok
<1>10. ok
  <2>1. ASSUME NEW k \in Jobs, Elsewhere(k) PROVE ok
    BY <1>8, <2>1 DEF Elsewhere
  <2>2. ASSUME NEW r \in Runners, CleanRunner(r) PROVE ok
    BY <1>8, <2>2 DEF CleanRunner
  <2>3. CASE ListVMs \/ ListRunners \/ Crash
    BY <1>8, <2>3 DEF ListVMs, ListRunners, Crash
  <2>4. CASE UNCHANGED vars
    BY <1>8, <2>4 DEF vars
  <2> QED
    BY <1>2, <1>6, <1>7, <1>9, <2>1, <2>2, <2>3, <2>4 DEF Next
<1> QED
  BY <1>10 DEF ok

LEMMA GitHubTypeStep ==
  ASSUME BaseInv, [Next]_vars
  PROVE  /\ job' \in [Jobs -> {"queued", "in_progress", "completed"}]
         /\ claimant' \in [Jobs -> Runners \cup {Nobody, Stranger}]
         /\ \A k \in Jobs : job[k] = "completed" => job'[k] = "completed"
         /\ \A k \in Jobs : job[k] # "queued" => job'[k] # "queued"
<1>0. /\ job \in [Jobs -> {"queued", "in_progress", "completed"}]
      /\ claimant \in [Jobs -> Runners \cup {Nobody, Stranger}]
  BY DEF BaseInv, TypeOK
<1>1. ASSUME NEW r \in Runners, NEW k \in Jobs, Claim(r, k)
      PROVE  /\ job[k] = "queued" /\ job' = [job EXCEPT ![k] = "in_progress"]
             /\ claimant' = [claimant EXCEPT ![k] = r]
  BY <1>1 DEF Claim
<1>2. ASSUME NEW k \in Jobs, JobEnds(k)
      PROVE  /\ job[k] = "in_progress" /\ job' = [job EXCEPT ![k] = "completed"]
             /\ UNCHANGED claimant
  BY <1>2 DEF JobEnds
<1>3. ASSUME NEW k \in Jobs, Elsewhere(k)
      PROVE  /\ job[k] = "queued"
             /\ \/ job' = [job EXCEPT ![k] = "completed"] /\ UNCHANGED claimant
                \/ /\ job' = [job EXCEPT ![k] = "in_progress"]
                   /\ claimant' = [claimant EXCEPT ![k] = Stranger]
  BY <1>3 DEF Elsewhere
<1>4. ASSUME NEW k \in Jobs, Worker(k) PROVE UNCHANGED github
  <2>1. ASSUME Bootstraps(k) PROVE UNCHANGED github
    BY <2>1 DEF Bootstraps, Reattach, StartsAfresh, RemoveOld, Register, Stage, Launch, Launched
  <2>2. ASSUME Watches(k) PROVE UNCHANGED github
    BY <2>2 DEF Watches, Resumed, ReadMarker, RunnerExited, PollJob, Release, StaysUp, KeepWaiting,
                PickupOver, TooLong
  <2> QED
    BY <1>4, <2>1, <2>2 DEF Worker, Submit, Provision, Cleanup, AttemptFailed, Retry, Delete,
                Unregister
<1>5. CASE UNCHANGED github
  BY <1>0, <1>5 DEF github
<1>6. ASSUME NEW r \in Runners,
             FirstPhase(r) \/ Listens(r) \/ Dies(r) \/ Leaves(r) \/ CleanRunner(r)
             \/ ClaimUnlisted(r) \/ UnlistedEnds(r)
      PROVE  UNCHANGED github
  BY <1>6 DEF FirstPhase, Listens, Dies, Leaves, ClaimUnlisted, UnlistedEnds,
             CleanRunner
<1>7. ASSUME ListVMs \/ ListRunners \/ Crash \/ (\E v \in VMs : Vanishes(v)) \/ UNCHANGED vars
      PROVE  UNCHANGED github
  BY <1>7 DEF ListVMs, ListRunners, Crash, Vanishes, vars
<1>8. \/ UNCHANGED github
      \/ \E k \in Jobs : JobEnds(k) \/ Elsewhere(k) \/ \E r \in Runners : Claim(r, k)
  BY <1>4, <1>6, <1>7 DEF Next, Runner
<1>9. CASE \E k \in Jobs : JobEnds(k) \/ Elsewhere(k) \/ \E r \in Runners : Claim(r, k)
  BY <1>0, <1>1, <1>2, <1>3, <1>9
<1> QED
  BY <1>5, <1>8, <1>9

LEMMA RegTypeStep ==
  ASSUME BaseInv, [Next]_vars
  PROVE  reg' \subseteq Runners
<1>0. TypeOK /\ reg \subseteq Runners
  BY DEF BaseInv, TypeOK
<1>1. ASSUME NEW k \in Jobs, Register(k) PROVE reg' \subseteq Runners
  <2>1. CASE rec' = [rec EXCEPT ![k].runner = @ + 1] /\ reg' = reg \cup {<<VM(k), rec'[k].runner>>}
    <3>1. rec'[k].runner = rec[k].runner + 1 /\ rec[k].runner < MaxStagings
      BY <1>0, <1>1, <2>1 DEF TypeOK, Register
    <3>2. rec'[k].runner \in 0..MaxStagings
      BY <1>0, <3>1, RecordIs, Bounds
    <3> QED
      BY <1>0, <2>1, <3>2, RecordIs DEF Runners
  <2>2. CASE reg' = reg \cup {NoId(k)} \/ UNCHANGED reg
    BY <1>0, <2>2, RecordIs
  <2> QED
    BY <1>1, <2>1, <2>2 DEF Register
<1>2. CASE Crash
  BY <1>0, <1>2, RecordIs DEF Crash
<1>3. CASE reg' \subseteq reg
  BY <1>0, <1>3
<1>4. ASSUME NEW k \in Jobs, Worker(k) PROVE Register(k) \/ reg' \subseteq reg
  <2>1. ASSUME Bootstraps(k), ~Register(k) PROVE reg' \subseteq reg
    BY <2>1 DEF Bootstraps, Reattach, StartsAfresh, RemoveOld, Stage, Launch, Launched
  <2>2. ASSUME Watches(k) PROVE reg' \subseteq reg
    BY <2>2 DEF Watches, Resumed, ReadMarker, RunnerExited, PollJob, Release, StaysUp, KeepWaiting,
                PickupOver, TooLong
  <2> QED
    BY <1>4, <2>1, <2>2 DEF Worker, Submit, Provision, Cleanup, AttemptFailed, Retry, Delete,
                Unregister
<1>5. ASSUME NEW r \in Runners, Runner(r) \/ CleanRunner(r) PROVE reg' \subseteq reg
  BY <1>5 DEF Runner, FirstPhase, Listens, Dies, Leaves, Claim, ClaimUnlisted, UnlistedEnds,
              CleanRunner
<1>6. ASSUME \/ ListVMs \/ ListRunners \/ (\E v \in VMs : Vanishes(v)) \/ UNCHANGED vars
             \/ \E k \in Jobs : JobEnds(k) \/ Elsewhere(k)
      PROVE  reg' \subseteq reg
  BY <1>6 DEF ListVMs, ListRunners, Vanishes, vars, JobEnds, Elsewhere
<1> QED
  BY <1>1, <1>2, <1>3, <1>4, <1>5, <1>6 DEF Next

LEMMA SweepTypeStep ==
  ASSUME BaseInv, [Next]_vars
  PROVE  listed' \subseteq VMs /\ doomed' \subseteq Runners
<1>0. TypeOK /\ listed \subseteq VMs /\ doomed \subseteq Runners /\ up \subseteq VMs /\ reg \subseteq Runners
  BY DEF BaseInv, TypeOK
<1>1. CASE UNCHANGED sweep
  BY <1>0, <1>1 DEF sweep
<1>2. CASE ListVMs \/ ListRunners \/ Crash
  BY <1>0, <1>2 DEF ListVMs, ListRunners, Crash
<1>3. ASSUME NEW r \in Runners, CleanRunner(r)
      PROVE  listed' \subseteq VMs /\ doomed' \subseteq Runners
  BY <1>0, <1>3 DEF CleanRunner
<1>4. ASSUME NEW k \in Jobs, Worker(k) PROVE UNCHANGED sweep
  <2>1. ASSUME Bootstraps(k) PROVE UNCHANGED sweep
    BY <2>1 DEF Bootstraps, Reattach, StartsAfresh, RemoveOld, Register, Stage, Launch, Launched
  <2>2. ASSUME Watches(k) PROVE UNCHANGED sweep
    BY <2>2 DEF Watches, Resumed, ReadMarker, RunnerExited, PollJob, Release, StaysUp, KeepWaiting,
                PickupOver, TooLong
  <2> QED
    BY <1>4, <2>1, <2>2 DEF Worker, Submit, Provision, Cleanup, AttemptFailed, Retry, Delete,
                Unregister
<1>5. ASSUME \/ \E r \in Runners : Runner(r)
             \/ \E k \in Jobs : JobEnds(k) \/ Elsewhere(k)
             \/ (\E v \in VMs : Vanishes(v)) \/ UNCHANGED vars
      PROVE  UNCHANGED sweep
  BY <1>5 DEF Runner, FirstPhase, Listens, Dies, Leaves, Claim, ClaimUnlisted, UnlistedEnds,
              JobEnds, Elsewhere, Vanishes, vars
<1> QED
  BY <1>1, <1>2, <1>3, <1>4, <1>5 DEF Next

-----------------------------------------------------------------------------
(* A worker changes its own job only.                                      *)

OnlyMoves(k) ==
  /\ \A j \in Jobs \ {k} : rec'[j] = rec[j] /\ at'[j] = at[j] /\ jobDone'[j] = jobDone[j]
  /\ UNCHANGED <<github, sweep, faults>>
  /\ up' \subseteq up \cup {VM(k)}

LEMMA WorkerMoves ==
  ASSUME TypeOK, NEW k \in Jobs, Worker(k)
  PROVE  OnlyMoves(k)
<1>0. /\ rec \in RecType /\ at \in [Jobs -> Places] /\ jobDone \in [Jobs -> BOOLEAN]
  BY DEF TypeOK, RecType
<1>1. ASSUME Bootstraps(k) PROVE OnlyMoves(k)
  BY <1>0, <1>1
     DEF Bootstraps, Reattach, StartsAfresh, RemoveOld, Register, Stage, Launch, Launched,
         OnlyMoves, State, Goto, machines, RecType
<1>2. ASSUME Watches(k) PROVE OnlyMoves(k)
  BY <1>0, <1>2
     DEF Watches, Resumed, ReadMarker, RunnerExited, StillQueued, PollJob, Release, StaysUp,
         KeepWaiting,
         PickupOver, TooLong, Completed, OnlyMoves, State, Goto, machines, RecType
<1>3. ASSUME Submit(k) \/ Provision(k) \/ AttemptFailed(k) \/ Retry(k) PROVE OnlyMoves(k)
  BY <1>0, <1>3
     DEF Submit, Provision, AttemptFailed, Retry, OnlyMoves, State, Goto, machines, RecType
<1>4. ASSUME Cleanup(k) \/ Delete(k) \/ Unregister(k) PROVE OnlyMoves(k)
  BY <1>0, <1>4
     DEF Cleanup, Delete, Unregister, Kill, OnlyMoves, State, Goto, machines, RecType
<1> QED
  BY <1>1, <1>2, <1>3, <1>4 DEF Worker

LEMMA DoneTypeStep ==
  ASSUME BaseInv, [Next]_vars
  PROVE  jobDone' \in [Jobs -> BOOLEAN]
<1>0. jobDone \in [Jobs -> BOOLEAN]
  BY DEF BaseInv, TypeOK
<1>1. ASSUME NEW k \in Jobs, NEW b \in BOOLEAN, jobDone' = [jobDone EXCEPT ![k] = b]
      PROVE  jobDone' \in [Jobs -> BOOLEAN]
  BY <1>0, <1>1
<1>2. CASE UNCHANGED jobDone
  BY <1>0, <1>2
<1>3. CASE Crash
  <2>1. jobDone' = [k \in Jobs |-> FALSE]
    BY <1>3 DEF Crash
  <2> QED
    BY <2>1
<1>4. ASSUME NEW k \in Jobs, Worker(k)
      PROVE  UNCHANGED jobDone \/ \E b \in BOOLEAN : jobDone' = [jobDone EXCEPT ![k] = b]
  <2>1. ASSUME Bootstraps(k) PROVE UNCHANGED jobDone
    BY <2>1 DEF Bootstraps, Reattach, StartsAfresh, RemoveOld, Register, Stage, Launch, Launched
  <2>2. ASSUME Watches(k)
        PROVE  UNCHANGED jobDone \/ jobDone' = [jobDone EXCEPT ![k] = TRUE]
    BY <2>2 DEF Watches, Resumed, ReadMarker, RunnerExited, PollJob, Release, StaysUp, KeepWaiting,
                PickupOver, TooLong
  <2>3. ASSUME AttemptFailed(k) PROVE jobDone' = [jobDone EXCEPT ![k] = FALSE]
    BY <2>3 DEF AttemptFailed
  <2> QED
    BY <1>4, <2>1, <2>2, <2>3 DEF Worker, Submit, Provision, Cleanup, Retry, Delete, Unregister
<1>5. ASSUME NEW r \in Runners, Runner(r) \/ CleanRunner(r) PROVE UNCHANGED jobDone
  BY <1>5 DEF Runner, FirstPhase, Listens, Dies, Leaves, Claim, ClaimUnlisted, UnlistedEnds,
              CleanRunner
<1>6. ASSUME \/ ListVMs \/ ListRunners \/ (\E v \in VMs : Vanishes(v)) \/ UNCHANGED vars
             \/ \E k \in Jobs : JobEnds(k) \/ Elsewhere(k)
      PROVE  UNCHANGED jobDone
  BY <1>6 DEF ListVMs, ListRunners, Vanishes, vars, JobEnds, Elsewhere
<1> QED
  BY <1>1, <1>2, <1>3, <1>4, <1>5, <1>6 DEF Next

\* What all the others leave alone: the records, the workers, and all VMs but
\* those that vanish.
Apart == UNCHANGED <<rec, at, jobDone>> /\ up' \subseteq up

LEMMA OthersStayApart ==
  ASSUME [Next]_vars, ~Crash, \A k \in Jobs : ~Worker(k)
  PROVE  Apart
<1>1. ASSUME NEW r \in Runners, Runner(r) \/ CleanRunner(r) PROVE Apart
  BY <1>1 DEF Runner, FirstPhase, Listens, Dies, Leaves, Claim, ClaimUnlisted, UnlistedEnds,
              CleanRunner, Apart, machines
<1>2. ASSUME NEW v \in VMs, Vanishes(v) PROVE Apart
  BY <1>2 DEF Vanishes, Kill, Apart
<1>3. CASE ListVMs \/ ListRunners \/ UNCHANGED vars
  BY <1>3 DEF ListVMs, ListRunners, vars, Apart, machines
<1>4. ASSUME NEW k \in Jobs, JobEnds(k) \/ Elsewhere(k) PROVE Apart
  BY <1>4 DEF JobEnds, Elsewhere, Apart, machines
<1> QED
  BY <1>1, <1>2, <1>3, <1>4 DEF Next

LEMMA TypesStep ==
  ASSUME BaseInv, [Next]_vars
  PROVE  TypeOK'
<1>1. faults' \in 0..MaxFaults
  <2>0. faults \in 0..MaxFaults
    BY DEF BaseInv, TypeOK
  <2>1. ASSUME NEW v \in VMs, Vanishes(v) PROVE faults < MaxFaults /\ faults' = faults + 1
    BY <2>1 DEF Vanishes
  <2>2. ASSUME Crash PROVE faults < MaxFaults /\ faults' = faults + 1
    BY <2>2 DEF Crash
  <2>3. ASSUME NEW k \in Jobs, Worker(k) \/ JobEnds(k) \/ Elsewhere(k) PROVE UNCHANGED faults
    BY <2>3, WorkerMoves DEF OnlyMoves, JobEnds, Elsewhere, BaseInv
  <2>4. ASSUME NEW r \in Runners, Runner(r) \/ CleanRunner(r) PROVE UNCHANGED faults
    BY <2>4 DEF Runner, FirstPhase, Listens, Dies, Leaves, Claim, ClaimUnlisted, UnlistedEnds,
                CleanRunner
  <2>5. ASSUME ListVMs \/ ListRunners \/ UNCHANGED vars PROVE UNCHANGED faults
    BY <2>5 DEF ListVMs, ListRunners, vars
  <2>6. UNCHANGED faults \/ (faults < MaxFaults /\ faults' = faults + 1)
    BY <2>1, <2>2, <2>3, <2>4, <2>5 DEF Next
  <2> QED
    BY <2>0, <2>6, Bounds
<1> QED
  BY <1>1, RecTypeStep, AtTypeStep, MachineTypeStep, GitHubTypeStep, RegTypeStep, SweepTypeStep,
     DoneTypeStep
     DEF TypeOK, RecType, Processes

-----------------------------------------------------------------------------
(* Records, places and VMs fit together.                                   *)

LEMMA OtherJobsFit ==
  ASSUME BaseInv, TypeOK', NEW k \in Jobs, OnlyMoves(k), NEW j \in Jobs \ {k}
  PROVE  JobFits(j)'
<1>1. JobFits(j)
  BY DEF BaseInv
<1>2. rec'[j] = rec[j] /\ at'[j] = at[j] /\ jobDone'[j] = jobDone[j] /\ job'[j] = job[j]
  BY DEF OnlyMoves, github
<1>3. \A n \in 0..MaxRetries : <<j, n>> \in up' => <<j, n>> \in up
  BY DEF OnlyMoves, VM
<1>4. VM(j)' = VM(j) /\ VM(j) = <<j, rec[j].retry>> /\ rec[j].retry \in 0..MaxRetries
  BY <1>2, RecordIs DEF VM, BaseInv
<1> QED
  BY <1>1, <1>2, <1>3, <1>4 DEF JobFits, PlaceFits, VMsFit, RetryLeft, MayRetry, DoneIsOver

\* A move of the worker within an attempt: the record stays with its VM.
LEMMA MoveFits ==
  ASSUME BaseInv, TypeOK', NEW k \in Jobs,
         rec'[k].retry = rec[k].retry, up' \subseteq up,
         rec[k].state \in Provided => rec'[k].state \in Provided,
         FitsAt(at'[k], rec'[k].state),
         at'[k] \notin {"failed", "retry", "unregister"},
         jobDone'[k] => job'[k] = "completed"
  PROVE  JobFits(k)'
<1>1. JobFits(k)
  BY DEF BaseInv
<1> QED
  BY <1>1 DEF JobFits, PlaceFits, VMsFit, RetryLeft, DoneIsOver

LEMMA WorkerFits ==
  ASSUME BaseInv, TypeOK', NEW k \in Jobs, Worker(k)
  PROVE  JobFits(k)'
<1> USE DEF FitsAt, Provided
<1>0. /\ TypeOK /\ rec \in RecType /\ at \in [Jobs -> Places] /\ jobDone \in [Jobs -> BOOLEAN]
      /\ JobFits(k) /\ PlaceFits(k) /\ RetryLeft(k) /\ DoneIsOver(k)
      /\ rec[k].state \in RecStates
  BY RecordIs DEF BaseInv, JobFits, TypeOK, RecType
<1>1. UNCHANGED github
  BY <1>0, WorkerMoves DEF OnlyMoves
<1>2. jobDone'[k] => jobDone[k] \/ job[k] = "completed"
  <2>1. ASSUME Bootstraps(k) PROVE UNCHANGED jobDone
    BY <2>1 DEF Bootstraps, Reattach, StartsAfresh, RemoveOld, Register, Stage, Launch, Launched
  <2>2. ASSUME Watches(k)
        PROVE  UNCHANGED jobDone \/ job[k] = "completed"
    BY <2>2 DEF Watches, Resumed, ReadMarker, RunnerExited, PollJob, Release, StaysUp, KeepWaiting,
                PickupOver, TooLong
  <2>3. ASSUME AttemptFailed(k) PROVE jobDone' = [jobDone EXCEPT ![k] = FALSE]
    BY <2>3 DEF AttemptFailed
  <2>4. jobDone' = [jobDone EXCEPT ![k] = FALSE] => ~jobDone'[k]
    BY <1>0
  <2> QED
    BY <2>1, <2>2, <2>3, <2>4
       DEF Worker, Submit, Provision, Cleanup, Retry, Delete, Unregister
<1>3. jobDone'[k] => job'[k] = "completed"
  BY <1>0, <1>1, <1>2 DEF DoneIsOver, github
<1>4. ASSUME Bootstraps(k) PROVE JobFits(k)'
  <2>1. /\ rec'[k].retry = rec[k].retry /\ up' = up
        /\ rec[k].state = "bootstrapping" => rec'[k].state \in Provided
        /\ FitsAt(at'[k], rec'[k].state)
        /\ at'[k] \notin {"failed", "retry", "unregister"}
        /\ rec[k].state = "bootstrapping"
    <3>1. CASE Reattach(k) \/ Launched(k)
      BY <1>0, <3>1 DEF Reattach, Launched, State, Goto, machines, RecType, PlaceFits
    <3>2. CASE Register(k)
      BY <1>0, <3>2 DEF Register, Goto, machines, RecType, PlaceFits
    <3>3. CASE StartsAfresh(k) \/ RemoveOld(k)
      BY <1>0, <3>3 DEF StartsAfresh, RemoveOld, Goto, machines, RecType, PlaceFits
    <3>4. CASE Stage(k) \/ Launch(k)
      BY <1>0, <3>4 DEF Stage, Launch, Goto, RecType, PlaceFits
    <3> QED
      BY <1>4, <3>1, <3>2, <3>3, <3>4 DEF Bootstraps
  <2> QED
    BY <1>3, <2>1, MoveFits
<1>5. ASSUME Watches(k) PROVE JobFits(k)'
  <2>1. /\ rec'[k].retry = rec[k].retry /\ up' = up
        /\ rec'[k].state \in Provided
        /\ FitsAt(at'[k], rec'[k].state)
        /\ at'[k] \notin {"failed", "retry", "unregister"}
    <3>1. CASE Resumed(k) \/ ReadMarker(k) \/ StaysUp(k) \/ KeepWaiting(k) \/ TooLong(k)
      BY <1>0, <3>1 DEF Resumed, ReadMarker, StaysUp, KeepWaiting, TooLong, Monitors, Goto, machines
    <3>2. CASE RunnerExited(k) \/ Release(k) \/ PickupOver(k)
      <4>1. /\ \/ State(k, "job_done") /\ Goto(k, "delete")
               \/ UNCHANGED rec /\ Goto(k, "cleanup")
            /\ rec[k].state \in {"runner_up", "job_running"} /\ UNCHANGED machines
        BY <3>2
           DEF RunnerExited, StillQueued, Release, PickupOver, Completed, Monitors
      <4> QED
        BY <1>0, <4>1 DEF State, Goto, machines, RecType
    <3>3. CASE PollJob(k)
      BY <1>0, <3>3 DEF PollJob, Monitors, State, Goto, machines, RecType
    <3> QED
      BY <1>5, <3>1, <3>2, <3>3 DEF Watches
  <2> QED
    BY <1>3, <2>1, MoveFits
<1>6. CASE Submit(k)
  <2>1. /\ rec'[k].retry = rec[k].retry /\ up' = up
        /\ rec[k].state \notin Provided /\ rec'[k].state = "queued" /\ at'[k] = "create"
    BY <1>0, <1>6 DEF Submit, State, Goto, machines, RecType
  <2> QED
    BY <1>3, <2>1, MoveFits
<1>7. CASE Provision(k)
  <2>1. /\ rec'[k].retry = rec[k].retry /\ up' = up \cup {<<k, rec[k].retry>>}
        /\ rec[k].state = "queued" /\ rec'[k].state = "bootstrapping" /\ at'[k] = "attempt"
    BY <1>0, <1>7 DEF Provision, State, Goto, RecType, PlaceFits, VM
  <2>2. \A n \in 0..MaxRetries : <<k, n>> \notin up
    BY <1>0, <2>1 DEF JobFits, VMsFit
  <2> QED
    BY <1>3, <2>1, <2>2 DEF JobFits, PlaceFits, VMsFit, RetryLeft, DoneIsOver
<1>8. CASE Cleanup(k)
  <2>1. /\ rec' = rec /\ up' = up \ {VM(k)} /\ at'[k] = "failed"
        /\ rec[k].state \in {"bootstrapping", "runner_up", "job_running"}
    BY <1>0, <1>8 DEF Cleanup, Kill, Goto, PlaceFits
  <2> QED
    BY <1>0, <1>3, <2>1 DEF JobFits, PlaceFits, VMsFit, RetryLeft, DoneIsOver, VM
<1>9. CASE AttemptFailed(k)
  <2>1. /\ up' = up /\ rec'[k].retry = rec[k].retry
        /\ \/ rec'[k].state \in {"failed", "complete"} /\ at'[k] = "end"
           \/ rec' = rec /\ at'[k] = "retry" /\ MayRetry(k)
    BY <1>0, <1>9 DEF AttemptFailed, State, Goto, machines, RecType
  <2>2. /\ VM(k) \notin up /\ VM(k) = <<k, rec[k].retry>>
        /\ rec[k].state \in {"bootstrapping", "runner_up", "job_running"}
    BY <1>0, <1>9 DEF AttemptFailed, JobFits, VMsFit, PlaceFits, VM
  <2>3. \A n \in 0..MaxRetries : <<k, n>> \notin up'
    BY <1>0, <2>1, <2>2 DEF JobFits, VMsFit
  <2>4. VM(k)' \notin up'
    BY <2>1, <2>2 DEF VM
  <2> QED
    BY <1>3, <2>1, <2>2, <2>3, <2>4
       DEF JobFits, PlaceFits, VMsFit, RetryLeft, MayRetry, DoneIsOver
<1>10. CASE Retry(k)
  <2>1. up' = up /\ rec'[k].state = "queued" /\ at'[k] = "create"
    BY <1>0, <1>10 DEF Retry, Goto, machines, RecType
  <2>2. VM(k) \notin up /\ VM(k) = <<k, rec[k].retry>>
    BY <1>0, <1>10 DEF Retry, JobFits, VMsFit, VM
  <2>3. \A n \in 0..MaxRetries : <<k, n>> \notin up'
    BY <1>0, <2>1, <2>2 DEF JobFits, VMsFit
  <2> QED
    BY <1>3, <2>1, <2>3 DEF JobFits, PlaceFits, VMsFit, RetryLeft, DoneIsOver
<1>11. CASE Delete(k)
  <2>1. /\ rec' = rec /\ up' = up \ {VM(k)} /\ at'[k] = "unregister"
        /\ rec[k].state = "job_done"
    BY <1>0, <1>11 DEF Delete, Kill, Goto, PlaceFits
  <2> QED
    BY <1>0, <1>3, <2>1 DEF JobFits, PlaceFits, VMsFit, RetryLeft, DoneIsOver, VM
<1>12. CASE Unregister(k)
  <2>1. /\ up' = up /\ rec'[k].retry = rec[k].retry
        /\ rec'[k].state = "complete" /\ at'[k] = "end"
    BY <1>0, <1>12 DEF Unregister, State, Goto, machines, RecType
  <2>2. VM(k) \notin up /\ VM(k) = <<k, rec[k].retry>>
    BY <1>0, <1>12 DEF Unregister, JobFits, VMsFit, VM
  <2>3. \A n \in 0..MaxRetries : <<k, n>> \notin up'
    BY <1>0, <2>1, <2>2 DEF JobFits, VMsFit
  <2> QED
    BY <1>3, <2>1, <2>3 DEF JobFits, PlaceFits, VMsFit, RetryLeft, DoneIsOver
<1> QED
  BY <1>4, <1>5, <1>6, <1>7, <1>8, <1>9, <1>10, <1>11, <1>12 DEF Worker

LEMMA CrashFits ==
  ASSUME BaseInv, Crash, NEW k \in Jobs
  PROVE  JobFits(k)'
<1>1. JobFits(k) /\ rec[k].state \in RecStates
  BY RecordIs DEF BaseInv
<1>2. /\ rec' = rec /\ up' = up /\ jobDone'[k] = FALSE
      /\ at'[k] = CASE rec[k].state = "none" -> "none"
                   [] rec[k].state = "queued" -> "create"
                   [] rec[k].state \in {"bootstrapping", "runner_up", "job_running"} -> "attempt"
                   [] rec[k].state = "job_done" -> "delete"
                   [] OTHER -> "end"
  BY DEF Crash, ResumesAt, machines
<1>3. at'[k] \notin {"failed", "retry", "unregister"} /\ FitsAt(at'[k], rec'[k].state)
  BY <1>1, <1>2 DEF FitsAt, RecStates
<1> QED
  BY <1>1, <1>2, <1>3 DEF JobFits, PlaceFits, VMsFit, RetryLeft, DoneIsOver

LEMMA BaseInit == Init => BaseInv
<1> SUFFICES ASSUME Init PROVE BaseInv
  OBVIOUS
<1>1. ASSUME NEW k \in Jobs PROVE JobFits(k)
  BY DEF Init, JobFits, PlaceFits, FitsAt, VMsFit, RetryLeft, DoneIsOver
<1> QED
  BY <1>1, InitTypes DEF BaseInv

LEMMA BaseStep == BaseInv /\ [Next]_vars => BaseInv'
<1> SUFFICES ASSUME BaseInv, [Next]_vars PROVE BaseInv'
  OBVIOUS
<1>0. TypeOK /\ TypeOK'
  BY TypesStep DEF BaseInv
<1>1. ASSUME NEW k \in Jobs, Worker(k) PROVE \A j \in Jobs : JobFits(j)'
  BY <1>0, <1>1, WorkerMoves, WorkerFits, OtherJobsFit
<1>2. CASE Crash
  BY <1>2, CrashFits, <1>0 DEF BaseInv
<1>3. CASE ~Crash /\ \A k \in Jobs : ~Worker(k)
  <2>1. ASSUME NEW k \in Jobs PROVE JobFits(k)'
    <3>1. JobFits(k) /\ Apart
      BY <1>3, OthersStayApart DEF BaseInv
    <3>2. VM(k)' = VM(k)
      BY <3>1 DEF Apart, VM
    <3>3. job[k] = "completed" => job'[k] = "completed"
      BY GitHubTypeStep
    <3> QED
      BY <3>1, <3>2, <3>3
         DEF Apart, JobFits, PlaceFits, VMsFit, RetryLeft, MayRetry, DoneIsOver
  <2> QED
    BY <1>0, <2>1 DEF BaseInv
<1> QED
  BY <1>0, <1>1, <1>2, <1>3 DEF BaseInv

\* Every variable stays in its range, whatever fails.
THEOREM MonitorTypeCorrect == Spec => []TypeOK
<1>1. BaseInv => TypeOK
  BY DEF BaseInv
<1> QED
  BY <1>1, BaseInit, BaseStep, PTL DEF Spec

-----------------------------------------------------------------------------
(* No job is dropped.                                                      *)

LEMMA ClaimedStep ==
  ASSUME BaseInv, [Next]_vars, NEW k \in Jobs,
         rec[k].state \notin Served, rec'[k].state \in Served
  PROVE  job[k] # "queued" \/ (GitHubMayFail /\ marker[VM(k)] = "done")
<1>0. /\ TypeOK /\ rec \in RecType /\ JobFits(k)
      /\ rec[k].state \notin {"job_done", "complete"}
      /\ rec'[k].state \in {"job_done", "complete"}
  BY DEF BaseInv, TypeOK, RecType, Served
<1>1. CASE rec'[k] = rec[k]
  BY <1>0, <1>1
<1>2. CASE Worker(k)
  <2>1. CASE Bootstraps(k)
    <3>1. rec'[k] = rec[k] \/ rec'[k].state = "runner_up" \/ rec'[k].state = rec[k].state
      BY <1>0, <2>1
         DEF Bootstraps, Reattach, StartsAfresh, RemoveOld, Register, Stage, Launch, Launched,
             State, RecType
    <3> QED
      BY <1>0, <3>1
  <2>2. CASE Watches(k)
    <3>1. \/ UNCHANGED rec \/ State(k, "job_running")
          \/ job[k] # "queued" \/ jobDone[k] \/ (GitHubMayFail /\ marker[VM(k)] = "done")
      BY <2>2 DEF Watches, Resumed, ReadMarker, RunnerExited, StillQueued, PollJob, Release,
                  StaysUp, KeepWaiting, PickupOver, TooLong, Completed, GitHubFails
    <3>2. State(k, "job_running") => rec'[k].state = "job_running"
      BY <1>0 DEF State, RecType
    <3>3. jobDone[k] => job[k] # "queued"
      BY <1>0 DEF JobFits, DoneIsOver
    <3> QED
      BY <1>0, <3>1, <3>2, <3>3
  <2>3. CASE AttemptFailed(k)
    <3>1. UNCHANGED rec \/ State(k, "failed") \/ job[k] = "completed"
      BY <2>3 DEF AttemptFailed
    <3>2. State(k, "failed") => rec'[k].state = "failed"
      BY <1>0 DEF State, RecType
    <3> QED
      BY <1>0, <3>1, <3>2
  <2>4. CASE Submit(k) \/ Provision(k) \/ Retry(k)
    <3>1. rec'[k].state \in {"queued", "bootstrapping"}
      BY <1>0, <2>4 DEF Submit, Provision, Retry, State, RecType
    <3> QED
      BY <1>0, <3>1
  <2>5. CASE Cleanup(k) \/ Delete(k)
    BY <1>0, <2>5 DEF Cleanup, Delete
  <2>6. CASE Unregister(k)
    BY <1>0, <2>6 DEF Unregister, JobFits, PlaceFits, FitsAt
  <2> QED
    BY <1>2, <2>1, <2>2, <2>3, <2>4, <2>5, <2>6 DEF Worker
<1>3. ASSUME NEW j \in Jobs \ {k}, Worker(j) PROVE rec'[k] = rec[k]
  BY <1>0, <1>3, WorkerMoves DEF OnlyMoves
<1>4. ASSUME ~\E j \in Jobs : Worker(j) PROVE rec'[k] = rec[k]
  BY <1>4, OthersStayApart DEF Crash, Apart
<1> QED
  BY <1>1, <1>2, <1>3, <1>4

\* A record completes only for a job that a runner has claimed or that was
\* cancelled, or, if GitHub may fail, by the exit code of its runner, although
\* runners serve siblings, die and are forgotten in a crash.
THEOREM NoJobIsDropped == Spec => CompleteMeansClaimed
<1>1. BaseInv /\ [Next]_vars
        => [\A k \in Jobs :
              rec[k].state \notin Served /\ rec'[k].state \in Served
              => job[k] # "queued" \/ (GitHubMayFail /\ marker[VM(k)] = "done")]_vars
  BY ClaimedStep
<1> QED
  BY <1>1, BaseInit, BaseStep, PTL DEF Spec, CompleteMeansClaimed

-----------------------------------------------------------------------------
(* The contract.                                                           *)

LEMMA HeldAreUp ==
  ASSUME NEW k \in Jobs
  PROVE  Contract!Held(k) = {n \in 0..MaxRetries : <<k, n>> \in up}
BY DEF Contract!Held, Stages, StageOf

\* A job whose VMs stay as they are keeps its row.
LEMMA RowStays ==
  ASSUME NEW j \in Jobs, rec'[j].retry = rec[j].retry,
         \A n \in 0..MaxRetries : <<j, n>> \in up' <=> <<j, n>> \in up,
         rec'[j].state \in {"none", "queued"} <=> rec[j].state \in {"none", "queued"}
  PROVE  \A n \in 0..MaxRetries : StageOf(j, n)' = StageOf(j, n)
BY DEF StageOf

LEMMA SameRows ==
  ASSUME \A j \in Jobs : \A n \in 0..MaxRetries : StageOf(j, n)' = StageOf(j, n)
  PROVE  UNCHANGED Stages
BY DEF Stages

LEMMA TurnIs ==
  ASSUME NEW k \in Jobs, NEW n \in 0..MaxRetries, NEW s, StageOf(k, n)' = s,
         \A m \in 0..MaxRetries \ {n} : StageOf(k, m)' = StageOf(k, m),
         \A j \in Jobs \ {k} : \A m \in 0..MaxRetries : StageOf(j, m)' = StageOf(j, m)
  PROVE  Contract!Turn(k, n, s)
<1>1. \A j \in Jobs : \A m \in 0..MaxRetries :
        StageOf(j, m)' = IF j = k /\ m = n THEN s ELSE StageOf(j, m)
  OBVIOUS
<1> QED
  BY <1>1 DEF Contract!Turn, Stages

LEMMA WriteIs ==
  ASSUME UNCHANGED Stages,
         \A j \in Jobs :
           \/ Lives'[j] = Lives[j]
           \/ Lives[j] = "new" /\ Lives'[j] = "open"
           \/ /\ Lives[j] # "closed" /\ Lives'[j] = "closed"
              /\ \A n \in 0..MaxRetries : <<j, n>> \notin up
  PROVE  Contract!Next
<1>1. Lives' \in [Jobs -> Contract!Lives]
  BY DEF Lives, LifeOf, Contract!Lives
<1>2. \A j \in Jobs : (\A n \in 0..MaxRetries : <<j, n>> \notin up) => Contract!Held(j) = {}
  BY HeldAreUp
<1>3. Contract!Write
  BY <1>1, <1>2 DEF Contract!Write
<1> QED
  BY <1>3 DEF Contract!Next

\* A VM that goes ends a lease.
LEMMA KillRefines ==
  ASSUME BaseInv, BaseInv', NEW v \in VMs, Kill(v), UNCHANGED rec
  PROVE  [Contract!Next]_(Contract!vars)
<1>0. UNCHANGED Lives
  BY DEF Lives
<1>1. PICK k \in Jobs, n \in 0..MaxRetries : v = <<k, n>>
  BY VMIs
<1>2. \A j \in Jobs \ {k} : \A m \in 0..MaxRetries : StageOf(j, m)' = StageOf(j, m)
  BY <1>1, RowStays DEF Kill
<1>3. CASE v \notin up
  <2>1. \A m \in 0..MaxRetries : StageOf(k, m)' = StageOf(k, m)
    BY <1>3, RowStays DEF Kill
  <2> QED
    BY <1>0, <1>2, <2>1, SameRows DEF Contract!vars
<1>4. CASE v \in up
  <2>1. n = rec[k].retry /\ rec[k].state \in Provided
    BY <1>1, <1>4 DEF BaseInv, JobFits, VMsFit
  <2>2. Stages[k][n] = "held" /\ StageOf(k, n)' = "gone"
    BY <1>1, <1>4, <2>1 DEF Stages, StageOf, Kill, Provided
  <2>3. \A m \in 0..MaxRetries \ {n} : StageOf(k, m)' = StageOf(k, m)
    BY <1>1 DEF StageOf, Kill
  <2>4. Contract!Turn(k, n, "gone")
    BY <1>2, <2>2, <2>3, TurnIs
  <2>5. Contract!End(k, n)
    BY <1>0, <2>2, <2>4 DEF Contract!End
  <2> QED
    BY <2>5 DEF Contract!Next
<1> QED
  BY <1>3, <1>4

LEMMA ProvisionRefines ==
  ASSUME BaseInv, NEW k \in Jobs, Provision(k)
  PROVE  Contract!Next
<1>a. /\ rec \in RecType /\ rec[k].retry \in 0..MaxRetries /\ rec[k].state = "queued"
      /\ VM(k) = <<k, rec[k].retry>>
  BY RecordIs DEF BaseInv, TypeOK, RecType, Provision, JobFits, PlaceFits, FitsAt, VM
<1>b. PICK n \in 0..MaxRetries : n = rec[k].retry
  BY <1>a
<1>0. /\ rec \in RecType /\ rec[k].state = "queued" /\ VM(k) = <<k, n>>
      /\ rec[k].retry = n
  BY <1>a, <1>b
<1>1. \A m \in 0..MaxRetries : <<k, m>> \notin up
  BY <1>0 DEF BaseInv, JobFits, VMsFit, Provided
<1>2. /\ \A j \in Jobs \ {k} : rec'[j] = rec[j]
      /\ rec'[k].retry = n /\ rec'[k].state = "bootstrapping" /\ up' = up \cup {<<k, n>>}
  BY <1>0 DEF Provision, State, RecType
<1>3. UNCHANGED Lives /\ Lives[k] = "open"
  BY <1>0, <1>2 DEF Lives, LifeOf
<1>4. \A j \in Jobs \ {k} : \A m \in 0..MaxRetries : StageOf(j, m)' = StageOf(j, m)
  BY <1>2, RowStays
<1>5. Stages[k][n] = "unused" /\ StageOf(k, n)' = "held"
  BY <1>0, <1>1, <1>2, Bounds DEF Stages, StageOf
<1>6. \A m \in 0..MaxRetries \ {n} : StageOf(k, m)' = StageOf(k, m)
  BY <1>0, <1>2 DEF StageOf
<1>7. Contract!Turn(k, n, "held")
  BY <1>0, <1>4, <1>5, <1>6, TurnIs
<1>8. Contract!Held(k) = {}
  BY <1>1, HeldAreUp
<1>9. Contract!Rent(k, n)
  BY <1>3, <1>5, <1>7, <1>8 DEF Contract!Rent
<1> QED
  BY <1>0, <1>9 DEF Contract!Next

\* A worker that keeps its VM writes a record, or does nothing the contract
\* knows of.
LEMMA WriteRefines ==
  ASSUME BaseInv, NEW k \in Jobs, OnlyMoves(k), up' = up,
         \A m \in 0..MaxRetries : StageOf(k, m)' = StageOf(k, m),
         \/ LifeOf(rec'[k].state) = LifeOf(rec[k].state)
         \/ rec[k].state = "none" /\ LifeOf(rec'[k].state) = "open"
         \/ /\ LifeOf(rec[k].state) = "open" /\ LifeOf(rec'[k].state) = "closed"
            /\ VM(k) \notin up
  PROVE  Contract!Next
<1>1. \A j \in Jobs \ {k} : rec'[j] = rec[j]
  BY DEF OnlyMoves
<1>2. \A j \in Jobs \ {k} : \A m \in 0..MaxRetries : StageOf(j, m)' = StageOf(j, m)
  BY <1>1, RowStays
<1>3. UNCHANGED Stages
  BY <1>2, SameRows
<1>4. VM(k) \notin up => \A n \in 0..MaxRetries : <<k, n>> \notin up
  BY DEF BaseInv, JobFits, VMsFit, VM
<1>5. \A j \in Jobs : Lives[j] = LifeOf(rec[j].state) /\ Lives'[j] = LifeOf(rec'[j].state)
  BY DEF Lives, LifeOf
<1>6. LifeOf("none") = "new"
  BY DEF LifeOf
<1>7. \A j \in Jobs \ {k} : Lives'[j] = Lives[j]
  BY <1>1, <1>5
<1> QED
  BY <1>3, <1>4, <1>5, <1>6, <1>7, WriteIs

LEMMA WorkerRefines ==
  ASSUME BaseInv, BaseInv', NEW k \in Jobs, Worker(k)
  PROVE  [Contract!Next]_(Contract!vars)
<1>0. /\ TypeOK /\ rec \in RecType /\ at \in [Jobs -> Places] /\ JobFits(k) /\ OnlyMoves(k)
      /\ rec[k].state \in RecStates /\ rec[k].retry \in 0..MaxRetries /\ VM(k) \in VMs
      /\ VM(k) = <<k, rec[k].retry>>
  BY WorkerMoves, RecordIs DEF BaseInv, TypeOK, RecType, VM
<1>1. CASE Cleanup(k) \/ Delete(k)
  BY <1>0, <1>1, KillRefines DEF Cleanup, Delete
<1>2. CASE Provision(k)
  BY <1>2, ProvisionRefines
<1>3. CASE Bootstraps(k) \/ Watches(k)
  <2>1. up' = up
    <3>1. CASE Bootstraps(k)
      BY <3>1 DEF Bootstraps, Reattach, StartsAfresh, RemoveOld, Register, Stage, Launch,
                  Launched, machines
    <3>2. CASE Watches(k)
      BY <3>2 DEF Watches, Resumed, ReadMarker, RunnerExited, PollJob, Release, StaysUp,
                  KeepWaiting,
                  PickupOver, TooLong, machines
    <3> QED
      BY <1>3, <3>1, <3>2
  <2>2. rec[k].state \in Provided /\ rec'[k].state \in Provided /\ rec'[k].retry = rec[k].retry
    <3>1. CASE Bootstraps(k)
      <4>1. rec[k].state = "bootstrapping"
        BY <1>0, <3>1
           DEF Bootstraps, Reattach, StartsAfresh, RemoveOld, Register, Stage, Launch, Launched,
               JobFits, PlaceFits, FitsAt
      <4>2. \/ UNCHANGED rec \/ State(k, "runner_up")
            \/ rec' = [rec EXCEPT ![k].runner = @ + 1]
        BY <3>1
           DEF Bootstraps, Reattach, StartsAfresh, RemoveOld, Register, Stage, Launch, Launched
      <4> QED
        BY <1>0, <4>1, <4>2 DEF State, RecType, Provided
    <3>2. CASE Watches(k)
      <4>1. rec[k].state \in {"runner_up", "job_running"}
        BY <3>2 DEF Watches, Resumed, ReadMarker, RunnerExited, PollJob, Release, StaysUp,
                    KeepWaiting,
                    PickupOver, TooLong, Monitors
      <4>2. UNCHANGED rec \/ State(k, "job_done") \/ State(k, "job_running")
        BY <3>2 DEF Watches, Resumed, ReadMarker, RunnerExited, StillQueued, PollJob, Release,
                    StaysUp, KeepWaiting, PickupOver, TooLong, Completed
      <4> QED
        BY <1>0, <4>1, <4>2 DEF State, RecType, Provided
    <3> QED
      BY <1>3, <3>1, <3>2
  <2>3. \A m \in 0..MaxRetries : StageOf(k, m)' = StageOf(k, m)
    BY <2>1, <2>2, RowStays DEF Provided
  <2>4. LifeOf(rec'[k].state) = LifeOf(rec[k].state)
    BY <2>2 DEF LifeOf, Provided
  <2> QED
    BY <1>0, <2>1, <2>3, <2>4, WriteRefines
<1>4. CASE Submit(k)
  <2>1. /\ up' = up /\ rec[k].state = "none" /\ rec'[k].state = "queued"
        /\ rec'[k].retry = rec[k].retry
    BY <1>0, <1>4 DEF Submit, State, RecType, machines
  <2>2. \A m \in 0..MaxRetries : StageOf(k, m)' = StageOf(k, m)
    BY <2>1, RowStays
  <2>3. LifeOf(rec'[k].state) = "open"
    BY <2>1 DEF LifeOf
  <2> QED
    BY <1>0, <2>1, <2>2, <2>3, WriteRefines
<1>5. CASE AttemptFailed(k)
  <2>1. /\ up' = up /\ rec'[k].retry = rec[k].retry
        /\ rec' = rec \/ rec'[k].state \in {"failed", "complete"}
    BY <1>0, <1>5 DEF AttemptFailed, State, RecType, machines
  <2>2. rec[k].state \in {"bootstrapping", "runner_up", "job_running"} /\ VM(k) \notin up
    BY <1>0, <1>5 DEF AttemptFailed, JobFits, PlaceFits, FitsAt, VMsFit
  <2>3. \A m \in 0..MaxRetries : StageOf(k, m)' = StageOf(k, m)
    BY <2>1, <2>2, RowStays
  <2>4. /\ LifeOf(rec[k].state) = "open"
        /\ rec' = rec \/ LifeOf(rec'[k].state) = "closed"
    BY <2>1, <2>2 DEF LifeOf
  <2> QED
    BY <1>0, <2>1, <2>2, <2>3, <2>4, WriteRefines
<1>6. CASE Unregister(k)
  <2>1. /\ up' = up /\ rec'[k].retry = rec[k].retry /\ rec'[k].state = "complete"
    BY <1>0, <1>6 DEF Unregister, State, RecType, machines
  <2>2. rec[k].state = "job_done" /\ VM(k) \notin up
    BY <1>0, <1>6 DEF Unregister, JobFits, PlaceFits, FitsAt, VMsFit
  <2>3. \A m \in 0..MaxRetries : StageOf(k, m)' = StageOf(k, m)
    BY <2>1, <2>2, RowStays
  <2>4. LifeOf(rec[k].state) = "open" /\ LifeOf(rec'[k].state) = "closed"
    BY <2>1, <2>2 DEF LifeOf
  <2> QED
    BY <1>0, <2>1, <2>2, <2>3, <2>4, WriteRefines
<1>7. CASE Retry(k)
  <2>1. /\ up' = up /\ rec'[k].retry = rec[k].retry + 1 /\ rec'[k].state = "queued"
    BY <1>0, <1>7 DEF Retry, RecType, machines
  <2>2. /\ rec[k].state \in {"bootstrapping", "runner_up", "job_running"}
        /\ VM(k) \notin up
    BY <1>0, <1>7 DEF Retry, JobFits, PlaceFits, FitsAt, VMsFit
  <2>3. \A m \in 0..MaxRetries : <<k, m>> \notin up
    BY <1>0, <2>2 DEF JobFits, VMsFit
  <2>4. rec[k].retry \in Nat
    BY <1>0, Bounds
  <2>5. ASSUME NEW m \in 0..MaxRetries PROVE StageOf(k, m)' = StageOf(k, m)
    <3>1. m \in Nat
      BY Bounds
    <3>2. m < rec[k].retry + 1 <=> m < rec[k].retry \/ m = rec[k].retry
      BY <2>4, <3>1
    <3>3. StageOf(k, m) = IF m < rec[k].retry \/ m = rec[k].retry THEN "gone" ELSE "unused"
      BY <2>2, <2>3 DEF StageOf
    <3>4. StageOf(k, m)' = IF m < rec[k].retry + 1 THEN "gone" ELSE "unused"
      BY <2>1, <2>3 DEF StageOf
    <3> QED
      BY <3>2, <3>3, <3>4
  <2>6. LifeOf(rec'[k].state) = LifeOf(rec[k].state)
    BY <2>1, <2>2 DEF LifeOf
  <2> QED
    BY <1>0, <2>1, <2>5, <2>6, WriteRefines
<1> QED
  BY <1>1, <1>2, <1>3, <1>4, <1>5, <1>6, <1>7 DEF Worker

LEMMA ContractInit == Init => Contract!Init
<1> SUFFICES ASSUME Init PROVE Contract!Init
  OBVIOUS
<1>1. /\ rec = [j \in Jobs |-> [state |-> "none", retry |-> 0, runner |-> 0]]
      /\ up = {}
  BY DEF Init
<1>2. \A j \in Jobs : LifeOf(rec[j].state) = "new"
  BY <1>1 DEF LifeOf
<1>3. \A j \in Jobs : \A n \in 0..MaxRetries : StageOf(j, n) = "unused"
  BY <1>1, Bounds DEF StageOf
<1> QED
  BY <1>2, <1>3 DEF Contract!Init, Lives, Stages

LEMMA NextRefines ==
  ASSUME BaseInv, BaseInv', [Next]_vars
  PROVE  [Contract!Next]_(Contract!vars)
<1>1. ASSUME UNCHANGED <<rec, up>> PROVE UNCHANGED Contract!vars
  BY <1>1 DEF Contract!vars, Lives, Stages, LifeOf, StageOf
<1>2. ASSUME NEW v \in VMs, Vanishes(v) PROVE [Contract!Next]_(Contract!vars)
  BY <1>2, KillRefines DEF Vanishes
<1>3. ASSUME NEW k \in Jobs, JobEnds(k) \/ Elsewhere(k) PROVE UNCHANGED <<rec, up>>
  BY <1>3 DEF JobEnds, Elsewhere, machines
<1>4. ASSUME NEW r \in Runners, Runner(r) \/ CleanRunner(r) PROVE UNCHANGED <<rec, up>>
  BY <1>4 DEF Runner, FirstPhase, Listens, Dies, Leaves, Claim, ClaimUnlisted, UnlistedEnds,
              CleanRunner, machines
<1>5. ASSUME ListVMs \/ ListRunners \/ Crash \/ UNCHANGED vars PROVE UNCHANGED <<rec, up>>
  BY <1>5 DEF ListVMs, ListRunners, Crash, vars, machines
<1> QED
  BY <1>1, <1>2, <1>3, <1>4, <1>5, WorkerRefines DEF Next

\* The worker that bootstraps, monitors and retries rents a VM for an open job
\* that holds none, and closes a record when its VM is gone, whatever GitHub,
\* the runners, the VMs and crashes do in between.
THEOREM MonitorKeepsContract == Spec => KeepsContract
<1>1. BaseInv /\ BaseInv' /\ [Next]_vars => [Contract!Next]_(Contract!vars)
  BY NextRefines
<1>2. Init /\ [][Next]_vars => Contract!Init /\ [][Contract!Next]_(Contract!vars)
  BY <1>1, ContractInit, BaseInit, BaseStep, PTL
<1> QED
  BY <1>2 DEF Spec, KeepsContract, Contract!Spec

-----------------------------------------------------------------------------
(* At most one runner per VM that GitHub knows and that may run.           *)

\* What is read off TypeOK in the steps below.
LEMMA Typed ==
  ASSUME BaseInv
  PROVE  /\ TypeOK /\ rec \in RecType /\ at \in [Jobs -> Places]
         /\ proc \in [Runners -> Processes] /\ reg \subseteq Runners
BY DEF BaseInv, TypeOK, RecType, Processes

LEMMA StateIs ==
  ASSUME rec \in RecType, NEW k \in Jobs, NEW s, State(k, s)
  PROVE  /\ rec'[k].retry = rec[k].retry /\ rec'[k].runner = rec[k].runner
         /\ rec'[k].state = s
BY DEF State, RecType

LEMMA ZeroIs == ASSUME NEW v \in VMs PROVE <<v, 0>> \in Runners
<1>1. 0 \in 0..MaxStagings
  BY Bounds
<1> QED
  BY <1>1 DEF Runners

LEMMA SoleInit == Init => SoleInv
<1> SUFFICES ASSUME Init PROVE SoleInv
  OBVIOUS
<1>1. NeverRun
  BY ZeroIs DEF Init, NeverRun
<1>2. NotAhead /\ \A k \in Jobs : HasRunner(k) /\ OnlyNamed(k)
  BY DEF Init, NotAhead, HasRunner, OnlyNamed
<1> QED
  BY <1>1, <1>2 DEF SoleInv

\* A step that starts no registration number 0 and only ever stops others.
LEMMA NeverRunStep ==
  ASSUME BaseInv, SoleInv, [Next]_vars
  PROVE  NeverRun'
<1>0. /\ proc \in [Runners -> Processes] /\ TypeOK /\ NeverRun
  BY Typed DEF SoleInv
<1> SUFFICES ASSUME NEW v \in VMs PROVE proc'[<<v, 0>>] = "unused"
  BY DEF NeverRun
<1> DEFINE z == <<v, 0>>
<1>1. z \in Runners /\ proc[z] = "unused"
  BY <1>0, ZeroIs DEF NeverRun
<1>2. ASSUME NEW w \in VMs, Kill(w) PROVE proc'[z] = "unused"
  BY <1>1, <1>2 DEF Kill
<1>3. ASSUME NEW r \in Runners, Runner(r) PROVE proc'[z] = "unused"
  <2>1. /\ proc[r] # "unused"
        /\ \E p \in Processes : proc' = [proc EXCEPT ![r] = p]
    BY <1>3 DEF Runner, FirstPhase, Listens, Dies, Leaves, Claim, ClaimUnlisted, UnlistedEnds,
                Processes
  <2> QED
    BY <1>0, <1>1, <2>1
<1>4. ASSUME NEW k \in Jobs, Launch(k) PROVE proc'[z] = "unused"
  <2>1. rec[k].runner # 0
    BY <1>4 DEF Launch, SoleInv, HasRunner
  <2>2. Mine(k) # z
    BY <2>1 DEF Mine
  <2>3. Mine(k) \in Runners
    BY <1>0, RecordIs
  <2>4. UNCHANGED proc \/ proc' = [proc EXCEPT ![Mine(k)] = "started"]
    BY <1>4 DEF Launch
  <2> QED
    BY <1>0, <1>1, <2>2, <2>3, <2>4
<1>5. ASSUME NEW k \in Jobs, JobEnds(k) PROVE proc'[z] = "unused"
  BY <1>1, <1>5 DEF JobEnds
<1>6. ASSUME NEW k \in Jobs, Cleanup(k) \/ Delete(k) PROVE proc'[z] = "unused"
  BY <1>0, <1>2, <1>6, RecordIs DEF Cleanup, Delete
<1>7. ASSUME NEW k \in Jobs, Worker(k), ~Launch(k), ~Cleanup(k), ~Delete(k)
      PROVE  UNCHANGED proc
  BY <1>7
     DEF Worker, Bootstraps, Watches, Submit, Provision, Reattach, StartsAfresh, RemoveOld,
         Register, Stage, Launched, Resumed, ReadMarker, RunnerExited, PollJob, Release, StaysUp,
         KeepWaiting, PickupOver, TooLong, AttemptFailed, Retry, Unregister, machines
<1>8. ASSUME \/ ListVMs \/ ListRunners \/ Crash \/ UNCHANGED vars
             \/ (\E r \in Runners : CleanRunner(r)) \/ \E k \in Jobs : Elsewhere(k)
      PROVE  UNCHANGED proc
  BY <1>8 DEF ListVMs, ListRunners, Crash, vars, CleanRunner, Elsewhere, machines
<1>9. ASSUME NEW w \in VMs, Vanishes(w) PROVE proc'[z] = "unused"
  BY <1>2, <1>9 DEF Vanishes
<1> QED
  BY <1>1, <1>3, <1>4, <1>5, <1>6, <1>7, <1>8, <1>9 DEF Next

\* A record's retry and runner stay, and no registration is added.
Calm(k) ==
  /\ rec'[k].retry = rec[k].retry /\ rec'[k].runner = rec[k].runner
  /\ reg' \subseteq reg

LEMMA NothingNew ==
  ASSUME BaseInv, SoleInv, NEW k \in Jobs, Calm(k),
         at'[k] \in {"stage", "launch"} => at[k] = "stage",
         at'[k] # "register"
  PROVE  HasRunner(k)' /\ OnlyNamed(k)'
<1>1. HasRunner(k) /\ OnlyNamed(k)
  BY DEF SoleInv
<1>2. VM(k)' = VM(k) /\ Mine(k)' = Mine(k)
  BY DEF Calm, VM, Mine
<1> QED
  BY <1>1, <1>2 DEF HasRunner, OnlyNamed, Calm

LEMMA AheadStays ==
  ASSUME BaseInv, SoleInv, reg' \subseteq reg,
         \A k \in Jobs : rec[k].retry <= rec'[k].retry /\ rec'[k].retry \in Nat
  PROVE  NotAhead'
<1> SUFFICES ASSUME NEW r \in reg' PROVE r[1][2] <= rec'[r[1][1]].retry
  BY DEF NotAhead
<1>1. r \in reg /\ r \in Runners
  BY Typed
<1>2. r[1] \in VMs /\ r[1][1] \in Jobs /\ r[1][2] \in Nat
  BY <1>1, RunnerIs, VMIs, Bounds
<1>3. r[1][2] <= rec[r[1][1]].retry /\ rec[r[1][1]].retry \in Nat
  BY <1>1, <1>2, Typed, RecordIs, Bounds DEF SoleInv, NotAhead
<1> QED
  BY <1>2, <1>3

LEMMA RegisterKeeps ==
  ASSUME ~GitHubMayFail, BaseInv, SoleInv, NEW k \in Jobs, Register(k)
  PROVE  NotAhead' /\ HasRunner(k)' /\ OnlyNamed(k)'
<1>0. /\ TypeOK /\ rec \in RecType /\ at \in [Jobs -> Places] /\ reg \subseteq Runners
      /\ OnlyNamed(k) /\ NotAhead
  BY Typed DEF SoleInv
<1>1. /\ rec' = [rec EXCEPT ![k].runner = @ + 1]
      /\ reg' = reg \cup {<<VM(k), rec'[k].runner>>}
      /\ at[k] = "register" /\ at'[k] = "stage"
  BY <1>0 DEF Register, Goto, GitHubFails
<1>2. /\ rec'[k].runner = rec[k].runner + 1 /\ rec[k].runner \in Nat
      /\ \A j \in Jobs : rec'[j].retry = rec[j].retry
  BY <1>0, <1>1, RecordIs, Bounds DEF RecType
<1>3. VM(k)' = VM(k) /\ VM(k) \in VMs /\ VM(k)[1] = k /\ VM(k)[2] = rec[k].retry
      /\ rec[k].retry \in Nat
  BY <1>0, <1>2, RecordIs, Bounds DEF VM
<1>4. HasRunner(k)'
  BY <1>2 DEF HasRunner
<1>5. Mine(k)' = <<VM(k), rec'[k].runner>>
  BY <1>3 DEF Mine
<1>6. OnlyNamed(k)'
  <2>1. ASSUME NEW r \in reg, r[1] = VM(k), r[2] # 0 PROVE FALSE
    BY <1>0, <1>1, <2>1 DEF OnlyNamed
  <2> QED
    BY <1>1, <1>3, <1>5, <2>1 DEF OnlyNamed
<1>7. NotAhead'
  <2>1. ASSUME NEW r \in reg PROVE r[1][2] <= rec'[r[1][1]].retry
    BY <1>0, <1>2, <2>1, RunnerIs, VMIs DEF NotAhead
  <2>2. ASSUME NEW r, r = <<VM(k), rec'[k].runner>> PROVE r[1][2] <= rec'[r[1][1]].retry
    BY <1>2, <1>3, <2>2
  <2> QED
    BY <1>1, <2>1, <2>2 DEF NotAhead
<1> QED
  BY <1>4, <1>6, <1>7

LEMMA WorkerKeeps ==
  ASSUME ~GitHubMayFail, BaseInv, SoleInv, NEW k \in Jobs, Worker(k)
  PROVE  NotAhead' /\ \A j \in Jobs : HasRunner(j)' /\ OnlyNamed(j)'
<1>0. /\ TypeOK /\ rec \in RecType /\ at \in [Jobs -> Places] /\ reg \subseteq Runners
      /\ OnlyNamed(k) /\ HasRunner(k) /\ NotAhead /\ OnlyMoves(k)
  BY Typed, WorkerMoves DEF SoleInv
<1>1. ASSUME NEW j \in Jobs \ {k} PROVE HasRunner(j)' /\ OnlyNamed(j)'
  <2>1. /\ rec'[j] = rec[j] /\ at'[j] = at[j]
        /\ HasRunner(j) /\ OnlyNamed(j)
    BY <1>0 DEF OnlyMoves, SoleInv
  <2>2. VM(j)' = VM(j) /\ Mine(j)' = Mine(j) /\ VM(j)[1] = j /\ VM(k)[1] = k
    BY <2>1 DEF VM, Mine
  <2>3. \A r \in reg' \ reg : r[1] = VM(k)
    <3>1. CASE Register(k)
      BY <3>1 DEF Register, NoId
    <3>2. CASE ~Register(k)
      <4>1. ASSUME Bootstraps(k) PROVE reg' \subseteq reg
        BY <3>2, <4>1 DEF Bootstraps, Reattach, StartsAfresh, RemoveOld, Stage, Launch, Launched
      <4>2. ASSUME Watches(k) PROVE reg' \subseteq reg
        BY <4>2 DEF Watches, Resumed, ReadMarker, RunnerExited, PollJob, Release, StaysUp,
                    KeepWaiting, PickupOver, TooLong
      <4> QED
        BY <4>1, <4>2 DEF Worker, Submit, Provision, Cleanup, AttemptFailed, Retry, Delete,
                Unregister
    <3> QED
      BY <3>1, <3>2
  <2> QED
    BY <2>1, <2>2, <2>3 DEF HasRunner, OnlyNamed
<1>2. ASSUME reg' \subseteq reg, \/ rec'[k].retry = rec[k].retry
                                 \/ rec'[k].retry = rec[k].retry + 1
      PROVE  NotAhead'
  <2>1. ASSUME NEW j \in Jobs PROVE rec[j].retry <= rec'[j].retry /\ rec'[j].retry \in Nat
    <3>1. rec[j].retry \in Nat
      BY <1>0, RecordIs, Bounds
    <3>2. j = k \/ rec'[j] = rec[j]
      BY <1>0 DEF OnlyMoves
    <3> QED
      BY <1>2, <3>1, <3>2
  <2> QED
    BY <1>2, <2>1, AheadStays
<1>3. ASSUME Calm(k), at'[k] \notin {"stage", "launch", "register"}
      PROVE  NotAhead' /\ HasRunner(k)' /\ OnlyNamed(k)'
  BY <1>2, <1>3, NothingNew DEF Calm
<1>4. CASE Register(k)
  BY <1>1, <1>4, RegisterKeeps
<1>5. CASE StartsAfresh(k)
  <2>2. Calm(k) /\ at'[k] \in {"register", "removeold"}
    BY <1>0, <1>5 DEF StartsAfresh, Goto, Calm
  <2>3. VM(k)' = VM(k) /\ Mine(k)' = Mine(k)
    BY <2>2 DEF Calm, VM, Mine
  <2>4. ASSUME NEW r \in reg', r[1] = VM(k), r[2] # 0 PROVE r = Mine(k) /\ at'[k] # "register"
    <3>1. r = Mine(k)
      BY <1>0, <2>2, <2>4 DEF OnlyNamed, Calm
    <3>2. rec[k].runner # 0
      BY <2>4, <3>1 DEF Mine
    <3> QED
      BY <1>0, <1>5, <2>2, <3>1, <3>2 DEF StartsAfresh, Goto
  <2>5. HasRunner(k)' /\ OnlyNamed(k)'
    BY <2>2, <2>3, <2>4 DEF HasRunner, OnlyNamed
  <2> QED
    BY <1>1, <1>2, <2>2, <2>5 DEF Calm
<1>6. CASE RemoveOld(k)
  <2>1. Calm(k) /\ at'[k] = "register" /\ reg' = reg \ {Mine(k)}
    BY <1>0, <1>6 DEF RemoveOld, Goto, Calm, GitHubFails
  <2>2. VM(k)' = VM(k) /\ Mine(k)' = Mine(k)
    BY <2>1 DEF Calm, VM, Mine
  <2>3. HasRunner(k)' /\ OnlyNamed(k)'
    BY <1>0, <2>1, <2>2 DEF HasRunner, OnlyNamed
  <2> QED
    BY <1>1, <1>2, <2>1, <2>3 DEF Calm
<1>7. CASE Stage(k) \/ Launch(k)
  <2>1. Calm(k) /\ at[k] \in {"stage", "launch"} /\ at'[k] \in {"launch", "launched", "cleanup"}
    BY <1>0, <1>7 DEF Stage, Launch, Goto, Calm
  <2>2. VM(k)' = VM(k) /\ Mine(k)' = Mine(k)
    BY <2>1 DEF Calm, VM, Mine
  <2>3. HasRunner(k)' /\ OnlyNamed(k)'
    BY <1>0, <2>1, <2>2 DEF HasRunner, OnlyNamed, Calm
  <2> QED
    BY <1>1, <1>2, <2>1, <2>3 DEF Calm
<1>8. CASE Reattach(k) \/ Launched(k)
  <2>1. Calm(k) /\ at'[k] = "tick"
    BY <1>0, <1>8, StateIs DEF Reattach, Launched, Goto, Calm
  <2> QED
    BY <1>1, <1>3, <2>1
<1>9. CASE Watches(k)
  <2>1. at'[k] \in {"tick", "cleanup", "exited", "poll", "delete", "decide", "deadlines", "pickup"}
    BY <1>0, <1>9
       DEF Watches, Resumed, ReadMarker, RunnerExited, StillQueued, PollJob, Release, StaysUp,
           KeepWaiting, PickupOver, TooLong, Completed, Goto
  <2>2. UNCHANGED rec \/ \E s \in RecStates : State(k, s)
    BY <1>9 DEF Watches, Resumed, ReadMarker, RunnerExited, StillQueued, PollJob, Release,
                StaysUp, KeepWaiting, PickupOver, TooLong, Completed, RecStates
  <2>3. UNCHANGED reg
    BY <1>9 DEF Watches, Resumed, ReadMarker, RunnerExited, PollJob, Release,
                StaysUp, KeepWaiting, PickupOver, TooLong
  <2>4. Calm(k)
    BY <1>0, <2>2, <2>3, StateIs DEF Calm
  <2> QED
    BY <1>1, <1>3, <2>1, <2>4
<1>10. CASE Submit(k) \/ Provision(k) \/ Cleanup(k) \/ AttemptFailed(k) \/ Delete(k) \/ Unregister(k)
  <2>1. at'[k] \in {"create", "attempt", "failed", "retry", "end", "unregister"}
    BY <1>0, <1>10 DEF Submit, Provision, Cleanup, AttemptFailed, Delete, Unregister, Goto
  <2>2. reg' \subseteq reg /\ (UNCHANGED rec \/ \E s \in RecStates : State(k, s))
    BY <1>10 DEF Submit, Provision, Cleanup, AttemptFailed, Delete, Unregister, RecStates
  <2>3. Calm(k)
    BY <1>0, <2>2, StateIs DEF Calm
  <2> QED
    BY <1>1, <1>3, <2>1, <2>3
<1>11. CASE Retry(k)
  <2>1. /\ rec'[k].retry = rec[k].retry + 1 /\ reg' = reg /\ at'[k] = "create"
        /\ rec[k].retry \in Nat
    BY <1>0, <1>11, RecordIs, Bounds DEF Retry, RecType, Goto
  <2>2. ASSUME NEW r \in reg PROVE r[1] # VM(k)'
    <3>1. r[1] \in VMs /\ r[1][1] \in Jobs /\ r[1][2] \in Nat
      BY <1>0, RunnerIs, VMIs, Bounds
    <3>2. r[1][2] <= rec[r[1][1]].retry
      BY <1>0 DEF NotAhead
    <3>3. VM(k)'[1] = k /\ VM(k)'[2] = rec[k].retry + 1
      BY <2>1 DEF VM
    <3> QED
      BY <2>1, <3>1, <3>2, <3>3
  <2>3. HasRunner(k)' /\ OnlyNamed(k)'
    BY <2>1, <2>2 DEF HasRunner, OnlyNamed
  <2> QED
    BY <1>1, <1>2, <2>1, <2>3
<1> QED
  BY <1>4, <1>5, <1>6, <1>7, <1>8, <1>9, <1>10, <1>11 DEF Worker, Bootstraps

\* A crash while a runner is being registered may leave one whose id is lost.
LEMMA CrashKeeps ==
  ASSUME BaseInv, SoleInv, Crash
  PROVE  NotAhead' /\ \A k \in Jobs : HasRunner(k)' /\ OnlyNamed(k)'
<1>0. /\ TypeOK /\ rec \in RecType /\ reg \subseteq Runners /\ NotAhead /\ UNCHANGED rec
  BY Typed DEF SoleInv, Crash
<1>1. ASSUME NEW r \in reg' \ reg PROVE r[2] = 0 /\ r[1][2] <= rec[r[1][1]].retry
  <2>1. PICK k \in Jobs : r = NoId(k)
    BY <1>1 DEF Crash
  <2>2. r[2] = 0 /\ r[1] = VM(k) /\ VM(k)[1] = k /\ VM(k)[2] = rec[k].retry
    BY <2>1 DEF NoId, VM
  <2>3. rec[k].retry \in Nat
    BY <1>0, RecordIs, Bounds
  <2> QED
    BY <2>2, <2>3
<1>2. NotAhead'
  BY <1>0, <1>1 DEF NotAhead
<1>3. ASSUME NEW k \in Jobs PROVE HasRunner(k)' /\ OnlyNamed(k)'
  <2>1. at'[k] \in {"none", "create", "attempt", "delete", "end"}
    BY DEF Crash, ResumesAt
  <2>2. VM(k)' = VM(k) /\ Mine(k)' = Mine(k) /\ OnlyNamed(k)
    BY <1>0 DEF VM, Mine, SoleInv
  <2> QED
    BY <1>1, <2>1, <2>2 DEF HasRunner, OnlyNamed
<1> QED
  BY <1>2, <1>3

LEMMA OthersKeep ==
  ASSUME BaseInv, SoleInv, [Next]_vars, ~Crash, \A k \in Jobs : ~Worker(k)
  PROVE  NotAhead' /\ \A k \in Jobs : HasRunner(k)' /\ OnlyNamed(k)'
<1>1. UNCHANGED <<rec, at>>
  BY OthersStayApart DEF Apart
<1>2. reg' \subseteq reg
  <2>1. ASSUME NEW r \in Runners, Runner(r) \/ CleanRunner(r) PROVE reg' \subseteq reg
    BY <2>1 DEF Runner, FirstPhase, Listens, Dies, Leaves, Claim, ClaimUnlisted, UnlistedEnds,
                CleanRunner
  <2>2. ASSUME \/ ListVMs \/ ListRunners \/ (\E v \in VMs : Vanishes(v)) \/ UNCHANGED vars
               \/ \E k \in Jobs : JobEnds(k) \/ Elsewhere(k)
        PROVE  reg' \subseteq reg
    BY <2>2 DEF ListVMs, ListRunners, Vanishes, vars, JobEnds, Elsewhere
  <2> QED
    BY <2>1, <2>2 DEF Next
<1>3. NotAhead'
  BY <1>1, <1>2 DEF SoleInv, NotAhead
<1>4. ASSUME NEW k \in Jobs PROVE HasRunner(k)' /\ OnlyNamed(k)'
  <2>1. VM(k)' = VM(k) /\ Mine(k)' = Mine(k) /\ OnlyNamed(k) /\ HasRunner(k)
    BY <1>1 DEF VM, Mine, SoleInv
  <2> QED
    BY <1>1, <1>2, <2>1 DEF HasRunner, OnlyNamed
<1> QED
  BY <1>3, <1>4

LEMMA SoleStep ==
  ASSUME ~GitHubMayFail, BaseInv, SoleInv, [Next]_vars
  PROVE  SoleInv'
<1>1. NeverRun'
  BY NeverRunStep
<1>2. NotAhead' /\ \A k \in Jobs : HasRunner(k)' /\ OnlyNamed(k)'
  BY WorkerKeeps, CrashKeeps, OthersKeep
<1> QED
  BY <1>1, <1>2 DEF SoleInv

\* Only the two looks at the runner give a VM up as idle.
LEMMA GivesUpIs ==
  ASSUME BaseInv, [Next]_vars, NEW k \in Jobs, GivesUp(k)
  PROVE  RunnerBusy(k, FALSE)
<1>0. /\ at \in [Jobs -> Places] /\ TypeOK /\ JobFits(k)
      /\ at[k] \in {"decide", "deadlines"} /\ at'[k] \in {"delete", "pickup"}
  BY Typed DEF BaseInv, GivesUp
<1>1. Worker(k)
  <2>1. ~Crash
    BY <1>0 DEF Crash, ResumesAt, JobFits, PlaceFits, FitsAt
  <2>2. ASSUME NEW j \in Jobs \ {k}, Worker(j) PROVE FALSE
    BY <1>0, <2>2, WorkerMoves DEF OnlyMoves
  <2> QED
    BY <1>0, <2>1, <2>2, OthersStayApart DEF Apart
<1>2. Release(k) \/ KeepWaiting(k)
  <2>1. CASE Bootstraps(k)
    BY <1>0, <2>1 DEF Bootstraps, Reattach, StartsAfresh, RemoveOld, Register, Stage, Launch,
                      Launched
  <2>2. CASE Watches(k)
    <3>1. StaysUp(k) \/ TooLong(k) => at'[k] \in {"deadlines", "cleanup"}
      BY <1>0 DEF StaysUp, TooLong, Goto
    <3> QED
      BY <1>0, <2>2, <3>1
         DEF Watches, Resumed, ReadMarker, RunnerExited, PollJob, PickupOver, Monitors
  <2>3. CASE Submit(k) \/ Provision(k) \/ AttemptFailed(k) \/ Retry(k)
    <3>1. at'[k] \in {"create", "attempt", "end", "retry"}
      BY <1>0, <2>3 DEF Submit, Provision, AttemptFailed, Retry, Goto
    <3> QED
      BY <1>0, <3>1
  <2>4. CASE Cleanup(k) \/ Delete(k) \/ Unregister(k)
    BY <1>0, <2>4 DEF Cleanup, Delete, Unregister
  <2> QED
    BY <1>1, <2>1, <2>2, <2>3, <2>4 DEF Worker
<1> QED
  BY <1>0, <1>2 DEF Release, KeepWaiting, Goto

LEMMA GivesUpStep ==
  ASSUME ~GitHubMayFail, BaseInv, SoleInv, [Next]_vars, NEW k \in Jobs, GivesUp(k)
  PROVE  \A r \in On(VM(k)) \cap reg : proc[r] # "busy"
<1>1. ~(Mine(k) \in reg /\ proc[Mine(k)] = "busy")
  BY GivesUpIs DEF RunnerBusy, GitHubFails
<1> SUFFICES ASSUME NEW r \in On(VM(k)) \cap reg PROVE proc[r] # "busy"
  OBVIOUS
<1>2. r \in Runners /\ r[1] = VM(k) /\ r \in reg /\ r = <<r[1], r[2]>> /\ VM(k) \in VMs
  BY RunnerIs DEF On
<1>3. CASE r[2] = 0
  BY <1>2, <1>3 DEF SoleInv, NeverRun
<1>4. CASE r[2] # 0
  <2>1. r = Mine(k)
    BY <1>2, <1>4 DEF SoleInv, OnlyNamed
  <2> QED
    BY <1>1, <1>2, <2>1
<1> QED
  BY <1>3, <1>4

\* While GitHub answers, no VM is given up as idle in which a runner that
\* GitHub knows is busy, although execs fail, scripts come after the restart of
\* the process that launched them, runners and VMs die, the sweep compares with
\* an old listing, and any runner may be handed any job.
THEOREM GivenUpNoneRegistered ==
  ASSUME ~GitHubMayFail
  PROVE  Spec => GivesUpNoRegistered
<1>1. BaseInv /\ SoleInv /\ [Next]_vars => SoleInv'
  BY SoleStep
<1>2. BaseInv /\ SoleInv /\ [Next]_vars
        => [\A k \in Jobs :
              GivesUp(k) => \A r \in On(VM(k)) \cap reg : proc[r] # "busy"]_vars
  BY GivesUpStep
<1> QED
  BY <1>1, <1>2, SoleInit, BaseInit, BaseStep, PTL DEF Spec, GivesUpNoRegistered
=============================================================================
