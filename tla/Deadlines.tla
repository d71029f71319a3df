----------------------------- MODULE Deadlines -----------------------------
(***************************************************************************)
(* The clocks of one job (src/internal/scaler/job.go: runJob, attempt,     *)
(* waitReady, monitor).  Scaler and Monitor let a worker give a VM up at   *)
(* any time; here it does so when the code's own deadlines say so: the     *)
(* provision timeout, the pickup timeout with its extensions, the maximal  *)
(* job duration, looked at only between calls that take time themselves,   *)
(* and all started anew by a process that resumes the job, after it has    *)
(* waited for a slot with no deadline running.                             *)
(*                                                                         *)
(* What the VM, the runner and GitHub answer is left open.  Every wait     *)
(* counts down in `left`: time cannot pass a timer that is due or a call   *)
(* that has reached its timeout.  The time a process is down is not        *)
(* counted: nothing in the program bounds it.  Nor is the time of a VM     *)
(* that deleteVM could not delete: it is the reconciler's from then on     *)
(* (module Reconciler), and only counted in `astray`.                      *)
(***************************************************************************)
EXTENDS Naturals

CONSTANTS
  CallTime,       \* the longest a call takes: its client timeout
  ProvisionTime,  \* mini_control.provision_timeout
  ReadyPoll,      \* mini_control.poll_interval
  BootTime,       \* the longest bootstrapRunner takes: its calls in all
  PickupTime,     \* runner.pickup_timeout
  JobTime,        \* runner.max_job_duration
  Interval,       \* runner.status_poll_interval
  DeleteTime,     \* the longest deleteVM takes: three tries
  MaxWait,        \* the longest wait for a slot: the jobs that hold them end
  RetryPause,     \* limits.capacity_backoff.initial
  MaxRetries,     \* limits.max_retries_per_job
  MaxStops        \* bound: crashes and shutdowns of the process

ASSUME TimesAssumption ==
  /\ {CallTime, ProvisionTime, ReadyPoll, BootTime, PickupTime, JobTime, Interval,
      DeleteTime, MaxWait, RetryPause, MaxRetries, MaxStops} \subseteq Nat
  /\ Interval > 0

VARIABLES
  rec,      \* the persisted record: its state
  retry,    \*   and its retries
  at,       \* where the worker is
  left,     \* ticks left of the wait or the call it is in
  due,      \* ticks left to waitReady's or monitor's deadline
  pickup,   \* ticks left to the pickup deadline
  beat,     \* ticks left until monitor's ticker fires
  jobDone,  \* monitor's jobDone
  spent,    \* history: ticks the job held a VM, over all its attempts
  astray,   \* history: deletions given up after three tries
  idle,     \* history: ticks since this runner was launched or found busy
  unknown,  \* history: busy-checks without an answer, since then
  stops     \* history: stops of the process

clocks == <<left, due, pickup, beat>>
history == <<spent, astray, idle, unknown, stops>>
vars == <<rec, retry, at, clocks, jobDone, history>>

RecStates == {"queued", "wait_ready", "bootstrapping", "runner_up",
              "job_running", "job_done", "complete", "failed"}

Calls == {"getvm", "boot", "status", "exited", "poll", "released", "busy",
          "finished", "delete", "worth"}
Waits == {"queue", "nap", "tick", "pausing"}
Places == Calls \cup Waits \cup {"create", "end"}

\* Where the worker looks after the runner it launched.
Monitored == {"tick", "status", "exited", "poll", "released", "busy", "finished"}
Working == Monitored \cup {"getvm", "nap", "boot", "delete"}
Launched == {"runner_up", "job_running"}

Init ==
  /\ rec = "queued" /\ retry = 0 /\ at = "queue"
  /\ left = MaxWait /\ due = 0 /\ pickup = 0 /\ beat = 0 /\ jobDone = FALSE
  /\ spent = 0 /\ astray = 0 /\ idle = 0 /\ unknown = 0 /\ stops = 0

Enter(place, time) == at' = place /\ left' = time

Down(n) == IF n > 0 THEN n - 1 ELSE 0

----------------------------------------------------------------------------
(* waitReady, bootstrapRunner.                                             *)

WaitReady == Enter("getvm", CallTime) /\ due' = ProvisionTime

End(state) == rec' = state /\ Enter("end", 0)

\* A failed attempt: the next one, if any is left.
Fails ==
  IF retry >= MaxRetries THEN End("failed")
  ELSE Enter("worth", CallTime) /\ UNCHANGED rec

\* createVM: a VM, a job that needs none any more, no capacity in time, or an
\* error.  Its own waits are in CreateLimit.
Create ==
  /\ at = "create"
  /\ \/ rec' = "wait_ready" /\ WaitReady
     \/ (End("complete") \/ End("failed") \/ Fails) /\ UNCHANGED due
  /\ idle' = 0 /\ unknown' = 0
  /\ UNCHANGED <<retry, pickup, beat, jobDone, spent, astray, stops>>

GiveUp == Enter("delete", DeleteTime)

\* Ready, with its credentials.
Ready ==
  /\ at = "getvm"
  /\ rec' = "bootstrapping" /\ Enter("boot", BootTime)
  /\ UNCHANGED <<retry, due, pickup, beat, jobDone, history>>

\* Gone, deleting or in the error state.
Unusable ==
  /\ at = "getvm"
  /\ GiveUp
  /\ UNCHANGED <<rec, retry, due, pickup, beat, jobDone, history>>

\* Any other status, ready without credentials, or no answer.
NotReady ==
  /\ at = "getvm"
  /\ IF due = 0 THEN GiveUp ELSE Enter("nap", ReadyPoll)
  /\ UNCHANGED <<rec, retry, due, pickup, beat, jobDone, history>>

PollAgain ==
  /\ at = "nap" /\ left = 0
  /\ Enter("getvm", CallTime)
  /\ UNCHANGED <<rec, retry, due, pickup, beat, jobDone, history>>

Watch == Enter("tick", Interval) /\ due' = JobTime /\ pickup' = PickupTime
         /\ beat' = Interval

Booted ==
  /\ at = "boot"
  /\ \/ rec' = "runner_up" /\ Watch
     \/ GiveUp /\ UNCHANGED <<rec, due, pickup, beat>>
  /\ UNCHANGED <<retry, jobDone, history>>

----------------------------------------------------------------------------
(* monitor.                                                                *)

Ticks ==
  /\ at = "tick" /\ left = 0
  /\ Enter("status", CallTime)
  /\ beat' \in 1..Interval
  /\ UNCHANGED <<rec, retry, due, pickup, jobDone, history>>

\* A tick that was missed meanwhile is there at once.
NextTick == Enter("tick", beat)

\* Bug for CheckDeadline: the deadline is a local of the round.
DeadlineOfRound == NextTick

\* The end of a round.
CheckDeadline == IF due = 0 THEN GiveUp ELSE NextTick

CheckPickup(state) ==
  IF state = "runner_up" /\ pickup = 0
  THEN Enter("busy", CallTime) ELSE CheckDeadline

CheckDone(state, done) ==
  IF done THEN Enter("released", CallTime) ELSE CheckPickup(state)

\* The marker file: the VM is gone or the bootstrap failed, the runner
\* exited, or it runs; every third tick GitHub and the service are asked.
ReadMarker ==
  /\ at = "status"
  /\ \/ GiveUp
     \/ Enter("exited", CallTime)
     \/ Enter("poll", 2 * CallTime)
     \/ CheckDone(rec, jobDone)
  /\ UNCHANGED <<rec, retry, due, pickup, beat, jobDone, history>>

Release == rec' = "job_done" /\ GiveUp

RunnerExited ==
  /\ at = "exited"
  /\ Release \/ (GiveUp /\ UNCHANGED rec)
  /\ UNCHANGED <<retry, due, pickup, beat, jobDone, history>>

PollJob ==
  /\ at = "poll"
  /\ \E state \in {rec, "job_running"}, done \in {jobDone, TRUE} :
       /\ state = rec \/ done = jobDone
       /\ rec' = state /\ jobDone' = done
       /\ CheckDone(state, done)
  /\ UNCHANGED <<retry, due, pickup, beat, history>>

\* The job is over: the VM goes unless its runner is busy.
JobIsOver ==
  /\ at = "released"
  /\ Release \/ (CheckPickup(rec) /\ UNCHANGED rec)
  /\ UNCHANGED <<retry, due, pickup, beat, jobDone, history>>

\* Past the pickup deadline, an answer may give the runner more time; the
\* round goes on to the other deadline.
Extend == at = "busy" /\ pickup' = PickupTime /\ CheckDeadline

Busy ==
  /\ Extend
  /\ idle' = 0 /\ unknown' = 0
  /\ UNCHANGED <<rec, retry, due, beat, jobDone, spent, astray, stops>>

\* runnerBusy: "Unknown (API error) counts as busy".
NobodyKnows ==
  /\ Extend
  /\ unknown' = unknown + 1
  /\ UNCHANGED <<rec, retry, due, beat, jobDone, spent, astray, idle, stops>>

\* Bug for NotBusy: whatever the answer is, the runner gets more time.
NotBusyExtends ==
  /\ Extend
  /\ UNCHANGED <<rec, retry, due, beat, jobDone, history>>

NotBusy ==
  /\ at = "busy"
  /\ Enter("finished", CallTime)
  /\ UNCHANGED <<rec, retry, due, pickup, beat, jobDone, history>>

NoPickup ==
  /\ at = "finished"
  /\ Release \/ (GiveUp /\ UNCHANGED rec)
  /\ UNCHANGED <<retry, due, pickup, beat, jobDone, history>>

----------------------------------------------------------------------------
(* The end of an attempt, and of the process.                              *)

\* Bug for Deleted: the retries are not looked at.
DeletedAlwaysRetries ==
  /\ at = "delete" /\ rec # "job_done"
  /\ jobDone' = FALSE /\ Enter("worth", CallTime)
  /\ UNCHANGED <<rec, retry, due, pickup, beat, history>>

\* The VM is deleted, or three tries have failed and it is left to the
\* reconciler: the worker cannot tell and goes on.
Deleted ==
  /\ at = "delete"
  /\ jobDone' = FALSE /\ astray' \in {astray, astray + 1}
  /\ IF rec = "job_done" THEN End("complete") ELSE Fails
  /\ UNCHANGED <<retry, due, pickup, beat, spent, idle, unknown, stops>>

\* Bug for Retry: a retry is not counted.
RetryUncounted ==
  /\ at = "worth"
  /\ rec' = "queued" /\ Enter("pausing", retry * RetryPause)
  /\ UNCHANGED <<retry, due, pickup, beat, jobDone, history>>

\* Is the job still worth a VM?
Retry ==
  /\ at = "worth"
  /\ \/ End("complete") /\ UNCHANGED retry
     \/ /\ rec' = "queued" /\ retry' = retry + 1
        /\ Enter("pausing", retry' * RetryPause)
  /\ UNCHANGED <<due, pickup, beat, jobDone, history>>

Again ==
  /\ at = "pausing" /\ left = 0
  /\ Enter("create", 0)
  /\ UNCHANGED <<rec, retry, due, pickup, beat, jobDone, history>>

\* A slot is free: the job starts, or goes on from its record, with deadlines
\* of its own.
Acquire ==
  /\ at = "queue"
  /\ \/ rec = "queued" /\ Enter("create", 0) /\ UNCHANGED <<due, pickup, beat>>
     \/ rec = "wait_ready" /\ WaitReady /\ UNCHANGED <<pickup, beat>>
     \/ rec = "bootstrapping" /\ Enter("boot", BootTime) /\ UNCHANGED <<due, pickup, beat>>
     \/ rec \in Launched /\ Watch
     \/ rec = "job_done" /\ GiveUp /\ UNCHANGED <<due, pickup, beat>>
  /\ UNCHANGED <<rec, retry, jobDone, history>>

\* The process stops and a new one resumes the job: it waits for a slot,
\* whatever VM its record names.
Stop ==
  /\ at # "end" /\ stops < MaxStops
  /\ stops' = stops + 1 /\ jobDone' = FALSE
  /\ Enter("queue", MaxWait)
  /\ UNCHANGED <<rec, retry, due, pickup, beat, spent, astray, idle, unknown>>

HoldsVM == at \in Working \/ (at = "queue" /\ rec # "queued")

\* The runner of the record's VM has been launched and its attempt goes on.
Watched == at \in Monitored \/ (at = "queue" /\ rec \in Launched)

Tick ==
  /\ left > 0 /\ left' = left - 1
  /\ due' = Down(due) /\ pickup' = Down(pickup) /\ beat' = Down(beat)
  /\ spent' = IF HoldsVM THEN spent + 1 ELSE spent
  /\ idle' = IF Watched THEN idle + 1 ELSE idle
  /\ UNCHANGED <<rec, retry, at, jobDone, astray, unknown, stops>>

Work ==
  \/ Acquire \/ Create \/ Ready \/ Unusable \/ NotReady \/ PollAgain \/ Booted
  \/ Ticks \/ ReadMarker \/ RunnerExited \/ PollJob \/ JobIsOver
  \/ Busy \/ NobodyKnows \/ NotBusy \/ NoPickup
  \/ Deleted \/ Retry \/ Again

Next == Work \/ Tick \/ Stop

Spec == Init /\ [][Next]_vars

\* The clock runs, timers fire, calls end within their timeouts, and a slot
\* comes: every job that holds one ends, and a channel serves in turn.
FairSpec == Spec /\ WF_vars(Work \/ Tick)

----------------------------------------------------------------------------
(* Properties.                                                             *)

\* Every variable stays in its range; waits are as long as configured.
TypeOK ==
  /\ rec \in RecStates /\ retry \in 0..MaxRetries /\ at \in Places
  /\ {left, due, pickup, beat, spent, astray, idle, unknown} \subseteq Nat
  /\ jobDone \in BOOLEAN /\ stops \in 0..MaxStops

\* The longest one process holds one VM of the job.
Provisioning == ProvisionTime + ReadyPoll + CallTime
Round == Interval + 6 * CallTime
Monitoring == JobTime + Round
Life == Provisioning + BootTime + Monitoring + DeleteTime

\* What the three timeouts give together, although each of them is looked at
\* only between calls and the pickup deadline moves: a job holds its VMs no
\* longer than a life for each attempt, and a life and a wait for a slot for
\* each time the process stops, since a resumed job starts every deadline anew
\* (job.go, lines 240, 365, 366) and none runs while it waits (line 29).  VMs
\* that deleteVM gives up are not in this: there are no more of them than
\* attempts and stops.
CostIsCapped ==
  /\ spent <= (1 + retry + stops) * Life + stops * MaxWait
  /\ astray <= 1 + retry + stops

\* A runner is not kept without a job for ever, while the record says that it
\* has none: since it was launched or found busy there is a pickup timeout and
\* a round, once more for each busy-check without an answer (job.go, line 515)
\* and for each process that looks after it, besides the waits for a slot.
IdleIsCapped ==
  at \in Monitored /\ rec = "runner_up"
    => idle <= (1 + stops + unknown) * (PickupTime + Round) + stops * MaxWait

\* config.example.yaml:102, max_job_duration: "hard cap; VM is deleted
\* afterwards": no runner is watched for longer than that and the round at
\* whose end it is looked at.  The code does not keep this: a process that
\* resumes the job starts the deadline anew.
DurationIsHardCap ==
  at \in Monitored => idle <= JobTime + Round

\* job.go:27: "Deletion-only resumes skip the queue wait".  The code has every
\* job wait: the VM of a job that is over lives on while there is no slot for it.
DeletionsDoNotWait == at = "queue" /\ left < MaxWait => rec # "job_done"

\* Whatever the VM, the runner and GitHub answer, or do not answer, the job
\* comes to an end: no answer renews every deadline.
JobEnds == <>(at = "end")
============================================================================
