----------------------------- MODULE Reconciler -----------------------------
(***************************************************************************)
(* The service as a whole: the scaler together with the reconciler         *)
(* (internal/reconciler), the safety net that deletes VMs no record knows, *)
(* finishes records stuck in deletion, re-adopts records without a worker  *)
(* and prunes old ones.                                                    *)
(*                                                                         *)
(* A sweep works on two snapshots, the VM listing it starts from and the   *)
(* records it reads after the orphan pass, while workers, the poller and   *)
(* the VM service go on.  The sweep's fourth task, stale runner            *)
(* registrations, is not here.                                             *)
(***************************************************************************)
EXTENDS Scaler

CONSTANT MaxStale   \* bound: workers spawned from a record that has changed since

ASSUME StaleAssumption == MaxStale \in Nat

VARIABLES
  place,    \* where the sweep is
  listed,   \* the VM listing of this sweep (live)
  pending,  \* listed VMs the orphan pass has still to look at
  seen,     \* Reconciler.firstSeen: orphan candidates of earlier sweeps
  snap,     \* the records as listed; NoRecord once handled
  aim,      \* the VM a DELETE call is under way for
  pruned,   \* history: jobs whose terminal record was pruned
  stale     \* history: workers spawned from a record that had changed since

sweep       == <<place, listed, pending, seen, snap, aim, pruned, stale>>
scaler      == <<svc, recs, disk, pc, loc, sub, rest, minted, vm, finished, strays, stops>>
serviceVars == <<vars, sweep>>

VMs  == Jobs \X Keys
NoVM == <<NoJob, 0>>
NoSnap == [k \in Jobs |-> NoRecord]

SweepTypeOK ==
  /\ place \in {"idle", "orphans", "reap", "records", "redelete", "settle"}
  /\ listed \subseteq VMs /\ pending \subseteq listed /\ seen \subseteq VMs
  /\ snap \in [Jobs -> Records]
  /\ aim \in VMs \cup {NoVM}
  /\ place = "reap" => aim \in seen \cap listed
  /\ place \in {"redelete", "settle"} => snap[aim[1]].state \in {"job_done", "deleting"}
  /\ pruned \subseteq Jobs
  /\ stale \in 0..MaxStale

ServiceInit ==
  /\ Init
  /\ place = "idle" /\ listed = {} /\ pending = {} /\ seen = {}
  /\ snap = NoSnap /\ aim = NoVM /\ pruned = {} /\ stale = 0

----------------------------------------------------------------------------
(* Orphans.                                                                *)

BeginSweep ==
  /\ svc = "up" /\ place = "idle"
  /\ place' = "orphans"
  /\ listed' = {v \in VMs : v[2] \in Live(v[1])}
  /\ pending' = listed'
  /\ UNCHANGED <<scaler, seen, snap, aim, pruned, stale>>

\* Bugs for HasVM: only records whose runner is up count; terminal records
\* count too.
HasVMRunning(k, n) == recs[k].vm = n /\ recs[k].state \in {"runner_up", "job_running"}

HasVMTerminal(k, n) == recs[k].vm = n

HasVM(k, n) == recs[k].vm = n /\ InFlight(recs[k])

(***************************************************************************)
(* orphan_grace has passed since the first sighting.  It "must exceed the  *)
(* create->persist window" (config.example.yaml): the time a worker that   *)
(* has a slot, or could take one, needs to persist the id of its VM.       *)
(***************************************************************************)
GraceOver(k, n) ==
  ~ /\ loc[k].state = "creating" /\ loc[k].key = n
    /\ HoldsSlot(k) \/ (pc[k] = "sem" /\ SlotFree)

\* Bug for Look: an unknown VM is deleted at its first sighting.
LookOnce(v) ==
  /\ place = "orphans" /\ v \in pending
  /\ pending' = pending \ {v}
  /\ \/ HasVM(v[1], v[2]) /\ seen' = seen \ {v} /\ UNCHANGED <<place, aim>>
     \/ ~HasVM(v[1], v[2]) /\ place' = "reap" /\ aim' = v /\ UNCHANGED seen
  /\ UNCHANGED <<scaler, listed, snap, pruned, stale>>

Look(v) ==
  /\ place = "orphans" /\ v \in pending
  /\ pending' = pending \ {v}
  /\ \/ HasVM(v[1], v[2]) /\ seen' = seen \ {v} /\ UNCHANGED <<place, aim>>
     \/ ~HasVM(v[1], v[2]) /\ seen' = seen \cup {v} /\ UNCHANGED <<place, aim>>
     \/ /\ ~HasVM(v[1], v[2]) /\ v \in seen /\ GraceOver(v[1], v[2])
        /\ place' = "reap" /\ aim' = v /\ UNCHANGED seen
  /\ UNCHANGED <<scaler, listed, snap, pruned, stale>>

Reap ==
  /\ place = "reap" /\ svc = "up"
  /\ SetVM(aim[1], aim[2], "gone")
  /\ seen' = seen \ {aim} /\ place' = "orphans" /\ aim' = NoVM
  /\ UNCHANGED <<svc, recs, disk, pc, loc, sub, rest, minted, finished, strays, stops,
                 listed, pending, snap, pruned, stale>>

\* The call fails; it does when the context is cancelled.
DeleteCallFails ==
  /\ place \in {"reap", "redelete"} /\ (DeleteMayFail \/ svc = "stopping")
  /\ place' = IF place = "reap" THEN "orphans" ELSE "records"
  /\ snap' = IF place = "redelete" THEN [snap EXCEPT ![aim[1]] = NoRecord] ELSE snap
  /\ aim' = NoVM
  /\ UNCHANGED <<scaler, listed, pending, seen, pruned, stale>>

\* Candidates that disappeared are forgotten; then the records are listed.
ListRecords ==
  /\ place = "orphans" /\ pending = {}
  /\ seen' = seen \cap listed
  /\ snap' = recs /\ place' = "records"
  /\ UNCHANGED <<scaler, listed, pending, aim, pruned, stale>>

----------------------------------------------------------------------------
(* Records, one by one.                                                    *)

Handled(k) == snap' = [snap EXCEPT ![k] = NoRecord]
Walks(k)   == place = "records" /\ snap[k].state # "none"

\* A worker owns the record (or the bound on stale spawns is reached).
Changed(k) == recs[k] # snap[k]

SkipActive(k) ==
  /\ Walks(k) /\ InFlight(snap[k])
  /\ pc[k] # "idle" \/ (Changed(k) /\ stale = MaxStale)
  /\ Handled(k)
  /\ UNCHANGED <<scaler, place, listed, pending, seen, aim, pruned, stale>>

\* Terminal records are kept for the retention time, a day.  By then nothing
\* writes the record any more, and GitHub no longer lists the job as queued:
\* a pruned job is not polled again.
Keep(k) ==
  /\ Walks(k) /\ Terminal(snap[k])
  /\ Handled(k)
  /\ UNCHANGED <<scaler, place, listed, pending, seen, aim, pruned, stale>>

PruneIf(k, old) ==
  /\ Walks(k) /\ old /\ pc[k] = "idle" /\ ~Changed(k) /\ k \notin rest
  /\ Persist(k, NoRecord)
  /\ Handled(k) /\ pruned' = pruned \cup {k}
  /\ UNCHANGED <<svc, pc, loc, sub, rest, minted, vm, finished, strays, stops,
                 place, listed, pending, seen, aim, stale>>

\* Bug for Prune: any record without a worker is pruned, terminal or not.
PruneAny(k) == PruneIf(k, TRUE)

Prune(k) == PruneIf(k, Terminal(snap[k]))

StuckInDeletion(k) ==
  Walks(k) /\ snap[k].state \in {"job_done", "deleting"} /\ pc[k] = "idle"

BeginRedelete(k) ==
  /\ StuckInDeletion(k) /\ <<k, snap[k].vm>> \in listed
  /\ place' = "redelete" /\ aim' = <<k, snap[k].vm>>
  /\ UNCHANGED <<scaler, listed, pending, seen, snap, pruned, stale>>

Redelete ==
  /\ place = "redelete" /\ svc = "up"
  /\ SetVM(aim[1], aim[2], "gone")
  /\ place' = "settle"
  /\ UNCHANGED <<svc, recs, disk, pc, loc, sub, rest, minted, finished, strays, stops,
                 listed, pending, seen, snap, aim, pruned, stale>>

\* The record as it was listed is written back as complete.
Settle(k) ==
  /\ \/ place = "settle" /\ k = aim[1]
     \/ StuckInDeletion(k) /\ <<k, snap[k].vm>> \notin listed
  /\ Persist(k, [snap[k] EXCEPT !.state = "complete"])
  /\ Handled(k) /\ place' = "records" /\ aim' = NoVM
  /\ UNCHANGED <<svc, pc, loc, sub, rest, minted, vm, finished, strays, stops,
                 listed, pending, seen, pruned, stale>>

\* The record as it was listed gets a worker.
Adopts(k, states) ==
  /\ Walks(k) /\ snap[k].state \in states /\ pc[k] = "idle"
  /\ Changed(k) => stale < MaxStale
  /\ Spawn(k, snap[k]) /\ Handled(k)
  /\ stale' = IF Changed(k) THEN stale + 1 ELSE stale
  /\ UNCHANGED <<svc, recs, disk, sub, rest, minted, vm, finished, strays, stops,
                 place, listed, pending, seen, aim, pruned>>

Runnable == {"queued", "creating"} \cup (Attached \ {"job_done", "deleting"})

\* Bug for Adopt: records of jobs that have not created a VM are left alone.
AdoptAttached(k) ==
  \/ Adopts(k, Runnable \cap Attached)
  \/ /\ Walks(k) /\ snap[k].state \in {"queued", "creating"} /\ pc[k] = "idle"
     /\ Handled(k)
     /\ UNCHANGED <<scaler, place, listed, pending, seen, aim, pruned, stale>>

Adopt(k) == Adopts(k, Runnable)

SweepDone ==
  /\ place = "records" /\ snap = NoSnap
  /\ place' = "idle" /\ listed' = {}
  /\ UNCHANGED <<scaler, pending, seen, snap, aim, pruned, stale>>

----------------------------------------------------------------------------
Sweep ==
  \/ BeginSweep
  \/ \E v \in pending : Look(v)
  \/ Reap \/ DeleteCallFails \/ ListRecords \/ Redelete
  \/ \E k \in Jobs : \/ SkipActive(k) \/ Keep(k) \/ Prune(k)
                     \/ BeginRedelete(k) \/ Settle(k) \/ Adopt(k)
  \/ SweepDone

ForgetSweep ==
  /\ place' = "idle" /\ listed' = {} /\ pending' = {} /\ seen' = {}
  /\ snap' = NoSnap /\ aim' = NoVM /\ UNCHANGED <<pruned, stale>>

\* Submit reads or writes the record, then spawns: a sweep may have adopted
\* the record in between, and its worker may be gone again.
LateSubmit ==
  sub.job \in Jobs /\ pc[sub.job] = "idle" /\ recs[sub.job] # sub.rec

ServiceSubmit ==
  \/ /\ SubmitSpawns
     /\ LateSubmit => stale < MaxStale
     /\ stale' = IF LateSubmit THEN stale + 1 ELSE stale
  \/ /\ LateSubmit /\ stale = MaxStale
     /\ sub' = NoSub
     /\ UNCHANGED <<svc, recs, disk, pc, loc, rest, minted, vm, finished, strays, stops,
                    stale>>

ServiceNext ==
  \/ /\ \/ \E k \in Jobs : \/ k \notin pruned /\ Submit(k)
                           \/ Worker(k) \/ VMVanishes(k) \/ JobFinishes(k)
        \/ Sigterm /\ rest' \cap pruned = {}
        \/ Restart \/ RestartWithoutState
     /\ UNCHANGED sweep
  \/ ServiceSubmit /\ UNCHANGED <<place, listed, pending, seen, snap, aim, pruned>>
  \/ Crash /\ ForgetSweep
  \/ ShutdownDone /\ place = "idle" /\ ForgetSweep
  \/ Sweep

ServiceSpec == ServiceInit /\ [][ServiceNext]_serviceVars

(***************************************************************************)
(* Fairness: the scaler's, and the sweep runs on a ticker with a timeout   *)
(* on every call.  A DELETE that is tried again and again succeeds, and    *)
(* an orphan that stays one is past its grace at some sweep.  The steps of *)
(* GoesOn exclude each other, and none is disabled but by itself or by a   *)
(* crash, after which the restart is due: one condition stands for all.    *)
(***************************************************************************)
Reaps == (\E v \in pending : Look(v)) /\ place' = "reap"

GoesOn ==
  \/ ServiceSubmit /\ UNCHANGED <<place, listed, pending, seen, snap, aim, pruned>>
  \/ svc = "stopping" /\ (\E k \in Jobs : Submit(k)) /\ UNCHANGED sweep
  \/ ShutdownDone /\ place = "idle" /\ ForgetSweep
  \/ (Restart \/ RestartWithoutState) /\ UNCHANGED sweep

ServiceFairness ==
  /\ \A k \in Jobs : /\ WF_serviceVars(Worker(k) /\ UNCHANGED sweep)
                     /\ SF_serviceVars(GivesUpWaiting(k) /\ UNCHANGED sweep)
  /\ WF_serviceVars(GoesOn)
  /\ WF_serviceVars(Sweep)
  /\ SF_serviceVars(Reap)
  /\ SF_serviceVars(Reaps)

FairServiceSpec == ServiceSpec /\ ServiceFairness

----------------------------------------------------------------------------
(***************************************************************************)
(* The contract for the service as a whole: as for the scaler, and a job   *)
(* stays closed when its record is pruned from the file.                   *)
(***************************************************************************)
ServiceLives ==
  [k \in Jobs |-> IF k \in pruned /\ disk[k] = NoRecord THEN "closed" ELSE LifeOf(disk[k])]

Service == INSTANCE VMLease WITH
  Ids <- Keys, MayForget <- StateFileMayBeLost, life <- ServiceLives, lease <- Stages

----------------------------------------------------------------------------
(* Properties.                                                             *)

\* The service keeps the contract of VMLease although sweeps reap, complete,
\* prune and adopt next to the workers, as long as no worker starts from a
\* record that has changed since it was read.
ServiceKeepsContract ==
  Service!Init /\ [][stale' = 0 => [Service!Next]_(Service!vars)]_serviceVars

\* The orphan collection only takes VMs the service has lost track of, never
\* one a job can still get back to by its record or by its durable key.
OnlyOrphansReaped ==
  [][stale = 0 /\ Reap /\ aim[2] \in Live(aim[1])
       => /\ ~Refers(recs[aim[1]], aim[2])
          /\ Refers(disk[aim[1]], aim[2]) => aim[2] \in strays[aim[1]]]_serviceVars

\* No VM leaks while the sweep adopts, completes and prunes records next to
\* the workers, as long as no worker starts from a record that has changed
\* since it was read.
NoLeakUnlessStale == stale = 0 => NoLeak

\* Even a worker that starts from such a record does not give its job a
\* second VM while the first is tracked; it takes a stop as well, in the
\* middle of a create (reconciler.go:121 does not look at the context).
OneVMUnlessStopped == stale = 0 \/ stops = 0 => OneVMPerJob

\* README: "no VM outlives its job", reconciler.go:2 "billing runs until
\* deletion is confirmed": every VM is deleted in the end, although creates,
\* deletes or the state file fail, and wherever the process stops.
EveryVMDeleted ==
  \A k \in Jobs : []<>(Live(k) = {})

\* A record without a worker (its first write failed) does not stay behind.
JobsSettle ==
  \A k \in Jobs : InFlight(recs[k]) ~> (Terminal(recs[k]) \/ svc = "down")
==============================================================================
