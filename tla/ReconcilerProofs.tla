--------------------------- MODULE ReconcilerProofs ---------------------------
(***************************************************************************)
(* The properties of the service as a whole, for every set of jobs, every  *)
(* bound and every combination of faults: what the sweep may do next to    *)
(* the workers, the poller and the VM service without losing a VM.         *)
(***************************************************************************)
EXTENDS ReconcilerInv, ScalerProofs

-----------------------------------------------------------------------------
(* The steps of the sweep, by what they do to the scaler's variables.      *)

\* They leave them alone, they delete a VM,
Looks ==
  \/ BeginSweep \/ DeleteCallFails \/ ListRecords \/ SweepDone
  \/ \E v \in pending : Look(v)
  \/ \E k \in Jobs : SkipActive(k) \/ Keep(k) \/ BeginRedelete(k)

Deletion == Reap \/ Redelete

\* write a last record, or start a worker.
Closing(k) == Prune(k) \/ Settle(k)

LEMMA SweepSteps ==
  Sweep <=> \/ Looks \/ Deletion \/ \E k \in Jobs : Closing(k) \/ Adopt(k)
BY DEF Sweep, Looks, Deletion, Closing

LEMMA LooksOnly == Looks => UNCHANGED vars
BY DEF Looks, BeginSweep, DeleteCallFails, ListRecords, SweepDone, Look, SkipActive, Keep,
   BeginRedelete, scaler, vars

\* The other steps of the service are steps of the scaler, apart from a
\* submission that is dropped.
Scales ==
  \/ \E k \in Jobs : \/ k \notin pruned /\ Submit(k)
                     \/ Worker(k) \/ VMVanishes(k) \/ JobFinishes(k)
  \/ Sigterm \/ Restart \/ RestartWithoutState

Drops == LateSubmit /\ sub' = NoSub
           /\ UNCHANGED <<svc, recs, disk, pc, loc, rest, minted, vm, finished, strays, stops>>

LEMMA ServiceSteps ==
  ServiceNext =>
    \/ Scales /\ UNCHANGED sweep
    \/ ServiceSubmit /\ UNCHANGED <<place, listed, pending, seen, snap, aim, pruned>>
    \/ (Crash \/ ShutdownDone) /\ ForgetSweep
    \/ Sweep
BY DEF ServiceNext, Scales

-----------------------------------------------------------------------------
(* Types.                                                                  *)

\* A VM that is deleted is one of a job.
LEMMA DeletionOfOne ==
  ASSUME TypeInv, Deletion
  PROVE  /\ aim[1] \in Jobs /\ aim[2] \in Keys /\ SetVM(aim[1], aim[2], "gone")
         /\ UNCHANGED <<svc, recs, disk, pc, loc, sub, rest, minted, finished, strays, stops>>
<1>1. aim \in VMs
  BY DEF Deletion, Reap, Redelete, TypeInv, AimFits, SweepTypeOK
<1> QED
  BY <1>1 DEF Deletion, Reap, Redelete, VMs

\* The record that ends a job has the type of a record.
LEMMA ClosingRecord ==
  ASSUME TypeInv, NEW k \in Jobs, Closing(k)
  PROVE  \E r \in Records :
           /\ Prune(k) => r = NoRecord
           /\ Settle(k) /\ ~Prune(k) => r = [snap[k] EXCEPT !.state = "complete"]
           /\ Persist(k, r)
<1>1. snap[k] \in Records /\ "complete" \in JobStates
  BY DEF TypeInv, SweepTypeOK, JobStates, TerminalStates
<1>2. CASE Prune(k)
  BY <1>2, RecordTypes DEF Prune, PruneIf
<1>3. CASE ~Prune(k)
  <2>1. Settle(k) /\ [snap[k] EXCEPT !.state = "complete"] \in Records
    BY <1>1, <1>3, RecordTypes DEF Closing
  <2> QED
    BY <1>3, <2>1 DEF Settle
<1> QED
  BY <1>2, <1>3

\* The scaler's types are kept,
LEMMA ServiceKeepsTypes == TypeInv /\ [ServiceNext]_serviceVars => TypeOK'
<1> SUFFICES ASSUME TypeInv, [ServiceNext]_serviceVars
             PROVE  TypeOK'
  OBVIOUS
<1>0. TypeOK /\ SweepTypeOK
  BY DEF TypeInv
<1>1. ASSUME UNCHANGED vars
      PROVE  TypeOK'
  BY <1>0, <1>1, TypeOKInductive
<1>2. CASE UNCHANGED serviceVars
  BY <1>1, <1>2 DEF serviceVars
<1>3. CASE Scales \/ Crash \/ ShutdownDone
  BY <1>0, <1>3, TypeOKInductive DEF Scales, Next, Process
<1>4. CASE ServiceSubmit
  <2>1. CASE SubmitSpawns
    BY <1>0, <2>1, TypeOKInductive DEF Next
  <2>2. CASE ~SubmitSpawns
    BY <1>0, <1>4, <2>2, NoSubType DEF ServiceSubmit, TypeOK
  <2> QED
    BY <2>1, <2>2
<1>5. CASE Looks
  BY <1>1, <1>5, LooksOnly
<1>6. CASE Deletion
  <2>1. vm' \in [Jobs -> [Keys -> VMStatus]]
    BY <1>0, <1>6, DeletionOfOne, SetVMType DEF VMStatus
  <2> QED
    BY <1>0, <1>6, <2>1, DeletionOfOne DEF TypeOK
<1>7. ASSUME NEW k \in Jobs, Closing(k)
      PROVE  TypeOK'
  <2>1. recs' \in [Jobs -> Records] /\ disk' \in [Jobs -> Records]
    BY <1>0, <1>7, ClosingRecord, PersistType
  <2> QED
    BY <1>0, <1>7, <2>1 DEF Closing, Prune, PruneIf, Settle, TypeOK
<1>8. ASSUME NEW k \in Jobs, Adopt(k)
      PROVE  TypeOK'
  <2>1. Goto(k, "sem") /\ SetLoc(k, snap[k]) /\ snap[k] \in Records
    BY <1>0, <1>8 DEF Adopt, Adopts, Spawn, SweepTypeOK
  <2>2. loc' \in [Jobs -> Records] /\ pc' \in [Jobs -> WorkerPlaces]
    BY <1>0, <2>1 DEF Goto, SetLoc, TypeOK, WorkerPlaces
  <2> QED
    BY <1>0, <1>8, <2>2 DEF Adopt, Adopts, TypeOK
<1> QED
  BY <1>2, <1>3, <1>4, <1>5, <1>6, <1>7, <1>8, ServiceSteps, SweepSteps

\* and so are the sweep's.
LEMMA SweepKeepsTypes ==
  TypeInv /\ [ServiceNext]_serviceVars => (SweepTypeOK /\ PendingFits /\ AimFits)'
<1> SUFFICES ASSUME TypeInv, [ServiceNext]_serviceVars
             PROVE  (SweepTypeOK /\ PendingFits /\ AimFits)'
  OBVIOUS
<1>0. TypeOK /\ SweepTypeOK /\ PendingFits /\ AimFits /\ NoRecord \in Records
  BY RecordTypes DEF TypeInv
<1>1. CASE UNCHANGED sweep
  BY <1>0, <1>1 DEF sweep, SweepTypeOK, PendingFits, AimFits
<1>2. CASE ServiceSubmit /\ UNCHANGED <<place, listed, pending, seen, snap, aim, pruned>>
  <2>1. stale' \in 0..MaxStale
    BY <1>0, <1>2, StaleAssumption DEF ServiceSubmit, SweepTypeOK
  <2> QED
    BY <1>0, <1>2, <2>1 DEF SweepTypeOK, PendingFits, AimFits
<1>3. CASE ForgetSweep
  BY <1>0, <1>3 DEF ForgetSweep, NoSnap, SweepTypeOK, PendingFits, AimFits
<1>4. CASE BeginSweep
  BY <1>0, <1>4 DEF BeginSweep, SweepTypeOK, PendingFits, AimFits, VMs
<1>5. ASSUME NEW v \in pending, Look(v)
      PROVE  (SweepTypeOK /\ PendingFits /\ AimFits)'
  BY <1>0, <1>5 DEF Look, SweepTypeOK, PendingFits, AimFits
<1>6. CASE Reap \/ Redelete \/ SweepDone
  BY <1>0, <1>6 DEF Reap, Redelete, SweepDone, SweepTypeOK, PendingFits, AimFits
<1>7. CASE DeleteCallFails
  <2>1. snap' \in [Jobs -> Records]
    BY <1>0, <1>7 DEF DeleteCallFails, SweepTypeOK
  <2> QED
    BY <1>0, <1>7, <2>1 DEF DeleteCallFails, SweepTypeOK, PendingFits, AimFits
<1>8. CASE ListRecords
  BY <1>0, <1>8 DEF ListRecords, SweepTypeOK, PendingFits, AimFits, TypeOK
<1>9. ASSUME NEW k \in Jobs, SkipActive(k) \/ Keep(k) \/ Prune(k) \/ Settle(k) \/ Adopt(k)
      PROVE  (SweepTypeOK /\ PendingFits /\ AimFits)'
  <2>1. snap' \in [Jobs -> Records]
    BY <1>0, <1>9
    DEF SkipActive, Keep, Prune, PruneIf, Settle, Adopt, Adopts, Handled, SweepTypeOK
  <2>2. stale' \in 0..MaxStale
    BY <1>0, <1>9, StaleAssumption
    DEF SkipActive, Keep, Prune, PruneIf, Settle, Adopt, Adopts, SweepTypeOK
  <2>3. /\ place' = "records" /\ place \notin {"orphans", "reap"}
        /\ UNCHANGED <<listed, pending, seen>>
        /\ aim' \in {aim, NoVM} /\ pruned' \in {pruned, pruned \cup {k}}
    BY <1>9 DEF SkipActive, Keep, Prune, PruneIf, Settle, Adopt, Adopts, Walks, StuckInDeletion
  <2> QED
    BY <1>0, <2>1, <2>2, <2>3 DEF SweepTypeOK, PendingFits, AimFits
<1>10. ASSUME NEW k \in Jobs, BeginRedelete(k)
       PROVE  (SweepTypeOK /\ PendingFits /\ AimFits)'
  BY <1>0, <1>10
  DEF BeginRedelete, StuckInDeletion, Walks, SweepTypeOK, PendingFits, AimFits
<1>11. CASE UNCHANGED serviceVars
  BY <1>1, <1>11 DEF serviceVars
<1> QED
  BY <1>1, <1>2, <1>3, <1>4, <1>5, <1>6, <1>7, <1>8, <1>9, <1>10, <1>11, ServiceSteps
  DEF Sweep

LEMMA TypeInvInitially == ServiceInit => TypeInv
<1> SUFFICES ASSUME ServiceInit
             PROVE  TypeInv
  OBVIOUS
<1>1. TypeOK /\ NoSnap \in [Jobs -> Records]
  BY TypeOKInitially, RecordTypes DEF ServiceInit, NoSnap
<1> QED
  BY <1>1, StaleAssumption DEF ServiceInit, TypeInv, SweepTypeOK, PendingFits, AimFits

LEMMA TypeInvInductive == TypeInv /\ [ServiceNext]_serviceVars => TypeInv'
BY ServiceKeepsTypes, SweepKeepsTypes DEF TypeInv

(***************************************************************************)
(* Type correctness of the service, scaler and sweep: in particular, what  *)
(* the orphan pass deletes was listed by this sweep and seen by an earlier *)
(* one, and only a record found in deletion is deleted again and completed *)
(* (orphanSweep and recordSweep, reconciler.go).                           *)
(***************************************************************************)
THEOREM SweepTypeCorrect == ServiceSpec => [](TypeOK /\ SweepTypeOK)
<1>1. TypeInv => TypeOK /\ SweepTypeOK
  BY DEF TypeInv
<1> QED
  BY <1>1, TypeInvInitially, TypeInvInductive, PTL DEF ServiceSpec

-----------------------------------------------------------------------------
(* Without stale spawns: what a step does to the records and VMs.          *)

\* Stale spawns are only counted up.
LEMMA StaleGrows == TypeInv /\ [ServiceNext]_serviceVars => stale' \in {stale, stale + 1}
<1> SUFFICES ASSUME [ServiceNext]_serviceVars
             PROVE  stale' \in {stale, stale + 1}
  OBVIOUS
<1>1. CASE UNCHANGED serviceVars \/ UNCHANGED sweep \/ ForgetSweep
  BY <1>1 DEF serviceVars, sweep, ForgetSweep
<1>2. CASE ServiceSubmit
  BY <1>2 DEF ServiceSubmit
<1>3. CASE Looks
  BY <1>3 DEF Looks, BeginSweep, DeleteCallFails, ListRecords, SweepDone, Look, SkipActive,
     Keep, BeginRedelete
<1>4. ASSUME Deletion \/ \E k \in Jobs : Closing(k) \/ Adopt(k)
      PROVE  stale' \in {stale, stale + 1}
  BY <1>4 DEF Deletion, Reap, Redelete, Closing, Prune, PruneIf, Settle, Adopt, Adopts
<1> QED
  BY <1>1, <1>2, <1>3, <1>4, ServiceSteps, SweepSteps

\* So a job is adopted with the record the store holds,
LEMMA AdoptsCurrent ==
  ASSUME TypeInv, Undamaged, stale = 0, stale' = 0, NEW k \in Jobs, Adopt(k)
  PROVE  /\ pc[k] = "idle" /\ Spawn(k, recs[k]) /\ InFlight(recs[k]) /\ svc # "down"
         /\ UNCHANGED <<svc, recs, disk, sub, rest, minted, vm, finished, strays, stops>>
<1>1. recs[k] = snap[k] /\ snap[k].state \in Runnable
  BY DEF Adopt, Adopts, Changed
<1>2. InFlight(snap[k])
  BY <1>1 DEF Runnable, InFlight, Terminal, TerminalStates, Attached
<1>3. svc # "down"
  BY DEF Undamaged, NoSweepWhenDown, Adopt, Adopts, Walks
<1> QED
  BY <1>1, <1>2, <1>3 DEF Adopt, Adopts

\* and a submission that spawns a worker does, too.
LEMMA SubmitsCurrent ==
  ASSUME TypeInv, Undamaged, stale = 0, stale' = 0, ServiceSubmit
  PROVE  /\ UNCHANGED <<svc, recs, disk, rest, minted, vm, finished, strays, stops>>
         /\ sub' = NoSub
         /\ \/ UNCHANGED <<pc, loc>>
            \/ \E k \in Jobs : pc[k] = "idle" /\ Spawn(k, recs[k]) /\ InFlight(recs[k])
<1>1. CASE SubmitSpawns /\ ~LateSubmit
  <2>1. InFlight(sub.rec)
    BY <1>1 DEF SubmitSpawns, Undamaged, SweepFits, SubFits
  <2> QED
    BY <1>1, <2>1 DEF SubmitSpawns, LateSubmit, Spawn
<1>2. CASE ~(SubmitSpawns /\ ~LateSubmit)
  BY <1>2 DEF ServiceSubmit
<1> QED
  BY <1>1, <1>2

(***************************************************************************)
(* A record is only closed when the store holds it in deletion or closed   *)
(* already, its job has no worker and owns no VM.                          *)
(***************************************************************************)
Closes(k, r) ==
  /\ Persist(k, r) /\ r \in Records
  /\ Prune(k) => r = NoRecord
  /\ ~Prune(k) => r.state = "complete" /\ r = [recs[k] EXCEPT !.state = "complete"]
  /\ Terminal(disk[k]) => r \in {NoRecord, disk[k]}
  /\ svc # "down" /\ pc[k] = "idle" /\ Owned(k) = {}
  /\ recs[k].state \in InDeletion \cup TerminalStates
  /\ UNCHANGED <<svc, pc, loc, sub, rest, minted, vm, finished, strays, stops>>

LEMMA ClosingCloses ==
  ASSUME TypeInv, Undamaged, NEW k \in Jobs, Closing(k)
  PROVE  \E r : Closes(k, r)
<1>0. /\ JobInv(k) /\ SweepFits(k) /\ AimDone /\ NoSweepWhenDown /\ SweepTypeOK
      /\ UNCHANGED <<svc, pc, loc, sub, rest, minted, vm, finished, strays, stops>>
      /\ recs[k] \in Records
  BY DEF Undamaged, TypeInv, TypeOK, Closing, Prune, PruneIf, Settle
<1>1. svc # "down"
  BY <1>0 DEF NoSweepWhenDown, Closing, Prune, PruneIf, Settle, StuckInDeletion, Walks
<1>2. ASSUME Terminal(recs[k])
      PROVE  pc[k] = "idle" /\ Owned(k) = {} /\ (Terminal(disk[k]) => recs[k] = disk[k])
  BY <1>0, <1>1, <1>2 DEF JobInv, WorkersCopy, InFlight, Terminal, TerminalStates, Tracked,
     Refers, Attached, TerminalKept, NoRecord
<1>3. PICK r \in Records :
        /\ Prune(k) => r = NoRecord
        /\ Settle(k) /\ ~Prune(k) => r = [snap[k] EXCEPT !.state = "complete"]
        /\ Persist(k, r)
  BY ClosingRecord
<1>4. CASE Prune(k)
  <2>1. recs[k] = snap[k] /\ Terminal(snap[k])
    BY <1>4 DEF Prune, PruneIf, Changed
  <2> QED
    BY <1>0, <1>1, <1>2, <1>3, <1>4, <2>1 DEF Closes, Terminal
<1>5. CASE ~Prune(k)
  <2>0. Settle(k) /\ snap[k].state \in InDeletion
    BY <1>0, <1>5 DEF Closing, Settle, SweepTypeOK, StuckInDeletion, InDeletion
  <2>1. PICK s \in InDeletion \cup {"complete"} : recs[k] = [snap[k] EXCEPT !.state = s]
    BY <1>0, <1>1, <2>0 DEF SweepFits, SnapFits
  <2>2. /\ snap[k] \in Records /\ recs[k].state = s /\ recs[k].vm = snap[k].vm
        /\ r = [recs[k] EXCEPT !.state = "complete"] /\ r.state = "complete"
    BY <1>0, <1>3, <1>5, <2>0, <2>1 DEF SweepTypeOK, Records
  <2>3. CASE s = "complete"
    <3>1. Terminal(recs[k]) /\ r = recs[k]
      BY <1>0, <2>2, <2>3 DEF Terminal, TerminalStates, Records
    <3> QED
      BY <1>0, <1>1, <1>2, <1>3, <1>5, <2>2, <3>1 DEF Closes, Terminal
  <2>4. CASE s \in InDeletion
    <3>1. ~Terminal(recs[k])
      BY <2>2, <2>4 DEF InDeletion, Terminal, TerminalStates
    <3>2. pc[k] = "idle" /\ place # "idle" /\ <<k, recs[k].vm>> \notin listed
      BY <1>0, <2>0, <2>2, <3>1 DEF Settle, AimDone, StuckInDeletion, Walks
    <3>3. Owned(k) = {}
      BY <1>0, <1>1, <2>2, <2>4, <3>2
      DEF SweepFits, ListedFits, JobInv, Tracked, Refers, InDeletion, Owned
    <3>4. ~Terminal(disk[k])
      BY <1>0, <1>1, <2>2, <2>4, <3>1
      DEF JobInv, TerminalKept, InDeletion, NoRecord
    <3> QED
      BY <1>0, <1>1, <1>3, <1>5, <2>2, <2>4, <3>2, <3>3, <3>4 DEF Closes
  <2> QED
    BY <2>3, <2>4
<1> QED
  BY <1>4, <1>5

\* Such a write keeps what the workers rest on,
LEMMA CloseKeeps ==
  ASSUME CoreInv, NEW k \in Jobs, NEW r, Closes(k, r)
  PROVE  \A j \in Jobs : JobInv(j)'
<1>1. TypeOK /\ \A j \in Jobs : JobInv(j) /\ Owned(j)' = Owned(j)
  BY OwnedUnchanged DEF CoreInv, Closes
<1>2. /\ recs'[k] = r /\ disk'[k] \in {r, disk[k]}
      /\ \A j \in Jobs \ {k} : recs'[j] = recs[j] /\ disk'[j] \in {disk[j], recs[j]}
  BY <1>1, PersistEffect DEF Closes
<1>3. ASSUME NEW j \in Jobs, j # k
      PROVE  JobInv(j)'
  BY <1>1, <1>2, <1>3, Undisturbed DEF Closes
<1>4. JobInv(k)'
  <2>1. Terminal(disk'[k]) => recs'[k] \in {disk'[k], NoRecord}
    BY <1>2 DEF Closes
  <2> QED
    BY <1>1, <1>2, <2>1 DEF Closes, JobInv, WorkersCopy, PlaceFitsState, NothingOwned,
       TerminalKept, DownIsEmpty, Tracked
<1> QED
  BY <1>3, <1>4

\* and so does every other step.
LEMMA ServiceKeepsCore ==
  ASSUME TypeInv, Undamaged, stale = 0, stale' = 0, [ServiceNext]_serviceVars
  PROVE  \A j \in Jobs : JobInv(j)'
<1>0. CoreInv
  BY DEF TypeInv, Undamaged, CoreInv
<1>1. ASSUME UNCHANGED <<svc, recs, disk, pc, loc, vm, strays>>, sub' \in {sub, NoSub}
      PROVE  \A j \in Jobs : JobInv(j)'
  BY <1>0, <1>1, UnchangedKeeps
<1>2. ASSUME NEW k \in Jobs, k \notin pruned, Submit(k)
      PROVE  \A j \in Jobs : JobInv(j)'
  <2>1. Unseen(k) => ~Terminal(disk[k])
    BY <1>2 DEF Undamaged, SweepFits, PrunedOnly, Unseen, Submit, SubmitNew, SubmitLeftover,
       SubmitIgnored, Polls
  <2> QED
    BY <1>0, <1>2, <2>1, SubmitKeeps
<1>3. ASSUME NEW k \in Jobs, Worker(k)
      PROVE  \A j \in Jobs : JobInv(j)'
  BY <1>0, <1>3, WorkerKeeps
<1>4. ASSUME NEW k \in Jobs, VMVanishes(k)
      PROVE  \A j \in Jobs : JobInv(j)'
  BY <1>0, <1>4, LossKeeps DEF VMVanishes, Live
<1>5. ASSUME NEW k \in Jobs, JobFinishes(k)
      PROVE  \A j \in Jobs : JobInv(j)'
  BY <1>1, <1>5 DEF JobFinishes
<1>6. ASSUME Sigterm \/ Restart \/ RestartWithoutState \/ Crash \/ ShutdownDone
      PROVE  \A j \in Jobs : JobInv(j)'
  BY <1>0, <1>6, ProcessKeeps DEF Process
<1>7. ASSUME ServiceSubmit
      PROVE  \A j \in Jobs : JobInv(j)'
  BY <1>0, <1>1, <1>7, SubmitsCurrent, SpawnKeeps
<1>8. ASSUME Looks
      PROVE  \A j \in Jobs : JobInv(j)'
  BY <1>1, <1>8, LooksOnly DEF vars
<1>9. ASSUME Deletion
      PROVE  \A j \in Jobs : JobInv(j)'
  BY <1>0, <1>9, DeletionOfOne, LossKeeps
<1>10. ASSUME NEW k \in Jobs, Closing(k)
       PROVE  \A j \in Jobs : JobInv(j)'
  BY <1>0, <1>10, ClosingCloses, CloseKeeps
<1>11. ASSUME NEW k \in Jobs, Adopt(k)
       PROVE  \A j \in Jobs : JobInv(j)'
  BY <1>0, <1>11, AdoptsCurrent, SpawnKeeps
<1>12. CASE UNCHANGED serviceVars
  BY <1>1, <1>12 DEF serviceVars, vars
<1> QED
  BY <1>2, <1>3, <1>4, <1>5, <1>6, <1>7, <1>8, <1>9, <1>10, <1>11, <1>12, ServiceSteps,
     SweepSteps DEF Scales

-----------------------------------------------------------------------------
(* Without stale spawns: what sweep and workers know of each other.        *)

(***************************************************************************)
(* What a worker's step does to a record in deletion, and what its own     *)
(* place says of it afterwards: such a record stays in deletion or         *)
(* completes, only a worker that still waits for its slot stops on it, and *)
(* a worker that returns otherwise leaves a terminal record.               *)
(***************************************************************************)
Finishing(k) ==
  /\ recs[k].state \in InDeletion =>
       recs'[k] \in {[recs[k] EXCEPT !.state = s] : s \in InDeletion \cup {"complete"}}
  /\ EndFits(k)'
  /\ pc'[k] = "idle" => Terminal(recs'[k]) \/ svc = "stopping"
  /\ pc'[k] \in {"idle", "sem"} /\ recs'[k].state \in InDeletion =>
       pc[k] = "sem" /\ recs'[k] = recs[k] /\ UNCHANGED vm

\* A worker that leaves its record alone and does not stop.
LEMMA StaysFinishing ==
  ASSUME CoreInv, NEW k \in Jobs, recs'[k] = recs[k], pc'[k] \notin {"idle", "sem"},
         pc'[k] \in {"cleanup", "failed", "gaveup", "pace"} => recs[k].state \notin InDeletion
  PROVE  Finishing(k)
<1>1. recs[k] \in Records
  BY DEF CoreInv, TypeOK
<1>2. recs[k].state \in InDeletion =>
        recs[k] \in {[recs[k] EXCEPT !.state = s] : s \in InDeletion \cup {"complete"}}
  BY <1>1 DEF Records
<1> QED
  BY <1>2 DEF Finishing, EndFits

\* A worker that writes a record.
LEMMA WritesFinishing ==
  ASSUME CoreInv, NEW k \in Jobs, NEW r, recs'[k] = r,
         pc'[k] = "idle" => Terminal(r), pc'[k] # "sem",
         pc'[k] \in {"cleanup", "failed", "gaveup", "pace"} => r.state \notin InDeletion,
         recs[k].state \in InDeletion =>
           \E s \in InDeletion \cup {"complete"} : r = [recs[k] EXCEPT !.state = s]
  PROVE  Finishing(k)
BY DEF Finishing, EndFits, Terminal, TerminalStates, InDeletion

LEMMA CreateFinishing ==
  ASSUME CoreInv, NEW k \in Jobs, CreateStep(k)
  PROVE  Finishing(k)
<1>0. /\ TypeOK /\ loc[k] = recs[k] /\ recs[k] \in Records /\ pc[k] # "idle"
      /\ recs[k].state \in {"queued", "creating"}
  BY DEF CoreInv, JobInv, WorkersCopy, PlaceFitsState, TypeOK, CreateStep, BeginCreate,
     ServerCreate, CreateReturns, CapacityReply, RateLimited, CreateFails, BackoffEnds,
     DropsRequest
<1>1. recs[k].state \notin InDeletion
  BY <1>0 DEF InDeletion
<1>2. CASE BeginCreate(k)
  <2>1. PICK r \in Records, ok \in BOOLEAN :
          r.state = "creating" /\ Upsert(k, r, ok) /\ Goto(k, IF ok THEN "create" ELSE "failed")
    <3> DEFINE n == IF NeedsKey(loc[k]) THEN minted[k] + 1 ELSE loc[k].key
               r == [loc[k] EXCEPT !.key = n, !.state = "creating"]
    <3>1. n \in 0..MaxKeys /\ "creating" \in JobStates
      BY <1>0, <1>2, KeysAssumption DEF BeginCreate, TypeOK, Records, JobStates
    <3>2. r \in Records /\ r.state = "creating"
      BY <1>0, <3>1, RecordTypes DEF Records
    <3> HIDE DEF n
    <3> QED
      BY <1>2, <3>2 DEF BeginCreate, WriteOutcomes, n
  <2>2. recs'[k] = r /\ pc'[k] \in {"create", "failed"}
    BY <1>0, <2>1, UpsertEffect, GotoEffect
  <2> QED
    BY <1>1, <2>1, <2>2, WritesFinishing DEF InDeletion
<1>3. CASE ServerCreate(k) \/ RateLimited(k) \/ CreateFails(k) \/ BackoffEnds(k)
  <2>1. recs'[k] = recs[k] /\ pc'[k] \in {"response", "backoff", "gaveup", "failed", "create"}
    BY <1>0, <1>3, GotoEffect DEF ServerCreate, RateLimited, CreateFails, BackoffEnds
  <2> QED
    BY <1>1, <2>1, StaysFinishing
<1>4. CASE CreateReturns(k)
  <2> DEFINE r == [loc[k] EXCEPT !.vm = loc[k].key, !.state = "wait_ready"]
  <2>1. r \in Records /\ r.state = "wait_ready" /\ Record(k, r, "attempt")
        /\ UNCHANGED <<vm, strays>>
    BY <1>0, <1>4, RecordTypes DEF CreateReturns, JobStates, Attached, Records
  <2>2. recs'[k] = r /\ pc'[k] = "attempt"
    BY <1>0, <2>1, RecordEffect
  <2> QED
    BY <1>1, <2>2, WritesFinishing
<1>5. CASE CapacityReply(k)
  <2> DEFINE r == [loc[k] EXCEPT !.key = minted[k] + 1]
  <2>1. minted[k] + 1 \in 0..MaxKeys
    BY <1>0, <1>5, KeysAssumption DEF CapacityReply, TypeOK
  <2>2. r \in Records /\ r.state = recs[k].state
    BY <1>0, <2>1, RecordTypes DEF Records
  <2>3. PICK ok \in BOOLEAN : /\ Upsert(k, r, ok)
                              /\ \E p \in {"backoff", "gaveup", "failed"} : Goto(k, p)
    BY <1>5 DEF CapacityReply, WriteOutcomes
  <2>4. recs'[k] = r /\ pc'[k] \in {"backoff", "gaveup", "failed"}
    BY <1>0, <2>2, <2>3, UpsertEffect, GotoEffect
  <2> QED
    BY <1>1, <2>2, <2>4, WritesFinishing
<1>6. CASE DropsRequest(k)
  <2> DEFINE r == [loc[k] EXCEPT !.state = "complete"]
  <2>1. recs'[k] = r /\ pc'[k] = "idle" /\ r.state = "complete"
    BY <1>0, <1>6, FinishEffect DEF DropsRequest, JobStates, TerminalStates, Records
  <2> QED
    BY <1>1, <2>1, WritesFinishing DEF Terminal, TerminalStates
<1> QED
  BY <1>2, <1>3, <1>4, <1>5, <1>6 DEF CreateStep

LEMMA WorkerFinishing ==
  ASSUME CoreInv, NEW k \in Jobs, EndFits(k), Worker(k)
  PROVE  Finishing(k)
<1>0. TypeOK /\ loc[k] = recs[k] /\ recs[k] \in Records /\ pc[k] # "idle" /\ PlaceFitsState(k)
  BY WorkerHasEffect DEF WorkerEffect, CoreInv, JobInv, WorkersCopy, TypeOK
<1>1. CASE Acquire(k) \/ StepFails(k) \/ CleanupDelete(k) \/ FinalDelete(k) \/ PaceEnds(k)
  <2>1. recs'[k] = recs[k] /\ pc'[k] \in {"attempt", "cleanup", "failed", "deleted"}
    BY <1>0, <1>1, GotoEffect DEF Acquire, StepFails, CleanupDelete, FinalDelete, PaceEnds
  <2>2. pc'[k] \in {"cleanup", "failed"} => recs[k].state \notin InDeletion
    BY <1>0, <1>1, GotoEffect
    DEF Acquire, StepFails, CleanupDelete, FinalDelete, PaceEnds, EndFits, InDeletion
  <2> QED
    BY <2>1, <2>2, StaysFinishing
<1>2. CASE StopsHere(k)
  <2>1. svc = "stopping" /\ recs' = recs /\ pc'[k] = "idle" /\ vm' = vm
    BY <1>0, <1>2, GotoEffect DEF StopsHere, Return
  <2>2. recs[k].state \in InDeletion => pc[k] = "sem"
    BY <1>0, <1>2 DEF StopsHere, StopPlaces, EndFits, PlaceFitsState, InDeletion
  <2>3. recs[k].state \in InDeletion =>
          recs[k] \in {[recs[k] EXCEPT !.state = s] : s \in InDeletion \cup {"complete"}}
    BY <1>0 DEF Records
  <2> QED
    BY <2>1, <2>2, <2>3 DEF Finishing, EndFits
<1>3. ASSUME NEW from \in Attached, NEW to \in Attached, Advance(k, from, to),
             from \notin InDeletion
      PROVE  Finishing(k)
  <2> DEFINE r == [loc[k] EXCEPT !.state = to]
  <2>1. r \in Records /\ Record(k, r, "attempt") /\ UNCHANGED <<vm, strays>>
        /\ recs[k].state = from
    BY <1>0, <1>3, RecordTypes DEF Advance, JobStates
  <2>2. recs'[k] = r /\ pc'[k] = "attempt"
    BY <1>0, <2>1, RecordEffect
  <2> QED
    BY <1>3, <2>1, <2>2, WritesFinishing
<1>4. CASE Ready(k) \/ Launched(k) \/ MarkRunning(k) \/ MonitorEnds(k)
  BY <1>3, <1>4 DEF Ready, Launched, MarkRunning, MonitorEnds, Attached, InDeletion
<1>5. CASE EnterDeleting(k)
  <2> DEFINE r == [loc[k] EXCEPT !.state = "deleting"]
  <2>1. r \in Records /\ Record(k, r, "delete") /\ UNCHANGED <<vm, strays>>
    BY <1>0, <1>5, RecordTypes DEF EnterDeleting, JobStates, Attached
  <2>2. recs'[k] = r /\ pc'[k] = "delete"
    BY <1>0, <2>1, RecordEffect
  <2> QED
    BY <1>0, <2>2, WritesFinishing DEF InDeletion
<1>6. ASSUME NEW s \in TerminalStates, Finish(k, s), UNCHANGED <<vm, strays>>,
             recs[k].state \in InDeletion => s = "complete"
      PROVE  Finishing(k)
  <2> DEFINE r == [loc[k] EXCEPT !.state = s]
  <2>1. s \in JobStates /\ r.state = s
    BY <1>0, <1>6 DEF JobStates, Records
  <2>2. recs'[k] = r /\ pc'[k] = "idle"
    BY <1>0, <1>6, <2>1, FinishEffect
  <2> QED
    BY <1>0, <1>6, <2>1, <2>2, WritesFinishing DEF Terminal
<1>7. CASE Complete(k) \/ GiveUpJob(k) \/ JobAlreadyFinished(k)
  BY <1>6, <1>7
  DEF Complete, GiveUpJob, JobAlreadyFinished, MayRetry, TerminalStates, EndFits
<1>8. CASE Retry(k)
  <2> DEFINE r == [NewRecord EXCEPT !.retry = loc[k].retry + 1]
  <2>1. loc[k].retry + 1 \in 0..MaxRetries
    BY <1>0, <1>8, RetriesAssumption DEF Retry, MayRetry, Records
  <2>2. r \in Records /\ r.state = "queued"
    BY <2>1, RecordTypes DEF NewRecord, NoRecord, Records
  <2>3. recs'[k] = r /\ pc'[k] = "pace" /\ pc[k] = "failed"
    BY <1>0, <1>8, <2>2, RecordEffect DEF Retry, MayRetry
  <2> QED
    BY <2>2, <2>3, WritesFinishing DEF EndFits, InDeletion
<1> QED
  BY <1>1, <1>2, <1>4, <1>5, <1>7, <1>8, CreateFinishing DEF Worker, VMStep, RetryStep

\* What a step has to keep for a job it does not touch: the record in memory,
\* the worker or at least the lack of one, and the snapshots of the sweep.
LEMMA FitsKept ==
  ASSUME NEW j \in Jobs, SweepFits(j), svc # "down", svc' # "down",
         svc' = "up" => svc = "up",
         recs'[j] = recs[j], disk'[j] \in {disk[j], recs[j]},
         pc'[j] = pc[j] \/ (pc[j] = "idle" /\ pc'[j] = "sem"),
         Live(j)' \subseteq Live(j), pruned \subseteq pruned',
         snap'[j] \in {snap[j], NoRecord},
         place' = "idle" \/ (place # "idle" /\ listed' = listed),
         sub'.job = j => InFlight(sub'.rec)
  PROVE  SweepFits(j)'
<1>1. SubFits(j)' /\ HasWorker(j)' /\ EndFits(j)'
  BY DEF SweepFits, SubFits, HasWorker, EndFits, InFlight, Terminal
<1>2. PrunedOnly(j)'
  BY DEF SweepFits, PrunedOnly, Terminal, TerminalStates
<1>3. SnapFits(j)'
  BY DEF SweepFits, SnapFits, NoRecord, InDeletion
<1>4. ListedFits(j)'
  BY DEF SweepFits, ListedFits
<1> QED
  BY <1>1, <1>2, <1>3, <1>4 DEF SweepFits

\* A stopped process has neither records nor a sweep.
LEMMA FitsWhenDown ==
  ASSUME NEW j \in Jobs, svc' = "down", recs'[j] = NoRecord, pc'[j] = "idle",
         place' = "idle", sub' = NoSub
  PROVE  SweepFits(j)'
<1>1. NoSub.job # j
  BY JobsAssumption DEF NoSub
<1> QED
  BY <1>1 DEF SweepFits, SubFits, PrunedOnly, EndFits, HasWorker, SnapFits, ListedFits, NoRecord

\* The poller's record is in flight whatever the workers do.
LEMMA SubKept ==
  ASSUME NEW j \in Jobs, SubFits(j), sub' \in {sub, NoSub}
  PROVE  sub'.job = j => InFlight(sub'.rec)
BY JobsAssumption DEF SubFits, NoSub

\* Workers and sweep go on to fit under the steps of the workers,
LEMMA WorkerFits ==
  ASSUME TypeInv, Undamaged, NEW k \in Jobs, Worker(k), UNCHANGED sweep, NEW j \in Jobs
  PROVE  SweepFits(j)'
<1>0. /\ CoreInv /\ TypeOK /\ SweepFits(j) /\ SweepFits(k) /\ SubFits(j)
      /\ NoSweepWhenDown
  BY DEF TypeInv, Undamaged, CoreInv, SweepFits
<1>1. /\ WorkerEffect(k) /\ svc # "down" /\ svc' = svc /\ sub' = sub
      /\ UNCHANGED <<place, listed, snap, pruned>>
  BY <1>0, WorkerHasEffect, WorkerKeepsEnv DEF WorkerEffect, env, sweep
<1>2. CASE j # k
  <2>1. Live(j)' = Live(j)
    BY <1>1, <1>2 DEF WorkerEffect, OthersKept, Live
  <2> QED
    BY <1>0, <1>1, <1>2, <2>1, SubKept, FitsKept DEF WorkerEffect, OthersKept
<1>3. CASE j = k
  <2>0. Finishing(k) /\ JobInv(k)' /\ pc[k] # "idle" /\ InFlight(recs[k])
    BY <1>0, <1>1, WorkerFinishing DEF SweepFits, WorkerEffect, CoreInv, JobInv, WorkersCopy
  <2>1. EndFits(k)' /\ SubFits(k)'
    BY <1>0, <1>1, <1>3, <2>0 DEF Finishing, SubFits, InFlight, Terminal
  <2>2. HasWorker(k)'
    BY <1>1, <2>0 DEF Finishing, HasWorker, Terminal, TerminalStates, Attached
  <2>3. PrunedOnly(k)'
    BY <1>1, <2>0 DEF WorkerEffect, PrunedOnly, JobInv, WorkersCopy, InFlight
  <2>4. ListedFits(k)'
    BY <1>0, <1>1, <2>0 DEF Finishing, SweepFits, ListedFits, Live
  <2>5. SnapFits(k)'
    <3> SUFFICES ASSUME snap[k].state \in InDeletion
                 PROVE  recs'[k] \in {[snap[k] EXCEPT !.state = s] :
                                        s \in InDeletion \cup {"complete"}}
      BY <1>1 DEF SnapFits
    <3>1. snap[k] \in Records
      BY DEF TypeInv, SweepTypeOK
    <3>2. PICK s \in InDeletion \cup {"complete"} : recs[k] = [snap[k] EXCEPT !.state = s]
      BY <1>0, <1>1 DEF SweepFits, SnapFits
    <3>3. s # "complete"
      BY <2>0, <3>1, <3>2 DEF InFlight, Terminal, TerminalStates, Records
    <3>4. PICK t \in InDeletion \cup {"complete"} : recs'[k] = [recs[k] EXCEPT !.state = t]
      BY <2>0, <3>1, <3>2, <3>3 DEF Finishing, Records
    <3>5. recs'[k] = [snap[k] EXCEPT !.state = t]
      BY <3>1, <3>2, <3>4 DEF Records
    <3> QED
      BY <3>5
  <2> QED
    BY <1>3, <2>1, <2>2, <2>3, <2>4, <2>5 DEF SweepFits
<1> QED
  BY <1>2, <1>3

\* the poller,
LEMMA SubmitFits ==
  ASSUME TypeInv, Undamaged, NEW k \in Jobs, Submit(k), UNCHANGED sweep, NEW j \in Jobs
  PROVE  SweepFits(j)'
<1>0. /\ CoreInv /\ TypeOK /\ SweepFits(j) /\ SubFits(j) /\ SnapFits(k) /\ NoSub.job # j
      /\ UNCHANGED <<place, listed, snap, pruned>>
  BY JobsAssumption DEF TypeInv, Undamaged, CoreInv, SweepFits, sweep, NoSub
<1>1. svc # "down" /\ svc' = svc /\ pc' = pc /\ vm' = vm /\ Live(j)' = Live(j)
  BY DEF Submit, SubmitNew, SubmitLeftover, SubmitIgnored, Polls, Live
<1>2. CASE SubmitNew(k)
  <2>1. PICK ok \in BOOLEAN :
          /\ Upsert(k, NewRecord, ok)
          /\ sub' = IF ok THEN [job |-> k, rec |-> NewRecord] ELSE NoSub
    BY <1>2 DEF SubmitNew, WriteOutcomes
  <2>2. /\ recs'[k] = NewRecord /\ recs[k].state = "none" /\ pc[k] = "idle"
        /\ \A i \in Jobs \ {k} : recs'[i] = recs[i] /\ disk'[i] \in {disk[i], recs[i]}
    BY <1>0, <1>2, <2>1, NewRecordEffect DEF SubmitNew, Unseen
  <2>3. sub'.job = j => InFlight(sub'.rec)
    BY <1>0, <2>1 DEF InFlight, Terminal, TerminalStates, NewRecord, NoRecord
  <2>4. CASE j # k
    BY <1>0, <1>1, <2>2, <2>3, <2>4, FitsKept
  <2>5. CASE j = k
    <3>1. snap[k].state \notin InDeletion
      <4>1. snap[k] \in Records
        BY DEF TypeInv, SweepTypeOK
      <4> QED
        BY <1>0, <1>1, <2>2, <4>1 DEF SnapFits, Records, InDeletion
    <3>2. NewRecord.state = "queued"
      BY DEF NewRecord, NoRecord
    <3> QED
      BY <1>0, <1>1, <2>2, <2>3, <2>5, <3>1, <3>2
      DEF SweepFits, SubFits, PrunedOnly, EndFits, HasWorker, SnapFits, ListedFits, InDeletion,
          Attached
  <2> QED
    BY <2>4, <2>5
<1>3. CASE SubmitLeftover(k) \/ SubmitIgnored(k)
  <2>1. sub'.job = j => InFlight(sub'.rec)
    BY <1>0, <1>3 DEF SubmitLeftover, SubmitIgnored, SubFits
  <2> QED
    BY <1>0, <1>1, <1>3, <2>1, FitsKept DEF SubmitLeftover, SubmitIgnored
<1> QED
  BY <1>2, <1>3 DEF Submit

\* whoever starts a worker from the record the store holds,
LEMMA SpawnFits ==
  ASSUME TypeInv, Undamaged, svc # "down", NEW j \in Jobs,
         UNCHANGED <<pc, loc>> \/ \E k \in Jobs : pc[k] = "idle" /\ Spawn(k, recs[k]),
         UNCHANGED <<svc, recs, disk, vm, place, listed, pruned>>, sub' \in {sub, NoSub},
         snap'[j] \in {snap[j], NoRecord}
  PROVE  SweepFits(j)'
<1>0. /\ TypeOK /\ SweepFits(j) /\ SubFits(j) /\ Live(j)' = Live(j)
  BY DEF TypeInv, Undamaged, SweepFits, Live
<1>1. pc'[j] = pc[j] \/ (pc[j] = "idle" /\ pc'[j] = "sem")
  BY <1>0 DEF Spawn, Goto, TypeOK
<1> QED
  BY <1>0, <1>1, SubKept, FitsKept

\* the loss of a VM,
LEMMA LossFits ==
  ASSUME TypeInv, Undamaged, svc # "down", NEW j \in Jobs,
         NEW k \in Jobs, NEW n, SetVM(k, n, "gone"),
         UNCHANGED <<svc, recs, disk, pc, sub, listed, snap, pruned>>,
         place' = place \/ (place # "idle" /\ place' # "idle")
  PROVE  SweepFits(j)'
<1>0. TypeOK /\ SweepFits(j) /\ SubFits(j)
  BY DEF TypeInv, Undamaged, SweepFits
<1>1. Live(j)' \subseteq Live(j)
  BY <1>0 DEF SetVM, Live, TypeOK
<1> QED
  BY <1>0, <1>1, SubKept, FitsKept

\* the writes that close a record,
LEMMA CloseFits ==
  ASSUME TypeInv, Undamaged, NEW k \in Jobs, Closing(k), NEW j \in Jobs
  PROVE  SweepFits(j)'
<1>0. /\ TypeOK /\ SweepFits(j) /\ SubFits(j) /\ SweepTypeOK /\ JobInv(k)
  BY DEF TypeInv, Undamaged, SweepFits
<1>1. PICK r : Closes(k, r)
  BY ClosingCloses
<1>2. /\ recs'[k] = r /\ disk'[k] \in {r, disk[k]}
      /\ \A i \in Jobs \ {k} : recs'[i] = recs[i] /\ disk'[i] \in {disk[i], recs[i]}
  BY <1>0, <1>1, PersistEffect DEF Closes
<1>3. /\ snap' = [snap EXCEPT ![k] = NoRecord] /\ listed' = listed /\ place # "idle"
      /\ (k \in pruned' \/ (r.state = "complete" /\ pruned' = pruned))
      /\ Live(j)' = Live(j)
  BY <1>1 DEF Closing, Prune, PruneIf, Settle, Handled, Closes, Live, Walks, StuckInDeletion
<1>4. pruned \subseteq pruned'
  BY DEF Closing, Prune, PruneIf, Settle
<1>5. svc # "down" /\ svc' = svc /\ pc' = pc /\ sub' = sub /\ pc[k] = "idle"
  BY <1>1 DEF Closes
<1>6. CASE j # k
  <2>1. snap'[j] = snap[j]
    BY <1>0, <1>3, <1>6 DEF SweepTypeOK
  <2>2. place' = "idle" \/ (place # "idle" /\ listed' = listed)
    BY <1>3
  <2> QED
    BY <1>0, <1>2, <1>3, <1>4, <1>5, <1>6, <2>1, <2>2, SubKept, FitsKept
<1>7. CASE j = k
  <2>1. snap'[k] = NoRecord
    BY <1>0, <1>3 DEF SweepTypeOK
  <2>2. r.state \in {"none", "complete"} /\ (r.state = "none" => k \in pruned')
    BY <1>1, <1>3 DEF Closes, NoRecord, Closing
  <2> QED
    BY <1>0, <1>2, <1>5, <1>7, <2>1, <2>2
    DEF SweepFits, SubFits, PrunedOnly, EndFits, HasWorker, SnapFits, ListedFits, InDeletion,
        Attached, NoRecord
<1> QED
  BY <1>6, <1>7

\* the other steps of the sweep,
LEMMA LookFits ==
  ASSUME TypeInv, Undamaged, Looks, NEW j \in Jobs
  PROVE  SweepFits(j)'
<1>0. /\ TypeOK /\ SweepFits(j) /\ SubFits(j) /\ SweepTypeOK /\ NoSweepWhenDown /\ UNCHANGED vars
      /\ recs[j] \in Records
  BY LooksOnly DEF TypeInv, Undamaged, SweepFits, TypeOK
<1>1. UNCHANGED <<svc, recs, disk, pc, sub>> /\ Live(j)' = Live(j)
  BY <1>0 DEF vars, Live
<1>2. pruned' = pruned /\ (svc = "up" \/ place # "idle")
  BY DEF Looks, BeginSweep, DeleteCallFails, ListRecords, SweepDone, Look, SkipActive, Keep,
     BeginRedelete, Walks, StuckInDeletion
<1>3. svc # "down"
  BY <1>0, <1>2 DEF NoSweepWhenDown
<1>4. ASSUME snap'[j] \in {snap[j], NoRecord},
             place' = "idle" \/ (place # "idle" /\ listed' = listed)
      PROVE  SweepFits(j)'
  BY <1>0, <1>1, <1>2, <1>3, <1>4, SubKept, FitsKept
<1>5. CASE BeginSweep
  <2>1. recs[j].vm \in Live(j) => <<j, recs[j].vm>> \in listed'
    BY <1>5 DEF BeginSweep, VMs, Live
  <2>2. snap' = snap
    BY <1>5 DEF BeginSweep
  <2> QED
    BY <1>0, <1>1, <1>2, <2>1, <2>2
    DEF SweepFits, SubFits, PrunedOnly, EndFits, HasWorker, SnapFits, ListedFits, InFlight,
        Terminal
<1>6. CASE ListRecords
  <2>1. snap'[j] = recs[j] /\ place # "idle" /\ listed' = listed
    BY <1>6 DEF ListRecords
  <2>2. recs[j].state \in InDeletion =>
          recs[j] \in {[recs[j] EXCEPT !.state = s] : s \in InDeletion \cup {"complete"}}
    BY <1>0 DEF Records
  <2> QED
    BY <1>0, <1>1, <1>2, <2>1, <2>2
    DEF SweepFits, SubFits, PrunedOnly, EndFits, HasWorker, SnapFits, ListedFits, InFlight,
        Terminal
<1>7. CASE SweepDone \/ (\E v \in pending : Look(v)) \/ (\E k \in Jobs : BeginRedelete(k))
  BY <1>4, <1>7 DEF SweepDone, Look, BeginRedelete, StuckInDeletion, Walks
<1>8. CASE DeleteCallFails
  BY <1>0, <1>4, <1>8 DEF DeleteCallFails, SweepTypeOK
<1>9. ASSUME NEW k \in Jobs, SkipActive(k) \/ Keep(k)
      PROVE  SweepFits(j)'
  BY <1>0, <1>4, <1>9 DEF SkipActive, Keep, Walks, Handled, SweepTypeOK
<1> QED
  BY <1>5, <1>6, <1>7, <1>8, <1>9 DEF Looks

\* and the process.
LEMMA ProcessFits ==
  ASSUME TypeInv, Undamaged, NEW j \in Jobs,
         \/ (Sigterm \/ Restart \/ RestartWithoutState) /\ UNCHANGED sweep
         \/ (Crash \/ ShutdownDone) /\ ForgetSweep
  PROVE  SweepFits(j)'
<1>0. TypeOK /\ SweepFits(j) /\ SubFits(j) /\ JobInv(j) /\ NoSweepWhenDown /\ NoSnap[j] = NoRecord
  BY DEF TypeInv, Undamaged, SweepFits, NoSnap
<1>1. CASE Sigterm /\ UNCHANGED sweep
  <2>1. Live(j)' = Live(j)
    BY <1>1 DEF Sigterm, Live
  <2> QED
    BY <1>0, <1>1, <2>1, SubKept, FitsKept DEF Sigterm, sweep
<1>2. CASE (Restart \/ RestartWithoutState) /\ UNCHANGED sweep
  <2>1. /\ svc = "down" /\ place' = "idle" /\ snap'[j] = NoRecord /\ sub' = sub
        /\ recs'[j] = disk'[j] /\ recs[j] = NoRecord /\ sub.job # j
    BY <1>0, <1>2
    DEF Restart, RestartWithoutState, sweep, NoSweepWhenDown, JobInv, DownIsEmpty
  <2>2. \/ pc'[j] = "idle" /\ ~InFlight(recs'[j])
        \/ pc'[j] = "sem"
    BY <1>0, <1>2, <2>1
    DEF Restart, RestartWithoutState, Resumes, JobInv, DownIsEmpty, InFlight, NoRecord
  <2> QED
    BY <2>1, <2>2
    DEF SweepFits, SubFits, PrunedOnly, EndFits, HasWorker, SnapFits, ListedFits, InFlight,
        Terminal, TerminalStates, Attached, NoRecord, InDeletion
<1>3. CASE (Crash \/ ShutdownDone) /\ ForgetSweep
  BY <1>3, FitsWhenDown DEF Crash, ShutdownDone, LoseMemory, ForgetSweep
<1> QED
  BY <1>1, <1>2, <1>3

\* So they fit after every step.
LEMMA ServiceFits ==
  ASSUME TypeInv, Undamaged, stale = 0, stale' = 0, [ServiceNext]_serviceVars, NEW j \in Jobs
  PROVE  SweepFits(j)'
<1>0. NoSweepWhenDown /\ CoreInv
  BY DEF TypeInv, Undamaged, CoreInv
<1>1. ASSUME UNCHANGED <<svc, recs, disk, pc, vm, sub>>, UNCHANGED sweep
      PROVE  SweepFits(j)'
  BY <1>1 DEF Undamaged, sweep, SweepFits, SubFits, PrunedOnly, EndFits, HasWorker, SnapFits,
     ListedFits, InFlight, Terminal, Live
<1>2. CASE UNCHANGED serviceVars
  BY <1>1, <1>2 DEF serviceVars, vars
<1>3. ASSUME NEW k \in Jobs, JobFinishes(k), UNCHANGED sweep
      PROVE  SweepFits(j)'
  BY <1>1, <1>3 DEF JobFinishes
<1>4. ASSUME NEW k \in Jobs, VMVanishes(k), UNCHANGED sweep
      PROVE  SweepFits(j)'
  <2>1. CASE svc # "down"
    BY <1>4, <2>1, LossFits DEF VMVanishes, sweep
  <2>2. CASE svc = "down"
    BY <1>0, <1>4, <2>2 DEF VMVanishes, sweep, Undamaged, NoSweepWhenDown, SweepFits, SubFits,
       PrunedOnly, EndFits, HasWorker, SnapFits, ListedFits, InFlight, Terminal
  <2> QED
    BY <2>1, <2>2
<1>5. CASE ServiceSubmit /\ UNCHANGED <<place, listed, pending, seen, snap, aim, pruned>>
  <2>1. svc # "down"
    BY <1>0, <1>5 DEF ServiceSubmit, SubmitSpawns, LateSubmit, CoreInv, JobInv, DownIsEmpty
  <2> QED
    BY <1>5, <2>1, SubmitsCurrent, SpawnFits
<1>6. ASSUME NEW k \in Jobs, Adopt(k)
      PROVE  SweepFits(j)'
  <2>1. snap'[j] \in {snap[j], NoRecord} /\ UNCHANGED <<place, listed, pruned>>
    BY <1>6 DEF Adopt, Adopts, Handled, TypeInv, SweepTypeOK
  <2> QED
    BY <1>6, <2>1, AdoptsCurrent, SpawnFits
<1>7. CASE Deletion
  <2>1. /\ svc # "down" /\ place # "idle" /\ place' # "idle"
        /\ UNCHANGED <<listed, snap, pruned>>
    BY <1>7 DEF Deletion, Reap, Redelete
  <2> QED
    BY <1>7, <2>1, DeletionOfOne, LossFits
<1> QED
  BY <1>2, <1>3, <1>4, <1>5, <1>6, <1>7, WorkerFits, SubmitFits, CloseFits, LookFits,
     ProcessFits, ServiceSteps, SweepSteps DEF Scales

\* A terminal record stays while the process runs, unless it is closed again.
LEMMA TerminalRecord ==
  ASSUME TypeInv, Undamaged, stale = 0, stale' = 0, svc # "down",
         Scales \/ ServiceSubmit \/ Deletion, NEW j \in Jobs, Terminal(recs[j])
  PROVE  recs'[j] = recs[j]
<1>0. /\ TypeOK /\ CoreInv /\ ~InFlight(recs[j]) /\ recs[j].state # "none"
  BY DEF TypeInv, Undamaged, CoreInv, InFlight, Terminal, TerminalStates
<1>1. ASSUME NEW k \in Jobs, Submit(k)
      PROVE  recs'[j] = recs[j]
  <2>1. CASE SubmitNew(k)
    <3>1. PICK ok \in BOOLEAN : Upsert(k, NewRecord, ok)
      BY <2>1 DEF SubmitNew, WriteOutcomes
    <3> QED
      BY <1>0, <2>1, <3>1, NewRecordEffect DEF SubmitNew, Unseen
  <2>2. CASE SubmitLeftover(k) \/ SubmitIgnored(k)
    BY <2>2 DEF SubmitLeftover, SubmitIgnored
  <2> QED
    BY <1>1, <2>1, <2>2 DEF Submit
<1>2. ASSUME NEW k \in Jobs, Worker(k)
      PROVE  recs'[j] = recs[j]
  <2>1. WorkerEffect(k) /\ k # j
    BY <1>0, <1>2, WorkerHasEffect DEF WorkerEffect, CoreInv, JobInv, WorkersCopy
  <2> QED
    BY <2>1 DEF WorkerEffect, OthersKept
<1>3. CASE Deletion
  BY <1>3, DeletionOfOne
<1>4. CASE ServiceSubmit
  BY <1>4, SubmitsCurrent
<1>5. CASE (\E k \in Jobs : VMVanishes(k) \/ JobFinishes(k))
             \/ Sigterm \/ Restart \/ RestartWithoutState
  BY <1>5 DEF VMVanishes, JobFinishes, Sigterm, Restart, RestartWithoutState
<1> QED
  BY <1>1, <1>2, <1>3, <1>4, <1>5 DEF Scales

\* A redelete begins on a record that, with the process up, was completed:
\* were it still in deletion it would have a worker.
LEMMA RedeletesDone ==
  ASSUME TypeInv, Undamaged, NEW k \in Jobs, BeginRedelete(k)
  PROVE  AimDone'
<1>0. /\ SweepFits(k) /\ NoSweepWhenDown /\ place' = "redelete" /\ aim' = <<k, snap[k].vm>>
      /\ recs' = recs /\ svc' = svc /\ pc[k] = "idle" /\ snap[k].state \in InDeletion
      /\ place # "idle" /\ snap[k] \in Records
  BY DEF Undamaged, TypeInv, SweepTypeOK, BeginRedelete, StuckInDeletion, Walks, scaler, InDeletion
<1>1. ASSUME svc = "up"
      PROVE  Terminal(recs[k])
  <2>1. PICK s \in InDeletion \cup {"complete"} : recs[k] = [snap[k] EXCEPT !.state = s]
    BY <1>0, <1>1 DEF SweepFits, SnapFits
  <2>2. recs[k].state = s
    BY <1>0, <2>1 DEF Records
  <2> QED
    BY <1>0, <1>1, <2>2
    DEF SweepFits, HasWorker, InDeletion, Attached, Terminal, TerminalStates
<1> QED
  BY <1>0, <1>1 DEF AimDone

\* So it is with every step.
LEMMA ServiceAims ==
  ASSUME TypeInv, Undamaged, stale = 0, stale' = 0, [ServiceNext]_serviceVars
  PROVE  AimDone' /\ NoSweepWhenDown'
<1>0. /\ SweepTypeOK /\ AimFits /\ AimDone /\ NoSweepWhenDown
  BY DEF TypeInv, Undamaged
<1>1. NoSweepWhenDown'
  <2>1. CASE UNCHANGED serviceVars
    BY <1>0, <2>1 DEF serviceVars, vars, sweep, NoSweepWhenDown
  <2>2. CASE Scales /\ UNCHANGED sweep
    <3>1. svc' = "down" => svc = "down"
      BY <2>2, WorkerKeepsEnv DEF Scales, Submit, SubmitNew, SubmitLeftover, SubmitIgnored, env,
         VMVanishes, JobFinishes, Sigterm, Restart, RestartWithoutState
    <3> QED
      BY <1>0, <2>2, <3>1 DEF sweep, NoSweepWhenDown
  <2>3. CASE ServiceSubmit /\ UNCHANGED <<place, listed, pending, seen, snap, aim, pruned>>
    BY <1>0, <2>3, SubmitsCurrent DEF NoSweepWhenDown
  <2>4. CASE ForgetSweep
    BY <2>4 DEF ForgetSweep, NoSweepWhenDown
  <2>5. CASE Looks
    <3>1. svc' = svc /\ svc # "down"
      BY <1>0, <2>5, LooksOnly DEF vars, NoSweepWhenDown, Looks, BeginSweep, DeleteCallFails,
         ListRecords, SweepDone, Look, SkipActive, Keep, BeginRedelete, StuckInDeletion, Walks
    <3> QED
      BY <3>1 DEF NoSweepWhenDown
  <2>6. CASE Deletion
    BY <2>6 DEF Deletion, Reap, Redelete, NoSweepWhenDown
  <2>7. ASSUME NEW k \in Jobs, Closing(k)
        PROVE  NoSweepWhenDown'
    BY <2>7, ClosingCloses DEF Closes, NoSweepWhenDown
  <2>8. ASSUME NEW k \in Jobs, Adopt(k)
        PROVE  NoSweepWhenDown'
    BY <2>8, AdoptsCurrent DEF NoSweepWhenDown
  <2> QED
    BY <2>1, <2>2, <2>3, <2>4, <2>5, <2>6, <2>7, <2>8, ServiceSteps, SweepSteps
<1>2. ASSUME place' \notin {"redelete", "settle"}
      PROVE  AimDone'
  BY <1>2 DEF AimDone
<1>3. ASSUME UNCHANGED serviceVars
      PROVE  AimDone'
  BY <1>0, <1>3 DEF serviceVars, vars, sweep, AimDone, Terminal
<1>4. ASSUME Scales \/ ServiceSubmit \/ Redelete, UNCHANGED aim,
             place' \in {place, IF Redelete THEN "settle" ELSE place}
      PROVE  AimDone'
  <2> SUFFICES ASSUME place \in {"redelete", "settle"}
               PROVE  AimDone'
    BY <1>2, <1>4 DEF Redelete
  <2>1. svc # "down" /\ aim[1] \in Jobs /\ stale' = 0
    BY <1>0 DEF NoSweepWhenDown, AimFits, VMs
  <2>2. svc' = "up" => svc = "up"
    BY <1>4, <2>1, SubmitsCurrent, WorkerKeepsEnv
    DEF Scales, Submit, SubmitNew, SubmitLeftover, SubmitIgnored, env,
        VMVanishes, JobFinishes, Sigterm, Restart, RestartWithoutState, Redelete
  <2>3. Terminal(recs[aim[1]]) => recs'[aim[1]] = recs[aim[1]]
    BY <1>4, <2>1, TerminalRecord DEF Deletion
  <2> QED
    BY <1>0, <1>4, <2>1, <2>2, <2>3 DEF AimDone, Redelete, Terminal
<1>5. ASSUME Scales /\ UNCHANGED sweep
      PROVE  AimDone'
  BY <1>4, <1>5 DEF sweep
<1>6. ASSUME ServiceSubmit /\ UNCHANGED <<place, listed, pending, seen, snap, aim, pruned>>
      PROVE  AimDone'
  BY <1>4, <1>6
<1>7. ASSUME Redelete
      PROVE  AimDone'
  BY <1>4, <1>7 DEF Redelete
<1>8. ASSUME ForgetSweep
      PROVE  AimDone'
  BY <1>2, <1>8 DEF ForgetSweep
<1>9. ASSUME Looks \/ Reap
      PROVE  AimDone'
  BY <1>2, <1>9, RedeletesDone DEF Reap, Looks, BeginSweep, DeleteCallFails, ListRecords,
     SweepDone, Look, SkipActive, Keep, Walks
<1>10. ASSUME NEW k \in Jobs, Closing(k) \/ Adopt(k)
       PROVE  AimDone'
  BY <1>2, <1>10 DEF Closing, Prune, PruneIf, Settle, Adopt, Adopts, Walks
<1> QED
  BY <1>1, <1>3, <1>5, <1>6, <1>7, <1>8, <1>9, <1>10, ServiceSteps, SweepSteps DEF Deletion

\* The invariant of the service holds at the start and after every step.
LEMMA ServiceInvInitially == ServiceInit => ServiceInv
<1> SUFFICES ASSUME ServiceInit
             PROVE  Undamaged
  BY TypeInvInitially DEF ServiceInv
<1>1. Init /\ place = "idle" /\ listed = {} /\ snap = NoSnap /\ pruned = {}
  BY DEF ServiceInit
<1>2. AimDone /\ NoSweepWhenDown
  BY <1>1 DEF AimDone, NoSweepWhenDown
<1>3. ASSUME NEW k \in Jobs
      PROVE  JobInv(k) /\ SweepFits(k)
  <2>1. JobInv(k)
    BY <1>1, IInvInitially DEF IInv, CoreInv
  <2>2. recs[k] = NoRecord /\ disk[k] = NoRecord /\ pc[k] = "idle" /\ snap[k] = NoRecord
    BY <1>1 DEF Init, NoSnap
  <2>3. sub.job # k
    BY <1>1, JobsAssumption DEF Init, NoSub
  <2> QED
    BY <2>1, <2>2, <2>3 DEF SweepFits, SubFits, PrunedOnly, EndFits, HasWorker, SnapFits,
       ListedFits, NoRecord, InDeletion, Attached, Terminal, TerminalStates
<1> QED
  BY <1>2, <1>3 DEF Undamaged

LEMMA ServiceInvInductive == ServiceInv /\ [ServiceNext]_serviceVars => ServiceInv'
<1> SUFFICES ASSUME ServiceInv, [ServiceNext]_serviceVars
             PROVE  ServiceInv'
  OBVIOUS
<1>1. TypeInv /\ TypeInv' /\ stale \in Nat
  BY TypeInvInductive, StaleAssumption DEF ServiceInv, TypeInv, SweepTypeOK
<1>2. ASSUME stale' = 0
      PROVE  Undamaged'
  <2>1. stale = 0
    BY <1>1, <1>2, StaleGrows
  <2>2. Undamaged
    BY <2>1 DEF ServiceInv
  <2> QED
    BY <1>1, <1>2, <2>1, <2>2, ServiceKeepsCore, ServiceFits, ServiceAims DEF Undamaged
<1> QED
  BY <1>1, <1>2 DEF ServiceInv

LEMMA ServiceInvariance == ServiceSpec => []ServiceInv
BY ServiceInvInitially, ServiceInvInductive, PTL DEF ServiceSpec

(***************************************************************************)
(* No VM leaks while the reconciler adopts, completes, prunes and reaps    *)
(* next to workers, poller and VM service, whatever fails and whenever the *)
(* process stops, as long as no worker starts from a record that has       *)
(* changed since it was read (RunOnce, reconciler.go; Submit, scaler.go):  *)
(* a VM of which a failed call hid nothing is always found again from the  *)
(* state file.                                                             *)
(***************************************************************************)
THEOREM NothingLeaksUnlessStale == ServiceSpec => []NoLeakUnlessStale
<1>1. ServiceInv => NoLeakUnlessStale
  BY TrackedMeansNoLeak DEF ServiceInv, TypeInv, Undamaged, CoreInv, NoLeakUnlessStale
<1> QED
  BY <1>1, ServiceInvariance, PTL

-----------------------------------------------------------------------------
(* With stale spawns, until the first stop: the worker's own copy.         *)

\* The other jobs keep their worker and their VMs, whatever records say.
LEMMA WorkerFrame ==
  ASSUME TypeOK, NEW k \in Jobs, Worker(k), NEW j \in Jobs \ {k}
  PROVE  pc'[j] = pc[j] /\ loc'[j] = loc[j] /\ vm'[j] = vm[j] /\ strays'[j] = strays[j]
<1> DEFINE Kept == pc'[j] = pc[j] /\ loc'[j] = loc[j] /\ vm'[j] = vm[j] /\ strays'[j] = strays[j]
<1>1. ASSUME NEW r, NEW p, Record(k, r, p), UNCHANGED <<vm, strays>>
      PROVE  Kept
  BY <1>1 DEF Record, SetLoc, Goto, TypeOK
<1>2. ASSUME NEW s, Finish(k, s), UNCHANGED <<vm, strays>>
      PROVE  Kept
  BY <1>2 DEF Finish, Return, SetLoc, Goto, TypeOK
<1>3. CASE Acquire(k) \/ StopsHere(k)
  BY <1>3 DEF Acquire, StopsHere, Return, SetLoc, Goto, TypeOK
<1>4. CASE BeginCreate(k) \/ ServerCreate(k) \/ CapacityReply(k)
  BY <1>4 DEF BeginCreate, ServerCreate, CapacityReply, SetVM, LoseTrack, SetLoc, Goto, TypeOK
<1>5. CASE CreateReturns(k)
  BY <1>1, <1>5 DEF CreateReturns
<1>6. CASE RateLimited(k) \/ CreateFails(k) \/ BackoffEnds(k)
  BY <1>6 DEF RateLimited, CreateFails, BackoffEnds, LoseTrack, Goto, TypeOK
<1>7. CASE DropsRequest(k) \/ Complete(k) \/ GiveUpJob(k) \/ JobAlreadyFinished(k)
  BY <1>2, <1>7 DEF DropsRequest, Complete, GiveUpJob, JobAlreadyFinished
<1>8. CASE Ready(k) \/ Launched(k) \/ MarkRunning(k) \/ MonitorEnds(k) \/ EnterDeleting(k)
            \/ Retry(k)
  BY <1>1, <1>8 DEF Ready, Launched, MarkRunning, MonitorEnds, Advance, EnterDeleting, Retry
<1>9. CASE StepFails(k) \/ PaceEnds(k)
  BY <1>9 DEF StepFails, PaceEnds, Goto, TypeOK
<1>10. CASE CleanupDelete(k) \/ FinalDelete(k)
  BY <1>10 DEF CleanupDelete, FinalDelete, DeleteVM, SetVM, LoseTrack, Goto, TypeOK
<1> QED
  BY <1>3, <1>4, <1>5, <1>6, <1>7, <1>8, <1>9, <1>10 DEF Worker, CreateStep, VMStep, RetryStep

\* A worker whose job owns nothing after its step may be anywhere.
LEMMA EmptyCopy ==
  ASSUME NEW k \in Jobs, Owned(k)' = {}, PlaceFitsCopy(k)'
  PROVE  CopyFits(k)'
BY DEF CopyFits, NothingOwned, CopyLeads

\* Otherwise its copy has to go on leading to what the job owns.
LEMMA LeadingCopy ==
  ASSUME NEW k \in Jobs, PlaceFitsCopy(k)',
         pc'[k] \notin {"idle", "backoff", "failed", "gaveup", "pace", "deleted"},
         NEW r, loc'[k] = r, \A n \in Owned(k)' : Refers(r, n)
  PROVE  CopyFits(k)'
BY DEF CopyFits, NothingOwned, CopyLeads

\* The steps of createVM keep the copy leading,
LEMMA CreateLeads ==
  ASSUME TypeOK, NEW k \in Jobs, CopyFits(k), CreateStep(k)
  PROVE  CopyFits(k)'
<1>0. /\ loc[k] \in Records /\ minted[k] \in 0..MaxKeys /\ vm[k] \in [Keys -> VMStatus]
      /\ \A n \in Owned(k) : Refers(loc[k], n) /\ n \in Keys /\ vm[k][n] = "live"
  BY DEF TypeOK, CopyFits, CopyLeads, Owned, Live
<1>1. CASE BeginCreate(k)
  <2> DEFINE n == IF NeedsKey(loc[k]) THEN minted[k] + 1 ELSE loc[k].key
             r == [loc[k] EXCEPT !.key = n, !.state = "creating"]
  <2>1. n \in Keys
    BY <1>0, <1>1, KeysAssumption DEF BeginCreate, NeedsKey, Records, Keys
  <2>2. ASSUME NEW m \in Owned(k)
        PROVE  n = m
    <3>1. loc[k].state = "creating" /\ loc[k].key = m /\ m # 0
      BY <1>0, <1>1, <2>2 DEF BeginCreate, Refers, Attached, Keys
    <3> QED
      BY <3>1 DEF NeedsKey
  <2> HIDE DEF n
  <2>3. r.state = "creating" /\ r.key = n
    BY <1>0 DEF Records
  <2>4. PICK ok \in BOOLEAN :
          /\ Goto(k, IF ok THEN "create" ELSE "failed") /\ SetLoc(k, r)
          /\ IF ok THEN UNCHANGED strays ELSE LoseTrack(k)
    BY <1>1 DEF BeginCreate, WriteOutcomes, n
  <2>5. loc'[k] = r /\ pc'[k] = (IF ok THEN "create" ELSE "failed") /\ UNCHANGED vm
    BY <1>1, <2>4, SetLocEffect, GotoEffect DEF BeginCreate
  <2>6. PlaceFitsCopy(k)'
    BY <2>1, <2>3, <2>5 DEF PlaceFitsCopy
  <2>7. CASE ok
    <3>1. Owned(k)' = Owned(k)
      BY <2>4, <2>5, <2>7, OwnedUnchanged
    <3>2. \A m \in Owned(k)' : Refers(r, m)
      BY <2>2, <2>3, <3>1 DEF Refers
    <3> QED
      BY <2>5, <2>6, <2>7, <3>2, LeadingCopy
  <2>8. CASE ~ok
    BY <2>4, <2>5, <2>6, <2>8, LoseTrackEffect, EmptyCopy
  <2> QED
    BY <2>7, <2>8
<1>2. CASE ServerCreate(k)
  <2>1. /\ pc'[k] = "response" /\ loc'[k] = loc[k]
        /\ loc[k].state = "creating" /\ loc[k].key \in Keys
    BY <1>2, GotoEffect DEF ServerCreate, CopyFits, PlaceFitsCopy
  <2>2. Owned(k)' \subseteq Owned(k) \cup {loc[k].key}
    BY <1>0, <1>2, <2>1 DEF ServerCreate, SetVM, Owned, Live, TypeOK
  <2> QED
    BY <1>0, <2>1, <2>2, LeadingCopy DEF PlaceFitsCopy, Refers
<1>3. CASE CreateReturns(k)
  <2> DEFINE r == [loc[k] EXCEPT !.vm = loc[k].key, !.state = "wait_ready"]
  <2>1. /\ pc'[k] = "attempt" /\ loc'[k] = r /\ Owned(k)' = Owned(k)
        /\ loc[k].state = "creating" /\ loc[k].key \in Keys
    BY <1>3, GotoEffect, SetLocEffect, OwnedUnchanged
    DEF CreateReturns, Record, CopyFits, PlaceFitsCopy
  <2>2. r.state = "wait_ready" /\ r.vm = loc[k].key
    BY <1>0, <2>1 DEF Records
  <2>3. \A n \in Owned(k)' : Refers(r, n)
    BY <1>0, <2>1, <2>2 DEF Refers, Attached
  <2> QED
    BY <2>1, <2>3, LeadingCopy DEF PlaceFitsCopy
<1>4. CASE CapacityReply(k)
  <2> DEFINE r == [loc[k] EXCEPT !.key = minted[k] + 1]
  <2>1. /\ loc[k].state = "creating" /\ vm[k][loc[k].key] = "rejected"
        /\ minted[k] + 1 \in Keys
    BY <1>0, <1>4, KeysAssumption DEF CapacityReply, CopyFits, PlaceFitsCopy, Keys
  <2>2. Owned(k) = {}
    BY <1>0, <2>1 DEF Refers, Attached
  <2>3. r.state = "creating" /\ r.key \in Keys
    BY <1>0, <2>1 DEF Records
  <2>4. \E p \in {"backoff", "gaveup", "failed"} : Goto(k, p)
    BY <1>4 DEF CapacityReply
  <2>5. /\ loc'[k] = r /\ pc'[k] \in {"backoff", "gaveup", "failed"}
        /\ Owned(k)' = Owned(k)
    BY <1>4, <2>4, GotoEffect, SetLocEffect, OwnedUnchanged DEF CapacityReply
  <2> QED
    BY <2>2, <2>3, <2>5, EmptyCopy DEF PlaceFitsCopy
<1>5. CASE RateLimited(k)
  <2>1. /\ loc[k].state = "creating" /\ loc[k].key \in Keys /\ vm[k][loc[k].key] = "unused"
        /\ \E p \in {"backoff", "gaveup"} : Goto(k, p)
    BY <1>5 DEF RateLimited, CopyFits, PlaceFitsCopy
  <2>2. /\ Owned(k) = {} /\ Owned(k)' = Owned(k) /\ loc'[k] = loc[k]
        /\ pc'[k] \in {"backoff", "gaveup"}
    BY <1>0, <1>5, <2>1, GotoEffect, OwnedUnchanged DEF RateLimited, Refers, Attached
  <2> QED
    BY <2>1, <2>2, EmptyCopy DEF PlaceFitsCopy
<1>6. CASE CreateFails(k)
  BY <1>6, GotoEffect, LoseTrackEffect, EmptyCopy DEF CreateFails, PlaceFitsCopy
<1>7. CASE BackoffEnds(k)
  <2>1. /\ pc[k] = "backoff" /\ pc'[k] = "create" /\ loc'[k] = loc[k]
        /\ Owned(k)' = {}
    BY <1>7, GotoEffect, OwnedUnchanged DEF BackoffEnds, CopyFits, NothingOwned
  <2> QED
    BY <2>1, EmptyCopy DEF CopyFits, PlaceFitsCopy
<1>8. CASE DropsRequest(k)
  BY <1>8, GotoEffect, OwnedUnchanged, EmptyCopy
  DEF DropsRequest, Finish, Return, CopyFits, NothingOwned, PlaceFitsCopy
<1> QED
  BY <1>1, <1>2, <1>3, <1>4, <1>5, <1>6, <1>7, <1>8 DEF CreateStep

\* as do the steps of a worker that does not stop.
LEMMA WorkerLeads ==
  ASSUME TypeOK, NEW k \in Jobs, CopyFits(k), svc = "up", Worker(k)
  PROVE  CopyFits(k)'
<1>0. /\ loc[k] \in Records
      /\ \A n \in Owned(k) : Refers(loc[k], n)
  BY DEF TypeOK, CopyFits, CopyLeads
<1>1. CASE Acquire(k) \/ StepFails(k)
  <2>1. /\ pc'[k] \in {"attempt", "cleanup"} /\ loc'[k] = loc[k] /\ Owned(k)' = Owned(k)
        /\ pc'[k] = "cleanup" => loc[k].state \in Attached
    BY <1>1, GotoEffect, OwnedUnchanged DEF Acquire, StepFails, Attached
  <2> QED
    BY <1>0, <2>1, LeadingCopy DEF PlaceFitsCopy
<1>2. ASSUME NEW to \in Attached, NEW p \in {"attempt", "delete"},
             Record(k, [loc[k] EXCEPT !.state = to], p), loc[k].state \in Attached,
             p = "delete" => to = "deleting", UNCHANGED <<vm, strays>>
      PROVE  CopyFits(k)'
  <2> DEFINE r == [loc[k] EXCEPT !.state = to]
  <2>1. pc'[k] = p /\ loc'[k] = r /\ Owned(k)' = Owned(k)
    BY <1>2, GotoEffect, SetLocEffect, OwnedUnchanged DEF Record
  <2>2. r.state = to /\ r.vm = loc[k].vm
    BY <1>0 DEF Records
  <2>3. \A n \in Owned(k)' : Refers(r, n)
    BY <1>0, <1>2, <2>1, <2>2 DEF Refers, Attached
  <2> QED
    BY <1>2, <2>1, <2>2, <2>3, LeadingCopy DEF PlaceFitsCopy
<1>3. CASE Ready(k) \/ Launched(k) \/ MarkRunning(k) \/ MonitorEnds(k)
  BY <1>2, <1>3 DEF Ready, Launched, MarkRunning, MonitorEnds, Advance, Attached
<1>4. CASE EnterDeleting(k)
  BY <1>2, <1>4 DEF EnterDeleting, Attached
<1>5. CASE CleanupDelete(k) \/ FinalDelete(k)
  <2>1. /\ pc'[k] \in {"failed", "deleted"} /\ loc'[k] = loc[k] /\ loc[k].state \in Attached
        /\ pc'[k] = "deleted" => loc[k].state = "deleting"
        /\ DeleteVM(k)
    BY <1>5, GotoEffect DEF CleanupDelete, FinalDelete, CopyFits, PlaceFitsCopy, Attached
  <2>2. Owned(k)' = {}
    <3>1. \A n \in Owned(k) : n = loc[k].vm
      BY <1>0, <2>1 DEF Refers, Attached
    <3>2. loc[k].vm \in 0..MaxKeys
      BY <1>0 DEF Records
    <3>3. CASE SetVM(k, loc[k].vm, "gone") /\ UNCHANGED strays
      <4>1. Owned(k)' = Owned(k) \ {loc[k].vm}
        BY <3>2, <3>3, GoneEffect
      <4> QED
        BY <3>1, <4>1
    <3> QED
      BY <2>1, <3>3, LoseTrackEffect DEF DeleteVM
  <2> QED
    BY <2>1, <2>2, EmptyCopy DEF PlaceFitsCopy
<1>6. CASE Complete(k) \/ GiveUpJob(k) \/ JobAlreadyFinished(k)
  <2>1. pc[k] \in {"deleted", "failed", "gaveup"} /\ pc'[k] = "idle" /\ UNCHANGED <<vm, strays>>
    BY <1>6, GotoEffect DEF Complete, GiveUpJob, JobAlreadyFinished, MayRetry, Finish, Return
  <2>2. Owned(k)' = {}
    BY <2>1, OwnedUnchanged DEF CopyFits, NothingOwned
  <2> QED
    BY <2>1, <2>2, EmptyCopy DEF PlaceFitsCopy
<1>7. CASE Retry(k) \/ PaceEnds(k)
  <2>1. pc[k] \in {"failed", "pace"} /\ pc'[k] \in {"pace", "attempt"} /\ UNCHANGED <<vm, strays>>
    BY <1>7, GotoEffect DEF Retry, PaceEnds, MayRetry, Record
  <2>2. Owned(k)' = {}
    BY <2>1, OwnedUnchanged DEF CopyFits, NothingOwned
  <2> QED
    BY <2>1, <2>2, EmptyCopy DEF PlaceFitsCopy
<1> QED
  BY <1>1, <1>3, <1>4, <1>5, <1>6, <1>7, CreateLeads DEF Worker, VMStep, RetryStep, StopsHere

\* A step that leaves workers and what they own alone, or takes VMs away.
LEMMA CopyKept ==
  ASSUME NEW j \in Jobs, CopyFits(j), pc'[j] = pc[j], loc'[j] = loc[j],
         Owned(j)' \subseteq Owned(j)
  PROVE  CopyFits(j)'
BY DEF CopyFits, NothingOwned, PlaceFitsCopy, CopyLeads

\* A VM is lost to its job.
LEMMA LossCopy ==
  ASSUME TypeOK, NEW j \in Jobs, CopyFits(j), NEW k \in Jobs, NEW n, SetVM(k, n, "gone"),
         UNCHANGED <<pc, loc, strays>>
  PROVE  CopyFits(j)'
<1>1. Owned(j)' \subseteq Owned(j)
  BY DEF SetVM, Owned, Live, TypeOK
<1> QED
  BY <1>1, CopyKept

\* A worker that starts, from whatever record, owns nothing yet.
LEMMA SpawnCopy ==
  ASSUME TypeOK, NEW j \in Jobs, CopyFits(j), NEW k \in Jobs, NEW r, Spawn(k, r),
         UNCHANGED <<vm, strays>>
  PROVE  CopyFits(j)'
<1>1. Owned(j)' = Owned(j)
  BY OwnedUnchanged
<1>2. CASE pc[k] = "idle" /\ j = k
  <2>1. Owned(j)' = {} /\ pc'[j] = "sem"
    BY <1>1, <1>2, GotoEffect DEF CopyFits, CopyLeads, Spawn
  <2> QED
    BY <2>1, EmptyCopy DEF PlaceFitsCopy
<1>3. CASE ~(pc[k] = "idle" /\ j = k)
  <2>1. pc'[j] = pc[j] /\ loc'[j] = loc[j]
    BY <1>3, GotoEffect, SetLocEffect DEF Spawn
  <2> QED
    BY <1>1, <2>1, CopyKept
<1> QED
  BY <1>2, <1>3

\* Only crashes and SIGTERMs count as stops.
LEMMA OnlyStopsCount ==
  [ServiceNext]_serviceVars => Crash \/ Sigterm \/ stops' = stops
<1> SUFFICES ASSUME [ServiceNext]_serviceVars, ~Crash, ~Sigterm
             PROVE  stops' = stops
  OBVIOUS
<1>1. CASE UNCHANGED serviceVars
  BY <1>1 DEF serviceVars, vars
<1>2. CASE Scales
  <2>1. ASSUME NEW k \in Jobs, Worker(k)
        PROVE  stops' = stops
    BY <2>1, WorkerKeepsEnv DEF env
  <2> QED
    BY <1>2, <2>1 DEF Scales, Submit, SubmitNew, SubmitLeftover, SubmitIgnored, VMVanishes,
       JobFinishes, Restart, RestartWithoutState
<1>3. CASE ServiceSubmit \/ ShutdownDone
  BY <1>3 DEF ServiceSubmit, SubmitSpawns, ShutdownDone
<1>4. CASE Looks
  BY <1>4, LooksOnly DEF vars
<1>5. CASE Deletion \/ \E k \in Jobs : Closing(k) \/ Adopt(k)
  BY <1>5 DEF Deletion, Reap, Redelete, Closing, Prune, PruneIf, Settle, Adopt, Adopts
<1> QED
  BY <1>1, <1>2, <1>3, <1>4, <1>5, ServiceSteps, SweepSteps

\* Until the first stop the copies lead to what the jobs own, at the start
LEMMA UnstoppedInitially == ServiceInit => UnstoppedInv
<1> SUFFICES ASSUME Init
             PROVE  svc = "up" /\ \A k \in Jobs : CopyFits(k)
  BY DEF ServiceInit, UnstoppedInv
<1>1. svc = "up" /\ \A k \in Jobs : Owned(k) = {} /\ pc[k] = "idle"
  BY DEF Init, Owned, Live
<1> QED
  BY <1>1 DEF CopyFits, NothingOwned, PlaceFitsCopy, CopyLeads

\* and after every step.
LEMMA UnstoppedInductive ==
  TypeInv /\ UnstoppedInv /\ [ServiceNext]_serviceVars => UnstoppedInv'
<1> SUFFICES ASSUME TypeInv, UnstoppedInv, [ServiceNext]_serviceVars, stops' = 0
             PROVE  svc' = "up" /\ \A j \in Jobs : CopyFits(j)'
  BY DEF UnstoppedInv
<1> DEFINE Goal == svc' = "up" /\ \A j \in Jobs : CopyFits(j)'
<1>0. TypeOK /\ stops \in Nat
  BY BoundsAssumption DEF TypeInv, TypeOK
<1>1. CASE Crash \/ Sigterm
  BY <1>0, <1>1 DEF Crash, Sigterm
<1>2. CASE ~(Crash \/ Sigterm)
  <2>1. stops = 0
    BY <1>2, OnlyStopsCount
  <2>2. svc = "up" /\ \A j \in Jobs : CopyFits(j)
    BY <2>1 DEF UnstoppedInv
  <2>3. ASSUME UNCHANGED <<svc, pc, loc, vm, strays>>
        PROVE  Goal
    BY <2>2, <2>3, OwnedUnchanged, CopyKept
  <2>4. CASE UNCHANGED serviceVars
    BY <2>3, <2>4 DEF serviceVars, vars
  <2>5. ASSUME NEW k \in Jobs, Submit(k)
        PROVE  Goal
    BY <2>3, <2>5 DEF Submit, SubmitNew, SubmitLeftover, SubmitIgnored
  <2>6. ASSUME NEW k \in Jobs, Worker(k)
        PROVE  Goal
    <3>1. svc' = "up"
      BY <2>2, <2>6, WorkerKeepsEnv DEF env
    <3>2. ASSUME NEW j \in Jobs, j # k
          PROVE  CopyFits(j)'
      <4>1. /\ pc'[j] = pc[j] /\ loc'[j] = loc[j] /\ Owned(j)' = Owned(j)
        BY <1>0, <2>6, <3>2, WorkerFrame, OwnedUnchanged
      <4> QED
        BY <2>2, <4>1, CopyKept
    <3>3. CopyFits(k)'
      BY <1>0, <2>2, <2>6, WorkerLeads
    <3> QED
      BY <3>1, <3>2, <3>3
  <2>7. ASSUME NEW k \in Jobs, VMVanishes(k) \/ JobFinishes(k)
        PROVE  Goal
    BY <1>0, <2>2, <2>3, <2>7, LossCopy DEF VMVanishes, JobFinishes
  <2>8. CASE Restart \/ RestartWithoutState \/ ShutdownDone
    BY <2>2, <2>8 DEF Restart, RestartWithoutState, ShutdownDone
  <2>9. CASE ServiceSubmit
    <3>1. CASE SubmitSpawns
      BY <1>0, <2>2, <3>1, SpawnCopy DEF SubmitSpawns
    <3>2. CASE ~SubmitSpawns
      BY <2>3, <2>9, <3>2 DEF ServiceSubmit
    <3> QED
      BY <3>1, <3>2
  <2>10. CASE Looks
    BY <2>3, <2>10, LooksOnly DEF vars
  <2>11. CASE Deletion
    BY <1>0, <2>2, <2>11, DeletionOfOne, LossCopy
  <2>12. ASSUME NEW k \in Jobs, Closing(k)
         PROVE  Goal
    BY <2>3, <2>12 DEF Closing, Prune, PruneIf, Settle
  <2>13. ASSUME NEW k \in Jobs, Adopt(k)
         PROVE  Goal
    BY <1>0, <2>2, <2>13, SpawnCopy DEF Adopt, Adopts
  <2> QED
    BY <1>2, <2>4, <2>5, <2>6, <2>7, <2>8, <2>9, <2>10, <2>11, <2>12, <2>13, ServiceSteps,
       SweepSteps DEF Scales
<1> QED
  BY <1>1, <1>2

(***************************************************************************)
(* A job is never given a second VM while the first is tracked: neither by *)
(* retries, replays, restarts and sweeps as long as no worker starts from  *)
(* a record that has changed since it was read, nor by such a worker as    *)
(* long as the process was not told to stop in the middle of a create      *)
(* (RunOnce, reconciler.go:121, does not look at the context).             *)
(***************************************************************************)
THEOREM OneVMUnlessStaleAndStopped == ServiceSpec => []OneVMUnlessStopped
<1>1. ServiceInv /\ UnstoppedInv => OneVMUnlessStopped
  <2> SUFFICES ASSUME ServiceInv, UnstoppedInv, stale = 0 \/ stops = 0
               PROVE  OneVMPerJob
    BY DEF OneVMUnlessStopped
  <2>1. CASE stale = 0
    BY <2>1, OwnsOne DEF ServiceInv, TypeInv, Undamaged, CoreInv
  <2>2. CASE stops = 0
    BY <2>2, RefersToOne DEF UnstoppedInv, CopyFits, CopyLeads, OneVMPerJob
  <2> QED
    BY <2>1, <2>2
<1>2. ServiceInv => TypeInv
  BY DEF ServiceInv
<1> QED
  BY <1>1, <1>2, UnstoppedInitially, UnstoppedInductive, ServiceInvariance, PTL DEF ServiceSpec

-----------------------------------------------------------------------------
(* What the orphan pass deletes.                                           *)

\* Records go on naming VMs that exist.
LEMMA LeaseInvInductive == LeaseInv /\ [ServiceNext]_serviceVars => LeaseInv'
<1> SUFFICES ASSUME LeaseInv, [ServiceNext]_serviceVars, stale' = 0, NEW j \in Jobs
             PROVE  LeaseFits(j)'
  BY ServiceInvInductive DEF LeaseInv
<1>0. TypeInv /\ TypeOK /\ Undamaged /\ CoreLInv /\ LeaseFits(j) /\ stale = 0
  BY StaleGrows, StaleAssumption
  DEF LeaseInv, ServiceInv, TypeInv, SweepTypeOK, Undamaged, CoreLInv, CoreInv
<1>1. ASSUME UNCHANGED <<recs, disk, vm, strays>>
      PROVE  LeaseFits(j)'
  BY <1>0, <1>1, LeaseKept DEF Created
<1>2. CASE UNCHANGED serviceVars
  BY <1>1, <1>2 DEF serviceVars, vars
<1>3. CASE Scales
  <2>1. CASE \E k \in Jobs : Submit(k) \/ Worker(k)
    BY <1>0, <2>1, SubmitKeepsLease, WorkerKeepsLease
  <2>2. CASE \E k \in Jobs : VMVanishes(k) \/ JobFinishes(k)
    BY <1>0, <1>1, <2>2, LossKeepsLease DEF VMVanishes, JobFinishes
  <2>3. CASE Sigterm \/ Restart \/ RestartWithoutState
    BY <1>0, <2>3, ProcessKeepsLease DEF Process
  <2> QED
    BY <1>3, <2>1, <2>2, <2>3 DEF Scales
<1>4. CASE ServiceSubmit
  BY <1>0, <1>1, <1>4, SubmitsCurrent
<1>5. CASE Crash \/ ShutdownDone
  BY <1>0, <1>5, ProcessKeepsLease DEF Process
<1>6. CASE Looks
  BY <1>1, <1>6, LooksOnly DEF vars
<1>7. CASE Deletion
  BY <1>0, <1>7, DeletionOfOne, LossKeepsLease
<1>8. ASSUME NEW k \in Jobs, Closing(k)
      PROVE  LeaseFits(j)'
  <2>1. PICK r : Closes(k, r)
    BY <1>0, <1>8, ClosingCloses
  <2>2. /\ recs'[k] = r /\ disk'[k] \in {r, disk[k]} /\ Names(k, r)
        /\ \A i \in Jobs \ {k} : recs'[i] = recs[i] /\ disk'[i] \in {disk[i], recs[i]}
    BY <1>0, <2>1, PersistEffect DEF Closes, Names, NoRecord, Attached
  <2> QED
    BY <1>0, <2>1, <2>2, LeaseKept DEF Closes, Created
<1>9. ASSUME NEW k \in Jobs, Adopt(k)
      PROVE  LeaseFits(j)'
  BY <1>0, <1>1, <1>9, AdoptsCurrent
<1> QED
  BY <1>2, <1>3, <1>4, <1>5, <1>6, <1>7, <1>8, <1>9, ServiceSteps, SweepSteps

LEMMA LeaseInvInitially == ServiceInit => LeaseInv
BY ServiceInvInitially, LInvInitially DEF ServiceInit, LInv, LeaseInv

(***************************************************************************)
(* What a worker's step does to the keys of its job: they are counted up,  *)
(* its record carries none that was not minted, and it does not come to    *)
(* refer to a VM of a key minted before.                                   *)
(***************************************************************************)
Mints(k) ==
  /\ minted[k] <= minted'[k] /\ \A j \in Jobs \ {k} : minted'[j] = minted[j]
  /\ recs'[k].key <= minted'[k]
  /\ \A n \in Keys : Refers(recs'[k], n) /\ n <= minted[k] => Refers(recs[k], n)

LEMMA SameKeyMints ==
  ASSUME TypeOK, NEW k \in Jobs, recs[k].key <= minted[k], NEW r, recs'[k] = r,
         r.key \in {0, recs[k].key}, UNCHANGED minted,
         \A n \in Keys : Refers(r, n) => Refers(recs[k], n)
  PROVE  Mints(k)
<1>1. minted[k] \in Nat
  BY KeysAssumption DEF TypeOK
<1> QED
  BY <1>1 DEF Mints

LEMMA CreateMints ==
  ASSUME CoreInv, NEW k \in Jobs, recs[k].key <= minted[k], CreateStep(k)
  PROVE  Mints(k)
<1>0. /\ TypeOK /\ loc[k] = recs[k] /\ recs[k] \in Records /\ pc[k] # "idle"
      /\ recs[k].state \in {"queued", "creating"} /\ minted[k] \in Nat
  BY KeysAssumption DEF CoreInv, JobInv, WorkersCopy, PlaceFitsState, TypeOK, CreateStep,
     BeginCreate, ServerCreate, CreateReturns, CapacityReply, RateLimited, CreateFails,
     BackoffEnds, DropsRequest
<1>1. CASE BeginCreate(k)
  <2> DEFINE n == IF NeedsKey(loc[k]) THEN minted[k] + 1 ELSE loc[k].key
             r == [loc[k] EXCEPT !.key = n, !.state = "creating"]
  <2>1. /\ NeedsKey(loc[k]) => n = minted[k] + 1 /\ minted'[k] = n
        /\ ~NeedsKey(loc[k]) => n = recs[k].key /\ minted'[k] = minted[k]
                                 /\ recs[k].state = "creating"
        /\ \A j \in Jobs \ {k} : minted'[j] = minted[j]
    BY <1>0, <1>1 DEF BeginCreate, NeedsKey, TypeOK
  <2>2. n \in 0..MaxKeys
    BY <1>0, <1>1, KeysAssumption DEF BeginCreate, TypeOK, Records
  <2>3. r \in Records /\ r.state = "creating" /\ r.key = n
    BY <1>0, <2>2, RecordTypes DEF JobStates, Records
  <2>4. recs'[k] = r
    <3>1. PICK ok \in BOOLEAN : Upsert(k, r, ok)
      BY <1>1 DEF BeginCreate, WriteOutcomes
    <3> QED
      BY <1>0, <2>3, <3>1, UpsertEffect
  <2> HIDE DEF n
  <2>5. CASE NeedsKey(loc[k])
    <3>1. n > minted[k]
      BY <1>0, <2>1, <2>5
    <3> QED
      BY <1>0, <2>1, <2>3, <2>4, <2>5, <3>1, KeysAssumption DEF Mints, Refers, Attached, Keys
  <2>6. CASE ~NeedsKey(loc[k])
    BY <1>0, <2>1, <2>3, <2>4, <2>6 DEF Mints, Refers, Attached
  <2> QED
    BY <2>5, <2>6
<1>2. CASE ServerCreate(k) \/ RateLimited(k) \/ CreateFails(k) \/ BackoffEnds(k)
  BY <1>0, <1>2, SameKeyMints DEF ServerCreate, RateLimited, CreateFails, BackoffEnds
<1>3. CASE CreateReturns(k)
  <2> DEFINE r == [loc[k] EXCEPT !.vm = loc[k].key, !.state = "wait_ready"]
  <2>1. /\ r \in Records /\ r.state = "wait_ready" /\ r.vm = recs[k].key
        /\ r.key = recs[k].key
    BY <1>0, <1>3, RecordTypes DEF CreateReturns, JobStates, Attached, Records
  <2>2. recs'[k] = r /\ UNCHANGED minted /\ recs[k].state = "creating"
    BY <1>0, <1>3, <2>1, RecordEffect DEF CreateReturns, CoreInv, JobInv, PlaceFitsState
  <2>3. \A n : Refers(r, n) => Refers(recs[k], n)
    BY <2>1, <2>2 DEF Refers
  <2> QED
    BY <1>0, <2>1, <2>2, <2>3, SameKeyMints
<1>4. CASE CapacityReply(k)
  <2> DEFINE r == [loc[k] EXCEPT !.key = minted[k] + 1]
  <2>1. /\ minted[k] + 1 \in 0..MaxKeys /\ minted'[k] = minted[k] + 1
        /\ \A j \in Jobs \ {k} : minted'[j] = minted[j] /\ recs[k].state = "creating"
    BY <1>0, <1>4, KeysAssumption DEF CapacityReply, TypeOK, CoreInv, JobInv, PlaceFitsState
  <2>2. recs[k].state = "creating"
    BY <1>4 DEF CapacityReply, CoreInv, JobInv, PlaceFitsState
  <2>3. r \in Records /\ r.state = "creating" /\ r.key = minted[k] + 1
    BY <1>0, <2>1, <2>2, RecordTypes DEF Records
  <2>4. PICK ok \in BOOLEAN : Upsert(k, r, ok)
    BY <1>4 DEF CapacityReply, WriteOutcomes
  <2>5. recs'[k] = r
    BY <1>0, <2>3, <2>4, UpsertEffect
  <2> QED
    BY <1>0, <2>1, <2>3, <2>5, KeysAssumption DEF Mints, Refers, Attached, Keys
<1>5. CASE DropsRequest(k)
  <2> DEFINE r == [loc[k] EXCEPT !.state = "complete"]
  <2>1. recs'[k] = r /\ r.state = "complete" /\ r.key = recs[k].key /\ UNCHANGED minted
    BY <1>0, <1>5, FinishEffect DEF DropsRequest, JobStates, TerminalStates, Records
  <2>2. \A n : ~Refers(r, n)
    BY <2>1 DEF Refers, Attached
  <2> QED
    BY <1>0, <2>1, <2>2, SameKeyMints
<1> QED
  BY <1>1, <1>2, <1>3, <1>4, <1>5 DEF CreateStep

LEMMA WorkerMints ==
  ASSUME CoreInv, NEW k \in Jobs, recs[k].key <= minted[k], Worker(k)
  PROVE  Mints(k)
<1>0. TypeOK /\ loc[k] = recs[k] /\ recs[k] \in Records /\ pc[k] # "idle"
  BY WorkerHasEffect DEF WorkerEffect, CoreInv, JobInv, WorkersCopy, TypeOK
<1>1. CASE \/ Acquire(k) \/ StopsHere(k) \/ StepFails(k) \/ CleanupDelete(k)
           \/ FinalDelete(k) \/ PaceEnds(k)
  BY <1>0, <1>1, SameKeyMints
  DEF Acquire, StopsHere, StepFails, CleanupDelete, FinalDelete, PaceEnds
<1>2. ASSUME NEW to \in Attached, NEW p, Record(k, [loc[k] EXCEPT !.state = to], p),
             loc[k].state \in Attached, UNCHANGED <<minted, vm, strays>>
      PROVE  Mints(k)
  <2> DEFINE r == [loc[k] EXCEPT !.state = to]
  <2>1. /\ r \in Records /\ r.state = to /\ r.vm = recs[k].vm /\ r.key = recs[k].key
    BY <1>0, <1>2, RecordTypes DEF JobStates, Records
  <2>2. recs'[k] = r
    BY <1>0, <1>2, <2>1, RecordEffect
  <2>3. \A n : Refers(r, n) => Refers(recs[k], n)
    BY <1>0, <1>2, <2>1 DEF Refers, Attached
  <2> QED
    BY <1>0, <1>2, <2>1, <2>2, <2>3, SameKeyMints
<1>3. CASE Ready(k) \/ Launched(k) \/ MarkRunning(k) \/ MonitorEnds(k)
  BY <1>2, <1>3 DEF Ready, Launched, MarkRunning, MonitorEnds, Advance, Attached
<1>4. CASE EnterDeleting(k)
  BY <1>2, <1>4 DEF EnterDeleting, Attached
<1>5. ASSUME NEW s \in TerminalStates, Finish(k, s), UNCHANGED <<minted, vm, strays>>
      PROVE  Mints(k)
  <2> DEFINE r == [loc[k] EXCEPT !.state = s]
  <2>1. recs'[k] = r /\ r.state = s /\ r.key = recs[k].key
    BY <1>0, <1>5, FinishEffect DEF JobStates, Records
  <2>2. \A n : ~Refers(r, n)
    BY <1>5, <2>1 DEF Refers, Attached, TerminalStates
  <2> QED
    BY <1>0, <1>5, <2>1, <2>2, SameKeyMints
<1>6. CASE Complete(k) \/ GiveUpJob(k) \/ JobAlreadyFinished(k)
  BY <1>5, <1>6 DEF Complete, GiveUpJob, JobAlreadyFinished, TerminalStates
<1>7. CASE Retry(k)
  <2> DEFINE r == [NewRecord EXCEPT !.retry = loc[k].retry + 1]
  <2>1. loc[k].retry + 1 \in 0..MaxRetries
    BY <1>0, <1>7, RetriesAssumption DEF Retry, MayRetry, Records
  <2>2. r \in Records /\ r.state = "queued" /\ r.key = 0
    BY <2>1, RecordTypes DEF NewRecord, NoRecord, Records
  <2>3. recs'[k] = r /\ UNCHANGED minted
    BY <1>0, <1>7, <2>2, RecordEffect DEF Retry
  <2>4. \A n : ~Refers(r, n)
    BY <2>2 DEF Refers, Attached
  <2> QED
    BY <1>0, <2>2, <2>3, <2>4, SameKeyMints
<1> QED
  BY <1>1, <1>3, <1>4, <1>6, <1>7, CreateMints DEF Worker, VMStep, RetryStep

\* What a step has to keep for the keys of a job to go on being minted ones.
LEMMA KeysKept ==
  ASSUME TypeOK, TypeOK', NEW j \in Jobs, KeysMinted(j), minted[j] <= minted'[j],
         recs'[j].key <= minted'[j], disk'[j] \in {disk[j], recs[j], recs'[j]},
         \A n \in Keys : vm'[j][n] # "unused" => vm[j][n] # "unused" \/ n <= minted[j]
  PROVE  KeysMinted(j)'
<1>0. /\ recs[j] \in Records /\ disk[j] \in Records /\ recs'[j] \in Records
      /\ minted[j] \in 0..MaxKeys /\ minted'[j] \in 0..MaxKeys
  BY DEF TypeOK
<1>1. /\ minted[j] \in Nat /\ minted'[j] \in Nat /\ Keys \subseteq Nat
      /\ recs[j].key \in Nat /\ disk[j].key \in Nat /\ recs'[j].key \in Nat
  BY <1>0, KeysAssumption DEF Records, Keys
<1>2. disk'[j].key <= minted'[j]
  BY <1>1 DEF KeysMinted
<1>3. ASSUME NEW n \in Keys, vm'[j][n] # "unused"
      PROVE  n <= minted'[j]
  BY <1>1, <1>3 DEF KeysMinted
<1> QED
  BY <1>2, <1>3 DEF KeysMinted

\* A worker keeps it,
LEMMA WorkerKeepsKeys ==
  ASSUME CoreLInv, TypeOK', NEW k \in Jobs, Worker(k), KeysMinted(k),
         NEW j \in Jobs, KeysMinted(j)
  PROVE  KeysMinted(j)'
<1>1. /\ WorkerEffect(k) /\ WorkerShape(k) /\ Mints(k) /\ TypeOK
      /\ minted[j] \in Nat /\ recs[j].key \in Nat
  BY WorkerHasEffect, WorkerHasShape, WorkerMints, KeysAssumption
  DEF CoreLInv, CoreInv, KeysMinted, TypeOK, Records
<1>2. CASE j # k
  <2>1. /\ recs'[j] = recs[j] /\ disk'[j] \in {disk[j], recs[j]} /\ vm'[j] = vm[j]
        /\ minted'[j] = minted[j]
    BY <1>1, <1>2 DEF WorkerEffect, OthersKept, Mints
  <2> QED
    BY <1>1, <2>1, KeysKept DEF KeysMinted
<1>3. CASE j = k
  <2>1. disk'[k] \in {disk[k], recs'[k]}
    BY <1>1 DEF WorkerShape, Writes, Touches
  <2>2. ASSUME NEW n \in Keys, vm'[k][n] # "unused", vm[k][n] = "unused"
        PROVE  n <= minted[k]
    BY <1>1, <2>2 DEF WorkerShape, Writes, Touches, Hides, Deletes, Asks, SetVM, Created, TypeOK,
       KeysMinted
  <2> QED
    BY <1>1, <1>3, <2>1, <2>2, KeysKept DEF Mints
<1> QED
  BY <1>2, <1>3

\* and a VM that was created never comes back.
LEMMA WorkerKeepsGone ==
  ASSUME CoreLInv, NEW k \in Jobs, Worker(k), NEW j \in Jobs, NEW n \in Keys, vm[j][n] = "gone"
  PROVE  vm'[j][n] = "gone"
<1>1. TypeOK /\ WorkerEffect(k) /\ WorkerShape(k)
  BY WorkerHasEffect, WorkerHasShape DEF CoreLInv, CoreInv
<1>2. CASE j # k
  BY <1>1, <1>2 DEF WorkerEffect, OthersKept
<1>3. CASE j = k
  BY <1>1, <1>3 DEF WorkerShape, Writes, Touches, Hides, Deletes, Asks, SetVM, TypeOK
<1> QED
  BY <1>2, <1>3

\* The facts the steps below start from.
LEMMA ListFacts ==
  ASSUME ListInv, stale' = 0, [ServiceNext]_serviceVars
  PROVE  /\ stale = 0 /\ TypeInv /\ TypeOK /\ TypeOK' /\ Undamaged /\ CoreLInv /\ CoreInv
         /\ NoSweepWhenDown /\ SweepTypeOK
         /\ (\A k \in Jobs : KeysMinted(k)) /\ ListedExist
BY StaleGrows, StaleAssumption, TypeInvInductive
DEF ListInv, LeaseInv, ServiceInv, TypeInv, SweepTypeOK, Undamaged, CoreLInv, CoreInv

\* What was created stays so, and what is gone stays gone, in the service, too.
LEMMA ServiceKeepsVMs ==
  ASSUME ListInv, stale' = 0, [ServiceNext]_serviceVars, NEW j \in Jobs, NEW n \in Keys
  PROVE  /\ Created(j, n) => Created(j, n)'
         /\ vm[j][n] = "gone" => vm'[j][n] = "gone"
<1> DEFINE Kept == /\ Created(j, n) => Created(j, n)'
                   /\ vm[j][n] = "gone" => vm'[j][n] = "gone"
<1>0. TypeInv /\ TypeOK /\ Undamaged /\ CoreLInv /\ stale = 0
  BY ListFacts
<1>1. ASSUME UNCHANGED vm
      PROVE  Kept
  BY <1>1 DEF Created
<1>2. ASSUME NEW k \in Jobs, NEW m, SetVM(k, m, "gone")
      PROVE  Kept
  BY <1>0, <1>2 DEF SetVM, Created, TypeOK
<1>3. ASSUME NEW k \in Jobs, Worker(k)
      PROVE  Kept
  BY <1>0, <1>3, CreatedStays, WorkerKeepsGone
<1>4. CASE UNCHANGED serviceVars \/ Looks
  BY <1>1, <1>4, LooksOnly DEF serviceVars, vars
<1>5. ASSUME NEW k \in Jobs, Submit(k) \/ JobFinishes(k)
      PROVE  Kept
  BY <1>1, <1>5 DEF Submit, SubmitNew, SubmitLeftover, SubmitIgnored, JobFinishes
<1>6. ASSUME NEW k \in Jobs, VMVanishes(k)
      PROVE  Kept
  BY <1>2, <1>6 DEF VMVanishes
<1>7. CASE Sigterm \/ Restart \/ RestartWithoutState \/ Crash \/ ShutdownDone
  BY <1>1, <1>7 DEF Sigterm, Restart, RestartWithoutState, Crash, ShutdownDone
<1>8. CASE ServiceSubmit
  BY <1>1, <1>8 DEF ServiceSubmit, SubmitSpawns
<1>9. CASE Deletion
  BY <1>0, <1>2, <1>9, DeletionOfOne
<1>10. ASSUME NEW k \in Jobs, Closing(k) \/ Adopt(k)
       PROVE  Kept
  BY <1>1, <1>10 DEF Closing, Prune, PruneIf, Settle, Adopt, Adopts
<1> QED
  BY <1>3, <1>4, <1>5, <1>6, <1>7, <1>8, <1>9, <1>10, ServiceSteps, SweepSteps DEF Scales

\* So the keys that records and VMs carry are minted ones after every step,
LEMMA ServiceKeepsKeys ==
  ASSUME ListInv, stale' = 0, [ServiceNext]_serviceVars, NEW j \in Jobs
  PROVE  KeysMinted(j)'
<1>0. /\ TypeInv /\ TypeOK /\ TypeOK' /\ Undamaged /\ CoreLInv /\ stale = 0 /\ KeysMinted(j)
      /\ minted[j] \in Nat /\ NoRecord.key = 0
  BY ListFacts, KeysAssumption DEF TypeOK, NoRecord
<1>1. ASSUME UNCHANGED minted, recs'[j].key \in {recs[j].key, disk[j].key, 0},
             disk'[j] \in {disk[j], recs[j], recs'[j]},
             \A n \in Keys : vm'[j][n] # "unused" => vm[j][n] # "unused"
      PROVE  KeysMinted(j)'
  <2>1. recs'[j].key <= minted'[j]
    BY <1>0, <1>1 DEF KeysMinted
  <2> QED
    BY <1>0, <1>1, <2>1, KeysKept
<1>2. ASSUME UNCHANGED <<recs, disk, vm, minted>>
      PROVE  KeysMinted(j)'
  BY <1>1, <1>2
<1>3. ASSUME NEW k \in Jobs, NEW m \in Live(k), SetVM(k, m, "gone"),
             UNCHANGED <<recs, disk, minted>>
      PROVE  KeysMinted(j)'
  <2>1. \A n \in Keys : vm'[j][n] # "unused" => vm[j][n] # "unused"
    BY <1>0, <1>3 DEF SetVM, Live, TypeOK
  <2> QED
    BY <1>1, <1>3, <2>1
<1>4. CASE UNCHANGED serviceVars \/ Looks
  BY <1>2, <1>4, LooksOnly DEF serviceVars, vars
<1>5. ASSUME NEW k \in Jobs, Worker(k)
      PROVE  KeysMinted(j)'
  BY <1>0, <1>5, ListFacts, WorkerKeepsKeys
<1>6. ASSUME NEW k \in Jobs, Submit(k)
      PROVE  KeysMinted(j)'
  <2>1. CASE SubmitNew(k)
    <3>1. PICK ok \in BOOLEAN : Upsert(k, NewRecord, ok)
      BY <2>1 DEF SubmitNew, WriteOutcomes
    <3>2. /\ recs'[k] = NewRecord /\ disk'[k] \in {NewRecord, disk[k]}
          /\ j # k => recs'[j] = recs[j] /\ disk'[j] \in {disk[j], recs[j]}
          /\ NewRecord.key = 0
      BY <1>0, <3>1, NewRecordEffect DEF NewRecord, NoRecord
    <3> QED
      BY <1>1, <2>1, <3>2 DEF SubmitNew
  <2>2. CASE SubmitLeftover(k) \/ SubmitIgnored(k)
    BY <1>2, <2>2 DEF SubmitLeftover, SubmitIgnored
  <2> QED
    BY <1>6, <2>1, <2>2 DEF Submit
<1>7. ASSUME NEW k \in Jobs, VMVanishes(k) \/ JobFinishes(k)
      PROVE  KeysMinted(j)'
  BY <1>2, <1>3, <1>7 DEF VMVanishes, JobFinishes
<1>8. CASE Crash \/ Sigterm \/ ShutdownDone
  BY <1>0, <1>1, <1>8 DEF Crash, Sigterm, ShutdownDone, LoseMemory
<1>9. CASE Restart \/ RestartWithoutState
  BY <1>1, <1>9 DEF Restart, RestartWithoutState
<1>10. CASE ServiceSubmit
  BY <1>2, <1>10 DEF ServiceSubmit, SubmitSpawns
<1>11. CASE Deletion
  <2>1. /\ SetVM(aim[1], aim[2], "gone") /\ aim[1] \in Jobs /\ aim[2] \in Keys
        /\ UNCHANGED <<recs, disk, minted>>
    BY <1>0, <1>11, DeletionOfOne
  <2>2. Created(aim[1], aim[2])
    BY <1>11, ListFacts DEF Deletion, Reap, Redelete, SweepTypeOK, ListedExist
  <2>3. \A n \in Keys : vm'[j][n] # "unused" => vm[j][n] # "unused"
    BY <1>0, <2>1, <2>2 DEF SetVM, Created, TypeOK
  <2> QED
    BY <1>1, <2>1, <2>3
<1>12. ASSUME NEW k \in Jobs, Closing(k)
       PROVE  KeysMinted(j)'
  <2>1. PICK r : Closes(k, r)
    BY <1>0, <1>12, ClosingCloses
  <2>2. /\ recs'[k] = r /\ disk'[k] \in {r, disk[k]}
        /\ j # k => recs'[j] = recs[j] /\ disk'[j] \in {disk[j], recs[j]}
        /\ UNCHANGED <<minted, vm>>
    BY <1>0, <2>1, PersistEffect DEF Closes
  <2>3. r.key \in {recs[k].key, 0}
    BY <1>0, <1>12, <2>1 DEF Closes, TypeOK, Records
  <2> QED
    BY <1>1, <2>2, <2>3
<1>13. ASSUME NEW k \in Jobs, Adopt(k)
       PROVE  KeysMinted(j)'
  BY <1>2, <1>13 DEF Adopt, Adopts
<1> QED
  BY <1>4, <1>5, <1>6, <1>7, <1>8, <1>9, <1>10, <1>11, <1>12, <1>13, ServiceSteps, SweepSteps
  DEF Scales

\* what the sweep listed was created,
LEMMA ServiceKeepsListing ==
  ASSUME ListInv, stale' = 0, [ServiceNext]_serviceVars
  PROVE  ListedExist'
<1>0. SweepTypeOK /\ ListedExist /\ NoSweepWhenDown
  BY ListFacts
<1>1. ASSUME NEW v \in listed'
      PROVE  Created(v[1], v[2])'
  <2>1. v \in listed \/ (v \in VMs /\ v[2] \in Live(v[1]))
    <3>1. CASE BeginSweep
      BY <1>1, <3>1 DEF BeginSweep
    <3>2. CASE ~BeginSweep
      <4>1. listed' \in {listed, {}}
        <5>1. CASE UNCHANGED serviceVars \/ UNCHANGED sweep \/ ForgetSweep
          BY <5>1 DEF serviceVars, sweep, ForgetSweep
        <5>2. CASE Looks
          BY <3>2, <5>2 DEF Looks, DeleteCallFails, ListRecords, SweepDone, Look, SkipActive, Keep,
             BeginRedelete
        <5>3. CASE Deletion \/ \E k \in Jobs : Closing(k) \/ Adopt(k)
          BY <5>3 DEF Deletion, Reap, Redelete, Closing, Prune, PruneIf, Settle, Adopt, Adopts
        <5> QED
          BY <5>1, <5>2, <5>3, ServiceSteps, SweepSteps
      <4> QED
        BY <1>1, <4>1
    <3> QED
      BY <3>1, <3>2
  <2>2. v[1] \in Jobs /\ v[2] \in Keys /\ Created(v[1], v[2])
    BY <1>0, <2>1 DEF SweepTypeOK, VMs, ListedExist, Live, Created
  <2> QED
    BY <2>2, ServiceKeepsVMs
<1>2. ASSUME place' = "redelete"
      PROVE  aim' \in listed'
  <2>1. CASE UNCHANGED serviceVars \/ UNCHANGED sweep
    BY <1>0, <1>2, <2>1 DEF serviceVars, sweep, ListedExist
  <2>2. CASE ServiceSubmit /\ UNCHANGED <<place, listed, pending, seen, snap, aim, pruned>>
    BY <1>0, <1>2, <2>2 DEF ListedExist
  <2>3. CASE Looks
    BY <1>2, <2>3 DEF Looks, BeginSweep, DeleteCallFails, ListRecords, SweepDone, Look, SkipActive,
       Keep, BeginRedelete, Walks
  <2>4. CASE ForgetSweep \/ Deletion \/ \E k \in Jobs : Closing(k) \/ Adopt(k)
    BY <1>2, <2>4 DEF ForgetSweep, Deletion, Reap, Redelete, Closing, Prune, PruneIf, Settle,
       Adopt, Adopts, Walks
  <2> QED
    BY <2>1, <2>2, <2>3, <2>4, ServiceSteps, SweepSteps
<1> QED
  BY <1>1, <1>2 DEF ListedExist, Created

(***************************************************************************)
(* A worker waits for its slot only when the others leave none, which they *)
(* do if there are more jobs than slots.  Otherwise, a VM whose grace is   *)
(* over and that no record names is not one whose create is pending.       *)
(***************************************************************************)
LEMMA NobodyWaits ==
  ASSUME Cardinality(Jobs) <= MaxConcurrentVMs, NEW k \in Jobs, ~HoldsSlot(k)
  PROVE  SlotFree
<1> DEFINE H == {j \in Jobs : HoldsSlot(j)}
<1>1. H \subseteq Jobs \ {k} /\ IsFiniteSet(Jobs)
  BY JobsAssumption
<1>2. IsFiniteSet(Jobs \ {k}) /\ Cardinality(Jobs \ {k}) = Cardinality(Jobs) - 1
  BY <1>1, FS_RemoveElement
<1>3. Cardinality(H) <= Cardinality(Jobs \ {k}) /\ Cardinality(H) \in Nat
  BY <1>1, <1>2, FS_Subset, FS_CardinalityType
<1>4. Cardinality(Jobs) \in Nat /\ MaxConcurrentVMs \in Nat
  BY <1>1, FS_CardinalityType, FleetAssumption
<1>5. Cardinality(H) < MaxConcurrentVMs
  BY <1>2, <1>3, <1>4
<1> QED
  BY <1>5 DEF SlotFree

LEMMA LookLost ==
  ASSUME TypeInv, Undamaged, svc = "up", NEW k \in Jobs, NEW n, ~HasVM(k, n), GraceOver(k, n),
         Cardinality(Jobs) <= MaxConcurrentVMs \/ WaitFits(k)
  PROVE  ~Refers(recs[k], n)
<1> SUFFICES ASSUME recs[k].state = "creating", recs[k].key = n
             PROVE  FALSE
  BY DEF HasVM, InFlight, Refers, Terminal, TerminalStates, Attached
<1>1. pc[k] # "idle" /\ loc[k] = recs[k]
  BY DEF Undamaged, JobInv, WorkersCopy, SweepFits, HasWorker
<1>2. ~HoldsSlot(k) /\ pc[k] = "sem" /\ ~SlotFree
  BY <1>1 DEF GraceOver, HoldsSlot
<1> QED
  BY <1>2, NobodyWaits DEF WaitFits

\* While the process is up nobody comes to refer to such a VM again.
LEMMA StaysLost ==
  ASSUME ListInv, stale' = 0, [ServiceNext]_serviceVars, svc = "up", Scales \/ ServiceSubmit,
         NEW j \in Jobs, NEW n \in Keys, Created(j, n), ~Refers(recs[j], n)
  PROVE  ~Refers(recs'[j], n)
<1>0. TypeOK /\ CoreInv /\ n <= minted[j] /\ \A k \in Jobs : KeysMinted(k)
  BY ListFacts DEF KeysMinted, Created
<1>1. ASSUME NEW k \in Jobs, Worker(k)
      PROVE  ~Refers(recs'[j], n)
  <2>1. WorkerEffect(k) /\ Mints(k)
    BY <1>0, <1>1, WorkerHasEffect, WorkerMints DEF KeysMinted
  <2> QED
    BY <1>0, <2>1 DEF WorkerEffect, OthersKept, Mints
<1>2. ASSUME NEW k \in Jobs, Submit(k)
      PROVE  ~Refers(recs'[j], n)
  <2>1. CASE SubmitNew(k)
    <3>1. PICK ok \in BOOLEAN : Upsert(k, NewRecord, ok)
      BY <2>1 DEF SubmitNew, WriteOutcomes
    <3>2. recs'[k] = NewRecord /\ (j # k => recs'[j] = recs[j])
      BY <1>0, <3>1, NewRecordEffect
    <3> QED
      BY <3>2 DEF Refers, NewRecord, NoRecord, Attached
  <2>2. CASE SubmitLeftover(k) \/ SubmitIgnored(k)
    BY <2>2 DEF SubmitLeftover, SubmitIgnored
  <2> QED
    BY <1>2, <2>1, <2>2 DEF Submit
<1>3. CASE ServiceSubmit
  BY <1>3 DEF ServiceSubmit, SubmitSpawns
<1>4. CASE (\E k \in Jobs : VMVanishes(k) \/ JobFinishes(k))
             \/ Sigterm \/ Restart \/ RestartWithoutState
  BY <1>4 DEF VMVanishes, JobFinishes, Sigterm, Restart, RestartWithoutState
<1> QED
  BY <1>1, <1>2, <1>3, <1>4 DEF Scales

\* So what the orphan pass is about to delete, while the process is up and the
\* VM lives, is a VM no record refers to.
LEMMA ServiceAimsLost ==
  ASSUME ListInv, AimLost, stale' = 0, [ServiceNext]_serviceVars,
         Cardinality(Jobs) <= MaxConcurrentVMs \/ \A k \in Jobs : WaitFits(k)
  PROVE  AimLost'
<1>0. /\ TypeInv /\ TypeOK /\ TypeOK' /\ Undamaged /\ CoreInv /\ SweepTypeOK /\ NoSweepWhenDown
      /\ ListedExist
  BY ListFacts
<1>1. ASSUME place' # "reap"
      PROVE  AimLost'
  BY <1>1 DEF AimLost
<1>2. CASE UNCHANGED serviceVars
  BY <1>0, <1>2 DEF serviceVars, vars, sweep, AimLost, Live, Refers
<1>3. ASSUME Scales \/ ServiceSubmit, UNCHANGED <<place, aim>>
      PROVE  AimLost'
  <2>0. PICK j, n : j = aim[1] /\ n = aim[2]
    OBVIOUS
  <2> SUFFICES ASSUME place = "reap", svc' = "up", n \in Live(j)'
               PROVE  ~Refers(recs'[j], n)
    BY <1>3, <2>0 DEF AimLost, Refers, Live
  <2>1. j \in Jobs /\ n \in Keys /\ Created(j, n)
    BY <1>0, <2>0 DEF SweepTypeOK, VMs, ListedExist
  <2>2. n \in Live(j)
    <3>1. vm'[j][n] = "live"
      BY DEF Live
    <3> QED
      BY <1>0, <2>1, <3>1, ServiceKeepsVMs DEF Created, Live
  <2>3. svc = "up"
    <3>1. svc # "down"
      BY <1>0 DEF NoSweepWhenDown
    <3> QED
      BY <1>3, <3>1, WorkerKeepsEnv
      DEF Scales, ServiceSubmit, SubmitSpawns, Submit, SubmitNew, SubmitLeftover, SubmitIgnored,
          env, VMVanishes, JobFinishes, Sigterm, Restart, RestartWithoutState
  <2> QED
    BY <1>0, <1>3, <2>0, <2>1, <2>2, <2>3, StaysLost DEF AimLost
<1>4. ASSUME NEW v \in pending, Look(v)
      PROVE  AimLost'
  <2> SUFFICES ASSUME place' = "reap", svc = "up"
               PROVE  ~Refers(recs'[aim'[1]], aim'[2])
    BY <1>4 DEF Look, scaler, AimLost, Refers
  <2>1. v \in VMs /\ recs' = recs /\ aim' = v /\ ~HasVM(v[1], v[2]) /\ GraceOver(v[1], v[2])
    BY <1>0, <1>4 DEF Look, scaler, SweepTypeOK
  <2> QED
    BY <1>0, <2>1, LookLost DEF VMs
<1>5. ASSUME Looks, \A v \in pending : ~Look(v)
      PROVE  AimLost'
  BY <1>1, <1>5 DEF Looks, BeginSweep, DeleteCallFails, ListRecords, SweepDone, SkipActive, Keep,
     BeginRedelete, Walks
<1>6. ASSUME ForgetSweep \/ Deletion \/ \E k \in Jobs : Closing(k) \/ Adopt(k)
      PROVE  AimLost'
  BY <1>1, <1>6 DEF ForgetSweep, Deletion, Reap, Redelete, Closing, Prune, PruneIf, Settle, Adopt,
     Adopts, Walks
<1> QED
  BY <1>2, <1>3, <1>4, <1>5, <1>6, ServiceSteps, SweepSteps DEF sweep

\* The invariants hold at the start and after every step.
LEMMA ListInvInductive == ListInv /\ [ServiceNext]_serviceVars => ListInv'
<1> SUFFICES ASSUME ListInv, [ServiceNext]_serviceVars
             PROVE  ListInv'
  OBVIOUS
<1>1. LeaseInv'
  BY LeaseInvInductive DEF ListInv
<1>2. ASSUME stale' = 0
      PROVE  (\A j \in Jobs : KeysMinted(j)') /\ ListedExist'
  BY <1>2, ServiceKeepsKeys, ServiceKeepsListing
<1> QED
  BY <1>1, <1>2 DEF ListInv

LEMMA ListInvInitially == ServiceInit => ListInv
<1> SUFFICES ASSUME ServiceInit
             PROVE  (\A k \in Jobs : KeysMinted(k)) /\ ListedExist
  BY LeaseInvInitially DEF ListInv
<1>1. ListedExist
  BY DEF ServiceInit, ListedExist
<1> QED
  BY <1>1 DEF ServiceInit, Init, KeysMinted, NoRecord

LEMMA OrphanInvInductive ==
  ASSUME Cardinality(Jobs) <= MaxConcurrentVMs
  PROVE  OrphanInv /\ [ServiceNext]_serviceVars => OrphanInv'
<1> SUFFICES ASSUME OrphanInv, [ServiceNext]_serviceVars
             PROVE  OrphanInv'
  OBVIOUS
<1>1. stale' = 0 => AimLost'
  BY ListFacts, ServiceAimsLost DEF OrphanInv
<1> QED
  BY <1>1, ListInvInductive DEF OrphanInv

LEMMA OrphanInvInitially == ServiceInit => OrphanInv
BY ListInvInitially DEF ServiceInit, OrphanInv, AimLost

\* What a DELETE of the orphan pass does not take once its VM is known to be lost.
LEMMA LostMeansUnreferred ==
  ASSUME ListInv, stale = 0, AimLost, Reap, aim[2] \in Live(aim[1])
  PROVE  /\ ~Refers(recs[aim[1]], aim[2])
         /\ Refers(disk[aim[1]], aim[2]) => aim[2] \in strays[aim[1]]
<1>1. TypeInv /\ Undamaged /\ place = "reap" /\ svc = "up"
  BY DEF ListInv, LeaseInv, ServiceInv, Reap
<1>2. aim[1] \in Jobs /\ ~Refers(recs[aim[1]], aim[2])
  BY <1>1 DEF TypeInv, SweepTypeOK, VMs, AimLost
<1> QED
  BY <1>1, <1>2 DEF Undamaged, JobInv, Tracked, Owned

(***************************************************************************)
(* The orphan pass only takes VMs that the service has lost track of, and  *)
(* none of which a record still in use gives the name or the key, whatever *)
(* happened between its listing, its look at the records and its DELETE    *)
(* (orphanSweep, reconciler.go), as long as no job has to wait for a slot: *)
(* a worker that waits for one may hold the key of a VM for longer than    *)
(* any grace.                                                              *)
(***************************************************************************)
THEOREM OrphansOnly ==
  ASSUME Cardinality(Jobs) <= MaxConcurrentVMs
  PROVE  ServiceSpec => OnlyOrphansReaped
<1> DEFINE Lost == stale = 0 /\ Reap /\ aim[2] \in Live(aim[1])
                     => /\ ~Refers(recs[aim[1]], aim[2])
                        /\ Refers(disk[aim[1]], aim[2]) => aim[2] \in strays[aim[1]]
<1>1. OrphanInv => Lost
  BY LostMeansUnreferred DEF OrphanInv
<1>2. OrphanInv /\ [ServiceNext]_serviceVars => OrphanInv'
  BY OrphanInvInductive
<1> HIDE DEF Lost
<1>3. ServiceSpec => [][Lost]_serviceVars
  BY <1>1, <1>2, OrphanInvInitially, PTL DEF ServiceSpec
<1> QED
  BY <1>3 DEF OnlyOrphansReaped, Lost

(***************************************************************************)
(* With fewer slots than jobs the same holds until the first stop: nobody  *)
(* starts a worker from a record in creating or beyond.                    *)
(***************************************************************************)
LEMMA SpawnWaits ==
  ASSUME TypeOK, NEW j \in Jobs, WaitFits(j), HasWorker(j), svc = "up", UNCHANGED recs,
         UNCHANGED <<pc, loc>> \/ \E k \in Jobs : pc[k] = "idle" /\ Spawn(k, recs[k])
  PROVE  WaitFits(j)'
<1>1. pc'[j] = pc[j] \/ pc[j] = "idle"
  BY DEF Spawn, Goto, TypeOK
<1> QED
  BY <1>1 DEF WaitFits, HasWorker

LEMMA ServiceWaits ==
  ASSUME ListInv, stale' = 0, [ServiceNext]_serviceVars, svc = "up", ~Crash, ~Sigterm,
         NEW j \in Jobs, WaitFits(j)
  PROVE  WaitFits(j)'
<1>0. /\ stale = 0 /\ TypeInv /\ TypeOK /\ Undamaged /\ CoreInv /\ JobInv(j) /\ HasWorker(j)
  BY ListFacts DEF Undamaged, SweepFits
<1>1. ASSUME UNCHANGED <<recs, pc>>
      PROVE  WaitFits(j)'
  BY <1>1 DEF WaitFits
<1>2. CASE UNCHANGED serviceVars
  BY <1>1, <1>2 DEF serviceVars, vars
<1>3. ASSUME NEW k \in Jobs, Worker(k)
      PROVE  WaitFits(j)'
  <2>1. CASE j = k
    <3>1. pc'[j] # "sem"
      <4>1. CASE Acquire(j)
        BY <1>0, <4>1, GotoEffect DEF Acquire
      <4> QED
        BY <1>0, <1>3, <2>1, <4>1, WorkerGoes
    <3> QED
      BY <3>1 DEF WaitFits
  <2>2. CASE j # k
    <3>1. pc'[j] = pc[j] /\ recs'[j] = recs[j]
      BY <1>0, <1>3, <2>2, WorkerHasEffect DEF WorkerEffect, OthersKept
    <3> QED
      BY <3>1 DEF WaitFits
  <2> QED
    BY <2>1, <2>2
<1>4. ASSUME NEW k \in Jobs, Submit(k)
      PROVE  WaitFits(j)'
  <2>1. CASE SubmitNew(k)
    <3>1. PICK ok \in BOOLEAN : Upsert(k, NewRecord, ok)
      BY <2>1 DEF SubmitNew, WriteOutcomes
    <3>2. recs'[k] = NewRecord /\ (j # k => recs'[j] = recs[j]) /\ pc' = pc /\ pc[k] = "idle"
      BY <1>0, <2>1, <3>1, NewRecordEffect DEF SubmitNew
    <3> QED
      BY <3>2 DEF WaitFits
  <2>2. CASE SubmitLeftover(k) \/ SubmitIgnored(k)
    BY <1>1, <2>2 DEF SubmitLeftover, SubmitIgnored
  <2> QED
    BY <1>4, <2>1, <2>2 DEF Submit
<1>5. CASE ServiceSubmit
  BY <1>0, <1>5, SubmitsCurrent, SpawnWaits
<1>6. CASE (\E k \in Jobs : VMVanishes(k) \/ JobFinishes(k)) \/ Restart \/ RestartWithoutState
             \/ ShutdownDone
  BY <1>1, <1>6 DEF VMVanishes, JobFinishes, Restart, RestartWithoutState, ShutdownDone
<1>7. CASE Looks
  BY <1>1, <1>7, LooksOnly DEF vars
<1>8. CASE Deletion
  BY <1>0, <1>1, <1>8, DeletionOfOne
<1>9. ASSUME NEW k \in Jobs, Closing(k)
      PROVE  WaitFits(j)'
  <2>1. PICK r : Closes(k, r)
    BY <1>0, <1>9, ClosingCloses
  <2>2. pc[k] = "idle" /\ pc' = pc /\ \A i \in Jobs \ {k} : recs'[i] = recs[i]
    BY <1>0, <2>1, PersistEffect DEF Closes
  <2> QED
    BY <2>2 DEF WaitFits
<1>10. ASSUME NEW k \in Jobs, Adopt(k)
       PROVE  WaitFits(j)'
  BY <1>0, <1>10, AdoptsCurrent, SpawnWaits
<1> QED
  BY <1>2, <1>3, <1>4, <1>5, <1>6, <1>7, <1>8, <1>9, <1>10, ServiceSteps, SweepSteps DEF Scales

LEMMA EarlyInvInductive == EarlyInv /\ [ServiceNext]_serviceVars => EarlyInv'
<1> SUFFICES ASSUME EarlyInv, [ServiceNext]_serviceVars
             PROVE  EarlyInv'
  OBVIOUS
<1>1. ListInv /\ UnstoppedInv /\ TypeInv /\ stops \in Nat
  BY BoundsAssumption DEF EarlyInv, ListInv, LeaseInv, ServiceInv, TypeInv, TypeOK
<1>2. ListInv' /\ UnstoppedInv'
  BY <1>1, ListInvInductive, UnstoppedInductive
<1>3. ASSUME stale' = 0, stops' = 0
      PROVE  AimLost' /\ \A k \in Jobs : WaitFits(k)'
  <2>1. stale = 0 /\ stops = 0 /\ ~Crash /\ ~Sigterm
    BY <1>1, <1>3, OnlyStopsCount, ListFacts DEF Crash, Sigterm
  <2>2. svc = "up" /\ AimLost /\ \A k \in Jobs : WaitFits(k)
    BY <1>1, <2>1 DEF EarlyInv, UnstoppedInv
  <2> QED
    BY <1>1, <1>3, <2>1, <2>2, ServiceAimsLost, ServiceWaits
<1> QED
  BY <1>2, <1>3 DEF EarlyInv

LEMMA EarlyInvInitially == ServiceInit => EarlyInv
<1> SUFFICES ASSUME ServiceInit
             PROVE  EarlyInv
  OBVIOUS
<1>1. AimLost /\ \A k \in Jobs : WaitFits(k)
  BY DEF ServiceInit, Init, AimLost, WaitFits
<1> QED
  BY <1>1, ListInvInitially, UnstoppedInitially DEF EarlyInv

(***************************************************************************)
(* So the orphan pass only takes what the service has lost track of,       *)
(* however few slots there are, up to the first crash or SIGTERM.          *)
(***************************************************************************)
THEOREM OrphansOnlyUntilStopped == ServiceSpec => OnlyOrphansReapedUnlessStopped
<1> DEFINE Lost == stale = 0 /\ stops = 0 /\ Reap /\ aim[2] \in Live(aim[1])
                     => /\ ~Refers(recs[aim[1]], aim[2])
                        /\ Refers(disk[aim[1]], aim[2]) => aim[2] \in strays[aim[1]]
<1>1. EarlyInv => Lost
  BY LostMeansUnreferred DEF EarlyInv
<1> HIDE DEF Lost
<1>2. ServiceSpec => [][Lost]_serviceVars
  BY <1>1, EarlyInvInitially, EarlyInvInductive, PTL DEF ServiceSpec
<1> QED
  BY <1>2 DEF OnlyOrphansReapedUnlessStopped, Lost

-----------------------------------------------------------------------------
(* The service keeps the contract of VMLease.                              *)

\* The facts the steps below start from.
LEMMA ContractFacts ==
  ASSUME ~StateFileMayBeLost, ContractInv, stale' = 0, [ServiceNext]_serviceVars
  PROVE  /\ ListInv /\ stale = 0 /\ TypeInv /\ TypeOK /\ Undamaged /\ CoreInv /\ CoreLInv
         /\ \A k \in Jobs : PrunedFits(k) /\ JobInv(k)
BY ListFacts, StaleGrows, StaleAssumption
DEF ContractInv, ListInv, LeaseInv, ServiceInv, TypeInv, SweepTypeOK, CoreInv

\* What a step has to keep for a job whose record it does not change.
LEMMA PrunedKept ==
  ASSUME NEW j \in Jobs, PrunedFits(j), svc # "down", recs'[j] = recs[j],
         disk'[j] \in {disk[j], recs[j]}, j \in pruned' <=> j \in pruned
  PROVE  PrunedFits(j)'
BY DEF PrunedFits, Blank

\* What the writer of a record has to keep for its job.
LEMMA PrunedWritten ==
  ASSUME NEW k \in Jobs, PrunedFits(k), recs'[k].state # "none",
         disk'[k] \in {disk[k], recs'[k]}, k \notin pruned' \/ recs[k].state # "none",
         k \in pruned' <=> k \in pruned
  PROVE  PrunedFits(k)'
BY DEF PrunedFits, Blank, NoRecord

\* A worker keeps it,
LEMMA WorkerKeepsPruned ==
  ASSUME ~StateFileMayBeLost, ContractInv, stale' = 0, [ServiceNext]_serviceVars,
         NEW k \in Jobs, Worker(k), UNCHANGED pruned, NEW j \in Jobs
  PROVE  PrunedFits(j)'
<1>1. /\ WorkerEffect(k) /\ WorkerShape(k) /\ PrunedFits(j) /\ PrunedFits(k) /\ JobInv(k)
  BY ContractFacts, WorkerHasEffect, WorkerHasShape
<1>2. CASE j # k
  BY <1>1, <1>2, PrunedKept DEF WorkerEffect, OthersKept
<1>3. CASE j = k
  <2>1. /\ recs'[k].state # "none" /\ disk'[k] \in {disk[k], recs'[k]}
        /\ recs[k].state # "none"
    BY <1>1 DEF WorkerShape, GoodRecord, Writes, Touches, WorkerEffect, JobInv, WorkersCopy,
       InFlight
  <2> QED
    BY <1>1, <1>3, <2>1, PrunedWritten
<1> QED
  BY <1>2, <1>3

\* Submit does,
LEMMA SubmitKeepsPruned ==
  ASSUME ~StateFileMayBeLost, ContractInv, stale' = 0, [ServiceNext]_serviceVars,
         NEW k \in Jobs, k \notin pruned, Submit(k), UNCHANGED pruned, NEW j \in Jobs
  PROVE  PrunedFits(j)'
<1>1. TypeOK /\ PrunedFits(j) /\ svc # "down"
  BY ContractFacts DEF Submit, SubmitNew, SubmitLeftover, SubmitIgnored, Polls
<1>2. CASE SubmitNew(k)
  <2>1. PICK ok \in BOOLEAN : Upsert(k, NewRecord, ok)
    BY <1>2 DEF SubmitNew, WriteOutcomes
  <2>2. /\ recs'[k] = NewRecord /\ disk'[k] \in {NewRecord, disk[k]}
        /\ j # k => recs'[j] = recs[j] /\ disk'[j] \in {disk[j], recs[j]}
        /\ NewRecord.state # "none"
    BY <1>1, <2>1, NewRecordEffect DEF NewRecord, NoRecord
  <2> QED
    BY <1>1, <2>2, PrunedKept, PrunedWritten
<1>3. CASE SubmitLeftover(k) \/ SubmitIgnored(k)
  BY <1>1, <1>3, PrunedKept DEF SubmitLeftover, SubmitIgnored
<1> QED
  BY <1>2, <1>3 DEF Submit

\* and so does every other step.
LEMMA ContractInvInductive ==
  ASSUME ~StateFileMayBeLost
  PROVE  ContractInv /\ [ServiceNext]_serviceVars => ContractInv'
<1> SUFFICES ASSUME ContractInv, [ServiceNext]_serviceVars, stale' = 0, NEW j \in Jobs
             PROVE  PrunedFits(j)'
  BY ListInvInductive DEF ContractInv
<1>0. /\ PrunedFits(j) /\ JobInv(j) /\ TypeInv /\ TypeOK /\ Undamaged /\ stale = 0
      /\ NoSweepWhenDown
  BY ContractFacts DEF Undamaged
<1>1. ASSUME UNCHANGED <<svc, recs, disk, pruned>>
      PROVE  PrunedFits(j)'
  BY <1>0, <1>1 DEF PrunedFits
<1>2. CASE UNCHANGED serviceVars
  BY <1>1, <1>2 DEF serviceVars, vars, sweep
<1>3. CASE Scales /\ UNCHANGED sweep
  <2>0. UNCHANGED pruned
    BY <1>3 DEF sweep
  <2>1. ASSUME NEW k \in Jobs, Worker(k) \/ (k \notin pruned /\ Submit(k))
        PROVE  PrunedFits(j)'
    BY <2>0, <2>1, WorkerKeepsPruned, SubmitKeepsPruned
  <2>2. ASSUME NEW k \in Jobs, VMVanishes(k) \/ JobFinishes(k)
        PROVE  PrunedFits(j)'
    BY <1>1, <2>0, <2>2 DEF VMVanishes, JobFinishes
  <2>3. CASE Sigterm
    BY <1>0, <2>0, <2>3 DEF Sigterm, PrunedFits
  <2>4. CASE Restart
    BY <1>0, <2>0, <2>4 DEF Restart, PrunedFits
  <2> QED
    BY <1>3, <2>1, <2>2, <2>3, <2>4 DEF Scales, RestartWithoutState
<1>4. CASE ServiceSubmit /\ UNCHANGED <<place, listed, pending, seen, snap, aim, pruned>>
  BY <1>1, <1>4 DEF ServiceSubmit, SubmitSpawns
<1>5. CASE (Crash \/ ShutdownDone) /\ ForgetSweep
  BY <1>0, <1>5 DEF Crash, ShutdownDone, LoseMemory, ForgetSweep, PrunedFits, Blank
<1>6. CASE Looks
  <2>1. UNCHANGED pruned
    BY <1>6 DEF Looks, BeginSweep, DeleteCallFails, ListRecords, SweepDone, Look, SkipActive,
       Keep, BeginRedelete
  <2> QED
    BY <1>1, <1>6, <2>1, LooksOnly DEF vars
<1>7. CASE Deletion
  BY <1>1, <1>7 DEF Deletion, Reap, Redelete
<1>8. ASSUME NEW k \in Jobs, Closing(k)
      PROVE  PrunedFits(j)'
  <2>1. PICK r : Closes(k, r)
    BY <1>0, <1>8, ClosingCloses
  <2>2. /\ recs'[k] = r /\ disk'[k] \in {r, disk[k]} /\ svc # "down"
        /\ j # k => recs'[j] = recs[j] /\ disk'[j] \in {disk[j], recs[j]}
    BY <1>0, <2>1, PersistEffect DEF Closes
  <2>3. j # k => (j \in pruned' <=> j \in pruned)
    BY <1>8 DEF Closing, Prune, PruneIf, Settle
  <2>4. CASE j # k
    BY <1>0, <2>2, <2>3, <2>4, PrunedKept
  <2>5. CASE j = k /\ Prune(k)
    <3>1. r = NoRecord /\ k \in pruned'
      BY <2>1, <2>5 DEF Closes, Prune, PruneIf
    <3> QED
      BY <1>0, <2>2, <2>5, <3>1 DEF PrunedFits, Blank
  <2>6. CASE j = k /\ ~Prune(k)
    <3>1. r.state = "complete" /\ recs[k].state # "none" /\ pruned' = pruned
      BY <1>8, <2>1, <2>6 DEF Closes, Closing, Settle, InDeletion, TerminalStates
    <3> QED
      BY <1>0, <2>2, <2>6, <3>1, PrunedWritten
  <2> QED
    BY <2>4, <2>5, <2>6
<1>9. ASSUME NEW k \in Jobs, Adopt(k)
      PROVE  PrunedFits(j)'
  BY <1>1, <1>9 DEF Adopt, Adopts
<1> QED
  BY <1>2, <1>3, <1>4, <1>5, <1>6, <1>7, <1>8, <1>9, ServiceSteps, SweepSteps

LEMMA ContractInvInitially == ServiceInit => ContractInv
<1> SUFFICES ASSUME ServiceInit, NEW k \in Jobs
             PROVE  PrunedFits(k)
  BY ListInvInitially DEF ContractInv
<1> QED
  BY DEF ServiceInit, Init, PrunedFits, Blank

\* The VMs a job holds are those it owns.
LEMMA ServiceHolds ==
  ASSUME NEW k \in Jobs
  PROVE  Service!Held(k) = Owned(k)
BY DEF Service!Held, Stages, StageOf, Owned, Live

\* Steps that leave file, VMs and pruned jobs alone are no steps of the contract.
LEMMA ServiceQuiet ==
  ASSUME UNCHANGED <<disk, vm, strays, pruned>>
  PROVE  UNCHANGED Service!vars
BY DEF Service!vars, ServiceLives, LifeOf, Stages, StageOf

(***************************************************************************)
(* A write of the file is the contract's Write, if for each job the file   *)
(* keeps its record or gets the one memory had, or the job is closed by    *)
(* the write, or was not closed and has a record afterwards.               *)
(***************************************************************************)
LEMMA ServiceWrites ==
  ASSUME ~StateFileMayBeLost, ContractInv, ContractInv', stale' = 0, [ServiceNext]_serviceVars,
         svc # "down", UNCHANGED <<vm, strays>>, pruned \subseteq pruned',
         \A j \in Jobs :
           \/ disk'[j] \in {disk[j], recs[j]}
           \/ Terminal(disk'[j]) \/ (disk'[j] = NoRecord /\ j \in pruned')
           \/ disk'[j].state # "none" /\ ServiceLives[j] # "closed"
  PROVE  Service!Write
<1>0. UNCHANGED Stages
  BY DEF Stages, StageOf
<1>1. ASSUME NEW j \in Jobs
      PROVE  \/ ServiceLives'[j] = ServiceLives[j]
             \/ ServiceLives[j] = "new" /\ ServiceLives'[j] = "open"
             \/ /\ ServiceLives[j] # "closed" /\ ServiceLives'[j] = "closed"
                /\ Service!Held(j) = {}
  <2>0. /\ ServiceLives[j] =
             IF j \in pruned /\ disk[j] = NoRecord THEN "closed" ELSE LifeOf(disk[j])
        /\ ServiceLives'[j] =
             IF j \in pruned' /\ disk'[j] = NoRecord THEN "closed" ELSE LifeOf(disk'[j])
    BY DEF ServiceLives, LifeOf
  <2>1. PrunedFits(j) /\ JobInv(j) /\ Tracked(j)' /\ PrunedFits(j)'
    <3>1. PrunedFits(j) /\ JobInv(j)
      BY ContractFacts
    <3>2. stale' = 0 => JobInv(j)' /\ PrunedFits(j)'
      BY DEF ContractInv, ListInv, LeaseInv, ServiceInv, Undamaged
    <3> QED
      BY <3>1, <3>2 DEF JobInv
  <2>2. ServiceLives[j] = "closed" => ServiceLives'[j] = "closed"
    <3>1. CASE Terminal(disk[j])
      <4>1. recs[j] \in {disk[j], NoRecord} /\ ServiceLives[j] = "closed"
        BY <2>0, <2>1, <3>1 DEF JobInv, TerminalKept, LifeOf, NoRecord, Terminal, TerminalStates
      <4>2. recs[j] = NoRecord => j \in pruned'
        BY <2>1, <3>1 DEF PrunedFits, NoRecord, Terminal, TerminalStates
      <4>3. Terminal(disk'[j]) \/ (disk'[j] = NoRecord /\ j \in pruned')
        BY <3>1, <4>1, <4>2
      <4> QED
        BY <2>0, <4>3 DEF LifeOf, Terminal, TerminalStates, NoRecord
    <3>2. CASE j \in pruned /\ disk[j] = NoRecord
      <4>1. recs[j] = NoRecord /\ j \in pruned' /\ ServiceLives[j] = "closed"
        BY <2>0, <2>1, <3>2 DEF PrunedFits
      <4>2. Terminal(disk'[j]) \/ (disk'[j] = NoRecord /\ j \in pruned')
        BY <3>2, <4>1
      <4> QED
        BY <2>0, <4>2 DEF LifeOf, Terminal, TerminalStates, NoRecord
    <3> QED
      BY <2>0, <3>1, <3>2 DEF LifeOf
  <2>3. ServiceLives'[j] = "new" => ServiceLives[j] = "new"
    <3> SUFFICES ASSUME ServiceLives'[j] = "new"
                 PROVE  ServiceLives[j] = "new"
      OBVIOUS
    <3>1. disk'[j].state = "none" /\ j \notin pruned'
      BY <2>0, <2>1 DEF LifeOf, PrunedFits, Blank
    <3>2. j \notin pruned /\ disk'[j] \in {disk[j], recs[j]}
      BY <3>1 DEF Terminal, TerminalStates, NoRecord, ServiceLives
    <3>3. disk[j] = NoRecord
      BY <2>1, <3>1, <3>2 DEF PrunedFits, Blank
    <3> QED
      BY <2>0, <3>2, <3>3 DEF LifeOf, NoRecord
  <2>4. ServiceLives'[j] = "closed" => Service!Held(j) = {}
    <3>1. Owned(j)' = Owned(j)
      BY OwnedUnchanged
    <3> QED
      BY <2>0, <2>1, <3>1, ServiceHolds
      DEF Tracked, Refers, LifeOf, Terminal, TerminalStates, Attached, NoRecord
  <2>5. /\ ServiceLives[j] \in {"new", "open", "closed"}
        /\ ServiceLives'[j] \in {"new", "open", "closed"}
    BY <2>0 DEF LifeOf
  <2> QED
    BY <2>2, <2>3, <2>4, <2>5
<1>2. /\ ServiceLives \in [Jobs -> Service!Lives] /\ ServiceLives' \in [Jobs -> Service!Lives]
  BY DEF ServiceLives, LifeOf, Service!Lives
<1> QED
  BY <1>0, <1>1, <1>2 DEF Service!Write

\* A worker's step is a step of the contract,
LEMMA ServiceWorker ==
  ASSUME ~StateFileMayBeLost, ContractInv, ContractInv', stale' = 0, [ServiceNext]_serviceVars,
         NEW k \in Jobs, Worker(k), UNCHANGED pruned
  PROVE  [Service!Next]_(Service!vars)
<1>1. /\ CoreLInv /\ WorkerEffect(k) /\ GoodRecord(k) /\ (Writes(k) \/ Touches(k))
      /\ svc # "down" /\ PrunedFits(k) /\ JobInv(k)
  BY ContractFacts, WorkerHasEffect, WorkerHasShape DEF WorkerShape, WorkerEffect
<1>2. InFlight(recs[k]) /\ ServiceLives[k] = LifeOf(disk[k]) /\ ServiceLives[k] # "closed"
  <2>1. InFlight(recs[k]) /\ recs[k] # NoRecord
    BY <1>1 DEF WorkerEffect, JobInv, WorkersCopy, InFlight, NoRecord
  <2>2. ~Terminal(disk[k]) /\ ~(k \in pruned /\ disk[k] = NoRecord)
    BY <1>1, <2>1 DEF JobInv, TerminalKept, InFlight, PrunedFits
  <2> QED
    BY <2>1, <2>2 DEF ServiceLives, LifeOf
<1>3. CASE Writes(k)
  <2>1. \A j \in Jobs :
           \/ disk'[j] \in {disk[j], recs[j]}
           \/ disk'[j].state # "none" /\ ServiceLives[j] # "closed"
    BY <1>1, <1>2, <1>3 DEF Writes, GoodRecord, WorkerEffect, OthersKept
  <2>2. Service!Write
    BY <1>1, <1>3, <2>1, ServiceWrites DEF Writes
  <2> QED
    BY <2>2 DEF Service!Next
<1>4. CASE Touches(k)
  <2>1. UNCHANGED ServiceLives
    BY <1>4 DEF Touches, ServiceLives, LifeOf
  <2>2. VMStage(k)
    BY <1>1, <1>4, TouchesStage
  <2>3. CASE UNCHANGED Stages
    BY <2>1, <2>3 DEF Service!vars
  <2>4. CASE Stages' = [Stages EXCEPT ![k] = Contract!Lost(k)]
    <3>1. Contract!Lost(k) = Service!Lost(k)
      BY DEF Contract!Lost, Service!Lost
    <3> QED
      BY <2>1, <2>4, <3>1 DEF Service!Next, Service!Lose
  <2>5. ASSUME NEW n \in Keys, Stages[k][n] \in {"held", "lost"}, Contract!Turn(k, n, "gone")
        PROVE  [Service!Next]_(Service!vars)
    BY <2>1, <2>5 DEF Service!Next, Service!End, Service!Turn, Contract!Turn
  <2>6. ASSUME LifeOf(disk[k]) = "open", Owned(k) = {}, NEW n \in Keys,
               Stages[k][n] = "unused", Contract!Turn(k, n, "held")
        PROVE  [Service!Next]_(Service!vars)
    BY <1>2, <2>1, <2>6, ServiceHolds DEF Service!Next, Service!Rent, Service!Turn, Contract!Turn
  <2> QED
    BY <2>2, <2>3, <2>4, <2>5, <2>6 DEF VMStage
<1> QED
  BY <1>1, <1>3, <1>4

\* so is the loss of a VM,
LEMMA ServiceLoses ==
  ASSUME TypeOK, NEW k \in Jobs, NEW n \in Keys, Created(k, n), SetVM(k, n, "gone"),
         UNCHANGED <<disk, strays, pruned>>
  PROVE  [Service!Next]_(Service!vars)
<1>1. UNCHANGED ServiceLives
  BY DEF ServiceLives, LifeOf
<1>2. CASE vm[k][n] = "gone"
  <2>1. UNCHANGED vm
    BY <1>2 DEF SetVM, TypeOK
  <2> QED
    BY <2>1, ServiceQuiet
<1>3. CASE vm[k][n] = "live"
  <2>1. Contract!Turn(k, n, "gone") /\ Stages[k][n] \in {"held", "lost"}
    BY <1>3, TurnsStage DEF Stages, StageOf
  <2>2. Service!End(k, n)
    BY <1>1, <2>1 DEF Service!End, Service!Turn, Contract!Turn
  <2> QED
    BY <2>2 DEF Service!Next
<1> QED
  BY <1>2, <1>3 DEF Created

\* a restart, as long as there is a file,
LEMMA ServiceRestarts ==
  ASSUME TypeInv, CoreInv, Restart, UNCHANGED pruned,
         \A k \in Jobs : PrunedFits(k)
  PROVE  [Service!Next]_(Service!vars)
<1>1. /\ Stages' \in [Jobs -> [Keys -> Service!Stages]] /\ UNCHANGED ServiceLives
      /\ \A j \in Jobs :
           \/ Stages'[j] = Stages[j]
           \/ /\ LifeOf(disk[j]) = "open" /\ Service!Held(j) = {}
              /\ \E n \in Keys : /\ Stages[j][n] = "lost"
                                 /\ Stages'[j] = [Stages[j] EXCEPT ![n] = "held"]
  BY RestartFinds, ServiceHolds DEF ServiceLives, LifeOf, Service!Stages, Contract!Stages
<1>2. \A j \in Jobs : LifeOf(disk[j]) = "open" => ServiceLives[j] = "open"
  BY DEF ServiceLives, LifeOf, NoRecord
<1>3. Service!Find
  BY <1>1, <1>2 DEF Service!Find
<1> QED
  BY <1>3 DEF Service!Next

\* a submission,
LEMMA ServiceSubmits ==
  ASSUME ~StateFileMayBeLost, ContractInv, ContractInv', stale' = 0, [ServiceNext]_serviceVars,
         NEW k \in Jobs, k \notin pruned, Submit(k), UNCHANGED pruned
  PROVE  [Service!Next]_(Service!vars)
<1>1. TypeOK /\ PrunedFits(k) /\ svc # "down" /\ UNCHANGED <<vm, strays>>
  BY ContractFacts DEF Submit, SubmitNew, SubmitLeftover, SubmitIgnored, Polls
<1>2. CASE SubmitNew(k)
  <2>1. PICK ok \in BOOLEAN : Upsert(k, NewRecord, ok)
    BY <1>2 DEF SubmitNew, WriteOutcomes
  <2>2. /\ recs'[k] = NewRecord /\ disk'[k] \in {NewRecord, disk[k]}
        /\ \A j \in Jobs \ {k} : recs'[j] = recs[j] /\ disk'[j] \in {disk[j], recs[j]}
        /\ NewRecord.state # "none"
    BY <1>1, <2>1, NewRecordEffect DEF NewRecord, NoRecord
  <2>3. ServiceLives[k] # "closed"
    BY <1>1, <1>2 DEF SubmitNew, Unseen, PrunedFits, Blank, ServiceLives, LifeOf, NoRecord,
       Terminal, TerminalStates
  <2>4. Service!Write
    BY <1>1, <2>2, <2>3, ServiceWrites
  <2> QED
    BY <2>4 DEF Service!Next
<1>3. CASE SubmitLeftover(k) \/ SubmitIgnored(k)
  BY <1>3, ServiceQuiet DEF SubmitLeftover, SubmitIgnored
<1> QED
  BY <1>2, <1>3 DEF Submit

\* and a record closed by the sweep.
LEMMA ServiceCloses ==
  ASSUME ~StateFileMayBeLost, ContractInv, ContractInv', stale' = 0, [ServiceNext]_serviceVars,
         NEW k \in Jobs, Closing(k)
  PROVE  [Service!Next]_(Service!vars)
<1>0. TypeOK /\ TypeInv /\ Undamaged
  BY ContractFacts
<1>1. PICK r : Closes(k, r)
  BY <1>0, ClosingCloses
<1>2. /\ disk'[k] \in {r, disk[k]} /\ svc # "down" /\ UNCHANGED <<vm, strays>>
      /\ \A j \in Jobs \ {k} : recs'[j] = recs[j] /\ disk'[j] \in {disk[j], recs[j]}
  BY <1>0, <1>1, PersistEffect DEF Closes
<1>3. /\ pruned \subseteq pruned'
      /\ Terminal(r) \/ (r = NoRecord /\ k \in pruned')
  BY <1>1 DEF Closes, Closing, Prune, PruneIf, Settle, Terminal, TerminalStates
<1>4. Service!Write
  BY <1>2, <1>3, ServiceWrites
<1> QED
  BY <1>4 DEF Service!Next

\* Every step of the service without a stale spawn is a step of the contract,
\* or none.
LEMMA ServiceRefines ==
  ASSUME ~StateFileMayBeLost
  PROVE  ContractInv /\ ContractInv' /\ [ServiceNext]_serviceVars
           => (stale' = 0 => [Service!Next]_(Service!vars))
<1> SUFFICES ASSUME ContractInv, ContractInv', [ServiceNext]_serviceVars, stale' = 0
             PROVE  [Service!Next]_(Service!vars)
  OBVIOUS
<1>0. /\ TypeInv /\ TypeOK /\ CoreInv /\ SweepTypeOK /\ ListedExist /\ stale = 0
      /\ \A k \in Jobs : PrunedFits(k)
  BY ContractFacts, ListFacts
<1>1. CASE UNCHANGED serviceVars
  BY <1>1, ServiceQuiet DEF serviceVars, vars, sweep
<1>2. CASE Scales /\ UNCHANGED sweep
  <2>0. UNCHANGED pruned
    BY <1>2 DEF sweep
  <2>1. ASSUME NEW k \in Jobs, Worker(k) \/ (k \notin pruned /\ Submit(k))
        PROVE  [Service!Next]_(Service!vars)
    BY <2>0, <2>1, ServiceWorker, ServiceSubmits
  <2>2. ASSUME NEW k \in Jobs, VMVanishes(k)
        PROVE  [Service!Next]_(Service!vars)
    BY <1>0, <2>0, <2>2, ServiceLoses DEF VMVanishes, Live, Created
  <2>3. CASE Restart
    BY <1>0, <2>0, <2>3, ServiceRestarts
  <2>4. CASE Sigterm \/ \E k \in Jobs : JobFinishes(k)
    BY <2>0, <2>4, ServiceQuiet DEF Sigterm, JobFinishes
  <2> QED
    BY <1>2, <2>1, <2>2, <2>3, <2>4 DEF Scales, RestartWithoutState
<1>3. CASE ServiceSubmit /\ UNCHANGED <<place, listed, pending, seen, snap, aim, pruned>>
  BY <1>3, ServiceQuiet DEF ServiceSubmit, SubmitSpawns
<1>4. CASE (Crash \/ ShutdownDone) /\ ForgetSweep
  BY <1>4, ServiceQuiet DEF Crash, ShutdownDone, ForgetSweep
<1>5. CASE Looks
  <2>1. UNCHANGED pruned
    BY <1>5 DEF Looks, BeginSweep, DeleteCallFails, ListRecords, SweepDone, Look, SkipActive,
       Keep, BeginRedelete
  <2> QED
    BY <1>5, <2>1, LooksOnly, ServiceQuiet DEF vars
<1>6. CASE Deletion
  <2>1. /\ aim[1] \in Jobs /\ aim[2] \in Keys /\ SetVM(aim[1], aim[2], "gone")
        /\ UNCHANGED <<disk, strays, pruned>>
    BY <1>0, <1>6, DeletionOfOne DEF Deletion, Reap, Redelete
  <2>2. Created(aim[1], aim[2])
    BY <1>0, <1>6 DEF Deletion, Reap, Redelete, SweepTypeOK, ListedExist
  <2> QED
    BY <1>0, <2>1, <2>2, ServiceLoses
<1>7. ASSUME NEW k \in Jobs, Adopt(k)
      PROVE  [Service!Next]_(Service!vars)
  BY <1>7, ServiceQuiet DEF Adopt, Adopts
<1> QED
  BY <1>1, <1>2, <1>3, <1>4, <1>5, <1>6, <1>7, ServiceCloses, ServiceSteps, SweepSteps

LEMMA ServiceContractInitially == ServiceInit => Service!Init
BY DEF ServiceInit, Init, Service!Init, ServiceLives, LifeOf, NoRecord, Stages, StageOf

(***************************************************************************)
(* The service as a whole implements the contract of VMLease, up to the    *)
(* first worker that starts from a record that has changed since it was    *)
(* read: although sweeps reap, complete, adopt and prune next to the       *)
(* workers, a VM is created once, for an open job that holds none, and a   *)
(* record closes, for good, and is pruned only when its job holds none     *)
(* (reconciler.go over job.go and the store), as long as the state file    *)
(* survives: a record that is pruned in memory only is in flight again     *)
(* after a restart, and its job is not polled again when the file is lost. *)
(***************************************************************************)
THEOREM ServiceImplementsLease ==
  ASSUME ~StateFileMayBeLost
  PROVE  ServiceSpec => ServiceKeepsContract
<1>1. ContractInv /\ [ServiceNext]_serviceVars => ContractInv'
  BY ContractInvInductive
<1>2. ContractInv /\ ContractInv' /\ [ServiceNext]_serviceVars
        => (stale' = 0 => [Service!Next]_(Service!vars))
  BY ServiceRefines
<1> QED
  BY <1>1, <1>2, ContractInvInitially, ServiceContractInitially, PTL
  DEF ServiceSpec, ServiceKeepsContract
===============================================================================
