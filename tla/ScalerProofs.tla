---------------------------- MODULE ScalerProofs ----------------------------
(***************************************************************************)
(* Theorems about Scaler, for every set of jobs, every bound and every     *)
(* combination of faults: its safety, and that it implements the contract  *)
(* of VMLease and keeps its retry budget.  The latter rest on what a step  *)
(* of a worker can do to its job: write its record, or leave the file      *)
(* alone and change the fate of one VM.                                    *)
(***************************************************************************)
EXTENDS ScalerInv, FiniteSetTheorems, TLAPS

-----------------------------------------------------------------------------
(* Facts about records.                                                    *)

\* Every update of a record the worker makes is a record again.
LEMMA RecordTypes ==
  /\ NoRecord \in Records
  /\ NewRecord \in Records
  /\ \A r \in Records, s \in JobStates : [r EXCEPT !.state = s] \in Records
  /\ \A r \in Records, n \in 0..MaxKeys, s \in JobStates :
       /\ [r EXCEPT !.key = n, !.state = s] \in Records
       /\ [r EXCEPT !.vm = n, !.state = s] \in Records
       /\ [r EXCEPT !.key = n] \in Records
  /\ \A n \in 0..MaxRetries : [NewRecord EXCEPT !.retry = n] \in Records
<1>1. NoRecord \in Records
  BY RetriesAssumption, KeysAssumption DEF NoRecord, Records, JobStates
<1>2. \A r \in Records, s \in JobStates : [r EXCEPT !.state = s] \in Records
  BY DEF Records
<1>3. NewRecord \in Records
  BY <1>1, <1>2 DEF NewRecord, JobStates
<1>4. \A n \in 0..MaxRetries : [NewRecord EXCEPT !.retry = n] \in Records
  BY <1>3 DEF Records
<1>5. ASSUME NEW r \in Records, NEW n \in 0..MaxKeys, NEW s \in JobStates
      PROVE  /\ [r EXCEPT !.key = n, !.state = s] \in Records
             /\ [r EXCEPT !.vm = n, !.state = s] \in Records
             /\ [r EXCEPT !.key = n] \in Records
  BY DEF Records
<1> QED
  BY <1>1, <1>2, <1>3, <1>4, <1>5

\* No pending submission is one the type allows.
LEMMA NoSubType == NoSub \in [job : Jobs \cup {NoJob}, rec : Records]
BY RecordTypes DEF NoSub

\* The store and its file keep their types under Upsert,
LEMMA UpsertType ==
  ASSUME TypeOK, NEW k \in Jobs, NEW r \in Records, NEW ok \in BOOLEAN, Upsert(k, r, ok)
  PROVE  recs' \in [Jobs -> Records] /\ disk' \in [Jobs -> Records]
BY DEF Upsert, TypeOK

\* under persist, which ignores a failed write,
LEMMA PersistType ==
  ASSUME TypeOK, NEW k \in Jobs, NEW r \in Records, Persist(k, r)
  PROVE  recs' \in [Jobs -> Records] /\ disk' \in [Jobs -> Records]
BY UpsertType DEF Persist, WriteOutcomes

\* under the write of a worker that goes on,
LEMMA RecordType ==
  ASSUME TypeOK, NEW k \in Jobs, NEW r \in Records, NEW p \in WorkerPlaces, Record(k, r, p)
  PROVE  /\ recs' \in [Jobs -> Records] /\ disk' \in [Jobs -> Records]
         /\ loc' \in [Jobs -> Records] /\ pc' \in [Jobs -> WorkerPlaces]
BY PersistType DEF Record, SetLoc, Goto, TypeOK

\* and under the last write of a worker.
LEMMA FinishType ==
  ASSUME TypeOK, NEW k \in Jobs, NEW s \in JobStates, Finish(k, s)
  PROVE  /\ recs' \in [Jobs -> Records] /\ disk' \in [Jobs -> Records]
         /\ loc' \in [Jobs -> Records] /\ pc' \in [Jobs -> WorkerPlaces]
<1>1. loc[k] \in Records
  BY DEF TypeOK
<1>2. recs' \in [Jobs -> Records] /\ disk' \in [Jobs -> Records]
  BY <1>1, PersistType, RecordTypes DEF Finish
<1> QED
  BY <1>2, RecordTypes DEF Finish, Return, Goto, SetLoc, TypeOK, WorkerPlaces

\* Forgetting a VM keeps the type of strays.
LEMMA LoseTrackType ==
  ASSUME TypeOK, NEW k \in Jobs, LoseTrack(k)
  PROVE  strays' \in [Jobs -> SUBSET Keys]
BY DEF LoseTrack, Live, TypeOK

\* A change at the VM service keeps the type of vm.
LEMMA SetVMType ==
  ASSUME TypeOK, NEW k \in Jobs, NEW n, NEW s \in VMStatus, SetVM(k, n, s)
  PROVE  vm' \in [Jobs -> [Keys -> VMStatus]]
BY DEF SetVM, TypeOK

\* Submit keeps the types.
LEMMA SubmitKeepsTypes ==
  ASSUME TypeOK, NEW k \in Jobs, Submit(k)
  PROVE  TypeOK'
<1>1. UNCHANGED rest \/ rest' = rest \ {k}
  BY DEF Submit, SubmitNew, SubmitLeftover, SubmitIgnored, Polls
<1>2. CASE SubmitNew(k)
  <2>1. PICK ok \in BOOLEAN :
          /\ Upsert(k, NewRecord, ok)
          /\ sub' = IF ok THEN [job |-> k, rec |-> NewRecord] ELSE NoSub
    BY <1>2 DEF SubmitNew, WriteOutcomes
  <2>2. recs' \in [Jobs -> Records] /\ disk' \in [Jobs -> Records]
    BY <2>1, UpsertType, RecordTypes
  <2>3. sub' \in [job : Jobs \cup {NoJob}, rec : Records]
    BY <2>1, RecordTypes DEF NoSub
  <2> QED
    BY <1>1, <1>2, <2>2, <2>3 DEF SubmitNew, TypeOK
<1>3. CASE SubmitLeftover(k)
  BY <1>1, <1>3 DEF SubmitLeftover, TypeOK
<1>4. CASE SubmitIgnored(k)
  BY <1>1, <1>4 DEF SubmitIgnored, TypeOK
<1> QED
  BY <1>2, <1>3, <1>4 DEF Submit

\* The steps of createVM keep the types.
LEMMA CreateStepKeepsTypes ==
  ASSUME TypeOK, NEW k \in Jobs, CreateStep(k)
  PROVE  TypeOK'
<1>1. CASE BeginCreate(k)
  <2> DEFINE n == IF NeedsKey(loc[k]) THEN minted[k] + 1 ELSE loc[k].key
             r == [loc[k] EXCEPT !.key = n, !.state = "creating"]
  <2>1. n \in 0..MaxKeys /\ minted' \in [Jobs -> 0..MaxKeys]
    BY <1>1, KeysAssumption DEF BeginCreate, TypeOK, Records
  <2>2. loc[k] \in Records /\ "creating" \in JobStates
    BY DEF TypeOK, JobStates
  <2>3. r \in Records
    BY <2>1, <2>2, RecordTypes
  <2>4. PICK ok \in BOOLEAN :
          /\ Upsert(k, r, ok)
          /\ Goto(k, IF ok THEN "create" ELSE "failed")
          /\ IF ok THEN UNCHANGED strays ELSE LoseTrack(k)
    BY <1>1 DEF BeginCreate, WriteOutcomes
  <2>5. recs' \in [Jobs -> Records] /\ disk' \in [Jobs -> Records]
    BY <2>3, <2>4, UpsertType
  <2>6. pc' \in [Jobs -> WorkerPlaces] /\ strays' \in [Jobs -> SUBSET Keys]
    BY <2>4, LoseTrackType DEF Goto, TypeOK, WorkerPlaces
  <2>7. loc' \in [Jobs -> Records]
    BY <1>1, <2>3 DEF BeginCreate, SetLoc, TypeOK
  <2> QED
    BY <1>1, <2>1, <2>5, <2>6, <2>7 DEF BeginCreate, TypeOK, env
<1>2. CASE ServerCreate(k)
  <2>1. vm' \in [Jobs -> [Keys -> VMStatus]]
    BY <1>2, SetVMType DEF ServerCreate, VMStatus, TypeOK
  <2> QED
    BY <1>2, <2>1 DEF ServerCreate, Goto, TypeOK, WorkerPlaces, env
<1>3. CASE CreateReturns(k)
  <2>1. [loc[k] EXCEPT !.vm = loc[k].key, !.state = "wait_ready"] \in Records
    BY RecordTypes DEF TypeOK, Records, JobStates, Attached
  <2> QED
    BY <1>3, <2>1, RecordType DEF CreateReturns, TypeOK, WorkerPlaces, env
<1>4. CASE CapacityReply(k)
  <2> DEFINE r == [loc[k] EXCEPT !.key = minted[k] + 1]
  <2>1. minted[k] + 1 \in 0..MaxKeys /\ minted' \in [Jobs -> 0..MaxKeys]
    BY <1>4, KeysAssumption DEF CapacityReply, TypeOK
  <2>2. r \in Records
    BY <2>1 DEF TypeOK, Records
  <2>3. PICK ok \in BOOLEAN :
          /\ Upsert(k, r, ok)
          /\ IF ok THEN Goto(k, "backoff") \/ Goto(k, "gaveup") ELSE Goto(k, "failed")
    BY <1>4 DEF CapacityReply, WriteOutcomes
  <2>4. recs' \in [Jobs -> Records] /\ disk' \in [Jobs -> Records]
    BY <2>2, <2>3, UpsertType
  <2>5. pc' \in [Jobs -> WorkerPlaces]
    BY <2>3 DEF Goto, TypeOK, WorkerPlaces
  <2>6. loc' \in [Jobs -> Records]
    BY <1>4, <2>2 DEF CapacityReply, SetLoc, TypeOK
  <2> QED
    BY <1>4, <2>1, <2>4, <2>5, <2>6 DEF CapacityReply, TypeOK, env
<1>5. CASE RateLimited(k)
  BY <1>5 DEF RateLimited, Goto, TypeOK, WorkerPlaces, env
<1>6. CASE CreateFails(k)
  BY <1>6, LoseTrackType DEF CreateFails, Goto, TypeOK, WorkerPlaces, env
<1>7. CASE BackoffEnds(k)
  BY <1>7 DEF BackoffEnds, Goto, TypeOK, WorkerPlaces, env
<1>8. CASE DropsRequest(k)
  BY <1>8, FinishType DEF DropsRequest, TypeOK, JobStates, TerminalStates, env
<1> QED
  BY <1>1, <1>2, <1>3, <1>4, <1>5, <1>6, <1>7, <1>8 DEF CreateStep

\* The steps of an attempt that has its VM keep the types.
LEMMA VMStepKeepsTypes ==
  ASSUME TypeOK, NEW k \in Jobs, VMStep(k)
  PROVE  TypeOK'
<1>0. \A s \in JobStates : [loc[k] EXCEPT !.state = s] \in Records
  BY RecordTypes DEF TypeOK
<1>1. ASSUME NEW from \in JobStates, NEW to \in JobStates, Advance(k, from, to)
      PROVE  TypeOK'
  BY <1>0, <1>1, RecordType DEF Advance, TypeOK, WorkerPlaces, env
<1>2. CASE Ready(k) \/ Launched(k) \/ MarkRunning(k) \/ MonitorEnds(k)
  BY <1>1, <1>2 DEF Ready, Launched, MarkRunning, MonitorEnds, JobStates, Attached
<1>3. CASE StepFails(k)
  BY <1>3 DEF StepFails, Goto, TypeOK, WorkerPlaces, env
<1>4. DeleteVM(k) => vm' \in [Jobs -> [Keys -> VMStatus]] /\ strays' \in [Jobs -> SUBSET Keys]
  BY LoseTrackType, SetVMType DEF DeleteVM, VMStatus, TypeOK
<1>5. CASE CleanupDelete(k)
  BY <1>4, <1>5 DEF CleanupDelete, Goto, TypeOK, WorkerPlaces, env
<1>6. CASE EnterDeleting(k)
  BY <1>0, <1>6, RecordType
     DEF EnterDeleting, TypeOK, WorkerPlaces, JobStates, Attached, env
<1>7. CASE FinalDelete(k)
  BY <1>4, <1>7 DEF FinalDelete, Goto, TypeOK, WorkerPlaces, env
<1>8. CASE Complete(k)
  BY <1>8, FinishType DEF Complete, TypeOK, JobStates, TerminalStates, env
<1> QED
  BY <1>2, <1>3, <1>5, <1>6, <1>7, <1>8 DEF VMStep

\* The steps of runJob after a failed attempt keep the types.
LEMMA RetryStepKeepsTypes ==
  ASSUME TypeOK, NEW k \in Jobs, RetryStep(k)
  PROVE  TypeOK'
<1>1. CASE GiveUpJob(k)
  BY <1>1, FinishType DEF GiveUpJob, TypeOK, JobStates, TerminalStates, env
<1>2. CASE JobAlreadyFinished(k)
  BY <1>2, FinishType DEF JobAlreadyFinished, TypeOK, JobStates, TerminalStates, env
<1>3. CASE Retry(k)
  <2>1. loc[k].retry + 1 \in 0..MaxRetries
    BY <1>3, RetriesAssumption DEF Retry, MayRetry, TypeOK, Records
  <2> QED
    BY <1>3, <2>1, RecordTypes, RecordType DEF Retry, TypeOK, WorkerPlaces, env
<1>4. CASE PaceEnds(k)
  BY <1>4 DEF PaceEnds, Goto, TypeOK, WorkerPlaces, env
<1> QED
  BY <1>1, <1>2, <1>3, <1>4 DEF RetryStep

\* Crashes, stops and starts keep the types.
LEMMA ProcessKeepsTypes ==
  ASSUME TypeOK, Process
  PROVE  TypeOK'
<1>1. LoseMemory => /\ svc' = "down" /\ rest' = {}
                    /\ recs' \in [Jobs -> Records] /\ loc' \in [Jobs -> Records]
                    /\ pc' \in [Jobs -> WorkerPlaces]
                    /\ sub' \in [job : Jobs \cup {NoJob}, rec : Records]
  <2> SUFFICES ASSUME LoseMemory
               PROVE  /\ recs' \in [Jobs -> Records] /\ pc' \in [Jobs -> WorkerPlaces]
    BY NoSubType DEF LoseMemory
  <2>1. recs' \in [Jobs -> Records]
    BY RecordTypes DEF LoseMemory
  <2>2. "idle" \in WorkerPlaces /\ pc' = [k \in Jobs |-> "idle"]
    BY DEF LoseMemory, WorkerPlaces
  <2> QED
    BY <2>1, <2>2
<1>2. CASE Crash
  BY <1>1, <1>2, BoundsAssumption DEF Crash, TypeOK
<1>3. CASE Sigterm
  BY <1>3, BoundsAssumption DEF Sigterm, TypeOK
<1>4. CASE ShutdownDone
  BY <1>1, <1>4 DEF ShutdownDone, TypeOK
<1>5. CASE Restart
  <2>1. loc' \in [Jobs -> Records] /\ pc' \in [Jobs -> WorkerPlaces]
    BY <1>5, RecordTypes DEF Restart, TypeOK, WorkerPlaces
  <2>2. strays' \in [Jobs -> SUBSET Keys]
    BY <1>5 DEF Restart, TypeOK
  <2> QED
    BY <1>5, <2>1, <2>2 DEF Restart, TypeOK
<1>6. CASE RestartWithoutState
  <2>1. strays' \in [Jobs -> SUBSET Keys]
    BY <1>6 DEF RestartWithoutState, Live
  <2> QED
    BY <1>6, <2>1 DEF RestartWithoutState, TypeOK
<1> QED
  BY <1>2, <1>3, <1>4, <1>5, <1>6 DEF Process

\* TypeOK is inductive,
LEMMA TypeOKInductive == TypeOK /\ [Next]_vars => TypeOK'
<1> SUFFICES ASSUME TypeOK, [Next]_vars
             PROVE  TypeOK'
  OBVIOUS
<1>1. ASSUME NEW k \in Jobs, Worker(k)
      PROVE  TypeOK'
  <2>1. CASE Acquire(k)
    BY <2>1 DEF Acquire, Goto, TypeOK, WorkerPlaces, env
  <2>2. CASE StopsHere(k)
    BY <2>2, RecordTypes DEF StopsHere, Return, Goto, SetLoc, TypeOK, WorkerPlaces, env
  <2> QED
    BY <1>1, <2>1, <2>2, CreateStepKeepsTypes, VMStepKeepsTypes, RetryStepKeepsTypes
    DEF Worker
<1>2. ASSUME NEW k \in Jobs, VMVanishes(k)
      PROVE  TypeOK'
  <2>1. vm' \in [Jobs -> [Keys -> VMStatus]]
    BY <1>2, SetVMType DEF VMVanishes, VMStatus
  <2> QED
    BY <1>2, <2>1 DEF VMVanishes, TypeOK
<1>3. ASSUME NEW k \in Jobs, JobFinishes(k)
      PROVE  TypeOK'
  BY <1>3 DEF JobFinishes, TypeOK
<1>4. CASE SubmitSpawns
  <2>1. sub' \in [job : Jobs \cup {NoJob}, rec : Records]
    BY <1>4, RecordTypes DEF SubmitSpawns, NoSub
  <2>2. loc' \in [Jobs -> Records] /\ pc' \in [Jobs -> WorkerPlaces]
    BY <1>4 DEF SubmitSpawns, Spawn, Goto, SetLoc, TypeOK, WorkerPlaces
  <2> QED
    BY <1>4, <2>1, <2>2 DEF SubmitSpawns, TypeOK
<1>5. CASE AllHandled \/ UNCHANGED vars
  BY <1>5 DEF AllHandled, vars, TypeOK
<1> QED
  BY <1>1, <1>2, <1>3, <1>4, <1>5, SubmitKeepsTypes, ProcessKeepsTypes DEF Next

\* and holds at the start.
LEMMA TypeOKInitially == Init => TypeOK
<1> SUFFICES ASSUME Init
             PROVE  TypeOK
  OBVIOUS
<1>1. recs \in [Jobs -> Records] /\ disk = recs /\ loc = recs
  BY RecordTypes DEF Init
<1>2. "idle" \in WorkerPlaces /\ pc = [k \in Jobs |-> "idle"]
  BY DEF Init, WorkerPlaces
<1>3. vm \in [Jobs -> [Keys -> VMStatus]]
  BY DEF Init, VMStatus
<1>4. minted \in [Jobs -> 0..MaxKeys] /\ stops \in 0..MaxStops
  BY KeysAssumption, BoundsAssumption DEF Init
<1> QED
  BY <1>1, <1>2, <1>3, <1>4, NoSubType DEF Init, TypeOK

(***************************************************************************)
(* Every variable keeps its type: in particular a record never counts more *)
(* than MaxRetries retries.                                                *)
(***************************************************************************)
THEOREM Typing == Spec => []TypeOK
BY TypeOKInitially, TypeOKInductive, PTL DEF Spec

-----------------------------------------------------------------------------
(* What the building blocks of an action do to one job.                    *)

\* Upsert writes one record; of the others the file may catch up with memory.
LEMMA UpsertEffect ==
  ASSUME TypeOK, NEW k \in Jobs, NEW r \in Records, NEW ok \in BOOLEAN, Upsert(k, r, ok)
  PROVE  /\ recs'[k] = r
         /\ disk'[k] = IF ok THEN r ELSE disk[k]
         /\ \A j \in Jobs \ {k} : recs'[j] = recs[j] /\ disk'[j] \in {disk[j], recs[j]}
BY DEF Upsert, TypeOK

\* Submit's first record of a job.
LEMMA NewRecordEffect ==
  ASSUME TypeOK, NEW k \in Jobs, NEW ok \in BOOLEAN, Upsert(k, NewRecord, ok)
  PROVE  /\ recs'[k] = NewRecord
         /\ disk'[k] = IF ok THEN NewRecord ELSE disk[k]
         /\ \A j \in Jobs \ {k} : recs'[j] = recs[j] /\ disk'[j] \in {disk[j], recs[j]}
<1>1. NewRecord \in Records
  BY RecordTypes, Zenon
<1> QED
  BY <1>1, UpsertEffect

\* persist may or may not reach the file.
LEMMA PersistEffect ==
  ASSUME TypeOK, NEW k \in Jobs, NEW r \in Records, Persist(k, r)
  PROVE  /\ recs'[k] = r
         /\ disk'[k] \in {r, disk[k]}
         /\ \A j \in Jobs \ {k} : recs'[j] = recs[j] /\ disk'[j] \in {disk[j], recs[j]}
<1>1. PICK ok \in BOOLEAN : Upsert(k, r, ok)
  BY DEF Persist, WriteOutcomes
<1> QED
  BY <1>1, UpsertEffect

\* A worker moves alone,
LEMMA GotoEffect ==
  ASSUME TypeOK, NEW k \in Jobs, NEW p, Goto(k, p)
  PROVE  pc'[k] = p /\ \A j \in Jobs \ {k} : pc'[j] = pc[j]
BY DEF Goto, TypeOK

\* changes no other worker's record,
LEMMA SetLocEffect ==
  ASSUME TypeOK, NEW k \in Jobs, NEW r, SetLoc(k, r)
  PROVE  loc'[k] = r /\ \A j \in Jobs \ {k} : loc'[j] = loc[j]
BY DEF SetLoc, TypeOK

\* and no other job's VMs.
LEMMA SetVMEffect ==
  ASSUME TypeOK, NEW k \in Jobs, NEW n \in 0..MaxKeys, NEW s \in VMStatus, SetVM(k, n, s)
  PROVE  /\ vm'[k] = [vm[k] EXCEPT ![n] = s]
         /\ \A j \in Jobs \ {k} : vm'[j] = vm[j]
BY DEF SetVM, TypeOK

\* A job whose VMs were lost track of owns none.
LEMMA LoseTrackEffect ==
  ASSUME TypeOK, NEW k \in Jobs, LoseTrack(k), UNCHANGED vm
  PROVE  Owned(k)' = {} /\ \A j \in Jobs \ {k} : strays'[j] = strays[j]
BY DEF LoseTrack, Owned, Live, TypeOK

\* A VM that is deleted is no longer owned, and no other VM changes hands.
LEMMA GoneEffect ==
  ASSUME TypeOK, NEW k \in Jobs, NEW n \in 0..MaxKeys, SetVM(k, n, "gone"), UNCHANGED strays
  PROVE  Owned(k)' = Owned(k) \ {n}
<1>0. vm[k] \in [Keys -> VMStatus]
  BY DEF TypeOK
<1>1. vm'[k] = [vm[k] EXCEPT ![n] = "gone"]
  BY SetVMEffect DEF VMStatus
<1>2. \A m \in Keys : vm'[k][m] = IF m = n THEN "gone" ELSE vm[k][m]
  BY <1>0, <1>1
<1> QED
  BY <1>2 DEF Owned, Live

\* What a job owns depends on its VMs and strays only.
LEMMA OwnedUnchanged ==
  ASSUME NEW k \in Jobs, vm'[k] = vm[k], strays'[k] = strays[k]
  PROVE  Owned(k)' = Owned(k)
BY DEF Owned, Live

(***************************************************************************)
(* A step of another job at most lets the file catch up with memory, which *)
(* disturbs no part of the invariant; nor does the loss of a VM.           *)
(***************************************************************************)
LEMMA Undisturbed ==
  ASSUME NEW j \in Jobs, JobInv(j), svc # "down", svc' # "down",
         pc'[j] = pc[j], loc'[j] = loc[j], Owned(j)' \subseteq Owned(j),
         recs'[j] = recs[j], disk'[j] \in {disk[j], recs[j]}
  PROVE  JobInv(j)'
<1>1. Tracked(j)'
  BY DEF Tracked, JobInv, Refers
<1> QED
  BY <1>1 DEF JobInv, WorkersCopy, PlaceFitsState, NothingOwned, TerminalKept, DownIsEmpty,
     InFlight, Terminal

(***************************************************************************)
(* The same for the job itself when only its place changes.                *)
(***************************************************************************)
LEMMA OnlyMoves ==
  ASSUME NEW k \in Jobs, JobInv(k), svc # "down", svc' # "down",
         pc[k] # "idle", pc'[k] # "idle",
         loc'[k] = loc[k], Owned(k)' \subseteq Owned(k),
         recs'[k] = recs[k], disk'[k] = disk[k],
         PlaceFitsState(k)', NothingOwned(k)'
  PROVE  JobInv(k)'
BY DEF JobInv, WorkersCopy, TerminalKept, DownIsEmpty, Tracked, Refers, InFlight, Terminal

(***************************************************************************)
(* The same when the worker writes a new record r and goes on to p.        *)
(***************************************************************************)
LEMMA Rewrites ==
  ASSUME NEW k \in Jobs, JobInv(k), svc # "down", svc' # "down",
         pc[k] # "idle",
         NEW r \in Records, recs'[k] = r, disk'[k] \in {r, disk[k]},
         pc'[k] # "idle" => loc'[k] = r /\ InFlight(r),
         Owned(k)' \subseteq Owned(k), \A n \in Owned(k)' : Refers(r, n),
         PlaceFitsState(k)', NothingOwned(k)'
  PROVE  JobInv(k)'
<1>1. ~Terminal(disk[k])
  BY DEF JobInv, WorkersCopy, TerminalKept, InFlight, Terminal, NoRecord
<1> QED
  BY <1>1 DEF JobInv, WorkersCopy, TerminalKept, DownIsEmpty, Tracked, Refers,
     InFlight, Terminal

-----------------------------------------------------------------------------
(* What a step of a worker does to the other jobs.                         *)

\* The other jobs keep their worker and their VMs; the file may catch up
\* with their records.
OthersKept(k) ==
  \A j \in Jobs \ {k} :
    /\ pc'[j] = pc[j] /\ loc'[j] = loc[j] /\ vm'[j] = vm[j] /\ strays'[j] = strays[j]
    /\ recs'[j] = recs[j] /\ disk'[j] \in {disk[j], recs[j]}

\* A worker's step as the lemmas below describe it.
WorkerEffect(k) ==
  /\ svc # "down" /\ svc' # "down" /\ sub' = sub /\ pc[k] # "idle"
  /\ OthersKept(k)
  /\ JobInv(k)'
  /\ pc'[k] = "idle" => recs'[k].state # "none"

\* What the write of a worker that goes on does to its job and to the others.
LEMMA RecordEffect ==
  ASSUME TypeOK, NEW k \in Jobs, NEW r \in Records, NEW p, Record(k, r, p),
         UNCHANGED <<vm, strays>>
  PROVE  /\ recs'[k] = r /\ disk'[k] \in {r, disk[k]} /\ loc'[k] = r /\ pc'[k] = p
         /\ Owned(k)' = Owned(k)
         /\ OthersKept(k)
BY PersistEffect, SetLocEffect, GotoEffect, OwnedUnchanged DEF Record, OthersKept

\* What the last write of a worker does to its job and to the others.
LEMMA FinishEffect ==
  ASSUME TypeOK, NEW k \in Jobs, NEW s \in JobStates, Finish(k, s),
         UNCHANGED <<vm, strays>>
  PROVE  /\ recs'[k] = [loc[k] EXCEPT !.state = s]
         /\ disk'[k] \in {recs'[k], disk[k]}
         /\ pc'[k] = "idle"
         /\ Owned(k)' = Owned(k)
         /\ OthersKept(k)
<1>1. [loc[k] EXCEPT !.state = s] \in Records
  BY RecordTypes DEF TypeOK
<1> QED
  BY <1>1, PersistEffect, SetLocEffect, GotoEffect, OwnedUnchanged
  DEF Finish, Return, OthersKept

\* A worker that ends the job owns no VM at that point.
LEMMA FinishKeeps ==
  ASSUME CoreInv, NEW k \in Jobs, NEW s \in TerminalStates, Finish(k, s),
         UNCHANGED <<vm, strays, env>>, pc[k] # "idle", Owned(k) = {}
  PROVE  WorkerEffect(k)
<1>1. JobInv(k) /\ TypeOK
  BY DEF CoreInv
<1>2. s \in JobStates /\ [loc[k] EXCEPT !.state = s] \in Records
  BY <1>1, RecordTypes DEF JobStates, TypeOK
<1>3. /\ recs'[k] = [loc[k] EXCEPT !.state = s] /\ disk'[k] \in {recs'[k], disk[k]}
      /\ pc'[k] = "idle" /\ Owned(k)' = {} /\ OthersKept(k)
  BY <1>1, <1>2, FinishEffect
<1>4. svc # "down" /\ svc' = svc /\ sub' = sub
  BY <1>1 DEF JobInv, DownIsEmpty, env
<1>5. PlaceFitsState(k)' /\ NothingOwned(k)'
  BY <1>3 DEF PlaceFitsState, NothingOwned
<1>6. JobInv(k)'
  BY <1>1, <1>2, <1>3, <1>4, <1>5, Rewrites
<1> QED
  BY <1>3, <1>4, <1>6 DEF WorkerEffect, TerminalStates

\* A worker that moves on without touching a record or a VM.
LEMMA MoveKeeps ==
  ASSUME CoreInv, NEW k \in Jobs, NEW p \in WorkerPlaces \ {"idle"}, Goto(k, p),
         UNCHANGED <<recs, disk, loc, vm, strays, env>>, pc[k] # "idle",
         p \in {"create", "response", "backoff"} =>
           pc[k] \in {"create", "response", "backoff"},
         p = "cleanup" => recs[k].state \in Attached,
         p \notin {"delete", "deleted", "pace"},
         p \in {"backoff", "failed", "gaveup"} => Owned(k) = {}
  PROVE  WorkerEffect(k)
<1>1. JobInv(k) /\ TypeOK
  BY DEF CoreInv
<1>2. pc'[k] = p /\ Owned(k)' = Owned(k) /\ OthersKept(k)
  BY <1>1, GotoEffect, OwnedUnchanged DEF OthersKept
<1>3. svc # "down" /\ svc' = svc /\ sub' = sub
  BY <1>1 DEF JobInv, DownIsEmpty, env
<1>4. PlaceFitsState(k)' /\ NothingOwned(k)'
  BY <1>1, <1>2 DEF JobInv, PlaceFitsState, NothingOwned
<1>5. JobInv(k)'
  BY <1>1, <1>2, <1>3, <1>4, OnlyMoves
<1> QED
  BY <1>2, <1>3, <1>5 DEF WorkerEffect

\* A worker that writes a new state into its record and keeps the VM.
LEMMA RecordKeeps ==
  ASSUME CoreInv, NEW k \in Jobs, NEW r \in Records, NEW p \in WorkerPlaces, Record(k, r, p),
         UNCHANGED <<vm, strays, env>>, pc[k] # "idle", InFlight(r),
         p \notin {"idle", "create", "response", "backoff", "cleanup"},
         p \in {"delete", "deleted"} => r.state = "deleting",
         \A n \in Owned(k) : Refers(r, n),
         p \in {"failed", "gaveup", "pace", "deleted"} => Owned(k) = {}
  PROVE  WorkerEffect(k)
<1>1. JobInv(k) /\ TypeOK
  BY DEF CoreInv
<1>2. /\ recs'[k] = r /\ disk'[k] \in {r, disk[k]} /\ loc'[k] = r /\ pc'[k] = p
      /\ Owned(k)' = Owned(k) /\ OthersKept(k)
  BY <1>1, RecordEffect
<1>3. svc # "down" /\ svc' = svc /\ sub' = sub
  BY <1>1 DEF JobInv, DownIsEmpty, env
<1>4. PlaceFitsState(k)' /\ NothingOwned(k)'
  BY <1>2 DEF PlaceFitsState, NothingOwned
<1>5. JobInv(k)'
  BY <1>1, <1>2, <1>3, <1>4, Rewrites
<1> QED
  BY <1>2, <1>3, <1>5 DEF WorkerEffect

-----------------------------------------------------------------------------
(* The steps of a worker, one lemma per group of actions.                  *)

\* Taking a slot changes nothing but the place of the worker.
LEMMA AcquireKeeps ==
  ASSUME CoreInv, NEW k \in Jobs, Acquire(k)
  PROVE  WorkerEffect(k)
BY MoveKeeps DEF Acquire, WorkerPlaces

\* A worker that stops leaves its record in store and file.
LEMMA StopsHereKeeps ==
  ASSUME CoreInv, NEW k \in Jobs, StopsHere(k)
  PROVE  WorkerEffect(k)
<1>1. JobInv(k) /\ TypeOK
  BY DEF CoreInv
<1>2. pc'[k] = "idle" /\ Owned(k)' = Owned(k) /\ OthersKept(k)
  BY <1>1, GotoEffect, SetLocEffect, OwnedUnchanged DEF StopsHere, Return, OthersKept
<1>3. svc # "down" /\ svc' = svc /\ sub' = sub /\ pc[k] # "idle"
  BY DEF StopsHere, StopPlaces, env
<1>4. recs'[k] = recs[k] /\ disk'[k] = disk[k]
  BY DEF StopsHere
<1>5. Tracked(k)'
  BY <1>1, <1>2, <1>3, <1>4 DEF JobInv, Tracked, Refers
<1>6. JobInv(k)'
  BY <1>1, <1>2, <1>3, <1>4, <1>5 DEF JobInv, WorkersCopy, PlaceFitsState, NothingOwned,
     TerminalKept, DownIsEmpty, Terminal
<1> QED
  BY <1>1, <1>2, <1>3, <1>4, <1>6 DEF WorkerEffect, InFlight, JobInv, WorkersCopy

(***************************************************************************)
(* CREATING.  A fresh attempt owns nothing (its record refers to nothing), *)
(* a resumed one keeps the key, so what it owns stays within reach; and    *)
(* if the write fails, nothing is owned any more.                          *)
(***************************************************************************)
LEMMA BeginCreateKeeps ==
  ASSUME CoreInv, NEW k \in Jobs, BeginCreate(k)
  PROVE  WorkerEffect(k)
<1> DEFINE n == IF NeedsKey(loc[k]) THEN minted[k] + 1 ELSE loc[k].key
           r == [loc[k] EXCEPT !.key = n, !.state = "creating"]
<1>1. JobInv(k) /\ TypeOK
  BY DEF CoreInv
<1>2. loc[k] = recs[k] /\ loc[k] \in Records /\ pc[k] # "idle"
  BY <1>1 DEF JobInv, WorkersCopy, BeginCreate, TypeOK
<1>3. n \in Keys
  <2>1. loc[k].key \in 0..MaxKeys /\ minted[k] \in 0..MaxKeys
    BY <1>1 DEF TypeOK, Records
  <2>2. CASE NeedsKey(loc[k])
    BY <2>1, <2>2, KeysAssumption DEF BeginCreate, Keys
  <2>3. CASE ~NeedsKey(loc[k])
    BY <2>1, <2>3, KeysAssumption DEF NeedsKey, Keys
  <2> QED
    BY <2>2, <2>3
<1>4. r \in Records /\ r.state = "creating" /\ r.key = n
  <2>1. n \in 0..MaxKeys /\ "creating" \in JobStates
    BY <1>3 DEF Keys, JobStates
  <2> QED
    BY <1>2, <2>1 DEF Records
<1>5. PICK ok \in BOOLEAN :
        /\ Upsert(k, r, ok)
        /\ Goto(k, IF ok THEN "create" ELSE "failed")
        /\ IF ok THEN UNCHANGED strays ELSE LoseTrack(k)
  BY DEF BeginCreate, WriteOutcomes
<1>6. /\ recs'[k] = r /\ disk'[k] = IF ok THEN r ELSE disk[k]
      /\ \A j \in Jobs \ {k} : recs'[j] = recs[j] /\ disk'[j] \in {disk[j], recs[j]}
  BY <1>1, <1>4, <1>5, UpsertEffect
<1>7. loc'[k] = r /\ \A j \in Jobs \ {k} : loc'[j] = loc[j]
  BY <1>1, SetLocEffect DEF BeginCreate
<1>8. pc'[k] = (IF ok THEN "create" ELSE "failed") /\ \A j \in Jobs \ {k} : pc'[j] = pc[j]
  BY <1>1, <1>5, GotoEffect
<1>9. vm' = vm /\ \A j \in Jobs \ {k} : strays'[j] = strays[j]
  BY <1>1, <1>5, LoseTrackEffect DEF BeginCreate
<1>10. OthersKept(k)
  BY <1>6, <1>7, <1>8, <1>9 DEF OthersKept
<1>11. svc # "down" /\ svc' = svc /\ sub' = sub
  BY <1>1, <1>2 DEF JobInv, DownIsEmpty, BeginCreate, env
<1>12. CASE ok
  <2>1. Owned(k)' = Owned(k)
    BY <1>5, <1>9, <1>12, OwnedUnchanged
  <2>2. \A m \in Owned(k) : Refers(r, m)
    <3> SUFFICES ASSUME NEW m \in Owned(k)
                 PROVE  Refers(r, m)
      OBVIOUS
    <3>1. Refers(loc[k], m)
      BY <1>1, <1>2, <1>11 DEF JobInv, Tracked
    <3>2. loc[k].state = "creating" /\ loc[k].key = m
      BY <3>1 DEF BeginCreate, Refers, Attached
    <3>3. m # 0
      BY KeysAssumption DEF Owned, Live, Keys
    <3>4. n = m
      BY <3>2, <3>3 DEF NeedsKey
    <3> QED
      BY <1>4, <3>4 DEF Refers
  <2>3. PlaceFitsState(k)' /\ NothingOwned(k)'
    BY <1>3, <1>4, <1>6, <1>8, <1>12 DEF PlaceFitsState, NothingOwned
  <2>4. InFlight(r)
    BY <1>4 DEF InFlight, Terminal, TerminalStates
  <2>5. JobInv(k)'
    BY <1>1, <1>2, <1>4, <1>6, <1>7, <1>8, <1>11, <1>12, <2>1, <2>2, <2>3, <2>4, Rewrites
  <2> QED
    BY <1>2, <1>8, <1>10, <1>11, <2>5 DEF WorkerEffect
<1>13. CASE ~ok
  <2>1. Owned(k)' = {}
    BY <1>1, <1>5, <1>9, <1>13, LoseTrackEffect
  <2>2. PlaceFitsState(k)' /\ NothingOwned(k)'
    BY <1>8, <1>13, <2>1 DEF PlaceFitsState, NothingOwned
  <2>3. InFlight(r)
    BY <1>4 DEF InFlight, Terminal, TerminalStates
  <2>4. JobInv(k)'
    BY <1>1, <1>2, <1>4, <1>6, <1>7, <1>8, <1>11, <1>13, <2>1, <2>2, <2>3, Rewrites
  <2> QED
    BY <1>2, <1>8, <1>10, <1>11, <2>4 DEF WorkerEffect
<1> QED
  BY <1>12, <1>13

\* A create request and its answer concern the key on record.
LEMMA ServerCreateKeeps ==
  ASSUME CoreInv, NEW k \in Jobs, ServerCreate(k)
  PROVE  WorkerEffect(k)
<1>1. JobInv(k) /\ TypeOK
  BY DEF CoreInv
<1>2. /\ loc[k] = recs[k] /\ recs[k].state = "creating" /\ recs[k].key \in Keys
      /\ disk[k] = recs[k] /\ pc[k] # "idle"
  BY <1>1 DEF JobInv, WorkersCopy, PlaceFitsState, ServerCreate
<1>3. pc'[k] = "response" /\ \A j \in Jobs \ {k} : pc'[j] = pc[j]
  BY <1>1, GotoEffect DEF ServerCreate
<1>4. \A j \in Jobs : j # k => vm'[j] = vm[j]
  BY <1>1 DEF ServerCreate, SetVM, TypeOK
<1>5. OthersKept(k)
  BY <1>3, <1>4 DEF ServerCreate, OthersKept
<1>6. svc # "down" /\ svc' = svc /\ sub' = sub
  BY <1>1, <1>2 DEF JobInv, DownIsEmpty, ServerCreate, env
<1>7. \A n \in Owned(k)' : n \in Owned(k) \/ n = recs[k].key
  <2>1. \A n \in Keys : n # recs[k].key => vm'[k][n] = vm[k][n]
    BY <1>1, <1>2 DEF ServerCreate, SetVM, TypeOK
  <2> QED
    BY <2>1 DEF Owned, Live, ServerCreate
<1>8. recs'[k] = recs[k] /\ disk'[k] = disk[k] /\ loc'[k] = loc[k]
  BY DEF ServerCreate
<1>9. Tracked(k)'
  <2> SUFFICES ASSUME NEW n \in Owned(k)'
               PROVE  Refers(recs[k], n)
    BY <1>2, <1>8 DEF Tracked, Refers
  <2>1. CASE n \in Owned(k)
    BY <1>1, <1>6, <2>1 DEF JobInv, Tracked
  <2>2. CASE n = recs[k].key
    BY <1>2, <2>2 DEF Refers
  <2> QED
    BY <1>7, <2>1, <2>2
<1>10. JobInv(k)'
  BY <1>1, <1>2, <1>3, <1>6, <1>8, <1>9 DEF JobInv, WorkersCopy, PlaceFitsState,
     NothingOwned, TerminalKept, DownIsEmpty, InFlight, Terminal
<1> QED
  BY <1>2, <1>3, <1>5, <1>6, <1>10 DEF WorkerEffect

\* The id takes over from the key as the handle on the VM.
LEMMA CreateReturnsKeeps ==
  ASSUME CoreInv, NEW k \in Jobs, CreateReturns(k)
  PROVE  WorkerEffect(k)
<1> DEFINE r == [loc[k] EXCEPT !.vm = loc[k].key, !.state = "wait_ready"]
<1>1. JobInv(k) /\ TypeOK
  BY DEF CoreInv
<1>2. loc[k] = recs[k] /\ recs[k].state = "creating" /\ loc[k] \in Records /\ svc # "down"
  BY <1>1 DEF JobInv, WorkersCopy, PlaceFitsState, CreateReturns, DownIsEmpty, TypeOK
<1>3. r \in Records /\ r.state = "wait_ready" /\ r.vm = loc[k].key
  <2>1. "wait_ready" \in JobStates /\ loc[k].key \in 0..MaxKeys
    BY <1>2 DEF JobStates, Attached, Records
  <2> QED
    BY <1>2, <2>1 DEF Records
<1>4. \A n \in Owned(k) : Refers(r, n)
  BY <1>1, <1>2, <1>3 DEF JobInv, Tracked, Refers, Attached
<1>5. InFlight(r)
  BY <1>3 DEF InFlight, Terminal, TerminalStates
<1>6. Record(k, r, "attempt") /\ pc[k] # "idle" /\ UNCHANGED <<vm, strays, env>>
  BY DEF CreateReturns
<1> QED
  BY <1>3, <1>4, <1>5, <1>6, RecordKeeps DEF WorkerPlaces

\* A rejected key has no VM, so the fresh key has nothing to lose.
LEMMA CapacityReplyKeeps ==
  ASSUME CoreInv, NEW k \in Jobs, CapacityReply(k)
  PROVE  WorkerEffect(k)
<1> DEFINE r == [loc[k] EXCEPT !.key = minted[k] + 1]
<1>1. JobInv(k) /\ TypeOK
  BY DEF CoreInv
<1>2. /\ loc[k] = recs[k] /\ recs[k].state = "creating" /\ loc[k] \in Records
      /\ svc # "down" /\ svc' = svc /\ sub' = sub /\ pc[k] # "idle"
  BY <1>1 DEF JobInv, WorkersCopy, PlaceFitsState, CapacityReply, DownIsEmpty, TypeOK, env
<1>3. Owned(k) = {}
  <2>1. \A n \in Owned(k) : n = loc[k].key
    BY <1>1, <1>2 DEF JobInv, Tracked, Refers, Attached
  <2> QED
    BY <2>1 DEF Owned, Live, CapacityReply
<1>4. minted[k] + 1 \in Keys
  BY <1>1, KeysAssumption DEF CapacityReply, TypeOK, Keys
<1>5. r \in Records /\ r.state = "creating" /\ r.key \in Keys
  BY <1>2, <1>4 DEF Records, Keys
<1>6. PICK ok \in BOOLEAN :
        /\ Upsert(k, r, ok)
        /\ IF ok THEN Goto(k, "backoff") \/ Goto(k, "gaveup") ELSE Goto(k, "failed")
  BY DEF CapacityReply, WriteOutcomes
<1>7. /\ recs'[k] = r /\ disk'[k] = IF ok THEN r ELSE disk[k]
      /\ \A j \in Jobs \ {k} : recs'[j] = recs[j] /\ disk'[j] \in {disk[j], recs[j]}
  BY <1>1, <1>5, <1>6, UpsertEffect
<1>8. loc'[k] = r /\ \A j \in Jobs \ {k} : loc'[j] = loc[j]
  BY <1>1, SetLocEffect DEF CapacityReply
<1>9. /\ pc'[k] \in {"backoff", "gaveup", "failed"}
      /\ pc'[k] = "backoff" => ok
      /\ \A j \in Jobs \ {k} : pc'[j] = pc[j]
  BY <1>1, <1>6, GotoEffect
<1>10. Owned(k)' = {} /\ OthersKept(k)
  BY <1>3, <1>7, <1>8, <1>9, OwnedUnchanged DEF CapacityReply, OthersKept
<1>11. PlaceFitsState(k)' /\ NothingOwned(k)'
  BY <1>5, <1>7, <1>9, <1>10 DEF PlaceFitsState, NothingOwned
<1>12. InFlight(r)
  BY <1>5 DEF InFlight, Terminal, TerminalStates
<1>13. JobInv(k)'
  BY <1>1, <1>2, <1>5, <1>7, <1>8, <1>10, <1>11, <1>12, Rewrites
<1> QED
  BY <1>2, <1>9, <1>10, <1>13 DEF WorkerEffect

\* A 429 leaves an unused key, and so no VM to lose.
LEMMA RateLimitedKeeps ==
  ASSUME CoreInv, NEW k \in Jobs, RateLimited(k)
  PROVE  WorkerEffect(k)
<1>1. JobInv(k) /\ pc[k] = "create" /\ vm[k][loc[k].key] = "unused"
  BY DEF CoreInv, RateLimited
<1>2. loc[k] = recs[k] /\ recs[k].state = "creating" /\ svc # "down"
  BY <1>1 DEF JobInv, WorkersCopy, PlaceFitsState, DownIsEmpty
<1>3. \A n \in Owned(k) : n = loc[k].key
  BY <1>1, <1>2 DEF JobInv, Tracked, Refers, Attached
<1>4. Owned(k) = {}
  BY <1>1, <1>3 DEF Owned, Live
<1>5. CASE Goto(k, "backoff")
  BY <1>1, <1>4, <1>5, MoveKeeps DEF RateLimited, WorkerPlaces
<1>6. CASE Goto(k, "gaveup")
  BY <1>1, <1>4, <1>6, MoveKeeps DEF RateLimited, WorkerPlaces
<1> QED
  BY <1>5, <1>6 DEF RateLimited

\* A failed create makes the VM it may have created a stray.
LEMMA CreateFailsKeeps ==
  ASSUME CoreInv, NEW k \in Jobs, CreateFails(k)
  PROVE  WorkerEffect(k)
<1>1. JobInv(k) /\ TypeOK
  BY DEF CoreInv
<1>2. svc # "down" /\ svc' = svc /\ sub' = sub /\ pc[k] # "idle"
  BY DEF CreateFails, env
<1>3. pc'[k] = "failed" /\ \A j \in Jobs \ {k} : pc'[j] = pc[j]
  BY <1>1, GotoEffect DEF CreateFails
<1>4. Owned(k)' = {} /\ \A j \in Jobs \ {k} : strays'[j] = strays[j]
  BY <1>1, LoseTrackEffect DEF CreateFails
<1>5. recs' = recs /\ disk' = disk /\ loc' = loc /\ vm' = vm
  BY DEF CreateFails
<1>6. PlaceFitsState(k)' /\ NothingOwned(k)' /\ OthersKept(k)
  BY <1>3, <1>4, <1>5 DEF PlaceFitsState, NothingOwned, OthersKept
<1>7. JobInv(k)'
  BY <1>1, <1>2, <1>3, <1>4, <1>5, <1>6, OnlyMoves
<1> QED
  BY <1>2, <1>3, <1>6, <1>7 DEF WorkerEffect

\* All steps of createVM together.
LEMMA CreateStepKeeps ==
  ASSUME CoreInv, NEW k \in Jobs, CreateStep(k)
  PROVE  WorkerEffect(k)
<1>1. CASE BackoffEnds(k)
  BY <1>1, MoveKeeps DEF BackoffEnds, WorkerPlaces
<1>2. CASE DropsRequest(k)
  <2>1. Owned(k) = {} /\ pc[k] # "idle"
    BY <1>2 DEF DropsRequest, CoreInv, JobInv, NothingOwned
  <2> QED
    BY <1>2, <2>1, FinishKeeps DEF DropsRequest, TerminalStates
<1> QED
  BY <1>1, <1>2, BeginCreateKeeps, ServerCreateKeeps, CreateReturnsKeeps,
     CapacityReplyKeeps, RateLimitedKeeps, CreateFailsKeeps DEF CreateStep

\* The states between wait_ready and job_done hold on to the same VM id.
LEMMA AdvanceKeeps ==
  ASSUME CoreInv, NEW k \in Jobs, NEW from \in Attached, NEW to \in Attached,
         Advance(k, from, to)
  PROVE  WorkerEffect(k)
<1> DEFINE r == [loc[k] EXCEPT !.state = to]
<1>1. JobInv(k) /\ TypeOK
  BY DEF CoreInv
<1>2. loc[k] = recs[k] /\ loc[k] \in Records /\ svc # "down" /\ loc[k].state = from
  BY <1>1 DEF JobInv, WorkersCopy, Advance, DownIsEmpty, TypeOK
<1>3. r \in Records /\ r.state = to /\ r.vm = loc[k].vm
  BY <1>2, RecordTypes DEF JobStates, Records
<1>4. \A n \in Owned(k) : Refers(r, n)
  BY <1>1, <1>2, <1>3 DEF JobInv, Tracked, Refers, Attached
<1>5. InFlight(r)
  BY <1>3 DEF InFlight, Terminal, TerminalStates, Attached
<1>6. Record(k, r, "attempt") /\ pc[k] # "idle" /\ UNCHANGED <<vm, strays, env>>
  BY DEF Advance
<1> QED
  BY <1>3, <1>4, <1>5, <1>6, RecordKeeps DEF WorkerPlaces

\* Whatever deleteVM does, the job owns no VM afterwards: it is gone, or the
\* service has lost track of it.
LEMMA DeleteKeeps ==
  ASSUME CoreInv, NEW k \in Jobs, pc[k] \in {"cleanup", "delete"}, DeleteVM(k),
         Goto(k, IF pc[k] = "cleanup" THEN "failed" ELSE "deleted"),
         UNCHANGED <<recs, disk, loc, env>>
  PROVE  WorkerEffect(k)
<1>1. JobInv(k) /\ TypeOK
  BY DEF CoreInv
<1>2. /\ loc[k] = recs[k] /\ loc[k] \in Records /\ recs[k].state \in Attached
      /\ svc # "down" /\ svc' = svc /\ sub' = sub
  BY <1>1 DEF JobInv, WorkersCopy, PlaceFitsState, DownIsEmpty, TypeOK, Attached, env
<1>3. \A n \in Owned(k) : n = loc[k].vm
  BY <1>1, <1>2 DEF JobInv, Tracked, Refers, Attached
<1>4. Owned(k)' = {}
  <2>1. CASE SetVM(k, loc[k].vm, "gone") /\ UNCHANGED strays
    <3>1. loc[k].vm \in 0..MaxKeys
      BY <1>2 DEF Records
    <3>2. Owned(k)' = Owned(k) \ {loc[k].vm}
      BY <1>1, <2>1, <3>1, GoneEffect
    <3> QED
      BY <1>3, <3>2
  <2>2. CASE LoseTrack(k) /\ UNCHANGED vm
    BY <1>1, <2>2, LoseTrackEffect
  <2> QED
    BY <2>1, <2>2 DEF DeleteVM
<1>5. \A j \in Jobs : j # k => vm'[j] = vm[j] /\ strays'[j] = strays[j]
  BY <1>1 DEF DeleteVM, SetVM, LoseTrack, TypeOK
<1>6. /\ pc'[k] = (IF pc[k] = "cleanup" THEN "failed" ELSE "deleted")
      /\ \A j \in Jobs \ {k} : pc'[j] = pc[j]
  BY <1>1, GotoEffect
<1>7. OthersKept(k)
  BY <1>5, <1>6 DEF OthersKept
<1>8. PlaceFitsState(k)' /\ NothingOwned(k)'
  BY <1>1, <1>4, <1>6 DEF JobInv, PlaceFitsState, NothingOwned
<1>9. JobInv(k)'
  BY <1>1, <1>2, <1>4, <1>6, <1>8, OnlyMoves
<1> QED
  BY <1>2, <1>6, <1>7, <1>9 DEF WorkerEffect

\* So does deleting.
LEMMA EnterDeletingKeeps ==
  ASSUME CoreInv, NEW k \in Jobs, EnterDeleting(k)
  PROVE  WorkerEffect(k)
<1> DEFINE r == [loc[k] EXCEPT !.state = "deleting"]
<1>1. JobInv(k) /\ TypeOK
  BY DEF CoreInv
<1>2. /\ loc[k] = recs[k] /\ loc[k] \in Records /\ svc # "down"
      /\ loc[k].state \in {"job_done", "deleting"}
  BY <1>1 DEF JobInv, WorkersCopy, EnterDeleting, DownIsEmpty, TypeOK
<1>3. r \in Records /\ r.state = "deleting" /\ r.vm = loc[k].vm
  BY <1>2, RecordTypes DEF JobStates, Records, Attached
<1>4. \A n \in Owned(k) : Refers(r, n)
  BY <1>1, <1>2, <1>3 DEF JobInv, Tracked, Refers, Attached
<1>5. InFlight(r)
  BY <1>3 DEF InFlight, Terminal, TerminalStates
<1>6. Record(k, r, "delete") /\ pc[k] # "idle" /\ UNCHANGED <<vm, strays, env>>
  BY DEF EnterDeleting
<1> QED
  BY <1>3, <1>4, <1>5, <1>6, RecordKeeps DEF WorkerPlaces

\* All steps of an attempt that has its VM together.
LEMMA VMStepKeeps ==
  ASSUME CoreInv, NEW k \in Jobs, VMStep(k)
  PROVE  WorkerEffect(k)
<1>1. CASE Ready(k) \/ Launched(k) \/ MarkRunning(k) \/ MonitorEnds(k)
  BY <1>1, AdvanceKeeps DEF Ready, Launched, MarkRunning, MonitorEnds, Attached
<1>2. CASE StepFails(k)
  <2>1. recs[k].state \in Attached
    BY <1>2 DEF StepFails, CoreInv, JobInv, WorkersCopy, Attached
  <2> QED
    BY <1>2, <2>1, MoveKeeps DEF StepFails, WorkerPlaces
<1>3. CASE CleanupDelete(k)
  BY <1>3, DeleteKeeps DEF CleanupDelete
<1>4. CASE FinalDelete(k)
  BY <1>4, DeleteKeeps DEF FinalDelete
<1>5. CASE Complete(k)
  <2>1. Owned(k) = {} /\ pc[k] # "idle"
    BY <1>5 DEF Complete, CoreInv, JobInv, NothingOwned
  <2> QED
    BY <1>5, <2>1, FinishKeeps DEF Complete, TerminalStates
<1> QED
  BY <1>1, <1>2, <1>3, <1>4, <1>5, EnterDeletingKeeps DEF VMStep

\* After a failed attempt the record owns no VM, so a fresh one forgets none.
LEMMA RetryStepKeeps ==
  ASSUME CoreInv, NEW k \in Jobs, RetryStep(k)
  PROVE  WorkerEffect(k)
<1>1. JobInv(k) /\ TypeOK
  BY DEF CoreInv
<1>2. pc[k] \in {"failed", "gaveup"} => Owned(k) = {}
  BY <1>1 DEF JobInv, NothingOwned
<1>3. CASE GiveUpJob(k)
  BY <1>2, <1>3, FinishKeeps DEF GiveUpJob, TerminalStates
<1>4. CASE JobAlreadyFinished(k)
  BY <1>2, <1>4, FinishKeeps DEF JobAlreadyFinished, MayRetry, TerminalStates
<1>5. CASE Retry(k)
  <2> DEFINE r == [NewRecord EXCEPT !.retry = loc[k].retry + 1]
  <2>1. loc[k].retry + 1 \in 0..MaxRetries
    BY <1>1, <1>5, RetriesAssumption DEF Retry, MayRetry, TypeOK, Records
  <2>2. r \in Records /\ r.state = "queued"
    BY <2>1, RecordTypes DEF NewRecord, NoRecord
  <2>3. InFlight(r)
    BY <2>2 DEF InFlight, Terminal, TerminalStates
  <2>4. /\ Record(k, r, "pace") /\ pc[k] # "idle" /\ Owned(k) = {}
        /\ UNCHANGED <<vm, strays, env>>
    BY <1>2, <1>5 DEF Retry, MayRetry
  <2> QED
    BY <2>2, <2>3, <2>4, RecordKeeps DEF WorkerPlaces
<1>6. CASE PaceEnds(k)
  BY <1>6, MoveKeeps DEF PaceEnds, WorkerPlaces
<1> QED
  BY <1>3, <1>4, <1>5, <1>6 DEF RetryStep

\* Every step of a worker has the effect the invariant is proved from.
LEMMA WorkerHasEffect ==
  ASSUME CoreInv, NEW k \in Jobs, Worker(k)
  PROVE  WorkerEffect(k)
BY AcquireKeeps, StopsHereKeeps, CreateStepKeeps, VMStepKeeps, RetryStepKeeps DEF Worker

\* It leaves the process, the poller and GitHub alone.
LEMMA WorkerKeepsEnv ==
  ASSUME NEW k \in Jobs, Worker(k)
  PROVE  UNCHANGED env
BY DEF Worker, Acquire, StopsHere, CreateStep, BeginCreate, ServerCreate, CreateReturns,
   CapacityReply, RateLimited, CreateFails, BackoffEnds, DropsRequest, VMStep, Ready,
   Launched, MarkRunning, MonitorEnds, Advance, StepFails, CleanupDelete, EnterDeleting,
   FinalDelete, Complete, RetryStep, GiveUpJob, JobAlreadyFinished, Retry, PaceEnds

\* The steps of workers preserve the invariant, for the job and for the others.
LEMMA WorkerKeeps ==
  ASSUME CoreInv, NEW k \in Jobs, Worker(k)
  PROVE  \A j \in Jobs : JobInv(j)'
<1>1. WorkerEffect(k)
  BY WorkerHasEffect
<1>2. ASSUME NEW j \in Jobs, j # k
      PROVE  JobInv(j)'
  <2>1. Owned(j)' = Owned(j)
    BY <1>1, <1>2, OwnedUnchanged DEF WorkerEffect, OthersKept
  <2> QED
    BY <1>1, <1>2, <2>1, Undisturbed DEF WorkerEffect, OthersKept, CoreInv
<1> QED
  BY <1>1, <1>2 DEF WorkerEffect

-----------------------------------------------------------------------------
(* The steps of the poller, the process and the environment.               *)

\* Submit preserves the invariant: it only writes for jobs without a record.
LEMMA SubmitKeeps ==
  ASSUME CoreInv, NEW k \in Jobs, Submit(k), Unseen(k) => ~Terminal(disk[k])
  PROVE  \A j \in Jobs : JobInv(j)'
<1>1. TypeOK /\ \A j \in Jobs : JobInv(j)
  BY DEF CoreInv
<1>2. svc # "down" /\ svc' = svc
  BY DEF Submit, SubmitNew, SubmitLeftover, SubmitIgnored, Polls
<1>3. pc' = pc /\ loc' = loc /\ \A j \in Jobs : Owned(j)' = Owned(j)
  BY OwnedUnchanged DEF Submit, SubmitNew, SubmitLeftover, SubmitIgnored
<1>4. CASE SubmitNew(k)
  <2>1. PICK ok \in BOOLEAN : Upsert(k, NewRecord, ok)
    BY <1>4 DEF SubmitNew, WriteOutcomes
  <2>2. /\ recs'[k] = NewRecord /\ disk'[k] \in {NewRecord, disk[k]}
        /\ \A j \in Jobs \ {k} : recs'[j] = recs[j] /\ disk'[j] \in {disk[j], recs[j]}
    BY <1>1, <2>1, NewRecordEffect
  <2>3. ASSUME NEW j \in Jobs, j # k
        PROVE  JobInv(j)'
    BY <1>1, <1>2, <1>3, <2>2, <2>3, Undisturbed
  <2>4. pc[k] = "idle" /\ recs[k].state = "none" /\ ~Terminal(disk[k])
    BY <1>4 DEF SubmitNew, Unseen
  <2>5. Owned(k) = {}
    BY <1>1, <1>2, <2>4 DEF JobInv, Tracked, Refers, Attached
  <2>6. ~Terminal(NewRecord)
    BY DEF Terminal, TerminalStates, NewRecord, NoRecord
  <2>7. JobInv(k)'
    BY <1>2, <1>3, <2>2, <2>4, <2>5, <2>6 DEF JobInv, WorkersCopy, PlaceFitsState,
       NothingOwned, TerminalKept, DownIsEmpty, Tracked
  <2> QED
    BY <2>3, <2>7
<1>5. CASE SubmitLeftover(k) \/ SubmitIgnored(k)
  BY <1>1, <1>2, <1>3, <1>5, Undisturbed DEF SubmitLeftover, SubmitIgnored
<1> QED
  BY <1>4, <1>5 DEF Submit

\* A worker that starts from the record the store still holds.
LEMMA SpawnKeeps ==
  ASSUME CoreInv, NEW k \in Jobs, Spawn(k, recs[k]), InFlight(recs[k]),
         UNCHANGED <<svc, recs, disk, vm, strays>>
  PROVE  \A j \in Jobs : JobInv(j)'
<1>1. TypeOK /\ svc # "down" /\ (\A j \in Jobs : JobInv(j))
  BY DEF CoreInv, JobInv, DownIsEmpty, InFlight, NoRecord
<1>2. \A j \in Jobs : Owned(j)' = Owned(j)
  BY OwnedUnchanged
<1>3. \A j \in Jobs \ {k} : pc'[j] = pc[j] /\ loc'[j] = loc[j]
  BY <1>1 DEF Spawn, Goto, SetLoc, TypeOK
<1>4. ASSUME NEW j \in Jobs, j # k
      PROVE  JobInv(j)'
  BY <1>1, <1>2, <1>3, <1>4, Undisturbed
<1>5. CASE pc[k] # "idle"
  BY <1>1, <1>2, <1>4, <1>5, Undisturbed DEF Spawn
<1>6. CASE pc[k] = "idle"
  <2>1. pc'[k] = "sem" /\ loc'[k] = recs[k]
    BY <1>1, <1>6 DEF Spawn, Goto, SetLoc, TypeOK
  <2>2. Tracked(k)'
    BY <1>1, <1>2 DEF JobInv, Tracked, Refers
  <2>3. JobInv(k)'
    BY <1>1, <2>1, <2>2 DEF JobInv, WorkersCopy, PlaceFitsState, NothingOwned,
       TerminalKept, DownIsEmpty, InFlight, Terminal
  <2> QED
    BY <1>4, <2>3
<1> QED
  BY <1>5, <1>6

(***************************************************************************)
(* Losing the memory leaves the file, and that is enough to find every     *)
(* owned VM again.                                                         *)
(***************************************************************************)
LEMMA ProcessKeeps ==
  ASSUME CoreInv, Process
  PROVE  \A j \in Jobs : JobInv(j)'
<1>1. TypeOK /\ \A j \in Jobs : JobInv(j)
  BY DEF CoreInv
<1>2. \A j \in Jobs : NoSub.job # j
  BY JobsAssumption DEF NoSub
<1>3. ASSUME LoseMemory, UNCHANGED <<disk, vm, strays>>, NEW j \in Jobs
      PROVE  JobInv(j)'
  <2>1. /\ svc' = "down" /\ pc'[j] = "idle" /\ recs'[j] = NoRecord /\ sub'.job # j
        /\ disk'[j] = disk[j] /\ Owned(j)' = Owned(j)
    BY <1>2, <1>3, OwnedUnchanged DEF LoseMemory
  <2>2. Tracked(j)'
    BY <1>1, <2>1 DEF JobInv, Tracked, Refers
  <2> QED
    BY <2>1, <2>2 DEF JobInv, WorkersCopy, PlaceFitsState, NothingOwned,
       TerminalKept, DownIsEmpty
<1>4. CASE Crash
  BY <1>3, <1>4 DEF Crash
<1>5. CASE ShutdownDone
  BY <1>3, <1>5 DEF ShutdownDone
<1>6. CASE Sigterm
  <2> SUFFICES ASSUME NEW j \in Jobs
               PROVE  JobInv(j)'
    OBVIOUS
  <2>1. /\ svc # "down" /\ svc' # "down" /\ sub' = sub /\ recs' = recs /\ disk' = disk
        /\ pc' = pc /\ loc' = loc /\ vm' = vm /\ strays' = strays
    BY <1>6 DEF Sigterm
  <2>2. Owned(j)' = Owned(j)
    BY <2>1, OwnedUnchanged
  <2> QED
    BY <1>1, <2>1, <2>2, Undisturbed
<1>7. CASE Restart
  <2> SUFFICES ASSUME NEW j \in Jobs
               PROVE  JobInv(j)'
    OBVIOUS
  <2>1. /\ svc' = "up" /\ recs'[j] = disk[j] /\ disk'[j] = disk[j] /\ sub' = sub /\ vm' = vm
        /\ pc'[j] = (IF InFlight(disk[j]) THEN "sem" ELSE "idle")
        /\ InFlight(disk[j]) => loc'[j] = disk[j]
        /\ strays'[j] = {n \in strays[j] : ~Refers(disk[j], n)}
    BY <1>7 DEF Restart, Resumes
  <2>2. sub.job # j
    BY <1>1, <1>7 DEF JobInv, DownIsEmpty, Restart
  <2>3. Tracked(j)'
    <3> SUFFICES ASSUME NEW n \in Owned(j)'
                 PROVE  Refers(disk[j], n)
      BY <2>1 DEF Tracked, Refers
    <3>1. CASE n \in strays[j]
      BY <2>1, <3>1 DEF Owned, Live
    <3>2. CASE n \notin strays[j]
      <4>1. n \in Owned(j)
        BY <2>1, <3>2 DEF Owned, Live
      <4> QED
        BY <1>1, <4>1 DEF JobInv, Tracked
    <3> QED
      BY <3>1, <3>2
  <2> QED
    BY <2>1, <2>2, <2>3 DEF JobInv, WorkersCopy, PlaceFitsState, NothingOwned,
       TerminalKept, DownIsEmpty, InFlight
<1>8. CASE RestartWithoutState
  <2> SUFFICES ASSUME NEW j \in Jobs
               PROVE  JobInv(j)'
    OBVIOUS
  <2>1. /\ svc = "down" /\ svc' = "up" /\ recs' = recs /\ disk' = recs
        /\ pc' = pc /\ sub' = sub
    BY <1>8 DEF RestartWithoutState
  <2>2. Owned(j)' = {}
    BY <1>8 DEF RestartWithoutState, Owned, Live
  <2>3. pc[j] = "idle" /\ sub.job # j
    BY <1>1, <2>1 DEF JobInv, DownIsEmpty
  <2> QED
    BY <2>1, <2>2, <2>3 DEF JobInv, WorkersCopy, PlaceFitsState, NothingOwned,
       TerminalKept, DownIsEmpty, Tracked
<1> QED
  BY <1>4, <1>5, <1>6, <1>7, <1>8 DEF Process

\* A VM that is gone, whoever deleted it, is owned by nobody.
LEMMA LossKeeps ==
  ASSUME CoreInv, NEW k \in Jobs, NEW n \in Keys, SetVM(k, n, "gone"),
         UNCHANGED <<svc, recs, disk, pc, loc, sub, strays>>
  PROVE  \A j \in Jobs : JobInv(j)'
<1> SUFFICES ASSUME NEW j \in Jobs
             PROVE  JobInv(j)'
  OBVIOUS
<1>1. TypeOK /\ JobInv(j)
  BY DEF CoreInv
<1>2. Owned(j)' \subseteq Owned(j)
  <2>1. \A m \in Keys : vm'[j][m] \in {vm[j][m], "gone"}
    BY <1>1 DEF SetVM, TypeOK
  <2> QED
    BY <2>1 DEF Owned, Live
<1>3. Tracked(j)'
  BY <1>1, <1>2 DEF JobInv, Tracked, Refers
<1> QED
  BY <1>1, <1>2, <1>3 DEF JobInv, WorkersCopy, PlaceFitsState, NothingOwned,
     TerminalKept, DownIsEmpty, InFlight, Terminal

\* Steps that change none of the variables involved, or drop a submission.
LEMMA UnchangedKeeps ==
  ASSUME CoreInv, NEW j \in Jobs, sub' \in {sub, NoSub},
         UNCHANGED <<svc, recs, disk, pc, loc, vm, strays>>
  PROVE  JobInv(j)'
<1>0. NoSub.job # j
  BY JobsAssumption DEF NoSub
<1>1. JobInv(j) /\ Owned(j)' = Owned(j) /\ (svc = "down" => sub'.job # j)
  BY <1>0, OwnedUnchanged DEF CoreInv, JobInv, DownIsEmpty
<1>2. Tracked(j)'
  BY <1>1 DEF JobInv, Tracked, Refers
<1> QED
  BY <1>1, <1>2 DEF JobInv, WorkersCopy, PlaceFitsState, NothingOwned, TerminalKept,
     DownIsEmpty, InFlight, Terminal

-----------------------------------------------------------------------------
(* The invariant of the scaler.                                            *)

\* The inductive invariant holds at the start,
LEMMA IInvInitially == Init => IInv
<1> SUFFICES ASSUME Init, NEW k \in Jobs
             PROVE  JobInv(k) /\ PollersCopy(k) /\ TerminalInMemory(k)
  BY TypeOKInitially DEF IInv, CoreInv
<1>1. /\ pc[k] = "idle" /\ recs[k] = NoRecord /\ disk[k] = NoRecord /\ svc = "up"
      /\ sub.job # k
  BY JobsAssumption DEF Init, NoSub
<1>2. Owned(k) = {}
  BY DEF Init, Owned, Live
<1>3. JobInv(k)
  BY <1>1, <1>2 DEF JobInv, WorkersCopy, PlaceFitsState, NothingOwned, TerminalKept,
     DownIsEmpty, Tracked
<1> QED
  BY <1>1, <1>3 DEF PollersCopy, TerminalInMemory

\* its core is preserved by every step,
LEMMA CoreInductive == IInv /\ [Next]_vars => CoreInv'
<1> SUFFICES ASSUME IInv, [Next]_vars
             PROVE  \A j \in Jobs : JobInv(j)'
  BY TypeOKInductive DEF IInv, CoreInv
<1>0. CoreInv /\ TypeOK
  BY DEF IInv, CoreInv
<1>1. CASE UNCHANGED vars \/ AllHandled
  BY <1>0, <1>1, UnchangedKeeps DEF vars, AllHandled
<1>2. ASSUME NEW k \in Jobs, JobFinishes(k)
      PROVE  \A j \in Jobs : JobInv(j)'
  BY <1>0, <1>2, UnchangedKeeps DEF JobFinishes
<1>3. ASSUME NEW k \in Jobs, VMVanishes(k)
      PROVE  \A j \in Jobs : JobInv(j)'
  BY <1>0, <1>3, LossKeeps DEF VMVanishes, Live
<1>4. ASSUME NEW k \in Jobs, Submit(k)
      PROVE  \A j \in Jobs : JobInv(j)'
  <2>1. Unseen(k) => ~Terminal(disk[k])
    BY <1>4 DEF IInv, TerminalInMemory, Unseen, Terminal, TerminalStates, Submit, SubmitNew,
       SubmitLeftover, SubmitIgnored, Polls
  <2> QED
    BY <1>0, <1>4, <2>1, SubmitKeeps
<1>5. CASE SubmitSpawns
  BY <1>0, <1>5, SpawnKeeps DEF IInv, PollersCopy, SubmitSpawns
<1> QED
  BY <1>0, <1>1, <1>2, <1>3, <1>4, <1>5, WorkerKeeps, ProcessKeeps DEF Next

\* and so are the poller's copy and the terminal records.
LEMMA CopiesInductive ==
  ASSUME IInv, [Next]_vars, NEW j \in Jobs
  PROVE  PollersCopy(j)' /\ TerminalInMemory(j)'
<1>0. /\ TypeOK /\ JobInv(j) /\ PollersCopy(j) /\ TerminalInMemory(j) /\ CoreInv
      /\ NoSub.job # j
  BY JobsAssumption DEF IInv, CoreInv, NoSub
<1>1. JobInv(j)'
  BY CoreInductive DEF CoreInv
<1>2. ASSUME svc # "down", recs'[j] = recs[j], disk'[j] \in {disk[j], recs[j]},
             sub'.job = j => pc'[j] = "idle" /\ sub'.rec = recs[j] /\ InFlight(recs[j])
      PROVE  PollersCopy(j)' /\ TerminalInMemory(j)'
  BY <1>0, <1>2 DEF PollersCopy, TerminalInMemory, InFlight, Terminal
<1>3. ASSUME UNCHANGED <<svc, recs, disk, pc, sub>>
      PROVE  PollersCopy(j)' /\ TerminalInMemory(j)'
  BY <1>0, <1>3 DEF PollersCopy, TerminalInMemory, InFlight, Terminal
<1>4. CASE UNCHANGED vars \/ AllHandled
  BY <1>3, <1>4 DEF vars, AllHandled
<1>5. ASSUME NEW k \in Jobs, JobFinishes(k) \/ VMVanishes(k)
      PROVE  PollersCopy(j)' /\ TerminalInMemory(j)'
  BY <1>3, <1>5 DEF JobFinishes, VMVanishes
<1>6. ASSUME NEW k \in Jobs, Worker(k)
      PROVE  PollersCopy(j)' /\ TerminalInMemory(j)'
  <2>1. WorkerEffect(k)
    BY <1>0, <1>6, WorkerHasEffect
  <2>2. CASE j # k
    BY <1>0, <1>2, <2>1, <2>2 DEF WorkerEffect, OthersKept, PollersCopy
  <2>3. CASE j = k
    <3>1. sub'.job # j
      BY <1>0, <2>1, <2>3 DEF WorkerEffect, PollersCopy
    <3>2. recs'[j].state # "none"
      BY <1>1, <2>1, <2>3 DEF WorkerEffect, JobInv, WorkersCopy, InFlight
    <3>3. Terminal(disk'[j]) => recs'[j] = disk'[j]
      BY <1>1, <2>1, <3>2 DEF WorkerEffect, JobInv, TerminalKept, Terminal, NoRecord
    <3> QED
      BY <3>1, <3>3 DEF PollersCopy, TerminalInMemory, Terminal
  <2> QED
    BY <2>2, <2>3
<1>7. ASSUME NEW k \in Jobs, SubmitNew(k)
      PROVE  PollersCopy(j)' /\ TerminalInMemory(j)'
  <2>1. PICK ok \in BOOLEAN :
          /\ Upsert(k, NewRecord, ok)
          /\ sub' = IF ok THEN [job |-> k, rec |-> NewRecord] ELSE NoSub
    BY <1>7 DEF SubmitNew, WriteOutcomes
  <2>2. /\ recs'[k] = NewRecord /\ disk'[k] \in {NewRecord, disk[k]}
        /\ \A i \in Jobs \ {k} : recs'[i] = recs[i] /\ disk'[i] \in {disk[i], recs[i]}
    BY <1>0, <2>1, NewRecordEffect
  <2>3. svc # "down" /\ pc[k] = "idle" /\ pc' = pc /\ recs[k].state = "none"
    BY <1>7 DEF SubmitNew, Polls, Unseen
  <2>4. CASE j # k
    BY <1>0, <1>2, <2>1, <2>2, <2>3, <2>4
  <2>5. CASE j = k
    <3>1. InFlight(NewRecord) /\ ~Terminal(NewRecord)
      BY DEF InFlight, Terminal, TerminalStates, NewRecord, NoRecord
    <3>2. ~Terminal(disk[k])
      BY <1>0, <2>3, <2>5 DEF TerminalInMemory, Terminal, TerminalStates
    <3>3. sub'.job = k => sub'.rec = NewRecord
      BY <1>0, <2>1, <2>5
    <3> QED
      BY <2>2, <2>3, <2>5, <3>1, <3>2, <3>3 DEF PollersCopy, TerminalInMemory
  <2> QED
    BY <2>4, <2>5
<1>8. ASSUME NEW k \in Jobs, SubmitLeftover(k)
      PROVE  PollersCopy(j)' /\ TerminalInMemory(j)'
  BY <1>0, <1>2, <1>8 DEF SubmitLeftover, Polls
<1>9. ASSUME NEW k \in Jobs, SubmitIgnored(k)
      PROVE  PollersCopy(j)' /\ TerminalInMemory(j)'
  BY <1>3, <1>9 DEF SubmitIgnored, Polls
<1>10. CASE SubmitSpawns
  <2>1. svc # "down"
    BY <1>10 DEF SubmitSpawns, IInv, CoreInv, JobInv, DownIsEmpty
  <2> QED
    BY <1>0, <1>2, <1>10, <2>1 DEF SubmitSpawns
<1>11. CASE Process
  <2>1. CASE Crash \/ ShutdownDone
    BY <1>0, <2>1 DEF Crash, ShutdownDone, LoseMemory, PollersCopy, TerminalInMemory
  <2>2. CASE Sigterm
    BY <1>0, <1>2, <2>2 DEF Sigterm, PollersCopy
  <2>3. CASE Restart \/ RestartWithoutState
    BY <1>0, <2>3
       DEF Restart, RestartWithoutState, JobInv, DownIsEmpty, PollersCopy, TerminalInMemory
  <2> QED
    BY <1>11, <2>1, <2>2, <2>3 DEF Process
<1> QED
  BY <1>4, <1>5, <1>6, <1>7, <1>8, <1>9, <1>10, <1>11 DEF Next, Submit

LEMMA IInvInductive == IInv /\ [Next]_vars => IInv'
BY CoreInductive, CopiesInductive DEF IInv

\* and so holds in every reachable state.
LEMMA Invariance == Spec => []IInv
BY IInvInitially, IInvInductive, PTL DEF Spec

(***************************************************************************)
(* Whenever a create may reach the VM service, the state file holds its    *)
(* idempotency key, whatever fails and whenever the process dies.          *)
(***************************************************************************)
THEOREM KeysAreDurable == Spec => []KeyDurable
<1>1. IInv => KeyDurable
  BY DEF IInv, CoreInv, JobInv, WorkersCopy, PlaceFitsState, KeyDurable
<1> QED
  BY <1>1, Invariance, PTL

\* Within reach of the records, no owned VM leaks,
LEMMA TrackedMeansNoLeak == CoreInv => NoLeak
BY DEF CoreInv, JobInv, Tracked, NoLeak

\* and as a record refers to one VM at most, a job owns one at most.
LEMMA RefersToOne ==
  ASSUME NEW k \in Jobs, NEW r, \A n \in Owned(k) : Refers(r, n)
  PROVE  Cardinality(Owned(k)) <= 1
<1>1. \A m, n \in Owned(k) : m = n
  BY DEF Refers, Attached
<1>2. CASE Owned(k) = {}
  BY <1>2, FS_EmptySet
<1>3. CASE Owned(k) # {}
  <2>1. PICK n : n \in Owned(k)
    BY <1>3
  <2>2. Owned(k) = {n}
    BY <1>1, <2>1
  <2>3. Cardinality(Owned(k)) = 1
    BY <2>2, FS_Singleton
  <2> QED
    BY <2>3
<1> QED
  BY <1>2, <1>3

LEMMA OwnsOne == CoreInv => OneVMPerJob
BY RefersToOne DEF CoreInv, JobInv, Tracked, OneVMPerJob

(***************************************************************************)
(* No VM leaks: a live VM the service has not lost track of through a      *)
(* failed call or a lost file is named by the durable record of its job.   *)
(***************************************************************************)
THEOREM NothingLeaks == Spec => []NoLeak
<1>1. IInv => NoLeak
  BY TrackedMeansNoLeak DEF IInv
<1> QED
  BY <1>1, Invariance, PTL

(***************************************************************************)
(* A job never has two tracked VMs: both would be named by one record.     *)
(***************************************************************************)
THEOREM OneVM == Spec => []OneVMPerJob
<1>1. IInv => OneVMPerJob
  BY OwnsOne DEF IInv
<1> QED
  BY <1>1, Invariance, PTL

(***************************************************************************)
(* A terminal record in the state file stays as it is, unless the file     *)
(* itself is lost.                                                         *)
(***************************************************************************)
LEMMA TerminalStep ==
  ASSUME IInv, [Next]_vars, NEW k \in Jobs, Terminal(disk[k])
  PROVE  disk'[k] = disk[k] \/ disk'[k] = NoRecord
<1>1. TypeOK /\ JobInv(k)
  BY DEF IInv, CoreInv
<1>2. CASE svc = "down"
  <2>1. recs[k] = NoRecord
    BY <1>1, <1>2 DEF JobInv, DownIsEmpty
  <2>2. ASSUME NEW j \in Jobs
        PROVE  ~Worker(j) /\ ~Submit(j)
    BY <1>2, WorkerHasEffect
    DEF IInv, WorkerEffect, Submit, SubmitNew, SubmitLeftover, SubmitIgnored, Polls
  <2>3. disk' = disk \/ disk' = recs
    BY <2>2 DEF Next, VMVanishes, JobFinishes, SubmitSpawns, Process, Crash, Sigterm,
       ShutdownDone, Restart, RestartWithoutState, AllHandled, vars
  <2> QED
    BY <2>1, <2>3
<1>3. CASE svc # "down"
  <2>1. recs[k] = disk[k] /\ pc[k] = "idle"
    BY <1>1, <1>3 DEF IInv, TerminalInMemory, JobInv, WorkersCopy, InFlight
  <2>2. ASSUME NEW j \in Jobs, Worker(j)
        PROVE  disk'[k] = disk[k]
    BY <2>1, <2>2, WorkerHasEffect DEF IInv, WorkerEffect, OthersKept
  <2>3. ASSUME NEW j \in Jobs, SubmitNew(j)
        PROVE  disk'[k] = disk[k]
    <3>1. j # k
      BY <2>1, <2>3 DEF SubmitNew, Unseen, Terminal, TerminalStates
    <3>2. PICK ok \in BOOLEAN : Upsert(j, NewRecord, ok)
      BY <2>3 DEF SubmitNew, WriteOutcomes
    <3> QED
      BY <1>1, <2>1, <3>1, <3>2, NewRecordEffect
  <2>4. ASSUME NEW j \in Jobs, SubmitLeftover(j) \/ SubmitIgnored(j)
        PROVE  disk'[k] = disk[k]
    BY <2>4 DEF SubmitLeftover, SubmitIgnored
  <2> QED
    BY <1>3, <2>2, <2>3, <2>4 DEF Next, Submit, VMVanishes, JobFinishes, SubmitSpawns,
       Process, Crash, Sigterm, ShutdownDone, Restart, RestartWithoutState, AllHandled, vars
<1> QED
  BY <1>2, <1>3

(***************************************************************************)
(* A terminal record in the file is never overwritten, whatever is         *)
(* redelivered, retried or written late (Submit and spawn in scaler.go).   *)
(***************************************************************************)
THEOREM TerminalStays == Spec => TerminalIsFinal
<1>1. IInv /\ [Next]_vars =>
        [\A k \in Jobs : Terminal(disk[k]) => disk'[k] = disk[k] \/ disk'[k] = NoRecord]_vars
  BY TerminalStep
<1> QED
  BY <1>1, Invariance, PTL DEF Spec, TerminalIsFinal

-----------------------------------------------------------------------------
(* The fleet bound.                                                        *)

Holders == {k \in Jobs : HoldsSlot(k)}

\* The workers that hold a slot can be counted.
LEMMA HoldersFinite == IsFiniteSet(Holders)
BY FS_Subset, JobsAssumption DEF Holders

\* Fewer holders are within the bound, too.
LEMMA FewerHolders ==
  ASSUME SlotsBounded, Holders' \subseteq Holders
  PROVE  SlotsBounded'
<1>1. Cardinality(Holders') <= Cardinality(Holders) /\ Cardinality(Holders) \in Nat
      /\ Cardinality(Holders') \in Nat
  BY HoldersFinite, FS_Subset, FS_CardinalityType
<1> QED
  BY <1>1, FleetAssumption DEF SlotsBounded, Holders

\* A slot is only taken when one is free.
LEMMA AcquireKeepsBound ==
  ASSUME CoreInv, SlotsBounded, NEW k \in Jobs, Acquire(k)
  PROVE  SlotsBounded'
<1>1. Holders' = Holders \cup {k} /\ k \notin Holders
  BY DEF CoreInv, TypeOK, Acquire, Goto, Holders, HoldsSlot
<1>2. Cardinality(Holders') = Cardinality(Holders) + 1
  BY <1>1, HoldersFinite, FS_AddElement
<1>3. Cardinality(Holders) < MaxConcurrentVMs
  BY DEF Acquire, SlotFree, Holders
<1> QED
  BY <1>2, <1>3, HoldersFinite, FS_CardinalityType, FleetAssumption DEF SlotsBounded, Holders

\* Where a worker's step leads: it gets a slot, keeps it, or gives it back
\* owning no VM; a worker that is told to stop may give it back with the VM.
LEMMA WorkerGoes ==
  ASSUME CoreInv, NEW k \in Jobs, Worker(k), ~Acquire(k)
  PROVE  /\ pc'[k] # "sem"
         /\ pc[k] = "sem" => pc'[k] = "idle" /\ svc = "stopping"
         /\ pc'[k] = "idle" => svc = "stopping" \/ Owned(k)' = {}
<1>1. JobInv(k) /\ TypeOK
  BY DEF CoreInv
<1>2. CASE StopsHere(k)
  BY <1>1, <1>2, GotoEffect DEF StopsHere, Return
<1>3. CASE DropsRequest(k) \/ Complete(k) \/ GiveUpJob(k) \/ JobAlreadyFinished(k)
  <2>1. Owned(k) = {} /\ pc[k] # "sem"
    BY <1>1, <1>3 DEF JobInv, NothingOwned, DropsRequest, Complete, GiveUpJob,
       JobAlreadyFinished, MayRetry
  <2>2. pc'[k] = "idle" /\ UNCHANGED <<vm, strays>>
    BY <1>1, <1>3, GotoEffect DEF DropsRequest, Complete, GiveUpJob, JobAlreadyFinished,
       Finish, Return
  <2> QED
    BY <2>1, <2>2, OwnedUnchanged
<1>4. CASE CreateStep(k) /\ ~DropsRequest(k)
  BY <1>1, <1>4, GotoEffect DEF CreateStep, BeginCreate, ServerCreate, CreateReturns,
     CapacityReply, RateLimited, CreateFails, BackoffEnds, Record
<1>5. CASE VMStep(k) /\ ~Complete(k)
  BY <1>1, <1>5, GotoEffect DEF VMStep, Ready, Launched, MarkRunning, MonitorEnds, Advance,
     StepFails, CleanupDelete, EnterDeleting, FinalDelete, Record
<1>6. CASE Retry(k) \/ PaceEnds(k)
  BY <1>1, <1>6, GotoEffect DEF Retry, MayRetry, PaceEnds, Record
<1> QED
  BY <1>2, <1>3, <1>4, <1>5, <1>6 DEF Worker, RetryStep

\* A worker gives its slot back only when it owns no VM.
LEMMA WorkerKeepsFleet ==
  ASSUME CoreInv, FleetInv, NEW k \in Jobs, Worker(k)
  PROVE  FleetInv'
<1>1. TypeOK /\ JobInv(k) /\ WorkerEffect(k) /\ svc' = svc /\ stops' = stops
  <2>1. UNCHANGED env
    BY DEF Worker, Acquire, StopsHere, CreateStep, BeginCreate, ServerCreate, CreateReturns,
       CapacityReply, RateLimited, CreateFails, BackoffEnds, DropsRequest, VMStep, Ready,
       Launched, MarkRunning, MonitorEnds, Advance, StepFails, CleanupDelete, EnterDeleting,
       FinalDelete, Complete, RetryStep, GiveUpJob, JobAlreadyFinished, Retry, PaceEnds
  <2> QED
    BY <2>1, WorkerHasEffect DEF CoreInv, env
<1>2. \A j \in Jobs : j # k => HoldsSlot(j)' = HoldsSlot(j) /\ Owned(j)' = Owned(j)
  BY <1>1, OwnedUnchanged DEF WorkerEffect, OthersKept, HoldsSlot
<1>3. CASE Acquire(k)
  <2>1. HoldsSlot(k)'
    BY <1>1, <1>3, GotoEffect DEF Acquire, HoldsSlot
  <2>2. OwnersHoldSlots'
    BY <1>1, <1>2, <2>1 DEF FleetInv, OwnersHoldSlots
  <2> QED
    BY <1>3, <2>2, AcquireKeepsBound DEF FleetInv
<1>4. CASE ~Acquire(k)
  <2>1. HoldsSlot(k)' => HoldsSlot(k)
    BY <1>1, <1>4, WorkerGoes DEF WorkerEffect, HoldsSlot
  <2>2. Holders' \subseteq Holders
    BY <1>2, <2>1 DEF Holders
  <2>3. stops = 0 => HoldsSlot(k)' \/ Owned(k)' = {}
    BY <1>4, WorkerGoes DEF FleetInv, OwnersHoldSlots, HoldsSlot
  <2>4. OwnersHoldSlots'
    BY <1>1, <1>2, <2>3 DEF FleetInv, OwnersHoldSlots
  <2> QED
    BY <2>2, <2>4, FewerHolders DEF FleetInv
<1> QED
  BY <1>3, <1>4

\* The slots are in order at the start,
LEMMA FleetInvInitially == Init => FleetInv
<1> SUFFICES ASSUME Init
             PROVE  FleetInv
  OBVIOUS
<1>1. Holders = {}
  BY DEF Init, Holders, HoldsSlot
<1>2. SlotsBounded
  BY <1>1, FS_EmptySet, FleetAssumption DEF SlotsBounded, Holders
<1>3. svc = "up" /\ \A k \in Jobs : Owned(k) = {}
  BY DEF Init, Owned, Live
<1> QED
  BY <1>2, <1>3 DEF FleetInv, OwnersHoldSlots

\* and stay in order.
LEMMA FleetInvInductive == IInv /\ FleetInv /\ [Next]_vars => FleetInv'
<1> SUFFICES ASSUME IInv, FleetInv, [Next]_vars
             PROVE  FleetInv'
  OBVIOUS
<1>1. CoreInv /\ TypeOK /\ SlotsBounded /\ OwnersHoldSlots
  BY DEF IInv, CoreInv, FleetInv
<1>2. ASSUME Holders' = Holders, svc' = svc, stops' = stops,
             \A j \in Jobs : Owned(j)' \subseteq Owned(j)
      PROVE  FleetInv'
  <2>1. \A j \in Jobs : HoldsSlot(j)' = HoldsSlot(j)
    BY <1>2 DEF Holders, HoldsSlot
  <2> QED
    BY <1>1, <1>2, <2>1, FewerHolders DEF FleetInv, OwnersHoldSlots
<1>3. ASSUME UNCHANGED <<svc, pc, vm, strays, stops>>
      PROVE  FleetInv'
  BY <1>2, <1>3, OwnedUnchanged DEF Holders, HoldsSlot
<1>4. CASE UNCHANGED vars \/ AllHandled
  BY <1>3, <1>4 DEF vars, AllHandled
<1>5. ASSUME NEW k \in Jobs, Submit(k) \/ JobFinishes(k)
      PROVE  FleetInv'
  BY <1>3, <1>5 DEF Submit, SubmitNew, SubmitLeftover, SubmitIgnored, JobFinishes
<1>6. ASSUME NEW k \in Jobs, VMVanishes(k)
      PROVE  FleetInv'
  <2>1. \A j \in Jobs : Owned(j)' \subseteq Owned(j)
    BY <1>1, <1>6 DEF VMVanishes, SetVM, Owned, Live, TypeOK
  <2> QED
    BY <1>2, <1>6, <2>1 DEF VMVanishes, Holders, HoldsSlot
<1>7. CASE SubmitSpawns
  <2>1. \A j \in Jobs : HoldsSlot(j)' = HoldsSlot(j)
    BY <1>1, <1>7 DEF SubmitSpawns, Spawn, Goto, HoldsSlot, TypeOK
  <2> QED
    BY <1>2, <1>7, <2>1, OwnedUnchanged DEF Holders, SubmitSpawns
<1>8. CASE Process
  <2>1. stops' # 0
    <3>1. CASE Crash \/ Sigterm
      BY <1>1, <3>1 DEF Crash, Sigterm, TypeOK
    <3>2. CASE ShutdownDone \/ Restart \/ RestartWithoutState
      BY <1>1, <3>2 DEF ShutdownDone, Restart, RestartWithoutState, OwnersHoldSlots
    <3> QED
      BY <1>8, <3>1, <3>2 DEF Process
  <2>2. Holders' \subseteq Holders
    BY <1>8 DEF Process, Crash, LoseMemory, Sigterm, ShutdownDone, Restart,
       RestartWithoutState, Holders, HoldsSlot
  <2> QED
    BY <1>1, <2>1, <2>2, FewerHolders DEF FleetInv, OwnersHoldSlots
<1> QED
  BY <1>1, <1>4, <1>5, <1>6, <1>7, <1>8, WorkerKeepsFleet DEF Next

(***************************************************************************)
(* Until the process is first stopped, at most MaxConcurrentVMs jobs have  *)
(* a tracked VM.                                                           *)
(***************************************************************************)
THEOREM FleetIsBounded == Spec => []FleetBoundUnlessStopped
<1>1. FleetInv => FleetBoundUnlessStopped
  <2> SUFFICES ASSUME FleetInv, stops = 0
               PROVE  Cardinality({k \in Jobs : Owned(k) # {}}) <= MaxConcurrentVMs
    BY DEF FleetBoundUnlessStopped, FleetBound
  <2> DEFINE O == {k \in Jobs : Owned(k) # {}}
  <2>1. O \subseteq Holders
    BY DEF FleetInv, OwnersHoldSlots, Holders
  <2>2. Cardinality(O) <= Cardinality(Holders) /\ Cardinality(O) \in Nat
        /\ Cardinality(Holders) \in Nat
    BY <2>1, HoldersFinite, FS_Subset, FS_CardinalityType
  <2> QED
    BY <2>2, FleetAssumption DEF FleetInv, SlotsBounded, Holders
<1> QED
  BY <1>1, FleetInvInitially, FleetInvInductive, Invariance, PTL DEF Spec

-----------------------------------------------------------------------------
(* The contract of VMLease: the two shapes of a worker's step.             *)

\* The record memory holds after the step accounts for what the VM service has.
GoodRecord(k) ==
  /\ recs'[k].state # "none"
  /\ Names(k, recs'[k])
  /\ Answers(k, recs[k]) <= Answers(k, recs'[k])

Writes(k) ==
  /\ UNCHANGED <<vm, strays>>
  /\ disk'[k] \in {recs'[k], disk[k]}

Hides(k)      == UNCHANGED vm /\ LoseTrack(k)
Deletes(k)    == UNCHANGED strays /\ \E n \in Keys : Created(k, n) /\ SetVM(k, n, "gone")
Asks(k, s)    == /\ UNCHANGED strays /\ recs'[k] = recs[k] /\ disk[k] = recs[k]
                 /\ recs[k].state = "creating" /\ recs[k].key \in Keys
                 /\ vm[k][recs[k].key] = "unused" /\ SetVM(k, recs[k].key, s)

Touches(k) ==
  /\ UNCHANGED disk
  /\ Hides(k) \/ Deletes(k) \/ Asks(k, "live") \/ Asks(k, "rejected")

WorkerShape(k) == GoodRecord(k) /\ (Writes(k) \/ Touches(k))

\* A record that stays in memory goes on accounting for the VMs.
LEMMA SameRecord ==
  ASSUME CoreLInv, NEW k \in Jobs, pc[k] # "idle", recs'[k] = recs[k]
  PROVE  GoodRecord(k)
<1>1. recs[k].state # "none" /\ recs[k].retry \in Nat
  BY DEF CoreLInv, CoreInv, JobInv, WorkersCopy, InFlight, TypeOK, Records
<1>2. Names(k, recs[k]) /\ Answers(k, recs[k]) \in Nat
  BY <1>1 DEF CoreLInv, LeaseFits, Answers
<1> QED
  BY <1>1, <1>2 DEF GoodRecord

\* A record past its create answers for as many VMs as any of its retry count.
LEMMA AnswersMost ==
  ASSUME NEW k \in Jobs, NEW r \in Records, NEW q \in Records,
         r.retry = q.retry, r.state # "none", PastCreate(k, r) \/ ~PastCreate(k, q)
  PROVE  Answers(k, q) <= Answers(k, r)
BY DEF Answers, Records

\* The facts about a worker's own record that the cases below start from.
LEMMA WorkerFacts ==
  ASSUME CoreLInv, NEW k \in Jobs, pc[k] # "idle"
  PROVE  /\ TypeOK /\ JobInv(k) /\ LeaseFits(k)
         /\ loc[k] = recs[k] /\ recs[k] \in Records /\ disk[k] \in Records
         /\ recs[k].state # "none" /\ ~Terminal(recs[k])
         /\ recs[k].retry \in Nat
BY DEF CoreLInv, CoreInv, JobInv, WorkersCopy, InFlight, TypeOK, Records

\* The write of a worker that goes on, with a record that names no new VM.
LEMMA RecordShape ==
  ASSUME CoreLInv, NEW k \in Jobs, pc[k] # "idle", NEW r \in Records, NEW p, Record(k, r, p),
         UNCHANGED <<vm, strays>>, r.state # "none", Names(k, r),
         Answers(k, recs[k]) <= Answers(k, r)
  PROVE  WorkerShape(k)
<1>1. recs'[k] = r /\ disk'[k] \in {r, disk[k]}
  BY WorkerFacts, RecordEffect
<1> QED
  BY <1>1 DEF WorkerShape, GoodRecord, Writes

\* The last write of a worker.
LEMMA FinishShape ==
  ASSUME CoreLInv, NEW k \in Jobs, pc[k] # "idle", NEW s \in TerminalStates, Finish(k, s),
         UNCHANGED <<vm, strays>>
  PROVE  WorkerShape(k)
<1> DEFINE r == [loc[k] EXCEPT !.state = s]
<1>1. s \in JobStates /\ r \in Records /\ r.state = s /\ r.retry = recs[k].retry
  BY WorkerFacts, RecordTypes DEF JobStates, Records
<1>2. recs'[k] = r /\ disk'[k] \in {r, disk[k]}
  BY <1>1, WorkerFacts, FinishEffect
<1>3. Names(k, r) /\ PastCreate(k, r) /\ r.state # "none"
  BY <1>1 DEF Names, PastCreate, TerminalStates, Attached
<1>4. Answers(k, recs[k]) <= Answers(k, r)
  BY <1>1, <1>3, WorkerFacts, AnswersMost
<1> QED
  BY <1>2, <1>3, <1>4 DEF WorkerShape, GoodRecord, Writes

\* A worker that only moves.
LEMMA MoveShape ==
  ASSUME CoreLInv, NEW k \in Jobs, pc[k] # "idle", UNCHANGED <<recs, disk, vm, strays>>
  PROVE  WorkerShape(k)
BY SameRecord DEF WorkerShape, Writes

\* A worker that moves on in its attempt.
LEMMA AdvanceShape ==
  ASSUME CoreLInv, NEW k \in Jobs, NEW from \in Attached, NEW to \in Attached, Advance(k, from, to)
  PROVE  WorkerShape(k)
<1> DEFINE r == [loc[k] EXCEPT !.state = to]
<1>1. pc[k] # "idle" /\ loc[k].state = from /\ Record(k, r, "attempt")
      /\ UNCHANGED <<vm, strays>>
  BY DEF Advance
<1>2. /\ r \in Records /\ r.state = to /\ r.retry = recs[k].retry /\ r.vm = recs[k].vm
      /\ recs[k].state = from
  BY <1>1, WorkerFacts, RecordTypes DEF JobStates, Records
<1>3. Names(k, r) /\ PastCreate(k, r) /\ r.state # "none"
  BY <1>1, <1>2, WorkerFacts DEF LeaseFits, Names, PastCreate, Attached
<1>4. Answers(k, recs[k]) <= Answers(k, r)
  BY <1>1, <1>2, <1>3, WorkerFacts, AnswersMost
<1> QED
  BY <1>1, <1>2, <1>3, <1>4, RecordShape

\* deleteVM ends the VM its record names, or hides it.
LEMMA DeleteShape ==
  ASSUME CoreLInv, NEW k \in Jobs, pc[k] \in {"cleanup", "delete"}, DeleteVM(k),
         UNCHANGED <<recs, disk>>
  PROVE  WorkerShape(k)
<1>1. pc[k] # "idle" /\ loc[k] = recs[k] /\ recs[k].state \in Attached
  BY WorkerFacts DEF JobInv, PlaceFitsState, Attached
<1>2. recs[k].vm \in Keys /\ Created(k, recs[k].vm)
  BY <1>1, WorkerFacts DEF LeaseFits, Names
<1> QED
  BY <1>1, <1>2, SameRecord DEF DeleteVM, WorkerShape, Touches, Deletes, Hides

\* The steps of createVM.
LEMMA CreateShape ==
  ASSUME CoreLInv, NEW k \in Jobs, CreateStep(k)
  PROVE  WorkerShape(k)
<1>0. pc[k] # "idle"
  BY DEF CreateStep, BeginCreate, ServerCreate, CreateReturns, CapacityReply, RateLimited,
     CreateFails, BackoffEnds, DropsRequest
<1>1. CASE BeginCreate(k)
  <2> DEFINE n == IF NeedsKey(loc[k]) THEN minted[k] + 1 ELSE loc[k].key
             r == [loc[k] EXCEPT !.key = n, !.state = "creating"]
  <2>1. loc[k] = recs[k] /\ loc[k].state \in {"queued", "creating"}
    BY <1>0, <1>1, WorkerFacts DEF BeginCreate
  <2>2. n \in 0..MaxKeys
    BY <1>0, <1>1, WorkerFacts, KeysAssumption DEF BeginCreate, TypeOK, Records
  <2>3. r \in Records /\ r.state = "creating" /\ r.retry = recs[k].retry /\ r.key = n
    BY <1>0, <2>1, <2>2, WorkerFacts, RecordTypes DEF JobStates, Records
  <2>4. PICK ok \in BOOLEAN :
          Upsert(k, r, ok) /\ IF ok THEN UNCHANGED strays ELSE LoseTrack(k)
    BY <1>1 DEF BeginCreate, WriteOutcomes
  <2>5. recs'[k] = r /\ disk'[k] = IF ok THEN r ELSE disk[k]
    BY <1>0, <2>3, <2>4, WorkerFacts, UpsertEffect
  <2>6. PastCreate(k, recs[k]) => PastCreate(k, r)
    BY <2>1, <2>3, WorkerFacts DEF PastCreate, NeedsKey, Keys
  <2>7. GoodRecord(k)
    BY <1>0, <2>3, <2>5, <2>6, WorkerFacts, AnswersMost DEF GoodRecord, Names, Attached
  <2>8. CASE ok
    BY <1>1, <2>4, <2>5, <2>7, <2>8 DEF BeginCreate, WorkerShape, Writes
  <2>9. CASE ~ok
    BY <1>1, <2>4, <2>7, <2>9 DEF BeginCreate, Upsert, WorkerShape, Touches, Hides
  <2> QED
    BY <2>8, <2>9
<1>2. CASE ServerCreate(k)
  <2>1. /\ recs[k].state = "creating" /\ recs[k].key \in Keys /\ disk[k] = recs[k]
        /\ loc[k] = recs[k]
    BY <1>0, <1>2, WorkerFacts DEF ServerCreate, JobInv, PlaceFitsState
  <2>2. GoodRecord(k)
    BY <1>0, <1>2, SameRecord DEF ServerCreate
  <2>3. CASE UNCHANGED vm
    BY <1>0, <1>2, <2>3, MoveShape DEF ServerCreate
  <2>4. CASE ~UNCHANGED vm
    BY <1>2, <2>1, <2>2, <2>4 DEF ServerCreate, WorkerShape, Touches, Asks
  <2> QED
    BY <2>3, <2>4
<1>3. CASE CreateReturns(k)
  <2> DEFINE r == [loc[k] EXCEPT !.vm = loc[k].key, !.state = "wait_ready"]
  <2>1. loc[k] = recs[k] /\ recs[k].key \in Keys /\ Created(k, recs[k].key)
    BY <1>0, <1>3, WorkerFacts DEF CreateReturns, JobInv, PlaceFitsState, Created
  <2>2. /\ r \in Records /\ r.state = "wait_ready" /\ r.retry = recs[k].retry
        /\ r.vm = recs[k].key
    BY <1>0, <2>1, WorkerFacts, RecordTypes DEF JobStates, Attached, Records, Keys
  <2>3. Names(k, r) /\ PastCreate(k, r)
    BY <2>1, <2>2 DEF Names, PastCreate
  <2>4. Answers(k, recs[k]) <= Answers(k, r)
    BY <1>0, <2>2, <2>3, WorkerFacts, AnswersMost
  <2> QED
    BY <1>0, <1>3, <2>2, <2>3, <2>4, RecordShape DEF CreateReturns
<1>4. CASE CapacityReply(k)
  <2> DEFINE r == [loc[k] EXCEPT !.key = minted[k] + 1]
  <2>1. loc[k] = recs[k] /\ recs[k].state = "creating" /\ ~PastCreate(k, recs[k])
    BY <1>0, <1>4, WorkerFacts DEF CapacityReply, JobInv, PlaceFitsState, PastCreate, Created
  <2>2. minted[k] + 1 \in 0..MaxKeys
    BY <1>0, <1>4, WorkerFacts, KeysAssumption DEF CapacityReply, TypeOK
  <2>3. r \in Records /\ r.state = "creating" /\ r.retry = recs[k].retry
    BY <1>0, <2>1, <2>2, WorkerFacts, RecordTypes DEF Records
  <2>4. PICK ok \in BOOLEAN : Upsert(k, r, ok)
    BY <1>4 DEF CapacityReply, WriteOutcomes
  <2>5. recs'[k] = r /\ disk'[k] \in {r, disk[k]}
    BY <1>0, <2>3, <2>4, WorkerFacts, UpsertEffect
  <2>6. GoodRecord(k)
    BY <1>0, <2>1, <2>3, <2>5, WorkerFacts, AnswersMost DEF GoodRecord, Names, Attached
  <2> QED
    BY <1>4, <2>5, <2>6 DEF CapacityReply, WorkerShape, Writes
<1>5. CASE RateLimited(k)
  BY <1>0, <1>5, MoveShape DEF RateLimited
<1>6. CASE CreateFails(k)
  BY <1>0, <1>6, SameRecord DEF CreateFails, WorkerShape, Touches, Hides
<1>7. CASE BackoffEnds(k)
  BY <1>0, <1>7, MoveShape DEF BackoffEnds
<1>8. CASE DropsRequest(k)
  BY <1>0, <1>8, FinishShape DEF DropsRequest, TerminalStates
<1> QED
  BY <1>1, <1>2, <1>3, <1>4, <1>5, <1>6, <1>7, <1>8 DEF CreateStep

\* Every step of a worker has one of the two shapes.
LEMMA WorkerHasShape ==
  ASSUME CoreLInv, NEW k \in Jobs, Worker(k)
  PROVE  WorkerShape(k)
<1>1. CASE Acquire(k) \/ StopsHere(k)
  BY <1>1, MoveShape DEF Acquire, StopsHere, StopPlaces
<1>2. CASE CreateStep(k)
  BY <1>2, CreateShape
<1>3. CASE Ready(k) \/ Launched(k) \/ MarkRunning(k) \/ MonitorEnds(k)
  BY <1>3, AdvanceShape DEF Ready, Launched, MarkRunning, MonitorEnds, Attached
<1>4. CASE StepFails(k) \/ PaceEnds(k)
  BY <1>4, MoveShape DEF StepFails, PaceEnds
<1>5. CASE CleanupDelete(k) \/ FinalDelete(k)
  BY <1>5, DeleteShape DEF CleanupDelete, FinalDelete
<1>6. CASE EnterDeleting(k)
  <2> DEFINE r == [loc[k] EXCEPT !.state = "deleting"]
  <2>1. pc[k] # "idle" /\ loc[k].state \in Attached /\ Record(k, r, "delete")
        /\ UNCHANGED <<vm, strays>>
    BY <1>6 DEF EnterDeleting, Attached
  <2>2. /\ r \in Records /\ r.state = "deleting" /\ r.retry = recs[k].retry
        /\ r.vm = recs[k].vm /\ loc[k] = recs[k]
    BY <2>1, WorkerFacts, RecordTypes DEF JobStates, Attached, Records
  <2>3. Names(k, r) /\ PastCreate(k, r)
    BY <2>1, <2>2, WorkerFacts DEF LeaseFits, Names, PastCreate
  <2>4. Answers(k, recs[k]) <= Answers(k, r)
    BY <2>1, <2>2, <2>3, WorkerFacts, AnswersMost
  <2> QED
    BY <2>1, <2>2, <2>3, <2>4, RecordShape
<1>7. CASE Complete(k) \/ GiveUpJob(k) \/ JobAlreadyFinished(k)
  BY <1>7, FinishShape
  DEF Complete, GiveUpJob, JobAlreadyFinished, MayRetry, TerminalStates
<1>8. CASE Retry(k)
  <2> DEFINE r == [NewRecord EXCEPT !.retry = loc[k].retry + 1]
  <2>1. pc[k] # "idle" /\ Record(k, r, "pace") /\ UNCHANGED <<vm, strays>>
    BY <1>8 DEF Retry, MayRetry
  <2>2. loc[k] = recs[k] /\ loc[k].retry + 1 \in 0..MaxRetries
    BY <1>8, <2>1, WorkerFacts, RetriesAssumption DEF Retry, MayRetry, Records
  <2>3. r \in Records /\ r.state = "queued" /\ r.retry = recs[k].retry + 1
    BY <2>2, RecordTypes DEF NewRecord, NoRecord, Records
  <2>4. Names(k, r) /\ Answers(k, recs[k]) <= Answers(k, r)
    BY <2>1, <2>3, WorkerFacts DEF Names, Attached, Answers, PastCreate
  <2> QED
    BY <2>1, <2>3, <2>4, RecordShape
<1> QED
  BY <1>1, <1>2, <1>3, <1>4, <1>5, <1>6, <1>7, <1>8 DEF Worker, VMStep, RetryStep

-----------------------------------------------------------------------------
(* The invariant behind the contract.                                      *)

\* A worker only creates unused names, and forgets no VM that was created.
LEMMA CreatedStays ==
  ASSUME CoreLInv, NEW k \in Jobs, Worker(k), NEW j \in Jobs, NEW n \in Keys, Created(j, n)
  PROVE  Created(j, n)'
<1>1. TypeOK
  BY DEF CoreLInv, CoreInv
<1>2. CASE j # k
  BY <1>2, WorkerHasEffect DEF CoreLInv, WorkerEffect, OthersKept, Created
<1>3. CASE j = k
  BY <1>1, <1>3, WorkerHasShape
  DEF WorkerShape, Writes, Touches, Hides, Deletes, Asks, SetVM, Created, TypeOK
<1> QED
  BY <1>2, <1>3

\* What a step has to keep for the records of a job to go on naming VMs that
\* exist.
LEMMA LeaseKept ==
  ASSUME TypeOK, NEW j \in Jobs, LeaseFits(j),
         \A n \in Keys : Created(j, n) => Created(j, n)',
         \A n \in strays'[j] : n \in strays[j] \/ n \in Live(j),
         recs'[j] = recs[j] \/ Names(j, recs'[j]),
         disk'[j] \in {disk[j], recs[j], recs'[j]}
  PROVE  LeaseFits(j)'
<1>1. StraysExist(j)'
  <2> SUFFICES ASSUME NEW n \in strays'[j]
               PROVE  Created(j, n)'
    BY DEF StraysExist, Created
  <2>1. n \in Keys /\ Created(j, n)
    BY DEF LeaseFits, StraysExist, Created, Live, TypeOK
  <2> QED
    BY <2>1
<1>2. ASSUME NEW r, Names(j, r), r.state \in Attached
      PROVE  r.vm \in Keys /\ vm'[j][r.vm] \in {"live", "gone"}
  BY <1>2 DEF Names, Created
<1>3. Names(j, recs[j])' /\ Names(j, disk[j])'
  <2>1. Names(j, recs'[j]) /\ Names(j, disk'[j])
    BY DEF LeaseFits
  <2> QED
    BY <1>2, <2>1 DEF Names, Created
<1> QED
  BY <1>1, <1>3 DEF LeaseFits

\* A worker keeps it,
LEMMA WorkerKeepsLease ==
  ASSUME CoreLInv, NEW k \in Jobs, Worker(k), NEW j \in Jobs
  PROVE  LeaseFits(j)'
<1>1. /\ WorkerEffect(k) /\ TypeOK /\ LeaseFits(j)
      /\ \A n \in Keys : Created(j, n) => Created(j, n)'
  BY WorkerHasEffect, CreatedStays DEF CoreLInv, CoreInv
<1>2. CASE j # k
  BY <1>1, <1>2, LeaseKept DEF WorkerEffect, OthersKept
<1>3. CASE j = k
  <2>1. GoodRecord(j) /\ (Writes(j) \/ Touches(j))
    BY <1>3, WorkerHasShape DEF WorkerShape
  <2>2. \A n \in strays'[j] : n \in strays[j] \/ n \in Live(j)
    BY <1>1, <2>1 DEF Writes, Touches, Hides, Deletes, Asks, LoseTrack, TypeOK
  <2>3. disk'[j] \in {disk[j], recs'[j]}
    BY <2>1 DEF Writes, Touches
  <2> QED
    BY <1>1, <2>1, <2>2, <2>3, LeaseKept DEF GoodRecord
<1> QED
  BY <1>2, <1>3

\* Submit keeps it,
LEMMA SubmitKeepsLease ==
  ASSUME CoreLInv, NEW k \in Jobs, Submit(k), NEW j \in Jobs
  PROVE  LeaseFits(j)'
<1>1. /\ TypeOK /\ LeaseFits(j) /\ UNCHANGED strays
      /\ \A n \in Keys : Created(j, n) => Created(j, n)'
  BY DEF CoreLInv, CoreInv, Submit, SubmitNew, SubmitLeftover, SubmitIgnored, Created
<1>2. CASE SubmitNew(k)
  <2>1. PICK ok \in BOOLEAN : Upsert(k, NewRecord, ok)
    BY <1>2 DEF SubmitNew, WriteOutcomes
  <2>2. /\ recs'[k] = NewRecord /\ disk'[k] \in {NewRecord, disk[k]}
        /\ j # k => recs'[j] = recs[j] /\ disk'[j] \in {disk[j], recs[j]}
    BY <1>1, <2>1, NewRecordEffect
  <2>3. Names(j, NewRecord)
    BY DEF NewRecord, NoRecord, Names, Attached
  <2> QED
    BY <1>1, <2>2, <2>3, LeaseKept
<1>3. CASE SubmitLeftover(k) \/ SubmitIgnored(k)
  BY <1>1, <1>3, LeaseKept DEF SubmitLeftover, SubmitIgnored
<1> QED
  BY <1>2, <1>3 DEF Submit

\* the process keeps it,
LEMMA ProcessKeepsLease ==
  ASSUME CoreLInv, Process, NEW j \in Jobs
  PROVE  LeaseFits(j)'
<1>1. /\ TypeOK /\ LeaseFits(j)
      /\ \A n \in Keys : Created(j, n) => Created(j, n)'
  BY DEF CoreLInv, CoreInv, Process, Crash, Sigterm, ShutdownDone, Restart,
     RestartWithoutState, Created
<1>2. Names(j, NoRecord)
  BY DEF NoRecord, Names, Attached
<1>3. CASE Crash \/ ShutdownDone
  BY <1>1, <1>2, <1>3, LeaseKept DEF Crash, ShutdownDone, LoseMemory
<1>4. CASE Sigterm
  BY <1>1, <1>4, LeaseKept DEF Sigterm
<1>5. CASE Restart
  <2>1. /\ recs' = disk /\ disk' = disk /\ Names(j, disk[j])
        /\ strays'[j] = {n \in strays[j] : ~Refers(disk[j], n)}
    BY <1>1, <1>5 DEF Restart, LeaseFits
  <2> QED
    BY <1>1, <2>1, LeaseKept
<1>6. CASE RestartWithoutState
  <2>1. recs' = recs /\ disk' = recs /\ strays'[j] = Live(j)
    BY <1>6 DEF RestartWithoutState
  <2> QED
    BY <1>1, <2>1, LeaseKept
<1> QED
  BY <1>3, <1>4, <1>5, <1>6 DEF Process

\* and so does whoever deletes a VM.
LEMMA LossKeepsLease ==
  ASSUME CoreLInv, NEW k \in Jobs, NEW n, SetVM(k, n, "gone"),
         UNCHANGED <<recs, disk, strays>>, NEW j \in Jobs
  PROVE  LeaseFits(j)'
<1>1. /\ TypeOK /\ LeaseFits(j)
      /\ \A m \in Keys : Created(j, m) => Created(j, m)'
  BY DEF CoreLInv, CoreInv, SetVM, Created, TypeOK
<1> QED
  BY <1>1, LeaseKept

\* The invariant holds at the start,
LEMMA LInvInitially == Init => LInv
<1> SUFFICES ASSUME Init, NEW j \in Jobs
             PROVE  LeaseFits(j) /\ MemoryCovers(j)
  BY IInvInitially DEF LInv
<1>1. recs[j] = NoRecord /\ disk[j] = NoRecord /\ strays[j] = {}
  BY DEF Init
<1> QED
  BY <1>1 DEF LeaseFits, StraysExist, Names, MemoryCovers, NoRecord, Attached

\* and is preserved by every step.
LEMMA LInvInductive == LInv /\ [Next]_vars => LInv'
<1> SUFFICES ASSUME LInv, [Next]_vars, NEW j \in Jobs
             PROVE  LeaseFits(j)' /\ MemoryCovers(j)'
  BY IInvInductive DEF LInv
<1>0. CoreLInv /\ TypeOK /\ LeaseFits(j) /\ MemoryCovers(j) /\ DownIsEmpty(j)
  BY DEF LInv, IInv, CoreLInv, CoreInv, JobInv
<1>1. ASSUME UNCHANGED <<svc, recs, disk, vm, strays>>
      PROVE  LeaseFits(j)' /\ MemoryCovers(j)'
  BY <1>0, <1>1, LeaseKept DEF MemoryCovers, Created
<1>2. CASE UNCHANGED vars \/ AllHandled \/ SubmitSpawns
  BY <1>1, <1>2 DEF vars, AllHandled, SubmitSpawns
<1>3. ASSUME NEW k \in Jobs, JobFinishes(k)
      PROVE  LeaseFits(j)' /\ MemoryCovers(j)'
  BY <1>1, <1>3 DEF JobFinishes
<1>4. ASSUME NEW k \in Jobs, VMVanishes(k)
      PROVE  LeaseFits(j)' /\ MemoryCovers(j)'
  BY <1>0, <1>4, LossKeepsLease DEF VMVanishes, MemoryCovers
<1>5. ASSUME NEW k \in Jobs, Worker(k)
      PROVE  MemoryCovers(j)'
  BY <1>0, <1>5, WorkerHasEffect, WorkerHasShape
  DEF CoreLInv, WorkerEffect, OthersKept, WorkerShape, GoodRecord, MemoryCovers
<1>6. ASSUME NEW k \in Jobs, Submit(k)
      PROVE  MemoryCovers(j)'
  <2>1. CASE SubmitNew(k)
    <3>1. PICK ok \in BOOLEAN : Upsert(k, NewRecord, ok)
      BY <2>1 DEF SubmitNew, WriteOutcomes
    <3>2. /\ recs'[k] = NewRecord
          /\ j # k => recs'[j] = recs[j] /\ disk'[j] \in {disk[j], recs[j]}
      BY <1>0, <3>1, NewRecordEffect
    <3> QED
      BY <1>0, <2>1, <3>2 DEF SubmitNew, Polls, MemoryCovers, NewRecord, NoRecord
  <2>2. CASE SubmitLeftover(k) \/ SubmitIgnored(k)
    BY <1>0, <2>2 DEF SubmitLeftover, SubmitIgnored, MemoryCovers
  <2> QED
    BY <1>6, <2>1, <2>2 DEF Submit
<1>7. ASSUME Process
      PROVE  MemoryCovers(j)'
  BY <1>0, <1>7 DEF Process, Crash, LoseMemory, Sigterm, ShutdownDone, Restart,
     RestartWithoutState, MemoryCovers
<1> QED
  BY <1>0, <1>2, <1>3, <1>4, <1>5, <1>6, <1>7, WorkerKeepsLease, SubmitKeepsLease,
     ProcessKeepsLease DEF Next

\* So it holds in every reachable state.
LEMMA LInvariance == Spec => []LInv
BY LInvInitially, LInvInductive, PTL DEF Spec

-----------------------------------------------------------------------------
(* The scaler implements the contract.                                     *)

\* The VMs a job holds are those it owns.
LEMMA HeldIsOwned ==
  ASSUME NEW k \in Jobs
  PROVE  Contract!Held(k) = Owned(k)
BY DEF Contract!Held, Stages, StageOf, Owned, Live

\* The stages of the VMs are stages of the contract.
LEMMA StagesType == Stages \in [Jobs -> [Keys -> Contract!Stages]]
BY DEF Stages, StageOf, Contract!Stages

\* Turning one VM of a job turns its stage.
LEMMA TurnsStage ==
  ASSUME TypeOK, NEW k \in Jobs, NEW n \in Keys, NEW s \in {"live", "gone"},
         SetVM(k, n, s), UNCHANGED strays, s = "live" => n \notin strays[k]
  PROVE  Contract!Turn(k, n, IF s = "live" THEN "held" ELSE "gone")
<1> DEFINE t == IF s = "live" THEN "held" ELSE "gone"
<1>1. StageOf(k, n)' = t
  BY DEF SetVM, StageOf, TypeOK
<1>2. \A j \in Jobs, m \in Keys : ~(j = k /\ m = n) => StageOf(j, m)' = StageOf(j, m)
  BY DEF SetVM, StageOf, TypeOK
<1> QED
  BY <1>1, <1>2 DEF Contract!Turn, Stages

\* Steps that leave the file and the VMs alone are no steps of the contract.
LEMMA QuietStep ==
  ASSUME UNCHANGED <<disk, vm, strays>>
  PROVE  UNCHANGED Contract!vars
BY DEF Contract!vars, Lives, Stages, StageOf

\* A write of the file is the contract's Write: a record that closes owns no
\* VM, because the invariant holds after the step too.
LEMMA WriteStep ==
  ASSUME LInv, LInv', [Next]_vars, svc # "down", UNCHANGED <<vm, strays>>,
         \A j \in Jobs : /\ disk'[j] \in {disk[j], recs[j], recs'[j]}
                         /\ recs'[j].state = "none" => recs[j].state = "none"
  PROVE  Contract!Write
<1>1. UNCHANGED Stages
  BY DEF Stages, StageOf
<1>2. ASSUME NEW j \in Jobs
      PROVE  \/ LifeOf(disk'[j]) = LifeOf(disk[j])
             \/ LifeOf(disk[j]) = "new" /\ LifeOf(disk'[j]) = "open"
             \/ /\ LifeOf(disk[j]) # "closed" /\ LifeOf(disk'[j]) = "closed"
                /\ Contract!Held(j) = {}
  <2>1. disk'[j].state = "none" => disk[j].state = "none"
    BY DEF LInv, MemoryCovers
  <2>2. Terminal(disk[j]) => disk'[j] = disk[j]
    BY <2>1, TerminalStep DEF LInv, Terminal, TerminalStates, NoRecord
  <2>3. Terminal(disk'[j]) => Owned(j) = {}
    <3>1. Owned(j)' = Owned(j)
      BY OwnedUnchanged
    <3> QED
      BY <3>1 DEF LInv, IInv, CoreInv, JobInv, Tracked, Refers, Terminal, TerminalStates, Attached
  <2> QED
    BY <2>1, <2>2, <2>3, HeldIsOwned DEF LifeOf
<1>3. Lives \in [Jobs -> Contract!Lives] /\ Lives' \in [Jobs -> Contract!Lives]
  BY DEF Lives, LifeOf, Contract!Lives
<1> QED
  BY <1>1, <1>2, <1>3 DEF Contract!Write, Lives

\* What a step of a worker that leaves the file alone does to the VMs: none
\* changes hands, those the job holds are lost, one ends, or an open job that
\* holds none is given one.
VMStage(k) ==
  \/ UNCHANGED Stages
  \/ Stages' = [Stages EXCEPT ![k] = Contract!Lost(k)]
  \/ \E n \in Keys : Stages[k][n] \in {"held", "lost"} /\ Contract!Turn(k, n, "gone")
  \/ /\ LifeOf(disk[k]) = "open" /\ Owned(k) = {}
     /\ \E n \in Keys : Stages[k][n] = "unused" /\ Contract!Turn(k, n, "held")

\* It is all that Touches allows.
LEMMA TouchesStage ==
  ASSUME CoreLInv, NEW k \in Jobs, Touches(k)
  PROVE  VMStage(k)
<1>1. /\ TypeOK /\ JobInv(k) /\ LeaseFits(k) /\ UNCHANGED disk
  BY DEF CoreLInv, CoreInv, Touches
<1>2. CASE Hides(k)
  <2>1. \A n \in Keys : StageOf(k, n)' = IF StageOf(k, n) = "held" THEN "lost" ELSE StageOf(k, n)
    BY <1>1, <1>2 DEF Hides, LoseTrack, Live, StageOf, TypeOK
  <2>2. \A j \in Jobs \ {k}, n \in Keys : StageOf(j, n)' = StageOf(j, n)
    BY <1>1, <1>2 DEF Hides, LoseTrack, Live, StageOf, TypeOK
  <2> QED
    BY <2>1, <2>2 DEF VMStage, Contract!Lost, Stages
<1>3. CASE Deletes(k)
  <2>1. PICK n \in Keys : Created(k, n) /\ SetVM(k, n, "gone") /\ UNCHANGED strays
    BY <1>3 DEF Deletes
  <2>2. CASE vm[k][n] = "gone"
    <3>1. UNCHANGED <<vm, strays>>
      BY <1>1, <2>1, <2>2 DEF SetVM, TypeOK
    <3> QED
      BY <3>1 DEF VMStage, Stages, StageOf
  <2>3. CASE vm[k][n] = "live"
    <3>1. Contract!Turn(k, n, "gone")
      BY <1>1, <2>1, TurnsStage
    <3>2. Stages[k][n] \in {"held", "lost"}
      BY <2>3 DEF Stages, StageOf
    <3> QED
      BY <3>1, <3>2 DEF VMStage
  <2> QED
    BY <2>1, <2>2, <2>3 DEF Created
<1>4. CASE Asks(k, "live")
  <2> DEFINE n == recs[k].key
  <2>1. /\ n \in Keys /\ disk[k].state = "creating" /\ disk[k].key = n /\ vm[k][n] = "unused"
        /\ SetVM(k, n, "live") /\ UNCHANGED strays
    BY <1>4 DEF Asks
  <2>2. n \notin strays[k]
    BY <1>1, <2>1 DEF LeaseFits, StraysExist, Created
  <2>3. Owned(k) = {}
    BY <1>1, <2>1 DEF JobInv, Tracked, Refers, Attached, Owned, Live
  <2>4. Contract!Turn(k, n, "held")
    BY <1>1, <2>1, <2>2, TurnsStage
  <2>5. LifeOf(disk[k]) = "open" /\ Stages[k][n] = "unused"
    BY <2>1 DEF LifeOf, Stages, StageOf, Terminal, TerminalStates
  <2> QED
    BY <2>1, <2>3, <2>4, <2>5 DEF VMStage
<1>5. CASE Asks(k, "rejected")
  <2>1. /\ vm[k][recs[k].key] = "unused" /\ SetVM(k, recs[k].key, "rejected") /\ UNCHANGED strays
    BY <1>5 DEF Asks
  <2>2. \A j \in Jobs, m \in Keys : StageOf(j, m)' = StageOf(j, m)
    BY <1>1, <2>1 DEF SetVM, StageOf, TypeOK
  <2> QED
    BY <2>2 DEF VMStage, Stages
<1> QED
  BY <1>2, <1>3, <1>4, <1>5 DEF Touches

\* A step of a worker is a step of the contract.
LEMMA WorkerRefines ==
  ASSUME LInv, LInv', NEW k \in Jobs, Worker(k)
  PROVE  [Contract!Next]_(Contract!vars)
<1>1. CoreLInv /\ CoreInv /\ [Next]_vars
  BY DEF LInv, IInv, CoreLInv, Next
<1>2. WorkerEffect(k) /\ GoodRecord(k) /\ (Writes(k) \/ Touches(k))
  BY <1>1, WorkerHasEffect, WorkerHasShape DEF WorkerShape
<1>3. CASE Writes(k)
  BY <1>1, <1>2, <1>3, WriteStep DEF Contract!Next, Writes, GoodRecord, WorkerEffect, OthersKept
<1>4. CASE Touches(k)
  <2>1. UNCHANGED Lives /\ Lives[k] = LifeOf(disk[k])
    BY <1>4 DEF Touches, Lives
  <2>2. VMStage(k)
    BY <1>1, <1>4, TouchesStage
  <2>3. CASE UNCHANGED Stages
    BY <2>1, <2>3 DEF Contract!vars
  <2>4. CASE Stages' = [Stages EXCEPT ![k] = Contract!Lost(k)]
    BY <2>1, <2>4 DEF Contract!Next, Contract!Lose
  <2>5. ASSUME NEW n \in Keys, Stages[k][n] \in {"held", "lost"}, Contract!Turn(k, n, "gone")
        PROVE  [Contract!Next]_(Contract!vars)
    BY <2>1, <2>5 DEF Contract!Next, Contract!End
  <2>6. ASSUME LifeOf(disk[k]) = "open", Owned(k) = {}, NEW n \in Keys,
               Stages[k][n] = "unused", Contract!Turn(k, n, "held")
        PROVE  [Contract!Next]_(Contract!vars)
    BY <2>1, <2>6, HeldIsOwned DEF Contract!Next, Contract!Rent
  <2> QED
    BY <2>2, <2>3, <2>4, <2>5, <2>6 DEF VMStage
<1> QED
  BY <1>2, <1>3, <1>4

\* A restart finds the VMs the file leads to again.
LEMMA RestartFinds ==
  ASSUME CoreInv, Restart
  PROVE  /\ Stages' \in [Jobs -> [Keys -> Contract!Stages]] /\ UNCHANGED disk
         /\ \A j \in Jobs :
              \/ Stages'[j] = Stages[j]
              \/ /\ LifeOf(disk[j]) = "open" /\ Owned(j) = {}
                 /\ \E n \in Keys : /\ Stages[j][n] = "lost"
                                    /\ Stages'[j] = [Stages[j] EXCEPT ![n] = "held"]
<1>1. /\ TypeOK /\ UNCHANGED <<disk, vm>>
      /\ \A j \in Jobs : strays'[j] = {n \in strays[j] : ~Refers(disk[j], n)}
  BY DEF Restart, CoreInv
<1>2. Stages' \in [Jobs -> [Keys -> Contract!Stages]]
  BY <1>1, StagesType DEF Stages, StageOf, Contract!Stages
<1>3. ASSUME NEW j \in Jobs
      PROVE  \/ Stages'[j] = Stages[j]
             \/ /\ LifeOf(disk[j]) = "open" /\ Owned(j) = {}
                /\ \E n \in Keys : /\ Stages[j][n] = "lost"
                                   /\ Stages'[j] = [Stages[j] EXCEPT ![n] = "held"]
  <2>1. CASE \A n \in Live(j) : n \in strays[j] => ~Refers(disk[j], n)
    <3>1. \A n \in Keys : StageOf(j, n)' = StageOf(j, n)
      BY <1>1, <2>1 DEF StageOf, Live
    <3> QED
      BY <3>1 DEF Stages
  <2>2. CASE ~ \A n \in Live(j) : n \in strays[j] => ~Refers(disk[j], n)
    <3>1. PICK n \in Live(j) : n \in strays[j] /\ Refers(disk[j], n)
      BY <2>2
    <3>2. \A m : Refers(disk[j], m) => m = n
      BY <3>1 DEF Refers, Attached
    <3>3. Owned(j) = {}
      BY <3>1, <3>2 DEF CoreInv, JobInv, Tracked, Owned
    <3>4. LifeOf(disk[j]) = "open"
      BY <3>1 DEF Refers, Attached, LifeOf, Terminal, TerminalStates
    <3>5. n \in Keys /\ vm[j][n] = "live"
      BY <3>1 DEF Live
    <3>6. /\ StageOf(j, n) = "lost" /\ StageOf(j, n)' = "held"
          /\ \A m \in Keys \ {n} : StageOf(j, m)' = StageOf(j, m)
      BY <1>1, <3>1, <3>2, <3>5 DEF StageOf
    <3> QED
      BY <3>3, <3>4, <3>5, <3>6 DEF Stages
  <2> QED
    BY <2>1, <2>2
<1> QED
  BY <1>1, <1>2, <1>3

LEMMA RestartRefines ==
  ASSUME LInv, Restart
  PROVE  [Contract!Next]_(Contract!vars)
<1>1. /\ Stages' \in [Jobs -> [Keys -> Contract!Stages]] /\ UNCHANGED Lives
      /\ \A j \in Jobs :
           \/ Stages'[j] = Stages[j]
           \/ /\ Lives[j] = "open" /\ Contract!Held(j) = {}
              /\ \E n \in Keys : /\ Stages[j][n] = "lost"
                                 /\ Stages'[j] = [Stages[j] EXCEPT ![n] = "held"]
  BY RestartFinds, HeldIsOwned DEF LInv, IInv, Lives
<1>2. Contract!Find
  BY <1>1 DEF Contract!Find
<1> QED
  BY <1>2 DEF Contract!Next

\* Without its file the service forgets every job and loses every VM.
LEMMA ForgetRefines ==
  ASSUME LInv, RestartWithoutState
  PROVE  [Contract!Next]_(Contract!vars)
<1>1. /\ TypeOK /\ StateFileMayBeLost /\ vm' = vm
      /\ \A j \in Jobs : disk'[j] = NoRecord /\ strays'[j] = Live(j)
  BY DEF RestartWithoutState, LInv, IInv, CoreInv, JobInv, DownIsEmpty
<1>2. Lives' = [j \in Jobs |-> "new"]
  BY <1>1 DEF Lives, LifeOf, NoRecord
<1>3. \A j \in Jobs, n \in Keys :
        StageOf(j, n)' = IF StageOf(j, n) = "held" THEN "lost" ELSE StageOf(j, n)
  BY <1>1 DEF StageOf, Live
<1>4. Stages' = [j \in Jobs |-> Contract!Lost(j)]
  BY <1>3 DEF Stages, Contract!Lost
<1>5. Contract!Forget
  BY <1>1, <1>2, <1>4 DEF Contract!Forget
<1> QED
  BY <1>5 DEF Contract!Next

\* A VM that dies ends its lease.
LEMMA VanishRefines ==
  ASSUME LInv, NEW k \in Jobs, VMVanishes(k)
  PROVE  [Contract!Next]_(Contract!vars)
<1>1. PICK n \in Live(k) : SetVM(k, n, "gone") /\ UNCHANGED <<disk, strays>>
  BY DEF VMVanishes
<1>2. n \in Keys /\ Contract!Turn(k, n, "gone") /\ Stages[k][n] \in {"held", "lost"}
  BY <1>1, TurnsStage DEF Live, LInv, IInv, CoreInv, Stages, StageOf
<1>3. Contract!End(k, n)
  BY <1>1, <1>2 DEF Contract!End, Lives
<1> QED
  BY <1>2, <1>3 DEF Contract!Next

\* The poller only writes.
LEMMA SubmitRefines ==
  ASSUME LInv, LInv', NEW k \in Jobs, Submit(k)
  PROVE  [Contract!Next]_(Contract!vars)
<1>1. TypeOK /\ svc # "down" /\ UNCHANGED <<vm, strays>> /\ [Next]_vars
  BY DEF LInv, IInv, CoreInv, Next, Submit, SubmitNew, SubmitLeftover, SubmitIgnored, Polls
<1>2. CASE SubmitNew(k)
  <2>1. PICK ok \in BOOLEAN : Upsert(k, NewRecord, ok)
    BY <1>2 DEF SubmitNew, WriteOutcomes
  <2>2. /\ recs'[k] = NewRecord /\ disk'[k] \in {NewRecord, disk[k]}
        /\ \A j \in Jobs \ {k} : recs'[j] = recs[j] /\ disk'[j] \in {disk[j], recs[j]}
    BY <1>1, <2>1, NewRecordEffect
  <2>3. NewRecord.state = "queued"
    BY DEF NewRecord, NoRecord
  <2>4. Contract!Write
    BY <1>1, <2>2, <2>3, WriteStep
  <2> QED
    BY <2>4 DEF Contract!Next
<1>3. CASE SubmitLeftover(k) \/ SubmitIgnored(k)
  BY <1>3, QuietStep DEF SubmitLeftover, SubmitIgnored
<1> QED
  BY <1>2, <1>3 DEF Submit

\* The contract starts where the scaler does.
LEMMA ContractInitially == Init => Contract!Init
BY DEF Init, Contract!Init, Lives, LifeOf, NoRecord, Stages, StageOf

\* Every step of the scaler is a step of the contract, or none.
LEMMA NextRefines == LInv /\ LInv' /\ [Next]_vars => [Contract!Next]_(Contract!vars)
<1> SUFFICES ASSUME LInv, LInv', [Next]_vars
             PROVE  [Contract!Next]_(Contract!vars)
  OBVIOUS
<1>1. CASE UNCHANGED vars \/ AllHandled \/ SubmitSpawns
  BY <1>1, QuietStep DEF vars, AllHandled, SubmitSpawns
<1>2. CASE Crash \/ Sigterm \/ ShutdownDone
  BY <1>2, QuietStep DEF Crash, Sigterm, ShutdownDone
<1>3. ASSUME NEW k \in Jobs, JobFinishes(k)
      PROVE  [Contract!Next]_(Contract!vars)
  BY <1>3, QuietStep DEF JobFinishes
<1> QED
  BY <1>1, <1>2, <1>3, WorkerRefines, RestartRefines, ForgetRefines, VanishRefines,
     SubmitRefines DEF Next, Process

(***************************************************************************)
(* The scaler implements the contract of VMLease: whatever fails and       *)
(* whenever it is stopped, a VM is created once, for an open job that      *)
(* holds none, and a record closes, for good, only when its job holds none *)
(* (createVM, deleteVM and the FSM of job.go over the store).              *)
(***************************************************************************)
THEOREM ScalerKeepsContract == Spec => KeepsContract
<1>1. Init /\ [][Next]_vars => Contract!Init /\ [][Contract!Next]_(Contract!vars)
  BY ContractInitially, NextRefines, LInvInitially, LInvInductive, PTL
<1> QED
  BY <1>1 DEF Spec, KeepsContract, Contract!Spec

-----------------------------------------------------------------------------
(* The retry budget.                                                       *)

\* The VMs of a job can be counted, and a record answers for a number.
LEMMA Countable ==
  ASSUME NEW k \in Jobs
  PROVE  /\ IsFiniteSet(VMsOf(k)) /\ Cardinality(VMsOf(k)) \in Nat
         /\ \A r \in Records : Answers(k, r) \in Nat
<1>1. IsFiniteSet(Keys)
  BY FS_Interval, KeysAssumption DEF Keys
<1>2. IsFiniteSet(VMsOf(k))
  BY <1>1, FS_Subset DEF VMsOf
<1> QED
  BY <1>2, FS_CardinalityType, RetriesAssumption DEF Answers, Records

\* As long as no VM is created, it is enough that a record is only replaced by
\* one that answers for as many.
LEMMA SameVMsCovered ==
  ASSUME TypeOK, TypeOK', NEW j \in Jobs, Covered(j), VMsOf(j)' = VMsOf(j),
         svc # "down", Answers(j, recs[j]) <= Answers(j, recs'[j]),
         disk'[j] \in {disk[j], recs[j], recs'[j]}
  PROVE  Covered(j)'
<1>1. /\ recs[j] \in Records /\ recs'[j] \in Records /\ disk[j] \in Records
      /\ Cardinality(VMsOf(j)) \in Nat
  BY Countable DEF TypeOK
<1>2. \A r : Answers(j, r) = IF r.state = "none" THEN 0
                ELSE IF r.state # "queued" /\ (r.state = "creating" => r.key \in VMsOf(j))
                       THEN r.retry + 1 ELSE r.retry
  BY DEF Answers, PastCreate, VMsOf
<1>3. /\ Answers(j, recs[j])' = Answers(j, recs'[j])
      /\ Answers(j, disk[j])' = Answers(j, disk'[j])
  BY <1>2 DEF Answers, PastCreate, VMsOf
<1>4. Cardinality(VMsOf(j)) <= Answers(j, recs'[j])
  BY <1>1, Countable DEF Covered
<1>5. Cardinality(VMsOf(j)) <= Answers(j, disk'[j])
  BY <1>1, <1>4, Countable DEF Covered
<1> QED
  BY <1>3, <1>4, <1>5 DEF Covered

\* A create adds one VM, and its record answers for one more.
LEMMA CreateCovered ==
  ASSUME LInv, NEW k \in Jobs, Covered(k), UNCHANGED disk, Asks(k, "live"), svc' = svc
  PROVE  Covered(k)'
<1> DEFINE n == recs[k].key
<1>1. /\ n \in Keys /\ recs[k].state = "creating" /\ disk[k] = recs[k] /\ recs'[k] = recs[k]
      /\ disk'[k] = recs[k] /\ ~Created(k, n) /\ recs[k] \in Records
  BY DEF Asks, Created, LInv, IInv, CoreInv, TypeOK
<1>2. \A m \in Keys : Created(k, m)' <=> Created(k, m) \/ m = n
  BY <1>1 DEF LInv, IInv, CoreInv, TypeOK, Asks, SetVM, Created
<1>3. VMsOf(k)' = VMsOf(k) \cup {n} /\ n \notin VMsOf(k)
  BY <1>1, <1>2 DEF VMsOf
<1>4. Cardinality(VMsOf(k)') = Cardinality(VMsOf(k)) + 1
  BY <1>3, Countable, FS_AddElement
<1>5. Answers(k, recs[k]) = recs[k].retry
  BY <1>1 DEF Answers, PastCreate
<1>6. Answers(k, recs[k])' = recs[k].retry + 1 /\ Answers(k, disk[k])' = recs[k].retry + 1
  BY <1>1, <1>2 DEF Answers, PastCreate
<1>7. recs[k].retry \in Nat /\ Cardinality(VMsOf(k)) \in Nat
  BY <1>1, Countable, RetriesAssumption DEF Records
<1> QED
  BY <1>1, <1>4, <1>5, <1>6, <1>7 DEF Covered

\* A worker stays within the budget,
LEMMA WorkerKeepsBudget ==
  ASSUME LInv, NEW k \in Jobs, Worker(k), NEW j \in Jobs, Covered(j)
  PROVE  Covered(j)'
<1>1. /\ TypeOK /\ TypeOK' /\ WorkerEffect(k) /\ svc # "down" /\ svc' = svc
  <2>1. UNCHANGED env
    BY WorkerKeepsEnv
  <2>2. TypeOK' /\ TypeOK
    BY TypeOKInductive DEF LInv, IInv, CoreInv, Next
  <2> QED
    BY <2>1, <2>2, WorkerHasEffect DEF LInv, IInv, CoreInv, WorkerEffect, env
<1>2. CASE j # k
  <2>1. /\ vm'[j] = vm[j] /\ recs'[j] = recs[j] /\ disk'[j] \in {disk[j], recs[j]}
        /\ recs[j] \in Records
    BY <1>1, <1>2 DEF WorkerEffect, OthersKept, TypeOK
  <2>2. VMsOf(j)' = VMsOf(j) /\ Answers(j, recs[j]) \in Nat
    BY <2>1, Countable DEF VMsOf, Created
  <2> QED
    BY <1>1, <2>1, <2>2, SameVMsCovered
<1>3. CASE j = k
  <2>1. GoodRecord(j) /\ (Writes(j) \/ Touches(j))
    BY <1>3, WorkerHasShape DEF LInv, IInv, CoreLInv, WorkerShape
  <2>2. CASE Writes(j)
    <3>1. VMsOf(j)' = VMsOf(j)
      BY <2>2 DEF Writes, VMsOf, Created
    <3> QED
      BY <1>1, <2>1, <2>2, <3>1, SameVMsCovered DEF Writes, GoodRecord
  <2>3. CASE UNCHANGED disk /\ (Hides(j) \/ Deletes(j) \/ Asks(j, "rejected"))
    <3>1. \A n \in Keys : Created(j, n)' <=> Created(j, n)
      BY <1>1, <2>3 DEF Hides, Deletes, Asks, SetVM, Created, TypeOK
    <3>2. VMsOf(j)' = VMsOf(j)
      BY <3>1 DEF VMsOf
    <3> QED
      BY <1>1, <2>1, <2>3, <3>2, SameVMsCovered DEF GoodRecord
  <2>4. CASE UNCHANGED disk /\ Asks(j, "live")
    BY <1>1, <2>4, CreateCovered
  <2> QED
    BY <2>1, <2>2, <2>3, <2>4 DEF Touches
<1> QED
  BY <1>2, <1>3

\* Submit does: the job it writes has had no VM yet,
LEMMA SubmitKeepsBudget ==
  ASSUME LInv, NEW k \in Jobs, Submit(k), NEW j \in Jobs, Covered(j)
  PROVE  Covered(j)'
<1>1. TypeOK /\ TypeOK' /\ svc # "down" /\ VMsOf(j)' = VMsOf(j)
  <2>1. TypeOK' /\ TypeOK
    BY TypeOKInductive DEF LInv, IInv, CoreInv, Next
  <2> QED
    BY <2>1 DEF Submit, SubmitNew, SubmitLeftover, SubmitIgnored, Polls, VMsOf, Created
<1>2. Answers(j, recs[j]) \in Nat /\ Answers(j, NewRecord) = 0
  BY <1>1, Countable DEF TypeOK, Answers, PastCreate, NewRecord, NoRecord
<1>3. CASE SubmitNew(k)
  <2>1. PICK ok \in BOOLEAN : Upsert(k, NewRecord, ok)
    BY <1>3 DEF SubmitNew, WriteOutcomes
  <2>2. /\ recs'[k] = NewRecord /\ disk'[k] \in {NewRecord, disk[k]}
        /\ j # k => recs'[j] = recs[j] /\ disk'[j] \in {disk[j], recs[j]}
    BY <1>1, <2>1, NewRecordEffect
  <2>3. Answers(k, recs[k]) = 0
    BY <1>3 DEF SubmitNew, Unseen, Answers
  <2> QED
    BY <1>1, <1>2, <2>2, <2>3, SameVMsCovered
<1>4. CASE SubmitLeftover(k) \/ SubmitIgnored(k)
  BY <1>1, <1>2, <1>4, SameVMsCovered DEF SubmitLeftover, SubmitIgnored
<1> QED
  BY <1>3, <1>4 DEF Submit

\* and so does everything else.
LEMMA BudgetInductive == LInv /\ BudgetInv /\ [Next]_vars => BudgetInv'
<1> SUFFICES ASSUME LInv, BudgetInv, [Next]_vars, ~StateFileMayBeLost, NEW j \in Jobs
             PROVE  Covered(j)'
  BY DEF BudgetInv
<1>1. Covered(j) /\ TypeOK
  BY DEF BudgetInv, LInv, IInv, CoreInv
<1>2. ASSUME UNCHANGED <<svc, recs, disk, vm>>
      PROVE  Covered(j)'
  BY <1>1, <1>2 DEF Covered, VMsOf, Answers, PastCreate, Created
<1>3. CASE UNCHANGED vars \/ AllHandled \/ SubmitSpawns
  BY <1>2, <1>3 DEF vars, AllHandled, SubmitSpawns
<1>4. ASSUME NEW k \in Jobs, JobFinishes(k)
      PROVE  Covered(j)'
  BY <1>2, <1>4 DEF JobFinishes
<1>5. ASSUME NEW k \in Jobs, VMVanishes(k)
      PROVE  Covered(j)'
  <2>1. \A n \in Keys : Created(j, n)' <=> Created(j, n)
    BY <1>1, <1>5 DEF VMVanishes, SetVM, Live, Created, TypeOK
  <2>2. svc' = svc /\ recs' = recs /\ disk' = disk /\ VMsOf(j)' = VMsOf(j)
    BY <1>5, <2>1 DEF VMVanishes, VMsOf
  <2>3. /\ Answers(j, disk[j])' = Answers(j, disk[j])
        /\ Answers(j, recs[j])' = Answers(j, recs[j])
    BY <2>1, <2>2 DEF Answers, PastCreate
  <2> QED
    BY <1>1, <2>2, <2>3 DEF Covered
<1>6. CASE Process
  <2>1. \/ svc' = "down" /\ disk' = disk
        \/ svc' # "down" /\ disk' = disk /\ (recs' = disk \/ (recs' = recs /\ svc # "down"))
    BY <1>6 DEF Process, Crash, LoseMemory, Sigterm, ShutdownDone, Restart, RestartWithoutState
  <2>2. vm' = vm
    BY <1>6 DEF Process, Crash, Sigterm, ShutdownDone, Restart, RestartWithoutState
  <2> QED
    BY <1>1, <2>1, <2>2 DEF Covered, VMsOf, Answers, PastCreate, Created
<1> QED
  BY <1>1, <1>3, <1>4, <1>5, <1>6, WorkerKeepsBudget, SubmitKeepsBudget DEF Next

\* At the start nothing was created.
LEMMA BudgetInitially == Init => BudgetInv
<1> SUFFICES ASSUME Init, NEW j \in Jobs
             PROVE  Covered(j)
  BY DEF BudgetInv
<1>1. VMsOf(j) = {} /\ disk[j] = NoRecord /\ recs[j] = NoRecord
  BY DEF Init, VMsOf, Created
<1>2. Cardinality(VMsOf(j)) = 0
  BY <1>1, FS_EmptySet
<1> QED
  BY <1>1, <1>2 DEF Covered, Answers, NoRecord

(***************************************************************************)
(* The retry budget: a job costs at most MaxRetries + 1 VMs, whatever is   *)
(* replayed, retried or restarted, because the durable record answers for  *)
(* every VM that was ever created for it (runJob and createVM, job.go).    *)
(***************************************************************************)
THEOREM BudgetIsKept == Spec => []RetryBudget
<1>1. IInv /\ BudgetInv => RetryBudget
  <2> SUFFICES ASSUME IInv, BudgetInv, ~StateFileMayBeLost, NEW k \in Jobs
               PROVE  Cardinality(VMsOf(k)) <= MaxRetries + 1
    BY DEF RetryBudget, VMsOf, Created
  <2>1. Answers(k, disk[k]) <= MaxRetries + 1 /\ Answers(k, disk[k]) \in Nat
    BY Countable, RetriesAssumption DEF IInv, CoreInv, TypeOK, Answers, Records
  <2>2. Cardinality(VMsOf(k)) <= Answers(k, disk[k]) /\ Cardinality(VMsOf(k)) \in Nat
    BY Countable DEF BudgetInv, Covered
  <2> QED
    BY <2>1, <2>2, RetriesAssumption
<1> QED
  BY <1>1, BudgetInitially, BudgetInductive, LInvariance, Invariance, PTL DEF Spec
=============================================================================
