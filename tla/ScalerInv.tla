------------------------------ MODULE ScalerInv ------------------------------
(***************************************************************************)
(* The inductive invariant behind the safety properties of Scaler, job by  *)
(* job, as a conjunction of named parts: how the copies of a record in     *)
(* memory, in a worker and in the poller agree, what the place of a worker *)
(* says about its record, and where no VM can be owned.                    *)
(***************************************************************************)
EXTENDS Scaler

\* A worker works on the record the store holds; such a record is in flight.
WorkersCopy(k) == pc[k] # "idle" => loc[k] = recs[k] /\ InFlight(recs[k])

\* What the place of a worker says about its record.
PlaceFitsState(k) ==
  /\ pc[k] \in {"create", "response", "backoff"} =>
       recs[k].state = "creating" /\ recs[k].key \in Keys /\ disk[k] = recs[k]
  /\ pc[k] = "cleanup" => recs[k].state \in Attached
  /\ pc[k] \in {"delete", "deleted"} => recs[k].state = "deleting"

\* A worker that is about to drop its record's VM or key owns no VM.
NothingOwned(k) ==
  pc[k] \in {"backoff", "failed", "gaveup", "pace", "deleted"} => Owned(k) = {}

\* Memory does not contradict a terminal record in the file.
TerminalKept(k) == svc # "down" /\ Terminal(disk[k]) => recs[k] \in {disk[k], NoRecord}

\* A stopped process has no memory.
DownIsEmpty(k) == svc = "down" => pc[k] = "idle" /\ sub.job # k /\ recs[k] = NoRecord

\* The VMs the job owns are within reach of its records.
Tracked(k) ==
  \A n \in Owned(k) : Refers(disk[k], n) /\ (svc # "down" => Refers(recs[k], n))

JobInv(k) ==
  /\ WorkersCopy(k)
  /\ PlaceFitsState(k)
  /\ NothingOwned(k)
  /\ TerminalKept(k)
  /\ DownIsEmpty(k)
  /\ Tracked(k)

\* What the workers preserve, whoever else writes records,
CoreInv == TypeOK /\ \A k \in Jobs : JobInv(k)

\* and what holds when nobody but the poller does: it works on the record the
\* store holds, too, and memory never lags behind a terminal record in the file.
PollersCopy(k) == sub.job = k => pc[k] = "idle" /\ sub.rec = recs[k] /\ InFlight(recs[k])

TerminalInMemory(k) == svc # "down" /\ Terminal(disk[k]) => recs[k] = disk[k]

IInv == CoreInv /\ \A k \in Jobs : PollersCopy(k) /\ TerminalInMemory(k)

(***************************************************************************)
(* What the contract of VMLease needs beyond that: only VMs that were      *)
(* created are lost or named by a record, and a record that memory does    *)
(* not have is not in the file either.                                     *)
(***************************************************************************)
Created(k, n) == vm[k][n] \in {"live", "gone"}

StraysExist(k) == \A n \in strays[k] : Created(k, n)

Names(k, r) == r.state \in Attached => r.vm \in Keys /\ Created(k, r.vm)

MemoryCovers(k) == svc # "down" /\ recs[k].state = "none" => disk[k].state = "none"

LeaseFits(k) == StraysExist(k) /\ Names(k, recs[k]) /\ Names(k, disk[k])

CoreLInv == CoreInv /\ \A k \in Jobs : LeaseFits(k)
LInv     == IInv /\ \A k \in Jobs : LeaseFits(k) /\ MemoryCovers(k)

(***************************************************************************)
(* What the retry budget rests on: the VMs a record answers for, one for   *)
(* each retry before and one for the create it is past, cover those that   *)
(* were created.                                                           *)
(***************************************************************************)
PastCreate(k, r) ==
  /\ r.state # "queued"
  /\ r.state = "creating" => r.key \in Keys /\ Created(k, r.key)

Answers(k, r) ==
  IF r.state = "none" THEN 0 ELSE IF PastCreate(k, r) THEN r.retry + 1 ELSE r.retry

VMsOf(k) == {n \in Keys : Created(k, n)}

Covered(k) ==
  /\ Cardinality(VMsOf(k)) <= Answers(k, disk[k])
  /\ svc # "down" => Cardinality(VMsOf(k)) <= Answers(k, recs[k])

BudgetInv == ~StateFileMayBeLost => \A k \in Jobs : Covered(k)

(***************************************************************************)
(* What the fleet bound rests on: the semaphore bounds the workers that    *)
(* hold a slot, and as long as nothing stopped the process a job that owns *)
(* a VM has such a worker.                                                 *)
(***************************************************************************)
SlotsBounded == Cardinality({k \in Jobs : HoldsSlot(k)}) <= MaxConcurrentVMs

OwnersHoldSlots ==
  stops = 0 => svc = "up" /\ \A k \in Jobs : Owned(k) # {} => HoldsSlot(k)

FleetInv == SlotsBounded /\ OwnersHoldSlots
=============================================================================
