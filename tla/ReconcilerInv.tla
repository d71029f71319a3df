---------------------------- MODULE ReconcilerInv ----------------------------
(***************************************************************************)
(* The inductive invariants behind the properties of the service as a      *)
(* whole: what sweep and workers know of each other as long as no worker   *)
(* started from a record that had changed since it was read, and what      *)
(* bounds the VMs of a job even then.                                      *)
(***************************************************************************)
EXTENDS Reconciler, ScalerInv

InDeletion == {"job_done", "deleting"}

(***************************************************************************)
(* Types: what the sweep is about to delete or to write is what it listed. *)
(***************************************************************************)
PendingFits == place \notin {"orphans", "reap"} => pending = {}

AimFits == place \in {"redelete", "settle"} => aim \in VMs /\ aim[2] = snap[aim[1]].vm

TypeInv == TypeOK /\ SweepTypeOK /\ PendingFits /\ AimFits

(***************************************************************************)
(* Without stale spawns, job by job.  The poller's record is in flight; a  *)
(* job that has no record although the file has a terminal one was pruned; *)
(* a worker that fails or waits to retry works on no finished job; while   *)
(* the service is up every job that may have a VM has a worker.            *)
(***************************************************************************)
SubFits(k) == sub.job = k => InFlight(sub.rec)

PrunedOnly(k) ==
  svc # "down" /\ recs[k].state = "none" /\ Terminal(disk[k]) => k \in pruned

EndFits(k) ==
  pc[k] \in {"cleanup", "failed", "gaveup", "pace"} => recs[k].state \notin InDeletion

HasWorker(k) ==
  svc = "up" /\ recs[k].state \in {"creating"} \cup Attached => pc[k] # "idle"

\* A record the sweep listed in deletion has stayed there or is complete,
SnapFits(k) ==
  svc # "down" /\ snap[k].state \in InDeletion =>
    recs[k] \in {[snap[k] EXCEPT !.state = s] : s \in InDeletion \cup {"complete"}}

\* and a VM it names is in the listing if no worker got to it meanwhile.
ListedFits(k) ==
  place # "idle" /\ recs[k].state \in InDeletion /\ pc[k] \in {"idle", "sem"}
    /\ recs[k].vm \in Live(k) => <<k, recs[k].vm>> \in listed

SweepFits(k) ==
  /\ SubFits(k) /\ PrunedOnly(k) /\ EndFits(k) /\ HasWorker(k)
  /\ SnapFits(k) /\ ListedFits(k)

\* A VM that is deleted again belongs to a job that completed meanwhile.
AimDone ==
  /\ place = "settle" => Terminal(recs[aim[1]])
  /\ place = "redelete" /\ svc = "up" => Terminal(recs[aim[1]])

NoSweepWhenDown == svc = "down" => place = "idle" /\ snap = NoSnap

Undamaged ==
  /\ \A k \in Jobs : JobInv(k) /\ SweepFits(k)
  /\ AimDone /\ NoSweepWhenDown

ServiceInv == TypeInv /\ (stale = 0 => Undamaged)

(***************************************************************************)
(* What the orphan pass rests on beyond that: only VMs that were created   *)
(* are listed, and keys are minted once, so that a VM no record refers to  *)
(* will not be referred to again.                                          *)
(***************************************************************************)
KeysMinted(k) ==
  /\ recs[k].key <= minted[k] /\ disk[k].key <= minted[k]
  /\ \A n \in Keys : vm[k][n] # "unused" => n <= minted[k]

ListedExist ==
  /\ \A v \in listed : Created(v[1], v[2])
  /\ place = "redelete" => aim \in listed

AimLost ==
  place = "reap" /\ svc = "up" /\ aim[2] \in Live(aim[1]) => ~Refers(recs[aim[1]], aim[2])

LeaseInv == ServiceInv /\ (stale = 0 => \A k \in Jobs : LeaseFits(k))

ListInv == LeaseInv /\ (stale = 0 => (\A k \in Jobs : KeysMinted(k)) /\ ListedExist)

OrphanInv == ListInv /\ (stale = 0 => AimLost)

(***************************************************************************)
(* What the contract needs beyond that, as long as the file survives: a    *)
(* pruned job stays without a record, and a record that memory does not    *)
(* have is in the file only when it was pruned.                            *)
(***************************************************************************)
Blank(r) == r.state = "none" => r = NoRecord

PrunedFits(k) ==
  /\ Blank(recs[k]) /\ Blank(disk[k])
  /\ k \in pruned /\ disk[k] = NoRecord => recs[k] = NoRecord
  /\ svc # "down" /\ recs[k] = NoRecord => disk[k] = NoRecord \/ k \in pruned

ContractInv ==
  ListInv /\ (stale = 0 /\ ~StateFileMayBeLost => \A k \in Jobs : PrunedFits(k))

(***************************************************************************)
(* With stale spawns, until the first stop: the worker's own copy of the   *)
(* record leads to the VMs of its job, and without a worker there are none.*)
(***************************************************************************)
PlaceFitsCopy(k) ==
  /\ pc[k] \in {"create", "response", "backoff"} =>
       loc[k].state = "creating" /\ loc[k].key \in Keys
  /\ pc[k] = "cleanup" => loc[k].state \in Attached
  /\ pc[k] \in {"delete", "deleted"} => loc[k].state = "deleting"

CopyLeads(k) ==
  /\ pc[k] = "idle" => Owned(k) = {}
  /\ \A n \in Owned(k) : Refers(loc[k], n)

CopyFits(k) == NothingOwned(k) /\ PlaceFitsCopy(k) /\ CopyLeads(k)

UnstoppedInv == stops = 0 => svc = "up" /\ \A k \in Jobs : CopyFits(k)

(***************************************************************************)
(* Until the first stop a worker that waits for its slot has not begun:    *)
(* only a restart leaves one waiting with a key that may be in use.        *)
(***************************************************************************)
WaitFits(k) == pc[k] = "sem" => recs[k].state \notin {"creating"} \cup Attached

EarlyInv ==
  /\ ListInv /\ UnstoppedInv
  /\ stale = 0 /\ stops = 0 => AimLost /\ \A k \in Jobs : WaitFits(k)

\* What the code guarantees however few slots there are: until the first crash
\* or SIGTERM the orphan pass only takes VMs the service has lost track of
\* (orphanSweep, reconciler.go).
OnlyOrphansReapedUnlessStopped ==
  [][stale = 0 /\ stops = 0 /\ Reap /\ aim[2] \in Live(aim[1])
       => /\ ~Refers(recs[aim[1]], aim[2])
          /\ Refers(disk[aim[1]], aim[2]) => aim[2] \in strays[aim[1]]]_serviceVars
=============================================================================
