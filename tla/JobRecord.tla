------------------------------ MODULE JobRecord ------------------------------
(***************************************************************************)
(* The persisted record of one workflow job's runner VM (internal/state):  *)
(* its FSM states, the fields the lifecycle depends on, and what it means  *)
(* for a record to hold on to a VM.                                        *)
(*                                                                         *)
(* A VM is named by the idempotency key it was created under: the VM       *)
(* service answers every use of a key with the same VM, so the pair        *)
(* (job, key) identifies the VM.  0 stands for the empty string, both as a *)
(* key and as a VM id.                                                     *)
(***************************************************************************)
EXTENDS Naturals

CONSTANTS MaxRetries,   \* limits.max_retries_per_job
          MaxKeys       \* bound: idempotency keys minted for one job

ASSUME RetriesAssumption == MaxRetries \in Nat
ASSUME KeysAssumption    == MaxKeys \in Nat

Keys == 1..MaxKeys

\* States in which attempt() drives a VM it knows by id.
Attached == {"wait_ready", "bootstrapping", "runner_up", "job_running",
             "job_done", "deleting"}

TerminalStates == {"complete", "failed"}

\* "none": the store has no record under this key.
JobStates == {"none", "queued", "creating"} \cup Attached \cup TerminalStates

Records == [state : JobStates, retry : 0..MaxRetries,
            key : 0..MaxKeys, vm : 0..MaxKeys]

NoRecord == [state |-> "none", retry |-> 0, key |-> 0, vm |-> 0]

\* The record Submit writes for a job it sees for the first time.
NewRecord == [NoRecord EXCEPT !.state = "queued"]

Terminal(r) == r.state \in TerminalStates
InFlight(r) == r.state # "none" /\ ~Terminal(r)

(***************************************************************************)
(* r still leads to the VM of key n: in CREATING the key itself is the     *)
(* handle (replaying the create returns the VM), afterwards the VM id is.  *)
(***************************************************************************)
Refers(r, n) == \/ r.state = "creating" /\ r.key = n
                \/ r.state \in Attached /\ r.vm = n
==============================================================================
