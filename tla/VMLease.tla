------------------------------- MODULE VMLease -------------------------------
(***************************************************************************)
(* What the service promises about the VMs it rents for its jobs, without  *)
(* saying how: the contract that Scaler (records, keys, crashes), Monitor  *)
(* (runners, markers, GitHub) and Reconciler (the whole service) are shown *)
(* to implement, each under its own refinement mapping.                    *)
(*                                                                         *)
(* A job is opened, rents VMs one after the other, and is closed for good  *)
(* when it holds none.  A VM is created for an open job only, once, and    *)
(* never beside another one the job holds.  What a failed call hides from  *)
(* the service is lost, not held; only a restart can find it again.        *)
(***************************************************************************)

CONSTANTS
  Jobs,
  Ids,         \* names a VM of a job can have
  MayForget    \* may the records of a job be lost?

VARIABLES
  life,        \* the life of a job: "new", "open", "closed"
  lease        \* each VM of a job: "unused", "held", "lost", "gone"

vars == <<life, lease>>

Lives  == {"new", "open", "closed"}
Stages == {"unused", "held", "lost", "gone"}

TypeOK == life \in [Jobs -> Lives] /\ lease \in [Jobs -> [Ids -> Stages]]

Held(k) == {n \in Ids : lease[k][n] = "held"}

Init ==
  /\ life = [k \in Jobs |-> "new"]
  /\ lease = [k \in Jobs |-> [n \in Ids |-> "unused"]]

Turn(k, n, s) == lease' = [lease EXCEPT ![k] = [@ EXCEPT ![n] = s]]

\* Records become durable, several at once: a job is opened, or closed when
\* it holds no VM.
Write ==
  /\ life' \in [Jobs -> Lives]
  /\ \A k \in Jobs :
       \/ life'[k] = life[k]
       \/ life[k] = "new" /\ life'[k] = "open"
       \/ life[k] # "closed" /\ life'[k] = "closed" /\ Held(k) = {}
  /\ UNCHANGED lease

Rent(k, n) ==
  /\ life[k] = "open" /\ Held(k) = {} /\ lease[k][n] = "unused"
  /\ Turn(k, n, "held")
  /\ UNCHANGED life

\* The VM is deleted, or dies on its own.
End(k, n) ==
  /\ lease[k][n] \in {"held", "lost"}
  /\ Turn(k, n, "gone")
  /\ UNCHANGED life

Lost(k) == [n \in Ids |-> IF lease[k][n] = "held" THEN "lost" ELSE lease[k][n]]

Lose(k) ==
  /\ lease' = [lease EXCEPT ![k] = Lost(k)]
  /\ UNCHANGED life

\* A restart finds lost VMs again, for any number of jobs.
Find ==
  /\ lease' \in [Jobs -> [Ids -> Stages]]
  /\ \A k \in Jobs :
       \/ lease'[k] = lease[k]
       \/ /\ life[k] = "open" /\ Held(k) = {}
          /\ \E n \in Ids : /\ lease[k][n] = "lost"
                            /\ lease'[k] = [lease[k] EXCEPT ![n] = "held"]
  /\ UNCHANGED life

Forget ==
  /\ MayForget
  /\ \E F \in SUBSET Jobs :
       /\ life' = [k \in Jobs |-> IF k \in F THEN "new" ELSE life[k]]
       /\ lease' = [k \in Jobs |-> IF k \in F THEN Lost(k) ELSE lease[k]]

Next ==
  \/ Write \/ Find \/ Forget
  \/ \E k \in Jobs : Lose(k) \/ \E n \in Ids : Rent(k, n) \/ End(k, n)

Spec == Init /\ [][Next]_vars

\* What follows from the contract: a VM is held for an open job only, one at
\* a time.
HeldByOpenJobs ==
  \A k \in Jobs : \A n \in Held(k) : life[k] = "open" /\ Held(k) = {n}
==============================================================================
