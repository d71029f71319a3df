---------------------------- MODULE VMLeaseProofs ----------------------------
(***************************************************************************)
(* What the contract of VMLease is worth to whoever relies on it: however  *)
(* jobs are opened, closed, forgotten and found again, a VM is held for an *)
(* open job only, and never beside another.  Every module shown to         *)
(* implement the contract inherits it under its refinement mapping.        *)
(***************************************************************************)
EXTENDS VMLease, TLAPS

\* Every step keeps the types of the contract.
LEMMA LeaseTypes == TypeOK /\ [Next]_vars => TypeOK'
<1>1. ASSUME TypeOK, [Next]_vars
      PROVE  TypeOK'
  <2>1. CASE Write \/ Find \/ UNCHANGED vars
    BY <1>1, <2>1 DEF Write, Find, vars, TypeOK
  <2>2. CASE Forget
    BY <1>1, <2>2 DEF Forget, Lost, TypeOK, Lives, Stages
  <2>3. ASSUME NEW k \in Jobs, Lose(k)
        PROVE  TypeOK'
    BY <1>1, <2>3 DEF Lose, Lost, TypeOK, Stages
  <2>4. ASSUME NEW k \in Jobs, NEW n \in Ids, Rent(k, n) \/ End(k, n)
        PROVE  TypeOK'
    BY <1>1, <2>4 DEF Rent, End, Turn, TypeOK, Stages
  <2> QED
    BY <1>1, <2>1, <2>2, <2>3, <2>4 DEF Next
<1> QED
  BY <1>1

\* A job that keeps its leases keeps what it held.
LEMMA SameLease ==
  ASSUME NEW k \in Jobs, lease'[k] = lease[k]
  PROVE  Held(k)' = Held(k)
BY DEF Held

\* One step keeps the VMs with their open jobs.
LEMMA HeldInductive == TypeOK /\ HeldByOpenJobs /\ [Next]_vars => HeldByOpenJobs'
<1> SUFFICES ASSUME TypeOK, HeldByOpenJobs, [Next]_vars, NEW j \in Jobs
             PROVE  \A n \in Held(j)' : life'[j] = "open" /\ Held(j)' = {n}
  BY DEF HeldByOpenJobs
<1>1. \A n \in Held(j) : life[j] = "open" /\ Held(j) = {n}
  BY DEF HeldByOpenJobs
<1>2. CASE UNCHANGED vars
  BY <1>1, <1>2, SameLease DEF vars
<1>3. CASE Write
  <2>1. Held(j)' = Held(j) /\ (Held(j) # {} => life'[j] = life[j])
    BY <1>1, <1>3, SameLease DEF Write
  <2> QED
    BY <1>1, <2>1
<1>4. CASE Find
  <2>1. CASE lease'[j] = lease[j]
    BY <1>1, <1>4, <2>1, SameLease DEF Find
  <2>2. CASE lease'[j] # lease[j]
    <3>1. PICK n \in Ids : /\ life[j] = "open" /\ Held(j) = {}
                           /\ lease'[j] = [lease[j] EXCEPT ![n] = "held"]
      BY <1>4, <2>2 DEF Find
    <3>2. Held(j)' = {n}
      BY <3>1 DEF Held, TypeOK
    <3> QED
      BY <1>4, <3>1, <3>2 DEF Find
  <2> QED
    BY <2>1, <2>2
<1>5. CASE Forget
  <2>1. \/ Held(j)' = {}
        \/ life'[j] = life[j] /\ lease'[j] = lease[j]
    BY <1>5 DEF Forget, Lost, Held
  <2> QED
    BY <1>1, <2>1, SameLease
<1>6. ASSUME NEW k \in Jobs, Lose(k)
      PROVE  \A n \in Held(j)' : life'[j] = "open" /\ Held(j)' = {n}
  <2>1. \/ Held(j)' = {}
        \/ life'[j] = life[j] /\ lease'[j] = lease[j]
    BY <1>6 DEF Lose, Lost, Held, TypeOK
  <2> QED
    BY <1>1, <2>1, SameLease
<1>7. ASSUME NEW k \in Jobs, NEW n \in Ids, Rent(k, n)
      PROVE  \A m \in Held(j)' : life'[j] = "open" /\ Held(j)' = {m}
  <2>1. CASE j = k
    <3>1. Held(k)' = {n}
      BY <1>7 DEF Rent, Turn, Held, TypeOK
    <3> QED
      BY <1>7, <2>1, <3>1 DEF Rent
  <2>2. CASE j # k
    BY <1>1, <1>7, <2>2, SameLease DEF Rent, Turn, TypeOK
  <2> QED
    BY <2>1, <2>2
<1>8. ASSUME NEW k \in Jobs, NEW n \in Ids, End(k, n)
      PROVE  \A m \in Held(j)' : life'[j] = "open" /\ Held(j)' = {m}
  <2>1. Held(j)' = Held(j) \/ Held(j)' = Held(j) \ {n}
    BY <1>8 DEF End, Turn, Held, TypeOK
  <2>2. life' = life
    BY <1>8 DEF End
  <2> QED
    BY <1>1, <2>1, <2>2
<1> QED
  BY <1>2, <1>3, <1>4, <1>5, <1>6, <1>7, <1>8 DEF Next

(***************************************************************************)
(* The contract gives a VM to open jobs only, one at a time.               *)
(***************************************************************************)
THEOREM OpenJobsHoldOneVM == Spec => []HeldByOpenJobs
<1>1. Init => TypeOK /\ HeldByOpenJobs
  BY DEF Init, TypeOK, HeldByOpenJobs, Held, Lives, Stages
<1>2. TypeOK /\ HeldByOpenJobs /\ [Next]_vars => TypeOK' /\ HeldByOpenJobs'
  BY HeldInductive, LeaseTypes
<1> QED
  BY <1>1, <1>2, PTL DEF Spec
==============================================================================
