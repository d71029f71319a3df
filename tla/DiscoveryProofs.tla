--------------------------- MODULE DiscoveryProofs ---------------------------
(***************************************************************************)
(* The gate on a run's updated_at hides no job (githubapp/client.go), for  *)
(* any number of repositories, runs and jobs and any number of failing     *)
(* calls and restarts.  The argument: updated_at only grows, strictly when *)
(* a job moves, and a gate never runs ahead of it.                         *)
(***************************************************************************)
EXTENDS Discovery, TLAPS, FiniteSetTheorems

Statuses == {"none", "queued", "in_progress", "completed"}

\* What a run's updated_at counts.
Changes(r) == {c \in JobsOf(r) \X (1..3) : c[2] \in Rank[job[c[1]]]}

\* updated_at and the queued jobs of every run.
Stamp  == [r \in Runs |-> UpdatedAt(r)]
Queued == [r \in Runs |-> QueuedJobs(r)]

\* The parts of the inductive invariant.
GatesBehind == \A r \in Runs : gate[r] <= Stamp[r]
PageFits    == \A e \in page : e[1][1] = repo /\ e[2] <= Stamp[e[1]]
RefsFit     == \A j \in repoRefs : RepoOf(j) = repo
NoJobHidden ==
  \A r \in Runs : r[1] \notin broken /\ gate[r] = Stamp[r] =>
    Queued[r] \subseteq submitted \cup refs \cup repoRefs

GateInv == TypeOK /\ GatesBehind /\ PageFits /\ RefsFit /\ NoJobHidden

-----------------------------------------------------------------------------
(* updated_at.                                                             *)

\* A job moves forward only, and with it the changes it has been through.
LEMMA MovesForward ==
  ASSUME NEW s \in Statuses, NEW t \in Moves[s]
  PROVE  /\ t \in Statuses \ {"none"}
         /\ Rank[s] \subseteq Rank[t] /\ Rank[s] # Rank[t]
         /\ \E c \in 1..3 : c \in Rank[t] \ Rank[s]
BY DEF Statuses, Moves, Rank

\* The changes of a run's jobs can be counted.
LEMMA ChangesFinite ==
  ASSUME NEW r \in Runs
  PROVE  IsFiniteSet(JobsOf(r) \X (1..3)) /\ Cardinality(JobsOf(r) \X (1..3)) = MaxJobs * 3
<1>1. MaxJobs \in Nat
  BY SizesAssumption
<1>2. JobsOf(r) = {r} \X (1..MaxJobs)
  BY DEF JobsOf, Jobs
<1>3. IsFiniteSet(1..MaxJobs) /\ Cardinality(1..MaxJobs) = MaxJobs
  BY <1>1, FS_Interval
<1>4. IsFiniteSet({r}) /\ Cardinality({r}) = 1
  BY FS_Singleton
<1>5. IsFiniteSet(JobsOf(r)) /\ Cardinality(JobsOf(r)) = MaxJobs
  <2>1. Cardinality({r} \X (1..MaxJobs)) = 1 * MaxJobs /\ IsFiniteSet({r} \X (1..MaxJobs))
    BY <1>3, <1>4, FS_Product
  <2> QED
    BY <1>1, <1>2, <2>1
<1>6. IsFiniteSet(1..3) /\ Cardinality(1..3) = 3
  <2>1. \A m \in Nat : IsFiniteSet(1..m) /\ Cardinality(1..m) = m
    BY FS_Interval
  <2> QED
    BY <2>1
<1> QED
  BY <1>5, <1>6, FS_Product

\* updated_at is a stamp.
LEMMA StampType ==
  ASSUME NEW r \in Runs
  PROVE  IsFiniteSet(Changes(r)) /\ UpdatedAt(r) = Cardinality(Changes(r)) /\ UpdatedAt(r) \in Stamps
<1> DEFINE all == JobsOf(r) \X (1..3)
<1>0. Changes(r) \subseteq all
  BY DEF Changes
<1>a. IsFiniteSet(all) /\ Cardinality(all) = MaxJobs * 3
  BY ChangesFinite
<1> HIDE DEF all
<1>1. IsFiniteSet(Changes(r)) /\ Cardinality(Changes(r)) <= MaxJobs * 3
  BY <1>0, <1>a, FS_Subset
<1>2. UpdatedAt(r) = Cardinality(Changes(r)) /\ MaxJobs \in Nat
  BY SizesAssumption DEF UpdatedAt, Changes
<1> QED
  BY <1>1, <1>2, FS_CardinalityType DEF Stamps

\* Every run has a stamp.
LEMMA Stamped == Stamp \in [Runs -> Stamps]
BY StampType DEF Stamp

\* Every run has one after a step, too.
LEMMA StampedNext ==
  ASSUME NEW r \in Runs
  PROVE  /\ IsFiniteSet(Changes(r)') /\ UpdatedAt(r)' = Cardinality(Changes(r)')
         /\ Stamp'[r] = UpdatedAt(r)' /\ UpdatedAt(r)' \in Nat
<1> DEFINE all == JobsOf(r) \X (1..3)
<1>1. IsFiniteSet(all)
  BY ChangesFinite
<1>2. Changes(r)' \subseteq all /\ UpdatedAt(r)' = Cardinality(Changes(r)')
  BY DEF Changes, UpdatedAt, JobsOf
<1>3. IsFiniteSet(Changes(r)')
  BY <1>1, <1>2, FS_Subset
<1> QED
  BY <1>2, <1>3, FS_CardinalityType DEF Stamp

\* A run at stamp 0 has no queued job.
LEMMA NothingHappened ==
  ASSUME NEW r \in Runs, Stamp[r] = 0
  PROVE  Queued[r] = {}
<1>1. Changes(r) = {}
  BY StampType, FS_EmptySet DEF Stamp
<1>2. ASSUME NEW j \in QueuedJobs(r)
      PROVE  FALSE
  <2>1. <<j, 1>> \in Changes(r)
    BY DEF QueuedJobs, Changes, Rank
  <2> QED
    BY <1>1, <2>1
<1> QED
  BY <1>2 DEF Queued

\* When a job moves, the updated_at of its run grows and that of no other
\* run does.
LEMMA StampMoves ==
  ASSUME TypeOK, NEW j \in Jobs, JobMoves(j), NEW r \in Runs
  PROVE  /\ j[1] = r => Stamp'[r] > Stamp[r]
         /\ j[1] # r => Stamp'[r] = Stamp[r] /\ Queued'[r] = Queued[r]
<1>1. PICK s \in Moves[job[j]] : job' = [job EXCEPT ![j] = s]
  BY DEF JobMoves
<1>2. job[j] \in Statuses
  BY DEF TypeOK, Rank, Statuses
<1>3. /\ s \in Statuses
      /\ Rank[job[j]] \subseteq Rank[s] /\ \E c \in 1..3 : c \in Rank[s] \ Rank[job[j]]
  BY <1>1, <1>2, MovesForward
<1>4. CASE j[1] = r
  <2>1. j \in JobsOf(r) /\ job'[j] = s /\ \A i \in JobsOf(r) \ {j} : job'[i] = job[i]
    BY <1>1, <1>4 DEF TypeOK, JobsOf
  <2>2. Changes(r) \subseteq Changes(r)'
    BY <1>3, <2>1 DEF Changes
  <2>3. Changes(r) # Changes(r)'
    <3>1. PICK c \in 1..3 : c \in Rank[s] \ Rank[job[j]]
      BY <1>3
    <3>2. <<j, c>> \in Changes(r)' /\ <<j, c>> \notin Changes(r)
      BY <2>1, <3>1 DEF Changes
    <3> QED
      BY <3>2
  <2>4. IsFiniteSet(Changes(r)') /\ UpdatedAt(r)' = Cardinality(Changes(r)')
    BY StampedNext
  <2>5. Cardinality(Changes(r)) < Cardinality(Changes(r)')
    BY <2>2, <2>3, <2>4, FS_Subset, FS_CardinalityType
  <2>6. UpdatedAt(r) < UpdatedAt(r)'
    BY <2>4, <2>5, StampType
  <2> QED
    BY <1>4, <2>6 DEF Stamp
<1>5. CASE j[1] # r
  <2>1. \A i \in JobsOf(r) : job'[i] = job[i]
    BY <1>1, <1>5 DEF TypeOK, JobsOf
  <2> QED
    BY <1>5, <2>1 DEF UpdatedAt, QueuedJobs, Stamp, Queued
<1> QED
  BY <1>4, <1>5

-----------------------------------------------------------------------------
(* The invariant.                                                          *)

\* As long as no job moves, neither do the stamps.
LEMMA SameStamps == UNCHANGED job => UNCHANGED <<Stamp, Queued>>
BY DEF Stamp, Queued, UpdatedAt, QueuedJobs, JobsOf

\* GitHub keeps the invariant: a job that moves leaves its run's gate behind.
LEMMA JobMovesKeeps ==
  ASSUME GateInv, NEW j \in Jobs, JobMoves(j)
  PROVE  GateInv'
<1>1. TypeOK /\ job' \in [Jobs -> DOMAIN Rank]
  <2>1. job[j] \in Statuses
    BY DEF GateInv, TypeOK, Rank, Statuses
  <2>2. \A s \in Moves[job[j]] : s \in DOMAIN Rank
    BY <2>1, MovesForward DEF Rank, Statuses
  <2> QED
    BY <2>2 DEF GateInv, JobMoves, TypeOK
<1>2. UNCHANGED <<scope, active, known, gate, phase, cursor, live, repoRefs, refs, submitted, history>>
  BY DEF JobMoves
<1>3. TypeOK'
  BY <1>1, <1>2 DEF TypeOK, cursor, history
<1>4. ASSUME NEW r \in Runs
      PROVE  /\ Stamp[r] \in Nat /\ Stamp'[r] \in Nat /\ gate[r] \in Nat
             /\ Stamp'[r] >= Stamp[r]
             /\ Stamp'[r] = Stamp[r] => Queued'[r] = Queued[r]
  <2>1. Stamp[r] \in Nat /\ Stamp'[r] \in Nat /\ gate[r] \in Nat
    BY <1>1, Stamped, StampedNext DEF TypeOK, Stamps
  <2> QED
    BY <1>1, <2>1, StampMoves
<1>5. GatesBehind'
  BY <1>2, <1>4 DEF GateInv, GatesBehind
<1>6. PageFits'
  <2> SUFFICES ASSUME NEW e \in page
               PROVE  e[1][1] = repo /\ e[2] <= Stamp'[e[1]]
    BY <1>2 DEF PageFits, cursor
  <2>1. e[1] \in Runs /\ e[2] \in Nat
    BY <1>1 DEF TypeOK, Stamps
  <2> QED
    BY <1>4, <2>1 DEF GateInv, PageFits
<1>7. RefsFit'
  BY <1>2 DEF GateInv, RefsFit, cursor, RepoOf
<1>8. NoJobHidden'
  <2> SUFFICES ASSUME NEW r \in Runs, r[1] \notin broken, gate[r] = Stamp'[r]
               PROVE  Queued'[r] \subseteq submitted \cup refs \cup repoRefs
    BY <1>2 DEF NoJobHidden, history
  <2>1. gate[r] = Stamp[r] /\ Queued'[r] = Queued[r]
    BY <1>4 DEF GateInv, GatesBehind
  <2> QED
    BY <2>1 DEF GateInv, NoJobHidden
<1> QED
  BY <1>3, <1>5, <1>6, <1>7, <1>8 DEF GateInv

\* Steps that touch neither gates nor jobs found.
LEMMA QuietKeeps ==
  ASSUME GateInv, TypeOK', UNCHANGED <<job, gate, repoRefs, refs, submitted, broken>>,
         page' \subseteq page, repo' = repo \/ (page' = {} /\ repoRefs = {})
  PROVE  GateInv'
<1>1. UNCHANGED <<Stamp, Queued>>
  BY SameStamps
<1>2. GatesBehind' /\ NoJobHidden'
  BY <1>1 DEF GateInv, GatesBehind, NoJobHidden
<1>3. PageFits' /\ RefsFit'
  BY <1>1 DEF GateInv, PageFits, RefsFit, RepoOf
<1> QED
  BY <1>2, <1>3 DEF GateInv

\* Every step keeps the types.
LEMMA TypesKept == TypeOK /\ [Next]_vars => TypeOK'
<1> SUFFICES ASSUME TypeOK, [Next]_vars
             PROVE  TypeOK'
  OBVIOUS
<1> USE DEF TypeOK, github, cursor, history
<1>1. CASE UNCHANGED vars
  BY <1>1 DEF vars
<1>2. ASSUME NEW j \in Jobs, JobMoves(j)
      PROVE  TypeOK'
  <2>1. job[j] \in Statuses
    BY DEF Rank, Statuses
  <2>2. \A s \in Moves[job[j]] : s \in DOMAIN Rank
    BY <2>1, MovesForward DEF Rank, Statuses
  <2> QED
    BY <1>2, <2>2 DEF JobMoves
<1>3. ASSUME NEW p \in Repos, PushedOrQuiet(p) \/ VisitRepo(p)
      PROVE  TypeOK'
  BY <1>3 DEF PushedOrQuiet, VisitRepo
<1>4. CASE PollConfigured \/ PollCached \/ PollDiscovered
  BY <1>4 DEF PollConfigured, PollCached, PollDiscovered, BeginPoll, MostRecent
<1>5. CASE ListRuns
  <2>1. page' \subseteq Runs \X Stamps
    BY <1>5, StampType DEF ListRuns
  <2> QED
    BY <1>5, <2>1 DEF ListRuns
<1>6. ASSUME NEW e \in page, SkipRun(e[1], e[2]) \/ FetchJobs(e[1], e[2])
      PROVE  TypeOK'
  <2>1. e \in Runs \X Stamps /\ QueuedJobs(e[1]) \subseteq Jobs
    BY DEF QueuedJobs, JobsOf
  <2> QED
    BY <1>6, <2>1 DEF SkipRun, FetchJobs
<1>7. CASE NextStatus \/ RepoDone \/ Rest
  BY <1>7 DEF NextStatus, RepoDone, Rest
<1>8. CASE RepoFails
  BY <1>8, SizesAssumption DEF RepoFails, CallFails
<1>9. CASE PollDone
  <2>1. 0 \in Stamps
    BY SizesAssumption DEF Stamps
  <2> QED
    BY <1>9, <2>1 DEF PollDone
<1>10. ASSUME NEW j \in Jobs, SubmitJob(j)
       PROVE  TypeOK'
  BY <1>10 DEF SubmitJob
<1>11. CASE Restart
  <2>1. 0 \in Stamps
    BY SizesAssumption DEF Stamps
  <2> QED
    BY <1>11, <2>1, SizesAssumption DEF Restart, NoGates
<1> QED
  BY <1>1, <1>2, <1>3, <1>4, <1>5, <1>6, <1>7, <1>8, <1>9, <1>10, <1>11
  DEF Next, Poll, GitHub

\* A page lists the runs of one repository with the stamps of now.
LEMMA ListRunsKeeps ==
  ASSUME GateInv, TypeOK', ListRuns
  PROVE  GateInv'
<1>1. UNCHANGED <<Stamp, Queued, gate, repo, repoRefs, refs, submitted, broken>>
  BY SameStamps DEF ListRuns, github, history
<1>2. GatesBehind' /\ NoJobHidden' /\ RefsFit'
  BY <1>1 DEF GateInv, GatesBehind, NoJobHidden, RefsFit, RepoOf
<1>3. PageFits'
  <2> SUFFICES ASSUME NEW e \in page'
               PROVE  e[1][1] = repo /\ e[2] <= Stamp[e[1]]
    BY <1>1 DEF PageFits
  <2>1. PICK r \in Runs : e = <<r, UpdatedAt(r)>> /\ r[1] = repo
    BY DEF ListRuns
  <2>2. e[2] = Stamp[r] /\ Stamp[r] \in Nat
    BY <2>1, StampType DEF Stamp, Stamps
  <2> QED
    BY <2>1, <2>2
<1> QED
  BY <1>2, <1>3 DEF GateInv

\* The jobs of a run are fetched after its stamp was listed.
LEMMA FetchJobsKeeps ==
  ASSUME GateInv, TypeOK', NEW e \in page, FetchJobs(e[1], e[2])
  PROVE  GateInv'
<1>1. /\ UNCHANGED <<Stamp, Queued, repo, refs, submitted, broken>>
      /\ e[1] \in Runs /\ e[1][1] = repo /\ e[2] <= Stamp[e[1]]
      /\ gate' = [gate EXCEPT ![e[1]] = e[2]] /\ gate \in [Runs -> Stamps]
      /\ repoRefs' = repoRefs \cup Queued[e[1]] /\ page' \subseteq page
  BY SameStamps DEF GateInv, TypeOK, PageFits, FetchJobs, github, history, Queued
<1>2. GatesBehind' /\ NoJobHidden'
  BY <1>1 DEF GateInv, GatesBehind, NoJobHidden
<1>3. \A j \in Queued[e[1]] : RepoOf(j) = repo
  BY <1>1 DEF Queued, QueuedJobs, JobsOf, RepoOf
<1>4. PageFits' /\ RefsFit'
  BY <1>1, <1>3 DEF GateInv, PageFits, RefsFit, RepoOf
<1> QED
  BY <1>2, <1>4 DEF GateInv

\* A repository that is done hands its jobs to the poll.
LEMMA HandingOnKeeps ==
  ASSUME GateInv, TypeOK', RepoDone
  PROVE  GateInv'
<1>1. UNCHANGED <<Stamp, Queued, gate, page, repo, submitted, broken>>
  BY SameStamps DEF RepoDone, github, history, cursor
<1>2. GatesBehind' /\ PageFits'
  BY <1>1 DEF GateInv, GatesBehind, PageFits
<1>3. refs' = refs \cup repoRefs /\ repoRefs' = {}
  BY DEF RepoDone
<1>4. NoJobHidden'
  BY <1>1, <1>3 DEF GateInv, NoJobHidden
<1> QED
  BY <1>2, <1>3, <1>4 DEF GateInv, RefsFit

\* One that fails loses its own jobs only.
LEMMA RepoFailsKeeps ==
  ASSUME GateInv, TypeOK', RepoFails
  PROVE  GateInv'
<1>1. /\ UNCHANGED <<Stamp, Queued, gate, repo, refs, submitted>>
      /\ broken' = broken \cup {repo} /\ page' = {} /\ repoRefs' = {}
  BY SameStamps DEF RepoFails, CallFails, github
<1>2. ASSUME NEW r \in Runs, r[1] # repo
      PROVE  Queued[r] \cap repoRefs = {}
  BY <1>2 DEF GateInv, RefsFit, RepoOf, Queued, QueuedJobs, JobsOf
<1>3. NoJobHidden'
  BY <1>1, <1>2 DEF GateInv, NoJobHidden
<1> QED
  BY <1>1, <1>3 DEF GateInv, GatesBehind, PageFits, RefsFit

\* A gate is only dropped to 0.
LEMMA DropsGates ==
  ASSUME GateInv, TypeOK', UNCHANGED <<job, submitted, broken>>, page' = {}, repoRefs' = {},
         \A r \in Runs : gate'[r] = 0 \/ (gate'[r] = gate[r] /\ refs' = refs /\ repoRefs = {})
  PROVE  GateInv'
<1>1. UNCHANGED <<Stamp, Queued>> /\ \A r \in Runs : Stamp[r] \in Nat
  BY SameStamps, Stamped DEF Stamps
<1>2. GatesBehind'
  BY <1>1 DEF GateInv, GatesBehind
<1>3. NoJobHidden'
  BY <1>1, NothingHappened DEF GateInv, NoJobHidden
<1> QED
  BY <1>2, <1>3 DEF GateInv, PageFits, RefsFit

\* A job that is submitted stays accounted for.
LEMMA SubmitJobKeeps ==
  ASSUME GateInv, TypeOK', NEW j \in Jobs, SubmitJob(j)
  PROVE  GateInv'
<1>1. UNCHANGED <<Stamp, Queued, gate, page, repo, repoRefs, broken>>
  BY SameStamps DEF SubmitJob, github, history, cursor
<1>2. submitted' \cup refs' = submitted \cup refs
  BY DEF SubmitJob
<1> QED
  BY <1>1, <1>2 DEF GateInv, GatesBehind, PageFits, RefsFit, RepoOf, NoJobHidden

\* Every step keeps the invariant.
LEMMA GateInvInductive == GateInv /\ [Next]_vars => GateInv'
<1> SUFFICES ASSUME GateInv, [Next]_vars
             PROVE  GateInv'
  OBVIOUS
<1>1. TypeOK /\ TypeOK'
  BY TypesKept DEF GateInv
<1>2. CASE UNCHANGED vars
  BY <1>1, <1>2, QuietKeeps DEF vars, github, cursor, history
<1>3. ASSUME NEW p \in Repos, PushedOrQuiet(p) \/ VisitRepo(p)
      PROVE  GateInv'
  BY <1>1, <1>3, QuietKeeps DEF PushedOrQuiet, VisitRepo, github, cursor, history, TypeOK
<1>4. CASE PollConfigured \/ PollCached \/ PollDiscovered
  BY <1>1, <1>4, QuietKeeps
  DEF PollConfigured, PollCached, PollDiscovered, BeginPoll, github, history
<1>5. ASSUME NEW e \in page, SkipRun(e[1], e[2])
      PROVE  GateInv'
  BY <1>1, <1>5, QuietKeeps DEF SkipRun, github, history
<1>6. CASE NextStatus \/ Rest
  BY <1>1, <1>6, QuietKeeps DEF NextStatus, Rest, github, cursor, history
<1>7. CASE PollDone
  BY <1>1, <1>7, DropsGates DEF PollDone, github, cursor, history, TypeOK
<1>8. CASE Restart
  BY <1>1, <1>8, DropsGates DEF Restart, NoGates, github
<1> QED
  BY <1>1, <1>2, <1>3, <1>4, <1>5, <1>6, <1>7, <1>8, JobMovesKeeps, ListRunsKeeps,
     FetchJobsKeeps, HandingOnKeeps, RepoFailsKeeps, SubmitJobKeeps DEF Next, Poll, GitHub

\* It holds at the start: nothing has happened.
LEMMA GateInvInitially == Init => GateInv
<1> SUFFICES ASSUME Init
             PROVE  GateInv
  OBVIOUS
<1>1. 0 \in Stamps /\ 0 \in 0..MaxFaults
  BY SizesAssumption DEF Stamps
<1>2. (CHOOSE p \in Repos : TRUE) \in Repos
  BY ReposAssumption
<1>3. TypeOK
  BY <1>1, <1>2 DEF Init, TypeOK, NoGates, Rank
<1>4. \A r \in Runs : Stamp[r] \in Nat /\ gate[r] = 0
  BY Stamped DEF Stamps, Init, NoGates
<1>5. NoJobHidden
  BY <1>4, NothingHappened DEF NoJobHidden
<1> QED
  BY <1>3, <1>4, <1>5 DEF Init, GateInv, GatesBehind, PageFits, RefsFit

(***************************************************************************)
(* The gate hides no job: a run the next poll will skip has no queued job  *)
(* that was not handed on, unless a call failed for its repository.        *)
(***************************************************************************)
THEOREM GateIsSafe == Spec => []GateHidesNoJob
<1>1. GateInv => GateHidesNoJob
  BY DEF GateInv, NoJobHidden, GateHidesNoJob, Stamp, Queued
<1> QED
  BY <1>1, GateInvInitially, GateInvInductive, PTL DEF Spec

(***************************************************************************)
(* The poller's state keeps its shape: no listed run is left over, and no  *)
(* job found in one repository is carried into the next.                   *)
(***************************************************************************)
THEOREM PollerTypes == Spec => []TypeOK
BY GateInvInitially, TypesKept, PTL DEF Spec, GateInv
=============================================================================
