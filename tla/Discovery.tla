------------------------------ MODULE Discovery ------------------------------
(***************************************************************************)
(* How queued jobs are found: the poller (internal/githubapp/poller.go)    *)
(* asks GitHub for the runs of every watched repository and fetches the    *)
(* job list of a run only when the run's updated_at has moved since the    *)
(* last cycle (ListQueuedJobs, internal/githubapp/client.go).  While it    *)
(* goes from call to call, jobs are queued, run and finish, calls fail,    *)
(* and the process restarts.                                               *)
(*                                                                         *)
(* Jobs whose labels our runners do not offer are left out: they are       *)
(* filtered where a run's jobs are read and have no effect elsewhere.      *)
(***************************************************************************)
EXTENDS Naturals, FiniteSets

CONSTANTS
  Repos,           \* repositories
  MaxRuns,         \* bound: workflow runs per repository
  MaxJobs,         \* bound: jobs per run
  Scopes,          \* values of github.scope: "org" watches the configured
                   \* repositories, "all" discovers the recently pushed ones
  MaxRepos,        \* github.poll.max_repos
  MaxFaults        \* bound: failing calls plus restarts of the process

ASSUME ReposAssumption  == IsFiniteSet(Repos) /\ Repos # {}
ASSUME SizesAssumption  == {MaxRuns, MaxJobs, MaxRepos, MaxFaults} \subseteq Nat
ASSUME ScopeAssumption  == Scopes # {} /\ Scopes \subseteq {"org", "all"}

VARIABLES
  scope,      \* github.scope of this process
  job,        \* GitHub: the status of every job
  active,     \* GitHub: repositories pushed within the active window
  known,      \* Client.repoCache
  gate,       \* Client.runUpdated: updated_at of a run when its jobs were fetched
  phase,      \* where the poller is
  todo,       \* repositories this poll has still to visit
  repo,       \* the repository being visited, and
  status,     \* the run status being listed
  page,       \* listed runs not handled yet, each with its updated_at
  live,       \* liveRuns: runs seen by this poll
  repoRefs,   \* jobs found so far in the repository
  refs,       \* jobs found so far by the poll
  submitted,  \* jobs handed to the scaler
  broken,     \* history: repositories a call failed for
  faults      \* history: failed calls and restarts so far

github  == <<scope, job, active>>
cursor  == <<todo, repo, status, page>>
history == <<broken, faults>>
vars    == <<github, known, gate, phase, cursor, live, repoRefs, refs, submitted, history>>

Runs == Repos \X (1..MaxRuns)
Jobs == Runs \X (1..MaxJobs)

RepoOf(j)     == j[1][1]
JobsOf(r)     == {j \in Jobs : j[1] = r}
QueuedJobs(r) == {j \in JobsOf(r) : job[j] = "queued"}

\* The changes a job in status s has been through.
Rank == [none |-> {}, queued |-> {1}, in_progress |-> {1, 2}, completed |-> {1, 2, 3}]

\* updated_at of a run: it moves whenever one of its jobs changes.
UpdatedAt(r) == Cardinality({c \in JobsOf(r) \X (1..3) : c[2] \in Rank[job[c[1]]]})

\* The status of a run is an aggregate of its jobs': it leaves "queued" as
\* soon as one of them runs, while siblings still queue.
RunStatus(r) ==
  LET statuses == {job[j] : j \in JobsOf(r)} \ {"none"}
  IN CASE statuses = {} -> "none"
       [] statuses \in {{"queued"}, {"completed"}} -> CHOOSE s \in statuses : TRUE
       [] OTHER -> "in_progress"

Stamps == 0..(3 * MaxJobs)

TypeOK ==
  /\ scope \in Scopes
  /\ job \in [Jobs -> DOMAIN Rank]
  /\ active \subseteq Repos /\ known \subseteq Repos
  /\ gate \in [Runs -> Stamps]
  /\ phase \in {"idle", "repos", "list", "runs", "submit"}
  /\ todo \subseteq Repos /\ repo \in Repos /\ status \in {"queued", "in_progress"}
  /\ page \subseteq Runs \X Stamps
  /\ phase # "runs" => page = {}
  /\ phase \notin {"list", "runs"} => repoRefs = {}
  /\ live \subseteq Runs
  /\ repoRefs \subseteq Jobs /\ refs \subseteq Jobs /\ submitted \subseteq Jobs
  /\ broken \subseteq Repos /\ faults \in 0..MaxFaults

DiscoverRepos == scope = "all"

NoGates == [r \in Runs |-> 0]

Init ==
  /\ scope \in Scopes
  /\ job = [j \in Jobs |-> "none"]
  /\ active = {} /\ known = {}
  /\ gate = NoGates
  /\ phase = "idle"
  /\ todo = {} /\ repo = (CHOOSE p \in Repos : TRUE) /\ status = "queued" /\ page = {}
  /\ live = {} /\ repoRefs = {} /\ refs = {} /\ submitted = {}
  /\ broken = {} /\ faults = 0

----------------------------------------------------------------------------
(* GitHub.                                                                 *)

Moves == [none |-> {"queued"}, queued |-> {"in_progress", "completed"},
          in_progress |-> {"completed"}, completed |-> {}]

JobMoves(j) ==
  /\ \E s \in Moves[job[j]] : job' = [job EXCEPT ![j] = s]
  /\ UNCHANGED <<scope, active, known, gate, phase, cursor, live, repoRefs, refs, submitted, history>>

\* A push to a repository, or the end of its active window.
PushedOrQuiet(p) ==
  /\ DiscoverRepos
  /\ active' \in {active \cup {p}, active \ {p}}
  /\ UNCHANGED <<scope, job, known, gate, phase, cursor, live, repoRefs, refs, submitted, history>>

----------------------------------------------------------------------------
(* One poll.                                                               *)

\* Poller.poll over a fixed list of repositories, over the cached result of
\* repository discovery, or over a fresh one.
BeginPoll(repos) ==
  /\ phase = "idle"
  /\ phase' = "repos" /\ todo' = repos
  /\ UNCHANGED <<github, gate, repo, status, page, live, repoRefs, refs, submitted, history>>

PollConfigured == ~DiscoverRepos /\ BeginPoll(Repos) /\ UNCHANGED known

\* Cached repositories may have gone quiet meanwhile (no cache is polled as an
\* empty one).
PollCached ==
  DiscoverRepos /\ \E R \in SUBSET known : BeginPoll(R) /\ UNCHANGED known

MostRecent(S) ==
  {R \in SUBSET S : Cardinality(R) = IF Cardinality(S) <= MaxRepos THEN Cardinality(S) ELSE MaxRepos}

PollDiscovered ==
  DiscoverRepos /\ \E R \in MostRecent(active) : BeginPoll(R) /\ known' = R

VisitRepo(p) ==
  /\ phase = "repos" /\ p \in todo
  /\ phase' = "list" /\ todo' = todo \ {p} /\ repo' = p /\ status' = "queued"
  /\ UNCHANGED <<github, known, gate, page, live, repoRefs, refs, submitted, history>>

ListRuns ==
  /\ phase = "list" /\ phase' = "runs"
  /\ page' = {<<r, UpdatedAt(r)>> : r \in {r \in Runs : r[1] = repo /\ RunStatus(r) = status}}
  /\ UNCHANGED <<github, known, gate, todo, repo, status, live, repoRefs, refs, submitted, history>>

Unchanged(r, u) == gate[r] = u

\* The run was handled under the other status, or nothing is new in it.
SkipRun(r, u) ==
  /\ phase = "runs" /\ <<r, u>> \in page
  /\ r \in live \/ Unchanged(r, u)
  /\ page' = page \ {<<r, u>>} /\ live' = live \cup {r}
  /\ UNCHANGED <<github, known, gate, phase, todo, repo, status, repoRefs, refs, submitted, history>>

\* The jobs are those of now, the gate is the updated_at of the listing.
FetchJobs(r, u) ==
  /\ phase = "runs" /\ <<r, u>> \in page
  /\ r \notin live /\ ~Unchanged(r, u)
  /\ page' = page \ {<<r, u>>} /\ live' = live \cup {r}
  /\ repoRefs' = repoRefs \cup QueuedJobs(r)
  /\ gate' = [gate EXCEPT ![r] = u]
  /\ UNCHANGED <<github, known, phase, todo, repo, status, refs, submitted, history>>

NextStatus ==
  /\ phase = "runs" /\ page = {} /\ status = "queued"
  /\ phase' = "list" /\ status' = "in_progress"
  /\ UNCHANGED <<github, known, gate, todo, repo, page, live, repoRefs, refs, submitted, history>>

\* Bugs for RepoDone: the repository's list is not started afresh; the jobs
\* found in earlier repositories are overwritten.
RepoDoneKeeps ==
  /\ phase = "runs" /\ page = {} /\ status = "in_progress"
  /\ phase' = "repos" /\ refs' = refs \cup repoRefs /\ UNCHANGED repoRefs
  /\ UNCHANGED <<github, known, gate, cursor, live, submitted, history>>

RepoDoneOverwrites ==
  /\ phase = "runs" /\ page = {} /\ status = "in_progress"
  /\ phase' = "repos" /\ refs' = repoRefs /\ repoRefs' = {}
  /\ UNCHANGED <<github, known, gate, cursor, live, submitted, history>>

RepoDone ==
  /\ phase = "runs" /\ page = {} /\ status = "in_progress"
  /\ phase' = "repos" /\ refs' = refs \cup repoRefs /\ repoRefs' = {}
  /\ UNCHANGED <<github, known, gate, cursor, live, submitted, history>>

\* A failing call: it may be for the jobs of a run, which is in live by then.
CallFails ==
  /\ phase \in {"list", "runs"} /\ faults < MaxFaults
  /\ phase = "runs" => \E e \in page : e[1] \notin live /\ ~Unchanged(e[1], e[2])
  /\ IF phase = "list" THEN UNCHANGED live
       ELSE \E e \in page : /\ e[1] \notin live /\ ~Unchanged(e[1], e[2])
                            /\ live' = live \cup {e[1]}
  /\ faults' = faults + 1 /\ broken' = broken \cup {repo}
  /\ UNCHANGED <<github, known, gate, todo, repo, status, submitted>>

\* Bug for RepoFails: a failing repository ends the poll.
RepoFailsAborts ==
  /\ CallFails
  /\ phase' = "idle" /\ page' = {} /\ repoRefs' = {} /\ refs' = {}

\* The repository is skipped for this poll, with the jobs found in it.
RepoFails ==
  /\ CallFails
  /\ phase' = "repos" /\ page' = {} /\ repoRefs' = {} /\ UNCHANGED refs

\* Runs that this poll did not see lose their gate.
PollDone ==
  /\ phase = "repos" /\ todo = {}
  /\ phase' = "submit"
  /\ gate' = [r \in Runs |-> IF r \in live THEN gate[r] ELSE 0]
  /\ live' = {}
  /\ UNCHANGED <<github, known, cursor, repoRefs, refs, submitted, history>>

SubmitJob(j) ==
  /\ phase = "submit" /\ j \in refs
  /\ submitted' = submitted \cup {j} /\ refs' = refs \ {j}
  /\ UNCHANGED <<github, known, gate, phase, cursor, live, repoRefs, history>>

Rest ==
  /\ phase = "submit" /\ refs = {}
  /\ phase' = "idle"
  /\ UNCHANGED <<github, known, gate, cursor, live, repoRefs, refs, submitted, history>>

\* Gates and caches are in memory only.
Restart ==
  /\ faults < MaxFaults /\ faults' = faults + 1
  /\ known' = {} /\ gate' = NoGates /\ phase' = "idle" /\ page' = {}
  /\ live' = {} /\ repoRefs' = {} /\ refs' = {}
  /\ UNCHANGED <<github, todo, repo, status, submitted, broken>>

----------------------------------------------------------------------------
Poll ==
  \/ PollConfigured \/ PollCached \/ PollDiscovered
  \/ \E p \in Repos : VisitRepo(p)
  \/ ListRuns
  \/ \E e \in page : SkipRun(e[1], e[2]) \/ FetchJobs(e[1], e[2])
  \/ NextStatus \/ RepoDone \/ RepoFails \/ PollDone
  \/ \E j \in Jobs : SubmitJob(j)
  \/ Rest

GitHub == (\E j \in Jobs : JobMoves(j)) \/ (\E p \in Repos : PushedOrQuiet(p))

Next == Poll \/ GitHub \/ Restart

Spec == Init /\ [][Next]_vars

(***************************************************************************)
(* Fairness: the poller runs on a ticker and each of its calls returns, by *)
(* the HTTP client's timeout at the latest; the cached repository list is  *)
(* replaced after repoCacheTTL.  GitHub owes nothing.                      *)
(***************************************************************************)
Fairness == WF_vars(Poll) /\ SF_vars(PollDiscovered)

FairSpec == Spec /\ Fairness

----------------------------------------------------------------------------
(* Properties.                                                             *)

\* A gate never hides a job: while the gate of a run equals its updated_at,
\* so that the next poll will skip the run, every queued job of the run has
\* been submitted or is in the hands of the poll under way.  Repositories a
\* call failed for are left out.
GateHidesNoJob ==
  \A r \in Runs : r[1] \notin broken /\ gate[r] = UpdatedAt(r) =>
    QueuedJobs(r) \subseteq submitted \cup refs \cup repoRefs

\* README: "jobs are picked up within one poll interval".
JobsPickedUp ==
  \A j \in Jobs : (job[j] = "queued") ~> (j \in submitted \/ job[j] # "queued")

\* client.go:335: "One broken repo does not abort the sweep": failing calls
\* for one repository never cost another one a job, whether the repositories
\* are configured or discovered by their pushes.
HealthyReposServed ==
  \A j \in Jobs : (job[j] = "queued") ~>
    (\/ j \in submitted \/ job[j] # "queued"
     \/ RepoOf(j) \in broken
     \/ DiscoverRepos /\ RepoOf(j) \notin active)
==============================================================================
