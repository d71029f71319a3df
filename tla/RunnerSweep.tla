---------------------------- MODULE RunnerSweep ----------------------------
(***************************************************************************)
(* How a sweep gets hold of the runner registrations it cleans             *)
(* (reconciler.go: cleanRunners, runnerScopes; githubapp/client.go:        *)
(* ListRunners): it goes through the repositories it knows from its        *)
(* records, fetches the listing of each page by page while runners come    *)
(* and go, and gives up a repository whose listing fails.                  *)
(*                                                                         *)
(* Monitor has what a registration means to a worker, with one repository  *)
(* whose listing is one answer; here a runner shows as offline as soon as  *)
(* its VM is gone, and is not looked at otherwise.  GitHub lists runners   *)
(* in the order they were registered.  Records are not pruned here: that   *)
(* takes a day, in which the sweep has had its chance.                     *)
(***************************************************************************)
EXTENDS Naturals, FiniteSets, SequencesExt

CONSTANTS
  Repos,
  Broken,        \* those whose runners the token may not administer
  Scopes,        \* github.scope: "all", or "fixed" for "org" and "repo"
  MaxRunners,    \* bound: runners registered in a repository
  PageSize,      \* per_page: 100
  MaxPages,      \* the page cap: 20
  MaxFaults      \* bound: crashes and calls that fail now and then, together

ASSUME BoundsAssumption == {MaxRunners, MaxFaults} \subseteq Nat
                           /\ {PageSize, MaxPages} \subseteq Nat \ {0}
ASSUME ReposAssumption == Broken \subseteq Repos /\ Scopes \subseteq {"all", "fixed"}

Runners == (Repos \ Broken) \X (1..MaxRunners)   \* each with a VM of its own
RepoOf(r) == r[1]

VARIABLES
  scope,
  vm,        \* the VM of each runner
  known,     \* the repositories some record names
  reg,       \* GitHub: the registrations of each repository, oldest first
  place,     \* where the sweep is
  alive,     \* the VMs as it listed them
  todo,      \* scopes still to clean
  repo,      \* the one it is cleaning
  page,      \* the page to fetch next
  got,       \* the runners it has been told of
  doomed,    \* those it found stale and has still to remove
  stayed,    \* history: runners registered all through this listing
  shifts,    \* history: runners that left during this listing
  faults     \* history: crashes and failed calls

world   == <<scope, vm, known, reg>>
listing == <<repo, page, got, stayed, shifts>>
NoRepo  == ""
sweep   == <<place, alive, todo, listing, doomed>>
vars    == <<world, sweep, faults>>

Registered(q) == ToSet(reg[q])

TypeOK ==
  /\ scope \in Scopes
  /\ vm \in [Runners -> {"unused", "live", "gone"}] /\ known \subseteq Repos
  /\ reg \in [Repos -> Seq(Runners)]
  /\ \A q \in Repos : IsInjective(reg[q])
                      /\ \A r \in Registered(q) : RepoOf(r) = q /\ vm[r] # "unused"
  /\ place \in {"idle", "listed", "scopes", "pages", "remove"}
  /\ alive \subseteq Runners /\ todo \subseteq Repos /\ repo \in Repos \cup {NoRepo}
  /\ page \in 1..MaxPages
  /\ stayed \cup got \cup doomed \subseteq {r \in Runners : RepoOf(r) = repo}
  /\ shifts \in 0..MaxRunners /\ faults \in 0..MaxFaults

Init ==
  /\ scope \in Scopes
  /\ vm = [r \in Runners |-> "unused"] /\ known = {} /\ reg = [q \in Repos |-> <<>>]
  /\ place = "idle" /\ alive = {} /\ todo = {}
  /\ repo = NoRepo /\ page = 1 /\ got = {} /\ stayed = {} /\ shifts = 0
  /\ doomed = {} /\ faults = 0

----------------------------------------------------------------------------
(* Jobs, runners and VMs.                                                  *)

\* A job is found where no runner can be registered.
Fails(q) ==
  /\ q \in Broken /\ known' = known \cup {q}
  /\ UNCHANGED <<scope, vm, reg, sweep, faults>>

\* A job gets a record, a VM and a registration.
Starts(r) ==
  /\ vm[r] = "unused" /\ vm' = [vm EXCEPT ![r] = "live"]
  /\ known' = known \cup {RepoOf(r)}
  /\ reg' = [reg EXCEPT ![RepoOf(r)] = Append(@, r)]
  /\ UNCHANGED <<scope, sweep, faults>>

\* A registration goes, if it is there; those behind it move up by one.
Drop(r) ==
  LET q == RepoOf(r)
  IN  \/ r \notin Registered(q) /\ UNCHANGED reg
      \/ \E i \in DOMAIN reg[q] :
           reg[q][i] = r /\ reg' = [reg EXCEPT ![q] = RemoveAt(@, i)]

\* A runner is deregistered, after its job or by its worker.
Leaves(r) ==
  /\ r \in Registered(RepoOf(r)) /\ Drop(r)
  /\ IF place = "pages" /\ r \in stayed
       THEN stayed' = stayed \ {r} /\ shifts' = shifts + 1
       ELSE UNCHANGED <<stayed, shifts>>
  /\ UNCHANGED <<scope, vm, known, place, alive, todo, repo, page, got, doomed, faults>>

\* A VM is deleted or dies; its registration may stay behind.
VMGoes(r) ==
  /\ vm[r] = "live" /\ vm' = [vm EXCEPT ![r] = "gone"]
  /\ UNCHANGED <<scope, known, reg, sweep, faults>>

----------------------------------------------------------------------------
(* The sweep.                                                              *)

\* (a mutant: what a listing found before it failed is kept)
LeaveKeepingFinds(where) ==
  /\ place' = where
  /\ repo' = NoRepo /\ page' = 1 /\ got' = {} /\ UNCHANGED doomed
  /\ stayed' = {} /\ shifts' = 0

\* Done with a repository, or with the sweep: what it held is dropped.
Leave(where) ==
  /\ place' = where
  /\ repo' = NoRepo /\ page' = 1 /\ got' = {} /\ doomed' = {}
  /\ stayed' = {} /\ shifts' = 0

\* The VM listing; if it fails there is no sweep.
BeginSweep ==
  /\ place = "idle"
  /\ alive' = {r \in Runners : vm[r] = "live"} /\ place' = "listed"
  /\ UNCHANGED <<world, todo, listing, doomed, faults>>

\* runnerScopes.
Watched == IF scope = "all" THEN known ELSE Repos

ChooseScopes ==
  /\ place = "listed" /\ todo' = Watched /\ place' = "scopes"
  /\ UNCHANGED <<world, alive, listing, doomed, faults>>

NextScope ==
  /\ place = "scopes"
  /\ \E q \in todo :
       /\ todo' = todo \ {q} /\ repo' = q /\ stayed' = Registered(q)
  /\ place' = "pages"
  /\ UNCHANGED <<world, alive, page, got, shifts, doomed, faults>>

\* What GitHub answers for a page.
Page == {reg[repo][i] : i \in {i \in DOMAIN reg[repo] :
                                 /\ i > (page - 1) * PageSize /\ i <= page * PageSize}}

\* Offline, and the VM in its name was not in the listing.
Stale(r) == vm[r] # "live" /\ r \notin alive

Listed(where, next) ==
  /\ place' = where /\ page' = next
  /\ got' = got \cup Page /\ doomed' = doomed \cup {r \in Page : Stale(r)}
  /\ UNCHANGED <<repo, stayed, shifts>>

\* (a mutant: a listing as long as the page cap is taken for complete)
FetchPageCapIsEnd ==
  /\ place = "pages" /\ repo \notin Broken
  /\ IF Cardinality(Page) = PageSize /\ page < MaxPages
       THEN Listed("pages", page + 1) ELSE Listed("remove", page)
  /\ UNCHANGED <<world, alive, todo, faults>>

\* The next page: a short one is the last one, and a listing that goes on
\* past the page cap is an error.
FetchPage ==
  /\ place = "pages" /\ repo \notin Broken
  /\ IF Cardinality(Page) < PageSize THEN Listed("remove", page)
     ELSE IF page < MaxPages THEN Listed("pages", page + 1)
     ELSE Leave("scopes")
  /\ UNCHANGED <<world, alive, todo, faults>>

Fault == faults < MaxFaults /\ faults' = faults + 1

\* (a mutant: a repository that cannot be listed ends the sweep)
ListingFailsEndsSweep ==
  /\ place = "pages" /\ (Fault \/ (repo \in Broken /\ UNCHANGED faults))
  /\ Leave("idle") /\ alive' = {} /\ todo' = {}
  /\ UNCHANGED world

ListingFails ==
  /\ place = "pages" /\ (Fault \/ (repo \in Broken /\ UNCHANGED faults))
  /\ Leave("scopes")
  /\ UNCHANGED <<world, alive, todo>>

RemoveRunner(r) ==
  /\ place = "remove" /\ r \in doomed /\ doomed' = doomed \ {r}
  /\ \/ Drop(r) /\ UNCHANGED faults
     \/ Fault /\ UNCHANGED reg
  /\ UNCHANGED <<scope, vm, known, place, alive, todo, listing>>

ScopeDone ==
  /\ place = "remove" /\ doomed = {} /\ Leave("scopes")
  /\ UNCHANGED <<world, alive, todo, faults>>

SweepDone ==
  /\ place = "scopes" /\ todo = {}
  /\ place' = "idle" /\ alive' = {}
  /\ UNCHANGED <<world, todo, listing, doomed, faults>>

\* The process restarts, perhaps without its state file.
Crash ==
  /\ Fault
  /\ known' = known \/ known' = {}
  /\ Leave("idle") /\ alive' = {} /\ todo' = {}
  /\ UNCHANGED <<scope, vm, reg>>

----------------------------------------------------------------------------
Sweep ==
  \/ BeginSweep \/ ChooseScopes \/ NextScope \/ FetchPage \/ ListingFails
  \/ (\E r \in Runners : RemoveRunner(r)) \/ ScopeDone \/ SweepDone

Next ==
  \/ \E q \in Repos : Fails(q)
  \/ \E r \in Runners : Starts(r) \/ Leaves(r) \/ VMGoes(r)
  \/ Sweep
  \/ Crash

Spec == Init /\ [][Next]_vars

\* The sweep runs on a ticker, and its calls end.
FairSpec == Spec /\ WF_vars(Sweep)

----------------------------------------------------------------------------
(* Properties.                                                             *)

Leftover(r) == vm[r] = "gone" /\ r \in Registered(RepoOf(r))

TooMany(q) == Len(reg[q]) >= PageSize * MaxPages

\* A listing that is handed on lacks at most one registered runner for each
\* one that left while it was fetched: what ListRunners' page loop, its short
\* last page and its page cap give together (client.go, lines 278 to 299).
MissesAreShifts == place = "remove" => Cardinality(stayed \ got) <= shifts

\* A leftover of a repository some record names is removed in the end: neither
\* pages that shift, nor a failing call, nor another repository that cannot be
\* listed keeps it (reconciler.go, lines 134 to 173).  Only as many
\* registrations as the page cap allows do, for good.
LeftoversSwept ==
  \A r \in Runners :
    []<>(Leftover(r) => RepoOf(r) \notin Watched \/ TooMany(RepoOf(r)))
=============================================================================
