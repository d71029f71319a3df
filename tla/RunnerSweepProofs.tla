------------------------- MODULE RunnerSweepProofs -------------------------
(***************************************************************************)
(* What a listing fetched page by page may lack, for any number of         *)
(* repositories and runners, any page size and page cap, and however       *)
(* runners come and go between two pages.                                  *)
(***************************************************************************)
EXTENDS RunnerSweep, FiniteSetTheorems, SequenceTheorems, TLAPS

-----------------------------------------------------------------------------
(* The inductive invariant.                                                *)

\* What a repository's listing is made of.
RegFits(q) ==
  IsInjective(reg[q]) /\ \A r \in Registered(q) : RepoOf(r) = q /\ vm[r] # "unused"

\* The registrations on the pages fetched so far.
Fetched == {reg[repo][i] : i \in {i \in DOMAIN reg[repo] : i <= (page - 1) * PageSize}}

\* The sweep holds nothing between two repositories.
HandsEmpty ==
  place \in {"idle", "listed", "scopes"} =>
    repo = NoRepo /\ page = 1 /\ got = {} /\ doomed = {} /\ stayed = {} /\ shifts = 0

\* Runners that come are listed behind those that were there all along,
NewcomersLast ==
  \A i, j \in DOMAIN reg[repo] : i < j /\ reg[repo][j] \in stayed => reg[repo][i] \in stayed

\* so only a runner that leaves moves one of these to a page fetched already.
ListingFits ==
  place = "pages" =>
    /\ repo \in Repos /\ stayed \subseteq Registered(repo)
    /\ NewcomersLast
    /\ Cardinality(Fetched \cap (stayed \ got)) <= shifts
    /\ Cardinality(stayed) + shifts <= MaxRunners

SweepInv == TypeOK /\ HandsEmpty /\ ListingFits /\ MissesAreShifts

-----------------------------------------------------------------------------
(* Sequences, sets and numbers.                                            *)

LEMMA RemoveAtIs ==
  ASSUME NEW S, NEW s \in Seq(S), NEW i \in DOMAIN s
  PROVE  /\ RemoveAt(s, i) \in Seq(S)
         /\ DOMAIN RemoveAt(s, i) = 1..(Len(s) - 1)
         /\ \A j \in 1..(Len(s) - 1) :
              RemoveAt(s, i)[j] = IF j < i THEN s[j] ELSE s[j + 1]
<1> DEFINE front == SubSeq(s, 1, i - 1)
           back  == SubSeq(s, i + 1, Len(s))
<1>1. /\ i \in 1..Len(s) /\ Len(s) \in Nat /\ i - 1 \in Int /\ i + 1 \in Int /\ Len(s) \in Int
      /\ \A j \in 1..Len(s) : s[j] \in S
  BY LenProperties
<1>2. /\ front \in Seq(S) /\ Len(front) = i - 1
      /\ \A j \in 1..(i - 1) : front[j] = s[j]
  <2>1. \A j \in 1..(i - 1) : s[j] \in S
    BY <1>1
  <2>2. /\ SubSeq(s, 1, i - 1) \in Seq(S)
        /\ Len(SubSeq(s, 1, i - 1)) = IF 1 <= i - 1 THEN i - 1 - 1 + 1 ELSE 0
        /\ \A j \in 1..(i - 1 - 1 + 1) : SubSeq(s, 1, i - 1)[j] = s[1 + j - 1]
    BY <1>1, <2>1, SubSeqProperties
  <2> QED
    BY <1>1, <2>2
<1>3. /\ back \in Seq(S) /\ Len(back) = Len(s) - i
      /\ \A j \in 1..(Len(s) - i) : back[j] = s[i + j]
  <2>1. \A j \in (i + 1)..Len(s) : s[j] \in S
    BY <1>1
  <2>2. /\ SubSeq(s, i + 1, Len(s)) \in Seq(S)
        /\ Len(SubSeq(s, i + 1, Len(s)))
             = IF i + 1 <= Len(s) THEN Len(s) - (i + 1) + 1 ELSE 0
        /\ \A j \in 1..(Len(s) - (i + 1) + 1) :
             SubSeq(s, i + 1, Len(s))[j] = s[i + 1 + j - 1]
    BY <1>1, <2>1, SubSeqProperties
  <2> HIDE DEF back
  <2>3. back = SubSeq(s, i + 1, Len(s))
    BY DEF back
  <2>4. Len(s) - (i + 1) + 1 = Len(s) - i
    BY <1>1
  <2>5. Len(back) = Len(s) - i
    BY <1>1, <2>2, <2>3, <2>4
  <2>6. ASSUME NEW j \in 1..(Len(s) - i)
        PROVE  back[j] = s[i + j]
    <3>1. i + 1 + j - 1 = i + j
      BY <1>1
    <3> QED
      BY <2>2, <2>3, <2>4, <3>1
  <2> QED
    BY <2>2, <2>3, <2>5, <2>6
<1> HIDE DEF front, back
<1>4. /\ front \o back \in Seq(S) /\ Len(front \o back) = Len(s) - 1
      /\ \A j \in 1..(Len(s) - 1) :
           (front \o back)[j] = IF j <= i - 1 THEN front[j] ELSE back[j - (i - 1)]
  <2>1. Len(front) + Len(back) = Len(s) - 1
    BY <1>1, <1>2, <1>3
  <2>2. /\ front \o back \in Seq(S) /\ Len(front \o back) = Len(front) + Len(back)
        /\ \A j \in 1..(Len(front) + Len(back)) :
             (front \o back)[j] = IF j <= Len(front) THEN front[j] ELSE back[j - Len(front)]
    BY <1>2, <1>3, ConcatProperties
  <2> QED
    BY <1>2, <2>1, <2>2
<1>5. RemoveAt(s, i) = front \o back
  BY DEF RemoveAt, front, back
<1>6. DOMAIN RemoveAt(s, i) = 1..(Len(s) - 1)
  BY <1>4, <1>5, LenProperties
<1>7. ASSUME NEW j \in 1..(Len(s) - 1)
      PROVE  RemoveAt(s, i)[j] = IF j < i THEN s[j] ELSE s[j + 1]
  <2>1. CASE j < i
    BY <1>1, <1>2, <1>4, <1>5, <2>1
  <2>2. CASE ~(j < i)
    <3>1. j - (i - 1) \in 1..(Len(s) - i) /\ i + (j - (i - 1)) = j + 1
      BY <1>1, <2>2
    <3>2. ~(j <= i - 1)
      BY <1>1, <2>2
    <3>3. (front \o back)[j] = back[j - (i - 1)]
      BY <1>4, <3>2
    <3>4. back[j - (i - 1)] = s[i + (j - (i - 1))]
      BY <1>3, <3>1
    <3> QED
      BY <1>5, <2>2, <3>1, <3>3, <3>4
  <2> QED
    BY <2>1, <2>2
<1> QED
  BY <1>4, <1>5, <1>6, <1>7

LEMMA AppendIs ==
  ASSUME NEW S, NEW s \in Seq(S), NEW e \in S
  PROVE  /\ Append(s, e) \in Seq(S)
         /\ DOMAIN Append(s, e) = 1..(Len(s) + 1) /\ DOMAIN s = 1..Len(s) /\ Len(s) \in Nat
         /\ \A j \in DOMAIN s : Append(s, e)[j] = s[j]
         /\ Append(s, e)[Len(s) + 1] = e
OBVIOUS

\* The positions on pages before one, and on it.
LEMMA Positions ==
  ASSUME NEW p \in Nat \ {0}
  PROVE  /\ (p - 1) * PageSize \in Nat /\ p * PageSize \in Nat
         /\ p * PageSize = (p - 1) * PageSize + PageSize
         /\ PageSize \in Nat \ {0}
<1>1. PageSize \in Nat \ {0}
  BY BoundsAssumption
<1>2. (p - 1) * PageSize \in Nat /\ p * PageSize = (p - 1) * PageSize + PageSize
  BY <1>1
<1> QED
  BY <1>1, <1>2

LEMMA MaxPagesIs == MaxPages \in Nat \ {0} /\ MaxRunners \in Nat /\ MaxFaults \in Nat
BY BoundsAssumption

\* A page that is full.
LEMMA FullPage ==
  ASSUME NEW S, NEW s \in Seq(S), IsInjective(s), NEW a \in Nat, NEW n \in Nat,
         a + n <= Len(s)
  PROVE  LET F == {s[i] : i \in {i \in DOMAIN s : i > a /\ i <= a + n}}
         IN  Cardinality(F) = n
<1> DEFINE I == (a + 1)..(a + n)
           F == {s[i] : i \in {i \in DOMAIN s : i > a /\ i <= a + n}}
           f == [i \in I |-> s[i]]
<1>1. DOMAIN s = 1..Len(s) /\ Len(s) \in Nat
  OBVIOUS
<1>2. I \subseteq DOMAIN s /\ I = {i \in DOMAIN s : i > a /\ i <= a + n}
  BY <1>1
<1>3. F = {s[i] : i \in I}
  BY <1>2
<1>4. f \in Injection(I, F)
  BY <1>2, <1>3 DEF Injection, IsInjective
<1>5. f \in Surjection(I, F)
  BY <1>3 DEF Surjection
<1>6. ExistsBijection(I, F)
  BY <1>4, <1>5 DEF ExistsBijection, Bijection
<1>7. IsFiniteSet(I) /\ Cardinality(I) = n
  BY FS_Interval
<1> QED
  BY <1>6, <1>7, FS_Bijection

\* A repository has so many runners.
LEMMA RunnersOf ==
  ASSUME NEW q, NEW T, T \subseteq {r \in Runners : RepoOf(r) = q}
  PROVE  IsFiniteSet(T) /\ Cardinality(T) \in Nat /\ Cardinality(T) <= MaxRunners
<1> DEFINE I == 1..MaxRunners
           R == {r \in Runners : RepoOf(r) = q}
           f == [r \in R |-> r[2]]
<1>1. f \in Injection(R, I)
  BY DEF Injection, IsInjective, Runners, RepoOf
<1>2. IsFiniteSet(I) /\ Cardinality(I) = MaxRunners
  BY FS_Interval, MaxPagesIs
<1>3. IsFiniteSet(R) /\ Cardinality(R) <= MaxRunners
  BY <1>1, <1>2, FS_Injection
<1> QED
  BY <1>2, <1>3, FS_Subset, FS_CardinalityType, MaxPagesIs

-----------------------------------------------------------------------------
(* The listings at GitHub.                                                 *)

LEMMA ListingIs ==
  ASSUME TypeOK, NEW q \in Repos
  PROVE  /\ reg[q] \in Seq(Runners) /\ DOMAIN reg[q] = 1..Len(reg[q]) /\ Len(reg[q]) \in Nat
         /\ RegFits(q) /\ Registered(q) = {reg[q][i] : i \in DOMAIN reg[q]}
         /\ Registered(q) \subseteq {r \in Runners : RepoOf(r) = q}
<1>1. reg[q] \in Seq(Runners) /\ RegFits(q) /\ Registered(q) = {reg[q][i] : i \in DOMAIN reg[q]}
  BY DEF TypeOK, RegFits, Registered, ToSet
<1>2. DOMAIN reg[q] = 1..Len(reg[q]) /\ Len(reg[q]) \in Nat /\ \A i \in DOMAIN reg[q] : reg[q][i] \in Runners
  BY <1>1
<1> QED
  BY <1>1, <1>2 DEF RegFits

LEMMA RunnersRepo == \A r \in Runners : RepoOf(r) \in Repos
BY DEF Runners, RepoOf

\* What is left of a listing without one of its positions.
Without(s, t, i) ==
  /\ i \in DOMAIN s /\ DOMAIN t = 1..(Len(s) - 1)
  /\ \A j \in DOMAIN t : t[j] = IF j < i THEN s[j] ELSE s[j + 1]

LEMMA WithoutOne ==
  ASSUME NEW s \in Seq(Runners), IsInjective(s), NEW t, NEW i, Without(s, t, i)
  PROVE  /\ IsInjective(t)
         /\ {t[j] : j \in DOMAIN t} = {s[j] : j \in DOMAIN s} \ {s[i]}
<1>1. DOMAIN s = 1..Len(s) /\ Len(s) \in Nat /\ i \in 1..Len(s)
  BY DEF Without
<1>2. IsInjective(t)
  <2> SUFFICES ASSUME NEW a \in DOMAIN t, NEW b \in DOMAIN t, t[a] = t[b]
               PROVE  a = b
    BY DEF IsInjective
  <2>1. \A j \in DOMAIN t : j \in Nat /\ j \in DOMAIN s /\ j + 1 \in DOMAIN s
    BY <1>1 DEF Without
  <2> QED
    BY <1>1, <2>1 DEF Without, IsInjective
<1>3. ASSUME NEW j \in DOMAIN t
      PROVE  \E m \in DOMAIN s : m # i /\ t[j] = s[m]
  <2>1. j \in Nat /\ j \in DOMAIN s /\ j + 1 \in DOMAIN s
    BY <1>1 DEF Without
  <2>2. CASE j < i
    BY <1>1, <2>1, <2>2 DEF Without
  <2>3. CASE ~(j < i)
    BY <1>1, <2>1, <2>3 DEF Without
  <2> QED
    BY <2>2, <2>3
<1>4. ASSUME NEW m \in DOMAIN s, m # i
      PROVE  \E j \in DOMAIN t : t[j] = s[m]
  <2>1. CASE m < i
    <3>1. m \in DOMAIN t
      BY <1>1, <2>1 DEF Without
    <3> QED
      BY <2>1, <3>1 DEF Without
  <2>2. CASE ~(m < i)
    <3>1. m - 1 \in DOMAIN t /\ ~(m - 1 < i) /\ m - 1 + 1 = m
      BY <1>1, <1>4, <2>2 DEF Without
    <3> QED
      BY <3>1 DEF Without
  <2> QED
    BY <2>1, <2>2
<1> QED
  BY <1>1, <1>2, <1>3, <1>4 DEF IsInjective

LEMMA DropIs ==
  ASSUME TypeOK, NEW r \in Runners, Drop(r)
  PROVE  /\ reg' \in [Repos -> Seq(Runners)]
         /\ \A q \in Repos : q # RepoOf(r) => reg'[q] = reg[q]
         /\ \/ r \notin Registered(RepoOf(r)) /\ reg' = reg
            \/ \E i \in DOMAIN reg[RepoOf(r)] :
                 reg[RepoOf(r)][i] = r /\ Without(reg[RepoOf(r)], reg'[RepoOf(r)], i)
<1> DEFINE q == RepoOf(r)
<1>1. q \in Repos /\ reg \in [Repos -> Seq(Runners)] /\ reg[q] \in Seq(Runners)
  BY RunnersRepo DEF TypeOK
<1>2. CASE r \notin Registered(q) /\ UNCHANGED reg
  BY <1>1, <1>2
<1>3. ASSUME NEW i \in DOMAIN reg[q], reg[q][i] = r,
             reg' = [reg EXCEPT ![q] = RemoveAt(@, i)]
      PROVE  /\ reg' \in [Repos -> Seq(Runners)]
             /\ \A p \in Repos : p # q => reg'[p] = reg[p]
             /\ Without(reg[q], reg'[q], i)
  <2>1. RemoveAt(reg[q], i) \in Seq(Runners) /\ Without(reg[q], RemoveAt(reg[q], i), i)
    BY <1>1, <1>3, RemoveAtIs DEF Without
  <2>2. reg'[q] = RemoveAt(reg[q], i)
    BY <1>1, <1>3
  <2> QED
    BY <1>1, <1>3, <2>1, <2>2
<1> QED
  BY <1>2, <1>3 DEF Drop

LEMMA DropFits ==
  ASSUME TypeOK, NEW r \in Runners, Drop(r), vm' = vm, NEW q \in Repos
  PROVE  RegFits(q)' /\ Registered(q)' = Registered(q) \ {r}
<1>1. RegFits(q) /\ reg[q] \in Seq(Runners)
      /\ Registered(q) = {reg[q][i] : i \in DOMAIN reg[q]}
      /\ Registered(q) \subseteq {p \in Runners : RepoOf(p) = q}
  BY ListingIs
<1>2. Registered(q)' = {reg'[q][i] : i \in DOMAIN reg'[q]}
  BY DEF Registered, ToSet
<1>3. CASE reg'[q] = reg[q] /\ r \notin Registered(q)
  BY <1>1, <1>2, <1>3 DEF RegFits
<1>4. ASSUME NEW i \in DOMAIN reg[q], reg[q][i] = r, Without(reg[q], reg'[q], i)
      PROVE  RegFits(q)' /\ Registered(q)' = Registered(q) \ {r}
  <2>1. IsInjective(reg'[q]) /\ Registered(q)' = Registered(q) \ {r}
    BY <1>1, <1>2, <1>4, WithoutOne DEF RegFits
  <2> QED
    BY <1>1, <2>1 DEF RegFits
<1> QED
  BY <1>1, <1>3, <1>4, DropIs

LEMMA StartFits ==
  ASSUME TypeOK, NEW r \in Runners, Starts(r), NEW q \in Repos
  PROVE  /\ reg' \in [Repos -> Seq(Runners)] /\ RegFits(q)'
         /\ Registered(q) \subseteq Registered(q)'
         /\ r \notin Registered(q)
         /\ DOMAIN reg[q] \subseteq DOMAIN reg'[q]
         /\ \A i \in DOMAIN reg[q] : reg'[q][i] = reg[q][i]
         /\ \A i \in DOMAIN reg'[q] : i \in DOMAIN reg[q] \/ reg'[q][i] = r
<1>1. /\ reg[q] \in Seq(Runners) /\ DOMAIN reg[q] = 1..Len(reg[q]) /\ Len(reg[q]) \in Nat
      /\ RegFits(q) /\ Registered(q) = {reg[q][i] : i \in DOMAIN reg[q]}
      /\ Registered(q) \subseteq {p \in Runners : RepoOf(p) = q}
  BY ListingIs
<1>2. vm \in [Runners -> {"unused", "live", "gone"}] /\ reg \in [Repos -> Seq(Runners)]
  BY DEF TypeOK
<1>3. r \notin Registered(q)
  BY <1>1 DEF Starts, RegFits
<1>4. RepoOf(r) \in Repos
  BY RunnersRepo
<1>5. Append(reg[RepoOf(r)], r) \in Seq(Runners)
  BY <1>2, <1>4
<1>6. reg' \in [Repos -> Seq(Runners)]
  BY <1>2, <1>5 DEF Starts
<1>7. Registered(q)' = {reg'[q][i] : i \in DOMAIN reg'[q]}
  BY DEF Registered, ToSet
<1>8. \A p \in Registered(q) : vm'[p] # "unused"
  BY <1>1, <1>2 DEF Starts, RegFits
<1>9. CASE q # RepoOf(r)
  <2>1. reg'[q] = reg[q]
    BY <1>2, <1>9 DEF Starts
  <2> QED
    BY <1>1, <1>3, <1>6, <1>7, <1>8, <2>1 DEF RegFits
<1>10. CASE q = RepoOf(r)
  <2>1. reg'[q] = Append(reg[q], r)
    BY <1>2, <1>10 DEF Starts
  <2>2. /\ DOMAIN reg'[q] = 1..(Len(reg[q]) + 1)
        /\ \A i \in DOMAIN reg[q] : reg'[q][i] = reg[q][i]
        /\ reg'[q][Len(reg[q]) + 1] = r
    BY <1>1, <2>1, AppendIs
  <2>3. \A i \in DOMAIN reg'[q] : i \in DOMAIN reg[q] \/ i = Len(reg[q]) + 1
    BY <1>1, <2>2
  <2>4. DOMAIN reg[q] \subseteq DOMAIN reg'[q]
    BY <1>1, <2>2
  <2>5. \A i \in DOMAIN reg[q] : reg[q][i] # r
    BY <1>1, <1>3
  <2>6. IsInjective(reg'[q])
    BY <1>1, <2>2, <2>3, <2>5 DEF RegFits, IsInjective
  <2>7. Registered(q)' = Registered(q) \cup {r}
    BY <1>1, <1>7, <2>2, <2>3, <2>4
  <2>8. vm'[r] # "unused"
    BY <1>2 DEF Starts
  <2>9. RegFits(q)'
    BY <1>1, <1>8, <1>10, <2>6, <2>7, <2>8 DEF RegFits
  <2> QED
    BY <1>3, <1>6, <2>2, <2>3, <2>4, <2>7, <2>9
<1> QED
  BY <1>9, <1>10

-----------------------------------------------------------------------------
(* The type invariant in two halves, and cardinalities.                    *)

WorldTypes ==
  /\ scope \in Scopes
  /\ vm \in [Runners -> {"unused", "live", "gone"}] /\ known \subseteq Repos
  /\ reg \in [Repos -> Seq(Runners)]
  /\ \A q \in Repos : RegFits(q)

SweepTypes ==
  /\ place \in {"idle", "listed", "scopes", "pages", "remove"}
  /\ alive \subseteq Runners /\ todo \subseteq Repos /\ repo \in Repos \cup {NoRepo}
  /\ page \in 1..MaxPages
  /\ stayed \cup got \cup doomed \subseteq {r \in Runners : RepoOf(r) = repo}
  /\ shifts \in 0..MaxRunners

Types == WorldTypes /\ SweepTypes /\ faults \in 0..MaxFaults

LEMMA TypesSplit == (TypeOK <=> Types) /\ (TypeOK' <=> Types')
BY DEF TypeOK, Types, WorldTypes, SweepTypes, RegFits

LEMMA SweepTypesKept == SweepTypes /\ UNCHANGED sweep => SweepTypes'
BY DEF SweepTypes, sweep, listing

LEMMA WorldTypesKept == WorldTypes /\ UNCHANGED world => WorldTypes'
<1> SUFFICES ASSUME WorldTypes, UNCHANGED world PROVE WorldTypes'
  OBVIOUS
<1>1. scope' = scope /\ vm' = vm /\ known' = known /\ reg' = reg
  BY DEF world
<1>2. \A q \in Repos : RegFits(q)'
  BY <1>1 DEF WorldTypes, RegFits, Registered
<1> QED
  BY <1>1, <1>2 DEF WorldTypes

\* What the sweep missed so far.
Missed == Fetched \cap (stayed \ got)

Counts ==
  /\ IsFiniteSet(stayed) /\ Cardinality(stayed) \in Nat /\ Cardinality(stayed) <= MaxRunners
  /\ IsFiniteSet(stayed \ got) /\ Cardinality(stayed \ got) \in Nat
  /\ IsFiniteSet(Missed) /\ Cardinality(Missed) \in Nat
  /\ shifts \in Nat

LEMMA SetsCount == SweepTypes => Counts
<1> SUFFICES ASSUME SweepTypes PROVE Counts
  OBVIOUS
<1>1. stayed \subseteq {r \in Runners : RepoOf(r) = repo} /\ shifts \in Nat
  BY DEF SweepTypes
<1>2. stayed \ got \subseteq {r \in Runners : RepoOf(r) = repo}
      /\ Missed \subseteq {r \in Runners : RepoOf(r) = repo}
  BY <1>1 DEF Missed
<1> QED
  BY <1>1, <1>2, RunnersOf DEF Counts

LEMMA NoMoreMissed ==
  ASSUME SweepTypes, Missed' \subseteq Missed
  PROVE  Cardinality(Missed)' \in Nat /\ Cardinality(Missed') <= Cardinality(Missed)
BY SetsCount, FS_Subset, FS_CardinalityType DEF Counts

PagesFit ==
  /\ repo \in Repos /\ stayed \subseteq Registered(repo)
  /\ NewcomersLast
  /\ Cardinality(Missed) <= shifts
  /\ Cardinality(stayed) + shifts <= MaxRunners

LEMMA ListingSplit ==
  /\ ListingFits <=> (place = "pages" => PagesFit)
  /\ ListingFits' <=> (place' = "pages" => PagesFit')
BY DEF ListingFits, PagesFit, Missed

-----------------------------------------------------------------------------
(* Steps that leave the sweep alone.                                       *)

\* A listing in which everything stays where it is, but for what is added.
LEMMA LongerListing ==
  ASSUME SweepTypes, PagesFit, UNCHANGED sweep,
         NEW n \in Nat, DOMAIN reg[repo] = 1..n, DOMAIN reg[repo] \subseteq DOMAIN reg'[repo],
         \A i \in DOMAIN reg'[repo] : i \in Nat /\ i >= 1,
         \A i \in DOMAIN reg[repo] : reg'[repo][i] = reg[repo][i],
         \A i \in DOMAIN reg'[repo] : i \in DOMAIN reg[repo] \/ reg'[repo][i] \notin stayed
  PROVE  PagesFit'
<1>1. UNCHANGED <<place, alive, todo, repo, page, got, stayed, shifts, doomed>>
  BY DEF sweep, listing
<1>2. stayed' \subseteq Registered(repo)'
  BY <1>1 DEF PagesFit, Registered, ToSet
<1>3. NewcomersLast'
  <2> SUFFICES ASSUME NEW i \in DOMAIN reg'[repo], NEW j \in DOMAIN reg'[repo],
                      i < j, reg'[repo][j] \in stayed
               PROVE  reg'[repo][i] \in stayed
    BY <1>1 DEF NewcomersLast
  <2>1. j \in DOMAIN reg[repo] /\ i \in DOMAIN reg[repo]
    OBVIOUS
  <2> QED
    BY <2>1 DEF PagesFit, NewcomersLast
<1>4. Missed' \subseteq Missed
  BY <1>1 DEF Missed, Fetched
<1>5. Cardinality(Missed)' <= shifts
  BY <1>4, NoMoreMissed, SetsCount DEF PagesFit, Counts
<1> QED
  BY <1>1, <1>2, <1>3, <1>5 DEF PagesFit

LEMMA SameListing ==
  ASSUME SweepTypes, PagesFit, UNCHANGED sweep, reg'[repo] = reg[repo]
  PROVE  PagesFit'
<1>1. UNCHANGED <<place, alive, todo, repo, page, got, stayed, shifts, doomed>>
  BY DEF sweep, listing
<1> QED
  BY <1>1 DEF PagesFit, NewcomersLast, Missed, Fetched, Registered

LEMMA QuietKeeps ==
  ASSUME UNCHANGED sweep
  PROVE  (HandsEmpty => HandsEmpty') /\ (MissesAreShifts => MissesAreShifts')
BY DEF HandsEmpty, MissesAreShifts, sweep, listing

\* Jobs without runners, VMs that go, and nothing at all.
LEMMA FailsKeeps ==
  ASSUME SweepInv,
         \/ \E q \in Repos : Fails(q)
         \/ \E r \in Runners : VMGoes(r)
         \/ UNCHANGED vars
  PROVE  SweepInv'
<1>1. TypeOK /\ WorldTypes /\ SweepTypes /\ faults \in 0..MaxFaults
  BY TypesSplit DEF SweepInv, Types
<1>2. UNCHANGED sweep /\ reg' = reg /\ faults' = faults /\ scope' = scope
      /\ known' \subseteq Repos
  BY <1>1 DEF Fails, VMGoes, vars, world, WorldTypes
<1>3. /\ vm' \in [Runners -> {"unused", "live", "gone"}]
      /\ \A r \in Runners : vm[r] # "unused" => vm'[r] # "unused"
  BY <1>1 DEF Fails, VMGoes, vars, world, WorldTypes
<1>4. \A q \in Repos : RegFits(q)'
  <2> SUFFICES ASSUME NEW q \in Repos PROVE RegFits(q)'
    OBVIOUS
  <2>1. RegFits(q) /\ Registered(q) \subseteq {r \in Runners : RepoOf(r) = q}
    BY <1>1, ListingIs
  <2>2. Registered(q)' = Registered(q)
    BY <1>2 DEF Registered
  <2> QED
    BY <1>2, <1>3, <2>1, <2>2 DEF RegFits
<1>5. WorldTypes' /\ SweepTypes'
  BY <1>1, <1>2, <1>3, <1>4, SweepTypesKept DEF WorldTypes
<1>6. TypeOK'
  BY <1>1, <1>2, <1>5, TypesSplit DEF Types
<1>7. ListingFits'
  <2>1. place' = place
    BY <1>2 DEF sweep
  <2>2. PagesFit => PagesFit'
    BY <1>1, <1>2, SameListing
  <2> QED
    BY <2>1, <2>2, ListingSplit DEF SweepInv
<1> QED
  BY <1>2, <1>6, <1>7, QuietKeeps DEF SweepInv

LEMMA StartsKeeps ==
  ASSUME SweepInv, NEW r \in Runners, Starts(r)
  PROVE  SweepInv'
<1>1. TypeOK /\ WorldTypes /\ SweepTypes /\ faults \in 0..MaxFaults
  BY TypesSplit DEF SweepInv, Types
<1>2. UNCHANGED sweep /\ faults' = faults /\ scope' = scope
  BY DEF Starts
<1>3. known' \subseteq Repos /\ vm' \in [Runners -> {"unused", "live", "gone"}]
  BY <1>1, RunnersRepo DEF Starts, WorldTypes
<1>4. reg' \in [Repos -> Seq(Runners)]
  BY <1>1, StartFits, RunnersRepo
<1>5. \A q \in Repos : RegFits(q)'
  BY <1>1, StartFits
<1>6. TypeOK'
  BY <1>1, <1>2, <1>3, <1>4, <1>5, SweepTypesKept, TypesSplit DEF WorldTypes, Types
<1>7. ASSUME PagesFit PROVE PagesFit'
  <2>1. repo \in Repos /\ stayed \subseteq Registered(repo)
    BY <1>7 DEF PagesFit
  <2>2. /\ r \notin Registered(repo)
        /\ DOMAIN reg[repo] \subseteq DOMAIN reg'[repo]
        /\ \A i \in DOMAIN reg[repo] : reg'[repo][i] = reg[repo][i]
        /\ \A i \in DOMAIN reg'[repo] : i \in DOMAIN reg[repo] \/ reg'[repo][i] = r
    BY <1>1, <2>1, StartFits
  <2>3. DOMAIN reg[repo] = 1..Len(reg[repo]) /\ Len(reg[repo]) \in Nat
    BY <1>1, <2>1, ListingIs
  <2>4. \A i \in DOMAIN reg'[repo] : i \in Nat /\ i >= 1
    BY <1>4, <2>1
  <2>5. r \notin stayed
    BY <2>1, <2>2
  <2> QED
    BY <1>1, <1>2, <1>7, <2>2, <2>3, <2>4, <2>5, LongerListing
<1>8. ListingFits'
  BY <1>2, <1>7, ListingSplit DEF SweepInv, sweep
<1> QED
  BY <1>2, <1>6, <1>8, QuietKeeps DEF SweepInv

-----------------------------------------------------------------------------
(* Runners that leave.                                                     *)

\* One that the sweep could have been told of: those behind it move up.
LEMMA OneOfThemLeaves ==
  ASSUME SweepInv, place = "pages", NEW r \in stayed, Leaves(r)
  PROVE  PagesFit' /\ SweepTypes'
<1>1. TypeOK /\ WorldTypes /\ SweepTypes /\ PagesFit /\ Counts
  BY TypesSplit, ListingSplit, SetsCount DEF SweepInv, Types
<1>2. r \in Runners /\ RepoOf(r) = repo /\ repo \in Repos /\ page \in 1..MaxPages
  BY <1>1 DEF SweepTypes, PagesFit
<1>3. UNCHANGED <<scope, vm, known, place, alive, todo, repo, page, got, doomed, faults>>
      /\ Drop(r) /\ r \in Registered(repo) /\ stayed' = stayed \ {r} /\ shifts' = shifts + 1
  BY <1>2 DEF Leaves
<1> DEFINE s == reg[repo]
           F == (page - 1) * PageSize
<1>4. F \in Nat /\ shifts \in Nat
  BY <1>1, <1>2, Positions, MaxPagesIs DEF Counts
<1> HIDE DEF F
<1>5. PICK i \in DOMAIN s : s[i] = r /\ Without(s, reg'[repo], i)
  BY <1>1, <1>2, <1>3, DropIs
<1>6. DOMAIN s = 1..Len(s) /\ Len(s) \in Nat /\ RegFits(repo)
  BY <1>1, <1>2, ListingIs
<1>7. Registered(repo)' = Registered(repo) \ {r}
  BY <1>1, <1>2, <1>3, DropFits
<1>8. stayed' \subseteq Registered(repo)'
  BY <1>1, <1>3, <1>7 DEF PagesFit
<1>9. \A j \in DOMAIN reg'[repo] :
        /\ j \in Nat /\ j \in DOMAIN s /\ j + 1 \in DOMAIN s
        /\ reg'[repo][j] = IF j < i THEN s[j] ELSE s[j + 1]
  BY <1>5, <1>6 DEF Without
<1>10. NewcomersLast'
  <2> SUFFICES ASSUME NEW a \in DOMAIN reg'[repo], NEW b \in DOMAIN reg'[repo],
                      a < b, reg'[repo][b] \in stayed \ {r}
               PROVE  reg'[repo][a] \in stayed \ {r}
    BY <1>3 DEF NewcomersLast
  <2>1. reg'[repo][a] \in stayed
    <3>1. PICK c \in DOMAIN s : c \in Nat /\ reg'[repo][a] = s[c] /\ c = IF a < i THEN a ELSE a + 1
      BY <1>6, <1>9
    <3>2. PICK d \in DOMAIN s : d \in Nat /\ reg'[repo][b] = s[d] /\ d = IF b < i THEN b ELSE b + 1
      BY <1>6, <1>9
    <3>3. c < d
      BY <1>6, <1>9, <3>1, <3>2
    <3> QED
      BY <1>1, <3>1, <3>2, <3>3 DEF PagesFit, NewcomersLast
  <2>2. reg'[repo][a] \in Registered(repo)'
    BY <1>3 DEF Registered, ToSet
  <2> QED
    BY <1>7, <2>1, <2>2
<1>11. Missed' \subseteq Missed \cup {s[F + 1]}
  <2> SUFFICES ASSUME NEW j \in DOMAIN reg'[repo], j <= F,
                      reg'[repo][j] \in stayed \ got
               PROVE  reg'[repo][j] \in Missed \cup {s[F + 1]}
    BY <1>3 DEF Missed, Fetched, F
  <2>1. \A m \in DOMAIN s : m <= F /\ s[m] \in stayed \ got => s[m] \in Missed
    BY DEF Missed, Fetched, F
  <2>2. CASE j < i
    BY <1>9, <2>1, <2>2
  <2>3. CASE ~(j < i)
    <3>1. j + 1 \in DOMAIN s /\ reg'[repo][j] = s[j + 1] /\ (j + 1 <= F \/ j + 1 = F + 1)
      BY <1>4, <1>9, <2>3
    <3> QED
      BY <2>1, <3>1
  <2> QED
    BY <2>2, <2>3
<1>12. Cardinality(Missed') <= shifts + 1
  <2>1. IsFiniteSet(Missed \cup {s[F + 1]})
        /\ Cardinality(Missed \cup {s[F + 1]}) \in Nat
        /\ Cardinality(Missed \cup {s[F + 1]}) <= Cardinality(Missed) + 1
    <3>1. Cardinality(Missed \cup {s[F + 1]})
            = IF s[F + 1] \in Missed THEN Cardinality(Missed) ELSE Cardinality(Missed) + 1
      BY <1>1, FS_AddElement DEF Counts
    <3>2. IsFiniteSet(Missed \cup {s[F + 1]})
      BY <1>1, FS_AddElement DEF Counts
    <3> QED
      BY <1>1, <3>1, <3>2 DEF Counts
  <2>2. Cardinality(Missed') <= Cardinality(Missed \cup {s[F + 1]}) /\ Cardinality(Missed') \in Nat
    BY <1>11, <2>1, FS_Subset, FS_CardinalityType
  <2> QED
    BY <1>1, <2>1, <2>2 DEF PagesFit, Counts
<1>13. Cardinality(stayed \ {r}) = Cardinality(stayed) - 1 /\ Cardinality(stayed \ {r}) \in Nat
  <2>1. IsFiniteSet(stayed \ {r}) /\ Cardinality(stayed \ {r}) = Cardinality(stayed) - 1
    BY <1>1, FS_RemoveElement DEF Counts
  <2> QED
    BY <2>1, FS_CardinalityType
<1>14. Cardinality(stayed') + shifts' <= MaxRunners /\ shifts' \in 0..MaxRunners
  BY <1>1, <1>3, <1>4, <1>13, MaxPagesIs DEF PagesFit, Counts
<1>15. PagesFit'
  BY <1>2, <1>3, <1>8, <1>10, <1>12, <1>14 DEF PagesFit
<1>16. SweepTypes'
  BY <1>1, <1>3, <1>14 DEF SweepTypes
<1> QED
  BY <1>15, <1>16

\* A newcomer: all that move up are newcomers, too.
LEMMA NewcomerLeaves ==
  ASSUME TypeOK, SweepTypes, PagesFit, NEW r \in Runners, r \notin stayed, Drop(r), vm' = vm,
         UNCHANGED sweep
  PROVE  PagesFit'
<1>1. repo \in Repos /\ UNCHANGED <<place, alive, todo, repo, page, got, stayed, shifts, doomed>>
  BY DEF sweep, listing, PagesFit
<1>2. CASE reg'[repo] = reg[repo]
  BY <1>2, SameListing
<1>3. CASE reg'[repo] # reg[repo]
  <2> DEFINE s == reg[repo]
  <2>1. PICK i \in DOMAIN s : s[i] = r /\ Without(s, reg'[repo], i)
    BY <1>1, <1>3, DropIs
  <2>2. DOMAIN s = 1..Len(s) /\ Len(s) \in Nat
    BY <1>1, ListingIs
  <2>3. \A j \in DOMAIN reg'[repo] :
          /\ j \in Nat /\ j \in DOMAIN s /\ j + 1 \in DOMAIN s
          /\ reg'[repo][j] = IF j < i THEN s[j] ELSE s[j + 1]
    BY <2>1, <2>2 DEF Without
  <2>4. \A j \in DOMAIN reg'[repo] : reg'[repo][j] \in stayed => j < i
    <3> SUFFICES ASSUME NEW j \in DOMAIN reg'[repo], reg'[repo][j] \in stayed, ~(j < i)
                 PROVE  FALSE
      OBVIOUS
    <3>1. i \in Nat /\ i < j + 1 /\ j + 1 \in DOMAIN s /\ s[j + 1] \in stayed
      BY <2>2, <2>3
    <3> QED
      BY <2>1, <3>1 DEF PagesFit, NewcomersLast
  <2>5. Registered(repo)' = Registered(repo) \ {r}
    BY <1>1, DropFits
  <2>6. NewcomersLast'
    <3> SUFFICES ASSUME NEW a \in DOMAIN reg'[repo], NEW b \in DOMAIN reg'[repo],
                        a < b, reg'[repo][b] \in stayed
                 PROVE  reg'[repo][a] \in stayed
      BY <1>1 DEF NewcomersLast
    <3>1. b < i /\ a < i
      BY <2>2, <2>3, <2>4
    <3> QED
      BY <2>3, <3>1 DEF PagesFit, NewcomersLast
  <2>7. Missed' \subseteq Missed
    BY <1>1, <2>3, <2>4 DEF Missed, Fetched
  <2>8. Cardinality(Missed)' <= shifts
    BY <2>7, NoMoreMissed, SetsCount DEF PagesFit, Counts
  <2> QED
    BY <1>1, <2>5, <2>6, <2>8 DEF PagesFit
<1> QED
  BY <1>2, <1>3

LEMMA DropKeepsTypes ==
  ASSUME TypeOK, NEW r \in Runners, Drop(r), UNCHANGED <<scope, vm, known>>
  PROVE  WorldTypes'
<1>1. \A q \in Repos : RegFits(q)'
  BY DropFits
<1>2. WorldTypes /\ reg' \in [Repos -> Seq(Runners)]
  BY DropIs, TypesSplit DEF Types
<1> QED
  BY <1>1, <1>2 DEF WorldTypes

LEMMA LeavesKeeps ==
  ASSUME SweepInv, NEW r \in Runners, Leaves(r)
  PROVE  SweepInv'
<1>1. TypeOK /\ WorldTypes /\ SweepTypes /\ faults \in 0..MaxFaults
  BY TypesSplit DEF SweepInv, Types
<1>2. Drop(r) /\ UNCHANGED <<scope, vm, known, place, alive, todo, repo, page, got, doomed, faults>>
  BY DEF Leaves
<1>3. WorldTypes'
  BY <1>1, <1>2, DropKeepsTypes
<1>4. CASE place = "pages" /\ r \in stayed
  <2>1. PagesFit' /\ SweepTypes'
    BY <1>4, OneOfThemLeaves
  <2>2. HandsEmpty' /\ MissesAreShifts'
    BY <1>2, <1>4 DEF HandsEmpty, MissesAreShifts
  <2> QED
    BY <1>1, <1>2, <1>3, <2>1, <2>2, ListingSplit, TypesSplit DEF SweepInv, Types
<1>5. CASE ~(place = "pages" /\ r \in stayed)
  <2>1. UNCHANGED sweep
    BY <1>2, <1>5 DEF Leaves, sweep, listing
  <2>2. place' = "pages" => PagesFit'
    BY <1>1, <1>2, <1>5, <2>1, NewcomerLeaves, ListingSplit DEF SweepInv
  <2>3. SweepTypes'
    BY <1>1, <2>1, SweepTypesKept
  <2> QED
    BY <1>1, <1>2, <1>3, <2>1, <2>2, <2>3, QuietKeeps, ListingSplit, TypesSplit DEF SweepInv, Types
<1> QED
  BY <1>4, <1>5

-----------------------------------------------------------------------------
(* Steps of the sweep.                                                     *)

\* The sweep's half of the invariant.
HandsInv == SweepTypes /\ HandsEmpty /\ ListingFits /\ MissesAreShifts

LEMMA InvSplit ==
  /\ SweepInv <=> WorldTypes /\ HandsInv /\ faults \in 0..MaxFaults
  /\ SweepInv' <=> WorldTypes' /\ HandsInv' /\ faults' \in 0..MaxFaults
BY TypesSplit DEF SweepInv, HandsInv, Types

LEMMA FaultCounts == faults \in 0..MaxFaults /\ (Fault \/ UNCHANGED faults) => faults' \in 0..MaxFaults
BY MaxPagesIs DEF Fault

LEMMA LeaveKeeps ==
  ASSUME HandsInv, NEW where \in {"idle", "scopes"}, Leave(where),
         alive' \subseteq Runners, todo' \subseteq Repos
  PROVE  HandsInv'
<1>1. /\ place' = where /\ repo' = NoRepo /\ page' = 1 /\ got' = {} /\ doomed' = {}
      /\ stayed' = {} /\ shifts' = 0
  BY DEF Leave
<1>2. 1 \in 1..MaxPages /\ 0 \in 0..MaxRunners
  BY MaxPagesIs
<1>3. SweepTypes'
  BY <1>1, <1>2 DEF SweepTypes
<1>4. HandsEmpty' /\ MissesAreShifts'
  BY <1>1 DEF HandsEmpty, MissesAreShifts
<1>5. ListingFits'
  BY <1>1, ListingSplit
<1> QED
  BY <1>3, <1>4, <1>5 DEF HandsInv

\* Between two repositories.
LEMMA BetweenKeeps ==
  ASSUME HandsInv, WorldTypes, BeginSweep \/ ChooseScopes \/ SweepDone
  PROVE  HandsInv'
<1>1. UNCHANGED <<repo, page, got, stayed, shifts, doomed>>
  BY DEF BeginSweep, ChooseScopes, SweepDone, listing
<1>2. /\ place \in {"idle", "listed", "scopes"} /\ place' \in {"idle", "listed", "scopes"}
      /\ alive' \subseteq Runners /\ todo' \subseteq Repos
  BY DEF BeginSweep, ChooseScopes, SweepDone, HandsInv, SweepTypes, WorldTypes, Watched
<1>3. SweepTypes'
  BY <1>1, <1>2 DEF SweepTypes, HandsInv
<1>4. HandsEmpty' /\ MissesAreShifts'
  BY <1>1, <1>2 DEF HandsEmpty, MissesAreShifts, HandsInv
<1>5. ListingFits'
  BY <1>2, ListingSplit
<1> QED
  BY <1>3, <1>4, <1>5 DEF HandsInv

LEMMA NextScopeKeeps ==
  ASSUME HandsInv, TypeOK, NextScope
  PROVE  HandsInv'
<1>1. PICK q \in todo : todo' = todo \ {q} /\ repo' = q /\ stayed' = Registered(q)
  BY DEF NextScope
<1>2. UNCHANGED <<reg, alive, page, got, shifts, doomed>> /\ place' = "pages" /\ place = "scopes"
  BY DEF NextScope, world
<1>3. page = 1 /\ got = {} /\ doomed = {} /\ shifts = 0 /\ q \in Repos
  BY <1>1, <1>2 DEF HandsInv, HandsEmpty, SweepTypes
<1>4. Registered(q) \subseteq {r \in Runners : RepoOf(r) = q}
      /\ DOMAIN reg[q] = 1..Len(reg[q]) /\ Len(reg[q]) \in Nat
      /\ Registered(q) = {reg[q][i] : i \in DOMAIN reg[q]}
  BY <1>3, ListingIs
<1>5. SweepTypes'
  BY <1>1, <1>2, <1>3, <1>4 DEF SweepTypes, HandsInv
<1>6. NewcomersLast' /\ stayed' \subseteq Registered(repo)'
  BY <1>1, <1>2, <1>4 DEF NewcomersLast, Registered
<1>7. Missed' = {}
  <2>1. \A i \in DOMAIN reg[q] : ~(i <= (1 - 1) * PageSize)
    BY <1>4, BoundsAssumption
  <2> QED
    BY <1>1, <1>2, <1>3, <2>1 DEF Missed, Fetched
<1>8. Cardinality(Missed') <= shifts'
  <2>1. Cardinality(Missed') = 0
    BY <1>7, FS_EmptySet
  <2> QED
    BY <1>2, <1>3, <2>1
<1>9. Cardinality(stayed') + shifts' <= MaxRunners
  <2>1. Cardinality(Registered(q)) \in Nat /\ Cardinality(Registered(q)) <= MaxRunners
    BY <1>4, RunnersOf
  <2>2. stayed' = Registered(q) /\ shifts' = 0
    BY <1>1, <1>2, <1>3
  <2> QED
    BY <2>1, <2>2, MaxPagesIs
<1>10. PagesFit'
  BY <1>1, <1>3, <1>6, <1>8, <1>9 DEF PagesFit
<1>11. HandsEmpty' /\ MissesAreShifts'
  BY <1>2 DEF HandsEmpty, MissesAreShifts
<1> QED
  BY <1>5, <1>10, <1>11, ListingSplit DEF HandsInv

\* Whoever was there all along and is on no page yet is on a later one: past a
\* short page there is none.
LEMMA FetchPageKeeps ==
  ASSUME HandsInv, TypeOK, FetchPage
  PROVE  HandsInv'
<1>1. /\ place = "pages" /\ SweepTypes /\ PagesFit /\ Counts
      /\ UNCHANGED <<reg, vm, alive, todo>>
  BY ListingSplit, SetsCount DEF HandsInv, FetchPage, world
<1>2. /\ repo \in Repos /\ page \in 1..MaxPages /\ page \in Nat \ {0}
      /\ alive \subseteq Runners /\ todo \subseteq Repos
  BY <1>1, MaxPagesIs DEF SweepTypes, PagesFit
<1> DEFINE s == reg[repo]
           F == (page - 1) * PageSize
<1>3. /\ F \in Nat /\ page * PageSize = F + PageSize
      /\ PageSize \in Nat \ {0}
  BY <1>2, Positions
<1>4. /\ DOMAIN s = 1..Len(s) /\ Len(s) \in Nat /\ s \in Seq(Runners) /\ IsInjective(s)
      /\ Registered(repo) = {s[i] : i \in DOMAIN s}
      /\ Registered(repo) \subseteq {r \in Runners : RepoOf(r) = repo}
  BY <1>2, ListingIs DEF RegFits
<1>5. Page = {s[i] : i \in {i \in DOMAIN s : i > F /\ i <= F + PageSize}}
  BY <1>3 DEF Page
<1>6. Page \subseteq {r \in Runners : RepoOf(r) = repo}
  BY <1>4, <1>5
<1>7. Fetched = {s[i] : i \in {i \in DOMAIN s : i <= F}}
  BY DEF Fetched
<1> HIDE DEF F
<1>8. ASSUME NEW i \in DOMAIN s, i <= F + PageSize, s[i] \in stayed \ (got \cup Page)
      PROVE  s[i] \in Missed
  <2>1. i <= F
    BY <1>3, <1>4, <1>5, <1>8
  <2> QED
    BY <1>7, <1>8, <2>1 DEF Missed
<1>9. ASSUME NEW where \in {"pages", "remove"}, NEW next \in 1..MaxPages, Listed(where, next)
      PROVE  SweepTypes' /\ HandsEmpty'
  <2>1. {r \in Page : Stale(r)} \subseteq Page
    OBVIOUS
  <2>2. got' \cup doomed' \subseteq {r \in Runners : RepoOf(r) = repo}
    BY <1>1, <1>6, <1>9, <2>1 DEF Listed, SweepTypes
  <2> QED
    BY <1>1, <1>9, <2>2 DEF SweepTypes, Listed, HandsEmpty
<1>10. CASE Cardinality(Page) < PageSize /\ Listed("remove", page)
  <2>1. Len(s) < F + PageSize
    <3> SUFFICES ASSUME F + PageSize <= Len(s) PROVE Cardinality(Page) = PageSize
      BY <1>3, <1>4, <1>10
    <3> QED
      BY <1>3, <1>4, <1>5, FullPage
  <2>2. stayed \ (got \cup Page) \subseteq Missed
    <3> SUFFICES ASSUME NEW r \in stayed \ (got \cup Page) PROVE r \in Missed
      OBVIOUS
    <3>1. PICK i \in DOMAIN s : s[i] = r
      BY <1>1, <1>4 DEF PagesFit
    <3>2. i <= F + PageSize
      BY <1>3, <1>4, <2>1
    <3> QED
      BY <1>8, <3>1, <3>2
  <2>3. /\ Cardinality(stayed \ (got \cup Page)) <= Cardinality(Missed)
        /\ Cardinality(stayed \ (got \cup Page)) \in Nat
    BY <1>1, <2>2, FS_Subset, FS_CardinalityType DEF Counts
  <2>4. Cardinality(stayed \ (got \cup Page)) <= shifts
    BY <1>1, <2>3 DEF PagesFit, Counts
  <2>5. place' = "remove" /\ got' = got \cup Page /\ stayed' = stayed /\ shifts' = shifts
    BY <1>10 DEF Listed
  <2>6. MissesAreShifts' /\ ListingFits'
    BY <2>4, <2>5, ListingSplit DEF MissesAreShifts
  <2> QED
    BY <1>2, <1>9, <1>10, <2>6 DEF HandsInv
<1>11. CASE page < MaxPages /\ Listed("pages", page + 1)
  <2>1. place' = "pages" /\ page' = page + 1 /\ got' = got \cup Page
        /\ repo' = repo /\ stayed' = stayed /\ shifts' = shifts
    BY <1>11 DEF Listed
  <2>2. Fetched' = {s[i] : i \in {i \in DOMAIN s : i <= F + PageSize}}
    <3>1. (page' - 1) * PageSize = F + PageSize
      <4>1. page' - 1 = page
        BY <1>2, <2>1
      <4> QED
        BY <1>3, <4>1, Zenon
    <3>2. Fetched' = {s[i] : i \in {i \in DOMAIN s : i <= (page' - 1) * PageSize}}
      BY <1>1, <2>1, Zenon DEF Fetched
    <3> QED
      BY <3>1, <3>2, Zenon
  <2>3. Missed' \subseteq Missed
    BY <1>8, <2>1, <2>2 DEF Missed
  <2>4. Cardinality(Missed)' <= shifts
    BY <1>1, <2>3, NoMoreMissed DEF PagesFit, Counts
  <2>5. PagesFit'
    BY <1>1, <2>1, <2>4 DEF PagesFit, NewcomersLast, Registered
  <2>6. page + 1 \in 1..MaxPages
    BY <1>2, <1>11, MaxPagesIs
  <2>7. MissesAreShifts' /\ ListingFits'
    BY <2>1, <2>5, ListingSplit DEF MissesAreShifts
  <2> QED
    BY <1>9, <1>11, <2>6, <2>7 DEF HandsInv
<1>12. CASE Leave("scopes")
  BY <1>1, <1>2, <1>12, LeaveKeeps
<1> QED
  BY <1>10, <1>11, <1>12 DEF FetchPage

LEMMA RemoveKeeps ==
  ASSUME SweepInv, NEW r \in Runners, RemoveRunner(r)
  PROVE  SweepInv'
<1>1. TypeOK /\ WorldTypes /\ HandsInv /\ faults \in 0..MaxFaults
  BY InvSplit DEF SweepInv
<1>2. /\ UNCHANGED <<scope, vm, known, place, alive, todo, repo, page, got, stayed, shifts>>
      /\ place = "remove" /\ doomed' = doomed \ {r}
  BY DEF RemoveRunner, listing
<1>3. WorldTypes'
  BY <1>1, <1>2, DropKeepsTypes, WorldTypesKept DEF RemoveRunner, world
<1>4. faults' \in 0..MaxFaults
  BY <1>1, FaultCounts DEF RemoveRunner
<1>5. SweepTypes'
  BY <1>1, <1>2 DEF SweepTypes, HandsInv
<1>6. HandsEmpty' /\ MissesAreShifts'
  BY <1>1, <1>2 DEF HandsEmpty, MissesAreShifts, HandsInv
<1>7. ListingFits'
  BY <1>2, ListingSplit
<1> QED
  BY <1>3, <1>4, <1>5, <1>6, <1>7, InvSplit DEF HandsInv

LEMMA SweepKeeps ==
  ASSUME SweepInv, Sweep
  PROVE  SweepInv'
<1>1. TypeOK /\ WorldTypes /\ HandsInv /\ SweepTypes /\ faults \in 0..MaxFaults
  BY InvSplit DEF SweepInv, HandsInv
<1>2. CASE BeginSweep \/ ChooseScopes \/ SweepDone
  <2>1. UNCHANGED world /\ UNCHANGED faults
    BY <1>2 DEF BeginSweep, ChooseScopes, SweepDone
  <2> QED
    BY <1>1, <1>2, <2>1, BetweenKeeps, WorldTypesKept, InvSplit
<1>3. CASE NextScope \/ FetchPage
  <2>1. UNCHANGED world /\ UNCHANGED faults
    BY <1>3 DEF NextScope, FetchPage
  <2> QED
    BY <1>1, <1>3, <2>1, NextScopeKeeps, FetchPageKeeps, WorldTypesKept, InvSplit
<1>4. CASE ListingFails \/ ScopeDone
  <2>1. UNCHANGED world /\ UNCHANGED <<alive, todo>> /\ faults' \in 0..MaxFaults /\ Leave("scopes")
    BY <1>1, <1>4, FaultCounts DEF ListingFails, ScopeDone
  <2>2. HandsInv'
    BY <1>1, <2>1, LeaveKeeps DEF SweepTypes
  <2> QED
    BY <1>1, <2>1, <2>2, WorldTypesKept, InvSplit
<1>5. ASSUME NEW r \in Runners, RemoveRunner(r)
      PROVE  SweepInv'
  BY <1>5, RemoveKeeps
<1> QED
  BY <1>2, <1>3, <1>4, <1>5 DEF Sweep

LEMMA CrashKeeps ==
  ASSUME SweepInv, Crash
  PROVE  SweepInv'
<1>1. WorldTypes /\ HandsInv /\ faults \in 0..MaxFaults
  BY InvSplit
<1>2. WorldTypes'
  <2>1. UNCHANGED <<scope, vm, reg>> /\ known' \subseteq Repos
    BY <1>1 DEF Crash, WorldTypes
  <2>2. \A q \in Repos : RegFits(q)'
    BY <1>1, <2>1 DEF WorldTypes, RegFits, Registered
  <2> QED
    BY <1>1, <2>1, <2>2 DEF WorldTypes
<1>3. HandsInv'
  BY <1>1, LeaveKeeps DEF Crash
<1> QED
  BY <1>1, <1>2, <1>3, FaultCounts, InvSplit DEF Crash

-----------------------------------------------------------------------------

LEMMA SweepInvInitially == Init => SweepInv
<1> SUFFICES ASSUME Init PROVE SweepInv
  OBVIOUS
<1>1. \A q \in Repos : reg[q] = <<>>
  BY DEF Init
<1>2. \A q \in Repos : RegFits(q)
  BY <1>1 DEF RegFits, Registered, ToSet, IsInjective
<1>3. WorldTypes
  BY <1>2 DEF Init, WorldTypes
<1>4. SweepTypes /\ faults \in 0..MaxFaults
  BY MaxPagesIs DEF Init, SweepTypes
<1>5. HandsEmpty /\ MissesAreShifts /\ ListingFits
  BY ListingSplit DEF Init, HandsEmpty, MissesAreShifts
<1> QED
  BY <1>3, <1>4, <1>5, InvSplit DEF HandsInv

LEMMA SweepInvInductive == SweepInv /\ [Next]_vars => SweepInv'
<1> SUFFICES ASSUME SweepInv, [Next]_vars PROVE SweepInv'
  OBVIOUS
<1> QED
  BY FailsKeeps, StartsKeeps, LeavesKeeps, SweepKeeps, CrashKeeps DEF Next

LEMMA SweepInvariance == Spec => []SweepInv
BY SweepInvInitially, SweepInvInductive, PTL DEF Spec

(***************************************************************************)
(* The sweep holds runners of one repository only, and lists no runner     *)
(* twice (cleanRunners, reconciler.go, and ListRunners, client.go).        *)
(***************************************************************************)
THEOREM RunnerTypes == Spec => []TypeOK
<1>1. SweepInv => TypeOK
  BY DEF SweepInv
<1> QED
  BY <1>1, SweepInvariance, PTL

(***************************************************************************)
(* A listing that is handed on lacks at most one registered runner for     *)
(* each one that left while it was fetched, whatever the page size and the *)
(* page cap, and however many runners register meanwhile (ListRunners,     *)
(* client.go).                                                             *)
(***************************************************************************)
THEOREM MissesAreBounded == Spec => []MissesAreShifts
<1>1. SweepInv => MissesAreShifts
  BY DEF SweepInv
<1> QED
  BY <1>1, SweepInvariance, PTL
===============================================================================
