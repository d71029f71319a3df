---------------------------- MODULE CreateLimit ----------------------------
(* The create-side rate limiter of the VM service's client                 *)
(* (src/internal/minicontrol/client.go, waitCreateToken and CreateVM) under *)
(* the loop of the scaler that calls it (src/internal/scaler/job.go,        *)
(* createVM): callers share one bucket that is refilled lazily, sleep for a *)
(* time computed before others took tokens, send a request that the         *)
(* service's own limiter may still answer with a 429, and back off until    *)
(* their deadline.                                                          *)
(* Time is discrete.  A token is Cost units and a tick refills one unit, so *)
(* every duration counts down and no clock grows.                           *)
EXTENDS Naturals, FiniteSets

CONSTANTS
    Callers,     \* calls of createVM, one per job that needs a VM
    Burst,       \* createBurst, in tokens
    Cost,        \* ticks that refill one token: 1 / createPerSec
    RetryAfter,  \* the delay a 429 asks for, in ticks
    Second,      \* the second createVM adds to it
    Initial,     \* limits.capacity_backoff.initial
    Longest,     \* limits.capacity_backoff.max
    Budget,      \* runner.max_job_duration
    MaxLate,     \* bound: ticks that requests may spend on the wire, in all
    MaxRestarts  \* bound: restarts of the process

Capacity == Burst * Cost

ASSUME LimitAssumption ==
    /\ IsFiniteSet(Callers)
    /\ Burst \in Nat \ {0} /\ Cost \in Nat \ {0}
    /\ RetryAfter \in Nat /\ Second \in Nat \ {0}
    /\ Initial \in Nat \ {0} /\ Longest \in Nat \ {0} /\ Initial <= Longest
    /\ Budget \in Nat /\ MaxLate \in Nat /\ MaxRestarts \in Nat

VARIABLES
    tokens,    \* c.tokens, in units
    since,     \* ticks since c.last
    debt,      \* history: units of the creates sent that time has not paid off
    call,      \* each call of createVM: where it is, and its locals
    server,    \* the level of the service's own bucket
    strays,    \* requests on the wire that no call waits for any more
    rejected,  \* 429s answered so far
    late,      \* ticks that passed while a request was on the wire
    restarts

bucket == <<tokens, since, debt>>
wire == <<server, strays, rejected, late>>
vars == <<bucket, call, wire, restarts>>

Places == {"new", "asking", "asleep", "sent", "backoff", "ended"}
Least(a, b) == IF a < b THEN a ELSE b

\* timer: what is left of its time.After; pause: its next capacity backoff;
\* left: the ticks to its deadline.
Call(place) == [at |-> place, timer |-> 0, pause |-> Initial, left |-> Budget]

\* What waitCreateToken computes under the lock before it decides.
Level == Least(Capacity, tokens + since)

Sent == {k \in Callers : call[k].at = "sent"}
OnWire == Cardinality(Sent) + strays

Limiter == INSTANCE TokenBucket WITH level <- server

Init ==
    /\ tokens = Capacity /\ since = 0 /\ debt = 0
    /\ call = [k \in Callers |-> Call("new")]
    /\ server = Capacity /\ strays = 0 /\ rejected = 0 /\ late = 0
    /\ restarts = 0

Goto(k, place) == call' = [call EXCEPT ![k].at = place]
Wait(k, place, time) == call' = [call EXCEPT ![k].at = place, ![k].timer = time]
End(k) == call' = [call EXCEPT ![k] = Call("ended")]

\* A job reaches createVM.
Start(k) ==
    /\ call[k].at = "new"
    /\ Goto(k, "asking")
    /\ UNCHANGED <<bucket, wire, restarts>>

-----------------------------------------------------------------------------
(* The bucket.  Refilling it and deciding are one critical section.         *)

Refilled(level) == tokens' = level /\ since' = 0

\* (a mutant: a token is taken whenever the bucket is not empty)
TakesPartOfToken(k) ==
    /\ call[k].at = "asking"
    /\ Level > 0
    /\ Refilled(IF Level < Cost THEN 0 ELSE Level - Cost)
    /\ debt' = debt + Cost
    /\ Goto(k, "sent")
    /\ UNCHANGED <<wire, restarts>>

TakeToken(k) ==
    /\ call[k].at = "asking"
    /\ Level >= Cost
    /\ Refilled(Level - Cost)
    /\ debt' = debt + Cost
    /\ Goto(k, "sent")
    /\ UNCHANGED <<wire, restarts>>

\* (a mutant: a whole token's time, whatever the bucket holds)
WaitForWhole(level) == Cost

WaitFor(level) == Cost - level

\* (a mutant: c.last only moves when a token is taken)
FallsAsleepUncounted(k) ==
    /\ call[k].at = "asking"
    /\ Level < Cost
    /\ tokens' = Level /\ UNCHANGED since
    /\ Wait(k, "asleep", WaitFor(Level))
    /\ UNCHANGED <<debt, wire, restarts>>

FallAsleep(k) ==
    /\ call[k].at = "asking"
    /\ Level < Cost
    /\ Refilled(Level)
    /\ Wait(k, "asleep", WaitFor(Level))
    /\ UNCHANGED <<debt, wire, restarts>>

\* The timer fires: the call competes for the lock again.
WakeUp(k) ==
    /\ call[k].at = "asleep" /\ call[k].timer = 0
    /\ Goto(k, "asking")
    /\ UNCHANGED <<bucket, wire, restarts>>

-----------------------------------------------------------------------------
(* The answers, and what createVM does with them.                           *)

\* The service lets the request through: a VM, or an error createVM returns.
Answered(k) ==
    /\ call[k].at = "sent"
    /\ Limiter!Take
    /\ End(k)
    /\ UNCHANGED <<bucket, strays, rejected, late, restarts>>

\* (a mutant: the backoff doubles past limits.capacity_backoff.max)
DoubledForever(pause) == 2 * pause

Doubled(pause) == Least(2 * pause, Longest)

\* (a mutant: capacity is waited for without a deadline)
NoCapacityKeepsTrying(k) ==
    /\ call[k].at = "sent"
    /\ Limiter!Take
    /\ call' = [call EXCEPT ![k].at = "backoff", ![k].timer = call[k].pause,
                            ![k].pause = Doubled(@)]
    /\ UNCHANGED <<bucket, strays, rejected, late, restarts>>

\* It lets it through and has no capacity, a 409: the call waits, twice as
\* long each time, unless that would pass its deadline.
NoCapacity(k) ==
    /\ call[k].at = "sent"
    /\ Limiter!Take
    /\ IF call[k].pause > call[k].left THEN End(k)
       ELSE call' = [call EXCEPT ![k].at = "backoff", ![k].timer = call[k].pause,
                                 ![k].pause = Doubled(@)]
    /\ UNCHANGED <<bucket, strays, rejected, late, restarts>>

\* The service's limiter refuses it: a 429 with its Retry-After.
Refused(k) ==
    /\ call[k].at = "sent"
    /\ server < Cost
    /\ IF RetryAfter + Second > call[k].left THEN End(k)
       ELSE Wait(k, "backoff", RetryAfter + Second)
    /\ rejected' = rejected + 1
    /\ UNCHANGED <<bucket, server, strays, late, restarts>>

\* The HTTP client gives up: createVM returns; the request may yet arrive.
TimesOut(k) ==
    /\ call[k].at = "sent"
    /\ End(k)
    /\ strays' = strays + 1
    /\ UNCHANGED <<bucket, server, rejected, late, restarts>>

\* A request nobody waits for arrives, or is lost.
StrayArrives ==
    /\ strays > 0
    /\ strays' = strays - 1
    /\ \/ Limiter!Take /\ UNCHANGED rejected
       \/ server < Cost /\ rejected' = rejected + 1 /\ UNCHANGED server
       \/ UNCHANGED <<server, rejected>>
    /\ UNCHANGED <<bucket, call, late, restarts>>

\* The wait is over: try again, unless GitHub says the job is done.
TryAgain(k) ==
    /\ call[k].at = "backoff" /\ call[k].timer = 0
    /\ Goto(k, "asking") \/ End(k)
    /\ UNCHANGED <<bucket, wire, restarts>>

-----------------------------------------------------------------------------
(* Time, and the process.                                                   *)

Down(n) == IF n > 0 THEN n - 1 ELSE 0
InProgress(c) == c.at \notin {"new", "ended"}

Tick ==
    /\ OnWire > 0 => late < MaxLate
    /\ late' = IF OnWire > 0 THEN late + 1 ELSE late
    /\ since' = Least(since + 1, Capacity) /\ debt' = Down(debt)
    /\ call' = [k \in Callers |->
                   IF InProgress(call[k])
                   THEN [call[k] EXCEPT !.timer = Down(@), !.left = Down(@)]
                   ELSE call[k]]
    /\ Limiter!Tick
    /\ UNCHANGED <<tokens, strays, rejected, restarts>>

\* The process stops, with its requests on the wire, and a new one resumes
\* the jobs that have no VM: New gives it a full bucket.
Restart ==
    /\ restarts < MaxRestarts
    /\ restarts' = restarts + 1
    /\ tokens' = Capacity /\ since' = 0
    /\ strays' = OnWire
    /\ call' = [k \in Callers |->
                   IF InProgress(call[k]) THEN Call("new") ELSE call[k]]
    /\ UNCHANGED <<debt, server, rejected, late>>

Step(k) ==
    \/ TakeToken(k) \/ FallAsleep(k) \/ WakeUp(k)
    \/ Answered(k) \/ NoCapacity(k) \/ Refused(k) \/ TimesOut(k)
    \/ TryAgain(k)

Next ==
    \/ \E k \in Callers : Start(k) \/ Step(k)
    \/ StrayArrives
    \/ Tick
    \/ Restart

\* Time passes, timers fire and the lock is granted (the Go runtime); every
\* request is answered or times out (the client's http.Client.Timeout).
Fairness ==
    /\ WF_vars(Tick)
    /\ WF_vars(StrayArrives)
    /\ \A k \in Callers : WF_vars(Step(k))

Spec == Init /\ [][Next]_vars
FairSpec == Spec /\ Fairness

-----------------------------------------------------------------------------
(* What is promised.                                                        *)

\* Every variable stays in its range.
TypeOK ==
    /\ tokens \in 0 .. Capacity /\ since \in 0 .. Capacity /\ debt \in Nat
    /\ call \in [Callers -> [at : Places, timer : Nat,
                            pause : Initial .. Longest, left : 0 .. Budget]]
    /\ server \in 0 .. Capacity
    /\ strays \in Nat /\ rejected \in Nat
    /\ late \in 0 .. MaxLate /\ restarts \in 0 .. MaxRestarts

\* "(burst 5, refill 2/s)" (client.go, line 26), of a bucket that is only brought
\* up to date when a call asks: in no stretch of time, of whatever length, are
\* more creates sent than burst plus rate times time, and one more burst for
\* each new process, in whatever order calls take tokens, sleep and try again:
\* a refill is never counted twice.  (`debt` is the most, over all stretches
\* that end now, by which the creates sent exceed the refill.)  Nor is one
\* forgotten: what was not sent can still be.
KeepsTheRate ==
    /\ debt <= (1 + restarts) * Capacity
    /\ Capacity <= Level + debt

\* "so we rarely see a real 429" (client.go, line 26), made exact: with no
\* restart and nothing delayed on the wire there is none, however the calls
\* interleave; each one needs a tick of delay of its own, or a unit of the
\* full bucket with which New starts a new process.
RefusalsAreExplained == rejected <= late + restarts * Capacity

\* No lost wake-up: the time a call sleeps was computed before others took
\* tokens, and still it never sleeps on while there is a token to take.
NobodyOversleeps ==
    \A k \in Callers :
        call[k].at = "asleep" /\ call[k].timer > 0
            => Level + call[k].timer <= Cost

\* A create that waits for a token, an answer or capacity comes to an end, or
\* the process stops: tokens are not handed out in order, the 429s and 409s
\* send it back to the bucket, and only its deadline stops it.
EveryCallEnds ==
    \A k \in Callers :
        call[k].at \in {"asking", "asleep", "sent", "backoff"}
            ~> call[k].at \in {"ended", "new"}
=============================================================================
