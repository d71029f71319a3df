--------------------------- MODULE DeadlinesProofs ---------------------------
(***************************************************************************)
(* The deadlines bound what a job costs, for any timeouts, any number of   *)
(* retries and any number of stops.  The argument is a budget: what the    *)
(* job has spent, and the most that the wait it is in can still spend      *)
(* before the next deadline is looked at, never exceed what its attempts   *)
(* and stops allow.                                                        *)
(***************************************************************************)
EXTENDS Deadlines, TLAPS

\* TypeOK, one variable at a time.
Types ==
  /\ rec \in RecStates /\ at \in Places /\ jobDone \in BOOLEAN
  /\ left \in Nat /\ due \in Nat /\ pickup \in Nat /\ beat \in Nat
  /\ spent \in Nat /\ astray \in Nat /\ idle \in Nat /\ unknown \in Nat
  /\ retry \in Nat /\ retry <= MaxRetries
  /\ stops \in Nat /\ stops <= MaxStops

\* The record tells where a worker can be, and a job is asked whether it is
\* worth a VM only while it has retries left.
Following ==
  /\ at = "worth" => retry < MaxRetries
  /\ at \in {"getvm", "nap"} => rec = "wait_ready"
  /\ at = "boot" => rec = "bootstrapping"
  /\ at \in Monitored => rec \in {"runner_up", "job_running"}

\* The longest each call and wait takes.
Bounded ==
  /\ at \in {"status", "exited", "released", "busy", "finished", "getvm"} => left <= CallTime
  /\ at = "poll" => left <= 2 * CallTime
  /\ at = "tick" => left <= Interval
  /\ at = "nap" => left <= ReadyPoll
  /\ at = "queue" => left <= MaxWait
  /\ beat <= Interval

\* What is left of a round of monitor once a deadline is over: the calls that
\* come before it is looked at.
RestOfRound ==
  IF at = "tick" THEN left + 6 * CallTime
  ELSE IF at = "status" THEN left + 5 * CallTime
  ELSE IF at = "poll" THEN left + 3 * CallTime
  ELSE IF at = "released" THEN left + 2 * CallTime
  ELSE IF at = "busy" THEN left + CallTime
  ELSE left

RestOfMonitoring == IF due = 0 THEN RestOfRound ELSE due + Round

RestOfWaiting ==
  IF due > 0 THEN due + ReadyPoll + CallTime
  ELSE IF at = "nap" THEN left + CallTime ELSE left

\* What the worker may still spend on the VM it has, or on the one it is to have.
InHand ==
  IF at \in {"create", "pausing"} THEN Life
  ELSE IF at \in {"getvm", "nap"} THEN RestOfWaiting + BootTime + Monitoring + DeleteTime
  ELSE IF at = "boot" THEN left + Monitoring + DeleteTime
  ELSE IF at \in Monitored THEN RestOfMonitoring + DeleteTime
  ELSE IF at = "delete" THEN left
  ELSE 0

Rest == IF at = "queue" THEN Life + (IF rec = "queued" THEN 0 ELSE left) ELSE InHand

Allowance == (1 + retry) * Life + stops * (Life + MaxWait)

WithinAllowance == spent + Rest <= Allowance

\* Each attempt, and each process that resumes one, deletes its VM once.
WithinDeletions ==
  astray + (IF at \in {"worth", "end"} THEN 0 ELSE 1) <= 1 + retry + stops

\* The same of the time without a busy answer: what is left until the pickup
\* deadline is looked at.
IdleRest ==
  IF at = "queue" THEN left + PickupTime + Round
  ELSE IF at \notin Monitored THEN 0
  ELSE IF pickup = 0 THEN RestOfRound ELSE pickup + Round

IdleAllowance == (1 + stops + unknown) * (PickupTime + Round) + stops * MaxWait

WithinPickup ==
  /\ rec \in {"wait_ready", "bootstrapping"} => idle = 0 /\ unknown = 0
  /\ rec = "runner_up" => idle + IdleRest <= IdleAllowance

ClockInv == Types /\ Following /\ Bounded
CostInv == ClockInv /\ WithinAllowance /\ WithinDeletions
IdleInv == ClockInv /\ WithinPickup

-----------------------------------------------------------------------------
(* Lengths of time.                                                        *)

LEMMA Times ==
  /\ CallTime \in Nat /\ ProvisionTime \in Nat /\ ReadyPoll \in Nat /\ BootTime \in Nat
  /\ PickupTime \in Nat /\ JobTime \in Nat /\ Interval \in Nat /\ DeleteTime \in Nat
  /\ MaxWait \in Nat /\ RetryPause \in Nat /\ MaxRetries \in Nat /\ MaxStops \in Nat /\ Interval > 0
BY TimesAssumption

LEMMA Lengths ==
  /\ Round \in Nat /\ Monitoring \in Nat /\ Life \in Nat /\ Provisioning \in Nat
BY Times DEF Round, Monitoring, Life, Provisioning

LEMMA OneMore ==
  ASSUME NEW n \in Nat, NEW length \in Nat
  PROVE  /\ n * length \in Nat
         /\ (n + 1) * length = n * length + length
OBVIOUS

LEMMA NoMoreThan ==
  ASSUME NEW s \in Nat, NEW r \in Nat, NEW s1 \in Nat, NEW r1 \in Nat, NEW a \in Nat,
         s + r <= a, s1 + r1 <= s + r
  PROVE  s1 + r1 <= a
OBVIOUS

LEMMA FromNothing ==
  ASSUME NEW r \in Nat, NEW length \in Nat, NEW a \in Nat, r <= length, length <= a
  PROVE  0 + r <= a
OBVIOUS

LEMMA WithMore ==
  ASSUME NEW s \in Nat, NEW r \in Nat, NEW r1 \in Nat, NEW a \in Nat, NEW d \in Nat,
         s + r <= a, r1 <= d
  PROVE  s + r1 <= a + d
OBVIOUS

-----------------------------------------------------------------------------
(* Types and bounds.                                                       *)

LEMMA TypesAreTypeOK == Types => TypeOK
<1> SUFFICES ASSUME Types PROVE TypeOK
  OBVIOUS
<1>1. {left, due, pickup, beat, spent, astray, idle, unknown} \subseteq Nat
  BY DEF Types
<1>2. retry \in 0..MaxRetries /\ stops \in 0..MaxStops
  BY Times DEF Types
<1> QED
  BY <1>1, <1>2 DEF Types, TypeOK

LEMMA ClockInit == Init => ClockInv
<1> SUFFICES ASSUME Init PROVE ClockInv
  OBVIOUS
<1>1. jobDone \in BOOLEAN
  BY DEF Init
<1>2. rec \in RecStates /\ at \in Places
  BY DEF Init, RecStates, Places, Waits
<1>3. Types
  BY <1>1, <1>2, Times DEF Init, Types
<1>4. Following /\ Bounded
  BY Times DEF Init, Following, Bounded, Monitored
<1> QED
  BY <1>3, <1>4 DEF ClockInv

LEMMA ClockStep == ClockInv /\ [Next]_vars => ClockInv'
<1> SUFFICES ASSUME ClockInv, [Next]_vars PROVE ClockInv'
  OBVIOUS
<1> USE Times DEF ClockInv, Types, Following, Bounded, RecStates, Places, Calls, Waits,
    Monitored, Enter, history
<1>1. CASE Create
  <2>1. CASE rec' = "wait_ready" /\ WaitReady
    BY <1>1, <2>1 DEF Create, WaitReady
  <2>2. CASE (End("complete") \/ End("failed")) /\ UNCHANGED due
    BY <1>1, <2>2 DEF Create, End
  <2>3. CASE Fails /\ UNCHANGED due
    BY <1>1, <2>3 DEF Create, Fails, End
  <2> QED
    BY <1>1, <2>1, <2>2, <2>3 DEF Create
<1>2. CASE Ready
  BY <1>2 DEF Ready
<1>3. CASE Unusable
  BY <1>3 DEF Unusable, GiveUp
<1>4. CASE NotReady
  BY <1>4 DEF NotReady, GiveUp
<1>5. CASE PollAgain
  BY <1>5 DEF PollAgain
<1>6. CASE Booted
  BY <1>6 DEF Booted, Watch, GiveUp
<1>7. CASE Ticks
  BY <1>7 DEF Ticks
<1>8. CASE ReadMarker
  BY <1>8 DEF ReadMarker, GiveUp, CheckDone, CheckPickup, CheckDeadline, NextTick
<1>9. CASE RunnerExited
  BY <1>9 DEF RunnerExited, Release, GiveUp
<1>10. CASE PollJob
  <2>1. jobDone' \in BOOLEAN /\ rec' \in {rec, "job_running"}
    BY <1>10 DEF PollJob
  <2>2. \/ Enter("released", CallTime) \/ Enter("busy", CallTime)
        \/ Enter("delete", DeleteTime) \/ Enter("tick", beat)
    BY <1>10 DEF PollJob, CheckDone, CheckPickup, CheckDeadline, NextTick, GiveUp
  <2> QED
    BY <1>10, <2>1, <2>2 DEF PollJob
<1>11. CASE JobIsOver
  BY <1>11 DEF JobIsOver, Release, GiveUp, CheckPickup, CheckDeadline, NextTick
<1>12. CASE Busy \/ NobodyKnows
  BY <1>12 DEF Busy, NobodyKnows, Extend, CheckDeadline, GiveUp, NextTick
<1>13. CASE NotBusy
  BY <1>13 DEF NotBusy
<1>14. CASE NoPickup
  BY <1>14 DEF NoPickup, Release, GiveUp
<1>15. CASE Deleted
  <2>1. jobDone' \in BOOLEAN
    BY <1>15 DEF Deleted
  <2>2. CASE End("complete") \/ End("failed")
    BY <1>15, <2>1, <2>2 DEF Deleted, End
  <2>3. CASE retry < MaxRetries /\ Enter("worth", CallTime) /\ UNCHANGED rec
    BY <1>15, <2>1, <2>3 DEF Deleted
  <2> QED
    BY <1>15, <2>2, <2>3 DEF Deleted, Fails
<1>16. CASE Retry
  <2>1. CASE End("complete") /\ UNCHANGED retry
    BY <1>16, <2>1 DEF Retry, End
  <2>2. CASE rec' = "queued" /\ retry' = retry + 1 /\ Enter("pausing", retry' * RetryPause)
    <3>1. retry' * RetryPause \in Nat
      BY <2>2, OneMore
    <3> QED
      BY <1>16, <2>2, <3>1 DEF Retry
  <2> QED
    BY <1>16, <2>1, <2>2 DEF Retry
<1>17. CASE Again
  BY <1>17 DEF Again
<1>18. CASE Tick
  BY <1>18 DEF Tick, Down
<1>19. CASE Stop
  <2>1. jobDone' \in BOOLEAN
    BY <1>19 DEF Stop
  <2> QED
    BY <1>19, <2>1 DEF Stop
<1>20. CASE UNCHANGED vars
  BY <1>20 DEF vars, clocks
<1>21. CASE Acquire
  <2>1. CASE rec \in {"queued", "wait_ready", "bootstrapping"}
    BY <1>21, <2>1 DEF Acquire, WaitReady, Launched
  <2>2. CASE rec \in {"runner_up", "job_running", "job_done"}
    BY <1>21, <2>2 DEF Acquire, Watch, GiveUp, Launched
  <2>3. rec \notin {"complete", "failed"}
    BY <1>21 DEF Acquire, Launched
  <2> QED
    BY <2>1, <2>2, <2>3
<1> QED
  BY <1>1, <1>2, <1>3, <1>4, <1>5, <1>6, <1>7, <1>8, <1>9, <1>10, <1>11, <1>12, <1>13, <1>14, <1>15, <1>16, <1>17, <1>18, <1>19, <1>20, <1>21
     DEF Next, Work
-----------------------------------------------------------------------------
(* What a job costs.                                                       *)

LEMMA RestIsNat == ClockInv => Rest \in Nat
BY Times, Lengths DEF ClockInv, Types, Rest, InHand, RestOfWaiting, RestOfMonitoring, RestOfRound

\* No step of the worker gives it more to spend on its VM than it had.
LEMMA StepsSpendNothing ==
  ASSUME ClockInv, Work, ~Retry, ~Acquire
  PROVE  InHand' \in Nat /\ InHand' <= InHand /\ UNCHANGED <<spent, retry, stops>>
<1> USE Times DEF ClockInv, Types, Following, Bounded, Monitored, Enter, InHand, RestOfWaiting,
    RestOfMonitoring, RestOfRound, Round, Monitoring, Provisioning, Life, history
<1>1. CASE Create
  BY <1>1 DEF Create, WaitReady, Fails, End
<1>2. CASE Ready
  BY <1>2 DEF Ready
<1>3. CASE Unusable
  BY <1>3 DEF Unusable, GiveUp
<1>4. CASE NotReady
  BY <1>4 DEF NotReady, GiveUp
<1>5. CASE PollAgain
  BY <1>5 DEF PollAgain
<1>6. CASE Booted
  BY <1>6 DEF Booted, Watch, GiveUp
<1>7. CASE Ticks
  BY <1>7 DEF Ticks
<1>8. CASE ReadMarker
  <2>1. /\ at = "status" /\ UNCHANGED <<rec, retry, due, pickup, beat, jobDone, history>>
        /\ \/ at' = "delete" /\ left' = DeleteTime
           \/ at' \in {"exited", "released", "busy"} /\ left' = CallTime
           \/ at' = "poll" /\ left' = 2 * CallTime
           \/ at' = "tick" /\ left' = beat /\ due # 0 /\ (rec = "runner_up" => pickup # 0)
    BY <1>8 DEF ReadMarker, GiveUp, CheckDone, CheckPickup, CheckDeadline, NextTick
  <2> QED
    BY <2>1
<1>9. CASE RunnerExited
  BY <1>9 DEF RunnerExited, Release, GiveUp
<1>10. CASE PollJob
  BY <1>10 DEF PollJob, CheckDone, CheckPickup, CheckDeadline, NextTick, GiveUp
<1>11. CASE JobIsOver
  BY <1>11 DEF JobIsOver, Release, GiveUp, CheckPickup, CheckDeadline, NextTick
<1>12. CASE Busy \/ NobodyKnows
  BY <1>12 DEF Busy, NobodyKnows, Extend, CheckDeadline, GiveUp, NextTick
<1>13. CASE NotBusy
  BY <1>13 DEF NotBusy
<1>14. CASE NoPickup
  BY <1>14 DEF NoPickup, Release, GiveUp
<1>15. CASE Deleted
  <2>1. at' \in {"end", "worth"}
    BY <1>15 DEF Deleted, Fails, End
  <2>2. at = "delete" /\ left \in Nat /\ UNCHANGED <<spent, retry, stops>>
    BY <1>15 DEF Deleted
  <2>3. CASE at' = "end"
    BY <2>2, <2>3
  <2>4. CASE at' = "worth"
    BY <2>2, <2>4
  <2> QED
    BY <2>1, <2>3, <2>4
<1>16. CASE Again
  BY <1>16 DEF Again
<1> QED
  BY <1>1, <1>2, <1>3, <1>4, <1>5, <1>6, <1>7, <1>8, <1>9, <1>10, <1>11, <1>12, <1>13, <1>14,
     <1>15, <1>16
     DEF Work

LEMMA SlotSpendsNothing ==
  ASSUME ClockInv, Acquire
  PROVE  Rest' \in Nat /\ Rest' <= Rest /\ UNCHANGED <<spent, retry, stops>>
<1>1. at = "queue" /\ UNCHANGED <<rec, spent, retry, stops>> /\ left \in Nat
  BY DEF Acquire, history, ClockInv, Types
<1>2. Life \in Nat /\ Rest \in Nat /\ Life <= Rest /\ Life' = Life
  BY <1>1, Lengths DEF Rest, Life, Provisioning, Monitoring, Round
<1>3. at' # "queue" /\ InHand' \in Nat /\ InHand' <= Life
  BY Times DEF Acquire, WaitReady, Watch, GiveUp, Launched, ClockInv, Types, Monitored, Enter,
     InHand, RestOfWaiting, RestOfMonitoring, RestOfRound, Round, Monitoring, Provisioning, Life
<1> QED
  BY <1>1, <1>2, <1>3 DEF Rest

LEMMA WorkSpendsNothing ==
  ASSUME ClockInv, Work, ~Retry
  PROVE  Rest' \in Nat /\ Rest' <= Rest /\ UNCHANGED <<spent, retry, stops>>
<1>1. CASE ~Acquire
  <2>1. at # "queue" /\ at' # "queue"
    BY <1>1 DEF Work, Create, Ready, Unusable, NotReady, PollAgain, Booted, Ticks,
                ReadMarker, RunnerExited, PollJob, JobIsOver, Busy, NobodyKnows, Extend, NotBusy,
                NoPickup, Deleted, Again, WaitReady, End, Fails, GiveUp, Watch, Release, CheckDone,
                CheckPickup, CheckDeadline, NextTick, Enter
  <2> QED
    BY <1>1, <2>1, StepsSpendNothing DEF Rest
<1> QED
  BY <1>1, SlotSpendsNothing

LEMMA TickSpendsTheRest ==
  ASSUME ClockInv, Tick
  PROVE  Rest' \in Nat /\ spent' + Rest' <= spent + Rest /\ UNCHANGED <<retry, stops>>
BY Times DEF Tick, Down, ClockInv, Types, Following, Bounded, Monitored, Working, HoldsVM, Rest, InHand,
  RestOfWaiting, RestOfMonitoring, RestOfRound, Round, Monitoring, Provisioning, Life, Places,
  Calls, Waits

LEMMA StopStartsALife ==
  ASSUME ClockInv, Stop
  PROVE  /\ Rest' \in Nat /\ Rest' <= Life + MaxWait
         /\ stops' = stops + 1 /\ UNCHANGED <<retry, spent>>
BY Times, Lengths DEF Stop, ClockInv, Types, Enter, Rest

LEMMA RetryStartsALife ==
  ASSUME ClockInv, Retry, retry' # retry
  PROVE  Rest' \in Nat /\ Rest' <= Life /\ retry' = retry + 1 /\ UNCHANGED <<stops, spent>>
BY Times, Lengths DEF Retry, End, ClockInv, Types, Monitored, Enter, Rest, InHand, history

LEMMA RetryOrEnd ==
  ASSUME ClockInv, Retry, retry' = retry
  PROVE  Rest' = 0 /\ UNCHANGED <<spent, stops>>
BY Times, Lengths DEF Retry, End, ClockInv, Types, Monitored, Enter, Rest, InHand, history

LEMMA AllowanceIs ==
  ASSUME ClockInv, ClockInv'
  PROVE  /\ Allowance \in Nat
         /\ UNCHANGED <<retry, stops>> => Allowance' = Allowance
         /\ retry' = retry + 1 /\ stops' = stops => Allowance' = Allowance + Life
         /\ retry' = retry /\ stops' = stops + 1 => Allowance' = Allowance + (Life + MaxWait)
<1> DEFINE n == 1 + retry
           long == Life + MaxWait
<1>1. /\ n \in Nat /\ stops \in Nat /\ Life \in Nat /\ long \in Nat
      /\ Life' = Life /\ long' = long
  BY Times, Lengths DEF ClockInv, Types, Life, Provisioning, Monitoring, Round
<1>2. /\ n * Life \in Nat /\ (n + 1) * Life = n * Life + Life
      /\ stops * long \in Nat /\ (stops + 1) * long = stops * long + long
  BY <1>1, OneMore
<1>3. Allowance = n * Life + stops * long
  BY DEF Allowance
<1>4. Allowance' = (1 + retry') * Life + stops' * long
  BY <1>1 DEF Allowance
<1>5. ASSUME UNCHANGED <<retry, stops>> PROVE Allowance' = Allowance
  BY <1>3, <1>4, <1>5
<1>6. ASSUME retry' = retry + 1, stops' = stops PROVE Allowance' = Allowance + Life
  <2>1. 1 + retry' = n + 1
    BY <1>6, <1>1 DEF ClockInv, Types
  <2>2. Allowance' = (n + 1) * Life + stops * long
    BY <1>4, <1>6, <2>1
  <2> HIDE DEF n, long
  <2> QED
    BY <1>1, <1>2, <1>3, <2>2
<1>7. ASSUME retry' = retry, stops' = stops + 1 PROVE Allowance' = Allowance + long
  <2>1. Allowance' = n * Life + (stops + 1) * long
    BY <1>4, <1>7
  <2> HIDE DEF n, long
  <2> QED
    BY <1>1, <1>2, <1>3, <2>1
<1>8. Allowance \in Nat
  <2> HIDE DEF n, long
  <2> QED
    BY <1>2, <1>3
<1> QED
  BY <1>5, <1>6, <1>7, <1>8

LEMMA CostStep == CostInv /\ [Next]_vars => WithinAllowance'
<1> SUFFICES ASSUME CostInv, [Next]_vars PROVE WithinAllowance'
  OBVIOUS
<1>1. Rest \in Nat /\ ClockInv /\ ClockInv' /\ Life \in Nat /\ Life + MaxWait \in Nat
  BY RestIsNat, ClockStep, Lengths, Times DEF CostInv
<1>2. spent \in Nat /\ spent' \in Nat /\ spent + Rest <= Allowance /\ Allowance \in Nat
  BY <1>1, AllowanceIs DEF CostInv, ClockInv, Types, WithinAllowance
<1>3. ASSUME UNCHANGED <<retry, stops>>, Rest' \in Nat, spent' + Rest' <= spent + Rest
      PROVE  WithinAllowance'
  <2>1. Allowance' = Allowance
    BY <1>1, <1>3, AllowanceIs
  <2>2. spent' + Rest' <= Allowance
    BY <1>1, <1>2, <1>3, NoMoreThan
  <2> QED
    BY <2>1, <2>2 DEF WithinAllowance
<1>4. ASSUME NEW d \in Nat, spent' = spent, Rest' \in Nat, Rest' <= d, Allowance' = Allowance + d
      PROVE  WithinAllowance'
  <2>1. spent + Rest' <= Allowance + d
    BY <1>1, <1>2, <1>4, WithMore
  <2> QED
    BY <1>4, <2>1 DEF WithinAllowance
<1>5. CASE Work /\ ~Retry
  BY <1>1, <1>2, <1>3, <1>5, WorkSpendsNothing
<1>6. CASE Retry /\ retry' = retry
  BY <1>1, <1>2, <1>3, <1>6, RetryOrEnd
<1>7. CASE Retry /\ retry' # retry
  BY <1>1, <1>4, <1>7, RetryStartsALife, AllowanceIs
<1>8. CASE Tick
  BY <1>1, <1>3, <1>8, TickSpendsTheRest
<1>9. CASE Stop
  BY <1>1, <1>4, <1>9, StopStartsALife, AllowanceIs
<1>10. CASE UNCHANGED vars
  <2>1. Rest' = Rest /\ spent' = spent /\ UNCHANGED <<retry, stops>>
    BY <1>10 DEF vars, clocks, history, Rest, InHand, RestOfWaiting, RestOfMonitoring, RestOfRound,
       Monitored, Life, Provisioning, Monitoring, Round
  <2> QED
    BY <1>1, <1>2, <1>3, <2>1
<1> QED
  BY <1>5, <1>6, <1>7, <1>8, <1>9, <1>10 DEF Next

LEMMA DeletionsStep == ClockInv /\ WithinDeletions /\ [Next]_vars => WithinDeletions'
<1> SUFFICES ASSUME ClockInv, WithinDeletions, [Next]_vars PROVE WithinDeletions'
  OBVIOUS
<1> USE DEF ClockInv, Types, WithinDeletions, Enter, history
<1>1. CASE Deleted
  <2>1. at' \in {"worth", "end"} /\ at = "delete" /\ UNCHANGED <<retry, stops>>
    BY <1>1 DEF Deleted, Fails, End
  <2>2. astray' = astray \/ astray' = astray + 1
    BY <1>1 DEF Deleted
  <2> QED
    BY <2>1, <2>2
<1>2. CASE Retry
  BY <1>2 DEF Retry, End
<1>3. CASE Stop
  BY <1>3 DEF Stop
<1>4. CASE Tick \/ UNCHANGED vars
  BY <1>4 DEF Tick, vars
<1>5. CASE Work /\ ~Deleted /\ ~Retry
  <2>1. /\ at \notin {"worth", "end"}
        /\ UNCHANGED <<retry, stops, astray>>
    BY <1>5 DEF Work, Acquire, Create, Ready, Unusable, NotReady, PollAgain, Booted, Ticks,
                ReadMarker, RunnerExited, PollJob, JobIsOver, Busy, NobodyKnows, Extend, NotBusy,
                NoPickup, Again
  <2> QED
    BY <2>1
<1> QED
  BY <1>1, <1>2, <1>3, <1>4, <1>5 DEF Next

LEMMA CostInit == Init => WithinAllowance /\ WithinDeletions
<1> SUFFICES ASSUME Init PROVE WithinAllowance /\ WithinDeletions
  OBVIOUS
<1>1. /\ Rest = Life + 0
      /\ Allowance = (1 + 0) * Life + 0 * (Life + MaxWait)
  BY DEF Init, Rest, Allowance
<1>2. spent = 0 /\ Life \in Nat /\ MaxWait \in Nat
  BY Lengths, Times DEF Init
<1> QED
  BY <1>1, <1>2 DEF Init, WithinAllowance, WithinDeletions

-----------------------------------------------------------------------------
(* How long a runner without a job is kept.                                *)

\* Either the time that is left shrinks as the idle time grows, or the runner
\* has just been launched or found busy, or it gets more time because nobody
\* knows.
Shrinks == rec = "runner_up" /\ idle' + IdleRest' <= idle + IdleRest /\ unknown' = unknown
Starts  == idle' = 0 /\ IdleRest' <= PickupTime + Round /\ unknown' = 0
Extends == rec = "runner_up" /\ idle' = idle /\ IdleRest' <= PickupTime + Round
           /\ unknown' = unknown + 1

PickupGuarded ==
  /\ rec' \in {"wait_ready", "bootstrapping"} => idle' = 0 /\ unknown' = 0
  /\ rec' = "runner_up" => IdleRest' \in Nat /\ (Shrinks \/ Starts \/ Extends)
  /\ UNCHANGED stops

LEMMA WorkGuardsPickup ==
  ASSUME ClockInv, WithinPickup, Work
  PROVE  PickupGuarded
<1> USE Times DEF ClockInv, Types, Following, Bounded, Monitored, Enter, IdleRest, RestOfRound,
    Round, WithinPickup, PickupGuarded, Shrinks, Starts, Extends, history
<1>1. CASE Create
  BY <1>1 DEF Create, WaitReady, Fails, End
<1>2. CASE Ready
  BY <1>2 DEF Ready
<1>3. CASE Unusable
  BY <1>3 DEF Unusable, GiveUp
<1>4. CASE NotReady
  BY <1>4 DEF NotReady, GiveUp
<1>5. CASE PollAgain
  BY <1>5 DEF PollAgain
<1>6. CASE Booted
  BY <1>6 DEF Booted, Watch, GiveUp
<1>7. CASE Ticks
  BY <1>7 DEF Ticks
<1>8. CASE ReadMarker
  <2>1. /\ at = "status" /\ UNCHANGED <<rec, retry, due, pickup, beat, jobDone, history>>
        /\ \/ at' = "delete" /\ left' = DeleteTime
           \/ at' \in {"exited", "released", "busy"} /\ left' = CallTime
           \/ at' = "poll" /\ left' = 2 * CallTime
           \/ at' = "tick" /\ left' = beat /\ due # 0 /\ (rec = "runner_up" => pickup # 0)
    BY <1>8 DEF ReadMarker, GiveUp, CheckDone, CheckPickup, CheckDeadline, NextTick
  <2> QED
    BY <2>1
<1>9. CASE RunnerExited
  BY <1>9 DEF RunnerExited, Release, GiveUp
<1>10. CASE PollJob
  BY <1>10 DEF PollJob, CheckDone, CheckPickup, CheckDeadline, NextTick, GiveUp
<1>11. CASE JobIsOver
  BY <1>11 DEF JobIsOver, Release, GiveUp, CheckPickup, CheckDeadline, NextTick
<1>12. CASE Busy \/ NobodyKnows
  BY <1>12 DEF Busy, NobodyKnows, Extend, CheckDeadline, GiveUp, NextTick
<1>13. CASE NotBusy
  BY <1>13 DEF NotBusy
<1>14. CASE NoPickup
  BY <1>14 DEF NoPickup, Release, GiveUp
<1>15. CASE Deleted
  BY <1>15 DEF Deleted, Fails, End
<1>16. CASE Retry
  BY <1>16 DEF Retry, End
<1>17. CASE Again
  BY <1>17 DEF Again
<1>18. CASE Acquire
  <2>1. at = "queue" /\ UNCHANGED <<rec, idle, unknown, stops>>
    BY <1>18 DEF Acquire
  <2>2. CASE rec # "runner_up"
    BY <2>1, <2>2
  <2>3. CASE rec = "runner_up"
    BY <1>18, <2>1, <2>3 DEF Acquire, Watch, Launched
  <2> QED
    BY <2>2, <2>3
<1> QED
  BY <1>1, <1>2, <1>3, <1>4, <1>5, <1>6, <1>7, <1>8, <1>9, <1>10, <1>11, <1>12, <1>13, <1>14,
     <1>15, <1>16, <1>17, <1>18
     DEF Work

LEMMA TickGuardsPickup ==
  ASSUME ClockInv, WithinPickup, Tick
  PROVE  PickupGuarded
BY Times DEF Tick, Down, Watched, Launched, ClockInv, Types, Following, Bounded, Monitored,
  IdleRest, RestOfRound, Round, WithinPickup, PickupGuarded, Shrinks

LEMMA StopStartsAPickup ==
  ASSUME ClockInv, Stop
  PROVE  /\ IdleRest' \in Nat /\ IdleRest' <= (PickupTime + Round) + MaxWait
         /\ stops' = stops + 1 /\ UNCHANGED <<rec, idle, unknown>>
BY Times DEF Stop, ClockInv, Types, Enter, IdleRest, Round

LEMMA IdleInit == Init => WithinPickup
BY DEF Init, WithinPickup

LEMMA AtLeastOne ==
  ASSUME NEW a \in Nat, NEW b \in Nat, NEW length \in Nat, NEW wait \in Nat
  PROVE  /\ (1 + a + b) * length + a * wait \in Nat
         /\ length <= (1 + a + b) * length + a * wait
<1>1. (a + b) + 1 = 1 + a + b /\ a + b \in Nat
  OBVIOUS
<1>2. /\ (a + b) * length \in Nat /\ ((a + b) + 1) * length = (a + b) * length + length
      /\ a * wait \in Nat
  BY <1>1, OneMore
<1> QED
  BY <1>1, <1>2

LEMMA IdleAllowanceIs ==
  ASSUME ClockInv, ClockInv'
  PROVE  /\ IdleAllowance \in Nat /\ PickupTime + Round <= IdleAllowance
         /\ IdleAllowance' \in Nat /\ PickupTime + Round <= IdleAllowance'
         /\ UNCHANGED <<unknown, stops>> => IdleAllowance' = IdleAllowance
         /\ unknown' = unknown + 1 /\ stops' = stops
              => IdleAllowance' = IdleAllowance + (PickupTime + Round)
         /\ unknown' = unknown /\ stops' = stops + 1
              => IdleAllowance' = IdleAllowance + ((PickupTime + Round) + MaxWait)
<1> DEFINE n == 1 + stops + unknown
           length == PickupTime + Round
<1>1. /\ n \in Nat /\ stops \in Nat /\ unknown \in Nat
      /\ length \in Nat /\ MaxWait \in Nat
      /\ length' = length
  BY Times, Lengths DEF ClockInv, Types, Round
<1>2. /\ n * length \in Nat /\ (n + 1) * length = n * length + length
      /\ stops * MaxWait \in Nat /\ (stops + 1) * MaxWait = stops * MaxWait + MaxWait
  BY <1>1, OneMore
<1>3. IdleAllowance = n * length + stops * MaxWait
  BY DEF IdleAllowance
<1>4. IdleAllowance' = (1 + stops' + unknown') * length + stops' * MaxWait
  BY <1>1 DEF IdleAllowance
<1>5. ASSUME UNCHANGED <<unknown, stops>> PROVE IdleAllowance' = IdleAllowance
  BY <1>3, <1>4, <1>5
<1>6. ASSUME unknown' = unknown + 1, stops' = stops PROVE IdleAllowance' = IdleAllowance + length
  <2>1. 1 + stops' + unknown' = n + 1
    BY <1>1, <1>6
  <2>2. IdleAllowance' = (n + 1) * length + stops * MaxWait
    BY <1>4, <1>6, <2>1
  <2> HIDE DEF n, length
  <2> QED
    BY <1>1, <1>2, <1>3, <2>2
<1>7. ASSUME unknown' = unknown, stops' = stops + 1
      PROVE  IdleAllowance' = IdleAllowance + (length + MaxWait)
  <2>1. 1 + stops' + unknown' = n + 1
    BY <1>1, <1>7
  <2>2. IdleAllowance' = (n + 1) * length + (stops + 1) * MaxWait
    BY <1>4, <1>7, <2>1
  <2> HIDE DEF n, length
  <2> QED
    BY <1>1, <1>2, <1>3, <2>2
<1>8. IdleAllowance \in Nat /\ length <= IdleAllowance
  BY <1>1, <1>3, AtLeastOne
<1>9. IdleAllowance' \in Nat /\ length <= IdleAllowance'
  <2>1. stops' \in Nat /\ unknown' \in Nat
    BY DEF ClockInv, Types
  <2> QED
    BY <1>1, <1>4, <2>1, AtLeastOne
<1> QED
  BY <1>5, <1>6, <1>7, <1>8, <1>9

LEMMA IdleStep == IdleInv /\ [Next]_vars => WithinPickup'
<1> SUFFICES ASSUME IdleInv, [Next]_vars PROVE WithinPickup'
  OBVIOUS
<1> DEFINE length == PickupTime + Round
<1>1. /\ ClockInv /\ ClockInv' /\ idle \in Nat /\ idle' \in Nat /\ IdleRest \in Nat
      /\ length \in Nat /\ MaxWait \in Nat /\ IdleAllowance \in Nat
      /\ length <= IdleAllowance
      /\ rec = "runner_up" => idle + IdleRest <= IdleAllowance
  BY Times, Lengths, ClockStep, IdleAllowanceIs
     DEF IdleInv, ClockInv, Types, WithinPickup, IdleRest, RestOfRound
<1> HIDE DEF length
<1>2. ASSUME PickupGuarded PROVE WithinPickup'
  <2>1. ASSUME rec' = "runner_up" PROVE idle' + IdleRest' <= IdleAllowance'
    <3>1. IdleRest' \in Nat /\ (Shrinks \/ Starts \/ Extends) /\ stops' = stops
      BY <1>2, <2>1 DEF PickupGuarded
    <3>2. CASE Shrinks
      <4>1. IdleAllowance' = IdleAllowance /\ idle + IdleRest <= IdleAllowance
        BY <1>1, <3>1, <3>2, IdleAllowanceIs DEF Shrinks
      <4> QED
        BY <1>1, <3>1, <3>2, <4>1, NoMoreThan DEF Shrinks
    <3>3. CASE Starts
      <4>1. IdleRest' <= length /\ idle' = 0
        BY <3>3 DEF Starts, length
      <4>2. length <= IdleAllowance' /\ IdleAllowance' \in Nat
        BY <1>1, IdleAllowanceIs DEF length
      <4> QED
        BY <1>1, <3>1, <4>1, <4>2, FromNothing
    <3>4. CASE Extends
      <4>1. /\ IdleAllowance' = IdleAllowance + length /\ idle + IdleRest <= IdleAllowance
            /\ idle' = idle /\ IdleRest' <= length
        BY <1>1, <3>1, <3>4, IdleAllowanceIs DEF Extends, length
      <4> QED
        BY <1>1, <3>1, <4>1, WithMore
    <3> QED
      BY <3>1, <3>2, <3>3, <3>4
  <2>2. rec' \in {"wait_ready", "bootstrapping"} => idle' = 0 /\ unknown' = 0
    BY <1>2 DEF PickupGuarded
  <2> QED
    BY <2>1, <2>2 DEF WithinPickup
<1>3. CASE Work \/ Tick
  BY <1>2, <1>3, WorkGuardsPickup, TickGuardsPickup DEF IdleInv
<1>4. CASE Stop
  <2>1. /\ IdleRest' \in Nat /\ IdleRest' <= length + MaxWait
        /\ stops' = stops + 1 /\ UNCHANGED <<rec, idle, unknown>>
    BY <1>1, <1>4, StopStartsAPickup DEF length
  <2>2. IdleAllowance' = IdleAllowance + (length + MaxWait)
    BY <1>1, <2>1, IdleAllowanceIs DEF length
  <2>3. length + MaxWait \in Nat
    BY <1>1
  <2>4. rec = "runner_up" => idle + IdleRest' <= IdleAllowance + (length + MaxWait)
    BY <1>1, <2>1, <2>3, WithMore
  <2> QED
    BY <2>1, <2>2, <2>4 DEF IdleInv, WithinPickup
<1>5. CASE UNCHANGED vars
  <2>1. IdleRest' = IdleRest /\ IdleAllowance' = IdleAllowance
    BY <1>5 DEF vars, clocks, history, IdleRest, RestOfRound, Monitored, IdleAllowance, Round
  <2> QED
    BY <1>5, <2>1 DEF vars, clocks, history, IdleInv, WithinPickup
<1> QED
  BY <1>3, <1>4, <1>5 DEF Next

-----------------------------------------------------------------------------
(* The theorems.                                                           *)

LEMMA SplitAllowance ==
  ASSUME NEW a \in Nat, NEW b \in Nat, NEW length \in Nat, NEW wait \in Nat
  PROVE  /\ (1 + a) * length + b * (length + wait) = (1 + a + b) * length + b * wait
         /\ (1 + a + b) * length \in Nat /\ b * wait \in Nat
<1>1. (1 + a + b) * length = (1 + a) * length + b * length
  OBVIOUS
<1>2. b * (length + wait) = b * length + b * wait
  OBVIOUS
<1>3. /\ (1 + a) * length \in Nat /\ b * length \in Nat /\ b * wait \in Nat
      /\ (1 + a + b) * length \in Nat
  BY OneMore
<1> QED
  BY <1>1, <1>2, <1>3

LEMMA CostInvariant == Spec => []CostInv
<1>1. Init => CostInv
  BY ClockInit, CostInit DEF CostInv
<1>2. CostInv /\ [Next]_vars => CostInv'
  BY ClockStep, CostStep, DeletionsStep DEF CostInv
<1> QED
  BY <1>1, <1>2, PTL DEF Spec

LEMMA IdleInvariant == Spec => []IdleInv
<1>1. Init => IdleInv
  BY ClockInit, IdleInit DEF IdleInv
<1>2. IdleInv /\ [Next]_vars => IdleInv'
  BY ClockStep, IdleStep DEF IdleInv
<1> QED
  BY <1>1, <1>2, PTL DEF Spec

\* Every variable stays in its range, whatever the timeouts are.
THEOREM Typing == Spec => []TypeOK
<1>1. CostInv => TypeOK
  BY TypesAreTypeOK DEF CostInv, ClockInv
<1> QED
  BY <1>1, CostInvariant, PTL

\* Whatever the VM, the runner and GitHub answer, a job holds its VMs no
\* longer than a life for each attempt, and a life and a wait for a slot for
\* each stop of the process; and deleteVM gives up no more VMs than there were
\* attempts and stops.  The deadlines of waitReady and monitor are enough for
\* this although each is looked at only once a poll or a round, and none runs
\* in runJob's wait for a slot (job.go: runJob, attempt, waitReady, monitor).
THEOREM CostIsBounded == Spec => []CostIsCapped
<1>1. CostInv => CostIsCapped
  <2> SUFFICES ASSUME CostInv PROVE CostIsCapped
    OBVIOUS
  <2> DEFINE lives == (1 + retry + stops) * Life
             waits == stops * MaxWait
  <2>1. Rest \in Nat /\ spent \in Nat /\ astray \in Nat /\ retry \in Nat /\ stops \in Nat
        /\ spent + Rest <= Allowance
    BY RestIsNat DEF CostInv, ClockInv, Types, WithinAllowance
  <2>2. Allowance = lives + waits /\ lives \in Nat /\ waits \in Nat
    BY <2>1, Times, Lengths, SplitAllowance DEF Allowance
  <2>3. spent <= lives + waits
    <3> HIDE DEF lives, waits
    <3> QED
      BY <2>1, <2>2
  <2>4. astray <= 1 + retry + stops
    BY <2>1 DEF CostInv, WithinDeletions
  <2> QED
    BY <2>3, <2>4 DEF CostIsCapped
<1> QED
  BY <1>1, CostInvariant, PTL

\* A runner that has picked up nothing is kept for no longer than the pickup
\* timeout and a round since it was launched or found busy, once more for each
\* busy-check that was not answered and for each process, besides the waits for
\* a slot (job.go, monitor: pickupDeadline; runnerBusy).
THEOREM IdleIsBounded == Spec => []IdleIsCapped
<1>1. IdleInv => IdleIsCapped
  <2> SUFFICES ASSUME IdleInv, at \in Monitored, rec = "runner_up"
               PROVE  idle <= IdleAllowance
    BY DEF IdleIsCapped, IdleAllowance
  <2>1. IdleRest \in Nat /\ idle \in Nat /\ stops \in Nat /\ unknown \in Nat
    BY Times, Lengths DEF IdleInv, ClockInv, Types, IdleRest, RestOfRound
  <2>2. PickupTime + Round \in Nat /\ MaxWait \in Nat
    BY Times, Lengths
  <2>3. IdleAllowance \in Nat
    BY <2>1, <2>2, AtLeastOne DEF IdleAllowance
  <2> QED
    BY <2>1, <2>3 DEF IdleInv, WithinPickup
<1> QED
  BY <1>1, IdleInvariant, PTL
=============================================================================
