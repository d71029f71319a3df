------------------------- MODULE CreateLimitProofs -------------------------
(* The client's limiter, for any number of callers, any rate and any delay *)
(* on the wire.  In no stretch of time are more creates sent than burst plus *)
(* rate times time, for each process; no call                              *)
(* sleeps past the token it waits for; and the 429s are accounted for: what *)
(* the client's bucket holds and has on the wire exceeds what the service's *)
(* bucket holds by no more than the ticks of delay and the restarts that no *)
(* 429 has used up yet.                                                     *)
EXTENDS CreateLimit, FiniteSetTheorems, TLAPS

\* What the client may still send, and has sent, is in the service's bucket,
\* up to the delays and the restarts that no 429 accounts for.
Covered ==
    Level + OnWire * Cost + rejected <= server + late + restarts * Capacity

Account == RefusalsAreExplained /\ Covered

\* What may be sent now and what was sent ahead of the refill make one full
\* bucket, and at most one more for each new process.
OneBurst ==
    /\ Capacity <= Level + debt
    /\ Level + debt <= (1 + restarts) * Capacity

CallsOK ==
    call \in [Callers -> [at : Places, timer : Nat,
                          pause : Initial .. Longest, left : 0 .. Budget]]

-----------------------------------------------------------------------------
(* Numbers.                                                                 *)

LEMMA Sizes ==
    /\ Capacity \in Nat /\ Cost \in Nat /\ Cost > 0
    /\ RetryAfter \in Nat /\ Second \in Nat /\ Budget \in Nat
    /\ Initial \in Nat /\ Longest \in Nat /\ Initial <= Longest
    /\ MaxLate \in Nat /\ MaxRestarts \in Nat /\ IsFiniteSet(Callers)
<1>1. Burst \in Nat /\ Cost \in Nat
    BY LimitAssumption
<1>2. Burst * Cost \in Nat
    BY <1>1
<1> QED
    BY <1>2, LimitAssumption DEF Capacity

LevelRange == Level \in Nat /\ Level <= Capacity

LEMMA LevelIs == TypeOK => LevelRange
BY Sizes DEF TypeOK, Level, Least, LevelRange

LEMMA RefilledIs ==
    ASSUME NEW level \in 0 .. Capacity, Refilled(level)
    PROVE  Level' = level
BY Sizes DEF Refilled, Level, Least

LEMMA OneMore ==
    ASSUME NEW n \in Nat, NEW size \in Nat
    PROVE  n * size \in Nat /\ (n + 1) * size = n * size + size
OBVIOUS

WireCounts ==
    /\ IsFiniteSet(Sent) /\ Cardinality(Sent) \in Nat
    /\ strays \in Nat /\ OnWire \in Nat
    /\ OnWire = Cardinality(Sent) + strays

LEMMA OnWireIs == TypeOK => WireCounts
<1>1. IsFiniteSet(Sent)
    BY Sizes, FS_Subset DEF Sent
<1> QED
    BY <1>1, FS_CardinalityType DEF OnWire, TypeOK, WireCounts

LEMMA DownStaysIn ==
    ASSUME NEW n \in Nat
    PROVE  /\ Down(n) \in Nat /\ Down(n) <= n
           /\ \A m \in Nat : n <= m => Down(n) <= m
BY DEF Down

-----------------------------------------------------------------------------
(* The types.                                                               *)

LEMMA TypesInit == Init => TypeOK
<1> SUFFICES ASSUME Init PROVE TypeOK
    OBVIOUS
<1>1. CallsOK
    BY Sizes DEF Init, Call, CallsOK, Places
<1> QED
    BY <1>1, Sizes DEF Init, TypeOK, CallsOK

\* A step of one call: its place, its timer and its pause.
LEMMA CallChanges ==
    ASSUME CallsOK, NEW k \in Callers, NEW c,
           c \in [at : Places, timer : Nat, pause : Initial .. Longest, left : 0 .. Budget],
           call' = [call EXCEPT ![k] = c]
    PROVE  CallsOK'
BY DEF CallsOK

LEMMA GoesOn ==
    ASSUME CallsOK, NEW k \in Callers, NEW place \in Places,
           Goto(k, place) \/ \E time \in Nat : Wait(k, place, time)
    PROVE  CallsOK'
<1>1. CASE Goto(k, place)
    BY <1>1 DEF CallsOK, Goto
<1>2. ASSUME NEW time \in Nat, Wait(k, place, time) PROVE CallsOK'
    BY <1>2 DEF CallsOK, Wait
<1> QED
    BY <1>1, <1>2

LEMMA Ends == ASSUME CallsOK, NEW k \in Callers, End(k) PROVE CallsOK'
BY Sizes DEF CallsOK, End, Call, Places

LEMMA BacksOff ==
    ASSUME CallsOK, NEW k \in Callers,
           call' = [call EXCEPT ![k].at = "backoff", ![k].timer = call[k].pause,
                                ![k].pause = Doubled(@)]
    PROVE  CallsOK'
<1>1. call[k].pause \in Initial .. Longest
    BY DEF CallsOK
<1>2. Doubled(call[k].pause) \in Initial .. Longest /\ call[k].pause \in Nat
    BY <1>1, Sizes DEF Doubled, Least
<1> QED
    BY <1>2 DEF CallsOK, Places

LEMMA CallsStep ==
    ASSUME TypeOK, [Next]_vars
    PROVE  CallsOK'
<1> USE DEF Places
<1>0. CallsOK
    BY DEF TypeOK, CallsOK
<1>1. ASSUME NEW k \in Callers, Start(k) \/ TakeToken(k) \/ WakeUp(k) PROVE CallsOK'
    BY <1>0, <1>1, GoesOn DEF Start, TakeToken, WakeUp
<1>2. ASSUME NEW k \in Callers, FallAsleep(k) PROVE CallsOK'
    <2>1. WaitFor(Level) \in Nat
        BY <1>2, LevelIs, Sizes DEF FallAsleep, WaitFor, LevelRange
    <2> QED
        BY <1>0, <1>2, <2>1, GoesOn DEF FallAsleep
<1>3. ASSUME NEW k \in Callers, Answered(k) \/ TimesOut(k) PROVE CallsOK'
    BY <1>0, <1>3, Ends DEF Answered, TimesOut
<1>4. ASSUME NEW k \in Callers, NoCapacity(k) PROVE CallsOK'
    BY <1>0, <1>4, Ends, BacksOff DEF NoCapacity
<1>5. ASSUME NEW k \in Callers, Refused(k) PROVE CallsOK'
    <2>1. RetryAfter + Second \in Nat
        BY Sizes
    <2> QED
        BY <1>0, <1>5, <2>1, Ends, GoesOn DEF Refused
<1>6. ASSUME NEW k \in Callers, TryAgain(k) PROVE CallsOK'
    BY <1>0, <1>6, Ends, GoesOn DEF TryAgain
<1>7. CASE Tick
    <2> DEFINE ticked(c) == IF InProgress(c)
                            THEN [c EXCEPT !.timer = Down(@), !.left = Down(@)] ELSE c
    <2>1. ASSUME NEW k \in Callers
          PROVE  ticked(call[k]) \in [at : Places, timer : Nat,
                                      pause : Initial .. Longest, left : 0 .. Budget]
        <3>1. /\ call[k] \in [at : Places, timer : Nat,
                              pause : Initial .. Longest, left : 0 .. Budget]
              /\ call[k].timer \in Nat /\ call[k].left \in 0 .. Budget
            BY <1>0 DEF CallsOK
        <3>2. Down(call[k].timer) \in Nat /\ Down(call[k].left) \in 0 .. Budget
            BY <3>1, Sizes, DownStaysIn
        <3> QED
            BY <3>1, <3>2
    <2>2. call' = [k \in Callers |-> ticked(call[k])]
        BY <1>7 DEF Tick
    <2> QED
        BY <2>1, <2>2 DEF CallsOK
<1>8. CASE Restart
    <2>1. Call("new") \in [at : Places, timer : Nat,
                           pause : Initial .. Longest, left : 0 .. Budget]
        BY Sizes DEF Call
    <2> QED
        BY <1>0, <1>8, <2>1 DEF CallsOK, Restart
<1>9. CASE StrayArrives \/ UNCHANGED vars
    BY <1>0, <1>9 DEF CallsOK, StrayArrives, vars
<1> QED
    BY <1>1, <1>2, <1>3, <1>4, <1>5, <1>6, <1>7, <1>8, <1>9 DEF Next, Step

-----------------------------------------------------------------------------
(* What a step does to the buckets and the wire: it leaves them alone,      *)
(* takes a token out, brings an answer or a refusal back, or lets time pass. *)

Quiet ==
    /\ Level' = Level /\ OnWire' = OnWire
    /\ UNCHANGED <<debt, server, rejected, late, restarts>>

SendsOne ==
    /\ Level >= Cost /\ Level' = Level - Cost
    /\ debt' = debt + Cost
    /\ OnWire' = OnWire + 1
    /\ UNCHANGED <<server, rejected, late, restarts>>

BringsOne ==
    /\ Level' = Level /\ OnWire = OnWire' + 1
    /\ \/ Limiter!Take /\ UNCHANGED rejected
       \/ server < Cost /\ rejected' = rejected + 1 /\ UNCHANGED server
       \/ UNCHANGED <<server, rejected>>
    /\ UNCHANGED <<debt, late, restarts>>

TimePasses ==
    /\ Level' = Least(Capacity, Level + 1)
    /\ debt' = Down(debt)
    /\ OnWire' = OnWire
    /\ Limiter!Tick
    /\ late' = IF OnWire > 0 THEN late + 1 ELSE late
    /\ UNCHANGED <<rejected, restarts>>

StartsAnew ==
    /\ Level' = Capacity /\ OnWire' = OnWire
    /\ restarts' = restarts + 1
    /\ UNCHANGED <<debt, server, rejected, late>>

\* A call that moves is on the wire or not; the others stay where they are.
LEMMA OneCallMoves ==
    ASSUME TypeOK, TypeOK', NEW k \in Callers,
           \A j \in Callers \ {k} : call'[j] = call[j]
    PROVE  /\ (call[k].at = "sent" <=> call'[k].at = "sent")
                  => Cardinality(Sent') = Cardinality(Sent)
           /\ call[k].at # "sent" /\ call'[k].at = "sent"
                  => Cardinality(Sent') = Cardinality(Sent) + 1
           /\ call[k].at = "sent" /\ call'[k].at # "sent"
                  => Cardinality(Sent) = Cardinality(Sent') + 1
<1>0. IsFiniteSet(Sent) /\ Cardinality(Sent) \in Nat
    BY OnWireIs DEF WireCounts
<1>1. CASE call[k].at = "sent" <=> call'[k].at = "sent"
    <2>1. Sent' = Sent
        BY <1>1 DEF Sent
    <2> QED
        BY <1>1, <2>1
<1>2. CASE call[k].at # "sent" /\ call'[k].at = "sent"
    <2>1. Sent' = Sent \cup {k} /\ k \notin Sent
        BY <1>2 DEF Sent
    <2>2. Cardinality(Sent') = Cardinality(Sent) + 1
        BY <1>0, <2>1, FS_AddElement
    <2> QED
        BY <1>2, <2>2
<1>3. CASE call[k].at = "sent" /\ call'[k].at # "sent"
    <2>1. Sent' = Sent \ {k} /\ k \in Sent
        BY <1>3 DEF Sent
    <2>2. Cardinality(Sent') = Cardinality(Sent) - 1
        BY <1>0, <2>1, FS_RemoveElement
    <2> QED
        BY <1>0, <1>3, <2>2
<1> QED
    BY <1>1, <1>2, <1>3

LEMMA TypeStep == TypeOK /\ [Next]_vars => TypeOK'
<1> SUFFICES ASSUME TypeOK, [Next]_vars PROVE TypeOK'
    OBVIOUS
<1>0. CallsOK'
    BY CallsStep
<1>1. tokens' \in 0 .. Capacity /\ since' \in 0 .. Capacity /\ debt' \in Nat
    <2>1. ASSUME NEW k \in Callers, TakeToken(k) \/ FallAsleep(k)
          PROVE  tokens' \in 0 .. Capacity /\ since' \in 0 .. Capacity /\ debt' \in Nat
        BY <2>1, LevelIs, Sizes DEF TakeToken, FallAsleep, Refilled, LevelRange, TypeOK
    <2>2. CASE Tick
        <3>1. /\ since \in 0 .. Capacity /\ tokens \in 0 .. Capacity
              /\ debt \in Nat /\ Capacity \in Nat
            BY Sizes DEF TypeOK
        <3>2. since' = Least(since + 1, Capacity) /\ tokens' = tokens /\ debt' = Down(debt)
            BY <2>2 DEF Tick
        <3> QED
            BY <3>1, <3>2, DownStaysIn DEF Least
    <2>3. CASE Restart
        BY <2>3, Sizes DEF Restart, TypeOK
    <2>4. CASE UNCHANGED bucket
        BY <2>4 DEF TypeOK, bucket
    <2> QED
        BY <2>1, <2>2, <2>3, <2>4
           DEF Next, Step, Start, WakeUp, Answered, NoCapacity, Refused, TimesOut, TryAgain,
               StrayArrives, vars
<1>2. server' \in 0 .. Capacity
    <2>1. CASE Limiter!Take \/ Limiter!Tick
        BY <2>1, Sizes DEF Limiter!Take, Limiter!Tick, TypeOK
    <2>2. CASE UNCHANGED server
        BY <2>2 DEF TypeOK
    <2> QED
        BY <2>1, <2>2
           DEF Next, Step, Start, TakeToken, FallAsleep, WakeUp, Answered, NoCapacity, Refused,
               TimesOut, TryAgain, StrayArrives, Tick, Restart, vars, wire
<1>3. strays' \in Nat
    <2>1. CASE StrayArrives
        BY <2>1 DEF StrayArrives, TypeOK
    <2>2. CASE Restart
        BY <2>2, OnWireIs DEF Restart, WireCounts
    <2>3. CASE strays' = strays + 1
        BY <2>3 DEF TypeOK
    <2>4. CASE UNCHANGED strays
        BY <2>4 DEF TypeOK
    <2> QED
        BY <2>1, <2>2, <2>3, <2>4
           DEF Next, Step, Start, TakeToken, FallAsleep, WakeUp, Answered, NoCapacity, Refused,
               TimesOut, TryAgain, Tick, vars, wire
<1>4. rejected' \in Nat
    <2>1. rejected' = rejected + 1 \/ UNCHANGED rejected
        BY DEF Next, Step, Start, TakeToken, FallAsleep, WakeUp, Answered, NoCapacity, Refused,
               TimesOut, TryAgain, StrayArrives, Tick, Restart, vars, wire
    <2> QED
        BY <2>1 DEF TypeOK
<1>5. late' \in 0 .. MaxLate
    <2>1. CASE Tick
        <3>1. late \in 0 .. MaxLate /\ MaxLate \in Nat
            BY Sizes DEF TypeOK
        <3>2. /\ OnWire > 0 => late < MaxLate
              /\ late' = IF OnWire > 0 THEN late + 1 ELSE late
            BY <2>1 DEF Tick
        <3> QED
            BY <3>1, <3>2
    <2>2. CASE UNCHANGED late
        BY <2>2 DEF TypeOK
    <2> QED
        BY <2>1, <2>2
           DEF Next, Step, Start, TakeToken, FallAsleep, WakeUp, Answered, NoCapacity, Refused,
               TimesOut, TryAgain, StrayArrives, Restart, vars, wire
<1>6. restarts' \in 0 .. MaxRestarts
    <2>1. CASE Restart
        BY <2>1, Sizes DEF Restart, TypeOK
    <2>2. CASE UNCHANGED restarts
        BY <2>2 DEF TypeOK
    <2> QED
        BY <2>1, <2>2
           DEF Next, Step, Start, TakeToken, FallAsleep, WakeUp, Answered, NoCapacity, Refused,
               TimesOut, TryAgain, StrayArrives, Tick, vars
<1> QED
    BY <1>0, <1>1, <1>2, <1>3, <1>4, <1>5, <1>6 DEF TypeOK, CallsOK

\* Every variable stays in its range, for every rate, burst and number of
\* callers.
THEOREM LimitTypeCorrect == Spec => []TypeOK
<1> QED
    BY TypesInit, TypeStep, PTL DEF Spec

-----------------------------------------------------------------------------

LEMMA StepShapes ==
    ASSUME TypeOK, TypeOK', [Next]_vars
    PROVE  Quiet \/ SendsOne \/ BringsOne \/ TimePasses \/ StartsAnew
<1>0. /\ OnWire \in Nat /\ Cardinality(Sent) \in Nat /\ strays \in Nat
      /\ OnWire = Cardinality(Sent) + strays
    BY OnWireIs DEF WireCounts
<1>00. /\ OnWire' \in Nat /\ Cardinality(Sent') \in Nat /\ strays' \in Nat
       /\ OnWire' = Cardinality(Sent') + strays'
    <2>1. TypeOK' => WireCounts'
        BY OnWireIs, PTL
    <2> QED
        BY <2>1 DEF WireCounts
<1>c. call \in [Callers -> [at : Places, timer : Nat,
                            pause : Initial .. Longest, left : 0 .. Budget]]
    BY DEF TypeOK
<1>1. ASSUME NEW k \in Callers, Start(k) \/ WakeUp(k) \/ TryAgain(k) PROVE Quiet
    <2>1. \A j \in Callers \ {k} : call'[j] = call[j]
        BY <1>1, <1>c DEF Start, WakeUp, TryAgain, Goto, End
    <2>2. call[k].at # "sent" /\ call'[k].at # "sent"
        BY <1>1, <1>c DEF Start, WakeUp, TryAgain, Goto, End, Call
    <2>3. Cardinality(Sent') = Cardinality(Sent)
        BY <2>1, <2>2, OneCallMoves
    <2> QED
        BY <1>1, <2>3
           DEF Quiet, OnWire, Level, Start, WakeUp, TryAgain, bucket, wire
<1>2. ASSUME NEW k \in Callers, TakeToken(k) PROVE SendsOne
    <2>1. \A j \in Callers \ {k} : call'[j] = call[j]
        BY <1>2, <1>c DEF TakeToken, Goto
    <2>2. call[k].at # "sent" /\ call'[k].at = "sent"
        BY <1>2, <1>c DEF TakeToken, Goto
    <2>3. Cardinality(Sent') = Cardinality(Sent) + 1
        BY <2>1, <2>2, OneCallMoves
    <2>4. Level >= Cost /\ Level' = Level - Cost
        BY <1>2, LevelIs, Sizes, RefilledIs DEF TakeToken, LevelRange
    <2>5. UNCHANGED <<strays, server, rejected, late, restarts>>
        BY <1>2 DEF TakeToken, wire
    <2>6. OnWire' = OnWire + 1
        BY <1>0, <1>00, <2>3, <2>5
    <2>7. debt' = debt + Cost
        BY <1>2 DEF TakeToken
    <2> QED
        BY <2>4, <2>5, <2>6, <2>7 DEF SendsOne
<1>3. ASSUME NEW k \in Callers, FallAsleep(k) PROVE Quiet
    <2>1. \A j \in Callers \ {k} : call'[j] = call[j]
        BY <1>3, <1>c DEF FallAsleep, Wait
    <2>2. call[k].at # "sent" /\ call'[k].at # "sent"
        BY <1>3, <1>c DEF FallAsleep, Wait
    <2>3. Cardinality(Sent') = Cardinality(Sent)
        BY <2>1, <2>2, OneCallMoves
    <2>4. Level' = Level
        BY <1>3, LevelIs, Sizes, RefilledIs DEF FallAsleep, LevelRange
    <2>5. UNCHANGED <<debt, strays, server, rejected, late, restarts>>
        BY <1>3 DEF FallAsleep, wire
    <2>6. OnWire' = OnWire
        BY <2>3, <2>5 DEF OnWire
    <2> QED
        BY <2>4, <2>5, <2>6 DEF Quiet
<1>4. ASSUME NEW k \in Callers, Answered(k) \/ NoCapacity(k) \/ Refused(k) PROVE BringsOne
    <2>1. \A j \in Callers \ {k} : call'[j] = call[j]
        BY <1>4, <1>c DEF Answered, NoCapacity, Refused, End, Wait
    <2>2. call[k].at = "sent" /\ call'[k].at # "sent"
        BY <1>4, <1>c DEF Answered, NoCapacity, Refused, End, Wait, Call
    <2>3. Cardinality(Sent) = Cardinality(Sent') + 1
        BY <2>1, <2>2, OneCallMoves
    <2>4. UNCHANGED <<bucket, strays, late, restarts>>
        BY <1>4 DEF Answered, NoCapacity, Refused
    <2>5. OnWire = OnWire' + 1
        BY <1>0, <1>00, <2>3, <2>4
    <2>6. Level' = Level
        BY <2>4 DEF Level, bucket
    <2>7. \/ Limiter!Take /\ UNCHANGED rejected
          \/ server < Cost /\ rejected' = rejected + 1 /\ UNCHANGED server
        BY <1>4 DEF Answered, NoCapacity, Refused
    <2> QED
        BY <2>4, <2>5, <2>6, <2>7 DEF BringsOne, bucket
<1>5. ASSUME NEW k \in Callers, TimesOut(k) PROVE Quiet
    <2>1. \A j \in Callers \ {k} : call'[j] = call[j]
        BY <1>5, <1>c DEF TimesOut, End
    <2>2. call[k].at = "sent" /\ call'[k].at # "sent"
        BY <1>5, <1>c DEF TimesOut, End, Call
    <2>3. Cardinality(Sent) = Cardinality(Sent') + 1
        BY <2>1, <2>2, OneCallMoves
    <2>4. UNCHANGED <<bucket, server, rejected, late, restarts>> /\ strays' = strays + 1
        BY <1>5 DEF TimesOut
    <2>5. OnWire' = OnWire
        BY <1>0, <1>00, <2>3, <2>4
    <2>6. Level' = Level
        BY <2>4 DEF Level, bucket
    <2> QED
        BY <2>4, <2>5, <2>6 DEF Quiet, bucket
<1>6. CASE StrayArrives
    <2>1. Sent' = Sent /\ strays > 0 /\ strays' = strays - 1
        BY <1>6 DEF StrayArrives, Sent
    <2>2. OnWire = OnWire' + 1
        BY <1>0, <1>00, <2>1
    <2>3. Level' = Level
        BY <1>6 DEF StrayArrives, Level, bucket
    <2> QED
        BY <1>6, <2>2, <2>3 DEF StrayArrives, BringsOne, bucket
<1>7. CASE Tick
    <2>1. \A k \in Callers : call'[k].at = call[k].at
        BY <1>7, <1>c DEF Tick
    <2>2. Sent' = Sent
        BY <2>1 DEF Sent
    <2>3. OnWire' = OnWire
        BY <1>7, <2>2 DEF OnWire, Tick
    <2>4. tokens' = tokens /\ since' = Least(since + 1, Capacity)
        BY <1>7 DEF Tick
    <2>5. Level' = Least(Capacity, Level + 1)
        <3>1. tokens \in 0 .. Capacity /\ since \in 0 .. Capacity /\ Capacity \in Nat
            BY Sizes DEF TypeOK
        <3> QED
            BY <2>4, <3>1, Sizes DEF Level, Least
    <2> QED
        BY <1>7, <2>3, <2>5 DEF Tick, TimePasses
<1>8. CASE Restart
    <2>1. \A k \in Callers : call'[k].at # "sent"
        BY <1>8, <1>c DEF Restart, InProgress, Call
    <2>2. Sent' = {}
        BY <2>1 DEF Sent
    <2>3. Cardinality(Sent') = 0
        BY <2>2, FS_EmptySet
    <2>4. strays' = OnWire /\ tokens' = Capacity /\ since' = 0
        BY <1>8 DEF Restart
    <2>5. OnWire' = OnWire
        BY <1>0, <1>00, <2>3, <2>4
    <2>6. Level' = Capacity
        BY <2>4, Sizes DEF Level, Least
    <2> QED
        BY <1>8, <2>5, <2>6 DEF Restart, StartsAnew
<1>9. CASE UNCHANGED vars
    BY <1>9 DEF Quiet, vars, wire, bucket, Level, OnWire, Sent
<1> QED
    BY <1>1, <1>2, <1>3, <1>4, <1>5, <1>6, <1>7, <1>8, <1>9 DEF Next, Step

-----------------------------------------------------------------------------
(* The bucket that is brought up to date when somebody asks.                *)

LEMMA OneBurstInit == Init => OneBurst
BY Sizes DEF Init, OneBurst, Level, Least

LEMMA OneBurstStep ==
    ASSUME TypeOK, TypeOK', [Next]_vars, OneBurst
    PROVE  OneBurst'
<1> DEFINE allowed == (1 + restarts) * Capacity
<1>0. /\ Level \in Nat /\ Level <= Capacity /\ Capacity \in Nat
      /\ Cost \in Nat /\ debt \in Nat /\ restarts \in Nat
    BY LevelIs, Sizes DEF TypeOK, LevelRange
<1>1. allowed \in Nat /\ (1 + restarts + 1) * Capacity = allowed + Capacity
    BY <1>0, OneMore
<1>2. Capacity <= Level + debt /\ Level + debt <= allowed
    BY DEF OneBurst
<1>3. CASE restarts' = restarts
    <2>1. (1 + restarts') * Capacity = allowed
        BY <1>3
    <2> HIDE DEF allowed
    <2>2. Capacity <= Level' + debt' /\ Level' + debt' <= allowed
        <3>1. CASE Quiet \/ BringsOne
            BY <1>2, <3>1 DEF Quiet, BringsOne
        <3>2. CASE SendsOne
            BY <1>0, <1>1, <1>2, <3>2 DEF SendsOne
        <3>3. CASE TimePasses
            BY <1>0, <1>1, <1>2, <3>3 DEF TimePasses, Least, Down
        <3>4. CASE StartsAnew
            BY <1>0, <1>3, <3>4 DEF StartsAnew
        <3> QED
            BY <3>1, <3>2, <3>3, <3>4, StepShapes
    <2> QED
        BY <2>1, <2>2 DEF OneBurst
<1>4. CASE StartsAnew
    <2>1. restarts' = restarts + 1 /\ Level' = Capacity /\ debt' = debt
        BY <1>4 DEF StartsAnew
    <2>2. (1 + restarts') * Capacity = allowed + Capacity
        BY <1>0, <1>1, <2>1
    <2> HIDE DEF allowed
    <2>3. Capacity <= Level' + debt' /\ Level' + debt' <= allowed + Capacity
        BY <1>0, <1>1, <1>2, <2>1
    <2> QED
        BY <2>2, <2>3 DEF OneBurst
<1> QED
    BY <1>3, <1>4, StepShapes DEF Quiet, SendsOne, BringsOne, TimePasses

\* In no stretch of time, of whatever length, are more creates sent than burst
\* plus rate times time, and one more burst for each new process; and what was
\* not sent can still be.
THEOREM LimiterKeepsTheRate == Spec => []KeepsTheRate
<1>1. TypeOK /\ TypeOK' /\ [Next]_vars /\ OneBurst => OneBurst'
    BY OneBurstStep
<1>2. TypeOK /\ OneBurst => KeepsTheRate
    <2> SUFFICES ASSUME TypeOK, OneBurst PROVE KeepsTheRate
        OBVIOUS
    <2>1. Level \in Nat /\ debt \in Nat /\ restarts \in Nat /\ Capacity \in Nat
        BY LevelIs, Sizes DEF TypeOK, LevelRange
    <2>2. (1 + restarts) * Capacity \in Nat
        BY <2>1, OneMore
    <2> QED
        BY <2>1, <2>2 DEF OneBurst, KeepsTheRate
<1> QED
    BY <1>1, <1>2, OneBurstInit, LimitTypeCorrect, PTL DEF Spec

-----------------------------------------------------------------------------
(* The account of the 429s.                                                 *)

LEMMA AccountInit == Init => Account
<1> SUFFICES ASSUME Init PROVE Account
    OBVIOUS
<1>1. Sent = {}
    BY DEF Init, Sent, Call
<1>2. OnWire = 0
    BY <1>1, FS_EmptySet DEF Init, OnWire
<1>3. Level = Capacity
    BY Sizes DEF Init, Level, Least
<1> QED
    BY <1>2, <1>3, Sizes DEF Init, Account, Covered, RefusalsAreExplained

LEMMA AccountStep ==
    ASSUME TypeOK, TypeOK', [Next]_vars, Account
    PROVE  Account'
<1> DEFINE free == restarts * Capacity
           carried == OnWire * Cost
<1>0. /\ Level \in Nat /\ Level <= Capacity /\ OnWire \in Nat /\ OnWire' \in Nat
      /\ server \in Nat /\ server <= Capacity /\ rejected \in Nat /\ late \in Nat
      /\ restarts \in Nat /\ Capacity \in Nat /\ Cost \in Nat /\ Cost > 0
    <2>1. TypeOK' => WireCounts'
        BY OnWireIs, PTL
    <2> QED
        BY <2>1, LevelIs, OnWireIs, Sizes DEF TypeOK, WireCounts, LevelRange
<1>1. free \in Nat /\ carried \in Nat
    BY <1>0, OneMore
<1>2. rejected <= late + free /\ Level + carried + rejected <= server + late + free
    BY DEF Account, Covered, RefusalsAreExplained
<1>3. CASE Quiet
    BY <1>3, <1>2 DEF Quiet, Account, Covered, RefusalsAreExplained
<1>4. CASE SendsOne
    <2>1. OnWire' * Cost = carried + Cost
        BY <1>0, <1>4, OneMore DEF SendsOne
    <2>2. restarts' * Capacity = free
        BY <1>4 DEF SendsOne
    <2> HIDE DEF free, carried
    <2> QED
        BY <1>0, <1>1, <1>2, <1>4, <2>1, <2>2
           DEF SendsOne, Account, Covered, RefusalsAreExplained
<1>5. CASE BringsOne
    <2>1. carried = OnWire' * Cost + Cost /\ OnWire' * Cost \in Nat
        BY <1>0, <1>5, OneMore DEF BringsOne
    <2>2. restarts' * Capacity = free
        BY <1>5 DEF BringsOne
    <2> DEFINE carried1 == OnWire' * Cost
    <2>3. carried1 \in Nat /\ carried = carried1 + Cost
        BY <2>1
    <2> HIDE DEF free, carried, carried1
    <2>4. /\ Level + carried1 + rejected' <= server' + late + free
          /\ rejected' <= late + free
        <3>1. CASE Limiter!Take /\ UNCHANGED rejected
            BY <1>0, <1>1, <1>2, <2>3, <3>1 DEF Limiter!Take
        <3>2. CASE server < Cost /\ rejected' = rejected + 1 /\ UNCHANGED server
            BY <1>0, <1>1, <1>2, <2>3, <3>2
        <3>3. CASE UNCHANGED <<server, rejected>>
            BY <1>0, <1>1, <1>2, <2>3, <3>3
        <3> QED
            BY <1>5, <3>1, <3>2, <3>3 DEF BringsOne
    <2>5. Level' = Level /\ late' = late
        BY <1>5 DEF BringsOne
    <2> QED
        BY <2>2, <2>4, <2>5 DEF Account, Covered, RefusalsAreExplained, carried1
<1>6. CASE TimePasses
    <2>1. OnWire' * Cost = carried /\ restarts' * Capacity = free
        BY <1>6 DEF TimePasses
    <2>2. OnWire = 0 => carried = 0
        BY <1>0
    <2> HIDE DEF free, carried
    <2> QED
        BY <1>0, <1>1, <1>2, <1>6, <2>1, <2>2
           DEF TimePasses, Least, Limiter!Tick, Account, Covered, RefusalsAreExplained
<1>7. CASE StartsAnew
    <2>1. restarts' * Capacity = free + Capacity
        BY <1>0, <1>7, OneMore DEF StartsAnew
    <2>2. OnWire' * Cost = carried
        BY <1>7 DEF StartsAnew
    <2> HIDE DEF free, carried
    <2> QED
        BY <1>0, <1>1, <1>2, <1>7, <2>1, <2>2
           DEF StartsAnew, Account, Covered, RefusalsAreExplained
<1> QED
    BY <1>3, <1>4, <1>5, <1>6, <1>7, StepShapes

\* Every 429 is accounted for by a tick of delay on the wire or by a unit of
\* the full bucket a new process starts with, however the calls interleave.
THEOREM RefusalsExplained == Spec => []RefusalsAreExplained
<1>1. TypeOK /\ TypeOK' /\ [Next]_vars /\ Account => Account'
    BY AccountStep
<1>2. Account => RefusalsAreExplained
    BY DEF Account
<1> QED
    BY <1>1, <1>2, AccountInit, LimitTypeCorrect, PTL DEF Spec

-----------------------------------------------------------------------------
(* Nobody oversleeps.                                                       *)

LEMMA SleepersStep ==
    ASSUME TypeOK, TypeOK', [Next]_vars, NobodyOversleeps
    PROVE  NobodyOversleeps'
<1> SUFFICES ASSUME NEW k \in Callers, call'[k].at = "asleep", call'[k].timer > 0
             PROVE  Level' + call'[k].timer <= Cost
    BY DEF NobodyOversleeps
<1>0. /\ Level \in Nat /\ Level <= Capacity /\ Capacity \in Nat /\ Cost \in Nat /\ Cost > 0
      /\ call[k].timer \in Nat
    BY LevelIs, Sizes DEF TypeOK, LevelRange
<1>c. call \in [Callers -> [at : Places, timer : Nat,
                            pause : Initial .. Longest, left : 0 .. Budget]]
    BY DEF TypeOK
<1>1. CASE Tick
    <2>1. call[k].at = "asleep" /\ call[k].timer > 0 /\ call'[k].timer = call[k].timer - 1
        <3>1. call'[k] = IF InProgress(call[k])
                         THEN [call[k] EXCEPT !.timer = Down(@), !.left = Down(@)]
                         ELSE call[k]
            BY <1>1 DEF Tick
        <3>2. /\ call'[k].at = call[k].at
              /\ call'[k].timer = IF InProgress(call[k]) THEN Down(call[k].timer)
                                  ELSE call[k].timer
            BY <1>c, <3>1
        <3>3. call[k].at = "asleep" /\ call'[k].timer = Down(call[k].timer)
            BY <3>2 DEF InProgress
        <3> QED
            BY <1>0, <3>3 DEF Down
    <2>2. Level' = Least(Capacity, Level + 1)
        <3>1. tokens \in 0 .. Capacity /\ since \in 0 .. Capacity
            BY DEF TypeOK
        <3>2. tokens' = tokens /\ since' = Least(since + 1, Capacity)
            BY <1>1 DEF Tick
        <3> QED
            BY <1>0, <3>1, <3>2 DEF Level, Least
    <2>3. Level + call[k].timer <= Cost
        BY <2>1 DEF NobodyOversleeps
    <2> QED
        BY <1>0, <2>1, <2>2, <2>3 DEF Least
<1>2. CASE Restart
    BY <1>2, <1>c DEF Restart, InProgress, Call
<1>3. ASSUME NEW j \in Callers, TakeToken(j) PROVE Level' <= Level
    BY <1>0, <1>3, RefilledIs DEF TakeToken
<1>4. ASSUME NEW j \in Callers, FallAsleep(j) PROVE Level' = Level
    BY <1>0, <1>4, RefilledIs DEF FallAsleep
<1>5. ASSUME UNCHANGED bucket PROVE Level' = Level
    BY <1>5 DEF bucket, Level
<1>6. CASE FallAsleep(k)
    <2>1. call'[k].timer = Cost - Level
        BY <1>6, <1>c DEF FallAsleep, Wait, WaitFor
    <2> QED
        BY <1>0, <1>4, <1>6, <2>1
<1>7. CASE ~Tick /\ ~Restart /\ ~FallAsleep(k)
    <2>1. call'[k] = call[k]
        <3>1. ASSUME NEW j \in Callers \ {k}, Start(j) \/ Step(j)
              PROVE  call'[k] = call[k]
            BY <1>c, <3>1
               DEF Step, Start, TakeToken, FallAsleep, WakeUp, Answered, NoCapacity, Refused,
                   TimesOut, TryAgain, Goto, Wait, End
        <3>2. ASSUME Start(k) \/ Step(k) PROVE FALSE
            <4>1. CASE Start(k) \/ TakeToken(k) \/ WakeUp(k)
                BY <1>c, <4>1 DEF Start, TakeToken, WakeUp, Goto
            <4>2. CASE Answered(k) \/ NoCapacity(k) \/ Refused(k) \/ TimesOut(k)
                BY <1>c, <4>2 DEF Answered, NoCapacity, Refused, TimesOut, Wait, End, Call
            <4>3. CASE TryAgain(k)
                BY <1>c, <4>3 DEF TryAgain, Goto, End, Call
            <4> QED
                BY <1>7, <3>2, <4>1, <4>2, <4>3 DEF Step
        <3>3. CASE StrayArrives \/ UNCHANGED vars
            BY <3>3 DEF StrayArrives, vars
        <3> QED
            BY <1>7, <3>1, <3>2, <3>3 DEF Next
    <2>2. Level' <= Level
        <3>1. \/ \E j \in Callers : TakeToken(j) \/ FallAsleep(j)
              \/ UNCHANGED bucket
            BY <1>7
               DEF Next, Step, Start, WakeUp, Answered, NoCapacity, Refused, TimesOut, TryAgain,
                   StrayArrives, vars
        <3> QED
            BY <1>0, <1>3, <1>4, <1>5, <3>1
    <2>3. Level + call[k].timer <= Cost
        BY <2>1 DEF NobodyOversleeps
    <2>4. Level' \in Nat
        <3>1. LevelRange'
            BY LevelIs, PTL
        <3> QED
            BY <3>1 DEF LevelRange
    <2> QED
        BY <1>0, <2>1, <2>2, <2>3, <2>4
<1> QED
    BY <1>1, <1>2, <1>6, <1>7

\* A call never sleeps on while there is a token for it, whoever took the
\* token it was waiting for and however many calls sleep.
THEOREM NobodySleepsOn == Spec => []NobodyOversleeps
<1>1. Init => NobodyOversleeps
    BY DEF Init, Call, NobodyOversleeps
<1>2. TypeOK /\ TypeOK' /\ [Next]_vars /\ NobodyOversleeps => NobodyOversleeps'
    BY SleepersStep
<1> QED
    BY <1>1, <1>2, LimitTypeCorrect, PTL DEF Spec
=============================================================================
