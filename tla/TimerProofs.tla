----------------------------- MODULE TimerProofs ----------------------------
(***************************************************************************)
(* Theorems about Timer for every number of timers, every set of periods   *)
(* and every size of the counters.                                         *)
(***************************************************************************)
EXTENDS Timer, TLAPS

USE SizesAssumption, PeriodsAssumption, OpsAssumption

Period == Periods \cup {0}

LEMMA PeriodBounds == \A p \in Period : p \in Nat /\ p <= MaxAge /\ p < TickMod
BY DEF Period

\* What a client starts keeps its type and is in use.
LEMMA StartedTyped ==
  ASSUME TypeOK, NEW info \in TimerInfo, NEW p \in Periods
  PROVE  /\ Started(info, p) \in TimerInfo
         /\ Started(info, p).state = IF p = 0 THEN "STOPPED" ELSE "RUNNING"
         /\ Started(info, p).callBackType = info.callBackType
         /\ p # 0 => Started(info, p).start_time = timer_tick_counter
BY DEF TypeOK, Started, TimerInfo

\* Starting a timer anew, or changing it in use, keeps the ages typed.
LEMMA AgedTyped ==
  ASSUME TypeOK, NEW t \in Timers, NEW p \in Periods, Aged(t, p)
  PROVE  /\ age' \in [Timers -> 0 .. MaxAge]
         /\ \A u \in Timers : u # t => age'[u] = age[u]
         /\ p # 0 => age'[t] = 0
BY DEF TypeOK, Aged

\* The inductive invariant of the types: held timers are in use.
Held == TypeOK /\ HeldInUse

\* What a call makes of the list, the ages and the timers held.
CallOutcome(t, info) ==
  /\ timerList' = [timerList EXCEPT ![t] = info]
  /\ age' \in [Timers -> 0 .. MaxAge]
  /\ \A u \in Timers : u # t => age'[u] = age[u]
  /\ held' \subseteq held \cup {t}
  /\ info.state = "UNUSED" => t \notin held'
  /\ info.state \in {timerList[t].state, "UNUSED", "STOPPED", "RUNNING"}
  /\ info.state = "RUNNING" =>
       \/ info.start_time = timer_tick_counter /\ age'[t] = 0
       \/ /\ timerList[t].state = "RUNNING" /\ age'[t] = age[t]
          /\ info.start_time = timerList[t].start_time
          /\ info.callBackType = timerList[t].callBackType

\* What a call does to the table: one slot changes, or none.
LEMMA Outcome ==
  ASSUME Held, NEW op \in Ops, Call(op), op = "release_self" => next \in Timers
  PROVE  \E t \in Timers, info \in TimerInfo : CallOutcome(t, info)
<1>a. TypeOK /\ HeldInUse
  BY DEF Held
<1>1. ASSUME NEW p \in Periods, timer_registerTimer(p)
      PROVE  \E t \in Timers, info \in TimerInfo : CallOutcome(t, info)
  <2>1. PICK t \in Timers :
          /\ timerList' = [timerList EXCEPT ![t] =
               [Started(timerList[t], p) EXCEPT !.callBackFunction = FALSE]]
          /\ Aged(t, p) /\ held' = held \cup {t}
    BY <1>1 DEF timer_registerTimer
  <2> DEFINE started == Started(timerList[t], p)
             info == [started EXCEPT !.callBackFunction = FALSE]
  <2>2. /\ info \in TimerInfo /\ info.state \in {"STOPPED", "RUNNING"}
        /\ info.state = "RUNNING" => p # 0 /\ info.start_time = timer_tick_counter
    <3>1. /\ started \in TimerInfo /\ started.state \in {"STOPPED", "RUNNING"}
          /\ started.state = "RUNNING" => p # 0 /\ started.start_time = timer_tick_counter
      BY <1>a, StartedTyped DEF TypeOK
    <3> HIDE DEF started
    <3> QED
      BY <3>1 DEF TimerInfo
  <2> HIDE DEF info
  <2>3. CallOutcome(t, info)
    BY <1>a, <2>1, <2>2, AgedTyped DEF CallOutcome, info
  <2> QED
    BY <2>2, <2>3
<1>2. ASSUME NEW p \in Periods, NEW type \in {"POLL", "INTERRUPT"}, timer_registerTimer_cb(p, type)
      PROVE  \E t \in Timers, info \in TimerInfo : CallOutcome(t, info)
  <2>1. PICK t \in Timers :
          /\ timerList' = [timerList EXCEPT ![t] =
               [Started(timerList[t], p) EXCEPT !.callBackFunction = TRUE,
                                                !.callBackType = type]]
          /\ Aged(t, p) /\ held' = held \cup {t}
    BY <1>2 DEF timer_registerTimer_cb
  <2> DEFINE started == Started(timerList[t], p)
             info == [started EXCEPT !.callBackFunction = TRUE, !.callBackType = type]
  <2>2. /\ info \in TimerInfo /\ info.state \in {"STOPPED", "RUNNING"}
        /\ info.state = "RUNNING" => p # 0 /\ info.start_time = timer_tick_counter
    <3>1. /\ started \in TimerInfo /\ started.state \in {"STOPPED", "RUNNING"}
          /\ started.state = "RUNNING" => p # 0 /\ started.start_time = timer_tick_counter
      BY <1>a, StartedTyped DEF TypeOK
    <3> HIDE DEF started
    <3> QED
      BY <3>1 DEF TimerInfo
  <2> HIDE DEF info
  <2>3. CallOutcome(t, info)
    BY <1>a, <2>1, <2>2, AgedTyped DEF CallOutcome, info
  <2> QED
    BY <2>2, <2>3
<1>3. ASSUME NEW t \in Timers, NEW p \in Periods, timer_start(t, p)
      PROVE  \E u \in Timers, info \in TimerInfo : CallOutcome(u, info)
  <2> DEFINE info == Started(timerList[t], p)
  <2>1. /\ info \in TimerInfo /\ info.state \in {"STOPPED", "RUNNING"}
        /\ info.state = "RUNNING" => p # 0 /\ info.start_time = timer_tick_counter
    BY <1>a, StartedTyped DEF TypeOK
  <2>2. timerList' = [timerList EXCEPT ![t] = info] /\ Aged(t, p) /\ held' = held
    BY <1>3 DEF timer_start
  <2> HIDE DEF info
  <2>3. CallOutcome(t, info)
    BY <1>a, <2>1, <2>2, AgedTyped DEF CallOutcome
  <2> QED
    BY <2>1, <2>3
<1>4. ASSUME NEW t \in Timers, NEW p \in Periods, timer_setPeriod(t, p)
      PROVE  \E u \in Timers, info \in TimerInfo : CallOutcome(u, info)
  <2> DEFINE info == [timerList[t] EXCEPT !.period_ms = p]
  <2>1. /\ info \in TimerInfo /\ info.state = timerList[t].state
        /\ info.start_time = timerList[t].start_time /\ info.callBackType = timerList[t].callBackType
    BY <1>a DEF TypeOK, TimerInfo
  <2>2. timerList' = [timerList EXCEPT ![t] = info] /\ UNCHANGED <<age, held>>
    BY <1>4 DEF timer_setPeriod
  <2> HIDE DEF info
  <2>3. CallOutcome(t, info)
    BY <1>a, <1>4, <2>1, <2>2 DEF CallOutcome, TypeOK, HeldInUse
  <2> QED
    BY <2>1, <2>3
<1>5. ASSUME NEW t \in Timers, timer_release(t)
      PROVE  \E u \in Timers, info \in TimerInfo : CallOutcome(u, info)
  <2> DEFINE info == [timerList[t] EXCEPT !.state = "UNUSED"]
  <2>1. info \in TimerInfo /\ info.state = "UNUSED"
    BY <1>a DEF TypeOK, TimerInfo
  <2>2. timerList' = [timerList EXCEPT ![t] = info] /\ age' = age /\ held' = held \ {t}
    BY <1>5 DEF timer_release
  <2> HIDE DEF info
  <2>3. CallOutcome(t, info)
    BY <1>a, <2>1, <2>2 DEF CallOutcome, TypeOK
  <2> QED
    BY <2>1, <2>3
<1> QED
  BY <1>1, <1>2, <1>3, <1>4, <1>5 DEF Call, Ops

\* Every call a client makes, in a callback or outside, keeps the invariant.
LEMMA CallStep ==
  ASSUME Held, NEW op \in Ops, Call(op), op = "release_self" => next \in Timers,
         UNCHANGED <<timer_tick_counter, uptime, running>>
  PROVE  Held'
<1>1. PICK t \in Timers, info \in TimerInfo : CallOutcome(t, info)
  BY Outcome
<1>2. timerList \in [Timers -> TimerInfo] /\ held \subseteq Timers
  BY DEF Held, TypeOK
<1>3. timerList' \in [Timers -> TimerInfo]
  BY <1>1, <1>2 DEF CallOutcome
<1>4. TypeOK'
  BY <1>1, <1>2, <1>3 DEF Held, TypeOK, CallOutcome, uptime, running
<1>5. HeldInUse'
  BY <1>1, <1>2 DEF Held, HeldInUse, CallOutcome
<1> QED
  BY <1>4, <1>5 DEF Held

LEMMA HeldInit == Init => Held
BY DEF Init, Held, TypeOK, HeldInUse, TimerInfo, Timers, Tick

\* So does a tick of the hardware timer.
LEMMA TickStep == Held /\ timer_interruptHandler => Held'
<1> SUFFICES ASSUME Held, timer_interruptHandler PROVE Held'
  OBVIOUS
<1>1. TypeOK /\ HeldInUse
  BY DEF Held
<1>2. UNCHANGED <<timerList, oldTime, pc, next, held>>
  BY DEF timer_interruptHandler, running
<1>3. /\ timer_tick_counter' \in Tick
      /\ uptime_counter_ms' \in 0 .. MsPerSecond - 1
      /\ uptime_counter_seconds' \in 0 .. SecondsMod - 1
  <2>1. /\ timer_tick_counter \in 0 .. TickMod - 1
        /\ uptime_counter_ms \in 0 .. MsPerSecond - 1
        /\ uptime_counter_seconds \in 0 .. SecondsMod - 1
    BY <1>1 DEF TypeOK, Tick
  <2>2. /\ Wrapped(timer_tick_counter + 1, TickMod) \in 0 .. TickMod - 1
        /\ Wrapped(uptime_counter_ms + 1, MsPerSecond) \in 0 .. MsPerSecond - 1
        /\ Wrapped(uptime_counter_seconds + 1, SecondsMod) \in 0 .. SecondsMod - 1
    BY <2>1 DEF Wrapped
  <2> QED
    BY <2>1, <2>2 DEF timer_interruptHandler, Tick
<1>4. age' \in [Timers -> 0 .. MaxAge]
  BY <1>1 DEF TypeOK, timer_interruptHandler
<1>5. TypeOK'
  BY <1>1, <1>2, <1>3, <1>4 DEF TypeOK
<1> QED
  BY <1>1, <1>2, <1>5 DEF Held, HeldInUse

\* So does every step of timer_run.
LEMMA RunStep == Held /\ timer_run => Held'
<1> SUFFICES ASSUME Held, timer_run PROVE Held'
  OBVIOUS
<1>1. TypeOK /\ HeldInUse
  BY DEF Held
<1>2. CASE RunStart
  BY <1>1, <1>2 DEF RunStart, Held, HeldInUse, TypeOK, uptime
<1>3. CASE Expire
  <2> DEFINE info == [timerList[next] EXCEPT !.state = "EXPIRED"]
  <2>1. info \in TimerInfo /\ info.state = "EXPIRED"
    BY <1>1, <1>3 DEF TypeOK, TimerInfo, Expire
  <2>2. timerList' = [timerList EXCEPT ![next] = info] /\ next \in Timers
    BY <1>3 DEF Expire
  <2> HIDE DEF info
  <2>3. timerList' \in [Timers -> TimerInfo] /\ HeldInUse'
    BY <1>1, <1>3, <2>1, <2>2 DEF TypeOK, Expire, HeldInUse
  <2>4. /\ pc' \in {"scan", "callback"} /\ next' \in 0 .. MaxTimers
        /\ pc' = "callback" => next' \in Timers
    BY <1>1, <1>3 DEF Expire, TypeOK, Timers
  <2>5. TypeOK'
    BY <1>1, <1>3, <2>3, <2>4 DEF Expire, TypeOK, uptime
  <2> QED
    BY <2>3, <2>5 DEF Held
<1>4. CASE PassOver
  BY <1>1, <1>4 DEF PassOver, Held, HeldInUse, TypeOK, uptime, Timers
<1>5. CASE CallbackRestarts
  <2> DEFINE due == Wrapped(timerList[next].start_time + timerList[next].period_ms, TickMod)
             info == [timerList[next] EXCEPT !.state = "RUNNING", !.start_time = due]
  <2>1. next \in Timers /\ timerList[next] \in TimerInfo
    BY <1>1, <1>5 DEF TypeOK, CallbackRestarts
  <2>2. /\ timerList[next].start_time \in 0 .. TickMod - 1
        /\ timerList[next].period_ms \in 0 .. TickMod
    <3>1. timerList[next].start_time \in Tick /\ timerList[next].period_ms \in Period
      BY <2>1 DEF TimerInfo, Period
    <3> QED
      BY <3>1, PeriodBounds DEF Tick
  <2>3. due \in Tick
    BY <2>2 DEF Tick, Wrapped
  <2> HIDE DEF due
  <2>4. info \in TimerInfo /\ info.state = "RUNNING"
    BY <2>1, <2>3 DEF TimerInfo
  <2>5. timerList' = [timerList EXCEPT ![next] = info]
    BY <1>5 DEF CallbackRestarts, due
  <2> HIDE DEF info
  <2>6. timerList' \in [Timers -> TimerInfo] /\ HeldInUse'
    BY <1>1, <1>5, <2>1, <2>4, <2>5 DEF TypeOK, CallbackRestarts, HeldInUse
  <2>7. age' \in [Timers -> 0 .. MaxAge]
    BY <1>1, <1>5, <2>1, <2>2 DEF CallbackRestarts, TypeOK
  <2>8. pc' = "scan" /\ next' \in 0 .. MaxTimers
    BY <1>1, <1>5, <2>1 DEF CallbackRestarts, Timers
  <2>9. TypeOK'
    BY <1>1, <1>5, <2>6, <2>7, <2>8 DEF CallbackRestarts, TypeOK, uptime
  <2> QED
    BY <2>6, <2>9 DEF Held
<1>6. CASE CallbackEnds
  BY <1>1, <1>6 DEF CallbackEnds, Held, HeldInUse, TypeOK, uptime, Timers
<1>7. CASE RunEnd
  BY <1>1, <1>7 DEF RunEnd, Held, HeldInUse, TypeOK, uptime
<1> QED
  BY <1>2, <1>3, <1>4, <1>5, <1>6, <1>7 DEF timer_run

\* The inductive invariant holds throughout (timer.c:83-273).
THEOREM HeldInvariant == Spec => []Held
<1>1. Held /\ [Next]_vars => Held'
  <2> SUFFICES ASSUME Held, [Next]_vars PROVE Held'
    OBVIOUS
  <2>1. CASE AppCall
    BY <2>1, CallStep DEF AppCall
  <2>2. CASE CallbackCall
    <3>1. next \in Timers
      BY <2>2 DEF CallbackCall, Held, TypeOK
    <3> QED
      BY <2>2, <3>1, CallStep DEF CallbackCall
  <2>3. CASE UNCHANGED vars
    BY <2>3 DEF vars, uptime, running, Held, TypeOK, HeldInUse
  <2> QED
    BY <2>1, <2>2, <2>3, TickStep, RunStep DEF Next
<1> QED
  BY <1>1, HeldInit, PTL DEF Spec

\* Every timer and counter keeps its type, whatever clients ask for.
THEOREM TypeCorrect == Spec => []TypeOK
<1>1. Held => TypeOK
  BY DEF Held
<1> QED
  BY <1>1, HeldInvariant, PTL

\* No timer that a client holds is handed out again (timer.c:117-204).
THEOREM HeldNeverReused == Spec => []HeldInUse
<1>1. Held => HeldInUse
  BY DEF Held
<1> QED
  BY <1>1, HeldInvariant, PTL
-----------------------------------------------------------------------------
(* The two clocks.                                                         *)

\* Arithmetic of the two wrapping counters.
LEMMA Remainder ==
  ASSUME NEW m \in Nat \ {0}, NEW q \in Nat, NEW r \in 0 .. m - 1
  PROVE  ((q * m) + r) % m = r
BY SMT

LEMMA ModSucc ==
  ASSUME NEW m \in Nat \ {0}, NEW x \in Nat
  PROVE  (x + 1) % m = Wrapped((x % m) + 1, m)
<1>1. x % m \in 0 .. m - 1
  BY SMT
<1>2. x = ((x \div m) * m) + (x % m) /\ x \div m \in Nat
  BY SMT
<1> DEFINE q == x \div m
           r == x % m
<1>3. CASE r + 1 = m
  <2>1. x + 1 = ((q + 1) * m) + 0
    BY <1>1, <1>2, <1>3, SMT
  <2>2. (((q + 1) * m) + 0) % m = 0
    BY <1>2, Remainder
  <2> QED
    BY <1>3, <2>1, <2>2 DEF Wrapped
<1>4. CASE r + 1 # m
  <2>1. x + 1 = (q * m) + (r + 1) /\ r + 1 \in 0 .. m - 1
    BY <1>1, <1>2, <1>4, SMT
  <2>2. ((q * m) + (r + 1)) % m = r + 1
    BY <1>2, <2>1, Remainder
  <2> QED
    BY <1>1, <1>4, <2>1, <2>2 DEF Wrapped
<1> QED
  BY <1>3, <1>4

LEMMA ModZero == ASSUME NEW m \in Nat \ {0} PROVE 0 % m = 0
BY SMT

\* A tick moves both clocks alike; no other step moves either.
LEMMA UptimeStep == TypeOK /\ UptimeAgrees /\ [Next]_vars => UptimeAgrees'
<1> SUFFICES ASSUME TypeOK, UptimeAgrees, [Next]_vars PROVE UptimeAgrees'
  OBVIOUS
<1> DEFINE ms == uptime_counter_ms
           s == uptime_counter_seconds
           x == (s * MsPerSecond) + ms
<1>1. CASE timer_interruptHandler
  <2>1. ms \in 0 .. MsPerSecond - 1 /\ s \in 0 .. SecondsMod - 1 /\ timer_tick_counter \in Tick
    BY DEF TypeOK
  <2>2. s * MsPerSecond \in Nat /\ x \in Nat
    BY <2>1, SMT
  <2>3. x % TickMod = timer_tick_counter
    BY DEF UptimeAgrees
  <2>4. timer_tick_counter' = (x + 1) % TickMod
    <3>1. timer_tick_counter' = Wrapped(timer_tick_counter + 1, TickMod)
      BY <1>1 DEF timer_interruptHandler
    <3> HIDE DEF x
    <3> QED
      BY <2>2, <2>3, <3>1, ModSucc
  <2>5. CASE ms + 1 # MsPerSecond
    <3>1. ms' = ms + 1 /\ s' = s
      BY <1>1, <2>1, <2>5 DEF timer_interruptHandler, Wrapped
    <3>2. x' = x + 1
      BY <2>1, <2>2, <3>1
    <3> QED
      BY <2>4, <3>2 DEF UptimeAgrees
  <2>6. CASE ms + 1 = MsPerSecond
    <3>1. ms' = 0 /\ s' = Wrapped(s + 1, SecondsMod)
      BY <1>1, <2>1, <2>6 DEF timer_interruptHandler, Wrapped
    <3>2. x + 1 = (s + 1) * MsPerSecond
      BY <2>1, <2>2, <2>6, SMT
    <3>3. CASE s + 1 # SecondsMod
      <4>1. s' = s + 1
        BY <2>1, <3>1, <3>3 DEF Wrapped
      <4>2. x' = ((s + 1) * MsPerSecond) + 0
        BY <3>1, <4>1
      <4>3. x' = x + 1
        BY <2>2, <3>2, <4>2
      <4> QED
        BY <2>4, <4>3 DEF UptimeAgrees
    <3>4. CASE s + 1 = SecondsMod
      <4>1. s' = 0
        BY <2>1, <3>1, <3>4 DEF Wrapped
      <4>2. x' = 0
        BY <3>1, <4>1
      <4>3. (x + 1) % TickMod = 0
        <5>1. (s + 1) * MsPerSecond = MsPerSecond * SecondsMod
          BY <2>1, <3>4, SMT
        <5> QED
          BY <3>2, <5>1, UptimeAssumption
      <4> QED
        BY <2>4, <4>2, <4>3, ModZero DEF UptimeAgrees
    <3> QED
      BY <3>3, <3>4
  <2> QED
    BY <2>5, <2>6
<1>2. CASE UNCHANGED <<timer_tick_counter, uptime>>
  BY <1>2 DEF UptimeAgrees, uptime
<1> QED
  BY <1>1, <1>2 DEF Next, AppCall, CallbackCall, timer_run, RunStart, Expire, PassOver,
     CallbackRestarts, CallbackEnds, RunEnd, vars

\* The tick counter and the uptime never drift apart, though each wraps in its
\* own way (timer.c:259-273).
THEOREM ClocksAgree == Spec => []UptimeAgrees
<1>1. Init => UptimeAgrees
  BY ModZero DEF Init, UptimeAgrees
<1> QED
  BY <1>1, UptimeStep, TypeCorrect, PTL DEF Spec
-----------------------------------------------------------------------------
(* Expiry.                                                                 *)

\* Ticks from b to a, at most once around.
Diff(a, b) == IF a >= b THEN a - b ELSE a + TickMod - b

\* Ticks since timer_run read the counter.
Behind == Diff(timer_tick_counter, oldTime)

\* The age of a timer is what the wrapped counters say; no timer that counts
\* was started after timer_run read the counter, and the one whose callback
\* runs was due then.
AgeInv ==
  /\ \A t \in Timers : Counting(t) =>
       /\ age[t] = Diff(timer_tick_counter, timerList[t].start_time)
       /\ pc # "superloop" => age[t] >= Behind
  /\ pc = "callback" => age[next] >= Behind + timerList[next].period_ms

\* A difference of ticks taken modulo TickMod grows by one with each tick.
LEMMA DiffTick ==
  ASSUME NEW a \in Tick, NEW b \in Tick
  PROVE  /\ Diff(a, b) \in 0 .. TickMod - 1
         /\ Diff(a, a) = 0
         /\ Wrapped(a + 1, TickMod) # b => Diff(Wrapped(a + 1, TickMod), b) = Diff(a, b) + 1
BY DEF Diff, Wrapped, Tick

\* What timer_run takes for the time since a timer's start is its age when
\* timer_run read the counter.
LEMMA ElapsedIsAge ==
  ASSUME TypeOK, AgeInv, NEW t \in Timers, Counting(t), pc # "superloop"
  PROVE  Elapsed(t) = age[t] - Behind /\ Behind \in Nat
<1>1. /\ timer_tick_counter \in Tick /\ oldTime \in Tick /\ timerList[t].start_time \in Tick
      /\ age[t] \in Nat
  BY DEF TypeOK, TimerInfo
<1>2. age[t] = Diff(timer_tick_counter, timerList[t].start_time) /\ age[t] >= Behind
  BY DEF AgeInv
<1> QED
  BY <1>1, <1>2 DEF Elapsed, Behind, Diff, Tick

\* While callbacks only release timers, they leave start times and ages alone.
LEMMA ReleaseOnly ==
  ASSUME TypeOK, CallbackOps \subseteq {"release", "release_self"}, CallbackCall
  PROVE  /\ age' = age /\ UNCHANGED <<timer_tick_counter, oldTime, pc, next>>
         /\ \E t \in Timers : timerList' = [timerList EXCEPT ![t].state = "UNUSED"]
<1>1. next \in Timers
  BY DEF CallbackCall, TypeOK
<1>2. \E t \in Timers : timer_release(t)
  BY <1>1 DEF CallbackCall, Call
<1> QED
  BY <1>2 DEF CallbackCall, timer_release, running

\* The invariant on ages is kept by the calls, ticks and steps of timer_run.
LEMMA AgeCall ==
  ASSUME Held, AgeInv, AppCall
  PROVE  AgeInv' /\ \A t \in Timers : timerList'[t].state = "EXPIRED" => timerList[t].state = "EXPIRED"
<1>1. PICK t \in Timers, info \in TimerInfo : CallOutcome(t, info)
  BY Outcome DEF AppCall
<1>2. /\ pc = "superloop" /\ pc' = "superloop" /\ timer_tick_counter' = timer_tick_counter
      /\ timerList' = [timerList EXCEPT ![t] = info] /\ timerList \in [Timers -> TimerInfo]
      /\ timer_tick_counter \in Tick
  BY <1>1 DEF AppCall, running, CallOutcome, Held, TypeOK
<1>3. \A u \in Timers : u # t => timerList'[u] = timerList[u] /\ age'[u] = age[u]
  BY <1>1, <1>2 DEF CallOutcome
<1>4. timerList'[t] = info
  BY <1>2
<1>5. ASSUME NEW u \in Timers, Counting(u)'
      PROVE  age'[u] = Diff(timer_tick_counter', timerList'[u].start_time)
  <2>1. timerList'[u].state = "RUNNING" /\ timerList'[u].callBackType = "POLL"
    BY <1>2, <1>5 DEF Counting
  <2>2. CASE u # t
    <3>1. Counting(u)
      BY <1>3, <2>1, <2>2 DEF Counting
    <3> QED
      BY <1>2, <1>3, <2>2, <3>1 DEF AgeInv
  <2>3. CASE u = t
    <3>1. CASE info.start_time = timer_tick_counter /\ age'[t] = 0
      BY <1>2, <1>4, <2>3, <3>1, DiffTick
    <3>2. CASE /\ timerList[t].state = "RUNNING" /\ age'[t] = age[t]
               /\ info.start_time = timerList[t].start_time
               /\ info.callBackType = timerList[t].callBackType
      <4>1. Counting(t)
        BY <1>4, <2>1, <2>3, <3>2 DEF Counting
      <4> QED
        BY <1>2, <1>4, <2>3, <3>2, <4>1 DEF AgeInv
    <3> QED
      BY <1>1, <1>4, <2>1, <2>3, <3>1, <3>2 DEF CallOutcome
  <2> QED
    BY <2>2, <2>3
<1>6. AgeInv'
  BY <1>2, <1>5 DEF AgeInv
<1>7. \A u \in Timers : timerList'[u].state = "EXPIRED" => timerList[u].state = "EXPIRED"
  BY <1>1, <1>3, <1>4 DEF CallOutcome
<1> QED
  BY <1>6, <1>7

LEMMA AgeTick ==
  ASSUME TypeOK, AgeInv, timer_interruptHandler
  PROVE  AgeInv'
<1>1. /\ UNCHANGED <<timerList, oldTime, pc, next>>
      /\ timer_tick_counter' = Wrapped(timer_tick_counter + 1, TickMod)
      /\ Wrapped(timer_tick_counter + 1, TickMod) # oldTime
      /\ \A t \in Timers : Counting(t) => age[t] < MaxAge
      /\ age' = [t \in Timers |-> IF age[t] < MaxAge THEN age[t] + 1 ELSE MaxAge]
  BY DEF timer_interruptHandler, running
<1>2. timer_tick_counter \in Tick /\ oldTime \in Tick /\ age \in [Timers -> 0 .. MaxAge]
      /\ timerList \in [Timers -> TimerInfo] /\ (pc = "callback" => next \in Timers)
  BY DEF TypeOK
<1>3. Behind' = Behind + 1 /\ Behind \in Nat
  BY <1>1, <1>2, DiffTick DEF Behind
<1>4. ASSUME NEW t \in Timers, Counting(t)
      PROVE  /\ age'[t] = age[t] + 1
             /\ age'[t] = Diff(timer_tick_counter', timerList[t].start_time)
  <2>1. age'[t] = age[t] + 1 /\ age[t] \in Nat /\ age[t] < MaxAge
    BY <1>1, <1>2, <1>4
  <2>2. timerList[t].start_time \in Tick
    BY <1>2 DEF TimerInfo
  <2>3. age[t] = Diff(timer_tick_counter, timerList[t].start_time)
    BY <1>4 DEF AgeInv
  <2>4. Wrapped(timer_tick_counter + 1, TickMod) # timerList[t].start_time
    BY <1>2, <2>1, <2>2, <2>3 DEF Diff, Wrapped, Tick
  <2> QED
    BY <1>1, <1>2, <2>1, <2>2, <2>3, <2>4, DiffTick
<1>5. \A t \in Timers : Counting(t)' => Counting(t)
  BY <1>1 DEF Counting
<1>6. \A t \in Timers : age[t] \in Nat
  BY <1>2
<1>7. pc = "callback" => Counting(next) /\ timerList[next].period_ms \in Nat
  <2>1. \A p \in Periods \cup {0} : p \in Nat
    BY PeriodBounds DEF Period
  <2> QED
    BY <1>2, <2>1 DEF Counting, TimerInfo
<1>8. ASSUME NEW t \in Timers, Counting(t)', pc # "superloop"
      PROVE  age'[t] >= Behind'
  <2>1. age'[t] = age[t] + 1 /\ age[t] >= Behind /\ age[t] \in Nat
    BY <1>4, <1>5, <1>6, <1>8 DEF AgeInv
  <2> QED
    BY <1>3, <2>1
<1>9. pc = "callback" => age'[next] >= Behind' + timerList[next].period_ms
  <2> SUFFICES ASSUME pc = "callback" PROVE age'[next] >= Behind' + timerList[next].period_ms
    OBVIOUS
  <2>1. age'[next] = age[next] + 1 /\ age[next] >= Behind + timerList[next].period_ms
    BY <1>2, <1>4, <1>7 DEF AgeInv
  <2> QED
    BY <1>2, <1>3, <1>6, <1>7, <2>1
<1> QED
  BY <1>1, <1>4, <1>5, <1>8, <1>9 DEF AgeInv

LEMMA AgeRelease ==
  ASSUME TypeOK, AgeInv, CallbackOps \subseteq {"release", "release_self"}, CallbackCall
  PROVE  AgeInv' /\ \A t \in Timers : timerList'[t].state = "EXPIRED" => timerList[t].state = "EXPIRED"
<1>1. /\ age' = age /\ UNCHANGED <<timer_tick_counter, oldTime, pc, next>>
      /\ \E t \in Timers : timerList' = [timerList EXCEPT ![t].state = "UNUSED"]
  BY ReleaseOnly
<1>2. timerList \in [Timers -> TimerInfo] /\ (pc = "callback" => next \in Timers)
  BY DEF TypeOK
<1>3. \A u \in Timers : /\ timerList'[u].start_time = timerList[u].start_time
                        /\ timerList'[u].period_ms = timerList[u].period_ms
                        /\ timerList'[u].callBackType = timerList[u].callBackType
                        /\ timerList'[u].state \in {timerList[u].state, "UNUSED"}
  BY <1>1, <1>2 DEF TimerInfo
<1>4. \A u \in Timers : Counting(u)' => Counting(u)
  BY <1>1, <1>3 DEF Counting
<1>5. Behind' = Behind
  BY <1>1 DEF Behind
<1> QED
  BY <1>1, <1>2, <1>3, <1>4, <1>5 DEF AgeInv

LEMMA AgeExpire ==
  ASSUME TypeOK, AgeInv, Expire
  PROVE  AgeInv' /\ age[next] >= timerList[next].period_ms
<1>1. /\ pc = "scan" /\ next \in Timers /\ Due(next)
      /\ UNCHANGED <<timer_tick_counter, oldTime, age>>
      /\ timerList' = [timerList EXCEPT ![next].state = "EXPIRED"]
      /\ \/ pc' = "callback" /\ next' = next
         \/ pc' = "scan"
  BY DEF Expire
<1>2. timerList \in [Timers -> TimerInfo] /\ age \in [Timers -> 0 .. MaxAge]
  BY DEF TypeOK
<1>3. timerList[next].period_ms \in Nat
  <2>1. timerList[next].period_ms \in Period
    BY <1>1, <1>2 DEF TimerInfo, Period
  <2> QED
    BY <2>1, PeriodBounds
<1>4. Counting(next)
  BY <1>1 DEF Counting, Due
<1>5. age[next] - Behind >= timerList[next].period_ms /\ Behind \in Nat
  BY <1>1, <1>4, ElapsedIsAge DEF Due
<1>6. age[next] \in Nat
  BY <1>1, <1>2
<1>7. Behind' = Behind
  BY <1>1 DEF Behind
<1>8. \A u \in Timers : /\ timerList'[u].start_time = timerList[u].start_time
                        /\ timerList'[u].period_ms = timerList[u].period_ms
                        /\ timerList'[u].callBackType = timerList[u].callBackType
                        /\ timerList'[u].state \in {timerList[u].state, "EXPIRED"}
  BY <1>1, <1>2 DEF TimerInfo
<1>9. \A u \in Timers : Counting(u)' => Counting(u)
  BY <1>1, <1>4, <1>8 DEF Counting
<1>10. age[next] >= Behind + timerList[next].period_ms
  BY <1>3, <1>5, <1>6
<1> QED
  BY <1>1, <1>3, <1>5, <1>6, <1>7, <1>8, <1>9, <1>10 DEF AgeInv

LEMMA AgeRestart ==
  ASSUME TypeOK, AgeInv, CallbackRestarts
  PROVE  AgeInv' /\ \A t \in Timers : timerList'[t].state = "EXPIRED" => timerList[t].state = "EXPIRED"
<1> DEFINE period == timerList[next].period_ms
           start == timerList[next].start_time
           due == Wrapped(start + period, TickMod)
<1>1. /\ pc = "callback" /\ pc' = "scan" /\ next \in Timers
      /\ UNCHANGED <<timer_tick_counter, oldTime>>
      /\ timerList' = [timerList EXCEPT ![next] = [@ EXCEPT !.state = "RUNNING", !.start_time = due]]
      /\ age' = [age EXCEPT ![next] = IF @ >= period THEN @ - period ELSE 0]
  BY DEF CallbackRestarts, TypeOK
<1>2. /\ timerList \in [Timers -> TimerInfo] /\ age \in [Timers -> 0 .. MaxAge]
      /\ timer_tick_counter \in Tick /\ oldTime \in Tick
  BY DEF TypeOK
<1>3. period \in 0 .. MaxAge /\ start \in Tick
  <2>1. period \in Period /\ start \in Tick
    BY <1>1, <1>2 DEF TimerInfo, Period
  <2> QED
    BY <2>1, PeriodBounds
<1>4. Behind \in Nat /\ Behind' = Behind
  BY <1>1, <1>2, DiffTick DEF Behind
<1>5. age[next] >= Behind + period /\ age[next] = Diff(timer_tick_counter, start)
  BY <1>1 DEF AgeInv, Counting
<1>6. age[next] \in 0 .. MaxAge
  BY <1>1, <1>2
<1>7. Diff(timer_tick_counter, due) = age[next] - period
  BY <1>2, <1>3, <1>4, <1>5, <1>6 DEF Diff, Wrapped, Tick
<1> HIDE DEF due
<1>8. /\ timerList'[next].start_time = due /\ timerList'[next].state = "RUNNING"
      /\ age'[next] = age[next] - period
      /\ \A u \in Timers : u # next => timerList'[u] = timerList[u] /\ age'[u] = age[u]
  BY <1>1, <1>2, <1>3, <1>4, <1>5, <1>6 DEF TimerInfo
<1>9. \A u \in Timers : u # next /\ Counting(u)' => Counting(u)
  BY <1>1, <1>8 DEF Counting
<1>10. ASSUME NEW u \in Timers, Counting(u)'
       PROVE  /\ age'[u] = Diff(timer_tick_counter', timerList'[u].start_time)
              /\ age'[u] >= Behind'
  <2>1. CASE u = next
    BY <1>1, <1>3, <1>4, <1>5, <1>6, <1>7, <1>8, <2>1
  <2>2. CASE u # next
    BY <1>1, <1>4, <1>8, <1>9, <1>10, <2>2 DEF AgeInv
  <2> QED
    BY <2>1, <2>2
<1>11. AgeInv'
  BY <1>1, <1>10 DEF AgeInv
<1> QED
  BY <1>8, <1>11

LEMMA AgeRun ==
  ASSUME TypeOK, AgeInv, timer_run
  PROVE  /\ AgeInv'
         /\ \A t \in Timers : timerList[t].state = "RUNNING" /\ timerList'[t].state = "EXPIRED"
              => age[t] >= timerList[t].period_ms
<1>1. CASE RunStart
  <2>1. Behind' = 0
    BY <1>1, DiffTick DEF RunStart, Behind, TypeOK
  <2>2. \A t \in Timers : age[t] \in Nat
    BY DEF TypeOK
  <2>3. \A t \in Timers : Counting(t)' => Counting(t)
    BY <1>1 DEF RunStart, Counting
  <2> QED
    BY <1>1, <2>1, <2>2, <2>3 DEF RunStart, AgeInv
<1>2. CASE Expire
  <2>1. \A t \in Timers : t # next => timerList'[t] = timerList[t]
    BY <1>2 DEF Expire, TypeOK
  <2> QED
    BY <1>2, <2>1, AgeExpire
<1>3. CASE PassOver \/ CallbackEnds \/ RunEnd
  <2>1. UNCHANGED <<timerList, timer_tick_counter, oldTime, age>> /\ pc' \in {"scan", "superloop"}
        /\ (pc' = "scan" => pc # "superloop")
    BY <1>3 DEF PassOver, CallbackEnds, RunEnd
  <2>2. Behind' = Behind
    BY <2>1 DEF Behind
  <2>3. \A t \in Timers : Counting(t)' => Counting(t)
    BY <2>1 DEF Counting
  <2> QED
    BY <2>1, <2>2, <2>3 DEF AgeInv
<1>4. CASE CallbackRestarts
  BY <1>4, AgeRestart
<1> QED
  BY <1>1, <1>2, <1>3, <1>4 DEF timer_run

\* While callbacks only release timers, no timer expires before its period is
\* over, for every period and wherever ticks fall and counters wrap
\* (timer.c:83-110, 259-273).
THEOREM NothingEarly ==
  ASSUME CallbackOps \subseteq {"release", "release_self"}
  PROVE  Spec => NeverEarly
<1> DEFINE Early ==
      \A t \in Timers :
        timerList[t].state = "RUNNING" /\ timerList'[t].state = "EXPIRED"
          => age[t] >= timerList[t].period_ms
<1>1. Init => AgeInv
  BY DEF Init, AgeInv, Counting
<1>2. Held /\ AgeInv /\ [Next]_vars => AgeInv' /\ (Early \/ UNCHANGED vars)
  <2> SUFFICES ASSUME Held, AgeInv, [Next]_vars
               PROVE  AgeInv' /\ (Early \/ UNCHANGED vars)
    OBVIOUS
  <2>1. TypeOK
    BY DEF Held
  <2>2. CASE timer_interruptHandler
    BY <2>1, <2>2, AgeTick DEF timer_interruptHandler
  <2>3. CASE AppCall
    BY <2>1, <2>3, AgeCall
  <2>4. CASE CallbackCall
    BY <2>1, <2>4, AgeRelease
  <2>5. CASE timer_run
    BY <2>1, <2>5, AgeRun
  <2>6. CASE UNCHANGED vars
    <3>1. UNCHANGED <<timerList, timer_tick_counter, oldTime, pc, next, age>>
      BY <2>6 DEF vars, running
    <3>2. Behind' = Behind /\ \A t \in Timers : Counting(t)' <=> Counting(t)
      BY <3>1 DEF Behind, Counting
    <3> QED
      BY <2>6, <3>1, <3>2 DEF AgeInv
  <2> QED
    BY <2>2, <2>3, <2>4, <2>5, <2>6 DEF Next
<1>3. Early \/ UNCHANGED vars => [Early]_vars
  OBVIOUS
<1> QED
  BY <1>1, <1>2, <1>3, HeldInvariant, PTL DEF Spec, NeverEarly
=============================================================================
