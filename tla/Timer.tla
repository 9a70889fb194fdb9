------------------------------- MODULE Timer --------------------------------
(***************************************************************************)
(* src/src/timer.c: the software timers.  timer_interruptHandler counts    *)
(* ticks and preempts everything; timer_run, in the superloop, reads the   *)
(* counter once and then examines the timers one by one, calling back into *)
(* the application, whose callbacks may call any timer function.           *)
(*                                                                         *)
(* The tick counter is a uint32_t, TickMod here.  age and held are history:*)
(* the ticks since a timer's start_time, not wrapped, with MaxAge for as   *)
(* many or more, and the timers handed out and not given back.             *)
(***************************************************************************)
EXTENDS Naturals

CONSTANTS
  MaxTimers,    \* MAX_TIMERS
  Periods,      \* the periods the application asks for
  TickMod,      \* 2^32
  MsPerSecond,  \* 1000
  SecondsMod,   \* 2^32
  MaxAge,       \* bound: ticks a running timer waits for the superloop
  AppOps,       \* the functions the superloop calls
  CallbackOps   \* the functions callbacks call

Ops == {"register", "register_poll", "register_interrupt", "start",
        "setPeriod", "release", "release_self"}

ASSUME SizesAssumption ==
  /\ MaxTimers \in Nat \ {0}
  /\ TickMod \in Nat \ {0} /\ MsPerSecond \in Nat \ {0}
  /\ SecondsMod \in Nat \ {0}
  /\ MaxAge \in 1 .. TickMod - 1
ASSUME PeriodsAssumption == Periods \subseteq 0 .. MaxAge
ASSUME OpsAssumption ==
  AppOps \subseteq Ops \ {"release_self"} /\ CallbackOps \subseteq Ops
ASSUME UptimeAssumption == (MsPerSecond * SecondsMod) % TickMod = 0

VARIABLES
  timerList,             \* [Timer -> TimerInfo]
  timer_tick_counter,
  uptime_counter_ms, uptime_counter_seconds,
  oldTime,               \* of timer_run; its newTime is the same from the
                         \* moment it starts on the timers
  pc,                    \* where the superloop is
  next,                  \* the timer timer_run looks at next, or is in
  age, held              \* history

uptime == <<uptime_counter_ms, uptime_counter_seconds>>
running == <<oldTime, pc, next>>
vars == <<timerList, timer_tick_counter, uptime, running, age, held>>

Timers == 0 .. MaxTimers - 1
Tick == 0 .. TickMod - 1

TimerInfo ==
  [period_ms : Periods \cup {0}, start_time : Tick,
   state : {"UNUSED", "STOPPED", "RUNNING", "EXPIRED"},
   callBackType : {"POLL", "INTERRUPT"}, callBackFunction : BOOLEAN]

TypeOK ==
  /\ timerList \in [Timers -> TimerInfo]
  /\ timer_tick_counter \in Tick /\ oldTime \in Tick
  /\ uptime_counter_ms \in 0 .. MsPerSecond - 1
  /\ uptime_counter_seconds \in 0 .. SecondsMod - 1
  /\ pc \in {"superloop", "scan", "callback"}
  /\ next \in 0 .. MaxTimers
  /\ pc = "callback" => next \in Timers
  /\ age \in [Timers -> 0 .. MaxAge]
  /\ held \subseteq Timers

Init ==
  /\ timerList = [t \in Timers |->
       [period_ms |-> 0, start_time |-> 0, state |-> "UNUSED",
        callBackType |-> "POLL", callBackFunction |-> FALSE]]
  /\ timer_tick_counter = 0 /\ oldTime = 0
  /\ uptime_counter_ms = 0 /\ uptime_counter_seconds = 0
  /\ pc = "superloop" /\ next = 0
  /\ age = [t \in Timers |-> 0]
  /\ held = {}
-----------------------------------------------------------------------------
(* The tick interrupt.                                                     *)

\* Mutant of Wrapped: the wrap comes one late.
Wrapped_Late(n, mod) == IF n > mod THEN n - mod - 1 ELSE n

Wrapped(n, mod) == IF n >= mod THEN n - mod ELSE n

\* The timers whose start_time is still of use to timer_run: those running,
\* and the one whose callback may ask for a restart.
Counting(t) ==
  \/ timerList[t].state = "RUNNING" /\ timerList[t].callBackType = "POLL"
  \/ pc = "callback" /\ t = next

\* Mutant of timer_interruptHandler: a second has one millisecond too many.
timer_interruptHandler_LongSecond ==
  /\ \A t \in Timers : Counting(t) => age[t] < MaxAge
  /\ Wrapped(timer_tick_counter + 1, TickMod) # oldTime
  /\ timer_tick_counter' = Wrapped(timer_tick_counter + 1, TickMod)
  /\ uptime_counter_ms' = Wrapped(uptime_counter_ms + 1, MsPerSecond)
  /\ uptime_counter_seconds' =
       IF uptime_counter_ms = MsPerSecond
         THEN Wrapped(uptime_counter_seconds + 1, SecondsMod)
         ELSE uptime_counter_seconds
  /\ age' = [t \in Timers |-> IF age[t] < MaxAge THEN age[t] + 1 ELSE MaxAge]
  /\ UNCHANGED <<timerList, running, held>>

\* Two bounds: no timer waits longer than MaxAge for the superloop, and the
\* counter does not go once around between two turns of timer_run.
timer_interruptHandler ==
  /\ \A t \in Timers : Counting(t) => age[t] < MaxAge
  /\ Wrapped(timer_tick_counter + 1, TickMod) # oldTime
  /\ timer_tick_counter' = Wrapped(timer_tick_counter + 1, TickMod)
  /\ uptime_counter_ms' = Wrapped(uptime_counter_ms + 1, MsPerSecond)
  /\ uptime_counter_seconds' =
       IF uptime_counter_ms + 1 = MsPerSecond
         THEN Wrapped(uptime_counter_seconds + 1, SecondsMod)
         ELSE uptime_counter_seconds
  /\ age' = [t \in Timers |-> IF age[t] < MaxAge THEN age[t] + 1 ELSE MaxAge]
  /\ UNCHANGED <<timerList, running, held>>
-----------------------------------------------------------------------------
(* The functions clients call.                                             *)

\* Mutant of Started: a period of zero leaves the state alone.
Started_KeepsState(info, period) ==
  IF period = 0 THEN [info EXCEPT !.period_ms = 0]
  ELSE [info EXCEPT !.period_ms = period, !.state = "RUNNING",
                    !.start_time = timer_tick_counter]

\* What timer_start and timer_registerTimer make of a timer.
Started(info, period) ==
  IF period = 0 THEN [info EXCEPT !.period_ms = 0, !.state = "STOPPED"]
  ELSE [info EXCEPT !.period_ms = period, !.state = "RUNNING",
                    !.start_time = timer_tick_counter]

Aged(t, period) == age' = IF period = 0 THEN age ELSE [age EXCEPT ![t] = 0]

\* The first free timer is handed out.  A timer registered without a callback
\* keeps the callBackType of its last owner.
timer_registerTimer(period) ==
  \E t \in Timers :
    /\ timerList[t].state = "UNUSED"
    /\ \A u \in Timers : timerList[u].state = "UNUSED" => t <= u
    /\ timerList' = [timerList EXCEPT ![t] =
         [Started(@, period) EXCEPT !.callBackFunction = FALSE]]
    /\ Aged(t, period)
    /\ held' = held \cup {t}

timer_registerTimer_cb(period, callBackType) ==
  \E t \in Timers :
    /\ timerList[t].state = "UNUSED"
    /\ \A u \in Timers : timerList[u].state = "UNUSED" => t <= u
    /\ timerList' = [timerList EXCEPT ![t] =
         [Started(@, period) EXCEPT !.callBackFunction = TRUE,
                                    !.callBackType = callBackType]]
    /\ Aged(t, period)
    /\ held' = held \cup {t}

timer_start(t, period) ==
  /\ timerList[t].state # "UNUSED"
  /\ timerList' = [timerList EXCEPT ![t] = Started(@, period)]
  /\ Aged(t, period)
  /\ UNCHANGED held

timer_setPeriod(t, period) ==
  /\ period # 0
  /\ timerList' = [timerList EXCEPT ![t].period_ms = period]
  /\ UNCHANGED <<age, held>>

timer_release(t) ==
  /\ timerList' = [timerList EXCEPT ![t].state = "UNUSED"]
  /\ held' = held \ {t}
  /\ UNCHANGED age

Call(op) ==
  \/ op = "register" /\ \E p \in Periods : timer_registerTimer(p)
  \/ op = "register_poll" /\ \E p \in Periods : timer_registerTimer_cb(p, "POLL")
  \/ /\ op = "register_interrupt"
     /\ \E p \in Periods : timer_registerTimer_cb(p, "INTERRUPT")
  \/ op = "start" /\ \E t \in Timers, p \in Periods : timer_start(t, p)
  \/ op = "setPeriod" /\ \E t \in Timers, p \in Periods : timer_setPeriod(t, p)
  \/ /\ op = "release"
     /\ \E t \in Timers : ~(pc = "callback" /\ t = next) /\ timer_release(t)
  \/ op = "release_self" /\ timer_release(next)

AppCall ==
  /\ pc = "superloop"
  /\ \E op \in AppOps : Call(op)
  /\ UNCHANGED <<timer_tick_counter, uptime, running>>

CallbackCall ==
  /\ pc = "callback"
  /\ \E op \in CallbackOps : Call(op)
  /\ UNCHANGED <<timer_tick_counter, uptime, running>>
-----------------------------------------------------------------------------
(* timer_run.                                                              *)

RunStart ==
  /\ pc = "superloop"
  /\ oldTime' = timer_tick_counter
  /\ next' = 0
  /\ pc' = IF oldTime = timer_tick_counter THEN "superloop" ELSE "scan"
  /\ UNCHANGED <<timerList, timer_tick_counter, uptime, age, held>>

\* Mutant of Elapsed: the counter's wrap is forgotten.
Elapsed_NoWrap(t) ==
  IF oldTime >= timerList[t].start_time
    THEN oldTime - timerList[t].start_time ELSE 0

\* newTime - start_time, in a uint32_t.
Elapsed(t) ==
  IF oldTime >= timerList[t].start_time
    THEN oldTime - timerList[t].start_time
    ELSE oldTime + TickMod - timerList[t].start_time

Due(t) ==
  /\ timerList[t].callBackType = "POLL"
  /\ timerList[t].state = "RUNNING"
  /\ Elapsed(t) >= timerList[t].period_ms

Expire ==
  /\ pc = "scan" /\ next \in Timers
  /\ Due(next)
  /\ timerList' = [timerList EXCEPT ![next].state = "EXPIRED"]
  /\ IF timerList[next].callBackFunction
       THEN pc' = "callback" /\ UNCHANGED next
       ELSE next' = next + 1 /\ UNCHANGED pc
  /\ UNCHANGED <<timer_tick_counter, uptime, oldTime, age, held>>

PassOver ==
  /\ pc = "scan" /\ next \in Timers
  /\ ~Due(next)
  /\ next' = next + 1
  /\ UNCHANGED <<timerList, timer_tick_counter, uptime, oldTime, pc, age, held>>

\* Mutant of CallbackRestarts: start_time stays where it was.
CallbackRestarts_InPlace ==
  /\ pc = "callback"
  /\ timerList' = [timerList EXCEPT ![next].state = "RUNNING"]
  /\ age' = [age EXCEPT ![next] = IF @ >= timerList[next].period_ms
                                    THEN @ - timerList[next].period_ms ELSE 0]
  /\ pc' = "scan"
  /\ next' = next + 1
  /\ UNCHANGED <<timer_tick_counter, uptime, oldTime, held>>

\* The callback answers RESTART: the timer runs on from where it was due.
CallbackRestarts ==
  /\ pc = "callback"
  /\ timerList' = [timerList EXCEPT ![next] =
       [@ EXCEPT !.state = "RUNNING",
                 !.start_time = Wrapped(timerList[next].start_time + timerList[next].period_ms,
                                        TickMod)]]
  /\ age' = [age EXCEPT ![next] = IF @ >= timerList[next].period_ms
                                    THEN @ - timerList[next].period_ms ELSE 0]
  /\ pc' = "scan"
  /\ next' = next + 1
  /\ UNCHANGED <<timer_tick_counter, uptime, oldTime, held>>

CallbackEnds ==
  /\ pc = "callback"
  /\ pc' = "scan"
  /\ next' = next + 1
  /\ UNCHANGED <<timerList, timer_tick_counter, uptime, oldTime, age, held>>

RunEnd ==
  /\ pc = "scan" /\ next = MaxTimers
  /\ pc' = "superloop"
  /\ UNCHANGED <<timerList, timer_tick_counter, uptime, oldTime, next, age, held>>

timer_run ==
  \/ RunStart \/ Expire \/ PassOver \/ CallbackRestarts \/ CallbackEnds \/ RunEnd

Next == timer_interruptHandler \/ AppCall \/ CallbackCall \/ timer_run

Spec == Init /\ [][Next]_vars

\* The tick never stops, the superloop keeps turning and callbacks return.
FairSpec == Spec /\ WF_vars(timer_interruptHandler) /\ WF_vars(timer_run)
-----------------------------------------------------------------------------
(* Properties.                                                             *)

\* A timer expires only when its period has passed since its start_time,
\* though the tick interrupt moves the counter while timer_run works on the
\* value it read before, and start times and counter wrap (timer.c:83-110).
\* It holds while no callback starts, registers or adjusts a timer.
NeverEarly ==
  [][\A t \in Timers :
       timerList[t].state = "RUNNING" /\ timerList'[t].state = "EXPIRED"
         => age[t] >= timerList[t].period_ms]_vars

\* A timer that a client holds is in use, so that it is never handed to
\* another client as well, whatever periods it is given and whatever callbacks
\* release (timer.c:117-138, 154-177, 197-204).
HeldInUse == \A t \in held : timerList[t].state # "UNUSED"

\* Tick counter and uptime are counted apart and never drift
\* (timer.c:259-273).
UptimeAgrees ==
  (uptime_counter_seconds * MsPerSecond + uptime_counter_ms) % TickMod
    = timer_tick_counter

\* A polled timer that runs expires, or is stopped, released or started anew
\* (timer.c:83-110).
PolledTimersExpire ==
  \A t \in Timers :
    timerList[t].state = "RUNNING" /\ timerList[t].callBackType = "POLL"
      /\ age[t] > 0
      ~> timerList[t].state # "RUNNING" \/ age[t] = 0

=============================================================================
