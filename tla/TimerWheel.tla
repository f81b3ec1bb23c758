----------------------------- MODULE TimerWheel -----------------------------
(***************************************************************************)
(* src/timer.c: five wheels of lists of timers.  Wheel 1 has one list per  *)
(* tick, a list of wheel n + 1 covers a whole turn of wheel n and is dealt *)
(* out again (_cascade) when that turn begins.  The tick counter is        *)
(* TVR_BITS + 4 * TVN_BITS bits wide, 8 + 4 * 6 = 32 in the code.          *)
(*                                                                         *)
(* timer_update is single threaded, but it runs the application's callback *)
(* in the middle of a tick, and the callback may add, change and delete    *)
(* timers, its own among them.                                             *)
(***************************************************************************)
EXTENDS Integers, FiniteSets, Sequences, SequencesExt

CONSTANTS
  Timers,             \* the cells of timer_info_unit
  TVR_BITS, TVN_BITS,
  Elapses, Counts,    \* the arguments the application passes
  MaxLag              \* ticks the clock may gain between two calls of timer_update

TimerAssumption ==
  /\ TVR_BITS \in Nat \ {0} /\ TVN_BITS \in Nat \ {0} /\ MaxLag \in Nat
  /\ Elapses \subseteq 0 .. 2 ^ (TVR_BITS + 4 * TVN_BITS) - 1
  /\ Counts \subseteq Int

VARIABLES
  last_tick,   \* the next tick to be processed, or the one in progress
  tick,        \* what timer_update read from the clock
  tv,          \* tv[n][i], list i of wheel n
  work_list,   \* the timers of the tick in progress not handled yet
  info,        \* the fields of each timer
  live,        \* the timers allocated
  handles,     \* those whose pointer the application still holds
  at,          \* where timer_update is: "idle", "loop", "work" or "callback"
  running,     \* the timer whose callback runs
  left         \* ticks until each timer should fire: what the application asked for

vars == <<last_tick, tick, tv, work_list, info, live, handles, at, running, left>>

TVR_SIZE == 2 ^ TVR_BITS
TVN_SIZE == 2 ^ TVN_BITS
TickRange == TVR_SIZE * TVN_SIZE ^ 4    \* 2^32: unsigned int

NoTimer == "none"

\* One list of wheel n spans that many ticks.
Span(n) == IF n = 1 THEN 1 ELSE TVR_SIZE * TVN_SIZE ^ (n - 2)
Lists(n) == IF n = 1 THEN TVR_SIZE ELSE TVN_SIZE

\* INDEX, for wheel n
Index(n, t) == (t \div Span(n)) % Lists(n)

Init ==
  /\ last_tick \in 0 .. TickRange - 1 /\ tick = last_tick
  /\ tv = [n \in 1 .. 5 |-> [i \in 0 .. Lists(n) - 1 |-> <<>>]]
  /\ work_list = <<>>
  /\ info = [t \in Timers |-> [expires |-> 0, elapse |-> 0, count |-> 0]]
  /\ live = {} /\ handles = {}
  /\ at = "idle" /\ running = NoTimer
  /\ left = [t \in Timers |-> 0]

-----------------------------------------------------------------------------
\* Mutant: a timer a whole turn away is taken for one of this turn.
WheelFor_OneTooFar(idx) ==
  IF idx <= Span(2) THEN 1 ELSE IF idx < Span(3) THEN 2
  ELSE IF idx < Span(4) THEN 3 ELSE IF idx < Span(5) THEN 4 ELSE 5

\* The wheel for a distance in ticks.
WheelFor(idx) ==
  IF idx < Span(2) THEN 1 ELSE IF idx < Span(3) THEN 2
  ELSE IF idx < Span(4) THEN 3 ELSE IF idx < Span(5) THEN 4 ELSE 5

\* A timer with a given expiry goes to the end of its list.
_add_timer(w, t, expires) ==
  LET n == WheelFor((expires - last_tick) % TickRange)
  IN [w EXCEPT ![n][Index(n, expires)] = Append(@, t)]

_detach_timer(w, t) ==
  [n \in 1 .. 5 |-> [i \in DOMAIN w[n] |-> Remove(w[n][i], t)]]

\* A list is taken out and its timers are added again, now nearer.
_cascade(w, n) ==
  LET i == Index(n, last_tick)
  IN FoldLeft(LAMBDA v, t : _add_timer(v, t, info[t].expires), [w EXCEPT ![n][i] = <<>>], w[n][i])

\* Mutant: only the second wheel is dealt out.
CascadeFrom_OneWheel(w, n) == _cascade(w, n)

\* Wheel n is dealt out when all nearer wheels stand at 0.
RECURSIVE CascadeFrom(_, _)
CascadeFrom(w, n) ==
  LET dealt == _cascade(w, n)
  IN IF n < 5 /\ Index(n, last_tick) = 0 THEN CascadeFrom(dealt, n + 1) ELSE dealt

_is_timer_pend(t) ==
  Contains(work_list, t) \/ \E n \in 1 .. 5 : \E i \in DOMAIN tv[n] : Contains(tv[n][i], t)

\* When a timer that was asked to fire in `elapse' ticks does: a callback that asks for 0 ticks
\* finds the list of the current tick already taken and waits for a turn of the first wheel.
Promise(elapse) == IF elapse = 0 /\ at # "idle" THEN TVR_SIZE ELSE elapse

-----------------------------------------------------------------------------
(* The application, between two calls of timer_update or in a callback.     *)
AppRuns == at \in {"idle", "callback"}

timer_add(t, elapse, count) ==
  LET expires == (last_tick + elapse) % TickRange
  IN /\ AppRuns /\ t \notin live
     /\ live' = live \cup {t} /\ handles' = handles \cup {t}
     /\ info' = [info EXCEPT ![t] = [expires |-> expires, elapse |-> elapse, count |-> count]]
     /\ tv' = _add_timer(tv, t, expires)
     /\ left' = [left EXCEPT ![t] = Promise(elapse)]
     /\ UNCHANGED <<last_tick, tick, work_list, at, running>>

\* A timer in its own callback is in no list: only its fields change, and timer_update puts
\* it back afterwards.
timer_mod(t, elapse, count) ==
  LET expires == (last_tick + elapse) % TickRange
  IN /\ AppRuns /\ t \in handles
     /\ info' = [info EXCEPT ![t] = [expires |-> expires, elapse |-> elapse, count |-> count]]
     /\ IF _is_timer_pend(t)
        THEN /\ tv' = _add_timer(_detach_timer(tv, t), t, expires)
             /\ work_list' = Remove(work_list, t)
             /\ left' = [left EXCEPT ![t] = Promise(elapse)]
        ELSE UNCHANGED <<tv, work_list, left>>
     /\ UNCHANGED <<last_tick, tick, live, handles, at, running>>

\* Mutant: a timer is freed in its own callback too.
timer_del_InCallback(t) ==
  /\ AppRuns /\ t \in handles
  /\ handles' = handles \ {t}
  /\ tv' = _detach_timer(tv, t) /\ work_list' = Remove(work_list, t)
  /\ live' = live \ {t}
  /\ info' = [info EXCEPT ![t] = [expires |-> 0, elapse |-> 0, count |-> 0]]
  /\ left' = [left EXCEPT ![t] = 0]
  /\ UNCHANGED <<last_tick, tick, at, running>>

timer_del(t) ==
  /\ AppRuns /\ t \in handles
  /\ handles' = handles \ {t}
  /\ IF _is_timer_pend(t)
     THEN /\ tv' = _detach_timer(tv, t) /\ work_list' = Remove(work_list, t)
          /\ live' = live \ {t}
          /\ info' = [info EXCEPT ![t] = [expires |-> 0, elapse |-> 0, count |-> 0]]
          /\ left' = [left EXCEPT ![t] = 0]
     ELSE /\ info' = [info EXCEPT ![t].count = 0]
          /\ UNCHANGED <<tv, work_list, live, left>>
  /\ UNCHANGED <<last_tick, tick, at, running>>

-----------------------------------------------------------------------------
(* timer_update                                                             *)

\* The clock has reached, or passed, the next tick; or it has not, and the call returns.
UpdateBegin ==
  /\ at = "idle"
  /\ \E lag \in 0 .. MaxLag : tick' = (last_tick + lag) % TickRange
  /\ at' = "loop"
  /\ UNCHANGED <<last_tick, tv, work_list, info, live, handles, running, left>>

Behind == (tick - last_tick) % TickRange < TickRange \div 2    \* as signed integers

UpdateEnd ==
  /\ at = "loop" /\ ~Behind
  /\ at' = "idle" /\ tick' = last_tick
  /\ UNCHANGED <<last_tick, tv, work_list, info, live, handles, running, left>>

TickBegin ==
  LET index == Index(1, last_tick)
      dealt == IF index = 0 THEN CascadeFrom(tv, 2) ELSE tv
  IN /\ at = "loop" /\ Behind
     /\ work_list' = dealt[1][index]
     /\ tv' = [dealt EXCEPT ![1][index] = <<>>]
     /\ at' = "work"
     /\ UNCHANGED <<last_tick, tick, info, live, handles, running, left>>

Freed(t) ==
  /\ live' = live \ {t} /\ handles' = handles \ {t}
  /\ info' = [info EXCEPT ![t] = [expires |-> 0, elapse |-> 0, count |-> 0]]
  /\ left' = [left EXCEPT ![t] = 0]

\* The first timer of the list leaves it and its callback starts.
Fire ==
  LET t == Head(work_list)
  IN /\ at = "work" /\ work_list # <<>> /\ info[t].count # 0
     /\ work_list' = Tail(work_list)
     /\ info' = [info EXCEPT ![t].count = IF @ > 0 THEN @ - 1 ELSE @]
     /\ at' = "callback" /\ running' = t
     /\ UNCHANGED <<last_tick, tick, tv, live, handles, left>>

\* A timer that was added with a count of 0.
Expire ==
  LET t == Head(work_list)
  IN /\ at = "work" /\ work_list # <<>> /\ info[t].count = 0
     /\ work_list' = Tail(work_list)
     /\ Freed(t)
     /\ UNCHANGED <<last_tick, tick, tv, at, running>>

CallbackReturn ==
  LET t == running
      expires == (last_tick + info[t].elapse) % TickRange
  IN /\ at = "callback"
     /\ at' = "work" /\ running' = NoTimer
     /\ IF info[t].count = 0
        THEN Freed(t) /\ UNCHANGED tv
        ELSE /\ info' = [info EXCEPT ![t].expires = expires]
             /\ tv' = _add_timer(tv, t, expires)
             /\ left' = [left EXCEPT ![t] = Promise(info[t].elapse)]
             /\ UNCHANGED <<live, handles>>
     /\ UNCHANGED <<last_tick, tick, work_list>>

\* The tick is done; the call also ends here when it ran longer than run_time.
TickEnd ==
  /\ at = "work" /\ work_list = <<>>
  /\ last_tick' = (last_tick + 1) % TickRange
  /\ left' = [t \in Timers |-> IF t \in live THEN left[t] - 1 ELSE 0]
  /\ \/ at' = "loop" /\ tick' = tick
     \/ at' = "idle" /\ tick' = last_tick'
  /\ UNCHANGED <<tv, work_list, info, live, handles, running>>

Next ==
  \/ \E t \in Timers :
       \/ \E e \in Elapses, c \in Counts : timer_add(t, e, c) \/ timer_mod(t, e, c)
       \/ timer_del(t)
  \/ UpdateBegin \/ UpdateEnd \/ TickBegin \/ Fire \/ Expire \/ CallbackReturn \/ TickEnd

Spec == Init /\ [][Next]_vars

-----------------------------------------------------------------------------
\* Where a timer is listed: every list of every wheel, and the work list.
Places(t) ==
  {<<n, i>> \in UNION {{n} \X DOMAIN tv[n] : n \in 1 .. 5} : Contains(tv[n][i], t)}
    \cup (IF Contains(work_list, t) THEN {<<0, 0>>} ELSE {})

\* A timer is called in the tick it was set for, never sooner and never later, however far away
\* it was set, through every cascade and the overflow of the tick counter (timer.c:120-198,
\* 311-391); its callback may have changed or deleted any timer in between.
TimersOnTime ==
  /\ \A i \in DOMAIN work_list : left[work_list[i]] = 0
  /\ \A t \in live : Places(t) # {} /\ <<0, 0>> \notin Places(t) => left[t] >= IF at = "work" THEN 1 ELSE 0

\* A timer is in one list only, or in its callback; one that was freed is in none
\* (timer.c:299-309, 350-372: a deleted timer is freed by timer_del or by timer_update).
TimersAccounted ==
  \A t \in Timers :
    Cardinality(Places(t)) = IF t \in live /\ t # running THEN 1 ELSE 0
=============================================================================
