---------------------------- MODULE SysTimeProofs ----------------------------
(***************************************************************************)
(* Both waits are on time, wherever the counter wraps or before it does,   *)
(* for a counter of any width and all delays it can hold.                  *)
(***************************************************************************)
EXTENDS SysTime, TLAPS

-----------------------------------------------------------------------------
(* The inductive invariant.                                                *)

Types == /\ msTicks \in 0 .. Wrap - 1
         /\ pc \in {"idle", "start", "wait", "now", "stamp"}
         /\ return \in {"idle", "stamp"}
         /\ ms \in 0 .. Wrap - 1
         /\ tickstart \in 0 .. Wrap - 1
         /\ t \in 0 .. Wrap - 1
         /\ period \in 0 .. Wrap - 1
         /\ age \in 0 .. Horizon
         /\ waited \in 0 .. Horizon

\* Until it wraps, the counter shows the time since the reference.
Clock == t + age < Wrap => msTicks = t + age

\* A tick since the last statement.
Late == IF ticked THEN 1 ELSE 0

\* The ticks that port_system_delay_ms has seen.
Passed == (msTicks + Wrap - tickstart) % Wrap

\* It has polled since every tick but the last.
Polled == pc = "wait" => Passed + 1 <= ms + Late \/ Passed <= Late

\* Called by itself, it misses at most the tick before it reads the counter.
Counted == /\ pc = "now" => waited = Late
           /\ return = "idle" /\ pc = "start" => waited = Late
           /\ return = "idle" /\ pc = "wait" => waited \in Passed .. Passed + 1

BeforeWrap == t + age < Wrap /\ t + period < Wrap

\* Called for a reference, it waits for what is left of the period, and misses
\* at most the tick after port_system_delay_until_ms has read the counter.
Remaining ==
    /\ return = "stamp" /\ pc \in {"start", "wait"} => ms >= 1
    /\ return = "stamp" /\ pc = "start" /\ BeforeWrap => ms + age = period + Late
    /\ return = "stamp" /\ pc = "wait" /\ BeforeWrap =>
           ms + age \in period + Passed .. period + Passed + 1
    /\ pc = "stamp" /\ BeforeWrap =>
           /\ age >= period
           /\ age <= period + 1 + Late \/ waited <= 1 + Late

IInv == Types /\ Clock /\ Polled /\ Counted /\ Remaining

-----------------------------------------------------------------------------
(* Arithmetic modulo Wrap.                                                 *)

LEMMA ModWrap ==
    /\ \A x \in 0 .. Wrap - 1 : x % Wrap = x
    /\ \A x \in Wrap .. 2 * Wrap - 1 : x % Wrap = x - Wrap
<1> USE TimeAssumption
<1>1. ASSUME NEW x \in 0 .. Wrap - 1 PROVE x % Wrap = x
  OBVIOUS
<1>2. ASSUME NEW x \in Wrap .. 2 * Wrap - 1 PROVE x % Wrap = x - Wrap
  OBVIOUS
<1> QED
  BY <1>1, <1>2

LEMMA PassedIs ==
    ASSUME Types
    PROVE  /\ Passed \in 0 .. Wrap - 1
           /\ Passed = IF msTicks >= tickstart THEN msTicks - tickstart
                       ELSE msTicks + Wrap - tickstart
<1>1. CASE msTicks >= tickstart
  BY <1>1, ModWrap, TimeAssumption DEF Types, Passed
<1>2. CASE msTicks < tickstart
  BY <1>2, ModWrap, TimeAssumption DEF Types, Passed
<1> QED
  BY <1>1, <1>2 DEF Types

LEMMA OverIs == Over <=> Passed >= ms
BY DEF Over, Passed, port_system_get_millis

\* A tick counts, but for the one that makes a full turn.
LEMMA TickPasses ==
    ASSUME Types, SysTick_Handler
    PROVE  /\ msTicks' = IF msTicks = Wrap - 1 THEN 0 ELSE msTicks + 1
           /\ Passed < Wrap - 1 => Passed' = Passed + 1
<1>1. msTicks' = IF msTicks = Wrap - 1 THEN 0 ELSE msTicks + 1
  BY ModWrap, TimeAssumption DEF SysTick_Handler, Types, port_system_set_millis,
     port_system_get_millis
<1>2. Types'
  BY <1>1, TimeAssumption DEF SysTick_Handler, Types, Elapse, delay, reference
<1>3. Passed' = IF msTicks' >= tickstart' THEN msTicks' - tickstart'
                ELSE msTicks' + Wrap - tickstart'
  BY <1>2, PassedIs, ModWrap, TimeAssumption DEF Types, Passed
<1> QED
  BY <1>1, <1>3, PassedIs, TimeAssumption DEF SysTick_Handler, Types, delay

-----------------------------------------------------------------------------
(* Invariance.                                                             *)

LEMMA LateIs == Late \in {0, 1}
BY DEF Late

LEMMA StatementOnTime == ticked' = FALSE => Late' = 0
BY DEF Late

LEMMA TickLate == SysTick_Handler /\ pc # "idle" => Late = 0 /\ Late' = 1
BY DEF Late, SysTick_Handler

LEMMA InitIInv == Init => IInv
BY TimeAssumption DEF Init, IInv, Types, Clock, Polled, Counted, Remaining

LEMMA CallIInv ==
    ASSUME IInv, \/ TakeReference
                 \/ \E d \in Delays : DelayMs(d) \/ DelayUntilMs(d)
    PROVE  IInv'
<1> USE TimeAssumption DEF IInv, Types, Clock, Polled, Counted, Remaining,
        BeforeWrap, delay, reference
<1>1. CASE TakeReference
  BY <1>1 DEF TakeReference, port_system_get_millis
<1>2. ASSUME NEW d \in Delays, DelayMs(d)
      PROVE  IInv'
  BY <1>2, StatementOnTime DEF DelayMs
<1>3. ASSUME NEW d \in Delays, DelayUntilMs(d)
      PROVE  IInv'
  BY <1>3, StatementOnTime DEF DelayUntilMs
<1> QED
  BY <1>1, <1>2, <1>3

LEMMA ReadNowIInv == ASSUME IInv, ReadNow PROVE IInv'
<1> USE TimeAssumption DEF IInv, Types, delay, reference, port_system_get_millis
<1>1. Until \in 0 .. Wrap - 1 /\ (t + period < Wrap => Until = t + period)
  BY ModWrap DEF Until
<1>2. CASE Until > msTicks /\ pc' = "start" /\ return' = "stamp" /\ ms' = Until - msTicks
  <2>1. Types' /\ Clock' /\ Polled' /\ Counted'
    BY <1>1, <1>2 DEF ReadNow, Clock, Polled, Counted
  <2>2. Remaining'
    BY <1>1, <1>2, StatementOnTime DEF ReadNow, Clock, Remaining, BeforeWrap
  <2> QED
    BY <2>1, <2>2
<1>3. CASE Until <= msTicks /\ pc' = "stamp" /\ UNCHANGED <<return, ms>>
  <2>1. Types' /\ Clock' /\ Polled' /\ Counted'
    BY <1>3 DEF ReadNow, Clock, Polled, Counted
  <2>2. waited <= 1
    BY LateIs DEF ReadNow, Counted
  <2>3. BeforeWrap => age >= period
    BY <1>1, <1>3 DEF Clock, BeforeWrap
  <2>4. Remaining'
    BY <1>3, <2>2, <2>3, StatementOnTime DEF ReadNow, Remaining, BeforeWrap
  <2> QED
    BY <2>1, <2>4
<1> QED
  BY <1>2, <1>3 DEF ReadNow

LEMMA StartIInv == ASSUME IInv, Start PROVE IInv'
<1> USE TimeAssumption DEF IInv, reference, port_system_get_millis
<1>1. Types' /\ Clock'
  BY DEF Start, Types, Clock
<1>2. Passed' = 0
  BY <1>1, PassedIs, ModWrap DEF Start, Types, Passed
<1>3. Polled' /\ Counted'
  BY <1>2, StatementOnTime, LateIs DEF Start, Types, Polled, Counted
<1>4. Remaining'
  BY <1>2, LateIs DEF Start, Types, Remaining, BeforeWrap
<1> QED
  BY <1>1, <1>3, <1>4

LEMMA PollIInv == ASSUME IInv, Poll PROVE IInv'
<1> USE TimeAssumption DEF IInv, delay, reference
<1>1. Types' /\ Clock'
  BY DEF Poll, Types, Clock
<1>2. Passed' = Passed /\ Passed \in 0 .. Wrap - 1
  BY PassedIs DEF Poll, Passed
<1>3. Polled' /\ Counted'
  BY <1>2, OverIs, StatementOnTime, LateIs DEF Poll, Types, Polled, Counted
<1>4. Remaining'
  BY <1>2, OverIs, StatementOnTime, LateIs DEF Poll, Types, Polled, Remaining, BeforeWrap
<1> QED
  BY <1>1, <1>3, <1>4

LEMMA StampIInv == ASSUME IInv, Stamp PROVE IInv'
BY TimeAssumption DEF IInv, Stamp, Types, Clock, Polled, Counted, Remaining, delay,
   port_system_get_millis

LEMMA TickIInv == ASSUME IInv, SysTick_Handler PROVE IInv'
<1> USE TimeAssumption DEF IInv, delay, reference
<1>1. Types' /\ Clock'
  BY TickPasses DEF SysTick_Handler, Types, Clock, Elapse
<1>2. pc = "wait" => Passed \in 0 .. Wrap - 2 /\ Passed' = Passed + 1
  BY TickPasses, PassedIs, TickLate DEF SysTick_Handler, Types, Polled
<1>3. Polled'
  BY <1>2, TickLate DEF SysTick_Handler, Types, Polled
<1>4. Counted'
  BY <1>2, TickLate DEF SysTick_Handler, Types, Counted, Elapse
<1>5. Remaining'
  BY <1>2, TickLate, LateIs DEF SysTick_Handler, Types, Remaining, BeforeWrap, Elapse
<1> QED
  BY <1>1, <1>3, <1>4, <1>5

LEMMA Invariance == SafetySpec => []IInv
<1>1. IInv /\ [Next]_vars => IInv'
  <2> SUFFICES ASSUME IInv, UNCHANGED vars PROVE IInv'
    BY CallIInv, ReadNowIInv, StartIInv, PollIInv, StampIInv, TickIInv DEF Next, Statement
  <2> QED
    BY DEF vars, delay, reference, IInv, Types, Clock, Passed, Polled, Counted,
           Remaining, Late, BeforeWrap
<1> QED
  BY InitIInv, <1>1, PTL DEF SafetySpec

-----------------------------------------------------------------------------
(* Theorems.                                                               *)

\* port_system_delay_ms waits for the ticks it is asked for and at most two more.
THEOREM DelaysOnTime == SafetySpec => DelayOnTime
<1>1. ASSUME IInv, [Next]_vars, pc = "wait", pc' = "idle"
      PROVE  ms <= waited /\ waited <= ms + Slack
  <2>1. Over /\ return = "idle"
    BY <1>1 DEF Next, vars, TakeReference, DelayMs, DelayUntilMs, Statement, ReadNow,
       Start, Poll, Stamp, SysTick_Handler
  <2>2. Passed >= ms /\ waited \in Passed .. Passed + 1
    BY <1>1, <2>1, OverIs DEF IInv, Counted
  <2>3. Passed <= ms \/ Passed <= 1
    BY <1>1, PassedIs, LateIs DEF IInv, Types, Polled
  <2> QED
    BY <1>1, <2>2, <2>3, PassedIs DEF IInv, Types, Slack
<1> QED
  BY <1>1, Invariance, PTL DEF SafetySpec, DelayOnTime

\* port_system_delay_until_ms returns when the period is over, before the wrap.
THEOREM UntilsOnTime == SafetySpec => []UntilOnTimeBeforeWrap
<1>1. IInv => UntilOnTimeBeforeWrap
  BY LateIs DEF IInv, Types, Remaining, BeforeWrap, UntilOnTimeBeforeWrap, OnTime, Slack
<1> QED
  BY <1>1, Invariance, PTL
=============================================================================
