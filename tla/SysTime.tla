------------------------------- MODULE SysTime -------------------------------
(***************************************************************************)
(* The system time of port_system.c: the millisecond counter that the      *)
(* SysTick interrupt advances and that wraps, and the two busy waits on    *)
(* it, one statement after another, with ticks in between.                 *)
(***************************************************************************)
EXTENDS Naturals

CONSTANTS Wrap,     \* msTicks counts modulo this, 2^32 in the program
          Delays,   \* the delays callers ask for
          Horizon   \* elapsed time is not told apart beyond this bound

ASSUME TimeAssumption == /\ Wrap \in Nat \ {0, 1}
                         /\ Delays \subseteq 0 .. Wrap - 1
                         /\ Horizon \in Nat
                         /\ Wrap + 2 <= Horizon

VARIABLES msTicks,
          pc,           \* the next statement, "idle" outside both functions
          return,       \* where port_system_delay_ms returns to
          ms,           \* its argument
          tickstart,    \* its first reading of msTicks
          t,            \* the caller's time reference, *p_t
          period,       \* the argument of port_system_delay_until_ms
          ticked,       \* a tick came since the last statement
          age,          \* ticks since the reference was taken, up to Horizon
          waited        \* ticks since the call began, up to Horizon

delay == <<return, ms, tickstart>>
reference == <<t, period>>
vars == <<msTicks, pc, delay, reference, ticked, age, waited>>

Init == /\ msTicks = 0
        /\ pc = "idle" /\ return = "idle"
        /\ ms = 0 /\ tickstart = 0
        /\ t = 0 /\ period = 0
        /\ ticked = FALSE
        /\ age = 0 /\ waited = 0

port_system_get_millis == msTicks

port_system_set_millis(n) == msTicks' = n % Wrap

-----------------------------------------------------------------------------
(* The caller.                                                             *)

\* t = port_system_get_millis().
TakeReference ==
    /\ pc = "idle"
    /\ t' = port_system_get_millis
    /\ age' = 0
    /\ UNCHANGED <<msTicks, pc, delay, period, ticked, waited>>

\* port_system_delay_ms(d).
DelayMs(d) ==
    /\ pc = "idle"
    /\ pc' = "start"
    /\ return' = "idle"
    /\ ms' = d
    /\ ticked' = FALSE
    /\ waited' = 0
    /\ UNCHANGED <<msTicks, tickstart, reference, age>>

\* port_system_delay_until_ms(&t, d).
DelayUntilMs(d) ==
    /\ pc = "idle"
    /\ pc' = "now"
    /\ period' = d
    /\ ticked' = FALSE
    /\ waited' = 0
    /\ UNCHANGED <<msTicks, delay, t, age>>

-----------------------------------------------------------------------------
(* The functions.                                                          *)

Until == (t + period) % Wrap

\* Mutant of ReadNow: the whole period is waited for, whatever went by.
ReadNowAndWaitPeriod ==
    /\ pc = "now"
    /\ \/ Until > msTicks /\ pc' = "start" /\ return' = "stamp" /\ ms' = period
       \/ Until <= msTicks /\ pc' = "stamp" /\ UNCHANGED <<return, ms>>
    /\ ticked' = FALSE
    /\ UNCHANGED <<msTicks, tickstart, reference, age, waited>>

\* now = port_system_get_millis(), and a delay if "until" is greater.
ReadNow ==
    /\ pc = "now"
    /\ LET now == port_system_get_millis
       IN  \/ Until > now /\ pc' = "start" /\ return' = "stamp" /\ ms' = Until - now
           \/ Until <= now /\ pc' = "stamp" /\ UNCHANGED <<return, ms>>
    /\ ticked' = FALSE
    /\ UNCHANGED <<msTicks, tickstart, reference, age, waited>>

Start ==
    /\ pc = "start"
    /\ pc' = "wait"
    /\ tickstart' = port_system_get_millis
    /\ ticked' = FALSE
    /\ UNCHANGED <<msTicks, return, ms, reference, age, waited>>

\* Mutant of Over: the deadline is compared, not the time gone by.
OverByDeadline == msTicks >= (tickstart + ms) % Wrap

\* Mutant of Over: the deadline is wider than the counter.
OverByWideDeadline == msTicks >= tickstart + ms

\* Unsigned subtraction: the ticks since tickstart, even across a wrap.
Over == (port_system_get_millis + Wrap - tickstart) % Wrap >= ms

Poll ==
    /\ pc = "wait"
    /\ pc' = IF Over THEN return ELSE pc
    /\ ticked' = FALSE
    /\ UNCHANGED <<msTicks, delay, reference, age, waited>>

\* *p_t = port_system_get_millis(), and the return.
Stamp ==
    /\ pc = "stamp"
    /\ pc' = "idle"
    /\ t' = port_system_get_millis
    /\ age' = 0
    /\ ticked' = FALSE
    /\ UNCHANGED <<msTicks, delay, period, waited>>

Statement == ReadNow \/ Start \/ Poll \/ Stamp

-----------------------------------------------------------------------------
(* The interrupt.  A statement of these functions takes less than a tick,  *)
(* so at most one comes between two of them; callers take any time.        *)

Elapse(n) == IF n < Horizon THEN n + 1 ELSE n

SysTick_Handler ==
    /\ pc # "idle" => ~ticked
    /\ port_system_set_millis(port_system_get_millis + 1)
    /\ ticked' = (pc # "idle")
    /\ age' = Elapse(age)
    /\ waited' = Elapse(waited)
    /\ UNCHANGED <<pc, delay, reference>>

Next == \/ TakeReference
        \/ \E d \in Delays : DelayMs(d) \/ DelayUntilMs(d)
        \/ Statement
        \/ SysTick_Handler

SafetySpec == Init /\ [][Next]_vars

Spec == SafetySpec /\ WF_vars(Statement) /\ WF_vars(SysTick_Handler)

-----------------------------------------------------------------------------
(* Properties.                                                             *)

\* Ticks that can come between the statements of one call.
Slack == 2

\* port_system_delay_ms waits for as many ticks as it is asked for and hardly
\* more, wherever in the wait the counter wraps (port_system.c:135-142).
DelayOnTime ==
    [][pc = "wait" /\ pc' = "idle" => ms <= waited /\ waited <= ms + Slack]_vars

\* port_system_delay_until_ms returns once the time since the reference is over,
\* or at once if it already was when it was called.
OnTime == /\ age >= period
          /\ age <= period + Slack \/ waited <= Slack

\* It does so unless the counter, or the end of the wait, is past the wrap
\* since the reference was taken (port_system.c:144-153).
UntilOnTimeBeforeWrap ==
    pc = "stamp" /\ t + age < Wrap /\ t + period < Wrap => OnTime

\* It does so always: "Wait for some milliseconds from a time reference."
\* (port_system.h:104).
UntilOnTime == pc = "stamp" => OnTime

\* Both functions return, however late the counter is read after a reference:
\* no wait steps over the moment it is over (port_system.c:139).
Returns == pc # "idle" ~> pc = "idle"
=============================================================================
