----------------------------- MODULE MotorTimer -----------------------------
(***************************************************************************)
(* The motor's timeout timer, register by register: port_motor.c, run by   *)
(* the main program, against the TIM2 counter and its interrupt handler in *)
(* interr.c.                                                               *)
(*                                                                         *)
(* port_motor_timeout_timer_activate is a sequence of register writes; the *)
(* counter may advance, overflow and interrupt between any two of them.    *)
(* Time is counted in ticks; the prescaler and the auto-reload value are   *)
(* one number, the ticks from a restart of the counter to its overflow.    *)
(***************************************************************************)
EXTENDS Naturals

CONSTANTS Durations,    \* the timeouts the program asks for, in ticks
          ResetPeriod,  \* what the registers hold before the first activation
          MaxStall,     \* ticks one call may span, interrupts included
          Horizon       \* elapsed time is not told apart beyond this bound

\* A call of the driver is short against every period it programs.
ASSUME StallAssumption ==
    /\ MaxStall \in Nat
    /\ Horizon \in Nat
    /\ ResetPeriod \in Nat
    /\ MaxStall < ResetPeriod
    /\ ResetPeriod <= Horizon
    /\ Durations \subseteq Nat
    /\ \A d \in Durations : MaxStall < d /\ d + MaxStall <= Horizon

VARIABLES pc,       \* the next register write of the call, "idle" outside one
          cen,      \* CR1.CEN, the counter is running
          urs,      \* CR1.URS, only an overflow raises UIF
          uie,      \* DIER.UIE, UIF interrupts
          uif,      \* SR.UIF, an update happened
          preload,  \* PSC and ARR as written
          shadow,   \* PSC and ARR as loaded by the last update event
          cnt,      \* CNT
          timeout,  \* port_motor_hw_t.timeout
          request,  \* the timeout_ms of the last activation, 0 before any
          since     \* ticks since that call began, up to Horizon

registers == <<cen, urs, uie, uif, preload, shadow, cnt>>
vars == <<pc, registers, timeout, request, since>>

Labels == {"idle", "timeout", "cnt", "arr", "cen", "ug", "sr", "urs", "uie"}

Init == /\ pc = "idle"
        /\ cen = FALSE /\ urs = FALSE /\ uie = FALSE /\ uif = FALSE
        /\ preload = ResetPeriod /\ shadow = ResetPeriod /\ cnt = 0
        /\ timeout = FALSE
        /\ request = 0 /\ since = 0

-----------------------------------------------------------------------------
(* The main program. A pending interrupt preempts it, except that an       *)
(* overflow may land on the very store that stops the counter.             *)

Pending == uif /\ uie

\* port_motor_timeout_timer_activate(p_motor, d): CR1 &= ~CEN.
Activate(d) ==
    /\ pc = "idle"
    /\ pc' = "timeout"
    /\ cen' = FALSE
    /\ request' = d
    /\ since' = 0
    /\ UNCHANGED <<urs, uie, uif, preload, shadow, cnt, timeout>>

\* Mutant of ClearTimeout: port_motor_set_timeout_status(false) is forgotten.
KeepTimeout ==
    /\ pc = "timeout" /\ ~Pending
    /\ pc' = "cnt"
    /\ UNCHANGED <<registers, timeout, request, since>>

ClearTimeout ==
    /\ pc = "timeout" /\ ~Pending
    /\ pc' = "cnt"
    /\ timeout' = FALSE
    /\ UNCHANGED <<registers, request, since>>

ClearCounter ==
    /\ pc = "cnt" /\ ~Pending
    /\ pc' = "arr"
    /\ cnt' = 0
    /\ UNCHANGED <<cen, urs, uie, uif, preload, shadow, timeout, request, since>>

\* Mutant of LoadPeriod: one tick short.
LoadShortPeriod ==
    /\ pc = "arr" /\ ~Pending
    /\ pc' = "cen"
    /\ preload' = request - 1
    /\ UNCHANGED <<cen, urs, uie, uif, shadow, cnt, timeout, request, since>>

\* ARR and PSC are preloaded: the counter does not use them before an update.
LoadPeriod ==
    /\ pc = "arr" /\ ~Pending
    /\ pc' = "cen"
    /\ preload' = request
    /\ UNCHANGED <<cen, urs, uie, uif, shadow, cnt, timeout, request, since>>

EnableCounter ==
    /\ pc = "cen" /\ ~Pending
    /\ pc' = "ug"
    /\ cen' = TRUE
    /\ UNCHANGED <<urs, uie, uif, preload, shadow, cnt, timeout, request, since>>

\* Mutant of GenerateUpdate: no update event, the old period stays in use.
SkipUpdate ==
    /\ pc = "ug" /\ ~Pending
    /\ pc' = "sr"
    /\ UNCHANGED <<registers, timeout, request, since>>

\* EGR |= UG restarts the counter, and raises UIF unless URS says otherwise.
GenerateUpdate ==
    /\ pc = "ug" /\ ~Pending
    /\ pc' = "sr"
    /\ shadow' = preload
    /\ cnt' = 0
    /\ uif' = (uif \/ ~urs)
    /\ UNCHANGED <<cen, urs, uie, preload, timeout, request, since>>

\* Mutant of ClearUpdateFlag: the flag the update event raised stays up.
KeepUpdateFlag ==
    /\ pc = "sr" /\ ~Pending
    /\ pc' = "urs"
    /\ UNCHANGED <<registers, timeout, request, since>>

ClearUpdateFlag ==
    /\ pc = "sr" /\ ~Pending
    /\ pc' = "urs"
    /\ uif' = FALSE
    /\ UNCHANGED <<cen, urs, uie, preload, shadow, cnt, timeout, request, since>>

OnlyOverflowInterrupts ==
    /\ pc = "urs" /\ ~Pending
    /\ pc' = "uie"
    /\ urs' = TRUE
    /\ UNCHANGED <<cen, uie, uif, preload, shadow, cnt, timeout, request, since>>

\* Mutant of EnableInterrupt: the handler masked the interrupt, nothing unmasks it.
LeaveMasked ==
    /\ pc = "uie" /\ ~Pending
    /\ pc' = "idle"
    /\ UNCHANGED <<registers, timeout, request, since>>

EnableInterrupt ==
    /\ pc = "uie" /\ ~Pending
    /\ pc' = "idle"
    /\ uie' = TRUE
    /\ UNCHANGED <<cen, urs, uif, preload, shadow, cnt, timeout, request, since>>

\* Mutant of Deactivate: the counter is not stopped.
KeepCounting == pc = "idle" /\ UNCHANGED vars

\* port_motor_timeout_timer_deactivate(p_motor): CR1 &= ~CEN, nothing else.
Deactivate ==
    /\ pc = "idle"
    /\ cen' = FALSE
    /\ UNCHANGED <<pc, urs, uie, uif, preload, shadow, cnt, timeout, request, since>>

Call == \/ ClearTimeout \/ ClearCounter \/ LoadPeriod \/ EnableCounter
        \/ GenerateUpdate \/ ClearUpdateFlag \/ OnlyOverflowInterrupts
        \/ EnableInterrupt

-----------------------------------------------------------------------------
(* The hardware and the interrupt handler.                                 *)

\* The counter reaches the auto-reload value: it restarts and raises UIF.
Overflow == cen /\ cnt + 1 >= shadow

Tick ==
    /\ pc # "idle" => since < MaxStall
    /\ since' = IF since < Horizon THEN since + 1 ELSE since
    /\ cnt' = IF ~cen THEN cnt ELSE IF Overflow THEN 0 ELSE cnt + 1
    /\ shadow' = IF Overflow THEN preload ELSE shadow
    /\ uif' = (uif \/ Overflow)
    /\ UNCHANGED <<pc, cen, urs, uie, preload, timeout, request>>

\* TIM2_IRQHandler, with port_motor_set_timeout_status(true) inside.
TIM2_IRQHandler ==
    /\ Pending
    /\ timeout' = TRUE
    /\ uie' = FALSE
    /\ uif' = FALSE
    /\ UNCHANGED <<pc, cen, urs, preload, shadow, cnt, request, since>>

Next == \/ \E d \in Durations : Activate(d)
        \/ Call
        \/ Deactivate
        \/ Tick
        \/ TIM2_IRQHandler

\* Of the timer alone, called in any order; DoorMotor has the door's calls, and
\* the fairness.
SafetySpec == Init /\ [][Next]_vars

-----------------------------------------------------------------------------
(* Properties.                                                             *)

TypeOK == /\ pc \in Labels
          /\ cen \in BOOLEAN /\ urs \in BOOLEAN /\ uie \in BOOLEAN /\ uif \in BOOLEAN
          /\ preload \in Durations \cup {ResetPeriod}
          /\ shadow \in Durations \cup {ResetPeriod}
          /\ cnt \in 0 .. Horizon
          /\ timeout \in BOOLEAN
          /\ request \in Durations \cup {0}
          /\ since \in 0 .. Horizon

\* The flag is never up before the time asked for is over: not from the
\* update event the activation generates, not from an overflow of an earlier
\* activation that is still pending, not from a stale UIF (port_motor.c:99-114).
NoEarlyTimeout == timeout /\ pc # "timeout" => since >= request

\* An armed timer overflows at most MaxStall ticks after the time asked for:
\* neither the old period nor an old count delays it (port_motor.c:76, 93-99).
NoLateTimeout ==
    pc = "idle" /\ cen /\ uie /\ ~uif => since < request + MaxStall

\* A running timer whose flag is down raises it, unless the program calls the
\* driver again: no activation leaves the interrupt masked (port_motor.c:114).
Expires ==
    (pc = "idle" /\ cen /\ ~timeout) ~> (timeout \/ pc # "idle" \/ ~cen)

\* The contract the state machine uses. A call takes effect at its first write:
\* the flag it is about to clear already counts as down.
OneShot == INSTANCE OneShotTimer WITH
    timeout <- timeout /\ pc # "timeout",
    armed   <- pc # "idle" \/ Pending \/ (cen /\ uie),
    period  <- request

\* Every step of the register-level driver is a step of the one-shot timer
\* or none at all.
ImplementsOneShot == OneShot!Spec
=============================================================================
