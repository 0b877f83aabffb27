---------------------------- MODULE OneShotTimer ----------------------------
(***************************************************************************)
(* What the rest of the door relies on when it uses the motor's timeout    *)
(* timer (port_motor.c and the TIM2 interrupt): a timer that is armed for  *)
(* a duration, raises "timeout" once, never before that duration is over,  *)
(* and whose arming always lowers "timeout" first.                         *)
(***************************************************************************)
EXTENDS Naturals

CONSTANTS Durations,    \* the durations the timer may be armed for
          Horizon       \* elapsed time is not told apart beyond this bound

VARIABLES timeout,      \* port_motor_hw_t.timeout, the flag the checks read
          armed,        \* an expiry is still to come
          period,       \* the duration asked for by the last arming
          since         \* time gone by since the last arming, up to Horizon

vars == <<timeout, armed, period, since>>

Elapse(t) == IF t < Horizon THEN t + 1 ELSE t

TypeOK == /\ timeout \in BOOLEAN
          /\ armed \in BOOLEAN
          /\ period \in Durations \cup {0}
          /\ since \in 0 .. Horizon

Init == /\ timeout = FALSE
        /\ armed = FALSE
        /\ period = 0
        /\ since = 0

\* Mutant of Arm: the flag of an earlier expiry stays up.
ArmKeepingTimeout(d) == /\ armed' = TRUE
                        /\ period' = d
                        /\ since' = 0
                        /\ UNCHANGED timeout

Arm(d) == /\ timeout' = FALSE
          /\ armed' = TRUE
          /\ period' = d
          /\ since' = 0

\* Stopping the timer may come too late for an expiry that is due.
Disarm == /\ armed' \in {FALSE, armed /\ since >= period}
          /\ UNCHANGED <<timeout, period, since>>

Expire == /\ armed
          /\ since >= period
          /\ timeout' = TRUE
          /\ armed' = FALSE
          /\ UNCHANGED <<period, since>>

Tick == /\ since' = Elapse(since)
        /\ UNCHANGED <<timeout, armed, period>>

Next == \/ \E d \in Durations : Arm(d)
        \/ Disarm
        \/ Expire
        \/ Tick

Spec == Init /\ [][Next]_vars
=============================================================================
