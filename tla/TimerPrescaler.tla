--------------------------- MODULE TimerPrescaler ---------------------------
(***************************************************************************)
(* How a time in milliseconds becomes a prescaler and an auto-reload value *)
(* of a timer: the same statements in port_motor_timeout_timer_activate    *)
(* (port_motor.c) and port_led_timer_setup (port_led.c).                   *)
(*                                                                         *)
(* The two variables of type double hold whole numbers, what round         *)
(* returns.  The quotients are exact but for the last bits of a double,    *)
(* which matter only halfway between two whole numbers: rounding there     *)
(* may go either way.                                                      *)
(***************************************************************************)
EXTENDS Integers

CONSTANTS Range,        \* values of a register of 16 bits, 0xFFFF + 1
          CyclesPerMs,  \* SystemCoreClock / 1000
          Times         \* the times asked for, in ms

ASSUME PrescalerAssumption == /\ Range \in Nat \ {0}
                              /\ CyclesPerMs \in Nat \ {0}
                              /\ Times \subseteq Nat

VARIABLES width,    \* values of the ARR of the timer that is set
          pc,
          cycles,   \* scc * sec, the clock cycles asked for
          psc, arr, \* local variables
          PSC, ARR  \* registers

registers == <<PSC, ARR>>
vars == <<width, pc, cycles, psc, arr, registers>>

Values32 == Range * Range

\* TIM2 has an ARR of 32 bits, TIM3 and TIM4 have one of 16. The registers have
\* their reset values.
Init == /\ width \in {Range, Values32}
        /\ pc = "idle"
        /\ cycles = 0 /\ psc = 0 /\ arr = 0
        /\ PSC = 0 /\ ARR = width - 1

\* The whole numbers nearest to n / d: one, or two if n / d is halfway.
Nearest(n, d) == {x \in {n \div d, n \div d + 1} :
                    2 * n - d <= 2 * d * x /\ 2 * d * x <= 2 * n + d}

\* What a division by psc + 1 = 0 gives: infinity, which is above 0xFFFF like
\* Range is, or, divided into no cycles, not a number, which is above nothing.
Infinity == Range
NaN == -1

\* round(n / d - 1).
RoundLessOne(n, d) == {x - 1 : x \in Nearest(n, d)}

Quotient == IF psc + 1 # 0 THEN RoundLessOne(cycles, psc + 1)
            ELSE {IF cycles > 0 THEN Infinity ELSE NaN}

Ask(ms) ==
    /\ pc = "idle" \/ pc = "loaded"
    /\ pc' = "psc"
    /\ cycles' = CyclesPerMs * ms
    /\ UNCHANGED <<width, psc, arr, registers>>

\* Mutant of ComputePsc: the prescaler is taken for the divisor.
ComputeDivisor ==
    /\ pc = "psc" /\ pc' = "arr"
    /\ psc' \in {x + 1 : x \in RoundLessOne(cycles, Range)}
    /\ UNCHANGED <<width, cycles, arr, registers>>

ComputePsc ==
    /\ pc = "psc" /\ pc' = "arr"
    /\ psc' \in RoundLessOne(cycles, Range)
    /\ UNCHANGED <<width, cycles, arr, registers>>

ComputeArr ==
    /\ pc = "arr" /\ pc' = "adjust"
    /\ arr' \in Quotient
    /\ UNCHANGED <<width, cycles, psc, registers>>

\* Mutant of Adjust: arr is left as it was for the smaller prescaler.
AdjustPscOnly ==
    /\ pc = "adjust" /\ pc' = "load"
    /\ psc' = IF arr > Range - 1 THEN psc + 1 ELSE psc
    /\ UNCHANGED <<width, cycles, arr, registers>>

\* arr > 0xFFFF: the next prescaler, and arr again.
Adjust ==
    /\ pc = "adjust" /\ pc' = "load"
    /\ \/ /\ arr > Range - 1
          /\ psc' = psc + 1
          /\ arr' \in RoundLessOne(cycles, psc + 2)
       \/ /\ arr <= Range - 1
          /\ UNCHANGED <<psc, arr>>
    /\ UNCHANGED <<width, cycles, registers>>

\* The cast of a double to an integer of 32 bits, stored in a register of so many
\* values. Casting a negative number, none, or one too large is undefined.
Cast(x, values) == IF x \in 0 .. Values32 - 1 THEN {x % values} ELSE 0 .. values - 1

Load ==
    /\ pc = "load" /\ pc' = "loaded"
    /\ PSC' \in Cast(psc, Range)
    /\ ARR' \in Cast(arr, width)
    /\ UNCHANGED <<width, cycles, psc, arr>>

Next == \/ \E ms \in Times : Ask(ms)
        \/ ComputePsc \/ ComputeArr \/ Adjust \/ Load

Spec == Init /\ [][Next]_vars

-----------------------------------------------------------------------------
(* Properties.                                                             *)

\* The times both registers can hold: some cycle, and no more than the longest
\* period they can make, to the nearest multiple of the largest prescaler.
Representable == 0 < cycles /\ 2 * cycles < 2 * Range * Range + Range

\* The timer overflows after the cycles asked for, to the nearest the prescaler
\* allows: half a tick. Of a time that fits neither division by zero nor an
\* auto-reload value above 0xFFFF is left over (port_motor.c:78-94).
Accurate ==
    LET ticks == (PSC + 1) * (ARR + 1)
    IN  pc = "loaded" /\ Representable =>
            /\ 2 * (ticks - cycles) <= PSC + 1
            /\ 2 * (cycles - ticks) <= PSC + 1

\* No smaller prescaler would do: with each the auto-reload value is too large.
\* So no time is measured more coarsely than it has to be (port_motor.c:81-90).
Finest ==
    pc = "loaded" /\ Representable =>
        \A p \in 1 .. PSC : 2 * cycles >= p * (2 * Range + 1)
=============================================================================
