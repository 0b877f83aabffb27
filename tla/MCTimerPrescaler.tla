-------------------------- MODULE MCTimerPrescaler --------------------------
(* Registers of 16 values instead of 65536: no time at all, every time they *)
(* can hold, and those just beyond.                                         *)
EXTENDS TimerPrescaler

MCTimes == 0 .. 100
=============================================================================
