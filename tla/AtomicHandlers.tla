--------------------------- MODULE AtomicHandlers ---------------------------
(***************************************************************************)
(* The interrupts as the rest of the models take them: what a handler does *)
(* to a word it shares with another handler, or with the main program, it  *)
(* does in one step.                                                       *)
(***************************************************************************)
EXTENDS Naturals

CONSTANT Wrap       \* msTicks counts modulo this, 2^32 in the program

VARIABLES msTicks,  \* written by SysTick_Handler
          odr       \* GPIOB->ODR, written by TIM3_IRQHandler, TIM4_IRQHandler

vars == <<msTicks, odr>>

Lamps == {"led_opening", "led_closing"}

Init == msTicks = 0 /\ odr = {}

Tick == msTicks' = (msTicks + 1) % Wrap /\ UNCHANGED odr

Toggled(l, word) == IF l \in word THEN word \ {l} ELSE word \cup {l}

Toggle(l) == odr' = Toggled(l, odr) /\ UNCHANGED msTicks

Next == Tick \/ \E l \in Lamps : Toggle(l)

Spec == Init /\ [][Next]_vars
=============================================================================
