-------------------------------- MODULE Leds --------------------------------
(***************************************************************************)
(* The two LEDs of port_led.c.  They are bits of one output register,      *)
(* GPIOB->ODR, which the main program changes by reading it and writing it *)
(* back, and which the blink interrupts TIM3 and TIM4 (interr.c) toggle in *)
(* between.  How often a LED blinks is left open.                          *)
(***************************************************************************)

VARIABLES odr,      \* the lit LEDs: GPIOB->ODR
          word,     \* ODR as the main program read it and has yet to write it
          blinking  \* LEDs whose timer runs: CR1.CEN

Lamps == {"led_opening", "led_closing"}

TypeOK == /\ odr \subseteq Lamps
          /\ word \subseteq Lamps
          /\ blinking \subseteq Lamps

\* port_led_init of both, then port_led_on(led_closing).
Init == /\ odr = {"led_closing"}
        /\ word = {}
        /\ blinking = {}

Flip(l) == IF l \in odr THEN odr \ {l} ELSE odr \cup {l}

\* The read of port_led_on and port_led_off, and the write of each.
Load == word' = odr /\ UNCHANGED <<odr, blinking>>

On(l) == odr' = word \cup {l} /\ word' = {} /\ UNCHANGED blinking

Off(l) == odr' = word \ {l} /\ word' = {} /\ UNCHANGED blinking

\* port_led_timer_activate: CEN, then the update event. The event raises UIF,
\* whose interrupt is enabled, so the handler toggles the LED there and then.
EnableTimer(l) == blinking' = blinking \cup {l} /\ UNCHANGED <<odr, word>>

UpdateTimer(l) == odr' = Flip(l) /\ UNCHANGED <<word, blinking>>

\* port_led_timer_deactivate.
DisableTimer(l) == blinking' = blinking \ {l} /\ UNCHANGED <<odr, word>>

\* port_led_toggle in TIM3_IRQHandler and TIM4_IRQHandler.
Blink(l) == l \in blinking /\ odr' = Flip(l) /\ UNCHANGED <<word, blinking>>
=============================================================================
