----------------------------- MODULE DoorInputs -----------------------------
(***************************************************************************)
(* From the pins to the door: AutomaticDoor with the flags of its inputs   *)
(* set by EXTI15_10_IRQHandler as ExtiInputs has it, access by access,     *)
(* from the edges of the two pins.                                         *)
(*                                                                         *)
(* Neither the main program nor SysTick, whose priority is the lowest, run *)
(* while the inputs' interrupt is pending or served. The timers may: they  *)
(* are less urgent than the sensor and more so than the button, and the    *)
(* vector has the priority of whichever was initialised last.              *)
(***************************************************************************)
EXTENDS AutomaticDoor

\* Of ExtiInputs: where edges may also arrive, what may be active at start-up.
CONSTANTS Windows, BootActive

ASSUME InputsAssumption == /\ Windows \subseteq {"cross", "own"}
                           /\ BootActive \subseteq {"button", "pir"}

VARIABLES isr,      \* where EXTI15_10_IRQHandler is
          active,   \* lines whose device is pressed or detecting: the levels
          pr, copy, \* EXTI->PR, and the handler's reading of it
          lost,     \* history, of ExtiInputs: levels nobody is to look at
          held      \* history: lines active, and not lost, since fsm_fire began

Exti == INSTANCE ExtiInputs WITH pc <- isr

door == <<pc, row, fsm, loop, motor, leds, msTicks>>
exti == <<isr, active, pr, copy, lost>>
systemVars == <<door, inputs, exti, held>>

SystemInit == Init /\ Exti!Init /\ held = {}

PinEdge(l) == /\ Exti!Edge(l)
              /\ held' = (held \cap active') \ lost'
              /\ UNCHANGED door

ServeInputs == /\ Exti!EXTI15_10_IRQHandler
               /\ held' = held \ lost'
               /\ UNCHANGED door

Idle == isr = "thread" /\ pr = {}

\* fsm_fire begins whenever the main program is back at the first row.
Statement == /\ Idle /\ Main
             /\ held' = IF pc' = "scan" /\ row' = 1 THEN active \ lost ELSE held
             /\ UNCHANGED exti

Serve(handler) == handler /\ UNCHANGED <<exti, held>>

Tick == Idle /\ Serve(SysTick_Handler)

SystemNext == \/ \E l \in {"button", "pir"} : PinEdge(l)
              \/ ServeInputs
              \/ Statement
              \/ Tick
              \/ Serve(TIM2_IRQHandler)
              \/ Serve(TIM3_IRQHandler)
              \/ Serve(TIM4_IRQHandler)

\* The fairness of the two parts. Main and SysTick wait for the inputs, so
\* it is of use only once the pins no longer change for ever.
SystemSpec == /\ SystemInit /\ [][SystemNext]_systemVars
              /\ WF_systemVars(ServeInputs)
              /\ WF_systemVars(Statement)
              /\ WF_systemVars(Tick)
              /\ WF_systemVars(Serve(TIM2_IRQHandler))

-----------------------------------------------------------------------------
(* Properties.                                                             *)

\* Seen from the door, the handler is one step for each line, at some level:
\* what AutomaticDoor takes it for (interr.c:39-75).
ImplementsAtomicInputs == SafetySpec

\* With every interrupt served, a flag that is not the level of its pin is one that
\* ExtiInputs knows the cause of, whatever the door does meanwhile.
FlagsShowPins == Exti!FlagsShowPins

\* A level that stays, and was not lost on the way, ends up in its flag and stays
\* there, however the edges before it were spaced (interr.c:39-75).
SteadyLevelReachesFlag ==
    /\ <>[]("pir" \in active \ lost) => <>[]sensor_status
    /\ <>[]("button" \notin active \cup lost) => <>[]~flag_pressed

\* A press or a movement that lasts from the start of fsm_fire to its end, and
\* whose edge was not lost, does not go unnoticed, except in OPENING; a shorter one
\* may, the flags being levels (port_button.c:33, port_pir_sensor.c:24,
\* fsm_automatic_door.c:28-41).
ScanSeesHeldPin ==
    [][NoTransition /\ current_state # "OPENING" => held = {}]_systemVars

\* A button kept down, or a movement that does not end, opens the door, and
\* opens it again if it closes: whatever the order of the table, it is open
\* again and again. It is enough that of two inputs one was not lost
\* (src/README.md:95, 124).
HeldPinOpens ==
    \A ls \in SUBSET {"button", "pir"} \ {{}} :
        <>[](active = ls /\ ~(ls \subseteq lost)) => []<>(current_state = "OPEN")

\* Once nobody moves and the button is up, and neither change was lost, the door
\* closes for good: no flag is left behind by all that came before, edges in the
\* windows included (interr.c:42-75, src/README.md:110).
QuietPinsClose ==
    <>[](active = {} /\ lost = {}) => <>[](current_state = "CLOSED")
=============================================================================
