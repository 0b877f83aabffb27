----------------------------- MODULE PinConfig ------------------------------
(***************************************************************************)
(* Start-up of the pins: port_system_gpio_config,                          *)
(* port_system_gpio_config_exti and port_system_gpio_exti_enable           *)
(* (port_system.c), as the _init functions of the two inputs and of the    *)
(* two LEDs call them, with edges that arrive meanwhile.                   *)
(*                                                                         *)
(* A register is the set of its bits that are one.  A register shared by   *)
(* several pins is changed by clearing the bits of one field, and setting  *)
(* some of them again, at a place computed from the pin's number.          *)
(***************************************************************************)
EXTENDS Naturals

CONSTANTS Port, Pin     \* where each device is connected

VARIABLES pc,           \* the next statement, "call" between two _init calls
          device,       \* whose _init it is in
          done,         \* devices whose _init has returned
          clocks,       \* peripherals with a clock: RCC->AHB1ENR, APB2ENR
          moder, pupdr, \* GPIO registers, for each port
          exticr,       \* SYSCFG->EXTICR[0 .. 3]
          rtsr, ftsr, imr,  \* EXTI trigger and mask registers
          enabled,      \* EXTI15_10 is enabled in the NVIC
          high,         \* pins that are high
          pr,           \* EXTI->PR
          flag_pressed, flag_released, sensor_status,
          heard         \* inputs with an edge since both triggers were set

F == INSTANCE InputFlags

flags == <<flag_pressed, flag_released, sensor_status>>
gpio == <<clocks, moder, pupdr>>
exti == <<exticr, rtsr, ftsr, imr, enabled>>
pins == <<high, pr, flags, heard>>
vars == <<pc, device, done, gpio, exti, pins>>

Devices == F!Lines \cup {"led_opening", "led_closing"}
Ports == {"A", "B", "C"}

\* Every device has a pin of its own, none of PA13 to PA15, and the two inputs
\* have two lines of the vector EXTI15_10.
ASSUME PinAssumption ==
    /\ Port \in [Devices -> Ports]
    /\ Pin \in [Devices -> 0 .. 15]
    /\ \A d, e \in Devices : d # e => <<Port[d], Pin[d]>> # <<Port[e], Pin[e]>>
    /\ \A d \in Devices : Port[d] = "A" => Pin[d] < 13
    /\ \A l \in F!Lines : Pin[l] >= 10
    /\ \A l, m \in F!Lines : l # m => Pin[l] # Pin[m]

\* GPIO_MODE_IN and GPIO_MODE_OUT, and GPIO_PUPDR_NOPULL for everyone.
Mode(d) == IF d \in F!Lines THEN {} ELSE {0}
Pull == {}

\* A value "mask" moved up by n bits, and the width bits of a word from n on.
Shift(mask, n) == {b + n : b \in mask}
Field(word, width, n) == {b \in 0 .. width - 1 : b + n \in word}

\* Mutant of SetField: the field is not cleaned first.
OrField(word, width, n, value) == word \cup Shift(value, n)

\* Mutant of SetField: the register is assigned, not changed.
AssignField(word, width, n, value) == Shift(value, n)

SetField(word, width, n, value) ==
    (word \ Shift(0 .. width - 1, n)) \cup Shift(value, n)

\* Mutant of Displacement: the place in the array, not in the word.
DisplacementByPin(n) == n * 4

Displacement(n) == (n % 4) * 4
PortSelector == [A |-> {}, B |-> {0}, C |-> {1}]

\* The port whose pin n the hardware connects to EXTI line n.
Routed(n) == CHOOSE p \in Ports :
                PortSelector[p] = Field(exticr[n \div 4], 4, 4 * (n % 4))

\* The registers as reset leaves them: PA13 to PA15, PB3 and PB4 are the debug
\* port's, PB4 with a pull-up. The inputs have any level.
Init == /\ pc = "reset" /\ device = "button" /\ done = {}
        /\ clocks = {}
        /\ moder = [A |-> {27, 29, 31}, B |-> {7, 9}, C |-> {}]
        /\ pupdr = [A |-> {26, 29, 30}, B |-> {8}, C |-> {}]
        /\ exticr = [w \in 0 .. 3 |-> {}]
        /\ rtsr = {} /\ ftsr = {} /\ imr = {}
        /\ enabled = FALSE
        /\ high \in SUBSET F!Lines
        /\ pr = {} /\ heard = {}
        /\ F!Init

-----------------------------------------------------------------------------
(* The main program.  It calls the four _init functions in some order.     *)

port_system_init ==
    /\ pc = "reset" /\ pc' = "call"
    /\ clocks' = clocks \cup {"SYSCFG"}
    /\ UNCHANGED <<device, done, moder, pupdr, exti, pins>>

Call(d) ==
    /\ pc = "call" /\ d \notin done
    /\ pc' = "clock"
    /\ device' = d
    /\ UNCHANGED <<done, gpio, exti, pins>>

\* port_system_gpio_config: the port's clock, then the pin's two fields.  A
\* register without a clock keeps its value.
EnableClock ==
    /\ pc = "clock" /\ pc' = "fields"
    /\ clocks' = clocks \cup {Port[device]}
    /\ UNCHANGED <<device, done, moder, pupdr, exti, pins>>

\* The cleaning and the setting of both fields: nothing reads them in between.
ConfigurePin ==
    LET p == Port[device]
        n == 2 * Pin[device]
    IN  /\ pc = "fields"
        /\ \/ /\ p \in clocks
              /\ moder' = [moder EXCEPT ![p] = SetField(@, 2, n, Mode(device))]
              /\ pupdr' = [pupdr EXCEPT ![p] = SetField(@, 2, n, Pull)]
           \/ p \notin clocks /\ UNCHANGED <<moder, pupdr>>
        /\ \/ device \in F!Lines /\ pc' = "syscfg" /\ UNCHANGED done
           \/ device \notin F!Lines /\ pc' = "call" /\ done' = done \cup {device}
        /\ UNCHANGED <<device, clocks, exti, pins>>

\* port_system_gpio_config_exti: the clock of SYSCFG, the line's port, its
\* triggers and its mask. Nobody asks for events, so EXTI->EMR stays as it is.
EnableSyscfg ==
    /\ pc = "syscfg" /\ pc' = "route"
    /\ clocks' = clocks \cup {"SYSCFG"}
    /\ UNCHANGED <<device, done, moder, pupdr, exti, pins>>

Route ==
    LET n == Pin[device]
    IN  /\ pc = "route" /\ pc' = "rising"
        /\ \/ /\ "SYSCFG" \in clocks
              /\ exticr' = [exticr EXCEPT ![n \div 4] =
                    SetField(@, 4, Displacement(n), PortSelector[Port[device]])]
           \/ "SYSCFG" \notin clocks /\ UNCHANGED exticr
        /\ UNCHANGED <<device, done, gpio, rtsr, ftsr, imr, enabled, pins>>

SetRising ==
    /\ pc = "rising" /\ pc' = "falling"
    /\ rtsr' = rtsr \cup {Pin[device]}
    /\ UNCHANGED <<device, done, gpio, exticr, ftsr, imr, enabled, pins>>

\* Mutant of SetFalling: the falling edges are those of this line alone.
SetFallingOnly ==
    /\ pc = "falling" /\ pc' = "unmask"
    /\ ftsr' = {Pin[device]}
    /\ UNCHANGED <<device, done, gpio, exticr, rtsr, imr, enabled, pins>>

SetFalling ==
    /\ pc = "falling" /\ pc' = "unmask"
    /\ ftsr' = ftsr \cup {Pin[device]}
    /\ UNCHANGED <<device, done, gpio, exticr, rtsr, imr, enabled, pins>>

Unmask ==
    /\ pc = "unmask" /\ pc' = "enable"
    /\ imr' = imr \cup {Pin[device]}
    /\ UNCHANGED <<device, done, gpio, exticr, rtsr, ftsr, enabled, pins>>

\* port_system_gpio_exti_enable. Both pins are of the one vector EXTI15_10.
EnableVector ==
    /\ pc = "enable" /\ pc' = "call"
    /\ enabled' = TRUE
    /\ done' = done \cup {device}
    /\ UNCHANGED <<device, gpio, exticr, rtsr, ftsr, imr, pins>>

Startup == \/ port_system_init
           \/ \E d \in Devices : Call(d)
           \/ EnableClock \/ ConfigurePin
           \/ EnableSyscfg \/ Route \/ SetRising \/ SetFalling \/ Unmask
           \/ EnableVector

-----------------------------------------------------------------------------
(* The pins and the handler.                                               *)

Triggers(l) == IF l \in high THEN ftsr ELSE rtsr

\* A level changes. Only edges that find no other line pending: ExtiInputs has
\* the others.
Edge(l) ==
    LET n == Pin[l]
    IN  /\ pr \subseteq {n}
        /\ high' = IF l \in high THEN high \ {l} ELSE high \cup {l}
        /\ pr' = IF Routed(n) = Port[l] /\ n \in Triggers(l)
                 THEN pr \cup {n} ELSE pr
        /\ heard' = IF l \in done \/ (device = l /\ pc \in {"unmask", "enable"})
                    THEN heard \cup {l} ELSE heard
        /\ UNCHANGED <<pc, device, done, gpio, exti, flags>>

\* The handler serves the line that is pending; the button is pressed when low.
EXTI15_10_IRQHandler ==
    /\ enabled /\ pr \cap imr # {}
    /\ \/ Pin["button"] \in pr /\ F!ButtonBranch("button" \notin high)
       \/ Pin["pir"] \in pr /\ F!PirBranch("pir" \in high)
    /\ pr' = {}
    /\ UNCHANGED <<pc, device, done, gpio, exti, high, heard>>

Next == \/ Startup
        \/ EXTI15_10_IRQHandler
        \/ \E l \in F!Lines : Edge(l)

Spec == Init /\ [][Next]_vars

-----------------------------------------------------------------------------
(* Properties.                                                             *)

\* What any step must keep of the registers: bits that exist, and a port that
\* can be selected for each line (port_system.c:158-236).
TypeOK == /\ done \subseteq Devices
          /\ device \in Devices
          /\ clocks \subseteq Ports \cup {"SYSCFG"}
          /\ moder \in [Ports -> SUBSET (0 .. 31)]
          /\ pupdr \in [Ports -> SUBSET (0 .. 31)]
          /\ exticr \in [0 .. 3 -> SUBSET (0 .. 15)]
          /\ rtsr \cup ftsr \cup imr \cup pr \subseteq {Pin[l] : l \in F!Lines}
          /\ heard \subseteq F!Lines
          /\ F!TypeOK

\* What a device's _init asked for is what the registers hold once it returned,
\* whichever devices are initialised after it and whatever reset left in the
\* same word (port_system.c:173-178, 204-234).
Configured ==
    \A d \in done :
        LET n == Pin[d]
        IN  /\ Field(moder[Port[d]], 2, 2 * n) = Mode(d)
            /\ Field(pupdr[Port[d]], 2, 2 * n) = Pull
            /\ d \in F!Lines => /\ Routed(n) = Port[d]
                                /\ n \in rtsr \cap ftsr \cap imr
                                /\ enabled

\* The debug port's pins keep what reset gave them: the other init calls leave
\* the fields of PA13 to PA15 alone (port_system.c:173-178).
DebugPortKept ==
    \A n \in 13 .. 15 : /\ Field(moder["A"], 2, 2 * n) = {1}
                        /\ Field(pupdr["A"], 2, 2 * n) = IF n = 14 THEN {1} ELSE {0}

\* An edge that comes once the triggers are set is not lost, even if the vector
\* is enabled, or another device initialised, only later: with nothing left to
\* serve the flag is the pin's level (port_system.c:207-242).
EarlyEdgesSeen ==
    pr = {} => /\ "button" \in heard => (flag_pressed <=> "button" \notin high)
               /\ "pir" \in heard => (sensor_status <=> "pir" \in high)
=============================================================================
