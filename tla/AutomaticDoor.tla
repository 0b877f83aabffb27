---------------------------- MODULE AutomaticDoor ----------------------------
(***************************************************************************)
(* The automatic door: the main loop of main.c, the finite state machine   *)
(* of fsm_automatic_door.c statement by statement, and the interrupts that *)
(* change its inputs, its timeout, its LEDs and the clock meanwhile.       *)
(*                                                                         *)
(* The motor's timer appears as the one-shot timer MotorTimer implements.  *)
(* Interrupt handlers run to completion before the main program goes on.   *)
(***************************************************************************)
EXTENDS Naturals, Sequences

CONSTANTS Table,            \* fsm_trans_automatic_door
          OpeningClosing,   \* AUTOMATIC_DOOR_OPENING_CLOSING_TIMEOUT_MS
          Inactivity,       \* AUTOMATIC_DOOR_INACTIVITY_TIMEOUT_MS
          Horizon,          \* elapsed time is not told apart beyond this bound
          Wrap              \* msTicks counts modulo this, 2^32 in the program

VARIABLES current_state, presence_or_button_status, last_time,  \* the FSM
          previous_presence_status, console,                    \* main
          pc, row,                  \* where the main program is
          flag_pressed, flag_released, sensor_status,           \* the inputs
          timeout, armed, period, since,                        \* the motor
          odr, word, blinking,                                  \* the LEDs
          msTicks

Input == INSTANCE InputFlags
Motor == INSTANCE OneShotTimer WITH Durations <- {OpeningClosing, Inactivity}
Led == INSTANCE Leds

\* The parts of the state: fsm_automatic_door_t, the locals of main,
\* port_button_hw_t and port_pir_hw_t, port_motor_hw_t, port_led_hw_t.
fsm == <<current_state, presence_or_button_status, last_time>>
loop == <<previous_presence_status, console>>
inputs == <<flag_pressed, flag_released, sensor_status>>
motor == <<timeout, armed, period, since>>
leds == <<odr, word, blinking>>
vars == <<pc, row, fsm, loop, inputs, motor, leds, msTicks>>

-----------------------------------------------------------------------------
(* The transition table: the six arcs of the door, in an order the         *)
(* repository leaves open (docs/assets/imgs/fsm_automatic_door.png).       *)

PresenceChecks == {"check_open", "check_keep_open", "check_presence_or_button"}
TimeoutChecks == {"check_opening_timeout", "check_closing_timeout"}

Arc(orig, in, dest, out) == [orig |-> orig, in |-> in, dest |-> dest, out |-> out]

Arcs == { Arc("CLOSED",  "check_open",               "OPENING", "do_open_door"),
          Arc("OPENING", "check_opening_timeout",    "OPEN",    "do_stay_open"),
          Arc("OPEN",    "check_keep_open",          "OPEN",    "do_keep_open"),
          Arc("OPEN",    "check_closing_timeout",    "CLOSING", "do_close_door"),
          Arc("CLOSING", "check_presence_or_button", "OPENING", "do_stop_closing_door"),
          Arc("CLOSING", "check_closing_timeout",    "CLOSED",  "do_stay_closed") }

ASSUME DoorAssumption ==
    /\ Table \in Seq(Arcs)
    /\ \A a \in Arcs : \E i \in 1 .. Len(Table) : Table[i] = a
    /\ Horizon \in Nat
    /\ OpeningClosing \in 1 .. Horizon /\ Inactivity \in 1 .. Horizon
    /\ Wrap \in Nat \ {0}

States == {"CLOSED", "OPENING", "OPEN", "CLOSING"}

\* fsm_automatic_door_init: closed, red LED on, every flag and timer at rest;
\* no line on the console, which Wrap, not a time, stands for.
Init == /\ current_state = "CLOSED"
        /\ presence_or_button_status = FALSE
        /\ last_time = 0
        /\ previous_presence_status = FALSE
        /\ console = Wrap
        /\ pc = "scan" /\ row = 1
        /\ Input!Init
        /\ Motor!Init
        /\ Led!Init
        /\ msTicks = 0

-----------------------------------------------------------------------------
(* The main program: one statement from label to label.                    *)

Goto(from, to) == pc = from /\ pc' = to

LedStep(from, to, A) ==
    /\ Goto(from, to) /\ A
    /\ UNCHANGED <<row, fsm, loop, inputs, motor, msTicks>>

MotorStep(from, to, A) ==
    /\ Goto(from, to) /\ A
    /\ UNCHANGED <<row, fsm, loop, inputs, leds, msTicks>>

\* fsm_fire: the rows of the current state, from row i on.
Matching(i) == {j \in i .. Len(Table) : Table[j].orig = current_state}

\* A condition holds: fsm_fire moves to the row's state and calls its action.
Take(a) ==
    /\ current_state' = a.dest
    /\ pc' = a.out
    /\ row' = 1
    /\ UNCHANGED <<presence_or_button_status, last_time, loop, inputs, motor,
                   leds, msTicks>>

\* A condition does not hold: fsm_fire goes on to row i + 1.
Skip(i) ==
    /\ pc' = "scan"
    /\ row' = i + 1
    /\ UNCHANGED <<fsm, loop, inputs, motor, leds, msTicks>>

\* check_opening_timeout and check_closing_timeout.
CheckTimeout(i) ==
    /\ Table[i].in \in TimeoutChecks
    /\ \/ timeout /\ Take(Table[i])
       \/ ~timeout /\ Skip(i)

\* Mutant of CheckSensor: the answer is the button's alone.
CheckSensorIgnored(i) ==
    /\ Table[i].in \in PresenceChecks
    /\ pc' = "button"
    /\ row' = i
    /\ UNCHANGED <<fsm, loop, inputs, motor, leds, msTicks>>

\* check_open and the two that call it read the sensor, then the button,
\* whatever the sensor said.
CheckSensor(i) ==
    /\ Table[i].in \in PresenceChecks
    /\ pc' = IF Input!port_pir_sensor_get_status THEN "button_present" ELSE "button"
    /\ row' = i
    /\ UNCHANGED <<fsm, loop, inputs, motor, leds, msTicks>>

CheckButton ==
    /\ pc \in {"button", "button_present"}
    /\ LET present == pc = "button_present" \/ Input!port_button_is_pressed
       IN  \/ present /\ Take(Table[row])
           \/ ~present /\ Skip(row)

Scan == /\ pc = "scan"
        /\ \E i \in Matching(row) :
             /\ \A j \in Matching(row) : i <= j
             /\ CheckTimeout(i) \/ CheckSensor(i)

\* No row is left: fsm_fire returns.
NoTransition ==
    /\ Goto("scan", "poll")
    /\ Matching(row) = {}
    /\ row' = 1
    /\ UNCHANGED <<fsm, loop, inputs, motor, leds, msTicks>>

fsm_fire == Scan \/ CheckButton \/ NoTransition

SetPresence(b) ==
    /\ presence_or_button_status' = b
    /\ UNCHANGED <<row, current_state, last_time, loop, inputs, motor,
                   leds, msTicks>>

SetLastTime ==
    /\ last_time' = msTicks
    /\ UNCHANGED <<row, current_state, presence_or_button_status, loop, inputs,
                   motor, leds, msTicks>>

\* Mutant of do_open_door: the motor's timer is not activated.
OpenWithoutMotor ==
    \/ LedStep("do_open_door", "open_off", Led!Load)
    \/ LedStep("open_off", "open_blink", Led!Off("led_closing"))
    \/ LedStep("open_blink", "open_update", Led!EnableTimer("led_opening"))
    \/ LedStep("open_update", "open_flag", Led!UpdateTimer("led_opening"))
    \/ Goto("open_flag", "open_time") /\ SetPresence(TRUE)
    \/ Goto("open_time", "poll") /\ SetLastTime

do_open_door ==
    \/ LedStep("do_open_door", "open_off", Led!Load)
    \/ LedStep("open_off", "open_blink", Led!Off("led_closing"))
    \/ LedStep("open_blink", "open_update", Led!EnableTimer("led_opening"))
    \/ LedStep("open_update", "open_motor", Led!UpdateTimer("led_opening"))
    \/ MotorStep("open_motor", "open_flag", Motor!Arm(OpeningClosing))
    \/ Goto("open_flag", "open_time") /\ SetPresence(TRUE)
    \/ Goto("open_time", "poll") /\ SetLastTime

\* Mutant of do_stay_open: the LED goes on blinking.
StayOpenBlinking ==
    \/ LedStep("do_stay_open", "stay_open_on", Led!Load)
    \/ LedStep("stay_open_on", "stay_open_motor", Led!On("led_opening"))
    \/ MotorStep("stay_open_motor", "poll", Motor!Arm(Inactivity))

do_stay_open ==
    \/ LedStep("do_stay_open", "stay_open_on", Led!Load)
    \/ LedStep("stay_open_on", "stay_open_steady", Led!On("led_opening"))
    \/ LedStep("stay_open_steady", "stay_open_motor", Led!DisableTimer("led_opening"))
    \/ MotorStep("stay_open_motor", "poll", Motor!Arm(Inactivity))

do_keep_open == MotorStep("do_keep_open", "poll", Motor!Arm(Inactivity))

\* Mutant of do_close_door: the presence flag is not reset.
CloseKeepingPresence ==
    \/ LedStep("do_close_door", "close_off", Led!Load)
    \/ LedStep("close_off", "close_blink", Led!Off("led_opening"))
    \/ LedStep("close_blink", "close_update", Led!EnableTimer("led_closing"))
    \/ LedStep("close_update", "close_motor", Led!UpdateTimer("led_closing"))
    \/ MotorStep("close_motor", "poll", Motor!Arm(OpeningClosing))

do_close_door ==
    \/ LedStep("do_close_door", "close_off", Led!Load)
    \/ LedStep("close_off", "close_blink", Led!Off("led_opening"))
    \/ LedStep("close_blink", "close_update", Led!EnableTimer("led_closing"))
    \/ LedStep("close_update", "close_motor", Led!UpdateTimer("led_closing"))
    \/ MotorStep("close_motor", "close_flag", Motor!Arm(OpeningClosing))
    \/ Goto("close_flag", "poll") /\ SetPresence(FALSE)

\* Mutant of do_stop_closing_door: the LED goes on blinking.
StopBlinking == MotorStep("do_stop_closing_door", "do_open_door", Motor!Disarm)

do_stop_closing_door ==
    \/ LedStep("do_stop_closing_door", "stop_motor", Led!DisableTimer("led_closing"))
    \/ MotorStep("stop_motor", "do_open_door", Motor!Disarm)

do_stay_closed ==
    \/ LedStep("do_stay_closed", "stay_closed_on", Led!Load)
    \/ LedStep("stay_closed_on", "stay_closed_steady", Led!On("led_closing"))
    \/ LedStep("stay_closed_steady", "stay_closed_motor", Led!DisableTimer("led_closing"))
    \/ MotorStep("stay_closed_motor", "poll", Motor!Disarm)

fsm_automatic_door_get_presence_status == presence_or_button_status

fsm_automatic_door_get_last_time_presence == last_time

\* The rest of the loop of main: announce a new presence with its time.
Poll ==
    /\ Goto("poll", "scan")
    /\ LET current == fsm_automatic_door_get_presence_status
       IN  /\ previous_presence_status' = current
           /\ console' = IF current /\ ~previous_presence_status
                           THEN fsm_automatic_door_get_last_time_presence
                           ELSE console
    /\ UNCHANGED <<row, fsm, inputs, motor, leds, msTicks>>

Main == \/ fsm_fire \/ do_open_door \/ do_stay_open \/ do_keep_open
        \/ do_close_door \/ do_stop_closing_door \/ do_stay_closed \/ Poll

-----------------------------------------------------------------------------
(* The interrupts.                                                         *)

\* Mutant of SysTick_Handler: the counter is wider than its users believe.
SysTickUnwrapped ==
    /\ msTicks' = msTicks + 1
    /\ Motor!Tick
    /\ UNCHANGED <<pc, row, fsm, loop, inputs, leds>>

\* A millisecond: SysTick_Handler, and the motor's counter.
SysTick_Handler ==
    /\ msTicks' = (msTicks + 1) % Wrap
    /\ Motor!Tick
    /\ UNCHANGED <<pc, row, fsm, loop, inputs, leds>>

\* Either line, at either level. Served together they are two steps in a row.
EXTI15_10_IRQHandler ==
    /\ \E level \in BOOLEAN : Input!ButtonBranch(level) \/ Input!PirBranch(level)
    /\ UNCHANGED <<pc, row, fsm, loop, motor, leds, msTicks>>

TIM2_IRQHandler ==
    /\ Motor!Expire
    /\ UNCHANGED <<pc, row, fsm, loop, inputs, leds, msTicks>>

TIM3_IRQHandler ==
    /\ Led!Blink("led_opening")
    /\ UNCHANGED <<pc, row, fsm, loop, inputs, motor, msTicks>>

TIM4_IRQHandler ==
    /\ Led!Blink("led_closing")
    /\ UNCHANGED <<pc, row, fsm, loop, inputs, motor, msTicks>>

Next == \/ Main
        \/ SysTick_Handler \/ EXTI15_10_IRQHandler
        \/ TIM2_IRQHandler \/ TIM3_IRQHandler \/ TIM4_IRQHandler

SafetySpec == Init /\ [][Next]_vars

\* The processor runs the main program, the clock ticks, and an interrupt the
\* motor's timer raises is taken.
Fairness == WF_vars(Main) /\ WF_vars(SysTick_Handler) /\ WF_vars(TIM2_IRQHandler)

Spec == SafetySpec /\ Fairness

-----------------------------------------------------------------------------
(* Properties.                                                             *)

\* Where the main program is between two actions of the state machine.
Watching == {"scan", "button", "button_present", "poll"}

\* The statements before an action has armed the motor's timer.
BeforeArming == {"do_open_door", "open_off", "open_blink", "open_update",
                 "open_motor", "do_stay_open", "stay_open_on",
                 "stay_open_steady", "stay_open_motor", "do_keep_open",
                 "do_close_door", "close_off", "close_blink", "close_update",
                 "close_motor", "do_stop_closing_door", "stop_motor"}

AfterArming == {"open_flag", "open_time", "close_flag"}

StayClosed == {"do_stay_closed", "stay_closed_on", "stay_closed_steady",
               "stay_closed_motor"}

TypeOK == /\ current_state \in States
          /\ presence_or_button_status \in BOOLEAN
          /\ previous_presence_status \in BOOLEAN
          /\ last_time \in 0 .. Wrap - 1
          /\ console \in 0 .. Wrap
          /\ pc \in Watching \cup BeforeArming \cup AfterArming \cup StayClosed
          /\ row \in 1 .. Len(Table) + 1
          /\ Input!TypeOK
          /\ Motor!TypeOK
          /\ Led!TypeOK
          /\ msTicks \in 0 .. Wrap - 1

\* The door as its users see it. The dwell in a state counts from the arming of
\* the timer; the time the action needs before that is not counted.
Door == INSTANCE DoorSpec WITH
    door  <- current_state,
    dwell <- IF pc \in BeforeArming \/ current_state = "CLOSED" THEN 0 ELSE since

\* The door moves only along its arcs, and never before the timeout of the
\* state it is in: a flag raised for an earlier state, or before the last
\* presence, moves nothing (fsm_automatic_door.c:50-113, port_motor.c:68-115).
ImplementsDoor == Door!Spec

\* The LED of the other direction is dark: neither a blink between two
\* statements of an action nor a timer left running lights it
\* (fsm_automatic_door.c:122-139, 181-196, 203-216).
OtherColourDark ==
    pc \in Watching =>
        /\ current_state \in {"OPENING", "OPEN"} => "led_closing" \notin odr
        /\ current_state \in {"CLOSING", "CLOSED"} => "led_opening" \notin odr

\* An LED blinks exactly while the door moves in its direction, whatever path
\* led there: each timer an action starts is stopped by the next one
\* (fsm_automatic_door.c:131, 155, 190, 209, 232).
BlinksWhileMoving ==
    pc \in Watching =>
        blinking = {l \in Led!Lamps : \/ l = "led_opening" /\ current_state = "OPENING"
                                      \/ l = "led_closing" /\ current_state = "CLOSING"}

\* Writing back the register of both LEDs never undoes a toggle of the other
\* one that came after the read (port_led.c:25-38).
NoLostToggle ==
    /\ pc \in {"open_off", "stay_closed_on"} =>
         word \ {"led_closing"} = odr \ {"led_closing"}
    /\ pc \in {"close_off", "stay_open_on"} =>
         word \ {"led_opening"} = odr \ {"led_opening"}

\* Whenever fsm_fire starts, the door has a presence exactly when it is opening
\* or open, and the last thing on the console is the time of that presence:
\* every opening is announced, a reopening too (main.c:38-47).
Announced ==
    pc = "scan" /\ row = 1 =>
        /\ presence_or_button_status <=> current_state \in {"OPENING", "OPEN"}
        /\ previous_presence_status <=> presence_or_button_status
        /\ presence_or_button_status => console = last_time

\* A door that is not closed has a timeout coming or come: no order of
\* stopping and starting the timer leaves it waiting for nothing
\* (fsm_automatic_door.c:203-216).
WayOut == pc \in Watching /\ current_state # "CLOSED" => armed \/ timeout

Presence == sensor_status \/ flag_pressed

\* With no more presence and no more presses, the door ends up closed for good.
ClosesWhenQuiet == <>[]~Presence => <>[](current_state = "CLOSED")

\* A sensor status, or a press, that lasts opens a closed or closing door. (The
\* two together do not have to: one may stand in for the other just as
\* check_open has read the one and not yet the other.)
PresenceOpens ==
    /\ (current_state \in {"CLOSED", "CLOSING"} /\ sensor_status)
         ~> (current_state = "OPENING" \/ ~sensor_status)
    /\ (current_state \in {"CLOSED", "CLOSING"} /\ flag_pressed)
         ~> (current_state = "OPENING" \/ ~flag_pressed)

\* An open door in front of which a presence lasts, or whose button is kept
\* down, stays open, if the table looks at the presence before the timeout
\* (README.md:116).
HeldOpen ==
    /\ [](pc = "scan" /\ row = 1 /\ current_state = "OPEN" /\ []sensor_status
            => [](current_state = "OPEN"))
    /\ [](pc = "scan" /\ row = 1 /\ current_state = "OPEN" /\ []flag_pressed
            => [](current_state = "OPEN"))

\* The green LED is on while the door is open (README.md:49, README.md:106).
GreenSteadyWhenOpen ==
    pc \in Watching /\ current_state = "OPEN" => "led_opening" \in odr

=============================================================================
