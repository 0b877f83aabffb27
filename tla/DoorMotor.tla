------------------------------ MODULE DoorMotor ------------------------------
(***************************************************************************)
(* The door on the registers of its motor's timer: AutomaticDoor with each *)
(* arming a call of the driver of MotorTimer, write by write, and with the *)
(* interrupt and the counter of TIM2 as MotorTimer has them.               *)
(*                                                                         *)
(* "pc" is where the driver is; the main program, at "main", waits for it. *)
(***************************************************************************)
EXTENDS MotorTimer

CONSTANTS Table,                        \* of AutomaticDoor
          OpeningClosing, Inactivity,   \* the timeouts it asks for
          Wrap                          \* of msTicks

VARIABLES current_state, presence_or_button_status, last_time,
          previous_presence_status, console,
          main, row,
          flag_pressed, flag_released, sensor_status,
          odr, word, blinking,
          msTicks

\* The door as AutomaticDoor has it, over the one-shot timer the registers are.
Door == INSTANCE AutomaticDoor WITH
    pc      <- main,
    timeout <- timeout /\ pc # "timeout",
    armed   <- pc # "idle" \/ Pending \/ (cen /\ uie),
    period  <- request

\* The constants are those of the door, and the driver is asked for its timeouts.
ASSUME CallsAssumption ==
    /\ Door!DoorAssumption
    /\ {OpeningClosing, Inactivity} \subseteq Durations

rest == <<row, current_state, presence_or_button_status, last_time,
          previous_presence_status, console, flag_pressed, flag_released,
          sensor_status, odr, word, blinking>>
door == <<main, rest, msTicks>>
systemVars == <<door, vars>>

SystemInit == Init /\ Door!Init

-----------------------------------------------------------------------------
(* The main program.                                                       *)

\* A statement that calls the driver, from whose return it goes on at "to".
MotorCall(from, to, A) ==
    /\ main = from /\ main' = to
    /\ A
    /\ UNCHANGED <<rest, msTicks>>

CallMotor ==
    \/ MotorCall("open_motor", "open_flag", Activate(OpeningClosing))
    \/ MotorCall("stay_open_motor", "poll", Activate(Inactivity))
    \/ MotorCall("do_keep_open", "poll", Activate(Inactivity))
    \/ MotorCall("close_motor", "close_flag", Activate(OpeningClosing))
    \/ MotorCall("stop_motor", "do_open_door", Deactivate)
    \/ MotorCall("stay_closed_motor", "poll", Deactivate)

MotorCalls == {"open_motor", "stay_open_motor", "do_keep_open", "close_motor",
               "stop_motor", "stay_closed_motor"}

\* Any other statement waits for a call to return, and for the interrupt.
Statement == /\ pc = "idle" /\ ~Pending
             /\ main \notin MotorCalls
             /\ UNCHANGED vars
             /\ Door!Main

DriverStep == Call /\ UNCHANGED door

-----------------------------------------------------------------------------
(* The interrupts.                                                         *)

Millisecond == /\ Tick
               /\ msTicks' = (msTicks + 1) % Wrap
               /\ UNCHANGED <<main, rest>>

MotorInterrupt == TIM2_IRQHandler /\ UNCHANGED door

OtherInterrupt ==
    /\ UNCHANGED vars
    /\ Door!EXTI15_10_IRQHandler \/ Door!TIM3_IRQHandler \/ Door!TIM4_IRQHandler

SystemNext == \/ CallMotor \/ Statement \/ DriverStep
              \/ Millisecond \/ MotorInterrupt \/ OtherInterrupt

\* The processor runs the main program, in the driver and outside it, the clock
\* ticks, and the motor's interrupt is taken.
SystemSpec == /\ SystemInit /\ [][SystemNext]_systemVars
              /\ WF_systemVars(CallMotor \/ Statement)
              /\ WF_systemVars(DriverStep)
              /\ WF_systemVars(Millisecond)
              /\ WF_systemVars(MotorInterrupt)

-----------------------------------------------------------------------------
(* Properties.                                                             *)

\* On the registers the door is the one AutomaticDoor specifies: its timer, that
\* of MotorTimer, is in no order of calls and interrupts more than a one-shot
\* timer, not even when it is stopped as it expires (port_motor.c:68-121).
ImplementsAtomicMotor == Door!Init /\ [][Door!Next]_Door!vars

\* The timeout of a door that is not closed has come, or is pending, MaxStall
\* ticks after the time of its state at the latest: whatever the door asked of
\* the timer before, WayOut is not only there but there in time
\* (port_motor.c:76, 93-99, fsm_automatic_door.c:134, 158, 170, 193).
TimeoutOnTime ==
    /\ pc = "idle" /\ main \in Door!Watching /\ current_state # "CLOSED"
    /\ since >= (IF current_state = "OPEN" THEN Inactivity ELSE OpeningClosing)
                  + MaxStall
    => timeout \/ Pending

\* With no more presence and no more presses the door closes for good: no call
\* of the driver leaves a timer that never interrupts (port_motor.c:68-115).
ClosesOnRegisters ==
    <>[]~Door!Presence => <>[](current_state = "CLOSED")
=============================================================================
