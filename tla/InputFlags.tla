----------------------------- MODULE InputFlags -----------------------------
(***************************************************************************)
(* The flags of the emergency button (port_button.c) and of the PIR sensor *)
(* (port_pir_sensor.c), and what each branch of EXTI15_10_IRQHandler does  *)
(* to them.  The button's pin is low while it is pressed.                  *)
(***************************************************************************)

VARIABLES flag_pressed, flag_released,  \* port_button_hw_t
          sensor_status                 \* port_pir_hw_t

Lines == {"button", "pir"}

TypeOK == /\ flag_pressed \in BOOLEAN
          /\ flag_released \in BOOLEAN
          /\ sensor_status \in BOOLEAN

Init == /\ flag_pressed = FALSE
        /\ flag_released = FALSE
        /\ sensor_status = FALSE

\* Mutant of ButtonBranch: a release does not reset the pressed flag.
ButtonBranchLatching(pressed) ==
    /\ flag_pressed' = (flag_pressed \/ pressed)
    /\ flag_released' = (~pressed /\ (flag_released \/ flag_pressed))
    /\ UNCHANGED sensor_status

\* The button's branch, "pressed" being the level it reads. A release counts
\* only after a press.
ButtonBranch(pressed) ==
    /\ flag_pressed' = pressed
    /\ flag_released' = (~pressed /\ (flag_released \/ flag_pressed))
    /\ UNCHANGED sensor_status

port_pir_sensor_set_status(status) ==
    /\ sensor_status' = status
    /\ UNCHANGED <<flag_pressed, flag_released>>

\* The sensor's branch: the status is the level it reads.
PirBranch(moving) == \/ moving /\ port_pir_sensor_set_status(TRUE)
                     \/ ~moving /\ port_pir_sensor_set_status(FALSE)

\* What the state machine reads.
port_button_is_pressed == flag_pressed

port_pir_sensor_get_status == sensor_status
=============================================================================
