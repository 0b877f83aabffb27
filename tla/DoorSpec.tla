------------------------------ MODULE DoorSpec ------------------------------
(***************************************************************************)
(* What the automatic door promises: it goes round CLOSED, OPENING, OPEN,  *)
(* CLOSING; it turns back only from CLOSING to OPENING; and it leaves      *)
(* OPENING, OPEN and CLOSING on their timeouts no earlier than the motor   *)
(* needs, counted from when the state was entered or, in OPEN, from the    *)
(* last presence that kept the door open.                                  *)
(***************************************************************************)
EXTENDS Naturals

CONSTANTS OpeningClosing,   \* AUTOMATIC_DOOR_OPENING_CLOSING_TIMEOUT_MS
          Inactivity,       \* AUTOMATIC_DOOR_INACTIVITY_TIMEOUT_MS
          Horizon           \* elapsed time is not told apart beyond this bound

VARIABLES door,     \* one of FSM_AUTOMATIC_DOOR_STATES
          dwell     \* time in this state, up to Horizon, 0 while it is CLOSED

vars == <<door, dwell>>

Init == door = "CLOSED" /\ dwell = 0

Move(from, to) == door = from /\ door' = to /\ dwell' = 0

Next == \/ Move("CLOSED", "OPENING")
        \/ dwell >= OpeningClosing /\ Move("OPENING", "OPEN")
        \/ Move("OPEN", "OPEN")
        \/ dwell >= Inactivity /\ Move("OPEN", "CLOSING")
        \/ Move("CLOSING", "OPENING")
        \/ dwell >= OpeningClosing /\ Move("CLOSING", "CLOSED")
        \/ /\ door # "CLOSED" /\ dwell < Horizon
           /\ dwell' = dwell + 1
           /\ UNCHANGED door

Spec == Init /\ [][Next]_vars
=============================================================================
