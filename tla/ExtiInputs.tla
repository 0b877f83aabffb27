----------------------------- MODULE ExtiInputs -----------------------------
(***************************************************************************)
(* How the two input flags follow the two pins: the EXTI pending register, *)
(* and EXTI15_10_IRQHandler (interr.c) step by step, against edges that    *)
(* arrive while it runs.                                                   *)
(*                                                                         *)
(* The handler serves the button first.  It clears the line it served with *)
(* EXTI->PR |= mask: the register is read, and every bit read as one is    *)
(* written back as one, which clears it.                                   *)
(***************************************************************************)
EXTENDS Naturals

CONSTANTS Windows,      \* where edges may also arrive: {"cross", "own"} or less
          BootActive    \* lines that may be active already at start-up

VARIABLES pc,       \* where the handler is, "thread" outside it
          active,   \* lines whose device is pressed or detecting: the levels
          pr,       \* EXTI->PR, the pending lines
          copy,     \* the value of EXTI->PR the handler has read
          lost,     \* history: lines whose level of now nobody is to look at
          flag_pressed, flag_released, sensor_status

F == INSTANCE InputFlags

flags == <<flag_pressed, flag_released, sensor_status>>
vars == <<pc, active, pr, copy, lost, flags>>

\* A line that is active already has no edge to be noticed by.
Init == /\ pc = "thread"
        /\ active \in SUBSET BootActive
        /\ pr = {} /\ copy = {}
        /\ lost = active
        /\ F!Init

-----------------------------------------------------------------------------
(* The pins.  Both edges of both lines are enabled.                        *)

\* Both lines pending while a read of EXTI->PR is still to come: the branch that
\* reads it clears the other line too.
CrossWindow(l) == /\ pc \notin {"button_store", "pir_store"}
                  /\ (F!Lines \ {l}) \cap pr # {}

\* Line l was read and its pending bit is not cleared yet.
OwnWindow(l) == \/ l = "button" /\ pc \in {"button_load", "button_store"}
                \/ l = "pir"    /\ pc \in {"pir_load", "pir_store"}

Edge(l) ==
    /\ CrossWindow(l) => "cross" \in Windows
    /\ OwnWindow(l) => "own" \in Windows
    /\ active' = IF l \in active THEN active \ {l} ELSE active \cup {l}
    /\ pr' = pr \cup {l}
    /\ lost' = IF OwnWindow(l) THEN lost \cup {l} ELSE lost \ {l}
    /\ UNCHANGED <<pc, copy, flags>>

-----------------------------------------------------------------------------
(* The handler.  It runs with nothing of its own vector nested in it; what  *)
(* it tests and the level it then reads are one step, since an edge between *)
(* the two only refreshes a bit that is already set.                        *)

\* The levels of the pins: the button's is low while it is pressed.
port_button_read_gpio == "button" \notin active

port_pir_sensor_read_gpio == "pir" \in active

Enter ==
    /\ pc = "thread" /\ pr # {}
    /\ pc' = "button"
    /\ UNCHANGED <<active, pr, copy, lost, flags>>

\* Mutant of Button: a release is not noted.
ButtonReleaseUnnoted ==
    /\ pc = "button"
    /\ \/ /\ "button" \in pr
          /\ flag_pressed' = ~port_button_read_gpio
          /\ UNCHANGED <<flag_released, sensor_status>>
          /\ pc' = "button_load"
       \/ /\ "button" \notin pr
          /\ pc' = "pir"
          /\ UNCHANGED flags
    /\ UNCHANGED <<active, pr, copy, lost>>

Button ==
    /\ pc = "button"
    /\ \/ /\ "button" \in pr
          /\ F!ButtonBranch(~port_button_read_gpio)
          /\ pc' = "button_load"
       \/ /\ "button" \notin pr
          /\ pc' = "pir"
          /\ UNCHANGED flags
    /\ UNCHANGED <<active, pr, copy, lost>>

Pir ==
    /\ pc = "pir"
    /\ \/ /\ "pir" \in pr
          /\ F!PirBranch(port_pir_sensor_read_gpio)
          /\ pc' = "pir_load"
       \/ /\ "pir" \notin pr
          /\ pc' = "thread"
          /\ UNCHANGED flags
    /\ UNCHANGED <<active, pr, copy, lost>>

\* EXTI->PR |= BIT_POS_TO_MASK(pin): the read ...
LoadPending(from, to) ==
    /\ pc = from
    /\ pc' = to
    /\ copy' = pr
    /\ UNCHANGED <<active, pr, lost, flags>>

\* Mutant of StorePending: every pending bit is cleared.
StoreAll(from, l, to) ==
    /\ pc = from
    /\ pc' = to
    /\ pr' = {}
    /\ copy' = {}
    /\ lost' = lost \cup ((pr \cap copy) \ {l})
    /\ UNCHANGED <<active, flags>>

\* ... and the write, in which a one clears the bit.
StorePending(from, l, to) ==
    /\ pc = from
    /\ pc' = to
    /\ pr' = pr \ (copy \cup {l})
    /\ copy' = {}
    /\ lost' = lost \cup ((pr \cap copy) \ {l})
    /\ UNCHANGED <<active, flags>>

EXTI15_10_IRQHandler ==
    \/ Enter
    \/ Button
    \/ LoadPending("button_load", "button_store")
    \/ StorePending("button_store", "button", "pir")
    \/ Pir
    \/ LoadPending("pir_load", "pir_store")
    \/ StorePending("pir_store", "pir", "thread")

Next == EXTI15_10_IRQHandler \/ \E l \in F!Lines : Edge(l)

\* The interrupt controller runs the handler while a line is pending.
Spec == Init /\ [][Next]_vars /\ WF_vars(EXTI15_10_IRQHandler)

-----------------------------------------------------------------------------
(* Properties.                                                             *)

AtRest == pc = "thread" /\ pr = {}

\* With every interrupt served each flag is the level of its pin, unless that level
\* was there at start-up, or its edge came in one of the two windows and none came
\* since: there is no fourth way to a stale flag (interr.c:39-75).
FlagsShowPins ==
    AtRest => /\ "pir" \notin lost => (sensor_status <=> "pir" \in active)
              /\ "button" \notin lost => (flag_pressed <=> "button" \in active)

\* With every interrupt served, the sensor's status is the level of its pin
\* (port_pir_sensor.h:33): no edge was cleared without being looked at.
PirTracksPin == AtRest => (sensor_status <=> "pir" \in active)

\* With every interrupt served, the pressed flag is the level of the button's
\* pin: the door is not held open by a button that is up (interr.c:42-59).
ButtonTracksPin == AtRest => (flag_pressed <=> "button" \in active)

\* A level that stays ends up in the flag and stays there, however the edges
\* before it were spaced: the handler returns and is entered again as long as a
\* line is pending (interr.c:39-75).
SteadyLevelIsSeen ==
    /\ <>[]("pir" \in active) => <>[]sensor_status
    /\ <>[]("button" \notin active) => <>[]~flag_pressed
=============================================================================
