-------------------------- MODULE ExtiInputsProofs --------------------------
(****************************************************************************)
(* The input flags are the levels of their pins, but for a level whose edge *)
(* was lost, whatever order the edges and the accesses come in: inside the  *)
(* two windows of the handler and outside, whatever is active at start-up.  *)
(****************************************************************************)
EXTENDS ExtiInputs, TLAPS

ServingButton == {"button_load", "button_store"}
ServingPir == {"pir_load", "pir_store"}

Types == /\ pc \in {"thread", "button", "pir"} \cup ServingButton \cup ServingPir
         /\ active \subseteq F!Lines
         /\ pr \subseteq F!Lines
         /\ lost \subseteq F!Lines
         /\ flag_pressed \in BOOLEAN
         /\ sensor_status \in BOOLEAN

\* A line whose level the flag does not show is lost, or pending and yet to be read.
Shown == /\ "button" \notin lost /\ ("button" \notin pr \/ pc \in ServingButton) =>
               (flag_pressed <=> "button" \in active)
         /\ "pir" \notin lost /\ ("pir" \notin pr \/ pc \in ServingPir) =>
               (sensor_status <=> "pir" \in active)

\* The line being served is pending, and among those the handler has read.
Served == /\ pc \in ServingButton => "button" \in pr
          /\ pc \in ServingPir => "pir" \in pr
          /\ pc = "button_store" => "button" \in copy
          /\ pc = "pir_store" => "pir" \in copy

IInv == Types /\ Shown /\ Served

-----------------------------------------------------------------------------

\* At first all that is active is lost.
LEMMA InitIInv ==
    ASSUME BootActive \subseteq F!Lines, Init
    PROVE  IInv
BY DEF Init, F!Init, IInv, Types, Shown, Served, ServingButton, ServingPir

\* An edge makes its line pending, and lost if the line has been read already.
LEMMA EdgeIInv ==
    ASSUME IInv, NEW l \in F!Lines, Edge(l)
    PROVE  IInv'
<1> USE DEF IInv, Edge, F!Lines, ServingButton, ServingPir
<1>1. Types'
  BY DEF Types, flags
<1>2. Served'
  BY DEF Served, flags
<1>3. Shown'
  BY DEF Types, Shown, OwnWindow, flags
<1> QED
  BY <1>1, <1>2, <1>3

\* Each access of the handler keeps it too.
LEMMA HandlerIInv ==
    ASSUME IInv, EXTI15_10_IRQHandler
    PROVE  IInv'
<1> USE DEF IInv, Types, Shown, Served, F!Lines, ServingButton, ServingPir, flags
<1>1. CASE Enter
  BY <1>1 DEF Enter
<1>2. CASE Button
  <2>1. UNCHANGED <<active, pr, copy, lost, sensor_status>>
    BY <1>2 DEF Button, F!ButtonBranch
  <2>2. CASE "button" \notin pr
    BY <1>2, <2>1, <2>2 DEF Button
  <2>3. CASE "button" \in pr
    <3>1. pc' = "button_load" /\ (flag_pressed' <=> "button" \in active)
      BY <1>2, <2>3 DEF Button, F!ButtonBranch, port_button_read_gpio
    <3>2. flag_pressed' \in BOOLEAN
      BY <1>2, <2>3 DEF Button, F!ButtonBranch, port_button_read_gpio
    <3> QED
      BY <1>2, <2>1, <2>3, <3>1, <3>2 DEF Button
  <2> QED
    BY <2>2, <2>3
<1>3. CASE LoadPending("button_load", "button_store")
  BY <1>3 DEF LoadPending
<1>4. CASE StorePending("button_store", "button", "pir")
  BY <1>4 DEF StorePending
<1>5. CASE Pir
  <2>1. UNCHANGED <<active, pr, copy, lost, flag_pressed>>
    BY <1>5 DEF Pir, F!PirBranch, F!port_pir_sensor_set_status
  <2>2. CASE "pir" \notin pr
    BY <1>5, <2>1, <2>2 DEF Pir
  <2>3. CASE "pir" \in pr
    <3>1. pc = "pir" /\ pc' = "pir_load" /\ F!PirBranch("pir" \in active)
      BY <1>5, <2>3 DEF Pir, port_pir_sensor_read_gpio
    <3>2. (sensor_status' <=> "pir" \in active) /\ sensor_status' \in BOOLEAN
      BY <3>1 DEF F!PirBranch, F!port_pir_sensor_set_status
    <3> QED
      BY <1>5, <2>1, <2>3, <3>1, <3>2
  <2> QED
    BY <2>2, <2>3
<1>6. CASE LoadPending("pir_load", "pir_store")
  BY <1>6 DEF LoadPending
<1>7. CASE StorePending("pir_store", "pir", "thread")
  BY <1>7 DEF StorePending
<1> QED
  BY <1>1, <1>2, <1>3, <1>4, <1>5, <1>6, <1>7 DEF EXTI15_10_IRQHandler

LEMMA StutterIInv ==
    ASSUME IInv, UNCHANGED vars
    PROVE  IInv'
BY DEF IInv, Types, Shown, Served, vars, flags

\* The invariant holds throughout.
THEOREM Invariance ==
    ASSUME BootActive \subseteq F!Lines
    PROVE  Spec => []IInv
<1>1. Init => IInv
  BY InitIInv
<1>2. IInv /\ [Next]_vars => IInv'
  BY EdgeIInv, HandlerIInv, StutterIInv DEF Next
<1> QED
  BY <1>1, <1>2, PTL DEF Spec

\* With every interrupt served each flag is the level of its pin, or the level is
\* one of start-up or its edge came in a window: for edges in any order, in both
\* windows, in one or in none (interr.c:39-75).
THEOREM FlagsShow ==
    ASSUME BootActive \subseteq F!Lines
    PROVE  Spec => []FlagsShowPins
<1>1. IInv => FlagsShowPins
  BY DEF IInv, Shown, FlagsShowPins, AtRest
<1> QED
  BY <1>1, Invariance, PTL
=============================================================================
