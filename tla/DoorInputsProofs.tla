-------------------------- MODULE DoorInputsProofs --------------------------
(***************************************************************************)
(* The door with its inputs served access by access is the door with its   *)
(* inputs served at once, so what is proved of the one holds of the other. *)
(* The flags are the levels of the pins but for a level that was lost, and *)
(* what is held over a scan, and was not lost, is seen.                    *)
(***************************************************************************)
EXTENDS DoorInputs, AutomaticDoorProofs

\* The handler's lemmas, for the handler as it is part of the door.
P == INSTANCE ExtiInputsProofs WITH pc <- isr

-----------------------------------------------------------------------------
(* Refinement.                                                             *)

LEMMA InitAtomic == SystemInit => Init
BY DEF SystemInit

\* An access of the handler is a branch of the atomic handler or changes nothing.
LEMMA NextAtomic == [SystemNext]_systemVars => [Next]_vars
<1> SUFFICES ASSUME [SystemNext]_systemVars PROVE [Next]_vars
  OBVIOUS
<1> USE DEF door, vars
<1>1. ASSUME NEW l \in {"button", "pir"}, PinEdge(l)
      PROVE  UNCHANGED vars
  BY <1>1 DEF PinEdge, Exti!Edge, Exti!flags, inputs
<1>2. CASE ServeInputs
  <2>1. \/ \E level \in BOOLEAN : Input!ButtonBranch(level) \/ Input!PirBranch(level)
        \/ UNCHANGED inputs
    BY <1>2 DEF ServeInputs, Exti!EXTI15_10_IRQHandler, Exti!Enter, Exti!Button,
       Exti!Pir, Exti!LoadPending, Exti!StorePending, Exti!flags, inputs,
       Exti!port_button_read_gpio, Exti!port_pir_sensor_read_gpio,
       Exti!F!ButtonBranch, Exti!F!PirBranch, Exti!F!port_pir_sensor_set_status,
       Input!ButtonBranch, Input!PirBranch, Input!port_pir_sensor_set_status
  <2> QED
    BY <1>2, <2>1 DEF ServeInputs, EXTI15_10_IRQHandler, Next
<1>3. CASE UNCHANGED systemVars
  BY <1>3 DEF systemVars
<1> QED
  BY <1>1, <1>2, <1>3 DEF SystemNext, Statement, Tick, Serve, Next

\* The door from its pins on implements the door that AutomaticDoor specifies.
THEOREM AtomicInputs == SystemSpec => ImplementsAtomicInputs
<1> QED
  BY InitAtomic, NextAtomic, PTL DEF SystemSpec, ImplementsAtomicInputs, SafetySpec

\* So it implements the specification of the door, and is never without a way
\* out, whatever the edges, inside the windows or not.
THEOREM DoorFromPins == SystemSpec => ImplementsDoor /\ []WayOut
<1> QED
  BY AtomicInputs, Refinement, AlwaysWayOut, PTL DEF ImplementsAtomicInputs

-----------------------------------------------------------------------------
(* The flags and the pins.                                                 *)

LEMMA InitPins == SystemInit => P!IInv
BY P!InitIInv, InputsAssumption
   DEF SystemInit, Exti!Init, P!Init, Exti!F!Init, P!F!Init, P!F!Lines

\* The two instances of the handler are one.
LEMMA SameEdge ==
    ASSUME NEW l, Exti!Edge(l)
    PROVE  P!Edge(l)
BY DEF Exti!Edge, Exti!CrossWindow, Exti!OwnWindow, Exti!flags, Exti!F!Lines,
       P!Edge, P!CrossWindow, P!OwnWindow, P!flags, P!F!Lines

LEMMA SameHandler == Exti!EXTI15_10_IRQHandler => P!EXTI15_10_IRQHandler
BY DEF Exti!EXTI15_10_IRQHandler, Exti!Enter, Exti!Button, Exti!Pir,
       Exti!LoadPending, Exti!StorePending, Exti!flags,
       Exti!port_button_read_gpio, Exti!port_pir_sensor_read_gpio,
       Exti!F!ButtonBranch, Exti!F!PirBranch, Exti!F!port_pir_sensor_set_status,
       P!EXTI15_10_IRQHandler, P!Enter, P!Button, P!Pir,
       P!LoadPending, P!StorePending, P!flags,
       P!port_button_read_gpio, P!port_pir_sensor_read_gpio,
       P!F!ButtonBranch, P!F!PirBranch, P!F!port_pir_sensor_set_status

\* Nothing but the handler changes the flags.
LEMMA OthersLeaveInputs ==
    ASSUME \/ Main \/ SysTick_Handler
           \/ TIM2_IRQHandler \/ TIM3_IRQHandler \/ TIM4_IRQHandler
    PROVE  UNCHANGED inputs
<1> USE DEF LedStep, MotorStep, SetPresence, SetLastTime
<1>1. CASE fsm_fire
  BY <1>1 DEF fsm_fire, Scan, CheckTimeout, CheckSensor, CheckButton, NoTransition,
     Take, Skip
<1>2. CASE do_open_door \/ do_stay_open \/ do_keep_open
  BY <1>2 DEF do_open_door, do_stay_open, do_keep_open
<1>3. CASE do_close_door \/ do_stop_closing_door \/ do_stay_closed \/ Poll
  BY <1>3 DEF do_close_door, do_stop_closing_door, do_stay_closed, Poll
<1>4. CASE SysTick_Handler \/ TIM2_IRQHandler \/ TIM3_IRQHandler \/ TIM4_IRQHandler
  BY <1>4 DEF SysTick_Handler, TIM2_IRQHandler, TIM3_IRQHandler, TIM4_IRQHandler
<1> QED
  BY <1>1, <1>2, <1>3, <1>4 DEF Main

LEMMA NextPins ==
    ASSUME P!IInv, [SystemNext]_systemVars
    PROVE  P!IInv'
<1>1. ASSUME NEW l \in {"button", "pir"}, PinEdge(l)
      PROVE  P!IInv'
  BY <1>1, SameEdge, P!EdgeIInv DEF PinEdge, P!F!Lines
<1>2. CASE ServeInputs
  BY <1>2, SameHandler, P!HandlerIInv DEF ServeInputs
<1>3. CASE \/ Statement \/ Tick
           \/ Serve(TIM2_IRQHandler) \/ Serve(TIM3_IRQHandler) \/ Serve(TIM4_IRQHandler)
  <2>1. UNCHANGED <<exti, inputs>>
    BY <1>3, OthersLeaveInputs DEF Statement, Tick, Serve
  <2> QED
    BY <2>1, P!StutterIInv DEF exti, inputs, P!vars, P!flags
<1>4. CASE UNCHANGED systemVars
  BY <1>4, P!StutterIInv DEF systemVars, exti, inputs, P!vars, P!flags
<1> QED
  BY <1>1, <1>2, <1>3, <1>4 DEF SystemNext

LEMMA PinsInvariance == SystemSpec => []P!IInv
<1>1. P!IInv /\ [SystemNext]_systemVars => P!IInv'
  BY NextPins
<1> QED
  BY InitPins, <1>1, PTL DEF SystemSpec

\* Whatever the edges, and whatever the door does meanwhile: with no interrupt of
\* the inputs pending, a flag that is not the level of its pin has one of the three
\* known causes (interr.c:58, interr.c:44, port_pir_sensor.c:37).
THEOREM FlagsArePins == SystemSpec => []FlagsShowPins
<1>1. P!IInv => FlagsShowPins
  BY DEF P!IInv, P!Shown, FlagsShowPins, Exti!FlagsShowPins, Exti!AtRest,
         P!ServingButton, P!ServingPir
<1> QED
  BY <1>1, PinsInvariance, PTL

-----------------------------------------------------------------------------
(* What is held over a scan is seen.                                       *)

\* A presence row of the current state has been looked at in this scan.
Passed == \E j \in 1 .. row - 1 : /\ Table[j].orig = current_state
                                  /\ Table[j].in \in PresenceChecks

Noticed == /\ held \subseteq active \ lost
           /\ pc = "button" => "pir" \notin held
           /\ pc \in {"scan", "button", "button_present"} /\ Passed => held = {}

\* When the main program runs the flags are the levels of the pins, or those are lost.
LEMMA IdleFlags ==
    ASSUME P!IInv, Idle
    PROVE  /\ "pir" \notin lost => (sensor_status <=> "pir" \in active)
           /\ "button" \notin lost => (flag_pressed <=> "button" \in active)
           /\ active \subseteq {"button", "pir"}
BY DEF Idle, P!IInv, P!Types, P!F!Lines, P!Shown, P!ServingButton, P!ServingPir

\* No other statement than those of fsm_fire goes past a row.
LEMMA OthersLeaveRow ==
    ASSUME IInv, Main, ~fsm_fire
    PROVE  row = 1 /\ row' = 1 /\ pc' # "button"
<1> USE DEF LedStep, MotorStep, SetPresence, SetLastTime, Goto, IInv, Control, CheckSteps
<1>1. CASE do_open_door \/ do_stay_open \/ do_keep_open
  BY <1>1 DEF do_open_door, do_stay_open, do_keep_open
<1>2. CASE do_close_door \/ do_stop_closing_door \/ do_stay_closed \/ Poll
  BY <1>2 DEF do_close_door, do_stop_closing_door, do_stay_closed, Poll
<1> QED
  BY <1>1, <1>2 DEF Main

\* Between this row and the next of the current state there is none of it.
LEMMA FirstMatching ==
    ASSUME TypeOK, NEW i \in Matching(row), \A j \in Matching(row) : i <= j
    PROVE  /\ i \in 1 .. Len(Table)
           /\ \A j \in 1 .. i - 1 : Table[j].orig = current_state => j \in 1 .. row - 1
BY DoorAssumption DEF Matching, TypeOK

LEMMA StatementNoticed ==
    ASSUME IInv, P!IInv, Noticed, Statement
    PROVE  Noticed'
<1>1. active' = active /\ lost' = lost
  BY DEF Statement, exti
<1>2. CASE pc' = "scan" /\ row' = 1
  BY <1>1, <1>2 DEF Statement, Noticed, Passed
<1>3. CASE ~(pc' = "scan" /\ row' = 1)
  <2>1. held' = held
    BY <1>3 DEF Statement
  <2>2. CASE ~fsm_fire
    BY <1>1, <2>1, <2>2, OthersLeaveRow DEF Statement, Noticed, Passed
  <2>3. CASE Scan
    <3>1. PICK i \in Matching(row) : /\ \A j \in Matching(row) : i <= j
                                     /\ CheckTimeout(i) \/ CheckSensor(i)
      BY <2>3 DEF Scan
    <3>2. /\ i \in 1 .. Len(Table)
          /\ \A j \in 1 .. i - 1 : Table[j].orig = current_state => j \in 1 .. row - 1
      BY <3>1, FirstMatching DEF IInv
    <3>3. CASE CheckTimeout(i) /\ Take(Table[i])
      <4>1. row' = 1 /\ pc' \notin {"scan", "button", "button_present"}
        BY <3>2, <3>3, RowIsArc, ArcCases DEF Take
      <4> QED
        BY <1>1, <2>1, <4>1 DEF Noticed
    <3>4. CASE CheckTimeout(i) /\ Skip(i)
      <4>1. Passed' => Passed
        BY <3>2, <3>4, ChecksDiffer DEF CheckTimeout, Skip, fsm, Passed
      <4> QED
        BY <1>1, <2>1, <2>3, <3>4, <4>1 DEF Scan, Skip, Noticed
    <3>5. CASE CheckSensor(i)
      <4>1. Passed' => Passed
        BY <3>2, <3>5 DEF CheckSensor, fsm, Passed
      <4>2. pc' = "button" => "pir" \notin held
        BY <3>5, IdleFlags DEF CheckSensor, Input!port_pir_sensor_get_status, Statement,
           Noticed
      <4> QED
        BY <1>1, <2>1, <2>3, <4>1, <4>2 DEF Scan, Noticed
    <3> QED
      BY <3>1, <3>3, <3>4, <3>5 DEF CheckTimeout
  <2>4. CASE CheckButton
    <3>1. row \in 1 .. Len(Table)
      BY <2>4 DEF CheckButton, IInv, Control, CheckSteps
    <3>2. CASE Take(Table[row])
      <4>1. row' = 1 /\ pc' \notin {"scan", "button", "button_present"}
        BY <3>1, <3>2, RowIsArc, ArcCases DEF Take
      <4> QED
        BY <1>1, <2>1, <4>1 DEF Noticed
    <3>3. CASE pc = "button" /\ ~flag_pressed /\ Skip(row)
      <4>1. held = {}
        BY <3>3, IdleFlags DEF Statement, Noticed
      <4> QED
        BY <1>1, <2>1, <4>1 DEF Noticed
    <3> QED
      BY <2>4, <3>2, <3>3 DEF CheckButton, Input!port_button_is_pressed
  <2>5. CASE NoTransition
    BY <1>1, <2>1, <2>5 DEF NoTransition, Goto, Noticed
  <2> QED
    BY <2>2, <2>3, <2>4, <2>5 DEF fsm_fire
<1> QED
  BY <1>2, <1>3

LEMMA NextNoticed ==
    ASSUME IInv, P!IInv, Noticed, [SystemNext]_systemVars
    PROVE  Noticed'
<1> USE DEF Noticed, Passed, door, fsm
<1>1. ASSUME NEW l \in {"button", "pir"}, PinEdge(l)
      PROVE  Noticed'
  BY <1>1 DEF PinEdge
<1>2. CASE ServeInputs
  <2>1. active' = active /\ held' = held \ lost'
    BY <1>2 DEF ServeInputs, Exti!EXTI15_10_IRQHandler, Exti!Enter, Exti!Button,
       Exti!Pir, Exti!LoadPending, Exti!StorePending
  <2> QED
    BY <1>2, <2>1 DEF ServeInputs
<1>3. CASE \/ Tick \/ Serve(TIM2_IRQHandler)
           \/ Serve(TIM3_IRQHandler) \/ Serve(TIM4_IRQHandler)
  BY <1>3 DEF Tick, Serve, exti, SysTick_Handler, TIM2_IRQHandler, TIM3_IRQHandler,
     TIM4_IRQHandler
<1>4. CASE UNCHANGED systemVars
  BY <1>4 DEF systemVars, exti
<1> QED
  BY <1>1, <1>2, <1>3, <1>4, StatementNoticed DEF SystemNext

\* Every state but OPENING has a row that looks at the inputs.
LEMMA PresenceRow ==
    ASSUME current_state \in States \ {"OPENING"}
    PROVE  \E j \in 1 .. Len(Table) : /\ Table[j].orig = current_state
                                      /\ Table[j].in \in PresenceChecks
<1>1. PICK a \in Arcs : a.orig = current_state /\ a.in \in PresenceChecks
  BY DEF States, Arcs, Arc, PresenceChecks
<1> QED
  BY <1>1, DoorAssumption

\* A scan that takes no arc missed no input that was active, and not lost, from its
\* beginning to its end, whatever the table and the edges (fsm_automatic_door.c:28-41).
THEOREM HeldPinsSeen == SystemSpec => ScanSeesHeldPin
<1>1. SystemInit => Noticed
  BY DEF SystemInit, Init, Noticed, Passed
<1>2. ASSUME IInv, Noticed, NoTransition, current_state # "OPENING"
      PROVE  held = {}
  <2>1. current_state \in States \ {"OPENING"} /\ row \in 1 .. Len(Table) + 1
    BY <1>2 DEF IInv, TypeOK
  <2>2. PICK j \in 1 .. Len(Table) : /\ Table[j].orig = current_state
                                     /\ Table[j].in \in PresenceChecks
    BY <2>1, PresenceRow
  <2>3. j \in 1 .. row - 1
    BY <1>2, <2>1, <2>2, DoorAssumption DEF NoTransition, Matching
  <2> QED
    BY <1>2, <2>2, <2>3 DEF NoTransition, Goto, Noticed, Passed
<1>3. SystemSpec => []IInv
  BY AtomicInputs, Invariance, PTL DEF ImplementsAtomicInputs
<1> QED
  BY <1>1, <1>2, <1>3, PinsInvariance, NextNoticed, PTL DEF SystemSpec, ScanSeesHeldPin

-----------------------------------------------------------------------------
(* What is held in front of an open door holds it open.                    *)

LEMMA StepKeeps ==
    ASSUME PresenceBeforeTimeout, IInv, P!IInv, [SystemNext]_systemVars,
           NEW l \in Lines, Kept(l), l \in active \ lost
    PROVE  Kept(l)'
<1>1. CASE Statement
  <2>1. Up(l)
    BY <1>1, IdleFlags DEF Statement, Up, Lines
  <2> QED
    BY <1>1, <2>1, NextKeeps DEF Statement, Next
<1>2. CASE ~Statement
  <2>1. UNCHANGED <<pc, row, current_state>>
    BY <1>2 DEF SystemNext, PinEdge, ServeInputs, Tick, Serve, door, fsm, systemVars,
       SysTick_Handler, TIM2_IRQHandler, TIM3_IRQHandler, TIM4_IRQHandler
  <2> QED
    BY <2>1 DEF Kept, KeepsOpen
<1> QED
  BY <1>1, <1>2

\* A movement that lasts, or a button kept down, holds an open door open from the
\* moment its pin is active, the edge still to be served or not, if that edge is not
\* lost and the table looks at the presence before the timeout (README.md:116).
THEOREM HeldPinsHoldOpen ==
    ASSUME PresenceBeforeTimeout, NEW l \in Lines
    PROVE  SystemSpec =>
             [](pc = "scan" /\ row = 1 /\ current_state = "OPEN" /\ [](l \in active \ lost)
                  => [](current_state = "OPEN"))
<1>1. pc = "scan" /\ row = 1 /\ current_state = "OPEN" => Kept(l)
  BY DEF Kept
<1>2. IInv /\ P!IInv /\ Kept(l) /\ l \in active \ lost /\ [SystemNext]_systemVars => Kept(l)'
  BY StepKeeps
<1>3. Kept(l) => current_state = "OPEN"
  BY DEF Kept
<1>4. SystemSpec => []IInv
  BY AtomicInputs, Invariance, PTL DEF ImplementsAtomicInputs
<1> QED
  BY <1>1, <1>2, <1>3, <1>4, PinsInvariance, PTL DEF SystemSpec
=============================================================================
