------------------------- MODULE AutomaticDoorProofs -------------------------
(***************************************************************************)
(* The door implements its specification, its LEDs tell its state and its  *)
(* openings are announced, for every order of the transition table, every  *)
(* pair of timeouts and every wrap of the clock; and it stays open under a *)
(* presence, for every table that looks at the presence first.             *)
(***************************************************************************)
EXTENDS AutomaticDoor, TLAPS

-----------------------------------------------------------------------------
(* The inductive invariant, part by part.                                  *)

OpenSteps == {"do_open_door", "open_off", "open_blink", "open_update",
              "open_motor", "open_flag", "open_time"}
StayOpenSteps == {"do_stay_open", "stay_open_on", "stay_open_steady", "stay_open_motor"}
CloseSteps == {"do_close_door", "close_off", "close_blink", "close_update",
               "close_motor", "close_flag"}
StopSteps == {"do_stop_closing_door", "stop_motor"}
CheckSteps == {"button", "button_present"}

\* Which state each action runs in, and which row a presence check is of.
Control ==
    /\ pc \in OpenSteps \cup StopSteps => current_state = "OPENING"
    /\ pc \in StayOpenSteps \cup {"do_keep_open"} => current_state = "OPEN"
    /\ pc \in CloseSteps => current_state = "CLOSING"
    /\ pc \in StayClosed => current_state = "CLOSED"
    /\ pc \notin CheckSteps \cup {"scan"} => row = 1
    /\ pc \in CheckSteps => /\ row \in 1 .. Len(Table)
                            /\ Table[row].orig = current_state
                            /\ Table[row].in \in PresenceChecks

\* The timer runs for the state the door is in, and its flag is never early.
Timing ==
    /\ timeout => since >= period
    /\ pc \in Watching \cup AfterArming /\ current_state # "CLOSED" =>
         /\ armed \/ timeout
         /\ period = IF current_state = "OPEN" THEN Inactivity ELSE OpeningClosing

\* Which LED blinks, and which is dark, at each statement.
GreenBlinks ==
    \/ pc \in {"open_update", "open_motor", "open_flag", "open_time",
               "do_stay_open", "stay_open_on", "stay_open_steady"}
    \/ pc \in Watching /\ current_state = "OPENING"

RedBlinks ==
    \/ pc \in {"close_update", "close_motor", "close_flag", "do_stop_closing_door",
               "do_stay_closed", "stay_closed_on", "stay_closed_steady"}
    \/ pc \in Watching /\ current_state = "CLOSING"

GreenDark ==
    \/ pc \in {"close_blink", "close_update", "close_motor", "close_flag",
               "do_stop_closing_door", "stop_motor", "do_open_door", "open_off",
               "open_blink"} \cup StayClosed
    \/ pc \in Watching /\ current_state \in {"CLOSING", "CLOSED"}

RedDark ==
    \/ pc \in {"open_blink", "open_update", "open_motor", "open_flag", "open_time",
               "do_keep_open", "do_close_door", "close_off", "close_blink"}
              \cup StayOpenSteps
    \/ pc \in Watching /\ current_state \in {"OPENING", "OPEN"}

Lights ==
    /\ "led_opening" \in blinking <=> GreenBlinks
    /\ "led_closing" \in blinking <=> RedBlinks
    /\ GreenDark => "led_opening" \notin odr
    /\ RedDark => "led_closing" \notin odr
    /\ NoLostToggle

\* The presence flag and main's copy of it, at each statement.
Console ==
    /\ presence_or_button_status <=>
         \/ pc \in Watching /\ current_state \in {"OPENING", "OPEN"}
         \/ pc \in {"open_time", "do_keep_open"} \cup StayOpenSteps \cup CloseSteps
    /\ pc \in CheckSteps \cup {"scan"} =>
         previous_presence_status = presence_or_button_status
    /\ pc \in OpenSteps \cup StopSteps \cup StayClosed => ~previous_presence_status
    /\ previous_presence_status /\ presence_or_button_status => console = last_time

IInv == TypeOK /\ Control /\ Timing /\ Lights /\ Console

-----------------------------------------------------------------------------
(* What fsm_fire does, whatever the order of the table.                    *)

\* The six arcs: where each leads, what it runs, which kind of check it has.
LEMMA ArcCases ==
    ASSUME NEW a \in Arcs
    PROVE  \/ /\ a.orig = "CLOSED" /\ a.dest = "OPENING" /\ a.out = "do_open_door"
              /\ a.in \in PresenceChecks
           \/ /\ a.orig = "OPENING" /\ a.dest = "OPEN" /\ a.out = "do_stay_open"
              /\ a.in \in TimeoutChecks
           \/ /\ a.orig = "OPEN" /\ a.dest = "OPEN" /\ a.out = "do_keep_open"
              /\ a.in \in PresenceChecks
           \/ /\ a.orig = "OPEN" /\ a.dest = "CLOSING" /\ a.out = "do_close_door"
              /\ a.in \in TimeoutChecks
           \/ /\ a.orig = "CLOSING" /\ a.dest = "OPENING"
              /\ a.out = "do_stop_closing_door" /\ a.in \in PresenceChecks
           \/ /\ a.orig = "CLOSING" /\ a.dest = "CLOSED" /\ a.out = "do_stay_closed"
              /\ a.in \in TimeoutChecks
BY DEF Arcs, Arc, PresenceChecks, TimeoutChecks

\* Every row of the table is one of the arcs.
LEMMA RowIsArc == \A i \in 1 .. Len(Table) : Table[i] \in Arcs
BY DoorAssumption

\* No check is both of a presence and of a timeout.
LEMMA ChecksDiffer == PresenceChecks \cap TimeoutChecks = {}
BY DEF PresenceChecks, TimeoutChecks

\* A step of fsm_fire that finds no condition true.
Look == /\ pc \in CheckSteps \cup {"scan"} /\ pc' \in Watching
        /\ row' \in 1 .. Len(Table) + 1
        /\ pc' = "poll" => row' = 1
        /\ pc' \in CheckSteps => /\ row' \in 1 .. Len(Table)
                                 /\ Table[row'].orig = current_state
                                 /\ Table[row'].in \in PresenceChecks
        /\ UNCHANGED <<fsm, loop, inputs, motor, leds, msTicks>>

\* A step of fsm_fire that takes an arc of the door.
Depart(a) == /\ a.orig = current_state
             /\ a.in \in TimeoutChecks => timeout
             /\ pc \in CheckSteps \cup {"scan"}
             /\ Take(a)

\* fsm_fire finds no condition true, or takes one arc of the door.
LEMMA FireCases ==
    ASSUME TypeOK, Control, fsm_fire
    PROVE  Look \/ \E a \in Arcs : Depart(a)
<1>1. CASE CheckButton
  <2>1. row \in 1 .. Len(Table) /\ Table[row].orig = current_state
          /\ Table[row].in \in PresenceChecks
    BY <1>1 DEF CheckButton, Control, CheckSteps
  <2>2. Table[row] \in Arcs /\ pc \in CheckSteps /\ Len(Table) \in Nat
    BY <1>1, <2>1, RowIsArc, DoorAssumption DEF CheckButton, CheckSteps
  <2>3. CASE Take(Table[row])
    BY <2>1, <2>2, <2>3, ChecksDiffer DEF Depart, CheckSteps
  <2>4. CASE Skip(row)
    BY <2>1, <2>2, <2>4 DEF Skip, Look, Watching, CheckSteps
  <2> QED
    BY <1>1, <2>3, <2>4 DEF CheckButton
<1>2. CASE Scan
  <2>1. PICK i \in Matching(row) : CheckTimeout(i) \/ CheckSensor(i)
    BY <1>2 DEF Scan
  <2>2. i \in 1 .. Len(Table) /\ Table[i].orig = current_state /\ Len(Table) \in Nat
    BY <2>1, DoorAssumption DEF Matching, TypeOK
  <2>3. Table[i] \in Arcs /\ pc = "scan"
    BY <1>2, <2>2, RowIsArc DEF Scan
  <2>4. CASE timeout /\ Take(Table[i])
    BY <2>2, <2>3, <2>4 DEF Depart
  <2>5. CASE Skip(i)
    BY <2>2, <2>3, <2>5 DEF Skip, Look, Watching, CheckSteps
  <2>6. CASE CheckSensor(i)
    BY <2>2, <2>3, <2>6 DEF CheckSensor, Look, Watching, CheckSteps
  <2> QED
    BY <2>1, <2>4, <2>5, <2>6 DEF CheckTimeout
<1>3. CASE NoTransition
  BY <1>3, DoorAssumption DEF NoTransition, Goto, Look, Watching, CheckSteps
<1> QED
  BY <1>1, <1>2, <1>3 DEF fsm_fire

-----------------------------------------------------------------------------
(* Preservation, part by part.                                             *)

Interrupt == \/ SysTick_Handler \/ EXTI15_10_IRQHandler
             \/ TIM2_IRQHandler \/ TIM3_IRQHandler \/ TIM4_IRQHandler

\* No interrupt changes what the main program alone writes.
LEMMA InterruptFrame ==
    ASSUME Interrupt \/ UNCHANGED vars
    PROVE  UNCHANGED <<pc, row, fsm, loop>>
BY DEF Interrupt, SysTick_Handler, EXTI15_10_IRQHandler, TIM2_IRQHandler,
   TIM3_IRQHandler, TIM4_IRQHandler, vars

\* The types, in the groups the steps change together.
TypeControl == /\ current_state \in States
               /\ pc \in Watching \cup BeforeArming \cup AfterArming \cup StayClosed
               /\ row \in 1 .. Len(Table) + 1

TypeFlags == /\ presence_or_button_status \in BOOLEAN
             /\ previous_presence_status \in BOOLEAN
             /\ Input!TypeOK
             /\ timeout \in BOOLEAN /\ armed \in BOOLEAN

TypeTimes == /\ last_time \in 0 .. Wrap - 1
             /\ console \in 0 .. Wrap
             /\ msTicks \in 0 .. Wrap - 1
             /\ period \in {OpeningClosing, Inactivity, 0}
             /\ since \in 0 .. Horizon

\* The type invariant is its groups together.
LEMMA TypeParts == TypeOK <=> TypeControl /\ TypeFlags /\ TypeTimes /\ Led!TypeOK
BY DEF TypeOK, TypeControl, TypeFlags, TypeTimes, Motor!TypeOK

\* Only TIM3 and TIM4 touch the LEDs.
LEMMA OtherInterruptFrame ==
    ASSUME \/ SysTick_Handler \/ EXTI15_10_IRQHandler \/ TIM2_IRQHandler
           \/ UNCHANGED vars
    PROVE  UNCHANGED <<pc, row, fsm, loop, leds>>
BY DEF SysTick_Handler, EXTI15_10_IRQHandler, TIM2_IRQHandler, vars

\* Every step keeps the types of the control variables.
LEMMA TypeControlNext == IInv /\ [Next]_vars => TypeControl'
<1> SUFFICES ASSUME IInv, [Next]_vars PROVE TypeControl'
  OBVIOUS
<1> USE DEF TypeControl, States, Control, BeforeArming, AfterArming, Watching,
       OpenSteps, StayOpenSteps, CloseSteps, StopSteps, StayClosed, CheckSteps,
       LedStep, MotorStep, SetPresence, SetLastTime, Goto, fsm
<1>a. TypeControl /\ Control
  BY TypeParts DEF IInv
<1>b. Len(Table) \in Nat
  BY DoorAssumption
<1>1. CASE Look
  BY <1>1, <1>a, <1>b DEF Look
<1>2. ASSUME NEW a \in Arcs, Depart(a)
      PROVE  TypeControl'
  BY <1>2, <1>a, <1>b, ArcCases DEF Depart, Take
<1>3. CASE do_open_door
  BY <1>3, <1>a, <1>b DEF do_open_door
<1>4. CASE do_stay_open
  BY <1>4, <1>a, <1>b DEF do_stay_open
<1>5. CASE do_keep_open
  BY <1>5, <1>a, <1>b DEF do_keep_open
<1>6. CASE do_close_door
  BY <1>6, <1>a, <1>b DEF do_close_door
<1>7. CASE do_stop_closing_door
  BY <1>7, <1>a, <1>b DEF do_stop_closing_door
<1>8. CASE do_stay_closed
  BY <1>8, <1>a, <1>b DEF do_stay_closed
<1>9. CASE Poll
  BY <1>9, <1>a, <1>b DEF Poll,
         fsm_automatic_door_get_presence_status,
         fsm_automatic_door_get_last_time_presence
<1>10. CASE Interrupt \/ UNCHANGED vars
  BY <1>10, <1>a, <1>b, InterruptFrame
<1> QED
  BY FireCases, <1>1, <1>2, <1>3, <1>4, <1>5, <1>6, <1>7, <1>8, <1>9, <1>10 DEF
     IInv, Next, Main, Interrupt

\* Every step keeps the types of the flags.
LEMMA TypeFlagsNext == IInv /\ [Next]_vars => TypeFlags'
<1> SUFFICES ASSUME IInv, [Next]_vars PROVE TypeFlags'
  OBVIOUS
<1> USE DEF TypeFlags, Input!TypeOK, LedStep, MotorStep, SetPresence, SetLastTime,
       Goto, fsm, loop, inputs, motor
<1>a. TypeFlags
  BY TypeParts DEF IInv
<1>1. CASE Look
  BY <1>1, <1>a DEF Look
<1>2. ASSUME NEW a \in Arcs, Depart(a)
      PROVE  TypeFlags'
  BY <1>2, <1>a DEF Depart, Take
<1>3. CASE do_open_door
  BY <1>3, <1>a DEF do_open_door, Motor!Arm
<1>4. CASE do_stay_open
  BY <1>4, <1>a DEF do_stay_open, Motor!Arm
<1>5. CASE do_keep_open
  BY <1>5, <1>a DEF do_keep_open, Motor!Arm
<1>6. CASE do_close_door
  BY <1>6, <1>a DEF do_close_door, Motor!Arm
<1>7. CASE do_stop_closing_door
  BY <1>7, <1>a DEF do_stop_closing_door, Motor!Disarm
<1>8. CASE do_stay_closed
  BY <1>8, <1>a DEF do_stay_closed, Motor!Disarm
<1>9. CASE Poll
  BY <1>9, <1>a DEF Poll,
         fsm_automatic_door_get_presence_status,
         fsm_automatic_door_get_last_time_presence
<1>10. CASE SysTick_Handler
  BY <1>10, <1>a DEF SysTick_Handler, Motor!Tick
<1>11. CASE EXTI15_10_IRQHandler
  BY <1>11, <1>a DEF EXTI15_10_IRQHandler, Input!ButtonBranch, Input!PirBranch,
         Input!port_pir_sensor_set_status
<1>12. CASE TIM2_IRQHandler
  BY <1>12, <1>a DEF TIM2_IRQHandler, Motor!Expire
<1>13. CASE TIM3_IRQHandler \/ TIM4_IRQHandler \/ UNCHANGED vars
  BY <1>13, <1>a DEF TIM3_IRQHandler, TIM4_IRQHandler, vars
<1> QED
  BY FireCases, <1>1, <1>2, <1>3, <1>4, <1>5, <1>6, <1>7, <1>8, <1>9, <1>10, <1>11,
     <1>12, <1>13 DEF IInv, Next, Main, Interrupt

\* Every step keeps the clock and the timers in their ranges.
LEMMA TypeTimesNext == IInv /\ [Next]_vars => TypeTimes'
<1> SUFFICES ASSUME IInv, [Next]_vars PROVE TypeTimes'
  OBVIOUS
<1> USE DEF TypeTimes, LedStep, MotorStep, SetPresence, SetLastTime, Goto, fsm,
       loop, motor
<1>a. TypeTimes
  BY TypeParts DEF IInv
<1>b. Wrap \in Nat \ {0} /\ Horizon \in Nat
  BY DoorAssumption
<1>1. CASE Look
  BY <1>1, <1>a, <1>b DEF Look
<1>2. ASSUME NEW a \in Arcs, Depart(a)
      PROVE  TypeTimes'
  BY <1>2, <1>a, <1>b DEF Depart, Take
<1>3. CASE do_open_door
  BY <1>3, <1>a, <1>b DEF do_open_door, Motor!Arm
<1>4. CASE do_stay_open
  BY <1>4, <1>a, <1>b DEF do_stay_open, Motor!Arm
<1>5. CASE do_keep_open
  BY <1>5, <1>a, <1>b DEF do_keep_open, Motor!Arm
<1>6. CASE do_close_door
  BY <1>6, <1>a, <1>b DEF do_close_door, Motor!Arm
<1>7. CASE do_stop_closing_door
  BY <1>7, <1>a, <1>b DEF do_stop_closing_door, Motor!Disarm
<1>8. CASE do_stay_closed
  BY <1>8, <1>a, <1>b DEF do_stay_closed, Motor!Disarm
<1>9. CASE Poll
  BY <1>9, <1>a, <1>b DEF Poll,
         fsm_automatic_door_get_presence_status,
         fsm_automatic_door_get_last_time_presence
<1>10. CASE SysTick_Handler
  BY <1>10, <1>a, <1>b DEF SysTick_Handler, Motor!Tick, Motor!Elapse
<1>11. CASE EXTI15_10_IRQHandler
  BY <1>11, <1>a, <1>b DEF EXTI15_10_IRQHandler
<1>12. CASE TIM2_IRQHandler
  BY <1>12, <1>a, <1>b DEF TIM2_IRQHandler, Motor!Expire
<1>13. CASE TIM3_IRQHandler \/ TIM4_IRQHandler \/ UNCHANGED vars
  BY <1>13, <1>a, <1>b DEF TIM3_IRQHandler, TIM4_IRQHandler, vars
<1> QED
  BY FireCases, <1>1, <1>2, <1>3, <1>4, <1>5, <1>6, <1>7, <1>8, <1>9, <1>10, <1>11,
     <1>12, <1>13 DEF IInv, Next, Main, Interrupt

\* Every step keeps the types of the LEDs.
LEMMA TypeLedsNext == IInv /\ [Next]_vars => Led!TypeOK'
<1> SUFFICES ASSUME IInv, [Next]_vars PROVE Led!TypeOK'
  OBVIOUS
<1> USE DEF Led!TypeOK, Led!Lamps, LedStep, MotorStep, SetPresence, SetLastTime,
       Goto, leds
<1>a. Led!TypeOK
  BY TypeParts DEF IInv
<1>1. CASE Look
  BY <1>1, <1>a DEF Look
<1>2. ASSUME NEW a \in Arcs, Depart(a)
      PROVE  Led!TypeOK'
  BY <1>2, <1>a DEF Depart, Take
<1>3. CASE do_open_door
  BY <1>3, <1>a DEF do_open_door, Led!Load, Led!Off, Led!EnableTimer,
     Led!UpdateTimer, Led!Flip
<1>4. CASE do_stay_open
  BY <1>4, <1>a DEF do_stay_open, Led!Load, Led!On, Led!DisableTimer
<1>5. CASE do_keep_open
  BY <1>5, <1>a DEF do_keep_open
<1>6. CASE do_close_door
  BY <1>6, <1>a DEF do_close_door, Led!Load, Led!Off, Led!EnableTimer,
     Led!UpdateTimer, Led!Flip
<1>7. CASE do_stop_closing_door
  BY <1>7, <1>a DEF do_stop_closing_door, Led!DisableTimer
<1>8. CASE do_stay_closed
  BY <1>8, <1>a DEF do_stay_closed, Led!Load, Led!On, Led!DisableTimer
<1>9. CASE Poll
  BY <1>9, <1>a DEF Poll,
         fsm_automatic_door_get_presence_status,
         fsm_automatic_door_get_last_time_presence
<1>10. CASE TIM3_IRQHandler
  BY <1>10, <1>a DEF TIM3_IRQHandler, Led!Blink, Led!Flip
<1>11. CASE TIM4_IRQHandler
  BY <1>11, <1>a DEF TIM4_IRQHandler, Led!Blink, Led!Flip
<1>12. CASE \/ SysTick_Handler \/ EXTI15_10_IRQHandler \/ TIM2_IRQHandler
            \/ UNCHANGED vars
  BY <1>12, <1>a, OtherInterruptFrame
<1> QED
  BY FireCases, <1>1, <1>2, <1>3, <1>4, <1>5, <1>6, <1>7, <1>8, <1>9, <1>10, <1>11,
     <1>12 DEF IInv, Next, Main, Interrupt

\* Every step leads each action through its own state of the door.
LEMMA ControlNext == IInv /\ [Next]_vars => Control'
<1> SUFFICES ASSUME IInv, [Next]_vars PROVE Control'
  OBVIOUS
<1> USE DEF Control, Watching, OpenSteps, StayOpenSteps, CloseSteps, StopSteps,
       StayClosed, CheckSteps, LedStep, MotorStep, SetPresence, SetLastTime, Goto,
       fsm
<1>a. Control
  BY DEF IInv
<1>1. CASE Look
  BY <1>1, <1>a DEF Look
<1>2. ASSUME NEW a \in Arcs, Depart(a)
      PROVE  Control'
  BY <1>2, <1>a, ArcCases DEF Depart, Take
<1>3. CASE do_open_door
  BY <1>3, <1>a DEF do_open_door
<1>4. CASE do_stay_open
  BY <1>4, <1>a DEF do_stay_open
<1>5. CASE do_keep_open
  BY <1>5, <1>a DEF do_keep_open
<1>6. CASE do_close_door
  BY <1>6, <1>a DEF do_close_door
<1>7. CASE do_stop_closing_door
  BY <1>7, <1>a DEF do_stop_closing_door
<1>8. CASE do_stay_closed
  BY <1>8, <1>a DEF do_stay_closed
<1>9. CASE Poll
  BY <1>9, <1>a DEF Poll,
         fsm_automatic_door_get_presence_status,
         fsm_automatic_door_get_last_time_presence
<1>10. CASE Interrupt \/ UNCHANGED vars
  BY <1>10, <1>a, InterruptFrame
<1> QED
  BY FireCases, <1>1, <1>2, <1>3, <1>4, <1>5, <1>6, <1>7, <1>8, <1>9, <1>10 DEF
     IInv, Next, Main, Interrupt

\* Every step keeps the timer running for the state the door is in.
LEMMA TimingNext == IInv /\ [Next]_vars => Timing'
<1> SUFFICES ASSUME IInv, [Next]_vars PROVE Timing'
  OBVIOUS
<1> USE DEF Timing, Control, BeforeArming, AfterArming, Watching, OpenSteps,
       StayOpenSteps, CloseSteps, StopSteps, StayClosed, CheckSteps, LedStep,
       MotorStep, SetPresence, SetLastTime, Goto, fsm, motor
<1>a. TypeOK /\ Control /\ Timing
  BY DEF IInv
<1>b. /\ Horizon \in Nat /\ OpeningClosing \in 1 .. Horizon /\ Inactivity \in 1 .. Horizon
      /\ since \in 0 .. Horizon /\ period \in 0 .. Horizon
  BY <1>a, DoorAssumption DEF TypeOK, Motor!TypeOK
<1>1. CASE Look
  BY <1>1, <1>a, <1>b DEF Look
<1>2. ASSUME NEW a \in Arcs, Depart(a)
      PROVE  Timing'
  BY <1>2, <1>a, <1>b, ArcCases DEF Depart, Take
<1>3. CASE do_open_door
  BY <1>3, <1>a, <1>b DEF do_open_door, Motor!Arm
<1>4. CASE do_stay_open
  BY <1>4, <1>a, <1>b DEF do_stay_open, Motor!Arm
<1>5. CASE do_keep_open
  BY <1>5, <1>a, <1>b DEF do_keep_open, Motor!Arm
<1>6. CASE do_close_door
  BY <1>6, <1>a, <1>b DEF do_close_door, Motor!Arm
<1>7. CASE do_stop_closing_door
  <2>1. UNCHANGED <<timeout, period, since>> /\ pc' \in {"stop_motor", "do_open_door"}
    BY <1>7 DEF do_stop_closing_door, Motor!Disarm
  <2> QED
    BY <1>a, <2>1
<1>8. CASE do_stay_closed
  <2>1. UNCHANGED <<timeout, period, since, current_state>> /\ current_state = "CLOSED"
    BY <1>8, <1>a DEF do_stay_closed, Motor!Disarm
  <2> QED
    BY <1>a, <2>1
<1>9. CASE Poll
  BY <1>9, <1>a, <1>b DEF Poll,
         fsm_automatic_door_get_presence_status,
         fsm_automatic_door_get_last_time_presence
<1>10. CASE SysTick_Handler
  BY <1>10, <1>a, <1>b DEF SysTick_Handler, Motor!Tick, Motor!Elapse
<1>11. CASE TIM2_IRQHandler
  BY <1>11, <1>a, <1>b DEF TIM2_IRQHandler, Motor!Expire
<1>12. CASE \/ EXTI15_10_IRQHandler \/ TIM3_IRQHandler \/ TIM4_IRQHandler
            \/ UNCHANGED vars
  BY <1>12, <1>a, <1>b DEF EXTI15_10_IRQHandler, TIM3_IRQHandler, TIM4_IRQHandler,
     vars
<1> QED
  BY FireCases, <1>1, <1>2, <1>3, <1>4, <1>5, <1>6, <1>7, <1>8, <1>9, <1>10, <1>11,
     <1>12 DEF IInv, Next, Main, Interrupt

\* Every step keeps the LEDs as their state and statement want them.
LEMMA LightsNext == IInv /\ [Next]_vars => Lights'
<1> SUFFICES ASSUME IInv, [Next]_vars PROVE Lights'
  OBVIOUS
<1> USE DEF Lights, Control, NoLostToggle, GreenBlinks, RedBlinks, GreenDark,
       RedDark, Watching, OpenSteps, StayOpenSteps, CloseSteps, StopSteps,
       StayClosed, CheckSteps, LedStep, MotorStep, SetPresence, SetLastTime, Goto,
       fsm, leds
<1>a. Control /\ Lights
  BY DEF IInv
<1>1. CASE Look
  BY <1>1, <1>a DEF Look
<1>2. ASSUME NEW a \in Arcs, Depart(a)
      PROVE  Lights'
  BY <1>2, <1>a, ArcCases DEF Depart, Take
<1>3. CASE do_open_door
  BY <1>3, <1>a DEF do_open_door, Led!Load, Led!Off, Led!EnableTimer,
     Led!UpdateTimer, Led!Flip
<1>4. CASE do_stay_open
  BY <1>4, <1>a DEF do_stay_open, Led!Load, Led!On, Led!DisableTimer
<1>5. CASE do_keep_open
  BY <1>5, <1>a DEF do_keep_open
<1>6. CASE do_close_door
  BY <1>6, <1>a DEF do_close_door, Led!Load, Led!Off, Led!EnableTimer,
     Led!UpdateTimer, Led!Flip
<1>7. CASE do_stop_closing_door
  BY <1>7, <1>a DEF do_stop_closing_door, Led!DisableTimer
<1>8. CASE do_stay_closed
  BY <1>8, <1>a DEF do_stay_closed, Led!Load, Led!On, Led!DisableTimer
<1>9. CASE Poll
  BY <1>9, <1>a DEF Poll,
         fsm_automatic_door_get_presence_status,
         fsm_automatic_door_get_last_time_presence
<1>10. CASE TIM3_IRQHandler
  BY <1>10, <1>a DEF TIM3_IRQHandler, Led!Blink, Led!Flip
<1>11. CASE TIM4_IRQHandler
  BY <1>11, <1>a DEF TIM4_IRQHandler, Led!Blink, Led!Flip
<1>12. CASE \/ SysTick_Handler \/ EXTI15_10_IRQHandler \/ TIM2_IRQHandler
            \/ UNCHANGED vars
  BY <1>12, <1>a, OtherInterruptFrame
<1> QED
  BY FireCases, <1>1, <1>2, <1>3, <1>4, <1>5, <1>6, <1>7, <1>8, <1>9, <1>10, <1>11,
     <1>12 DEF IInv, Next, Main, Interrupt

\* Every step keeps the presence flag and its copy in main in step.
LEMMA ConsoleNext == IInv /\ [Next]_vars => Console'
<1> SUFFICES ASSUME IInv, [Next]_vars PROVE Console'
  OBVIOUS
<1> USE DEF Console, Control, Watching, OpenSteps, StayOpenSteps, CloseSteps,
       StopSteps, StayClosed, CheckSteps, LedStep, MotorStep, SetPresence,
       SetLastTime, Goto, fsm, loop
<1>a. Control /\ Console
  BY DEF IInv
<1>1. CASE Look
  BY <1>1, <1>a DEF Look
<1>2. ASSUME NEW a \in Arcs, Depart(a)
      PROVE  Console'
  BY <1>2, <1>a, ArcCases DEF Depart, Take
<1>3. CASE do_open_door
  BY <1>3, <1>a DEF do_open_door
<1>4. CASE do_stay_open
  BY <1>4, <1>a DEF do_stay_open
<1>5. CASE do_keep_open
  BY <1>5, <1>a DEF do_keep_open
<1>6. CASE do_close_door
  BY <1>6, <1>a DEF do_close_door
<1>7. CASE do_stop_closing_door
  BY <1>7, <1>a DEF do_stop_closing_door
<1>8. CASE do_stay_closed
  BY <1>8, <1>a DEF do_stay_closed
<1>9. CASE Poll
  BY <1>9, <1>a DEF Poll,
         fsm_automatic_door_get_presence_status,
         fsm_automatic_door_get_last_time_presence
<1>10. CASE Interrupt \/ UNCHANGED vars
  BY <1>10, <1>a, InterruptFrame
<1> QED
  BY FireCases, <1>1, <1>2, <1>3, <1>4, <1>5, <1>6, <1>7, <1>8, <1>9, <1>10 DEF
     IInv, Next, Main, Interrupt

\* The door at start-up satisfies the inductive invariant.
LEMMA InitIInv == Init => IInv
<1> SUFFICES ASSUME Init PROVE IInv
  OBVIOUS
<1> USE DEF Init, Watching
<1>b. Wrap \in Nat \ {0} /\ Horizon \in Nat /\ Len(Table) \in Nat
  BY DoorAssumption
<1>1. TypeOK
  <2>1. TypeControl
    BY <1>b DEF TypeControl, States
  <2>2. TypeFlags
    BY DEF TypeFlags, Input!Init, Input!TypeOK, Motor!Init
  <2>3. TypeTimes
    BY <1>b DEF TypeTimes, Motor!Init
  <2>4. Led!TypeOK
    BY DEF Led!Init, Led!TypeOK, Led!Lamps
  <2> QED
    BY <2>1, <2>2, <2>3, <2>4, TypeParts
<1>2. Control
  BY DEF Control, OpenSteps, StopSteps, StayOpenSteps, CloseSteps, StayClosed,
     CheckSteps
<1>3. Timing
  BY DEF Timing, Motor!Init
<1>4. Lights
  BY DEF Lights, Led!Init, GreenBlinks, RedBlinks, GreenDark, RedDark, NoLostToggle,
     StayClosed, StayOpenSteps
<1>5. Console
  BY DEF Console, StayOpenSteps, CloseSteps, OpenSteps, StopSteps, StayClosed
<1> QED
  BY <1>1, <1>2, <1>3, <1>4, <1>5 DEF IInv

\* Every step preserves the inductive invariant.
LEMMA NextIInv == IInv /\ [Next]_vars => IInv'
<1> SUFFICES ASSUME IInv, [Next]_vars PROVE IInv'
  OBVIOUS
<1>1. TypeOK'
  <2>1. TypeControl' /\ TypeFlags' /\ TypeTimes' /\ Led!TypeOK'
    BY TypeControlNext, TypeFlagsNext, TypeTimesNext, TypeLedsNext
  <2> QED
    BY <2>1 DEF TypeOK, TypeControl, TypeFlags, TypeTimes, Motor!TypeOK
<1> QED
  BY <1>1, ControlNext, TimingNext, LightsNext, ConsoleNext DEF IInv

-----------------------------------------------------------------------------
(* The safety properties.                                                  *)

\* Every reachable state satisfies the inductive invariant.
THEOREM Invariance == SafetySpec => []IInv
<1> QED
  BY InitIInv, NextIInv, PTL DEF SafetySpec

\* Every variable keeps its type, for every table, timeout and wrap.
THEOREM TypeCorrect == SafetySpec => []TypeOK
BY Invariance, PTL DEF IInv

\* The LED of the other direction is dark between actions.
THEOREM ColoursApart == SafetySpec => []OtherColourDark
<1>1. IInv => OtherColourDark
  BY DEF IInv, Lights, GreenDark, RedDark, OtherColourDark
<1> QED
  BY <1>1, Invariance, PTL

\* An LED blinks exactly while the door moves in its direction.
THEOREM BlinkersFollowDoor == SafetySpec => []BlinksWhileMoving
<1>1. IInv => BlinksWhileMoving
  <2> SUFFICES ASSUME IInv, pc \in Watching
               PROVE  blinking = {l \in Led!Lamps :
                          \/ l = "led_opening" /\ current_state = "OPENING"
                          \/ l = "led_closing" /\ current_state = "CLOSING"}
    BY DEF BlinksWhileMoving
  <2>1. blinking \subseteq Led!Lamps
    BY DEF IInv, TypeOK, Led!TypeOK
  <2>2. "led_opening" \in blinking <=> current_state = "OPENING"
    BY DEF IInv, Lights, GreenBlinks, Watching
  <2>3. "led_closing" \in blinking <=> current_state = "CLOSING"
    BY DEF IInv, Lights, RedBlinks, Watching
  <2> QED
    BY <2>1, <2>2, <2>3 DEF Led!Lamps
<1> QED
  BY <1>1, Invariance, PTL

\* Writing the LED register back never undoes a toggle of the other LED.
THEOREM TogglesKept == SafetySpec => []NoLostToggle
BY Invariance, PTL DEF IInv, Lights

\* Every opening is announced with its time before the next fsm_fire.
THEOREM OpeningsAnnounced == SafetySpec => []Announced
<1>1. IInv => Announced
  BY DEF IInv, Console, Announced, Watching, StayOpenSteps, CloseSteps, CheckSteps
<1> QED
  BY <1>1, Invariance, PTL

\* A door that is not closed always has a timeout coming or come.
THEOREM AlwaysWayOut == SafetySpec => []WayOut
<1>1. IInv => WayOut
  BY DEF IInv, Timing, WayOut
<1> QED
  BY <1>1, Invariance, PTL

-----------------------------------------------------------------------------
(* Refinement.                                                             *)

\* The door starts as its specification does.
LEMMA InitDoor == Init => Door!Init
BY DEF Init, Door!Init

\* The actions leave the state of the door alone, and its dwell at zero until
\* they have armed the timer.
LEMMA ActionsStutter ==
    ASSUME IInv,
           \/ do_open_door \/ do_stay_open \/ do_keep_open \/ do_close_door
           \/ do_stop_closing_door \/ do_stay_closed \/ Poll
    PROVE  UNCHANGED Door!vars
<1> USE DEF Door!vars, BeforeArming, LedStep, MotorStep, Goto, fsm, motor
<1>1. CASE do_open_door
  BY <1>1 DEF do_open_door, Motor!Arm, SetPresence, SetLastTime
<1>2. CASE do_stay_open \/ do_keep_open
  BY <1>2 DEF do_stay_open, do_keep_open, Motor!Arm
<1>3. CASE do_close_door
  BY <1>3 DEF do_close_door, Motor!Arm, SetPresence
<1>4. CASE do_stop_closing_door
  BY <1>4 DEF do_stop_closing_door, Motor!Disarm
<1>5. CASE do_stay_closed
  BY <1>5 DEF do_stay_closed, Motor!Disarm, IInv, Control, StayClosed
<1>6. CASE Poll
  BY <1>6 DEF Poll,
         fsm_automatic_door_get_presence_status,
         fsm_automatic_door_get_last_time_presence
<1> QED
  BY <1>1, <1>2, <1>3, <1>4, <1>5, <1>6

\* Every step is a step of the specified door or leaves it alone.
LEMMA NextDoor == IInv /\ [Next]_vars => [Door!Next]_(Door!vars)
<1> SUFFICES ASSUME IInv, [Next]_vars PROVE [Door!Next]_(Door!vars)
  OBVIOUS
<1>1. CASE Look
  BY <1>1 DEF Look, Watching, CheckSteps, BeforeArming, Door!vars, fsm, motor
<1>2. ASSUME NEW a \in Arcs, Depart(a)
      PROVE  Door!Next
  <2>1. pc \in Watching /\ pc \notin BeforeArming
    BY <1>2 DEF Depart, CheckSteps, Watching, BeforeArming
  <2>2. a.in \in TimeoutChecks /\ current_state # "CLOSED" =>
          since >= IF current_state = "OPEN" THEN Inactivity ELSE OpeningClosing
    BY <1>2, <2>1 DEF Depart, IInv, Timing
  <2>3. pc' \in BeforeArming \/ current_state' = "CLOSED"
    BY <1>2, ArcCases DEF Depart, Take, BeforeArming
  <2>4. current_state = a.orig /\ current_state' = a.dest
    BY <1>2 DEF Depart, Take
  <2> QED
    BY <2>1, <2>2, <2>3, <2>4, ArcCases DEF Door!Next, Door!Move
<1>3. CASE \/ do_open_door \/ do_stay_open \/ do_keep_open \/ do_close_door
           \/ do_stop_closing_door \/ do_stay_closed \/ Poll
  BY <1>3, ActionsStutter
<1>4. CASE SysTick_Handler
  <2>1. UNCHANGED <<pc, current_state>> /\ since' = Motor!Elapse(since)
    BY <1>4 DEF SysTick_Handler, Motor!Tick, fsm
  <2>2. CASE pc \in BeforeArming \/ current_state = "CLOSED"
    BY <2>1, <2>2 DEF Door!vars
  <2>3. CASE ~(pc \in BeforeArming \/ current_state = "CLOSED") /\ since < Horizon
    BY <2>1, <2>3 DEF Motor!Elapse, Door!Next
  <2>4. CASE ~(pc \in BeforeArming \/ current_state = "CLOSED") /\ ~(since < Horizon)
    BY <2>1, <2>4 DEF Motor!Elapse, Door!vars
  <2> QED
    BY <2>2, <2>3, <2>4
<1>5. CASE EXTI15_10_IRQHandler \/ TIM2_IRQHandler \/ TIM3_IRQHandler \/ TIM4_IRQHandler
  BY <1>5 DEF EXTI15_10_IRQHandler, TIM2_IRQHandler, TIM3_IRQHandler, TIM4_IRQHandler,
     Motor!Expire, Door!vars, fsm, motor
<1>6. CASE UNCHANGED vars
  BY <1>6 DEF vars, fsm, motor, Door!vars
<1> QED
  BY FireCases, <1>1, <1>2, <1>3, <1>4, <1>5, <1>6 DEF Next, Main, IInv

\* The door implements its specification: it moves along its arcs only, and
\* never before the timeout of the state it is in.
THEOREM Refinement == SafetySpec => ImplementsDoor
<1> QED
  BY InitDoor, NextDoor, Invariance, PTL DEF SafetySpec, ImplementsDoor, Door!Spec

-----------------------------------------------------------------------------
(* A presence holds the door open.                                         *)

\* The row asks an open door for a presence.
KeepsOpen(j) == Table[j].orig = "OPEN" /\ Table[j].in \in PresenceChecks

\* In OPEN the table looks at the presence before any timeout.
PresenceBeforeTimeout ==
    \A i \in 1 .. Len(Table) :
        Table[i].orig = "OPEN" /\ Table[i].in \in TimeoutChecks
          => \E j \in 1 .. i - 1 : KeepsOpen(j)

Lines == {"button", "pir"}

\* What the door sees of a line.
Up(l) == IF l = "pir" THEN sensor_status ELSE flag_pressed

\* The door is open, and fsm_fire has not passed a row that would keep it so, nor
\* the reading of line l in it.
Kept(l) ==
    /\ current_state = "OPEN"
    /\ \/ pc \in {"button_present", "do_keep_open", "poll"}
       \/ pc = "button" /\ l = "button"
       \/ pc = "scan" /\ \A j \in 1 .. row - 1 : ~KeepsOpen(j)

\* With a line up, fsm_fire comes to the presence before the timeout, and a
\* presence once found leads back to OPEN.
LEMMA FireKeeps ==
    ASSUME PresenceBeforeTimeout, TypeOK, Control, NEW l \in Lines, Kept(l), Up(l),
           fsm_fire
    PROVE  Kept(l)'
<1> USE DEF Kept, Up, Lines, fsm
<1>a. Len(Table) \in Nat /\ row \in Nat
  BY DoorAssumption DEF TypeOK
<1>1. CASE CheckButton
  <2>1. pc = "button_present" \/ (pc = "button" /\ flag_pressed)
    BY <1>1 DEF CheckButton
  <2>2. row \in 1 .. Len(Table) /\ KeepsOpen(row)
    BY <2>1 DEF Control, CheckSteps, KeepsOpen
  <2>3. Table[row].dest = "OPEN" /\ Table[row].out = "do_keep_open"
    BY <2>2, ArcCases, RowIsArc, ChecksDiffer DEF KeepsOpen
  <2>4. Take(Table[row])
    BY <1>1, <2>1 DEF CheckButton, Input!port_button_is_pressed
  <2> QED
    BY <2>3, <2>4 DEF Take
<1>2. CASE Scan
  <2>1. PICK i \in Matching(row) : /\ \A j \in Matching(row) : i <= j
                                   /\ CheckTimeout(i) \/ CheckSensor(i)
    BY <1>2 DEF Scan
  <2>2. i \in 1 .. Len(Table) /\ Table[i].orig = "OPEN"
    BY <2>1, <1>a DEF Matching, TypeOK
  <2>3. Table[i].in \notin TimeoutChecks
    <3> SUFFICES ASSUME Table[i].in \in TimeoutChecks PROVE FALSE
      OBVIOUS
    <3>1. PICK j \in 1 .. i - 1 : KeepsOpen(j)
      BY <2>2 DEF PresenceBeforeTimeout
    <3>2. ~(j \in 1 .. row - 1)
      BY <3>1, <1>2 DEF Scan
    <3>3. j \in Matching(row)
      BY <3>1, <3>2, <2>2, <1>a DEF Matching, KeepsOpen
    <3> QED
      BY <3>1, <3>3, <2>1, <2>2
  <2>4. CheckSensor(i)
    BY <2>1, <2>3 DEF CheckTimeout
  <2> QED
    BY <2>4 DEF CheckSensor, Input!port_pir_sensor_get_status
<1>3. CASE NoTransition
  <2>1. PICK i \in 1 .. Len(Table) :
               Table[i] = Arc("OPEN", "check_keep_open", "OPEN", "do_keep_open")
    BY DoorAssumption DEF Arcs
  <2>2. KeepsOpen(i)
    BY <2>1 DEF KeepsOpen, Arc, PresenceChecks
  <2>3. ~(i \in 1 .. row - 1)
    BY <2>2, <1>3 DEF NoTransition, Goto
  <2>4. i \in Matching(row)
    BY <2>2, <2>3, <1>a DEF Matching, KeepsOpen
  <2> QED
    BY <2>4, <1>3 DEF NoTransition
<1> QED
  BY <1>1, <1>2, <1>3 DEF fsm_fire

\* As long as a line is up, every step keeps the open door open.
LEMMA NextKeeps ==
    ASSUME PresenceBeforeTimeout, IInv, NEW l \in Lines, Kept(l), Up(l), [Next]_vars
    PROVE  Kept(l)'
<1> USE DEF Kept, Goto, fsm
<1>1. CASE fsm_fire
  BY <1>1, FireKeeps DEF IInv
<1>2. CASE \/ do_open_door \/ do_stay_open \/ do_close_door
           \/ do_stop_closing_door \/ do_stay_closed
  BY <1>2 DEF do_open_door, do_stay_open, do_close_door, do_stop_closing_door,
     do_stay_closed, LedStep, MotorStep
<1>3. CASE do_keep_open
  BY <1>3 DEF do_keep_open, MotorStep
<1>4. CASE Poll
  <2>1. row = 1
    BY <1>4 DEF Poll, IInv, Control, CheckSteps
  <2> QED
    BY <1>4, <2>1 DEF Poll
<1>5. CASE Interrupt \/ UNCHANGED vars
  BY <1>5, InterruptFrame DEF KeepsOpen
<1> QED
  BY <1>1, <1>2, <1>3, <1>4, <1>5 DEF Next, Main, Interrupt

\* A presence that lasts, or a button kept down, holds an open door open, for
\* every table that in OPEN looks at the presence before the timeout
\* (README.md:116).
THEOREM PresenceHoldsOpen ==
    ASSUME PresenceBeforeTimeout
    PROVE  SafetySpec => HeldOpen
<1>1. pc = "scan" /\ row = 1 /\ current_state = "OPEN" => Kept("pir") /\ Kept("button")
  BY DEF Kept
<1>2. IInv /\ Kept("pir") /\ sensor_status /\ [Next]_vars => Kept("pir")'
  BY NextKeeps DEF Up, Lines
<1>3. IInv /\ Kept("button") /\ flag_pressed /\ [Next]_vars => Kept("button")'
  BY NextKeeps DEF Up, Lines
<1>4. Kept("pir") \/ Kept("button") => current_state = "OPEN"
  BY DEF Kept
<1> QED
  BY <1>1, <1>2, <1>3, <1>4, Invariance, PTL DEF SafetySpec, HeldOpen
=============================================================================
