# The automatic door, verified

TLA+ models, TLC runs and TLAPS proofs of the firmware in `src/`: an automatic
sliding door on an STM32F446 (Nucleo) board, with a PIR presence sensor, an
emergency button, a motor with a timeout timer and two LEDs.

    tlc -config AutomaticDoor_presence.cfg MCAutomaticDoor    # any run below
    tlapm AutomaticDoorProofs.tla                             # the proofs

## 1. The system

| Component | Code | State | Operations |
| --- | --- | --- | --- |
| Door state machine | `common/src/fsm_automatic_door.c` | current state, `presence_or_button_status`, `last_time_presence_or_button` | five checks on the arcs, six actions, two getters |
| Main loop | `main.c` | `previous_presence_status`, the console | `fsm_fire`, announcement of a new presence |
| Motor timeout timer | `port_motor.c`, TIM2 | TIM2 registers, `timeout` | activate, deactivate, `TIM2_IRQHandler` |
| LEDs | `port_led.c`, TIM3, TIM4 | `GPIOB->ODR`, the two blink timers | on, off, toggle, timer activate and deactivate |
| Emergency button | `port_button.c` | `flag_pressed`, `flag_released` | level read, flag read |
| PIR sensor | `port_pir_sensor.c` | `sensor_status` | level read, status get and set |
| Interrupts | `interr.c` | `EXTI->PR` | SysTick, EXTI15_10, TIM2, TIM3, TIM4 |
| System time | `port_system.c:122-153` | `msTicks` | get, set, `delay_ms`, `delay_until_ms` |
| System and GPIO set-up | `port_system.c`, the rest | clock, GPIO, EXTI and NVIC registers | pin, EXTI line and vector configuration |
| C library stubs | `syscalls.c` | none of the door's | newlib hooks |

**Interaction.** There is one main program and five interrupt handlers, and all
they share are plain fields and hardware registers. The main loop calls
`fsm_fire`, which reads the input flags (written by EXTI15_10) and the motor's
`timeout` (written by TIM2) and runs an action that writes the LED register
(toggled by TIM3 and TIM4) and reprograms the timers. Nothing disables
interrupts. Every hard behaviour of this program is therefore an order of an
interrupt and two statements.

**What the repository leaves out.** It is the statement of a laboratory: the
transition table (`fsm_automatic_door.c:249-251`), the body of
`fsm_automatic_door_init`, the timeouts and the FSM library are not in it. The
table is a constant of the model, constrained to hold the six arcs of
`docs/assets/imgs/fsm_automatic_door.png` in any order and any number of times;
`Init` is what `fsm_automatic_door.c:270-278` lists; `fsm_fire` is external:
the rows of the current state in order, the first whose condition holds moves
to the row's state and then calls its action.

**What makes each component correct.** The timer: a flag neither early nor late,
and never lost. The inputs: flags that are the pins' levels when no interrupt is
pending, but for the edges the handler is known to lose. The LEDs: green and red never both, blinking exactly while the door
moves. The door: it moves along its arcs, never before a state's time, opens for
a presence, stays open under one, closes without one, and never waits for
nothing. Main: every opening announced once, with its time. The clock: waits
that are exact across a wrap. Start-up: no pin's configuration undone by
another's, no early edge lost. `PROJECT.json` lists, under "hazards", where in
the code each of these could go wrong.

## 2. The modules

    MCAutomaticDoor      MCDoorInputs         MCDoorMotor       MCSysTime
          |                   |                    |                |
          |              DoorInputs            DoorMotor         SysTime
          |              |        |            |       |
    AutomaticDoor <------+        |            |   MotorTimer   MCTimerPrescaler
      ^   |   |                   |            |       | implements    |
      |   |   +--implements--> DoorSpec        |  OneShotTimer    TimerPrescaler
      |   |                       |            |
      |   +-- Leds, InputFlags, OneShotTimer   |         MCPinConfig
      |                           |            |              |
      |                       ExtiInputs       |          PinConfig
      |                           |            |
      |                       InputFlags       |    Nvic --implements--> AtomicHandlers
      +----------------------------------------+

* **`OneShotTimer`** - the contract between the door and the motor's timer:
  `Arm(d)` lowers the flag and starts the time, `Expire` raises the flag no
  earlier than `d` later, `Disarm` stops it, unless it comes too late for an expiry
  that is due.
* **`MotorTimer`** - `port_motor.c` one register write per action
  (`Activate` to `EnableInterrupt` are lines 71, 74, 76, 93-94, 97, 99, 108, 111
  and 114), against `Tick` (the counter: it may overflow, and reload, between any
  two writes) and `TIM2_IRQHandler`. The prescaler and the auto-reload register
  are one preloaded number of ticks, `preload`, in use once it is copied to
  `shadow`. A pending interrupt runs before the next statement, except that it
  may become pending on the very store that stops the counter: `Activate` and
  `Deactivate` do not wait for it. `SafetySpec` calls the driver in any order.
* **`DoorMotor`** - the door on those registers: `AutomaticDoor`, with `MotorTimer`
  in place of `OneShotTimer`. The main program is at `main`, the driver at `pc`. The
  six statements of the state machine that call the driver (`CallMotor`) do its first
  write; the main program waits for the others (`DriverStep`), and every interrupt may
  come between two of them.
* **`TimerPrescaler`** - how that number is made of milliseconds, for the motor's
  timer and for the LEDs': the two roundings, the second try when ARR is above
  0xFFFF, and the stores: PSC has 16 bits, ARR has 32 in TIM2 and 16 in TIM3 and TIM4
  (`width`). Rounding halfway goes either way; what a negative number, or none, is cast
  to is open.
* **`InputFlags`** - what the two branches of the EXTI handler do to the flags,
  and how the state machine reads them.
* **`ExtiInputs`** - the handler access by access: it tests `EXTI->PR`, reads the
  level, changes the flags, reads `EXTI->PR` again and writes it back. The
  constant `Windows` says in which of the handler's two windows edges may also
  come (`cross`: the other line is pending while a line is being cleared;
  `own`: between the read of a line's level and the clearing of its bit), and
  `BootActive` which lines may be active at start-up. Each of the three `exti_` runs
  opens one of these ways to a stale flag, `door_inputs` all of them. `lost` is
  not the program's: it holds the lines with a level nobody is to look at, because it
  was there at start-up or its edge came in a window, until their next edge.
* **`Leds`** - one register for both LEDs; `port_led_on` and `port_led_off` are a
  read (`Load`) and a write. `port_led_timer_activate` is two steps, and the
  second toggles the LED: its update event raises UIF, whose interrupt
  `port_led_timer_setup` has enabled.
* **`AutomaticDoor`** - the door. Each action of the state machine is a chain of
  labelled statements; between any two of them any interrupt may run. `check_open`
  is two steps, the sensor and then the button.
* **`DoorSpec`** - what a user of the door is promised: the arcs, and the least
  time in each state.
* **`DoorInputs`** - the door from its pins on: `AutomaticDoor`, with the flags
  set by the handler of `ExtiInputs` from edges of the pins. The main program and
  SysTick wait for it; the timers' handlers do not, since which of the two is more
  urgent depends on the order of initialisation. Edges come at any time, in the
  windows too, and pins may be active at start-up. `held` is not the program's: it
  remembers the inputs that have been active, and not lost, since `fsm_fire` began.
* **`Nvic`** - priorities, preemption and nesting: the priorities as
  `port_system_init` and the `_init` functions set them, in any order, and each
  handler's read and write of `msTicks` or `ODR` apart, so that a handler that
  preempts between the two could undo it.
* **`AtomicHandlers`** - handlers of one step each, as the other modules take them.
* **`SysTime`** - `msTicks` modulo `Wrap`, `port_system_delay_ms` and
  `port_system_delay_until_ms` statement by statement, called as
  `test/integration/test_blink.c` does or directly. `ticked`, `age` and `waited`
  only measure: they count ticks for the properties and allow at most one tick
  between two statements of one call.
* **`PinConfig`** - the registers of `port_system.c:158-242` as sets of bits, with
  the reset values of the STM32F446. `Port` and `Pin` say where the devices are
  connected, in the run as in `src/README.md` (PC13, PA10, PB3, PB4). The four
  `_init` functions run in any order, one register after another, while edges arrive
  and the handler runs. A register whose peripheral has no clock ignores writes. The
  handler is one step: an edge comes only while no other line is pending, which
  `ExtiInputs` shows is needed. `heard` is not the program's: it remembers the inputs
  with an edge since their triggers were set.
* **`MotorTimerProofs`**, **`AutomaticDoorProofs`**, **`ExtiInputsProofs`**,
  **`DoorInputsProofs`**, **`NvicProofs`**, **`SysTimeProofs`**,
  **`TimerPrescalerProofs`**, **`PinConfigProofs`** - the theorems.

The definitions named "Mutant of X" are plausible mistakes in the code X models.
No specification uses them; each shows that a property can tell the code from
it (`PROJECT.json`, "mutants").

**Where the models meet.**

* The door and its motor: `AutomaticDoor` takes a call of the motor's driver as one
  step; `DoorMotor` implements it (`ImplementsAtomicMotor`) with the call write by
  write, so what is proved of the door holds on the registers.
* The door and its inputs: `AutomaticDoor` takes an input change as one step for
  each line; `DoorInputs` implements it (`ImplementsAtomicInputs`) with the
  handler access by access, so what is proved of the door holds from the pins on.
* The door and its interrupts: `AutomaticDoor` and `SysTime` take a tick and a
  toggle as one step, `Nvic` implements `AtomicHandlers`, which says so.
* The timer and its period: `MotorTimer` counts the ticks it was asked for,
  `TimerPrescaler` says how near that is to the truth.

## 3. The runs

| Run | Expected | What it shows |
| --- | --- | --- |
| `motor_timer` | pass | the door on the registers of its motor's timer: `NoEarlyTimeout`, `NoLateTimeout`, `TimeoutOnTime`, `Expires`, `ImplementsOneShot`, `ImplementsAtomicMotor`, `ClosesOnRegisters`, `TypeOK` |
| `prescaler` | pass | `Accurate`, `Finest`: every time the registers can hold is right to half of the smallest tick that reaches it |
| `door_presence` | pass | the whole door, presence checked before timeout: 6 invariants, refinement, `HeldOpen`, 2 liveness properties |
| `door_green` | violation | the green LED may be dark while the door is open |
| `door_inputs` | pass | the door from its pins on, with every edge the handler loses, timeout checked before presence: `FlagsShowPins`, `ImplementsAtomicInputs`, `SteadyLevelReachesFlag`, `ScanSeesHeldPin`, `HeldPinOpens`, `QuietPinsClose` |
| `exti_cross` | violation | an edge of one line is cleared while the other is served |
| `exti_own` | violation | an edge between reading a level and clearing its bit is lost |
| `exti_boot` | violation | a level present at start-up is never seen |
| `interrupts` | pass | `ImplementsAtomicHandlers`, `NestingBounded`, `MotorServed`, `TypeOK` over every order of initialisation, request and preemption |
| `start_up` | pass | `Configured`, `DebugPortKept`, `EarlyEdgesSeen`, `TypeOK` over every order of the four initialisations |
| `system_time` | pass | `DelayOnTime` across the wrap, `UntilOnTimeBeforeWrap`, `Returns` |
| `system_time_wrap` | violation | `port_system_delay_until_ms` fails around the wrap |

**Bounds.**

* `motor_timer`: `OpeningClosing` 2 and `Inactivity` 3, a reset period of 2, calls of at
  most 1 tick, `Wrap` 2, presence checked before timeout. Two timeouts show an old
  period, count or flag meeting a new one, in every order the door can ask for them;
  `Horizon` 4 is the longest timeout plus a call, the least `StallAssumption` permits.
  Any other order of calls is the theorems'.
* `prescaler`: registers of 16 values, an ARR of 16 or 256, 3 cycles per ms and every time from 0 to
  100 ms: the longest the registers can hold is 87 ms, so both ends are there.
* `door_presence`: `OpeningClosing` 2 and `Inactivity` 3 with `Horizon` and `Wrap`
  4: the two timeouts differ, elapsed time is told apart beyond both, and the clock
  wraps during a cycle. `door_green` uses 1 and 2 with `Horizon` and `Wrap` 2.
* `door_inputs`: 1 and 2 with `Horizon` 2, and `Wrap` 1: no property of this run is
  about a time that is shown. Edges come at any time, in any number, in both windows,
  and any of the two pins may be active at start-up. The `exti_` runs have one window
  or one pin each, so that each shows its own way to a stale flag.
* `interrupts`: `Wrap` 2; everything else is what the program has.
* `system_time`: a counter of 8, delays 0, 4 and 7: none, longer than the ticks
  the statements of a call can take, and the longest there is.
* `start_up`: nothing is bounded; the four devices and their levels are finite, and
  their pins are those of the board. The theorems hold for any pins `PinAssumption` permits.
* The tables: two orders of the rows, because only in `OPEN` and `CLOSING` does a
  state have two rows: `door_presence` has the presence first, `door_inputs` the
  timeout. The proofs cover every order and repetition that satisfies their hypotheses.
* Elapsed times stop at `Horizon` and clocks wrap at `Wrap`; nothing else is
  bounded. The theorems hold for every value of both.

**Fairness.** The main program runs (`WF(Main)`: the processor always gets back
to it, since handlers are short), time passes (`WF` of the tick), and an
interrupt that stays pending is taken (`WF` of the handlers of TIM2 and EXTI).
There is no fairness for the inputs nor for the blink timers: nobody has to come,
and no property counts on a blink. `Expires` also rests on a driver call
finishing (`WF(DriverStep)`): `DoorMotor` states the fairness of the main program for its
statements and for the driver's apart, the driver's being what the others wait for. In
`DoorInputs` the main program waits for the inputs'
interrupt, so that its fairness says something only once the pins no longer change
for ever: an input that is never quiet may keep the processor. In `Nvic` the
processor takes steps for ever (`WF(Processor)`) and nothing is said of which
interrupts come: `MotorServed` rests on the priorities alone.

**Bounds that are assumptions.** `MaxStall`: one call of the motor's driver,
with the interrupts that preempt it, is shorter than every programmed period
(the code takes microseconds, the periods are seconds). Without it the timer
could overflow inside its own activation. In the same way `SysTime` allows one
tick between two statements of a delay.

## 4. The proofs

TLAPS proves, for every value of the constants that satisfies the named
assumptions (`StallAssumption`, `DoorAssumption`, `InputsAssumption`,
`WrapAssumption`, `TimeAssumption`, `PrescalerAssumption`, `PinAssumption`,
`CallsAssumption`):

| Module | Theorem | Statement |
| --- | --- | --- |
| `MotorTimerProofs` | `TypeCorrect` | `SafetySpec => []TypeOK` |
| | `NeverEarly` | `SafetySpec => []NoEarlyTimeout` |
| | `NeverLate` | `SafetySpec => []NoLateTimeout` |
| | `Refinement` | `SafetySpec => ImplementsOneShot` |
| | `AtomicMotor` | `SystemSpec => ImplementsAtomicMotor` |
| | `DoorOnRegisters` | `SystemSpec => Door!ImplementsDoor /\ []Door!WayOut` |
| | `WayOutOnTime` | `SystemSpec => []TimeoutOnTime` |
| `TimerPrescalerProofs` | `TimesAccurate` | `Spec => []Accurate` |
| | `TimesFinest` | `Spec => []Finest` |
| `AutomaticDoorProofs` | `TypeCorrect` | `SafetySpec => []TypeOK` |
| | `ColoursApart` | `SafetySpec => []OtherColourDark` |
| | `BlinkersFollowDoor` | `SafetySpec => []BlinksWhileMoving` |
| | `TogglesKept` | `SafetySpec => []NoLostToggle` |
| | `OpeningsAnnounced` | `SafetySpec => []Announced` |
| | `AlwaysWayOut` | `SafetySpec => []WayOut` |
| | `Refinement` | `SafetySpec => ImplementsDoor` |
| | `PresenceHoldsOpen` | `SafetySpec => HeldOpen`, if `PresenceBeforeTimeout` |
| `ExtiInputsProofs` | `FlagsShow` | `Spec => []FlagsShowPins`, for any `Windows` and any lines in `BootActive` |
| `DoorInputsProofs` | `AtomicInputs` | `SystemSpec => ImplementsAtomicInputs` |
| | `DoorFromPins` | `SystemSpec => ImplementsDoor /\ []WayOut` |
| | `FlagsArePins` | `SystemSpec => []FlagsShowPins` |
| | `HeldPinsSeen` | `SystemSpec => ScanSeesHeldPin` |
| | `HeldPinsHoldOpen` | the same as `PresenceHoldsOpen` for a pin that stays active and is not lost, if `PresenceBeforeTimeout` |
| `NvicProofs` | `TypeCorrect` | `SafetySpec => []TypeOK` |
| | `Nesting` | `SafetySpec => []NestingBounded` |
| | `Refinement` | `SafetySpec => ImplementsAtomicHandlers` |
| `SysTimeProofs` | `DelaysOnTime` | `SafetySpec => DelayOnTime` |
| | `UntilsOnTime` | `SafetySpec => []UntilOnTimeBeforeWrap` |
| `PinConfigProofs` | `TypeCorrect` | `Spec => []TypeOK` |
| | `PinsConfigured` | `Spec => []Configured` |
| | `DebugPortUntouched` | `Spec => []DebugPortKept` |
| | `EarlyEdgesHeard` | `Spec => []EarlyEdgesSeen` |

Each property follows from one inductive invariant `IInv` per module
(`Invariance`).

*Motor timer.* `NoEarlyTimeout` is not inductive: an interrupt may raise the flag
at any time. `IInv` adds which period each register holds at each label
(`Loaded`), when the counter runs (`Running`), that UIF cannot interrupt between
the second write of a call and its end, because URS is set before UIE ever is
(`Masked`), that the counter has not run longer than the time since the call
(`Counting`) and that a pending interrupt is due (`Due`). `NoLateTimeout` needs
the converse, that the counter is at most `MaxStall` behind (`Counted`). The
proof has a step for each action and in it one for each part. These four hold for
calls in any order, so `NextDriver` gives them for the door's.

*Door on its registers.* A call takes effect at its first write: from there on the
flag it is about to clear counts as down and the timer as armed, and its other writes
change nothing the door can see (`CallIsAtomic`, `CallStutters`). A stop that finds an
expiry pending is the `Disarm` that came too late: `Due` says that its time was over.
`AtomicMotor` follows, and with it, by instantiating `AutomaticDoorProofs`,
`DoorOnRegisters`. `WayOutOnTime` needs both invariants: the door's `Timing` says which
timeout was asked for, the driver's `Counted` that nothing older delays it.

*Prescaler.* `Fit(p, a)` says what a prescaler and an auto-reload value must be.
The arithmetic is in three lemmas, one for each way the code can go: the first
prescaler is kept (`KeptFits`), it is one too small (`NextFits`), or there is
none, because the time is under half the range (`UndividedFits`). `IInv` carries
the two roundings to the end (`Rounded`, `Computed`).

*Door.* `IInv` is `TypeOK`, `Control` (which state each action runs in and which
row a check belongs to), `Timing` (the timer runs for the present state, and its
flag is never early), `Lights` (which LED blinks and which is dark at each
statement) and `Console` (the flag and main's copy at each statement). The proof
goes part by part. `FireCases` reduces `fsm_fire`, for any table, to finding no
condition true (`Look`) or taking one of the six arcs (`Depart`), so no other proof
mentions the order of the rows. `PresenceHoldsOpen` does: `HeldOpen` is false of a table
that asks for the timeout first, so `PresenceBeforeTimeout` is its hypothesis. While
a line is up, `Kept` is an invariant: the door is open, and `fsm_fire` has not passed the
row, or the reading, that finds the line.

*Inputs.* `FlagsShowPins` is not inductive: it speaks of the states with nothing
pending. `IInv` says of every state that a line whose flag is not its level is lost, or
pending and yet to be read (`Shown`), and that the line being served is pending and
among those the handler has read (`Served`). No theorem assumes the windows away: in them
an edge makes its line lost, and so does the write of `EXTI->PR` for the other lines it
clears. The lemmas of `ExtiInputsProofs` are used for the handler as a part of the door.
`HeldPinsSeen` adds that a scan which has passed a presence row has seen every line that
is not lost inactive at some moment (`Noticed`).

*Interrupts.* Handlers on the stack differ in priority (`Apart`), the timers all
have the same once main uses them (`Levels`, `Started`), so no two of them are
ever on the stack, and the word a handler has read is still the word (`Fresh`).

*System time.* The difference of two readings counts the ticks between them as
long as a call polls after each (`Polled`); `Counted` and `Remaining` relate it to
the ticks since the call and since the reference.

*Start-up.* `IInv` says of each device how far its configuration is and what it has
written so far (`Control`, `PinFields`, `LinePort`, `LineBits`), apart from the
registers of the debug port (`DebugPortKept`). The lemmas on fields carry it: a field
written reads back (`FieldSet`), and a field of another pin is what it was
(`FieldKept`). Of the edges: one line is pending at a time (`Alone`), only lines that
are unmasked, or about to be, have been heard (`HeardLate`), and a line heard whose flag
is not its level is pending (`Shown`). `PinAssumption` asks that each device has a pin of its own, none of
PA13 to PA15, and that the inputs are on two lines of the vector EXTI15_10.

**Model-checked only.** Liveness (`Expires`, `ClosesOnRegisters`, `ClosesWhenQuiet`,
`PresenceOpens`, `SteadyLevelReachesFlag`, `HeldPinOpens`, `QuietPinsClose`,
`MotorServed`, `Returns`): liveness under fairness is out of TLAPS's reach. Every
invariant and every action property of a passing run is proved.

## 5. Findings

1. `do_stay_open` switches the green LED on before it stops its blink timer
   (`fsm_automatic_door.c:152, 155`): one interrupt in between leaves it dark while
   the door is open. `do_stay_closed` has the same window for the red one.
2. `EXTI->PR |= mask` (`interr.c:58, 73`) clears the other line's pending bit too.
3. The level is read before the pending bit is cleared (`interr.c:44, 58`): an edge in
   between is lost. A lost release holds the door open: `QuietPinsClose` holds only
   because it asks that neither change was lost.
4. The level at start-up is never read (`port_pir_sensor.c:37-44`).
5. `port_system_delay_until_ms` compares absolute times (`port_system.c:148`). The
   door does not call it; the blink test does.

Noticed, and not the subject of a run:

* `port_system_init` sets SysTick's priority to the highest, as its comment asks
  (`port_system.c:105-107`), and `SysTick_Config`, which it calls next, sets the
  lowest (`port_system.c:86`). `Nvic` has it as the code does.
* The button and the sensor are documented with the priorities 3 and 1
  (`src/README.md:44, 28`), but PC13 and PA10 share one vector (`port_system.h:24`),
  so the last one initialised sets the priority of both (`port_button.c:28`,
  `port_pir_sensor.c:43`). `Nvic` and `DoorInputs` have both orders.
* `last_time_presence_or_button` is documented as the time of the last presence
  (`fsm_automatic_door.h:54`) and is that of the last opening: `do_keep_open` does not
  write it (`fsm_automatic_door.c:166-174`).
* A time above some 268 s does not fit the prescaler (`port_motor.c:94`): the register
  keeps its low 16 bits, and 268440 ms, for one, becomes about 4 ms. 0 ms casts a
  number that is none. `Accurate` and `Finest` are of the times in between.
* `port_button_read_gpio` is documented to return true when the button is pressed
  (`port_button.h:51`) and returns the level of an active-low pin, which its only
  caller knows (`interr.c:44`).

## 6. Not modelled

* The clock tree (`port_system.c:30-87`, but for `SysTick_Config`) and the
  registers of start-up that nothing reads afterwards; `SystemCoreClock` is the
  constant `CyclesPerMs`.
* `port_system_gpio_exti_disable`, `port_system_gpio_config_alternate` and
  `port_led_get_status`, which nothing calls.
* The blink rate: TIM3 and TIM4 may fire at any time while their timer runs; their
  period is `TimerPrescaler`'s.
* The last bits of a `double`, beyond rounding halfway either way.
* `syscalls.c` (the vendor's stubs of the C library), the tests and the build.

## 7. Plan

Done, in this order: `OneShotTimer`, `MotorTimer` and its proofs; `Leds`,
`InputFlags`, `AutomaticDoor`, `DoorSpec` and its proofs; `ExtiInputs`; `SysTime`;
`PinConfig`; `TimerPrescaler`; `Nvic` and `AtomicHandlers`; `DoorInputs`; the
proofs of these three and of `ExtiInputs` and `SysTime`; `PinConfig` for any pins and
its proofs; `DoorMotor` and its proofs; what holds the door open.

Left: `DoorInputs` and `DoorMotor` in one, the door from its pins to its registers. Each
replaces a part of `AutomaticDoor` the other does not touch, so it adds states to
the runs and no new meeting of two parts.
