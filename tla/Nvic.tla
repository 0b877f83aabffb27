-------------------------------- MODULE Nvic --------------------------------
(***************************************************************************)
(* Interrupt priorities and the nesting of the handlers of interr.c: the   *)
(* priorities that port_system_init and the _init functions set, and what  *)
(* the interrupt controller makes of them.  Handlers that change a word    *)
(* others use are a read and a write of it, with preemption in between.    *)
(***************************************************************************)
EXTENDS Naturals, FiniteSets

CONSTANT Wrap       \* msTicks counts modulo this, 2^32 in the program

ASSUME WrapAssumption == Wrap \in Nat \ {0}

VARIABLES pc,       \* start-up: "reset", "tick", "init", then "main"
          done,     \* devices initialised
          priority, \* of each vector, 0 the highest; reset leaves 0
          enabled,  \* vectors enabled
          pending,  \* vectors pending
          lines,    \* EXTI lines pending: EXTI->PR
          active,   \* vectors whose handler has begun and not returned
          loaded,   \* those of them that have read the word they change
          tick, word,   \* msTicks and ODR as the handlers have read them
          msTicks, odr

Vectors == {"SysTick", "TIM2", "TIM3", "TIM4", "EXTI15_10"}
Devices == {"button", "pir", "led_opening", "led_closing", "motor"}
Timers == {"TIM2", "TIM3", "TIM4"}
Inputs == {"button", "pir"}

A == INSTANCE AtomicHandlers

startup == <<pc, done, priority, enabled>>
handlers == <<active, loaded, tick, word, msTicks, odr>>
vars == <<startup, pending, lines, handlers>>

\* NVIC_PRIORITY_GROUP_4: sixteen preemption priorities, no subpriority.
Lowest == 15

\* The vector of a device's interrupt. The pins 10 and 13 share one.
Vector == [button |-> "EXTI15_10", pir |-> "EXTI15_10", motor |-> "TIM2",
           led_opening |-> "TIM3", led_closing |-> "TIM4"]

\* Mutant of Asked: the red LED's timer is less urgent than the green one's.
AskedUneven(d) == CASE d = "button" -> 3
                    [] d = "pir" -> 1
                    [] d = "led_closing" -> 4
                    [] OTHER -> 2

\* Mutant of Asked: the motor's timer is less urgent than the LEDs'.
AskedLateMotor(d) == CASE d \in {"button", "motor"} -> 3
                       [] d = "pir" -> 1
                       [] OTHER -> 2

\* The priority a device's _init function asks for.
Asked(d) == CASE d = "button" -> 3
              [] d = "pir" -> 1
              [] OTHER -> 2

Init == /\ pc = "reset" /\ done = {}
        /\ priority = [v \in Vectors |-> 0]
        /\ enabled = {} /\ pending = {} /\ lines = {}
        /\ active = {} /\ loaded = {}
        /\ tick = 0 /\ word = [v \in {"TIM3", "TIM4"} |-> {}]
        /\ A!Init

-----------------------------------------------------------------------------
(* The interrupt controller.                                               *)

\* Among equal priorities the vector with the smaller exception number goes first.
Exception == [SysTick |-> 15, TIM2 |-> 44, TIM3 |-> 45, TIM4 |-> 46, EXTI15_10 |-> 56]

Before(v, w) == \/ priority[v] < priority[w]
                \/ priority[v] = priority[w] /\ Exception[v] < Exception[w]

\* The handler at work is the most urgent of those that have begun.
Running(v) == v \in active /\ \A w \in active \ {v} : priority[v] < priority[w]

\* Vector v is taken now: before the next instruction of what it interrupts.
Taken(v) == /\ v \in pending \cap enabled
            /\ \A w \in active : priority[v] < priority[w]
            /\ \A w \in (pending \cap enabled) \ {v} : Before(v, w)

Quiet == \A v \in Vectors : ~Taken(v)

Enter(v) ==
    /\ Taken(v)
    /\ pending' = pending \ {v}
    /\ active' = active \cup {v}
    /\ loaded' = loaded \ {v}
    /\ UNCHANGED <<startup, lines, tick, word, msTicks, odr>>

-----------------------------------------------------------------------------
(* The main program, which starts up: it runs when no handler does.        *)

Thread == active = {} /\ Quiet

SetPriority(v, p) == priority' = [priority EXCEPT ![v] = p]

\* port_system_init gives SysTick the highest priority ...
SetTickPriority ==
    /\ Thread /\ pc = "reset" /\ pc' = "tick"
    /\ SetPriority("SysTick", 0)
    /\ UNCHANGED <<done, enabled, pending, lines, handlers>>

\* ... and then calls this, and this SysTick_Config, which starts SysTick and
\* gives it the lowest.
system_clock_config ==
    /\ Thread /\ pc = "tick" /\ pc' = "init"
    /\ SetPriority("SysTick", Lowest)
    /\ enabled' = enabled \cup {"SysTick"}
    /\ UNCHANGED <<done, pending, lines, handlers>>

\* NVIC_SetPriority and NVIC_EnableIRQ, in the _init function of device d.
EnableIRQ(d) ==
    /\ Thread /\ pc = "init" /\ d \notin done
    /\ SetPriority(Vector[d], Asked(d))
    /\ enabled' = enabled \cup {Vector[d]}
    /\ done' = done \cup {d}
    /\ pc' = IF done' = Devices THEN "main" ELSE pc
    /\ UNCHANGED <<pending, lines, handlers>>

-----------------------------------------------------------------------------
(* The requests.  The timers of the devices run only once main does.       *)

Request ==
    /\ \/ pc \in {"init", "main"} /\ pending' = pending \cup {"SysTick"}
       \/ pc = "main" /\ \E v \in Timers : pending' = pending \cup {v}
    /\ UNCHANGED <<startup, lines, handlers>>

Edge(l) ==
    /\ l \in done
    /\ lines' = lines \cup {l}
    /\ pending' = pending \cup {"EXTI15_10"}
    /\ UNCHANGED <<startup, handlers>>

-----------------------------------------------------------------------------
(* The handlers: a read, a write, and the return.                          *)

Step(v) == Running(v) /\ Quiet

Finish(v) == /\ active' = active \ {v}
             /\ loaded' = loaded \ {v}

Load(v) == Step(v) /\ v \notin loaded /\ loaded' = loaded \cup {v}

\* msTicks + 1: port_system_get_millis ...
LoadTick ==
    /\ Load("SysTick")
    /\ tick' = msTicks
    /\ UNCHANGED <<startup, pending, lines, active, word, msTicks, odr>>

\* Mutant of SysTick_Handler: the counter is wider than its users believe.
SysTickUnwrapped ==
    /\ Step("SysTick") /\ "SysTick" \in loaded
    /\ msTicks' = tick + 1
    /\ Finish("SysTick")
    /\ UNCHANGED <<startup, pending, lines, tick, word, odr>>

\* ... and port_system_set_millis.
SysTick_Handler ==
    /\ Step("SysTick") /\ "SysTick" \in loaded
    /\ msTicks' = (tick + 1) % Wrap
    /\ Finish("SysTick")
    /\ UNCHANGED <<startup, pending, lines, tick, word, odr>>

Lamp == [TIM3 |-> "led_opening", TIM4 |-> "led_closing"]

\* ODR ^= mask, in TIM3_IRQHandler and TIM4_IRQHandler.
LoadWord(v) ==
    /\ v \in DOMAIN Lamp /\ Load(v)
    /\ word' = [word EXCEPT ![v] = odr]
    /\ UNCHANGED <<startup, pending, lines, active, tick, msTicks, odr>>

Blink(v) ==
    /\ v \in DOMAIN Lamp /\ Step(v) /\ v \in loaded
    /\ odr' = A!Toggled(Lamp[v], word[v])
    /\ Finish(v)
    /\ UNCHANGED <<startup, pending, lines, tick, word, msTicks>>

\* What this one changes no other handler uses.
TIM2_IRQHandler ==
    /\ Step("TIM2")
    /\ Finish("TIM2")
    /\ UNCHANGED <<startup, pending, lines, tick, word, msTicks, odr>>

\* Both branches in one step; ExtiInputs has them access by access.
EXTI15_10_IRQHandler ==
    /\ Step("EXTI15_10")
    /\ lines' = {}
    /\ Finish("EXTI15_10")
    /\ UNCHANGED <<startup, pending, tick, word, msTicks, odr>>

Processor == \/ SetTickPriority \/ system_clock_config
             \/ \E d \in Devices : EnableIRQ(d)
             \/ \E v \in Vectors : Enter(v) \/ LoadWord(v) \/ Blink(v)
             \/ LoadTick \/ SysTick_Handler
             \/ TIM2_IRQHandler \/ EXTI15_10_IRQHandler

Next == Processor \/ Request \/ \E l \in Inputs : Edge(l)

SafetySpec == Init /\ [][Next]_vars

\* The processor never stops.
Spec == SafetySpec /\ WF_vars(Processor)

-----------------------------------------------------------------------------
(* Properties.                                                             *)

TypeOK == /\ pc \in {"reset", "tick", "init", "main"}
          /\ done \subseteq Devices
          /\ priority \in [Vectors -> 0 .. Lowest]
          /\ enabled \subseteq Vectors
          /\ pending \subseteq Vectors
          /\ lines \subseteq Inputs
          /\ active \subseteq Vectors
          /\ loaded \subseteq active
          /\ tick \in 0 .. Wrap - 1
          /\ word \in [DOMAIN Lamp -> SUBSET A!Lamps]
          /\ msTicks \in 0 .. Wrap - 1
          /\ odr \subseteq A!Lamps

\* No tick and no toggle is lost to a handler that interrupts another between
\* the read and the write of a word: those that share a word have the same
\* priority, whatever the order of initialisation (port_led.c:37, 88, 94).
ImplementsAtomicHandlers == A!Spec

\* At most three handlers are on the stack at once: SysTick's at the bottom,
\* the inputs' and one timer's above it (port_system.c:86, 240,
\* port_led.c:88, 94, port_motor.c:51).
NestingBounded == Cardinality(active) <= 3

\* The motor's timeout is served while the LEDs' timers and SysTick ask again
\* and again; only the inputs can keep it waiting for ever (port_motor.c:51,
\* port_system.c:86).
MotorServed == \/ "TIM2" \in pending ~> "TIM2" \notin pending
               \/ []<>("EXTI15_10" \in pending)
=============================================================================
