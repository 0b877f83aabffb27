----------------------------- MODULE NvicProofs -----------------------------
(***************************************************************************)
(* No handler undoes what one that interrupted it has done, and at most    *)
(* three nest, for every value of Wrap and every order of initialisation.  *)
(***************************************************************************)
EXTENDS Nvic, FiniteSetTheorems, TLAPS

-----------------------------------------------------------------------------
(* The inductive invariant.                                                *)

\* Once initialised, the timers of the devices have one priority.
Levels == /\ pc = "main" => done = Devices
          /\ \A d \in done : Vector[d] \in Timers => priority[Vector[d]] = 2

\* They are used only by the main program.
Started == Timers \cap (active \cup pending) # {} => pc = "main"

\* Handlers on the stack have different priorities.
Apart == \A v, w \in active : v # w => priority[v] # priority[w]

\* What a handler has read is still so.
Fresh == /\ "SysTick" \in loaded => tick = msTicks
         /\ \A v \in {"TIM3", "TIM4"} : v \in loaded => word[v] = odr

IInv == TypeOK /\ Levels /\ Started /\ Apart /\ Fresh

LEMMA Constants == /\ \A d \in Devices : Asked(d) \in 0 .. Lowest /\ Vector[d] \in Vectors
                   /\ \A d \in Devices : Vector[d] \in Timers => Asked(d) = 2
                   /\ \A t \in Timers : \E d \in Devices : Vector[d] = t
                   /\ DOMAIN Lamp = {"TIM3", "TIM4"}
                   /\ \A v \in DOMAIN Lamp : Lamp[v] \in A!Lamps
BY DEF Devices, Asked, Lowest, Vector, Vectors, Timers, Lamp, A!Lamps

\* The timers do not interrupt each other.
LEMMA OneTimer ==
    ASSUME IInv, NEW v \in active \cap Timers, NEW w \in active \cap Timers
    PROVE  v = w
<1>1. done = Devices
  BY DEF IInv, Started, Levels
<1>2. priority[v] = 2 /\ priority[w] = 2
  BY <1>1, Constants DEF IInv, Levels
<1> QED
  BY <1>2 DEF IInv, Apart

-----------------------------------------------------------------------------
LEMMA InitIInv == Init => IInv
BY WrapAssumption DEF Init, A!Init, IInv, TypeOK, Levels, Started, Apart, Fresh,
   Vectors, Lowest, Lamp, A!Lamps, Timers

LEMMA NextTypeOK == IInv /\ [Next]_vars => TypeOK'
<1> SUFFICES ASSUME IInv, [Next]_vars PROVE TypeOK'
  OBVIOUS
<1> USE Constants, WrapAssumption DEF IInv, TypeOK, startup, handlers, SetPriority
<1>1. CASE SetTickPriority \/ system_clock_config
  <2>1. priority' \in [Vectors -> 0 .. Lowest]
    BY <1>1 DEF SetTickPriority, system_clock_config, Vectors, Lowest
  <2>2. /\ pc' \in {"tick", "init"} /\ enabled' \subseteq Vectors
        /\ UNCHANGED <<done, pending, lines, handlers>>
    BY <1>1 DEF SetTickPriority, system_clock_config, Vectors
  <2> QED
    BY <2>1, <2>2
<1>2. ASSUME NEW d \in Devices, EnableIRQ(d)
      PROVE  TypeOK'
  BY <1>2 DEF EnableIRQ
<1>3. ASSUME NEW v \in Vectors, Enter(v)
      PROVE  TypeOK'
  BY <1>3 DEF Enter
<1>4. ASSUME NEW v \in Vectors, LoadWord(v)
      PROVE  TypeOK'
  BY <1>4 DEF LoadWord, Load, Step, Running
<1>5. ASSUME NEW v \in Vectors, Blink(v)
      PROVE  TypeOK'
  BY <1>5 DEF Blink, Finish, A!Toggled
<1>6. CASE LoadTick
  BY <1>6 DEF LoadTick, Load, Step, Running
<1>7. CASE SysTick_Handler
  BY <1>7 DEF SysTick_Handler, Finish
<1>8. CASE TIM2_IRQHandler \/ EXTI15_10_IRQHandler
  BY <1>8 DEF TIM2_IRQHandler, EXTI15_10_IRQHandler, Finish
<1>9. CASE Request \/ \E l \in Inputs : Edge(l)
  BY <1>9 DEF Request, Edge, Vectors, Timers, Inputs
<1> QED
  BY <1>1, <1>2, <1>3, <1>4, <1>5, <1>6, <1>7, <1>8, <1>9 DEF Next, Processor, vars

LEMMA NextLevels == IInv /\ [Next]_vars => Levels'
<1> SUFFICES ASSUME IInv, [Next]_vars PROVE Levels'
  OBVIOUS
<1> USE DEF IInv, TypeOK, Levels, startup, handlers, SetPriority
<1>1. CASE SetTickPriority \/ system_clock_config
  <2>1. pc' # "main" /\ done' = done
    BY <1>1 DEF SetTickPriority, system_clock_config
  <2>2. \A v \in Timers : priority'[v] = priority[v]
    BY <1>1 DEF SetTickPriority, system_clock_config, Timers, Vectors
  <2> QED
    BY <2>1, <2>2
<1>2. ASSUME NEW d \in Devices, EnableIRQ(d)
      PROVE  Levels'
  BY <1>2, Constants DEF EnableIRQ
<1>3. CASE UNCHANGED startup
  BY <1>3
<1> QED
  BY <1>1, <1>2, <1>3 DEF Next, Processor, vars, Enter, LoadWord, Blink, LoadTick,
     SysTick_Handler, TIM2_IRQHandler, EXTI15_10_IRQHandler, Request, Edge

LEMMA NextStarted == IInv /\ [Next]_vars => Started'
<1> SUFFICES ASSUME IInv, [Next]_vars PROVE Started'
  OBVIOUS
<1> USE DEF IInv, TypeOK, Started, startup, handlers
<1>1. CASE SetTickPriority \/ system_clock_config \/ \E d \in Devices : EnableIRQ(d)
  BY <1>1 DEF SetTickPriority, system_clock_config, EnableIRQ
<1>2. CASE \E v \in Vectors : Enter(v)
  BY <1>2 DEF Enter, Taken
<1>3. CASE \/ \E v \in Vectors : LoadWord(v) \/ Blink(v)
           \/ LoadTick \/ SysTick_Handler \/ TIM2_IRQHandler \/ EXTI15_10_IRQHandler
  BY <1>3 DEF LoadWord, Blink, LoadTick, SysTick_Handler, TIM2_IRQHandler,
     EXTI15_10_IRQHandler, Finish
<1>4. CASE Request \/ \E l \in Inputs : Edge(l)
  BY <1>4 DEF Request, Edge, Timers
<1>5. CASE UNCHANGED vars
  BY <1>5 DEF vars
<1> QED
  BY <1>1, <1>2, <1>3, <1>4, <1>5 DEF Next, Processor

LEMMA NextApart == IInv /\ [Next]_vars => Apart'
<1> SUFFICES ASSUME IInv, [Next]_vars PROVE Apart'
  OBVIOUS
<1> USE DEF IInv, TypeOK, Apart, startup, handlers
<1>1. CASE SetTickPriority \/ system_clock_config \/ \E d \in Devices : EnableIRQ(d)
  BY <1>1 DEF SetTickPriority, system_clock_config, EnableIRQ, Thread
<1>2. ASSUME NEW v \in Vectors, Enter(v)
      PROVE  Apart'
  BY <1>2 DEF Enter, Taken
<1>3. CASE \/ \E v \in Vectors : LoadWord(v) \/ Blink(v)
           \/ LoadTick \/ SysTick_Handler \/ TIM2_IRQHandler \/ EXTI15_10_IRQHandler
  BY <1>3 DEF LoadWord, Blink, LoadTick, SysTick_Handler, TIM2_IRQHandler,
     EXTI15_10_IRQHandler, Finish
<1>4. CASE Request \/ (\E l \in Inputs : Edge(l)) \/ UNCHANGED vars
  BY <1>4 DEF Request, Edge, vars
<1> QED
  BY <1>1, <1>2, <1>3, <1>4 DEF Next, Processor

LEMMA NextFresh == IInv /\ [Next]_vars => Fresh'
<1> SUFFICES ASSUME IInv, [Next]_vars PROVE Fresh'
  OBVIOUS
<1> USE DEF IInv, TypeOK, Fresh, startup, handlers
<1>1. CASE \/ SetTickPriority \/ system_clock_config \/ \E d \in Devices : EnableIRQ(d)
           \/ Request \/ (\E l \in Inputs : Edge(l)) \/ UNCHANGED vars
  BY <1>1 DEF SetTickPriority, system_clock_config, EnableIRQ, Request, Edge, vars
<1>2. CASE \E v \in Vectors : Enter(v)
  BY <1>2 DEF Enter
<1>3. ASSUME NEW v \in Vectors, LoadWord(v)
      PROVE  Fresh'
  BY <1>3, Constants DEF LoadWord, Load, Lamp
\* The other LED's timer is not on the stack, so nothing it has read is lost.
<1>4. ASSUME NEW v \in Vectors, Blink(v)
      PROVE  Fresh'
  <2>1. v \in active \cap Timers
    BY <1>4 DEF Blink, Step, Running, Lamp, Timers
  <2>2. \A w \in {"TIM3", "TIM4"} : w \notin loaded'
    BY <1>4, <2>1, OneTimer DEF Blink, Finish, Timers
  <2> QED
    BY <1>4, <2>2 DEF Blink, Finish, Lamp
<1>5. CASE LoadTick
  BY <1>5 DEF LoadTick, Load
<1>6. CASE SysTick_Handler \/ TIM2_IRQHandler \/ EXTI15_10_IRQHandler
  BY <1>6 DEF SysTick_Handler, TIM2_IRQHandler, EXTI15_10_IRQHandler, Finish
<1> QED
  BY <1>1, <1>2, <1>3, <1>4, <1>5, <1>6 DEF Next, Processor

LEMMA Invariance == SafetySpec => []IInv
<1>1. IInv /\ [Next]_vars => IInv'
  BY NextTypeOK, NextLevels, NextStarted, NextApart, NextFresh DEF IInv
<1> QED
  BY InitIInv, <1>1, PTL DEF SafetySpec

-----------------------------------------------------------------------------
(* Theorems.                                                               *)

\* The registers and what the handlers have read keep their types.
THEOREM TypeCorrect == SafetySpec => []TypeOK
<1> QED
  BY Invariance, PTL DEF IInv

\* Of the five handlers at most three nest: SysTick's, the inputs' and one timer's.
THEOREM Nesting == SafetySpec => []NestingBounded
<1>1. ASSUME IInv PROVE NestingBounded
  <2>1. PICK t : active \cap Timers \subseteq {t}
    BY <1>1, OneTimer
  <2> DEFINE most == {"SysTick", "EXTI15_10", t}
  <2>2. active \subseteq most
    BY <1>1, <2>1 DEF IInv, TypeOK, Vectors, Timers
  <2>3. IsFiniteSet(most) /\ Cardinality(most) <= 3
    <3>1. IsFiniteSet({}) /\ Cardinality({}) = 0
      BY FS_EmptySet
    <3>2. IsFiniteSet({t}) /\ Cardinality({t}) = 1
      BY FS_Singleton
    <3>3. {t} \cup {"SysTick"} = {"SysTick", t}
      OBVIOUS
    <3>4. IsFiniteSet({"SysTick", t}) /\ Cardinality({"SysTick", t}) <= 2
      BY <3>2, <3>3, FS_AddElement, FS_CardinalityType
    <3>5. {"SysTick", t} \cup {"EXTI15_10"} = most
      OBVIOUS
    <3> QED
      BY <3>4, <3>5, FS_AddElement, FS_CardinalityType
  <2> QED
    <3>1. IsFiniteSet(active) /\ Cardinality(active) <= Cardinality(most)
      BY <2>2, <2>3, FS_Subset
    <3>2. Cardinality(active) \in Nat /\ Cardinality(most) \in Nat
      BY <2>3, <3>1, FS_CardinalityType
    <3> QED
      BY <2>3, <3>1, <3>2 DEF NestingBounded
<1> QED
  BY <1>1, Invariance, PTL

\* The handlers, read and write apart and nested as the priorities allow, do
\* what they do one after another.
THEOREM Refinement == SafetySpec => ImplementsAtomicHandlers
<1>1. Init => A!Init
  BY DEF Init
<1>2. IInv /\ [Next]_vars => [A!Next]_A!vars
  <2> SUFFICES ASSUME IInv, [Next]_vars PROVE [A!Next]_A!vars
    OBVIOUS
  <2> USE DEF A!vars
  <2>1. CASE SysTick_Handler
    BY <2>1 DEF SysTick_Handler, IInv, Fresh, A!Next, A!Tick
  <2>2. ASSUME NEW v \in Vectors, Blink(v)
        PROVE  A!Next
    <3>1. word[v] = odr /\ Lamp[v] \in A!Lamps
      BY <2>2, Constants DEF Blink, IInv, Fresh
    <3>2. A!Toggle(Lamp[v])
      BY <2>2, <3>1 DEF Blink, A!Toggle
    <3> QED
      BY <3>1, <3>2 DEF A!Next
  <2>3. CASE UNCHANGED <<msTicks, odr>>
    BY <2>3
  <2> QED
    BY <2>1, <2>2, <2>3 DEF Next, Processor, vars, startup, handlers, SetTickPriority,
       system_clock_config, EnableIRQ, Enter, LoadWord, LoadTick, TIM2_IRQHandler,
       EXTI15_10_IRQHandler, Request, Edge
<1> QED
  BY <1>1, <1>2, Invariance, PTL DEF SafetySpec, ImplementsAtomicHandlers, A!Spec
=============================================================================
