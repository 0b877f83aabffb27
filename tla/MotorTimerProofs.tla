-------------------------- MODULE MotorTimerProofs --------------------------
(***************************************************************************)
(* The motor timer never fires early, never fires late and implements the  *)
(* one-shot timer, for every set of timeouts and every stall shorter than  *)
(* all of them; and on its registers the door is the door of AutomaticDoor, *)
(* with its timeouts on time.                                              *)
(***************************************************************************)
EXTENDS DoorMotor, TLAPS

-----------------------------------------------------------------------------
(* The inductive invariant.                                                *)

\* A call is short, and the counter never ran longer than the time since the
\* call that restarted it.
Counting ==
    /\ pc # "idle" => since <= MaxStall
    /\ pc \notin {"timeout", "cnt"} => cnt <= since
    /\ cnt < shadow

\* The counter stands while it is reprogrammed and runs from EnableCounter on.
Running == /\ pc \in {"timeout", "cnt", "arr", "cen"} => ~cen
           /\ pc \in {"ug", "sr", "urs", "uie"} => cen

\* Which period the registers hold at each point of the call.
Loaded == /\ pc # "idle" => request \in Durations
          /\ pc \in {"cen", "ug", "sr", "urs", "uie"} => preload = request
          /\ pc \in {"sr", "urs", "uie"} => shadow = request
          /\ pc = "idle" /\ uie => preload = request /\ shadow = request

\* UIF interrupts only once URS keeps update events from raising it, and from
\* the second write of a call to its end no interrupt is pending.
Masked == /\ uie => urs
          /\ pc = "uie" => urs
          /\ pc \in {"urs", "uie"} => ~uif
          /\ pc \notin {"idle", "timeout"} => ~Pending /\ ~timeout

\* A pending interrupt, as the flag it raises, is never early.
Due == pc = "idle" /\ Pending => since >= request

Counted == pc = "idle" /\ cen /\ uie /\ ~uif => since <= cnt + MaxStall

IInv == /\ TypeOK
        /\ Counting
        /\ Running
        /\ Loaded
        /\ Masked
        /\ Due
        /\ NoEarlyTimeout
        /\ Counted

-----------------------------------------------------------------------------
(* The bounds the assumption puts on whatever period is loaded.            *)

\* Whatever period the registers hold is longer than a call.
LEMMA PeriodBounds ==
    ASSUME NEW p \in Durations \cup {ResetPeriod}
    PROVE  p \in Nat /\ MaxStall < p /\ p <= Horizon
BY StallAssumption

\* A requested timeout stays inside the horizon, stall included.
LEMMA RequestBounds ==
    ASSUME NEW r \in Durations \cup {0}
    PROVE  r \in Nat /\ (r + MaxStall <= Horizon \/ r = 0)
BY StallAssumption

\* The registers at start-up satisfy the inductive invariant.
LEMMA InitIInv == Init => IInv
<1> SUFFICES ASSUME Init PROVE IInv
  OBVIOUS
<1> USE DEF Init, Pending
<1>1. TypeOK
  <2>1. pc \in Labels
    BY DEF Labels
  <2>2. cen \in BOOLEAN /\ urs \in BOOLEAN /\ uie \in BOOLEAN /\ uif \in BOOLEAN
          /\ timeout \in BOOLEAN
    OBVIOUS
  <2>3. preload \in Durations \cup {ResetPeriod} /\ shadow \in Durations \cup {ResetPeriod}
          /\ request \in Durations \cup {0}
    OBVIOUS
  <2>4. cnt \in 0 .. Horizon /\ since \in 0 .. Horizon
    BY StallAssumption
  <2> QED
    BY <2>1, <2>2, <2>3, <2>4 DEF TypeOK
<1>2. Counting /\ Running /\ Loaded /\ Masked
  BY StallAssumption DEF Counting, Running, Loaded, Masked
<1>3. Due /\ NoEarlyTimeout /\ Counted
  BY DEF Due, NoEarlyTimeout, Counted
<1> QED
  BY <1>1, <1>2, <1>3 DEF IInv

\* Every register write, tick and interrupt preserves it.
LEMMA NextIInv == IInv /\ [Next]_vars => IInv'
<1> SUFFICES ASSUME IInv, [Next]_vars PROVE IInv'
  OBVIOUS
<1> USE DEF Labels, Pending, registers
<1>a. TypeOK /\ Counting /\ Running /\ Loaded /\ Masked /\ Due /\ NoEarlyTimeout
        /\ Counted
  BY DEF IInv
<1>b. /\ MaxStall \in Nat /\ Horizon \in Nat
      /\ cnt \in Nat /\ since \in Nat /\ since <= Horizon
      /\ shadow \in Nat /\ MaxStall < shadow /\ shadow <= Horizon
      /\ preload \in Nat /\ MaxStall < preload /\ preload <= Horizon
      /\ request \in Nat /\ request <= Horizon
  BY <1>a, StallAssumption, PeriodBounds, RequestBounds DEF TypeOK
<1>1. ASSUME NEW d \in Durations, Activate(d)
      PROVE  IInv'
  <2>1. TypeOK'
    <3>1. request' \in Durations \cup {0} /\ since' \in 0 .. Horizon
      BY <1>1, <1>b DEF Activate
    <3>2. cen' \in BOOLEAN /\ pc' \in Labels
      BY <1>1 DEF Activate
    <3> QED
      BY <1>1, <1>a, <3>1, <3>2 DEF Activate, TypeOK
  <2>2. Counting' /\ Running' /\ Loaded'
    BY <1>1, <1>a, <1>b DEF Activate, Counting, Running, Loaded
  <2>3. Masked'
    BY <1>1, <1>a DEF Activate, Masked
  <2>4. Due'
    BY <1>1 DEF Activate, Due
  <2>5. NoEarlyTimeout'
    BY <1>1 DEF Activate, NoEarlyTimeout
  <2>6. Counted'
    BY <1>1 DEF Activate, Counted
  <2> QED
    BY <2>1, <2>2, <2>3, <2>4, <2>5, <2>6 DEF IInv
<1>2. ASSUME ClearTimeout
      PROVE  IInv'
  <2>1. TypeOK'
    BY <1>2, <1>a DEF ClearTimeout, TypeOK
  <2>2. Counting' /\ Running' /\ Loaded'
    BY <1>2, <1>a DEF ClearTimeout, Counting, Running, Loaded
  <2>3. Masked'
    BY <1>2, <1>a DEF ClearTimeout, Masked
  <2>4. Due'
    BY <1>2 DEF ClearTimeout, Due
  <2>5. NoEarlyTimeout'
    BY <1>2 DEF ClearTimeout, NoEarlyTimeout
  <2>6. Counted'
    BY <1>2 DEF ClearTimeout, Counted
  <2> QED
    BY <2>1, <2>2, <2>3, <2>4, <2>5, <2>6 DEF IInv
<1>3. ASSUME ClearCounter
      PROVE  IInv'
  <2>1. TypeOK'
    BY <1>3, <1>a, <1>b DEF ClearCounter, TypeOK
  <2>2. Counting' /\ Running' /\ Loaded'
    BY <1>3, <1>a, <1>b DEF ClearCounter, Counting, Running, Loaded
  <2>3. Masked'
    BY <1>3, <1>a DEF ClearCounter, Masked
  <2>4. Due'
    BY <1>3 DEF ClearCounter, Due
  <2>5. NoEarlyTimeout'
    BY <1>3, <1>a DEF ClearCounter, NoEarlyTimeout
  <2>6. Counted'
    BY <1>3 DEF ClearCounter, Counted
  <2> QED
    BY <2>1, <2>2, <2>3, <2>4, <2>5, <2>6 DEF IInv
<1>4. ASSUME LoadPeriod
      PROVE  IInv'
  <2>1. TypeOK'
    BY <1>4, <1>a DEF LoadPeriod, TypeOK, Loaded
  <2>2. Counting' /\ Running' /\ Loaded'
    BY <1>4, <1>a DEF LoadPeriod, Counting, Running, Loaded
  <2>3. Masked'
    BY <1>4, <1>a DEF LoadPeriod, Masked
  <2>4. Due'
    BY <1>4 DEF LoadPeriod, Due
  <2>5. NoEarlyTimeout'
    BY <1>4, <1>a DEF LoadPeriod, NoEarlyTimeout
  <2>6. Counted'
    BY <1>4 DEF LoadPeriod, Counted
  <2> QED
    BY <2>1, <2>2, <2>3, <2>4, <2>5, <2>6 DEF IInv
<1>5. ASSUME EnableCounter
      PROVE  IInv'
  <2>1. TypeOK'
    BY <1>5, <1>a DEF EnableCounter, TypeOK
  <2>2. Counting' /\ Running' /\ Loaded'
    BY <1>5, <1>a DEF EnableCounter, Counting, Running, Loaded
  <2>3. Masked'
    BY <1>5, <1>a DEF EnableCounter, Masked
  <2>4. Due'
    BY <1>5 DEF EnableCounter, Due
  <2>5. NoEarlyTimeout'
    BY <1>5, <1>a DEF EnableCounter, NoEarlyTimeout
  <2>6. Counted'
    BY <1>5 DEF EnableCounter, Counted
  <2> QED
    BY <2>1, <2>2, <2>3, <2>4, <2>5, <2>6 DEF IInv
<1>6. ASSUME GenerateUpdate
      PROVE  IInv'
  <2>1. TypeOK'
    BY <1>6, <1>a, <1>b DEF GenerateUpdate, TypeOK
  <2>2. Counting' /\ Running' /\ Loaded'
    BY <1>6, <1>a, <1>b DEF GenerateUpdate, Counting, Running, Loaded
  <2>3. Masked'
    BY <1>6, <1>a DEF GenerateUpdate, Masked
  <2>4. Due'
    BY <1>6 DEF GenerateUpdate, Due
  <2>5. NoEarlyTimeout'
    BY <1>6, <1>a DEF GenerateUpdate, NoEarlyTimeout
  <2>6. Counted'
    BY <1>6 DEF GenerateUpdate, Counted
  <2> QED
    BY <2>1, <2>2, <2>3, <2>4, <2>5, <2>6 DEF IInv
<1>7. ASSUME ClearUpdateFlag
      PROVE  IInv'
  <2>1. TypeOK'
    BY <1>7, <1>a DEF ClearUpdateFlag, TypeOK
  <2>2. Counting' /\ Running' /\ Loaded'
    BY <1>7, <1>a DEF ClearUpdateFlag, Counting, Running, Loaded
  <2>3. Masked'
    BY <1>7, <1>a DEF ClearUpdateFlag, Masked
  <2>4. Due'
    BY <1>7 DEF ClearUpdateFlag, Due
  <2>5. NoEarlyTimeout'
    BY <1>7, <1>a DEF ClearUpdateFlag, NoEarlyTimeout
  <2>6. Counted'
    BY <1>7 DEF ClearUpdateFlag, Counted
  <2> QED
    BY <2>1, <2>2, <2>3, <2>4, <2>5, <2>6 DEF IInv
<1>8. ASSUME OnlyOverflowInterrupts
      PROVE  IInv'
  <2>1. TypeOK'
    BY <1>8, <1>a DEF OnlyOverflowInterrupts, TypeOK
  <2>2. Counting' /\ Running' /\ Loaded'
    BY <1>8, <1>a DEF OnlyOverflowInterrupts, Counting, Running, Loaded
  <2>3. Masked'
    BY <1>8, <1>a DEF OnlyOverflowInterrupts, Masked
  <2>4. Due'
    BY <1>8 DEF OnlyOverflowInterrupts, Due
  <2>5. NoEarlyTimeout'
    BY <1>8, <1>a DEF OnlyOverflowInterrupts, NoEarlyTimeout
  <2>6. Counted'
    BY <1>8 DEF OnlyOverflowInterrupts, Counted
  <2> QED
    BY <2>1, <2>2, <2>3, <2>4, <2>5, <2>6 DEF IInv
<1>9. ASSUME EnableInterrupt
      PROVE  IInv'
  <2>1. TypeOK'
    BY <1>9, <1>a DEF EnableInterrupt, TypeOK
  <2>2. Counting' /\ Running' /\ Loaded'
    BY <1>9, <1>a DEF EnableInterrupt, Counting, Running, Loaded
  <2>3. Masked'
    BY <1>9, <1>a DEF EnableInterrupt, Masked
  <2>4. Due'
    BY <1>9, <1>a DEF EnableInterrupt, Masked, Due
  <2>5. NoEarlyTimeout'
    BY <1>9, <1>a DEF EnableInterrupt, NoEarlyTimeout
  <2>6. Counted'
    BY <1>9, <1>a, <1>b DEF EnableInterrupt, Counting, Counted
  <2> QED
    BY <2>1, <2>2, <2>3, <2>4, <2>5, <2>6 DEF IInv
<1>10. ASSUME Deactivate
      PROVE  IInv'
  <2>1. TypeOK'
    BY <1>10, <1>a DEF Deactivate, TypeOK
  <2>2. Counting' /\ Running' /\ Loaded'
    BY <1>10, <1>a DEF Deactivate, Counting, Running, Loaded
  <2>3. Masked'
    BY <1>10, <1>a DEF Deactivate, Masked
  <2>4. Due'
    BY <1>10, <1>a DEF Deactivate, Due
  <2>5. NoEarlyTimeout'
    BY <1>10, <1>a DEF Deactivate, NoEarlyTimeout
  <2>6. Counted'
    BY <1>10 DEF Deactivate, Counted
  <2> QED
    BY <2>1, <2>2, <2>3, <2>4, <2>5, <2>6 DEF IInv
<1>11. ASSUME Tick
      PROVE  IInv'
  <2>1. TypeOK'
    BY <1>11, <1>a, <1>b DEF Tick, Overflow, TypeOK
  <2>2. Counting' /\ Running' /\ Loaded'
    BY <1>11, <1>a, <1>b DEF Tick, Overflow, Counting, Running, Loaded
  <2>3. Masked'
    BY <1>11, <1>a, <1>b DEF Tick, Overflow, TypeOK, Counting, Running, Masked
  <2>4. Due'
    BY <1>11, <1>a, <1>b DEF Tick, Overflow, TypeOK, Counting, Loaded, Due
  <2>5. NoEarlyTimeout'
    BY <1>11, <1>a, <1>b DEF Tick, NoEarlyTimeout
  <2>6. Counted'
    <3>1. CASE Overflow
      BY <1>11, <3>1 DEF Tick, Counted
    <3>2. CASE ~Overflow
      <4>1. ~uif' /\ cen' => cnt' = cnt + 1 /\ ~uif
        BY <1>11, <3>2 DEF Tick
      <4>2. since' <= since + 1
        BY <1>11, <1>b DEF Tick
      <4> QED
        BY <1>11, <1>a, <1>b, <4>1, <4>2 DEF Tick, Counted
    <3> QED
      BY <3>1, <3>2
  <2> QED
    BY <2>1, <2>2, <2>3, <2>4, <2>5, <2>6 DEF IInv
<1>12. ASSUME TIM2_IRQHandler
      PROVE  IInv'
  <2>1. TypeOK'
    BY <1>12, <1>a DEF TIM2_IRQHandler, TypeOK
  <2>2. Counting' /\ Running' /\ Loaded'
    BY <1>12, <1>a DEF TIM2_IRQHandler, Counting, Running, Loaded
  <2>3. Masked'
    BY <1>12, <1>a DEF TIM2_IRQHandler, Masked
  <2>4. Due'
    BY <1>12 DEF TIM2_IRQHandler, Due
  <2>5. NoEarlyTimeout'
    BY <1>12, <1>a DEF TIM2_IRQHandler, Masked, Due, NoEarlyTimeout
  <2>6. Counted'
    BY <1>12 DEF TIM2_IRQHandler, Counted
  <2> QED
    BY <2>1, <2>2, <2>3, <2>4, <2>5, <2>6 DEF IInv
<1>13. CASE UNCHANGED vars
  BY <1>13 DEF vars, IInv, TypeOK, Counting, Running, Loaded, Masked, Due,
     NoEarlyTimeout, Counted
<1> QED
  BY <1>1, <1>2, <1>3, <1>4, <1>5, <1>6, <1>7, <1>8, <1>9, <1>10, <1>11, <1>12, <1>13
     DEF Next, Call

\* Every reachable state satisfies the inductive invariant.
THEOREM Invariance == SafetySpec => []IInv
<1> QED
  BY InitIInv, NextIInv, PTL DEF SafetySpec

\* The variables keep their types.
THEOREM TypeCorrect == SafetySpec => []TypeOK
BY Invariance, PTL DEF IInv

\* The motor's timeout flag is never up before the time asked for is over.
THEOREM NeverEarly == SafetySpec => []NoEarlyTimeout
BY Invariance, PTL DEF IInv

\* An armed motor timer overflows within MaxStall ticks of the time asked for.
THEOREM NeverLate == SafetySpec => []NoLateTimeout
<1>1. IInv => NoLateTimeout
  <2> SUFFICES ASSUME IInv, pc = "idle", cen, uie, ~uif
               PROVE  since < request + MaxStall
    BY DEF NoLateTimeout
  <2>1. since <= cnt + MaxStall /\ cnt < shadow /\ shadow = request
    BY DEF IInv, Counted, Counting, Loaded
  <2>2. MaxStall \in Nat /\ shadow \in Nat /\ cnt \in Nat /\ since \in Nat
    BY StallAssumption, PeriodBounds DEF IInv, TypeOK
  <2> QED
    BY <2>1, <2>2
<1> QED
  BY Invariance, <1>1, PTL

-----------------------------------------------------------------------------
(* Refinement.                                                             *)

\* The registers at start-up are an unarmed one-shot timer.
LEMMA InitOneShot == Init => OneShot!Init
BY DEF Init, OneShot!Init, Pending

\* A step of the call after its first one leaves the one-shot timer alone.
LEMMA CallStutters ==
    ASSUME IInv, Call
    PROVE  UNCHANGED OneShot!vars
<1>1. pc # "idle" /\ UNCHANGED <<request, since>>
  BY DEF Call, ClearTimeout, ClearCounter, LoadPeriod, EnableCounter,
     GenerateUpdate, ClearUpdateFlag, OnlyOverflowInterrupts, EnableInterrupt
<1>2. (timeout /\ pc # "timeout")' = (timeout /\ pc # "timeout")
  BY DEF Call, ClearTimeout, ClearCounter, LoadPeriod, EnableCounter,
     GenerateUpdate, ClearUpdateFlag, OnlyOverflowInterrupts, EnableInterrupt,
     IInv, TypeOK
<1>3. pc' # "idle" \/ (cen' /\ uie')
  BY DEF Call, ClearTimeout, ClearCounter, LoadPeriod, EnableCounter,
     GenerateUpdate, ClearUpdateFlag, OnlyOverflowInterrupts, EnableInterrupt,
     IInv, Running
<1> QED
  BY <1>1, <1>2, <1>3 DEF OneShot!vars

\* Every step is a step of the one-shot timer or leaves it alone.
LEMMA NextOneShot == IInv /\ [Next]_vars => [OneShot!Next]_(OneShot!vars)
<1> SUFFICES ASSUME IInv, [Next]_vars PROVE [OneShot!Next]_(OneShot!vars)
  OBVIOUS
<1>1. ASSUME NEW d \in Durations, Activate(d)
      PROVE  OneShot!Arm(d)
  BY <1>1 DEF Activate, OneShot!Arm
<1>2. CASE Call
  BY <1>2, CallStutters
<1>3. CASE Deactivate
  <2>1. CASE Pending
    BY <1>3, <2>1 DEF Deactivate, Pending, OneShot!vars
  <2>2. CASE ~Pending
    BY <1>3, <2>2 DEF Deactivate, Pending, OneShot!Disarm, OneShot!Next
  <2> QED
    BY <2>1, <2>2
<1>4. CASE Tick
  <2>1. since' = OneShot!Elapse(since)
    BY <1>4 DEF Tick, OneShot!Elapse
  <2>2. UNCHANGED <<pc, cen, uie, timeout, request>>
    BY <1>4 DEF Tick
  <2>3. (Pending \/ (cen /\ uie))' <=> (Pending \/ (cen /\ uie))
    BY <1>4 DEF Tick, Pending, Overflow
  <2> QED
    BY <2>1, <2>2, <2>3 DEF OneShot!Tick, OneShot!Next
<1>5. CASE TIM2_IRQHandler
  <2>1. pc = "idle" \/ pc = "timeout"
    BY <1>5 DEF TIM2_IRQHandler, IInv, Masked
  <2>2. CASE pc = "idle"
    BY <1>5, <2>2 DEF TIM2_IRQHandler, Pending, IInv, Due, OneShot!Expire, OneShot!Next
  <2>3. CASE pc = "timeout"
    BY <1>5, <2>3 DEF TIM2_IRQHandler, OneShot!vars
  <2> QED
    BY <2>1, <2>2, <2>3
<1>6. CASE UNCHANGED vars
  BY <1>6 DEF vars, registers, Pending, OneShot!vars
<1> QED
  BY <1>1, <1>2, <1>3, <1>4, <1>5, <1>6 DEF Next, OneShot!Next

\* The register-level driver implements the one-shot timer.
THEOREM Refinement == SafetySpec => ImplementsOneShot
<1> QED
  BY InitOneShot, NextOneShot, Invariance, PTL DEF SafetySpec, ImplementsOneShot,
     OneShot!Spec

-----------------------------------------------------------------------------
(* The door on its registers.                                              *)

\* The system leaves the driver alone or takes a step of it.
LEMMA NextDriver ==
    ASSUME [SystemNext]_systemVars
    PROVE  [Next]_vars
<1>1. CASE CallMotor
  BY <1>1, CallsAssumption DEF CallMotor, MotorCall, Next
<1>2. CASE Statement \/ OtherInterrupt
  BY <1>2 DEF Statement, OtherInterrupt
<1>3. CASE DriverStep \/ Millisecond \/ MotorInterrupt
  BY <1>3 DEF DriverStep, Millisecond, MotorInterrupt, Next
<1>4. CASE UNCHANGED systemVars
  BY <1>4 DEF systemVars
<1> QED
  BY <1>1, <1>2, <1>3, <1>4 DEF SystemNext

\* So the invariant of the driver holds under the door.
LEMMA DriverInvariance == SystemSpec => []IInv
<1>1. SystemInit => Init
  BY DEF SystemInit
<1> QED
  BY <1>1, NextDriver, InitIInv, NextIInv, PTL DEF SystemSpec

\* A call of the driver is to the door an arming, or a stop that may come too late.
LEMMA CallIsAtomic ==
    ASSUME IInv, CallMotor
    PROVE  Door!Main
<1> USE DEF rest, Door!MotorStep, Door!Goto, Door!fsm, Door!loop, Door!inputs, Door!leds
<1>1. ASSUME NEW d, Activate(d)
      PROVE  Door!Motor!Arm(d)
  BY <1>1 DEF Activate, Door!Motor!Arm
<1>2. ASSUME Deactivate
      PROVE  Door!Motor!Disarm
  BY <1>2 DEF Deactivate, Pending, IInv, Due, Door!Motor!Disarm
<1>3. CASE MotorCall("open_motor", "open_flag", Activate(OpeningClosing))
  BY <1>1, <1>3 DEF MotorCall, Door!do_open_door, Door!Main
<1>4. CASE MotorCall("stay_open_motor", "poll", Activate(Inactivity))
  BY <1>1, <1>4 DEF MotorCall, Door!do_stay_open, Door!Main
<1>5. CASE MotorCall("do_keep_open", "poll", Activate(Inactivity))
  BY <1>1, <1>5 DEF MotorCall, Door!do_keep_open, Door!Main
<1>6. CASE MotorCall("close_motor", "close_flag", Activate(OpeningClosing))
  BY <1>1, <1>6 DEF MotorCall, Door!do_close_door, Door!Main
<1>7. CASE MotorCall("stop_motor", "do_open_door", Deactivate)
  BY <1>2, <1>7 DEF MotorCall, Door!do_stop_closing_door, Door!Main
<1>8. CASE MotorCall("stay_closed_motor", "poll", Deactivate)
  BY <1>2, <1>8 DEF MotorCall, Door!do_stay_closed, Door!Main
<1> QED
  BY <1>3, <1>4, <1>5, <1>6, <1>7, <1>8 DEF CallMotor

\* Every step of the system is a step of the door or leaves it alone.
LEMMA NextAtomic ==
    ASSUME IInv, [SystemNext]_systemVars
    PROVE  [Door!Next]_Door!vars
<1> USE DEF Door!vars, Door!fsm, Door!loop, Door!inputs, Door!motor, Door!leds,
            door, rest
<1>1. CASE CallMotor
  BY <1>1, CallIsAtomic DEF Door!Next
<1>2. CASE Statement
  BY <1>2 DEF Statement, Door!Next
<1>3. CASE DriverStep
  <2>1. UNCHANGED OneShot!vars
    BY <1>3, CallStutters DEF DriverStep
  <2> QED
    BY <1>3, <2>1 DEF DriverStep, OneShot!vars
<1>4. CASE Millisecond
  <2>1. since' = Door!Motor!Elapse(since)
    BY <1>4 DEF Millisecond, Tick, Door!Motor!Elapse
  <2>2. UNCHANGED <<pc, cen, uie, timeout, request>>
    BY <1>4 DEF Millisecond, Tick
  <2>3. (Pending \/ (cen /\ uie))' <=> (Pending \/ (cen /\ uie))
    BY <1>4 DEF Millisecond, Tick, Pending, Overflow
  <2>4. Door!Motor!Tick
    BY <2>1, <2>2, <2>3 DEF Door!Motor!Tick
  <2> QED
    BY <1>4, <2>4 DEF Millisecond, Door!SysTick_Handler, Door!Next
<1>5. CASE MotorInterrupt
  <2>1. pc = "idle" \/ pc = "timeout"
    BY <1>5 DEF MotorInterrupt, TIM2_IRQHandler, IInv, Masked
  <2>2. CASE pc = "idle"
    <3>1. Door!Motor!Expire
      BY <1>5, <2>2 DEF MotorInterrupt, TIM2_IRQHandler, Pending, IInv, Due,
         Door!Motor!Expire
    <3> QED
      BY <1>5, <3>1 DEF MotorInterrupt, Door!TIM2_IRQHandler, Door!Next
  <2>3. CASE pc = "timeout"
    BY <1>5, <2>3 DEF MotorInterrupt, TIM2_IRQHandler
  <2> QED
    BY <2>1, <2>2, <2>3
<1>6. CASE OtherInterrupt
  BY <1>6 DEF OtherInterrupt, Door!Next
<1>7. CASE UNCHANGED systemVars
  BY <1>7 DEF systemVars, vars, registers, Pending
<1> QED
  BY <1>1, <1>2, <1>3, <1>4, <1>5, <1>6, <1>7 DEF SystemNext

\* On the registers of its motor the door is the door AutomaticDoor specifies,
\* with interrupts and ticks between any two of the driver's writes
\* (port_motor.c:68-121, interr.c:84-92).
THEOREM AtomicMotor == SystemSpec => ImplementsAtomicMotor
<1>1. SystemInit => Door!Init
  BY DEF SystemInit
<1> QED
  BY <1>1, NextAtomic, DriverInvariance, PTL DEF SystemSpec, ImplementsAtomicMotor

\* What is proved of AutomaticDoor, for the door on its registers.
P == INSTANCE AutomaticDoorProofs WITH
    pc      <- main,
    timeout <- timeout /\ pc # "timeout",
    armed   <- pc # "idle" \/ Pending \/ (cen /\ uie),
    period  <- request

\* The two instances of the door are one.
LEMMA SameStep == Door!Next => P!Next
<1> USE DEF Door!fsm, P!fsm, Door!loop, P!loop, Door!motor, P!motor, Door!leds, P!leds,
       Door!inputs, P!inputs, Door!Goto, P!Goto, Door!LedStep, P!LedStep,
       Door!MotorStep, P!MotorStep, Door!SetPresence, P!SetPresence,
       Door!SetLastTime, P!SetLastTime, Door!Motor!Arm, P!Motor!Arm,
       Door!Motor!Disarm, P!Motor!Disarm, Door!Led!Load, P!Led!Load,
       Door!Led!On, P!Led!On, Door!Led!Off, P!Led!Off, Door!Led!Flip, P!Led!Flip,
       Door!Led!EnableTimer, P!Led!EnableTimer, Door!Led!UpdateTimer,
       P!Led!UpdateTimer, Door!Led!DisableTimer, P!Led!DisableTimer
<1>1. Door!fsm_fire => P!fsm_fire
  BY DEF Door!fsm_fire, P!fsm_fire, Door!Scan, P!Scan, Door!CheckButton, P!CheckButton,
     Door!NoTransition, P!NoTransition, Door!Matching, P!Matching,
     Door!CheckTimeout, P!CheckTimeout, Door!CheckSensor, P!CheckSensor,
     Door!TimeoutChecks, P!TimeoutChecks, Door!PresenceChecks, P!PresenceChecks,
     Door!Take, P!Take, Door!Skip, P!Skip,
     Door!Input!port_button_is_pressed, P!Input!port_button_is_pressed,
     Door!Input!port_pir_sensor_get_status, P!Input!port_pir_sensor_get_status
<1>2. Door!do_open_door => P!do_open_door
  BY DEF Door!do_open_door, P!do_open_door
<1>3. /\ Door!do_stay_open => P!do_stay_open
      /\ Door!do_keep_open => P!do_keep_open
  BY DEF Door!do_stay_open, P!do_stay_open, Door!do_keep_open, P!do_keep_open
<1>4. Door!do_close_door => P!do_close_door
  BY DEF Door!do_close_door, P!do_close_door
<1>5. /\ Door!do_stop_closing_door => P!do_stop_closing_door
      /\ Door!do_stay_closed => P!do_stay_closed
  BY DEF Door!do_stop_closing_door, P!do_stop_closing_door, Door!do_stay_closed,
     P!do_stay_closed
<1>6. Door!Poll => P!Poll
  BY DEF Door!Poll, P!Poll, Door!fsm_automatic_door_get_presence_status,
     P!fsm_automatic_door_get_presence_status,
     Door!fsm_automatic_door_get_last_time_presence,
     P!fsm_automatic_door_get_last_time_presence
<1>7. /\ Door!SysTick_Handler => P!SysTick_Handler
      /\ Door!TIM2_IRQHandler => P!TIM2_IRQHandler
  BY DEF Door!SysTick_Handler, P!SysTick_Handler, Door!TIM2_IRQHandler,
     P!TIM2_IRQHandler, Door!Motor!Tick, P!Motor!Tick, Door!Motor!Elapse,
     P!Motor!Elapse, Door!Motor!Expire, P!Motor!Expire
<1>8. Door!EXTI15_10_IRQHandler => P!EXTI15_10_IRQHandler
  BY DEF Door!EXTI15_10_IRQHandler, P!EXTI15_10_IRQHandler, Door!Input!ButtonBranch,
     P!Input!ButtonBranch, Door!Input!PirBranch, P!Input!PirBranch,
     Door!Input!port_pir_sensor_set_status, P!Input!port_pir_sensor_set_status
<1>9. /\ Door!TIM3_IRQHandler => P!TIM3_IRQHandler
      /\ Door!TIM4_IRQHandler => P!TIM4_IRQHandler
  BY DEF Door!TIM3_IRQHandler, P!TIM3_IRQHandler, Door!TIM4_IRQHandler,
     P!TIM4_IRQHandler, Door!Led!Blink, P!Led!Blink
<1> QED
  BY <1>1, <1>2, <1>3, <1>4, <1>5, <1>6, <1>7, <1>8, <1>9
     DEF Door!Next, Door!Main, P!Next, P!Main

\* So the invariant of the door holds on its registers.
LEMMA DoorInvariance == SystemSpec => []P!IInv /\ P!ImplementsDoor
<1>1. Door!Init => P!Init
  BY DEF Door!Init, P!Init, Door!Input!Init, P!Input!Init, Door!Motor!Init,
     P!Motor!Init, Door!Led!Init, P!Led!Init
<1>2. [Door!Next]_Door!vars => [P!Next]_P!vars
  <2>1. UNCHANGED Door!vars => UNCHANGED P!vars
    BY DEF Door!vars, P!vars, Door!fsm, P!fsm, Door!loop, P!loop, Door!motor, P!motor,
       Door!leds, P!leds, Door!inputs, P!inputs
  <2> QED
    BY <2>1, SameStep
<1>3. P!DoorAssumption
  BY CallsAssumption DEF Door!DoorAssumption, P!DoorAssumption, Door!Arcs, P!Arcs,
     Door!Arc, P!Arc
<1> QED
  BY <1>1, <1>2, <1>3, AtomicMotor, P!Invariance, P!Refinement, PTL
     DEF ImplementsAtomicMotor, P!SafetySpec

\* On the registers too, whatever interrupts the driver, the door moves along its
\* arcs only and never before a timeout, and always has a way out
\* (fsm_automatic_door.c:119-242, port_motor.c:68-121).
THEOREM DoorOnRegisters == SystemSpec => Door!ImplementsDoor /\ []Door!WayOut
<1>1. P!Door!Init => Door!Door!Init
  BY DEF P!Door!Init, Door!Door!Init
<1>2. [P!Door!Next]_P!Door!vars => [Door!Door!Next]_Door!Door!vars
  <2>1. P!Door!Next => Door!Door!Next
    BY DEF P!Door!Next, Door!Door!Next, P!Door!Move, Door!Door!Move, P!BeforeArming,
       Door!BeforeArming
  <2>2. UNCHANGED P!Door!vars => UNCHANGED Door!Door!vars
    BY DEF P!Door!vars, Door!Door!vars, P!BeforeArming, Door!BeforeArming
  <2> QED
    BY <2>1, <2>2
<1>3. P!IInv => Door!WayOut
  BY DEF P!IInv, P!Timing, Door!WayOut, P!Watching, Door!Watching
<1> QED
  BY <1>1, <1>2, <1>3, DoorInvariance, PTL
     DEF P!ImplementsDoor, P!Door!Spec, Door!ImplementsDoor, Door!Door!Spec

\* The timeout of a door that is not closed comes at most MaxStall ticks late: the
\* driver's invariant says that no old period or count delays it, the door's that
\* it is the timeout of this state that was asked for (port_motor.c:76, 93-99).
THEOREM WayOutOnTime == SystemSpec => []TimeoutOnTime
<1>1. ASSUME IInv, P!IInv
      PROVE  TimeoutOnTime
  <2> SUFFICES ASSUME pc = "idle", main \in Door!Watching, current_state # "CLOSED",
                      ~timeout, ~Pending
               PROVE  since < (IF current_state = "OPEN" THEN Inactivity
                                                         ELSE OpeningClosing) + MaxStall
    <3>1. request \in Nat /\ since \in Nat /\ MaxStall \in Nat
      BY <1>1, StallAssumption DEF IInv, TypeOK
    <3>2. (IF current_state = "OPEN" THEN Inactivity ELSE OpeningClosing) \in Nat
      BY StallAssumption, CallsAssumption
    <3> QED
      BY <3>1, <3>2 DEF TimeoutOnTime
  <2>1. main \in P!Watching \cup P!AfterArming
    BY DEF Door!Watching, P!Watching
  <2>2. /\ cen /\ uie /\ ~uif
        /\ request = IF current_state = "OPEN" THEN Inactivity ELSE OpeningClosing
    BY <1>1, <2>1 DEF P!IInv, P!Timing, Pending
  <2>3. since <= cnt + MaxStall /\ cnt < shadow /\ shadow = request
    BY <1>1, <2>2 DEF IInv, Counted, Counting, Loaded
  <2>4. MaxStall \in Nat /\ shadow \in Nat /\ cnt \in Nat /\ since \in Nat
    BY <1>1, StallAssumption, PeriodBounds DEF IInv, TypeOK
  <2> QED
    BY <2>2, <2>3, <2>4
<1> QED
  BY <1>1, DriverInvariance, DoorInvariance, PTL
=============================================================================
