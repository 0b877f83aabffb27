-------------------------- MODULE PinConfigProofs ---------------------------
(***************************************************************************)
(* Start-up leaves every pin as its device asked for, the debug port as it *)
(* was, and no edge unheard, wherever the devices are connected.           *)
(***************************************************************************)
EXTENDS PinConfig, TLAPS

-----------------------------------------------------------------------------
(* Fields of a register.                                                   *)

\* A field that has just been set holds its value.
LEMMA FieldSet ==
    ASSUME NEW word, NEW width \in Nat, NEW n \in Nat, NEW value \in SUBSET (0 .. width - 1)
    PROVE  Field(SetField(word, width, n, value), width, n) = value
<1>1. ASSUME NEW b \in 0 .. width - 1
      PROVE  b + n \in SetField(word, width, n, value) <=> b \in value
  BY <1>1 DEF SetField, Shift
<1> QED
  BY <1>1 DEF Field

\* Setting a field leaves those below and above it alone.
LEMMA FieldKept ==
    ASSUME NEW word, NEW width \in Nat, NEW n \in Nat, NEW m \in Nat,
           NEW value \in SUBSET (0 .. width - 1),
           m + width <= n \/ n + width <= m
    PROVE  Field(SetField(word, width, n, value), width, m) = Field(word, width, m)
<1>1. ASSUME NEW b \in 0 .. width - 1
      PROVE  b + m \in SetField(word, width, n, value) <=> b + m \in word
  BY <1>1 DEF SetField, Shift
<1> QED
  BY <1>1 DEF Field

\* A field inside a word stays inside it.
LEMMA FieldInWord ==
    ASSUME NEW size \in Nat, NEW word \in SUBSET (0 .. size - 1),
           NEW width \in Nat, NEW n \in Nat, n + width <= size,
           NEW value \in SUBSET (0 .. width - 1)
    PROVE  SetField(word, width, n, value) \in SUBSET (0 .. size - 1)
<1> SUFFICES ASSUME NEW b \in SetField(word, width, n, value)
             PROVE  b \in 0 .. size - 1
  OBVIOUS
<1>1. CASE b \in word
  BY <1>1
<1>2. CASE b \in Shift(value, n)
  <2>1. PICK v \in value : b = v + n
    BY <1>2 DEF Shift
  <2> QED
    BY <2>1
<1> QED
  BY <1>1, <1>2 DEF SetField

\* Every value written to a field fits it, and the ports' selectors differ.
LEMMA Values == /\ \A d \in Devices : Mode(d) \in SUBSET (0 .. 1)
                /\ Pull \in SUBSET (0 .. 1)
                /\ \A p \in Ports : PortSelector[p] \in SUBSET (0 .. 3)
                /\ \A p, q \in Ports : PortSelector[p] = PortSelector[q] => p = q
<1>1. \A d \in Devices : Mode(d) \in SUBSET (0 .. 1)
  BY DEF Mode
<1>2. Pull \in SUBSET (0 .. 1)
  BY DEF Pull
<1>3. PortSelector["A"] = {} /\ PortSelector["B"] = {0} /\ PortSelector["C"] = {1}
  BY DEF PortSelector
<1>4. \A p \in Ports : p = "A" \/ p = "B" \/ p = "C"
  BY DEF Ports
<1>5. 0 \in {0} /\ 1 \in {1} /\ 0 \notin {1}
  OBVIOUS
<1>6. \A p \in Ports : PortSelector[p] \in SUBSET (0 .. 3)
  BY <1>3, <1>4
<1>7. \A p, q \in Ports : PortSelector[p] = PortSelector[q] => p = q
  BY <1>3, <1>4, <1>5
<1> QED
  BY <1>1, <1>2, <1>6, <1>7

\* EXTI line n is connected to the port selected for it.
LEMMA RoutedIs ==
    ASSUME NEW n, NEW p \in Ports, Field(exticr[n \div 4], 4, 4 * (n % 4)) = PortSelector[p]
    PROVE  Routed(n) = p
BY Values DEF Routed

-----------------------------------------------------------------------------
(* The invariant.                                                          *)

Labels == {"reset", "call", "clock", "fields", "syscfg", "route", "rising",
           "falling", "unmask", "enable"}
Routing == {"rising", "falling", "unmask", "enable"}

\* d's _init has returned, or has reached one of the given statements.
Past(d, labels) == d \in done \/ (device = d /\ pc \in labels)

\* Where the main program is, and the clocks it has enabled by then.
Control == /\ pc \in Labels
           /\ pc = "reset" => done = {}
           /\ pc \notin {"reset", "call"} => device \notin done
           /\ pc \in {"syscfg", "route"} \cup Routing => device \in F!Lines
           /\ pc # "reset" => "SYSCFG" \in clocks
           /\ pc = "fields" => Port[device] \in clocks

\* What each _init has set so far, nobody changes.
PinFields ==
    \A d \in Devices : Past(d, {"syscfg", "route"} \cup Routing) =>
        /\ Field(moder[Port[d]], 2, 2 * Pin[d]) = Mode(d)
        /\ Field(pupdr[Port[d]], 2, 2 * Pin[d]) = Pull
LinePort ==
    \A l \in F!Lines : Past(l, Routing) =>
        Field(exticr[Pin[l] \div 4], 4, 4 * (Pin[l] % 4)) = PortSelector[Port[l]]
LineBits ==
    \A l \in F!Lines :
        /\ Past(l, Routing \ {"rising"}) => Pin[l] \in rtsr
        /\ Past(l, {"unmask", "enable"}) => Pin[l] \in ftsr
        /\ Past(l, {"enable"}) => Pin[l] \in imr
        /\ l \in done => enabled

\* One line is pending at a time, and it is heard only with its triggers set.
Alone == \A l, m \in F!Lines : Pin[l] \in pr /\ Pin[m] \in pr => l = m
HeardLate == \A l \in heard : Past(l, {"unmask", "enable"})

\* A line whose level the flag does not show is pending.
Shown == /\ "button" \in heard /\ Pin["button"] \notin pr =>
               (flag_pressed <=> "button" \notin high)
         /\ "pir" \in heard /\ Pin["pir"] \notin pr =>
               (sensor_status <=> "pir" \in high)

IInv == /\ TypeOK /\ Control
        /\ PinFields /\ LinePort /\ LineBits /\ DebugPortKept
        /\ Alone /\ HeardLate /\ Shown

-----------------------------------------------------------------------------
(* The invariant holds at first and is kept by every step.                 *)

LEMMA InitIInv == Init => IInv
<1> SUFFICES ASSUME Init PROVE IInv
  OBVIOUS
<1> USE DEF Init
<1>1. TypeOK
  <2>1. /\ moder \in [Ports -> SUBSET (0 .. 31)]
        /\ pupdr \in [Ports -> SUBSET (0 .. 31)]
    BY DEF Ports
  <2>2. exticr \in [0 .. 3 -> SUBSET (0 .. 15)]
    OBVIOUS
  <2>3. F!TypeOK
    BY DEF F!Init, F!TypeOK
  <2> QED
    BY <2>1, <2>2, <2>3 DEF TypeOK, Devices, F!Lines
<1>2. Control
  BY DEF Control, Labels, Routing
<1>3. PinFields /\ LinePort /\ LineBits /\ Alone /\ HeardLate /\ Shown
  BY DEF PinFields, LinePort, LineBits, Alone, HeardLate, Shown, Past, Routing
<1>4. DebugPortKept
  BY DEF DebugPortKept, Field
<1> QED
  BY <1>1, <1>2, <1>3, <1>4 DEF IInv

\* A step of the main program that keeps the pins: what it moves on, and what
\* nobody looks back on.
LEMMA PinsKept ==
    ASSUME IInv, UNCHANGED pins,
           \A l \in F!Lines : Past(l, {"unmask", "enable"}) => Past(l, {"unmask", "enable"})'
    PROVE  Alone' /\ HeardLate' /\ Shown' /\ F!TypeOK' /\ heard' = heard /\ pr' = pr
<1> USE DEF IInv, pins, flags
<1>1. Alone'
  BY DEF Alone
<1>2. HeardLate'
  BY DEF HeardLate, TypeOK
<1>3. Shown'
  BY DEF Shown
<1>4. F!TypeOK'
  BY DEF TypeOK, F!TypeOK
<1> QED
  BY <1>1, <1>2, <1>3, <1>4

\* A step that changes no register but a clock's: nobody gets further with what
\* the registers must hold.
LEMMA ClockStep ==
    ASSUME IInv, TypeOK', Control', UNCHANGED <<done, moder, pupdr, exti, pins>>,
           \A d \in Devices : Past(d, {"syscfg", "route"} \cup Routing)' =>
                                  Past(d, {"syscfg", "route"} \cup Routing),
           pc \notin Routing, pc' \notin Routing
    PROVE  IInv'
<1> USE DEF IInv, exti
<1>1. PinFields'
  BY DEF PinFields
<1>2. DebugPortKept'
  BY DEF DebugPortKept
<1>3. LinePort'
  BY DEF LinePort, Past
<1>4. \A l \in F!Lines : /\ Past(l, Routing \ {"rising"})' <=> Past(l, Routing \ {"rising"})
                         /\ Past(l, {"unmask", "enable"})' <=> Past(l, {"unmask", "enable"})
                         /\ Past(l, {"enable"})' <=> Past(l, {"enable"})
  BY DEF Past, Routing
<1>5. LineBits'
  BY <1>4 DEF LineBits
<1>6. Alone' /\ HeardLate' /\ Shown'
  BY <1>4, PinsKept
<1> QED
  BY <1>1, <1>2, <1>3, <1>5, <1>6

LEMMA SystemInitIInv ==
    ASSUME IInv, port_system_init
    PROVE  IInv'
<1> USE DEF IInv, port_system_init
<1>1. TypeOK'
  BY DEF TypeOK, F!TypeOK, exti, pins, flags
<1>2. Control'
  BY DEF Control, Labels, Routing
<1> QED
  BY <1>1, <1>2, ClockStep DEF Past, Routing

LEMMA CallIInv ==
    ASSUME IInv, NEW d \in Devices, Call(d)
    PROVE  IInv'
<1> USE DEF IInv, Call, gpio
<1>1. TypeOK'
  BY DEF TypeOK, F!TypeOK, exti, pins, flags
<1>2. Control'
  BY DEF Control, Labels, Routing
<1> QED
  BY <1>1, <1>2, ClockStep DEF Past, Routing

LEMMA EnableClockIInv ==
    ASSUME IInv, EnableClock
    PROVE  IInv'
<1> USE DEF IInv, EnableClock
<1>1. Port[device] \in Ports
  BY PinAssumption DEF TypeOK
<1>2. TypeOK'
  BY <1>1 DEF TypeOK, F!TypeOK, exti, pins, flags
<1>3. Control'
  BY DEF Control, Labels, Routing
<1> QED
  BY <1>2, <1>3, ClockStep DEF Past, Routing

LEMMA EnableSyscfgIInv ==
    ASSUME IInv, EnableSyscfg
    PROVE  IInv'
<1> USE DEF IInv, EnableSyscfg
<1>1. TypeOK'
  BY DEF TypeOK, F!TypeOK, exti, pins, flags
<1>2. Control'
  BY DEF Control, Labels, Routing
<1> QED
  BY <1>1, <1>2, ClockStep DEF Past, Routing

\* The pin's two fields, and nobody else's.
LEMMA FieldsStep ==
    ASSUME IInv, ConfigurePin
    PROVE  PinFields' /\ DebugPortKept' /\ moder' \in [Ports -> SUBSET (0 .. 31)]
                                        /\ pupdr' \in [Ports -> SUBSET (0 .. 31)]
<1> DEFINE q == Port[device]
           n == 2 * Pin[device]
<1>1. /\ device \in Devices /\ q \in Ports /\ Pin[device] \in 0 .. 15
      /\ device \notin done /\ pc = "fields" /\ q \in clocks
      /\ moder \in [Ports -> SUBSET (0 .. 31)] /\ pupdr \in [Ports -> SUBSET (0 .. 31)]
  BY PinAssumption DEF IInv, TypeOK, Control, ConfigurePin
<1>2. n \in Nat /\ n + 2 <= 32
  BY <1>1
<1>3. Mode(device) \in SUBSET (0 .. 2 - 1) /\ Pull \in SUBSET (0 .. 2 - 1)
  BY <1>1, Values
<1>4. /\ moder' = [moder EXCEPT ![q] = SetField(moder[q], 2, n, Mode(device))]
      /\ pupdr' = [pupdr EXCEPT ![q] = SetField(pupdr[q], 2, n, Pull)]
      /\ done' \subseteq done \cup {device} /\ device' = device
  BY <1>1 DEF ConfigurePin
<1>5. \A p \in Ports : /\ moder'[p] = IF p = q THEN SetField(moder[q], 2, n, Mode(device))
                                                ELSE moder[p]
                       /\ pupdr'[p] = IF p = q THEN SetField(pupdr[q], 2, n, Pull)
                                                ELSE pupdr[p]
  BY <1>1, <1>4
<1>6. /\ moder' \in [Ports -> SUBSET (0 .. 31)]
      /\ pupdr' \in [Ports -> SUBSET (0 .. 31)]
  <2>1. /\ SetField(moder[q], 2, n, Mode(device)) \in SUBSET (0 .. 32 - 1)
        /\ SetField(pupdr[q], 2, n, Pull) \in SUBSET (0 .. 32 - 1)
    <3>1. /\ moder[q] \in SUBSET (0 .. 32 - 1)
          /\ pupdr[q] \in SUBSET (0 .. 32 - 1)
      BY <1>1
    <3> QED
      BY <1>2, <1>3, <3>1, FieldInWord
  <2> QED
    BY <1>1, <1>4, <2>1
<1>7. ASSUME NEW p \in Ports, NEW m \in Nat, p # q \/ m + 2 <= n \/ n + 2 <= m
      PROVE  /\ Field(moder'[p], 2, m) = Field(moder[p], 2, m)
             /\ Field(pupdr'[p], 2, m) = Field(pupdr[p], 2, m)
  BY <1>2, <1>3, <1>5, <1>7, FieldKept
<1>8. PinFields'
  <2> SUFFICES ASSUME NEW d \in Devices, Past(d, {"syscfg", "route"} \cup Routing)'
               PROVE  /\ Field(moder'[Port[d]], 2, 2 * Pin[d]) = Mode(d)
                      /\ Field(pupdr'[Port[d]], 2, 2 * Pin[d]) = Pull
    BY DEF PinFields
  <2>1. CASE d = device
    <3>1. /\ moder'[Port[d]] = SetField(moder[q], 2, n, Mode(d))
          /\ pupdr'[Port[d]] = SetField(pupdr[q], 2, n, Pull)
      BY <1>1, <1>5, <2>1
    <3> QED
      BY <1>2, <1>3, <2>1, <3>1, FieldSet
  <2>2. CASE d # device
    <3>1. d \in done
      BY <1>4, <2>2 DEF Past
    <3>2. /\ Field(moder[Port[d]], 2, 2 * Pin[d]) = Mode(d)
          /\ Field(pupdr[Port[d]], 2, 2 * Pin[d]) = Pull
      BY <3>1 DEF IInv, PinFields, Past
    <3>3. Port[d] \in Ports /\ Pin[d] \in 0 .. 15
      BY PinAssumption
    <3>4. Port[d] # q \/ Pin[d] # Pin[device]
      BY <1>1, <2>2, PinAssumption
    <3>5. Port[d] # q \/ 2 * Pin[d] + 2 <= n \/ n + 2 <= 2 * Pin[d]
      BY <1>1, <3>3, <3>4
    <3> QED
      BY <1>7, <3>2, <3>3, <3>5
  <2> QED
    BY <2>1, <2>2
<1>9. DebugPortKept'
  <2> SUFFICES ASSUME NEW m \in 13 .. 15
               PROVE  /\ Field(moder'["A"], 2, 2 * m) = {1}
                      /\ Field(pupdr'["A"], 2, 2 * m) = IF m = 14 THEN {1} ELSE {0}
    BY DEF DebugPortKept
  <2>1. /\ Field(moder["A"], 2, 2 * m) = {1}
        /\ Field(pupdr["A"], 2, 2 * m) = IF m = 14 THEN {1} ELSE {0}
    BY DEF IInv, DebugPortKept
  <2>2. "A" \in Ports /\ 2 * m \in Nat /\ ("A" # q \/ n + 2 <= 2 * m)
    BY <1>1, PinAssumption DEF Ports
  <2>3. /\ Field(moder'["A"], 2, 2 * m) = Field(moder["A"], 2, 2 * m)
        /\ Field(pupdr'["A"], 2, 2 * m) = Field(pupdr["A"], 2, 2 * m)
    BY <1>7, <2>2
  <2> QED
    BY <2>1, <2>3
<1> QED
  BY <1>6, <1>8, <1>9

LEMMA ConfigurePinIInv ==
    ASSUME IInv, ConfigurePin
    PROVE  IInv'
<1> USE DEF IInv, ConfigurePin
<1>1. TypeOK'
  BY FieldsStep DEF TypeOK, F!TypeOK, exti, pins, flags
<1>2. Control'
  BY DEF Control, Labels, Routing
<1>3. LinePort'
  BY DEF LinePort, Past, Routing, Control, exti
<1>4. LineBits'
  BY DEF LineBits, Past, Routing, Control, exti
<1>5. Alone' /\ HeardLate' /\ Shown'
  BY PinsKept DEF Past
<1> QED
  BY <1>1, <1>2, <1>3, <1>4, <1>5, FieldsStep

\* The line's field of its word of EXTICR, and no other line's.
LEMMA RouteStep ==
    ASSUME IInv, Route
    PROVE  LinePort' /\ exticr' \in [0 .. 3 -> SUBSET (0 .. 15)]
<1> DEFINE w == Pin[device] \div 4
           n == 4 * (Pin[device] % 4)
           selector == PortSelector[Port[device]]
<1>1. /\ device \in F!Lines /\ Port[device] \in Ports /\ Pin[device] \in 0 .. 15
      /\ device \notin done /\ pc = "route" /\ "SYSCFG" \in clocks
      /\ exticr \in [0 .. 3 -> SUBSET (0 .. 15)]
  BY PinAssumption DEF IInv, TypeOK, Control, Route, Devices
<1>2. w \in 0 .. 3 /\ n \in Nat /\ n + 4 <= 16 /\ Displacement(Pin[device]) = n
  BY <1>1 DEF Displacement
<1>3. selector \in SUBSET (0 .. 4 - 1)
  BY <1>1, Values
<1>4. /\ exticr' = [exticr EXCEPT ![w] = SetField(exticr[w], 4, n, selector)]
      /\ done' = done /\ device' = device
  BY <1>1, <1>2 DEF Route
<1>5. \A v \in 0 .. 3 : exticr'[v] = IF v = w THEN SetField(exticr[w], 4, n, selector)
                                              ELSE exticr[v]
  BY <1>1, <1>4
<1>6. exticr' \in [0 .. 3 -> SUBSET (0 .. 15)]
  <2>1. exticr[w] \in SUBSET (0 .. 16 - 1)
    BY <1>1, <1>2
  <2>2. SetField(exticr[w], 4, n, selector) \in SUBSET (0 .. 16 - 1)
    BY <1>2, <1>3, <2>1, FieldInWord
  <2> QED
    BY <1>1, <1>4, <2>2
<1>7. LinePort'
  <2> SUFFICES ASSUME NEW l \in F!Lines, Past(l, Routing)'
               PROVE  Field(exticr'[Pin[l] \div 4], 4, 4 * (Pin[l] % 4))
                        = PortSelector[Port[l]]
    BY DEF LinePort
  <2>1. CASE l = device
    <3>1. exticr'[Pin[l] \div 4] = SetField(exticr[w], 4, n, selector)
      BY <1>2, <1>5, <2>1
    <3> QED
      BY <1>2, <1>3, <2>1, <3>1, FieldSet
  <2>2. CASE l # device
    <3>1. l \in done
      BY <1>4, <2>2 DEF Past
    <3>2. Field(exticr[Pin[l] \div 4], 4, 4 * (Pin[l] % 4)) = PortSelector[Port[l]]
      BY <3>1 DEF IInv, LinePort, Past
    <3>3. Pin[l] \in 0 .. 15 /\ Pin[l] # Pin[device]
      BY <1>1, <2>2, PinAssumption DEF Devices
    <3>4. Pin[l] \div 4 \in 0 .. 3 /\ 4 * (Pin[l] % 4) \in Nat
      BY <3>3
    <3>5. CASE Pin[l] \div 4 # w
      BY <1>5, <3>2, <3>4, <3>5
    <3>6. CASE Pin[l] \div 4 = w
      <4>1. 4 * (Pin[l] % 4) + 4 <= n \/ n + 4 <= 4 * (Pin[l] % 4)
        BY <1>1, <3>3, <3>6
      <4>2. Field(SetField(exticr[w], 4, n, selector), 4, 4 * (Pin[l] % 4))
              = Field(exticr[w], 4, 4 * (Pin[l] % 4))
        BY <1>2, <1>3, <3>4, <4>1, FieldKept
      <4> QED
        BY <1>2, <1>5, <3>2, <3>6, <4>2
    <3> QED
      BY <3>5, <3>6
  <2> QED
    BY <2>1, <2>2
<1> QED
  BY <1>6, <1>7

LEMMA RouteIInv ==
    ASSUME IInv, Route
    PROVE  IInv'
<1> USE DEF IInv, Route
<1>1. TypeOK'
  BY RouteStep DEF TypeOK, F!TypeOK, gpio, pins, flags
<1>2. Control'
  BY DEF Control, Labels, Routing, gpio
<1>3. PinFields' /\ DebugPortKept'
  BY DEF PinFields, DebugPortKept, Past, gpio
<1>4. LineBits'
  BY DEF LineBits, Past, Routing, Control
<1>5. Alone' /\ HeardLate' /\ Shown'
  BY PinsKept DEF Past
<1> QED
  BY <1>1, <1>2, <1>3, <1>4, <1>5, RouteStep

\* The triggers, the mask and the vector only gain this line.
LEMMA SetRisingIInv ==
    ASSUME IInv, SetRising
    PROVE  IInv'
<1> USE DEF IInv, SetRising
<1>1. device \in F!Lines /\ device' = device
  BY DEF Control, Routing
<1>2. TypeOK'
  BY <1>1 DEF TypeOK, F!TypeOK, gpio, pins, flags
<1>3. Control'
  BY DEF Control, Labels, Routing, gpio
<1>4. PinFields' /\ DebugPortKept' /\ LinePort'
  BY DEF PinFields, DebugPortKept, LinePort, Past, Routing, gpio
<1>5. LineBits'
  BY <1>1 DEF LineBits, Past, Routing
<1>6. Alone' /\ HeardLate' /\ Shown'
  BY PinsKept DEF Past
<1> QED
  BY <1>2, <1>3, <1>4, <1>5, <1>6

LEMMA SetFallingIInv ==
    ASSUME IInv, SetFalling
    PROVE  IInv'
<1> USE DEF IInv, SetFalling
<1>1. device \in F!Lines /\ device' = device
  BY DEF Control, Routing
<1>2. TypeOK'
  BY <1>1 DEF TypeOK, F!TypeOK, gpio, pins, flags
<1>3. Control'
  BY DEF Control, Labels, Routing, gpio
<1>4. PinFields' /\ DebugPortKept' /\ LinePort'
  BY DEF PinFields, DebugPortKept, LinePort, Past, Routing, gpio
<1>5. LineBits'
  BY <1>1 DEF LineBits, Past, Routing
<1>6. Alone' /\ HeardLate' /\ Shown'
  BY PinsKept DEF Past
<1> QED
  BY <1>2, <1>3, <1>4, <1>5, <1>6

LEMMA UnmaskIInv ==
    ASSUME IInv, Unmask
    PROVE  IInv'
<1> USE DEF IInv, Unmask
<1>1. device \in F!Lines /\ device' = device
  BY DEF Control, Routing
<1>2. TypeOK'
  BY <1>1 DEF TypeOK, F!TypeOK, gpio, pins, flags
<1>3. Control'
  BY DEF Control, Labels, Routing, gpio
<1>4. PinFields' /\ DebugPortKept' /\ LinePort'
  BY DEF PinFields, DebugPortKept, LinePort, Past, Routing, gpio
<1>5. LineBits'
  BY <1>1 DEF LineBits, Past, Routing
<1>6. Alone' /\ HeardLate' /\ Shown'
  BY PinsKept DEF Past
<1> QED
  BY <1>2, <1>3, <1>4, <1>5, <1>6

LEMMA EnableVectorIInv ==
    ASSUME IInv, EnableVector
    PROVE  IInv'
<1> USE DEF IInv, EnableVector
<1>1. device \in F!Lines /\ device' = device
  BY DEF Control, Routing
<1>2. TypeOK'
  BY <1>1 DEF TypeOK, F!TypeOK, gpio, pins, flags
<1>3. Control'
  BY DEF Control, Labels, Routing, gpio
<1>4. PinFields' /\ DebugPortKept' /\ LinePort'
  BY DEF PinFields, DebugPortKept, LinePort, Past, Routing, gpio
<1>5. LineBits'
  BY <1>1 DEF LineBits, Past, Routing
<1>6. Alone' /\ HeardLate' /\ Shown'
  BY PinsKept DEF Past
<1> QED
  BY <1>2, <1>3, <1>4, <1>5, <1>6

\* A line that is heard is connected, and an edge of it sets it pending.
LEMMA EdgeIInv ==
    ASSUME IInv, NEW l \in F!Lines, Edge(l)
    PROVE  IInv'
<1> USE DEF IInv, Edge
<1>1. /\ pr \subseteq {Pin[l]} /\ pr' \subseteq {Pin[l]}
      /\ UNCHANGED <<pc, device, done, moder, pupdr, clocks>>
      /\ UNCHANGED <<exticr, rtsr, ftsr, imr, enabled>>
      /\ UNCHANGED <<flag_pressed, flag_released, sensor_status>>
      /\ heard' \subseteq F!Lines
  BY DEF gpio, exti, flags, TypeOK
<1>2. \A m \in F!Lines : Pin[m] = Pin[l] => m = l
  BY PinAssumption
<1>3. TypeOK'
  BY <1>1 DEF TypeOK, F!TypeOK
<1>4. Control'
  BY <1>1 DEF Control
<1>5. PinFields' /\ DebugPortKept' /\ LinePort'
  BY <1>1 DEF PinFields, DebugPortKept, LinePort, Past
<1>6. LineBits'
  BY <1>1 DEF LineBits, Past
<1>7. Alone'
  BY <1>1, <1>2 DEF Alone
<1>8. HeardLate'
  BY <1>1 DEF HeardLate, Past
<1>9. l \in heard' => Pin[l] \in pr'
  <2> SUFFICES ASSUME l \in heard' PROVE Pin[l] \in pr'
    OBVIOUS
  <2>1. Past(l, {"unmask", "enable"})
    BY <1>1, <1>8 DEF HeardLate, Past
  <2>2. Pin[l] \in rtsr \cap ftsr
    BY <2>1 DEF LineBits, Past, Routing
  <2>3. Field(exticr[Pin[l] \div 4], 4, 4 * (Pin[l] % 4)) = PortSelector[Port[l]]
    BY <2>1 DEF LinePort, Past, Routing
  <2>4. Routed(Pin[l]) = Port[l]
    BY <2>3, RoutedIs, PinAssumption DEF Devices
  <2> QED
    BY <2>2, <2>4 DEF Triggers
<1>10. \A m \in F!Lines : m # l => /\ m \in heard' <=> m \in heard
                                   /\ m \in high' <=> m \in high
                                   /\ Pin[m] \notin pr
  BY <1>1, <1>2
<1>11. Shown'
  <2>1. "button" \in F!Lines /\ "pir" \in F!Lines
    BY DEF F!Lines
  <2>2. CASE l = "button"
    BY <1>1, <1>9, <1>10, <2>1, <2>2 DEF Shown
  <2>3. CASE l = "pir"
    BY <1>1, <1>9, <1>10, <2>1, <2>3 DEF Shown
  <2> QED
    BY <2>2, <2>3 DEF F!Lines
<1> QED
  BY <1>3, <1>4, <1>5, <1>6, <1>7, <1>8, <1>11

\* The handler shows the level of the line it serves, the only one pending.
LEMMA HandlerIInv ==
    ASSUME IInv, EXTI15_10_IRQHandler
    PROVE  IInv'
<1> USE DEF IInv, EXTI15_10_IRQHandler
<1>1. /\ pr' = {} /\ UNCHANGED <<pc, device, done, moder, pupdr, clocks, high, heard>>
      /\ UNCHANGED <<exticr, rtsr, ftsr, imr, enabled>>
  BY DEF gpio, exti
<1>2. "button" \in F!Lines /\ "pir" \in F!Lines /\ "button" # "pir"
  BY DEF F!Lines
<1>3. Control' /\ PinFields' /\ DebugPortKept' /\ LinePort'
  BY <1>1 DEF Control, PinFields, DebugPortKept, LinePort, Past
<1>4. LineBits'
  BY <1>1 DEF LineBits, Past
<1>5. Alone' /\ HeardLate'
  BY <1>1 DEF Alone, HeardLate, Past
<1>6. F!TypeOK' /\ Shown'
  <2>1. CASE Pin["button"] \in pr /\ F!ButtonBranch("button" \notin high)
    <3>1. /\ flag_pressed' = ("button" \notin high)
          /\ flag_released' = (~("button" \notin high) /\ (flag_released \/ flag_pressed))
          /\ sensor_status' = sensor_status
      BY <2>1 DEF F!ButtonBranch
    <3>2. Pin["pir"] \notin pr
      BY <1>2, <2>1 DEF Alone
    <3>3. F!TypeOK'
      BY <3>1, Zenon DEF TypeOK, F!TypeOK
    <3>4. "pir" \in heard' => (sensor_status' <=> "pir" \in high')
      BY <1>1, <3>1, <3>2 DEF Shown
    <3>5. "button" \in heard' => (flag_pressed' <=> "button" \notin high')
      BY <1>1, <3>1
    <3> QED
      BY <3>3, <3>4, <3>5 DEF Shown
  <2>2. CASE Pin["pir"] \in pr /\ F!PirBranch("pir" \in high)
    <3>1. /\ sensor_status' \in BOOLEAN
          /\ sensor_status' <=> "pir" \in high
          /\ UNCHANGED <<flag_pressed, flag_released>>
      BY <2>2 DEF F!PirBranch, F!port_pir_sensor_set_status
    <3>2. Pin["button"] \notin pr
      BY <1>2, <2>2 DEF Alone
    <3>3. F!TypeOK'
      BY <3>1 DEF TypeOK, F!TypeOK
    <3>4. "button" \in heard' => (flag_pressed' <=> "button" \notin high')
      BY <1>1, <3>1, <3>2 DEF Shown
    <3>5. "pir" \in heard' => (sensor_status' <=> "pir" \in high')
      BY <1>1, <3>1
    <3> QED
      BY <3>3, <3>4, <3>5 DEF Shown
  <2> QED
    BY <2>1, <2>2
<1>7. TypeOK'
  BY <1>1, <1>6 DEF TypeOK
<1> QED
  BY <1>3, <1>4, <1>5, <1>6, <1>7

LEMMA StutterIInv ==
    ASSUME IInv, UNCHANGED vars
    PROVE  IInv'
<1> USE DEF IInv, vars, gpio, exti, pins, flags
<1>1. TypeOK' /\ Control'
  BY DEF TypeOK, F!TypeOK, Control
<1>2. PinFields' /\ LinePort' /\ LineBits' /\ DebugPortKept'
  BY DEF PinFields, LinePort, LineBits, DebugPortKept, Past
<1>3. Alone' /\ HeardLate' /\ Shown'
  BY DEF Alone, HeardLate, Shown, Past
<1> QED
  BY <1>1, <1>2, <1>3

\* The invariant holds throughout.
THEOREM Invariance == Spec => []IInv
<1>1. IInv /\ [Next]_vars => IInv'
  BY SystemInitIInv, CallIInv, EnableClockIInv, ConfigurePinIInv, EnableSyscfgIInv,
     RouteIInv, SetRisingIInv, SetFallingIInv, UnmaskIInv, EnableVectorIInv,
     HandlerIInv, EdgeIInv, StutterIInv DEF Next, Startup
<1> QED
  BY InitIInv, <1>1, PTL DEF Spec

-----------------------------------------------------------------------------

\* Every register holds bits that exist, and every shared word of EXTICR sixteen
\* at most, wherever the devices are connected (port_system.c:158-236).
THEOREM TypeCorrect == Spec => []TypeOK
<1>1. IInv => TypeOK
  BY DEF IInv
<1> QED
  BY <1>1, Invariance, PTL

\* Once a device's _init has returned its pin is as it asked for, and stays so,
\* in whatever order the devices are initialised (port_system.c:173-178, 204-242).
THEOREM PinsConfigured == Spec => []Configured
<1>1. IInv => Configured
  <2> SUFFICES ASSUME IInv, NEW d \in done
               PROVE  /\ Field(moder[Port[d]], 2, 2 * Pin[d]) = Mode(d)
                      /\ Field(pupdr[Port[d]], 2, 2 * Pin[d]) = Pull
                      /\ d \in F!Lines => /\ Routed(Pin[d]) = Port[d]
                                          /\ Pin[d] \in rtsr \cap ftsr \cap imr
                                          /\ enabled
    BY DEF Configured
  <2>1. d \in Devices
    BY DEF IInv, TypeOK
  <2>2. /\ Field(moder[Port[d]], 2, 2 * Pin[d]) = Mode(d)
        /\ Field(pupdr[Port[d]], 2, 2 * Pin[d]) = Pull
    BY <2>1 DEF IInv, PinFields, Past
  <2>3. d \in F!Lines => Pin[d] \in rtsr \cap ftsr \cap imr /\ enabled
    BY DEF IInv, LineBits, Past
  <2>4. ASSUME d \in F!Lines
        PROVE  Routed(Pin[d]) = Port[d]
    <3>1. Field(exticr[Pin[d] \div 4], 4, 4 * (Pin[d] % 4)) = PortSelector[Port[d]]
      BY <2>4 DEF IInv, LinePort, Past
    <3> QED
      BY <2>1, <3>1, RoutedIs, PinAssumption
  <2> QED
    BY <2>2, <2>3, <2>4
<1> QED
  BY <1>1, Invariance, PTL

\* No configuration of a pin of port A touches the debug port's fields, as long
\* as no device is connected to PA13, PA14 or PA15 (port_system.c:173-178).
THEOREM DebugPortUntouched == Spec => []DebugPortKept
<1>1. IInv => DebugPortKept
  BY DEF IInv
<1> QED
  BY <1>1, Invariance, PTL

\* An edge that comes after a line's two triggers are set is never lost to the
\* rest of start-up (port_system.c:207-242).
THEOREM EarlyEdgesHeard == Spec => []EarlyEdgesSeen
<1>1. IInv => EarlyEdgesSeen
  BY DEF IInv, Shown, EarlyEdgesSeen
<1> QED
  BY <1>1, Invariance, PTL
=============================================================================
