------------------------ MODULE TimerPrescalerProofs ------------------------
(***************************************************************************)
(* The prescaler and the auto-reload value are right, and the prescaler is *)
(* the smallest there is, for registers of any width and any clock.        *)
(***************************************************************************)
EXTENDS TimerPrescaler, TLAPS

-----------------------------------------------------------------------------
(* The inductive invariant.                                                *)

\* With the prescaler p and the auto-reload value a, which fit the registers, the
\* timer is right to half a tick, and with no smaller prescaler it would be.
Fit(p, a) == /\ p \in 0 .. Range - 1
             /\ a \in 0 .. Range - 1
             /\ 2 * ((p + 1) * (a + 1)) <= 2 * cycles + (p + 1)
             /\ 2 * cycles <= 2 * ((p + 1) * (a + 1)) + (p + 1)
             /\ \A q \in 1 .. p : 2 * cycles >= q * (2 * Range + 1)

Rounded == /\ pc \in {"arr", "adjust"} => psc + 1 \in Nearest(cycles, Range)
           /\ pc = "adjust" => arr \in Quotient

Computed == /\ pc = "load" /\ Representable => Fit(psc, arr)
            /\ pc = "loaded" /\ Representable => Fit(PSC, ARR)

Types == /\ width \in {Range, Values32}
         /\ cycles \in Nat
         /\ psc \in Int /\ arr \in Int
         /\ PSC \in 0 .. Range - 1
         /\ ARR \in 0 .. width - 1

IInv == Types /\ Rounded /\ Computed

-----------------------------------------------------------------------------
(* Arithmetic.                                                             *)

LEMMA NearestIs ==
    ASSUME NEW n \in Nat, NEW d \in Nat \ {0}, NEW x \in Nearest(n, d)
    PROVE  /\ x \in Nat
           /\ 2 * n <= 2 * (d * x) + d
           /\ 2 * (d * x) <= 2 * n + d
<1>1. x \in Int
  BY DEF Nearest
<1>2. 2 * n - d <= 2 * d * x /\ 2 * d * x <= 2 * n + d
  BY DEF Nearest
<1>3. d * x \in Int /\ 2 * d * x = 2 * (d * x)
  BY <1>1
<1>4. ASSUME x < 0 PROVE FALSE
  <2>1. d * x <= -d
    BY <1>1, <1>4
  <2> QED
    BY <1>2, <1>3, <2>1
<1> QED
  BY <1>1, <1>2, <1>3, <1>4

\* The first prescaler, p - 1, is kept: arr fits.
LEMMA KeptFits ==
    ASSUME Representable, cycles \in Nat, NEW p \in Nat \ {0}, NEW y \in Nat, y <= Range,
           2 * (Range * p) <= 2 * cycles + Range,
           2 * cycles <= 2 * (Range * p) + Range,
           2 * (p * y) <= 2 * cycles + p,
           2 * cycles <= 2 * (p * y) + p
    PROVE  Fit(p - 1, y - 1)
<1> USE PrescalerAssumption
<1>1. p <= Range
  <2> SUFFICES ASSUME p >= Range + 1 PROVE FALSE
    OBVIOUS
  <2>1. Range * p >= Range * Range + Range
    OBVIOUS
  <2> QED
    BY <2>1 DEF Representable
<1>2. y >= 1
  <2> SUFFICES ASSUME y = 0 PROVE FALSE
    OBVIOUS
  <2>1. 2 * cycles <= p
    OBVIOUS
  <2>2. Range * p >= p /\ Range * p >= Range
    OBVIOUS
  <2> QED
    BY <2>1, <2>2 DEF Representable
<1>3. ASSUME NEW q \in 1 .. p - 1 PROVE 2 * cycles >= q * (2 * Range + 1)
  <2>1. q * (2 * Range + 1) <= (p - 1) * (2 * Range + 1)
    OBVIOUS
  <2>2. (p - 1) * (2 * Range + 1) = 2 * (Range * p) + p - 2 * Range - 1
    OBVIOUS
  <2> QED
    BY <1>1, <2>1, <2>2
<1> QED
  BY <1>1, <1>2, <1>3 DEF Fit

\* The first prescaler is too small: arr does not fit, and the next one's does.
LEMMA NextFits ==
    ASSUME Representable, cycles \in Nat, NEW p \in Nat \ {0}, NEW y \in Nat, y > Range,
           2 * (Range * p) <= 2 * cycles + Range,
           2 * cycles <= 2 * (Range * p) + Range,
           2 * (p * y) <= 2 * cycles + p,
           NEW z \in Nat,
           2 * ((p + 1) * z) <= 2 * cycles + (p + 1),
           2 * cycles <= 2 * ((p + 1) * z) + (p + 1)
    PROVE  Fit(p, z - 1)
<1> USE PrescalerAssumption
<1>1. 2 * cycles >= p * (2 * Range + 1)
  <2>1. p * y >= p * Range + p
    OBVIOUS
  <2>2. p * (2 * Range + 1) = 2 * (p * Range) + p
    OBVIOUS
  <2> QED
    BY <2>1, <2>2
<1>2. p <= Range - 1
  <2> SUFFICES ASSUME p >= Range PROVE FALSE
    OBVIOUS
  <2>1. p * (2 * Range + 1) >= Range * (2 * Range + 1)
    OBVIOUS
  <2>2. Range * (2 * Range + 1) = 2 * Range * Range + Range
    OBVIOUS
  <2> QED
    BY <1>1, <2>1, <2>2 DEF Representable
<1>3. z <= Range
  <2> SUFFICES ASSUME z >= Range + 1 PROVE FALSE
    OBVIOUS
  <2>1. (p + 1) * z >= Range * p + p + Range + 1
    OBVIOUS
  <2> QED
    BY <2>1
<1>4. z >= 1
  <2> SUFFICES ASSUME z = 0 PROVE FALSE
    OBVIOUS
  <2>1. 2 * cycles <= p + 1
    OBVIOUS
  <2>2. p * (2 * Range + 1) >= 3 * p
    OBVIOUS
  <2> QED
    BY <1>1, <2>1, <2>2
<1>5. ASSUME NEW q \in 1 .. p PROVE 2 * cycles >= q * (2 * Range + 1)
  <2>1. q * (2 * Range + 1) <= p * (2 * Range + 1)
    OBVIOUS
  <2> QED
    BY <1>1, <2>1
<1> QED
  BY <1>2, <1>3, <1>4, <1>5 DEF Fit

\* No prescaler at all: the cycles are counted one by one.
LEMMA UndividedFits ==
    ASSUME Representable, cycles \in Nat, 2 * cycles <= Range,
           NEW z \in Nat, 2 * z <= 2 * cycles + 1, 2 * cycles <= 2 * z + 1
    PROVE  Fit(0, z - 1)
<1>1. z = cycles
  OBVIOUS
<1>2. z - 1 \in 0 .. Range - 1
  BY <1>1, PrescalerAssumption DEF Representable
<1> QED
  BY <1>1, <1>2, PrescalerAssumption DEF Fit

-----------------------------------------------------------------------------
(* Invariance.                                                             *)

\* An ARR of 32 bits holds what one of 16 bits holds.
LEMMA WiderRegister == Values32 \in Nat /\ Range <= Values32
<1>1. Range * Range \in Nat /\ Range <= Range * Range
  BY PrescalerAssumption
<1> QED
  BY <1>1 DEF Values32

LEMMA InitIInv == Init => IInv
BY WiderRegister, PrescalerAssumption DEF Init, IInv, Types, Rounded, Computed

LEMMA CastTypes ==
    ASSUME NEW x \in Int, NEW values \in {Range, Values32}
    PROVE  Cast(x, values) \subseteq 0 .. values - 1
<1>1. values \in Nat \ {0}
  BY WiderRegister, PrescalerAssumption
<1>2. \A y \in 0 .. Values32 - 1 : y % values \in 0 .. values - 1
  BY <1>1, WiderRegister
<1> QED
  BY <1>2 DEF Cast

LEMMA CastFits ==
    ASSUME NEW x \in 0 .. Range - 1, NEW values \in {Range, Values32}
    PROVE  Cast(x, values) = {x}
<1>1. x \in 0 .. Values32 - 1 /\ values \in Nat /\ x < values
  BY WiderRegister, PrescalerAssumption
<1>2. x % values = x
  BY <1>1
<1> QED
  BY <1>1, <1>2 DEF Cast

LEMMA RoundLessOneIs ==
    \A n, d, x : x \in RoundLessOne(n, d) <=> \E y \in Nearest(n, d) : x = y - 1
BY DEF RoundLessOne

LEMMA NextTypes == IInv /\ [Next]_vars => Types'
<1> SUFFICES ASSUME IInv, [Next]_vars PROVE Types'
  OBVIOUS
<1> USE DEF IInv, Types, registers
<1>1. ASSUME NEW ms \in Times, Ask(ms)
      PROVE  Types'
  BY <1>1, PrescalerAssumption DEF Ask
<1>2. CASE ComputePsc
  <2>1. psc' \in Int
    <3>1. psc' \in RoundLessOne(cycles, Range)
      BY <1>2 DEF ComputePsc
    <3>2. PICK x \in Nearest(cycles, Range) : psc' = x - 1
      BY <3>1, RoundLessOneIs
    <3> QED
      BY <3>2, NearestIs, PrescalerAssumption
  <2> QED
    BY <1>2, <2>1 DEF ComputePsc
<1>3. CASE ComputeArr
  <2>1. arr' \in Int
    <3>1. psc + 1 \in Nat
      BY <1>3, NearestIs, PrescalerAssumption DEF ComputeArr, Rounded
    <3>2. CASE psc + 1 = 0
      BY <1>3, <3>2, PrescalerAssumption DEF ComputeArr, Quotient, Infinity, NaN
    <3>3. CASE psc + 1 # 0
      <4>1. arr' \in RoundLessOne(cycles, psc + 1)
        BY <1>3, <3>3 DEF ComputeArr, Quotient
      <4>2. PICK x \in Nearest(cycles, psc + 1) : arr' = x - 1
        BY <4>1, RoundLessOneIs
      <4> QED
        BY <3>1, <3>3, <4>2, NearestIs
    <3> QED
      BY <3>2, <3>3
  <2> QED
    BY <1>3, <2>1 DEF ComputeArr
<1>4. CASE Adjust
  <2>1. CASE arr > Range - 1
    <3>1. arr' \in RoundLessOne(cycles, psc + 2)
      BY <1>4, <2>1, PrescalerAssumption DEF Adjust
    <3>2. PICK x \in Nearest(cycles, psc + 2) : arr' = x - 1
      BY <3>1, RoundLessOneIs
    <3>3. psc + 1 \in Nat
      BY <1>4, NearestIs, PrescalerAssumption DEF Adjust, Rounded
    <3>4. arr' \in Int
      BY <3>2, <3>3, NearestIs
    <3> QED
      BY <1>4, <2>1, <3>4, PrescalerAssumption DEF Adjust
  <2>2. CASE arr <= Range - 1
    BY <1>4, <2>2, PrescalerAssumption DEF Adjust
  <2> QED
    BY <2>1, <2>2, PrescalerAssumption
<1>5. CASE Load
  BY <1>5, CastTypes DEF Load
<1>6. CASE UNCHANGED vars
  BY <1>6 DEF vars
<1> QED
  BY <1>1, <1>2, <1>3, <1>4, <1>5, <1>6 DEF Next

LEMMA NextRounded == IInv /\ [Next]_vars => Rounded'
<1> SUFFICES ASSUME IInv, [Next]_vars PROVE Rounded'
  OBVIOUS
<1> USE DEF IInv, Types, Rounded, registers
<1>1. CASE ComputePsc
  <2>1. PICK x \in Nearest(cycles, Range) : psc' = x - 1
    BY <1>1, RoundLessOneIs DEF ComputePsc
  <2>2. psc' + 1 = x
    BY <2>1, NearestIs, PrescalerAssumption
  <2> QED
    BY <1>1, <2>2 DEF ComputePsc
<1>2. CASE ComputeArr
  BY <1>2 DEF ComputeArr, Quotient
<1>3. CASE (\E ms \in Times : Ask(ms)) \/ Adjust \/ Load
  BY <1>3 DEF Ask, Adjust, Load
<1>4. CASE UNCHANGED vars
  BY <1>4 DEF vars, Quotient
<1> QED
  BY <1>1, <1>2, <1>3, <1>4 DEF Next

\* What the second half of the computation makes of the first.
LEMMA AdjustFits == ASSUME IInv, Adjust, Representable PROVE Fit(psc, arr)'
<1> USE PrescalerAssumption DEF IInv, Types
<1> DEFINE p == psc + 1
<1>1. /\ p \in Nat
      /\ 2 * cycles <= 2 * (Range * p) + Range
      /\ 2 * (Range * p) <= 2 * cycles + Range
  BY NearestIs DEF Adjust, Rounded
<1>2. SUFFICES Fit(psc', arr')
  BY DEF Adjust, Fit
<1>3. CASE p = 0
  <2>1. arr > Range - 1
    BY <1>3 DEF Adjust, Rounded, Quotient, Infinity, Representable
  <2>2. psc' = 0 /\ arr' \in RoundLessOne(cycles, 1)
    BY <1>3, <2>1 DEF Adjust
  <2>3. PICK z \in Nearest(cycles, 1) : arr' = z - 1
    BY <2>2, RoundLessOneIs
  <2>4. z \in Nat /\ 2 * cycles <= 2 * z + 1 /\ 2 * z <= 2 * cycles + 1
    BY <2>3, NearestIs
  <2> QED
    BY <1>1, <1>3, <2>2, <2>3, <2>4, UndividedFits
<1>4. CASE p # 0
  <2>1. arr \in RoundLessOne(cycles, p)
    BY <1>4 DEF Adjust, Rounded, Quotient
  <2>2. PICK y \in Nearest(cycles, p) : arr = y - 1
    BY <2>1, RoundLessOneIs
  <2>3. y \in Nat /\ 2 * cycles <= 2 * (p * y) + p /\ 2 * (p * y) <= 2 * cycles + p
    BY <1>1, <1>4, <2>2, NearestIs
  <2>4. CASE arr <= Range - 1
    <3>1. psc' = p - 1 /\ arr' = y - 1 /\ y <= Range
      BY <2>2, <2>3, <2>4 DEF Adjust
    <3> QED
      BY <1>1, <1>4, <2>3, <3>1, KeptFits
  <2>5. CASE arr > Range - 1
    <3>1. psc' = p /\ arr' \in RoundLessOne(cycles, p + 1) /\ y > Range
      BY <2>2, <2>3, <2>5 DEF Adjust
    <3>2. PICK z \in Nearest(cycles, p + 1) : arr' = z - 1
      BY <3>1, RoundLessOneIs
    <3>3. /\ z \in Nat
          /\ 2 * cycles <= 2 * ((p + 1) * z) + (p + 1)
          /\ 2 * ((p + 1) * z) <= 2 * cycles + (p + 1)
      BY <1>1, <3>2, NearestIs
    <3> QED
      BY <1>1, <1>4, <2>3, <3>1, <3>2, <3>3, NextFits
  <2> QED
    BY <2>4, <2>5
<1> QED
  BY <1>1, <1>3, <1>4

LEMMA NextComputed == IInv /\ [Next]_vars => Computed'
<1> SUFFICES ASSUME IInv, [Next]_vars PROVE Computed'
  OBVIOUS
<1> USE DEF IInv, Computed, registers
<1>1. CASE (\E ms \in Times : Ask(ms)) \/ ComputePsc \/ ComputeArr
  BY <1>1 DEF Ask, ComputePsc, ComputeArr
<1>2. CASE Adjust
  <2>1. Representable' = Representable
    BY <1>2 DEF Adjust, Representable
  <2> QED
    BY <1>2, <2>1, AdjustFits DEF Adjust
<1>3. CASE Load
  <2> SUFFICES ASSUME Representable' PROVE Fit(PSC, ARR)'
    BY <1>3 DEF Load
  <2>1. Fit(psc, arr)
    BY <1>3 DEF Load, Representable
  <2>2. Cast(psc, Range) = {psc} /\ Cast(arr, width) = {arr}
    BY <2>1, CastFits DEF Fit, Types
  <2>3. PSC' = psc /\ ARR' = arr
    BY <1>3, <2>2 DEF Load
  <2> QED
    BY <1>3, <2>1, <2>3 DEF Load, Fit
<1>4. CASE UNCHANGED vars
  BY <1>4 DEF vars, Representable, Fit
<1> QED
  BY <1>1, <1>2, <1>3, <1>4 DEF Next

LEMMA Invariance == Spec => []IInv
<1>1. IInv /\ [Next]_vars => IInv'
  BY NextTypes, NextRounded, NextComputed DEF IInv
<1> QED
  BY InitIInv, <1>1, PTL DEF Spec

-----------------------------------------------------------------------------
(* Theorems.                                                               *)

\* Every time the registers can hold is right to half a tick.
THEOREM TimesAccurate == Spec => []Accurate
<1>1. ASSUME IInv PROVE Accurate
  <2> SUFFICES ASSUME pc = "loaded", Representable
               PROVE  /\ 2 * ((PSC + 1) * (ARR + 1) - cycles) <= PSC + 1
                      /\ 2 * (cycles - (PSC + 1) * (ARR + 1)) <= PSC + 1
    BY DEF Accurate
  <2>1. Fit(PSC, ARR)
    BY <1>1 DEF IInv, Computed
  <2>2. (PSC + 1) * (ARR + 1) \in Int /\ cycles \in Int /\ PSC \in Int
    BY <1>1 DEF IInv, Types
  <2> QED
    BY <2>1, <2>2 DEF Fit
<1> QED
  BY <1>1, Invariance, PTL

\* ... and the tick is the smallest that reaches it.
THEOREM TimesFinest == Spec => []Finest
<1>1. IInv => Finest
  BY DEF IInv, Computed, Fit, Finest
<1> QED
  BY <1>1, Invariance, PTL
=============================================================================
