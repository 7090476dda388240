--------------------------- MODULE WcfxsFxoProofs ---------------------------
(***************************************************************************)
(* Safety of one FXO port for every value of the debounce constants.       *)
(***************************************************************************)
EXTENDS WcfxsFxo, TLAPS

\* The battery counter goes down in whole steps, so that it meets zero.
WholeSteps == \E k \in Nat : battdebounce = k * BattStep

\* The counter has gone down by no more than the readings on the other side of
\* the threshold account for.
Accounted ==
  /\ seen = "none" => ~battery /\ battdebounce = 0
  /\ battery /\ seen = "weak" => battdebounce + steady + BattStep >= BATT_DEBOUNCE
  /\ battery /\ seen \in {"strong", "edge"} => battdebounce + BattStep >= BATT_DEBOUNCE
  /\ ~battery /\ seen = "strong" => battdebounce + steady + BattStep >= BATT_DEBOUNCE
  /\ ~battery /\ seen \in {"weak", "edge"} => battdebounce + BattStep >= BATT_DEBOUNCE

IInv == TypeOK /\ SignalAgrees /\ PolarityTaken /\ WholeSteps /\ Accounted

\* Counting down a whole number of steps stays at or above zero.
LEMMA CountDownSteps ==
  ASSUME NEW n \in Nat, NEW k \in Nat, n = k * BattStep
  PROVE  /\ CountDown(n) \in 0 .. n
         /\ \E j \in Nat : CountDown(n) = j * BattStep
  <1>1. BattStep \in Nat \ {0}
    BY FxoAssumption
  <1>2. CASE k = 0
    BY <1>1, <1>2 DEF CountDown
  <1>3. CASE k # 0
    <2>1. k - 1 \in Nat
      BY <1>3
    <2>2. (k - 1) * BattStep = n - BattStep
      BY <1>1
    <2>3. (k - 1) * BattStep \in Nat
      BY <1>1, <2>1
    <2>4. CountDown(n) = n - BattStep
      BY <1>1, <2>2, <2>3 DEF CountDown
    <2>5. CountDown(n) \in 0 .. n
      BY <1>1, <2>2, <2>3, <2>4
    <2>6. CountDown(n) = (k - 1) * BattStep
      BY <2>2, <2>4
    <2> QED
      BY <2>1, <2>5, <2>6
  <1> QED
    BY <1>2, <1>3

\* The readings fall into three classes.
LEMMA Classes ==
  ASSUME NEW v \in Volts
  PROVE  /\ Class(v) \in {"weak", "edge", "strong"}
         /\ Class(v) = "weak" <=> Weak(v)
         /\ Class(v) = "strong" <=> Strong(v)
         /\ ~(Weak(v) /\ Strong(v))
         /\ Sign(v) \in {-1, 1}
  BY FxoAssumption DEF Class, Weak, Strong, Abs, Sign

LEMMA InitIInv == Init => IInv
  <1> SUFFICES ASSUME Init PROVE IInv
    OBVIOUS
  <1>1. TypeOK
    <2>1. /\ ringdebounce \in 0 .. RingFull /\ battdebounce \in 0 .. BATT_DEBOUNCE
          /\ polaritydebounce \in 0 .. POLARITY_DEBOUNCE
          /\ steady \in 0 .. (BATT_DEBOUNCE + BattStep)
          /\ lastpol \in {-1, 0, 1} /\ polarity \in {-1, 0, 1} /\ reg5 \in {8, 9}
      BY FxoAssumption DEF Init
    <2>2. /\ ringing \in BOOLEAN /\ volt \in Volts /\ offhook \in BOOLEAN
          /\ wasringing \in BOOLEAN /\ battery \in BOOLEAN
          /\ led \in {"red", "green"} /\ events \in {"none", "polarity"}
          /\ rxsig \in {"none", "RING", "OFFHOOK", "ONHOOK"}
          /\ seen \in {"none", "weak", "edge", "strong"}
      BY Zenon DEF Init
    <2> QED
      BY <2>1, <2>2 DEF TypeOK
  <1>2. WholeSteps
    <2>1. 0 = 0 * BattStep
      BY FxoAssumption
    <2> QED
      BY <2>1 DEF Init, WholeSteps
  <1> QED
    BY <1>1, <1>2 DEF Init, IInv, SignalAgrees, PolarityTaken, Accounted

\* A poll keeps the invariant.
LEMMA PollIInv == IInv /\ wcfxs_voicedaa_check_hook => IInv'
  <1> SUFFICES ASSUME IInv, wcfxs_voicedaa_check_hook PROVE IInv'
    OBVIOUS
  <1> USE DEF IInv, wcfxs_voicedaa_check_hook
  <1>0. /\ volt \in Volts
        /\ BATT_DEBOUNCE \in Nat \ {0} /\ BattStep \in Nat \ {0}
        /\ POLARITY_DEBOUNCE \in Nat \ {0}
        /\ RingUp \in Nat \ {0} /\ RingDown \in Nat \ {0} /\ RingFull \in Nat \ {0}
    BY FxoAssumption DEF TypeOK
  <1>c. /\ Class(volt) \in {"weak", "edge", "strong"}
        /\ Class(volt) = "weak" <=> Weak(volt)
        /\ Class(volt) = "strong" <=> Strong(volt)
        /\ ~(Weak(volt) /\ Strong(volt))
        /\ Sign(volt) \in {-1, 1}
    BY <1>0, Classes
  <1> DEFINE loaded == IF Reload THEN BATT_DEBOUNCE ELSE battdebounce
  <1>1. /\ loaded \in Nat /\ loaded <= BATT_DEBOUNCE
        /\ \E k \in Nat : loaded = k * BattStep
    <2>1. \E k \in Nat : BATT_DEBOUNCE = k * BattStep
      BY <1>0, FxoAssumption
    <2>2. battdebounce \in Nat /\ battdebounce <= BATT_DEBOUNCE
      BY <1>0 DEF TypeOK
    <2>3. \E k \in Nat : battdebounce = k * BattStep
      BY DEF WholeSteps
    <2>4. CASE Reload
      BY <1>0, <2>1, <2>4
    <2>5. CASE ~Reload
      BY <2>2, <2>3, <2>5
    <2> QED
      BY <2>4, <2>5
  <1>2. /\ battdebounce' \in 0 .. loaded
        /\ \E j \in Nat : battdebounce' = j * BattStep
    BY <1>1, CountDownSteps DEF CheckBattery
  <1>3. /\ ringdebounce' \in 0 .. RingFull
        /\ led' \in {"red", "green"}
    BY <1>0 DEF CheckRing, RingCount, TypeOK
  <1>4. wasringing' \in BOOLEAN /\ battery' \in BOOLEAN
    BY DEF CheckRing, CheckBattery
  <1>5. /\ lastpol' \in {-1, 0, 1} /\ polarity' \in {-1, 0, 1}
        /\ polaritydebounce' \in 0 .. POLARITY_DEBOUNCE
        /\ events' \in {"none", "polarity"}
    BY <1>0, <1>c DEF CheckPolarity, TypeOK
  <1>6. rxsig' \in {"none", "RING", "OFFHOOK", "ONHOOK"}
    BY DEF Report, RingSignal, TypeOK
  <1>7. /\ seen' \in {"none", "weak", "edge", "strong"}
        /\ steady' \in 0 .. (BATT_DEBOUNCE + BattStep)
    BY <1>0, <1>c DEF TypeOK
  <1>8. TypeOK'
    BY <1>0, <1>1, <1>2, <1>3, <1>4, <1>5, <1>6, <1>7 DEF TypeOK, line, hook
  <1>9. SignalAgrees'
    BY <1>c, Zenon DEF SignalAgrees, Report, RingSignal, CheckRing, CheckBattery, BatteryLost,
                BatteryBack, RingStarts, RingStops, TypeOK
  <1>10. PolarityTaken'
    BY <1>0, <1>c DEF PolarityTaken, CheckPolarity, PolarityTurns, TypeOK
  <1>11. WholeSteps'
    BY <1>2 DEF WholeSteps
  <1>12. Accounted'
    <2>0. /\ battdebounce \in Nat /\ steady \in Nat /\ battdebounce' \in Nat
          /\ seen' = Class(volt)
          /\ battdebounce' = CountDown(loaded)
          /\ battdebounce' + BattStep >= loaded
      BY <1>0, <1>1, <1>2 DEF TypeOK, CheckBattery, CountDown
    <2>1. CASE Reload
      <3>1. battdebounce' + BattStep >= BATT_DEBOUNCE
        BY <2>0, <2>1
      <3>2. steady' \in Nat
        BY <1>0, <1>7
      <3> HIDE DEF loaded
      <3> QED
        BY <1>0, <1>c, <2>0, <3>1, <3>2 DEF Accounted
    <2>2. CASE ~Reload
      <3>1. /\ battery' = battery
            /\ \/ battery /\ seen' = "weak"
               \/ ~battery /\ seen' = "strong"
        BY <1>c, <2>0, <2>2 DEF Reload, CheckBattery, TypeOK
      <3>2. battdebounce' + BattStep >= battdebounce
        BY <2>0, <2>2
      <3>3. steady' + battdebounce' + BattStep >= BATT_DEBOUNCE
        <4>1. CASE seen = seen'
          <5>1. battdebounce + steady + BattStep >= BATT_DEBOUNCE
            BY <3>1, <4>1 DEF Accounted
          <5>2. \/ steady' = steady /\ steady >= BATT_DEBOUNCE
                \/ steady' = steady + BattStep
            BY <1>0, <2>0, <4>1
          <5> QED
            BY <1>0, <1>7, <2>0, <3>2, <5>1, <5>2
        <4>2. CASE seen # seen' /\ seen # "none"
          <5>1. battdebounce + BattStep >= BATT_DEBOUNCE
            BY <3>1, <4>2 DEF Accounted, TypeOK
          <5>2. steady' = BattStep
            BY <2>0, <4>2
          <5> QED
            BY <1>0, <2>0, <3>2, <5>1, <5>2
        <4>3. seen # "none"
          BY <1>c, <2>2 DEF Accounted, Reload, BatteryBack
        <4> QED
          BY <4>1, <4>2, <4>3, Zenon
      <3> QED
        BY <1>0, <2>0, <3>1, <3>3, <1>7 DEF Accounted
    <2> QED
      BY <2>1, <2>2, Zenon
  <1> QED
    BY <1>8, <1>9, <1>10, <1>11, <1>12

LEMMA StepIInv == IInv /\ [Next]_vars => IInv'
  <1> SUFFICES ASSUME IInv, [Next]_vars PROVE IInv'
    OBVIOUS
  <1>1. CASE wcfxs_voicedaa_check_hook
    BY <1>1, PollIInv, Zenon
  <1>2. ASSUME NEW txsig \in {"START", "OFFHOOK", "ONHOOK"}, wcfxs_hooksig(txsig)
        PROVE  IInv'
    BY <1>2 DEF IInv, wcfxs_hooksig, TypeOK, SignalAgrees, PolarityTaken, WholeSteps,
                Accounted, line, ring, batt, pol
  <1>3. CASE LineChanges
    BY <1>3 DEF IInv, LineChanges, TypeOK, SignalAgrees, PolarityTaken, WholeSteps,
                Accounted, hook, ring, batt, pol
  <1>4. CASE UNCHANGED vars
    BY <1>4 DEF IInv, vars, TypeOK, SignalAgrees, PolarityTaken, WholeSteps,
                Accounted, line, hook, ring, batt, pol
  <1> QED
    BY <1>1, <1>2, <1>3, <1>4 DEF Next

\* The strengthened invariant holds in every reachable state.
THEOREM Inductive == Spec => []IInv
  BY InitIInv, StepIInv, PTL DEF Spec

\* The counters of the port stay in their ranges; the battery counter never jumps
\* over zero, because BATT_DEBOUNCE is a multiple of its step.
THEOREM TypeCorrect == Spec => []TypeOK
  <1>1. IInv => TypeOK
    BY DEF IInv
  <1> QED
    BY <1>1, Inductive, PTL

\* What wcfxs_voicedaa_check_hook last reported agrees with the port's state.
THEOREM SignalAgreesHolds == Spec => []SignalAgrees
  <1>1. IInv => SignalAgrees
    BY DEF IInv
  <1> QED
    BY <1>1, Inductive, PTL

\* A reversal that outlasts the counter is always taken over.
THEOREM PolarityTakenHolds == Spec => []PolarityTaken
  <1>1. IInv => PolarityTaken
    BY DEF IInv
  <1> QED
    BY <1>1, Inductive, PTL

\* The debounced battery state never changes on less than a full run of readings.
THEOREM BatteryDebouncedHolds == Spec => BatteryDebounced
  <1> DEFINE A == battery' # battery /\ seen # "none" => steady' >= BATT_DEBOUNCE
  <1>1. IInv /\ [Next]_vars => [A]_vars
    <2> SUFFICES ASSUME IInv, Next PROVE A
      BY Zenon
    <2>1. CASE wcfxs_voicedaa_check_hook
      <3>1. /\ volt \in Volts
            /\ BATT_DEBOUNCE \in Nat \ {0} /\ BattStep \in Nat \ {0}
        BY FxoAssumption DEF IInv, TypeOK
      <3>2. /\ Class(volt) \in {"weak", "edge", "strong"}
            /\ Class(volt) = "weak" <=> Weak(volt)
            /\ Class(volt) = "strong" <=> Strong(volt)
        BY <3>1, Classes
      <3> QED
        BY <2>1, <3>1, <3>2 DEF IInv, TypeOK, Accounted, wcfxs_voicedaa_check_hook,
                                CheckBattery, BatteryLost, BatteryBack
    <2>2. CASE \E txsig \in {"START", "OFFHOOK", "ONHOOK"} : wcfxs_hooksig(txsig)
      BY <2>2 DEF wcfxs_hooksig, batt
    <2>3. CASE LineChanges
      BY <2>3 DEF LineChanges, batt
    <2> QED
      BY <2>1, <2>2, <2>3 DEF Next
  <1> QED
    BY <1>1, Inductive, PTL DEF Spec, BatteryDebounced

-----------------------------------------------------------------------------
(* The bounds behind LineNoticed: the counters are never slower than the     *)
(* debounce asks for, so that a line that stays as it is is seen as it is    *)
(* after a known number of polls, not only in the end.                       *)

\* Readings on the other side of the threshold are all counted, from a counter that
\* is a step or more below its reload value.
Prompt ==
  /\ battdebounce + BattStep <= BATT_DEBOUNCE
  /\ battery /\ seen = "weak" => battdebounce + steady + BattStep <= BATT_DEBOUNCE
  /\ ~battery /\ seen = "strong" => battdebounce + steady + BattStep <= BATT_DEBOUNCE

\* After BATT_DEBOUNCE / BattStep polls in a row on one side of the threshold the
\* battery state is the one they showed.
BatterySettled ==
  steady >= BATT_DEBOUNCE => (seen = "weak" => ~battery) /\ (seen = "strong" => battery)

\* A poll keeps Prompt.
LEMMA PollPrompt ==
  ASSUME IInv, Prompt, wcfxs_voicedaa_check_hook
  PROVE  Prompt'
  <1>0. /\ volt \in Volts /\ BATT_DEBOUNCE \in Nat /\ BattStep \in Nat \ {0}
        /\ battdebounce \in Nat /\ steady \in Nat
        /\ battdebounce + BattStep <= BATT_DEBOUNCE
    BY FxoAssumption DEF IInv, TypeOK, Prompt
  <1>c. /\ Class(volt) = "weak" <=> Weak(volt)
        /\ Class(volt) = "strong" <=> Strong(volt)
        /\ ~(Weak(volt) /\ Strong(volt))
    BY <1>0, Classes
  <1>1. /\ battery' = ((battery \/ BatteryBack) /\ ~BatteryLost)
        /\ battdebounce' = CountDown(IF Reload THEN BATT_DEBOUNCE ELSE battdebounce)
        /\ seen' = Class(volt)
        /\ steady' = IF seen # Class(volt) THEN BattStep
                     ELSE IF steady < BATT_DEBOUNCE THEN steady + BattStep ELSE steady
    BY Zenon DEF wcfxs_voicedaa_check_hook, CheckBattery
  <1>2. battdebounce \in {0} \/ battdebounce >= BattStep
    <2>1. PICK k \in Nat : battdebounce = k * BattStep
      BY DEF IInv, WholeSteps
    <2>2. CASE k = 0
      BY <1>0, <2>1, <2>2
    <2>3. CASE k # 0
      <3>1. (k - 1) * BattStep \in Nat /\ battdebounce = (k - 1) * BattStep + BattStep
        BY <1>0, <2>1, <2>3
      <3> QED
        BY <1>0, <3>1
    <2> QED
      BY <2>2, <2>3
  <1>3. CASE Reload
    <2>1. battdebounce' = BATT_DEBOUNCE - BattStep
      BY <1>0, <1>1, <1>3 DEF CountDown
    <2>2. ~(battery' /\ seen' = "weak") /\ ~(~battery' /\ seen' = "strong")
      BY <1>1, <1>3, <1>c, Zenon DEF Reload, BatteryLost, BatteryBack
    <2> QED
      BY <1>0, <2>1, <2>2 DEF Prompt
  <1>4. CASE ~Reload
    <2>1. /\ battery' = battery /\ battdebounce # 0
          /\ \/ battery /\ seen' = "weak"
             \/ ~battery /\ seen' = "strong"
      BY <1>1, <1>4, <1>c, Zenon DEF Reload, BatteryLost, BatteryBack, IInv, TypeOK
    <2>2. battdebounce' = battdebounce - BattStep /\ battdebounce' \in Nat
      BY <1>0, <1>1, <1>2, <1>4, <2>1 DEF CountDown
    <2>3. battdebounce' + steady' + BattStep <= BATT_DEBOUNCE
      <3>1. CASE seen = seen'
        <4>1. battdebounce + steady + BattStep <= BATT_DEBOUNCE
          BY <2>1, <3>1, Zenon DEF Prompt
        <4>2. steady' = steady + BattStep
          BY <1>0, <1>1, <3>1, <4>1
        <4> QED
          BY <1>0, <2>2, <4>1, <4>2
      <3>2. CASE seen # seen'
        <4>1. steady' = BattStep
          BY <1>1, <3>2, Zenon
        <4> QED
          BY <1>0, <2>2, <4>1
      <3> QED
        BY <3>1, <3>2
    <2> QED
      BY <1>0, <2>1, <2>2, <2>3 DEF Prompt
  <1> QED
    BY <1>3, <1>4

\* A dead line is taken as dead and a fed one as fed exactly when the debounce allows
\* it: BatteryDebounced says no sooner, this says no later.
THEOREM BatterySettledHolds == Spec => []BatterySettled
  <1>1. Init => Prompt
    <2>1. BATT_DEBOUNCE \in Nat /\ BattStep \in Nat \ {0} /\ BattStep <= BATT_DEBOUNCE
      <3>1. PICK n \in 1 .. BATT_DEBOUNCE : BATT_DEBOUNCE = n * BattStep
        BY FxoAssumption
      <3>2. /\ BattStep \in Nat \ {0} /\ BATT_DEBOUNCE \in Nat
            /\ (n - 1) * BattStep \in Nat /\ BATT_DEBOUNCE = (n - 1) * BattStep + BattStep
        BY <3>1, FxoAssumption
      <3> QED
        BY <3>2
    <2> QED
      BY <2>1 DEF Init, Prompt
  <1>2. ASSUME IInv, Prompt, [Next]_vars PROVE Prompt'
    <2>1. CASE wcfxs_voicedaa_check_hook
      BY <1>2, <2>1, PollPrompt
    <2>2. CASE UNCHANGED <<batt, seen, steady>>
      BY <1>2, <2>2, Zenon DEF Prompt, batt
    <2> QED
      BY <1>2, <2>1, <2>2, Zenon DEF Next, vars, wcfxs_hooksig, LineChanges
  <1>3. IInv /\ Prompt => BatterySettled
    BY FxoAssumption DEF IInv, TypeOK, Prompt, BatterySettled
  <1> QED
    BY <1>1, <1>2, <1>3, Inductive, PTL DEF Spec

\* A full ring counter means that the ring was reported, an empty one that its end
\* was: CheckRing compares after it has counted, and misses neither limit.
RingSettled == (ringdebounce = RingFull => wasringing) /\ (ringdebounce = 0 => ~wasringing)

\* Whatever the ring detector, the battery and the hook do, the reported ring agrees
\* with the counter at both of its limits, also after a call in which it stood still.
THEOREM RingSettledHolds == Spec => []RingSettled
  <1>0. RingUp \in Nat \ {0} /\ RingDown \in Nat \ {0} /\ RingFull \in Nat \ {0}
    BY FxoAssumption
  <1>1. Init => RingSettled
    BY <1>0 DEF Init, RingSettled
  <1>2. ASSUME IInv, RingSettled, [Next]_vars PROVE RingSettled'
    <2>1. CASE wcfxs_voicedaa_check_hook
      <3>1. /\ ringdebounce' = IF offhook THEN ringdebounce ELSE RingCount
            /\ wasringing' = ((wasringing \/ RingStarts) /\ ~RingStops)
        BY <2>1, Zenon DEF wcfxs_voicedaa_check_hook, CheckRing
      <3>2. ringdebounce \in 0 .. RingFull
        BY <1>2, Zenon DEF IInv, TypeOK
      <3>3. CASE offhook
        BY <1>2, <3>1, <3>3, Zenon DEF RingSettled, RingStarts, RingStops
      <3>4. CASE ~offhook /\ ringing /\ battery
        <4>1. /\ ringdebounce' # 0
              /\ ringdebounce' = RingFull => ringdebounce + RingUp >= RingFull
          BY <1>0, <3>1, <3>2, <3>4 DEF RingCount
        <4> QED
          BY <3>1, <3>4, <4>1, Zenon DEF RingSettled, RingStarts, RingStops
      <3>5. CASE ~offhook /\ ~(ringing /\ battery)
        <4>1. /\ ringdebounce' # RingFull
              /\ ringdebounce' = 0 => ringdebounce - RingDown <= 0
          BY <1>0, <3>1, <3>2, <3>5 DEF RingCount
        <4> QED
          BY <3>1, <3>5, <4>1, Zenon DEF RingSettled, RingStarts, RingStops
      <3> QED
        BY <3>3, <3>4, <3>5, Zenon
    <2>2. CASE UNCHANGED ring
      BY <1>2, <2>2, Zenon DEF RingSettled, ring
    <2> QED
      BY <1>2, <2>1, <2>2, Zenon DEF Next, vars, wcfxs_hooksig, LineChanges
  <1> QED
    BY <1>1, <1>2, Inductive, PTL DEF Spec
=============================================================================
