------------------------------ MODULE WcfxsFxo ------------------------------
(***************************************************************************)
(* One FXO port (a line from the exchange) of src/src/wcfxs.c: the         *)
(* interrupt handler polls it every NUM_CARDS interrupts, reads the ring   *)
(* detector and the line voltage, debounces ringing, battery and polarity  *)
(* in three counters and reports hook signals to zaptel; zaptel takes the  *)
(* line off hook and puts it back.                                         *)
(*                                                                         *)
(* A poll runs in the interrupt handler and wcfxs_hooksig under the        *)
(* channel's lock with interrupts off, so each is one step.                *)
(***************************************************************************)
EXTENDS Integers

CONSTANTS
  RingUp,         \* ZT_CHUNKSIZE * NUM_CARDS
  RingDown,       \* ZT_CHUNKSIZE
  RingFull,       \* ZT_CHUNKSIZE * 64
  BATT_DEBOUNCE, BattStep,   \* BattStep is NUM_CARDS / 4
  POLARITY_DEBOUNCE,
  BATT_THRESH,
  Volts           \* readings of register 29

ASSUME FxoAssumption ==
  /\ RingUp \in Nat \ {0} /\ RingDown \in Nat \ {0} /\ RingFull \in Nat \ {0}
  /\ BattStep \in Nat \ {0} /\ POLARITY_DEBOUNCE \in Nat \ {0}
  /\ BATT_THRESH \in Nat
  /\ Volts \subseteq Int
  \* the battery counter is tested against zero after it has gone down in steps
  /\ BATT_DEBOUNCE \in Nat /\ \E n \in 1 .. BATT_DEBOUNCE : BATT_DEBOUNCE = n * BattStep

VARIABLES
  ringing, volt,              \* the line: ring detector and voltage
  offhook, reg5,              \* mod.fxo.offhook, and register 5 of the chip
  wasringing, ringdebounce,
  battery, battdebounce,
  lastpol, polarity, polaritydebounce,
  rxsig,                      \* the last signal reported by zt_hooksig
  events,                     \* the event the last poll queued by zt_qevent_lock
  led,
  seen, steady                \* history: the class of voltage the last poll saw,
                              \* and the polls in a row that saw it, times BattStep

line == <<ringing, volt>>
hook == <<offhook, reg5>>
ring == <<wasringing, ringdebounce, led>>
batt == <<battery, battdebounce>>
pol == <<lastpol, polarity, polaritydebounce, events>>
vars == <<line, hook, ring, batt, pol, rxsig, seen, steady>>

Abs(n) == IF n < 0 THEN -n ELSE n
Weak(v) == Abs(v) < BATT_THRESH
Strong(v) == Abs(v) > BATT_THRESH
Class(v) == IF Weak(v) THEN "weak" ELSE IF Strong(v) THEN "strong" ELSE "edge"

-----------------------------------------------------------------------------
\* The ring detector, looked at only on hook: with battery a ring fills the
\* counter, anything else drains it.
RingCount ==
  IF ringing /\ battery
  THEN IF ringdebounce + RingUp >= RingFull THEN RingFull ELSE ringdebounce + RingUp
  ELSE IF ringdebounce - RingDown <= 0 THEN 0 ELSE ringdebounce - RingDown

RingStarts ==
  ~offhook /\ ringing /\ battery /\ ringdebounce + RingUp >= RingFull /\ ~wasringing

\* A broken variant: the end of a ring is looked for only on a fed line.
RingStopsFed ==
  ~offhook /\ battery /\ ~ringing /\ ringdebounce - RingDown <= 0 /\ wasringing

RingStops ==
  ~offhook /\ ~(ringing /\ battery) /\ ringdebounce - RingDown <= 0 /\ wasringing

CheckRing ==
  /\ ringdebounce' = IF offhook THEN ringdebounce ELSE RingCount
  /\ wasringing' = ((wasringing \/ RingStarts) /\ ~RingStops)
  /\ led' = IF RingStarts THEN "green" ELSE IF RingStops THEN "red" ELSE led

\* The battery: a change of state needs the counter to have run down; a reading
\* that confirms the state, or is neither, loads it again.
BatteryLost == Weak(volt) /\ battery /\ battdebounce = 0
BatteryBack == Strong(volt) /\ ~battery /\ battdebounce = 0

\* A broken variant: a reading at the threshold does not load the counter.
ReloadNotAtEdge ==
  \/ BatteryLost \/ BatteryBack
  \/ Weak(volt) /\ ~battery
  \/ Strong(volt) /\ battery

Reload ==
  \/ BatteryLost \/ BatteryBack
  \/ Weak(volt) /\ ~battery
  \/ Strong(volt) /\ battery
  \/ ~Weak(volt) /\ ~Strong(volt)

\* A broken variant: with twenty cards the step is five.
CountDownBy5(n) == IF n # 0 THEN n - 5 ELSE n

\* if (battdebounce) battdebounce -= NUM_CARDS / 4
CountDown(n) == IF n # 0 THEN n - BattStep ELSE n

CheckBattery ==
  /\ battery' = ((battery \/ BatteryBack) /\ ~BatteryLost)
  /\ battdebounce' = CountDown(IF Reload THEN BATT_DEBOUNCE ELSE battdebounce)

\* The polarity: a strong reading of the other sign restarts the counter; when it
\* runs out the new polarity is taken over, and reported unless it is the first.
Sign(v) == IF v < 0 THEN -1 ELSE 1

PolarityTurns == Strong(volt) /\ lastpol # Sign(volt)

\* A broken variant: the first polarity is dropped rather than taken silently.
CheckPolarityNotFirst ==
  LET count == IF PolarityTurns THEN POLARITY_DEBOUNCE ELSE polaritydebounce
      settles == count = 1 /\ polarity # 0
  IN  /\ lastpol' = IF PolarityTurns THEN Sign(volt) ELSE lastpol
      /\ polaritydebounce' = IF count > 0 THEN count - 1 ELSE count
      /\ polarity' = IF settles THEN lastpol' ELSE polarity
      /\ events' = IF settles /\ lastpol' # polarity THEN "polarity" ELSE "none"

CheckPolarity ==
  LET count == IF PolarityTurns THEN POLARITY_DEBOUNCE ELSE polaritydebounce
      settles == count = 1
  IN  /\ lastpol' = IF PolarityTurns THEN Sign(volt) ELSE lastpol
      /\ polaritydebounce' = IF count > 0 THEN count - 1 ELSE count
      /\ polarity' = IF settles THEN lastpol' ELSE polarity
      /\ events' = IF settles /\ polarity # 0 /\ lastpol' # polarity
                   THEN "polarity" ELSE "none"

\* A broken variant: the end of a ring is reported as the end of the call.
RingSignalOnhook ==
  IF RingStarts THEN "RING" ELSE IF RingStops THEN "ONHOOK" ELSE rxsig

\* The last signal sent by one poll; the battery is looked at after the ring.
RingSignal ==
  IF RingStarts THEN "RING" ELSE IF RingStops THEN "OFFHOOK" ELSE rxsig

Report ==
  rxsig' = IF BatteryLost THEN "ONHOOK"
           ELSE IF BatteryBack THEN "OFFHOOK" ELSE RingSignal

wcfxs_voicedaa_check_hook ==
  /\ CheckRing
  /\ CheckBattery
  /\ CheckPolarity
  /\ Report
  /\ seen' = Class(volt)
  /\ steady' = IF seen # Class(volt) THEN BattStep
               ELSE IF steady < BATT_DEBOUNCE THEN steady + BattStep ELSE steady
  /\ UNCHANGED <<line, hook>>

-----------------------------------------------------------------------------
wcfxs_hooksig(txsig) ==
  /\ offhook' = (txsig \in {"START", "OFFHOOK"})
  /\ reg5' = IF txsig \in {"START", "OFFHOOK"} THEN 9 ELSE 8
  /\ UNCHANGED <<line, ring, batt, pol, rxsig, seen, steady>>

\* The exchange: the ring detector and the voltage change as they like.
LineChanges ==
  /\ ringing' \in BOOLEAN
  /\ volt' \in Volts
  /\ UNCHANGED <<hook, ring, batt, pol, rxsig, seen, steady>>

\* After wcfxs_init_voicedaa: the structure was cleared, the LED is red.  Next to an FXS
\* card polaritydebounce may hold a part of its calibration vector instead (they share
\* a union); that changes nothing before the first strong reading, for both polarities
\* are still 0, and that reading loads the counter.
Init ==
  /\ ringing \in BOOLEAN /\ volt \in Volts
  /\ offhook = FALSE /\ reg5 = 8
  /\ wasringing = FALSE /\ ringdebounce = 0 /\ led = "red"
  /\ battery = FALSE /\ battdebounce = 0
  /\ lastpol = 0 /\ polarity = 0 /\ polaritydebounce = 0 /\ events = "none"
  /\ rxsig = "none"
  /\ seen = "none" /\ steady = 0

Next ==
  \/ wcfxs_voicedaa_check_hook
  \/ \E txsig \in {"START", "OFFHOOK", "ONHOOK"} : wcfxs_hooksig(txsig)
  \/ LineChanges

Spec == Init /\ [][Next]_vars

\* The handler runs every millisecond and polls the cards in turn.
FairSpec == Spec /\ WF_vars(wcfxs_voicedaa_check_hook)
-----------------------------------------------------------------------------
\* Every counter of wcfxs_voicedaa_check_hook stays between zero and its reload value;
\* battdebounce is tested for zero only, so a step past zero would run for ever.
TypeOK ==
  /\ ringing \in BOOLEAN /\ volt \in Volts
  /\ offhook \in BOOLEAN /\ reg5 \in {8, 9}
  /\ wasringing \in BOOLEAN /\ ringdebounce \in 0 .. RingFull
  /\ led \in {"red", "green"}
  /\ battery \in BOOLEAN /\ battdebounce \in 0 .. BATT_DEBOUNCE
  /\ lastpol \in {-1, 0, 1} /\ polarity \in {-1, 0, 1}
  /\ polaritydebounce \in 0 .. POLARITY_DEBOUNCE
  /\ events \in {"none", "polarity"}
  /\ rxsig \in {"none", "RING", "OFFHOOK", "ONHOOK"}
  /\ seen \in {"none", "weak", "edge", "strong"}
  /\ steady \in 0 .. (BATT_DEBOUNCE + BattStep)

\* What zaptel was told last agrees with the port: it has been told ONHOOK only
\* while the battery is gone, RING only while the port is ringing, and with
\* battery and no ringing it was told OFFHOOK.  Ringing and battery are reported
\* by two parts of the poll, each of which overrides the other's report.
SignalAgrees ==
  /\ rxsig = "ONHOOK" => ~battery
  /\ rxsig = "RING" => wasringing
  /\ battery /\ ~wasringing => rxsig = "OFFHOOK"

\* No polarity is lost: once the counter has run out the debounced polarity is
\* the one last seen.
PolarityTaken == polaritydebounce = 0 => polarity = lastpol

\* The battery changes state only after BATT_DEBOUNCE / BattStep polls in a row
\* saw the voltage on the other side of the threshold; the very first poll
\* excepted.
BatteryDebounced ==
  [][battery' # battery /\ seen # "none"
       => steady' >= BATT_DEBOUNCE]_vars

\* A line that settles is in the end seen by wcfxs_voicedaa_check_hook as it is: a
\* dead line as dead and a fed one as fed; a port left on hook as ringing on a fed
\* line that keeps ringing, and as silent once the ringing has stopped, whether or
\* not the line is still fed; and a polarity that stays is taken over.
LineNoticed ==
  /\ <>[]Weak(volt) => <>[]~battery
  /\ <>[]Strong(volt) => <>[]battery
  /\ <>[](Strong(volt) /\ ringing /\ ~offhook) => <>[]wasringing
  /\ <>[](~ringing /\ ~offhook) => <>[]~wasringing
  /\ <>[](Strong(volt) /\ volt < 0) => <>[](polarity = -1)
=============================================================================
