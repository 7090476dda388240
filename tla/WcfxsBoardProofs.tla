-------------------------- MODULE WcfxsBoardProofs ---------------------------
(***************************************************************************)
(* Proofs about WcfxsBoard for any number of cards and of opens.  The      *)
(* board's steps are steps of the driver's life and of the bus, so what is *)
(* invariant for each alone holds for the board; that installed cards are  *)
(* real needs both.                                                        *)
(***************************************************************************)
EXTENDS WcfxsBoard, TLAPS

-----------------------------------------------------------------------------
(* The driver's life.  Once a load is past the point where it can fail, or *)
(* a card has been set up, only unloading frees the structure, and         *)
(* unloading waits for the closes and first stops interrupts and span.     *)

\* What each step of loading and unloading has built or taken down.
Built ==
  /\ pc \in {"proc", "sport", "cards", "unregister"} => span
  /\ pc \in {"register", "proc", "sport", "cards", "unregister"} => wc = "live" /\ ~init_ok
  /\ pc = "unregister" => ~sport /\ cardflag = {}
  /\ pc \in {"absent", "register", "release"} => ~sport /\ ~span
  /\ pc \in {"absent", "register"} => ~proc
  /\ pc \in {"absent", "register", "release"} => usecount = 0
  /\ pc = "loaded" => (init_ok <=> ~failed)
  /\ pc = "loaded" /\ failed => ~sport /\ ~span
  /\ pc = "release" => (init_ok <=> ~failed)
  /\ pc \in {"loaded", "release"} /\ init_ok => wc = "live"
  /\ usecount > 0 => cardflag # {} /\ span
  /\ pc \in {"register", "proc", "sport"} => todo = Cards /\ cardflag = {} /\ ~failed
  /\ pc \in {"register", "proc", "sport", "cards", "unregister"} => ~failed /\ polled = {}
  /\ init_ok => todo = {}

LifeIInv == LifeTypeOK /\ OutlivesUsers /\ ProcOutlivesOnlyFailure /\ PolledReady /\ Built

\* The initial state satisfies the invariant.
LEMMA LifeInitInv == LifeInit => LifeIInv
<1> SUFFICES ASSUME LifeInit PROVE LifeIInv
  OBVIOUS
<1>1. /\ pc = "absent" /\ ~span /\ ~proc /\ ~sport /\ ~init_ok
      /\ usecount = 0 /\ polled = {} /\ wc = "none"
  BY DEF LifeInit
<1>2. LifeTypeOK
  <2>1. usecount \in 0 .. MaxOpen
    BY LifeAssumption DEF LifeInit
  <2> QED
    BY <2>1, Zenon DEF LifeInit, LifeTypeOK
<1>3. OutlivesUsers /\ ProcOutlivesOnlyFailure /\ PolledReady
  BY <1>1 DEF OutlivesUsers, ProcOutlivesOnlyFailure, PolledReady
<1>4. Built
  BY <1>1, SMTT(30) DEF Built
<1> QED
  BY <1>2, <1>3, <1>4 DEF LifeIInv

\* Every step preserves the invariant.
LEMMA LifeStep ==
  ASSUME LifeIInv, [LifeNext]_life
  PROVE  LifeIInv'
<1> USE LifeAssumption DEF LifeIInv, LifeTypeOK, OutlivesUsers, ProcOutlivesOnlyFailure, PolledReady, Built
<1>1. CASE wcfxs_init_one
  <2>1. /\ pc = "absent" /\ ~span /\ ~sport /\ ~proc /\ usecount = 0
        /\ ~init_ok' /\ todo' = Cards /\ cardflag' = {} /\ polled' = {}
        /\ UNCHANGED <<span, proc, sport, usecount>>
    BY <1>1, Zenon DEF wcfxs_init_one
  <2>2. CASE wc' = "live" /\ pc' = "register" /\ failed' = FALSE
    <3>1. ~failed'
      BY <2>2, Zenon
    <3>2. LifeTypeOK'
      BY <1>1, <2>1, <2>2, Zenon DEF wcfxs_init_one
    <3> QED
      BY <2>1, <2>2, <3>1, <3>2, Zenon
  <2>3. CASE wc' = "none" /\ pc' = "loaded" /\ failed' = TRUE
    <3>1. failed'
      BY <2>3, Zenon
    <3>2. LifeTypeOK'
      BY <1>1, <2>1, <2>3, Zenon DEF wcfxs_init_one
    <3> QED
      BY <2>1, <2>3, <3>1, <3>2, Zenon
  <2> QED
    BY <1>1, <2>2, <2>3, Zenon DEF wcfxs_init_one
<1>2. CASE wcfxs_initialize
  <2>1. CASE span' = TRUE /\ pc' = "proc" /\ UNCHANGED <<wc, failed>>
    <3>1. span' /\ span' \in BOOLEAN
      BY <2>1, Zenon
    <3> QED
      BY <1>2, <2>1, <3>1 DEF wcfxs_initialize
  <2>2. CASE wc' = "freed" /\ pc' = "loaded" /\ failed' = TRUE /\ UNCHANGED span
    <3>1. failed' /\ failed' \in BOOLEAN
      BY <2>2, Zenon
    <3>2. ~span /\ ~sport /\ ~init_ok /\ usecount = 0
      BY <1>2 DEF wcfxs_initialize
    <3> QED
      BY <1>2, <2>2, <3>1, <3>2 DEF wcfxs_initialize
  <2> QED
    BY <1>2, <2>1, <2>2, Zenon DEF wcfxs_initialize
<1>3. CASE create_proc_read_entry
  BY <1>3, Zenon DEF create_proc_read_entry
<1>4. CASE bfsi_sport_init
  BY <1>4, Zenon DEF bfsi_sport_init
<1>5. ASSUME NEW c \in Cards, InitCard(c) PROVE LifeIInv'
  BY <1>5 DEF InitCard
<1>6. CASE HardwareInitFails
  BY <1>6, Zenon DEF HardwareInitFails, sport_closed
<1>7. CASE UnregisterFree
  BY <1>7, Zenon DEF UnregisterFree
<1>8. CASE HardwareInitOk
  BY <1>8, Zenon DEF HardwareInitOk
<1>9. ASSUME NEW c \in Cards, regular_interrupt_processing(c) PROVE LifeIInv'
  BY <1>9, Zenon DEF regular_interrupt_processing, Polls
<1>10. ASSUME NEW c \in Cards, wcfxs_open(c) PROVE LifeIInv'
  BY <1>10 DEF wcfxs_open
<1>11. CASE wcfxs_close
  BY <1>11 DEF wcfxs_close
<1>12. CASE wcfxs_cleanup
  <2>1. CASE init_ok
    <3>1. ~sport' /\ ~span' /\ sport' \in BOOLEAN /\ span' \in BOOLEAN
      BY <1>12, <2>1, Zenon DEF wcfxs_cleanup, Releasable
    <3> QED
      BY <1>12, <2>1, <3>1 DEF wcfxs_cleanup, Releasable
  <2>2. CASE ~init_ok
    <3>1. ~sport /\ ~span /\ UNCHANGED <<sport, span>>
      BY <1>12, <2>2, Zenon DEF wcfxs_cleanup, Releasable
    <3> QED
      BY <1>12, <2>2, <3>1, Zenon DEF wcfxs_cleanup, Releasable
  <2> QED
    BY <2>1, <2>2, Zenon
<1>13. CASE ReleaseFree
  BY <1>13, Zenon DEF ReleaseFree, Releasable, ProcAfter
<1>14. CASE UNCHANGED life
  BY <1>14, Zenon DEF life
<1> QED
  BY <1>1, <1>2, <1>3, <1>4, <1>5, <1>6, <1>7, <1>8, <1>9, <1>10, <1>11, <1>12, <1>13, <1>14, Zenon
  DEF LifeNext

-----------------------------------------------------------------------------
(* The bus.  Detection moves the multiplexer behind the driver's back,     *)
(* which is harmless because no card is current until it is over; from     *)
(* then on the LEDs are the only thing that takes the multiplexer away     *)
(* from the current card, and they make no card current.                   *)

\* Where an undisturbed detection stands: what the multiplexer selects, what the cards
\* before this one were found to be, and which probes this one has already failed.
Progress ==
  /\ Detecting => curcard = None
  /\ stage = "read" => mux = port
  /\ stage = "ledwrite" => mux = Leds
  /\ Detecting => \A c \in Cards : c < port => port_type[c] = TypeOf(kind[c])
  /\ stage \in {"select", "read"} => \A i \in 1 .. 3 : i < probe => kind[port] # Probes[i]
  /\ stage \in {"select", "read"} /\ (probe > 1 \/ stage = "read") => port_type[port] = "-"
  /\ stage \in {"led", "ledwrite"} => port_type[port] = TypeOf(kind[port])

\* A card is remembered as current only while the multiplexer selects it.
CacheHonest == ~early /\ curcard # None => mux = curcard

Good == AccessHits /\ CacheHonest /\ Progress /\ Detected

BusIInv == BusTypeOK /\ (~early => Good)

USE CardsAssumption DEF Cards

\* The initial states satisfy the invariant.
LEMMA BusInitInv == BusInit => BusIInv
<1> SUFFICES ASSUME BusInit PROVE BusIInv
  OBVIOUS
<1>1. BusTypeOK
  <2>1. early \in BOOLEAN
    BY Zenon DEF BusInit
  <2>2. port_type \in [Cards -> {"?", "O", "S", "-"}]
    BY DEF BusInit
  <2>3. port \in Cards /\ probe \in 1 .. 3 /\ stage = "select"
    BY DEF BusInit
  <2> QED
    BY <2>1, <2>2, <2>3 DEF BusInit, BusTypeOK
<1>2. Good
  BY DEF BusInit, Good, AccessHits, CacheHonest, Progress, Detected, Detecting, None, Leds
<1> QED
  BY <1>1, <1>2 DEF BusIInv

\* Every step preserves the type.
LEMMA BusStepType ==
  ASSUME BusTypeOK, [BusNext]_bus
  PROVE  BusTypeOK'
<1> USE DEF BusTypeOK, None, Leds
<1>1. ASSUME NEW card \in Cards, RegAccess(card) PROVE BusTypeOK'
  BY <1>1, Zenon DEF RegAccess, __wcfxs_setcard, Sent
<1>2. ASSUME NEW card \in Cards, wcfxs_proc_read(card) PROVE BusTypeOK'
  <2>1. early' \in BOOLEAN
    BY <1>2, Zenon DEF wcfxs_proc_read
  <2> QED
    BY <1>2, <2>1 DEF wcfxs_proc_read, __wcfxs_setcard, Sent
<1>3. CASE wcfxs_set_led
  BY <1>3, Zenon DEF wcfxs_set_led, Sent
<1>10. ASSUME NEW card \in Cards, wcfxs_proc_read_freed(card) PROVE BusTypeOK'
  BY <1>10, Zenon DEF wcfxs_proc_read_freed, Sent
<1>11. CASE Reload
  <2>1. early' \in BOOLEAN
    BY <1>11, Zenon DEF Reload
  <2>2. port_type' \in [Cards -> {"?", "O", "S", "-"}]
    BY <1>11, Zenon DEF Reload
  <2> QED
    BY <1>11, <2>1, <2>2 DEF Reload
<1>4. CASE DetectSelect
  BY <1>4, Zenon DEF DetectSelect, Cleared
<1>5. CASE DetectRead
  BY <1>5 DEF DetectRead, Answers, NextPort
<1>6. CASE DetectLedSelect
  BY <1>6, Zenon DEF DetectLedSelect
<1>7. CASE DetectLedWrite
  BY <1>7 DEF DetectLedWrite, NextPort
<1>8. CASE InitDone
  BY <1>8, Zenon DEF InitDone
<1>9. CASE UNCHANGED bus
  BY <1>9 DEF bus
<1> QED
  BY <1>1, <1>2, <1>3, <1>4, <1>5, <1>6, <1>7, <1>8, <1>9, <1>10, <1>11, Zenon DEF BusNext

\* What a step to the next card, or out of detection, keeps.
LEMMA NextPortInv ==
  ASSUME BusTypeOK, Good, NextPort, Detecting, UNCHANGED <<kind, mux, curcard, port_type>>,
         port_type[port] = TypeOf(kind[port]), want' = got'
  PROVE  Good'
<1>1. CASE port = NUM_CARDS - 1
  BY <1>1 DEF NextPort, Good, BusTypeOK, AccessHits, CacheHonest, Progress, Detected, Detecting, None, Leds
<1>2. CASE port # NUM_CARDS - 1
  BY <1>2 DEF NextPort, Good, BusTypeOK, AccessHits, CacheHonest, Progress, Detected, Detecting, None, Leds
<1> QED
  BY <1>1, <1>2, Zenon

\* A new structure knows nothing yet.
LEMMA ReloadGood ==
  ASSUME BusTypeOK, Reload
  PROVE  Good'
  BY DEF BusTypeOK, Reload, Good, AccessHits, CacheHonest, Progress, Detected, Detecting, None, Leds

\* Every step but an early read of /proc/wcfxs keeps what an undisturbed driver knows.
LEMMA StepGood ==
  ASSUME BusTypeOK, ~early, Good, [BusNext]_bus, ~early'
  PROVE  Good'
<1> USE DEF BusTypeOK, Good, AccessHits, CacheHonest, None, Leds
<1>1. ASSUME NEW card \in Cards, RegAccess(card) PROVE Good'
  BY <1>1 DEF RegAccess, __wcfxs_setcard, Sent, Progress, Detected, Detecting
<1>2. ASSUME NEW card \in Cards, wcfxs_proc_read(card) PROVE Good'
  <2>1. ~Detecting
    BY <1>2, Zenon DEF wcfxs_proc_read
  <2> QED
    BY <1>2, <2>1 DEF wcfxs_proc_read, __wcfxs_setcard, Sent, Progress, Detected, Detecting
<1>3. CASE wcfxs_set_led
  BY <1>3, Zenon DEF wcfxs_set_led, Sent, Progress, Detected, Detecting
<1>10. ASSUME NEW card \in Cards, wcfxs_proc_read_freed(card) PROVE Good'
  BY <1>10, Zenon DEF wcfxs_proc_read_freed
<1>11. CASE Reload
  BY <1>11, ReloadGood, Zenon
<1>4. CASE DetectSelect
  BY <1>4 DEF DetectSelect, Cleared, Progress, Detected, Detecting
<1>5. CASE DetectRead
  <2>1. mux = port /\ mux # Leds
    BY <1>5 DEF DetectRead, Progress
  <2>2. CASE kind[port] = Probes[probe]
    <3>1. /\ port_type' = [port_type EXCEPT ![port] = IF probe = 1 THEN "O" ELSE "S"]
          /\ stage' = "led" /\ stage = "read"
          /\ UNCHANGED <<port, probe, kind, mux, curcard>>
          /\ want' = port /\ got' = mux
      BY <1>5, <2>1, <2>2, Zenon DEF DetectRead, Answers
    <3>2. port_type'[port] = TypeOf(kind[port])
      BY <3>1, <2>2 DEF TypeOf, Probes
    <3> QED
      BY <2>1, <3>1, <3>2 DEF Progress, Detected, Detecting
  <2>3. CASE kind[port] # Probes[probe] /\ probe < 3
    <3>1. /\ probe' = probe + 1 /\ stage' = "select" /\ stage = "read"
          /\ UNCHANGED <<port, port_type, kind, mux, curcard>>
          /\ want' = port /\ got' = mux
      BY <1>5, <2>1, <2>3 DEF DetectRead, Answers
    <3> QED
      BY <2>1, <2>3, <3>1 DEF Progress, Detected, Detecting
  <2>4. CASE kind[port] # Probes[probe] /\ ~(probe < 3)
    <3>1. /\ NextPort /\ stage = "read" /\ probe = 3
          /\ UNCHANGED <<port_type, kind, mux, curcard>>
          /\ want' = port /\ got' = mux
      BY <1>5, <2>1, <2>4, Zenon DEF DetectRead, Answers
    <3>2. kind[port] # Probes[1] /\ kind[port] # Probes[2] /\ kind[port] # Probes[3]
      BY <3>1, <2>4 DEF Progress
    <3>3. kind[port] = "-"
      BY <3>2, Zenon DEF Probes, Kinds
    <3>4. port_type[port] = TypeOf(kind[port])
      BY <3>1, <3>3, Zenon DEF Progress, TypeOf
    <3> QED
      BY <2>1, <3>1, <3>4, NextPortInv, Zenon DEF Detecting
  <2> QED
    BY <2>2, <2>3, <2>4, Zenon
<1>6. CASE DetectLedSelect
  BY <1>6, Zenon DEF DetectLedSelect, Progress, Detected, Detecting
<1>7. CASE DetectLedWrite
  <2>1. /\ NextPort /\ stage = "ledwrite" /\ mux = Leds
        /\ UNCHANGED <<port_type, kind, mux, curcard>>
        /\ want' = Leds /\ got' = mux
    BY <1>7, Zenon DEF DetectLedWrite, Progress
  <2> QED
    BY <2>1, NextPortInv, Zenon DEF Progress, Detecting
<1>8. CASE InitDone
  BY <1>8, Zenon DEF InitDone, Progress, Detected, Detecting
<1>9. CASE UNCHANGED bus
  BY <1>9, Zenon DEF bus, Progress, Detected, Detecting
<1> QED
  BY <1>1, <1>2, <1>3, <1>4, <1>5, <1>6, <1>7, <1>8, <1>9, <1>10, <1>11, Zenon DEF BusNext

\* Only loading again resets the history flag.
LEMMA EarlyStays ==
  ASSUME BusTypeOK, [BusNext]_bus, ~Reload, ~early'
  PROVE  ~early
<1>1. ASSUME NEW card \in Cards, wcfxs_proc_read(card) PROVE ~early
  BY <1>1, Zenon DEF wcfxs_proc_read
<1>2. ASSUME NEW card \in Cards, wcfxs_proc_read_freed(card) PROVE ~early
  BY <1>2 DEF wcfxs_proc_read_freed
<1>3. ASSUME UNCHANGED early PROVE ~early
  BY <1>3
<1> QED
  BY <1>1, <1>2, <1>3 DEF BusNext, bus, RegAccess, wcfxs_set_led, DetectSelect, DetectRead,
     DetectLedSelect, DetectLedWrite, InitDone

\* Every step of the bus keeps its invariant.
LEMMA BusStep ==
  ASSUME BusIInv, [BusNext]_bus
  PROVE  BusIInv'
<1>1. CASE Reload
  BY <1>1, BusStepType, ReloadGood DEF BusIInv
<1>2. CASE ~Reload
  BY <1>2, BusStepType, StepGood, EarlyStays, Zenon DEF BusIInv
<1> QED
  BY <1>1, <1>2

-----------------------------------------------------------------------------
(* The board. *)

\* A step of the board is a step of the driver's life or leaves it alone.
LEMMA StepOfLife == [Next]_vars => [LifeNext]_life
<1> SUFFICES ASSUME [Next]_vars PROVE [LifeNext]_life
  OBVIOUS
<1>1. CASE Load
  BY <1>1 DEF Load, LifeNext
<1>2. ASSUME NEW c \in Cards, Interrupt(c) \/ Drive(c) \/ ReadProc(c) PROVE [LifeNext]_life
  BY <1>2 DEF Interrupt, Drive, ReadProc, LifeNext
<1>3. ASSUME NEW c \in Cards, wcfxs_open(c) PROVE LifeNext
  BY <1>3 DEF LifeNext
<1>4. CASE UNCHANGED vars
  BY <1>4 DEF vars
<1> QED
  BY <1>1, <1>2, <1>3, <1>4 DEF Next, LifeNext

\* A step of the board is a step of the bus or leaves it alone.
LEMMA StepOfBus == [Next]_vars => [BusNext]_bus
<1> SUFFICES ASSUME [Next]_vars PROVE [BusNext]_bus
  OBVIOUS
<1>1. CASE Load
  BY <1>1 DEF Load, BusNext
<1>2. ASSUME NEW c \in Cards, Interrupt(c) \/ Drive(c) \/ ReadProc(c) PROVE [BusNext]_bus
  BY <1>2 DEF Interrupt, Drive, ReadProc, BusNext
<1>3. CASE UNCHANGED vars
  BY <1>3 DEF vars
<1> QED
  BY <1>1, <1>2, <1>3, Zenon DEF Next

\* The composed driver behaves as its life does when the bus is left out.
THEOREM BoardImplementsLife == Spec => LifeSpec
<1>1. Init => LifeInit
  BY DEF Init
<1> QED
  BY <1>1, StepOfLife, PTL DEF Spec, LifeSpec

\* The composed driver uses the bus as WcfxsBus says: nothing in loading, polling or
\* driving a card reaches a chip in another way.
THEOREM BoardImplementsBus == Spec => BusSpec
<1>1. Init => BusInit
  BY DEF Init
<1> QED
  BY <1>1, StepOfBus, PTL DEF Spec, BusSpec

\* The invariant of the driver's life holds throughout.
LEMMA LifeInvariance == Spec => []LifeIInv
<1>1. Init => LifeIInv
  BY LifeInitInv DEF Init
<1>2. LifeIInv /\ [Next]_vars => LifeIInv'
  BY LifeStep, StepOfLife
<1> QED
  BY <1>1, <1>2, PTL DEF Spec

\* The invariant of the bus holds throughout.
LEMMA BusInvariance == Spec => []BusIInv
<1>1. Init => BusIInv
  BY BusInitInv DEF Init
<1>2. BusIInv /\ [Next]_vars => BusIInv'
  BY BusStep, StepOfBus
<1> QED
  BY <1>1, <1>2, PTL DEF Spec

\* The structure outlives the interrupts, the span and every open channel, and is freed
\* once.
THEOREM OutlivesUsersHolds == Spec => []OutlivesUsers
  BY LifeInvariance, PTL DEF LifeIInv

\* /proc/wcfxs outlives the structure only after a failed load.
THEOREM ProcHolds == Spec => []ProcOutlivesOnlyFailure
  BY LifeInvariance, PTL DEF LifeIInv

\* No card is polled before all cards have been dealt with.
THEOREM PolledReadyHolds == Spec => []PolledReady
  BY LifeInvariance, PTL DEF LifeIInv

\* Every register access of a driver whose detection was not disturbed reaches the chip
\* it is meant for: wcfxs_getreg, wcfxs_setreg and detection, for any number of cards.
THEOREM AccessHitsHolds == Spec => []AccessHits
<1>1. BusIInv => AccessHits
  BY Zenon DEF BusIInv, Good, AccessHits
<1> QED
  BY <1>1, BusInvariance, PTL

\* fx_auto_detect, undisturbed, finds every card to be what it is.
THEOREM DetectedHolds == Spec => []Detected
<1>1. BusIInv => Detected
  BY DEF BusIInv, Good, Detected
<1> QED
  BY <1>1, BusInvariance, PTL

\* A card marked by wcfxs_hardware_init carries a chip: detection, the access that asks
\* the chip for its kind and the flag are about the same card.
THEOREM InstalledHolds == Spec => []Installed
<1>1. Init => Installed
  BY DEF Init, LifeInit, Installed
<1>2. ASSUME BusIInv, BusIInv', Installed, [Next]_vars PROVE Installed'
  <2>1. ASSUME NEW c \in Cards, InitCard(c), RegAccess(c), c \in cardflag' => answers(c)
        PROVE  Installed'
    <3>1. UNCHANGED <<kind, early>> /\ cardflag' \in {cardflag, cardflag \cup {c}}
      BY <2>1, Zenon DEF InitCard, RegAccess
    <3>2. ~early /\ c \in cardflag' => mux' = c
      BY <1>2, <2>1, <3>1 DEF BusIInv, Good, AccessHits, RegAccess, Sent
    <3>3. ~early /\ c \in cardflag' => TypeOf(kind[c]) \in {"O", "S"}
      BY <2>1, <3>2 DEF answers, Leds
    <3> QED
      BY <1>2, <3>1, <3>3, Zenon DEF Installed, TypeOf
  <2>2. CASE wcfxs_init_one
    BY <2>2, Zenon DEF wcfxs_init_one, Installed
  <2>3. ASSUME UNCHANGED <<kind, cardflag>>, ~early' => ~early PROVE Installed'
    BY <1>2, <2>3, Zenon DEF Installed
  <2>4. CASE Load
    <3> USE DEF bus, life
    <3>1. CASE UNCHANGED bus /\ UNCHANGED cardflag
      BY <2>3, <3>1, Zenon
    <3>2. CASE UNCHANGED life /\ UNCHANGED <<kind, early>>
      BY <2>3, <3>2, Zenon
    <3>3. CASE HardwareInitOk /\ InitDone
      BY <2>3, <3>3, Zenon DEF HardwareInitOk, InitDone
    <3> QED
      BY <2>1, <2>2, <2>4, <3>1, <3>2, <3>3, Zenon DEF Load, wcfxs_initialize, create_proc_read_entry,
         bfsi_sport_init, HardwareInitFails, UnregisterFree, DetectSelect, DetectRead,
         DetectLedSelect, DetectLedWrite
  <2>5. ASSUME NEW c \in Cards, RegAccess(c) \/ wcfxs_set_led \/ UNCHANGED bus
        PROVE  UNCHANGED <<kind, early>>
    BY <2>5, Zenon DEF RegAccess, wcfxs_set_led, bus
  <2>6. ASSUME NEW c \in Cards, Interrupt(c) PROVE Installed'
    BY <2>3, <2>5, <2>6, Zenon DEF Interrupt, regular_interrupt_processing
  <2>7. ASSUME NEW c \in Cards, Drive(c) PROVE Installed'
    BY <2>3, <2>5, <2>7 DEF Drive, life
  <2>8. ASSUME NEW c \in Cards, ReadProc(c) PROVE Installed'
    <3>1. ~early' => ~early
      BY <2>8, Zenon DEF ReadProc, wcfxs_proc_read, wcfxs_proc_read_freed
    <3>2. UNCHANGED <<kind, cardflag>>
      BY <2>8 DEF ReadProc, wcfxs_proc_read, wcfxs_proc_read_freed, life
    <3> QED
      BY <2>3, <3>1, <3>2
  <2>9. CASE UNCHANGED bus /\ UNCHANGED cardflag
    BY <2>3, <2>9 DEF bus
  <2> QED
    BY <1>2, <2>4, <2>6, <2>7, <2>8, <2>9, Zenon
    DEF Next, vars, life, wcfxs_open, wcfxs_close, wcfxs_cleanup, ReleaseFree
<1> QED
  BY <1>1, <1>2, BusInvariance, PTL DEF Spec

-----------------------------------------------------------------------------
(* The three exceptions for early reads are one exception.                   *)

\* A step is not a read of /proc/wcfxs during detection or through a freed structure.
Unread == \A c \in Cards : ReadProc(c) => wc = "live" /\ ~Detecting

\* What the driver promises when nobody reads too soon: every byte reaches the chip it
\* is meant for, every card is found to be what it is, and only chips are installed.
Undisturbed ==
  /\ got = want
  /\ ~Detecting => \A c \in Cards : port_type[c] = TypeOf(kind[c])
  /\ \A c \in cardflag : kind[c] # "-"

\* wcfxs_proc_read, before the end of detection or after a failed load, is the only way
\* in which __wcfxs_setcard, fx_auto_detect or wcfxs_hardware_init go wrong: polls, open
\* channels, LEDs, failed loads and reloads do no harm in any order.
THEOREM UnreadUndisturbed == Spec /\ [][Unread]_vars => []Undisturbed
<1>1. Init => ~early
  BY DEF Init, BusInit
<1>2. ASSUME BusIInv, ~early, [Next]_vars, [Unread]_vars PROVE ~early'
  <2>1. CASE Reload
    BY <2>1 DEF Reload
  <2>2. CASE UNCHANGED early
    BY <1>2, <2>2
  <2>3. ASSUME NEW c \in Cards, ReadProc(c), ~UNCHANGED vars PROVE ~early'
    <3>1. wc = "live" /\ ~Detecting
      BY <1>2, <2>3, Zenon DEF Unread
    <3> QED
      BY <1>2, <2>3, <3>1, Zenon DEF ReadProc, wcfxs_proc_read
  <2>4. CASE UNCHANGED vars
    BY <2>2, <2>4, Zenon DEF vars, bus
  <2>5. CASE Load
    BY <2>1, <2>2, <2>5, Zenon DEF Load, bus, RegAccess, InitDone, DetectSelect, DetectRead,
       DetectLedSelect, DetectLedWrite
  <2>6. ASSUME NEW c \in Cards, Interrupt(c) \/ Drive(c) PROVE ~early'
    BY <2>2, <2>6, Zenon DEF Interrupt, Drive, RegAccess, wcfxs_set_led, bus
  <2>7. CASE UNCHANGED bus
    BY <2>2, <2>7, Zenon DEF bus
  <2> QED
    BY <1>2, <2>3, <2>4, <2>5, <2>6, <2>7, Zenon DEF Next
<1>3. ~early /\ AccessHits /\ Detected /\ Installed => Undisturbed
  BY Zenon DEF AccessHits, Detected, Installed, Undisturbed
<1> QED
  BY <1>1, <1>2, <1>3, BusInvariance, AccessHitsHolds, DetectedHolds, InstalledHolds, PTL DEF Spec
=============================================================================
