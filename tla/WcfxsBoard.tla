----------------------------- MODULE WcfxsBoard ------------------------------
(***************************************************************************)
(* The wcfxs driver on its board: its life and the register bus together.  *)
(* Detection and set-up are part of loading, interrupts poll cards over    *)
(* the bus, an open channel drives its card, and /proc/wcfxs, which exists *)
(* from before detection until the module is removed, reads every card.    *)
(***************************************************************************)
EXTENDS WcfxsLife, WcfxsBus

vars == <<life, bus>>

-----------------------------------------------------------------------------
\* A broken variant: the kind is not asked for again.
answers_any(card) == TRUE

\* Set-up succeeds only on a chip of the kind it is for: wcfxs_init_voicedaa and
\* wcfxs_init_proslic first read registers that tell.  The latch may answer anything.
answers(card) ==
  mux' = Leds \/ TypeOf(kind[mux']) = IF port_type[card] = "O" THEN "O" ELSE "S"

\* Loading.  bfsi_sport_init may sleep, so that others run before detection.
Load ==
  \/ wcfxs_init_one /\ Reload
  \/ wcfxs_initialize /\ UNCHANGED bus
  \/ create_proc_read_entry /\ UNCHANGED bus
  \/ bfsi_sport_init /\ UNCHANGED bus
  \/ /\ pc = "cards" /\ UNCHANGED life
     /\ DetectSelect \/ DetectRead \/ DetectLedSelect \/ DetectLedWrite
  \/ \E c \in Cards :
       /\ stage = "configure" /\ InitCard(c) /\ RegAccess(c)
       /\ c \in cardflag' => answers(c)
  \/ stage = "configure" /\ HardwareInitFails /\ UNCHANGED bus
  \/ UnregisterFree /\ UNCHANGED bus
  \/ HardwareInitOk /\ InitDone

\* An interrupt polls a card, which may change the LEDs, or no card.
Interrupt(c) ==
  /\ regular_interrupt_processing(c)
  /\ IF Polls(c) THEN RegAccess(c) \/ wcfxs_set_led ELSE UNCHANGED bus

\* zaptel drives the cards of open channels: wcfxs_hooksig, wcfxs_ioctl.
Drive(c) ==
  /\ usecount > 0 /\ c \in cardflag
  /\ RegAccess(c) \/ wcfxs_set_led
  /\ UNCHANGED life

ReadProc(c) ==
  /\ proc
  /\ IF wc = "live" THEN wcfxs_proc_read(c) ELSE wcfxs_proc_read_freed(c)
  /\ UNCHANGED life

Init == LifeInit /\ BusInit

Next ==
  \/ Load
  \/ \E c \in Cards : Interrupt(c) \/ Drive(c) \/ ReadProc(c)
  \/ (\E c \in Cards : wcfxs_open(c)) /\ UNCHANGED bus
  \/ (wcfxs_close \/ wcfxs_cleanup \/ ReleaseFree) /\ UNCHANGED bus

Spec == Init /\ [][Next]_vars

-----------------------------------------------------------------------------
\* wcfxs_hardware_init marks as installed, and so lets interrupts poll and channels
\* open, only cards that carry a chip, unless /proc/wcfxs was read during detection.
Installed == ~early => \A c \in cardflag : kind[c] # "-"
=============================================================================
