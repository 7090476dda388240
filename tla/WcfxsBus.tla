------------------------------ MODULE WcfxsBus ------------------------------
(***************************************************************************)
(* The register bus of the board (src/src/wcfxs.c and src/src/fx.c).  All  *)
(* chips and the latch of the LEDs sit behind one multiplexer; a byte sent *)
(* with chip select NCSB moves it, bytes with NCSA go to whatever it       *)
(* selects.  The driver remembers in wc->curcard the chip it selected last *)
(* and saves the byte to NCSB when it wants the same one again.            *)
(*                                                                         *)
(* wcfxs_getreg, wcfxs_setreg, the indirect accesses and wcfxs_set_led     *)
(* hold wc->lock with interrupts off: each is one step.  fx_auto_detect    *)
(* runs before the chips are set up and takes no lock, while /proc/wcfxs   *)
(* already exists: a reader may run while bfsi_sport_init sleeps for       *)
(* memory.  On the boards' kernels, which do not preempt themselves, that  *)
(* is the only moment; the model lets a reader in at every step of         *)
(* detection, as a kernel that does would.                                 *)
(***************************************************************************)
EXTENDS WcfxsCards

Kinds == {"O", "S3210", "S3215", "-"}   \* FXO, the two FXS chips, nothing

\* What fx_auto_detect probes for, in order.
Probes == <<"O", "S3210", "S3215">>

VARIABLES
  kind,         \* kind[c]: the chip on card c
  mux,          \* a card, or Leds
  curcard,      \* a card, or -1
  stage,        \* what wcfxs_hardware_init is doing
  port, probe,  \* the card and the probe fx_auto_detect is at
  port_type,    \* what it has found
  want, got,    \* history: where the last byte was meant to go, and where it went
  early         \* history: /proc/wcfxs was read before the end of detection, or
                \* through a structure that had been freed

bus == <<kind, mux, curcard, stage, port, probe, port_type, want, got, early>>

Leds == -2
None == -1

Detecting == stage \in {"select", "read", "led", "ledwrite"}

Sent(w) == want' = w /\ got' = mux'

-----------------------------------------------------------------------------
__wcfxs_setcard(card) ==
  /\ mux' = IF curcard = card THEN mux ELSE card
  /\ curcard' = card

\* wcfxs_getreg, wcfxs_setreg and the indirect accesses: from wcfxs_init_proslic and
\* wcfxs_init_voicedaa, then from the interrupt handler, zaptel and the ioctls.
RegAccess(card) ==
  /\ stage \in {"configure", "up"}
  /\ __wcfxs_setcard(card)
  /\ Sent(card)
  /\ UNCHANGED <<kind, stage, port, probe, port_type, early>>

\* /proc/wcfxs reads register 64 of the first four cards: one lock section each, in
\* the order in which the compiler evaluates the arguments of sprintf.
wcfxs_proc_read(card) ==
  /\ __wcfxs_setcard(card)
  /\ Sent(card)
  /\ early' = (early \/ Detecting)
  /\ UNCHANGED <<kind, stage, port, probe, port_type>>

\* The same through a structure that has been freed: what stands in its memory decides
\* whether the multiplexer moves.
wcfxs_proc_read_freed(card) ==
  /\ mux' \in {mux, card}
  /\ Sent(card)
  /\ early' = TRUE
  /\ UNCHANGED <<kind, curcard, stage, port, probe, port_type>>

\* A broken variant: the LEDs leave the current card as it was.
set_led_keeps ==
  /\ stage \in {"configure", "up"}
  /\ mux' = Leds
  /\ Sent(Leds)
  /\ UNCHANGED <<kind, curcard, stage, port, probe, port_type, early>>

wcfxs_set_led ==
  /\ stage \in {"configure", "up"}
  /\ mux' = Leds
  /\ curcard' = None
  /\ Sent(Leds)
  /\ UNCHANGED <<kind, stage, port, probe, port_type, early>>

-----------------------------------------------------------------------------
\* fx_auto_detect resets the chips, selects the card and reads an identification
\* register; a match lights the card's LED.

NextPort ==
  IF port = NUM_CARDS - 1
  THEN stage' = "configure" /\ UNCHANGED <<port, probe>>
  ELSE stage' = "select" /\ port' = port + 1 /\ probe' = 1

\* A broken variant: the table on the stack, which holds nothing yet, is left so.
ClearedNot(types) == types

Cleared(types) == IF probe = 1 THEN [types EXCEPT ![port] = "-"] ELSE types

DetectSelect ==
  /\ stage = "select"
  /\ port_type' = Cleared(port_type)
  /\ mux' = port
  /\ stage' = "read"
  /\ UNCHANGED <<kind, curcard, port, probe, want, got, early>>

\* A chip answers the probe for its kind; the latch may answer anything.
Answers(p) == IF mux = Leds THEN BOOLEAN ELSE {kind[mux] = p}

DetectRead ==
  /\ stage = "read"
  /\ want' = port /\ got' = mux
  /\ \E yes \in Answers(Probes[probe]) :
       \/ /\ yes
          /\ port_type' = [port_type EXCEPT ![port] = IF probe = 1 THEN "O" ELSE "S"]
          /\ stage' = "led"
          /\ UNCHANGED <<port, probe>>
       \/ /\ ~yes /\ probe < 3
          /\ probe' = probe + 1
          /\ stage' = "select"
          /\ UNCHANGED <<port, port_type>>
       \/ /\ ~yes /\ probe = 3
          /\ NextPort
          /\ UNCHANGED port_type
  /\ UNCHANGED <<kind, mux, curcard, early>>

\* fx_set_led, called without the lock and without clearing curcard.
DetectLedSelect ==
  /\ stage = "led"
  /\ mux' = Leds
  /\ stage' = "ledwrite"
  /\ UNCHANGED <<kind, curcard, port, probe, port_type, want, got, early>>

DetectLedWrite ==
  /\ stage = "ledwrite"
  /\ want' = Leds /\ got' = mux
  /\ NextPort
  /\ UNCHANGED <<kind, mux, curcard, port_type, early>>

\* The cards have been set up; interrupts now poll them.
InitDone ==
  /\ stage = "configure"
  /\ stage' = "up"
  /\ UNCHANGED <<kind, mux, curcard, port, probe, port_type, want, got, early>>

\* The driver is loaded again, with a new structure.
Reload ==
  /\ curcard' = None
  /\ stage' = "select" /\ port' = 0 /\ probe' = 1
  /\ port_type' = [c \in Cards |-> "?"]
  /\ want' = None /\ got' = None
  /\ early' = FALSE
  /\ UNCHANGED <<kind, mux>>

-----------------------------------------------------------------------------
BusInit ==
  /\ kind \in [Cards -> Kinds]
  /\ mux \in Cards \cup {Leds}
  /\ curcard = None
  /\ stage = "select" /\ port = 0 /\ probe = 1
  /\ port_type = [c \in Cards |-> "?"]
  /\ want = None /\ got = None
  /\ early = FALSE

BusNext ==
  \/ \E card \in Cards :
       RegAccess(card) \/ wcfxs_proc_read(card) \/ wcfxs_proc_read_freed(card)
  \/ wcfxs_set_led
  \/ DetectSelect \/ DetectRead \/ DetectLedSelect \/ DetectLedWrite
  \/ InitDone \/ Reload

BusSpec == BusInit /\ [][BusNext]_bus

-----------------------------------------------------------------------------
\* The type of the state: the driver's curcard, the board's multiplexer, and detection.
BusTypeOK ==
  /\ kind \in [Cards -> Kinds]
  /\ mux \in Cards \cup {Leds}
  /\ curcard \in Cards \cup {None}
  /\ stage \in {"select", "read", "led", "ledwrite", "configure", "up"}
  /\ port \in Cards /\ probe \in 1 .. 3
  /\ port_type \in [Cards -> {"?", "O", "S", "-"}]
  /\ want \in Cards \cup {Leds, None} /\ got \in Cards \cup {Leds, None}
  /\ early \in BOOLEAN

\* __wcfxs_setcard: unless /proc/wcfxs was read during detection, every access goes
\* where it was meant to go.  None meant for one chip reaches another or the LEDs,
\* although most do not move the multiplexer.
AccessHits == ~early => got = want

\* The letter that stands for a chip in port_type.
TypeOf(k) == IF k = "O" THEN "O" ELSE IF k = "-" THEN "-" ELSE "S"

\* fx_auto_detect: when detection is over, and /proc/wcfxs was not read during it,
\* every card has been found to be what it is.
Detected ==
  ~early /\ ~Detecting => \A c \in Cards : port_type[c] = TypeOf(kind[c])
=============================================================================
