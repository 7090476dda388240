---------------------------- MODULE WcfxsProslic ----------------------------
(***************************************************************************)
(* wcfxs_init_proslic (src/src/wcfxs.c) for one FXS card: in full when the *)
(* driver is loaded, where wcfxs_hardware_init tries it a second time if   *)
(* the first fails, and in its fast form from the interrupt handler, each  *)
(* time the phone goes off hook, when the module parameter robust is set.  *)
(*                                                                         *)
(* The calibration vector is 12 bytes, three words of the union wc->mod;   *)
(* fxo.polaritydebounce[] starts at the same place in that union, so the   *)
(* polls of some FXO cards write to the same words.                        *)
(***************************************************************************)
EXTENDS Integers

CONSTANTS NUM_CARDS, robust

ASSUME ProslicAssumption == NUM_CARDS \in Nat \ {0} /\ robust \in BOOLEAN

Cards == 0 .. NUM_CARDS - 1
Words == 0 .. 2                 \* NUM_CAL_REGS bytes, four to a word

\* Both arrays follow eight arrays of NUM_CARDS words.
CalWord(c, w) == 8 * NUM_CARDS + 3 * c + w
PolarityWord(i) == 8 * NUM_CARDS + i

VARIABLES
  card, modtype,    \* the card, and which of the others are "FXO"
  pc,               \* the next step of wcfxs_init_proslic
  attempt,          \* "first" (sane = 0), "second" (sane = 1) or "fast" (in the interrupt)
  reg14,            \* the converter: "down" or "up"
  linefeed,         \* register 64: 0 or 1
  filters,          \* indirect registers 35 to 39: "reset", "table" or "clear"
  tmp,              \* what was saved of them
  chip,             \* direct registers 96 to 107, by words of four
  calregs,          \* wc->mod.fxs.calregs[card], by words
  cardflag,         \* the bit of this card
  init_ok           \* wcfxs_init_ok

layout == <<card, modtype>>
proslicvars == <<layout, pc, attempt, reg14, linefeed, filters, tmp, chip, calregs, cardflag, init_ok>>

Aliases(w) == {i \in Cards : modtype[i] = "FXO" /\ PolarityWord(i) = CalWord(card, w)}

-----------------------------------------------------------------------------
\* A broken variant: a failure is tried again however often it fails.
ReturnsRetry(res) ==
  /\ cardflag' = (cardflag \/ res = 0)
  /\ IF res = -1
     THEN pc' = "begin" /\ attempt' = "second" /\ UNCHANGED init_ok
     ELSE pc' = "idle" /\ init_ok' = TRUE /\ UNCHANGED attempt

\* wcfxs_init_proslic returns: 0, -1, or -2 when the chip is not there.
\* wcfxs_hardware_init then tries again or goes on to the other cards, after which
\* interrupts poll; the interrupt handler ignores the result.
Returns(res) ==
  /\ cardflag' = (cardflag \/ res = 0)
  /\ IF res = -1 /\ attempt = "first"
     THEN pc' = "begin" /\ attempt' = "second" /\ UNCHANGED init_ok
     ELSE pc' = "idle" /\ init_ok' = TRUE /\ UNCHANGED attempt

Goes(step) == pc' = step /\ UNCHANGED <<attempt, cardflag, init_ok>>

\* The sanity check, and for a chip known to be sane the converter is turned off.
Begin ==
  /\ pc = "begin"
  /\ \/ attempt = "first" /\ Returns(-2) /\ UNCHANGED reg14
     \/ attempt = "first" /\ Goes("indirect") /\ UNCHANGED reg14
     \/ attempt # "first" /\ Goes("indirect") /\ reg14' = "down"
  /\ UNCHANGED <<layout, linefeed, filters, tmp, chip, calregs>>

\* A broken variant: only the first call loads the table.
IndirectOnce == IF attempt = "first" THEN "table" ELSE filters

Indirect == "table"

\* wcfxs_proslic_init_indirect_regs; __wait_access never reports a failure.
InitIndirect ==
  /\ pc = "indirect"
  /\ filters' = Indirect
  /\ Goes("flush")
  /\ UNCHANGED <<layout, reg14, linefeed, tmp, chip, calregs>>

Flush ==
  /\ pc = "flush"
  /\ tmp' = filters
  /\ filters' = "clear"
  /\ Goes("powerup")
  /\ UNCHANGED <<layout, reg14, linefeed, chip, calregs>>

\* wcfxs_powerup_proslic: the fast form does not wait for the voltage.
\* A broken variant: it waits all the same.
AfterPowerUpWaits == "vbat"

AfterPowerUp == IF attempt = "fast" THEN "restore" ELSE "vbat"

PowerUp ==
  /\ pc \in {"powerup", "powerup2"}
  /\ reg14' = "up"
  /\ Goes(IF pc = "powerup" THEN AfterPowerUp ELSE "vbat2")
  /\ UNCHANGED <<layout, linefeed, filters, tmp, chip, calregs>>

\* It waits until the voltage is up, at most half a second.
WaitVbat ==
  /\ pc \in {"vbat", "vbat2"}
  /\ \/ Goes(IF pc = "vbat" THEN "leak" ELSE "calibrate")
     \/ Returns(-1)
  /\ UNCHANGED <<layout, reg14, linefeed, filters, tmp, chip, calregs>>

\* A broken variant: the power is not turned on again.
AfterLeakStaysDown == "calibrate"

AfterLeak == "powerup2"

\* wcfxs_proslic_powerleak_test turns everything off and waits; a leak is only logged.
PowerLeakTest ==
  /\ pc = "leak"
  /\ linefeed' = 0 /\ reg14' = "down"
  /\ Goes(AfterLeak)
  /\ UNCHANGED <<layout, filters, tmp, chip, calregs>>

\* wcfxs_proslic_manual_calibrate, at most twice, each bounded by a timeout; the
\* registers that hold the vector are scratch while it runs.  "cal" is what they hold
\* when it returns 0: its last step, the longitudinal balance, is started and not
\* waited for.
Calibrate ==
  /\ pc \in {"calibrate", "calibrate2"}
  /\ linefeed' = 0
  /\ \/ Goes("save") /\ chip' = [w \in Words |-> "cal"]
     \/ /\ chip' = [w \in Words |-> "scratch"]
        /\ IF pc = "calibrate" THEN Goes("calibrate2") ELSE Returns(-1)
  /\ UNCHANGED <<layout, reg14, filters, tmp, calregs>>

\* DC-DC calibration, which may change register 107, comes before the save.
SaveCal ==
  /\ pc = "save"
  /\ calregs' = chip
  /\ Goes("filters")
  /\ UNCHANGED <<layout, reg14, linefeed, filters, tmp, chip>>

\* A broken variant: one word less is restored.
RestoredShort == [w \in Words |-> IF w = 2 THEN "reset" ELSE calregs[w]]

Restored == calregs

RestoreCal ==
  /\ pc = "restore"
  /\ chip' = Restored
  /\ Goes("filters")
  /\ UNCHANGED <<layout, reg14, linefeed, filters, tmp, calregs>>

RestoreFilters ==
  /\ pc = "filters"
  /\ filters' = tmp
  /\ Goes("verify")
  /\ UNCHANGED <<layout, reg14, linefeed, tmp, chip, calregs>>

\* wcfxs_proslic_verify_indirect_regs reads the table back: what was written may not
\* have been stored.  The table clears 35 but not 36 to 39: filters left clear fail.
Verified == IF filters = "table" THEN BOOLEAN ELSE {FALSE}

Verify ==
  /\ pc = "verify"
  /\ \E ok \in Verified : IF ok THEN Goes("program") ELSE Returns(-1)
  /\ UNCHANGED <<layout, reg14, linefeed, filters, tmp, chip, calregs>>

\* Companding, time slots and the rest, last the line feed.
Program ==
  /\ pc = "program"
  /\ linefeed' = 1
  /\ Returns(0)
  /\ UNCHANGED <<layout, reg14, filters, tmp, chip, calregs>>

-----------------------------------------------------------------------------
\* The interrupt handler polls the FXO cards, which counts their polarity debounce,
\* and under robust sets up the FXS card again when its phone goes off hook.
voicedaa_check_polarity(w) ==
  /\ init_ok /\ pc = "idle"
  /\ Aliases(w) # {}
  /\ calregs' = [calregs EXCEPT ![w] = "counter"]
  /\ UNCHANGED <<layout, pc, attempt, reg14, linefeed, filters, tmp, chip, cardflag, init_ok>>

GoesOffHook ==
  /\ init_ok /\ pc = "idle" /\ cardflag /\ robust
  /\ attempt' = "fast"
  /\ pc' = "begin"
  /\ UNCHANGED <<layout, reg14, linefeed, filters, tmp, chip, calregs, cardflag, init_ok>>

ProslicInit ==
  /\ modtype \in [Cards -> {"FXS", "FXO"}]
  /\ card \in {c \in Cards : modtype[c] = "FXS"}
  /\ pc = "begin" /\ attempt = "first"
  /\ reg14 = "down" /\ linefeed = 0
  /\ filters = "reset" /\ tmp = "reset"
  /\ chip = [w \in Words |-> "reset"] /\ calregs = [w \in Words |-> "reset"]
  /\ cardflag = FALSE /\ init_ok = FALSE

ProslicNext ==
  \/ Begin \/ InitIndirect \/ Flush \/ PowerUp \/ WaitVbat \/ PowerLeakTest
  \/ Calibrate \/ SaveCal \/ RestoreCal \/ RestoreFilters \/ Verify \/ Program
  \/ \E w \in Words : voicedaa_check_polarity(w)
  \/ GoesOffHook

ProslicSpec == ProslicInit /\ [][ProslicNext]_proslicvars
ProslicFairSpec == ProslicSpec /\ WF_proslicvars(ProslicNext)

-----------------------------------------------------------------------------
Steps == {"idle", "begin", "indirect", "flush", "powerup", "vbat", "leak", "powerup2",
          "vbat2", "calibrate", "calibrate2", "save", "restore", "filters", "verify", "program"}

CalValues == {"reset", "scratch", "cal", "counter"}

\* The type of the state of the chip and of the driver.
ProslicTypeOK ==
  /\ modtype \in [Cards -> {"FXS", "FXO"}] /\ card \in Cards
  /\ pc \in Steps /\ attempt \in {"first", "second", "fast"}
  /\ reg14 \in {"down", "up"} /\ linefeed \in {0, 1}
  /\ filters \in {"reset", "table", "clear"} /\ tmp \in {"reset", "table", "clear"}
  /\ chip \in [Words -> CalValues] /\ calregs \in [Words -> CalValues]
  /\ cardflag \in BOOLEAN /\ init_ok \in BOOLEAN

\* The fast form runs in the interrupt handler, where jiffies stand still: it never
\* gets to a loop that waits for them (vbat, leakage, calibration).
NoWaitInInterrupt ==
  attempt = "fast" => pc \notin {"vbat", "leak", "vbat2", "calibrate", "calibrate2"}

\* "Calibration complete, restore original values": what is put back into the filters
\* is the table, also at a second attempt, although a failed one returns with the
\* filters cleared and the second saves what it finds.
FiltersBack == pc \in {"verify", "program"} => filters = "table"

\* A card that wcfxs_hardware_init installed, at the first or the second attempt, is
\* powered, feeds its line and is calibrated.
SetUp ==
  (pc = "idle" /\ cardflag /\ attempt # "fast") =>
     /\ reg14 = "up" /\ linefeed = 1 /\ filters = "table"
     /\ \A w \in Words : chip[w] = "cal"

\* "Restore calibration registers": once a card is set up its chip holds the vector
\* found by calibration whenever wcfxs_init_proslic is not running.
CalRestored == (pc = "idle" /\ cardflag) => \A w \in Words : chip[w] = "cal"

\* The same for the words of the vector that no FXO card shares.
CalRestoredUnshared ==
  (pc = "idle" /\ cardflag) => \A w \in Words : Aliases(w) = {} => chip[w] = "cal"

\* wcfxs_init_proslic always returns, whichever of its waits time out.
InitReturns == []<>(pc = "idle")
=============================================================================
