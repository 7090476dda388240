------------------------------ MODULE WcfxsFxs ------------------------------
(***************************************************************************)
(* One FXS port (a telephone) of src/src/wcfxs.c: the interrupt handler    *)
(* polls the hook switch and debounces it, zaptel drives the line feed     *)
(* (register 64 of the chip) through wcfxs_hooksig, and a process changes  *)
(* the idle state of the feed by the ZT_ONHOOKTRANSFER ioctl.              *)
(*                                                                         *)
(* A poll runs in the interrupt handler, and wcfxs_hooksig under the       *)
(* channel's lock with interrupts off: each is one step.  The ioctl holds  *)
(* no lock except inside wcfxs_setreg, so the other two fall between its   *)
(* statements.  Values of register 64: 0 open, 1 active, 2 on-hook         *)
(* transmission, 3 ground start, 4 ringing, 5 reversed.                    *)
(***************************************************************************)
EXTENDS Naturals

CONSTANT
  Polls       \* 8 * (4 * 8) / (4 * ZT_CHUNKSIZE): equal readings that settle

ASSUME FxsAssumption == Polls \in Nat \ {0}

VARIABLES
  loop,                                \* the telephone: 1 is off hook
  lastrxhook, debounce,                \* debounce counts polls
  debouncehook, oldrxhook,
  rxsig,                               \* last signal reported by zt_hooksig
  idletxhookstate, lasttxhook, reg64,
  led,
  oht, arg,                            \* where the ioctl is, and the value it has
                                       \* read to pass to wcfxs_setreg
  same,                                \* history: equal readings in a row
  astray                               \* history: register 64 was written without
                                       \* lasttxhook, or from a stale copy of it

rx == <<lastrxhook, debounce, debouncehook, oldrxhook, rxsig, same>>
tx == <<idletxhookstate, lasttxhook, reg64, led, astray>>
vars == <<loop, rx, tx, oht, arg>>

\* FXOLS is treated as FXOKS.
Sigs == {"EM", "FXOKS", "FXOGS", "other"}
TxSigs == {"ONHOOK", "OFFHOOK", "START", "KEWL", "other"}

-----------------------------------------------------------------------------
\* The new lasttxhook.
TxHook(sig, txsig) ==
  CASE txsig = "ONHOOK" ->
         IF sig \in {"EM", "FXOKS"} THEN idletxhookstate
         ELSE IF sig = "FXOGS" THEN 3 ELSE lasttxhook
    [] txsig = "OFFHOOK" -> IF sig = "EM" THEN 5 ELSE idletxhookstate
    [] txsig = "START" -> 4
    [] txsig = "KEWL" -> 0
    [] OTHER -> lasttxhook

Led(txsig) ==
  IF txsig \in {"ONHOOK", "OFFHOOK"} THEN "green"
  ELSE IF txsig = "START" THEN "red" ELSE led

\* A broken variant: the chip is written only if the state has changed.
hooksig_if_changed(sig, txsig) ==
  /\ lasttxhook' = TxHook(sig, txsig)
  /\ reg64' = IF lasttxhook' # lasttxhook THEN lasttxhook' ELSE reg64
  /\ led' = Led(txsig)
  /\ astray' = (oht = "write")
  /\ UNCHANGED idletxhookstate

hooksig(sig, txsig) ==
  /\ lasttxhook' = TxHook(sig, txsig)
  /\ reg64' = lasttxhook'
  /\ led' = Led(txsig)
  /\ astray' = (oht = "write")
  /\ UNCHANGED idletxhookstate

\* zaptel calls the driver, from a system call or from its timers.
wcfxs_hooksig(sig, txsig) ==
  /\ hooksig(sig, txsig)
  /\ UNCHANGED <<loop, rx, oht, arg>>

-----------------------------------------------------------------------------
\* A broken variant: the last count is never made.
CountingAboveOne == loop = lastrxhook /\ debounce > 1

\* The poll up to the report.  The counter is loaded when the reading differs from
\* the last one and counts down while it does not.
Counting == loop = lastrxhook /\ debounce > 0

\* A broken variant: settles one reading early.
SettlesEarly == Counting /\ debounce <= 2

Settles == Counting /\ debounce = 1

Debounced == IF Settles THEN loop ELSE debouncehook

GoesOff == Counting /\ oldrxhook = 0 /\ Debounced = 1
GoesOn == Counting /\ oldrxhook = 1 /\ Debounced = 0

\* A broken variant: only a phone that is picked up is remembered.
OldHookNotReset == IF GoesOff THEN 1 ELSE oldrxhook

OldHook == IF GoesOff THEN 1 ELSE IF GoesOn THEN 0 ELSE oldrxhook

Count ==
  IF loop # lastrxhook THEN Polls
  ELSE IF Counting THEN debounce - 1 ELSE debounce

\* wcfxs_init_proslic(wc, card, 1, 0, 1): the part is set up again and left active,
\* unless its indirect registers fail verification.
reinit ==
  /\ idletxhookstate' = 1
  /\ reg64' \in {1, reg64}
  /\ astray' = TRUE
  /\ UNCHANGED <<lasttxhook, led>>

\* zaptel, told OFFHOOK, may stop the ringing before zt_hooksig returns; if the
\* module parameter robust is set, which root may do at any time, the part is
\* initialised after that.
Answered ==
  \/ UNCHANGED tx
  \/ hooksig("FXOKS", "OFFHOOK")
  \/ reinit
  \/ /\ idletxhookstate' = 1
     /\ lasttxhook' = idletxhookstate
     /\ reg64' \in {1, idletxhookstate}
     /\ led' = "green"
     /\ astray' = TRUE

wcfxs_proslic_check_hook ==
  /\ debounce' = Count
  /\ debouncehook' = Debounced
  /\ oldrxhook' = OldHook
  /\ rxsig' = IF GoesOff THEN "OFFHOOK" ELSE IF GoesOn THEN "ONHOOK" ELSE rxsig
  /\ lastrxhook' = loop
  /\ same' = IF loop # lastrxhook THEN 1 ELSE IF same <= Polls THEN same + 1 ELSE same
  /\ IF GoesOff THEN Answered ELSE UNCHANGED tx
  /\ UNCHANGED <<loop, oht, arg>>

-----------------------------------------------------------------------------
\* ZT_ONHOOKTRANSFER, statement by statement.  With the module parameter
\* lowpower at 2 the feed is left alone, which is no step.
oht_idle ==
  /\ oht = "none"
  /\ idletxhookstate' = 2
  /\ oht' = "test"
  /\ UNCHANGED <<loop, rx, lasttxhook, reg64, led, astray, arg>>

oht_test ==
  /\ oht = "test"
  /\ oht' = IF lasttxhook = 1 THEN "apply" ELSE "none"
  /\ UNCHANGED <<loop, rx, tx, arg>>

oht_apply ==
  /\ oht = "apply"
  /\ lasttxhook' = 2
  /\ oht' = "read"
  /\ UNCHANGED <<loop, rx, idletxhookstate, reg64, led, astray, arg>>

oht_read ==
  /\ oht = "read"
  /\ arg' = lasttxhook
  /\ oht' = "write"
  /\ UNCHANGED <<loop, rx, tx>>

\* A write that found no signal since the read puts the register right.
oht_write ==
  /\ oht = "write"
  /\ reg64' = arg
  /\ arg' = 0
  /\ oht' = "none"
  /\ UNCHANGED <<loop, rx, idletxhookstate, lasttxhook, led, astray>>

ONHOOKTRANSFER == oht_idle \/ oht_test \/ oht_apply \/ oht_read \/ oht_write

\* The feed keeps its state; the next ONHOOK will find the idle state active.
wcfxs_close ==
  /\ idletxhookstate' = 1
  /\ UNCHANGED <<loop, rx, lasttxhook, reg64, led, astray, oht, arg>>

HookMoves ==
  /\ loop' = 1 - loop
  /\ UNCHANGED <<rx, tx, oht, arg>>
-----------------------------------------------------------------------------
\* After wcfxs_init_proslic: the structure was cleared, the part is active.
Init ==
  /\ loop \in {0, 1}
  /\ lastrxhook = 0 /\ debounce = 0 /\ debouncehook = 0 /\ oldrxhook = 0
  /\ rxsig = "none"
  /\ idletxhookstate = 1 /\ lasttxhook = 0 /\ reg64 = 1
  /\ led = "green"
  /\ oht = "none" /\ arg = 0
  /\ same = 0 /\ astray = TRUE

Next ==
  \/ wcfxs_proslic_check_hook
  \/ \E sig \in Sigs, txsig \in TxSigs : wcfxs_hooksig(sig, txsig)
  \/ ONHOOKTRANSFER
  \/ wcfxs_close
  \/ HookMoves

Spec == Init /\ [][Next]_vars

\* The handler runs every millisecond and polls the cards in turn.
FairSpec == Spec /\ WF_vars(wcfxs_proslic_check_hook)

-----------------------------------------------------------------------------
Feed == 0 .. 5

\* Every field holds one of the values the driver gives it; register 64 is written
\* only with states of the part.
TypeOK ==
  /\ loop \in {0, 1} /\ lastrxhook \in {0, 1}
  /\ debouncehook \in {0, 1} /\ oldrxhook \in {0, 1}
  /\ debounce \in 0 .. Polls /\ same \in 0 .. Polls + 1
  /\ rxsig \in {"none", "OFFHOOK", "ONHOOK"}
  /\ idletxhookstate \in {1, 2}
  /\ lasttxhook \in Feed /\ reg64 \in Feed /\ arg \in Feed
  /\ led \in {"red", "green"}
  /\ oht \in {"none", "test", "apply", "read", "write"}
  /\ astray \in BOOLEAN

\* The hook state the driver goes on from is the one it has settled on and the one
\* it has told zaptel of: no settled change goes unreported, none is reported twice.
HookReported ==
  /\ oldrxhook = debouncehook
  /\ oldrxhook = 1 <=> rxsig = "OFFHOOK"

\* A change of the hook is reported only after Polls + 1 equal readings in a row,
\* and the state reported is the one they showed.
HookDebounced ==
  [][oldrxhook' # oldrxhook => same' = Polls + 1 /\ oldrxhook' = loop]_vars

\* But for wcfxs_init_proslic, and for a signal that falls between the ioctl's
\* reading of lasttxhook and its wcfxs_setreg, register 64 holds lasttxhook
\* whenever the ioctl is not about to write it.
RegAgrees ==
  oht \in {"none", "test", "apply"} /\ ~astray => reg64 = lasttxhook

\* wcfxs_proslic_check_hook in the end sees a phone that stays off hook, or on hook,
\* as it is.
HookNoticed == \A h \in {0, 1} : <>[](loop = h) => <>[](oldrxhook = h)

\* "Apply the change if appropriate": the ioctl leaves register 64 alone while the
\* port is ringing, so that it never ends a ringing zaptel has started.
AppliedIfAppropriate == [][oht_write => reg64 # 4]_vars
=============================================================================
