--------------------------- MODULE WcfxsFxsProofs ---------------------------
(***************************************************************************)
(* The FXS card: safety of one port in service for any number of settling  *)
(* polls, with and without robust and lowpower; then of its set-up, for    *)
(* any number of cards, fitted in any way.                                 *)
(***************************************************************************)
EXTENDS WcfxsFxs, WcfxsProslic, TLAPS

\* The readings counted and the ones still missing make up a full run.
FullRun == debounce > 0 => same + debounce = Polls + 1

\* The value the ioctl is about to write is current unless a signal came since.
ArgCurrent == oht = "write" /\ ~astray => arg = lasttxhook

IInv == TypeOK /\ HookReported /\ RegAgrees /\ FullRun /\ ArgCurrent

\* What a signal leaves in lasttxhook is a state of the part.
LEMMA TxHookType ==
  ASSUME TypeOK, NEW sig \in Sigs, NEW txsig \in TxSigs
  PROVE  TxHook(sig, txsig) \in Feed
  BY DEF TypeOK, TxHook, Feed, Sigs, TxSigs

LEMMA InitIInv == Init => IInv
  <1> SUFFICES ASSUME Init PROVE IInv
    OBVIOUS
  <1>1. TypeOK
    <2>1. /\ debounce \in 0 .. Polls /\ same \in 0 .. Polls + 1
          /\ lasttxhook \in Feed /\ reg64 \in Feed /\ arg \in Feed
      BY FxsAssumption DEF Init, Feed
    <2> QED
      BY <2>1 DEF Init, TypeOK
  <1> QED
    BY <1>1 DEF Init, IInv, HookReported, RegAgrees, FullRun, ArgCurrent

\* A hook signal from zaptel keeps the transmit side of the invariant.
LEMMA HooksigTx ==
  ASSUME IInv, NEW sig \in Sigs, NEW txsig \in TxSigs, hooksig(sig, txsig),
         UNCHANGED <<oht, arg>>
  PROVE  /\ lasttxhook' \in Feed /\ reg64' = lasttxhook'
         /\ idletxhookstate' \in {1, 2} /\ led' \in {"red", "green"}
         /\ astray' \in BOOLEAN
         /\ RegAgrees' /\ ArgCurrent'
  <1>1. lasttxhook' \in Feed
    BY TxHookType DEF hooksig, IInv
  <1> QED
    BY <1>1, Zenon DEF hooksig, Led, IInv, TypeOK, RegAgrees, ArgCurrent

\* The receive side of a poll.
LEMMA PollRx ==
  ASSUME IInv, wcfxs_proslic_check_hook
  PROVE  /\ debounce' \in 0 .. Polls /\ same' \in 0 .. Polls + 1
         /\ debouncehook' \in {0, 1} /\ oldrxhook' \in {0, 1} /\ lastrxhook' \in {0, 1}
         /\ rxsig' \in {"none", "OFFHOOK", "ONHOOK"}
         /\ HookReported' /\ FullRun'
         /\ oldrxhook' # oldrxhook => same' = Polls + 1 /\ oldrxhook' = loop
  <1> USE FxsAssumption DEF IInv, wcfxs_proslic_check_hook
  <1>1. debounce' \in 0 .. Polls /\ same' \in 0 .. Polls + 1
    BY DEF TypeOK, Count, Counting
  <1>2. /\ debouncehook' \in {0, 1} /\ oldrxhook' \in {0, 1} /\ lastrxhook' \in {0, 1}
        /\ rxsig' \in {"none", "OFFHOOK", "ONHOOK"}
    BY DEF TypeOK, Debounced, OldHook
  <1>3. HookReported'
    BY DEF TypeOK, HookReported, Debounced, OldHook, GoesOff, GoesOn, Settles
  <1>4. FullRun'
    BY DEF TypeOK, FullRun, Count, Counting
  <1>5. ASSUME oldrxhook' # oldrxhook PROVE Settles /\ oldrxhook' = loop
    BY <1>5 DEF TypeOK, HookReported, Debounced, OldHook, GoesOff, GoesOn
  <1>6. Settles => same' = Polls + 1
    BY DEF TypeOK, FullRun, Settles, Counting
  <1> QED
    BY <1>1, <1>2, <1>3, <1>4, <1>5, <1>6

\* The transmit side of a poll: nothing, zaptel's reaction or a new set-up.
LEMMA PollTx ==
  ASSUME IInv, wcfxs_proslic_check_hook
  PROVE  /\ lasttxhook' \in Feed /\ reg64' \in Feed
         /\ idletxhookstate' \in {1, 2} /\ led' \in {"red", "green"}
         /\ astray' \in BOOLEAN
         /\ RegAgrees' /\ ArgCurrent'
  <1>0. UNCHANGED <<oht, arg>>
    BY DEF wcfxs_proslic_check_hook
  <1>1. CASE UNCHANGED tx
    BY <1>0, <1>1 DEF tx, IInv, TypeOK, RegAgrees, ArgCurrent
  <1>2. CASE hooksig("FXOKS", "OFFHOOK")
    <2>1. "FXOKS" \in Sigs /\ "OFFHOOK" \in TxSigs
      BY DEF Sigs, TxSigs
    <2> QED
      BY <1>0, <1>2, <2>1, HooksigTx
  <1>3. CASE reinit
    BY <1>0, <1>3 DEF reinit, IInv, TypeOK, RegAgrees, ArgCurrent, Feed
  <1>4. CASE /\ idletxhookstate' = 1
             /\ lasttxhook' = idletxhookstate
             /\ reg64' \in {1, idletxhookstate}
             /\ led' = "green"
             /\ astray' = TRUE
    BY <1>0, <1>4 DEF IInv, TypeOK, RegAgrees, ArgCurrent, Feed
  <1> QED
    BY <1>1, <1>2, <1>3, <1>4, Zenon DEF wcfxs_proslic_check_hook, Answered

LEMMA StepIInv == IInv /\ [Next]_vars => IInv'
  <1> SUFFICES ASSUME IInv, [Next]_vars PROVE IInv'
    OBVIOUS
  <1>1. CASE wcfxs_proslic_check_hook
    <2>1. loop' = loop /\ oht' = oht /\ arg' = arg
      BY <1>1, Zenon DEF wcfxs_proslic_check_hook
    <2>2. TypeOK'
      BY <1>1, <2>1, PollRx, PollTx DEF IInv, TypeOK, Feed
    <2> QED
      BY <1>1, <2>2, PollRx, PollTx DEF IInv
  <1>2. ASSUME NEW sig \in Sigs, NEW txsig \in TxSigs, wcfxs_hooksig(sig, txsig)
        PROVE  IInv'
    <2>1. hooksig(sig, txsig) /\ UNCHANGED <<oht, arg>> /\ UNCHANGED <<loop, rx>>
      BY <1>2 DEF wcfxs_hooksig
    <2>2. /\ lasttxhook' \in Feed /\ reg64' = lasttxhook'
          /\ idletxhookstate' \in {1, 2} /\ led' \in {"red", "green"}
          /\ astray' \in BOOLEAN
          /\ RegAgrees' /\ ArgCurrent'
      BY <2>1, HooksigTx
    <2>3. TypeOK'
      BY <2>1, <2>2, Zenon DEF IInv, TypeOK, rx, Feed
    <2> QED
      BY <2>1, <2>2, <2>3 DEF IInv, HookReported, FullRun, rx
  <1>3. CASE ONHOOKTRANSFER
    <2> USE <1>3 DEF IInv, TypeOK, HookReported, RegAgrees, FullRun, ArgCurrent, rx, tx,
                Feed
    <2>1. CASE oht_idle
      BY <2>1, Zenon DEF oht_idle
    <2>2. CASE oht_test
      BY <2>2, Zenon DEF oht_test
    <2>3. CASE oht_apply
      BY <2>3 DEF oht_apply
    <2>4. CASE oht_read
      BY <2>4, Zenon DEF oht_read
    <2>5. CASE oht_write
      BY <2>5 DEF oht_write
    <2> QED
      BY <2>1, <2>2, <2>3, <2>4, <2>5, Zenon DEF ONHOOKTRANSFER
  <1>4. CASE wcfxs_close
    BY <1>4 DEF wcfxs_close, IInv, TypeOK, HookReported, RegAgrees, FullRun,
                ArgCurrent, rx
  <1>5. CASE HookMoves
    BY <1>5 DEF HookMoves, IInv, TypeOK, HookReported, RegAgrees, FullRun,
                ArgCurrent, rx, tx
  <1>6. CASE UNCHANGED vars
    BY <1>6 DEF vars, IInv, TypeOK, HookReported, RegAgrees, FullRun,
                ArgCurrent, rx, tx
  <1> QED
    BY <1>1, <1>2, <1>3, <1>4, <1>5, <1>6 DEF Next

\* The strengthened invariant holds in every reachable state.
THEOREM Inductive == Spec => []IInv
  BY InitIInv, StepIInv, PTL DEF Spec

\* The fields of an FXS port keep to the values the driver gives them.
THEOREM TypeCorrect == Spec => []TypeOK
  <1>1. IInv => TypeOK
    BY DEF IInv
  <1> QED
    BY <1>1, Inductive, PTL

\* Every change wcfxs_proslic_check_hook settles on is reported, once.
THEOREM HookReportedHolds == Spec => []HookReported
  <1>1. IInv => HookReported
    BY DEF IInv
  <1> QED
    BY <1>1, Inductive, PTL

\* Whatever the interleaving of polls, signals and the ioctl, register 64 strays
\* from lasttxhook only in the two ways RegAgrees excepts.
THEOREM RegAgreesHolds == Spec => []RegAgrees
  <1>1. IInv => RegAgrees
    BY DEF IInv
  <1> QED
    BY <1>1, Inductive, PTL

\* No report without a full run of equal readings.
THEOREM HookDebouncedHolds == Spec => HookDebounced
  <1> DEFINE A == oldrxhook' # oldrxhook => same' = Polls + 1 /\ oldrxhook' = loop
  <1>1. IInv /\ [Next]_vars => [A]_vars
    <2> SUFFICES ASSUME IInv, Next PROVE A
      OBVIOUS
    <2>1. CASE wcfxs_proslic_check_hook
      BY <2>1, PollRx
    <2>2. CASE UNCHANGED oldrxhook
      BY <2>2
    <2> QED
      BY <2>1, <2>2 DEF Next, wcfxs_hooksig, ONHOOKTRANSFER, oht_idle, oht_test,
         oht_apply, oht_read, oht_write, wcfxs_close, HookMoves, rx
  <1> QED
    BY <1>1, Inductive, PTL DEF Spec, HookDebounced

\* With the counter at zero the driver has taken the last reading over.
Rested == debounce = 0 => oldrxhook = lastrxhook

\* Once Polls + 1 readings in a row were equal, the hook state the driver acts on is
\* the one they showed: wcfxs_proslic_check_hook is never later than that.
HookSettled == same = Polls + 1 => oldrxhook = lastrxhook

\* The bound behind HookNoticed: a phone that stays as it is for Polls + 1 polls is
\* seen as it is, whatever the bounces before and whatever zaptel and the ioctl do.
THEOREM HookSettledHolds == Spec => []HookSettled
  <1>1. Init => Rested
    BY DEF Init, Rested
  <1>2. ASSUME IInv, Rested, [Next]_vars PROVE Rested'
    <2>1. CASE wcfxs_proslic_check_hook
      <3>1. /\ debounce' = Count /\ oldrxhook' = OldHook /\ lastrxhook' = loop
            /\ debouncehook' = Debounced
        BY <2>1, Zenon DEF wcfxs_proslic_check_hook
      <3>2. HookReported' /\ debounce \in 0 .. Polls /\ loop \in {0, 1}
        BY <1>2, <2>1, PollRx, Zenon DEF IInv, TypeOK
      <3>3. CASE Counting
        BY <3>1, <3>2, <3>3 DEF Rested, Count, Counting, Settles, Debounced, HookReported
      <3>4. CASE ~Counting
        BY <1>2, <3>1, <3>2, <3>4, FxsAssumption
        DEF Rested, Count, Counting, OldHook, GoesOff, GoesOn
      <3> QED
        BY <3>3, <3>4
    <2>2. CASE UNCHANGED rx
      BY <1>2, <2>2, Zenon DEF Rested, rx
    <2> QED
      BY <1>2, <2>1, <2>2, Zenon
      DEF Next, vars, wcfxs_hooksig, ONHOOKTRANSFER, oht_idle, oht_test, oht_apply,
          oht_read, oht_write, wcfxs_close, HookMoves
  <1>3. IInv /\ Rested => HookSettled
    BY FxsAssumption DEF IInv, TypeOK, FullRun, Rested, HookSettled
  <1> QED
    BY <1>1, <1>2, <1>3, Inductive, PTL DEF Spec

-----------------------------------------------------------------------------
(* The ioctl under the lock.  The source takes none, and a signal that falls *)
(* between the ioctl's statements refutes AppliedIfAppropriate.              *)

\* The same steps, with the feed changed by nobody else while the ioctl runs.
FeedKept == lasttxhook' = lasttxhook /\ reg64' = reg64
LockedNext == Next /\ (oht # "none" => ONHOOKTRANSFER \/ FeedKept)

\* A chip that rings was told to; the ioctl goes on from the state it has tested.
Undisturbed ==
  /\ reg64 = 4 => lasttxhook = 4
  /\ oht = "apply" => lasttxhook = 1
  /\ oht = "read" => lasttxhook = 2
  /\ oht = "write" => arg = 2 /\ lasttxhook = 2

\* Every step under the lock keeps Undisturbed.
LEMMA LockedKeeps ==
  ASSUME Undisturbed, [LockedNext]_vars
  PROVE  Undisturbed'
  <1>1. CASE ONHOOKTRANSFER
    BY <1>1 DEF Undisturbed, ONHOOKTRANSFER, oht_idle, oht_test, oht_apply, oht_read,
                oht_write, tx
  <1>2. CASE FeedKept /\ UNCHANGED <<oht, arg>>
    BY <1>2, Zenon DEF FeedKept, Undisturbed
  <1>3. CASE oht = "none" /\ UNCHANGED <<oht, arg>> /\ (reg64' = 4 => lasttxhook' = 4)
    BY <1>3 DEF Undisturbed
  <1>4. ASSUME NEW sig \in Sigs, NEW txsig \in TxSigs, hooksig(sig, txsig)
        PROVE  reg64' = 4 => lasttxhook' = 4
    BY <1>4, Zenon DEF hooksig
  <1>5. ASSUME NEW sig \in Sigs, NEW txsig \in TxSigs, wcfxs_hooksig(sig, txsig)
        PROVE  Undisturbed'
    <2>1. UNCHANGED <<oht, arg>> /\ (reg64' = 4 => lasttxhook' = 4)
      BY <1>4, <1>5, Zenon DEF wcfxs_hooksig
    <2>2. oht = "none" \/ FeedKept \/ ONHOOKTRANSFER
      BY DEF LockedNext, FeedKept, vars, tx
    <2> QED
      BY <1>1, <1>2, <1>3, <2>1, <2>2, Zenon
  <1>6. CASE wcfxs_proslic_check_hook
    <2>1. UNCHANGED <<oht, arg>>
      BY <1>6, Zenon DEF wcfxs_proslic_check_hook
    <2>2. CASE Answered /\ ~FeedKept
      <3>1. "FXOKS" \in Sigs /\ "OFFHOOK" \in TxSigs
        BY DEF Sigs, TxSigs
      <3>2. reg64' = 4 => lasttxhook' = 4
        BY <1>4, <2>2, <3>1 DEF Answered, reinit, Undisturbed, FeedKept, tx
      <3> QED
        BY <1>1, <1>3, <2>1, <2>2, <3>2 DEF LockedNext, FeedKept, vars, tx
    <2> QED
      BY <1>2, <1>6, <2>1, <2>2, Zenon DEF wcfxs_proslic_check_hook, FeedKept, tx
  <1>7. CASE wcfxs_close
    BY <1>7 DEF wcfxs_close, Undisturbed
  <1>8. CASE HookMoves
    BY <1>2, <1>8, Zenon DEF HookMoves, FeedKept, tx
  <1>9. CASE UNCHANGED vars
    BY <1>2, <1>9, Zenon DEF vars, FeedKept, tx
  <1> QED
    BY <1>1, <1>5, <1>6, <1>7, <1>8, <1>9, Zenon DEF LockedNext, Next

\* If ZT_ONHOOKTRANSFER held the channel's lock, interrupts off, as zaptel does when
\* it calls wcfxs_hooksig, the ioctl would never end a ringing: a change of the feed
\* between its statements is the only way to the violation.
THEOREM LockedApplies == Init /\ [][LockedNext]_vars => AppliedIfAppropriate
  <1>1. Init => Undisturbed
    BY DEF Init, Undisturbed
  <1>2. Undisturbed /\ [LockedNext]_vars => [oht_write => reg64 # 4]_vars
    BY DEF Undisturbed, oht_write
  <1> QED
    BY <1>1, <1>2, LockedKeeps, PTL DEF AppliedIfAppropriate

-----------------------------------------------------------------------------
(* The set-up.  The argument follows the steps of wcfxs_init_proslic: the    *)
(* table is loaded before the filters are saved, so what is put back is the  *)
(* table; the vector is saved from a calibrated chip; and from then on only  *)
(* an FXO card that shares a word changes what was saved.                    *)

Waits == {"vbat", "leak", "vbat2", "calibrate", "calibrate2", "powerup2", "save"}

\* What holds at each step of wcfxs_init_proslic.
Along ==
  /\ pc = "flush" => filters = "table"
  /\ pc \notin {"idle", "begin", "indirect", "flush"} => tmp = "table"
  /\ pc \in {"verify", "program"} => filters = "table"
  /\ attempt = "fast" => pc \notin Waits /\ cardflag /\ init_ok
  /\ pc = "restore" => attempt = "fast"
  /\ attempt # "fast" /\ pc # "idle" => ~cardflag /\ ~init_ok
  /\ pc \in {"vbat2", "calibrate", "calibrate2", "save"} => reg14 = "up"
  /\ pc \in {"restore", "filters", "verify", "program"} => reg14 = "up"
  /\ pc = "save" => \A w \in Words : chip[w] = "cal"

\* The saved vector is the calibrated one, but for the words an FXO card shares.
Kept ==
  (cardflag \/ pc \in {"filters", "verify", "program"}) =>
     \A w \in Words : Aliases(w) = {} => calregs[w] = "cal" /\ chip[w] = "cal"

\* Until the first interrupt nothing shared has been written.
Fresh ==
  attempt # "fast" /\ (cardflag \/ pc \in {"filters", "verify", "program"}) =>
     \A w \in Words : chip[w] = "cal"

PInv == ProslicTypeOK /\ NoWaitInInterrupt /\ FiltersBack /\ SetUp /\ CalRestoredUnshared
        /\ Along /\ Kept /\ Fresh

\* The initial states satisfy the invariant.
LEMMA InitPInv == ProslicInit => PInv
<1> SUFFICES ASSUME ProslicInit PROVE PInv
  OBVIOUS
<1>1. pc = "begin" /\ attempt = "first" /\ ~cardflag /\ ~init_ok
  BY DEF ProslicInit
<1>2. ProslicTypeOK
  BY Zenon DEF ProslicInit, ProslicTypeOK, Steps, CalValues
<1>3. NoWaitInInterrupt /\ FiltersBack /\ SetUp /\ CalRestoredUnshared /\ Along /\ Kept /\ Fresh
  BY <1>1 DEF NoWaitInInterrupt, FiltersBack, SetUp, CalRestoredUnshared, Along, Kept, Fresh
<1> QED
  BY <1>2, <1>3 DEF PInv

\* What a failing return does: it keeps the card's bit, and either starts the second
\* attempt or ends the call.
LEMMA Fails ==
  ASSUME ProslicTypeOK, NEW res \in {-1, -2}, Returns(res)
  PROVE  /\ cardflag' = cardflag
         /\ \/ pc' = "begin" /\ attempt = "first" /\ attempt' = "second" /\ init_ok' = init_ok
            \/ /\ pc' = "idle" /\ attempt' = attempt
               /\ init_ok' /\ init_ok' \in BOOLEAN
<1>1. res # 0
  OBVIOUS
<1>2. cardflag' = cardflag
  BY <1>1, ZenonT(40) DEF Returns, ProslicTypeOK
<1> QED
  BY <1>2, Zenon DEF Returns

\* Every step preserves the invariant.
LEMMA StepPInv ==
  ASSUME PInv, [ProslicNext]_proslicvars
  PROVE  PInv'
<1> USE DEF PInv, ProslicTypeOK, NoWaitInInterrupt, FiltersBack, SetUp, CalRestoredUnshared,
            Along, Kept, Fresh, Waits, Steps, CalValues, layout, Goes
<1>0. UNCHANGED layout /\ \A w \in Words : Aliases(w)' = Aliases(w)
  <2>1. UNCHANGED layout
    BY Zenon DEF ProslicNext, proslicvars, Begin, InitIndirect, Flush, PowerUp, WaitVbat,
       PowerLeakTest, Calibrate, SaveCal, RestoreCal, RestoreFilters, Verify, Program,
       voicedaa_check_polarity, GoesOffHook
  <2> QED
    BY <2>1, Zenon DEF Aliases
<1> USE <1>0
<1>1. CASE Begin
  <2>1. CASE attempt = "first" /\ Returns(-2) /\ UNCHANGED reg14
    BY <1>1, <2>1, Fails, Zenon DEF Begin
  <2>2. CASE Goes("indirect")
    BY <1>1, <2>2 DEF Begin
  <2> QED
    BY <1>1, <2>1, <2>2, Zenon DEF Begin
<1>2. CASE InitIndirect
  BY <1>2, Zenon DEF InitIndirect, Indirect
<1>3. CASE Flush
  BY <1>3, Zenon DEF Flush
<1>4. CASE PowerUp
  BY <1>4, Zenon DEF PowerUp, AfterPowerUp
<1>5. CASE WaitVbat
  <2>1. CASE Goes(IF pc = "vbat" THEN "leak" ELSE "calibrate")
    BY <1>5, <2>1, Zenon DEF WaitVbat
  <2>2. CASE Returns(-1)
    BY <1>5, <2>2, Fails, Zenon DEF WaitVbat
  <2> QED
    BY <1>5, <2>1, <2>2, Zenon DEF WaitVbat
<1>6. CASE PowerLeakTest
  BY <1>6, Zenon DEF PowerLeakTest, AfterLeak
<1>7. CASE Calibrate
  <2>1. CASE Goes("save") /\ chip' = [w \in Words |-> "cal"]
    BY <1>7, <2>1, Zenon DEF Calibrate
  <2>2. CASE Goes("calibrate2") /\ chip' = [w \in Words |-> "scratch"]
    BY <1>7, <2>2, Zenon DEF Calibrate
  <2>3. CASE Returns(-1) /\ chip' = [w \in Words |-> "scratch"]
    BY <1>7, <2>3, Fails, Zenon DEF Calibrate
  <2> QED
    BY <1>7, <2>1, <2>2, <2>3, Zenon DEF Calibrate
<1>8. CASE SaveCal
  BY <1>8, Zenon DEF SaveCal
<1>9. CASE RestoreCal
  BY <1>9, Zenon DEF RestoreCal, Restored
<1>10. CASE RestoreFilters
  BY <1>10, Zenon DEF RestoreFilters
<1>11. CASE Verify
  <2>1. CASE Goes("program")
    BY <1>11, <2>1, Zenon DEF Verify
  <2>2. CASE Returns(-1)
    BY <1>11, <2>2, Fails, Zenon DEF Verify
  <2> QED
    BY <1>11, <2>1, <2>2, Zenon DEF Verify
<1>12. CASE Program
  BY <1>12 DEF Program, Returns
<1>13. ASSUME NEW w \in Words, voicedaa_check_polarity(w) PROVE PInv'
  BY <1>13 DEF voicedaa_check_polarity
<1>14. CASE GoesOffHook
  BY <1>14, Zenon DEF GoesOffHook
<1>15. CASE UNCHANGED proslicvars
  BY <1>15 DEF proslicvars
<1> QED
  BY <1>1, <1>2, <1>3, <1>4, <1>5, <1>6, <1>7, <1>8, <1>9, <1>10, <1>11, <1>12, <1>13, <1>14, <1>15, Zenon
  DEF ProslicNext

\* PInv is an invariant of wcfxs_init_proslic and its callers.
THEOREM ProslicInductive == ProslicSpec => []PInv
  BY InitPInv, StepPInv, PTL DEF ProslicSpec

\* The form that runs in the interrupt handler never waits for jiffies.
THEOREM NoWaitHolds == ProslicSpec => []NoWaitInInterrupt
  BY ProslicInductive, PTL DEF PInv

\* The filters get the values of the table back, at any attempt.
THEOREM FiltersBackHolds == ProslicSpec => []FiltersBack
  BY ProslicInductive, PTL DEF PInv

\* An installed card is powered, feeds its line and is calibrated.
THEOREM SetUpHolds == ProslicSpec => []SetUp
  BY ProslicInductive, PTL DEF PInv

\* Calibration survives the fast form, but for the words an FXO card shares.
THEOREM CalRestoredHolds == ProslicSpec => []CalRestoredUnshared
  BY ProslicInductive, PTL DEF PInv

\* No FXO card writes its polarity counter into the words where the card's vector
\* starts: as the two arrays lie, that takes FXO cards 3 * card to 3 * card + 2.
Apart == \A i \in Cards : i \in 3 * card .. 3 * card + 2 => modtype[i] = "FXS"

\* Where "Restore calibration registers" does what it says: without robust, and on
\* boards where no FXO card shares a word of this card's vector.
CalWhere == ~robust \/ Apart => CalRestored

\* The aliasing of calregs and polaritydebounce is the only way CalRestored fails: it
\* takes robust and an FXO card at 3 * card, 3 * card + 1 or 3 * card + 2, hence a
\* card in the first third of the board.
THEOREM CalWhereHolds == ProslicSpec => []CalWhere
<1>1. PInv /\ Apart => CalRestored
  <2> SUFFICES ASSUME PInv, Apart, NEW w \in Words PROVE Aliases(w) = {}
    BY Zenon DEF PInv, CalRestoredUnshared, CalRestored
  <2>1. card \in Nat /\ NUM_CARDS \in Nat /\ w \in 0 .. 2
    BY ProslicAssumption DEF PInv, ProslicTypeOK, Cards, Words
  <2>2. ASSUME NEW i \in Cards, PolarityWord(i) = CalWord(card, w)
        PROVE  modtype[i] # "FXO"
    <3>1. i \in 3 * card .. 3 * card + 2
      BY <2>1, <2>2 DEF PolarityWord, CalWord, Cards
    <3> QED
      BY <3>1 DEF Apart
  <2> QED
    BY <2>2, Zenon DEF Aliases
<1> DEFINE Slow == robust \/ attempt # "fast"
<1>2. ProslicInit => Slow
  BY DEF ProslicInit
<1>3. ASSUME Slow, [ProslicNext]_proslicvars PROVE Slow'
  BY <1>3, Zenon DEF ProslicNext, proslicvars, Begin, InitIndirect, Flush, PowerUp, WaitVbat,
     PowerLeakTest, Calibrate, SaveCal, RestoreCal, RestoreFilters, Verify, Program,
     voicedaa_check_polarity, GoesOffHook, Returns, Goes
<1>4. PInv /\ ~robust /\ Slow => CalRestored
  BY DEF PInv, SetUp, CalRestored
<1>5. PInv /\ Slow => CalWhere
  BY <1>1, <1>4 DEF CalWhere
<1> QED
  BY <1>2, <1>3, <1>5, ProslicInductive, PTL DEF ProslicSpec

\* The steps a call of wcfxs_init_proslic can still take, at most: the longest path
\* from each step, and a whole second attempt while the first runs.
Rank ==
  [idle |-> 0, program |-> 1, verify |-> 2, filters |-> 3, restore |-> 4, save |-> 4,
   calibrate2 |-> 5, calibrate |-> 6, vbat2 |-> 7, powerup2 |-> 8, leak |-> 9,
   vbat |-> 10, powerup |-> 11, flush |-> 12, indirect |-> 13, begin |-> 14]

Left == Rank[pc] + IF attempt = "first" /\ pc # "idle" THEN 14 ELSE 0

\* Every step of wcfxs_init_proslic brings its return nearer, whichever waits time
\* out and whatever calibration and verification find.
InitBounded == [][pc # "idle" => Left' < Left]_proslicvars

\* A call returns within 28 steps, a second attempt included: there is no way round
\* the calibrations, the retries and the verification that comes back.
THEOREM InitBoundedHolds == ProslicSpec => [](Left \in 0 .. 28) /\ InitBounded
<1>0. PInv => pc \in Steps /\ attempt \in {"first", "second", "fast"}
  BY Zenon DEF PInv, ProslicTypeOK
<1>1. PInv => Left \in 0 .. 28
  BY <1>0, SMTT(30) DEF Steps, Left, Rank
<1>2. ASSUME PInv, ProslicNext, pc # "idle" PROVE Left' < Left
  <2>0. pc \in Steps \ {"idle"} /\ attempt \in {"first", "second", "fast"}
    BY <1>0, <1>2, Zenon
  <2> USE <2>0 DEF Steps, Left, Rank, Goes
  <2>r. ASSUME NEW res \in {-1, -2}, Returns(res) PROVE Left' < Left
    BY <2>r, SMTT(30) DEF Returns
  <2>1. CASE Begin
    BY <2>1, <2>r, SMTT(30) DEF Begin
  <2>2. CASE InitIndirect \/ Flush \/ PowerLeakTest \/ SaveCal \/ RestoreCal \/ RestoreFilters
    BY <2>2, SMTT(30) DEF InitIndirect, Flush, PowerLeakTest, AfterLeak, SaveCal, RestoreCal, RestoreFilters
  <2>3. CASE PowerUp
    BY <2>3, SMTT(30) DEF PowerUp, AfterPowerUp
  <2>4. CASE WaitVbat
    BY <2>4, <2>r, SMTT(30) DEF WaitVbat
  <2>5. CASE Calibrate
    BY <2>5, <2>r, SMTT(30) DEF Calibrate
  <2>6. CASE Verify
    BY <2>6, <2>r, SMTT(30) DEF Verify
  <2>7. CASE Program
    BY <2>7, SMTT(30) DEF Program, Returns
  <2> QED
    BY <1>2, <2>1, <2>2, <2>3, <2>4, <2>5, <2>6, <2>7, SMTT(30)
    DEF ProslicNext, voicedaa_check_polarity, GoesOffHook
<1>3. PInv /\ [ProslicNext]_proslicvars => [pc # "idle" => Left' < Left]_proslicvars
  BY <1>2
<1> QED
  BY <1>1, <1>3, ProslicInductive, PTL DEF ProslicSpec, InitBounded
=============================================================================
