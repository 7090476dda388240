# Verification of the BAPS2 drivers

BAPS2 builds an Asterisk PBX for Blackfin boards (IP01, IP04, IP08). Most of the
repository is packaging: makefiles, patches and vendored programs. Its own code is
a set of kernel drivers for the telephony ports, the allocator of the on-chip
memory they use, a watchdog daemon, some Asterisk modules, and the package manager
that runs on the board. This directory holds TLA+ models of that code, TLC
configurations that check them on small instances, and TLAPS proofs that hold for
every instance.

Line numbers below are those of the files under `src/`.

## 1. Inventory

| Part | Source | State | Operations | What is hard |
|---|---|---|---|---|
| L1 SRAM bank | `src/blackfin_sram.c` | table of slots: address, size, flag | alloc, alloc_max, free | emptied slots keep their address; a split with no slot left; order of merges |
| L1 SRAM banks, lists | same | three banks, `sram_list` per mm | alloc and free with a list, data alloc and free | fallback over several lock sections; a piece is freed before its node is unlinked |
| Serial port | `src/bfsi.c` | two ping-pong buffers, DMA addresses, statistics | init, close, interrupt handler, two /proc writes | handler races two DMA channels; lost interrupts; wrapping counters; failure half way |
| FXO port | `src/wcfxs.c` 792-921 | three debounce counters, last signal | poll, hook signal | two halves of a poll report to zaptel; counters tested for zero only |
| FXS port | `src/wcfxs.c` 923-975, 1633-1667, 1750-1850 | hook debounce, line feed, idle state | poll, hook signal, on-hook transfer ioctl, close | the ioctl takes no lock and races zaptel's timers |
| Register bus | `src/wcfxs.c`, `src/fx.c` | multiplexer, `curcard` | register access, LEDs, /proc/wcfxs, detection | a cache of a hardware position; detection bypasses it |
| ProSLIC set-up | `src/wcfxs.c` 1453-1631 | chip registers, saved filters, calibration vector | 12 steps, retry, fast form in the interrupt | waits in an interrupt; retry over a half-set chip; a union shared by two kinds of card |
| Driver life | `src/wcfxs.c` 992-1030, 1726-1766, 1918-2136 | structure, span, /proc entry, interrupts, use count | load, fail, interrupt, open, close, unload | interrupts begin half way through loading; every step may fail |
| GSM port | `src/zaptel-gsm/gsm_module.c`, `wcfxs.c`, `zaptel-base.c-1.4.9.2` | two call states (globals), FIFO of modem replies, signalling state and timers | `wcfxs_gsm_control` in the interrupt, hook signals, zaptel timers, `init_GSM` | one pair of call states for all channels; replies carry no name of the command they answer; timers race system calls |
| zaptel channel | `src/zaptel-gsm/zaptel-base.c-1.4.9.2` | two buffer rings, policies, events, sleepers | read, write, iomux, sync, flush, hang-up, buffer sizes, open, close, interrupt | a test with interrupts off and a sleep with them on; copies without the lock; resets under sleepers |
| ipkg | `scripts/ipkg` | status file, info directory, files | install with dependences, upgrade, remove | power failure between two steps; the round that makes no progress |
| Watchdog | `src/procwatch.c` | online and valid per process | find processes, feed, flush the cache | processes come and go during the scan |
| Call records | `src/cdr_sqlite3.c` | database handle, registration | load, log with retries, unload | unload closes before it unregisters |
| Codecs | `src/codec_g729.c`, `src/codec_speex.c` | sample buffer | frame in, frame out | bounds of the buffer between frames |
| Rest | makefiles, scripts, `src/squid-2.7.STABLE9`, PHP libraries, tools | - | - | build descriptions, vendored or straight-line code |

How the parts interact: loading the `wcfxs` driver registers a span with zaptel,
creates /proc/wcfxs, opens the serial port (which takes its buffers from bank A of
the L1 memory and starts the interrupts), detects the cards over the register bus
and sets each of them up. From then on each interrupt hands a chunk of samples to
zaptel, polls one card, and reports hook, ring and battery changes. zaptel signals
to the ports from system calls and from its timers, which run in the same
interrupt. Programs read and write a channel through zaptel's two rings of buffers,
whose other ends the interrupt fills and empties. On the GSM board a port is a modem
behind a UART: the interrupt reads its result codes, hook signals send it commands,
and two global call states tie the two together.

## 2. Modules

| Module | Models | State and actions |
|---|---|---|
| `Sram` | one bank | `paddr`, `size`, `flag` are the fields of `struct l1_sram_piece`. `l1_sram_alloc`, `l1_sram_alloc_max`, `l1_sram_free` and their failing forms are the `_l1_...` functions, each one section under the bank's lock |
| `SramAbstract` | what a caller of a bank may rely on | the set of blocks held, and the last result |
| `SramBanks` | `sram_alloc_with_lsl`, `sram_free_with_lsl`, `sram_free`, `l1_data_sram_alloc`, `l1_data_sram_free` | three instances of `SramAbstract`, and a program counter, arguments and list for each caller; one action per lock section |
| `Bfsi` | the serial port driver | `rx` is the receive address, from which the transmit address follows; `Frame` is 125 us of both channels; the handler is two actions so that frames pass during its callback, and runs as late as it likes; opening and closing are one action per stage, a write to /proc/bfsi_reset one step per counter |
| `WcfxsFxo` | one FXO port | `wcfxs_voicedaa_check_hook` is one step made of `CheckRing`, `CheckBattery`, `CheckPolarity` and `Report`; `wcfxs_hooksig`; the line changes at will |
| `WcfxsFxs` | one FXS port | `wcfxs_proslic_check_hook`, `wcfxs_hooksig` and `wcfxs_close` are one step each; `ZT_ONHOOKTRANSFER` is five, one for each access to shared state |
| `WcfxsBus` | `__wcfxs_setcard`, `wcfxs_set_led`, `wcfxs_proc_read`, `fx_auto_detect` | `mux` is where the hardware points, `curcard` what the driver remembers; an access under the lock is one step, detection is one step per byte group. `BusSpec` is the bus with any user |
| `WcfxsProslic` | `wcfxs_init_proslic` | `pc` goes through its steps, `attempt` is the first call, the retry, or the fast form in the interrupt handler; the calibration vector has the layout of the union |
| `WcfxsLife` | loading, failing, running, unloading | what exists (`wc`, `span`, `proc`, `sport`), the cards set up, the use count. `LifeSpec` is the driver on any bus |
| `WcfxsCards` | `NUM_CARDS`, `Cards` | shared by the two |
| `WcfxsBoard` | the driver on its board | composes the two: detection and set-up are steps of loading, an interrupt polls its card over the bus, an open channel drives its card, /proc/wcfxs is read while it exists, before detection and after a failed load too |
| `ZtChannel` | the buffers of one zaptel channel | the fields of `struct zt_chan` by their names; for each program where it is (`pc`) in which call (`op`). `window` is the stretch between the test of a ring and the sleep; one interrupt falls there. `__putbuf_chunk` is the interrupt that completes a received block, `__zt_getbuf_chunk` the end of a sent one, several of which may come in one interrupt; one action per system call or, where it copies or sleeps, per part of it |
| `ZtQueue` | what programs may rely on | two bounded queues; `ReadQueue`, `WriteQueue` and `Room` in `ZtChannel` are the refinement mapping |
| `Gsm` | the GSM port | zaptel's `txstate`, `rxhooksig` and timers, the two call states and the poll's statics by their names, and the modem (external). A hook signal with what the driver does in it is one step, and so is a poll |

`MC...` modules instantiate them for TLC, `...Proofs` modules hold the theorems.
`PROJECT.json` maps each definition to the lines it stands for. Definitions whose
comment begins "A broken variant" are not part of a specification: each is a
plausible mistake in the definition that follows it, and putting it in that
definition's place makes TLC refute the property it is paired with.

Variables marked "history" record what a property needs and influence nothing.

### What is abstracted

- Values the properties do not tell apart are left out: register contents other
  than the ones named, LED patterns, owner pids, messages to the log, the
  translation of register addresses on the Si3215.
- `Sram` keeps `size_t` arithmetic modulo 2^32 (`SizeMod`), `Bfsi` its statistics
  and CYCLES, from which it takes the time between two interrupts, modulo 2^32
  (`CountMod`, `CycleFrames`). `RequestAssumption` says that no caller asks for a
  size within three of 2^32; no caller in the repository does.
- `WcfxsFxs` leaves out that a poll covers one card of several: the other cards
  change nothing of this one. The module parameters `robust` and `lowpower` have
  mode 0600, so root may change them at any time: both values are possible at
  every step that reads them.
- In `WcfxsProslic` every loop that waits, bounded by a timeout in the code, is one
  step that succeeds or times out.
- The kernels of the boards are built with `CONFIG_PREEMPT_NONE=y`
  (`patch/vendors/Rowetel/IP0*/config.linux-2.6.x:105`) for one processor: between two
  steps of a system call only interrupts come, unless it sleeps. On a preempting
  kernel `wcfxs_close` (line 1757) could be interrupted between dropping the use count
  and its last access to the structure. There is no MMU, so that copies to and from
  programs do not sleep either.
- `WcfxsFxo` starts from a cleared structure. On a board with both kinds of card
  `polaritydebounce` may hold a part of a calibration vector when the first poll comes
  (finding 2). Both polarities are 0 then, so that the counter can report nothing, and
  the first strong reading loads it; no card is polled before all vectors are saved
  (`PolledReady`).
- In `WcfxsProslic` a chip is calibrated when `wcfxs_proslic_manual_calibrate` returns 0.
  The code starts the longitudinal balance calibration last (`wcfxs.c:1295`) and does not
  wait for its end; whether the chip is done when the vector is saved is not modelled.
- `ZtChannel`: a block of samples is one value. A received block is at least two chunks
  long (the smallest block size is 16, a chunk 8), so that one interrupt completes at
  most one. A written block is as long as the program made it; `Short` are those shorter
  than a chunk, and one interrupt may end a block and go through any number of short
  ones. Interrupts that complete no block change nothing the module keeps.
  `initialize_channel` takes the lock twice (2192 and 2195) and is one step: a block
  that comes in between finds empty rings and no sleepers, and the second section clears
  what it could have left behind (`rxdisable`), so that it might as well have come
  afterwards. poll and select, HDLC, PPP, network devices and slave channels are left
  out. `atrisk` is history: sleepers that no wake-up of the code provides for.
- `Gsm`: the channel is FXS kewlstart, the type the driver gives it; `FXSFLASH` and
  `RINGBEGIN` are not defined anywhere in the repository; `rxflashtime` is above 2.
  Pulse dialling and tones are left out, and so is ZT_SIGFREEZE: while a program has
  frozen the signalling `__zt_hooksig_pvt` returns at once (5730) and zaptel hears
  nothing of the port, so that what is said of hook signals (`DropTold`, `RingTold`)
  is said of a channel that is not frozen. BUSY and NO ANSWER are NO CARRIER, which the
  driver treats alike. A command and a result code are one value each; of a line end
  only one that arrives alone matters. A ring that goes on is repeated later than
  zaptel's 150 ms trailer. `slipped` is history: a code was lost or taken for another
  command's, or an FXS neighbour ended the call.

## 3. Runs

All runs but the three marked "violation" pass.

| Run | Properties | What it shows |
|---|---|---|
| `sram` | `Tiling`, `Coalesced`, `FreeFindsPiece`, `ImplementsAbstract` | the slot table never loses a byte, never leaves two free pieces side by side, a free never stops at a stale slot, and the table implements `SramAbstract` |
| `sram_banks` | `OwnedOnce`, `FreeFindsBank` | with two processes and a driver, every piece handed out has exactly one owner and every free finds its bank |
| `bfsi` | `NoTear`, `Balanced`, `BuffersOutliveDma`, `Static`, `LostIsSeen` | as long as interrupts are served within six frames of eight the callback never shares a row with a DMA channel and rows alternate as the comments say; when they are not, a lost interrupt shows in `readchunk_didntswap` or `isr_between_skip`, unless CYCLES has come round in the meantime (10.7 s); channels and handler never work on buffers that were given back |
| `fxo` | `TypeOK`, `SignalAgrees`, `PolarityTaken`, `BatteryDebounced`, `LineNoticed` | what zaptel was told agrees with the port; changes are debounced; battery, ringing and polarity that settle are in the end seen as they are |
| `fxs` | `HookReported`, `RegAgrees`, `HookDebounced`, `HookNoticed` | a settled hook is reported once, and in the end; register 64 follows `lasttxhook` outside two named windows |
| `fxs_transfer` (violation) | `AppliedIfAppropriate` | see the findings |
| `proslic` | `NoWaitInInterrupt`, `FiltersBack`, `SetUp`, `CalRestoredUnshared`, `InitReturns` | set-up, with every failure and the retry, leaves an installed card complete; the fast form does not wait; the call always returns |
| `proslic_mixed` (violation) | `CalRestored` | see the findings |
| `board` | `AccessHits`, `Detected`, `Installed`, `OutlivesUsers`, `ProcOutlivesOnlyFailure`, `PolledReady` | unless /proc/wcfxs is read before detection ends, every access reaches its chip, detection finds the cards as they are and only cards with a chip are installed; the structure outlives interrupts, span and open channels; no card is polled before all are set up |
| `zt_channel` | `RingShape`, `NoTear`, `SleepersServed`, `SleepersWake`, `ImplementsQueue` | the indices of the rings always describe them; no copy is torn; a wake-up lost between test and sleep is made good by the next block, if one interrupt cannot have sent them all; the channel is two bounded queues |
| `zt_short` (violation) | `WakeUpNotMissed` | see the findings |
| `gsm` | `OneCall`, `Agree`, `DropTold`, `RingTold` | never two calls; driver and modem agree on being in a call when nothing is on its way; the end of a call reaches the program; a call that goes on ringing is heard |

### Bounds

- `sram`: 17 bytes (four words and a byte) and four slots. A table can then run out
  of slots, a rest that is no whole word occurs, and three pieces can be freed in
  every order. Sizes are 0, 1, 4, 7 and 9. The proofs remove the bound.
- `sram_banks`: banks that lie next to each other, so that a range off by one shows;
  two processes and one driver, so that one caller's call falls into another's.
  Processes are symmetric. `VIEW` hides `ret`, which no action reads.
- `bfsi`: the real chunk size of 8 samples and the lead of 14 bytes that the comment in
  `isr_write_processing` records. `Budget` is the six frames up to which rows stay
  apart with that lead; a handler may be later, which `tardy` records. `CountMod` is 8 in
  place of 2^32, so that the counters wrap; `CycleFrames` 28 in place of some 86,000:
  more than three rows, so that a handler may be late by two rows and by more before
  CYCLES comes round. The port is opened twice (`MaxStarts`). `VIEW` hides the history
  and the time where no action and no property can read them any more.
- `fxo`: the counters are scaled down: four ringing polls fill the ring counter,
  three polls change the battery, three the polarity; the code, with its
  eight cards, has 8, 32 and 64. Each is still several polls long, and filling is faster than
  draining as in the code. The readings are dead, exactly at the threshold, and fed
  with either sign.
- `fxs`: three polls settle the hook, eight in the code; two in `fxs_transfer`.
- `proslic`: four cards fitted in every way: the smallest board on which one vector
  shares all its words, another one word, and others none.
- `board`: three cards of any kind (the one selected, the one before, and another),
  two opens at a time (`MaxOpen`). Loading may be repeated without bound.
- `zt_channel`: two buffers in each ring (`MaxBufs`), the default of zaptel: empty,
  half full and full rings, and every order of the two indices. Two different blocks,
  so that order shows, the second of them short; one event (`MaxEvents`); a program that reads or waits with
  ZT_IOMUX for a block or an empty ring, and one that writes or waits with ZT_SYNC. The
  proofs remove the bounds on buffers and programs.
- `gsm`: two result codes in the FIFO (`MaxFifo`), so that one may be lost, and one
  command on its way (`MaxCommands`).

`bfsi` and `proslic*` allow deadlock: after its last close the port may stay
closed, and a card that is not there is never touched again.

### Fairness

`fxo` and `fxs` assume weak fairness of the poll: the serial port interrupts every
millisecond, and each interrupt polls the next card. Nothing is assumed of zaptel,
the ioctl or the line. `proslic` assumes weak fairness of `Next`: every wait in
`wcfxs_init_proslic` is bounded by a timeout, so the thread that loads the driver
goes on. `zt_channel` assumes weak fairness of the two interrupts that complete a
block, for the line never stops, and of a program in the kernel that is not asleep.
`gsm` assumes it of the poll and of the ring timers, which run in every interrupt, and
of the network: a call that is neither answered nor given up goes on ringing. All
other properties are safety properties and need none.

## 4. Findings

1. `fxs_transfer`. `ZT_ONHOOKTRANSFER` tests `lasttxhook` at `wcfxs.c:1664`, stores 2
   and writes it to register 64, with no lock around the three ("Apply the change if
   appropriate"). zaptel's timers call `wcfxs_hooksig` in the interrupt; a START that
   falls in between is undone: the port was told to ring and does not.
2. `proslic_mixed`. `mod.fxs.calregs` and `mod.fxo.polaritydebounce` begin at the same
   offset of one union (`wcfxs.c:343-374`), and the first has three words for each
   card. On a board with both kinds of card the poll of FXO card `i` counts in the
   calibration vector of FXS card `i / 3`; with `robust` set, the next off hook
   writes the count to the chip ("Restore calibration registers").
   `CalRestoredUnshared` is what holds.
3. `zt_short`. `zt_chan_write` tests the ring under the lock and sleeps without it
   (`zaptel-base.c-1.4.9.2:1877`, `1884`). The comment at 5467 explains that the handler
   wakes it "EVERY time a buffer was emptied", so that no wake-up between the two is
   missed. But a write may be as short as a byte, and the loop of `__zt_getbuf_chunk`
   (5421) goes through all short blocks within one chunk: when the blocks behind the
   first are short, one interrupt in the window sends them all, all wake-ups come
   before the sleep, and the writer sleeps in front of an empty ring until an event or
   a signal. Without short blocks (`Short` empty) `WakeUpNotMissed` holds;
   `SleepersServed` and `SleepersWake` except rings that one interrupt may empty
   (`Fleeting`), and `NobodyLeftOut` assumes that there are no short blocks.

More observations are recorded as hazards.

- /proc/wcfxs exists before the detection of the cards, which moves the multiplexer
  without the lock: a reader in between makes a card current that is then no longer
  selected (`early` in `WcfxsBus`).
- The mask 0x7f in `isr_read_processing` is right only for 8 samples per chunk, the one
  value the repository uses.
- `bfsi_sport_init` does not look at the results of `l1_data_A_sram_alloc`
  (`bfsi.c:562`, `640`) and reports success with buffers at address 0.
- ZT_SYNC (`zaptel-base.c-1.4.9.2:3945`) waits for an empty ring on a queue that an empty
  ring no longer wakes. If the last block is sent between its test and its sleep it
  sleeps until an event or a signal. A reader does not have this problem, because the
  line goes on; a writer has it with short blocks only (finding 3).
- `zt_hangup` and `zt_reallocbufs` empty the rings under sleepers and wake nobody.
- `GSM_receive` returns one code for each poll and drops the rest, and the driver cannot
  tell which command a code answers; an FXS neighbour that goes on hook ends the
  driver's side of an incoming call only (`zaptel-gsm/wcfxs.c:1832`).
- A NO CARRIER that is read in the poll that gives the second signal of a ring finds no call
  state to end (`gsm_module.c:475-507`): the driver goes on to "ringing" although the
  call is over, and no property says otherwise.

## 5. Proofs

Each proof module shows that an inductive invariant holds initially and is kept by
every action, one step of the proof per action, and derives the properties from it.
`Refinement`, `RingsAreQueues` and the two theorems of implementation map each step to
a step of the abstract specification or to none.

| Module | Theorems | Inductive invariant |
|---|---|---|
| `SramProofs` | `TypeCorrect`, `TilingHolds`, `CoalescedHolds`, `FreeFindsPieceHolds`, `AllFreedIsWholeHolds`, `Refinement` | `TypeOK`, `Tiling`, `Coalesced` and `StaleBehind`: a stale address is always further down the table than a live slot with the same address, because a split takes the lowest empty slot. `FreeFindsPiece` alone is not inductive: it says nothing of addresses not allocated yet |
| `SramBanksProofs` | `OwnedOnceHolds`, `FreeFindsBankHolds`, `NoSharedByteHolds` | `OwnedOnce` with `HeldOK` (no two blocks of a bank begin at the same address), `Local` (between two lock sections a caller that frees still has a node for its address, and asks bank B only for an address of bank B) and `DataOnly` (a driver never comes by an address of the instruction bank). For `NoSharedByte`, `AllPacked`: the blocks of each bank lie one beside the other in its spare part, and the parts of two banks are disjoint |
| `BfsiProofs` | `BuffersOutliveDmaHolds`, `NoTearHolds`, `StaticHolds`, `BalancedHolds`, `LostIsSeenHolds`, `EveryRowServedHolds` | `Stages`: what runs in each stage of opening and closing, the one between the stop of the channels and the mask of the interrupt included. For `NoTear` also `Served`: while no interrupt has been tardy, where the receive address stands when an interrupt is pending or the callback runs. For `LostIsSeen`, `Counted` (the range of each variable of the statistics) and `Traced`: the row ends since the handler last ran, against the row it chose and the frames that have passed, unless CYCLES has come round. For `Static`, `Alternates`: the handler chose the same row to read and to write, and the receive channel is back in it exactly when an interrupt is pending. For `Balanced`, `Even`: the count of the row chosen last is that of the other row or one more. For `EveryRowServed`, `OneEnd`: a row has ended since the handler last ran exactly when an interrupt is pending, and the frames counted are those of one row |
| `WcfxsFxoProofs` | `TypeCorrect`, `SignalAgreesHolds`, `PolarityTakenHolds`, `BatteryDebouncedHolds`, `BatterySettledHolds`, `RingSettledHolds` | besides the properties, `WholeSteps` (the battery counter is a multiple of its step, so it meets zero) and `Accounted` (it has gone down by no more than the readings seen in a row). For `BatterySettled`, `Prompt`: it has gone down by no less |
| `WcfxsFxsProofs` | `TypeCorrect`, `HookReportedHolds`, `RegAgreesHolds`, `HookDebouncedHolds`, `HookSettledHolds`, `LockedApplies` | besides the properties, `FullRun` (readings counted and readings missing make up a full run) and `ArgCurrent` (what the ioctl is about to write is current unless a signal came). For `HookSettled`, `Rested`: a counter at zero means that the last reading was taken over |
| `WcfxsFxsProofs`, second part | `NoWaitHolds`, `FiltersBackHolds`, `SetUpHolds`, `CalRestoredHolds`, `CalWhereHolds`, `InitBoundedHolds` | for `WcfxsProslic`, `PInv`: `Along` (what holds at each step), `Kept` (the words no FXO card shares stay calibrated), `Fresh` (before the first interrupt all do). `InitBounded` needs only the types: `Left`, the steps a call can still take, goes down in every step |
| `WcfxsBoardProofs` | `BoardImplementsLife`, `BoardImplementsBus`, `AccessHitsHolds`, `DetectedHolds`, `InstalledHolds`, `OutlivesUsersHolds`, `ProcHolds`, `PolledReadyHolds`, `UnreadUndisturbed` | the two theorems of implementation carry the invariants of the parts over: `Built` (what each step of loading and unloading has built or taken down) from `LifeSpec`, `Good` and `Progress` (no card is current during an undisturbed detection, and the probes made have excluded what they excluded) from `BusSpec`. `Installed` is about both and proved of the composition |
| `ZtChannelProofs` | `ShapeHolds`, `CopiesAreWhole`, `SleepersServedHolds`, `RingsAreQueues`, `NobodyLeftOut` | besides the properties, `Alone` (one program runs in the kernel, and only in an open channel), `FullSends` (a full transmit ring is being sent) and `Window`: between its test and its sleep a reader finds at most one block come in, which cannot fill a ring of two or more, and a writer that is not `atrisk` has a block in the ring that is no shorter than a chunk and is not the first to go (`Lasting`), so that the interrupt does not get past it. `RingsAreQueues` is the refinement of `ZtQueue`: a queue is the blocks from `out` up to `in`, round the ring (`Blocks`); filling a buffer appends to it and emptying one takes its head (`BlocksPut`, `BlocksTake`), and one lemma per kind of step maps it to a step of the queues or to none |
| `GsmProofs` | `NeverTwoCalls`, `DropsAreTold`, `DriverAndModemAgree`, `RingIsReleased` | `CallStates`, `OneCall` and `Heard`: in every call state but idle zaptel's `rxhooksig` is not "on hook", without which the end of a call would be no change and not be reported. For `Agree`, `Tracked`: a code has slipped, or more codes are there or to come than the driver's state can use and the next that is read will slip (`Lost`), or what is on its way, what the modem does and the driver's call state fit (`NoCall`, `Dialled`, `Accepted`, `Answered`) |

Assumptions: the named `ASSUME` of each module (types and signs of the constants;
`RequestAssumption` for `Sram`; that `BattStep` divides `BATT_DEBOUNCE` for
`WcfxsFxo`, which is true of 4, 8 and 16 cards). `NoTearHolds`, `StaticHolds`,
`BalancedHolds` and `EveryRowServedHolds` are proved for `Timely`: 8 samples per chunk and
`Lead + 8 * Budget < 64`, a relation between the lead and the delay up to which a
handler counts as in time. They then hold as long as it is (`~tardy`), with the
debugging files; `Balanced` excepts a port whose counters were reset (`wiped`).
`LostIsSeenHolds` needs only the 8 samples per chunk.

Some theorems go beyond the properties of the runs.

- What a debounce costs. `HookDebounced` and `BatteryDebounced` say that a change is not
  taken too soon; `HookSettledHolds`, `BatterySettledHolds` and `RingSettledHolds` say
  that it is not taken too late: after that many equal readings it has been. With the
  poll's fairness this is the argument for `HookNoticed` and `LineNoticed`, and a bound
  in polls, which those do not give. `InitBoundedHolds` is in the same way the argument
  for `InitReturns` (a number that falls from 28 at most in every step),
  `RingIsReleased` a part of that for `RingTold`, and `SleepersServedHolds` a part of
  that for `SleepersWake`.
- What the findings need. `LockedApplies`: were the feed unable to change between the
  statements of `ZT_ONHOOKTRANSFER`, `AppliedIfAppropriate` would hold, so the missing
  lock is the only cause. `CalWhereHolds`: calibration is lost only with `robust` and an
  FXO card among `3 * card .. 3 * card + 2`. `NobodyLeftOut`: without short blocks no
  writer is left asleep in front of an empty ring.
- What the exceptions in the properties cost. `UnreadUndisturbed`: if nobody reads
  /proc/wcfxs during detection or through a freed structure, `AccessHits`, `Detected` and
  `Installed` hold without the exception for `early`. `NobodyLeftOut`: with
  ZT_POLICY_IMMEDIATE, no block shorter than a chunk, and no `zt_hangup` or
  `zt_reallocbufs` while somebody sleeps, `SleepersServed` holds without the exception for
  `atrisk`. Their hypotheses
  (`Unread`, `Ordinary`), like `LockedNext`, restrict when steps are taken and leave
  every handler as it is.
- `NoSharedByteHolds` is what owners rely on: `OwnedOnce` speaks of the addresses at which
  blocks begin, this one of every byte.

Only model-checked: liveness (`LineNoticed`, `HookNoticed`, `InitReturns`,
`SleepersWake`, `RingTold`), which is out of the reach of the prover, as fairness and
ENABLED are. Every safety property that a passing run checks is also a theorem.

## 6. Not modelled, and why

- SPI and register I/O (`sport_interface.c`, the first half of `bfsi.c`), and
  `wcfxs_init_voicedaa`, a straight line of register writes whose outcome is that of
  `InitCard` in `WcfxsLife`: nothing in them changes state worth a model.
- `init_GSM` and the set-up of UART and audio chip: commands in a fixed order, most of
  them repeated until they are answered. They run before `wcfxs_init_ok` lets the port
  be polled, so nothing comes between their steps; whether the repetition ends is the
  modem's choice alone.
- The rest of zaptel: tones, conferences, echo cancellers and gains are arithmetic on
  samples; HDLC, PPP and network devices serve digital spans; signalling types other
  than FXS kewlstart are not those of the GSM port. For `WcfxsFxs` and `WcfxsFxo`
  zaptel's signalling is a free environment, which allows more than zaptel does.
- `scripts/ipkg`, `procwatch.c`, `cdr_sqlite3.c` and the two codecs could be modelled and
  are not: they are programs of their own, apart from the drivers this project keeps
  to. What is known to be delicate in them: `ipkg` takes no lock and neither resumes nor
  undoes an installation that a power failure interrupts; `unload_module` of
  `cdr_sqlite3.c` closes the database before it unregisters the handler that uses it,
  outside the lock the handler holds.
- The IP01 drivers are near copies of the files modelled. Debugging ioctls, LED and
  scanning tools, the build, start-up scripts and the PHP libraries are straight-line
  or descriptive.
- Squid is a vendored upstream release and makes up most of the C in the repository, so
  that the definitions mapped to source lines cover a small share of all lines
  (about 2,700 lines of code, blank lines and comments not counted: more than half of `wcfxs.c`, `blackfin_sram.c` and `fx.c`, half of
  `bfsi.c`, and the parts of the GSM board's files named above).
