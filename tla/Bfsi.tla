-------------------------------- MODULE Bfsi --------------------------------
(***************************************************************************)
(* The serial port driver of src/src/bfsi.c: two DMA channels run round a  *)
(* receive and a transmit buffer of two rows each, the receive channel     *)
(* interrupts at the end of a row, and the interrupt handler works out     *)
(* from the channels' current addresses which row it may read and which it *)
(* may write, then hands both to the callback.                             *)
(*                                                                         *)
(* Time is counted in frames: every 125 us eight bytes are received and    *)
(* eight are fetched for transmission.  The handler runs any number of     *)
(* frames after the interrupt and its callback may last as long: tardy     *)
(* records that an interrupt took longer than Budget.  There is one        *)
(* processor: process code runs only between interrupts.                   *)
(***************************************************************************)
EXTENDS Integers

CONSTANTS
  Samples,    \* samples_per_chunk
  Lead,       \* bytes the transmit channel is ahead of the receive channel
  Budget,     \* frames within which an interrupt is to be served
  CountMod,   \* 2^32: the counters wrap at this value
  CycleFrames,\* frames in which CYCLES comes round: 2^32 / 50000 at 400 MHz
  MaxStarts   \* how often the port is opened

Row == 8 * Samples
Buf == 2 * Row

PING == 0
PONG == 1

\* A broken variant: three milliseconds.
SkipFramesLong == 24

\* 800000 cycles of a 400 MHz clock, two milliseconds, in frames.
SkipFrames == 16

ASSUME BfsiAssumption ==
  /\ Samples \in Nat \ {0}
  /\ Lead \in 0 .. Row - 1
  /\ Budget \in 1 .. Samples
  /\ CountMod \in Nat \ {0, 1}
  /\ CycleFrames \in Nat /\ CycleFrames > SkipFrames
  /\ MaxStarts \in Nat

VARIABLES
  pc,                        \* the process that opens and closes the port
  starts,                    \* how often it has opened it
  rxbuf, txbuf,              \* iRxBuffer1, iTxBuffer1: "none", "null" or "held"
  running,                   \* DMA channels and SPORT enabled
  irq,                       \* handler installed and interrupt unmasked
  init_ok,
  proc,                      \* /proc/bfsi_freeze and /proc/bfsi_reset exist
  rx,                        \* bytes received into the buffer; 0 before the first
  done,                      \* DMA_DONE, the pending interrupt
  isr,                       \* what the interrupt handler is doing
  readRow, writeRow,         \* the rows it has chosen
  lastread, lastwrite,       \* lastreadpingpong, lastwritepingpong
  rfirst, rsecond, rstuck,   \* readchunk_first, _second, _didntswap
  wfirst, wsecond, wstuck,   \* writechunk_first, _second, _didntswap
  since, skip,               \* CYCLES since the last interrupt, in frames;
                             \* isr_between_skip
  frozen,                    \* bfsi_freeze
  resetting,                 \* how far a write to /proc/bfsi_reset has got
  entered, ends,             \* history: a handler has run since the port was
                             \* opened, and row ends since it last ran
  tardy,                     \* history: an interrupt was not served within Budget
                             \* since the port was opened
  wrapped,                   \* history: CYCLES came round since the last interrupt
  wiped                      \* history: /proc/bfsi_reset was written

port == <<pc, starts, rxbuf, txbuf, running, irq, init_ok, proc>>
rstats == <<rfirst, rsecond, rstuck>>
wstats == <<wfirst, wsecond, wstuck>>
handler == <<isr, readRow, writeRow, lastread, lastwrite>>
delays == <<entered, ends, tardy, wrapped>>
vars == <<port, rx, done, handler, rstats, wstats, since, skip, frozen,
          resetting, delays, wiped>>

Inc(n) == (n + 1) % CountMod

\* The row being received into, and the one being transmitted from.
RxRow == (rx % Buf) \div Row
TxAddr == (rx + Lead) % Buf
TxRow == TxAddr \div Row

\* Frames since the last row was completed.
Age == (rx % Row) \div 8

\* An interrupt waits for its handler, or the handler is at work.
Unserved == (done /\ (irq \/ pc = "irq")) \/ isr # "none"

-----------------------------------------------------------------------------
\* One frame through both channels.
Frame ==
  /\ running
  /\ tardy' = (tardy \/ (Unserved /\ Age >= Budget))
  /\ rx' = IF rx = Buf THEN 8 ELSE rx + 8
  /\ since' = (since + 1) % CycleFrames
  /\ wrapped' = (wrapped \/ since' = 0)
  /\ IF rx' % Row = 0
     THEN done' = TRUE /\ ends' = IF ends < 4 THEN ends + 1 ELSE 3
     ELSE UNCHANGED <<done, ends>>
  /\ UNCHANGED <<port, handler, rstats, wstats, skip, frozen, resetting, entered, wiped>>

-----------------------------------------------------------------------------
\* A broken variant: the receive address is not masked, so that the end of the
\* second row looks like the end of the first.
read_row_unmasked == IF rx >= Row THEN PING ELSE PONG

\* possible values for x are 0x40 at the end of the first row and 0x80 at the
\* end of the second row; the mask is written for rows of 64 bytes.
read_row == IF rx % 128 >= Row THEN PING ELSE PONG

\* A broken variant: the row being transmitted is the one handed out.
write_row_swapped == IF TxAddr < Row THEN PING ELSE PONG

write_row == IF TxAddr >= Row THEN PING ELSE PONG

isr_read_processing ==
  /\ readRow' = read_row
  /\ IF readRow' = PING
     THEN rfirst' = Inc(rfirst) /\ rsecond' = rsecond
     ELSE rfirst' = rfirst /\ rsecond' = Inc(rsecond)
  /\ rstuck' = IF readRow' = lastread THEN Inc(rstuck) ELSE rstuck
  /\ lastread' = readRow'

isr_write_processing ==
  /\ writeRow' = write_row
  /\ IF writeRow' = PING
     THEN wfirst' = Inc(wfirst) /\ wsecond' = wsecond
     ELSE wfirst' = wfirst /\ wsecond' = Inc(wsecond)
  /\ wstuck' = IF writeRow' = lastwrite THEN Inc(wstuck) ELSE wstuck
  /\ lastwrite' = writeRow'

\* The handler up to the callback: it confirms the interrupt, measures the time
\* since the last one and chooses both rows.
sport_rx_isr ==
  /\ irq /\ done /\ isr = "none"
  /\ done' = FALSE
  /\ skip' = IF since > SkipFrames THEN Inc(skip) ELSE skip
  /\ since' = 0 /\ wrapped' = FALSE
  /\ isr_read_processing
  /\ isr_write_processing
  /\ isr' = IF frozen THEN "frozen" ELSE "callback"
  /\ entered' = TRUE
  /\ ends' = 0
  /\ UNCHANGED <<port, rx, frozen, resetting, tardy, wiped>>

\* The callback, or the handler without it, is over.
isr_return ==
  /\ isr # "none"
  /\ isr' = "none"
  /\ UNCHANGED <<port, rx, done, readRow, writeRow, lastread, lastwrite, rstats,
                 wstats, since, skip, frozen, resetting, delays, wiped>>

-----------------------------------------------------------------------------
Process == isr = "none"

Goto(l) == pc' = l

\* bfsi_sport_init, whose parameter says whether there are debugging files.  The
\* buffers come from l1_data_A_sram_alloc, whose result is not looked at; the
\* channels start before the handler is installed.  Any time may have passed since
\* the last interrupt.
init_dma_wc ==
  /\ Process /\ pc = "closed" /\ starts < MaxStarts
  /\ starts' = starts + 1
  /\ rxbuf' \in {"null", "held"}
  /\ txbuf' \in {"null", "held"}
  /\ rx' = 0
  /\ done' = FALSE
  /\ proc' \in BOOLEAN
  /\ since' \in 0 .. CycleFrames - 1
  /\ entered' = FALSE /\ ends' = 0 /\ tardy' = FALSE /\ wrapped' = FALSE
  /\ Goto("enable")
  /\ UNCHANGED <<running, irq, init_ok, handler, rstats, wstats, skip, frozen,
                 resetting, wiped>>

enable_dma_sport ==
  /\ Process /\ pc = "enable"
  /\ running' = TRUE
  /\ Goto("irq")
  /\ UNCHANGED <<starts, rxbuf, txbuf, irq, init_ok, proc, rx, done, handler, rstats,
                 wstats, since, skip, frozen, resetting, delays, wiped>>

\* request_irq may refuse: the port then stays up with init_ok = 0.
init_sport_interrupts ==
  /\ Process /\ pc = "irq"
  /\ init_ok' \in BOOLEAN
  /\ irq' = init_ok'
  /\ Goto("open")
  /\ UNCHANGED <<starts, rxbuf, txbuf, running, proc, rx, done, handler, rstats,
                 wstats, since, skip, frozen, resetting, delays, wiped>>

\* A broken variant: the channels go on.
disable_sport_kept ==
  /\ Process /\ pc = "open"
  /\ Goto("stopped")
  /\ UNCHANGED <<starts, rxbuf, txbuf, running, irq, init_ok, proc, rx, done, handler,
                 rstats, wstats, since, skip, frozen, resetting, delays, wiped>>

\* bfsi_sport_close: first the port and its channels stop, ...
disable_sport ==
  /\ Process /\ pc = "open"
  /\ running' = FALSE
  /\ Goto("stopped")
  /\ UNCHANGED <<starts, rxbuf, txbuf, irq, init_ok, proc, rx, done, handler,
                 rstats, wstats, since, skip, frozen, resetting, delays, wiped>>

\* ... then the interrupt is masked; one that waits may still run its handler before.
disable_sport_mask ==
  /\ Process /\ pc = "stopped"
  /\ irq' = FALSE
  /\ Goto("free")
  /\ UNCHANGED <<starts, rxbuf, txbuf, running, init_ok, proc, rx, done, handler,
                 rstats, wstats, since, skip, frozen, resetting, delays, wiped>>

\* free_irq, if the handler was installed; the buffers go back to the bank and the
\* debugging files are removed.
bfsi_sport_close ==
  /\ Process /\ pc = "free"
  /\ rxbuf' = "none" /\ txbuf' = "none"
  /\ proc' = FALSE
  /\ Goto("closed")
  /\ UNCHANGED <<starts, running, irq, init_ok, rx, done, handler,
                 rstats, wstats, since, skip, frozen, resetting, delays, wiped>>

proc_write_bfsi_freeze ==
  /\ Process /\ proc
  /\ frozen' \in BOOLEAN
  /\ UNCHANGED <<port, rx, done, handler, rstats, wstats, since, skip,
                 resetting, delays, wiped>>

\* A write to /proc/bfsi_reset clears the statistics one after the other, with
\* interrupts enabled; a write that has begun goes on when the file is removed.
proc_write_bfsi_reset ==
  /\ Process /\ (proc \/ resetting # 0)
  /\ \/ resetting = 0 /\ skip' = 0 /\ UNCHANGED <<rstats, wstats>>
     \/ resetting = 1 /\ rfirst' = 0 /\ UNCHANGED <<skip, rsecond, rstuck, wstats>>
     \/ resetting = 2 /\ rsecond' = 0 /\ UNCHANGED <<skip, rfirst, rstuck, wstats>>
     \/ resetting = 3 /\ rstuck' = 0 /\ UNCHANGED <<skip, rfirst, rsecond, wstats>>
     \/ resetting = 4 /\ wfirst' = 0 /\ UNCHANGED <<skip, rstats, wsecond, wstuck>>
     \/ resetting = 5 /\ wsecond' = 0 /\ UNCHANGED <<skip, rstats, wfirst, wstuck>>
     \/ resetting = 6 /\ wstuck' = 0 /\ UNCHANGED <<skip, rstats, wfirst, wsecond>>
  /\ resetting' = (resetting + 1) % 7
  /\ wiped' = TRUE
  /\ UNCHANGED <<port, rx, done, handler, since, frozen, delays>>

-----------------------------------------------------------------------------
Init ==
  /\ pc = "closed" /\ starts = 0
  /\ rxbuf = "none" /\ txbuf = "none"
  /\ running = FALSE /\ irq = FALSE /\ init_ok = FALSE
  /\ proc = FALSE
  /\ rx = 0 /\ done = FALSE
  /\ isr = "none" /\ readRow = PING /\ writeRow = PING
  /\ lastread = PING /\ lastwrite = PING
  /\ rfirst = 0 /\ rsecond = 0 /\ rstuck = 0
  /\ wfirst = 0 /\ wsecond = 0 /\ wstuck = 0
  /\ since = 0 /\ skip = 0
  /\ frozen = FALSE /\ resetting = 0
  /\ entered = FALSE /\ ends = 0
  /\ tardy = FALSE /\ wrapped = FALSE /\ wiped = FALSE

Next ==
  \/ Frame
  \/ sport_rx_isr \/ isr_return
  \/ init_dma_wc \/ enable_dma_sport \/ init_sport_interrupts
  \/ disable_sport \/ disable_sport_mask \/ bfsi_sport_close
  \/ proc_write_bfsi_freeze \/ proc_write_bfsi_reset

Spec == Init /\ [][Next]_vars

-----------------------------------------------------------------------------
Count == 0 .. CountMod - 1

\* The port is in one of the stages of bfsi_sport_init and bfsi_sport_close, the
\* receive address is inside the buffer, and the statistics are machine integers.
TypeOK ==
  /\ pc \in {"closed", "enable", "irq", "open", "stopped", "free"}
  /\ starts \in 0 .. MaxStarts
  /\ {rxbuf, txbuf} \subseteq {"none", "null", "held"}
  /\ {running, irq, init_ok, proc, done, frozen} \subseteq BOOLEAN
  /\ {entered, tardy, wrapped, wiped} \subseteq BOOLEAN
  /\ rx \in 0 .. Buf
  /\ isr \in {"none", "callback", "frozen"}
  /\ {readRow, writeRow, lastread, lastwrite} \subseteq {PING, PONG}
  /\ {rfirst, rsecond, rstuck, wfirst, wsecond, wstuck, skip} \subseteq Count
  /\ since \in 0 .. CycleFrames - 1
  /\ resetting \in 0 .. 6
  /\ ends \in 0 .. 4

\* While the callback runs, the row it reads is not the one being received into
\* and the row it writes is not the one being transmitted from, as long as every
\* interrupt has been served within Budget frames: no sample is torn.
NoTear == isr = "callback" /\ ~tardy => readRow # RxRow /\ writeRow # TxRow

\* "If all is well then readchunk_didntswap and writechunk_didntswap will be
\* static": once the handler has run, and as long as it is in time, the rows it is
\* given keep alternating, and only /proc/bfsi_reset changes the two counts.
Static ==
  [][entered /\ ~tardy
       => /\ (rstuck' = rstuck /\ wstuck' = wstuck) \/ proc_write_bfsi_reset
          /\ (sport_rx_isr => readRow' # readRow /\ writeRow' # writeRow)]_vars

Differ(m, n) == (m - n) % CountMod \in {0, 1, CountMod - 1}

\* "The first and second values should be at most one value different", for a
\* port that has been opened once, served in time and not reset: the counts go on
\* where they were when the port is opened again, while the rows begin anew, and a
\* reset clears the two counts of a pair with interrupts in between.
Balanced ==
  starts <= 1 /\ ~tardy /\ ~wiped => Differ(rfirst, rsecond) /\ Differ(wfirst, wsecond)

\* When the handler runs less than 2^32 cycles after the last time, interrupts it has
\* missed leave a trace: when more than one row has ended, either the rows failed to
\* swap or the time between the two interrupts counts as a skip.  (Any later, and
\* isr_between_diff has come round and may look like a short time.)
LostIsSeen ==
  [][sport_rx_isr /\ entered /\ ends >= 2 /\ ~wrapped
       => rstuck' # rstuck \/ skip' # skip]_vars

\* Neither the channels nor the handler ever work on a buffer that has been given
\* back: bfsi_sport_close stops the channels and masks the interrupt first, and a
\* handler that still runs between the two finds the buffers there.
BuffersOutliveDma ==
  running \/ irq \/ isr # "none" => rxbuf # "none" /\ txbuf # "none"
=============================================================================
