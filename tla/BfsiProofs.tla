----------------------------- MODULE BfsiProofs -----------------------------
(***************************************************************************)
(* The serial port driver: its buffers outlive its channels for every      *)
(* setting, and no sample is torn when the interrupt is served before the  *)
(* transmit channel, Lead bytes ahead, has come to the end of a row.  The  *)
(* statistics then say that all is well; and whenever an interrupt is lost *)
(* they show it.                                                           *)
(***************************************************************************)
EXTENDS Bfsi, TLAPS

\* The stages of the process that opens and closes the port, and what is up in each.
Stages ==
  /\ pc \in {"closed", "enable", "irq", "open", "stopped", "free"}
  /\ running <=> pc \in {"irq", "open"}
  /\ irq => pc \in {"open", "stopped"}
  /\ isr # "none" => irq
  /\ pc # "closed" => rxbuf # "none" /\ txbuf # "none"
  /\ pc = "enable" => ~done

LEMMA InitStages == Init => Stages
  BY Zenon DEF Init, Stages

LEMMA StepStages == Stages /\ [Next]_vars => Stages'
  <1> SUFFICES ASSUME Stages, [Next]_vars PROVE Stages'
    OBVIOUS
  <1> USE DEF Stages, Process, Goto, port
  <1>1. CASE Frame
    BY <1>1 DEF Frame, handler
  <1>2. CASE sport_rx_isr
    BY <1>2 DEF sport_rx_isr
  <1>3. CASE isr_return
    BY <1>3 DEF isr_return
  <1>4. CASE init_dma_wc
    BY <1>4 DEF init_dma_wc, handler
  <1>5. CASE enable_dma_sport
    BY <1>5 DEF enable_dma_sport, handler
  <1>6. CASE init_sport_interrupts
    BY <1>6 DEF init_sport_interrupts, handler
  <1>7. CASE disable_sport \/ disable_sport_mask
    BY <1>7 DEF disable_sport, disable_sport_mask, handler
  <1>8. CASE bfsi_sport_close
    BY <1>8 DEF bfsi_sport_close, handler
  <1>9. CASE proc_write_bfsi_freeze
    BY <1>9 DEF proc_write_bfsi_freeze, handler
  <1>10. CASE proc_write_bfsi_reset
    BY <1>10 DEF proc_write_bfsi_reset, handler
  <1>11. CASE UNCHANGED vars
    BY <1>11 DEF vars, handler
  <1> QED
    BY <1>1, <1>2, <1>3, <1>4, <1>5, <1>6, <1>7, <1>8, <1>9, <1>10, <1>11 DEF Next

\* The stages hold in every reachable state.
THEOREM StagesHold == Spec => []Stages
  BY InitStages, StepStages, PTL DEF Spec

\* bfsi_sport_close gives the buffers back only after the channels have stopped and
\* the interrupt is masked, however frames, interrupts and calls interleave: a handler
\* that runs between the two steps still finds them.
THEOREM BuffersOutliveDmaHolds == Spec => []BuffersOutliveDma
  <1>1. Stages => BuffersOutliveDma
    BY DEF Stages, BuffersOutliveDma
  <1> QED
    BY <1>1, StagesHold, PTL

-----------------------------------------------------------------------------
\* The rows of the code's mask, and an interrupt served in time.
Timely == Samples = 8 /\ Lead + 8 * Budget < 64

\* As long as the handler is in time, a pending interrupt is not late, and neither is
\* one being served; the rows it has chosen are the ones the channels are not in.
Served ==
  /\ rx \in 0 .. 128 /\ rx % 8 = 0
  /\ ~tardy => /\ done /\ (irq \/ pc = "irq") => Age <= Budget
               /\ isr # "none" => /\ Age <= Budget
                                  /\ readRow # RxRow
                                  /\ writeRow # TxRow

TInv == Stages /\ Served

LEMMA Sizes == Timely => Row = 64 /\ Buf = 128
  BY DEF Timely, Row, Buf

\* One frame in the middle of a row leaves both channels in the row they are in.
LEMMA SameRows ==
  ASSUME NEW x \in 0 .. 127, x % 8 = 0, NEW l \in Nat, NEW b \in Nat,
         (x % 64) \div 8 < b, l + 8 * b < 64
  PROVE  /\ x + 8 \in 0 .. 128 /\ (x + 8) % 8 = 0
         /\ ((x + 8) % 64) \div 8 <= b
         /\ ((x + 8) % 128) \div 64 = (x % 128) \div 64
         /\ ((x + 8 + l) % 128) \div 64 = ((x + l) % 128) \div 64
  <1>1. x + 8 \in 0 .. 128 /\ (x + 8) % 8 = 0
    OBVIOUS
  <1>2. (x % 64) + 8 <= 8 * b
    OBVIOUS
  <1>3. CASE x < 64
    <2>1. x % 64 = x /\ x + 8 < 64 /\ x + 8 + l < 64
      BY <1>2, <1>3
    <2> QED
      BY <1>1, <2>1
  <1>4. CASE x >= 64
    <2>1. x % 64 = x - 64 /\ x + 8 < 128 /\ x + 8 + l < 128
      BY <1>2, <1>4
    <2>2. (x + 8) % 64 = x - 56
      BY <2>1, <1>4
    <2> QED
      BY <1>1, <1>4, <2>1, <2>2
  <1> QED
    BY <1>3, <1>4

LEMMA WrapRows ==
  ASSUME NEW l \in Nat, NEW b \in Nat, 0 < b, l + 8 * b < 64
  PROVE  /\ (8 % 64) \div 8 <= b
         /\ (8 % 128) \div 64 = (128 % 128) \div 64
         /\ ((8 + l) % 128) \div 64 = ((128 + l) % 128) \div 64
  OBVIOUS

\* A frame keeps an interrupt that waits or is being served in time.
LEMMA FrameServed ==
  ASSUME Timely, TInv, Frame
  PROVE  Served'
  <1>0. /\ Row = 64 /\ Buf = 128 /\ Lead \in Nat /\ Budget \in Nat
        /\ Lead + 8 * Budget < 64
    BY Sizes, BfsiAssumption DEF Timely
  <1>1. /\ rx \in 0 .. 128 /\ rx % 8 = 0
        /\ rx' = IF rx = 128 THEN 8 ELSE rx + 8
        /\ UNCHANGED <<irq, pc, isr, readRow, writeRow>>
    BY <1>0 DEF TInv, Served, Frame, port, handler
  <1>2. rx' \in 0 .. 128 /\ rx' % 8 = 0
    BY <1>1
  <1>3. ASSUME Unserved, ~tardy'
        PROVE  /\ Age' <= Budget
               /\ RxRow' = RxRow /\ TxRow' = TxRow
    <2>0. ~(Age >= Budget)
      BY <1>3, Zenon DEF Frame
    <2>1. (rx % 64) \div 8 < Budget
      BY <1>0, <1>1, <2>0 DEF Age
    <2>2. CASE rx = 128
      BY <1>0, <1>1, <2>1, <2>2, WrapRows DEF Age, RxRow, TxRow, TxAddr
    <2>3. CASE rx # 128
      <3>1. rx \in 0 .. 127
        BY <1>1, <2>3
      <3> QED
        BY <1>0, <1>1, <2>1, <2>3, <3>1, SameRows, SMTT(30) DEF Age, RxRow, TxRow, TxAddr
    <2> QED
      BY <2>2, <2>3
  <1>4. ASSUME done', ~done PROVE Age' <= Budget
    <2>1. rx' % 64 = 0
      BY <1>0, <1>4, Zenon DEF Frame
    <2> QED
      BY <1>0, <2>1 DEF Age
  <1>5. ~tardy' /\ done' /\ (irq' \/ pc' = "irq") => Age' <= Budget
    BY <1>1, <1>3, <1>4, Zenon DEF Unserved
  <1>6. ~tardy' => ~tardy
    BY Zenon DEF Frame
  <1>7. ~tardy' /\ isr' # "none" => Age' <= Budget /\ readRow' # RxRow' /\ writeRow' # TxRow'
    BY <1>1, <1>3, <1>6, Zenon DEF TInv, Served, Unserved
  <1> QED
    BY <1>2, <1>5, <1>7, Zenon DEF Served

\* The handler chooses the rows the channels are not in.
LEMMA IsrServed ==
  ASSUME Timely, TInv, sport_rx_isr
  PROVE  Served'
  <1>0. Row = 64 /\ Buf = 128 /\ Lead \in Nat
    BY Sizes, BfsiAssumption DEF Timely
  <1>1. /\ rx \in 0 .. 128 /\ rx % 8 = 0 /\ rx' = rx /\ done' = FALSE
        /\ tardy' = tardy /\ (~tardy => Age <= Budget)
    BY Zenon DEF TInv, Served, sport_rx_isr
  <1>2. Age' = Age /\ RxRow' = RxRow /\ TxRow' = TxRow
    BY <1>1 DEF Age, RxRow, TxRow, TxAddr
  <1>3. readRow' # RxRow
    <2>1. readRow' = IF rx % 128 >= 64 THEN 0 ELSE 1
      BY <1>0 DEF sport_rx_isr, isr_read_processing, read_row, PING, PONG
    <2> QED
      BY <1>0, <1>1, <2>1 DEF RxRow
  <1>4. writeRow' # TxRow
    <2>1. writeRow' = IF TxAddr >= 64 THEN 0 ELSE 1
      BY <1>0 DEF sport_rx_isr, isr_write_processing, write_row, PING, PONG
    <2>2. TxAddr \in 0 .. 127
      BY <1>0, <1>1 DEF TxAddr
    <2> QED
      BY <1>0, <2>1, <2>2 DEF TxRow
  <1> QED
    BY <1>1, <1>2, <1>3, <1>4 DEF Served

LEMMA StepServed == Timely /\ TInv /\ [Next]_vars => Served'
  <1> SUFFICES ASSUME Timely, TInv, [Next]_vars PROVE Served'
    OBVIOUS
  <1>1. CASE Frame
    BY <1>1, FrameServed
  <1>2. CASE sport_rx_isr
    BY <1>2, IsrServed
  <1>3. CASE init_dma_wc
    <2>1. rx' = 0 /\ done' = FALSE /\ isr' = "none"
      BY <1>3, Zenon DEF init_dma_wc, Process, handler
    <2> QED
      BY <2>1 DEF Served
  <1>4. ASSUME rx' = rx, done' = done, tardy' = tardy, isr' = "none",
               (irq' \/ pc' = "irq") /\ done => irq \/ pc = "irq"
        PROVE  Served'
    BY <1>4, Zenon DEF TInv, Served, Age
  <1>5. CASE isr_return
    BY <1>4, <1>5, Zenon DEF isr_return, port, delays
  <1>6. CASE enable_dma_sport
    <2>1. ~done
      BY <1>6, Zenon DEF enable_dma_sport, TInv, Stages
    <2> QED
      BY <1>4, <1>6, <2>1, Zenon DEF enable_dma_sport, Process, handler, delays
  <1>7. CASE init_sport_interrupts
    BY <1>4, <1>7, Zenon DEF init_sport_interrupts, Process, handler, delays
  <1>8. CASE disable_sport \/ disable_sport_mask \/ bfsi_sport_close
    BY <1>4, <1>8, Zenon DEF disable_sport, disable_sport_mask, bfsi_sport_close, Process,
                             handler, delays, Goto, TInv, Stages
  <1>9. CASE proc_write_bfsi_freeze \/ proc_write_bfsi_reset
    BY <1>4, <1>9, Zenon DEF proc_write_bfsi_freeze, proc_write_bfsi_reset, Process, handler,
                             port, delays
  <1>10. CASE UNCHANGED vars
    BY <1>10 DEF vars, port, handler, delays, TInv, Served, Age, RxRow, TxRow, TxAddr
  <1> QED
    BY <1>1, <1>2, <1>3, <1>5, <1>6, <1>7, <1>8, <1>9, <1>10 DEF Next

LEMMA InitServed == Timely /\ Init => Served
  <1> SUFFICES ASSUME Timely, Init PROVE Served
    OBVIOUS
  <1>1. rx = 0 /\ ~done /\ isr = "none"
    BY DEF Init
  <1> QED
    BY <1>1 DEF Served

\* No sample is torn: with the rows of 64 bytes the mask in isr_read_processing is
\* written for, and while interrupts are served within Budget frames, the callback's rows
\* stay clear of both channels as long as Lead + 8 * Budget is less than a row.
THEOREM NoTearHolds == Timely /\ Spec => []NoTear
  <1>1. TInv => NoTear
    BY DEF TInv, Served, NoTear
  <1>2. Timely /\ Init => TInv
    BY InitStages, InitServed DEF TInv
  <1>3. Timely /\ TInv /\ [Next]_vars => TInv'
    BY StepStages, StepServed DEF TInv
  <1>4. CASE Timely
    <2>1. Init => TInv
      BY <1>2, <1>4
    <2>2. TInv /\ [Next]_vars => TInv'
      BY <1>3, <1>4
    <2> QED
      BY <1>1, <2>1, <2>2, PTL DEF Spec
  <1> QED
    BY <1>4
-----------------------------------------------------------------------------
(* The statistics.  isr_read_processing and isr_write_processing count the  *)
(* rows they are given and the times a row came twice in a row.             *)

\* A counter that wraps steps to another value.
LEMMA IncIs ==
  ASSUME NEW n \in Count
  PROVE  /\ Inc(n) = IF n = CountMod - 1 THEN 0 ELSE n + 1
         /\ Inc(n) \in Count /\ Inc(n) # n
  <1>1. CountMod \in Nat /\ CountMod >= 2 /\ n \in 0 .. CountMod - 1
    BY BfsiAssumption DEF Count
  <1>2. CASE n = CountMod - 1
    <2>1. (n + 1) % CountMod = 0
      BY <1>1, <1>2
    <2> QED
      BY <1>1, <1>2, <2>1 DEF Inc, Count
  <1>3. CASE n # CountMod - 1
    <2>1. n + 1 \in 0 .. CountMod - 1
      BY <1>1, <1>3
    <2>2. (n + 1) % CountMod = n + 1
      BY <1>1, <2>1
    <2> QED
      BY <1>1, <1>3, <2>1, <2>2 DEF Inc, Count
  <1> QED
    BY <1>2, <1>3

\* What the handler and the frames leave in the variables of the statistics.
Counted ==
  /\ rx \in 0 .. 128 /\ rx % 8 = 0
  /\ since \in 0 .. CycleFrames - 1
  /\ rfirst \in Count /\ rsecond \in Count /\ rstuck \in Count
  /\ wfirst \in Count /\ wsecond \in Count /\ wstuck \in Count
  /\ skip \in Count
  /\ ends \in 0 .. 4
  /\ readRow \in {PING, PONG} /\ writeRow \in {PING, PONG}
  /\ entered => lastread = readRow /\ lastwrite = writeRow
  /\ entered => pc \notin {"enable", "irq"}

\* Row ends and frames since the handler last ran, against the row it chose and the
\* time that the next one will measure.
Traced ==
  entered /\ ~wrapped
          => /\ readRow # RxRow <=> ends \in {0, 2, 4}
             /\ since <= SkipFrames => ends <= 2 /\ since + 7 >= 8 * ends + Age

\* A frame takes the receive channel to the next row, or further along its row.
LEMMA NextFrame ==
  ASSUME NEW x \in 0 .. 128, x % 8 = 0, NEW y, y = IF x = 128 THEN 8 ELSE x + 8
  PROVE  /\ y \in 0 .. 128 /\ y % 8 = 0
         /\ (x % 128) \div 64 \in {0, 1} /\ (y % 128) \div 64 \in {0, 1}
         /\ y % 64 = 0 => /\ (y % 128) \div 64 # (x % 128) \div 64
                          /\ (x % 64) \div 8 = 7 /\ (y % 64) \div 8 = 0
         /\ y % 64 # 0 => /\ (y % 128) \div 64 = (x % 128) \div 64
                          /\ (y % 64) \div 8 = (x % 64) \div 8 + 1
  <1>1. y \in 0 .. 128 /\ y % 8 = 0
    OBVIOUS
  <1>2. CASE x = 128
    BY <1>2
  <1>3. CASE x < 64
    <2>1. x % 128 = x /\ x % 64 = x /\ y = x + 8 /\ y % 128 = y
      BY <1>3
    <2> QED
      BY <1>1, <1>3, <2>1
  <1>4. CASE x >= 64 /\ x < 128
    <2>1. x % 128 = x /\ x % 64 = x - 64 /\ y = x + 8
      BY <1>4
    <2>2. CASE y = 128
      BY <1>1, <1>4, <2>1, <2>2
    <2>3. CASE y < 128
      <3>1. y % 128 = y /\ y % 64 = y - 64
        BY <1>4, <2>1, <2>3
      <3> QED
        BY <1>1, <1>4, <2>1, <2>3, <3>1
    <2> QED
      BY <1>1, <2>2, <2>3
  <1> QED
    BY <1>2, <1>3, <1>4

\* A frame takes the time since the last interrupt one further, unless CYCLES has come
\* round.
LEMMA NextSince ==
  ASSUME NEW t \in 0 .. CycleFrames - 1
  PROVE  /\ (t + 1) % CycleFrames \in 0 .. CycleFrames - 1
         /\ (t + 1) % CycleFrames \in {0, t + 1}
  <1>0. CycleFrames \in Nat /\ CycleFrames > 0 /\ t \in Nat /\ t < CycleFrames
    BY BfsiAssumption DEF SkipFrames
  <1>1. CASE t = CycleFrames - 1
    <2>1. (t + 1) % CycleFrames = 0
      BY <1>0, <1>1
    <2> QED
      BY <1>0, <2>1
  <1>2. CASE t # CycleFrames - 1
    <2>1. (t + 1) % CycleFrames = t + 1
      BY <1>0, <1>2
    <2> QED
      BY <1>0, <1>2, <2>1
  <1> QED
    BY <1>1, <1>2

\* The handler has just chosen the row the receive channel is not in.
LEMMA ChosenRow ==
  ASSUME Samples = 8, Counted, sport_rx_isr
  PROVE  readRow' \in {PING, PONG} /\ readRow' # RxRow /\ RxRow' = RxRow
  <1>0. Row = 64 /\ Buf = 128
    BY DEF Row, Buf
  <1>1. rx \in 0 .. 128 /\ rx' = rx
    BY DEF Counted, sport_rx_isr
  <1>2. readRow' = IF rx % 128 >= 64 THEN 0 ELSE 1
    BY <1>0 DEF sport_rx_isr, isr_read_processing, read_row, PING, PONG
  <1>3. RxRow = IF rx % 128 >= 64 THEN 1 ELSE 0
    BY <1>0, <1>1 DEF RxRow
  <1> QED
    BY <1>1, <1>2, <1>3 DEF PING, PONG, RxRow

LEMMA StepCounted ==
  ASSUME Samples = 8, Stages, Counted, [Next]_vars
  PROVE  Counted'
  <1>0. Row = 64 /\ Buf = 128 /\ 0 \in Count /\ 0 \in 0 .. CycleFrames - 1
    BY BfsiAssumption DEF Row, Buf, Count, SkipFrames
  <1>1. CASE Frame
    <2>1. rx' = IF rx = 128 THEN 8 ELSE rx + 8
      BY <1>0, <1>1, Zenon DEF Frame
    <2>2. rx' \in 0 .. 128 /\ rx' % 8 = 0
      BY <2>1, NextFrame DEF Counted
    <2>3. since' \in 0 .. CycleFrames - 1
      BY <1>1, NextSince, Zenon DEF Frame, Counted
    <2>4. ends' \in 0 .. 4
      BY <1>1 DEF Frame, Counted
    <2> QED
      BY <1>1, <2>2, <2>3, <2>4, Zenon DEF Frame, Counted, port, handler, rstats, wstats
  <1>2. CASE sport_rx_isr
    <2>1. readRow' \in {PING, PONG}
      BY <1>2, ChosenRow, Zenon
    <2>2. writeRow' \in {PING, PONG}
      BY <1>2, Zenon DEF sport_rx_isr, isr_write_processing, write_row
    <2>3. /\ rfirst' \in Count /\ rsecond' \in Count /\ rstuck' \in Count
          /\ lastread' = readRow'
      BY <1>2, IncIs, Zenon DEF sport_rx_isr, isr_read_processing, Counted
    <2>4. /\ wfirst' \in Count /\ wsecond' \in Count /\ wstuck' \in Count
          /\ lastwrite' = writeRow'
      BY <1>2, IncIs, Zenon DEF sport_rx_isr, isr_write_processing, Counted
    <2>5. skip' \in Count
      BY <1>2, IncIs, Zenon DEF sport_rx_isr, Counted
    <2>6. pc' \notin {"enable", "irq"}
      BY <1>2, Zenon DEF sport_rx_isr, port, Stages
    <2> QED
      BY <1>0, <1>2, <2>1, <2>2, <2>3, <2>4, <2>5, <2>6 DEF sport_rx_isr, Counted
  <1>3. CASE init_dma_wc
    BY <1>3 DEF init_dma_wc, Counted, handler, rstats, wstats
  <1>4. CASE proc_write_bfsi_reset
    BY <1>0, <1>4, Zenon DEF proc_write_bfsi_reset, Counted, port, handler, rstats, wstats,
                             delays
  <1>5. CASE \/ isr_return \/ enable_dma_sport \/ init_sport_interrupts
             \/ disable_sport \/ disable_sport_mask \/ bfsi_sport_close
             \/ proc_write_bfsi_freeze
    BY <1>5 DEF isr_return, enable_dma_sport, init_sport_interrupts, disable_sport,
                disable_sport_mask, bfsi_sport_close, proc_write_bfsi_freeze, Goto, Counted,
                port, handler, rstats, wstats, delays
  <1>6. CASE UNCHANGED vars
    BY <1>6, Zenon DEF vars, Counted, port, handler, rstats, wstats, delays
  <1> QED
    BY <1>1, <1>2, <1>3, <1>4, <1>5, <1>6 DEF Next

LEMMA InitCounted == Init => Counted
  <1> SUFFICES ASSUME Init PROVE Counted
    OBVIOUS
  <1>1. 0 \in Count /\ 0 \in 0 .. CycleFrames - 1
    BY BfsiAssumption DEF Count, SkipFrames
  <1> QED
    BY <1>1 DEF Init, Counted

\* A row end turns the receive channel to the other row, and eight frames lie
\* between two of them.
LEMMA StepTraced ==
  ASSUME Samples = 8, Stages, Counted, Traced, [Next]_vars
  PROVE  Traced'
  <1>0. Row = 64 /\ Buf = 128
    BY DEF Row, Buf
  <1>1. CASE Frame
    <2> SUFFICES ASSUME entered, ~wrapped'
                 PROVE  /\ (readRow # RxRow <=> ends \in {0, 2, 4})'
                        /\ (since <= SkipFrames => ends <= 2 /\ since + 7 >= 8 * ends + Age)'
      BY <1>1, Zenon DEF Frame, Traced
    <2>1. /\ rx' = IF rx = 128 THEN 8 ELSE rx + 8
          /\ IF rx' % 64 = 0 THEN ends' = IF ends < 4 THEN ends + 1 ELSE 3
                             ELSE ends' = ends
          /\ readRow' = readRow
          /\ ~wrapped
      BY <1>0, <1>1, Zenon DEF Frame, handler
    <2>0. since \in Nat /\ since' = since + 1
      <3>1. since \in 0 .. CycleFrames - 1 /\ since' = (since + 1) % CycleFrames /\ since' # 0
        BY <1>1, Zenon DEF Counted, Frame
      <3>2. since' = since + 1
        BY <3>1, NextSince, Zenon
      <3> QED
        BY <3>1, <3>2
    <2>2. /\ RxRow \in {0, 1} /\ RxRow' \in {0, 1}
          /\ rx' % 64 = 0 => RxRow' # RxRow /\ Age = 7 /\ Age' = 0
          /\ rx' % 64 # 0 => RxRow' = RxRow /\ Age' = Age + 1
      <3>1. rx \in 0 .. 128 /\ rx % 8 = 0
        BY DEF Counted
      <3> QED
        BY <1>0, <2>1, <3>1, NextFrame DEF RxRow, Age
    <2>3. /\ readRow # RxRow <=> ends \in {0, 2, 4}
          /\ since <= 16 => ends <= 2 /\ since + 7 >= 8 * ends + Age
      BY <2>1, Zenon DEF Traced, SkipFrames
    <2>4. ends \in 0 .. 4 /\ readRow \in {0, 1}
      BY DEF Counted, PING, PONG
    <2>5. Age \in Int
      BY <1>0 DEF Age, Counted
    <2>6. CASE rx' % 64 = 0
      BY <2>0, <2>1, <2>2, <2>3, <2>4, <2>6 DEF SkipFrames
    <2>7. CASE rx' % 64 # 0
      BY <2>0, <2>1, <2>2, <2>3, <2>4, <2>5, <2>7 DEF SkipFrames
    <2> QED
      BY <2>6, <2>7, Zenon
  <1>2. CASE sport_rx_isr
    <2>1. readRow' # RxRow' /\ ends' = 0 /\ since' = 0
      BY <1>2, ChosenRow, Zenon DEF sport_rx_isr
    <2>2. ends' <= 2 /\ since' + 7 >= 8 * ends' + Age'
      BY <1>0, <1>2, <2>1 DEF sport_rx_isr, Age, Counted
    <2>3. ends' \in {0, 2, 4}
      BY <2>1, Zenon
    <2> QED
      BY <2>1, <2>2, <2>3, Zenon DEF Traced
  <1>3. CASE init_dma_wc
    BY <1>3, Zenon DEF init_dma_wc, Traced
  <1>4. ASSUME UNCHANGED <<entered, wrapped, readRow, rx, ends, since>> PROVE Traced'
    BY <1>4, Zenon DEF Traced, RxRow, Age
  <1>5. CASE \/ isr_return \/ enable_dma_sport \/ init_sport_interrupts
             \/ disable_sport \/ disable_sport_mask \/ bfsi_sport_close
             \/ proc_write_bfsi_freeze \/ proc_write_bfsi_reset \/ UNCHANGED vars
    BY <1>4, <1>5 DEF isr_return, enable_dma_sport, init_sport_interrupts, disable_sport,
                disable_sport_mask, bfsi_sport_close, proc_write_bfsi_freeze,
                proc_write_bfsi_reset, vars, handler, delays
  <1> QED
    BY <1>1, <1>2, <1>3, <1>5 DEF Next

\* However late interrupts are served, short of the 2^32 cycles in which CYCLES comes
\* round, and whatever is written to /proc/bfsi_reset, a handler that runs after more
\* than one row end raises readchunk_didntswap or isr_between_skip: with the 64-byte
\* rows of the code, two row ends show the row that was read last and three take more
\* than the two milliseconds of a skip.
THEOREM LostIsSeenHolds == Samples = 8 /\ Spec => LostIsSeen
  <1> DEFINE I == Stages /\ Counted /\ Traced
  <1>1. CASE Samples = 8
    <2>1. Init => I
      BY InitStages, InitCounted DEF Init, Traced
    <2>2. I /\ [Next]_vars => I'
      BY <1>1, StepStages, StepCounted, StepTraced
    <2>3. ASSUME I, sport_rx_isr, entered, ends >= 2, ~wrapped
          PROVE  rstuck' # rstuck \/ skip' # skip
      <3>1. CASE since > SkipFrames
        BY <2>3, <3>1, IncIs, Zenon DEF sport_rx_isr, Counted
      <3>2. CASE ~(since > SkipFrames)
        <4>1. ends = 2
          <5>1. since \in Int
            BY <2>3 DEF Counted
          <5>2. since <= SkipFrames
            BY <3>2, <5>1 DEF SkipFrames
          <5> QED
            BY <2>3, <5>2 DEF Traced, Counted
        <4>2. readRow # RxRow /\ readRow \in {PING, PONG} /\ lastread = readRow
          BY <2>3, <4>1, Zenon DEF Traced, Counted
        <4>3. RxRow \in {0, 1}
          BY <1>1, <2>3 DEF RxRow, Row, Buf, Counted
        <4>4. readRow' = lastread
          BY <1>1, <2>3, <4>2, <4>3, ChosenRow DEF PING, PONG
        <4> QED
          BY <2>3, <4>4, IncIs, Zenon DEF sport_rx_isr, isr_read_processing, Counted
      <3> QED
        BY <3>1, <3>2, Zenon
    <2>4. I /\ [Next]_vars
            => [sport_rx_isr /\ entered /\ ends >= 2 /\ ~wrapped
                  => rstuck' # rstuck \/ skip' # skip]_vars
      BY <2>3, Zenon
    <2> QED
      BY <2>1, <2>2, <2>4, PTL DEF Spec, LostIsSeen
  <1> QED
    BY <1>1

-----------------------------------------------------------------------------
(* Rows that alternate, while interrupts are served in time.                *)

\* While the handler is installed it is given the same row to read and to write,
\* and the receive channel is back in that row exactly when an interrupt waits.
Alternates ==
  entered /\ irq /\ ~tardy => writeRow = readRow /\ (done <=> readRow = RxRow)

\* A channel Lead bytes ahead is in the row of the receive channel while there is
\* time to serve the interrupt.
LEMMA SameSide ==
  ASSUME NEW x \in 0 .. 128, x % 8 = 0, NEW l \in Nat, NEW b \in Nat,
         (x % 64) \div 8 <= b, l + 8 * b < 64
  PROVE  (x + l) % 128 >= 64 <=> x % 128 >= 64
  <1>1. (x % 64) + l < 64
    OBVIOUS
  <1>2. CASE x < 64
    <2>1. x % 64 = x /\ x % 128 = x /\ (x + l) % 128 = x + l
      BY <1>1, <1>2
    <2> QED
      BY <1>1, <1>2, <2>1
  <1>3. CASE x >= 64 /\ x < 128
    <2>1. x % 64 = x - 64 /\ x % 128 = x
      BY <1>3
    <2>2. (x + l) % 128 = x + l
      BY <1>1, <1>3, <2>1
    <2> QED
      BY <1>1, <1>3, <2>1, <2>2
  <1>4. CASE x = 128
    BY <1>1, <1>4
  <1> QED
    BY <1>2, <1>3, <1>4

\* In time, the handler chooses one row for both, the one the receive channel has
\* left, and it is not the row it chose before.
LEMMA RowsSwap ==
  ASSUME Timely, TInv, Counted, sport_rx_isr
  PROVE  /\ ~tardy => writeRow' = readRow'
         /\ entered /\ ~tardy /\ Alternates
              => /\ readRow' # readRow /\ writeRow' # writeRow
                 /\ rstuck' = rstuck /\ wstuck' = wstuck
  <1>0. /\ Row = 64 /\ Buf = 128 /\ Lead \in Nat /\ Budget \in Nat
        /\ Lead + 8 * Budget < 64
    BY Sizes, BfsiAssumption DEF Timely
  <1>1. ASSUME ~tardy PROVE writeRow' = readRow'
    <2>1. rx \in 0 .. 128 /\ rx % 8 = 0 /\ (rx % 64) \div 8 <= Budget
      BY <1>0, <1>1, Zenon DEF TInv, Served, sport_rx_isr, Age
    <2>2. (rx + Lead) % 128 >= 64 <=> rx % 128 >= 64
      BY <1>0, <2>1, SameSide, Zenon
    <2>3. read_row = write_row
      BY <1>0, <2>2, Zenon DEF read_row, write_row, TxAddr
    <2> QED
      BY <2>3, Zenon DEF sport_rx_isr, isr_read_processing, isr_write_processing
  <1>2. ASSUME entered, ~tardy, Alternates
        PROVE  /\ readRow' # readRow /\ writeRow' # writeRow
               /\ rstuck' = rstuck /\ wstuck' = wstuck
    <2>1. writeRow = readRow /\ readRow = RxRow /\ lastread = readRow /\ lastwrite = writeRow
      BY <1>2, Zenon DEF Alternates, Counted, sport_rx_isr
    <2>2. readRow' # readRow
      BY <2>1, ChosenRow DEF Timely
    <2> QED
      BY <1>1, <1>2, <2>1, <2>2, Zenon DEF sport_rx_isr, isr_read_processing, isr_write_processing
  <1> QED
    BY <1>1, <1>2, Zenon

LEMMA StepAlternates ==
  ASSUME Timely, TInv, Counted, Alternates, [Next]_vars
  PROVE  Alternates'
  <1>0. Row = 64 /\ Buf = 128 /\ Samples = 8 /\ Budget \in Nat /\ Budget < 8
    BY Sizes, BfsiAssumption DEF Timely
  <1>1. CASE Frame
    <2> SUFFICES ASSUME entered, irq, ~tardy' PROVE (writeRow = readRow /\ (done <=> readRow = RxRow))'
      BY <1>1, Zenon DEF Frame, port, Alternates
    <2>1. /\ rx' = IF rx = 128 THEN 8 ELSE rx + 8
          /\ IF rx' % 64 = 0 THEN done' = TRUE ELSE done' = done
          /\ readRow' = readRow /\ writeRow' = writeRow
          /\ ~tardy /\ (done => ~(Age >= Budget))
      BY <1>0, <1>1, Zenon DEF Frame, handler, Unserved
    <2>2. /\ RxRow \in {0, 1} /\ RxRow' \in {0, 1}
          /\ rx' % 64 = 0 => RxRow' # RxRow /\ Age = 7
          /\ rx' % 64 # 0 => RxRow' = RxRow
      <3>1. rx \in 0 .. 128 /\ rx % 8 = 0
        BY Zenon DEF Counted
      <3> QED
        BY <1>0, <2>1, <3>1, NextFrame DEF RxRow, Age
    <2>3. readRow \in {0, 1} /\ writeRow = readRow /\ (done <=> readRow = RxRow)
      BY <2>1, Zenon DEF Counted, PING, PONG, Alternates
    <2>4. CASE rx' % 64 = 0
      <3>1. ~done
        BY <1>0, <2>1, <2>2, <2>4
      <3> QED
        BY <2>1, <2>2, <2>3, <2>4, <3>1, Zenon
    <2>5. CASE rx' % 64 # 0
      BY <2>1, <2>2, <2>3, <2>5
    <2> QED
      BY <2>4, <2>5, Zenon
  <1>2. CASE sport_rx_isr
    BY <1>0, <1>2, RowsSwap, ChosenRow, Zenon DEF Alternates, sport_rx_isr
  <1>3. CASE init_dma_wc
    BY <1>3, Zenon DEF init_dma_wc, Alternates
  <1>4. CASE init_sport_interrupts
    BY <1>4, Zenon DEF init_sport_interrupts, Alternates, Counted, delays
  <1>5. CASE disable_sport_mask
    BY <1>5, Zenon DEF disable_sport_mask, Alternates
  <1>6. ASSUME UNCHANGED <<entered, irq, tardy, readRow, writeRow, rx, done>> PROVE Alternates'
    BY <1>6, Zenon DEF Alternates, RxRow
  <1>7. CASE \/ isr_return \/ enable_dma_sport \/ disable_sport \/ bfsi_sport_close
             \/ proc_write_bfsi_freeze \/ proc_write_bfsi_reset \/ UNCHANGED vars
    BY <1>6, <1>7, Zenon DEF isr_return, enable_dma_sport, disable_sport, bfsi_sport_close,
                      vars, port, proc_write_bfsi_freeze, proc_write_bfsi_reset, handler,
                      delays
  <1> QED
    BY <1>1, <1>2, <1>3, <1>4, <1>5, <1>7, Zenon DEF Next

\* What Static and Balanced rest on, and that every step keeps it.
SInv == TInv /\ Counted /\ Alternates

LEMMA InitSwaps == Timely /\ Init => SInv
  BY InitStages, InitServed, InitCounted, Zenon DEF SInv, TInv, Alternates, Init

LEMMA StepSwaps == Timely /\ SInv /\ [Next]_vars => SInv'
  <1> SUFFICES ASSUME Timely, SInv, [Next]_vars PROVE SInv'
    OBVIOUS
  <1>1. Stages /\ TInv /\ Counted /\ Alternates /\ Samples = 8
    BY DEF SInv, TInv, Timely
  <1>2. Stages' /\ Served'
    BY <1>1, StepStages, StepServed
  <1>3. Counted'
    BY <1>1, StepCounted
  <1>4. Alternates'
    BY <1>1, StepAlternates
  <1> QED
    BY <1>2, <1>3, <1>4 DEF SInv, TInv

\* "If all is well then readchunk_didntswap and writechunk_didntswap will be
\* static": all is well as long as interrupts are served within Budget frames and
\* Lead + 8 * Budget is less than a row; then only /proc/bfsi_reset changes them.
THEOREM StaticHolds == Timely /\ Spec => Static
  <1> DEFINE A == entered /\ ~tardy
                    => /\ (rstuck' = rstuck /\ wstuck' = wstuck) \/ proc_write_bfsi_reset
                       /\ (sport_rx_isr => readRow' # readRow /\ writeRow' # writeRow)
  <1>1. CASE Timely
    <2>1. Init => SInv
      BY <1>1, InitSwaps
    <2>2. SInv /\ [Next]_vars => SInv'
      BY <1>1, StepSwaps
    <2>3. SInv /\ [Next]_vars => [A]_vars
      <3> SUFFICES ASSUME SInv, Next, entered, ~tardy
                   PROVE  /\ (rstuck' = rstuck /\ wstuck' = wstuck) \/ proc_write_bfsi_reset
                          /\ (sport_rx_isr => readRow' # readRow /\ writeRow' # writeRow)
        OBVIOUS
      <3>1. CASE sport_rx_isr
        BY <1>1, <3>1, RowsSwap, Zenon DEF SInv
      <3>2. ASSUME Next, ~sport_rx_isr, ~proc_write_bfsi_reset
            PROVE  rstuck' = rstuck /\ wstuck' = wstuck
        BY <3>2, Zenon DEF Next, Frame, isr_return, init_dma_wc, enable_dma_sport,
             init_sport_interrupts, disable_sport, disable_sport_mask, bfsi_sport_close,
             proc_write_bfsi_freeze, rstats, wstats
      <3> QED
        BY <3>1, <3>2, Zenon
    <2> QED
      BY <2>1, <2>2, <2>3, PTL DEF Spec, Static
  <1> QED
    BY <1>1

\* The counts of the two rows while one row was the last: its count is that of the
\* other row, or one more.
Ahead(last, first, second) ==
  \/ last = PING /\ first \in {second, Inc(second)}
  \/ last = PONG /\ second \in {first, Inc(first)}

LEMMA AheadDiffer ==
  ASSUME NEW m \in Count, NEW n \in Count, NEW r, Ahead(r, m, n)
  PROVE  Differ(m, n)
  <1>0. CountMod \in Nat /\ CountMod >= 2
    BY BfsiAssumption
  <1>1. ASSUME NEW k \in Count PROVE (k - k) % CountMod = 0
    <2>1. k \in Int
      BY <1>0 DEF Count
    <2>2. k - k = 0 /\ 0 % CountMod = 0
      BY <1>0, <2>1
    <2> QED
      BY <2>2
  <1>2. ASSUME NEW k \in Count
        PROVE  (Inc(k) - k) % CountMod = 1 /\ (k - Inc(k)) % CountMod = CountMod - 1
    <2>1. k \in Nat /\ k < CountMod
      BY <1>0 DEF Count
    <2>2. CASE k = CountMod - 1
      <3>1. Inc(k) - k = 1 - CountMod /\ k - Inc(k) = CountMod - 1
        BY <1>0, <2>1, <2>2, IncIs
      <3>2. (1 - CountMod) % CountMod = 1 /\ (CountMod - 1) % CountMod = CountMod - 1
        BY <1>0
      <3> QED
        BY <3>1, <3>2, Zenon
    <2>3. CASE k # CountMod - 1
      <3>1. Inc(k) - k = 1 /\ k - Inc(k) = -1
        BY <1>0, <2>1, <2>3, IncIs
      <3>2. 1 % CountMod = 1 /\ (-1) % CountMod = CountMod - 1
        BY <1>0
      <3> QED
        BY <3>1, <3>2, Zenon
    <2> QED
      BY <2>2, <2>3, Zenon
  <1> QED
    BY <1>1, <1>2, Zenon DEF Ahead, Differ

\* A port opened for the first time counts from zero, and its counts follow the
\* rows it was given.
Even ==
  /\ starts \in Nat
  /\ starts = 0 => ~entered /\ pc = "closed"
  /\ starts <= 1 /\ ~wiped /\ ~entered
       => rfirst = 0 /\ rsecond = 0 /\ wfirst = 0 /\ wsecond = 0
  /\ starts <= 1 /\ ~wiped /\ entered /\ ~tardy
       => Ahead(readRow, rfirst, rsecond) /\ Ahead(writeRow, wfirst, wsecond)

\* Counting the other row keeps one count at most one ahead.
LEMMA CountOther ==
  ASSUME NEW r \in {PING, PONG}, NEW s \in {PING, PONG},
         NEW m \in Count, NEW n \in Count,
         \/ r # s /\ Ahead(r, m, n)
         \/ m = 0 /\ n = 0
  PROVE  Ahead(s, IF s = PING THEN Inc(m) ELSE m, IF s = PING THEN n ELSE Inc(n))
  BY DEF Ahead, PING, PONG

LEMMA StepEven ==
  ASSUME Timely, SInv, Even, [Next]_vars
  PROVE  Even'
  <1>1. CASE sport_rx_isr
    <2>1. /\ starts' = starts /\ entered' /\ tardy' = tardy /\ wiped' = wiped
          /\ rfirst' = (IF readRow' = PING THEN Inc(rfirst) ELSE rfirst)
          /\ rsecond' = (IF readRow' = PING THEN rsecond ELSE Inc(rsecond))
          /\ wfirst' = (IF writeRow' = PING THEN Inc(wfirst) ELSE wfirst)
          /\ wsecond' = (IF writeRow' = PING THEN wsecond ELSE Inc(wsecond))
      BY <1>1, Zenon DEF sport_rx_isr, isr_read_processing, isr_write_processing, port
    <2>2. starts # 0
      BY <1>1, Zenon DEF sport_rx_isr, Even, SInv, TInv, Stages
    <2>3. /\ {readRow, readRow', writeRow, writeRow'} \subseteq {PING, PONG}
          /\ rfirst \in Count /\ rsecond \in Count /\ wfirst \in Count /\ wsecond \in Count
      BY StepSwaps, Zenon DEF SInv, Counted
    <2>4. ASSUME starts <= 1, ~tardy, ~wiped, entered
          PROVE  Ahead(readRow', rfirst', rsecond') /\ Ahead(writeRow', wfirst', wsecond')
      <3>1. readRow' # readRow /\ writeRow' # writeRow
        BY <1>1, <2>4, RowsSwap, Zenon DEF SInv
      <3>2. Ahead(readRow, rfirst, rsecond) /\ Ahead(writeRow, wfirst, wsecond)
        BY <2>4, Zenon DEF Even
      <3> QED
        BY <2>1, <2>3, <3>1, <3>2, CountOther, Zenon
    <2>5. ASSUME starts <= 1, ~tardy, ~wiped, ~entered
          PROVE  Ahead(readRow', rfirst', rsecond') /\ Ahead(writeRow', wfirst', wsecond')
      <3>1. rfirst = 0 /\ rsecond = 0 /\ wfirst = 0 /\ wsecond = 0
        BY <2>5, Zenon DEF Even
      <3> QED
        BY <2>1, <2>3, <3>1, CountOther, Zenon
    <2> QED
      BY <2>1, <2>2, <2>4, <2>5, Zenon DEF Even
  <1>2. CASE init_dma_wc
    <2>0. starts' = starts + 1 /\ pc' # "closed" /\ ~entered' /\ wiped' = wiped
      BY <1>2, Zenon DEF init_dma_wc, Goto
    <2>1. starts \in Nat
      BY Zenon DEF Even
    <2>2. ASSUME starts' <= 1, ~wiped' PROVE starts = 0
      BY <2>0, <2>1, <2>2
    <2>3. starts' \in Nat /\ starts' # 0
      BY <2>0, <2>1
    <2>4. starts = 0 => starts <= 1
      OBVIOUS
    <2>5. UNCHANGED <<rfirst, rsecond, wfirst, wsecond>>
      BY <1>2, Zenon DEF init_dma_wc, rstats, wstats
    <2> QED
      BY <2>0, <2>2, <2>3, <2>4, <2>5, Zenon DEF Even
  <1>3. ASSUME UNCHANGED <<starts, entered, readRow, writeRow, rfirst, rsecond, wfirst, wsecond>>,
               tardy => tardy', wiped' = wiped, pc = "closed" => pc' = "closed"
        PROVE  Even'
    BY <1>3, Zenon DEF Even, Ahead, Inc
  <1>4. CASE Frame
    BY <1>3, <1>4, Zenon DEF Frame, port, handler, rstats, wstats
  <1>5. CASE \/ isr_return \/ enable_dma_sport \/ init_sport_interrupts
             \/ disable_sport \/ disable_sport_mask \/ bfsi_sport_close
             \/ proc_write_bfsi_freeze
    BY <1>3, <1>5, Zenon DEF isr_return, enable_dma_sport, init_sport_interrupts,
         disable_sport, disable_sport_mask, bfsi_sport_close, proc_write_bfsi_freeze, Goto,
         port, handler, rstats, wstats, delays
  <1>6. CASE proc_write_bfsi_reset
    <2>1. wiped' /\ UNCHANGED <<starts, entered, pc>>
      BY <1>6, Zenon DEF proc_write_bfsi_reset, port, delays
    <2> QED
      BY <2>1, Zenon DEF Even
  <1>7. CASE UNCHANGED vars
    BY <1>3, <1>7 DEF vars, port, handler, rstats, wstats, delays
  <1> QED
    BY <1>1, <1>2, <1>4, <1>5, <1>6, <1>7, Zenon DEF Next

\* "The first and second values should be at most one value different": so they
\* are, modulo the width of the counters, for a port that has been opened once and
\* not reset, while all is well as in StaticHolds.
THEOREM BalancedHolds == Timely /\ Spec => []Balanced
  <1>1. SInv /\ Even => Balanced
    <2> SUFFICES ASSUME SInv, Even, starts <= 1, ~tardy, ~wiped
                 PROVE  Differ(rfirst, rsecond) /\ Differ(wfirst, wsecond)
      BY Zenon DEF Balanced
    <2>1. rfirst \in Count /\ rsecond \in Count /\ wfirst \in Count /\ wsecond \in Count
      BY Zenon DEF SInv, Counted
    <2>2. CASE entered
      BY <2>1, <2>2, AheadDiffer, Zenon DEF Even
    <2>3. CASE ~entered
      <3>1. Ahead(PING, rfirst, rsecond) /\ Ahead(PING, wfirst, wsecond)
        BY <2>3, Zenon DEF Even, Ahead
      <3> QED
        BY <2>1, <3>1, AheadDiffer, Zenon
    <2> QED
      BY <2>2, <2>3, Zenon
  <1>2. CASE Timely
    <2>1. Init => SInv /\ Even
      BY <1>2, InitSwaps DEF Init, Even
    <2>2. SInv /\ Even /\ [Next]_vars => (SInv /\ Even)'
      BY <1>2, StepSwaps, StepEven
    <2> QED
      BY <1>1, <2>1, <2>2, PTL DEF Spec
  <1> QED
    BY <1>2, Zenon

-----------------------------------------------------------------------------
(* Every row served.                                                         *)

\* While the handler is installed and in time, at most one row has ended since it last
\* ran, and then its interrupt waits; the time it will measure is that of at most one
\* row.
OneEnd ==
  entered /\ irq /\ ~tardy => /\ ends = IF done THEN 1 ELSE 0
                              /\ since <= Age + (IF done THEN 8 ELSE 0)

\* While interrupts are served within Budget frames the handler runs once for every
\* row: it never finds that two have ended, and never counts a skip.
EveryRowServed ==
  [][sport_rx_isr /\ entered /\ ~tardy => ends = 1 /\ skip' = skip]_vars

LEMMA FrameOneEnd ==
  ASSUME Timely, TInv, Counted, OneEnd, Frame
  PROVE  OneEnd'
  <1>0. /\ Row = 64 /\ Buf = 128 /\ Lead \in Nat /\ Budget \in Nat
        /\ Lead + 8 * Budget < 64
    BY Sizes, BfsiAssumption DEF Timely
  <1> SUFFICES ASSUME entered, irq, ~tardy'
               PROVE  /\ ends' = IF done' THEN 1 ELSE 0
                      /\ since' <= Age' + (IF done' THEN 8 ELSE 0)
    BY Zenon DEF OneEnd, Frame, port
  <1>1. /\ rx' = IF rx = 128 THEN 8 ELSE rx + 8
        /\ ~tardy
    BY <1>0, Zenon DEF Frame
  <1>2. /\ Age \in Int
        /\ rx' % 64 = 0 => Age = 7 /\ Age' = 0
        /\ rx' % 64 # 0 => Age' = Age + 1
    <2>1. rx \in 0 .. 128 /\ rx % 8 = 0
      BY DEF Counted
    <2> QED
      BY <1>0, <1>1, <2>1, NextFrame DEF Age
  <1>3. since \in Int /\ since >= 0 /\ since' \in {0, since + 1}
    <2>1. since \in 0 .. CycleFrames - 1 /\ since' = (since + 1) % CycleFrames
      BY Zenon DEF Counted, Frame
    <2>2. since' \in {0, since + 1}
      BY <2>1, NextSince, Zenon
    <2> QED
      BY <2>1, <2>2
  <1>4. CASE done
    <2>1. ~(Age >= Budget)
      BY <1>4, Zenon DEF Frame, Unserved
    <2>2. rx' % 64 # 0
      BY <1>0, <1>2, <2>1
    <2>3. done' /\ ends' = 1
      BY <1>0, <1>1, <1>4, <2>2, Zenon DEF Frame, OneEnd
    <2>4. since <= Age + 8
      BY <1>1, <1>4, Zenon DEF OneEnd
    <2>5. since' <= Age' + 8
      BY <1>1, <1>2, <1>3, <2>2, <2>4
    <2> QED
      BY <2>3, <2>5, Zenon
  <1>5. CASE ~done
    <2>1. ends = 0 /\ since <= Age + 0
      BY <1>1, <1>5, Zenon DEF OneEnd
    <2>2. CASE rx' % 64 = 0
      <3>1. done' /\ ends' = 1
        BY <1>0, <2>1, <2>2 DEF Frame
      <3>2. since' <= Age' + 8
        BY <1>1, <1>2, <1>3, <2>1, <2>2
      <3> QED
        BY <3>1, <3>2, Zenon
    <2>3. CASE rx' % 64 # 0
      <3>1. ~done' /\ ends' = 0
        BY <1>0, <1>5, <2>1, <2>3, Zenon DEF Frame
      <3>2. since' <= Age' + 0
        BY <1>1, <1>2, <1>3, <2>1, <2>3
      <3> QED
        BY <3>1, <3>2, Zenon
    <2> QED
      BY <2>2, <2>3, Zenon
  <1> QED
    BY <1>4, <1>5, Zenon

LEMMA StepOneEnd ==
  ASSUME Timely, TInv, Counted, OneEnd, [Next]_vars
  PROVE  OneEnd'
  <1>1. CASE Frame
    BY <1>1, FrameOneEnd, Zenon
  <1>2. CASE sport_rx_isr
    <2>1. ends' = 0 /\ ~done' /\ since' = 0
      BY <1>2, Zenon DEF sport_rx_isr
    <2>2. rx' = rx /\ rx \in 0 .. 128 /\ Row = 64
      BY <1>2, Sizes, Zenon DEF sport_rx_isr, Counted
    <2>3. 0 <= Age' + 0
      BY <2>2 DEF Age
    <2> QED
      BY <2>1, <2>3, Zenon DEF OneEnd
  <1>3. CASE init_dma_wc
    BY <1>3, Zenon DEF init_dma_wc, OneEnd
  <1>4. CASE init_sport_interrupts
    BY <1>4, Zenon DEF init_sport_interrupts, Counted, OneEnd, delays
  <1>5. ASSUME UNCHANGED <<entered, rx, done, ends, since, tardy>>, irq' => irq PROVE OneEnd'
    BY <1>5, Zenon DEF OneEnd, Age
  <1>6. CASE isr_return \/ enable_dma_sport \/ proc_write_bfsi_freeze \/ proc_write_bfsi_reset
    BY <1>5, <1>6, Zenon DEF isr_return, enable_dma_sport, proc_write_bfsi_freeze,
                             proc_write_bfsi_reset, port, delays
  <1>7. CASE disable_sport \/ bfsi_sport_close
    BY <1>5, <1>7, Zenon DEF disable_sport, bfsi_sport_close, delays
  <1>8. CASE disable_sport_mask
    BY <1>8, Zenon DEF disable_sport_mask, OneEnd
  <1>9. CASE UNCHANGED vars
    BY <1>5, <1>9 DEF vars, port, delays
  <1> QED
    BY <1>1, <1>2, <1>3, <1>4, <1>6, <1>7, <1>8, <1>9, Zenon DEF Next

\* While interrupts are served within the time Timely grants, no row is missed: after
\* its first run sport_rx_isr runs exactly once for each row that ends, and
\* isr_between_skip stays as it is, also across writes to /proc/bfsi_freeze.
THEOREM EveryRowServedHolds == Timely /\ Spec => EveryRowServed
  <1> DEFINE I == TInv /\ Counted /\ OneEnd
  <1>1. CASE Timely
    <2>0. Samples = 8
      BY <1>1, Zenon DEF Timely
    <2>1. Init => I
      BY <1>1, InitStages, InitServed, InitCounted, Zenon DEF Init, TInv, OneEnd
    <2>2. I /\ [Next]_vars => I'
      BY <1>1, <2>0, StepStages, StepServed, StepCounted, StepOneEnd, Zenon DEF TInv
    <2>3. ASSUME I, sport_rx_isr, entered, ~tardy PROVE ends = 1 /\ skip' = skip
      <3>1. irq /\ done
        BY <2>3, Zenon DEF sport_rx_isr
      <3>2. ends = 1 /\ since <= Age + 8 /\ Age <= Budget
        BY <2>3, <3>1, Zenon DEF OneEnd, TInv, Served
      <3>3. /\ Budget \in Nat /\ Lead \in Nat /\ Lead + 8 * Budget < 64
            /\ rx \in 0 .. 128 /\ Row = 64 /\ since \in Int
        BY <1>1, <2>3, Sizes, BfsiAssumption DEF Timely, Counted
      <3>4. Age \in Int
        BY <3>3 DEF Age
      <3>5. ~(since > SkipFrames)
        BY <3>2, <3>3, <3>4 DEF SkipFrames
      <3> QED
        BY <2>3, <3>2, <3>5, Zenon DEF sport_rx_isr
    <2>4. I /\ [Next]_vars
            => [sport_rx_isr /\ entered /\ ~tardy => ends = 1 /\ skip' = skip]_vars
      BY <2>3, Zenon
    <2> QED
      BY <2>1, <2>2, <2>4, PTL DEF Spec, EveryRowServed
  <1> QED
    BY <1>1
=============================================================================
