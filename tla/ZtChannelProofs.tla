--------------------------- MODULE ZtChannelProofs ---------------------------
(***************************************************************************)
(* The rings, the copies and the sleepers of ZtChannel, for every number   *)
(* of buffers, programs and events.                                        *)
(***************************************************************************)
EXTENDS ZtChannel, TLAPS

\* The index after b in a ring of n buffers, without the remainder.
LEMMA SuccIs ==
  ASSUME NEW n \in Nat, n >= 2, NEW b \in 0 .. n - 1
  PROVE  /\ (b + 1) % n = IF b = n - 1 THEN 0 ELSE b + 1
         /\ (b + 1) % n \in 0 .. n - 1
<1>1. CASE b = n - 1
  BY <1>1, Z3
<1>2. CASE b # n - 1
  <2>1. b + 1 \in 0 .. n - 1
    BY <1>2
  <2>2. (b + 1) % n = b + 1
    BY <2>1, Z3
  <2> QED BY <1>2, <2>1, <2>2
<1> QED BY <1>1, <1>2

\* A reset ring has the shape: nothing held, the first buffer free.
LEMMA ShapeReset ==
  ASSUME NEW n \in Nat, n >= 2
  PROVE  Shape(n, 0, None, Empty)
BY DEF Shape, Held, Empty, None

\* The index of the next free buffer after a ring's free buffer b was filled.
After(n, b, end) == IF (b + 1) % n = end THEN None ELSE (b + 1) % n

\* Filling the free buffer keeps the shape (putbuf, fill).
LEMMA ShapePut ==
  ASSUME NEW n \in 2 .. MaxBufs, NEW in \in 0 .. n - 1, NEW out \in -1 .. n - 1,
         NEW buf \in [Bufs -> Data \cup {NoData}], NEW d \in Data,
         Shape(n, in, out, buf)
  PROVE  /\ After(n, in, out) \in -1 .. n - 1
         /\ Shape(n, After(n, in, out), IF out < 0 THEN in ELSE out, [buf EXCEPT ![in] = d])
<1> DEFINE s == IF in = n - 1 THEN 0 ELSE in + 1
           o == IF out < 0 THEN in ELSE out
           i == IF s = out THEN None ELSE s
<1>0. n \in Nat /\ n >= 2 /\ n <= MaxBufs /\ MaxBufs \in Nat
  BY ChannelAssumption
<1>1. After(n, in, out) = i /\ i \in -1 .. n - 1
  BY <1>0, SuccIs DEF After, None
<1>2. i # o /\ o \in 0 .. n - 1
  BY <1>0 DEF None, Shape
<1>3. ASSUME NEW b \in Bufs
      PROVE  b \in Held(n, i, o) <=> (b = in \/ b \in Held(n, in, out))
  BY <1>0, <1>3 DEF Held, None, Shape, Bufs
<1>4. \A b \in Bufs : [buf EXCEPT ![in] = d][b] # NoData <=> (b = in \/ buf[b] # NoData)
  BY ChannelAssumption
<1>5. \A b \in Bufs : [buf EXCEPT ![in] = d][b] # NoData <=> b \in Held(n, i, o)
  BY <1>3, <1>4, Zenon DEF Shape
<1> QED BY <1>1, <1>2, <1>5 DEF Shape

\* Emptying the oldest buffer keeps the shape (take, drain).
LEMMA ShapeTake ==
  ASSUME NEW n \in 2 .. MaxBufs, NEW out \in 0 .. n - 1, NEW in \in -1 .. n - 1,
         NEW buf \in [Bufs -> Data \cup {NoData}],
         Shape(n, in, out, buf)
  PROVE  /\ After(n, out, in) \in -1 .. n - 1
         /\ Shape(n, IF in < 0 THEN out ELSE in, After(n, out, in), [buf EXCEPT ![out] = NoData])
<1> DEFINE s == IF out = n - 1 THEN 0 ELSE out + 1
           i == IF in < 0 THEN out ELSE in
           o == IF s = in THEN None ELSE s
<1>0. n \in Nat /\ n >= 2 /\ n <= MaxBufs /\ MaxBufs \in Nat
  BY ChannelAssumption
<1>1. After(n, out, in) = o /\ o \in -1 .. n - 1
  BY <1>0, SuccIs DEF After, None
<1>2. i # o /\ i \in 0 .. n - 1
  BY <1>0 DEF None, Shape
<1>3. ASSUME NEW b \in Bufs
      PROVE  b \in Held(n, i, o) <=> (b # out /\ b \in Held(n, in, out))
  BY <1>0, <1>3 DEF Held, None, Shape, Bufs
<1>4. \A b \in Bufs : [buf EXCEPT ![out] = NoData][b] # NoData <=> (b # out /\ buf[b] # NoData)
  OBVIOUS
<1>5. \A b \in Bufs : [buf EXCEPT ![out] = NoData][b] # NoData <=> b \in Held(n, i, o)
  BY <1>3, <1>4 DEF Shape
<1> QED BY <1>1, <1>2, <1>5 DEF Shape

-----------------------------------------------------------------------------
\* The inductive invariant.

\* One process runs in the kernel at a time, and only while the channel is open.
Alone ==
  /\ \A p, q \in Procs : Running(p) /\ Running(q) => p = q
  /\ \A p \in Procs : pc[p] # "user" => mem

\* A full transmit ring is being sent.
FullSends == mem /\ inwritebuf = None => ~txdisable

\* A block in the transmit ring that the interrupt will not end before the sleep: it is
\* a chunk long or more, and another one is sent first or has been.
Lasting ==
  \E b \in Bufs : writebuf[b] \in Data \ Short /\ ("tx" \notin late => b # outwritebuf)

\* Between its test and its sleep a reader finds at most one block come in, and a writer
\* not all of them gone out.
Window ==
  \A p \in Procs : pc[p] = "window" /\ p \notin atrisk =>
    /\ op[p] = "read" => inreadbuf >= 0 /\ ("rx" \notin late => outreadbuf = None)
    /\ op[p] = "write" => outwritebuf >= 0 /\ ~txdisable /\ Lasting

IInv ==
  TypeOK /\ RingShape /\ NoTear /\ SleepersServed /\ Alone /\ FullSends /\ Window

\* TypeOK in parts.
RxType ==
  /\ inreadbuf \in -1 .. numbufs - 1 /\ outreadbuf \in -1 .. numbufs - 1
  /\ readbuf \in [Bufs -> Data \cup {NoData}]
TxType ==
  /\ inwritebuf \in -1 .. numbufs - 1 /\ outwritebuf \in -1 .. numbufs - 1
  /\ writebuf \in [Bufs -> Data \cup {NoData}]
CountType == numbufs \in 2 .. MaxBufs /\ events \in 0 .. MaxEvents
FlagType ==
  /\ mem \in BOOLEAN /\ rxdisable \in BOOLEAN /\ txdisable \in BOOLEAN
  /\ rxbufpolicy \in Policies /\ txbufpolicy \in Policies
MaskType == iomask \in SUBSET {"read", "write", "empty", "sig", "nowait"}
ProcType ==
  /\ pc \in [Procs -> {"user", "copy", "window", "asleep", "woken"}]
  /\ op \in [Procs -> {"none", "read", "write", "sync", "iomux"}]
  /\ res \in Bufs
  /\ late \in SUBSET {"rx", "tx", "event"}
  /\ atrisk \in SUBSET Procs

\* The type invariant in the parts that the steps disturb separately.
LEMMA TypeParts ==
  /\ TypeOK <=> RxType /\ TxType /\ CountType /\ FlagType /\ MaskType /\ ProcType
  /\ TypeOK' <=> RxType' /\ TxType' /\ CountType' /\ FlagType' /\ MaskType' /\ ProcType'
BY Zenon DEF TypeOK, RxType, TxType, CountType, FlagType, MaskType, ProcType

\* What a wake-up does to the processes.
LEMMA WakeUp ==
  ASSUME NEW queues, TypeOK, wake_up(queues), op' = op
  PROVE  /\ pc' \in [Procs -> {"user", "copy", "window", "asleep", "woken"}]
         /\ atrisk' \in SUBSET Procs
         /\ \A p \in Procs :
              /\ pc'[p] # pc[p] => pc[p] = "asleep" /\ pc'[p] = "woken"
              /\ pc'[p] = "asleep" => WaitsOn(op[p]) \notin queues
              /\ p \notin atrisk' /\ pc'[p] # "woken" => p \notin atrisk
BY DEF TypeOK, wake_up, Woken

\* A half of the interrupt handler keeps the processes' types and their order.
LEMMA InterruptKeeps ==
  ASSUME TypeOK, Alone, NEW queues, wake_up(queues),
         NEW half \in {"rx", "tx", "event"}, Interrupt(half),
         UNCHANGED <<op, res, setting>>
  PROVE  ProcType' /\ Alone'
<1>1. late' \in SUBSET {"rx", "tx", "event"}
  <2>1. late' = late \/ late' = late \cup {half}
    BY Zenon DEF Interrupt
  <2> QED BY <2>1, Zenon DEF TypeOK
<1>2. ProcType'
  BY <1>1, WakeUp, Zenon DEF TypeOK, ProcType
<1>3. Alone'
  BY WakeUp, Zenon DEF Alone, Running, setting
<1> QED BY <1>2, <1>3

\* What the return of a system call does to the processes.
LEMMA Return ==
  ASSUME NEW p \in Procs, TypeOK, Returns(p)
  PROVE  /\ pc' \in [Procs -> {"user", "copy", "window", "asleep", "woken"}]
         /\ op' \in [Procs -> {"none", "read", "write", "sync", "iomux"}]
         /\ atrisk' \in SUBSET Procs /\ late' = {} /\ res' \in Bufs
         /\ pc'[p] = "user"
         /\ \A q \in Procs \ {p} : pc'[q] = pc[q] /\ op'[q] = op[q]
                                  /\ (q \notin atrisk' => q \notin atrisk)
BY ChannelAssumption DEF TypeOK, Returns, Bufs

\* The channel starts closed, with nobody in the kernel.
LEMMA InitIInv == Init => IInv
<1> SUFFICES ASSUME Init PROVE IInv
  OBVIOUS
<1> USE ChannelAssumption
<1>1. TypeOK
  <2>1. RxType /\ TxType
    BY DEF Init, RxType, TxType, None, Empty, Bufs
  <2>2. CountType
    BY DEF Init, CountType
  <2>3. FlagType /\ MaskType
    BY Zenon DEF Init, FlagType, MaskType, Policies
  <2>4. ProcType
    BY DEF Init, ProcType, Bufs
  <2> QED BY <2>1, <2>2, <2>3, <2>4, TypeParts, Zenon
<1>2. RingShape
  BY Zenon DEF Init, RingShape
<1>3. NoTear /\ SleepersServed /\ Alone /\ Window
  BY DEF Init, NoTear, SleepersServed, Alone, Window, Running
<1>4. FullSends
  BY DEF Init, FullSends
<1> QED BY <1>1, <1>2, <1>3, <1>4 DEF IInv

\* The interrupt handler completes a received block.
LEMMA PutbufKeeps ==
  ASSUME IInv, NEW d \in Data, __putbuf_chunk(d)
  PROVE  IInv'
<1> USE ChannelAssumption
<1>0. /\ TypeOK /\ RingShape /\ NoTear /\ SleepersServed /\ Alone /\ FullSends /\ Window
      /\ putbuf(d) /\ wake_up(Notified) /\ Interrupt("rx")
      /\ UNCHANGED <<tx, setting, events, iomask, op, res>>
  BY Zenon DEF IInv, __putbuf_chunk
<1>1. mem /\ inreadbuf \in 0 .. numbufs - 1 /\ Shape(numbufs, inreadbuf, outreadbuf, readbuf)
  BY <1>0 DEF TypeOK, RingShape, putbuf, None
<1>2. /\ inreadbuf' = After(numbufs, inreadbuf, outreadbuf)
      /\ outreadbuf' = IF outreadbuf < 0 THEN inreadbuf ELSE outreadbuf
      /\ readbuf' = [readbuf EXCEPT ![inreadbuf] = d]
  BY <1>0 DEF putbuf, Succ, After
<1>3. /\ inreadbuf' \in -1 .. numbufs - 1 /\ outreadbuf' \in 0 .. numbufs - 1
      /\ Shape(numbufs, inreadbuf', outreadbuf', readbuf')
  <2>1. numbufs \in 2 .. MaxBufs /\ outreadbuf \in -1 .. numbufs - 1
        /\ readbuf \in [Bufs -> Data \cup {NoData}]
    BY <1>0 DEF TypeOK
  <2>2. /\ inreadbuf' \in -1 .. numbufs - 1
        /\ Shape(numbufs, inreadbuf', outreadbuf', readbuf')
    BY <1>1, <1>2, <2>1, ShapePut, Zenon
  <2>3. outreadbuf' \in 0 .. numbufs - 1
    BY <1>1, <1>2, <2>1
  <2> QED BY <2>2, <2>3, Zenon
<1>4. rxdisable' \in BOOLEAN /\ (rxdisable' => inreadbuf' >= 0)
  <2>1. rxdisable' => Succ(inreadbuf) # outreadbuf
    BY <1>0, Zenon DEF putbuf, TypeOK
  <2>2. Succ(inreadbuf) \in 0 .. numbufs - 1
    BY <1>0, <1>1, SuccIs DEF Succ, TypeOK
  <2>3. rxdisable' \in BOOLEAN
    BY <1>0 DEF putbuf
  <2> QED BY <1>0, <2>1, <2>2, <2>3 DEF putbuf
<1>5. TypeOK'
  <2>0. RxType /\ TxType /\ CountType /\ FlagType /\ MaskType /\ ProcType
    BY <1>0, TypeParts
  <2>1. RxType'
    BY <1>0, <1>1, <1>2, <1>3, <2>0, Zenon DEF RxType, CountType, setting
  <2>2. TxType' /\ CountType' /\ MaskType'
    BY <1>0, <2>0, Zenon DEF TxType, CountType, MaskType, tx, setting
  <2>3. FlagType'
    BY <1>0, <1>4, <2>0, Zenon DEF FlagType, tx, setting
  <2>4. ProcType'
    BY <1>0, InterruptKeeps, Zenon
  <2> QED BY <2>1, <2>2, <2>3, <2>4, TypeParts, Zenon
<1>6. RingShape' /\ FullSends'
  BY <1>0, <1>1, <1>3, Zenon DEF RingShape, FullSends, tx, setting
<1>7. Alone'
  BY <1>0, InterruptKeeps, Zenon
<1>8. NoTear'
  <2> SUFFICES ASSUME NEW p \in Procs, pc[p] = "copy"
               PROVE  /\ op[p] = "read" => res = outreadbuf' /\ res # inreadbuf' /\ readbuf'[res] # NoData
                      /\ op[p] = "write" => res = inwritebuf /\ res # outwritebuf /\ writebuf[res] = NoData
    BY <1>0, WakeUp, Zenon DEF NoTear, tx
  <2>1. op[p] = "read" => res = outreadbuf /\ res # inreadbuf /\ readbuf[res] # NoData
    BY <1>0, Zenon DEF NoTear
  <2>2. op[p] = "write" => res = inwritebuf /\ res # outwritebuf /\ writebuf[res] = NoData
    BY <1>0 DEF NoTear
  <2>3. ASSUME op[p] = "read" PROVE res = outreadbuf' /\ res # inreadbuf' /\ readbuf'[res] # NoData
    <3>1. res = outreadbuf' /\ readbuf'[res] # NoData
      BY <1>0, <1>2, <2>1, <2>3 DEF TypeOK, Bufs
    <3> QED BY <3>1, <1>3, Zenon DEF Shape
  <2> QED BY <2>2, <2>3, Zenon
<1>9. SleepersServed'
  <2> SUFFICES ASSUME NEW p \in Procs, pc'[p] = "asleep", p \notin atrisk'
               PROVE  /\ op[p] = "read" => inreadbuf' >= 0
                      /\ op[p] = "write" => outwritebuf >= 0 /\ ~txdisable
    BY <1>0, Zenon DEF SleepersServed, tx
  <2>1. pc[p] = "asleep" /\ p \notin atrisk /\ WaitsOn(op[p]) \notin Notified
    BY <1>0, WakeUp, Zenon
  <2>2. op[p] = "read" => rxdisable'
    BY <2>1, Zenon DEF Notified, WaitsOn
  <2> QED BY <1>0, <1>4, <2>1, <2>2, Zenon DEF SleepersServed
<1>10. Window'
  <2> SUFFICES ASSUME NEW p \in Procs, pc'[p] = "window", p \notin atrisk'
               PROVE  /\ op[p] = "read" => inreadbuf' >= 0 /\ ("rx" \notin late' => outreadbuf' = None)
                      /\ op[p] = "write" => outwritebuf >= 0 /\ ~txdisable /\ Lasting'
    BY <1>0, Zenon DEF Window, tx
  <2>1. pc[p] = "window" /\ p \notin atrisk /\ "rx" \notin late /\ late' = late \cup {"rx"}
    BY <1>0, WakeUp, Zenon DEF Interrupt
  <2>2. op[p] = "read" => outreadbuf = None
    BY <1>0, <2>1, Zenon DEF Window
  <2>3. op[p] = "read" => inreadbuf' >= 0
    BY <1>0, <1>1, <1>2, <2>2, SuccIs DEF After, None, TypeOK
  <2>4. Lasting => Lasting'
    BY <1>0, <2>1, Zenon DEF Lasting, tx
  <2> QED BY <1>0, <2>1, <2>3, <2>4, Zenon DEF Window
<1> QED BY <1>5, <1>6, <1>7, <1>8, <1>9, <1>10, Zenon DEF IInv
\* The interrupt handler reaches the end of a block.
LEMMA GetbufKeeps ==
  ASSUME IInv, __zt_getbuf_chunk
  PROVE  IInv'
<1> USE ChannelAssumption
<1> DEFINE queues == {"writebufq"} \cup IfMasked({"write"})
                       \cup (IF outwritebuf' = None THEN IfMasked({"empty"}) ELSE {})
<1>0. /\ TypeOK /\ RingShape /\ NoTear /\ SleepersServed /\ Alone /\ FullSends /\ Window
      /\ drain /\ wake_up(queues) /\ Interrupt("tx")
      /\ UNCHANGED <<rx, setting, events, iomask, op, res>>
  BY Zenon DEF IInv, __zt_getbuf_chunk
<1>1. mem /\ outwritebuf \in 0 .. numbufs - 1 /\ Shape(numbufs, inwritebuf, outwritebuf, writebuf)
  <2>1. outwritebuf \in -1 .. numbufs - 1 /\ outwritebuf >= 0 /\ numbufs \in 2 .. MaxBufs
    BY <1>0, Zenon DEF TypeOK, drain
  <2>2. mem
    BY <1>0, <2>1 DEF RingShape, None
  <2> QED BY <1>0, <2>1, <2>2 DEF RingShape
<1>2. /\ outwritebuf' = After(numbufs, outwritebuf, inwritebuf)
      /\ inwritebuf' = IF inwritebuf < 0 THEN outwritebuf ELSE inwritebuf
      /\ writebuf' = [writebuf EXCEPT ![outwritebuf] = NoData]
  BY <1>0, Zenon DEF drain, Succ, After
<1>t. numbufs \in 2 .. MaxBufs /\ inwritebuf \in -1 .. numbufs - 1
      /\ writebuf \in [Bufs -> Data \cup {NoData}]
  BY <1>0, Zenon DEF TypeOK
<1>3. /\ inwritebuf' \in 0 .. numbufs - 1 /\ outwritebuf' \in -1 .. numbufs - 1
      /\ Shape(numbufs, inwritebuf', outwritebuf', writebuf')
  <2>1. /\ outwritebuf' \in -1 .. numbufs - 1
        /\ Shape(numbufs, inwritebuf', outwritebuf', writebuf')
    BY <1>1, <1>2, <1>t, ShapeTake, Zenon
  <2>2. inwritebuf' \in 0 .. numbufs - 1
    BY <1>1, <1>2, <1>t
  <2> QED BY <2>1, <2>2
<1>4. txdisable' \in BOOLEAN
  BY <1>0, Zenon DEF drain
<1>5. TypeOK'
  <2>0. RxType /\ TxType /\ CountType /\ FlagType /\ MaskType
    BY <1>0, TypeParts
  <2>1. TxType'
    BY <1>0, <1>1, <1>2, <1>3, <1>t, <2>0, Zenon DEF TxType, setting
  <2>2. RxType' /\ CountType' /\ MaskType'
    BY <1>0, <2>0, Zenon DEF RxType, CountType, MaskType, rx, setting
  <2>3. FlagType'
    BY <1>0, <1>4, <2>0, Zenon DEF FlagType, rx, setting
  <2>4. ProcType'
    BY <1>0, InterruptKeeps, Zenon
  <2> QED BY <2>1, <2>2, <2>3, <2>4, TypeParts, Zenon
<1>6. RingShape' /\ FullSends'
  BY <1>0, <1>1, <1>3 DEF RingShape, FullSends, rx, setting, None
<1>7. Alone'
  BY <1>0, InterruptKeeps, Zenon
<1>8. NoTear'
  <2> SUFFICES ASSUME NEW p \in Procs, pc[p] = "copy"
               PROVE  /\ op[p] = "read" => res = outreadbuf /\ res # inreadbuf /\ readbuf[res] # NoData
                      /\ op[p] = "write" => res = inwritebuf' /\ res # outwritebuf' /\ writebuf'[res] = NoData
    BY <1>0, WakeUp, Zenon DEF NoTear, rx
  <2>1. op[p] = "write" => res = inwritebuf /\ res # outwritebuf /\ writebuf[res] = NoData
    BY <1>0, Zenon DEF NoTear
  <2>2. ASSUME op[p] = "write" PROVE res = inwritebuf' /\ res # outwritebuf' /\ writebuf'[res] = NoData
    <3>1. res = inwritebuf' /\ writebuf'[res] = NoData
      BY <1>0, <1>t, <1>2, <2>1, <2>2, SMTT(30) DEF TypeOK, Bufs
    <3> QED BY <3>1, <1>3, Zenon DEF Shape
  <2> QED BY <1>0, <2>2, Zenon DEF NoTear
<1>9. SleepersServed'
  <2> SUFFICES ASSUME NEW p \in Procs, pc'[p] = "asleep", p \notin atrisk'
               PROVE  /\ op[p] = "read" => inreadbuf >= 0
                      /\ op[p] # "write"
    BY <1>0, Zenon DEF SleepersServed, rx
  <2>1. pc[p] = "asleep" /\ p \notin atrisk /\ WaitsOn(op[p]) \notin queues
    BY <1>0, WakeUp, Zenon
  <2> QED BY <1>0, <2>1, Zenon DEF SleepersServed, WaitsOn
<1>10. Window'
  <2> SUFFICES ASSUME NEW p \in Procs, pc'[p] = "window", p \notin atrisk'
               PROVE  /\ op[p] = "read" => inreadbuf >= 0 /\ ("rx" \notin late' => outreadbuf = None)
                      /\ op[p] = "write" => outwritebuf' >= 0 /\ ~txdisable' /\ Lasting'
    BY <1>0, Zenon DEF Window, rx
  <2>1. /\ pc[p] = "window" /\ p \notin atrisk /\ late' = late \cup {"tx"}
        /\ "tx" \notin late \/ writebuf[outwritebuf] \in Short
    BY <1>0, WakeUp, Zenon DEF Interrupt
  <2>2. ASSUME op[p] = "write" PROVE outwritebuf' >= 0 /\ ~txdisable' /\ Lasting'
    <3>1. ~txdisable /\ Lasting
      BY <1>0, <2>1, <2>2, Zenon DEF Window
    <3>2. PICK b \in Bufs : writebuf[b] \in Data \ Short /\ b # outwritebuf
      BY <2>1, <3>1, Zenon DEF Lasting
    <3>3. writebuf'[b] = writebuf[b]
      BY <1>2, <1>t, <3>2, Zenon
    <3>4. Lasting'
      BY <2>1, <3>2, <3>3, Zenon DEF Lasting
    <3>5. b \in Held(numbufs, inwritebuf', outwritebuf')
      BY <1>3, <3>2, <3>3, Zenon DEF Shape
    <3>6. outwritebuf' # None
      BY <1>3, <1>t, <3>5 DEF Held, None
    <3>7. ~txdisable'
      BY <1>0, <3>1, <3>6, Zenon DEF drain
    <3> QED BY <1>3, <1>t, <3>4, <3>6, <3>7 DEF None
  <2> QED BY <1>0, <2>1, <2>2, Zenon DEF Window
<1> QED BY <1>5, <1>6, <1>7, <1>8, <1>9, <1>10, Zenon DEF IInv
\* Steps that leave the rings alone: only the processes may change.
LEMMA RingsKept ==
  ASSUME IInv, UNCHANGED <<rx, tx, setting>>, ProcType', MaskType', CountType'
  PROVE  TypeOK' /\ RingShape' /\ FullSends'
<1>0. /\ TypeOK /\ RingShape /\ FullSends
      /\ RxType /\ TxType /\ CountType /\ FlagType
  BY TypeParts, Zenon DEF IInv
<1>1. RxType' /\ TxType' /\ FlagType'
  BY <1>0, Zenon DEF RxType, TxType, FlagType, rx, tx, setting
<1>2. RingShape' /\ FullSends'
  BY <1>0, Zenon DEF RingShape, FullSends, rx, tx, setting
<1> QED BY <1>1, <1>2, TypeParts, Zenon

\* An event wakes everybody and leaves the rings alone.
LEMMA QeventKeeps ==
  ASSUME IInv, __qevent
  PROVE  IInv'
<1> DEFINE queues == {"readbufq", "writebufq"} \cup IfMasked({"sig"})
<1>0. /\ TypeOK /\ NoTear /\ SleepersServed /\ Alone /\ Window
      /\ events < MaxEvents /\ events' = events + 1
      /\ wake_up(queues) /\ Interrupt("event")
      /\ UNCHANGED <<rx, tx, setting, iomask, op, res>>
  BY Zenon DEF IInv, __qevent
<1>1. ProcType' /\ Alone'
  BY <1>0, InterruptKeeps, Zenon
<1>2. CountType' /\ MaskType'
  BY <1>0, ChannelAssumption DEF TypeOK, CountType, MaskType, setting
<1>3. TypeOK' /\ RingShape' /\ FullSends'
  BY <1>0, <1>1, <1>2, RingsKept, Zenon
<1>4. NoTear'
  BY <1>0, WakeUp, Zenon DEF NoTear, rx, tx
<1>5. SleepersServed'
  BY <1>0, WakeUp, SMTT(30) DEF SleepersServed, WaitsOn
<1>6. Window'
  <2>1. "rx" \in late => "rx" \in late'
    BY <1>0, Zenon DEF Interrupt
  <2>2. "tx" \in late => "tx" \in late'
    BY <1>0, Zenon DEF Interrupt
  <2>3. "rx" \in late' => "rx" \in late
    BY <1>0 DEF Interrupt
  <2>4. "tx" \in late' => "tx" \in late
    BY <1>0 DEF Interrupt
  <2>5. Lasting => Lasting'
    BY <1>0, <2>2, <2>4, Zenon DEF Lasting, tx
  <2> QED BY <1>0, <2>1, <2>3, <2>5, WakeUp, Zenon DEF Window, rx, tx
<1> QED BY <1>1, <1>3, <1>4, <1>5, <1>6, Zenon DEF IInv

\* A process returns, starts to copy, or starts to wait, and the rings stay.
LEMMA ReturnKeeps ==
  ASSUME IInv, NEW p \in Procs, Returns(p), KernelFree \/ Running(p),
         UNCHANGED <<rx, inwritebuf, outwritebuf, writebuf, setting, events>>,
         txdisable' \in BOOLEAN, txdisable' => txdisable, MaskType'
  PROVE  IInv'
<1>0. /\ TypeOK /\ RingShape /\ NoTear /\ SleepersServed /\ Alone /\ FullSends /\ Window
      /\ RxType /\ TxType /\ CountType /\ FlagType
  BY TypeParts, Zenon DEF IInv
<1>1. TypeOK'
  <2>1. RxType' /\ TxType' /\ CountType'
    BY <1>0, Zenon DEF RxType, TxType, CountType, rx, setting
  <2>2. FlagType'
    BY <1>0, Zenon DEF FlagType, rx, setting
  <2>3. ProcType'
    BY <1>0, Return, Zenon DEF ProcType
  <2> QED BY <2>1, <2>2, <2>3, TypeParts, Zenon
<1>2. RingShape' /\ FullSends'
  BY <1>0, Zenon DEF RingShape, FullSends, rx, setting
<1>3. \A q \in Procs : ~Running(q)'
  BY <1>0, Return, Zenon DEF Alone, KernelFree, Running
<1>4. Alone'
  BY <1>0, <1>3, Return, Zenon DEF Alone, setting
<1>5. NoTear' /\ Window'
  BY <1>3, Zenon DEF NoTear, Window, Running
<1>6. SleepersServed'
  BY <1>0, Return, Zenon DEF SleepersServed, rx
<1> QED BY <1>1, <1>2, <1>4, <1>5, <1>6, Zenon DEF IInv

\* A process that finds a block, or room for one, starts to copy.
LEMMA CopyKeeps ==
  ASSUME IInv, NEW p \in Procs, mem, KernelFree,
         NEW o \in {"read", "write"}, NEW b \in Bufs, Copies(p, o, b),
         o = "read" => b = outreadbuf,
         o = "write" => b = inwritebuf,
         UNCHANGED <<rx, tx, setting, events, iomask>>
  PROVE  IInv'
<1>0. /\ TypeOK /\ RingShape /\ NoTear /\ SleepersServed /\ Alone /\ Window
      /\ pc' = [pc EXCEPT ![p] = "copy"] /\ op' = [op EXCEPT ![p] = o]
      /\ res' = b /\ late' = late /\ atrisk' = atrisk
  BY Zenon DEF IInv, Copies
<1>1. ProcType' /\ MaskType' /\ CountType'
  BY <1>0, Zenon DEF TypeOK, ProcType, MaskType, CountType, setting
<1>2. TypeOK' /\ RingShape' /\ FullSends'
  BY <1>1, RingsKept, Zenon
<1>3. \A q \in Procs \ {p} : pc'[q] = pc[q] /\ op'[q] = op[q] /\ ~Running(q)
  BY <1>0, Zenon DEF TypeOK, KernelFree
<1>4. pc'[p] = "copy" /\ op'[p] = o
  BY <1>0, Zenon DEF TypeOK
<1>5. Alone'
  BY <1>0, <1>3, <1>4, Zenon DEF Alone, Running, setting
<1>6. NoTear'
  <2>1. /\ o = "read" => b # inreadbuf /\ readbuf[b] # NoData
        /\ o = "write" => b # outwritebuf /\ writebuf[b] = NoData
    BY <1>0, ChannelAssumption DEF RingShape, Shape, Held, TypeOK, Bufs
  <2> QED BY <1>0, <1>3, <1>4, <2>1, Zenon DEF NoTear, Running, rx, tx
<1>7. SleepersServed'
  BY <1>0, <1>3, <1>4, Zenon DEF SleepersServed, rx, tx
<1>8. Window'
  BY <1>0, <1>3, <1>4, Zenon DEF Window, Running
<1> QED BY <1>2, <1>5, <1>6, <1>7, <1>8, Zenon DEF IInv

\* A process whose test failed: what the test saw is what Window asks for.
LEMMA WaitKeeps ==
  ASSUME IInv, NEW p \in Procs, mem, KernelFree,
         NEW o \in {"read", "write", "sync", "iomux"}, NEW risk \in BOOLEAN, Waits(p, o, risk),
         o = "read" /\ ~risk => outreadbuf < 0,
         o = "write" => inwritebuf < 0 /\ txdisable' = txdisable /\ (~risk => ~Fleeting),
         UNCHANGED <<rx, inwritebuf, outwritebuf, writebuf, setting, events>>,
         txdisable' \in BOOLEAN, txdisable' => txdisable, MaskType'
  PROVE  IInv'
<1>0. /\ TypeOK /\ RingShape /\ NoTear /\ SleepersServed /\ Alone /\ FullSends /\ Window
      /\ RxType /\ TxType /\ CountType /\ FlagType
  BY TypeParts, Zenon DEF IInv
<1>1. /\ pc' = [pc EXCEPT ![p] = "window"] /\ op' = [op EXCEPT ![p] = o]
      /\ res' = res /\ late' = {}
      /\ atrisk' = IF risk THEN atrisk \cup {p} ELSE atrisk \ {p}
  BY Zenon DEF Waits
<1>2. TypeOK'
  <2>1. RxType' /\ TxType' /\ CountType'
    BY <1>0, Zenon DEF RxType, TxType, CountType, rx, setting
  <2>2. FlagType'
    BY <1>0, Zenon DEF FlagType, rx, setting
  <2>3. ProcType'
    BY <1>0, <1>1, Zenon DEF ProcType, TypeOK
  <2> QED BY <2>1, <2>2, <2>3, TypeParts, Zenon
<1>3. RingShape' /\ FullSends'
  BY <1>0, Zenon DEF RingShape, FullSends, rx, setting
<1>4. pc'[p] = "window" /\ op'[p] = o
  BY <1>0, <1>1, Zenon DEF TypeOK
<1>q. ASSUME NEW q \in Procs, q # p
      PROVE  pc'[q] = pc[q] /\ op'[q] = op[q] /\ pc[q] \notin {"copy", "window"}
             /\ (q \notin atrisk' => q \notin atrisk)
  BY <1>0, <1>1, <1>q, Zenon DEF TypeOK, KernelFree, Running
<1>5. Alone'
  BY <1>0, <1>4, <1>q, Zenon DEF Alone, Running, setting
<1>6. NoTear'
  BY <1>4, <1>q, Zenon DEF NoTear
<1>7. SleepersServed'
  <2> SUFFICES ASSUME NEW q \in Procs, pc'[q] = "asleep", q \notin atrisk'
               PROVE  /\ op'[q] = "read" => inreadbuf' >= 0
                      /\ op'[q] = "write" => outwritebuf' >= 0 /\ ~txdisable'
    BY Zenon DEF SleepersServed
  <2>1. q # p
    BY <1>4, Zenon
  <2>2. pc[q] = "asleep" /\ q \notin atrisk /\ op'[q] = op[q]
    BY <1>q, <2>1, Zenon
  <2> QED BY <1>0, <2>2, Zenon DEF SleepersServed, rx
<1>8. Window'
  <2> SUFFICES ASSUME p \notin atrisk'
               PROVE  /\ o = "read" => inreadbuf' >= 0 /\ outreadbuf' = None
                      /\ o = "write" => outwritebuf' >= 0 /\ ~txdisable' /\ Lasting'
    BY <1>4, <1>q, Zenon DEF Window
  <2>1. /\ outreadbuf < 0 => outreadbuf = None /\ inreadbuf >= 0
        /\ inwritebuf < 0 => inwritebuf = None /\ outwritebuf >= 0
    BY <1>0 DEF TypeOK, RingShape, Shape, None
  <2>2. inwritebuf < 0 => ~txdisable
    BY <1>0, <2>1, Zenon DEF FullSends
  <2>3. ~risk
    BY <1>1, Zenon
  <2>4. ASSUME o = "write" PROVE Lasting'
    <3>1. PICK b \in 0 .. numbufs - 1 : b # outwritebuf /\ writebuf[b] \notin Short
      BY <2>3, <2>4, Zenon DEF Fleeting
    <3>2. b \in Bufs /\ b \in Held(numbufs, inwritebuf, outwritebuf)
      BY <1>0, <2>1, <2>4, ChannelAssumption DEF TypeOK, Bufs, Held, None
    <3>3. Shape(numbufs, inwritebuf, outwritebuf, writebuf)
      BY <1>0, Zenon DEF RingShape
    <3>4. writebuf[b] \in Data
      BY <1>0, <3>2, <3>3, Zenon DEF TxType, Shape
    <3> QED BY <3>1, <3>2, <3>4, Zenon DEF Lasting
  <2> QED BY <2>1, <2>2, <2>3, <2>4, Zenon DEF rx
<1> QED BY <1>2, <1>3, <1>5, <1>6, <1>7, <1>8, Zenon DEF IInv

\* Falling asleep, and being ended by a signal.
LEMMA SchluffenKeeps ==
  ASSUME IInv, NEW p \in Procs, schluffen(p)
  PROVE  IInv'
<1>0. /\ TypeOK /\ NoTear /\ SleepersServed /\ Alone /\ Window
      /\ UNCHANGED <<rx, tx, setting, events, iomask>>
  BY Zenon DEF IInv, schluffen
<1>1. CASE Returns(p) /\ (KernelFree \/ Running(p))
  <2>1. txdisable' = txdisable /\ txdisable \in BOOLEAN /\ MaskType'
    BY <1>0, Zenon DEF TypeOK, tx, MaskType
  <2> QED BY <1>0, <1>1, <2>1, ReturnKeeps DEF tx
<1>2. CASE /\ pc[p] = "window" /\ pc' = [pc EXCEPT ![p] = "asleep"]
           /\ late' = {} /\ UNCHANGED <<op, res, atrisk>>
  <2>1. ProcType' /\ MaskType' /\ CountType'
    BY <1>0, <1>2, Zenon DEF TypeOK, ProcType, MaskType, CountType, setting
  <2>2. TypeOK' /\ RingShape' /\ FullSends'
    BY <1>0, <2>1, RingsKept, Zenon
  <2>3. /\ pc'[p] = "asleep"
        /\ \A q \in Procs \ {p} : pc'[q] = pc[q] /\ ~Running(q)
    BY <1>0, <1>2, Zenon DEF TypeOK, Alone, Running
  <2>4. Alone' /\ NoTear' /\ Window'
    BY <1>0, <1>2, <2>3, Zenon DEF Alone, NoTear, Window, Running, setting
  <2>5. SleepersServed'
    BY <1>0, <1>2, <2>3, Zenon DEF SleepersServed, Window, rx, tx
  <2> QED BY <2>2, <2>4, <2>5, Zenon DEF IInv
<1> QED BY <1>1, <1>2, Zenon DEF schluffen, Running
\* The process that copied returns: nobody runs, and the others are as they were.
LEMMA CopyReturns ==
  ASSUME IInv, NEW p \in Procs, pc[p] = "copy", Returns(p), mem' = mem
  PROVE  /\ ProcType' /\ Alone' /\ NoTear' /\ Window'
         /\ \A q \in Procs : pc'[q] = "asleep" /\ q \notin atrisk' =>
                              pc[q] = "asleep" /\ q \notin atrisk /\ op'[q] = op[q]
<1>0. TypeOK /\ Alone
  BY Zenon DEF IInv
<1>1. \A q \in Procs : ~Running(q)'
  BY <1>0, Return, Zenon DEF Alone, Running
<1>2. ProcType'
  BY <1>0, Return, Zenon DEF ProcType
<1>3. Alone'
  BY <1>0, <1>1, Return, Zenon DEF Alone
<1>4. NoTear' /\ Window'
  BY <1>1, Zenon DEF NoTear, Window, Running
<1>5. \A q \in Procs : pc'[q] = "asleep" /\ q \notin atrisk' =>
                        pc[q] = "asleep" /\ q \notin atrisk /\ op'[q] = op[q]
  BY <1>0, Return, Zenon
<1> QED BY <1>2, <1>3, <1>4, <1>5, Zenon

\* A reader gives back the buffer it has copied from.
LEMMA ReadDoneKeeps ==
  ASSUME IInv, NEW p \in Procs, ReadDone(p)
  PROVE  IInv'
<1>0. /\ TypeOK /\ RingShape /\ NoTear /\ SleepersServed /\ Alone /\ FullSends /\ Window
      /\ pc[p] = "copy" /\ op[p] = "read" /\ Returns(p)
      /\ UNCHANGED <<tx, setting, events, iomask>>
  BY Zenon DEF IInv, ReadDone
<1>p. RxType /\ TxType /\ CountType /\ FlagType /\ MaskType
  BY <1>0, TypeParts, Zenon
<1>1. CASE UNCHANGED rx
  <2>1. txdisable' = txdisable /\ txdisable \in BOOLEAN /\ MaskType'
    BY <1>0, <1>p, Zenon DEF FlagType, tx, MaskType
  <2> QED BY <1>0, <1>1, <2>1, ReturnKeeps DEF tx, Running
<1>2. CASE take
  <2>0. mem /\ res = outreadbuf /\ res \in 0 .. numbufs - 1
        /\ Shape(numbufs, inreadbuf, outreadbuf, readbuf)
    <3>1. mem
      BY <1>0, Zenon DEF Alone
    <3>2. res = outreadbuf /\ res \in Bufs
      BY <1>0 DEF NoTear, TypeOK
    <3> QED BY <1>0, <1>p, <3>1, <3>2 DEF RingShape, RxType, CountType, Bufs
  <2>1. /\ outreadbuf' = After(numbufs, outreadbuf, inreadbuf)
        /\ inreadbuf' = IF inreadbuf < 0 THEN outreadbuf ELSE inreadbuf
        /\ readbuf' = [readbuf EXCEPT ![outreadbuf] = NoData]
    BY <1>2, <2>0, Zenon DEF take, Succ, After
  <2>2. numbufs \in 2 .. MaxBufs /\ inreadbuf \in -1 .. numbufs - 1
        /\ readbuf \in [Bufs -> Data \cup {NoData}]
    BY <1>p DEF CountType, RxType
  <2>3. /\ outreadbuf' \in -1 .. numbufs - 1
        /\ Shape(numbufs, inreadbuf', outreadbuf', readbuf')
    BY <2>0, <2>1, <2>2, ShapeTake, Zenon
  <2>4. inreadbuf' \in 0 .. numbufs - 1
    BY <2>0, <2>1, <2>2
  <2>5. rxdisable' \in BOOLEAN
    BY <1>2, <1>p, Zenon DEF take, FlagType
  <2>6. TypeOK'
    <3>1. RxType'
      <4>1. readbuf' \in [Bufs -> Data \cup {NoData}]
        BY <2>1, <2>2, Zenon
      <4>2. inreadbuf' \in -1 .. numbufs - 1 /\ outreadbuf' \in -1 .. numbufs - 1
        BY <2>2, <2>3, <2>4, ChannelAssumption
      <4> QED BY <1>0, <4>1, <4>2, Zenon DEF RxType, setting
    <3>2. TxType' /\ CountType' /\ MaskType'
      BY <1>0, <1>p, Zenon DEF TxType, CountType, MaskType, tx, setting
    <3>3. FlagType'
      BY <1>0, <1>p, <2>5, Zenon DEF FlagType, tx, setting
    <3>4. ProcType'
      BY <1>0, CopyReturns, Zenon DEF setting
    <3> QED BY <3>1, <3>2, <3>3, <3>4, TypeParts, Zenon
  <2>7. RingShape' /\ FullSends'
    BY <1>0, <2>0, <2>3, Zenon DEF RingShape, FullSends, tx, setting
  <2>8. SleepersServed'
    <3> SUFFICES ASSUME NEW q \in Procs, pc'[q] = "asleep", q \notin atrisk'
                 PROVE  /\ op'[q] = "read" => inreadbuf' >= 0
                        /\ op'[q] = "write" => outwritebuf' >= 0 /\ ~txdisable'
      BY Zenon DEF SleepersServed
    <3>1. pc[q] = "asleep" /\ q \notin atrisk /\ op'[q] = op[q]
      BY <1>0, CopyReturns DEF setting
    <3>2. op'[q] = "write" => outwritebuf' >= 0 /\ ~txdisable'
      BY <1>0, <3>1, Zenon DEF SleepersServed, tx
    <3>3. inreadbuf' >= 0
      BY <2>4, <2>2
    <3> QED BY <3>2, <3>3, Zenon
  <2>9. Alone' /\ NoTear' /\ Window'
    BY <1>0, CopyReturns, Zenon DEF setting
  <2> QED BY <2>6, <2>7, <2>8, <2>9, Zenon DEF IInv
<1> QED BY <1>1, <1>2, Zenon DEF ReadDone

\* A writer hands over the buffer it has filled.
LEMMA WriteDoneKeeps ==
  ASSUME IInv, NEW p \in Procs, NEW d \in Data, WriteDone(p, d)
  PROVE  IInv'
<1>0. /\ TypeOK /\ RingShape /\ NoTear /\ SleepersServed /\ Alone /\ FullSends /\ Window
      /\ pc[p] = "copy" /\ op[p] = "write" /\ Returns(p)
      /\ UNCHANGED <<rx, setting, events, iomask>>
  BY Zenon DEF IInv, WriteDone
<1>p. RxType /\ TxType /\ CountType /\ FlagType /\ MaskType
  BY <1>0, TypeParts, Zenon
<1>1. CASE UNCHANGED tx
  <2>1. txdisable' = txdisable /\ txdisable \in BOOLEAN /\ MaskType'
    BY <1>0, <1>1, <1>p, Zenon DEF FlagType, tx, MaskType
  <2> QED BY <1>0, <1>1, <2>1, ReturnKeeps, SMTT(30) DEF tx, Running
<1>2. CASE fill(d)
  <2>0. mem /\ res = inwritebuf /\ res \in 0 .. numbufs - 1
        /\ Shape(numbufs, inwritebuf, outwritebuf, writebuf)
    <3>1. mem
      BY <1>0, Zenon DEF Alone
    <3>2. res = inwritebuf /\ res \in Bufs
      BY <1>0, Zenon DEF NoTear, TypeOK
    <3> QED BY <1>0, <1>p, <3>1, <3>2 DEF RingShape, TxType, CountType, Bufs
  <2>1. /\ inwritebuf' = After(numbufs, inwritebuf, outwritebuf)
        /\ outwritebuf' = IF outwritebuf < 0 THEN inwritebuf ELSE outwritebuf
        /\ writebuf' = [writebuf EXCEPT ![inwritebuf] = d]
    BY <1>2, <2>0, Zenon DEF fill, Succ, After
  <2>2. numbufs \in 2 .. MaxBufs /\ outwritebuf \in -1 .. numbufs - 1
        /\ writebuf \in [Bufs -> Data \cup {NoData}]
    BY <1>p DEF CountType, TxType
  <2>3. /\ inwritebuf' \in -1 .. numbufs - 1
        /\ Shape(numbufs, inwritebuf', outwritebuf', writebuf')
    BY <2>0, <2>1, <2>2, ShapePut, Zenon
  <2>4. outwritebuf' \in 0 .. numbufs - 1
    BY <2>0, <2>1, <2>2
  <2>5. txdisable' \in BOOLEAN /\ (txdisable' => txdisable)
    BY <1>2, <1>p, Zenon DEF fill, FlagType
  <2>6. TypeOK'
    <3>1. TxType'
      <4>1. writebuf' \in [Bufs -> Data \cup {NoData}]
        BY <2>1, <2>2, Zenon
      <4>2. inwritebuf' \in -1 .. numbufs - 1 /\ outwritebuf' \in -1 .. numbufs - 1
        BY <2>2, <2>3, <2>4, ChannelAssumption
      <4> QED BY <1>0, <4>1, <4>2, Zenon DEF TxType, setting
    <3>2. RxType' /\ CountType' /\ MaskType'
      BY <1>0, <1>p, Zenon DEF RxType, CountType, MaskType, rx, setting
    <3>3. FlagType'
      BY <1>0, <1>p, <2>5, Zenon DEF FlagType, rx, setting
    <3>4. ProcType'
      BY <1>0, CopyReturns, Zenon DEF setting
    <3> QED BY <3>1, <3>2, <3>3, <3>4, TypeParts, Zenon
  <2>7. FullSends'
    <3>1. Succ(res) \in 0 .. numbufs - 1
      BY <2>0, <2>2, ChannelAssumption, SuccIs DEF Succ
    <3>2. inwritebuf' = None => Succ(res) = outwritebuf
      BY <1>2, <2>2, <3>1 DEF fill, None
    <3>3. Succ(res) = outwritebuf => ~txdisable'
      BY <1>2, Zenon DEF fill
    <3> QED BY <3>2, <3>3, Zenon DEF FullSends
  <2>8. RingShape'
    BY <1>0, <2>0, <2>3, Zenon DEF RingShape, rx, setting
  <2>9. SleepersServed'
    <3> SUFFICES ASSUME NEW q \in Procs, pc'[q] = "asleep", q \notin atrisk'
                 PROVE  /\ op'[q] = "read" => inreadbuf' >= 0
                        /\ op'[q] = "write" => outwritebuf' >= 0 /\ ~txdisable'
      BY Zenon DEF SleepersServed
    <3>1. pc[q] = "asleep" /\ q \notin atrisk /\ op'[q] = op[q]
      BY <1>0, CopyReturns DEF setting
    <3>2. /\ op'[q] = "read" => inreadbuf' >= 0
          /\ op'[q] = "write" => ~txdisable
      BY <1>0, <3>1 DEF SleepersServed, rx
    <3>3. outwritebuf' >= 0
      BY <2>4, <2>2, SMTT(30)
    <3> QED BY <2>5, <3>2, <3>3, Zenon
  <2>10. Alone' /\ NoTear' /\ Window'
    BY <1>0, CopyReturns, Zenon DEF setting
  <2> QED BY <2>6, <2>7, <2>8, <2>9, <2>10, Zenon DEF IInv
<1> QED BY <1>1, <1>2, Zenon DEF WriteDone

\* While no system call runs, a step that only puts processes to rest or wakes them
\* has nothing to show about copies and windows.
LEMMA NobodyRuns ==
  ASSUME IInv, KernelFree, op' = op, mem' = mem, pc' = pc \/ \E queues : wake_up(queues)
  PROVE  Alone' /\ NoTear' /\ Window'
<1>1. \A p \in Procs : pc'[p] = pc[p] \/ (pc[p] = "asleep" /\ pc'[p] = "woken")
  BY WakeUp, Zenon DEF IInv
<1>2. \A p \in Procs : pc'[p] \notin {"copy", "window"}
  BY <1>1, Zenon DEF KernelFree, Running
<1> QED BY <1>1, <1>2, Zenon DEF IInv, Alone, NoTear, Window, Running

\* ZT_FLUSH resets rings and wakes those who sleep on them.
LEMMA FlushKeeps ==
  ASSUME IInv, NEW what, ZT_FLUSH(what)
  PROVE  IInv'
<1> USE ChannelAssumption
<1> DEFINE queues == (IF "read" \in what THEN {"readbufq"} ELSE {})
               \cup (IF "write" \in what THEN {"writebufq"} \cup IfMasked({"empty"}) ELSE {})
<1>0. /\ TypeOK /\ RingShape /\ SleepersServed /\ FullSends /\ mem /\ KernelFree
      /\ wake_up(queues) /\ events' = IF "event" \in what THEN 0 ELSE events
      /\ UNCHANGED <<rxdisable, txdisable, setting, iomask, op, res, late>>
      /\ RxType /\ TxType /\ CountType /\ FlagType /\ MaskType /\ ProcType
  BY TypeParts, Zenon DEF IInv, ZT_FLUSH
<1>1. /\ "read" \in what => inreadbuf' = 0 /\ outreadbuf' = None /\ readbuf' = Empty
      /\ "read" \notin what => UNCHANGED <<inreadbuf, outreadbuf, readbuf>>
  BY Zenon DEF ZT_FLUSH, ResetRead
<1>2. /\ "write" \in what => inwritebuf' = 0 /\ outwritebuf' = None /\ writebuf' = Empty
      /\ "write" \notin what => UNCHANGED <<inwritebuf, outwritebuf, writebuf>>
  BY Zenon DEF ZT_FLUSH, ResetWrite
<1>n. numbufs \in Nat /\ numbufs >= 2 /\ numbufs' = numbufs /\ mem' = mem
  BY <1>0 DEF CountType, setting
<1>3. TypeOK'
  <2>1. RxType'
    BY <1>0, <1>1, <1>n DEF RxType, Empty, None
  <2>2. TxType'
    BY <1>0, <1>2, <1>n DEF TxType, Empty, None
  <2>3. CountType' /\ MaskType'
    BY <1>0 DEF CountType, MaskType, setting
  <2>4. FlagType'
    BY <1>0, Zenon DEF FlagType, setting
  <2>5. ProcType'
    BY <1>0, WakeUp, SMTT(30) DEF ProcType
  <2> QED BY <2>1, <2>2, <2>3, <2>4, <2>5, TypeParts, Zenon
<1>4. RingShape'
  BY <1>0, <1>1, <1>2, <1>n, ShapeReset, Zenon DEF RingShape
<1>5. FullSends'
  BY <1>0, <1>2, <1>n, SMTT(30) DEF FullSends, None
<1>6. SleepersServed'
  <2> SUFFICES ASSUME NEW p \in Procs, pc'[p] = "asleep", p \notin atrisk'
               PROVE  /\ op[p] = "read" => inreadbuf' >= 0
                      /\ op[p] = "write" => outwritebuf' >= 0 /\ ~txdisable
    BY <1>0, Zenon DEF SleepersServed
  <2>1. pc[p] = "asleep" /\ p \notin atrisk /\ WaitsOn(op[p]) \notin queues
    BY <1>0, WakeUp, Zenon
  <2>2. /\ op[p] = "read" => "read" \notin what
        /\ op[p] = "write" => "write" \notin what
    BY <2>1, Zenon DEF WaitsOn
  <2> QED BY <1>0, <1>1, <1>2, <2>1, <2>2, Zenon DEF SleepersServed
<1>7. Alone' /\ NoTear' /\ Window'
  BY <1>0, <1>n, NobodyRuns, Zenon
<1> QED BY <1>3, <1>4, <1>5, <1>6, <1>7, Zenon DEF IInv

\* A reset of both rings under whatever sleepers there are.
LEMMA ResetKeeps ==
  ASSUME IInv, NEW n \in 2 .. MaxBufs, NEW there \in BOOLEAN, numbufs' = n, mem' = there,
         ResetRead(there), ResetWrite(there),
         \A p \in Procs : pc[p] \notin {"copy", "window"} /\ (pc[p] # "user" => there),
         UNCHANGED <<pc, op, res, late>>,
         Strand \/ (atrisk' = atrisk /\ \A p \in Procs : pc[p] = "user"),
         FlagType', MaskType', events' \in 0 .. MaxEvents
  PROVE  IInv'
<1> USE ChannelAssumption
<1>0. ProcType
  BY TypeParts, Zenon DEF IInv
<1>1. /\ inreadbuf' = (IF there THEN 0 ELSE -1) /\ outreadbuf' = -1 /\ readbuf' = Empty
      /\ inwritebuf' = (IF there THEN 0 ELSE -1) /\ outwritebuf' = -1 /\ writebuf' = Empty
  BY Zenon DEF ResetRead, ResetWrite, None
<1>2. TypeOK'
  <2>1. RxType' /\ TxType'
    BY <1>1 DEF RxType, TxType, Empty
  <2>2. CountType'
    BY Zenon DEF CountType
  <2>3. ProcType'
    BY <1>0, Zenon DEF ProcType, Strand
  <2> QED BY <2>1, <2>2, <2>3, TypeParts, Zenon
<1>3. RingShape'
  <2>1. CASE there
    <3>1. Shape(n, 0, -1, Empty)
      BY ShapeReset, SMTT(30) DEF None
    <3> QED BY <1>1, <2>1, <3>1, Zenon DEF RingShape
  <2>2. CASE ~there
    BY <1>1, <2>2, Zenon DEF RingShape, None
  <2> QED BY <2>1, <2>2, Zenon
<1>4. FullSends'
  BY <1>1, SMTT(30) DEF FullSends, None
<1>5. SleepersServed'
  BY Zenon DEF SleepersServed, Strand
<1>6. Alone' /\ NoTear' /\ Window'
  BY Zenon DEF Alone, NoTear, Window, Running
<1> QED BY <1>2, <1>3, <1>4, <1>5, <1>6, Zenon DEF IInv

\* The calls that end at once.
LEMMA IoctlsKeep ==
  ASSUME IInv, Ioctls
  PROVE  IInv'
<1> USE ChannelAssumption
<1>0. /\ TypeOK /\ Alone
      /\ RxType /\ TxType /\ CountType /\ FlagType /\ MaskType /\ ProcType
  BY TypeParts, Zenon DEF IInv
<1>1. ASSUME NEW what \in SUBSET {"read", "write", "event"}, ZT_FLUSH(what)
      PROVE  IInv'
  BY <1>1, FlushKeeps
<1>2. ASSUME NEW n \in 2 .. MaxBufs, zt_reallocbufs(n)
      PROVE  IInv'
  <2>1. /\ KernelFree /\ mem /\ numbufs' = n /\ mem' = TRUE /\ Strand
        /\ ResetRead(TRUE) /\ ResetWrite(TRUE)
        /\ UNCHANGED <<pc, op, res, late>> /\ UNCHANGED <<events, iomask>>
    BY <1>2, Zenon DEF zt_reallocbufs, Reallocated
  <2>2. FlagType'
    BY <1>0, <1>2, Zenon DEF zt_reallocbufs, Reallocated, FlagType, Policies
  <2>3. MaskType' /\ events' \in 0 .. MaxEvents
    BY <1>0, <2>1, Zenon DEF MaskType, CountType
  <2> QED BY <2>1, <2>2, <2>3, ResetKeeps, Zenon DEF KernelFree, Running
<1>3. ASSUME NEW r \in Policies, NEW t \in Policies, SetPolicies(r, t)
      PROVE  IInv'
  <2>1. /\ KernelFree /\ rxbufpolicy' = r /\ txbufpolicy' = t
        /\ UNCHANGED <<rx, tx, numbufs, mem, events, iomask, pc, op, res, late, atrisk>>
    BY <1>3, Zenon DEF SetPolicies
  <2>2. RxType' /\ TxType' /\ CountType'
    BY <1>0, <2>1, Zenon DEF RxType, TxType, CountType, rx, tx
  <2>3. FlagType' /\ MaskType' /\ ProcType'
    BY <1>0, <2>1, Zenon DEF FlagType, MaskType, ProcType, rx, tx
  <2>4. TypeOK'
    BY <2>2, <2>3, TypeParts, Zenon
  <2>5. RingShape' /\ FullSends' /\ SleepersServed'
    BY <2>1, Zenon DEF IInv, RingShape, FullSends, SleepersServed, rx, tx
  <2>6. Alone' /\ NoTear' /\ Window'
    BY <2>1, NobodyRuns, Zenon
  <2> QED BY <2>4, <2>5, <2>6, Zenon DEF IInv
<1>4. ASSUME zt_hangup
      PROVE  IInv'
  <2>1. /\ KernelFree /\ numbufs' = numbufs /\ mem' = mem /\ Strand
        /\ ResetRead(mem) /\ ResetWrite(mem)
        /\ UNCHANGED <<pc, op, res, late>> /\ UNCHANGED <<events, iomask>>
    BY <1>4, Zenon DEF zt_hangup, setting
  <2>2. FlagType'
    BY <1>0, <1>4, Zenon DEF zt_hangup, FlagType, setting
  <2>3. MaskType' /\ events' \in 0 .. MaxEvents
    BY <1>0, <2>1, Zenon DEF MaskType, CountType
  <2>4. numbufs \in 2 .. MaxBufs /\ mem \in BOOLEAN
    BY <1>0, Zenon DEF CountType, FlagType
  <2>5. \A p \in Procs : pc[p] \notin {"copy", "window"} /\ (pc[p] # "user" => mem)
    BY <1>0, <2>1 DEF Alone, KernelFree, Running
  <2> QED BY <2>1, <2>2, <2>3, <2>4, <2>5, ResetKeeps, Zenon
<1>5. ASSUME initialize_channel
      PROVE  IInv'
  <2>1. /\ ~mem /\ numbufs' = 2 /\ mem' = TRUE /\ ResetRead(TRUE) /\ ResetWrite(TRUE)
        /\ UNCHANGED <<pc, op, res, late>> /\ atrisk' = atrisk /\ events' = 0 /\ iomask' = {}
    BY <1>5, Zenon DEF initialize_channel, Reallocated
  <2>2. FlagType' /\ MaskType' /\ events' \in 0 .. MaxEvents
    BY <1>5 DEF initialize_channel, Reallocated, FlagType, MaskType, Policies
  <2>3. \A p \in Procs : pc[p] = "user"
    BY <1>0, <2>1, Zenon DEF Alone
  <2>4. \A p \in Procs : pc[p] \notin {"copy", "window"} /\ (pc[p] # "user" => TRUE)
    BY <2>3, Zenon
  <2>5. 2 \in 2 .. MaxBufs
    OBVIOUS
  <2> QED BY <2>1, <2>2, <2>3, <2>4, <2>5, ResetKeeps, Zenon
<1>6. ASSUME close_channel
      PROVE  IInv'
  <2>1. /\ numbufs' = 2 /\ mem' = FALSE /\ ResetRead(FALSE) /\ ResetWrite(FALSE)
        /\ UNCHANGED <<pc, op, res, late>> /\ atrisk' = atrisk /\ events' = events /\ iomask' = {}
        /\ \A p \in Procs : pc[p] = "user"
    BY <1>6, Zenon DEF close_channel, Reallocated
  <2>2. FlagType'
    BY <1>0, <1>6, Zenon DEF close_channel, Reallocated, FlagType, Policies
  <2>3. MaskType' /\ events' \in 0 .. MaxEvents
    BY <1>0, <2>1, Zenon DEF MaskType, CountType
  <2>4. \A p \in Procs : pc[p] \notin {"copy", "window"} /\ (pc[p] # "user" => FALSE)
    BY <2>1, Zenon
  <2>5. 2 \in 2 .. MaxBufs
    OBVIOUS
  <2> QED BY <2>1, <2>2, <2>3, <2>4, <2>5, ResetKeeps, Zenon
<1>7. ASSUME ZT_GETEVENT
      PROVE  IInv'
  <2>1. /\ KernelFree /\ events > 0 /\ events' = events - 1
        /\ UNCHANGED <<rx, tx, setting, iomask, pc, op, res, late, atrisk>>
    BY <1>7, Zenon DEF ZT_GETEVENT
  <2>2. ProcType' /\ MaskType' /\ CountType'
    BY <1>0, <2>1 DEF ProcType, MaskType, CountType, setting
  <2>3. TypeOK' /\ RingShape' /\ FullSends'
    BY <2>1, <2>2, RingsKept, Zenon
  <2>4. SleepersServed'
    BY <2>1, Zenon DEF IInv, SleepersServed, rx, tx
  <2>5. Alone' /\ NoTear' /\ Window'
    BY <2>1, NobodyRuns, Zenon DEF setting
  <2> QED BY <2>3, <2>4, <2>5, Zenon DEF IInv
<1> QED BY <1>1, <1>2, <1>3, <1>4, <1>5, <1>6, <1>7, Zenon DEF Ioctls

\* The first steps of reading, writing and waiting.
LEMMA CallsKeep ==
  ASSUME IInv, NEW p \in Procs, Calls(p)
  PROVE  IInv'
<1>0. /\ TypeOK /\ RxType /\ TxType /\ CountType /\ FlagType /\ MaskType
  BY TypeParts, Zenon DEF IInv
<1>b. /\ txdisable \in BOOLEAN /\ rxdisable \in BOOLEAN
      /\ outreadbuf >= 0 => outreadbuf \in Bufs
      /\ inwritebuf >= 0 => inwritebuf \in Bufs
  <2>1. txdisable \in BOOLEAN /\ rxdisable \in BOOLEAN
    BY <1>0, Zenon DEF FlagType
  <2>2. /\ outreadbuf >= 0 => outreadbuf \in Bufs
        /\ inwritebuf >= 0 => inwritebuf \in Bufs
    BY <1>0, ChannelAssumption DEF RxType, TxType, CountType, Bufs
  <2> QED BY <2>1, <2>2, Zenon
<1>1. CASE zt_chan_read(p)
  <2>1. /\ KernelFree /\ mem /\ UNCHANGED <<rx, tx, setting, events, iomask>>
    BY <1>1, Zenon DEF zt_chan_read, Enters
  <2>2. /\ txdisable' \in BOOLEAN /\ txdisable' = txdisable /\ (txdisable' => txdisable)
        /\ UNCHANGED <<rx, inwritebuf, outwritebuf, writebuf, setting, events>> /\ MaskType'
    BY <1>0, <1>b, <2>1, Zenon DEF MaskType, tx
  <2>3. CASE Returns(p)
    BY <1>b, <2>1, <2>2, <2>3, ReturnKeeps, Zenon
  <2>4. CASE ReadReady /\ Copies(p, "read", outreadbuf)
    BY <1>b, <2>1, <2>4, CopyKeeps, Zenon DEF ReadReady
  <2>5. CASE Waits(p, "read", outreadbuf >= 0)
    <3>1. (outreadbuf >= 0) \in BOOLEAN /\ (~(outreadbuf >= 0) => outreadbuf < 0)
      BY <1>0, ChannelAssumption DEF RxType, CountType
    <3> QED BY <1>b, <2>1, <2>2, <2>5, <3>1, WaitKeeps, Zenon
  <2> QED BY <1>1, <2>3, <2>4, <2>5, Zenon DEF zt_chan_read
<1>2. CASE zt_chan_write(p)
  <2>1. /\ KernelFree /\ mem /\ UNCHANGED <<rx, tx, setting, events, iomask>>
    BY <1>2, Zenon DEF zt_chan_write, Enters
  <2>2. /\ txdisable' \in BOOLEAN /\ txdisable' = txdisable /\ (txdisable' => txdisable)
        /\ UNCHANGED <<rx, inwritebuf, outwritebuf, writebuf, setting, events>> /\ MaskType'
    BY <1>0, <1>b, <2>1 DEF MaskType, tx
  <2>3. CASE Returns(p)
    BY <1>b, <2>1, <2>2, <2>3, ReturnKeeps
  <2>4. CASE inwritebuf >= 0 /\ Copies(p, "write", inwritebuf)
    BY <1>b, <2>1, <2>4, CopyKeeps, Zenon
  <2>5. CASE inwritebuf < 0 /\ Waits(p, "write", Fleeting)
    <3>1. Fleeting \in BOOLEAN
      BY Zenon DEF Fleeting
    <3> QED BY <1>b, <2>1, <2>2, <2>5, <3>1, WaitKeeps, Zenon
  <2> QED BY <1>2, <2>3, <2>4, <2>5, Zenon DEF zt_chan_write
<1>3. CASE ZT_SYNC(p)
  <2>1. /\ KernelFree /\ mem /\ UNCHANGED <<rx, tx, setting, events, iomask>>
    BY <1>3, Zenon DEF ZT_SYNC, Enters
  <2>2. /\ txdisable' \in BOOLEAN /\ txdisable' = txdisable /\ (txdisable' => txdisable)
        /\ UNCHANGED <<rx, inwritebuf, outwritebuf, writebuf, setting, events>> /\ MaskType'
    BY <1>0, <1>b, <2>1 DEF MaskType, tx
  <2>3. CASE Returns(p)
    BY <1>b, <2>1, <2>2, <2>3, ReturnKeeps
  <2>4. CASE Waits(p, "sync", FALSE)
    BY <1>b, <2>1, <2>2, <2>4, WaitKeeps, Zenon
  <2> QED BY <1>3, <2>3, <2>4, Zenon DEF ZT_SYNC
<1>4. ASSUME NEW m \in Masks \cup {{}, iomask}, ZT_IOMUX(p, m)
      PROVE  IInv'
  <2>1. /\ KernelFree /\ mem
        /\ UNCHANGED <<rx, inwritebuf, outwritebuf, writebuf, setting, events>>
    BY <1>4, Zenon DEF ZT_IOMUX, Enters
  <2>2. txdisable' \in BOOLEAN /\ (txdisable' => txdisable)
    BY <1>4, <1>b DEF ZT_IOMUX
  <2>3. MaskType'
    <3>1. m \in SUBSET {"read", "write", "empty", "sig", "nowait"}
      BY <1>0, <1>4, ChannelAssumption, Zenon DEF MaskType
    <3>2. iomask' = {} \/ iomask' = m
      BY <1>4, Zenon DEF ZT_IOMUX
    <3> QED BY <3>1, <3>2, Zenon DEF MaskType
  <2>4. CASE Returns(p)
    BY <2>1, <2>2, <2>3, <2>4, ReturnKeeps, Zenon
  <2>5. CASE Waits(p, "iomux", FALSE)
    BY <2>1, <2>2, <2>3, <2>5, WaitKeeps, Zenon
  <2> QED BY <1>4, <2>4, <2>5, Zenon DEF ZT_IOMUX
<1> QED BY <1>1, <1>2, <1>3, <1>4, Zenon DEF Calls

\* Every step keeps the invariant.
LEMMA NextKeeps == IInv /\ [Next]_vars => IInv'
<1> SUFFICES ASSUME IInv, [Next]_vars PROVE IInv'
  BY Zenon
<1>1. ASSUME NEW d \in Data, __putbuf_chunk(d) PROVE IInv'
  BY <1>1, PutbufKeeps, Zenon
<1>2. CASE __zt_getbuf_chunk
  BY <1>2, GetbufKeeps, Zenon
<1>3. CASE __qevent
  BY <1>3, QeventKeeps, Zenon
<1>4. CASE Ioctls
  BY <1>4, IoctlsKeep
<1>5. ASSUME NEW p \in Procs, Calls(p) PROVE IInv'
  BY <1>5, CallsKeep
<1>6. ASSUME NEW p \in Procs, Proceeds(p) PROVE IInv'
  BY <1>6, SchluffenKeeps, ReadDoneKeeps, WriteDoneKeeps, Zenon DEF Proceeds
<1>7. CASE UNCHANGED vars
  <2>1. /\ UNCHANGED <<rx, tx, setting>> /\ UNCHANGED <<events, iomask, pc, op, res, late, atrisk>>
    BY <1>7, Zenon DEF vars
  <2>2. ProcType' /\ MaskType' /\ CountType'
    BY <2>1, TypeParts, Zenon DEF IInv, ProcType, MaskType, CountType, setting
  <2>3. TypeOK' /\ RingShape' /\ FullSends'
    BY <2>1, <2>2, RingsKept, Zenon
  <2>4. NoTear' /\ SleepersServed' /\ Alone' /\ Window'
    <3>1. Lasting => Lasting'
      BY <2>1, Zenon DEF Lasting, tx
    <3>2. NoTear' /\ SleepersServed' /\ Alone'
      BY <2>1, Zenon DEF IInv, NoTear, SleepersServed, Alone, Running, rx, tx, setting
    <3>3. Window'
      BY <2>1, <3>1, Zenon DEF IInv, Window, rx, tx
    <3> QED BY <3>2, <3>3
  <2> QED BY <2>3, <2>4, Zenon DEF IInv
<1> QED BY <1>1, <1>2, <1>3, <1>4, <1>5, <1>6, <1>7, Zenon DEF Next, Line

\* The rings keep their shape, whatever the interrupt handler, the programs, the
\* flushes, hang-ups and reallocations do, for any number of buffers.
THEOREM ShapeHolds == Spec => []RingShape
<1>1. IInv => RingShape
  BY Zenon DEF IInv
<1> QED BY <1>1, InitIInv, NextKeeps, PTL DEF Spec

\* No buffer is filled or sent while a program copies from or to it.
THEOREM CopiesAreWhole == Spec => []NoTear
<1>1. IInv => NoTear
  BY Zenon DEF IInv
<1> QED BY <1>1, InitIInv, NextKeeps, PTL DEF Spec

\* With one interrupt in the window before a sleep, however many blocks it ends there,
\* readers and writers sleep only while the handler will wake them, for any number of
\* programs and buffers and but for the exceptions that SleepersServed names.
THEOREM SleepersServedHolds == Spec => []SleepersServed
<1>1. IInv => SleepersServed
  BY Zenon DEF IInv
<1> QED BY <1>1, InitIInv, NextKeeps, PTL DEF Spec

-----------------------------------------------------------------------------
\* The rings as queues: the lemmas on the sequence a ring stands for, then the
\* refinement, one lemma per kind of step.

\* The remainder of a number less than twice the divisor.
LEMMA ModIs ==
  ASSUME NEW n \in Nat, n >= 2, NEW x \in 0 .. 2 * n - 1
  PROVE  x % n = IF x < n THEN x ELSE x - n
<1>1. CASE x < n
  BY <1>1, Z3
<1>2. CASE x >= n
  <2>1. PICK y \in 0 .. n - 1 : x = n + y
    BY <1>2
  <2>2. (n + y) % n = y
    BY <2>1, Z3
  <2> QED BY <1>2, <2>1, <2>2
<1> QED BY <1>1, <1>2

\* The count and the places of the blocks, without the remainder.
LEMMA CountIs ==
  ASSUME NEW n \in Nat, n >= 2, NEW in \in -1 .. n - 1, NEW out \in -1 .. n - 1, in # out
  PROVE  /\ Count(n, in, out) = IF out < 0 THEN 0 ELSE IF in < 0 THEN n
                                ELSE IF out < in THEN in - out ELSE in - out + n
         /\ Count(n, in, out) \in 0 .. n
<1>1. CASE out < 0 \/ in < 0
  BY <1>1 DEF Count
<1>2. CASE out >= 0 /\ in >= 0
  <2>1. in - out + n \in 0 .. 2 * n - 1
    BY <1>2
  <2>2. PICK x \in 0 .. 2 * n - 1 : x = in - out + n
    BY <2>1, Zenon
  <2>3. x % n = IF x < n THEN x ELSE x - n
    BY ModIs, Zenon
  <2> QED BY <1>2, <2>2, <2>3 DEF Count
<1> QED BY <1>1, <1>2

\* The buffer of the i-th block of a ring whose oldest block is in out.
Place(n, out, i) == IF out + i - 1 < n THEN out + i - 1 ELSE out + i - 1 - n

\* The blocks of a ring as a sequence.
LEMMA BlocksAre ==
  ASSUME NEW n \in 2 .. MaxBufs, NEW in \in -1 .. n - 1, NEW out \in -1 .. n - 1, in # out,
         NEW buf \in [Bufs -> Data \cup {NoData}]
  PROVE  /\ Blocks(n, in, out, buf) \in Seq(Data \cup {NoData})
         /\ Len(Blocks(n, in, out, buf)) = Count(n, in, out)
         /\ \A i \in 1 .. Count(n, in, out) :
              Place(n, out, i) \in 0 .. n - 1 /\ Blocks(n, in, out, buf)[i] = buf[Place(n, out, i)]
<1> DEFINE c == Count(n, in, out)
<1>0. n \in Nat /\ n >= 2 /\ n <= MaxBufs /\ MaxBufs \in Nat
  BY ChannelAssumption
<1>1. c \in 0 .. n /\ (c > 0 => out >= 0)
  BY <1>0, CountIs
<1>2. ASSUME NEW i \in 1 .. c
      PROVE  /\ (out + i - 1) % n = Place(n, out, i) /\ Place(n, out, i) \in 0 .. n - 1
             /\ (out + i - 1) % n \in Bufs
  <2>1. out + i - 1 \in 0 .. 2 * n - 1
    BY <1>0, <1>1
  <2>2. PICK x \in 0 .. 2 * n - 1 : x = out + i - 1
    BY <2>1
  <2>3. x % n = IF x < n THEN x ELSE x - n
    BY <1>0, ModIs, Zenon
  <2> QED BY <1>0, <2>2, <2>3 DEF Bufs, Place
<1>3. Blocks(n, in, out, buf) \in [1 .. c -> Data \cup {NoData}]
  BY <1>2, Zenon DEF Blocks
<1>4. c \in Nat
  BY <1>0, <1>1
<1> HIDE DEF c
<1>5. /\ Blocks(n, in, out, buf) \in Seq(Data \cup {NoData})
      /\ Len(Blocks(n, in, out, buf)) = c
  BY <1>3, <1>4
<1> QED BY <1>2, <1>5, Zenon DEF Blocks, c

\* Filling the free buffer puts a block at the end of the queue.
LEMMA BlocksPut ==
  ASSUME NEW n \in 2 .. MaxBufs, NEW in \in 0 .. n - 1, NEW out \in -1 .. n - 1, in # out,
         NEW buf \in [Bufs -> Data \cup {NoData}], NEW d \in Data
  PROVE  Blocks(n, After(n, in, out), IF out < 0 THEN in ELSE out, [buf EXCEPT ![in] = d])
           = Append(Blocks(n, in, out, buf), d)
<1> DEFINE i == After(n, in, out)
           o == IF out < 0 THEN in ELSE out
           new == [buf EXCEPT ![in] = d]
           q == Blocks(n, in, out, buf)
           r == Blocks(n, i, o, new)
           c == Count(n, in, out)
<1>o. o = IF out < 0 THEN in ELSE out
  BY Zenon
<1> HIDE DEF i, o, q, r, c, new
<1>0. n \in Nat /\ n >= 2 /\ n <= MaxBufs /\ MaxBufs \in Nat
  BY ChannelAssumption
<1>1. /\ i = IF in = n - 1 THEN (IF out = 0 THEN None ELSE 0)
             ELSE IF out = in + 1 THEN None ELSE in + 1
      /\ i \in -1 .. n - 1 /\ o \in 0 .. n - 1 /\ i # o
  <2>1. (in + 1) % n = IF in = n - 1 THEN 0 ELSE in + 1
    BY <1>0, SuccIs, Zenon
  <2>2. i = IF in = n - 1 THEN (IF out = 0 THEN None ELSE 0)
            ELSE IF out = in + 1 THEN None ELSE in + 1
    BY <1>0, <2>1, Zenon DEF After, i
  <2> QED BY <1>0, <1>o, <2>2 DEF None
<1>2. /\ c = IF out < 0 THEN 0 ELSE IF out < in THEN in - out ELSE in - out + n
      /\ c \in 0 .. n - 1
  BY <1>0, CountIs, SMTT(30) DEF c
<1>3. Count(n, i, o) = c + 1
  <2>1. Count(n, i, o) = IF i < 0 THEN n ELSE IF o < i THEN i - o ELSE i - o + n
    BY <1>0, <1>1, CountIs
  <2> QED BY <1>0, <1>o, <1>1, <1>2, <2>1, SMTT(30) DEF None
<1>4. new \in [Bufs -> Data \cup {NoData}] /\ in \in Bufs
  BY <1>0, SMTT(30) DEF Bufs, new
<1>5. /\ q \in Seq(Data \cup {NoData}) /\ Len(q) = c
      /\ \A k \in 1 .. c : Place(n, out, k) \in 0 .. n - 1 /\ q[k] = buf[Place(n, out, k)]
  <2>1. in \in -1 .. n - 1 /\ out \in -1 .. n - 1 /\ in # out
    BY <1>0
  <2>2. /\ q \in Seq(Data \cup {NoData}) /\ Len(q) = Count(n, in, out)
        /\ \A k \in 1 .. Count(n, in, out) :
             Place(n, out, k) \in 0 .. n - 1 /\ q[k] = buf[Place(n, out, k)]
    BY <2>1, BlocksAre, Zenon DEF q
  <2> QED BY <2>2, Zenon DEF c
<1>6. /\ r \in Seq(Data \cup {NoData}) /\ Len(r) = c + 1
      /\ \A k \in 1 .. c + 1 : r[k] = new[Place(n, o, k)]
  <2>1. i \in -1 .. n - 1 /\ o \in -1 .. n - 1 /\ i # o
    BY <1>1
  <2>2. /\ r \in Seq(Data \cup {NoData}) /\ Len(r) = Count(n, i, o)
        /\ \A k \in 1 .. Count(n, i, o) : r[k] = new[Place(n, o, k)]
    BY <1>4, <2>1, BlocksAre, Zenon DEF r
  <2> QED BY <1>3, <2>2, Zenon
<1>7. ASSUME NEW k \in 1 .. c PROVE r[k] = q[k]
  <2>1. Place(n, out, k) # in /\ o = out
    BY <1>0, <1>o, <1>2 DEF Place
  <2>2. q[k] = buf[Place(n, out, k)] /\ Place(n, out, k) \in Bufs
    BY <1>0, <1>5 DEF Bufs
  <2>3. k \in 1 .. c + 1
    BY <1>2, SMTT(30)
  <2>4. r[k] = new[Place(n, out, k)]
    BY <1>6, <2>1, <2>3, Zenon
  <2> QED BY <2>1, <2>2, <2>4, Zenon DEF new
<1>8. r[c + 1] = d
  <2>1. Place(n, o, c + 1) = in /\ c + 1 \in 1 .. c + 1
    BY <1>0, <1>o, <1>2, SMTT(30) DEF Place
  <2>2. r[c + 1] = new[in]
    BY <1>6, <2>1, Zenon
  <2> QED BY <1>4, <2>2, Zenon DEF new
<1>9. r = Append(q, d)
  <2>1. c \in Nat /\ d \in Data \cup {NoData}
    BY <1>2
  <2>2. Append(q, d) \in Seq(Data \cup {NoData}) /\ Len(Append(q, d)) = c + 1
    BY <1>5, <2>1, SMTT(30)
  <2>3. \A k \in 1 .. c + 1 : Append(q, d)[k] = IF k <= c THEN q[k] ELSE d
    BY <1>5, <2>1
  <2>4. \A k \in 1 .. c + 1 : Append(q, d)[k] = r[k]
    <3> SUFFICES ASSUME NEW k \in 1 .. c + 1 PROVE Append(q, d)[k] = r[k]
      BY Zenon
    <3>1. CASE k <= c
      <4>1. k \in 1 .. c
        BY <2>1, <3>1
      <4> QED BY <1>7, <2>3, <3>1, <4>1, Zenon
    <3>2. CASE ~(k <= c)
      <4>1. k = c + 1
        BY <2>1, <3>2
      <4> QED BY <1>8, <2>3, <3>2, <4>1, Zenon
    <3> QED BY <3>1, <3>2, Zenon
  <2> QED BY <1>6, <2>1, <2>2, <2>4
<1> QED BY <1>9, Zenon DEF q, r, new, i, o

\* Emptying the oldest buffer takes a block from the front of the queue.
LEMMA BlocksTake ==
  ASSUME NEW n \in 2 .. MaxBufs, NEW out \in 0 .. n - 1, NEW in \in -1 .. n - 1, in # out,
         NEW buf \in [Bufs -> Data \cup {NoData}]
  PROVE  /\ Blocks(n, in, out, buf) # <<>>
         /\ Blocks(n, IF in < 0 THEN out ELSE in, After(n, out, in), [buf EXCEPT ![out] = NoData])
              = Tail(Blocks(n, in, out, buf))
<1> DEFINE i == IF in < 0 THEN out ELSE in
           o == After(n, out, in)
           new == [buf EXCEPT ![out] = NoData]
           q == Blocks(n, in, out, buf)
           r == Blocks(n, i, o, new)
           c == Count(n, in, out)
<1>i. i = IF in < 0 THEN out ELSE in
  BY Zenon
<1> HIDE DEF i, o, q, r, c, new
<1>0. n \in Nat /\ n >= 2 /\ n <= MaxBufs /\ MaxBufs \in Nat
  BY ChannelAssumption
<1>1. /\ o = IF out = n - 1 THEN (IF in = 0 THEN None ELSE 0)
             ELSE IF in = out + 1 THEN None ELSE out + 1
      /\ o \in -1 .. n - 1 /\ i \in 0 .. n - 1 /\ i # o
  <2>1. (out + 1) % n = IF out = n - 1 THEN 0 ELSE out + 1
    BY <1>0, SuccIs, Zenon
  <2>2. o = IF out = n - 1 THEN (IF in = 0 THEN None ELSE 0)
            ELSE IF in = out + 1 THEN None ELSE out + 1
    BY <1>0, <2>1, Zenon DEF After, o
  <2> QED BY <1>0, <1>i, <2>2 DEF None
<1>2. /\ c = IF in < 0 THEN n ELSE IF out < in THEN in - out ELSE in - out + n
      /\ c \in 1 .. n
  BY <1>0, CountIs DEF c
<1>3. Count(n, i, o) = c - 1
  <2>1. Count(n, i, o) = IF o < 0 THEN 0 ELSE IF o < i THEN i - o ELSE i - o + n
    <3>1. i \in -1 .. n - 1 /\ ~(i < 0)
      BY <1>1
    <3> QED BY <1>0, <1>1, <3>1, CountIs, Zenon
  <2> QED BY <1>0, <1>i, <1>1, <1>2, <2>1 DEF None
<1>4. new \in [Bufs -> Data \cup {NoData}]
  BY Zenon DEF new
<1>5. /\ q \in Seq(Data \cup {NoData}) /\ Len(q) = c
      /\ \A k \in 1 .. c : Place(n, out, k) \in 0 .. n - 1 /\ q[k] = buf[Place(n, out, k)]
  <2>1. in \in -1 .. n - 1 /\ out \in -1 .. n - 1 /\ in # out
    BY <1>0
  <2>2. /\ q \in Seq(Data \cup {NoData}) /\ Len(q) = Count(n, in, out)
        /\ \A k \in 1 .. Count(n, in, out) :
             Place(n, out, k) \in 0 .. n - 1 /\ q[k] = buf[Place(n, out, k)]
    BY <2>1, BlocksAre, Zenon DEF q
  <2> QED BY <2>2, Zenon DEF c
<1>6. /\ r \in Seq(Data \cup {NoData}) /\ Len(r) = c - 1
      /\ \A k \in 1 .. c - 1 : r[k] = new[Place(n, o, k)]
  <2>1. i \in -1 .. n - 1 /\ o \in -1 .. n - 1 /\ i # o
    BY <1>1
  <2>2. /\ r \in Seq(Data \cup {NoData}) /\ Len(r) = Count(n, i, o)
        /\ \A k \in 1 .. Count(n, i, o) : r[k] = new[Place(n, o, k)]
    BY <1>4, <2>1, BlocksAre, Zenon DEF r
  <2> QED BY <1>3, <2>2, Zenon
<1>7. ASSUME NEW k \in 1 .. c - 1 PROVE r[k] = q[k + 1]
  <2>1. k + 1 \in 1 .. c
    BY <1>0, <1>2
  <2>2. q[k + 1] = buf[Place(n, out, k + 1)] /\ Place(n, out, k + 1) \in Bufs
    BY <1>0, <1>5, <2>1, SMTT(30) DEF Bufs
  <2>3. Place(n, out, k + 1) # out /\ Place(n, o, k) = Place(n, out, k + 1)
    BY <1>0, <1>1, <1>2, SMTT(30) DEF None, Place
  <2>4. r[k] = new[Place(n, out, k + 1)]
    BY <1>6, <2>3, Zenon
  <2> QED BY <2>2, <2>3, <2>4, Zenon DEF new
<1>8. c \in Nat /\ c >= 1
  BY <1>2
<1>9. q # <<>>
  BY <1>5, <1>8
<1>10. r = Tail(q)
  <2>1. Tail(q) \in Seq(Data \cup {NoData}) /\ Len(Tail(q)) = c - 1
    BY <1>5, <1>8, <1>9, SMTT(30)
  <2>2. \A k \in 1 .. c - 1 : Tail(q)[k] = q[k + 1]
    BY <1>5, <1>8, <1>9, SMTT(30)
  <2>3. \A k \in 1 .. c - 1 : Tail(q)[k] = r[k]
    BY <1>7, <2>2, Zenon
  <2> QED BY <1>6, <1>8, <2>1, <2>3
<1> QED BY <1>9, <1>10, Zenon DEF q, r, new, i, o

\* A ring with no full buffer is the empty queue.
LEMMA BlocksNone ==
  ASSUME NEW n, NEW in, NEW buf
  PROVE  Blocks(n, in, None, buf) = <<>>
BY DEF Blocks, Count, None

\* A ring with a free buffer holds fewer blocks than it has buffers.
LEMMA BlocksFit ==
  ASSUME NEW n \in 2 .. MaxBufs, NEW in \in 0 .. n - 1, NEW out \in -1 .. n - 1, in # out,
         NEW buf \in [Bufs -> Data \cup {NoData}]
  PROVE  Len(Blocks(n, in, out, buf)) < n
<1>1. n \in Nat /\ n >= 2 /\ in \in -1 .. n - 1
  BY ChannelAssumption
<1>2. Len(Blocks(n, in, out, buf)) = Count(n, in, out)
  BY <1>1, BlocksAre, Zenon
<1>3. Count(n, in, out) < n
  BY <1>1, CountIs
<1> QED BY <1>2, <1>3, Zenon

\* A closed channel is two empty queues without room.
LEMMA InitRefines == Init => Queue!Init
BY BlocksNone, Zenon DEF Init, Queue!Init, ReadQueue, WriteQueue, Room

\* What leaves a ring alone leaves its queue alone.
LEMMA QueueKept ==
  /\ UNCHANGED <<inreadbuf, outreadbuf, readbuf, numbufs>> => ReadQueue' = ReadQueue
  /\ UNCHANGED <<inwritebuf, outwritebuf, writebuf, numbufs>> => WriteQueue' = WriteQueue
  /\ UNCHANGED <<numbufs, mem>> => Room' = Room
BY DEF ReadQueue, WriteQueue, Room

\* A reset ring is the empty queue.
LEMMA QueueEmptied ==
  /\ outreadbuf' = None => ReadQueue' = <<>>
  /\ outwritebuf' = None => WriteQueue' = <<>>
BY BlocksNone, Zenon DEF ReadQueue, WriteQueue

\* The line delivers a block.
LEMMA PutbufRefines ==
  ASSUME IInv, NEW d \in Data, __putbuf_chunk(d)
  PROVE  Queue!LineIn(d)
<1>0. TypeOK /\ RingShape /\ putbuf(d) /\ UNCHANGED <<tx, setting>>
  BY Zenon DEF IInv, __putbuf_chunk
<1>1. /\ numbufs \in 2 .. MaxBufs /\ inreadbuf \in 0 .. numbufs - 1
      /\ outreadbuf \in -1 .. numbufs - 1 /\ readbuf \in [Bufs -> Data \cup {NoData}]
  BY <1>0, SMTT(30) DEF TypeOK, putbuf
<1>2. mem /\ inreadbuf # outreadbuf
  BY <1>0, <1>1, SMTT(30) DEF RingShape, Shape, None
<1>3. /\ inreadbuf' = After(numbufs, inreadbuf, outreadbuf)
      /\ outreadbuf' = IF outreadbuf < 0 THEN inreadbuf ELSE outreadbuf
      /\ readbuf' = [readbuf EXCEPT ![inreadbuf] = d]
      /\ numbufs' = numbufs
  BY <1>0, Zenon DEF putbuf, Succ, After, setting
<1>4. Len(ReadQueue) < Room /\ ReadQueue' = Append(ReadQueue, d)
  <2>1. Room = numbufs
    BY <1>2, Zenon DEF Room
  <2>2. Len(ReadQueue) < numbufs
    BY <1>1, <1>2, BlocksFit, Zenon DEF ReadQueue
  <2>3. ReadQueue' = Append(ReadQueue, d)
    BY <1>1, <1>2, <1>3, BlocksPut, Zenon DEF ReadQueue
  <2> QED BY <2>1, <2>2, <2>3, Zenon
<1>5. WriteQueue' = WriteQueue /\ Room' = Room
  BY <1>0, QueueKept, Zenon DEF tx, setting
<1> QED BY <1>4, <1>5, Zenon DEF Queue!LineIn, Queue!Put

\* The line takes a block.
LEMMA GetbufRefines ==
  ASSUME IInv, __zt_getbuf_chunk
  PROVE  Queue!LineOut
<1>0. TypeOK /\ RingShape /\ drain /\ UNCHANGED <<rx, setting>>
  BY Zenon DEF IInv, __zt_getbuf_chunk
<1>1. /\ numbufs \in 2 .. MaxBufs /\ outwritebuf \in 0 .. numbufs - 1
      /\ inwritebuf \in -1 .. numbufs - 1 /\ writebuf \in [Bufs -> Data \cup {NoData}]
  <2>1. /\ numbufs \in 2 .. MaxBufs /\ outwritebuf \in -1 .. numbufs - 1
        /\ inwritebuf \in -1 .. numbufs - 1 /\ writebuf \in [Bufs -> Data \cup {NoData}]
    BY <1>0, Zenon DEF TypeOK
  <2>2. outwritebuf >= 0
    BY <1>0, Zenon DEF drain
  <2> QED BY <2>1, <2>2
<1>2. inwritebuf # outwritebuf
  BY <1>0, <1>1 DEF RingShape, Shape, None
<1>3. /\ outwritebuf' = After(numbufs, outwritebuf, inwritebuf)
      /\ inwritebuf' = IF inwritebuf < 0 THEN outwritebuf ELSE inwritebuf
      /\ writebuf' = [writebuf EXCEPT ![outwritebuf] = NoData]
      /\ numbufs' = numbufs
  BY <1>0, Zenon DEF drain, Succ, After, setting
<1>4. WriteQueue # <<>> /\ WriteQueue' = Tail(WriteQueue)
  BY <1>1, <1>2, <1>3, BlocksTake, Zenon DEF WriteQueue
<1>5. ReadQueue' = ReadQueue /\ Room' = Room
  BY <1>0, QueueKept, Zenon DEF rx, setting
<1> QED BY <1>4, <1>5, Zenon DEF Queue!LineOut, Queue!Get

\* A reader takes the block it copied, or leaves it there.
LEMMA ReadRefines ==
  ASSUME IInv, NEW p \in Procs, ReadDone(p)
  PROVE  Queue!Read \/ UNCHANGED Queue!vars
<1>0. /\ TypeOK /\ RingShape /\ NoTear /\ UNCHANGED <<tx, setting>>
      /\ pc[p] = "copy" /\ op[p] = "read"
  BY Zenon DEF IInv, ReadDone
<1>1. WriteQueue' = WriteQueue /\ Room' = Room
  BY <1>0, QueueKept, Zenon DEF tx, setting
<1>2. CASE take
  <2>1. /\ numbufs \in 2 .. MaxBufs /\ inreadbuf \in -1 .. numbufs - 1
        /\ outreadbuf \in -1 .. numbufs - 1 /\ readbuf \in [Bufs -> Data \cup {NoData}]
        /\ res \in Bufs
    BY <1>0, Zenon DEF TypeOK
  <2>2. res = outreadbuf /\ inreadbuf # outreadbuf
    BY <1>0, Zenon DEF NoTear
  <2>3. res \in 0 .. numbufs - 1
    BY <2>1, <2>2, SMTT(30) DEF Bufs
  <2>4. /\ outreadbuf' = After(numbufs, res, inreadbuf)
        /\ inreadbuf' = IF inreadbuf < 0 THEN res ELSE inreadbuf
        /\ readbuf' = [readbuf EXCEPT ![res] = NoData]
        /\ numbufs' = numbufs
    BY <1>0, <1>2, Zenon DEF take, Succ, After, setting
  <2>5. ReadQueue # <<>> /\ ReadQueue' = Tail(ReadQueue)
    BY <2>1, <2>2, <2>3, <2>4, BlocksTake, ZenonT(40) DEF ReadQueue
  <2> QED BY <1>1, <2>5, Zenon DEF Queue!Read, Queue!Get
<1>3. CASE UNCHANGED rx
  BY <1>0, <1>1, <1>3, QueueKept, Zenon DEF Queue!vars, rx, setting
<1> QED BY <1>2, <1>3, Zenon DEF ReadDone

\* A writer queues the block it copied, or none.
LEMMA WriteRefines ==
  ASSUME IInv, NEW p \in Procs, NEW d \in Data, WriteDone(p, d)
  PROVE  Queue!Write(d) \/ UNCHANGED Queue!vars
<1>0. /\ TypeOK /\ RingShape /\ NoTear /\ Alone /\ UNCHANGED <<rx, setting>>
      /\ pc[p] = "copy" /\ op[p] = "write"
  BY Zenon DEF IInv, WriteDone
<1>1. ReadQueue' = ReadQueue /\ Room' = Room
  BY <1>0, QueueKept, Zenon DEF rx, setting
<1>2. CASE fill(d)
  <2>1. /\ numbufs \in 2 .. MaxBufs /\ inwritebuf \in -1 .. numbufs - 1
        /\ outwritebuf \in -1 .. numbufs - 1 /\ writebuf \in [Bufs -> Data \cup {NoData}]
        /\ res \in Bufs
    BY <1>0, Zenon DEF TypeOK
  <2>2. res = inwritebuf /\ inwritebuf # outwritebuf /\ mem
    BY <1>0, Zenon DEF NoTear, Alone
  <2>3. res \in 0 .. numbufs - 1
    BY <2>1, <2>2, SMTT(30) DEF Bufs
  <2>4. /\ inwritebuf' = After(numbufs, res, outwritebuf)
        /\ outwritebuf' = IF outwritebuf < 0 THEN res ELSE outwritebuf
        /\ writebuf' = [writebuf EXCEPT ![res] = d]
        /\ numbufs' = numbufs
    BY <1>0, <1>2, Zenon DEF fill, Succ, After, setting
  <2>5. Len(WriteQueue) < Room /\ WriteQueue' = Append(WriteQueue, d)
    <3>1. Room = numbufs
      BY <2>2, Zenon DEF Room
    <3>2. Len(WriteQueue) < numbufs
      BY <2>1, <2>2, <2>3, BlocksFit, Zenon DEF WriteQueue
    <3>3. WriteQueue' = Append(WriteQueue, d)
      BY <2>1, <2>2, <2>3, <2>4, BlocksPut, Zenon DEF WriteQueue
    <3> QED BY <3>1, <3>2, <3>3, Zenon
  <2> QED BY <1>1, <2>5, Zenon DEF Queue!Write, Queue!Put
<1>3. CASE UNCHANGED tx
  BY <1>0, <1>1, <1>3, QueueKept, Zenon DEF Queue!vars, tx, setting
<1> QED BY <1>2, <1>3, Zenon DEF WriteDone

\* Flushing, hanging up and changing the buffers empty the queues they reset.
LEMMA IoctlsRefine ==
  ASSUME IInv, Ioctls
  PROVE  Queue!Reset \/ UNCHANGED Queue!vars
<1>0. MaxBufs \in Nat /\ MaxBufs >= 2 /\ mem \in BOOLEAN /\ numbufs \in 2 .. MaxBufs
  BY ChannelAssumption, Zenon DEF IInv, TypeOK
<1>r. Room \in 0 .. MaxBufs
  BY <1>0 DEF Room
<1>1. ASSUME NEW what \in SUBSET {"read", "write", "event"}, ZT_FLUSH(what)
      PROVE  Queue!Reset
  <2>0. UNCHANGED <<numbufs, mem>>
    BY <1>1, Zenon DEF ZT_FLUSH, setting
  <2>1. ReadQueue' \in {<<>>, ReadQueue}
    BY <1>1, <2>0, QueueKept, QueueEmptied, Zenon DEF ZT_FLUSH, ResetRead, ResetWrite
  <2>2. WriteQueue' \in {<<>>, WriteQueue}
    BY <1>1, <2>0, QueueKept, QueueEmptied, Zenon DEF ZT_FLUSH, ResetRead, ResetWrite
  <2> QED BY <1>r, <2>0, <2>1, <2>2, QueueKept, Zenon DEF Queue!Reset
<1>2. ASSUME outreadbuf' = None, outwritebuf' = None,
             mem' \in BOOLEAN, numbufs' \in 2 .. MaxBufs
      PROVE  Queue!Reset
  <2>1. ReadQueue' = <<>> /\ WriteQueue' = <<>>
    BY <1>2, QueueEmptied, Zenon
  <2>2. Room' \in 0 .. MaxBufs
    BY <1>0, <1>2 DEF Room
  <2> QED BY <2>1, <2>2, Zenon DEF Queue!Reset
<1>3. ASSUME NEW n \in 2 .. MaxBufs, zt_reallocbufs(n) PROVE Queue!Reset
  BY <1>2, <1>3, Zenon DEF zt_reallocbufs, Reallocated, ResetRead, ResetWrite
<1>4. CASE zt_hangup
  BY <1>0, <1>2, <1>4, Zenon DEF zt_hangup, ResetRead, ResetWrite, setting
<1>5. CASE initialize_channel
  <2>1. outreadbuf' = None /\ outwritebuf' = None /\ mem' \in BOOLEAN /\ numbufs' = 2
    BY <1>5, Zenon DEF initialize_channel, Reallocated, ResetRead, ResetWrite
  <2> QED BY <1>0, <1>2, <2>1
<1>6. CASE close_channel
  <2>1. outreadbuf' = None /\ outwritebuf' = None /\ mem' \in BOOLEAN /\ numbufs' = 2
    BY <1>6, Zenon DEF close_channel, Reallocated, ResetRead, ResetWrite
  <2> QED BY <1>0, <1>2, <2>1
<1>7. ASSUME NEW r \in Policies, NEW t \in Policies, SetPolicies(r, t) PROVE UNCHANGED Queue!vars
  BY <1>7, QueueKept, Zenon DEF SetPolicies, Queue!vars, rx, tx
<1>8. CASE ZT_GETEVENT
  BY <1>8, QueueKept, Zenon DEF ZT_GETEVENT, Queue!vars, rx, tx, setting
<1> QED BY <1>1, <1>3, <1>4, <1>5, <1>6, <1>7, <1>8, Zenon DEF Ioctls

\* What leaves both rings and the setting alone is a stutter of the queues.
LEMMA QueuesKept ==
  ASSUME UNCHANGED <<rx, inwritebuf, outwritebuf, writebuf, setting>>
  PROVE  UNCHANGED Queue!vars
BY QueueKept, Zenon DEF Queue!vars, rx, setting

\* The tests and sleeps of the programs leave both queues alone.
LEMMA CallsRefine ==
  ASSUME NEW p \in Procs, Calls(p) \/ schluffen(p)
  PROVE  UNCHANGED Queue!vars
<1>1. CASE zt_chan_read(p) \/ zt_chan_write(p) \/ ZT_SYNC(p) \/ schluffen(p)
  BY <1>1, QueuesKept, Zenon DEF zt_chan_read, zt_chan_write, ZT_SYNC, schluffen, tx
<1>2. ASSUME NEW m, ZT_IOMUX(p, m) PROVE UNCHANGED Queue!vars
  BY <1>2, QueuesKept, Zenon DEF ZT_IOMUX
<1> QED BY <1>1, <1>2, Zenon DEF Calls

\* Every step of the channel is a step of the queues or leaves them alone.
LEMMA StepRefines == IInv /\ [Next]_vars => [Queue!Next]_(Queue!vars)
<1> SUFFICES ASSUME IInv, [Next]_vars PROVE Queue!Next \/ UNCHANGED Queue!vars
  BY Zenon
<1>1. ASSUME NEW d \in Data, __putbuf_chunk(d) PROVE Queue!Next
  BY <1>1, PutbufRefines, Zenon DEF Queue!Next
<1>2. CASE __zt_getbuf_chunk
  BY <1>2, GetbufRefines, Zenon DEF Queue!Next
<1>3. CASE __qevent
  BY <1>3, QueuesKept, Zenon DEF __qevent, tx
<1>4. CASE Ioctls
  BY <1>4, IoctlsRefine, Zenon DEF Queue!Next
<1>5. ASSUME NEW p \in Procs, Calls(p) \/ schluffen(p) PROVE UNCHANGED Queue!vars
  BY <1>5, CallsRefine, Zenon
<1>6. ASSUME NEW p \in Procs, ReadDone(p) PROVE Queue!Next \/ UNCHANGED Queue!vars
  BY <1>6, ReadRefines, Zenon DEF Queue!Next
<1>7. ASSUME NEW p \in Procs, NEW d \in Data, WriteDone(p, d)
      PROVE  Queue!Next \/ UNCHANGED Queue!vars
  BY <1>7, WriteRefines, Zenon DEF Queue!Next
<1>8. CASE UNCHANGED vars
  BY <1>8, QueuesKept, Zenon DEF vars, tx
<1> QED BY <1>1, <1>2, <1>3, <1>4, <1>5, <1>6, <1>7, <1>8, Zenon DEF Next, Line, Proceeds

\* The rings implement the queues: blocks leave each ring in the order in which they
\* came, once each, and only a reset drops any; for any number of buffers, programs
\* and blocks.
THEOREM RingsAreQueues == Spec => ImplementsQueue
<1>1. Spec => []IInv
  BY InitIInv, NextKeeps, PTL DEF Spec
<1> QED BY <1>1, InitRefines, StepRefines, PTL DEF Spec, ImplementsQueue, Queue!Spec

-----------------------------------------------------------------------------
(* Nobody left out.                                                          *)

\* No block that waits to be sent is shorter than a chunk.
Whole == \A b \in Bufs : writebuf[b] \notin Short

\* Programs that read blocks as they come and write none shorter than a chunk, and no
\* hangup or new buffers while one is asleep.
Ordinary ==
  /\ rxbufpolicy' = "immediate"
  /\ Whole'
  /\ (zt_hangup \/ \E n \in 2 .. MaxBufs : zt_reallocbufs(n))
       => \A p \in Procs : pc[p] # "asleep"

\* SleepersServed without its exception.
EverySleeperServed ==
  \A p \in Procs : pc[p] = "asleep" =>
    /\ op[p] = "read" => inreadbuf >= 0
    /\ op[p] = "write" => outwritebuf >= 0 /\ ~txdisable

\* Then the receive side never holds blocks back, and no sleeper is at risk.
Plain == rxbufpolicy = "immediate" /\ ~rxdisable /\ atrisk = {}

LEMMA StepPlain ==
  ASSUME TypeOK, Plain, Whole, Next, Ordinary
  PROVE  Plain'
  <1>0. rxbufpolicy' = "immediate"
    BY Zenon DEF Ordinary
  <1>1. ASSUME NEW S, atrisk' = atrisk \ S PROVE atrisk' = {}
    BY <1>1 DEF Plain
  <1>2. ASSUME NEW q, wake_up(q) PROVE atrisk' = {}
    BY <1>1, <1>2, Zenon DEF wake_up
  <1>3. ASSUME NEW p, Returns(p) PROVE atrisk' = {}
    BY <1>1, <1>3, Zenon DEF Returns
  <1>4. ASSUME NEW p, NEW o, Waits(p, o, FALSE) PROVE atrisk' = {}
    BY <1>1, <1>4, Zenon DEF Waits
  <1>5. ASSUME NEW p, NEW o, NEW b, Copies(p, o, b) PROVE atrisk' = {}
    BY <1>5, Zenon DEF Copies, Plain
  <1>6. ASSUME UNCHANGED rx \/ UNCHANGED rxdisable PROVE ~rxdisable'
    BY <1>6, Zenon DEF rx, Plain
  <1>7. ASSUME NEW d, __putbuf_chunk(d) PROVE Plain'
    <2>1. ~rxdisable'
      BY <1>7, Zenon DEF __putbuf_chunk, putbuf, Plain
    <2> QED
      BY <1>0, <1>2, <1>7, <2>1, Zenon DEF __putbuf_chunk, Plain
  <1>8. CASE __zt_getbuf_chunk \/ __qevent
    BY <1>0, <1>2, <1>6, <1>8, Zenon DEF __zt_getbuf_chunk, __qevent, Plain
  <1>9. ASSUME NEW p, zt_chan_read(p) PROVE Plain'
    <2>1. ~ReadReady => ~(outreadbuf >= 0)
      BY Zenon DEF ReadReady, Plain
    <2>2. ASSUME ~ReadReady, Waits(p, "read", outreadbuf >= 0) PROVE atrisk' = {}
      BY <1>1, <2>1, <2>2, Zenon DEF Waits
    <2> QED
      BY <1>0, <1>3, <1>5, <1>6, <1>9, <2>2, Zenon DEF zt_chan_read, Plain
  <1>10. ASSUME NEW p, zt_chan_write(p) \/ ZT_SYNC(p) PROVE Plain'
    <2>1. \E b \in 0 .. numbufs - 1 : b # outwritebuf /\ b \in Bufs
      <3>1. numbufs \in 2 .. MaxBufs /\ MaxBufs \in Nat
        BY ChannelAssumption, Zenon DEF TypeOK
      <3>2. {0, 1} \subseteq 0 .. numbufs - 1 /\ {0, 1} \subseteq Bufs
        BY <3>1 DEF Bufs
      <3>3. CASE outwritebuf = 0
        <4>1. 1 # outwritebuf
          BY <3>3
        <4> QED BY <3>2, <4>1, Zenon
      <3>4. CASE outwritebuf # 0
        BY <3>2, <3>4, Zenon
      <3> QED BY <3>3, <3>4
    <2>2. ~Fleeting
      BY <2>1, Zenon DEF Fleeting, Whole
    <2>3. ASSUME Waits(p, "write", Fleeting) PROVE atrisk' = {}
      BY <1>1, <2>2, <2>3, Zenon DEF Waits
    <2> QED
      BY <1>0, <1>3, <1>4, <1>5, <1>6, <1>10, <2>3, Zenon DEF zt_chan_write, ZT_SYNC, Plain
  <1>11. ASSUME NEW p, NEW m, ZT_IOMUX(p, m) PROVE Plain'
    BY <1>0, <1>3, <1>4, <1>6, <1>11, Zenon DEF ZT_IOMUX, Plain
  <1>12. ASSUME NEW p, schluffen(p) PROVE Plain'
    BY <1>0, <1>3, <1>6, <1>12, Zenon DEF schluffen, Plain
  <1>13. ASSUME NEW p, ReadDone(p) PROVE Plain'
    <2>1. take => ~rxdisable'
      BY Zenon DEF take, Plain
    <2> QED
      BY <1>0, <1>3, <1>6, <1>13, <2>1, Zenon DEF ReadDone, Plain
  <1>14. ASSUME NEW p, NEW d, WriteDone(p, d) PROVE Plain'
    BY <1>0, <1>3, <1>6, <1>14, Zenon DEF WriteDone, Plain
  <1>15. ASSUME NEW w, ZT_FLUSH(w) PROVE Plain'
    BY <1>0, <1>2, <1>6, <1>15, Zenon DEF ZT_FLUSH, Plain
  <1>16. ASSUME Strand, \A p \in Procs : pc[p] # "asleep" PROVE atrisk' = {}
    BY <1>16 DEF Strand, Plain
  <1>17. ASSUME NEW n \in 2 .. MaxBufs, zt_reallocbufs(n) PROVE Plain'
    <2>1. ~rxdisable'
      BY <1>17, Zenon DEF zt_reallocbufs, Reallocated, Plain
    <2> QED
      BY <1>0, <1>16, <1>17, <2>1, Zenon DEF zt_reallocbufs, Ordinary, Plain
  <1>18. CASE zt_hangup
    BY <1>0, <1>6, <1>16, <1>18, Zenon DEF zt_hangup, Ordinary, Plain
  <1>19. CASE initialize_channel \/ close_channel
    <2>1. ~rxdisable'
      BY <1>19, Zenon DEF initialize_channel, close_channel, Reallocated, Plain
    <2> QED
      BY <1>0, <1>19, <2>1, Zenon DEF initialize_channel, close_channel, Plain
  <1>20. ASSUME NEW r, NEW t, SetPolicies(r, t) PROVE Plain'
    BY <1>0, <1>6, <1>20, Zenon DEF SetPolicies, Plain
  <1>21. CASE ZT_GETEVENT
    BY <1>0, <1>6, <1>21, Zenon DEF ZT_GETEVENT, Plain
  <1>22. CASE Line \/ Ioctls
    BY <1>7, <1>8, <1>15, <1>17, <1>18, <1>19, <1>20, <1>21, <1>22, Zenon DEF Line, Ioctls
  <1>23. ASSUME NEW p, Calls(p) \/ Proceeds(p) PROVE Plain'
    BY <1>9, <1>10, <1>11, <1>12, <1>13, <1>14, <1>23, Zenon DEF Calls, Proceeds
  <1> QED
    BY <1>8, <1>22, <1>23, Zenon DEF Next

\* The exceptions of SleepersServed are the only ones: as long as blocks are delivered
\* as they come (ZT_POLICY_IMMEDIATE), programs write blocks of a chunk or more, and
\* neither zt_hangup nor zt_reallocbufs runs while somebody sleeps, every reader asleep
\* has a handler that will fill a buffer and every writer asleep one that will send a
\* block.
THEOREM NobodyLeftOut == Spec /\ [][Ordinary]_vars => []EverySleeperServed
  <1>1. Init => IInv /\ Plain /\ Whole
    <2>1. Init => Whole
      <3>1. Init => writebuf = Empty
        BY Zenon DEF Init
      <3>2. \A b \in Bufs : Empty[b] \notin Short
        BY ChannelAssumption DEF Empty
      <3> QED BY <3>1, <3>2, Zenon DEF Whole
    <2> QED
      BY <2>1, InitIInv, Zenon DEF Init, Plain
  <1>2. IInv /\ Plain /\ Whole /\ [Next]_vars /\ [Ordinary]_vars => (IInv /\ Plain /\ Whole)'
    <2>1. UNCHANGED vars /\ Plain /\ Whole => Plain' /\ Whole'
      <3>1. UNCHANGED vars => UNCHANGED <<rxbufpolicy, rxdisable, atrisk, writebuf>>
        BY DEF vars, rx, tx, setting
      <3> QED BY <3>1, Zenon DEF Plain, Whole
    <2>2. IInv => TypeOK
      BY Zenon DEF IInv
    <2>3. Ordinary => Whole'
      BY Zenon DEF Ordinary
    <2> QED
      BY <2>1, <2>2, <2>3, NextKeeps, StepPlain, Zenon
  <1>3. IInv /\ Plain => EverySleeperServed
    BY Zenon DEF IInv, Plain, SleepersServed, EverySleeperServed
  <1> QED
    BY <1>1, <1>2, <1>3, PTL DEF Spec
=============================================================================
