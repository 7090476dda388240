------------------------------ MODULE ZtChannel ------------------------------
(***************************************************************************)
(* The buffers of one zaptel channel (zaptel-gsm/zaptel-base.c-1.4.9.2).   *)
(* The interrupt handler fills buffers of the receive ring and empties     *)
(* those of the transmit ring; programs read, write, wait for both, flush, *)
(* hang up and change the buffers, and sleep where there is nothing to do. *)
(*                                                                         *)
(* The kernels of the boards are configured with CONFIG_PREEMPT_NONE for   *)
(* one processor: a system call runs until it sleeps or returns, and only  *)
(* the interrupt handler comes between its steps.  From the test of a ring *)
(* to the moment schluffen marks the process as sleeping there are a few   *)
(* instructions, and an interrupt every millisecond: at most one of them   *)
(* falls there, and a wake-up it makes is lost.                            *)
(*                                                                         *)
(* A received block is at least two chunks long, so an interrupt completes *)
(* at most one.  A written block is as long as the program made it: an     *)
(* interrupt goes from the end of one to the next, and past those that are *)
(* shorter than the rest of its chunk.  Each block is a step here; the     *)
(* interrupts that complete none change nothing.                           *)
(***************************************************************************)
EXTENDS Integers, Sequences

CONSTANTS
  Data,         \* blocks of samples
  NoData,       \* an empty buffer
  Short,        \* those blocks that are shorter than a chunk when written
  Procs,        \* the programs that hold the channel open
  Readers,      \* those of them that read or wait with ZT_IOMUX
  Writers,      \* those of them that write or wait with ZT_SYNC
  MaxBufs,      \* ZT_MAX_NUM_BUFS
  MaxEvents,    \* events the event buffer holds
  Masks         \* the masks given to ZT_IOMUX

ASSUME ChannelAssumption ==
  /\ NoData \notin Data
  /\ Short \subseteq Data
  /\ MaxBufs \in Nat /\ MaxBufs >= 2
  /\ MaxEvents \in Nat \ {0}
  /\ \A m \in Masks : m # {} /\ m \subseteq {"read", "write", "empty", "sig", "nowait"}

Bufs == 0 .. MaxBufs - 1
None == -1
Empty == [b \in Bufs |-> NoData]
Policies == {"immediate", "when full"}

VARIABLES
  numbufs, mem,                               \* mem: whether there are buffers
  inreadbuf, outreadbuf, readbuf, rxdisable,
  inwritebuf, outwritebuf, writebuf, txdisable,
  rxbufpolicy, txbufpolicy,
  events, iomask,
  pc, op,       \* where each program is, and in which call
  res,          \* the buffer the running program copies from or to
  late,         \* what the interrupt in the window before a sleep has done
  atrisk        \* history: sleepers the wake-ups do not provide for

rx == <<inreadbuf, outreadbuf, readbuf, rxdisable>>
tx == <<inwritebuf, outwritebuf, writebuf, txdisable>>
setting == <<numbufs, mem, rxbufpolicy, txbufpolicy>>
vars == <<rx, tx, setting, events, iomask, pc, op, res, late, atrisk>>

Succ(b) == (b + 1) % numbufs

-----------------------------------------------------------------------------
\* Sleeping and waking.  "window" is a process between its test and its sleep.

WaitsOn(o) ==
  IF o = "read" THEN "readbufq" ELSE IF o = "iomux" THEN "eventbufq" ELSE "writebufq"

Woken(queues) == {p \in Procs : pc[p] = "asleep" /\ WaitsOn(op[p]) \in queues}

wake_up(queues) ==
  /\ pc' = [p \in Procs |-> IF p \in Woken(queues) THEN "woken" ELSE pc[p]]
  /\ atrisk' = atrisk \ Woken(queues)

IfMasked(bits) == IF iomask \cap bits # {} THEN {"eventbufq"} ELSE {}

Running(p) == pc[p] \in {"copy", "window"}
KernelFree == \A p \in Procs : ~Running(p)

\* A program calls o, or goes round the loop of o after it was woken.
Enters(p, o) ==
  /\ KernelFree /\ mem
  /\ pc[p] = "user" \/ (pc[p] = "woken" /\ op[p] = o)

Returns(p) ==
  /\ pc' = [pc EXCEPT ![p] = "user"]
  /\ op' = [op EXCEPT ![p] = "none"]
  /\ late' = {}
  /\ atrisk' = atrisk \ {p}
  /\ res' = 0

Copies(p, o, b) ==
  /\ pc' = [pc EXCEPT ![p] = "copy"]
  /\ op' = [op EXCEPT ![p] = o]
  /\ res' = b
  /\ UNCHANGED <<late, atrisk>>

\* The test failed: schluffen, or -EAGAIN if the file is not to block.
Waits(p, o, risk) ==
  /\ pc' = [pc EXCEPT ![p] = "window"]
  /\ op' = [op EXCEPT ![p] = o]
  /\ late' = {}
  /\ atrisk' = IF risk THEN atrisk \cup {p} ELSE atrisk \ {p}
  /\ UNCHANGED res

\* The rest of schluffen: a pending signal makes it return at once, and a signal
\* ends the sleep.
schluffen(p) ==
  /\ \/ /\ pc[p] = "window"
        /\ pc' = [pc EXCEPT ![p] = "asleep"]
        /\ late' = {}
        /\ UNCHANGED <<op, res, atrisk>>
     \/ pc[p] = "window" /\ Returns(p)
     \/ pc[p] = "asleep" /\ KernelFree /\ Returns(p)
  /\ UNCHANGED <<rx, tx, setting, events, iomask>>

\* One half of an interrupt: at most one falls in a window, and after the end of one
\* block it reaches that of the next only if that is shorter than a chunk.
Interrupt(half) ==
  IF \E p \in Procs : pc[p] = "window"
  THEN /\ half \notin late \/ (half = "tx" /\ writebuf[outwritebuf] \in Short)
       /\ late' = late \cup {half}
  ELSE UNCHANGED late

-----------------------------------------------------------------------------
\* Reading.  The interrupt handler completes a block.

ReadReady == outreadbuf >= 0 /\ ~rxdisable

\* A broken variant: the handler stores into the buffer a reader is copying.
putbuf_stomps(d) ==
  /\ inreadbuf >= 0
  /\ readbuf' = [readbuf EXCEPT ![inreadbuf] = d]
  /\ inreadbuf' = Succ(inreadbuf)
  /\ outreadbuf' = IF outreadbuf < 0 THEN inreadbuf ELSE outreadbuf
  /\ UNCHANGED rxdisable

putbuf(d) ==
  /\ inreadbuf >= 0
  /\ readbuf' = [readbuf EXCEPT ![inreadbuf] = d]
  /\ LET full == Succ(inreadbuf) = outreadbuf
     IN  /\ inreadbuf' = IF full THEN None ELSE Succ(inreadbuf)
         /\ rxdisable' = (rxdisable /\ ~full)
  /\ outreadbuf' = IF outreadbuf < 0 THEN inreadbuf ELSE outreadbuf

\* A broken variant: readers are told of the first block only.
NotifiedOnce ==
  IF rxdisable' \/ outreadbuf >= 0 THEN {} ELSE {"readbufq"} \cup IfMasked({"read"})

Notified == IF rxdisable' THEN {} ELSE {"readbufq"} \cup IfMasked({"read"})

__putbuf_chunk(d) ==
  /\ putbuf(d)
  /\ wake_up(Notified)
  /\ Interrupt("rx")
  /\ UNCHANGED <<tx, setting, events, iomask, op, res>>

\* A program asks for a block: the test, then the copy without the lock.
zt_chan_read(p) ==
  /\ Enters(p, "read")
  /\ \/ events > 0 /\ Returns(p)
     \/ events = 0 /\ ReadReady /\ Copies(p, "read", outreadbuf)
     \/ events = 0 /\ ~ReadReady /\ (Returns(p) \/ Waits(p, "read", outreadbuf >= 0))
  /\ UNCHANGED <<rx, tx, setting, events, iomask>>

\* A broken variant: the handler is not told that it has space again.
take_silently ==
  /\ readbuf' = [readbuf EXCEPT ![res] = NoData]
  /\ outreadbuf' = IF Succ(res) = inreadbuf THEN None ELSE Succ(res)
  /\ rxdisable' = (rxdisable \/ (outreadbuf' = None /\ rxbufpolicy = "when full"))
  /\ UNCHANGED inreadbuf

take ==
  /\ readbuf' = [readbuf EXCEPT ![res] = NoData]
  /\ outreadbuf' = IF Succ(res) = inreadbuf THEN None ELSE Succ(res)
  /\ rxdisable' = (rxdisable \/ (outreadbuf' = None /\ rxbufpolicy = "when full"))
  /\ inreadbuf' = IF inreadbuf < 0 THEN res ELSE inreadbuf

\* copy_to_user may fail; then the block stays.
ReadDone(p) ==
  /\ pc[p] = "copy" /\ op[p] = "read"
  /\ Returns(p)
  /\ take \/ UNCHANGED rx
  /\ UNCHANGED <<tx, setting, events, iomask>>

-----------------------------------------------------------------------------
\* Writing.  The interrupt handler reaches the end of a block.

\* A broken variant: the writer is not given the buffer.
drain_keeps ==
  /\ outwritebuf >= 0 /\ ~txdisable
  /\ writebuf' = [writebuf EXCEPT ![outwritebuf] = NoData]
  /\ LET out == Succ(outwritebuf) = inwritebuf
     IN  /\ outwritebuf' = IF out THEN None ELSE Succ(outwritebuf)
         /\ txdisable' = (out /\ txbufpolicy = "when full")
  /\ UNCHANGED inwritebuf

drain ==
  /\ outwritebuf >= 0 /\ ~txdisable
  /\ writebuf' = [writebuf EXCEPT ![outwritebuf] = NoData]
  /\ LET out == Succ(outwritebuf) = inwritebuf
     IN  /\ outwritebuf' = IF out THEN None ELSE Succ(outwritebuf)
         /\ txdisable' = (out /\ txbufpolicy = "when full")
  /\ inwritebuf' = IF inwritebuf < 0 THEN outwritebuf ELSE inwritebuf

\* One turn of the loop over the samples of a chunk that ends a block.
__zt_getbuf_chunk ==
  /\ drain
  /\ wake_up({"writebufq"} \cup IfMasked({"write"})
               \cup (IF outwritebuf' = None THEN IfMasked({"empty"}) ELSE {}))
  /\ Interrupt("tx")
  /\ UNCHANGED <<rx, setting, events, iomask, op, res>>

\* A full ring that one interrupt may empty: it ends the block that is being sent and
\* goes through all the others.
Fleeting == \A b \in 0 .. numbufs - 1 : b # outwritebuf => writebuf[b] \in Short

zt_chan_write(p) ==
  /\ Enters(p, "write")
  /\ \/ events > 0 /\ Returns(p)
     \/ events = 0 /\ inwritebuf >= 0 /\ Copies(p, "write", inwritebuf)
     \/ events = 0 /\ inwritebuf < 0 /\ (Returns(p) \/ Waits(p, "write", Fleeting))
  /\ UNCHANGED <<rx, tx, setting, events, iomask>>

\* A broken variant: a full ring does not start a transmitter that waits for it.
fill_held(d) ==
  /\ writebuf' = [writebuf EXCEPT ![res] = d]
  /\ inwritebuf' = IF Succ(res) = outwritebuf THEN None ELSE Succ(res)
  /\ outwritebuf' = IF outwritebuf < 0 THEN res ELSE outwritebuf
  /\ UNCHANGED txdisable

fill(d) ==
  /\ writebuf' = [writebuf EXCEPT ![res] = d]
  /\ LET full == Succ(res) = outwritebuf
     IN  /\ inwritebuf' = IF full THEN None ELSE Succ(res)
         /\ txdisable' = (txdisable /\ ~full)
  /\ outwritebuf' = IF outwritebuf < 0 THEN res ELSE outwritebuf

\* copy_from_user may fail; then nothing is queued.
WriteDone(p, d) ==
  /\ pc[p] = "copy" /\ op[p] = "write"
  /\ Returns(p)
  /\ fill(d) \/ UNCHANGED tx
  /\ UNCHANGED <<rx, setting, events, iomask>>

-----------------------------------------------------------------------------
\* The ioctls.

ZT_SYNC(p) ==
  /\ Enters(p, "sync")
  /\ IF outwritebuf < 0 THEN Returns(p) ELSE Waits(p, "sync", FALSE)
  /\ UNCHANGED <<rx, tx, setting, events, iomask>>

IomuxReady(m) ==
  \/ "read" \in m /\ ReadReady
  \/ "write" \in m /\ inwritebuf >= 0
  \/ "empty" \in m /\ outwritebuf < 0
  \/ "sig" \in m /\ events > 0

\* The mask belongs to the channel: a woken caller tests what the last caller left,
\* and a caller with no bits set is refused but leaves none.  A signal (schluffen)
\* leaves the mask behind.
ZT_IOMUX(p, m) ==
  /\ Enters(p, "iomux")
  /\ IF pc[p] = "woken" THEN m = iomask ELSE m \in Masks \cup {{}}
  /\ txdisable' = (txdisable /\ "empty" \notin m)
  /\ IF IomuxReady(m) \/ "nowait" \in m \/ (pc[p] = "user" /\ m = {})
     THEN Returns(p) /\ iomask' = {}
     ELSE Waits(p, "iomux", FALSE) /\ iomask' = m
  /\ UNCHANGED <<rx, inwritebuf, outwritebuf, writebuf, setting, events>>

ResetRead(there) ==
  /\ inreadbuf' = IF there THEN 0 ELSE None
  /\ outreadbuf' = None
  /\ readbuf' = Empty

ResetWrite(there) ==
  /\ inwritebuf' = IF there THEN 0 ELSE None
  /\ outwritebuf' = None
  /\ writebuf' = Empty

ZT_FLUSH(what) ==
  /\ KernelFree /\ mem
  /\ IF "read" \in what THEN ResetRead(TRUE) ELSE UNCHANGED <<inreadbuf, outreadbuf, readbuf>>
  /\ IF "write" \in what THEN ResetWrite(TRUE) ELSE UNCHANGED <<inwritebuf, outwritebuf, writebuf>>
  /\ events' = IF "event" \in what THEN 0 ELSE events
  /\ wake_up((IF "read" \in what THEN {"readbufq"} ELSE {})
               \cup (IF "write" \in what THEN {"writebufq"} \cup IfMasked({"empty"}) ELSE {}))
  /\ UNCHANGED <<rxdisable, txdisable, setting, iomask, op, res, late>>

\* The rings are reset under sleepers that nobody wakes.
Strand == atrisk' = atrisk \cup {p \in Procs : pc[p] = "asleep"}

\* zt_reallocbufs with memory for n buffers, or for none.
Reallocated(n, there, rxpolicy, txpolicy) ==
  /\ numbufs' = n /\ mem' = there
  /\ ResetRead(there) /\ ResetWrite(there)
  /\ rxdisable' = (rxpolicy = "when full")
  /\ txdisable' = (txpolicy = "when full")

\* ZT_SET_BLOCKSIZE, and ZT_SET_BUFINFO from the point where it has its memory.
zt_reallocbufs(n) ==
  /\ KernelFree /\ mem
  /\ Reallocated(n, TRUE, rxbufpolicy, txbufpolicy)
  /\ Strand
  /\ UNCHANGED <<rxbufpolicy, txbufpolicy, events, iomask, pc, op, res, late>>

\* ZT_SET_BUFINFO up to that point, where it may sleep, and may end without memory.
SetPolicies(rxpolicy, txpolicy) ==
  /\ KernelFree /\ mem
  /\ rxbufpolicy' = rxpolicy /\ txbufpolicy' = txpolicy
  /\ UNCHANGED <<rx, tx, numbufs, mem, events, iomask, pc, op, res, late, atrisk>>

\* Called with the channel's lock held.
zt_hangup ==
  /\ KernelFree
  /\ ResetRead(mem) /\ ResetWrite(mem)
  /\ Strand
  /\ UNCHANGED <<rxdisable, txdisable, setting, events, iomask, pc, op, res, late>>

\* The first open; without memory it fails and changes nothing.  It releases the lock
\* between zt_reallocbufs and the rest: a block received there leaves the rings as one
\* received afterwards does, for nobody sleeps yet and the rest clears rxdisable.
initialize_channel ==
  /\ ~mem
  /\ Reallocated(2, TRUE, "immediate", "immediate")
  /\ rxbufpolicy' = "immediate" /\ txbufpolicy' = "immediate"
  /\ events' = 0 /\ iomask' = {}
  /\ UNCHANGED <<pc, op, res, late, atrisk>>

\* The last close.
close_channel ==
  /\ mem /\ \A p \in Procs : pc[p] = "user"
  /\ Reallocated(2, FALSE, rxbufpolicy, txbufpolicy)
  /\ iomask' = {}
  /\ UNCHANGED <<rxbufpolicy, txbufpolicy, events, pc, op, res, late, atrisk>>

\* The signalling half of the interrupt handler reports something.
__qevent ==
  /\ events < MaxEvents
  /\ events' = events + 1
  /\ wake_up({"readbufq", "writebufq"} \cup IfMasked({"sig"}))
  /\ Interrupt("event")
  /\ UNCHANGED <<rx, tx, setting, iomask, op, res>>

ZT_GETEVENT ==
  /\ KernelFree /\ mem /\ events > 0
  /\ events' = events - 1
  /\ UNCHANGED <<rx, tx, setting, iomask, pc, op, res, late, atrisk>>

-----------------------------------------------------------------------------
Init ==
  /\ numbufs = 2 /\ mem = FALSE
  /\ inreadbuf = None /\ outreadbuf = None /\ readbuf = Empty /\ rxdisable = FALSE
  /\ inwritebuf = None /\ outwritebuf = None /\ writebuf = Empty /\ txdisable = FALSE
  /\ rxbufpolicy = "immediate" /\ txbufpolicy = "immediate"
  /\ events = 0 /\ iomask = {}
  /\ pc = [p \in Procs |-> "user"] /\ op = [p \in Procs |-> "none"]
  /\ res = 0 /\ late = {} /\ atrisk = {}

Calls(p) ==
  \/ p \in Readers /\ zt_chan_read(p)
  \/ p \in Writers /\ (zt_chan_write(p) \/ ZT_SYNC(p))
  \/ p \in Readers /\ \E m \in Masks \cup {{}, iomask} : ZT_IOMUX(p, m)

\* What a process in the kernel does next.
Proceeds(p) ==
  \/ schluffen(p) \/ ReadDone(p)
  \/ \E d \in Data : WriteDone(p, d)

Line ==
  \/ \E d \in Data : __putbuf_chunk(d)
  \/ __zt_getbuf_chunk

Ioctls ==
  \/ \E what \in SUBSET {"read", "write", "event"} : ZT_FLUSH(what)
  \/ \E n \in 2 .. MaxBufs : zt_reallocbufs(n)
  \/ \E r, t \in Policies : SetPolicies(r, t)
  \/ zt_hangup \/ initialize_channel \/ close_channel \/ ZT_GETEVENT

Next == Line \/ __qevent \/ Ioctls \/ \E p \in Procs : Calls(p) \/ Proceeds(p)

Spec == Init /\ [][Next]_vars

\* The line never stops, and a process that is not asleep runs on.
FairSpec ==
  /\ Spec
  /\ WF_vars(\E d \in Data : __putbuf_chunk(d))
  /\ WF_vars(__zt_getbuf_chunk)
  /\ \A p \in Procs : WF_vars(Running(p) /\ Proceeds(p))

-----------------------------------------------------------------------------
\* Properties.

\* Every index names a buffer of the ring or is -1, and every process is in one of
\* the calls above.
TypeOK ==
  /\ numbufs \in 2 .. MaxBufs /\ mem \in BOOLEAN
  /\ inreadbuf \in -1 .. numbufs - 1 /\ outreadbuf \in -1 .. numbufs - 1
  /\ inwritebuf \in -1 .. numbufs - 1 /\ outwritebuf \in -1 .. numbufs - 1
  /\ readbuf \in [Bufs -> Data \cup {NoData}] /\ rxdisable \in BOOLEAN
  /\ writebuf \in [Bufs -> Data \cup {NoData}] /\ txdisable \in BOOLEAN
  /\ rxbufpolicy \in Policies /\ txbufpolicy \in Policies
  /\ events \in 0 .. MaxEvents
  /\ iomask \in SUBSET {"read", "write", "empty", "sig", "nowait"}
  /\ pc \in [Procs -> {"user", "copy", "window", "asleep", "woken"}]
  /\ op \in [Procs -> {"none", "read", "write", "sync", "iomux"}]
  /\ res \in Bufs
  /\ late \in SUBSET {"rx", "tx", "event"}
  /\ atrisk \in SUBSET Procs

\* The buffers from out up to in, round a ring of n.
Held(n, in, out) ==
  IF out < 0 THEN {}
  ELSE IF in < 0 THEN 0 .. n - 1
  ELSE {b \in 0 .. n - 1 : IF out < in THEN out <= b /\ b < in ELSE out <= b \/ b < in}

Shape(n, in, out, buf) ==
  in # out /\ \A b \in Bufs : buf[b] # NoData <=> b \in Held(n, in, out)

\* -1 is used for "no free buffer" in one index and "no full buffer" in the other,
\* by interrupt handler and programs both: the two never coincide in an open
\* channel, and the buffers that hold a block are exactly those from out up to in.
RingShape ==
  IF mem
  THEN /\ Shape(numbufs, inreadbuf, outreadbuf, readbuf)
       /\ Shape(numbufs, inwritebuf, outwritebuf, writebuf)
  ELSE {inreadbuf, outreadbuf, inwritebuf, outwritebuf} = {None}

\* zt_chan_read and zt_chan_write copy without the lock; while they do, the
\* interrupt handler neither fills the buffer being read nor sends the one being
\* written, and the index they advance afterwards is still the one they read.
NoTear ==
  \A p \in Procs : pc[p] = "copy" =>
    /\ op[p] = "read" => res = outreadbuf /\ res # inreadbuf /\ readbuf[res] # NoData
    /\ op[p] = "write" => res = inwritebuf /\ res # outwritebuf /\ writebuf[res] = NoData

\* Whatever the interrupt did between the test and the sleep, a reader sleeps only
\* while the handler has a buffer to fill and a writer only while it has a block to
\* send, so that it will wake them.  Not covered (atrisk): a reader that waits for a
\* partly filled ring to fill up (ZT_POLICY_WHEN_FULL); a writer that finds a ring
\* which one interrupt may empty, all its blocks but the first being shorter than a
\* chunk; and programs asleep in a ring that zt_hangup or zt_reallocbufs empties, for
\* these wake nobody.
SleepersServed ==
  \A p \in Procs : pc[p] = "asleep" /\ p \notin atrisk =>
    /\ op[p] = "read" => inreadbuf >= 0
    /\ op[p] = "write" => outwritebuf >= 0 /\ ~txdisable

\* Such a reader or writer does wake: no lost wake-up makes it sleep for ever.
SleepersWake ==
  \A p \in Procs :
    (pc[p] = "asleep" /\ op[p] \in {"read", "write"} /\ p \notin atrisk)
      ~> (pc[p] # "asleep" \/ p \in atrisk)

\* "That is why the write and iomux calls start with an infinite loop": zt_chan_write
\* and __zt_getbuf_chunk, which wakes it "EVERY time a buffer was emptied", are written
\* so that no wake-up between its test and its sleep is missed, and so a writer never
\* falls asleep in front of a ring that has been emptied in the meantime.
WakeUpNotMissed ==
  [][\A p \in Procs : pc[p] = "window" /\ pc'[p] = "asleep" /\ op[p] = "write"
                        => outwritebuf >= 0]_vars

-----------------------------------------------------------------------------
\* The rings as queues.

\* How many of n buffers hold a block.
Count(n, in, out) ==
  IF out < 0 THEN 0 ELSE IF in < 0 THEN n ELSE (in - out + n) % n

\* The blocks of a ring of n buffers in the order in which they will leave.
Blocks(n, in, out, buf) == [i \in 1 .. Count(n, in, out) |-> buf[(out + i - 1) % n]]

ReadQueue == Blocks(numbufs, inreadbuf, outreadbuf, readbuf)
WriteQueue == Blocks(numbufs, inwritebuf, outwritebuf, writebuf)
Room == IF mem THEN numbufs ELSE 0

Queue == INSTANCE ZtQueue WITH rxq <- ReadQueue, txq <- WriteQueue, room <- Room

\* The two rings are two bounded queues: what the line delivered is read in its
\* order, what was written is sent in its order, each block once, and nothing is
\* dropped but by a reset or for want of a free buffer.
ImplementsQueue == Queue!Spec
=============================================================================
