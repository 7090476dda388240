------------------------------- MODULE ZtQueue -------------------------------
(***************************************************************************)
(* What a channel promises the programs that read and write it: two queues *)
(* of blocks, bounded by the number of buffers, one filled by the line and *)
(* emptied by readers, the other filled by writers and emptied by the line.*)
(* Blocks leave in the order in which they came; the line's blocks are     *)
(* lost only when the queue is full; a reset empties either queue.         *)
(***************************************************************************)
EXTENDS Naturals, Sequences

CONSTANTS
  Data,         \* blocks
  MaxBufs       \* most buffers of a queue

VARIABLES rxq, txq, room

vars == <<rxq, txq, room>>

Put(q, d) == Len(q) < room /\ q' = Append(q, d)
Get(q) == q # <<>> /\ q' = Tail(q)

LineIn(d) == Put(rxq, d) /\ UNCHANGED <<txq, room>>
Read == Get(rxq) /\ UNCHANGED <<txq, room>>
Write(d) == Put(txq, d) /\ UNCHANGED <<rxq, room>>
LineOut == Get(txq) /\ UNCHANGED <<rxq, room>>

\* Flushing, hanging up, and setting or giving up the buffers.
Reset ==
  /\ rxq' \in {<<>>, rxq} /\ txq' \in {<<>>, txq}
  /\ room' \in 0 .. MaxBufs /\ (room' # room => rxq' = <<>> /\ txq' = <<>>)

Init == rxq = <<>> /\ txq = <<>> /\ room = 0

Next ==
  \/ \E d \in Data : LineIn(d) \/ Write(d)
  \/ Read \/ LineOut \/ Reset

Spec == Init /\ [][Next]_vars
=============================================================================
