-------------------------------- MODULE Sram --------------------------------
(***************************************************************************)
(* One bank of on-chip L1 memory as src/src/blackfin_sram.c manages it: a  *)
(* fixed table of Count slots, each NULL (unused), FREE or ALLOCATED, with *)
(* the address and the size of the piece the slot describes.  Every        *)
(* operation runs under the bank's spinlock, so it is one step here.       *)
(* A slot that a merge empties keeps its old address: the table the search *)
(* of a free walks holds stale addresses, and the code never checks a flag *)
(* before it compares an address.                                          *)
(* The owner's pid, which only the /proc listing prints, is left out.      *)
(***************************************************************************)
EXTENDS Integers

CONSTANTS
  Base,       \* first address of the bank (after the section linked into it)
  Length,     \* bytes in the bank
  Count,      \* CONFIG_L1_MAX_PIECE, the number of slots
  Requests,   \* the sizes callers ask for
  SizeMod     \* 2^32: size_t arithmetic wraps at this value

ASSUME BankAssumption ==
  /\ Base \in Nat \ {0}
  /\ Length \in Nat \ {0}
  /\ Count \in Nat \ {0}
  /\ SizeMod \in Nat

\* No caller asks for so much that rounding the size up wraps to zero.
ASSUME RequestAssumption ==
  Requests \subseteq {n \in Nat : n + 3 < SizeMod}

VARIABLES
  paddr, size, flag,   \* struct l1_sram_piece, one function per field
  ret                  \* the last call: its name, argument and result

vars == <<paddr, size, flag, ret>>

Slots == 0 .. Count - 1

SRAM_SLT_NULL      == "NULL"
SRAM_SLT_FREE      == "FREE"
SRAM_SLT_ALLOCATED == "ALLOCATED"

IsFirst(i, S) == i \in S /\ \A j \in S : i <= j
First(S) == CHOOSE i \in S : \A j \in S : i <= j

Live(i) == flag[i] # SRAM_SLT_NULL

-----------------------------------------------------------------------------
\* A broken variant: the size is rounded down.
AlignDown(n) == n - (n % 4)

\* size = (size + 3) & ~3, in size_t.
Align(n) ==
  LET sum == IF n + 3 < SizeMod THEN n + 3 ELSE n + 3 - SizeMod
  IN  sum - (sum % 4)

l1_sram_init ==
  /\ paddr = [i \in Slots |-> IF i = 0 THEN Base ELSE 0]
  /\ size  = [i \in Slots |-> IF i = 0 THEN Length ELSE 0]
  /\ flag  = [i \in Slots |-> IF i = 0 THEN SRAM_SLT_FREE ELSE SRAM_SLT_NULL]
  /\ ret   = <<"init", 0, 0>>

Fits(want) == {i \in Slots : flag[i] = SRAM_SLT_FREE /\ size[i] >= want}

\* A broken variant: the search for an unused slot runs from the end.
LastNullSlot == {i \in Slots : /\ flag[i] = SRAM_SLT_NULL
                               /\ \A j \in Slots : flag[j] = SRAM_SLT_NULL => j <= i}

NullSlots == {i \in Slots : flag[i] = SRAM_SLT_NULL}

\* A broken variant: the found piece keeps its size.
SplitKeepsSize(index, spare, want) ==
  /\ paddr' = [paddr EXCEPT ![spare] = paddr[index] + want]
  /\ size'  = [size EXCEPT ![spare] = size[index] - want]
  /\ flag'  = [flag EXCEPT ![spare] = SRAM_SLT_FREE,
                           ![index] = SRAM_SLT_ALLOCATED]

\* The found piece is larger than the request: slot spare takes the rest.
Split(index, spare, want) ==
  /\ paddr' = [paddr EXCEPT ![spare] = paddr[index] + want]
  /\ size'  = [size EXCEPT ![spare] = size[index] - want, ![index] = want]
  /\ flag'  = [flag EXCEPT ![spare] = SRAM_SLT_FREE,
                           ![index] = SRAM_SLT_ALLOCATED]

\* The piece fits exactly, or no slot is left for the rest: hand it out whole.
TakeWhole(index) ==
  /\ flag' = [flag EXCEPT ![index] = SRAM_SLT_ALLOCATED]
  /\ UNCHANGED <<paddr, size>>

l1_sram_alloc(n) ==
  /\ n > 0
  /\ \E index \in Slots :
       /\ IsFirst(index, Fits(Align(n)))
       /\ ret' = <<"alloc", n, paddr[index]>>
       /\ \/ /\ size[index] > Align(n)
             /\ \E spare \in Slots :
                  /\ IsFirst(spare, NullSlots)
                  /\ Split(index, spare, Align(n))
          \/ /\ size[index] = Align(n) \/ NullSlots = {}
             /\ TakeWhole(index)

\* A request for nothing, or one that no free piece can hold, returns NULL.
AllocFails(n) ==
  /\ n = 0 \/ Fits(Align(n)) = {}
  /\ ret' = <<"alloc", n, 0>>
  /\ UNCHANGED <<paddr, size, flag>>

\* The largest free piece, the lowest slot of several as large.
Largest == {i \in Slots : /\ flag[i] = SRAM_SLT_FREE
                          /\ size[i] > 0
                          /\ \A j \in Slots : flag[j] = SRAM_SLT_FREE
                                                => size[j] <= size[i]}

l1_sram_alloc_max ==
  \E index \in Slots :
    /\ IsFirst(index, Largest)
    /\ ret' = <<"alloc", size[index], paddr[index]>>
    /\ TakeWhole(index)

AllocMaxFails ==
  /\ Largest = {}
  /\ ret' = <<"alloc", 0, 0>>
  /\ UNCHANGED <<paddr, size, flag>>

-----------------------------------------------------------------------------
Matching(addr) == {i \in Slots : paddr[i] = addr}

\* A broken variant: a free links only the piece that follows.
ReleaseNextOnly(index) ==
  LET next == {i \in Slots : /\ paddr[index] + size[index] = paddr[i]
                             /\ flag[i] = SRAM_SLT_FREE}
  IN  IF next = {} THEN flag' = [flag EXCEPT ![index] = SRAM_SLT_FREE]
                        /\ UNCHANGED <<paddr, size>>
      ELSE /\ flag' = [flag EXCEPT ![First(next)] = SRAM_SLT_NULL,
                                   ![index] = SRAM_SLT_FREE]
           /\ size' = [size EXCEPT ![index] = @ + size[First(next)]]
           /\ UNCHANGED paddr

\* Slot index becomes free, takes in the free piece that follows it, and is
\* then taken in by the free piece that precedes it.
Release(index) ==
  LET flag1 == [flag EXCEPT ![index] = SRAM_SLT_FREE]
      next  == {i \in Slots : /\ paddr[index] + size[index] = paddr[i]
                              /\ flag1[i] = SRAM_SLT_FREE}
      flag2 == IF next = {} THEN flag1
               ELSE [flag1 EXCEPT ![First(next)] = SRAM_SLT_NULL,
                                  ![index] = SRAM_SLT_FREE]
      size2 == IF next = {} THEN size
               ELSE [size EXCEPT ![index] = @ + size[First(next)]]
      last  == {i \in Slots : /\ paddr[i] + size2[i] = paddr[index]
                              /\ flag2[i] = SRAM_SLT_FREE}
  IN  /\ flag' = IF last = {} THEN flag2
                 ELSE [flag2 EXCEPT ![index] = SRAM_SLT_NULL]
      /\ size' = IF last = {} THEN size2
                 ELSE [size2 EXCEPT ![First(last)] = @ + size2[index]]
      /\ UNCHANGED paddr

l1_sram_free(addr) ==
  \E index \in Slots :
    /\ IsFirst(index, Matching(addr))
    /\ flag[index] = SRAM_SLT_ALLOCATED
    /\ ret' = <<"free", addr, 0>>
    /\ Release(index)

\* No slot has the address, or the first that has it is not allocated: -1.
FreeFails(addr) ==
  /\ \A index \in Slots : IsFirst(index, Matching(addr))
                            => flag[index] # SRAM_SLT_ALLOCATED
  /\ ret' = <<"free", addr, -1>>
  /\ UNCHANGED <<paddr, size, flag>>

\* What a caller may pass to a free: NULL or an address of the bank.
Addresses == {0} \cup (Base .. Base + Length - 1)

Init == l1_sram_init

Next ==
  \/ \E n \in Requests : l1_sram_alloc(n)
  \/ \E n \in Requests : AllocFails(n)
  \/ l1_sram_alloc_max
  \/ AllocMaxFails
  \/ \E addr \in Addresses : l1_sram_free(addr)
  \/ \E addr \in Addresses : FreeFails(addr)

Spec == Init /\ [][Next]_vars

-----------------------------------------------------------------------------
\* Every slot holds an address, a size that is never negative, and one of the
\* three flags of blackfin_sram.c.
TypeOK ==
  /\ paddr \in [Slots -> Nat]
  /\ size \in [Slots -> Nat]
  /\ flag \in [Slots -> {SRAM_SLT_NULL, SRAM_SLT_FREE, SRAM_SLT_ALLOCATED}]

Byte == Base .. Base + Length - 1

Holds(i, b) == Live(i) /\ paddr[i] <= b /\ b < paddr[i] + size[i]

\* The pieces of the slots in use tile the bank: no byte is lost by a split or
\* a merge, none is in two pieces, and no piece is empty or leaves the bank.
Tiling ==
  /\ \A i \in Slots : Live(i) => /\ size[i] > 0
                                 /\ Base <= paddr[i]
                                 /\ paddr[i] + size[i] <= Base + Length
  /\ \A i, j \in Slots : Live(i) /\ Live(j) /\ i # j
        => paddr[i] + size[i] <= paddr[j] \/ paddr[j] + size[j] <= paddr[i]
  /\ \A b \in Byte : \E i \in Slots : Holds(i, b)

\* A free merges in both directions, so no two free pieces ever touch: memory
\* freed in any order is available again as one piece.
Coalesced ==
  \A i, j \in Slots :
    flag[i] = SRAM_SLT_FREE /\ flag[j] = SRAM_SLT_FREE
      => paddr[i] + size[i] # paddr[j]

\* The search of _l1_sram_free stops at the first slot with the address, even a
\* NULL slot that has kept it.  It never stops too early: the first slot with the
\* address of an allocated piece is the slot of that piece.
FreeFindsPiece ==
  \A i \in Slots : flag[i] = SRAM_SLT_ALLOCATED
                    => IsFirst(i, Matching(paddr[i]))

\* Why the search finds it: a stale address is always further down the table
\* than a live slot with the same address, because a split takes the lowest
\* NULL slot.
StaleBehind ==
  \A i, j \in Slots : ~Live(i) /\ Live(j) /\ paddr[i] = paddr[j] => j < i

\* When the last piece is freed the whole bank is one free piece again.
AllFreedIsWhole ==
  (\A i \in Slots : flag[i] # SRAM_SLT_ALLOCATED)
    => \E i \in Slots : /\ flag[i] = SRAM_SLT_FREE
                        /\ paddr[i] = Base
                        /\ size[i] = Length

Block(i) == [addr |-> paddr[i], len |-> size[i]]

Allocated == {i \in Slots : flag[i] = SRAM_SLT_ALLOCATED}

Abstract == INSTANCE SramAbstract
              WITH held <- {Block(i) : i \in Allocated},
                   Requests <- Requests \cup 0 .. Length

\* The slot table implements the allocator of SramAbstract: a piece that is held
\* never moves, grows or overlaps another, whatever is split and merged around
\* it, and a call's result says what happened to the pieces held.
ImplementsAbstract == Abstract!Spec
=============================================================================
