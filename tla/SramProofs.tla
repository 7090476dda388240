----------------------------- MODULE SramProofs -----------------------------
(***************************************************************************)
(* The slot table of one bank of L1 memory, for every bank, every number   *)
(* of slots and every set of request sizes that do not wrap.  The          *)
(* inductive invariant is the tiling of the bank, the absence of touching  *)
(* free pieces, and the order of live and stale slots.                     *)
(***************************************************************************)
EXTENDS Sram, TLAPS

IInv == TypeOK /\ Tiling /\ Coalesced /\ StaleBehind

(* The same facts about any table p, s, f: a free passes through tables that *)
(* are no state.                                                             *)
TypeOf(p, s, f) ==
  /\ p \in [Slots -> Nat]
  /\ s \in [Slots -> Nat]
  /\ f \in [Slots -> {SRAM_SLT_NULL, SRAM_SLT_FREE, SRAM_SLT_ALLOCATED}]

InBank(p, s, f) ==
  \A i \in Slots : f[i] # SRAM_SLT_NULL
    => s[i] > 0 /\ Base <= p[i] /\ p[i] + s[i] <= Base + Length

Disjoint(p, s, f) ==
  \A i, j \in Slots : f[i] # SRAM_SLT_NULL /\ f[j] # SRAM_SLT_NULL /\ i # j
    => p[i] + s[i] <= p[j] \/ p[j] + s[j] <= p[i]

Covers(p, s, f) ==
  \A b \in Byte : \E i \in Slots :
    f[i] # SRAM_SLT_NULL /\ p[i] <= b /\ b < p[i] + s[i]

Behind(p, f) ==
  \A i, j \in Slots :
    f[i] = SRAM_SLT_NULL /\ f[j] # SRAM_SLT_NULL /\ p[i] = p[j] => j < i

Table(p, s, f) ==
  /\ TypeOf(p, s, f)
  /\ InBank(p, s, f)
  /\ Disjoint(p, s, f)
  /\ Covers(p, s, f)
  /\ Behind(p, f)

Touch(p, s, f, i, j) ==
  f[i] = SRAM_SLT_FREE /\ f[j] = SRAM_SLT_FREE /\ p[i] + s[i] = p[j]

\* Rounding a size up to whole words loses nothing and does not wrap.
LEMMA AlignLemma ==
  ASSUME NEW n \in Requests, n > 0
  PROVE  Align(n) \in Nat /\ Align(n) >= n /\ Align(n) > 0
BY RequestAssumption, BankAssumption DEF Align

LEMMA IInvIsTable == IInv <=> /\ Table(paddr, size, flag)
                              /\ \A i, j \in Slots : ~Touch(paddr, size, flag, i, j)
BY DEF IInv, TypeOK, Tiling, Coalesced, StaleBehind, Table, TypeOf, InBank,
       Disjoint, Covers, Behind, Touch, Live, Holds

LEMMA FlagsDiffer ==
  /\ SRAM_SLT_NULL # SRAM_SLT_FREE
  /\ SRAM_SLT_NULL # SRAM_SLT_ALLOCATED
  /\ SRAM_SLT_FREE # SRAM_SLT_ALLOCATED
BY DEF SRAM_SLT_NULL, SRAM_SLT_FREE, SRAM_SLT_ALLOCATED

LEMMA InitIInv == Init => IInv
<1> SUFFICES ASSUME Init PROVE IInv
  OBVIOUS
<1> USE BankAssumption, FlagsDiffer
<1>1. TypeOK
  BY DEF Init, l1_sram_init, TypeOK, Slots
<1>2. Tiling
  <2>1. 0 \in Slots
    BY DEF Slots
  <2>2. \A b \in Byte : Holds(0, b)
    BY <2>1 DEF Init, l1_sram_init, Byte, Holds, Live
  <2> QED
    BY <2>1, <2>2 DEF Init, l1_sram_init, Tiling, Live
<1>3. Coalesced
  BY DEF Init, l1_sram_init, Coalesced
<1>4. StaleBehind
  BY DEF Init, l1_sram_init, StaleBehind, Live, Slots
<1> QED
  BY <1>1, <1>2, <1>3, <1>4 DEF IInv

(* Handing out a free piece whole. *)
LEMMA TakeWholeIInv ==
  ASSUME IInv, NEW index \in Slots, flag[index] = SRAM_SLT_FREE, TakeWhole(index)
  PROVE  IInv'
<1> USE FlagsDiffer
<1>1. TypeOK'
  BY DEF IInv, TypeOK, TakeWhole
<1>2. \A i \in Slots : Live(i)' <=> Live(i)
  BY DEF IInv, TypeOK, TakeWhole, Live
<1>3. Tiling'
  BY <1>2 DEF IInv, Tiling, TakeWhole, Holds
<1>4. Coalesced'
  BY DEF IInv, TypeOK, Coalesced, TakeWhole
<1>5. StaleBehind'
  BY <1>2 DEF IInv, StaleBehind, TakeWhole
<1> QED
  BY <1>1, <1>3, <1>4, <1>5 DEF IInv

(* Splitting a free piece: the rest goes to the lowest NULL slot. *)
LEMMA SplitIInv ==
  ASSUME IInv, NEW index \in Slots, NEW spare \in Slots, NEW want \in Nat,
         flag[index] = SRAM_SLT_FREE, want > 0, size[index] > want,
         IsFirst(spare, NullSlots), Split(index, spare, want)
  PROVE  IInv'
<1> USE FlagsDiffer
<1>1. /\ flag[spare] = SRAM_SLT_NULL /\ spare # index
      /\ \A i \in Slots : flag[i] = SRAM_SLT_NULL => spare <= i
  BY DEF IsFirst, NullSlots
<1>2. TypeOK /\ Tiling /\ Coalesced /\ StaleBehind
  BY DEF IInv
<1>3. TypeOK'
  BY <1>1, <1>2 DEF TypeOK, Split
<1>4. /\ paddr'[spare] = paddr[index] + want
      /\ size'[spare] = size[index] - want
      /\ flag'[spare] = SRAM_SLT_FREE
      /\ paddr'[index] = paddr[index]
      /\ size'[index] = want
      /\ flag'[index] = SRAM_SLT_ALLOCATED
      /\ \A i \in Slots \ {index, spare} :
           paddr'[i] = paddr[i] /\ size'[i] = size[i] /\ flag'[i] = flag[i]
  BY <1>1, <1>2 DEF TypeOK, Split
<1>5. Tiling'
  <2>1. \A i \in Slots : Live(i)' => /\ size'[i] > 0
                                     /\ Base <= paddr'[i]
                                     /\ paddr'[i] + size'[i] <= Base + Length
    BY <1>1, <1>2, <1>4, BankAssumption DEF TypeOK, Tiling, Live
  <2>2. \A i, j \in Slots : Live(i)' /\ Live(j)' /\ i # j
        => paddr'[i] + size'[i] <= paddr'[j] \/ paddr'[j] + size'[j] <= paddr'[i]
    BY <1>1, <1>2, <1>4, BankAssumption DEF TypeOK, Tiling, Live
  <2>3. ASSUME NEW b \in Byte PROVE \E i \in Slots : Holds(i, b)'
    <3>1. PICK i \in Slots : Holds(i, b)
      BY <1>2 DEF Tiling
    <3>2. CASE i = index
      BY <3>1, <3>2, <1>1, <1>2, <1>4, BankAssumption DEF Holds, Live, Byte, TypeOK
    <3>3. CASE i # index
      BY <3>1, <3>3, <1>1, <1>2, <1>4 DEF Holds, Live
    <3> QED
      BY <3>2, <3>3
  <2> QED
    BY <2>1, <2>2, <2>3, Zenon DEF Tiling, Byte
<1>6. Coalesced'
  <2> SUFFICES ASSUME NEW i \in Slots, NEW j \in Slots,
                      flag'[i] = SRAM_SLT_FREE, flag'[j] = SRAM_SLT_FREE,
                      paddr'[i] + size'[i] = paddr'[j]
               PROVE  FALSE
    BY DEF Coalesced
  <2>1. i # index /\ j # index
    BY <1>4, Zenon
  <2>2. CASE i = spare
    BY <2>1, <2>2, <1>1, <1>2, <1>4, BankAssumption DEF Coalesced, TypeOK
  <2>3. CASE i # spare /\ j = spare
    BY <2>1, <2>3, <1>1, <1>2, <1>4 DEF Tiling, TypeOK, Live
  <2>4. CASE i # spare /\ j # spare
    BY <2>1, <2>4, <1>2, <1>4, Zenon DEF Coalesced
  <2> QED
    BY <2>2, <2>3, <2>4
<1>7. StaleBehind'
  BY <1>1, <1>2, <1>4 DEF StaleBehind, Live, Slots
<1> QED
  BY <1>3, <1>5, <1>6, <1>7 DEF IInv

(* One free piece absorbs the free piece that follows it: what both halves *)
(* of the merge in a free do.                                              *)
Absorb(s, k, m) == [s EXCEPT ![k] = @ + s[m]]

Retire(f, m) == [f EXCEPT ![m] = SRAM_SLT_NULL]

\* A merge keeps the table sound: the emptied slot's stale address lies inside
\* the piece that absorbed it, so it shadows nothing.
LEMMA MergeTable ==
  ASSUME NEW p, NEW s, NEW f, NEW k \in Slots, NEW m \in Slots,
         Table(p, s, f), Touch(p, s, f, k, m)
  PROVE  Table(p, Absorb(s, k, m), Retire(f, m))
<1> DEFINE s2 == Absorb(s, k, m)
           f2 == Retire(f, m)
<1> USE FlagsDiffer
<1>1. /\ TypeOf(p, s, f) /\ InBank(p, s, f) /\ Disjoint(p, s, f)
      /\ Covers(p, s, f) /\ Behind(p, f)
  BY DEF Table
<1>2. /\ f[k] = SRAM_SLT_FREE /\ f[m] = SRAM_SLT_FREE
      /\ p[k] + s[k] = p[m] /\ k # m
  BY <1>1 DEF Touch, TypeOf, InBank
<1>3. TypeOf(p, s2, f2)
  BY <1>1, <1>2 DEF TypeOf, Absorb, Retire
<1>4. /\ s2[k] = s[k] + s[m]
      /\ f2[m] = SRAM_SLT_NULL
      /\ \A i \in Slots \ {k} : s2[i] = s[i]
      /\ \A i \in Slots \ {m} : f2[i] = f[i]
  BY <1>1, <1>2, Zenon DEF TypeOf, Absorb, Retire
<1> HIDE DEF s2, f2
<1>5. InBank(p, s2, f2)
  BY <1>1, <1>2, <1>4, BankAssumption DEF TypeOf, InBank
<1>6. Disjoint(p, s2, f2)
  <2> SUFFICES ASSUME NEW i \in Slots, NEW j \in Slots,
                      f2[i] # SRAM_SLT_NULL, f2[j] # SRAM_SLT_NULL, i # j
               PROVE  p[i] + s2[i] <= p[j] \/ p[j] + s2[j] <= p[i]
    BY DEF Disjoint
  <2>1. i # m /\ j # m /\ f[i] # SRAM_SLT_NULL /\ f[j] # SRAM_SLT_NULL
    BY <1>4, Zenon
  <2>2. \A x \in Slots : f[x] # SRAM_SLT_NULL => s[x] > 0
    BY <1>1, Zenon DEF InBank
  <2>3. CASE i = k
    BY <2>1, <2>2, <2>3, <1>1, <1>2, <1>4 DEF Disjoint, TypeOf
  <2>4. CASE j = k
    BY <2>1, <2>2, <2>4, <1>1, <1>2, <1>4 DEF Disjoint, TypeOf
  <2>5. CASE i # k /\ j # k
    BY <2>1, <2>5, <1>1, <1>4, Zenon DEF Disjoint
  <2> QED
    BY <2>3, <2>4, <2>5
<1>7. Covers(p, s2, f2)
  <2> SUFFICES ASSUME NEW b \in Byte
               PROVE  \E i \in Slots : /\ f2[i] # SRAM_SLT_NULL
                                       /\ p[i] <= b /\ b < p[i] + s2[i]
    BY Zenon DEF Covers
  <2>1. PICK i \in Slots : f[i] # SRAM_SLT_NULL /\ p[i] <= b /\ b < p[i] + s[i]
    BY <1>1, Zenon DEF Covers
  <2>2. CASE i = k \/ i = m
    BY <2>1, <2>2, <1>1, <1>2, <1>4, BankAssumption DEF TypeOf, Byte
  <2>3. CASE i # k /\ i # m
    BY <2>1, <2>3, <1>4
  <2> QED
    BY <2>2, <2>3, Zenon
<1>8. Behind(p, f2)
  <2> SUFFICES ASSUME NEW i \in Slots, NEW j \in Slots,
                      f2[i] = SRAM_SLT_NULL, f2[j] # SRAM_SLT_NULL, p[i] = p[j]
               PROVE  j < i
    BY Zenon DEF Behind
  <2>1. j # m /\ f[j] # SRAM_SLT_NULL
    BY <1>4, Zenon
  <2>2. CASE i = m
    BY <2>1, <2>2, <1>1, <1>2 DEF Disjoint, InBank, TypeOf
  <2>3. CASE i # m
    BY <2>1, <2>3, <1>1, <1>4, Zenon DEF Behind
  <2> QED
    BY <2>2, <2>3
<1> QED
  BY <1>3, <1>5, <1>6, <1>7, <1>8 DEF Table, s2, f2

\* At most one free piece follows, and at most one precedes, a given piece.
LEMMA NeighbourUnique ==
  ASSUME NEW p, NEW s, NEW f, Table(p, s, f),
         NEW i \in Slots, NEW j \in Slots, NEW x \in Slots,
         f[i] = SRAM_SLT_FREE, f[j] = SRAM_SLT_FREE, f[x] # SRAM_SLT_NULL
  PROVE  /\ p[i] = p[j] => i = j
         /\ p[i] + s[i] = p[x] /\ p[j] + s[j] = p[x] => i = j
<1>1. TypeOf(p, s, f) /\ InBank(p, s, f) /\ Disjoint(p, s, f)
  BY DEF Table
<1>2. f[i] # SRAM_SLT_NULL /\ f[j] # SRAM_SLT_NULL
  BY FlagsDiffer
<1> QED
  BY <1>1, <1>2 DEF TypeOf, InBank, Disjoint

LEMMA FirstOfOne ==
  ASSUME NEW S \in SUBSET Slots, S # {}, \A i, j \in S : i = j
  PROVE  First(S) \in S
<1>1. PICK i \in S : i \in S
  OBVIOUS
<1>2. i \in Int /\ \A j \in S : j = i
  BY <1>1 DEF Slots
<1>3. \A j \in S : i <= j
  BY <1>2
<1> QED
  BY <1>1, <1>3 DEF First

(* Giving a piece back: the other allocated pieces stay as they are. *)
LEMMA ReleaseIInv ==
  ASSUME IInv, NEW index \in Slots, flag[index] = SRAM_SLT_ALLOCATED, Release(index)
  PROVE  /\ IInv'
         /\ \A i \in Slots : flag'[i] = SRAM_SLT_ALLOCATED
                               <=> flag[i] = SRAM_SLT_ALLOCATED /\ i # index
         /\ \A i \in Slots : flag'[i] = SRAM_SLT_ALLOCATED => size'[i] = size[i]
         /\ paddr' = paddr
<1> DEFINE
      flag1 == [flag EXCEPT ![index] = SRAM_SLT_FREE]
      next  == {i \in Slots : /\ paddr[index] + size[index] = paddr[i]
                              /\ flag1[i] = SRAM_SLT_FREE}
      flag2 == IF next = {} THEN flag1
               ELSE [flag1 EXCEPT ![First(next)] = SRAM_SLT_NULL,
                                  ![index] = SRAM_SLT_FREE]
      size2 == IF next = {} THEN size
               ELSE [size EXCEPT ![index] = @ + size[First(next)]]
      last  == {i \in Slots : /\ paddr[i] + size2[i] = paddr[index]
                              /\ flag2[i] = SRAM_SLT_FREE}
<1> USE FlagsDiffer
<1>1. /\ flag' = IF last = {} THEN flag2
                 ELSE [flag2 EXCEPT ![index] = SRAM_SLT_NULL]
      /\ size' = IF last = {} THEN size2
                 ELSE [size2 EXCEPT ![First(last)] = @ + size2[index]]
      /\ paddr' = paddr
  BY Zenon DEF Release
<1>2. /\ Table(paddr, size, flag)
      /\ \A i, j \in Slots : ~Touch(paddr, size, flag, i, j)
  BY IInvIsTable, Zenon
<1>3. /\ flag1[index] = SRAM_SLT_FREE
      /\ \A i \in Slots \ {index} : flag1[i] = flag[i]
      /\ flag1 \in [Slots -> {SRAM_SLT_NULL, SRAM_SLT_FREE, SRAM_SLT_ALLOCATED}]
  BY <1>2, Zenon DEF Table, TypeOf
<1> HIDE DEF flag1
<1>4. Table(paddr, size, flag1)
  <2>1. \A i \in Slots : flag1[i] = SRAM_SLT_NULL <=> flag[i] = SRAM_SLT_NULL
    BY <1>3, SMTT(30)
  <2> QED
    BY <1>2, <1>3, <2>1 DEF Table, TypeOf, InBank, Disjoint, Covers, Behind
<1>5. /\ Table(paddr, size2, flag2)
      /\ flag2[index] = SRAM_SLT_FREE
      /\ \A i, j \in Slots : Touch(paddr, size2, flag2, i, j) => j = index
      /\ \A i \in Slots \ {index} :
           /\ flag2[i] = SRAM_SLT_ALLOCATED <=> flag[i] = SRAM_SLT_ALLOCATED
           /\ size2[i] = size[i]
  <2>1. CASE next = {}
    <3>1. size2 = size /\ flag2 = flag1
      BY <2>1
    <3> HIDE DEF size2, flag2
    <3>2. ASSUME NEW i \in Slots, NEW j \in Slots,
                 Touch(paddr, size, flag1, i, j), j # index
          PROVE  FALSE
      <4>1. CASE i = index
        BY <2>1, <3>2, <4>1, Zenon DEF Touch
      <4>2. CASE i # index
        BY <1>2, <1>3, <3>2, <4>2, Zenon DEF Touch
      <4> QED
        BY <4>1, <4>2, Zenon
    <3> QED
      BY <1>3, <1>4, <3>1, <3>2, Zenon
  <2>2. CASE next # {}
    <3> DEFINE n == First(next)
    <3>1. n \in next
      <4>1. \A i, j \in next : i = j
        BY <1>3, <1>4, NeighbourUnique
      <4> HIDE DEF next
      <4>2. next \in SUBSET Slots
        BY Zenon DEF next
      <4> QED
        BY <2>2, <4>1, <4>2, FirstOfOne, Zenon
    <3>2. /\ n \in Slots /\ n # index
          /\ Touch(paddr, size, flag1, index, n)
      BY <3>1, <1>2, <1>3 DEF Touch, Table, TypeOf, InBank
    <3>3. size2 = Absorb(size, index, n)
      BY <2>2 DEF Absorb
    <3>4. flag2 = Retire(flag1, n)
      BY <2>2, <3>2, <1>3, Zenon DEF Retire
    <3> HIDE DEF size2, flag2, next, n
    <3>5. Table(paddr, size2, flag2)
      BY <1>4, <3>2, <3>3, <3>4, MergeTable, Zenon
    <3>6. /\ size2[index] = size[index] + size[n]
          /\ \A i \in Slots \ {index} : size2[i] = size[i]
          /\ flag2[n] = SRAM_SLT_NULL
          /\ \A i \in Slots \ {n} : flag2[i] = flag1[i]
      BY <1>2, <1>3, <3>2, <3>3, <3>4, Zenon DEF Absorb, Retire, Table, TypeOf
    <3>7. ASSUME NEW i \in Slots, NEW j \in Slots,
                 Touch(paddr, size2, flag2, i, j), j # index
          PROVE  FALSE
      <4>1. i # n /\ j # n
        BY <3>6, <3>7, Zenon DEF Touch
      <4>2. CASE i = index
        <5>1. paddr[n] + size[n] = paddr[j]
          BY <3>2, <3>6, <3>7, <4>2, <1>2 DEF Touch, Table, TypeOf
        <5> QED
          BY <5>1, <4>1, <3>2, <3>6, <3>7, <1>2, <1>3 DEF Touch
      <4>3. CASE i # index
        BY <4>1, <4>3, <3>6, <3>7, <1>2, <1>3, Zenon DEF Touch
      <4> QED
        BY <4>2, <4>3
    <3>8. flag1[n] = SRAM_SLT_FREE
      BY <3>2, Zenon DEF Touch
    <3> QED
      BY <1>3, <3>2, <3>5, <3>6, <3>7, <3>8
  <2> QED
    BY <2>1, <2>2, Zenon
<1> HIDE DEF size2, flag2, next
<1>6. /\ Table(paddr', size', flag')
      /\ \A i, j \in Slots : ~Touch(paddr', size', flag', i, j)
      /\ \A i \in Slots : flag'[i] = SRAM_SLT_ALLOCATED
                            <=> flag[i] = SRAM_SLT_ALLOCATED /\ i # index
      /\ \A i \in Slots : flag'[i] = SRAM_SLT_ALLOCATED => size'[i] = size[i]
  <2>1. CASE last = {}
    <3>1. size' = size2 /\ flag' = flag2 /\ paddr' = paddr
      BY <1>1, <2>1, Zenon
    <3>2. \A i \in Slots : ~Touch(paddr, size2, flag2, i, index)
      BY <2>1, Zenon DEF Touch
    <3> QED
      BY <1>5, <3>1, <3>2, Zenon
  <2>2. CASE last # {}
    <3> DEFINE l == First(last)
    <3>1. l \in last
      <4>1. \A i, j \in last : i = j
        BY <1>5, NeighbourUnique
      <4> HIDE DEF last
      <4>2. last \in SUBSET Slots
        BY Zenon DEF last
      <4> QED
        BY <2>2, <4>1, <4>2, FirstOfOne
    <3>2. l \in Slots /\ Touch(paddr, size2, flag2, l, index)
      BY <3>1, <1>5, Zenon DEF Touch
    <3>3. /\ size' = Absorb(size2, l, index)
          /\ flag' = Retire(flag2, index)
          /\ paddr' = paddr
      BY <1>1, <2>2, Zenon DEF Absorb, Retire
    <3> HIDE DEF last, l
    <3>4. Table(paddr', size', flag')
      BY <1>5, <3>2, <3>3, MergeTable, Zenon
    <3>5. /\ size'[l] = size2[l] + size2[index]
          /\ \A i \in Slots \ {l} : size'[i] = size2[i]
          /\ flag'[index] = SRAM_SLT_NULL
          /\ \A i \in Slots \ {index} : flag'[i] = flag2[i]
      BY <1>5, <3>2, <3>3 DEF Absorb, Retire, Table, TypeOf
    <3>6. ASSUME NEW i \in Slots, NEW j \in Slots,
                 Touch(paddr, size', flag', i, j)
          PROVE  FALSE
      <4>1. i # index /\ j # index
        BY <3>5, <3>6, Zenon DEF Touch
      <4>2. CASE i = l
        <5>1. paddr[index] + size2[index] = paddr[j]
          BY <3>2, <3>5, <3>6, <4>2, <1>5, SMTT(30) DEF Touch, Table, TypeOf
        <5> QED
          BY <5>1, <4>1, <3>5, <3>6, <1>5, Zenon DEF Touch
      <4>3. CASE i # l
        BY <4>1, <4>3, <3>5, <3>6, <1>5, Zenon DEF Touch
      <4> QED
        BY <4>2, <4>3, Zenon
    <3>7. flag2[l] = SRAM_SLT_FREE
      BY <3>2, Zenon DEF Touch
    <3> QED
      BY <1>5, <3>2, <3>3, <3>4, <3>5, <3>6, <3>7, Zenon
  <2> QED
    BY <2>1, <2>2, Zenon
<1>7. IInv' <=> /\ Table(paddr', size', flag')
                /\ \A i, j \in Slots : ~Touch(paddr', size', flag', i, j)
  BY Zenon DEF IInv, TypeOK, Tiling, Coalesced, StaleBehind, Table, TypeOf, InBank,
         Disjoint, Covers, Behind, Touch, Live, Holds
<1> QED
  BY <1>1, <1>6, <1>7, Zenon

(* Every step of the bank. *)
LEMMA NextIInv == IInv /\ [Next]_vars => IInv'
<1> SUFFICES ASSUME IInv, [Next]_vars PROVE IInv'
  BY Zenon
<1>1. ASSUME UNCHANGED <<paddr, size, flag>> PROVE IInv'
  BY <1>1, Zenon DEF IInv, TypeOK, Tiling, Coalesced, StaleBehind, Live, Holds
<1>2. ASSUME NEW n \in Requests, l1_sram_alloc(n) PROVE IInv'
  <2>1. PICK index \in Slots :
          /\ IsFirst(index, Fits(Align(n)))
          /\ \/ /\ size[index] > Align(n)
                /\ \E spare \in Slots :
                     /\ IsFirst(spare, NullSlots)
                     /\ Split(index, spare, Align(n))
             \/ TakeWhole(index)
    BY <1>2, Zenon DEF l1_sram_alloc
  <2>2. Align(n) \in Nat /\ Align(n) > 0
    BY <1>2, AlignLemma, Zenon DEF l1_sram_alloc
  <2>3. flag[index] = SRAM_SLT_FREE
    BY <2>1 DEF IsFirst, Fits
  <2> QED
    BY <2>1, <2>2, <2>3, SplitIInv, TakeWholeIInv, Zenon
<1>3. ASSUME l1_sram_alloc_max PROVE IInv'
  <2>1. PICK index \in Slots : IsFirst(index, Largest) /\ TakeWhole(index)
    BY <1>3, Zenon DEF l1_sram_alloc_max
  <2> QED
    BY <2>1, TakeWholeIInv, Zenon DEF IsFirst, Largest
<1>4. ASSUME NEW a \in Addresses, l1_sram_free(a) PROVE IInv'
  BY <1>4, ReleaseIInv DEF l1_sram_free
<1> QED
  BY <1>1, <1>2, <1>3, <1>4
     DEF Next, vars, AllocFails, AllocMaxFails, FreeFails

-----------------------------------------------------------------------------
\* Every reachable slot table satisfies the inductive invariant, whatever is
\* allocated and freed and in whatever order.
THEOREM Inductive == Spec => []IInv
BY InitIInv, NextIInv, PTL DEF Spec

\* The table always has its types (no size ever becomes negative).
THEOREM TypeCorrect == Spec => []TypeOK
<1>1. IInv => TypeOK
  BY DEF IInv
<1> QED
  BY <1>1, Inductive, PTL

\* No byte of the bank is ever lost, or in two pieces, by the splits of
\* _l1_sram_alloc and the merges of _l1_sram_free.
THEOREM TilingHolds == Spec => []Tiling
<1>1. IInv => Tiling
  BY DEF IInv
<1> QED
  BY <1>1, Inductive, PTL

\* No two free pieces touch after any sequence of calls of _l1_sram_free.
THEOREM CoalescedHolds == Spec => []Coalesced
<1>1. IInv => Coalesced
  BY DEF IInv
<1> QED
  BY <1>1, Inductive, PTL

LEMMA FindsFromIInv == IInv => FreeFindsPiece
<1> SUFFICES ASSUME IInv, NEW i \in Slots, flag[i] = SRAM_SLT_ALLOCATED,
                    NEW j \in Slots, paddr[j] = paddr[i]
             PROVE  i <= j
  BY Zenon DEF FreeFindsPiece, IsFirst, Matching
<1>1. CASE Live(j)
  BY <1>1, FlagsDiffer DEF IInv, Tiling, TypeOK, Live, Slots
<1>2. CASE ~Live(j)
  BY <1>2, FlagsDiffer DEF IInv, StaleBehind, Live, Slots
<1> QED
  BY <1>1, <1>2

\* The address search of _l1_sram_free never stops at a stale slot when the
\* address is that of an allocated piece: a block that is held can be freed.
THEOREM FreeFindsPieceHolds == Spec => []FreeFindsPiece
BY FindsFromIInv, Inductive, PTL

\* Once everything is freed the bank is one piece: no order of frees fragments
\* it for good.
THEOREM AllFreedIsWholeHolds == Spec => []AllFreedIsWhole
<1>1. IInv => AllFreedIsWhole
  <2> SUFFICES ASSUME IInv, \A i \in Slots : flag[i] # SRAM_SLT_ALLOCATED
               PROVE  \E i \in Slots : /\ flag[i] = SRAM_SLT_FREE
                                       /\ paddr[i] = Base
                                       /\ size[i] = Length
    BY DEF AllFreedIsWhole
  <2>1. TypeOK /\ Tiling /\ Coalesced
    BY Zenon DEF IInv
  <2>2. PICK i \in Slots : Holds(i, Base)
    BY <2>1, BankAssumption DEF Tiling, Byte
  <2>3. flag[i] = SRAM_SLT_FREE /\ paddr[i] = Base
    BY <2>1, <2>2, BankAssumption DEF TypeOK, Tiling, Holds, Live
  <2>4. ASSUME size[i] # Length PROVE FALSE
    <3>1. Base + size[i] \in Byte
      BY <2>1, <2>2, <2>3, <2>4, BankAssumption DEF TypeOK, Tiling, Byte, Live, Holds
    <3>2. PICK j \in Slots : Holds(j, Base + size[i])
      BY <2>1, <3>1, Zenon DEF Tiling
    <3>3. j # i /\ flag[j] = SRAM_SLT_FREE
      BY <2>1, <2>3, <3>2, BankAssumption DEF TypeOK, Holds, Live
    <3>4. paddr[j] = paddr[i] + size[i]
      BY <2>1, <2>2, <2>3, <3>2, <3>3, BankAssumption DEF TypeOK, Tiling, Holds
    <3> QED
      BY <2>1, <2>3, <3>3, <3>4, Zenon DEF Coalesced
  <2> QED
    BY <2>3, <2>4
<1> QED
  BY <1>1, Inductive, PTL

-----------------------------------------------------------------------------
(* The refinement.  held is the abstract variable the mapping computes. *)
held == {Block(i) : i \in Allocated}

\* A piece that becomes allocated, all others keeping their blocks, is an
\* abstract allocation.
LEMMA GrantStep ==
  ASSUME IInv, IInv', NEW index \in Slots, NEW n \in Nat,
         flag[index] # SRAM_SLT_ALLOCATED,
         flag'[index] = SRAM_SLT_ALLOCATED,
         size'[index] >= n,
         paddr'[index] = paddr[index],
         \A i \in Slots \ {index} :
           /\ flag'[i] = SRAM_SLT_ALLOCATED <=> flag[i] = SRAM_SLT_ALLOCATED
           /\ flag[i] = SRAM_SLT_ALLOCATED
                => paddr'[i] = paddr[i] /\ size'[i] = size[i],
         ret' = <<"alloc", n, paddr[index]>>
  PROVE  Abstract!Alloc(n)
<1> DEFINE h == [addr |-> paddr[index], len |-> size'[index]]
<1> USE FlagsDiffer
<1>1. TypeOK /\ TypeOK' /\ Tiling /\ Tiling'
  BY DEF IInv
<1>2. /\ paddr[index] \in Base .. Base + Length - 1
      /\ size'[index] \in 1 .. Length
      /\ paddr[index] + size'[index] <= Base + Length
  BY <1>1, BankAssumption DEF TypeOK, Tiling, Live
<1>3. held' = held \cup {h}
  BY Zenon DEF held, Allocated, Block
<1>4. ASSUME NEW g \in held
      PROVE  g.addr + g.len <= h.addr \/ h.addr + h.len <= g.addr
  <2>1. PICK i \in Allocated : g = Block(i)
    BY Zenon DEF held
  <2>2. i \in Slots \ {index} /\ flag[i] = SRAM_SLT_ALLOCATED
    BY <2>1, Zenon DEF Allocated
  <2>3. Live(i)' /\ Live(index)'
    BY <2>2, Zenon DEF Live
  <2>4. \/ paddr'[i] + size'[i] <= paddr'[index]
        \/ paddr'[index] + size'[index] <= paddr'[i]
    BY <2>2, <2>3, <1>1, Zenon DEF Tiling
  <2> QED
    BY <2>1, <2>2, <2>4, Zenon DEF Block
<1>5. Abstract!Inside(h)
  BY <1>1, <1>2, BankAssumption DEF Abstract!Inside, TypeOK
<1>6. \A g \in held : Abstract!Apart(g, h)
  BY <1>4 DEF Abstract!Apart
<1> QED
  BY <1>2, <1>3, <1>5, <1>6, Zenon DEF Abstract!Alloc, held

LEMMA NextRefines ==
  IInv /\ IInv' /\ [Next]_vars => [Abstract!Next]_<<held, ret>>
<1> SUFFICES ASSUME IInv, IInv', [Next]_vars
             PROVE  [Abstract!Next]_<<held, ret>>
  OBVIOUS
<1> USE FlagsDiffer
<1>1. TypeOK /\ TypeOK'
  BY Zenon DEF IInv
<1>2. ASSUME UNCHANGED <<paddr, size, flag>> PROVE held' = held
  BY <1>2 DEF held, Allocated, Block
<1>3. Requests \subseteq Nat /\ Length \in Nat
  BY RequestAssumption, BankAssumption, Zenon
<1>4. ASSUME NEW n \in Requests, l1_sram_alloc(n) PROVE Abstract!Next
  <2>1. PICK index \in Slots :
          /\ IsFirst(index, Fits(Align(n)))
          /\ ret' = <<"alloc", n, paddr[index]>>
          /\ \/ /\ size[index] > Align(n)
                /\ \E spare \in Slots :
                     /\ IsFirst(spare, NullSlots)
                     /\ Split(index, spare, Align(n))
             \/ TakeWhole(index)
    BY <1>4, Zenon DEF l1_sram_alloc
  <2>2. Align(n) \in Nat /\ Align(n) >= n
    BY <1>4, AlignLemma, Zenon DEF l1_sram_alloc
  <2>3. flag[index] = SRAM_SLT_FREE /\ size[index] >= Align(n)
    BY <2>1, Zenon DEF IsFirst, Fits
  <2>4. ASSUME NEW spare \in Slots, IsFirst(spare, NullSlots),
               Split(index, spare, Align(n))
        PROVE  Abstract!Alloc(n)
    <3>1. flag[spare] = SRAM_SLT_NULL /\ spare # index
      BY <2>3, <2>4, Zenon DEF IsFirst, NullSlots
    <3>2. /\ paddr'[index] = paddr[index]
          /\ size'[index] = Align(n)
          /\ flag'[index] = SRAM_SLT_ALLOCATED
          /\ flag'[spare] = SRAM_SLT_FREE
          /\ \A i \in Slots \ {index, spare} :
               paddr'[i] = paddr[i] /\ size'[i] = size[i] /\ flag'[i] = flag[i]
      BY <1>1, <2>4, <3>1, Zenon DEF TypeOK, Split
    <3> QED
      BY <1>3, <2>1, <2>2, <2>3, <3>1, <3>2, GrantStep, Zenon
  <2>5. ASSUME TakeWhole(index) PROVE Abstract!Alloc(n)
    <3>1. /\ paddr' = paddr /\ size' = size
          /\ flag'[index] = SRAM_SLT_ALLOCATED
          /\ \A i \in Slots \ {index} : flag'[i] = flag[i]
      BY <1>1, <2>5, Zenon DEF TypeOK, TakeWhole
    <3>2. size'[index] >= n
      BY <1>1, <1>3, <2>2, <2>3, <3>1 DEF TypeOK
    <3> QED
      BY <1>3, <2>1, <2>3, <3>1, <3>2, GrantStep, Zenon
  <2> QED
    BY <2>1, <2>4, <2>5, Zenon DEF Abstract!Next
<1>5. ASSUME l1_sram_alloc_max PROVE Abstract!Next
  <2>1. PICK index \in Slots : /\ IsFirst(index, Largest)
                               /\ ret' = <<"alloc", size[index], paddr[index]>>
                               /\ TakeWhole(index)
    BY <1>5, Zenon DEF l1_sram_alloc_max
  <2>2. flag[index] = SRAM_SLT_FREE
    BY <2>1, Zenon DEF IsFirst, Largest
  <2>3. /\ paddr' = paddr /\ size' = size
        /\ flag'[index] = SRAM_SLT_ALLOCATED
        /\ \A i \in Slots \ {index} : flag'[i] = flag[i]
    BY <1>1, <2>1, Zenon DEF TypeOK, TakeWhole
  <2>4. size[index] \in 0 .. Length
    BY <1>1, <1>3, <2>2, BankAssumption DEF IInv, Tiling, Live, TypeOK
  <2>5. Abstract!Alloc(size[index])
    BY <1>1, <2>1, <2>2, <2>3, <2>4, GrantStep DEF TypeOK
  <2> QED
    BY <2>4, <2>5, Zenon DEF Abstract!Next
<1>6. ASSUME NEW a \in Addresses, l1_sram_free(a) PROVE Abstract!Next
  <2>1. PICK index \in Slots : /\ IsFirst(index, Matching(a))
                               /\ flag[index] = SRAM_SLT_ALLOCATED
                               /\ ret' = <<"free", a, 0>>
                               /\ Release(index)
    BY <1>6, Zenon DEF l1_sram_free
  <2>2. /\ \A i \in Slots : flag'[i] = SRAM_SLT_ALLOCATED
                              <=> flag[i] = SRAM_SLT_ALLOCATED /\ i # index
        /\ \A i \in Slots : flag'[i] = SRAM_SLT_ALLOCATED => size'[i] = size[i]
        /\ paddr' = paddr
    BY <2>1, ReleaseIInv, Zenon
  <2>3. \A i \in Slots : flag[i] = SRAM_SLT_ALLOCATED /\ i # index
                           => paddr[i] # paddr[index]
    BY <1>1, <2>1, SMTT(30) DEF IInv, Tiling, TypeOK, Live
  <2>4. Block(index) \in held /\ Block(index).addr = a
    BY <2>1 DEF held, Allocated, Block, IsFirst, Matching
  <2>5. held' = held \ {Block(index)}
    <3>1. Allocated' = Allocated \ {index}
      BY <2>2, Zenon DEF Allocated
    <3>2. \A i \in Allocated' : Block(i)' = Block(i)
      BY <2>2, Zenon DEF Allocated, Block
    <3>3. index \in Allocated /\ \A i \in Allocated \ {index} : Block(i) # Block(index)
      BY <2>1, <2>3, Zenon DEF Allocated, Block
    <3>4. held' = {Block(i) : i \in Allocated \ {index}}
      BY <3>1, <3>2, Zenon DEF held
    <3> QED
      BY <3>3, <3>4, Zenon DEF held
  <2>6. Abstract!Free(a)
    BY <2>1, <2>4, <2>5 DEF Abstract!Free, held
  <2> QED
    BY <2>6, Zenon DEF Abstract!Next
<1>7. ASSUME NEW a \in Addresses, FreeFails(a) PROVE Abstract!Next
  <2>1. FreeFindsPiece
    BY FindsFromIInv, Zenon
  <2>2. \A h \in held : h.addr # a
    BY <1>7, <2>1 DEF held, Allocated, Block, FreeFindsPiece, FreeFails
  <2>3. Abstract!FreeFails(a)
    BY <1>2, <1>7, <2>2, Zenon DEF Abstract!FreeFails, FreeFails, held
  <2> QED
    BY <2>3 DEF Abstract!Next
<1>8. ASSUME NEW n \in Requests, AllocFails(n) PROVE Abstract!Next
  BY <1>2, <1>8, Zenon DEF AllocFails, Abstract!AllocFails, Abstract!Next, held
<1>9. ASSUME AllocMaxFails PROVE Abstract!Next
  <2>1. 0 \in 0 .. Length
    BY <1>3
  <2> QED
    BY <1>2, <1>9, <2>1, Zenon DEF AllocMaxFails, Abstract!AllocFails, Abstract!Next, held
<1>10. CASE UNCHANGED vars
  BY <1>2, <1>10 DEF vars
<1> QED
  BY <1>4, <1>5, <1>6, <1>7, <1>8, <1>9, <1>10 DEF Next

\* The slot table implements the abstract allocator: every call of
\* blackfin_sram.c does to the blocks held what SramAbstract allows it to.
THEOREM Refinement == Spec => ImplementsAbstract
<1>1. Init => Abstract!Init
  BY FlagsDiffer DEF Init, l1_sram_init, Abstract!Init, Allocated, Block
<1>2. IInv /\ IInv' /\ [Next]_vars
        => [Abstract!Next]_<<{Block(i) : i \in Allocated}, ret>>
  BY NextRefines DEF held
<1> QED
  BY <1>1, <1>2, Inductive, PTL DEF Spec, ImplementsAbstract, Abstract!Spec
=============================================================================
