-------------------------- MODULE SramBanksProofs --------------------------
(***************************************************************************)
(* The banks of L1 memory together, for any processes, drivers, sizes and  *)
(* banks that do not overlap.  Owners and addresses are matched one to     *)
(* one; the inductive invariant adds to OwnedOnce where each address can   *)
(* come from and what the local address of a caller is at each point of a  *)
(* call.                                                                   *)
(***************************************************************************)
EXTENDS SramBanks, TLAPS

Addrs(S) == {h.addr : h \in S}

\* Blocks of bank b: none is empty and no two begin at the same address.
Blocks(S, b) ==
  /\ \A h \in S : h.addr \in BankBytes(b) /\ h.len \in Nat \ {0}
  /\ \A g, h \in S : g.addr = h.addr => g = h

HeldOK == Blocks(heldI, "inst") /\ Blocks(heldA, "A") /\ Blocks(heldB, "B")

TypeOK ==
  /\ pc \in [Callers -> {"idle", "try_inst", "try_A", "try_B", "link", "free",
                         "free_A", "free_B", "unlink"}]
  /\ addr \in [Callers -> Address \cup {0}]
  /\ list \in [Callers -> [Address -> Nat]]

\* A caller that frees has a node for its address until it unlinks it; nothing is
\* found before the first bank is tried; bank B is asked only for an
\* address of its own.
Local(p) ==
  /\ pc[p] = "try_inst" => addr[p] = 0
  /\ pc[p] \in {"free", "free_A", "free_B", "unlink"}
       => addr[p] \in Address /\ list[p][addr[p]] > 0
  /\ pc[p] = "free_B" => addr[p] \in BankBytes("B")

\* A driver never comes by an address of the instruction bank.
DataOnly(d) ==
  /\ pc[d] # "try_inst"
  /\ addr[d] \notin BankBytes("inst")
  /\ \A a \in BankBytes("inst") : list[d][a] = 0

BInv ==
  /\ TypeOK /\ HeldOK /\ OwnedOnce
  /\ \A p \in Callers : Local(p)
  /\ \A d \in Drivers : DataOnly(d)

\* No address is NULL, and none belongs to two banks.
LEMMA BanksApart ==
  /\ 0 \notin Address
  /\ \A b \in Banks : BankBytes(b) \subseteq Address
  /\ \A b, c \in Banks : b # c => BankBytes(b) \cap BankBytes(c) = {}
  /\ \A a \in Address : \E b \in Banks : a \in BankBytes(b)
  <1>1. \A b \in Banks : 0 \notin BankBytes(b)
    BY BanksAssumption DEF BankBytes
  <1> QED
    BY <1>1, BanksAssumption DEF Address

\* The part of a bank that is handed out lies in its range.
LEMMA BankParts ==
  ASSUME NEW b \in Banks
  PROVE  Start[b] + Linked[b] .. Start[b] + Linked[b] + (Total[b] - Linked[b]) - 1
           \subseteq BankBytes(b)
  BY BanksAssumption DEF BankBytes

\* Handing a block out of a bank, and taking one back, one address at a time.
Grants(S, T, b, r) ==
  \/ T = S /\ r = 0
  \/ r \in BankBytes(b) \ Addrs(S) /\ Addrs(T) = Addrs(S) \cup {r} /\ Blocks(T, b)

Takes(S, T, b, a, r) ==
  IF a \in Addrs(S)
  THEN r = 0 /\ Addrs(T) = Addrs(S) \ {a} /\ Blocks(T, b)
  ELSE r = -1 /\ T = S

\* A block apart from all others begins where none of them does.
LEMMA NewBlock ==
  ASSUME NEW S, NEW b, Blocks(S, b), BankBytes(b) \subseteq Nat,
         NEW a \in BankBytes(b), NEW len \in Nat \ {0},
         \A g \in S : g.addr + g.len <= a \/ a + len <= g.addr
  PROVE  /\ a \notin Addrs(S)
         /\ Addrs(S \cup {[addr |-> a, len |-> len]}) = Addrs(S) \cup {a}
         /\ Blocks(S \cup {[addr |-> a, len |-> len]}, b)
  <1> DEFINE h == [addr |-> a, len |-> len]
  <1>1. h.addr = a /\ h.len = len
    OBVIOUS
  <1>2. \A g \in S : g.addr # a
    BY DEF Blocks
  <1>3. a \notin Addrs(S)
    BY <1>2 DEF Addrs
  <1>4. Addrs(S \cup {h}) = Addrs(S) \cup {a}
    BY <1>1, Zenon DEF Addrs
  <1>5. Blocks(S \cup {h}, b)
    <2>1. \A g \in S \cup {h} : g.addr \in BankBytes(b) /\ g.len \in Nat \ {0}
      BY <1>1 DEF Blocks
    <2>2. ASSUME NEW g \in S \cup {h}, NEW k \in S \cup {h}, g.addr = k.addr PROVE g = k
      BY <1>1, <1>2, <2>2 DEF Blocks
    <2> QED
      BY <2>1, <2>2 DEF Blocks
  <1> QED
    BY <1>3, <1>4, <1>5, Zenon

LEMMA OldBlock ==
  ASSUME NEW S, NEW b, Blocks(S, b), NEW h \in S
  PROVE  /\ h.addr \in Addrs(S)
         /\ Addrs(S \ {h}) = Addrs(S) \ {h.addr}
         /\ Blocks(S \ {h}, b)
  BY DEF Blocks, Addrs

LEMMA GrantBlock ==
  ASSUME NEW b \in Banks, NEW S, NEW T, Blocks(S, b),
         NEW a \in Start[b] + Linked[b] .. Start[b] + Linked[b] + (Total[b] - Linked[b]) - 1,
         NEW len \in 1 .. Total[b] - Linked[b],
         \A g \in S : g.addr + g.len <= a \/ a + len <= g.addr,
         T = S \cup {[addr |-> a, len |-> len]}
  PROVE  Grants(S, T, b, a)
  <1>1. a \in BankBytes(b) /\ BankBytes(b) \subseteq Nat
    BY BankParts, BanksAssumption DEF BankBytes
  <1>2. len \in Nat \ {0}
    BY BanksAssumption
  <1> QED
    BY <1>1, <1>2, NewBlock, Zenon DEF Grants

LEMMA TakeBlock ==
  ASSUME NEW b, NEW S, NEW T, Blocks(S, b), NEW h \in S, T = S \ {h}
  PROVE  Takes(S, T, b, h.addr, 0)
  BY OldBlock, Zenon DEF Takes

\* The calls into the three banks.
LEMMA AllocCalls ==
  ASSUME HeldOK, NEW n
  PROVE  /\ l1_inst_sram_alloc(n) => Grants(heldI, heldI', "inst", ret'[3])
         /\ l1_data_A_sram_alloc(n) => Grants(heldA, heldA', "A", ret'[3])
         /\ l1_data_B_sram_alloc(n) => Grants(heldB, heldB', "B", ret'[3])
  <1>0. {"inst", "A", "B"} \subseteq Banks
    BY DEF Banks
  <1>1. ASSUME Inst!Alloc(n) PROVE Grants(heldI, heldI', "inst", ret'[3])
    <2>1. PICK a \in Start["inst"] + Linked["inst"]
                       .. Start["inst"] + Linked["inst"] + (Total["inst"] - Linked["inst"]) - 1,
               len \in 1 .. Total["inst"] - Linked["inst"] :
            /\ ret' = <<"alloc", n, a>>
            /\ \A g \in heldI : g.addr + g.len <= a \/ a + len <= g.addr
            /\ heldI' = heldI \cup {[addr |-> a, len |-> len]}
      BY <1>1 DEF Inst!Alloc, Inst!Apart
    <2>2. Blocks(heldI, "inst")
      BY Zenon DEF HeldOK
    <2>3. Grants(heldI, heldI', "inst", a)
      BY <1>0, <2>1, <2>2, GrantBlock, Zenon
    <2> QED
      BY <2>1, <2>3, Zenon
  <1>2. ASSUME A!Alloc(n) PROVE Grants(heldA, heldA', "A", ret'[3])
    <2>1. PICK a \in Start["A"] + Linked["A"]
                       .. Start["A"] + Linked["A"] + (Total["A"] - Linked["A"]) - 1,
               len \in 1 .. Total["A"] - Linked["A"] :
            /\ ret' = <<"alloc", n, a>>
            /\ \A g \in heldA : g.addr + g.len <= a \/ a + len <= g.addr
            /\ heldA' = heldA \cup {[addr |-> a, len |-> len]}
      BY <1>2 DEF A!Alloc, A!Apart
    <2>2. Blocks(heldA, "A")
      BY DEF HeldOK
    <2>3. Grants(heldA, heldA', "A", a)
      BY <1>0, <2>1, <2>2, GrantBlock, Zenon
    <2> QED
      BY <2>1, <2>3
  <1>3. ASSUME B!Alloc(n) PROVE Grants(heldB, heldB', "B", ret'[3])
    <2>1. PICK a \in Start["B"] + Linked["B"]
                       .. Start["B"] + Linked["B"] + (Total["B"] - Linked["B"]) - 1,
               len \in 1 .. Total["B"] - Linked["B"] :
            /\ ret' = <<"alloc", n, a>>
            /\ \A g \in heldB : g.addr + g.len <= a \/ a + len <= g.addr
            /\ heldB' = heldB \cup {[addr |-> a, len |-> len]}
      BY <1>3 DEF B!Alloc, B!Apart
    <2>2. Blocks(heldB, "B")
      BY Zenon DEF HeldOK
    <2>3. Grants(heldB, heldB', "B", a)
      BY <1>0, <2>1, <2>2, GrantBlock, Zenon
    <2> QED
      BY <2>1, <2>3
  <1> QED
    BY <1>1, <1>2, <1>3 DEF l1_inst_sram_alloc, l1_data_A_sram_alloc, l1_data_B_sram_alloc,
         Inst!AllocFails, A!AllocFails, B!AllocFails, Grants

LEMMA FreeCalls ==
  ASSUME HeldOK, NEW a
  PROVE  /\ l1_inst_sram_free(a) => Takes(heldI, heldI', "inst", a, ret'[3])
         /\ l1_data_A_sram_free(a) => Takes(heldA, heldA', "A", a, ret'[3])
         /\ l1_data_B_sram_free(a) => Takes(heldB, heldB', "B", a, ret'[3])
  <1>0. Blocks(heldI, "inst") /\ Blocks(heldA, "A") /\ Blocks(heldB, "B")
    BY DEF HeldOK
  <1>1. ASSUME Inst!Free(a) PROVE Takes(heldI, heldI', "inst", a, ret'[3])
    <2>1. PICK h \in heldI : h.addr = a /\ ret' = <<"free", a, 0>> /\ heldI' = heldI \ {h}
      BY <1>1 DEF Inst!Free
    <2> QED
      BY <1>0, <2>1, TakeBlock, Zenon
  <1>2. ASSUME A!Free(a) PROVE Takes(heldA, heldA', "A", a, ret'[3])
    <2>1. PICK h \in heldA : h.addr = a /\ ret' = <<"free", a, 0>> /\ heldA' = heldA \ {h}
      BY <1>2 DEF A!Free
    <2> QED
      BY <1>0, <2>1, TakeBlock, Zenon
  <1>3. ASSUME B!Free(a) PROVE Takes(heldB, heldB', "B", a, ret'[3])
    <2>1. PICK h \in heldB : h.addr = a /\ ret' = <<"free", a, 0>> /\ heldB' = heldB \ {h}
      BY <1>3 DEF B!Free
    <2> QED
      BY <1>0, <2>1, TakeBlock, Zenon
  <1>4. ASSUME NEW S, NEW b, \A h \in S : h.addr # a PROVE Takes(S, S, b, a, -1)
    BY <1>4 DEF Addrs, Takes
  <1> QED
    BY <1>1, <1>2, <1>3, <1>4 DEF l1_inst_sram_free, l1_data_A_sram_free, l1_data_B_sram_free,
         Inst!FreeFails, A!FreeFails, B!FreeFails

LEMMA HeldAre == HeldAddresses = Addrs(heldI) \cup Addrs(heldA) \cup Addrs(heldB)
  BY DEF HeldAddresses, Addrs

\* What a step by p does to the owner of each address: nothing, or p comes to own
\* an address that was not handed out, or stops owning one.
LEMMA OwnersSame ==
  ASSUME OwnedOnce, HeldAddresses' = HeldAddresses,
         \A q \in Callers, b \in Address : Owns(q, b)' = Owns(q, b)
  PROVE  OwnedOnce'
  BY DEF OwnedOnce

LEMMA OwnersGrant ==
  ASSUME OwnedOnce, NEW p \in Callers, NEW a \in Address \ HeldAddresses,
         HeldAddresses' = HeldAddresses \cup {a},
         Owns(p, a)' = Owns(p, a) + 1,
         \A q \in Callers, b \in Address : q # p \/ b # a => Owns(q, b)' = Owns(q, b)
  PROVE  OwnedOnce'
  <1>1. \A q \in Callers : Owns(q, a) = 0
    BY DEF OwnedOnce
  <1>2. Owns(p, a)' = 1 /\ \A q \in Callers \ {p} : Owns(q, a)' = 0
    BY <1>1
  <1> QED
    BY <1>2 DEF OwnedOnce

LEMMA OwnersTake ==
  ASSUME OwnedOnce, NEW p \in Callers, NEW a \in Address, Owns(p, a) # 0,
         HeldAddresses' = HeldAddresses \ {a},
         Owns(p, a)' = Owns(p, a) - 1,
         \A q \in Callers, b \in Address : q # p \/ b # a => Owns(q, b)' = Owns(q, b)
  PROVE  OwnedOnce'
  <1>1. Owns(p, a) = 1 /\ \A q \in Callers \ {p} : Owns(q, a) = 0
    BY DEF OwnedOnce
  <1>2. \A q \in Callers : Owns(q, a)' = 0
    BY <1>1
  <1> QED
    BY <1>2 DEF OwnedOnce

\* An address that is owned is handed out.
LEMMA OwnedIsHeld ==
  ASSUME OwnedOnce, NEW p \in Callers, NEW a \in Address, Owns(p, a) # 0
  PROVE  a \in HeldAddresses
  BY DEF OwnedOnce

\* A step of p leaves what is said of the other callers alone.
Others(p) ==
  \A q \in Callers \ {p} : pc'[q] = pc[q] /\ addr'[q] = addr[q] /\ list'[q] = list[q]

LEMMA OthersKept ==
  ASSUME NEW p \in Callers, Others(p), BInv, Local(p)', p \in Drivers => DataOnly(p)'
  PROVE  /\ \A q \in Callers : Local(q)'
         /\ \A d \in Drivers : DataOnly(d)'
         /\ \A q \in Callers \ {p}, b \in Address : Owns(q, b)' = Owns(q, b)
  <1>1. ASSUME NEW q \in Callers \ {p}
        PROVE  Local(q)' /\ \A b \in Address : Owns(q, b)' = Owns(q, b)
    BY <1>1, Zenon DEF Others, BInv, Local, Owns
  <1>2. ASSUME NEW d \in Drivers, d # p PROVE DataOnly(d)'
    BY <1>2 DEF Others, BInv, DataOnly, Callers
  <1> QED
    BY <1>1, <1>2, Zenon

\* A step that only moves caller p on.
LEMMA MoveOn ==
  ASSUME BInv, NEW p \in Callers, UNCHANGED <<heldI, heldA, heldB>>,
         Others(p), TypeOK', Local(p)', p \in Drivers => DataOnly(p)',
         \A b \in Address : Owns(p, b)' = Owns(p, b)
  PROVE  BInv'
  <1>1. HeldOK'
    BY DEF BInv, HeldOK, Blocks
  <1>2. HeldAddresses' = HeldAddresses
    BY DEF HeldAddresses
  <1>3. /\ \A q \in Callers : Local(q)'
        /\ \A d \in Drivers : DataOnly(d)'
        /\ \A q \in Callers \ {p}, b \in Address : Owns(q, b)' = Owns(q, b)
    BY OthersKept, Zenon
  <1>4. OwnedOnce'
    BY <1>2, <1>3, OwnersSame, Zenon DEF BInv
  <1> QED
    BY <1>1, <1>3, <1>4, Zenon DEF BInv

\* A call into one bank, seen from all of them: bank b hands out address r, or
\* takes back address a.
Granted(b, r) ==
  \/ r = 0 /\ UNCHANGED <<heldI, heldA, heldB>>
  \/ /\ r \in BankBytes(b) \ HeldAddresses
     /\ HeldAddresses' = HeldAddresses \cup {r}
     /\ HeldOK'

Taken(a) == HeldAddresses' = HeldAddresses \ {a} /\ HeldOK'

LEMMA AddrsInBank ==
  ASSUME HeldOK
  PROVE  /\ Addrs(heldI) \subseteq BankBytes("inst")
         /\ Addrs(heldA) \subseteq BankBytes("A")
         /\ Addrs(heldB) \subseteq BankBytes("B")
         /\ BankBytes("inst") \cap BankBytes("A") = {}
         /\ BankBytes("inst") \cap BankBytes("B") = {}
         /\ BankBytes("A") \cap BankBytes("B") = {}
  BY BanksApart DEF HeldOK, Blocks, Addrs, Banks

LEMMA AllocGrants ==
  ASSUME HeldOK, NEW n
  PROVE  /\ l1_inst_sram_alloc(n) => Granted("inst", ret'[3])
         /\ l1_data_A_sram_alloc(n) => Granted("A", ret'[3])
         /\ l1_data_B_sram_alloc(n) => Granted("B", ret'[3])
  <1>0. /\ HeldAddresses = Addrs(heldI) \cup Addrs(heldA) \cup Addrs(heldB)
        /\ HeldAddresses' = Addrs(heldI') \cup Addrs(heldA') \cup Addrs(heldB')
    BY HeldAre, Zenon DEF HeldAddresses, Addrs
  <1>1. ASSUME l1_inst_sram_alloc(n) PROVE Granted("inst", ret'[3])
    <2>1. Grants(heldI, heldI', "inst", ret'[3]) /\ UNCHANGED <<heldA, heldB>>
      BY <1>1, AllocCalls, Zenon DEF l1_inst_sram_alloc
    <2> QED
      BY <1>0, <2>1, AddrsInBank, Zenon DEF Grants, Granted, HeldOK
  <1>2. ASSUME l1_data_A_sram_alloc(n) PROVE Granted("A", ret'[3])
    <2>1. Grants(heldA, heldA', "A", ret'[3]) /\ UNCHANGED <<heldI, heldB>>
      BY <1>2, AllocCalls, Zenon DEF l1_data_A_sram_alloc
    <2> QED
      BY <1>0, <2>1, AddrsInBank, Zenon DEF Grants, Granted, HeldOK
  <1>3. ASSUME l1_data_B_sram_alloc(n) PROVE Granted("B", ret'[3])
    <2>1. Grants(heldB, heldB', "B", ret'[3]) /\ UNCHANGED <<heldI, heldA>>
      BY <1>3, AllocCalls, Zenon DEF l1_data_B_sram_alloc
    <2> QED
      BY <1>0, <2>1, AddrsInBank, Zenon DEF Grants, Granted, HeldOK
  <1> QED
    BY <1>1, <1>2, <1>3, Zenon

\* A free of a held address reaches the block in the bank whose range it is in.
LEMMA FreeTakes ==
  ASSUME HeldOK, NEW a \in HeldAddresses
  PROVE  /\ a \in BankBytes("inst") /\ l1_inst_sram_free(a) => Taken(a) /\ ret'[3] = 0
         /\ a \in BankBytes("B") /\ l1_data_B_sram_free(a) => Taken(a) /\ ret'[3] = 0
         /\ a \in BankBytes("A") /\ l1_data_A_sram_free(a) => Taken(a) /\ ret'[3] = 0
         /\ a \notin BankBytes("A") /\ l1_data_A_sram_free(a)
              => ret'[3] = -1 /\ UNCHANGED <<heldI, heldA, heldB>>
  <1>0. /\ HeldAddresses = Addrs(heldI) \cup Addrs(heldA) \cup Addrs(heldB)
        /\ HeldAddresses' = Addrs(heldI') \cup Addrs(heldA') \cup Addrs(heldB')
    BY HeldAre, Zenon DEF HeldAddresses, Addrs
  <1>1. ASSUME l1_inst_sram_free(a), a \in BankBytes("inst")
        PROVE  Taken(a) /\ ret'[3] = 0
    <2>1. Takes(heldI, heldI', "inst", a, ret'[3]) /\ UNCHANGED <<heldA, heldB>>
      BY <1>1, FreeCalls, Zenon DEF l1_inst_sram_free
    <2> QED
      BY <1>0, <1>1, <2>1, AddrsInBank, Zenon DEF Takes, Taken, HeldOK
  <1>2. ASSUME l1_data_A_sram_free(a)
        PROVE  IF a \in BankBytes("A") THEN Taken(a) /\ ret'[3] = 0
               ELSE ret'[3] = -1 /\ UNCHANGED <<heldI, heldA, heldB>>
    <2>1. Takes(heldA, heldA', "A", a, ret'[3]) /\ UNCHANGED <<heldI, heldB>>
      BY <1>2, FreeCalls, Zenon DEF l1_data_A_sram_free
    <2> QED
      BY <1>0, <2>1, AddrsInBank, Zenon DEF Takes, Taken, HeldOK
  <1>3. ASSUME l1_data_B_sram_free(a), a \in BankBytes("B")
        PROVE  Taken(a) /\ ret'[3] = 0
    <2>1. Takes(heldB, heldB', "B", a, ret'[3]) /\ UNCHANGED <<heldI, heldA>>
      BY <1>3, FreeCalls, Zenon DEF l1_data_B_sram_free
    <2> QED
      BY <1>0, <1>3, <2>1, AddrsInBank, Zenon DEF Takes, Taken, HeldOK
  <1> QED
    BY <1>1, <1>2, <1>3, Zenon

\* One bank of the fallback: the caller that had found nothing owns what it is given.
LEMMA TryStep ==
  ASSUME BInv, NEW p \in Callers, NEW b \in Banks, p \in Drivers => b # "inst",
         pc[p] \in {"try_inst", "try_A", "try_B"}, addr[p] = 0,
         NEW l \in {"try_A", "try_B", "link"},
         Goto(p, l), Granted(b, ret'[3]), addr' = [addr EXCEPT ![p] = ret'[3]],
         list' = list
  PROVE  BInv'
  <1>r. PICK r : r = ret'[3]
    BY Zenon
  <1>0. /\ TypeOK /\ OwnedOnce /\ HeldOK
        /\ 0 \notin Address /\ BankBytes(b) \subseteq Address
    BY BanksApart, Zenon DEF BInv
  <1>1. Others(p) /\ pc'[p] = l /\ addr'[p] = r
    BY <1>r, <1>0, Zenon DEF Others, Goto, TypeOK
  <1>2. r \in Address \cup {0}
    BY <1>r, <1>0, Zenon DEF Granted
  <1>3. TypeOK'
    BY <1>r, <1>0, <1>2, Zenon DEF TypeOK, Goto
  <1>4. Local(p)'
    BY <1>1, Zenon DEF Local
  <1>5. p \in Drivers => DataOnly(p)'
    <2>1. SUFFICES ASSUME p \in Drivers PROVE DataOnly(p)'
      BY Zenon
    <2>2. r \notin BankBytes("inst")
      BY <1>r, <1>0, <2>1, BanksApart, Zenon DEF Granted, Banks
    <2> QED
      BY <1>1, <2>1, <2>2, Zenon DEF DataOnly, BInv
  <1>6. \A c \in Address : Owns(p, c) = list[p][c] /\ list[p][c] \in Nat
    BY <1>0 DEF Owns, TypeOK
  <1>7. \A c \in Address : Owns(p, c)' = list[p][c] + (IF r = c THEN 1 ELSE 0)
    <2> SUFFICES ASSUME NEW c \in Address
                 PROVE  Owns(p, c)' = list[p][c] + (IF r = c THEN 1 ELSE 0)
      BY Zenon
    <2>1. pc'[p] \in {"try_A", "try_B", "link"} /\ pc'[p] \notin {"unlink", "unlink_lost"}
      BY <1>1, Zenon
    <2>2. list'[p][c] \in Nat /\ list'[p][c] = list[p][c]
      BY <1>0 DEF TypeOK
    <2> QED
      BY <1>1, <2>1, <2>2 DEF Owns
  <1>8. CASE r = 0 /\ UNCHANGED <<heldI, heldA, heldB>>
    <2>1. \A c \in Address : Owns(p, c)' = Owns(p, c)
      BY <1>0, <1>6, <1>8, <1>7
    <2> QED
      BY <1>1, <1>3, <1>4, <1>5, <1>8, <2>1, MoveOn, Zenon
  <1>9. CASE /\ r \in BankBytes(b) \ HeldAddresses
             /\ HeldAddresses' = HeldAddresses \cup {r}
             /\ HeldOK'
    <2>1. r \in Address \ HeldAddresses
      BY <1>0, <1>9, Zenon
    <2>2. /\ Owns(p, r)' = Owns(p, r) + 1
          /\ \A c \in Address : c # r => Owns(p, c)' = Owns(p, c)
      BY <1>6, <1>7, <2>1
    <2>3. /\ \A q \in Callers : Local(q)'
          /\ \A d \in Drivers : DataOnly(d)'
          /\ \A q \in Callers \ {p}, c \in Address : Owns(q, c)' = Owns(q, c)
      BY <1>1, <1>4, <1>5, OthersKept, Zenon
    <2>4. \A q \in Callers, c \in Address : q # p \/ c # r => Owns(q, c)' = Owns(q, c)
      BY <2>2, <2>3, Zenon
    <2>5. OwnedOnce'
      BY <1>0, <1>9, <2>1, <2>2, <2>4, OwnersGrant, Zenon
    <2> QED
      BY <1>3, <1>9, <2>3, <2>5, Zenon DEF BInv
  <1> QED
    BY <1>r, <1>8, <1>9, Zenon DEF Granted

\* A free that finds the block: its caller goes on to unlink the node.
LEMMA FreeStep ==
  ASSUME BInv, NEW p \in Callers, pc[p] \in {"free", "free_A", "free_B"},
         Taken(addr[p]), Goto(p, "unlink"), UNCHANGED <<addr, list>>
  PROVE  BInv'
  <1>a. PICK a : a = addr[p]
    BY Zenon
  <1>0. TypeOK /\ OwnedOnce /\ Local(p)
    BY Zenon DEF BInv
  <1>1. a \in Address /\ list[p][a] \in Nat /\ list[p][a] > 0
    BY <1>a, <1>0, Zenon DEF Local, TypeOK
  <1>2. Others(p) /\ pc'[p] = "unlink" /\ addr'[p] = a /\ list'[p] = list[p]
    BY <1>a, <1>0, Zenon DEF Others, Goto, TypeOK
  <1>3. TypeOK'
    BY <1>0, Zenon DEF TypeOK, Goto
  <1>4. Local(p)'
    BY <1>1, <1>2, Zenon DEF Local
  <1>5. p \in Drivers => DataOnly(p)'
    BY <1>a, <1>2, Zenon DEF DataOnly, BInv
  <1>6. \A c \in Address : /\ Owns(p, c) = list[p][c] /\ list[p][c] \in Nat
                           /\ Owns(p, c)' = list[p][c] - (IF c = a THEN 1 ELSE 0)
    <2> SUFFICES ASSUME NEW c \in Address
                 PROVE  /\ Owns(p, c) = list[p][c] /\ list[p][c] \in Nat
                        /\ Owns(p, c)' = list[p][c] - (IF c = a THEN 1 ELSE 0)
      BY Zenon
    <2>1. list[p][c] \in Nat /\ list'[p][c] = list[p][c]
      BY <1>0, Zenon DEF TypeOK
    <2> QED
      BY <1>2, <2>1 DEF Owns
  <1>7. /\ Owns(p, a) # 0 /\ Owns(p, a)' = Owns(p, a) - 1
        /\ \A c \in Address : c # a => Owns(p, c)' = Owns(p, c)
    BY <1>1, <1>6
  <1>8. /\ \A q \in Callers : Local(q)'
        /\ \A d \in Drivers : DataOnly(d)'
        /\ \A q \in Callers \ {p}, c \in Address : Owns(q, c)' = Owns(q, c)
    BY <1>2, <1>4, <1>5, OthersKept, Zenon
  <1>9. HeldAddresses' = HeldAddresses \ {a} /\ HeldOK'
    BY <1>a, Zenon DEF Taken
  <1>10. \A q \in Callers, c \in Address : q # p \/ c # a => Owns(q, c)' = Owns(q, c)
    BY <1>7, <1>8, Zenon
  <1>11. OwnedOnce'
    BY <1>0, <1>1, <1>7, <1>9, <1>10, OwnersTake, Zenon
  <1> QED
    BY <1>3, <1>8, <1>9, <1>11, Zenon DEF BInv

\* The address a caller is freeing is handed out.
LEMMA FreedIsHeld ==
  ASSUME BInv, NEW p \in Callers, pc[p] \in {"free", "free_A", "free_B"}
  PROVE  addr[p] \in Address /\ addr[p] \in HeldAddresses
  <1>1. addr[p] \in Address /\ list[p][addr[p]] \in Nat /\ list[p][addr[p]] > 0
    BY Zenon DEF BInv, Local, TypeOK
  <1>2. Owns(p, addr[p]) # 0
    BY <1>1 DEF Owns
  <1> QED
    BY <1>1, <1>2, OwnedIsHeld, Zenon DEF BInv

\* The calls begin.
LEMMA CallSteps ==
  ASSUME BInv, NEW p \in Callers, pc[p] = "idle", NEW l, NEW x,
         Goto(p, l), addr' = [addr EXCEPT ![p] = x], list' = list,
         UNCHANGED banks,
         \/ x = 0 /\ l = "try_inst" /\ p \notin Drivers
         \/ x = 0 /\ l = "try_A"
         \/ l \in {"free", "free_A"} /\ x \in Address /\ list[p][x] > 0
  PROVE  BInv'
  <1>0. TypeOK /\ 0 \notin Address
    BY BanksApart, Zenon DEF BInv
  <1>1. Others(p) /\ pc'[p] = l /\ addr'[p] = x
    BY <1>0, Zenon DEF Others, Goto, TypeOK
  <1>2. TypeOK'
    BY <1>0, Zenon DEF TypeOK, Goto
  <1>3. Local(p)'
    BY <1>0, <1>1, Zenon DEF Local
  <1>4. p \in Drivers => DataOnly(p)'
    <2>1. SUFFICES ASSUME p \in Drivers PROVE DataOnly(p)'
      BY Zenon
    <2>2. \A a \in BankBytes("inst") : list[p][a] = 0
      BY <2>1, Zenon DEF BInv, DataOnly
    <2>3. x \notin BankBytes("inst")
      BY <1>0, <2>1, <2>2, BanksApart DEF Banks
    <2> QED
      BY <1>1, <2>1, <2>2, <2>3, Zenon DEF DataOnly
  <1>5. \A c \in Address : Owns(p, c)' = Owns(p, c)
    BY <1>0, <1>1, Zenon DEF Owns
  <1> QED
    BY <1>1, <1>2, <1>3, <1>4, <1>5, MoveOn, Zenon DEF banks

\* The calls end: what the local address stood for is on the list, or off it.
LEMMA LinkSteps ==
  ASSUME BInv, NEW p \in Callers, Link(p) \/ Unlink(p)
  PROVE  BInv'
  <1>a. PICK a : a = addr[p]
    OBVIOUS
  <1>0. TypeOK /\ 0 \notin Address /\ Local(p)
    BY BanksApart, Zenon DEF BInv
  <1>1. /\ pc' = [pc EXCEPT ![p] = "idle"] /\ addr' = [addr EXCEPT ![p] = 0]
        /\ UNCHANGED <<heldI, heldA, heldB>>
        /\ IF a = 0 THEN list' = list
           ELSE \E k \in Nat : list' = [list EXCEPT ![p][a] = k] /\ k = Owns(p, a)
    <2>1. CASE Link(p)
      <3>1. a # 0 => list[p][a] \in Nat /\ a \in Address
        BY <1>a, <1>0, Zenon DEF TypeOK
      <3>2. Owns(p, a) = list[p][a] + 1 - 0
        BY <1>a, <2>1, Zenon DEF Link, Owns
      <3>3. IF a = 0 THEN list' = list ELSE list' = [list EXCEPT ![p][a] = list[p][a] + 1]
        BY <1>a, <2>1, Zenon DEF Link
      <3>4. a # 0 => list[p][a] + 1 \in Nat /\ list[p][a] + 1 = Owns(p, a)
        BY <3>1, <3>2
      <3> QED
        BY <2>1, <3>3, <3>4, Zenon DEF Link, Return, banks
    <2>2. CASE Unlink(p)
      <3>1. pc[p] = "unlink" /\ a \in Address /\ list[p][a] \in Nat /\ list[p][a] > 0 /\ a # 0
        BY <1>a, <1>0, <2>2 DEF Unlink, TypeOK, Local
      <3>2. Owns(p, a) = list[p][a] + 0 - 1
        BY <1>a, <3>1, Zenon DEF Owns
      <3>3. list' = [list EXCEPT ![p][a] = list[p][a] - 1]
        BY <1>a, <2>2, Zenon DEF Unlink
      <3>4. list[p][a] - 1 \in Nat /\ list[p][a] - 1 = Owns(p, a)
        BY <3>1, <3>2
      <3> QED
        BY <2>2, <3>1, <3>3, <3>4, Zenon DEF Unlink, Return, banks
    <2> QED
      BY <2>1, <2>2, Zenon
  <1>2. pc[p] \in {"link", "unlink"} /\ (pc[p] = "unlink" => a # 0) /\ a \in Address \cup {0}
    BY <1>a, <1>0, Zenon DEF Link, Unlink, TypeOK, Local
  <1>3. TypeOK'
    <2>1. list' \in [Callers -> [Address -> Nat]]
      <3>1. CASE a # 0
        <4>1. PICK k \in Nat : list' = [list EXCEPT ![p][a] = k]
          BY <1>1, <3>1, Zenon
        <4>2. [list[p] EXCEPT ![a] = k] \in [Address -> Nat]
          BY <1>0, Zenon DEF TypeOK
        <4> QED
          BY <1>0, <4>1, <4>2, Zenon DEF TypeOK
      <3> QED
        BY <1>0, <1>1, <3>1, Zenon DEF TypeOK
    <2> QED
      BY <1>0, <1>1, <2>1, Zenon DEF TypeOK
  <1>4. Others(p) /\ pc'[p] = "idle" /\ addr'[p] = 0
    BY <1>0, <1>1, Zenon DEF Others, TypeOK
  <1>5. Local(p)'
    BY <1>4, Zenon DEF Local
  <1>6. p \in Drivers => DataOnly(p)'
    <2>1. SUFFICES ASSUME p \in Drivers PROVE DataOnly(p)'
      BY Zenon
    <2>2. a \notin BankBytes("inst") /\ \A c \in BankBytes("inst") : list[p][c] = 0
      BY <1>a, <2>1, Zenon DEF BInv, DataOnly
    <2>3. \A c \in BankBytes("inst") : list'[p][c] = 0
      BY <1>0, <1>1, <2>2, BanksApart DEF TypeOK, Banks
    <2>4. 0 \notin BankBytes("inst")
      BY BanksApart, Zenon DEF Banks
    <2> QED
      BY <1>4, <2>3, <2>4, Zenon DEF DataOnly
  <1>7. \A c \in Address : Owns(p, c)' = Owns(p, c)
    <2> SUFFICES ASSUME NEW c \in Address PROVE Owns(p, c)' = Owns(p, c)
      BY Zenon
    <2>1. list'[p][c] \in Nat /\ list[p][c] \in Nat
      BY <1>0, <1>3 DEF TypeOK
    <2>2. Owns(p, c)' = list'[p][c]
      BY <1>0, <1>4, <2>1 DEF Owns
    <2>3. CASE c = a
      BY <1>0, <1>1, <2>2, <2>3 DEF TypeOK
    <2>4. CASE c # a
      <3>1. list'[p][c] = list[p][c]
        BY <1>0, <1>1, <2>4 DEF TypeOK
      <3>2. Owns(p, c) = list[p][c]
        BY <1>a, <2>1, <2>4 DEF Owns
      <3> QED
        BY <2>2, <3>1, <3>2, Zenon
    <2> QED
      BY <2>3, <2>4, Zenon
  <1> QED
    BY <1>1, <1>3, <1>4, <1>5, <1>6, <1>7, MoveOn, Zenon

LEMMA InitBInv == Init => BInv
  <1> SUFFICES ASSUME Init PROVE BInv
    BY Zenon
  <1>1. heldI = {} /\ heldA = {} /\ heldB = {}
    BY Zenon DEF Init, Inst!Init, A!Init, B!Init
  <1>2. TypeOK
    BY Zenon DEF Init, TypeOK
  <1>3. HeldOK /\ HeldAddresses = {}
    BY <1>1, Zenon DEF HeldOK, Blocks, HeldAddresses
  <1>4. OwnedOnce
    BY <1>3 DEF OwnedOnce, Owns, Init
  <1>5. \A p \in Callers : Local(p)
    BY Zenon DEF Local, Init
  <1>6. \A d \in Drivers : DataOnly(d)
    <2>1. Drivers \subseteq Callers /\ BankBytes("inst") \subseteq Address /\ 0 \notin Address
      BY BanksApart, Zenon DEF Callers, Banks
    <2> QED
      BY <2>1, Zenon DEF DataOnly, Init
  <1> QED
    BY <1>2, <1>3, <1>4, <1>5, <1>6, Zenon DEF BInv

LEMMA TrySteps ==
  ASSUME BInv, NEW p \in Callers,
         (TryInst(p) /\ p \notin Drivers) \/ TryA(p) \/ TryB(p)
  PROVE  BInv'
  <1>0. TypeOK /\ HeldOK /\ Local(p) /\ 0 \notin Address /\ {"inst", "A", "B"} \subseteq Banks
    BY BanksApart, Zenon DEF BInv, Banks
  \* The bank is not size, and p moves on.
  <1>1. ASSUME NEW l \in {"try_A", "try_B", "link"}, Goto(p, l), UNCHANGED <<addr, banks, list>>,
               \/ pc[p] = "try_inst"
               \/ pc[p] \in {"try_A", "try_B"}
        PROVE  BInv'
    <2>1. Others(p) /\ pc'[p] = l /\ addr'[p] = addr[p]
      BY <1>0, <1>1, Zenon DEF Others, Goto, TypeOK
    <2>2. TypeOK'
      BY <1>0, <1>1, Zenon DEF TypeOK, Goto
    <2>3. Local(p)'
      BY <2>1, Zenon DEF Local
    <2>4. p \in Drivers => DataOnly(p)'
      BY <1>1, <2>1, Zenon DEF DataOnly, BInv
    <2>5. \A c \in Address : Owns(p, c)' = Owns(p, c)
      BY <1>0, <1>1, <2>1, Zenon DEF Owns, Local
    <2> QED
      BY <1>1, <2>1, <2>2, <2>3, <2>4, <2>5, MoveOn, Zenon DEF banks
  <1>2. CASE TryInst(p) /\ p \notin Drivers
    <2>1. CASE Wants(p, "inst") /\ l1_inst_sram_alloc(size[p])
      BY <1>0, <1>2, <2>1, AllocGrants, TryStep, Zenon DEF TryInst, Wants
    <2> QED
      BY <1>1, <1>2, <2>1, Zenon DEF TryInst
  <1>3. CASE TryA(p)
    <2>1. CASE Wants(p, "A") /\ l1_data_A_sram_alloc(size[p])
      BY <1>0, <1>3, <2>1, AllocGrants, TryStep, Zenon DEF TryA, Wants
    <2> QED
      BY <1>1, <1>3, <2>1, Zenon DEF TryA
  <1>4. CASE TryB(p)
    <2>1. CASE Wants(p, "B") /\ l1_data_B_sram_alloc(size[p])
      BY <1>0, <1>4, <2>1, AllocGrants, TryStep, Zenon DEF TryB, Wants
    <2> QED
      BY <1>1, <1>4, <2>1, Zenon DEF TryB
  <1> QED
    BY <1>2, <1>3, <1>4, Zenon

LEMMA FreeSteps ==
  ASSUME BInv, NEW p \in Callers,
         FreePiece(p) \/ (p \in Drivers /\ FreeFromA(p)) \/ FreeFromB(p)
  PROVE  BInv'
  <1>0. TypeOK /\ HeldOK /\ Local(p)
    BY Zenon DEF BInv
  <1>1. addr[p] \in Address /\ addr[p] \in HeldAddresses
    BY FreedIsHeld, Zenon DEF FreePiece, FreeFromA, FreeFromB
  <1>2. CASE FreePiece(p)
    <2>1. Taken(addr[p]) /\ ret'[3] = 0
      BY <1>0, <1>1, <1>2, FreeTakes, Zenon DEF FreePiece, sram_free
    <2> QED
      BY <1>2, <2>1, FreeStep, Zenon DEF FreePiece
  <1>3. CASE p \in Drivers /\ FreeFromA(p)
    <2>1. CASE addr[p] \in BankBytes("A")
      <3>1. Taken(addr[p]) /\ ret'[3] = 0
        BY <1>0, <1>1, <1>3, <2>1, FreeTakes, Zenon DEF FreeFromA
      <3> QED
        BY <1>3, <3>1, FreeStep DEF FreeFromA
    <2>2. CASE addr[p] \notin BankBytes("A")
      <3>1. ret'[3] = -1 /\ UNCHANGED <<heldI, heldA, heldB>>
        BY <1>0, <1>1, <1>3, <2>2, FreeTakes, Zenon DEF FreeFromA
      <3>2. addr[p] \in BankBytes("B")
        <4>1. addr[p] \notin BankBytes("inst")
          BY <1>3, Zenon DEF BInv, DataOnly
        <4> QED
          BY <1>1, <2>2, <4>1, BanksApart, Zenon DEF Banks
      <3>3. pc[p] = "free_A" /\ Goto(p, "free_B") /\ UNCHANGED <<addr, list>>
        BY <1>3, <3>1, Zenon DEF FreeFromA
      <3>4. Others(p) /\ pc'[p] = "free_B" /\ TypeOK'
        BY <1>0, <3>3, Zenon DEF Others, Goto, TypeOK
      <3>5. Local(p)'
        BY <1>0, <3>2, <3>3, <3>4, Zenon DEF Local
      <3>6. DataOnly(p)'
        BY <1>3, <3>3, <3>4, Zenon DEF DataOnly, BInv
      <3>7. \A c \in Address : Owns(p, c)' = Owns(p, c)
        BY <3>3, <3>4, Zenon DEF Owns
      <3> QED
        BY <3>1, <3>4, <3>5, <3>6, <3>7, MoveOn, Zenon
    <2> QED
      BY <2>1, <2>2, Zenon
  <1>4. CASE FreeFromB(p)
    <2>1. addr[p] \in BankBytes("B")
      BY <1>0, <1>4, Zenon DEF FreeFromB, Local
    <2>2. Taken(addr[p]) /\ ret'[3] = 0
      BY <1>0, <1>1, <1>4, <2>1, FreeTakes, Zenon DEF FreeFromB
    <2> QED
      BY <1>4, <2>2, FreeStep, Zenon DEF FreeFromB
  <1> QED
    BY <1>2, <1>3, <1>4, Zenon

LEMMA StepBInv == BInv /\ [Next]_vars => BInv'
  <1> SUFFICES ASSUME BInv, [Next]_vars PROVE BInv'
    BY Zenon
  <1>0. /\ Procs \subseteq Callers /\ Drivers \subseteq Callers
        /\ \A p \in Procs : p \notin Drivers
    BY BanksAssumption, Zenon DEF Callers
  <1>1. ASSUME NEW p \in Procs, ProcStep(p) PROVE BInv'
    <2>1. CASE \E n \in Requests, f \in SUBSET Banks : sram_alloc_with_lsl(p, n, f)
      BY <1>0, <2>1, CallSteps, Zenon DEF sram_alloc_with_lsl
    <2>2. CASE TryInst(p)
      BY <1>0, <2>2, TrySteps, Zenon
    <2>3. CASE \E a \in Address : sram_free_with_lsl(p, a)
      BY <1>0, <2>3, CallSteps, Zenon DEF sram_free_with_lsl
    <2>4. CASE FreePiece(p)
      BY <1>0, <2>4, FreeSteps, Zenon
    <2> QED
      BY <1>1, <2>1, <2>2, <2>3, <2>4, Zenon DEF ProcStep
  <1>2. ASSUME NEW d \in Drivers, DriverStep(d) PROVE BInv'
    <2>1. CASE \E n \in Requests : l1_data_sram_alloc(d, n)
      BY <1>0, <2>1, CallSteps, Zenon DEF l1_data_sram_alloc
    <2>2. CASE \E a \in Address : l1_data_sram_free(d, a)
      BY <1>0, <2>2, CallSteps, Zenon DEF l1_data_sram_free
    <2>3. CASE FreeFromA(d) \/ FreeFromB(d)
      BY <1>0, <2>3, FreeSteps, Zenon
    <2> QED
      BY <1>2, <2>1, <2>2, <2>3, Zenon DEF DriverStep
  <1>3. ASSUME NEW p \in Callers, TryA(p) \/ TryB(p) \/ Link(p) \/ Unlink(p) PROVE BInv'
    BY <1>3, TrySteps, LinkSteps, Zenon
  <1>4. CASE UNCHANGED vars
    BY <1>4 DEF vars, BInv, TypeOK, HeldOK, Blocks, OwnedOnce, HeldAddresses,
         Owns, Local, DataOnly
  <1> QED
    BY <1>1, <1>2, <1>3, <1>4, Zenon DEF Next

LEMMA Inductive == Spec => []BInv
  BY InitBInv, StepBInv, PTL DEF Spec

\* Every piece handed out has exactly one owner, for any processes, drivers, banks
\* that do not overlap and sizes: neither the fallback of sram_alloc_with_lsl nor a
\* node that outlives its piece in sram_free_with_lsl leaks or doubles one.
THEOREM OwnedOnceHolds == Spec => []OwnedOnce
  <1>1. BInv => OwnedOnce
    BY Zenon DEF BInv
  <1> QED
    BY <1>1, Inductive, PTL

\* A free of an owned address finds its bank: the result of sram_free, which
\* sram_free_with_lsl does not look at, is always 0, and bank B never refuses what
\* l1_data_sram_free passes on to it.
THEOREM FreeFindsBankHolds == Spec => []FreeFindsBank
  <1>1. BInv => FreeFindsBank
    BY DEF BInv, TypeOK, FreeFindsBank
  <1> QED
    BY <1>1, Inductive, PTL

-----------------------------------------------------------------------------
(* What the owners own: blocks of the banks' spare parts, no byte twice.     *)

\* The bytes of a block, and the bytes of a bank that are not linked into.
Bytes(h) == h.addr .. h.addr + h.len - 1
Spare(b) == Start[b] + Linked[b] .. Start[b] + Total[b] - 1

\* The blocks of S lie in the spare part of bank b, one beside the other.
Packed(S, b) ==
  /\ \A h \in S : h.addr \in Int /\ h.len \in Nat \ {0} /\ Bytes(h) \subseteq Spare(b)
  /\ \A g, h \in S : g # h => Bytes(g) \cap Bytes(h) = {}

AllPacked == Packed(heldI, "inst") /\ Packed(heldA, "A") /\ Packed(heldB, "B")

\* No two blocks handed out, of one bank or of two, have a byte in common, and none has
\* a byte of the code and data linked into a bank.
NoSharedByte ==
  /\ \A g, h \in heldI \cup heldA \cup heldB : g # h => Bytes(g) \cap Bytes(h) = {}
  /\ \A h \in heldI \cup heldA \cup heldB : \E b \in Banks : Bytes(h) \subseteq Spare(b)

\* Taking blocks back keeps the rest as they are.
LEMMA PackedFewer ==
  ASSUME NEW S, NEW b, Packed(S, b), NEW T \in SUBSET S
  PROVE  Packed(T, b)
  BY DEF Packed

\* A block that lies inside and apart from all others fits in.
LEMMA PackedMore ==
  ASSUME NEW b \in Banks, NEW S, Packed(S, b),
         NEW a \in Start[b] + Linked[b] .. Start[b] + Linked[b] + (Total[b] - Linked[b]) - 1,
         NEW len \in 1 .. Total[b] - Linked[b],
         a + len <= Start[b] + Linked[b] + (Total[b] - Linked[b]),
         \A g \in S : g.addr + g.len <= a \/ a + len <= g.addr
  PROVE  Packed(S \cup {[addr |-> a, len |-> len]}, b)
  <1> DEFINE h == [addr |-> a, len |-> len]
  <1>0. Start[b] \in Nat /\ Linked[b] \in Nat /\ Total[b] \in Nat /\ a \in Nat /\ len \in Nat \ {0}
    BY BanksAssumption
  <1>1. h.addr = a /\ h.len = len
    OBVIOUS
  <1> HIDE DEF h
  <1>2. Bytes(h) \subseteq Spare(b)
    BY <1>0, <1>1 DEF Bytes, Spare
  <1>3. ASSUME NEW g \in S PROVE Bytes(g) \cap Bytes(h) = {}
    <2>1. g.addr \in Int /\ g.len \in Nat /\ (g.addr + g.len <= a \/ a + len <= g.addr)
      BY DEF Packed
    <2> QED
      BY <1>0, <1>1, <2>1 DEF Bytes
  <1>4. ASSUME NEW g \in S \cup {h}
        PROVE  g.addr \in Int /\ g.len \in Nat \ {0} /\ Bytes(g) \subseteq Spare(b)
    BY <1>0, <1>1, <1>2 DEF Packed
  <1>5. ASSUME NEW g \in S \cup {h}, NEW k \in S \cup {h}, g # k
        PROVE  Bytes(g) \cap Bytes(k) = {}
    BY <1>3, <1>5, Zenon DEF Packed
  <1>6. Packed(S \cup {h}, b)
    BY <1>4, <1>5, Zenon DEF Packed
  <1> QED
    BY <1>6 DEF h

\* An allocation from any of the banks finds such a block.
LEMMA AllocPacks ==
  ASSUME AllPacked, NEW n
  PROVE  /\ Inst!Alloc(n) => Packed(heldI', "inst")
         /\ A!Alloc(n) => Packed(heldA', "A")
         /\ B!Alloc(n) => Packed(heldB', "B")
  <1>0. {"inst", "A", "B"} \subseteq Banks
    BY DEF Banks
  <1>1. ASSUME Inst!Alloc(n) PROVE Packed(heldI', "inst")
    <2>1. PICK a \in Start["inst"] + Linked["inst"]
                       .. Start["inst"] + Linked["inst"] + (Total["inst"] - Linked["inst"]) - 1,
               len \in 1 .. Total["inst"] - Linked["inst"] :
            /\ a + len <= Start["inst"] + Linked["inst"] + (Total["inst"] - Linked["inst"])
            /\ \A g \in heldI : g.addr + g.len <= a \/ a + len <= g.addr
            /\ heldI' = heldI \cup {[addr |-> a, len |-> len]}
      BY <1>1 DEF Inst!Alloc, Inst!Apart, Inst!Inside
    <2> QED
      BY <1>0, <2>1, PackedMore, Zenon DEF AllPacked
  <1>2. ASSUME A!Alloc(n) PROVE Packed(heldA', "A")
    <2>1. PICK a \in Start["A"] + Linked["A"]
                       .. Start["A"] + Linked["A"] + (Total["A"] - Linked["A"]) - 1,
               len \in 1 .. Total["A"] - Linked["A"] :
            /\ a + len <= Start["A"] + Linked["A"] + (Total["A"] - Linked["A"])
            /\ \A g \in heldA : g.addr + g.len <= a \/ a + len <= g.addr
            /\ heldA' = heldA \cup {[addr |-> a, len |-> len]}
      BY <1>2 DEF A!Alloc, A!Apart, A!Inside
    <2> QED
      BY <1>0, <2>1, PackedMore, Zenon DEF AllPacked
  <1>3. ASSUME B!Alloc(n) PROVE Packed(heldB', "B")
    <2>1. PICK a \in Start["B"] + Linked["B"]
                       .. Start["B"] + Linked["B"] + (Total["B"] - Linked["B"]) - 1,
               len \in 1 .. Total["B"] - Linked["B"] :
            /\ a + len <= Start["B"] + Linked["B"] + (Total["B"] - Linked["B"])
            /\ \A g \in heldB : g.addr + g.len <= a \/ a + len <= g.addr
            /\ heldB' = heldB \cup {[addr |-> a, len |-> len]}
      BY <1>3 DEF B!Alloc, B!Apart, B!Inside
    <2> QED
      BY <1>0, <2>1, PackedMore, Zenon DEF AllPacked
  <1> QED
    BY <1>1, <1>2, <1>3, Zenon

\* A call into a bank keeps all of them packed.
LEMMA CallPacks ==
  ASSUME AllPacked, NEW n
  PROVE  /\ l1_inst_sram_alloc(n) \/ l1_data_A_sram_alloc(n) \/ l1_data_B_sram_alloc(n)
              => AllPacked'
         /\ l1_inst_sram_free(n) \/ l1_data_A_sram_free(n) \/ l1_data_B_sram_free(n)
              => AllPacked'
  <1>1. ASSUME heldI' \in SUBSET heldI, heldA' \in SUBSET heldA, heldB' \in SUBSET heldB
        PROVE  AllPacked'
    BY <1>1, PackedFewer, Zenon DEF AllPacked
  <1>2. /\ Inst!Free(n) \/ Inst!FreeFails(n) \/ Inst!AllocFails(n) => heldI' \in SUBSET heldI
        /\ A!Free(n) \/ A!FreeFails(n) \/ A!AllocFails(n) => heldA' \in SUBSET heldA
        /\ B!Free(n) \/ B!FreeFails(n) \/ B!AllocFails(n) => heldB' \in SUBSET heldB
    BY DEF Inst!Free, Inst!FreeFails, Inst!AllocFails, A!Free, A!FreeFails, A!AllocFails,
           B!Free, B!FreeFails, B!AllocFails
  <1>3. heldI \in SUBSET heldI /\ heldA \in SUBSET heldA /\ heldB \in SUBSET heldB
    BY Zenon
  <1>4. ASSUME l1_inst_sram_free(n) \/ l1_data_A_sram_free(n) \/ l1_data_B_sram_free(n)
        PROVE  AllPacked'
    BY <1>1, <1>2, <1>3, <1>4, Zenon
    DEF l1_inst_sram_free, l1_data_A_sram_free, l1_data_B_sram_free
  <1>5. ASSUME l1_inst_sram_alloc(n) \/ l1_data_A_sram_alloc(n) \/ l1_data_B_sram_alloc(n)
        PROVE  AllPacked'
    BY <1>1, <1>2, <1>3, <1>5, AllocPacks, Zenon
    DEF l1_inst_sram_alloc, l1_data_A_sram_alloc, l1_data_B_sram_alloc, AllPacked
  <1> QED
    BY <1>4, <1>5, Zenon

\* Every step of processes and drivers keeps the banks packed.
LEMMA StepPacks == AllPacked /\ [Next]_vars => AllPacked'
  <1> SUFFICES ASSUME AllPacked, [Next]_vars PROVE AllPacked'
    BY Zenon
  <1>1. CASE UNCHANGED banks
    BY <1>1, Zenon DEF banks, AllPacked
  <1>2. ASSUME NEW p, TryInst(p) \/ TryA(p) \/ TryB(p) PROVE AllPacked'
    BY <1>1, <1>2, CallPacks, Zenon DEF TryInst, TryA, TryB
  <1>3. ASSUME NEW p, FreePiece(p) \/ FreeFromA(p) \/ FreeFromB(p) PROVE AllPacked'
    BY <1>3, CallPacks, Zenon DEF FreePiece, FreeFromA, FreeFromB, sram_free
  <1>4. CASE UNCHANGED vars
    BY <1>1, <1>4, Zenon DEF vars, banks
  <1>5. ASSUME NEW p \in Procs, ProcStep(p) PROVE AllPacked'
    BY <1>1, <1>2, <1>3, <1>5, Zenon DEF ProcStep, sram_alloc_with_lsl, sram_free_with_lsl
  <1>6. ASSUME NEW d \in Drivers, DriverStep(d) PROVE AllPacked'
    BY <1>1, <1>3, <1>6, Zenon DEF DriverStep, l1_data_sram_alloc, l1_data_sram_free
  <1>7. ASSUME NEW p \in Callers, TryA(p) \/ TryB(p) \/ Link(p) \/ Unlink(p) PROVE AllPacked'
    BY <1>1, <1>2, <1>7, Zenon DEF Link, Unlink
  <1> QED
    BY <1>4, <1>5, <1>6, <1>7, Zenon DEF Next

\* Together with OwnedOnce: whatever processes and drivers allocate and free at the same
\* time, the memory of each is its own, byte for byte, and none of it belongs to the
\* kernel's code and data in the bank.
THEOREM NoSharedByteHolds == Spec => []NoSharedByte
  <1>1. Init => AllPacked
    BY DEF Init, Inst!Init, A!Init, B!Init, AllPacked, Packed
  <1>2. AllPacked => NoSharedByte
    <2> SUFFICES ASSUME AllPacked PROVE NoSharedByte
      BY Zenon
    <2>1. ASSUME NEW b \in Banks PROVE Spare(b) \subseteq BankBytes(b)
      BY BanksAssumption DEF Spare, BankBytes
    <2>2. ASSUME NEW b \in Banks, NEW c \in Banks, b # c PROVE Spare(b) \cap Spare(c) = {}
      BY <2>1, <2>2, BanksAssumption, Zenon
    <2>3. "inst" \in Banks /\ "A" \in Banks /\ "B" \in Banks
      BY DEF Banks
    <2>4. /\ \A h \in heldI : Bytes(h) \subseteq Spare("inst")
          /\ \A h \in heldA : Bytes(h) \subseteq Spare("A")
          /\ \A h \in heldB : Bytes(h) \subseteq Spare("B")
      BY Zenon DEF AllPacked, Packed
    <2>5. ASSUME NEW b \in Banks, NEW c \in Banks, b # c, NEW g, NEW h,
                 Bytes(g) \subseteq Spare(b), Bytes(h) \subseteq Spare(c)
          PROVE  Bytes(g) \cap Bytes(h) = {}
      BY <2>2, <2>5, Zenon
    <2>6. "inst" # "A" /\ "inst" # "B" /\ "A" # "B"
      OBVIOUS
    <2>7. ASSUME NEW g \in heldI \cup heldA \cup heldB, NEW h \in heldI \cup heldA \cup heldB,
                 g # h
          PROVE  Bytes(g) \cap Bytes(h) = {}
      <3>1. CASE \/ g \in heldI /\ h \in heldI
                 \/ g \in heldA /\ h \in heldA
                 \/ g \in heldB /\ h \in heldB
        BY <2>7, <3>1, Zenon DEF AllPacked, Packed
      <3>2. CASE (g \in heldI /\ h \in heldA) \/ (g \in heldA /\ h \in heldI)
        BY <2>3, <2>4, <2>5, <2>6, <3>2, Zenon
      <3>3. CASE (g \in heldI /\ h \in heldB) \/ (g \in heldB /\ h \in heldI)
        BY <2>3, <2>4, <2>5, <2>6, <3>3, Zenon
      <3>4. CASE (g \in heldA /\ h \in heldB) \/ (g \in heldB /\ h \in heldA)
        BY <2>3, <2>4, <2>5, <2>6, <3>4, Zenon
      <3>5. /\ g \in heldI \/ g \in heldA \/ g \in heldB
            /\ h \in heldI \/ h \in heldA \/ h \in heldB
        OBVIOUS
      <3> QED
        BY <3>1, <3>2, <3>3, <3>4, <3>5, Zenon
    <2> QED
      BY <2>3, <2>4, <2>7, Zenon DEF NoSharedByte
  <1> QED
    BY <1>1, <1>2, StepPacks, PTL DEF Spec
=============================================================================
