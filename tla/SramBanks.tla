------------------------------ MODULE SramBanks ------------------------------
(***************************************************************************)
(* The banks of L1 memory together: the instruction bank and the data      *)
(* banks A and B, the processes that allocate through the sram_list of     *)
(* their mm (sram_alloc_with_lsl, sram_free_with_lsl) and the drivers that *)
(* call l1_data_sram_alloc and l1_data_sram_free.                          *)
(*                                                                         *)
(* A bank is a SramAbstract, which Sram is proved to implement.  Each call *)
(* into a bank is one section under its spinlock, hence one step; an       *)
(* allocation that falls back from bank to bank, and a free that releases  *)
(* the piece first and unlinks the node second, are several steps that     *)
(* other callers' steps may come between.  An mm belongs to one thread.    *)
(***************************************************************************)
EXTENDS Integers

CONSTANTS
  Procs, Drivers,         \* who allocates
  Start, Total, Linked,   \* per bank: first address, bytes, bytes linked into it
  Requests                \* sizes asked for

Banks == {"inst", "A", "B"}

Callers == Procs \cup Drivers

BankBytes(b) == Start[b] .. Start[b] + Total[b] - 1

ASSUME BanksAssumption ==
  /\ Procs \cap Drivers = {}
  /\ Requests \subseteq Nat
  /\ Start \in [Banks -> Nat \ {0}]
  /\ Total \in [Banks -> Nat \ {0}]
  /\ Linked \in [Banks -> Nat]
  /\ \A b \in Banks : Linked[b] < Total[b]
  /\ \A b, c \in Banks : b # c => BankBytes(b) \cap BankBytes(c) = {}

Address == UNION {BankBytes(b) : b \in Banks}

VARIABLES
  heldI, heldA, heldB,   \* the blocks handed out of each bank
  ret,                   \* the last call into a bank
  pc,                    \* where each caller is
  size, flags, addr,     \* its arguments, and its local addr (0 is NULL)
  list                   \* sram_list: how many nodes hold each address

banks == <<heldI, heldA, heldB, ret>>
vars == <<heldI, heldA, heldB, ret, pc, size, flags, addr, list>>

Inst == INSTANCE SramAbstract
          WITH held <- heldI, Base <- Start["inst"] + Linked["inst"],
               Length <- Total["inst"] - Linked["inst"], Addresses <- Address
A == INSTANCE SramAbstract
       WITH held <- heldA, Base <- Start["A"] + Linked["A"],
            Length <- Total["A"] - Linked["A"], Addresses <- Address
B == INSTANCE SramAbstract
       WITH held <- heldB, Base <- Start["B"] + Linked["B"],
            Length <- Total["B"] - Linked["B"], Addresses <- Address

Goto(p, l) == pc' = [pc EXCEPT ![p] = l]

\* The call is over and its local variables are gone.
Return(p) ==
  /\ pc' = [pc EXCEPT ![p] = "idle"]
  /\ size' = [size EXCEPT ![p] = 0]
  /\ flags' = [flags EXCEPT ![p] = {}]
  /\ addr' = [addr EXCEPT ![p] = 0]

-----------------------------------------------------------------------------
\* One call into a bank, under the bank's lock.
l1_inst_sram_alloc(n) ==
  (Inst!Alloc(n) \/ Inst!AllocFails(n)) /\ UNCHANGED <<heldA, heldB>>
l1_data_A_sram_alloc(n) ==
  (A!Alloc(n) \/ A!AllocFails(n)) /\ UNCHANGED <<heldI, heldB>>
l1_data_B_sram_alloc(n) ==
  (B!Alloc(n) \/ B!AllocFails(n)) /\ UNCHANGED <<heldI, heldA>>

l1_inst_sram_free(a) ==
  (Inst!Free(a) \/ Inst!FreeFails(a)) /\ UNCHANGED <<heldA, heldB>>
l1_data_A_sram_free(a) ==
  (A!Free(a) \/ A!FreeFails(a)) /\ UNCHANGED <<heldI, heldB>>
l1_data_B_sram_free(a) ==
  (B!Free(a) \/ B!FreeFails(a)) /\ UNCHANGED <<heldI, heldA>>

\* A broken variant: the ranges of A and B lead to each other's bank.
sram_free_swapped(a) ==
  \/ a \in BankBytes("inst") /\ l1_inst_sram_free(a)
  \/ a \in BankBytes("A") /\ l1_data_B_sram_free(a)
  \/ a \in BankBytes("B") /\ l1_data_A_sram_free(a)

\* The bank is chosen by the range the address is in.
sram_free(a) ==
  \/ a \in BankBytes("inst") /\ l1_inst_sram_free(a)
  \/ a \in BankBytes("A") /\ l1_data_A_sram_free(a)
  \/ a \in BankBytes("B") /\ l1_data_B_sram_free(a)

-----------------------------------------------------------------------------
\* A broken variant: an address already found does not end the search.
WantsRegardless(p, b) == b \in flags[p]

\* addr == NULL && (flags & b)
Wants(p, b) == addr[p] = 0 /\ b \in flags[p]

\* The node is allocated first; a call whose kmalloc fails changes nothing.
sram_alloc_with_lsl(p, n, f) ==
  /\ pc[p] = "idle"
  /\ size' = [size EXCEPT ![p] = n]
  /\ flags' = [flags EXCEPT ![p] = f]
  /\ addr' = [addr EXCEPT ![p] = 0]
  /\ Goto(p, "try_inst")
  /\ UNCHANGED <<list, banks>>

TryInst(p) ==
  /\ pc[p] = "try_inst"
  /\ \/ /\ Wants(p, "inst")
        /\ l1_inst_sram_alloc(size[p])
        /\ addr' = [addr EXCEPT ![p] = ret'[3]]
     \/ ~Wants(p, "inst") /\ UNCHANGED <<addr, banks>>
  /\ Goto(p, "try_A")
  /\ UNCHANGED <<size, flags, list>>

TryA(p) ==
  /\ pc[p] = "try_A"
  /\ \/ /\ Wants(p, "A")
        /\ l1_data_A_sram_alloc(size[p])
        /\ addr' = [addr EXCEPT ![p] = ret'[3]]
     \/ ~Wants(p, "A") /\ UNCHANGED <<addr, banks>>
  /\ Goto(p, "try_B")
  /\ UNCHANGED <<size, flags, list>>

TryB(p) ==
  /\ pc[p] = "try_B"
  /\ \/ /\ Wants(p, "B")
        /\ l1_data_B_sram_alloc(size[p])
        /\ addr' = [addr EXCEPT ![p] = ret'[3]]
     \/ ~Wants(p, "B") /\ UNCHANGED <<addr, banks>>
  /\ Goto(p, "link")
  /\ UNCHANGED <<size, flags, list>>

\* A driver tries bank A and then bank B.
l1_data_sram_alloc(d, n) ==
  /\ pc[d] = "idle"
  /\ size' = [size EXCEPT ![d] = n]
  /\ flags' = [flags EXCEPT ![d] = {"A", "B"}]
  /\ addr' = [addr EXCEPT ![d] = 0]
  /\ Goto(d, "try_A")
  /\ UNCHANGED <<list, banks>>

\* The node goes on the list, or is freed when no bank had room.  (A driver keeps
\* the address it is given in a variable of its own.)
Link(p) ==
  /\ pc[p] = "link"
  /\ list' = IF addr[p] = 0 THEN list ELSE [list EXCEPT ![p][addr[p]] = @ + 1]
  /\ Return(p)
  /\ UNCHANGED banks

-----------------------------------------------------------------------------
\* The address must be on the caller's own list; a call for another returns -1.
sram_free_with_lsl(p, a) ==
  /\ pc[p] = "idle"
  /\ list[p][a] > 0
  /\ addr' = [addr EXCEPT ![p] = a]
  /\ Goto(p, "free")
  /\ UNCHANGED <<size, flags, list, banks>>

\* sram_free(addr): its result is not looked at.
FreePiece(p) ==
  /\ pc[p] = "free"
  /\ sram_free(addr[p])
  /\ Goto(p, IF ret'[3] = 0 THEN "unlink" ELSE "unlink_lost")
  /\ UNCHANGED <<size, flags, addr, list>>

Unlink(p) ==
  /\ pc[p] \in {"unlink", "unlink_lost"}
  /\ list' = [list EXCEPT ![p][addr[p]] = @ - 1]
  /\ Return(p)
  /\ UNCHANGED banks

\* A driver frees an address it was given: bank A first, bank B if A said -1.
l1_data_sram_free(d, a) ==
  /\ pc[d] = "idle"
  /\ list[d][a] > 0
  /\ addr' = [addr EXCEPT ![d] = a]
  /\ Goto(d, "free_A")
  /\ UNCHANGED <<size, flags, list, banks>>

FreeFromA(d) ==
  /\ pc[d] = "free_A"
  /\ l1_data_A_sram_free(addr[d])
  /\ Goto(d, IF ret'[3] = -1 THEN "free_B" ELSE "unlink")
  /\ UNCHANGED <<size, flags, addr, list>>

FreeFromB(d) ==
  /\ pc[d] = "free_B"
  /\ l1_data_B_sram_free(addr[d])
  /\ Goto(d, IF ret'[3] = 0 THEN "unlink" ELSE "unlink_lost")
  /\ UNCHANGED <<size, flags, addr, list>>

-----------------------------------------------------------------------------
Init ==
  /\ Inst!Init /\ A!Init /\ B!Init
  /\ pc = [p \in Callers |-> "idle"]
  /\ size = [p \in Callers |-> 0]
  /\ flags = [p \in Callers |-> {}]
  /\ addr = [p \in Callers |-> 0]
  /\ list = [p \in Callers |-> [a \in Address |-> 0]]

ProcStep(p) ==
  \/ \E n \in Requests, f \in SUBSET Banks : sram_alloc_with_lsl(p, n, f)
  \/ TryInst(p)
  \/ \E a \in Address : sram_free_with_lsl(p, a)
  \/ FreePiece(p)

DriverStep(d) ==
  \/ \E n \in Requests : l1_data_sram_alloc(d, n)
  \/ \E a \in Address : l1_data_sram_free(d, a)
  \/ FreeFromA(d)
  \/ FreeFromB(d)

Next ==
  \/ \E p \in Procs : ProcStep(p)
  \/ \E d \in Drivers : DriverStep(d)
  \/ \E p \in Callers : TryA(p) \/ TryB(p) \/ Link(p) \/ Unlink(p)

Spec == Init /\ [][Next]_vars

-----------------------------------------------------------------------------
HeldAddresses == {h.addr : h \in heldI \cup heldA \cup heldB}

\* How many times a caller owns an address: its nodes, one more between a
\* successful allocation and the linking of the node, one fewer between the free
\* of the piece and the unlinking of the node.
Owns(p, a) ==
  list[p][a]
    + (IF pc[p] \in {"try_A", "try_B", "link"} /\ addr[p] = a THEN 1 ELSE 0)
    - (IF pc[p] \in {"unlink", "unlink_lost"} /\ addr[p] = a THEN 1 ELSE 0)

\* Every piece handed out has exactly one owner, and nothing else is owned: the
\* fallback from bank to bank leaks no piece, and a piece that another caller
\* gets while its old node is still being unlinked is never counted twice.
OwnedOnce ==
  \A a \in Address :
    IF a \in HeldAddresses
    THEN \E p \in Callers : /\ Owns(p, a) = 1
                            /\ \A q \in Callers \ {p} : Owns(q, a) = 0
    ELSE \A p \in Callers : Owns(p, a) = 0

\* sram_free_with_lsl ignores the result of sram_free, and l1_data_sram_free asks
\* bank B only after bank A: no free of an owned address ever fails to find it.
FreeFindsBank == \A p \in Callers : pc[p] # "unlink_lost"
=============================================================================
