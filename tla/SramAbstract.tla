---------------------------- MODULE SramAbstract ----------------------------
(***************************************************************************)
(* What a user of a bank of L1 memory may rely on, without the slot table: *)
(* an allocation hands out a block of the bank that overlaps no block      *)
(* handed out before and is at least as long as asked for, or fails; a     *)
(* free of a block that is held always succeeds and gives back exactly     *)
(* that block; a free of anything else changes nothing and says so.        *)
(***************************************************************************)
EXTENDS Integers

CONSTANTS
  Base, Length,   \* the bank
  Requests,       \* sizes callers ask for
  Addresses       \* what callers may pass to a free

VARIABLES
  held,   \* the blocks handed out and not yet freed, records [addr, len]
  ret     \* the last call: its name, argument and result

Apart(g, h) == g.addr + g.len <= h.addr \/ h.addr + h.len <= g.addr

Inside(h) == Base <= h.addr /\ h.addr + h.len <= Base + Length

Init == held = {} /\ ret = <<"init", 0, 0>>

Alloc(n) ==
  \E a \in Base .. Base + Length - 1 :
    /\ ret' = <<"alloc", n, a>>
    /\ \E len \in 1 .. Length :
         LET h == [addr |-> a, len |-> len] IN
         /\ len >= n
         /\ Inside(h)
         /\ \A g \in held : Apart(g, h)
         /\ held' = held \cup {h}

AllocFails(n) == ret' = <<"alloc", n, 0>> /\ held' = held

Free(a) ==
  \E h \in held :
    /\ h.addr = a
    /\ ret' = <<"free", a, 0>>
    /\ held' = held \ {h}

FreeFails(a) ==
  /\ \A h \in held : h.addr # a
  /\ held' = held
  /\ ret' = <<"free", a, -1>>

Next ==
  \/ \E n \in Requests : Alloc(n) \/ AllocFails(n)
  \/ \E a \in Addresses : Free(a) \/ FreeFails(a)

Spec == Init /\ [][Next]_<<held, ret>>
=============================================================================
