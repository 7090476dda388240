---------------------------- MODULE MCSramBanks ----------------------------
(* Three banks that lie next to each other, so that a range off by one shows; *)
(* bank A begins with a byte that is linked into it.                          *)
EXTENDS SramBanks, TLC

CONSTANTS p1, p2, d1

MCStart  == [b \in Banks |-> CASE b = "inst" -> 1 [] b = "A" -> 2 [] b = "B" -> 4]
MCTotal  == [b \in Banks |-> CASE b = "inst" -> 1 [] b = "A" -> 2 [] b = "B" -> 1]
MCLinked == [b \in Banks |-> IF b = "A" THEN 1 ELSE 0]
\* No action reads ret before it sets it: states that differ only in it are one.
View == <<heldI, heldA, heldB, pc, size, flags, addr, list>>
Symmetry == Permutations(Procs)
=============================================================================
