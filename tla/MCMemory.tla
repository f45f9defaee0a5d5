------------------------------ MODULE MCMemory ------------------------------
(***************************************************************************)
(* A memory map for TLC: one word of ROM, of RAM and of the CLINT, apart   *)
(* from each other as in the firmware's linker script, bytes of two values *)
(* and three words to store.                                               *)
(***************************************************************************)
EXTENDS Memory

MCWordSize == 32
MCBits(w) == {i \in 0 .. 4 : (w \div 2^i) % 2 = 1}
MCWordOf(S) == CHOOSE w \in 0 .. MCWordSize - 1 : MCBits(w) = S

MCDevices ==
    << [kind |-> "rom", base |-> 24, size |-> 4],
       [kind |-> "ram", base |-> 16, size |-> 4],
       [kind |-> "clint", base |-> 4, size |-> 4] >>

Bytes4(a, b, c, d) == [k \in 0 .. 3 |-> CASE k = 0 -> a [] k = 1 -> b [] k = 2 -> c [] k = 3 -> d]
MCStoreValues == {Bytes4(0, 0, 0, 0), Bytes4(1, 0, 1, 1), Bytes4(0, 1, 0, 1)}
MCFlash == <<Bytes4(1, 0, 0, 1), Zero, Zero>>
=============================================================================
