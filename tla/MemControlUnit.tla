--------------------------- MODULE MemControlUnit ---------------------------
(* The sizes of memory accesses, and which one funct3 selects.              *)
EXTENDS Integers

BYTE == 1
HALFWORD == 2
WORD == 4

(* MemControlUnit::getMemSize.                                              *)
getMemSize(funct3) ==
    CASE funct3 \in {0, 4} -> BYTE
      [] funct3 \in {1, 5} -> HALFWORD
      [] funct3 = 2        -> WORD
      [] OTHER             -> 0
=============================================================================
