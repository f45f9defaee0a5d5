----------------------------- MODULE MCDebugger -----------------------------
(***************************************************************************)
(* Guests for the debugger: a program of two files both of which have a    *)
(* line 2, and a loop that is one line.                                    *)
(***************************************************************************)
EXTENDS Debugger

At(f, n) == [file |-> f, line |-> n]

(* A loop over lines 1, 2 and 3, with a loop inside line 3; the call at 2   *)
(* leads to line 2 of another file.  1 and 4 are inside a row of the line   *)
(* table, which knows the first address of a row only; line 3 has two rows. *)
(* 2 and 5 may trap: 7 is the entry of the vector table, and leads to a     *)
(* handler at 8, of a file of its own, which returns to either or behind.   *)
LoopPcs == 0 .. 8
LoopFlow(a) ==
    CASE a = 0 -> {1} [] a = 1 -> {2, 5} [] a = 2 -> {3} [] a = 3 -> {4}
      [] a = 4 -> {5} [] a = 5 -> {6} [] a = 6 -> {0, 5}
      [] a = 7 -> {8} [] a = 8 -> {2, 3, 5, 6}
LoopTraps(a) == IF a \in {2, 5} THEN {[vector |-> 7, next |-> 8]} ELSE {}
LoopSource(a) ==
    CASE a = 0 -> At("main.c", 1)
      [] a = 2 -> At("main.c", 2)
      [] a = 3 -> At("util.c", 2)
      [] a = 8 -> At("interrupt.s", 9)
      [] a \in {1, 4, 7} -> NoSource
      [] a \in {5, 6} -> At("main.c", 3)

(* Line 2 is for (;;) with an initialiser: its first instruction is not     *)
(* part of the loop.                                                        *)
WaitPcs == 0 .. 3
WaitFlow(a) == IF a = 3 THEN {2} ELSE {a + 1}
WaitTraps(a) == {}
WaitSource(a) ==
    CASE a = 0 -> At("main.c", 1)
      [] a \in {1, 2} -> At("main.c", 2)
      [] a = 3 -> NoSource
=============================================================================
