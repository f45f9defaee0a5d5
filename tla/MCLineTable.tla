---------------------------- MODULE MCLineTable -----------------------------
(***************************************************************************)
(* Programs of four opcodes under a header with two operations per         *)
(* instruction, two-byte instructions and lines that go back by one.  In   *)
(* 6-bit integers addresses and lines wrap.                                *)
(***************************************************************************)
EXTENDS LineTable

MCOperands(op) ==
    CASE op = "special" -> {0, 4, 5}
      [] op = "advance_pc" -> {1, 3}
      [] op = "advance_line" -> {-2, 7}
      [] op = "set_file" -> {0}
      [] op = "fixed_advance_pc" -> {3}
      [] op = "set_address" -> {8, 62}
      [] OTHER -> {0}
MCLineBase == -1
=============================================================================
