-------------------------------- MODULE Word --------------------------------
(***************************************************************************)
(* Machine words.  The emulator computes with uint32_t: additions wrap and *)
(* the CSR and ALU code mixes them with | & ^ ~ and shifts.  A word is a   *)
(* number below WordSize; its binary notation is the set Bits(w) of the    *)
(* positions that hold a 1, so that | is \cup, & is \cap and ~ is set      *)
(* difference.  The width is a parameter (the code's is 32): everything    *)
(* here is defined, and proved, for every width.                           *)
(***************************************************************************)
EXTENDS Integers

CONSTANTS
    XLEN,       \* number of bits of a word (32 in the code)
    WordSize,   \* 2^XLEN
    Bits(_),    \* the positions of the 1s of a word
    WordOf(_)   \* the word whose 1s are at the given positions

Words == 0 .. WordSize - 1
Positions == 0 .. XLEN - 1

TwoTo[i \in 0 .. XLEN] == IF i = 0 THEN 1 ELSE 2 * TwoTo[i - 1]
Digit(w, i) == (w \div TwoTo[i]) % 2

ASSUME WidthAssumption ==
    /\ XLEN \in Nat \ {0}
    /\ WordSize \in Nat \ {0}
    /\ WordSize = TwoTo[XLEN]

(* Bits and WordOf are binary notation, and inverse to each other.         *)
ASSUME BitsAssumption ==
    /\ \A w \in Words : Bits(w) \in SUBSET Positions /\ WordOf(Bits(w)) = w
    /\ \A S \in SUBSET Positions : WordOf(S) \in Words /\ Bits(WordOf(S)) = S
    /\ Bits(0) = {}
    /\ \A w \in Words, i \in Positions : i \in Bits(w) <=> Digit(w, i) = 1

(* Unsigned arithmetic, modulo WordSize.                                   *)
Plus(a, b) == (a + b) % WordSize
Minus(a, b) == (a - b) % WordSize

(* The bitwise operators of C on words.                                    *)
BitOr(a, b) == WordOf(Bits(a) \cup Bits(b))
BitAnd(a, b) == WordOf(Bits(a) \cap Bits(b))
BitXor(a, b) == WordOf((Bits(a) \ Bits(b)) \cup (Bits(b) \ Bits(a)))
ShiftLeft(a, n) == WordOf({i \in Positions : i - n \in Bits(a)})
ShiftRight(a, n) == WordOf({i \in Positions : i + n \in Bits(a)})

(* C's logical negation, which is 1 for 0 and 0 for everything else.       *)
LogicalNot(a) == IF a = 0 THEN 1 ELSE 0

SignBit(a) == XLEN - 1 \in Bits(a)
=============================================================================
