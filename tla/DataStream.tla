----------------------------- MODULE DataStream -----------------------------
(***************************************************************************)
(* The numbers of variable length of DataStream: LEB128, in which the low  *)
(* seven bits of a byte are the next seven bits of the number and the top  *)
(* bit says that another byte follows.  Numbers of up to four bytes, whose *)
(* shifts fit the int the code shifts.                                     *)
(***************************************************************************)
EXTENDS Integers, Sequences, SequencesExt

Byte == 0 .. 255

Continues(byte) == byte \div 128 = 1
SignOf(byte) == (byte \div 64) % 2

(* The length of the number at the front of the stream.                     *)
NumberLength(stream) ==
    CHOOSE n \in DOMAIN stream :
        ~Continues(stream[n]) /\ \A i \in 1 .. n - 1 : Continues(stream[i])

(* 128 to the power of n - 1.                                               *)
Power128 == <<1, 128, 16384, 2097152, 268435456>>

(* The groups are disjoint, so that their bitwise or is their sum.          *)
Groups(stream, n) ==
    SumFunctionOnSet([i \in 1 .. n |-> (stream[i] % 128) * Power128[i]], 1 .. n)

(* Each decoder returns the number and leaves the stream at index.          *)
decodeULeb128(stream) ==
    LET n == NumberLength(stream) IN [value |-> Groups(stream, n), index |-> n]

(* Not the code: the sign is extended from the start of the last group, as  *)
(* if shift were increased at the end of the loop as in decodeULeb128.      *)
BugdecodeLeb128(stream) ==
    LET n == NumberLength(stream)
    IN  [value |-> Groups(stream, n) - SignOf(stream[n]) * Power128[n], index |-> n]

decodeLeb128(stream) ==
    LET n == NumberLength(stream)
    IN  [value |-> Groups(stream, n) - SignOf(stream[n]) * Power128[n + 1], index |-> n]

-----------------------------------------------------------------------------
(* The encodings the DWARF standard allows: of a length that holds the      *)
(* number, with its sign bit if it is signed.                               *)
Holds(signed, length, v) ==
    IF signed THEN - Power128[length + 1] <= 2 * v /\ 2 * v < Power128[length + 1]
              ELSE 0 <= v /\ v < Power128[length + 1]

Encoding(length, v) ==
    [i \in 1 .. length |->
        ((v \div Power128[i]) % 128) + (IF i < length THEN 128 ELSE 0)]
=============================================================================
