---------------------------- MODULE MCAlgorithms ----------------------------
(* All pairs of 4-bit words; all 32-bit instructions with at most two 1s,   *)
(* or at most two 0s, above the opcode; the numbers around every power of 2 *)
(* that fits four bytes; sections of up to two words, aligned or not;       *)
(* instruction words of every opcode, funct3 and class of funct7 and CSR;   *)
(* symbols of every kind at the first three words of the ROM; texts shorter *)
(* than a line, of NULs, and longer than the screen with any other;         *)
(* attributes of every form, with any other; one unit or two, with files of *)
(* one name in two directories or one that is missing, and sequences that   *)
(* meet, in either order.                                                   *)
EXTENDS Algorithms

MCXLEN == 4
MCWordSize == 16
MCBits(w) == {i \in 0 .. 3 : (w \div 2^i) % 2 = 1}
Weight(S, i) == IF i \in S THEN 2^i ELSE 0
MCWordOf(S) == Weight(S, 0) + Weight(S, 1) + Weight(S, 2) + Weight(S, 3)

FewOnes == {{i, j} : i, j \in 7 .. 31}
MCSampledInstructions == {{}} \cup FewOnes \cup {(7 .. 31) \ P : P \in FewOnes \cup {{}}}

Placed(n, low) == {i \in low .. 31 : (n \div 2^(i - low)) % 2 = 1}
UpperTwelve == {0, 1, 32, 261, 770, 768, 833, 1024, 1029, 1981, 2818, 3860, 4095}
MCSampledLines ==
    {bits \cup Placed(u, 20) \cup Placed(r1, 15) \cup Placed(f3, 12) \cup Placed(d, 7) :
        bits \in {OpcodeBits[o] : o \in DOMAIN OpcodeBits} \cup {{}, {0, 1, 2, 3}},
        u \in UpperTwelve, r1 \in {0, 10}, f3 \in 0 .. 7, d \in {0, 5, 31}}

MCSymbols ==
    {[name |-> n, type |-> t, address |-> <<"rom", a>>] :
        n \in {"", "$x", "_start"}, t \in {"NOTYPE", "SECTION"}, a \in {0}} \cup
    {[name |-> n, type |-> "FUNC", address |-> <<"rom", a>>] :
        n \in {"main"}, a \in {0, 4, 8}} \cup
    {[name |-> "state", type |-> t, address |-> <<o, 0>>] :
        t \in {"OBJECT", "NOTYPE"}, o \in {"ram"}}
MCSampledSymtabs == BoundedSeq(MCSymbols, 2)

MCSampledCalls ==
    {[name |-> n] : n \in {"enable_text_mode", "enable_graphics_mode", "init_blue_screen"}} \cup
    {[name |-> n, str |-> t[1], len |-> t[2]] :
        n \in {"print_str", "print_str_line"},
        t \in {<<"word", 13>>, <<"nul", 5>>, <<"page", 1340>>}}

Sized(n) == [i \in 1 .. n |-> 16 * i - 1]
Attribute(f, v) == [name |-> 58, form |-> f, value |-> v]
MCSampledAttributes ==
    UNION {{Attribute(f, Sized(n)) : f \in FormsOfSize[n]} : n \in DOMAIN FormsOfSize} \cup
    {Attribute(f, << >>) : f \in {"string", "strp", "line_strp"}} \cup
    {Attribute(f, Sized(3)) : f \in {"string", "strp", "line_strp", "block", "exprloc", "block1",
                                     "block2", "block4"}} \cup
    {Attribute(f, v) : f \in Numbered, v \in {0, 63, 128, 20000}} \cup
    {Attribute("indirect", <<11, 1>>), Attribute("strp_sup", Sized(3))} \cup
    {Attribute("sdata", -300), Attribute("implicit_const", 5)}

Row(a, l, f) == [address |-> a, line |-> l, file |-> f, end |-> FALSE]
EndRow(a) == [address |-> a, line |-> 9, file |-> 1, end |-> TRUE]
Directory(absolute, at) == [absolute |-> absolute, at |-> at]
File(name, d) == [name |-> name, directory |-> d]
MCSampledTables ==
    [directories : {<<Directory(TRUE, <<<<119>>>>), d>> :
                        d \in {Directory(FALSE, <<<<105>>, <<106>>>>), Directory(TRUE, <<<<105>>>>)}},
     files : {<<File(<<109, 46, 99>>, 0), File(<<109, 46, 99>>, 0), File(f, 1)>> :
                f \in {<<104>>, <<109, 46, 99>>}},
     style : {[string |-> "string", number |-> "data2", md5 |-> FALSE],
              [string |-> "line_strp", number |-> "udata", md5 |-> TRUE],
              [string |-> "strp_sup", number |-> "udata", md5 |-> FALSE]},
     rows : {<<Row(2, 6, 2), EndRow(4), Row(0, 4, 1), Row(1, 2, 1), EndRow(2)>>,
             <<Row(0, 4, 1), Row(0, 4, 2), Row(1, 2, 1), EndRow(2), Row(2, 6, 2), EndRow(4)>>}]
MCSampledMissing == {<<SLASH, 105, SLASH, 104>>}

MCSampledNumbers == UNION {{s * 2^k + d : s \in {-1, 1}, d \in -1 .. 1} : k \in 0 .. 28}
=============================================================================
