---------------------------- MODULE MCVariables -----------------------------
(***************************************************************************)
(* Three families of programs.  Many shapes of .debug_info: a unit of the    *)
(* functions main, at 2 and 3, and leaf, at 4, with variables, types,      *)
(* inlined functions and lexical blocks in every arrangement of a few, and *)
(* an assembled unit at 6 that is a root only.  One shape with many        *)
(* programs of frame instructions.  And programs in which something is not *)
(* supported.  5 is padding, 7 is outside.                                 *)
(***************************************************************************)
EXTENDS Variables

E(tag, hasChildren) ==
    [tag |-> tag, hasChildren |-> hasChildren, lowPc |-> 0, length |-> 0,
     declLine |-> Absent, location |-> Absent, frameBase |-> Absent]
At(entry, low, n) == [entry EXCEPT !.lowPc = low, !.length = n]
On(entry, n, op, value) ==
    [entry EXCEPT !.declLine = n, !.location = [op |-> op, n |-> value]]

Unit == At(E("compile_unit", TRUE), 2, 4)
AsmUnit == At(E("compile_unit", FALSE), 6, 1)
Function(hasChildren) == [E("subprogram", hasChildren) EXCEPT !.frameBase = "call_frame_cfa"]
MainFunction(hasChildren) == At(Function(hasChildren), 2, 2)
LeafFunction(hasChildren) == At(Function(hasChildren), 4, 1)
Inlined == At(E("inlined_subroutine", TRUE), 3, 1)
Block == At(E("lexical_block", TRUE), 2, 1)
Static == On(E("variable", FALSE), 1, "addr", 40)
LocalVar == On(E("variable", FALSE), 2, "fbreg", 8)
Parameter == On(E("formal_parameter", FALSE), 1, "fbreg", 4)
InlinedParameter == E("formal_parameter", FALSE)
Type == E("base_type", FALSE)
End == EndOfSiblings

Lists(items, n) == UNION {{l \in [1 .. k -> items] : IsInjective(l)} : k \in 0 .. n}

InMain ==
    { <<LocalVar>>, <<Parameter>>, <<Type>>, <<Block, End>>,
      <<Block, LocalVar, Inlined, End, End>>,
      <<Inlined, InlinedParameter, Block, Static, End, Static, End>> }

Mains == {<<MainFunction(FALSE)>>} \cup
         {<<MainFunction(TRUE)>> \o FlattenSeq(l) \o <<End>> : l \in Lists(InMain, 2)}
Leaves == {<<LeafFunction(FALSE)>>, <<LeafFunction(TRUE), End>>,
           <<LeafFunction(TRUE), Parameter, Block, Static, End, LocalVar, End>>}

Shapes ==
    {<<Unit>> \o a \o m \o l \o <<End>> : a \in {<<Type>>, <<Static>>}, m \in Mains, l \in Leaves}
    \cup {<<Unit>> \o l \o m \o <<Static, End>> : m \in Mains, l \in Leaves}

OneShape ==
    << Unit, MainFunction(TRUE), Parameter, Static, End, LeafFunction(TRUE), LocalVar, End, End >>

FI(op, reg, n) == [op |-> op, reg |-> reg, n |-> n]
Cie(instructions) == [kind |-> "CIE", instructions |-> instructions]
CfaIsSp == Cie(<<FI("def_cfa", 0, 0)>>)
CfaIsFp == Cie(<<FI("def_cfa", 1, 8)>>)
Fde(cie, at, length, instructions) ==
    [kind |-> "FDE", ciePointer |-> cie, initialLocation |-> at, addressRange |-> length,
     instructions |-> instructions]

(* A function that makes a frame of 16 bytes at its first instruction.      *)
GccFrame ==
    <<FI("advance_loc", 0, 1), FI("def_cfa_offset", 0, 16), FI("rule", 0, 0)>>
GccFrames == << CfaIsSp, Fde(1, 2, 2, GccFrame), Fde(1, 4, 1, << >>) >>

FrameInstructions ==
    { FI("advance_loc", 0, 1), FI("advance_loc1", 0, 1), FI("def_cfa", 1, 8),
      FI("def_cfa_register", 1, 0), FI("def_cfa_offset", 0, 16) }
Advance == {FI("advance_loc", 0, 1), FI("advance_loc1", 0, 1)}
FramePrograms ==
    Lists(FrameInstructions, 2) \cup {<<a>> \o l : a \in Advance, l \in Lists(FrameInstructions, 2)}
Frames ==
    {<< CfaIsSp, Fde(1, 2, 2, l), Fde(4, 4, 1, << >>), CfaIsFp >> : l \in FramePrograms}

(* A variable whose location is not supported, or is on a frame whose entry *)
(* has another frame base or none: of the unit, of main, of an inlined      *)
(* function and of a lexical block, each with a variable on either side     *)
(* that is supported.                                                       *)
Others == {On(E("variable", FALSE), 1, op, 8) :
              op \in {"fbreg", "unsupported", "empty", "loclist"}}
Among(v) == <<Parameter, v, LocalVar>>
OtherShapes ==
    UNION {{ <<Unit, Static, v, MainFunction(FALSE), LeafFunction(FALSE), End>>,
             <<Unit, MainFunction(TRUE)>> \o Among(v) \o <<End, LeafFunction(FALSE), End>>,
             <<Unit, MainFunction(TRUE), Inlined>> \o Among(v) \o <<End, End, End>>,
             <<Unit, MainFunction(TRUE), Parameter, Block, v, End, LocalVar, End, End>>,
             <<Unit, [MainFunction(TRUE) EXCEPT !.frameBase = "unsupported"], Static, v, End, End>> }
           : v \in Others}
OtherFrames ==
    {<< CfaIsSp, Fde(1, 2, 2, f), Fde(1, 4, 1, << >>) >> :
        f \in {Append(GccFrame, FI("unsupported", 0, 0)), <<FI("unsupported", 0, 0)>> \o GccFrame}}

MCPrograms ==
    {[units |-> <<s, <<AsmUnit>>>>, debugFrame |-> GccFrames] : s \in Shapes}
    \cup {[units |-> << <<AsmUnit>>, OneShape>>, debugFrame |-> f] : f \in Frames}
    \cup {[units |-> <<s, <<AsmUnit>>>>, debugFrame |-> GccFrames] : s \in OtherShapes}
    \cup {[units |-> <<OneShape>>, debugFrame |-> f] : f \in OtherFrames}
    \cup {[units |-> <<OneShape>>, debugFrame |-> <<CfaIsSp, Fde(1, 2, 2, GccFrame)>>]}    \* none for leaf

MCPcs == 2 .. 7
MCRegisterFiles == {[r \in 0 .. 1 |-> sp + 100 * r] : sp \in {60, 100}}
=============================================================================
