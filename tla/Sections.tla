------------------------------ MODULE Sections ------------------------------
(***************************************************************************)
(* How ElfParser and DwarfParser find the sections of the file by name.    *)
(* A name is the sequence of its parts: .debug_line_str is                 *)
(* <<"debug", "line", "str">>.                                             *)
(***************************************************************************)
EXTENDS Integers, Sequences, SequencesExt

(* Not the code: the search runs on to the last match.                      *)
BuggetSectionHeader(sections, name) ==
    SelectLastInSeq(sections, LAMBDA s : IsPrefix(name, s))

(* strncmp compares as far as the wanted name reaches; 0 is a null pointer. *)
getSectionHeader(sections, name) == SelectInSeq(sections, LAMBDA s : IsPrefix(name, s))

(* The sections the debugger reads, in the constructor of DwarfParser.      *)
DebugSections ==
    {<<"debug", "info">>, <<"debug", "abbrev">>, <<"debug", "str">>,
     <<"debug", "line", "str">>, <<"debug", "line">>, <<"debug", "frame">>}

DebugHeaders(sections) == [name \in DebugSections |-> getSectionHeader(sections, name)]

(* McuDebug builds the parser whether there is something to debug or not,   *)
(* and the parser uses every header it asked for.                           *)
Opens(sections) == \A name \in DebugSections : DebugHeaders(sections)[name] # 0
=============================================================================
