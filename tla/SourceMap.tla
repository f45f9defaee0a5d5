----------------------------- MODULE SourceMap ------------------------------
(***************************************************************************)
(* From an address of the program to the source line and file the debugger *)
(* shows: the file tables in the header of a line table (LineNumberInfo),  *)
(* the lookup of an address in its rows, the line table and the range of   *)
(* every compile unit (DwarfParser), and the tab of the GUI with that      *)
(* file's name.  Rows are given here: LineTable is how they are made.      *)
(*                                                                         *)
(* Strings are sequences of characters' codes, as in Attributes.           *)
(***************************************************************************)
EXTENDS Attributes

SLASH == 47
DW_LNCT_path == 1
DW_LNCT_directory_index == 2
DW_LNCT_MD5 == 5

-----------------------------------------------------------------------------
(* The header of a line table, from the directory formats on.  Each reader  *)
(* returns what it read and where it left the stream.                       *)

generateFileFormatInfo(stream, start) ==
    LET ReadFormat(read, i) ==
            LET content == decodeULeb128(From(stream, read.index))
                form == decodeULeb128(From(stream, read.index + content.index)) IN
            [entries |-> Append(read.entries, <<content.value, FormOf(form.value)>>),
             index |-> read.index + content.index + form.index]
    IN  FoldLeft(ReadFormat, [entries |-> << >>, index |-> start + 1],
                 [i \in 1 .. stream[start + 1] |-> i])

(* Every entry is read as the attributes of an entry of .debug_info are.    *)
generateFileInformation(stream, start, format, debugStr, debugLineStr) ==
    LET count == decodeULeb128(From(stream, start))
        ReadContent(read, f) ==
            LET one == decodeInfo([form |-> f[2], special |-> 0], From(stream, read.index),
                                  debugStr, debugLineStr)
            IN  IF read.exits THEN read ELSE
                [entries |-> [read.entries EXCEPT ![Len(read.entries)] =
                                (f[1] :> one.data) @@ @],
                 index |-> read.index + one.index, exits |-> one.exits]
        ReadEntry(read, i) ==
            FoldLeft(ReadContent, [read EXCEPT !.entries = Append(@, << >>)], format)
    IN  FoldLeft(ReadEntry, [entries |-> << >>, index |-> start + count.index, exits |-> FALSE],
                 [i \in 1 .. count.value |-> i])

(* A table of the header: its formats, then its entries.                    *)
readFileTable(stream, start, debugStr, debugLineStr) ==
    LET format == generateFileFormatInfo(stream, start)
    IN  generateFileInformation(stream, format.index, format.entries, debugStr, debugLineStr)

(* The path of every file.                                                  *)
generateFilePaths(directories, fileNames) ==
    LET compileDirectory == directories[1][DW_LNCT_path]
        DirPath(path) == IF path[1] # SLASH THEN compileDirectory \o <<SLASH>> \o path ELSE path
        DirOf(f) == directories[1 + UInt(f[DW_LNCT_directory_index],
                                         Len(f[DW_LNCT_directory_index]))]
    IN  [i \in DOMAIN fileNames |->
            DirPath(DirOf(fileNames[i])[DW_LNCT_path]) \o <<SLASH>> \o
            fileNames[i][DW_LNCT_path]]

(* SourceInfo: its name is what is behind the last slash; the emulator ends *)
(* when the file cannot be opened.                                          *)
Opened(paths, missing) == \A i \in DOMAIN paths : paths[i] \notin missing
NameOf(path) == SubSeq(path, 1 + SelectLastInSeq(path, LAMBDA c : c = SLASH), Len(path))

-----------------------------------------------------------------------------
(* Lookups.  A compile unit is its range, the paths of its files and the    *)
(* rows of its line table; files are numbered from 0.                       *)

getLineEntryAtPc(unit, pc) == SelectInSeq(unit.rows, LAMBDA r : r.address = pc)

getLineNumberAtPc(unit, pc) ==
    LET n == getLineEntryAtPc(unit, pc) IN IF n = 0 THEN 0 ELSE unit.rows[n].line

getSourceNameAtPc(unit, pc) ==
    LET n == getLineEntryAtPc(unit, pc)
    IN  IF n = 0 THEN << >> ELSE NameOf(unit.paths[1 + unit.rows[n].file])

(* Not the code: the next line table is not gone to.                        *)
BugLineTableOf(lineTables, u) == lineTables[1]

(* The constructor of DwarfParser goes to the next line table with every    *)
(* unit, whichever one the unit names.                                      *)
LineTableOf(lineTables, u) == lineTables[u]

CompileUnits(units, lineTables) ==
    [u \in DOMAIN units |->
        LET table == LineTableOf(lineTables, u) IN
        [lowPc |-> units[u].lowPc, highPc |-> units[u].lowPc + units[u].length,
         paths |-> generateFilePaths(table.directories, table.fileNames),
         rows |-> table.rows]]

getCompileUnitAtPc(compileUnits, pc) ==
    compileUnits[SelectLastInSeq(compileUnits, LAMBDA c : c.lowPc <= pc /\ pc < c.highPc)]

(* The tabs of the GUI: every path of every unit, once.                     *)
getSourceInfo(compileUnits) ==
    LET AddNew(sources, path) ==
            IF path \in ToSet(sources) THEN sources ELSE Append(sources, path)
    IN  FoldLeft(AddNew, << >>,
                 FlattenSeq([u \in DOMAIN compileUnits |-> compileUnits[u].paths]))

(* renderDebugSource after a step that went to pc: the line looked up there *)
(* and the tabs selected.                                                   *)
Shown(compileUnits, pc) ==
    LET unit == getCompileUnitAtPc(compileUnits, pc) IN
    [line |-> getLineNumberAtPc(unit, pc),
     tabs |-> SelectSeq(getSourceInfo(compileUnits),
                        LAMBDA path : NameOf(path) = getSourceNameAtPc(unit, pc))]

-----------------------------------------------------------------------------
(* What a compiler writes (DWARF version 5).  A directory is its components *)
(* and whether they start at the root; a file is its name and the number of *)
(* its directory.  style is how a compiler forms the entries: the string    *)
(* form, the form of the directory's number, and the order of the contents. *)
Joined(components) ==
    FlattenSeq([i \in DOMAIN components |->
        (IF i = 1 THEN << >> ELSE <<SLASH>>) \o components[i]])
WrittenDirectory(d) == (IF d.absolute THEN <<SLASH>> ELSE << >>) \o Joined(d.at)

Contents(style) ==
    LET path == <<DW_LNCT_path, style.string>>
        index == <<DW_LNCT_directory_index, style.number>>
    IN  IF style.md5 THEN <<path, index, <<DW_LNCT_MD5, "data16">>>> ELSE <<index, path>>

WrittenFormat(contents) ==
    <<Len(contents)>> \o FlattenSeq([i \in DOMAIN contents |->
        Encoding(1, contents[i][1]) \o Encoding(1, FormEncoding[contents[i][2]])])

(* The strings of a table, each at its offset.                              *)
StringsIn(table) ==
    [i \in DOMAIN table.directories |-> WrittenDirectory(table.directories[i])] \o
    [i \in DOMAIN table.files |-> table.files[i].name]
OffsetIn(strings, i) == Len(FlattenSeq([j \in 1 .. i - 1 |-> strings[j] \o <<0>>]))

WrittenHeader(table, start) ==
    LET strings == StringsIn(table)
        n == Len(table.directories)
        String(i) == WrittenAttribute([form |-> table.style.string, value |-> strings[i]],
                                      start + OffsetIn(strings, i))
        Number(d) == WrittenAttribute(
                        [form |-> table.style.number,
                         value |-> IF table.style.number = "udata" THEN d ELSE <<d, 0>>], 0)
        Content(i, c) ==
            CASE c[1] = DW_LNCT_path -> String(n + i)
              [] c[1] = DW_LNCT_directory_index -> Number(table.files[i].directory)
              [] c[1] = DW_LNCT_MD5 -> [k \in 1 .. 16 |-> 15 * k]
        contents == Contents(table.style)
    IN  WrittenFormat(<<<<DW_LNCT_path, table.style.string>>>>) \o
        Encoding(1, n) \o FlattenSeq([i \in 1 .. n |-> String(i)]) \o
        WrittenFormat(contents) \o
        Encoding(1, Len(table.files)) \o
        FlattenSeq([i \in DOMAIN table.files |->
            FlattenSeq([k \in DOMAIN contents |-> Content(i, contents[k])])])

(* The path of a file by the standard: a directory that does not start at   *)
(* the root is in the one of the compilation, the first.                    *)
PathOf(table, file) ==
    LET d == table.directories[1 + table.files[1 + file].directory]
        at == IF d.absolute THEN d.at ELSE table.directories[1].at \o d.at
    IN  <<SLASH>> \o Joined(at \o <<table.files[1 + file].name>>)
=============================================================================
