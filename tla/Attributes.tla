----------------------------- MODULE Attributes -----------------------------
(***************************************************************************)
(* How the attributes of one entry of .debug_info are read: AbbrevTable    *)
(* (which attributes an entry has, in which form, from .debug_abbrev),     *)
(* CompileUnit::decodeInfo (the data of one attribute) and the loop of     *)
(* CompileUnit::generateDebugInfo over an entry's attributes.  Nothing     *)
(* marks the end of an attribute: one length that is wrong shifts all of   *)
(* the unit behind it.                                                     *)
(***************************************************************************)
EXTENDS DataStream, FiniteSets

(* FormEncoding.                                                            *)
FormEncoding ==
    [addr |-> 1, block2 |-> 3, block4 |-> 4, data2 |-> 5, data4 |-> 6, data8 |-> 7,
     string |-> 8, block |-> 9, block1 |-> 10, data1 |-> 11, flag |-> 12, sdata |-> 13,
     strp |-> 14, udata |-> 15, ref_addr |-> 16, ref1 |-> 17, ref2 |-> 18, ref4 |-> 19,
     ref8 |-> 20, ref_udata |-> 21, indirect |-> 22, sec_offset |-> 23, exprloc |-> 24,
     flag_present |-> 25, strx |-> 26, addrx |-> 27, ref_sup4 |-> 28, strp_sup |-> 29,
     data16 |-> 30, line_strp |-> 31, ref_sig8 |-> 32, implicit_const |-> 33,
     loclistx |-> 34, rnglistx |-> 35, ref_sup8 |-> 36, strx1 |-> 37, strx2 |-> 38, strx3 |-> 39, strx4 |-> 40,
     addrx1 |-> 41, addrx2 |-> 42, addrx3 |-> 43, addrx4 |-> 44]

FormOf(code) == CHOOSE f \in DOMAIN FormEncoding : FormEncoding[f] = code

From(stream, index) == SubSeq(stream, index + 1, Len(stream))

(* decodeUInt8, decodeUInt16, decodeUInt32, and getUInt on the data read.   *)
UInt(stream, size) ==
    MapThenSumSet(LAMBDA i : stream[i] * 256^(i - 1), {i \in 1 .. size : stream[i] # 0})

(* A small number in the eight bytes write gets.                            *)
Bytes(number) ==
    [i \in 1 .. 8 |-> IF i <= 3 THEN (number \div 256^(i - 1)) % 256
                      ELSE IF number < 0 THEN 255 ELSE 0]

-----------------------------------------------------------------------------
(* AbbrevTable: what follows the tag and the flag of an entry, up to two    *)
(* zeros; and the entries up to a code of zero.                             *)
AttributeEntries(stream) ==
    LET read[i \in 0 .. Len(stream)] ==
            LET name == decodeULeb128(From(stream, i))
                form == decodeULeb128(From(stream, i + name.index))
                start == i + name.index + form.index
                special == IF FormOf(form.value) = "implicit_const"
                           THEN decodeULeb128(From(stream, start))
                           ELSE [value |-> 0, index |-> 0]
                rest == read[start + special.index]
            IN  IF name.value = 0 /\ form.value = 0
                THEN [attributes |-> << >>, index |-> start]
                ELSE [attributes |-> <<[name |-> name.value, form |-> FormOf(form.value),
                                        special |-> special.value]>> \o rest.attributes,
                      index |-> rest.index]
    IN  read[0]

AbbrevTable(stream) ==
    LET read[i \in 0 .. Len(stream)] ==
            LET dieCode == decodeULeb128(From(stream, i))
                dieTag == decodeULeb128(From(stream, i + dieCode.index))
                hasChild == decodeULeb128(From(stream, i + dieCode.index + dieTag.index))
                start == i + dieCode.index + dieTag.index + hasChild.index
                entry == AttributeEntries(From(stream, start))
            IN  IF dieCode.value = 0 THEN << >>
                ELSE <<[dieCode |-> dieCode.value, attributes |-> entry.attributes]>> \o
                     read[start + entry.index]
    IN  read[0]

(* insert keeps the first entry of a code.                                  *)
getAbbrevEntry(table, dieCode) ==
    table[SelectInSeq(table, LAMBDA e : e.dieCode = dieCode)]

-----------------------------------------------------------------------------
(* decodeInfo: the data of an attribute and where the stream is behind it;  *)
(* or the end of the emulator, at a form there is no case for.              *)

(* Not the code: the case of three bytes is one with that of two.           *)
BugStreamLen ==
    [addr |-> 4, flag_present |-> 0,
     data1 |-> 1, flag |-> 1, ref1 |-> 1, strx1 |-> 1, addrx1 |-> 1,
     data2 |-> 2, ref2 |-> 2, strx2 |-> 2, addrx2 |-> 2, strx3 |-> 2, addrx3 |-> 2,
     data4 |-> 4, ref_addr |-> 4, ref4 |-> 4, sec_offset |-> 4, strx4 |-> 4, addrx4 |-> 4,
     data8 |-> 8, ref8 |-> 8, ref_sig8 |-> 8, data16 |-> 16]

(* The forms whose length the form gives.                                   *)
StreamLen ==
    [addr |-> 4, flag_present |-> 0,
     data1 |-> 1, flag |-> 1, ref1 |-> 1, strx1 |-> 1, addrx1 |-> 1,
     data2 |-> 2, ref2 |-> 2, strx2 |-> 2, addrx2 |-> 2, strx3 |-> 3, addrx3 |-> 3,
     data4 |-> 4, ref_addr |-> 4, ref4 |-> 4, sec_offset |-> 4, strx4 |-> 4, addrx4 |-> 4,
     data8 |-> 8, ref8 |-> 8, ref_sig8 |-> 8, data16 |-> 16]

(* The forms that begin with the length of what follows.                    *)
BlockLen(form, stream) ==
    CASE form \in {"block", "exprloc"} -> decodeULeb128(stream)
      [] form = "block1" -> [value |-> UInt(stream, 1), index |-> 1]
      [] form = "block2" -> [value |-> UInt(stream, 2), index |-> 2]
      [] form = "block4" -> [value |-> UInt(stream, 4), index |-> 4]

(* StringTable::getString, and the loop of DW_FORM_string.                  *)
getString(table, offset) ==
    LET end == CHOOSE n \in offset + 1 .. Len(table) :
                   table[n] = 0 /\ \A i \in offset + 1 .. n - 1 : table[i] # 0
    IN  SubSeq(table, offset + 1, end - 1)

decodeInfo(attEntry, stream, debugStr, debugLineStr) ==
    LET form == attEntry.form
        Read(data, index) == [data |-> data, index |-> index, exits |-> FALSE]
    IN  CASE form \in DOMAIN StreamLen ->
               Read(SubSeq(stream, 1, StreamLen[form]), StreamLen[form])
          [] form \in {"block", "exprloc", "block1", "block2", "block4"} ->
               LET len == BlockLen(form, stream)
               IN  Read(SubSeq(stream, len.index + 1, len.index + len.value),
                        len.index + len.value)
          [] form = "sdata" ->
               Read(Bytes(decodeLeb128(stream).value), decodeLeb128(stream).index)
          [] form \in {"udata", "ref_udata", "strx", "addrx", "loclistx", "rnglistx"} ->
               Read(Bytes(decodeULeb128(stream).value), decodeULeb128(stream).index)
          [] form = "strp" -> Read(getString(debugStr, UInt(stream, 4)), 4)
          [] form = "line_strp" -> Read(getString(debugLineStr, UInt(stream, 4)), 4)
          [] form = "string" ->
               Read(getString(stream, 0), Len(getString(stream, 0)) + 1)
          [] form = "implicit_const" -> Read(Bytes(attEntry.special), 0)
          [] OTHER -> [data |-> << >>, index |-> 0, exits |-> TRUE]

(* generateDebugInfo: the code of an entry, and its attributes in the order *)
(* of its abbreviation.                                                     *)
DecodeEntry(table, stream, debugStr, debugLineStr) ==
    LET code == decodeULeb128(stream)
        ReadOne(read, attEntry) ==
            LET one == decodeInfo(attEntry, From(stream, read.index), debugStr, debugLineStr)
            IN  IF read.exits THEN read ELSE
                [attributes |-> Append(read.attributes,
                                       [name |-> attEntry.name, data |-> one.data]),
                 index |-> read.index + one.index, exits |-> one.exits]
    IN  FoldLeft(ReadOne, [attributes |-> << >>, index |-> code.index, exits |-> FALSE],
                 getAbbrevEntry(table, code.value).attributes)

-----------------------------------------------------------------------------
(* What a compiler writes, by the DWARF standard (version 5, 32-bit format, *)
(* addresses of four bytes).  An attribute is its name, its form and its    *)
(* value: a number for the forms of variable length and implicit_const,     *)
(* bytes for all others.                                                    *)
FormsOfSize ==
    (0 :> {"flag_present"}) @@
    (1 :> {"data1", "flag", "ref1", "strx1", "addrx1"}) @@
    (2 :> {"data2", "ref2", "strx2", "addrx2"}) @@
    (3 :> {"strx3", "addrx3"}) @@
    (4 :> {"addr", "data4", "ref_addr", "ref4", "sec_offset", "strx4", "addrx4", "ref_sup4"}) @@
    (8 :> {"data8", "ref8", "ref_sig8", "ref_sup8"}) @@
    (16 :> {"data16"})
Numbered == {"sdata", "udata", "ref_udata", "strx", "addrx", "loclistx", "rnglistx"}

(* Forms of the standard "indirect, ref_sup4, strp_sup, ref_sup8" the       *)
(* emulator gives up on.                                                    *)
Unsupported == {"indirect", "ref_sup4", "strp_sup", "ref_sup8"}

LittleEndian(n, size) == [i \in 1 .. size |-> (n \div 256^(i - 1)) % 256]

WrittenAttribute(a, stringOffset) ==
    CASE a.form \in Numbered -> Encoding(3, a.value)
      [] a.form \in {"block", "exprloc"} -> Encoding(2, Len(a.value)) \o a.value
      [] a.form = "block1" -> LittleEndian(Len(a.value), 1) \o a.value
      [] a.form = "block2" -> LittleEndian(Len(a.value), 2) \o a.value
      [] a.form = "block4" -> LittleEndian(Len(a.value), 4) \o a.value
      [] a.form \in {"strp", "line_strp", "strp_sup"} -> LittleEndian(stringOffset, 4)
      [] a.form = "string" -> a.value \o <<0>>
      [] a.form \in {"implicit_const", "flag_present"} -> << >>
      [] OTHER -> a.value

WrittenAbbrev(dieCode, attributes) ==
    Encoding(2, dieCode) \o Encoding(1, 52) \o <<0>> \o
    FlattenSeq([i \in DOMAIN attributes |->
        Encoding(1, attributes[i].name) \o Encoding(1, FormEncoding[attributes[i].form]) \o
        IF attributes[i].form = "implicit_const" THEN Encoding(3, attributes[i].value)
        ELSE << >>]) \o <<0, 0>>

(* The data the attribute's value is.                                       *)
DataOf(a) ==
    IF a.form \in Numbered \cup {"implicit_const"}
    THEN LittleEndian(a.value, 3) \o [i \in 1 .. 5 |-> IF a.value < 0 THEN 255 ELSE 0]
    ELSE a.value
=============================================================================
