----------------------------- MODULE DebugInfo ------------------------------
(***************************************************************************)
(* DwarfParser and CompileUnit: from the entries of .debug_info, a flat    *)
(* stream per compile unit in which a 0 ends a list of children, to the    *)
(* tree of entries, its scopes, and the variables visible at an address.   *)
(* An entry is a record of what its abbreviation and its attributes say;   *)
(* how they are encoded is in Attributes.  A node of the tree is named     *)
(* <<unit, offset>>, as DebugInfoEntry::setOffset does.                    *)
(*                                                                         *)
(* The streams are those a compiler writes (IsDebugInfo): every list of    *)
(* children is ended, and nothing follows the root.                        *)
(***************************************************************************)
EXTENDS Integers, Sequences, SequencesExt

CONSTANT Absent     \* an attribute the entry does not have

VARIABLES
    debugInfo,  \* the units, each a sequence of entries and EndOfSiblings
    unit,       \* the one being parsed
    index,      \* of the next entry in its debugStream
    frames,     \* the entries whose child loop is running, innermost last
    children    \* of every entry parsed so far

parseVars == <<debugInfo, unit, index, frames, children>>

EndOfSiblings == [tag |-> "end of siblings"]

(* How many lists of children are open behind the first i of a stream.      *)
Depth(stream, i) ==
    Cardinality({k \in 1 .. i : stream[k] # EndOfSiblings /\ stream[k].hasChildren}) -
    Cardinality({k \in 1 .. i : stream[k] = EndOfSiblings})

(* A unit is over when, and only when, the list of its root is ended.       *)
IsUnit(stream) ==
    /\ DOMAIN stream = 1 .. Len(stream) /\ Len(stream) \in Nat \ {0}
    /\ \A i \in DOMAIN stream : stream[i] # EndOfSiblings => stream[i].hasChildren \in BOOLEAN
    /\ Depth(stream, Len(stream)) = 0
    /\ \A i \in 1 .. Len(stream) - 1 : Depth(stream, i) > 0
IsDebugInfo(units) ==
    /\ DOMAIN units = 1 .. Len(units) /\ Len(units) \in Nat
    /\ \A u \in DOMAIN units : IsUnit(units[u])

Entry(node) == debugInfo[node[1]][node[2]]
Root(u) == <<u, 1>>

ScopeTags == {"subprogram", "inlined_subroutine", "entry_point"}
isScope(node) == Entry(node).tag \in ScopeTags
isVariable(node) == Entry(node).tag \in {"variable", "formal_parameter"}

StartParsing(units) ==
    /\ debugInfo = units
    /\ unit = 1 /\ index = 1 /\ frames = << >> /\ children = << >>

Parsed == unit > Len(debugInfo)

-----------------------------------------------------------------------------
(* generateDebugInfo, one action for each call of it up to the next one.    *)

(* A DebugInfoEntry is constructed without children.                        *)
Construct(known, node) ==
    [n \in DOMAIN known \cup {node} |-> IF n = node THEN << >> ELSE known[n]]

(* The loop of the caller adds what the call returned to its children.      *)
Attach(known, caller, node) ==
    [known EXCEPT ![caller] = Append(@, node)]

(* Not the code: the offset of the next unit is not moved.                  *)
BugNextUnit == unit' = unit /\ index' = 1

(* The constructor goes to the next unit when the root's call is over.      *)
NextUnit == unit' = unit + 1 /\ index' = 1

(* An entry with children: its own child loop starts.                       *)
OpenEntry ==
    LET node == <<unit, index>> IN
    /\ ~ Parsed /\ Entry(node) # EndOfSiblings /\ Entry(node).hasChildren
    /\ index < Len(debugInfo[unit])
    /\ children' = Construct(children, node)
    /\ frames' = Append(frames, node)
    /\ index' = index + 1
    /\ UNCHANGED <<debugInfo, unit>>

(* An entry without children goes back to its caller; the root of a unit    *)
(* that is nothing else ends the unit.                                      *)
LeafEntry ==
    LET node == <<unit, index>> IN
    /\ ~ Parsed /\ Entry(node) # EndOfSiblings /\ ~ Entry(node).hasChildren
    /\ LET known == Construct(children, node) IN
       IF frames = << >>
       THEN children' = known /\ NextUnit
       ELSE /\ children' = Attach(known, Last(frames), node)
            /\ index' = index + 1 /\ unit' = unit
    /\ UNCHANGED <<debugInfo, frames>>

(* Not the code: an entry that ends with its children goes to the root      *)
(* instead of its caller.                                                   *)
BugEndChildren ==
    /\ ~ Parsed /\ Entry(<<unit, index>>) = EndOfSiblings
    /\ frames' = Front(frames)
    /\ IF Len(frames) = 1
       THEN children' = children /\ NextUnit
       ELSE /\ children' = Attach(children, frames[1], Last(frames))
            /\ index' = index + 1 /\ unit' = unit
    /\ UNCHANGED debugInfo

(* A 0: the child loop of the innermost entry ends, and the entry goes back *)
(* to its caller in turn.                                                   *)
EndChildren ==
    /\ ~ Parsed /\ Entry(<<unit, index>>) = EndOfSiblings
    /\ frames' = Front(frames)
    /\ IF Len(frames) = 1
       THEN children' = children /\ NextUnit
       ELSE /\ children' = Attach(children, Last(Front(frames)), Last(frames))
            /\ index' = index + 1 /\ unit' = unit
    /\ UNCHANGED debugInfo

Parse == OpenEntry \/ LeafEntry \/ EndChildren

-----------------------------------------------------------------------------
(* Scopes.  generateScopes keeps, of an entry's children, the variables and *)
(* the scopes, and follows only the scopes: what is inside anything else    *)
(* (a lexical block) is dropped.                                            *)

Select(list, S) ==
    FlattenSeq([k \in DOMAIN list |-> IF list[k] \in S THEN <<list[k]>> ELSE << >>])

Variables(scope) == Select(children[scope], {n \in DOMAIN children : isVariable(n)})
Scopes(scope) == Select(children[scope], {n \in DOMAIN children : isScope(n)})

lowPc(scope) == Entry(scope).lowPc
highPc(scope) == Entry(scope).lowPc + Entry(scope).length

(* Not the code: the end of the range taken for a part of it.               *)
BugIsPcInRange(scope, pc) == pc >= lowPc(scope) /\ pc <= highPc(scope)

isPcInRange(scope, pc) == pc >= lowPc(scope) /\ pc < highPc(scope)

(* From the last unit to the first.  In no unit's range, the loop runs past *)
(* the first unit (its index is unsigned) and what it finds is undefined.   *)
UnitsAt(pc) == {u \in DOMAIN debugInfo : isPcInRange(Root(u), pc)}
getCompileUnitAtPc(pc) == Max(UnitsAt(pc))

ScopesInRange(scope, pc) ==
    Select(Scopes(scope), {n \in DOMAIN children : isPcInRange(n, pc)})

(* The scopes getLocalVariables and getGlobalVariables go through, from the *)
(* root down: always into the first child scope in range.                   *)
ScopePath(pc) ==
    LET u == getCompileUnitAtPc(pc)
        path[scope \in {n \in DOMAIN children : n[1] = u}] ==
            IF ScopesInRange(scope, pc) = << >> THEN <<scope>>
            ELSE <<scope>> \o path[Head(ScopesInRange(scope, pc))]
    IN  path[Root(u)]

DeclaredBy(v, line) == Entry(v).declLine # Absent /\ Entry(v).declLine <= line

(* Not the code: the variables whatever the line.                           *)
BugAboveLine(scope, line) == Variables(scope)

getVariablesAboveLine(scope, line) ==
    Select(Variables(scope), {n \in DOMAIN children : DeclaredBy(n, line)})

getLocalVariables(pc, line) == getVariablesAboveLine(Last(ScopePath(pc)), line)
getGlobalVariables(pc, line) ==
    FlattenSeq([i \in DOMAIN Front(ScopePath(pc)) |->
                    getVariablesAboveLine(ScopePath(pc)[i], line)])

-----------------------------------------------------------------------------
(* The same from the streams alone.                                         *)

Entries(stream) == {i \in DOMAIN stream : stream[i] # EndOfSiblings}

(* The entry whose list of children is open at i and was opened last: the   *)
(* last one in front of i with as many lists open behind it as in front of  *)
(* i.                                                                       *)
Parent(stream, i) ==
    Max({j \in Entries(stream) :
            j < i /\ stream[j].hasChildren /\ Depth(stream, j) = Depth(stream, i - 1)})
Offspring(stream, i) == {j \in Entries(stream) \ {1} : Parent(stream, j) = i}

EntriesOf(u) == Entries(debugInfo[u])
ParentOf(u, i) == Parent(debugInfo[u], i)

(* The list has the entries of the set, in the order of the stream.         *)
Enumerates(list, u, entries) ==
    /\ ToSet(list) = {<<u, j>> : j \in entries}
    /\ \A k, l \in 1 .. Len(list) : k < l => list[k][2] < list[l][2]

(* The tree of unit u is the one whose flattening its stream is: every      *)
(* entry once, under its parent, among its siblings in order.               *)
IsStream(u) ==
    /\ {n \in DOMAIN children : n[1] = u} = {<<u, i>> : i \in EntriesOf(u)}
    /\ \A i \in EntriesOf(u) : Enumerates(children[<<u, i>>], u, Offspring(debugInfo[u], i))

(* When the parser leaves a unit, the tree of that unit and of every unit   *)
(* before it is the one the compiler flattened.                             *)
TreeIsStream == [][unit' # unit => \A u \in 1 .. unit : IsStream(u)']_parseVars

(* The entries around i, itself included: those whose list of children is   *)
(* still open there.                                                        *)
Around(stream, i) ==
    {i} \cup {j \in Entries(stream) :
                /\ j < i /\ stream[j].hasChildren
                /\ \A m \in j .. i - 1 : Depth(stream, m) >= Depth(stream, j)}

(* The scopes that hold pc, with everything around them.                    *)
ScopesHolding(u, pc) ==
    {i \in EntriesOf(u) :
        \A j \in Around(debugInfo[u], i) : (j = 1 \/ isScope(<<u, j>>)) /\ isPcInRange(<<u, j>>, pc)}

(* What a compiler writes without optimisation: addresses and lengths, 0    *)
(* where there are none; and no address in two scopes side by side.         *)
Addresses(entry) == entry.lowPc .. entry.lowPc + entry.length - 1
IsCompiled(stream) ==
    /\ \A i \in Entries(stream) : stream[i].lowPc \in Nat /\ stream[i].length \in Nat
    /\ \A i, j \in {i \in Entries(stream) \ {1} : stream[i].tag \in ScopeTags} :
          i # j /\ Parent(stream, i) = Parent(stream, j) =>
              Addresses(stream[i]) \cap Addresses(stream[j]) = {}

VisibleIn(u, scopes, line) ==
    {<<u, v>> : v \in {v \in EntriesOf(u) \ {1} :
        isVariable(<<u, v>>) /\ ParentOf(u, v) \in scopes /\ DeclaredBy(<<u, v>>, line)}}

(* At an address of the program, the debugger lists the variables of the    *)
(* innermost function there as local, those of the scopes around it as      *)
(* global, each once, and nothing else.                                     *)
ListsAreVisible(pc, line) ==
    LET u == getCompileUnitAtPc(pc)
        holding == ScopesHolding(u, pc)
        locals == getLocalVariables(pc, line)
        globals == getGlobalVariables(pc, line)
    IN  /\ ToSet(locals) = VisibleIn(u, {Max(holding)}, line)
        /\ ToSet(globals) = VisibleIn(u, holding \ {Max(holding)}, line)
        /\ IsInjective(locals \o globals)
=============================================================================
