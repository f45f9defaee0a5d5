----------------------------- MODULE Variables ------------------------------
(***************************************************************************)
(* Variable, StackMachine and the frames in which the GUI lists variables: *)
(* after the units are parsed (DebugInfo), every frame lists the variables *)
(* visible at the guest's program counter and evaluates the location       *)
(* expression of each, in terms of the guest's registers (CallFrame).      *)
(* Between two frames the guest runs.                                      *)
(***************************************************************************)
EXTENDS DebugInfo, CallFrame

CONSTANTS
    Programs,       \* what may be loaded: the units of .debug_info, and .debug_frame
    EntryPc, Pcs,       \* where the guest starts and where it may be
    EntryLine, Lines,   \* values of latestSourceLine
    RegisterFiles       \* values of the guest's registers

ASSUME StreamsAssumption == \A program \in Programs : IsDebugInfo(program.units)
ASSUME CompiledAssumption ==
    \A program \in Programs : \A u \in DOMAIN program.units : IsCompiled(program.units[u])
ASSUME FramesAssumption ==
    /\ codeAlignmentFactor \in Nat
    /\ \A program \in Programs : IsDebugFrame(program.debugFrame)
ASSUME AbsentAssumption == Absent # "call_frame_cfa"
ASSUME AddressesAssumption == EntryPc \in Nat /\ Pcs \subseteq Nat

VARIABLES
    fdes,               \* the frame descriptions of .debug_frame
    pc, line, regs,     \* the guest, and latestSourceLine
    stacks,             \* the top of the stack of every variable evaluated before
    status              \* "running", or how the emulator stopped

vars == <<parseVars, fdes, pc, line, regs, stacks, status>>

Init ==
    /\ \E program \in Programs : StartParsing(program.units) /\ fdes = generateFrameInfo(program.debugFrame)
    /\ pc = EntryPc /\ line = EntryLine /\ regs \in RegisterFiles
    /\ stacks = << >> /\ status = "running"

(* The variables generateScopes constructs: those of the scopes it keeps.   *)
Constructed(u) ==
    LET scopes[scope \in {n \in DOMAIN children : n[1] = u}] ==
            {scope} \cup UNION {scopes[s] : s \in ToSet(Scopes(scope))}
    IN  {v \in DOMAIN children : isVariable(v) /\ \E s \in scopes[Root(u)] : v \in ToSet(children[s])}

(* The constructor of a Variable exits when its location is a list.         *)
HasLocationList(u) ==
    \E v \in Constructed(u) : Entry(v).location # Absent /\ Entry(v).location.op = "loclist"

(* A step of the parser.  The scopes of a unit are generated when its last  *)
(* entry is parsed.                                                         *)
Load ==
    /\ status = "running" /\ Parse
    /\ status' = IF unit' # unit /\ HasLocationList(unit - 1)' THEN "exited" ELSE status
    /\ UNCHANGED <<fdes, pc, line, regs, stacks>>

(* The guest runs and the debugger records a line, which may be the one of  *)
(* an earlier address.                                                      *)
Guest ==
    /\ Parsed /\ status = "running"
    /\ pc' \in Pcs /\ line' \in Lines /\ regs' \in RegisterFiles
    /\ UNCHANGED <<parseVars, fdes, stacks, status>>

-----------------------------------------------------------------------------
(* parseExpr.  The stream of a StackMachine is not rewound and its stack is *)
(* not emptied: after the first evaluation of a variable the stream is at   *)
(* its end, and the result is what the first one left on the stack.  A      *)
(* location is one operation: "addr", "fbreg", any other ("unsupported"),   *)
(* none ("empty"), or a list of locations ("loclist").                      *)

expression(v) == Entry(v).location

IsStatic(v) == expression(v) # Absent /\ expression(v).op = "addr"
IsOnFrame(v) == expression(v) # Absent /\ expression(v).op = "fbreg"

(* What the stack has, if the evaluation comes to its end.                  *)
Evaluated(v) ==
    CASE IsStatic(v) -> expression(v).n
      [] IsOnFrame(v) -> getCfaAtLocation(fdes, pc, regs) + expression(v).n

Top(v) == IF v \in DOMAIN stacks THEN stacks[v] ELSE Evaluated(v)

Listed == getGlobalVariables(pc, line) \o getLocalVariables(pc, line)

getParentEntry(v) == CHOOSE n \in DOMAIN children : v \in ToSet(children[n])
frameBase(v) == Entry(getParentEntry(v)).frameBase

(* generateVirtTable finds a description, and its program has an end.       *)
HasCfa == FdesAt(fdes, pc) # {} /\ CanRun(FdeAt(fdes, pc))

(* The exits of parseExpr: an operation without a case, in the location or  *)
(* in the frame base, and a frame without a CFA.                            *)
Exits(v) ==
    \/ expression(v).op = "unsupported"
    \/ /\ IsOnFrame(v) /\ frameBase(v) # Absent
       /\ frameBase(v) = "call_frame_cfa" => ~ HasCfa

(* The top of an empty stack; and the null frame base of an entry that has  *)
(* none (only a function does).                                             *)
IsUndefined(v) ==
    \/ expression(v).op = "empty"
    \/ IsOnFrame(v) /\ frameBase(v) = Absent

(* What evaluating v does to the emulator.                                  *)
Outcome(v) ==
    IF expression(v) = Absent \/ v \in DOMAIN stacks THEN "running"
    ELSE IF Exits(v) THEN "exited" ELSE IF IsUndefined(v) THEN "undefined" ELSE "running"

(* A frame of the GUI: renderDebugSource and displayVarTable.               *)
Render ==
    /\ Parsed /\ status = "running" /\ UnitsAt(pc) # {}
    /\ \A v \in ToSet(Listed) : Outcome(v) = "running"
    /\ stacks' = [v \in DOMAIN stacks \cup {w \in ToSet(Listed) : expression(w) # Absent} |-> Top(v)]
    /\ UNCHANGED <<parseVars, fdes, pc, line, regs, status>>

(* The first variable that cannot be evaluated ends the emulator.           *)
RenderStops ==
    /\ Parsed /\ status = "running" /\ UnitsAt(pc) # {}
    /\ \E k \in DOMAIN Listed :
          /\ Outcome(Listed[k]) # "running"
          /\ \A i \in 1 .. k - 1 : Outcome(Listed[i]) = "running"
          /\ status' = Outcome(Listed[k])
    /\ UNCHANGED <<parseVars, fdes, pc, line, regs, stacks>>

(* The address is in no unit, and what getCompileUnitAtPc reads undefined.  *)
RenderOutside ==
    /\ Parsed /\ status = "running" /\ UnitsAt(pc) = {}
    /\ status' = "undefined"
    /\ UNCHANGED <<parseVars, fdes, pc, line, regs, stacks>>

Next == Load \/ Guest \/ Render \/ RenderStops \/ RenderOutside

Spec == Init /\ [][Next]_vars

(* The parser and the GUI are one thread; each call returns.                *)
FairSpec == Spec /\ WF_vars(Load)

-----------------------------------------------------------------------------
(* Properties.                                                              *)

(* The debugger's lists at every address of the program are the variables   *)
(* of the scopes that hold it, local and global, as far as latestSourceLine *)
(* has come (ListsAreVisible); those of lexical blocks are in no scope of   *)
(* the code's and in no list.                                               *)
ListsAreRight ==
    Parsed /\ UnitsAt(pc) # {} => ListsAreVisible(pc, line)

(* "Re-calculate variable location" (Variable.cpp): the first time a        *)
(* variable is listed its location is the one of the DWARF standard, if the *)
(* address is in the last row of its function's frame description and that  *)
(* row sets its offset itself; that of a static variable is so every time.  *)
LocationsAreDwarf ==
    [][\A v \in DOMAIN stacks' :
        /\ IsStatic(v) => stacks'[v] = expression(v).n
        /\ v \notin DOMAIN stacks /\ IsOnFrame(v) /\ OffsetSetHere(fdes, pc) =>
               stacks'[v] = CfaOfDwarf(fdes, pc, regs) + expression(v).n]_vars

(* What the code has a case for: a location is one addr or fbreg, the       *)
(* latter of a variable directly in an entry whose frame base is the CFA;   *)
(* and every address of an entry with that frame base has a description     *)
(* whose program has no other instruction.                                  *)
Supported ==
    \A u \in DOMAIN debugInfo : \A i \in EntriesOf(u) :
        LET entry == debugInfo[u][i] IN
        /\ entry.location # Absent => entry.location.op \in {"addr", "fbreg"}
        /\ i # 1 /\ entry.location # Absent /\ entry.location.op = "fbreg" =>
              debugInfo[u][ParentOf(u, i)].frameBase = "call_frame_cfa"
        /\ entry.frameBase = "call_frame_cfa" =>
              \A a \in Addresses(entry) : FdesAt(fdes, a) # {} /\ CanRun(FdeAt(fdes, a))

(* Loading a supported program and listing its variables never ends the     *)
(* emulator, at any address of the program: a variable that needs a frame   *)
(* is listed only at addresses of its own function.  Outside the program    *)
(* getCompileUnitAtPc reads in front of the units (RenderOutside).          *)
NeverExits ==
    Supported => status = "running" \/ (status = "undefined" /\ UnitsAt(pc) = {})

(* Every well-formed .debug_info is parsed to its end, or to the unit with  *)
(* a list of locations, where the emulator exits.                           *)
ParsingEnds == <>(Parsed \/ status = "exited")
=============================================================================
