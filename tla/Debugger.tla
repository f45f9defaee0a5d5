------------------------------ MODULE Debugger ------------------------------
(***************************************************************************)
(* The source-level debugger: McuDebug and the part of Gui that drives it. *)
(* Gui::runApplication repeats frames: it calls executeInstructions,       *)
(* stepInstruction, stepLine or nothing, according to three flags, and     *)
(* then renders, which is when the user's click arrives (ImGui delivers at *)
(* most one per frame).                                                    *)
(*                                                                         *)
(* The guest is a parameter: Flow(a) are the addresses at which the        *)
(* instruction at a may leave the program counter, Traps(a) the traps that *)
(* an interrupt in front of it, or an exception of it, may take; and       *)
(* SourceOf(a) is the file and line the DWARF line table has for a, which  *)
(* it has for the first address of a row only.                             *)
(***************************************************************************)
EXTENDS Integers, Sequences, SequencesExt

CONSTANTS
    Pcs,                    \* the addresses of the guest's instructions
    EntryPc,
    Flow(_),
    Traps(_),               \* of a vector table entry and where that leads
    SourceOf(_),
    UserAddresses,          \* the addresses the user types for breakpoints
    UserRuns,               \* whether the user ever checks "Run"
    INSTRUCTIONS_PER_FRAME  \* 1000000 in the code

NoSource == [file |-> "", line |-> 0]
LineOf(a) == SourceOf(a).line
Files == {SourceOf(a).file : a \in Pcs} \ {""}
VectorTable == UNION {{t.vector : t \in Traps(a)} : a \in Pcs}

ASSUME DebuggerAssumption ==
    /\ EntryPc \in Pcs
    /\ \A a \in Pcs : Flow(a) \subseteq Pcs /\ Flow(a) # {}
    /\ \A a \in Pcs : Traps(a) \subseteq [vector : Pcs, next : Pcs]
    /\ Files # {}
    /\ \A a \in Pcs : SourceOf(a) \in [file : STRING, line : Nat]
    /\ \A a \in Pcs : IF LineOf(a) = 0 THEN SourceOf(a) = NoSource ELSE SourceOf(a).file # ""
    /\ UserRuns \in BOOLEAN
    /\ INSTRUCTIONS_PER_FRAME \in Nat \ {0}

VARIABLES
    phase,              \* where runApplication is
    pc,
    latestSourceLine,   \* the line the GUI highlights
    breakpoints,
    isRunEnabled, doStepI, doStep,
    cycles,             \* instructions left in executeInstructions
    startPc,            \* stepLine's local variable
    tab,                \* the file the GUI shows
    executed,           \* history: the addresses the last nextInstruction executed
    here                \* history: the last source position the guest was at

flags == <<isRunEnabled, doStepI, doStep>>
vars == <<phase, pc, latestSourceLine, breakpoints, flags, cycles, startPc, tab, executed, here>>

Init ==
    /\ phase = "frame"
    /\ pc = EntryPc
    /\ latestSourceLine = LineOf(EntryPc)
    /\ breakpoints = <<>>
    /\ isRunEnabled = FALSE /\ doStepI = FALSE /\ doStep = FALSE
    /\ cycles = 0
    /\ startPc = EntryPc
    /\ tab \in Files
    /\ executed = {}
    /\ here = SourceOf(EntryPc)

isBreakpoint(address) == address \in ToSet(breakpoints)

(* Mcu::nextInstruction, as far as the debugger can see.  The call that     *)
(* takes a trap goes on to execute the entry of the vector table.           *)
nextInstruction ==
    /\ \/ pc' \in Flow(pc) /\ executed' = {pc}
       \/ \E t \in Traps(pc) : pc' = t.next /\ executed' \in {{t.vector}, {pc, t.vector}}
    /\ here' = IF LineOf(pc') # 0 THEN SourceOf(pc') ELSE here

-----------------------------------------------------------------------------
(* The beginning of a frame.                                                *)

StartRun ==
    /\ phase = "frame" /\ isRunEnabled
    /\ phase' = "run"
    /\ cycles' = INSTRUCTIONS_PER_FRAME
    /\ UNCHANGED <<pc, latestSourceLine, breakpoints, flags, startPc, tab, executed, here>>

stepInstruction ==
    /\ phase = "frame" /\ ~ isRunEnabled /\ doStepI
    /\ nextInstruction
    /\ latestSourceLine' = IF LineOf(pc') # 0 THEN LineOf(pc') ELSE latestSourceLine
    /\ phase' = "render"
    /\ UNCHANGED <<breakpoints, flags, cycles, startPc, tab>>

StartStepLine ==
    /\ phase = "frame" /\ ~ isRunEnabled /\ ~ doStepI /\ doStep
    /\ startPc' = pc
    /\ phase' = "line"
    /\ UNCHANGED <<pc, latestSourceLine, breakpoints, flags, cycles, tab, executed, here>>

Pause ==
    /\ phase = "frame" /\ ~ isRunEnabled /\ ~ doStepI /\ ~ doStep
    /\ phase' = "render"
    /\ UNCHANGED <<pc, latestSourceLine, breakpoints, flags, cycles, startPc, tab, executed, here>>

-----------------------------------------------------------------------------
(* The loops of McuDebug.                                                   *)

BugRunForgetsCycles ==
    /\ phase = "run" /\ cycles > 0 /\ ~ isBreakpoint(pc)
    /\ nextInstruction
    /\ UNCHANGED <<phase, cycles, latestSourceLine, breakpoints, flags, startPc, tab>>

BugRunFirst ==
    /\ phase = "run" /\ cycles > 0
    /\ cycles = INSTRUCTIONS_PER_FRAME \/ ~ isBreakpoint(pc)
    /\ nextInstruction
    /\ cycles' = cycles - 1
    /\ UNCHANGED <<phase, latestSourceLine, breakpoints, flags, startPc, tab>>

(* One iteration of executeInstructions.                                    *)
RunInstruction ==
    /\ phase = "run" /\ cycles > 0 /\ ~ isBreakpoint(pc)
    /\ nextInstruction
    /\ cycles' = cycles - 1
    /\ UNCHANGED <<phase, latestSourceLine, breakpoints, flags, startPc, tab>>

RunReturns ==
    /\ phase = "run" /\ (cycles = 0 \/ isBreakpoint(pc))
    /\ phase' = "render"
    /\ cycles' = 0
    /\ UNCHANGED <<pc, latestSourceLine, breakpoints, flags, startPc, tab, executed, here>>

BugLoopsOn(curPc) == LineOf(curPc) = latestSourceLine /\ startPc # curPc

(* The condition of stepLine's do-while loop.                               *)
LoopsOn(curPc) == LineOf(curPc) \in {0, latestSourceLine} /\ startPc # curPc

BugForgetsLine ==
    /\ phase = "line"
    /\ nextInstruction
    /\ phase' = IF LoopsOn(pc') THEN phase ELSE "render"
    /\ UNCHANGED <<latestSourceLine, breakpoints, flags, cycles, startPc, tab>>

(* One iteration of stepLine.                                               *)
StepLineInstruction ==
    /\ phase = "line"
    /\ nextInstruction
    /\ IF LoopsOn(pc')
       THEN UNCHANGED <<phase, latestSourceLine>>
       ELSE phase' = "render" /\ latestSourceLine' = LineOf(pc')
    /\ UNCHANGED <<breakpoints, flags, cycles, startPc, tab>>

-----------------------------------------------------------------------------
(* Rendering and the user's click.                                          *)

BugAlwaysAppends(address) == breakpoints' = Append(breakpoints, address)

addBreakpoint(address) ==
    breakpoints' = IF isBreakpoint(address) THEN breakpoints
                   ELSE Append(breakpoints, address)

(* The place of the first occurrence.                                       *)
PlaceOf(address) == SelectInSeq(breakpoints, LAMBDA b : b = address)

removeBreakpoint(address) ==
    breakpoints' = IF isBreakpoint(address) THEN RemoveAt(breakpoints, PlaceOf(address))
                   ELSE breakpoints

(* Not the code: only the button "step" scrolls.                            *)
BugDoScroll == doStep

doScroll == doStep \/ doStepI

(* renderDebugSource: the frame after a click on a step button goes to the  *)
(* file of the program counter, if that is at a row of the line table.      *)
renderDebugSource ==
    tab' = IF doScroll /\ LineOf(pc) # 0 THEN SourceOf(pc).file ELSE tab

(* renderDisassembledCodeSection, renderDebugSource and renderControlPanel, *)
(* which resets the step flags on every frame without a click on their      *)
(* buttons.  The user goes to another tab when none is being selected.      *)
Render ==
    /\ phase = "render"
    /\ \/ /\ ~ doScroll
          /\ tab' \in Files
          /\ doStepI' = FALSE /\ doStep' = FALSE
          /\ UNCHANGED <<breakpoints, isRunEnabled>>
       \/ /\ renderDebugSource
          /\ \E address \in UserAddresses :
                addBreakpoint(address) \/ removeBreakpoint(address)
          /\ doStepI' = FALSE /\ doStep' = FALSE
          /\ UNCHANGED isRunEnabled
       \/ /\ renderDebugSource
          /\ doStepI' \in BOOLEAN /\ doStep' \in BOOLEAN /\ ~ (doStepI' /\ doStep')
          /\ UNCHANGED <<breakpoints, isRunEnabled>>
       \/ /\ UserRuns
          /\ renderDebugSource
          /\ isRunEnabled' = ~ isRunEnabled
          /\ doStepI' = FALSE /\ doStep' = FALSE
          /\ UNCHANGED breakpoints
    /\ phase' = "frame"
    /\ UNCHANGED <<pc, latestSourceLine, cycles, startPc, executed, here>>

Next ==
    \/ StartRun \/ stepInstruction \/ StartStepLine \/ Pause
    \/ RunInstruction \/ RunReturns \/ StepLineInstruction
    \/ Render

Spec == Init /\ [][Next]_vars

(* One thread; every call it makes returns.                                 *)
FairSpec == Spec /\ WF_vars(Next)

-----------------------------------------------------------------------------
(* Properties.                                                              *)

TypeOK ==
    /\ phase \in {"frame", "run", "line", "render"}
    /\ pc \in Pcs /\ startPc \in Pcs
    /\ latestSourceLine \in {LineOf(a) : a \in Pcs}
    /\ breakpoints \in Seq(UserAddresses) /\ IsInjective(breakpoints)
    /\ isRunEnabled \in BOOLEAN /\ doStepI \in BOOLEAN /\ doStep \in BOOLEAN
    /\ cycles \in 0 .. INSTRUCTIONS_PER_FRAME
    /\ here \in {SourceOf(a) : a \in Pcs}
    /\ tab \in Files /\ executed \subseteq Pcs

(* No instruction with a breakpoint is executed while running, frame after  *)
(* frame, traps and edits of the breakpoints between frames included, but   *)
(* the entry of the vector table, which the call that takes a trap executes *)
(* before anyone looks for breakpoints again.                               *)
RunHaltsAtBreakpoints ==
    [][phase = "run" /\ cycles' < cycles /\ phase' = phase =>
        \A a \in executed' \ VectorTable : ~ isBreakpoint(a)]_vars

(* After a step of either kind, at an address that begins a line, the GUI   *)
(* highlights that line, in the file it is in, whichever file the user had  *)
(* looked at; unless Run is checked at the same time, which takes           *)
(* precedence over the step and leaves the old line.                        *)
SteppedIsShown ==
    [][phase = "render" /\ (doStep \/ doStepI) /\ ~ isRunEnabled /\ LineOf(pc) # 0 =>
        SourceOf(pc) = [file |-> tab', line |-> latestSourceLine']]_vars

(* remove takes the breakpoint away however often set was clicked.          *)
RemovedIsGone ==
    [][\A address \in UserAddresses :
        phase = "render" /\ removeBreakpoint(address) /\ breakpoints' # breakpoints =>
            ~ isBreakpoint(address)']_vars

(* The highlighted line is the one the guest is on, or none (stepLine       *)
(* leaves none when it ends because the program counter repeats inside a    *)
(* row of the line table), until Run is used: no click, step or pause       *)
(* loses it, so the next step starts from the line the user sees.           *)
Highlighted == latestSourceLine \in {0, here.line}

OnlyRunLosesTheLine == [][phase # "run" /\ Highlighted => Highlighted']_vars

(* stepLine: "Keep executing instructions until current line changes Or if  *)
(* pc repeats when stepping through a for loop".  A step that starts on the *)
(* line that is highlighted goes on only while the guest is on a line of    *)
(* that number, and ends at one of another number, or at startPc.  (Numbers *)
(* are all it compares: from line 2 of one file it goes on into line 2 of   *)
(* another.  After Run it may start on another line than is highlighted.)   *)
LineStep == IF phase' = "line" THEN here'.line = here.line
            ELSE here'.line # here.line \/ pc' = startPc

HighlightedStepIsOneLine ==
    [][phase = "line" /\ latestSourceLine = here.line => LineStep]_vars

(* A frame in which Run is checked ends, so that the GUI can be used.       *)
RunReturnsToGui == phase = "run" ~> phase = "render"

(* So does a frame with a step, in particular when stepping through a loop. *)
StepReturnsToGui == phase = "line" ~> phase = "render"
=============================================================================
