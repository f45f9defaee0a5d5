--------------------------- MODULE DebuggerProofs ---------------------------
(***************************************************************************)
(* Proofs about the debugger for every guest, every line table, any set of *)
(* addresses for breakpoints and any number of instructions per frame.     *)
(***************************************************************************)
EXTENDS Debugger, Induction, SequenceTheorems

(* removeBreakpoint's search returns a place where the address is.          *)
LEMMA SearchFinds ==
    ASSUME breakpoints \in Seq(UserAddresses), NEW address, isBreakpoint(address)
    PROVE  /\ PlaceOf(address) \in 1 .. Len(breakpoints)
           /\ breakpoints[PlaceOf(address)] = address
<1> DEFINE I == {i \in 1 .. Len(breakpoints) : breakpoints[i] = address}
<1>1. I \in SUBSET Nat /\ I # {}
  BY DEF isBreakpoint, ToSet
<1>2. \E x \in I : \A y \in I : x <= y
  BY <1>1, LeastElement
<1>3. Min(I) \in I
  BY <1>2 DEF Min
<1>4. PlaceOf(address) = Min(I)
  BY <1>1 DEF PlaceOf, SelectInSeq
<1> QED
  BY <1>3, <1>4

(* What is left when one place is taken out.                                *)
LEMMA Removed ==
    ASSUME NEW s \in Seq(UserAddresses), NEW i \in 1 .. Len(s)
    PROVE  /\ RemoveAt(s, i) \in Seq(UserAddresses)
           /\ Len(RemoveAt(s, i)) = Len(s) - 1
           /\ \A j \in 1 .. Len(s) - 1 :
                RemoveAt(s, i)[j] = IF j < i THEN s[j] ELSE s[j + 1]
<1> DEFINE front == SubSeq(s, 1, i - 1)
           back == SubSeq(s, i + 1, Len(s))
<1>1. Len(s) \in Nat /\ \A j \in 1 .. Len(s) : s[j] \in UserAddresses
  BY LenProperties
<1>2. /\ front \in Seq(UserAddresses)
      /\ Len(front) = i - 1
      /\ \A j \in 1 .. i - 1 : front[j] = s[j]
  BY <1>1, SubSeqProperties
<1>3. /\ back \in Seq(UserAddresses)
      /\ Len(back) = Len(s) - i
      /\ \A j \in 1 .. Len(s) - i : back[j] = s[i + j]
  BY <1>1, SubSeqProperties
<1> HIDE DEF front, back
<1>4. /\ front \o back \in Seq(UserAddresses)
      /\ Len(front \o back) = Len(s) - 1
      /\ \A j \in 1 .. Len(s) - 1 :
            (front \o back)[j] = IF j <= i - 1 THEN front[j] ELSE back[j - (i - 1)]
  <2>1. /\ front \o back \in Seq(UserAddresses)
        /\ Len(front \o back) = Len(front) + Len(back)
        /\ \A j \in 1 .. Len(front) + Len(back) :
              (front \o back)[j] = IF j <= Len(front) THEN front[j] ELSE back[j - Len(front)]
    BY <1>2, <1>3, ConcatProperties
  <2>2. Len(front) = i - 1 /\ Len(front) + Len(back) = Len(s) - 1
    BY <1>1, <1>2, <1>3
  <2> QED
    BY <2>1, <2>2
<1>5. \A j \in 1 .. Len(s) - 1 :
         (front \o back)[j] = IF j < i THEN s[j] ELSE s[j + 1]
  <2> TAKE j \in 1 .. Len(s) - 1
  <2>1. CASE j < i
    <3>1. j \in 1 .. i - 1 /\ j <= i - 1
      BY <1>1, <2>1
    <3> QED
      BY <1>2, <1>4, <2>1, <3>1
  <2>2. CASE j >= i
    <3>1. j - (i - 1) \in 1 .. Len(s) - i /\ ~ (j <= i - 1) /\ ~ (j < i)
      BY <1>1, <2>2
    <3>2. i + (j - (i - 1)) = j + 1
      BY <1>1
    <3> QED
      BY <1>3, <1>4, <3>1, <3>2
  <2>3. j < i \/ j >= i
    BY <1>1
  <2> QED
    BY <2>1, <2>2, <2>3
<1> QED
  BY <1>4, <1>5 DEF RemoveAt, front, back

(* No breakpoint is there twice, and removing one leaves none.              *)
LEMMA RemovedInjective ==
    ASSUME NEW s \in Seq(UserAddresses), IsInjective(s), NEW i \in 1 .. Len(s)
    PROVE  IsInjective(RemoveAt(s, i)) /\ s[i] \notin ToSet(RemoveAt(s, i))
<1> DEFINE t == RemoveAt(s, i)
           From(j) == IF j < i THEN j ELSE j + 1
<1>1. t \in Seq(UserAddresses) /\ Len(t) = Len(s) - 1 /\ Len(s) \in Nat
  BY Removed
<1>2. DOMAIN t = 1 .. Len(s) - 1 /\ DOMAIN s = 1 .. Len(s)
  BY <1>1
<1>3. \A j \in 1 .. Len(s) - 1 : t[j] = s[From(j)] /\ From(j) \in 1 .. Len(s) /\ From(j) # i
  <2>1. \A j \in 1 .. Len(s) - 1 : t[j] = s[From(j)]
    BY Removed
  <2>2. \A j \in 1 .. Len(s) - 1 : From(j) \in 1 .. Len(s) /\ From(j) # i
    BY <1>1
  <2> QED
    BY <2>1, <2>2
<1>4. \A j, k \in 1 .. Len(s) - 1 : From(j) = From(k) => j = k
  BY <1>1
<1> HIDE DEF t, From
<1>5. IsInjective(t)
  BY <1>2, <1>3, <1>4 DEF IsInjective
<1>6. s[i] \notin ToSet(t)
  <2>1. \A j \in DOMAIN t : t[j] # s[i]
    BY <1>2, <1>3 DEF IsInjective
  <2> QED
    BY <2>1 DEF ToSet
<1> QED
  BY <1>5, <1>6 DEF t

-----------------------------------------------------------------------------
(* What SteppedIsShown rests on: the flags say which loop is running, and   *)
(* the line is that of the program counter when a step is drawn.            *)
StepIsDrawn ==
    /\ phase = "run" => isRunEnabled
    /\ phase = "render" /\ (doStep \/ doStepI) /\ ~ isRunEnabled /\ LineOf(pc) # 0 =>
            latestSourceLine = LineOf(pc)

IInv == TypeOK /\ StepIsDrawn

(* The guest stays in its code, and its source position in the line table.  *)
LEMMA nextInstructionType ==
    ASSUME TypeOK, nextInstruction
    PROVE  /\ pc' \in Pcs
           /\ here' \in {SourceOf(a) : a \in Pcs}
           /\ executed' \subseteq Pcs
           /\ executed' \ VectorTable \subseteq {pc}
<1>1. pc \in Pcs
  BY DEF TypeOK
<1> DEFINE Stays == /\ pc' \in Pcs /\ executed' \subseteq Pcs
                    /\ executed' \ VectorTable \subseteq {pc}
<1>2. ASSUME pc' \in Flow(pc), executed' = {pc}
      PROVE  Stays
  BY <1>1, <1>2, DebuggerAssumption
<1>3. ASSUME \E t \in Traps(pc) : pc' = t.next /\ executed' \in {{t.vector}, {pc, t.vector}}
      PROVE  Stays
  <2>1. PICK t \in Traps(pc) : pc' = t.next /\ executed' \in {{t.vector}, {pc, t.vector}}
    BY <1>3
  <2>2. t \in [vector : Pcs, next : Pcs]
    BY <1>1, <2>1, DebuggerAssumption
  <2>3. t.vector \in VectorTable
    BY <1>1, <2>1 DEF VectorTable
  <2> QED
    BY <1>1, <2>1, <2>2, <2>3
<1>4. Stays
  BY <1>2, <1>3 DEF nextInstruction
<1>5. here' \in {SourceOf(a) : a \in Pcs}
  BY <1>4 DEF nextInstruction, TypeOK
<1> QED
  BY <1>4, <1>5

(* The two buttons keep the list of breakpoints free of repetitions.        *)
LEMMA breakpointsType ==
    ASSUME TypeOK, NEW address \in UserAddresses,
           addBreakpoint(address) \/ removeBreakpoint(address)
    PROVE  breakpoints' \in Seq(UserAddresses) /\ IsInjective(breakpoints')
<1>1. breakpoints \in Seq(UserAddresses) /\ IsInjective(breakpoints)
  BY DEF TypeOK
<1>2. CASE breakpoints' = breakpoints
  BY <1>1, <1>2
<1>3. CASE ~ isBreakpoint(address) /\ breakpoints' = Append(breakpoints, address)
  <2> DEFINE t == Append(breakpoints, address)
  <2>1. /\ t \in Seq(UserAddresses)
        /\ Len(t) = Len(breakpoints) + 1
        /\ \A i \in 1 .. Len(breakpoints) : t[i] = breakpoints[i]
        /\ t[Len(breakpoints) + 1] = address
    BY <1>1, AppendProperties
  <2>2. Len(breakpoints) \in Nat /\ DOMAIN breakpoints = 1 .. Len(breakpoints)
        /\ DOMAIN t = 1 .. Len(breakpoints) + 1
    BY <1>1, <2>1, LenProperties
  <2> HIDE DEF t
  <2>3. \A i \in 1 .. Len(breakpoints) : t[i] # address
    BY <1>3, <2>1, <2>2 DEF isBreakpoint, ToSet
  <2>4. \A i \in DOMAIN t : i \in 1 .. Len(breakpoints) \/ i = Len(breakpoints) + 1
    BY <2>2
  <2>5. IsInjective(t)
    BY <1>1, <2>1, <2>2, <2>3, <2>4 DEF IsInjective
  <2> QED
    BY <1>3, <2>1, <2>5 DEF t
<1>4. CASE /\ isBreakpoint(address)
           /\ breakpoints' = RemoveAt(breakpoints, PlaceOf(address))
  <2>1. PlaceOf(address) \in 1 .. Len(breakpoints)
    BY <1>1, <1>4, SearchFinds
  <2> QED
    BY <1>1, <1>4, <2>1, Removed, RemovedInjective
<1> QED
  BY <1>2, <1>3, <1>4 DEF addBreakpoint, removeBreakpoint

LEMMA InitIInv == Init => IInv
<1> SUFFICES ASSUME Init PROVE IInv
  OBVIOUS
<1>1. breakpoints \in Seq(UserAddresses) /\ IsInjective(breakpoints)
  BY EmptySeq DEF Init, IsInjective
<1>2. EntryPc \in Pcs /\ INSTRUCTIONS_PER_FRAME \in Nat
  BY DebuggerAssumption
<1>3. TypeOK
  <2>1. /\ LineOf(EntryPc) \in {LineOf(a) : a \in Pcs}
        /\ SourceOf(EntryPc) \in {SourceOf(a) : a \in Pcs}
        /\ 0 \in 0 .. INSTRUCTIONS_PER_FRAME
    BY <1>2
  <2>2. phase \in {"frame", "run", "line", "render"} /\ pc \in Pcs /\ startPc \in Pcs
    BY <1>2 DEF Init
  <2> QED
    BY <1>1, <2>1, <2>2 DEF Init, TypeOK
<1>4. StepIsDrawn
  BY DEF Init, StepIsDrawn
<1> QED
  BY <1>3, <1>4 DEF IInv

LEMMA NextIInv == IInv /\ [Next]_vars => IInv'
<1> SUFFICES ASSUME TypeOK, StepIsDrawn, [Next]_vars PROVE TypeOK' /\ StepIsDrawn'
  BY DEF IInv
<1> USE DEF flags, vars
<1>1. INSTRUCTIONS_PER_FRAME \in Nat \ {0}
  BY DebuggerAssumption
<1>2. CASE StartRun
  BY <1>1, <1>2 DEF StartRun, TypeOK, StepIsDrawn
<1>3. CASE stepInstruction
  <2>1. pc' \in Pcs /\ here' \in {SourceOf(a) : a \in Pcs} /\ executed' \subseteq Pcs
    BY <1>3, nextInstructionType DEF stepInstruction
  <2>2. TypeOK'
    BY <1>3, <2>1 DEF stepInstruction, TypeOK
  <2>3. StepIsDrawn'
    BY <1>3 DEF stepInstruction, StepIsDrawn
  <2> QED
    BY <2>2, <2>3
<1>4. CASE StartStepLine
  BY <1>4 DEF StartStepLine, TypeOK, StepIsDrawn
<1>5. CASE Pause
  BY <1>5 DEF Pause, TypeOK, StepIsDrawn
<1>6. CASE RunInstruction
  <2>1. pc' \in Pcs /\ here' \in {SourceOf(a) : a \in Pcs} /\ executed' \subseteq Pcs
    BY <1>6, nextInstructionType DEF RunInstruction
  <2>2. cycles' \in 0 .. INSTRUCTIONS_PER_FRAME
    BY <1>1, <1>6 DEF RunInstruction, TypeOK
  <2>3. TypeOK'
    BY <1>6, <2>1, <2>2 DEF RunInstruction, TypeOK
  <2>4. StepIsDrawn'
    BY <1>6 DEF RunInstruction, StepIsDrawn
  <2> QED
    BY <2>3, <2>4
<1>7. CASE RunReturns
  BY <1>1, <1>7 DEF RunReturns, TypeOK, StepIsDrawn
<1>8. CASE StepLineInstruction
  <2>1. pc' \in Pcs /\ here' \in {SourceOf(a) : a \in Pcs} /\ executed' \subseteq Pcs
    BY <1>8, nextInstructionType DEF StepLineInstruction
  <2>2. TypeOK'
    BY <1>8, <2>1 DEF StepLineInstruction, TypeOK
  <2>3. StepIsDrawn'
    BY <1>8 DEF StepLineInstruction, StepIsDrawn
  <2> QED
    BY <2>2, <2>3
<1>9. CASE Render
  <2>1. breakpoints' \in Seq(UserAddresses) /\ IsInjective(breakpoints')
    <3>1. CASE breakpoints' = breakpoints
      BY <3>1 DEF TypeOK
    <3>2. CASE \E address \in UserAddresses :
                  addBreakpoint(address) \/ removeBreakpoint(address)
      BY <3>2, breakpointsType
    <3> QED
      BY <1>9, <3>1, <3>2 DEF Render
  <2>2. tab' \in Files
    <3>1. LineOf(pc) # 0 => SourceOf(pc).file \in Files
      BY DebuggerAssumption DEF TypeOK, Files
    <3> QED
      BY <1>9, <3>1 DEF Render, renderDebugSource, TypeOK
  <2>3. isRunEnabled' \in BOOLEAN /\ doStepI' \in BOOLEAN /\ doStep' \in BOOLEAN
    BY <1>9 DEF Render, TypeOK
  <2>4. TypeOK'
    BY <1>9, <2>1, <2>2, <2>3 DEF Render, TypeOK
  <2>5. StepIsDrawn'
    BY <1>9 DEF Render, StepIsDrawn
  <2> QED
    BY <2>4, <2>5
<1>10. CASE UNCHANGED vars
  BY <1>10 DEF TypeOK, StepIsDrawn
<1> QED
  BY <1>2, <1>3, <1>4, <1>5, <1>6, <1>7, <1>8, <1>9, <1>10 DEF Next

-----------------------------------------------------------------------------
LEMMA Inductive == Spec => []IInv
BY InitIInv, NextIInv, PTL DEF Spec

(* The flags, the position in the guest, the highlighted line and the list  *)
(* of breakpoints stay what the debugger takes them to be: the guest's      *)
(* addresses, lines of the table, and no breakpoint twice.                  *)
THEOREM DebuggerTypeCorrect == Spec => []TypeOK
<1>1. IInv => TypeOK
  BY DEF IInv
<1> QED
  BY <1>1, Inductive, PTL

(* executeInstructions never executes an instruction with a breakpoint but  *)
(* the entry of the vector table, whatever the guest does and however long  *)
(* a frame is.                                                              *)
THEOREM RunHaltsThm == Spec => RunHaltsAtBreakpoints
<1> DEFINE Halts == phase = "run" /\ cycles' < cycles /\ phase' = phase =>
                        \A a \in executed' \ VectorTable : ~ isBreakpoint(a)
<1>1. IInv /\ [Next]_vars => [Halts]_vars
  <2> SUFFICES ASSUME TypeOK, Next, phase = "run", phase' = phase
               PROVE  \A a \in executed' \ VectorTable : ~ isBreakpoint(a)
    BY DEF IInv
  <2>1. RunInstruction
    BY DEF Next, StartRun, stepInstruction, StartStepLine, Pause, RunReturns,
           StepLineInstruction, Render
  <2>2. executed' \ VectorTable \subseteq {pc}
    BY <2>1, nextInstructionType DEF RunInstruction
  <2> QED
    BY <2>1, <2>2 DEF RunInstruction
<1> QED
  BY <1>1, Inductive, PTL DEF Spec, RunHaltsAtBreakpoints

(* The frame after a step shows the file and the line of the program        *)
(* counter, whatever was shown before: the two are set by different parts   *)
(* of the program, renderDebugSource and McuDebug.                          *)
THEOREM SteppedIsShownThm == Spec => SteppedIsShown
<1> DEFINE Shown == phase = "render" /\ (doStep \/ doStepI) /\ ~ isRunEnabled /\ LineOf(pc) # 0 =>
                        SourceOf(pc) = [file |-> tab', line |-> latestSourceLine']
<1>1. IInv /\ [Next]_vars => [Shown]_vars
  <2> SUFFICES ASSUME TypeOK, StepIsDrawn, Next,
                      phase = "render", doStep \/ doStepI, ~ isRunEnabled, LineOf(pc) # 0
               PROVE  SourceOf(pc) = [file |-> tab', line |-> latestSourceLine']
    BY DEF IInv
  <2>1. Render
    BY DEF Next, StartRun, stepInstruction, StartStepLine, Pause, RunInstruction,
           RunReturns, StepLineInstruction
  <2>2. tab' = SourceOf(pc).file
    BY <2>1 DEF Render, renderDebugSource, doScroll
  <2>3. latestSourceLine' = SourceOf(pc).line
    BY <2>1 DEF Render, StepIsDrawn, LineOf
  <2>4. SourceOf(pc) \in [file : STRING, line : Nat]
    BY DebuggerAssumption DEF TypeOK
  <2> QED
    BY <2>2, <2>3, <2>4
<1> QED
  BY <1>1, Inductive, PTL DEF Spec, SteppedIsShown

(* "remove" removes a breakpoint for good, though it erases one element of  *)
(* the list only.                                                           *)
THEOREM RemovedIsGoneThm == Spec => RemovedIsGone
<1> DEFINE Gone == \A address \in UserAddresses :
                phase = "render" /\ removeBreakpoint(address) /\ breakpoints' # breakpoints =>
                    ~ isBreakpoint(address)'
<1>1. IInv /\ [Next]_vars => [Gone]_vars
  <2> SUFFICES ASSUME TypeOK, NEW address \in UserAddresses,
                      removeBreakpoint(address), breakpoints' # breakpoints
               PROVE  ~ isBreakpoint(address)'
    BY DEF IInv
  <2>1. isBreakpoint(address) /\ breakpoints' = RemoveAt(breakpoints, PlaceOf(address))
    BY DEF removeBreakpoint
  <2>2. breakpoints \in Seq(UserAddresses) /\ IsInjective(breakpoints)
    BY DEF TypeOK
  <2>3. /\ PlaceOf(address) \in 1 .. Len(breakpoints)
        /\ breakpoints[PlaceOf(address)] = address
    BY <2>1, <2>2, SearchFinds
  <2>4. address \notin ToSet(RemoveAt(breakpoints, PlaceOf(address)))
    BY <2>2, <2>3, RemovedInjective
  <2> QED
    BY <2>1, <2>4 DEF isBreakpoint
<1> QED
  BY <1>1, Inductive, PTL DEF Spec, RemovedIsGone

(* Whatever the user clicks but Run, the line that is highlighted stays the *)
(* one the guest is on, or none, however instruction and line steps         *)
(* alternate.                                                               *)
THEOREM OnlyRunLosesTheLineThm == Spec => OnlyRunLosesTheLine
<1>1. [Next]_vars => [phase # "run" /\ Highlighted => Highlighted']_vars
  <2> SUFFICES ASSUME Next, phase # "run", Highlighted
               PROVE  Highlighted'
    OBVIOUS
  <2>1. CASE UNCHANGED <<latestSourceLine, here>>
    BY <2>1 DEF Highlighted
  <2>2. CASE stepInstruction
    BY <2>2 DEF stepInstruction, nextInstruction, LineOf, Highlighted
  <2>3. CASE StepLineInstruction
    BY <2>3 DEF StepLineInstruction, LoopsOn, nextInstruction, LineOf, Highlighted
  <2> QED
    BY <2>1, <2>2, <2>3
       DEF Next, StartRun, StartStepLine, Pause, RunInstruction, RunReturns, Render
<1> QED
  BY <1>1, PTL DEF Spec, OnlyRunLosesTheLine

(* A step goes on only while the guest is on a line of the highlighted      *)
(* number, and ends at another one or where it started, in every program,   *)
(* whatever files it has.                                                   *)
THEOREM StepIsOneLineThm == Spec => HighlightedStepIsOneLine
<1> DEFINE OneLine == phase = "line" /\ latestSourceLine = here.line => LineStep
<1>1. IInv /\ [Next]_vars => [OneLine]_vars
  <2> SUFFICES ASSUME TypeOK, Next, phase = "line", latestSourceLine = here.line
               PROVE  LineStep
    BY DEF IInv
  <2>1. StepLineInstruction
    BY DEF Next, StartRun, stepInstruction, StartStepLine, Pause, RunInstruction,
           RunReturns, Render
  <2>2. nextInstruction
    BY <2>1 DEF StepLineInstruction
  <2>3. CASE LoopsOn(pc')
    <3>1. LineOf(pc') = 0 \/ LineOf(pc') = here.line
      BY <2>3 DEF LoopsOn
    <3>2. here'.line = here.line
      BY <2>2, <3>1 DEF nextInstruction, LineOf
    <3> QED
      BY <2>1, <2>3, <3>2 DEF StepLineInstruction, LineStep
  <2>4. CASE ~ LoopsOn(pc')
    <3>1. phase' = "render"
      BY <2>1, <2>4 DEF StepLineInstruction
    <3>2. CASE startPc = pc'
      BY <2>1, <3>1, <3>2 DEF StepLineInstruction, LineStep
    <3>3. CASE LineOf(pc') # 0 /\ LineOf(pc') # latestSourceLine
      <4>1. here' = SourceOf(pc')
        BY <2>2, <3>3 DEF nextInstruction
      <4> QED
        BY <3>1, <3>3, <4>1 DEF LineStep, LineOf
    <3> QED
      BY <2>4, <3>2, <3>3 DEF LoopsOn
  <2> QED
    BY <2>3, <2>4
<1> QED
  BY <1>1, Inductive, PTL DEF Spec, HighlightedStepIsOneLine
=============================================================================
