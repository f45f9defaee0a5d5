----------------------------- MODULE GuestView ------------------------------
(***************************************************************************)
(* What a guest program is promised: a machine that executes its           *)
(* instructions one after the other, each exactly once, with nothing in    *)
(* between.  There are no interrupts and no second copy of the program     *)
(* counter here; the program sees its own registers only.  What it may     *)
(* read that is not its own (memory, CSRs, the clock) is left open.  A     *)
(* handler may keep the processor for good: the program is then abandoned, *)
(* and its registers with it.                                              *)
(***************************************************************************)
EXTENDS Integers

CONSTANTS
    Registers,          \* the registers the program uses
    Program,            \* the instructions it may have, by address
    Entry,              \* where it starts
    Abandoned,          \* no address: the program will not go on
    Results(_, _, _),   \* Results(ins, pc, regs): what the registers may be after ins
    Target(_, _, _)     \* Target(ins, pc, regs): the address after ins

VARIABLES pc, regs

Init == pc = Entry /\ regs = [r \in Registers |-> 0]

Step ==
    /\ pc \in DOMAIN Program
    /\ \E ins \in Program[pc] :
          /\ regs' \in Results(ins, pc, regs)
          /\ pc' = Target(ins, pc, regs)

Abandon ==
    /\ pc \in DOMAIN Program
    /\ pc' = Abandoned /\ regs' = [r \in Registers |-> 0]

Next == Step \/ Abandon

Spec == Init /\ [][Next]_<<pc, regs>>
FairSpec == Spec /\ WF_<<pc, regs>>(Step)
=============================================================================
