---------------------------- MODULE McuNesting ------------------------------
(***************************************************************************)
(* Traps and their returns.  A history variable remembers, for every trap  *)
(* that has not returned yet, whether interrupts were enabled when it was  *)
(* taken, so that what mret restores can be compared with what takeTrap    *)
(* found.  A guest that writes mstatus takes over: its history is dropped. *)
(***************************************************************************)
EXTENDS Mcu

CONSTANT MaxDepth   \* unreturned traps remembered; of more, the oldest is forgotten

ASSUME MaxDepthAssumption == MaxDepth \in Nat \ {0}

VARIABLE enabledAt  \* MIE at each unreturned trap, innermost last

nvars == <<vars, enabledAt>>

NestingInit == Init /\ enabledAt = << >>

TrapTaken == TakeInterrupt \/ TakeException
TrapReturned == \E ins \in Code(pc) : Mret(ins)
GuestWritesMstatus ==
    \E ins \in Code(pc) : ins.csr = "mstatus" /\ (Csrrw(ins) \/ Csrrs(ins) \/ Csrrc(ins))

EnterTrap ==
    /\ TrapTaken
    /\ enabledAt' = Append(IF Len(enabledAt) < MaxDepth THEN enabledAt
                           ELSE Tail(enabledAt), getMie)

ReturnFromTrap ==
    /\ TrapReturned
    /\ enabledAt' = IF enabledAt = << >> THEN << >>
                    ELSE SubSeq(enabledAt, 1, Len(enabledAt) - 1)

TakeOver == GuestWritesMstatus /\ enabledAt' = << >>

Otherwise ==
    /\ Next
    /\ ~ TrapTaken /\ ~ TrapReturned /\ ~ GuestWritesMstatus
    /\ UNCHANGED enabledAt

NestingNext == EnterTrap \/ ReturnFromTrap \/ TakeOver \/ Otherwise

NestingSpec == NestingInit /\ [][NestingNext]_nvars
NestingFairSpec == NestingSpec /\ WF_vars(Next)     \* as Mcu!FairSpec

(* An mret that ends a trap of this history.                                *)
Returning == enabledAt # << >> /\ TrapReturned

(* takeTrap saves an enabled MIE and mret gives it back, however many traps *)
(* were taken and returned from in between: interrupts are never lost.      *)
EnabledIsRestored ==
    [][Returning /\ enabledAt[Len(enabledAt)] => getMie']_nvars

(* While a trap that found interrupts enabled is unreturned, MPIE keeps     *)
(* that fact through every nested trap and return.                          *)
MpieRemembers == (\E i \in DOMAIN enabledAt : enabledAt[i]) => getMpie

(* "Restore MIE field from MPIE" (Mcu.cpp): when the handler of a trap that *)
(* was taken with interrupts enabled traps itself, with interrupts          *)
(* disabled, the mret of that inner trap goes back into the handler and     *)
(* leaves them disabled.                                                    *)
InnerReturn ==
    /\ Returning
    /\ Len(enabledAt) > 1
    /\ enabledAt[Len(enabledAt) - 1] /\ ~ enabledAt[Len(enabledAt)]
DisabledIsRestored == [][InnerReturn => ~ getMie']_nvars
=============================================================================
