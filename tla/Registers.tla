----------------------------- MODULE Registers ------------------------------
(***************************************************************************)
(* Saving and loading registers: the macros of interrupts/idt_asm.asm, the *)
(* structure through which C code reads what they saved (registers_t in    *)
(* interrupts/syscall.h), and run_proc of proc/proc.c.                     *)
(*                                                                         *)
(* A stack is a sequence whose head is the top.                            *)
(***************************************************************************)
EXTENDS Integers, SequencesExt

High == <<"r8", "r9", "r10", "r11", "r12", "r13", "r14", "r15">>

\* The order in which PUSHALL pushes.
PUSHALL == <<"rax", "rbx", "rcx", "rdx", "rdi", "rsi", "rbp">> \o High

GeneralRegisters == Range(PUSHALL)

Pushed(stack, regs, order) ==
    FoldLeft(LAMBDA s, r : <<regs[r]>> \o s, stack, order)

\* Pop the top into each register of order in turn.
Popped(stack, regs, order) ==
    [r \in DOMAIN regs |->
        IF r \in Range(order)
        THEN stack[CHOOSE i \in DOMAIN order : order[i] = r]
        ELSE regs[r]]

\* Mutant: the frame pointer is restored last but one.
POPALLSwapped == <<"r15", "r14", "r13", "r12", "r11", "r10", "r9", "r8", "rsi",
                   "rbp", "rdi", "rdx", "rcx", "rbx", "rax">>

POPALL == <<"r15", "r14", "r13", "r12", "r11", "r10", "r9", "r8", "rbp",
            "rsi", "rdi", "rdx", "rcx", "rbx", "rax">>

\* Mutant: the fields in the order in which the registers are pushed.
registers_t_pushed == Reverse(PUSHALL)

\* The fields of registers_t, from the lowest address, which is the top of
\* the stack.  Five of them do not have the name of the register pushed there.
registers_t ==
    <<"r15", "r14", "r13", "r12", "r11", "rsi", "rbp", "r10", "r9", "r8",
      "rdi", "rdx", "rcx", "rbx", "rax">>

Field(stack, name) == stack[CHOOSE i \in DOMAIN registers_t : registers_t[i] = name]

\* run_proc pushes the registers of the process and pops them in the order in
\* which they were pushed.  rbp is loaded by a move.
RunOrder == <<"rax", "rbx", "rcx", "rdx", "rdi", "rsi">> \o High
RunRegisters(pcb, regs) ==
    [Popped(Pushed(<<>>, pcb, RunOrder), regs, RunOrder) EXCEPT !["rbp"] = pcb["rbp"]]
=============================================================================
