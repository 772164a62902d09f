----------------------------- MODULE Descriptors ----------------------------
(***************************************************************************)
(* Segment, task state and interrupt descriptors: the tables that gdt.c    *)
(* and idt.c fill in, and how the processor reads them.                    *)
(*                                                                         *)
(* An address is a sequence of eight bytes, the lowest first; the bytes    *)
(* are opaque, so a descriptor shows whether each got to its place.        *)
(***************************************************************************)
EXTENDS Integers, Sequences

Bit(n, k) == (n \div 2 ^ k) % 2

-----------------------------------------------------------------------------
(* gdt.c *)

\* Bases are zero.  Limits are not looked at in long mode.
Segment(access, limit_and_flags) ==
    [access |-> access, limit_and_flags |-> limit_and_flags]

\* initialize_gdt: null, 16-bit code and data, 32-bit code and data, 64-bit
\* kernel code and data, 64-bit user code and data.
segments ==
    <<Segment(0, 0), Segment(154, 128), Segment(154, 128),
      Segment(154, 207), Segment(146, 207),
      Segment(154, 162), Segment(146, 160),
      Segment(250, 32), Segment(242, 0)>>

set_tss_entry(base, flags, access) ==
    [length |-> 104, base_low |-> SubSeq(base, 1, 2), base_mid |-> SubSeq(base, 3, 3),
     flags1 |-> access, flags2 |-> flags,
     base_high |-> SubSeq(base, 4, 4), base_byte2 |-> SubSeq(base, 5, 8)]

\* Selectors (gdt.h): the index above the lower three bits, and the ring.
KERN_CS_SEGSEL == 40
KERN_DS_SEGSEL == 48
USER_CS_SEGSEL == 59
USER_DS_SEGSEL == 67
TSS_SEGSEL == 72

\* A table in force: its segments, the bytes up to the limit of the register,
\* and the entry for the task state segment behind the segments.
KernelGdt(tss) == [segments |-> segments, bytes |-> 9 * 8 + 16, tss |-> tss]

\* What stivale2 leaves in force has the same layout without user segments.
NoTss == [length |-> 0]
BootloaderGdt ==
    [segments |-> SubSeq(segments, 1, 7), bytes |-> 7 * 8, tss |-> NoTss]

-----------------------------------------------------------------------------
(* idt.c *)

INTERRUPT_GATE == 142
USER_MODE_INT == 96

SetIdtEntry(isr, flags) ==
    [handler_low |-> SubSeq(isr, 1, 2), handler_mid |-> SubSeq(isr, 3, 4),
     handler_high |-> SubSeq(isr, 5, 8),
     segment |-> KERN_CS_SEGSEL, ist |-> 0, attributes |-> flags]

-----------------------------------------------------------------------------
(* The processor. *)

\* The segment a selector names, for a privilege level: present, of that
\* level, within the limit.
Loadable(gdt, selector, cpl) ==
    LET i == selector \div 8
    IN  /\ i + 1 \in DOMAIN gdt.segments /\ 8 * i + 7 < gdt.bytes
        /\ LET access == gdt.segments[i + 1].access
           IN  Bit(access, 7) = 1 /\ Bit(access, 4) = 1
               /\ 2 * Bit(access, 6) + Bit(access, 5) = cpl

IsCode64(gdt, selector, cpl) ==
    /\ Loadable(gdt, selector, cpl)
    /\ LET s == gdt.segments[selector \div 8 + 1]
       IN  Bit(s.access, 3) = 1 /\ Bit(s.limit_and_flags, 5) = 1
           /\ Bit(s.limit_and_flags, 6) = 0

IsData(gdt, selector, cpl) ==
    /\ Loadable(gdt, selector, cpl)
    /\ Bit(gdt.segments[selector \div 8 + 1].access, 3) = 0
    /\ Bit(gdt.segments[selector \div 8 + 1].access, 1) = 1

\* The base of the task state segment, if the selector names an available one.
IsTss(gdt, selector) ==
    /\ selector + 15 < gdt.bytes
    /\ selector = 8 * Len(gdt.segments)
    /\ gdt.tss # NoTss /\ gdt.tss.flags1 = 137

TssBase(tss) == tss.base_low \o tss.base_mid \o tss.base_high \o tss.base_byte2

HandlerOf(gate) == gate.handler_low \o gate.handler_mid \o gate.handler_high

\* A present gate that turns interrupts off, open to a privilege level.
IsInterruptGate(gate, cpl) ==
    /\ Bit(gate.attributes, 7) = 1 /\ gate.attributes % 16 = 14
    /\ 2 * Bit(gate.attributes, 6) + Bit(gate.attributes, 5) >= cpl
=============================================================================
