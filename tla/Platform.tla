------------------------------ MODULE Platform ------------------------------
(***************************************************************************)
(* The boot processor on its way from the bootloader to a machine that     *)
(* takes interrupts: the part of _start (kernel.c) that looks for tags and *)
(* tables, loads the interrupt and the segment descriptors (idt.c, gdt.c)  *)
(* and enables the local APIC (hal/lapic.c), and afterwards run_proc and   *)
(* the calls of lapic.c that nobody makes yet.                             *)
(*                                                                         *)
(* Interrupts are on from LoadIdt: an interrupt can come between any two   *)
(* steps.  Its handler is the business of SmpBoot, Console and Programs;   *)
(* here it matters that the processor finds it.                            *)
(***************************************************************************)
EXTENDS Acpi, Descriptors

CONSTANTS
    Machines,       \* [tags, rsdp, tables] the kernel may be started with
    IdxSpan,        \* values of the uint8_t that get_nmi_record takes
    LapicId, ALL_LAPICS,
    Junk,           \* what may lie behind the NMI records
    Ipis            \* IPIs that callers may send, [upper_dword, lower_dword]

\* A record of an NMI in the MADT: lint says whether the pin's number is not 0,
\* flags are the numbers of the bits that are set.
NmiRecords == [acpi_processor_id : 0 .. 255, lint : BOOLEAN, flags : SUBSET (0 .. 15)]

ASSUME PlatformConstants ==
    /\ IdxSpan \in Nat /\ IdxSpan > 1 /\ IdxSpan <= IntSpan
    /\ LapicId # ALL_LAPICS
    /\ Junk \subseteq NmiRecords
    /\ NULL \notin Ipis

\* The root table that the RSDP leads to.
RootTable(m) == m.tables[IF m.rsdp.revision > 1 THEN m.rsdp.xsdt_addr ELSE m.rsdp.rsdt_addr]

\* Tables lie at addresses that are not 0; the length of a root table is that
\* of its header and of the addresses in it, which are addresses of tables.
ASSUME MachineTables ==
    \A m \in Machines :
        /\ NULL \notin DOMAIN m.tables
        /\ {m.rsdp.xsdt_addr, m.rsdp.rsdt_addr} \subseteq DOMAIN m.tables
        /\ m.rsdp.revision \in Nat
        /\ RootTable(m).next \in Seq(DOMAIN m.tables)
        /\ Len(RootTable(m).next) < IntSpan \div 2
        /\ RootTable(m).length = 36 + (IF m.rsdp.revision > 1 THEN 8 ELSE 4) * Len(RootTable(m).next)
        /\ \A t \in DOMAIN m.tables : m.tables[t].nmis \in Seq(NmiRecords)

VARIABLES
    machine,
    sdt,            \* SDT_HEAD
    MADT,           \* the address of the table
    pc, crashed,
    IDT,            \* vectors -> entries
    idtLoaded,
    pics,           \* the PICs are masked
    gdt, tr,        \* the table in force, and the task register
    TSS,            \* [RSP0], of this processor
    LAPIC_BASE,     \* has been set
    lapic,          \* registers of the LAPIC
    i,              \* the loop variable of enable_lapic, as get_nmi_record sees it
    interrupts,     \* the interrupt flag
    irqs,           \* ISA interrupts unmasked in the IO APIC
    cpl,            \* the privilege level
    stray,          \* a LAPIC register was used at LAPIC_BASE = 0
    ipi             \* what send_ipi has still to write, and what the LAPIC sent

vars == <<machine, sdt, MADT, pc, crashed, IDT, idtLoaded, pics, gdt, tr, TSS,
          LAPIC_BASE, lapic, i, interrupts, irqs, cpl, stray, ipi>>

acpiVars == <<sdt, MADT>>
tableVars == <<IDT, idtLoaded, pics, gdt, tr, TSS>>
lapicVars == <<LAPIC_BASE, lapic, i, stray, ipi>>
cpuVars == <<interrupts, irqs, cpl>>

\* The firmware's entries for the two pins, and an NMI's.
FirmwarePin == [delivery_mode |-> "FIRMWARE"]
NmiPin(r) ==
    [delivery_mode |-> "LVT_NMI", mask |-> FALSE,
     pin_polarity |-> IF 1 \in r.flags THEN "ACTIVE_HIGH" ELSE "ACTIVE_LOW",
     trigger_mode |-> IF 3 \in r.flags THEN "LEVEL_SENSITIVE" ELSE "EDGE_SENSITIVE"]

Init ==
    /\ machine \in Machines
    /\ sdt = NoSdt /\ MADT = NULL
    /\ pc = "tags" /\ crashed = FALSE
    /\ IDT = [v \in {} |-> 0] /\ idtLoaded = FALSE
    /\ pics \in BOOLEAN
    /\ gdt = BootloaderGdt /\ tr = 0 /\ TSS = [RSP0 |-> NULL]
    /\ LAPIC_BASE = FALSE
    /\ lapic = [spurious |-> {}, LINT0 |-> FirmwarePin, LINT1 |-> FirmwarePin, ICR1 |-> NULL]
    /\ i = -1
    /\ interrupts = FALSE /\ irqs = {} /\ cpl = 0
    /\ stray = FALSE
    /\ ipi = [asked |-> NULL, sent |-> NULL]

At(label) == pc = label /\ ~crashed
Goto(label) == pc' = label /\ UNCHANGED crashed
Crash == crashed' = TRUE /\ UNCHANGED pc

\* Every access to a register of the LAPIC goes to LAPIC_BASE plus its offset.
UsesLapic == stray' = (stray \/ ~LAPIC_BASE)

-----------------------------------------------------------------------------
(* Tags and tables. *)

\* No tag is tested for NULL before it is followed.
Follow(ids, then) ==
    IF NULL \in {stivale2_get_tag(machine.tags, id) : id \in ids} THEN Crash ELSE Goto(then)

\* The tags that are followed before the ACPI tables are looked for, by _start
\* itself, InitGraphicsCtx, InitPmm and the call of InitAcpi.
FindTags ==
    /\ At("tags")
    /\ interrupts' = FALSE
    /\ Follow({"terminal", "framebuffer", "memmap", "rsdp"}, "acpi")
    /\ UNCHANGED <<machine, irqs, cpl, acpiVars, tableVars, lapicVars>>

\* Those that are followed later, by InitPageTable (the rest of which is in
\* Programs), by startup_aps behind enable_lapic, and by ustar_from_module.
FollowTags ==
    /\ \/ At("pages") /\ Follow({"kernel_base_address", "pmrs"}, "idt")
       \/ At("aps") /\ Follow({"smp"}, "mask")
       \/ At("modules") /\ Follow({"modules"}, "keyboard")
    /\ UNCHANGED <<machine, acpiVars, tableVars, lapicVars, cpuVars>>

\* What InitAcpi returns is not looked at.
CallInitAcpi ==
    /\ At("acpi")
    /\ sdt' = InitAcpi(machine.rsdp, machine.tables)
    /\ Goto("madt")
    /\ UNCHANGED <<machine, MADT, tableVars, lapicVars, cpuVars>>

\* ParseMadt reads the table without a test for NULL.  Of its records only
\* those of local NMIs matter here, see IoApic.
ParseMadt ==
    /\ At("madt")
    /\ MADT' = FindTable(sdt, machine.tables, "APIC")
    /\ IF MADT' = NULL THEN Crash ELSE Goto("pages")
    /\ UNCHANGED <<machine, sdt, tableVars, lapicVars, cpuVars>>

-----------------------------------------------------------------------------
(* Interrupt descriptors. *)

isr(vector) == [b \in 1 .. 8 |-> <<vector, b>>]

\* The keyboard, the timer, and system calls, which programs may make.
Handlers ==
    [v \in {33, 34, 128} |->
        SetIdtEntry(isr(v), INTERRUPT_GATE + IF v = 128 THEN USER_MODE_INT ELSE 0)]

\* Mutant: the PICs are masked when interrupts are already on.
InitializeIdtLate ==
    /\ \/ /\ At("idt") /\ Goto("load")
          /\ IDT' = Handlers
          /\ UNCHANGED <<pics, idtLoaded, interrupts>>
       \/ /\ At("load") /\ Goto("pics")
          /\ idtLoaded' = TRUE /\ interrupts' = TRUE
          /\ UNCHANGED <<IDT, pics>>
       \/ /\ At("pics") /\ Goto("lapic") /\ pics' = TRUE
          /\ UNCHANGED <<IDT, idtLoaded, interrupts>>
    /\ UNCHANGED <<machine, gdt, tr, TSS, irqs, cpl, acpiVars, lapicVars>>

\* The entries are written, then the PICs are masked; then LoadIdt, which also
\* turns interrupts on.
InitializeIdt ==
    /\ \/ /\ At("idt") /\ Goto("pics")
          /\ IDT' = Handlers
          /\ UNCHANGED <<pics, idtLoaded, interrupts>>
       \/ /\ At("pics") /\ Goto("load") /\ pics' = TRUE
          /\ UNCHANGED <<IDT, idtLoaded, interrupts>>
       \/ /\ At("load") /\ Goto("lapic")
          /\ idtLoaded' = TRUE /\ interrupts' = TRUE
          /\ UNCHANGED <<IDT, pics>>
    /\ UNCHANGED <<machine, gdt, tr, TSS, irqs, cpl, acpiVars, lapicVars>>

-----------------------------------------------------------------------------
(* The local APIC. *)

nmis == machine.tables[MADT].nmis

\* Mutant: the index may be as large as the number of records.
get_nmi_record_over(idx) ==
    IF idx > Len(nmis) THEN {}
    ELSE IF idx < Len(nmis) THEN {nmis[idx + 1]} ELSE Junk

\* The records that may be found at idx, none for NULL.  num_nmis is a size_t:
\* without a record, num_nmis - 1 is its largest value.
get_nmi_record(idx) ==
    IF idx > (Len(nmis) - 1) % SizeSpan THEN {}
    ELSE IF idx < Len(nmis) THEN {nmis[idx + 1]} ELSE Junk

\* Mutant: the pins are programmed for every processor's records.
enable_nmi_any(r) ==
    lapic' = [lapic EXCEPT ![IF r.lint THEN "LINT0" ELSE "LINT1"] = NmiPin(r)]

\* Records of other processors are passed over.
enable_nmi(r) ==
    lapic' = IF r.acpi_processor_id \in {LapicId, ALL_LAPICS}
             THEN [lapic EXCEPT ![IF r.lint THEN "LINT0" ELSE "LINT1"] = NmiPin(r)]
             ELSE lapic

ReadLapicAddress == LAPIC_BASE' = TRUE

\* "Bit 8 of spurious interrupt vector is 'enable' bit for a given LAPIC."
Enabled(spurious) == spurious \cup {8}

\* enable_lapic, called by _start and, before the timer is calibrated, again
\* by startup_aps.  The loop runs for as long as there is a record.
enable_lapic(from, then) ==
    /\ At(from)
    /\ \/ i = -1 /\ i' = 0 /\ ReadLapicAddress
          /\ UNCHANGED <<lapic, stray, pc, crashed>>
       \/ /\ i # -1 /\ get_nmi_record(i) # {}
          /\ \E r \in get_nmi_record(i) : enable_nmi(r)
          /\ i' = (i + 1) % IdxSpan
          /\ UsesLapic
          /\ UNCHANGED <<LAPIC_BASE, pc, crashed>>
       \/ /\ i # -1 /\ get_nmi_record(i) = {}
          /\ lapic' = [lapic EXCEPT !.spurious = Enabled(@)]
          /\ i' = -1
          /\ UsesLapic
          /\ Goto(then)
          /\ UNCHANGED LAPIC_BASE
    /\ UNCHANGED <<machine, ipi, acpiVars, tableVars, cpuVars>>

\* Nothing is cleared.
disable_lapic ==
    /\ At("ready") /\ ipi.asked = NULL
    /\ ReadLapicAddress /\ UsesLapic
    /\ UNCHANGED <<machine, pc, crashed, lapic, i, ipi, acpiVars, tableVars, cpuVars>>

\* Bit 12 suppresses the broadcast; it can be set but not cleared.
eoi_is_broadcast == 12 \notin lapic.spurious

set_eoi_broadcast(enabled) ==
    /\ At("ready") /\ ipi.asked = NULL
    /\ lapic' = IF eoi_is_broadcast /\ ~enabled
                THEN [lapic EXCEPT !.spurious = @ \cup {12}] ELSE lapic
    /\ UsesLapic
    /\ UNCHANGED <<machine, pc, crashed, LAPIC_BASE, i, ipi, acpiVars, tableVars, cpuVars>>

\* Two writes; the second one, to the lower dword, makes the LAPIC send.
send_ipi(new) ==
    /\ At("ready")
    /\ \/ ipi.asked = NULL /\ ipi' = [ipi EXCEPT !.asked = new]
          /\ lapic' = [lapic EXCEPT !.ICR1 = new.upper_dword]
       \/ ipi.asked = new /\ ipi' = [asked |-> NULL, sent |-> [upper_dword |-> lapic.ICR1,
                                                             lower_dword |-> new.lower_dword]]
          /\ UNCHANGED lapic
    /\ UsesLapic
    /\ UNCHANGED <<machine, pc, crashed, LAPIC_BASE, i, acpiVars, tableVars, cpuVars>>

-----------------------------------------------------------------------------
(* Segments. *)

TssAddress(id) == [b \in 1 .. 8 |-> <<id, b>>]
KernelStack == "top of stack"

\* initialize_gdt with init_tss, which asks the LAPIC which processor this is,
\* then load_gdt and load_tss.
initialize_gdt ==
    /\ At("gdt")
    /\ \/ TSS.RSP0 = NULL /\ TSS' = [RSP0 |-> KernelStack]
          /\ UsesLapic /\ UNCHANGED <<gdt, tr, pc, crashed>>
       \/ /\ TSS.RSP0 # NULL /\ gdt = BootloaderGdt
          /\ gdt' = KernelGdt(set_tss_entry(TssAddress(LapicId), 32, 137))
          /\ UNCHANGED <<TSS, tr, stray, pc, crashed>>
       \/ gdt # BootloaderGdt /\ tr' = TSS_SEGSEL
          /\ Goto("unmask") /\ UNCHANGED <<TSS, gdt, stray>>
    /\ UNCHANGED <<machine, IDT, idtLoaded, pics, LAPIC_BASE, lapic, i, ipi, acpiVars, cpuVars>>
-----------------------------------------------------------------------------
(* The rest of _start. *)

\* IRQ 2 is unmasked while the timer is calibrated, see SmpBoot; IRQ 1 for
\* good, see Console.
Masking ==
    /\ \/ At("unmask") /\ irqs' = irqs \cup {2} /\ Goto("startup_aps")
       \/ At("mask") /\ irqs' = irqs \ {2} /\ Goto("modules")
       \/ At("keyboard") /\ irqs' = irqs \cup {1} /\ Goto("ready")
    /\ UNCHANGED <<machine, interrupts, cpl, acpiVars, tableVars, lapicVars>>

\* run_proc returns to user mode with selectors for its code and stack; the
\* call in _start is commented out.
run_proc ==
    /\ At("ready") /\ ipi.asked = NULL
    /\ cpl' = USER_CS_SEGSEL % 4
    /\ Goto("user")
    /\ UNCHANGED <<machine, interrupts, irqs, acpiVars, tableVars, lapicVars>>

Boot ==
    \/ FindTags \/ CallInitAcpi \/ ParseMadt \/ FollowTags \/ InitializeIdt
    \/ enable_lapic("lapic", "gdt") \/ initialize_gdt
    \/ enable_lapic("startup_aps", "aps") \/ Masking

Next ==
    \/ Boot \/ run_proc
    \/ disable_lapic \/ \E b \in BOOLEAN : set_eoi_broadcast(b)
    \/ \E new \in Ipis : send_ipi(new)

\* The processor goes on as long as it has something to do.
Spec == Init /\ [][Next]_vars /\ WF_vars(Boot)

-----------------------------------------------------------------------------
(* Properties. *)

TypeOK ==
    /\ machine \in Machines
    /\ MADT \in DOMAIN machine.tables \cup {NULL}
    /\ {crashed, idtLoaded, pics, LAPIC_BASE, interrupts, stray} \subseteq BOOLEAN
    /\ lapic.spurious \subseteq {8, 12}
    /\ i \in -1 .. IdxSpan - 1
    /\ irqs \subseteq {1, 2}
    /\ cpl \in {0, 3}

ValidRsdp(rsdp) ==
    /\ rsdp.sum1 % 256 = 0
    /\ rsdp.revision > 0 => (rsdp.sum1 + rsdp.sum2) % 256 = 0

\* The k-th table in the root table is a MADT and its checksum is right.
GoodMadt(m, k) ==
    LET table == m.tables[RootTable(m).next[k]]
    IN  table.signature = "APIC" /\ table.sum % 256 = 0

\* The MADT is looked for in a root table that a valid RSDP names, and is the
\* first one there whose own checksum is right; the kernel only stops for want
\* of a MADT if the firmware has none like that.  (Neither InitAcpi's result
\* nor a null pointer is tested for.)  A comment in acpi.c has it otherwise, see
\* MadtNeverFound; FindTable as it is written finds the table.
MadtLookup ==
    /\ MADT # NULL =>
          /\ ValidRsdp(machine.rsdp)
          /\ \E k \in DOMAIN RootTable(machine).next :
                /\ GoodMadt(machine, k) /\ MADT = RootTable(machine).next[k]
                /\ \A j \in 1 .. k - 1 : ~GoodMadt(machine, j)
    /\ (crashed /\ pc = "madt" /\ ValidRsdp(machine.rsdp)) =>
          \A k \in DOMAIN RootTable(machine).next : ~GoodMadt(machine, k)

\* acpi.c: "FindTable fails when trying to find "APIC" signature (i.e. MADT).
\* Resolve tomorrow."  Refuted: the comment is out of date.
MadtNeverFound == MADT = NULL

\* The processor takes an NMI at vector 2, whatever vector is in the pin's entry
\* (NMI_INT_VECTOR, for which there is no gate either).
NMI == 2

\* The vectors at which an interrupt can arrive.  The firmware's PICs use 8 to
\* 15 (idt.c: "IBM already maps ISRs [0x0,0x1F]"); an NMI needs no interrupt
\* flag, only a pin of the LAPIC that lets it through.
Raised ==
    (IF interrupts THEN {r + 32 : r \in irqs} \cup (IF pics THEN {} ELSE {8}) ELSE {})
      \cup (IF cpl = 3 THEN {128} ELSE {})
      \cup (IF "LVT_NMI" \in {lapic.LINT0.delivery_mode, lapic.LINT1.delivery_mode}
            THEN {NMI} ELSE {})

\* The processor finds its way to the handler of a vector: the table is loaded
\* and has a gate for the vector, open to who may use it, that turns interrupts
\* off; its selector names 64-bit kernel code in the table in force, first the
\* bootloader's; and from user mode, which is entered with selectors for user
\* code and data, there is a kernel stack in the task state segment.
Served(v) ==
    /\ idtLoaded /\ v \in DOMAIN IDT
    /\ IsInterruptGate(IDT[v], IF v = 128 THEN 3 ELSE 0)
    /\ HandlerOf(IDT[v]) = isr(v)
    /\ IsCode64(gdt, IDT[v].segment, 0)
    /\ cpl = 3 => /\ IsCode64(gdt, USER_CS_SEGSEL, 3) /\ IsData(gdt, USER_DS_SEGSEL, 3)
                  /\ IsTss(gdt, tr)
                  /\ TssBase(gdt.tss) = TssAddress(LapicId)
                  /\ TSS.RSP0 = KernelStack

\* Whenever a maskable interrupt or a system call can come, it is served.
MaskableEntry == ~crashed => \A v \in Raised \ {NMI} : Served(v)

\* The same of every interrupt.  Refuted: enable_nmi lets NMIs through, and
\* "Make a handler for this" (lapic.c) has not been done.
AllInterruptsServed == ~crashed => \A v \in Raised : Served(v)

\* No register of the LAPIC is used before its address is known: init_tss asks
\* for the ID, and every handler ends with a write.
LapicAddressed == ~stray /\ (Raised \cap {33, 34} # {} => LAPIC_BASE)

\* Together: from LoadIdt on, a maskable interrupt can be taken, served and
\* ended.
MaskableServed == TypeOK /\ MaskableEntry /\ LapicAddressed

\* A pin is as the last record with this lint for this processor says, or, if
\* there is none, as it was.
ByRecords(pin, lint) ==
    LET mine == {k \in DOMAIN nmis : /\ nmis[k].acpi_processor_id \in {LapicId, ALL_LAPICS}
                                     /\ nmis[k].lint = lint}
    IN  lapic[pin] = IF mine = {} THEN FirmwarePin ELSE NmiPin(nmis[Max(mine)])

\* There are records, and the index of enable_lapic can count them.
Countable == 0 < Len(nmis) /\ Len(nmis) < IdxSpan

\* After enable_lapic the records for the one pin and those for the other have
\* programmed a pin each, the last record for a pin and this processor its
\* own, and a pin without a record is as it was.  Which of the two pins is
\* which is left open: see PinsAsNamed.
LapicProgrammed ==
    (At("gdt") /\ Countable) =>
        \E one \in BOOLEAN : ByRecords("LINT1", one) /\ ByRecords("LINT0", ~one)

\* A record's lint is the number of its pin (madt.c prints "LINT %d").
\* Refuted: enable_nmi takes LINT0 for 1 and LINT1 for 0.
PinsAsNamed ==
    (At("gdt") /\ Countable) => ByRecords("LINT1", TRUE) /\ ByRecords("LINT0", FALSE)

\* A processor whose records can be counted enables its LAPIC, twice, and gets
\* through to the start of the others: the loop over the records ends.
EnableLapicReturns == (At("lapic") /\ Countable) ~> At("aps")

\* The same for any number of records: refuted for none, and for IdxSpan.
EnableLapicAlwaysReturns == At("lapic") ~> At("aps")
=============================================================================
