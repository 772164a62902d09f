--------------------------- MODULE PlatformProofs ---------------------------
(***************************************************************************)
(* Proofs about Platform, for every machine with well-formed ACPI tables   *)
(* and every number of NMI records: the MADT is found if there is one, a   *)
(* maskable interrupt finds its handler whenever it can come, and the pins *)
(* of the LAPIC are programmed from the records that name them.            *)
(***************************************************************************)
EXTENDS Platform, NumberFacts

-----------------------------------------------------------------------------
(* Numbers. *)

\* Quotient and remainder are determined by their equation.
LEMMA QuotientIs ==
  ASSUME NEW a \in Nat, NEW d \in Nat \ {0}, NEW q \in Nat, NEW r \in 0 .. d - 1,
         a = d * q + r
  PROVE  a % d = r /\ a \div d = q
<1>1. a \div d \in Nat /\ a % d \in 0 .. d - 1 /\ a = d * (a \div d) + (a % d)
  OBVIOUS
<1> DEFINE b == a \div d
           c == a % d
<1> HIDE DEF b, c
<1>2. b \in Nat /\ c \in 0 .. d - 1 /\ d * b + c = d * q + r
  BY <1>1 DEF b, c
<1>3. ~(b > q)
  <2> SUFFICES ASSUME b > q PROVE FALSE
    OBVIOUS
  <2>1. PICK x \in Nat : b = q + 1 + x
    <3>1. b - q - 1 \in Nat /\ b = q + 1 + (b - q - 1)
      BY <1>2
    <3> QED
      BY <3>1
  <2>2. d * b = d * q + d + d * x /\ d * x >= 0
    BY <1>2, <2>1
  <2> QED
    BY <1>2, <2>2
<1>4. ~(q > b)
  <2> SUFFICES ASSUME q > b PROVE FALSE
    OBVIOUS
  <2>1. PICK x \in Nat : q = b + 1 + x
    <3>1. q - b - 1 \in Nat /\ q = b + 1 + (q - b - 1)
      BY <1>2
    <3> QED
      BY <3>1
  <2>2. d * q = d * b + d + d * x /\ d * x >= 0
    BY <1>2, <2>1
  <2> QED
    BY <1>2, <2>2
<1>5. b = q
  BY <1>2, <1>3, <1>4
<1>6. c = r
  BY <1>2, <1>5
<1> QED
  BY <1>5, <1>6 DEF b, c

\* The root table's number of entries, in an int.
LEMMA EntriesCounted ==
  ASSUME NEW n \in Nat, n < IntSpan \div 2, NEW x \in BOOLEAN, NEW l,
         l = 36 + (IF x THEN 8 ELSE 4) * n, NEW next
  PROVE  num_entries([length |-> l, next |-> next, uses_xsdt |-> x]) = n
<1>1. IntSpan \in Nat /\ IntSpan >= 64 /\ n < IntSpan
  BY AcpiConstants
<1>2. SizeSpan \in Nat /\ 64 * n <= SizeSpan /\ 64 * IntSpan <= SizeSpan
  <2>1. IntSpan * IntSpan >= 64 * IntSpan
    BY <1>1
  <2> QED
    BY <1>1, <2>1 DEF SizeSpan
<1>3. (l - 36) \div (IF x THEN 8 ELSE 4) = n /\ l - 36 \in Nat /\ l - 36 < SizeSpan
  BY <1>1, <1>2
<1>4. (l - 36) % SizeSpan = l - 36
  <2> DEFINE k == l - 36
  <2>1. k \in Nat /\ SizeSpan \in Nat \ {0} /\ k \in 0 .. SizeSpan - 1 /\ k = SizeSpan * 0 + k
    BY <1>2, <1>3
  <2> HIDE DEF k
  <2>2. k % SizeSpan = k
    BY <2>1, QuotientIs
  <2> QED
    BY <2>2 DEF k
<1>5. n % IntSpan = n
  BY <1>1
<1> QED
  BY <1>1, <1>3, <1>4, <1>5 DEF num_entries, ToInt

\* Without a root table the difference wraps around and, divided and stored in
\* an int, is negative.
LEMMA NoEntriesCounted == num_entries(NoSdt) < 0
<1>1. PICK k \in Nat : IntSpan = 4 * k /\ k >= 16
  <2>1. IntSpan \div 8 \in Nat /\ IntSpan = 8 * (IntSpan \div 8) /\ IntSpan >= 64
    BY AcpiConstants
  <2>2. 2 * (IntSpan \div 8) \in Nat /\ IntSpan = 4 * (2 * (IntSpan \div 8)) /\ 2 * (IntSpan \div 8) >= 16
    BY <2>1
  <2> QED
    BY <2>2
<1> DEFINE m == k * IntSpan - 9
<1>2. k * IntSpan \in Nat /\ k * IntSpan >= 64 /\ SizeSpan = 4 * (k * IntSpan)
  <2>1. k * IntSpan >= 16 * IntSpan
    BY <1>1
  <2> QED
    BY <1>1, <2>1 DEF SizeSpan
<1>3. (0 - 36) % SizeSpan = SizeSpan - 36
  <2> DEFINE z == SizeSpan
  <2>1. z \in Nat /\ z > 36
    BY <1>2
  <2> HIDE DEF z
  <2>2. (0 - 36) % z = z - 36
    BY <2>1
  <2> QED
    BY <2>2 DEF z
<1>4. (SizeSpan - 36) \div 4 = m
  BY <1>2
<1>5. m % IntSpan = IntSpan - 9
  <2>1. /\ m \in Nat /\ IntSpan \in Nat \ {0} /\ k - 1 \in Nat /\ IntSpan - 9 \in 0 .. IntSpan - 1
        /\ m = IntSpan * (k - 1) + (IntSpan - 9)
    BY <1>1, <1>2
  <2> HIDE DEF m
  <2> QED
    BY <2>1, QuotientIs
<1>6. ToInt(m) < 0
  <2>1. IntSpan \in Nat /\ IntSpan >= 64 /\ IntSpan - 9 >= IntSpan \div 2
    BY AcpiConstants
  <2> HIDE DEF m
  <2> QED
    BY <1>5, <2>1 DEF ToInt
<1>7. num_entries(NoSdt) = ToInt(((0 - 36) % SizeSpan) \div 4)
  BY DEF num_entries, NoSdt
<1> HIDE DEF m
<1> QED
  BY <1>3, <1>4, <1>6, <1>7

\* FindTable finds the first valid MADT in the root table, if the RSDP is valid.
LEMMA MadtFound ==
  ASSUME NEW m \in Machines, NEW s, s = InitAcpi(m.rsdp, m.tables),
         NEW found, found = FindTable(s, m.tables, "APIC")
  PROVE  /\ found \in DOMAIN m.tables \cup {NULL}
         /\ found # NULL =>
              /\ ValidRsdp(m.rsdp)
              /\ \E k \in DOMAIN RootTable(m).next :
                    /\ GoodMadt(m, k) /\ found = RootTable(m).next[k]
                    /\ \A j \in 1 .. k - 1 : ~GoodMadt(m, j)
         /\ (found = NULL /\ ValidRsdp(m.rsdp)) =>
              \A k \in DOMAIN RootTable(m).next : ~GoodMadt(m, k)
<1> DEFINE root == RootTable(m)
           n == Len(root.next)
           Hits == {k \in 1 .. num_entries(s) :
                      LET table == m.tables[s.next[k]]
                      IN  table.signature = "APIC" /\ ValidateSdtChecksum(table)}
<1>1. /\ NULL \notin DOMAIN m.tables /\ m.rsdp.revision \in Nat
      /\ root.next \in Seq(DOMAIN m.tables) /\ n < IntSpan \div 2
      /\ root.length = 36 + (IF m.rsdp.revision > 1 THEN 8 ELSE 4) * n
  BY MachineTables
<1>2. ValidRsdp(m.rsdp) <=> ValidateRsdpChecksum(m.rsdp)
  BY <1>1 DEF ValidRsdp, ValidateRsdpChecksum
<1>3. found = IF Hits = {} THEN NULL ELSE s.next[Min(Hits)]
  BY DEF FindTable
<1>4. CASE ~ValidRsdp(m.rsdp)
  <2>1. num_entries(s) < 0
    BY <1>2, <1>4, NoEntriesCounted DEF InitAcpi
  <2>2. num_entries(NoSdt) \in Int
    BY AcpiConstants DEF num_entries, NoSdt, ToInt, SizeSpan
  <2>3. Hits = {}
    BY <1>2, <1>4, <2>1, <2>2 DEF InitAcpi
  <2> QED
    BY <1>3, <1>4, <2>3
<1>5. CASE ValidRsdp(m.rsdp)
  <2> DEFINE x == m.rsdp.revision > 1
  <2>1. s = [length |-> root.length, next |-> root.next, uses_xsdt |-> x]
    <3>1. (m.rsdp.revision >= 2) = x
      BY <1>1
    <3> QED
      BY <1>2, <1>5, <3>1 DEF InitAcpi, InitSdt, RootTable
  <2>2. n \in Nat /\ x \in BOOLEAN
    BY <1>1
  <2>3. num_entries(s) = n
    <3>1. root.length = 36 + (IF x THEN 8 ELSE 4) * n /\ n < IntSpan \div 2
      BY <1>1
    <3> HIDE DEF root, x, n
    <3>2. num_entries([length |-> root.length, next |-> root.next, uses_xsdt |-> x]) = n
      BY <2>2, <3>1, EntriesCounted, Zenon
    <3> QED
      BY <2>1, <3>2, Zenon
  <2>4. s.next = root.next /\ DOMAIN root.next = 1 .. n
    BY <1>1, <2>1
  <2>5. ASSUME NEW k \in 1 .. n PROVE k \in Hits <=> GoodMadt(m, k)
    BY <2>3, <2>4 DEF GoodMadt, ValidateSdtChecksum
  <2>6. Hits \subseteq 1 .. n
    BY <2>3
  <2> HIDE DEF Hits, root, n, x
  <2>7. CASE Hits = {}
    BY <1>3, <1>5, <2>4, <2>5, <2>7 DEF root
  <2>8. CASE Hits # {}
    <3>1. Min(Hits) \in Hits /\ \A y \in Hits : Min(Hits) <= y
      BY <2>2, <2>6, <2>8, MinOfNaturals
    <3>2. PICK k \in 1 .. n : k = Min(Hits)
      BY <2>6, <3>1
    <3>3. found = root.next[k] /\ GoodMadt(m, k)
      BY <1>3, <2>4, <2>5, <2>8, <3>1, <3>2
    <3>4. \A j \in 1 .. k - 1 : ~GoodMadt(m, j)
      <4> SUFFICES ASSUME NEW j \in 1 .. k - 1, GoodMadt(m, j) PROVE FALSE
        OBVIOUS
      <4>1. j \in 1 .. n /\ j < k
        BY <2>2
      <4> QED
        BY <2>5, <3>1, <3>2, <4>1
    <3>5. root.next[k] \in DOMAIN m.tables
      BY <1>1 DEF n
    <3> QED
      BY <1>1, <1>5, <2>4, <3>3, <3>4, <3>5 DEF root
  <2> QED
    BY <2>7, <2>8
<1> QED
  BY <1>4, <1>5

-----------------------------------------------------------------------------
(* The invariant. *)

\* The stages of _start.
Early == {"tags", "acpi", "madt", "pages", "idt", "pics", "load"}
Booted == {"unmask", "startup_aps", "aps", "mask", "modules", "keyboard", "ready", "user"}
Labels == Early \cup {"lapic", "gdt"} \cup Booted

OurTss == set_tss_entry(TssAddress(LapicId), 32, 137)
OurGdt == KernelGdt(OurTss)

FlagTypes ==
    /\ crashed \in BOOLEAN /\ idtLoaded \in BOOLEAN /\ pics \in BOOLEAN
    /\ LAPIC_BASE \in BOOLEAN /\ interrupts \in BOOLEAN

\* The MADT, once it has been looked for.
MadtInv ==
    /\ machine \in Machines
    /\ MADT \in DOMAIN machine.tables \cup {NULL}
    /\ pc \in {"tags", "acpi"} => MADT = NULL
    /\ pc = "madt" => sdt = InitAcpi(machine.rsdp, machine.tables)
    /\ pc \notin {"tags", "acpi", "madt"} => MADT # NULL
    /\ MadtLookup

\* Interrupts are only on when descriptors and PICs are ready for them, lines
\* are only unmasked and user mode is only entered when the LAPIC and the
\* segments are.
ReadyInv ==
    /\ pc \in Labels
    /\ pc \in Early => ~interrupts
    /\ pc \in Labels \ {"tags", "acpi", "madt", "pages", "idt"} => IDT = Handlers
    /\ pc \in Labels \ {"tags", "acpi", "madt", "pages", "idt", "pics"} => pics
    /\ pc \in Labels \ Early => idtLoaded
    /\ irqs \subseteq {1, 2} /\ (pc \notin Booted => irqs = {})
    /\ cpl \in {0, 3} /\ (pc # "user" => cpl = 0)

SegmentInv ==
    /\ gdt = BootloaderGdt \/ gdt = OurGdt
    /\ TSS.RSP0 = NULL \/ TSS.RSP0 = KernelStack
    /\ gdt = OurGdt => TSS.RSP0 = KernelStack
    /\ pc \in Booted => gdt = OurGdt /\ tr = TSS_SEGSEL

\* The LAPIC is used only when its address is known.
BaseInv ==
    /\ stray = FALSE
    /\ i \in -1 .. IdxSpan - 1
    /\ pc \in Early => i = -1
    /\ (i # -1 /\ pc = "lapic") \/ pc \in Booted \cup {"gdt"} => LAPIC_BASE

\* What a pin is after the first n records.
Programmed(records, n, pin) ==
    LET mine == {k \in 1 .. n : /\ records[k].acpi_processor_id \in {LapicId, ALL_LAPICS}
                                /\ records[k].lint = (pin = "LINT0")}
    IN  IF mine = {} THEN FirmwarePin ELSE NmiPin(records[Max(mine)])

\* How many records the loop of enable_lapic has been through.
Passed == IF pc \in Early THEN 0
          ELSE IF pc = "lapic" THEN IF i = -1 THEN 0 ELSE i
          ELSE Len(nmis)

PinInv ==
    /\ DOMAIN lapic = {"spurious", "LINT0", "LINT1", "ICR1"}
    /\ lapic.spurious \subseteq {8, 12}
    /\ pc \in Early => lapic.LINT0 = FirmwarePin /\ lapic.LINT1 = FirmwarePin
    /\ (pc \in {"lapic", "gdt"} /\ 0 < Len(nmis) /\ Len(nmis) < IdxSpan) =>
          /\ Passed \in 0 .. Len(nmis)
          /\ \A pin \in {"LINT0", "LINT1"} : lapic[pin] = Programmed(nmis, Passed, pin)

PlatformInv ==
    FlagTypes /\ MadtInv /\ ReadyInv /\ SegmentInv /\ BaseInv /\ PinInv

\* Flags keep their types.
LEMMA FlagStep ==
  ASSUME PlatformInv, [Next]_vars
  PROVE  FlagTypes'
<1> USE DEF PlatformInv, FlagTypes, ReadLapicAddress, At, Goto, Crash, acpiVars, tableVars, lapicVars, cpuVars
<1>1. CASE FindTags
  BY <1>1 DEF FindTags, Follow
<1>2. CASE CallInitAcpi
  BY <1>2 DEF CallInitAcpi
<1>3. CASE ParseMadt
  BY <1>3 DEF ParseMadt
<1>4. CASE InitializeIdt
  BY <1>4 DEF InitializeIdt
<1>5. CASE enable_lapic("lapic", "gdt")
  BY <1>5 DEF enable_lapic
<1>6. CASE initialize_gdt
  BY <1>6 DEF initialize_gdt
<1>7. CASE enable_lapic("startup_aps", "aps")
  BY <1>7 DEF enable_lapic
<1>8. CASE Masking
  BY <1>8 DEF Masking
<1>9. CASE run_proc
  BY <1>9 DEF run_proc
<1>10. CASE disable_lapic
  BY <1>10 DEF disable_lapic
<1>11. CASE \E b \in BOOLEAN : set_eoi_broadcast(b)
  BY <1>11 DEF set_eoi_broadcast
<1>12. CASE \E new \in Ipis : send_ipi(new)
  BY <1>12 DEF send_ipi
<1>13. CASE UNCHANGED vars
  BY <1>13 DEF vars
<1>14. CASE FollowTags
  BY <1>14 DEF FollowTags, Follow
<1> QED
  BY <1>1, <1>2, <1>3, <1>4, <1>5, <1>6, <1>7, <1>8, <1>9, <1>10, <1>11, <1>12, <1>13, <1>14 DEF Next, Boot


\* One step after the other: descriptors, PICs, interrupts, lines.
LEMMA ReadyStep ==
  ASSUME PlatformInv, [Next]_vars
  PROVE  ReadyInv'
<1> USE DEF PlatformInv, ReadyInv, Labels, Early, Booted, USER_CS_SEGSEL, At, Goto, Crash, acpiVars, tableVars, lapicVars, cpuVars
<1>1. CASE FindTags
  BY <1>1 DEF FindTags, Follow
<1>2. CASE CallInitAcpi
  BY <1>2 DEF CallInitAcpi
<1>3. CASE ParseMadt
  BY <1>3 DEF ParseMadt
<1>4. CASE InitializeIdt
  BY <1>4 DEF InitializeIdt
<1>5. CASE enable_lapic("lapic", "gdt")
  BY <1>5 DEF enable_lapic
<1>6. CASE initialize_gdt
  BY <1>6 DEF initialize_gdt
<1>7. CASE enable_lapic("startup_aps", "aps")
  BY <1>7 DEF enable_lapic
<1>8. CASE Masking
  BY <1>8 DEF Masking
<1>9. CASE run_proc
  BY <1>9 DEF run_proc
<1>10. CASE disable_lapic
  BY <1>10 DEF disable_lapic
<1>11. CASE \E b \in BOOLEAN : set_eoi_broadcast(b)
  BY <1>11 DEF set_eoi_broadcast
<1>12. CASE \E new \in Ipis : send_ipi(new)
  BY <1>12 DEF send_ipi
<1>13. CASE UNCHANGED vars
  BY <1>13 DEF vars
<1>14. CASE FollowTags
  BY <1>14 DEF FollowTags, Follow
<1> QED
  BY <1>1, <1>2, <1>3, <1>4, <1>5, <1>6, <1>7, <1>8, <1>9, <1>10, <1>11, <1>12, <1>13, <1>14 DEF Next, Boot


\* The task state segment is filled in before the table that refers to it is loaded.
LEMMA SegmentStep ==
  ASSUME PlatformInv, [Next]_vars
  PROVE  SegmentInv'
<1> USE DEF PlatformInv, ReadyInv, SegmentInv, Labels, Early, Booted, OurGdt, OurTss, At, Goto, Crash, acpiVars, tableVars, lapicVars, cpuVars
<1>1. CASE FindTags
  BY <1>1 DEF FindTags, Follow
<1>2. CASE CallInitAcpi
  BY <1>2 DEF CallInitAcpi
<1>3. CASE ParseMadt
  BY <1>3 DEF ParseMadt
<1>4. CASE InitializeIdt
  BY <1>4 DEF InitializeIdt
<1>5. CASE enable_lapic("lapic", "gdt")
  BY <1>5 DEF enable_lapic
<1>6. CASE initialize_gdt
  BY <1>6 DEF initialize_gdt
<1>7. CASE enable_lapic("startup_aps", "aps")
  BY <1>7 DEF enable_lapic
<1>8. CASE Masking
  BY <1>8 DEF Masking
<1>9. CASE run_proc
  BY <1>9 DEF run_proc
<1>10. CASE disable_lapic
  BY <1>10 DEF disable_lapic
<1>11. CASE \E b \in BOOLEAN : set_eoi_broadcast(b)
  BY <1>11 DEF set_eoi_broadcast
<1>12. CASE \E new \in Ipis : send_ipi(new)
  BY <1>12 DEF send_ipi
<1>13. CASE UNCHANGED vars
  BY <1>13 DEF vars
<1>14. CASE FollowTags
  BY <1>14 DEF FollowTags, Follow
<1> QED
  BY <1>1, <1>2, <1>3, <1>4, <1>5, <1>6, <1>7, <1>8, <1>9, <1>10, <1>11, <1>12, <1>13, <1>14 DEF Next, Boot


\* A register that is used when LAPIC_BASE is set is where it should be.
LEMMA NotStray ==
  ASSUME LAPIC_BASE, UsesLapic, stray = FALSE
  PROVE  stray' = FALSE
BY DEF UsesLapic

\* LAPIC_BASE is set first.
LEMMA BaseStep ==
  ASSUME PlatformInv, [Next]_vars
  PROVE  BaseInv'
<1> USE PlatformConstants DEF PlatformInv, FlagTypes, ReadyInv, BaseInv, Labels, Early, Booted, At, Goto, Crash, acpiVars, tableVars, lapicVars, cpuVars
<1>1. CASE FindTags
  BY <1>1 DEF FindTags, Follow
<1>2. CASE CallInitAcpi
  BY <1>2 DEF CallInitAcpi
<1>3. CASE ParseMadt
  BY <1>3 DEF ParseMadt
<1>4. CASE InitializeIdt
  BY <1>4 DEF InitializeIdt
<1>5. CASE enable_lapic("lapic", "gdt")
  <2>1. pc = "lapic"
    BY <1>5 DEF enable_lapic
  <2>2. CASE i = -1 /\ i' = 0 /\ LAPIC_BASE' = TRUE /\ UNCHANGED <<stray, pc>>
    BY <2>1, <2>2
  <2>3. CASE i # -1 /\ UsesLapic /\ i' = (i + 1) % IdxSpan /\ UNCHANGED <<LAPIC_BASE, pc>>
    <3>1. LAPIC_BASE
      BY <2>1, <2>3
    <3>2. stray' = FALSE
      BY <2>3, <3>1, NotStray
    <3> QED
      BY <2>1, <2>3, <3>1, <3>2
  <2>4. CASE i # -1 /\ UsesLapic /\ i' = -1 /\ UNCHANGED LAPIC_BASE /\ pc' = "gdt"
    <3>1. LAPIC_BASE
      BY <2>1, <2>4
    <3>2. stray' = FALSE
      BY <2>4, <3>1, NotStray
    <3> QED
      BY <2>4, <3>1, <3>2
  <2> QED
    BY <1>5, <2>2, <2>3, <2>4 DEF enable_lapic, ReadLapicAddress
<1>6. CASE initialize_gdt
  <2>1. CASE UsesLapic /\ UNCHANGED pc
    BY <1>6, <2>1, NotStray DEF initialize_gdt
  <2>2. CASE UNCHANGED stray
    BY <1>6, <2>2 DEF initialize_gdt
  <2> QED
    BY <1>6, <2>1, <2>2 DEF initialize_gdt
<1>7. CASE enable_lapic("startup_aps", "aps")
  <2>1. pc = "startup_aps"
    BY <1>7 DEF enable_lapic
  <2>2. CASE i = -1 /\ i' = 0 /\ LAPIC_BASE' = TRUE /\ UNCHANGED <<stray, pc>>
    BY <2>1, <2>2
  <2>3. CASE i # -1 /\ UsesLapic /\ i' = (i + 1) % IdxSpan /\ UNCHANGED <<LAPIC_BASE, pc>>
    <3>1. LAPIC_BASE
      BY <2>1, <2>3
    <3>2. stray' = FALSE
      BY <2>3, <3>1, NotStray
    <3> QED
      BY <2>1, <2>3, <3>1, <3>2
  <2>4. CASE i # -1 /\ UsesLapic /\ i' = -1 /\ UNCHANGED LAPIC_BASE /\ pc' = "aps"
    <3>1. LAPIC_BASE
      BY <2>1, <2>4
    <3>2. stray' = FALSE
      BY <2>4, <3>1, NotStray
    <3> QED
      BY <2>4, <3>1, <3>2
  <2> QED
    BY <1>7, <2>2, <2>3, <2>4 DEF enable_lapic, ReadLapicAddress
<1>8. CASE Masking
  BY <1>8 DEF Masking
<1>9. CASE run_proc
  BY <1>9 DEF run_proc
<1>10. CASE disable_lapic
  BY <1>10, NotStray DEF disable_lapic, ReadLapicAddress
<1>11. CASE \E b \in BOOLEAN : set_eoi_broadcast(b)
  <2>1. pc = "ready" /\ UsesLapic /\ UNCHANGED <<pc, LAPIC_BASE, i>>
    BY <1>11 DEF set_eoi_broadcast
  <2>2. LAPIC_BASE
    BY <2>1
  <2>3. stray' = FALSE
    BY <2>1, <2>2, NotStray
  <2> QED
    BY <2>1, <2>2, <2>3
<1>12. CASE \E new \in Ipis : send_ipi(new)
  <2>1. pc = "ready" /\ UsesLapic /\ UNCHANGED <<pc, LAPIC_BASE, i>>
    BY <1>12 DEF send_ipi
  <2>2. LAPIC_BASE
    BY <2>1
  <2>3. stray' = FALSE
    BY <2>1, <2>2, NotStray
  <2> QED
    BY <2>1, <2>2, <2>3
<1>13. CASE UNCHANGED vars
  BY <1>13 DEF vars
<1>14. CASE FollowTags
  BY <1>14 DEF FollowTags, Follow
<1> QED
  BY <1>1, <1>2, <1>3, <1>4, <1>5, <1>6, <1>7, <1>8, <1>9, <1>10, <1>11, <1>12, <1>13, <1>14 DEF Next, Boot

-----------------------------------------------------------------------------
(* The MADT. *)

\* Once it is found nothing changes it.
LEMMA MadtKept ==
  ASSUME MadtInv, UNCHANGED <<machine, MADT>>,
         pc \notin {"tags", "acpi", "madt"}, pc' \notin {"tags", "acpi", "madt"}
  PROVE  MadtInv'
BY DEF MadtInv, MadtLookup

LEMMA MadtStep ==
  ASSUME PlatformInv, [Next]_vars
  PROVE  MadtInv'
<1> USE DEF At, Goto, Crash, acpiVars, tableVars, lapicVars, cpuVars
<1>1. MadtInv
  BY DEF PlatformInv
<1>2. CASE FindTags
  BY <1>1, <1>2 DEF FindTags, Follow, MadtInv, MadtLookup
<1>3. CASE CallInitAcpi
  <2>1. UNCHANGED <<machine, MADT, crashed>> /\ ~crashed /\ MADT = NULL /\ pc' = "madt"
    BY <1>1, <1>3 DEF CallInitAcpi, MadtInv
  <2>2. sdt' = InitAcpi(machine.rsdp, machine.tables)
    BY <1>3 DEF CallInitAcpi
  <2> QED
    BY <1>1, <2>1, <2>2 DEF MadtInv, MadtLookup
<1>4. CASE ParseMadt
  <2>1. /\ machine' = machine /\ sdt' = sdt /\ ~crashed /\ machine \in Machines
        /\ sdt = InitAcpi(machine.rsdp, machine.tables)
        /\ MADT' = FindTable(sdt, machine.tables, "APIC")
    BY <1>1, <1>4 DEF ParseMadt, MadtInv
  <2>2. PICK m, s, found : m = machine /\ s = sdt /\ found = FindTable(s, m.tables, "APIC")
    OBVIOUS
  <2>3. m \in Machines /\ s = InitAcpi(m.rsdp, m.tables) /\ MADT' = found
    BY <2>1, <2>2
  <2>4. /\ found \in DOMAIN m.tables \cup {NULL}
        /\ found # NULL =>
              /\ ValidRsdp(m.rsdp)
              /\ \E k \in DOMAIN RootTable(m).next :
                    /\ GoodMadt(m, k) /\ found = RootTable(m).next[k]
                    /\ \A j \in 1 .. k - 1 : ~GoodMadt(m, j)
        /\ (found = NULL /\ ValidRsdp(m.rsdp)) =>
              \A k \in DOMAIN RootTable(m).next : ~GoodMadt(m, k)
    BY <2>2, <2>3, MadtFound
  <2>5. MadtLookup'
    <3>1. machine' = m /\ (crashed' /\ pc' = "madt" => found = NULL)
      BY <1>4, <2>1, <2>2, <2>3 DEF ParseMadt
    <3> QED
      BY <2>3, <2>4, <3>1 DEF MadtLookup
  <2>6. pc' = "madt" \/ (pc' = "pages" /\ found # NULL)
    BY <1>4, <2>3 DEF ParseMadt
  <2>7. machine' = m /\ sdt' = InitAcpi(m.rsdp, m.tables)
    BY <2>1, <2>2
  <2> QED
    BY <2>3, <2>4, <2>5, <2>6, <2>7 DEF MadtInv
<1>5. CASE InitializeIdt
  BY <1>1, <1>5, MadtKept DEF InitializeIdt
<1>6. CASE enable_lapic("lapic", "gdt")
  BY <1>1, <1>6, MadtKept DEF enable_lapic
<1>7. CASE initialize_gdt
  BY <1>1, <1>7, MadtKept DEF initialize_gdt
<1>8. CASE enable_lapic("startup_aps", "aps")
  BY <1>1, <1>8, MadtKept DEF enable_lapic
<1>9. CASE Masking
  BY <1>1, <1>9, MadtKept DEF Masking
<1>10. CASE run_proc
  BY <1>1, <1>10, MadtKept DEF run_proc
<1>11. CASE disable_lapic
  BY <1>1, <1>11, MadtKept DEF disable_lapic
<1>12. CASE \E b \in BOOLEAN : set_eoi_broadcast(b)
  BY <1>1, <1>12, MadtKept DEF set_eoi_broadcast
<1>13. CASE \E new \in Ipis : send_ipi(new)
  BY <1>1, <1>13, MadtKept DEF send_ipi
<1>14. CASE UNCHANGED vars
  BY <1>1, <1>14 DEF vars, MadtInv, MadtLookup
<1>15. CASE FollowTags
  BY <1>1, <1>15, MadtKept DEF FollowTags, Follow
<1> QED
  BY <1>2, <1>3, <1>4, <1>5, <1>6, <1>7, <1>8, <1>9, <1>10, <1>11, <1>12, <1>13, <1>14, <1>15
     DEF Next, Boot

-----------------------------------------------------------------------------
(* The pins for NMIs. *)

\* r is a record for the pin of this processor.
For(r, pin) == r.acpi_processor_id \in {LapicId, ALL_LAPICS} /\ r.lint = (pin = "LINT0")

\* The first n records and one more.
LEMMA OneMoreRecord ==
  ASSUME NEW records \in Seq(NmiRecords), NEW n \in 0 .. Len(records) - 1,
         NEW pin \in {"LINT0", "LINT1"}
  PROVE  Programmed(records, n + 1, pin) =
            IF For(records[n + 1], pin) THEN NmiPin(records[n + 1])
            ELSE Programmed(records, n, pin)
<1> DEFINE Mine(k) == {j \in 1 .. k : For(records[j], pin)}
<1>1. \A k : Programmed(records, k, pin)
               = IF Mine(k) = {} THEN FirmwarePin ELSE NmiPin(records[Max(Mine(k))])
  BY DEF Programmed, For
<1>2. n \in Nat /\ n + 1 \in Nat
  OBVIOUS
<1>3. CASE For(records[n + 1], pin)
  <2>1. n + 1 \in Mine(n + 1) /\ Mine(n + 1) \in SUBSET (0 .. n + 1)
    BY <1>2, <1>3
  <2>2. Max(Mine(n + 1)) \in Mine(n + 1) /\ \A y \in Mine(n + 1) : y <= Max(Mine(n + 1))
    <3> HIDE DEF Mine
    <3> QED
      BY <1>2, <2>1, MaxOfNaturals
  <2>3. Max(Mine(n + 1)) = n + 1
    <3>1. Max(Mine(n + 1)) \in 1 .. n + 1
      BY <2>2
    <3> HIDE DEF Mine
    <3> QED
      BY <1>2, <2>1, <2>2, <3>1
  <2> HIDE DEF Mine
  <2> QED
    BY <1>1, <1>3, <2>1, <2>3
<1>4. CASE ~For(records[n + 1], pin)
  <2>1. Mine(n + 1) = Mine(n)
    BY <1>2, <1>4
  <2> HIDE DEF Mine
  <2> QED
    BY <1>1, <1>4, <2>1
<1> QED
  BY <1>3, <1>4

LEMMA NoRecords ==
  ASSUME NEW records, NEW pin
  PROVE  Programmed(records, 0, pin) = FirmwarePin
BY DEF Programmed

\* enable_nmi programs the pin of its record, if it is for this processor.
LEMMA PinSet ==
  ASSUME NEW r \in NmiRecords, enable_nmi(r),
         DOMAIN lapic = {"spurious", "LINT0", "LINT1", "ICR1"}
  PROVE  /\ DOMAIN lapic' = DOMAIN lapic
         /\ lapic'.spurious = lapic.spurious /\ lapic'.ICR1 = lapic.ICR1
         /\ \A pin \in {"LINT0", "LINT1"} :
               lapic'[pin] = IF For(r, pin) THEN NmiPin(r) ELSE lapic[pin]
<1>1. r.lint \in BOOLEAN
  BY DEF NmiRecords
<1>2. PICK e : e = NmiPin(r)
  OBVIOUS
<1>3. CASE r.acpi_processor_id \notin {LapicId, ALL_LAPICS}
  BY <1>3 DEF enable_nmi, For
<1>4. CASE r.acpi_processor_id \in {LapicId, ALL_LAPICS} /\ r.lint = TRUE
  <2>1. lapic' = [lapic EXCEPT !["LINT0"] = e]
    BY <1>2, <1>4 DEF enable_nmi
  <2>2. For(r, "LINT0") /\ ~For(r, "LINT1")
    BY <1>4 DEF For
  <2> QED
    BY <1>2, <2>1, <2>2
<1>5. CASE r.acpi_processor_id \in {LapicId, ALL_LAPICS} /\ r.lint = FALSE
  <2>1. lapic' = [lapic EXCEPT !["LINT1"] = e]
    BY <1>2, <1>5 DEF enable_nmi
  <2>2. For(r, "LINT1") /\ ~For(r, "LINT0")
    BY <1>5 DEF For
  <2> QED
    BY <1>2, <2>1, <2>2
<1> QED
  BY <1>1, <1>3, <1>4, <1>5

\* get_nmi_record finds a record exactly at the indices below their number.
LEMMA RecordsFound ==
  ASSUME 0 < Len(nmis), Len(nmis) < IdxSpan, Len(nmis) \in Nat, NEW idx \in 0 .. Len(nmis)
  PROVE  get_nmi_record(idx) = IF idx < Len(nmis) THEN {nmis[idx + 1]} ELSE {}
<1>1. PICK n \in Nat : n = Len(nmis)
  OBVIOUS
<1>2. n - 1 \in Nat /\ n - 1 < IntSpan /\ IntSpan \in Nat /\ IntSpan >= 64
  BY <1>1, PlatformConstants, AcpiConstants
<1>3. SizeSpan \in Nat /\ SizeSpan >= IntSpan
  BY <1>2 DEF SizeSpan
<1>4. (n - 1) % SizeSpan = n - 1
  <2>1. SizeSpan \in Nat \ {0} /\ 0 \in Nat /\ n - 1 \in 0 .. SizeSpan - 1 /\ n - 1 = SizeSpan * 0 + (n - 1)
    BY <1>2, <1>3
  <2> QED
    BY <1>2, <2>1, QuotientIs
<1> QED
  BY <1>1, <1>4 DEF get_nmi_record

\* The records there are, once the MADT is found.
LEMMA RecordTypes ==
  ASSUME MadtInv, pc \notin {"tags", "acpi", "madt"}
  PROVE  nmis \in Seq(NmiRecords) /\ Len(nmis) \in Nat
<1>1. machine \in Machines /\ MADT \in DOMAIN machine.tables
  BY DEF MadtInv
<1>2. nmis \in Seq(NmiRecords)
  BY <1>1, MachineTables DEF nmis
<1> QED
  BY <1>2

LEMMA FoundTypes ==
  ASSUME MadtInv, pc \notin {"tags", "acpi", "madt"}, NEW idx, NEW r \in get_nmi_record(idx),
         idx \in Nat
  PROVE  r \in NmiRecords
<1>1. nmis \in Seq(NmiRecords) /\ Len(nmis) \in Nat
  BY RecordTypes
<1>2. r \in Junk \/ (idx < Len(nmis) /\ r = nmis[idx + 1])
  BY DEF get_nmi_record
<1>3. idx < Len(nmis) => nmis[idx + 1] \in NmiRecords
  BY <1>1
<1> QED
  BY <1>2, <1>3, PlatformConstants

\* The parts of PinInv.
LapicType == DOMAIN lapic = {"spurious", "LINT0", "LINT1", "ICR1"} /\ lapic.spurious \subseteq {8, 12}

PinsPassed ==
    (pc \in {"lapic", "gdt"} /\ 0 < Len(nmis) /\ Len(nmis) < IdxSpan) =>
        /\ Passed \in 0 .. Len(nmis)
        /\ \A pin \in {"LINT0", "LINT1"} : lapic[pin] = Programmed(nmis, Passed, pin)

PinsEarly == pc \in Early => lapic.LINT0 = FirmwarePin /\ lapic.LINT1 = FirmwarePin

LEMMA PinParts == PinInv <=> LapicType /\ PinsEarly /\ PinsPassed
BY DEF PinInv, LapicType, PinsEarly, PinsPassed

LEMMA PinPartsNext == PinInv' <=> (LapicType /\ PinsEarly /\ PinsPassed)'
BY PinParts, PTL

\* Behind "gdt" the records do not matter any more.
LEMMA PinsLater ==
  ASSUME LapicType', pc' \notin Early \cup {"lapic", "gdt"}
  PROVE  PinInv'
BY PinPartsNext DEF PinsEarly, PinsPassed

\* Before "lapic" the pins are as they were.
LEMMA PinsBefore ==
  ASSUME PinInv, pc \in Early, pc' \in Early, lapic' = lapic
  PROVE  PinInv'
BY PinParts, PinPartsNext DEF LapicType, PinsEarly, PinsPassed, Early

\* One round of the loop of enable_lapic.
LEMMA PinRound ==
  ASSUME PlatformInv, pc = "lapic", i # -1, NEW r \in get_nmi_record(i), enable_nmi(r),
         i' = (i + 1) % IdxSpan, UNCHANGED <<pc, machine, MADT>>
  PROVE  PinInv'
<1>1. MadtInv /\ PinInv /\ i \in 0 .. IdxSpan - 1
  BY DEF PlatformInv, BaseInv
<1>2. nmis \in Seq(NmiRecords) /\ Len(nmis) \in Nat /\ nmis' = nmis
  BY <1>1, RecordTypes DEF nmis
<1>3. r \in NmiRecords
  BY <1>1, FoundTypes
<1>4. DOMAIN lapic = {"spurious", "LINT0", "LINT1", "ICR1"}
  BY <1>1 DEF PinInv
<1>5. /\ DOMAIN lapic' = DOMAIN lapic
      /\ lapic'.spurious = lapic.spurious
      /\ \A pin \in {"LINT0", "LINT1"} :
            lapic'[pin] = IF For(r, pin) THEN NmiPin(r) ELSE lapic[pin]
  BY <1>3, <1>4, PinSet
<1>6. LapicType' /\ PinsEarly'
  BY <1>1, <1>5 DEF PinInv, LapicType, PinsEarly, Early
<1>7. ASSUME 0 < Len(nmis), Len(nmis) < IdxSpan
      PROVE  /\ Passed' \in 0 .. Len(nmis)
             /\ \A pin \in {"LINT0", "LINT1"} : lapic'[pin] = Programmed(nmis, Passed', pin)
  <2>1. i \in 0 .. Len(nmis) /\ \A pin \in {"LINT0", "LINT1"} : lapic[pin] = Programmed(nmis, i, pin)
    BY <1>1, <1>7 DEF PinInv, Passed, Early
  <2>2. get_nmi_record(i) = IF i < Len(nmis) THEN {nmis[i + 1]} ELSE {}
    BY <1>2, <1>7, <2>1, RecordsFound
  <2>3. i \in 0 .. Len(nmis) - 1 /\ r = nmis[i + 1]
    BY <1>2, <2>1, <2>2
  <2>4. i' = i + 1 /\ Passed' = i + 1
    <3>1. i + 1 \in 0 .. IdxSpan - 1
      BY <1>2, <1>7, <2>3, PlatformConstants
    <3>2. i' = i + 1
      BY <3>1, PlatformConstants
    <3> QED
      BY <3>1, <3>2 DEF Passed, Early
  <2>5. \A pin \in {"LINT0", "LINT1"} :
           Programmed(nmis, i + 1, pin) = IF For(r, pin) THEN NmiPin(r) ELSE Programmed(nmis, i, pin)
    BY <1>2, <2>3, OneMoreRecord
  <2> QED
    BY <1>2, <1>5, <2>1, <2>3, <2>4, <2>5
<1>8. PinsPassed'
  BY <1>2, <1>7 DEF PinsPassed
<1> QED
  BY <1>6, <1>8, PinPartsNext

LEMMA PinStep ==
  ASSUME PlatformInv, [Next]_vars
  PROVE  PinInv'
<1> USE DEF At, Goto, Crash, acpiVars, tableVars, lapicVars, cpuVars
<1>1. /\ MadtInv /\ PinInv /\ ReadyInv /\ BaseInv
      /\ LapicType /\ PinsEarly /\ PinsPassed
  BY PinParts DEF PlatformInv
<1>2. CASE FindTags
  BY <1>1, <1>2, PinsBefore DEF FindTags, Follow, Early
<1>3. CASE CallInitAcpi
  BY <1>1, <1>3, PinsBefore DEF CallInitAcpi, Early
<1>4. CASE ParseMadt
  BY <1>1, <1>4, PinsBefore DEF ParseMadt, Early
<1>5. CASE InitializeIdt
  <2>1. CASE pc' \in Early
    BY <1>1, <1>5, <2>1, PinsBefore DEF InitializeIdt, Early
  <2>2. CASE pc' \notin Early
    <3>1. /\ pc = "load" /\ pc' = "lapic" /\ lapic' = lapic /\ i' = i /\ i = -1
          /\ machine' = machine /\ MADT' = MADT
      BY <1>1, <1>5, <2>2 DEF InitializeIdt, Early, BaseInv
    <3>2. LapicType' /\ PinsEarly' /\ \A pin \in {"LINT0", "LINT1"} : lapic'[pin] = FirmwarePin
      BY <1>1, <3>1 DEF LapicType, PinsEarly, Early
    <3>3. Passed' = 0 /\ nmis' = nmis
      BY <3>1 DEF Passed, Early, nmis
    <3>4. Len(nmis) \in Nat
      BY <1>1, <3>1, RecordTypes
    <3>5. PinsPassed'
      BY <3>2, <3>3, <3>4, NoRecords DEF PinsPassed
    <3> QED
      BY <3>2, <3>5, PinPartsNext
  <2> QED
    BY <2>1, <2>2
<1>6. CASE enable_lapic("lapic", "gdt")
  <2>1. pc = "lapic" /\ UNCHANGED <<machine, MADT>>
    BY <1>6 DEF enable_lapic
  <2>2. nmis' = nmis /\ Len(nmis) \in Nat
    BY <1>1, <2>1, RecordTypes DEF nmis
  <2>3. CASE i = -1 /\ i' = 0 /\ UNCHANGED <<lapic, pc>>
    <3>1. Passed = 0 /\ Passed' = 0
      BY <2>1, <2>3 DEF Passed, Early
    <3> QED
      BY <1>1, <2>1, <2>2, <2>3, <3>1, PinPartsNext DEF LapicType, PinsEarly, PinsPassed, Early
  <2>4. CASE /\ i # -1 /\ \E r \in get_nmi_record(i) : enable_nmi(r)
             /\ i' = (i + 1) % IdxSpan /\ UNCHANGED pc
    BY <2>1, <2>4, PinRound
  <2>5. CASE /\ i # -1 /\ get_nmi_record(i) = {} /\ pc' = "gdt"
             /\ lapic' = [lapic EXCEPT !.spurious = Enabled(@)]
    <3>1. LapicType' /\ PinsEarly' /\ \A pin \in {"LINT0", "LINT1"} : lapic'[pin] = lapic[pin]
      BY <1>1, <2>5 DEF LapicType, PinsEarly, Early, Enabled
    <3>2. Passed' = Len(nmis)
      BY <2>2, <2>5 DEF Passed, Early
    <3>3. ASSUME 0 < Len(nmis), Len(nmis) < IdxSpan
          PROVE  \A pin \in {"LINT0", "LINT1"} : lapic[pin] = Programmed(nmis, Len(nmis), pin)
      <4>1. Passed = i
        BY <2>1, <2>5 DEF Passed, Early
      <4>2. i \in 0 .. Len(nmis) /\ \A pin \in {"LINT0", "LINT1"} : lapic[pin] = Programmed(nmis, i, pin)
        BY <1>1, <2>1, <3>3, <4>1 DEF PinsPassed
      <4>3. get_nmi_record(i) = IF i < Len(nmis) THEN {nmis[i + 1]} ELSE {}
        BY <2>2, <3>3, <4>2, RecordsFound
      <4>4. i = Len(nmis)
        BY <2>2, <2>5, <4>2, <4>3
      <4> QED
        BY <4>2, <4>4
    <3>4. PinsPassed'
      BY <2>2, <3>1, <3>2, <3>3 DEF PinsPassed
    <3> QED
      BY <3>1, <3>4, PinPartsNext
  <2> QED
    BY <1>6, <2>3, <2>4, <2>5 DEF enable_lapic
<1>7. CASE initialize_gdt
  <2>1. lapic' = lapic /\ UNCHANGED <<machine, MADT, i>> /\ pc = "gdt" /\ pc' \in {"gdt", "unmask"}
    BY <1>7 DEF initialize_gdt
  <2>2. CASE pc' = "gdt"
    <3>1. nmis' = nmis /\ Passed = Len(nmis) /\ Passed' = Len(nmis)
      BY <2>1, <2>2 DEF nmis, Passed, Early
    <3> QED
      BY <1>1, <2>1, <2>2, <3>1, PinPartsNext DEF LapicType, PinsEarly, PinsPassed, Early
  <2>3. CASE pc' = "unmask"
    BY <1>1, <2>1, <2>3, PinsLater DEF LapicType, Early
  <2> QED
    BY <2>1, <2>2, <2>3
<1>8. CASE enable_lapic("startup_aps", "aps")
  <2>1. pc = "startup_aps" /\ pc' \in {"startup_aps", "aps"}
    BY <1>8 DEF enable_lapic
  <2>2. CASE UNCHANGED lapic
    BY <1>1, <2>1, <2>2, PinsLater DEF LapicType, Early
  <2>3. CASE lapic' = [lapic EXCEPT !.spurious = Enabled(@)]
    BY <1>1, <2>1, <2>3, PinsLater DEF LapicType, Early, Enabled
  <2>4. CASE i # -1 /\ \E r \in get_nmi_record(i) : enable_nmi(r)
    <3>1. PICK r \in get_nmi_record(i) : enable_nmi(r)
      BY <2>4
    <3>2. i \in Nat
      BY <1>1, <2>4, PlatformConstants DEF BaseInv
    <3>3. r \in NmiRecords
      BY <1>1, <2>1, <3>1, <3>2, FoundTypes
    <3>4. LapicType'
      BY <1>1, <3>1, <3>3, PinSet DEF LapicType
    <3> QED
      BY <2>1, <3>4, PinsLater DEF Early
  <2> QED
    BY <1>8, <2>2, <2>3, <2>4 DEF enable_lapic
<1>9. CASE Masking
  BY <1>1, <1>9, PinsLater DEF Masking, LapicType, Early
<1>10. CASE run_proc
  BY <1>1, <1>10, PinsLater DEF run_proc, LapicType, Early
<1>11. CASE disable_lapic
  BY <1>1, <1>11, PinsLater DEF disable_lapic, LapicType, Early
<1>12. CASE \E b \in BOOLEAN : set_eoi_broadcast(b)
  <2>1. pc' = "ready" /\ (lapic' = lapic \/ lapic' = [lapic EXCEPT !.spurious = @ \cup {12}])
    BY <1>12 DEF set_eoi_broadcast
  <2> QED
    BY <1>1, <2>1, PinsLater DEF LapicType, Early
<1>13. CASE \E new \in Ipis : send_ipi(new)
  <2>1. PICK new \in Ipis : send_ipi(new)
    BY <1>13
  <2>2. pc' = "ready" /\ (lapic' = lapic \/ lapic' = [lapic EXCEPT !.ICR1 = new.upper_dword])
    BY <2>1 DEF send_ipi
  <2> QED
    BY <1>1, <2>2, PinsLater DEF LapicType, Early
<1>14. CASE UNCHANGED vars
  <2>1. UNCHANGED <<pc, i, lapic, machine, MADT>>
    BY <1>14 DEF vars
  <2>2. nmis' = nmis /\ Passed' = Passed
    BY <2>1 DEF nmis, Passed
  <2> QED
    BY <1>1, <2>1, <2>2, PinPartsNext DEF LapicType, PinsEarly, PinsPassed
<1>15. CASE FollowTags
  <2>1. lapic' = lapic /\ (pc' = pc \/ pc' \in {"idt", "mask", "keyboard"})
        /\ pc \in {"pages", "aps", "modules"} /\ (pc = "pages" <=> pc' \in Early)
    BY <1>15 DEF FollowTags, Follow, Early
  <2>2. CASE pc = "pages"
    BY <1>1, <2>1, <2>2, PinsBefore DEF Early
  <2>3. CASE pc # "pages"
    BY <1>1, <2>1, <2>3, PinsLater DEF LapicType, Early
  <2> QED
    BY <2>2, <2>3
<1> QED
  BY <1>2, <1>3, <1>4, <1>5, <1>6, <1>7, <1>8, <1>9, <1>10, <1>11, <1>12, <1>13, <1>14, <1>15
     DEF Next, Boot

-----------------------------------------------------------------------------
(* The theorems. *)

LEMMA PlatformInit == Init => PlatformInv
<1> SUFFICES ASSUME Init PROVE PlatformInv
  OBVIOUS
<1>1. FlagTypes
  BY DEF Init, FlagTypes
<1>2. MadtInv
  BY DEF Init, MadtInv, MadtLookup
<1>3. ReadyInv
  BY DEF Init, ReadyInv, Labels, Early, Booted
<1>4. SegmentInv
  <2>1. BootloaderGdt # OurGdt
    BY DEF BootloaderGdt, OurGdt, KernelGdt
  <2> QED
    BY <2>1 DEF Init, SegmentInv, Booted
<1>5. BaseInv
  BY PlatformConstants DEF Init, BaseInv, Booted
<1>6. PinInv
  BY DEF Init, PinInv
<1> QED
  BY <1>1, <1>2, <1>3, <1>4, <1>5, <1>6 DEF PlatformInv

LEMMA AlwaysPlatform == Spec => []PlatformInv
<1>1. PlatformInv /\ [Next]_vars => PlatformInv'
  BY FlagStep, MadtStep, ReadyStep, SegmentStep, BaseStep, PinStep DEF PlatformInv
<1> QED
  BY <1>1, PlatformInit, PTL DEF Spec

(***************************************************************************)
(* Whatever root table the RSDP leads to, the MADT that ParseMadt reads is *)
(* the first one there that is valid, and it reads at address 0 only if    *)
(* there is none: the size_t difference in FindTable that wraps around     *)
(* when InitAcpi failed finds nothing.                                     *)
(***************************************************************************)
THEOREM MadtSafe == Spec => []MadtLookup
<1>1. PlatformInv => MadtLookup
  BY DEF PlatformInv, MadtInv
<1> QED
  BY <1>1, AlwaysPlatform, PTL

(***************************************************************************)
(* For every list of NMI records that the uint8_t index of enable_lapic    *)
(* can count, its loop programs one pin by the last record of this         *)
(* processor for LINT0, the other by the last one for LINT1, and leaves a  *)
(* pin for which there is none alone.  (It exchanges the two pins, which   *)
(* the property leaves open and PinsAsNamed does not.)                     *)
(***************************************************************************)
THEOREM LapicSafe == Spec => []LapicProgrammed
<1>1. PlatformInv => LapicProgrammed
  <2> SUFFICES ASSUME PlatformInv, At("gdt"), Countable
               PROVE  ByRecords("LINT1", FALSE) /\ ByRecords("LINT0", ~FALSE)
    BY Zenon DEF LapicProgrammed
  <2>1. pc = "gdt" /\ MadtInv /\ PinInv
    BY DEF At, PlatformInv
  <2>2. DOMAIN nmis = 1 .. Len(nmis)
    BY <2>1, RecordTypes
  <2>3. Passed = Len(nmis)
    BY <2>1 DEF Passed, Early
  <2>4. \A pin \in {"LINT0", "LINT1"} : lapic[pin] = Programmed(nmis, Len(nmis), pin)
    BY <2>1, <2>3 DEF PinInv, Countable
  <2>5. ASSUME NEW pin \in {"LINT0", "LINT1"}
        PROVE  ByRecords(pin, pin = "LINT0")
    BY <2>2, <2>4 DEF Programmed, ByRecords
  <2>6. ByRecords("LINT0", "LINT0" = "LINT0") /\ ByRecords("LINT1", "LINT1" = "LINT0")
    BY <2>5
  <2>7. ("LINT0" = "LINT0") = ~FALSE /\ ("LINT1" = "LINT0") = FALSE
    OBVIOUS
  <2> QED
    BY <2>6, <2>7
<1> QED
  BY <1>1, AlwaysPlatform, PTL

-----------------------------------------------------------------------------
(* Descriptors, as the processor reads them. *)

\* The bytes of an address, taken apart and put together again.
LEMMA AddressWhole ==
  ASSUME NEW a, NEW x, a = [b \in 1 .. 8 |-> <<x, b>>]
  PROVE  /\ SubSeq(a, 1, 2) \o SubSeq(a, 3, 4) \o SubSeq(a, 5, 8) = a
         /\ SubSeq(a, 1, 2) \o SubSeq(a, 3, 3) \o SubSeq(a, 4, 4) \o SubSeq(a, 5, 8) = a
OBVIOUS

LEMMA Gates ==
  ASSUME NEW v \in {33, 34, 128}
  PROVE  /\ v \in DOMAIN Handlers
         /\ IsInterruptGate(Handlers[v], IF v = 128 THEN 3 ELSE 0)
         /\ HandlerOf(Handlers[v]) = isr(v)
         /\ Handlers[v].segment = KERN_CS_SEGSEL
<1>1. v \in DOMAIN Handlers
  BY DEF Handlers
<1>2. PICK h : h = isr(v)
  OBVIOUS
<1>3. Handlers[v] = SetIdtEntry(h, IF v = 128 THEN 238 ELSE 142)
  BY <1>2 DEF Handlers, INTERRUPT_GATE, USER_MODE_INT
<1>4. HandlerOf(Handlers[v]) = h
  <2>1. SubSeq(h, 1, 2) \o SubSeq(h, 3, 4) \o SubSeq(h, 5, 8) = h
    BY <1>2, AddressWhole DEF isr
  <2>2. /\ Handlers[v].handler_low = SubSeq(h, 1, 2)
        /\ Handlers[v].handler_mid = SubSeq(h, 3, 4)
        /\ Handlers[v].handler_high = SubSeq(h, 5, 8)
    BY <1>3 DEF SetIdtEntry
  <2> QED
    BY <2>1, <2>2 DEF HandlerOf
<1>5. Handlers[v].attributes = (IF v = 128 THEN 238 ELSE 142) /\ Handlers[v].segment = KERN_CS_SEGSEL
  BY <1>3 DEF SetIdtEntry
<1>6. IsInterruptGate(Handlers[v], IF v = 128 THEN 3 ELSE 0)
  <2>1. CASE v = 128
    BY <1>5, <2>1 DEF IsInterruptGate, Bit
  <2>2. CASE v # 128
    BY <1>5, <2>2 DEF IsInterruptGate, Bit
  <2> QED
    BY <2>1, <2>2
<1> QED
  BY <1>1, <1>2, <1>4, <1>5, <1>6

\* Kernel code is at the same place in both tables.
LEMMA KernelCode ==
  ASSUME NEW g, g = BootloaderGdt \/ g = OurGdt
  PROVE  IsCode64(g, KERN_CS_SEGSEL, 0)
<1>1. /\ 6 \in DOMAIN g.segments /\ 47 < g.bytes
      /\ g.segments[6].access = 154 /\ g.segments[6].limit_and_flags = 162
  <2>1. CASE g = BootloaderGdt
    BY <2>1 DEF BootloaderGdt, segments, Segment
  <2>2. CASE g = OurGdt
    BY <2>2 DEF OurGdt, KernelGdt, segments, Segment
  <2> QED
    BY <2>1, <2>2
<1> QED
  BY <1>1 DEF IsCode64, Loadable, KERN_CS_SEGSEL, Bit

LEMMA UserSegments ==
  /\ IsCode64(OurGdt, USER_CS_SEGSEL, 3)
  /\ IsData(OurGdt, USER_DS_SEGSEL, 3)
  /\ IsTss(OurGdt, TSS_SEGSEL)
  /\ TssBase(OurGdt.tss) = TssAddress(LapicId)
<1>1. PICK g : g = OurGdt
  OBVIOUS
<1>2. /\ 8 \in DOMAIN g.segments /\ 9 \in DOMAIN g.segments /\ g.bytes = 88 /\ Len(g.segments) = 9
      /\ g.segments[8].access = 250 /\ g.segments[8].limit_and_flags = 32
      /\ g.segments[9].access = 242
  BY <1>1 DEF OurGdt, KernelGdt, segments, Segment
<1>3. IsCode64(g, USER_CS_SEGSEL, 3)
  BY <1>2 DEF IsCode64, Loadable, USER_CS_SEGSEL, Bit
<1>4. IsData(g, USER_DS_SEGSEL, 3)
  BY <1>2 DEF IsData, Loadable, USER_DS_SEGSEL, Bit
<1>5. g.tss = OurTss
  BY <1>1 DEF OurGdt, KernelGdt
<1>6. IsTss(g, TSS_SEGSEL)
  <2>1. OurTss.flags1 = 137 /\ OurTss.length = 104
    BY DEF OurTss, set_tss_entry
  <2>2. OurTss # NoTss
    BY <2>1 DEF NoTss
  <2> QED
    BY <1>2, <1>5, <2>1, <2>2 DEF IsTss, TSS_SEGSEL
<1>7. TssBase(OurTss) = TssAddress(LapicId)
  <2>1. PICK a : a = TssAddress(LapicId)
    OBVIOUS
  <2>2. SubSeq(a, 1, 2) \o SubSeq(a, 3, 3) \o SubSeq(a, 4, 4) \o SubSeq(a, 5, 8) = a
    BY <2>1, AddressWhole DEF TssAddress
  <2> QED
    BY <2>1, <2>2 DEF TssBase, OurTss, set_tss_entry
<1> QED
  BY <1>1, <1>3, <1>4, <1>5, <1>6, <1>7

\* Maskable interrupts come from the timer's and the keyboard's lines, and
\* programs make system calls.
LEMMA RaisedVectors ==
  ASSUME PlatformInv, NEW v \in Raised \ {NMI}
  PROVE  /\ v \in {33, 34, 128} /\ pc \notin Early
         /\ v # 128 => interrupts /\ irqs # {}
<1>1. pc \in Early => ~interrupts /\ irqs = {} /\ cpl = 0
  BY DEF PlatformInv, ReadyInv, Early, Booted
<1>2. pc \notin Early => pics
  BY DEF PlatformInv, ReadyInv, Early
<1>3. irqs \subseteq {1, 2}
  BY DEF PlatformInv, ReadyInv
<1> QED
  BY <1>1, <1>2, <1>3 DEF Raised, NMI

(***************************************************************************)
(* From LoadIdt on, whatever machine this is and between whichever steps   *)
(* of _start, run_proc or lapic.c a maskable interrupt or a system call    *)
(* comes, it finds its gate, kernel code and, from user mode, a kernel     *)
(* stack, and the LAPIC's registers are used only when their address is    *)
(* known.  (An NMI finds no gate: AllInterruptsServed is refuted.)         *)
(***************************************************************************)
THEOREM InterruptsSafe == Spec => []MaskableServed
<1>1. PlatformInv => TypeOK
  BY DEF PlatformInv, FlagTypes, MadtInv, ReadyInv, BaseInv, PinInv, TypeOK
<1>2. PlatformInv => MaskableEntry
  <2> SUFFICES ASSUME PlatformInv, NEW v \in Raised \ {NMI}
               PROVE  Served(v)
    BY DEF MaskableEntry
  <2>1. v \in {33, 34, 128} /\ pc \notin Early
    BY RaisedVectors
  <2>2. idtLoaded /\ IDT = Handlers
    BY <2>1 DEF PlatformInv, ReadyInv, Early
  <2>3. IsCode64(gdt, KERN_CS_SEGSEL, 0)
    BY KernelCode DEF PlatformInv, SegmentInv
  <2>4. cpl = 3 => gdt = OurGdt /\ tr = TSS_SEGSEL /\ TSS.RSP0 = KernelStack
    BY DEF PlatformInv, ReadyInv, SegmentInv, Booted
  <2>5. cpl = 3 => /\ IsCode64(gdt, USER_CS_SEGSEL, 3) /\ IsData(gdt, USER_DS_SEGSEL, 3)
                   /\ IsTss(gdt, tr) /\ TssBase(gdt.tss) = TssAddress(LapicId)
    BY <2>4, UserSegments
  <2> QED
    BY <2>1, <2>2, <2>3, <2>4, <2>5, Gates DEF Served
<1>3. PlatformInv => LapicAddressed
  <2> SUFFICES ASSUME PlatformInv PROVE LapicAddressed
    OBVIOUS
  <2>1. ~stray
    BY DEF PlatformInv, BaseInv
  <2>2. ASSUME NEW v \in Raised \cap {33, 34} PROVE LAPIC_BASE
    <3>1. irqs # {}
      BY <2>2, RaisedVectors DEF NMI
    <3> QED
      BY <3>1 DEF PlatformInv, ReadyInv, BaseInv
  <2> QED
    BY <2>1, <2>2 DEF LapicAddressed
<1> QED
  BY <1>1, <1>2, <1>3, AlwaysPlatform, PTL DEF MaskableServed
=============================================================================
