----------------------------- MODULE MCPlatform -----------------------------
(***************************************************************************)
(* Machines with old and new ACPI tables, sound and broken, and with up to *)
(* as many records of NMIs as an index can tell apart and one more.        *)
(***************************************************************************)
EXTENDS Platform, TLC

CONSTANTS r1, x1, fadt, a1, a2

Tag(id, value) == [identifier |-> id, value |-> value]
AllTags == <<Tag("framebuffer", "fb"), Tag("terminal", "term"), Tag("rsdp", "rsdp"),
             Tag("rsdp", "other"), Tag("memmap", "map"), Tag("pmrs", "pmrs"),
             Tag("kernel_base_address", "base"), Tag("smp", "smp"), Tag("modules", "mods")>>

Rsdp(revision, sum1, sum2) ==
    [revision |-> revision, sum1 |-> sum1, sum2 |-> sum2, rsdt_addr |-> r1, xsdt_addr |-> x1]

Root(next, size, sum) ==
    [signature |-> "RSDT", length |-> 36 + size * Len(next), sum |-> sum, next |-> next,
     nmis |-> <<>>]
Table(signature, sum, records) ==
    [signature |-> signature, length |-> 44, sum |-> sum, next |-> <<>>, nmis |-> records]

Nmi(id, lint, flags) == [acpi_processor_id |-> id, lint |-> lint, flags |-> flags]
Mine == Nmi(1, TRUE, {1})
Other == Nmi(2, FALSE, {3})
All == Nmi(255, TRUE, {3})
AllLow == Nmi(255, FALSE, {})

RecordSeqs ==
    {<<>>, <<All>>, <<Other>>, <<Mine, All>>, <<Other, Mine, AllLow>>,
     <<Mine, Other, Other, Mine>>}

\* In the old root table the MADT comes after one with a broken checksum.
Tables(old, new, records) ==
    (r1 :> Root(old, 4, 0)) @@ (x1 :> Root(new, 8, 7)) @@ (fadt :> Table("FACP", 0, <<>>))
      @@ (a1 :> Table("APIC", 3, <<All>>)) @@ (a2 :> Table("APIC", 512, records))

MCMachines ==
    {[tags |-> AllTags, rsdp |-> Rsdp(2, 256, 512),
      tables |-> Tables(<<fadt>>, <<fadt, a1, a2>>, records)] : records \in RecordSeqs}
    \cup
    {[tags |-> tags, rsdp |-> rsdp, tables |-> Tables(<<a1, a2>>, new, <<Mine>>)] :
        tags \in {SubSeq(AllTags, 1, n) : n \in {0, 2, 5, 7, 8, 9}},
        rsdp \in {Rsdp(0, 0, 9), Rsdp(0, 5, 0), Rsdp(2, 1, 255), Rsdp(2, 0, 255),
                  Rsdp(2, 0, 0), Rsdp(1, 0, 256)},
        new \in {<<>>, <<a1, fadt>>, <<a2, a1>>}}

AnyJunk == {Mine, Other, AllLow}
TwoIpis == {[upper_dword |-> 1, lower_dword |-> 10], [upper_dword |-> 2, lower_dword |-> 20]}
=============================================================================
