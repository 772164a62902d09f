------------------------------- MODULE MCApic -------------------------------
(***************************************************************************)
(* Two IO APICs with three and four pins; GSIs 0 to 3 count as those of    *)
(* ISA interrupts.  The IDs run against the GSIs, and so do the addresses. *)
(***************************************************************************)
EXTENDS IoApic

First == [kind |-> "io_apics", addr |-> 8, id |-> 1, gsib |-> 0, pins |-> 3]
Second == [kind |-> "io_apics", addr |-> 4, id |-> 0, gsib |-> 3, pins |-> 4]

Iso(irq, gsi, flags) == [kind |-> "isos", irq |-> irq, gsi |-> gsi, flags |-> flags]
NmiSource(gsi, flags) == [kind |-> "nmi_sources", gsi |-> gsi, flags |-> flags]
Lapic(id) == [kind |-> "lapics", apic_id |-> id]
Nmi == [kind |-> "nmis", acpi_processor_id |-> 255]
X2Apic == [kind |-> "x2apic", id |-> 0]

\* The IRQ of the timer is connected to GSI 2, as usual; IRQ 1 is overridden
\* beyond the ISA range.
RecordsFirst ==
    <<Lapic(0), Lapic(1), Iso(0, 2, {}), Iso(1, 5, {2, 8}), NmiSource(6, {2}),
      Second, X2Apic, First, Nmi>>

\* The order most firmware uses: IO APICs before overrides.
IoApicsFirst ==
    <<Lapic(0), Lapic(1), First, Second, [kind |-> "lapic_addr", addr |-> 1],
      Iso(0, 2, {}), Iso(1, 5, {2, 8}), NmiSource(6, {}), Nmi>>

\* A single IO APIC: calls may name GSIs that have no pin.
OneIoApic == <<Lapic(0), First, Iso(0, 2, {})>>

SmallTables == {RecordsFirst, IoApicsFirst, OneIoApic}
=============================================================================
