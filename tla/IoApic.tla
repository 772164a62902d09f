------------------------------- MODULE IoApic -------------------------------
(***************************************************************************)
(* Interrupt routing (acpi/madt.c, hal/io_apic.c): ParseMadt reads the     *)
(* records of the MADT in the order of the table, registers each IO APIC   *)
(* when it meets it and programs its redirection table from the records    *)
(* read so far; afterwards the kernel changes entries one call at a time.  *)
(*                                                                         *)
(* All of this runs on the boot processor.  A record is a step, a call is  *)
(* a step.  An entry is a record of its fields; the reserved and the       *)
(* read-only ones are left out.  The registers belong to a device, which   *)
(* is named by its address, while the kernel finds it by its ID.           *)
(***************************************************************************)
EXTENDS Integers, Sequences, FiniteSets, FiniteSetsExt

CONSTANTS
    MAX_ISA_IRQ,    \* 16
    MAX_IOAPICS,    \* 16
    Madts,          \* the tables the firmware may supply
    LapicIds,       \* IDs of LAPICs, 0 among them
    BspLapicId,     \* the one of the boot processor
    CallGsis,       \* GSIs and IRQs that callers name
    CallVectors,    \* vectors that callers name
    MaxCalls        \* how many calls are made at most

ASSUME ApicConstants ==
    /\ MAX_ISA_IRQ \in Nat /\ MAX_IOAPICS \in Nat /\ MaxCalls \in Nat
    /\ BspLapicId \in LapicIds /\ 0 \in LapicIds
    /\ CallGsis \subseteq Nat /\ CallVectors \subseteq 0 .. 255

VARIABLES
    madt,           \* records still to be read
    smp_info,       \* SMP_INFO: the records read, by kind
    IOAPICS,        \* [IDs -> what is known of the IO APIC]
    ioredtbl,       \* [addresses -> [pins -> entries]]: the devices' registers
    VECTOR_ATTRS,   \* [vectors that have been used -> GSIs]
    bsp_lapic_id,   \* the static of cpu_init.c
    calls,          \* how many calls have been made
    unmasked        \* GSIs that a caller has asked to be unmasked (history)

vars == <<madt, smp_info, IOAPICS, ioredtbl, VECTOR_ATTRS, bsp_lapic_id, calls,
          unmasked>>

NONE == [none |-> TRUE]

DEFAULT_LAPIC_ADDR == 0

RecordKinds == {"io_apics", "lapics", "isos", "nmi_sources", "nmis"}

\* An smp_info_t before anything has been read.
NoRecords ==
    [io_apics |-> <<>>, lapics |-> <<>>, isos |-> <<>>, nmi_sources |-> <<>>,
     nmis |-> <<>>, lapic_addr |-> DEFAULT_LAPIC_ADDR]

Ids == 0 .. MAX_IOAPICS - 1

\* The records that are looked at; their contents are the firmware's.
IoApicRecords ==
    [kind : {"io_apics"}, addr : Nat, id : Ids, gsib : Nat, pins : Nat \ {0}]
IsoRecords == [kind : {"isos"}, irq : Nat, gsi : Nat, flags : SUBSET Nat]
NmiSourceRecords == [kind : {"nmi_sources"}, gsi : Nat, flags : SUBSET Nat]

\* Two IO APICs are two devices, and no GSI has a pin on both.
Apart(r, s) ==
    /\ r.id # s.id /\ r.addr # s.addr
    /\ r.gsib + r.pins <= s.gsib \/ s.gsib + s.pins <= r.gsib

\* What the kernel takes on trust of a table.
Consistent(table) ==
    /\ \A i \in DOMAIN table :
          /\ table[i].kind = "io_apics" => table[i] \in IoApicRecords
          /\ table[i].kind = "isos" => table[i] \in IsoRecords
          /\ table[i].kind = "nmi_sources" => table[i] \in NmiSourceRecords
    /\ \A i, j \in {k \in DOMAIN table : table[k].kind = "io_apics"} :
          i # j => Apart(table[i], table[j])

\* All records of all tables.
Records == UNION {{table[i] : i \in DOMAIN table} : table \in Madts}

ASSUME ApicTables == \A table \in Madts : table \in Seq(Records) /\ Consistent(table)

Entry(vector, delivery_mode, polarity, trigger_mode, mask) ==
    [vector |-> vector % 256, delivery_mode |-> delivery_mode,
     polarity |-> polarity, trigger_mode |-> trigger_mode, mask |-> mask,
     destination_mode |-> "IOAPIC_PHYSICAL", destination |-> 0]

\* Out of reset every pin is masked.
ResetEntry == Entry(0, "ICR_FIXED", "ACTIVE_HIGH", "EDGE_SENSITIVE", TRUE)

-----------------------------------------------------------------------------
(* Looking up records.  The first that matches counts. *)

FirstOf(records, hits) == IF hits = {} THEN NONE ELSE records[Min(hits)]

gsi_get_iso(info, gsi) ==
    FirstOf(info.isos, {i \in DOMAIN info.isos : info.isos[i].gsi = gsi})

gsi_get_nmi_source(info, gsi) ==
    FirstOf(info.nmi_sources,
            {i \in DOMAIN info.nmi_sources : info.nmi_sources[i].gsi = gsi})

gsi_from_irq(irq) ==
    LET isos == smp_info.isos
        iso == FirstOf(isos, {i \in DOMAIN isos : isos[i].irq = irq})
    IN  IF iso = NONE THEN irq ELSE iso.gsi

get_iso_from_irq(irq) == gsi_get_iso(smp_info, gsi_from_irq(irq))

\* The index of the IO APIC's record: of those that start at gsi or below it
\* the last one with the greatest first GSI; 0 for none.
find_apic_from_gsi(gsi) ==
    LET recs == smp_info.io_apics
        below == {i \in DOMAIN recs : recs[i].gsib <= gsi}
    IN  IF below = {} THEN 0
        ELSE Max({i \in below : \A j \in below : recs[j].gsib <= recs[i].gsib})

\* flags is the set of the bits that are set, by value.
get_pin_polarity(flags) == IF 2 \in flags THEN "ACTIVE_HIGH" ELSE "ACTIVE_LOW"

get_trigger_mode(flags) ==
    IF 8 \in flags THEN "LEVEL_SENSITIVE" ELSE "EDGE_SENSITIVE"

-----------------------------------------------------------------------------
(* Reading the MADT. *)

\* Mutant: interrupts of the PCI bus start unmasked.
InitialEntryUnmasked(info, gsi) ==
    Entry(gsi + 32, "ICR_FIXED", "ACTIVE_HIGH", "LEVEL_SENSITIVE", FALSE)

InitialEntry(info, gsi) ==
    LET iso == gsi_get_iso(info, gsi)
        nmi == gsi_get_nmi_source(info, gsi)
    IN  IF gsi < MAX_ISA_IRQ
        THEN Entry(gsi + 32, "ICR_FIXED", "ACTIVE_HIGH", "EDGE_SENSITIVE", TRUE)
        ELSE IF iso # NONE
        THEN Entry(iso.irq + 32, "ICR_FIXED", get_pin_polarity(iso.flags),
                   get_trigger_mode(iso.flags), TRUE)
        ELSE IF nmi # NONE
        THEN Entry(gsi + 32, "ICR_NMI", get_pin_polarity(nmi.flags),
                   get_trigger_mode(nmi.flags), FALSE)
        ELSE Entry(gsi + 32, "ICR_FIXED", "ACTIVE_HIGH", "LEVEL_SENSITIVE", TRUE)

\* The pins that initialize_ioapic_ints writes: all but that of GSI 0.
PinsOf(r) == {pin \in 0 .. r.pins - 1 : r.gsib + pin # 0}

initialize_ioapic_ints(info, r) ==
    LET new == [pin \in PinsOf(r) |-> InitialEntry(info, r.gsib + pin)]
        used(v) == {pin \in PinsOf(r) : new[pin].vector = v}
    IN  /\ ioredtbl' = [ioredtbl EXCEPT ![r.addr] =
              [pin \in DOMAIN @ |->
                  IF pin \in PinsOf(r)
                  THEN [new[pin] EXCEPT !.destination = bsp_lapic_id]
                  ELSE @[pin]]]
        /\ VECTOR_ATTRS' =
              [v \in DOMAIN VECTOR_ATTRS \cup {new[pin].vector : pin \in PinsOf(r)} |->
                  IF used(v) # {} THEN r.gsib + Max(used(v)) ELSE VECTOR_ATTRS[v]]

register_ioapic(info, r) ==
    /\ IOAPICS' = [IOAPICS EXCEPT ![r.id] =
                      [addr |-> r.addr, min_gsi |-> r.gsib, num_pins |-> r.pins]]
    /\ initialize_ioapic_ints(info, r)

Init ==
    /\ madt \in Madts
    /\ smp_info = NoRecords
    /\ IOAPICS = [id \in Ids |-> NONE]
    /\ LET found == {i \in DOMAIN madt : madt[i].kind = "io_apics"}
       IN  ioredtbl = [a \in {madt[i].addr : i \in found} |->
              LET i == CHOOSE j \in found : madt[j].addr = a
              IN  [pin \in 0 .. madt[i].pins - 1 |-> ResetEntry]]
    /\ VECTOR_ATTRS = [v \in {} |-> 0]
    /\ bsp_lapic_id = 0
    /\ calls = 0
    /\ unmasked = {}

\* One iteration of ParseMadt.  Records of other kinds are passed over.
ParseMadt ==
    /\ madt # <<>>
    /\ madt' = Tail(madt)
    /\ LET r == Head(madt)
       IN  /\ smp_info' =
                 IF r.kind = "lapic_addr" THEN [smp_info EXCEPT !.lapic_addr = r.addr]
                 ELSE IF r.kind \in RecordKinds
                 THEN [smp_info EXCEPT ![r.kind] = Append(@, r)]
                 ELSE smp_info
           /\ IF r.kind = "io_apics"
              THEN register_ioapic(smp_info, r)
              ELSE UNCHANGED <<IOAPICS, ioredtbl, VECTOR_ATTRS>>
    /\ UNCHANGED <<bsp_lapic_id, calls, unmasked>>

-----------------------------------------------------------------------------
(* Entries of the redirection tables. *)

\* The first IO APIC, by ID, that has a pin for gsi.
ioapic_from_gsi(gsi) ==
    LET serving == {id \in Ids :
                      /\ IOAPICS[id] # NONE
                      /\ gsi >= IOAPICS[id].min_gsi
                      /\ gsi <= IOAPICS[id].min_gsi + IOAPICS[id].num_pins - 1}
    IN  IF serving = {} THEN NONE ELSE IOAPICS[Min(serving)]

\* The upper half is shifted by 31 places in 32 bits: of the destination, in
\* its highest byte, nothing is left.
ioapic_read_entry(ioapic, gsi) ==
    [ioredtbl[ioapic.addr][gsi - ioapic.min_gsi] EXCEPT !.destination = 0]

vector_from_gsi(gsi) == ioapic_read_entry(ioapic_from_gsi(gsi), gsi).vector

\* The entry of the GSI that had the vector last; NONE without an IO APIC.
int_attrs_from_vector(vector) ==
    LET gsi == VECTOR_ATTRS[vector]
        ioapic == ioapic_from_gsi(gsi)
    IN  IF ioapic = NONE THEN NONE ELSE ioapic_read_entry(ioapic, gsi)

\* Mutant: the pin is taken to be the GSI.
ioapic_write_entry_by_gsi(ioapic, gsi, entry) ==
    ioredtbl' = [ioredtbl EXCEPT ![ioapic.addr] =
                    [pin \in DOMAIN @ |-> IF pin = gsi THEN entry ELSE @[pin]]]

ioapic_write_entry(ioapic, gsi, entry) ==
    ioredtbl' = [ioredtbl EXCEPT ![ioapic.addr][gsi - ioapic.min_gsi] = entry]

\* What the setters share: without an IO APIC for gsi, or if the field has
\* that value already, nothing is written.
SetField(gsi, field, val) ==
    LET ioapic == ioapic_from_gsi(gsi)
    IN  IF ioapic = NONE \/ ioapic_read_entry(ioapic, gsi)[field] = val
        THEN ioredtbl' = ioredtbl
        ELSE ioapic_write_entry(ioapic, gsi,
                [ioapic_read_entry(ioapic, gsi) EXCEPT ![field] = val])

\* The delivery mode that a setter reads; none without an IO APIC.
DeliveryMode(gsi) ==
    LET ioapic == ioapic_from_gsi(gsi)
    IN  IF ioapic = NONE THEN "none" ELSE ioapic_read_entry(ioapic, gsi).delivery_mode

Called ==
    /\ madt = <<>>
    /\ calls < MaxCalls
    /\ calls' = calls + 1
    /\ UNCHANGED <<madt, smp_info, IOAPICS>>

Asked(gsi, masked) ==
    unmasked' = IF masked THEN unmasked \ {gsi} ELSE unmasked \cup {gsi}

ioapic_set_gsi_mask(gsi, masked) ==
    /\ Called
    /\ SetField(gsi, "mask", masked)
    /\ Asked(gsi, masked)
    /\ UNCHANGED <<VECTOR_ATTRS, bsp_lapic_id>>

mask_irq(irq) == ioapic_set_gsi_mask(gsi_from_irq(irq), TRUE)

unmask_irq(irq) == ioapic_set_gsi_mask(gsi_from_irq(irq), FALSE)

ioapic_set_gsi_vector(gsi, vector) ==
    /\ Called
    /\ IF vector > 15
       THEN /\ SetField(gsi, "vector", vector)
            /\ VECTOR_ATTRS' =
                  IF ioredtbl' = ioredtbl THEN VECTOR_ATTRS
                  ELSE [v \in DOMAIN VECTOR_ATTRS \cup {vector} |->
                           IF v = vector THEN gsi ELSE VECTOR_ATTRS[v]]
       ELSE UNCHANGED <<ioredtbl, VECTOR_ATTRS>>
    /\ UNCHANGED <<bsp_lapic_id, unmasked>>

ioapic_set_gsi_trigger_mode(gsi, trigger_mode) ==
    /\ Called
    /\ IF \/ gsi = 0 /\ trigger_mode # "LEVEL_SENSITIVE"
          \/ /\ DeliveryMode(gsi) \in {"ICR_NMI", "ICR_SMI"}
             /\ trigger_mode # "EDGE_SENSITIVE"
       THEN ioredtbl' = ioredtbl
       ELSE SetField(gsi, "trigger_mode", trigger_mode)
    /\ UNCHANGED <<VECTOR_ATTRS, bsp_lapic_id, unmasked>>

\* Mutant: SMIs are not treated apart.
ioapic_set_gsi_polarity_any(gsi, polarity) ==
    /\ Called
    /\ SetField(gsi, "polarity", polarity)
    /\ UNCHANGED <<VECTOR_ATTRS, bsp_lapic_id, unmasked>>

ioapic_set_gsi_polarity(gsi, polarity) ==
    /\ Called
    /\ IF DeliveryMode(gsi) = "ICR_SMI" /\ polarity # "ACTIVE_HIGH"
       THEN ioredtbl' = ioredtbl
       ELSE SetField(gsi, "polarity", polarity)
    /\ UNCHANGED <<VECTOR_ATTRS, bsp_lapic_id, unmasked>>

ioapic_reroute_gsi(gsi, lapic_id) ==
    /\ Called
    /\ SetField(gsi, "destination", lapic_id)
    /\ UNCHANGED <<VECTOR_ATTRS, bsp_lapic_id, unmasked>>

ioapic_route_irq(irq, rec_lapic_id, vector, masked) ==
    LET gsi == gsi_from_irq(irq)
        ioapic == ioapic_from_gsi(gsi)
    IN  /\ Called
        /\ IF ioapic = NONE
           THEN UNCHANGED <<ioredtbl, unmasked>>
           ELSE /\ ioapic_write_entry(ioapic, gsi,
                      [ioapic_read_entry(ioapic, gsi) EXCEPT
                          !.vector = vector, !.polarity = "ACTIVE_HIGH",
                          !.delivery_mode = "ICR_FIXED",
                          !.trigger_mode = "EDGE_SENSITIVE",
                          !.destination = rec_lapic_id, !.mask = masked])
                /\ Asked(gsi, masked)
        /\ UNCHANGED <<VECTOR_ATTRS, bsp_lapic_id>>

ioapic_route_irq_to_bsp(irq, vector, masked) ==
    ioapic_route_irq(irq, bsp_lapic_id, vector, masked)

\* The destination and its mode are never initialised.
ioapic_set_smi_gsi(gsi) ==
    LET ioapic == ioapic_from_gsi(gsi)
    IN  /\ Called
        /\ IF ioapic = NONE
           THEN UNCHANGED <<ioredtbl, unmasked>>
           ELSE /\ \E lapic_id \in LapicIds,
                      mode \in {"IOAPIC_PHYSICAL", "IOAPIC_LOGICAL"} :
                      ioapic_write_entry(ioapic, gsi,
                         [Entry(0, "ICR_SMI", "ACTIVE_HIGH", "EDGE_SENSITIVE", FALSE)
                             EXCEPT !.destination = lapic_id,
                                    !.destination_mode = mode])
                /\ Asked(gsi, FALSE)
        /\ UNCHANGED <<VECTOR_ATTRS, bsp_lapic_id>>

\* startup_aps notes which processor is the boot processor.
startup_aps ==
    /\ madt = <<>>
    /\ bsp_lapic_id' = BspLapicId
    /\ UNCHANGED <<madt, smp_info, IOAPICS, ioredtbl, VECTOR_ATTRS, calls, unmasked>>

Call(n) ==
    \/ mask_irq(n) \/ unmask_irq(n)
    \/ \E masked \in BOOLEAN : ioapic_set_gsi_mask(n, masked)
    \/ \E v \in CallVectors : ioapic_set_gsi_vector(n, v)
    \/ \E t \in {"EDGE_SENSITIVE", "LEVEL_SENSITIVE"} : ioapic_set_gsi_trigger_mode(n, t)
    \/ \E p \in {"ACTIVE_HIGH", "ACTIVE_LOW"} : ioapic_set_gsi_polarity(n, p)
    \/ \E id \in LapicIds : ioapic_reroute_gsi(n, id)
    \/ \E id \in LapicIds, v \in CallVectors, masked \in BOOLEAN :
          ioapic_route_irq(n, id, v, masked)
    \/ \E v \in CallVectors, masked \in BOOLEAN : ioapic_route_irq_to_bsp(n, v, masked)
    \/ ioapic_set_smi_gsi(n)

Next == ParseMadt \/ startup_aps \/ \E n \in CallGsis : Call(n)

Spec == Init /\ [][Next]_vars

-----------------------------------------------------------------------------
(* Correctness. *)

Entries ==
    [vector : 0 .. 255, delivery_mode : {"ICR_FIXED", "ICR_SMI", "ICR_NMI"},
     polarity : {"ACTIVE_HIGH", "ACTIVE_LOW"},
     trigger_mode : {"EDGE_SENSITIVE", "LEVEL_SENSITIVE"}, mask : BOOLEAN,
     destination_mode : {"IOAPIC_PHYSICAL", "IOAPIC_LOGICAL"},
     destination : LapicIds]

\* The GSIs that have a pin, and the entry each has there.
KnownGsis ==
    UNION {IOAPICS[id].min_gsi .. IOAPICS[id].min_gsi + IOAPICS[id].num_pins - 1 :
              id \in {i \in Ids : IOAPICS[i] # NONE}}

EntryOf(gsi) ==
    LET ioapic == ioapic_from_gsi(gsi)
    IN  ioredtbl[ioapic.addr][gsi - ioapic.min_gsi]

\* An entry without its destination.
Undirected(e) == [f \in DOMAIN e \ {"destination"} |-> e[f]]

\* Type invariant: no pin beyond those of its device is ever written, and
\* every vector with attributes belongs to a GSI that has a pin.
TypeOK ==
    /\ \A a \in DOMAIN ioredtbl : \A pin \in DOMAIN ioredtbl[a] :
          ioredtbl[a][pin] \in Entries
    /\ \A v \in DOMAIN VECTOR_ATTRS : VECTOR_ATTRS[v] \in KnownGsis
    /\ unmasked \subseteq Nat /\ calls \in 0 .. MaxCalls

(***************************************************************************)
(* The IO APICs implement InterruptRouting: through two IO APICs whose IDs *)
(* are in another order than their GSIs, each call reaches the pin of the  *)
(* GSI it names and no other, and but for the destination, which           *)
(* ioapic_read_entry loses, changes only the field it is for.              *)
(***************************************************************************)
Routing == INSTANCE InterruptRouting WITH
    route <- [gsi \in KnownGsis |-> Undirected(EntryOf(gsi))]

ImplementsRouting == Routing!IRSpec

(***************************************************************************)
(* Whatever the calls, an SMI stays edge triggered and active high, as the *)
(* guards in the setters of trigger mode and polarity are to ensure.       *)
(***************************************************************************)
SmiRules == \A gsi \in KnownGsis : Routing!SmiRule(EntryOf(gsi))

\* The two ways to find the IO APIC of a GSI agree once the MADT has been read:
\* by the records of the table, and by the devices that were registered.  Until
\* the first call, what is noted of a vector leads to an entry that has it, and
\* an IRQ with an override to a record of its GSI.
LookupsAgree ==
    madt = <<>> =>
        /\ \A gsi \in KnownGsis :
              smp_info.io_apics[find_apic_from_gsi(gsi)].gsib = ioapic_from_gsi(gsi).min_gsi
        /\ calls = 0 => \A v \in DOMAIN VECTOR_ATTRS :
              /\ vector_from_gsi(VECTOR_ATTRS[v]) = v
              /\ int_attrs_from_vector(v).vector = v
        /\ \A i \in DOMAIN smp_info.isos :
              get_iso_from_irq(smp_info.isos[i].irq).gsi = gsi_from_irq(smp_info.isos[i].irq)

\* Together: the entries of all pins are ones that the device may be given, and
\* are found again.
EntryInv == TypeOK /\ SmiRules /\ LookupsAgree

(***************************************************************************)
(* No interrupt arrives that nobody asked for: a pin that is not masked is *)
(* that of an NMI, or its last caller unmasked it (initialize_ioapic_ints, *)
(* mask_irq, through gsi_from_irq).                                        *)
(***************************************************************************)
MaskedUntilAsked ==
    \A gsi \in KnownGsis :
        EntryOf(gsi).mask
        \/ gsi \in unmasked
        \/ gsi_get_nmi_source(smp_info, gsi) # NONE

-----------------------------------------------------------------------------
(* What the comments say and the code does not do. *)

\* io_apic.c:333, "Some GSIs outside of [0,16) may be map to IRQs, if specified
\* as such in a MADT interrupt source override": once the MADT has been read,
\* the pin of such an override has the vector of its IRQ.
OverridesHonoured ==
    (madt = <<>> /\ calls = 0) =>
        \A i \in DOMAIN smp_info.isos :
            LET iso == smp_info.isos[i]
            IN  iso.gsi \in KnownGsis /\ iso.gsi >= MAX_ISA_IRQ
                    => EntryOf(iso.gsi).vector = iso.irq + 32
=============================================================================
