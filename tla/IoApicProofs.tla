---------------------------- MODULE IoApicProofs ----------------------------
(***************************************************************************)
(* Proofs about IoApic, for every set of well-formed MADTs and any number  *)
(* of IO APICs, pins and calls.                                            *)
(***************************************************************************)
EXTENDS IoApic, NumberFacts

-----------------------------------------------------------------------------
(* Devices. *)

\* What register_ioapic notes of a device.
Devices == [addr : Nat, min_gsi : Nat, num_pins : Nat \ {0}]

\* The GSIs that have a pin on it.
GsisOf(dev) == dev.min_gsi .. dev.min_gsi + dev.num_pins - 1

\* The IDs that are in use.
Registered == {id \in Ids : IOAPICS[id] # NONE}

\* A device that is known has a table of as many entries as it has pins; no
\* two share an address or a GSI.
DeviceInv ==
    /\ IOAPICS \in [Ids -> {NONE} \cup Devices]
    /\ \A id \in Registered :
          /\ IOAPICS[id].addr \in DOMAIN ioredtbl
          /\ DOMAIN ioredtbl[IOAPICS[id].addr] = 0 .. IOAPICS[id].num_pins - 1
    /\ \A id, jd \in Registered :
          id # jd => /\ IOAPICS[id].addr # IOAPICS[jd].addr
                     /\ GsisOf(IOAPICS[id]) \cap GsisOf(IOAPICS[jd]) = {}

\* A record that matches is never NONE.
LEMMA RecordsExist ==
  /\ NONE \notin Devices
  /\ NONE \notin IsoRecords
  /\ NONE \notin NmiSourceRecords
  /\ NONE \notin IoApicRecords
BY DEF NONE, Devices, IsoRecords, NmiSourceRecords, IoApicRecords

LEMMA KnownGsi ==
  ASSUME DeviceInv, NEW gsi
  PROVE  gsi \in KnownGsis <=> \E id \in Registered : gsi \in GsisOf(IOAPICS[id])
BY DEF KnownGsis, Registered, GsisOf

\* ioapic_from_gsi finds the device of a known GSI, and the pin is one of its.
LEMMA Found ==
  ASSUME DeviceInv, NEW id \in Registered, NEW gsi \in GsisOf(IOAPICS[id])
  PROVE  /\ ioapic_from_gsi(gsi) = IOAPICS[id]
         /\ IOAPICS[id] \in Devices
         /\ gsi \in Nat
         /\ gsi - IOAPICS[id].min_gsi \in DOMAIN ioredtbl[IOAPICS[id].addr]
<1>1. IOAPICS[id] \in Devices
  BY DEF DeviceInv, Registered
<1>2. gsi \in Nat
  BY <1>1 DEF Devices, GsisOf
<1> DEFINE serving == {jd \in Ids :
                         /\ IOAPICS[jd] # NONE
                         /\ gsi >= IOAPICS[jd].min_gsi
                         /\ gsi <= IOAPICS[jd].min_gsi + IOAPICS[jd].num_pins - 1}
<1>3. id \in serving
  BY <1>1 DEF GsisOf, Devices, Registered
<1>4. ASSUME NEW jd \in serving PROVE jd = id
  <2>1. jd \in Registered
    BY <1>4 DEF Registered
  <2>2. IOAPICS[jd] \in Devices
    BY <2>1 DEF DeviceInv, Registered
  <2>3. gsi \in GsisOf(IOAPICS[jd])
    BY <1>2, <1>4, <2>2 DEF GsisOf, Devices
  <2> QED
    BY <2>1, <2>3 DEF DeviceInv
<1>5. serving = {id}
  BY <1>3, <1>4
<1>6. Min({id}) = id
  BY MinOfNaturals, ApicConstants DEF Registered, Ids
<1>7. ioapic_from_gsi(gsi) = IOAPICS[id]
  BY <1>5, <1>6 DEF ioapic_from_gsi
<1>8. gsi - IOAPICS[id].min_gsi \in 0 .. IOAPICS[id].num_pins - 1
  BY <1>1, <1>2 DEF GsisOf, Devices
<1> QED
  BY <1>1, <1>2, <1>7, <1>8 DEF DeviceInv

\* The same as a formula, which holds of the next state as well.
AllFound ==
    \A id \in Registered : \A gsi \in GsisOf(IOAPICS[id]) :
        ioapic_from_gsi(gsi) = IOAPICS[id]

LEMMA FoundNext ==
  DeviceInv' => AllFound'
<1>1. DeviceInv => AllFound
  BY Found DEF AllFound
<1> QED
  BY <1>1, PTL

\* ... and nothing for any other.
LEMMA NotFound ==
  ASSUME DeviceInv, NEW gsi \in Nat, gsi \notin KnownGsis
  PROVE  ioapic_from_gsi(gsi) = NONE
<1>1. ASSUME NEW id \in Ids, IOAPICS[id] # NONE, gsi >= IOAPICS[id].min_gsi,
             gsi <= IOAPICS[id].min_gsi + IOAPICS[id].num_pins - 1
      PROVE  FALSE
  <2>1. IOAPICS[id] \in Devices
    BY <1>1 DEF DeviceInv
  <2> QED
    BY <1>1, <2>1, KnownGsi DEF Registered, GsisOf, Devices
<1> QED
  BY <1>1 DEF ioapic_from_gsi

\* A GSI is known exactly if it has a device.
LEMMA Lookup ==
  ASSUME DeviceInv, NEW gsi \in Nat
  PROVE  /\ ioapic_from_gsi(gsi) = NONE <=> gsi \notin KnownGsis
         /\ ioapic_from_gsi(gsi) # NONE =>
               /\ ioapic_from_gsi(gsi) \in Devices
               /\ gsi - ioapic_from_gsi(gsi).min_gsi
                     \in DOMAIN ioredtbl[ioapic_from_gsi(gsi).addr]
BY Found, NotFound, KnownGsi, RecordsExist

-----------------------------------------------------------------------------
(* Writing entries. *)

\* The entry that a setter reads: all but the destination.
Read(gsi) == [EntryOf(gsi) EXCEPT !.destination = 0]

\* The registers of no device but that of gsi, and there only its pin, become
\* other than they were.
OnlyEntry(gsi, e) ==
    /\ KnownGsis' = KnownGsis
    /\ EntryOf(gsi)' = e
    /\ \A h \in KnownGsis \ {gsi} : EntryOf(h)' = EntryOf(h)
    /\ DOMAIN ioredtbl' = DOMAIN ioredtbl
    /\ \A a \in DOMAIN ioredtbl :
          /\ DOMAIN ioredtbl'[a] = DOMAIN ioredtbl[a]
          /\ \A pin \in DOMAIN ioredtbl[a] : ioredtbl'[a][pin] \in {e, ioredtbl[a][pin]}

LEMMA WriteOne ==
  ASSUME DeviceInv, NEW gsi \in KnownGsis, NEW e, IOAPICS' = IOAPICS,
         ioapic_write_entry(ioapic_from_gsi(gsi), gsi, e)
  PROVE  DeviceInv' /\ OnlyEntry(gsi, e)
<1>1. PICK id \in Registered : gsi \in GsisOf(IOAPICS[id])
  BY KnownGsi
<1> DEFINE dev == IOAPICS[id]
           pin == gsi - dev.min_gsi
<1>2. /\ ioapic_from_gsi(gsi) = dev /\ dev \in Devices /\ gsi \in Nat
      /\ pin \in DOMAIN ioredtbl[dev.addr] /\ dev.addr \in DOMAIN ioredtbl
  BY <1>1, Found DEF DeviceInv
<1>3. ioredtbl' = [ioredtbl EXCEPT ![dev.addr][pin] = e]
  BY <1>2 DEF ioapic_write_entry
<1>4. /\ DOMAIN ioredtbl' = DOMAIN ioredtbl
      /\ \A a \in DOMAIN ioredtbl :
            /\ DOMAIN ioredtbl'[a] = DOMAIN ioredtbl[a]
            /\ \A p \in DOMAIN ioredtbl[a] :
                  ioredtbl'[a][p] = IF a = dev.addr /\ p = pin THEN e ELSE ioredtbl[a][p]
  BY <1>2, <1>3
<1>5. DeviceInv'
  BY <1>4 DEF DeviceInv, Registered, GsisOf
<1>6. KnownGsis' = KnownGsis /\ \A h : ioapic_from_gsi(h)' = ioapic_from_gsi(h)
  BY DEF KnownGsis, ioapic_from_gsi
<1>7. EntryOf(gsi)' = e
  BY <1>2, <1>4, <1>6 DEF EntryOf
<1>8. ASSUME NEW h \in KnownGsis \ {gsi}
      PROVE  EntryOf(h)' = EntryOf(h)
  <2>1. PICK jd \in Registered : h \in GsisOf(IOAPICS[jd])
    BY KnownGsi
  <2>2. /\ ioapic_from_gsi(h) = IOAPICS[jd] /\ IOAPICS[jd] \in Devices /\ h \in Nat
        /\ h - IOAPICS[jd].min_gsi \in DOMAIN ioredtbl[IOAPICS[jd].addr]
        /\ IOAPICS[jd].addr \in DOMAIN ioredtbl
    BY <2>1, Found DEF DeviceInv
  <2>3. ~(IOAPICS[jd].addr = dev.addr /\ h - IOAPICS[jd].min_gsi = pin)
    <3>1. CASE jd = id
      BY <1>2, <2>2, <3>1 DEF Devices
    <3>2. CASE jd # id
      BY <3>2 DEF DeviceInv
    <3> QED
      BY <3>1, <3>2
  <2> QED
    BY <1>4, <1>6, <2>2, <2>3 DEF EntryOf
<1> QED
  BY <1>4, <1>5, <1>6, <1>7, <1>8 DEF OnlyEntry

\* Without a write everything is as it was.
LEMMA NoWrite ==
  ASSUME DeviceInv, IOAPICS' = IOAPICS, ioredtbl' = ioredtbl
  PROVE  /\ DeviceInv'
         /\ KnownGsis' = KnownGsis
         /\ \A h : EntryOf(h)' = EntryOf(h)
BY DEF DeviceInv, Registered, GsisOf, KnownGsis, EntryOf, ioapic_from_gsi

\* The type of an entry, by its fields.
LEMMA EntryKnown ==
  ASSUME DeviceInv, NEW gsi \in KnownGsis,
         \A a \in DOMAIN ioredtbl : \A pin \in DOMAIN ioredtbl[a] : ioredtbl[a][pin] \in Entries
  PROVE  EntryOf(gsi) \in Entries /\ Read(gsi) \in Entries
<1>1. gsi \in Nat /\ ioapic_from_gsi(gsi) # NONE
  BY Found, KnownGsi, RecordsExist
<1>2. ioapic_from_gsi(gsi).addr \in DOMAIN ioredtbl
  BY <1>1, Found, KnownGsi DEF DeviceInv
<1>3. EntryOf(gsi) \in Entries
  BY <1>1, <1>2, Lookup DEF EntryOf
<1> QED
  BY <1>3, ApicConstants DEF Read, Entries

\* What a setter does: nothing, if the GSI has no pin or the field has the
\* value; otherwise that field of that entry is set.
LEMMA SetFieldWrites ==
  ASSUME DeviceInv, IOAPICS' = IOAPICS, NEW gsi \in Nat, NEW field, NEW val,
         SetField(gsi, field, val)
  PROVE  \/ gsi \notin KnownGsis /\ ioredtbl' = ioredtbl
         \/ gsi \in KnownGsis /\ ioredtbl' = ioredtbl /\ Read(gsi)[field] = val
         \/ /\ gsi \in KnownGsis
            /\ DeviceInv'
            /\ OnlyEntry(gsi, [Read(gsi) EXCEPT ![field] = val])
<1>1. ioapic_read_entry(ioapic_from_gsi(gsi), gsi) = Read(gsi)
  BY DEF ioapic_read_entry, Read, EntryOf
<1>2. CASE gsi \notin KnownGsis
  BY <1>2, Lookup DEF SetField
<1>3. CASE gsi \in KnownGsis
  <2>1. ioapic_from_gsi(gsi) # NONE
    BY <1>3, Lookup
  <2> QED
    BY <1>1, <1>3, <2>1, WriteOne DEF SetField
<1> QED
  BY <1>2, <1>3

-----------------------------------------------------------------------------
(* What a call does. *)

\* Every register of every device holds an entry.
EntriesInv ==
    \A a \in DOMAIN ioredtbl : \A pin \in DOMAIN ioredtbl[a] : ioredtbl[a][pin] \in Entries

\* The records that have been read are well formed.
RecordInv ==
    /\ DOMAIN smp_info = DOMAIN NoRecords
    /\ smp_info.isos \in Seq(IsoRecords)
    /\ smp_info.nmi_sources \in Seq(NmiSourceRecords)
    /\ smp_info.io_apics \in Seq(IoApicRecords)

\* The entry of g is made e: one field is set or the entry is made anew, an
\* SMI's is edge triggered and active high, and if it is not the old one's then
\* the mask is what the caller asked for.
Rewritten(g, e) ==
    /\ DeviceInv'
    /\ OnlyEntry(g, e)
    /\ Routing!SmiRule(e)
    /\ \/ Routing!SetOneField(Undirected(EntryOf(g)), Undirected(e))
       \/ Routing!Renew(Undirected(EntryOf(g)), Undirected(e))
    /\ \/ unmasked' = unmasked /\ e.mask = EntryOf(g).mask
       \/ unmasked' = IF e.mask THEN unmasked \ {g} ELSE unmasked \cup {g}

\* A call rewrites an entry or leaves all of them, and then what it asked for
\* has no pin or is so already.
EntryStep ==
    \/ /\ ioredtbl' = ioredtbl
       /\ \/ unmasked' = unmasked
          \/ \E g \in Nat \ KnownGsis : unmasked' \in {unmasked \ {g}, unmasked \cup {g}}
          \/ \E g \in KnownGsis :
                unmasked' = IF EntryOf(g).mask THEN unmasked \ {g} ELSE unmasked \cup {g}
    \/ \E g \in KnownGsis, e \in Entries : Rewritten(g, e)

\* The record that a lookup returns is one of those that match.
LEMMA FirstMatch ==
  ASSUME NEW R, NEW records \in Seq(R), NEW hits \in SUBSET DOMAIN records, hits # {}
  PROVE  /\ Min(hits) \in hits
         /\ FirstOf(records, hits) = records[Min(hits)]
         /\ records[Min(hits)] \in R
<1>1. hits \in SUBSET Nat
  OBVIOUS
<1>2. Min(hits) \in hits
  BY <1>1, MinOfNaturals
<1> DEFINE i == Min(hits)
<1> HIDE DEF i
<1>3. i \in DOMAIN records
  BY <1>2 DEF i
<1>4. records[i] \in R
  BY <1>3
<1> QED
  BY <1>2, <1>4 DEF FirstOf, i

\* An override leads to a GSI, and without one the IRQ is the GSI.
LEMMA GsiOfIrq ==
  ASSUME RecordInv, NEW irq \in Nat
  PROVE  gsi_from_irq(irq) \in Nat
<1> DEFINE hits == {i \in DOMAIN smp_info.isos : smp_info.isos[i].irq = irq}
<1>1. CASE hits = {}
  BY <1>1 DEF gsi_from_irq, FirstOf
<1>2. CASE hits # {}
  <2>1. /\ FirstOf(smp_info.isos, hits) = smp_info.isos[Min(hits)]
        /\ smp_info.isos[Min(hits)] \in IsoRecords
    BY <1>2, FirstMatch DEF RecordInv
  <2>2. FirstOf(smp_info.isos, hits).gsi \in Nat
    BY <2>1 DEF IsoRecords
  <2> QED
    BY <2>1, <2>2, RecordsExist DEF gsi_from_irq
<1> QED
  BY <1>1, <1>2

\* Setting one field of the entry that was read changes no other field than
\* that and the destination.
LEMMA OneField ==
  ASSUME DeviceInv, EntriesInv, NEW g \in KnownGsis,
         NEW field \in {"vector", "polarity", "trigger_mode", "mask", "destination"},
         NEW val, [Read(g) EXCEPT ![field] = val] \in Entries,
         Routing!SmiRule([Read(g) EXCEPT ![field] = val])
  PROVE  Routing!SetOneField(Undirected(EntryOf(g)),
                             Undirected([Read(g) EXCEPT ![field] = val]))
<1> DEFINE old == EntryOf(g)
           new == [Read(g) EXCEPT ![field] = val]
           f == IF field = "destination" THEN "mask" ELSE field
<1>1. old \in Entries
  BY EntryKnown DEF EntriesInv
<1>2. DOMAIN old = {"vector", "delivery_mode", "polarity", "trigger_mode", "mask",
                    "destination_mode", "destination"}
  BY <1>1 DEF Entries
<1>3. DOMAIN new = DOMAIN old
  BY DEF Read
<1>4. \A x \in DOMAIN old \ {field, "destination"} : new[x] = old[x]
  BY DEF Read
<1>5. f \in DOMAIN Undirected(old)
  BY <1>2 DEF Undirected
<1>6. Routing!SameBut(Undirected(old), Undirected(new), f)
  BY <1>2, <1>3, <1>4 DEF Routing!SameBut, Undirected
<1>7. Routing!SmiRule(Undirected(new))
  BY <1>2, <1>3 DEF Routing!SmiRule, Undirected
<1> HIDE DEF old, new, f
<1> QED
  BY <1>5, <1>6, <1>7 DEF Routing!SetOneField, old, new

\* A setter takes such a step, if it keeps the rule for SMIs.
LEMMA SetterStep ==
  ASSUME DeviceInv, EntriesInv, IOAPICS' = IOAPICS,
         NEW gsi \in Nat,
         NEW field \in {"vector", "polarity", "trigger_mode", "mask", "destination"},
         NEW val, \A e \in Entries : [e EXCEPT ![field] = val] \in Entries,
         SetField(gsi, field, val),
         gsi \in KnownGsis => Routing!SmiRule([Read(gsi) EXCEPT ![field] = val]),
         IF field = "mask" THEN Asked(gsi, val) ELSE unmasked' = unmasked
  PROVE  EntryStep
<1>1. CASE gsi \notin KnownGsis
  <2>1. ioredtbl' = ioredtbl
    BY <1>1, SetFieldWrites
  <2> QED
    BY <1>1, <2>1 DEF EntryStep, Asked
<1>2. CASE gsi \in KnownGsis /\ ioredtbl' = ioredtbl /\ Read(gsi)[field] = val
  <2>1. EntryOf(gsi) \in Entries
    BY <1>2, EntryKnown DEF EntriesInv
  <2>2. field = "mask" => EntryOf(gsi).mask = val
    BY <1>2, <2>1 DEF Read, Entries
  <2> QED
    BY <1>2, <2>2 DEF EntryStep, Asked
<1>3. CASE /\ gsi \in KnownGsis /\ DeviceInv'
           /\ OnlyEntry(gsi, [Read(gsi) EXCEPT ![field] = val])
  <2> DEFINE new == [Read(gsi) EXCEPT ![field] = val]
  <2>1. EntryOf(gsi) \in Entries /\ Read(gsi) \in Entries /\ new \in Entries
    BY <1>3, EntryKnown DEF EntriesInv
  <2>2. Routing!SetOneField(Undirected(EntryOf(gsi)), Undirected(new))
    BY <1>3, <2>1, OneField
  <2>3. /\ field = "mask" => new.mask = val
        /\ field # "mask" => new.mask = EntryOf(gsi).mask
    BY <2>1 DEF Read, Entries
  <2>4. Rewritten(gsi, new)
    BY <1>3, <2>2, <2>3 DEF Rewritten, Asked
  <2> QED
    BY <1>3, <2>1, <2>4 DEF EntryStep
<1> QED
  BY <1>1, <1>2, <1>3, SetFieldWrites

\* Calls that make an entry anew.
LEMMA RenewStep ==
  ASSUME DeviceInv, IOAPICS' = IOAPICS, NEW gsi \in KnownGsis, NEW e \in Entries,
         e.trigger_mode = "EDGE_SENSITIVE", e.polarity = "ACTIVE_HIGH",
         ioapic_write_entry(ioapic_from_gsi(gsi), gsi, e), Asked(gsi, e.mask)
  PROVE  EntryStep
<1>1. DeviceInv' /\ OnlyEntry(gsi, e)
  BY WriteOne
<1>2. Routing!Renew(Undirected(EntryOf(gsi)), Undirected(e))
  BY DEF Routing!Renew, Undirected, Entries
<1>3. Rewritten(gsi, e)
  BY <1>1, <1>2 DEF Rewritten, Asked, Routing!SmiRule
<1> QED
  BY <1>3 DEF EntryStep

\* The entry that ioapic_set_smi_gsi writes.
LEMMA SmiEntry ==
  ASSUME NEW id \in LapicIds, NEW mode \in {"IOAPIC_PHYSICAL", "IOAPIC_LOGICAL"}
  PROVE  LET e == [Entry(0, "ICR_SMI", "ACTIVE_HIGH", "EDGE_SENSITIVE", FALSE)
                      EXCEPT !.destination = id, !.destination_mode = mode]
         IN  /\ e \in Entries /\ e.mask = FALSE
             /\ e.trigger_mode = "EDGE_SENSITIVE" /\ e.polarity = "ACTIVE_HIGH"
<1> DEFINE blank == Entry(0, "ICR_SMI", "ACTIVE_HIGH", "EDGE_SENSITIVE", FALSE)
<1>1. /\ blank \in Entries
      /\ blank.mask = FALSE /\ blank.trigger_mode = "EDGE_SENSITIVE"
      /\ blank.polarity = "ACTIVE_HIGH"
  BY ApicConstants DEF Entry, Entries
<1> HIDE DEF blank
<1>2. ASSUME NEW r \in Entries, r.mask = FALSE, r.trigger_mode = "EDGE_SENSITIVE",
             r.polarity = "ACTIVE_HIGH"
      PROVE  LET e == [r EXCEPT !.destination = id, !.destination_mode = mode]
             IN  /\ e \in Entries /\ e.mask = FALSE
                 /\ e.trigger_mode = "EDGE_SENSITIVE" /\ e.polarity = "ACTIVE_HIGH"
  BY <1>2 DEF Entries
<1> QED
  BY <1>1, <1>2, Zenon DEF blank

\* Every call takes such a step.
LEMMA CallStep ==
  ASSUME DeviceInv, EntriesInv, RecordInv, SmiRules, bsp_lapic_id \in LapicIds,
         NEW n \in CallGsis, Call(n)
  PROVE  EntryStep
<1>a. n \in Nat /\ gsi_from_irq(n) \in Nat
  BY ApicConstants, GsiOfIrq
<1>b. \A v \in CallVectors : v \in 0 .. 255
  BY ApicConstants
<1>c. ASSUME NEW g \in KnownGsis
      PROVE  Read(g) \in Entries /\ Routing!SmiRule(Read(g)) /\ EntryOf(g) \in Entries
  BY EntryKnown DEF EntriesInv, SmiRules, Routing!SmiRule, Read, Entries
<1>d. ASSUME NEW g \in KnownGsis
      PROVE  DeliveryMode(g) = Read(g).delivery_mode
  <2>1. g \in Nat
    BY KnownGsi, Found
  <2>2. ioapic_from_gsi(g) # NONE
    BY <2>1, Lookup
  <2> QED
    BY <2>2 DEF DeliveryMode, ioapic_read_entry, Read, EntryOf
<1>1. ASSUME NEW gsi \in Nat, NEW masked \in BOOLEAN, ioapic_set_gsi_mask(gsi, masked)
      PROVE  EntryStep
  <2>1. \A e \in Entries : [e EXCEPT !["mask"] = masked] \in Entries
    BY DEF Entries
  <2>2. gsi \in KnownGsis => Routing!SmiRule([Read(gsi) EXCEPT !["mask"] = masked])
    BY <1>c DEF Routing!SmiRule, Entries
  <2> QED
    BY <1>1, <2>1, <2>2, SetterStep DEF ioapic_set_gsi_mask, Called
<1>2. ASSUME NEW v \in CallVectors, ioapic_set_gsi_vector(n, v)
      PROVE  EntryStep
  <2>1. \A e \in Entries : [e EXCEPT !["vector"] = v] \in Entries
    BY <1>b DEF Entries
  <2>2. n \in KnownGsis => Routing!SmiRule([Read(n) EXCEPT !["vector"] = v])
    BY <1>c DEF Routing!SmiRule, Entries
  <2>3. CASE v > 15
    BY <1>2, <1>a, <2>1, <2>2, <2>3, SetterStep DEF ioapic_set_gsi_vector, Called
  <2>4. CASE ~(v > 15)
    BY <1>2, <2>4 DEF ioapic_set_gsi_vector, EntryStep
  <2> QED
    BY <2>3, <2>4
<1>3. ASSUME NEW t \in {"EDGE_SENSITIVE", "LEVEL_SENSITIVE"}, ioapic_set_gsi_trigger_mode(n, t)
      PROVE  EntryStep
  <2>1. \A e \in Entries : [e EXCEPT !["trigger_mode"] = t] \in Entries
    BY DEF Entries
  <2>2. CASE ioredtbl' = ioredtbl
    BY <1>3, <2>2 DEF ioapic_set_gsi_trigger_mode, EntryStep
  <2>3. CASE ioredtbl' # ioredtbl
    <3>1. /\ ~(DeliveryMode(n) \in {"ICR_NMI", "ICR_SMI"} /\ t # "EDGE_SENSITIVE")
          /\ SetField(n, "trigger_mode", t)
      BY <1>3, <2>3 DEF ioapic_set_gsi_trigger_mode
    <3>2. n \in KnownGsis => Routing!SmiRule([Read(n) EXCEPT !["trigger_mode"] = t])
      BY <3>1, <1>c, <1>d DEF Routing!SmiRule, Entries
    <3> QED
      BY <1>3, <1>a, <2>1, <3>1, <3>2, SetterStep DEF ioapic_set_gsi_trigger_mode, Called
  <2> QED
    BY <2>2, <2>3
<1>4. ASSUME NEW p \in {"ACTIVE_HIGH", "ACTIVE_LOW"}, ioapic_set_gsi_polarity(n, p)
      PROVE  EntryStep
  <2>1. \A e \in Entries : [e EXCEPT !["polarity"] = p] \in Entries
    BY DEF Entries
  <2>2. CASE ioredtbl' = ioredtbl
    BY <1>4, <2>2 DEF ioapic_set_gsi_polarity, EntryStep
  <2>3. CASE ioredtbl' # ioredtbl
    <3>1. /\ ~(DeliveryMode(n) = "ICR_SMI" /\ p # "ACTIVE_HIGH")
          /\ SetField(n, "polarity", p)
      BY <1>4, <2>3 DEF ioapic_set_gsi_polarity
    <3>2. n \in KnownGsis => Routing!SmiRule([Read(n) EXCEPT !["polarity"] = p])
      BY <3>1, <1>c, <1>d DEF Routing!SmiRule, Entries
    <3> QED
      BY <1>4, <1>a, <2>1, <3>1, <3>2, SetterStep DEF ioapic_set_gsi_polarity, Called
  <2> QED
    BY <2>2, <2>3
<1>5. ASSUME NEW id \in LapicIds, ioapic_reroute_gsi(n, id)
      PROVE  EntryStep
  <2>1. \A e \in Entries : [e EXCEPT !["destination"] = id] \in Entries
    BY DEF Entries
  <2>2. n \in KnownGsis => Routing!SmiRule([Read(n) EXCEPT !["destination"] = id])
    BY <1>c DEF Routing!SmiRule, Entries
  <2> QED
    BY <1>5, <1>a, <2>1, <2>2, SetterStep DEF ioapic_reroute_gsi, Called
<1>6. ASSUME NEW id \in LapicIds, NEW v \in CallVectors, NEW masked \in BOOLEAN,
             ioapic_route_irq(n, id, v, masked)
      PROVE  EntryStep
  <2> DEFINE gsi == gsi_from_irq(n)
             e == [Read(gsi) EXCEPT
                      !.vector = v, !.polarity = "ACTIVE_HIGH",
                      !.delivery_mode = "ICR_FIXED", !.trigger_mode = "EDGE_SENSITIVE",
                      !.destination = id, !.mask = masked]
  <2>1. CASE gsi \notin KnownGsis
    <3>1. ioapic_from_gsi(gsi) = NONE
      BY <1>a, <2>1, Lookup
    <3> QED
      BY <1>6, <3>1 DEF ioapic_route_irq, EntryStep
  <2>2. CASE gsi \in KnownGsis
    <3>1. ioapic_from_gsi(gsi) # NONE
      BY <1>a, <2>2, Lookup
    <3>2. ioapic_read_entry(ioapic_from_gsi(gsi), gsi) = Read(gsi)
      BY DEF ioapic_read_entry, Read, EntryOf
    <3>3. /\ ioapic_write_entry(ioapic_from_gsi(gsi), gsi, e) /\ Asked(gsi, masked)
          /\ IOAPICS' = IOAPICS
      BY <1>6, <3>1, <3>2 DEF ioapic_route_irq, Called
    <3>4. /\ e \in Entries /\ e.mask = masked
          /\ e.trigger_mode = "EDGE_SENSITIVE" /\ e.polarity = "ACTIVE_HIGH"
      <4>1. Read(gsi) \in Entries /\ v \in 0 .. 255
        BY <1>b, <1>c, <2>2
      <4>2. ASSUME NEW r \in Entries
            PROVE  LET new == [r EXCEPT
                          !.vector = v, !.polarity = "ACTIVE_HIGH",
                          !.delivery_mode = "ICR_FIXED", !.trigger_mode = "EDGE_SENSITIVE",
                          !.destination = id, !.mask = masked]
                   IN  /\ new \in Entries /\ new.mask = masked
                       /\ new.trigger_mode = "EDGE_SENSITIVE" /\ new.polarity = "ACTIVE_HIGH"
        BY <4>1 DEF Entries
      <4> QED
        BY <4>1, <4>2, Zenon
    <3> QED
      BY <2>2, <3>3, <3>4, RenewStep
  <2> QED
    BY <2>1, <2>2
<1>7. ASSUME ioapic_set_smi_gsi(n)
      PROVE  EntryStep
  <2>1. CASE n \notin KnownGsis
    <3>1. ioapic_from_gsi(n) = NONE
      BY <1>a, <2>1, Lookup
    <3> QED
      BY <1>7, <3>1 DEF ioapic_set_smi_gsi, EntryStep
  <2>2. CASE n \in KnownGsis
    <3>1. ioapic_from_gsi(n) # NONE
      BY <1>a, <2>2, Lookup
    <3> DEFINE smi(id, mode) ==
                 [Entry(0, "ICR_SMI", "ACTIVE_HIGH", "EDGE_SENSITIVE", FALSE)
                     EXCEPT !.destination = id, !.destination_mode = mode]
    <3>2. PICK id \in LapicIds, mode \in {"IOAPIC_PHYSICAL", "IOAPIC_LOGICAL"} :
             ioapic_write_entry(ioapic_from_gsi(n), n, smi(id, mode))
      BY <1>7, <3>1 DEF ioapic_set_smi_gsi
    <3>3. /\ smi(id, mode) \in Entries /\ smi(id, mode).mask = FALSE
          /\ smi(id, mode).trigger_mode = "EDGE_SENSITIVE"
          /\ smi(id, mode).polarity = "ACTIVE_HIGH"
      BY SmiEntry
    <3>4. Asked(n, FALSE) /\ IOAPICS' = IOAPICS
      BY <1>7, <3>1 DEF ioapic_set_smi_gsi, Called
    <3> HIDE DEF smi
    <3> QED
      BY <2>2, <3>2, <3>3, <3>4, RenewStep
  <2> QED
    BY <2>1, <2>2
<1> QED
  BY <1>a, <1>1, <1>2, <1>3, <1>4, <1>5, <1>6, <1>7
  DEF Call, mask_irq, unmask_irq, ioapic_route_irq_to_bsp

-----------------------------------------------------------------------------
(* Reading the table. *)

\* The GSIs that have a pin on the IO APIC of a record, and what is noted of it.
Spanned(r) == r.gsib .. r.gsib + r.pins - 1

DeviceOf(r) == [addr |-> r.addr, min_gsi |-> r.gsib, num_pins |-> r.pins]

\* The IO APICs that have not been met yet.
Pending == {i \in DOMAIN madt : madt[i].kind = "io_apics"}

\* The rest of the table is well formed; an IO APIC in it is out of reset, and
\* none of those that are registered has its ID, its address or its GSIs.
TableInv ==
    /\ madt \in Seq(Records)
    /\ Consistent(madt)
    /\ \A i \in Pending :
          /\ madt[i].addr \in DOMAIN ioredtbl
          /\ DOMAIN ioredtbl[madt[i].addr] = 0 .. madt[i].pins - 1
          /\ \A pin \in 0 .. madt[i].pins - 1 : ioredtbl[madt[i].addr][pin] = ResetEntry
          /\ IOAPICS[madt[i].id] = NONE
          /\ \A id \in Registered :
                /\ IOAPICS[id].addr # madt[i].addr
                /\ GsisOf(IOAPICS[id]) \cap Spanned(madt[i]) = {}

\* The records of IO APICs that have been read are those of the devices that
\* are registered.
SeenInv ==
    /\ \A i \in DOMAIN smp_info.io_apics :
          IOAPICS[smp_info.io_apics[i].id] = DeviceOf(smp_info.io_apics[i])
    /\ \A id \in Registered :
          \E i \in DOMAIN smp_info.io_apics : smp_info.io_apics[i].id = id

\* Nobody calls before the table has been read.
ProgressInv ==
    /\ bsp_lapic_id \in LapicIds
    /\ calls \in 0 .. MaxCalls
    /\ calls > 0 => madt = <<>>
    /\ unmasked \subseteq Nat

\* What is noted of a vector is a GSI with a pin, and until the first call its
\* entry has the vector.
VectorInv ==
    \A v \in DOMAIN VECTOR_ATTRS :
        /\ VECTOR_ATTRS[v] \in KnownGsis
        /\ calls = 0 => EntryOf(VECTOR_ATTRS[v]).vector = v

ApicInv ==
    /\ DeviceInv /\ EntriesInv /\ RecordInv /\ TableInv /\ SeenInv /\ ProgressInv
    /\ VectorInv /\ SmiRules /\ MaskedUntilAsked

\* What initialize_ioapic_ints writes for a GSI.
Initial(gsi) == [InitialEntry(smp_info, gsi) EXCEPT !.destination = bsp_lapic_id]

LEMMA EntryType ==
  ASSUME NEW v \in Nat, NEW d \in {"ICR_FIXED", "ICR_NMI"},
         NEW p \in {"ACTIVE_HIGH", "ACTIVE_LOW"},
         NEW t \in {"EDGE_SENSITIVE", "LEVEL_SENSITIVE"}, NEW m \in BOOLEAN
  PROVE  /\ Entry(v, d, p, t, m) \in Entries
         /\ Entry(v, d, p, t, m).delivery_mode = d
         /\ Entry(v, d, p, t, m).mask = m
<1>1. v % 256 \in 0 .. 255
  OBVIOUS
<1> QED
  BY <1>1, ApicConstants DEF Entry, Entries

\* Such an entry is no SMI's, and is masked unless its GSI is an NMI's.
LEMMA InitialType ==
  ASSUME RecordInv, bsp_lapic_id \in LapicIds, NEW gsi \in Nat
  PROVE  /\ InitialEntry(smp_info, gsi) \in Entries
         /\ Initial(gsi) \in Entries
         /\ Initial(gsi).vector = InitialEntry(smp_info, gsi).vector
         /\ Initial(gsi).delivery_mode # "ICR_SMI"
         /\ Initial(gsi).mask \/ gsi_get_nmi_source(smp_info, gsi) # NONE
<1> DEFINE iso == gsi_get_iso(smp_info, gsi)
           nmi == gsi_get_nmi_source(smp_info, gsi)
           e == InitialEntry(smp_info, gsi)
<1>1. iso # NONE => iso \in IsoRecords
  BY FirstMatch DEF RecordInv, gsi_get_iso, FirstOf
<1>2. nmi # NONE => nmi \in NmiSourceRecords
  BY FirstMatch DEF RecordInv, gsi_get_nmi_source, FirstOf
<1>a. gsi + 32 \in Nat
  OBVIOUS
<1>b. "ICR_FIXED" # "ICR_SMI" /\ "ICR_NMI" # "ICR_SMI"
  OBVIOUS
<1>3. /\ e \in Entries /\ e.delivery_mode # "ICR_SMI"
      /\ e.mask \/ nmi # NONE
  <2>1. CASE gsi < MAX_ISA_IRQ
    <3>1. e = Entry(gsi + 32, "ICR_FIXED", "ACTIVE_HIGH", "EDGE_SENSITIVE", TRUE)
      BY <2>1, Zenon DEF InitialEntry
    <3> QED
      BY <1>a, <1>b, <3>1, EntryType, Zenon
  <2>2. CASE ~(gsi < MAX_ISA_IRQ) /\ iso # NONE
    <3>1. iso.irq + 32 \in Nat
      BY <1>1, <2>2 DEF IsoRecords
    <3>2. e = Entry(iso.irq + 32, "ICR_FIXED", get_pin_polarity(iso.flags),
                    get_trigger_mode(iso.flags), TRUE)
      BY <2>2, Zenon DEF InitialEntry
    <3>3. PICK v \in Nat, p \in {"ACTIVE_HIGH", "ACTIVE_LOW"},
               t \in {"EDGE_SENSITIVE", "LEVEL_SENSITIVE"} : e = Entry(v, "ICR_FIXED", p, t, TRUE)
      BY <3>1, <3>2 DEF get_pin_polarity, get_trigger_mode
    <3> HIDE DEF e
    <3> QED
      BY <1>b, <3>3, EntryType, Zenon
  <2>3. CASE ~(gsi < MAX_ISA_IRQ) /\ iso = NONE /\ nmi # NONE
    <3>1. e = Entry(gsi + 32, "ICR_NMI", get_pin_polarity(nmi.flags),
                    get_trigger_mode(nmi.flags), FALSE)
      BY <2>3, Zenon DEF InitialEntry
    <3> HIDE DEF e, nmi
    <3> QED
      BY <1>a, <1>b, <2>3, <3>1, EntryType, Zenon DEF get_pin_polarity, get_trigger_mode
  <2>4. CASE ~(gsi < MAX_ISA_IRQ) /\ iso = NONE /\ nmi = NONE
    <3>1. e = Entry(gsi + 32, "ICR_FIXED", "ACTIVE_HIGH", "LEVEL_SENSITIVE", TRUE)
      BY <2>4, Zenon DEF InitialEntry
    <3> HIDE DEF e
    <3> QED
      BY <1>a, <1>b, <3>1, EntryType, Zenon
  <2> QED
    BY <2>1, <2>2, <2>3, <2>4
<1> HIDE DEF e, nmi
<1>4. Initial(gsi) = [e EXCEPT !.destination = bsp_lapic_id]
  BY DEF Initial, e
<1>5. /\ Initial(gsi) \in Entries /\ Initial(gsi).vector = e.vector
      /\ Initial(gsi).delivery_mode = e.delivery_mode /\ Initial(gsi).mask = e.mask
  BY <1>3, <1>4 DEF Entries
<1> QED
  BY <1>3, <1>5 DEF e, nmi

\* The table without its first record.
LEMMA FirstRecord ==
  ASSUME TableInv, madt # <<>>
  PROVE  /\ 1 \in DOMAIN madt
         /\ Head(madt) = madt[1]
         /\ Tail(madt) \in Seq(Records)
         /\ \A i \in DOMAIN Tail(madt) : i + 1 \in DOMAIN madt /\ Tail(madt)[i] = madt[i + 1]
BY DEF TableInv

LEMMA RestConsistent ==
  ASSUME TableInv, madt # <<>>
  PROVE  Consistent(Tail(madt))
<1> DEFINE rest == Tail(madt)
<1>1. \A i \in DOMAIN rest : i \in Int /\ i + 1 \in DOMAIN madt /\ rest[i] = madt[i + 1]
  BY FirstRecord
<1>2. Consistent(madt)
  BY DEF TableInv
<1> HIDE DEF rest
<1>3. \A i \in DOMAIN rest :
         /\ rest[i].kind = "io_apics" => rest[i] \in IoApicRecords
         /\ rest[i].kind = "isos" => rest[i] \in IsoRecords
         /\ rest[i].kind = "nmi_sources" => rest[i] \in NmiSourceRecords
  BY <1>1, <1>2 DEF Consistent
<1>4. ASSUME NEW i \in {k \in DOMAIN rest : rest[k].kind = "io_apics"},
             NEW j \in {k \in DOMAIN rest : rest[k].kind = "io_apics"}, i # j
      PROVE  Apart(rest[i], rest[j])
  <2>1. i + 1 # j + 1
    BY <1>1, <1>4
  <2>2. Apart(madt[i + 1], madt[j + 1])
    BY <1>1, <1>2, <2>1 DEF Consistent
  <2> QED
    BY <1>1, <2>2
<1> QED
  BY <1>3, <1>4 DEF Consistent, rest

\* The first record, if it is an IO APIC's.
LEMMA FirstIoApic ==
  ASSUME TableInv, madt # <<>>, Head(madt).kind = "io_apics"
  PROVE  /\ Head(madt) \in IoApicRecords
         /\ DeviceOf(Head(madt)) \in Devices
         /\ 1 \in Pending
         /\ \A i \in DOMAIN Tail(madt) :
               Tail(madt)[i].kind = "io_apics" =>
                  /\ Tail(madt)[i] \in IoApicRecords
                  /\ Apart(Head(madt), Tail(madt)[i])
<1>1. Head(madt) \in IoApicRecords /\ 1 \in Pending
  BY FirstRecord DEF TableInv, Consistent, Pending
<1>2. DeviceOf(Head(madt)) \in Devices
  BY <1>1 DEF DeviceOf, Devices, IoApicRecords
<1>3. ASSUME NEW i \in DOMAIN Tail(madt), Tail(madt)[i].kind = "io_apics"
      PROVE  Tail(madt)[i] \in IoApicRecords /\ Apart(Head(madt), Tail(madt)[i])
  <2>1. i \in Nat /\ i # 0 /\ i + 1 \in DOMAIN madt /\ Tail(madt)[i] = madt[i + 1]
    BY FirstRecord
  <2>2. i + 1 # 1
    BY <2>1
  <2> QED
    BY <1>3, <2>1, <2>2, FirstRecord DEF TableInv, Consistent
<1> QED
  BY <1>1, <1>2, <1>3

\* Registering an IO APIC: its GSIs become known and get their first entries,
\* all other entries stay.
Introduced(r) ==
    /\ DeviceInv'
    /\ KnownGsis' = KnownGsis \cup Spanned(r)
    /\ KnownGsis \cap Spanned(r) = {}
    /\ \A h \in KnownGsis : EntryOf(h)' = EntryOf(h)
    /\ \A h \in Spanned(r) : EntryOf(h)' = IF h = 0 THEN ResetEntry ELSE Initial(h)

LEMMA RegisterDevice ==
  ASSUME DeviceInv, TableInv, madt # <<>>, Head(madt).kind = "io_apics",
         register_ioapic(smp_info, Head(madt))
  PROVE  /\ Introduced(Head(madt))
         /\ IOAPICS' = [IOAPICS EXCEPT ![Head(madt).id] = DeviceOf(Head(madt))]
         /\ Registered' = Registered \cup {Head(madt).id}
         /\ DOMAIN ioredtbl' = DOMAIN ioredtbl
         /\ \A a \in DOMAIN ioredtbl :
               /\ DOMAIN ioredtbl'[a] = DOMAIN ioredtbl[a]
               /\ a # Head(madt).addr => ioredtbl'[a] = ioredtbl[a]
         /\ \A pin \in 0 .. Head(madt).pins - 1 :
               /\ Head(madt).gsib + pin \in Spanned(Head(madt))
               /\ ioredtbl'[Head(madt).addr][pin] =
                     IF Head(madt).gsib + pin = 0 THEN ResetEntry
                     ELSE Initial(Head(madt).gsib + pin)
<1> DEFINE r == Head(madt)
           dev == DeviceOf(r)
<1>1. r \in IoApicRecords /\ dev \in Devices /\ 1 \in Pending /\ r = madt[1]
  BY FirstIoApic, FirstRecord
<1>2. /\ r.addr \in DOMAIN ioredtbl
      /\ DOMAIN ioredtbl[r.addr] = 0 .. r.pins - 1
      /\ \A pin \in 0 .. r.pins - 1 : ioredtbl[r.addr][pin] = ResetEntry
      /\ IOAPICS[r.id] = NONE
      /\ \A id \in Registered :
            IOAPICS[id].addr # r.addr /\ GsisOf(IOAPICS[id]) \cap Spanned(r) = {}
  BY <1>1 DEF TableInv
<1>3. IOAPICS' = [IOAPICS EXCEPT ![r.id] = dev]
  BY DEF register_ioapic, DeviceOf
<1>4. /\ DOMAIN ioredtbl' = DOMAIN ioredtbl
      /\ \A a \in DOMAIN ioredtbl : a # r.addr => ioredtbl'[a] = ioredtbl[a]
      /\ ioredtbl'[r.addr] =
            [pin \in DOMAIN ioredtbl[r.addr] |->
                IF pin \in PinsOf(r) THEN Initial(r.gsib + pin) ELSE ioredtbl[r.addr][pin]]
  BY <1>2 DEF register_ioapic, initialize_ioapic_ints, Initial
<1>5. ASSUME NEW pin \in 0 .. r.pins - 1
      PROVE  /\ r.gsib + pin \in Spanned(r)
             /\ ioredtbl'[r.addr][pin] =
                   IF r.gsib + pin = 0 THEN ResetEntry ELSE Initial(r.gsib + pin)
  BY <1>1, <1>2, <1>4 DEF PinsOf, Spanned, IoApicRecords
<1>6. DOMAIN ioredtbl'[r.addr] = DOMAIN ioredtbl[r.addr]
  BY <1>4
<1> HIDE DEF r, dev
<1>7. r.id \in Ids /\ r.id \notin Registered
  BY <1>1, <1>2 DEF IoApicRecords, Registered
<1>8. /\ IOAPICS' \in [Ids -> {NONE} \cup Devices]
      /\ IOAPICS'[r.id] = dev
      /\ \A id \in Registered : IOAPICS'[id] = IOAPICS[id]
  BY <1>1, <1>3, <1>7 DEF DeviceInv, Registered
<1>9. Registered' = Registered \cup {r.id}
  BY <1>1, <1>3, <1>7, <1>8, RecordsExist DEF DeviceInv, Registered
<1>10. GsisOf(dev) = Spanned(r) /\ dev.addr = r.addr /\ dev.num_pins = r.pins /\ dev.min_gsi = r.gsib
  BY DEF GsisOf, Spanned, DeviceOf, dev
<1>11. DeviceInv'
  <2>1. ASSUME NEW id \in Registered'
        PROVE  /\ IOAPICS'[id].addr \in DOMAIN ioredtbl'
               /\ DOMAIN ioredtbl'[IOAPICS'[id].addr] = 0 .. IOAPICS'[id].num_pins - 1
    <3>1. CASE id = r.id
      BY <3>1, <1>2, <1>4, <1>6, <1>8, <1>10
    <3>2. CASE id \in Registered
      BY <3>2, <1>2, <1>4, <1>8 DEF DeviceInv
    <3> QED
      BY <1>9, <3>1, <3>2
  <2>2. ASSUME NEW id \in Registered', NEW jd \in Registered', id # jd
        PROVE  /\ IOAPICS'[id].addr # IOAPICS'[jd].addr
               /\ GsisOf(IOAPICS'[id]) \cap GsisOf(IOAPICS'[jd]) = {}
    <3>1. CASE id \in Registered /\ jd \in Registered
      BY <2>2, <3>1, <1>8 DEF DeviceInv
    <3>2. CASE id = r.id /\ jd \in Registered
      <4>1. GsisOf(IOAPICS[jd]) \cap GsisOf(dev) = {} /\ IOAPICS[jd].addr # dev.addr
        BY <3>2, <1>2, <1>10
      <4> QED
        BY <3>2, <4>1, <1>8
    <3>3. CASE jd = r.id /\ id \in Registered
      <4>1. GsisOf(IOAPICS[id]) \cap GsisOf(dev) = {} /\ IOAPICS[id].addr # dev.addr
        BY <3>3, <1>2, <1>10
      <4> QED
        BY <3>3, <4>1, <1>8
    <3> QED
      BY <1>9, <2>2, <3>1, <3>2, <3>3
  <2> QED
    BY <1>8, <2>1, <2>2 DEF DeviceInv, GsisOf
<1>12. ASSUME NEW h
       PROVE  h \in KnownGsis' <=> \E id \in Registered' : h \in GsisOf(IOAPICS'[id])
  BY DEF KnownGsis, Registered, GsisOf
<1>13. KnownGsis' = KnownGsis \cup Spanned(r) /\ KnownGsis \cap Spanned(r) = {}
  BY <1>2, <1>8, <1>9, <1>10, <1>12, KnownGsi
<1>14. \A id \in Registered' : \A h \in GsisOf(IOAPICS'[id]) :
          ioapic_from_gsi(h)' = IOAPICS'[id]
  BY <1>11, FoundNext DEF AllFound, GsisOf
<1>15. ASSUME NEW h \in KnownGsis
       PROVE  EntryOf(h)' = EntryOf(h)
  <2>1. PICK id \in Registered : h \in GsisOf(IOAPICS[id])
    BY KnownGsi
  <2>2. ioapic_from_gsi(h) = IOAPICS[id] /\ ioapic_from_gsi(h)' = IOAPICS[id]
    BY <2>1, <1>8, <1>9, <1>14, Found
  <2>3. IOAPICS[id].addr \in DOMAIN ioredtbl /\ IOAPICS[id].addr # r.addr
    BY <1>2 DEF DeviceInv
  <2> QED
    BY <1>4, <2>2, <2>3 DEF EntryOf
<1>16. ASSUME NEW h \in Spanned(r)
       PROVE  EntryOf(h)' = IF h = 0 THEN ResetEntry ELSE Initial(h)
  <2>1. ioapic_from_gsi(h)' = dev
    BY <1>8, <1>9, <1>10, <1>14
  <2> DEFINE pin == h - r.gsib
  <2>2. pin \in 0 .. r.pins - 1 /\ r.gsib + pin = h
    BY <1>1 DEF Spanned, IoApicRecords
  <2>3. EntryOf(h)' = ioredtbl'[r.addr][pin]
    BY <2>1, <1>10 DEF EntryOf
  <2> HIDE DEF pin
  <2> QED
    BY <1>5, <2>2, <2>3
<1> QED
  BY <1>3, <1>4, <1>5, <1>6, <1>9, <1>11, <1>13, <1>15, <1>16 DEF Introduced, r, dev

\* There is an NMI source for a GSI if a record says so.
LEMMA NmiSourceFound ==
  ASSUME NEW info, info.nmi_sources \in Seq(NmiSourceRecords), NEW gsi
  PROVE  gsi_get_nmi_source(info, gsi) # NONE
            <=> \E i \in DOMAIN info.nmi_sources : info.nmi_sources[i].gsi = gsi
<1> DEFINE hits == {i \in DOMAIN info.nmi_sources : info.nmi_sources[i].gsi = gsi}
<1>1. CASE hits = {}
  BY <1>1 DEF gsi_get_nmi_source, FirstOf
<1>2. CASE hits # {}
  <2>1. FirstOf(info.nmi_sources, hits) \in NmiSourceRecords
    BY <1>2, FirstMatch
  <2> QED
    BY <1>2, <2>1, RecordsExist DEF gsi_get_nmi_source
<1> QED
  BY <1>1, <1>2

\* A record is added to its kind, or none is.
LEMMA RecordAdded ==
  ASSUME RecordInv, TableInv, ParseMadt
  PROVE  /\ RecordInv'
         /\ smp_info'.io_apics = IF Head(madt).kind = "io_apics"
                                 THEN Append(smp_info.io_apics, Head(madt))
                                 ELSE smp_info.io_apics
         /\ \/ smp_info'.nmi_sources = smp_info.nmi_sources
            \/ /\ Head(madt) \in NmiSourceRecords
               /\ smp_info'.nmi_sources = Append(smp_info.nmi_sources, Head(madt))
<1> DEFINE r == Head(madt)
<1>1. /\ r.kind = "io_apics" => r \in IoApicRecords
      /\ r.kind = "isos" => r \in IsoRecords
      /\ r.kind = "nmi_sources" => r \in NmiSourceRecords
  BY FirstRecord DEF ParseMadt, TableInv, Consistent
<1>2. DOMAIN smp_info = {"io_apics", "lapics", "isos", "nmi_sources", "nmis", "lapic_addr"}
  BY DEF RecordInv, NoRecords
<1>3. smp_info' = IF r.kind = "lapic_addr" THEN [smp_info EXCEPT !.lapic_addr = r.addr]
                  ELSE IF r.kind \in RecordKinds
                  THEN [smp_info EXCEPT ![r.kind] = Append(smp_info[r.kind], r)]
                  ELSE smp_info
  BY DEF ParseMadt
<1> HIDE DEF r
<1>4. /\ DOMAIN smp_info' = DOMAIN smp_info
      /\ smp_info'.io_apics =
            IF r.kind = "io_apics" THEN Append(smp_info.io_apics, r) ELSE smp_info.io_apics
      /\ smp_info'.isos = IF r.kind = "isos" THEN Append(smp_info.isos, r) ELSE smp_info.isos
      /\ smp_info'.nmi_sources =
            IF r.kind = "nmi_sources" THEN Append(smp_info.nmi_sources, r)
            ELSE smp_info.nmi_sources
  BY <1>2, <1>3 DEF RecordKinds
<1>5. RecordInv'
  BY <1>1, <1>4 DEF RecordInv
<1> QED
  BY <1>1, <1>4, <1>5 DEF r

LEMMA ApartSpans ==
  ASSUME NEW r \in IoApicRecords, NEW s \in IoApicRecords, Apart(r, s)
  PROVE  s.addr # r.addr /\ Spanned(r) \cap Spanned(s) = {}
BY DEF Apart, Spanned, IoApicRecords

\* The table that is left, and the records that have been read.
LEMMA ParseTable ==
  ASSUME DeviceInv, TableInv, RecordInv, SeenInv, ParseMadt
  PROVE  TableInv' /\ SeenInv'
<1> DEFINE r == Head(madt)
           recs == smp_info.io_apics
<1>1. /\ madt # <<>> /\ madt' = Tail(madt) /\ Tail(madt) \in Seq(Records)
      /\ Consistent(madt')
      /\ \A i \in DOMAIN madt' : i + 1 \in DOMAIN madt /\ madt'[i] = madt[i + 1]
  BY FirstRecord, RestConsistent DEF ParseMadt
<1>2. ASSUME NEW i \in Pending'
      PROVE  /\ i + 1 \in Pending /\ madt'[i] = madt[i + 1] /\ i \in DOMAIN Tail(madt)
             /\ madt'[i] = Tail(madt)[i] /\ madt'[i].kind = "io_apics"
             /\ madt'[i] \in IoApicRecords
  BY <1>1 DEF Pending, Consistent
<1>3. CASE r.kind # "io_apics"
  <2>1. IOAPICS' = IOAPICS /\ ioredtbl' = ioredtbl
    BY <1>3 DEF ParseMadt
  <2>2. TableInv'
    <3>1. \A i \in Pending' :
             /\ madt'[i].addr \in DOMAIN ioredtbl'
             /\ DOMAIN ioredtbl'[madt'[i].addr] = 0 .. madt'[i].pins - 1
             /\ \A pin \in 0 .. madt'[i].pins - 1 : ioredtbl'[madt'[i].addr][pin] = ResetEntry
             /\ IOAPICS'[madt'[i].id] = NONE
             /\ \A id \in Registered' :
                   /\ IOAPICS'[id].addr # madt'[i].addr
                   /\ GsisOf(IOAPICS'[id]) \cap Spanned(madt'[i]) = {}
      <4> TAKE i \in Pending'
      <4>1. i + 1 \in Pending /\ madt'[i] = madt[i + 1] /\ Registered' = Registered
        BY <1>2, <2>1 DEF Registered
      <4>2. PICK s : s = madt[i + 1]
        OBVIOUS
      <4>3. /\ s.addr \in DOMAIN ioredtbl
            /\ DOMAIN ioredtbl[s.addr] = 0 .. s.pins - 1
            /\ \A pin \in 0 .. s.pins - 1 : ioredtbl[s.addr][pin] = ResetEntry
            /\ IOAPICS[s.id] = NONE
            /\ \A id \in Registered :
                  IOAPICS[id].addr # s.addr /\ GsisOf(IOAPICS[id]) \cap Spanned(s) = {}
        BY <4>1, <4>2 DEF TableInv
      <4>4. madt'[i] = s
        BY <4>1, <4>2
      <4> QED
        BY <2>1, <4>1, <4>3, <4>4
    <3> QED
      BY <1>1, <3>1 DEF TableInv, GsisOf, Spanned
  <2>3. smp_info'.io_apics = recs
    BY <1>3, RecordAdded
  <2> QED
    BY <2>1, <2>2, <2>3 DEF SeenInv, Registered, DeviceOf
<1>4. CASE r.kind = "io_apics"
  <2>1. register_ioapic(smp_info, r)
    BY <1>4 DEF ParseMadt
  <2>2. /\ r \in IoApicRecords /\ DeviceOf(r) \in Devices /\ 1 \in Pending /\ r = madt[1]
        /\ IOAPICS[r.id] = NONE
    BY <1>1, <1>4, FirstIoApic, FirstRecord DEF TableInv
  <2>3. /\ IOAPICS' = [IOAPICS EXCEPT ![r.id] = DeviceOf(r)]
        /\ Registered' = Registered \cup {r.id}
        /\ DOMAIN ioredtbl' = DOMAIN ioredtbl
        /\ \A a \in DOMAIN ioredtbl : a # r.addr => ioredtbl'[a] = ioredtbl[a]
    BY <1>1, <1>4, <2>1, RegisterDevice
  <2>4. ASSUME NEW i \in Pending'
        PROVE  Apart(r, madt'[i])
    BY <1>1, <1>2, <1>4, FirstIoApic
  <2>5. /\ GsisOf(DeviceOf(r)) = Spanned(r) /\ DeviceOf(r).addr = r.addr
        /\ r.id \in Ids /\ r.id \notin Registered
    BY <2>2 DEF GsisOf, Spanned, DeviceOf, IoApicRecords, Registered
  <2>6. smp_info'.io_apics = Append(recs, r) /\ recs \in Seq(IoApicRecords)
    BY <1>4, RecordAdded DEF RecordInv
  <2> HIDE DEF r, recs
  <2>7. IOAPICS'[r.id] = DeviceOf(r) /\ \A id \in Ids \ {r.id} : IOAPICS'[id] = IOAPICS[id]
    BY <2>3, <2>5 DEF DeviceInv
  <2>8. TableInv'
    <3>1. ASSUME NEW i \in Pending'
          PROVE  /\ madt'[i].addr \in DOMAIN ioredtbl'
                 /\ DOMAIN ioredtbl'[madt'[i].addr] = 0 .. madt'[i].pins - 1
                 /\ \A pin \in 0 .. madt'[i].pins - 1 : ioredtbl'[madt'[i].addr][pin] = ResetEntry
                 /\ IOAPICS'[madt'[i].id] = NONE
      <4>1. madt'[i].addr # r.addr /\ madt'[i].id # r.id
        BY <2>4 DEF Apart
      <4>2. madt'[i].id \in Ids
        BY <1>2 DEF IoApicRecords
      <4> QED
        BY <1>2, <2>3, <2>7, <4>1, <4>2 DEF TableInv
    <3>2. ASSUME NEW i \in Pending', NEW id \in Registered'
          PROVE  /\ IOAPICS'[id].addr # madt'[i].addr
                 /\ GsisOf(IOAPICS'[id]) \cap Spanned(madt'[i]) = {}
      <4>1. CASE id = r.id
        <5>1. madt'[i].addr # r.addr /\ Spanned(r) \cap Spanned(madt'[i]) = {}
          BY <1>2, <2>2, <2>4, ApartSpans
        <5> QED
          BY <2>5, <2>7, <4>1, <5>1
      <4>2. CASE id \in Registered
        <5>1. IOAPICS'[id] = IOAPICS[id]
          BY <2>5, <2>7, <4>2 DEF Registered
        <5>2. /\ IOAPICS[id].addr # madt[i + 1].addr
              /\ GsisOf(IOAPICS[id]) \cap Spanned(madt[i + 1]) = {}
          BY <1>2, <4>2 DEF TableInv
        <5>3. madt'[i] = madt[i + 1]
          BY <1>2
        <5> HIDE DEF Pending
        <5> QED
          BY <5>1, <5>2, <5>3
      <4> QED
        BY <2>3, <4>1, <4>2
    <3> QED
      BY <1>1, <3>1, <3>2 DEF TableInv, GsisOf, Spanned
  <2>9. SeenInv'
    <3>1. DOMAIN Append(recs, r) = DOMAIN recs \cup {Len(recs) + 1}
      BY <2>6
    <3>2. /\ \A i \in DOMAIN recs : Append(recs, r)[i] = recs[i]
          /\ Append(recs, r)[Len(recs) + 1] = r
      BY <2>6
    <3>3. \A i \in DOMAIN recs : recs[i] \in IoApicRecords
      BY <2>6
    <3>4. ASSUME NEW i \in DOMAIN Append(recs, r)
          PROVE  IOAPICS'[Append(recs, r)[i].id] = DeviceOf(Append(recs, r)[i])
      <4>1. CASE i = Len(recs) + 1
        BY <2>7, <3>2, <4>1
      <4>2. CASE i \in DOMAIN recs
        <5>1. IOAPICS[recs[i].id] = DeviceOf(recs[i]) /\ recs[i].id \in Ids
          BY <3>3, <4>2 DEF SeenInv, recs, IoApicRecords
        <5>2. DeviceOf(recs[i]) # NONE
          BY <3>3, <4>2, RecordsExist DEF DeviceOf, IoApicRecords, Devices
        <5>3. recs[i].id # r.id
          BY <2>5, <5>1, <5>2 DEF Registered
        <5> QED
          BY <2>7, <3>2, <4>2, <5>1, <5>3
      <4> QED
        BY <3>1, <4>1, <4>2
    <3>5. ASSUME NEW id \in Registered'
          PROVE  \E i \in DOMAIN Append(recs, r) : Append(recs, r)[i].id = id
      BY <2>3, <3>1, <3>2 DEF SeenInv, recs
    <3> QED
      BY <2>6, <3>4, <3>5 DEF SeenInv, DeviceOf
  <2> QED
    BY <2>8, <2>9
<1> QED
  BY <1>3, <1>4

\* NMI sources are never forgotten.
LEMMA NmiSourceKept ==
  ASSUME RecordInv, TableInv, ParseMadt, NEW gsi, gsi_get_nmi_source(smp_info, gsi) # NONE
  PROVE  gsi_get_nmi_source(smp_info', gsi) # NONE
<1> DEFINE old == smp_info.nmi_sources
           new == smp_info'.nmi_sources
<1>1. old \in Seq(NmiSourceRecords) /\ new \in Seq(NmiSourceRecords)
  BY RecordAdded DEF RecordInv
<1>2. PICK i \in DOMAIN old : old[i].gsi = gsi
  BY <1>1, NmiSourceFound
<1>3. i \in DOMAIN new /\ new[i] = old[i]
  BY <1>1, RecordAdded
<1> QED
  BY <1>1, <1>2, <1>3, NmiSourceFound

\* What a vector leads to after initialize_ioapic_ints.
LEMMA ParseVectors ==
  ASSUME ApicInv, ParseMadt, Head(madt).kind = "io_apics", Introduced(Head(madt))
  PROVE  VectorInv'
<1> DEFINE r == Head(madt)
           new == [pin \in PinsOf(r) |-> InitialEntry(smp_info, r.gsib + pin)]
           used(v) == {pin \in PinsOf(r) : new[pin].vector = v}
<1> SUFFICES ASSUME NEW v \in DOMAIN VECTOR_ATTRS', NEW g, g = VECTOR_ATTRS'[v]
             PROVE  g \in KnownGsis' /\ (calls' = 0 => EntryOf(g)'.vector = v)
  BY DEF VectorInv, EntryOf, ioapic_from_gsi
<1>1. r \in IoApicRecords /\ madt # <<>>
  BY FirstIoApic DEF ParseMadt, ApicInv
<1>2. VECTOR_ATTRS' =
         [w \in DOMAIN VECTOR_ATTRS \cup {new[pin].vector : pin \in PinsOf(r)} |->
             IF used(w) # {} THEN r.gsib + Max(used(w)) ELSE VECTOR_ATTRS[w]]
  BY DEF ParseMadt, register_ioapic, initialize_ioapic_ints
<1>3. calls' = calls /\ RecordInv /\ bsp_lapic_id \in LapicIds
  BY DEF ParseMadt, ApicInv, ProgressInv
<1>4. CASE used(v) = {}
  <2>1. v \in DOMAIN VECTOR_ATTRS /\ g = VECTOR_ATTRS[v]
    BY <1>2, <1>4
  <2>2. g \in KnownGsis /\ (calls = 0 => EntryOf(g).vector = v)
    BY <2>1 DEF ApicInv, VectorInv
  <2>3. g \in KnownGsis' /\ EntryOf(g)' = EntryOf(g)
    BY <2>2 DEF Introduced
  <2> QED
    BY <1>3, <2>2, <2>3
<1>5. CASE used(v) # {}
  <2>1. r.pins - 1 \in Nat /\ used(v) \in SUBSET (0 .. r.pins - 1)
    BY <1>1 DEF IoApicRecords, PinsOf
  <2> DEFINE pin == Max(used(v))
  <2>2. pin \in used(v)
    BY <1>5, <2>1, MaxOfNaturals
  <2> HIDE DEF pin
  <2>3. pin \in PinsOf(r) /\ InitialEntry(smp_info, g).vector = v /\ g = r.gsib + pin
    BY <1>2, <1>5, <2>2 DEF pin
  <2>4. g \in Nat /\ g # 0 /\ g \in Spanned(r)
    BY <1>1, <2>3 DEF PinsOf, IoApicRecords, Spanned
  <2>5. g \in KnownGsis' /\ EntryOf(g)' = Initial(g)
    BY <2>4 DEF Introduced
  <2>6. Initial(g).vector = v
    BY <1>3, <2>3, <2>4, InitialType
  <2> QED
    BY <2>5, <2>6
<1> QED
  BY <1>4, <1>5

LEMMA ParseStep ==
  ASSUME ApicInv, ParseMadt
  PROVE  ApicInv'
<1> DEFINE r == Head(madt)
<1>1. /\ DeviceInv /\ EntriesInv /\ RecordInv /\ TableInv /\ SeenInv /\ ProgressInv
      /\ VectorInv /\ SmiRules /\ MaskedUntilAsked
  BY DEF ApicInv
<1>2. RecordInv' /\ TableInv' /\ SeenInv'
  BY <1>1, RecordAdded, ParseTable
<1>3. /\ ProgressInv' /\ unmasked' = unmasked /\ calls' = calls /\ madt # <<>>
  BY <1>1 DEF ParseMadt, ProgressInv
<1>4. CASE r.kind # "io_apics"
  <2>1. IOAPICS' = IOAPICS /\ ioredtbl' = ioredtbl /\ VECTOR_ATTRS' = VECTOR_ATTRS
    BY <1>4 DEF ParseMadt
  <2>2. DeviceInv' /\ KnownGsis' = KnownGsis /\ \A h : EntryOf(h)' = EntryOf(h)
    BY <1>1, <2>1, NoWrite
  <2>3. EntriesInv' /\ SmiRules'
    BY <1>1, <2>1, <2>2 DEF EntriesInv, SmiRules, Routing!SmiRule
  <2>4. VectorInv'
    BY <1>1, <1>3, <2>1, <2>2 DEF VectorInv, EntryOf, ioapic_from_gsi
  <2>5. MaskedUntilAsked'
    BY <1>1, <1>3, <2>2, NmiSourceKept DEF MaskedUntilAsked
  <2> QED
    BY <1>2, <1>3, <2>2, <2>3, <2>4, <2>5 DEF ApicInv
<1>5. CASE r.kind = "io_apics"
  <2>1. register_ioapic(smp_info, r)
    BY <1>5 DEF ParseMadt
  <2>2. /\ Introduced(r)
        /\ DOMAIN ioredtbl' = DOMAIN ioredtbl
        /\ \A a \in DOMAIN ioredtbl :
              /\ DOMAIN ioredtbl'[a] = DOMAIN ioredtbl[a]
              /\ a # r.addr => ioredtbl'[a] = ioredtbl[a]
        /\ \A pin \in 0 .. r.pins - 1 :
              /\ r.gsib + pin \in Spanned(r)
              /\ ioredtbl'[r.addr][pin] =
                    IF r.gsib + pin = 0 THEN ResetEntry ELSE Initial(r.gsib + pin)
    BY <1>1, <1>3, <1>5, <2>1, RegisterDevice
  <2>3. /\ r \in IoApicRecords /\ 1 \in Pending /\ r = madt[1]
        /\ DOMAIN ioredtbl[r.addr] = 0 .. r.pins - 1
    BY <1>1, <1>3, <1>5, FirstIoApic, FirstRecord DEF TableInv
  <2>4. VectorInv'
    BY <1>5, <2>2, ParseVectors
  <2> HIDE DEF r
  <2>5. ASSUME NEW h \in Spanned(r)
        PROVE  LET e == IF h = 0 THEN ResetEntry ELSE Initial(h)
               IN  /\ e \in Entries /\ e.delivery_mode # "ICR_SMI"
                   /\ e.mask \/ gsi_get_nmi_source(smp_info, h) # NONE
    <3>1. h \in Nat
      BY <2>3 DEF Spanned, IoApicRecords
    <3>2. /\ ResetEntry \in Entries /\ ResetEntry.delivery_mode = "ICR_FIXED"
          /\ ResetEntry.mask = TRUE
      BY ApicConstants DEF ResetEntry, Entry, Entries
    <3> QED
      BY <1>1, <3>1, <3>2, InitialType DEF ProgressInv
  <2>6. EntriesInv'
    <3>1. ASSUME NEW a \in DOMAIN ioredtbl', NEW pin \in DOMAIN ioredtbl'[a]
          PROVE  ioredtbl'[a][pin] \in Entries
      <4>1. CASE a = r.addr
        <5>1. pin \in 0 .. r.pins - 1
          BY <2>2, <2>3, <4>1
        <5>2. PICK h \in Spanned(r) :
                 ioredtbl'[a][pin] = IF h = 0 THEN ResetEntry ELSE Initial(h)
          BY <2>2, <4>1, <5>1
        <5> QED
          BY <2>5, <5>2
      <4>2. CASE a # r.addr
        BY <1>1, <2>2, <4>2 DEF EntriesInv
      <4> QED
        BY <4>1, <4>2
    <3> QED
      BY <3>1 DEF EntriesInv
  <2>7. SmiRules'
    <3>1. ASSUME NEW h \in KnownGsis'
          PROVE  Routing!SmiRule(EntryOf(h))'
      <4>1. CASE h \in KnownGsis
        <5>1. EntryOf(h)' = EntryOf(h)
          BY <2>2, <4>1 DEF Introduced
        <5> QED
          BY <1>1, <4>1, <5>1 DEF SmiRules, Routing!SmiRule
      <4>2. CASE h \in Spanned(r)
        <5>1. EntryOf(h)'.delivery_mode # "ICR_SMI"
          BY <2>2, <2>5, <4>2 DEF Introduced
        <5> QED
          BY <5>1 DEF Routing!SmiRule
      <4> QED
        BY <2>2, <4>1, <4>2 DEF Introduced
    <3> QED
      BY <3>1 DEF SmiRules, Routing!SmiRule
  <2>8. MaskedUntilAsked'
    <3>1. ASSUME NEW h \in KnownGsis'
          PROVE  \/ EntryOf(h)'.mask
                 \/ h \in unmasked'
                 \/ gsi_get_nmi_source(smp_info', h) # NONE
      <4>1. CASE h \in KnownGsis
        <5>1. EntryOf(h)' = EntryOf(h)
          BY <2>2, <4>1 DEF Introduced
        <5> QED
          BY <1>1, <1>3, <4>1, <5>1, NmiSourceKept DEF MaskedUntilAsked
      <4>2. CASE h \in Spanned(r)
        <5>1. EntryOf(h)'.mask \/ gsi_get_nmi_source(smp_info, h) # NONE
          BY <2>2, <2>5, <4>2 DEF Introduced
        <5> QED
          BY <1>1, <5>1, NmiSourceKept
      <4> QED
        BY <2>2, <4>1, <4>2 DEF Introduced
    <3> QED
      BY <3>1 DEF MaskedUntilAsked
  <2> QED
    BY <1>2, <1>3, <2>2, <2>4, <2>6, <2>7, <2>8 DEF ApicInv, Introduced
<1> QED
  BY <1>4, <1>5

-----------------------------------------------------------------------------
(* Calls keep the invariant. *)

\* What all calls have in common.
LEMMA CallFrame ==
  ASSUME NEW n, Call(n)
  PROVE  /\ madt = <<>> /\ madt' = madt /\ smp_info' = smp_info /\ IOAPICS' = IOAPICS
         /\ calls < MaxCalls /\ calls' = calls + 1 /\ bsp_lapic_id' = bsp_lapic_id
         /\ VECTOR_ATTRS' = VECTOR_ATTRS \/ \E v \in CallVectors : ioapic_set_gsi_vector(n, v)
BY DEF Call, mask_irq, unmask_irq, ioapic_set_gsi_mask, ioapic_set_gsi_vector,
       ioapic_set_gsi_trigger_mode, ioapic_set_gsi_polarity, ioapic_reroute_gsi,
       ioapic_route_irq, ioapic_route_irq_to_bsp, ioapic_set_smi_gsi, Called

\* A step on the entries keeps what holds of each of them.
LEMMA EntryStepKeeps ==
  ASSUME DeviceInv, EntriesInv, SmiRules, MaskedUntilAsked, unmasked \subseteq Nat,
         smp_info' = smp_info, IOAPICS' = IOAPICS, EntryStep
  PROVE  DeviceInv' /\ EntriesInv' /\ SmiRules' /\ MaskedUntilAsked' /\ unmasked' \subseteq Nat
<1>1. KnownGsis \subseteq Nat
  BY Found, KnownGsi
<1>2. CASE ioredtbl' = ioredtbl
  <2>1. DeviceInv' /\ KnownGsis' = KnownGsis /\ \A h : EntryOf(h)' = EntryOf(h)
    BY <1>2, NoWrite
  <2>2. EntriesInv' /\ SmiRules'
    BY <1>2, <2>1 DEF EntriesInv, SmiRules, Routing!SmiRule
  <2>3. CASE unmasked' = unmasked
    BY <2>1, <2>2, <2>3 DEF MaskedUntilAsked
  <2>4. CASE \E g \in Nat \ KnownGsis : unmasked' \in {unmasked \ {g}, unmasked \cup {g}}
    BY <2>1, <2>2, <2>4 DEF MaskedUntilAsked
  <2>5. CASE \E g \in KnownGsis :
               unmasked' = IF EntryOf(g).mask THEN unmasked \ {g} ELSE unmasked \cup {g}
    <3>1. unmasked' \subseteq Nat
      BY <1>1, <2>5
    <3>2. \A h \in KnownGsis : \/ EntryOf(h).mask
                               \/ h \in unmasked'
                               \/ gsi_get_nmi_source(smp_info, h) # NONE
      BY <2>5 DEF MaskedUntilAsked
    <3> QED
      BY <2>1, <2>2, <3>1, <3>2 DEF MaskedUntilAsked
  <2>6. CASE \E g \in KnownGsis, e \in Entries : Rewritten(g, e)
    <3>1. PICK g \in KnownGsis, e \in Entries : Rewritten(g, e)
      BY <2>6
    <3>2. EntryOf(g) = e /\ unmasked' \subseteq Nat
      BY <1>1, <2>1, <3>1 DEF Rewritten, OnlyEntry
    <3>3. \A h \in KnownGsis : \/ EntryOf(h).mask
                               \/ h \in unmasked'
                               \/ gsi_get_nmi_source(smp_info, h) # NONE
      BY <3>1, <3>2 DEF MaskedUntilAsked, Rewritten
    <3> QED
      BY <2>1, <2>2, <3>2, <3>3 DEF MaskedUntilAsked
  <2> QED
    BY <2>3, <2>4, <2>5, <2>6 DEF EntryStep
<1>3. CASE \E g \in KnownGsis, e \in Entries : Rewritten(g, e)
  <2>1. PICK g \in KnownGsis, e \in Entries : Rewritten(g, e)
    BY <1>3
  <2>2. DeviceInv' /\ OnlyEntry(g, e) /\ KnownGsis' = KnownGsis
    BY <2>1 DEF Rewritten, OnlyEntry
  <2>3. EntriesInv'
    BY <2>2 DEF EntriesInv, OnlyEntry
  <2>4. SmiRules'
    <3>1. ASSUME NEW h \in KnownGsis'
          PROVE  Routing!SmiRule(EntryOf(h))'
      <4>1. CASE h = g
        BY <2>1, <2>2, <4>1 DEF Rewritten, OnlyEntry, Routing!SmiRule
      <4>2. CASE h # g
        <5>1. EntryOf(h)' = EntryOf(h) /\ h \in KnownGsis
          BY <2>2, <4>2 DEF OnlyEntry
        <5> QED
          BY <5>1 DEF SmiRules, Routing!SmiRule
      <4> QED
        BY <4>1, <4>2
    <3> QED
      BY <3>1 DEF SmiRules, Routing!SmiRule
  <2>5. unmasked' \subseteq Nat
    BY <1>1, <2>1 DEF Rewritten
  <2>6. ASSUME NEW h \in KnownGsis
        PROVE  \/ EntryOf(h)'.mask
               \/ h \in unmasked'
               \/ gsi_get_nmi_source(smp_info, h) # NONE
    <3>1. CASE h = g
      <4>1. EntryOf(h)' = e
        BY <2>2, <3>1 DEF OnlyEntry
      <4> QED
        BY <2>1, <3>1, <4>1 DEF Rewritten, MaskedUntilAsked
    <3>2. CASE h # g
      <4>1. EntryOf(h)' = EntryOf(h) /\ (h \in unmasked' <=> h \in unmasked)
        BY <2>1, <2>2, <3>2 DEF OnlyEntry, Rewritten
      <4> QED
        BY <4>1 DEF MaskedUntilAsked
    <3> QED
      BY <3>1, <3>2
  <2>7. MaskedUntilAsked'
    BY <2>2, <2>6 DEF MaskedUntilAsked
  <2> QED
    BY <2>2, <2>3, <2>4, <2>5, <2>7
<1> QED
  BY <1>2, <1>3 DEF EntryStep

LEMMA CallKeeps ==
  ASSUME ApicInv, NEW n \in CallGsis, Call(n)
  PROVE  ApicInv'
<1>1. /\ DeviceInv /\ EntriesInv /\ RecordInv /\ TableInv /\ SeenInv /\ ProgressInv
      /\ VectorInv /\ SmiRules /\ MaskedUntilAsked
  BY DEF ApicInv
<1>2. /\ madt = <<>> /\ madt' = madt /\ smp_info' = smp_info /\ IOAPICS' = IOAPICS
      /\ calls < MaxCalls /\ calls' = calls + 1 /\ bsp_lapic_id' = bsp_lapic_id
      /\ VECTOR_ATTRS' = VECTOR_ATTRS \/ \E v \in CallVectors : ioapic_set_gsi_vector(n, v)
  BY CallFrame
<1>3. EntryStep
  BY <1>1, CallStep DEF ProgressInv
<1>4. DeviceInv' /\ EntriesInv' /\ SmiRules' /\ MaskedUntilAsked' /\ unmasked' \subseteq Nat
  BY <1>1, <1>2, <1>3, EntryStepKeeps DEF ProgressInv
<1>5. RecordInv'
  BY <1>1, <1>2 DEF RecordInv
<1>6. TableInv' /\ SeenInv'
  BY <1>1, <1>2 DEF TableInv, SeenInv, Consistent, Pending, Registered, DeviceOf
<1>7. ProgressInv'
  BY <1>1, <1>2, <1>4, ApicConstants DEF ProgressInv
<1>8. VectorInv'
  <2>1. KnownGsis' = KnownGsis
    BY <1>2 DEF KnownGsis
  <2>2. calls' # 0
    BY <1>1, <1>2 DEF ProgressInv
  <2>3. \A v \in DOMAIN VECTOR_ATTRS' : VECTOR_ATTRS'[v] \in KnownGsis
    <3>1. CASE VECTOR_ATTRS' = VECTOR_ATTRS
      BY <1>1, <3>1 DEF VectorInv
    <3>2. CASE VECTOR_ATTRS' # VECTOR_ATTRS
      <4>1. PICK v \in CallVectors : ioapic_set_gsi_vector(n, v)
        BY <1>2, <3>2
      <4>2. /\ SetField(n, "vector", v) /\ ioredtbl' # ioredtbl
            /\ VECTOR_ATTRS' = [w \in DOMAIN VECTOR_ATTRS \cup {v} |->
                                   IF w = v THEN n ELSE VECTOR_ATTRS[w]]
        BY <3>2, <4>1 DEF ioapic_set_gsi_vector
      <4>3. n \in Nat
        BY ApicConstants
      <4>4. n \in KnownGsis
        BY <1>1, <1>2, <4>2, <4>3, SetFieldWrites
      <4> QED
        BY <1>1, <4>2, <4>4 DEF VectorInv
    <3> QED
      BY <3>1, <3>2
  <2> QED
    BY <2>1, <2>2, <2>3 DEF VectorInv
<1> QED
  BY <1>4, <1>5, <1>6, <1>7, <1>8 DEF ApicInv

-----------------------------------------------------------------------------
(* The invariant. *)

LEMMA InitApic ==
  Init => ApicInv
<1> SUFFICES ASSUME Init PROVE ApicInv
  OBVIOUS
<1>1. madt \in Seq(Records) /\ Consistent(madt)
  BY ApicTables DEF Init
<1>2. Registered = {} /\ KnownGsis = {}
  BY DEF Init, Registered, KnownGsis
<1>3. ResetEntry \in Entries
  BY ApicConstants DEF ResetEntry, Entry, Entries
<1>4. ASSUME NEW i \in Pending
      PROVE  /\ madt[i].addr \in DOMAIN ioredtbl
             /\ ioredtbl[madt[i].addr] = [pin \in 0 .. madt[i].pins - 1 |-> ResetEntry]
             /\ madt[i].id \in Ids
  <2> DEFINE j == CHOOSE j \in Pending : madt[j].addr = madt[i].addr
  <2>1. j \in Pending /\ madt[j].addr = madt[i].addr
    BY <1>4
  <2>2. j = i
    BY <1>1, <1>4, <2>1 DEF Consistent, Apart, Pending
  <2>3. madt[i].addr \in DOMAIN ioredtbl
    BY <1>4 DEF Init, Pending
  <2>4. ioredtbl[madt[i].addr] = [pin \in 0 .. madt[j].pins - 1 |-> ResetEntry]
    BY <1>4 DEF Init, Pending
  <2>5. madt[i] \in IoApicRecords
    BY <1>1, <1>4 DEF Consistent, Pending
  <2> HIDE DEF j
  <2> QED
    BY <2>2, <2>3, <2>4, <2>5 DEF IoApicRecords
<1>5. \A a \in DOMAIN ioredtbl : \E i \in Pending : madt[i].addr = a
  BY DEF Init, Pending
<1>6. EntriesInv
  <2> SUFFICES ASSUME NEW a \in DOMAIN ioredtbl, NEW pin \in DOMAIN ioredtbl[a]
               PROVE  ioredtbl[a][pin] \in Entries
    BY DEF EntriesInv
  <2>1. PICK i \in Pending : madt[i].addr = a
    BY <1>5
  <2>2. ioredtbl[a] = [p \in 0 .. madt[i].pins - 1 |-> ResetEntry]
    BY <1>4, <2>1
  <2> QED
    BY <1>3, <2>2
<1>7. TableInv
  BY <1>1, <1>2, <1>4 DEF TableInv, Init
<1>8. DeviceInv /\ SeenInv
  BY <1>2 DEF DeviceInv, SeenInv, Init, NoRecords
<1>9. RecordInv
  BY DEF RecordInv, Init, NoRecords
<1>10. ProgressInv
  BY ApicConstants DEF ProgressInv, Init
<1>11. VectorInv
  BY DEF VectorInv, Init
<1>12. SmiRules /\ MaskedUntilAsked
  BY <1>2 DEF SmiRules, MaskedUntilAsked
<1> QED
  BY <1>6, <1>7, <1>8, <1>9, <1>10, <1>11, <1>12 DEF ApicInv

\* Steps that change nothing but bsp_lapic_id.
LEMMA QuietStep ==
  ASSUME ApicInv, bsp_lapic_id' \in LapicIds,
         UNCHANGED <<madt, smp_info, IOAPICS, ioredtbl, VECTOR_ATTRS, calls, unmasked>>
  PROVE  ApicInv'
<1>1. /\ DeviceInv /\ EntriesInv /\ RecordInv /\ TableInv /\ SeenInv /\ ProgressInv
      /\ VectorInv /\ SmiRules /\ MaskedUntilAsked
  BY DEF ApicInv
<1>2. DeviceInv' /\ KnownGsis' = KnownGsis /\ \A h : EntryOf(h)' = EntryOf(h)
  BY <1>1, NoWrite
<1>3. EntriesInv' /\ RecordInv' /\ ProgressInv'
  BY <1>1 DEF EntriesInv, RecordInv, ProgressInv
<1>4. TableInv' /\ SeenInv'
  BY <1>1 DEF TableInv, SeenInv, Pending, Registered, GsisOf, Spanned, DeviceOf, Consistent
<1>5. SmiRules' /\ MaskedUntilAsked'
  BY <1>1, <1>2 DEF SmiRules, MaskedUntilAsked, Routing!SmiRule
<1>6. VectorInv'
  BY <1>1, <1>2 DEF VectorInv, EntryOf, ioapic_from_gsi
<1> QED
  BY <1>2, <1>3, <1>4, <1>5, <1>6 DEF ApicInv

LEMMA NextApic ==
  ApicInv /\ [Next]_vars => ApicInv'
<1> SUFFICES ASSUME ApicInv, [Next]_vars PROVE ApicInv'
  OBVIOUS
<1>1. CASE ParseMadt
  BY <1>1, ParseStep
<1>2. CASE startup_aps
  BY <1>2, QuietStep, ApicConstants DEF startup_aps
<1>3. ASSUME NEW n \in CallGsis, Call(n) PROVE ApicInv'
  BY <1>3, CallKeeps
<1>4. CASE UNCHANGED vars
  BY <1>4, QuietStep DEF vars, ApicInv, ProgressInv
<1> QED
  BY <1>1, <1>2, <1>3, <1>4 DEF Next

LEMMA AlwaysApic ==
  Spec => []ApicInv
BY InitApic, NextApic, PTL DEF Spec

-----------------------------------------------------------------------------
(* What follows from it. *)

\* The record that find_apic_from_gsi chooses for a known GSI is that of the
\* device that has its pin: any other IO APIC that starts at the GSI or below
\* ends before the one that has it begins.
LEMMA RecordOfGsi ==
  ASSUME ApicInv, NEW gsi \in KnownGsis
  PROVE  smp_info.io_apics[find_apic_from_gsi(gsi)].gsib = ioapic_from_gsi(gsi).min_gsi
<1> DEFINE recs == smp_info.io_apics
           below == {i \in DOMAIN recs : recs[i].gsib <= gsi}
           best == {i \in below : \A j \in below : recs[j].gsib <= recs[i].gsib}
<1>1. DeviceInv /\ SeenInv /\ RecordInv
  BY DEF ApicInv
<1>2. PICK id \in Registered : gsi \in GsisOf(IOAPICS[id])
  BY <1>1, KnownGsi
<1>3. ioapic_from_gsi(gsi) = IOAPICS[id] /\ IOAPICS[id] \in Devices /\ gsi \in Nat
  BY <1>1, <1>2, Found
<1>4. ASSUME NEW j \in DOMAIN recs
      PROVE  /\ recs[j] \in IoApicRecords
             /\ recs[j].id \in Registered
             /\ IOAPICS[recs[j].id] = DeviceOf(recs[j])
             /\ DeviceOf(recs[j]).min_gsi = recs[j].gsib
             /\ recs[j].gsib \in Nat
             /\ recs[j].gsib \in GsisOf(DeviceOf(recs[j]))
  <2>1. recs[j] \in IoApicRecords
    BY <1>1 DEF RecordInv
  <2>2. DeviceOf(recs[j]) \in Devices /\ recs[j].id \in Ids /\ recs[j].gsib \in Nat
    BY <2>1 DEF IoApicRecords, DeviceOf, Devices
  <2>3. IOAPICS[recs[j].id] = DeviceOf(recs[j])
    BY <1>1 DEF SeenInv
  <2>4. recs[j].id \in Registered
    BY <2>2, <2>3, RecordsExist DEF Registered
  <2>5. recs[j].gsib \in GsisOf(DeviceOf(recs[j]))
    BY <2>1 DEF GsisOf, DeviceOf, IoApicRecords
  <2> QED
    BY <2>1, <2>2, <2>3, <2>4, <2>5 DEF DeviceOf
<1>5. PICK i \in DOMAIN recs : recs[i].id = id
  BY <1>1, <1>2 DEF SeenInv
<1>6. IOAPICS[id].min_gsi = recs[i].gsib /\ i \in below
  BY <1>2, <1>3, <1>4, <1>5 DEF GsisOf, Devices
<1>7. ASSUME NEW j \in below
      PROVE  recs[j].gsib <= recs[i].gsib
  <2> SUFFICES ASSUME recs[i].gsib < recs[j].gsib PROVE FALSE
    BY <1>4
  <2>1. recs[j].gsib \in GsisOf(IOAPICS[id])
    BY <1>2, <1>3, <1>4, <1>6 DEF GsisOf, Devices
  <2>2. recs[j].gsib \in GsisOf(IOAPICS[recs[j].id])
    BY <1>4
  <2>3. recs[j].id # id
    BY <1>4, <1>6
  <2> QED
    BY <1>1, <1>2, <1>4, <2>1, <2>2, <2>3 DEF DeviceInv
<1>8. i \in best /\ \A k \in best : recs[k].gsib = recs[i].gsib
  BY <1>4, <1>6, <1>7
<1>9. Len(recs) \in Nat /\ best \in SUBSET (0 .. Len(recs)) /\ best # {}
  BY <1>1, <1>8 DEF RecordInv
<1>10. Max(best) \in best
  BY <1>9, MaxOfNaturals
<1>11. find_apic_from_gsi(gsi) = Max(best)
  BY <1>6 DEF find_apic_from_gsi
<1> HIDE DEF best
<1> QED
  BY <1>3, <1>6, <1>8, <1>10, <1>11

\* An IRQ with an override leads to a record of the GSI it is connected to.
LEMMA OverrideFound ==
  ASSUME RecordInv, NEW k \in DOMAIN smp_info.isos
  PROVE  get_iso_from_irq(smp_info.isos[k].irq).gsi = gsi_from_irq(smp_info.isos[k].irq)
<1> DEFINE isos == smp_info.isos
           irq == isos[k].irq
           named == {i \in DOMAIN isos : isos[i].irq = irq}
           first == isos[Min(named)]
           there == {i \in DOMAIN isos : isos[i].gsi = first.gsi}
<1>1. isos \in Seq(IsoRecords)
  BY DEF RecordInv
<1>2. k \in named
  OBVIOUS
<1>3. Min(named) \in named /\ FirstOf(isos, named) = first /\ first \in IsoRecords
  BY <1>1, <1>2, FirstMatch
<1>4. gsi_from_irq(irq) = first.gsi
  BY <1>3, RecordsExist DEF gsi_from_irq
<1>5. there \in SUBSET DOMAIN isos /\ there # {}
  BY <1>3
<1> HIDE DEF named, first
<1>6. Min(there) \in there /\ FirstOf(isos, there) = isos[Min(there)]
  BY <1>1, <1>5, FirstMatch
<1> QED
  BY <1>4, <1>6 DEF get_iso_from_irq, gsi_get_iso

LEMMA EntriesAgree ==
  ApicInv => EntryInv
<1> SUFFICES ASSUME ApicInv PROVE EntryInv
  OBVIOUS
<1>1. DeviceInv /\ EntriesInv /\ RecordInv /\ ProgressInv /\ VectorInv /\ SmiRules
  BY DEF ApicInv
<1>2. TypeOK
  BY <1>1 DEF TypeOK, EntriesInv, VectorInv, ProgressInv
<1>3. ASSUME calls = 0, NEW v \in DOMAIN VECTOR_ATTRS
      PROVE  vector_from_gsi(VECTOR_ATTRS[v]) = v /\ int_attrs_from_vector(v).vector = v
  <2> DEFINE gsi == VECTOR_ATTRS[v]
  <2>1. gsi \in KnownGsis /\ EntryOf(gsi).vector = v
    BY <1>1, <1>3 DEF VectorInv
  <2>2. gsi \in Nat
    BY <1>1, <2>1, KnownGsi, Found
  <2>3. ioapic_from_gsi(gsi) # NONE
    BY <1>1, <2>1, <2>2, Lookup
  <2>4. EntryOf(gsi) \in Entries
    BY <1>1, <2>1, EntryKnown DEF EntriesInv
  <2>5. Read(gsi).vector = v
    BY <2>1, <2>4 DEF Read, Entries
  <2>6. ioapic_read_entry(ioapic_from_gsi(gsi), gsi) = Read(gsi)
    BY DEF ioapic_read_entry, Read, EntryOf
  <2> QED
    BY <2>3, <2>5, <2>6 DEF vector_from_gsi, int_attrs_from_vector
<1>4. LookupsAgree
  BY <1>1, <1>3, RecordOfGsi, OverrideFound DEF LookupsAgree
<1> QED
  BY <1>1, <1>2, <1>4 DEF EntryInv

(***************************************************************************)
(* For every set of well-formed MADTs and any calls: every register of     *)
(* every IO APIC holds an entry that the device may be given, SMIs stay    *)
(* edge triggered and active high (the guards of                           *)
(* ioapic_set_gsi_trigger_mode and ioapic_set_gsi_polarity), and the       *)
(* lookups by record, by device, by vector and by IRQ agree.               *)
(***************************************************************************)
THEOREM EntriesSafe == Spec => []EntryInv
BY AlwaysApic, EntriesAgree, PTL

(***************************************************************************)
(* For every set of well-formed MADTs and any calls: a pin that is not     *)
(* masked is an NMI's, or the last caller of mask_irq, unmask_irq,         *)
(* ioapic_set_gsi_mask, ioapic_route_irq or ioapic_set_smi_gsi that named  *)
(* its GSI asked for that.                                                 *)
(***************************************************************************)
THEOREM MaskedSafe == Spec => []MaskedUntilAsked
<1>1. ApicInv => MaskedUntilAsked
  BY DEF ApicInv
<1> QED
  BY <1>1, AlwaysApic, PTL

-----------------------------------------------------------------------------
(* Refinement. *)

Route == [gsi \in KnownGsis |-> Undirected(EntryOf(gsi))]

LEMMA RouteInit ==
  Init => Routing!IRInit
<1> SUFFICES ASSUME Init PROVE Routing!IRInit
  OBVIOUS
<1>1. KnownGsis = {}
  BY DEF Init, KnownGsis
<1> QED
  BY <1>1 DEF Routing!IRInit

\* Every step registers a device, changes an entry or changes nothing.
LEMMA RouteNext ==
  ApicInv /\ [Next]_vars => [Routing!IRNext]_Route
<1> SUFFICES ASSUME ApicInv, [Next]_vars
             PROVE  Routing!Discover(Route, Route') \/ Routing!ChangeOne(Route, Route')
  BY DEF Routing!IRNext, Route
<1>1. DeviceInv /\ EntriesInv /\ RecordInv /\ TableInv /\ SmiRules /\ ProgressInv
  BY DEF ApicInv
<1>2. ASSUME IOAPICS' = IOAPICS, ioredtbl' = ioredtbl
      PROVE  Routing!Discover(Route, Route')
  <2>1. KnownGsis' = KnownGsis /\ \A h : EntryOf(h)' = EntryOf(h)
    BY <1>1, <1>2, NoWrite
  <2> QED
    BY <2>1 DEF Routing!Discover, Route, Undirected
<1>3. CASE ParseMadt
  <2>1. CASE Head(madt).kind # "io_apics"
    BY <1>2, <1>3, <2>1 DEF ParseMadt
  <2>2. CASE Head(madt).kind = "io_apics"
    <3>1. Introduced(Head(madt))
      BY <1>1, <1>3, <2>2, RegisterDevice DEF ParseMadt
    <3>2. KnownGsis \subseteq KnownGsis' /\ \A h \in KnownGsis : EntryOf(h)' = EntryOf(h)
      BY <3>1 DEF Introduced
    <3> QED
      BY <3>2 DEF Routing!Discover, Route, Undirected
  <2> QED
    BY <2>1, <2>2
<1>4. ASSUME NEW n \in CallGsis, Call(n)
      PROVE  Routing!Discover(Route, Route') \/ Routing!ChangeOne(Route, Route')
  <2>1. EntryStep /\ IOAPICS' = IOAPICS
    BY <1>1, <1>4, CallStep, CallFrame DEF ProgressInv
  <2>2. CASE ioredtbl' = ioredtbl
    BY <1>2, <2>1, <2>2
  <2>3. CASE \E g \in KnownGsis, e \in Entries : Rewritten(g, e)
    <3>1. PICK g \in KnownGsis, e \in Entries : Rewritten(g, e)
      BY <2>3
    <3>2. /\ KnownGsis' = KnownGsis /\ EntryOf(g)' = e
          /\ \A h \in KnownGsis \ {g} : EntryOf(h)' = EntryOf(h)
      BY <3>1 DEF Rewritten, OnlyEntry
    <3>3. /\ DOMAIN Route = KnownGsis /\ DOMAIN Route' = KnownGsis
          /\ Route[g] = Undirected(EntryOf(g)) /\ Route'[g] = Undirected(e)
          /\ \A h \in KnownGsis \ {g} : Route'[h] = Route[h]
      BY <3>2 DEF Route, Undirected
    <3>4. Routing!SetOneField(Route[g], Route'[g]) \/ Routing!Renew(Route[g], Route'[g])
      BY <3>1, <3>3 DEF Rewritten
    <3> QED
      BY <3>3, <3>4 DEF Routing!ChangeOne
  <2> QED
    BY <2>1, <2>2, <2>3 DEF EntryStep
<1>5. CASE startup_aps \/ UNCHANGED vars
  BY <1>2, <1>5 DEF startup_aps, vars
<1> QED
  BY <1>3, <1>4, <1>5 DEF Next

(***************************************************************************)
(* The IO APICs implement InterruptRouting, for every set of well-formed   *)
(* MADTs: a call changes one field of the entry of the GSI that it names,  *)
(* or makes that entry anew, and no other; registering a device adds GSIs. *)
(***************************************************************************)
THEOREM RoutingRefinement == Spec => ImplementsRouting
<1>1. Spec => [][Routing!IRNext]_Route
  BY AlwaysApic, RouteNext, PTL DEF Spec
<1> QED
  BY <1>1, RouteInit, PTL DEF Spec, ImplementsRouting, Routing!IRSpec, Route
=============================================================================
