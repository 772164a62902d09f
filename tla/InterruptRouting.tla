-------------------------- MODULE InterruptRouting --------------------------
(***************************************************************************)
(* What the routing of interrupts promises, without IO APICs and pins:     *)
(* each global system interrupt (GSI) that is known has one entry; a call  *)
(* changes one field of one entry, or makes one entry anew; SMIs stay edge *)
(* triggered and active high.  IoApic implements this.                     *)
(***************************************************************************)
EXTENDS Integers

VARIABLE route      \* [known GSIs -> entries]

SmiRule(e) ==
    e.delivery_mode = "ICR_SMI"
        => e.trigger_mode = "EDGE_SENSITIVE" /\ e.polarity = "ACTIVE_HIGH"

\* Entries that differ in no field but f.
SameBut(e1, e2, f) == \A g \in DOMAIN e1 \ {f} : e1[g] = e2[g]

IRInit == route = [g \in {} |-> {}]

\* An IO APIC is found: its GSIs become known, the others keep their entries.
Discover(old, new) ==
    /\ DOMAIN old \subseteq DOMAIN new
    /\ \A g \in DOMAIN old : new[g] = old[g]

SetOneField(e1, e2) == SmiRule(e2) /\ \E f \in DOMAIN e1 : SameBut(e1, e2, f)

\* An entry made anew is edge triggered and active high.
Renew(e1, e2) == e2.trigger_mode = "EDGE_SENSITIVE" /\ e2.polarity = "ACTIVE_HIGH"

ChangeOne(old, new) ==
    /\ DOMAIN new = DOMAIN old
    /\ \E g \in DOMAIN old :
          /\ \A h \in DOMAIN old \ {g} : new[h] = old[h]
          /\ SetOneField(old[g], new[g]) \/ Renew(old[g], new[g])

IRNext == Discover(route, route') \/ ChangeOne(route, route')

IRSpec == IRInit /\ [][IRNext]_route
=============================================================================
