------------------------------- MODULE SmpBoot ------------------------------
(***************************************************************************)
(* How the processors come up (kernel.c, hal/cpu_init.c, hal/lapic.c,      *)
(* hal/pit.c, utils/spin_lock.c, utils/printf.c).  The boot processor      *)
(* unmasks the timer interrupt, calibrates its LAPIC timer, starts the     *)
(* application processors and masks the timer interrupt again; each        *)
(* application processor calibrates its own timer with the same counter.   *)
(*                                                                         *)
(* Calibration counts interrupts of the PIT, which are all handled on the  *)
(* boot processor, in PIT_COUNT; a spin lock is to keep one processor at a *)
(* time in it.  The kernel is built with -O0: every access to a shared     *)
(* variable is a step of its own, and ++PIT_COUNT is a load and a store.   *)
(*                                                                         *)
(* Each processor runs a script of such steps.  A busy wait is a step that *)
(* is enabled when the loop ends.                                          *)
(***************************************************************************)
EXTENDS Integers, Sequences, FiniteSets

CONSTANTS
    BSP,        \* the boot processor
    APs,        \* the application processors
    TICS,       \* total_pit_tics, 100 in the code
    PIT_HZ,     \* pit_rate_hz (1000)
    LapicRate,  \* LAPIC timer tics in one period of the PIT
    HzSpan      \* values of an entry of LAPIC_TIMER_HZs (2^16)

ASSUME SmpConstants ==
    /\ BSP \notin APs /\ IsFiniteSet(APs)
    /\ TICS \in Nat \ {0} /\ PIT_HZ \in Nat \ {0}
    /\ LapicRate \in Nat \ {0} /\ HzSpan \in Nat \ {0}

VARIABLES
    ip,             \* where each processor is in its script
    started,        \* APs whose goto_address has been written
    IN_USE,         \* the lock of PrintK
    PIT_COUNT_LOCK,
    PIT_COUNT,
    TIMER_HANDLER,  \* whether pit_increment is registered
    masked,         \* the mask bit of IRQ 2 in the IO APIC
    pending,        \* an interrupt of the PIT waits for the BSP
    eflags_IF,      \* interrupt flag of the BSP
    isr,            \* what pit_increment has loaded, Idle when not running
    since,          \* interrupts handled since the processor's last reset
    LAPIC_TIMER_HZs

shared == <<IN_USE, PIT_COUNT_LOCK, PIT_COUNT, TIMER_HANDLER>>
interrupts == <<masked, pending, eflags_IF, isr>>
vars == <<ip, started, shared, interrupts, since, LAPIC_TIMER_HZs>>

Procs == {BSP} \cup APs
Idle == -1

\* PrintK is await, claim, write.  lapic_timer_init is cli .. record and the
\* PrintK behind it.
BSPScript == <<
    "unmask",                               \* kernel: unmask_irq
    "await", "claim", "write",              \* enable_lapic
    "cli", "test", "set", "reset", "register", "sti", "spin", "release", "record",
    "await", "claim", "write",
    "start",                                \* startup_aps
    "mask",                                 \* kernel: mask_irq
    "await", "claim", "write" >>            \* MapKernelPmrs, for the first process

APScript == <<
    "goto",
    "await", "claim", "write",              \* ap_entry
    "await", "claim", "write",              \* enable_lapic
    "cli", "test", "set", "reset", "register", "sti", "spin", "release", "record",
    "await", "claim", "write",
    "await", "claim", "write" >>            \* ap_entry

Script(p) == IF p = BSP THEN BSPScript ELSE APScript

Op(p) == IF ip[p] <= Len(Script(p)) THEN Script(p)[ip[p]] ELSE "done"

\* The counter is only ever compared with TICS: larger values are the same.
Saturate(n) == IF n > TICS THEN TICS ELSE n

-----------------------------------------------------------------------------
Init ==
    /\ ip = [p \in Procs |-> 1]
    /\ started = {}
    /\ IN_USE = FALSE
    /\ PIT_COUNT_LOCK = FALSE
    /\ PIT_COUNT = 0
    /\ TIMER_HANDLER = FALSE
    /\ masked = TRUE
    /\ pending = FALSE
    /\ eflags_IF = TRUE
    /\ isr = Idle
    /\ since = [p \in Procs |-> 0]
    /\ LAPIC_TIMER_HZs = [p \in Procs |-> 0]

\* Processor p is at op, and does it; on the BSP not while an interrupt is
\* being handled.
At(p, op) ==
    /\ Op(p) = op
    /\ p = BSP => isr = Idle

Advance(p) == ip' = [ip EXCEPT ![p] = @ + 1]

-----------------------------------------------------------------------------
(* PrintK *)

await(p) ==
    /\ At(p, "await") /\ ~IN_USE
    /\ Advance(p)
    /\ UNCHANGED <<started, shared, interrupts, since, LAPIC_TIMER_HZs>>

claim(p) ==
    /\ At(p, "claim")
    /\ IN_USE' = TRUE
    /\ Advance(p)
    /\ UNCHANGED <<started, PIT_COUNT_LOCK, PIT_COUNT, TIMER_HANDLER,
                   interrupts, since, LAPIC_TIMER_HZs>>

\* Mutant: PrintK returns without giving its lock back.
write_keeps(p) ==
    /\ At(p, "write")
    /\ Advance(p)
    /\ UNCHANGED <<started, shared, interrupts, since, LAPIC_TIMER_HZs>>

\* The characters, and the lock given back at either of the two returns.
write(p) ==
    /\ At(p, "write")
    /\ IN_USE' = FALSE
    /\ Advance(p)
    /\ UNCHANGED <<started, PIT_COUNT_LOCK, PIT_COUNT, TIMER_HANDLER,
                   interrupts, since, LAPIC_TIMER_HZs>>

-----------------------------------------------------------------------------
(* lapic_timer_init.  Only the flag of the BSP matters: IRQ 2 goes there.  *)

cli(p) ==
    /\ At(p, "cli")
    /\ eflags_IF' = (p # BSP /\ eflags_IF)
    /\ Advance(p)
    /\ UNCHANGED <<started, shared, masked, pending, isr, since, LAPIC_TIMER_HZs>>

\* wait: the loop ends ...
test(p) ==
    /\ At(p, "test") /\ ~PIT_COUNT_LOCK
    /\ Advance(p)
    /\ UNCHANGED <<started, shared, interrupts, since, LAPIC_TIMER_HZs>>

\* ... and the lock is taken, a step later.
set(p) ==
    /\ At(p, "set")
    /\ PIT_COUNT_LOCK' = TRUE
    /\ Advance(p)
    /\ UNCHANGED <<started, IN_USE, PIT_COUNT, TIMER_HANDLER, interrupts, since,
                   LAPIC_TIMER_HZs>>

reset(p) ==
    /\ At(p, "reset")
    /\ PIT_COUNT' = 0
    /\ since' = [since EXCEPT ![p] = 0]
    /\ Advance(p)
    /\ UNCHANGED <<started, IN_USE, PIT_COUNT_LOCK, TIMER_HANDLER, interrupts,
                   LAPIC_TIMER_HZs>>

\* Mutant: the handler is not registered.
register_pit_handler_forgotten(p) ==
    /\ At(p, "register")
    /\ Advance(p)
    /\ UNCHANGED <<started, shared, interrupts, since, LAPIC_TIMER_HZs>>

register_pit_handler(p) ==
    /\ At(p, "register")
    /\ TIMER_HANDLER' = TRUE
    /\ Advance(p)
    /\ UNCHANGED <<started, IN_USE, PIT_COUNT_LOCK, PIT_COUNT, interrupts, since,
                   LAPIC_TIMER_HZs>>

sti(p) ==
    /\ At(p, "sti")
    /\ eflags_IF' = (p = BSP \/ eflags_IF)
    /\ Advance(p)
    /\ UNCHANGED <<started, shared, masked, pending, isr, since, LAPIC_TIMER_HZs>>

\* Mutant: the loop ends one interrupt early.
spin_short(p) ==
    /\ At(p, "spin") /\ PIT_COUNT >= TICS - 1
    /\ Advance(p)
    /\ UNCHANGED <<started, shared, interrupts, since, LAPIC_TIMER_HZs>>

spin(p) ==
    /\ At(p, "spin") /\ PIT_COUNT >= TICS
    /\ Advance(p)
    /\ UNCHANGED <<started, shared, interrupts, since, LAPIC_TIMER_HZs>>

\* Mutant: the lock is kept.
release_keeps(p) ==
    /\ At(p, "release")
    /\ Advance(p)
    /\ UNCHANGED <<started, shared, interrupts, since, LAPIC_TIMER_HZs>>

release(p) ==
    /\ At(p, "release")
    /\ PIT_COUNT_LOCK' = FALSE
    /\ Advance(p)
    /\ UNCHANGED <<started, IN_USE, PIT_COUNT, TIMER_HANDLER, interrupts, since,
                   LAPIC_TIMER_HZs>>

\* A measurement that took TICS periods is stored in 16 bits.
record(p) ==
    /\ At(p, "record")
    /\ LAPIC_TIMER_HZs' = [LAPIC_TIMER_HZs EXCEPT ![p] =
                              (((since[p] * LapicRate) \div TICS) * PIT_HZ) % HzSpan]
    /\ Advance(p)
    /\ UNCHANGED <<started, shared, interrupts, since>>

-----------------------------------------------------------------------------
(* The kernel and the start of the APs. *)

unmask_irq ==
    /\ At(BSP, "unmask")
    /\ masked' = FALSE
    /\ Advance(BSP)
    /\ UNCHANGED <<started, shared, pending, eflags_IF, isr, since, LAPIC_TIMER_HZs>>

mask_irq ==
    /\ At(BSP, "mask")
    /\ masked' = TRUE
    /\ Advance(BSP)
    /\ UNCHANGED <<started, shared, pending, eflags_IF, isr, since, LAPIC_TIMER_HZs>>

\* The loop of startup_aps: one AP after the other, then on.
startup_aps ==
    /\ At(BSP, "start")
    /\ IF started = APs
       THEN started' = started /\ Advance(BSP)
       ELSE /\ \E ap \in APs \ started : started' = started \cup {ap}
            /\ ip' = ip
    /\ UNCHANGED <<shared, interrupts, since, LAPIC_TIMER_HZs>>

\* The bootloader's code on the AP finds goto_address set.
ap_entry(p) ==
    /\ At(p, "goto") /\ p \in started
    /\ Advance(p)
    /\ UNCHANGED <<started, shared, interrupts, since, LAPIC_TIMER_HZs>>

-----------------------------------------------------------------------------
(* The PIT and its interrupt. *)

\* A period ends; the IO APIC delivers nothing while the line is masked.
PitPeriod ==
    /\ ~masked /\ ~pending
    /\ pending' = TRUE
    /\ UNCHANGED <<ip, started, shared, masked, eflags_IF, isr, since, LAPIC_TIMER_HZs>>

\* Isr2Handler: pit_increment loads the counter, if it is registered.
Isr2Handler ==
    /\ pending /\ eflags_IF /\ isr = Idle
    /\ pending' = FALSE
    /\ isr' = IF TIMER_HANDLER THEN PIT_COUNT ELSE Idle
    /\ UNCHANGED <<ip, started, shared, masked, eflags_IF, since, LAPIC_TIMER_HZs>>

\* ... and stores it, incremented.
pit_increment ==
    /\ isr # Idle
    /\ PIT_COUNT' = Saturate(isr + 1)
    /\ isr' = Idle
    /\ since' = [p \in Procs |-> Saturate(since[p] + 1)]
    /\ UNCHANGED <<ip, started, IN_USE, PIT_COUNT_LOCK, TIMER_HANDLER, masked,
                   pending, eflags_IF, LAPIC_TIMER_HZs>>

-----------------------------------------------------------------------------
Step(p) ==
    \/ await(p) \/ claim(p) \/ write(p)
    \/ cli(p) \/ test(p) \/ set(p) \/ reset(p) \/ register_pit_handler(p) \/ sti(p)
    \/ spin(p) \/ release(p) \/ record(p)
    \/ ap_entry(p)

Kernel == unmask_irq \/ startup_aps \/ mask_irq

Next ==
    \/ \E p \in Procs : Step(p)
    \/ Kernel
    \/ PitPeriod \/ Isr2Handler \/ pit_increment

\* Processors keep executing, the PIT keeps running, and an interrupt that is
\* pending while the flag is set is taken.  Handling it takes less than a
\* period, so the BSP also gets on with its script between interrupts: strong
\* fairness, since each interrupt disables it for a while.
Fairness ==
    /\ \A p \in APs : WF_vars(Step(p))
    /\ SF_vars(Step(BSP)) /\ SF_vars(Kernel)
    /\ WF_vars(PitPeriod) /\ WF_vars(Isr2Handler) /\ WF_vars(pit_increment)

Spec == Init /\ [][Next]_vars

FairSpec == Spec /\ Fairness

-----------------------------------------------------------------------------
(* Correctness. *)

\* Type invariant.
TypeOK ==
    /\ ip \in [Procs -> 1 .. Len(APScript) + 1]
    /\ started \subseteq APs
    /\ IN_USE \in BOOLEAN /\ PIT_COUNT_LOCK \in BOOLEAN /\ TIMER_HANDLER \in BOOLEAN
    /\ masked \in BOOLEAN /\ pending \in BOOLEAN /\ eflags_IF \in BOOLEAN
    /\ PIT_COUNT \in 0 .. TICS
    /\ isr \in {Idle} \cup 0 .. TICS
    /\ since \in [Procs -> 0 .. TICS]
    /\ LAPIC_TIMER_HZs \in [Procs -> 0 .. HzSpan - 1]

\* p has taken PIT_COUNT_LOCK and not given it back.
Calibrating(p) == Op(p) \in {"reset", "register", "sti", "spin", "release"}

(***************************************************************************)
(* What the lock does in spite of wait testing and setting it in two steps *)
(* (with two APs both can be inside, see LockExclusive): whoever finds it  *)
(* set waits for a processor that is inside and will give it back, since a *)
(* release by one of two takes effect for both; and nobody joins the BSP,  *)
(* which is through before any AP starts.                                  *)
(***************************************************************************)
LockGivenBack ==
    /\ PIT_COUNT_LOCK => \E p \in Procs : Calibrating(p)
    /\ Calibrating(BSP) => PIT_COUNT_LOCK /\ \A p \in APs : ~Calibrating(p)

\* Together with the type invariant.
LockInv == TypeOK /\ LockGivenBack

\* p has left the busy wait of its calibration.
Waited(p) ==
    \E n \in 1 .. Len(Script(p)) : Script(p)[n] = "spin" /\ ip[p] > n

\* The busy wait of the BSP lasts TICS interrupts: none is counted twice and
\* none from before the reset.
BspWaitsLongEnough == Waited(BSP) => since[BSP] >= TICS

\* The BSP gets through its calibration, starts the APs and goes on, whatever
\* the APs do meanwhile.
BspBoots == <>(Op(BSP) = "done")

\* Every PrintK returns: the lock IN_USE, though it excludes nobody, is always
\* given back.
PrintKReturns ==
    \A p \in Procs : Op(p) = "await" ~> Op(p) \notin {"await", "claim", "write"}

-----------------------------------------------------------------------------
(* What the comments say and the code does not do. *)

\* lapic.c:169, "Busy-wait until PIT counter reaches certain value": the wait
\* of every processor ends.
CalibrationEnds == \A p \in Procs : Op(p) = "spin" ~> Waited(p)

\* lapic.c:170, "W/ rate of 1000hz and 100 tics, this will take" that long:
\* nobody leaves the busy wait before TICS interrupts have come.
WaitTakesTics == \A p \in Procs : Op(p) \in {"release", "record"} => since[p] >= TICS

\* What a spin lock is for: two processors never calibrate at the same time.
\* wait is not atomic, so two APs can.
LockExclusive == \A p, q \in Procs : Calibrating(p) /\ Calibrating(q) => p = q

\* lapic.c:9, "Entry n stores the frequency in HZ of the timer".
HzIsFrequency ==
    \A n \in 1 .. Len(BSPScript) :
        BSPScript[n] = "record" /\ ip[BSP] > n
            => LAPIC_TIMER_HZs[BSP] = LapicRate * PIT_HZ
=============================================================================
