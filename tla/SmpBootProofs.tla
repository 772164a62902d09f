--------------------------- MODULE SmpBootProofs ----------------------------
(***************************************************************************)
(* Proofs about SmpBoot: the counter that the boot processor waits for,    *)
(* and the lock around it, with any number of application processors.      *)
(***************************************************************************)
EXTENDS SmpBoot, TLAPS

-----------------------------------------------------------------------------
(* The scripts. *)

\* Where in its script the BSP is at each operation of the calibration.
LEMMA BspPlaces ==
  ASSUME TypeOK
  PROVE  /\ ip[BSP] \in 1 .. 23
         /\ Op(BSP) = "unmask" <=> ip[BSP] = 1
         /\ Op(BSP) = "set" <=> ip[BSP] = 7
         /\ Op(BSP) = "reset" <=> ip[BSP] = 8
         /\ Op(BSP) = "register" <=> ip[BSP] = 9
         /\ Op(BSP) = "sti" <=> ip[BSP] = 10
         /\ Op(BSP) = "spin" <=> ip[BSP] = 11
         /\ Op(BSP) = "release" <=> ip[BSP] = 12
         /\ Op(BSP) = "start" <=> ip[BSP] = 17
         /\ Op(BSP) = "mask" <=> ip[BSP] = 18
         /\ Op(BSP) = "done" <=> ip[BSP] > 21
         /\ Op(BSP) # "goto"
BY DEF TypeOK, Op, Script, BSPScript, APScript, Procs

\* The same for an AP.
LEMMA ApPlaces ==
  ASSUME TypeOK, NEW p \in APs
  PROVE  /\ ip[p] \in 1 .. 23
         /\ Op(p) = "goto" <=> ip[p] = 1
         /\ Op(p) = "set" <=> ip[p] = 10
         /\ Op(p) = "reset" <=> ip[p] = 11
         /\ Op(p) = "register" <=> ip[p] = 12
         /\ Op(p) = "sti" <=> ip[p] = 13
         /\ Op(p) = "spin" <=> ip[p] = 14
         /\ Op(p) = "release" <=> ip[p] = 15
         /\ Op(p) = "done" <=> ip[p] > 22
         /\ Op(p) \notin {"unmask", "start", "mask"}
BY SmpConstants DEF TypeOK, Op, Script, BSPScript, APScript, Procs

\* A processor that takes a step is not through its script, and is one place
\* further afterwards.
LEMMA Advances ==
  ASSUME TypeOK, NEW p \in Procs, NEW op, op # "done", At(p, op), Advance(p)
  PROVE  /\ ip' \in [Procs -> 1 .. Len(APScript) + 1]
         /\ ip'[p] = ip[p] + 1
         /\ \A q \in Procs \ {p} : ip'[q] = ip[q]
<1>1. ip[p] \in 1 .. 22
  <2>1. CASE p = BSP
    BY <2>1, BspPlaces DEF At
  <2>2. CASE p \in APs
    BY <2>2, ApPlaces DEF At
  <2> QED
    BY <2>1, <2>2 DEF Procs
<1>2. Len(APScript) = 22
  BY DEF APScript
<1> QED
  BY <1>1, <1>2 DEF Advance, TypeOK

\* A quotient times a factor, reduced to 16 bits.
LEMMA RecordRange ==
  ASSUME NEW n \in Nat
  PROVE  (((n * LapicRate) \div TICS) * PIT_HZ) % HzSpan \in 0 .. HzSpan - 1
<1>1. n * LapicRate \in Nat
  BY SmpConstants
<1>2. ASSUME NEW k \in Nat PROVE k \div TICS \in Nat
  BY SmpConstants
<1>3. ASSUME NEW k \in Nat PROVE k * PIT_HZ \in Nat
  BY SmpConstants
<1>4. ASSUME NEW k \in Nat PROVE k % HzSpan \in 0 .. HzSpan - 1
  BY SmpConstants
<1> QED
  BY <1>1, <1>2, <1>3, <1>4

-----------------------------------------------------------------------------
(* Types, for any number of processors. *)

LEMMA InitTypes == Init => TypeOK
<1> SUFFICES ASSUME Init PROVE TypeOK
  OBVIOUS
<1>1. ip \in [Procs -> 1 .. Len(APScript) + 1]
  BY DEF Init, APScript
<1>2. /\ PIT_COUNT \in 0 .. TICS
      /\ isr \in {Idle} \cup 0 .. TICS
      /\ since \in [Procs -> 0 .. TICS]
      /\ LAPIC_TIMER_HZs \in [Procs -> 0 .. HzSpan - 1]
  BY SmpConstants DEF Init
<1> QED
  BY <1>1, <1>2 DEF Init, TypeOK

LEMMA NextTypes ==
  ASSUME TypeOK, [Next]_vars
  PROVE  TypeOK'
<1> USE SmpConstants
<1>1. ASSUME NEW p \in Procs, Step(p)
      PROVE  TypeOK'
  <2>1. CASE await(p)
    BY <2>1, Advances DEF await, shared, interrupts, TypeOK
  <2>2. CASE claim(p)
    BY <2>2, Advances DEF claim, interrupts, TypeOK
  <2>3. CASE write(p)
    BY <2>3, Advances DEF write, interrupts, TypeOK
  <2>4. CASE cli(p)
    BY <2>4, Advances DEF cli, shared, TypeOK
  <2>5. CASE test(p)
    BY <2>5, Advances DEF test, shared, interrupts, TypeOK
  <2>6. CASE set(p)
    BY <2>6, Advances DEF set, interrupts, TypeOK
  <2>7. CASE reset(p)
    BY <2>7, Advances DEF reset, interrupts, TypeOK
  <2>8. CASE register_pit_handler(p)
    BY <2>8, Advances DEF register_pit_handler, interrupts, TypeOK
  <2>9. CASE sti(p)
    BY <2>9, Advances DEF sti, shared, TypeOK
  <2>10. CASE spin(p)
    BY <2>10, Advances DEF spin, shared, interrupts, TypeOK
  <2>11. CASE release(p)
    BY <2>11, Advances DEF release, interrupts, TypeOK
  <2>12. CASE record(p)
    <3>1. (((since[p] * LapicRate) \div TICS) * PIT_HZ) % HzSpan \in 0 .. HzSpan - 1
      BY RecordRange DEF TypeOK
    <3> QED
      BY <2>12, <3>1, Advances DEF record, shared, interrupts, TypeOK
  <2>13. CASE ap_entry(p)
    BY <2>13, Advances DEF ap_entry, shared, interrupts, TypeOK
  <2> QED
    BY <1>1, <2>1, <2>2, <2>3, <2>4, <2>5, <2>6, <2>7, <2>8, <2>9, <2>10, <2>11,
       <2>12, <2>13 DEF Step
<1>2. ASSUME Kernel
      PROVE  TypeOK'
  <2> BSP \in Procs
    BY DEF Procs
  <2>1. CASE unmask_irq
    BY <2>1, Advances DEF unmask_irq, shared, TypeOK
  <2>2. CASE startup_aps
    BY <2>2, Advances DEF startup_aps, shared, interrupts, TypeOK
  <2>3. CASE mask_irq
    BY <2>3, Advances DEF mask_irq, shared, TypeOK
  <2> QED
    BY <1>2, <2>1, <2>2, <2>3 DEF Kernel
<1>3. CASE PitPeriod
  BY <1>3 DEF PitPeriod, shared, TypeOK
<1>4. CASE Isr2Handler
  BY <1>4 DEF Isr2Handler, shared, TypeOK
<1>5. CASE pit_increment
  BY <1>5 DEF pit_increment, TypeOK, Saturate, Idle
<1>6. CASE UNCHANGED vars
  BY <1>6 DEF vars, shared, interrupts, TypeOK
<1> QED
  BY <1>1, <1>2, <1>3, <1>4, <1>5, <1>6 DEF Next

\* SmpBoot keeps its types.
LEMMA AlwaysTypes == Spec => []TypeOK
<1>1. TypeOK /\ [Next]_vars => TypeOK'
  BY NextTypes
<1> QED
  BY InitTypes, <1>1, PTL DEF Spec

-----------------------------------------------------------------------------
(* The wait of the boot processor, for any number of processors. *)

\* From its reset to the end of its wait the BSP has had at least as many
\* interrupts as the counter says, and as pit_increment has loaded; afterwards
\* it has had TICS of them.
CountInv ==
    /\ ip[BSP] \in 9 .. 11 => PIT_COUNT <= since[BSP] /\ isr <= since[BSP]
    /\ ip[BSP] > 11 => since[BSP] >= TICS

LEMMA NextCount ==
  ASSUME TypeOK, CountInv, [Next]_vars
  PROVE  CountInv'
<1> USE SmpConstants
<1>a. BSP \in Procs /\ BSP \notin APs
  BY DEF Procs
<1>b. since[BSP] \in 0 .. TICS /\ PIT_COUNT \in 0 .. TICS /\ isr \in {-1} \cup 0 .. TICS
  BY <1>a DEF TypeOK, Idle
<1>1. ASSUME NEW p \in Procs, Step(p)
      PROVE  CountInv'
  <2>1. CASE reset(p)
    <3>1. CASE p = BSP
      <4>1. ip[BSP] = 8
        BY <2>1, <3>1, BspPlaces DEF reset, At
      <4>2. ip'[BSP] = 9
        BY <2>1, <3>1, <4>1, Advances DEF reset
      <4>3. PIT_COUNT' = 0 /\ since'[BSP] = 0 /\ isr' = -1
        BY <2>1, <3>1, <1>a DEF reset, At, interrupts, TypeOK, Idle
      <4> QED
        BY <4>2, <4>3 DEF CountInv
    <3>2. CASE p # BSP
      <4>1. /\ ip'[BSP] = ip[BSP] /\ since'[BSP] = since[BSP]
            /\ PIT_COUNT' = 0 /\ isr' = isr
        BY <2>1, <3>2, <1>a, Advances DEF reset, interrupts, TypeOK
      <4> QED
        BY <4>1, <1>b DEF CountInv
    <3> QED
      BY <3>1, <3>2
  <2>2. CASE spin(p)
    <3>1. UNCHANGED <<PIT_COUNT, isr, since>>
      BY <2>2 DEF spin, shared, interrupts
    <3>2. CASE p = BSP
      <4>1. ip[BSP] = 11 /\ PIT_COUNT >= TICS
        BY <2>2, <3>2, BspPlaces DEF spin, At
      <4>2. ip'[BSP] = 12
        BY <2>2, <3>2, <4>1, Advances DEF spin
      <4> QED
        BY <3>1, <4>1, <4>2, <1>b DEF CountInv
    <3>3. CASE p # BSP
      <4>1. ip'[BSP] = ip[BSP]
        BY <2>2, <3>3, <1>a, Advances DEF spin
      <4> QED
        BY <3>1, <4>1 DEF CountInv
    <3> QED
      BY <3>2, <3>3
  <2>3. ASSUME NEW op, op \notin {"done", "reset", "spin"}, At(p, op), Advance(p),
               UNCHANGED <<PIT_COUNT, isr, since>>
        PROVE  CountInv'
    <3>1. CASE p = BSP
      <4>1. ip[BSP] \in 1 .. 23 /\ ip[BSP] \notin {8, 11}
        BY <2>3, <3>1, BspPlaces DEF At
      <4>2. ip'[BSP] = ip[BSP] + 1
        BY <2>3, <3>1, Advances
      <4> QED
        BY <2>3, <4>1, <4>2 DEF CountInv
    <3>2. CASE p # BSP
      <4>1. ip'[BSP] = ip[BSP]
        BY <2>3, <3>2, <1>a, Advances
      <4> QED
        BY <2>3, <4>1 DEF CountInv
    <3> QED
      BY <3>1, <3>2
  <2>4. CASE await(p)
    BY <2>3, <2>4 DEF await, shared, interrupts
  <2>5. CASE claim(p)
    BY <2>3, <2>5 DEF claim, interrupts
  <2>6. CASE write(p)
    BY <2>3, <2>6 DEF write, interrupts
  <2>7. CASE cli(p)
    BY <2>3, <2>7 DEF cli, shared
  <2>8. CASE test(p)
    BY <2>3, <2>8 DEF test, shared, interrupts
  <2>9. CASE set(p)
    BY <2>3, <2>9 DEF set, interrupts
  <2>10. CASE register_pit_handler(p)
    BY <2>3, <2>10 DEF register_pit_handler, interrupts
  <2>11. CASE sti(p)
    BY <2>3, <2>11 DEF sti, shared
  <2>12. CASE release(p)
    BY <2>3, <2>12 DEF release, interrupts
  <2>13. CASE record(p)
    BY <2>3, <2>13 DEF record, shared, interrupts
  <2>14. CASE ap_entry(p)
    BY <2>3, <2>14 DEF ap_entry, shared, interrupts
  <2> QED
    BY <1>1, <2>1, <2>2, <2>4, <2>5, <2>6, <2>7, <2>8, <2>9, <2>10, <2>11, <2>12,
       <2>13, <2>14 DEF Step
<1>2. ASSUME Kernel
      PROVE  CountInv'
  <2>1. UNCHANGED <<PIT_COUNT, isr, since>>
    BY <1>2 DEF Kernel, unmask_irq, startup_aps, mask_irq, shared, interrupts
  <2>2. ip[BSP] \in {1, 17, 18} /\ ip'[BSP] \in {ip[BSP], ip[BSP] + 1}
    <3>1. CASE unmask_irq
      BY <3>1, <1>a, BspPlaces, Advances DEF unmask_irq, At
    <3>2. CASE startup_aps
      BY <3>2, <1>a, BspPlaces, Advances DEF startup_aps, At
    <3>3. CASE mask_irq
      BY <3>3, <1>a, BspPlaces, Advances DEF mask_irq, At
    <3> QED
      BY <1>2, <3>1, <3>2, <3>3 DEF Kernel
  <2> QED
    BY <2>1, <2>2 DEF CountInv
<1>3. CASE PitPeriod
  BY <1>3 DEF PitPeriod, shared, CountInv
<1>4. CASE Isr2Handler
  BY <1>4, <1>b DEF Isr2Handler, shared, CountInv, Idle
<1>5. CASE pit_increment
  <2>1. /\ ip'[BSP] = ip[BSP] /\ PIT_COUNT' = Saturate(isr + 1) /\ isr' = -1
        /\ since'[BSP] = Saturate(since[BSP] + 1)
    BY <1>5, <1>a DEF pit_increment, Idle
  <2> QED
    BY <2>1, <1>b DEF CountInv, Saturate
<1>6. CASE UNCHANGED vars
  BY <1>6 DEF vars, shared, interrupts, CountInv
<1> QED
  BY <1>1, <1>2, <1>3, <1>4, <1>5, <1>6 DEF Next

\* The BSP's busy wait in lapic_timer_init lasts TICS timer interrupts, however
\* many application processors there are and whatever they do to PIT_COUNT.
THEOREM BspWait == Spec => []BspWaitsLongEnough
<1>1. Init => CountInv
  BY DEF Init, CountInv, Procs
<1>2. TypeOK /\ CountInv /\ [Next]_vars => CountInv'
  BY NextCount
<1>3. TypeOK /\ CountInv => BspWaitsLongEnough
  <2> SUFFICES ASSUME TypeOK, CountInv, Waited(BSP)
               PROVE  since[BSP] >= TICS
    BY DEF BspWaitsLongEnough
  <2>1. PICK n \in 1 .. Len(BSPScript) : BSPScript[n] = "spin" /\ ip[BSP] > n
    BY DEF Waited, Script
  <2>2. n = 11
    BY <2>1 DEF BSPScript
  <2> QED
    BY <2>1, <2>2 DEF CountInv
<1> QED
  BY <1>1, <1>2, <1>3, AlwaysTypes, PTL DEF Spec

-----------------------------------------------------------------------------
(* The lock, for any number of processors. *)

\* p is between its set and its release.
HoldsLock(p) == ip[p] \in (IF p = BSP THEN 8 .. 12 ELSE 11 .. 15)

\* No AP runs before the BSP is through its calibration, and the lock is set
\* only while someone is inside, and while the BSP is.
LockState ==
    /\ \A p \in APs : p \notin started => ip[p] = 1
    /\ started # {} => ip[BSP] >= 17
    /\ PIT_COUNT_LOCK => \E p \in Procs : HoldsLock(p)
    /\ HoldsLock(BSP) => PIT_COUNT_LOCK

LEMMA CalibratingHolds ==
  ASSUME TypeOK, NEW p \in Procs
  PROVE  Calibrating(p) <=> HoldsLock(p)
<1>1. CASE p = BSP
  <2>1. ip[BSP] \in 1 .. 23
    BY BspPlaces
  <2> QED
    BY <1>1, <2>1, BspPlaces DEF Calibrating, HoldsLock
<1>2. CASE p \in APs
  <2>1. ip[p] \in 1 .. 23 /\ p # BSP
    BY <1>2, ApPlaces, SmpConstants
  <2> QED
    BY <1>2, <2>1, ApPlaces DEF Calibrating, HoldsLock
<1> QED
  BY <1>1, <1>2 DEF Procs

\* While the BSP is inside no AP has left its first step.
LEMMA BspAlone ==
  ASSUME TypeOK, LockState, HoldsLock(BSP), NEW p \in APs
  PROVE  ~HoldsLock(p) /\ Op(p) # "release"
<1>1. started = {}
  BY BspPlaces DEF LockState, HoldsLock
<1>2. ip[p] = 1 /\ p # BSP
  BY <1>1, SmpConstants DEF LockState
<1> QED
  BY <1>2, ApPlaces DEF HoldsLock

\* Starting and stepping, without the lock.
LEMMA NextStarted ==
  ASSUME TypeOK, LockState, [Next]_vars
  PROVE  /\ \A p \in APs : p \notin started' => ip'[p] = 1
         /\ started' # {} => ip'[BSP] >= 17
<1>a. BSP \in Procs /\ BSP \notin APs /\ ip[BSP] \in 1 .. 23
  BY SmpConstants, BspPlaces DEF Procs
<1>1. ASSUME NEW p \in Procs, NEW op, op # "done", At(p, op), Advance(p),
             op = "goto" => p \in started, started' = started
      PROVE  /\ \A q \in APs : q \notin started' => ip'[q] = 1
             /\ started' # {} => ip'[BSP] >= 17
  <2>1. /\ ip'[p] = ip[p] + 1
        /\ \A q \in Procs \ {p} : ip'[q] = ip[q]
    BY <1>1, Advances
  <2>2. ip'[BSP] >= ip[BSP]
    BY <2>1, <1>a
  <2>3. ASSUME p \in APs PROVE p \in started
    BY <1>1, <2>3, ApPlaces DEF LockState, At
  <2> QED
    BY <1>1, <2>1, <2>2, <2>3, <1>a DEF LockState, Procs
<1>2. ASSUME NEW p \in Procs, Step(p)
      PROVE  /\ \A q \in APs : q \notin started' => ip'[q] = 1
             /\ started' # {} => ip'[BSP] >= 17
  BY <1>1, <1>2 DEF Step, await, claim, write, cli, test, set, reset,
     register_pit_handler, sti, spin, release, record, ap_entry
<1>3. CASE unmask_irq
  BY <1>1, <1>3, <1>a DEF unmask_irq
<1>4. CASE mask_irq
  BY <1>1, <1>4, <1>a DEF mask_irq
<1>5. CASE startup_aps
  <2>1. ip[BSP] = 17
    BY <1>5, BspPlaces DEF startup_aps, At
  <2>2. CASE started = APs
    BY <1>1, <1>5, <2>2, <1>a DEF startup_aps
  <2>3. CASE started # APs
    BY <1>5, <2>1, <2>3 DEF startup_aps, LockState
  <2> QED
    BY <2>2, <2>3
<1>6. CASE ip' = ip /\ started' = started
  BY <1>6 DEF LockState
<1> QED
  BY <1>2, <1>3, <1>4, <1>5, <1>6
  DEF Next, Kernel, PitPeriod, Isr2Handler, pit_increment, vars

\* The lock follows the processors that are inside.
LEMMA NextLock ==
  ASSUME TypeOK, LockState, [Next]_vars
  PROVE  /\ PIT_COUNT_LOCK' => \E p \in Procs : HoldsLock(p)'
         /\ HoldsLock(BSP)' => PIT_COUNT_LOCK'
<1> DEFINE Follows == /\ PIT_COUNT_LOCK' => \E p \in Procs : HoldsLock(p)'
                      /\ HoldsLock(BSP)' => PIT_COUNT_LOCK'
<1>a. BSP \in Procs /\ BSP \notin APs /\ ip[BSP] \in 1 .. 23
  BY SmpConstants, BspPlaces DEF Procs
\* Where a step starts, and what it does to who is inside.
<1>1. ASSUME NEW p \in Procs, NEW op, op # "done", At(p, op), Advance(p)
      PROVE  /\ \A q \in Procs \ {p} : HoldsLock(q)' <=> HoldsLock(q)
             /\ op = "set" => ~HoldsLock(p) /\ HoldsLock(p)'
             /\ op = "release" => HoldsLock(p) /\ ~HoldsLock(p)'
             /\ op \notin {"set", "release"} => (HoldsLock(p)' <=> HoldsLock(p))
  <2>1. /\ ip'[p] = ip[p] + 1
        /\ \A q \in Procs \ {p} : ip'[q] = ip[q]
    BY <1>1, Advances
  <2>2. CASE p = BSP
    BY <1>1, <2>1, <2>2, BspPlaces DEF At, HoldsLock
  <2>3. CASE p \in APs
    BY <1>1, <1>a, <2>1, <2>3, ApPlaces DEF At, HoldsLock
  <2> QED
    BY <2>1, <2>2, <2>3 DEF Procs, HoldsLock
<1>2. ASSUME NEW p \in Procs, NEW op, op \notin {"done", "set", "release"},
             At(p, op), Advance(p), PIT_COUNT_LOCK' = PIT_COUNT_LOCK
      PROVE  Follows
  BY <1>1, <1>2, <1>a DEF LockState
<1>3. ASSUME NEW p \in Procs, set(p)
      PROVE  Follows
  BY <1>1, <1>3 DEF set
<1>4. ASSUME NEW p \in Procs, release(p)
      PROVE  Follows
  <2>1. PIT_COUNT_LOCK' = FALSE
    BY <1>4 DEF release
  <2>2. /\ HoldsLock(p) /\ ~HoldsLock(p)'
        /\ \A q \in Procs \ {p} : HoldsLock(q)' <=> HoldsLock(q)
    BY <1>1, <1>4 DEF release
  <2>3. p # BSP => ~HoldsLock(BSP)
    BY <2>2, BspAlone DEF Procs
  <2> QED
    BY <1>a, <2>1, <2>2, <2>3
<1>5. ASSUME NEW p \in Procs, Step(p)
      PROVE  Follows
  BY <1>2, <1>3, <1>4, <1>5 DEF Step, await, claim, write, cli, test, reset,
     register_pit_handler, sti, spin, record, ap_entry, shared
<1>6. CASE ip' = ip /\ PIT_COUNT_LOCK' = PIT_COUNT_LOCK
  BY <1>6 DEF LockState, HoldsLock
<1>7. CASE Kernel
  BY <1>2, <1>6, <1>7, <1>a DEF Kernel, unmask_irq, startup_aps, mask_irq, shared
<1> QED
  BY <1>5, <1>6, <1>7
  DEF Next, PitPeriod, Isr2Handler, pit_increment, vars, shared

\* For any number of application processors, although two of them can be in
\* their calibration at once: PIT_COUNT_LOCK is never set without a processor
\* inside that will clear it, and no AP ever joins the boot processor.
THEOREM LockSafe == Spec => []LockInv
<1>1. Init => LockState
  BY SmpConstants DEF Init, LockState, HoldsLock, Procs
<1>2. TypeOK /\ LockState /\ [Next]_vars => LockState'
  BY NextStarted, NextLock DEF LockState
<1>3. TypeOK /\ LockState => LockInv
  <2> SUFFICES ASSUME TypeOK, LockState
               PROVE  LockGivenBack
    BY DEF LockInv
  <2>1. BSP \in Procs /\ APs \subseteq Procs
    BY DEF Procs
  <2> QED
    BY <2>1, CalibratingHolds, BspAlone DEF LockGivenBack, LockState
<1> QED
  BY <1>1, <1>2, <1>3, AlwaysTypes, PTL DEF Spec
=============================================================================
