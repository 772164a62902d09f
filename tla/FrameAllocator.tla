--------------------------- MODULE FrameAllocator ---------------------------
(***************************************************************************)
(* What a page-frame allocator promises to its callers, without a bitmap,  *)
(* a cursor or a scan.  A fixed pool of frames exists.  One caller at a    *)
(* time asks for a run of frames and is either refused or granted a run    *)
(* that lies in the pool, that nobody holds, and whose contents have been  *)
(* zeroed.  PhysicalMemoryManager is shown to implement this.              *)
(***************************************************************************)
EXTENDS Integers

VARIABLES
    pool,       \* frames the allocator may hand out
    held,       \* frames handed out and not yet given back
    soiled,     \* frames whose contents may be other than zero
    want        \* length of the run being asked for, NoRequest when none

faVars == <<pool, held, soiled, want>>

NoRequest == -1

FAInit ==
    /\ pool \in SUBSET Nat
    /\ held = {}
    /\ soiled = pool
    /\ want = NoRequest

Request ==
    /\ want = NoRequest
    /\ want' \in Nat \ {0}
    /\ UNCHANGED <<pool, held, soiled>>

Grant(first) ==
    /\ want # NoRequest
    /\ LET run == first .. first + want - 1
       IN  /\ run \subseteq pool \ held
           /\ held' = held \cup run
           /\ soiled' = soiled \ run
    /\ want' = NoRequest
    /\ UNCHANGED pool

Refuse ==
    /\ want # NoRequest
    /\ want' = NoRequest
    /\ UNCHANGED <<pool, held, soiled>>

Release(f) ==
    /\ want = NoRequest
    /\ f \in held
    /\ held' = held \ {f}
    /\ soiled' = soiled \ {f}
    /\ UNCHANGED <<pool, want>>

Use(f) ==
    /\ want = NoRequest
    /\ f \in held
    /\ soiled' = soiled \cup {f}
    /\ UNCHANGED <<pool, held, want>>

FANext ==
    \/ Request
    \/ \E first \in pool : Grant(first)
    \/ Refuse
    \/ \E f \in held : Release(f) \/ Use(f)

FASpec == FAInit /\ [][FANext]_faVars
=============================================================================
