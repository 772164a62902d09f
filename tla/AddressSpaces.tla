--------------------------- MODULE AddressSpaces ----------------------------
(***************************************************************************)
(* The page maps of the kernel and of a process: the loops over address    *)
(* ranges in memory_management/virtual_memory_manager.c and map_heap of    *)
(* kheap.c, on top of what VirtualMemoryManager shows of a single MapPage. *)
(*                                                                         *)
(* Addresses are page numbers.  A page map is a translation and the flags  *)
(* of its tables, one table for each region of ENTRIES pages; a table that *)
(* is missing takes a frame when the first page of its region is mapped.   *)
(* Each function is an operator on a record:                               *)
(*   used, limit  frames handed out, and how many there are                *)
(*   xlate        root -> page -> entry                                    *)
(*   tables       root -> region -> flags of the table, {} for none        *)
(*   ok           what the last call returned                              *)
(*   short        some AllocFirstFrame has returned NULL                   *)
(*   failed       roots for which a TestKernelMapping printed "Failure"    *)
(***************************************************************************)
EXTENDS Integers, FiniteSetsExt, SequencesExt

CONSTANTS
    FourGb,         \* pages in 4 GiB
    ENTRIES,        \* pages for which one table is needed
    KERNEL_DATA,    \* the first page of the higher half
    VPages,         \* all virtual pages
    FirstFrame,     \* frames are FirstFrame, FirstFrame + 1 and so on
    MMAP,           \* sequence of [base, bound, type]
    PMRs,           \* sequence of [base, length]
    BASE_ADDR       \* [physical_base_address, virtual_base_address]

ASSUME AddressSpaceConstants ==
    /\ {FourGb, ENTRIES, KERNEL_DATA, FirstFrame} \subseteq Nat \ {0}
    /\ VPages \subseteq Nat /\ FourGb <= KERNEL_DATA

NULL == 0
KERNEL_PAGE == {"PRESENT", "READ_WRITABLE"}
USER_PROC_PAGE == {"PRESENT", "READ_WRITABLE", "USER_ACCESSIBLE"}
EMPTY == [addr |-> NULL, flags |-> {}]

PageMaps == {"kernel", "process"}
Regions == {v \div ENTRIES : v \in VPages}

NoMemory(limit) ==
    [used |-> 0, limit |-> limit,
     xlate |-> [r \in PageMaps |-> [v \in VPages |-> EMPTY]],
     tables |-> [r \in PageMaps |-> [g \in Regions |-> {}]],
     ok |-> TRUE, short |-> FALSE, failed |-> {}]

\* AllocFirstFrame: the frame returned, and the memory afterwards.
AllocFirstFrame(m) == IF m.used < m.limit THEN FirstFrame + m.used ELSE NULL

Allocated(m) ==
    IF m.used < m.limit THEN [m EXCEPT !.used = @ + 1] ELSE [m EXCEPT !.short = TRUE]

\* AllocContiguous looks for a run of one frame more than it is asked for, and
\* marks another behind the run, which need not be free.
AllocContiguous(m, pages) ==
    IF m.used + pages + 1 <= m.limit THEN FirstFrame + m.used ELSE NULL

AllocatedRun(m, pages) ==
    IF AllocContiguous(m, pages) = NULL THEN m
    ELSE [m EXCEPT !.used = Min({@ + pages + 2, m.limit})]

\* The loop of MapMultiple over count pages from vpage on, which become those
\* from paddr on.  Tables that are missing are created on the way, with the
\* flags of the pages, and keep these flags.  When the frames run out the loop
\* ends at the first page of the region that has no table.
MapPages(m, root, vpage, count, paddr, flags) ==
    LET bound == vpage + count
        missing == {g \in vpage \div ENTRIES .. (bound - 1) \div ENTRIES :
                       m.tables[root][g] = {}}
        lost == {g \in missing : Cardinality({h \in missing : h <= g}) > m.limit - m.used}
        end == IF lost = {} THEN bound ELSE Max({vpage, Min(lost) * ENTRIES})
    IN  [m EXCEPT
            !.used = @ + Cardinality(missing \ lost),
            !.tables[root] = [g \in Regions |-> IF g \in missing \ lost THEN flags ELSE @[g]],
            !.xlate[root] = [v \in VPages |->
                IF v \in vpage .. end - 1
                THEN [addr |-> paddr + (v - vpage), flags |-> flags] ELSE @[v]],
            !.ok = lost = {},
            !.short = @ \/ lost # {}]

MapPage(m, root, vpage, paddr, flags) == MapPages(m, root, vpage, 1, paddr, flags)

\* Mutant: the first page of memory is mapped with the rest.
MapMultipleNull(m, root, base, bound, offset, flags) ==
    LET from == IF base = 1 THEN 0 ELSE base
    IN  MapPages(m, root, from + offset, bound - from, from, flags)

MapMultiple(m, root, base, bound, offset, flags) ==
    MapPages(m, root, base + offset, bound - base, base, flags)

\* Mutant: success = MapMultiple(...)
AndMapMultipleLast(m, root, base, bound, offset) ==
    MapMultiple(m, root, base, bound, offset, KERNEL_PAGE)

\* success &= MapMultiple(...)
AndMapMultiple(m, root, base, bound, offset) ==
    LET n == MapMultiple(m, root, base, bound, offset, KERNEL_PAGE)
    IN  [n EXCEPT !.ok = m.ok /\ @]

\* The call as a statement: the result is dropped.
JustMapMultiple(m, root, base, bound, offset) ==
    [MapMultiple(m, root, base, bound, offset, KERNEL_PAGE) EXCEPT !.ok = m.ok]

-----------------------------------------------------------------------------
(* The kernel's ranges. *)

\* PRESENT is not looked at ("! x & PRESENT" negates x), and the root is
\* always the kernel's.
AssertKernelMapping(m, paddr, vpage) ==
    /\ m.tables["kernel"][vpage \div ENTRIES] # {}
    /\ m.xlate["kernel"][vpage] # EMPTY
    /\ m.xlate["kernel"][vpage].addr = paddr

TestKernelMapping(m, root, paddr, vpage) ==
    IF AssertKernelMapping(m, paddr, vpage) THEN m
    ELSE [m EXCEPT !.failed = @ \cup {root}]

PhysOf(pmr) == BASE_ADDR.physical_base_address
                 + (pmr.base - BASE_ADDR.virtual_base_address)

MapPmr(m, root, pmr) ==
    LET phys == PhysOf(pmr)
    IN  TestKernelMapping(AndMapMultiple(m, root, phys, phys + pmr.length, pmr.base - phys),
                          root, phys, pmr.base)

\* KERNEL_PAGE & EXECUTABLE is KERNEL_PAGE.
MapMmapEntry(m, root, e) ==
    LET low == IF e.type \in {"FRAMEBUFFER", "BOOTLOADER_RECLAIMABLE"}
               THEN JustMapMultiple(m, root, e.base, e.bound, 0) ELSE m
        high == IF e.type = "FRAMEBUFFER"
                THEN JustMapMultiple(low, root, e.base, e.bound, KERNEL_DATA) ELSE low
    IN  IF e.bound <= FourGb
        THEN high
        ELSE AndMapMultiple(AndMapMultiple(high, root, e.base, e.bound, 0),
                            root, e.base, e.bound, KERNEL_DATA)

\* Page 0 is not mapped.  The result of mapping the higher half is dropped.
MapKernelPmrs(m, root) ==
    LET half == JustMapMultiple([m EXCEPT !.ok = TRUE], root, 1, FourGb, KERNEL_DATA)
        code == FoldLeft(LAMBDA n, pmr : MapPmr(n, root, pmr), half, PMRs)
    IN  FoldLeft(LAMBDA n, e : MapMmapEntry(n, root, e), code, MMAP)

InitPageTable(m) ==
    IF AllocFirstFrame(m) = NULL
    THEN [Allocated(m) EXCEPT !.ok = FALSE]
    ELSE AndMapMultiple(
            AndMapMultiple(MapKernelPmrs(Allocated(m), "kernel"), "kernel", 1, FourGb, 0),
            "kernel", 1, FourGb, KERNEL_DATA)

\* HEAP_START is translated back with the kernel's map; the result of the
\* mapping is dropped.
map_heap(m, root, heap, pages) ==
    LET paddr == m.xlate["kernel"][heap].addr
    IN  JustMapMultiple(m, root, paddr, paddr + pages, KERNEL_DATA)
=============================================================================
