------------------------ MODULE VirtualMemoryManager ------------------------
(***************************************************************************)
(* The virtual memory manager (memory_management/virtual_memory_manager.c):*)
(* x86-64 page tables, a tree of LEVELS levels of tables of ENTRIES        *)
(* entries each, in frames that AllocFirstFrame supplies.                  *)
(*                                                                         *)
(* CreatePage descends the tree and creates the tables that are missing;   *)
(* each level is a step, because the allocation of a table may fail half   *)
(* way.  Reads of the tree (GetPage, VAddrToPAddr) are operators.  The     *)
(* frame allocator is taken at its word, as FrameAllocator states it: a    *)
(* frame nobody holds, filled with zeros, or NULL at any time.             *)
(***************************************************************************)
EXTENDS Integers, FiniteSets

CONSTANTS
    LEVELS,     \* levels of tables, 4 in the code
    ENTRIES,    \* entries in a table (512)
    Tables,     \* frames the allocator may supply
    PAddrs,     \* physical pages that callers map
    NULL,       \* address 0
    CallPages,  \* virtual pages that callers name
    Roots       \* how many page maps are made at most

\* How many pages the tables below a level lead to.
PagesBelow[level \in 0 .. LEVELS] ==
    IF level = 0 THEN 1 ELSE ENTRIES * PagesBelow[level - 1]

VPages == 0 .. PagesBelow[LEVELS] - 1

ASSUME VmmConstants ==
    /\ LEVELS \in Nat \ {0}
    /\ ENTRIES \in Nat \ {0, 1}
    /\ NULL \notin Tables \cup PAddrs
    /\ CallPages \subseteq VPages
    /\ Roots \in Nat

VARIABLES
    ram,        \* [Tables -> [0 .. ENTRIES - 1 -> entries]]: table contents
    allocated,  \* frames the allocator has supplied
    roots,      \* those that are the top of a page map
    call,       \* the MapPage under way, NoCall when none
    at,         \* the table and level its descent has reached
    ret         \* what the last call returned

vars == <<ram, allocated, roots, call, at, ret>>

\* Flags: both combinations in use are present and writable.
KERNEL_PAGE == {"PRESENT", "READ_WRITABLE"}
USER_PAGE == {"PRESENT", "READ_WRITABLE", "USER_ACCESSIBLE"}

EMPTY == [addr |-> NULL, flags |-> {}]

Entry(addr, flags) == [addr |-> addr, flags |-> flags]

GetPageFlag(entry, flag) == flag \in entry.flags

Slots == 0 .. ENTRIES - 1
EmptyTable == [i \in Slots |-> EMPTY]

NoCall == [root |-> NULL]
Nowhere == [table |-> NULL, level |-> 0]

-----------------------------------------------------------------------------
(* Reading the tree. *)

\* The page number, shifted by the bits of each level in turn.
Shifted(vpage) ==
    LET part[level \in 0 .. LEVELS] ==
          IF level = 0 THEN vpage ELSE part[level - 1] \div ENTRIES
    IN  part

V_ADDR_INDEX(vpage, level) == Shifted(vpage)[level - 1] % ENTRIES

GetPageTable(parent, index) ==
    IF parent # NULL /\ GetPageFlag(ram[parent][index], "PRESENT")
    THEN ram[parent][index].addr
    ELSE NULL

\* The table that a walk from root meets at each level, NULL below a gap.
Walk(root, vpage) ==
    LET table[l \in 1 .. LEVELS] ==
          IF l = LEVELS
          THEN root
          ELSE GetPageTable(table[l + 1], V_ADDR_INDEX(vpage, l + 1))
    IN  table

\* GetPage returns a pointer to the entry; here, the table that holds it.
GetPage(root, vpage) == Walk(root, vpage)[1]

\* The entry of a page, EMPTY where there is no table for it.
Leaf(root, vpage) ==
    LET table == GetPage(root, vpage)
    IN  IF table = NULL THEN EMPTY ELSE ram[table][V_ADDR_INDEX(vpage, 1)]

\* The PRESENT flag of the last level is not looked at.
VAddrToPAddr(root, vpage) == Leaf(root, vpage).addr

-----------------------------------------------------------------------------
Init ==
    /\ ram = [t \in Tables |-> EmptyTable]
    /\ allocated = {}
    /\ roots = {}
    /\ call = NoCall
    /\ at = Nowhere
    /\ ret = FALSE

\* AllocFirstFrame: some frame nobody holds.
AllocFirstFrame(f) == f \in Tables \ allocated /\ allocated' = allocated \cup {f}

\* The root of the kernel (InitPageTable) or of a process (parse_elf).
NewPageMap ==
    /\ call = NoCall
    /\ Cardinality(roots) < Roots
    /\ \E f \in Tables :
          /\ AllocFirstFrame(f)
          /\ roots' = roots \cup {f}
    /\ ret' = TRUE
    /\ UNCHANGED <<ram, call, at>>

\* Enter CreatePage.  target is the page the caller wants mapped, unmapped
\* is FALSE for a RemapPage that found nothing to unmap.
StartMap(root, vpage, paddr, flags, target, unmapped) ==
    /\ call' = [root |-> root, vpage |-> vpage, entry |-> Entry(paddr, flags),
                target |-> target, unmapped |-> unmapped]
    /\ at' = [table |-> root, level |-> LEVELS]

MapPage(root, vpage, paddr, flags) ==
    /\ call = NoCall
    /\ StartMap(root, vpage, paddr, flags, vpage, TRUE)
    /\ UNCHANGED <<ram, allocated, roots, ret>>

Finish(result) ==
    /\ call' = NoCall
    /\ at' = Nowhere
    /\ ret' = result

Index == V_ADDR_INDEX(call.vpage, at.level)

\* GetOrCreatePageTable: the table exists.
Descend ==
    /\ call # NoCall
    /\ at.level > 1
    /\ GetPageFlag(ram[at.table][Index], "PRESENT")
    /\ at' = [table |-> ram[at.table][Index].addr, level |-> at.level - 1]
    /\ UNCHANGED <<ram, allocated, roots, call, ret>>

\* Mutant: an existing table is not looked for.
CreateTableAlways ==
    /\ call # NoCall
    /\ at.level > 1
    /\ \E f \in Tables :
          /\ AllocFirstFrame(f)
          /\ ram' = [ram EXCEPT ![at.table][Index] = Entry(f, call.entry.flags)]
          /\ at' = [table |-> f, level |-> at.level - 1]
    /\ UNCHANGED <<roots, call, ret>>

\* GetOrCreatePageTable: a new table is linked in, with the caller's flags.
CreateTable ==
    /\ call # NoCall
    /\ at.level > 1
    /\ ~GetPageFlag(ram[at.table][Index], "PRESENT")
    /\ \E f \in Tables :
          /\ AllocFirstFrame(f)
          /\ ram' = [ram EXCEPT ![at.table][Index] = Entry(f, call.entry.flags)]
          /\ at' = [table |-> f, level |-> at.level - 1]
    /\ UNCHANGED <<roots, call, ret>>

\* GetOrCreatePageTable: AllocFirstFrame returns NULL, MapPage returns false.
OutOfFrames ==
    /\ call # NoCall
    /\ at.level > 1
    /\ ~GetPageFlag(ram[at.table][Index], "PRESENT")
    /\ Finish(FALSE)
    /\ UNCHANGED <<ram, allocated, roots>>

SetEntry ==
    /\ call # NoCall
    /\ at.level = 1
    /\ ram' = [ram EXCEPT ![at.table][Index] = call.entry]
    /\ Finish(call.unmapped)
    /\ UNCHANGED <<allocated, roots>>

\* Mutant: the whole last table is dropped, not the one entry.
ClearEntryTable(root, vpage) ==
    LET table == GetPage(root, vpage)
    IN  IF table = NULL
        THEN ram' = ram
        ELSE ram' = [ram EXCEPT ![table] = EmptyTable]

\* What UnmapPage does to the tables.
ClearEntry(root, vpage) ==
    LET table == GetPage(root, vpage)
    IN  IF table = NULL
        THEN ram' = ram
        ELSE ram' = [ram EXCEPT ![table][V_ADDR_INDEX(vpage, 1)] = EMPTY]

UnmapPage(root, vpage) ==
    /\ call = NoCall
    /\ ClearEntry(root, vpage)
    /\ ret' = (GetPage(root, vpage) # NULL)
    /\ UNCHANGED <<allocated, roots, call, at>>

\* The page is unmapped and then mapped again at its former address,
\* whatever new_vpage is.
RemapPage(root, former_vpage, new_vpage, flags) ==
    /\ call = NoCall
    /\ ClearEntry(root, former_vpage)
    /\ StartMap(root, former_vpage, VAddrToPAddr(root, former_vpage), flags,
                new_vpage, GetPage(root, former_vpage) # NULL)
    /\ UNCHANGED <<allocated, roots, ret>>

CallMap ==
    \E r \in roots, v \in CallPages, p \in PAddrs, fl \in {KERNEL_PAGE, USER_PAGE} :
        MapPage(r, v, p, fl)

CallUnmap == \E r \in roots, v \in CallPages : UnmapPage(r, v)

CallRemap ==
    \E r \in roots, v \in CallPages, fl \in {KERNEL_PAGE, USER_PAGE} :
        \E w \in CallPages : RemapPage(r, v, w, fl)

Next ==
    \/ NewPageMap \/ CallMap \/ CallUnmap \/ CallRemap
    \/ Descend \/ CreateTable \/ OutOfFrames \/ SetEntry

Spec == Init /\ [][Next]_vars

-----------------------------------------------------------------------------
(* Correctness. *)

\* Type invariant.
TypeOK ==
    /\ ram \in [Tables -> [Slots -> [addr : Tables \cup PAddrs \cup {NULL},
                                     flags : {{}, KERNEL_PAGE, USER_PAGE}]]]
    /\ roots \subseteq allocated /\ allocated \subseteq Tables
    /\ call # NoCall => /\ call.root \in roots /\ call.vpage \in VPages
                        /\ at.level \in 1 .. LEVELS
                        /\ at.table = Walk(call.root, call.vpage)[at.level]
    /\ ret \in BOOLEAN

\* Every table that a walk meets, with the root, the level and the part of
\* the address that lead there.
Places ==
    {p \in {[table |-> Walk(r, v)[l], root |-> r, level |-> l,
             prefix |-> Shifted(v)[l]] :
                 r \in roots, v \in VPages, l \in 1 .. LEVELS} :
        p.table # NULL}

(***************************************************************************)
(* The tables form one tree per root and nothing is lost: each frame the   *)
(* allocator supplied is met on exactly one path of exactly one root.      *)
(* GetOrCreatePageTable must link every frame it gets and never link one   *)
(* twice, also when a later level runs out of frames.                      *)
(***************************************************************************)
TreeShape ==
    /\ allocated = {p.table : p \in Places}
    /\ \A p, q \in Places : p.table = q.table => p = q

\* Together: a call that is between two tables stands in such a tree, at the
\* table its address leads to.
TreeInv == TypeOK /\ TreeShape

(***************************************************************************)
(* The tree implements PageMap: MapPage sets the entry of its own page in  *)
(* its own root and no other, the creation of tables on the way changes no *)
(* translation, a MapPage that fails half way changes none either, and     *)
(* UnmapPage clears one entry.                                             *)
(***************************************************************************)
Translation == INSTANCE PageMap WITH
    xlate <- [r \in roots |-> [v \in VPages |-> Leaf(r, v)]],
    request <- call,
    NoMapping <- NoCall

ImplementsPageMap == Translation!PMSpec

-----------------------------------------------------------------------------
(* What the comments say and the code does not do. *)

\* virtual_memory_manager.h:155: new_vaddr is "the vaddr to which the physical
\* addr corresponding to former_vaddr ought to be mapped".
RemapMoves ==
    [][(call # NoCall /\ call' = NoCall /\ ret')
          => VAddrToPAddr(call.root, call.target)' = call.entry.addr]_vars

\* virtual_memory_manager.h:144: UnmapPage returns "true if virtual addr existed
\* in table and was unmapped, false if the virtual addr did not exist".
UnmapReportsMapped ==
    [][\A r \in roots, v \in CallPages :
          UnmapPage(r, v) =>
              (ret' <=> GetPageFlag(Leaf(r, v), "PRESENT"))]_vars
=============================================================================
