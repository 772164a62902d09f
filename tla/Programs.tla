------------------------------ MODULE Programs ------------------------------
(***************************************************************************)
(* From the page table to the first system call: the calls of _start that  *)
(* make the kernel's page map and heap, find a program in the initial ram  *)
(* disk and load it (kernel.c, proc/elf.c), then run_proc (proc/proc.c)    *)
(* and the system calls of the program (interrupts/syscall.c,              *)
(* userspace/fetch.asm).                                                   *)
(*                                                                         *)
(* Memory inside a page is counted in UNITS units, so that a segment need  *)
(* not start at a page.  One step is one call, and one segment in          *)
(* parse_elf.  No interrupt handler touches this state.                    *)
(***************************************************************************)
EXTENDS AddressSpaces, Ustar, Registers

CONSTANTS
    Limits,         \* numbers of free frames to start with
    UNITS,          \* units in a page
    HeapPages,      \* the size of the heap
    Modules,        \* what the bootloader may have loaded: sequences of modules
    InitrdName, FetchName,
    DEFAULT_STACK_BASE, \* the page of the initial stack
    Logo            \* the address fetch.asm passes to system call 1

VARIABLES
    m,          \* memory, see AddressSpaces
    ram,        \* frame -> unit -> unit of the file that was copied there
    mods,       \* modules
    heap,       \* HEAP_START, a page
    footer,     \* whether the footer of the file's block in the heap is intact
    elf,        \* the file found: what raw_elf points to
    segment,    \* the program header parse_elf is at
    pc, crashed,
    regs,       \* registers while the program runs
    printed     \* what system call 1 passed to PrintK

vars == <<m, ram, mods, heap, footer, elf, segment, pc, crashed, regs, printed>>

NoFile == [magic |-> FALSE]
Junk == -1      \* the contents of memory that is not part of the file
Unit == 0 .. UNITS - 1
Frames == FirstFrame .. FirstFrame + 64

Init ==
    /\ \E limit \in Limits : m = NoMemory(limit)
    /\ ram = [f \in Frames |-> [u \in Unit |-> Junk]]
    /\ mods \in Modules
    /\ heap = NULL
    /\ footer = TRUE
    /\ elf = NoFile
    /\ segment = 1
    /\ pc = "page_table"
    /\ crashed = FALSE
    /\ regs = [r \in GeneralRegisters |-> r]
    /\ printed = "nothing"

Goto(label) == pc' = label /\ UNCHANGED crashed
Crash == crashed' = TRUE /\ UNCHANGED pc
Running(label) == pc = label /\ ~crashed

-----------------------------------------------------------------------------
(* The kernel. *)

Present(n, root, vpage) == n.xlate[root][vpage].flags # {}

KernelPages == UNION {pmr.base .. pmr.base + pmr.length - 1 : pmr \in Range(PMRs)}

\* The new map is loaded whatever InitPageTable returns: the machine stops if
\* the kernel is not in it.
CallInitPageTable ==
    /\ Running("page_table")
    /\ m' = InitPageTable(m)
    /\ IF \A v \in KernelPages : Present(m', "kernel", v) THEN Goto("heap") ELSE Crash
    /\ UNCHANGED <<ram, mods, heap, footer, elf, segment, regs, printed>>

\* init_heap: no comparison with NULL before the first tag is written.
init_heap ==
    /\ Running("heap")
    /\ LET paddr == AllocContiguous(m, HeapPages)
       IN  /\ heap' = paddr + KERNEL_DATA
           /\ m' = AllocatedRun(m, HeapPages)
           /\ IF Present(m, "kernel", paddr + KERNEL_DATA) THEN Goto("initrd") ELSE Crash
    /\ UNCHANGED <<ram, mods, footer, elf, segment, regs, printed>>

\* kalloc of an empty heap: the block's tag must exceed the size.
FRAME_SIZE == 4096
MDATA_SIZE == 8
KallocFails(len) == len >= HeapPages * FRAME_SIZE - MDATA_SIZE

\* The size as kalloc rounds it: where the footer of the new block starts.
RoundUp(len) == len + (len % 2)

\* ustar_from_module and ustar_read.  A file that is not found, or for which
\* there is no memory, ends in an access to page 0.  Without a ram disk the
\* pointer to the file is not initialised: it faults, or there is no magic.
ReadInitrd ==
    /\ Running("initrd")
    /\ LET initrd == ustar_from_module(mods, InitrdName)
           data == ustar_read(initrd, FetchName)
           len == data[1].file.len
       IN  IF initrd = Nothing
           THEN elf' = NoFile /\ UNCHANGED footer /\ (Goto("parse") \/ Crash)
           ELSE IF data = Nothing \/ KallocFails(len)
           THEN elf' = NoFile /\ UNCHANGED footer /\ Crash
           ELSE /\ elf' = data[1].file.elf
                /\ footer' = (RoundUp(len) \notin Written(len))
                /\ Goto("parse")
    /\ UNCHANGED <<m, ram, mods, heap, segment, regs, printed>>

-----------------------------------------------------------------------------
(* parse_elf. *)

\* The root is allocated before the magic number is looked at.
ParseHeader ==
    /\ Running("parse")
    /\ m' = Allocated(m)
    /\ IF ~elf.magic THEN Goto("terminal")
       ELSE IF AllocFirstFrame(m) = NULL THEN Crash
       ELSE Goto("segments")
    /\ UNCHANGED <<ram, mods, heap, footer, elf, segment, regs, printed>>

\* The units of the file from the given one on that fill a page.
Copied(file, from) ==
    [u \in Unit |-> IF from + u < file.size THEN from + u ELSE Junk]

Pages(units) == (units + UNITS - 1) \div UNITS

\* Mutant: the frame stays free.
LoadPageShared(st, phdr, off) ==
    LET frame == AllocFirstFrame(st.m)
    IN  IF st.crashed \/ frame = NULL
        THEN [st EXCEPT !.crashed = TRUE]
        ELSE [st EXCEPT
                !.ram[frame] = Copied(elf, phdr.offset + off * UNITS),
                !.m = MapPage(@, "process", phdr.vaddr \div UNITS + off,
                              frame, USER_PROC_PAGE)]

\* One turn of the loop over a segment's pages; st is [m, ram, crashed].
LoadPage(st, phdr, off) ==
    LET frame == AllocFirstFrame(st.m)
    IN  IF st.crashed \/ frame = NULL
        THEN [st EXCEPT !.crashed = TRUE]
        ELSE [st EXCEPT
                !.ram[frame] = Copied(elf, phdr.offset + off * UNITS),
                !.m = MapPage(Allocated(@), "process", phdr.vaddr \div UNITS + off,
                              frame, USER_PROC_PAGE)]

\* Mutant: the part of a last page is not loaded.
SegmentPagesFloor(phdr) == phdr.mem_size \div UNITS

\* The bound is an address, so the pages loaded are those up to the segment
\* and then as many as it has.
SegmentPages(phdr) == Pages(phdr.vaddr + phdr.mem_size)

LoadSegment ==
    /\ Running("segments")
    /\ segment <= Len(elf.phdrs)
    /\ LET phdr == elf.phdrs[segment]
           st == IF phdr.type # "LOAD"
                 THEN [m |-> m, ram |-> ram, crashed |-> FALSE]
                 ELSE FoldLeft(LAMBDA s, i : LoadPage(s, phdr, i - 1),
                               [m |-> m, ram |-> ram, crashed |-> FALSE],
                               [i \in 1 .. SegmentPages(phdr) |-> i])
       IN  m' = st.m /\ ram' = st.ram /\ crashed' = st.crashed
    /\ segment' = segment + 1
    /\ UNCHANGED <<mods, heap, footer, elf, pc, regs, printed>>

\* The stack, then the kernel and its heap.  MapPage is called for a stack that
\* could not be allocated too; it fails unless there is a table already.
FinishPageMap(n) ==
    LET stack == AllocFirstFrame(n)
        withStack == MapPage(Allocated(n), "process", DEFAULT_STACK_BASE, stack,
                             USER_PROC_PAGE)
    IN  map_heap(MapKernelPmrs(withStack, "process"), "process", heap, HeapPages)

FinishParse ==
    /\ Running("segments")
    /\ segment > Len(elf.phdrs)
    /\ m' = FinishPageMap(m)
    /\ Goto("loaded")
    /\ UNCHANGED <<ram, mods, heap, footer, elf, segment, regs, printed>>

-----------------------------------------------------------------------------
(* The program. *)

\* The registers of the pcb; parse_elf sets rbp, rsp and rip.
Pcb == [r \in GeneralRegisters |-> IF r = "rbp" THEN "stack" ELSE r]

\* run_proc, which _start calls when it is not commented out: the new map is
\* loaded through the kernel's translation of its address.
run_proc ==
    /\ Running("loaded")
    /\ regs' = RunRegisters(Pcb, regs)
    /\ IF \A v \in KernelPages : Present(m, "process", v) THEN Goto("print") ELSE Crash
    /\ UNCHANGED <<m, ram, mods, heap, footer, elf, segment, printed>>

\* fetch.asm loads its registers and traps.
Loaded == [regs EXCEPT !["rdx"] = "length", !["rsi"] = Logo, !["rax"] = "1", !["rdi"] = "1"]

\* isr80 saves the registers, and restores them when SYSCALLS[rax], which is
\* called with a pointer to them, returns.
SyscallPrint ==
    /\ Running("print")
    /\ LET stack == Pushed(<<>>, Loaded, PUSHALL)
       IN  /\ printed' = IF Field(stack, "rax") = "1" THEN Field(stack, "r8") ELSE printed
           /\ regs' = Popped(stack, Loaded, POPALL)
    /\ Goto("exit")
    /\ UNCHANGED <<m, ram, mods, heap, footer, elf, segment>>

\* syscall_3c never returns, and interrupts are off.
SyscallExit ==
    /\ Running("exit")
    /\ Goto("exited")
    /\ UNCHANGED <<m, ram, mods, heap, footer, elf, segment, regs, printed>>

Next ==
    \/ CallInitPageTable \/ init_heap \/ ReadInitrd
    \/ ParseHeader \/ LoadSegment \/ FinishParse
    \/ run_proc \/ SyscallPrint \/ SyscallExit

Spec == Init /\ [][Next]_vars

-----------------------------------------------------------------------------
(* Properties. *)

TypeOK ==
    /\ m.used \in 0 .. m.limit
    /\ \A r \in PageMaps, v \in VPages : m.xlate[r][v].flags \in {{}, KERNEL_PAGE, USER_PROC_PAGE}
    /\ \A f \in Frames, u \in Unit : ram[f][u] \in Nat \cup {Junk}
    /\ segment \in Nat \ {0}
    /\ {crashed, footer} \subseteq BOOLEAN

\* When InitPageTable returns true, all it should map is mapped, although
\* MapKernelPmrs drops three of its results: the identity map and the higher
\* half, but for page 0, all memory above, and the kernel's own pages.
InitPageTableComplete ==
    (pc = "heap" /\ m.ok) =>
        LET at(v) == m.xlate["kernel"][v]
        IN  /\ \A p \in 1 .. FourGb - 1 :
                  at(p) = at(p + KERNEL_DATA) /\ at(p) = [addr |-> p, flags |-> KERNEL_PAGE]
            /\ \A e \in Range(MMAP) : e.bound > FourGb =>
                  \A p \in e.base .. e.bound - 1 :
                      at(p).addr = p /\ at(p + KERNEL_DATA).addr = p
            /\ \A pmr \in Range(PMRs) : \A i \in 0 .. pmr.length - 1 :
                  at(pmr.base + i) = [addr |-> PhysOf(pmr) + i, flags |-> KERNEL_PAGE]

\* The kernel never works with a heap at address 0: without frames for it the
\* first tag is written to a page that is not mapped.  (init_heap has no test
\* for NULL.)
HeapBacked ==
    heap # NULL =>
        crashed \/ \A i \in 0 .. HeapPages - 1 :
                       heap + i - KERNEL_DATA \in FirstFrame .. FirstFrame + m.limit - 1

\* The file part of a segment can be read, in user mode, at its own address.
InPlace(phdr) ==
    \A k \in 0 .. phdr.file_size - 1 :
        LET vaddr == phdr.vaddr + k
            entry == m.xlate["process"][vaddr \div UNITS]
        IN  /\ "USER_ACCESSIBLE" \in entry.flags
            /\ ram[entry.addr][vaddr % UNITS] = phdr.offset + k

Loads == {elf.phdrs[i] : i \in {j \in DOMAIN elf.phdrs : elf.phdrs[j].type = "LOAD"}}

\* Each segment that starts at a page is in memory as its header says, although
\* the segment before it is loaded into the pages behind it too.
LoadedImage ==
    (pc = "loaded" /\ ~m.short) =>
        \A phdr \in Loads : phdr.vaddr % UNITS = 0 => InPlace(phdr)

\* The same for any segment (elf.c: "copy it into a newly-allocated page frame,
\* and map the page frame to the desired location in virtual memory").  Refuted
\* by the program in iso_root/initrd.ustar, whose data do not start at a page:
\* they are copied to the start of it.
LoadedAnywhere ==
    (pc = "loaded" /\ ~m.short) => \A phdr \in Loads : InPlace(phdr)

\* Whatever the process may use is reached through tables that it may use,
\* its stack too: the kernel's pages, some in the same regions, come later.
UserReachable ==
    (pc = "loaded" /\ ~m.short) =>
        /\ "USER_ACCESSIBLE" \in m.xlate["process"][DEFAULT_STACK_BASE].flags
        /\ \A v \in VPages :
              "USER_ACCESSIBLE" \in m.xlate["process"][v].flags =>
                  "USER_ACCESSIBLE" \in m.tables["process"][v \div ENTRIES]

\* A page the process may use is its own: a frame that was allocated, that is
\* not part of the heap, and that no other of its pages has.
UserFramesPrivate ==
    LET user == {v \in VPages : "USER_ACCESSIBLE" \in m.xlate["process"][v].flags}
        addr(v) == m.xlate["process"][v].addr
    IN  \A v \in user :
            /\ addr(v) \in FirstFrame .. FirstFrame + m.used - 1
            /\ addr(v) + KERNEL_DATA \notin heap .. heap + HeapPages - 1
            /\ \A w \in user \ {v} : addr(v) # addr(w)

\* Together: the pages that a process may use are reached, and are its own.
UserPages == TypeOK /\ UserReachable /\ UserFramesPrivate

\* A loaded process has the kernel's view of the higher half, heap included
\* (elf.c: "The process level pagemap should still contain all relevant kernel
\* data").
KernelInProcess ==
    (pc = "loaded" /\ ~m.short) =>
        \A v \in VPages :
            v >= KERNEL_DATA => m.xlate["process"][v] = m.xlate["kernel"][v]

\* Together: what the kernel needs is mapped, in its page map and in those of
\* its processes.
KernelMapped == InitPageTableComplete /\ KernelInProcess

\* The same whatever the number of free frames is: parse_elf returns 0 also
\* when the frames ran out on the way.
KernelAlwaysInProcess ==
    pc = "loaded" =>
        \A v \in VPages :
            v >= KERNEL_DATA => m.xlate["process"][v] = m.xlate["kernel"][v]

\* System call 1 prints what the program passes in rsi, although registers_t
\* does not match PUSHALL and the handler reads r8.
PrintsArgument == printed # "nothing" => printed = Logo

\* A system call that returns leaves every register as the program set it.
RegistersKept == [][pc = "print" /\ pc' = "exit" => regs' = Loaded]_vars

\* What the ram disk yields is the first file of the name, whole; and a disk
\* on which only empty files are in front of it does yield it.  The same holds
\* of directories and ustar_readdir.
FoundFile ==
    LET initrd == ustar_from_module(mods, InitrdName)
        data == ustar_read(initrd, FetchName)
        files == {p \in DOMAIN initrd : initrd[p].kind = "ustar"}
        named == {p \in files : initrd[p].file.name = FetchName}
        inFront(p) == {q \in files : q < p /\ initrd[q].file.len > 0}
        first == Min(named)
        dirs == {p \in files : initrd[p].file.type = "USTAR_DIR"}
        names(ps) == {initrd[p].file.name : p \in ps}
        opened == {n \in names(files) : ustar_readdir(initrd, n) # NULLDIR}
    IN  initrd # Nothing =>
            /\ data # Nothing =>
                  data = [i \in 1 .. NumBlocks(initrd[first].file) |-> Data(initrd[first].file, i)]
            /\ (named # {} /\ inFront(first) = {}) => data # Nothing
            /\ opened \subseteq names(dirs)
            /\ names({p \in dirs : inFront(p) = {}}) \subseteq opened

\* The copy of a file stays in the memory that kalloc returned for it.  Refuted
\* by a file of even length: its last byte is written over the footer.
FileInBlock == footer

\* No result of ustar_readdir is stored behind the array.  Refuted by a
\* directory and a file of the same name: slots are counted from 1.
ReaddirFits ==
    LET initrd == ustar_from_module(mods, InitrdName)
        dir(name) == ustar_readdir(initrd, name)
    IN  \A p \in DOMAIN initrd :
            initrd[p].kind = "ustar" /\ dir(initrd[p].file.name) # NULLDIR =>
                LET d == dir(initrd[p].file.name)
                IN  Len(d.results) = 0 \/ Len(d.results) < d.arr_size
=============================================================================
