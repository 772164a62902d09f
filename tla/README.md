# A TLA+ model of the Vardar kernel

Vardar is a small x86-64 kernel, booted by Limine through the stivale2
protocol (`src/src/kernel`; paths below are relative to that directory). This
directory holds TLA+ models of its parts, the TLC configurations that check
them and TLAPS proofs. The repository has no tests and no separate
documentation: where the code is compared with what is said of it, that is a
comment in a header or next to the code.

## 1. The system

### Components

| Component | State | Operations |
|---|---|---|
| **Physical memory manager** (`memory_management/physical_memory_manager.c`) | a bitmap with one bit per frame, placed in the first large enough usable region; next-fit cursor `last_used`; `num_entries` | `InitPmm`, `AllocFirstFrame`, `AllocContiguous`, `FreeFrame`, `NumFreeFrames` |
| **Virtual memory manager** (`memory_management/virtual_memory_manager.c`) | four-level page tables in frames; kernel root | `MapPage`, `UnmapPage`, `RemapPage`, kernel variants, `VAddrToPAddr`; loops over ranges (`MapMultiple`, `InitPageTable`, `MapKernelPmrs`) |
| **Kernel heap** (`memory_management/kheap.c`) | boundary-tagged blocks in one contiguous run of frames | `init_heap`, `kalloc`, `kfree`, `krealloc` |
| **Processor startup, timer calibration** (`kernel.c`, `hal/cpu_init.c`, `hal/lapic.c`, `hal/pit.c`, `utils/spin_lock.c`) | `PIT_COUNT`, `PIT_COUNT_LOCK`, registered timer handler, mask bit of IRQ 2, per-processor frequency | `startup_aps`, `ap_entry`, `lapic_timer_init`, `pit_increment`, `Isr2Handler` |
| **PrintK and utilities** (`utils/`) | the flag `IN_USE`, a static conversion buffer | `PrintK`, `memmove`, `strcmp` and the like, rounding, bits |
| **ACPI and MADT** (`acpi/`) | the root table; lists of IO APICs, overrides and NMIs | `InitAcpi`, `FindTable`, `ParseMadt`, look-ups |
| **IO APIC** (`hal/io_apic.c`) | redirection tables, array of devices | registering, masking, routing |
| **LAPIC** (`hal/lapic.c`) | its address, the registers of each | `enable_lapic` with `enable_nmi`, `disable_lapic`, `set_eoi_broadcast`, `send_ipi`, the timer |
| **Descriptors** (`gdt/gdt.c`, `interrupts/idt.c`) | GDT, TSS, IDT, masks of the PICs | filled in and loaded once |
| **Keyboard** (`interrupts/idt.c`, `keycodes.c`) | flags for shift, backspace, ctrl and enter, one consumer | `Isr1Handler`, `CharFromScancode` |
| **Graphics and terminal** (`graphics/`) | back buffer, dirty rows as bits of a `uint64_t`, cursor in pixels | drawing, `WriteBack`, printing, scrolling, backspace |
| **Processes and system calls** (`proc/`, `interrupts/syscall.c`, `idt_asm.asm`) | a page map and registers per process | `parse_elf`, `run_proc`, `isr80` |
| **Initial ram disk** (`vfs/ustar.c`) | a tar archive in memory | `ustar_from_module`, `ustar_read` |

### How they interact

`_start` initialises the components in a fixed order on the boot processor
(BSP): graphics, frames, ACPI and interrupt routing, page tables, the IDT, the
heap, then the timer and the application processors (APs), the ram disk and a
first process, the terminal and the keyboard.
Page tables, the heap, the AP stacks and processes all take frames from the
physical memory manager; the heap serves the ram disk. Only the BSP
calls the allocators, without locks and without interruption by code that
allocates. What runs concurrently is the calibration: APs spin on a counter
that an interrupt handler on the BSP increments, under a spin lock whose `wait`
is not atomic, and all processors print through one flag.

### What is hard, and what correctness means

* **Frames.** Rounding decides how many frames the bitmap has bits for; the
  searches wrap around a count that is really the last index; a contiguous
  search checks one frame more than needed and marks two more. Correct: a frame
  handed out is usable, not the bitmap's, in nobody else's hands and zeroed;
  NULL means something; searches end.
* **Page tables.** A mapping can run out of frames after linking some tables.
  Correct: tables stay a tree, none is lost or shared, and only the named page's
  translation changes.
* **Heap.** Each call trusts tags left by all earlier ones; sizes are read
  through a 16-bit mask in a heap of 0x20000 bytes. Correct: allocations are
  disjoint, tags tile the heap, nobody's contents change, freeing all restores
  one block.
* **Startup.** Non-atomic lock and counter, an interrupt that is masked while
  others may wait for it. Correct: calibrations do not overlap, last as long as
  they should, the lock is given back, and everybody gets on. (With two APs the
  first is not so, see section 3.)
* **Interrupt routing.** IO APICs are programmed while the MADT is still being
  read, each setter reads and rewrites whole entries, devices are found by ID
  and pins by offset. Correct: a call changes one field of one GSI's entry,
  nothing is unmasked unasked, SMIs keep the modes they must have.
* **Bring-up.** Interrupts are on from `LoadIdt`, in the middle of the boot;
  results of the ACPI functions are ignored; a loop ends by a comparison of
  unsigned numbers. Correct: whatever interrupt can come finds its handler, no
  register is used before its address is known, the loop ends.
* **Address spaces and programs.** Most results of mapping functions are
  dropped, segments are loaded beyond their ends, tables are shared by user and
  kernel pages. Correct: what is reported complete is complete; a program's
  segments are where its headers say and its pages are its own; a system call
  gets its argument and restores the registers.
* **Screen, terminal, keyboard.** Each drawing routine rounds to dirty rows in
  its own way; the cursor wraps, scrolls and goes back in pixels; keys are
  pressed and released in any order while the boot is still under way. Correct:
  the screen shows what was drawn, and that is a text; the cursor stays inside;
  no key is fatal.
* **Library.** Overlapping copies, ends of strings, digits, masks.

`PROJECT.json` lists the hazards line by line.

## 2. Modules

| Module | Models |
|---|---|
| `FrameAllocator` | abstract: a pool, runs granted, released, used |
| `PhysicalMemoryManager` | `physical_memory_manager.c`; implements `FrameAllocator` |
| `PageMap` | abstract: a translation per root, one entry changed per call |
| `VirtualMemoryManager` | page tables; implements `PageMap` |
| `KHeap` | the heap, down to half-words |
| `SmpBoot` | processors, PIT, calibration, the lock of PrintK |
| `InterruptRouting` | abstract: an entry per GSI, one field of one entry changed per call |
| `IoApic` | `madt.c` and `io_apic.c`; implements `InterruptRouting` |
| `Acpi` | tags and tables: `stivale2_get_tag`, `acpi.c` |
| `Descriptors` | entries of GDT, TSS and IDT, and how the processor reads them |
| `Platform` | the boot up to interrupts: `kernel.c`, `idt.c`, `gdt.c`, `lapic.c` over the two above |
| `AddressSpaces` | loops over ranges of pages: `virtual_memory_manager.c`, `map_heap` |
| `Ustar` | the walk through the ram disk |
| `Registers` | `PUSHALL`, `POPALL`, `registers_t`, `run_proc`'s registers |
| `Programs` | from the page table to the first system call, over the three above |
| `Screen` | drawing, dirty rows, copying to the frame buffer |
| `Terminal` | printing, wrapping, scrolling, erasing, over `Screen` |
| `TextTerminal` | abstract: a grid of characters with a cursor |
| `Console` | the end of `_start`, the keyboard and the terminal; implements `TextTerminal` |
| `PhysicalMemoryManagerProofs`, `VirtualMemoryManagerProofs`, `KHeapProofs`, `SmpBootProofs`, `IoApicProofs`, `PlatformProofs`, `ConsoleProofs` | theorems about the module of that name |
| `NumberFacts` | lemmas that several of these use |
| `Library` | `string.c`, `misc.c`, the formatting of `printf.c`, `PackRgb` |
| `MCPmm`, `MCVmm`, `MCKHeap`, `MCSmp`, `MCApic`, `MCPlatform`, `MCPrograms`, `MCConsole`, `MCLibrary` | instances for TLC |

Definitions that start with "Mutant:" in their comment are plausible mistakes
in the definition that follows; each property has one that violates it, which
shows that the property depends on the code.

### PhysicalMemoryManager

`free` is the set of indices whose bit is 0, `last_used` the cursor. `pc`,
`scan` and `pages` are the control point and locals of the search under way;
each loop iteration is an action (`FirstSkips`, `FirstFinds`, `FirstFails` and
the `Contig` ones), so that non-termination is visible. The inner loop of
`AllocContiguous` is folded into its iteration. `owned` and `soiled` are
history: frames callers hold, frames whose contents may be non-zero. The memory
map is chosen from `MemMaps`, sequences that satisfy what stivale2 guarantees
(`WellFormed`). The bitmap occupies whole frames; bits behind it are whatever
memory holds, of which `StaleBits` may read as clear. After `InitPmm` returned
false nothing is modelled (`Halted`), although `_start` ignores the result.

### VirtualMemoryManager

`ram` gives the entries of each table, `call` and `at` the `MapPage` under way
and how far its descent got: one step per level (`Descend`, `CreateTable`,
`OutOfFrames`, `SetEntry`). `RemapPage` is the unmapping followed by a
`MapPage` of the former address, which is what the code does; `PageMap`, the
abstract specification, only asks that one page is cleared and one page of the
same root mapped, as a `RemapPage` that moves a page to `new_vaddr`, as its
header says, would do too. Any allocation
may fail at any time. Levels count down to 1 as in the code; an address is its
page number. The kernel variants only fix the root. The TLB is left out:
`UnmapPage` executes `invlpg`, and the model has no cached translations that
could differ from the tables.

### KHeap

`mem` maps half-words to values below `Span`, since `SIZE_MASK` (0xFFFE) sees
the low half of a tag while `kalloc` compares whole tags. Each C helper is an
operator from memory to memory or to a block; the callers' actions compose
them. `live` is what callers hold and know of its contents. Offsets are even,
as rounding makes them. `Walk` is the loop of `kalloc`, with one header for
each iteration; a block has at least its two tags, which bounds their number.
Reads outside the heap give 0 and writes are dropped.
Every call is one step, since only the BSP calls.

### SmpBoot

Every processor runs a script of steps, one per access to a shared variable
(the kernel is built with `-O0`; `++PIT_COUNT` is a load by `Isr2Handler` and
a store by `pit_increment`). A busy wait is a step enabled when the loop ends.
`since[p]` is history: interrupts handled since p's reset of the counter. The
PIT's interrupt goes to the BSP (its LAPIC id is taken to be 0: `io_apic.c:368`
asks for it before `startup_aps` has set it, and gets 0), and is taken only with the interrupt flag set; one
interrupt can be pending. What is left out: a calibration that runs longer than
needed records a lower frequency; the AP stacks.

### IoApic

`madt` holds the records still to be read; `ParseMadt` takes one, files it in
`smp_info` and registers an IO APIC at once, so that `InitialEntry` sees only
the records before it, as in the code. `ioredtbl` is the registers of the
devices, by address and pin; `IOAPICS` is the kernel's array, by ID. A
redirection entry is a record of its fields; reading it yields destination 0
(`ioapic_read_entry` shifts the upper word by 31 within 32 bits), so every
setter that writes back loses the destination. `ioapic_set_smi_gsi` writes
fields it never initialised: any value. `bsp_lapic_id` is 0 until
`startup_aps`. `unmasked` is history: GSIs whose last caller wanted them
unmasked. Functions that the kernel does not call yet are actions all the same:
they are the component's interface. The frames that hold the records
are left out, and so are the two register writes of an entry, which nothing
observes in between.

### Platform, Acpi, Descriptors

`machine` is what firmware and bootloader provide; a table is its signature,
length and byte sum, so that checksums and the division of a `size_t` length
into an `int` are computed as in the code. `pc` runs through `_start` from the
tags to the keyboard; each of `enable_lapic`, `initialize_gdt` and
`InitializeIdt` takes as many steps as it has effects that an interrupt could
come between. `Follow` takes the tags of the memory map, the PMRs, the kernel's
base address, the processors and the modules where `_start` uses each of them,
which it does without a test: a missing one ends the boot there. Descriptors keep their bytes apart, and `HandlerOf`, `IsCode64`
and the like read them as the processor does. `get_nmi_record` compares a
`uint8_t` index with a `size_t` count minus one: behind the last record lies
`Junk`. `Raised` is the set of vectors at which an interrupt can come in the
state at hand: those of the IRQs let through, system calls in user mode, and 2
as soon as `enable_nmi` has set a pin to deliver NMIs. The actions `disable_lapic`,
`set_eoi_broadcast`, `send_ipi` and `run_proc` are the interface; the kernel
does not call them yet. Left out: `LTR_LOCK`, which is never contended since
the calls on the APs are commented out; `get_lapic_version`, which only reads;
`RemapPic`, which nobody calls.

What an NMI meets is stated in `AllInterruptsServed` (vector 2 has no gate) and
`PinsAsNamed` (the pin is chosen the wrong way round: lint 1 is programmed into
LINT0), both refuted in section 3. Seen on the way, without a comment to compare
it with: the record's ACPI processor id is compared with a LAPIC id.

### Programs, AddressSpaces, Ustar, Registers

`AddressSpaces` takes over from `VirtualMemoryManager`, where one `MapPage` is
shown to implement `PageMap`: here a page map is a translation and the flags of
its tables, and the loops over ranges are operators on the memory `m`. The
number of free frames, `m.limit`, is chosen at the start, so that they run out
at every possible place. `m.short` is history. `Programs` has one step per
call of `_start`, and one per segment in `parse_elf`; `ram` records which unit
of the file is in which frame. The ram disk is a sequence of blocks, walked as
`ustar_read` walks it: the step to the next entry leaves out the header, so it
gets past empty entries and lands inside any other. `ustar_readdir` walks the
same way; it collects headers that have the directory's own name, never the
files in it. Files have a length in bytes, and `footer` says whether the copy
of the file has left the footer of its block alone: `ustar_read` copies to
`kalloc(len) + 1`. The heap takes the frames that `AllocContiguous` marks, two
more than it needs. `Registers` has the pushes
and pops of `idt_asm.asm` in their order, and the fields of `registers_t` in
theirs. Left out: `find_shdr_strtab`, which nobody calls, and `PrintPageAttrs`, which only prints.

Further facts the model has: a page of bss holds what lies behind in the file;
the root page map of a file that is no program is not given back; `parse_elf`
calls `MapPage` with frame 0 for a stack that could not be allocated, which
fails for want of a table too unless the program has a page in the stack's
region (no program of the run has; see `UserPages` in section 3's second
table); system call 1 passes the program's string to `PrintK` as its format; system call 0x3c loops with interrupts off.

### Console, Terminal, Screen

`Screen` is the two buffers and the set of dirty cells. A pixel of the frame
buffer has 32 bits, which `PackRgb` assumes as well: at any other depth it makes
0 of every colour, and `width * bpp / 8` bytes are not the width of a line of
the back buffer. `kernel.c:56` asks the bootloader for 16 and does not look at
what it gets, so nothing here holds if the request is granted. `SetNthBit` shifts an
`int`: from bit `IntBits - 1` on, what it sets is what a sign-extended or
wrapped shift sets. Drawing functions are operators on the context, pixel by
pixel; `Transpose` moves a rectangle. The loops over the rows of a glyph, the
characters of a string and the lines of a scroll are recursive functions of the
number of turns. `Terminal` adds the cursor, the place of
the last character printed. `Console` has the statements of `_start` from
`ClearScreen` on as steps of `Boot`, and `Press` and `Release` of each key at
any time; `Isr1Handler` is one step, since interrupts are off. The letter's
scancode is also the one that the code calls CTRL. `ImplementsText` reads the
characters off the pixels of the frame buffer and compares every step with
what a text terminal does. Left out: `PrintStr`, `TermPrintMain`,
`RenderMain`, which nobody calls; the font is a constant.

Further facts the model has: a held backspace turns every key into an erase;
releasing one shift key clears the flag while the other is held; a key that is
pressed while IRQ 1 is masked is lost; backspace at the start of a line paints
over the right border; pixel rows behind `NumRows * row_height` are never
copied.

### Library

Functions that write are run over a memory of `Size` bytes in the order in
which the code touches the bytes. The others are operators. A behaviour is one
call; the result, the arguments and the old memory are kept in `last`, and the
properties compare them with a definition that has no loop. Format strings are
sequences of characters, and what is printed is a sequence of characters and
argument numbers; what `%d` makes of an argument is `Decimal`. A format that ends in `%` would be read beyond its end, and
`Itoa` of the smallest integer overflows; neither is called.

## 3. Runs

| Run | Instance | Result |
|---|---|---|
| `pmm` | four maps of up to 11 frames, sizes of 1 and 2 frames | `TypeOK`; `FrameInv`: clear bits a search can see and held frames are usable, not the bitmap's, and disjoint; `ImplementsFrameAllocator`; `FirstNullMeansNone`, `ContigNullMeansNone`: what a NULL tells; `SearchesEnd`: searches end if there is something to find |
| `vmm_safety` | 3 levels of 2 entries, 5 frames, 2 roots | `TreeInv`: every frame supplied lies on exactly one path, and a call stands in its own; `ImplementsPageMap` |
| `heap` | three heaps of 64, 128 and 64 bytes: the mask expresses the first, with 3 callers; half of the second, with 2; all of the third, whose one caller also reallocates | `HeapSound`: allocations are disjoint, tags tile the heap, a held block has no room for another, all freed is one block; `ContentsKept`; `KernelSound`: both, for the half of the second that the mask reaches; `LoneSound`: both, of the third |
| `smp` | BSP and two APs | `LockInv`: the lock is never set without a processor inside that will clear it, and nobody joins the BSP in its calibration; `BspWaitsLongEnough`; `BspBoots`; `PrintKReturns` |
| `smp_hang` | BSP and one AP | violated: `CalibrationEnds`. The interrupt is masked before the AP has counted to the end |
| `ioapic` | three MADTs, up to two IO APICs, every pair of calls | `EntryInv`: entries are ones the devices may be given, the rules for SMIs included, and the look-ups find them; `MaskedUntilAsked`; `ImplementsRouting` |
| `platform` | 114 machines | `MadtLookup`: the first sound MADT of the right root table, and a crash there only without one; `MaskableServed`: every maskable interrupt and system call that can come finds gate, selector, stack and the LAPIC's address; `LapicProgrammed`: each of the two LINT pins is as the records for one pin say, up to which is which; `EnableLapicReturns` |
| `programs` | 0 to 38 free frames, eight ram disks | `KernelMapped`: what `InitPageTable` reports complete is complete, and a process has the kernel's half; `HeapBacked`; `LoadedImage`; `UserPages`: reachable in user mode, allocated, and in no other use; `PrintsArgument`; `FoundFile`; `RegistersKept` |
| `console` | 29 pixel rows in 10 cells, 5 keys | `StaysInside`: the cursor stays in the terminal and the rest of the screen untouched; `DirtyRowsShown`: outside the dirty cells the screen shows the back buffer; `NoStuckFlags`; `ImplementsText` |
| `console_tall` | 46 pixel rows in 16 cells, `IntBits = 8` | violated: `DirtyRowsShown`. A line that starts in a cell from `IntBits` on is not marked |
| `console_key` | as `console` | violated: `ConsumerAlwaysSet`. A key between two statements of `_start` is handled without a consumer |
| `library` | every memory of four bytes; numbers up to 300; formats up to six characters; four frame buffers | `WritesExact`; `Comparisons`; `PrintedRight`: numbers can be read back, formats print what printf prints; `MasksRight`: rounding and colours |

The counterexamples of `smp_hang`, `console_tall` and `console_key` are
executions of the model from boot; the findings in `PROJECT.json` quote the
comments they contradict. `console_tall` is the screen that `_start` asks for,
scaled down: of 1080 pixel rows, 16 to a cell, the lowest line of the terminal's
540 starts in cell 32, and `1 << 32` in an `int` marks cell 0 instead, so that
what is typed there is not shown.

### What is said and does not hold

The modules state further comments of the code that it does not satisfy, and a
few things it should do although no comment says so. TLC refutes each when it is made the one property
of the configuration named, with the changes given:

| Property | Said at | Configuration | What happens |
|---|---|---|---|
| `AllocFirstFrameReturns` | `physical_memory_manager.h:40` | `pmm`, `MemMaps <- SmallMaps` | with the last frame handed out and nothing free the loop never meets the cursor |
| `OnlyUsableFrames` | `physical_memory_manager.c:79` | `pmm`, `Spec`, `MemMaps <- ShortMaps` | memory behind the bitmap is read as bits |
| `NullOnlyWhenExhausted` | `physical_memory_manager.h:40` | `pmm`, `Spec`, `MemMaps <- SmallMaps` | the cursor's frame and the last one may be free |
| `EnoughIsTaken` | `physical_memory_manager.c:96` | the same | one frame more than needed is required |
| `FreeFramesCounted` | `physical_memory_manager.h:55` | the same | the last frame is not counted |
| `BootFreesTheRest` | `physical_memory_manager.c:41` | `pmm`, `Spec`, `MemMaps <- RoomyMaps` | the whole region that holds the bitmap stays used |
| `RemapMoves` | `virtual_memory_manager.h:155` | `vmm_safety` | the page is mapped again at its former address |
| `UnmapReportsMapped` | `virtual_memory_manager.h:144` | `vmm_safety` | true whenever the last table exists |
| `FreedIsFree`, `HeapSound` | `kheap.c:176` | `KHeap` with `HEAP_SIZE = 48`, `Span = 64`, `Sizes = {4, 8, 24}`, `MaxLive = 3` | a block that exceeds the request by less than two tags is taken whole, but the new size is written behind the request and not at its end; the footer there still says free, and when the block behind is freed it is merged into the one that is held |
| `ReallocSound` | (no comment) | `KHeap`, `SpecRealloc`, `HEAP_SIZE = 64`, `Span = 128`, `Sizes = {4, 54}`, `MaxLive = 1` | a request two bytes short of the whole free block: `split_block` takes the block whole, after it has written half of the inner footer over the outer one; `krealloc` reads that footer as 0, takes bytes inside the block for a free block before it, and moves the contents over them before `merge_block` refuses with NULL |
| `KallocMarks` | `kheap.c:92` | `KHeap` with `HEAP_SIZE = 128`, `Span = 64`, `Sizes = {4, 54, 60}`, `MaxLive = 2` | a block larger than the mask's span is compared whole, then not split and not marked |
| `ReallocKeepsContents` | `kheap.c:146` | the same, `SpecRealloc`, `Sizes = {4, 8, 16}` | the copying path adds the header size twice |
| `LockExclusive` | (no comment) | `smp` | `wait` tests and sets in two steps: two APs that arrive together calibrate at the same time |
| `WaitTakesTics` | `hal/lapic.c:169` | `smp` | an interrupt in progress undoes the AP's reset of the counter |
| `HzIsFrequency` | `hal/lapic.c:9` | `smp`, `LapicRate = 9` | 16 bits for a frequency |
| `OverridesHonoured` | `hal/io_apic.c:333` | `ioapic` | overrides behind the IO APIC's record come too late |
| `MadtNeverFound` | `acpi/acpi.c:18` | `platform` | "FindTable fails when trying to find "APIC" signature (i.e. MADT). Resolve tomorrow.": as it is written now it finds the table, which `MadtLookup` says; the comment is out of date |
| `AllInterruptsServed` | `hal/lapic.c:78` | `platform` | "Make a handler for this": `enable_nmi` lets NMIs through, the processor takes them at vector 2, and there is no gate |
| `PinsAsNamed` | `acpi/madt.c:85` | `platform` | a record's lint is the number of its pin; `enable_nmi` (`lapic.c:94`) takes LINT0 for 1 and LINT1 for 0 |
| `EnableLapicAlwaysReturns` | `hal/lapic.c:34` | `platform` | without an NMI record, or with as many as the index has values, the loop is endless |
| `LoadedAnywhere` | `proc/elf.c:57` | `programs` | a segment that starts inside a page is copied to the page's start; the data of `fetch.elf` in `initrd.ustar` do (0x6000d8) |
| `ReaddirFits` | (no comment) | `programs` | `ustar_readdir` counts the slots of an array from 1, and grows it one result late |
| `FileInBlock` | (no comment) | `programs` | `ustar_read` copies `len` bytes to `kalloc(len) + 1`: when `len` is even the last one is written over the footer of the block, its size and its mark (`ustar.c:38`) |
| `UserPages` | `proc/elf.c:67` | `programs`, `DEFAULT_STACK_BASE = 12` | with a stack in the region of the program and frames that run out just before it, the stack is mapped to frame 0 |
| `KernelAlwaysInProcess` | `proc/elf.c:35` | `programs` | `parse_elf` returns 0 also when the frames ran out on the way |
| `FormatsAllRight` | `utils/printf.c` | `library` | a conversion at the start of a format is printed as it is, as the one of `virtual_memory_manager.c:231` |
| `NegativesPrinted` | `utils/printf.c:53` | `library` | `%d` takes its argument as a `uint64_t`: the test for the minus sign fails, and -1 is printed as 2^64 - 1 |
| `WideColoursPacked` | `graphics/graphics_types.c:18` | `library` | a channel of ten bits comes out as zero |

### Bounds

* **pmm.** With `FRAME_SIZE = 2` and two bits to a byte, one frame of bitmap
  covers four frames, so maps of 7 to 11 frames have bitmaps of two and three
  frames, and both roundings matter. The maps have one, two or three free
  regions, a gap between them, the bitmap in the first or a later entry, and
  none that fits. Requests of one and two frames make contiguous and single
  allocations interleave and exhaust the map. One stale bit behind the bitmap
  may be clear. About 95 000 states.
* **vmm.** Three levels exercise the root, a middle and a last level. Two
  entries per table and the pages 0, 1 and 6 give pages that share all tables
  and pages that share only the root. Two trees with all of them need ten frames, and there
  are five, so that frames also run out; an allocation may fail before that too. Frames are symmetric: no
  operation orders them.
* **heap.** The sizes of several callers are, after rounding, multiples of 8
  (7 rounds to 8), and so are the heaps: every block is a multiple of 8, and a
  block never exceeds a request by less than two tags. Multiples of 4 are not
  enough: with `Sizes = {4, 8, 24}` an 8-byte block is given to a caller of 4,
  and the flaw that refutes `FreedIsFree` lets it swallow what is freed behind
  it. Three callers can fill the 64 bytes and reach every case
  of `kfree`: a free block before, behind, on both sides and on neither. With
  one caller `krealloc` stays in place, merges forward, or fails; the other
  paths are those that `ReallocKeepsContents` is about. All rounded sizes from
  4 to 60 can be asked for there except 54, which is the one that `ReallocSafe`
  below excludes; the run has seven of them.
* **smp.** `TICS = 2` instead of 100: only "reset", "some" and "enough" matter
  and the counter saturates there. `startup_aps` starts every processor there
  is; two APs are the fewest that contend for the lock. Both can pass the test
  of `wait` before either sets it, so `LockExclusive` fails, and what is checked
  is what is left of the lock then. `smp_hang` needs no more than the one AP
  that the Makefile's `-smp 2` gives. About 74 000 states.
* **ioapic.** The ISA range has four GSIs instead of 16, so that seven pins on
  two devices include ISA pins of both, an overridden pin, an NMI and a plain
  PCI one; GSI 6 is absent in the table with one IO APIC. The three tables put
  overrides before the IO APICs, behind them, and leave most out. Two calls
  (`MaxCalls`) are enough for one to prepare an entry that the next one reads,
  which is the only way calls depend on each other.
* **platform.** `IntSpan = 256` and `IdxSpan = 4` stand for 2^32 and 2^8.
  Revisions 0, 1 and 2, right and wrong checksums of both halves of the RSDP
  and of the MADT, root tables with the MADT first, last, twice and not at all,
  and no, one, two, three and `IdxSpan` NMI records for this, another and all
  processors, with either pin and with and without their flags for polarity and
  trigger mode; lists of tags that end before each tag `_start` relies on.
* **programs.** 4 GiB are 48 pages in three regions with one table each, so
  that mapping needs a table at the first, in the middle and at the last; a
  program's segments and the kernel share tables, and so do the stack and the
  kernel. 38 frames are more than all of it needs. A page has two units: a
  segment may start inside one. Files have odd and even lengths, and one is the
  shortest for which there is no room in the heap.
* **console.** Two lines of five columns wrap, scroll and erase across lines
  within a few keys, and all reachable screens are visited: the number of keys
  pressed is not bounded, only those down at a time (`MaxHeld = 2`). Cells have
  two pixel rows, characters five, so that a character covers three cells and
  a line may start in the middle of one. The height leaves pixel rows behind the last
  cell and the width a pixel beside the last column, as 1080 rows do in 64 cells
  and 1920 pixels with a font of 9. The second and lowest line of text covers
  the cells 3 to 5 with `IntBits = 5`: `SetNthBit` is called with the bit where
  it extends the sign (4) and with one that wraps (5). A line that starts from
  `IntBits` on is the subject of `console_tall`: of its four lines the lowest
  starts in cell 8.
* **library.** In four bytes two ranges overlap in every way. Numbers up to 300
  have one to three digits in each base (four in base 8 would repeat the
  argument); formats of six characters hold three conversions.

### Fairness

* `PhysicalMemoryManager`: weak fairness of `Step`, the iterations of a search
  under way and the boot step. A processor does not stop inside a loop. Callers
  need not call.
* `SmpBoot`: weak fairness of each AP, of the PIT's period, of taking a pending
  interrupt and of its handler. Strong fairness of the BSP's own steps, because
  each interrupt disables them for a moment: the handler takes far less than
  the PIT's period of a millisecond, so the BSP gets on in between. Nothing is
  assumed of the order of processors. Deadlock is not checked here: the scripts
  end, and with them the part of the kernel that is modelled.
* `Platform`: weak fairness of `Boot`, the statements of `_start` and the
  turns of the loop in `enable_lapic`: the boot processor goes on executing.
  Callers of the LAPIC's functions need not call.

Deadlock is not checked either in `platform` and `programs`, which end where
the boot ends or the kernel crashes, in `console`, where a crash ends
everything, and in `library`, where a behaviour is one call.

## 4. Proofs

Every theorem below holds for all values of the constants that satisfy the
assumptions named with it. Each comes from an inductive invariant that was
checked with TLC on the component's runs before it was proved.

| Module | Theorem | Statement |
|---|---|---|
| `PhysicalMemoryManagerProofs` | `TypeCorrect` | `AllCovered => (Spec => []TypeOK)` |
| | `FramesSafe` | `AllCovered => (Spec => []FrameInv)` |
| | `Refinement` | `AllCovered => (Spec => ImplementsFrameAllocator)` |
| | `FirstNull` | `AllCovered => (Spec => FirstNullMeansNone)` |
| | `ContigNull` | `AllCovered => (Spec => ContigNullMeansNone)` |
| `VirtualMemoryManagerProofs` | `TreeSafe` | `Spec => []TreeInv` |
| | `PageMapRefinement` | `Spec => ImplementsPageMap` |
| `KHeapProofs` | `HeapSafe` | `Aligned => (Spec /\ []InReach => []HeapSound)` |
| | `ContentsSafe` | `Aligned => (Spec /\ []InReach => []ContentsKept)` |
| | `SmallHeapSafe` | `Aligned /\ HEAP_SIZE <= Span => (Spec => [](HeapSound /\ ContentsKept))` |
| | `ReallocSafe` | `HEAP_SIZE <= Span`, `MaxLive <= 1`, `NoClash` `=> (SpecRealloc => []ReallocSound)` |
| `SmpBootProofs` | `BspWait` | `Spec => []BspWaitsLongEnough` |
| | `LockSafe` | `Spec => []LockInv` |
| `IoApicProofs` | `EntriesSafe` | `Spec => []EntryInv` |
| | `MaskedSafe` | `Spec => []MaskedUntilAsked` |
| | `RoutingRefinement` | `Spec => ImplementsRouting` |
| `PlatformProofs` | `MadtSafe` | `Spec => []MadtLookup` |
| | `LapicSafe` | `Spec => []LapicProgrammed` |
| | `InterruptsSafe` | `Spec => []MaskableServed` |
| `ConsoleProofs` | `FlagsSafe` | `Spec => []NoStuckFlags` |
| | `CursorSafe` | `Fits => (Spec => []CursorInside)` |
| | `DirtySafe` | `Fits /\ TextInReach => (Spec => []DirtyRowsShown)` |
| | `InsideSafe` | `Fits /\ TextAboveHalf => (Spec => []StaysInside)` |
| | `TextRefinement` | `Readable => (Spec => ImplementsText)` |

`NumberFacts` holds what several of them need: `Min` and `Max` of sets of
numbers, and two schemas, `UpTo` (induction) and `Recursion` (a function defined
from its value one before). Both are stated about sets and functions instead of
predicates and operators, which the provers cannot instantiate. Through them the
walks of page tables and heap, and the loops of the terminal, which are
recursive functions, can be reasoned about.

### Frames

**Assumptions.** `PmmConstants` (positive sizes), `PmmMaps` (every map is
`WellFormed`), and `AllCovered`: the bitmap has a bit for every frame the
searches look at, `num_entries + 1 < bitmap_size * BITS_PER_BYTE`. The last is
not guaranteed by `InitPmm`, which rounds the number of bytes down before it
rounds up to frames; the refutation of `OnlyUsableFrames` shows that
`FramesSafe` fails without it.
On a real machine it excludes maps whose last usable frame is one of the eight
from a multiple of 32768 on, or the last before one.

**Argument.** `IInv == TypeOK /\ FrameInv /\ CallInv` is inductive. `FrameInv`
is strong enough to be preserved because it speaks of every bit up to
`num_entries + 1`, one more than any frame that exists: a contiguous search
looks there, and `RunInMap` shows that a run whose `num_pages + 1` checked bits
are clear lies inside the map. `CallInv` says that a search under way wants at
least one page. The layout lemmas derive what `InitPmm` computes from
`WellFormed`: entries are disjoint (`EntriesDisjoint`), the chosen entry holds
the bitmap (`BitmapEntry`), the cleared frames are outside it (`ClearedSafe`),
the cursor is in the map (`CursorRange`). `Refinement` maps `SafePool(memmap)`
to the pool and a search to a request; iterations stutter.

The NULL theorems need what a search has already seen. `ScanInv` says that the
frames between the cursor and the index, in the order of the search, are in use
(for a contiguous search: start no run), across the wrap. `FirstSkipsScan` and
`ContigSkipsScan` extend it by one iteration. The latter contains the argument
that moving the head to the first used frame skips no run.

### Page tables

**Assumptions.** `VmmConstants`: at least one level, at least two entries to a
table, NULL no frame, and addresses that `LEVELS` digits in base `ENTRIES`
express, as the 36 bits of page number of four levels of 512 do. Nothing is
assumed of frames: any allocation may fail.

**Argument.** `VmmInv` has five parts. `RamInv`: frames nobody holds are zero,
so that a new table has no entries. `LinkInv`: a walk meets only frames that are
held. `OnePath`: a table is met at one level and for one prefix of addresses
only. `NoneLost`: every frame is met. `CallInv`: a call in progress stands where
its own address leads. `TreeInv` alone is not inductive, since it does not say
that a table linked from two places would be reached with different addresses;
`OnePath` does, by the quotient of the address that its level has consumed
(`Shifted`). Its preservation rests on the lemma that two addresses with equal
digits and equal quotients above have equal quotients (`Digits` and its
companions), so the entry that `CreateTable` writes is read by the addresses of
one prefix and by no others. The refinement maps each root to what a
full walk yields; linking an empty table changes no walk's result.

### Heap

**Assumptions.** `HeapConstants`: heap and mask span are multiples of two tags
(8 bytes), as 0x20000 and 0x10000 are. `Aligned`: every size asked for is, after
rounding, a multiple of 8, and fits in the span if the heap is larger. The code
asks for the size of a pointer, for `8 * n` and for a `ustar_entry_t` of 512
bytes; with other sizes a block can be handed out whole with a few bytes to
spare, and the refutation of `FreedIsFree` applies. `InReach`: in a heap larger than the mask
expresses, the block that ends at the mask's limit is not in use, which means
that callers together stay within the first 64 KiB. It holds in every state of
the second heap of the run `heap`. Nothing is proved of what happens behind it: `KallocMarks` shows what does.
A heap no larger than the span needs no such condition (`SmallHeapSafe`).

**Argument.** `HeapInv`: there is a set of headers that tiles the heap up to the
limit, every block has equal tags at both ends (or is the one block of
`init_heap`, whose footer lies elsewhere if the heap is larger than the span),
the allocated ones are exactly the callers', no two free ones are neighbours
(`Alternating`), and each caller's block has the size and the contents it
believes in (`LiveOK`), which gives `FreedIsFree`. `HeapSound` alone is not inductive: it does not mention
footers, which `kfree` uses to find the block before, nor that free blocks are
separated, without which freeing everything would not restore one block. The
lemmas follow the code: what `Put`, `memset` and `memmove` change, `FirstFit`
stops at a header of the tiling, `split_block` replaces one block by one or two,
`merge_block` two by one, and each of the four cases of `kfree` is one or two
merges. What a call leaves alone is stated once (`Kept`), and carries both the
other callers' tags and their contents. The walk from the first header meets the
whole tiling by `Recursion`.

**Reallocation.** `ReallocSafe` is about one caller, who allocates, resizes and
frees, in a heap no larger than the span. Sizes need not be `Aligned`; the only
ones excluded are those that `NoClash` names, which round to two bytes less than
the one free block (`HEAP_SIZE - 10`), since with these the property fails (see
the table in section 3). Several callers are out of the question:
`ReallocKeepsContents` shows that `krealloc` returns a wrong pointer as soon as
it has to copy. On the run's third heap `LoneSound` is `ReallocSound`. `HeapInv`
does not carry over, because a resized block may be
larger than what was asked for, and the footer of a block handed out whole may
still say that it is free. `LoneInv` says instead that the heap is one free
block, or the caller's block at the start, less than two tags larger than what
was asked for, with at most one free block behind it; that the tags which are read next are right; and that the caller's bytes are
what it knows. `SplitWhole` and `KallocFree` lead from the first shape to the
second, `KfreeLone` back, and `KreallocLone` within it: there is no previous
block to merge with, merging forward takes in the free block and splits the
result, and where even that is too small nothing is written.

### Startup

**Assumptions.** `SmpConstants`. The number of APs is arbitrary.

**Argument.** `CountInv`: from its reset to the end of its wait, the BSP has had
at least as many interrupts as the counter shows and as a `pit_increment` under
way has loaded. It holds for any number of APs, because none starts before the
BSP is through. `LockState` says so, and that the lock is set only while
somebody is between `set` and `release`: with several APs inside at once the
first `release` clears it for all of them, so that the converse, which a lock
should give, is true of the BSP only. Hence a processor that waits does so for
one that is inside, and `LockInv` is what remains of the lock's promise;
`LockExclusive`, which is the promise itself, is refuted in section 3.

### Interrupt routing

**Assumptions.** `ApicConstants`; `ApicTables`: records have the fields of
their structures, and two IO APICs have different IDs and addresses and no GSI
in common. That is the firmware's part, which the kernel takes on trust.

**Argument.** `ApicInv` relates the four places where an IO APIC is known: its
record, the slot of its ID, its registers, and the records still to come
(`DeviceInv`, `RecordInv`, `TableInv`, `SeenInv`, `ProgressInv`). From them it
follows that a GSI leads to the same device by both look-ups, and that a write
changes a pin of that device only; `VectorInv` does the same for vectors. The
properties themselves, `SmiRules` and `MaskedUntilAsked`, are preserved entry by
entry. `RoutingRefinement` adds that registering an IO APIC brings new GSIs and
leaves the others alone.

### Bring-up

**Assumptions.** `AcpiConstants` (the width of an int), `PlatformConstants` (an
index narrower than an int, a LAPIC id that is not the wildcard) and
`MachineTables`: the length of a root table is that of its header and entries,
and these lead to tables.

**Argument.** `PlatformInv` ties each label of `_start` to what has been set up
by then. `MadtInv` uses that the division of the table's length, signed and
narrowed as in the code, counts the entries. `PinInv` is the loop invariant of
`enable_lapic`: after the first n records LINT0 is what the last of these with
lint 1 says, and LINT1 what the last with lint 0 says. `LapicProgrammed` leaves
open which pin belongs to which lint, so that it is a property of a corrected
`enable_nmi` as well; that the code exchanges them is what refutes
`PinsAsNamed`. `SegmentInv` and `ReadyInv` give `InterruptsSafe`: the
bootloader's segments serve until ours do. The NMI is excepted, as there is
nothing that serves it (`AllInterruptsServed`).

### Keyboard and terminal

**Assumptions.** `ConsoleConstants`: the letter is another key than the special
ones. `FlagsSafe` assumes nothing of screen, font or prompt. The
others are about sizes that go together, with the font of 9 x 16 and the border
of 3 that the kernel has:

| Assumption | Says | 1920 x 1080 | 1024 x 768 | 800 x 600 |
|---|---|---|---|---|
| `Fits` | a character fits, text wraps before the right border, and what whole characters leave of the width is no less than a border | yes | yes | yes |
| `TextInReach` | the lowest line starts in a cell below `IntBits`, so that `SetNthBit` marks it | no | yes | yes |
| `TextAboveHalf` | the lines, counted in the height with the borders, end above the lower half | yes | no | yes |
| `Readable` | both of the first two, lines that fit between the borders, a prompt that fits into a line, and glyphs that differ | no | no | yes |

The bootloader chooses the screen, so all three can occur; its pixels are taken
to have 32 bits. `TextInReach` cannot be left out: the run `console_tall` has a
screen without it. On 1024 x 768 one line more is counted than fits between the borders: nothing
is printed there, but scrolling clears it, three pixel rows of the lower half
included. Hence `TextAboveHalf` and the part of `Readable` about lines. The
instance of the run `console` satisfies all four.

**Argument.** `WindowInv` fixes mask and consumer for each statement of
`_start`. `FlagInv` adds to `NoStuckFlags` that all flags are clear while IRQ 1
is masked: a key may go down then and come up later, and its release must not
be the only one that is seen.

`ScreenInv(P, Q)` is the invariant of the terminal: the cursor is on the grid of
characters and inside (`OnGrid`), every pixel of P is the same in both buffers or
in a dirty cell (`InStep`), and no pixel of Q has been drawn (`Kept`). It is
proved once, for the sets that `Allowed` describes; `CursorSafe` takes none,
`DirtySafe` all pixels for P, `InsideSafe` the lower half for both. Its
preservation goes up through the code: what one drawing function does to a pixel
and to the dirty cells, the loops by `Recursion` and `UpTo`, then printing,
scrolling and erasing. The cursor alone would not be inductive: that a wrap
comes in time depends on its being a multiple of the font's width.

`TextRefinement` reads the characters off the back buffer (`Abs`). `Neat` are the
terminals with nothing but glyphs and background on the grid, and each function
of the terminal is shown to take one to another, doing to `Abs` what
`TextTerminal` does to its grid. `TextInv` carries this through the boot.
With `ScreenInv` the frame buffer shows the same text when a handler returns
(`Seen`), so that each step of the console is a step of the text or a stutter.

### Only model-checked

* Liveness (`SearchesEnd`, `BspBoots`, `PrintKReturns`, `EnableLapicReturns`):
  the prover handles neither fairness nor ENABLED.
* The properties of `Programs` (`KernelMapped`, `HeapBacked`, `LoadedImage`,
  `UserPages`, `PrintsArgument`, `FoundFile`, `RegistersKept`): mapping a range,
  walking the ram disk and loading a file are folds, which take an operator as
  an argument, over sequences of data. What one `MapPage` does is proved in
  `VirtualMemoryManagerProofs`.
* `Library`: its functions are loops over bytes and digits, checked
  for every input within bounds; to prove them is induction over data.

## 5. Not modelled

* Fonts (a constant of `Screen`), the stivale2 structures, the bootloader
  and its installer (`limine/`): data and third-party code. What the bootloader
  guarantees of memory maps is `WellFormed`. `hal/apic.h` is included nowhere;
  `sched.c`, `initrd.c`, `sdt.c` and `key_input.*` are empty; `vfs.c` dispatches
  through pointers that nobody sets.
* Code that nothing calls and that changes no state of the kernel or only
  repeats what is modelled: `PrintStr`, `TermPrintMain`,
  `RenderMain`, `RemapPic`, `find_shdr_strtab`, `PrintPageAttrs`,
  `get_lapic_version`, `read_pit_count`, `print_allocations`.
* Port I/O and single instructions, except where their order matters.
* The stacks of the APs: each gets the lowest address of a frame, so that it
  grows into the frame below. What that holds depends on the machine.
* The kernel after a failed `InitPmm`, whose result `_start` ignores.

## 6. Plan

What is left to prove is in `Programs`: `HeapBacked`, and the part of `UserPages`
that says frames are private, from the order in which `AddressSpaces` hands out
frames. Both need the folds over ranges rewritten as recursive functions, as was
done for the terminal. `ReallocSound` for several callers waits for the copying
path of `krealloc` to be mended.

Two models can still grow: `IoApic` by entries that are written in two halves
and `end_of_interrupt`, and `AddressSpaces` by taking its frames from
`FrameAllocator` instead of in order.
