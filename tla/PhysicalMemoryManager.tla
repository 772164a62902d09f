----------------------- MODULE PhysicalMemoryManager ------------------------
(***************************************************************************)
(* The physical memory manager of the kernel                               *)
(* (memory_management/physical_memory_manager.c): a bitmap with one bit    *)
(* per page frame, built from the memory map the boot loader hands over,   *)
(* and a next-fit cursor last_used from which every search starts.         *)
(*                                                                         *)
(* Only the boot processor allocates, so calls do not overlap; each        *)
(* iteration of the two search loops is a step, which is what makes it     *)
(* possible to ask whether a search ever ends.                             *)
(*                                                                         *)
(* The map gives base and length of an entry in frames.  FRAME_SIZE and    *)
(* the number of bits in a byte are parameters, so that the rounding of    *)
(* the bitmap to whole frames can be explored on maps of ten frames.       *)
(***************************************************************************)
EXTENDS Integers, Sequences, FiniteSets, FiniteSetsExt

CONSTANTS
    FRAME_SIZE,     \* bytes in a frame (4096)
    BITS_PER_BYTE,  \* 8
    MemMaps,        \* the memory maps the boot loader may pass
    Sizes,          \* sizes in bytes that AllocContiguous is called with
    StaleBits       \* how many bits past the bitmap may happen to be clear

USABLE_PAGE == 1

(***************************************************************************)
(* What stivale2 guarantees of a memory map: entries sorted by base,       *)
(* usable ones frame-aligned and disjoint from every other entry, and      *)
(* nothing usable in frame 0.  At least one entry is usable.               *)
(***************************************************************************)
WellFormed(m) ==
    /\ m \in Seq([base : Nat, length : Nat \ {0}, type : Nat])
    /\ \E i \in DOMAIN m : m[i].type = USABLE_PAGE
    /\ \A i \in DOMAIN m : m[i].type = USABLE_PAGE => m[i].base > 0
    /\ \A i, j \in DOMAIN m :
          (i < j /\ USABLE_PAGE \in {m[i].type, m[j].type})
             => m[i].base + m[i].length <= m[j].base

ASSUME PmmConstants ==
    /\ FRAME_SIZE \in Nat \ {0}
    /\ BITS_PER_BYTE \in Nat \ {0}
    /\ Sizes \subseteq Nat \ {0}
    /\ StaleBits \in Nat

ASSUME PmmMaps == \A m \in MemMaps : WellFormed(m)

VARIABLES
    memmap,     \* the boot loader's memory map
    free,       \* indices of the bits that are 0 in the bitmap
    last_used,  \* PHYS_MEMORY_MAP.last_used
    pc,         \* where the boot processor is
    scan,       \* the loop variable i / head of the search under way
    pages,      \* num_pages of the search under way
    owned,      \* frames callers hold (history)
    soiled      \* frames whose contents may be other than zero (history)

vars == <<memmap, free, last_used, pc, scan, pages, owned, soiled>>

-----------------------------------------------------------------------------
(* The layout InitPmm computes from a memory map. *)

UsableEntries(m) == {i \in DOMAIN m : m[i].type = USABLE_PAGE}

FramesOf(e) == e.base .. e.base + e.length - 1

RoundToNearestMultiple(num, multiple) ==
    ((num + multiple - 1) \div multiple) * multiple

UppermostUsableAddr(m) ==
    LET top == m[Max(UsableEntries(m))]
    IN  (top.base + top.length) * FRAME_SIZE - 1

\* The index of the last usable frame, although the loops use it as a count.
num_entries(m) == UppermostUsableAddr(m) \div FRAME_SIZE

bitmap_size(m) ==
    RoundToNearestMultiple(num_entries(m) \div BITS_PER_BYTE, FRAME_SIZE)

FindMemEntryBySize(m, minimum_num_bytes) ==
    LET fits == {i \in UsableEntries(m) :
                    m[i].length * FRAME_SIZE >= minimum_num_bytes}
    IN  IF fits = {} THEN -1 ELSE Min(fits)

bmp_ind(m) == FindMemEntryBySize(m, bitmap_size(m))

\* Mutant: the entry that holds the bitmap is not left out.
ClearedEntriesWithBitmap(m) == UsableEntries(m)

\* The entries whose frames InitPmm clears in the bitmap.
ClearedEntries(m) == UsableEntries(m) \ {bmp_ind(m)}

ClearedFrames(m) == UNION {FramesOf(m[i]) : i \in ClearedEntries(m)}

\* The cursor is taken from the first cleared entry for which it becomes
\* non-zero: an entry that starts in frame 1 sets it to zero again.
FirstCursor(m) ==
    LET setting == {i \in ClearedEntries(m) : m[i].base # 1}
    IN  IF setting = {} THEN 0 ELSE m[Min(setting)].base - 1

-----------------------------------------------------------------------------
PageIsUsed(i) == i \notin free

SetPageUsed(I) == free' = free \ I

SetPageFree(I) == free' = free \cup I

\* Mutant: the memset is left out.
ZeroFramesForgotten(I) == soiled' = soiled

\* memset(frame, 0, ...)
ZeroFrames(I) == soiled' = soiled \ I

\* Mutant: the index is advanced without wrapping round.
NextIndexNoWrap(i) == i + 1

\* Mutant: every other frame is looked at.
NextIndexByTwo(i) == (i + 2) % num_entries(memmap)

NextIndex(i) == (i + 1) % num_entries(memmap)

Return ==
    /\ pc' = "idle"
    /\ scan' = 0
    /\ pages' = 0

Init ==
    /\ memmap \in MemMaps
    /\ free = {}
    /\ last_used = 0
    /\ pc = "boot"
    /\ scan = 0
    /\ pages = 0
    /\ owned = {}
    /\ soiled = UNION {FramesOf(memmap[i]) : i \in UsableEntries(memmap)}

(***************************************************************************)
(* All of the bitmap is set to used, then the frames of every usable entry *)
(* but the one that holds the bitmap are cleared.  The bits past the end   *)
(* of the bitmap are whatever memory held: up to StaleBits of them may     *)
(* read as clear.                                                          *)
(***************************************************************************)
InitPmm ==
    /\ pc = "boot"
    /\ bmp_ind(memmap) # -1
    /\ \E stale \in SUBSET {bitmap_size(memmap) * BITS_PER_BYTE + k :
                               k \in 0 .. StaleBits - 1} :
          free' = stale \cup ClearedFrames(memmap)
    /\ last_used' = FirstCursor(memmap)
    /\ pc' = "idle"
    /\ UNCHANGED <<memmap, scan, pages, owned, soiled>>

\* No usable entry can hold the bitmap: InitPmm returns false.
InitPmmFails ==
    /\ pc = "boot"
    /\ bmp_ind(memmap) = -1
    /\ pc' = "failed"
    /\ UNCHANGED <<memmap, free, last_used, scan, pages, owned, soiled>>

\* Nothing is modelled of a kernel without a frame allocator.
Halted == pc = "failed" /\ UNCHANGED vars

AllocFirstFrame ==
    /\ pc = "idle"
    /\ pc' = "first"
    /\ scan' = last_used + 1
    /\ pages' = 1
    /\ UNCHANGED <<memmap, free, last_used, owned, soiled>>

FirstSkips ==
    /\ pc = "first"
    /\ scan # last_used
    /\ PageIsUsed(scan)
    /\ scan' = NextIndex(scan)
    /\ UNCHANGED <<memmap, free, last_used, pc, pages, owned, soiled>>

FirstFinds ==
    /\ pc = "first"
    /\ scan # last_used
    /\ ~PageIsUsed(scan)
    /\ SetPageUsed({scan})
    /\ last_used' = scan
    /\ owned' = owned \cup {scan}
    /\ ZeroFrames({scan})
    /\ Return
    /\ UNCHANGED memmap

\* Mutant: the search gives up at the end of the map.
FirstFailsAtTheEnd ==
    /\ pc = "first"
    /\ scan \in {last_used, 0}
    /\ Return
    /\ UNCHANGED <<memmap, free, last_used, owned, soiled>>

\* The search is back at the cursor: AllocFirstFrame returns NULL.
FirstFails ==
    /\ pc = "first"
    /\ scan = last_used
    /\ Return
    /\ UNCHANGED <<memmap, free, last_used, owned, soiled>>

AllocContiguous(size) ==
    /\ pc = "idle"
    /\ pc' = "contig"
    /\ scan' = last_used + 1
    /\ pages' = (size \div FRAME_SIZE)
                  + (IF size % FRAME_SIZE > 0 THEN 1 ELSE 0)
    /\ UNCHANGED <<memmap, free, last_used, owned, soiled>>

\* The frames the inner loop looks at: tail - head <= num_pages.
Checked(head) == head .. head + pages

\* Mutant: the whole stretch is skipped, not just the part up to tail.
ContigSkipsStretch ==
    /\ pc = "contig"
    /\ scan # last_used
    /\ \E tail \in Checked(scan) : PageIsUsed(tail)
    /\ scan' = NextIndex(scan + pages)
    /\ UNCHANGED <<memmap, free, last_used, pc, pages, owned, soiled>>

\* The inner loop stops at the first used frame and moves head there; the
\* outer loop then advances it once more.
ContigSkips ==
    /\ pc = "contig"
    /\ scan # last_used
    /\ \E tail \in Checked(scan) :
          /\ PageIsUsed(tail)
          /\ \A t \in scan .. tail - 1 : ~PageIsUsed(t)
          /\ scan' = NextIndex(tail)
    /\ UNCHANGED <<memmap, free, last_used, pc, pages, owned, soiled>>

\* tail has run to head + num_pages + 1, and that frame is marked as well.
ContigFinds ==
    /\ pc = "contig"
    /\ scan # last_used
    /\ \A tail \in Checked(scan) : ~PageIsUsed(tail)
    /\ SetPageUsed(scan .. scan + pages + 1)
    /\ last_used' = scan + pages
    /\ owned' = owned \cup (scan .. scan + pages - 1)
    /\ ZeroFrames(scan .. scan + pages - 1)
    /\ Return
    /\ UNCHANGED memmap

ContigFails ==
    /\ pc = "contig"
    /\ scan = last_used
    /\ Return
    /\ UNCHANGED <<memmap, free, last_used, owned, soiled>>

FreeFrame(frame) ==
    /\ pc = "idle"
    /\ frame \in owned
    /\ SetPageFree({frame})
    /\ owned' = owned \ {frame}
    /\ ZeroFrames({frame})
    /\ UNCHANGED <<memmap, last_used, pc, scan, pages>>

\* A caller writes to a frame it holds.
WriteFrame(frame) ==
    /\ pc = "idle"
    /\ frame \in owned
    /\ soiled' = soiled \cup {frame}
    /\ UNCHANGED <<memmap, free, last_used, pc, scan, pages, owned>>

\* The loop iterations and the boot step: the processor never pauses in them.
Step ==
    \/ InitPmm \/ InitPmmFails
    \/ FirstSkips \/ FirstFinds \/ FirstFails
    \/ ContigSkips \/ ContigFinds \/ ContigFails

Next ==
    \/ Step
    \/ Halted
    \/ AllocFirstFrame
    \/ \E size \in Sizes : AllocContiguous(size)
    \/ \E frame \in owned : FreeFrame(frame) \/ WriteFrame(frame)

Spec == Init /\ [][Next]_vars

FairSpec == Spec /\ WF_vars(Step)

NumFreeFrames == Cardinality({i \in 0 .. num_entries(memmap) - 1 :
                                 ~PageIsUsed(i)})

-----------------------------------------------------------------------------
(* Correctness. *)

UsableFrames(m) == UNION {FramesOf(m[i]) : i \in UsableEntries(m)}

BitmapFrames(m) ==
    IF bmp_ind(m) = -1
    THEN {}
    ELSE LET first == m[bmp_ind(m)].base
         IN  first .. first + (bitmap_size(m) \div FRAME_SIZE) - 1

\* Frames that may be handed out: usable, and not under the bitmap itself.
SafePool(m) == UsableFrames(m) \ BitmapFrames(m)

(***************************************************************************)
(* The bitmap has a bit for every frame the searches look at.  It fails    *)
(* when num_entries \div 8 is a multiple of FRAME_SIZE or num_entries + 1  *)
(* is the number of bits: the size is rounded down to bytes before it is   *)
(* rounded up to frames.                                                   *)
(***************************************************************************)
Covered(m) == num_entries(m) + 1 < bitmap_size(m) * BITS_PER_BYTE

\* Type invariant.  The cursor and the loop variables stay inside the map.
TypeOK ==
    /\ memmap \in MemMaps
    /\ free \subseteq Nat
    /\ last_used \in 0 .. num_entries(memmap)
    /\ pc \in {"boot", "idle", "first", "contig", "failed"}
    /\ scan \in 0 .. num_entries(memmap) + 1
    /\ pages \in Nat
    /\ owned \subseteq Nat
    /\ soiled \subseteq Nat

(***************************************************************************)
(* A clear bit that a search can see stands for a frame that is usable,    *)
(* does not hold the bitmap and is in nobody's hands; and every frame in   *)
(* a caller's hands is such a frame (AllocFirstFrame, AllocContiguous,     *)
(* FreeFrame against InitPmm's layout).                                    *)
(***************************************************************************)
FrameInv ==
    /\ free \cap (0 .. num_entries(memmap) + 1) \subseteq SafePool(memmap) \ owned
    /\ owned \subseteq SafePool(memmap)

(***************************************************************************)
(* The allocator implements FrameAllocator: a run it returns lies in the   *)
(* pool, has the length asked for, is held by nobody else and is zeroed.   *)
(***************************************************************************)
Frames == INSTANCE FrameAllocator WITH
    pool <- SafePool(memmap),
    held <- owned,
    soiled <- soiled \cap SafePool(memmap),
    want <- IF pc \in {"first", "contig"} THEN pages ELSE -1

ImplementsFrameAllocator == Frames!FASpec

Refused(call) == pc = call /\ pc' = "idle" /\ owned' = owned

\* AllocFirstFrame returns NULL only after it has seen every frame below
\* num_entries, but the cursor's own, in use.
FirstNullMeansNone ==
    [][Refused("first") =>
          free \cap (0 .. num_entries(memmap) - 1) \subseteq {last_used}]_vars

\* AllocContiguous returns NULL only if no run of num_pages + 1 free frames
\* starts at frame 2 or later, away from the cursor: jumping over the frames
\* before a used one never jumps over a run.
ContigNullMeansNone ==
    [][Refused("contig") =>
          \A head \in 2 .. num_entries(memmap) :
              head # last_used => ~(Checked(head) \subseteq free)]_vars

(***************************************************************************)
(* A search ends: AllocFirstFrame whenever the cursor is below num_entries *)
(* or some frame below it is free, AllocContiguous whenever there is a run *)
(* to be found.                                                            *)
(***************************************************************************)
FirstReturns ==
    (/\ pc = "first"
     /\ \/ last_used < num_entries(memmap)
        \/ free \cap (0 .. num_entries(memmap) - 1) # {})
    ~> (pc = "idle")

ContigReturns ==
    (/\ pc = "contig"
     /\ \E head \in 2 .. num_entries(memmap) :
           head # last_used /\ Checked(head) \subseteq free)
    ~> (pc = "idle")

\* Both kinds of search end under these conditions.
SearchesEnd == FirstReturns /\ ContigReturns

-----------------------------------------------------------------------------
(* What the comments say and the code does not do. *)

\* physical_memory_manager.h:40, "NULL if none are available": no frame of
\* the pool is free when AllocFirstFrame returns NULL.
NullOnlyWhenExhausted ==
    [][Refused("first") => free \cap SafePool(memmap) = {}]_vars

\* physical_memory_manager.h:40: AllocFirstFrame returns, with a frame or
\* with NULL.
AllocFirstFrameReturns == (pc = "first") ~> (pc = "idle")

\* physical_memory_manager.c:96: if there are num_pages free frames from the
\* head on, they are allocated.
EnoughIsTaken ==
    [][(/\ pc = "contig"
        /\ scan # last_used
        /\ scan .. scan + pages - 1 \subseteq free)
       => owned' # owned]_vars

\* physical_memory_manager.c:79, "PMM only tracks usable entries": a frame
\* in a caller's hands is a usable one.
OnlyUsableFrames == owned \subseteq UsableFrames(memmap)

\* physical_memory_manager.c:41: after InitPmm every usable frame is free
\* "aside from the page containing the bmp".
BootFreesTheRest ==
    [][(pc = "boot" /\ pc' = "idle") => SafePool(memmap) \subseteq free']_vars

\* physical_memory_manager.h:55: NumFreeFrames is "the number of page frames
\* which are free for use".
FreeFramesCounted ==
    pc = "idle" => NumFreeFrames = Cardinality(free \cap SafePool(memmap))
=============================================================================
