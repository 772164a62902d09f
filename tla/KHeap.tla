------------------------------- MODULE KHeap --------------------------------
(***************************************************************************)
(* The kernel heap (memory_management/kheap.c): one region of HEAP_SIZE    *)
(* bytes tiled by blocks, each with a 4-byte header and a 4-byte footer    *)
(* that hold its size and, in bit 0, whether it is allocated.              *)
(*                                                                         *)
(* The memory is modelled down to the half-words of the tags, because the  *)
(* code reads a size through SIZE_MASK (0xFFFE), which keeps only the low  *)
(* half-word of a tag, but compares whole tags.  Span is the number of     *)
(* values of a half-word: 0x10000 in the code, small here.  Offsets and    *)
(* sizes are in bytes and even, as kalloc and krealloc make them.          *)
(*                                                                         *)
(* Only the boot processor uses the heap, and each call is one step: what  *)
(* is hard here is not interleaving but what a sequence of calls leaves in *)
(* memory for the next one to read.                                        *)
(***************************************************************************)
EXTENDS Integers, FiniteSets

CONSTANTS
    HEAP_SIZE,  \* bytes in the heap
    Span,       \* values of a half-word
    Sizes,      \* sizes callers ask for
    MaxLive,    \* how many allocations callers hold at a time
    Stamp       \* what callers fill their memory with

ASSUME HeapConstants ==
    /\ Span \in Nat /\ Span > 8 /\ Span % 8 = 0
    /\ HEAP_SIZE \in Nat /\ HEAP_SIZE > 8 /\ HEAP_SIZE % 8 = 0
    /\ Sizes \subseteq Nat
    /\ MaxLive \in Nat
    /\ Stamp \in 1 .. Span - 1

VARIABLES
    mem,        \* [half-words of the heap -> 0 .. Span - 1]
    live        \* what callers hold: [1 .. MaxLive -> allocations]

vars == <<mem, live>>

HEADER_SIZE == 4
FOOTER_SIZE == 4
MDATA_SIZE == 8

NULL == -1
BAD == -2 * Span      \* NULL + HEADER_SIZE: not NULL, and not in the heap
HalfWords == 0 .. HEAP_SIZE \div 2 - 1

\* An allocation: where it is, how long it is, and how many of its bytes the
\* caller knows to hold val.
Allocation(ptr, size, known, val) ==
    [ptr |-> ptr, size |-> size, known |-> known, val |-> val]
NoAllocation == Allocation(NULL, 0, 0, 0)

-----------------------------------------------------------------------------
(* Memory.  What lies outside the heap reads as zero and keeps no writes.  *)

HalfWord(m, h) == IF h \in HalfWords THEN m[h] ELSE 0

\* The 32-bit tag at offset o.
Tag(m, o) == HalfWord(m, o \div 2) + Span * HalfWord(m, o \div 2 + 1)

\* tag & SIZE_MASK
Masked(m, o) == (HalfWord(m, o \div 2) \div 2) * 2

\* tag & 1
Allocated(m, o) == HalfWord(m, o \div 2) % 2 = 1

Put(m, o, tag) ==
    [h \in HalfWords |->
        IF h = o \div 2 THEN tag % Span
        ELSE IF h = o \div 2 + 1 THEN (tag \div Span) % Span
        ELSE m[h]]

memset(m, o, val, len) ==
    [h \in HalfWords |-> IF h \in o \div 2 .. (o + len) \div 2 - 1 THEN val ELSE m[h]]

memmove(m, dst, src, len) ==
    [h \in HalfWords |->
        IF h \in dst \div 2 .. (dst + len) \div 2 - 1
        THEN HalfWord(m, h + (src - dst) \div 2)
        ELSE m[h]]

-----------------------------------------------------------------------------
(* Moving between blocks.  A block is named by the offset of its header.   *)

footer_from_header(m, header) == header + HEADER_SIZE + Masked(m, header)

header_from_footer(m, footer) == footer - Masked(m, footer) - HEADER_SIZE

next_header(m, header) ==
    LET next == header + Masked(m, header) + MDATA_SIZE
    IN  IF next = HEAP_SIZE THEN NULL ELSE next

prev_footer(m, footer) ==
    LET header == footer - Masked(m, footer) - HEADER_SIZE
    IN  IF header = 0 THEN NULL ELSE header - FOOTER_SIZE

merge_size(m, block1, block2) ==
    Masked(m, block1) + Masked(m, block2) + MDATA_SIZE

threeway_merge_size(m, front, middle, back) ==
    Masked(m, front) + Masked(m, middle) + Masked(m, back) + 2 * MDATA_SIZE

-----------------------------------------------------------------------------
(* Splitting and merging: the memory that results. *)

\* Mutant: the remainder of the block gets no header of its own.
split_block_no_rest(m, block, alloc_size) ==
    IF Masked(m, block) < alloc_size
    THEN m
    ELSE Put(Put(m, block, alloc_size + 1),
             block + HEADER_SIZE + alloc_size, alloc_size + 1)

split_block(m, block, alloc_size) ==
    LET block_size == Masked(m, block)
        outer_footer == footer_from_header(m, block)
        m1 == Put(m, block, alloc_size + 1)
        inner_header == next_header(m1, block)
        inner_footer == footer_from_header(m1, block)
        m2 == Put(m1, inner_footer, Tag(m1, block))
        rest == block_size - alloc_size - MDATA_SIZE
    IN  IF block_size < alloc_size THEN m
        ELSE IF alloc_size = block_size THEN m2
        ELSE IF block_size < alloc_size + MDATA_SIZE
             THEN Put(Put(m2, block, block_size + 1), inner_footer, block_size + 1)
             ELSE Put(Put(m2, inner_header, rest), outer_footer, rest)

merge_block(m, first, second) ==
    LET footer == footer_from_header(m, second)
        tag == merge_size(m, first, second) + (IF Allocated(m, first) THEN 1 ELSE 0)
    IN  IF next_header(m, first) # second
        THEN m
        ELSE Put(Put(m, first, tag), footer, tag)

\* The block merge_block returns, NULL if the two are not neighbours.
Merged(m, first, second) == IF next_header(m, first) = second THEN first ELSE NULL

\* The end of the three merges: split the merged block and hand out what
\* split_block returned, which is NULL for a block that is too small; the
\* caller adds HEADER_SIZE to that too.
Resized(m, block, size) ==
    [mem |-> split_block(m, block, size),
     ptr |-> IF Masked(m, block) < size THEN BAD ELSE block + HEADER_SIZE]

\* Mutant: what is zeroed starts at the first block's data.
merge_forward_zeroes(m, first, second, size) ==
    LET merged == memset(merge_block(m, first, second), first + HEADER_SIZE, 0,
                         Masked(m, first) + Masked(m, second) + MDATA_SIZE)
    IN  Resized(merged, Merged(m, first, second), size)

merge_forward(m, first, second, size) ==
    LET merged == memset(merge_block(m, first, second), second, 0,
                         Masked(m, second) + HEADER_SIZE)
    IN  Resized(merged, Merged(m, first, second), size)

merge_backward(m, first, second, size) ==
    LET moved == memmove(m, first + HEADER_SIZE, second + HEADER_SIZE,
                         Masked(m, second))
        merged == memset(merge_block(moved, first, second), second, 0,
                         Masked(m, second) + HEADER_SIZE)
    IN  Resized(merged, Merged(moved, first, second), size)

threeway_merge(m, front, middle, back, size) ==
    LET back_footer == footer_from_header(m, back)
        middle_size == Masked(m, middle)
        tag == threeway_merge_size(m, front, middle, back) + 1
        tagged == Put(Put(m, front, tag), back_footer, tag)
        moved == memmove(tagged, middle, front, middle_size)
        zeroed == memset(moved, front + middle_size, 0,
                         back_footer - (front + middle_size))
    IN  Resized(zeroed, front, size)

-----------------------------------------------------------------------------
(* The calls: the memory they leave and the pointer they return. *)

RoundUp(size) == ((size + 1) \div 2) * 2

\* The headers that a walk from the start of the heap reaches, one for each
\* iteration; it stays at the first one in stop.  A block has at least its
\* two tags, so the heap is left after HEAP_SIZE \div MDATA_SIZE iterations.
Iterations == HEAP_SIZE \div MDATA_SIZE
Offsets == 0 .. HEAP_SIZE + Span + MDATA_SIZE

Walk(m, stop) ==
    LET at[i \in 0 .. Iterations] ==
          IF i = 0 THEN 0
          ELSE LET o == at[i - 1]
               IN  IF o \in stop THEN o ELSE o + Masked(m, o) + MDATA_SIZE
    IN  at

\* The first block whose header is even and, as a whole tag, exceeds size; an
\* offset outside the heap if there is none.
FirstFit(m, size) ==
    LET fits == {o \in Offsets : \/ o >= HEAP_SIZE
                                 \/ ~Allocated(m, o) /\ Tag(m, o) > size}
    IN  Walk(m, fits)[Iterations]

KallocResult(m, size) ==
    LET block == FirstFit(m, size)
        new_size == RoundUp(size)
    IN  IF block >= HEAP_SIZE
        THEN [mem |-> m, ptr |-> NULL]
        ELSE [mem |-> memset(split_block(m, block, new_size),
                             block + HEADER_SIZE, 0, new_size),
              ptr |-> block + HEADER_SIZE]

\* Clear bit 0 and everything above the low half-word.
ClearTag(m, o) == Put(m, o, Masked(m, o))

\* Mutant: the next block is merged without a look at its header.
KfreeResultMergesNext(m, ptr) ==
    LET header == ptr - HEADER_SIZE
        m1 == ClearTag(m, header)
        m2 == ClearTag(m1, ptr + Masked(m1, header))
        next == next_header(m2, header)
    IN  IF next # NULL THEN merge_block(m2, header, next) ELSE m2

KfreeResult(m, ptr) ==
    LET header == ptr - HEADER_SIZE
        m1 == ClearTag(m, header)
        footer == ptr + Masked(m1, header)
        m2 == ClearTag(m1, footer)
        next == next_header(m2, header)
        prev == prev_footer(m2, footer)
        m3 == IF next # NULL /\ ~Allocated(m2, next)
              THEN merge_block(m2, header, next) ELSE m2
    IN  IF prev # NULL /\ ~Allocated(m3, prev)
        THEN merge_block(m3, header_from_footer(m3, prev), header) ELSE m3

KreallocResult(m, ptr, requested) ==
    LET size == RoundUp(requested)
        header == ptr - HEADER_SIZE
        footer == ptr + Masked(m, header)
        next == next_header(m, header)
        pfoot == prev_footer(m, footer)
        prev == IF pfoot = NULL THEN NULL ELSE header_from_footer(m, pfoot)
        nextFree == next # NULL /\ ~Allocated(m, next)
        prevFree == prev # NULL /\ ~Allocated(m, pfoot)
        fresh == KallocResult(m, size)
        copied == memmove(fresh.mem, fresh.ptr + HEADER_SIZE, ptr + HEADER_SIZE,
                          Masked(m, header))
    IN  IF nextFree /\ merge_size(m, header, next) >= size
        THEN merge_forward(m, header, next, size)
        ELSE IF prevFree /\ merge_size(m, prev, header) >= size
        THEN merge_backward(m, prev, header, size)
        ELSE IF nextFree /\ prevFree
                /\ threeway_merge_size(m, prev, header, next) >= size
        THEN threeway_merge(m, prev, header, next, size)
        ELSE IF fresh.ptr = NULL
        THEN fresh
        ELSE [mem |-> KfreeResult(copied, ptr), ptr |-> fresh.ptr + HEADER_SIZE]

-----------------------------------------------------------------------------
Slots == 1 .. MaxLive
Held == {i \in Slots : live[i] # NoAllocation}

\* init_heap: one free block; the frames come zeroed from AllocContiguous.
Init ==
    /\ mem = LET tag == HEAP_SIZE - MDATA_SIZE
             IN  Put(Put([h \in HalfWords |-> 0], 0, tag),
                     HEADER_SIZE + tag, tag)
    /\ live = [i \in Slots |-> NoAllocation]

kalloc(i, size) ==
    /\ live[i] = NoAllocation
    /\ LET r == KallocResult(mem, size)
       IN  /\ mem' = r.mem
           /\ live' = IF r.ptr = NULL THEN live
                      ELSE [live EXCEPT ![i] = Allocation(r.ptr, RoundUp(size),
                                                          RoundUp(size), 0)]

kfree(i) ==
    /\ live[i] # NoAllocation
    /\ mem' = KfreeResult(mem, live[i].ptr)
    /\ live' = [live EXCEPT ![i] = NoAllocation]

krealloc(i, size) ==
    /\ live[i] # NoAllocation
    /\ LET r == KreallocResult(mem, live[i].ptr, size)
           kept == IF live[i].known < RoundUp(size) THEN live[i].known
                   ELSE RoundUp(size)
       IN  /\ mem' = r.mem
           /\ live' = IF r.ptr = NULL THEN live
                      ELSE [live EXCEPT ![i] = Allocation(r.ptr, RoundUp(size),
                                                          kept, live[i].val)]

\* A caller fills all of its memory.
Fill(i) ==
    /\ live[i] # NoAllocation
    /\ live[i].val = 0
    /\ mem' = memset(mem, live[i].ptr, Stamp, live[i].size)
    /\ live' = [live EXCEPT ![i].known = live[i].size, ![i].val = Stamp]

Next ==
    \/ \E i \in Slots, size \in Sizes : kalloc(i, size)
    \/ \E i \in Slots : kfree(i)
    \/ \E i \in Slots : Fill(i)

Spec == Init /\ [][Next]_vars

NextRealloc == Next \/ \E i \in Slots, size \in Sizes : krealloc(i, size)

SpecRealloc == Init /\ [][NextRealloc]_vars

-----------------------------------------------------------------------------
(* Correctness. *)

\* Where the chain of headers ends: the masked size of the first block.
Limit == ((HEAP_SIZE - MDATA_SIZE) % Span) + MDATA_SIZE

\* The headers met from the start of the heap up to Limit.
Chain ==
    LET reached == Walk(mem, {o \in Offsets : o >= Limit})
    IN  {reached[i] : i \in 0 .. Iterations}

Bytes(i) == live[i].ptr .. live[i].ptr + live[i].size - 1

\* Type invariant.
TypeOK ==
    /\ mem \in [HalfWords -> 0 .. Span - 1]
    /\ \A i \in Held : /\ live[i].ptr \in HEADER_SIZE .. HEAP_SIZE - FOOTER_SIZE
                       /\ live[i].ptr + live[i].size <= HEAP_SIZE - FOOTER_SIZE

\* Two allocations never share a byte.
LiveDisjoint == \A i, j \in Held : i # j => Bytes(i) \cap Bytes(j) = {}

(***************************************************************************)
(* The headers tile the heap: from the first block the sizes lead exactly  *)
(* to Limit, and the allocated blocks are exactly the ones callers hold.   *)
(***************************************************************************)
HeapTiled ==
    /\ Limit \in Chain
    /\ {o \in Chain \ {Limit} : Allocated(mem, o)}
          = {live[i].ptr - HEADER_SIZE : i \in Held}

\* A block that is held is large enough for its caller, and has no room for
\* another one: nothing that was freed becomes part of it (kheap.c, kfree: "If
\* previous block is free, merge with previous block").  Refuted for sizes
\* that leave a block larger than the request by less than two tags.
FreedIsFree ==
    \A i \in Held : LET size == Masked(mem, live[i].ptr - HEADER_SIZE)
                    IN  live[i].size <= size /\ size < live[i].size + MDATA_SIZE

\* No call writes into memory a caller holds: what kalloc zeroed and what the
\* caller stored is still there after any other call.
ContentsKept ==
    \A i \in Held :
        \A h \in live[i].ptr \div 2 .. (live[i].ptr + live[i].known) \div 2 - 1 :
            HalfWord(mem, h) = live[i].val

\* When everything has been freed, kfree has merged the heap back into the
\* one block that init_heap made.
AllMerged == Held = {} => Masked(mem, 0) = Limit - MDATA_SIZE /\ ~Allocated(mem, 0)

\* Together: the tags that kalloc, split_block, merge_block and kfree leave
\* behind always describe the heap that the callers see.
HeapSound == TypeOK /\ LiveDisjoint /\ HeapTiled /\ FreedIsFree /\ AllMerged

\* ... and the contents are kept: what holds of calls of krealloc too.
ReallocSound == HeapSound /\ ContentsKept

-----------------------------------------------------------------------------
(* What the comments say and the code does not do. *)

\* kheap.c:92, "If we've found such a block, then allocate it": the block
\* whose address kalloc returns is marked as allocated.
KallocMarks ==
    \A i \in Held : Allocated(mem, live[i].ptr - HEADER_SIZE)

\* kheap.c:146, "find a new block and copy the memory": what the caller had
\* stored is found where krealloc says.
ReallocKeepsContents ==
    [][\A i \in Slots, size \in Sizes :
          krealloc(i, size) =>
             \A h \in live'[i].ptr \div 2
                        .. (live'[i].ptr + live'[i].known) \div 2 - 1 :
                 HalfWord(mem', h) = live[i].val]_vars
=============================================================================
