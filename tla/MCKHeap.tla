------------------------------ MODULE MCKHeap -------------------------------
(***************************************************************************)
(* Three small heaps, of which one is used.                                *)
(*                                                                         *)
(* The heap of the constants is no larger than a masked size can express,  *)
(* and three callers can exhaust it.  The kernel's is twice as large, as   *)
(* init_heap(0x20000) makes it, and its two callers hold less than half of *)
(* it.  The sizes in both are, rounded up, multiples of 8, so that no      *)
(* block exceeds a request by less than two tags.  The third heap has one  *)
(* caller, of any sizes, which also resizes.                               *)
(***************************************************************************)
EXTENDS KHeap

CONSTANTS KernelSizes, LoneSizes

VARIABLES used, kernelMem, kernelLive, loneMem, loneLive

KernelHeap == INSTANCE KHeap WITH
    HEAP_SIZE <- 128, Span <- 64, Sizes <- KernelSizes, MaxLive <- 2,
    mem <- kernelMem, live <- kernelLive

LoneHeap == INSTANCE KHeap WITH
    HEAP_SIZE <- 64, Span <- 128, Sizes <- LoneSizes, MaxLive <- 1,
    mem <- loneMem, live <- loneLive

mcVars == <<vars, used, kernelMem, kernelLive, loneMem, loneLive>>

MCInit ==
    /\ used \in {"exact", "kernel", "lone"}
    /\ Init /\ KernelHeap!Init /\ LoneHeap!Init

MCNext ==
    /\ UNCHANGED used
    /\ \/ /\ used = "exact" /\ Next
          /\ UNCHANGED <<kernelMem, kernelLive, loneMem, loneLive>>
       \/ /\ used = "kernel" /\ KernelHeap!Next
          /\ UNCHANGED <<vars, loneMem, loneLive>>
       \/ /\ used = "lone" /\ LoneHeap!NextRealloc
          /\ UNCHANGED <<vars, kernelMem, kernelLive>>

MCSpec == MCInit /\ [][MCNext]_mcVars

\* HeapSound and ContentsKept of the half of the kernel's heap that SIZE_MASK
\* can express.
KernelSound == KernelHeap!HeapSound /\ KernelHeap!ContentsKept

\* The tags and the contents are kept by calls of krealloc too, for a caller
\* that is alone.
LoneSound == LoneHeap!ReallocSound
=============================================================================
