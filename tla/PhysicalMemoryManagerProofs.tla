-------------------- MODULE PhysicalMemoryManagerProofs ---------------------
(***************************************************************************)
(* Proofs about PhysicalMemoryManager, for every set of well-formed memory *)
(* maps whose bitmap covers the frames that are searched (AllCovered).     *)
(***************************************************************************)
EXTENDS PhysicalMemoryManager, NumberFacts

AllCovered == \A m \in MemMaps : Covered(m)

-----------------------------------------------------------------------------
(* Numbers. *)

\* An index advanced modulo a positive number lies below it.
LEMMA ModRange ==
  ASSUME NEW a \in Nat, NEW n \in Nat \ {0}
  PROVE  a % n \in 0 .. n - 1
OBVIOUS

\* The last address of k frames lies in frame k - 1.
LEMMA LastFrame ==
  ASSUME NEW k \in Nat \ {0}, NEW f \in Nat \ {0}
  PROVE  (k * f - 1) \div f = k - 1
OBVIOUS

\* What fits into k frames has at most k frames of its own.
LEMMA DivBound ==
  ASSUME NEW a \in Nat, NEW k \in Nat, NEW f \in Nat \ {0}, a <= k * f
  PROVE  a \div f \in 0 .. k
OBVIOUS

-----------------------------------------------------------------------------
(* The layout. *)

\* The parts of WellFormed in the form the proofs below use them.
LEMMA MapEntries ==
  ASSUME NEW m, WellFormed(m)
  PROVE  /\ DOMAIN m = 1 .. Len(m)
         /\ Len(m) \in Nat
         /\ \A i \in DOMAIN m : /\ i \in Nat
                                /\ m[i].base \in Nat
                                /\ m[i].length \in Nat \ {0}
<1> DEFINE T == [base : Nat, length : Nat \ {0}, type : Nat]
<1>1. m \in Seq(T)
  BY DEF WellFormed
<1>2. \A e \in T : e.base \in Nat /\ e.length \in Nat \ {0}
  OBVIOUS
<1> HIDE DEF T
<1>3. DOMAIN m = 1 .. Len(m) /\ Len(m) \in Nat /\ \A i \in DOMAIN m : m[i] \in T
  BY <1>1
<1> QED
  BY <1>2, <1>3

\* Usable entries come in the order of their bases.
LEMMA EntriesSorted ==
  ASSUME NEW m, WellFormed(m),
         NEW i \in UsableEntries(m), NEW j \in UsableEntries(m), i < j
  PROVE  m[i].base + m[i].length <= m[j].base
<1>1. /\ i \in DOMAIN m /\ j \in DOMAIN m
      /\ USABLE_PAGE \in {m[i].type, m[j].type}
  BY DEF UsableEntries
<1> QED
  BY <1>1, Zenon DEF WellFormed

\* num_entries is the index of the last usable frame: no usable frame lies
\* above it, and none is frame 0.
LEMMA LayoutBounds ==
  ASSUME NEW m, WellFormed(m)
  PROVE  /\ num_entries(m) \in Nat \ {0}
         /\ \A i \in UsableEntries(m) :
               /\ m[i].base \in Nat \ {0}
               /\ m[i].length \in Nat \ {0}
               /\ m[i].base + m[i].length - 1 <= num_entries(m)
<1> DEFINE U == UsableEntries(m)
           top == Max(U)
<1>1. /\ DOMAIN m = 1 .. Len(m)
      /\ Len(m) \in Nat
      /\ \A i \in DOMAIN m : m[i].base \in Nat /\ m[i].length \in Nat \ {0}
  BY MapEntries
<1>2. U \in SUBSET (0 .. Len(m)) /\ U # {}
  BY <1>1 DEF UsableEntries, WellFormed
<1>3. top \in U /\ \A y \in U : y <= top
  BY <1>1, <1>2, MaxOfNaturals
<1>4. \A i \in U : /\ i \in DOMAIN m /\ i \in Nat
                   /\ m[i].base \in Nat \ {0}
                   /\ m[i].length \in Nat \ {0}
  BY <1>1 DEF UsableEntries, WellFormed
<1> HIDE DEF U, top
<1>5. num_entries(m) = m[top].base + m[top].length - 1
  <2> DEFINE k == m[top].base + m[top].length
  <2>1. k \in Nat \ {0}
    BY <1>3, <1>4
  <2>2. num_entries(m) = (k * FRAME_SIZE - 1) \div FRAME_SIZE
    BY Zenon DEF num_entries, UppermostUsableAddr, U, top
  <2> HIDE DEF k
  <2>3. num_entries(m) = k - 1
    BY <2>1, <2>2, LastFrame, PmmConstants
  <2> QED
    BY <2>3, <1>3, <1>4 DEF k
<1>6. \A i \in U : m[i].base + m[i].length <= m[top].base + m[top].length
  <2> TAKE i \in U
  <2>1. CASE i = top
    BY <2>1, <1>3, <1>4
  <2>2. CASE i < top
    <3>1. m[i].base + m[i].length <= m[top].base
      BY <2>2, <1>3, EntriesSorted DEF U
    <3> QED
      BY <3>1, <1>3, <1>4
  <2> QED
    BY <2>1, <2>2, <1>3, <1>4
<1> QED
  BY <1>3, <1>4, <1>5, <1>6 DEF U

\* The same about sets of frames.
LEMMA LayoutFrames ==
  ASSUME NEW m, WellFormed(m)
  PROVE  /\ UsableFrames(m) \subseteq 1 .. num_entries(m)
         /\ SafePool(m) \subseteq 1 .. num_entries(m)
BY LayoutBounds DEF UsableFrames, SafePool, FramesOf

\* bitmap_size is a number of bytes.
LEMMA BitmapSizeNat ==
  ASSUME NEW m, WellFormed(m)
  PROVE  bitmap_size(m) \in Nat
<1>1. num_entries(m) \div BITS_PER_BYTE \in Nat
  BY LayoutBounds, PmmConstants
<1> DEFINE n == num_entries(m) \div BITS_PER_BYTE
<1> HIDE DEF n
<1>2. ((n + FRAME_SIZE - 1) \div FRAME_SIZE) \in Nat
  BY <1>1, PmmConstants DEF n
<1> QED
  BY <1>2, PmmConstants DEF bitmap_size, RoundToNearestMultiple, n

\* The entry chosen for the bitmap is usable and large enough for it.
LEMMA BitmapEntry ==
  ASSUME NEW m, WellFormed(m), bmp_ind(m) # -1
  PROVE  /\ bmp_ind(m) \in UsableEntries(m)
         /\ m[bmp_ind(m)].length * FRAME_SIZE >= bitmap_size(m)
<1> DEFINE fits == {i \in UsableEntries(m) :
                       m[i].length * FRAME_SIZE >= bitmap_size(m)}
<1>1. fits \in SUBSET Nat
  BY DEF UsableEntries, WellFormed
<1>2. fits # {} /\ bmp_ind(m) = Min(fits)
  BY DEF bmp_ind, FindMemEntryBySize
<1>3. bmp_ind(m) \in fits
  BY <1>1, <1>2, MinOfNaturals
<1> QED
  BY <1>3

\* Two usable entries share no frame.
LEMMA EntriesDisjoint ==
  ASSUME NEW m, WellFormed(m),
         NEW i \in UsableEntries(m), NEW j \in UsableEntries(m), i # j
  PROVE  FramesOf(m[i]) \cap FramesOf(m[j]) = {}
<1>1. i \in Nat /\ j \in Nat
  BY MapEntries DEF UsableEntries
<1>2. /\ m[i].base \in Nat /\ m[i].length \in Nat
      /\ m[j].base \in Nat /\ m[j].length \in Nat
  BY LayoutBounds
<1>3. \/ m[i].base + m[i].length <= m[j].base
      \/ m[j].base + m[j].length <= m[i].base
  <2>1. CASE i < j
    BY <2>1, EntriesSorted
  <2>2. CASE j < i
    BY <2>2, EntriesSorted
  <2> QED
    BY <2>1, <2>2, <1>1
<1> QED
  BY <1>2, <1>3 DEF FramesOf

\* InitPmm clears only frames that may be handed out.
LEMMA ClearedSafe ==
  ASSUME NEW m, WellFormed(m)
  PROVE  ClearedFrames(m) \subseteq SafePool(m)
<1>1. ClearedFrames(m) \subseteq UsableFrames(m)
  BY DEF ClearedFrames, ClearedEntries, UsableFrames
<1>2. ClearedFrames(m) \cap BitmapFrames(m) = {}
  <2>1. CASE bmp_ind(m) = -1
    BY <2>1 DEF BitmapFrames
  <2>2. CASE bmp_ind(m) # -1
    <3> DEFINE b == bmp_ind(m)
    <3>1. b \in UsableEntries(m) /\ m[b].length * FRAME_SIZE >= bitmap_size(m)
      BY <2>2, BitmapEntry
    <3>2. m[b].base \in Nat /\ m[b].length \in Nat
      BY <3>1, LayoutBounds
    <3>3. bitmap_size(m) \div FRAME_SIZE \in 0 .. m[b].length
      BY <3>1, <3>2, BitmapSizeNat, DivBound, PmmConstants
    <3>4. BitmapFrames(m) \subseteq FramesOf(m[b])
      BY <2>2, <3>2, <3>3 DEF BitmapFrames, FramesOf
    <3>5. \A i \in ClearedEntries(m) : FramesOf(m[i]) \cap FramesOf(m[b]) = {}
      BY <3>1, EntriesDisjoint DEF ClearedEntries
    <3> QED
      BY <3>4, <3>5 DEF ClearedFrames
  <2> QED
    BY <2>1, <2>2
<1> QED
  BY <1>1, <1>2 DEF SafePool

\* The cursor starts inside the map.
LEMMA CursorRange ==
  ASSUME NEW m, WellFormed(m)
  PROVE  FirstCursor(m) \in 0 .. num_entries(m)
<1> DEFINE setting == {i \in ClearedEntries(m) : m[i].base # 1}
<1>1. setting \in SUBSET Nat
  BY DEF ClearedEntries, UsableEntries, WellFormed
<1>2. CASE setting = {}
  BY <1>2, LayoutBounds DEF FirstCursor
<1>3. CASE setting # {}
  <2>1. Min(setting) \in UsableEntries(m)
    BY <1>1, <1>3, MinOfNaturals DEF ClearedEntries
  <2>2. FirstCursor(m) = m[Min(setting)].base - 1
    BY <1>3 DEF FirstCursor
  <2> QED
    BY <2>1, <2>2, LayoutBounds
<1> QED
  BY <1>2, <1>3

-----------------------------------------------------------------------------
(* The inductive invariant.  TypeOK and FrameInv lean on each other (the   *)
(* cursor stays in the map because a clear bit is a usable frame), and on  *)
(* the two facts added here about what a call in progress has set up.      *)

CallInv ==
    /\ pc = "boot" => owned = {}
    /\ pc = "first" => pages = 1
    /\ pc = "contig" => pages > 0

IInv == TypeOK /\ FrameInv /\ CallInv

LEMMA InitIInv == Init => IInv
<1> SUFFICES ASSUME Init PROVE IInv
  OBVIOUS
<1>1. WellFormed(memmap)
  BY PmmMaps DEF Init
<1>2. num_entries(memmap) \in Nat \ {0} /\ UsableFrames(memmap) \subseteq Nat
  BY <1>1, LayoutBounds, LayoutFrames
<1>3. TypeOK
  BY <1>2 DEF Init, TypeOK, UsableFrames
<1> QED
  BY <1>3 DEF Init, IInv, FrameInv, CallInv

\* AllocContiguous never runs over the end of the map: the bit after the
\* last usable frame is set.
LEMMA RunInMap ==
  ASSUME IInv, AllCovered, Checked(scan) \cap free = Checked(scan)
  PROVE  /\ scan + pages <= num_entries(memmap)
         /\ Checked(scan) \subseteq SafePool(memmap) \ owned
<1> DEFINE n == num_entries(memmap)
<1>1. WellFormed(memmap)
  BY PmmMaps DEF IInv, TypeOK
<1>2. n \in Nat \ {0} /\ SafePool(memmap) \subseteq 1 .. n
  BY <1>1, LayoutBounds, LayoutFrames
<1>3. scan \in 0 .. n + 1 /\ pages \in Nat
  BY DEF IInv, TypeOK
<1>4. free \cap (0 .. n + 1) \subseteq SafePool(memmap) \ owned
  BY DEF IInv, FrameInv
<1> HIDE DEF n
<1>5. n + 1 \notin free
  BY <1>2, <1>4
<1>6. scan + pages <= n
  <2>1. n + 1 \notin scan .. scan + pages
    BY <1>5 DEF Checked
  <2> QED
    BY <2>1, <1>2, <1>3
<1>7. Checked(scan) \subseteq 0 .. n + 1
  BY <1>2, <1>3, <1>6 DEF Checked
<1> QED
  BY <1>4, <1>6, <1>7 DEF n

\* Every step of every operation preserves the inductive invariant.
LEMMA NextIInv ==
  ASSUME AllCovered, IInv, [Next]_vars
  PROVE  IInv'
<1> DEFINE n == num_entries(memmap)
           pool == SafePool(memmap)
<1> USE DEF IInv, TypeOK, FrameInv, CallInv, Return
<1>1. WellFormed(memmap) /\ Covered(memmap)
  BY PmmMaps DEF AllCovered
<1>2. n \in Nat \ {0} /\ pool \subseteq 1 .. n
  BY <1>1, LayoutBounds, LayoutFrames
<1> HIDE DEF n, pool
<1>3. memmap' = memmap => n' = n /\ pool' = pool
  BY DEF n, pool
<1>4. CASE InitPmm
  <2>1. free' \cap (0 .. n + 1) \subseteq pool
    <3> DEFINE bits == bitmap_size(memmap) * BITS_PER_BYTE
    <3>1. bits \in Nat /\ n + 1 < bits
      BY <1>1, BitmapSizeNat, PmmConstants DEF Covered, n
    <3>2. PICK stale \in SUBSET {bits + k : k \in 0 .. StaleBits - 1} :
             free' = stale \cup ClearedFrames(memmap)
      BY <1>4 DEF InitPmm
    <3> HIDE DEF bits
    <3>3. \A f \in stale : f > n + 1
      BY <3>1, <1>2, PmmConstants
    <3>4. ClearedFrames(memmap) \subseteq pool
      BY <1>1, ClearedSafe DEF pool
    <3> QED
      BY <3>2, <3>3, <3>4, <1>2
  <2>2. free' \subseteq Nat
    <3>1. bitmap_size(memmap) * BITS_PER_BYTE \in Nat
      BY <1>1, BitmapSizeNat, PmmConstants
    <3>2. ClearedFrames(memmap) \subseteq Nat
      BY <1>1, <1>2, ClearedSafe DEF pool
    <3> QED
      BY <3>1, <3>2, <1>4, PmmConstants DEF InitPmm
  <2>3. last_used' \in 0 .. n
    BY <1>1, <1>4, CursorRange DEF InitPmm, n
  <2> QED
    BY <2>1, <2>2, <2>3, <1>3, <1>4 DEF InitPmm, n, pool
<1>5. CASE InitPmmFails \/ Halted
  BY <1>3, <1>5 DEF InitPmmFails, Halted, vars
<1>6. CASE AllocFirstFrame
  BY <1>2, <1>3, <1>6 DEF AllocFirstFrame, n
<1>7. CASE FirstSkips
  <2>1. scan' \in 0 .. n - 1
    <3>1. scan' = (scan + 1) % n /\ scan + 1 \in Nat
      BY <1>7, <1>2 DEF FirstSkips, NextIndex, n
    <3>2. (scan + 1) % n \in 0 .. n - 1
      BY <3>1, <1>2, ModRange
    <3> QED
      BY <3>1, <3>2, Zenon
  <2> QED
    BY <2>1, <1>2, <1>3, <1>7 DEF FirstSkips, n
<1>8. CASE FirstFinds
  <2>1. scan \in pool \ owned
    BY <1>8 DEF FirstFinds, PageIsUsed, n, pool
  <2> QED
    BY <2>1, <1>2, <1>3, <1>8
       DEF FirstFinds, SetPageUsed, ZeroFrames, n, pool
<1>9. CASE FirstFails \/ ContigFails
  <2>1. /\ pc' = "idle" /\ scan' = 0 /\ pages' = 0
        /\ UNCHANGED <<memmap, free, last_used, owned, soiled>>
    BY <1>9 DEF FirstFails, ContigFails
  <2> QED
    BY <2>1, <1>2, <1>3 DEF n, pool
<1>10. ASSUME NEW size \in Sizes, AllocContiguous(size) PROVE IInv'
  <2>1. pages' \in Nat \ {0}
    <3>1. size \in Nat \ {0}
      BY PmmConstants
    <3>2. /\ size \div FRAME_SIZE \in Nat
          /\ size % FRAME_SIZE = 0 => size \div FRAME_SIZE > 0
          /\ size % FRAME_SIZE \in Nat
      BY <3>1, PmmConstants
    <3> QED
      BY <3>2, <1>10 DEF AllocContiguous
  <2> QED
    BY <2>1, <1>2, <1>3, <1>10 DEF AllocContiguous, n
<1>11. CASE ContigSkips
  <2>1. scan' \in 0 .. n - 1
    <3>1. PICK tail \in Checked(scan) : scan' = (tail + 1) % n
      BY <1>11 DEF ContigSkips, NextIndex, n
    <3>2. tail + 1 \in Nat
      BY DEF Checked
    <3>3. (tail + 1) % n \in 0 .. n - 1
      BY <3>2, <1>2, ModRange
    <3> QED
      BY <3>1, <3>3, Zenon
  <2> QED
    BY <2>1, <1>2, <1>3, <1>11 DEF ContigSkips, n
<1>12. CASE ContigFinds
  <2>1. /\ scan + pages <= n
        /\ scan .. scan + pages \subseteq pool \ owned
    BY <1>12, RunInMap DEF ContigFinds, PageIsUsed, Checked, n, pool
  <2>2. scan .. scan + pages - 1 \subseteq scan .. scan + pages
    OBVIOUS
  <2>3. /\ last_used' \in 0 .. n
        /\ owned' \subseteq pool
        /\ free' \cap (0 .. n + 1) \subseteq pool \ owned'
    <3>1. scan .. scan + pages - 1 \subseteq scan .. scan + pages + 1
      OBVIOUS
    <3> QED
      BY <2>1, <2>2, <3>1, <1>2, <1>12 DEF ContigFinds, SetPageUsed, n, pool
  <2> QED
    BY <2>3, <1>2, <1>3, <1>12 DEF ContigFinds, SetPageUsed, ZeroFrames, n, pool
<1>13. ASSUME NEW frame \in owned, FreeFrame(frame) PROVE IInv'
  <2>1. frame \in pool
    BY DEF pool
  <2>2. TypeOK'
    BY <2>1, <1>2, <1>3, <1>13 DEF FreeFrame, SetPageFree, ZeroFrames, n
  <2>3. FrameInv'
    BY <2>1, <1>2, <1>3, <1>13 DEF FreeFrame, SetPageFree, n, pool
  <2> QED
    BY <2>2, <2>3, <1>13 DEF FreeFrame
<1>14. ASSUME NEW frame \in owned, WriteFrame(frame) PROVE IInv'
  BY <1>2, <1>3, <1>14 DEF WriteFrame, n, pool
<1>15. CASE UNCHANGED vars
  BY <1>3, <1>15 DEF vars
<1> QED
  BY <1>4, <1>5, <1>6, <1>7, <1>8, <1>9, <1>10, <1>11, <1>12, <1>13, <1>14,
     <1>15 DEF Next, Step

-----------------------------------------------------------------------------
(* Theorems. *)

LEMMA AlwaysIInv ==
  ASSUME AllCovered
  PROVE  Spec => []IInv
<1>1. IInv /\ [Next]_vars => IInv'
  BY NextIInv
<1> QED
  BY InitIInv, <1>1, PTL DEF Spec

\* The cursor, the loop variables and the sets keep their types, whatever the
\* calls and their order (all operations of physical_memory_manager.c).
THEOREM TypeCorrect ==
  ASSUME AllCovered
  PROVE  Spec => []TypeOK
<1>1. IInv => TypeOK
  BY DEF IInv
<1> QED
  BY AlwaysIInv, <1>1, PTL

\* A clear bit a search can reach is a frame that is usable, not under the
\* bitmap and not in use, and callers only hold such frames (AllocFirstFrame,
\* AllocContiguous and FreeFrame on top of InitPmm).
THEOREM FramesSafe ==
  ASSUME AllCovered
  PROVE  Spec => []FrameInv
<1>1. IInv => FrameInv
  BY DEF IInv
<1> QED
  BY AlwaysIInv, <1>1, PTL

-----------------------------------------------------------------------------
(* Refinement: the allocator implements FrameAllocator. *)

LEMMA InitRefines == Init => Frames!FAInit
<1> SUFFICES ASSUME Init PROVE Frames!FAInit
  OBVIOUS
<1>1. WellFormed(memmap)
  BY PmmMaps DEF Init
<1>2. SafePool(memmap) \subseteq Nat
  BY <1>1, LayoutFrames, LayoutBounds
<1>3. soiled \cap SafePool(memmap) = SafePool(memmap)
  BY DEF Init, SafePool, UsableFrames
<1> QED
  BY <1>2, <1>3 DEF Init, Frames!FAInit, Frames!NoRequest

\* Every step of the allocator is a step of FrameAllocator or leaves its
\* variables alone.
LEMMA NextRefines ==
  ASSUME AllCovered, IInv, [Next]_vars
  PROVE  [Frames!FANext]_(Frames!faVars)
<1> DEFINE pool == SafePool(memmap)
           want == IF pc \in {"first", "contig"} THEN pages ELSE -1
<1> USE DEF Return
<1>1. memmap' = memmap => pool' = pool
  OBVIOUS
<1>2. pages \in Nat /\ pc \in {"boot", "idle", "first", "contig", "failed"}
  BY DEF IInv, TypeOK
<1> HIDE DEF pool
<1>3. ASSUME memmap' = memmap, owned' = owned, soiled' = soiled, want' = want
      PROVE  UNCHANGED Frames!faVars
  BY <1>1, <1>3 DEF Frames!faVars, pool
<1>4. CASE InitPmm \/ InitPmmFails \/ Halted \/ UNCHANGED vars
  <2>1. /\ memmap' = memmap /\ owned' = owned /\ soiled' = soiled
        /\ want' = want
    BY <1>4 DEF InitPmm, InitPmmFails, Halted, vars
  <2> QED
    BY <2>1, <1>3
<1>5. CASE FirstSkips \/ ContigSkips
  <2>1. /\ memmap' = memmap /\ owned' = owned /\ soiled' = soiled
        /\ want' = want
    BY <1>5 DEF FirstSkips, ContigSkips
  <2> QED
    BY <2>1, <1>3
<1>6. ASSUME memmap' = memmap, owned' = owned, soiled' = soiled,
             want = -1, want' \in Nat \ {0}
      PROVE  Frames!Request
  BY <1>1, <1>6 DEF Frames!Request, Frames!NoRequest, pool
<1>7. CASE AllocFirstFrame
  <2>1. want = -1 /\ want' \in Nat \ {0}
    BY <1>7 DEF AllocFirstFrame
  <2> QED
    BY <2>1, <1>6, <1>7 DEF AllocFirstFrame, Frames!FANext
<1>8. ASSUME NEW size \in Sizes, AllocContiguous(size) PROVE Frames!FANext
  <2>1. want = -1 /\ pc' = "contig" /\ memmap' = memmap
    BY <1>8 DEF AllocContiguous
  <2>2. pages' > 0 /\ pages' \in Nat
    <3>1. IInv'
      BY NextIInv
    <3> QED
      BY <3>1, <2>1 DEF IInv, CallInv, TypeOK
  <2>3. want' \in Nat \ {0}
    BY <2>1, <2>2
  <2> QED
    BY <2>1, <2>3, <1>6, <1>8 DEF AllocContiguous, Frames!FANext
<1>9. CASE FirstFails \/ ContigFails
  <2>1. /\ memmap' = memmap /\ owned' = owned /\ soiled' = soiled
        /\ want # -1 /\ want' = -1
    BY <1>2, <1>9 DEF FirstFails, ContigFails
  <2>2. Frames!Refuse
    BY <2>1, <1>1 DEF Frames!Refuse, Frames!NoRequest, pool
  <2> QED
    BY <2>2 DEF Frames!FANext
<1>10. CASE FirstFinds
  <2>1. scan \in pool \ owned /\ pages = 1
    <3>1. scan \in free /\ scan \in 0 .. num_entries(memmap) + 1 /\ pages = 1
      BY <1>10 DEF FirstFinds, PageIsUsed, IInv, TypeOK, CallInv
    <3> QED
      BY <3>1 DEF IInv, FrameInv, pool
  <2>2. scan .. scan + pages - 1 = {scan} /\ want = 1
    BY <2>1, <1>10 DEF FirstFinds, IInv, TypeOK
  <2>3. /\ memmap' = memmap /\ want' = -1
        /\ owned' = owned \cup {scan} /\ soiled' = soiled \ {scan}
    BY <1>10 DEF FirstFinds, ZeroFrames
  <2>4. Frames!Grant(scan)
    BY <2>1, <2>2, <2>3, <1>1 DEF Frames!Grant, Frames!NoRequest, pool
  <2> QED
    BY <2>1, <2>4 DEF Frames!FANext, pool
<1>11. CASE ContigFinds
  <2> DEFINE run == scan .. scan + pages - 1
  <2>1. want = pages /\ pages > 0 /\ pages \in Nat /\ scan \in Nat
    BY <1>11 DEF ContigFinds, IInv, CallInv, TypeOK
  <2>2. run \subseteq pool \ owned /\ scan \in pool
    <3>1. scan .. scan + pages \subseteq pool \ owned
      BY <1>11, RunInMap DEF ContigFinds, PageIsUsed, Checked, pool
    <3>2. run \subseteq scan .. scan + pages /\ scan \in scan .. scan + pages
      BY <2>1
    <3> QED
      BY <3>1, <3>2
  <2>3. /\ memmap' = memmap /\ want' = -1
        /\ owned' = owned \cup run /\ soiled' = soiled \ run
    BY <1>11 DEF ContigFinds, ZeroFrames
  <2> HIDE DEF run
  <2>4. Frames!Grant(scan)
    <3>1. want # -1
      BY <2>1
    <3>2. scan .. scan + want - 1 = run
      BY <2>1 DEF run
    <3> HIDE DEF want
    <3>3. (soiled \cap pool)' = (soiled \cap pool) \ run
      BY <2>3, <1>1
    <3> QED
      BY <3>1, <3>2, <3>3, <2>2, <2>3, <1>1
         DEF Frames!Grant, Frames!NoRequest, pool, want
  <2> QED
    BY <2>2, <2>4 DEF Frames!FANext, pool
<1>12. ASSUME NEW frame \in owned, FreeFrame(frame) PROVE Frames!FANext
  <2>1. Frames!Release(frame)
    BY <1>1, <1>12 DEF FreeFrame, ZeroFrames, Frames!Release, Frames!NoRequest,
                       pool
  <2> QED
    BY <2>1 DEF Frames!FANext
<1>13. ASSUME NEW frame \in owned, WriteFrame(frame) PROVE Frames!FANext
  <2>1. frame \in pool
    BY DEF IInv, FrameInv, pool
  <2>2. Frames!Use(frame)
    BY <2>1, <1>1, <1>13 DEF WriteFrame, Frames!Use, Frames!NoRequest, pool
  <2> QED
    BY <2>2 DEF Frames!FANext
<1> QED
  BY <1>4, <1>5, <1>7, <1>8, <1>9, <1>10, <1>11, <1>12, <1>13 DEF Next, Step

\* Whatever AllocFirstFrame and AllocContiguous return is a run of frames of
\* the length asked for, in the pool, held by nobody and zeroed; FreeFrame
\* gives one frame back.
THEOREM Refinement ==
  ASSUME AllCovered
  PROVE  Spec => ImplementsFrameAllocator
<1>1. IInv /\ [Next]_vars => [Frames!FANext]_(Frames!faVars)
  BY NextRefines
<1> QED
  BY InitRefines, AlwaysIInv, <1>1, PTL
     DEF Spec, ImplementsFrameAllocator, Frames!FASpec

-----------------------------------------------------------------------------
(* What a search has seen so far.  The cursor does not move during a       *)
(* search, so the frames between it and the loop variable, taken round the *)
(* end of the map, are the ones looked at.                                 *)

\* No run for the search under way starts in S.
NoRunIn(S) == \A h \in S : ~(Checked(h) \subseteq free)

ScanInv ==
    /\ pc = "first" /\ last_used < num_entries(memmap) =>
          /\ scan > last_used =>
                /\ scan <= num_entries(memmap)
                /\ \A f \in last_used + 1 .. scan - 1 : f \notin free
          /\ scan <= last_used =>
                /\ \A f \in last_used + 1 .. num_entries(memmap) - 1 : f \notin free
                /\ \A f \in 0 .. scan - 1 : f \notin free
    /\ pc = "first" /\ last_used = num_entries(memmap) => scan # last_used
    /\ pc = "contig" =>
          /\ scan > last_used => NoRunIn(last_used + 1 .. scan - 1)
          /\ scan <= last_used =>
                /\ NoRunIn(last_used + 1 .. num_entries(memmap))
                /\ NoRunIn(2 .. scan - 1)

\* Advancing modulo num_entries: nothing happens below it, and just above it
\* the index restarts near zero.
LEMMA ModWrap ==
  ASSUME NEW n \in Nat \ {0}, NEW a \in Nat
  PROVE  /\ a < n => a % n = a
         /\ a >= n => a % n <= a - n
OBVIOUS

\* One iteration of the loop of AllocFirstFrame.
LEMMA FirstSkipsScan ==
  ASSUME IInv, ScanInv, FirstSkips
  PROVE  ScanInv'
<1> DEFINE n == num_entries(memmap)
<1>1. WellFormed(memmap)
  BY PmmMaps DEF IInv, TypeOK
<1>2. n \in Nat \ {0} /\ SafePool(memmap) \subseteq 1 .. n
  BY <1>1, LayoutBounds, LayoutFrames
<1>3. /\ scan \in 0 .. n + 1 /\ last_used \in 0 .. n
      /\ scan # last_used /\ scan \notin free
      /\ scan' = (scan + 1) % n /\ pc = "first"
      /\ UNCHANGED <<memmap, free, last_used, pc>>
  BY DEF IInv, TypeOK, FirstSkips, PageIsUsed, NextIndex
<1>4. 0 \notin free
  BY <1>2 DEF IInv, FrameInv
<1>5. /\ scan + 1 < n => scan' = scan + 1
      /\ scan + 1 >= n => scan' <= scan + 1 - n
      /\ scan' \in 0 .. n - 1
  <2> DEFINE a == scan + 1
  <2>1. a \in Nat /\ scan' = a % n
    BY <1>2, <1>3
  <2> HIDE DEF a, n
  <2>2. /\ a < n => scan' = a
        /\ a >= n => scan' <= a - n
        /\ scan' \in 0 .. n - 1
    BY <2>1, <1>2, ModWrap, ModRange
  <2> QED
    BY <2>2, <1>2, <1>3 DEF a
<1>6. n' = n
  BY <1>3
<1> HIDE DEF n
<1>7. CASE last_used = n
  <2>1. scan' # last_used'
    BY <1>7, <1>5, <1>3, <1>2
  <2> QED
    BY <2>1, <1>2, <1>3, <1>6, <1>7 DEF ScanInv, n
<1>8. CASE last_used < n
  <2>1. CASE scan > last_used
    <3>1. scan <= n /\ \A f \in last_used + 1 .. scan : f \notin free
      BY <2>1, <1>8, <1>3, <1>2 DEF ScanInv, n
    <3>2. CASE scan + 1 < n
      <4>1. scan' = scan + 1
        BY <3>2, <1>5
      <4> QED
        BY <4>1, <3>1, <3>2, <2>1, <1>2, <1>3, <1>6, <1>8 DEF ScanInv, n
    <3>3. CASE scan + 1 >= n
      <4>1. scan' \in {0, 1}
        BY <3>1, <3>3, <1>2, <1>3, <1>5
      <4>2. scan' <= last_used => /\ \A f \in last_used + 1 .. n - 1 : f \notin free
                                  /\ \A f \in 0 .. scan' - 1 : f \notin free
        BY <4>1, <3>1, <3>3, <1>2, <1>3, <1>4
      <4>3. scan' > last_used => last_used + 1 .. scan' - 1 = {} /\ scan' <= n
        BY <4>1, <1>2, <1>3
      <4> QED
        BY <4>2, <4>3, <1>2, <1>3, <1>6, <1>8 DEF ScanInv, n
    <3> QED
      BY <3>2, <3>3, <1>2, <1>3
  <2>2. CASE scan < last_used
    <3>1. scan' = scan + 1
      BY <2>2, <1>2, <1>3, <1>5, <1>8
    <3>2. /\ \A f \in last_used + 1 .. n - 1 : f \notin free
          /\ \A f \in 0 .. scan : f \notin free
      BY <2>2, <1>8, <1>2, <1>3 DEF ScanInv, n
    <3> QED
      BY <3>1, <3>2, <2>2, <1>2, <1>3, <1>6, <1>8 DEF ScanInv, n
  <2> QED
    BY <2>1, <2>2, <1>2, <1>3
<1> QED
  BY <1>7, <1>8, <1>2, <1>3

\* One iteration of the outer loop of AllocContiguous.
LEMMA ContigSkipsScan ==
  ASSUME IInv, ScanInv, ContigSkips
  PROVE  ScanInv'
<1> DEFINE n == num_entries(memmap)
<1>1. WellFormed(memmap)
  BY PmmMaps DEF IInv, TypeOK
<1>2. n \in Nat \ {0} /\ SafePool(memmap) \subseteq 1 .. n
  BY <1>1, LayoutBounds, LayoutFrames
<1>3. /\ scan \in 0 .. n + 1 /\ last_used \in 0 .. n /\ pages \in Nat \ {0}
      /\ scan # last_used /\ pc = "contig"
      /\ UNCHANGED <<memmap, free, last_used, pc, pages>>
  BY DEF IInv, TypeOK, CallInv, ContigSkips
<1>4. n + 1 \notin free
  BY <1>2 DEF IInv, FrameInv
<1>5. PICK tail \in scan .. scan + pages :
         /\ tail \notin free
         /\ \A t \in scan .. tail - 1 : t \in free
         /\ scan' = (tail + 1) % n
  BY DEF ContigSkips, PageIsUsed, NextIndex, Checked
<1> HIDE DEF n
<1>6. tail \in 0 .. n + 1
  <2>1. n + 1 \notin scan .. tail - 1
    BY <1>4, <1>5
  <2> QED
    BY <2>1, <1>2, <1>3, <1>5
\* Every run that starts at or after scan and not after tail contains tail.
<1>7. NoRunIn(scan .. tail)
  <2> SUFFICES ASSUME NEW h \in scan .. tail PROVE tail \in Checked(h)
    BY <1>5 DEF NoRunIn
  <2> QED
    BY <1>3, <1>5 DEF Checked
\* No run starts in the last frame: the next bit is set.
<1>8. NoRunIn({n})
  BY <1>2, <1>3, <1>4 DEF NoRunIn, Checked
<1>9. /\ tail + 1 < n => scan' = tail + 1
      /\ tail + 1 >= n => scan' \in {0, 1, 2}
  <2> DEFINE a == tail + 1
  <2>1. a \in Nat /\ a <= n + 2 /\ scan' = a % n
    BY <1>2, <1>5, <1>6
  <2> HIDE DEF a
  <2>2. /\ a < n => scan' = a
        /\ a >= n => scan' <= a - n
        /\ scan' \in 0 .. n - 1
    BY <2>1, <1>2, ModWrap, ModRange
  <2> QED
    BY <2>1, <2>2, <1>2, <1>6 DEF a
\* The invariant only speaks of the frames that have been passed.
<1>10. SUFFICES /\ scan' > last_used => NoRunIn(last_used + 1 .. scan' - 1)
                /\ scan' <= last_used => /\ NoRunIn(last_used + 1 .. n)
                                         /\ NoRunIn(2 .. scan' - 1)
  BY <1>3 DEF ScanInv, NoRunIn, Checked, n
<1>11. CASE scan > last_used
  <2>1. NoRunIn(last_used + 1 .. tail)
    <3>1. NoRunIn(last_used + 1 .. scan - 1)
      BY <1>11, <1>3 DEF ScanInv
    <3> QED
      BY <3>1, <1>3, <1>6, <1>7 DEF NoRunIn
  <2>2. CASE tail + 1 < n
    BY <2>1, <2>2, <1>3, <1>5, <1>6, <1>9, <1>11
  <2>3. CASE tail + 1 >= n
    <3>1. NoRunIn(last_used + 1 .. n)
      BY <2>1, <2>3, <1>2, <1>3, <1>6, <1>8 DEF NoRunIn
    <3>2. NoRunIn(2 .. scan' - 1)
      BY <2>3, <1>9 DEF NoRunIn
    <3>3. scan' > last_used => NoRunIn(last_used + 1 .. scan' - 1)
      <4>1. CASE last_used + 1 = 1 /\ scan' = 2
        <5>1. tail >= 1
          BY <1>3, <1>5, <1>11
        <5> QED
          BY <5>1, <4>1, <2>1, <1>6 DEF NoRunIn
      <4>2. CASE ~(last_used + 1 = 1 /\ scan' = 2)
        BY <4>2, <2>3, <1>3, <1>9 DEF NoRunIn
      <4> QED
        BY <4>1, <4>2
    <3> QED
      BY <3>1, <3>2, <3>3
  <2> QED
    BY <2>2, <2>3, <1>2, <1>6
<1>12. CASE scan < last_used
  <2>1. NoRunIn(last_used + 1 .. n) /\ NoRunIn(2 .. scan - 1)
    BY <1>12, <1>3 DEF ScanInv, n
  <2>2. NoRunIn(2 .. tail)
    BY <2>1, <1>3, <1>6, <1>7 DEF NoRunIn
  <2>3. CASE tail + 1 < n
    <3>1. scan' = tail + 1
      BY <2>3, <1>9
    <3>2. NoRunIn(2 .. scan' - 1)
      BY <3>1, <2>2, <1>6
    <3>3. NoRunIn(last_used + 1 .. scan' - 1)
      BY <3>1, <2>1, <2>3, <1>2, <1>3, <1>6 DEF NoRunIn
    <3> QED
      BY <3>2, <3>3, <2>1
  <2>4. CASE tail + 1 >= n
    <3>1. NoRunIn(2 .. scan' - 1)
      BY <2>4, <1>9 DEF NoRunIn
    <3>2. last_used >= 1
      BY <1>3, <1>12
    <3> QED
      BY <3>1, <3>2, <2>1, <2>4, <1>3, <1>9 DEF NoRunIn
  <2> QED
    BY <2>3, <2>4, <1>2, <1>6
<1> QED
  BY <1>11, <1>12, <1>2, <1>3

\* The searches keep account of what they have seen.
LEMMA NextScan ==
  ASSUME AllCovered, IInv, ScanInv, [Next]_vars
  PROVE  ScanInv'
<1>1. WellFormed(memmap)
  BY PmmMaps DEF IInv, TypeOK
<1>2. num_entries(memmap) \in Nat \ {0} /\ last_used \in 0 .. num_entries(memmap)
  BY <1>1, LayoutBounds DEF IInv, TypeOK
<1>3. CASE FirstSkips
  BY <1>3, FirstSkipsScan
<1>4. CASE ContigSkips
  BY <1>4, ContigSkipsScan
<1>5. CASE AllocFirstFrame
  BY <1>2, <1>5 DEF AllocFirstFrame, ScanInv
<1>6. ASSUME NEW size \in Sizes, AllocContiguous(size) PROVE ScanInv'
  BY <1>2, <1>6 DEF AllocContiguous, ScanInv, NoRunIn
<1>7. CASE pc' \notin {"first", "contig"}
  BY <1>7 DEF ScanInv
<1>8. CASE UNCHANGED vars
  BY <1>8 DEF vars, ScanInv, NoRunIn, Checked
<1> QED
  BY <1>3, <1>4, <1>5, <1>6, <1>7, <1>8
     DEF Next, Step, Halted, InitPmm, InitPmmFails, FirstFinds, FirstFails,
         ContigFinds, ContigFails, FreeFrame, WriteFrame, Return

LEMMA AlwaysScan ==
  ASSUME AllCovered
  PROVE  Spec => [](IInv /\ ScanInv)
<1>1. Init => ScanInv
  BY DEF Init, ScanInv
<1>2. IInv /\ ScanInv /\ [Next]_vars => ScanInv'
  BY NextScan
<1> QED
  BY AlwaysIInv, <1>1, <1>2, PTL DEF Spec

\* When AllocFirstFrame gives up, every frame below num_entries other than
\* the cursor's is in use.
THEOREM FirstNull ==
  ASSUME AllCovered
  PROVE  Spec => FirstNullMeansNone
<1> DEFINE A == Refused("first") =>
                   free \cap (0 .. num_entries(memmap) - 1) \subseteq {last_used}
<1>1. IInv /\ ScanInv /\ [Next]_vars => [A]_vars
  <2> SUFFICES ASSUME IInv, ScanInv, Next, Refused("first")
               PROVE  free \cap (0 .. num_entries(memmap) - 1) \subseteq {last_used}
    BY DEF vars
  <2>1. WellFormed(memmap)
    BY PmmMaps DEF IInv, TypeOK
  <2>2. /\ num_entries(memmap) \in Nat \ {0}
        /\ last_used \in 0 .. num_entries(memmap)
        /\ owned \subseteq SafePool(memmap)
        /\ free \cap (0 .. num_entries(memmap) + 1)
              \subseteq SafePool(memmap) \ owned
        /\ scan \in 0 .. num_entries(memmap) + 1
    BY <2>1, LayoutBounds DEF IInv, TypeOK, FrameInv
  <2>3. pc = "first" /\ pc' = "idle" /\ owned' = owned
    BY DEF Refused
  <2>4. FirstFinds \/ FirstFails
    BY <2>3 DEF Next, Step, Halted, vars, InitPmm, InitPmmFails, FirstSkips,
                ContigSkips, ContigFinds, ContigFails, AllocFirstFrame,
                AllocContiguous, FreeFrame, WriteFrame
  <2>5. ~FirstFinds
    BY <2>2, <2>3 DEF FirstFinds, PageIsUsed
  <2>6. scan = last_used
    BY <2>4, <2>5 DEF FirstFails
  <2> QED
    BY <2>2, <2>3, <2>6 DEF ScanInv
<1> QED
  BY AlwaysScan, <1>1, PTL DEF Spec, FirstNullMeansNone

\* When AllocContiguous gives up, no run of num_pages + 1 free frames starts
\* at frame 2 or later away from the cursor.
THEOREM ContigNull ==
  ASSUME AllCovered
  PROVE  Spec => ContigNullMeansNone
<1> DEFINE A == Refused("contig") =>
                   \A head \in 2 .. num_entries(memmap) :
                      head # last_used => ~(Checked(head) \subseteq free)
<1>1. IInv /\ ScanInv /\ [Next]_vars => [A]_vars
  <2> SUFFICES ASSUME IInv, ScanInv, Next, Refused("contig"),
                      NEW head \in 2 .. num_entries(memmap), head # last_used
               PROVE  ~(Checked(head) \subseteq free)
    BY DEF vars
  <2>1. WellFormed(memmap)
    BY PmmMaps DEF IInv, TypeOK
  <2>2. /\ num_entries(memmap) \in Nat \ {0}
        /\ last_used \in 0 .. num_entries(memmap)
        /\ free \cap (0 .. num_entries(memmap) + 1)
              \subseteq SafePool(memmap) \ owned
        /\ scan \in 0 .. num_entries(memmap) + 1
        /\ pages \in Nat
    BY <2>1, LayoutBounds DEF IInv, TypeOK, FrameInv
  <2>3. pc = "contig" /\ pc' = "idle" /\ owned' = owned /\ pages > 0
    BY DEF Refused, IInv, CallInv
  <2>4. ContigFinds \/ ContigFails
    BY <2>3 DEF Next, Step, Halted, vars, InitPmm, InitPmmFails, FirstSkips,
                ContigSkips, FirstFinds, FirstFails, AllocFirstFrame,
                AllocContiguous, FreeFrame, WriteFrame
  <2>5. ~ContigFinds
    <3> SUFFICES ASSUME ContigFinds PROVE FALSE
      OBVIOUS
    <3>1. scan \in scan .. scan + pages /\ scan \in scan .. scan + pages - 1
      BY <2>2, <2>3
    <3>2. scan \in free
      BY <3>1 DEF ContigFinds, PageIsUsed, Checked
    <3>3. scan \in owned
      BY <3>1, <2>3 DEF ContigFinds
    <3> QED
      BY <3>2, <3>3, <2>2
  <2>6. scan = last_used
    BY <2>4, <2>5 DEF ContigFails
  <2>7. NoRunIn(last_used + 1 .. num_entries(memmap)) /\ NoRunIn(2 .. last_used - 1)
    BY <2>2, <2>3, <2>6 DEF ScanInv
  <2> QED
    BY <2>2, <2>7 DEF NoRunIn
<1> QED
  BY AlwaysScan, <1>1, PTL DEF Spec, ContigNullMeansNone
=============================================================================
