---------------------------- MODULE KHeapProofs -----------------------------
(***************************************************************************)
(* Proofs about KHeap, for every heap and every set of sizes that are      *)
(* multiples of the two tags once rounded (Aligned), as those of pointers  *)
(* and directory entries are.  A heap larger than SIZE_MASK expresses is   *)
(* sound as long as the last block within the reach of the mask is free    *)
(* (InReach); a smaller one is sound without a condition.                  *)
(*                                                                         *)
(* With one caller krealloc is sound as well, for every size but the one   *)
(* whose inner footer meets the outer one (NoClash).                       *)
(***************************************************************************)
EXTENDS KHeap, NumberFacts

\* The sizes for which split_block never leaves a remainder without room for
\* its tags, and never meets a block whose size exceeds the mask.
Aligned ==
    \A size \in Sizes : /\ RoundUp(size) % MDATA_SIZE = 0
                        /\ HEAP_SIZE <= Span \/ RoundUp(size) <= Limit - MDATA_SIZE

\* The block that ends at Limit is not handed out if the heap goes on there.
InReach == HEAP_SIZE <= Span \/ ~Allocated(mem, Limit - FOOTER_SIZE)

-----------------------------------------------------------------------------
(* Half-words and tags. *)

Memory == [HalfWords -> 0 .. Span - 1]

\* The offsets of tags.
Places == {o \in 0 .. HEAP_SIZE - 4 : o % 4 = 0}

Low(m, o) == HalfWord(m, o \div 2)
High(m, o) == HalfWord(m, o \div 2 + 1)

\* The constants as numbers.
LEMMA SizeFacts ==
  /\ Span \in Nat /\ Span >= 16 /\ Span % 8 = 0
  /\ HEAP_SIZE \in Nat /\ HEAP_SIZE >= 16 /\ HEAP_SIZE % 8 = 0
BY HeapConstants

\* The remainder of a multiple of 8 by another one is a multiple of 8.
LEMMA ModOfMultiples ==
  ASSUME NEW a \in Nat, NEW b \in Nat \ {0}, a % 8 = 0, b % 8 = 0
  PROVE  a % b \in 0 .. b - 8 /\ (a % b) % 8 = 0
<1> DEFINE q == a \div b
           r == a % b
           k == b \div 8
<1>1. a = b * q + r /\ r \in 0 .. b - 1 /\ q \in Nat
  OBVIOUS
<1>2. b = 8 * k /\ k \in Nat
  OBVIOUS
<1> HIDE DEF q, r, k
<1>3. b * q = 8 * (k * q) /\ k * q \in Nat
  BY <1>1, <1>2
<1> DEFINE w == k * q
<1>4. a = 8 * w + r /\ w \in Nat
  BY <1>1, <1>3
<1> HIDE DEF w
<1>5. r % 8 = 0
  BY <1>1, <1>4
<1>6. r \in 0 .. b - 8
  BY <1>1, <1>2, <1>5
<1> QED BY <1>5, <1>6 DEF r

\* Limit is the end of the heap, or the end of what the mask reaches.
LEMMA LimitFacts ==
  /\ Limit \in Nat /\ Limit % 8 = 0 /\ Limit >= 8
  /\ Limit <= Span /\ Limit <= HEAP_SIZE
  /\ (HEAP_SIZE - 8) % Span = Limit - 8
  /\ HEAP_SIZE <= Span => Limit = HEAP_SIZE
  /\ HEAP_SIZE > Span => Limit + 8 <= HEAP_SIZE
<1> DEFINE a == HEAP_SIZE - 8
           r == a % Span
<1>1. a \in Nat /\ a % 8 = 0
  BY SizeFacts
<1>2. r \in 0 .. Span - 8 /\ r % 8 = 0
  <2>1. Span \in Nat \ {0} /\ Span % 8 = 0
    BY SizeFacts
  <2> HIDE DEF a
  <2> QED BY <1>1, <2>1, ModOfMultiples
<1>3. Limit = r + 8
  BY DEF Limit, MDATA_SIZE
<1>4. CASE HEAP_SIZE <= Span
  <2>1. r = a
    BY <1>1, <1>4, SizeFacts
  <2> HIDE DEF r
  <2> QED BY <1>2, <1>3, <1>4, <2>1, SizeFacts DEF r
<1>5. CASE HEAP_SIZE > Span
  <2> HIDE DEF r
  <2>1. HEAP_SIZE >= Span + 8
    BY <1>5, SizeFacts
  <2> QED BY <1>2, <1>3, <1>5, <2>1, SizeFacts DEF r
<1> QED BY <1>4, <1>5, SizeFacts

\* A tag has two half-words of its own.
LEMMA PlaceFacts ==
  ASSUME NEW o \in Places
  PROVE  /\ o \div 2 \in HalfWords /\ o \div 2 + 1 \in HalfWords
         /\ o = 2 * (o \div 2)
         /\ \A p \in Places : /\ o \div 2 # p \div 2 + 1
                              /\ p # o => o \div 2 # p \div 2
<1>1. o \in 0 .. HEAP_SIZE - 4 /\ o % 4 = 0
  BY DEF Places
<1>2. o \div 2 \in HalfWords /\ o \div 2 + 1 \in HalfWords /\ o = 2 * (o \div 2)
  BY <1>1, SizeFacts DEF HalfWords
<1>3. ASSUME NEW p \in Places
      PROVE  o \div 2 # p \div 2 + 1 /\ (p # o => o \div 2 # p \div 2)
  BY <1>1, SizeFacts DEF Places
<1> QED BY <1>2, <1>3

\* Half-words are numbers, inside the heap and outside.
LEMMA HalfWordRange ==
  ASSUME NEW m \in Memory, NEW h
  PROVE  HalfWord(m, h) \in 0 .. Span - 1
BY SizeFacts DEF HalfWord, Memory

\* The size and the bit of a tag determine its low half-word.
LEMMA TagParts ==
  ASSUME NEW m \in Memory, NEW o
  PROVE  /\ Low(m, o) \in 0 .. Span - 1 /\ High(m, o) \in 0 .. Span - 1
         /\ Masked(m, o) \in 0 .. Span - 1
         /\ Allocated(m, o) => Low(m, o) = Masked(m, o) + 1
         /\ ~Allocated(m, o) => Low(m, o) = Masked(m, o)
<1> DEFINE l == Low(m, o)
<1>1. l \in 0 .. Span - 1 /\ High(m, o) \in 0 .. Span - 1
  BY HalfWordRange DEF Low, High
<1>2. Masked(m, o) = (l \div 2) * 2 /\ (Allocated(m, o) <=> l % 2 = 1)
  BY DEF Masked, Allocated, Low
<1> HIDE DEF l
<1>3. (l \div 2) * 2 \in 0 .. Span - 1
  BY <1>1, SizeFacts
<1>4. (l % 2 = 1 => l = (l \div 2) * 2 + 1) /\ (~(l % 2 = 1) => l = (l \div 2) * 2)
  BY <1>1, SizeFacts
<1> QED BY <1>1, <1>2, <1>3, <1>4 DEF l

\* ... and the other way round.
LEMMA TagOfSize ==
  ASSUME NEW m, NEW o, NEW s \in Nat, s % 2 = 0
  PROVE  /\ Low(m, o) = s => Masked(m, o) = s /\ ~Allocated(m, o)
         /\ Low(m, o) = s + 1 => Masked(m, o) = s /\ Allocated(m, o)
<1> DEFINE l == Low(m, o)
<1>1. Masked(m, o) = (l \div 2) * 2 /\ (Allocated(m, o) <=> l % 2 = 1)
  BY DEF Masked, Allocated, Low
<1> HIDE DEF l
<1> QED BY <1>1 DEF l

\* What Put writes and what it leaves alone.
LEMMA PutTag ==
  ASSUME NEW m \in Memory, NEW o \in Places, NEW tag \in 0 .. Span - 1
  PROVE  /\ Put(m, o, tag) \in Memory
         /\ Low(Put(m, o, tag), o) = tag
         /\ High(Put(m, o, tag), o) = 0
         /\ \A p \in Places \ {o} : /\ Low(Put(m, o, tag), p) = Low(m, p)
                                    /\ High(Put(m, o, tag), p) = High(m, p)
         /\ \A h \in HalfWords : 2 * h # o /\ 2 * h # o + 2 => Put(m, o, tag)[h] = m[h]
<1> DEFINE k == o \div 2
<1>1. tag % Span = tag /\ (tag \div Span) % Span = 0
  <2>1. tag % Span = tag /\ tag \div Span = 0
    BY SizeFacts
  <2> QED BY <2>1, SizeFacts
<1>2. /\ k \in HalfWords /\ k + 1 \in HalfWords /\ o = 2 * k /\ k \in Int
      /\ \A p \in Places : p # o => /\ p \div 2 \in HalfWords /\ p \div 2 + 1 \in HalfWords
                                    /\ p \div 2 \in Int
                                    /\ p \div 2 # k /\ p \div 2 # k + 1
                                    /\ p \div 2 + 1 # k
  BY PlaceFacts DEF HalfWords
<1>3. Put(m, o, tag) = [h \in HalfWords |-> IF h = k THEN tag ELSE IF h = k + 1 THEN 0 ELSE m[h]]
  BY <1>1 DEF Put
<1> HIDE DEF k
<1>4. Put(m, o, tag) \in Memory
  BY <1>3, SizeFacts DEF Memory
<1>5. Put(m, o, tag)[k] = tag /\ Put(m, o, tag)[k + 1] = 0
  BY <1>2, <1>3
<1>6. \A p \in Places \ {o} : /\ Put(m, o, tag)[p \div 2] = m[p \div 2]
                              /\ Put(m, o, tag)[p \div 2 + 1] = m[p \div 2 + 1]
  BY <1>2, <1>3
<1>7. \A h \in HalfWords : 2 * h # o /\ 2 * h # o + 2 => Put(m, o, tag)[h] = m[h]
  <2>1. \A h \in HalfWords : h \in Int
    BY DEF HalfWords
  <2> TAKE h \in HalfWords
  <2> HAVE 2 * h # o /\ 2 * h # o + 2
  <2>2. h # k /\ h # k + 1
    BY <1>2, <2>1
  <2> QED BY <1>3, <2>2
<1>8. Low(Put(m, o, tag), o) = tag /\ High(Put(m, o, tag), o) = 0
  BY <1>2, <1>5 DEF Low, High, HalfWord, k
<1>9. \A p \in Places \ {o} : /\ Low(Put(m, o, tag), p) = Low(m, p)
                              /\ High(Put(m, o, tag), p) = High(m, p)
  BY <1>2, <1>6 DEF Low, High, HalfWord
<1> QED BY <1>4, <1>7, <1>8, <1>9

\* m2 is m with val in the len bytes from o.
Filled(m, m2, o, len, val) ==
    \A h \in HalfWords : /\ o <= 2 * h /\ 2 * h < o + len => m2[h] = val
                         /\ 2 * h < o \/ 2 * h >= o + len => m2[h] = m[h]

\* What memset writes and what it leaves alone.
LEMMA MemsetWords ==
  ASSUME NEW m \in Memory, NEW o \in Nat, NEW len \in Nat, NEW val \in 0 .. Span - 1,
         o % 4 = 0, len % 4 = 0
  PROVE  /\ memset(m, o, val, len) \in Memory
         /\ Filled(m, memset(m, o, val, len), o, len, val)
<1>1. ASSUME NEW h \in HalfWords
      PROVE  h \in o \div 2 .. (o + len) \div 2 - 1 <=> o <= 2 * h /\ 2 * h < o + len
  <2>1. h \in Int
    BY DEF HalfWords
  <2> QED BY <2>1
<1>2. memset(m, o, val, len) \in Memory
  BY DEF memset, Memory
<1>3. \A h \in HalfWords : memset(m, o, val, len)[h]
                              = IF h \in o \div 2 .. (o + len) \div 2 - 1 THEN val ELSE m[h]
  BY DEF memset
<1>4. \A h \in HalfWords : h \in Int
  BY DEF HalfWords
<1> QED BY <1>1, <1>2, <1>3, <1>4 DEF Filled

\* Two memories agree outside of the bytes lo .. hi - 1.
Outside(m, m2, lo, hi) ==
    /\ \A p \in Places : p < lo \/ p >= hi => Low(m2, p) = Low(m, p) /\ High(m2, p) = High(m, p)
    /\ \A h \in HalfWords : 2 * h < lo \/ 2 * h >= hi => m2[h] = m[h]

\* It is enough to compare half-words.
LEMMA OutsideWords ==
  ASSUME NEW m, NEW m2, NEW lo \in Nat, NEW hi \in Nat, lo % 4 = 0, hi % 4 = 0,
         \A h \in HalfWords : 2 * h < lo \/ 2 * h >= hi => m2[h] = m[h]
  PROVE  Outside(m, m2, lo, hi)
<1> SUFFICES ASSUME NEW p \in Places, p < lo \/ p >= hi
             PROVE  Low(m2, p) = Low(m, p) /\ High(m2, p) = High(m, p)
  BY DEF Outside
<1> DEFINE k == p \div 2
<1>1. k \in HalfWords /\ k + 1 \in HalfWords /\ p = 2 * k /\ k \in Int
  BY PlaceFacts DEF HalfWords
<1>2. p % 4 = 0 /\ p \in Int
  BY DEF Places
<1> HIDE DEF k
<1>3. 2 * k < lo \/ 2 * k >= hi
  BY <1>1
<1>4. 2 * (k + 1) < lo \/ 2 * (k + 1) >= hi
  BY <1>1, <1>2
<1>5. m2[k] = m[k] /\ m2[k + 1] = m[k + 1]
  BY <1>1, <1>3, <1>4
<1> QED BY <1>1, <1>5 DEF Low, High, HalfWord, k

\* Agreement is transitive, and weaker for a larger range.
LEMMA OutsideTrans ==
  ASSUME NEW m, NEW m2, NEW m3, NEW lo \in Int, NEW hi \in Int,
         NEW lo2 \in Int, NEW hi2 \in Int, lo <= lo2, hi2 <= hi,
         Outside(m, m2, lo, hi), Outside(m2, m3, lo2, hi2)
  PROVE  Outside(m, m3, lo, hi)
<1>1. \A p \in Places : p \in Int
  BY DEF Places
<1>2. \A h \in HalfWords : h \in Int
  BY DEF HalfWords
<1>3. ASSUME NEW p \in Places, p < lo \/ p >= hi
      PROVE  Low(m3, p) = Low(m, p) /\ High(m3, p) = High(m, p)
  <2>1. p < lo2 \/ p >= hi2
    BY <1>1, <1>3
  <2> QED BY <1>3, <2>1 DEF Outside
<1>4. ASSUME NEW h \in HalfWords, 2 * h < lo \/ 2 * h >= hi
      PROVE  m3[h] = m[h]
  <2>1. 2 * h < lo2 \/ 2 * h >= hi2
    BY <1>2, <1>4
  <2> QED BY <1>4, <2>1 DEF Outside
<1> QED BY <1>3, <1>4 DEF Outside

\* Put changes the four bytes of its tag.
LEMMA PutOutside ==
  ASSUME NEW m \in Memory, NEW o \in Places, NEW tag \in 0 .. Span - 1
  PROVE  Outside(m, Put(m, o, tag), o, o + 4)
<1>1. \A p \in Places : p \in Int /\ p % 4 = 0
  BY DEF Places
<1>2. \A h \in HalfWords : h \in Int
  BY DEF HalfWords
<1>3. \A p \in Places : p < o \/ p >= o + 4 => p # o
  BY <1>1
<1>4. \A h \in HalfWords : 2 * h < o \/ 2 * h >= o + 4 => 2 * h # o /\ 2 * h # o + 2
  BY <1>1, <1>2
<1> QED BY <1>3, <1>4, PutTag DEF Outside

-----------------------------------------------------------------------------
(* Walking along the headers. *)

\* Walk is what its recursive definition says.
LEMMA WalkSteps ==
  ASSUME NEW m \in Memory, NEW stop
  PROVE  /\ Walk(m, stop) \in [0 .. Iterations -> Nat]
         /\ Walk(m, stop)[0] = 0
         /\ \A i \in 1 .. Iterations :
               Walk(m, stop)[i] = IF Walk(m, stop)[i - 1] \in stop THEN Walk(m, stop)[i - 1]
                                  ELSE Walk(m, stop)[i - 1] + Masked(m, Walk(m, stop)[i - 1]) + MDATA_SIZE
<1> DEFINE go(o) == IF o \in stop THEN o ELSE o + Masked(m, o) + MDATA_SIZE
           step == [x \in (0 .. Iterations) \X Nat |-> go(x[2])]
           Is(f) == f = [i \in 0 .. Iterations |-> IF i = 0 THEN 0 ELSE go(f[i - 1])]
<1>1. Iterations \in Nat
  BY SizeFacts DEF Iterations, MDATA_SIZE
<1>2. \A o \in Nat : go(o) \in Nat
  BY TagParts, SizeFacts DEF MDATA_SIZE
<1> HIDE DEF go
<1>3. step \in [(0 .. Iterations) \X Nat -> Nat]
  BY <1>2
<1>4. PICK f \in [0 .. Iterations -> Nat] : Recurs(f, Iterations, 0, step)
  <2> HIDE DEF step
  <2> QED BY <1>1, <1>3, Recursion
<1>5. \A i \in 1 .. Iterations : step[<<i, f[i - 1]>>] = go(f[i - 1])
  BY <1>1
<1>6. f[0] = 0 /\ \A i \in 1 .. Iterations : f[i] = step[<<i, f[i - 1]>>]
  BY <1>4, Zenon DEF Recurs
<1>7. Is(f)
  <2>1. ASSUME NEW i \in 0 .. Iterations
        PROVE  f[i] = IF i = 0 THEN 0 ELSE go(f[i - 1])
    <3>1. CASE i = 0
      BY <1>6, <3>1, Zenon
    <3>2. CASE i # 0
      <4>1. i \in 1 .. Iterations
        BY <1>1, <3>2
      <4> QED BY <1>5, <1>6, <3>2, <4>1
    <3> QED BY <3>1, <3>2
  <2> QED BY <2>1
<1>8. Walk(m, stop) = CHOOSE g : Is(g)
  BY DEF Walk, go
<1>9. Is(Walk(m, stop))
  <2> HIDE DEF Is
  <2> QED BY <1>7, <1>8
<1> DEFINE w == Walk(m, stop)
<1> HIDE DEF w
<1>10. w = [i \in 0 .. Iterations |-> IF i = 0 THEN 0 ELSE go(w[i - 1])]
  BY <1>9 DEF w
<1>11. w[0] = 0
  <2>1. 0 \in 0 .. Iterations
    BY <1>1
  <2> QED BY <1>10, <2>1
<1>12. \A i \in 1 .. Iterations : w[i] = go(w[i - 1])
  <2> TAKE i \in 1 .. Iterations
  <2>1. i \in 0 .. Iterations /\ i # 0
    BY <1>1
  <2> QED BY <1>10, <2>1
<1> DEFINE S == {i \in 0 .. Iterations : w[i] \in Nat}
<1>13. 0 .. Iterations \subseteq S
  <2>1. 0 \in S
    BY <1>1, <1>11
  <2>2. ASSUME NEW i \in 0 .. Iterations - 1, i \in S PROVE i + 1 \in S
    <3>1. i + 1 \in 1 .. Iterations /\ (i + 1) - 1 = i /\ i + 1 \in 0 .. Iterations
      BY <1>1
    <3>2. w[i + 1] = go(w[i])
      BY <1>12, <3>1
    <3> QED BY <1>2, <2>2, <3>1, <3>2
  <2> HIDE DEF S
  <2> QED BY <1>1, <2>1, <2>2, UpTo
<1>14. w \in [0 .. Iterations -> Nat]
  BY <1>10, <1>13
<1> QED BY <1>11, <1>12, <1>14 DEF go, w

-----------------------------------------------------------------------------
(* The blocks.  H is the set of headers, Limit included; A are the headers *)
(* of the allocated blocks.                                                *)

NextOf(m, o) == o + Masked(m, o) + 8
FootOf(m, o) == o + Masked(m, o) + 4

\* From each header the size leads to the next one.
Tiled(m, H) ==
    /\ H \subseteq 0 .. Limit
    /\ \A o \in H : o % 8 = 0
    /\ 0 \in H /\ Limit \in H
    /\ \A o \in H \ {Limit} :
          /\ NextOf(m, o) \in H
          /\ \A p \in H : p <= o \/ NextOf(m, o) <= p

\* The header is a size that the mask shows in full, and the footer agrees.
Tagged(m, o) == High(m, o) = 0 /\ Low(m, FootOf(m, o)) = Low(m, o)

\* init_heap's block in a heap that is larger than the mask shows: its footer
\* is not where the mask leads.
Pristine(m) ==
    /\ HEAP_SIZE > Span
    /\ Masked(m, 0) = Limit - 8
    /\ ~Allocated(m, 0)
    /\ ~Allocated(m, Limit - 4)

Heap(m, H, A) ==
    /\ m \in Memory
    /\ Tiled(m, H)
    /\ A = {o \in H \ {Limit} : Allocated(m, o)}
    /\ \A o \in H \ {Limit} : Tagged(m, o) \/ (o = 0 /\ Pristine(m))
    /\ \A h \in HalfWords : Limit <= 2 * h /\ 2 * h < HEAP_SIZE - 4 => m[h] = 0

\* A block lies inside the heap, and its tags are at places of tags.
LEMMA BlockFacts ==
  ASSUME NEW m, NEW H, NEW A, Heap(m, H, A), NEW o \in H \ {Limit}
  PROVE  /\ o \in Nat /\ o % 8 = 0 /\ o + 8 <= Limit
         /\ Masked(m, o) \in Nat /\ Masked(m, o) % 8 = 0
         /\ o + Masked(m, o) + 8 <= Limit
         /\ NextOf(m, o) \in H /\ NextOf(m, o) \in Nat /\ NextOf(m, o) % 8 = 0
         /\ o \in Places /\ FootOf(m, o) \in Places
<1>1. m \in Memory /\ Tiled(m, H)
  BY DEF Heap
<1>2. o \in 0 .. Limit /\ o # Limit /\ o % 8 = 0
  BY <1>1 DEF Tiled
<1>3. Masked(m, o) \in Nat
  BY <1>1, TagParts, SizeFacts
<1>4. NextOf(m, o) \in H /\ NextOf(m, o) \in 0 .. Limit /\ NextOf(m, o) % 8 = 0
  BY <1>1 DEF Tiled
<1> DEFINE s == Masked(m, o)
<1>5. s \in Nat /\ o + s + 8 <= Limit /\ (o + s + 8) % 8 = 0
  BY <1>3, <1>4, LimitFacts DEF NextOf
<1> HIDE DEF s
<1>6. s % 8 = 0
  BY <1>2, <1>5
<1>7. o \in Places
  BY <1>2, <1>5, LimitFacts, SizeFacts DEF Places
<1>8. o + s + 4 \in Places
  BY <1>2, <1>5, <1>6, LimitFacts, SizeFacts DEF Places
<1> QED BY <1>2, <1>4, <1>5, <1>6, <1>7, <1>8, LimitFacts DEF s, FootOf

\* Blocks do not overlap.
LEMMA BlocksApart ==
  ASSUME NEW m, NEW H, NEW A, Heap(m, H, A), NEW o \in H \ {Limit}, NEW p \in H
  PROVE  p <= o \/ NextOf(m, o) <= p
BY DEF Heap, Tiled

\* Every header but the first has a block before it.
LEMMA Predecessor ==
  ASSUME NEW m, NEW H, NEW A, Heap(m, H, A), NEW o \in H, o # 0
  PROVE  \E p \in H \ {Limit} : p < o /\ NextOf(m, p) = o
<1> DEFINE B == {q \in H : q < o}
<1>1. H \subseteq 0 .. Limit /\ 0 \in H /\ Limit \in Nat
  BY LimitFacts DEF Heap, Tiled
<1>2. B \in SUBSET (0 .. Limit) /\ 0 \in B
  <2>1. o \in 0 .. Limit
    BY <1>1
  <2>2. 0 < o
    BY <1>1, <2>1
  <2> QED BY <1>1, <2>2
<1>3. Max(B) \in B /\ \A y \in B : y <= Max(B)
  <2> HIDE DEF B
  <2> QED BY <1>1, <1>2, MaxOfNaturals
<1>4. PICK p \in B : \A y \in B : y <= p
  BY <1>3
<1>5. p \in H /\ p < o /\ p \in Nat /\ o \in Nat /\ o <= Limit
  BY <1>1, <1>4
<1>6. p \in H \ {Limit}
  BY <1>1, <1>5
<1>7. NextOf(m, p) \in H /\ NextOf(m, p) <= o /\ NextOf(m, p) > p /\ NextOf(m, p) \in Nat
  BY <1>5, <1>6, BlockFacts, BlocksApart DEF NextOf
<1>8. NextOf(m, p) = o
  <2>1. ~(NextOf(m, p) < o)
    BY <1>4, <1>5, <1>7
  <2> QED BY <1>5, <1>7, <2>1
<1> QED BY <1>5, <1>6, <1>8

\* The blocks outside of a range that is rewritten keep their tags.
LEMMA BlocksKept ==
  ASSUME NEW m, NEW H, NEW A, Heap(m, H, A), NEW m2 \in Memory,
         NEW b \in H, NEW e \in H, b < e, Outside(m, m2, b, e),
         NEW o \in H \ {Limit}, o < b \/ o >= e
  PROVE  /\ Masked(m2, o) = Masked(m, o)
         /\ Allocated(m2, o) = Allocated(m, o)
         /\ Tagged(m, o) => Tagged(m2, o)
         /\ \A h \in HalfWords : o <= 2 * h /\ 2 * h < NextOf(m, o) => m2[h] = m[h]
<1>1. /\ o \in Nat /\ Masked(m, o) \in Nat /\ o \in Places /\ FootOf(m, o) \in Places
  BY BlockFacts
<1>2. b \in Nat /\ e \in Nat
  BY LimitFacts DEF Heap, Tiled
<1>3. o < b => NextOf(m, o) <= b
  BY <1>1, <1>2, BlocksApart
<1>4. FootOf(m, o) < b \/ FootOf(m, o) >= e
  BY <1>1, <1>2, <1>3 DEF NextOf, FootOf
<1>5. Low(m2, o) = Low(m, o) /\ High(m2, o) = High(m, o)
  BY <1>1 DEF Outside
<1>6. Low(m2, FootOf(m, o)) = Low(m, FootOf(m, o))
  BY <1>1, <1>4 DEF Outside
<1>7. Masked(m2, o) = Masked(m, o) /\ Allocated(m2, o) = Allocated(m, o)
  BY <1>5 DEF Masked, Allocated, Low
<1>8. FootOf(m2, o) = FootOf(m, o)
  BY <1>7 DEF FootOf
<1>9. Tagged(m, o) => Tagged(m2, o)
  BY <1>5, <1>6, <1>8 DEF Tagged
<1>10. ASSUME NEW h \in HalfWords, o <= 2 * h, 2 * h < NextOf(m, o)
       PROVE  m2[h] = m[h]
  <2>1. h \in Int
    BY DEF HalfWords
  <2>2. 2 * h < b \/ 2 * h >= e
    BY <1>1, <1>2, <1>3, <1>10, <2>1 DEF NextOf
  <2> QED BY <2>2 DEF Outside
<1> QED BY <1>7, <1>9, <1>10

\* Only the sole block can be pristine.
LEMMA PristineSole ==
  ASSUME NEW m, NEW H, NEW A, Heap(m, H, A), Pristine(m)
  PROVE  H = {0, Limit}
<1>1. 0 \in H \ {Limit} /\ Limit \in H
  BY LimitFacts DEF Heap, Tiled
<1>2. NextOf(m, 0) = Limit
  BY LimitFacts DEF NextOf, Pristine
<1>3. \A p \in H : p <= 0 \/ Limit <= p
  BY <1>1, <1>2, BlocksApart
<1>4. \A p \in H : p \in 0 .. Limit
  BY DEF Heap, Tiled
<1>5. \A p \in H : p = 0 \/ p = Limit
  BY <1>3, <1>4, LimitFacts
<1> QED BY <1>1, <1>5

(***************************************************************************)
(* Rewriting the blocks from b up to e, both headers, leaves a heap if the *)
(* new blocks N tile that range and are tagged.                            *)
(***************************************************************************)
LEMMA Rebuild ==
  ASSUME NEW m, NEW H, NEW A, Heap(m, H, A), NEW m2 \in Memory,
         NEW b \in H, NEW e \in H, b < e, Outside(m, m2, b, e),
         NEW N \in SUBSET (b .. e - 1), b \in N,
         \A o \in N : /\ o % 8 = 0
                      /\ NextOf(m2, o) \in N \cup {e}
                      /\ \A p \in N \cup {e} : p <= o \/ NextOf(m2, o) <= p
                      /\ Tagged(m2, o)
  PROVE  Heap(m2, {o \in H : o < b \/ o >= e} \cup N,
                  {o \in A : o < b \/ o >= e} \cup {o \in N : Allocated(m2, o)})
<1> DEFINE K == {o \in H : o < b \/ o >= e}
           H2 == K \cup N
           A2 == {o \in A : o < b \/ o >= e} \cup {o \in N : Allocated(m2, o)}
<1>1. /\ H \subseteq 0 .. Limit /\ 0 \in H /\ Limit \in H /\ \A o \in H : o % 8 = 0
  BY DEF Heap, Tiled
<1>2. b \in Nat /\ e \in Nat /\ e <= Limit /\ Limit \in Nat
  BY <1>1, LimitFacts
<1>3. \A o \in N : o \in Nat /\ b <= o /\ o < e /\ o # Limit
  BY <1>2
<1>4. H2 \subseteq 0 .. Limit /\ 0 \in H2 /\ Limit \in H2 /\ e \in K
  <2>1. H2 \subseteq 0 .. Limit
    <3>1. \A o \in N : o \in 0 .. Limit
      BY <1>2, <1>3
    <3> QED BY <1>1, <3>1
  <2>2. 0 \in H2
    <3>1. CASE b = 0
      BY <3>1
    <3>2. CASE b # 0
      BY <1>1, <1>2, <3>2
    <3> QED BY <3>1, <3>2
  <2>3. Limit \in H2 /\ e \in K
    BY <1>1, <1>2
  <2> QED BY <2>1, <2>2, <2>3
<1>5. \A o \in H2 : o % 8 = 0
  BY <1>1
<1>6. ASSUME NEW o \in K \ {Limit}
      PROVE  /\ NextOf(m2, o) = NextOf(m, o)
             /\ Allocated(m2, o) = Allocated(m, o)
             /\ Tagged(m2, o)
             /\ NextOf(m2, o) \in H2
             /\ \A p \in H2 : p <= o \/ NextOf(m2, o) <= p
  <2>1. o \in H \ {Limit} /\ (o < b \/ o >= e)
    OBVIOUS
  <2>2. NextOf(m2, o) = NextOf(m, o) /\ Allocated(m2, o) = Allocated(m, o)
    BY <2>1, BlocksKept DEF NextOf
  <2>3. Tagged(m, o)
    <3> SUFFICES ASSUME o = 0, Pristine(m) PROVE FALSE
      BY <2>1 DEF Heap
    <3>1. H = {0, Limit}
      BY PristineSole
    <3> QED BY <1>2, <2>1, <3>1, LimitFacts
  <2>4. Tagged(m2, o)
    BY <2>1, <2>3, BlocksKept
  <2>5. /\ NextOf(m, o) \in H /\ NextOf(m, o) \in Nat /\ o \in Nat
        /\ o < NextOf(m, o)
        /\ \A p \in H : p <= o \/ NextOf(m, o) <= p
    BY <2>1, BlockFacts, BlocksApart DEF NextOf
  <2>6. o < b => NextOf(m, o) <= b
    BY <1>2, <2>5
  <2>7. NextOf(m, o) \in H2
    <3>1. CASE NextOf(m, o) = b
      BY <3>1
    <3>2. CASE NextOf(m, o) # b
      <4>1. NextOf(m, o) < b \/ NextOf(m, o) >= e
        BY <1>2, <2>1, <2>5, <2>6, <3>2
      <4> QED BY <2>5, <4>1
    <3> QED BY <3>1, <3>2
  <2>8. ASSUME NEW p \in H2 PROVE p <= o \/ NextOf(m, o) <= p
    <3>1. CASE p \in K
      BY <2>5, <3>1
    <3>2. CASE p \in N
      <4>1. p \in Nat /\ b <= p /\ p < e
        BY <1>3, <3>2
      <4> QED BY <1>2, <2>1, <2>5, <2>6, <4>1
    <3> QED BY <3>1, <3>2
  <2> QED BY <2>2, <2>4, <2>7, <2>8
<1>7. ASSUME NEW o \in N
      PROVE  /\ NextOf(m2, o) \in H2
             /\ \A p \in H2 : p <= o \/ NextOf(m2, o) <= p
  <2>1. NextOf(m2, o) \in H2
    BY <1>4
  <2>2. \A p \in N \cup {e} : p <= o \/ NextOf(m2, o) <= p
    OBVIOUS
  <2>3. NextOf(m2, o) \in Nat /\ NextOf(m2, o) <= e
    <3>1. NextOf(m2, o) \in N \cup {e}
      OBVIOUS
    <3>2. CASE NextOf(m2, o) \in N
      <4> PICK p \in N : p = NextOf(m2, o)
        BY <3>2
      <4>1. p \in Nat /\ p < e
        BY <1>3
      <4> QED BY <1>2, <4>1
    <3>3. CASE NextOf(m2, o) = e
      BY <1>2, <3>3
    <3> QED BY <3>1, <3>2, <3>3
  <2>4. ASSUME NEW p \in K PROVE p <= o \/ NextOf(m2, o) <= p
    <3>1. p \in Nat /\ (p < b \/ p >= e)
      BY <1>1
    <3> QED BY <1>2, <1>3, <2>3, <3>1
  <2> QED BY <2>1, <2>2, <2>4
<1>8. H2 \ {Limit} = (K \ {Limit}) \cup N
  BY <1>3
<1> HIDE DEF H2
<1>9. Tiled(m2, H2)
  BY <1>4, <1>5, <1>6, <1>7, <1>8 DEF Tiled
<1>10. A2 = {o \in H2 \ {Limit} : Allocated(m2, o)}
  <2>1. A = {o \in H \ {Limit} : Allocated(m, o)}
    BY DEF Heap
  <2>2. {o \in A : o < b \/ o >= e} = {o \in K \ {Limit} : Allocated(m2, o)}
    BY <1>6, <2>1
  <2> HIDE DEF K
  <2> QED BY <1>8, <2>2
<1>11. \A o \in H2 \ {Limit} : Tagged(m2, o)
  BY <1>6, <1>8
<1>12. ASSUME NEW h \in HalfWords, Limit <= 2 * h, 2 * h < HEAP_SIZE - 4
       PROVE  m2[h] = 0
  <2>1. 2 * h >= e
    BY <1>2, <1>12 DEF HalfWords
  <2>2. m2[h] = m[h]
    BY <2>1 DEF Outside
  <2> QED BY <1>12, <2>2 DEF Heap
<1> HIDE DEF A2, K
<1>13. Heap(m2, H2, A2)
  <2>1. \A o \in H2 \ {Limit} : Tagged(m2, o) \/ (o = 0 /\ Pristine(m2))
    BY <1>11, Zenon
  <2>2. \A h \in HalfWords : Limit <= 2 * h /\ 2 * h < HEAP_SIZE - 4 => m2[h] = 0
    BY <1>12
  <2> QED BY <1>9, <1>10, <2>1, <2>2, Zenon DEF Heap
<1> QED BY <1>13 DEF H2, A2, K

-----------------------------------------------------------------------------
(* kalloc. *)

\* The walk ends outside the heap or at a free block whose tag exceeds size.
LEMMA FirstFitFacts ==
  ASSUME NEW m, NEW H, NEW A, Heap(m, H, A), NEW size \in Nat
  PROVE  /\ FirstFit(m, size) \in Nat
         /\ FirstFit(m, size) < HEAP_SIZE =>
               /\ FirstFit(m, size) \in H \ {Limit}
               /\ ~Allocated(m, FirstFit(m, size))
               /\ Tag(m, FirstFit(m, size)) > size
<1> DEFINE fits == {o \in Offsets : \/ o >= HEAP_SIZE
                                    \/ ~Allocated(m, o) /\ Tag(m, o) > size}
           w == Walk(m, fits)
           \* Where the walk may be: at a header, or in the zeroes behind Limit.
           At(o) == o \in H \/ (o \in Limit .. HEAP_SIZE /\ o % 8 = 0)
           S == {i \in 0 .. Iterations : At(w[i]) /\ (w[i] \in fits \/ w[i] >= 8 * i)}
<1>1. m \in Memory /\ Tiled(m, H) /\ Limit \in Nat /\ Limit <= HEAP_SIZE
  BY LimitFacts DEF Heap
<1>2. /\ w \in [0 .. Iterations -> Nat]
      /\ w[0] = 0
      /\ \A i \in 1 .. Iterations :
            w[i] = IF w[i - 1] \in fits THEN w[i - 1]
                   ELSE w[i - 1] + Masked(m, w[i - 1]) + MDATA_SIZE
  <2> HIDE DEF fits
  <2> QED BY <1>1, WalkSteps
<1>3. Iterations \in Nat /\ 8 * Iterations = HEAP_SIZE
  BY SizeFacts DEF Iterations, MDATA_SIZE
<1>4. FirstFit(m, size) = w[Iterations]
  BY DEF FirstFit
<1>5. ASSUME NEW o \in Limit .. HEAP_SIZE, o % 8 = 0, o \notin fits
      PROVE  Masked(m, o) = 0 /\ o + 8 <= HEAP_SIZE
  <2>1. o \in Offsets /\ o \in Nat
    BY <1>1, SizeFacts DEF Offsets, MDATA_SIZE
  <2>2. o < HEAP_SIZE
    BY <1>5, <2>1, SizeFacts
  <2>3. o + 8 <= HEAP_SIZE /\ o \in Places
    BY <1>5, <2>1, <2>2, SizeFacts DEF Places
  <2> DEFINE k == o \div 2
  <2>4. k \in HalfWords /\ o = 2 * k /\ k \in Int
    BY <2>3, PlaceFacts DEF HalfWords
  <2> HIDE DEF k
  <2>5. m[k] = 0
    <3>1. Limit <= 2 * k /\ 2 * k < HEAP_SIZE - 4
      BY <1>1, <1>5, <2>1, <2>3, <2>4, SizeFacts
    <3> QED BY <2>4, <3>1 DEF Heap
  <2>6. Low(m, o) = 0
    BY <2>4, <2>5 DEF Low, HalfWord, k
  <2> QED BY <2>3, <2>6, TagOfSize
<1> HIDE DEF w, fits
<1>6. 0 .. Iterations \subseteq S
  <2>1. 0 \in S
    <3>1. 0 \in H
      BY <1>1 DEF Tiled
    <3> QED BY <1>2, <1>3, <3>1
  <2>2. ASSUME NEW i \in 0 .. Iterations - 1, i \in S PROVE i + 1 \in S
    <3>1. i + 1 \in 1 .. Iterations /\ (i + 1) - 1 = i /\ i + 1 \in 0 .. Iterations
      BY <1>3
    <3>2. w[i + 1] = IF w[i] \in fits THEN w[i] ELSE w[i] + Masked(m, w[i]) + 8
      BY <1>2, <3>1 DEF MDATA_SIZE
    <3>3. CASE w[i] \in fits
      BY <2>2, <3>1, <3>2, <3>3
    <3>4. CASE w[i] \notin fits
      <4> PICK o \in Nat : o = w[i]
        <5>1. i \in 0 .. Iterations
          BY <1>3
        <5> QED BY <1>2, <5>1
      <4>1. o >= 8 * i /\ o \notin fits /\ At(o)
        BY <2>2, <3>4
      <4>2. w[i + 1] = o + Masked(m, o) + 8
        BY <3>2, <3>4
      <4>3. Masked(m, o) \in Nat
        BY <1>1, TagParts, SizeFacts
      <4>4. At(o + Masked(m, o) + 8)
        <5>1. CASE o \in H \ {Limit}
          <6>1. NextOf(m, o) \in H
            BY <5>1, BlockFacts
          <6> QED BY <6>1 DEF NextOf
        <5>2. CASE o \in Limit .. HEAP_SIZE /\ o % 8 = 0
          <6>1. Masked(m, o) = 0 /\ o + 8 <= HEAP_SIZE
            BY <1>5, <4>1, <5>2
          <6>2. o + 8 \in Limit .. HEAP_SIZE /\ (o + 8) % 8 = 0
            BY <1>1, <5>2, <6>1, SizeFacts
          <6> QED BY <6>1, <6>2
        <5>3. CASE o = Limit
          BY <1>1, <5>2, <5>3, LimitFacts, SizeFacts
        <5> QED BY <4>1, <5>1, <5>2, <5>3
      <4>5. o + Masked(m, o) + 8 >= 8 * (i + 1)
        BY <3>1, <4>1, <4>3
      <4> HIDE DEF At
      <4> QED BY <3>1, <4>2, <4>4, <4>5
    <3> QED BY <3>3, <3>4
  <2> HIDE DEF S
  <2> QED BY <1>3, <2>1, <2>2, UpTo
<1>7. PICK b \in Nat : b = w[Iterations]
  BY <1>2, <1>3
<1>8. At(b) /\ (b \in fits \/ b >= HEAP_SIZE)
  BY <1>3, <1>6, <1>7
<1>9. ASSUME b < HEAP_SIZE
      PROVE  b \in H \ {Limit} /\ ~Allocated(m, b) /\ Tag(m, b) > size
  <2>1. ~Allocated(m, b) /\ Tag(m, b) > size
    BY <1>8, <1>9, SizeFacts DEF fits
  <2>2. ASSUME b \in Limit .. HEAP_SIZE, b % 8 = 0 PROVE FALSE
    <3>1. b + 8 <= HEAP_SIZE /\ b \in Places
      BY <1>9, <2>2, SizeFacts DEF Places
    <3> DEFINE k == b \div 2
    <3>2. k \in HalfWords /\ k + 1 \in HalfWords /\ b = 2 * k /\ k \in Int
      BY <3>1, PlaceFacts DEF HalfWords
    <3> HIDE DEF k
    <3>3. /\ Limit <= 2 * k /\ 2 * k < HEAP_SIZE - 4
          /\ Limit <= 2 * (k + 1) /\ 2 * (k + 1) < HEAP_SIZE - 4
      BY <1>1, <2>2, <3>1, <3>2, SizeFacts
    <3>4. m[k] = 0 /\ m[k + 1] = 0
      BY <3>2, <3>3 DEF Heap
    <3>5. Tag(m, b) = 0
      BY <3>2, <3>4, SizeFacts DEF Tag, HalfWord, k
    <3> QED BY <2>1, <3>5
  <2>3. b # Limit
    BY <1>1, <1>9, <2>2, LimitFacts
  <2> QED BY <1>8, <2>1, <2>2, <2>3
<1> QED BY <1>4, <1>7, <1>9

\* A block that FirstFit finds has room for the size as it is rounded.
LEMMA FitsRounded ==
  ASSUME Aligned, NEW m, NEW H, NEW A, Heap(m, H, A), NEW size \in Sizes,
         NEW b \in H \ {Limit}, ~Allocated(m, b), Tag(m, b) > size
  PROVE  /\ RoundUp(size) \in Nat /\ RoundUp(size) % 8 = 0
         /\ RoundUp(size) <= Masked(m, b)
<1>1. size \in Nat /\ RoundUp(size) \in {size, size + 1}
  BY HeapConstants DEF RoundUp
<1>2. RoundUp(size) % 8 = 0 /\ (HEAP_SIZE <= Span \/ RoundUp(size) <= Limit - 8)
  BY DEF Aligned, MDATA_SIZE
<1>3. m \in Memory /\ Masked(m, b) \in Nat
  BY BlockFacts DEF Heap
<1>4. CASE Tagged(m, b)
  <2>1. Tag(m, b) = Low(m, b)
    BY <1>3, <1>4, TagParts, SizeFacts DEF Tagged, Tag, Low, High
  <2>2. Tag(m, b) = Masked(m, b)
    BY <1>3, <2>1, TagParts
  <2> QED BY <1>1, <1>2, <1>3, <2>2
<1>5. CASE b = 0 /\ Pristine(m)
  BY <1>1, <1>2, <1>5, SizeFacts, LimitFacts DEF Pristine
<1> QED BY <1>4, <1>5 DEF Heap

\* What split_block writes: the tags of the block, and those of the rest.
LEMMA SplitEffect ==
  ASSUME NEW m, NEW H, NEW A, Heap(m, H, A), NEW b \in H \ {Limit},
         NEW a \in Nat, a % 8 = 0, a <= Masked(m, b)
  PROVE  /\ split_block(m, b, a) \in Memory
         /\ Outside(m, split_block(m, b, a), b, NextOf(m, b))
         /\ Low(split_block(m, b, a), b) = a + 1
         /\ High(split_block(m, b, a), b) = 0
         /\ Low(split_block(m, b, a), b + a + 4) = a + 1
         /\ a # Masked(m, b) =>
              /\ a + 8 <= Masked(m, b)
              /\ Low(split_block(m, b, a), b + a + 8) = Masked(m, b) - a - 8
              /\ High(split_block(m, b, a), b + a + 8) = 0
              /\ Low(split_block(m, b, a), FootOf(m, b)) = Masked(m, b) - a - 8
<1> DEFINE s == Masked(m, b)
           e == NextOf(m, b)
           m1 == Put(m, b, a + 1)
           m2 == Put(m1, b + a + 4, a + 1)
           rest == s - a - 8
           m3 == Put(m2, b + a + 8, rest)
           m4 == Put(m3, b + s + 4, rest)
<1>1. /\ m \in Memory /\ b \in Nat /\ b % 8 = 0 /\ s \in Nat /\ s % 8 = 0
      /\ b + s + 8 <= Limit /\ Limit \in Nat /\ Limit <= Span /\ Limit <= HEAP_SIZE
      /\ b \in Places
  BY BlockFacts, LimitFacts DEF Heap
<1>2. e = b + s + 8 /\ FootOf(m, b) = b + s + 4
  BY <1>1 DEF NextOf, FootOf
<1> HIDE DEF s, e
<1>3. a <= s /\ a + 1 \in 0 .. Span - 1 /\ b + a + 4 \in Places /\ b + s + 4 \in Places
  BY <1>1, SizeFacts DEF s, Places
<1>4. /\ m1 \in Memory /\ Low(m1, b) = a + 1 /\ High(m1, b) = 0
      /\ Outside(m, m1, b, b + 4)
  BY <1>1, <1>3, PutTag, PutOutside
<1>5. Tag(m1, b) = a + 1 /\ Masked(m1, b) = a
  <2>1. Tag(m1, b) = a + 1
    BY <1>3, <1>4, SizeFacts DEF Tag, Low, High
  <2> QED BY <1>4, <2>1, TagOfSize
<1>6. /\ next_header(m1, b) = IF b + a + 8 = HEAP_SIZE THEN NULL ELSE b + a + 8
      /\ footer_from_header(m1, b) = b + a + 4
      /\ footer_from_header(m, b) = b + s + 4
  BY <1>1, <1>3, <1>5 DEF next_header, footer_from_header, MDATA_SIZE, HEADER_SIZE, s
<1> HIDE DEF m1
<1>7. /\ m2 \in Memory /\ Low(m2, b) = a + 1 /\ High(m2, b) = 0 /\ Low(m2, b + a + 4) = a + 1
      /\ Outside(m1, m2, b + a + 4, b + a + 8)
  <2>1. b # b + a + 4 /\ b \in Places \ {b + a + 4} /\ (b + a + 4) + 4 = b + a + 8
    BY <1>1
  <2> QED BY <1>3, <1>4, <2>1, PutTag, PutOutside
<1>8. Outside(m, m2, b, e)
  <2>1. Outside(m, m, b, e)
    BY DEF Outside
  <2>2. b <= b /\ b + 4 <= e /\ b <= b + a + 4 /\ b + a + 8 <= e /\ e \in Int
    BY <1>1, <1>2, <1>3
  <2>3. Outside(m, m1, b, e)
    BY <1>1, <1>4, <2>1, <2>2, OutsideTrans
  <2> QED BY <1>1, <1>7, <2>2, <2>3, OutsideTrans
<1> HIDE DEF m2
<1>9. CASE a = s
  <2>1. split_block(m, b, a) = m2
    <3>1. ~(s < a)
      BY <1>1, <1>9
    <3> QED BY <1>5, <1>6, <1>9, <3>1 DEF split_block, m2, m1, s
  <2> QED BY <1>7, <1>8, <1>9, <2>1 DEF s, e
<1>10. CASE a # s
  <2>1. a + 8 <= s /\ rest \in 0 .. Span - 1 /\ b + a + 8 \in Places
    BY <1>1, <1>3, <1>10, SizeFacts DEF Places
  <2>2. b + a + 8 # HEAP_SIZE
    BY <1>1, <2>1, SizeFacts
  <2>3. split_block(m, b, a) = m4
    <3>1. ~(s < a) /\ ~(s < a + 8)
      BY <1>1, <1>3, <2>1
    <3> QED BY <1>5, <1>6, <1>10, <2>2, <3>1 DEF split_block, m4, m3, m2, m1, s, MDATA_SIZE
  <2> HIDE DEF rest
  <2>4. /\ m3 \in Memory /\ Low(m3, b + a + 8) = rest /\ High(m3, b + a + 8) = 0
        /\ Low(m3, b) = a + 1 /\ High(m3, b) = 0 /\ Low(m3, b + a + 4) = a + 1
        /\ Outside(m2, m3, b + a + 8, b + a + 12)
    <3>1. /\ b \in Places \ {b + a + 8} /\ b + a + 4 \in Places \ {b + a + 8}
          /\ (b + a + 8) + 4 = b + a + 12
      BY <1>1, <1>3
    <3> QED BY <1>7, <2>1, <3>1, PutTag, PutOutside
  <2> HIDE DEF m3
  <2>5. /\ m4 \in Memory /\ Low(m4, b + s + 4) = rest
        /\ Low(m4, b + a + 8) = rest /\ High(m4, b + a + 8) = 0
        /\ Low(m4, b) = a + 1 /\ High(m4, b) = 0 /\ Low(m4, b + a + 4) = a + 1
        /\ Outside(m3, m4, b + s + 4, b + s + 8)
    <3>1. /\ b \in Places \ {b + s + 4} /\ b + a + 4 \in Places \ {b + s + 4}
          /\ b + a + 8 \in Places \ {b + s + 4} /\ (b + s + 4) + 4 = b + s + 8
      <4>1. b # b + s + 4 /\ b + a + 4 # b + s + 4 /\ b + a + 8 # b + s + 4
        BY <1>1, <2>1
      <4> QED BY <1>1, <1>3, <2>1, <4>1
    <3> QED BY <1>3, <2>1, <2>4, <3>1, PutTag, PutOutside
  <2> HIDE DEF m4
  <2>6. Outside(m, m4, b, e)
    <3>1. /\ b <= b + a + 8 /\ b + a + 12 <= e /\ b <= b + s + 4 /\ b + s + 8 <= e
          /\ {b, e, b + a + 8, b + a + 12, b + s + 4, b + s + 8} \subseteq Int
      BY <1>1, <1>2, <2>1
    <3>2. Outside(m, m3, b, e)
      BY <1>8, <2>4, <3>1, OutsideTrans
    <3> QED BY <2>5, <3>1, <3>2, OutsideTrans
  <2> QED BY <1>2, <1>10, <2>1, <2>3, <2>5, <2>6 DEF s, e, rest
<1> QED BY <1>9, <1>10

\* No two neighbours are free.
Alternating(m, H, A) ==
    \A o \in H \ {Limit} : o \in A \/ NextOf(m, o) \in A \cup {Limit}

\* The blocks in S keep their sizes and their contents.
Kept(m, m2, S) ==
    \A o \in S :
        /\ Masked(m2, o) = Masked(m, o)
        /\ \A h \in HalfWords : o + 4 <= 2 * h /\ 2 * h < FootOf(m, o) => m2[h] = m[h]

\* What is outside of a block is before it or behind it.
LEMMA BesideBlock ==
  ASSUME NEW m, NEW H, NEW A, Heap(m, H, A), NEW b \in H \ {Limit}, NEW o \in H, o # b
  PROVE  o < b \/ o >= NextOf(m, b)
<1>1. o \in Nat /\ b \in Nat /\ NextOf(m, b) \in Nat
  BY BlockFacts, LimitFacts DEF Heap, Tiled
<1>2. o <= b \/ NextOf(m, b) <= o
  BY BlocksApart
<1> QED BY <1>1, <1>2

\* Rewriting a range of blocks keeps the ones beside it.
LEMMA KeptBeside ==
  ASSUME NEW m, NEW H, NEW A, Heap(m, H, A), NEW m2 \in Memory,
         NEW b \in H, NEW e \in H, b < e, Outside(m, m2, b, e),
         NEW S \in SUBSET (H \ {Limit}), \A o \in S : o < b \/ o >= e
  PROVE  Kept(m, m2, S)
<1> SUFFICES ASSUME NEW o \in S
             PROVE  /\ Masked(m2, o) = Masked(m, o)
                    /\ \A h \in HalfWords : o + 4 <= 2 * h /\ 2 * h < FootOf(m, o) => m2[h] = m[h]
  BY DEF Kept
<1>1. o \in H \ {Limit} /\ o \in Nat /\ Masked(m, o) \in Nat
  BY BlockFacts
<1>2. /\ Masked(m2, o) = Masked(m, o)
      /\ \A h \in HalfWords : o <= 2 * h /\ 2 * h < NextOf(m, o) => m2[h] = m[h]
  BY <1>1, BlocksKept
<1>3. \A h \in HalfWords : o + 4 <= 2 * h /\ 2 * h < FootOf(m, o) =>
                              o <= 2 * h /\ 2 * h < NextOf(m, o)
  BY <1>1 DEF HalfWords, FootOf, NextOf
<1> QED BY <1>2, <1>3

\* The heap and the block that kalloc leaves for its caller.
KallocLeaves(m, A, m2, b, a, H2) ==
    /\ Heap(m2, H2, A \cup {b}) /\ Alternating(m2, H2, A \cup {b})
    /\ Masked(m2, b) = a
    /\ Kept(m, m2, A)
    /\ \A h \in HalfWords : b + 4 <= 2 * h /\ 2 * h < b + 4 + a => m2[h] = 0

LEMMA SplitHeap ==
  ASSUME NEW m, NEW H, NEW A, Heap(m, H, A), Alternating(m, H, A),
         NEW b \in H \ {Limit}, b \notin A, NEW a \in Nat, a % 8 = 0, a <= Masked(m, b)
  PROVE  \E H2 : KallocLeaves(m, A, memset(split_block(m, b, a), b + 4, 0, a), b, a, H2)
<1> DEFINE s == Masked(m, b)
           e == NextOf(m, b)
           c == b + a + 8
           m2 == split_block(m, b, a)
           m3 == memset(m2, b + 4, 0, a)
<1>1. /\ b \in Nat /\ b % 8 = 0 /\ s \in Nat /\ s % 8 = 0 /\ b + s + 8 <= Limit
      /\ e = b + s + 8 /\ e \in H /\ e \in Nat /\ e % 8 = 0 /\ b < e
      /\ FootOf(m, b) = b + s + 4 /\ b \in Places /\ b + s + 4 \in Places
      /\ Limit \in Nat /\ Limit <= HEAP_SIZE
      /\ A \in SUBSET (H \ {Limit})
  <2>1. A \in SUBSET (H \ {Limit})
    BY DEF Heap
  <2>2. e = b + s + 8 /\ FootOf(m, b) = b + s + 4
    BY DEF NextOf, FootOf
  <2>3. /\ b \in Nat /\ b % 8 = 0 /\ s \in Nat /\ s % 8 = 0 /\ b + s + 8 <= Limit
        /\ e \in H /\ e \in Nat /\ e % 8 = 0 /\ b \in Places /\ FootOf(m, b) \in Places
    BY BlockFacts
  <2> HIDE DEF s, e
  <2> QED BY <2>1, <2>2, <2>3, LimitFacts
<1>2. /\ m2 \in Memory /\ Outside(m, m2, b, e)
      /\ Low(m2, b) = a + 1 /\ High(m2, b) = 0 /\ Low(m2, b + a + 4) = a + 1
      /\ a # s => /\ a + 8 <= s
                  /\ Low(m2, c) = s - a - 8 /\ High(m2, c) = 0
                  /\ Low(m2, b + s + 4) = s - a - 8
  <2>1. /\ m2 \in Memory /\ Outside(m, m2, b, NextOf(m, b))
        /\ Low(m2, b) = a + 1 /\ High(m2, b) = 0 /\ Low(m2, b + a + 4) = a + 1
        /\ a # s => /\ a + 8 <= s
                    /\ Low(m2, c) = s - a - 8 /\ High(m2, c) = 0
                    /\ Low(m2, FootOf(m, b)) = s - a - 8
    BY SplitEffect
  <2> HIDE DEF m2, s, c
  <2> QED BY <1>1, <2>1
<1>3. a <= s
  OBVIOUS
<1> HIDE DEF s, e, m2
<1>4. /\ m3 \in Memory
      /\ \A h \in HalfWords : b + 4 <= 2 * h /\ 2 * h < b + 4 + a => m3[h] = 0
      /\ Outside(m2, m3, b + 4, b + 4 + a)
  <2>1. b + 4 \in Nat /\ (b + 4) % 4 = 0 /\ a % 4 = 0 /\ 0 \in 0 .. Span - 1
    BY <1>1, SizeFacts
  <2>2. m3 \in Memory /\ Filled(m2, m3, b + 4, a, 0)
    BY <1>2, <2>1, MemsetWords
  <2>3. b + 4 + a \in Nat /\ (b + 4 + a) % 4 = 0
    BY <1>1
  <2> HIDE DEF m3
  <2> QED BY <2>1, <2>2, <2>3, OutsideWords DEF Filled
<1> HIDE DEF m3
<1>5. Outside(m, m3, b, e)
  <2>1. b <= b + 4 /\ b + 4 + a <= e /\ {b, e, b + 4, b + 4 + a} \subseteq Int
    BY <1>1, <1>3
  <2> QED BY <1>2, <1>4, <2>1, OutsideTrans
<1>6. Low(m3, b) = a + 1 /\ High(m3, b) = 0 /\ Low(m3, b + a + 4) = a + 1
  <2>1. b + a + 4 \in Places
    BY <1>1, <1>3, SizeFacts DEF Places
  <2>2. b < b + 4 /\ b + a + 4 >= b + 4 + a
    BY <1>1
  <2> QED BY <1>1, <1>2, <1>4, <2>1, <2>2 DEF Outside
<1>7. Masked(m3, b) = a /\ Allocated(m3, b)
  BY <1>6, TagOfSize
<1>8. NextOf(m3, b) = c /\ FootOf(m3, b) = b + a + 4 /\ Tagged(m3, b)
  <2>1. NextOf(m3, b) = c /\ FootOf(m3, b) = b + a + 4
    BY <1>1, <1>7 DEF NextOf, FootOf
  <2> QED BY <1>6, <2>1 DEF Tagged
<1>9. \A o \in H : o # b => o < b \/ o >= e
  BY BesideBlock DEF e
<1>10. {o \in A : o < b \/ o >= e} = A
  BY <1>1, <1>9
<1>11. Kept(m, m3, A)
  <2>1. \A o \in A : o < b \/ o >= e
    BY <1>1, <1>9
  <2> QED BY <1>1, <1>4, <1>5, <2>1, KeptBeside
<1>12. e \in A \cup {Limit}
  BY DEF Alternating, e
<1>13. ASSUME NEW o \in H \ {Limit}, o # b
       PROVE  o \in A \/ NextOf(m3, o) \in A \cup {Limit}
  <2>1. o < b \/ o >= e
    BY <1>9, <1>13
  <2>2. Masked(m3, o) = Masked(m, o)
    BY <1>1, <1>4, <1>5, <2>1, BlocksKept
  <2>3. NextOf(m3, o) = NextOf(m, o)
    BY <2>2 DEF NextOf
  <2> QED BY <2>3 DEF Alternating
<1>14. CASE a = s
  <2> DEFINE N == {b}
             H2 == {o \in H : o < b \/ o >= e} \cup N
  <2>1. N \in SUBSET (b .. e - 1) /\ c = e
    BY <1>1, <1>14
  <2>2. \A o \in N : /\ o % 8 = 0 /\ NextOf(m3, o) \in N \cup {e}
                     /\ \A p \in N \cup {e} : p <= o \/ NextOf(m3, o) <= p
                     /\ Tagged(m3, o)
    BY <1>1, <1>8, <2>1
  <2> HIDE DEF N
  <2>3. Heap(m3, H2, {o \in A : o < b \/ o >= e} \cup {o \in N : Allocated(m3, o)})
    <3>1. b \in N
      BY DEF N
    <3> QED BY <1>1, <1>4, <1>5, <2>1, <2>2, <3>1, Rebuild
  <2>4. {o \in N : Allocated(m3, o)} = {b}
    BY <1>7 DEF N
  <2>5. Heap(m3, H2, A \cup {b})
    BY <1>10, <2>3, <2>4
  <2>6. \A o \in H2 \ {Limit} : o \in H \/ o = b
    BY DEF N
  <2>7. Alternating(m3, H2, A \cup {b})
    <3> HIDE DEF H2
    <3> QED BY <1>13, <2>6 DEF Alternating
  <2> HIDE DEF H2
  <2> QED BY <1>4, <1>7, <1>11, <2>5, <2>7 DEF KallocLeaves, m3, m2
<1>15. CASE a # s
  <2> DEFINE N == {b, c}
             H2 == {o \in H : o < b \/ o >= e} \cup N
  <2>1. /\ a + 8 <= s /\ c \in Nat /\ c % 8 = 0 /\ b < c /\ c < e
        /\ c \in Places
    BY <1>1, <1>2, <1>15, SizeFacts DEF Places
  <2>2. Low(m3, c) = s - a - 8 /\ High(m3, c) = 0 /\ Low(m3, b + s + 4) = s - a - 8
    <3>1. c >= b + 4 + a /\ b + s + 4 >= b + 4 + a
      BY <1>1, <2>1
    <3>2. Low(m3, c) = Low(m2, c) /\ High(m3, c) = High(m2, c)
      BY <1>4, <2>1, <3>1 DEF Outside
    <3>3. Low(m3, b + s + 4) = Low(m2, b + s + 4)
      BY <1>1, <1>4, <3>1 DEF Outside
    <3> QED BY <1>2, <1>15, <3>2, <3>3
  <2>3. Masked(m3, c) = s - a - 8 /\ ~Allocated(m3, c)
    <3>1. s - a - 8 \in Nat /\ (s - a - 8) % 2 = 0
      BY <1>1, <2>1
    <3> QED BY <2>2, <3>1, TagOfSize
  <2>4. NextOf(m3, c) = e /\ Tagged(m3, c)
    <3>1. NextOf(m3, c) = e /\ FootOf(m3, c) = b + s + 4
      BY <1>1, <2>1, <2>3 DEF NextOf, FootOf
    <3> QED BY <2>2, <3>1 DEF Tagged
  <2>5. N \in SUBSET (b .. e - 1) /\ b \in N
    BY <1>1, <2>1
  <2>6. \A o \in N : /\ o % 8 = 0 /\ NextOf(m3, o) \in N \cup {e}
                     /\ \A p \in N \cup {e} : p <= o \/ NextOf(m3, o) <= p
                     /\ Tagged(m3, o)
    <3> HIDE DEF c
    <3> QED BY <1>1, <1>8, <2>1, <2>4
  <2>7. {o \in N : Allocated(m3, o)} = {b}
    BY <1>7, <2>3
  <2>8. \A o \in H2 \ {Limit} : o \in H \/ o = b \/ o = c
    OBVIOUS
  <2> HIDE DEF N
  <2>9. Heap(m3, H2, {o \in A : o < b \/ o >= e} \cup {o \in N : Allocated(m3, o)})
    BY <1>1, <1>4, <1>5, <2>5, <2>6, Rebuild
  <2>10. Heap(m3, H2, A \cup {b})
    BY <1>10, <2>7, <2>9
  <2>11. Alternating(m3, H2, A \cup {b})
    <3> HIDE DEF H2, c
    <3> QED BY <1>12, <1>13, <2>4, <2>8 DEF Alternating
  <2> HIDE DEF H2
  <2> QED BY <1>4, <1>7, <1>11, <2>10, <2>11 DEF KallocLeaves, m3, m2
<1> QED BY <1>14, <1>15

\* kalloc returns NULL and changes nothing, or carves a block out of a free one.
LEMMA KallocHeap ==
  ASSUME Aligned, NEW m, NEW H, NEW A, Heap(m, H, A), Alternating(m, H, A),
         NEW size \in Sizes
  PROVE  \/ KallocResult(m, size).ptr = NULL /\ KallocResult(m, size).mem = m
         \/ \E b \in Nat : \E H2 :
               /\ b \notin A
               /\ KallocResult(m, size).ptr = b + 4
               /\ KallocLeaves(m, A, KallocResult(m, size).mem, b, RoundUp(size), H2)
<1> DEFINE b == FirstFit(m, size)
           a == RoundUp(size)
<1>1. size \in Nat
  BY HeapConstants
<1>2. b \in Nat /\ (b < HEAP_SIZE => b \in H \ {Limit} /\ ~Allocated(m, b) /\ Tag(m, b) > size)
  BY <1>1, FirstFitFacts
<1>3. KallocResult(m, size) =
         IF b >= HEAP_SIZE THEN [mem |-> m, ptr |-> NULL]
         ELSE [mem |-> memset(split_block(m, b, a), b + 4, 0, a), ptr |-> b + 4]
  BY DEF KallocResult, HEADER_SIZE
<1> HIDE DEF b, a
<1>4. CASE b >= HEAP_SIZE
  BY <1>3, <1>4
<1>5. CASE b < HEAP_SIZE
  <2>1. b \in H \ {Limit} /\ ~Allocated(m, b) /\ Tag(m, b) > size
    BY <1>2, <1>5
  <2>2. a \in Nat /\ a % 8 = 0 /\ a <= Masked(m, b)
    BY <2>1, FitsRounded DEF a
  <2>3. b \notin A
    BY <2>1 DEF Heap
  <2>4. PICK H2 : KallocLeaves(m, A, memset(split_block(m, b, a), b + 4, 0, a), b, a, H2)
    BY <2>1, <2>2, <2>3, SplitHeap
  <2>5. /\ KallocResult(m, size).ptr = b + 4
        /\ KallocResult(m, size).mem = memset(split_block(m, b, a), b + 4, 0, a)
    BY <1>2, <1>3, <1>5, SizeFacts
  <2> QED BY <1>2, <2>3, <2>4, <2>5 DEF a
<1> QED BY <1>2, <1>4, <1>5, SizeFacts

-----------------------------------------------------------------------------
(* kfree. *)

\* What merge_block writes: the tags of both blocks as one free block.
LEMMA MergeEffect ==
  ASSUME NEW m \in Memory, NEW first \in Nat, NEW second \in Nat, NEW end \in Nat,
         first % 8 = 0, second % 8 = 0, end % 8 = 0,
         first < second, second < end, end <= Limit,
         Masked(m, first) = second - first - 8, Masked(m, second) = end - second - 8,
         ~Allocated(m, first)
  PROVE  /\ merge_block(m, first, second) \in Memory
         /\ Low(merge_block(m, first, second), first) = end - first - 8
         /\ High(merge_block(m, first, second), first) = 0
         /\ Low(merge_block(m, first, second), end - 4) = end - first - 8
         /\ Outside(m, merge_block(m, first, second), first, end)
<1> DEFINE tag == end - first - 8
           m1 == Put(m, first, tag)
           m2 == Put(m1, end - 4, tag)
<1>1. /\ Limit \in Nat /\ Limit <= Span /\ Limit <= HEAP_SIZE
  BY LimitFacts
<1>2. first \in Places /\ end - 4 \in Places /\ tag \in 0 .. Span - 1 /\ first # end - 4
  BY <1>1, SizeFacts DEF Places
<1>3. merge_block(m, first, second) = m2
  <2>1. footer_from_header(m, second) = end - 4
    BY DEF footer_from_header, HEADER_SIZE
  <2>2. next_header(m, first) = second
    <3>1. first + Masked(m, first) + 8 = second /\ second # HEAP_SIZE
      BY <1>1, SizeFacts
    <3> QED BY <3>1 DEF next_header, MDATA_SIZE
  <2>3. merge_size(m, first, second) + 0 = tag
    BY DEF merge_size, MDATA_SIZE
  <2> QED BY <2>1, <2>2, <2>3 DEF merge_block
<1> HIDE DEF tag
<1>4. m1 \in Memory /\ Low(m1, first) = tag /\ High(m1, first) = 0 /\ Outside(m, m1, first, first + 4)
  BY <1>2, PutTag, PutOutside
<1> HIDE DEF m1
<1>5. /\ m2 \in Memory /\ Low(m2, first) = tag /\ High(m2, first) = 0
      /\ Low(m2, end - 4) = tag /\ Outside(m1, m2, end - 4, end)
  <2>1. first \in Places \ {end - 4} /\ (end - 4) + 4 = end
    BY <1>2
  <2> QED BY <1>2, <1>4, <2>1, PutTag, PutOutside
<1> HIDE DEF m2
<1>6. Outside(m, m2, first, end)
  <2>1. /\ first + 4 <= end /\ first <= end - 4 /\ first <= first /\ end <= end
        /\ {first, end, first + 4, end - 4} \subseteq Int
    BY <1>2
  <2>2. Outside(m, m, first, end)
    BY DEF Outside
  <2>3. Outside(m, m1, first, end)
    BY <1>4, <2>1, <2>2, OutsideTrans
  <2> QED BY <1>5, <2>1, <2>3, OutsideTrans
<1> QED BY <1>3, <1>5, <1>6 DEF tag

\* A block is free or tagged at both ends.
LEMMA AllocatedTagged ==
  ASSUME NEW m, NEW H, NEW A, Heap(m, H, A), NEW o \in H \ {Limit},
         o \in A \/ NextOf(m, o) # Limit
  PROVE  Tagged(m, o)
<1> SUFFICES ASSUME o = 0, Pristine(m) PROVE FALSE
  BY DEF Heap
<1>1. ~Allocated(m, o) /\ NextOf(m, o) = Limit
  BY LimitFacts DEF Pristine, NextOf
<1> QED BY <1>1 DEF Heap

\* A free block from lo to hi with the tags and contents around it untouched.
FreeFrom(m, m2, lo, hi) ==
    /\ m2 \in Memory
    /\ Low(m2, lo) = hi - lo - 8 /\ High(m2, lo) = 0
    /\ Low(m2, hi - 4) = hi - lo - 8
    /\ Outside(m, m2, lo, hi)

\* A free block between allocated ones completes kfree.
LEMMA FreedHeap ==
  ASSUME NEW m, NEW H, NEW A, Heap(m, H, A), Alternating(m, H, A), NEW b \in A, NEW m2,
         NEW lo \in H, NEW hi \in H, lo <= b, b < hi, FreeFrom(m, m2, lo, hi),
         \A o \in A \ {b} : o < lo \/ o >= hi,
         hi \in A \cup {Limit},
         \A o \in H \ {Limit} : NextOf(m, o) = lo => o \in A
  PROVE  \E H2 : /\ Heap(m2, H2, A \ {b}) /\ Alternating(m2, H2, A \ {b})
                 /\ Kept(m, m2, A \ {b})
<1> DEFINE N == {lo}
           H2 == {o \in H : o < lo \/ o >= hi} \cup N
<1>1. /\ H \subseteq 0 .. Limit /\ A \subseteq H \ {Limit} /\ Limit \in Nat
      /\ \A o \in H : o \in Nat /\ o % 8 = 0
  BY LimitFacts DEF Heap, Tiled
<1>2. lo \in Nat /\ hi \in Nat /\ lo % 8 = 0 /\ hi % 8 = 0 /\ b \in Nat /\ lo < hi
  BY <1>1
<1>3. Masked(m2, lo) = hi - lo - 8 /\ ~Allocated(m2, lo)
  <2>1. hi - lo - 8 \in Nat /\ (hi - lo - 8) % 2 = 0
    BY <1>2
  <2> QED BY <2>1, TagOfSize DEF FreeFrom
<1>4. NextOf(m2, lo) = hi /\ FootOf(m2, lo) = hi - 4
  BY <1>2, <1>3 DEF NextOf, FootOf
<1>5. Tagged(m2, lo)
  BY <1>4 DEF Tagged, FreeFrom
<1>6. N \in SUBSET (lo .. hi - 1) /\ lo \in N
  BY <1>2
<1>7. \A o \in N : /\ o % 8 = 0 /\ NextOf(m2, o) \in N \cup {hi}
                   /\ \A p \in N \cup {hi} : p <= o \/ NextOf(m2, o) <= p
                   /\ Tagged(m2, o)
  BY <1>2, <1>4, <1>5
<1>8. {o \in A : o < lo \/ o >= hi} \cup {o \in N : Allocated(m2, o)} = A \ {b}
  <2>1. {o \in N : Allocated(m2, o)} = {}
    BY <1>3
  <2>2. ~(b < lo \/ b >= hi)
    BY <1>2
  <2> QED BY <2>1, <2>2
<1>9. \A o \in H2 \ {Limit} : o = lo \/ (o \in H \ {Limit} /\ (o < lo \/ o >= hi))
  OBVIOUS
<1> HIDE DEF N
<1>10. m2 \in Memory /\ Outside(m, m2, lo, hi)
  BY DEF FreeFrom
<1>11. Heap(m2, H2, A \ {b})
  <2>1. Heap(m2, H2, {o \in A : o < lo \/ o >= hi} \cup {o \in N : Allocated(m2, o)})
    BY <1>2, <1>6, <1>7, <1>10, Rebuild
  <2> QED BY <1>8, <2>1
<1> HIDE DEF H2
<1>12. Kept(m, m2, A \ {b})
  <2>1. A \ {b} \in SUBSET (H \ {Limit})
    BY <1>1
  <2> QED BY <1>2, <1>10, <2>1, KeptBeside
<1>13. ASSUME NEW o \in H2 \ {Limit}
       PROVE  o \in A \ {b} \/ NextOf(m2, o) \in (A \ {b}) \cup {Limit}
  <2>1. CASE o = lo
    BY <1>2, <1>4, <2>1
  <2>2. CASE o \in H \ {Limit} /\ (o < lo \/ o >= hi)
    <3>1. o # b /\ o \in Nat
      BY <1>1, <1>2, <2>2
    <3>2. NextOf(m2, o) = NextOf(m, o)
      BY <1>2, <1>10, <2>2, BlocksKept DEF NextOf
    <3>3. o \in A \/ NextOf(m, o) \in A \cup {Limit}
      BY <2>2 DEF Alternating
    <3>4. NextOf(m, o) = b => o \in A
      <4> SUFFICES ASSUME NextOf(m, o) = b PROVE o \in A
        OBVIOUS
      <4>1. o < NextOf(m, o)
        BY <2>2, <3>1, BlockFacts DEF NextOf
      <4>2. o < lo
        BY <1>2, <2>2, <3>1, <4>1
      <4>3. NextOf(m, o) <= lo
        BY <1>2, <2>2, <3>1, <4>2, BlocksApart
      <4>4. lo = b
        BY <1>2, <4>3
      <4> QED BY <2>2, <4>4
    <3> QED BY <3>1, <3>2, <3>3, <3>4
  <2> QED BY <1>9, <2>1, <2>2
<1>14. Alternating(m2, H2, A \ {b})
  BY <1>13 DEF Alternating
<1> QED BY <1>11, <1>12, <1>14

\* kfree clears both tags of its block and merges it with its free neighbours.
LEMMA KfreeHeap ==
  ASSUME NEW m, NEW H, NEW A, Heap(m, H, A), Alternating(m, H, A), NEW b \in A,
         HEAP_SIZE <= Span \/ ~Allocated(m, Limit - 4)
  PROVE  \E H2 : /\ Heap(KfreeResult(m, b + 4), H2, A \ {b})
                 /\ Alternating(KfreeResult(m, b + 4), H2, A \ {b})
                 /\ Kept(m, KfreeResult(m, b + 4), A \ {b})
<1> DEFINE s == Masked(m, b)
           e == NextOf(m, b)
           m1 == ClearTag(m, b)
           m2 == ClearTag(m1, b + 4 + s)
<1>1. /\ H \subseteq 0 .. Limit /\ A \subseteq H \ {Limit} /\ 0 \in H
      /\ \A o \in H : o \in Nat /\ o % 8 = 0
      /\ m \in Memory /\ b \in H \ {Limit}
      /\ \A o \in H \ {Limit} : Allocated(m, o) <=> o \in A
  BY LimitFacts DEF Heap, Tiled
<1>2. /\ b \in Nat /\ b % 8 = 0 /\ s \in Nat /\ s % 8 = 0 /\ b + s + 8 <= Limit
      /\ e \in H /\ b \in Places /\ FootOf(m, b) \in Places
  BY <1>1, BlockFacts
<1>3. e = b + s + 8 /\ FootOf(m, b) = b + 4 + s /\ e \in Nat /\ e % 8 = 0
  BY <1>1, <1>2 DEF NextOf, FootOf
<1>4. Limit \in Nat /\ Limit <= Span /\ Limit <= HEAP_SIZE /\ Span \in Nat /\ HEAP_SIZE \in Nat
  BY LimitFacts, SizeFacts
<1>5. Low(m, b) = s + 1 /\ Low(m, b + 4 + s) = s + 1
  <2>1. Tagged(m, b)
    BY <1>1, AllocatedTagged
  <2>2. Low(m, b) = s + 1
    BY <1>1, TagParts
  <2> QED BY <1>3, <2>1, <2>2 DEF Tagged
<1>6. e = HEAP_SIZE <=> e = Limit
  <2>1. ASSUME e = Limit PROVE Limit = HEAP_SIZE
    <3>1. b + 4 + s = Limit - 4
      BY <1>2, <1>3, <1>4, <2>1
    <3>2. Allocated(m, Limit - 4)
      BY <1>2, <1>5, <3>1, TagOfSize
    <3> QED BY <3>2, LimitFacts
  <2> QED BY <1>2, <1>3, <1>4, <2>1
<1> HIDE DEF s, e
<1>7. s \in 0 .. Span - 1 /\ b + 4 + s \in Places /\ b # b + 4 + s
  BY <1>2, <1>3, <1>4
<1>8. /\ m1 \in Memory /\ Low(m1, b) = s /\ High(m1, b) = 0
      /\ Low(m1, b + 4 + s) = s + 1 /\ Outside(m, m1, b, b + 4)
  <2>1. m1 = Put(m, b, s)
    BY DEF ClearTag, s
  <2>2. b + 4 + s \in Places \ {b}
    BY <1>7
  <2> HIDE DEF m1
  <2> QED BY <1>1, <1>2, <1>5, <1>7, <2>1, <2>2, PutTag, PutOutside
<1>9. Masked(m1, b) = s /\ Masked(m1, b + 4 + s) = s
  <2>1. s % 2 = 0
    BY <1>2
  <2> HIDE DEF m1
  <2> QED BY <1>2, <1>8, <2>1, TagOfSize
<1>10. FreeFrom(m, m2, b, e)
  <2> HIDE DEF m1
  <2>1. m2 = Put(m1, b + 4 + s, s)
    BY <1>9 DEF ClearTag
  <2> HIDE DEF m2
  <2>2. b \in Places \ {b + 4 + s} /\ (b + 4 + s) + 4 = e /\ e - 4 = b + 4 + s /\ e - b - 8 = s
    BY <1>2, <1>3, <1>7
  <2>3. /\ m2 \in Memory /\ Low(m2, b) = s /\ High(m2, b) = 0 /\ Low(m2, b + 4 + s) = s
        /\ Outside(m1, m2, b + 4 + s, e)
    BY <1>7, <1>8, <2>1, <2>2, PutTag, PutOutside
  <2>4. Outside(m, m2, b, e)
    <3>1. /\ b <= b /\ b + 4 <= e /\ b <= b + 4 + s /\ e <= e
          /\ {b, e, b + 4, b + 4 + s} \subseteq Int
      BY <1>2, <1>3
    <3>2. Outside(m, m, b, e)
      BY DEF Outside
    <3>3. Outside(m, m1, b, e)
      BY <1>8, <3>1, <3>2, OutsideTrans
    <3> QED BY <2>3, <3>1, <3>3, OutsideTrans
  <2> QED BY <2>2, <2>3, <2>4 DEF FreeFrom
<1>11. Masked(m2, b) = s /\ Masked(m2, b + 4 + s) = s
  <2>1. e - b - 8 = s /\ e - 4 = b + 4 + s /\ s % 2 = 0
    BY <1>2, <1>3
  <2> HIDE DEF m2
  <2> QED BY <1>2, <1>10, <2>1, TagOfSize DEF FreeFrom
<1> DEFINE next == IF e = HEAP_SIZE THEN NULL ELSE e
           prev == IF b = 0 THEN NULL ELSE b - 4
           m3 == IF next # NULL /\ ~Allocated(m2, next) THEN merge_block(m2, b, next) ELSE m2
           m4 == IF prev # NULL /\ ~Allocated(m3, prev)
                 THEN merge_block(m3, header_from_footer(m3, prev), b) ELSE m3
<1>12. KfreeResult(m, b + 4) = m4
  <2>1. (b + 4) - HEADER_SIZE = b
    BY <1>2 DEF HEADER_SIZE
  <2>2. (b + 4) + Masked(m1, b) = b + 4 + s
    BY <1>2, <1>9
  <2>3. next_header(m2, b) = next
    BY <1>2, <1>3, <1>11 DEF next_header, MDATA_SIZE
  <2>4. prev_footer(m2, b + 4 + s) = prev
    <3>1. (b + 4 + s) - s - 4 = b
      BY <1>2
    <3> QED BY <1>11, <3>1 DEF prev_footer, HEADER_SIZE, FOOTER_SIZE
  <2> HIDE DEF next, prev
  <2> QED BY <2>1, <2>2, <2>3, <2>4 DEF KfreeResult
<1> HIDE DEF m2
<1>13. \A o \in H : o # b => o < b \/ o >= e
  BY <1>1, BesideBlock DEF e
\* Stage one: the block behind.
<1>14. PICK hi \in H : /\ FreeFrom(m, m3, b, hi)
                       /\ b < hi /\ hi \in A \cup {Limit}
                       /\ \A o \in A \ {b} : o < b \/ o >= hi
  <2>1. CASE e = Limit
    <3>1. m3 = m2
      BY <1>6, <2>1
    <3>2. \A o \in A \ {b} : o < b \/ o >= e
      BY <1>1, <1>13
    <3>3. b < e
      BY <1>2, <1>3
    <3> QED BY <1>2, <1>10, <2>1, <3>1, <3>2, <3>3
  <2>2. CASE e # Limit
    <3>1. next = e /\ e # NULL /\ e \in H \ {Limit}
      BY <1>2, <1>3, <1>6, <2>2 DEF NULL
    <3>2. Allocated(m2, e) = Allocated(m, e) /\ Masked(m2, e) = Masked(m, e)
      <4>1. m2 \in Memory /\ Outside(m, m2, b, e) /\ b < e /\ e >= e
        BY <1>2, <1>3, <1>10 DEF FreeFrom
      <4> QED BY <1>1, <1>2, <3>1, <4>1, BlocksKept
    <3>3. CASE e \in A
      <4>1. m3 = m2
        BY <1>1, <3>1, <3>2, <3>3
      <4>2. \A o \in A \ {b} : o < b \/ o >= e
        BY <1>1, <1>13
      <4>3. b < e
        BY <1>2, <1>3
      <4> QED BY <1>2, <1>10, <3>3, <4>1, <4>2, <4>3
    <3>4. CASE e \notin A
      <4>1. m3 = merge_block(m2, b, e)
        BY <1>1, <3>1, <3>2, <3>4
      <4> DEFINE hi == NextOf(m, e)
      <4>2. hi = e + Masked(m, e) + 8 /\ hi \in H /\ hi \in Nat /\ hi % 8 = 0 /\ Masked(m, e) \in Nat
        BY <3>1, BlockFacts DEF NextOf
      <4>3. hi \in A \cup {Limit}
        BY <3>1, <3>4 DEF Alternating
      <4>4. \A o \in A \ {b} : o < b \/ o >= hi
        <5> TAKE o \in A \ {b}
        <5>1. o \in H /\ o # e /\ o \in Nat
          BY <1>1, <3>4
        <5>2. (o < b \/ o >= e) /\ (o < e \/ o >= hi)
          BY <1>13, <3>1, <5>1, BesideBlock
        <5> QED BY <1>2, <1>3, <5>1, <5>2
      <4>5. b < e /\ e < hi /\ hi <= Limit /\ b < hi
        BY <1>1, <1>2, <1>3, <4>2
      <4> HIDE DEF hi
      <4>6. /\ m2 \in Memory /\ Masked(m2, b) = e - b - 8 /\ Masked(m2, e) = hi - e - 8
            /\ ~Allocated(m2, b)
        <5>1. s = e - b - 8 /\ Masked(m, e) = hi - e - 8
          BY <1>2, <1>3, <4>2
        <5>2. Low(m2, b) = s /\ s % 2 = 0 /\ m2 \in Memory
          BY <1>2, <1>10, <5>1 DEF FreeFrom
        <5> QED BY <1>2, <1>11, <3>2, <5>1, <5>2, TagOfSize
      <4>7. /\ m3 \in Memory /\ Low(m3, b) = hi - b - 8 /\ High(m3, b) = 0
            /\ Low(m3, hi - 4) = hi - b - 8 /\ Outside(m2, m3, b, hi)
        <5> DEFINE g == merge_block(m2, b, e)
        <5>1. /\ g \in Memory /\ Low(g, b) = hi - b - 8 /\ High(g, b) = 0
              /\ Low(g, hi - 4) = hi - b - 8 /\ Outside(m2, g, b, hi)
          <6>1. /\ m2 \in Memory /\ b \in Nat /\ e \in Nat /\ hi \in Nat
                /\ b % 8 = 0 /\ e % 8 = 0 /\ hi % 8 = 0
                /\ b < e /\ e < hi /\ hi <= Limit
                /\ Masked(m2, b) = e - b - 8 /\ Masked(m2, e) = hi - e - 8
                /\ ~Allocated(m2, b)
            BY <1>2, <1>3, <4>2, <4>5, <4>6
          <6> HIDE DEF m1, next, prev, m3, m4
          <6> QED BY <6>1, MergeEffect
        <5> HIDE DEF m3, g
        <5>2. m3 = g
          BY <4>1 DEF g
        <5> QED BY <5>1, <5>2
      <4>8. Outside(m, m3, b, hi)
        <5> HIDE DEF m3
        <5>1. Outside(m, m2, b, e)
          BY <1>10 DEF FreeFrom
        <5>2. b <= b /\ e <= hi /\ hi <= hi /\ {b, e, hi} \subseteq Int
          BY <1>2, <1>3, <4>2, <4>5
        <5>3. Outside(m, m, b, hi)
          BY DEF Outside
        <5>4. Outside(m, m2, b, hi)
          BY <5>1, <5>2, <5>3, OutsideTrans
        <5> QED BY <4>7, <5>2, <5>4, OutsideTrans
      <4>9. FreeFrom(m, m3, b, hi)
        BY <4>7, <4>8 DEF FreeFrom
      <4> HIDE DEF m3
      <4> QED BY <4>2, <4>3, <4>4, <4>5, <4>9
    <3> QED BY <3>3, <3>4
  <2> QED BY <2>1, <2>2
<1> HIDE DEF m3
<1>15. hi \in Nat /\ hi % 8 = 0 /\ hi <= Limit
  BY <1>1
\* Stage two: the block before.
<1>16. ASSUME NEW p \in H \ {Limit}, NextOf(m, p) = b
       PROVE  /\ Low(m3, b - 4) = Low(m, p) /\ p < b /\ p \in Nat
              /\ Allocated(m3, b - 4) = Allocated(m, p)
              /\ Masked(m3, b - 4) = Masked(m, p)
  <2>1. Tagged(m, p)
    BY <1>1, <1>16, AllocatedTagged
  <2>2. p \in Nat /\ Masked(m, p) \in Nat /\ FootOf(m, p) \in Places
    BY BlockFacts
  <2>3. FootOf(m, p) = b - 4 /\ p < b
    BY <1>2, <1>16, <2>2 DEF NextOf, FootOf
  <2>4. Low(m3, b - 4) = Low(m, b - 4)
    <3>1. b - 4 < b /\ b - 4 \in Places
      BY <1>2, <2>2, <2>3
    <3> QED BY <1>14, <3>1 DEF FreeFrom, Outside
  <2>5. Low(m3, b - 4) = Low(m, p)
    BY <2>1, <2>3, <2>4 DEF Tagged
  <2> QED BY <2>2, <2>3, <2>5 DEF Allocated, Masked, Low
<1>17. \E lo \in H : /\ lo <= b /\ FreeFrom(m, m4, lo, hi)
                     /\ \A o \in A \ {b} : o < lo \/ o >= hi
                     /\ \A o \in H \ {Limit} : NextOf(m, o) = lo => o \in A
  <2>1. CASE b = 0
    <3>1. m4 = m3
      BY <2>1
    <3>2. \A o \in H \ {Limit} : NextOf(m, o) # b
      <4> TAKE o \in H \ {Limit}
      <4>1. o \in Nat /\ Masked(m, o) \in Nat
        BY BlockFacts
      <4> QED BY <2>1, <4>1 DEF NextOf
    <3> QED BY <1>1, <1>2, <1>14, <3>1, <3>2
  <2>2. CASE b # 0
    <3>1. PICK p \in H \ {Limit} : p < b /\ NextOf(m, p) = b
      BY <1>1, <2>2, Predecessor
    <3>2. prev = b - 4 /\ b - 4 # NULL
      BY <1>2, <2>2 DEF NULL
    <3>3. CASE p \in A
      <4>1. m4 = m3
        BY <1>1, <1>16, <3>1, <3>2, <3>3
      <4>2. ASSUME NEW o \in H \ {Limit}, NextOf(m, o) = b PROVE o \in A
        <5>1. Allocated(m, o) = Allocated(m, p)
          BY <1>16, <3>1, <4>2
        <5> QED BY <1>1, <3>3, <5>1
      <4> QED BY <1>1, <1>2, <1>14, <4>1, <4>2
    <3>4. CASE p \notin A
      <4>1. p \in Nat /\ p % 8 = 0 /\ Masked(m, p) \in Nat /\ p + Masked(m, p) + 8 = b
        BY <3>1, BlockFacts DEF NextOf
      <4>2. header_from_footer(m3, b - 4) = p
        <5>1. Masked(m3, b - 4) = Masked(m, p)
          BY <1>16, <3>1
        <5> QED BY <1>2, <4>1, <5>1 DEF header_from_footer, HEADER_SIZE
      <4>3. m4 = merge_block(m3, p, b)
        BY <1>1, <1>16, <3>1, <3>2, <3>4, <4>2
      <4>4. /\ m3 \in Memory /\ Outside(m, m3, b, hi) /\ b < hi
            /\ Low(m3, b) = hi - b - 8
        BY <1>14 DEF FreeFrom
      <4>5. Masked(m3, p) = Masked(m, p) /\ Allocated(m3, p) = Allocated(m, p)
        BY <1>1, <3>1, <4>4, BlocksKept
      <4>6. Masked(m3, p) = b - p - 8 /\ ~Allocated(m3, p)
        BY <1>1, <1>2, <3>4, <4>1, <4>5
      <4>7. Masked(m3, b) = hi - b - 8
        <5>1. hi - b - 8 \in Nat /\ (hi - b - 8) % 2 = 0
          BY <1>2, <1>15, <4>4
        <5> QED BY <4>4, <5>1, TagOfSize
      <4> HIDE DEF m4
      <4>8. /\ m4 \in Memory /\ Low(m4, p) = hi - p - 8 /\ High(m4, p) = 0
            /\ Low(m4, hi - 4) = hi - p - 8 /\ Outside(m3, m4, p, hi)
        <5> DEFINE g == merge_block(m3, p, b)
        <5>1. /\ g \in Memory /\ Low(g, p) = hi - p - 8 /\ High(g, p) = 0
              /\ Low(g, hi - 4) = hi - p - 8 /\ Outside(m3, g, p, hi)
          <6>1. /\ m3 \in Memory /\ p \in Nat /\ b \in Nat /\ hi \in Nat
                /\ p % 8 = 0 /\ b % 8 = 0 /\ hi % 8 = 0
                /\ p < b /\ b < hi /\ hi <= Limit
                /\ Masked(m3, p) = b - p - 8 /\ Masked(m3, b) = hi - b - 8
                /\ ~Allocated(m3, p)
            BY <1>2, <1>15, <3>1, <4>1, <4>4, <4>6, <4>7
          <6> HIDE DEF m1, next, prev, m4
          <6> QED BY <6>1, MergeEffect
        <5> HIDE DEF g
        <5>2. m4 = g
          BY <4>3 DEF g
        <5> QED BY <5>1, <5>2
      <4>9. Outside(m, m4, p, hi)
        <5>1. p <= b /\ p <= p /\ hi <= hi /\ {p, b, hi} \subseteq Int
          BY <1>2, <1>15, <3>1, <4>1
        <5>2. Outside(m, m, p, hi)
          BY DEF Outside
        <5>3. Outside(m, m3, p, hi)
          BY <4>4, <5>1, <5>2, OutsideTrans
        <5> QED BY <4>8, <5>1, <5>3, OutsideTrans
      <4>10. FreeFrom(m, m4, p, hi)
        BY <4>8, <4>9 DEF FreeFrom
      <4>11. \A o \in A \ {b} : o < p \/ o >= hi
        <5> TAKE o \in A \ {b}
        <5>1. o \in H /\ o # p /\ o \in Nat
          BY <1>1, <3>4
        <5>2. (o < b \/ o >= hi) /\ (o < p \/ o >= b)
          BY <1>14, <3>1, <5>1, BesideBlock
        <5> QED BY <1>2, <1>15, <4>1, <5>1, <5>2
      <4>12. \A o \in H \ {Limit} : NextOf(m, o) = p => o \in A
        BY <3>1, <3>4 DEF Alternating
      <4>13. p <= b
        BY <1>2, <3>1, <4>1
      <4> QED BY <3>1, <4>10, <4>11, <4>12, <4>13
    <3> QED BY <3>3, <3>4
  <2> QED BY <2>1, <2>2
<1> HIDE DEF m4
<1>18. PICK lo \in H : /\ lo <= b /\ FreeFrom(m, m4, lo, hi)
                       /\ \A o \in A \ {b} : o < lo \/ o >= hi
                       /\ \A o \in H \ {Limit} : NextOf(m, o) = lo => o \in A
  BY <1>17
<1>19. \E H2 : Heap(m4, H2, A \ {b}) /\ Alternating(m4, H2, A \ {b}) /\ Kept(m, m4, A \ {b})
  BY <1>14, <1>18, FreedHeap
<1> QED BY <1>12, <1>19

-----------------------------------------------------------------------------
(* The inductive invariant: the tags describe a heap in which the blocks   *)
(* that are allocated are those of the callers, with the callers' sizes    *)
(* and contents.                                                           *)

HeldIn(l) == {i \in Slots : l[i] # NoAllocation}
Owned(l) == {l[i].ptr - 4 : i \in HeldIn(l)}

LiveOK(m, l) ==
    /\ l \in [Slots -> [ptr : Int, size : Nat, known : Nat, val : 0 .. Span - 1]]
    /\ \A i, j \in HeldIn(l) : l[i].ptr = l[j].ptr => i = j
    /\ \A i \in HeldIn(l) :
          /\ Masked(m, l[i].ptr - 4) = l[i].size
          /\ l[i].known = l[i].size
          /\ \A h \in HalfWords : l[i].ptr <= 2 * h /\ 2 * h < l[i].ptr + l[i].size => m[h] = l[i].val

HeapOK(m, l) ==
    /\ \E H : Heap(m, H, Owned(l)) /\ Alternating(m, H, Owned(l))
    /\ LiveOK(m, l)

HeapInv == HeapOK(mem, live)

\* The callers' blocks when the heap is kept for all of them.
LEMMA LiveKept ==
  ASSUME NEW m, NEW l, LiveOK(m, l), NEW m2, NEW S, Kept(m, m2, S),
         NEW i \in HeldIn(l), l[i].ptr - 4 \in S
  PROVE  /\ Masked(m2, l[i].ptr - 4) = l[i].size
         /\ \A h \in HalfWords : l[i].ptr <= 2 * h /\ 2 * h < l[i].ptr + l[i].size => m2[h] = l[i].val
<1> DEFINE o == l[i].ptr - 4
<1>1. l[i].ptr \in Int /\ l[i].size \in Nat
  BY DEF LiveOK, HeldIn
<1>2. Masked(m, o) = l[i].size
  BY DEF LiveOK
<1>3. o + 4 = l[i].ptr /\ FootOf(m, o) = l[i].ptr + l[i].size
  BY <1>1, <1>2 DEF FootOf
<1> HIDE DEF o
<1>4. /\ Masked(m2, o) = Masked(m, o)
      /\ \A h \in HalfWords : o + 4 <= 2 * h /\ 2 * h < FootOf(m, o) => m2[h] = m[h]
  BY DEF Kept, o
<1>5. \A h \in HalfWords : l[i].ptr <= 2 * h /\ 2 * h < l[i].ptr + l[i].size => m[h] = l[i].val
  BY DEF LiveOK
<1> QED BY <1>2, <1>3, <1>4, <1>5 DEF o

LEMMA InitHeap == Init => HeapInv
<1> SUFFICES ASSUME Init PROVE HeapInv
  OBVIOUS
<1> DEFINE tag == HEAP_SIZE - 8
           z == [h \in HalfWords |-> 0]
           m1 == [h \in HalfWords |-> IF h = 0 THEN Limit - 8
                                      ELSE IF h = 1 THEN (tag \div Span) % Span ELSE 0]
           last == HEAP_SIZE \div 2 - 2
           m2 == [h \in HalfWords |-> IF h = last THEN Limit - 8
                                      ELSE IF h = last + 1 THEN (tag \div Span) % Span
                                      ELSE m1[h]]
           H == {0, Limit}
<1>1. tag % Span = Limit - 8 /\ tag \in Nat /\ (tag \div Span) % Span \in 0 .. Span - 1
  <2>1. tag \in Nat /\ tag \div Span \in Nat
    BY SizeFacts
  <2> QED BY <2>1, LimitFacts, SizeFacts
<1>2. /\ (HEADER_SIZE + tag) \div 2 = last /\ last \in Nat /\ last >= 6
      /\ last \in HalfWords /\ last + 1 \in HalfWords /\ 0 \in HalfWords /\ 1 \in HalfWords
      /\ 2 * last = HEAP_SIZE - 4
  BY SizeFacts DEF HEADER_SIZE, HalfWords
<1>3. mem = m2
  <2>1. mem = Put(Put(z, 0, tag), HEADER_SIZE + tag, tag)
    BY DEF Init, MDATA_SIZE
  <2>2. Put(z, 0, tag) = m1
    <3>1. 0 \div 2 = 0 /\ 0 + 1 = 1
      OBVIOUS
    <3> QED BY <1>1, <3>1 DEF Put
  <2> HIDE DEF m1
  <2>3. Put(m1, HEADER_SIZE + tag, tag) = m2
    BY <1>1, <1>2 DEF Put
  <2> QED BY <2>1, <2>2, <2>3
<1>4. Limit \in Nat /\ Limit % 8 = 0 /\ Limit >= 8 /\ Limit <= Span /\ Limit <= HEAP_SIZE
  BY LimitFacts
<1>5. m2 \in Memory
  BY <1>1, <1>4, SizeFacts DEF Memory
<1>6. m2[0] = Limit - 8 /\ m2[last] = Limit - 8 /\ m2[1] = (tag \div Span) % Span
  BY <1>2
<1>7. \A h \in HalfWords : h \in Int /\ (h >= 2 /\ h < last => m2[h] = 0)
  BY <1>2 DEF HalfWords
<1> HIDE DEF m1, m2, tag
<1>8. Low(m2, 0) = Limit - 8 /\ Masked(m2, 0) = Limit - 8 /\ ~Allocated(m2, 0)
  <2>1. Low(m2, 0) = Limit - 8
    <3>1. 0 \div 2 = 0
      OBVIOUS
    <3> QED BY <1>2, <1>6, <3>1 DEF Low, HalfWord
  <2>2. Limit - 8 \in Nat /\ (Limit - 8) % 2 = 0
    BY <1>4
  <2> QED BY <2>1, <2>2, TagOfSize
<1>9. NextOf(m2, 0) = Limit /\ FootOf(m2, 0) = Limit - 4
  BY <1>4, <1>8 DEF NextOf, FootOf
<1>10. Tiled(m2, H)
  BY <1>4, <1>9 DEF Tiled
<1>11. Tagged(m2, 0) \/ Pristine(m2)
  <2>1. CASE HEAP_SIZE <= Span
    <3>1. Limit = HEAP_SIZE /\ (tag \div Span) % Span = 0
      <4>1. Limit = HEAP_SIZE
        BY <2>1, LimitFacts
      <4>2. tag \div Span = 0
        BY <2>1, SizeFacts DEF tag
      <4> QED BY <4>1, <4>2, SizeFacts
    <3>2. High(m2, 0) = 0
      <4>1. 0 \div 2 + 1 = 1
        OBVIOUS
      <4> QED BY <1>2, <1>6, <3>1, <4>1 DEF High, HalfWord
    <3>3. Low(m2, Limit - 4) = Limit - 8
      <4>1. (Limit - 4) \div 2 = last
        BY <3>1, SizeFacts
      <4> QED BY <1>2, <1>6, <4>1 DEF Low, HalfWord
    <3> QED BY <1>8, <1>9, <3>2, <3>3 DEF Tagged
  <2>2. CASE HEAP_SIZE > Span
    <3>1. Limit + 8 <= HEAP_SIZE
      BY <2>2, LimitFacts
    <3> DEFINE k == (Limit - 4) \div 2
    <3>2. k \in HalfWords /\ k >= 2 /\ k < last
      BY <1>4, <3>1, SizeFacts DEF HalfWords
    <3> HIDE DEF k
    <3>3. Low(m2, Limit - 4) = 0
      BY <1>7, <3>2 DEF Low, HalfWord, k
    <3>4. ~Allocated(m2, Limit - 4)
      BY <3>3, TagOfSize
    <3> QED BY <1>8, <2>2, <3>4 DEF Pristine
  <2> QED BY <2>1, <2>2, SizeFacts
<1>12. \A h \in HalfWords : Limit <= 2 * h /\ 2 * h < HEAP_SIZE - 4 => m2[h] = 0
  <2> TAKE h \in HalfWords
  <2> HAVE Limit <= 2 * h /\ 2 * h < HEAP_SIZE - 4
  <2>1. h \in Int /\ h >= 2 /\ h < last
    BY <1>2, <1>4, <1>7, SizeFacts
  <2> QED BY <1>7, <2>1
<1>13. Heap(m2, H, {})
  <2>1. H \ {Limit} = {0}
    BY <1>4
  <2>2. {o \in H \ {Limit} : Allocated(m2, o)} = {}
    BY <1>8, <2>1
  <2>3. \A o \in H \ {Limit} : Tagged(m2, o) \/ (o = 0 /\ Pristine(m2))
    BY <1>11, <2>1
  <2> HIDE DEF H
  <2> QED BY <1>5, <1>10, <1>12, <2>2, <2>3, Zenon DEF Heap
<1>14. Alternating(m2, H, {})
  BY <1>4, <1>9 DEF Alternating
<1>15. live \in [Slots -> {NoAllocation}]
  BY DEF Init
<1>16. HeldIn(live) = {} /\ Owned(live) = {}
  BY <1>15 DEF HeldIn, Owned
<1>17. LiveOK(m2, live)
  <2>1. NoAllocation \in [ptr : Int, size : Nat, known : Nat, val : 0 .. Span - 1]
    BY SizeFacts DEF NoAllocation, Allocation, NULL
  <2>2. live \in [Slots -> [ptr : Int, size : Nat, known : Nat, val : 0 .. Span - 1]]
    BY <1>15, <2>1
  <2> QED BY <1>16, <2>2 DEF LiveOK
<1> HIDE DEF H
<1> QED BY <1>3, <1>13, <1>14, <1>16, <1>17 DEF HeapInv, HeapOK

\* Kinds of allocations.
Allocations == [ptr : Int, size : Nat, known : Nat, val : 0 .. Span - 1]

LEMMA AllocationFields ==
  ASSUME NEW ptr, NEW size, NEW known, NEW val
  PROVE  /\ Allocation(ptr, size, known, val).ptr = ptr
         /\ Allocation(ptr, size, known, val).size = size
         /\ Allocation(ptr, size, known, val).known = known
         /\ Allocation(ptr, size, known, val).val = val
BY DEF Allocation

LEMMA StepKalloc ==
  ASSUME Aligned, NEW m, NEW l, HeapOK(m, l), NEW i \in Slots, NEW size \in Sizes,
         l[i] = NoAllocation
  PROVE  HeapOK(KallocResult(m, size).mem,
                IF KallocResult(m, size).ptr = NULL THEN l
                ELSE [l EXCEPT ![i] = Allocation(KallocResult(m, size).ptr, RoundUp(size),
                                                 RoundUp(size), 0)])
<1> DEFINE r == KallocResult(m, size)
           a == RoundUp(size)
           A == Owned(l)
<1>1. PICK H : Heap(m, H, A) /\ Alternating(m, H, A)
  BY DEF HeapOK
<1>2. LiveOK(m, l)
  BY DEF HeapOK
<1>3. a \in Nat
  BY HeapConstants DEF RoundUp
<1>4. \/ r.ptr = NULL /\ r.mem = m
      \/ \E b \in Nat : \E H2 : b \notin A /\ r.ptr = b + 4 /\ KallocLeaves(m, A, r.mem, b, a, H2)
  BY <1>1, KallocHeap
<1> HIDE DEF r, a
<1>5. CASE r.ptr = NULL /\ r.mem = m
  BY <1>5 DEF r
<1>6. CASE \E b \in Nat : \E H2 : b \notin A /\ r.ptr = b + 4 /\ KallocLeaves(m, A, r.mem, b, a, H2)
  <2> PICK b \in Nat : \E H2 : b \notin A /\ r.ptr = b + 4 /\ KallocLeaves(m, A, r.mem, b, a, H2)
    BY <1>6
  <2> PICK H2 : b \notin A /\ r.ptr = b + 4 /\ KallocLeaves(m, A, r.mem, b, a, H2)
    OBVIOUS
  <2> PICK m2 : m2 = r.mem
    OBVIOUS
  <2> DEFINE new == Allocation(b + 4, a, a, 0)
             l2 == [l EXCEPT ![i] = new]
  <2>1. r.ptr # NULL
    BY DEF NULL
  <2>2. new.ptr = b + 4 /\ new.size = a /\ new.known = a /\ new.val = 0
    BY AllocationFields
  <2>3. new \in Allocations /\ new # NoAllocation
    <3>1. NoAllocation.ptr = -1
      BY DEF NoAllocation, Allocation, NULL
    <3>2. new \in Allocations
      BY <1>3, SizeFacts DEF Allocation, Allocations
    <3> QED BY <2>2, <3>1, <3>2
  <2> HIDE DEF new
  <2>4. l \in [Slots -> Allocations]
    BY <1>2 DEF LiveOK, Allocations
  <2>5. l2 \in [Slots -> Allocations] /\ l2[i] = new /\ \A j \in Slots \ {i} : l2[j] = l[j]
    BY <2>3, <2>4
  <2> HIDE DEF l2
  <2>6. i \notin HeldIn(l) /\ HeldIn(l2) = HeldIn(l) \cup {i} /\ HeldIn(l) \subseteq Slots \ {i}
    BY <2>3, <2>5 DEF HeldIn
  <2>7. Owned(l2) = A \cup {b}
    <3>1. \A j \in HeldIn(l) : l2[j].ptr - 4 = l[j].ptr - 4
      BY <2>5, <2>6
    <3>2. l2[i].ptr - 4 = b
      BY <2>2, <2>5
    <3>3. Owned(l2) = {l2[j].ptr - 4 : j \in HeldIn(l)} \cup {l2[i].ptr - 4}
      BY <2>6 DEF Owned
    <3>4. {l2[j].ptr - 4 : j \in HeldIn(l)} = A
      BY <3>1 DEF Owned
    <3> QED BY <3>2, <3>3, <3>4
  <2>8. /\ Heap(m2, H2, A \cup {b}) /\ Alternating(m2, H2, A \cup {b})
        /\ Masked(m2, b) = a /\ Kept(m, m2, A)
        /\ \A h \in HalfWords : b + 4 <= 2 * h /\ 2 * h < b + 4 + a => m2[h] = 0
    BY DEF KallocLeaves
  <2>9. \A j \in HeldIn(l) : l[j].ptr - 4 \in A /\ l[j].ptr \in Int /\ l[j] \in Allocations
    BY <2>4 DEF Owned, HeldIn, Allocations
  <2>10. \A j, k \in HeldIn(l2) : l2[j].ptr = l2[k].ptr => j = k
    <3>1. \A j \in HeldIn(l) : l2[j].ptr = l[j].ptr /\ l[j].ptr # b + 4
      BY <2>5, <2>6, <2>9
    <3>2. l2[i].ptr = b + 4
      BY <2>2, <2>5
    <3>3. \A j, k \in HeldIn(l) : l[j].ptr = l[k].ptr => j = k
      BY <1>2 DEF LiveOK
    <3> QED BY <2>6, <3>1, <3>2, <3>3
  <2>11. ASSUME NEW j \in HeldIn(l2)
         PROVE  /\ Masked(m2, l2[j].ptr - 4) = l2[j].size
                /\ l2[j].known = l2[j].size
                /\ \A h \in HalfWords : l2[j].ptr <= 2 * h /\ 2 * h < l2[j].ptr + l2[j].size
                                           => m2[h] = l2[j].val
    <3>1. CASE j \in HeldIn(l)
      <4>1. l2[j] = l[j] /\ l[j].ptr - 4 \in A
        BY <2>5, <2>6, <2>9, <3>1
      <4>2. l[j].known = l[j].size
        BY <1>2, <3>1 DEF LiveOK
      <4>3. /\ Masked(m2, l[j].ptr - 4) = l[j].size
            /\ \A h \in HalfWords : l[j].ptr <= 2 * h /\ 2 * h < l[j].ptr + l[j].size
                                       => m2[h] = l[j].val
        BY <1>2, <2>8, <3>1, <4>1, LiveKept
      <4> QED BY <4>1, <4>2, <4>3
    <3>2. CASE j = i
      <4>1. l2[j].ptr = b + 4 /\ l2[j].size = a /\ l2[j].known = a /\ l2[j].val = 0
        BY <2>2, <2>5, <3>2
      <4>2. (b + 4) - 4 = b
        OBVIOUS
      <4> QED BY <2>8, <4>1, <4>2
    <3> QED BY <2>6, <3>1, <3>2
  <2>12. LiveOK(m2, l2)
    BY <2>5, <2>10, <2>11 DEF LiveOK, Allocations
  <2>13. HeapOK(m2, l2)
    BY <2>7, <2>8, <2>12 DEF HeapOK
  <2> QED BY <2>1, <2>13 DEF l2, new, r, a
<1> QED BY <1>4, <1>5, <1>6

LEMMA StepKfree ==
  ASSUME NEW m, NEW l, HeapOK(m, l), NEW i \in Slots, l[i] # NoAllocation,
         HEAP_SIZE <= Span \/ ~Allocated(m, Limit - 4)
  PROVE  HeapOK(KfreeResult(m, l[i].ptr), [l EXCEPT ![i] = NoAllocation])
<1> DEFINE A == Owned(l)
           b == l[i].ptr - 4
           l2 == [l EXCEPT ![i] = NoAllocation]
<1>1. PICK H : Heap(m, H, A) /\ Alternating(m, H, A)
  BY DEF HeapOK
<1>2. LiveOK(m, l)
  BY DEF HeapOK
<1>3. l \in [Slots -> Allocations]
  BY <1>2 DEF LiveOK, Allocations
<1>4. i \in HeldIn(l) /\ b \in A /\ b + 4 = l[i].ptr
  BY <1>3 DEF HeldIn, Owned, Allocations
<1> DEFINE m2 == KfreeResult(m, b + 4)
<1>5. PICK H2 : Heap(m2, H2, A \ {b}) /\ Alternating(m2, H2, A \ {b}) /\ Kept(m, m2, A \ {b})
  <2> HIDE DEF A, b
  <2> QED BY <1>1, <1>4, KfreeHeap
<1>6. KfreeResult(m, l[i].ptr) = m2
  BY <1>4
<1> HIDE DEF m2
<1>7. NoAllocation \in Allocations
  BY SizeFacts DEF NoAllocation, Allocation, NULL, Allocations
<1>8. /\ l2 \in [Slots -> Allocations] /\ l2[i] = NoAllocation
      /\ \A j \in Slots \ {i} : l2[j] = l[j]
  BY <1>3, <1>7
<1> HIDE DEF l2
<1>9. HeldIn(l2) = HeldIn(l) \ {i}
  BY <1>8 DEF HeldIn
<1>10. \A j \in HeldIn(l2) : l2[j] = l[j] /\ l[j].ptr # l[i].ptr /\ l[j].ptr \in Int
  <2> TAKE j \in HeldIn(l2)
  <2>1. j \in HeldIn(l) /\ j # i /\ j \in Slots \ {i}
    BY <1>9 DEF HeldIn
  <2>2. l[j].ptr # l[i].ptr
    BY <1>2, <1>4, <2>1 DEF LiveOK
  <2> QED BY <1>3, <1>8, <2>1, <2>2 DEF Allocations
<1>11. Owned(l2) = A \ {b}
  <2>1. Owned(l2) = {l[j].ptr - 4 : j \in HeldIn(l) \ {i}}
    BY <1>9, <1>10 DEF Owned
  <2>2. \A j \in HeldIn(l) \ {i} : l[j].ptr - 4 # l[i].ptr - 4
    <3> TAKE j \in HeldIn(l) \ {i}
    <3>1. l[j].ptr # l[i].ptr /\ l[j].ptr \in Int /\ l[i].ptr \in Int
      BY <1>3, <1>9, <1>10 DEF Allocations
    <3> QED BY <3>1
  <2> QED BY <1>4, <2>1, <2>2 DEF Owned
<1>12. LiveOK(m2, l2)
  <2>1. \A j, k \in HeldIn(l2) : l2[j].ptr = l2[k].ptr => j = k
    BY <1>2, <1>9, <1>10 DEF LiveOK
  <2>2. ASSUME NEW j \in HeldIn(l2)
        PROVE  /\ Masked(m2, l2[j].ptr - 4) = l2[j].size
               /\ l2[j].known = l2[j].size
               /\ \A h \in HalfWords : l2[j].ptr <= 2 * h /\ 2 * h < l2[j].ptr + l2[j].size
                                          => m2[h] = l2[j].val
    <3>1. j \in HeldIn(l) /\ l2[j] = l[j] /\ l[j].ptr - 4 \in A \ {b}
      <4>1. l2[j].ptr - 4 \in A \ {b}
        BY <1>11 DEF Owned
      <4> QED BY <1>9, <1>10, <4>1
    <3>2. l[j].known = l[j].size
      BY <1>2, <3>1 DEF LiveOK
    <3>3. /\ Masked(m2, l[j].ptr - 4) = l[j].size
          /\ \A h \in HalfWords : l[j].ptr <= 2 * h /\ 2 * h < l[j].ptr + l[j].size
                                     => m2[h] = l[j].val
      BY <1>2, <1>5, <3>1, LiveKept
    <3> QED BY <3>1, <3>2, <3>3
  <2> QED BY <1>8, <2>1, <2>2 DEF LiveOK, Allocations
<1>13. HeapOK(m2, l2)
  BY <1>5, <1>11, <1>12 DEF HeapOK
<1> QED BY <1>6, <1>13 DEF l2

LEMMA StepFill ==
  ASSUME NEW m, NEW l, HeapOK(m, l), NEW i \in Slots, l[i] # NoAllocation
  PROVE  HeapOK(memset(m, l[i].ptr, Stamp, l[i].size),
                [l EXCEPT ![i].known = l[i].size, ![i].val = Stamp])
<1> DEFINE A == Owned(l)
           b == l[i].ptr - 4
           s == l[i].size
           l2 == [l EXCEPT ![i].known = l[i].size, ![i].val = Stamp]
           m2 == memset(m, l[i].ptr, Stamp, l[i].size)
<1>1. PICK H : Heap(m, H, A) /\ Alternating(m, H, A)
  BY DEF HeapOK
<1>2. LiveOK(m, l)
  BY DEF HeapOK
<1>3. l \in [Slots -> Allocations]
  BY <1>2 DEF LiveOK, Allocations
<1>4. i \in HeldIn(l) /\ b \in A /\ b + 4 = l[i].ptr /\ Masked(m, b) = s
  BY <1>2, <1>3 DEF HeldIn, Owned, Allocations, LiveOK
<1>5. A \subseteq H \ {Limit} /\ m \in Memory /\ b \in H \ {Limit}
  BY <1>1, <1>4 DEF Heap
<1> DEFINE e == NextOf(m, b)
<1> HIDE DEF A, b, s
<1>6. /\ b \in Nat /\ b % 8 = 0 /\ s \in Nat /\ s % 8 = 0
      /\ e \in H /\ e \in Nat /\ b \in Places /\ FootOf(m, b) \in Places
  BY <1>1, <1>4, <1>5, BlockFacts
<1>7. e = b + s + 8 /\ FootOf(m, b) = b + s + 4
  BY <1>4, <1>6 DEF NextOf, FootOf
<1> HIDE DEF e
<1>8. /\ m2 \in Memory
      /\ \A h \in HalfWords : b + 4 <= 2 * h /\ 2 * h < b + 4 + s => m2[h] = Stamp
      /\ Outside(m, m2, b + 4, b + 4 + s)
  <2>1. /\ b + 4 \in Nat /\ (b + 4) % 4 = 0 /\ s % 4 = 0 /\ Stamp \in 0 .. Span - 1
        /\ b + 4 + s \in Nat /\ (b + 4 + s) % 4 = 0
    BY <1>6, HeapConstants
  <2>2. m2 = memset(m, b + 4, Stamp, s)
    BY <1>4 DEF s
  <2> HIDE DEF m2
  <2>3. m2 \in Memory /\ Filled(m, m2, b + 4, s, Stamp)
    BY <1>5, <1>6, <2>1, <2>2, MemsetWords
  <2> QED BY <2>1, <2>3, OutsideWords DEF Filled
<1> HIDE DEF m2
<1>9. Outside(m, m2, b, e)
  <2>1. b <= b + 4 /\ b + 4 + s <= e /\ {b, e, b + 4, b + 4 + s} \subseteq Int
    BY <1>6, <1>7
  <2>2. Outside(m, m, b, e)
    BY DEF Outside
  <2> QED BY <1>8, <2>1, <2>2, OutsideTrans
<1>10. Low(m2, b) = Low(m, b) /\ High(m2, b) = High(m, b) /\ Low(m2, b + s + 4) = Low(m, b + s + 4)
  <2>1. b < b + 4 /\ b + s + 4 >= b + 4 + s /\ b + s + 4 \in Places
    BY <1>6, <1>7
  <2> QED BY <1>6, <1>8, <2>1 DEF Outside
<1>11. Masked(m2, b) = s /\ Allocated(m2, b)
  <2>1. Allocated(m, b)
    BY <1>1, <1>4 DEF Heap
  <2> QED BY <1>4, <1>10, <2>1 DEF Masked, Allocated, Low
<1>12. NextOf(m2, b) = e /\ Tagged(m2, b)
  <2>1. NextOf(m2, b) = e /\ FootOf(m2, b) = b + s + 4
    BY <1>6, <1>7, <1>11 DEF NextOf, FootOf
  <2>2. Tagged(m, b)
    BY <1>1, <1>4, <1>5, AllocatedTagged
  <2> QED BY <1>7, <1>10, <2>1, <2>2 DEF Tagged
<1>13. \A o \in H : o # b => o < b \/ o >= e
  BY <1>1, <1>5, BesideBlock DEF e
<1>14. b < e /\ ~(b < b) /\ ~(b >= e)
  BY <1>6, <1>7
<1>15. Heap(m2, H, A)
  <2> DEFINE N == {b}
  <2>1. N \in SUBSET (b .. e - 1) /\ b \in N
    BY <1>6, <1>14
  <2>2. \A o \in N : /\ o % 8 = 0 /\ NextOf(m2, o) \in N \cup {e}
                     /\ \A p \in N \cup {e} : p <= o \/ NextOf(m2, o) <= p
                     /\ Tagged(m2, o)
    BY <1>6, <1>12
  <2>3. {o \in H : o < b \/ o >= e} \cup N = H
    BY <1>5, <1>13
  <2>4. {o \in A : o < b \/ o >= e} \cup {o \in N : Allocated(m2, o)} = A
    BY <1>4, <1>5, <1>11, <1>13
  <2> HIDE DEF N
  <2>5. Heap(m2, {o \in H : o < b \/ o >= e} \cup N,
                 {o \in A : o < b \/ o >= e} \cup {o \in N : Allocated(m2, o)})
    BY <1>1, <1>5, <1>6, <1>8, <1>9, <1>14, <2>1, <2>2, Rebuild
  <2> QED BY <2>3, <2>4, <2>5
<1>16. \A o \in H \ {Limit} : NextOf(m2, o) = NextOf(m, o)
  <2> TAKE o \in H \ {Limit}
  <2>1. CASE o = b
    BY <1>12, <2>1 DEF e
  <2>2. CASE o # b
    <3>1. o < b \/ o >= e
      BY <1>13, <2>2
    <3>2. Masked(m2, o) = Masked(m, o)
      BY <1>1, <1>5, <1>6, <1>8, <1>9, <1>14, <3>1, BlocksKept
    <3> QED BY <3>2 DEF NextOf
  <2> QED BY <2>1, <2>2
<1>17. Alternating(m2, H, A)
  BY <1>1, <1>16 DEF Alternating
<1>18. Kept(m, m2, A \ {b})
  <2>1. A \ {b} \in SUBSET (H \ {Limit}) /\ \A o \in A \ {b} : o < b \/ o >= e
    BY <1>5, <1>13
  <2> QED BY <1>1, <1>5, <1>6, <1>8, <1>9, <1>14, <2>1, KeptBeside
<1>19. /\ l2 \in [Slots -> Allocations]
       /\ l2[i].ptr = l[i].ptr /\ l2[i].size = l[i].size
       /\ l2[i].known = l[i].size /\ l2[i].val = Stamp
       /\ \A j \in Slots \ {i} : l2[j] = l[j]
  <2> DEFINE new == [l[i] EXCEPT !.known = l[i].size, !.val = Stamp]
  <2>1. l2 = [l EXCEPT ![i] = new]
    BY <1>3
  <2>2. l[i] \in Allocations /\ Stamp \in 0 .. Span - 1
    BY <1>3, HeapConstants
  <2>3. /\ new \in Allocations /\ new.ptr = l[i].ptr /\ new.size = l[i].size
        /\ new.known = l[i].size /\ new.val = Stamp
    BY <2>2 DEF Allocations
  <2> HIDE DEF new, l2
  <2> QED BY <1>3, <2>1, <2>3
<1> HIDE DEF l2
<1>20. HeldIn(l2) = HeldIn(l) /\ \A j \in HeldIn(l2) : l2[j].ptr = l[j].ptr
  <2>1. l2[i] # NoAllocation
    <3>1. NoAllocation.ptr = -1
      BY DEF NoAllocation, Allocation, NULL
    <3>2. l[i].ptr # -1
      BY <1>4, <1>6
    <3> QED BY <1>19, <3>1, <3>2
  <2>2. HeldIn(l2) = HeldIn(l)
    BY <1>19, <2>1 DEF HeldIn
  <2>3. \A j \in HeldIn(l2) : l2[j].ptr = l[j].ptr
    BY <1>19 DEF HeldIn
  <2> QED BY <2>2, <2>3
<1>21. Owned(l2) = A
  BY <1>20 DEF Owned, A
<1>22. LiveOK(m2, l2)
  <2>1. \A j, k \in HeldIn(l2) : l2[j].ptr = l2[k].ptr => j = k
    BY <1>2, <1>20 DEF LiveOK
  <2>2. ASSUME NEW j \in HeldIn(l2)
        PROVE  /\ Masked(m2, l2[j].ptr - 4) = l2[j].size
               /\ l2[j].known = l2[j].size
               /\ \A h \in HalfWords : l2[j].ptr <= 2 * h /\ 2 * h < l2[j].ptr + l2[j].size
                                          => m2[h] = l2[j].val
    <3>1. CASE j = i
      <4>1. l2[j].ptr = b + 4 /\ l2[j].size = s /\ l2[j].known = s /\ l2[j].val = Stamp
        BY <1>4, <1>19, <3>1 DEF s
      <4>2. (b + 4) - 4 = b
        BY <1>6
      <4> QED BY <1>8, <1>11, <4>1, <4>2
    <3>2. CASE j # i
      <4>1. j \in HeldIn(l) /\ l2[j] = l[j]
        BY <1>19, <1>20, <3>2 DEF HeldIn
      <4>2. l[j].ptr - 4 \in A \ {b}
        <5>1. l[j].ptr # l[i].ptr
          BY <1>2, <1>4, <3>2, <4>1 DEF LiveOK
        <5>2. l[j].ptr \in Int /\ l[i].ptr \in Int
          BY <1>3, <4>1 DEF HeldIn, Allocations
        <5>3. l[j].ptr - 4 # l[i].ptr - 4
          BY <5>1, <5>2
        <5> QED BY <4>1, <5>3 DEF A, Owned, b
      <4>3. l[j].known = l[j].size
        BY <1>2, <4>1 DEF LiveOK
      <4>4. /\ Masked(m2, l[j].ptr - 4) = l[j].size
            /\ \A h \in HalfWords : l[j].ptr <= 2 * h /\ 2 * h < l[j].ptr + l[j].size
                                       => m2[h] = l[j].val
        BY <1>2, <1>18, <4>1, <4>2, LiveKept
      <4> QED BY <4>1, <4>3, <4>4
    <3> QED BY <3>1, <3>2
  <2> QED BY <1>19, <2>1, <2>2 DEF LiveOK, Allocations
<1>23. HeapOK(m2, l2)
  BY <1>15, <1>17, <1>21, <1>22 DEF HeapOK
<1> QED BY <1>23 DEF m2, l2

LEMMA NextHeap ==
  ASSUME Aligned
  PROVE  HeapInv /\ InReach /\ [Next]_vars => HeapInv'
<1> SUFFICES ASSUME HeapOK(mem, live), InReach, [Next]_vars PROVE HeapOK(mem', live')
  BY DEF HeapInv
<1>1. ASSUME NEW i \in Slots, NEW size \in Sizes, kalloc(i, size) PROVE HeapOK(mem', live')
  BY <1>1, StepKalloc DEF kalloc
<1>2. ASSUME NEW i \in Slots, kfree(i) PROVE HeapOK(mem', live')
  BY <1>2, StepKfree DEF kfree, InReach, FOOTER_SIZE
<1>3. ASSUME NEW i \in Slots, Fill(i) PROVE HeapOK(mem', live')
  BY <1>3, StepFill DEF Fill
<1>4. CASE UNCHANGED vars
  BY <1>4 DEF vars
<1> QED BY <1>1, <1>2, <1>3, <1>4 DEF Next

-----------------------------------------------------------------------------
(* What the invariant says about the properties. *)

\* The headers that are met from the start of the heap are all of them.
LEMMA ChainIsHeaders ==
  ASSUME NEW H, NEW A, Heap(mem, H, A)
  PROVE  Chain = H
<1> DEFINE stop == {o \in Offsets : o >= Limit}
           w == Walk(mem, stop)
           Met(i) == \A p \in H : p <= w[i] => \E j \in 0 .. i : w[j] = p
           S == {i \in 0 .. Iterations : w[i] \in H /\ Met(i) /\ (w[i] = Limit \/ w[i] >= 8 * i)}
<1>1. /\ mem \in Memory /\ H \subseteq 0 .. Limit /\ 0 \in H /\ Limit \in H
      /\ Limit \in Nat /\ Limit <= HEAP_SIZE
  BY LimitFacts DEF Heap, Tiled
<1>2. /\ w \in [0 .. Iterations -> Nat]
      /\ w[0] = 0
      /\ \A i \in 1 .. Iterations :
            w[i] = IF w[i - 1] \in stop THEN w[i - 1]
                   ELSE w[i - 1] + Masked(mem, w[i - 1]) + MDATA_SIZE
  <2> HIDE DEF stop
  <2> QED BY <1>1, WalkSteps
<1>3. Iterations \in Nat /\ 8 * Iterations = HEAP_SIZE
  BY SizeFacts DEF Iterations, MDATA_SIZE
<1>4. \A o \in H : o \in Nat /\ o <= Limit /\ (o \in stop <=> o = Limit)
  BY <1>1, SizeFacts DEF Offsets, MDATA_SIZE
<1>5. Chain = {w[i] : i \in 0 .. Iterations}
  BY DEF Chain
<1> HIDE DEF w, stop
<1>6. 0 .. Iterations \subseteq S
  <2>1. 0 \in S
    <3>1. Met(0)
      <4> TAKE p \in H
      <4> HAVE p <= w[0]
      <4>1. p = w[0] /\ 0 \in 0 .. 0
        BY <1>2, <1>4
      <4> QED BY <4>1
    <3> HIDE DEF Met
    <3> QED BY <1>1, <1>2, <1>3, <3>1
  <2>2. ASSUME NEW i \in 0 .. Iterations - 1, i \in S PROVE i + 1 \in S
    <3>1. i + 1 \in 1 .. Iterations /\ (i + 1) - 1 = i /\ i + 1 \in 0 .. Iterations
      BY <1>3
    <3>2. w[i + 1] = IF w[i] \in stop THEN w[i] ELSE w[i] + Masked(mem, w[i]) + 8
      BY <1>2, <3>1 DEF MDATA_SIZE
    <3>3. w[i] \in H /\ Met(i) /\ (w[i] = Limit \/ w[i] >= 8 * i)
      BY <2>2
    <3>4. \A j \in 0 .. i : j \in 0 .. i + 1
      BY <1>3
    <3>5. CASE w[i] = Limit
      <4>1. w[i + 1] = w[i]
        BY <1>4, <3>2, <3>3, <3>5
      <4>2. Met(i + 1)
        BY <3>3, <3>4, <4>1
      <4> HIDE DEF Met
      <4> QED BY <3>1, <3>3, <3>5, <4>1, <4>2
    <3>6. CASE w[i] # Limit
      <4>1. PICK o \in H \ {Limit} : o = w[i]
        BY <3>3, <3>6
      <4>2. w[i + 1] = NextOf(mem, o)
        BY <1>4, <3>2, <4>1 DEF NextOf
      <4>3. /\ NextOf(mem, o) \in H /\ NextOf(mem, o) \in Nat /\ o \in Nat
            /\ NextOf(mem, o) >= o + 8
        BY <4>1, BlockFacts DEF NextOf
      <4>4. Met(i + 1)
        <5> SUFFICES ASSUME NEW p \in H, p <= w[i + 1]
                     PROVE  \E j \in 0 .. i + 1 : w[j] = p
          OBVIOUS
        <5>1. CASE p <= o
          <6>1. PICK j \in 0 .. i : w[j] = p
            BY <3>3, <4>1, <5>1
          <6> QED BY <3>4, <6>1
        <5>2. CASE ~(p <= o)
          <6>1. NextOf(mem, o) <= p
            BY <5>2, BlocksApart
          <6>2. p = w[i + 1] /\ i + 1 \in 0 .. i + 1
            BY <1>4, <3>1, <4>2, <4>3, <6>1
          <6> QED BY <6>2
        <5> QED BY <5>1, <5>2
      <4>5. o >= 8 * i
        BY <3>3, <3>6, <4>1
      <4>6. w[i + 1] >= 8 * (i + 1)
        BY <3>1, <4>2, <4>3, <4>5
      <4> HIDE DEF Met
      <4> QED BY <3>1, <4>2, <4>3, <4>4, <4>6
    <3> QED BY <3>5, <3>6
  <2> HIDE DEF S
  <2> QED BY <1>3, <2>1, <2>2, UpTo
<1>7. \A i \in 0 .. Iterations : w[i] \in H
  BY <1>6
<1>8. Iterations \in S
  BY <1>3, <1>6
<1>9. w[Iterations] = Limit
  <2>1. w[Iterations] \in H /\ (w[Iterations] = Limit \/ w[Iterations] >= 8 * Iterations)
    BY <1>8
  <2> PICK o \in H : o = w[Iterations]
    BY <2>1
  <2>2. o = Limit \/ o >= HEAP_SIZE
    BY <1>3, <2>1
  <2>3. o \in Nat /\ o <= Limit
    BY <1>4
  <2> QED BY <1>1, <2>2, <2>3, SizeFacts
<1>10. \A p \in H : \E j \in 0 .. Iterations : w[j] = p
  BY <1>4, <1>8, <1>9
<1> QED BY <1>5, <1>7, <1>10

\* The blocks of the callers.
LEMMA HeldBlocks ==
  ASSUME HeapInv
  PROVE  /\ Held = HeldIn(live)
         /\ \E H : /\ Heap(mem, H, Owned(live)) /\ Alternating(mem, H, Owned(live))
                   /\ \A i \in Held :
                        /\ live[i].ptr \in Nat /\ live[i].size \in Nat
                        /\ live[i].ptr >= 4 /\ live[i].ptr % 4 = 0 /\ live[i].size % 4 = 0
                        /\ live[i].known = live[i].size
                        /\ live[i].ptr - 4 \in H \ {Limit}
                        /\ Masked(mem, live[i].ptr - 4) = live[i].size
                        /\ NextOf(mem, live[i].ptr - 4) = live[i].ptr + live[i].size + 4
                        /\ live[i].ptr + live[i].size + 4 <= Limit
<1>1. Held = HeldIn(live)
  BY DEF Held, HeldIn
<1>2. PICK H : Heap(mem, H, Owned(live)) /\ Alternating(mem, H, Owned(live))
  BY DEF HeapInv, HeapOK
<1>3. LiveOK(mem, live)
  BY DEF HeapInv, HeapOK
<1>4. Owned(live) \subseteq H \ {Limit}
  BY <1>2 DEF Heap
<1>5. ASSUME NEW i \in Held
      PROVE  /\ live[i].ptr \in Nat /\ live[i].size \in Nat
             /\ live[i].ptr >= 4 /\ live[i].ptr % 4 = 0 /\ live[i].size % 4 = 0
             /\ live[i].known = live[i].size
             /\ live[i].ptr - 4 \in H \ {Limit}
             /\ Masked(mem, live[i].ptr - 4) = live[i].size
             /\ NextOf(mem, live[i].ptr - 4) = live[i].ptr + live[i].size + 4
             /\ live[i].ptr + live[i].size + 4 <= Limit
  <2>1. PICK o \in H \ {Limit} : o = live[i].ptr - 4
    BY <1>1, <1>4 DEF Owned
  <2>2. Masked(mem, o) = live[i].size /\ live[i].known = live[i].size
    BY <1>1, <1>3, <2>1 DEF LiveOK
  <2>3. live[i].ptr \in Int /\ live[i].size \in Nat
    BY <1>1, <1>3 DEF LiveOK, HeldIn
  <2>4. /\ o \in Nat /\ o % 8 = 0 /\ Masked(mem, o) % 8 = 0
        /\ o + Masked(mem, o) + 8 <= Limit
    BY <1>2, BlockFacts
  <2>5. live[i].ptr = o + 4
    BY <2>1, <2>3
  <2> QED BY <2>1, <2>2, <2>3, <2>4, <2>5 DEF NextOf
<1> QED BY <1>1, <1>2, <1>5

LEMMA InvSound == HeapInv => HeapSound
<1> SUFFICES ASSUME HeapInv PROVE HeapSound
  OBVIOUS
<1> DEFINE A == Owned(live)
<1>1. PICK H : /\ Heap(mem, H, A) /\ Alternating(mem, H, A)
               /\ \A i \in Held :
                        /\ live[i].ptr \in Nat /\ live[i].size \in Nat
                        /\ live[i].ptr >= 4 /\ live[i].ptr % 4 = 0 /\ live[i].size % 4 = 0
                        /\ live[i].known = live[i].size
                        /\ live[i].ptr - 4 \in H \ {Limit}
                        /\ Masked(mem, live[i].ptr - 4) = live[i].size
                        /\ NextOf(mem, live[i].ptr - 4) = live[i].ptr + live[i].size + 4
                        /\ live[i].ptr + live[i].size + 4 <= Limit
  BY HeldBlocks
<1>2. Limit \in Nat /\ Limit >= 8 /\ Limit <= HEAP_SIZE
  BY LimitFacts
<1>3. A = {o \in H \ {Limit} : Allocated(mem, o)} /\ mem \in Memory /\ 0 \in H /\ Limit \in H
  BY <1>1 DEF Heap, Tiled
<1>4. TypeOK
  BY <1>1, <1>2, <1>3, SizeFacts DEF TypeOK, Memory, HEADER_SIZE, FOOTER_SIZE
<1>5. LiveDisjoint
  <2> SUFFICES ASSUME NEW i \in Held, NEW j \in Held, i # j
               PROVE  Bytes(i) \cap Bytes(j) = {}
    BY DEF LiveDisjoint
  <2>1. live[i].ptr # live[j].ptr
    BY HeldBlocks DEF HeapInv, HeapOK, LiveOK
  <2>2. PICK o \in H \ {Limit} : o = live[i].ptr - 4
    BY <1>1
  <2>3. PICK p \in H \ {Limit} : p = live[j].ptr - 4
    BY <1>1
  <2>4. /\ live[i].ptr \in Nat /\ live[i].size \in Nat /\ live[j].ptr \in Nat /\ live[j].size \in Nat
        /\ NextOf(mem, o) = live[i].ptr + live[i].size + 4
        /\ NextOf(mem, p) = live[j].ptr + live[j].size + 4
    BY <1>1, <2>2, <2>3
  <2>5. (p <= o \/ NextOf(mem, o) <= p) /\ (o <= p \/ NextOf(mem, p) <= o)
    BY <1>1, BlocksApart
  <2>6. live[i].ptr + live[i].size <= live[j].ptr \/ live[j].ptr + live[j].size <= live[i].ptr
    BY <2>1, <2>2, <2>3, <2>4, <2>5
  <2> QED BY <2>4, <2>6 DEF Bytes
<1>6. HeapTiled
  <2>1. Chain = H
    BY <1>1, ChainIsHeaders
  <2>2. {live[i].ptr - HEADER_SIZE : i \in Held} = A
    BY HeldBlocks DEF Owned, HEADER_SIZE
  <2> HIDE DEF A
  <2> QED BY <1>3, <2>1, <2>2 DEF HeapTiled
<1>7. AllMerged
  <2> SUFFICES ASSUME Held = {} PROVE Masked(mem, 0) = Limit - MDATA_SIZE /\ ~Allocated(mem, 0)
    BY DEF AllMerged
  <2>1. A = {}
    BY HeldBlocks DEF Owned
  <2>2. 0 \in H \ {Limit}
    BY <1>2, <1>3
  <2>3. ~Allocated(mem, 0)
    BY <1>3, <2>1, <2>2
  <2>4. NextOf(mem, 0) = Limit
    BY <1>1, <2>1, <2>2 DEF Alternating
  <2>5. Masked(mem, 0) \in Nat
    BY <1>1, <2>2, BlockFacts
  <2> QED BY <1>2, <2>3, <2>4, <2>5 DEF NextOf, MDATA_SIZE
<1>8. FreedIsFree
  BY <1>1 DEF FreedIsFree, HEADER_SIZE, MDATA_SIZE
<1> QED BY <1>4, <1>5, <1>6, <1>7, <1>8 DEF HeapSound

LEMMA InvContents == HeapInv => ContentsKept
<1> SUFFICES ASSUME HeapInv, NEW i \in Held,
                    NEW h \in live[i].ptr \div 2 .. (live[i].ptr + live[i].known) \div 2 - 1
             PROVE  HalfWord(mem, h) = live[i].val
  BY DEF ContentsKept
<1>1. PICK p \in Nat, s \in Nat :
         /\ p = live[i].ptr /\ s = live[i].size /\ live[i].known = s
         /\ p >= 4 /\ p % 4 = 0 /\ s % 4 = 0 /\ p + s + 4 <= Limit
  BY HeldBlocks
<1>2. h \in p \div 2 .. (p + s) \div 2 - 1
  BY <1>1
<1>3. h \in Int /\ p <= 2 * h /\ 2 * h < p + s
  BY <1>1, <1>2
<1>4. h \in HalfWords
  BY <1>1, <1>3, LimitFacts, SizeFacts DEF HalfWords
<1>5. mem[h] = live[i].val
  <2>1. \A k \in HalfWords : live[i].ptr <= 2 * k /\ 2 * k < live[i].ptr + live[i].size
                                => mem[k] = live[i].val
    BY HeldBlocks DEF HeapInv, HeapOK, LiveOK
  <2> QED BY <1>1, <1>3, <1>4, <2>1
<1> QED BY <1>4, <1>5 DEF HalfWord

\* In every sequence of calls of kalloc and kfree the tags describe the heap
\* that the callers see: allocations are disjoint, the headers tile the heap,
\* exactly the blocks that are held are marked, each as large as was asked,
\* and with nothing held the heap is one free block again.  A heap that the
\* mask shows in full satisfies InReach by its size.
THEOREM HeapSafe ==
  ASSUME Aligned
  PROVE  Spec /\ []InReach => []HeapSound
<1>1. HeapInv /\ InReach /\ [Next]_vars => HeapInv'
  BY NextHeap
<1> QED BY <1>1, InitHeap, InvSound, PTL DEF Spec

\* ... and no call writes into memory that another caller holds.
THEOREM ContentsSafe ==
  ASSUME Aligned
  PROVE  Spec /\ []InReach => []ContentsKept
<1>1. HeapInv /\ InReach /\ [Next]_vars => HeapInv'
  BY NextHeap
<1> QED BY <1>1, InitHeap, InvContents, PTL DEF Spec

\* In a heap that the mask shows in full both hold without a condition.
THEOREM SmallHeapSafe ==
  ASSUME Aligned, HEAP_SIZE <= Span
  PROVE  Spec => [](HeapSound /\ ContentsKept)
<1>1. InReach
  BY DEF InReach
<1> QED BY <1>1, HeapSafe, ContentsSafe, PTL

-----------------------------------------------------------------------------
(* One caller, which also resizes.  Sizes need not be multiples of the     *)
(* tags here: a tag may lie at any even offset.                            *)

Spots == {o \in 0 .. HEAP_SIZE - 4 : o % 2 = 0}

LEMMA SpotFacts ==
  ASSUME NEW o \in Spots
  PROVE  /\ o \div 2 \in HalfWords /\ o \div 2 + 1 \in HalfWords /\ o \div 2 \in Int
         /\ o = 2 * (o \div 2)
<1>1. o \in 0 .. HEAP_SIZE - 4 /\ o % 2 = 0
  BY DEF Spots
<1> QED BY <1>1, SizeFacts DEF HalfWords

\* Two memories agree outside of the bytes lo .. hi - 1.
Elsewhere(m, m2, lo, hi) ==
    /\ \A p \in Spots : p + 4 <= lo \/ p >= hi => Low(m2, p) = Low(m, p) /\ High(m2, p) = High(m, p)
    /\ \A h \in HalfWords : 2 * h < lo \/ 2 * h >= hi => m2[h] = m[h]

LEMMA ElsewhereWords ==
  ASSUME NEW m, NEW m2, NEW lo \in Nat, NEW hi \in Nat,
         \A h \in HalfWords : 2 * h < lo \/ 2 * h >= hi => m2[h] = m[h]
  PROVE  Elsewhere(m, m2, lo, hi)
<1> SUFFICES ASSUME NEW p \in Spots, p + 4 <= lo \/ p >= hi
             PROVE  Low(m2, p) = Low(m, p) /\ High(m2, p) = High(m, p)
  BY DEF Elsewhere
<1> DEFINE k == p \div 2
<1>1. k \in HalfWords /\ k + 1 \in HalfWords /\ p = 2 * k /\ k \in Int
  BY SpotFacts
<1> HIDE DEF k
<1>2. 2 * k < lo \/ 2 * k >= hi
  BY <1>1
<1>3. 2 * (k + 1) < lo \/ 2 * (k + 1) >= hi
  BY <1>1
<1>4. m2[k] = m[k] /\ m2[k + 1] = m[k + 1]
  BY <1>1, <1>2, <1>3
<1> QED BY <1>1, <1>4 DEF Low, High, HalfWord, k

\* What Put writes at an even offset.
LEMMA PutSpot ==
  ASSUME NEW m \in Memory, NEW o \in Spots, NEW tag \in 0 .. Span - 1
  PROVE  /\ Put(m, o, tag) \in Memory
         /\ Low(Put(m, o, tag), o) = tag
         /\ High(Put(m, o, tag), o) = 0
         /\ Elsewhere(m, Put(m, o, tag), o, o + 4)
<1> DEFINE k == o \div 2
           m2 == Put(m, o, tag)
<1>1. tag % Span = tag /\ (tag \div Span) % Span = 0
  <2>1. tag % Span = tag /\ tag \div Span = 0
    BY SizeFacts
  <2> QED BY <2>1, SizeFacts
<1>2. k \in HalfWords /\ k + 1 \in HalfWords /\ o = 2 * k /\ k \in Int /\ k >= 0
  BY SpotFacts DEF HalfWords
<1>3. m2 = [h \in HalfWords |-> IF h = k THEN tag ELSE IF h = k + 1 THEN 0 ELSE m[h]]
  BY <1>1 DEF Put
<1> HIDE DEF k, m2
<1>4. m2 \in Memory
  BY <1>3, SizeFacts DEF Memory
<1>5. m2[k] = tag /\ m2[k + 1] = 0
  BY <1>2, <1>3
<1>6. \A h \in HalfWords : 2 * h < o \/ 2 * h >= o + 4 => m2[h] = m[h]
  <2>1. \A h \in HalfWords : h \in Int
    BY DEF HalfWords
  <2> TAKE h \in HalfWords
  <2> HAVE 2 * h < o \/ 2 * h >= o + 4
  <2>2. h # k /\ h # k + 1
    BY <1>2, <2>1
  <2> QED BY <1>3, <2>2
<1>7. Low(m2, o) = tag /\ High(m2, o) = 0
  BY <1>2, <1>5 DEF Low, High, HalfWord, k
<1>8. Elsewhere(m, m2, o, o + 4)
  <2>1. o \in Nat /\ o + 4 \in Nat
    BY <1>2
  <2> QED BY <1>6, <2>1, ElsewhereWords
<1> QED BY <1>4, <1>7, <1>8 DEF m2

\* What memset writes.
LEMMA MemsetSpot ==
  ASSUME NEW m \in Memory, NEW o \in Nat, NEW len \in Nat, NEW val \in 0 .. Span - 1,
         o % 2 = 0, len % 2 = 0
  PROVE  /\ memset(m, o, val, len) \in Memory
         /\ \A h \in HalfWords : o <= 2 * h /\ 2 * h < o + len => memset(m, o, val, len)[h] = val
         /\ Elsewhere(m, memset(m, o, val, len), o, o + len)
<1> DEFINE m2 == memset(m, o, val, len)
<1>1. \A h \in HalfWords : h \in Int
  BY DEF HalfWords
<1>2. \A h \in Int : h \in o \div 2 .. (o + len) \div 2 - 1 <=> o <= 2 * h /\ 2 * h < o + len
  OBVIOUS
<1>3. m2 = [h \in HalfWords |-> IF h \in o \div 2 .. (o + len) \div 2 - 1 THEN val ELSE m[h]]
  BY DEF memset
<1>4. m2 \in Memory
  BY <1>3 DEF Memory
<1> HIDE DEF m2
<1>5. \A h \in HalfWords : o <= 2 * h /\ 2 * h < o + len => m2[h] = val
  BY <1>1, <1>2, <1>3
<1>6. \A h \in HalfWords : 2 * h < o \/ 2 * h >= o + len => m2[h] = m[h]
  <2> TAKE h \in HalfWords
  <2> HAVE 2 * h < o \/ 2 * h >= o + len
  <2>1. ~(o <= 2 * h /\ 2 * h < o + len)
    BY <1>1
  <2>2. h \notin o \div 2 .. (o + len) \div 2 - 1
    BY <1>1, <1>2, <2>1
  <2> QED BY <1>3, <2>2
<1>7. Elsewhere(m, m2, o, o + len)
  <2>1. o + len \in Nat
    OBVIOUS
  <2> QED BY <1>6, <2>1, ElsewhereWords
<1> QED BY <1>4, <1>5, <1>7 DEF m2

\* A tag that is left alone reads as before.
LEMMA SameTag ==
  ASSUME NEW m, NEW m2, NEW p, Low(m2, p) = Low(m, p), High(m2, p) = High(m, p)
  PROVE  /\ Masked(m2, p) = Masked(m, p)
         /\ Allocated(m2, p) = Allocated(m, p)
         /\ Tag(m2, p) = Tag(m, p)
BY DEF Low, High, Masked, Allocated, Tag
-----------------------------------------------------------------------------
(* The heap of one caller: one free block, or the caller's block at the    *)
(* start, of a bytes, and at most one free block behind it.                *)

Whole == HEAP_SIZE - 8

\* The request two bytes short of the whole heap's block: split_block writes
\* the second half of the inner footer over the first half of the outer one.
NoClash == \A size \in Sizes : RoundUp(size) # Whole - 2

Free(m) == Low(m, 0) = Whole /\ High(m, 0) = 0 /\ Masked(m, 4 + Whole) = Whole

Lone(m, a) ==
    /\ a \in 0 .. Whole /\ a % 2 = 0
    /\ Low(m, 0) = a + 1 /\ High(m, 0) = 0
    /\ Masked(m, 4 + a) = a
    /\ a = Whole \/ (a + 8 <= Whole /\ Low(m, a + 8) = Whole - a - 8 /\ High(m, a + 8) = 0)

\* Offsets of tags, with a a size in the heap.
LEMMA SpotsAt ==
  ASSUME NEW a \in 0 .. Whole, a % 2 = 0
  PROVE  /\ 0 \in Spots /\ 4 + a \in Spots
         /\ a + 8 <= Whole => a + 8 \in Spots
         /\ Whole \in Nat /\ Whole >= 8 /\ Whole % 8 = 0 /\ Whole \in 0 .. Whole
BY SizeFacts DEF Spots, Whole

\* split_block, in a block that is the whole heap.
LEMMA SplitWhole ==
  ASSUME HEAP_SIZE <= Span, NEW m \in Memory, Masked(m, 0) = Whole, Masked(m, 4 + Whole) = Whole,
         NEW s \in 0 .. Whole, s % 2 = 0, s # Whole - 2
  PROVE  /\ split_block(m, 0, s) \in Memory
         /\ \E a \in s .. Whole : Lone(split_block(m, 0, s), a) /\ a < s + 8
         /\ \A h \in HalfWords : 4 <= 2 * h /\ 2 * h < 4 + s => split_block(m, 0, s)[h] = m[h]
<1> DEFINE m1 == Put(m, 0, s + 1)
           m2 == Put(m1, 4 + s, s + 1)
           m3 == split_block(m, 0, s)
           Same(x, y) == \A h \in HalfWords : 4 <= 2 * h /\ 2 * h < 4 + s => y[h] = x[h]
<1>1. /\ Whole \in Nat /\ Whole >= 8 /\ Whole % 8 = 0 /\ Whole + 8 = HEAP_SIZE /\ Whole < Span - 4
      /\ 0 \in Spots /\ 4 + s \in Spots /\ 4 + Whole \in Spots
      /\ s + 8 <= Whole => s + 8 \in Spots
  BY SpotsAt, SizeFacts DEF Whole
<1>2. s \in Nat /\ s + 1 \in 0 .. Span - 1 /\ Whole + 1 \in 0 .. Span - 1 /\ s < Span /\ Span \in Nat
  BY <1>1, SizeFacts
<1>3. m1 \in Memory /\ Low(m1, 0) = s + 1 /\ High(m1, 0) = 0 /\ Elsewhere(m, m1, 0, 4)
  <2>1. m1 \in Memory /\ Low(m1, 0) = s + 1 /\ High(m1, 0) = 0 /\ Elsewhere(m, m1, 0, 0 + 4)
    BY <1>1, <1>2, PutSpot
  <2> HIDE DEF m1
  <2> QED BY <2>1
<1>4. Masked(m1, 0) = s /\ Tag(m1, 0) = s + 1
  <2>1. Masked(m1, 0) = s
    BY <1>2, <1>3, TagOfSize
  <2>2. Tag(m1, 0) = s + 1
    <3> HIDE DEF m1
    <3>1. Tag(m1, 0) = Low(m1, 0) + Span * High(m1, 0)
      BY DEF Tag, Low, High
    <3> QED BY <1>2, <1>3, <3>1
  <2> QED BY <2>1, <2>2
<1>5. footer_from_header(m1, 0) = 4 + s /\ footer_from_header(m, 0) = 4 + Whole
  BY <1>1, <1>2, <1>4 DEF footer_from_header, HEADER_SIZE
<1>6. next_header(m1, 0) = IF s = Whole THEN NULL ELSE s + 8
  BY <1>1, <1>2, <1>4 DEF next_header, MDATA_SIZE
<1>7. m3 = IF s = Whole THEN m2
           ELSE IF Whole < s + 8
                THEN Put(Put(m2, 0, Whole + 1), 4 + s, Whole + 1)
                ELSE Put(Put(m2, s + 8, Whole - s - 8), 4 + Whole, Whole - s - 8)
  <2> HIDE DEF m1
  <2>1. ~(Whole < s)
    BY <1>1
  <2> QED BY <1>1, <1>2, <1>4, <1>5, <1>6, <2>1 DEF split_block, MDATA_SIZE, m1
<1>8. m2 \in Memory /\ Low(m2, 4 + s) = s + 1 /\ High(m2, 4 + s) = 0 /\ Elsewhere(m1, m2, 4 + s, 8 + s)
  <2> HIDE DEF m1
  <2>1. m2 \in Memory /\ Low(m2, 4 + s) = s + 1 /\ High(m2, 4 + s) = 0
        /\ Elsewhere(m1, m2, 4 + s, (4 + s) + 4)
    BY <1>1, <1>2, <1>3, PutSpot
  <2>2. (4 + s) + 4 = 8 + s
    BY <1>2
  <2> HIDE DEF m2
  <2> QED BY <2>1, <2>2
<1> HIDE DEF m1, m2, m3
<1>9. Low(m2, 0) = s + 1 /\ High(m2, 0) = 0
  <2>1. 0 + 4 <= 4 + s
    BY <1>2
  <2> QED BY <1>1, <1>3, <1>8, <2>1 DEF Elsewhere
<1>10. \A h \in HalfWords : h \in Int
  BY DEF HalfWords
<1>11. Same(m, m2)
  BY <1>2, <1>3, <1>8, <1>10 DEF Elsewhere
<1>12. CASE s = Whole
  <2>1. m3 = m2
    BY <1>7, <1>12
  <2>2. Masked(m3, 4 + Whole) = Whole
    BY <1>1, <1>8, <1>12, <2>1, TagOfSize
  <2>3. Lone(m3, Whole)
    BY <1>1, <1>9, <1>12, <2>1, <2>2 DEF Lone
  <2>4. Whole \in s .. Whole /\ Whole < s + 8
    BY <1>1, <1>12
  <2> QED BY <1>8, <1>11, <2>1, <2>3, <2>4 DEF m3
<1>13. CASE s # Whole /\ Whole < s + 8
  <2> DEFINE m4 == Put(m2, 0, Whole + 1)
  <2>1. m4 \in Memory /\ Low(m4, 0) = Whole + 1 /\ High(m4, 0) = 0 /\ Elsewhere(m2, m4, 0, 4)
    <3>1. m4 \in Memory /\ Low(m4, 0) = Whole + 1 /\ High(m4, 0) = 0 /\ Elsewhere(m2, m4, 0, 0 + 4)
      BY <1>1, <1>2, <1>8, PutSpot
    <3> HIDE DEF m4
    <3> QED BY <3>1
  <2>2. m3 = Put(m4, 4 + s, Whole + 1)
    BY <1>7, <1>13
  <2>3. m3 \in Memory /\ Elsewhere(m4, m3, 4 + s, 8 + s)
    <3> HIDE DEF m4
    <3>1. m3 \in Memory /\ Elsewhere(m4, m3, 4 + s, (4 + s) + 4)
      BY <1>1, <1>2, <2>1, <2>2, PutSpot
    <3>2. (4 + s) + 4 = 8 + s
      BY <1>2
    <3> QED BY <3>1, <3>2
  <2> HIDE DEF m4
  <2>4. Low(m3, 0) = Whole + 1 /\ High(m3, 0) = 0
    <3>1. 0 + 4 <= 4 + s
      BY <1>2
    <3> QED BY <1>1, <2>1, <2>3, <3>1 DEF Elsewhere
  <2>5. s + 4 <= Whole
    BY <1>1, <1>2, <1>13
  <2>6. Low(m3, 4 + Whole) = Low(m, 4 + Whole) /\ High(m3, 4 + Whole) = High(m, 4 + Whole)
    <3>1. 4 + Whole >= 8 + s /\ 4 + Whole >= 4
      BY <1>1, <1>2, <2>5
    <3> QED BY <1>1, <1>3, <1>8, <2>1, <2>3, <3>1 DEF Elsewhere
  <2>7. Masked(m3, 4 + Whole) = Whole
    BY <2>6, SameTag
  <2>8. Lone(m3, Whole)
    BY <1>1, <2>4, <2>7 DEF Lone
  <2>9. Same(m, m3)
    BY <1>2, <1>10, <1>11, <2>1, <2>3 DEF Elsewhere
  <2>10. Whole \in s .. Whole /\ Whole < s + 8
    BY <1>1, <1>13
  <2> QED BY <2>3, <2>8, <2>9, <2>10 DEF m3
<1>14. CASE s # Whole /\ ~(Whole < s + 8)
  <2> DEFINE rest == Whole - s - 8
             m4 == Put(m2, s + 8, rest)
  <2>1. s + 8 <= Whole /\ s + 8 \in Spots /\ rest \in 0 .. Span - 1 /\ rest = Whole - s - 8
    BY <1>1, <1>2, <1>14
  <2> HIDE DEF rest
  <2>2. m4 \in Memory /\ Low(m4, s + 8) = rest /\ High(m4, s + 8) = 0 /\ Elsewhere(m2, m4, s + 8, s + 12)
    <3>1. m4 \in Memory /\ Low(m4, s + 8) = rest /\ High(m4, s + 8) = 0
          /\ Elsewhere(m2, m4, s + 8, (s + 8) + 4)
      BY <1>8, <2>1, PutSpot
    <3>2. (s + 8) + 4 = s + 12
      BY <1>2
    <3> HIDE DEF m4
    <3> QED BY <3>1, <3>2
  <2>3. m3 = Put(m4, 4 + Whole, rest)
    BY <1>7, <1>14 DEF rest
  <2>4. m3 \in Memory /\ Elsewhere(m4, m3, 4 + Whole, 8 + Whole)
    <3> HIDE DEF m4
    <3>1. m3 \in Memory /\ Elsewhere(m4, m3, 4 + Whole, (4 + Whole) + 4)
      BY <1>1, <2>1, <2>2, <2>3, PutSpot
    <3>2. (4 + Whole) + 4 = 8 + Whole
      BY <1>1
    <3> QED BY <3>1, <3>2
  <2> HIDE DEF m4
  <2>5. Low(m3, 0) = s + 1 /\ High(m3, 0) = 0
    <3>1. 0 + 4 <= s + 8 /\ 0 + 4 <= 4 + Whole
      BY <1>1, <1>2
    <3> QED BY <1>1, <1>9, <2>2, <2>4, <3>1 DEF Elsewhere
  <2>6. Low(m3, 4 + s) = s + 1
    <3>1. (4 + s) + 4 <= s + 8 /\ (4 + s) + 4 <= 4 + Whole
      BY <1>1, <1>2, <2>1
    <3> QED BY <1>1, <1>8, <2>2, <2>4, <3>1 DEF Elsewhere
  <2>7. Masked(m3, 4 + s) = s
    BY <1>2, <2>6, TagOfSize
  <2>8. Low(m3, s + 8) = rest /\ High(m3, s + 8) = 0
    <3>1. (s + 8) + 4 <= 4 + Whole
      BY <1>1, <1>2, <2>1
    <3> QED BY <2>1, <2>2, <2>4, <3>1 DEF Elsewhere
  <2>9. Lone(m3, s)
    BY <2>1, <2>5, <2>7, <2>8 DEF Lone
  <2>10. Same(m, m3)
    BY <1>1, <1>2, <1>10, <1>11, <2>1, <2>2, <2>4 DEF Elsewhere
  <2>11. s \in s .. Whole /\ s < s + 8
    BY <1>1, <1>2
  <2> QED BY <2>4, <2>9, <2>10, <2>11 DEF m3
<1> QED BY <1>12, <1>13, <1>14

\* A walk that has stopped stays where it is.
LEMMA WalkStays ==
  ASSUME NEW m \in Memory, NEW stop, NEW j \in 0 .. Iterations, Walk(m, stop)[j] \in stop
  PROVE  \A i \in j .. Iterations : Walk(m, stop)[i] = Walk(m, stop)[j]
<1> DEFINE w == Walk(m, stop)
           S == {i \in 0 .. Iterations : i >= j => w[i] = w[j]}
<1>1. /\ w[0] = 0
      /\ \A i \in 1 .. Iterations : w[i] = IF w[i - 1] \in stop THEN w[i - 1]
                                           ELSE w[i - 1] + Masked(m, w[i - 1]) + MDATA_SIZE
  BY WalkSteps
<1>2. Iterations \in Nat
  BY SizeFacts DEF Iterations, MDATA_SIZE
<1> HIDE DEF w
<1>3. w[j] \in stop
  BY DEF w
<1>4. 0 \in S
  BY <1>2
<1>5. ASSUME NEW i \in 0 .. Iterations - 1, i \in S PROVE i + 1 \in S
  <2>1. i + 1 \in 1 .. Iterations /\ (i + 1) - 1 = i /\ i + 1 \in 0 .. Iterations
    BY <1>2
  <2>2. w[i + 1] = IF w[i] \in stop THEN w[i] ELSE w[i] + Masked(m, w[i]) + MDATA_SIZE
    BY <1>1, <2>1
  <2>3. CASE i >= j
    BY <1>2, <1>3, <1>5, <2>1, <2>2, <2>3
  <2>4. CASE ~(i >= j)
    <3>1. i + 1 >= j => i + 1 = j
      BY <2>4
    <3> QED BY <2>1, <3>1
  <2> QED BY <2>3, <2>4
<1>6. 0 .. Iterations \subseteq S
  <2> HIDE DEF S
  <2> QED BY <1>2, <1>4, <1>5, UpTo
<1>7. \A i \in j .. Iterations : i \in 0 .. Iterations /\ i >= j
  BY <1>2
<1> QED BY <1>6, <1>7 DEF w

\* A walk over at most two blocks.
LEMMA ShortWalk ==
  ASSUME NEW m \in Memory, NEW stop, HEAP_SIZE \in stop,
         0 \in stop \/ 8 + Masked(m, 0) = HEAP_SIZE
           \/ LET p == 8 + Masked(m, 0) IN p \in stop \/ p + Masked(m, p) + 8 = HEAP_SIZE
  PROVE  /\ \A i \in 0 .. Iterations :
               Walk(m, stop)[i] \in {0, 8 + Masked(m, 0), HEAP_SIZE}
         /\ Walk(m, stop)[0] = 0
         /\ 0 \in stop => Walk(m, stop)[Iterations] = 0
         /\ 0 \notin stop => Walk(m, stop)[1] = 8 + Masked(m, 0)
         /\ 0 \notin stop /\ 8 + Masked(m, 0) \in stop
               => Walk(m, stop)[Iterations] = 8 + Masked(m, 0)
         /\ 0 \notin stop /\ 8 + Masked(m, 0) \notin stop
               => Walk(m, stop)[Iterations] = HEAP_SIZE
<1> DEFINE w == Walk(m, stop)
           p == 8 + Masked(m, 0)
<1>1. /\ w[0] = 0
      /\ \A i \in 1 .. Iterations : w[i] = IF w[i - 1] \in stop THEN w[i - 1]
                                           ELSE w[i - 1] + Masked(m, w[i - 1]) + MDATA_SIZE
  BY WalkSteps
<1>2. Iterations \in Nat /\ Iterations >= 2
  BY SizeFacts DEF Iterations, MDATA_SIZE
<1>3. \A j \in 0 .. Iterations : w[j] \in stop => \A i \in j .. Iterations : w[i] = w[j]
  BY WalkStays
<1>4. Masked(m, 0) \in Nat /\ Masked(m, p) \in Nat
  BY TagParts, SizeFacts
<1>5. 1 \in 1 .. Iterations /\ 2 \in 1 .. Iterations /\ 1 - 1 = 0 /\ 2 - 1 = 1
      /\ 0 \in 0 .. Iterations /\ 1 \in 0 .. Iterations /\ 2 \in 0 .. Iterations
      /\ Iterations \in 0 .. Iterations /\ Iterations \in 1 .. Iterations
      /\ Iterations \in 2 .. Iterations
      /\ \A i \in 0 .. Iterations : i = 0 \/ i = 1 \/ i \in 2 .. Iterations
  BY <1>2
<1>6. 0 \in stop \/ p = HEAP_SIZE \/ p \in stop \/ p + Masked(m, p) + 8 = HEAP_SIZE
  BY Zenon
<1> HIDE DEF w
<1>7. CASE 0 \in stop
  <2>1. \A i \in 0 .. Iterations : w[i] = 0
    BY <1>1, <1>3, <1>5, <1>7
  <2> QED BY <1>1, <1>5, <1>7, <2>1 DEF w
<1>8. CASE 0 \notin stop
  <2>1. w[1] = p
    <3>1. w[1] = IF w[1 - 1] \in stop THEN w[1 - 1]
                 ELSE w[1 - 1] + Masked(m, w[1 - 1]) + MDATA_SIZE
      BY <1>1, <1>5
    <3>2. w[1] = 0 + Masked(m, 0) + 8
      BY <1>1, <1>5, <1>8, <3>1 DEF MDATA_SIZE
    <3> QED BY <1>4, <3>2
  <2> HIDE DEF p
  <2>2. CASE p \in stop
    <3>1. \A i \in 1 .. Iterations : w[i] = p
      BY <1>3, <1>5, <2>1, <2>2
    <3>2. \A i \in 0 .. Iterations : i = 0 \/ i \in 1 .. Iterations
      BY <1>2
    <3> QED BY <1>1, <1>5, <1>8, <2>1, <2>2, <3>1, <3>2 DEF w, p
  <2>3. CASE p \notin stop
    <3>1. w[2] = p + Masked(m, p) + 8
      BY <1>1, <1>5, <2>1, <2>3 DEF MDATA_SIZE
    <3>2. p + Masked(m, p) + 8 = HEAP_SIZE
      BY <1>6, <1>8, <2>3
    <3>3. \A i \in 2 .. Iterations : w[i] = HEAP_SIZE
      BY <1>3, <1>5, <3>1, <3>2
    <3> QED BY <1>1, <1>5, <1>8, <2>1, <2>3, <3>3 DEF w, p
  <2> QED BY <2>2, <2>3
<1> QED BY <1>7, <1>8

\* The two blocks, as sizes and bits.
LEMMA LoneFacts ==
  ASSUME NEW m \in Memory, NEW a, Lone(m, a)
  PROVE  /\ Masked(m, 0) = a /\ Allocated(m, 0) /\ a \in Nat
         /\ a # Whole => /\ a + 8 <= Whole /\ a + 8 \in Spots
                         /\ Masked(m, a + 8) = Whole - a - 8
                         /\ ~Allocated(m, a + 8)
                         /\ Tag(m, a + 8) = Whole - a - 8
<1>1. a \in 0 .. Whole /\ a % 2 = 0 /\ Low(m, 0) = a + 1 /\ Whole \in Nat /\ Whole % 8 = 0
  BY SpotsAt DEF Lone
<1>2. a \in Nat /\ Masked(m, 0) = a /\ Allocated(m, 0)
  BY <1>1, TagOfSize
<1>3. ASSUME a # Whole
      PROVE  /\ a + 8 <= Whole /\ a + 8 \in Spots
             /\ Masked(m, a + 8) = Whole - a - 8
             /\ ~Allocated(m, a + 8)
             /\ Tag(m, a + 8) = Whole - a - 8
  <2>1. a + 8 <= Whole /\ Low(m, a + 8) = Whole - a - 8 /\ High(m, a + 8) = 0
    BY <1>3 DEF Lone
  <2>2. a + 8 \in Spots
    BY <1>1, <2>1, SpotsAt
  <2>3. Whole - a - 8 \in Nat /\ (Whole - a - 8) % 2 = 0
    BY <1>1, <2>1
  <2>4. Masked(m, a + 8) = Whole - a - 8 /\ ~Allocated(m, a + 8)
    BY <2>1, <2>3, TagOfSize
  <2>5. Tag(m, a + 8) = Low(m, a + 8) + Span * High(m, a + 8)
    BY DEF Tag, Low, High
  <2> QED BY <2>1, <2>2, <2>3, <2>4, <2>5, SizeFacts
<1> QED BY <1>2, <1>3

LEMMA FreeFacts ==
  ASSUME NEW m \in Memory, Free(m)
  PROVE  Masked(m, 0) = Whole /\ ~Allocated(m, 0) /\ Tag(m, 0) = Whole
<1>1. Low(m, 0) = Whole /\ High(m, 0) = 0 /\ Whole \in Nat /\ Whole % 2 = 0
  BY SizeFacts DEF Free, Whole
<1>2. Tag(m, 0) = Low(m, 0) + Span * High(m, 0)
  BY DEF Tag, Low, High
<1> QED BY <1>1, <1>2, TagOfSize, SizeFacts

\* kalloc in a free heap finds its block, or there is none.
LEMMA FitFree ==
  ASSUME NEW m \in Memory, Free(m), NEW size \in Nat
  PROVE  FirstFit(m, size) = IF Whole > size THEN 0 ELSE HEAP_SIZE
<1> DEFINE fits == {o \in Offsets : \/ o >= HEAP_SIZE
                                    \/ ~Allocated(m, o) /\ Tag(m, o) > size}
<1>1. 0 \in Offsets /\ HEAP_SIZE \in Offsets /\ HEAP_SIZE >= HEAP_SIZE /\ ~(0 >= HEAP_SIZE)
      /\ Whole + 8 = HEAP_SIZE /\ 8 + Whole = HEAP_SIZE
  BY SizeFacts DEF Offsets, MDATA_SIZE, Whole
<1>2. Masked(m, 0) = Whole /\ ~Allocated(m, 0) /\ Tag(m, 0) = Whole
  BY FreeFacts
<1>3. HEAP_SIZE \in fits /\ (0 \in fits <=> Whole > size)
  BY <1>1, <1>2
<1>4. FirstFit(m, size) = Walk(m, fits)[Iterations]
  BY DEF FirstFit
<1> HIDE DEF fits
<1>5. 8 + Masked(m, 0) = HEAP_SIZE
  BY <1>1, <1>2
<1> QED BY <1>3, <1>4, <1>5, ShortWalk

\* ... and in a heap that is held it finds none for a request larger than
\* what is behind the caller's block.
LEMMA FitLone ==
  ASSUME NEW m \in Memory, NEW a, Lone(m, a), NEW size \in Nat,
         a = Whole \/ size >= Whole - a - 8
  PROVE  FirstFit(m, size) = HEAP_SIZE
<1> DEFINE fits == {o \in Offsets : \/ o >= HEAP_SIZE
                                    \/ ~Allocated(m, o) /\ Tag(m, o) > size}
<1>1. 0 \in Offsets /\ HEAP_SIZE \in Offsets /\ HEAP_SIZE >= HEAP_SIZE /\ ~(0 >= HEAP_SIZE)
      /\ Whole + 8 = HEAP_SIZE /\ Whole \in Nat
  BY SizeFacts DEF Offsets, MDATA_SIZE, Whole
<1>2. Masked(m, 0) = a /\ Allocated(m, 0) /\ a \in Nat
  BY LoneFacts
<1>3. HEAP_SIZE \in fits /\ 0 \notin fits
  BY <1>1, <1>2
<1>4. FirstFit(m, size) = Walk(m, fits)[Iterations]
  BY DEF FirstFit
<1>5. 8 + Masked(m, 0) = a + 8
  BY <1>2
<1>6. CASE a = Whole
  <2> HIDE DEF fits
  <2> QED BY <1>1, <1>3, <1>4, <1>5, <1>6, ShortWalk
<1>7. CASE a # Whole
  <2>1. a + 8 <= Whole /\ Masked(m, a + 8) = Whole - a - 8 /\ Tag(m, a + 8) = Whole - a - 8
    BY <1>7, LoneFacts
  <2>2. a + 8 \notin fits
    BY <1>1, <1>2, <1>7, <2>1
  <2>3. (a + 8) + Masked(m, a + 8) + 8 = HEAP_SIZE
    BY <1>1, <1>2, <2>1
  <2> HIDE DEF fits
  <2> QED BY <1>3, <1>4, <1>5, <2>2, <2>3, ShortWalk
<1> QED BY <1>6, <1>7

LEMMA RoundFacts ==
  ASSUME NEW size \in Nat
  PROVE  RoundUp(size) \in Nat /\ RoundUp(size) % 2 = 0 /\ RoundUp(size) >= size
         /\ (Whole > size => RoundUp(size) <= Whole) /\ (size > Whole => RoundUp(size) > Whole)
         /\ RoundUp(RoundUp(size)) = RoundUp(size)
BY SizeFacts DEF RoundUp, Whole

\* The block keeps its tags when the caller's part of it is written.
LEMMA LoneKept ==
  ASSUME NEW m \in Memory, NEW m2 \in Memory, NEW a, Lone(m, a), NEW s \in 0 .. a, s % 2 = 0,
         Elsewhere(m, m2, 4, 4 + s)
  PROVE  Lone(m2, a)
<1>1. a \in 0 .. Whole /\ a % 2 = 0 /\ Whole \in Nat
  BY SpotsAt DEF Lone
<1>2. 0 \in Spots /\ 4 + a \in Spots /\ (a + 8 <= Whole => a + 8 \in Spots)
  BY <1>1, SpotsAt
<1>3. 0 + 4 <= 4 /\ 4 + a >= 4 + s /\ a + 8 >= 4 + s
  BY <1>1
<1>4. Low(m2, 0) = Low(m, 0) /\ High(m2, 0) = High(m, 0)
  BY <1>2, <1>3 DEF Elsewhere
<1>5. Low(m2, 4 + a) = Low(m, 4 + a) /\ High(m2, 4 + a) = High(m, 4 + a)
  BY <1>2, <1>3 DEF Elsewhere
<1>6. a + 8 <= Whole => Low(m2, a + 8) = Low(m, a + 8) /\ High(m2, a + 8) = High(m, a + 8)
  BY <1>2, <1>3 DEF Elsewhere
<1>7. Masked(m2, 4 + a) = Masked(m, 4 + a)
  BY <1>5, SameTag
<1> QED BY <1>4, <1>6, <1>7 DEF Lone

\* kalloc in a free heap.
LEMMA KallocFree ==
  ASSUME HEAP_SIZE <= Span, NEW m \in Memory, Free(m), NEW size \in Nat,
         RoundUp(size) # Whole - 2
  PROVE  \/ KallocResult(m, size).ptr = NULL /\ KallocResult(m, size).mem = m
         \/ /\ KallocResult(m, size).ptr = 4
            /\ KallocResult(m, size).mem \in Memory
            /\ \E a \in RoundUp(size) .. Whole :
                 Lone(KallocResult(m, size).mem, a) /\ a < RoundUp(size) + 8
            /\ \A h \in HalfWords : 4 <= 2 * h /\ 2 * h < 4 + RoundUp(size)
                                      => KallocResult(m, size).mem[h] = 0
<1> DEFINE s == RoundUp(size)
           r == KallocResult(m, size)
           m1 == split_block(m, 0, s)
           m2 == memset(m1, 4, 0, s)
<1>1. s \in Nat /\ s % 2 = 0 /\ (Whole > size => s <= Whole) /\ s # Whole - 2
  BY RoundFacts
<1>2. Whole \in Nat /\ Whole + 8 = HEAP_SIZE /\ HEAP_SIZE \in Nat /\ HEAP_SIZE > 0
  BY SizeFacts DEF Whole
<1>3. FirstFit(m, size) = IF Whole > size THEN 0 ELSE HEAP_SIZE
  BY FitFree
<1>4. CASE ~(Whole > size)
  <2>1. r = [mem |-> m, ptr |-> NULL]
    BY <1>2, <1>3, <1>4 DEF KallocResult
  <2> QED BY <2>1
<1>5. CASE Whole > size
  <2>1. r = [mem |-> m2, ptr |-> 4]
    BY <1>2, <1>3, <1>5 DEF KallocResult, HEADER_SIZE
  <2> HIDE DEF s
  <2>2. s \in 0 .. Whole
    BY <1>1, <1>2, <1>5
  <2>3. Masked(m, 0) = Whole /\ Masked(m, 4 + Whole) = Whole
    BY FreeFacts DEF Free
  <2>4. m1 \in Memory /\ \E a \in s .. Whole : Lone(m1, a) /\ a < s + 8
    BY <1>1, <2>2, <2>3, SplitWhole
  <2> HIDE DEF m1
  <2>5. /\ m2 \in Memory
        /\ \A h \in HalfWords : 4 <= 2 * h /\ 2 * h < 4 + s => m2[h] = 0
        /\ Elsewhere(m1, m2, 4, 4 + s)
    <3>1. 4 \in Nat /\ 4 % 2 = 0 /\ 0 \in 0 .. Span - 1
      BY SizeFacts
    <3> QED BY <1>1, <2>4, <3>1, MemsetSpot
  <2> HIDE DEF m2
  <2>6. PICK a \in s .. Whole : Lone(m1, a) /\ a < s + 8
    BY <2>4
  <2>7. s \in 0 .. a
    BY <1>1, <1>2
  <2>8. Lone(m2, a)
    BY <1>1, <2>4, <2>5, <2>6, <2>7, LoneKept
  <2>9. r.ptr = 4 /\ r.mem = m2
    BY <2>1
  <2> HIDE DEF r
  <2> QED BY <2>5, <2>6, <2>8, <2>9 DEF r, s
<1> QED BY <1>4, <1>5

\* The block before the caller's: there is none.
LEMMA NoPrevious ==
  ASSUME NEW m \in Memory, NEW a, a \in 0 .. Whole, Masked(m, 4 + a) = a
  PROVE  prev_footer(m, 4 + a) = NULL
<1>1. (4 + a) - a - 4 = 0
  BY SizeFacts DEF Whole
<1> QED BY <1>1 DEF prev_footer, HEADER_SIZE

\* kfree joins the caller's block and the one behind it.
LEMMA KfreeLone ==
  ASSUME HEAP_SIZE <= Span, NEW m \in Memory, NEW a, Lone(m, a)
  PROVE  KfreeResult(m, 4) \in Memory /\ Free(KfreeResult(m, 4))
<1> DEFINE m1 == Put(m, 0, a)
           m2 == Put(m1, 4 + a, a)
           m3 == KfreeResult(m, 4)
<1>1. /\ a \in 0 .. Whole /\ a % 2 = 0 /\ Whole \in Nat /\ Whole % 8 = 0
      /\ Whole + 8 = HEAP_SIZE /\ Whole < Span - 4 /\ Span \in Nat
  BY SpotsAt, SizeFacts DEF Lone, Whole
<1>2. /\ 0 \in Spots /\ 4 + a \in Spots /\ 4 + Whole \in Spots
      /\ (a + 8 <= Whole => a + 8 \in Spots)
  BY <1>1, SpotsAt
<1>3. a \in Nat /\ a \in 0 .. Span - 1 /\ Whole \in 0 .. Span - 1
  BY <1>1
<1>4. Masked(m, 0) = a /\ Masked(m, 4 + a) = a
  BY LoneFacts DEF Lone
<1>5. m1 \in Memory /\ Low(m1, 0) = a /\ High(m1, 0) = 0 /\ Elsewhere(m, m1, 0, 4)
  <2>1. m1 \in Memory /\ Low(m1, 0) = a /\ High(m1, 0) = 0 /\ Elsewhere(m, m1, 0, 0 + 4)
    BY <1>2, <1>3, PutSpot
  <2> HIDE DEF m1
  <2> QED BY <2>1
<1>6. Masked(m1, 0) = a /\ Masked(m1, 4 + a) = a
  <2> HIDE DEF m1
  <2>1. 4 + a >= 4
    BY <1>3
  <2>2. Low(m1, 4 + a) = Low(m, 4 + a) /\ High(m1, 4 + a) = High(m, 4 + a)
    BY <1>2, <1>5, <2>1 DEF Elsewhere
  <2> QED BY <1>1, <1>3, <1>4, <1>5, <2>2, SameTag, TagOfSize
<1>7. /\ m2 \in Memory /\ Low(m2, 4 + a) = a /\ High(m2, 4 + a) = 0
      /\ Elsewhere(m1, m2, 4 + a, 8 + a)
  <2> HIDE DEF m1
  <2>1. /\ m2 \in Memory /\ Low(m2, 4 + a) = a /\ High(m2, 4 + a) = 0
        /\ Elsewhere(m1, m2, 4 + a, (4 + a) + 4)
    BY <1>2, <1>3, <1>5, PutSpot
  <2>2. (4 + a) + 4 = 8 + a
    BY <1>3
  <2> HIDE DEF m2
  <2> QED BY <2>1, <2>2
<1>8. m2 = ClearTag(ClearTag(m, 0), 4 + a) /\ m1 = ClearTag(m, 0)
  BY <1>4, <1>6 DEF ClearTag
<1> HIDE DEF m1, m2
<1>9. Low(m2, 0) = a /\ High(m2, 0) = 0
  <2>1. 0 + 4 <= 4 + a
    BY <1>3
  <2> QED BY <1>2, <1>5, <1>7, <2>1 DEF Elsewhere
<1>10. Masked(m2, 0) = a /\ ~Allocated(m2, 0) /\ Masked(m2, 4 + a) = a
  BY <1>1, <1>3, <1>7, <1>9, TagOfSize
<1>11. prev_footer(m2, 4 + a) = NULL
  BY <1>1, <1>7, <1>10, NoPrevious
<1>12. next_header(m2, 0) = IF a = Whole THEN NULL ELSE a + 8
  BY <1>1, <1>3, <1>10 DEF next_header, MDATA_SIZE
<1>13. m3 = IF next_header(m2, 0) # NULL /\ ~Allocated(m2, next_header(m2, 0))
            THEN merge_block(m2, 0, next_header(m2, 0)) ELSE m2
  <2>1. 4 - HEADER_SIZE = 0
    BY DEF HEADER_SIZE
  <2>2. KfreeResult(m, 4) = IF next_header(m2, 0) # NULL /\ ~Allocated(m2, next_header(m2, 0))
                            THEN merge_block(m2, 0, next_header(m2, 0)) ELSE m2
    BY <1>6, <1>8, <1>11, <2>1 DEF KfreeResult
  <2> QED BY <2>2
<1> HIDE DEF m3
<1>14. CASE a = Whole
  <2>1. m3 = m2
    BY <1>12, <1>13, <1>14
  <2> QED BY <1>7, <1>9, <1>10, <1>14, <2>1 DEF Free, m3
<1>15. CASE a # Whole
  <2> DEFINE m4 == Put(m2, 0, Whole)
  <2>1. a + 8 <= Whole /\ a + 8 \in Spots /\ Masked(m, a + 8) = Whole - a - 8 /\ ~Allocated(m, a + 8)
    BY <1>15, LoneFacts
  <2>2. Low(m2, a + 8) = Low(m, a + 8) /\ High(m2, a + 8) = High(m, a + 8)
    <3>1. a + 8 >= 4 /\ a + 8 >= 8 + a
      BY <1>3
    <3> QED BY <1>5, <1>7, <2>1, <3>1 DEF Elsewhere
  <2>3. Masked(m2, a + 8) = Whole - a - 8 /\ ~Allocated(m2, a + 8)
    BY <2>1, <2>2, SameTag
  <2>4. next_header(m2, 0) = a + 8 /\ a + 8 # NULL
    BY <1>3, <1>12, <1>15 DEF NULL
  <2>5. m3 = merge_block(m2, 0, a + 8)
    BY <1>13, <2>3, <2>4
  <2>6. merge_size(m2, 0, a + 8) = Whole
    BY <1>1, <1>3, <1>10, <2>3 DEF merge_size, MDATA_SIZE
  <2>7. footer_from_header(m2, a + 8) = 4 + Whole
    BY <1>1, <1>3, <2>3 DEF footer_from_header, HEADER_SIZE
  <2>8. m3 = Put(m4, 4 + Whole, Whole)
    <3>1. merge_size(m2, 0, a + 8) + 0 = Whole
      BY <1>1, <2>6
    <3> QED BY <1>10, <2>4, <2>5, <2>7, <3>1 DEF merge_block
  <2>9. m4 \in Memory /\ Low(m4, 0) = Whole /\ High(m4, 0) = 0
    BY <1>2, <1>3, <1>7, PutSpot
  <2> HIDE DEF m4
  <2>10. /\ m3 \in Memory /\ Low(m3, 4 + Whole) = Whole
         /\ Elsewhere(m4, m3, 4 + Whole, (4 + Whole) + 4)
    BY <1>2, <1>3, <2>8, <2>9, PutSpot
  <2>11. Low(m3, 0) = Whole /\ High(m3, 0) = 0
    <3>1. 0 + 4 <= 4 + Whole
      BY <1>1
    <3> QED BY <1>2, <2>9, <2>10, <3>1 DEF Elsewhere
  <2>12. Masked(m3, 4 + Whole) = Whole
    BY <1>1, <2>10, TagOfSize
  <2> QED BY <2>10, <2>11, <2>12 DEF Free, m3
<1> QED BY <1>14, <1>15

\* merge_forward: the two blocks become one, and what the caller had stored in
\* the first stays where it is.
LEMMA ForwardLone ==
  ASSUME HEAP_SIZE <= Span, NEW m \in Memory, NEW a, Lone(m, a), a # Whole,
         NEW s \in 0 .. Whole, s % 2 = 0, s # Whole - 2
  PROVE  /\ merge_forward(m, 0, a + 8, s).ptr = 4
         /\ merge_forward(m, 0, a + 8, s).mem \in Memory
         /\ \E b \in s .. Whole : Lone(merge_forward(m, 0, a + 8, s).mem, b) /\ b < s + 8
         /\ \A h \in HalfWords : 4 <= 2 * h /\ 2 * h < 4 + s /\ 2 * h < 4 + a
                                   => merge_forward(m, 0, a + 8, s).mem[h] = m[h]
<1> DEFINE tag == Whole + 1
           m1 == Put(m, 0, tag)
           m2 == Put(m1, 4 + Whole, tag)
           m3 == memset(m2, a + 8, 0, Whole - a - 4)
           m4 == split_block(m3, 0, s)
<1>1. /\ a \in 0 .. Whole /\ a % 2 = 0 /\ Whole \in Nat /\ Whole % 8 = 0
      /\ Whole + 8 = HEAP_SIZE /\ Whole < Span - 4 /\ Span \in Nat
  BY SpotsAt, SizeFacts DEF Lone, Whole
<1>2. 0 \in Spots /\ 4 + Whole \in Spots
  BY <1>1, SpotsAt
<1>3. a \in Nat /\ tag \in 0 .. Span - 1 /\ a + 8 <= Whole
  BY <1>1, LoneFacts
<1>4. Masked(m, 0) = a /\ Allocated(m, 0) /\ Masked(m, a + 8) = Whole - a - 8
  BY LoneFacts
<1>5. next_header(m, 0) = a + 8
  BY <1>1, <1>3, <1>4 DEF next_header, MDATA_SIZE
<1>6. merge_size(m, 0, a + 8) = Whole /\ footer_from_header(m, a + 8) = 4 + Whole
  BY <1>1, <1>3, <1>4 DEF merge_size, footer_from_header, MDATA_SIZE, HEADER_SIZE
<1>7. merge_block(m, 0, a + 8) = m2
  BY <1>4, <1>5, <1>6 DEF merge_block
<1>8. /\ m1 \in Memory /\ Low(m1, 0) = tag /\ High(m1, 0) = 0 /\ Elsewhere(m, m1, 0, 4)
  <2> HIDE DEF tag
  <2>1. m1 \in Memory /\ Low(m1, 0) = tag /\ High(m1, 0) = 0 /\ Elsewhere(m, m1, 0, 0 + 4)
    BY <1>2, <1>3, PutSpot
  <2> HIDE DEF m1
  <2> QED BY <2>1
<1>9. /\ m2 \in Memory /\ Low(m2, 4 + Whole) = tag
      /\ Elsewhere(m1, m2, 4 + Whole, 8 + Whole)
  <2> HIDE DEF m1, tag
  <2>1. /\ m2 \in Memory /\ Low(m2, 4 + Whole) = tag
        /\ Elsewhere(m1, m2, 4 + Whole, (4 + Whole) + 4)
    BY <1>2, <1>3, <1>8, PutSpot
  <2>2. (4 + Whole) + 4 = 8 + Whole
    BY <1>1
  <2> HIDE DEF m2
  <2> QED BY <2>1, <2>2
<1>10. m3 \in Memory /\ Elsewhere(m2, m3, a + 8, 4 + Whole)
  <2> DEFINE o == a + 8
             len == Whole - a - 4
  <2>1. o \in Nat /\ o % 2 = 0 /\ len \in Nat /\ len % 2 = 0 /\ 0 \in 0 .. Span - 1 /\ o + len = 4 + Whole
    BY <1>1, <1>3
  <2> HIDE DEF m2, o, len
  <2>2. memset(m2, o, 0, len) \in Memory /\ Elsewhere(m2, memset(m2, o, 0, len), o, o + len)
    BY <1>9, <2>1, MemsetSpot
  <2> QED BY <2>1, <2>2 DEF o, len
<1>11. merge_forward(m, 0, a + 8, s) = Resized(m3, 0, s)
  <2>1. Masked(m, a + 8) + HEADER_SIZE = Whole - a - 4
    BY <1>1, <1>3, <1>4 DEF HEADER_SIZE
  <2> HIDE DEF m2
  <2> QED BY <1>5, <1>7, <2>1 DEF merge_forward, Merged
<1> HIDE DEF m1, m2, m3
<1>12. Low(m3, 0) = tag
  <2>1. 0 + 4 <= 4 + Whole /\ 0 + 4 <= a + 8
    BY <1>1, <1>3
  <2> QED BY <1>2, <1>8, <1>9, <1>10, <2>1 DEF Elsewhere
<1>13. Low(m3, 4 + Whole) = tag
  <2>1. 4 + Whole >= 4 + Whole
    BY <1>1
  <2> QED BY <1>2, <1>9, <1>10, <2>1 DEF Elsewhere
<1>14. Masked(m3, 0) = Whole /\ Masked(m3, 4 + Whole) = Whole
  BY <1>1, <1>12, <1>13, TagOfSize
<1>15. /\ m4 \in Memory /\ \E b \in s .. Whole : Lone(m4, b) /\ b < s + 8
       /\ \A h \in HalfWords : 4 <= 2 * h /\ 2 * h < 4 + s => m4[h] = m3[h]
  BY <1>10, <1>14, SplitWhole
<1>16. \A h \in HalfWords : h \in Int
  BY DEF HalfWords
<1>17. \A h \in HalfWords : 4 <= 2 * h /\ 2 * h < 4 + a => m3[h] = m[h]
  BY <1>1, <1>3, <1>8, <1>9, <1>10, <1>16 DEF Elsewhere
<1>18. merge_forward(m, 0, a + 8, s) = [mem |-> m4, ptr |-> 4]
  <2>1. ~(Whole < s)
    BY <1>1
  <2> QED BY <1>11, <1>14, <2>1 DEF Resized, HEADER_SIZE
<1> HIDE DEF m4
<1>19. \A h \in HalfWords : 4 <= 2 * h /\ 2 * h < 4 + s /\ 2 * h < 4 + a => m4[h] = m[h]
  BY <1>15, <1>17
<1> QED BY <1>15, <1>18, <1>19

\* krealloc grows or shrinks the caller's block in place, or refuses and
\* changes nothing.
LEMMA KreallocLone ==
  ASSUME HEAP_SIZE <= Span, NEW m \in Memory, NEW a, Lone(m, a), NEW size \in Nat,
         RoundUp(size) # Whole - 2
  PROVE  \/ KreallocResult(m, 4, size).ptr = NULL /\ KreallocResult(m, 4, size).mem = m
         \/ /\ KreallocResult(m, 4, size).ptr = 4
            /\ KreallocResult(m, 4, size).mem \in Memory
            /\ \E b \in RoundUp(size) .. Whole :
                 Lone(KreallocResult(m, 4, size).mem, b) /\ b < RoundUp(size) + 8
            /\ \A h \in HalfWords : 4 <= 2 * h /\ 2 * h < 4 + RoundUp(size) /\ 2 * h < 4 + a
                                      => KreallocResult(m, 4, size).mem[h] = m[h]
<1> DEFINE s == RoundUp(size)
           r == KreallocResult(m, 4, size)
           next == next_header(m, 0)
<1>1. s \in Nat /\ s % 2 = 0 /\ s # Whole - 2
  BY RoundFacts
<1>2. /\ a \in 0 .. Whole /\ a \in Nat /\ Whole \in Nat /\ Whole + 8 = HEAP_SIZE
      /\ Masked(m, 0) = a /\ Masked(m, 4 + a) = a
  <2>1. Whole \in Nat /\ Whole + 8 = HEAP_SIZE
    BY SizeFacts DEF Whole
  <2> QED BY <2>1, LoneFacts DEF Lone
<1>3. prev_footer(m, 4 + a) = NULL
  BY <1>2, NoPrevious
<1>4. next = IF a = Whole THEN NULL ELSE a + 8
  BY <1>2 DEF next_header, MDATA_SIZE
<1>5. r = IF next # NULL /\ ~Allocated(m, next) /\ merge_size(m, 0, next) >= s
          THEN merge_forward(m, 0, next, s)
          ELSE IF KallocResult(m, s).ptr = NULL
          THEN KallocResult(m, s)
          ELSE [mem |-> KfreeResult(memmove(KallocResult(m, s).mem, KallocResult(m, s).ptr + HEADER_SIZE,
                                            4 + HEADER_SIZE, Masked(m, 0)), 4),
                ptr |-> KallocResult(m, s).ptr + HEADER_SIZE]
  <2>1. 4 - HEADER_SIZE = 0
    BY DEF HEADER_SIZE
  <2> HIDE DEF next, s
  <2> QED BY <1>2, <1>3, <2>1 DEF KreallocResult, next, s
<1> HIDE DEF r, s
<1>6. CASE a # Whole /\ s <= Whole
  <2>1. ~Allocated(m, a + 8) /\ Masked(m, a + 8) = Whole - a - 8
    BY <1>6, LoneFacts
  <2>2. next = a + 8 /\ next # NULL
    BY <1>2, <1>4, <1>6 DEF NULL
  <2>3. merge_size(m, 0, a + 8) = Whole
    BY <1>2, <2>1 DEF merge_size, MDATA_SIZE
  <2>4. r = merge_forward(m, 0, a + 8, s)
    <3>1. Whole >= s
      BY <1>1, <1>2, <1>6
    <3> HIDE DEF next
    <3> QED BY <1>5, <2>1, <2>2, <2>3, <3>1
  <2>5. s \in 0 .. Whole
    BY <1>1, <1>2, <1>6
  <2>6. /\ r.ptr = 4 /\ r.mem \in Memory
        /\ \E b \in s .. Whole : Lone(r.mem, b) /\ b < s + 8
        /\ \A h \in HalfWords : 4 <= 2 * h /\ 2 * h < 4 + s /\ 2 * h < 4 + a => r.mem[h] = m[h]
    BY <1>1, <1>6, <2>4, <2>5, ForwardLone
  <2> QED BY <2>6 DEF r, s
<1>7. CASE ~(a # Whole /\ s <= Whole)
  <2>1. ~(next # NULL /\ ~Allocated(m, next) /\ merge_size(m, 0, next) >= s)
    <3>1. CASE a = Whole
      BY <1>4, <3>1
    <3>2. CASE a # Whole
      <4>1. next = a + 8 /\ Masked(m, a + 8) = Whole - a - 8
        BY <1>4, <3>2, LoneFacts
      <4>2. merge_size(m, 0, a + 8) = Whole
        BY <1>2, <4>1 DEF merge_size, MDATA_SIZE
      <4>3. ~(Whole >= s)
        BY <1>1, <1>2, <1>7, <3>2
      <4> HIDE DEF next
      <4> QED BY <4>1, <4>2, <4>3
    <3> QED BY <3>1, <3>2
  <2>2. a = Whole \/ s >= Whole - a - 8
    BY <1>1, <1>2, <1>7
  <2>3. FirstFit(m, s) = HEAP_SIZE
    BY <1>1, <2>2, FitLone
  <2>4. KallocResult(m, s) = [mem |-> m, ptr |-> NULL]
    BY <1>2, <2>3, SizeFacts DEF KallocResult
  <2>5. r = [mem |-> m, ptr |-> NULL]
    <3> HIDE DEF next
    <3> QED BY <1>5, <2>1, <2>4
  <2>6. r.ptr = NULL /\ r.mem = m
    BY <2>5
  <2> QED BY <2>6 DEF r
<1> QED BY <1>6, <1>7

-----------------------------------------------------------------------------
(* The invariant of one caller. *)

\* An allocation that lies in the caller's block and holds what it should.
InLone(m, b) ==
    /\ \E a \in 0 .. Whole : Lone(m, a) /\ b.size <= a /\ a < b.size + 8
    /\ b.ptr = 4 /\ b.size % 2 = 0 /\ b.known <= b.size
    /\ \A h \in HalfWords : 4 <= 2 * h /\ 2 * h < 4 + b.known => m[h] = b.val

LoneOK(m, l) ==
    /\ m \in Memory
    /\ l \in [Slots -> Allocations]
    /\ HeldIn(l) = {} => Free(m)
    /\ \A i \in HeldIn(l) : InLone(m, l[i])

LoneInv == LoneOK(mem, live)

\* There is only one slot.
LEMMA SoleSlot ==
  ASSUME MaxLive <= 1, NEW i \in Slots, NEW j \in Slots
  PROVE  i = j
BY HeapConstants DEF Slots

LEMMA HandsOut ==
  ASSUME MaxLive <= 1, NEW l \in [Slots -> Allocations], NEW i \in Slots,
         NEW m \in Memory, NEW b \in Allocations, InLone(m, b)
  PROVE  LoneOK(m, [l EXCEPT ![i] = b])
<1> DEFINE l2 == [l EXCEPT ![i] = b]
<1>1. l2 \in [Slots -> Allocations] /\ l2[i] = b
  OBVIOUS
<1>2. b # NoAllocation
  BY DEF InLone, NoAllocation, Allocation, NULL
<1> HIDE DEF l2
<1>3. HeldIn(l2) = {i}
  BY <1>1, <1>2, SoleSlot DEF HeldIn
<1>4. LoneOK(m, l2)
  BY <1>1, <1>3 DEF LoneOK
<1> QED BY <1>4 DEF l2

LEMMA LoneKalloc ==
  ASSUME MaxLive <= 1, HEAP_SIZE <= Span, NoClash, NEW m, NEW l, LoneOK(m, l),
         NEW i \in Slots, NEW size \in Sizes, l[i] = NoAllocation
  PROVE  LoneOK(KallocResult(m, size).mem,
                IF KallocResult(m, size).ptr = NULL THEN l
                ELSE [l EXCEPT ![i] = Allocation(KallocResult(m, size).ptr, RoundUp(size),
                                                 RoundUp(size), 0)])
<1> DEFINE r == KallocResult(m, size)
           s == RoundUp(size)
           b == Allocation(4, s, s, 0)
<1>1. m \in Memory /\ l \in [Slots -> Allocations] /\ size \in Nat /\ s # Whole - 2
  BY HeapConstants DEF LoneOK, NoClash
<1>2. s \in Nat /\ s % 2 = 0
  BY <1>1, RoundFacts
<1>3. Free(m)
  <2>1. HeldIn(l) = {}
    BY SoleSlot DEF HeldIn
  <2> QED BY <2>1 DEF LoneOK
<1>4. \/ r.ptr = NULL /\ r.mem = m
      \/ /\ r.ptr = 4 /\ r.mem \in Memory
         /\ \E a \in s .. Whole : Lone(r.mem, a) /\ a < s + 8
         /\ \A h \in HalfWords : 4 <= 2 * h /\ 2 * h < 4 + s => r.mem[h] = 0
  BY <1>1, <1>3, KallocFree
<1> HIDE DEF r, s
<1>5. CASE r.ptr = NULL /\ r.mem = m
  BY <1>5 DEF r
<1>6. CASE /\ r.ptr = 4 /\ r.mem \in Memory
           /\ \E a \in s .. Whole : Lone(r.mem, a) /\ a < s + 8
           /\ \A h \in HalfWords : 4 <= 2 * h /\ 2 * h < 4 + s => r.mem[h] = 0
  <2>1. b.ptr = 4 /\ b.size = s /\ b.known = s /\ b.val = 0
    BY DEF Allocation
  <2>2. b \in Allocations
    BY <1>2, SizeFacts DEF Allocation, Allocations
  <2>3. PICK a \in s .. Whole : Lone(r.mem, a) /\ a < s + 8
    BY <1>6
  <2>4. a \in 0 .. Whole /\ s <= a /\ s <= s
    BY <1>2, SpotsAt, SizeFacts DEF Whole
  <2> HIDE DEF b
  <2>5. InLone(r.mem, b)
    BY <1>2, <1>6, <2>1, <2>3, <2>4 DEF InLone
  <2>6. LoneOK(r.mem, [l EXCEPT ![i] = b])
    BY <1>1, <1>6, <2>2, <2>5, HandsOut
  <2>7. r.ptr # NULL
    BY <1>6 DEF NULL
  <2> QED BY <1>6, <2>6, <2>7 DEF r, s, b
<1> QED BY <1>4, <1>5, <1>6

LEMMA LoneKfree ==
  ASSUME MaxLive <= 1, HEAP_SIZE <= Span, NEW m, NEW l, LoneOK(m, l),
         NEW i \in Slots, l[i] # NoAllocation
  PROVE  LoneOK(KfreeResult(m, l[i].ptr), [l EXCEPT ![i] = NoAllocation])
<1> DEFINE l2 == [l EXCEPT ![i] = NoAllocation]
<1>1. m \in Memory /\ l \in [Slots -> Allocations] /\ i \in HeldIn(l)
  BY DEF LoneOK, HeldIn
<1>2. InLone(m, l[i])
  BY <1>1 DEF LoneOK
<1>3. l[i].ptr = 4
  BY <1>2 DEF InLone
<1>4. PICK a \in 0 .. Whole : Lone(m, a)
  BY <1>2 DEF InLone
<1>5. KfreeResult(m, 4) \in Memory /\ Free(KfreeResult(m, 4))
  BY <1>1, <1>4, KfreeLone
<1>6. l2 \in [Slots -> Allocations] /\ l2[i] = NoAllocation
  <2>1. NoAllocation \in Allocations
    BY SizeFacts DEF NoAllocation, Allocation, Allocations, NULL
  <2> QED BY <1>1, <2>1
<1> HIDE DEF l2
<1>7. HeldIn(l2) = {}
  BY <1>6, SoleSlot DEF HeldIn
<1>8. LoneOK(KfreeResult(m, 4), l2)
  BY <1>5, <1>6, <1>7 DEF LoneOK
<1> QED BY <1>3, <1>8 DEF l2

LEMMA LoneFill ==
  ASSUME MaxLive <= 1, NEW m, NEW l, LoneOK(m, l), NEW i \in Slots, l[i] # NoAllocation
  PROVE  LoneOK(memset(m, l[i].ptr, Stamp, l[i].size),
                [l EXCEPT ![i].known = l[i].size, ![i].val = Stamp])
<1> DEFINE s == l[i].size
           m2 == memset(m, 4, Stamp, s)
           b == [l[i] EXCEPT !.known = l[i].size, !.val = Stamp]
<1>1. m \in Memory /\ l \in [Slots -> Allocations] /\ i \in HeldIn(l) /\ l[i] \in Allocations
  BY DEF LoneOK, HeldIn
<1>2. InLone(m, l[i]) /\ Stamp \in 0 .. Span - 1
  BY <1>1, HeapConstants DEF LoneOK
<1>3. l[i].ptr = 4 /\ s \in Nat /\ s % 2 = 0
  BY <1>1, <1>2 DEF InLone, Allocations
<1>4. PICK a \in 0 .. Whole : Lone(m, a) /\ s <= a /\ a < s + 8
  BY <1>2 DEF InLone
<1>5. /\ b \in Allocations /\ b.ptr = 4 /\ b.size = s /\ b.known = s /\ b.val = Stamp
  BY <1>1, <1>2, <1>3 DEF Allocations
<1>6. [l EXCEPT ![i].known = l[i].size, ![i].val = Stamp] = [l EXCEPT ![i] = b]
  BY <1>1
<1> HIDE DEF b, s
<1>7. /\ m2 \in Memory
      /\ \A h \in HalfWords : 4 <= 2 * h /\ 2 * h < 4 + s => m2[h] = Stamp
      /\ Elsewhere(m, m2, 4, 4 + s)
  <2>1. 4 \in Nat /\ 4 % 2 = 0
    OBVIOUS
  <2> QED BY <1>1, <1>2, <1>3, <2>1, MemsetSpot
<1> HIDE DEF m2
<1>8. s \in 0 .. a
  BY <1>3, <1>4, SizeFacts DEF Whole
<1>9. Lone(m2, a)
  BY <1>1, <1>3, <1>4, <1>7, <1>8, LoneKept
<1>10. InLone(m2, b)
  <2>1. s <= s
    BY <1>3
  <2> QED BY <1>3, <1>4, <1>5, <1>7, <1>9, <2>1 DEF InLone
<1>11. LoneOK(m2, [l EXCEPT ![i] = b])
  BY <1>1, <1>5, <1>7, <1>10, HandsOut
<1> QED BY <1>3, <1>6, <1>11 DEF m2, s

LEMMA LoneKrealloc ==
  ASSUME MaxLive <= 1, HEAP_SIZE <= Span, NoClash, NEW m, NEW l, LoneOK(m, l),
         NEW i \in Slots, NEW size \in Sizes, l[i] # NoAllocation,
         NEW kept, kept = IF l[i].known < RoundUp(size) THEN l[i].known ELSE RoundUp(size)
  PROVE  LoneOK(KreallocResult(m, l[i].ptr, size).mem,
                IF KreallocResult(m, l[i].ptr, size).ptr = NULL THEN l
                ELSE [l EXCEPT ![i] = Allocation(KreallocResult(m, l[i].ptr, size).ptr,
                                                 RoundUp(size), kept, l[i].val)])
<1> DEFINE r == KreallocResult(m, 4, size)
           s == RoundUp(size)
           b == Allocation(4, s, kept, l[i].val)
           v == l[i].val
           k == l[i].known
<1>1. /\ m \in Memory /\ l \in [Slots -> Allocations] /\ size \in Nat /\ s # Whole - 2
      /\ i \in HeldIn(l) /\ l[i] \in Allocations
  BY HeapConstants DEF LoneOK, NoClash, HeldIn
<1>2. s \in Nat /\ s % 2 = 0
  BY <1>1, RoundFacts
<1>3. InLone(m, l[i])
  BY <1>1 DEF LoneOK
<1>4. /\ l[i].ptr = 4 /\ v \in 0 .. Span - 1 /\ k \in Nat /\ k <= l[i].size /\ l[i].size \in Nat
      /\ \A h \in HalfWords : 4 <= 2 * h /\ 2 * h < 4 + k => m[h] = v
  BY <1>1, <1>3 DEF InLone, Allocations
<1>5. PICK a \in 0 .. Whole : Lone(m, a) /\ l[i].size <= a
  BY <1>3 DEF InLone
<1>6. \/ r.ptr = NULL /\ r.mem = m
      \/ /\ r.ptr = 4 /\ r.mem \in Memory
         /\ \E c \in s .. Whole : Lone(r.mem, c) /\ c < s + 8
         /\ \A h \in HalfWords : 4 <= 2 * h /\ 2 * h < 4 + s /\ 2 * h < 4 + a => r.mem[h] = m[h]
  BY <1>1, <1>5, KreallocLone
<1> HIDE DEF r, s, v, k
<1>7. kept \in Nat /\ kept <= s /\ kept <= k /\ kept <= a
  <2>1. kept = IF k < s THEN k ELSE s
    BY DEF k, s
  <2>2. a \in Nat
    BY SizeFacts DEF Whole
  <2> QED BY <1>2, <1>4, <1>5, <2>1, <2>2
<1>8. CASE r.ptr = NULL /\ r.mem = m
  BY <1>4, <1>8 DEF r
<1>9. CASE /\ r.ptr = 4 /\ r.mem \in Memory
           /\ \E c \in s .. Whole : Lone(r.mem, c) /\ c < s + 8
           /\ \A h \in HalfWords : 4 <= 2 * h /\ 2 * h < 4 + s /\ 2 * h < 4 + a => r.mem[h] = m[h]
  <2>1. b.ptr = 4 /\ b.size = s /\ b.known = kept /\ b.val = v
    BY DEF Allocation, v
  <2>2. b \in Allocations
    BY <1>2, <1>4, <1>7 DEF Allocation, Allocations, v
  <2>3. PICK c \in s .. Whole : Lone(r.mem, c) /\ c < s + 8
    BY <1>9
  <2>4. c \in 0 .. Whole /\ s <= c
    BY <1>2, SizeFacts DEF Whole
  <2>5. \A h \in HalfWords : 4 <= 2 * h /\ 2 * h < 4 + kept => r.mem[h] = v
    <3>1. \A h \in HalfWords : h \in Int
      BY DEF HalfWords
    <3>2. a \in Nat
      BY SizeFacts DEF Whole
    <3>3. \A h \in Int : 2 * h < 4 + kept => 2 * h < 4 + s /\ 2 * h < 4 + a /\ 2 * h < 4 + k
      BY <1>2, <1>4, <1>7, <3>2
    <3> QED BY <1>4, <1>9, <3>1, <3>3
  <2> HIDE DEF b
  <2>6. InLone(r.mem, b)
    BY <1>2, <1>7, <2>1, <2>3, <2>4, <2>5 DEF InLone
  <2>7. LoneOK(r.mem, [l EXCEPT ![i] = b])
    BY <1>1, <1>9, <2>2, <2>6, HandsOut
  <2>8. r.ptr # NULL
    BY <1>9 DEF NULL
  <2> QED BY <1>4, <1>9, <2>7, <2>8 DEF r, s, b
<1> QED BY <1>6, <1>8, <1>9

LEMMA InitLone ==
  ASSUME HEAP_SIZE <= Span
  PROVE  Init => LoneInv
<1> SUFFICES ASSUME Init PROVE LoneOK(mem, live)
  BY DEF LoneInv
<1> DEFINE z == [h \in HalfWords |-> 0]
           m1 == Put(z, 0, Whole)
<1>1. /\ 0 \in Spots /\ 4 + Whole \in Spots /\ Whole \in Nat /\ Whole % 8 = 0 /\ Whole \in 0 .. Span - 1
  BY SizeFacts DEF Spots, Whole
<1>2. mem = Put(m1, 4 + Whole, Whole)
  BY DEF Init, MDATA_SIZE, HEADER_SIZE, Whole
<1>3. z \in Memory
  BY SizeFacts DEF Memory
<1> HIDE DEF z
<1>4. m1 \in Memory /\ Low(m1, 0) = Whole /\ High(m1, 0) = 0
  BY <1>1, <1>3, PutSpot
<1> HIDE DEF m1
<1>5. /\ mem \in Memory /\ Low(mem, 4 + Whole) = Whole
      /\ Elsewhere(m1, mem, 4 + Whole, (4 + Whole) + 4)
  BY <1>1, <1>2, <1>4, PutSpot
<1>6. Low(mem, 0) = Whole /\ High(mem, 0) = 0
  <2>1. 0 + 4 <= 4 + Whole
    BY <1>1
  <2> QED BY <1>1, <1>4, <1>5, <2>1 DEF Elsewhere
<1>7. Masked(mem, 4 + Whole) = Whole
  BY <1>1, <1>5, TagOfSize
<1>8. live \in [Slots -> Allocations] /\ HeldIn(live) = {}
  <2>1. NoAllocation \in Allocations
    BY SizeFacts DEF NoAllocation, Allocation, Allocations, NULL
  <2> QED BY <2>1 DEF Init, HeldIn
<1> QED BY <1>5, <1>6, <1>7, <1>8 DEF LoneOK, Free

LEMMA NextLone ==
  ASSUME HEAP_SIZE <= Span, MaxLive <= 1, NoClash
  PROVE  LoneInv /\ [NextRealloc]_vars => LoneInv'
<1> SUFFICES ASSUME LoneOK(mem, live), [NextRealloc]_vars PROVE LoneOK(mem', live')
  BY DEF LoneInv
<1>1. ASSUME NEW i \in Slots, NEW size \in Sizes, kalloc(i, size) PROVE LoneOK(mem', live')
  BY <1>1, LoneKalloc DEF kalloc
<1>2. ASSUME NEW i \in Slots, kfree(i) PROVE LoneOK(mem', live')
  BY <1>2, LoneKfree DEF kfree
<1>3. ASSUME NEW i \in Slots, Fill(i) PROVE LoneOK(mem', live')
  BY <1>3, LoneFill DEF Fill
<1>4. ASSUME NEW i \in Slots, NEW size \in Sizes, krealloc(i, size) PROVE LoneOK(mem', live')
  <2> DEFINE kept == IF live[i].known < RoundUp(size) THEN live[i].known ELSE RoundUp(size)
             r == KreallocResult(mem, live[i].ptr, size)
  <2>1. /\ live[i] # NoAllocation /\ mem' = r.mem
        /\ live' = IF r.ptr = NULL THEN live
                   ELSE [live EXCEPT ![i] = Allocation(r.ptr, RoundUp(size), kept, live[i].val)]
    BY <1>4 DEF krealloc
  <2>2. PICK x : x = kept
    OBVIOUS
  <2>3. LoneOK(KreallocResult(mem, live[i].ptr, size).mem,
               IF KreallocResult(mem, live[i].ptr, size).ptr = NULL THEN live
               ELSE [live EXCEPT ![i] = Allocation(KreallocResult(mem, live[i].ptr, size).ptr,
                                                   RoundUp(size), x, live[i].val)])
    BY <2>1, <2>2, LoneKrealloc
  <2> HIDE DEF kept
  <2> QED BY <2>1, <2>2, <2>3
<1>5. CASE UNCHANGED vars
  BY <1>5 DEF vars
<1> QED BY <1>1, <1>2, <1>3, <1>4, <1>5 DEF NextRealloc, Next

\* The headers of the heap.
LEMMA LoneChain ==
  ASSUME HEAP_SIZE <= Span, LoneInv
  PROVE  /\ Limit = HEAP_SIZE /\ Whole + 8 = HEAP_SIZE
         /\ HEAP_SIZE \in Chain /\ 0 \in Chain
         /\ \A o \in Chain : o = 0 \/ o = HEAP_SIZE \/ (o = 8 + Masked(mem, 0) /\ ~Allocated(mem, o))
<1> DEFINE stop == {o \in Offsets : o >= Limit}
           w == Walk(mem, stop)
<1>1. /\ Limit = HEAP_SIZE /\ HEAP_SIZE \in Nat /\ HEAP_SIZE > 0 /\ Whole + 8 = HEAP_SIZE
      /\ Whole \in Nat /\ HEAP_SIZE = 8 + Whole
  BY LimitFacts, SizeFacts DEF Whole
<1>2. HEAP_SIZE \in stop /\ 0 \notin stop
  BY <1>1, SizeFacts DEF Offsets, MDATA_SIZE
<1>3. mem \in Memory
  BY DEF LoneInv, LoneOK
<1>4. Chain = {w[i] : i \in 0 .. Iterations}
  BY DEF Chain
<1>5. Iterations \in Nat /\ 0 \in 0 .. Iterations /\ 1 \in 0 .. Iterations /\ Iterations \in 0 .. Iterations
  BY SizeFacts DEF Iterations, MDATA_SIZE
<1>6. 8 + Masked(mem, 0) = HEAP_SIZE
      \/ (/\ 8 + Masked(mem, 0) \notin stop /\ ~Allocated(mem, 8 + Masked(mem, 0))
          /\ (8 + Masked(mem, 0)) + Masked(mem, 8 + Masked(mem, 0)) + 8 = HEAP_SIZE)
  <2>1. CASE HeldIn(live) = {}
    <3>1. Free(mem)
      BY <2>1 DEF LoneInv, LoneOK
    <3> QED BY <1>1, <1>3, <3>1, FreeFacts
  <2>2. CASE HeldIn(live) # {}
    <3>1. PICK i \in HeldIn(live) : InLone(mem, live[i])
      BY <2>2 DEF LoneInv, LoneOK
    <3>2. PICK a \in 0 .. Whole : Lone(mem, a)
      BY <3>1 DEF InLone
    <3>3. Masked(mem, 0) = a /\ a \in Nat /\ 8 + a = a + 8
      BY <1>3, <3>2, LoneFacts
    <3>4. CASE a = Whole
      BY <1>1, <3>3, <3>4
    <3>5. CASE a # Whole
      <4>1. a + 8 <= Whole /\ Masked(mem, a + 8) = Whole - a - 8 /\ ~Allocated(mem, a + 8)
        BY <1>3, <3>2, <3>5, LoneFacts
      <4>2. a + 8 \notin stop
        BY <1>1, <3>3, <4>1
      <4>3. (a + 8) + (Whole - a - 8) + 8 = HEAP_SIZE
        BY <1>1, <3>3
      <4> HIDE DEF stop
      <4> QED BY <3>3, <4>1, <4>2, <4>3
    <3> QED BY <3>4, <3>5
  <2> QED BY <2>1, <2>2
<1> HIDE DEF stop
<1>7. /\ \A i \in 0 .. Iterations : w[i] \in {0, 8 + Masked(mem, 0), HEAP_SIZE}
      /\ w[0] = 0
      /\ w[Iterations] = HEAP_SIZE
  BY <1>2, <1>3, <1>6, ShortWalk
<1> HIDE DEF w
<1>8. HEAP_SIZE \in Chain /\ 0 \in Chain
  BY <1>4, <1>5, <1>7
<1>9. \A o \in Chain : o \in {0, 8 + Masked(mem, 0), HEAP_SIZE}
  BY <1>4, <1>7
<1> QED BY <1>1, <1>6, <1>8, <1>9

LEMMA LoneSound ==
  ASSUME HEAP_SIZE <= Span, MaxLive <= 1
  PROVE  LoneInv => ReallocSound
<1> SUFFICES ASSUME LoneInv PROVE ReallocSound
  OBVIOUS
<1>1. mem \in Memory /\ Held = HeldIn(live) /\ live \in [Slots -> Allocations]
  BY DEF LoneInv, LoneOK, Held, HeldIn
<1>2. /\ Limit = HEAP_SIZE /\ Whole + 8 = HEAP_SIZE /\ HEAP_SIZE \in Chain /\ 0 \in Chain
      /\ \A o \in Chain : o = 0 \/ o = HEAP_SIZE \/ (o = 8 + Masked(mem, 0) /\ ~Allocated(mem, o))
      /\ HEAP_SIZE \in Nat /\ HEAP_SIZE >= 16 /\ Whole \in Nat
  BY LoneChain, SizeFacts, SpotsAt DEF Whole
<1>3. ASSUME NEW i \in Held
      PROVE  /\ live[i].ptr = 4 /\ live[i].size \in Nat /\ live[i].known \in Nat
             /\ live[i].known <= live[i].size /\ live[i].size <= Whole
             /\ live[i].size <= Masked(mem, 0) /\ Masked(mem, 0) < live[i].size + 8
             /\ Allocated(mem, 0)
             /\ \A h \in HalfWords : 4 <= 2 * h /\ 2 * h < 4 + live[i].known => mem[h] = live[i].val
  <2>1. InLone(mem, live[i]) /\ live[i] \in Allocations
    BY <1>1 DEF LoneInv, LoneOK, HeldIn
  <2>2. PICK a \in 0 .. Whole : Lone(mem, a) /\ live[i].size <= a /\ a < live[i].size + 8
    BY <2>1 DEF InLone
  <2>3. Masked(mem, 0) = a /\ Allocated(mem, 0) /\ a \in Nat
    BY <1>1, <2>2, LoneFacts
  <2>4. live[i].size \in Nat /\ live[i].known \in Nat
    BY <2>1 DEF Allocations
  <2> QED BY <1>2, <2>1, <2>2, <2>3, <2>4 DEF InLone
<1>4. TypeOK
  BY <1>1, <1>2, <1>3 DEF TypeOK, Memory, HEADER_SIZE, FOOTER_SIZE
<1>5. LiveDisjoint
  BY SoleSlot DEF LiveDisjoint, Held
<1>6. Held = {} => Masked(mem, 0) = Whole /\ ~Allocated(mem, 0)
  BY <1>1, FreeFacts DEF LoneInv, LoneOK
<1>7. HeapTiled
  <2>1. {o \in Chain \ {Limit} : Allocated(mem, o)} = {live[i].ptr - HEADER_SIZE : i \in Held}
    <3>1. CASE Held = {}
      BY <1>2, <1>6, <3>1
    <3>2. CASE Held # {}
      <4>1. PICK i \in Held : TRUE
        BY <3>2
      <4>2. Held = {i}
        BY <4>1, SoleSlot DEF Held
      <4>3. live[i].ptr - HEADER_SIZE = 0
        BY <1>3, <4>1 DEF HEADER_SIZE
      <4>4. 0 # HEAP_SIZE /\ Allocated(mem, 0)
        BY <1>2, <1>3, <4>1
      <4> QED BY <1>2, <4>2, <4>3, <4>4
    <3> QED BY <3>1, <3>2
  <2> QED BY <1>2, <2>1 DEF HeapTiled
<1>8. AllMerged
  BY <1>2, <1>6 DEF AllMerged, MDATA_SIZE
<1>9. ContentsKept
  <2> SUFFICES ASSUME NEW i \in Held,
                      NEW h \in live[i].ptr \div 2 .. (live[i].ptr + live[i].known) \div 2 - 1
               PROVE  HalfWord(mem, h) = live[i].val
    BY DEF ContentsKept
  <2>1. PICK k \in Nat : k = live[i].known /\ k <= Whole
    BY <1>2, <1>3
  <2>2. h \in 4 \div 2 .. (4 + k) \div 2 - 1
    BY <1>3, <2>1
  <2>3. h \in Int /\ 4 <= 2 * h /\ 2 * h < 4 + k
    BY <2>1, <2>2
  <2>4. h \in HalfWords
    BY <1>2, <2>1, <2>3, SizeFacts DEF HalfWords
  <2>5. mem[h] = live[i].val
    BY <1>3, <2>1, <2>3, <2>4
  <2> QED BY <2>4, <2>5 DEF HalfWord
<1>10. FreedIsFree
  BY <1>3 DEF FreedIsFree, HEADER_SIZE, MDATA_SIZE
<1> QED BY <1>4, <1>5, <1>7, <1>8, <1>9, <1>10 DEF ReallocSound, HeapSound

\* With one caller krealloc is sound too: whatever the sizes but one, the block
\* grows and shrinks in place with its contents, and what is given back is
\* one free block again.  The one is the request two bytes short of the whole
\* block, for which split_block overwrites half of the outer footer.
THEOREM ReallocSafe ==
  ASSUME HEAP_SIZE <= Span, MaxLive <= 1, NoClash
  PROVE  SpecRealloc => []ReallocSound
<1>1. Init => LoneInv
  BY InitLone
<1>2. LoneInv /\ [NextRealloc]_vars => LoneInv'
  BY NextLone
<1>3. LoneInv => ReallocSound
  BY LoneSound
<1> QED BY <1>1, <1>2, <1>3, PTL DEF SpecRealloc
=============================================================================
