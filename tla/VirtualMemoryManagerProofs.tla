--------------------- MODULE VirtualMemoryManagerProofs ---------------------
(***************************************************************************)
(* Proofs about VirtualMemoryManager, for any number of levels, of entries *)
(* in a table, of frames and of page maps.                                 *)
(***************************************************************************)
EXTENDS VirtualMemoryManager, NumberFacts

-----------------------------------------------------------------------------
(* Addresses. *)

LEMMA Division ==
  ASSUME NEW a \in Nat, NEW d \in Nat \ {0}
  PROVE  /\ a \div d \in Nat
         /\ a % d \in 0 .. d - 1
         /\ a = d * (a \div d) + (a % d)
OBVIOUS

\* Halving the bound with the number.
LEMMA DivisionBound ==
  ASSUME NEW a \in Nat, NEW d \in Nat \ {0}, NEW s \in Nat, a < d * s
  PROVE  a \div d < s
OBVIOUS

\* Shifted is what its recursive definition says.
LEMMA ShiftedSteps ==
  ASSUME NEW v \in Nat
  PROVE  /\ Shifted(v) \in [0 .. LEVELS -> Nat]
         /\ Shifted(v)[0] = v
         /\ \A l \in 1 .. LEVELS : Shifted(v)[l] = Shifted(v)[l - 1] \div ENTRIES
<1> DEFINE step == [x \in (0 .. LEVELS) \X Nat |-> x[2] \div ENTRIES]
           Is(f) == f = [l \in 0 .. LEVELS |-> IF l = 0 THEN v ELSE f[l - 1] \div ENTRIES]
<1>1. LEVELS \in Nat /\ ENTRIES \in Nat \ {0}
  BY VmmConstants
<1>2. step \in [(0 .. LEVELS) \X Nat -> Nat]
  BY <1>1, Division
<1>3. PICK f \in [0 .. LEVELS -> Nat] : Recurs(f, LEVELS, v, step)
  <2> HIDE DEF step
  <2> QED
    BY <1>1, <1>2, Recursion
<1>4. \A l \in 1 .. LEVELS : step[<<l, f[l - 1]>>] = f[l - 1] \div ENTRIES
  BY <1>1
<1>a. f[0] = v /\ \A l \in 1 .. LEVELS : f[l] = step[<<l, f[l - 1]>>]
  BY <1>3, Zenon DEF Recurs
<1>5. Is(f)
  <2>1. ASSUME NEW l \in 0 .. LEVELS
        PROVE  f[l] = IF l = 0 THEN v ELSE f[l - 1] \div ENTRIES
    <3>1. CASE l = 0
      BY <1>a, <3>1, Zenon
    <3>2. CASE l # 0
      <4>1. l \in 1 .. LEVELS
        BY <1>1, <3>2
      <4> QED
        BY <1>a, <1>4, <3>2, <4>1
    <3> QED
      BY <3>1, <3>2
  <2> QED
    BY <2>1
<1>6. Shifted(v) = CHOOSE g : Is(g)
  BY DEF Shifted
<1>7. Is(Shifted(v))
  <2> HIDE DEF Is
  <2> QED
    BY <1>5, <1>6, Zenon
<1> DEFINE g == Shifted(v)
<1> HIDE DEF g
<1>8. g = [l \in 0 .. LEVELS |-> IF l = 0 THEN v ELSE g[l - 1] \div ENTRIES]
  BY <1>7 DEF g
<1>9. DOMAIN g = 0 .. LEVELS /\ g[0] = v /\ \A l \in 1 .. LEVELS : g[l] = g[l - 1] \div ENTRIES
  BY <1>1, <1>8
<1>10. 0 .. LEVELS \subseteq {l \in 0 .. LEVELS : g[l] \in Nat}
  <2> DEFINE S == {l \in 0 .. LEVELS : g[l] \in Nat}
  <2>1. 0 \in S
    BY <1>1, <1>9
  <2>2. ASSUME NEW i \in 0 .. LEVELS - 1, i \in S
        PROVE  i + 1 \in S
    <3>1. i + 1 \in 1 .. LEVELS /\ (i + 1) - 1 = i /\ g[i] \in Nat
      BY <1>1, <2>2
    <3>2. g[i + 1] = g[i] \div ENTRIES
      BY <1>9, <3>1
    <3>3. g[i] \div ENTRIES \in Nat
      BY <1>1, <3>1, Division, Zenon
    <3>4. g[i + 1] \in Nat /\ i + 1 \in 0 .. LEVELS
      BY <1>1, <3>1, <3>2, <3>3
    <3> QED
      BY <3>4
  <2> HIDE DEF S
  <2> QED
    BY <1>1, <2>1, <2>2, UpTo DEF S
<1>11. g \in [0 .. LEVELS -> Nat]
  BY <1>8, <1>9, <1>10
<1> QED
  BY <1>9, <1>11 DEF g

LEMMA PagesBelowSteps ==
  /\ PagesBelow \in [0 .. LEVELS -> Nat \ {0}]
  /\ PagesBelow[0] = 1
  /\ \A l \in 1 .. LEVELS : PagesBelow[l] = ENTRIES * PagesBelow[l - 1]
<1> DEFINE step == [x \in (0 .. LEVELS) \X (Nat \ {0}) |-> ENTRIES * x[2]]
           Is(f) == f = [level \in 0 .. LEVELS |-> IF level = 0 THEN 1 ELSE ENTRIES * f[level - 1]]
<1>1. LEVELS \in Nat /\ ENTRIES \in Nat \ {0} /\ 1 \in Nat \ {0}
  BY VmmConstants
<1>2. step \in [(0 .. LEVELS) \X (Nat \ {0}) -> Nat \ {0}]
  BY <1>1
<1>3. PICK f \in [0 .. LEVELS -> Nat \ {0}] : Recurs(f, LEVELS, 1, step)
  <2> HIDE DEF step
  <2> QED
    BY <1>1, <1>2, Recursion
<1>4. f[0] = 1 /\ \A l \in 1 .. LEVELS : f[l] = step[<<l, f[l - 1]>>]
  BY <1>3, Zenon DEF Recurs
<1>5. ASSUME NEW l \in 1 .. LEVELS
      PROVE  f[l] = ENTRIES * f[l - 1]
  <2>1. l \in 0 .. LEVELS /\ f[l - 1] \in Nat \ {0}
    BY <1>1
  <2>2. step[<<l, f[l - 1]>>] = ENTRIES * f[l - 1]
    BY <2>1
  <2> QED
    BY <1>4, <2>2
<1>6. Is(f)
  <2>1. ASSUME NEW l \in 0 .. LEVELS
        PROVE  f[l] = IF l = 0 THEN 1 ELSE ENTRIES * f[l - 1]
    <3>1. CASE l = 0
      BY <1>4, <3>1, Zenon
    <3>2. CASE l # 0
      <4>1. l \in 1 .. LEVELS
        BY <1>1, <3>2
      <4> QED
        BY <1>5, <3>2, <4>1
    <3> QED
      BY <3>1, <3>2
  <2> QED
    BY <2>1
<1>7. PagesBelow = CHOOSE g : Is(g)
  BY DEF PagesBelow
<1>8. Is(PagesBelow)
  <2> HIDE DEF Is
  <2> QED
    BY <1>6, <1>7, Zenon
<1> DEFINE g == PagesBelow
<1> HIDE DEF g
<1>9. g = [level \in 0 .. LEVELS |-> IF level = 0 THEN 1 ELSE ENTRIES * g[level - 1]]
  BY <1>8 DEF g
<1>10. DOMAIN g = 0 .. LEVELS /\ g[0] = 1 /\ \A l \in 1 .. LEVELS : g[l] = ENTRIES * g[l - 1]
  BY <1>1, <1>9
<1>11. 0 .. LEVELS \subseteq {l \in 0 .. LEVELS : g[l] \in Nat \ {0}}
  <2> DEFINE S == {l \in 0 .. LEVELS : g[l] \in Nat \ {0}}
  <2>1. 0 \in S
    BY <1>1, <1>10
  <2>2. ASSUME NEW i \in 0 .. LEVELS - 1, i \in S
        PROVE  i + 1 \in S
    <3>1. i + 1 \in 1 .. LEVELS /\ (i + 1) - 1 = i /\ g[i] \in Nat \ {0}
      BY <1>1, <2>2
    <3>2. g[i + 1] = ENTRIES * g[i]
      BY <1>10, <3>1
    <3> QED
      BY <1>1, <3>1, <3>2
  <2> HIDE DEF S
  <2> QED
    BY <1>1, <2>1, <2>2, UpTo DEF S
<1>12. g \in [0 .. LEVELS -> Nat \ {0}]
  BY <1>9, <1>10, <1>11
<1> QED
  BY <1>10, <1>12 DEF g

\* Shifted by the bits of all levels, nothing is left of a page number.
LEMMA PageNumbers ==
  ASSUME NEW v \in VPages
  PROVE  v \in Nat /\ Shifted(v)[LEVELS] = 0
<1>1. LEVELS \in Nat /\ ENTRIES \in Nat \ {0}
  BY VmmConstants
<1>2. /\ PagesBelow \in [0 .. LEVELS -> Nat \ {0}] /\ PagesBelow[0] = 1
      /\ \A l \in 1 .. LEVELS : PagesBelow[l] = ENTRIES * PagesBelow[l - 1]
  BY PagesBelowSteps
<1>3. v \in Nat /\ v < PagesBelow[LEVELS]
  BY <1>1, <1>2 DEF VPages
<1> DEFINE s == Shifted(v)
<1>4. /\ s \in [0 .. LEVELS -> Nat] /\ s[0] = v
      /\ \A l \in 1 .. LEVELS : s[l] = s[l - 1] \div ENTRIES
  BY <1>3, ShiftedSteps
<1> HIDE DEF s
<1> DEFINE S == {l \in 0 .. LEVELS : s[l] < PagesBelow[LEVELS - l]}
<1>5. 0 \in S
  BY <1>1, <1>3, <1>4
<1>6. ASSUME NEW i \in 0 .. LEVELS - 1, i \in S
      PROVE  i + 1 \in S
  <2> DEFINE j == LEVELS - i
  <2>1. /\ i + 1 \in 1 .. LEVELS /\ (i + 1) - 1 = i /\ i \in 0 .. LEVELS /\ j \in 1 .. LEVELS
        /\ j - 1 = LEVELS - (i + 1) /\ j - 1 \in 0 .. LEVELS
    BY <1>1
  <2>2. s[i] < PagesBelow[j]
    BY <1>6
  <2> HIDE DEF j
  <2>3. PagesBelow[j] = ENTRIES * PagesBelow[j - 1] /\ PagesBelow[j - 1] \in Nat
    BY <1>2, <2>1
  <2>4. s[i + 1] = s[i] \div ENTRIES /\ s[i] \in Nat
    BY <1>4, <2>1
  <2>5. s[i] \div ENTRIES < PagesBelow[j - 1]
    BY <1>1, <2>2, <2>3, <2>4, DivisionBound
  <2> QED
    BY <2>1, <2>4, <2>5
<1>7. LEVELS \in S
  <2> HIDE DEF S
  <2> QED
    BY <1>1, <1>5, <1>6, UpTo
<1>8. s[LEVELS] < PagesBelow[0] /\ s[LEVELS] \in Nat
  BY <1>1, <1>4, <1>7
<1> QED
  BY <1>2, <1>3, <1>8 DEF s

\* The part of an address that a level sees is the next level's and the index.
LEMMA Digits ==
  ASSUME NEW v \in VPages, NEW l \in 1 .. LEVELS
  PROVE  /\ V_ADDR_INDEX(v, l) \in Slots
         /\ Shifted(v)[l] \in Nat
         /\ Shifted(v)[l - 1] \in Nat
         /\ Shifted(v)[l - 1] = ENTRIES * Shifted(v)[l] + V_ADDR_INDEX(v, l)
         /\ Shifted(v)[l] = Shifted(v)[l - 1] \div ENTRIES
         /\ V_ADDR_INDEX(v, l) = Shifted(v)[l - 1] % ENTRIES
<1>1. LEVELS \in Nat /\ ENTRIES \in Nat \ {0}
  BY VmmConstants
<1> DEFINE a == Shifted(v)[l - 1]
<1>2. a \in Nat /\ Shifted(v)[l] = a \div ENTRIES /\ Shifted(v)[l] \in Nat
  <2>1. l - 1 \in 0 .. LEVELS /\ l \in 0 .. LEVELS
    BY <1>1
  <2> QED
    BY <2>1, PageNumbers, ShiftedSteps
<1>3. V_ADDR_INDEX(v, l) = a % ENTRIES
  BY DEF V_ADDR_INDEX
<1> HIDE DEF a
<1>4. a % ENTRIES \in 0 .. ENTRIES - 1 /\ a = ENTRIES * (a \div ENTRIES) + (a % ENTRIES)
  BY <1>1, <1>2, Division
<1> QED
  BY <1>2, <1>3, <1>4 DEF Slots, a

\* Pages with the same part above a level have it above the next level too.
LEMMA SamePrefix ==
  ASSUME NEW v \in VPages, NEW w \in VPages, NEW l \in 1 .. LEVELS
  PROVE  Shifted(v)[l - 1] = Shifted(w)[l - 1]
            <=> /\ Shifted(v)[l] = Shifted(w)[l]
                /\ V_ADDR_INDEX(v, l) = V_ADDR_INDEX(w, l)
BY Digits

-----------------------------------------------------------------------------
(* Walks. *)

\* What the walk from r meets at level l, if the tables above are those of f.
Met(r, v, f, l) ==
    IF l = LEVELS THEN r ELSE GetPageTable(f[l + 1], V_ADDR_INDEX(v, l + 1))

Follows(r, v, f) == f = [l \in 1 .. LEVELS |-> Met(r, v, f, l)]

LEMMA WalkExists ==
  ASSUME NEW r, NEW v
  PROVE  \E f : Follows(r, v, f)
<1> DEFINE OK(f, k) == /\ f = [l \in 1 .. LEVELS |-> f[l]]
                       /\ \A l \in 1 .. LEVELS : LEVELS - k <= l => f[l] = Met(r, v, f, l)
           S == {k \in 0 .. LEVELS - 1 : \E f : OK(f, k)}
<1>1. LEVELS \in Nat /\ LEVELS - 1 \in Nat
  BY VmmConstants
<1>2. 0 \in S
  <2> DEFINE f == [l \in 1 .. LEVELS |-> r]
  <2>1. OK(f, 0)
    BY <1>1 DEF Met
  <2>2. 0 \in 0 .. LEVELS - 1
    BY <1>1
  <2> HIDE DEF OK, f
  <2> QED
    BY <2>1, <2>2
<1>3. ASSUME NEW k \in 0 .. (LEVELS - 1) - 1, k \in S
      PROVE  k + 1 \in S
  <2>1. PICK f : OK(f, k)
    BY <1>3
  <2> DEFINE m == LEVELS - (k + 1)
             g == [l \in 1 .. LEVELS |-> IF l = m THEN Met(r, v, f, m) ELSE f[l]]
  <2>2. m \in 1 .. LEVELS /\ m # LEVELS /\ k + 1 \in 0 .. LEVELS - 1
    BY <1>1
  <2>3. \A l \in 1 .. LEVELS : l # m => g[l] = f[l]
    OBVIOUS
  <2>4. ASSUME NEW l \in 1 .. LEVELS, m <= l
        PROVE  g[l] = Met(r, v, g, l)
    <3>1. l # LEVELS => g[l + 1] = f[l + 1]
      BY <1>1, <2>2, <2>4
    <3>2. Met(r, v, g, l) = Met(r, v, f, l)
      BY <3>1 DEF Met
    <3>3. CASE l = m
      BY <3>2, <3>3
    <3>4. CASE l # m
      <4>1. LEVELS - k <= l
        BY <1>1, <2>4, <3>4
      <4> QED
        BY <2>1, <3>2, <3>4, <4>1
    <3> QED
      BY <3>3, <3>4
  <2>5. g = [l \in 1 .. LEVELS |-> g[l]]
    OBVIOUS
  <2> HIDE DEF g
  <2>6. OK(g, k + 1)
    BY <2>4, <2>5
  <2> HIDE DEF OK
  <2> QED
    BY <2>2, <2>6
<1>4. LEVELS - 1 \in S
  <2> HIDE DEF S
  <2> QED
    BY <1>1, <1>2, <1>3, UpTo
<1>5. PICK f : OK(f, LEVELS - 1)
  BY <1>4
<1>6. \A l \in 1 .. LEVELS : f[l] = Met(r, v, f, l)
  BY <1>1, <1>5
<1>7. Follows(r, v, f)
  BY <1>5, <1>6 DEF Follows
<1> QED
  BY <1>7

\* ... and there is only one.
LEMMA WalkUnique ==
  ASSUME NEW r, NEW v, NEW f, NEW g, Follows(r, v, f), Follows(r, v, g)
  PROVE  f = g
<1> DEFINE S == {k \in 0 .. LEVELS - 1 : f[LEVELS - k] = g[LEVELS - k]}
<1>1. LEVELS \in Nat /\ LEVELS - 1 \in Nat
  BY VmmConstants
<1>2. /\ f = [l \in 1 .. LEVELS |-> Met(r, v, f, l)]
      /\ g = [l \in 1 .. LEVELS |-> Met(r, v, g, l)]
  BY DEF Follows
<1>3. /\ DOMAIN f = 1 .. LEVELS /\ DOMAIN g = 1 .. LEVELS
      /\ \A l \in 1 .. LEVELS : f[l] = Met(r, v, f, l) /\ g[l] = Met(r, v, g, l)
  BY <1>2
<1>4. 0 \in S
  <2>1. f[LEVELS] = g[LEVELS]
    BY <1>1, <1>3 DEF Met
  <2> QED
    BY <1>1, <2>1
<1>5. ASSUME NEW k \in 0 .. (LEVELS - 1) - 1, k \in S
      PROVE  k + 1 \in S
  <2> DEFINE m == LEVELS - (k + 1)
  <2>1. m \in 1 .. LEVELS /\ m # LEVELS /\ m + 1 = LEVELS - k /\ k + 1 \in 0 .. LEVELS - 1
    BY <1>1
  <2>2. f[m + 1] = g[m + 1]
    BY <1>5, <2>1
  <2>3. f[m] = g[m]
    BY <1>3, <2>1, <2>2 DEF Met
  <2> QED
    BY <2>1, <2>3
<1>6. 0 .. LEVELS - 1 \subseteq S
  <2> HIDE DEF S
  <2> QED
    BY <1>1, <1>4, <1>5, UpTo
<1>7. ASSUME NEW l \in 1 .. LEVELS PROVE f[l] = g[l]
  <2>1. LEVELS - l \in 0 .. LEVELS - 1 /\ LEVELS - (LEVELS - l) = l
    BY <1>1
  <2> QED
    BY <1>6, <2>1
<1> QED
  BY <1>2, <1>3, <1>7

\* Both as one formula, which holds of the next state as well.
WalksDefined ==
    \A r, v : /\ Follows(r, v, Walk(r, v))
              /\ \A f : Follows(r, v, f) => f = Walk(r, v)

LEMMA WalkDefined == WalksDefined
<1> SUFFICES ASSUME NEW r, NEW v PROVE Follows(r, v, Walk(r, v))
  BY WalkUnique DEF WalksDefined
<1>1. Walk(r, v) = CHOOSE f : Follows(r, v, f)
  BY DEF Walk, Follows, Met
<1> QED
  BY <1>1, WalkExists, Zenon

LEMMA WalkDefinedNext == WalksDefined'
BY WalkDefined, PTL

\* A walk, level by level.
LEMMA WalkSteps ==
  ASSUME NEW r, NEW v
  PROVE  /\ DOMAIN Walk(r, v) = 1 .. LEVELS
         /\ Walk(r, v)[LEVELS] = r
         /\ \A l \in 1 .. LEVELS - 1 :
               /\ l + 1 \in 1 .. LEVELS
               /\ Walk(r, v)[l] = GetPageTable(Walk(r, v)[l + 1], V_ADDR_INDEX(v, l + 1))
<1>1. LEVELS \in Nat \ {0}
  BY VmmConstants
<1> DEFINE f == Walk(r, v)
<1>2. f = [l \in 1 .. LEVELS |-> Met(r, v, f, l)]
  BY WalkDefined DEF WalksDefined, Follows
<1> HIDE DEF f
<1>3. DOMAIN f = 1 .. LEVELS /\ \A l \in 1 .. LEVELS : f[l] = Met(r, v, f, l)
  BY <1>2
<1>4. LEVELS \in 1 .. LEVELS
  BY <1>1
<1>5. \A l \in 1 .. LEVELS - 1 : l \in 1 .. LEVELS /\ l # LEVELS /\ l + 1 \in 1 .. LEVELS
  BY <1>1
<1> QED
  BY <1>3, <1>4, <1>5 DEF Met, f

\* Nothing is met below a gap.
LEMMA NullBelow ==
  ASSUME NEW r, NEW v, NEW l \in 1 .. LEVELS, Walk(r, v)[l] = NULL,
         NEW k \in 1 .. l
  PROVE  Walk(r, v)[k] = NULL
<1>1. LEVELS \in Nat \ {0} /\ l - 1 \in Nat
  BY VmmConstants
<1> DEFINE f == Walk(r, v)
           S == {i \in 0 .. l - 1 : f[l - i] = NULL}
<1>2. 0 \in S
  BY <1>1
<1>3. ASSUME NEW i \in 0 .. (l - 1) - 1, i \in S
      PROVE  i + 1 \in S
  <2> DEFINE m == l - (i + 1)
  <2>1. m \in 1 .. LEVELS - 1 /\ m + 1 = l - i /\ i + 1 \in 0 .. l - 1
    BY <1>1
  <2>2. f[m + 1] = NULL
    BY <1>3, <2>1
  <2>3. f[m] = GetPageTable(f[m + 1], V_ADDR_INDEX(v, m + 1))
    BY <2>1, WalkSteps
  <2> QED
    BY <2>1, <2>2, <2>3 DEF GetPageTable
<1>4. 0 .. l - 1 \subseteq S
  <2> HIDE DEF S
  <2> QED
    BY <1>1, <1>2, <1>3, UpTo
<1>5. l - k \in 0 .. l - 1 /\ l - (l - k) = k
  BY <1>1
<1>6. l - k \in S
  BY <1>4, <1>5
<1>7. f[l - (l - k)] = NULL
  BY <1>6
<1> QED
  BY <1>5, <1>7

\* Pages that agree above a level meet the same table there.
LEMMA SamePath ==
  ASSUME NEW r, NEW v \in VPages, NEW w \in VPages, NEW l \in 1 .. LEVELS,
         Shifted(v)[l] = Shifted(w)[l]
  PROVE  Walk(r, v)[l] = Walk(r, w)[l]
<1>1. LEVELS \in Nat \ {0} /\ LEVELS - 1 \in Nat
  BY VmmConstants
<1> DEFINE Same(m) == Shifted(v)[m] = Shifted(w)[m] => Walk(r, v)[m] = Walk(r, w)[m]
           S == {i \in 0 .. LEVELS - 1 : Same(LEVELS - i)}
<1>2. 0 \in S
  <2>1. Same(LEVELS)
    BY WalkSteps
  <2>2. 0 \in 0 .. LEVELS - 1 /\ LEVELS - 0 = LEVELS
    BY <1>1
  <2> QED
    BY <2>1, <2>2
<1>3. ASSUME NEW i \in 0 .. (LEVELS - 1) - 1, i \in S
      PROVE  i + 1 \in S
  <2> DEFINE m == LEVELS - (i + 1)
  <2>1. /\ m \in 1 .. LEVELS - 1 /\ m + 1 \in 1 .. LEVELS /\ (m + 1) - 1 = m
        /\ LEVELS - i = m + 1 /\ i + 1 \in 0 .. LEVELS - 1
    BY <1>1
  <2>2. Same(m + 1)
    BY <1>3, <2>1
  <2>3. ASSUME Shifted(v)[m] = Shifted(w)[m]
        PROVE  Walk(r, v)[m] = Walk(r, w)[m]
    <3>1. /\ Shifted(v)[m + 1] = Shifted(w)[m + 1]
          /\ V_ADDR_INDEX(v, m + 1) = V_ADDR_INDEX(w, m + 1)
      <4> HIDE DEF m
      <4>1. Shifted(v)[(m + 1) - 1] = Shifted(w)[(m + 1) - 1]
        BY <2>1, <2>3
      <4> QED
        BY <2>1, <4>1, SamePrefix
    <3>2. Walk(r, v)[m + 1] = Walk(r, w)[m + 1]
      BY <2>2, <3>1
    <3> HIDE DEF m
    <3> QED
      BY <2>1, <3>1, <3>2, WalkSteps
  <2> QED
    BY <2>1, <2>3
<1>4. 0 .. LEVELS - 1 \subseteq S
  <2> HIDE DEF S
  <2> QED
    BY <1>1, <1>2, <1>3, UpTo
<1>5. LEVELS - l \in 0 .. LEVELS - 1 /\ LEVELS - (LEVELS - l) = l
  BY <1>1
<1> QED
  BY <1>4, <1>5

\* Writes to entries that a walk does not read leave it as it is.
LEMMA WalkSame ==
  ASSUME NEW r, NEW v,
         \A l \in 2 .. LEVELS :
            Walk(r, v)[l] # NULL =>
               ram'[Walk(r, v)[l]][V_ADDR_INDEX(v, l)] = ram[Walk(r, v)[l]][V_ADDR_INDEX(v, l)]
  PROVE  Walk(r, v)' = Walk(r, v)
<1>1. LEVELS \in Nat \ {0}
  BY VmmConstants
<1>2. PICK f : f = Walk(r, v)
  OBVIOUS
<1>3. f = [l \in 1 .. LEVELS |-> Met(r, v, f, l)]
  BY <1>2, WalkDefined DEF WalksDefined, Follows
<1>4. ASSUME NEW l \in 1 .. LEVELS
      PROVE  Met(r, v, f, l)' = Met(r, v, f, l)
  <2>1. CASE l = LEVELS
    BY <2>1 DEF Met
  <2>2. CASE l # LEVELS
    <3>1. l + 1 \in 2 .. LEVELS
      BY <1>1, <2>2
    <3>2. f[l + 1] # NULL => ram'[f[l + 1]][V_ADDR_INDEX(v, l + 1)]
                               = ram[f[l + 1]][V_ADDR_INDEX(v, l + 1)]
      BY <1>2, <3>1
    <3>3. GetPageTable(f[l + 1], V_ADDR_INDEX(v, l + 1))' = GetPageTable(f[l + 1], V_ADDR_INDEX(v, l + 1))
      BY <3>2 DEF GetPageTable
    <3> QED
      BY <2>2, <3>3 DEF Met
  <2> QED
    BY <2>1, <2>2
<1>5. f = [l \in 1 .. LEVELS |-> Met(r, v, f, l)']
  BY <1>3, <1>4
<1>6. Follows(r, v, f)'
  BY <1>5 DEF Follows, Met
<1>7. f = Walk(r, v)'
  BY <1>6, WalkDefinedNext DEF WalksDefined
<1> QED
  BY <1>2, <1>7

-----------------------------------------------------------------------------
(* The invariant. *)

PageEntries == [addr : Tables \cup PAddrs \cup {NULL}, flags : {{}, KERNEL_PAGE, USER_PAGE}]

\* Types; a frame that nobody holds is filled with zeros.
RamInv ==
    /\ ram \in [Tables -> [Slots -> PageEntries]]
    /\ roots \subseteq allocated /\ allocated \subseteq Tables
    /\ \A t \in Tables \ allocated : ram[t] = EmptyTable

\* A walk meets frames that are held, and ends only where no table is present.
LinkInv ==
    /\ \A r \in roots, v \in VPages : \A l \in 1 .. LEVELS :
          Walk(r, v)[l] \in allocated \cup {NULL}
    /\ \A r \in roots, v \in VPages : \A l \in 1 .. LEVELS - 1 :
          (/\ Walk(r, v)[l + 1] # NULL
           /\ GetPageFlag(ram[Walk(r, v)[l + 1]][V_ADDR_INDEX(v, l + 1)], "PRESENT"))
             => Walk(r, v)[l] # NULL

\* A table is met on one path only.
OnePath ==
    \A r, s \in roots : \A v, w \in VPages : \A k, l \in 1 .. LEVELS :
        (Walk(r, v)[k] # NULL /\ Walk(r, v)[k] = Walk(s, w)[l])
            => r = s /\ k = l /\ Shifted(v)[k] = Shifted(w)[k]

\* No frame is lost.
NoneLost ==
    \A t \in allocated : \E r \in roots, v \in VPages : \E l \in 1 .. LEVELS :
        Walk(r, v)[l] = t

\* A call stands at a table that its address leads to.
CallInv ==
    /\ call # NoCall =>
          /\ call.root \in roots /\ call.vpage \in VPages
          /\ call.entry \in PageEntries /\ call.entry.flags \in {KERNEL_PAGE, USER_PAGE}
          /\ call.unmapped \in BOOLEAN
          /\ at.level \in 1 .. LEVELS
          /\ at.table = Walk(call.root, call.vpage)[at.level]
          /\ at.table # NULL
    /\ ret \in BOOLEAN

VmmInv == RamInv /\ LinkInv /\ OnePath /\ NoneLost /\ CallInv

\* What follows for a walk of a root.
LEMMA TableMet ==
  ASSUME RamInv, LinkInv, NEW r \in roots, NEW v \in VPages, NEW l \in 1 .. LEVELS,
         Walk(r, v)[l] # NULL
  PROVE  /\ Walk(r, v)[l] \in allocated /\ Walk(r, v)[l] \in Tables
         /\ V_ADDR_INDEX(v, l) \in Slots
         /\ ram[Walk(r, v)[l]][V_ADDR_INDEX(v, l)] \in PageEntries
BY Digits DEF RamInv, LinkInv

\* The entries that walks of the roots read, all at level 2 or above, are as
\* they were.
LinksKept ==
    \A r \in roots, v \in VPages : \A l \in 2 .. LEVELS :
        Walk(r, v)[l] # NULL =>
            ram'[Walk(r, v)[l]][V_ADDR_INDEX(v, l)] = ram[Walk(r, v)[l]][V_ADDR_INDEX(v, l)]

\* Then the tree is as it was.
LEMMA TreeKept ==
  ASSUME LinkInv, OnePath, NoneLost, LinksKept, roots' = roots, allocated' = allocated
  PROVE  /\ LinkInv' /\ OnePath' /\ NoneLost'
         /\ \A r \in roots, v \in VPages : Walk(r, v)' = Walk(r, v)
<1>1. ASSUME NEW r \in roots, NEW v \in VPages
      PROVE  Walk(r, v)' = Walk(r, v)
  BY WalkSame DEF LinksKept
<1>2. \A r \in roots', v \in VPages : \A l \in 1 .. LEVELS :
         Walk(r, v)'[l] \in allocated' \cup {NULL}
  BY <1>1 DEF LinkInv
<1>3. ASSUME NEW r \in roots, NEW v \in VPages, NEW l \in 1 .. LEVELS - 1,
             Walk(r, v)[l + 1] # NULL,
             GetPageFlag(ram'[Walk(r, v)[l + 1]][V_ADDR_INDEX(v, l + 1)], "PRESENT")
      PROVE  Walk(r, v)[l] # NULL
  <2>1. l + 1 \in 2 .. LEVELS
    BY VmmConstants
  <2>2. ram'[Walk(r, v)[l + 1]][V_ADDR_INDEX(v, l + 1)] = ram[Walk(r, v)[l + 1]][V_ADDR_INDEX(v, l + 1)]
    BY <1>3, <2>1 DEF LinksKept
  <2> QED
    BY <1>3, <2>2 DEF LinkInv
<1>4. LinkInv'
  BY <1>1, <1>2, <1>3 DEF LinkInv, GetPageFlag
<1>5. OnePath' /\ NoneLost'
  BY <1>1 DEF OnePath, NoneLost
<1> QED
  BY <1>1, <1>4, <1>5

LEMMA NothingWritten ==
  ASSUME LinkInv, OnePath, NoneLost, ram' = ram, roots' = roots, allocated' = allocated
  PROVE  /\ LinkInv' /\ OnePath' /\ NoneLost'
         /\ \A r \in roots, v \in VPages : Walk(r, v)' = Walk(r, v) /\ Leaf(r, v)' = Leaf(r, v)
<1>1. LinksKept
  BY DEF LinksKept
<1>2. /\ LinkInv' /\ OnePath' /\ NoneLost'
      /\ \A r \in roots, v \in VPages : Walk(r, v)' = Walk(r, v)
  BY <1>1, TreeKept
<1> QED
  BY <1>2 DEF Leaf, GetPage

\* A write to one entry of one table.
EntryWritten(t, i, e) == ram' = [ram EXCEPT ![t][i] = e]

\* A write to the entry of a page changes that entry and no other page's, and
\* no walk.
LEMMA LeafWritten ==
  ASSUME RamInv, LinkInv, OnePath, NoneLost, NEW r \in roots, NEW v \in VPages,
         GetPage(r, v) # NULL, NEW e \in PageEntries,
         EntryWritten(GetPage(r, v), V_ADDR_INDEX(v, 1), e),
         roots' = roots, allocated' = allocated
  PROVE  /\ RamInv' /\ LinkInv' /\ OnePath' /\ NoneLost'
         /\ \A s \in roots, w \in VPages :
               /\ Walk(s, w)' = Walk(s, w)
               /\ Leaf(s, w)' = IF s = r /\ w = v THEN e ELSE Leaf(s, w)
<1> DEFINE t == Walk(r, v)[1]
           i == V_ADDR_INDEX(v, 1)
<1>1. 1 \in 1 .. LEVELS /\ LEVELS \in Nat \ {0}
  BY VmmConstants
<1>2. t # NULL /\ t \in allocated /\ t \in Tables /\ i \in Slots
  BY <1>1, TableMet DEF GetPage
<1>3. ram' = [ram EXCEPT ![t][i] = e]
  BY DEF GetPage, EntryWritten
<1> HIDE DEF t, i
<1>4. \A u \in Tables, j \in Slots : ram'[u][j] = IF u = t /\ j = i THEN e ELSE ram[u][j]
  BY <1>2, <1>3 DEF RamInv
<1>5. RamInv'
  <2>1. ram' \in [Tables -> [Slots -> PageEntries]]
    <3> DEFINE row == [ram[t] EXCEPT ![i] = e]
    <3>1. row \in [Slots -> PageEntries]
      BY <1>2 DEF RamInv
    <3>2. ram' = [ram EXCEPT ![t] = row]
      BY <1>3
    <3> HIDE DEF row
    <3> QED
      BY <3>1, <3>2 DEF RamInv
  <2>2. \A u \in Tables \ allocated : ram'[u] = EmptyTable
    BY <1>2, <1>3 DEF RamInv
  <2> QED
    BY <2>1, <2>2 DEF RamInv, PageEntries
<1>6. LinksKept
  <2> SUFFICES ASSUME NEW s \in roots, NEW w \in VPages, NEW l \in 2 .. LEVELS,
                      Walk(s, w)[l] # NULL
               PROVE  ram'[Walk(s, w)[l]][V_ADDR_INDEX(w, l)]
                         = ram[Walk(s, w)[l]][V_ADDR_INDEX(w, l)]
    BY DEF LinksKept
  <2>1. l \in 1 .. LEVELS /\ l # 1
    BY <1>1
  <2>2. Walk(s, w)[l] # t
    BY <1>1, <2>1 DEF OnePath, t
  <2>3. Walk(s, w)[l] \in Tables /\ V_ADDR_INDEX(w, l) \in Slots
    BY <2>1, TableMet
  <2> QED
    BY <1>4, <2>2, <2>3
<1>7. /\ LinkInv' /\ OnePath' /\ NoneLost'
      /\ \A s \in roots, w \in VPages : Walk(s, w)' = Walk(s, w)
  BY <1>6, TreeKept
<1>8. ASSUME NEW s \in roots, NEW w \in VPages
      PROVE  Leaf(s, w)' = IF s = r /\ w = v THEN e ELSE Leaf(s, w)
  <2> DEFINE u == Walk(s, w)[1]
             j == V_ADDR_INDEX(w, 1)
  <2>1. /\ Leaf(s, w) = IF u = NULL THEN EMPTY ELSE ram[u][j]
        /\ Leaf(s, w)' = IF u = NULL THEN EMPTY ELSE ram'[u][j]
    BY <1>7 DEF Leaf, GetPage
  <2>2. CASE s = r /\ w = v
    BY <1>2, <1>4, <2>1, <2>2 DEF t, i
  <2>3. CASE ~(s = r /\ w = v)
    <3>1. CASE u = NULL
      BY <2>1, <2>3, <3>1
    <3>2. CASE u # NULL
      <4>1. u \in Tables /\ j \in Slots
        BY <1>1, <3>2, TableMet
      <4>2. ~(u = t /\ j = i)
        <5> SUFFICES ASSUME u = t, j = i PROVE FALSE
          OBVIOUS
        <5>1. s = r /\ Shifted(w)[1] = Shifted(v)[1]
          BY <1>1, <3>2 DEF OnePath, t
        <5>2. Shifted(w)[0] = Shifted(v)[0]
          BY <1>1, <5>1, SamePrefix DEF i
        <5>3. w = v
          BY <5>2, ShiftedSteps, PageNumbers
        <5> QED
          BY <2>3, <5>1, <5>3
      <4> HIDE DEF u, j
      <4> QED
        BY <1>4, <2>1, <2>3, <3>2, <4>1, <4>2
    <3> QED
      BY <3>1, <3>2
  <2> QED
    BY <2>2, <2>3
<1> QED
  BY <1>5, <1>7, <1>8

\* Linking the new, empty table f into the free entry of v at level n: the walks
\* of all pages that share this entry now meet f, and then nothing; every other
\* walk is as it was.
LEMMA TableLinked ==
  ASSUME RamInv, LinkInv, OnePath, NoneLost, NEW r \in roots, NEW v \in VPages,
         NEW n \in 2 .. LEVELS, Walk(r, v)[n] # NULL,
         ~GetPageFlag(ram[Walk(r, v)[n]][V_ADDR_INDEX(v, n)], "PRESENT"),
         NEW f \in Tables \ allocated, NEW e \in PageEntries, e.addr = f, "PRESENT" \in e.flags,
         EntryWritten(Walk(r, v)[n], V_ADDR_INDEX(v, n), e),
         roots' = roots, allocated' = allocated \cup {f}
  PROVE  /\ RamInv' /\ LinkInv' /\ OnePath' /\ NoneLost'
         /\ Walk(r, v)'[n - 1] = f
         /\ \A s \in roots, w \in VPages : Leaf(s, w)' = Leaf(s, w)
<1> DEFINE t == Walk(r, v)[n]
           i == V_ADDR_INDEX(v, n)
           On(s, w) == s = r /\ Shifted(w)[n - 1] = Shifted(v)[n - 1]
           New(s, w, k) == IF On(s, w) /\ k < n THEN IF k = n - 1 THEN f ELSE NULL
                           ELSE Walk(s, w)[k]
<1>1. /\ LEVELS \in Nat \ {0} /\ n \in 1 .. LEVELS /\ n - 1 \in 1 .. LEVELS - 1
      /\ n - 1 \in 1 .. LEVELS /\ (n - 1) + 1 = n /\ 1 < n /\ 1 \in 1 .. LEVELS
  BY VmmConstants
<1>2. t \in allocated /\ t \in Tables /\ i \in Slots /\ f # t /\ f # NULL
  BY <1>1, TableMet, VmmConstants DEF RamInv
<1>3. \A u \in Tables, j \in Slots : ram'[u][j] = IF u = t /\ j = i THEN e ELSE ram[u][j]
  BY <1>2 DEF RamInv, EntryWritten
<1>4. RamInv'
  <2>1. ram' \in [Tables -> [Slots -> PageEntries]]
    <3> DEFINE row == [ram[t] EXCEPT ![i] = e]
    <3>1. row \in [Slots -> PageEntries]
      BY <1>2 DEF RamInv
    <3>2. ram' = [ram EXCEPT ![t] = row]
      BY DEF EntryWritten
    <3> HIDE DEF row
    <3> QED
      BY <3>1, <3>2 DEF RamInv
  <2>2. \A u \in Tables \ allocated : ram'[u] = EmptyTable
    BY <1>2 DEF RamInv, EntryWritten
  <2> QED
    BY <2>1, <2>2 DEF RamInv, PageEntries
<1>5. \A j \in Slots : ram'[f][j] = EMPTY
  BY <1>2, <1>3 DEF RamInv, EmptyTable
<1>6. ASSUME NEW s \in roots, NEW w \in VPages, On(s, w)
      PROVE  /\ Walk(s, w)[n] = t /\ V_ADDR_INDEX(w, n) = i
             /\ \A k \in 1 .. n - 1 : Walk(s, w)[k] = NULL
  <2>1. Shifted(w)[n] = Shifted(v)[n] /\ V_ADDR_INDEX(w, n) = i
    BY <1>1, <1>6, SamePrefix
  <2>2. Walk(s, w)[n] = t
    BY <1>1, <1>6, <2>1, SamePath
  <2>3. Walk(s, w)[n - 1] = GetPageTable(Walk(s, w)[(n - 1) + 1], V_ADDR_INDEX(w, (n - 1) + 1))
    BY <1>1, WalkSteps
  <2>4. Walk(s, w)[n - 1] = NULL
    BY <1>1, <2>1, <2>2, <2>3 DEF GetPageTable
  <2> QED
    BY <1>1, <2>1, <2>2, <2>4, NullBelow
<1>7. ASSUME NEW s \in roots, NEW w \in VPages, NEW l \in 1 .. LEVELS,
             Walk(s, w)[l] # NULL, ~(On(s, w) /\ l = n)
      PROVE  /\ ram'[Walk(s, w)[l]][V_ADDR_INDEX(w, l)] = ram[Walk(s, w)[l]][V_ADDR_INDEX(w, l)]
             /\ Walk(s, w)[l] \in allocated
  <2>1. Walk(s, w)[l] \in allocated /\ Walk(s, w)[l] \in Tables /\ V_ADDR_INDEX(w, l) \in Slots
    BY <1>7, TableMet
  <2>2. ~(Walk(s, w)[l] = t /\ V_ADDR_INDEX(w, l) = i)
    <3> SUFFICES ASSUME Walk(s, w)[l] = t, V_ADDR_INDEX(w, l) = i PROVE FALSE
      OBVIOUS
    <3>1. s = r /\ l = n /\ Shifted(w)[n] = Shifted(v)[n]
      BY <1>1, <1>7 DEF OnePath
    <3>2. Shifted(w)[n - 1] = Shifted(v)[n - 1]
      BY <1>1, <3>1, SamePrefix
    <3> QED
      BY <1>7, <3>1, <3>2
  <2> QED
    BY <1>3, <2>1, <2>2
<1> HIDE DEF t, i
<1>8. ASSUME NEW s \in roots, NEW w \in VPages, NEW k \in 1 .. LEVELS
      PROVE  Walk(s, w)'[k] = New(s, w, k)
  <2>1. CASE ~On(s, w)
    <3>1. \A l \in 2 .. LEVELS :
             Walk(s, w)[l] # NULL =>
                ram'[Walk(s, w)[l]][V_ADDR_INDEX(w, l)] = ram[Walk(s, w)[l]][V_ADDR_INDEX(w, l)]
      BY <1>1, <1>7, <2>1
    <3>2. Walk(s, w)' = Walk(s, w)
      BY <3>1, WalkSame
    <3> QED
      BY <2>1, <3>2
  <2>2. CASE On(s, w)
    <3>1. PICK g : g = [l \in 1 .. LEVELS |-> New(s, w, l)]
      OBVIOUS
    <3>2. /\ \A l \in 1 .. LEVELS : l < n => g[l] = IF l = n - 1 THEN f ELSE NULL
          /\ \A l \in 1 .. LEVELS : ~(l < n) => g[l] = Walk(s, w)[l]
      BY <2>2, <3>1
    <3> HIDE DEF On, New
    <3>3. ASSUME NEW l \in 1 .. LEVELS
          PROVE  g[l] = Met(s, w, g, l)'
      <4>1. CASE l = LEVELS
        <5>1. g[l] = s
          BY <1>1, <3>2, <4>1, WalkSteps
        <5> QED
          BY <4>1, <5>1 DEF Met
      <4>2. CASE l # LEVELS
        <5>1. l \in 1 .. LEVELS - 1 /\ l + 1 \in 1 .. LEVELS
          BY <1>1, <4>2
        <5>2. Met(s, w, g, l)' = GetPageTable(g[l + 1], V_ADDR_INDEX(w, l + 1))'
          BY <4>2 DEF Met
        <5>3. CASE l >= n
          <6>1. g[l] = Walk(s, w)[l] /\ g[l + 1] = Walk(s, w)[l + 1] /\ l + 1 # n
            BY <1>1, <3>2, <5>1, <5>3
          <6>2. Walk(s, w)[l] = GetPageTable(Walk(s, w)[l + 1], V_ADDR_INDEX(w, l + 1))
            BY <5>1, WalkSteps
          <6>3. Walk(s, w)[l + 1] # NULL =>
                   ram'[Walk(s, w)[l + 1]][V_ADDR_INDEX(w, l + 1)]
                      = ram[Walk(s, w)[l + 1]][V_ADDR_INDEX(w, l + 1)]
            BY <1>7, <5>1, <6>1
          <6> QED
            BY <5>2, <6>1, <6>2, <6>3 DEF GetPageTable
        <5>4. CASE l = n - 1
          <6>1. l + 1 = n /\ g[l] = f /\ g[n] = Walk(s, w)[n]
            BY <1>1, <3>2, <5>4
          <6>2. g[n] = t /\ V_ADDR_INDEX(w, n) = i
            BY <1>6, <2>2, <6>1
          <6>3. ram'[t][i] = e /\ t # NULL
            BY <1>2, <1>3 DEF t
          <6> QED
            BY <5>2, <6>1, <6>2, <6>3 DEF GetPageTable, GetPageFlag
        <5>5. CASE l < n - 1
          <6>1. g[l] = NULL /\ g[l + 1] \in {f, NULL}
            BY <1>1, <3>2, <5>1, <5>5
          <6>2. V_ADDR_INDEX(w, l + 1) \in Slots
            BY <5>1, Digits
          <6> QED
            BY <1>5, <5>2, <6>1, <6>2 DEF GetPageTable, GetPageFlag, EMPTY
        <5> QED
          BY <1>1, <5>3, <5>4, <5>5
      <4> QED
        BY <4>1, <4>2
    <3>4. g = [l \in 1 .. LEVELS |-> Met(s, w, g, l)']
      BY <3>1, <3>3
    <3>5. Follows(s, w, g)'
      BY <3>4 DEF Follows, Met
    <3>6. g = Walk(s, w)'
      BY <3>5, WalkDefinedNext DEF WalksDefined
    <3> QED
      BY <3>1, <3>6
  <2> QED
    BY <2>1, <2>2
<1>9. ASSUME NEW s \in roots, NEW w \in VPages, NEW k \in 1 .. LEVELS
      PROVE  /\ Walk(s, w)'[k] = f <=> On(s, w) /\ k = n - 1
             /\ (Walk(s, w)'[k] # NULL /\ ~(On(s, w) /\ k = n - 1))
                   => Walk(s, w)'[k] = Walk(s, w)[k]
             /\ Walk(s, w)[k] # NULL => Walk(s, w)'[k] = Walk(s, w)[k]
  <2>1. Walk(s, w)[k] # f
    BY <1>2 DEF LinkInv
  <2>2. On(s, w) /\ k < n => Walk(s, w)[k] = NULL
    BY <1>1, <1>6
  <2> QED
    BY <1>1, <1>2, <1>8, <2>1, <2>2
<1>10. OnePath'
  <2> SUFFICES ASSUME NEW s1 \in roots, NEW s2 \in roots, NEW w1 \in VPages, NEW w2 \in VPages,
                      NEW k \in 1 .. LEVELS, NEW l \in 1 .. LEVELS,
                      Walk(s1, w1)'[k] # NULL, Walk(s1, w1)'[k] = Walk(s2, w2)'[l]
               PROVE  s1 = s2 /\ k = l /\ Shifted(w1)[k] = Shifted(w2)[k]
    BY DEF OnePath
  <2>1. CASE Walk(s1, w1)'[k] = f
    <3>1. On(s1, w1) /\ k = n - 1
      BY <1>9, <2>1
    <3>2. Walk(s2, w2)'[l] = f
      BY <2>1
    <3>3. On(s2, w2) /\ l = n - 1
      BY <1>9, <3>2
    <3> QED
      BY <3>1, <3>3
  <2>2. CASE Walk(s1, w1)'[k] # f
    <3>1. Walk(s1, w1)'[k] = Walk(s1, w1)[k]
      BY <1>9, <2>2
    <3>2. Walk(s2, w2)'[l] = Walk(s2, w2)[l]
      BY <1>9, <2>2
    <3>3. Walk(s1, w1)[k] # NULL /\ Walk(s1, w1)[k] = Walk(s2, w2)[l]
      BY <3>1, <3>2
    <3> QED
      BY <3>3 DEF OnePath
  <2> QED
    BY <2>1, <2>2
<1>11. NoneLost'
  <2>1. Walk(r, v)'[n - 1] = f
    BY <1>1, <1>9
  <2>2. ASSUME NEW u \in allocated
        PROVE  \E s \in roots, w \in VPages : \E l \in 1 .. LEVELS : Walk(s, w)'[l] = u
    <3>1. PICK s \in roots, w \in VPages : \E l \in 1 .. LEVELS : Walk(s, w)[l] = u
      BY DEF NoneLost
    <3>2. PICK l \in 1 .. LEVELS : Walk(s, w)[l] = u
      BY <3>1
    <3>3. u # NULL
      BY VmmConstants DEF RamInv
    <3>4. Walk(s, w)'[l] = u
      BY <1>9, <3>2, <3>3
    <3> QED
      BY <3>4
  <2> QED
    BY <1>1, <2>1, <2>2 DEF NoneLost
<1>12. LinkInv'
  <2>1. ASSUME NEW s \in roots, NEW w \in VPages, NEW l \in 1 .. LEVELS
        PROVE  Walk(s, w)'[l] \in allocated' \cup {NULL}
    BY <1>9 DEF LinkInv
  <2>2. ASSUME NEW s \in roots, NEW w \in VPages, NEW l \in 1 .. LEVELS - 1,
               Walk(s, w)'[l + 1] # NULL,
               GetPageFlag(ram'[Walk(s, w)'[l + 1]][V_ADDR_INDEX(w, l + 1)], "PRESENT")
        PROVE  Walk(s, w)'[l] # NULL
    <3>1. l \in 1 .. LEVELS /\ l + 1 \in 1 .. LEVELS
      BY <1>1
    <3>2. CASE On(s, w) /\ l = n - 1
      BY <1>2, <1>9, <3>1, <3>2
    <3>3. CASE On(s, w) /\ l + 1 = n - 1
      <4>1. Walk(s, w)'[l + 1] = f /\ V_ADDR_INDEX(w, l + 1) \in Slots
        BY <1>9, <3>1, <3>3, Digits
      <4> QED
        BY <1>5, <2>2, <4>1 DEF GetPageFlag, EMPTY
    <3>4. CASE ~(On(s, w) /\ (l = n - 1 \/ l + 1 = n - 1))
      <4>1. Walk(s, w)'[l + 1] = Walk(s, w)[l + 1] /\ ~(On(s, w) /\ l + 1 = n)
        BY <1>1, <1>9, <2>2, <3>1, <3>4
      <4>2. GetPageFlag(ram[Walk(s, w)[l + 1]][V_ADDR_INDEX(w, l + 1)], "PRESENT")
        BY <1>7, <2>2, <3>1, <4>1
      <4>3. Walk(s, w)[l] # NULL
        BY <2>2, <4>1, <4>2 DEF LinkInv
      <4> QED
        BY <1>9, <3>1, <4>3
    <3> QED
      BY <3>2, <3>3, <3>4
  <2> QED
    BY <2>1, <2>2 DEF LinkInv, GetPageFlag
<1>13. ASSUME NEW s \in roots, NEW w \in VPages
       PROVE  Leaf(s, w)' = Leaf(s, w)
  <2>1. /\ Leaf(s, w) = IF Walk(s, w)[1] = NULL THEN EMPTY
                         ELSE ram[Walk(s, w)[1]][V_ADDR_INDEX(w, 1)]
        /\ Leaf(s, w)' = IF Walk(s, w)'[1] = NULL THEN EMPTY
                          ELSE ram'[Walk(s, w)'[1]][V_ADDR_INDEX(w, 1)]
    BY DEF Leaf, GetPage
  <2>2. CASE Walk(s, w)[1] # NULL
    <3>1. ram'[Walk(s, w)[1]][V_ADDR_INDEX(w, 1)] = ram[Walk(s, w)[1]][V_ADDR_INDEX(w, 1)]
      BY <1>1, <1>7, <2>2
    <3> QED
      BY <1>1, <1>9, <2>1, <2>2, <3>1
  <2>3. CASE Walk(s, w)[1] = NULL
    <3>1. Walk(s, w)'[1] \in {f, NULL}
      BY <1>1, <1>9, <2>3
    <3>2. V_ADDR_INDEX(w, 1) \in Slots
      BY <1>1, Digits
    <3> QED
      BY <1>5, <2>1, <2>3, <3>1, <3>2
  <2> QED
    BY <2>2, <2>3
<1>14. Walk(r, v)'[n - 1] = f
  BY <1>1, <1>9
<1> QED
  BY <1>4, <1>10, <1>11, <1>12, <1>13, <1>14

\* A new root is a walk's only table; the other walks are as they were.
LEMMA RootAdded ==
  ASSUME RamInv, LinkInv, OnePath, NoneLost, NEW f \in Tables \ allocated,
         ram' = ram, roots' = roots \cup {f}, allocated' = allocated \cup {f}
  PROVE  /\ RamInv' /\ LinkInv' /\ OnePath' /\ NoneLost'
         /\ \A v \in VPages : Leaf(f, v)' = EMPTY
         /\ \A r \in roots, v \in VPages : Leaf(r, v)' = Leaf(r, v)
<1>1. /\ LEVELS \in Nat \ {0} /\ LEVELS \in 1 .. LEVELS /\ 1 \in 1 .. LEVELS
      /\ \A l \in 1 .. LEVELS - 1 : l \in 1 .. LEVELS /\ l + 1 \in 1 .. LEVELS
  BY VmmConstants
<1>2. f # NULL /\ f \notin roots /\ f \notin allocated
  BY VmmConstants DEF RamInv
<1>3. \A j \in Slots : ram[f][j] = EMPTY
  BY DEF RamInv, EmptyTable
<1>4. RamInv'
  BY DEF RamInv, PageEntries
<1>5. ASSUME NEW r \in roots, NEW v \in VPages
      PROVE  Walk(r, v)' = Walk(r, v) /\ Leaf(r, v)' = Leaf(r, v)
  <2>1. Walk(r, v)' = Walk(r, v)
    BY WalkSame
  <2> QED
    BY <2>1 DEF Leaf, GetPage
<1>6. ASSUME NEW v \in VPages
      PROVE  \A k \in 1 .. LEVELS : Walk(f, v)'[k] = IF k = LEVELS THEN f ELSE NULL
  <2>1. Walk(f, v)' = Walk(f, v)
    BY WalkSame
  <2>2. Walk(f, v)[LEVELS] = f
    BY WalkSteps
  <2>3. ASSUME NEW k \in 1 .. LEVELS, k # LEVELS
        PROVE  Walk(f, v)[k] = NULL
    <3>1. LEVELS - 1 \in 1 .. LEVELS - 1 /\ (LEVELS - 1) + 1 = LEVELS /\ k \in 1 .. LEVELS - 1
      BY <1>1, <2>3
    <3>2. Walk(f, v)[LEVELS - 1] = GetPageTable(Walk(f, v)[(LEVELS - 1) + 1], V_ADDR_INDEX(v, (LEVELS - 1) + 1))
      BY <3>1, WalkSteps
    <3>3. V_ADDR_INDEX(v, LEVELS) \in Slots
      BY <1>1, Digits
    <3>4. Walk(f, v)[LEVELS - 1] = NULL
      BY <1>3, <2>2, <3>1, <3>2, <3>3 DEF GetPageTable, GetPageFlag, EMPTY
    <3> QED
      BY <1>1, <3>1, <3>4, NullBelow
  <2> QED
    BY <2>1, <2>2, <2>3
<1>7. ASSUME NEW v \in VPages PROVE Leaf(f, v)' = EMPTY
  <2>1. Leaf(f, v)' = IF Walk(f, v)'[1] = NULL THEN EMPTY
                      ELSE ram'[Walk(f, v)'[1]][V_ADDR_INDEX(v, 1)]
    BY DEF Leaf, GetPage
  <2>2. Walk(f, v)'[1] \in {f, NULL} /\ V_ADDR_INDEX(v, 1) \in Slots
    BY <1>1, <1>6, Digits
  <2> QED
    BY <1>3, <2>1, <2>2
<1>8. LinkInv'
  <2>1. ASSUME NEW r \in roots', NEW v \in VPages, NEW l \in 1 .. LEVELS
        PROVE  Walk(r, v)'[l] \in allocated' \cup {NULL}
    BY <1>5, <1>6 DEF LinkInv
  <2>2. ASSUME NEW r \in roots', NEW v \in VPages, NEW l \in 1 .. LEVELS - 1,
               Walk(r, v)'[l + 1] # NULL,
               GetPageFlag(ram'[Walk(r, v)'[l + 1]][V_ADDR_INDEX(v, l + 1)], "PRESENT")
        PROVE  Walk(r, v)'[l] # NULL
    <3>1. CASE r \in roots
      <4>1. Walk(r, v)' = Walk(r, v)
        BY <1>5, <3>1
      <4> QED
        BY <2>2, <3>1, <4>1 DEF LinkInv
    <3>2. CASE r = f
      <4>1. Walk(f, v)'[l + 1] = f /\ V_ADDR_INDEX(v, l + 1) \in Slots
        BY <1>1, <1>6, <2>2, <3>2, Digits
      <4> QED
        BY <1>3, <2>2, <3>2, <4>1 DEF GetPageFlag, EMPTY
    <3> QED
      BY <3>1, <3>2
  <2> QED
    BY <2>1, <2>2 DEF LinkInv, GetPageFlag
<1>9. OnePath'
  <2> SUFFICES ASSUME NEW r \in roots', NEW s \in roots', NEW v \in VPages, NEW w \in VPages,
                      NEW k \in 1 .. LEVELS, NEW l \in 1 .. LEVELS,
                      Walk(r, v)'[k] # NULL, Walk(r, v)'[k] = Walk(s, w)'[l]
               PROVE  r = s /\ k = l /\ Shifted(v)[k] = Shifted(w)[k]
    BY DEF OnePath
  <2>1. CASE r \in roots /\ s \in roots
    <3>1. Walk(r, v)' = Walk(r, v) /\ Walk(s, w)' = Walk(s, w)
      BY <1>5, <2>1
    <3> QED
      BY <2>1, <3>1 DEF OnePath
  <2>2. CASE r \in roots /\ s = f
    <3>1. Walk(r, v)'[k] \in allocated
      BY <1>5, <2>2 DEF LinkInv
    <3>2. Walk(s, w)'[l] \in {f, NULL}
      BY <1>6, <2>2
    <3> QED
      BY <1>2, <3>1, <3>2
  <2>3. CASE r = f /\ s \in roots
    <3>1. Walk(s, w)'[l] \in allocated \cup {NULL}
      BY <1>5, <2>3 DEF LinkInv
    <3>2. Walk(r, v)'[k] \in {f, NULL}
      BY <1>6, <2>3
    <3> QED
      BY <1>2, <3>1, <3>2
  <2>4. CASE r = f /\ s = f
    <3>1. k = LEVELS /\ l = LEVELS
      <4>1. Walk(f, v)'[k] # NULL /\ Walk(f, w)'[l] # NULL
        BY <2>4
      <4> QED
        BY <1>6, <4>1
    <3>2. Shifted(v)[LEVELS] = Shifted(w)[LEVELS]
      BY PageNumbers
    <3> QED
      BY <2>4, <3>1, <3>2
  <2> QED
    BY <2>1, <2>2, <2>3, <2>4
<1>10. NoneLost'
  <2>1. 0 \in VPages
    BY <1>1, PagesBelowSteps DEF VPages
  <2>2. Walk(f, 0)'[LEVELS] = f
    BY <1>1, <1>6, <2>1
  <2> QED
    BY <1>1, <1>5, <2>1, <2>2 DEF NoneLost
<1> QED
  BY <1>4, <1>5, <1>7, <1>8, <1>9, <1>10

-----------------------------------------------------------------------------
(* The actions. *)

\* The roots and what they translate are as they were.
SameLeaves ==
    /\ roots' = roots
    /\ \A r \in roots, v \in VPages : Leaf(r, v)' = Leaf(r, v)

\* One entry of one root is set.
LeafSet(r, v, e) ==
    /\ roots' = roots
    /\ \A s \in roots, w \in VPages :
          Leaf(s, w)' = IF s = r /\ w = v THEN e ELSE Leaf(s, w)

LEMMA LeafType ==
  ASSUME RamInv, LinkInv, NEW r \in roots, NEW v \in VPages
  PROVE  Leaf(r, v) \in PageEntries
<1>1. 1 \in 1 .. LEVELS
  BY VmmConstants
<1>2. EMPTY \in PageEntries
  BY DEF EMPTY, PageEntries
<1> QED
  BY <1>1, <1>2, TableMet DEF Leaf, GetPage

LEMMA VmmInit == Init => VmmInv
<1> SUFFICES ASSUME Init PROVE VmmInv
  OBVIOUS
<1>1. EmptyTable \in [Slots -> PageEntries]
  BY DEF EmptyTable, EMPTY, PageEntries
<1>2. RamInv
  BY <1>1 DEF Init, RamInv
<1> QED
  BY <1>2 DEF Init, VmmInv, LinkInv, OnePath, NoneLost, CallInv

LEMMA NewPageMapKeeps ==
  ASSUME VmmInv, NewPageMap
  PROVE  /\ VmmInv' /\ UNCHANGED call /\ ret' = TRUE
         /\ \E f \in Tables :
               /\ f \notin roots /\ roots' = roots \cup {f}
               /\ \A v \in VPages : Leaf(f, v)' = EMPTY
               /\ \A r \in roots, v \in VPages : Leaf(r, v)' = Leaf(r, v)
<1>1. PICK f \in Tables \ allocated : roots' = roots \cup {f} /\ allocated' = allocated \cup {f}
  BY DEF NewPageMap, AllocFirstFrame
<1>2. ram' = ram /\ call = NoCall /\ call' = call /\ ret' = TRUE /\ f \notin roots
  BY DEF NewPageMap, VmmInv, RamInv
<1>3. /\ RamInv' /\ LinkInv' /\ OnePath' /\ NoneLost'
      /\ \A v \in VPages : Leaf(f, v)' = EMPTY
      /\ \A r \in roots, v \in VPages : Leaf(r, v)' = Leaf(r, v)
  BY <1>1, <1>2, RootAdded DEF VmmInv
<1>4. CallInv'
  BY <1>2 DEF CallInv
<1> QED
  BY <1>1, <1>2, <1>3, <1>4 DEF VmmInv

\* A call that starts stands at its root.
LEMMA CallStarts ==
  ASSUME RamInv', NEW r \in roots', NEW v \in VPages, NEW a \in Tables \cup PAddrs \cup {NULL},
         NEW fl \in {KERNEL_PAGE, USER_PAGE}, NEW w, NEW u \in BOOLEAN,
         StartMap(r, v, a, fl, w, u), Walk(r, v)'[LEVELS] = r, ret' \in BOOLEAN
  PROVE  /\ CallInv' /\ call' # NoCall /\ call'.root = r /\ call'.vpage = v
<1>1. LEVELS \in 1 .. LEVELS
  BY VmmConstants
<1>2. r # NULL
  BY VmmConstants DEF RamInv
<1>3. Entry(a, fl) \in PageEntries /\ Entry(a, fl).flags = fl
  BY DEF Entry, PageEntries
<1>4. /\ call'.root = r /\ call'.vpage = v /\ call'.entry = Entry(a, fl) /\ call'.unmapped = u
      /\ at'.table = r /\ at'.level = LEVELS
  BY DEF StartMap
<1>5. call' # NoCall
  BY <1>2, <1>4 DEF NoCall
<1>6. Walk(call.root, call.vpage)' = Walk(r, v)'
  BY <1>4
<1>7. CallInv'
  BY <1>1, <1>2, <1>3, <1>4, <1>6 DEF CallInv, PageEntries
<1> QED
  BY <1>4, <1>5, <1>7

LEMMA MapPageKeeps ==
  ASSUME VmmInv, CallMap
  PROVE  /\ VmmInv' /\ SameLeaves /\ call = NoCall /\ ret' = ret
         /\ call' # NoCall /\ call'.root \in roots /\ call'.vpage \in VPages
<1>1. PICK r \in roots, v \in CallPages, p \in PAddrs, fl \in {KERNEL_PAGE, USER_PAGE} :
         MapPage(r, v, p, fl)
  BY DEF CallMap
<1>2. v \in VPages
  BY VmmConstants
<1>3. /\ ram' = ram /\ roots' = roots /\ allocated' = allocated /\ ret' = ret /\ call = NoCall
      /\ StartMap(r, v, p, fl, v, TRUE) /\ ret \in BOOLEAN
  BY <1>1 DEF MapPage, VmmInv, CallInv
<1>4. /\ LinkInv' /\ OnePath' /\ NoneLost'
      /\ \A s \in roots, w \in VPages : Walk(s, w)' = Walk(s, w) /\ Leaf(s, w)' = Leaf(s, w)
  BY <1>3, NothingWritten DEF VmmInv
<1>5. RamInv'
  BY <1>3 DEF VmmInv, RamInv, PageEntries
<1>6. Walk(r, v)'[LEVELS] = r
  BY <1>2, <1>4, WalkSteps
<1>7. CallInv' /\ call' # NoCall /\ call'.root = r /\ call'.vpage = v
  BY <1>2, <1>3, <1>5, <1>6, CallStarts
<1> QED
  BY <1>2, <1>3, <1>4, <1>5, <1>7 DEF VmmInv, SameLeaves

\* What is known of a call under way.
LEMMA Standing ==
  ASSUME VmmInv, call # NoCall
  PROVE  /\ call.root \in roots /\ call.vpage \in VPages
         /\ call.entry \in PageEntries /\ call.entry.flags \in {KERNEL_PAGE, USER_PAGE}
         /\ call.unmapped \in BOOLEAN /\ at.level \in 1 .. LEVELS
         /\ at.table = Walk(call.root, call.vpage)[at.level] /\ at.table # NULL
BY DEF VmmInv, CallInv

LEMMA DescendKeeps ==
  ASSUME VmmInv, Descend
  PROVE  VmmInv' /\ SameLeaves /\ UNCHANGED <<call, ret>>
<1>1. call # NoCall /\ at.level > 1 /\ ret \in BOOLEAN
  BY DEF Descend, VmmInv, CallInv
<1>2. PICK r, v, n : r = call.root /\ v = call.vpage /\ n = at.level
  OBVIOUS
<1>3. /\ r \in roots /\ v \in VPages /\ n \in 1 .. LEVELS
      /\ at.table = Walk(r, v)[n] /\ Walk(r, v)[n] # NULL
  BY <1>1, <1>2, Standing
<1>4. n - 1 \in 1 .. LEVELS - 1 /\ n - 1 \in 1 .. LEVELS /\ (n - 1) + 1 = n
  BY <1>1, <1>2, <1>3, VmmConstants
<1>5. ram' = ram /\ roots' = roots /\ allocated' = allocated /\ call' = call /\ ret' = ret
  BY DEF Descend
<1>6. /\ LinkInv' /\ OnePath' /\ NoneLost'
      /\ \A s \in roots, w \in VPages : Walk(s, w)' = Walk(s, w) /\ Leaf(s, w)' = Leaf(s, w)
  BY <1>5, NothingWritten DEF VmmInv
<1>7. RamInv'
  BY <1>5 DEF VmmInv, RamInv, PageEntries
<1>8. /\ GetPageFlag(ram[Walk(r, v)[n]][V_ADDR_INDEX(v, n)], "PRESENT")
      /\ at' = [table |-> ram[Walk(r, v)[n]][V_ADDR_INDEX(v, n)].addr, level |-> n - 1]
  BY <1>2, <1>3 DEF Descend, Index
<1>9. Walk(r, v)[n - 1] # NULL
  BY <1>3, <1>4, <1>8 DEF VmmInv, LinkInv
<1>10. Walk(r, v)[n - 1] = GetPageTable(Walk(r, v)[(n - 1) + 1], V_ADDR_INDEX(v, (n - 1) + 1))
  BY <1>4, WalkSteps
<1>11. at'.table = Walk(r, v)[n - 1] /\ at'.level = n - 1
  BY <1>3, <1>4, <1>8, <1>10 DEF GetPageTable
<1>12. Walk(call.root, call.vpage)' = Walk(r, v)
  <2>1. Walk(call.root, call.vpage)' = Walk(r, v)'
    BY <1>2, <1>5
  <2> QED
    BY <1>3, <1>6, <2>1
<1>13. CallInv'
  <2>1. /\ call'.root \in roots' /\ call'.vpage \in VPages
        /\ call'.entry \in PageEntries /\ call'.entry.flags \in {KERNEL_PAGE, USER_PAGE}
        /\ call'.unmapped \in BOOLEAN
    BY <1>1, <1>5, Standing
  <2> QED
    BY <1>1, <1>4, <1>5, <1>9, <1>11, <1>12, <2>1 DEF CallInv, PageEntries
<1> QED
  BY <1>5, <1>6, <1>7, <1>13 DEF VmmInv, SameLeaves

LEMMA CreateTableKeeps ==
  ASSUME VmmInv, CreateTable
  PROVE  VmmInv' /\ SameLeaves /\ UNCHANGED <<call, ret>>
<1>1. call # NoCall /\ at.level > 1 /\ ret \in BOOLEAN
  BY DEF CreateTable, VmmInv, CallInv
<1>2. PICK r, v, n : r = call.root /\ v = call.vpage /\ n = at.level
  OBVIOUS
<1>3. /\ r \in roots /\ v \in VPages /\ n \in 1 .. LEVELS
      /\ at.table = Walk(r, v)[n] /\ Walk(r, v)[n] # NULL
      /\ call.entry.flags \in {KERNEL_PAGE, USER_PAGE}
  BY <1>1, <1>2, Standing
<1>4. n \in 2 .. LEVELS /\ n - 1 \in 1 .. LEVELS
  BY <1>1, <1>2, <1>3, VmmConstants
<1>5. roots' = roots /\ call' = call /\ ret' = ret
  BY DEF CreateTable
<1>6. PICK f \in Tables \ allocated :
         /\ allocated' = allocated \cup {f}
         /\ ram' = [ram EXCEPT ![at.table][Index] = Entry(f, call.entry.flags)]
         /\ at' = [table |-> f, level |-> at.level - 1]
  BY DEF CreateTable, AllocFirstFrame
<1>7. PICK e : e = Entry(f, call.entry.flags)
  OBVIOUS
<1>8. e \in PageEntries /\ e.addr = f /\ "PRESENT" \in e.flags
  BY <1>3, <1>7 DEF Entry, PageEntries, KERNEL_PAGE, USER_PAGE
<1>9. /\ EntryWritten(Walk(r, v)[n], V_ADDR_INDEX(v, n), e)
      /\ ~GetPageFlag(ram[Walk(r, v)[n]][V_ADDR_INDEX(v, n)], "PRESENT")
  BY <1>2, <1>3, <1>6, <1>7 DEF CreateTable, Index, EntryWritten
<1>10. /\ RamInv' /\ LinkInv' /\ OnePath' /\ NoneLost'
       /\ Walk(r, v)'[n - 1] = f
       /\ \A s \in roots, w \in VPages : Leaf(s, w)' = Leaf(s, w)
  BY <1>3, <1>4, <1>5, <1>6, <1>8, <1>9, TableLinked DEF VmmInv
<1>11. f # NULL /\ at'.table = f /\ at'.level = n - 1
  BY <1>2, <1>6, VmmConstants
<1>12. Walk(call.root, call.vpage)' = Walk(r, v)'
  BY <1>2, <1>5
<1>13. CallInv'
  <2>1. /\ call'.root \in roots' /\ call'.vpage \in VPages
        /\ call'.entry \in PageEntries /\ call'.entry.flags \in {KERNEL_PAGE, USER_PAGE}
        /\ call'.unmapped \in BOOLEAN
    BY <1>1, <1>5, Standing
  <2> QED
    BY <1>1, <1>4, <1>5, <1>10, <1>11, <1>12, <2>1 DEF CallInv, PageEntries
<1> QED
  BY <1>5, <1>10, <1>13 DEF VmmInv, SameLeaves

LEMMA OutOfFramesKeeps ==
  ASSUME VmmInv, OutOfFrames
  PROVE  VmmInv' /\ SameLeaves /\ call # NoCall /\ call' = NoCall /\ ret' = FALSE
<1>1. /\ ram' = ram /\ roots' = roots /\ allocated' = allocated
      /\ call # NoCall /\ call' = NoCall /\ ret' = FALSE
  BY DEF OutOfFrames, Finish
<1>2. /\ LinkInv' /\ OnePath' /\ NoneLost'
      /\ \A s \in roots, w \in VPages : Walk(s, w)' = Walk(s, w) /\ Leaf(s, w)' = Leaf(s, w)
  BY <1>1, NothingWritten DEF VmmInv
<1>3. RamInv'
  BY <1>1 DEF VmmInv, RamInv, PageEntries
<1>4. CallInv'
  BY <1>1 DEF CallInv
<1> QED
  BY <1>1, <1>2, <1>3, <1>4 DEF VmmInv, SameLeaves

LEMMA SetEntryKeeps ==
  ASSUME VmmInv, SetEntry
  PROVE  /\ VmmInv' /\ call # NoCall /\ call' = NoCall /\ ret' = call.unmapped
         /\ call.root \in roots /\ call.vpage \in VPages
         /\ LeafSet(call.root, call.vpage, call.entry)
<1>1. /\ call # NoCall /\ at.level = 1 /\ call' = NoCall /\ ret' = call.unmapped
      /\ roots' = roots /\ allocated' = allocated
      /\ ram' = [ram EXCEPT ![at.table][Index] = call.entry]
  BY DEF SetEntry, Finish
<1>2. PICK r, v, e : r = call.root /\ v = call.vpage /\ e = call.entry
  OBVIOUS
<1>3. /\ r \in roots /\ v \in VPages /\ e \in PageEntries /\ call.unmapped \in BOOLEAN
      /\ at.table = GetPage(r, v) /\ GetPage(r, v) # NULL
  BY <1>1, <1>2, Standing DEF GetPage
<1>4. EntryWritten(GetPage(r, v), V_ADDR_INDEX(v, 1), e)
  BY <1>1, <1>2, <1>3 DEF Index, EntryWritten
<1>5. /\ RamInv' /\ LinkInv' /\ OnePath' /\ NoneLost'
      /\ \A s \in roots, w \in VPages :
            Leaf(s, w)' = IF s = r /\ w = v THEN e ELSE Leaf(s, w)
  BY <1>1, <1>3, <1>4, LeafWritten DEF VmmInv
<1>6. CallInv'
  BY <1>1, <1>3 DEF CallInv
<1>7. LeafSet(r, v, e)
  BY <1>1, <1>5 DEF LeafSet
<1> QED
  BY <1>1, <1>2, <1>3, <1>5, <1>6, <1>7 DEF VmmInv

\* ClearEntry sets the entry of its page to zero, if there is a table for it.
LEMMA Cleared ==
  ASSUME RamInv, LinkInv, OnePath, NoneLost, NEW r \in roots, NEW v \in VPages,
         ClearEntry(r, v), roots' = roots, allocated' = allocated
  PROVE  /\ RamInv' /\ LinkInv' /\ OnePath' /\ NoneLost'
         /\ Walk(r, v)' = Walk(r, v)
         /\ LeafSet(r, v, EMPTY)
<1>1. CASE GetPage(r, v) = NULL
  <2>1. ram' = ram
    BY <1>1 DEF ClearEntry
  <2>2. /\ LinkInv' /\ OnePath' /\ NoneLost'
        /\ \A s \in roots, w \in VPages : Walk(s, w)' = Walk(s, w) /\ Leaf(s, w)' = Leaf(s, w)
    BY <2>1, NothingWritten
  <2>3. RamInv'
    BY <2>1 DEF RamInv, PageEntries
  <2>4. Leaf(r, v) = EMPTY
    BY <1>1 DEF Leaf
  <2> QED
    BY <2>2, <2>3, <2>4 DEF LeafSet
<1>2. CASE GetPage(r, v) # NULL
  <2>1. ram' = [ram EXCEPT ![GetPage(r, v)][V_ADDR_INDEX(v, 1)] = EMPTY]
    BY <1>2 DEF ClearEntry
  <2>2. PICK e : e = EMPTY
    OBVIOUS
  <2>3. e \in PageEntries
    BY <2>2 DEF EMPTY, PageEntries
  <2>4. EntryWritten(GetPage(r, v), V_ADDR_INDEX(v, 1), e)
    BY <2>1, <2>2 DEF EntryWritten
  <2>5. /\ RamInv' /\ LinkInv' /\ OnePath' /\ NoneLost'
        /\ \A s \in roots, w \in VPages :
              /\ Walk(s, w)' = Walk(s, w)
              /\ Leaf(s, w)' = IF s = r /\ w = v THEN e ELSE Leaf(s, w)
    BY <1>2, <2>3, <2>4, LeafWritten
  <2> QED
    BY <2>2, <2>5 DEF LeafSet
<1> QED
  BY <1>1, <1>2

LEMMA UnmapPageKeeps ==
  ASSUME VmmInv, CallUnmap
  PROVE  /\ VmmInv' /\ call = NoCall /\ call' = NoCall /\ ret' \in BOOLEAN
         /\ \E r \in roots, v \in VPages : LeafSet(r, v, EMPTY)
<1>1. PICK r \in roots, v \in CallPages : UnmapPage(r, v)
  BY DEF CallUnmap
<1>2. v \in VPages
  BY VmmConstants
<1>3. /\ roots' = roots /\ allocated' = allocated /\ call = NoCall /\ call' = NoCall
      /\ ClearEntry(r, v) /\ ret' = (GetPage(r, v) # NULL)
  BY <1>1 DEF UnmapPage
<1>4. /\ RamInv' /\ LinkInv' /\ OnePath' /\ NoneLost'
      /\ LeafSet(r, v, EMPTY)
  BY <1>2, <1>3, Cleared DEF VmmInv
<1>5. ret' \in BOOLEAN
  BY <1>3
<1>6. CallInv'
  BY <1>3, <1>5 DEF CallInv
<1> QED
  BY <1>2, <1>3, <1>4, <1>5, <1>6 DEF VmmInv

LEMMA RemapPageKeeps ==
  ASSUME VmmInv, CallRemap
  PROVE  /\ VmmInv' /\ call = NoCall /\ call' # NoCall /\ ret' = ret
         /\ \E r \in roots, v \in VPages :
               LeafSet(r, v, EMPTY) /\ call'.root = r /\ call'.vpage = v
<1>1. PICK r \in roots, v \in CallPages, fl \in {KERNEL_PAGE, USER_PAGE} :
         \E w \in CallPages : RemapPage(r, v, w, fl)
  BY DEF CallRemap
<1>2. PICK w \in CallPages : RemapPage(r, v, w, fl)
  BY <1>1
<1>3. v \in VPages
  BY VmmConstants
<1>4. PICK a, u : a = VAddrToPAddr(r, v) /\ u = (GetPage(r, v) # NULL)
  OBVIOUS
<1>5. /\ roots' = roots /\ allocated' = allocated /\ call = NoCall /\ ret' = ret
      /\ ClearEntry(r, v) /\ StartMap(r, v, a, fl, w, u) /\ ret \in BOOLEAN
  BY <1>2, <1>4 DEF RemapPage, VmmInv, CallInv
<1>6. /\ RamInv' /\ LinkInv' /\ OnePath' /\ NoneLost'
      /\ Walk(r, v)' = Walk(r, v)
      /\ LeafSet(r, v, EMPTY)
  BY <1>3, <1>5, Cleared DEF VmmInv
<1>7. a \in Tables \cup PAddrs \cup {NULL} /\ u \in BOOLEAN
  BY <1>3, <1>4, LeafType DEF VAddrToPAddr, PageEntries, VmmInv
<1>8. Walk(r, v)'[LEVELS] = r
  BY <1>6, WalkSteps
<1>9. CallInv' /\ call' # NoCall /\ call'.root = r /\ call'.vpage = v
  BY <1>3, <1>5, <1>6, <1>7, <1>8, CallStarts
<1> QED
  BY <1>3, <1>5, <1>6, <1>9 DEF VmmInv

\* The step of the inductive proof.
LEMMA VmmStep == VmmInv /\ [Next]_vars => VmmInv'
<1> SUFFICES ASSUME VmmInv, [Next]_vars PROVE VmmInv'
  OBVIOUS
<1>1. CASE UNCHANGED vars
  <2>1. UNCHANGED <<ram, allocated, roots, call, at, ret>>
    BY <1>1 DEF vars
  <2>2. /\ LinkInv' /\ OnePath' /\ NoneLost'
        /\ \A s \in roots, w \in VPages : Walk(s, w)' = Walk(s, w)
    BY <2>1, NothingWritten DEF VmmInv
  <2>3. RamInv'
    BY <2>1 DEF VmmInv, RamInv, PageEntries
  <2>4. CallInv'
    <3>1. CASE call = NoCall
      BY <2>1, <3>1 DEF VmmInv, CallInv
    <3>2. CASE call # NoCall
      <4>1. Walk(call.root, call.vpage)' = Walk(call.root, call.vpage)
        <5>1. PICK r, v : r = call.root /\ v = call.vpage
          OBVIOUS
        <5>2. Walk(call.root, call.vpage)' = Walk(r, v)'
          BY <2>1, <5>1
        <5>3. r \in roots /\ v \in VPages
          BY <3>2, <5>1, Standing
        <5> QED
          BY <2>2, <5>1, <5>2, <5>3
      <4> QED
        BY <2>1, <3>2, <4>1 DEF VmmInv, CallInv, PageEntries
    <3> QED
      BY <3>1, <3>2
  <2> QED
    BY <2>2, <2>3, <2>4 DEF VmmInv
<1>2. CASE NewPageMap
  BY <1>2, NewPageMapKeeps
<1>3. CASE CallMap
  BY <1>3, MapPageKeeps
<1>4. CASE CallUnmap
  BY <1>4, UnmapPageKeeps
<1>5. CASE CallRemap
  BY <1>5, RemapPageKeeps
<1>6. CASE Descend
  BY <1>6, DescendKeeps
<1>7. CASE CreateTable
  BY <1>7, CreateTableKeeps
<1>8. CASE OutOfFrames
  BY <1>8, OutOfFramesKeeps
<1>9. CASE SetEntry
  BY <1>9, SetEntryKeeps
<1> QED
  BY <1>1, <1>2, <1>3, <1>4, <1>5, <1>6, <1>7, <1>8, <1>9 DEF Next

LEMMA AlwaysVmm == Spec => []VmmInv
BY VmmInit, VmmStep, PTL DEF Spec

\* The places of Places are those that the invariant speaks of.
LEMMA TreeFollows == VmmInv => TreeInv
<1> SUFFICES ASSUME VmmInv PROVE TreeInv
  OBVIOUS
<1>1. TypeOK
  BY DEF VmmInv, RamInv, CallInv, PageEntries, TypeOK
<1> DEFINE Place(r, v, l) == [table |-> Walk(r, v)[l], root |-> r, level |-> l,
                              prefix |-> Shifted(v)[l]]
<1>2. ASSUME NEW p
      PROVE  p \in Places <=> \E r \in roots, v \in VPages, l \in 1 .. LEVELS :
                                 p = Place(r, v, l) /\ Walk(r, v)[l] # NULL
  BY DEF Places
<1> HIDE DEF Place
<1>3. \A r, v, l : Place(r, v, l).table = Walk(r, v)[l]
  BY DEF Place
<1>4. ASSUME NEW t \in allocated PROVE \E p \in Places : t = p.table
  <2>1. PICK r \in roots, v \in VPages : \E l \in 1 .. LEVELS : Walk(r, v)[l] = t
    BY DEF VmmInv, NoneLost
  <2>2. PICK l \in 1 .. LEVELS : Walk(r, v)[l] = t
    BY <2>1
  <2>3. t # NULL
    BY VmmConstants DEF VmmInv, RamInv
  <2>4. Place(r, v, l) \in Places
    BY <1>2, <2>2, <2>3
  <2> QED
    BY <1>3, <2>2, <2>4
<1>5. ASSUME NEW p \in Places PROVE p.table \in allocated
  <2>1. PICK r \in roots, v \in VPages, l \in 1 .. LEVELS :
           p = Place(r, v, l) /\ Walk(r, v)[l] # NULL
    BY <1>2
  <2> QED
    BY <1>3, <2>1 DEF VmmInv, LinkInv
<1>6. ASSUME NEW p \in Places, NEW q \in Places, p.table = q.table
      PROVE  p = q
  <2>1. PICK r \in roots, v \in VPages, k \in 1 .. LEVELS :
           p = Place(r, v, k) /\ Walk(r, v)[k] # NULL
    BY <1>2
  <2>2. PICK s \in roots, w \in VPages, l \in 1 .. LEVELS :
           q = Place(s, w, l) /\ Walk(s, w)[l] # NULL
    BY <1>2
  <2>3. Walk(r, v)[k] = Walk(s, w)[l]
    BY <1>3, <1>6, <2>1, <2>2
  <2>4. r = s /\ k = l /\ Shifted(v)[k] = Shifted(w)[k]
    BY <2>1, <2>3 DEF VmmInv, OnePath
  <2> QED
    BY <2>1, <2>2, <2>3, <2>4 DEF Place
<1>7. TreeShape
  BY <1>4, <1>5, <1>6 DEF TreeShape
<1> QED
  BY <1>1, <1>7 DEF TreeInv

(***************************************************************************)
(* Whatever the number of levels, entries, frames and page maps, the frames*)
(* that AllocFirstFrame supplied are the tables of one tree per root, each *)
(* met on one path only and none lost, and a CreatePage under way stands   *)
(* at the table its address leads to, also after GetOrCreatePageTable has  *)
(* run out of frames half way.                                             *)
(***************************************************************************)
THEOREM TreeSafe == Spec => []TreeInv
BY AlwaysVmm, TreeFollows, PTL

-----------------------------------------------------------------------------
(* The tree implements a map from pages to entries. *)

Xlate == [r \in roots |-> [v \in VPages |-> Leaf(r, v)]]

LEMMA SameXlate ==
  ASSUME SameLeaves
  PROVE  Xlate' = Xlate
BY DEF SameLeaves, Xlate

LEMMA XlateSet ==
  ASSUME NEW r \in roots, NEW v \in VPages, NEW e, LeafSet(r, v, e)
  PROVE  Xlate' = [Xlate EXCEPT ![r][v] = e]
<1> DEFINE row == [[w \in VPages |-> Leaf(r, w)] EXCEPT ![v] = e]
<1>1. [Xlate EXCEPT ![r][v] = e] = [Xlate EXCEPT ![r] = row]
  BY DEF Xlate
<1>2. row = [w \in VPages |-> Leaf(r, w)']
  BY DEF LeafSet
<1> HIDE DEF row
<1>3. ASSUME NEW s \in roots
      PROVE  [Xlate EXCEPT ![r] = row][s] = [w \in VPages |-> Leaf(s, w)']
  <2>1. CASE s = r
    BY <1>2, <2>1 DEF Xlate
  <2>2. CASE s # r
    BY <2>2 DEF Xlate, LeafSet
  <2> QED
    BY <2>1, <2>2
<1>4. Xlate' = [s \in roots |-> [w \in VPages |-> Leaf(s, w)']]
  BY DEF Xlate, LeafSet
<1>5. [Xlate EXCEPT ![r] = row] = [s \in roots |-> [Xlate EXCEPT ![r] = row][s]]
  BY DEF Xlate
<1> QED
  BY <1>1, <1>3, <1>4, <1>5

LEMMA PageMapInit == Init => Translation!PMInit
BY DEF Init, Translation!PMInit

\* Each step of the tree is a step of the map or leaves it unchanged.
LEMMA PageMapStep ==
  ASSUME VmmInv, [Next]_vars
  PROVE  [Translation!PMNext]_(Translation!pmVars)
<1> USE DEF Translation!PMNext, Translation!pmVars
<1>1. CASE UNCHANGED vars
  <2>1. UNCHANGED <<ram, allocated, roots, call, at, ret>>
    BY <1>1 DEF vars
  <2>2. SameLeaves
    BY <2>1, NothingWritten DEF VmmInv, SameLeaves
  <2> QED
    BY <2>1, <2>2, SameXlate DEF Xlate
<1>2. CASE NewPageMap
  <2>1. PICK f \in Tables :
           /\ f \notin roots /\ roots' = roots \cup {f}
           /\ \A v \in VPages : Leaf(f, v)' = EMPTY
           /\ \A r \in roots, v \in VPages : Leaf(r, v)' = Leaf(r, v)
    BY <1>2, NewPageMapKeeps
  <2>2. call = NoCall /\ call' = call /\ ret' = TRUE
    BY <1>2 DEF NewPageMap
  <2>3. DOMAIN Xlate = roots /\ DOMAIN Xlate' = roots'
    BY DEF Xlate
  <2>4. Xlate' = [s \in roots \cup {f} |->
                    IF s = f THEN [v \in VPages |-> EMPTY] ELSE Xlate[s]]
    BY <2>1 DEF Xlate
  <2>5. Translation!NewSpace
    BY <2>1, <2>2, <2>3, <2>4 DEF Translation!NewSpace, Xlate
  <2> QED
    BY <2>5
<1>3. CASE CallMap
  <2>1. /\ SameLeaves /\ call = NoCall /\ ret' = ret
        /\ call' # NoCall /\ call'.root \in roots /\ call'.vpage \in VPages
    BY <1>3, MapPageKeeps
  <2>2. Translation!Ask
    BY <2>1, SameXlate DEF Translation!Ask, Xlate
  <2> QED
    BY <2>2
<1>4. CASE CallUnmap
  <2>1. call = NoCall /\ call' = NoCall /\ ret' \in BOOLEAN
    BY <1>4, UnmapPageKeeps
  <2>2. PICK r \in roots, v \in VPages : LeafSet(r, v, EMPTY)
    BY <1>4, UnmapPageKeeps
  <2>3. PICK e : e = EMPTY
    OBVIOUS
  <2>4. Xlate' = [Xlate EXCEPT ![r][v] = e]
    BY <2>2, <2>3, XlateSet
  <2>5. Translation!Clear(r, v)
    BY <2>1, <2>3, <2>4 DEF Translation!Clear, Xlate
  <2> QED
    BY <2>5
<1>5. CASE CallRemap
  <2>1. call = NoCall /\ call' # NoCall /\ ret' = ret
    BY <1>5, RemapPageKeeps
  <2>2. PICK r \in roots, v \in VPages :
           LeafSet(r, v, EMPTY) /\ call'.root = r /\ call'.vpage = v
    BY <1>5, RemapPageKeeps
  <2>3. PICK e : e = EMPTY
    OBVIOUS
  <2>4. Xlate' = [Xlate EXCEPT ![r][v] = e]
    BY <2>2, <2>3, XlateSet
  <2>5. Translation!Clear(r, v)
    BY <2>1, <2>2, <2>3, <2>4 DEF Translation!Clear, Xlate
  <2> QED
    BY <2>5
<1>6. CASE Descend
  BY <1>6, DescendKeeps, SameXlate DEF Xlate
<1>7. CASE CreateTable
  BY <1>7, CreateTableKeeps, SameXlate DEF Xlate
<1>8. CASE OutOfFrames
  <2>1. Translation!Failed
    BY <1>8, OutOfFramesKeeps, SameXlate DEF Translation!Failed, Xlate
  <2> QED
    BY <2>1
<1>9. CASE SetEntry
  <2>1. PICK r, v, e : r = call.root /\ v = call.vpage /\ e = call.entry
    OBVIOUS
  <2>2. /\ call # NoCall /\ call' = NoCall /\ ret' = call.unmapped
        /\ r \in roots /\ v \in VPages /\ LeafSet(r, v, e)
    BY <1>9, <2>1, SetEntryKeeps
  <2>3. Xlate' = [Xlate EXCEPT ![r][v] = e]
    BY <2>2, XlateSet
  <2>4. Translation!Mapped
    BY <2>1, <2>2, <2>3 DEF Translation!Mapped, Xlate
  <2> QED
    BY <2>4
<1> QED
  BY <1>1, <1>2, <1>3, <1>4, <1>5, <1>6, <1>7, <1>8, <1>9 DEF Next

(***************************************************************************)
(* The tables implement PageMap: creating tables on the way changes no     *)
(* page's translation, MapPage sets the entry of its own page in its own   *)
(* root or nothing, and UnmapPage clears one entry, however many pages     *)
(* share the tables that CreatePage walks through.                         *)
(***************************************************************************)
THEOREM PageMapRefinement == Spec => ImplementsPageMap
<1>1. VmmInv /\ [Next]_vars => [Translation!PMNext]_(Translation!pmVars)
  BY PageMapStep
<1> QED
  BY <1>1, PageMapInit, AlwaysVmm, PTL DEF Spec, ImplementsPageMap, Translation!PMSpec
=============================================================================
