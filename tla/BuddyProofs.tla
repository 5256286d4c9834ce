---------------------------- MODULE BuddyProofs ----------------------------
(***************************************************************************)
(* What is proved about the buddy allocator as memory.c starts and calls   *)
(* it, for every number of levels, page size and memory map:               *)
(*                                                                         *)
(*   MemCorrect          the inductive invariant MemInv                    *)
(*   PartitionHolds      usable memory is neither lost nor owned twice     *)
(*   FreeListsHolds      the lists hold exactly the free blocks            *)
(*   ServesHolds         free halves are always merged                     *)
(*   BlockStartsHolds    an address leads to the start of its block        *)
(*   NoAssertionHolds    no assertion of buddy.c fails                     *)
(*   BootMapHolds        what is given away is what the boot loader left   *)
(*   MemoryImplements    buddy.c implements PageAlloc                      *)
(*                                                                         *)
(* The invariant is Sound: on every level a linked list of the free blocks *)
(* of the level (ListsOK, with the lemmas on lines of RingProofs), every   *)
(* first page of a block handed out remembers its level (AllocOK), the     *)
(* free blocks and these tile the usable pages (Tiling), and no block has  *)
(* two free halves (Pairs).  A page lies in one block of every level, its  *)
(* ancestors (Anc); that those nest is the geometry of the first part.     *)
(* The loops of buddy.c are recursive functions: Recursion and Turns of    *)
(* RingProofs show that one whose turns keep an invariant exists and that  *)
(* it keeps it.                                                            *)
(***************************************************************************)
EXTENDS Memory, RingProofs

-----------------------------------------------------------------------------
(* Powers of two and quotients.                                            *)

LEMMA PowerStep == ASSUME NEW n \in Nat PROVE 2^n \in Nat \ {0} /\ 2^(n+1) = 2 * 2^n
<1> DEFINE S == 1..n
           x == n+1
           A == SUBSET S
           B == {T \cup {x} : T \in A}
<1>1. IsFiniteSet(S) /\ Cardinality(S) = n
  BY FS_Interval
<1>2. IsFiniteSet(A) /\ Cardinality(A) = 2^n
  BY <1>1, FS_SUBSET
<1>3. SUBSET (S \cup {x}) = A \cup B
  <2>1. ASSUME NEW U \in SUBSET (S \cup {x}) PROVE U \in A \cup B
    <3>1. CASE x \in U
      <4>1. U \ {x} \in A /\ U = (U \ {x}) \cup {x} BY <3>1
      <4> QED BY <4>1
    <3>2. CASE x \notin U
      BY <3>2
    <3> QED BY <3>1, <3>2
  <2> QED BY <2>1
<1>4. A \cap B = {}
  <2>1. x \notin S OBVIOUS
  <2>2. ASSUME NEW U \in A, U \in B PROVE FALSE
    <3>1. x \in U BY <2>2
    <3> QED BY <2>1, <3>1, <2>2
  <2> HIDE DEF A, B
  <2> QED BY <2>2
<1>5. ExistsBijection(A, B)
  <2> DEFINE g == [T \in A |-> T \cup {x}]
  <2>1. x \notin S OBVIOUS
  <2>2. ASSUME NEW T \in A, NEW U \in A, g[T] = g[U] PROVE T = U
    <3>1. T = g[T] \ {x} /\ U = g[U] \ {x} BY <2>1
    <3> QED BY <3>1, <2>2
  <2>3. g \in [A -> B] /\ \A y \in B : \E T \in A : g[T] = y
    OBVIOUS
  <2> HIDE DEF g, A, B
  <2>4. g \in Bijection(A, B)
    BY <2>2, <2>3 DEF Bijection, Injection, Surjection, IsInjective
  <2> QED BY <2>4 DEF ExistsBijection
<1>6. IsFiniteSet(B) /\ Cardinality(B) = 2^n
  <2> HIDE DEF A, B
  <2> QED BY <1>2, <1>5, FS_Bijection
<1>7. Cardinality(S \cup {x}) = n+1 /\ IsFiniteSet(S \cup {x})
  <2>1. S \cup {x} = 1..(n+1) OBVIOUS
  <2>2. IsFiniteSet(1..(n+1)) /\ Cardinality(1..(n+1)) = n+1
    <3>1. n+1 \in Int /\ 1 \in Int /\ ~(1 > n+1) /\ (n+1)-1+1 = n+1 OBVIOUS
    <3> QED BY <3>1, FS_Interval
  <2> QED BY <2>1, <2>2
<1>8. Cardinality(SUBSET (S \cup {x})) = 2^(n+1)
  BY <1>7, FS_SUBSET
<1>9. 2^n \in Nat
  BY <1>2, FS_CardinalityType
<1>10. Cardinality(A \cup B) = 2^n + 2^n
  <2> HIDE DEF A, B
  <2>1. Cardinality(A \cup B) = Cardinality(A) + Cardinality(B) - Cardinality(A \cap B)
    BY <1>2, <1>6, <1>4, FS_Union, FS_EmptySet, FS_CardinalityType
  <2>2. Cardinality(A \cap B) = 0 BY <1>4, FS_EmptySet
  <2> QED BY <2>1, <2>2, <1>2, <1>6, <1>9
<1>11. 2^(n+1) = 2 * 2^n
  <2> HIDE DEF A, B, S, x
  <2>1. 2^(n+1) = 2^n + 2^n BY <1>3, <1>8, <1>10
  <2> DEFINE y == 2^n
  <2>2. y \in Nat BY <1>9
  <2>3. y + y = 2 * y  <3> HIDE DEF y <3> QED BY <2>2
  <2> QED BY <2>1, <2>3
<1>12. 2^n # 0
  <2>1. {} \in A OBVIOUS
  <2> HIDE DEF A
  <2>2. Cardinality(A) # 0 BY <2>1, <1>2, FS_EmptySet
  <2> QED BY <2>2, <1>2
<1> QED BY <1>9, <1>11, <1>12

LEMMA TimesMonotone ==
  ASSUME NEW x \in Nat, NEW y \in Nat, NEW w \in Nat, x <= y
  PROVE  x * w \in Nat /\ y * w \in Nat /\ x * w <= y * w
BY SMT

LEMMA QuotientIs ==
  ASSUME NEW x \in Nat, NEW w \in Nat \ {0}, NEW q \in Nat
  PROVE  /\ x \div w \in Nat
         /\ x \div w = q <=> q * w <= x /\ x < (q + 1) * w
BY SMT

LEMMA QuotientOfProduct ==
  ASSUME NEW w \in Nat \ {0}, NEW i \in Nat
  PROVE  (i * w) \div w = i
BY SMT

LEMMA HalfQuotient ==
  ASSUME NEW x \in Nat, NEW w \in Nat \ {0}
  PROVE  x \div (2 * w) = (x \div w) \div 2
<1> DEFINE q == x \div w
           h == q \div 2
<1>1. q \in Nat /\ q * w <= x /\ x < (q + 1) * w
  BY QuotientIs
<1> HIDE DEF q
<1>2. h \in Nat /\ 2 * h <= q /\ q + 1 <= 2 * h + 2
  BY <1>1
<1> HIDE DEF h
<1>3. h * (2 * w) <= q * w
  BY <1>1, <1>2, SMT
<1>4. (q + 1) * w <= (h + 1) * (2 * w)
  BY <1>1, <1>2, SMT
<1>5. h * (2 * w) <= x /\ x < (h + 1) * (2 * w) /\ 2 * w \in Nat \ {0}
  BY <1>1, <1>2, <1>3, <1>4, SMT
<1>6. x \div (2 * w) = h
  BY <1>2, <1>5, QuotientIs
<1> QED BY <1>6 DEF h, q

-----------------------------------------------------------------------------
(* The tree of blocks: W(lev) pages make a block of a level, and Anc(lev,  *)
(* p) is the block of the level that the page p lies in.                   *)

W(lev)      == 2^(LAST_LEV - lev)
Anc(lev, p) == p \div W(lev)

LEMMA LevelTypes ==
  /\ LAST_LEV \in Nat /\ LAST_LEV \in Levels /\ 0 \in Levels
  /\ Levels = 0..LAST_LEV /\ BUDDY_LEVELS = LAST_LEV + 1
  /\ BUDDY_LEVELS \notin Levels
BY BuddyConstants DEF LAST_LEV, Levels

LEMMA Powers ==
  ASSUME NEW lev \in Levels
  PROVE  /\ lev \in Nat /\ lev <= LAST_LEV
         /\ W(lev) \in Nat \ {0} /\ Starts(lev) \in Nat \ {0}
<1>1. lev \in Nat /\ lev <= LAST_LEV /\ LAST_LEV - lev \in Nat
  BY LevelTypes
<1> QED BY <1>1, PowerStep DEF W, Starts

LEMMA PowersEnd == W(LAST_LEV) = 1 /\ Starts(0) = 1 /\ W(0) = Starts(LAST_LEV)
<1>1. LAST_LEV - LAST_LEV = 0 /\ LAST_LEV - 0 = LAST_LEV
  BY LevelTypes
<1>2. 2^0 = 1
  OBVIOUS
<1>3. W(LAST_LEV) = 2^0 /\ Starts(0) = 2^0 /\ W(0) = Starts(LAST_LEV)
  BY <1>1 DEF W, Starts
<1> QED BY <1>2, <1>3

LEMMA PowersNext ==
  ASSUME NEW lev \in Levels, lev # LAST_LEV
  PROVE  /\ lev + 1 \in Levels /\ W(lev) = 2 * W(lev + 1)
         /\ Starts(lev + 1) = 2 * Starts(lev)
<1>1. /\ lev \in Nat /\ lev + 1 \in Levels /\ LAST_LEV - (lev + 1) \in Nat
      /\ LAST_LEV - lev = (LAST_LEV - (lev + 1)) + 1
  BY LevelTypes
<1> QED BY <1>1, PowerStep DEF W, Starts

LEMMA PowersMeet ==
  ASSUME NEW lev \in Levels
  PROVE  Starts(lev) * W(lev) = Starts(LAST_LEV)
<1> DEFINE S == {k \in Nat : k <= LAST_LEV => Starts(k) * W(k) = Starts(LAST_LEV)}
<1>1. 0 \in S
  BY PowersEnd, LevelTypes, Powers
<1>2. ASSUME NEW k \in Nat, k \in S PROVE k + 1 \in S
  <2> SUFFICES ASSUME k + 1 <= LAST_LEV
      PROVE Starts(k + 1) * W(k + 1) = Starts(LAST_LEV)
    OBVIOUS
  <2>1. k \in Levels /\ k # LAST_LEV /\ k + 1 \in Levels
    BY LevelTypes
  <2> DEFINE s == Starts(k)
             w == W(k + 1)
  <2>2. s \in Nat /\ w \in Nat /\ W(k) = 2 * w /\ Starts(k + 1) = 2 * s
    BY <2>1, Powers, PowersNext
  <2>3. s * (2 * w) = Starts(LAST_LEV)
    <3>1. Starts(k) * W(k) = Starts(LAST_LEV)
      BY <1>2, <2>1, Powers
    <3> QED BY <2>2, <3>1
  <2> HIDE DEF s, w
  <2>4. (2 * s) * w = s * (2 * w)
    BY <2>2, SMT
  <2> QED BY <2>2, <2>3, <2>4 DEF w
<1>3. Nat \subseteq S
  <2> HIDE DEF S
  <2> QED BY <1>1, <1>2, SetInduction
<1> QED BY <1>3, Powers

(* Levels have blocks of their own.                                        *)
LEMMA LevelsApart ==
  ASSUME NEW l \in Levels, NEW m \in Levels, l < m
  PROVE  2 * Starts(l) <= Starts(m)
<1> DEFINE S == {k \in Nat : l + 1 + k <= LAST_LEV => 2 * Starts(l) <= Starts(l + 1 + k)}
<1>1. 0 \in S
  <2> SUFFICES ASSUME l + 1 + 0 <= LAST_LEV PROVE 2 * Starts(l) <= Starts(l + 1 + 0)
    OBVIOUS
  <2>1. l # LAST_LEV /\ l + 1 + 0 = l + 1
    BY LevelTypes, Powers
  <2>2. Starts(l + 1) = 2 * Starts(l) /\ 2 * Starts(l) \in Nat
    BY <2>1, PowersNext, Powers
  <2> QED BY <2>1, <2>2
<1>2. ASSUME NEW k \in Nat, k \in S PROVE k + 1 \in S
  <2> SUFFICES ASSUME l + 1 + (k + 1) <= LAST_LEV
      PROVE 2 * Starts(l) <= Starts(l + 1 + (k + 1))
    OBVIOUS
  <2> DEFINE n == l + 1 + k
  <2>1. n \in Levels /\ n # LAST_LEV /\ l + 1 + (k + 1) = n + 1
    BY LevelTypes, Powers
  <2>2. 2 * Starts(l) <= Starts(n)
    BY <1>2, <2>1, Powers
  <2>3. Starts(n + 1) = 2 * Starts(n) /\ Starts(n) \in Nat /\ Starts(l) \in Nat
    BY <2>1, PowersNext, Powers
  <2> HIDE DEF n
  <2> QED BY <2>1, <2>2, <2>3
<1>3. Nat \subseteq S
  <2> HIDE DEF S
  <2> QED BY <1>1, <1>2, SetInduction
<1>4. m - (l + 1) \in Nat /\ l + 1 + (m - (l + 1)) = m /\ m <= LAST_LEV
  BY Powers
<1>5. m - (l + 1) \in S
  <2> HIDE DEF S
  <2> QED BY <1>3, <1>4
<1> QED BY <1>4, <1>5

LEMMA BlockTypes ==
  ASSUME NEW lev \in Levels, NEW i \in OnLevel(lev)
  PROVE  /\ i \in Nat \ {0} /\ i \in Blocks /\ i # None
         /\ \A m \in Levels : i \in OnLevel(m) => m = lev
<1>1. Starts(lev) \in Nat \ {0}
  BY Powers
<1>2. i \in Nat \ {0} /\ Starts(lev) <= i /\ i < 2 * Starts(lev)
  BY <1>1 DEF OnLevel
<1>3. 2^BUDDY_LEVELS = 2 * Starts(LAST_LEV)
  BY LevelTypes, PowerStep DEF Starts
<1>4. 2 * Starts(lev) <= 2 * Starts(LAST_LEV)
  <2>1. CASE lev = LAST_LEV
    BY <2>1, <1>1
  <2>2. CASE lev # LAST_LEV
    <3>1. lev < LAST_LEV /\ LAST_LEV \in Levels /\ Starts(LAST_LEV) \in Nat
      BY <2>2, Powers, LevelTypes
    <3> QED BY <1>1, <3>1, LevelsApart
  <2> QED BY <2>1, <2>2
<1>5. i \in Blocks
  <2>1. Starts(LAST_LEV) \in Nat
    BY LevelTypes, Powers
  <2> QED BY <1>1, <1>2, <1>3, <1>4, <2>1 DEF Blocks
<1>6. ASSUME NEW m \in Levels, i \in OnLevel(m) PROVE m = lev
  <2>1. Starts(m) \in Nat /\ Starts(m) <= i /\ i < 2 * Starts(m)
    BY <1>6, Powers DEF OnLevel
  <2>2. lev \in Nat /\ m \in Nat
    BY Powers
  <2>3. ~(lev < m)
    <3>1. SUFFICES ASSUME lev < m PROVE FALSE
      OBVIOUS
    <3> QED BY <1>1, <1>2, <2>1, <3>1, LevelsApart
  <2>4. ~(m < lev)
    <3>1. SUFFICES ASSUME m < lev PROVE FALSE
      OBVIOUS
    <3> QED BY <1>1, <1>2, <2>1, <3>1, LevelsApart
  <2> QED BY <2>2, <2>3, <2>4
<1> QED BY <1>2, <1>5, <1>6 DEF None

LEMMA PageTypes ==
  /\ Pages \subseteq Blocks /\ Pages \subseteq Nat \ {0}
  /\ Pages = Starts(LAST_LEV)..(2 * Starts(LAST_LEV) - 1)
  /\ \A p \in Pages : Anc(LAST_LEV, p) = p
<1>1. \A p \in Pages : p \in Blocks /\ p \in Nat \ {0}
  BY BlockTypes, LevelTypes DEF Pages
<1>2. ASSUME NEW p \in Pages PROVE Anc(LAST_LEV, p) = p
  <2>1. p \in Nat /\ W(LAST_LEV) = 1
    BY <1>1, PowersEnd
  <2> QED BY <2>1, SMT DEF Anc
<1> QED BY <1>1, <1>2 DEF Pages, OnLevel

(* The pages of a block are those whose ancestor it is.                    *)
LEMMA AncBlock ==
  ASSUME NEW lev \in Levels, NEW p \in Pages
  PROVE  Anc(lev, p) \in OnLevel(lev)
<1> DEFINE w == W(lev)
           s == Starts(lev)
           q == Anc(lev, p)
<1>1. /\ w \in Nat \ {0} /\ s \in Nat \ {0} /\ p \in Nat
      /\ s * w <= p /\ p < 2 * (s * w)
  <2>1. s * w = Starts(LAST_LEV) /\ Starts(LAST_LEV) \in Nat
    BY PowersMeet, Powers, LevelTypes
  <2>2. p \in Nat /\ Starts(LAST_LEV) <= p /\ p <= 2 * Starts(LAST_LEV) - 1
    BY PageTypes, <2>1
  <2>3. w \in Nat \ {0} /\ s \in Nat \ {0}
    BY Powers
  <2> HIDE DEF w, s
  <2> QED BY <2>1, <2>2, <2>3
<1>2. q \in Nat /\ q * w <= p /\ p < (q + 1) * w
  BY <1>1, QuotientIs DEF Anc
<1> HIDE DEF w, s, q
<1>3. s <= q
  <2>1. SUFFICES ASSUME q + 1 <= s PROVE FALSE
    BY <1>1, <1>2
  <2>2. (q + 1) * w <= s * w
    BY <1>1, <1>2, <2>1, SMT
  <2>3. (q + 1) * w \in Nat /\ s * w \in Nat
    BY <1>1, <1>2, SMT
  <2> QED BY <1>1, <1>2, <2>2, <2>3
<1>4. q < 2 * s
  <2>1. SUFFICES ASSUME 2 * s <= q PROVE FALSE
    BY <1>1, <1>2
  <2>2. (2 * s) * w <= q * w /\ (2 * s) * w = 2 * (s * w)
    BY <1>1, <1>2, <2>1, SMT
  <2>3. q * w \in Nat /\ s * w \in Nat /\ (2 * s) * w \in Nat
    BY <1>1, <1>2, SMT
  <2> QED BY <1>1, <1>2, <2>2, <2>3
<1> QED BY <1>1, <1>2, <1>3, <1>4 DEF OnLevel, s, q

LEMMA PagesAre ==
  ASSUME NEW lev \in Levels, NEW i \in OnLevel(lev)
  PROVE  /\ PagesOf(lev, i) = {p \in Pages : Anc(lev, p) = i}
         /\ FirstPage(lev, i) \in PagesOf(lev, i)
         /\ FirstPage(lev, i) \in Pages /\ Anc(lev, FirstPage(lev, i)) = i
<1> DEFINE w == W(lev)
           s == Starts(lev)
<1>1. /\ w \in Nat \ {0} /\ s \in Nat \ {0} /\ s * w = Starts(LAST_LEV)
      /\ Starts(LAST_LEV) \in Nat /\ i \in Nat /\ s <= i /\ i + 1 <= 2 * s
  <2>1. w \in Nat \ {0} /\ s \in Nat \ {0} /\ Starts(LAST_LEV) \in Nat /\ i \in Nat
    BY Powers, LevelTypes, BlockTypes
  <2>2. s * w = Starts(LAST_LEV)
    BY PowersMeet
  <2>3. i \in s..(2 * s - 1)
    BY DEF OnLevel
  <2> HIDE DEF w, s
  <2>4. s <= i /\ i + 1 <= 2 * s
    BY <2>1, <2>3
  <2> QED BY <2>1, <2>2, <2>4
<1>2. PagesOf(lev, i) = (i * w)..((i + 1) * w - 1)
  BY DEF PagesOf, FirstPage, W
<1> HIDE DEF w, s
<1>3. /\ i * w \in Nat /\ (i + 1) * w \in Nat /\ i * w < (i + 1) * w
      /\ s * w <= i * w /\ (i + 1) * w <= 2 * (s * w)
  <2>1. i * w \in Nat /\ s * w \in Nat /\ s * w <= i * w
    BY <1>1, TimesMonotone
  <2>2. (i + 1) * w = i * w + w
    BY <1>1, SMT
  <2>3. (i + 1) * w <= (2 * s) * w
    <3>1. i + 1 \in Nat /\ 2 * s \in Nat /\ w \in Nat
      BY <1>1
    <3> QED BY <1>1, <3>1, TimesMonotone
  <2>4. (2 * s) * w = 2 * (s * w)
    BY <1>1, SMT
  <2> DEFINE x == i * w
             y == s * w
  <2> HIDE DEF x, y
  <2>5. x \in Nat /\ (i + 1) * w = x + w /\ w \in Nat \ {0} /\ (i + 1) * w <= 2 * y /\ y <= x
    BY <1>1, <2>1, <2>2, <2>3, <2>4 DEF x, y
  <2>6. (i + 1) * w \in Nat /\ x < (i + 1) * w
    BY <2>5
  <2> QED BY <2>5, <2>6 DEF x, y
<1>4. PagesOf(lev, i) \subseteq Pages
  <2> DEFINE x == i * w
             y == (i + 1) * w
             z == s * w
  <2>1. x \in Nat /\ y \in Nat /\ z \in Nat /\ z <= x /\ y <= 2 * z
    BY <1>1, <1>3
  <2>2. PagesOf(lev, i) = x..(y - 1) /\ Pages = z..(2 * z - 1)
    BY <1>1, <1>2, PageTypes
  <2> HIDE DEF x, y, z
  <2> QED BY <2>1, <2>2
<1>5. ASSUME NEW p \in Pages PROVE p \in PagesOf(lev, i) <=> Anc(lev, p) = i
  <2>1. p \in Nat
    BY PageTypes
  <2>2. p \div w = i <=> i * w <= p /\ p < (i + 1) * w
    BY <1>1, <2>1, QuotientIs
  <2>3. p \in PagesOf(lev, i) <=> i * w <= p /\ p < (i + 1) * w
    BY <1>2, <1>3, <2>1
  <2> QED BY <2>2, <2>3 DEF Anc, w
<1>6. FirstPage(lev, i) \in PagesOf(lev, i)
  <2>1. FirstPage(lev, i) = i * w
    BY DEF FirstPage, W, w
  <2> QED BY <1>2, <1>3, <2>1
<1> QED BY <1>4, <1>5, <1>6

LEMMA AncParent ==
  ASSUME NEW lev \in Levels, lev # LAST_LEV, NEW p \in Pages
  PROVE  Anc(lev, p) = Anc(lev + 1, p) \div 2
<1>1. /\ W(lev) = 2 * W(lev + 1) /\ W(lev + 1) \in Nat \ {0} /\ p \in Nat
  BY PowersNext, Powers, PageTypes
<1> QED BY <1>1, HalfQuotient DEF Anc

LEMMA Halves ==
  ASSUME NEW lev \in Levels, lev # LAST_LEV, NEW i \in OnLevel(lev)
  PROVE  /\ lev + 1 \in Levels
         /\ 2 * i \in OnLevel(lev + 1) /\ 2 * i + 1 \in OnLevel(lev + 1)
         /\ (2 * i) \div 2 = i /\ (2 * i + 1) \div 2 = i
         /\ \A p \in Pages : Anc(lev, p) = i <=>
              Anc(lev + 1, p) = 2 * i \/ Anc(lev + 1, p) = 2 * i + 1
<1>1. lev + 1 \in Levels /\ Starts(lev + 1) = 2 * Starts(lev) /\ Starts(lev) \in Nat
  BY PowersNext, Powers
<1>2. i \in Nat /\ Starts(lev) <= i /\ i <= 2 * Starts(lev) - 1
  BY <1>1, BlockTypes DEF OnLevel
<1>3. 2 * i \in OnLevel(lev + 1) /\ 2 * i + 1 \in OnLevel(lev + 1)
  BY <1>1, <1>2 DEF OnLevel
<1>4. ASSUME NEW p \in Pages
      PROVE  Anc(lev, p) = i <=> Anc(lev + 1, p) = 2 * i \/ Anc(lev + 1, p) = 2 * i + 1
  <2> DEFINE q == Anc(lev + 1, p)
  <2>1. q \in Nat
    BY <1>1, AncBlock, BlockTypes
  <2>2. Anc(lev, p) = q \div 2
    BY AncParent
  <2> HIDE DEF q
  <2>3. q \div 2 = i <=> q = 2 * i \/ q = 2 * i + 1
    BY <1>2, <2>1
  <2> QED BY <2>2, <2>3 DEF q
<1> QED BY <1>1, <1>2, <1>3, <1>4

LEMMA Parents ==
  ASSUME NEW lev \in Levels, lev # 0, NEW i \in OnLevel(lev)
  PROVE  /\ lev - 1 \in Levels /\ lev - 1 # LAST_LEV /\ (lev - 1) + 1 = lev
         /\ i \div 2 \in OnLevel(lev - 1)
         /\ Left(i) = 2 * (i \div 2) /\ (i = Left(i) \/ i = Left(i) + 1)
<1>1. lev - 1 \in Levels /\ lev - 1 # LAST_LEV /\ (lev - 1) + 1 = lev
  BY LevelTypes
<1>2. Starts(lev) = 2 * Starts(lev - 1) /\ Starts(lev - 1) \in Nat
  BY <1>1, PowersNext, Powers
<1>3. i \in Nat /\ Starts(lev) <= i /\ i <= 2 * Starts(lev) - 1
  BY <1>2, BlockTypes DEF OnLevel
<1>4. i \div 2 \in OnLevel(lev - 1)
  BY <1>2, <1>3 DEF OnLevel
<1> QED BY <1>1, <1>3, <1>4 DEF Left

(* Pages in one block are in one block of every level above.               *)
LEMMA AncAbove ==
  ASSUME NEW l \in Levels, NEW m \in Levels, l <= m,
         NEW p \in Pages, NEW q \in Pages, Anc(m, p) = Anc(m, q)
  PROVE  Anc(l, p) = Anc(l, q)
<1> DEFINE S == {k \in Nat : k <= m => Anc(m - k, p) = Anc(m - k, q)}
<1>1. 0 \in S
  BY Powers
<1>2. ASSUME NEW k \in Nat, k \in S PROVE k + 1 \in S
  <2> SUFFICES ASSUME k + 1 <= m PROVE Anc(m - (k + 1), p) = Anc(m - (k + 1), q)
    OBVIOUS
  <2> DEFINE n == m - (k + 1)
  <2>1. n \in Levels /\ n # LAST_LEV /\ n + 1 = m - k
    BY Powers, LevelTypes
  <2>2. Anc(n + 1, p) = Anc(n + 1, q)
    BY <1>2, <2>1, Powers
  <2> HIDE DEF n
  <2>3. Anc(n, p) = Anc(n, q)
    BY <2>1, <2>2, AncParent
  <2> QED BY <2>3 DEF n
<1>3. Nat \subseteq S
  <2> HIDE DEF S
  <2> QED BY <1>1, <1>2, SetInduction
<1>4. m - l \in Nat /\ m - (m - l) = l /\ m - l <= m
  BY Powers
<1>5. m - l \in S
  <2> HIDE DEF S
  <2> QED BY <1>3, <1>4
<1> QED BY <1>4, <1>5

-----------------------------------------------------------------------------
(* The free lists: on every level a list that ends, linked in both         *)
(* directions, of exactly the free blocks of the level, and nothing left   *)
(* of a list in the other blocks.                                          *)

Allocators ==
  [free : [Blocks -> BOOLEAN], prev : [Blocks -> Blocks \cup {None}],
   next : [Blocks -> Blocks \cup {None}],
   allocated_level : [Pages -> Levels \cup {BUDDY_LEVELS}],
   firsts : [Levels -> Blocks \cup {None}], died : {"no", "oom", "assert"}]

FreeSet(al)     == {i \in Blocks : al.free[i]}
FreeOn(al, lev) == {i \in OnLevel(lev) : al.free[i]}
Row(al, lev, s) ==
  /\ LineIs(al.next, al.prev, Blocks, None, al.firsts[lev], s)
  /\ Members(s) = FreeOn(al, lev)

Idle(al) == \A i \in Blocks : ~al.free[i] => al.prev[i] = None /\ al.next[i] = None

ListsOK(al) ==
  /\ al \in Allocators /\ Idle(al)
  /\ \A lev \in Levels : \E s : Row(al, lev, s)

(* r is al with the free blocks F instead.                                 *)
Becomes(r, al, F) ==
  /\ ListsOK(r) /\ FreeSet(r) = F
  /\ r.allocated_level = al.allocated_level /\ r.died = al.died

LEMMA NoneIsNoBlock == None \notin Blocks
BY DEF None, Blocks

LEMMA FirstOfRow ==
  ASSUME NEW al, NEW lev \in Levels, NEW s, Row(al, lev, s)
  PROVE  /\ al.firsts[lev] = None <=> FreeOn(al, lev) = {}
         /\ al.firsts[lev] # None => /\ al.firsts[lev] \in FreeOn(al, lev)
                                     /\ al.prev[al.firsts[lev]] = None
<1>1. /\ s \in Seq(Blocks) /\ al.firsts[lev] = Nth(s, 1, None)
      /\ Len(s) \in Nat /\ \A k \in 1..Len(s) : s[k] \in Blocks
  BY DEF Row, LineIs
<1>2. CASE 1 \in 1..Len(s)
  <2>1. al.firsts[lev] = s[1] /\ s[1] \in Members(s) /\ s[1] \in Blocks
    BY <1>1, <1>2 DEF Nth, Members
  <2>2. al.prev[s[1]] = None
    <3> DEFINE next == al.next
               prev == al.prev
               first == al.firsts[lev]
    <3>1. LineIs(next, prev, Blocks, None, first, s)
      BY DEF Row
    <3>2. ASSUME NEW N, None \notin N, LineIs(next, prev, N, None, first, s),
                 NEW j \in 1..Len(s)
          PROVE  prev[s[j]] = None <=> j = 1
      <4> HIDE DEF next, prev, first
      <4> QED BY <3>2, LineFirst
    <3> QED BY <1>2, <3>1, <3>2, NoneIsNoBlock
  <2> QED BY <2>1, <2>2, NoneIsNoBlock DEF Row
<1>3. CASE 1 \notin 1..Len(s)
  <2>1. al.firsts[lev] = None /\ Members(s) = {}
    BY <1>1, <1>3 DEF Nth, Members
  <2> QED BY <2>1 DEF Row
<1> QED BY <1>2, <1>3

LEMMA AddOne ==
  ASSUME NEW al, ListsOK(al), NEW lev \in Levels, NEW i \in OnLevel(lev), ~al.free[i]
  PROVE  Becomes(add_one(al, lev, i), al, FreeSet(al) \cup {i})
<1> DEFINE n == al.firsts[lev]
           r == [al EXCEPT !.free[i] = TRUE,
                           !.next[i] = n,
                           !.prev = [b \in Blocks |-> IF b = n THEN i ELSE @[b]],
                           !.firsts[lev] = i]
<1>1. al \in Allocators /\ i \in Blocks /\ i # None
  BY BlockTypes DEF ListsOK
<1>2. PICK s : Row(al, lev, s)
  BY DEF ListsOK
<1>3. /\ n # None => n \in FreeOn(al, lev) /\ al.prev[n] = None
      /\ n \in Blocks \cup {None} /\ n # i
  <2>1. n \in Blocks \cup {None}
    BY <1>1 DEF Allocators
  <2>2. n # None => n \in FreeOn(al, lev) /\ al.prev[n] = None
    BY <1>2, FirstOfRow
  <2>3. n # i
    BY <1>1, <2>2 DEF FreeOn
  <2> QED BY <2>1, <2>2, <2>3
<1>4. add_one(al, lev, i) = r
  BY <1>1, <1>3 DEF add_one, ListsOK, Idle
<1>5. /\ r \in Allocators
      /\ r.free = [al.free EXCEPT ![i] = TRUE]
      /\ r.next = [al.next EXCEPT ![i] = n]
      /\ r.prev = [b \in Blocks |-> IF b = n THEN i ELSE al.prev[b]]
      /\ r.firsts = [al.firsts EXCEPT ![lev] = i]
      /\ r.allocated_level = al.allocated_level /\ r.died = al.died
  BY <1>1, <1>3 DEF Allocators
<1> HIDE DEF r
<1>6. al.prev[i] = None
  BY <1>1 DEF ListsOK, Idle
<1>7. Idle(r)
  <2> SUFFICES ASSUME NEW b \in Blocks, ~r.free[b] PROVE r.prev[b] = None /\ r.next[b] = None
    BY DEF Idle
  <2>1. b # i /\ ~al.free[b]
    BY <1>1, <1>5 DEF Allocators
  <2>2. b # n
    BY <1>3, <2>1, NoneIsNoBlock DEF FreeOn
  <2>3. al.prev[b] = None /\ al.next[b] = None
    BY <2>1 DEF ListsOK, Idle
  <2> QED BY <1>1, <1>5, <2>1, <2>2, <2>3 DEF Allocators
<1>8. Row(r, lev, Push(i, s))
  <2>1. i \notin Members(s)
    BY <1>2 DEF Row, FreeOn
  <2>2. LineIs(al.next, al.prev, Blocks, None, n, s) /\ Members(s) \subseteq Blocks
    BY <1>2, BlockTypes DEF Row, FreeOn
  <2>3. AtFront(r.next, r.prev, al.next, al.prev, None, n, i, s)
    <3>1. r.prev[i] = None /\ r.next[i] = n
      BY <1>1, <1>3, <1>5, <1>6 DEF Allocators
    <3>2. ASSUME NEW x \in Members(s)
          PROVE  r.prev[x] = (IF x = n THEN i ELSE al.prev[x]) /\ r.next[x] = al.next[x]
      BY <1>1, <1>5, <2>1, <2>2 DEF Allocators
    <3> QED BY <3>1, <3>2 DEF AtFront
  <2>4. LineIs(r.next, r.prev, Blocks, None, i, Push(i, s))
    BY <1>1, <2>1, <2>2, <2>3, LinePush, NoneIsNoBlock
  <2>5. r.firsts[lev] = i
    BY <1>1, <1>5 DEF Allocators
  <2>6. Members(Push(i, s)) = FreeOn(al, lev) \cup {i}
    BY <1>1, <1>2, MembersPush DEF Row, LineIs
  <2>7. FreeOn(r, lev) = FreeOn(al, lev) \cup {i}
    BY <1>1, <1>5, BlockTypes DEF FreeOn, Allocators
  <2> QED BY <2>4, <2>5, <2>6, <2>7 DEF Row
<1>9. ASSUME NEW m \in Levels, m # lev PROVE \E t : Row(r, m, t)
  <2>1. PICK t : Row(al, m, t)
    BY DEF ListsOK
  <2>2. ASSUME NEW x \in Members(t) PROVE x \in Blocks /\ x # i /\ x # n
    <3>1. x \in OnLevel(m)
      BY <2>1 DEF Row, FreeOn
    <3>2. x \in Blocks /\ x \notin OnLevel(lev) /\ x # None
      BY <1>9, <3>1, BlockTypes
    <3> QED BY <1>3, <3>2 DEF FreeOn
  <2>3. \A x \in Members(t) : r.next[x] = al.next[x] /\ r.prev[x] = al.prev[x]
    BY <1>1, <1>5, <2>2 DEF Allocators
  <2>4. LineIs(r.next, r.prev, Blocks, None, al.firsts[m], t)
    BY <2>1, <2>3, LineFrame, NoneIsNoBlock DEF Row
  <2>5. r.firsts[m] = al.firsts[m]
    <3>1. al.firsts \in [Levels -> Blocks \cup {None}]
      BY <1>1 DEF Allocators
    <3> QED BY <1>5, <1>9, <3>1
  <2>6. FreeOn(r, m) = FreeOn(al, m)
    <3>1. i \notin OnLevel(m)
      BY <1>9, BlockTypes
    <3> QED BY <1>1, <1>5, <3>1, BlockTypes DEF FreeOn, Allocators
  <2>7. Row(r, m, t)
    BY <2>1, <2>4, <2>5, <2>6 DEF Row
  <2> QED BY <2>7
<1>10. FreeSet(r) = FreeSet(al) \cup {i}
  BY <1>1, <1>5 DEF FreeSet, Allocators
<1>11. ListsOK(r)
  BY <1>5, <1>7, <1>8, <1>9 DEF ListsOK
<1> QED BY <1>4, <1>5, <1>10, <1>11 DEF Becomes

LEMMA RemoveOne ==
  ASSUME NEW al, ListsOK(al), NEW lev \in Levels, NEW i \in OnLevel(lev), al.free[i]
  PROVE  Becomes(remove_one(al, lev, i), al, FreeSet(al) \ {i})
<1> DEFINE p == al.prev[i]
           n == al.next[i]
           f == IF p = None THEN n ELSE al.firsts[lev]
           r == [al EXCEPT !.free[i] = FALSE,
                           !.prev = [b \in Blocks |-> CASE b = i -> None
                                                        [] b = n -> p
                                                        [] OTHER -> @[b]],
                           !.next = [b \in Blocks |-> CASE b = i -> None
                                                        [] b = p -> n
                                                        [] OTHER -> @[b]],
                           !.firsts[lev] = IF p = None THEN n ELSE @]
<1>1. al \in Allocators /\ i \in Blocks /\ i # None
      /\ p \in Blocks \cup {None} /\ n \in Blocks \cup {None}
  BY BlockTypes DEF ListsOK, Allocators
<1>2. PICK s : Row(al, lev, s)
  BY DEF ListsOK
<1>3. PICK j \in 1..Len(s) : s[j] = i
  BY <1>2 DEF Row, Members, FreeOn
<1>4. /\ s \in Seq(Blocks) /\ Distinct(s) /\ al.firsts[lev] = Nth(s, 1, None)
      /\ p = Nth(s, j-1, None) /\ n = Nth(s, j+1, None)
      /\ \A k \in 1..Len(s) : /\ al.next[s[k]] = Nth(s, k+1, None)
                              /\ al.prev[s[k]] = Nth(s, k-1, None)
                              /\ s[k] \in Blocks /\ s[k] \in FreeOn(al, lev)
  BY <1>2, <1>3 DEF Row, LineIs, Members
<1> HIDE DEF p, n, f, r
<1>5. /\ p # None => j-1 \in 1..Len(s) /\ p = s[j-1]
      /\ p = None => j = 1
      /\ n # None => j+1 \in 1..Len(s) /\ n = s[j+1]
  <2>1. j-1 \in 1..Len(s) => s[j-1] # None
    BY <1>4, NoneIsNoBlock
  <2>2. j # 1 => j-1 \in 1..Len(s)
    BY <1>4
  <2> QED BY <1>4, <2>1, <2>2 DEF Nth
<1>6. /\ p # None => al.next[p] = i /\ p \in FreeOn(al, lev) /\ p # i
      /\ p = None => al.firsts[lev] = i
      /\ n # None => al.prev[n] = i /\ n \in FreeOn(al, lev) /\ n # i
  <2>1. ASSUME p # None PROVE al.next[p] = i /\ p \in FreeOn(al, lev) /\ p # i
    <3>1. (j-1)+1 = j /\ j-1 # j
      OBVIOUS
    <3>2. al.next[p] = i /\ p \in FreeOn(al, lev)
      <4>1. j-1 \in 1..Len(s) /\ p = s[j-1]
        BY <1>5, <2>1
      <4>2. al.next[s[j-1]] = Nth(s, (j-1)+1, None) /\ s[j-1] \in FreeOn(al, lev)
        BY <1>4, <4>1
      <4>3. Nth(s, (j-1)+1, None) = s[j]
        BY <3>1 DEF Nth
      <4> QED BY <1>3, <4>1, <4>2, <4>3
    <3>3. p # i
      <4>1. j-1 \in 1..Len(s) /\ p = s[j-1]
        BY <1>5, <2>1
      <4>2. s[j-1] = s[j] => j-1 = j
        BY <1>4, <4>1 DEF Distinct
      <4> QED BY <1>3, <3>1, <4>1, <4>2
    <3> QED BY <2>1, <3>2, <3>3
  <2>2. ASSUME n # None PROVE al.prev[n] = i /\ n \in FreeOn(al, lev) /\ n # i
    <3>1. (j+1)-1 = j /\ j+1 # j
      OBVIOUS
    <3>2. al.prev[n] = i /\ n \in FreeOn(al, lev)
      <4>1. j+1 \in 1..Len(s) /\ n = s[j+1]
        BY <1>5, <2>2
      <4>2. al.prev[s[j+1]] = Nth(s, (j+1)-1, None) /\ s[j+1] \in FreeOn(al, lev)
        BY <1>4, <4>1
      <4>3. Nth(s, (j+1)-1, None) = s[j]
        BY <3>1 DEF Nth
      <4> QED BY <1>3, <4>1, <4>2, <4>3
    <3>3. n # i
      <4>1. j+1 \in 1..Len(s) /\ n = s[j+1]
        BY <1>5, <2>2
      <4>2. s[j+1] = s[j] => j+1 = j
        BY <1>4, <4>1 DEF Distinct
      <4> QED BY <1>3, <3>1, <4>1, <4>2
    <3> QED BY <2>2, <3>2, <3>3
  <2>3. p = None => al.firsts[lev] = i
    BY <1>3, <1>4, <1>5 DEF Nth
  <2>4. /\ p # None => al.next[p] = i /\ p \in FreeOn(al, lev) /\ p # i
    BY <2>1
  <2>5. n # None => al.prev[n] = i /\ n \in FreeOn(al, lev) /\ n # i
    BY <2>2
  <2> QED BY <2>3, <2>4, <2>5
<1>7. remove_one(al, lev, i) = r
  BY <1>6 DEF remove_one, r, p, n
<1>8. /\ r \in Allocators
      /\ r.free = [al.free EXCEPT ![i] = FALSE]
      /\ r.next = [b \in Blocks |-> CASE b = i -> None [] b = p -> n [] OTHER -> al.next[b]]
      /\ r.prev = [b \in Blocks |-> CASE b = i -> None [] b = n -> p [] OTHER -> al.prev[b]]
      /\ r.firsts = [al.firsts EXCEPT ![lev] = f]
      /\ r.allocated_level = al.allocated_level /\ r.died = al.died
  <2> DEFINE pv == [b \in Blocks |-> CASE b = i -> None [] b = n -> p [] OTHER -> al.prev[b]]
             nx == [b \in Blocks |-> CASE b = i -> None [] b = p -> n [] OTHER -> al.next[b]]
  <2>1. pv \in [Blocks -> Blocks \cup {None}] /\ nx \in [Blocks -> Blocks \cup {None}]
    BY <1>1 DEF Allocators
  <2>2. r = [al EXCEPT !.free[i] = FALSE, !.prev = pv, !.next = nx, !.firsts[lev] = f]
    BY DEF r, f
  <2> HIDE DEF pv, nx
  <2>3. f \in Blocks \cup {None}
    BY <1>1 DEF f, Allocators
  <2>4. /\ r \in Allocators /\ r.free = [al.free EXCEPT ![i] = FALSE]
        /\ r.prev = pv /\ r.next = nx /\ r.firsts = [al.firsts EXCEPT ![lev] = f]
        /\ r.allocated_level = al.allocated_level /\ r.died = al.died
    BY <1>1, <2>1, <2>2, <2>3 DEF Allocators
  <2> QED BY <2>4 DEF pv, nx
<1>9. ASSUME NEW b \in Blocks, b # i
      PROVE  /\ r.free[b] = al.free[b]
             /\ r.next[b] = (IF b = p THEN n ELSE al.next[b])
             /\ r.prev[b] = (IF b = n THEN p ELSE al.prev[b])
  <2>1. r.free[b] = al.free[b]
    BY <1>1, <1>8, <1>9 DEF Allocators
  <2>2. r.next[b] = CASE b = i -> None [] b = p -> n [] OTHER -> al.next[b]
    BY <1>8
  <2>3. r.prev[b] = CASE b = i -> None [] b = n -> p [] OTHER -> al.prev[b]
    BY <1>8
  <2>4. r.next[b] = IF b = p THEN n ELSE al.next[b]
    BY <1>9, <2>2
  <2>5. r.prev[b] = IF b = n THEN p ELSE al.prev[b]
    BY <1>9, <2>3
  <2> QED BY <2>1, <2>4, <2>5
<1>10. r.free[i] = FALSE /\ r.next[i] = None /\ r.prev[i] = None
  <2>1. r.free[i] = FALSE
    BY <1>1, <1>8 DEF Allocators
  <2>2. r.next[i] = CASE i = i -> None [] i = p -> n [] OTHER -> al.next[i]
    BY <1>1, <1>8
  <2>3. r.prev[i] = CASE i = i -> None [] i = n -> p [] OTHER -> al.prev[i]
    BY <1>1, <1>8
  <2>4. p # i /\ n # i
    BY <1>1, <1>6
  <2>5. r.next[i] = None
    BY <2>2, <2>4
  <2>6. r.prev[i] = None
    BY <2>3, <2>4
  <2> QED BY <2>1, <2>5, <2>6
<1>11. Idle(r)
  <2> SUFFICES ASSUME NEW b \in Blocks, ~r.free[b] PROVE r.prev[b] = None /\ r.next[b] = None
    BY DEF Idle
  <2>1. CASE b = i
    BY <1>10, <2>1
  <2>2. CASE b # i
    <3>1. ~al.free[b]
      BY <1>9, <2>2
    <3>2. b # p /\ b # n /\ al.prev[b] = None /\ al.next[b] = None
      BY <1>6, <3>1, NoneIsNoBlock DEF FreeOn, ListsOK, Idle
    <3> QED BY <1>9, <2>2, <3>2
  <2> QED BY <2>1, <2>2
<1>12. Row(r, lev, Cut(s, j))
  <2> DEFINE nx == al.next
             pv == al.prev
             fs == al.firsts[lev]
  <2>1. LineIs(nx, pv, Blocks, None, fs, s) /\ Members(s) \subseteq Blocks
    BY <1>2, BlockTypes DEF Row, FreeOn
  <2>2. pv[i] = p /\ nx[i] = n
    BY DEF p, n
  <2>3. f = IF pv[i] = None THEN nx[i] ELSE fs
    BY DEF f, p, n
  <2> HIDE DEF nx, pv, fs
  <2>4. ASSUME NEW x \in Members(s) \ {i}
        PROVE  /\ r.prev[x] = IF x = nx[i] THEN pv[i] ELSE pv[x]
               /\ r.next[x] = IF x = pv[i] THEN nx[i] ELSE nx[x]
    BY <1>9, <2>1, <2>2 DEF nx, pv
  <2>5. Removed(r.next, r.prev, f, nx, pv, fs, None, i, s)
    BY <2>3, <2>4 DEF Removed
  <2>6. LineIs(r.next, r.prev, Blocks, None, f, Cut(s, j))
    BY <1>3, <2>1, <2>5, LineCut, NoneIsNoBlock
  <2>7. r.firsts[lev] = f
    BY <1>1, <1>8 DEF Allocators
  <2>8. Members(Cut(s, j)) = FreeOn(al, lev) \ {i}
    <3>1. Members(Cut(s, j)) = Members(s) \ {s[j]}
      BY <1>4, MembersCut DEF Distinct
    <3> QED BY <1>2, <1>3, <3>1 DEF Row
  <2>9. FreeOn(r, lev) = FreeOn(al, lev) \ {i}
    BY <1>9, <1>10, BlockTypes DEF FreeOn
  <2> QED BY <2>6, <2>7, <2>8, <2>9 DEF Row
<1>13. ASSUME NEW m \in Levels, m # lev PROVE \E t : Row(r, m, t)
  <2>1. PICK t : Row(al, m, t)
    BY DEF ListsOK
  <2>2. ASSUME NEW x \in Members(t) PROVE x \in Blocks /\ x # i /\ x # n /\ x # p
    <3>1. x \in OnLevel(m)
      BY <2>1 DEF Row, FreeOn
    <3>2. x \in Blocks /\ x \notin OnLevel(lev) /\ x # None
      BY <1>13, <3>1, BlockTypes
    <3> QED BY <1>6, <3>2 DEF FreeOn
  <2>3. \A x \in Members(t) : r.next[x] = al.next[x] /\ r.prev[x] = al.prev[x]
    BY <1>9, <2>2
  <2>4. LineIs(r.next, r.prev, Blocks, None, al.firsts[m], t)
    BY <2>1, <2>3, LineFrame, NoneIsNoBlock DEF Row
  <2>5. r.firsts[m] = al.firsts[m]
    <3>1. al.firsts \in [Levels -> Blocks \cup {None}]
      BY <1>1 DEF Allocators
    <3> QED BY <1>8, <1>13, <3>1
  <2>6. FreeOn(r, m) = FreeOn(al, m)
    <3>1. i \notin OnLevel(m)
      BY <1>13, BlockTypes
    <3> QED BY <1>9, <3>1, BlockTypes DEF FreeOn
  <2>7. Row(r, m, t)
    BY <2>1, <2>4, <2>5, <2>6 DEF Row
  <2> QED BY <2>7
<1>14. FreeSet(r) = FreeSet(al) \ {i}
  BY <1>9, <1>10 DEF FreeSet
<1>15. ListsOK(r)
  BY <1>8, <1>11, <1>12, <1>13 DEF ListsOK
<1> QED BY <1>7, <1>8, <1>14, <1>15 DEF Becomes

-----------------------------------------------------------------------------
(* Sets of blocks: those that a page lies in, the tilings of a set of      *)
(* pages, and the blocks both of whose halves are in a set.                *)

Above(p) == {Anc(l, p) : l \in Levels}

Tiling(B, U) ==
  \A p \in Pages : /\ p \in U <=> \E x \in B : x \in Above(p)
                   /\ \A x, y \in B : x \in Above(p) /\ y \in Above(p) => x = y

Pairs(F) == {i \in Blocks : 2*i \in F /\ 2*i + 1 \in F}

LEMMA InAbove ==
  ASSUME NEW lev \in Levels, NEW i \in OnLevel(lev), NEW p \in Pages
  PROVE  i \in Above(p) <=> Anc(lev, p) = i
<1>1. ASSUME NEW l \in Levels, Anc(l, p) = i PROVE l = lev
  BY <1>1, AncBlock, BlockTypes
<1> QED BY <1>1 DEF Above

LEMMA HalfAbove ==
  ASSUME NEW lev \in Levels, lev # LAST_LEV, NEW i \in OnLevel(lev), NEW p \in Pages
  PROVE  /\ i \in Above(p) <=> 2*i \in Above(p) \/ 2*i + 1 \in Above(p)
         /\ ~(2*i \in Above(p) /\ 2*i + 1 \in Above(p))
<1>1. /\ lev+1 \in Levels /\ 2*i \in OnLevel(lev+1) /\ 2*i + 1 \in OnLevel(lev+1)
      /\ (Anc(lev, p) = i <=> Anc(lev+1, p) = 2*i \/ Anc(lev+1, p) = 2*i + 1)
  BY Halves
<1>2. /\ i \in Above(p) <=> Anc(lev, p) = i
      /\ 2*i \in Above(p) <=> Anc(lev+1, p) = 2*i
      /\ 2*i + 1 \in Above(p) <=> Anc(lev+1, p) = 2*i + 1
  BY <1>1, InAbove
<1>3. 2*i # 2*i + 1
  BY BlockTypes
<1> QED BY <1>1, <1>2, <1>3

LEMMA SomePage ==
  ASSUME NEW lev \in Levels, NEW i \in OnLevel(lev)
  PROVE  \E p \in Pages : i \in Above(p)
BY PagesAre, InAbove

LEMMA Split ==
  ASSUME NEW B, NEW U, Tiling(B, U), NEW lev \in Levels, lev # LAST_LEV,
         NEW i \in OnLevel(lev), i \in B
  PROVE  /\ 2*i \notin B /\ 2*i + 1 \notin B
         /\ Tiling((B \ {i}) \cup {2*i, 2*i + 1}, U)
<1>1. i \in Nat \ {0} /\ 2*i # i /\ 2*i + 1 # i
  BY BlockTypes
<1> DEFINE l == 2*i
           r == 2*i + 1
<1>2. \A p \in Pages : /\ i \in Above(p) <=> l \in Above(p) \/ r \in Above(p)
                       /\ ~(l \in Above(p) /\ r \in Above(p))
  BY HalfAbove
<1>3. (\E p \in Pages : l \in Above(p)) /\ (\E p \in Pages : r \in Above(p))
  BY Halves, SomePage
<1> HIDE DEF l, r
<1>4. l \notin B
  BY <1>1, <1>2, <1>3 DEF Tiling, l
<1>5. r \notin B
  BY <1>1, <1>2, <1>3 DEF Tiling, r
<1>6. Tiling((B \ {i}) \cup {l, r}, U)
  BY <1>2, <1>4, <1>5 DEF Tiling
<1> QED BY <1>4, <1>5, <1>6 DEF l, r

LEMMA Join ==
  ASSUME NEW B, NEW U, Tiling(B, U), NEW lev \in Levels, lev # LAST_LEV,
         NEW i \in OnLevel(lev), 2*i \in B, 2*i + 1 \in B
  PROVE  /\ i \notin B
         /\ Tiling((B \ {2*i, 2*i + 1}) \cup {i}, U)
<1>1. i \in Nat \ {0} /\ 2*i # i /\ 2*i + 1 # i
  BY BlockTypes
<1> DEFINE l == 2*i
           r == 2*i + 1
<1>2. \A p \in Pages : /\ i \in Above(p) <=> l \in Above(p) \/ r \in Above(p)
                       /\ ~(l \in Above(p) /\ r \in Above(p))
  BY HalfAbove
<1>3. (\E p \in Pages : l \in Above(p)) /\ (\E p \in Pages : r \in Above(p))
  BY Halves, SomePage
<1>4. l \in B /\ r \in B /\ l # i
  BY <1>1
<1> HIDE DEF l, r
<1>5. i \notin B
  BY <1>2, <1>3, <1>4 DEF Tiling
<1>6. Tiling((B \ {l, r}) \cup {i}, U)
  BY <1>2, <1>4, <1>5 DEF Tiling
<1> QED BY <1>5, <1>6 DEF l, r

(* Pages tile themselves.                                                  *)
LEMMA PagesTile ==
  ASSUME NEW F, F \subseteq Pages
  PROVE  Tiling(F, F)
<1>1. ASSUME NEW p \in Pages, NEW q \in Pages PROVE q \in Above(p) <=> p = q
  <2>1. q \in OnLevel(LAST_LEV) /\ LAST_LEV \in Levels /\ Anc(LAST_LEV, p) = p
    BY LevelTypes, PageTypes DEF Pages
  <2> QED BY <2>1, InAbove
<1> QED BY <1>1 DEF Tiling

LEMMA PairsBelow ==
  ASSUME NEW F \in SUBSET Blocks, NEW i \in Pairs(F)
  PROVE  i \in Nat /\ i < Starts(LAST_LEV)
<1>1. i \in Nat /\ 2*i + 1 \in 1..(2^BUDDY_LEVELS - 1)
  BY DEF Pairs, Blocks
<1>2. 2^BUDDY_LEVELS = 2 * Starts(LAST_LEV) /\ Starts(LAST_LEV) \in Nat
  BY LevelTypes, PowerStep, Powers DEF Starts
<1> QED BY <1>1, <1>2

LEMMA PairsFewer ==
  ASSUME NEW F, NEW G, F \subseteq G
  PROVE  Pairs(F) \subseteq Pairs(G)
BY DEF Pairs

LEMMA PairsAdd ==
  ASSUME NEW F, NEW x \in Nat
  PROVE  Pairs(F \cup {x}) \subseteq Pairs(F) \cup {x \div 2}
<1> SUFFICES ASSUME NEW i \in Pairs(F \cup {x}), i \notin Pairs(F) PROVE i = x \div 2
  OBVIOUS
<1>1. i \in Nat
  BY DEF Pairs, Blocks
<1>2. x = 2*i \/ x = 2*i + 1
  BY DEF Pairs
<1> QED BY <1>1, <1>2

LEMMA PairsRight ==
  ASSUME NEW F, NEW h \in Nat, 2*h \notin F
  PROVE  Pairs(F \cup {2*h + 1}) \subseteq Pairs(F)
<1> SUFFICES ASSUME NEW i \in Pairs(F \cup {2*h + 1}) PROVE i \in Pairs(F)
  OBVIOUS
<1>1. i \in Nat /\ 2*i # 2*h + 1
  BY DEF Pairs, Blocks
<1>2. 2*i \in F
  BY <1>1 DEF Pairs
<1>3. 2*i + 1 # 2*h + 1
  BY <1>1, <1>2
<1> QED BY <1>2, <1>3 DEF Pairs

LEMMA PairsJoin ==
  ASSUME NEW F, NEW i \in Nat \ {0}
  PROVE  Pairs((F \ {2*i, 2*i + 1}) \cup {i}) \subseteq (Pairs(F) \ {i}) \cup {i \div 2}
<1> DEFINE G == F \ {2*i, 2*i + 1}
<1>1. Pairs(G \cup {i}) \subseteq Pairs(G) \cup {i \div 2}
  BY PairsAdd
<1>2. i \notin Pairs(G) /\ Pairs(G) \subseteq Pairs(F)
  BY DEF Pairs
<1> QED BY <1>1, <1>2

-----------------------------------------------------------------------------
(* Merging.                                                                *)

LEMMA FreeTypes ==
  ASSUME NEW al, ListsOK(al)
  PROVE  /\ FreeSet(al) \in SUBSET Blocks
         /\ \A i \in Blocks : al.free[i] <=> i \in FreeSet(al)
BY DEF FreeSet

LEMMA BecomesNext ==
  ASSUME NEW al, NEW r, NEW F, Becomes(r, al, F), NEW r2, NEW G, Becomes(r2, r, G)
  PROVE  Becomes(r2, al, G)
BY DEF Becomes

LEMMA MergeOne ==
  ASSUME NEW al, ListsOK(al), NEW lev \in Levels, lev # 0,
         NEW i \in OnLevel(lev), NEW j, j = i \div 2,
         2*j \in FreeSet(al), 2*j + 1 \in FreeSet(al), j \notin FreeSet(al)
  PROVE  /\ Mergeable(al, lev, i)
         /\ Becomes(try_merge_one(al, lev, i), al,
                    (FreeSet(al) \ {2*j, 2*j + 1}) \cup {j})
<1> DEFINE l == 2*j
           F == FreeSet(al)
<1>1. /\ lev-1 \in Levels /\ lev-1 # LAST_LEV /\ (lev-1)+1 = lev
      /\ j \in OnLevel(lev-1) /\ Left(i) = l
  BY Parents
<1>2. l \in OnLevel(lev) /\ l+1 \in OnLevel(lev)
  BY <1>1, Halves
<1>3. l \in Nat \ {0} /\ l \in Blocks /\ l+1 \in Blocks /\ j \in Blocks /\ l # l+1 /\ j \in Nat \ {0}
  BY <1>1, <1>2, BlockTypes
<1>4. j # l /\ j # l+1
  BY <1>3
<1> HIDE DEF l
<1>5. lev > 0
  BY Powers
<1>6. Mergeable(al, lev, i)
  BY <1>1, <1>3, <1>5, FreeTypes DEF Mergeable, l
<1> DEFINE r1 == remove_one(al, lev, l)
           r2 == remove_one(r1, lev, l+1)
           r3 == add_one(r2, lev-1, j)
<1>7. try_merge_one(al, lev, i) = r3
  BY <1>1, <1>6 DEF try_merge_one
<1>8. Becomes(r1, al, F \ {l})
  BY <1>2, <1>3, FreeTypes, RemoveOne DEF l
<1> HIDE DEF r1, r2, r3
<1>9. Becomes(r2, r1, (F \ {l}) \ {l+1})
  <2>1. ListsOK(r1) /\ FreeSet(r1) = F \ {l} /\ l+1 \in FreeSet(r1)
    BY <1>3, <1>8 DEF Becomes, l
  <2>2. r1.free[l+1]
    BY <2>1, FreeTypes, <1>3
  <2> QED BY <1>2, <2>1, <2>2, RemoveOne DEF r2
<1>10. Becomes(r3, r2, ((F \ {l}) \ {l+1}) \cup {j})
  <2>1. ListsOK(r2) /\ FreeSet(r2) = (F \ {l}) \ {l+1}
    BY <1>9 DEF Becomes
  <2>2. ~r2.free[j]
    BY <1>3, <2>1, FreeTypes
  <2> QED BY <1>1, <2>1, <2>2, AddOne DEF r3
<1>11. ((F \ {l}) \ {l+1}) \cup {j} = (F \ {l, l+1}) \cup {j}
  OBVIOUS
<1>12. Becomes(r3, al, (F \ {l, l+1}) \cup {j})
  BY <1>8, <1>9, <1>10, <1>11 DEF Becomes
<1> QED BY <1>6, <1>7, <1>12 DEF l

(* Nothing to merge.                                                       *)
LEMMA MergeNone ==
  ASSUME NEW al, ListsOK(al), NEW lev \in Levels, NEW i \in OnLevel(lev),
         NEW j, j = i \div 2, lev = 0 \/ ~(2*j \in FreeSet(al) /\ 2*j + 1 \in FreeSet(al))
  PROVE  ~Mergeable(al, lev, i) /\ try_merge_one(al, lev, i) = al
<1>1. ~Mergeable(al, lev, i)
  <2>1. CASE lev = 0
    BY <2>1 DEF Mergeable
  <2>2. CASE lev # 0
    <3>1. /\ lev-1 \in Levels /\ lev-1 # LAST_LEV /\ (lev-1)+1 = lev
          /\ j \in OnLevel(lev-1) /\ Left(i) = 2*j
      BY <2>2, Parents
    <3>2. 2*j \in Blocks /\ 2*j + 1 \in Blocks
      BY <3>1, Halves, BlockTypes
    <3> QED BY <2>2, <3>1, <3>2, FreeTypes DEF Mergeable
  <2> QED BY <2>1, <2>2
<1> QED BY <1>1 DEF try_merge_one

(* What merging keeps: of al, whose free blocks tile U.                    *)
Merges(r, al, U) ==
  /\ ListsOK(r) /\ Tiling(FreeSet(r), U)
  /\ r.allocated_level = al.allocated_level /\ r.died = al.died

(* The loop over a level: after k turns the first k pairs are merged.      *)
LevelMerged(al, U, lev, k) ==
  {r \in Allocators :
     /\ Merges(r, al, U)
     /\ \A i \in Pairs(FreeSet(r)) :
          i < Starts(lev) /\ (i < Starts(lev-1) \/ Starts(lev-1) + k <= i)}

LEMMA LevelTurn ==
  ASSUME NEW al, NEW U, NEW lev \in Levels, lev # 0,
         NEW k \in 1..Starts(lev-1), NEW r \in LevelMerged(al, U, lev, k-1)
  PROVE  try_merge_one(r, lev, Starts(lev) + 2 * (k-1)) \in LevelMerged(al, U, lev, k)
<1> DEFINE s == Starts(lev-1)
           j == s + k - 1
           b == Starts(lev) + 2 * (k-1)
           F == FreeSet(r)
           r2 == try_merge_one(r, lev, b)
<1>1. /\ lev-1 \in Levels /\ lev-1 # LAST_LEV /\ (lev-1)+1 = lev
      /\ s \in Nat \ {0} /\ Starts(lev) = 2 * s /\ Starts(lev) \in Nat
  BY Parents, PowersNext, Powers, LevelTypes
<1>2. /\ b = 2*j /\ j \in OnLevel(lev-1) /\ j \in Nat \ {0} /\ b \div 2 = j
      /\ b \in OnLevel(lev) /\ s <= j /\ j < 2*s /\ s + k = j + 1 /\ s + (k-1) = j
  <2>1. b = 2*j /\ s <= j /\ j < 2*s /\ j \in Nat \ {0} /\ s + k = j + 1 /\ s + (k-1) = j
    BY <1>1
  <2>2. j \in OnLevel(lev-1)
    BY <1>1, <2>1 DEF OnLevel
  <2> HIDE DEF j, b
  <2>3. b \div 2 = j /\ b \in OnLevel(lev)
    BY <1>1, <2>1, <2>2, Halves
  <2> QED BY <2>1, <2>2, <2>3
<1> HIDE DEF s, j, b
<1>3. /\ r \in Allocators /\ ListsOK(r) /\ Tiling(F, U)
      /\ r.allocated_level = al.allocated_level /\ r.died = al.died
      /\ \A i \in Pairs(F) : i < Starts(lev) /\ (i < s \/ j <= i)
  BY <1>2 DEF LevelMerged, Merges, s
<1>4. CASE 2*j \in F /\ 2*j + 1 \in F
  <2>1. /\ j \notin F
        /\ Tiling((F \ {2*j, 2*j + 1}) \cup {j}, U)
    BY <1>1, <1>2, <1>3, <1>4, Join
  <2>2. Becomes(r2, r, (F \ {2*j, 2*j + 1}) \cup {j})
    BY <1>1, <1>2, <1>3, <1>4, <2>1, MergeOne
  <2>3. Pairs(FreeSet(r2)) \subseteq (Pairs(F) \ {j}) \cup {j \div 2}
    BY <1>2, <2>2, PairsJoin DEF Becomes
  <2>4. j \div 2 \in Nat /\ j \div 2 < s
    BY <1>1, <1>2
  <2>5. ASSUME NEW i \in Pairs(FreeSet(r2))
        PROVE  i < Starts(lev) /\ (i < s \/ s + k <= i)
    <3>1. i \in Nat
      BY DEF Pairs, Blocks
    <3>2. CASE i \in Pairs(F) \ {j}
      <4>1. i < Starts(lev) /\ (i < s \/ j <= i) /\ i # j
        BY <1>3, <3>2
      <4> QED BY <1>1, <1>2, <3>1, <4>1
    <3>3. CASE i = j \div 2
      BY <1>1, <2>4, <3>3
    <3> QED BY <2>3, <3>2, <3>3
  <2>6. r2 \in Allocators /\ Merges(r2, al, U)
    BY <1>3, <2>1, <2>2 DEF Becomes, Merges, ListsOK
  <2> QED BY <2>5, <2>6 DEF LevelMerged, s, b
<1>5. CASE ~(2*j \in F /\ 2*j + 1 \in F)
  <2>1. r2 = r
    BY <1>2, <1>3, <1>5, MergeNone
  <2>2. ASSUME NEW i \in Pairs(F)
        PROVE  i < Starts(lev) /\ (i < s \/ s + k <= i)
    <3>1. i \in Nat /\ i # j
      BY <1>5 DEF Pairs, Blocks
    <3>2. i < Starts(lev) /\ (i < s \/ j <= i)
      BY <1>3
    <3> QED BY <1>1, <1>2, <3>1, <3>2
  <2>3. r2 \in Allocators /\ Merges(r2, al, U)
    BY <1>3, <2>1 DEF Merges
  <2> QED BY <2>1, <2>2, <2>3 DEF LevelMerged, s, b
<1> QED BY <1>4, <1>5

LevelTurns(al, lev) ==
  CHOOSE turn : turn = [k \in 0..(Starts(lev) \div 2) |->
    IF k = 0 THEN al
    ELSE try_merge_one(turn[k-1], lev, Starts(lev) + 2 * (k-1))]

LEMMA MergeLevel ==
  ASSUME NEW al, NEW U, Merges(al, al, U), NEW lev \in Levels, lev # 0,
         \A i \in Pairs(FreeSet(al)) : i < Starts(lev)
  PROVE  /\ Merges(merge_level(al, lev), al, U)
         /\ \A i \in Pairs(FreeSet(merge_level(al, lev))) : i < Starts(lev-1)
<1> DEFINE n == Starts(lev) \div 2
           Ok == [k \in 0..n |-> LevelMerged(al, U, lev, k)]
           Body(k, x) == try_merge_one(x, lev, Starts(lev) + 2 * (k-1))
           step == [k \in 1..n |-> [x \in Ok[k-1] |-> Body(k, x)]]
           Is(f) == f = [k \in 0..n |-> IF k = 0 THEN al ELSE Body(k, f[k-1])]
           turn == LevelTurns(al, lev)
<1>1. /\ lev-1 \in Levels /\ n \in Nat /\ n = Starts(lev-1) /\ Starts(lev) = 2 * n
      /\ 0 \in 0..n /\ n \in 0..n
  <2>1. /\ lev-1 \in Levels /\ Starts(lev-1) \in Nat /\ Starts(lev) = 2 * Starts(lev-1)
    BY Parents, PowersNext, Powers, LevelTypes
  <2>2. n = Starts(lev-1)
    BY <2>1
  <2> HIDE DEF n
  <2> QED BY <2>1, <2>2
<1> HIDE DEF n
<1>2. al \in Ok[0]
  <2>1. al \in Allocators
    BY DEF Merges, ListsOK
  <2>2. \A i \in Pairs(FreeSet(al)) :
          i < Starts(lev) /\ (i < Starts(lev-1) \/ Starts(lev-1) + 0 <= i)
    <3> TAKE i \in Pairs(FreeSet(al))
    <3>1. i \in Nat
      BY DEF Pairs, Blocks
    <3> QED BY <1>1, <3>1
  <2>3. al \in LevelMerged(al, U, lev, 0)
    BY <2>1, <2>2 DEF LevelMerged
  <2> QED BY <1>1, <2>3
<1>3. ASSUME NEW k \in 1..n, NEW x \in Ok[k-1] PROVE Body(k, x) \in Ok[k]
  <2>1. k-1 \in 0..n /\ k \in 0..n /\ k \in 1..Starts(lev-1)
    BY <1>1
  <2>2. x \in LevelMerged(al, U, lev, k-1)
    BY <2>1
  <2>3. Body(k, x) \in LevelMerged(al, U, lev, k)
    BY <2>1, <2>2, LevelTurn
  <2> QED BY <2>1, <2>3
<1> HIDE DEF Ok, Body
<1>4. \E f : Is(f)
  <2>1. \A k \in 1..n : \A x \in Ok[k-1] : step[k][x] = Body(k, x)
    OBVIOUS
  <2>2. \A k \in 1..n : \A x \in Ok[k-1] : step[k][x] \in Ok[k]
    BY <1>3, <2>1
  <2> HIDE DEF step
  <2>3. PICK f : IsLoop(f, n, al, step) /\ \A k \in 0..n : f[k] \in Ok[k]
    BY <1>1, <1>2, <2>2, Recursion
  <2>4. ASSUME NEW k \in 0..n
        PROVE  (IF k = 0 THEN al ELSE step[k][f[k-1]]) = IF k = 0 THEN al ELSE Body(k, f[k-1])
    <3>1. k # 0 => k \in 1..n /\ k-1 \in 0..n
      BY <1>1
    <3> QED BY <2>1, <2>3, <3>1
  <2>5. f = [k \in 0..n |-> IF k = 0 THEN al ELSE step[k][f[k-1]]]
    BY <2>3 DEF IsLoop
  <2>6. Is(f)
    BY <2>4, <2>5
  <2> QED BY <2>6
<1>5. Is(turn)
  <2>1. turn = CHOOSE f : Is(f)
    BY DEF LevelTurns, Body, n
  <2> HIDE DEF Is, turn
  <2> QED BY <1>4, <2>1
<1> HIDE DEF turn
<1>6. turn[0] = al /\ \A k \in 1..n : turn[k] = Body(k, turn[k-1])
  <2>1. turn = [k \in 0..n |-> IF k = 0 THEN al ELSE Body(k, turn[k-1])]
    BY <1>5
  <2>2. turn[0] = al
    BY <1>1, <2>1
  <2>3. ASSUME NEW k \in 1..n PROVE turn[k] = Body(k, turn[k-1])
    <3>1. k \in 0..n /\ k # 0
      BY <1>1
    <3> QED BY <2>1, <3>1
  <2> QED BY <2>2, <2>3
<1>7. \A k \in 0..n : turn[k] \in Ok[k]
  BY <1>1, <1>2, <1>3, <1>6, Turns
<1>8. merge_level(al, lev) = turn[n]
  BY DEF merge_level, turn, LevelTurns, n
<1>9. turn[n] \in LevelMerged(al, U, lev, n)
  BY <1>1, <1>7 DEF Ok
<1>10. ASSUME NEW i \in Pairs(FreeSet(turn[n])) PROVE i < Starts(lev-1)
  <2>1. i < Starts(lev) /\ (i < Starts(lev-1) \/ Starts(lev-1) + n <= i) /\ i \in Nat
    BY <1>9 DEF LevelMerged, Pairs, Blocks
  <2> QED BY <1>1, <2>1
<1> QED BY <1>8, <1>9, <1>10 DEF LevelMerged

(* The loop over the levels, from the pages up.                            *)
AllMerged(al, U, k) ==
  {r \in Allocators : /\ Merges(r, al, U)
                      /\ \A i \in Pairs(FreeSet(r)) : i < Starts(LAST_LEV - k)}

LEMMA AllTurn ==
  ASSUME NEW al, NEW U, NEW k \in 1..LAST_LEV, NEW r \in AllMerged(al, U, k-1)
  PROVE  merge_level(r, LAST_LEV + 1 - k) \in AllMerged(al, U, k)
<1> DEFINE lev == LAST_LEV + 1 - k
           r2  == merge_level(r, lev)
<1>1. lev \in Levels /\ lev # 0 /\ lev - 1 = LAST_LEV - k /\ lev = LAST_LEV - (k-1)
  BY LevelTypes
<1> HIDE DEF lev
<1>2. /\ Merges(r, al, U) /\ Merges(r, r, U)
      /\ \A i \in Pairs(FreeSet(r)) : i < Starts(lev)
  BY <1>1 DEF AllMerged, Merges
<1>3. /\ Merges(r2, r, U)
      /\ \A i \in Pairs(FreeSet(r2)) : i < Starts(lev-1)
  BY <1>1, <1>2, MergeLevel
<1> HIDE DEF r2
<1>4. Merges(r2, al, U) /\ r2 \in Allocators
  BY <1>2, <1>3 DEF Merges, ListsOK
<1> QED BY <1>1, <1>3, <1>4 DEF AllMerged, r2, lev

AllTurns(al) ==
  CHOOSE turn : turn = [k \in 0..LAST_LEV |->
    IF k = 0 THEN al ELSE merge_level(turn[k-1], LAST_LEV + 1 - k)]

LEMMA MergeAll ==
  ASSUME NEW al, NEW U, Merges(al, al, U)
  PROVE  Merges(merge_all(al), al, U) /\ Pairs(FreeSet(merge_all(al))) = {}
<1> DEFINE n == LAST_LEV
           Ok == [k \in 0..n |-> AllMerged(al, U, k)]
           Body(k, x) == merge_level(x, LAST_LEV + 1 - k)
           step == [k \in 1..n |-> [x \in Ok[k-1] |-> Body(k, x)]]
           Is(f) == f = [k \in 0..n |-> IF k = 0 THEN al ELSE Body(k, f[k-1])]
           turn == AllTurns(al)
<1>1. n \in Nat /\ 0 \in 0..n /\ n \in 0..n
  BY LevelTypes
<1>2. al \in Ok[0]
  <2>1. al \in Allocators /\ FreeSet(al) \in SUBSET Blocks
    BY FreeTypes DEF Merges, ListsOK
  <2>2. \A i \in Pairs(FreeSet(al)) : i < Starts(LAST_LEV)
    BY <2>1, PairsBelow
  <2>3. LAST_LEV - 0 = LAST_LEV
    BY <1>1
  <2>4. al \in AllMerged(al, U, 0)
    BY <2>1, <2>2, <2>3 DEF AllMerged
  <2> QED BY <1>1, <2>4
<1>3. ASSUME NEW k \in 1..n, NEW x \in Ok[k-1] PROVE Body(k, x) \in Ok[k]
  <2>1. k-1 \in 0..n /\ k \in 0..n
    BY <1>1
  <2>2. x \in AllMerged(al, U, k-1)
    BY <2>1
  <2>3. Body(k, x) \in AllMerged(al, U, k)
    BY <2>2, AllTurn
  <2> QED BY <2>1, <2>3
<1> HIDE DEF Ok, Body
<1>4. \E f : Is(f)
  <2>1. \A k \in 1..n : \A x \in Ok[k-1] : step[k][x] = Body(k, x)
    OBVIOUS
  <2>2. \A k \in 1..n : \A x \in Ok[k-1] : step[k][x] \in Ok[k]
    BY <1>3, <2>1
  <2> HIDE DEF step, n
  <2>3. PICK f : IsLoop(f, n, al, step) /\ \A k \in 0..n : f[k] \in Ok[k]
    BY <1>1, <1>2, <2>2, Recursion
  <2>4. ASSUME NEW k \in 0..n
        PROVE  (IF k = 0 THEN al ELSE step[k][f[k-1]]) = IF k = 0 THEN al ELSE Body(k, f[k-1])
    <3>1. k # 0 => k \in 1..n /\ k-1 \in 0..n
      BY <1>1
    <3> QED BY <2>1, <2>3, <3>1
  <2>5. f = [k \in 0..n |-> IF k = 0 THEN al ELSE step[k][f[k-1]]]
    BY <2>3 DEF IsLoop
  <2>6. Is(f)
    BY <2>4, <2>5
  <2> QED BY <2>6
<1>5. Is(turn)
  <2>1. turn = CHOOSE f : Is(f)
    BY DEF AllTurns, Body
  <2> HIDE DEF Is, turn
  <2> QED BY <1>4, <2>1
<1> HIDE DEF turn
<1>6. turn[0] = al /\ \A k \in 1..n : turn[k] = Body(k, turn[k-1])
  <2>1. turn = [k \in 0..n |-> IF k = 0 THEN al ELSE Body(k, turn[k-1])]
    BY <1>5
  <2>2. turn[0] = al
    BY <1>1, <2>1
  <2>3. ASSUME NEW k \in 1..n PROVE turn[k] = Body(k, turn[k-1])
    <3>1. k \in 0..n /\ k # 0
      BY <1>1
    <3> QED BY <2>1, <3>1
  <2> QED BY <2>2, <2>3
<1>7. \A k \in 0..n : turn[k] \in Ok[k]
  <2> HIDE DEF n
  <2> QED BY <1>1, <1>2, <1>3, <1>6, Turns
<1>8. merge_all(al) = turn[n]
  BY DEF merge_all, turn, AllTurns
<1>9. turn[n] \in AllMerged(al, U, LAST_LEV)
  BY <1>1, <1>7 DEF Ok
<1>10. ASSUME NEW i \in Pairs(FreeSet(turn[n])) PROVE FALSE
  <2>1. i < Starts(LAST_LEV - LAST_LEV) /\ i \in Nat \ {0}
    BY <1>9 DEF AllMerged, Pairs, Blocks
  <2>2. LAST_LEV - LAST_LEV = 0 /\ Starts(0) = 1
    BY <1>1, PowersEnd
  <2> QED BY <2>1, <2>2
<1> QED BY <1>8, <1>9, <1>10 DEF AllMerged

-----------------------------------------------------------------------------
(* The pages that an operation of buddy_init is about.                     *)

Op == [operation : {"available", "reserve"}, start : Nat, end : Nat]

Within(op, p) == op.start <= Address(LAST_LEV, p) /\ Address(LAST_LEV, p + 1) <= op.end
Meets(op, p) ==
  op.start < op.end /\ op.start < Address(LAST_LEV, p + 1) /\ Address(LAST_LEV, p) < op.end
Meant(op, p) == IF op.operation = "reserve" THEN Meets(op, p) ELSE Within(op, p)

LEMMA Floors ==
  ASSUME NEW g \in Nat \ {0}, NEW y \in Nat, NEW x \in Nat
  PROVE  /\ y \div g \in Nat
         /\ x < y \div g <=> (x + 1) * g <= y
         /\ y \div g <= x <=> y < (x + 1) * g
<1> DEFINE q == y \div g
<1>1. q \in Nat /\ q * g <= y /\ y < (q + 1) * g
  BY QuotientIs
<1> HIDE DEF q
<1>2. x < q => (x + 1) * g <= q * g
  BY <1>1, SMT
<1>3. q <= x => (q + 1) * g <= (x + 1) * g
  BY <1>1, SMT
<1>4. q * g \in Nat /\ (q + 1) * g \in Nat /\ (x + 1) * g \in Nat
  BY <1>1, SMT
<1>5. x < q \/ q <= x
  BY <1>1
<1>6. (x < q <=> (x + 1) * g <= y) /\ (q <= x <=> y < (x + 1) * g)
  <2> DEFINE qg == q * g
             q1 == (q + 1) * g
             x1 == (x + 1) * g
  <2>1. qg \in Nat /\ q1 \in Nat /\ x1 \in Nat /\ qg <= y /\ y < q1
        /\ (x < q => x1 <= qg) /\ (q <= x => q1 <= x1)
    BY <1>1, <1>2, <1>3, <1>4
  <2> HIDE DEF qg, q1, x1
  <2>2. (x < q <=> x1 <= y) /\ (q <= x <=> y < x1)
    BY <1>1, <1>5, <2>1
  <2> QED BY <2>2 DEF x1
<1> QED BY <1>1, <1>6 DEF q

LEMMA Ceilings ==
  ASSUME NEW y \in Nat, NEW x \in Nat
  PROVE  /\ Up(y) \in Nat
         /\ Up(y) <= x <=> y <= x * PAGE
         /\ x < Up(y) <=> x * PAGE < y
<1>1. PAGE \in Nat \ {0}
  BY BuddyConstants
<1> DEFINE z == y + PAGE - 1
           m == x * PAGE
<1>2. z \in Nat /\ m \in Nat /\ (x + 1) * PAGE = m + PAGE
  BY <1>1, SMT
<1>3. Up(y) \in Nat /\ (Up(y) <= x <=> z < (x + 1) * PAGE)
  BY <1>1, <1>2, Floors DEF Up
<1> HIDE DEF m
<1>4. z < (x + 1) * PAGE <=> y <= m
  BY <1>1, <1>2
<1>5. Up(y) <= x <=> y <= m
  BY <1>3, <1>4
<1>6. x < Up(y) <=> m < y
  BY <1>2, <1>3, <1>5
<1> QED BY <1>3, <1>5, <1>6 DEF m

LEMMA Addresses ==
  /\ buddy_size(LAST_LEV) = PAGE
  /\ MAX_PAGE_SIZE = Starts(LAST_LEV) * PAGE
  /\ \A p \in Int : Address(LAST_LEV, p) = (p - Starts(LAST_LEV)) * PAGE
<1>1. LAST_LEV \in Nat /\ LAST_LEV - LAST_LEV = 0 /\ LAST_LEV - 0 = LAST_LEV /\ PAGE \in Nat
  BY LevelTypes, BuddyConstants
<1>2. 2^0 = 1
  OBVIOUS
<1>3. buddy_size(LAST_LEV) = PAGE * 2^0
  BY <1>1 DEF buddy_size
<1>4. buddy_size(LAST_LEV) = PAGE
  BY <1>1, <1>2, <1>3
<1>5. MAX_PAGE_SIZE = PAGE * Starts(LAST_LEV) /\ Starts(LAST_LEV) \in Nat
  BY <1>1, Powers, LevelTypes DEF MAX_PAGE_SIZE, buddy_size, Starts
<1>6. PAGE * Starts(LAST_LEV) = Starts(LAST_LEV) * PAGE
  BY <1>1, <1>5, SMT
<1> QED BY <1>4, <1>5, <1>6 DEF Address

LEMMA RangeOf ==
  ASSUME NEW op \in Op, NEW r, r = WholePages(op)
  PROVE  /\ r[1] \in Nat /\ r[2] \in Int /\ r[2] < Starts(LAST_LEV)
         /\ \A p \in Pages :
              Meant(op, p) <=> r[1] <= p - Starts(LAST_LEV) /\ p - Starts(LAST_LEV) <= r[2]
<1> DEFINE S == Starts(LAST_LEV)
           end == Least(op.end, MAX_PAGE_SIZE)
           m == S * PAGE
<1>1. /\ S \in Nat \ {0} /\ PAGE \in Nat \ {0} /\ m \in Nat
      /\ op.start \in Nat /\ op.end \in Nat /\ MAX_PAGE_SIZE = m
      /\ end \in Nat /\ end = IF op.end <= m THEN op.end ELSE m
  <2>1. S \in Nat \ {0} /\ PAGE \in Nat \ {0} /\ op.start \in Nat /\ op.end \in Nat
        /\ MAX_PAGE_SIZE = m
    BY Powers, LevelTypes, BuddyConstants, Addresses DEF Op
  <2> HIDE DEF S
  <2>2. m \in Nat
    BY <2>1, SMT
  <2> HIDE DEF m
  <2> QED BY <2>1, <2>2 DEF Least
<1> HIDE DEF end
<1>2. ASSUME NEW p \in Pages
      PROVE  \E x \in Nat, u \in Nat, v \in Nat :
               /\ x = p - S /\ x < S /\ u = x * PAGE /\ v = (x + 1) * PAGE
               /\ Address(LAST_LEV, p) = u /\ Address(LAST_LEV, p + 1) = v
               /\ u < v /\ v <= m
  <2> DEFINE x == p - S
  <2>1. p \in Nat /\ S <= p /\ p <= 2 * S - 1
    BY PageTypes, <1>1
  <2>2. x \in Nat /\ x < S /\ x + 1 <= S /\ (p + 1) - S = x + 1
    BY <1>1, <2>1
  <2>3. Address(LAST_LEV, p) = x * PAGE /\ Address(LAST_LEV, p + 1) = (x + 1) * PAGE
    BY <2>1, <2>2, Addresses
  <2> HIDE DEF x, S
  <2>4. x * PAGE \in Nat /\ (x + 1) * PAGE \in Nat /\ x * PAGE < (x + 1) * PAGE
    BY <1>1, <2>2, SMT
  <2>5. (x + 1) * PAGE <= S * PAGE
    BY <1>1, <2>2, SMT
  <2> QED BY <2>2, <2>3, <2>4, <2>5 DEF x
<1> HIDE DEF S, m
<1>3. CASE op.start >= end
  <2>1. r = <<1, 0>>
    BY <1>3 DEF WholePages, end
  <2>2. ASSUME NEW p \in Pages PROVE ~Meant(op, p)
    <3>1. PICK x \in Nat, u \in Nat, v \in Nat :
               /\ Address(LAST_LEV, p) = u /\ Address(LAST_LEV, p + 1) = v
               /\ u < v /\ v <= m
      BY <1>2
    <3>2. ~(op.start <= u /\ v <= op.end) /\ ~(op.start < op.end /\ op.start < v /\ u < op.end)
      BY <1>1, <1>3, <3>1
    <3> QED BY <3>1, <3>2 DEF Meant, Within, Meets
  <2>3. \A p \in Pages : ~(1 <= p - S /\ p - S <= 0)
    BY <1>1, PageTypes
  <2> QED BY <1>1, <2>1, <2>2, <2>3 DEF S
<1>4. CASE op.start < end /\ op.operation = "reserve"
  <2>1. ~(op.start >= end)
    BY <1>1, <1>4
  <2>2. r = <<op.start \div PAGE, Up(end) - 1>>
    BY <1>4, <2>1 DEF WholePages, end
  <2>3. r[1] = op.start \div PAGE /\ r[2] = Up(end) - 1 /\ Up(end) \in Nat /\ r[1] \in Nat
    BY <1>1, <2>2, Ceilings, Floors
  <2>4. Up(end) <= S
    <3>1. end <= S * PAGE
      BY <1>1 DEF m
    <3> QED BY <1>1, <3>1, Ceilings
  <2>5. ASSUME NEW p \in Pages
        PROVE  Meant(op, p) <=> r[1] <= p - S /\ p - S <= r[2]
    <3>1. PICK x \in Nat, u \in Nat, v \in Nat :
               /\ x = p - S /\ x < S /\ u = x * PAGE /\ v = (x + 1) * PAGE
               /\ Address(LAST_LEV, p) = u /\ Address(LAST_LEV, p + 1) = v
               /\ u < v /\ v <= m
      BY <1>2
    <3>2. Meant(op, p) <=> op.start < op.end /\ op.start < v /\ u < op.end
      BY <1>4, <3>1 DEF Meant, Meets
    <3>3. (r[1] <= x <=> op.start < v) /\ (x < Up(end) <=> u < end)
      <4>1. op.start \div PAGE <= x <=> op.start < (x + 1) * PAGE
        BY <1>1, <3>1, Floors
      <4>2. x < Up(end) <=> x * PAGE < end
        BY <1>1, <3>1, Ceilings
      <4> QED BY <2>3, <3>1, <4>1, <4>2
    <3>4. op.start < op.end /\ (u < op.end <=> u < end)
      BY <1>1, <1>4, <3>1
    <3>5. x <= r[2] <=> x < Up(end)
      BY <2>3
    <3> QED BY <3>1, <3>2, <3>3, <3>4, <3>5
  <2>6. r[2] \in Int /\ r[2] < S
    BY <1>1, <2>3, <2>4
  <2> QED BY <2>3, <2>5, <2>6 DEF S
<1>5. CASE op.start < end /\ op.operation # "reserve"
  <2>1. ~(op.start >= end)
    BY <1>1, <1>5
  <2>2. r = <<Up(op.start), end \div PAGE - 1>>
    BY <1>5, <2>1 DEF WholePages, end
  <2>3. r[1] = Up(op.start) /\ r[2] = end \div PAGE - 1 /\ end \div PAGE \in Nat /\ r[1] \in Nat
    BY <1>1, <2>2, Ceilings, Floors
  <2>4. end \div PAGE <= S
    <3>1. end < (S + 1) * PAGE
      BY <1>1, SMT DEF m
    <3> QED BY <1>1, <3>1, Floors
  <2>5. ASSUME NEW p \in Pages
        PROVE  Meant(op, p) <=> r[1] <= p - S /\ p - S <= r[2]
    <3>1. PICK x \in Nat, u \in Nat, v \in Nat :
               /\ x = p - S /\ x < S /\ u = x * PAGE /\ v = (x + 1) * PAGE
               /\ Address(LAST_LEV, p) = u /\ Address(LAST_LEV, p + 1) = v
               /\ u < v /\ v <= m
      BY <1>2
    <3>2. Meant(op, p) <=> op.start <= u /\ v <= op.end
      BY <1>5, <3>1 DEF Meant, Within
    <3>3. (r[1] <= x <=> op.start <= u) /\ (x < end \div PAGE <=> v <= end)
      <4>1. Up(op.start) <= x <=> op.start <= x * PAGE
        BY <1>1, <3>1, Ceilings
      <4>2. x < end \div PAGE <=> (x + 1) * PAGE <= end
        BY <1>1, <3>1, Floors
      <4> QED BY <2>3, <3>1, <4>1, <4>2
    <3>4. v <= op.end <=> v <= end
      BY <1>1, <3>1
    <3>5. x <= r[2] <=> x < end \div PAGE
      BY <2>3
    <3> QED BY <3>1, <3>2, <3>3, <3>4, <3>5
  <2>6. r[2] \in Int /\ r[2] < S
    BY <1>1, <2>3, <2>4
  <2> QED BY <2>3, <2>5, <2>6 DEF S
<1>6. op.start >= end \/ op.start < end
  BY <1>1
<1> QED BY <1>3, <1>4, <1>5, <1>6

(* The free pages after an operation on the pages T.                       *)
Marks(F, op, T) == IF op.operation = "reserve" THEN F \ T ELSE F \cup T

LEMMA MarkOne ==
  ASSUME NEW al, ListsOK(al), NEW op \in Op, NEW p \in Pages
  PROVE  Becomes(mark_one(al, op, p), al, Marks(FreeSet(al), op, {p}))
<1>1. /\ p \in OnLevel(LAST_LEV) /\ LAST_LEV \in Levels /\ p \in Blocks
      /\ al.free[p] \in BOOLEAN /\ (al.free[p] <=> p \in FreeSet(al))
  BY LevelTypes, PageTypes, FreeTypes DEF Pages, ListsOK, Allocators
<1>2. op.operation = "reserve" \/ op.operation = "available"
  BY DEF Op
<1>3. Becomes(al, al, FreeSet(al))
  BY DEF Becomes
<1>4. CASE al.free[p] /\ op.operation = "reserve"
  <2>1. mark_one(al, op, p) = remove_one(al, LAST_LEV, p)
    BY <1>4 DEF mark_one
  <2> QED BY <1>1, <1>4, <2>1, RemoveOne DEF Marks
<1>5. CASE ~al.free[p] /\ op.operation = "available"
  <2>1. mark_one(al, op, p) = add_one(al, LAST_LEV, p)
    BY <1>5 DEF mark_one
  <2> QED BY <1>1, <1>5, <2>1, AddOne DEF Marks
<1>6. CASE al.free[p] /\ op.operation = "available"
  <2>1. mark_one(al, op, p) = al
    BY <1>6 DEF mark_one
  <2>2. FreeSet(al) \cup {p} = FreeSet(al)
    BY <1>1, <1>6
  <2> QED BY <1>3, <1>6, <2>1, <2>2 DEF Marks
<1>7. CASE ~al.free[p] /\ op.operation = "reserve"
  <2>1. mark_one(al, op, p) = al
    BY <1>7 DEF mark_one
  <2>2. FreeSet(al) \ {p} = FreeSet(al)
    BY <1>1, <1>7
  <2> QED BY <1>3, <1>7, <2>1, <2>2 DEF Marks
<1> QED BY <1>2, <1>4, <1>5, <1>6, <1>7

(* The loop over the pages of an operation, from the page first on.        *)
Marked(al, op, first, k) ==
  {r \in Allocators : Becomes(r, al, Marks(FreeSet(al), op, first..(first + k - 1)))}

Count(op) == LET range == WholePages(op)
             IN  IF range[2] < range[1] THEN 0 ELSE range[2] - range[1] + 1

MarkTurns(al, op) ==
  CHOOSE turn : turn = [k \in 0..Count(op) |->
    IF k = 0 THEN al
    ELSE mark_one(turn[k-1], op, Starts(LAST_LEV) + WholePages(op)[1] + k - 1)]

LEMMA MarkFor ==
  ASSUME NEW al, ListsOK(al), NEW op \in Op
  PROVE  Becomes(mark_for_init(al, op), al,
                 Marks(FreeSet(al), op, {p \in Pages : Meant(op, p)}))
<1> DEFINE S == Starts(LAST_LEV)
           range == WholePages(op)
           first == S + range[1]
           n == Count(op)
           Ok == [k \in 0..n |-> Marked(al, op, first, k)]
           Body(k, x) == mark_one(x, op, S + range[1] + k - 1)
           step == [k \in 1..n |-> [x \in Ok[k-1] |-> Body(k, x)]]
           Is(f) == f = [k \in 0..n |-> IF k = 0 THEN al ELSE Body(k, f[k-1])]
           turn == MarkTurns(al, op)
<1>1. /\ S \in Nat /\ range[1] \in Nat /\ range[2] \in Int /\ range[2] < S
      /\ n = (IF range[2] < range[1] THEN 0 ELSE range[2] - range[1] + 1)
      /\ \A p \in Pages : Meant(op, p) <=> range[1] <= p - S /\ p - S <= range[2]
  <2>1. S \in Nat
    BY Powers, LevelTypes
  <2> QED BY <2>1, RangeOf DEF Count
<1> HIDE DEF range, S, n
<1>2. n \in Nat /\ 0 \in 0..n /\ n \in 0..n /\ first \in Nat
  BY <1>1
<1>3. \A k \in 1..n : first + k - 1 \in Pages /\ S + range[1] + k - 1 = first + k - 1
  <2> TAKE k \in 1..n
  <2> DEFINE x == range[1]
             y == range[2]
             z == S + x + k - 1
  <2>1. /\ x \in Nat /\ y \in Int /\ y < S /\ S \in Nat /\ k \in Nat /\ 1 <= k
        /\ k <= IF y < x THEN 0 ELSE y - x + 1
    BY <1>1, <1>2
  <2> HIDE DEF x, y
  <2>2. S <= z /\ z <= 2 * S - 1 /\ z \in Int /\ (S + x) + k - 1 = z
    BY <2>1
  <2>3. z \in Pages
    BY <2>1, <2>2, PageTypes DEF S
  <2> QED BY <2>2, <2>3 DEF x
<1>4. {p \in Pages : Meant(op, p)} = first..(first + n - 1)
  <2>1. ASSUME NEW p \in Pages, Meant(op, p) PROVE p \in first..(first + n - 1)
    <3>1. p \in Nat /\ range[1] <= p - S /\ p - S <= range[2]
      BY <1>1, <2>1, PageTypes
    <3> QED BY <1>1, <3>1
  <2>2. ASSUME NEW p \in first..(first + n - 1) PROVE p \in Pages /\ Meant(op, p)
    <3> DEFINE k == p - first + 1
    <3>1. k \in 1..n /\ p = first + k - 1
      BY <1>2
    <3>2. p \in Pages
      BY <1>3, <3>1
    <3>3. range[1] <= p - S /\ p - S <= range[2]
      BY <1>1, <3>1
    <3> QED BY <1>1, <3>2, <3>3
  <2> HIDE DEF first
  <2> QED BY <2>1, <2>2
<1> HIDE DEF first
<1>5. al \in Ok[0]
  <2>1. first..(first + 0 - 1) = {}
    BY <1>2
  <2>2. Marks(FreeSet(al), op, {}) = FreeSet(al)
    BY DEF Marks
  <2>3. al \in Marked(al, op, first, 0)
    BY <2>1, <2>2 DEF Marked, Becomes, ListsOK
  <2> QED BY <1>2, <2>3
<1>6. ASSUME NEW k \in 1..n, NEW x \in Ok[k-1] PROVE Body(k, x) \in Ok[k]
  <2> DEFINE p == first + k - 1
             F == FreeSet(al)
             T == first..(first + (k-1) - 1)
             y == mark_one(x, op, p)
  <2>1. k-1 \in 0..n /\ k \in 0..n /\ p \in Pages /\ Body(k, x) = y
    BY <1>2, <1>3
  <2>2. x \in Marked(al, op, first, k-1)
    BY <2>1
  <2>3. Becomes(x, al, Marks(F, op, T))
    BY <2>2 DEF Marked
  <2>4. first..(first + k - 1) = T \cup {p}
    BY <1>2
  <2> HIDE DEF p, T, F, y
  <2>5. Becomes(y, x, Marks(FreeSet(x), op, {p}))
    BY <2>1, <2>3, MarkOne DEF Becomes, y
  <2>6. Marks(Marks(F, op, T), op, {p}) = Marks(F, op, T \cup {p})
    BY DEF Marks
  <2>7. Becomes(y, al, Marks(F, op, T \cup {p}))
    BY <2>3, <2>5, <2>6 DEF Becomes
  <2>8. y \in Marked(al, op, first, k)
    BY <2>4, <2>7 DEF Marked, Becomes, ListsOK, F
  <2> QED BY <2>1, <2>8
<1> HIDE DEF Ok, Body
<1>7. \E f : Is(f)
  <2>1. \A k \in 1..n : \A x \in Ok[k-1] : step[k][x] = Body(k, x)
    OBVIOUS
  <2>2. \A k \in 1..n : \A x \in Ok[k-1] : step[k][x] \in Ok[k]
    BY <1>6, <2>1
  <2> HIDE DEF step
  <2>3. PICK f : IsLoop(f, n, al, step) /\ \A k \in 0..n : f[k] \in Ok[k]
    BY <1>2, <1>5, <2>2, Recursion
  <2>4. ASSUME NEW k \in 0..n
        PROVE  (IF k = 0 THEN al ELSE step[k][f[k-1]]) = IF k = 0 THEN al ELSE Body(k, f[k-1])
    <3>1. k # 0 => k \in 1..n /\ k-1 \in 0..n
      BY <1>2
    <3> QED BY <2>1, <2>3, <3>1
  <2>5. f = [k \in 0..n |-> IF k = 0 THEN al ELSE step[k][f[k-1]]]
    BY <2>3 DEF IsLoop
  <2>6. Is(f)
    BY <2>4, <2>5
  <2> QED BY <2>6
<1>8. Is(turn)
  <2>1. turn = CHOOSE f : Is(f)
    BY DEF MarkTurns, Body, n, S, range
  <2> HIDE DEF Is, turn
  <2> QED BY <1>7, <2>1
<1> HIDE DEF turn
<1>9. turn[0] = al /\ \A k \in 1..n : turn[k] = Body(k, turn[k-1])
  <2>1. turn = [k \in 0..n |-> IF k = 0 THEN al ELSE Body(k, turn[k-1])]
    BY <1>8
  <2>2. turn[0] = al
    BY <1>2, <2>1
  <2>3. ASSUME NEW k \in 1..n PROVE turn[k] = Body(k, turn[k-1])
    <3>1. k \in 0..n /\ k # 0
      BY <1>2
    <3> QED BY <2>1, <3>1
  <2> QED BY <2>2, <2>3
<1>10. \A k \in 0..n : turn[k] \in Ok[k]
  BY <1>2, <1>5, <1>6, <1>9, Turns
<1>11. mark_for_init(al, op) = turn[n]
  BY DEF mark_for_init, turn, MarkTurns, n, Count
<1>12. turn[n] \in Marked(al, op, first, n)
  BY <1>2, <1>10 DEF Ok
<1> QED BY <1>4, <1>11, <1>12 DEF Marked

-----------------------------------------------------------------------------
(* All operations: the pages that the first k of them leave free.          *)

Upto(o, k) ==
  {p \in Pages :
     \E j \in 1..k :
       /\ o[j].operation = "available" /\ Within(o[j], p)
       /\ \A m \in 1..k : m > j => ~(o[m].operation = "reserve" /\ Meets(o[m], p))}

LEMMA UptoNext ==
  ASSUME NEW o, NEW k \in Nat, o[k+1] \in Op
  PROVE  Upto(o, k+1) = Marks(Upto(o, k), o[k+1], {p \in Pages : Meant(o[k+1], p)})
<1> DEFINE op == o[k+1]
           T == {p \in Pages : Meant(op, p)}
           n == k+1
<1>1. /\ \A j \in 1..n : j \in 1..k \/ j = n
      /\ \A j \in 1..k : j \in 1..n /\ j < n /\ ~(j > n)
      /\ n \in 1..n /\ ~(n > n)
  OBVIOUS
<1>2. op.operation = "reserve" \/ op.operation = "available"
  BY DEF Op
<1> HIDE DEF n
<1>3. CASE op.operation = "reserve"
  <2>1. ASSUME NEW p \in Pages
        PROVE  p \in Upto(o, n) <=> p \in Upto(o, k) /\ ~Meets(op, p)
    BY <1>1, <1>3 DEF Upto, n
  <2>2. T = {p \in Pages : Meets(op, p)}
    BY <1>3 DEF Meant
  <2>3. Upto(o, n) \subseteq Pages /\ Upto(o, k) \subseteq Pages
    BY DEF Upto
  <2>4. Upto(o, n) = Upto(o, k) \ T
    BY <2>1, <2>2, <2>3
  <2> QED BY <1>3, <2>4 DEF Marks, n
<1>4. CASE op.operation = "available"
  <2>0. op.operation # "reserve"
    BY <1>4
  <2>1. ASSUME NEW p \in Pages
        PROVE  p \in Upto(o, n) <=> p \in Upto(o, k) \/ Within(op, p)
    BY <1>1, <1>4, <2>0 DEF Upto, n
  <2>2. T = {p \in Pages : Within(op, p)}
    BY <2>0 DEF Meant
  <2>3. Upto(o, n) \subseteq Pages /\ Upto(o, k) \subseteq Pages
    BY DEF Upto
  <2>4. Upto(o, n) = Upto(o, k) \cup T
    BY <2>1, <2>2, <2>3
  <2> QED BY <2>0, <2>4 DEF Marks, n
<1> QED BY <1>2, <1>3, <1>4

LEMMA NothingYet ==
  /\ ListsOK(Unavailable) /\ FreeSet(Unavailable) = {}
  /\ Unavailable.allocated_level = [p \in Pages |-> BUDDY_LEVELS]
  /\ Unavailable.died = "no"
<1> DEFINE r == Unavailable
<1>1. /\ r \in Allocators
      /\ r.free = [b \in Blocks |-> FALSE] /\ r.prev = [b \in Blocks |-> None]
      /\ r.next = [b \in Blocks |-> None] /\ r.firsts = [lev \in Levels |-> None]
      /\ r.allocated_level = [p \in Pages |-> BUDDY_LEVELS] /\ r.died = "no"
  BY DEF Unavailable, Allocators
<1> HIDE DEF r
<1>2. ASSUME NEW lev \in Levels PROVE Row(r, lev, <<>>)
  <2>1. /\ <<>> \in Seq(Blocks) /\ Len(<<>>) = 0 /\ 1..0 = {}
    OBVIOUS
  <2>2. Members(<<>>) = {} /\ Distinct(<<>>) /\ Nth(<<>>, 1, None) = None
    BY <2>1 DEF Members, Distinct, Nth
  <2>3. r.firsts[lev] = None
    BY <1>1
  <2>4. FreeOn(r, lev) = {}
    BY <1>1, BlockTypes DEF FreeOn
  <2> QED BY <2>1, <2>2, <2>3, <2>4 DEF Row, LineIs
<1>3. Idle(r) /\ FreeSet(r) = {}
  BY <1>1 DEF Idle, FreeSet
<1> QED BY <1>1, <1>2, <1>3 DEF ListsOK, r

AllMarked(o, k) == {r \in Allocators : Becomes(r, Unavailable, Upto(o, k))}

OpTurns(o) ==
  CHOOSE turn : turn = [k \in 0..Len(o) |->
    IF k = 0 THEN Unavailable ELSE mark_for_init(turn[k-1], o[k])]

LEMMA MarkAll ==
  ASSUME NEW o \in Seq(Op)
  PROVE  Becomes(mark_all(o), Unavailable, Upto(o, Len(o)))
<1> DEFINE n == Len(o)
           al == Unavailable
           Ok == [k \in 0..n |-> AllMarked(o, k)]
           Body(k, x) == mark_for_init(x, o[k])
           step == [k \in 1..n |-> [x \in Ok[k-1] |-> Body(k, x)]]
           Is(f) == f = [k \in 0..n |-> IF k = 0 THEN al ELSE Body(k, f[k-1])]
           turn == OpTurns(o)
<1>1. n \in Nat /\ 0 \in 0..n /\ n \in 0..n
  OBVIOUS
<1> HIDE DEF n
<1>2. al \in Ok[0]
  <2>1. Upto(o, 0) = {}
    BY DEF Upto
  <2>2. al \in AllMarked(o, 0)
    BY <2>1, NothingYet DEF AllMarked, Becomes, ListsOK
  <2> QED BY <1>1, <2>2
<1>3. ASSUME NEW k \in 1..n, NEW x \in Ok[k-1] PROVE Body(k, x) \in Ok[k]
  <2> DEFINE T == {p \in Pages : Meant(o[k], p)}
             y == Body(k, x)
  <2>1. k-1 \in 0..n /\ k \in 0..n /\ k-1 \in Nat /\ (k-1)+1 = k
    BY <1>1
  <2>2. o[k] \in Op
    BY DEF n
  <2>3. x \in AllMarked(o, k-1)
    BY <2>1
  <2>4. Becomes(x, al, Upto(o, k-1))
    BY <2>3 DEF AllMarked
  <2>5. Becomes(y, x, Marks(FreeSet(x), o[k], T))
    BY <2>2, <2>4, MarkFor DEF Becomes
  <2>6. Upto(o, k) = Marks(Upto(o, k-1), o[k], T)
    BY <2>1, <2>2, UptoNext
  <2> HIDE DEF T, y
  <2>7. Becomes(y, al, Upto(o, k))
    BY <2>4, <2>5, <2>6 DEF Becomes
  <2>8. y \in AllMarked(o, k)
    BY <2>7 DEF AllMarked, Becomes, ListsOK
  <2> QED BY <2>1, <2>8 DEF y
<1> HIDE DEF Ok, Body, al
<1>4. \E f : Is(f)
  <2>1. \A k \in 1..n : \A x \in Ok[k-1] : step[k][x] = Body(k, x)
    OBVIOUS
  <2>2. \A k \in 1..n : \A x \in Ok[k-1] : step[k][x] \in Ok[k]
    BY <1>3, <2>1
  <2> HIDE DEF step
  <2>3. PICK f : IsLoop(f, n, al, step) /\ \A k \in 0..n : f[k] \in Ok[k]
    BY <1>1, <1>2, <2>2, Recursion
  <2>4. ASSUME NEW k \in 0..n
        PROVE  (IF k = 0 THEN al ELSE step[k][f[k-1]]) = IF k = 0 THEN al ELSE Body(k, f[k-1])
    <3>1. k # 0 => k \in 1..n /\ k-1 \in 0..n
      BY <1>1
    <3> QED BY <2>1, <2>3, <3>1
  <2>5. f = [k \in 0..n |-> IF k = 0 THEN al ELSE step[k][f[k-1]]]
    BY <2>3 DEF IsLoop
  <2>6. Is(f)
    BY <2>4, <2>5
  <2> QED BY <2>6
<1>5. Is(turn)
  <2>1. turn = CHOOSE f : Is(f)
    BY DEF OpTurns, Body, n, al
  <2> HIDE DEF Is, turn
  <2> QED BY <1>4, <2>1
<1> HIDE DEF turn
<1>6. turn[0] = al /\ \A k \in 1..n : turn[k] = Body(k, turn[k-1])
  <2>1. turn = [k \in 0..n |-> IF k = 0 THEN al ELSE Body(k, turn[k-1])]
    BY <1>5
  <2>2. turn[0] = al
    BY <1>1, <2>1
  <2>3. ASSUME NEW k \in 1..n PROVE turn[k] = Body(k, turn[k-1])
    <3>1. k \in 0..n /\ k # 0
      BY <1>1
    <3> QED BY <2>1, <3>1
  <2> QED BY <2>2, <2>3
<1>7. \A k \in 0..n : turn[k] \in Ok[k]
  BY <1>1, <1>2, <1>3, <1>6, Turns
<1>8. mark_all(o) = turn[n]
  BY DEF mark_all, turn, OpTurns, n
<1>9. turn[n] \in AllMarked(o, n)
  BY <1>1, <1>7 DEF Ok
<1> QED BY <1>8, <1>9 DEF AllMarked, n

LEMMA UsableIs ==
  ASSUME ops \in Seq(Op)
  PROVE  Usable = Upto(ops, Len(ops))
<1>1. DOMAIN ops = 1..Len(ops)
  OBVIOUS
<1> QED BY <1>1 DEF Usable, Upto, Within, Meets

LEMMA InitIs ==
  ASSUME NEW o \in Seq(Op), NEW U, U = Upto(o, Len(o))
  PROVE  /\ ListsOK(buddy_init(o)) /\ Tiling(FreeSet(buddy_init(o)), U)
         /\ Pairs(FreeSet(buddy_init(o))) = {}
         /\ buddy_init(o).allocated_level = [p \in Pages |-> BUDDY_LEVELS]
         /\ buddy_init(o).died = "no"
<1> DEFINE al == mark_all(o)
<1>1. Becomes(al, Unavailable, U)
  BY MarkAll
<1>2. U \subseteq Pages
  BY DEF Upto
<1> HIDE DEF al
<1>3. Merges(al, al, U)
  BY <1>1, <1>2, PagesTile DEF Merges, Becomes
<1>4. Merges(merge_all(al), al, U) /\ Pairs(FreeSet(merge_all(al))) = {}
  BY <1>3, MergeAll
<1>5. buddy_init(o) = merge_all(al)
  BY DEF buddy_init, al
<1> QED BY <1>1, <1>4, <1>5, NothingYet DEF Merges, Becomes

-----------------------------------------------------------------------------
(* The recursion of try_merge_rec: the blocks above i.                     *)

LEMMA UpTheTree ==
  ASSUME NEW lev \in Levels, NEW i \in OnLevel(lev)
  PROVE  /\ i \div 2^0 = i
         /\ \A k \in 0..lev : /\ lev-k \in Levels /\ i \div 2^k \in OnLevel(lev-k)
                              /\ (i \div 2^k) \div 2 = i \div 2^(k+1)
<1>1. i \in Nat /\ lev \in Nat
  BY BlockTypes, Powers
<1>2. i \div 2^0 = i
  <2>1. 2^0 = 1
    OBVIOUS
  <2>2. i \div 1 = i
    BY <1>1
  <2> QED BY <2>1, <2>2
<1>3. ASSUME NEW k \in Nat PROVE (i \div 2^k) \div 2 = i \div 2^(k+1)
  <2> DEFINE w == 2^k
  <2>1. w \in Nat \ {0} /\ 2^(k+1) = 2 * w
    BY PowerStep
  <2> HIDE DEF w
  <2>2. i \div (2 * w) = (i \div w) \div 2
    BY <1>1, <2>1, HalfQuotient
  <2> QED BY <2>1, <2>2 DEF w
<1> DEFINE S == {k \in Nat : k <= lev => lev-k \in Levels /\ i \div 2^k \in OnLevel(lev-k)}
<1>4. 0 \in S
  <2>1. lev - 0 = lev
    BY <1>1
  <2> QED BY <1>2, <2>1
<1>5. ASSUME NEW k \in Nat, k \in S PROVE k+1 \in S
  <2> SUFFICES ASSUME k+1 <= lev
      PROVE  lev-(k+1) \in Levels /\ i \div 2^(k+1) \in OnLevel(lev-(k+1))
    OBVIOUS
  <2>1. /\ lev-k \in Levels /\ lev-k # 0 /\ i \div 2^k \in OnLevel(lev-k)
        /\ lev-(k+1) = (lev-k)-1
    BY <1>1, <1>5
  <2>2. (lev-k)-1 \in Levels /\ (i \div 2^k) \div 2 \in OnLevel((lev-k)-1)
    BY <2>1, Parents
  <2> QED BY <1>3, <2>1, <2>2
<1>6. Nat \subseteq S
  <2> HIDE DEF S
  <2> QED BY <1>4, <1>5, SetInduction
<1>7. \A k \in 0..lev : k \in Nat /\ k <= lev
  OBVIOUS
<1> QED BY <1>2, <1>3, <1>6, <1>7

(* What a call may do to the free blocks while G are handed out.           *)
Keeps(r, al, G, U) ==
  /\ ListsOK(r)
  /\ FreeSet(r) \cap G = {} /\ Tiling(FreeSet(r) \cup G, U)
  /\ r.allocated_level = al.allocated_level /\ r.died = al.died

(* After k calls of the recursion, which goes on or has stopped.           *)
Climbed(al, G, U, lev, i, k) ==
  {x \in [al : Allocators, more : BOOLEAN] :
     /\ Keeps(x.al, al, G, U)
     /\ x.more => /\ k <= lev /\ i \div 2^k \in FreeSet(x.al)
                  /\ Pairs(FreeSet(x.al)) \subseteq {i \div 2^(k+1)}
     /\ ~x.more => Pairs(FreeSet(x.al)) = {}}

LEMMA ClimbTurn ==
  ASSUME NEW al, NEW G, NEW U, NEW lev \in Levels, NEW i \in OnLevel(lev),
         NEW k \in 1..(lev+1), NEW x \in Climbed(al, G, U, lev, i, k-1)
  PROVE  MergeUp(x, lev - (k-1), i \div 2^(k-1)) \in Climbed(al, G, U, lev, i, k)
<1> DEFINE l == lev - (k-1)
           j == i \div 2^(k-1)
           h == i \div 2^k
           r == x.al
           F == FreeSet(r)
           y == MergeUp(x, l, j)
<1>1. /\ x \in [al : Allocators, more : BOOLEAN] /\ Keeps(r, al, G, U)
      /\ k-1 \in 0..lev /\ (k-1)+1 = k /\ k \in Nat /\ lev \in Nat
  BY Powers DEF Climbed
<1>2. l \in Levels /\ j \in OnLevel(l) /\ j \div 2 = h
  BY <1>1, UpTheTree
<1>3. CASE ~x.more
  <2>1. y = x
    BY <1>1, <1>3 DEF MergeUp
  <2>2. x \in Climbed(al, G, U, lev, i, k)
    BY <1>3 DEF Climbed
  <2> QED BY <2>1, <2>2
<1>4. ASSUME x.more PROVE Pairs(F) \subseteq {h} /\ ListsOK(r)
  BY <1>1, <1>4 DEF Climbed, Keeps
<1> HIDE DEF h, j, l
<1>5. CASE x.more /\ l # 0 /\ 2*h \in F /\ 2*h + 1 \in F
  <2> DEFINE F2 == (F \ {2*h, 2*h + 1}) \cup {h}
             r2 == try_merge_one(r, l, j)
  <2>1. /\ l-1 \in Levels /\ l-1 # LAST_LEV /\ h \in OnLevel(l-1) /\ h \in Nat \ {0}
    BY <1>2, <1>5, Parents, BlockTypes
  <2>2. k <= lev /\ k \in 0..lev
    BY <1>1, <1>5 DEF l
  <2>3. /\ h \notin F \cup G
        /\ Tiling(((F \cup G) \ {2*h, 2*h + 1}) \cup {h}, U)
    BY <1>1, <1>5, <2>1, Join DEF Keeps
  <2>4. ((F \cup G) \ {2*h, 2*h + 1}) \cup {h} = F2 \cup G
    BY <1>1, <1>5 DEF Keeps
  <2>5. Mergeable(r, l, j) /\ Becomes(r2, r, F2)
    BY <1>2, <1>4, <1>5, <2>3, MergeOne
  <2>6. Pairs(F2) \subseteq (Pairs(F) \ {h}) \cup {h \div 2}
    BY <2>1, PairsJoin
  <2>7. h \div 2 = i \div 2^(k+1)
    BY <2>2, UpTheTree DEF h
  <2>8. y = [al |-> r2, more |-> TRUE]
    <3>1. y = [x EXCEPT !.al = try_merge_one(@, l, j)]
      BY <1>5, <2>5 DEF MergeUp
    <3> QED BY <1>1, <1>5, <3>1
  <2> HIDE DEF r2, F2, F, y
  <2>9. Keeps(r2, al, G, U)
    <3>1. F2 \cap G = {}
      BY <1>1, <2>3 DEF Keeps, F2, F
    <3> QED BY <1>1, <2>3, <2>4, <2>5, <3>1 DEF Keeps, Becomes
  <2>10. FreeSet(r2) = F2 /\ r2 \in Allocators
    BY <2>5 DEF Becomes, ListsOK
  <2>11. h \in F2 /\ Pairs(F2) \subseteq {i \div 2^(k+1)}
    BY <1>4, <1>5, <2>6, <2>7 DEF F2
  <2>12. [al |-> r2, more |-> TRUE] \in Climbed(al, G, U, lev, i, k)
    BY <2>2, <2>9, <2>10, <2>11 DEF Climbed, h
  <2> QED BY <2>8, <2>12 DEF y, l, j
<1>6. CASE x.more /\ (l = 0 \/ ~(2*h \in F /\ 2*h + 1 \in F))
  <2>1. ~Mergeable(r, l, j)
    BY <1>2, <1>4, <1>6, MergeNone
  <2>2. h \notin Pairs(F)
    <3>1. CASE l = 0
      <4>1. j = 1
        BY <1>2, <3>1, PowersEnd DEF OnLevel
      <4>2. h = 0
        BY <1>2, <4>1
      <4> QED BY <4>2 DEF Pairs, Blocks
    <3>2. CASE ~(2*h \in F /\ 2*h + 1 \in F)
      BY <3>2 DEF Pairs
    <3> QED BY <1>6, <3>1, <3>2
  <2>3. y = [al |-> r, more |-> FALSE]
    <3>1. y = [x EXCEPT !.more = FALSE]
      BY <2>1 DEF MergeUp
    <3> QED BY <1>1, <3>1
  <2>4. Pairs(F) = {}
    BY <1>4, <1>6, <2>2
  <2> HIDE DEF y
  <2>5. [al |-> r, more |-> FALSE] \in Climbed(al, G, U, lev, i, k)
    BY <1>1, <2>4 DEF Climbed
  <2> QED BY <2>3, <2>5 DEF y, l, j
<1> QED BY <1>3, <1>5, <1>6 DEF l, j

Calls(al, lev, i) ==
  CHOOSE call : call = [k \in 0..(lev+1) |->
    IF k = 0 THEN [al |-> al, more |-> TRUE]
    ELSE MergeUp(call[k-1], lev - (k-1), i \div 2^(k-1))]

LEMMA MergeRec ==
  ASSUME NEW al, NEW G, NEW U, Keeps(al, al, G, U),
         NEW lev \in Levels, NEW i \in OnLevel(lev), i \in FreeSet(al),
         Pairs(FreeSet(al)) \subseteq {i \div 2}
  PROVE  /\ Keeps(try_merge_rec(al, lev, i), al, G, U)
         /\ Pairs(FreeSet(try_merge_rec(al, lev, i))) = {}
<1> DEFINE n == lev+1
           start == [al |-> al, more |-> TRUE]
           Ok == [k \in 0..n |-> Climbed(al, G, U, lev, i, k)]
           Body(k, x) == MergeUp(x, lev - (k-1), i \div 2^(k-1))
           step == [k \in 1..n |-> [x \in Ok[k-1] |-> Body(k, x)]]
           Is(f) == f = [k \in 0..n |-> IF k = 0 THEN start ELSE Body(k, f[k-1])]
           call == Calls(al, lev, i)
<1>1. lev \in Nat /\ n \in Nat /\ 0 \in 0..n /\ n \in 0..n /\ ~(n <= lev) /\ 0 \in 0..lev
  BY Powers
<1>2. start \in Ok[0]
  <2>1. i \div 2^0 = i /\ (i \div 2^0) \div 2 = i \div 2^(0+1)
    BY <1>1, UpTheTree
  <2>2. Pairs(FreeSet(al)) \subseteq {i \div 2^(0+1)} /\ i \div 2^0 \in FreeSet(al) /\ 0 <= lev
    BY <1>1, <2>1
  <2>3. start \in [al : Allocators, more : BOOLEAN]
    BY DEF Keeps, ListsOK
  <2>4. start \in Climbed(al, G, U, lev, i, 0)
    BY <2>2, <2>3 DEF Climbed
  <2> QED BY <1>1, <2>4
<1> HIDE DEF n
<1>3. ASSUME NEW k \in 1..n, NEW x \in Ok[k-1] PROVE Body(k, x) \in Ok[k]
  <2>1. k-1 \in 0..n /\ k \in 0..n /\ k \in 1..(lev+1)
    BY <1>1 DEF n
  <2>2. x \in Climbed(al, G, U, lev, i, k-1)
    BY <2>1
  <2>3. Body(k, x) \in Climbed(al, G, U, lev, i, k)
    BY <2>1, <2>2, ClimbTurn
  <2> QED BY <2>1, <2>3
<1> HIDE DEF Ok, Body, start
<1>4. \E f : Is(f)
  <2>1. \A k \in 1..n : \A x \in Ok[k-1] : step[k][x] = Body(k, x)
    OBVIOUS
  <2>2. \A k \in 1..n : \A x \in Ok[k-1] : step[k][x] \in Ok[k]
    BY <1>3, <2>1
  <2> HIDE DEF step
  <2>3. PICK f : IsLoop(f, n, start, step) /\ \A k \in 0..n : f[k] \in Ok[k]
    BY <1>1, <1>2, <2>2, Recursion
  <2>4. ASSUME NEW k \in 0..n
        PROVE  (IF k = 0 THEN start ELSE step[k][f[k-1]]) = IF k = 0 THEN start ELSE Body(k, f[k-1])
    <3>1. k # 0 => k \in 1..n /\ k-1 \in 0..n
      BY <1>1
    <3> QED BY <2>1, <2>3, <3>1
  <2>5. f = [k \in 0..n |-> IF k = 0 THEN start ELSE step[k][f[k-1]]]
    BY <2>3 DEF IsLoop
  <2>6. Is(f)
    BY <2>4, <2>5
  <2> QED BY <2>6
<1>5. Is(call)
  <2>1. call = CHOOSE f : Is(f)
    BY DEF Calls, Body, n, start
  <2> HIDE DEF Is, call
  <2> QED BY <1>4, <2>1
<1> HIDE DEF call
<1>6. call[0] = start /\ \A k \in 1..n : call[k] = Body(k, call[k-1])
  <2>1. call = [k \in 0..n |-> IF k = 0 THEN start ELSE Body(k, call[k-1])]
    BY <1>5
  <2>2. call[0] = start
    BY <1>1, <2>1
  <2>3. ASSUME NEW k \in 1..n PROVE call[k] = Body(k, call[k-1])
    <3>1. k \in 0..n /\ k # 0
      BY <1>1
    <3> QED BY <2>1, <3>1
  <2> QED BY <2>2, <2>3
<1>7. \A k \in 0..n : call[k] \in Ok[k]
  BY <1>1, <1>2, <1>3, <1>6, Turns
<1>8. try_merge_rec(al, lev, i) = call[n].al
  BY DEF try_merge_rec, call, Calls, n
<1>9. call[n] \in Climbed(al, G, U, lev, i, n)
  BY <1>1, <1>7 DEF Ok
<1> QED BY <1>1, <1>8, <1>9 DEF Climbed

-----------------------------------------------------------------------------
(* The blocks handed out, and taking one.                                  *)

Given(alv) == {i \in Blocks : \E l \in Levels : i \in OnLevel(l) /\ alv[FirstPage(l, i)] = l}

(* A page remembers the level only of a block that it is the first of.     *)
AllocOK(alv) ==
  /\ alv \in [Pages -> Levels \cup {BUDDY_LEVELS}]
  /\ \A p \in Pages : alv[p] # BUDDY_LEVELS => FirstPage(alv[p], Anc(alv[p], p)) = p

LEMMA GivenAt ==
  ASSUME NEW alv, NEW lev \in Levels, NEW i \in OnLevel(lev)
  PROVE  i \in Given(alv) <=> alv[FirstPage(lev, i)] = lev
BY BlockTypes DEF Given

LEMMA GivenOf ==
  ASSUME NEW alv, AllocOK(alv), NEW p \in Pages, NEW l, l = alv[p], l # BUDDY_LEVELS
  PROVE  /\ l \in Levels /\ Anc(l, p) \in OnLevel(l) /\ FirstPage(l, Anc(l, p)) = p
         /\ Anc(l, p) \in Given(alv) /\ Anc(l, p) \in Above(p)
<1>1. l \in Levels /\ FirstPage(l, Anc(l, p)) = p
  BY DEF AllocOK
<1>2. Anc(l, p) \in OnLevel(l)
  BY <1>1, AncBlock
<1>3. Anc(l, p) \in Given(alv)
  BY <1>1, <1>2, GivenAt
<1> QED BY <1>1, <1>2, <1>3 DEF Above

(* The first page of a block that nobody owns is not the first page of a   *)
(* block handed out.                                                       *)
LEMMA Fresh ==
  ASSUME NEW alv, AllocOK(alv), NEW F, NEW U, NEW lev \in Levels, NEW h \in OnLevel(lev),
         h \notin Given(alv), Tiling(F \cup Given(alv) \cup {h}, U)
  PROVE  alv[FirstPage(lev, h)] = BUDDY_LEVELS
<1> DEFINE p == FirstPage(lev, h)
<1>1. p \in Pages /\ h \in Above(p)
  BY PagesAre, InAbove
<1> HIDE DEF p
<1>2. SUFFICES ASSUME alv[p] # BUDDY_LEVELS PROVE FALSE
  BY DEF p
<1> DEFINE i == Anc(alv[p], p)
<1>3. i \in Given(alv) /\ i \in Above(p)
  BY <1>1, <1>2, GivenOf
<1> HIDE DEF i
<1>4. i = h
  BY <1>1, <1>3 DEF Tiling
<1> QED BY <1>3, <1>4

LEMMA GivenMore ==
  ASSUME NEW alv, AllocOK(alv), NEW lev \in Levels, NEW h \in OnLevel(lev),
         alv[FirstPage(lev, h)] = BUDDY_LEVELS
  PROVE  /\ AllocOK([alv EXCEPT ![FirstPage(lev, h)] = lev])
         /\ Given([alv EXCEPT ![FirstPage(lev, h)] = lev]) = Given(alv) \cup {h}
<1> DEFINE p == FirstPage(lev, h)
           new == [alv EXCEPT ![p] = lev]
<1>1. p \in Pages /\ Anc(lev, p) = h /\ h \in Blocks
  BY PagesAre, BlockTypes
<1>2. alv[p] = BUDDY_LEVELS /\ lev # BUDDY_LEVELS
  BY LevelTypes
<1> HIDE DEF p
<1>3. alv \in [Pages -> Levels \cup {BUDDY_LEVELS}]
  BY DEF AllocOK
<1>4. /\ new \in [Pages -> Levels \cup {BUDDY_LEVELS}] /\ new[p] = lev
      /\ \A q \in Pages : q # p => new[q] = alv[q]
  BY <1>1, <1>3
<1> HIDE DEF new
<1>5. AllocOK(new)
  <2>1. ASSUME NEW q \in Pages, new[q] # BUDDY_LEVELS
        PROVE  FirstPage(new[q], Anc(new[q], q)) = q
    <3>1. CASE q = p
      BY <1>1, <1>4, <3>1 DEF p
    <3>2. CASE q # p
      BY <1>4, <2>1, <3>2 DEF AllocOK
    <3> QED BY <3>1, <3>2
  <2> QED BY <1>4, <2>1 DEF AllocOK
<1>6. ASSUME NEW l \in Levels, NEW i \in OnLevel(l)
      PROVE  i \in Given(new) <=> i \in Given(alv) \/ i = h
  <2>1. i \in Given(new) <=> new[FirstPage(l, i)] = l
    BY GivenAt
  <2>2. i \in Given(alv) <=> alv[FirstPage(l, i)] = l
    BY GivenAt
  <2>3. FirstPage(l, i) \in Pages /\ Anc(l, FirstPage(l, i)) = i
    BY PagesAre
  <2>4. CASE FirstPage(l, i) = p
    <3>1. alv[p] # l
      BY <1>2, LevelTypes
    <3>2. lev = l => i = h
      BY <1>1, <2>3, <2>4
    <3>3. i = h => lev = l
      BY BlockTypes
    <3> QED BY <1>4, <2>1, <2>2, <2>4, <3>1, <3>2, <3>3
  <2>5. CASE FirstPage(l, i) # p
    <3>1. i # h
      <4>1. i = h => lev = l
        BY BlockTypes
      <4> QED BY <2>5, <4>1 DEF p
    <3> QED BY <1>4, <2>1, <2>2, <2>3, <2>5, <3>1
  <2> QED BY <2>4, <2>5
<1>7. Given(new) = Given(alv) \cup {h}
  <2>1. \A i \in Given(new) : i \in Blocks /\ \E l \in Levels : i \in OnLevel(l)
    BY DEF Given
  <2>2. \A i \in Given(alv) : i \in Blocks /\ \E l \in Levels : i \in OnLevel(l)
    BY DEF Given
  <2> QED BY <1>6, <2>1, <2>2
<1> QED BY <1>5, <1>7 DEF new, p

LEMMA GivenLess ==
  ASSUME NEW alv, AllocOK(alv), NEW p \in Pages, NEW l, l = alv[p], l # BUDDY_LEVELS
  PROVE  /\ AllocOK([alv EXCEPT ![p] = BUDDY_LEVELS])
         /\ Given([alv EXCEPT ![p] = BUDDY_LEVELS]) = Given(alv) \ {Anc(l, p)}
<1> DEFINE h == Anc(l, p)
           new == [alv EXCEPT ![p] = BUDDY_LEVELS]
<1>1. l \in Levels /\ h \in OnLevel(l) /\ FirstPage(l, h) = p /\ l # BUDDY_LEVELS
  BY GivenOf
<1>2. alv \in [Pages -> Levels \cup {BUDDY_LEVELS}]
  BY DEF AllocOK
<1>3. /\ new \in [Pages -> Levels \cup {BUDDY_LEVELS}] /\ new[p] = BUDDY_LEVELS
      /\ \A q \in Pages : q # p => new[q] = alv[q]
  BY <1>2
<1> HIDE DEF new, h
<1>4. AllocOK(new)
  <2>1. ASSUME NEW q \in Pages, new[q] # BUDDY_LEVELS
        PROVE  FirstPage(new[q], Anc(new[q], q)) = q
    <3>1. q # p /\ new[q] = alv[q]
      BY <1>3, <2>1
    <3> QED BY <2>1, <3>1 DEF AllocOK
  <2> QED BY <1>3, <2>1 DEF AllocOK
<1>5. ASSUME NEW m \in Levels, NEW i \in OnLevel(m)
      PROVE  i \in Given(new) <=> i \in Given(alv) /\ i # h
  <2>1. i \in Given(new) <=> new[FirstPage(m, i)] = m
    BY GivenAt
  <2>2. i \in Given(alv) <=> alv[FirstPage(m, i)] = m
    BY GivenAt
  <2>3. FirstPage(m, i) \in Pages /\ Anc(m, FirstPage(m, i)) = i
    BY PagesAre
  <2>4. CASE FirstPage(m, i) = p
    <3>1. new[p] # m
      BY <1>3, LevelTypes
    <3>2. alv[p] = m => i = h
      BY <2>3, <2>4 DEF h
    <3> QED BY <2>1, <2>2, <2>4, <3>1, <3>2
  <2>5. CASE FirstPage(m, i) # p
    <3>1. i # h
      <4>1. i = h => m = l
        BY <1>1, BlockTypes
      <4> QED BY <1>1, <2>5, <4>1
    <3> QED BY <1>3, <2>1, <2>2, <2>3, <2>5, <3>1
  <2> QED BY <2>4, <2>5
<1>6. Given(new) = Given(alv) \ {h}
  <2>1. \A i \in Given(new) : i \in Blocks /\ \E m \in Levels : i \in OnLevel(m)
    BY DEF Given
  <2>2. \A i \in Given(alv) : i \in Blocks /\ \E m \in Levels : i \in OnLevel(m)
    BY DEF Given
  <2> QED BY <1>5, <2>1, <2>2
<1> QED BY <1>4, <1>6 DEF new, h

(* The nearest level that has a free block.                                *)
LEMMA NearestIs ==
  ASSUME NEW al, NEW lev \in Levels, Givers(al, lev) # {}
  PROVE  Nearest(al, lev) \in Givers(al, lev) /\ Nearest(al, lev) \in 0..lev
<1> DEFINE G == Givers(al, lev)
           T == {lev - g : g \in G}
<1>1. lev \in Nat /\ G \subseteq 0..lev
  BY Powers DEF Givers
<1> HIDE DEF G
<1>2. T \in SUBSET Nat /\ T # {}
  BY <1>1 DEF G
<1>3. PICK m \in T : \A k \in T : m <= k
  BY <1>2, LeastNumber
<1>4. PICK g \in G : m = lev - g
  BY <1>3
<1>5. ASSUME NEW h \in G PROVE h <= g
  <2>1. lev - h \in T
    OBVIOUS
  <2>2. lev - g <= lev - h
    BY <1>3, <1>4, <2>1
  <2> QED BY <1>1, <2>2
<1>6. \E x \in G : \A h \in G : h <= x
  BY <1>5
<1>7. Nearest(al, lev) \in G
  BY <1>6 DEF Nearest, G
<1> QED BY <1>1, <1>7 DEF G

LEMMA DownTheTree ==
  ASSUME NEW g \in Levels, NEW i \in OnLevel(g)
  PROVE  /\ i * 2^0 = i
         /\ \A k \in 0..(LAST_LEV - g) :
              g + k \in Levels /\ i * 2^k \in OnLevel(g + k) /\ i * 2^(k+1) = 2 * (i * 2^k)
<1>1. i \in Nat /\ g \in Nat /\ LAST_LEV - g \in Nat
  BY BlockTypes, Powers, LevelTypes
<1>2. i * 2^0 = i
  <2>1. 2^0 = 1
    OBVIOUS
  <2>2. i * 1 = i
    BY <1>1
  <2> QED BY <2>1, <2>2
<1>3. ASSUME NEW k \in Nat PROVE i * 2^(k+1) = 2 * (i * 2^k)
  <2> DEFINE w == 2^k
  <2>1. w \in Nat \ {0} /\ 2^(k+1) = 2 * w
    BY PowerStep
  <2> HIDE DEF w
  <2>2. i * (2 * w) = 2 * (i * w)
    BY <1>1, <2>1, SMT
  <2> QED BY <2>1, <2>2 DEF w
<1> DEFINE S == {k \in Nat : g + k <= LAST_LEV => g + k \in Levels /\ i * 2^k \in OnLevel(g + k)}
<1>4. 0 \in S
  BY <1>1, <1>2
<1>5. ASSUME NEW k \in Nat, k \in S PROVE k+1 \in S
  <2> SUFFICES ASSUME g + (k+1) <= LAST_LEV
      PROVE g + (k+1) \in Levels /\ i * 2^(k+1) \in OnLevel(g + (k+1))
    OBVIOUS
  <2> DEFINE l == g + k
             j == i * 2^k
  <2>1. l \in Levels /\ j \in OnLevel(l) /\ l # LAST_LEV /\ g + (k+1) = l + 1
    BY <1>1, <1>5, LevelTypes
  <2>2. i * 2^(k+1) = 2 * j
    BY <1>3
  <2> HIDE DEF l, j
  <2>3. l + 1 \in Levels /\ 2 * j \in OnLevel(l + 1)
    BY <2>1, Halves
  <2> QED BY <2>1, <2>2, <2>3
<1>6. Nat \subseteq S
  <2> HIDE DEF S
  <2> QED BY <1>4, <1>5, SetInduction
<1>7. ASSUME NEW k \in 0..(LAST_LEV - g) PROVE k \in Nat /\ g + k <= LAST_LEV
  <2> HIDE DEF S
  <2> QED BY <1>1, LevelTypes
<1> QED BY <1>2, <1>3, <1>6, <1>7

(* After k splits of first: G are the blocks handed out before.            *)
Down(r, al, G, U, h) ==
  /\ ListsOK(r) /\ r.allocated_level = al.allocated_level /\ r.died = al.died
  /\ FreeSet(r) \cap G = {} /\ Pairs(FreeSet(r)) = {}
  /\ h \notin FreeSet(r) /\ h \notin G /\ Tiling(FreeSet(r) \cup G \cup {h}, U)

SplitOK(al, G, U, first, k) == {r \in Allocators : Down(r, al, G, U, first * 2^k)}

LEMMA SplitTurn ==
  ASSUME NEW al, NEW G, NEW U, NEW l \in Levels, l # LAST_LEV, NEW h \in OnLevel(l),
         NEW r, Down(r, al, G, U, h)
  PROVE  /\ 2 * h + 1 \in OnLevel(l + 1)
         /\ Down(add_one(r, l + 1, 2 * h + 1), al, G, U, 2 * h)
<1> DEFINE F == FreeSet(r)
           r2 == add_one(r, l + 1, 2 * h + 1)
           B == F \cup G \cup {h}
           x == 2 * h
           y == 2 * h + 1
<1>1. /\ l + 1 \in Levels /\ x \in OnLevel(l + 1) /\ y \in OnLevel(l + 1) /\ h \in Nat /\ x # y
      /\ y \in Blocks
  BY Halves, BlockTypes
<1>2. ListsOK(r) /\ F \cap G = {} /\ Pairs(F) = {} /\ h \notin F /\ h \notin G
  BY DEF Down
<1>3. x \notin B /\ y \notin B /\ Tiling((B \ {h}) \cup {x, y}, U)
  <2>1. Tiling(B, U) /\ h \in B
    BY DEF Down
  <2> HIDE DEF B
  <2> QED BY <2>1, Split
<1>4. Pairs(F \cup {y}) \subseteq Pairs(F)
  <2>1. 2 * h \notin F
    BY <1>3
  <2> HIDE DEF F
  <2> QED BY <1>1, <2>1, PairsRight
<1> HIDE DEF x, y, F
<1>5. (B \ {h}) \cup {x, y} = (F \cup {y}) \cup G \cup {x}
  BY <1>2
<1>6. Becomes(r2, r, F \cup {y})
  <2>1. ~r.free[y]
    BY <1>1, <1>2, <1>3, FreeTypes DEF F
  <2> QED BY <1>1, <1>2, <2>1, AddOne DEF F, y
<1> HIDE DEF r2
<1>7. /\ ListsOK(r2) /\ FreeSet(r2) = F \cup {y}
      /\ r2.allocated_level = al.allocated_level /\ r2.died = al.died
  BY <1>6 DEF Becomes, Down
<1>8. Down(r2, al, G, U, x)
  BY <1>1, <1>2, <1>3, <1>4, <1>5, <1>7 DEF Down
<1> QED BY <1>1, <1>8 DEF r2, x, y

Splits(al, g, first, n) ==
  CHOOSE split : split = [k \in 0..n |->
    IF k = 0 THEN remove_one(al, g, first)
    ELSE add_one(split[k-1], g + k, first * 2^k + 1)]

LEMMA GetFromLevel ==
  ASSUME NEW al, NEW G, NEW U, Keeps(al, al, G, U), Pairs(FreeSet(al)) = {},
         NEW lev \in Levels, Givers(al, lev) # {}
  PROVE  /\ get_from_level(al, lev).block \in OnLevel(lev)
         /\ Down(get_from_level(al, lev).al, al, G, U, get_from_level(al, lev).block)
<1> DEFINE g == Nearest(al, lev)
           first == al.firsts[g]
           n == lev - g
           start == remove_one(al, g, first)
           Ok == [k \in 0..n |-> SplitOK(al, G, U, first, k)]
           Body(k, x) == add_one(x, g + k, first * 2^k + 1)
           step == [k \in 1..n |-> [x \in Ok[k-1] |-> Body(k, x)]]
           Is(f) == f = [k \in 0..n |-> IF k = 0 THEN start ELSE Body(k, f[k-1])]
           split == Splits(al, g, first, n)
<1>1. /\ g \in Levels /\ first # None /\ lev \in Nat /\ g \in Nat
      /\ n \in Nat /\ 0 \in 0..n /\ n \in 0..n /\ g + n = lev
      /\ \A k \in 0..n : k \in 0..(LAST_LEV - g)
  <2>1. g \in 0..lev /\ first # None
    BY NearestIs DEF Givers
  <2>2. lev \in Nat /\ lev <= LAST_LEV
    BY Powers
  <2> HIDE DEF g, first
  <2> QED BY <2>1, <2>2, LevelTypes
<1>2. ListsOK(al) /\ FreeSet(al) \cap G = {} /\ Tiling(FreeSet(al) \cup G, U)
  BY DEF Keeps
<1>3. first \in OnLevel(g) /\ al.free[first] /\ first \in FreeSet(al)
  <2>1. PICK s : Row(al, g, s)
    BY <1>1, <1>2 DEF ListsOK
  <2> HIDE DEF g
  <2>2. first \in FreeOn(al, g)
    BY <1>1, <2>1, FirstOfRow
  <2> HIDE DEF first
  <2>3. first \in Blocks
    BY <1>1, <2>2, BlockTypes DEF FreeOn
  <2> QED BY <2>2, <2>3 DEF FreeOn, FreeSet
<1> HIDE DEF g, first, n
<1>4. start \in Ok[0]
  <2>1. Becomes(start, al, FreeSet(al) \ {first})
    BY <1>1, <1>2, <1>3, RemoveOne
  <2> HIDE DEF start
  <2>2. /\ ListsOK(start) /\ FreeSet(start) = FreeSet(al) \ {first}
        /\ start.allocated_level = al.allocated_level /\ start.died = al.died
    BY <2>1 DEF Becomes
  <2>3. Pairs(FreeSet(start)) = {}
    BY <2>2, PairsFewer
  <2>4. FreeSet(start) \cup G \cup {first} = FreeSet(al) \cup G
    BY <1>3, <2>2
  <2>5. first * 2^0 = first
    BY <1>1, <1>3, DownTheTree
  <2>6. Down(start, al, G, U, first)
    BY <1>2, <1>3, <2>2, <2>3, <2>4 DEF Down
  <2>7. start \in SplitOK(al, G, U, first, 0)
    BY <2>2, <2>5, <2>6 DEF SplitOK, ListsOK
  <2> QED BY <1>1, <2>7
<1>5. ASSUME NEW k \in 1..n, NEW x \in Ok[k-1] PROVE Body(k, x) \in Ok[k]
  <2>1. k-1 \in 0..n /\ k \in 0..n /\ (k-1) + 1 = k /\ k \in Nat
        /\ (g + (k-1)) + 1 = g + k /\ g + (k-1) # LAST_LEV
    BY <1>1, LevelTypes DEF n
  <2> DEFINE l == g + (k-1)
             h == first * 2^(k-1)
  <2>2. Down(x, al, G, U, h)
    BY <2>1 DEF SplitOK
  <2>3. l \in Levels /\ h \in OnLevel(l) /\ first * 2^k = 2 * h /\ l # LAST_LEV /\ l + 1 = g + k
    <3>1. first * 2^((k-1)+1) = 2 * h /\ l \in Levels /\ h \in OnLevel(l)
      BY <1>1, <1>3, <2>1, DownTheTree
    <3> QED BY <2>1, <3>1
  <2> HIDE DEF l, h
  <2>4. Down(add_one(x, l + 1, 2 * h + 1), al, G, U, 2 * h)
    BY <2>2, <2>3, SplitTurn
  <2>5. Down(Body(k, x), al, G, U, first * 2^k)
    BY <2>3, <2>4
  <2> HIDE DEF Body
  <2>6. Body(k, x) \in SplitOK(al, G, U, first, k)
    BY <2>5 DEF SplitOK, Down, ListsOK
  <2> QED BY <2>1, <2>6
<1> HIDE DEF Ok, Body, start
<1>6. \E f : Is(f)
  <2>1. \A k \in 1..n : \A x \in Ok[k-1] : step[k][x] = Body(k, x)
    OBVIOUS
  <2>2. \A k \in 1..n : \A x \in Ok[k-1] : step[k][x] \in Ok[k]
    BY <1>5, <2>1
  <2> HIDE DEF step
  <2>3. PICK f : IsLoop(f, n, start, step) /\ \A k \in 0..n : f[k] \in Ok[k]
    BY <1>1, <1>4, <2>2, Recursion
  <2>4. ASSUME NEW k \in 0..n
        PROVE  (IF k = 0 THEN start ELSE step[k][f[k-1]]) = IF k = 0 THEN start ELSE Body(k, f[k-1])
    <3>1. k # 0 => k \in 1..n /\ k-1 \in 0..n
      BY <1>1
    <3> QED BY <2>1, <2>3, <3>1
  <2>5. f = [k \in 0..n |-> IF k = 0 THEN start ELSE step[k][f[k-1]]]
    BY <2>3 DEF IsLoop
  <2>6. Is(f)
    BY <2>4, <2>5
  <2> QED BY <2>6
<1>7. Is(split)
  <2>1. split = CHOOSE f : Is(f)
    BY DEF Splits, Body, start
  <2> HIDE DEF Is, split
  <2> QED BY <1>6, <2>1
<1>8. get_from_level(al, lev) = [block |-> first * 2^n, al |-> split[n]]
  BY DEF get_from_level, split, Splits, n, first, g
<1> HIDE DEF split
<1>9. split[0] = start /\ \A k \in 1..n : split[k] = Body(k, split[k-1])
  <2>1. split = [k \in 0..n |-> IF k = 0 THEN start ELSE Body(k, split[k-1])]
    BY <1>7
  <2>2. split[0] = start
    BY <1>1, <2>1
  <2>3. ASSUME NEW k \in 1..n PROVE split[k] = Body(k, split[k-1])
    <3>1. k \in 0..n /\ k # 0
      BY <1>1
    <3> QED BY <2>1, <3>1
  <2> QED BY <2>2, <2>3
<1>10. \A k \in 0..n : split[k] \in Ok[k]
  BY <1>1, <1>4, <1>5, <1>9, Turns
<1>11. Down(split[n], al, G, U, first * 2^n)
  BY <1>1, <1>10 DEF Ok, SplitOK
<1>12. first * 2^n \in OnLevel(lev)
  <2>1. first * 2^n \in OnLevel(g + n)
    BY <1>1, <1>3, DownTheTree
  <2> QED BY <1>1, <2>1
<1> QED BY <1>8, <1>11, <1>12

-----------------------------------------------------------------------------
(* The inductive invariant: the lists are right, the first pages of the    *)
(* blocks handed out remember them, free blocks and these tile the usable  *)
(* pages U, and no two free halves are left unmerged.                      *)

GivenIn(al) == Given(al.allocated_level)

Sound(al, U) ==
  /\ Keeps(al, al, GivenIn(al), U) /\ AllocOK(al.allocated_level)
  /\ Pairs(FreeSet(al)) = {} /\ al.died # "assert"

(* The lists do not depend on the other fields.                            *)
LEMMA ListsFrame ==
  ASSUME NEW al, ListsOK(al), NEW r \in Allocators, r.free = al.free, r.prev = al.prev,
         r.next = al.next, r.firsts = al.firsts
  PROVE  ListsOK(r) /\ FreeSet(r) = FreeSet(al)
<1>1. Idle(r) /\ FreeSet(r) = FreeSet(al)
  BY DEF ListsOK, Idle, FreeSet
<1>2. ASSUME NEW lev \in Levels PROVE \E s : Row(r, lev, s)
  <2>1. PICK s : Row(al, lev, s)
    BY DEF ListsOK
  <2>2. Row(r, lev, s)
    BY <2>1 DEF Row, FreeOn
  <2> QED BY <2>2
<1> QED BY <1>1, <1>2 DEF ListsOK

LEMMA AllocField ==
  ASSUME NEW al, ListsOK(al), NEW p \in Pages, NEW v \in Levels \cup {BUDDY_LEVELS}
  PROVE  /\ ListsOK([al EXCEPT !.allocated_level[p] = v])
         /\ FreeSet([al EXCEPT !.allocated_level[p] = v]) = FreeSet(al)
         /\ [al EXCEPT !.allocated_level[p] = v].allocated_level = [al.allocated_level EXCEPT ![p] = v]
         /\ [al EXCEPT !.allocated_level[p] = v].died = al.died
         /\ [al EXCEPT !.allocated_level[p] = v].free = al.free
<1> DEFINE r == [al EXCEPT !.allocated_level[p] = v]
<1>1. al \in Allocators
  BY DEF ListsOK
<1>2. /\ r \in Allocators /\ r.free = al.free /\ r.prev = al.prev
      /\ r.next = al.next /\ r.firsts = al.firsts /\ r.died = al.died
      /\ r.allocated_level = [al.allocated_level EXCEPT ![p] = v]
  BY <1>1 DEF Allocators
<1> HIDE DEF r
<1>3. ListsOK(r) /\ FreeSet(r) = FreeSet(al)
  BY <1>2, ListsFrame
<1> QED BY <1>2, <1>3 DEF r

LEMMA DiesField ==
  ASSUME NEW al, ListsOK(al), NEW why \in {"no", "oom", "assert"}
  PROVE  /\ ListsOK(Dies(al, why)) /\ FreeSet(Dies(al, why)) = FreeSet(al)
         /\ Dies(al, why).allocated_level = al.allocated_level /\ Dies(al, why).died = why
<1> DEFINE r == Dies(al, why)
<1>1. al \in Allocators
  BY DEF ListsOK
<1>2. /\ r \in Allocators /\ r.free = al.free /\ r.prev = al.prev
      /\ r.next = al.next /\ r.firsts = al.firsts /\ r.died = why
      /\ r.allocated_level = al.allocated_level
  BY <1>1 DEF Allocators, Dies
<1> HIDE DEF r
<1>3. ListsOK(r) /\ FreeSet(r) = FreeSet(al)
  BY <1>2, ListsFrame
<1> QED BY <1>2, <1>3 DEF r

LEMMA SizeHasLevel ==
  ASSUME NEW size \in 1..MAX_PAGE_SIZE
  PROVE  LevelFor(size) \in Levels
<1>1. ASSUME NEW l \in Levels PROVE buddy_size(l) \in Nat
  <2>1. W(l) \in Nat /\ PAGE \in Nat
    BY Powers, BuddyConstants
  <2>2. PAGE * W(l) \in Nat
    BY <2>1
  <2> QED BY <2>2 DEF buddy_size, W
<1> DEFINE T == {k \in Nat : LAST_LEV - k \in Levels /\ buddy_size(LAST_LEV - k) >= size}
<1>2. LAST_LEV \in T
  <2>1. LAST_LEV \in Nat /\ LAST_LEV - LAST_LEV = 0 /\ 0 \in Levels
    BY LevelTypes
  <2>2. buddy_size(0) \in Nat /\ size <= buddy_size(0) /\ size \in Nat
    BY <1>1, <2>1 DEF MAX_PAGE_SIZE
  <2> QED BY <2>1, <2>2
<1>3. PICK m \in T : \A k \in T : m <= k
  <2> HIDE DEF T
  <2>1. T \in SUBSET Nat
    BY DEF T
  <2> QED BY <1>2, <2>1, LeastNumber
<1> DEFINE lev == LAST_LEV - m
<1>4. lev \in Levels /\ buddy_size(lev) >= size
  BY <1>3
<1>5. lev = LAST_LEV \/ buddy_size(lev + 1) < size
  <2>1. SUFFICES ASSUME lev # LAST_LEV PROVE buddy_size(lev + 1) < size
    OBVIOUS
  <2>2. /\ m \in Nat /\ m # 0 /\ m - 1 \in Nat /\ LAST_LEV - (m - 1) = lev + 1
        /\ ~(m <= m - 1) /\ lev + 1 \in Levels
    BY <1>3, <1>4, <2>1, LevelTypes
  <2>3. m - 1 \notin T
    <3> HIDE DEF T, lev
    <3> QED BY <1>3, <2>2
  <2>4. ~(buddy_size(lev + 1) >= size)
    BY <2>2, <2>3
  <2> HIDE DEF lev
  <2>5. buddy_size(lev + 1) \in Nat /\ size \in Nat
    BY <1>1, <2>2
  <2> QED BY <2>4, <2>5
<1> HIDE DEF lev, T
<1> QED BY <1>4, <1>5 DEF LevelFor

LEMMA AllocStep ==
  ASSUME NEW al, NEW U, Sound(al, U), NEW lev \in Levels, Givers(al, lev) # {},
         NEW got, got = get_from_level(al, lev), NEW page, page = FirstPage(lev, got.block)
  PROVE  /\ got.block \in OnLevel(lev) /\ got.block \notin GivenIn(al)
         /\ got.al.allocated_level[page] = BUDDY_LEVELS
         /\ Sound([got.al EXCEPT !.allocated_level[page] = lev], U)
         /\ GivenIn([got.al EXCEPT !.allocated_level[page] = lev]) = GivenIn(al) \cup {got.block}
         /\ [got.al EXCEPT !.allocated_level[page] = lev].died = al.died
<1> DEFINE G == GivenIn(al)
           h == got.block
           r == got.al
           r2 == [r EXCEPT !.allocated_level[page] = lev]
<1>1. h \in OnLevel(lev) /\ Down(r, al, G, U, h)
  <2>1. Keeps(al, al, G, U) /\ Pairs(FreeSet(al)) = {}
    BY DEF Sound
  <2> HIDE DEF G
  <2> QED BY <2>1, GetFromLevel
<1>2. /\ ListsOK(r) /\ r.allocated_level = al.allocated_level /\ r.died = al.died
      /\ FreeSet(r) \cap G = {} /\ Pairs(FreeSet(r)) = {}
      /\ h \notin FreeSet(r) /\ h \notin G /\ Tiling(FreeSet(r) \cup G \cup {h}, U)
  BY <1>1 DEF Down
<1>3. AllocOK(al.allocated_level) /\ al.died # "assert"
  BY DEF Sound
<1>4. al.allocated_level[page] = BUDDY_LEVELS
  BY <1>1, <1>2, <1>3, Fresh DEF GivenIn
<1>5. page \in Pages
  BY <1>1, PagesAre
<1>6. /\ ListsOK(r2) /\ FreeSet(r2) = FreeSet(r) /\ r2.died = r.died
      /\ r2.allocated_level = [al.allocated_level EXCEPT ![page] = lev]
  BY <1>2, <1>5, AllocField
<1> HIDE DEF h, r, r2
<1>7. AllocOK(r2.allocated_level) /\ GivenIn(r2) = G \cup {h}
  BY <1>1, <1>3, <1>4, <1>6, GivenMore DEF GivenIn, h
<1>8. FreeSet(r2) \cap (G \cup {h}) = {}
  BY <1>2, <1>6
<1>9. FreeSet(r2) \cup (G \cup {h}) = FreeSet(r) \cup G \cup {h}
  BY <1>6
<1>10. Keeps(r2, r2, G \cup {h}, U)
  BY <1>2, <1>6, <1>8, <1>9 DEF Keeps
<1>11. Sound(r2, U)
  BY <1>2, <1>3, <1>6, <1>7, <1>10 DEF Sound
<1> QED BY <1>1, <1>2, <1>4, <1>6, <1>7, <1>11 DEF r2, r, h

LEMMA FreeStep ==
  ASSUME NEW al, NEW U, Sound(al, U), NEW page \in Pages,
         NEW lev, lev = al.allocated_level[page], lev # BUDDY_LEVELS,
         NEW i, i = page \div 2^(LAST_LEV - lev),
         NEW put, put = add_one([al EXCEPT !.allocated_level[page] = BUDDY_LEVELS], lev, i)
  PROVE  /\ lev \in Levels /\ i \in OnLevel(lev) /\ page = FirstPage(lev, i)
         /\ i \in GivenIn(al) /\ Sound(try_merge_rec(put, lev, i), U)
         /\ GivenIn(try_merge_rec(put, lev, i)) = GivenIn(al) \ {i}
         /\ try_merge_rec(put, lev, i).died = al.died
<1> DEFINE G == GivenIn(al)
           F == FreeSet(al)
           r == [al EXCEPT !.allocated_level[page] = BUDDY_LEVELS]
           m == try_merge_rec(put, lev, i)
<1>1. /\ ListsOK(al) /\ F \cap G = {} /\ Tiling(F \cup G, U) /\ Pairs(F) = {}
      /\ AllocOK(al.allocated_level) /\ al.died # "assert"
  BY DEF Sound, Keeps
<1>2. i = Anc(lev, page)
  BY DEF Anc, W
<1>3. lev \in Levels /\ i \in OnLevel(lev) /\ FirstPage(lev, i) = page /\ i \in G
  BY <1>1, <1>2, GivenOf DEF GivenIn
<1>4. /\ ListsOK(r) /\ FreeSet(r) = F /\ r.died = al.died
      /\ r.allocated_level = [al.allocated_level EXCEPT ![page] = BUDDY_LEVELS]
  BY <1>1, AllocField
<1> HIDE DEF r
<1>5. AllocOK(r.allocated_level) /\ GivenIn(r) = G \ {i}
  BY <1>1, <1>2, <1>4, GivenLess DEF GivenIn
<1>6. i \in Blocks /\ i \in Nat
  BY <1>3, BlockTypes
<1> HIDE DEF F, G, m
<1>7. ~r.free[i]
  <2>1. i \notin F
    BY <1>1, <1>3
  <2> QED BY <1>4, <1>6, <2>1, FreeTypes
<1>8. Becomes(put, r, F \cup {i})
  BY <1>3, <1>4, <1>7, AddOne DEF r
<1>9. /\ ListsOK(put) /\ FreeSet(put) = F \cup {i}
      /\ put.allocated_level = r.allocated_level /\ put.died = r.died
  BY <1>8 DEF Becomes
<1>10. Keeps(put, put, G \ {i}, U)
  <2>1. (F \cup {i}) \cup (G \ {i}) = F \cup G /\ (F \cup {i}) \cap (G \ {i}) = {}
    BY <1>1, <1>3
  <2> QED BY <1>1, <1>9, <2>1 DEF Keeps
<1>11. Pairs(FreeSet(put)) \subseteq {i \div 2}
  <2>1. Pairs(F \cup {i}) \subseteq Pairs(F) \cup {i \div 2}
    BY <1>6, PairsAdd
  <2> QED BY <1>1, <1>9, <2>1
<1>12. Keeps(m, put, G \ {i}, U) /\ Pairs(FreeSet(m)) = {}
  <2>1. i \in FreeSet(put)
    BY <1>9
  <2> QED BY <1>3, <1>10, <1>11, <2>1, MergeRec DEF m
<1>13. m.allocated_level = r.allocated_level /\ m.died = al.died
  BY <1>4, <1>9, <1>12 DEF Keeps
<1>14. GivenIn(m) = G \ {i}
  BY <1>5, <1>13 DEF GivenIn
<1>15. Keeps(m, m, G \ {i}, U)
  BY <1>12 DEF Keeps
<1>16. Sound(m, U)
  BY <1>1, <1>5, <1>12, <1>13, <1>14, <1>15 DEF Sound
<1> QED BY <1>3, <1>13, <1>14, <1>16 DEF m, G

-----------------------------------------------------------------------------
(* The operations that init_memory makes of the memory map.                *)

OfMap(b, k) ==
  {s \in Seq(Op) :
     Members(s) = {Operation("available", b.mmap[j]) : j \in {m \in 1..k : b.mmap[m].available}}}

Founds(b) ==
  CHOOSE found : found = [k \in 0..Len(b.mmap) |->
    IF k = 0 THEN <<>>
    ELSE IF b.mmap[k].available
    THEN Append(found[k-1], Operation("available", b.mmap[k]))
    ELSE found[k-1]]

LEMMA FoundTurn ==
  ASSUME NEW b \in BootInfo, NEW k \in 1..Len(b.mmap), NEW s \in OfMap(b, k-1)
  PROVE  (IF b.mmap[k].available THEN Append(s, Operation("available", b.mmap[k])) ELSE s)
            \in OfMap(b, k)
<1> DEFINE op == Operation("available", b.mmap[k])
           Avail(n) == {m \in 1..n : b.mmap[m].available}
<1>1. b.mmap \in Seq([start : Nat, end : Nat, available : BOOLEAN])
  BY DEF BootInfo
<1>2. op \in Op
  <2>1. b.mmap[k] \in [start : Nat, end : Nat, available : BOOLEAN]
    <3> DEFINE m == b.mmap
               T == [start : Nat, end : Nat, available : BOOLEAN]
    <3>1. m \in Seq(T) /\ k \in 1..Len(m)
      BY <1>1
    <3> HIDE DEF m, T
    <3>2. m[k] \in T
      BY <3>1
    <3> QED BY <3>2 DEF m, T
  <2> QED BY <2>1 DEF Operation, Op
<1>3. \A m \in 1..k : m \in 1..(k-1) \/ m = k
  BY <1>1
<1>4. k \in 1..k /\ 1..(k-1) \subseteq 1..k
  BY <1>1
<1>5. CASE b.mmap[k].available
  <2>1. Avail(k) = Avail(k-1) \cup {k}
    BY <1>3, <1>4, <1>5
  <2>2. s \in Seq(Op) /\ Members(s) = {Operation("available", b.mmap[j]) : j \in Avail(k-1)}
    BY DEF OfMap
  <2> HIDE DEF Avail
  <2>3. Append(s, op) \in Seq(Op) /\ Members(Append(s, op)) = Members(s) \cup {op}
    BY <1>2, <2>2, MembersAppend
  <2>4. Members(Append(s, op)) = {Operation("available", b.mmap[j]) : j \in Avail(k)}
    BY <2>1, <2>2, <2>3
  <2> QED BY <1>5, <2>3, <2>4 DEF OfMap, Avail
<1>6. CASE ~b.mmap[k].available
  <2>1. Avail(k) = Avail(k-1)
    BY <1>3, <1>4, <1>6
  <2> QED BY <1>6, <2>1 DEF OfMap
<1> QED BY <1>5, <1>6

LEMMA AvailableIs ==
  ASSUME NEW b \in BootInfo
  PROVE  /\ Available(b) \in Seq(Op)
         /\ Members(Available(b)) =
              {Operation("available", b.mmap[j]) : j \in {m \in DOMAIN b.mmap : b.mmap[m].available}}
<1> DEFINE n == Len(b.mmap)
           Ok == [k \in 0..n |-> OfMap(b, k)]
           Body(k, x) == IF b.mmap[k].available
                         THEN Append(x, Operation("available", b.mmap[k])) ELSE x
           step == [k \in 1..n |-> [x \in Ok[k-1] |-> Body(k, x)]]
           Is(f) == f = [k \in 0..n |-> IF k = 0 THEN <<>> ELSE Body(k, f[k-1])]
           found == Founds(b)
<1>1. n \in Nat /\ 0 \in 0..n /\ n \in 0..n /\ DOMAIN b.mmap = 1..n
  BY DEF BootInfo
<1>2. <<>> \in Ok[0]
  <2>1. <<>> \in OfMap(b, 0)
    BY DEF OfMap, Members
  <2> QED BY <1>1, <2>1
<1>3. ASSUME NEW k \in 1..n, NEW x \in Ok[k-1] PROVE Body(k, x) \in Ok[k]
  <2>1. k-1 \in 0..n /\ k \in 0..n
    BY <1>1
  <2>2. x \in OfMap(b, k-1)
    BY <2>1
  <2>3. Body(k, x) \in OfMap(b, k)
    BY <2>2, FoundTurn
  <2> QED BY <2>1, <2>3
<1> HIDE DEF Ok, Body, n
<1>4. \E f : Is(f)
  <2>1. \A k \in 1..n : \A x \in Ok[k-1] : step[k][x] = Body(k, x)
    OBVIOUS
  <2>2. \A k \in 1..n : \A x \in Ok[k-1] : step[k][x] \in Ok[k]
    BY <1>3, <2>1
  <2> HIDE DEF step
  <2>3. PICK f : IsLoop(f, n, <<>>, step) /\ \A k \in 0..n : f[k] \in Ok[k]
    BY <1>1, <1>2, <2>2, Recursion
  <2>4. ASSUME NEW k \in 0..n
        PROVE  (IF k = 0 THEN <<>> ELSE step[k][f[k-1]]) = IF k = 0 THEN <<>> ELSE Body(k, f[k-1])
    <3>1. k # 0 => k \in 1..n /\ k-1 \in 0..n
      BY <1>1
    <3> QED BY <2>1, <2>3, <3>1
  <2>5. f = [k \in 0..n |-> IF k = 0 THEN <<>> ELSE step[k][f[k-1]]]
    BY <2>3 DEF IsLoop
  <2>6. Is(f)
    BY <2>4, <2>5
  <2> QED BY <2>6
<1>5. Is(found)
  <2>1. found = CHOOSE f : Is(f)
    BY DEF Founds, Body, n
  <2> HIDE DEF Is, found
  <2> QED BY <1>4, <2>1
<1> HIDE DEF found
<1>6. found[0] = <<>> /\ \A k \in 1..n : found[k] = Body(k, found[k-1])
  <2>1. found = [k \in 0..n |-> IF k = 0 THEN <<>> ELSE Body(k, found[k-1])]
    BY <1>5
  <2>2. found[0] = <<>>
    BY <1>1, <2>1
  <2>3. ASSUME NEW k \in 1..n PROVE found[k] = Body(k, found[k-1])
    <3>1. k \in 0..n /\ k # 0
      BY <1>1
    <3> QED BY <2>1, <3>1
  <2> QED BY <2>2, <2>3
<1>7. \A k \in 0..n : found[k] \in Ok[k]
  BY <1>1, <1>2, <1>3, <1>6, Turns
<1>8. Available(b) = found[n]
  BY DEF Available, found, Founds, n
<1>9. found[n] \in OfMap(b, n)
  BY <1>1, <1>7 DEF Ok
<1> QED BY <1>1, <1>8, <1>9 DEF OfMap

LEMMA OpsTypes ==
  ASSUME NEW b \in BootInfo
  PROVE  /\ init_ops(b) \in Seq(Op) /\ Len(init_ops(b)) = Len(Available(b)) + 2
         /\ Len(Available(b)) \in Nat
         /\ \A k \in 1..Len(Available(b)) : init_ops(b)[k] = Available(b)[k]
         /\ init_ops(b)[Len(Available(b)) + 1] = Operation("reserve", b.kernel)
         /\ init_ops(b)[Len(Available(b)) + 2] = Operation("reserve", [start |-> 0, end |-> LOW])
<1> DEFINE s == Available(b)
           x == Operation("reserve", b.kernel)
           y == Operation("reserve", [start |-> 0, end |-> LOW])
<1>1. s \in Seq(Op)
  BY AvailableIs
<1>2. x \in Op /\ y \in Op
  BY MemoryConstants DEF BootInfo, Operation, Op
<1> HIDE DEF s, x, y
<1>3. init_ops(b) = s \o <<x, y>>
  BY DEF init_ops, s, x, y
<1>4. <<x, y>> \in Seq(Op) /\ Len(<<x, y>>) = 2 /\ <<x, y>>[1] = x /\ <<x, y>>[2] = y
  BY <1>2
<1> DEFINE t == <<x, y>>
<1> HIDE DEF t
<1>5. /\ s \o t \in Seq(Op) /\ Len(s \o t) = Len(s) + 2 /\ Len(s) \in Nat
      /\ \A k \in 1..Len(s) : (s \o t)[k] = s[k]
      /\ (s \o t)[Len(s) + 1] = t[1] /\ (s \o t)[Len(s) + 2] = t[2]
  BY <1>1, <1>4 DEF t
<1> QED BY <1>3, <1>4, <1>5 DEF s, x, y, t

-----------------------------------------------------------------------------
(* The inductive invariant of memory.c, and that it holds in every         *)
(* behaviour.                                                              *)

Booted ==
  /\ boot \in BootInfos /\ up = ~Refused(boot) /\ phys_mem_end = MapEnd(boot)
  /\ ops = IF up THEN init_ops(boot) ELSE <<>>

MemInv == Booted /\ Sound(a, Usable)

LEMMA BootedTypes ==
  ASSUME Booted
  PROVE  ops \in Seq(Op) /\ boot \in BootInfo
<1>1. boot \in BootInfo
  BY MemoryConstants DEF Booted
<1>2. init_ops(boot) \in Seq(Op)
  BY <1>1, OpsTypes
<1>3. <<>> \in Seq(Op)
  OBVIOUS
<1> QED BY <1>1, <1>2, <1>3 DEF Booted

LEMMA NothingGiven ==
  LET alv == [p \in Pages |-> BUDDY_LEVELS]
  IN  AllocOK(alv) /\ Given(alv) = {}
<1> DEFINE alv == [p \in Pages |-> BUDDY_LEVELS]
<1>1. AllocOK(alv)
  BY DEF AllocOK
<1>2. ASSUME NEW l \in Levels, NEW i \in OnLevel(l) PROVE alv[FirstPage(l, i)] # l
  <2>1. FirstPage(l, i) \in Pages /\ l # BUDDY_LEVELS
    BY PagesAre, LevelTypes
  <2> QED BY <2>1
<1>3. Given(alv) = {}
  <2> HIDE DEF alv
  <2> QED BY <1>2 DEF Given
<1> QED BY <1>1, <1>3

LEMMA MemInit == init_memory => MemInv
<1> SUFFICES ASSUME init_memory PROVE MemInv
  OBVIOUS
<1>1. Booted /\ a = buddy_init(ops)
  BY DEF init_memory, Booted, Init
<1>2. ops \in Seq(Op)
  BY <1>1, BootedTypes
<1>3. Usable = Upto(ops, Len(ops))
  BY <1>2, UsableIs
<1> DEFINE U == Usable
<1> HIDE DEF U
<1>4. /\ ListsOK(a) /\ Tiling(FreeSet(a), U) /\ Pairs(FreeSet(a)) = {}
      /\ a.allocated_level = [p \in Pages |-> BUDDY_LEVELS] /\ a.died = "no"
  BY <1>1, <1>2, <1>3, InitIs DEF U
<1>5. AllocOK(a.allocated_level) /\ GivenIn(a) = {}
  BY <1>4, NothingGiven DEF GivenIn
<1>6. FreeSet(a) \cap {} = {} /\ FreeSet(a) \cup {} = FreeSet(a)
  OBVIOUS
<1>7. Keeps(a, a, {}, U)
  BY <1>4, <1>6 DEF Keeps
<1>8. Sound(a, U)
  BY <1>4, <1>5, <1>7 DEF Sound
<1> QED BY <1>1, <1>8 DEF MemInv, U

LEMMA AllocSound ==
  ASSUME NEW U, Sound(a, U), NEW size \in 1..MAX_PAGE_SIZE, Alloc(size)
  PROVE  Sound(a', U) /\ ops' = ops
<1> DEFINE lev == LevelFor(size)
           got == get_from_level(a, lev)
           page == FirstPage(lev, got.block)
<1>1. lev \in Levels
  BY SizeHasLevel
<1>2. /\ a' = IF Givers(a, lev) = {} THEN Dies(a, "oom")
              ELSE IF got.al.allocated_level[page] # BUDDY_LEVELS THEN Dies(got.al, "assert")
              ELSE [got.al EXCEPT !.allocated_level[page] = lev]
      /\ ops' = ops
  BY DEF Alloc
<1> HIDE DEF lev
<1>3. CASE Givers(a, lev) = {}
  <2>1. a' = Dies(a, "oom")
    BY <1>2, <1>3
  <2>2. ListsOK(a)
    BY DEF Sound, Keeps
  <2>3. /\ ListsOK(a') /\ FreeSet(a') = FreeSet(a)
        /\ a'.allocated_level = a.allocated_level /\ a'.died = "oom"
    BY <2>1, <2>2, DiesField
  <2>4. GivenIn(a') = GivenIn(a)
    BY <2>3 DEF GivenIn
  <2> QED BY <1>2, <2>3, <2>4 DEF Sound, Keeps
<1>4. CASE Givers(a, lev) # {}
  <2>1. /\ got.al.allocated_level[page] = BUDDY_LEVELS
        /\ Sound([got.al EXCEPT !.allocated_level[page] = lev], U)
    BY <1>1, <1>4, AllocStep
  <2> HIDE DEF got, page
  <2>2. a' = [got.al EXCEPT !.allocated_level[page] = lev]
    BY <1>2, <1>4, <2>1
  <2> QED BY <1>2, <2>1, <2>2
<1> QED BY <1>3, <1>4

LEMMA FreeSound ==
  ASSUME NEW U, Sound(a, U), NEW page \in Pages, Free(page)
  PROVE  Sound(a', U) /\ ops' = ops
<1> DEFINE lev == a.allocated_level[page]
           i == page \div 2^(LAST_LEV - lev)
           put == add_one([a EXCEPT !.allocated_level[page] = BUDDY_LEVELS], lev, i)
<1>1. /\ lev < BUDDY_LEVELS /\ ops' = ops
      /\ a' = IF page # FirstPage(lev, i) THEN Dies(a, "assert") ELSE try_merge_rec(put, lev, i)
  BY DEF Free
<1>2. lev # BUDDY_LEVELS
  BY <1>1, BuddyConstants
<1>e. /\ lev = a.allocated_level[page] /\ i = page \div 2^(LAST_LEV - lev)
      /\ put = add_one([a EXCEPT !.allocated_level[page] = BUDDY_LEVELS], lev, i)
  OBVIOUS
<1> HIDE DEF lev, i, put
<1>3. page = FirstPage(lev, i) /\ Sound(try_merge_rec(put, lev, i), U)
  BY <1>2, <1>e, FreeStep
<1>4. a' = try_merge_rec(put, lev, i)
  BY <1>1, <1>3
<1> QED BY <1>1, <1>3, <1>4

LEMMA MemStep == MemInv /\ [MemNext]_memVars => MemInv'
<1> SUFFICES ASSUME MemInv, [MemNext]_memVars PROVE MemInv'
  OBVIOUS
<1> DEFINE U == Usable
<1>1. ASSUME ops' = ops PROVE Usable' = U
  BY <1>1 DEF Usable
<1>2. Sound(a, U)
  BY DEF MemInv
<1> HIDE DEF U
<1>3. CASE UNCHANGED memVars
  <2>1. a' = a /\ ops' = ops /\ UNCHANGED <<boot, phys_mem_end, up>>
    BY <1>3 DEF memVars, vars
  <2>2. Booted'
    BY <2>1 DEF MemInv, Booted
  <2>3. Sound(a', Usable')
    BY <1>1, <1>2, <2>1
  <2> QED BY <2>2, <2>3 DEF MemInv
<1>4. CASE up /\ Next /\ UNCHANGED <<boot, phys_mem_end, up>>
  <2>1. Sound(a', U) /\ ops' = ops
    <3>1. CASE \E size \in 1..MAX_PAGE_SIZE : Alloc(size)
      BY <1>2, <3>1, AllocSound
    <3>2. CASE \E page \in Pages : Free(page)
      BY <1>2, <3>2, FreeSound
    <3>3. CASE Stopped
      BY <1>2, <3>3 DEF Stopped, vars
    <3> QED BY <1>4, <3>1, <3>2, <3>3 DEF Next
  <2>2. Booted'
    BY <1>4, <2>1 DEF MemInv, Booted
  <2>3. Sound(a', Usable')
    BY <1>1, <2>1
  <2> QED BY <2>2, <2>3 DEF MemInv
<1> QED BY <1>3, <1>4 DEF MemNext

(* What is kept in every behaviour: the lists hold the free blocks, the    *)
(* first pages of the blocks handed out remember them, and free and owned  *)
(* blocks tile the memory that the boot loader left.                       *)
THEOREM MemCorrect == MemSpec => []MemInv
<1>1. init_memory => MemInv
  BY MemInit
<1>2. MemInv /\ [MemNext]_memVars => MemInv'
  BY MemStep
<1> QED BY <1>1, <1>2, PTL DEF MemSpec

-----------------------------------------------------------------------------
(* The properties of the runs.                                             *)

(* A free block or one handed out, as a pair of level and block.           *)
IsBlock(b) == b \in Levels \X Blocks /\ b[2] \in OnLevel(b[1])

LEMMA PagesOfIs ==
  ASSUME NEW b, IsBlock(b), NEW p \in Pages
  PROVE  /\ p \in PagesOf(b[1], b[2]) <=> b[2] \in Above(p)
         /\ b[1] \in Levels /\ b[2] \in OnLevel(b[1]) /\ b = <<b[1], b[2]>>
<1>1. b[1] \in Levels /\ b[2] \in OnLevel(b[1]) /\ b = <<b[1], b[2]>>
  BY DEF IsBlock
<1> DEFINE l == b[1]
           i == b[2]
<1>2. l \in Levels /\ i \in OnLevel(l)
  BY <1>1
<1> HIDE DEF l, i
<1>3. p \in PagesOf(l, i) <=> i \in Above(p)
  BY <1>2, PagesAre, InAbove
<1> QED BY <1>1, <1>3 DEF l, i

LEMMA FreeBlocksAre ==
  ASSUME NEW b
  PROVE  b \in FreeBlocks <=> IsBlock(b) /\ b[2] \in FreeSet(a)
<1>1. ASSUME IsBlock(b) PROVE b[2] \in Blocks
  BY <1>1 DEF IsBlock
<1> QED BY <1>1 DEF FreeBlocks, IsBlock, FreeSet

LEMMA OwnedAre ==
  ASSUME AllocOK(a.allocated_level), NEW b
  PROVE  b \in Owned <=> IsBlock(b) /\ b[2] \in GivenIn(a)
<1> DEFINE alv == a.allocated_level
<1>1. ASSUME b \in Owned PROVE IsBlock(b) /\ b[2] \in GivenIn(a)
  <2>1. PICK p \in Pages : alv[p] # BUDDY_LEVELS /\ b = <<alv[p], p \div 2^(LAST_LEV - alv[p])>>
    BY <1>1 DEF Owned
  <2> DEFINE l == alv[p]
  <2>2. b = <<l, Anc(l, p)>>
    BY <2>1 DEF Anc, W
  <2> HIDE DEF l
  <2>3. l \in Levels /\ Anc(l, p) \in OnLevel(l) /\ Anc(l, p) \in Given(alv)
    BY <2>1, GivenOf DEF l
  <2>4. Anc(l, p) \in Blocks
    BY <2>3, BlockTypes
  <2> HIDE DEF alv
  <2>5. b[1] = l /\ b[2] = Anc(l, p)
    BY <2>2
  <2> QED BY <2>2, <2>3, <2>4, <2>5 DEF IsBlock, GivenIn, alv
<1>2. ASSUME IsBlock(b), b[2] \in GivenIn(a) PROVE b \in Owned
  <2> DEFINE l == b[1]
             i == b[2]
             p == FirstPage(l, i)
  <2>1. l \in Levels /\ i \in OnLevel(l) /\ b = <<l, i>> /\ i \in Given(alv)
    BY <1>2 DEF IsBlock, GivenIn
  <2> HIDE DEF l, i
  <2>2. alv[p] = l /\ p \in Pages /\ Anc(l, p) = i /\ l # BUDDY_LEVELS
    BY <2>1, GivenAt, PagesAre, LevelTypes
  <2> HIDE DEF p
  <2>3. p \div 2^(LAST_LEV - l) = i
    BY <2>2 DEF Anc, W
  <2>4. b = <<alv[p], p \div 2^(LAST_LEV - alv[p])>>
    BY <2>1, <2>2, <2>3
  <2> QED BY <2>2, <2>4 DEF Owned
<1> QED BY <1>1, <1>2

(* The blocks that hold a page: one, if the page is usable, and no other.  *)
LEMMA Holders ==
  ASSUME MemInv, NEW p \in Pages
  PROVE  /\ p \in Usable => \E b : {c \in FreeBlocks \cup Owned : p \in PagesOf(c[1], c[2])} = {b}
         /\ p \notin Usable => {c \in FreeBlocks \cup Owned : p \in PagesOf(c[1], c[2])} = {}
<1> DEFINE B == FreeSet(a) \cup GivenIn(a)
           U == Usable
           H == {c \in FreeBlocks \cup Owned : p \in PagesOf(c[1], c[2])}
<1>1. AllocOK(a.allocated_level) /\ Tiling(B, U)
  BY DEF MemInv, Sound, Keeps
<1>2. ASSUME NEW c PROVE c \in FreeBlocks \cup Owned <=> IsBlock(c) /\ c[2] \in B
  <2>1. c \in FreeBlocks <=> IsBlock(c) /\ c[2] \in FreeSet(a)
    BY FreeBlocksAre
  <2>2. c \in Owned <=> IsBlock(c) /\ c[2] \in GivenIn(a)
    BY <1>1, OwnedAre
  <2> QED BY <2>1, <2>2
<1> HIDE DEF B, U
<1>3. ASSUME NEW c PROVE c \in H <=> IsBlock(c) /\ c[2] \in B /\ c[2] \in Above(p)
  BY <1>2, PagesOfIs
<1> HIDE DEF H
<1>4. ASSUME p \in U PROVE \E b : H = {b}
  <2>1. PICK x \in B : x \in Above(p)
    BY <1>1, <1>4 DEF Tiling
  <2>2. PICK l \in Levels : x = Anc(l, p)
    BY <2>1 DEF Above
  <2>3. x \in OnLevel(l) /\ x \in Blocks
    BY <2>2, AncBlock, BlockTypes
  <2>4. IsBlock(<<l, x>>)
    BY <2>3 DEF IsBlock
  <2>5. <<l, x>> \in H
    BY <1>3, <2>1, <2>4
  <2>6. ASSUME NEW c \in H PROVE c = <<l, x>>
    <3>1. IsBlock(c) /\ c[2] \in B /\ c[2] \in Above(p)
      BY <1>3
    <3>2. c[2] = x
      BY <1>1, <2>1, <3>1 DEF Tiling
    <3>3. c[1] \in Levels /\ c[2] \in OnLevel(c[1]) /\ c = <<c[1], c[2]>>
      BY <3>1, PagesOfIs
    <3>4. c[1] = l
      BY <2>3, <3>2, <3>3, BlockTypes
    <3> QED BY <3>2, <3>3, <3>4
  <2>7. H = {<<l, x>>}
    BY <2>5, <2>6
  <2> QED BY <2>7
<1>5. ASSUME p \notin U PROVE H = {}
  <2>1. ASSUME NEW c \in H PROVE FALSE
    <3>1. c[2] \in B /\ c[2] \in Above(p)
      BY <1>3
    <3> QED BY <1>1, <1>5, <3>1 DEF Tiling
  <2> QED BY <2>1
<1> QED BY <1>4, <1>5 DEF H, U

(* Every usable page lies in exactly one block, free or handed out, and no *)
(* other page in any.                                                      *)
THEOREM PartitionHolds == MemSpec => []Partition
<1>1. MemInv => Partition
  <2> SUFFICES ASSUME MemInv, NEW p \in Pages
      PROVE  Cardinality({c \in FreeBlocks \cup Owned : p \in PagesOf(c[1], c[2])}) =
               IF p \in Usable THEN 1 ELSE 0
    BY DEF Partition
  <2> DEFINE H == {c \in FreeBlocks \cup Owned : p \in PagesOf(c[1], c[2])}
  <2>1. /\ p \in Usable => \E b : H = {b}
        /\ p \notin Usable => H = {}
    BY Holders
  <2> HIDE DEF H
  <2>2. CASE p \in Usable
    <3>1. PICK b : H = {b}
      BY <2>1, <2>2
    <3>2. Cardinality(H) = 1
      BY <3>1, FS_Singleton
    <3> QED BY <2>2, <3>2 DEF H
  <2>3. CASE p \notin Usable
    <3>1. Cardinality(H) = 0
      BY <2>1, <2>3, FS_EmptySet
    <3> QED BY <2>3, <3>1 DEF H
  <2> QED BY <2>2, <2>3
<1> QED BY <1>1, MemCorrect, PTL

(* No assertion of buddy.c fails.                                          *)
THEOREM NoAssertionHolds == MemSpec => []NoAssertion
<1>1. MemInv => NoAssertion
  BY DEF MemInv, Sound, NoAssertion
<1> QED BY <1>1, MemCorrect, PTL

-----------------------------------------------------------------------------
(* BlockStarts: the nearest enclosing block that starts with a page handed *)
(* out is the one that owns the page.                                      *)

LEMMA PageAtIs ==
  ASSUME NEW p \in Pages
  PROVE  PageAt(Address(LAST_LEV, p)) = p
<1> DEFINE S == Starts(LAST_LEV)
           x == p - S
<1>1. S \in Nat /\ p \in Nat /\ x \in Nat /\ x + S = p /\ PAGE \in Nat \ {0}
  BY PageTypes, LevelTypes, Powers, BuddyConstants
<1>2. Address(LAST_LEV, p) = x * PAGE
  BY <1>1, Addresses
<1> HIDE DEF x, S
<1>3. (x * PAGE) \div PAGE = x
  BY <1>1, QuotientOfProduct
<1> QED BY <1>1, <1>2, <1>3 DEF PageAt, S

LEMMA StartAddress ==
  ASSUME NEW l \in Levels, NEW i \in OnLevel(l)
  PROVE  Address(LAST_LEV, FirstPage(l, i)) = Address(l, i)
<1> DEFINE s == Starts(l)
           w == W(l)
           S == Starts(LAST_LEV)
<1>1. /\ s \in Nat /\ w \in Nat /\ i \in Nat /\ s * w = S /\ PAGE \in Nat
      /\ i - s \in Nat
  BY PowersMeet, Powers, BlockTypes, BuddyConstants DEF OnLevel
<1>2. FirstPage(l, i) = i * w /\ buddy_size(l) = PAGE * w
  BY DEF FirstPage, buddy_size, W
<1> HIDE DEF s, w, S
<1>3. i * w \in Int
  BY <1>1
<1>4. Address(LAST_LEV, FirstPage(l, i)) = (i * w - S) * PAGE
  BY <1>2, <1>3, Addresses DEF S
<1>5. Address(l, i) = (i - s) * (PAGE * w)
  BY <1>2 DEF Address, s
<1>6. (i * w - s * w) = (i - s) * w
  BY <1>1, SMT
<1> DEFINE d == i - s
<1>7. d \in Nat
  BY <1>1
<1> HIDE DEF d
<1>8. (d * w) * PAGE = d * (PAGE * w)
  BY <1>1, <1>7, SMT
<1> QED BY <1>1, <1>4, <1>5, <1>6, <1>8 DEF d

LEMMA NearestHit ==
  ASSUME MemInv, NEW l \in Levels, NEW i \in OnLevel(l), i \in GivenIn(a),
         NEW p \in Pages, Anc(l, p) = i, NEW k \in Levels, l <= k,
         a.allocated_level[FirstPage(k, Anc(k, p))] # BUDDY_LEVELS
  PROVE  FirstPage(k, Anc(k, p)) = FirstPage(l, i)
<1> DEFINE alv == a.allocated_level
           h == Anc(k, p)
           q == FirstPage(k, h)
           m == alv[q]
           B == FreeSet(a) \cup GivenIn(a)
<1>1. AllocOK(alv) /\ Tiling(B, Usable)
  BY DEF MemInv, Sound, Keeps
<1>2. h \in OnLevel(k)
  BY AncBlock
<1> HIDE DEF h
<1>3. q \in Pages /\ Anc(k, q) = h
  BY <1>2, PagesAre
<1> HIDE DEF q
<1>4. Anc(k, q) = Anc(k, p)
  BY <1>3 DEF h
<1>5. Anc(l, q) = i
  BY <1>3, <1>4, AncAbove
<1>6. i \in Above(q) /\ i \in B
  BY <1>5 DEF Above
<1>7. /\ m \in Levels /\ Anc(m, q) \in OnLevel(m) /\ FirstPage(m, Anc(m, q)) = q
      /\ Anc(m, q) \in Given(alv) /\ Anc(m, q) \in Above(q)
  <2>1. m # BUDDY_LEVELS
    BY DEF q, h
  <2> HIDE DEF alv
  <2> QED BY <1>1, <1>3, <2>1, GivenOf
<1>8. Anc(m, q) = i
  <2>1. Anc(m, q) \in B
    BY <1>7 DEF GivenIn
  <2> HIDE DEF B, m
  <2> QED BY <1>1, <1>3, <1>6, <1>7, <2>1 DEF Tiling
<1>9. m = l
  BY <1>7, <1>8, BlockTypes
<1> QED BY <1>7, <1>8, <1>9 DEF q, h

LEMMA StartIs ==
  ASSUME MemInv, NEW l \in Levels, NEW i \in OnLevel(l), i \in GivenIn(a),
         NEW p \in Pages, Anc(l, p) = i
  PROVE  buddy_get_block_start(a, Address(LAST_LEV, p)) = Address(l, i)
<1> DEFINE alv == a.allocated_level
           Start(lev) == FirstPage(lev, Anc(lev, p))
           Hits == {lev \in Levels : alv[Start(lev)] # BUDDY_LEVELS}
           lev == CHOOSE m \in Hits : \A k \in Hits : k <= m
           page == Start(lev)
<1>1. PageAt(Address(LAST_LEV, p)) = p
  BY PageAtIs
<1>2. buddy_get_block_start(a, Address(LAST_LEV, p)) =
        IF Hits = {} \/ alv[page] > lev THEN None ELSE Address(LAST_LEV, page)
  BY <1>1 DEF buddy_get_block_start, Anc, W
<1> HIDE DEF Start
<1>3. Start(l) = FirstPage(l, i) /\ alv[FirstPage(l, i)] = l /\ l # BUDDY_LEVELS
  BY GivenAt, LevelTypes DEF Start, GivenIn
<1>4. l \in Hits
  BY <1>3
<1>5. Hits \subseteq Levels
  OBVIOUS
<1>6. \A k \in Hits : l <= k => Start(k) = FirstPage(l, i)
  BY NearestHit DEF Start
<1> HIDE DEF Hits, alv
<1>7. \E m \in Hits : \A k \in Hits : k <= m
  <2> DEFINE T == {LAST_LEV - k : k \in Hits}
  <2>1. T \in SUBSET Nat /\ T # {}
    BY <1>4, <1>5, LevelTypes
  <2>2. PICK t \in T : \A u \in T : t <= u
    BY <2>1, LeastNumber
  <2>3. PICK m \in Hits : t = LAST_LEV - m
    BY <2>2
  <2>4. ASSUME NEW k \in Hits PROVE k <= m
    <3>1. LAST_LEV - k \in T
      OBVIOUS
    <3>2. LAST_LEV - m <= LAST_LEV - k
      BY <2>2, <2>3, <3>1
    <3>3. LAST_LEV \in Nat /\ k \in Nat /\ m \in Nat
      BY <1>5, LevelTypes
    <3> QED BY <3>2, <3>3
  <2> QED BY <2>4
<1>8. lev \in Hits /\ l <= lev
  BY <1>4, <1>7
<1> HIDE DEF lev
<1>9. Start(lev) = FirstPage(l, i)
  BY <1>6, <1>8
<1>10. alv[page] = l /\ ~(l > lev) /\ Hits # {}
  <2>1. lev \in Nat /\ l \in Nat
    BY <1>5, <1>8, Powers
  <2> QED BY <1>3, <1>8, <1>9, <2>1
<1>11. buddy_get_block_start(a, Address(LAST_LEV, p)) = Address(LAST_LEV, FirstPage(l, i))
  BY <1>2, <1>9, <1>10
<1> QED BY <1>11, StartAddress

(* An address in a block handed out leads to the start of that block.      *)
THEOREM BlockStartsHolds == MemSpec => []BlockStarts
<1>1. MemInv => BlockStarts
  <2> SUFFICES ASSUME MemInv, NEW b \in Owned, NEW p \in PagesOf(b[1], b[2])
      PROVE  buddy_get_block_start(a, Address(LAST_LEV, p)) = Address(b[1], b[2])
    BY DEF BlockStarts
  <2>1. AllocOK(a.allocated_level)
    BY DEF MemInv, Sound
  <2>2. IsBlock(b) /\ b[2] \in GivenIn(a)
    BY <2>1, OwnedAre
  <2> DEFINE l == b[1]
             i == b[2]
  <2>3. l \in Levels /\ i \in OnLevel(l) /\ i \in GivenIn(a) /\ p \in PagesOf(l, i)
    BY <2>2 DEF IsBlock
  <2> HIDE DEF l, i
  <2>4. p \in Pages /\ Anc(l, p) = i
    BY <2>3, PagesAre
  <2>5. buddy_get_block_start(a, Address(LAST_LEV, p)) = Address(l, i)
    BY <2>3, <2>4, StartIs
  <2> QED BY <2>5 DEF l, i
<1> QED BY <1>1, MemCorrect, PTL

-----------------------------------------------------------------------------
(* BootMap: the usable pages are those the boot loader left.               *)

LEMMA NextAddress ==
  ASSUME NEW p \in Pages
  PROVE  /\ Address(LAST_LEV, p) \in Nat
         /\ Address(LAST_LEV, p + 1) = Address(LAST_LEV, p) + PAGE
<1> DEFINE S == Starts(LAST_LEV)
           x == p - S
<1>1. S \in Nat /\ p \in Nat /\ x \in Nat /\ (p + 1) - S = x + 1 /\ PAGE \in Nat
  BY PageTypes, LevelTypes, Powers, BuddyConstants
<1>2. Address(LAST_LEV, p) = x * PAGE /\ Address(LAST_LEV, p + 1) = ((p + 1) - S) * PAGE
  BY <1>1, Addresses
<1> HIDE DEF x, S
<1>3. (x + 1) * PAGE = x * PAGE + PAGE /\ x * PAGE \in Nat
  BY <1>1, SMT
<1> QED BY <1>1, <1>2, <1>3

LEMMA UsableInMap ==
  ASSUME Booted, up, NEW p \in Pages
  PROVE  p \in Usable <=>
           /\ \E k \in DOMAIN boot.mmap :
                boot.mmap[k].available /\ Within(Operation("available", boot.mmap[k]), p)
           /\ ~Meets(Operation("reserve", boot.kernel), p)
           /\ ~Meets(Operation("reserve", [start |-> 0, end |-> LOW]), p)
<1> DEFINE s == Available(boot)
           n == Len(s)
           x == Operation("reserve", boot.kernel)
           y == Operation("reserve", [start |-> 0, end |-> LOW])
           Avail == {m \in DOMAIN boot.mmap : boot.mmap[m].available}
           Gives(j) == /\ ops[j].operation = "available" /\ Within(ops[j], p)
           Takes(j) == ops[j].operation = "reserve" /\ Meets(ops[j], p)
<1>1. boot \in BootInfo /\ ops = init_ops(boot) /\ ops \in Seq(Op)
  BY BootedTypes DEF Booted
<1>2. /\ Len(ops) = n + 2 /\ n \in Nat /\ \A j \in 1..n : ops[j] = s[j]
      /\ ops[n + 1] = x /\ ops[n + 2] = y
  BY <1>1, OpsTypes
<1>3. /\ s \in Seq(Op)
      /\ Members(s) = {Operation("available", boot.mmap[j]) : j \in Avail}
  BY <1>1, AvailableIs
<1>4. p \in Usable <=> \E j \in 1..(n+2) : Gives(j) /\ \A m \in 1..(n+2) : m > j => ~Takes(m)
  BY <1>1, <1>2, UsableIs DEF Upto
<1>5. x.operation = "reserve" /\ y.operation = "reserve"
  BY DEF Operation
<1> HIDE DEF s, n, x, y
<1>6. ASSUME NEW j \in 1..n
      PROVE  /\ \E k \in Avail : ops[j] = Operation("available", boot.mmap[k])
             /\ ops[j].operation = "available"
  <2>1. s[j] \in Members(s)
    BY DEF Members, n
  <2>2. PICK k \in Avail : s[j] = Operation("available", boot.mmap[k])
    BY <1>3, <2>1
  <2>3. ops[j].operation = "available"
    BY <1>2, <2>2 DEF Operation
  <2> QED BY <1>2, <2>2, <2>3
<1>7. ASSUME NEW k \in Avail PROVE \E j \in 1..n : ops[j] = Operation("available", boot.mmap[k])
  <2>1. Operation("available", boot.mmap[k]) \in Members(s)
    BY <1>3
  <2>2. PICK j \in 1..n : s[j] = Operation("available", boot.mmap[k])
    BY <2>1 DEF Members, n
  <2> QED BY <1>2, <2>2
<1>8. \A j \in 1..(n+2) : j \in 1..n \/ j = n+1 \/ j = n+2
  BY <1>2
<1>9. n+1 \in 1..(n+2) /\ n+2 \in 1..(n+2) /\ \A j \in 1..n : j \in 1..(n+2) /\ n+1 > j /\ n+2 > j
  BY <1>2
<1>10. (\E j \in 1..(n+2) : Gives(j) /\ \A m \in 1..(n+2) : m > j => ~Takes(m))
        <=> (\E j \in 1..n : Gives(j)) /\ ~Takes(n+1) /\ ~Takes(n+2)
  <2>1. \A j \in 1..n : ~Takes(j)
    BY <1>6
  <2>2. ~Gives(n+1) /\ ~Gives(n+2)
    BY <1>2, <1>5
  <2> HIDE DEF Gives, Takes
  <2> QED BY <1>8, <1>9, <2>1, <2>2
<1>11. Takes(n+1) <=> Meets(x, p)
  BY <1>2, <1>5
<1>12. Takes(n+2) <=> Meets(y, p)
  BY <1>2, <1>5
<1>13. (\E j \in 1..n : Gives(j)) <=>
         \E k \in Avail : Within(Operation("available", boot.mmap[k]), p)
  BY <1>6, <1>7
<1> HIDE DEF Gives, Takes
<1> QED BY <1>4, <1>10, <1>11, <1>12, <1>13 DEF x, y

(* phys_mem_end is the greatest end of a segment.                          *)
LEMMA MapEndIs ==
  ASSUME NEW b \in BootInfo
  PROVE  MapEnd(b) \in Nat /\ \A k \in DOMAIN b.mmap : b.mmap[k].end <= MapEnd(b)
<1> DEFINE n == Len(b.mmap)
           end(k) == b.mmap[k].end
           ends(m) == {0} \cup {end(k) : k \in 1..m}
           S == {m \in Nat : m <= n => \E e \in ends(m) : \A f \in ends(m) : f <= e}
<1>1. n \in Nat /\ DOMAIN b.mmap = 1..n
  BY DEF BootInfo
<1>2. ASSUME NEW k \in 1..n PROVE end(k) \in Nat
  <2> DEFINE m == b.mmap
             T == [start : Nat, end : Nat, available : BOOLEAN]
  <2>1. m \in Seq(T) /\ k \in 1..Len(m)
    BY DEF BootInfo
  <2> HIDE DEF m, T
  <2>2. m[k] \in T
    BY <2>1
  <2> QED BY <2>2 DEF m, T
<1>3. MapEnd(b) = CHOOSE e \in ends(n) : \A f \in ends(n) : f <= e
  BY <1>1 DEF MapEnd
<1> HIDE DEF n, end
<1>4. ASSUME NEW m \in Nat, m <= n PROVE ends(m) \subseteq Nat
  BY <1>1, <1>2, <1>4
<1>5. 0 \in S
  <2>1. ends(0) = {0}
    OBVIOUS
  <2> HIDE DEF ends
  <2> QED BY <2>1
<1>6. ASSUME NEW m \in Nat, m \in S PROVE m+1 \in S
  <2> SUFFICES ASSUME m+1 <= n PROVE \E e \in ends(m+1) : \A f \in ends(m+1) : f <= e
    OBVIOUS
  <2>1. m <= n /\ m+1 \in 1..n /\ m+1 \in 1..(m+1) /\ 1..m \subseteq 1..(m+1)
        /\ \A k \in 1..(m+1) : k \in 1..m \/ k = m+1
    BY <1>1
  <2>2. ends(m+1) = ends(m) \cup {end(m+1)}
    BY <2>1
  <2>3. PICK e \in ends(m) : \A f \in ends(m) : f <= e
    BY <1>6, <2>1
  <2>4. ends(m) \subseteq Nat /\ end(m+1) \in Nat
    BY <1>2, <1>4, <2>1
  <2> HIDE DEF ends
  <2>5. CASE end(m+1) <= e
    BY <2>2, <2>3, <2>5
  <2>6. CASE ~(end(m+1) <= e)
    <3>1. \A f \in ends(m+1) : f <= end(m+1)
      BY <2>2, <2>3, <2>4, <2>6
    <3> QED BY <2>2, <3>1
  <2> QED BY <2>5, <2>6
<1>7. Nat \subseteq S
  <2> HIDE DEF S
  <2> QED BY <1>5, <1>6, SetInduction
<1>8. \E e \in ends(n) : \A f \in ends(n) : f <= e
  <2>1. n \in S /\ n <= n
    <3> HIDE DEF S
    <3> QED BY <1>1, <1>7
  <2> HIDE DEF ends
  <2> QED BY <2>1
<1>9. MapEnd(b) \in ends(n) /\ \A f \in ends(n) : f <= MapEnd(b)
  BY <1>3, <1>8
<1>10. MapEnd(b) \in Nat
  BY <1>1, <1>4, <1>9
<1>11. \A k \in 1..n : end(k) <= MapEnd(b)
  BY <1>9
<1> QED BY <1>1, <1>10, <1>11 DEF end

(* The allocator holds exactly the memory that the boot loader left to     *)
(* the kernel, all of it below phys_mem_end.                               *)
THEOREM BootMapHolds == MemSpec => []BootMap
<1>1. MemInv => BootMap
  <2> SUFFICES ASSUME MemInv, up, NEW p \in Pages, NEW held,
                      held = \E b \in FreeBlocks \cup Owned : p \in PagesOf(b[1], b[2])
      PROVE  /\ held <=> LeftByBoot(p)
             /\ held => Address(LAST_LEV, p) + PAGE <= phys_mem_end
    BY DEF BootMap
  <2>1. held <=> p \in Usable
    <3> DEFINE H == {c \in FreeBlocks \cup Owned : p \in PagesOf(c[1], c[2])}
    <3>1. held <=> H # {}
      OBVIOUS
    <3>2. /\ p \in Usable => \E b : H = {b}
          /\ p \notin Usable => H = {}
      BY Holders
    <3> HIDE DEF H
    <3> QED BY <3>1, <3>2
  <2>2. Booted /\ boot \in BootInfo /\ boot \in BootInfos /\ phys_mem_end = MapEnd(boot)
    BY BootedTypes DEF MemInv, Booted
  <2> DEFINE from == Address(LAST_LEV, p)
  <2>3. from \in Nat /\ Address(LAST_LEV, p + 1) = from + PAGE /\ PAGE \in Nat \ {0}
    BY NextAddress, BuddyConstants
  <2> HIDE DEF from
  <2>4. ASSUME NEW k \in DOMAIN boot.mmap
        PROVE  Within(Operation("available", boot.mmap[k]), p) <=>
                 boot.mmap[k].start <= from /\ from + PAGE <= boot.mmap[k].end
    BY <2>3 DEF Within, Operation, from
  <2>5. ~Meets(Operation("reserve", boot.kernel), p) <=>
          from + PAGE <= boot.kernel.start \/ boot.kernel.end <= from
    <3>1. boot.kernel.start < boot.kernel.end /\ boot.kernel.start \in Nat /\ boot.kernel.end \in Nat
      BY <2>2, MemoryConstants DEF BootInfo
    <3>2. Meets(Operation("reserve", boot.kernel), p) <=>
            /\ boot.kernel.start < boot.kernel.end /\ boot.kernel.start < from + PAGE
            /\ from < boot.kernel.end
      BY <2>3 DEF Meets, Operation, from
    <3> QED BY <2>3, <3>1, <3>2
  <2>6. ~Meets(Operation("reserve", [start |-> 0, end |-> LOW]), p) <=> from >= LOW
    <3>1. LOW \in Nat \ {0}
      BY MemoryConstants
    <3>2. Meets(Operation("reserve", [start |-> 0, end |-> LOW]), p) <=>
            0 < LOW /\ 0 < from + PAGE /\ from < LOW
      BY <2>3 DEF Meets, Operation, from
    <3> QED BY <2>3, <3>1, <3>2
  <2>7. p \in Usable <=>
          /\ \E k \in DOMAIN boot.mmap :
               boot.mmap[k].available /\ Within(Operation("available", boot.mmap[k]), p)
          /\ ~Meets(Operation("reserve", boot.kernel), p)
          /\ ~Meets(Operation("reserve", [start |-> 0, end |-> LOW]), p)
    BY <2>2, UsableInMap
  <2>8. LeftByBoot(p) <=>
          /\ \E k \in DOMAIN boot.mmap :
               /\ boot.mmap[k].available /\ boot.mmap[k].start <= from
               /\ from + PAGE <= boot.mmap[k].end
          /\ from >= LOW
          /\ from + PAGE <= boot.kernel.start \/ boot.kernel.end <= from
    BY DEF LeftByBoot, from
  <2>9. held <=> LeftByBoot(p)
    BY <2>1, <2>4, <2>5, <2>6, <2>7, <2>8
  <2>10. ASSUME held PROVE from + PAGE <= phys_mem_end
    <3>1. PICK k \in DOMAIN boot.mmap : from + PAGE <= boot.mmap[k].end
      BY <2>8, <2>9, <2>10
    <3>2. boot.mmap[k].end <= phys_mem_end /\ phys_mem_end \in Nat
      BY <2>2, MapEndIs
    <3>3. boot.mmap[k].end \in Nat
      <4> DEFINE m == boot.mmap
                 T == [start : Nat, end : Nat, available : BOOLEAN]
      <4>1. m \in Seq(T) /\ k \in DOMAIN m
        BY <2>2 DEF BootInfo
      <4> HIDE DEF m, T
      <4>2. m[k] \in T
        BY <4>1
      <4> QED BY <4>2 DEF m, T
    <3> QED BY <2>3, <3>1, <3>2, <3>3
  <2> QED BY <2>9, <2>10 DEF from
<1> QED BY <1>1, MemCorrect, PTL

-----------------------------------------------------------------------------
(* FreeLists: walking the rows.                                            *)

LEMMA RowIsRead ==
  ASSUME NEW lev \in Levels, NEW s, Row(a, lev, s), NEW free, free = FreeOn(a, lev),
         NEW n, n = Cardinality(free),
         NEW walk, walk = ChainNode(a.firsts[lev], a.next, n, None)
  PROVE  /\ {walk[k] : k \in 0..(n-1)} = free /\ walk[n] = None
         /\ \A i \in free : a.prev[i] = Before(a.next, None, a.firsts[lev], free, i)
<1> DEFINE next == a.next
           prev == a.prev
           first == a.firsts[lev]
<1>1. LineIs(next, prev, Blocks, None, first, s) /\ Members(s) = free
  BY DEF Row
<1>2. s \in Seq(Blocks) /\ Distinct(s) /\ first = Nth(s, 1, None)
      /\ \A k \in 1..Len(s) : next[s[k]] = Nth(s, k+1, None)
  BY <1>1 DEF LineIs
<1>3. n = Len(s) /\ n \in Nat
  BY <1>1, <1>2, DistinctCount
<1> HIDE DEF next, prev, first
<1>4. \A k \in 0..n : walk[k] = Nth(s, k+1, None)
  <2>1. ASSUME NEW N, s \in Seq(N), None \notin N
        PROVE  \A k \in 0..Len(s) : ChainNode(Nth(s, 1, None), next, Len(s), None)[k] = Nth(s, k+1, None)
    BY <1>2, <2>1, ChainNodes
  <2>2. \A k \in 0..Len(s) : ChainNode(Nth(s, 1, None), next, Len(s), None)[k] = Nth(s, k+1, None)
    BY <1>2, <2>1, NoneIsNoBlock
  <2> QED BY <1>2, <1>3, <2>2 DEF first, next
<1>5. walk[n] = None
  <2>1. n \in 0..n /\ n+1 \notin 1..Len(s)
    BY <1>3
  <2> QED BY <1>4, <2>1 DEF Nth
<1>6. {walk[k] : k \in 0..(n-1)} = free
  <2>1. ASSUME NEW k \in 0..(n-1) PROVE walk[k] = s[k+1] /\ k+1 \in 1..Len(s)
    <3>1. k \in 0..n /\ k+1 \in 1..Len(s)
      BY <1>3
    <3> QED BY <1>4, <3>1 DEF Nth
  <2>2. ASSUME NEW k \in 1..Len(s) PROVE s[k] = walk[k-1] /\ k-1 \in 0..(n-1)
    <3>1. k-1 \in 0..(n-1) /\ (k-1)+1 = k
      BY <1>3
    <3> QED BY <2>1, <3>1
  <2>3. {walk[k] : k \in 0..(n-1)} \subseteq Members(s)
    BY <2>1 DEF Members
  <2>4. Members(s) \subseteq {walk[k] : k \in 0..(n-1)}
    BY <2>2 DEF Members
  <2> QED BY <1>1, <2>3, <2>4
<1>7. \A i \in free : prev[i] = Before(next, None, first, free, i)
  <2>1. ASSUME NEW N, None \notin N, LineIs(next, prev, N, None, first, s), NEW i \in Members(s)
        PROVE  prev[i] = Before(next, None, first, Members(s), i)
    BY <2>1, LinePrev
  <2> QED BY <1>1, <2>1, NoneIsNoBlock
<1> QED BY <1>5, <1>6, <1>7 DEF next, prev, first

(* The list of a level holds exactly the free blocks of the level, and can *)
(* be walked in both directions.                                           *)
THEOREM FreeListsHolds == MemSpec => []FreeLists
<1>1. MemInv => FreeLists
  <2> SUFFICES ASSUME MemInv, NEW lev \in Levels
      PROVE LET free == {i \in OnLevel(lev) : a.free[i]}
                n    == Cardinality(free)
                walk[k \in 0..n] ==
                  IF k = 0 THEN a.firsts[lev]
                  ELSE IF walk[k-1] = None THEN None ELSE a.next[walk[k-1]]
            IN  /\ {walk[k] : k \in 0..(n-1)} = free
                /\ walk[n] = None
                /\ \A i \in free : a.prev[i] =
                     IF a.firsts[lev] = i THEN None
                     ELSE CHOOSE j \in free \cup {None} : j # None /\ a.next[j] = i
    BY DEF FreeLists
  <2> DEFINE free == {i \in OnLevel(lev) : a.free[i]}
             n    == Cardinality(free)
             walk[k \in 0..n] ==
               IF k = 0 THEN a.firsts[lev]
               ELSE IF walk[k-1] = None THEN None ELSE a.next[walk[k-1]]
  <2>1. walk = ChainNode(a.firsts[lev], a.next, n, None)
    BY DEF ChainNode
  <2>2. free = FreeOn(a, lev)
    BY DEF FreeOn
  <2> HIDE DEF walk, n, free
  <2>3. ListsOK(a)
    BY DEF MemInv, Sound, Keeps
  <2>4. PICK s : Row(a, lev, s)
    BY <2>3 DEF ListsOK
  <2>5. n = Cardinality(free)
    BY DEF n
  <2>6. /\ {walk[k] : k \in 0..(n-1)} = free /\ walk[n] = None
        /\ \A i \in free : a.prev[i] = Before(a.next, None, a.firsts[lev], free, i)
    BY <2>1, <2>2, <2>4, <2>5, RowIsRead
  <2>7. \A i \in free : a.prev[i] =
          IF a.firsts[lev] = i THEN None
          ELSE CHOOSE j \in free \cup {None} : j # None /\ a.next[j] = i
    BY <2>6 DEF Before
  <2> QED BY <2>6, <2>7 DEF walk, n, free
<1> QED BY <1>1, MemCorrect, PTL

-----------------------------------------------------------------------------
(* Serves: if the free blocks held all pages of a block and none of them   *)
(* were it or above it, then the smallest of them, and the other half of   *)
(* its parent, would be free.                                              *)

LEMMA AboveTwo ==
  ASSUME NEW B, NEW U, Tiling(B, U), NEW l \in Levels, NEW m \in Levels, l <= m,
         NEW p \in Pages, NEW q \in Pages, Anc(l, p) \in B, Anc(m, q) \in B, Anc(l, p) = Anc(l, q)
  PROVE  l = m
<1>1. Anc(l, q) \in Above(q) /\ Anc(m, q) \in Above(q)
  BY DEF Above
<1>2. Anc(l, q) = Anc(m, q)
  BY <1>1 DEF Tiling
<1>3. Anc(l, q) \in OnLevel(l) /\ Anc(m, q) \in OnLevel(m)
  BY AncBlock
<1> QED BY <1>2, <1>3, BlockTypes

LEMMA Unmerged ==
  ASSUME NEW F, F \subseteq Blocks, NEW U, Tiling(F, U), Pairs(F) = {},
         NEW lev \in Levels, NEW i \in OnLevel(lev), NEW g \in Pages, Anc(lev, g) = i,
         \A p \in Pages : Anc(lev, p) = i => \E x \in F : x \in Above(p)
  PROVE  \E l \in Levels : l <= lev /\ Anc(l, g) \in F
<1> SUFFICES ASSUME \A l \in Levels : l <= lev => Anc(l, g) \notin F PROVE FALSE
  OBVIOUS
<1> DEFINE In(p) == Anc(lev, p) = i
           Held(m) == \E p \in Pages : In(p) /\ Anc(m, p) \in F
           T == {LAST_LEV - m : m \in {k \in Levels : Held(k)}}
<1>1. ASSUME NEW p \in Pages, In(p) PROVE \E m \in Levels : m > lev /\ Anc(m, p) \in F
  <2>1. PICK x \in F : x \in Above(p)
    BY <1>1
  <2>2. PICK m \in Levels : x = Anc(m, p)
    BY <2>1 DEF Above
  <2>3. ~(m <= lev)
    <3>1. SUFFICES ASSUME m <= lev PROVE FALSE
      OBVIOUS
    <3>2. Anc(m, p) = Anc(m, g)
      BY <1>1, <3>1, AncAbove
    <3> QED BY <2>1, <2>2, <3>1, <3>2
  <2>4. m \in Nat /\ lev \in Nat
    BY Powers
  <2> QED BY <2>1, <2>2, <2>3, <2>4
<1>2. \E m \in Levels : Held(m)
  BY <1>1
<1> HIDE DEF Held
<1>3. T \in SUBSET Nat /\ T # {}
  BY <1>2, LevelTypes
<1>4. PICK t \in T : \A u \in T : t <= u
  BY <1>3, LeastNumber
<1>5. PICK m \in Levels : Held(m) /\ t = LAST_LEV - m
  BY <1>4
<1>6. ASSUME NEW k \in Levels, Held(k) PROVE k <= m
  <2>1. LAST_LEV - k \in T
    BY <1>6
  <2>2. LAST_LEV - m <= LAST_LEV - k
    BY <1>4, <1>5, <2>1
  <2>3. LAST_LEV \in Nat /\ k \in Nat /\ m \in Nat
    BY LevelTypes
  <2> QED BY <2>2, <2>3
<1> HIDE DEF T
<1>7. PICK p \in Pages : In(p) /\ Anc(m, p) \in F
  BY <1>5 DEF Held
<1>8. lev < m /\ lev \in Nat /\ m \in Nat
  <2>1. PICK k \in Levels : k > lev /\ Anc(k, p) \in F
    BY <1>1, <1>7
  <2>2. k <= m
    BY <1>6, <1>7, <2>1 DEF Held
  <2>3. lev \in Nat /\ m \in Nat /\ k \in Nat
    BY Powers
  <2> QED BY <2>1, <2>2, <2>3
<1> DEFINE b == Anc(m, p)
           j == b \div 2
<1>9. /\ m # 0 /\ m-1 \in Levels /\ m-1 # LAST_LEV /\ (m-1)+1 = m /\ b \in OnLevel(m)
      /\ j \in OnLevel(m-1) /\ lev <= m-1
  BY <1>8, AncBlock, Parents
<1>10. Anc(m-1, p) = j
  BY <1>9, AncParent
<1> HIDE DEF b, j
<1>11. ASSUME NEW c \in OnLevel(m), c \div 2 = j PROVE c \in F
  <2>1. PICK q \in Pages : Anc(m, q) = c
    BY PagesAre
  <2>2. Anc(m-1, q) = j
    BY <1>9, <1>11, <2>1, AncParent
  <2>3. In(q)
    <3>1. Anc(lev, q) = Anc(lev, p)
      BY <1>9, <1>10, <2>2, AncAbove
    <3> QED BY <1>7, <3>1
  <2>4. PICK k \in Levels : Anc(k, q) \in F
    BY <1>1, <2>3
  <2>5. k <= m
    BY <1>6, <2>3, <2>4 DEF Held
  <2>6. k = m
    <3>1. SUFFICES ASSUME k # m PROVE FALSE
      OBVIOUS
    <3>2. k <= m-1
      BY <1>8, <2>5, <3>1, Powers
    <3>3. Anc(k, q) = Anc(k, p)
      BY <1>9, <1>10, <2>2, <3>2, AncAbove
    <3>4. k = m
      BY <1>7, <2>4, <2>5, <3>3, AboveTwo
    <3> QED BY <3>1, <3>4
  <2> QED BY <2>1, <2>4, <2>6
<1>12. /\ 2*j \in OnLevel(m) /\ 2*j + 1 \in OnLevel(m)
       /\ (2*j) \div 2 = j /\ (2*j + 1) \div 2 = j /\ j \in Blocks
  BY <1>9, Halves, BlockTypes
<1>13. 2*j \in F /\ 2*j + 1 \in F
  BY <1>11, <1>12
<1>14. j \in Pairs(F)
  BY <1>12, <1>13 DEF Pairs
<1> QED BY <1>14

LEMMA FreeTile ==
  ASSUME NEW B, NEW U, Tiling(B, U), NEW F, F \subseteq B
  PROVE  \E V : Tiling(F, V)
<1> DEFINE V == {p \in Pages : \E x \in F : x \in Above(p)}
<1>1. Tiling(F, V)
  BY DEF Tiling
<1> QED BY <1>1

(* A request fails only when there is no aligned run of free pages of its  *)
(* size: free halves are always merged.                                    *)
THEOREM ServesHolds == MemSpec => []Serves
<1>1. MemInv => Serves
  <2> SUFFICES ASSUME MemInv, NEW lev \in Levels, Givers(a, lev) = {}, NEW i \in OnLevel(lev),
                      \A p \in PagesOf(lev, i) : \E b \in FreeBlocks : p \in PagesOf(b[1], b[2])
      PROVE  FALSE
    BY DEF Serves
  <2> DEFINE F == FreeSet(a)
             g == FirstPage(lev, i)
  <2>1. ListsOK(a) /\ Pairs(F) = {} /\ Tiling(F \cup GivenIn(a), Usable) /\ F \subseteq Blocks
    BY FreeTypes DEF MemInv, Sound, Keeps
  <2>2. \E V : Tiling(F, V)
    <3>1. F \subseteq F \cup GivenIn(a)
      OBVIOUS
    <3> HIDE DEF F
    <3> QED BY <2>1, <3>1, FreeTile
  <2>3. g \in Pages /\ Anc(lev, g) = i
    BY PagesAre
  <2>4. ASSUME NEW p \in Pages, Anc(lev, p) = i PROVE \E x \in F : x \in Above(p)
    <3>1. p \in PagesOf(lev, i)
      BY <2>4, PagesAre
    <3>2. PICK b \in FreeBlocks : p \in PagesOf(b[1], b[2])
      BY <3>1
    <3>3. IsBlock(b) /\ b[2] \in F
      BY FreeBlocksAre
    <3>4. b[2] \in Above(p)
      BY <3>2, <3>3, PagesOfIs
    <3> QED BY <3>3, <3>4
  <2> HIDE DEF F, g
  <2>5. PICK l \in Levels : l <= lev /\ Anc(l, g) \in F
    BY <2>1, <2>2, <2>3, <2>4, Unmerged
  <2>6. PICK s : Row(a, l, s)
    BY <2>1 DEF ListsOK
  <2>7. a.firsts[l] = None
    <3>1. l \in 0..lev
      BY <2>5, Powers
    <3> QED BY <3>1 DEF Givers
  <2>8. FreeOn(a, l) = {}
    BY <2>6, <2>7, FirstOfRow
  <2>9. Anc(l, g) \in FreeOn(a, l)
    BY <2>3, <2>5, AncBlock DEF FreeOn, F, FreeSet
  <2> QED BY <2>8, <2>9
<1> QED BY <1>1, MemCorrect, PTL

-----------------------------------------------------------------------------
(* The refinement of PageAlloc: buddy_alloc hands out a block, buddy_free  *)
(* takes one back, and all else stutters.                                  *)

Extent(i) == {p \in Pages : i \in Above(p)}

LEMMA ExtentIs ==
  ASSUME NEW l \in Levels, NEW i \in OnLevel(l)
  PROVE  /\ PagesOf(l, i) = Extent(i) /\ Extent(i) # {} /\ Extent(i) \in BlockSets
         /\ IsBlock(<<l, i>>)
<1>1. PagesOf(l, i) = Extent(i) /\ Extent(i) # {}
  BY PagesAre, InAbove DEF Extent
<1>2. <<l, i>> \in Levels \X Blocks /\ <<l, i>>[1] = l /\ <<l, i>>[2] = i
  BY BlockTypes
<1>3. PagesOf(l, i) \in BlockSets
  <2>1. <<l, i>> \in {c \in Levels \X Blocks : c[2] \in OnLevel(c[1])}
    BY <1>2
  <2>2. PagesOf(<<l, i>>[1], <<l, i>>[2]) \in BlockSets
    BY <2>1 DEF BlockSets
  <2> QED BY <1>2, <2>2
<1>4. IsBlock(<<l, i>>)
  BY <1>2 DEF IsBlock
<1> QED BY <1>1, <1>3, <1>4

Extents(G) == {Extent(i) : i \in G}

LEMMA OwnedSetsAre ==
  ASSUME AllocOK(a.allocated_level)
  PROVE  OwnedSets = Extents(GivenIn(a))
<1>1. ASSUME NEW b \in Owned PROVE PagesOf(b[1], b[2]) \in Extents(GivenIn(a))
  <2>1. IsBlock(b) /\ b[2] \in GivenIn(a)
    BY OwnedAre
  <2>2. b[1] \in Levels /\ b[2] \in OnLevel(b[1])
    BY <2>1 DEF IsBlock
  <2>3. PagesOf(b[1], b[2]) = Extent(b[2])
    BY <2>2, ExtentIs
  <2> QED BY <2>1, <2>3 DEF Extents
<1>2. ASSUME NEW i \in GivenIn(a) PROVE Extent(i) \in OwnedSets
  <2>1. PICK l \in Levels : i \in OnLevel(l)
    BY DEF GivenIn, Given
  <2>2. IsBlock(<<l, i>>) /\ PagesOf(l, i) = Extent(i)
    BY <2>1, ExtentIs
  <2>3. <<l, i>>[1] = l /\ <<l, i>>[2] = i
    OBVIOUS
  <2>4. <<l, i>> \in Owned
    BY <2>2, <2>3, OwnedAre
  <2>5. PagesOf(<<l, i>>[1], <<l, i>>[2]) \in OwnedSets
    BY <2>4 DEF OwnedSets
  <2> QED BY <2>2, <2>3, <2>5
<1>3. OwnedSets \subseteq Extents(GivenIn(a))
  BY <1>1 DEF OwnedSets
<1>4. Extents(GivenIn(a)) \subseteq OwnedSets
  BY <1>2 DEF Extents
<1> QED BY <1>3, <1>4

(* Blocks of a tiling have pages of their own.                             *)
LEMMA TilesApart ==
  ASSUME NEW B, NEW U, Tiling(B, U), NEW l \in Levels, NEW i \in OnLevel(l), i \in B
  PROVE  /\ Extent(i) \subseteq U
         /\ \A j \in B : j # i => Extent(j) \cap Extent(i) = {} /\ Extent(j) # Extent(i)
<1>1. Extent(i) # {}
  BY ExtentIs
<1>2. Extent(i) \subseteq U
  BY DEF Tiling, Extent
<1>3. \A j \in B : j # i => Extent(j) \cap Extent(i) = {}
  BY DEF Tiling, Extent
<1> QED BY <1>1, <1>2, <1>3

(* The blocks handed out, seen as sets of pages.                           *)
MemView == MemInv /\ OwnedSets = Extents(GivenIn(a))

LEMMA ViewHolds == MemSpec => []MemView
<1>1. MemInv => MemView
  BY OwnedSetsAre DEF MemInv, Sound, MemView
<1> QED BY <1>1, MemCorrect, PTL

LEMMA TilesOf ==
  ASSUME MemView
  PROVE  /\ Tiling(FreeSet(a) \cup GivenIn(a), Usable) /\ OwnedSets = Extents(GivenIn(a))
         /\ Sound(a, Usable)
BY DEF MemView, MemInv, Sound, Keeps

LEMMA AllocAbstract ==
  ASSUME MemView, MemView', ops' = ops, NEW l \in Levels, NEW h \in OnLevel(l),
         h \notin GivenIn(a), GivenIn(a') = GivenIn(a) \cup {h}
  PROVE  P!Next
<1> DEFINE G == GivenIn(a)
           B == FreeSet(a') \cup (G \cup {h})
           U == Usable
<1>1. Usable' = U
  BY DEF Usable
<1>2. Tiling(B, U) /\ OwnedSets' = Extents(G \cup {h})
  BY <1>1 DEF MemView, MemInv, Sound, Keeps
<1>3. OwnedSets = Extents(G)
  BY DEF MemView
<1>4. h \in B /\ \A j \in G : j \in B /\ j # h
  OBVIOUS
<1> HIDE DEF B, G, U
<1>5. Extent(h) \subseteq U /\ \A j \in B : j # h => Extent(j) \cap Extent(h) = {}
  BY <1>2, <1>4, TilesApart
<1>6. \A c \in OwnedSets : Extent(h) \cap c = {}
  BY <1>3, <1>4, <1>5 DEF Extents
<1>7. OwnedSets' = OwnedSets \cup {Extent(h)}
  BY <1>2, <1>3 DEF Extents
<1>8. P!Alloc(Extent(h))
  BY <1>1, <1>5, <1>6, <1>7 DEF P!Alloc, U
<1>9. Extent(h) \in BlockSets
  BY ExtentIs
<1> QED BY <1>8, <1>9 DEF P!Next

LEMMA FreeAbstract ==
  ASSUME MemView, MemView', ops' = ops, NEW l \in Levels, NEW h \in OnLevel(l),
         h \in GivenIn(a), GivenIn(a') = GivenIn(a) \ {h}
  PROVE  P!Next
<1> DEFINE G == GivenIn(a)
           B == FreeSet(a) \cup G
           U == Usable
<1>1. Usable' = U
  BY DEF Usable
<1>2. Tiling(B, U) /\ OwnedSets = Extents(G)
  BY TilesOf
<1>3. OwnedSets' = Extents(G \ {h})
  BY DEF MemView
<1>4. h \in B /\ h \in G /\ \A j \in G : j \in B
  OBVIOUS
<1> HIDE DEF B, G, U
<1>5. \A j \in B : j # h => Extent(j) # Extent(h)
  BY <1>2, <1>4, TilesApart
<1>6. Extent(h) \in OwnedSets
  BY <1>2, <1>4 DEF Extents
<1>7. OwnedSets' = OwnedSets \ {Extent(h)}
  BY <1>2, <1>3, <1>4, <1>5 DEF Extents
<1>8. P!Free(Extent(h))
  BY <1>1, <1>6, <1>7 DEF P!Free, U
<1>9. Extent(h) \in BlockSets
  BY ExtentIs
<1> QED BY <1>8, <1>9 DEF P!Next

LEMMA SameAbstract ==
  ASSUME MemView, MemView', ops' = ops, GivenIn(a') = GivenIn(a)
  PROVE  UNCHANGED P!vars
<1>1. Usable' = Usable
  BY DEF Usable
<1>2. OwnedSets' = OwnedSets
  BY DEF MemView
<1> QED BY <1>1, <1>2 DEF P!vars

LEMMA AllocRefines ==
  ASSUME MemView, MemView', NEW size \in 1..MAX_PAGE_SIZE, Alloc(size)
  PROVE  [P!Next]_P!vars
<1> DEFINE lev == LevelFor(size)
           got == get_from_level(a, lev)
           page == FirstPage(lev, got.block)
<1>1. lev \in Levels
  BY SizeHasLevel
<1>2. /\ a' = IF Givers(a, lev) = {} THEN Dies(a, "oom")
              ELSE IF got.al.allocated_level[page] # BUDDY_LEVELS THEN Dies(got.al, "assert")
              ELSE [got.al EXCEPT !.allocated_level[page] = lev]
      /\ ops' = ops
  BY DEF Alloc
<1> HIDE DEF lev
<1>3. CASE Givers(a, lev) = {}
  <2>1. a' = Dies(a, "oom")
    BY <1>2, <1>3
  <2>2. ListsOK(a)
    BY TilesOf DEF Sound, Keeps
  <2>3. GivenIn(a') = GivenIn(a)
    BY <2>1, <2>2, DiesField DEF GivenIn
  <2> QED BY <1>2, <2>3, SameAbstract
<1>4. CASE Givers(a, lev) # {}
  <2>1. /\ got.block \in OnLevel(lev) /\ got.block \notin GivenIn(a)
        /\ got.al.allocated_level[page] = BUDDY_LEVELS
        /\ GivenIn([got.al EXCEPT !.allocated_level[page] = lev]) = GivenIn(a) \cup {got.block}
    BY <1>1, <1>4, TilesOf, AllocStep
  <2> HIDE DEF got, page
  <2>2. a' = [got.al EXCEPT !.allocated_level[page] = lev]
    BY <1>2, <1>4, <2>1
  <2> DEFINE h == got.block
  <2>3. h \in OnLevel(lev) /\ h \notin GivenIn(a) /\ GivenIn(a') = GivenIn(a) \cup {h}
    BY <2>1, <2>2
  <2> HIDE DEF h
  <2>4. P!Next
    BY <1>1, <1>2, <2>3, AllocAbstract
  <2> QED BY <2>4
<1> QED BY <1>3, <1>4

LEMMA FreeRefines ==
  ASSUME MemView, MemView', NEW page \in Pages, Free(page)
  PROVE  [P!Next]_P!vars
<1> DEFINE lev == a.allocated_level[page]
           i == page \div 2^(LAST_LEV - lev)
           put == add_one([a EXCEPT !.allocated_level[page] = BUDDY_LEVELS], lev, i)
<1>1. /\ lev < BUDDY_LEVELS /\ ops' = ops
      /\ a' = IF page # FirstPage(lev, i) THEN Dies(a, "assert") ELSE try_merge_rec(put, lev, i)
  BY DEF Free
<1>2. lev # BUDDY_LEVELS
  BY <1>1, BuddyConstants
<1>3. /\ lev = a.allocated_level[page] /\ i = page \div 2^(LAST_LEV - lev)
      /\ put = add_one([a EXCEPT !.allocated_level[page] = BUDDY_LEVELS], lev, i)
  OBVIOUS
<1> HIDE DEF lev, i, put
<1>4. /\ lev \in Levels /\ i \in OnLevel(lev) /\ page = FirstPage(lev, i)
      /\ i \in GivenIn(a) /\ GivenIn(try_merge_rec(put, lev, i)) = GivenIn(a) \ {i}
  BY <1>2, <1>3, TilesOf, FreeStep
<1>5. GivenIn(a') = GivenIn(a) \ {i}
  BY <1>1, <1>4
<1>6. P!Next
  BY <1>1, <1>4, <1>5, FreeAbstract
<1> QED BY <1>6

LEMMA MemRefines ==
  ASSUME MemView, MemView', [MemNext]_memVars
  PROVE  [P!Next]_P!vars
<1>1. CASE UNCHANGED memVars
  <2>1. a' = a /\ ops' = ops
    BY <1>1 DEF memVars, vars
  <2> QED BY <2>1, SameAbstract
<1>2. CASE up /\ Next /\ UNCHANGED <<boot, phys_mem_end, up>>
  <2>1. CASE \E size \in 1..MAX_PAGE_SIZE : Alloc(size)
    BY <2>1, AllocRefines
  <2>2. CASE \E page \in Pages : Free(page)
    BY <2>2, FreeRefines
  <2>3. CASE Stopped
    <3>1. a' = a /\ ops' = ops
      BY <2>3 DEF Stopped, vars
    <3> QED BY <3>1, SameAbstract
  <2> QED BY <1>2, <2>1, <2>2, <2>3 DEF Next
<1> QED BY <1>1, <1>2 DEF MemNext

LEMMA InitRefines ==
  ASSUME init_memory, MemView
  PROVE  P!Init
<1>1. Booted /\ a = buddy_init(ops)
  BY DEF init_memory, Booted, Init
<1>2. ops \in Seq(Op)
  BY <1>1, BootedTypes
<1>3. a.allocated_level = [p \in Pages |-> BUDDY_LEVELS]
  BY <1>1, <1>2, InitIs
<1>4. GivenIn(a) = {}
  BY <1>3, NothingGiven DEF GivenIn
<1>5. OwnedSets = {}
  BY <1>4 DEF MemView, Extents
<1> QED BY <1>5 DEF P!Init

(* buddy.c, started by init_memory, implements an allocator that gives     *)
(* aligned blocks of usable pages to one owner at a time.                  *)
THEOREM MemoryImplements == MemSpec => ImplementsPageAlloc
<1>1. init_memory /\ MemView => P!Init
  BY InitRefines
<1>2. MemView /\ MemView' /\ [MemNext]_memVars => [P!Next]_P!vars
  BY MemRefines
<1> QED BY <1>1, <1>2, ViewHolds, PTL DEF MemSpec, ImplementsPageAlloc, P!Spec

=============================================================================
