----------------------------- MODULE RingProofs -----------------------------
(***************************************************************************)
(* What the operations of list.c do to a ring, for lists of any length.    *)
(*                                                                         *)
(* Ring(ls, h, s) says that the entries of the list with head h are s, in  *)
(* this order, without a word about how a list is read; RingIsRead says    *)
(* that a walk along the pointers, as list_size makes it, then meets s and *)
(* nothing else, in both directions.  A walk is a recursive function, and  *)
(* facts about it need induction; the library's induction theorems take an *)
(* operator, so that induction is derived here for sets of numbers, and    *)
(* with it what a recursive function computes whose turns keep something.  *)
(***************************************************************************)
EXTENDS Lists, FiniteSetTheorems, TLAPS

-----------------------------------------------------------------------------
(* Induction over the natural numbers.                                     *)

LEMMA LeastNumber ==
  ASSUME NEW T \in SUBSET Nat, T # {}
  PROVE  \E m \in T : \A k \in T : m <= k
<1> DEFINE Below(n) == 0..(n-1)
           R == StrictSubsetOrdering(Nat)
           F == FiniteSubsetsOf(Nat)
           B == {Below(n) : n \in T}
<1>1. IsWellFoundedOn(R, F)
  BY FS_StrictSubsetOrderingWellFounded
<1>2. B \subseteq F /\ B # {}
  <2>1. ASSUME NEW n \in T PROVE Below(n) \in F
    <3>1. IsFiniteSet(Below(n)) BY FS_Interval
    <3>2. QED BY <3>1 DEF FiniteSubsetsOf
  <2>2. QED BY <2>1
<1>3. PICK x \in B : \A y \in B : ~(<<y, x>> \in R)
  <2> HIDE DEF B, R, F
  <2> QED BY <1>1, <1>2, WFMin
<1>4. PICK m \in T : x = Below(m)
  BY <1>3
<1>5. ASSUME NEW k \in T, k < m PROVE FALSE
  <2>1. k \in Below(m) /\ k \notin Below(k)
    BY <1>5
  <2>2. Below(k) \subseteq Below(m) /\ Below(k) # Below(m)
    BY <1>5, <2>1
  <2>3. <<Below(k), Below(m)>> \in R
    <3>1. Below(k) \in SUBSET Nat /\ Below(m) \in SUBSET Nat
      OBVIOUS
    <3> HIDE DEF Below
    <3> QED BY <2>2, <3>1 DEF StrictSubsetOrdering
  <2>4. QED BY <2>3, <1>3, <1>4
<1>6. QED BY <1>5

LEMMA SetInduction ==
  ASSUME NEW S, 0 \in S, \A n \in Nat : n \in S => n + 1 \in S
  PROVE  Nat \subseteq S
<1> SUFFICES ASSUME NEW n \in Nat, n \notin S PROVE FALSE
  OBVIOUS
<1> DEFINE T == {k \in Nat : k \notin S}
<1>1. T \in SUBSET Nat /\ T # {} OBVIOUS
<1>2. PICK m \in T : \A k \in T : m <= k
  BY <1>1, LeastNumber
<1>3. m # 0 BY <1>2
<1>4. m - 1 \in Nat /\ m - 1 \in S BY <1>2, <1>3
<1>5. QED BY <1>4, <1>2

-----------------------------------------------------------------------------
(* Loops: a recursive function over 0..n whose values satisfy an           *)
(* invariant, Ok[k] being the values possible after k turns.               *)

IsLoop(f, n, start, step) ==
  f = [k \in 0..n |-> IF k = 0 THEN start ELSE step[k][f[k-1]]]

LEMMA Recursion ==
  ASSUME NEW n \in Nat, NEW Ok, NEW start \in Ok[0], NEW step,
         \A k \in 1..n : \A x \in Ok[k-1] : step[k][x] \in Ok[k]
  PROVE  \E f : IsLoop(f, n, start, step) /\ \A k \in 0..n : f[k] \in Ok[k]
<1> DEFINE Is(m, f) == /\ f = [k \in 0..m |-> IF k = 0 THEN start ELSE step[k][f[k-1]]]
                       /\ \A k \in 0..m : f[k] \in Ok[k]
           S == {m \in Nat : m <= n => \E f : Is(m, f)}
<1>1. 0 \in S
  <2> DEFINE f == [k \in 0..0 |-> start]
  <2>1. \A k \in 0..0 : k = 0
    OBVIOUS
  <2>2. f = [k \in 0..0 |-> IF k = 0 THEN start ELSE step[k][f[k-1]]]
    BY <2>1
  <2>3. \A k \in 0..0 : f[k] \in Ok[k]
    BY <2>1
  <2> HIDE DEF f
  <2> QED BY <2>2, <2>3
<1>2. ASSUME NEW m \in Nat, m \in S PROVE m+1 \in S
  <2> SUFFICES ASSUME m+1 <= n PROVE \E f : Is(m+1, f)
    OBVIOUS
  <2>1. PICK f : Is(m, f)
    BY <1>2
  <2> DEFINE g == [k \in 0..(m+1) |-> IF k = m+1 THEN step[m+1][f[m]] ELSE f[k]]
  <2>2. /\ m+1 \in 1..n /\ (m+1)-1 = m /\ m+1 # 0 /\ m # m+1 /\ m+1 \in 0..(m+1)
        /\ m \in 0..m /\ m \in 0..(m+1)
        /\ \A k \in 0..(m+1) : k # m+1 => k \in 0..m
        /\ \A k \in 0..(m+1) : k # m+1 /\ k # 0 => k-1 \in 0..(m+1) /\ k-1 # m+1
    OBVIOUS
  <2>3. g[m+1] = step[m+1][f[m]] /\ g[m] = f[m]
        /\ \A k \in 0..(m+1) : k # m+1 => g[k] = f[k]
    BY <2>2
  <2>4. f[m] \in Ok[m] /\ step[m+1][f[m]] \in Ok[m+1]
    BY <2>1, <2>2
  <2>5. ASSUME NEW k \in 0..(m+1)
        PROVE  g[k] = IF k = 0 THEN start ELSE step[k][g[k-1]]
    <3>1. CASE k = m+1
      BY <2>2, <2>3, <3>1
    <3>2. CASE k # m+1
      <4>1. g[k] = f[k] /\ k \in 0..m
        BY <2>2, <2>3, <3>2
      <4>2. f[k] = IF k = 0 THEN start ELSE step[k][f[k-1]]
        BY <2>1, <4>1
      <4>3. k # 0 => g[k-1] = f[k-1]
        BY <2>2, <2>3, <3>2
      <4> HIDE DEF g
      <4> QED BY <4>1, <4>2, <4>3
    <3> QED BY <3>1, <3>2
  <2>6. \A k \in 0..(m+1) : g[k] \in Ok[k]
    BY <2>1, <2>2, <2>3, <2>4
  <2>7. g = [k \in 0..(m+1) |-> g[k]]
    OBVIOUS
  <2> HIDE DEF g
  <2>8. g = [k \in 0..(m+1) |-> IF k = 0 THEN start ELSE step[k][g[k-1]]]
    BY <2>5, <2>7
  <2> QED BY <2>6, <2>8
<1>3. Nat \subseteq S
  <2> HIDE DEF S
  <2> QED BY <1>1, <1>2, SetInduction
<1>4. n \in S
  <2> HIDE DEF S
  <2> QED BY <1>3
<1> QED BY <1>4 DEF IsLoop

LEMMA Turns ==
  ASSUME NEW n \in Nat, NEW Ok, NEW g, g[0] \in Ok[0],
         \A k \in 1..n : g[k-1] \in Ok[k-1] => g[k] \in Ok[k]
  PROVE  \A k \in 0..n : g[k] \in Ok[k]
<1> DEFINE S == {k \in Nat : k <= n => g[k] \in Ok[k]}
<1>1. 0 \in S
  OBVIOUS
<1>2. ASSUME NEW k \in Nat, k \in S PROVE k+1 \in S
  <2> SUFFICES ASSUME k+1 <= n PROVE g[k+1] \in Ok[k+1]
    OBVIOUS
  <2>1. k+1 \in 1..n /\ (k+1)-1 = k /\ g[k] \in Ok[k]
    BY <1>2
  <2> QED BY <2>1
<1>3. Nat \subseteq S
  <2> HIDE DEF S
  <2> QED BY <1>1, <1>2, SetInduction
<1> QED BY <1>3

-----------------------------------------------------------------------------
(* Walking.                                                                *)

(* The node a walk meets after k steps.                                    *)
Stop(h, s, k) == IF k \in 1..Len(s) THEN s[k] ELSE h

(* The function that Walk defines by recursion, which satisfies its        *)
(* equation.                                                               *)
WalkNode(f, h, b) ==
  CHOOSE node : node = [k \in 0..b |-> IF k = 0 THEN h ELSE Follow(f, node[k-1])]

LEMMA WalkNodes ==
  ASSUME NEW f, NEW h, NEW b \in Nat
  PROVE  WalkNode(f, h, b) =
           [k \in 0..b |-> IF k = 0 THEN h ELSE Follow(f, WalkNode(f, h, b)[k-1])]
<1> DEFINE Eq(g, n) == g = [k \in 0..n |-> IF k = 0 THEN h ELSE Follow(f, g[k-1])]
           S == {n \in Nat : \E g : Eq(g, n)}
<1>1. 0 \in S
  <2> DEFINE g == [k \in 0..0 |-> h]
  <2>1. Eq(g, 0) OBVIOUS
  <2> HIDE DEF g
  <2>2. QED BY <2>1
<1>2. ASSUME NEW n \in Nat, n \in S PROVE n + 1 \in S
  <2> PICK g : Eq(g, n) BY <1>2
  <2> DEFINE e == [k \in 0..(n+1) |-> IF k = n+1 THEN Follow(f, g[n]) ELSE g[k]]
  <2>1. e[0] = h
    OBVIOUS
  <2>2. ASSUME NEW k \in 0..(n+1), k # 0 PROVE e[k] = Follow(f, e[k-1])
    <3>1. CASE k = n + 1
      BY <3>1
    <3>2. CASE k # n + 1
      <4>1. k \in 0..n /\ k-1 \in 0..n /\ k - 1 # n + 1 BY <2>2, <3>2
      <4>2. e[k] = g[k] /\ e[k-1] = g[k-1] BY <4>1, <3>2
      <4>3. g[k] = Follow(f, g[k-1]) BY <2>2, <4>1
      <4>4. QED BY <4>2, <4>3
    <3>3. QED BY <3>1, <3>2
  <2>3. e = [k \in 0..(n+1) |-> e[k]]
    OBVIOUS
  <2> HIDE DEF e
  <2>4. Eq(e, n+1)
    BY <2>1, <2>2, <2>3
  <2>5. QED BY <2>4
<1>3. \E g : Eq(g, b)
  <2> HIDE DEF Eq
  <2>1. Nat \subseteq S BY <1>1, <1>2, SetInduction
  <2>2. QED BY <2>1
<1>4. QED
  BY <1>3 DEF WalkNode

LEMMA WalkIs ==
  ASSUME NEW f, NEW N, N \subseteq DOMAIN f, NEW h \in N, NEW s \in Seq(N),
         \A k \in 1..Len(s) : s[k] # h,
         \A k \in 0..Len(s) : f[Stop(h, s, k)] = Stop(h, s, k+1),
         NEW b \in Nat, Len(s) < b
  PROVE  Walk(f, h, b) = s
<1> DEFINE node[k \in 0..b] == IF k = 0 THEN h ELSE Follow(f, node[k-1])
           Good(k) == /\ k = b \/ node[k+1] = h
                      /\ \A j \in 1..k : node[j] # h
           n == Len(s)
<1>1. node = [k \in 0..b |-> IF k = 0 THEN h ELSE Follow(f, node[k-1])]
  <2>1. node = WalkNode(f, h, b)
    BY DEF WalkNode
  <2> HIDE DEF node
  <2>2. QED
    BY <2>1, WalkNodes
<1> HIDE DEF node
<1>2. node[0] = h /\ \A k \in 1..b : node[k] = Follow(f, node[k-1])
  BY <1>1
<1>3. \A k \in 0..(n+1) : node[k] = Stop(h, s, k)
  <2> DEFINE S == {k \in Nat : k <= n+1 => node[k] = Stop(h, s, k)}
  <2>1. 0 \in S
    BY <1>2 DEF Stop
  <2>2. ASSUME NEW k \in Nat, k \in S PROVE k+1 \in S
    <3> SUFFICES ASSUME k <= n PROVE node[k+1] = Stop(h, s, k+1)
      OBVIOUS
    <3>1. node[k] = Stop(h, s, k)
      BY <2>2
    <3>2. Stop(h, s, k) \in N
      BY DEF Stop
    <3>3. node[k+1] = Follow(f, node[k])
      BY <1>2
    <3>4. QED
      BY <3>1, <3>2, <3>3 DEF Follow
  <2>3. Nat \subseteq S
    <3> HIDE DEF S
    <3> QED BY <2>1, <2>2, SetInduction
  <2>4. QED
    BY <2>3
<1>4. n \in 0..b /\ Good(n)
  <2>1. n \in 0..b
    OBVIOUS
  <2>2. node[n+1] = h
    BY <1>3 DEF Stop
  <2>3. \A j \in 1..n : node[j] = s[j]
    BY <1>3 DEF Stop
  <2>4. QED
    BY <2>1, <2>2, <2>3
<1>5. ASSUME NEW k \in 0..b, Good(k) PROVE k = n
  <2>1. node[n+1] = h /\ \A j \in 1..n : node[j] # h
    BY <1>3 DEF Stop
  <2>2. CASE k > n
    <3>1. n + 1 \in 1..k BY <2>2
    <3>2. QED BY <3>1, <2>1, <1>5
  <2>3. CASE k < n
    <3>1. k # b /\ k+1 \in 1..n BY <2>3
    <3>2. QED BY <3>1, <2>1, <1>5
  <2>4. QED BY <2>2, <2>3
<1>6. (CHOOSE k \in 0..b : Good(k)) = n
  <2> HIDE DEF Good
  <2> QED BY <1>4, <1>5
<1>7. Walk(f, h, b) = [k \in 1..n |-> node[k]]
  BY <1>6 DEF Walk, node
<1>8. \A k \in 1..n : node[k] = s[k]
  BY <1>3 DEF Stop
<1>9. s = [k \in 1..n |-> s[k]]
  OBVIOUS
<1>10. QED
  BY <1>7, <1>8, <1>9

-----------------------------------------------------------------------------
(* Rings.  N are the nodes, X what a pointer can hold.                     *)

Pointers(N, X) == [next : [N -> X], prev : [N -> X]]

Members(s) == {s[k] : k \in 1..Len(s)}

Ring(ls, h, s) ==
  /\ \A k \in 1..Len(s) : s[k] # h
  /\ \A j, k \in 1..Len(s) : s[j] = s[k] => j = k
  /\ \A k \in 0..Len(s) : /\ ls.next[Stop(h, s, k)] = Stop(h, s, k+1)
                          /\ ls.prev[Stop(h, s, k+1)] = Stop(h, s, k)

(* s without its i-th element, and s backwards.                            *)
Cut(s, i)     == [k \in 1..(Len(s) - 1) |-> IF k < i THEN s[k] ELSE s[k+1]]
Backwards(s)  == [k \in 1..Len(s) |-> s[Len(s) + 1 - k]]

LEMMA CutType ==
  ASSUME NEW N, NEW s \in Seq(N), NEW i \in 1..Len(s)
  PROVE  /\ Cut(s, i) \in Seq(N)
         /\ Len(Cut(s, i)) = Len(s) - 1
         /\ \A k \in 1..(Len(s) - 1) :
              Cut(s, i)[k] = IF k < i THEN s[k] ELSE s[k+1]
BY DEF Cut

(* The members of the sequences above.                                     *)
LEMMA MembersAppend ==
  ASSUME NEW N, NEW s \in Seq(N), NEW e \in N
  PROVE  Append(s, e) \in Seq(N) /\ Members(Append(s, e)) = Members(s) \cup {e}
<1> DEFINE a == Append(s, e)
<1>1. /\ a \in Seq(N) /\ Len(a) = Len(s) + 1 /\ a[Len(s) + 1] = e
      /\ \A k \in 1..Len(s) : a[k] = s[k]
  OBVIOUS
<1> HIDE DEF a
<1>2. Members(a) \subseteq Members(s) \cup {e}
  BY <1>1 DEF Members
<1>3. Members(s) \cup {e} \subseteq Members(a)
  <2>1. Len(s) + 1 \in 1..Len(a) /\ \A k \in 1..Len(s) : k \in 1..Len(a)
    BY <1>1
  <2>2. QED BY <1>1, <2>1 DEF Members
<1>4. QED BY <1>1, <1>2, <1>3 DEF a

LEMMA MembersConcat ==
  ASSUME NEW N, NEW a \in Seq(N), NEW b \in Seq(N)
  PROVE  a \o b \in Seq(N) /\ Members(a \o b) = Members(a) \cup Members(b)
<1> DEFINE c == a \o b
           n == Len(a)
<1>1. /\ c \in Seq(N) /\ Len(c) = n + Len(b)
      /\ \A k \in 1..(n + Len(b)) : c[k] = IF k <= n THEN a[k] ELSE b[k-n]
  OBVIOUS
<1> HIDE DEF c
<1>2. ASSUME NEW k \in 1..Len(c) PROVE c[k] \in Members(a) \cup Members(b)
  <2>1. CASE k <= n
    BY <1>1, <2>1 DEF Members
  <2>2. CASE k > n
    <3>1. k-n \in 1..Len(b) /\ c[k] = b[k-n]
      BY <1>1, <2>2
    <3>2. QED BY <3>1 DEF Members
  <2>3. QED BY <2>1, <2>2
<1>3. ASSUME NEW k \in 1..n PROVE a[k] \in Members(c)
  <2>1. k \in 1..Len(c) /\ c[k] = a[k]
    BY <1>1
  <2>2. QED BY <2>1 DEF Members
<1>4. ASSUME NEW k \in 1..Len(b) PROVE b[k] \in Members(c)
  <2>1. k+n \in 1..Len(c) /\ (k+n)-n = k /\ ~(k+n <= n)
    BY <1>1
  <2>2. c[k+n] = b[k]
    BY <1>1, <2>1
  <2>3. QED BY <2>1, <2>2 DEF Members
<1>5. Members(c) = Members(a) \cup Members(b)
  <2>1. Members(c) \subseteq Members(a) \cup Members(b)
    BY <1>2 DEF Members
  <2>2. Members(a) \subseteq Members(c) /\ Members(b) \subseteq Members(c)
    BY <1>3, <1>4 DEF Members
  <2>3. QED BY <2>1, <2>2
<1>6. QED BY <1>1, <1>5 DEF c

LEMMA MembersCut ==
  ASSUME NEW N, NEW s \in Seq(N), NEW i \in 1..Len(s),
         \A j, k \in 1..Len(s) : s[j] = s[k] => j = k
  PROVE  Members(Cut(s, i)) = Members(s) \ {s[i]}
<1> DEFINE c == Cut(s, i)
<1>1. /\ Len(c) = Len(s) - 1
      /\ \A k \in 1..(Len(s) - 1) : c[k] = IF k < i THEN s[k] ELSE s[k+1]
  BY CutType
<1> HIDE DEF c
<1>2. ASSUME NEW k \in 1..Len(c) PROVE c[k] \in Members(s) \ {s[i]}
  <2> DEFINE j == IF k < i THEN k ELSE k+1
  <2>1. j \in 1..Len(s) /\ j # i /\ c[k] = s[j]
    BY <1>1
  <2>2. QED BY <2>1 DEF Members
<1>3. ASSUME NEW j \in 1..Len(s), s[j] # s[i] PROVE s[j] \in Members(c)
  <2> DEFINE k == IF j < i THEN j ELSE j-1
  <2>1. k \in 1..Len(c) /\ c[k] = s[j]
    BY <1>1, <1>3
  <2>2. QED BY <2>1 DEF Members
<1>4. Members(c) = Members(s) \ {s[i]}
  <2>1. Members(c) \subseteq Members(s) \ {s[i]}
    BY <1>2 DEF Members
  <2>2. Members(s) \ {s[i]} \subseteq Members(c)
    BY <1>3 DEF Members
  <2>3. QED BY <2>1, <2>2
<1>5. QED BY <1>4 DEF c

LEMMA CutRemoves ==
  ASSUME NEW N, NEW s \in Seq(N), NEW i \in 1..Len(s)
  PROVE  SubSeq(s, 1, i-1) \o SubSeq(s, i+1, Len(s)) = Cut(s, i)
<1> DEFINE n == Len(s)
           a == SubSeq(s, 1, i-1)
           b == SubSeq(s, i+1, n)
           c == a \o b
<1>1. /\ a \in Seq(N) /\ Len(a) = i-1
      /\ \A k \in 1..(i-1) : a[k] = s[k]
  OBVIOUS
<1>2. /\ b \in Seq(N) /\ Len(b) = n-i
      /\ \A k \in 1..(n-i) : b[k] = s[k+i]
  OBVIOUS
<1>3. /\ c \in Seq(N) /\ Len(c) = Len(a) + Len(b)
      /\ \A k \in 1..(Len(a) + Len(b)) :
           c[k] = IF k <= Len(a) THEN a[k] ELSE b[k - Len(a)]
  <2>1. a \in Seq(N) /\ b \in Seq(N)
    BY <1>1, <1>2
  <2> HIDE DEF a, b
  <2>2. QED BY <2>1
<1> HIDE DEF a, b, c
<1>4. Len(c) = n-1 /\ \A k \in 1..(n-1) : c[k] = IF k < i THEN s[k] ELSE s[k+1]
  <2>1. Len(c) = n-1
    BY <1>1, <1>2, <1>3
  <2>2. ASSUME NEW k \in 1..(n-1), k < i PROVE c[k] = s[k]
    <3>1. k <= Len(a) /\ k \in 1..(Len(a) + Len(b)) /\ k \in 1..(i-1)
      BY <1>1, <1>2, <2>2
    <3>2. QED BY <1>1, <1>3, <3>1
  <2>3. ASSUME NEW k \in 1..(n-1), ~(k < i) PROVE c[k] = s[k+1]
    <3>1. k - (i-1) \in 1..(n-i) /\ (k - (i-1)) + i = k+1
      BY <2>3
    <3>2. c[k] = b[k - (i-1)]
      <4>1. ~(k <= Len(a)) /\ k \in 1..(Len(a) + Len(b)) /\ Len(a) = i-1
        BY <1>1, <1>2, <2>3
      <4>2. c[k] = b[k - Len(a)]
        BY <1>3, <4>1
      <4>3. QED BY <4>1, <4>2
    <3>3. QED BY <1>2, <3>1, <3>2
  <2>4. QED BY <2>1, <2>2, <2>3
<1>5. c = [k \in 1..(n-1) |-> c[k]]
  BY <1>3, <1>4
<1>6. c = Cut(s, i)
  BY <1>4, <1>5 DEF Cut
<1>7. QED
  BY <1>6 DEF c, a, b

(* Nothing outside the ring matters to it.                                 *)
LEMMA RingFrame ==
  ASSUME NEW N, NEW ls, NEW l2, NEW h, NEW s \in Seq(N), Ring(ls, h, s),
         \A x \in {h} \cup Members(s) : /\ l2.next[x] = ls.next[x]
                                        /\ l2.prev[x] = ls.prev[x]
  PROVE  Ring(l2, h, s)
<1>1. \A k \in 0..(Len(s)+1) : Stop(h, s, k) \in {h} \cup Members(s)
  BY DEF Stop, Members
<1>2. QED
  BY <1>1 DEF Ring

LEMMA RingInit ==
  ASSUME NEW N, NEW X, NEW ls \in Pointers(N, X), NEW h \in N
  PROVE  Ring(ListInit(ls, h), h, <<>>)
BY DEF Ring, ListInit, Pointers, Stop

(* The neighbours of the entries of a ring are in the ring.                *)
LEMMA RingCloses ==
  ASSUME NEW N, NEW ls, NEW h, NEW s \in Seq(N), Ring(ls, h, s),
         NEW x \in {h} \cup Members(s)
  PROVE  ls.next[x] \in {h} \cup Members(s) /\ ls.prev[x] \in {h} \cup Members(s)
<1>1. PICK k \in 0..Len(s) : x = Stop(h, s, k)
  BY DEF Stop, Members
<1>2. ls.next[x] = Stop(h, s, k+1)
  BY <1>1 DEF Ring
<1>3. PICK j \in 0..Len(s) : x = Stop(h, s, j+1)
  <2>1. CASE k = 0
    BY <2>1, <1>1 DEF Stop
  <2>2. CASE k # 0
    BY <2>2, <1>1 DEF Stop
  <2>3. QED BY <2>1, <2>2
<1>4. ls.prev[x] = Stop(h, s, j)
  BY <1>3 DEF Ring
<1>5. QED
  BY <1>2, <1>4 DEF Stop, Members

LEMMA RingEnds ==
  ASSUME NEW N, NEW ls, NEW h, NEW s \in Seq(N), Ring(ls, h, s)
  PROVE  /\ ls.next[h] = IF s = <<>> THEN h ELSE s[1]
         /\ ls.prev[h] = IF s = <<>> THEN h ELSE s[Len(s)]
<1>1. ls.next[Stop(h, s, 0)] = Stop(h, s, 1)
  BY DEF Ring
<1>2. ls.prev[Stop(h, s, Len(s)+1)] = Stop(h, s, Len(s))
  BY DEF Ring
<1>3. QED
  BY <1>1, <1>2 DEF Stop

(* list_insert, at any place of the ring.                                  *)
Inserted(s, i, e) == [k \in 1..(Len(s) + 1) |->
                   IF k <= i THEN s[k] ELSE IF k = i + 1 THEN e ELSE s[k-1]]

LEMMA RingInsert ==
  ASSUME NEW N, NEW X, N \subseteq X, NEW ls \in Pointers(N, X), NEW h \in N,
         NEW s \in Seq(N), Ring(ls, h, s),
         NEW e \in N, e # h, e \notin Members(s), NEW i \in 0..Len(s)
  PROVE  Ring(ListInsert(ls, e, Stop(h, s, i), Stop(h, s, i+1)), h, Inserted(s, i, e))
<1> DEFINE n  == Len(s)
           p  == Stop(h, s, i)
           q  == Stop(h, s, i+1)
           l2 == ListInsert(ls, e, p, q)
           s2 == Inserted(s, i, e)
<1>1. p \in N /\ q \in N /\ p # e /\ q # e
  BY DEF Stop, Members
<1>2. /\ l2.next = [[ls.next EXCEPT ![e] = q] EXCEPT ![p] = e]
      /\ l2.prev = [[ls.prev EXCEPT ![e] = p] EXCEPT ![q] = e]
  BY DEF ListInsert, LinkNew, SetNext, SetPrev, Pointers
<1>3. /\ l2.next[e] = q /\ l2.next[p] = e
      /\ l2.prev[e] = p /\ l2.prev[q] = e
      /\ \A x \in N \ {e, p} : l2.next[x] = ls.next[x]
      /\ \A x \in N \ {e, q} : l2.prev[x] = ls.prev[x]
  BY <1>1, <1>2 DEF Pointers
<1>4. /\ s2 \in Seq(N) /\ Len(s2) = n + 1
      /\ \A k \in 1..(n+1) : s2[k] = IF k <= i THEN s[k]
                                     ELSE IF k = i + 1 THEN e ELSE s[k-1]
  BY DEF Inserted
<1>5. \A k \in 0..(n+2) : Stop(h, s2, k) = IF k <= i THEN Stop(h, s, k)
                                           ELSE IF k = i + 1 THEN e
                                           ELSE Stop(h, s, k-1)
  BY <1>4 DEF Stop
<1> DEFINE src(k) == IF k <= i THEN k ELSE k - 1
<1>6. /\ s2[i+1] = e
      /\ \A k \in (1..(n+1)) \ {i+1} :
           src(k) \in 1..n /\ s2[k] = s[src(k)] /\ s2[k] # h /\ s2[k] # e
  <2> HIDE DEF s2
  <2>1. s2[i+1] = e
    BY <1>4
  <2>2. ASSUME NEW k \in (1..(n+1)) \ {i+1}
        PROVE  src(k) \in 1..n /\ s2[k] = s[src(k)]
    BY <1>4
  <2>3. \A k \in 1..n : s[k] # h /\ s[k] # e
    BY DEF Ring, Members
  <2> HIDE DEF src
  <2>4. QED BY <2>1, <2>2, <2>3
<1>7. \A j, k \in 1..(n+1) : s2[j] = s2[k] => j = k
  <2> SUFFICES ASSUME NEW j \in 1..(n+1), NEW k \in 1..(n+1), s2[j] = s2[k]
               PROVE  j = k
    OBVIOUS
  <2> HIDE DEF s2
  <2>1. CASE j = i+1 \/ k = i+1
    BY <2>1, <1>6
  <2>2. CASE j # i+1 /\ k # i+1
    <3>1. src(j) = src(k)
      BY <2>2, <1>6 DEF Ring
    <3>2. QED BY <2>2, <3>1
  <2>3. QED BY <2>1, <2>2
<1>8. /\ \A k \in 0..n : k # i => Stop(h, s, k) # p
      /\ \A k \in 1..(n+1) : k # i + 1 => Stop(h, s, k) # q
      /\ \A k \in 0..(n+1) : Stop(h, s, k) \in N \ {e}
  BY DEF Stop, Ring, Members
<1>9. ASSUME NEW k \in 0..(n+1)
      PROVE  /\ l2.next[Stop(h, s2, k)] = Stop(h, s2, k+1)
             /\ l2.prev[Stop(h, s2, k+1)] = Stop(h, s2, k)
  <2> HIDE DEF l2, s2, p, q
  <2>1. CASE k < i
    <3>1. /\ Stop(h, s2, k) = Stop(h, s, k)
          /\ Stop(h, s2, k+1) = Stop(h, s, k+1)
          /\ k \in 0..n /\ k # i /\ k + 1 \in 1..(n+1) /\ k + 1 # i + 1
      BY <2>1, <1>5
    <3>2. /\ ls.next[Stop(h, s, k)] = Stop(h, s, k+1)
          /\ ls.prev[Stop(h, s, k+1)] = Stop(h, s, k)
      BY <3>1 DEF Ring
    <3>3. Stop(h, s, k) \in N \ {e, p} /\ Stop(h, s, k+1) \in N \ {e, q}
      BY <3>1, <1>8
    <3>4. QED BY <3>1, <3>2, <3>3, <1>3
  <2>2. CASE k = i
    BY <2>2, <1>3, <1>5 DEF p, q
  <2>3. CASE k = i + 1
    BY <2>3, <1>3, <1>5 DEF p, q
  <2>4. CASE k > i + 1
    <3>1. /\ Stop(h, s2, k) = Stop(h, s, k-1)
          /\ Stop(h, s2, k+1) = Stop(h, s, k)
          /\ k-1 \in 0..n /\ k-1 # i /\ k \in 1..(n+1) /\ k # i + 1
      BY <2>4, <1>5
    <3>2. /\ ls.next[Stop(h, s, k-1)] = Stop(h, s, k)
          /\ ls.prev[Stop(h, s, k)] = Stop(h, s, k-1)
      BY <3>1 DEF Ring
    <3>3. Stop(h, s, k-1) \in N \ {e, p} /\ Stop(h, s, k) \in N \ {e, q}
      BY <3>1, <1>8
    <3>4. QED BY <3>1, <3>2, <3>3, <1>3
  <2>5. QED BY <2>1, <2>2, <2>3, <2>4
<1>10. Len(s2) = n + 1 /\ \A k \in 1..(n+1) : s2[k] # h
  BY <1>4, <1>6
<1>11. Ring(l2, h, s2)
  <2> HIDE DEF l2, s2, n
  <2> QED BY <1>7, <1>9, <1>10 DEF Ring
<1>12. QED
  BY <1>11

(* list_add_tail and list_add.                                             *)
LEMMA RingAddTail ==
  ASSUME NEW N, NEW X, N \subseteq X, NEW ls \in Pointers(N, X), NEW h \in N,
         NEW s \in Seq(N), Ring(ls, h, s),
         NEW e \in N, e # h, e \notin Members(s)
  PROVE  Ring(ListAddTail(ls, e, h), h, Append(s, e))
<1>1. ls.prev[h] = IF s = <<>> THEN h ELSE s[Len(s)]
  BY RingEnds
<1>4. Stop(h, s, Len(s)) = ls.prev[h] /\ Stop(h, s, Len(s)+1) = h
  BY <1>1 DEF Stop
<1>2. Inserted(s, Len(s), e) = Append(s, e)
  <2> DEFINE a == Append(s, e)
             n == Len(s)
  <2>1. /\ a \in Seq(N) /\ Len(a) = n + 1
        /\ \A k \in 1..(n+1) : a[k] = IF k <= n THEN s[k] ELSE e
    OBVIOUS
  <2> HIDE DEF a
  <2>2. a = [k \in 1..(n+1) |-> a[k]]
    BY <2>1
  <2>3. a = [k \in 1..(n+1) |-> IF k <= n THEN s[k] ELSE e]
    BY <2>1, <2>2
  <2>4. Inserted(s, n, e) = [k \in 1..(n+1) |-> IF k <= n THEN s[k] ELSE e]
    BY DEF Inserted
  <2>5. QED
    BY <2>3, <2>4 DEF a
<1>3. Ring(ListInsert(ls, e, Stop(h, s, Len(s)), Stop(h, s, Len(s)+1)), h,
           Inserted(s, Len(s), e))
  BY RingInsert
<1>5. QED
  BY <1>2, <1>3, <1>4 DEF ListAddTail

LEMMA RingAdd ==
  ASSUME NEW N, NEW X, N \subseteq X, NEW ls \in Pointers(N, X), NEW h \in N,
         NEW s \in Seq(N), Ring(ls, h, s),
         NEW e \in N, e # h, e \notin Members(s)
  PROVE  Ring(ListAdd(ls, e, h), h, <<e>> \o s)
<1>1. ls.next[h] = IF s = <<>> THEN h ELSE s[1]
  BY RingEnds
<1>4. Stop(h, s, 0) = h /\ Stop(h, s, 0+1) = ls.next[h]
  BY <1>1 DEF Stop
<1>2. Inserted(s, 0, e) = <<e>> \o s
  BY DEF Inserted
<1>3. Ring(ListInsert(ls, e, Stop(h, s, 0), Stop(h, s, 0+1)), h, Inserted(s, 0, e))
  BY RingInsert
<1>5. QED
  BY <1>2, <1>3, <1>4 DEF ListAdd

(* What list_insert next to a ring leaves alone.                           *)
LEMMA AddTailFrame ==
  ASSUME NEW N, NEW X, N \subseteq X, NEW ls \in Pointers(N, X), NEW h \in N,
         NEW s \in Seq(N), Ring(ls, h, s), NEW e \in N,
         NEW x \in N, x # e, x \notin {h} \cup Members(s)
  PROVE  /\ ListAddTail(ls, e, h).next[x] = ls.next[x]
         /\ ListAddTail(ls, e, h).prev[x] = ls.prev[x]
<1>1. ls.prev[h] \in {h} \cup Members(s)
  BY RingCloses
<1>2. QED
  BY <1>1 DEF ListAddTail, ListInsert, LinkNew, SetNext, SetPrev, Pointers

LEMMA AddFrame ==
  ASSUME NEW N, NEW X, N \subseteq X, NEW ls \in Pointers(N, X), NEW h \in N,
         NEW s \in Seq(N), Ring(ls, h, s), NEW e \in N,
         NEW x \in N, x # e, x \notin {h} \cup Members(s)
  PROVE  /\ ListAdd(ls, e, h).next[x] = ls.next[x]
         /\ ListAdd(ls, e, h).prev[x] = ls.prev[x]
<1>1. ls.next[h] \in {h} \cup Members(s)
  BY RingCloses
<1>2. QED
  BY <1>1 DEF ListAdd, ListInsert, LinkNew, SetNext, SetPrev, Pointers

LEMMA ListOpsType ==
  ASSUME NEW N, NEW X, N \subseteq X, NEW ls \in Pointers(N, X), NEW h \in N,
         NEW s \in Seq(N), Ring(ls, h, s), NEW e \in N
  PROVE  /\ ListAddTail(ls, e, h) \in Pointers(N, X)
         /\ ListAdd(ls, e, h) \in Pointers(N, X)
         /\ ListDel(ls, e) \in Pointers(N, X)
<1>1. ls.next[h] \in X /\ ls.prev[h] \in X /\ ls.next[e] \in X /\ ls.prev[e] \in X
  BY DEF Pointers
<1>2. QED
  BY <1>1 DEF ListAddTail, ListAdd, ListInsert, ListDel, LinkNew, SetNext,
              SetPrev, Pointers

(* list_del.                                                               *)
LEMMA RingDel ==
  ASSUME NEW N, NEW X, N \subseteq X, NEW ls \in Pointers(N, X), NEW h \in N,
         NEW s \in Seq(N), Ring(ls, h, s), NEW i \in 1..Len(s)
  PROVE  Ring(ListDel(ls, s[i]), h, Cut(s, i))
<1> DEFINE n  == Len(s)
           p  == Stop(h, s, i-1)
           q  == Stop(h, s, i+1)
           l2 == ListDel(ls, s[i])
           s2 == Cut(s, i)
<1>1. ls.prev[s[i]] = p /\ ls.next[s[i]] = q
  <2>1. Stop(h, s, i) = s[i]
    BY DEF Stop
  <2>2. ls.next[Stop(h, s, i)] = Stop(h, s, i+1)
    BY DEF Ring
  <2>3. ls.prev[Stop(h, s, (i-1)+1)] = Stop(h, s, i-1)
    BY DEF Ring
  <2>4. QED BY <2>1, <2>2, <2>3
<1>2. p \in N /\ q \in N
  BY DEF Stop
<1>3. /\ l2.next = [ls.next EXCEPT ![p] = q]
      /\ l2.prev = [ls.prev EXCEPT ![q] = p]
  BY <1>1 DEF ListDel, SetNext, SetPrev, Pointers
<1>4. /\ l2.next[p] = q /\ l2.prev[q] = p
      /\ \A x \in N \ {p} : l2.next[x] = ls.next[x]
      /\ \A x \in N \ {q} : l2.prev[x] = ls.prev[x]
  BY <1>2, <1>3 DEF Pointers
<1> HIDE DEF l2
<1>5. /\ s2 \in Seq(N) /\ Len(s2) = n - 1
      /\ \A k \in 1..(n-1) : s2[k] = IF k < i THEN s[k] ELSE s[k+1]
  BY CutType
<1> HIDE DEF s2
<1>6. \A k \in 0..n : Stop(h, s2, k) = IF k < i THEN Stop(h, s, k)
                                       ELSE Stop(h, s, k+1)
  BY <1>5 DEF Stop
<1>7. /\ \A k \in 0..n : k # i-1 => Stop(h, s, k) # p
      /\ \A k \in 1..(n+1) : k # i + 1 => Stop(h, s, k) # q
      /\ \A k \in 0..(n+1) : Stop(h, s, k) \in N
  BY DEF Stop, Ring
<1> HIDE DEF p, q
<1>8. ASSUME NEW k \in 0..(n-1)
      PROVE  /\ l2.next[Stop(h, s2, k)] = Stop(h, s2, k+1)
             /\ l2.prev[Stop(h, s2, k+1)] = Stop(h, s2, k)
  <2>1. CASE k < i - 1
    <3>1. /\ Stop(h, s2, k) = Stop(h, s, k)
          /\ Stop(h, s2, k+1) = Stop(h, s, k+1)
          /\ k \in 0..n /\ k # i - 1 /\ k + 1 \in 1..(n+1) /\ k + 1 # i + 1
      BY <2>1, <1>6
    <3>2. /\ ls.next[Stop(h, s, k)] = Stop(h, s, k+1)
          /\ ls.prev[Stop(h, s, k+1)] = Stop(h, s, k)
      BY <3>1 DEF Ring
    <3>3. Stop(h, s, k) \in N \ {p} /\ Stop(h, s, k+1) \in N \ {q}
      BY <3>1, <1>7
    <3>4. QED BY <3>1, <3>2, <3>3, <1>4
  <2>2. CASE k = i - 1
    BY <2>2, <1>4, <1>6 DEF p, q
  <2>3. CASE k > i - 1
    <3>1. /\ Stop(h, s2, k) = Stop(h, s, k+1)
          /\ Stop(h, s2, k+1) = Stop(h, s, k+2)
          /\ k+1 \in 0..n /\ k+1 # i-1 /\ k+2 \in 1..(n+1) /\ k+2 # i + 1
          /\ (k+1)+1 = k+2
      BY <2>3, <1>6
    <3>2. /\ ls.next[Stop(h, s, k+1)] = Stop(h, s, (k+1)+1)
          /\ ls.prev[Stop(h, s, (k+1)+1)] = Stop(h, s, k+1)
      BY <3>1 DEF Ring
    <3>3. Stop(h, s, k+1) \in N \ {p} /\ Stop(h, s, k+2) \in N \ {q}
      BY <3>1, <1>7
    <3>4. QED BY <3>1, <3>2, <3>3, <1>4
  <2>4. QED BY <2>1, <2>2, <2>3
<1>9. \A k \in 1..(n-1) : s2[k] # h
  BY <1>5 DEF Ring
<1>10. ASSUME NEW j \in 1..(n-1), NEW k \in 1..(n-1), s2[j] = s2[k]
       PROVE  j = k
  <2>1. \A a, b \in 1..n : s[a] = s[b] => a = b
    BY DEF Ring
  <2> DEFINE u == IF j < i THEN j ELSE j+1
             v == IF k < i THEN k ELSE k+1
  <2>2. u \in 1..n /\ v \in 1..n /\ s2[j] = s[u] /\ s2[k] = s[v]
    BY <1>5
  <2>3. u = v
    <3> HIDE DEF u, v
    <3> QED BY <1>10, <2>1, <2>2
  <2>4. QED BY <2>3
<1>11. Ring(l2, h, s2)
  <2>1. Len(s2) = n - 1
    BY <1>5
  <2> HIDE DEF n
  <2>2. QED BY <2>1, <1>8, <1>9, <1>10 DEF Ring
<1>12. QED
  BY <1>11 DEF l2, s2

LEMMA DelFrame ==
  ASSUME NEW N, NEW X, N \subseteq X, NEW ls \in Pointers(N, X), NEW h \in N,
         NEW s \in Seq(N), Ring(ls, h, s), NEW e \in Members(s),
         NEW x \in N, x \notin {h} \cup Members(s)
  PROVE  /\ ListDel(ls, e).next[x] = ls.next[x]
         /\ ListDel(ls, e).prev[x] = ls.prev[x]
<1>1. /\ ls.prev[e] \in {h} \cup Members(s)
      /\ ls.next[e] \in {h} \cup Members(s)
  BY RingCloses
<1>2. QED
  BY <1>1 DEF ListDel, SetNext, SetPrev, Pointers

(* list_splice.                                                            *)
LEMMA RingSplice ==
  ASSUME NEW N, NEW X, N \subseteq X, NEW ls \in Pointers(N, X),
         NEW l \in N, NEW h \in N, l # h, NEW a \in Seq(N), NEW b \in Seq(N),
         Ring(ls, l, a), Ring(ls, h, b), Members(a) \cap Members(b) = {},
         l \notin Members(b), h \notin Members(a)
  PROVE  /\ Ring(ListSplice(ls, l, h), h, a \o b)
         /\ Ring(ListSplice(ls, l, h), l, <<>>)
         /\ \A x \in N : x \notin {l, h} \cup Members(a) \cup Members(b) =>
              /\ ListSplice(ls, l, h).next[x] = ls.next[x]
              /\ ListSplice(ls, l, h).prev[x] = ls.prev[x]
<1> DEFINE n  == Len(a)
           m  == Len(b)
           c  == a \o b
           q  == Stop(h, b, 1)
           l2 == ListSplice(ls, l, h)
<1>1. /\ ls.next[l] = IF a = <<>> THEN l ELSE a[1]
      /\ ls.prev[l] = IF a = <<>> THEN l ELSE a[n]
      /\ ls.next[h] = q
  BY RingEnds DEF Stop
<1>2. CASE a = <<>>
  <2>1. c = b /\ l2 = ls
    <3>1. ls.next[l] = l BY <1>1, <1>2
    <3>2. QED BY <1>2, <3>1 DEF ListSplice, ListEmpty
  <2>2. Ring(ls, l, <<>>)
    BY <1>2
  <2>3. QED BY <2>1, <2>2
<1>3. CASE a # <<>>
  <2>1. n \in Nat \ {0} /\ m \in Nat /\ a[1] \in N /\ a[n] \in N /\ q \in N
        /\ a[1] # l /\ ls.next[l] = a[1] /\ ls.prev[l] = a[n]
    BY <1>1, <1>3 DEF Ring, Stop
  <2>2. /\ l2.next = [[[ls.next EXCEPT ![h] = a[1]] EXCEPT ![a[n]] = q]
                        EXCEPT ![l] = l]
        /\ l2.prev = [[[ls.prev EXCEPT ![a[1]] = h] EXCEPT ![q] = a[n]]
                        EXCEPT ![l] = l]
    BY <1>1, <2>1 DEF ListSplice, ListEmpty, ListInit, SetNext, SetPrev, Pointers
  <2>3. /\ \A k \in 1..n : a[k] # l /\ a[k] # h /\ a[k] \in N /\ a[k] # q
        /\ \A k \in 1..m : b[k] # l /\ b[k] # h /\ b[k] \in N
        /\ \A j \in 1..n, k \in 1..m : a[j] # b[k]
        /\ \A j, k \in 1..n : a[j] = a[k] => j = k
        /\ \A j, k \in 1..m : b[j] = b[k] => j = k
        /\ q # l
    <3>1. /\ \A k \in 1..n : a[k] # l /\ a[k] # h /\ a[k] \in N
          /\ \A k \in 1..m : b[k] # l /\ b[k] # h /\ b[k] \in N
          /\ \A j \in 1..n, k \in 1..m : a[j] # b[k]
          /\ \A j, k \in 1..n : a[j] = a[k] => j = k
          /\ \A j, k \in 1..m : b[j] = b[k] => j = k
      <4>1. /\ \A k \in 1..n : a[k] \in Members(a) /\ a[k] \in N
            /\ \A k \in 1..m : b[k] \in Members(b) /\ b[k] \in N
        BY DEF Members
      <4>2. /\ \A k \in 1..n : a[k] # l
            /\ \A k \in 1..m : b[k] # h
            /\ \A j, k \in 1..n : a[j] = a[k] => j = k
            /\ \A j, k \in 1..m : b[j] = b[k] => j = k
        BY DEF Ring
      <4>3. QED BY <4>1, <4>2
    <3>2. QED BY <3>1 DEF Stop
  <2>4. /\ l2.next[h] = a[1] /\ l2.next[a[n]] = q /\ l2.next[l] = l
        /\ \A x \in N \ {h, l, a[n]} : l2.next[x] = ls.next[x]
        /\ l2.prev[a[1]] = h /\ l2.prev[q] = a[n] /\ l2.prev[l] = l
        /\ \A x \in N \ {a[1], l, q} : l2.prev[x] = ls.prev[x]
    <3> HIDE DEF q, l2
    <3> n \in 1..n /\ 1 \in 1..n
      BY <2>1
    <3>1. a[n] # l /\ a[n] # h /\ a[1] # l /\ a[1] # h /\ a[1] # q
      BY <2>3
    <3>2. QED
      BY <2>1, <2>2, <2>3, <3>1 DEF Pointers
  <2>5. /\ c \in Seq(N) /\ Len(c) = n + m
        /\ \A k \in 1..(n+m) : c[k] = IF k <= n THEN a[k] ELSE b[k-n]
    OBVIOUS
  <2> HIDE DEF c, l2
  <2>6. \A k \in 0..(n+m+1) : Stop(h, c, k) = IF k = 0 THEN h
                                              ELSE IF k <= n THEN Stop(l, a, k)
                                              ELSE Stop(h, b, k-n)
    <3> TAKE k \in 0..(n+m+1)
    <3>1. CASE k = 0
      BY <2>5, <3>1 DEF Stop
    <3>2. CASE k # 0 /\ k <= n
      <4>1. k \in 1..n /\ k \in 1..(n+m)
        BY <3>2
      <4> QED BY <2>5, <3>2, <4>1 DEF Stop
    <3>3. CASE k > n
      <4>1. k # 0 /\ ~(k <= n) /\ (k \in 1..(n+m) <=> k-n \in 1..m)
        BY <3>3
      <4>2. Stop(h, c, k) = IF k-n \in 1..m THEN b[k-n] ELSE h
        BY <2>5, <4>1 DEF Stop
      <4> QED BY <4>1, <4>2 DEF Stop
    <3> QED BY <3>1, <3>2, <3>3
  <2>7. \A k \in 1..(n+m) : c[k] # h
    <3> TAKE k \in 1..(n+m)
    <3>1. CASE k <= n
      BY <2>3, <2>5, <3>1
    <3>2. CASE k > n
      <4>1. k-n \in 1..m /\ c[k] = b[k-n]
        BY <2>5, <3>2
      <4> QED BY <2>3, <4>1
    <3> QED BY <3>1, <3>2
  <2>8. ASSUME NEW j \in 1..(n+m), NEW k \in 1..(n+m), c[j] = c[k]
        PROVE  j = k
    <3>1. CASE j <= n /\ k <= n
      BY <3>1, <2>3, <2>5, <2>8
    <3>2. CASE j > n /\ k > n
      <4>1. j-n \in 1..m /\ k-n \in 1..m /\ b[j-n] = b[k-n]
        BY <3>2, <2>5, <2>8
      <4>2. j-n = k-n BY <4>1, <2>3
      <4>3. QED BY <4>2
    <3>3. ~(j <= n /\ k > n) /\ ~(j > n /\ k <= n)
      <4>1. \A x \in 1..n, y \in 1..m : a[x] # b[y]
        BY <2>3
      <4>2. \A x \in 1..(n+m) : x > n => x-n \in 1..m /\ c[x] = b[x-n]
        BY <2>5
      <4>3. \A x \in 1..(n+m) : x <= n => x \in 1..n /\ c[x] = a[x]
        BY <2>5
      <4> QED BY <2>8, <4>1, <4>2, <4>3
    <3>4. QED BY <3>1, <3>2, <3>3
  <2>9. ASSUME NEW k \in 0..(n+m)
        PROVE  /\ l2.next[Stop(h, c, k)] = Stop(h, c, k+1)
               /\ l2.prev[Stop(h, c, k+1)] = Stop(h, c, k)
    <3> HIDE DEF q
    <3>1. CASE k = 0
      <4>1. Stop(h, c, 0) = h /\ Stop(h, c, 1) = a[1]
        BY <2>1, <2>6 DEF Stop
      <4>2. QED BY <4>1, <3>1, <2>4
    <3>2. CASE k \in 1..(n-1)
      <4>1. Stop(h, c, k) = a[k] /\ Stop(h, c, k+1) = a[k+1]
        BY <3>2, <2>6 DEF Stop
      <4>2. ls.next[a[k]] = a[k+1] /\ ls.prev[a[k+1]] = a[k]
        <5>1. Stop(l, a, k) = a[k] /\ Stop(l, a, k+1) = a[k+1]
          BY <3>2 DEF Stop
        <5>2. ls.next[Stop(l, a, k)] = Stop(l, a, k+1)
              /\ ls.prev[Stop(l, a, k+1)] = Stop(l, a, k)
          BY <3>2 DEF Ring
        <5>3. QED BY <5>1, <5>2
      <4>3. a[k] \in N \ {h, l, a[n]} /\ a[k+1] \in N \ {a[1], l, q}
        BY <3>2, <2>3
      <4>4. QED BY <4>1, <4>2, <4>3, <2>4
    <3>3. CASE k = n
      <4>1. Stop(h, c, k) = a[n] /\ Stop(h, c, k+1) = q
        BY <3>3, <2>1, <2>6 DEF Stop, q
      <4>2. QED BY <4>1, <3>3, <2>4
    <3>4. CASE k \in (n+1)..(n+m)
      <4>1. Stop(h, c, k) = b[k-n] /\ Stop(h, c, k+1) = Stop(h, b, (k-n)+1)
        <5>1. /\ k \in 0..(n+m+1) /\ k+1 \in 0..(n+m+1)
              /\ k # 0 /\ ~(k <= n) /\ k+1 # 0 /\ ~(k+1 <= n)
              /\ (k+1)-n = (k-n)+1 /\ k-n \in 1..m
          BY <3>4, <2>1
        <5>2. Stop(h, c, k) = Stop(h, b, k-n) /\ Stop(h, c, k+1) = Stop(h, b, (k+1)-n)
          BY <5>1, <2>6
        <5>3. Stop(h, b, k-n) = b[k-n]
          BY <5>1 DEF Stop
        <5>4. QED BY <5>1, <5>2, <5>3
      <4>2. k - n \in 1..m /\ Stop(h, b, k-n) = b[k-n]
        BY <3>4 DEF Stop
      <4>3. ls.next[b[k-n]] = Stop(h, b, (k-n)+1)
            /\ ls.prev[Stop(h, b, (k-n)+1)] = b[k-n]
        BY <4>2 DEF Ring
      <4>4. b[k-n] \in N \ {h, l, a[n]}
        BY <4>2, <2>1, <2>3
      <4>5. Stop(h, b, (k-n)+1) \in N \ {a[1], l, q}
        <5>1. CASE k = n + m
          <6>1. Stop(h, b, (k-n)+1) = h BY <5>1 DEF Stop
          <6>2. q = b[1] /\ 1 \in 1..m BY <4>2 DEF Stop, q
          <6>3. 1 \in 1..n BY <2>1
          <6>4. QED BY <6>1, <6>2, <6>3, <2>3
        <5>2. CASE k # n + m
          <6>1. Stop(h, b, (k-n)+1) = b[(k-n)+1] /\ (k-n)+1 \in 1..m /\ (k-n)+1 # 1
            BY <5>2, <3>4 DEF Stop
          <6>2. q = b[1] /\ 1 \in 1..m BY <4>2 DEF Stop, q
          <6>3. 1 \in 1..n BY <2>1
          <6>4. QED BY <6>1, <6>2, <6>3, <2>3
        <5>3. QED BY <5>1, <5>2
      <4>6. QED BY <4>1, <4>3, <4>4, <4>5, <2>4
    <3>5. QED BY <3>1, <3>2, <3>3, <3>4
  <2>10. Ring(l2, h, c)
    <3>1. Len(c) = n + m BY <2>5
    <3> HIDE DEF n, m
    <3>2. QED BY <3>1, <2>7, <2>8, <2>9 DEF Ring
  <2>11. Ring(l2, l, <<>>)
    BY <2>4 DEF Ring, Stop
  <2>12. \A x \in N : x \notin {l, h} \cup Members(a) \cup Members(b) =>
           l2.next[x] = ls.next[x] /\ l2.prev[x] = ls.prev[x]
    <3>1. a[1] \in Members(a) /\ a[n] \in Members(a) /\ q \in {h} \cup Members(b)
      BY <2>1 DEF Members, Stop
    <3> HIDE DEF q
    <3>2. QED BY <2>4, <3>1
  <2>13. QED BY <2>10, <2>11, <2>12 DEF c, l2
<1>4. QED BY <1>2, <1>3

(* The walk along the backward pointers meets a list from its end.         *)
LEMMA WalkBack ==
  ASSUME NEW f, NEW N, N \subseteq DOMAIN f, NEW h \in N, NEW s \in Seq(N),
         \A k \in 1..Len(s) : s[k] # h,
         \A k \in 0..Len(s) : f[Stop(h, s, k+1)] = Stop(h, s, k),
         NEW b \in Nat, Len(s) < b
  PROVE  Walk(f, h, b) = Backwards(s)
<1> DEFINE r == Backwards(s)
<1>1. r \in Seq(N) /\ Len(r) = Len(s) /\ \A k \in 1..Len(s) : r[k] = s[Len(s)+1-k]
  BY DEF Backwards
<1> HIDE DEF r
<1>2. \A k \in 1..Len(r) : r[k] # h
  BY <1>1
<1>3. ASSUME NEW k \in 0..Len(r)
      PROVE  f[Stop(h, r, k)] = Stop(h, r, k+1)
  <2>1. Stop(h, r, k) = Stop(h, s, Len(s)+1-k)
    BY <1>1 DEF Stop
  <2>2. Stop(h, r, k+1) = Stop(h, s, Len(s)-k)
    BY <1>1 DEF Stop
  <2>3. Len(s)-k \in 0..Len(s) /\ (Len(s)-k)+1 = Len(s)+1-k
    BY <1>1
  <2>4. f[Stop(h, s, (Len(s)-k)+1)] = Stop(h, s, Len(s)-k)
    BY <2>3
  <2> QED BY <2>1, <2>2, <2>3, <2>4
<1>4. r \in Seq(N) /\ Len(r) < b
  BY <1>1
<1>5. \A k \in 0..Len(r) : f[Stop(h, r, k)] = Stop(h, r, k+1)
  BY <1>3
<1>6. Walk(f, h, b) = r
  BY <1>2, <1>4, <1>5, WalkIs
<1> QED BY <1>6 DEF r

(* Reading a ring.                                                         *)
LEMMA RingIsRead ==
  ASSUME NEW N, NEW X, N \subseteq X, NEW ls \in Pointers(N, X), NEW h \in N,
         NEW s \in Seq(N), Ring(ls, h, s), NEW b \in Nat, Len(s) < b
  PROVE  Contents(ls, h, b) = s /\ WellFormed(ls, h, b)
<1>1. N \subseteq DOMAIN ls.next /\ N \subseteq DOMAIN ls.prev
  BY DEF Pointers
<1>2. \A k \in 1..Len(s) : s[k] # h
  BY DEF Ring
<1>3. \A k \in 0..Len(s) : ls.next[Stop(h, s, k)] = Stop(h, s, k+1)
  BY DEF Ring
<1>4. \A k \in 0..Len(s) : ls.prev[Stop(h, s, k+1)] = Stop(h, s, k)
  BY DEF Ring
<1>5. Walk(ls.next, h, b) = s
  BY <1>1, <1>2, <1>3, WalkIs
<1>6. Walk(ls.prev, h, b) = Backwards(s)
  BY <1>1, <1>2, <1>4, WalkBack
<1>7. Len(Backwards(s)) = Len(s) /\ \A k \in 1..Len(s) : Backwards(s)[k] = s[Len(s)+1-k]
  BY DEF Backwards
<1> QED
  BY <1>5, <1>6, <1>7 DEF Contents, WellFormed

(* A ring of finitely many nodes is shorter than their number: a walk with *)
(* a bound above it comes home.                                            *)
LEMMA RingFits ==
  ASSUME NEW N, IsFiniteSet(N), NEW ls, NEW h \in N, NEW s \in Seq(N),
         Ring(ls, h, s)
  PROVE  Cardinality(N) \in Nat /\ Len(s) < Cardinality(N) + 1
<1>1. s \in Injection(1..Len(s), N)
  BY DEF Ring, Injection, IsInjective
<1>2. Cardinality(1..Len(s)) = Len(s)
  <2>1. Len(s) \in Nat /\ Len(s) - 1 + 1 = Len(s)
    OBVIOUS
  <2>2. Cardinality(1..Len(s)) = IF 1 > Len(s) THEN 0 ELSE Len(s) - 1 + 1
    BY <2>1, FS_Interval
  <2>3. QED BY <2>1, <2>2
<1>3. Cardinality(1..Len(s)) <= Cardinality(N)
  BY <1>1, FS_Injection
<1>4. Cardinality(N) \in Nat
  BY FS_CardinalityType
<1>5. QED
  BY <1>2, <1>3, <1>4
-----------------------------------------------------------------------------
(* Lists that end: s[k], or what stands for the end beyond either end.     *)

Nth(s, k, end) == IF k \in 1..Len(s) THEN s[k] ELSE end

Distinct(s) == \A j, k \in 1..Len(s) : s[j] = s[k] => j = k

(* e before all of s.                                                      *)
Push(e, s) == [k \in 1..(Len(s) + 1) |-> IF k = 1 THEN e ELSE s[k-1]]

LEMMA RowIsSeq ==
  ASSUME NEW N, NEW n \in Nat, NEW s \in [1..n -> N]
  PROVE  s \in Seq(N) /\ Len(s) = n
OBVIOUS

LEMMA PushType ==
  ASSUME NEW N, NEW s \in Seq(N), NEW e \in N
  PROVE  /\ Push(e, s) \in Seq(N)
         /\ Len(Push(e, s)) = Len(s) + 1
         /\ \A k \in 1..(Len(s) + 1) : Push(e, s)[k] = IF k = 1 THEN e ELSE s[k-1]
BY DEF Push

LEMMA MembersPush ==
  ASSUME NEW N, NEW s \in Seq(N), NEW e \in N
  PROVE  Members(Push(e, s)) = Members(s) \cup {e}
<1> DEFINE t == Push(e, s)
<1>1. /\ Len(t) = Len(s) + 1
      /\ \A k \in 1..(Len(s) + 1) : t[k] = IF k = 1 THEN e ELSE s[k-1]
  BY PushType
<1> HIDE DEF t
<1>2. ASSUME NEW k \in 1..Len(t) PROVE t[k] \in Members(s) \cup {e}
  <2>1. k # 1 => k-1 \in 1..Len(s)
    BY <1>1
  <2> QED BY <1>1, <2>1 DEF Members
<1>3. ASSUME NEW k \in 1..Len(s) PROVE s[k] \in Members(t)
  <2>1. k+1 \in 1..Len(t) /\ t[k+1] = s[k]
    BY <1>1
  <2> QED BY <2>1 DEF Members
<1>4. e \in Members(t)
  <2>1. 1 \in 1..Len(t) /\ t[1] = e
    BY <1>1
  <2> QED BY <2>1 DEF Members
<1>5. Members(t) \subseteq Members(s) \cup {e} /\ Members(s) \subseteq Members(t)
  BY <1>2, <1>3 DEF Members
<1> QED BY <1>4, <1>5 DEF t

LEMMA NthPush ==
  ASSUME NEW N, NEW s \in Seq(N), NEW e \in N, NEW end, NEW k \in Int
  PROVE  Nth(Push(e, s), k, end) = IF k = 1 THEN e ELSE Nth(s, k-1, end)
<1>1. k \in 1..(Len(s) + 1) <=> k = 1 \/ k-1 \in 1..Len(s)
  OBVIOUS
<1> DEFINE t == Push(e, s)
<1>2. /\ Len(t) = Len(s) + 1
      /\ \A j \in 1..(Len(s) + 1) : t[j] = IF j = 1 THEN e ELSE s[j-1]
  BY PushType
<1> HIDE DEF t
<1>3. Nth(t, k, end) = IF k = 1 THEN e ELSE Nth(s, k-1, end)
  <2>1. CASE k = 1
    BY <1>1, <1>2, <2>1 DEF Nth
  <2>2. CASE k # 1
    BY <1>1, <1>2, <2>2 DEF Nth
  <2> QED BY <2>1, <2>2
<1> QED BY <1>3 DEF t

LEMMA DistinctPush ==
  ASSUME NEW N, NEW s \in Seq(N), NEW e \in N, Distinct(s), e \notin Members(s)
  PROVE  Distinct(Push(e, s))
<1> DEFINE t == Push(e, s)
<1>1. /\ Len(t) = Len(s) + 1
      /\ \A k \in 1..(Len(s) + 1) : t[k] = IF k = 1 THEN e ELSE s[k-1]
  BY PushType
<1> HIDE DEF t
<1>2. ASSUME NEW j \in 1..Len(t), NEW k \in 1..Len(t), t[j] = t[k] PROVE j = k
  <2>1. CASE j # 1 /\ k # 1
    <3>1. j-1 \in 1..Len(s) /\ k-1 \in 1..Len(s) /\ s[j-1] = s[k-1]
      BY <1>1, <1>2, <2>1
    <3> QED BY <3>1 DEF Distinct
  <2>2. CASE j = 1 /\ k # 1
    <3>1. k-1 \in 1..Len(s) /\ e = s[k-1]
      BY <1>1, <1>2, <2>2
    <3> QED BY <3>1 DEF Members
  <2>3. CASE j # 1 /\ k = 1
    <3>1. j-1 \in 1..Len(s) /\ e = s[j-1]
      BY <1>1, <1>2, <2>3
    <3> QED BY <3>1 DEF Members
  <2> QED BY <2>1, <2>2, <2>3
<1> QED BY <1>2 DEF t, Distinct

LEMMA NthCut ==
  ASSUME NEW N, NEW s \in Seq(N), NEW i \in 1..Len(s), NEW end, NEW k \in Int
  PROVE  Nth(Cut(s, i), k, end) = IF k < i THEN Nth(s, k, end) ELSE Nth(s, k+1, end)
<1>1. k < i => (k \in 1..(Len(s)-1) <=> k \in 1..Len(s))
  OBVIOUS
<1>2. k >= i => (k \in 1..(Len(s)-1) <=> k+1 \in 1..Len(s))
  OBVIOUS
<1> QED BY <1>1, <1>2, CutType DEF Nth

LEMMA DistinctCut ==
  ASSUME NEW N, NEW s \in Seq(N), NEW i \in 1..Len(s), Distinct(s)
  PROVE  Distinct(Cut(s, i))
<1> DEFINE t == Cut(s, i)
<1>1. /\ Len(t) = Len(s) - 1
      /\ \A k \in 1..(Len(s) - 1) : t[k] = IF k < i THEN s[k] ELSE s[k+1]
  BY CutType
<1> HIDE DEF t
<1>2. ASSUME NEW j \in 1..Len(t), NEW k \in 1..Len(t), t[j] = t[k] PROVE j = k
  <2> DEFINE u == IF j < i THEN j ELSE j+1
             v == IF k < i THEN k ELSE k+1
  <2>1. u \in 1..Len(s) /\ v \in 1..Len(s) /\ t[j] = s[u] /\ t[k] = s[v]
    BY <1>1
  <2>2. u = v
    BY <1>2, <2>1 DEF Distinct
  <2> QED BY <2>2
<1> QED BY <1>2 DEF t, Distinct

(* A list has as many members as places.                                   *)
LEMMA DistinctCount ==
  ASSUME NEW N, NEW s \in Seq(N), Distinct(s)
  PROVE  IsFiniteSet(Members(s)) /\ Cardinality(Members(s)) = Len(s)
<1> DEFINE g == [k \in 1..Len(s) |-> s[k]]
<1>1. g \in Bijection(1..Len(s), Members(s))
  <2>1. g \in [1..Len(s) -> Members(s)]
    BY DEF Members
  <2>2. \A j, k \in 1..Len(s) : g[j] = g[k] => j = k
    BY DEF Distinct
  <2>3. \A x \in Members(s) : \E k \in 1..Len(s) : g[k] = x
    BY DEF Members
  <2> HIDE DEF g
  <2> QED BY <2>1, <2>2, <2>3 DEF Bijection, Injection, Surjection, IsInjective
<1>2. ExistsBijection(1..Len(s), Members(s))
  BY <1>1 DEF ExistsBijection
<1>3. IsFiniteSet(Members(s))
  BY <1>2, FS_NatBijection
<1>4. Cardinality(Members(s)) = Len(s)
  BY <1>2, FS_CountingElements
<1> QED BY <1>3, <1>4

-----------------------------------------------------------------------------
(* The walk along a list that ends.  Its function is the one that          *)
(* satisfies the recursion: the list itself does, and no other can.        *)

ChainNode(first, next, n, end) ==
  CHOOSE at : at = [k \in 0..n |-> IF k = 0 THEN first
                                   ELSE IF at[k-1] = end THEN end ELSE next[at[k-1]]]

LEMMA ChainNodes ==
  ASSUME NEW N, NEW s \in Seq(N), NEW next, NEW end, end \notin N,
         \A k \in 1..Len(s) : next[s[k]] = Nth(s, k+1, end)
  PROVE  \A k \in 0..Len(s) :
           ChainNode(Nth(s, 1, end), next, Len(s), end)[k] = Nth(s, k+1, end)
<1> DEFINE n     == Len(s)
           first == Nth(s, 1, end)
           Eq(g) == g = [k \in 0..n |-> IF k = 0 THEN first
                                        ELSE IF g[k-1] = end THEN end ELSE next[g[k-1]]]
           list  == [k \in 0..n |-> Nth(s, k+1, end)]
           at    == ChainNode(first, next, n, end)
<1>1. Eq(list)
  <2>1. ASSUME NEW k \in 0..n
        PROVE  list[k] = IF k = 0 THEN first
                         ELSE IF list[k-1] = end THEN end ELSE next[list[k-1]]
    <3>1. CASE k = 0
      BY <3>1
    <3>2. CASE k # 0
      <4>1. k \in 1..n /\ k-1 \in 0..n /\ (k-1)+1 = k
        BY <3>2
      <4>2. list[k-1] = s[k] /\ s[k] \in N /\ list[k] = Nth(s, k+1, end)
        BY <4>1 DEF Nth
      <4> QED BY <3>2, <4>1, <4>2
    <3> QED BY <3>1, <3>2
  <2>2. list = [k \in 0..n |-> list[k]]
    OBVIOUS
  <2> HIDE DEF list, first
  <2> QED BY <2>1, <2>2
<1>2. Eq(at)
  <2>1. \E g : Eq(g)
    BY <1>1
  <2> HIDE DEF list, first, n
  <2> QED BY <2>1 DEF ChainNode
<1> HIDE DEF list, at
<1>3. at[0] = first /\ \A k \in 1..n : at[k] = IF at[k-1] = end THEN end ELSE next[at[k-1]]
  BY <1>2
<1> DEFINE S == {k \in Nat : k <= n => at[k] = Nth(s, k+1, end)}
<1>4. 0 \in S
  BY <1>3
<1>5. ASSUME NEW k \in Nat, k \in S PROVE k+1 \in S
  <2> SUFFICES ASSUME k+1 <= n PROVE at[k+1] = Nth(s, (k+1)+1, end)
    OBVIOUS
  <2>1. k+1 \in 1..n /\ (k+1)-1 = k
    OBVIOUS
  <2>2. at[k] = s[k+1] /\ s[k+1] \in N
    BY <1>5, <2>1 DEF Nth
  <2>3. at[k+1] = IF at[k] = end THEN end ELSE next[at[k]]
    BY <1>3, <2>1
  <2> QED BY <2>1, <2>2, <2>3
<1>6. Nat \subseteq S
  <2> HIDE DEF S
  <2> QED BY <1>4, <1>5, SetInduction
<1> QED BY <1>6 DEF at

-----------------------------------------------------------------------------
(* Lists that end and are linked in both directions: p, from first.        *)

LineIs(next, prev, N, end, first, p) ==
  /\ p \in Seq(N) /\ Distinct(p)
  /\ first = Nth(p, 1, end)
  /\ \A k \in 1..Len(p) : /\ next[p[k]] = Nth(p, k+1, end)
                          /\ prev[p[k]] = Nth(p, k-1, end)

LEMMA LineFrame ==
  ASSUME NEW next, NEW prev, NEW N, NEW end, end \notin N,
         NEW next2, NEW prev2, NEW first, NEW p, LineIs(next, prev, N, end, first, p),
         \A x \in Members(p) : /\ next2[x] = next[x]
                               /\ prev2[x] = prev[x]
  PROVE  LineIs(next2, prev2, N, end, first, p)
BY DEF LineIs, Members

(* An entry is the first one if it has none before it.                     *)
LEMMA LineFirst ==
  ASSUME NEW next, NEW prev, NEW N, NEW end, end \notin N,
         NEW first, NEW p, LineIs(next, prev, N, end, first, p),
         NEW i \in 1..Len(p)
  PROVE  prev[p[i]] = end <=> i = 1
<1>1. /\ p \in Seq(N) /\ end \notin N /\ 1 \in 1..Len(p)
      /\ prev[p[i]] = Nth(p, i-1, end) /\ first = p[1]
  BY DEF LineIs, Nth
<1>2. i # 1 => i-1 \in 1..Len(p) /\ p[i-1] \in N
  BY <1>1
<1>3. i = 1 => i-1 \notin 1..Len(p)
  OBVIOUS
<1> QED BY <1>1, <1>2, <1>3 DEF Nth

(* An entry leaves the list, from any place of it.                         *)
Removed(next2, prev2, first2, next, prev, first, end, s, p) ==
  /\ first2 = IF prev[s] = end THEN next[s] ELSE first
  /\ \A x \in Members(p) \ {s} :
       /\ prev2[x] = IF x = next[s] THEN prev[s] ELSE prev[x]
       /\ next2[x] = IF x = prev[s] THEN next[s] ELSE next[x]

LEMMA LineCut ==
  ASSUME NEW next, NEW prev, NEW N, NEW end, end \notin N,
         NEW first, NEW p, LineIs(next, prev, N, end, first, p),
         NEW i \in 1..Len(p), NEW s, s = p[i], NEW next2, NEW prev2, NEW first2,
         Removed(next2, prev2, first2, next, prev, first, end, s, p)
  PROVE  LineIs(next2, prev2, N, end, first2, Cut(p, i))
<1> USE DEF Removed
<1> DEFINE c == Cut(p, i)
           n == Len(p)
<1>1. /\ p \in Seq(N) /\ Distinct(p) /\ end \notin N /\ n \in Nat
      /\ next[s] = Nth(p, i+1, end)
      /\ prev[s] = Nth(p, i-1, end)
  BY DEF LineIs
<1>2. /\ c \in Seq(N) /\ Len(c) = n - 1 /\ Distinct(c)
      /\ \A k \in 1..(n - 1) : c[k] = IF k < i THEN p[k] ELSE p[k+1]
      /\ \A k \in Int : Nth(c, k, end) = IF k < i THEN Nth(p, k, end)
                                          ELSE Nth(p, k+1, end)
  <2>1. /\ c \in Seq(N) /\ Len(c) = n - 1 /\ Distinct(c)
        /\ \A k \in 1..(n - 1) : c[k] = IF k < i THEN p[k] ELSE p[k+1]
    BY <1>1, CutType, DistinctCut
  <2>2. \A k \in Int : Nth(c, k, end) = IF k < i THEN Nth(p, k, end)
                                         ELSE Nth(p, k+1, end)
    BY <1>1, NthCut
  <2> QED BY <2>1, <2>2
<1> HIDE DEF c
<1>3. ASSUME NEW m \in 1..n, NEW j \in Int
      PROVE  p[m] = Nth(p, j, end) <=> m = j
  <2>1. CASE j \in 1..n
    BY <1>1, <2>1 DEF Nth, Distinct
  <2>2. CASE j \notin 1..n
    <3>1. p[m] \in N /\ m # j
      BY <1>1, <2>2
    <3> QED BY <1>1, <2>2, <3>1 DEF Nth
  <2> QED BY <2>1, <2>2
<1>4. ASSUME NEW k \in 1..Len(c)
      PROVE  /\ next2[c[k]] = Nth(c, k+1, end)
             /\ prev2[c[k]] = Nth(c, k-1, end)
  <2> DEFINE m == IF k < i THEN k ELSE k+1
  <2>1. /\ m \in 1..n /\ m # i /\ c[k] = p[m]
        /\ (m = i-1 <=> k = i-1) /\ (m = i+1 <=> k = i)
        /\ k \in Int /\ k+1 \in Int /\ k-1 \in Int /\ (k-1)+1 = k
        /\ i-1 \in Int /\ i+1 \in Int /\ m-1 \in Int /\ m+1 \in Int
    <3>1. k \in 1..(n-1) /\ i \in 1..n /\ n \in Nat
      BY <1>1, <1>2
    <3>2. m \in 1..n /\ m # i /\ (m = i-1 <=> k = i-1) /\ (m = i+1 <=> k = i)
      BY <3>1
    <3>3. c[k] = p[m]
      BY <1>2, <3>1
    <3> HIDE DEF m
    <3> QED BY <3>1, <3>2, <3>3
  <2>2. p[m] # s /\ p[m] \in Members(p)
    BY <1>1, <2>1 DEF Distinct, Members
  <2>3. /\ next[p[m]] = Nth(p, m+1, end)
        /\ prev[p[m]] = Nth(p, m-1, end)
    BY <2>1 DEF LineIs
  <2>4. next2[c[k]] = IF m = i-1 THEN Nth(p, i+1, end) ELSE Nth(p, m+1, end)
    <3>1. p[m] = prev[s] <=> m = i-1
      <4>1. p[m] = Nth(p, i-1, end) <=> m = i-1
        BY <1>3, <2>1
      <4> QED BY <1>1, <4>1
    <3> QED BY <1>1, <2>1, <2>2, <2>3, <3>1
  <2>5. prev2[c[k]] = IF m = i+1 THEN Nth(p, i-1, end) ELSE Nth(p, m-1, end)
    <3>1. p[m] = next[s] <=> m = i+1
      <4>1. p[m] = Nth(p, i+1, end) <=> m = i+1
        BY <1>3, <2>1
      <4> QED BY <1>1, <4>1
    <3> QED BY <1>1, <2>1, <2>2, <2>3, <3>1
  <2>6. Nth(c, k+1, end) = IF k+1 < i THEN Nth(p, k+1, end) ELSE Nth(p, (k+1)+1, end)
    BY <1>2, <2>1
  <2>7. Nth(c, k-1, end) = IF k-1 < i THEN Nth(p, k-1, end) ELSE Nth(p, k, end)
    <3>1. Nth(c, k-1, end) = IF k-1 < i THEN Nth(p, k-1, end) ELSE Nth(p, (k-1)+1, end)
      BY <1>2, <2>1
    <3> QED BY <2>1, <3>1
  <2>8. next2[c[k]] = Nth(c, k+1, end)
    <3>1. CASE k < i - 1
      <4>1. m = k /\ m # i-1 /\ k+1 < i
        BY <3>1, <1>1
      <4> QED BY <4>1, <2>4, <2>6
    <3>2. CASE k = i - 1
      <4>1. m = i-1 /\ ~(k+1 < i) /\ (k+1)+1 = i+1
        BY <3>2, <1>1
      <4> QED BY <4>1, <2>4, <2>6
    <3>3. CASE k >= i
      <4>1. m = k+1 /\ m # i-1 /\ ~(k+1 < i)
        BY <3>3, <1>1
      <4> QED BY <4>1, <2>4, <2>6
    <3> QED BY <3>1, <3>2, <3>3
  <2>9. prev2[c[k]] = Nth(c, k-1, end)
    <3>1. CASE k < i
      <4>1. m = k /\ m # i+1 /\ k-1 < i
        BY <3>1, <1>1
      <4> QED BY <4>1, <2>5, <2>7
    <3>2. CASE k = i
      <4>1. m = i+1 /\ k-1 < i /\ k-1 = i-1
        BY <3>2, <1>1
      <4> QED BY <4>1, <2>5, <2>7
    <3>3. CASE k > i
      <4>1. m = k+1 /\ m # i+1 /\ ~(k-1 < i) /\ m-1 = k
        BY <3>3, <1>1
      <4> QED BY <4>1, <2>5, <2>7
    <3> QED BY <3>1, <3>2, <3>3
  <2> QED BY <2>8, <2>9
<1>5. first2 = Nth(c, 1, end)
  <2>1. prev[s] = end <=> i = 1
    <3>1. i # 1 => i-1 \in 1..n /\ p[i-1] \in N
      BY <1>1
    <3>2. i = 1 => i-1 \notin 1..n
      OBVIOUS
    <3> QED BY <1>1, <3>1, <3>2 DEF Nth
  <2>2. Nth(c, 1, end) = IF 1 < i THEN Nth(p, 1, end) ELSE Nth(p, 1+1, end)
    BY <1>2
  <2> QED BY <1>1, <2>1, <2>2 DEF LineIs
<1>6. LineIs(next2, prev2, N, end, Nth(c, 1, end), c)
  BY <1>2, <1>4 DEF LineIs
<1> QED BY <1>5, <1>6 DEF c

(* An entry gets to the front of the list.                                 *)
AtFront(next2, prev2, next, prev, end, first, s, p) ==
  /\ prev2[s] = end /\ next2[s] = first
  /\ \A x \in Members(p) :
       /\ prev2[x] = IF x = first THEN s ELSE prev[x]
       /\ next2[x] = next[x]

LEMMA LinePush ==
  ASSUME NEW next, NEW prev, NEW N, NEW end, end \notin N,
         NEW first, NEW p, LineIs(next, prev, N, end, first, p),
         NEW s \in N, s \notin Members(p),
         NEW next2, NEW prev2, AtFront(next2, prev2, next, prev, end, first, s, p)
  PROVE  LineIs(next2, prev2, N, end, s, Push(s, p))
<1> USE DEF AtFront
<1> DEFINE q == Push(s, p)
           n == Len(p)
<1>1. p \in Seq(N) /\ Distinct(p) /\ first = Nth(p, 1, end) /\ n \in Nat
  BY DEF LineIs
<1>2. /\ q \in Seq(N) /\ Len(q) = n + 1 /\ Distinct(q)
      /\ \A k \in 1..(n + 1) : q[k] = IF k = 1 THEN s ELSE p[k-1]
      /\ \A k \in Int : Nth(q, k, end) = IF k = 1 THEN s ELSE Nth(p, k-1, end)
  <2>1. /\ q \in Seq(N) /\ Len(q) = n + 1 /\ Distinct(q)
        /\ \A k \in 1..(n + 1) : q[k] = IF k = 1 THEN s ELSE p[k-1]
    BY <1>1, PushType, DistinctPush
  <2>2. \A k \in Int : Nth(q, k, end) = IF k = 1 THEN s ELSE Nth(p, k-1, end)
    BY <1>1, NthPush
  <2> QED BY <2>1, <2>2
<1> HIDE DEF q
<1>3. ASSUME NEW k \in 1..Len(q)
      PROVE  /\ next2[q[k]] = Nth(q, k+1, end)
             /\ prev2[q[k]] = Nth(q, k-1, end)
  <2>1. /\ k+1 \in Int /\ k-1 \in Int /\ (k+1)-1 = k /\ k+1 # 1
        /\ Nth(q, k+1, end) = Nth(p, k, end)
    BY <1>2
  <2>2. CASE k = 1
    <3>1. q[k] = s /\ k-1 \notin 1..Len(q)
      BY <1>1, <1>2, <2>2
    <3> QED BY <1>1, <2>1, <2>2, <3>1 DEF Nth
  <2>3. CASE k # 1
    <3> DEFINE m == k-1
    <3>1. /\ m \in 1..n /\ q[k] = p[m] /\ m+1 = k /\ m-1 \in Int /\ m \in Int
          /\ p[m] \in Members(p)
      <4>1. k \in 1..(n+1) /\ m \in 1..n
        BY <1>1, <1>2, <2>3
      <4>2. q[k] = p[m] /\ m+1 = k
        BY <1>2, <2>3, <4>1
      <4> HIDE DEF m
      <4> QED BY <4>1, <4>2 DEF Members
    <3>2. /\ next[p[m]] = Nth(p, m+1, end)
          /\ prev[p[m]] = Nth(p, m-1, end)
      BY <3>1 DEF LineIs
    <3>3. p[m] = first <=> m = 1
      BY <1>1, <3>1 DEF Nth, Distinct
    <3>4. Nth(q, m, end) = IF m = 1 THEN s ELSE Nth(p, m-1, end)
      BY <1>2, <3>1
    <3> QED BY <2>1, <3>1, <3>2, <3>3, <3>4
  <2> QED BY <2>2, <2>3
<1>4. s = Nth(q, 1, end)
  BY <1>2
<1> QED BY <1>2, <1>3, <1>4 DEF LineIs, q

(* What is before the entry s in a list of the entries part, from first.   *)
Before(next, end, first, part, s) ==
  IF s = first THEN end
  ELSE CHOOSE r \in part \cup {end} : r # end /\ next[r] = s

LEMMA LinePrev ==
  ASSUME NEW next, NEW prev, NEW N, NEW end, end \notin N,
         NEW first, NEW p, LineIs(next, prev, N, end, first, p),
         NEW s \in Members(p)
  PROVE  prev[s] = Before(next, end, first, Members(p), s)
<1>1. PICK i \in 1..Len(p) : p[i] = s
  BY DEF Members
<1>2. p \in Seq(N) /\ Len(p) \in Nat /\ \A k \in 1..Len(p) : p[k] \in N
  BY DEF LineIs
<1>3. prev[s] = Nth(p, i-1, end)
  BY <1>1 DEF LineIs
<1>4. i = 1 <=> first = s
  BY <1>1, <1>2 DEF LineIs, Nth, Distinct
<1>5. CASE i = 1
  BY <1>3, <1>4, <1>5 DEF Nth, Before
<1>6. CASE i # 1
  <2>1. i-1 \in 1..Len(p) /\ prev[s] = p[i-1] /\ p[i-1] \in Members(p)
    BY <1>2, <1>3, <1>6 DEF Nth, Members
  <2>2. next[p[i-1]] = s /\ p[i-1] # end
    <3>1. (i-1)+1 = i
      OBVIOUS
    <3> QED BY <1>1, <1>2, <2>1, <3>1 DEF LineIs, Nth
  <2>3. ASSUME NEW r \in Members(p), next[r] = s PROVE r = p[i-1]
    <3>1. PICK j \in 1..Len(p) : p[j] = r
      BY DEF Members
    <3>2. Nth(p, j+1, end) = s /\ s # end
      BY <1>1, <1>2, <2>3, <3>1 DEF LineIs
    <3>3. j+1 \in 1..Len(p) /\ p[j+1] = p[i]
      BY <1>1, <3>2 DEF Nth
    <3>4. j+1 = i
      BY <3>3 DEF LineIs, Distinct
    <3> QED BY <3>1, <3>4
  <2> DEFINE P(r) == r # end /\ next[r] = s
             ch == CHOOSE r \in Members(p) \cup {end} : P(r)
  <2>4. p[i-1] \in Members(p) \cup {end} /\ P(p[i-1])
    BY <2>1, <2>2
  <2>5. ch \in Members(p) \cup {end} /\ P(ch)
    BY <2>4
  <2>6. ch = p[i-1]
    BY <2>3, <2>5
  <2> HIDE DEF ch
  <2>7. prev[s] = ch
    BY <2>1, <2>6
  <2> QED BY <1>4, <1>6, <2>7 DEF ch, Before
<1> QED BY <1>5, <1>6
=============================================================================
