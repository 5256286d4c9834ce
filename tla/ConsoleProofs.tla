--------------------------- MODULE ConsoleProofs ---------------------------
(***************************************************************************)
(* Theorems about the console, for any number of threads and any calls:    *)
(* the bodies of the allocators never overlap, lines stay whole and        *)
(* complete, spin_unlock is never called by another thread than the        *)
(* holder, threads never wait for each other in a circle, and snprintf     *)
(* writes what fits into its buffer and nothing behind it.                 *)
(*                                                                         *)
(* What a thread has still to do is a sequence of steps.  The invariant    *)
(* says that it leads from where the thread is now to the end of its       *)
(* calls, where it holds nothing: a point says how often the thread holds  *)
(* each lock, which allocators it is inside of, what is still to be        *)
(* printed and whether it still has to wait for the transmitter.  Each     *)
(* function of the kernel is shown once to lead from a point to a point    *)
(* (Runs), and each action to keep the points in agreement with the locks, *)
(* the allocators, the transmitter and the line.                           *)
(***************************************************************************)
EXTENDS Console, RingProofs

-----------------------------------------------------------------------------
(* Where a thread is in its calls.  j are the calls of thread t.           *)

Resources == {"buddy", "slab"}

(* The lock under which an allocator is used.                              *)
GuardOf == [r \in Resources |-> IF r = "buddy" THEN "phys_alloc_lock"
                                               ELSE "slab_lock"]

(* Locks are taken in this order, whatever the function.                   *)
Rank == [l \in Locks |-> CASE l = "threads_mgmt_lock" -> 1
                           [] l = "printf_lock"       -> 2
                           [] l = "serial_lock"       -> 3
                           [] l = "slab_lock"         -> 4
                           [] l = "valloc_lock"       -> 5
                           [] OTHER                   -> 6]

(* The lock that keeps the text of a call together.                        *)
GuardFor(call) == IF call.fn = "puts" THEN "serial_lock" ELSE "printf_lock"

Chars(j) == UNION {ToSet(TextOf(j[k])) : k \in DOMAIN j}

Instr(t, j) ==
  {<<"poll">>} \cup {<<"lock", l>> : l \in Locks} \cup {<<"unlock", l>> : l \in Locks}
  \cup {<<"enter", r>> : r \in Resources} \cup {<<"leave", r>> : r \in Resources}
  \cup {<<"out", <<t, k>>, c>> : k \in DOMAIN j, c \in Chars(j)}
  \cup {<<"return", <<<<t, k>>, vsnprintf(j[k].size, j[k].format, j[k].args)>>>> :
           k \in {i \in DOMAIN j : j[i].fn = "snprintf"}}

(* A point between two steps: how often the thread holds each lock, the    *)
(* allocators it is inside of, what each call has still to print, and      *)
(* whether it has not yet waited for its last character to be sent.        *)
Point(j) == [depth : [Locks -> Nat], in : SUBSET Resources,
             left : [DOMAIN j -> Seq(Chars(j))], busy : BOOLEAN]

Partial(j, p, k) == 0 < Len(p.left[k]) /\ Len(p.left[k]) < Len(TextOf(j[k]))

Guarded(j, p) ==
  /\ \A r \in p.in : p.depth[GuardOf[r]] > 0
  /\ \A k \in DOMAIN j : /\ TextOf(j[k]) \in Seq(Chars(j))
                         /\ Len(p.left[k]) <= Len(TextOf(j[k]))
                         /\ Partial(j, p, k) => p.depth[GuardFor(j[k])] > 0
  /\ p.busy => p.depth["serial_lock"] > 0

Points(j) == {p \in Point(j) : Guarded(j, p)}

(* A lock that may be taken: it is held already, or those held rank lower. *)
Lockable(p, l) ==
  p.depth[l] > 0 \/ \A m \in Locks : p.depth[m] > 0 => Rank[m] < Rank[l]

Deeper(p, l) == [p EXCEPT !.depth = [p.depth EXCEPT ![l] = p.depth[l] + 1]]

(* k may print its next character: it is the only call that is under way,  *)
(* and the locks are held.                                                 *)
MayPrint(j, p, k) ==
  /\ ~p.busy /\ p.depth["serial_lock"] > 0 /\ p.depth[GuardFor(j[k])] > 0
  /\ \A i \in DOMAIN j : i # k => ~Partial(j, p, i)

PrintsNext(t, j, s, p, q, k) ==
  /\ p.left[k] # <<>> /\ s = <<"out", <<t, k>>, Head(p.left[k])>>
  /\ MayPrint(j, p, k)
  /\ q = [p EXCEPT !.left = [p.left EXCEPT ![k] = Tail(p.left[k])], !.busy = TRUE]

Step(t, j, s, p, q) ==
  \/ \E l \in Locks : s = <<"lock", l>> /\ Lockable(p, l) /\ q = Deeper(p, l)
  \/ \E l \in Locks : s = <<"unlock", l>> /\ p = Deeper(q, l)
  \/ \E r \in Resources : s = <<"enter", r>> /\ q = [p EXCEPT !.in = @ \cup {r}]
  \/ \E r \in Resources : s = <<"leave", r>> /\ q = [p EXCEPT !.in = @ \ {r}]
  \/ \E k \in DOMAIN j : PrintsNext(t, j, s, p, q, k)
  \/ s = <<"poll">> /\ p.busy /\ q = [p EXCEPT !.busy = FALSE]
  \/ s \in Instr(t, j) /\ s[1] = "return" /\ q = p

(* The steps s lead from the point p to the point q.                       *)
Runs(t, j, s, p, q) ==
  /\ s \in Seq(Instr(t, j))
  /\ \E D \in [0..Len(s) -> Points(j)] :
       /\ D[0] = p /\ D[Len(s)] = q
       /\ \A i \in 1..Len(s) : Step(t, j, s[i], D[i-1], D[i])

-----------------------------------------------------------------------------
(* Sequences of steps.                                                     *)

LEMMA PairIs ==
  ASSUME NEW x, NEW y
  PROVE  <<x>> \o <<y>> = <<x, y>>
<1> DEFINE X == {x, y}
           u == <<x>> \o <<y>>
           v == <<x, y>>
<1>1. u \in Seq(X) /\ Len(u) = 2 /\ u[1] = x /\ u[2] = y
  OBVIOUS
<1>2. v \in Seq(X) /\ Len(v) = 2 /\ v[1] = x /\ v[2] = y
  OBVIOUS
<1> HIDE DEF u, v, X
<1>3. \A i \in 1..2 : u[i] = v[i]
  <2>1. \A i \in 1..2 : i = 1 \/ i = 2
    OBVIOUS
  <2> QED BY <1>1, <1>2, <2>1
<1>4. u = [i \in 1..2 |-> u[i]] /\ v = [i \in 1..2 |-> v[i]]
  BY <1>1, <1>2
<1>5. u = v
  BY <1>3, <1>4
<1> QED BY <1>5 DEF u, v

LEMMA RunsNothing ==
  ASSUME NEW t, NEW j, NEW p \in Points(j)
  PROVE  Runs(t, j, <<>>, p, p)
<1> DEFINE D == [i \in 0..0 |-> p]
<1>1. D \in [0..Len(<<>>) -> Points(j)] /\ D[0] = p /\ D[Len(<<>>)] = p
  OBVIOUS
<1>2. \A i \in 1..Len(<<>>) : FALSE
  OBVIOUS
<1> HIDE DEF D
<1> QED BY <1>1, <1>2 DEF Runs

LEMMA RunsEnd ==
  ASSUME NEW t, NEW j, NEW p, NEW q, Runs(t, j, <<>>, p, q)
  PROVE  p = q
BY DEF Runs

LEMMA RunsPoints ==
  ASSUME NEW t, NEW j, NEW s, NEW p, NEW q, Runs(t, j, s, p, q)
  PROVE  s \in Seq(Instr(t, j)) /\ p \in Points(j) /\ q \in Points(j)
BY DEF Runs

LEMMA RunsStep ==
  ASSUME NEW t, NEW j, NEW s \in Instr(t, j), NEW p \in Points(j),
         NEW q \in Points(j), Step(t, j, s, p, q)
  PROVE  Runs(t, j, <<s>>, p, q)
<1> DEFINE D == [i \in 0..1 |-> IF i = 0 THEN p ELSE q]
<1>1. Len(<<s>>) = 1 /\ <<s>> \in Seq(Instr(t, j)) /\ <<s>>[1] = s
  OBVIOUS
<1>2. D \in [0..1 -> Points(j)] /\ D[0] = p /\ D[1] = q
  OBVIOUS
<1>3. \A i \in 1..1 : i = 1 /\ i - 1 = 0
  OBVIOUS
<1> HIDE DEF D
<1> QED BY <1>1, <1>2, <1>3 DEF Runs

LEMMA RunsConcat ==
  ASSUME NEW t, NEW j, NEW s, NEW u, NEW p, NEW q, NEW r,
         Runs(t, j, s, p, q), Runs(t, j, u, q, r)
  PROVE  Runs(t, j, s \o u, p, r)
<1>1. PICK D \in [0..Len(s) -> Points(j)] :
        /\ D[0] = p /\ D[Len(s)] = q
        /\ \A i \in 1..Len(s) : Step(t, j, s[i], D[i-1], D[i])
  BY DEF Runs
<1>2. PICK E \in [0..Len(u) -> Points(j)] :
        /\ E[0] = q /\ E[Len(u)] = r
        /\ \A i \in 1..Len(u) : Step(t, j, u[i], E[i-1], E[i])
  BY DEF Runs
<1>3. s \in Seq(Instr(t, j)) /\ u \in Seq(Instr(t, j))
  BY DEF Runs
<1> DEFINE m == Len(s)
           n == Len(u)
           F == [i \in 0..(m + n) |-> IF i <= m THEN D[i] ELSE E[i-m]]
<1>4. m \in Nat /\ n \in Nat /\ s \o u \in Seq(Instr(t, j)) /\ Len(s \o u) = m + n
  BY <1>3
<1>5. \A i \in 1..(m + n) : (s \o u)[i] = IF i <= m THEN s[i] ELSE u[i-m]
  BY <1>3
<1> HIDE DEF m, n
<1>6. F \in [0..(m + n) -> Points(j)]
  BY <1>1, <1>2, <1>4 DEF m, n
<1>7. F[0] = p /\ F[m + n] = r
  <2>1. 0 \in 0..(m + n) /\ 0 <= m /\ m + n \in 0..(m + n)
    BY <1>4
  <2>2. F[0] = D[0]
    BY <2>1
  <2>3. CASE n = 0
    <3>1. m + n = m
      BY <1>4, <2>3
    <3>2. F[m + n] = D[m]
      BY <2>1, <3>1
    <3> QED BY <1>1, <1>2, <2>2, <2>3, <3>2 DEF m, n
  <2>4. CASE n # 0
    <3>1. ~(m + n <= m) /\ (m + n) - m = n
      BY <1>4, <2>4
    <3>2. F[m + n] = E[n]
      BY <2>1, <3>1
    <3> QED BY <1>1, <1>2, <2>2, <3>2 DEF n
  <2> QED BY <2>3, <2>4
<1>8. ASSUME NEW i \in 1..(m + n) PROVE Step(t, j, (s \o u)[i], F[i-1], F[i])
  <2>1. CASE i <= m
    BY <1>1, <1>4, <1>5, <2>1 DEF m
  <2>2. CASE i > m
    <3>1. i - m \in 1..n /\ (i - m) - 1 = (i - 1) - m /\ ~(i <= m)
      BY <1>4, <2>2
    <3>2. F[i] = E[i-m]
      BY <1>4, <3>1
    <3>3. F[i-1] = E[(i-m) - 1]
      BY <1>1, <1>2, <1>4, <3>1, <2>2 DEF m
    <3>4. (s \o u)[i] = u[i-m]
      BY <1>5, <3>1
    <3> QED BY <1>2, <3>1, <3>2, <3>3, <3>4 DEF n
  <2> QED BY <1>4, <2>1, <2>2
<1> HIDE DEF F
<1> QED BY <1>4, <1>6, <1>7, <1>8 DEF Runs

LEMMA RunsHead ==
  ASSUME NEW t, NEW j, NEW s, NEW p, NEW r, Runs(t, j, s, p, r), s # <<>>
  PROVE  /\ Head(s) \in Instr(t, j)
         /\ \E q \in Points(j) : Step(t, j, Head(s), p, q) /\ Runs(t, j, Tail(s), q, r)
<1>1. PICK D \in [0..Len(s) -> Points(j)] :
        /\ D[0] = p /\ D[Len(s)] = r
        /\ \A i \in 1..Len(s) : Step(t, j, s[i], D[i-1], D[i])
  BY DEF Runs
<1>2. s \in Seq(Instr(t, j))
  BY DEF Runs
<1> DEFINE n == Len(s) - 1
           E == [i \in 0..n |-> D[i+1]]
<1>3. /\ n \in Nat /\ Len(s) = n + 1 /\ Head(s) = s[1] /\ s[1] \in Instr(t, j)
      /\ Tail(s) \in Seq(Instr(t, j)) /\ Len(Tail(s)) = n
      /\ \A i \in 1..n : Tail(s)[i] = s[i+1]
  BY <1>2
<1> HIDE DEF n
<1>4. E \in [0..n -> Points(j)] /\ E[0] = D[1] /\ E[n] = r /\ D[1] \in Points(j)
  BY <1>1, <1>3
<1>5. ASSUME NEW i \in 1..n PROVE Step(t, j, Tail(s)[i], E[i-1], E[i])
  <2>1. i+1 \in 1..Len(s) /\ (i+1) - 1 = i /\ (i-1) + 1 = i /\ i-1 \in 0..n
    BY <1>3
  <2>2. E[i] = D[i+1] /\ E[i-1] = D[i] /\ Tail(s)[i] = s[i+1]
    BY <1>3, <2>1
  <2>3. Step(t, j, s[i+1], D[(i+1)-1], D[i+1])
    BY <1>1, <2>1
  <2> QED BY <2>1, <2>2, <2>3
<1> HIDE DEF E
<1>6. Runs(t, j, Tail(s), D[1], r)
  BY <1>3, <1>4, <1>5 DEF Runs
<1>7. Step(t, j, Head(s), p, D[1])
  BY <1>1, <1>3
<1> QED BY <1>3, <1>4, <1>6, <1>7

(* A row of pieces, each of which leads to where the next begins.          *)
LEMMA RunsFlatten ==
  ASSUME NEW t, NEW j, NEW n \in Nat, NEW row, NEW c,
         DOMAIN row = 1..n, row = [k \in 1..n |-> row[k]],
         c[0] \in Points(j),
         \A k \in 1..n : Runs(t, j, row[k], c[k-1], c[k])
  PROVE  Runs(t, j, FlattenSeq(row), c[0], c[n])
<1> DEFINE I == Seq(Instr(t, j))
<1>1. \A k \in 1..n : row[k] \in I
  BY RunsPoints
<1>2. row \in Seq(I) /\ Len(row) = n
  <2> HIDE DEF I
  <2>1. row \in [1..n -> I]
    BY <1>1
  <2> QED BY <2>1, RowIsSeq
<1>3. CASE n = 0
  <2>1. FlattenSeq(row) = row /\ row = <<>>
    BY <1>2, <1>3 DEF FlattenSeq
  <2> QED BY <2>1, <1>3, RunsNothing
<1>4. CASE n # 0
  <2> DEFINE Eq(f) == f = [i \in 1..n |-> IF i = 1 THEN row[i] ELSE f[i-1] \o row[i]]
             flatten == CHOOSE f : Eq(f)
             m    == n - 1
             step == [k \in 1..m |-> [x \in I |-> x \o row[k+1]]]
             Ok   == [k \in 0..m |-> {x \in I : Runs(t, j, x, c[0], c[k+1])}]
  <2>1. m \in Nat /\ m + 1 = n /\ 0 \in 0..m /\ m \in 0..m
    BY <1>4
  <2>2. row[1] \in Ok[0]
    BY <1>1, <1>4, <2>1
  <2>3. ASSUME NEW k \in 1..m, NEW x \in Ok[k-1] PROVE step[k][x] \in Ok[k]
    <3>1. /\ k \in 0..m /\ k-1 \in 0..m /\ k+1 \in 1..n /\ (k+1) - 1 = k
          /\ (k-1) + 1 = k
      BY <2>1
    <3>2. x \in I /\ Runs(t, j, x, c[0], c[k])
      BY <3>1
    <3>3. Runs(t, j, row[k+1], c[k], c[k+1])
      BY <3>1
    <3>4. Runs(t, j, x \o row[k+1], c[0], c[k+1])
      BY <3>2, <3>3, RunsConcat
    <3>5. x \o row[k+1] \in I
      BY <3>4, RunsPoints
    <3>6. step[k][x] = x \o row[k+1]
      BY <3>2
    <3> QED BY <3>1, <3>4, <3>5, <3>6
  <2> HIDE DEF step, Ok
  <2>4. PICK f : IsLoop(f, m, row[1], step) /\ \A k \in 0..m : f[k] \in Ok[k]
    BY <2>1, <2>2, <2>3, Recursion
  <2> DEFINE g == [i \in 1..n |-> f[i-1]]
  <2>5. \A k \in 0..m : f[k] = IF k = 0 THEN row[1] ELSE step[k][f[k-1]]
    BY <2>4 DEF IsLoop
  <2>6. Eq(g)
    <3>1. ASSUME NEW i \in 1..n PROVE g[i] = IF i = 1 THEN row[i] ELSE g[i-1] \o row[i]
      <4>1. i-1 \in 0..m /\ (i = 1 <=> i-1 = 0) /\ g[i] = f[i-1]
        BY <2>1
      <4>2. CASE i = 1
        BY <2>5, <4>1, <4>2
      <4>3. CASE i # 1
        <5>1. i-1 \in 1..m /\ i-1 \in 1..n /\ (i-1)-1 \in 0..m /\ (i-1)+1 = i
          BY <2>1, <4>3
        <5>2. f[(i-1)-1] \in Ok[(i-1)-1] /\ g[i-1] = f[(i-1)-1]
          BY <2>4, <5>1
        <5>3. g[i-1] \in I
          BY <5>1, <5>2 DEF Ok
        <5>4. step[i-1][g[i-1]] = g[i-1] \o row[i]
          BY <5>1, <5>3 DEF step
        <5> HIDE DEF g
        <5> QED BY <2>5, <4>1, <4>3, <5>1, <5>2, <5>4
      <4> QED BY <4>2, <4>3
    <3>2. g = [i \in 1..n |-> g[i]]
      OBVIOUS
    <3> HIDE DEF g
    <3> QED BY <3>1, <3>2
  <2>7. Eq(flatten)
    <3> HIDE DEF Eq
    <3> QED BY <2>6
  <2>8. FlattenSeq(row) = flatten[n]
    BY <1>2, <1>4 DEF FlattenSeq
  <2> HIDE DEF flatten
  <2> DEFINE h == [k \in 0..m |-> flatten[k+1]]
  <2>9. h[0] \in Ok[0]
    <3>1. flatten[1] = row[1]
      BY <2>7, <1>4
    <3> QED BY <3>1, <2>1, <2>2
  <2>10. ASSUME NEW k \in 1..m, h[k-1] \in Ok[k-1] PROVE h[k] \in Ok[k]
    <3>1. k+1 \in 1..n /\ k+1 # 1 /\ (k+1)-1 = k /\ k \in 0..m /\ k-1 \in 0..m /\ (k-1)+1 = k
      BY <2>1
    <3>2. flatten[k+1] = flatten[k] \o row[k+1] /\ h[k] = flatten[k+1] /\ h[k-1] = flatten[k]
      BY <2>7, <3>1
    <3>3. step[k][h[k-1]] \in Ok[k]
      BY <2>3, <2>10
    <3>4. h[k-1] \in I
      BY <2>10, <3>1 DEF Ok
    <3>5. step[k][h[k-1]] = h[k-1] \o row[k+1]
      BY <3>4 DEF step
    <3> QED BY <3>2, <3>3, <3>5
  <2>11. \A k \in 0..m : h[k] \in Ok[k]
    <3> HIDE DEF h
    <3> QED BY <2>1, <2>9, <2>10, Turns
  <2>12. h[m] = flatten[n]
    BY <2>1
  <2>13. flatten[n] \in Ok[m]
    BY <2>1, <2>11, <2>12
  <2> QED BY <2>1, <2>8, <2>13 DEF Ok
<1> QED BY <1>3, <1>4

-----------------------------------------------------------------------------
(* Points and the functions.                                               *)

(* No lock of rank n or more is held.                                      *)
Under(p, n) == \A m \in Locks : p.depth[m] > 0 => Rank[m] < n

Left(p, k, rest) == [p EXCEPT !.left = [p.left EXCEPT ![k] = rest]]

LEMMA Ranks ==
  /\ Rank \in [Locks -> Nat] /\ \A l \in Locks : Rank[l] < 7
  /\ Rank["threads_mgmt_lock"] = 1 /\ Rank["printf_lock"] = 2
  /\ Rank["serial_lock"] = 3 /\ Rank["slab_lock"] = 4
  /\ Rank["valloc_lock"] = 5 /\ Rank["phys_alloc_lock"] = 6
BY DEF Rank, Locks

LEMMA DeeperPoint ==
  ASSUME NEW j, NEW p \in Points(j), NEW l \in Locks
  PROVE  /\ Deeper(p, l) \in Points(j)
         /\ Deeper(p, l).in = p.in /\ Deeper(p, l).left = p.left
         /\ Deeper(p, l).busy = p.busy
         /\ Deeper(p, l).depth \in [Locks -> Nat] /\ p.depth \in [Locks -> Nat]
         /\ \A m \in Locks : Deeper(p, l).depth[m] = IF m = l THEN p.depth[l] + 1
                                                             ELSE p.depth[m]
<1>1. /\ Deeper(p, l).in = p.in /\ Deeper(p, l).left = p.left
      /\ Deeper(p, l).busy = p.busy
      /\ Deeper(p, l).depth = [p.depth EXCEPT ![l] = p.depth[l] + 1]
      /\ p.depth \in [Locks -> Nat]
  BY DEF Deeper, Points, Point
<1>2. Deeper(p, l) \in Point(j)
  <2>1. p.depth[l] + 1 \in Nat
    BY <1>1
  <2>2. [p.depth EXCEPT ![l] = p.depth[l] + 1] \in [Locks -> Nat]
    BY <1>1, <2>1
  <2>3. \A d \in [Locks -> Nat] : [p EXCEPT !.depth = d] \in Point(j)
    BY DEF Points, Point
  <2> QED BY <2>2, <2>3 DEF Deeper
<1>3. \A m \in Locks : Deeper(p, l).depth[m] = IF m = l THEN p.depth[l] + 1
                                                     ELSE p.depth[m]
  BY <1>1
<1>4. \A m \in Locks : p.depth[m] > 0 => Deeper(p, l).depth[m] > 0
  BY <1>1, <1>3
<1>5. \A m \in Resources : GuardOf[m] \in Locks
  BY DEF GuardOf, Locks
<1>6. \A k : GuardFor(j[k]) \in Locks
  BY DEF GuardFor, Locks
<1>7. "serial_lock" \in Locks
  BY DEF Locks
<1>8. Guarded(j, p) /\ p.in \subseteq Resources
  BY DEF Points, Point
<1>9. Guarded(j, Deeper(p, l))
  <2>1. \A k : Partial(j, p, k) <=> Partial(j, Deeper(p, l), k)
    BY <1>1 DEF Partial
  <2> QED BY <2>1, <1>1, <1>4, <1>5, <1>6, <1>7, <1>8 DEF Guarded
<1>10. Deeper(p, l) \in Points(j) /\ Deeper(p, l).depth \in [Locks -> Nat]
  BY <1>2, <1>9 DEF Points, Point
<1> QED BY <1>1, <1>3, <1>10

LEMMA LeftPoint ==
  ASSUME NEW j, NEW p \in Points(j), NEW k \in DOMAIN j, NEW rest \in Seq(Chars(j)),
         Len(rest) <= Len(TextOf(j[k])),
         p.depth[GuardFor(j[k])] > 0 \/ rest = <<>>
  PROVE  /\ Left(p, k, rest) \in Points(j)
         /\ Left(p, k, rest).in = p.in /\ Left(p, k, rest).depth = p.depth
         /\ Left(p, k, rest).busy = p.busy
         /\ Left(p, k, rest).left[k] = rest
         /\ \A i \in DOMAIN j : i # k => Left(p, k, rest).left[i] = p.left[i]
<1>1. /\ Left(p, k, rest).in = p.in /\ Left(p, k, rest).depth = p.depth
      /\ Left(p, k, rest).busy = p.busy
      /\ Left(p, k, rest).left = [p.left EXCEPT ![k] = rest]
      /\ p.left \in [DOMAIN j -> Seq(Chars(j))]
  BY DEF Left, Points, Point
<1>2. Left(p, k, rest) \in Point(j)
  BY DEF Left, Points, Point
<1>3. /\ Left(p, k, rest).left[k] = rest
      /\ \A i \in DOMAIN j : i # k => Left(p, k, rest).left[i] = p.left[i]
  BY <1>1
<1>4. Guarded(j, p)
  BY DEF Points
<1>5. Guarded(j, Left(p, k, rest))
  <2>1. \A i \in DOMAIN j : i # k => (Partial(j, p, i) <=> Partial(j, Left(p, k, rest), i))
    BY <1>3 DEF Partial
  <2>2. Partial(j, Left(p, k, rest), k) => rest # <<>>
    BY <1>3 DEF Partial
  <2> QED BY <2>1, <2>2, <1>1, <1>3, <1>4 DEF Guarded
<1> QED BY <1>1, <1>2, <1>3, <1>5 DEF Points

LEMMA RunsLocked ==
  ASSUME NEW t, NEW j, NEW p \in Points(j), NEW q \in Points(j), NEW l \in Locks,
         Lockable(p, l), NEW body, Runs(t, j, body, Deeper(p, l), Deeper(q, l))
  PROVE  Runs(t, j, Locked(l, body), p, q)
<1>1. Deeper(p, l) \in Points(j) /\ Deeper(q, l) \in Points(j)
  BY DeeperPoint
<1>2. Runs(t, j, <<<<"lock", l>>>>, p, Deeper(p, l))
  <2>1. <<"lock", l>> \in Instr(t, j)
    BY DEF Instr
  <2>2. Step(t, j, <<"lock", l>>, p, Deeper(p, l))
    BY DEF Step
  <2> QED BY <1>1, <2>1, <2>2, RunsStep
<1>3. Runs(t, j, <<<<"unlock", l>>>>, Deeper(q, l), q)
  <2>1. <<"unlock", l>> \in Instr(t, j)
    BY DEF Instr
  <2>2. Step(t, j, <<"unlock", l>>, Deeper(q, l), q)
    BY DEF Step
  <2> QED BY <1>1, <2>1, <2>2, RunsStep
<1>4. Runs(t, j, <<<<"lock", l>>>> \o body, p, Deeper(q, l))
  BY <1>2, RunsConcat
<1>5. Runs(t, j, (<<<<"lock", l>>>> \o body) \o <<<<"unlock", l>>>>, p, q)
  BY <1>3, <1>4, RunsConcat
<1> QED BY <1>5 DEF Locked

LEMMA LockableUnder ==
  ASSUME NEW p, NEW l \in Locks, Under(p, Rank[l])
  PROVE  Lockable(p, l)
BY DEF Under, Lockable

LEMMA DeeperUnder ==
  ASSUME NEW j, NEW p \in Points(j), NEW l \in Locks, NEW n \in Nat,
         Under(p, Rank[l]), Rank[l] < n
  PROVE  Under(Deeper(p, l), n)
<1>1. /\ p.depth \in [Locks -> Nat]
      /\ \A m \in Locks : Deeper(p, l).depth[m] = IF m = l THEN p.depth[l] + 1
                                                          ELSE p.depth[m]
  BY DeeperPoint
<1>2. \A m \in Locks : Rank[m] \in Nat
  BY Ranks
<1> SUFFICES ASSUME NEW m \in Locks, Deeper(p, l).depth[m] > 0 PROVE Rank[m] < n
  BY DEF Under
<1>3. CASE m = l
  BY <1>3
<1>4. CASE m # l
  BY <1>1, <1>2, <1>4 DEF Under
<1> QED BY <1>3, <1>4

-----------------------------------------------------------------------------
(* Printing.                                                               *)

CanPrint(j, p, k) ==
  /\ ~p.busy /\ Lockable(p, "serial_lock") /\ p.depth[GuardFor(j[k])] > 0
  /\ \A i \in DOMAIN j : i # k => ~Partial(j, p, i)

LEMMA RunsPutchar ==
  ASSUME NEW t, NEW j, NEW p \in Points(j), NEW k \in DOMAIN j,
         CanPrint(j, p, k), p.left[k] # <<>>
  PROVE  Runs(t, j, putchar(<<t, k>>, Head(p.left[k])), p, Left(p, k, Tail(p.left[k])))
<1> DEFINE l == "serial_lock"
           d == Deeper(p, l)
           q == Left(p, k, Tail(p.left[k]))
           e == [d EXCEPT !.left = [d.left EXCEPT ![k] = Tail(d.left[k])], !.busy = TRUE]
<1>1. l \in Locks
  BY DEF Locks
<1>2. /\ d \in Points(j) /\ d.in = p.in /\ d.left = p.left /\ d.busy = p.busy
      /\ d.depth[l] > 0 /\ \A m \in Locks : p.depth[m] > 0 => d.depth[m] > 0
  <2> HIDE DEF l
  <2>1. /\ d \in Points(j) /\ d.in = p.in /\ d.left = p.left /\ d.busy = p.busy
        /\ p.depth \in [Locks -> Nat]
        /\ \A m \in Locks : d.depth[m] = IF m = l THEN p.depth[l] + 1 ELSE p.depth[m]
    BY <1>1, DeeperPoint
  <2>2. \A m \in Locks : p.depth[m] \in Nat
    BY <2>1
  <2> HIDE DEF d
  <2> QED BY <1>1, <2>1, <2>2
<1>3. /\ p.left \in [DOMAIN j -> Seq(Chars(j))] /\ p.left[k] \in Seq(Chars(j))
      /\ Tail(p.left[k]) \in Seq(Chars(j)) /\ Head(p.left[k]) \in Chars(j)
  <2>1. p.left \in [DOMAIN j -> Seq(Chars(j))]
    BY DEF Points, Point
  <2>2. p.left[k] \in Seq(Chars(j))
    BY <2>1
  <2>3. \A x \in Seq(Chars(j)) : x # <<>> => Tail(x) \in Seq(Chars(j)) /\ Head(x) \in Chars(j)
    OBVIOUS
  <2> QED BY <2>1, <2>2, <2>3
<1>4. Len(Tail(p.left[k])) <= Len(TextOf(j[k]))
  <2>1. Len(p.left[k]) <= Len(TextOf(j[k]))
    BY DEF Points, Guarded
  <2>2. \A x \in Seq(Chars(j)) : x # <<>> => Len(x) \in Nat /\ Len(Tail(x)) = Len(x) - 1
    OBVIOUS
  <2>3. \A x, y \in Int : \A z : x <= z /\ y = x - 1 /\ z \in Int => y <= z
    OBVIOUS
  <2> QED BY <1>3, <2>1, <2>2, <2>3
<1>5. /\ q \in Points(j) /\ q.in = p.in /\ q.depth = p.depth /\ q.busy = p.busy
      /\ q.left = [p.left EXCEPT ![k] = Tail(p.left[k])]
  <2> DEFINE rest == Tail(p.left[k])
  <2>1. /\ rest \in Seq(Chars(j)) /\ Len(rest) <= Len(TextOf(j[k]))
        /\ p.depth[GuardFor(j[k])] > 0
    BY <1>3, <1>4 DEF CanPrint
  <2> HIDE DEF rest
  <2>2. /\ Left(p, k, rest) \in Points(j)
        /\ Left(p, k, rest).in = p.in /\ Left(p, k, rest).depth = p.depth
        /\ Left(p, k, rest).busy = p.busy
    BY <2>1, LeftPoint
  <2>3. Left(p, k, rest).left = [p.left EXCEPT ![k] = rest]
    BY DEF Left, Points, Point
  <2> QED BY <2>2, <2>3 DEF rest
<1>6. /\ Deeper(q, l) \in Points(j) /\ Deeper(q, l).in = p.in
      /\ Deeper(q, l).left = q.left /\ Deeper(q, l).busy = p.busy
      /\ Deeper(q, l).depth = d.depth
  <2>1. Deeper(q, l).depth = d.depth
    BY <1>5 DEF Deeper, Points, Point
  <2> HIDE DEF q, l, d
  <2> QED BY <1>1, <1>5, <2>1, DeeperPoint
<1>7. e \in Point(j) /\ e.in = d.in /\ e.depth = d.depth /\ e.busy = TRUE
      /\ e.left = q.left
  BY <1>2, <1>3, <1>5 DEF Points, Point
<1>8. e \in Points(j)
  <2>1. Guarded(j, Deeper(q, l))
    BY <1>6 DEF Points
  <2>2. \A i : Partial(j, Deeper(q, l), i) <=> Partial(j, e, i)
    BY <1>6, <1>7 DEF Partial
  <2>3. Guarded(j, e)
    BY <2>1, <2>2, <1>2, <1>6, <1>7 DEF Guarded
  <2> QED BY <1>7, <2>3 DEF Points
<1>9. Runs(t, j, <<<<"out", <<t, k>>, Head(p.left[k])>>>>, d, e)
  <2>1. <<"out", <<t, k>>, Head(p.left[k])>> \in Instr(t, j)
    <3>1. \A c \in Chars(j) : <<"out", <<t, k>>, c>> \in Instr(t, j)
      BY DEF Instr
    <3> QED BY <1>3, <3>1
  <2>2. MayPrint(j, d, k)
    <3>1. GuardFor(j[k]) \in Locks
      BY DEF GuardFor, Locks
    <3>2. \A i : Partial(j, d, i) <=> Partial(j, p, i)
      BY <1>2 DEF Partial
    <3> QED BY <3>1, <3>2, <1>2 DEF MayPrint, CanPrint
  <2>3. Step(t, j, <<"out", <<t, k>>, Head(p.left[k])>>, d, e)
    BY <1>2, <2>2 DEF Step, PrintsNext
  <2> HIDE DEF d, e
  <2> QED BY <1>2, <1>8, <2>1, <2>3, RunsStep
<1>10. Runs(t, j, <<<<"poll">>>>, e, Deeper(q, l))
  <2>1. <<"poll">> \in Instr(t, j)
    BY DEF Instr
  <2>2. Deeper(q, l) = [e EXCEPT !.busy = FALSE]
    <3>1. \A x, y \in Point(j) :
            /\ x.depth = y.depth /\ x.in = y.in /\ x.left = y.left /\ ~x.busy
            => x = [y EXCEPT !.busy = FALSE]
      BY DEF Point
    <3>2. Deeper(q, l) \in Point(j)
      BY <1>6 DEF Points
    <3> HIDE DEF q, l, d, e
    <3> QED BY <1>2, <1>6, <1>7, <3>1, <3>2 DEF CanPrint
  <2>3. Step(t, j, <<"poll">>, e, Deeper(q, l))
    BY <1>7, <2>2 DEF Step
  <2> QED BY <1>6, <1>8, <2>1, <2>3, RunsStep
<1>11. Runs(t, j, <<<<"out", <<t, k>>, Head(p.left[k])>>, <<"poll">>>>, d, Deeper(q, l))
  <2>1. <<<<"out", <<t, k>>, Head(p.left[k])>>>> \o <<<<"poll">>>>
          = <<<<"out", <<t, k>>, Head(p.left[k])>>, <<"poll">>>>
    BY PairIs
  <2> QED BY <1>9, <1>10, <2>1, RunsConcat
<1>12. Lockable(p, l)
  BY DEF CanPrint
<1> HIDE DEF q, d, l
<1>13. Runs(t, j, Locked(l, <<<<"out", <<t, k>>, Head(p.left[k])>>, <<"poll">>>>), p, q)
  BY <1>1, <1>5, <1>11, <1>12, RunsLocked DEF d
<1> QED BY <1>13 DEF putchar, q, l

(* What is left of a text after its first i characters.                    *)
LEMMA SuffixIs ==
  ASSUME NEW S, NEW text \in Seq(S), NEW i \in 0..Len(text)
  PROVE  /\ SubSeq(text, i+1, Len(text)) \in Seq(S)
         /\ Len(SubSeq(text, i+1, Len(text))) = Len(text) - i
         /\ i = 0 => SubSeq(text, i+1, Len(text)) = text
         /\ i = Len(text) => SubSeq(text, i+1, Len(text)) = <<>>
         /\ i < Len(text) => /\ SubSeq(text, i+1, Len(text)) # <<>>
                             /\ Head(SubSeq(text, i+1, Len(text))) = text[i+1]
                             /\ Tail(SubSeq(text, i+1, Len(text)))
                                  = SubSeq(text, i+2, Len(text))
<1> DEFINE n == Len(text)
           s == SubSeq(text, i+1, n)
           u == SubSeq(text, i+2, n)
<1>1. n \in Nat /\ i \in Nat /\ i <= n
  OBVIOUS
<1>2. /\ s \in Seq(S) /\ Len(s) = n - i
      /\ \A e \in 1..(n-i) : s[e] = text[e+i]
  OBVIOUS
<1>3. i = 0 => s = text
  BY <1>1
<1>4. i = n => s = <<>>
  BY <1>1, <1>2
<1>5. ASSUME i < n
      PROVE  s # <<>> /\ Head(s) = text[i+1] /\ Tail(s) = u
  <2>1. /\ u \in Seq(S) /\ Len(u) = n - (i+1)
        /\ \A e \in 1..(n-(i+1)) : u[e] = text[e+(i+1)]
    <3>1. i+2 = (i+1)+1 /\ i+1 \in 0..n
      BY <1>1, <1>5
    <3> QED BY <3>1, <1>1
  <2> HIDE DEF s, u, n
  <2>2. s # <<>> /\ Head(s) = s[1] /\ s[1] = text[1+i]
    BY <1>1, <1>2, <1>5
  <2>3. /\ Tail(s) \in Seq(S) /\ Len(Tail(s)) = (n-i) - 1
        /\ \A e \in 1..((n-i)-1) : Tail(s)[e] = s[e+1]
    BY <1>1, <1>2, <1>5, <2>2
  <2>4. \A e \in 1..(n-(i+1)) : Tail(s)[e] = u[e]
    <3>1. \A e \in 1..(n-(i+1)) : /\ e \in 1..((n-i)-1) /\ e+1 \in 1..(n-i)
                                  /\ (e+1)+i = e+(i+1)
      BY <1>1
    <3> QED BY <3>1, <2>1, <2>3, <1>2
  <2>5. (n-i)-1 = n-(i+1) /\ i+1 = 1+i
    BY <1>1
  <2>6. Tail(s) = [e \in 1..(n-(i+1)) |-> Tail(s)[e]] /\ u = [e \in 1..(n-(i+1)) |-> u[e]]
    <3>1. \A x \in Seq(S) : x = [e \in 1..Len(x) |-> x[e]]
      OBVIOUS
    <3>2. Len(Tail(s)) = n-(i+1) /\ Len(u) = n-(i+1)
      BY <2>1, <2>3, <2>5
    <3> QED BY <2>1, <2>3, <3>1, <3>2
  <2>7. Tail(s) = u
    BY <2>4, <2>6
  <2> QED BY <1>1, <1>2, <1>5, <2>2, <2>5, <2>7 DEF s, u, n
<1> HIDE DEF s, u, n
<1>6. /\ s \in Seq(S) /\ Len(s) = n - i
      /\ i = 0 => s = text
      /\ i = n => s = <<>>
      /\ i < n => s # <<>> /\ Head(s) = text[i+1] /\ Tail(s) = u
  BY <1>2, <1>3, <1>4, <1>5
<1> QED BY <1>6 DEF s, u, n

LEMMA RunsPutchars ==
  ASSUME NEW t, NEW j, NEW p \in Points(j), NEW k \in DOMAIN j, CanPrint(j, p, k)
  PROVE  Runs(t, j, putchars(<<t, k>>, p.left[k]), p, Left(p, k, <<>>))
<1> DEFINE text == p.left[k]
           n == Len(text)
           rest(i) == SubSeq(text, i+1, n)
           c == [i \in 0..n |-> Left(p, k, rest(i))]
           row == [i \in DOMAIN text |-> putchar(<<t, k>>, text[i])]
<1>1. /\ p.left \in [DOMAIN j -> Seq(Chars(j))] /\ text \in Seq(Chars(j)) /\ n \in Nat
      /\ n <= Len(TextOf(j[k])) /\ DOMAIN text = 1..n
      /\ Len(TextOf(j[k])) \in Nat
  <2>1. p.left \in [DOMAIN j -> Seq(Chars(j))]
    BY DEF Points, Point
  <2>2. text \in Seq(Chars(j))
    BY <2>1
  <2>3. n <= Len(TextOf(j[k])) /\ TextOf(j[k]) \in Seq(Chars(j))
    BY DEF Points, Guarded
  <2> HIDE DEF text
  <2> QED BY <2>1, <2>2, <2>3 DEF text
<1> HIDE DEF text
<1>2. ASSUME NEW i \in 0..n
      PROVE  /\ c[i] \in Points(j) /\ c[i].left[k] = rest(i)
             /\ c[i].depth = p.depth /\ c[i].busy = p.busy
             /\ \A e \in DOMAIN j : e # k => c[i].left[e] = p.left[e]
             /\ CanPrint(j, c[i], k)
  <2>1. rest(i) \in Seq(Chars(j)) /\ Len(rest(i)) = n - i
    BY <1>1, SuffixIs
  <2>2. Len(rest(i)) <= Len(TextOf(j[k])) /\ c[i] = Left(p, k, rest(i))
    <3>1. n - i <= Len(TextOf(j[k]))
      BY <1>1
    <3> QED BY <2>1, <3>1
  <2>3. p.depth[GuardFor(j[k])] > 0
    BY DEF CanPrint
  <2> HIDE DEF rest, c
  <2>4. /\ c[i] \in Points(j) /\ c[i].left[k] = rest(i)
        /\ c[i].depth = p.depth /\ c[i].busy = p.busy
        /\ \A e \in DOMAIN j : e # k => c[i].left[e] = p.left[e]
    <3> DEFINE r == rest(i)
    <3>1. r \in Seq(Chars(j)) /\ Len(r) <= Len(TextOf(j[k]))
      BY <2>1, <2>2
    <3> HIDE DEF r
    <3>2. /\ Left(p, k, r) \in Points(j) /\ Left(p, k, r).left[k] = r
          /\ Left(p, k, r).depth = p.depth /\ Left(p, k, r).busy = p.busy
          /\ \A e \in DOMAIN j : e # k => Left(p, k, r).left[e] = p.left[e]
      BY <2>3, <3>1, LeftPoint
    <3> QED BY <2>2, <3>2 DEF r
  <2>5. CanPrint(j, c[i], k)
    BY <2>4 DEF CanPrint, Partial, Lockable
  <2> QED BY <2>4, <2>5
<1>3. ASSUME NEW i \in 1..n PROVE Runs(t, j, row[i], c[i-1], c[i])
  <2>1. i-1 \in 0..n /\ i \in 0..n /\ i-1 < n /\ (i-1)+1 = i /\ (i-1)+2 = i+1
    BY <1>1
  <2>2. /\ rest(i-1) # <<>> /\ Head(rest(i-1)) = text[i]
        /\ Tail(rest(i-1)) = rest(i)
    <3>1. /\ SubSeq(text, (i-1)+1, n) # <<>>
          /\ Head(SubSeq(text, (i-1)+1, n)) = text[(i-1)+1]
          /\ Tail(SubSeq(text, (i-1)+1, n)) = SubSeq(text, (i-1)+2, n)
      BY <1>1, <2>1, SuffixIs
    <3> QED BY <3>1, <2>1
  <2>3. row[i] = putchar(<<t, k>>, text[i])
    BY <1>1
  <2>4. Left(c[i-1], k, rest(i)) = c[i]
    <3>1. \A x, y : Left(Left(p, k, x), k, y) = Left(p, k, y)
      BY <1>1 DEF Left, Points, Point
    <3> QED BY <2>1, <3>1
  <2> HIDE DEF c, row, rest
  <2>5. Runs(t, j, putchar(<<t, k>>, Head(c[i-1].left[k])), c[i-1],
             Left(c[i-1], k, Tail(c[i-1].left[k])))
    BY <1>2, <2>1, <2>2, RunsPutchar
  <2>6. c[i-1].left[k] = rest(i-1)
    BY <1>2, <2>1
  <2> QED BY <2>2, <2>3, <2>4, <2>5, <2>6
<1>4. row = [i \in 1..n |-> row[i]] /\ DOMAIN row = 1..n
  BY <1>1
<1>5. c[0] \in Points(j)
  BY <1>1, <1>2
<1>6. c[0] = p /\ c[n] = Left(p, k, <<>>)
  <2>1. rest(0) = text /\ rest(n) = <<>>
    <3>1. 0 \in 0..n /\ n \in 0..n
      BY <1>1
    <3> QED BY <1>1, <3>1, SuffixIs
  <2>2. Left(p, k, p.left[k]) = p
    <3>1. [p.left EXCEPT ![k] = p.left[k]] = p.left
      BY <1>1
    <3>2. [p EXCEPT !.left = p.left] = p
      BY DEF Points, Point
    <3> QED BY <3>1, <3>2 DEF Left
  <2> HIDE DEF rest
  <2> QED BY <1>1, <2>1, <2>2 DEF text
<1> HIDE DEF row, c
<1>7. Runs(t, j, FlattenSeq(row), c[0], c[n])
  BY <1>1, <1>3, <1>4, <1>5, RunsFlatten
<1>8. putchars(<<t, k>>, text) = FlattenSeq(row)
  BY DEF putchars, row
<1> QED BY <1>6, <1>7, <1>8 DEF text

LEMMA LeftDeeper ==
  ASSUME NEW j, NEW p \in Points(j), NEW k, NEW l, NEW rest
  PROVE  Left(Deeper(p, l), k, rest) = Deeper(Left(p, k, rest), l)
BY DEF Left, Deeper, Points, Point

LEMMA RunsPuts ==
  ASSUME NEW t, NEW j, NEW p \in Points(j), NEW k \in DOMAIN j,
         j[k].fn = "puts", p.left[k] = TextOf(j[k]), ~p.busy,
         Lockable(p, "serial_lock"),
         \A i \in DOMAIN j : i # k => ~Partial(j, p, i)
  PROVE  Runs(t, j, puts(<<t, k>>, j[k].format), p, Left(p, k, <<>>))
<1> DEFINE l == "serial_lock"
           d == Deeper(p, l)
           q == Left(p, k, <<>>)
<1>1. l \in Locks /\ GuardFor(j[k]) = l
  BY DEF Locks, GuardFor
<1> HIDE DEF l
<1>2. /\ d \in Points(j) /\ d.left = p.left /\ d.busy = p.busy
      /\ p.depth \in [Locks -> Nat] /\ d.depth[l] = p.depth[l] + 1
  BY <1>1, DeeperPoint
<1>3. CanPrint(j, d, k)
  <2>1. d.depth[l] > 0
    BY <1>1, <1>2
  <2>2. Lockable(d, l)
    BY <2>1 DEF Lockable
  <2>3. \A i : Partial(j, d, i) <=> Partial(j, p, i)
    BY <1>2 DEF Partial
  <2> HIDE DEF d
  <2> QED BY <1>1, <1>2, <2>1, <2>2, <2>3 DEF CanPrint, l
<1>4. Runs(t, j, putchars(<<t, k>>, TextOf(j[k])), d, Left(d, k, <<>>))
  BY <1>2, <1>3, RunsPutchars
<1>5. q \in Points(j)
  <2>1. /\ <<>> \in Seq(Chars(j)) /\ Len(<<>>) = 0 /\ TextOf(j[k]) \in Seq(Chars(j))
    BY DEF Points, Guarded
  <2>2. Len(<<>>) <= Len(TextOf(j[k]))
    BY <2>1
  <2> QED BY <2>1, <2>2, LeftPoint
<1>6. Left(d, k, <<>>) = Deeper(q, l)
  BY LeftDeeper
<1> HIDE DEF q, d
<1>7. Runs(t, j, Locked(l, putchars(<<t, k>>, TextOf(j[k]))), p, q)
  BY <1>1, <1>4, <1>5, <1>6, RunsLocked DEF d, l
<1>8. TextOf(j[k]) = Append(j[k].format, Newline)
  BY DEF TextOf
<1> QED BY <1>7, <1>8 DEF puts, q, l

LEMMA RunsVprintf ==
  ASSUME NEW t, NEW j, NEW p \in Points(j), NEW k \in DOMAIN j, NEW f, NEW args,
         j[k].fn # "puts", p.left[k] = TextOf(j[k]), TextOf(j[k]) = Text(f, args),
         ~p.busy, Under(p, 2),
         \A i \in DOMAIN j : i # k => ~Partial(j, p, i)
  PROVE  Runs(t, j, vprintf(<<t, k>>, f, args), p, Left(p, k, <<>>))
<1> DEFINE l == "printf_lock"
           d == Deeper(p, l)
           q == Left(p, k, <<>>)
<1>1. l \in Locks /\ GuardFor(j[k]) = l /\ Rank[l] = 2 /\ "serial_lock" \in Locks
      /\ Rank["serial_lock"] = 3
  BY Ranks DEF Locks, GuardFor
<1> HIDE DEF l
<1>2. /\ d \in Points(j) /\ d.left = p.left /\ d.busy = p.busy
      /\ p.depth \in [Locks -> Nat] /\ d.depth[l] = p.depth[l] + 1
  BY <1>1, DeeperPoint
<1>3. CanPrint(j, d, k)
  <2>1. d.depth[l] > 0
    BY <1>1, <1>2
  <2>2. Under(d, 3)
    BY <1>1, DeeperUnder
  <2>3. Lockable(d, "serial_lock")
    BY <1>1, <2>2, LockableUnder
  <2>4. \A i : Partial(j, d, i) <=> Partial(j, p, i)
    BY <1>2 DEF Partial
  <2> HIDE DEF d
  <2> QED BY <1>1, <1>2, <2>1, <2>3, <2>4 DEF CanPrint
<1>4. Runs(t, j, putchars(<<t, k>>, TextOf(j[k])), d, Left(d, k, <<>>))
  BY <1>2, <1>3, RunsPutchars
<1>5. q \in Points(j)
  <2>1. /\ <<>> \in Seq(Chars(j)) /\ Len(<<>>) = 0 /\ TextOf(j[k]) \in Seq(Chars(j))
    BY DEF Points, Guarded
  <2>2. Len(<<>>) <= Len(TextOf(j[k]))
    BY <2>1
  <2> QED BY <2>1, <2>2, LeftPoint
<1>6. Left(d, k, <<>>) = Deeper(q, l)
  BY LeftDeeper
<1>7. Lockable(p, l)
  BY <1>1, LockableUnder
<1> HIDE DEF q, d
<1>8. Runs(t, j, Locked(l, putchars(<<t, k>>, TextOf(j[k]))), p, q)
  BY <1>1, <1>4, <1>5, <1>6, <1>7, RunsLocked DEF d
<1> QED BY <1>8 DEF vprintf, q, l

-----------------------------------------------------------------------------
(* Allocating.                                                             *)

Inside(p, r) == [p EXCEPT !.in = p.in \cup {r}]

LEMMA UnderMore ==
  ASSUME NEW p, NEW m \in Nat, NEW n \in Nat, Under(p, m), m <= n
  PROVE  Under(p, n)
BY Ranks DEF Under

LEMMA InsidePoint ==
  ASSUME NEW j, NEW p \in Points(j), NEW r \in Resources, p.depth[GuardOf[r]] > 0
  PROVE  /\ Inside(p, r) \in Points(j) /\ Inside(p, r).depth = p.depth
         /\ Inside(p, r).in = p.in \cup {r}
<1>1. /\ Inside(p, r).depth = p.depth /\ Inside(p, r).left = p.left
      /\ Inside(p, r).busy = p.busy /\ Inside(p, r).in = p.in \cup {r}
  BY DEF Inside, Points, Point
<1>2. Inside(p, r) \in Point(j)
  <2>1. p.in \cup {r} \in SUBSET Resources
    BY DEF Points, Point
  <2>2. \A x \in SUBSET Resources : [p EXCEPT !.in = x] \in Point(j)
    BY DEF Points, Point
  <2> QED BY <2>1, <2>2 DEF Inside
<1>3. Guarded(j, Inside(p, r))
  <2>1. \A k : Partial(j, p, k) <=> Partial(j, Inside(p, r), k)
    BY <1>1 DEF Partial
  <2>2. Guarded(j, p)
    BY DEF Points
  <2> QED BY <2>1, <2>2, <1>1 DEF Guarded
<1> QED BY <1>1, <1>2, <1>3 DEF Points

LEMMA RunsEnter ==
  ASSUME NEW t, NEW j, NEW p \in Points(j), NEW r \in Resources,
         p.depth[GuardOf[r]] > 0
  PROVE  Runs(t, j, <<<<"enter", r>>>>, p, Inside(p, r))
<1>1. <<"enter", r>> \in Instr(t, j)
  BY DEF Instr
<1>2. Step(t, j, <<"enter", r>>, p, Inside(p, r))
  BY DEF Step, Inside
<1> QED BY <1>1, <1>2, InsidePoint, RunsStep

LEMMA RunsLeave ==
  ASSUME NEW t, NEW j, NEW p \in Points(j), NEW r \in Resources,
         p.depth[GuardOf[r]] > 0, r \notin p.in
  PROVE  Runs(t, j, <<<<"leave", r>>>>, Inside(p, r), p)
<1>1. <<"leave", r>> \in Instr(t, j)
  BY DEF Instr
<1>2. p = [Inside(p, r) EXCEPT !.in = @ \ {r}]
  <2>1. (p.in \cup {r}) \ {r} = p.in
    OBVIOUS
  <2>2. [Inside(p, r) EXCEPT !.in = @ \ {r}] = [p EXCEPT !.in = (p.in \cup {r}) \ {r}]
    BY DEF Inside, Points, Point
  <2>3. [p EXCEPT !.in = p.in] = p
    BY DEF Points, Point
  <2> QED BY <2>1, <2>2, <2>3
<1>3. Step(t, j, <<"leave", r>>, Inside(p, r), p)
  BY <1>2 DEF Step
<1> QED BY <1>1, <1>3, InsidePoint, RunsStep

LEMMA RunsBuddy ==
  ASSUME NEW t, NEW j, NEW p \in Points(j), Under(p, 6), "buddy" \notin p.in
  PROVE  Runs(t, j, buddy_call, p, p)
<1> DEFINE l == "phys_alloc_lock"
           r == "buddy"
           d == Deeper(p, l)
<1>1. l \in Locks /\ r \in Resources /\ GuardOf[r] = l /\ Rank[l] = 6
  BY Ranks DEF Locks, Resources, GuardOf
<1>2. buddy_call = Locked(l, <<<<"enter", r>>>> \o <<<<"leave", r>>>>)
  <2>1. <<<<"enter", r>>>> \o <<<<"leave", r>>>> = <<<<"enter", r>>, <<"leave", r>>>>
    BY PairIs
  <2> QED BY <2>1 DEF buddy_call
<1>3. r \notin p.in
  OBVIOUS
<1> HIDE DEF l, r
<1>4. d \in Points(j) /\ d.depth[l] > 0 /\ r \notin d.in
  BY <1>1, <1>3, DeeperPoint
<1> HIDE DEF d
<1>5. Runs(t, j, <<<<"enter", r>>>> \o <<<<"leave", r>>>>, d, d)
  <2>1. Runs(t, j, <<<<"enter", r>>>>, d, Inside(d, r))
    BY <1>1, <1>4, RunsEnter
  <2>2. Runs(t, j, <<<<"leave", r>>>>, Inside(d, r), d)
    BY <1>1, <1>4, RunsLeave
  <2> QED BY <2>1, <2>2, RunsConcat
<1>6. Lockable(p, l)
  BY <1>1, LockableUnder
<1> QED BY <1>1, <1>2, <1>5, <1>6, RunsLocked DEF d

LEMMA RunsValloc ==
  ASSUME NEW t, NEW j, NEW p \in Points(j), Under(p, 5), p.in = {}
  PROVE  Runs(t, j, valloc, p, p) /\ Runs(t, j, vfree, p, p)
<1> DEFINE l == "valloc_lock"
           d == Deeper(p, l)
<1>1. l \in Locks /\ Rank[l] = 5
  BY Ranks DEF Locks
<1>2. valloc = Locked(l, buddy_call) /\ vfree = Locked(l, buddy_call)
  BY DEF valloc, vfree
<1> HIDE DEF l
<1>3. d \in Points(j) /\ d.in = p.in
  BY <1>1, DeeperPoint
<1>4. Under(d, 6)
  BY <1>1, DeeperUnder
<1>5. Runs(t, j, buddy_call, d, d)
  <2> HIDE DEF d
  <2> QED BY <1>3, <1>4, RunsBuddy
<1>6. Lockable(p, l)
  BY <1>1, LockableUnder
<1> QED BY <1>1, <1>2, <1>5, <1>6, RunsLocked

(* What the slab allocator does inside, with its lock.                     *)
LEMMA RunsSlab ==
  ASSUME NEW t, NEW j, NEW p \in Points(j), Under(p, 4), p.in = {}
  PROVE  /\ \A first : Runs(t, j, slab_allocator_alloc(first), p, p)
         /\ \A last  : Runs(t, j, slab_allocator_free(last), p, p)
<1> DEFINE l == "slab_lock"
           r == "slab"
           d == Deeper(p, l)
           e == Inside(d, r)
           enter == <<<<"enter", r>>>>
           leave == <<<<"leave", r>>>>
<1>1. /\ l \in Locks /\ Rank[l] = 4 /\ r \in Resources /\ GuardOf[r] = l
      /\ r # "buddy"
  BY Ranks DEF Locks, Resources, GuardOf
<1>2. /\ d \in Points(j) /\ d.in = {} /\ d.depth[l] > 0 /\ Under(d, 6)
  <2> HIDE DEF l
  <2>1. Under(d, 6)
    BY <1>1, DeeperUnder
  <2> QED BY <1>1, <2>1, DeeperPoint
<1>3. /\ e \in Points(j) /\ e.depth = d.depth /\ e.in = {r}
  <2> HIDE DEF d, r, l
  <2> QED BY <1>1, <1>2, InsidePoint
<1>4. Under(e, 6) /\ "buddy" \notin e.in
  <2> HIDE DEF e, d
  <2> QED BY <1>1, <1>2, <1>3 DEF Under
<1>5. Runs(t, j, enter, d, e) /\ Runs(t, j, leave, e, d)
  <2>1. r \notin d.in
    BY <1>2
  <2> HIDE DEF d, r, l
  <2> QED BY <1>1, <1>2, <2>1, RunsEnter, RunsLeave
<1>6. Runs(t, j, buddy_call, e, e) /\ Runs(t, j, <<>>, e, e)
  <2> HIDE DEF e
  <2> QED BY <1>3, <1>4, RunsBuddy, RunsNothing
<1>7. Lockable(p, l)
  <2> HIDE DEF l
  <2> QED BY <1>1, LockableUnder
<1> HIDE DEF d, e, r, l, enter, leave
<1>8. ASSUME NEW body, Runs(t, j, body, e, e)
      PROVE  Runs(t, j, Locked(l, enter \o body \o leave), p, p)
  <2>1. Runs(t, j, enter \o body, d, e)
    BY <1>5, <1>8, RunsConcat
  <2>2. Runs(t, j, (enter \o body) \o leave, d, d)
    BY <1>5, <2>1, RunsConcat
  <2> QED BY <1>1, <1>7, <2>2, RunsLocked DEF d
<1>9. ASSUME NEW first PROVE Runs(t, j, slab_allocator_alloc(first), p, p)
  <2>1. Runs(t, j, IF first THEN buddy_call ELSE <<>>, e, e)
    BY <1>6
  <2>2. Runs(t, j, Locked(l, enter \o (IF first THEN buddy_call ELSE <<>>) \o leave), p, p)
    BY <1>8, <2>1
  <2> QED BY <2>2 DEF slab_allocator_alloc, enter, leave, r, l
<1>10. ASSUME NEW last PROVE Runs(t, j, slab_allocator_free(last), p, p)
  <2> DEFINE more == IF last THEN buddy_call ELSE <<>>
  <2>1. Runs(t, j, more, e, e)
    BY <1>6
  <2> HIDE DEF more
  <2>2. Runs(t, j, enter \o buddy_call, d, e)
    BY <1>5, <1>6, RunsConcat
  <2>3. Runs(t, j, (enter \o buddy_call) \o more, d, e)
    BY <2>1, <2>2, RunsConcat
  <2>4. Runs(t, j, ((enter \o buddy_call) \o more) \o leave, d, d)
    BY <1>5, <2>3, RunsConcat
  <2>5. Runs(t, j, Locked(l, ((enter \o buddy_call) \o more) \o leave), p, p)
    BY <1>1, <1>7, <2>4, RunsLocked DEF d
  <2> QED BY <2>5 DEF slab_allocator_free, enter, leave, r, l, more
<1> QED BY <1>9, <1>10

-----------------------------------------------------------------------------
(* Calls and jobs.                                                         *)

(* The point after the first k calls.                                      *)
Mid(j, k) ==
  [depth |-> [l \in Locks |-> 0], in |-> {},
   left |-> [i \in DOMAIN j |-> IF i <= k THEN <<>> ELSE TextOf(j[i])],
   busy |-> FALSE]

LEMMA CallableText ==
  ASSUME NEW j, \A i \in DOMAIN j : Callable(j[i])
  PROVE  \A k \in DOMAIN j : TextOf(j[k]) \in Seq(Chars(j))
<1> SUFFICES ASSUME NEW k \in DOMAIN j PROVE TextOf(j[k]) \in Seq(Chars(j))
  OBVIOUS
<1> DEFINE X == ToSet(TextOf(j[k]))
<1>1. TextOf(j[k]) \in Seq(X)
  BY DEF Callable
<1>2. X \subseteq Chars(j)
  BY DEF Chars
<1> HIDE DEF X
<1> QED BY <1>1, <1>2

LEMMA MidPoint ==
  ASSUME NEW j, \A k \in DOMAIN j : TextOf(j[k]) \in Seq(Chars(j)), NEW k
  PROVE  /\ Mid(j, k) \in Points(j) /\ Mid(j, k).in = {} /\ ~Mid(j, k).busy
         /\ \A n \in Nat : Under(Mid(j, k), n)
         /\ \A i \in DOMAIN j : ~Partial(j, Mid(j, k), i)
         /\ \A i \in DOMAIN j : Mid(j, k).left[i] = IF i <= k THEN <<>> ELSE TextOf(j[i])
<1> DEFINE p == Mid(j, k)
<1>1. /\ p.depth = [l \in Locks |-> 0] /\ p.in = {} /\ p.busy = FALSE
      /\ p.left = [i \in DOMAIN j |-> IF i <= k THEN <<>> ELSE TextOf(j[i])]
  BY DEF Mid
<1>2. \A i \in DOMAIN j : /\ p.left[i] = IF i <= k THEN <<>> ELSE TextOf(j[i])
                          /\ p.left[i] \in Seq(Chars(j))
  <2>1. <<>> \in Seq(Chars(j))
    OBVIOUS
  <2> HIDE DEF p
  <2> QED BY <1>1, <2>1
<1>3. \A i \in DOMAIN j : ~Partial(j, p, i) /\ Len(p.left[i]) <= Len(TextOf(j[i]))
  <2> SUFFICES ASSUME NEW i \in DOMAIN j
               PROVE  ~Partial(j, p, i) /\ Len(p.left[i]) <= Len(TextOf(j[i]))
    OBVIOUS
  <2>1. Len(TextOf(j[i])) \in Nat
    OBVIOUS
  <2>2. Len(<<>>) = 0
    OBVIOUS
  <2> HIDE DEF p
  <2> QED BY <1>2, <2>1, <2>2 DEF Partial
<1>4. \A l \in Locks : p.depth[l] = 0
  BY <1>1
<1>5. p \in Point(j)
  <2>1. [l \in Locks |-> 0] \in [Locks -> Nat] /\ {} \in SUBSET Resources
    OBVIOUS
  <2>2. p.left \in [DOMAIN j -> Seq(Chars(j))]
    BY <1>1, <1>2
  <2>3. p = [depth |-> p.depth, in |-> p.in, left |-> p.left, busy |-> p.busy]
    BY DEF Mid
  <2> HIDE DEF p
  <2> QED BY <1>1, <2>1, <2>2, <2>3 DEF Point
<1> HIDE DEF p
<1>6. Guarded(j, p)
  BY <1>1, <1>3 DEF Guarded
<1>7. \A n \in Nat : Under(p, n)
  BY <1>4 DEF Under
<1> QED BY <1>1, <1>2, <1>3, <1>5, <1>6, <1>7 DEF Points, p

LEMMA RunsCall ==
  ASSUME NEW t, NEW j, NEW n \in Nat, DOMAIN j = 1..n,
         \A i \in DOMAIN j : Callable(j[i]), NEW k \in 1..n
  PROVE  Runs(t, j, Steps(<<t, k>>, j[k]), Mid(j, k-1), Mid(j, k))
<1> DEFINE id == <<t, k>>
           call == j[k]
           p == Mid(j, k-1)
           q == Mid(j, k)
<1>1. \A i \in DOMAIN j : TextOf(j[i]) \in Seq(Chars(j))
  BY CallableText
<1>2. /\ p \in Points(j) /\ p.in = {} /\ ~p.busy /\ \A m \in Nat : Under(p, m)
      /\ \A i \in DOMAIN j : ~Partial(j, p, i)
      /\ p.left[k] = TextOf(call)
  <2>1. ~(k <= k-1)
    OBVIOUS
  <2> QED BY <1>1, <2>1, MidPoint
<1>3. q \in Points(j) /\ q.in = {} /\ \A m \in Nat : Under(q, m)
  BY <1>1, MidPoint
<1>4. q = Left(p, k, <<>>)
  <2> DEFINE f == [i \in DOMAIN j |-> IF i <= k-1 THEN <<>> ELSE TextOf(j[i])]
             g == [i \in DOMAIN j |-> IF i <= k THEN <<>> ELSE TextOf(j[i])]
  <2>1. g = [f EXCEPT ![k] = <<>>]
    <3>1. ASSUME NEW i \in DOMAIN j PROVE g[i] = [f EXCEPT ![k] = <<>>][i]
      <4>1. i \in Nat /\ k \in Nat /\ (i <= k <=> i <= k-1 \/ i = k) /\ ~(k <= k-1)
        OBVIOUS
      <4> QED BY <4>1
    <3> QED BY <3>1
  <2>2. p = [depth |-> [l \in Locks |-> 0], in |-> {}, left |-> f, busy |-> FALSE]
    BY DEF Mid
  <2>3. q = [depth |-> [l \in Locks |-> 0], in |-> {}, left |-> g, busy |-> FALSE]
    BY DEF Mid
  <2> HIDE DEF f, g, p, q
  <2> DEFINE z == [l \in Locks |-> 0]
  <2> HIDE DEF z
  <2>4. p.left = f /\ \A x : [p EXCEPT !.left = x]
            = [depth |-> z, in |-> {}, left |-> x, busy |-> FALSE]
    <3>1. p = [depth |-> z, in |-> {}, left |-> f, busy |-> FALSE]
      BY <2>2 DEF z
    <3>2. \A y, b : \A x : [[depth |-> z, in |-> y, left |-> f, busy |-> b] EXCEPT !.left = x]
            = [depth |-> z, in |-> y, left |-> x, busy |-> b]
      OBVIOUS
    <3>3. p.left = f
      BY <3>1
    <3> QED BY <3>1, <3>2, <3>3
  <2> QED BY <2>1, <2>3, <2>4 DEF Left, z
<1>5. TextOf(call) = <<>> => q = p
  <2> SUFFICES ASSUME TextOf(j[k]) = <<>> PROVE q = p
    OBVIOUS
  <2>1. \A i \in DOMAIN j : (IF i <= k THEN <<>> ELSE TextOf(j[i]))
                          = IF i <= k-1 THEN <<>> ELSE TextOf(j[i])
    OBVIOUS
  <2> QED BY <2>1 DEF Mid
<1>6. call.fn \in {"puts", "printf", "snprintf", "create_thread", "wait"}
  BY DEF Callable
<1>7. "serial_lock" \in Locks /\ Rank["serial_lock"] = 3
  BY Ranks DEF Locks
<1> HIDE DEF p, q
<1>8. CASE call.fn = "puts"
  <2>1. Lockable(p, "serial_lock")
    BY <1>2, <1>7, LockableUnder
  <2>2. Runs(t, j, puts(id, call.format), p, q)
    BY <1>2, <1>4, <1>8, <2>1, RunsPuts
  <2>3. Steps(id, call) = puts(id, call.format)
    BY <1>8 DEF Steps
  <2> QED BY <2>2, <2>3 DEF p, q
<1>9. CASE call.fn = "printf"
  <2>1. TextOf(call) = Text(call.format, call.args)
    BY <1>9 DEF TextOf
  <2>2. Runs(t, j, vprintf(id, call.format, call.args), p, q)
    BY <1>2, <1>4, <1>9, <2>1, RunsVprintf
  <2>3. Steps(id, call) = vprintf(id, call.format, call.args)
    BY <1>9 DEF Steps
  <2> QED BY <2>2, <2>3 DEF p, q
<1>10. CASE call.fn = "snprintf"
  <2> DEFINE s == <<"return", <<id, vsnprintf(call.size, call.format, call.args)>>>>
  <2>1. q = p
    BY <1>5, <1>10 DEF TextOf
  <2>2. s \in Instr(t, j) /\ s[1] = "return"
    <3>1. s \in {<<"return", <<<<t, i>>, vsnprintf(j[i].size, j[i].format, j[i].args)>>>> :
                     i \in {h \in DOMAIN j : j[h].fn = "snprintf"}}
      <4>1. k \in {h \in DOMAIN j : j[h].fn = "snprintf"}
        BY <1>10
      <4> QED BY <4>1
    <3> HIDE DEF s
    <3>2. s \in Instr(t, j)
      BY <3>1 DEF Instr
    <3> QED BY <3>2 DEF s
  <2>3. Step(t, j, s, p, p)
    BY <2>2 DEF Step
  <2>4. Steps(id, call) = <<s>>
    BY <1>10 DEF Steps, snprintf
  <2> HIDE DEF s
  <2>5. Runs(t, j, <<s>>, p, p)
    BY <1>2, <2>2, <2>3, RunsStep
  <2> QED BY <2>1, <2>4, <2>5 DEF p, q
<1>11. CASE call.fn = "create_thread"
  <2> DEFINE log == call.format
             l == "threads_mgmt_lock"
             d == Deeper(p, l)
             e == Deeper(q, l)
  <2>1. TextOf(call) = Text(log, <<>>)
    BY <1>11 DEF TextOf
  <2>2. Runs(t, j, slab_allocator_alloc(call.whole), p, p) /\ Runs(t, j, valloc, p, p)
    BY <1>2, RunsSlab, RunsValloc
  <2>3. l \in Locks /\ Rank[l] = 1
    BY Ranks DEF Locks
  <2> HIDE DEF l
  <2>4. d \in Points(j) /\ d.left = p.left /\ d.busy = p.busy
    BY <1>2, <2>3, DeeperPoint
  <2>5. Under(d, 2)
    BY <1>2, <2>3, DeeperUnder
  <2>6. \A i \in DOMAIN j : ~Partial(j, d, i)
    BY <1>2, <2>4 DEF Partial
  <2>7. Left(d, k, <<>>) = e
    BY <1>2, <1>4, LeftDeeper
  <2> HIDE DEF d, e
  <2>8. Runs(t, j, vprintf(id, log, <<>>), d, e)
    BY <1>2, <1>11, <2>1, <2>4, <2>5, <2>6, <2>7, RunsVprintf
  <2>9. Lockable(p, l)
    BY <1>2, <2>3, LockableUnder
  <2>10. Runs(t, j, Locked(l, vprintf(id, log, <<>>)), p, q)
    BY <1>2, <1>3, <2>3, <2>8, <2>9, RunsLocked DEF d, e
  <2>11. Runs(t, j, slab_allocator_alloc(call.whole) \o valloc, p, p)
    BY <2>2, RunsConcat
  <2>12. Runs(t, j, (slab_allocator_alloc(call.whole) \o valloc)
                    \o Locked(l, vprintf(id, log, <<>>)), p, q)
    BY <2>10, <2>11, RunsConcat
  <2>13. Steps(id, call) = create_thread(id, call.whole, log)
    BY <1>11 DEF Steps
  <2> QED BY <2>12, <2>13 DEF create_thread, l, p, q
<1>12. CASE call.fn = "wait"
  <2> DEFINE log == call.format
  <2>1. TextOf(call) = Text(log, <<>>)
    BY <1>12 DEF TextOf
  <2>2. Runs(t, j, vprintf(id, log, <<>>), p, q)
    BY <1>2, <1>4, <1>12, <2>1, RunsVprintf
  <2>3. Runs(t, j, slab_allocator_free(call.whole), q, q) /\ Runs(t, j, vfree, q, q)
    BY <1>3, RunsSlab, RunsValloc
  <2>4. Runs(t, j, vprintf(id, log, <<>>) \o vfree, p, q)
    BY <2>2, <2>3, RunsConcat
  <2>5. Runs(t, j, (vprintf(id, log, <<>>) \o vfree) \o slab_allocator_free(call.whole), p, q)
    BY <2>3, <2>4, RunsConcat
  <2>6. Steps(id, call) = wait(id, call.whole, log)
    BY <1>12 DEF Steps
  <2> QED BY <2>5, <2>6 DEF wait, p, q
<1> QED BY <1>6, <1>8, <1>9, <1>10, <1>11, <1>12

LEMMA RunsJob ==
  ASSUME NEW t, NEW j, NEW n \in Nat, DOMAIN j = 1..n,
         \A i \in DOMAIN j : Callable(j[i])
  PROVE  Runs(t, j, FlattenSeq([k \in DOMAIN j |-> Steps(<<t, k>>, j[k])]),
              Mid(j, 0), Mid(j, n))
<1> DEFINE row == [k \in DOMAIN j |-> Steps(<<t, k>>, j[k])]
           c == [k \in 0..n |-> Mid(j, k)]
<1>1. DOMAIN row = 1..n /\ row = [k \in 1..n |-> row[k]]
  OBVIOUS
<1>2. c[0] = Mid(j, 0) /\ c[n] = Mid(j, n) /\ c[0] \in Points(j)
  <2>1. \A i \in DOMAIN j : TextOf(j[i]) \in Seq(Chars(j))
    BY CallableText
  <2> QED BY <2>1, MidPoint
<1>3. ASSUME NEW k \in 1..n PROVE Runs(t, j, row[k], c[k-1], c[k])
  <2>1. Runs(t, j, Steps(<<t, k>>, j[k]), Mid(j, k-1), Mid(j, k))
    BY RunsCall
  <2> QED BY <2>1
<1> HIDE DEF row, c
<1>4. Runs(t, j, FlattenSeq(row), c[0], c[n])
  BY <1>1, <1>2, <1>3, RunsFlatten
<1> QED BY <1>2, <1>4 DEF row

-----------------------------------------------------------------------------
(* The characters of a call on the line.                                   *)

CharsLoop(id, h) ==
  CHOOSE f : f = [k \in 0..Len(h) |->
        IF k = 0 THEN <<>>
        ELSE IF h[k][1] = id THEN Append(f[k-1], h[k][2]) ELSE f[k-1]]

LEMMA CharsLoopIs ==
  ASSUME NEW id, NEW X, NEW h \in Seq(X)
  PROVE  /\ CharsOf(id, h) = CharsLoop(id, h)[Len(h)]
         /\ CharsLoop(id, h) = [k \in 0..Len(h) |->
               IF k = 0 THEN <<>>
               ELSE IF h[k][1] = id THEN Append(CharsLoop(id, h)[k-1], h[k][2])
                                    ELSE CharsLoop(id, h)[k-1]]
         /\ \A k \in 0..Len(h) : CharsLoop(id, h)[k] \in Seq({x[2] : x \in X})
<1> DEFINE C == {x[2] : x \in X}
           n == Len(h)
           Is(f) == f = [k \in 0..n |->
               IF k = 0 THEN <<>>
               ELSE IF h[k][1] = id THEN Append(f[k-1], h[k][2]) ELSE f[k-1]]
           step == [k \in 1..n |-> [x \in Seq(C) |->
               IF h[k][1] = id THEN Append(x, h[k][2]) ELSE x]]
           Ok == [k \in 0..n |-> Seq(C)]
<1>1. n \in Nat /\ \A k \in 1..n : h[k][2] \in C
  <2>1. \A k \in 1..n : h[k] \in X
    OBVIOUS
  <2> QED BY <2>1
<1> HIDE DEF n, C
<1>2. <<>> \in Ok[0]
  BY <1>1
<1>3. ASSUME NEW k \in 1..n, NEW x \in Ok[k-1] PROVE step[k][x] \in Ok[k]
  <2>1. k \in 0..n /\ k-1 \in 0..n
    BY <1>1
  <2>2. x \in Seq(C)
    BY <2>1
  <2> QED BY <1>1, <2>1, <2>2
<1>4. PICK f : IsLoop(f, n, <<>>, step) /\ \A k \in 0..n : f[k] \in Ok[k]
  <2> HIDE DEF Ok, step
  <2> QED BY <1>1, <1>2, <1>3, Recursion
<1>5. \A k \in 0..n : f[k] \in Seq(C) /\ f[k] = IF k = 0 THEN <<>> ELSE step[k][f[k-1]]
  <2>1. \A k \in 0..n : f[k] = IF k = 0 THEN <<>> ELSE step[k][f[k-1]]
    BY <1>4 DEF IsLoop
  <2> QED BY <1>4, <2>1
<1>6. ASSUME NEW k \in 1..n
      PROVE  f[k] = IF h[k][1] = id THEN Append(f[k-1], h[k][2]) ELSE f[k-1]
  <2>1. k-1 \in 0..n /\ k \in 0..n /\ k # 0
    BY <1>1
  <2> QED BY <1>5, <2>1
<1>7. Is(f)
  <2>1. f = [k \in 0..n |-> f[k]]
    BY <1>4 DEF IsLoop
  <2>2. f[0] = <<>>
    <3>1. 0 \in 0..n
      BY <1>1
    <3> QED BY <1>5, <3>1
  <2>3. \A k \in 0..n : k = 0 \/ k \in 1..n
    BY <1>1
  <2>4. \A k \in 0..n : f[k] =
               IF k = 0 THEN <<>>
               ELSE IF h[k][1] = id THEN Append(f[k-1], h[k][2]) ELSE f[k-1]
    BY <1>6, <2>2, <2>3
  <2> QED BY <2>1, <2>4
<1> DEFINE g == CharsLoop(id, h)
<1>8. Is(g)
  <2>1. g = CHOOSE x : Is(x)
    BY DEF CharsLoop, n
  <2> HIDE DEF Is, g
  <2> QED BY <1>7, <2>1
<1>9. CharsOf(id, h) = g[n]
  BY DEF CharsOf, CharsLoop, n
<1> HIDE DEF g
<1>10. g[0] \in Ok[0]
  BY <1>1, <1>2, <1>8
<1>11. ASSUME NEW k \in 1..n, g[k-1] \in Ok[k-1] PROVE g[k] \in Ok[k]
  <2>1. k \in 0..n /\ k-1 \in 0..n /\ k # 0
    BY <1>1
  <2>2. g[k] = IF h[k][1] = id THEN Append(g[k-1], h[k][2]) ELSE g[k-1]
    BY <1>8, <2>1
  <2>3. g[k-1] \in Seq(C)
    BY <1>11, <2>1
  <2> QED BY <1>1, <2>1, <2>2, <2>3
<1>12. \A k \in 0..n : g[k] \in Ok[k]
  <2> HIDE DEF Ok, Is
  <2> QED BY <1>1, <1>10, <1>11, Turns
<1> QED BY <1>8, <1>9, <1>12 DEF g, n, C

LEMMA CharsNone ==
  ASSUME NEW id
  PROVE  CharsOf(id, <<>>) = <<>>
<1> DEFINE h == <<>>
           X == {}
<1>1. h \in Seq(X) /\ Len(h) = 0
  OBVIOUS
<1> HIDE DEF h, X
<1>2. CharsOf(id, h) = CharsLoop(id, h)[0]
  BY <1>1, CharsLoopIs
<1>3. CharsLoop(id, h)[0] = <<>>
  <2> DEFINE f == CharsLoop(id, h)
  <2>1. f = [k \in 0..Len(h) |-> IF k = 0 THEN <<>>
               ELSE IF h[k][1] = id THEN Append(f[k-1], h[k][2]) ELSE f[k-1]]
    <3>1. h \in Seq(X)
      BY <1>1
    <3> HIDE DEF f
    <3> QED BY <3>1, CharsLoopIs DEF f
  <2>2. 0 \in 0..Len(h)
    BY <1>1
  <2>3. f[0] = <<>>
    BY <2>1, <2>2
  <2> QED BY <2>3 DEF f
<1> QED BY <1>2, <1>3 DEF h

(* One more character.                                                     *)
More(id, chars, e) == IF e[1] = id THEN Append(chars, e[2]) ELSE chars

LEMMA CharsAppend ==
  ASSUME NEW id, NEW X, NEW h \in Seq(X), NEW e \in X
  PROVE  /\ CharsOf(id, h) \in Seq({x[2] : x \in X})
         /\ CharsOf(id, Append(h, e)) = More(id, CharsOf(id, h), e)
<1> DEFINE C == {x[2] : x \in X}
           n == Len(h)
           u == Append(h, e)
           f == CharsLoop(id, h)
           g == CharsLoop(id, u)
<1>1. /\ n \in Nat /\ u \in Seq(X) /\ Len(u) = n + 1 /\ u[n+1] = e
      /\ \A k \in 1..n : u[k] = h[k]
  OBVIOUS
<1> HIDE DEF u
<1> HIDE DEF C
<1>2. /\ CharsOf(id, h) = f[n]
      /\ f = [k \in 0..n |-> IF k = 0 THEN <<>>
               ELSE IF h[k][1] = id THEN Append(f[k-1], h[k][2]) ELSE f[k-1]]
      /\ \A k \in 0..n : f[k] \in Seq(C)
  BY CharsLoopIs DEF C
<1>3. /\ CharsOf(id, u) = g[n+1]
      /\ g = [k \in 0..(n+1) |-> IF k = 0 THEN <<>>
               ELSE IF u[k][1] = id THEN Append(g[k-1], u[k][2]) ELSE g[k-1]]
  BY <1>1, CharsLoopIs
<1> HIDE DEF f, g, n
<1> DEFINE Ok == [k \in 0..n |-> {f[k]}]
<1>4. g[0] \in Ok[0]
  BY <1>1, <1>2, <1>3
<1>5. ASSUME NEW k \in 1..n, g[k-1] \in Ok[k-1] PROVE g[k] \in Ok[k]
  <2>1. k \in 0..n /\ k-1 \in 0..n /\ k # 0 /\ k \in 0..(n+1) /\ u[k] = h[k]
    BY <1>1
  <2>2. g[k-1] = f[k-1]
    BY <1>5, <2>1
  <2>3. g[k] = IF u[k][1] = id THEN Append(g[k-1], u[k][2]) ELSE g[k-1]
    BY <1>3, <2>1
  <2>4. f[k] = IF h[k][1] = id THEN Append(f[k-1], h[k][2]) ELSE f[k-1]
    BY <1>2, <2>1
  <2> QED BY <2>1, <2>2, <2>3, <2>4
<1>6. \A k \in 0..n : g[k] \in Ok[k]
  <2> HIDE DEF Ok
  <2> QED BY <1>1, <1>4, <1>5, Turns
<1>7. g[n] = f[n] /\ f[n] \in Seq(C)
  <2>1. n \in 0..n
    BY <1>1
  <2> QED BY <1>2, <1>6, <2>1
<1>8. g[n+1] = IF u[n+1][1] = id THEN Append(g[n], u[n+1][2]) ELSE g[n]
  <2>1. n+1 \in 0..(n+1) /\ n+1 # 0 /\ (n+1)-1 = n
    BY <1>1
  <2> QED BY <1>3, <2>1
<1>9. CharsOf(id, u) = More(id, f[n], e)
  BY <1>1, <1>3, <1>7, <1>8 DEF More
<1> QED BY <1>2, <1>7, <1>9 DEF u, C

-----------------------------------------------------------------------------
(* The invariant.                                                          *)

(* What was sent and what is being sent.                                   *)
History == IF uart = NULL THEN line ELSE Append(line, uart)

Character == (Threads \X Nat) \X UNION {Chars(job[t]) : t \in Threads}

ConsoleType ==
  /\ job \in Jobs
  /\ todo = [t \in Threads |-> todo[t]]
  /\ locks \in [Locks -> [locked : Nat, owner : Threads \cup {NULL}]]
  /\ \A l \in Locks : locks[l].owner = NULL <=> locks[l].locked = 0
  /\ using \in [Resources -> SUBSET Threads]
  /\ line \in Seq(Character) /\ uart \in Character \cup {NULL}

(* A character of the call d may stand between two of the call c.          *)
Admits(c, d) ==
  \/ d = c
  \/ job[d[1]][d[2]].fn = "puts" /\ job[c[1]][c[2]].fn # "puts"

Whole ==
  \A x, y, z \in DOMAIN History :
    x < y /\ y < z /\ History[x][1] = History[z][1]
    => Admits(History[x][1], History[y][1])

(* The thread t is at the point p of its calls: the steps that it has      *)
(* still to make lead to their end, it holds the locks of p, it is inside  *)
(* the allocators of p, and what its calls have still to print completes   *)
(* what they have printed.  A call with text left is not interrupted.      *)
Started(t, p) ==
  \A x \in DOMAIN History : \A k \in Nat :
    History[x][1] = <<t, k>> =>
      k \in DOMAIN job[t] /\ Len(p.left[k]) < Len(TextOf(job[t][k]))

Open(t, p) ==
  \A k \in DOMAIN job[t] : p.left[k] # <<>> =>
    \A x, y \in DOMAIN History :
      x < y /\ History[x][1] = <<t, k>> => Admits(<<t, k>>, History[y][1])

Holds(t, p) ==
  \A l \in Locks : p.depth[l] = IF locks[l].owner = t THEN locks[l].locked ELSE 0

Prints(t, p) ==
  /\ \A k \in DOMAIN job[t] : CharsOf(<<t, k>>, History) \o p.left[k] = TextOf(job[t][k])
  /\ Started(t, p) /\ Open(t, p)

Sends(t, p) == uart # NULL /\ uart[1][1] = t => p.busy

IsAt(t, p) ==
  /\ Runs(t, job[t], todo[t], p, Mid(job[t], Len(job[t])))
  /\ Holds(t, p)
  /\ \A r \in Resources : r \in p.in <=> t \in using[r]
  /\ Prints(t, p) /\ Sends(t, p)

ConsoleInv ==
  /\ ConsoleType /\ Whole
  /\ \E P \in [Threads -> UNION {Points(job[t]) : t \in Threads}] :
       \A t \in Threads : IsAt(t, P[t])

LEMMA JobIs ==
  ASSUME job \in Jobs, NEW t \in Threads
  PROVE  /\ Len(job[t]) \in Nat /\ DOMAIN job[t] = 1..Len(job[t])
         /\ \A k \in DOMAIN job[t] : /\ Callable(job[t][k])
                                     /\ TextOf(job[t][k]) \in Seq(Chars(job[t]))
<1> DEFINE j == job[t]
           X == ToSet(j)
<1>1. j \in Seq(X) /\ \A k \in DOMAIN j : Callable(j[k])
  BY ConsoleConstants
<1> HIDE DEF j, X
<1>2. Len(j) \in Nat /\ DOMAIN j = 1..Len(j)
  BY <1>1
<1> QED BY <1>1, <1>2, CallableText DEF j

LEMMA NullApart ==
  ASSUME job \in Jobs
  PROVE  NULL \notin Character /\ NULL \notin Threads
<1>1. NULL \notin Threads
  BY ConsoleConstants
<1> SUFFICES ASSUME NULL \in Character PROVE FALSE
  BY <1>1
<1>2. PICK id \in Threads \X Nat, c \in UNION {Chars(job[t]) : t \in Threads} : NULL = <<id, c>>
  BY DEF Character
<1>3. PICK t \in Threads : c \in Chars(job[t])
  OBVIOUS
<1>4. PICK k \in DOMAIN job[t] : c \in ToSet(TextOf(job[t][k]))
  BY <1>3 DEF Chars
<1>5. Callable(job[t][k])
  BY <1>4, JobIs
<1> HIDE DEF Callable
<1>6. <<id, c>> \in (Threads \X Nat) \X ToSet(TextOf(job[t][k]))
  BY <1>4
<1> QED BY <1>2, <1>5, <1>6 DEF Callable

LEMMA ConsoleInitInv == Init => ConsoleInv
<1> SUFFICES ASSUME Init PROVE ConsoleInv
  OBVIOUS
<1>1. job \in Jobs /\ locks = [l \in Locks |-> [locked |-> 0, owner |-> NULL]]
      /\ using = [r \in {"buddy", "slab"} |-> {}] /\ line = <<>> /\ uart = NULL
  BY DEF Init
<1>2. History = <<>>
  BY <1>1 DEF History
<1>3. ConsoleType
  <2>1. todo = [t \in Threads |-> todo[t]]
    BY DEF Init
  <2>2. /\ locks \in [Locks -> [locked : Nat, owner : Threads \cup {NULL}]]
        /\ \A l \in Locks : locks[l].owner = NULL <=> locks[l].locked = 0
    BY <1>1
  <2>3. using \in [Resources -> SUBSET Threads]
    BY <1>1 DEF Resources
  <2>4. line \in Seq(Character)
    BY <1>1
  <2> QED BY <1>1, <2>1, <2>2, <2>3, <2>4 DEF ConsoleType
<1>4. Whole
  BY <1>2 DEF Whole
<1> DEFINE P == [t \in Threads |-> Mid(job[t], 0)]
<1>5. ASSUME NEW t \in Threads PROVE P[t] \in Points(job[t]) /\ IsAt(t, P[t])
  <2> DEFINE j == job[t]
             p == Mid(j, 0)
  <2>1. /\ Len(j) \in Nat /\ DOMAIN j = 1..Len(j)
        /\ \A k \in DOMAIN j : Callable(j[k]) /\ TextOf(j[k]) \in Seq(Chars(j))
    BY <1>1, JobIs
  <2>2. todo[t] = FlattenSeq([k \in DOMAIN j |-> Steps(<<t, k>>, j[k])])
    BY DEF Init
  <2> HIDE DEF j
  <2>3. Runs(t, j, todo[t], p, Mid(j, Len(j)))
    BY <2>1, <2>2, RunsJob
  <2>4. /\ p \in Points(j) /\ p.in = {} /\ ~p.busy
        /\ \A i \in DOMAIN j : p.left[i] = IF i <= 0 THEN <<>> ELSE TextOf(j[i])
    BY <2>1, MidPoint
  <2>5. \A l \in Locks : p.depth[l] = 0
    BY DEF Mid
  <2> HIDE DEF p
  <2>6. Holds(t, p)
    BY <1>1, <2>5 DEF Holds
  <2>7. \A r \in Resources : r \in p.in <=> t \in using[r]
    BY <1>1, <2>4 DEF Resources
  <2>8. ASSUME NEW k \in DOMAIN j
        PROVE  CharsOf(<<t, k>>, History) \o p.left[k] = TextOf(j[k])
    <3>1. p.left[k] = TextOf(j[k])
      BY <2>1, <2>4
    <3>2. CharsOf(<<t, k>>, History) = <<>>
      BY <1>2, CharsNone
    <3>3. <<>> \o TextOf(j[k]) = TextOf(j[k])
      BY <2>1
    <3> QED BY <3>1, <3>2, <3>3
  <2>9. Started(t, p) /\ Open(t, p)
    BY <1>2 DEF Started, Open
  <2>10. Sends(t, p)
    BY <1>1 DEF Sends
  <2>11. P[t] = p
    BY DEF p, j
  <2> HIDE DEF P
  <2> QED BY <2>3, <2>4, <2>6, <2>7, <2>8, <2>9, <2>10, <2>11 DEF IsAt, Prints, j
<1>6. P \in [Threads -> UNION {Points(job[t]) : t \in Threads}]
  BY <1>5
<1> HIDE DEF P
<1> QED BY <1>3, <1>4, <1>5, <1>6 DEF ConsoleInv

-----------------------------------------------------------------------------
(* The steps.                                                              *)

(* What a step is, by its first component.                                 *)
LEMMA StepLock ==
  ASSUME NEW t, NEW j, NEW s, NEW p, NEW q, Step(t, j, s, p, q), s[1] = "lock"
  PROVE  \E l \in Locks : s = <<"lock", l>> /\ Lockable(p, l) /\ q = Deeper(p, l)
<1>2. ASSUME \E l \in Locks : s = <<"unlock", l>> /\ p = Deeper(q, l)
      PROVE  FALSE
  <2>1. s[1] = "unlock"
    BY <1>2
  <2> QED BY <2>1
<1>3. ASSUME \E r \in Resources : s = <<"enter", r>> /\ q = [p EXCEPT !.in = @ \cup {r}]
      PROVE  FALSE
  <2>1. s[1] = "enter"
    BY <1>3
  <2> QED BY <2>1
<1>4. ASSUME \E r \in Resources : s = <<"leave", r>> /\ q = [p EXCEPT !.in = @ \ {r}]
      PROVE  FALSE
  <2>1. s[1] = "leave"
    BY <1>4
  <2> QED BY <2>1
<1>5. ASSUME \E k \in DOMAIN j : PrintsNext(t, j, s, p, q, k)
      PROVE  FALSE
  <2>1. s[1] = "out"
    BY <1>5 DEF PrintsNext
  <2> QED BY <2>1
<1>6. ASSUME s = <<"poll">> /\ p.busy /\ q = [p EXCEPT !.busy = FALSE]
      PROVE  FALSE
  <2>1. s[1] = "poll"
    BY <1>6
  <2> QED BY <2>1
<1>7. ASSUME s \in Instr(t, j) /\ s[1] = "return" /\ q = p
      PROVE  FALSE
  BY <1>7
<1> QED BY <1>2, <1>3, <1>4, <1>5, <1>6, <1>7 DEF Step

LEMMA StepUnlock ==
  ASSUME NEW t, NEW j, NEW s, NEW p, NEW q, Step(t, j, s, p, q), s[1] = "unlock"
  PROVE  \E l \in Locks : s = <<"unlock", l>> /\ p = Deeper(q, l)
<1>1. ASSUME \E l \in Locks : s = <<"lock", l>> /\ Lockable(p, l) /\ q = Deeper(p, l)
      PROVE  FALSE
  <2>1. s[1] = "lock"
    BY <1>1
  <2> QED BY <2>1
<1>3. ASSUME \E r \in Resources : s = <<"enter", r>> /\ q = [p EXCEPT !.in = @ \cup {r}]
      PROVE  FALSE
  <2>1. s[1] = "enter"
    BY <1>3
  <2> QED BY <2>1
<1>4. ASSUME \E r \in Resources : s = <<"leave", r>> /\ q = [p EXCEPT !.in = @ \ {r}]
      PROVE  FALSE
  <2>1. s[1] = "leave"
    BY <1>4
  <2> QED BY <2>1
<1>5. ASSUME \E k \in DOMAIN j : PrintsNext(t, j, s, p, q, k)
      PROVE  FALSE
  <2>1. s[1] = "out"
    BY <1>5 DEF PrintsNext
  <2> QED BY <2>1
<1>6. ASSUME s = <<"poll">> /\ p.busy /\ q = [p EXCEPT !.busy = FALSE]
      PROVE  FALSE
  <2>1. s[1] = "poll"
    BY <1>6
  <2> QED BY <2>1
<1>7. ASSUME s \in Instr(t, j) /\ s[1] = "return" /\ q = p
      PROVE  FALSE
  BY <1>7
<1> QED BY <1>1, <1>3, <1>4, <1>5, <1>6, <1>7 DEF Step

LEMMA StepEnter ==
  ASSUME NEW t, NEW j, NEW s, NEW p, NEW q, Step(t, j, s, p, q), s[1] = "enter"
  PROVE  \E r \in Resources : s = <<"enter", r>> /\ q = [p EXCEPT !.in = @ \cup {r}]
<1>1. ASSUME \E l \in Locks : s = <<"lock", l>> /\ Lockable(p, l) /\ q = Deeper(p, l)
      PROVE  FALSE
  <2>1. s[1] = "lock"
    BY <1>1
  <2> QED BY <2>1
<1>2. ASSUME \E l \in Locks : s = <<"unlock", l>> /\ p = Deeper(q, l)
      PROVE  FALSE
  <2>1. s[1] = "unlock"
    BY <1>2
  <2> QED BY <2>1
<1>4. ASSUME \E r \in Resources : s = <<"leave", r>> /\ q = [p EXCEPT !.in = @ \ {r}]
      PROVE  FALSE
  <2>1. s[1] = "leave"
    BY <1>4
  <2> QED BY <2>1
<1>5. ASSUME \E k \in DOMAIN j : PrintsNext(t, j, s, p, q, k)
      PROVE  FALSE
  <2>1. s[1] = "out"
    BY <1>5 DEF PrintsNext
  <2> QED BY <2>1
<1>6. ASSUME s = <<"poll">> /\ p.busy /\ q = [p EXCEPT !.busy = FALSE]
      PROVE  FALSE
  <2>1. s[1] = "poll"
    BY <1>6
  <2> QED BY <2>1
<1>7. ASSUME s \in Instr(t, j) /\ s[1] = "return" /\ q = p
      PROVE  FALSE
  BY <1>7
<1> QED BY <1>1, <1>2, <1>4, <1>5, <1>6, <1>7 DEF Step

LEMMA StepLeave ==
  ASSUME NEW t, NEW j, NEW s, NEW p, NEW q, Step(t, j, s, p, q), s[1] = "leave"
  PROVE  \E r \in Resources : s = <<"leave", r>> /\ q = [p EXCEPT !.in = @ \ {r}]
<1>1. ASSUME \E l \in Locks : s = <<"lock", l>> /\ Lockable(p, l) /\ q = Deeper(p, l)
      PROVE  FALSE
  <2>1. s[1] = "lock"
    BY <1>1
  <2> QED BY <2>1
<1>2. ASSUME \E l \in Locks : s = <<"unlock", l>> /\ p = Deeper(q, l)
      PROVE  FALSE
  <2>1. s[1] = "unlock"
    BY <1>2
  <2> QED BY <2>1
<1>3. ASSUME \E r \in Resources : s = <<"enter", r>> /\ q = [p EXCEPT !.in = @ \cup {r}]
      PROVE  FALSE
  <2>1. s[1] = "enter"
    BY <1>3
  <2> QED BY <2>1
<1>5. ASSUME \E k \in DOMAIN j : PrintsNext(t, j, s, p, q, k)
      PROVE  FALSE
  <2>1. s[1] = "out"
    BY <1>5 DEF PrintsNext
  <2> QED BY <2>1
<1>6. ASSUME s = <<"poll">> /\ p.busy /\ q = [p EXCEPT !.busy = FALSE]
      PROVE  FALSE
  <2>1. s[1] = "poll"
    BY <1>6
  <2> QED BY <2>1
<1>7. ASSUME s \in Instr(t, j) /\ s[1] = "return" /\ q = p
      PROVE  FALSE
  BY <1>7
<1> QED BY <1>1, <1>2, <1>3, <1>5, <1>6, <1>7 DEF Step

LEMMA StepOut ==
  ASSUME NEW t, NEW j, NEW s, NEW p, NEW q, Step(t, j, s, p, q), s[1] = "out"
  PROVE  \E k \in DOMAIN j : PrintsNext(t, j, s, p, q, k)
<1>1. ASSUME \E l \in Locks : s = <<"lock", l>> /\ Lockable(p, l) /\ q = Deeper(p, l)
      PROVE  FALSE
  <2>1. s[1] = "lock"
    BY <1>1
  <2> QED BY <2>1
<1>2. ASSUME \E l \in Locks : s = <<"unlock", l>> /\ p = Deeper(q, l)
      PROVE  FALSE
  <2>1. s[1] = "unlock"
    BY <1>2
  <2> QED BY <2>1
<1>3. ASSUME \E r \in Resources : s = <<"enter", r>> /\ q = [p EXCEPT !.in = @ \cup {r}]
      PROVE  FALSE
  <2>1. s[1] = "enter"
    BY <1>3
  <2> QED BY <2>1
<1>4. ASSUME \E r \in Resources : s = <<"leave", r>> /\ q = [p EXCEPT !.in = @ \ {r}]
      PROVE  FALSE
  <2>1. s[1] = "leave"
    BY <1>4
  <2> QED BY <2>1
<1>6. ASSUME s = <<"poll">> /\ p.busy /\ q = [p EXCEPT !.busy = FALSE]
      PROVE  FALSE
  <2>1. s[1] = "poll"
    BY <1>6
  <2> QED BY <2>1
<1>7. ASSUME s \in Instr(t, j) /\ s[1] = "return" /\ q = p
      PROVE  FALSE
  BY <1>7
<1> QED BY <1>1, <1>2, <1>3, <1>4, <1>6, <1>7 DEF Step

LEMMA StepPoll ==
  ASSUME NEW t, NEW j, NEW s, NEW p, NEW q, Step(t, j, s, p, q), s[1] = "poll"
  PROVE  s = <<"poll">> /\ p.busy /\ q = [p EXCEPT !.busy = FALSE]
<1>1. ASSUME \E l \in Locks : s = <<"lock", l>> /\ Lockable(p, l) /\ q = Deeper(p, l)
      PROVE  FALSE
  <2>1. s[1] = "lock"
    BY <1>1
  <2> QED BY <2>1
<1>2. ASSUME \E l \in Locks : s = <<"unlock", l>> /\ p = Deeper(q, l)
      PROVE  FALSE
  <2>1. s[1] = "unlock"
    BY <1>2
  <2> QED BY <2>1
<1>3. ASSUME \E r \in Resources : s = <<"enter", r>> /\ q = [p EXCEPT !.in = @ \cup {r}]
      PROVE  FALSE
  <2>1. s[1] = "enter"
    BY <1>3
  <2> QED BY <2>1
<1>4. ASSUME \E r \in Resources : s = <<"leave", r>> /\ q = [p EXCEPT !.in = @ \ {r}]
      PROVE  FALSE
  <2>1. s[1] = "leave"
    BY <1>4
  <2> QED BY <2>1
<1>5. ASSUME \E k \in DOMAIN j : PrintsNext(t, j, s, p, q, k)
      PROVE  FALSE
  <2>1. s[1] = "out"
    BY <1>5 DEF PrintsNext
  <2> QED BY <2>1
<1>7. ASSUME s \in Instr(t, j) /\ s[1] = "return" /\ q = p
      PROVE  FALSE
  BY <1>7
<1> QED BY <1>1, <1>2, <1>3, <1>4, <1>5, <1>7 DEF Step

LEMMA StepReturn ==
  ASSUME NEW t, NEW j, NEW s, NEW p, NEW q, Step(t, j, s, p, q), s[1] = "return"
  PROVE  s \in Instr(t, j) /\ s[1] = "return" /\ q = p
<1>1. ASSUME \E l \in Locks : s = <<"lock", l>> /\ Lockable(p, l) /\ q = Deeper(p, l)
      PROVE  FALSE
  <2>1. s[1] = "lock"
    BY <1>1
  <2> QED BY <2>1
<1>2. ASSUME \E l \in Locks : s = <<"unlock", l>> /\ p = Deeper(q, l)
      PROVE  FALSE
  <2>1. s[1] = "unlock"
    BY <1>2
  <2> QED BY <2>1
<1>3. ASSUME \E r \in Resources : s = <<"enter", r>> /\ q = [p EXCEPT !.in = @ \cup {r}]
      PROVE  FALSE
  <2>1. s[1] = "enter"
    BY <1>3
  <2> QED BY <2>1
<1>4. ASSUME \E r \in Resources : s = <<"leave", r>> /\ q = [p EXCEPT !.in = @ \ {r}]
      PROVE  FALSE
  <2>1. s[1] = "leave"
    BY <1>4
  <2> QED BY <2>1
<1>5. ASSUME \E k \in DOMAIN j : PrintsNext(t, j, s, p, q, k)
      PROVE  FALSE
  <2>1. s[1] = "out"
    BY <1>5 DEF PrintsNext
  <2> QED BY <2>1
<1>6. ASSUME s = <<"poll">> /\ p.busy /\ q = [p EXCEPT !.busy = FALSE]
      PROVE  FALSE
  <2>1. s[1] = "poll"
    BY <1>6
  <2> QED BY <2>1
<1> QED BY <1>1, <1>2, <1>3, <1>4, <1>5, <1>6 DEF Step

(* A step of t is a step from its point to the next.                       *)
LEMMA NextPoint ==
  ASSUME ConsoleType, NEW t \in Threads, NEW p, IsAt(t, p), todo[t] # <<>>
  PROVE  /\ p \in Points(job[t])
         /\ \E q \in Points(job[t]) :
              /\ Step(t, job[t], Head(todo[t]), p, q)
              /\ Runs(t, job[t], Tail(todo[t]), q, Mid(job[t], Len(job[t])))
BY RunsHead, RunsPoints DEF IsAt

LEMMA Tails ==
  ASSUME ConsoleType, NEW t \in Threads, Done(t)
  PROVE  /\ todo' = [u \in Threads |-> todo'[u]] /\ todo'[t] = Tail(todo[t])
         /\ \A u \in Threads : u # t => todo'[u] = todo[u]
BY DEF ConsoleType, Done

LEMMA Conclude ==
  ASSUME NEW P \in [Threads -> UNION {Points(job[u]) : u \in Threads}],
         NEW t \in Threads, NEW q \in Points(job[t]), job' = job,
         ConsoleType', Whole', IsAt(t, q)',
         \A u \in Threads : u # t => IsAt(u, P[u])'
  PROVE  ConsoleInv'
<1> DEFINE R == [P EXCEPT ![t] = q]
<1>1. R \in [Threads -> UNION {Points(job'[u]) : u \in Threads}]
  OBVIOUS
<1>2. R[t] = q /\ \A u \in Threads : u # t => R[u] = P[u]
  OBVIOUS
<1> HIDE DEF R
<1>3. \A u \in Threads : IsAt(u, R[u])'
  <2> SUFFICES ASSUME NEW u \in Threads PROVE IsAt(u, R[u])'
    OBVIOUS
  <2>1. CASE u = t
    <3>1. R[u] = q
      BY <1>2, <2>1
    <3> QED BY <2>1, <3>1
  <2>2. CASE u # t
    <3>1. R[u] = P[u]
      BY <1>2, <2>2
    <3> QED BY <2>2, <3>1
  <2> QED BY <2>1, <2>2
<1> QED BY <1>1, <1>3 DEF ConsoleInv

(* Steps that print nothing.                                               *)
LEMMA QuietPrints ==
  ASSUME job' = job, History' = History
  PROVE  /\ Whole => Whole'
         /\ \A u : \A p, q : Prints(u, p) /\ q.left = p.left => Prints(u, q)'
         /\ (uart' = uart \/ uart' = NULL) =>
              \A u : \A p : Sends(u, p) => Sends(u, p)'
<1>1. Whole => Whole'
  BY DEF Whole, Admits
<1>2. ASSUME NEW u, NEW p, NEW q, Prints(u, p), q.left = p.left
      PROVE  Prints(u, q)'
  <2>1. \A k \in DOMAIN job'[u] : CharsOf(<<u, k>>, History') \o q.left[k] = TextOf(job'[u][k])
    BY <1>2 DEF Prints
  <2>2. Started(u, q)'
    BY <1>2 DEF Prints, Started
  <2>3. Open(u, q)'
    BY <1>2 DEF Prints, Open, Admits
  <2> QED BY <2>1, <2>2, <2>3 DEF Prints
<1>3. (uart' = uart \/ uart' = NULL) =>
              \A u : \A p : Sends(u, p) => Sends(u, p)'
  BY DEF Sends
<1> QED BY <1>1, <1>2, <1>3

LEMMA SameHistory ==
  ASSUME uart' = uart, line' = line
  PROVE  History' = History
BY DEF History

LEMMA LockInv ==
  ASSUME ConsoleInv, NEW t \in Threads, Lock(t)
  PROVE  ConsoleInv'
<1>1. ConsoleType /\ Whole
  BY DEF ConsoleInv
<1>2. PICK P \in [Threads -> UNION {Points(job[u]) : u \in Threads}] :
        \A u \in Threads : IsAt(u, P[u])
  BY DEF ConsoleInv
<1> DEFINE p == P[t]
<1>3. /\ todo[t] # <<>> /\ Head(todo[t])[1] = "lock" /\ Available(t)
      /\ locks' = [locks EXCEPT ![Operand(t)] = [locked |-> @.locked + 1, owner |-> t]]
      /\ Done(t) /\ UNCHANGED <<job, uart, line, using>>
  BY DEF Lock, Does
<1>4. p \in Points(job[t]) /\ IsAt(t, p)
  BY <1>1, <1>2, <1>3, NextPoint
<1>5. PICK q \in Points(job[t]) :
        /\ Step(t, job[t], Head(todo[t]), p, q)
        /\ Runs(t, job[t], Tail(todo[t]), q, Mid(job[t], Len(job[t])))
  <2> HIDE DEF p
  <2> QED BY <1>1, <1>3, <1>4, NextPoint
<1> HIDE DEF p
<1>6. PICK l \in Locks : /\ Head(todo[t]) = <<"lock", l>> /\ q = Deeper(p, l)
  <2> DEFINE s == Head(todo[t])
  <2>1. s[1] = "lock" /\ Step(t, job[t], s, p, q)
    BY <1>3, <1>5
  <2> HIDE DEF s
  <2>2. \E l \in Locks : s = <<"lock", l>> /\ Lockable(p, l) /\ q = Deeper(p, l)
    BY <2>1, StepLock
  <2> QED BY <2>2 DEF s
<1>7. /\ Operand(t) = l /\ (locks[l].locked = 0 \/ locks[l].owner = t)
      /\ locks' = [locks EXCEPT ![l] = [locked |-> locks[l].locked + 1, owner |-> t]]
  <2>1. Operand(t) = l
    BY <1>6 DEF Operand
  <2> QED BY <1>3, <2>1 DEF Available
<1>8. History' = History
  BY <1>3, SameHistory
<1>9. /\ locks \in [Locks -> [locked : Nat, owner : Threads \cup {NULL}]]
      /\ \A m \in Locks : locks[m].owner = NULL <=> locks[m].locked = 0
      /\ NULL \notin Threads
  BY <1>1, NullApart DEF ConsoleType
<1>10. /\ locks'[l].owner = t /\ locks'[l].locked = locks[l].locked + 1
       /\ \A m \in Locks : m # l => locks'[m] = locks[m]
       /\ locks[l].locked \in Nat
  BY <1>7, <1>9
<1>11. ConsoleType'
  <2>1. locks' \in [Locks -> [locked : Nat, owner : Threads \cup {NULL}]]
    BY <1>7, <1>9
  <2>2. \A m \in Locks : locks'[m].owner = NULL <=> locks'[m].locked = 0
    BY <1>9, <1>10
  <2> QED BY <1>1, <1>3, <2>1, <2>2, Tails DEF ConsoleType, Character
<1>12. /\ q.in = p.in /\ q.left = p.left /\ q.busy = p.busy
       /\ \A m \in Locks : q.depth[m] = IF m = l THEN p.depth[l] + 1 ELSE p.depth[m]
  BY <1>4, <1>6, DeeperPoint
<1>13. IsAt(t, q)'
  <2>2. Holds(t, q)'
    <3>1. \A m \in Locks : p.depth[m] = IF locks[m].owner = t THEN locks[m].locked ELSE 0
      BY <1>4 DEF IsAt, Holds
    <3>2. p.depth[l] = locks[l].locked
      BY <1>7, <1>9, <3>1
    <3> QED BY <1>10, <1>12, <3>1, <3>2 DEF Holds
  <2>3. Prints(t, q)' /\ Sends(t, q)'
    BY <1>3, <1>4, <1>8, <1>12, QuietPrints DEF IsAt, Sends
  <2> QED BY <1>1, <1>3, <1>4, <1>5, <1>12, <2>2, <2>3, Tails DEF IsAt
<1>14. ASSUME NEW u \in Threads, u # t PROVE IsAt(u, P[u])'
  <2>1. IsAt(u, P[u])
    BY <1>2
  <2>2. Holds(u, P[u])'
    <3>1. locks[l].owner # u \/ locks[l].locked = 0
      BY <1>7, <1>14
    <3>2. Holds(u, P[u])
      BY <2>1 DEF IsAt
    <3> QED BY <1>10, <1>14, <3>1, <3>2 DEF Holds
  <2>3. Prints(u, P[u])' /\ Sends(u, P[u])'
    BY <1>3, <1>8, <2>1, QuietPrints DEF IsAt
  <2> QED BY <1>1, <1>3, <1>14, <2>1, <2>2, <2>3, Tails DEF IsAt
<1>15. Whole'
  BY <1>1, <1>3, <1>8, QuietPrints
<1> QED BY <1>2, <1>3, <1>11, <1>13, <1>14, <1>15, Conclude

LEMMA UnlockInv ==
  ASSUME ConsoleInv, NEW t \in Threads, Unlock(t)
  PROVE  ConsoleInv'
<1>1. ConsoleType /\ Whole
  BY DEF ConsoleInv
<1>2. PICK P \in [Threads -> UNION {Points(job[u]) : u \in Threads}] :
        \A u \in Threads : IsAt(u, P[u])
  BY DEF ConsoleInv
<1> DEFINE p == P[t]
<1>3. /\ todo[t] # <<>> /\ Head(todo[t])[1] = "unlock"
      /\ locks[Operand(t)].locked > 0 /\ locks[Operand(t)].owner = t
      /\ locks' = [locks EXCEPT ![Operand(t)] =
                     [locked |-> locks[Operand(t)].locked - 1,
                      owner  |-> IF locks[Operand(t)].locked = 1 THEN NULL ELSE t]]
      /\ Done(t) /\ UNCHANGED <<job, uart, line, using>>
  BY DEF Unlock, Does
<1>4. p \in Points(job[t]) /\ IsAt(t, p)
  BY <1>1, <1>2, <1>3, NextPoint
<1>5. PICK q \in Points(job[t]) :
        /\ Step(t, job[t], Head(todo[t]), p, q)
        /\ Runs(t, job[t], Tail(todo[t]), q, Mid(job[t], Len(job[t])))
  <2> HIDE DEF p
  <2> QED BY <1>1, <1>3, <1>4, NextPoint
<1> HIDE DEF p
<1>6. PICK l \in Locks : Head(todo[t]) = <<"unlock", l>> /\ p = Deeper(q, l)
  <2> DEFINE s == Head(todo[t])
  <2>1. s[1] = "unlock" /\ Step(t, job[t], s, p, q)
    BY <1>3, <1>5
  <2> HIDE DEF s
  <2>2. \E l \in Locks : s = <<"unlock", l>> /\ p = Deeper(q, l)
    BY <2>1, StepUnlock
  <2> QED BY <2>2 DEF s
<1>7. /\ locks[l].locked > 0 /\ locks[l].owner = t
      /\ locks' = [locks EXCEPT ![l] = [locked |-> locks[l].locked - 1,
                      owner |-> IF locks[l].locked = 1 THEN NULL ELSE t]]
  <2>1. Operand(t) = l
    BY <1>6 DEF Operand
  <2> QED BY <1>3, <2>1
<1>8. History' = History
  BY <1>3, SameHistory
<1>9. /\ locks \in [Locks -> [locked : Nat, owner : Threads \cup {NULL}]]
      /\ \A m \in Locks : locks[m].owner = NULL <=> locks[m].locked = 0
      /\ NULL \notin Threads
  BY <1>1, NullApart DEF ConsoleType
<1>10. /\ locks'[l].locked = locks[l].locked - 1
       /\ locks'[l].owner = IF locks[l].locked = 1 THEN NULL ELSE t
       /\ \A m \in Locks : m # l => locks'[m] = locks[m]
       /\ locks[l].locked \in Nat
  BY <1>7, <1>9
<1>11. ConsoleType'
  <2>1. locks' \in [Locks -> [locked : Nat, owner : Threads \cup {NULL}]]
    BY <1>7, <1>9
  <2>2. \A m \in Locks : locks'[m].owner = NULL <=> locks'[m].locked = 0
    BY <1>7, <1>9, <1>10
  <2> QED BY <1>1, <1>3, <2>1, <2>2, Tails DEF ConsoleType, Character
<1>12. /\ q.in = p.in /\ q.left = p.left /\ q.busy = p.busy
       /\ q.depth \in [Locks -> Nat]
       /\ \A m \in Locks : p.depth[m] = IF m = l THEN q.depth[l] + 1 ELSE q.depth[m]
  BY <1>6, DeeperPoint
<1>13. IsAt(t, q)'
  <2>1. Holds(t, q)'
    <3>1. \A m \in Locks : p.depth[m] = IF locks[m].owner = t THEN locks[m].locked ELSE 0
      BY <1>4 DEF IsAt, Holds
    <3>2. q.depth[l] + 1 = locks[l].locked /\ q.depth[l] \in Nat
      BY <1>7, <1>12, <3>1
    <3>3. q.depth[l] = IF locks'[l].owner = t THEN locks'[l].locked ELSE 0
      BY <1>9, <1>10, <3>2
    <3> QED BY <1>10, <1>12, <3>1, <3>3 DEF Holds
  <2>2. Prints(t, q)' /\ Sends(t, q)'
    BY <1>3, <1>4, <1>8, <1>12, QuietPrints DEF IsAt, Sends
  <2> QED BY <1>1, <1>3, <1>4, <1>5, <1>12, <2>1, <2>2, Tails DEF IsAt
<1>14. ASSUME NEW u \in Threads, u # t PROVE IsAt(u, P[u])'
  <2>1. IsAt(u, P[u])
    BY <1>2
  <2>2. Holds(u, P[u])'
    <3>1. locks[l].owner # u /\ locks'[l].owner # u
      BY <1>7, <1>9, <1>10, <1>14
    <3>2. Holds(u, P[u])
      BY <2>1 DEF IsAt
    <3> QED BY <1>10, <3>1, <3>2 DEF Holds
  <2>3. Prints(u, P[u])' /\ Sends(u, P[u])'
    BY <1>3, <1>8, <2>1, QuietPrints DEF IsAt
  <2> QED BY <1>1, <1>3, <1>14, <2>1, <2>2, <2>3, Tails DEF IsAt
<1>15. Whole'
  BY <1>1, <1>3, <1>8, QuietPrints
<1> QED BY <1>2, <1>3, <1>11, <1>13, <1>14, <1>15, Conclude

(* Steps that leave the locks alone as well.                               *)
LEMMA LocalInv ==
  ASSUME ConsoleType, Whole, NEW t \in Threads,
         NEW P \in [Threads -> UNION {Points(job[u]) : u \in Threads}],
         \A u \in Threads : IsAt(u, P[u]),
         NEW q \in Points(job[t]),
         Runs(t, job[t], Tail(todo[t]), q, Mid(job[t], Len(job[t]))),
         q.depth = P[t].depth, q.left = P[t].left, Sends(t, q)',
         Done(t), UNCHANGED <<job, locks, uart, line>>,
         using' \in [Resources -> SUBSET Threads],
         \A r \in Resources : r \in q.in <=> t \in using'[r],
         \A u \in Threads : u # t =>
           \A r \in Resources : u \in using[r] <=> u \in using'[r]
  PROVE  ConsoleInv'
<1>1. History' = History
  BY SameHistory
<1>2. ConsoleType'
  BY Tails DEF ConsoleType, Character
<1>3. IsAt(t, q)'
  <2>1. Holds(t, q)'
    BY DEF IsAt, Holds
  <2>2. Prints(t, q)'
    BY <1>1, QuietPrints DEF IsAt
  <2> QED BY <2>1, <2>2, Tails DEF IsAt
<1>4. ASSUME NEW u \in Threads, u # t PROVE IsAt(u, P[u])'
  <2>1. IsAt(u, P[u])
    OBVIOUS
  <2>2. Holds(u, P[u])'
    BY <2>1 DEF IsAt, Holds
  <2>3. Prints(u, P[u])' /\ Sends(u, P[u])'
    BY <1>1, <2>1, QuietPrints DEF IsAt
  <2> QED BY <1>4, <2>1, <2>2, <2>3, Tails DEF IsAt
<1>5. Whole'
  BY <1>1, QuietPrints
<1> QED BY <1>2, <1>3, <1>4, <1>5, Conclude

LEMMA PollInv ==
  ASSUME ConsoleInv, NEW t \in Threads, Poll(t)
  PROVE  ConsoleInv'
<1>1. ConsoleType /\ Whole
  BY DEF ConsoleInv
<1>2. PICK P \in [Threads -> UNION {Points(job[u]) : u \in Threads}] :
        \A u \in Threads : IsAt(u, P[u])
  BY DEF ConsoleInv
<1> DEFINE p == P[t]
<1>3. /\ todo[t] # <<>> /\ Head(todo[t])[1] = "poll" /\ uart = NULL
      /\ Done(t) /\ UNCHANGED <<job, locks, uart, line, using>>
  BY DEF Poll, Does
<1>4. p \in Points(job[t]) /\ IsAt(t, p)
  BY <1>1, <1>2, <1>3, NextPoint
<1>5. PICK q \in Points(job[t]) :
        /\ Step(t, job[t], Head(todo[t]), p, q)
        /\ Runs(t, job[t], Tail(todo[t]), q, Mid(job[t], Len(job[t])))
  <2> HIDE DEF p
  <2> QED BY <1>1, <1>3, <1>4, NextPoint
<1> HIDE DEF p
<1>6. q = [p EXCEPT !.busy = FALSE]
  <2> DEFINE s == Head(todo[t])
  <2>1. s[1] = "poll" /\ Step(t, job[t], s, p, q)
    BY <1>3, <1>5
  <2> HIDE DEF s
  <2> QED BY <2>1, StepPoll
<1>7. q.depth = p.depth /\ q.left = p.left /\ q.in = p.in
  BY <1>4, <1>6 DEF Points, Point
<1>8. Sends(t, q)'
  BY <1>3 DEF Sends
<1>9. \A r \in Resources : r \in q.in <=> t \in using'[r]
  BY <1>3, <1>4, <1>7 DEF IsAt
<1>10. using' \in [Resources -> SUBSET Threads]
  BY <1>1, <1>3 DEF ConsoleType
<1> QED BY <1>1, <1>2, <1>3, <1>5, <1>7, <1>8, <1>9, <1>10, LocalInv DEF p

LEMMA ReturnInv ==
  ASSUME ConsoleInv, NEW t \in Threads, Return(t)
  PROVE  ConsoleInv'
<1>1. ConsoleType /\ Whole
  BY DEF ConsoleInv
<1>2. PICK P \in [Threads -> UNION {Points(job[u]) : u \in Threads}] :
        \A u \in Threads : IsAt(u, P[u])
  BY DEF ConsoleInv
<1> DEFINE p == P[t]
<1>3. /\ todo[t] # <<>> /\ Head(todo[t])[1] = "return"
      /\ Done(t) /\ UNCHANGED <<job, locks, uart, line, using>>
  BY DEF Return, Does
<1>4. p \in Points(job[t]) /\ IsAt(t, p)
  BY <1>1, <1>2, <1>3, NextPoint
<1>5. PICK q \in Points(job[t]) :
        /\ Step(t, job[t], Head(todo[t]), p, q)
        /\ Runs(t, job[t], Tail(todo[t]), q, Mid(job[t], Len(job[t])))
  <2> HIDE DEF p
  <2> QED BY <1>1, <1>3, <1>4, NextPoint
<1> HIDE DEF p
<1>6. q = p
  <2> DEFINE s == Head(todo[t])
  <2>1. s[1] = "return" /\ Step(t, job[t], s, p, q)
    BY <1>3, <1>5
  <2> HIDE DEF s
  <2> QED BY <2>1, StepReturn
<1>7. q.depth = p.depth /\ q.left = p.left /\ q.in = p.in
  BY <1>6
<1>8. Sends(t, q)'
  BY <1>3, <1>4, <1>6 DEF Sends, IsAt
<1>9. \A r \in Resources : r \in q.in <=> t \in using'[r]
  BY <1>3, <1>4, <1>7 DEF IsAt
<1>10. using' \in [Resources -> SUBSET Threads]
  BY <1>1, <1>3 DEF ConsoleType
<1> QED BY <1>1, <1>2, <1>3, <1>5, <1>7, <1>8, <1>9, <1>10, LocalInv DEF p

LEMMA EnterInv ==
  ASSUME ConsoleInv, NEW t \in Threads, EnterAllocator(t)
  PROVE  ConsoleInv'
<1>1. ConsoleType /\ Whole
  BY DEF ConsoleInv
<1>2. PICK P \in [Threads -> UNION {Points(job[u]) : u \in Threads}] :
        \A u \in Threads : IsAt(u, P[u])
  BY DEF ConsoleInv
<1> DEFINE p == P[t]
<1>3. /\ todo[t] # <<>> /\ Head(todo[t])[1] = "enter"
      /\ using' = [using EXCEPT ![Operand(t)] = @ \cup {t}]
      /\ Done(t) /\ UNCHANGED <<job, locks, uart, line>>
  BY DEF EnterAllocator, Does
<1>4. p \in Points(job[t]) /\ IsAt(t, p)
  BY <1>1, <1>2, <1>3, NextPoint
<1>5. PICK q \in Points(job[t]) :
        /\ Step(t, job[t], Head(todo[t]), p, q)
        /\ Runs(t, job[t], Tail(todo[t]), q, Mid(job[t], Len(job[t])))
  <2> HIDE DEF p
  <2> QED BY <1>1, <1>3, <1>4, NextPoint
<1> HIDE DEF p
<1>6. PICK r \in Resources : /\ Head(todo[t]) = <<"enter", r>>
                            /\ q = [p EXCEPT !.in = @ \cup {r}]
  <2> DEFINE s == Head(todo[t])
  <2>1. s[1] = "enter" /\ Step(t, job[t], s, p, q)
    BY <1>3, <1>5
  <2> HIDE DEF s
  <2>2. \E r \in Resources : s = <<"enter", r>> /\ q = [p EXCEPT !.in = @ \cup {r}]
    BY <2>1, StepEnter
  <2> QED BY <2>2 DEF s
<1>7. q.depth = p.depth /\ q.left = p.left /\ q.in = p.in \cup {r} /\ q.busy = p.busy
  BY <1>4, <1>6 DEF Points, Point
<1>8. Sends(t, q)'
  BY <1>3, <1>4, <1>7 DEF Sends, IsAt
<1>9. using' = [using EXCEPT ![r] = @ \cup {t}]
  <2>1. Operand(t) = r
    BY <1>6 DEF Operand
  <2> QED BY <1>3, <2>1
<1>10. using \in [Resources -> SUBSET Threads]
  BY <1>1 DEF ConsoleType
<1>11. using' \in [Resources -> SUBSET Threads]
  BY <1>9, <1>10
<1>12. \A x \in Resources : x \in q.in <=> t \in using'[x]
  <2>1. \A x \in Resources : x \in p.in <=> t \in using[x]
    BY <1>4 DEF IsAt
  <2> QED BY <1>7, <1>9, <1>10, <2>1
<1>13. \A u \in Threads : u # t =>
         \A x \in Resources : u \in using[x] <=> u \in using'[x]
  BY <1>9, <1>10
<1> QED BY <1>1, <1>2, <1>3, <1>5, <1>7, <1>8, <1>11, <1>12, <1>13, LocalInv DEF p

LEMMA LeaveInv ==
  ASSUME ConsoleInv, NEW t \in Threads, LeaveAllocator(t)
  PROVE  ConsoleInv'
<1>1. ConsoleType /\ Whole
  BY DEF ConsoleInv
<1>2. PICK P \in [Threads -> UNION {Points(job[u]) : u \in Threads}] :
        \A u \in Threads : IsAt(u, P[u])
  BY DEF ConsoleInv
<1> DEFINE p == P[t]
<1>3. /\ todo[t] # <<>> /\ Head(todo[t])[1] = "leave"
      /\ using' = [using EXCEPT ![Operand(t)] = @ \ {t}]
      /\ Done(t) /\ UNCHANGED <<job, locks, uart, line>>
  BY DEF LeaveAllocator, Does
<1>4. p \in Points(job[t]) /\ IsAt(t, p)
  BY <1>1, <1>2, <1>3, NextPoint
<1>5. PICK q \in Points(job[t]) :
        /\ Step(t, job[t], Head(todo[t]), p, q)
        /\ Runs(t, job[t], Tail(todo[t]), q, Mid(job[t], Len(job[t])))
  <2> HIDE DEF p
  <2> QED BY <1>1, <1>3, <1>4, NextPoint
<1> HIDE DEF p
<1>6. PICK r \in Resources : /\ Head(todo[t]) = <<"leave", r>>
                            /\ q = [p EXCEPT !.in = @ \ {r}]
  <2> DEFINE s == Head(todo[t])
  <2>1. s[1] = "leave" /\ Step(t, job[t], s, p, q)
    BY <1>3, <1>5
  <2> HIDE DEF s
  <2>2. \E r \in Resources : s = <<"leave", r>> /\ q = [p EXCEPT !.in = @ \ {r}]
    BY <2>1, StepLeave
  <2> QED BY <2>2 DEF s
<1>7. q.depth = p.depth /\ q.left = p.left /\ q.in = p.in \ {r} /\ q.busy = p.busy
  BY <1>4, <1>6 DEF Points, Point
<1>8. Sends(t, q)'
  BY <1>3, <1>4, <1>7 DEF Sends, IsAt
<1>9. using' = [using EXCEPT ![r] = @ \ {t}]
  <2>1. Operand(t) = r
    BY <1>6 DEF Operand
  <2> QED BY <1>3, <2>1
<1>10. using \in [Resources -> SUBSET Threads]
  BY <1>1 DEF ConsoleType
<1>11. using' \in [Resources -> SUBSET Threads]
  BY <1>9, <1>10
<1>12. \A x \in Resources : x \in q.in <=> t \in using'[x]
  <2>1. \A x \in Resources : x \in p.in <=> t \in using[x]
    BY <1>4 DEF IsAt
  <2> QED BY <1>7, <1>9, <1>10, <2>1
<1>13. \A u \in Threads : u # t =>
         \A x \in Resources : u \in using[x] <=> u \in using'[x]
  BY <1>9, <1>10
<1> QED BY <1>1, <1>2, <1>3, <1>5, <1>7, <1>8, <1>11, <1>12, <1>13, LocalInv DEF p

LEMMA TransmitInv ==
  ASSUME ConsoleInv, Transmit
  PROVE  ConsoleInv'
<1>1. ConsoleType /\ Whole
  BY DEF ConsoleInv
<1>2. PICK P \in [Threads -> UNION {Points(job[u]) : u \in Threads}] :
        \A u \in Threads : IsAt(u, P[u])
  BY DEF ConsoleInv
<1>3. /\ uart # NULL /\ line' = Append(line, uart) /\ uart' = NULL
      /\ UNCHANGED <<job, todo, locks, using>>
  BY DEF Transmit
<1>4. History' = History
  BY <1>3 DEF History
<1>5. ConsoleType'
  <2>1. line' \in Seq(Character)'
    BY <1>1, <1>3 DEF ConsoleType, Character
  <2> QED BY <1>1, <1>3, <2>1 DEF ConsoleType, Character
<1>6. \A u \in Threads : IsAt(u, P[u])'
  <2> SUFFICES ASSUME NEW u \in Threads PROVE IsAt(u, P[u])'
    OBVIOUS
  <2>1. IsAt(u, P[u])
    BY <1>2
  <2>2. Holds(u, P[u])'
    BY <1>3, <2>1 DEF IsAt, Holds
  <2>3. Prints(u, P[u])' /\ Sends(u, P[u])'
    BY <1>3, <1>4, <2>1, QuietPrints DEF IsAt
  <2> QED BY <1>3, <2>1, <2>2, <2>3 DEF IsAt
<1>7. Whole'
  BY <1>1, <1>3, <1>4, QuietPrints
<1>8. P \in [Threads -> UNION {Points(job'[u]) : u \in Threads}]
  BY <1>2, <1>3
<1> QED BY <1>5, <1>6, <1>7, <1>8 DEF ConsoleInv

LEMMA IdleInv ==
  ASSUME ConsoleInv, UNCHANGED <<job, todo, locks, uart, line, using>>
  PROVE  ConsoleInv'
<1>1. History' = History
  BY SameHistory
<1>2. ConsoleType'
  BY DEF ConsoleInv, ConsoleType, Character
<1>3. Whole'
  BY <1>1, QuietPrints DEF ConsoleInv
<1>4. \A u \in Threads : \A p : IsAt(u, p) => IsAt(u, p)'
  <2> SUFFICES ASSUME NEW u \in Threads, NEW p, IsAt(u, p) PROVE IsAt(u, p)'
    OBVIOUS
  <2>1. Holds(u, p)'
    BY DEF IsAt, Holds
  <2>2. Prints(u, p)' /\ Sends(u, p)'
    BY <1>1, QuietPrints DEF IsAt
  <2> QED BY <2>1, <2>2 DEF IsAt
<1> QED BY <1>2, <1>3, <1>4 DEF ConsoleInv

LEMMA ConsTail ==
  ASSUME NEW X, NEW s \in Seq(X), NEW w \in Seq(X), w # <<>>
  PROVE  Append(s, Head(w)) \o Tail(w) = s \o w
<1> DEFINE a == Append(s, Head(w)) \o Tail(w)
           b == s \o w
           m == Len(s)
           n == Len(w)
<1>1. /\ m \in Nat /\ n \in Nat /\ n > 0 /\ Head(w) = w[1] /\ Head(w) \in X
      /\ Tail(w) \in Seq(X) /\ Len(Tail(w)) = n - 1
      /\ \A i \in 1..(n-1) : Tail(w)[i] = w[i+1]
  OBVIOUS
<1>2. /\ Append(s, Head(w)) \in Seq(X) /\ Len(Append(s, Head(w))) = m + 1
      /\ \A i \in 1..(m+1) : Append(s, Head(w))[i] = IF i = m + 1 THEN w[1] ELSE s[i]
  BY <1>1
<1>3. /\ b \in Seq(X) /\ Len(b) = m + n
      /\ \A i \in 1..(m+n) : b[i] = IF i <= m THEN s[i] ELSE w[i-m]
  OBVIOUS
<1> DEFINE u == Append(s, Head(w))
           v == Tail(w)
<1> HIDE DEF u, v, m, n, b
<1>4. u \o v \in Seq(X) /\ Len(u \o v) = (m+1) + (n-1)
      /\ \A i \in 1..((m+1) + (n-1)) : (u \o v)[i] = IF i <= m+1 THEN u[i] ELSE v[i-(m+1)]
  <2>1. u \in Seq(X) /\ v \in Seq(X) /\ Len(u) = m + 1 /\ Len(v) = n - 1
    BY <1>1, <1>2 DEF u, v
  <2>2. \A x, y \in Seq(X) :
          /\ x \o y \in Seq(X) /\ Len(x \o y) = Len(x) + Len(y)
          /\ \A i \in 1..(Len(x) + Len(y)) :
               (x \o y)[i] = IF i <= Len(x) THEN x[i] ELSE y[i-Len(x)]
    OBVIOUS
  <2>3. /\ u \o v \in Seq(X) /\ Len(u \o v) = Len(u) + Len(v)
        /\ \A i \in 1..(Len(u) + Len(v)) :
             (u \o v)[i] = IF i <= Len(u) THEN u[i] ELSE v[i-Len(u)]
    BY <2>1, <2>2
  <2>4. Len(u) = m + 1 /\ Len(v) = n - 1
    BY <2>1
  <2> QED BY <2>3, <2>4
<1>5. a = u \o v
  BY DEF u, v
<1>6. (m+1) + (n-1) = m + n
  BY <1>1
<1> HIDE DEF a
<1>7. \A i \in 1..(m+n) : a[i] = b[i]
  <2> SUFFICES ASSUME NEW i \in 1..(m+n) PROVE a[i] = b[i]
    OBVIOUS
  <2>1. a[i] = IF i <= m+1 THEN u[i] ELSE v[i-(m+1)]
    BY <1>4, <1>5, <1>6
  <2>2. CASE i <= m
    BY <1>1, <1>2, <1>3, <2>1, <2>2 DEF u
  <2>3. CASE i = m + 1
    <3>1. u[i] = w[1] /\ b[i] = w[i-m] /\ i - m = 1 /\ i <= m+1
      BY <1>1, <1>2, <1>3, <2>3 DEF u
    <3> QED BY <2>1, <3>1
  <2>4. CASE i > m + 1
    <3>1. i-(m+1) \in 1..(n-1) /\ (i-(m+1))+1 = i-m /\ ~(i <= m+1) /\ ~(i <= m)
      BY <1>1, <2>4
    <3> QED BY <1>1, <1>3, <2>1, <3>1 DEF v
  <2> QED BY <1>1, <2>2, <2>3, <2>4
<1>8. \A x \in Seq(X) : x = [i \in 1..Len(x) |-> x[i]]
  OBVIOUS
<1>9. a \in Seq(X) /\ Len(a) = m + n
  BY <1>4, <1>5, <1>6
<1>10. a = b
  BY <1>3, <1>7, <1>8, <1>9
<1> QED BY <1>10 DEF a, b

LEMMA Owner ==
  ASSUME ConsoleType, NEW t \in Threads, NEW p, IsAt(t, p), NEW l \in Locks,
         p.depth[l] > 0
  PROVE  locks[l].owner = t /\ locks[l].locked > 0
BY DEF IsAt, Holds

LEMMA Grown ==
  ASSUME NEW X, NEW h \in Seq(X), NEW e \in X
  PROVE  /\ Len(h) \in Nat /\ DOMAIN h = 1..Len(h)
         /\ DOMAIN Append(h, e) = 1..(Len(h) + 1)
         /\ Append(h, e)[Len(h) + 1] = e
         /\ \A i \in 1..Len(h) : Append(h, e)[i] = h[i]
OBVIOUS

LEMMA OutInv ==
  ASSUME ConsoleInv, NEW t \in Threads, Out(t)
  PROVE  ConsoleInv'
<1>1. ConsoleType /\ Whole
  BY DEF ConsoleInv
<1>2. PICK P \in [Threads -> UNION {Points(job[u]) : u \in Threads}] :
        \A u \in Threads : IsAt(u, P[u])
  BY DEF ConsoleInv
<1> DEFINE p == P[t]
           h == History
           n == Len(h)
<1>3. /\ todo[t] # <<>> /\ Head(todo[t])[1] = "out"
      /\ uart' = <<Operand(t), Head(todo[t])[3]>>
      /\ Done(t) /\ UNCHANGED <<job, locks, line, using>>
  BY DEF Out, Does
<1>4. p \in Points(job[t]) /\ IsAt(t, p)
  BY <1>1, <1>2, <1>3, NextPoint
<1>5. PICK q \in Points(job[t]) :
        /\ Step(t, job[t], Head(todo[t]), p, q)
        /\ Runs(t, job[t], Tail(todo[t]), q, Mid(job[t], Len(job[t])))
  <2> HIDE DEF p
  <2> QED BY <1>1, <1>3, <1>4, NextPoint
<1> HIDE DEF p
<1>6. PICK k \in DOMAIN job[t] :
        /\ p.left[k] # <<>> /\ Head(todo[t]) = <<"out", <<t, k>>, Head(p.left[k])>>
        /\ MayPrint(job[t], p, k)
        /\ q = [p EXCEPT !.left = [p.left EXCEPT ![k] = Tail(p.left[k])], !.busy = TRUE]
  <2> DEFINE s == Head(todo[t])
             j == job[t]
  <2>1. s[1] = "out" /\ Step(t, j, s, p, q)
    BY <1>3, <1>5
  <2> HIDE DEF s, j
  <2>2. \E k \in DOMAIN j : PrintsNext(t, j, s, p, q, k)
    BY <2>1, StepOut
  <2> QED BY <2>2 DEF s, j, PrintsNext
<1> DEFINE id == <<t, k>>
           c == Head(p.left[k])
           e == <<id, c>>
<1>7. uart' = e
  <2>1. Operand(t) = id /\ Head(todo[t])[3] = c
    BY <1>6 DEF Operand
  <2> QED BY <1>3, <2>1
<1>8. /\ job \in Jobs /\ NULL \notin Character
      /\ k \in Nat /\ p.left \in [DOMAIN job[t] -> Seq(Chars(job[t]))]
      /\ \A i \in DOMAIN job[t] : /\ i \in Nat /\ Len(p.left[i]) <= Len(TextOf(job[t][i]))
                                 /\ TextOf(job[t][i]) \in Seq(Chars(job[t]))
  <2>1. job \in Jobs /\ DOMAIN job[t] = 1..Len(job[t])
    BY <1>1, JobIs DEF ConsoleType
  <2> QED BY <1>4, <2>1, NullApart DEF Points, Point, Guarded
<1>9. /\ c \in Chars(job[t]) /\ Tail(p.left[k]) \in Seq(Chars(job[t]))
      /\ Len(Tail(p.left[k])) = Len(p.left[k]) - 1 /\ Len(p.left[k]) \in Nat
      /\ p.left[k] \in Seq(Chars(job[t]))
  <2> DEFINE X == Chars(job[t])
             w == p.left[k]
  <2>1. w \in Seq(X) /\ w # <<>>
    BY <1>6, <1>8
  <2> HIDE DEF X, w
  <2>2. Head(w) \in X /\ Tail(w) \in Seq(X) /\ Len(Tail(w)) = Len(w) - 1 /\ Len(w) \in Nat
    BY <2>1
  <2> QED BY <2>1, <2>2 DEF X, w
<1>10. e \in Character
  BY <1>8, <1>9 DEF Character
<1>11. uart = NULL
  <2> SUFFICES ASSUME uart # NULL PROVE FALSE
    OBVIOUS
  <2> DEFINE u == uart[1][1]
  <2>1. u \in Threads
    BY <1>1 DEF ConsoleType, Character
  <2>2. IsAt(u, P[u]) /\ P[u].busy
    BY <1>2, <2>1 DEF IsAt, Sends
  <2> HIDE DEF u
  <2>3. P[u] \in Points(job[u])
    BY <2>2, RunsPoints DEF IsAt
  <2>4. P[u].depth["serial_lock"] > 0
    BY <2>2, <2>3 DEF Points, Guarded
  <2>5. "serial_lock" \in Locks
    BY DEF Locks
  <2>6. locks["serial_lock"].owner = u
    BY <1>1, <2>1, <2>2, <2>4, <2>5, Owner
  <2>7. locks["serial_lock"].owner = t /\ ~p.busy
    BY <1>1, <1>4, <1>6, <2>5, Owner DEF MayPrint
  <2> QED BY <2>2, <2>6, <2>7 DEF p
<1>12. History' = Append(h, e) /\ h \in Seq(Character)
  <2>1. e # NULL
    BY <1>8, <1>10
  <2> QED BY <1>1, <1>3, <1>7, <1>11, <2>1 DEF History, ConsoleType
<1>13. /\ n \in Nat /\ DOMAIN h = 1..n /\ DOMAIN History' = 1..(n+1)
       /\ History'[n+1][1] = id /\ \A i \in 1..n : History'[i] = h[i]
  <2> HIDE DEF h
  <2>1. /\ Len(h) \in Nat /\ DOMAIN h = 1..Len(h)
        /\ DOMAIN Append(h, e) = 1..(Len(h) + 1)
        /\ Append(h, e)[Len(h) + 1] = e
        /\ \A i \in 1..Len(h) : Append(h, e)[i] = h[i]
    <3> HIDE DEF e
    <3> QED BY <1>10, <1>12, Grown
  <2> QED BY <1>12, <2>1
<1>14. /\ q.depth = p.depth /\ q.in = p.in /\ q.busy = TRUE
       /\ q.left = [p.left EXCEPT ![k] = Tail(p.left[k])]
       /\ q.left[k] = Tail(p.left[k])
       /\ \A i \in DOMAIN job[t] : i # k => q.left[i] = p.left[i]
  <2>1. /\ q.depth = p.depth /\ q.in = p.in /\ q.busy = TRUE
        /\ q.left = [p.left EXCEPT ![k] = Tail(p.left[k])]
    BY <1>4, <1>6 DEF Points, Point
  <2> QED BY <1>8, <2>1
<1>15. ASSUME NEW v \in Threads, NEW i \in Nat
       PROVE  CharsOf(<<v, i>>, History') = IF <<v, i>> = id THEN Append(CharsOf(id, h), c)
                                           ELSE CharsOf(<<v, i>>, h)
  <2>1. e[1] = id /\ e[2] = c
    OBVIOUS
  <2> HIDE DEF e, h, c, id
  <2>2. CharsOf(<<v, i>>, Append(h, e)) = More(<<v, i>>, CharsOf(<<v, i>>, h), e)
    <3>1. h \in Seq(Character) /\ e \in Character
      BY <1>10, <1>12
    <3> QED BY <3>1, CharsAppend
  <2>3. History' = Append(h, e)
    BY <1>12
  <2> QED BY <2>1, <2>2, <2>3 DEF More
<1>16. ASSUME NEW i \in DOMAIN job[t]
       PROVE  CharsOf(<<t, i>>, History') \o q.left[i] = TextOf(job[t][i])
  <2>1. CharsOf(<<t, i>>, h) \o p.left[i] = TextOf(job[t][i])
    BY <1>4 DEF IsAt, Prints
  <2>2. CASE i = k
    <3> DEFINE A == {x[2] : x \in Character}
               X == A \cup Chars(job[t])
               s == CharsOf(id, h)
               w == p.left[k]
    <3>1. s \in Seq(A)
      <4> HIDE DEF id, e, h
      <4> QED BY <1>10, <1>12, CharsAppend
    <3>2. w \in Seq(Chars(job[t])) /\ w # <<>>
      BY <1>6, <1>9
    <3> HIDE DEF A, s, w
    <3>3. s \in Seq(X) /\ w \in Seq(X)
      BY <3>1, <3>2
    <3> HIDE DEF X
    <3>4. Append(s, Head(w)) \o Tail(w) = s \o w
      BY <3>2, <3>3, ConsTail
    <3>5. CharsOf(<<t, i>>, History') = Append(s, Head(w))
      BY <1>8, <1>15, <2>2 DEF s, w
    <3>6. q.left[i] = Tail(w)
      BY <1>14, <2>2 DEF w
    <3> QED BY <2>1, <2>2, <3>4, <3>5, <3>6 DEF s, w
  <2>3. CASE i # k
    <3>1. <<t, i>> # id
      BY <2>3
    <3> HIDE DEF id
    <3> QED BY <1>8, <1>14, <1>15, <2>1, <2>3, <3>1
  <2> QED BY <2>2, <2>3
<1>17. Started(t, q)'
  <2> SUFFICES ASSUME NEW x \in 1..(n+1), NEW i \in Nat, History'[x][1] = <<t, i>>
               PROVE  i \in DOMAIN job[t] /\ Len(q.left[i]) < Len(TextOf(job[t][i]))
    BY <1>3, <1>13 DEF Started
  <2>1. i \in DOMAIN job[t] /\ (i # k => Len(p.left[i]) < Len(TextOf(job[t][i])))
    <3>1. CASE x = n + 1
      BY <1>13, <3>1
    <3>2. CASE x # n + 1
      <4>1. x \in DOMAIN h /\ h[x][1] = <<t, i>>
        BY <1>13, <3>2
      <4> QED BY <1>4, <4>1 DEF IsAt, Prints, Started
    <3> QED BY <3>1, <3>2
  <2>2. CASE i = k
    <3>1. Len(p.left[k]) <= Len(TextOf(job[t][k])) /\ Len(TextOf(job[t][k])) \in Nat
      BY <1>8
    <3>2. Len(q.left[k]) = Len(p.left[k]) - 1 /\ Len(p.left[k]) \in Nat
      BY <1>9, <1>14
    <3>3. Len(q.left[k]) < Len(TextOf(job[t][k]))
      <4> DEFINE a == Len(q.left[k])
                 b == Len(p.left[k])
                 d == Len(TextOf(job[t][k]))
      <4> HIDE DEF a, b, d
      <4>1. a = b - 1 /\ b \in Nat /\ b <= d /\ d \in Nat
        BY <3>1, <3>2 DEF a, b, d
      <4>2. a < d
        BY <4>1
      <4> QED BY <4>2 DEF a, d
    <3> QED BY <2>1, <2>2, <3>3
  <2>3. CASE i # k
    BY <1>14, <2>1, <2>3
  <2> QED BY <2>2, <2>3
(* Who else is in the middle of a text lets this character through.        *)
<1>18. ASSUME NEW v \in Threads, NEW i \in DOMAIN job[v], P[v].left[i] # <<>>,
              NEW x \in DOMAIN h, h[x][1] = <<v, i>>
       PROVE  Admits(<<v, i>>, id)
  <2> DEFINE pv == P[v]
  <2>1. IsAt(v, pv) /\ pv \in Points(job[v])
    BY <1>2, RunsPoints DEF IsAt
  <2>2. i \in Nat
    <3>1. DOMAIN job[v] = 1..Len(job[v])
      BY <1>8, JobIs
    <3> QED BY <3>1
  <2>3. Len(pv.left[i]) < Len(TextOf(job[v][i]))
    BY <1>18, <2>1, <2>2 DEF IsAt, Prints, Started
  <2>4. Partial(job[v], pv, i)
    <3>1. pv.left[i] \in Seq(Chars(job[v])) /\ pv.left[i] # <<>>
      BY <1>18, <2>1 DEF Points, Point
    <3>2. \A X : \A w \in Seq(X) : w # <<>> => 0 < Len(w)
      OBVIOUS
    <3> QED BY <2>3, <3>1, <3>2 DEF Partial
  <2>5. pv.depth[GuardFor(job[v][i])] > 0
    BY <2>1, <2>4 DEF Points, Guarded
  <2>6. CASE v = t
    <3>1. i = k
      BY <1>6, <2>4, <2>6 DEF MayPrint, p
    <3> QED BY <2>6, <3>1 DEF Admits
  <2>7. CASE v # t
    <3> HIDE DEF pv
    <3>1. "serial_lock" \in Locks /\ "printf_lock" \in Locks
      BY DEF Locks
    <3>2. locks["serial_lock"].owner = t
      BY <1>1, <1>4, <1>6, <3>1, Owner DEF MayPrint
    <3>3. job[v][i].fn # "puts"
      <4>1. job[v][i].fn = "puts" => pv.depth["serial_lock"] > 0
        BY <2>5 DEF GuardFor
      <4> QED BY <1>1, <2>1, <2>7, <3>1, <3>2, <4>1, Owner
    <3>4. locks["printf_lock"].owner = v
      <4>1. pv.depth["printf_lock"] > 0
        BY <2>5, <3>3 DEF GuardFor
      <4> QED BY <1>1, <2>1, <3>1, <4>1, Owner
    <3>5. job[t][k].fn = "puts"
      <4>1. job[t][k].fn # "puts" => p.depth["printf_lock"] > 0
        BY <1>6 DEF MayPrint, GuardFor
      <4> QED BY <1>1, <1>4, <2>7, <3>1, <3>4, <4>1, Owner
    <3> QED BY <3>3, <3>5 DEF Admits
  <2> QED BY <2>6, <2>7
<1>19. ASSUME NEW v \in Threads, NEW z,
              \A i \in DOMAIN job[v] : z.left[i] # <<>> => P[v].left[i] # <<>>
       PROVE  Open(v, z)'
  <2> SUFFICES ASSUME NEW i \in DOMAIN job[v], z.left[i] # <<>>,
                      NEW x \in 1..(n+1), NEW y \in 1..(n+1), x < y,
                      History'[x][1] = <<v, i>>
               PROVE  Admits(<<v, i>>, History'[y][1])
    <3>1. job' = job /\ DOMAIN History' = 1..(n+1)
      BY <1>3, <1>13
    <3> HIDE DEF n, h, id, e, c
    <3> QED BY <3>1 DEF Open, Admits
  <2>1. P[v].left[i] # <<>>
    BY <1>19
  <2>2. x \in DOMAIN h /\ h[x][1] = <<v, i>>
    BY <1>13
  <2>3. CASE y = n + 1
    BY <1>13, <1>18, <2>1, <2>2, <2>3
  <2>4. CASE y # n + 1
    <3>1. y \in DOMAIN h /\ History'[y] = h[y]
      <4>1. n \in Nat /\ DOMAIN h = 1..n /\ \A m \in 1..n : History'[m] = h[m]
        BY <1>13
      <4> HIDE DEF n, h, id, e, c
      <4>2. y \in 1..n
        BY <2>4, <4>1
      <4> QED BY <4>1, <4>2
    <3>2. Open(v, P[v])
      BY <1>2 DEF IsAt, Prints
    <3> QED BY <2>1, <2>2, <3>1, <3>2 DEF Open
  <2> QED BY <2>3, <2>4
<1>20. IsAt(t, q)'
  <2>1. Holds(t, q)'
    BY <1>3, <1>4, <1>14 DEF IsAt, Holds
  <2>2. Open(t, q)'
    <3>1. \A i \in DOMAIN job[t] : q.left[i] # <<>> => P[t].left[i] # <<>>
      BY <1>6, <1>14 DEF p
    <3> QED BY <1>19, <3>1
  <2>3. Prints(t, q)'
    BY <1>3, <1>16, <1>17, <2>2 DEF Prints
  <2>4. Sends(t, q)'
    BY <1>14 DEF Sends
  <2> QED BY <1>1, <1>3, <1>4, <1>5, <1>14, <2>1, <2>3, <2>4, Tails DEF IsAt
<1>21. ASSUME NEW u \in Threads, u # t PROVE IsAt(u, P[u])'
  <2>1. IsAt(u, P[u])
    BY <1>2
  <2>2. Holds(u, P[u])'
    BY <1>3, <2>1 DEF IsAt, Holds
  <2>3. \A i \in DOMAIN job[u] : CharsOf(<<u, i>>, History') \o P[u].left[i] = TextOf(job[u][i])
    <3> SUFFICES ASSUME NEW i \in DOMAIN job[u]
                 PROVE  CharsOf(<<u, i>>, History') = CharsOf(<<u, i>>, h)
      BY <2>1 DEF IsAt, Prints
    <3>1. i \in Nat
      <4>1. DOMAIN job[u] = 1..Len(job[u])
        BY <1>8, JobIs
      <4> QED BY <4>1
    <3>2. <<u, i>> # id
      BY <1>21
    <3> HIDE DEF id
    <3> QED BY <1>15, <3>1, <3>2
  <2>4. Started(u, P[u])'
    <3> SUFFICES ASSUME NEW x \in 1..(n+1), NEW i \in Nat, History'[x][1] = <<u, i>>
                 PROVE  i \in DOMAIN job[u] /\ Len(P[u].left[i]) < Len(TextOf(job[u][i]))
      BY <1>3, <1>13 DEF Started
    <3>1. x # n + 1
      BY <1>13, <1>21
    <3>2. x \in DOMAIN h /\ h[x][1] = <<u, i>>
      BY <1>13, <3>1
    <3> QED BY <2>1, <3>2 DEF IsAt, Prints, Started
  <2>5. Prints(u, P[u])'
    BY <1>3, <1>19, <2>3, <2>4 DEF Prints
  <2>6. Sends(u, P[u])'
    BY <1>7, <1>21 DEF Sends
  <2> QED BY <1>1, <1>3, <1>21, <2>1, <2>2, <2>5, <2>6, Tails DEF IsAt
<1>22. Whole'
  <2> SUFFICES ASSUME NEW x \in 1..(n+1), NEW y \in 1..(n+1), NEW z \in 1..(n+1),
                      x < y, y < z, History'[x][1] = History'[z][1]
               PROVE  Admits(History'[x][1], History'[y][1])
    BY <1>3, <1>13 DEF Whole, Admits
  <2>1. x \in DOMAIN h /\ y \in DOMAIN h /\ History'[x] = h[x] /\ History'[y] = h[y]
    BY <1>13
  <2>2. CASE z = n + 1
    <3>1. h[x][1] = id
      BY <1>13, <2>1, <2>2
    <3> QED BY <1>4, <1>6, <2>1, <3>1 DEF IsAt, Prints, Open
  <2>3. CASE z # n + 1
    <3>1. z \in DOMAIN h /\ History'[z] = h[z]
      BY <1>13, <2>3
    <3> QED BY <1>1, <2>1, <3>1 DEF Whole
  <2> QED BY <2>2, <2>3
<1>23. ConsoleType'
  <2>1. uart' \in Character' /\ Character' = Character
    BY <1>3, <1>7, <1>10 DEF Character
  <2> QED BY <1>1, <1>3, <2>1, Tails DEF ConsoleType
<1> QED BY <1>2, <1>3, <1>20, <1>21, <1>22, <1>23, Conclude

-----------------------------------------------------------------------------
(* The theorems.                                                           *)

LEMMA ConsoleNextInv == ConsoleInv /\ [Next]_vars => ConsoleInv'
<1> SUFFICES ASSUME ConsoleInv, [Next]_vars PROVE ConsoleInv'
  OBVIOUS
<1>1. ASSUME Tick PROVE ConsoleInv'
  BY <1>1, IdleInv DEF Tick
<1>2. ASSUME Transmit PROVE ConsoleInv'
  BY <1>2, TransmitInv
<1>3. ASSUME NEW t \in Threads, Advance(t) PROVE ConsoleInv'
  <2>1. CASE Lock(t)
    BY <2>1, LockInv
  <2>2. CASE Unlock(t)
    BY <2>2, UnlockInv
  <2>3. CASE Out(t)
    BY <2>3, OutInv
  <2>4. CASE Poll(t)
    BY <2>4, PollInv
  <2>5. CASE EnterAllocator(t)
    BY <2>5, EnterInv
  <2>6. CASE LeaveAllocator(t)
    BY <2>6, LeaveInv
  <2>7. CASE Return(t)
    BY <2>7, ReturnInv
  <2> QED BY <1>3, <2>1, <2>2, <2>3, <2>4, <2>5, <2>6, <2>7 DEF Advance
<1>4. ASSUME NEW t \in Threads, Spin(t) PROVE ConsoleInv'
  BY <1>4, IdleInv DEF Spin
<1>5. ASSUME NEW t \in Threads, Yield(t) PROVE ConsoleInv'
  BY <1>5, IdleInv DEF Yield
<1>6. CASE UNCHANGED vars
  BY <1>6, IdleInv DEF vars
<1> QED BY <1>1, <1>2, <1>3, <1>4, <1>5, <1>6 DEF Next

(* At all times each thread is at a point of its calls that agrees with    *)
(* the locks, the allocators and the line.                                 *)
THEOREM ConsoleInvariant == Spec => []ConsoleInv
<1>1. Init => ConsoleInv
  BY ConsoleInitInv
<1>2. ConsoleInv /\ [Next]_vars => ConsoleInv'
  BY ConsoleNextInv
<1> QED BY <1>1, <1>2, PTL DEF Spec

(* The bodies of the allocators never overlap, whatever the threads call   *)
(* and however many they are.                                              *)
THEOREM AllocatorsApart == Spec => []SectionsApart
<1>1. ConsoleInv => SectionsApart
  <2> SUFFICES ASSUME ConsoleInv, NEW r \in DOMAIN using
               PROVE  Cardinality(using[r]) <= 1
    BY DEF SectionsApart
  <2>1. ConsoleType
    BY DEF ConsoleInv
  <2>2. r \in Resources /\ using[r] \subseteq Threads
    BY <2>1 DEF ConsoleType
  <2>3. GuardOf[r] \in Locks
    BY <2>2 DEF GuardOf, Locks
  <2>4. \A t \in using[r] : locks[GuardOf[r]].owner = t
    <3> SUFFICES ASSUME NEW t \in using[r] PROVE locks[GuardOf[r]].owner = t
      OBVIOUS
    <3>1. PICK p : IsAt(t, p)
      BY <2>2 DEF ConsoleInv
    <3>2. r \in p.in /\ p \in Points(job[t])
      BY <2>2, <3>1, RunsPoints DEF IsAt
    <3>3. p.depth[GuardOf[r]] > 0
      BY <3>2 DEF Points, Guarded
    <3> QED BY <2>1, <2>2, <2>3, <3>1, <3>3, Owner
  <2>5. CASE using[r] = {}
    BY <2>5, FS_EmptySet
  <2>6. CASE using[r] # {}
    <3>1. PICK t : using[r] = {t}
      BY <2>4, <2>6
    <3>2. Cardinality(using[r]) = 1
      BY <3>1, FS_Singleton
    <3> QED BY <3>2
  <2> QED BY <2>5, <2>6
<1> QED BY <1>1, ConsoleInvariant, PTL

LEMMA NothingLeft ==
  ASSUME ConsoleType, NEW t \in Threads, NEW p, IsAt(t, p), todo[t] = <<>>
  PROVE  /\ \A l \in Locks : p.depth[l] = 0
         /\ \A k \in DOMAIN job[t] : p.left[k] = <<>>
         /\ ~p.busy
<1>1. p = Mid(job[t], Len(job[t]))
  BY RunsEnd DEF IsAt
<1>2. DOMAIN job[t] = 1..Len(job[t]) /\ Len(job[t]) \in Nat
  BY JobIs DEF ConsoleType
<1> QED BY <1>1, <1>2 DEF Mid

(* Lines stay whole and complete, whatever is printed by how many threads. *)
THEOREM LinesWhole == Spec => []Lines
<1>1. ConsoleInv => Lines
  <2> SUFFICES ASSUME ConsoleInv PROVE Lines
    OBVIOUS
  <2>1. ConsoleType /\ Whole
    BY DEF ConsoleInv
  <2>2. /\ \A x \in DOMAIN line : x \in DOMAIN History /\ History[x] = line[x]
        /\ line \in Seq(Character)
    <3>1. line \in Seq(Character)
      BY <2>1 DEF ConsoleType
    <3>2. CASE uart = NULL
      BY <3>1, <3>2 DEF History
    <3>3. CASE uart # NULL
      <4>1. uart \in Character /\ History = Append(line, uart)
        BY <2>1, <3>3 DEF ConsoleType, History
      <4> HIDE DEF Character
      <4> QED BY <3>1, <4>1, Grown
    <3> QED BY <3>2, <3>3
  <2>3. ASSUME NEW x \in DOMAIN line, NEW y \in DOMAIN line, NEW z \in DOMAIN line,
               x < y, y < z, CallOf(x) = CallOf(z)
        PROVE  \/ CallOf(y) = CallOf(x)
               \/ FnOf(CallOf(y)) = "puts" /\ FnOf(CallOf(x)) # "puts"
    <3>1. Admits(line[x][1], line[y][1])
      BY <2>1, <2>2, <2>3 DEF Whole, CallOf
    <3> QED BY <3>1 DEF Admits, CallOf, FnOf
  <2>4. ASSUME NEW id \in Calls, todo[id[1]] = <<>>
        PROVE  Sent(id) = Output(id)
    <3>0. PICK t \in Threads : \E k \in DOMAIN job[t] : id = <<t, k>>
      BY DEF Calls
    <3>1. PICK k \in DOMAIN job[t] : id = <<t, k>>
      BY <3>0
    <3>2. PICK p : IsAt(t, p)
      BY DEF ConsoleInv
    <3>3. id[1] = t /\ todo[t] = <<>> /\ Output(id) = TextOf(job[t][k])
      BY <2>4, <3>1 DEF Output
    <3>4. p.left[k] = <<>> /\ ~p.busy
      BY <2>1, <3>2, <3>3, NothingLeft
    <3>5. CharsOf(id, History) \o <<>> = TextOf(job[t][k])
      BY <3>1, <3>2, <3>4 DEF IsAt, Prints
    <3>6. CharsOf(id, History) = CharsOf(id, line) /\ CharsOf(id, line) \in Seq({x[2] : x \in Character})
      <4>1. CharsOf(id, line) = CharsLoop(id, line)[Len(line)]
            /\ CharsLoop(id, line)[Len(line)] \in Seq({x[2] : x \in Character})
        <5>1. Len(line) \in 0..Len(line)
          BY <2>2
        <5> QED BY <2>2, <5>1, CharsLoopIs
      <4>2. CASE uart = NULL
        BY <4>1, <4>2 DEF History
      <4>3. CASE uart # NULL
        <5> DEFINE g == line
                   e == uart
                   C == Character
                   H == History
        <5>1. g \in Seq(C) /\ e \in C /\ H = Append(g, e)
          BY <2>1, <2>2, <4>3 DEF ConsoleType, History
        <5>2. e[1] # id
          BY <3>1, <3>2, <3>4, <4>3 DEF IsAt, Sends
        <5> HIDE DEF C, g, e, H
        <5>3. CharsOf(id, Append(g, e)) = More(id, CharsOf(id, g), e)
          BY <5>1, CharsAppend
        <5>4. CharsOf(id, H) = CharsOf(id, g)
          BY <5>1, <5>2, <5>3 DEF More
        <5>5. CharsOf(id, History) = CharsOf(id, line)
          BY <5>4 DEF H, g
        <5> QED BY <4>1, <5>5
      <4> QED BY <4>2, <4>3
    <3>7. \A X : \A s \in Seq(X) : s \o <<>> = s
      OBVIOUS
    <3> QED BY <3>3, <3>5, <3>6, <3>7 DEF Sent
  <2> QED BY <2>3, <2>4 DEF Lines
<1> QED BY <1>1, ConsoleInvariant, PTL

UnlockedByHolder ==
  \A t \in Threads : todo[t] # <<>> /\ Head(todo[t])[1] = "unlock" =>
    locks[Operand(t)].locked > 0 /\ locks[Operand(t)].owner = t

(* The assertions of spin_unlock hold: whoever is about to give a lock     *)
(* back holds it, so that the guard of Unlock never stops a thread.        *)
THEOREM UnlocksAsserted == Spec => []UnlockedByHolder
<1>1. ConsoleInv => UnlockedByHolder
  <2> SUFFICES ASSUME ConsoleInv, NEW t \in Threads, todo[t] # <<>>,
                      Head(todo[t])[1] = "unlock"
               PROVE  locks[Operand(t)].locked > 0 /\ locks[Operand(t)].owner = t
    BY DEF UnlockedByHolder
  <2>1. ConsoleType
    BY DEF ConsoleInv
  <2>2. PICK p : IsAt(t, p)
    BY DEF ConsoleInv
  <2>3. p \in Points(job[t])
    BY <2>1, <2>2, NextPoint
  <2>4. PICK q \in Points(job[t]) : Step(t, job[t], Head(todo[t]), p, q)
    BY <2>1, <2>2, NextPoint
  <2>5. PICK l \in Locks : Head(todo[t]) = <<"unlock", l>> /\ p = Deeper(q, l)
    <3> DEFINE s == Head(todo[t])
    <3>1. s[1] = "unlock" /\ Step(t, job[t], s, p, q)
      BY <2>4
    <3> HIDE DEF s
    <3>2. \E l \in Locks : s = <<"unlock", l>> /\ p = Deeper(q, l)
      BY <3>1, StepUnlock
    <3> QED BY <3>2 DEF s
  <2>6. Operand(t) = l
    BY <2>5 DEF Operand
  <2>7. p.depth[l] > 0
    <3>1. Deeper(q, l).depth[l] = q.depth[l] + 1 /\ q.depth \in [Locks -> Nat]
      BY DeeperPoint
    <3> QED BY <2>5, <3>1
  <2> QED BY <2>1, <2>2, <2>6, <2>7, Owner
<1> QED BY <1>1, ConsoleInvariant, PTL

Waits(t) == todo[t] # <<>> /\ Head(todo[t])[1] = "lock" /\ ~Available(t)

NoCircle ==
  (\E t \in Threads : todo[t] # <<>>) =>
    \E t \in Threads : todo[t] # <<>> /\ ~Waits(t)

(* Who waits for a lock waits for a thread that has steps to make, and     *)
(* that, if it waits itself, waits for a lock of a higher rank.            *)
LEMMA HolderIsAhead ==
  ASSUME ConsoleInv, NEW t \in Threads, Waits(t)
  PROVE  /\ Operand(t) \in Locks
         /\ \E u \in Threads :
              /\ todo[u] # <<>>
              /\ Waits(u) => Rank[Operand(t)] < Rank[Operand(u)]
<1>1. ConsoleType
  BY DEF ConsoleInv
<1>2. \A u \in Threads : \E p : IsAt(u, p)
  BY DEF ConsoleInv
<1>3. ASSUME NEW u \in Threads, Waits(u), NEW p, IsAt(u, p)
      PROVE  /\ Operand(u) \in Locks /\ Lockable(p, Operand(u))
             /\ locks[Operand(u)].owner # u /\ locks[Operand(u)].locked # 0
  <2>1. todo[u] # <<>> /\ Head(todo[u])[1] = "lock" /\ ~Available(u)
    BY <1>3 DEF Waits
  <2>2. PICK q \in Points(job[u]) : Step(u, job[u], Head(todo[u]), p, q)
    BY <1>1, <1>3, <2>1, NextPoint
  <2>3. PICK l \in Locks : Head(todo[u]) = <<"lock", l>> /\ Lockable(p, l)
    <3> DEFINE s == Head(todo[u])
    <3>1. s[1] = "lock" /\ Step(u, job[u], s, p, q)
      BY <2>1, <2>2
    <3> HIDE DEF s
    <3>2. \E l \in Locks : s = <<"lock", l>> /\ Lockable(p, l) /\ q = Deeper(p, l)
      BY <3>1, StepLock
    <3> QED BY <3>2 DEF s
  <2>4. Operand(u) = l
    BY <2>3 DEF Operand
  <2> QED BY <2>1, <2>3, <2>4 DEF Available
<1> DEFINE l == Operand(t)
<1>4. l \in Locks /\ locks[l].owner # t /\ locks[l].locked # 0
  BY <1>2, <1>3
<1>5. locks[l].owner \in Threads
  BY <1>1, <1>4 DEF ConsoleType
<1> DEFINE u == locks[l].owner
<1>6. PICK p : IsAt(u, p)
  BY <1>2, <1>5
<1> HIDE DEF u, l
<1>7. p.depth[l] > 0
  <2>1. locks[l].locked \in Nat
    BY <1>1, <1>4 DEF ConsoleType
  <2>2. p.depth[l] = locks[l].locked
    BY <1>4, <1>6 DEF IsAt, Holds, u
  <2> QED BY <1>4, <2>1, <2>2
<1>8. todo[u] # <<>>
  <2> SUFFICES ASSUME todo[u] = <<>> PROVE FALSE
    OBVIOUS
  <2>1. \A m \in Locks : p.depth[m] = 0
    BY <1>1, <1>5, <1>6, NothingLeft DEF u
  <2> QED BY <1>4, <1>7, <2>1
<1>9. Waits(u) => Rank[l] < Rank[Operand(u)]
  <2> SUFFICES ASSUME Waits(u) PROVE Rank[l] < Rank[Operand(u)]
    OBVIOUS
  <2>1. /\ Operand(u) \in Locks /\ Lockable(p, Operand(u))
        /\ locks[Operand(u)].owner # u
    BY <1>3, <1>5, <1>6 DEF u
  <2>2. p.depth[Operand(u)] = 0
    BY <1>6, <2>1 DEF IsAt, Holds
  <2> QED BY <1>4, <1>7, <2>1, <2>2 DEF Lockable
<1> QED BY <1>4, <1>5, <1>8, <1>9 DEF l, u

(* Threads never wait for each other in a circle: while some thread has    *)
(* steps to make, one of them does not wait for a lock, because all        *)
(* functions take the locks in the order of their ranks.                   *)
THEOREM NoDeadlock == Spec => []NoCircle
<1>1. ConsoleInv => NoCircle
  <2> SUFFICES ASSUME ConsoleInv, NEW t0 \in Threads, todo[t0] # <<>>,
                      \A v \in Threads : todo[v] # <<>> => Waits(v)
               PROVE  FALSE
    BY DEF NoCircle
  <2> DEFINE T == {n \in Nat : \E t \in Threads : Waits(t) /\ n = 7 - Rank[Operand(t)]}
  <2>1. ASSUME NEW t \in Threads, Waits(t)
        PROVE  7 - Rank[Operand(t)] \in T
    <3>1. Operand(t) \in Locks
      BY <2>1, HolderIsAhead
    <3>2. Rank[Operand(t)] \in Nat /\ Rank[Operand(t)] < 7
      BY <3>1, Ranks
    <3> QED BY <2>1, <3>2
  <2>2. T # {} /\ T \in SUBSET Nat
    BY <2>1
  <2>3. PICK m \in T : \A n \in T : m <= n
    <3> HIDE DEF T
    <3> QED BY <2>2, LeastNumber
  <2>4. PICK t \in Threads : Waits(t) /\ m = 7 - Rank[Operand(t)]
    OBVIOUS
  <2>5. PICK u \in Threads :
          /\ todo[u] # <<>>
          /\ Waits(u) => Rank[Operand(t)] < Rank[Operand(u)]
    BY <2>4, HolderIsAhead
  <2>6. Waits(u) /\ Rank[Operand(t)] < Rank[Operand(u)]
    <3>1. Waits(u)
      BY <2>5
    <3> QED BY <2>5, <3>1
  <2>7. Rank[Operand(u)] \in Nat /\ Rank[Operand(t)] \in Nat
    BY <2>4, <2>6, HolderIsAhead, Ranks
  <2>8. m <= 7 - Rank[Operand(u)]
    BY <2>1, <2>3, <2>6
  <2> QED BY <2>4, <2>6, <2>7, <2>8
<1> QED BY <1>1, ConsoleInvariant, PTL

-----------------------------------------------------------------------------
(* The buffer of vsnprintf.                                                *)

LEMMA LargestIs ==
  ASSUME NEW m \in Nat, NEW S \in SUBSET (1..m), S # {}
  PROVE  Max(S) \in S /\ \A y \in S : y <= Max(S)
<1> DEFINE T == {m - x : x \in S}
<1>1. T \in SUBSET Nat /\ T # {}
  <2>1. \A x \in S : x \in 1..m
    OBVIOUS
  <2>2. \A x \in S : m - x \in Nat
    BY <2>1
  <2> QED BY <2>2
<1>2. PICK l \in T : \A k \in T : l <= k
  <2> HIDE DEF T
  <2> QED BY <1>1, LeastNumber
<1>3. PICK x \in S : l = m - x
  BY <1>2
<1>4. \A y \in S : x >= y
  <2> SUFFICES ASSUME NEW y \in S PROVE x >= y
    OBVIOUS
  <2>1. m - y \in T
    OBVIOUS
  <2>2. m - x <= m - y
    BY <1>2, <1>3, <2>1
  <2> QED BY <2>2
<1>5. S \subseteq Int /\ \A x1, y \in Int : x1 >= y <=> y <= x1
  OBVIOUS
<1>6. Max(S) \in S /\ \A y \in S : Max(S) >= y
  BY <1>4 DEF Max
<1> QED BY <1>5, <1>6

(* addchars goes through the characters in their order.  The fold of the   *)
(* community modules is a recursive function of sets of places.            *)
IsFold(g, m, s, chars, room) ==
  g = [S \in SUBSET (1..m) |->
         IF S = {} THEN s ELSE LET x == Max(S) IN addchar(g[S \ {x}], chars[x], room)]

LEMMA FoldExists ==
  ASSUME NEW s, NEW chars, NEW room, NEW n \in Nat
  PROVE  \E g : IsFold(g, n, s, chars, room)
<1> DEFINE Q == {m \in Nat : \E g : IsFold(g, m, s, chars, room)}
<1>1. 0 \in Q
  <2> DEFINE g == [S \in SUBSET (1..0) |-> s]
  <2>1. \A S \in SUBSET (1..0) : S = {}
    OBVIOUS
  <2>2. IsFold(g, 0, s, chars, room)
    BY <2>1 DEF IsFold
  <2> QED BY <2>2
<1>2. ASSUME NEW m \in Nat, m \in Q PROVE m + 1 \in Q
  <2>1. PICK g : IsFold(g, m, s, chars, room)
    BY <1>2
  <2> DEFINE B == 1..(m+1)
             h == [S \in SUBSET B |-> IF m+1 \in S THEN addchar(g[S \ {m+1}], chars[m+1], room)
                                                   ELSE g[S]]
  <2>2. m + 1 \in Nat /\ \A S \in SUBSET B : m+1 \notin S => S \in SUBSET (1..m)
    OBVIOUS
  <2>3. ASSUME NEW S \in SUBSET B
        PROVE  h[S] = IF S = {} THEN s
                      ELSE LET x == Max(S) IN addchar(h[S \ {x}], chars[x], room)
    <3>1. CASE m+1 \in S
      <4>1. Max(S) = m+1
        <5>1. Max(S) \in S /\ m+1 <= Max(S)
          BY <2>2, <3>1, LargestIs
        <5>2. Max(S) \in B
          BY <5>1
        <5> QED BY <5>1, <5>2
      <4>2. S \ {m+1} \in SUBSET B /\ m+1 \notin S \ {m+1} /\ S # {}
        BY <3>1
      <4>3. h[S \ {m+1}] = g[S \ {m+1}]
        BY <4>2
      <4>4. h[S] = addchar(g[S \ {m+1}], chars[m+1], room)
        BY <3>1
      <4> HIDE DEF h, B
      <4> QED BY <4>1, <4>2, <4>3, <4>4
    <3>2. CASE m+1 \notin S
      <4>1. S \in SUBSET (1..m) /\ h[S] = g[S]
        BY <2>2, <3>2
      <4>2. g[S] = IF S = {} THEN s
                   ELSE LET x == Max(S) IN addchar(g[S \ {x}], chars[x], room)
        BY <2>1, <4>1 DEF IsFold
      <4>3. h[S \ {Max(S)}] = g[S \ {Max(S)}]
        <5>1. S \ {Max(S)} \in SUBSET B /\ m+1 \notin S \ {Max(S)}
          BY <3>2
        <5> QED BY <5>1
      <4> HIDE DEF h, B
      <4> QED BY <4>1, <4>2, <4>3
    <3> QED BY <3>1, <3>2
  <2>4. h = [S \in SUBSET B |-> h[S]]
    OBVIOUS
  <2> HIDE DEF h
  <2>5. IsFold(h, m + 1, s, chars, room)
    BY <2>3, <2>4 DEF IsFold
  <2> QED BY <2>2, <2>5
<1> HIDE DEF Q
<1>3. Nat \subseteq Q
  BY <1>1, <1>2, SetInduction
<1> QED BY <1>3 DEF Q

Filling(s, chars, room) == [k \in 0..Len(chars) |->
  (CHOOSE g : IsFold(g, Len(chars), s, chars, room))[1..k]]

LEMMA AddcharsIs ==
  ASSUME NEW X, NEW chars \in Seq(X), NEW s, NEW room
  PROVE  LET F == Filling(s, chars, room)
         IN  /\ F[0] = s /\ F[Len(chars)] = addchars(s, chars, room)
             /\ \A k \in 1..Len(chars) : F[k] = addchar(F[k-1], chars[k], room)
<1> DEFINE n == Len(chars)
           F == Filling(s, chars, room)
           g == CHOOSE h : IsFold(h, n, s, chars, room)
<1>1. n \in Nat /\ DOMAIN chars = 1..n
  OBVIOUS
<1>2. F = [k \in 0..n |-> g[1..k]]
  BY DEF Filling
<1>3. addchars(s, chars, room) = g[1..n]
  <2>1. addchars(s, chars, room) =
          (CHOOSE h : h = [S \in SUBSET DOMAIN chars |->
             IF S = {} THEN s
             ELSE LET x == Max(S) IN addchar(h[S \ {x}], chars[x], room)])[DOMAIN chars]
    BY DEF addchars, FoldLeft, MapThenFoldSet
  <2> QED BY <1>1, <2>1, Zenon DEF IsFold
<1> HIDE DEF n
<1>4. IsFold(g, n, s, chars, room)
  <2> HIDE DEF IsFold
  <2> QED BY <1>1, FoldExists
<1> HIDE DEF g, F
<1>5. ASSUME NEW k \in 0..n
      PROVE  F[k] = IF k = 0 THEN s ELSE addchar(F[k-1], chars[k], room)
  <2>1. F[k] = g[1..k] /\ 1..k \in SUBSET (1..n)
    BY <1>1, <1>2
  <2>2. g[1..k] = IF 1..k = {} THEN s
                  ELSE LET x == Max(1..k) IN addchar(g[(1..k) \ {x}], chars[x], room)
    BY <1>4, <2>1 DEF IsFold
  <2>3. CASE k = 0
    <3>1. 1..k = {}
      BY <2>3
    <3> QED BY <2>1, <2>2, <2>3, <3>1
  <2>4. CASE k # 0
    <3>1. k \in Nat /\ 1..k # {} /\ k \in 1..k /\ 1..k \in SUBSET (1..k)
      <4>1. k \in Nat /\ k \in 1..k
        BY <1>1, <2>4
      <4> QED BY <4>1
    <3>2. Max(1..k) = k
      <4>1. Max(1..k) \in 1..k /\ k <= Max(1..k)
        BY <3>1, LargestIs
      <4> QED BY <3>1, <4>1
    <3>3. (1..k) \ {k} = 1..(k-1)
      BY <3>1
    <3>4. F[k-1] = g[1..(k-1)]
      BY <1>1, <1>2, <2>4
    <3> QED BY <2>1, <2>2, <2>4, <3>1, <3>2, <3>3, <3>4
  <2> QED BY <2>3, <2>4
<1>6. F[n] = addchars(s, chars, room)
  BY <1>1, <1>2, <1>3
<1>7. F[0] = s /\ \A k \in 1..n : F[k] = addchar(F[k-1], chars[k], room)
  <2>1. 0 \in 0..n /\ \A k \in 1..n : k \in 0..n /\ k # 0
    BY <1>1
  <2> QED BY <1>5, <2>1
<1> QED BY <1>6, <1>7 DEF F, n

(* A state of the loop with a buffer and one without: the first has printed*)
(* the same, or as much as fits.  X are the characters.                    *)
IsState(s, X) ==
  /\ DOMAIN s = {"i", "arg", "text", "stored", "full"}
  /\ s.i \in Nat \ {0} /\ s.text \in Seq(X) /\ s.stored \in Seq(Int)

Fills(u, s, room, X) ==
  /\ IsState(u, X) /\ IsState(s, X) /\ s.full = FALSE
  /\ \A k \in DOMAIN u.stored : u.stored[k] < room
  /\ \/ u = s /\ Len(s.text) + 1 < room
     \/ u.full = TRUE /\ Len(s.text) >= room - 1 /\ u.text = SubSeq(s.text, 1, room - 1)

LEMMA AddcharFills ==
  ASSUME NEW X, NEW c \in X, NEW room \in Nat, room >= 2, NEW u, NEW s, Fills(u, s, room, X)
  PROVE  Fills(addchar(u, c, room), addchar(s, c, Unlimited), room, X)
<1> DEFINE v == addchar(u, c, room)
           w == addchar(s, c, Unlimited)
           l == Len(s.text)
<1>1. IsState(u, X) /\ IsState(s, X) /\ s.full = FALSE
      /\ \A k \in DOMAIN u.stored : u.stored[k] < room
  BY DEF Fills
<1>2. s.text \in Seq(X) /\ l \in Nat /\ Append(s.text, c) \in Seq(X) /\ Len(Append(s.text, c)) = l + 1
  BY <1>1 DEF IsState
<1>3. w = [s EXCEPT !.text = Append(s.text, c), !.full = FALSE]
  BY <1>1 DEF addchar, Full, Unlimited
<1> HIDE DEF l
<1>4. w.text = Append(s.text, c) /\ w.full = FALSE /\ IsState(w, X)
  BY <1>1, <1>2, <1>3 DEF IsState
<1> SUFFICES Fills(v, w, room, X)
  OBVIOUS
<1>5. CASE u = s /\ l + 1 < room
  <2>1. v = [s EXCEPT !.text = Append(s.text, c), !.full = Full(l + 1, room)]
    BY <1>1, <1>5 DEF addchar, l
  <2>2. CASE l + 2 < room
    <3>1. Full(l + 1, room) = FALSE
      BY <1>2, <2>2 DEF Full, Unlimited
    <3>2. v = w
      BY <1>3, <2>1, <3>1
    <3>3. v.stored = u.stored
      BY <1>1, <1>5, <2>1 DEF IsState
    <3>4. Len(w.text) + 1 < room
      BY <1>2, <1>4, <2>2
    <3> HIDE DEF v, w
    <3> QED BY <1>1, <1>4, <3>2, <3>3, <3>4 DEF Fills
  <2>3. CASE ~(l + 2 < room)
    <3>1. l + 1 = room - 1
      BY <1>2, <1>5, <2>3
    <3>2. Full(l + 1, room) = TRUE
      BY <1>2, <2>3 DEF Full, Unlimited
    <3>3. /\ v.full = TRUE /\ v.text = Append(s.text, c) /\ v.stored = s.stored
          /\ DOMAIN v = DOMAIN s /\ v.i = s.i
      BY <1>1, <2>1, <3>2 DEF IsState
    <3>4. IsState(v, X)
      BY <1>1, <1>2, <3>3 DEF IsState
    <3>5. Append(s.text, c) = SubSeq(Append(s.text, c), 1, room - 1)
      <4> DEFINE t == Append(s.text, c)
      <4>1. t \in Seq(X) /\ Len(t) = room - 1
        BY <1>2, <3>1
      <4> HIDE DEF t
      <4> QED BY <4>1 DEF t
    <3>6. Len(w.text) >= room - 1
      BY <1>2, <1>4, <3>1
    <3> HIDE DEF v, w
    <3> QED BY <1>1, <1>4, <1>5, <3>3, <3>4, <3>5, <3>6 DEF Fills
  <2> QED BY <2>2, <2>3
<1>6. CASE u.full = TRUE /\ l >= room - 1 /\ u.text = SubSeq(s.text, 1, room - 1)
  <2>1. v = u
    BY <1>6 DEF addchar
  <2>2. SubSeq(Append(s.text, c), 1, room - 1) = SubSeq(s.text, 1, room - 1)
    <3> DEFINE t == s.text
               m == room - 1
    <3>1. t \in Seq(X) /\ m \in Nat /\ m <= Len(t)
      BY <1>2, <1>6 DEF l
    <3> HIDE DEF t, m
    <3> QED BY <3>1 DEF t, m
  <2>3. Len(w.text) >= room - 1
    BY <1>2, <1>4, <1>6
  <2> HIDE DEF v, w
  <2> QED BY <1>1, <1>4, <1>6, <2>1, <2>2, <2>3 DEF Fills
<1> QED BY <1>5, <1>6 DEF Fills, l

LEMMA AddcharsFills ==
  ASSUME NEW X, NEW chars \in Seq(X), NEW room \in Nat, room >= 2,
         NEW u, NEW s, Fills(u, s, room, X)
  PROVE  Fills(addchars(u, chars, room), addchars(s, chars, Unlimited), room, X)
<1> DEFINE n == Len(chars)
           F == Filling(u, chars, room)
           G == Filling(s, chars, Unlimited)
           S == {k \in Nat : k <= n => Fills(F[k], G[k], room, X)}
<1>1. n \in Nat /\ \A k \in 1..n : chars[k] \in X
  OBVIOUS
<1>2. /\ F[0] = u /\ F[n] = addchars(u, chars, room)
      /\ \A k \in 1..n : F[k] = addchar(F[k-1], chars[k], room)
  BY AddcharsIs
<1>3. /\ G[0] = s /\ G[n] = addchars(s, chars, Unlimited)
      /\ \A k \in 1..n : G[k] = addchar(G[k-1], chars[k], Unlimited)
  BY AddcharsIs
<1> HIDE DEF n, F, G
<1>4. 0 \in S
  BY <1>2, <1>3
<1>5. ASSUME NEW k \in Nat, k \in S PROVE k + 1 \in S
  <2> SUFFICES ASSUME k + 1 <= n PROVE Fills(F[k+1], G[k+1], room, X)
    OBVIOUS
  <2>1. k + 1 \in 1..n /\ (k + 1) - 1 = k /\ Fills(F[k], G[k], room, X)
    BY <1>1, <1>5
  <2>2. F[k+1] = addchar(F[k], chars[k+1], room)
    BY <1>2, <2>1
  <2>3. G[k+1] = addchar(G[k], chars[k+1], Unlimited)
    BY <1>3, <2>1
  <2> QED BY <1>1, <2>1, <2>2, <2>3, AddcharFills
<1> HIDE DEF S
<1>6. Nat \subseteq S
  BY <1>4, <1>5, SetInduction
<1> QED BY <1>1, <1>2, <1>3, <1>6 DEF S

LEMMA FullStays ==
  ASSUME NEW X, NEW chars \in Seq(X), NEW room, NEW u, u.full = TRUE
  PROVE  addchars(u, chars, room) = u
<1> DEFINE n == Len(chars)
           F == Filling(u, chars, room)
           S == {k \in Nat : k <= n => F[k] = u}
<1>1. n \in Nat
  OBVIOUS
<1>2. /\ F[0] = u /\ F[n] = addchars(u, chars, room)
      /\ \A k \in 1..n : F[k] = addchar(F[k-1], chars[k], room)
  BY AddcharsIs
<1> HIDE DEF n, F
<1>3. 0 \in S
  BY <1>2
<1>4. ASSUME NEW k \in Nat, k \in S PROVE k + 1 \in S
  <2> SUFFICES ASSUME k + 1 <= n PROVE F[k+1] = u
    OBVIOUS
  <2>1. k + 1 \in 1..n /\ (k + 1) - 1 = k /\ F[k] = u
    BY <1>1, <1>4
  <2>2. F[k+1] = addchar(u, chars[k+1], room)
    BY <1>2, <2>1
  <2> QED BY <2>2 DEF addchar
<1> HIDE DEF S
<1>5. Nat \subseteq S
  BY <1>3, <1>4, SetInduction
<1> QED BY <1>1, <1>2, <1>5 DEF S

(* A turn.                                                                 *)
LEMMA RestIs ==
  ASSUME NEW x \in Nat, NEW m \in Nat \ {0}
  PROVE  x % m \in Nat /\ x % m <= x
<1>1. x % m \in 0..(m-1) /\ x = m * (x \div m) + (x % m) /\ x \div m \in Nat
  OBVIOUS
<1> DEFINE q == x \div m
           r == x % m
           p == m * q
<1>2. p \in Nat
  <2>1. q \in Nat
    BY <1>1
  <2> HIDE DEF q
  <2> QED BY <2>1
<1>3. x = p + r /\ r \in 0..(m-1)
  BY <1>1
<1> HIDE DEF p, r
<1>4. r \in Nat /\ r <= x
  BY <1>2, <1>3
<1> QED BY <1>4 DEF r

LEMMA SignedAtMost ==
  ASSUME NEW x \in Nat, NEW d
  PROVE  Signed(x, Bits(d)) \in Int /\ Signed(x, Bits(d)) <= x
<1> DEFINE b == Bits(d)
           m == 2^b
           h == 2^(b - 1)
           y == x % m
<1>1. b \in {CHAR_BITS, SHORT_BITS, INT_BITS, LONG_BITS}
  BY DEF Bits
<1> HIDE DEF b
<1>2. m \in Nat \ {0} /\ h \in Nat
  BY <1>1, FormatConstants
<1>3. Signed(x, b) = IF y >= h THEN y - m ELSE y
  BY DEF Signed
<1> HIDE DEF m, h
<1>4. y \in Nat /\ y <= x
  BY <1>2, RestIs
<1> HIDE DEF y
<1>5. Signed(x, b) \in Int /\ Signed(x, b) <= x
  BY <1>2, <1>3, <1>4
<1> QED BY <1>5 DEF b

PieceAt(f, args, s) ==
  LET d == Directive(f, s.i + 1, args, s.arg) IN Printed(d, args[d.arg])

Suitable(f, args, s, X) ==
  IF f[s.i] # "%" THEN f[s.i] \in X
  ELSE Directive(f, s.i + 1, args, s.arg).spec # "n" => PieceAt(f, args, s) \in Seq(X)

LEMMA MovedFills ==
  ASSUME NEW X, NEW room, NEW u, NEW s, Fills(u, s, room, X), NEW i \in Nat \ {0}, NEW arg
  PROVE  LET v == [s EXCEPT !.i = i, !.arg = arg]
         IN  /\ v.text = s.text /\ v.stored = s.stored /\ v.full = s.full /\ DOMAIN v = DOMAIN s
             /\ IsState(v, X)
             /\ u = s => Fills(v, v, room, X)
             /\ u.full = TRUE => Fills(u, v, room, X)
<1> DEFINE v == [s EXCEPT !.i = i, !.arg = arg]
<1>1. IsState(s, X) /\ IsState(u, X) /\ s.full = FALSE
  BY DEF Fills
<1>2. v.text = s.text /\ v.stored = s.stored /\ v.full = s.full /\ DOMAIN v = DOMAIN s
  BY <1>1 DEF IsState
<1>3. IsState(v, X)
  BY <1>1, <1>2 DEF IsState
<1> HIDE DEF v
<1>4. ASSUME u = s PROVE Fills(v, v, room, X)
  BY <1>1, <1>2, <1>3, <1>4 DEF Fills
<1>5. ASSUME u.full = TRUE PROVE Fills(u, v, room, X)
  BY <1>1, <1>2, <1>3, <1>5 DEF Fills
<1> QED BY <1>2, <1>3, <1>4, <1>5 DEF v

(* A directive ends where it should.                                       *)
LEMMA AfterIs ==
  ASSUME NEW Y, NEW f \in Seq(Y), NEW k \in 1..(Len(f) + 1), NEW set, Terminator \notin set
  PROVE  /\ After(f, k, set) \in k..(Len(f) + 1)
         /\ After(f, k, set) \in 1..(Len(f) + 1)
<1> DEFINE n == Len(f)
           T == {j \in k..(n+1) : At(f, j) \notin set}
           Is(j) == At(f, j) \notin set /\ \A e \in k..(j - 1) : f[e] \in set
<1>1. n \in Nat /\ k \in 1..(n+1)
  OBVIOUS
<1>2. At(f, n+1) \notin set
  BY <1>1 DEF At
<1>3. \A j \in 1..n : At(f, j) = f[j]
  BY DEF At
<1>4. After(f, k, set) = CHOOSE j \in k..(n+1) : Is(j)
  BY DEF After
<1> HIDE DEF n
<1>5. T \in SUBSET Nat /\ n + 1 \in T
  BY <1>1, <1>2
<1>6. PICK j \in T : \A l \in T : j <= l
  <2> HIDE DEF T
  <2> QED BY <1>5, LeastNumber
<1>7. j \in k..(n+1)
  OBVIOUS
<1>8. \A e \in k..(j - 1) : f[e] \in set
  <2> SUFFICES ASSUME NEW e \in k..(j - 1), f[e] \notin set PROVE FALSE
    OBVIOUS
  <2>1. e \in 1..n /\ e \in k..(n+1) /\ e < j
    BY <1>1, <1>7
  <2>2. e \in T
    BY <1>3, <2>1
  <2> HIDE DEF T
  <2> QED BY <1>1, <1>6, <1>7, <2>1, <2>2
<1>9. Is(j)
  BY <1>6, <1>8
<1> HIDE DEF Is
<1>10. After(f, k, set) \in k..(n+1)
  BY <1>4, <1>7, <1>9
<1> QED BY <1>1, <1>10 DEF n

LEMMA NoDigit == Terminator \notin Decimals
BY DEF Terminator, Decimals

LEMMA NextIs ==
  ASSUME NEW Y, NEW f \in Seq(Y), NEW k \in 1..(Len(f) + 1), NEW args, NEW arg
  PROVE  Directive(f, k, args, arg).next \in Nat \ {0}
<1> DEFINE n    == Len(f)
           w    == IF At(f, k) = "0" THEN k + 1 ELSE k
           star == At(f, w) = "*"
           h    == IF star THEN w + 1 ELSE After(f, w, Decimals)
           l    == After(f, h, {"h"})
           z    == After(f, l, {"l"})
           spec == After(f, z, {"z"})
<1>1. n \in Nat /\ k \in 1..(n+1)
  OBVIOUS
<1>2. ASSUME NEW j \in 1..(n+1), At(f, j) # "" PROVE j + 1 \in 1..(n+1)
  <2>1. j <= n
    <3>1. ~(j <= n) => At(f, j) = ""
      BY DEF At, Terminator
    <3> QED BY <1>2, <3>1
  <2> QED BY <1>1, <2>1
<1>3. "" \notin {"h"} /\ "" \notin {"l"} /\ "" \notin {"z"} /\ "0" # "" /\ "*" # ""
  OBVIOUS
<1>4. w \in 1..(n+1)
  BY <1>1, <1>2, <1>3
<1> HIDE DEF w
<1>5. h \in 1..(n+1)
  <2>1. CASE star
    BY <1>2, <1>3, <1>4, <2>1
  <2>2. CASE ~star
    BY <1>4, <2>2, AfterIs, NoDigit
  <2> QED BY <2>1, <2>2
<1> HIDE DEF h
<1>6. l \in 1..(n+1)
  BY <1>3, <1>5, AfterIs DEF Terminator
<1> HIDE DEF l
<1>7. z \in 1..(n+1)
  BY <1>3, <1>6, AfterIs DEF Terminator
<1> HIDE DEF z
<1>8. spec \in 1..(n+1)
  BY <1>3, <1>7, AfterIs DEF Terminator
<1>9. Directive(f, k, args, arg).next = spec + 1
  BY DEF Directive, w, h, l, z
<1> HIDE DEF spec
<1>10. spec + 1 \in Nat \ {0}
  BY <1>1, <1>8
<1> QED BY <1>9, <1>10

(* One with the buffer and one without; where the buffer is full the first *)
(* has left the loop.                                                      *)
LEMMA TurnFills ==
  ASSUME NEW X, NEW f, NEW args, NEW room \in Nat, room >= 2,
         NEW u, NEW s, Fills(u, s, room, X), Suitable(f, args, s, X),
         NEW Y, f \in Seq(Y), ~AtEnd(f, s)
  PROVE  Fills(IF u.full = TRUE THEN u ELSE Turn(f, args, room, u),
               Turn(f, args, Unlimited, s), room, X)
<1> DEFINE d     == Directive(f, s.i + 1, args, s.arg)
           a     == d.next
           e     == IF TakesArgument(d) THEN d.arg + 1 ELSE d.arg
           moved == [s EXCEPT !.i = a, !.arg = e]
           on    == [s EXCEPT !.i = @ + 1]
           len   == Len(s.text)
           text  == Printed(d, args[d.arg])
<1>1. IsState(u, X) /\ IsState(s, X) /\ s.full = FALSE
      /\ (u = s \/ u.full = TRUE) /\ s.i \in Nat \ {0}
      /\ \A k \in DOMAIN u.stored : u.stored[k] < room
  BY DEF Fills, IsState
<1>2. len \in Nat
  BY <1>1 DEF IsState
<1>6. s.i <= Len(f)
  <2>1. Len(f) \in Nat
    OBVIOUS
  <2> QED BY <1>1, <2>1 DEF AtEnd
<1>7. a \in Nat \ {0}
  BY <1>1, <1>6, NextIs
<1>3. CASE f[s.i] # "%"
  <2>1. f[s.i] \in X
    BY <1>3 DEF Suitable
  <2>2. \A r : Turn(f, args, r, s) = addchar(on, f[s.i], r)
    BY <1>3 DEF Turn
  <2>3. on = [s EXCEPT !.i = s.i + 1, !.arg = s.arg]
    BY <1>1 DEF IsState
  <2>4. (u = s => Fills(on, on, room, X)) /\ (u.full = TRUE => Fills(u, on, room, X))
    <3> DEFINE g == s.i + 1
               h == s.arg
    <3>1. on = [s EXCEPT !.i = g, !.arg = h]
      BY <2>3
    <3>2. g \in Nat \ {0}
      BY <1>1
    <3> HIDE DEF g, h, on
    <3> QED BY <3>1, <3>2, MovedFills
  <2> HIDE DEF on
  <2>5. CASE u = s
    <3>1. Fills(addchar(on, f[s.i], room), addchar(on, f[s.i], Unlimited), room, X)
      BY <2>1, <2>4, <2>5, AddcharFills
    <3>2. ~(u.full = TRUE)
      BY <1>1, <2>5
    <3>3. Turn(f, args, room, u) = addchar(on, f[s.i], room)
      BY <2>2, <2>5
    <3>4. Turn(f, args, Unlimited, s) = addchar(on, f[s.i], Unlimited)
      BY <2>2
    <3> QED BY <3>1, <3>2, <3>3, <3>4
  <2>6. CASE u.full = TRUE
    <3>1. Fills(addchar(u, f[s.i], room), addchar(on, f[s.i], Unlimited), room, X)
      BY <2>1, <2>4, <2>6, AddcharFills
    <3>2. addchar(u, f[s.i], room) = u
      BY <2>6 DEF addchar
    <3> QED BY <2>2, <2>6, <3>1, <3>2
  <2> QED BY <1>1, <2>5, <2>6
<1>4. CASE f[s.i] = "%" /\ d.spec # "n"
  <2>1. text \in Seq(X)
    BY <1>4 DEF Suitable, PieceAt
  <2>2. \A r : Turn(f, args, r, s) = addchars(moved, text, r)
    BY <1>4 DEF Turn
  <2>3. (u = s => Fills(moved, moved, room, X)) /\ (u.full = TRUE => Fills(u, moved, room, X))
    <3> HIDE DEF a, e
    <3> QED BY <1>7, MovedFills
  <2> HIDE DEF moved, text
  <2>4. CASE u = s
    <3>1. Fills(addchars(moved, text, room), addchars(moved, text, Unlimited), room, X)
      BY <2>1, <2>3, <2>4, AddcharsFills
    <3>2. ~(u.full = TRUE)
      BY <1>1, <2>4
    <3>3. Turn(f, args, room, u) = addchars(moved, text, room)
      BY <2>2, <2>4
    <3>4. Turn(f, args, Unlimited, s) = addchars(moved, text, Unlimited)
      BY <2>2
    <3> QED BY <3>1, <3>2, <3>3, <3>4
  <2>5. CASE u.full = TRUE
    <3>1. Fills(addchars(u, text, room), addchars(moved, text, Unlimited), room, X)
      BY <2>1, <2>3, <2>5, AddcharsFills
    <3>2. addchars(u, text, room) = u
      BY <2>1, <2>5, FullStays
    <3> QED BY <2>2, <2>5, <3>1, <3>2
  <2> QED BY <1>1, <2>4, <2>5
<1>5. CASE f[s.i] = "%" /\ d.spec = "n"
  <2> DEFINE x == Signed(Len(s.text), Bits(d))
             v == [moved EXCEPT !.stored = Append(@, x)]
  <2>1. \A r : Turn(f, args, r, s) = v
    BY <1>5 DEF Turn
  <2>2. x \in Int /\ x <= len
    BY <1>2, SignedAtMost
  <2>3. /\ moved.text = s.text /\ moved.stored = s.stored /\ moved.full = s.full
        /\ IsState(moved, X)
    <3> HIDE DEF a, e
    <3>1. moved.text = s.text /\ moved.stored = s.stored /\ moved.full = s.full
      BY <1>1 DEF IsState
    <3>2. IsState(moved, X)
      BY <1>7, MovedFills
    <3> QED BY <3>1, <3>2
  <2> HIDE DEF moved, x
  <2>4. v.text = s.text /\ v.stored = Append(s.stored, x) /\ v.full = FALSE /\ DOMAIN v = DOMAIN moved
    BY <1>1, <2>3 DEF IsState
  <2>5. IsState(v, X)
    BY <2>2, <2>3, <2>4 DEF IsState
  <2> HIDE DEF v
  <2>6. CASE u = s
    <3>1. len + 1 < room
      BY <1>1, <2>6 DEF Fills
    <3>2. \A k \in DOMAIN v.stored : v.stored[k] < room
      <4> DEFINE t == s.stored
      <4>1. t \in Seq(Int) /\ v.stored = Append(t, x) /\ \A k \in DOMAIN t : t[k] < room
        BY <1>1, <2>4, <2>6 DEF IsState
      <4>2. x < room
        BY <1>2, <2>2, <3>1
      <4> HIDE DEF t
      <4> QED BY <2>2, <4>1, <4>2
    <3>3. Fills(v, v, room, X)
      BY <2>4, <2>5, <3>1, <3>2 DEF Fills
    <3>4. ~(u.full = TRUE)
      BY <1>1, <2>6
    <3>5. Turn(f, args, room, u) = v
      BY <2>1, <2>6
    <3>6. Turn(f, args, Unlimited, s) = v
      BY <2>1
    <3> QED BY <3>3, <3>4, <3>5, <3>6
  <2>7. CASE u.full = TRUE
    <3>1. Len(s.text) >= room - 1 /\ u.text = SubSeq(s.text, 1, room - 1)
      BY <1>1, <2>7 DEF Fills
    <3>2. Fills(u, v, room, X)
      BY <1>1, <2>4, <2>5, <2>7, <3>1 DEF Fills
    <3> QED BY <2>1, <2>7, <3>2
  <2> QED BY <1>1, <2>6, <2>7
<1> QED BY <1>3, <1>4, <1>5

-----------------------------------------------------------------------------
(* The loop.                                                               *)

IsRun(g, m, f, args, room) ==
  g = [k \in 0..m |-> IF k = 0 THEN Start
                      ELSE LET s == g[k - 1]
                           IN  IF AtEnd(f, s) THEN s ELSE Turn(f, args, room, s)]

LEMMA LoopIs ==
  ASSUME NEW X, NEW f \in Seq(X), NEW args, NEW room
  PROVE  LET g == Loop(f, args, room)
         IN  /\ g[0] = Start
             /\ \A k \in 1..Len(f) :
                  g[k] = IF AtEnd(f, g[k-1]) THEN g[k-1] ELSE Turn(f, args, room, g[k-1])
<1> DEFINE n == Len(f)
           Next1(s) == IF AtEnd(f, s) THEN s ELSE Turn(f, args, room, s)
           Q == {m \in Nat : \E g : IsRun(g, m, f, args, room)}
<1>1. 0 \in Q
  <2> DEFINE g == [k \in 0..0 |-> Start]
  <2>1. \A k \in 0..0 : k = 0
    OBVIOUS
  <2>2. IsRun(g, 0, f, args, room)
    BY <2>1 DEF IsRun
  <2> QED BY <2>2
<1>2. ASSUME NEW m \in Nat, m \in Q PROVE m + 1 \in Q
  <2>1. PICK g : IsRun(g, m, f, args, room)
    BY <1>2
  <2> DEFINE h == [k \in 0..(m+1) |-> IF k = m+1 THEN Next1(g[m]) ELSE g[k]]
  <2>2. /\ m+1 \in 0..(m+1) /\ m \in 0..m /\ m \in 0..(m+1) /\ m # m+1 /\ (m+1)-1 = m /\ m+1 # 0
        /\ \A k \in 0..(m+1) : k # m+1 => k \in 0..m
        /\ \A k \in 0..(m+1) : k # m+1 /\ k # 0 => k-1 \in 0..(m+1) /\ k-1 # m+1
    OBVIOUS
  <2>3. h[m+1] = Next1(g[m]) /\ h[m] = g[m]
        /\ \A k \in 0..(m+1) : k # m+1 => h[k] = g[k]
    BY <2>2
  <2>4. ASSUME NEW k \in 0..(m+1)
        PROVE  h[k] = IF k = 0 THEN Start ELSE Next1(h[k-1])
    <3>1. CASE k = m+1
      BY <2>2, <2>3, <3>1
    <3>2. CASE k # m+1
      <4>1. h[k] = g[k] /\ k \in 0..m
        BY <2>2, <2>3, <3>2
      <4>2. g[k] = IF k = 0 THEN Start ELSE Next1(g[k-1])
        BY <2>1, <4>1 DEF IsRun
      <4>3. k # 0 => h[k-1] = g[k-1]
        BY <2>2, <2>3, <3>2
      <4> HIDE DEF h
      <4> QED BY <4>1, <4>2, <4>3
    <3> QED BY <3>1, <3>2
  <2>5. h = [k \in 0..(m+1) |-> h[k]]
    OBVIOUS
  <2> HIDE DEF h
  <2>6. IsRun(h, m + 1, f, args, room)
    BY <2>4, <2>5 DEF IsRun
  <2>7. m + 1 \in Nat
    OBVIOUS
  <2> QED BY <2>6, <2>7
<1> HIDE DEF Q
<1>3. Nat \subseteq Q
  BY <1>1, <1>2, SetInduction
<1> DEFINE g == Loop(f, args, room)
<1>4. n \in Nat
  OBVIOUS
<1>5. g = CHOOSE h : IsRun(h, n, f, args, room)
  BY DEF Loop, IsRun
<1> HIDE DEF n, g
<1>6. IsRun(g, n, f, args, room)
  BY <1>3, <1>4, <1>5 DEF Q
<1>7. \A k \in 0..n : g[k] = IF k = 0 THEN Start ELSE Next1(g[k-1])
  BY <1>6 DEF IsRun
<1>8. 0 \in 0..n /\ \A k \in 1..n : k \in 0..n /\ k # 0
  BY <1>4
<1>9. g[0] = Start /\ \A k \in 1..n : g[k] = Next1(g[k-1])
  BY <1>7, <1>8
<1> QED BY <1>9 DEF g, n

Alphabet(f, args) ==
  ToSet(f) \cup UNION {ToSet(PieceAt(f, args, Loop(f, args, Unlimited)[k])) : k \in 0..Len(f)}

LEMMA LoopFills ==
  ASSUME NEW f, f \in Seq(ToSet(f)), NEW args, Suits(f, args), NEW room \in Nat, room >= 2
  PROVE  Fills(Formatted(f, args, room), Formatted(f, args, Unlimited), room, Alphabet(f, args))
<1> DEFINE n == Len(f)
           G == Loop(f, args, room)
           H == Loop(f, args, Unlimited)
           X == Alphabet(f, args)
           Same(k) == Fills(G[k], H[k], room, X) /\ (G[k] = H[k] \/ G[k].full = TRUE)
           S == {k \in Nat : k <= n => Same(k)}
<1>1. n \in Nat
  OBVIOUS
<1>2. G[0] = Start /\ \A k \in 1..n : G[k] = IF AtEnd(f, G[k-1]) THEN G[k-1] ELSE Turn(f, args, room, G[k-1])
  BY LoopIs
<1>3. H[0] = Start /\ \A k \in 1..n : H[k] = IF AtEnd(f, H[k-1]) THEN H[k-1] ELSE Turn(f, args, Unlimited, H[k-1])
  BY LoopIs
<1> HIDE DEF G, H, n, X
<1>4. 0 \in S
  <2> DEFINE s == Start
  <2>1. /\ DOMAIN s = {"i", "arg", "text", "stored", "full"}
        /\ s.text = <<>> /\ s.stored = <<>> /\ s.full = FALSE /\ s.i = 1
    BY DEF Start
  <2> HIDE DEF s
  <2>2. IsState(s, X)
    BY <2>1 DEF IsState
  <2>3. Fills(s, s, room, X)
    BY <2>1, <2>2 DEF Fills
  <2>4. Same(0)
    BY <1>2, <1>3, <2>3 DEF s
  <2> HIDE DEF Same
  <2> QED BY <2>4
<1>5. ASSUME NEW k \in 0..n, ~AtEnd(f, H[k]), IsState(H[k], X)
      PROVE  Suitable(f, args, H[k], X)
  <2> DEFINE s == H[k]
             d == Directive(f, s.i + 1, args, s.arg)
             t == PieceAt(f, args, s)
  <2>1. s.i \in Nat \ {0} /\ s.i <= n
    BY <1>1, <1>5 DEF IsState, AtEnd, n
  <2>2. f[s.i] \in ToSet(f)
    <3>1. s.i \in 1..n
      BY <1>1, <2>1
    <3> QED BY <3>1 DEF ToSet, n
  <2>3. ToSet(f) \subseteq X /\ ToSet(t) \subseteq X
    <3>1. X = ToSet(f) \cup UNION {ToSet(PieceAt(f, args, H[j])) : j \in 0..n}
      BY DEF X, Alphabet, H, n
    <3> HIDE DEF X
    <3>2. ToSet(PieceAt(f, args, H[k])) \in {ToSet(PieceAt(f, args, H[j])) : j \in 0..n}
      OBVIOUS
    <3> QED BY <3>1, <3>2
  <2>4. ASSUME f[s.i] = "%", d.spec # "n" PROVE t \in Seq(X)
    <3>1. t \in Seq(ToSet(t))
      BY <1>5, <2>4 DEF Suits, PieceAt, H, n
    <3> HIDE DEF t
    <3> QED BY <2>3, <3>1
  <2> HIDE DEF s
  <2>5. Suitable(f, args, s, X)
    BY <2>2, <2>3, <2>4 DEF Suitable
  <2> QED BY <2>5 DEF s
<1>6. ASSUME NEW k \in Nat, k \in S PROVE k + 1 \in S
  <2> SUFFICES ASSUME k + 1 <= n PROVE Same(k + 1)
    <3> HIDE DEF Same
    <3> QED OBVIOUS
  <2> DEFINE u == G[k]
             s == H[k]
  <2>9. k + 1 \in 1..n /\ (k + 1) - 1 = k /\ k \in 0..n /\ Same(k)
    <3> HIDE DEF Same
    <3> QED BY <1>1, <1>6
  <2>1. k + 1 \in 1..n /\ (k + 1) - 1 = k /\ Fills(u, s, room, X) /\ k \in 0..n
    BY <2>9
  <2>2. G[k+1] = IF AtEnd(f, u) THEN u ELSE Turn(f, args, room, u)
    BY <1>2, <2>1
  <2>3. H[k+1] = IF AtEnd(f, s) THEN s ELSE Turn(f, args, Unlimited, s)
    BY <1>3, <2>1
  <2>4. IsState(s, X) /\ s.full = FALSE /\ (u = s \/ u.full = TRUE)
    BY <2>1 DEF Fills
  <2>5. ~AtEnd(f, s) => Suitable(f, args, s, X)
    BY <1>5, <2>1, <2>4
  <2> HIDE DEF u, s
  <2>6. CASE AtEnd(f, s)
    <3>1. AtEnd(f, u)
      BY <2>4, <2>6 DEF AtEnd
    <3> QED BY <2>1, <2>2, <2>3, <2>4, <2>6, <3>1
  <2>7. CASE ~AtEnd(f, s)
    <3>1. G[k+1] = IF u.full = TRUE THEN u ELSE Turn(f, args, room, u)
      <4>1. CASE u.full = TRUE
        BY <2>2, <4>1 DEF AtEnd
      <4>2. CASE ~(u.full = TRUE)
        <5>1. u = s
          BY <2>4, <4>2
        <5>2. ~AtEnd(f, u)
          BY <2>7, <5>1
        <5> QED BY <2>2, <4>2, <5>2
      <4> QED BY <4>1, <4>2
    <3>2. H[k+1] = Turn(f, args, Unlimited, s)
      BY <2>3, <2>7
    <3>3. Fills(IF u.full = TRUE THEN u ELSE Turn(f, args, room, u),
                Turn(f, args, Unlimited, s), room, X)
      BY <2>1, <2>5, <2>7, TurnFills
    <3>4. Fills(G[k+1], H[k+1], room, X)
      BY <3>1, <3>2, <3>3
    <3> QED BY <3>4 DEF Fills
  <2> QED BY <2>6, <2>7
<1> HIDE DEF S
<1>7. Nat \subseteq S
  BY <1>4, <1>6, SetInduction
<1>8. Same(n)
  <2> HIDE DEF Same
  <2> QED BY <1>1, <1>7 DEF S
<1> QED BY <1>8 DEF Formatted, G, H, n, X

(* What vsnprintf leaves in the buffer.                                    *)
LEMMA VsnprintfFits ==
  ASSUME NEW f, f \in Seq(ToSet(f)), NEW args, Suits(f, args), NEW size \in Nat
  PROVE  Fits(vsnprintf(size, f, args), size, Text(f, args))
<1> DEFINE text == Text(f, args)
           X    == Alphabet(f, args)
           r    == vsnprintf(size, f, args)
<1>1. text \in Seq(X)
  <2>1. Fills(Formatted(f, args, 2), Formatted(f, args, Unlimited), 2, X)
    BY LoopFills
  <2> QED BY <2>1 DEF Fills, IsState, Text
<1> HIDE DEF X
<1>2. Len(text) \in Nat
  BY <1>1
<1>3. CASE size = 0
  <2>1. r = [result |-> 0, outbuf |-> <<>>, stored |-> <<>>]
    BY <1>3 DEF vsnprintf
  <2> QED BY <1>3, <2>1 DEF Fits
<1>4. CASE size = 1
  <2>1. r = [result |-> 0, outbuf |-> <<Terminator>>, stored |-> <<>>]
    BY <1>4 DEF vsnprintf
  <2>2. Append(SubSeq(text, 1, 0), Terminator) = <<Terminator>>
    <3> HIDE DEF text
    <3>1. SubSeq(text, 1, 0) = <<>>
      BY <1>1
    <3>2. \A x : Append(<<>>, x) = <<x>>
      OBVIOUS
    <3> QED BY <3>1, <3>2
  <2>3. 0 = IF Len(text) < 1 THEN Len(text) ELSE 1 - 1
    BY <1>2
  <2> HIDE DEF text, r
  <2>4. Fits(r, 1, text)
    BY <2>1, <2>2, <2>3 DEF Fits
  <2> QED BY <1>4, <2>4 DEF text, r
<1>5. CASE size >= 2
  <2> DEFINE u == Formatted(f, args, size)
             s == Formatted(f, args, Unlimited)
  <2>1. r = [result |-> Len(u.text), outbuf |-> Append(u.text, Terminator), stored |-> u.stored]
    BY <1>5 DEF vsnprintf
  <2>2. Fills(u, s, size, X) /\ text = s.text
    BY <1>5, LoopFills DEF Text, X
  <2> HIDE DEF u, s, text, r
  <2>3. Len(u.text) = IF Len(text) < size THEN Len(text) ELSE size - 1
    <3>1. CASE u = s /\ Len(text) + 1 < size
      BY <1>2, <2>2, <3>1
    <3>2. CASE Len(text) >= size - 1 /\ u.text = SubSeq(text, 1, size - 1)
      <4>1. Len(u.text) = size - 1
        BY <1>1, <1>5, <3>2
      <4> QED BY <1>2, <3>2, <4>1
    <3> QED BY <2>2, <3>1, <3>2 DEF Fills
  <2>4. u.text = SubSeq(text, 1, Len(u.text))
    <3>1. CASE u = s
      BY <1>1, <2>2, <3>1
    <3>2. CASE Len(text) >= size - 1 /\ u.text = SubSeq(text, 1, size - 1)
      <4>1. Len(u.text) = size - 1
        BY <1>1, <1>5, <3>2
      <4> QED BY <3>2, <4>1
    <3> QED BY <2>2, <3>1, <3>2 DEF Fills
  <2>5. \A k \in DOMAIN u.stored : u.stored[k] < size
    BY <2>2 DEF Fills
  <2>6. r.result = Len(u.text) /\ r.outbuf = Append(u.text, Terminator) /\ r.stored = u.stored
    BY <2>1
  <2> HIDE DEF u
  <2>7. Fits(r, size, text)
    BY <1>5, <2>3, <2>4, <2>5, <2>6 DEF Fits
  <2> QED BY <2>7 DEF r, text
<1> QED BY <1>3, <1>4, <1>5

-----------------------------------------------------------------------------
(* The results of snprintf.                                                *)

ResultsOf(t, j) ==
  {<<<<t, k>>, vsnprintf(j[k].size, j[k].format, j[k].args)>> :
     k \in {i \in DOMAIN j : j[i].fn = "snprintf"}}

(* What has been returned are results of calls of the same thread.         *)
Returned ==
  /\ DOMAIN returned = Threads
  /\ \A t \in Threads : returned[t] \in Seq(ResultsOf(t, job[t]))

LEMMA ReturnIsResult ==
  ASSUME NEW t, NEW j, NEW s \in Instr(t, j), s[1] = "return"
  PROVE  s[2] \in ResultsOf(t, j)
<1>1. s \in {<<"return", <<<<t, k>>, vsnprintf(j[k].size, j[k].format, j[k].args)>>>> :
              k \in {i \in DOMAIN j : j[i].fn = "snprintf"}}
  BY DEF Instr
<1>2. PICK k \in {i \in DOMAIN j : j[i].fn = "snprintf"} :
        s = <<"return", <<<<t, k>>, vsnprintf(j[k].size, j[k].format, j[k].args)>>>>
  BY <1>1
<1>3. s[2] = <<<<t, k>>, vsnprintf(j[k].size, j[k].format, j[k].args)>>
  BY <1>2
<1> QED BY <1>3 DEF ResultsOf

LEMMA ReturnedNext ==
  ASSUME ConsoleInv, Returned, [Next]_vars
  PROVE  Returned'
<1>1. CASE UNCHANGED <<job, returned>>
  BY <1>1 DEF Returned
<1>2. ASSUME NEW t \in Threads, Return(t) PROVE Returned'
  <2>1. ConsoleType /\ Whole
    BY DEF ConsoleInv
  <2>2. PICK P \in [Threads -> UNION {Points(job[u]) : u \in Threads}] :
          \A u \in Threads : IsAt(u, P[u])
    BY DEF ConsoleInv
  <2> DEFINE p == P[t]
             s == Head(todo[t])
             r == s[2]
  <2>3. todo[t] # <<>> /\ s[1] = "return" /\ Done(t) /\ UNCHANGED job
        /\ returned' = [returned EXCEPT ![t] = Append(@, r)]
    BY <1>2 DEF Return, Does, Operand
  <2>4. PICK q \in Points(job[t]) : Step(t, job[t], s, p, q)
    BY <2>1, <2>2, <2>3, NextPoint
  <2> HIDE DEF s, p
  <2>5. r \in ResultsOf(t, job[t])
    BY <2>3, <2>4, StepReturn, ReturnIsResult
  <2> HIDE DEF r
  <2>6. ASSUME NEW u \in Threads PROVE returned'[u] \in Seq(ResultsOf(u, job[u]))
    <3> DEFINE R == ResultsOf(u, job[u])
               old == returned[u]
    <3>1. old \in Seq(R)
      BY DEF Returned
    <3>2. u = t => r \in R
      BY <2>5
    <3>3. returned'[u] = IF u = t THEN Append(old, r) ELSE old
      BY <2>3 DEF Returned
    <3> HIDE DEF R, old
    <3>4. (IF u = t THEN Append(old, r) ELSE old) \in Seq(R)
      BY <3>1, <3>2
    <3>5. returned'[u] \in Seq(R)
      BY <3>3, <3>4
    <3> QED BY <3>5 DEF R
  <2>7. DOMAIN returned' = Threads
    BY <2>3 DEF Returned
  <2>8. job' = job
    BY <2>3
  <2> QED BY <2>6, <2>7, <2>8 DEF Returned
<1>3. UNCHANGED <<job, returned>> \/ \E t \in Threads : Return(t)
  BY DEF Next, Tick, Transmit, Advance, Lock, Unlock, Out, Poll, EnterAllocator,
         LeaveAllocator, Spin, Yield, vars
<1> QED BY <1>1, <1>2, <1>3

(* Whatever the format, its arguments and the size of the buffer, snprintf *)
(* leaves there the longest part of the text that fits, terminated, writes *)
(* nothing behind it and returns its length.                               *)
THEOREM BuffersFit == Spec => []Buffers
<1>1. ConsoleInv /\ Returned => Buffers
  <2> SUFFICES ASSUME ConsoleInv, Returned, NEW t \in Threads, NEW r \in ToSet(returned[t])
               PROVE  LET call == job[r[1][1]][r[1][2]]
                      IN  Fits(r[2], call.size, Text(call.format, call.args))
    BY DEF Buffers, Results
  <2>1. job \in Jobs
    BY DEF ConsoleInv, ConsoleType
  <2>2. r \in ResultsOf(t, job[t])
    <3> DEFINE R == ResultsOf(t, job[t])
               q == returned[t]
    <3>1. q \in Seq(R)
      BY DEF Returned
    <3>2. r \in ToSet(q)
      OBVIOUS
    <3> HIDE DEF R, q
    <3>3. r \in R
      BY <3>1, <3>2 DEF ToSet
    <3> QED BY <3>3 DEF R
  <2>3. PICK k \in DOMAIN job[t] :
          /\ job[t][k].fn = "snprintf"
          /\ r = <<<<t, k>>, vsnprintf(job[t][k].size, job[t][k].format, job[t][k].args)>>
    BY <2>2 DEF ResultsOf
  <2> DEFINE call == job[t][k]
  <2>4. Callable(call)
    BY <2>1, JobIs
  <2> HIDE DEF call
  <2>5. /\ call.size \in Nat /\ call.format \in Seq(ToSet(call.format))
        /\ Suits(call.format, call.args)
    BY <2>3, <2>4 DEF Callable, call
  <2>6. Fits(vsnprintf(call.size, call.format, call.args), call.size, Text(call.format, call.args))
    BY <2>5, VsnprintfFits
  <2>7. r[1][1] = t /\ r[1][2] = k /\ r[2] = vsnprintf(call.size, call.format, call.args)
    BY <2>3 DEF call
  <2> QED BY <2>6, <2>7 DEF call
<1>2. Init => Returned
  <2> SUFFICES ASSUME Init PROVE Returned
    OBVIOUS
  <2>1. returned = [t \in Threads |-> <<>>]
    BY DEF Init
  <2> QED BY <2>1 DEF Returned
<1>3. ConsoleInv /\ Returned /\ [Next]_vars => Returned'
  BY ReturnedNext
<1> QED BY <1>1, <1>2, <1>3, ConsoleInvariant, PTL DEF Spec
=============================================================================
